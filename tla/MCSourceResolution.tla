-------------------------- MODULE MCSourceResolution --------------------------
(* SourceResolution for TLC: a stderr holds at most three of the phrases     *)
EXTENDS SourceResolution

ThreePhrases == {{}} \cup {{p, q, r} : p, q, r \in Phrase}
=============================================================================
