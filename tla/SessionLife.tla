----------------------------- MODULE SessionLife -----------------------------
(***************************************************************************)
(* What the session table promises: a recording session is opened once,    *)
(* ends at most once for good, and is forgotten only after it ended or     *)
(* when nobody works for it any more.  RecordingSessions implements it.    *)
(* An end is the column ended_at: what becomes of the column status        *)
(* afterwards is not told apart here.                                      *)
(***************************************************************************)
CONSTANT Session

VARIABLES
  life,   \* how far each session's record has come
  used    \* sessions some thread still works for

vars == <<life, used>>

Life == {"unborn", "open", "ended", "forgotten"}

Init == life = [s \in Session |-> "unborn"] /\ used = {}

\* a session may have ended before its record is written
Open(s) ==
  /\ life[s] = "unborn"
  /\ \E l \in {"open", "ended"} : life' = [life EXCEPT ![s] = l]
  /\ UNCHANGED used

End(s) ==
  /\ life[s] = "open"
  /\ life' = [life EXCEPT ![s] = "ended"]
  /\ UNCHANGED used

\* retention forgets any number of sessions at once
Forget(S) ==
  /\ \A s \in S : life[s] = "ended" \/ (life[s] = "open" /\ s \notin used)
  /\ life' = [s \in Session |-> IF s \in S THEN "forgotten" ELSE life[s]]
  /\ UNCHANGED used

\* threads take up and leave sessions, whatever has become of these
Work == used' \in SUBSET Session /\ UNCHANGED life

Next == Work \/ (\E s \in Session : Open(s) \/ End(s)) \/ (\E S \in SUBSET Session : Forget(S))

Spec == Init /\ [][Next]_vars
=============================================================================
