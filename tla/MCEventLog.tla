---------------------------- MODULE MCEventLog ----------------------------
(* EventLog for TLC. *)
EXTENDS EventLog, TLC

OneExcuse == {"private"}
TwoFailures == {[category |-> "source_unstable", message |-> "missing"],
                [category |-> "process_failure", message |-> "died"]}
OneFailure == {[category |-> "source_unstable", message |-> "missing"]}

\* every property quantifies over all sessions and all channels
Symmetric == Permutations(Session) \cup Permutations(Channel)
=============================================================================
