--------------------------- MODULE OrderedCommands ---------------------------
(* What the command queue promises the API: commands are executed in the order *)
(* of their submission, each at most once; none is passed over unless the      *)
(* worker may fail in the middle of a batch.                                   *)
EXTENDS Naturals

CONSTANT MayLose    \* a command may be passed over
VARIABLES
  submitted,        \* number of commands submitted
  last              \* the last command whose execution began

Init == submitted = 0 /\ last = 0

Submit == submitted' = submitted + 1 /\ UNCHANGED last

Execute ==
  /\ \E i \in (last + 1)..submitted : (MayLose \/ i = last + 1) /\ last' = i
  /\ UNCHANGED submitted

Next == Submit \/ Execute

Spec == Init /\ [][Next]_<<submitted, last>>
=============================================================================
