------------------------ MODULE MCRecordingLifecycle ------------------------
(* Instances of RecordingLifecycle for TLC. *)
EXTENDS RecordingLifecycle, TLC

CONSTANTS c1, r1, r2, k1

Recordings == Permutations(Rec)

\* For liveness, where symmetry is unsound: the recordings' names carry no order,
\* so of two behaviours that differ in the names the one that launches r1 first
\* stands for both.
LaunchOrder == proc[r2] # "unborn" => proc[r1] # "unborn"
=============================================================================
