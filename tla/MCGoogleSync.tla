---------------------------- MODULE MCGoogleSync ----------------------------
(* Instances of GoogleSync for TLC. *)
EXTENDS GoogleSync, TLC

\* Event ids, Google ids and pull jobs are interchangeable; used by the runs that
\* check no liveness.
Interchangeable == Permutations(Events) \cup Permutations(Remotes) \cup Permutations(Pullers)
=============================================================================
