----------------------------- MODULE MCJobQueue -----------------------------
(* Instances of JobQueue for TLC. *)
EXTENDS JobQueue, TLC

\* Processes, keys and rows are interchangeable when every key is periodic or
\* none is; the safety run checks no liveness, so symmetry is sound there.
Interchangeable == Permutations(Procs) \cup Permutations(Keys) \cup Permutations(Ids)
=============================================================================
