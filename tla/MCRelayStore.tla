---------------------------- MODULE MCRelayStore ----------------------------
(* The store on a small instance. *)
EXTENDS RelayStore, TLC

CONSTANTS r1, r2, r3, j1, j2

\* Requests and jobs are only ever compared with each other.
Symmetry == Permutations(RequestIds) \cup Permutations(JobIds)

=============================================================================
