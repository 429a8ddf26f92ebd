----------------------------- MODULE MCCoderRun -----------------------------
(***************************************************************************)
(* CoderRun on small instances.                                            *)
(***************************************************************************)
EXTENDS CoderRun, TLC

\* Ids of rows carry no order: for runs without liveness properties.
RowSymmetry == Permutations(Approvals) \cup Permutations(Runs)

ContendedSymmetry ==
  Permutations(Approvals) \cup Permutations(Workers) \cup Permutations(Requests)

=============================================================================
