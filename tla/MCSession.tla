----------------------------- MODULE MCSession -----------------------------
(***************************************************************************)
(* Instances of Session for TLC.                                           *)
(***************************************************************************)
EXTENDS Session, TLC

WorkerSymmetry == Permutations(Worker) \cup Permutations(Guard)

=============================================================================
