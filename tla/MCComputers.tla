---------------------------- MODULE MCComputers -----------------------------
(* Small instances of Computers for TLC.                                   *)
EXTENDS Computers, TLC

\* Checkpoint ids are random, computers and processes have only their names.
StoreSymmetry == Permutations(Ckpt) \cup Permutations(Name) \cup Permutations(Proc)
=============================================================================
