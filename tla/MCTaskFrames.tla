----------------------------- MODULE MCTaskFrames -----------------------------
(***************************************************************************)
(* An instance of TaskFrames for TLC.                                      *)
(***************************************************************************)
EXTENDS TaskFrames, TLC

ThreadSymmetry == Permutations(Threads)
==============================================================================
