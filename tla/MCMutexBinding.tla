---------------------------- MODULE MCMutexBinding ----------------------------
(***************************************************************************)
(* An instance of MutexBinding for TLC.                                    *)
(***************************************************************************)
EXTENDS MutexBinding
==============================================================================
