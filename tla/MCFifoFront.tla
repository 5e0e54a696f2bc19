----------------------------- MODULE MCFifoFront -----------------------------
(***************************************************************************)
(* An instance of FifoFront for TLC.                                       *)
(***************************************************************************)
EXTENDS FifoFront
==============================================================================
