-------------------------- MODULE MCEMdFConnection --------------------------
(***************************************************************************)
(* Instance of the transaction protocol for TLC.                           *)
(***************************************************************************)
EXTENDS EMdFConnection
=============================================================================
