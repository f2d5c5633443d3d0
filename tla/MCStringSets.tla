---------------------------- MODULE MCStringSets ----------------------------
(***************************************************************************)
(* Instances of the string sets for TLC.                                   *)
(***************************************************************************)
EXTENDS StringSets
=============================================================================
