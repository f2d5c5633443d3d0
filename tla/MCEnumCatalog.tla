--------------------------- MODULE MCEnumCatalog ----------------------------
(***************************************************************************)
(* Instances for TLC: few labels and values, and lists of one or two       *)
(* changes, so that values can change hands within a statement.            *)
(***************************************************************************)
EXTENDS EnumCatalog
=============================================================================
