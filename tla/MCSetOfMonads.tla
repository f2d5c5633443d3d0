--------------------------- MODULE MCSetOfMonads ----------------------------
(***************************************************************************)
(* Instance for TLC: every pair of sets of monads up to MaxMonad is        *)
(* reachable, so the properties are checked for every pair.                *)
(***************************************************************************)
EXTENDS CompactMonads, FastMonads
=============================================================================
