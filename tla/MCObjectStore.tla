--------------------------- MODULE MCObjectStore ----------------------------
(***************************************************************************)
(* Instances of the object store for TLC: MCObjectStore.cfg checks Spec,   *)
(* MCObjectStoreQuery.cfg the histories of QuerySpec.                      *)
(***************************************************************************)
EXTENDS ObjectStore

\* A program that uses no transactions of its own: its queries see more
\* objects and more monads within the same bounds on the state space.
QueryNext ==
    \/ \E t \in Types : createObjectType(t) \/ dropObjectType(t)
    \/ CreateObject \/ DropObject \/ DropObjectsInMonads
    \/ useDatabase

QuerySpec == Init /\ [][QueryNext]_vars
=============================================================================
