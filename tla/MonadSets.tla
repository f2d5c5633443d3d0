----------------------------- MODULE MonadSets ------------------------------
(***************************************************************************)
(* What class SetOfMonads promises: two variables that hold finite sets of *)
(* monads, and the set-theoretic meaning of each operation that changes    *)
(* one of them.  SetOfMonads.tla implements this specification.  The last  *)
(* call is part of the state, so that an implementation has to do what     *)
(* the operation called does, and not what some other one would do.        *)
(***************************************************************************)
EXTENDS Integers, FiniteSets

CONSTANT Monad          \* the monads in use

VARIABLES
    A, B,               \* the sets held by two SetOfMonads objects
    call                \* the last operation and its arguments

Init == A = {} /\ B = {} /\ call = <<"none", 0, 0>>

Gaps(S) == {m \in Monad \ S : \E l, r \in S : l < m /\ m < r}

\* The maximal run of missing monads around m.
GapAround(S, m) == {g \in Gaps(S) : \A x \in S : (x < m) <=> (x < g)}

Call(op, x, y, S) == call' = <<op, x, y>> /\ A' = S /\ UNCHANGED B

Next ==
    \/ \E f, l \in Monad : f <= l /\ Call("addRange", f, l, A \cup (f..l))
    \/ \E f, l \in Monad : f <= l /\ Call("removeMSE", f, l, A \ (f..l))
    \/ Call("unionWith", 0, 0, A \cup B)
    \/ Call("difference", 0, 0, A \ B)
    \/ Call("intersect", 0, 0, A \cap B)
    \/ Call("getGaps", 0, 0, Gaps(A))
    \/ \E g \in Monad :
          Call("fillGaps", g, 0,
               A \cup {m \in Gaps(A) : Cardinality(GapAround(A, m)) < g})
    \/ \E n \in Monad : Call("offset", n, 0, {m + n : m \in A})
    \/ Call("clear", 0, 0, {})
    \/ call' = <<"exchange", 0, 0>> /\ A' = B /\ B' = A
    \/ call' = <<"copyOther", 0, 0>> /\ A' = A /\ B' = A

Spec == Init /\ [][Next]_<<A, B, call>>
=============================================================================
