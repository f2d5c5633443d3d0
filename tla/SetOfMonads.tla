---------------------------- MODULE SetOfMonads -----------------------------
(***************************************************************************)
(* Two SetOfMonads objects, a and b, and every method that changes one of  *)
(* them, in any order.  The methods keep m_first, m_last and the list of   *)
(* ranges up to date separately, so an error in one method only shows when *)
(* a later one relies on what it left behind.                              *)
(***************************************************************************)
EXTENDS Monads

CONSTANTS
    MaxMonad,           \* bound on the monads in use
    OffsetsEmptySets    \* does the program call offset on empty sets too?

ASSUME MaxMonadInUseAssumption == MaxMonad \in 1..(MAX_MONAD - 1)

ASSUME OffsetsEmptySetsAssumption == OffsetsEmptySets \in BOOLEAN

VARIABLES
    a, b,               \* the objects
    call                \* the last method called and its arguments (history)

vars == <<a, b, call>>

Monad == 1..MaxMonad

Init == a = EmptySOM /\ b = EmptySOM /\ call = <<"none", 0, 0>>

Call(method, x, y) == call' = <<method, x, y>>

AddRange(f, l) ==
    f <= l /\ Call("addRange", f, l) /\ a' = addRange(a, f, l) /\ UNCHANGED b

RemoveRange(f, l) ==
    f <= l /\ Call("removeMSE", f, l) /\ a' = removeMSE(a, MSE(f, l)) /\ UNCHANGED b

UnionWith == Call("unionWith", 0, 0) /\ a' = unionWith(a, b) /\ UNCHANGED b

Difference == Call("difference", 0, 0) /\ a' = difference(a, b) /\ UNCHANGED b

Intersect == Call("intersect", 0, 0) /\ a' = intersect(a, b) /\ UNCHANGED b

FillGaps(min_gap) ==
    Call("fillGaps", min_gap, 0) /\ a' = fillGaps(a, min_gap) /\ UNCHANGED b

GetGaps == Call("getGaps", 0, 0) /\ a' = getGaps(a) /\ UNCHANGED b

\* offset has no guard of its own: whether empty sets are offset is up to
\* the program.
Offset(m) ==
    /\ isEmpty(a) => OffsetsEmptySets
    /\ a.last + m <= MaxMonad
    /\ Call("offset", m, 0)
    /\ a' = offset(a, m)
    /\ UNCHANGED b

Clear == Call("clear", 0, 0) /\ a' = clear(a) /\ UNCHANGED b

Exchange == Call("exchange", 0, 0) /\ a' = b /\ b' = a

\* Copy construction (copyOther).
Copy == Call("copyOther", 0, 0) /\ b' = a /\ UNCHANGED a

Next ==
    \/ \E f, l \in Monad : AddRange(f, l) \/ RemoveRange(f, l)
    \/ UnionWith \/ Difference \/ Intersect
    \/ \E g \in Monad : FillGaps(g) \/ Offset(g)
    \/ GetGaps \/ Clear \/ Exchange \/ Copy

Spec == Init /\ [][Next]_vars

-----------------------------------------------------------------------------
\* The meaning of a representation: the monads its ranges cover.
Denotation(s) == UNION {s.mses[i].first .. s.mses[i].last : i \in DOMAIN s.mses}

\* The class invariant written above the class in monads.cpp: every range is
\* non-empty and ends at least two monads before its successor begins.
Canonical(s) ==
    /\ \A i \in DOMAIN s.mses : s.mses[i].first <= s.mses[i].last
    /\ \A i, j \in DOMAIN s.mses : i < j => s.mses[i].last + 1 < s.mses[j].first

\* The cached bounds are exactly the ends of the list, or the values of the
\* empty set.
BoundsExact(s) ==
    IF isEmpty(s) THEN s.first = MAX_MONAD /\ s.last = 0
    ELSE s.first = Head(s.mses).first /\ s.last = Last(s.mses).last

\* Whatever sequence of methods built them, both objects satisfy the class
\* invariant of SetOfMonads and have exact cached bounds.
RepresentationInv == \A s \in {a, b} : Canonical(s) /\ BoundsExact(s)

\* Every method changes the set of monads as set theory says that method does:
\* the objects implement the specification in MonadSets.
Abstract == INSTANCE MonadSets WITH A <- Denotation(a), B <- Denotation(b),
                                    Monad <- 1..MaxMonad
RefinesMonadSets == Abstract!Spec

\* What the comment on addMSE says: it "is equivalent to a union with the set
\* of monads represented by the MonadSetElement".
AddIsUnion ==
    \A f \in Monad : \A l \in f..MaxMonad :
        Denotation(addRange(a, f, l)) = Denotation(a) \cup (f..l)

-----------------------------------------------------------------------------
\* part_of and overlap, which walk two lists, agree with set inclusion and
\* with a non-empty intersection.  part_of of an empty set is left out: with
\* several ranges on the other side the code reads past the end of its list.
PairTestsCorrect ==
    /\ ~isEmpty(a) => (part_of(a, b) <=> Denotation(a) \subseteq Denotation(b))
    /\ overlap(a, b) <=> Denotation(a) \cap Denotation(b) # {}
    /\ ~isEmpty(a) => (starts_in(a, b) <=> a.first \in Denotation(b))

\* The searches that stop at the first decisive range agree with membership,
\* wherever in the list a membership hint was left by an earlier search.
SearchesCorrect ==
    LET S == Denotation(a)
    IN  \A m \in Monad :
            /\ isMemberOf(a, m) <=> m \in S
            /\ \A h \in DOMAIN a.mses :
                  LET r == isMemberOfHint(a, m, h)
                  IN  /\ r.answer <=> m \in S
                      /\ m <= a.last => r.hint \in DOMAIN a.mses
            /\ \A l \in m..MaxMonad :
                  hasMonadsInRange(a, m, l) <=> (m..l) \cap S # {}

\* gapExists answers only for a monad that begins a gap and then returns that
\* gap's last monad; hasLargerGap agrees with the gaps getGaps returns; and
\* fillGaps leaves only gaps of at least min_gap monads.
GapsCorrect ==
    LET gaps == getGaps(a)
    IN  /\ \A Sm \in Monad :
              LET i == SelectInSeq(gaps.mses, LAMBDA e : e.first = Sm)
              IN  gapExists(a, Sm) = IF i = 0 THEN 0 ELSE gaps.mses[i].last
        /\ \A n \in Monad :
              /\ hasLargerGap(a, n) <=>
                    \E i \in DOMAIN gaps.mses :
                       gaps.mses[i].last - gaps.mses[i].first + 2 > n
              /\ \A i \in DOMAIN getGaps(fillGaps(a, n)).mses :
                    LET g == getGaps(fillGaps(a, n)).mses[i]
                    IN  g.last - g.first + 1 >= n

\* fillInsertRange keeps the monads before the insertion point, moves every
\* other monad up by the length of the range, and leaves a representation
\* that satisfies the class invariant.
FillInsertKeepsMonads ==
    \A f \in Monad : \A l \in f..MaxMonad :
        LET r == fillInsertRange(a, f, l)
            S == Denotation(a)
        IN  ~isEmpty(a) =>
              /\ Canonical(r) /\ BoundsExact(r)
              /\ {m \in S : m < f} \subseteq Denotation(r)
              /\ {m + (l - f + 1) : m \in {x \in S : x >= f}} \subseteq Denotation(r)
=============================================================================
