------------------------- MODULE SetOfMonads_proofs -------------------------
(***************************************************************************)
(* The methods of class SetOfMonads implement sets of monads, and what is  *)
(* stored of a set is read back as that set; class FastSetOfMonads does    *)
(* what SetOfMonads does: for every bound on the monads and sets of any    *)
(* number of ranges, and wherever offset is not applied to an empty set.   *)
(***************************************************************************)
EXTENDS CompactMonads, FastMonads, Monads_proofs

-----------------------------------------------------------------------------
\* The inductive invariant: the objects are representations that satisfy the
\* class invariant, with exact bounds, and hold monads in use only.
InUse(s) == s \in Rep /\ \A x \in Nat : Covers(s.mses, x) => x <= MaxMonad

ObjectsInv == InUse(a) /\ InUse(b)

\* The bounds of the model: every monad in use lies below the bound of the empty set.
LEMMA Bounds == MaxMonad \in Nat /\ MAX_MONAD \in Nat /\ MaxMonad < MAX_MONAD
  BY MaxMonadAssumption, MaxMonadInUseAssumption

\* A set in use is one the lemmas on the methods are about.
LEMMA InUseUsed ==
    ASSUME NEW s, InUse(s)
    PROVE  Used(s) /\ s \in Rep
  BY Bounds DEF InUse, Used

\* What a representation denotes.
LEMMA Denotes ==
    ASSUME NEW s \in Rep
    PROVE  /\ \A x : x \in Denotation(s) <=> x \in Nat /\ Covers(s.mses, x)
           /\ Denotation(s) \in SUBSET (Nat \ {0})
  <1> DEFINE q == s.mses
  <1>1. q \in Seq(Stretch) /\ Len(q) \in Nat /\ DOMAIN q = 1 .. Len(q) /\ Good(q)
    BY RepParts, ListEnds
  <1>2. \A i \in 1 .. Len(q) : q[i].first \in Nat /\ q[i].last \in Nat /\ 1 <= q[i].first
    BY <1>1, ListAscends
  <1>3. \A x : x \in Denotation(s) <=> \E i \in 1 .. Len(q) : x \in q[i].first .. q[i].last
    BY <1>1 DEF Denotation
  <1>4. \A x : \A i \in 1 .. Len(q) :
           x \in q[i].first .. q[i].last <=> x \in Nat /\ q[i].first <= x /\ x <= q[i].last
    <2> SUFFICES ASSUME NEW x, NEW i \in 1 .. Len(q)
                 PROVE  x \in q[i].first .. q[i].last
                           <=> x \in Nat /\ q[i].first <= x /\ x <= q[i].last
      OBVIOUS
    <2> DEFINE f == q[i].first
               l == q[i].last
    <2>1. f \in Nat /\ l \in Nat
      BY <1>2
    <2> HIDE DEF f, l
    <2>2. x \in f .. l <=> x \in Nat /\ f <= x /\ x <= l
      BY <2>1
    <2> QED  BY <2>2 DEF f, l
  <1>5. \A x : x \in Denotation(s) <=> x \in Nat /\ Covers(q, x)
    BY <1>3, <1>4 DEF Covers, In
  <1>6. \A x \in Nat : Covers(q, x) => x # 0
    <2> SUFFICES ASSUME NEW x \in Nat, NEW i \in 1 .. Len(q), q[i].first <= x PROVE x # 0
      BY DEF Covers, In
    <2> DEFINE f == q[i].first
    <2>1. f \in Nat /\ 1 <= f /\ f <= x
      BY <1>2
    <2> HIDE DEF f
    <2> QED  BY <2>1
  <1> QED  BY <1>5, <1>6

\* A set in use denotes a set of the abstract specification.
LEMMA DenotesMonads ==
    ASSUME NEW s, InUse(s)
    PROVE  Denotation(s) \in SUBSET (1 .. MaxMonad)
  <1>1. \A x \in Denotation(s) : x \in Nat \ {0} /\ x <= MaxMonad
    BY Denotes DEF InUse
  <1> QED  BY <1>1, Bounds

\* A representation of a set of monads in use.
LEMMA UseOf ==
    ASSUME NEW s \in Rep, NEW S \in SUBSET (1 .. MaxMonad),
           \A x \in Nat : Covers(s.mses, x) <=> x \in S
    PROVE  InUse(s) /\ Denotation(s) = S
  <1>1. \A x \in S : x \in Nat /\ x <= MaxMonad
    BY Bounds
  <1>2. \A x : x \in Denotation(s) <=> x \in Nat /\ Covers(s.mses, x)
    BY Denotes
  <1>3. Denotation(s) = S
    BY <1>1, <1>2
  <1> QED  BY <1>1, <1>3 DEF InUse

\* The monads of a range.
LEMMA RangeMonads ==
    ASSUME NEW f \in Monad, NEW l \in Monad, f <= l
    PROVE  /\ MSE(f, l) \in Stretch /\ MSE(f, l).first <= MAX_MONAD
           /\ (f .. l) \in SUBSET (1 .. MaxMonad)
           /\ \A x \in Nat : In(MSE(f, l), x) <=> x \in f .. l
  <1>1. f \in Nat /\ l \in Nat /\ 1 <= f /\ l <= MaxMonad /\ f <= MaxMonad
    BY Bounds DEF Monad
  <1>2. MSE(f, l) \in Stretch /\ MSE(f, l).first = f /\ MSE(f, l).last = l
    BY <1>1, StretchTypes
  <1>3. f <= MAX_MONAD /\ (f .. l) \in SUBSET (1 .. MaxMonad)
    BY <1>1, Bounds
  <1>4. \A x \in Nat : In(MSE(f, l), x) <=> f <= x /\ x <= l
    BY <1>2 DEF In
  <1> QED  BY <1>1, <1>2, <1>3, <1>4

-----------------------------------------------------------------------------
\* What each method does to the set of monads.

\* Adding a range is a union.
LEMMA AddRangeMeans ==
    ASSUME NEW s, InUse(s), NEW f \in Monad, NEW l \in Monad, f <= l
    PROVE  /\ InUse(addRange(s, f, l))
           /\ Denotation(addRange(s, f, l)) = Denotation(s) \cup (f .. l)
  <1> DEFINE r == addRange(s, f, l)
  <1>1. r = addMSE(s, MSE(f, l)) /\ s \in Rep
    BY InUseUsed DEF addRange
  <1>2. r \in Rep /\ \A x \in Nat : Covers(r.mses, x) <=> Covers(s.mses, x) \/ In(MSE(f, l), x)
    BY <1>1, AddRep, RangeMonads
  <1>3. \A x \in Nat : Covers(r.mses, x) <=> x \in Denotation(s) \cup (f .. l)
    BY <1>1, <1>2, Denotes, RangeMonads
  <1>4. Denotation(s) \cup (f .. l) \in SUBSET (1 .. MaxMonad)
    BY DenotesMonads, RangeMonads
  <1> QED  BY <1>2, <1>3, <1>4, UseOf

\* Removing a range is a difference.
LEMMA RemoveRangeMeans ==
    ASSUME NEW s, InUse(s), NEW f \in Monad, NEW l \in Monad, f <= l
    PROVE  /\ InUse(removeMSE(s, MSE(f, l)))
           /\ Denotation(removeMSE(s, MSE(f, l))) = Denotation(s) \ (f .. l)
  <1> DEFINE r == removeMSE(s, MSE(f, l))
  <1>1. s \in Rep
    BY InUseUsed
  <1>2. r \in Rep /\ \A x \in Nat : Covers(r.mses, x) <=> Covers(s.mses, x) /\ ~In(MSE(f, l), x)
    BY <1>1, RemoveRep, RangeMonads
  <1>3. \A x \in Nat : Covers(r.mses, x) <=> x \in Denotation(s) \ (f .. l)
    BY <1>1, <1>2, Denotes, RangeMonads
  <1>4. Denotation(s) \ (f .. l) \in SUBSET (1 .. MaxMonad)
    BY DenotesMonads
  <1> QED  BY <1>2, <1>3, <1>4, UseOf

\* unionWith, difference and intersect are what they are called.
LEMMA SetMethodsMean ==
    ASSUME NEW s, InUse(s), NEW t, InUse(t)
    PROVE  /\ InUse(unionWith(s, t))
           /\ Denotation(unionWith(s, t)) = Denotation(s) \cup Denotation(t)
           /\ InUse(difference(s, t))
           /\ Denotation(difference(s, t)) = Denotation(s) \ Denotation(t)
           /\ InUse(intersect(s, t))
           /\ Denotation(intersect(s, t)) = Denotation(s) \cap Denotation(t)
  <1>1. s \in Rep /\ t \in Rep /\ Used(s) /\ Used(t)
    BY InUseUsed
  <1>2. Denotation(s) \in SUBSET (1 .. MaxMonad) /\ Denotation(t) \in SUBSET (1 .. MaxMonad)
    BY DenotesMonads
  <1>3. \A x \in Nat : /\ x \in Denotation(s) <=> Covers(s.mses, x)
                       /\ x \in Denotation(t) <=> Covers(t.mses, x)
    BY <1>1, Denotes
  <1>4. /\ unionWith(s, t) \in Rep
        /\ \A x \in Nat : Covers(unionWith(s, t).mses, x) <=> x \in Denotation(s) \cup Denotation(t)
    BY <1>1, <1>3, UnionRep
  <1>5. /\ difference(s, t) \in Rep
        /\ \A x \in Nat : Covers(difference(s, t).mses, x) <=> x \in Denotation(s) \ Denotation(t)
    BY <1>1, <1>3, DifferenceRep
  <1>6. /\ intersect(s, t) \in Rep
        /\ \A x \in Nat : Covers(intersect(s, t).mses, x) <=> x \in Denotation(s) \cap Denotation(t)
    BY <1>1, <1>3, IntersectRep
  <1>7. /\ Denotation(s) \cup Denotation(t) \in SUBSET (1 .. MaxMonad)
        /\ Denotation(s) \ Denotation(t) \in SUBSET (1 .. MaxMonad)
        /\ Denotation(s) \cap Denotation(t) \in SUBSET (1 .. MaxMonad)
    BY <1>2
  <1>8. /\ InUse(unionWith(s, t))
        /\ Denotation(unionWith(s, t)) = Denotation(s) \cup Denotation(t)
    BY <1>4, <1>7, UseOf
  <1>9. /\ InUse(difference(s, t))
        /\ Denotation(difference(s, t)) = Denotation(s) \ Denotation(t)
    BY <1>5, <1>7, UseOf
  <1>10. /\ InUse(intersect(s, t))
         /\ Denotation(intersect(s, t)) = Denotation(s) \cap Denotation(t)
    BY <1>6, <1>7, UseOf
  <1> QED  BY <1>8, <1>9, <1>10

\* clear empties a set.
LEMMA ClearMeans ==
    InUse(EmptySOM) /\ Denotation(EmptySOM) = {}
  <1>1. EmptySOM \in Rep /\ \A x \in Nat : Covers(EmptySOM.mses, x) <=> x \in {}
    BY EmptyRep, EmptyList
  <1>2. {} \in SUBSET (1 .. MaxMonad)
    OBVIOUS
  <1> QED  BY <1>1, <1>2, UseOf

\* offset moves the monads of a set that is not empty.
LEMMA OffsetMeans ==
    ASSUME NEW s, InUse(s), ~isEmpty(s), NEW n \in Monad, s.last + n <= MaxMonad
    PROVE  /\ InUse(offset(s, n))
           /\ Denotation(offset(s, n)) = {m + n : m \in Denotation(s)}
  <1> DEFINE r == offset(s, n)
             S == {m + n : m \in Denotation(s)}
  <1>1. s \in Rep /\ s.mses # << >> /\ n \in Nat /\ n \in 1 .. MaxMonad
    BY InUseUsed, Bounds DEF isEmpty, Monad
  <1>2. /\ r \in Rep
        /\ \A y \in Nat : Covers(r.mses, y) <=> \E x \in Nat : y = x + n /\ Covers(s.mses, x)
    BY <1>1, OffsetRep
  <1>3. \A x : x \in Denotation(s) <=> x \in Nat /\ Covers(s.mses, x)
    BY <1>1, Denotes
  <1>4. \A y \in Nat : Covers(r.mses, y) <=> y \in S
    BY <1>2, <1>3
  <1>5. \A x \in Nat : Covers(s.mses, x) => x <= s.last
    BY <1>1, RepEnds
  <1>6. S \in SUBSET (1 .. MaxMonad)
    <2> SUFFICES ASSUME NEW m \in Denotation(s) PROVE m + n \in 1 .. MaxMonad
      OBVIOUS
    <2> DEFINE z == s.last
    <2>1. m \in Nat /\ m <= z /\ z \in Nat /\ z + n <= MaxMonad
      BY <1>1, <1>3, <1>5, RepParts
    <2> HIDE DEF z
    <2> QED  BY <1>1, <2>1, Bounds
  <1> QED  BY <1>2, <1>4, <1>6, UseOf

\* The gaps of a set, on the list of its ranges.
LEMMA GapMonads ==
    ASSUME NEW s, InUse(s)
    PROVE  /\ Abstract!Gaps(Denotation(s)) \in SUBSET (1 .. MaxMonad)
           /\ \A x \in Nat : x \in Abstract!Gaps(Denotation(s))
                                <=> \E i \in 1 .. (Len(s.mses) - 1) : Between(s.mses, i, x)
  <1> DEFINE q == s.mses
             D == Denotation(s)
             G == Abstract!Gaps(D)
  <1>1. s \in Rep /\ Good(q)
    BY InUseUsed, RepParts
  <1>2. \A x : x \in D <=> x \in Nat /\ Covers(q, x)
    BY <1>1, Denotes
  <1>3. D \in SUBSET (1 .. MaxMonad)
    BY DenotesMonads
  <1>4. \A x : x \in G <=> /\ x \in (1 .. MaxMonad) \ D
                           /\ \E l, r \in D : l < x /\ x < r
    BY DEF Abstract!Gaps
  <1> HIDE DEF G, D
  <1>5. ASSUME NEW x \in Nat, x \in G PROVE \E i \in 1 .. (Len(q) - 1) : Between(q, i, x)
    <2>1. PICK l \in D, r \in D : l < x /\ x < r
      BY <1>4, <1>5
    <2>2. l \in Nat /\ r \in Nat /\ Covers(q, l) /\ Covers(q, r) /\ ~Covers(q, x)
      BY <1>2, <1>4, <1>5
    <2> QED  BY <1>1, <2>1, <2>2, GapPosition
  <1>6. ASSUME NEW x \in Nat, NEW i \in 1 .. (Len(q) - 1), Between(q, i, x) PROVE x \in G
    <2> DEFINE l == q[i].last
               r == q[i + 1].first
    <2>1. ~Covers(q, x) /\ Covers(q, l) /\ Covers(q, r)
      BY <1>1, <1>6, BetweenUncovered
    <2>2. l < x /\ x < r
      BY <1>6 DEF Between
    <2>3. Len(q) \in Nat
      BY <1>1, ListEnds
    <2>4. i \in 1 .. Len(q) /\ i + 1 \in 1 .. Len(q)
      BY <2>3
    <2>5. l \in Nat /\ r \in Nat
      BY <1>1, <2>4, ListAscends
    <2> HIDE DEF l, r
    <2>6. l \in D /\ r \in D /\ x \notin D
      BY <1>2, <2>1, <2>5
    <2>7. l \in 1 .. MaxMonad /\ r \in 1 .. MaxMonad
      BY <1>3, <2>6
    <2>8. x \in 1 .. MaxMonad
      BY <2>2, <2>7, Bounds
    <2> QED  BY <1>4, <2>2, <2>6, <2>8
  <1>7. G \in SUBSET (1 .. MaxMonad)
    BY <1>4
  <1> QED  BY <1>5, <1>6, <1>7 DEF G, D

\* getGaps returns the missing monads that have members on both sides.
LEMMA GetGapsMeans ==
    ASSUME NEW s, InUse(s)
    PROVE  /\ InUse(getGaps(s))
           /\ Denotation(getGaps(s)) = Abstract!Gaps(Denotation(s))
  <1> DEFINE G == Abstract!Gaps(Denotation(s))
  <1>1. /\ getGaps(s) \in Rep
        /\ \A x \in Nat : Covers(getGaps(s).mses, x)
                             <=> \E i \in 1 .. (Len(s.mses) - 1) : Between(s.mses, i, x)
    BY InUseUsed, GapsRep
  <1>2. /\ G \in SUBSET (1 .. MaxMonad)
        /\ \A x \in Nat : x \in G <=> \E i \in 1 .. (Len(s.mses) - 1) : Between(s.mses, i, x)
    BY GapMonads
  <1> HIDE DEF G
  <1>3. \A x \in Nat : Covers(getGaps(s).mses, x) <=> x \in G
    BY <1>1, <1>2, Zenon
  <1>4. InUse(getGaps(s)) /\ Denotation(getGaps(s)) = G
    BY <1>1, <1>2, <1>3, UseOf
  <1> QED  BY <1>4 DEF G

\* The run of missing monads around one of them is the gap it lies in.
LEMMA GapSize ==
    ASSUME NEW s, InUse(s), NEW i \in 1 .. (Len(s.mses) - 1), NEW x \in Nat,
           Between(s.mses, i, x)
    PROVE  Cardinality(Abstract!GapAround(Denotation(s), x))
              = s.mses[i + 1].first - s.mses[i].last - 1
  <1> DEFINE q == s.mses
             D == Denotation(s)
             l == q[i].last
             r == q[i + 1].first
             R == Abstract!GapAround(D, x)
  <1>1. s \in Rep /\ Good(q) /\ Len(q) \in Nat
    BY InUseUsed, RepParts, ListEnds
  <1>2. \A y : y \in D <=> y \in Nat /\ Covers(q, y)
    BY <1>1, Denotes
  <1>3. i \in 1 .. Len(q) /\ i + 1 \in 1 .. Len(q)
    BY <1>1
  <1>4. l \in Nat /\ r \in Nat /\ Covers(q, l) /\ Covers(q, r)
    BY <1>1, <1>3, ListAscends, BetweenUncovered
  <1>5. l < x /\ x < r /\ \A y : Between(q, i, y) <=> l < y /\ y < r
    BY DEF Between
  <1>6. \A y \in Nat : y \in Abstract!Gaps(D) <=> \E j \in 1 .. (Len(q) - 1) : Between(q, j, y)
    BY GapMonads
  <1>7. \A y \in Nat : Between(q, i, y) => ~Covers(q, y)
    BY <1>1, BetweenUncovered
  <1>8. \A y : y \in R <=> /\ y \in Abstract!Gaps(D)
                           /\ \A z \in D : z < x <=> z < y
    BY DEF Abstract!GapAround
  <1>9. Abstract!Gaps(D) \in SUBSET (1 .. MaxMonad)
    BY GapMonads
  <1> HIDE DEF R, D, l, r
  <1>10. l \in D /\ r \in D /\ \A z \in D : z \in Nat /\ ~(l < z /\ z < r)
    BY <1>2, <1>4, <1>5, <1>7
  <1>11. R = (l + 1) .. (r - 1)
    <2>1. ASSUME NEW y \in R PROVE y \in (l + 1) .. (r - 1)
      <3>1. y \in Nat /\ (l < x <=> l < y) /\ (r < x <=> r < y) /\ y \in Abstract!Gaps(D)
        BY <1>8, <1>9, <1>10, Bounds
      <3>2. y \notin D
        BY <3>1 DEF Abstract!Gaps
      <3>3. l < y /\ ~(r < y) /\ y # r
        BY <1>4, <1>5, <1>10, <3>1, <3>2
      <3> QED  BY <1>4, <3>1, <3>3
    <2>2. ASSUME NEW y \in (l + 1) .. (r - 1) PROVE y \in R
      <3>1. y \in Nat /\ l < y /\ y < r
        BY <1>4
      <3>2. Between(q, i, y)
        BY <1>5, <3>1
      <3>3. y \in Abstract!Gaps(D)
        BY <1>6, <3>1, <3>2
      <3>4. \A z \in D : z < x <=> z < y
        BY <1>4, <1>5, <1>10, <3>1
      <3> QED  BY <1>8, <3>3, <3>4
    <2> QED  BY <2>1, <2>2
  <1>12. Cardinality((l + 1) .. (r - 1)) = r - l - 1
    <2>1. l + 1 \in Int /\ r - 1 \in Int /\ ~(l + 1 > r - 1)
      BY <1>4, <1>5
    <2>2. Cardinality((l + 1) .. (r - 1)) = (r - 1) - (l + 1) + 1
      BY <2>1, FS_Interval
    <2> QED  BY <1>4, <2>2
  <1> QED  BY <1>11, <1>12 DEF R, D, l, r

\* MonadSets counts as FiniteSets does.
LEMMA SameCardinality == \A S : Abstract!Cardinality(S) = Cardinality(S)
  BY Zenon DEF Abstract!Cardinality, Cardinality

\* fillGaps adds the gaps of fewer than min_gap monads.
LEMMA FillGapsMeans ==
    ASSUME NEW s, InUse(s), NEW g \in Monad
    PROVE  /\ InUse(fillGaps(s, g))
           /\ Denotation(fillGaps(s, g))
                = Denotation(s) \cup
                     {m \in Abstract!Gaps(Denotation(s)) :
                         Abstract!Cardinality(Abstract!GapAround(Denotation(s), m)) < g}
  <1> DEFINE q == s.mses
             n == Len(q)
             D == Denotation(s)
             r == fillGaps(s, g)
             N == {m \in Abstract!Gaps(D) : Abstract!Cardinality(Abstract!GapAround(D, m)) < g}
  <1>1. g \in Nat
    BY Bounds DEF Monad
  <1>2. /\ r \in Rep
        /\ \A x \in Nat : Covers(r.mses, x) <=> Covers(q, x) \/ FilledTo(q, n - 1, g, x)
    BY <1>1, InUseUsed, FillRep
  <1>3. \A x : x \in D <=> x \in Nat /\ Covers(q, x)
    BY InUseUsed, Denotes
  <1>4. /\ Abstract!Gaps(D) \in SUBSET (1 .. MaxMonad)
        /\ \A x \in Nat : x \in Abstract!Gaps(D) <=> \E i \in 1 .. (n - 1) : Between(q, i, x)
    BY GapMonads
  <1>5. \A x \in Nat : \A i \in 1 .. (n - 1) :
           Between(q, i, x) => (Abstract!Cardinality(Abstract!GapAround(D, x)) < g <=> Narrow(q, i, g))
    BY GapSize, SameCardinality DEF Narrow
  <1>6. \A x \in Nat : x \in N <=> FilledTo(q, n - 1, g, x)
    <2>1. \A x : x \in N <=> x \in Abstract!Gaps(D) /\ Abstract!Cardinality(Abstract!GapAround(D, x)) < g
      OBVIOUS
    <2> HIDE DEF N, D, q, n
    <2> QED  BY <1>4, <1>5, <2>1, Zenon DEF FilledTo
  <1>7. D \in SUBSET (1 .. MaxMonad)
    BY DenotesMonads
  <1>8. D \cup N \in SUBSET (1 .. MaxMonad)
    BY <1>4, <1>7
  <1> HIDE DEF N, D, q, n, r
  <1>9. \A x \in Nat : Covers(r.mses, x) <=> x \in D \cup N
    BY <1>2, <1>3, <1>6
  <1>10. InUse(r) /\ Denotation(r) = D \cup N
    BY <1>2, <1>8, <1>9, UseOf
  <1> QED  BY <1>10 DEF r, D, N

-----------------------------------------------------------------------------
\* The specification

\* The initial objects are empty sets in use.
LEMMA ObjectsInit ==
    ASSUME Init
    PROVE  ObjectsInv /\ Abstract!Init
  BY ClearMeans DEF Init, ObjectsInv, Abstract!Init

\* One step of a program that offsets no empty set.
LEMMA ObjectsStep ==
    ASSUME ~OffsetsEmptySets, ObjectsInv, Next
    PROVE  ObjectsInv' /\ Abstract!Next
  <1> DEFINE D == Denotation(a)
             E == Denotation(b)
  <1>1. InUse(a) /\ InUse(b)
    BY DEF ObjectsInv
  <1>2. ASSUME NEW f \in Monad, NEW l \in Monad, AddRange(f, l) PROVE ObjectsInv' /\ Abstract!Next
    <2>1. /\ f <= l /\ call' = <<"addRange", f, l>> /\ a' = addRange(a, f, l) /\ b' = b
      BY <1>2 DEF AddRange, Call
    <2>2. InUse(a') /\ Denotation(a') = D \cup (f .. l)
      BY <1>1, <2>1, AddRangeMeans
    <2>3. Abstract!Call("addRange", f, l, D \cup (f .. l))
      BY <2>1, <2>2 DEF Abstract!Call
    <2> QED  BY <1>1, <2>1, <2>2, <2>3 DEF ObjectsInv, Abstract!Next, Monad
  <1>3. ASSUME NEW f \in Monad, NEW l \in Monad, RemoveRange(f, l)
        PROVE  ObjectsInv' /\ Abstract!Next
    <2>1. /\ f <= l /\ call' = <<"removeMSE", f, l>> /\ a' = removeMSE(a, MSE(f, l)) /\ b' = b
      BY <1>3 DEF RemoveRange, Call
    <2>2. InUse(a') /\ Denotation(a') = D \ (f .. l)
      BY <1>1, <2>1, RemoveRangeMeans
    <2>3. Abstract!Call("removeMSE", f, l, D \ (f .. l))
      BY <2>1, <2>2 DEF Abstract!Call
    <2> QED  BY <1>1, <2>1, <2>2, <2>3 DEF ObjectsInv, Abstract!Next, Monad
  <1>4. CASE UnionWith
    <2>1. call' = <<"unionWith", 0, 0>> /\ a' = unionWith(a, b) /\ b' = b
      BY <1>4 DEF UnionWith, Call
    <2>2. InUse(a') /\ Denotation(a') = D \cup E
      BY <1>1, <2>1, SetMethodsMean
    <2>3. Abstract!Call("unionWith", 0, 0, D \cup E)
      BY <2>1, <2>2 DEF Abstract!Call
    <2> QED  BY <1>1, <2>1, <2>2, <2>3 DEF ObjectsInv, Abstract!Next
  <1>5. CASE Difference
    <2>1. call' = <<"difference", 0, 0>> /\ a' = difference(a, b) /\ b' = b
      BY <1>5 DEF Difference, Call
    <2>2. InUse(a') /\ Denotation(a') = D \ E
      BY <1>1, <2>1, SetMethodsMean
    <2>3. Abstract!Call("difference", 0, 0, D \ E)
      BY <2>1, <2>2 DEF Abstract!Call
    <2> QED  BY <1>1, <2>1, <2>2, <2>3 DEF ObjectsInv, Abstract!Next
  <1>6. CASE Intersect
    <2>1. call' = <<"intersect", 0, 0>> /\ a' = intersect(a, b) /\ b' = b
      BY <1>6 DEF Intersect, Call
    <2>2. InUse(a') /\ Denotation(a') = D \cap E
      BY <1>1, <2>1, SetMethodsMean
    <2>3. Abstract!Call("intersect", 0, 0, D \cap E)
      BY <2>1, <2>2 DEF Abstract!Call
    <2> QED  BY <1>1, <2>1, <2>2, <2>3 DEF ObjectsInv, Abstract!Next
  <1>7. ASSUME NEW g \in Monad, FillGaps(g) PROVE ObjectsInv' /\ Abstract!Next
    <2> DEFINE N == D \cup {m \in Abstract!Gaps(D) : Abstract!Cardinality(Abstract!GapAround(D, m)) < g}
    <2>1. call' = <<"fillGaps", g, 0>> /\ a' = fillGaps(a, g) /\ b' = b
      BY <1>7 DEF FillGaps, Call
    <2>2. InUse(a') /\ Denotation(a') = N
      BY <1>1, <2>1, FillGapsMeans
    <2>3. Abstract!Call("fillGaps", g, 0, N)
      BY <2>1, <2>2 DEF Abstract!Call
    <2> QED  BY <1>1, <2>1, <2>2, <2>3 DEF ObjectsInv, Abstract!Next, Monad
  <1>8. ASSUME NEW n \in Monad, Offset(n) PROVE ObjectsInv' /\ Abstract!Next
    <2>1. /\ ~isEmpty(a) /\ a.last + n <= MaxMonad
          /\ call' = <<"offset", n, 0>> /\ a' = offset(a, n) /\ b' = b
      BY <1>8 DEF Offset, Call
    <2>2. InUse(a') /\ Denotation(a') = {m + n : m \in D}
      BY <1>1, <2>1, OffsetMeans
    <2>3. Abstract!Call("offset", n, 0, {m + n : m \in D})
      BY <2>1, <2>2 DEF Abstract!Call
    <2> QED  BY <1>1, <2>1, <2>2, <2>3 DEF ObjectsInv, Abstract!Next, Monad
  <1>9. CASE GetGaps
    <2>1. call' = <<"getGaps", 0, 0>> /\ a' = getGaps(a) /\ b' = b
      BY <1>9 DEF GetGaps, Call
    <2>2. InUse(a') /\ Denotation(a') = Abstract!Gaps(D)
      BY <1>1, <2>1, GetGapsMeans
    <2>3. Abstract!Call("getGaps", 0, 0, Abstract!Gaps(D))
      BY <2>1, <2>2 DEF Abstract!Call
    <2> QED  BY <1>1, <2>1, <2>2, <2>3 DEF ObjectsInv, Abstract!Next
  <1>10. CASE Clear
    <2>1. call' = <<"clear", 0, 0>> /\ a' = EmptySOM /\ b' = b
      BY <1>10 DEF Clear, Call, clear
    <2>2. InUse(a') /\ Denotation(a') = {}
      BY <2>1, ClearMeans
    <2>3. Abstract!Call("clear", 0, 0, {})
      BY <2>1, <2>2 DEF Abstract!Call
    <2> QED  BY <1>1, <2>1, <2>2, <2>3 DEF ObjectsInv, Abstract!Next
  <1>11. CASE Exchange
    <2>1. call' = <<"exchange", 0, 0>> /\ a' = b /\ b' = a
      BY <1>11 DEF Exchange, Call
    <2> QED  BY <1>1, <2>1 DEF ObjectsInv, Abstract!Next
  <1>12. CASE Copy
    <2>1. call' = <<"copyOther", 0, 0>> /\ a' = a /\ b' = a
      BY <1>12 DEF Copy, Call
    <2> QED  BY <1>1, <2>1 DEF ObjectsInv, Abstract!Next
  <1> QED  BY <1>2, <1>3, <1>4, <1>5, <1>6, <1>7, <1>8, <1>9, <1>10, <1>11, <1>12 DEF Next

\* Both objects always are representations of sets of monads in use that
\* satisfy the class invariant, as long as no empty set is offset.
THEOREM ObjectsInvariant == ~OffsetsEmptySets => (Spec => []ObjectsInv)
  <1> SUFFICES ASSUME ~OffsetsEmptySets PROVE Spec => []ObjectsInv
    OBVIOUS
  <1>1. Init => ObjectsInv
    BY ObjectsInit
  <1>2. ObjectsInv /\ [Next]_vars => ObjectsInv'
    <2>1. CASE Next
      BY <2>1, ObjectsStep
    <2>2. CASE UNCHANGED vars
      BY <2>2 DEF vars, ObjectsInv
    <2> QED  BY <2>1, <2>2
  <1> QED  BY <1>1, <1>2, PTL DEF Spec

\* Every method does to the set of monads what MonadSets says of it, as long
\* as no empty set is offset: the lists of ranges implement sets of monads.
THEOREM MethodsImplementSets == ~OffsetsEmptySets => (Spec => RefinesMonadSets)
  <1> SUFFICES ASSUME ~OffsetsEmptySets PROVE Spec => RefinesMonadSets
    OBVIOUS
  <1>1. Init => Abstract!Init
    BY ObjectsInit
  <1>2. ObjectsInv /\ [Next]_vars
           => [Abstract!Next]_<<Denotation(a), Denotation(b), call>>
    <2>1. CASE Next
      BY <2>1, ObjectsStep
    <2>2. CASE UNCHANGED vars
      BY <2>2 DEF vars
    <2> QED  BY <2>1, <2>2
  <1>3. Spec => []ObjectsInv
    BY ObjectsInvariant
  <1> QED  BY <1>1, <1>2, <1>3, PTL DEF Spec, RefinesMonadSets, Abstract!Spec

\* A representation has the class invariant and exact bounds.
LEMMA RepSound ==
    ASSUME NEW s \in Rep
    PROVE  Canonical(s) /\ BoundsExact(s)
  <1> DEFINE q == s.mses
  <1>1. Good(q) /\ Exact(s) /\ Len(q) \in Nat /\ q \in Seq(Stretch)
    BY RepParts, ListEnds
  <1>2. DOMAIN q = 1 .. Len(q)
    BY <1>1
  <1>3. Canonical(s)
    BY <1>1, <1>2, ListAscends DEF Canonical
  <1>4. q # << >> => Head(q) = q[1] /\ Last(q) = q[Len(q)]
    BY <1>1 DEF Last
  <1> QED  BY <1>1, <1>3, <1>4 DEF BoundsExact, Exact, isEmpty

\* The class invariant and the cached bounds, whatever sequence of methods
\* built the objects, as long as no empty set is offset.
THEOREM RepresentationAlwaysSound == ~OffsetsEmptySets => (Spec => []RepresentationInv)
  <1> SUFFICES ASSUME ~OffsetsEmptySets PROVE Spec => []RepresentationInv
    OBVIOUS
  <1>1. ObjectsInv => RepresentationInv
    BY InUseUsed, RepSound DEF ObjectsInv, RepresentationInv
  <1>2. Spec => []ObjectsInv
    BY ObjectsInvariant
  <1> QED  BY <1>1, <1>2, PTL

\* addMSE is a union with the range added, as its comment says, as long as no
\* empty set is offset.
THEOREM AddAlwaysUnites == ~OffsetsEmptySets => (Spec => []AddIsUnion)
  <1> SUFFICES ASSUME ~OffsetsEmptySets PROVE Spec => []AddIsUnion
    OBVIOUS
  <1>1. ObjectsInv => AddIsUnion
    <2> SUFFICES ASSUME ObjectsInv, NEW f \in Monad, NEW l \in f .. MaxMonad
                 PROVE  Denotation(addRange(a, f, l)) = Denotation(a) \cup (f .. l)
      BY DEF AddIsUnion
    <2>1. l \in Monad /\ f <= l
      BY Bounds DEF Monad
    <2> QED  BY <2>1, AddRangeMeans DEF ObjectsInv
  <1>2. Spec => []ObjectsInv
    BY ObjectsInvariant
  <1> QED  BY <1>1, <1>2, PTL

-----------------------------------------------------------------------------
\* The tests and searches

\* part_of, overlap and starts_in agree with inclusion, a non-empty
\* intersection and membership, on all pairs of objects the methods build.
THEOREM PairTestsAlwaysCorrect == ~OffsetsEmptySets => (Spec => []PairTestsCorrect)
  <1> SUFFICES ASSUME ~OffsetsEmptySets PROVE Spec => []PairTestsCorrect
    OBVIOUS
  <1>1. ObjectsInv => PairTestsCorrect
    <2> SUFFICES ASSUME ObjectsInv PROVE PairTestsCorrect
      OBVIOUS
    <2>1. InUse(a) /\ InUse(b) /\ a \in Rep /\ b \in Rep /\ Used(a)
      BY InUseUsed DEF ObjectsInv
    <2>2. /\ \A x : x \in Denotation(a) <=> x \in Nat /\ Covers(a.mses, x)
          /\ \A x : x \in Denotation(b) <=> x \in Nat /\ Covers(b.mses, x)
      BY <2>1, Denotes
    <2>3. ~isEmpty(a) => (part_of(a, b) <=> Denotation(a) \subseteq Denotation(b))
      <3> SUFFICES ASSUME ~isEmpty(a)
                   PROVE  part_of(a, b) <=> Denotation(a) \subseteq Denotation(b)
        OBVIOUS
      <3>1. a.mses # << >>
        BY DEF isEmpty
      <3>2. \A x \in Nat : Covers(a.mses, x) => x < MAX_MONAD
        BY <2>1, Bounds DEF InUse
      <3>3. part_of(a, b) <=> \A x \in Nat : Covers(a.mses, x) => Covers(b.mses, x)
        BY <2>1, <3>1, <3>2, PartExact
      <3> QED  BY <2>2, <3>3
    <2>4. overlap(a, b) <=> Denotation(a) \cap Denotation(b) # {}
      BY <2>1, <2>2, OverlapExact
    <2>5. starts_in(a, b) <=> a.first \in Denotation(b)
      <3>1. a.first \in Nat
        BY <2>1, RepParts
      <3>2. isMemberOf(b, a.first) <=> Covers(b.mses, a.first)
        BY <2>1, <3>1, MemberExact
      <3> QED  BY <2>2, <3>1, <3>2 DEF starts_in
    <2> QED  BY <2>3, <2>4, <2>5 DEF PairTestsCorrect
  <1>2. Spec => []ObjectsInv
    BY ObjectsInvariant
  <1> QED  BY <1>1, <1>2, PTL

\* isMemberOf, with a hint and without, and hasMonadsInRange agree with
\* membership, on all objects the methods build.
THEOREM SearchesAlwaysCorrect == ~OffsetsEmptySets => (Spec => []SearchesCorrect)
  <1> SUFFICES ASSUME ~OffsetsEmptySets PROVE Spec => []SearchesCorrect
    OBVIOUS
  <1>1. ObjectsInv => SearchesCorrect
    <2> SUFFICES ASSUME ObjectsInv, NEW m \in Monad
                 PROVE  /\ isMemberOf(a, m) <=> m \in Denotation(a)
                        /\ \A h \in DOMAIN a.mses :
                              LET r == isMemberOfHint(a, m, h)
                              IN  /\ r.answer <=> m \in Denotation(a)
                                  /\ m <= a.last => r.hint \in DOMAIN a.mses
                        /\ \A l \in m .. MaxMonad :
                              hasMonadsInRange(a, m, l) <=> (m .. l) \cap Denotation(a) # {}
      BY Zenon DEF SearchesCorrect
    <2>1. a \in Rep /\ m \in Nat
      BY InUseUsed, Bounds DEF ObjectsInv, Monad
    <2>2. \A x : x \in Denotation(a) <=> x \in Nat /\ Covers(a.mses, x)
      BY <2>1, Denotes
    <2>3. isMemberOf(a, m) <=> m \in Denotation(a)
      BY <2>1, <2>2, MemberExact
    <2>4. DOMAIN a.mses = 1 .. Len(a.mses)
      BY <2>1, RepParts, ListEnds
    <2>5. \A h \in DOMAIN a.mses :
             /\ isMemberOfHint(a, m, h).answer <=> m \in Denotation(a)
             /\ m <= a.last => isMemberOfHint(a, m, h).hint \in DOMAIN a.mses
      BY <2>1, <2>2, <2>4, HintExact
    <2>6. ASSUME NEW l \in m .. MaxMonad
          PROVE  hasMonadsInRange(a, m, l) <=> (m .. l) \cap Denotation(a) # {}
      <3>1. l \in Nat /\ m <= l /\ \A x \in m .. l : x \in Nat
        BY <2>1, Bounds
      <3>2. hasMonadsInRange(a, m, l) <=> \E x \in m .. l : Covers(a.mses, x)
        BY <2>1, <3>1, RangeExact
      <3> QED  BY <2>2, <3>1, <3>2
    <2> QED  BY <2>3, <2>5, <2>6
  <1>2. Spec => []ObjectsInv
    BY ObjectsInvariant
  <1> QED  BY <1>1, <1>2, PTL

\* fillInsertRange loses no monad of a set that is not empty and leaves a
\* sound representation, for all objects the methods build.
THEOREM FillInsertAlwaysKeeps == ~OffsetsEmptySets => (Spec => []FillInsertKeepsMonads)
  <1> SUFFICES ASSUME ~OffsetsEmptySets PROVE Spec => []FillInsertKeepsMonads
    OBVIOUS
  <1>1. ObjectsInv => FillInsertKeepsMonads
    <2> SUFFICES ASSUME ObjectsInv, NEW f \in Monad, NEW l \in f .. MaxMonad, ~isEmpty(a)
                 PROVE  LET r == fillInsertRange(a, f, l)
                            S == Denotation(a)
                        IN  /\ Canonical(r) /\ BoundsExact(r)
                            /\ {m \in S : m < f} \subseteq Denotation(r)
                            /\ {m + (l - f + 1) : m \in {x \in S : x >= f}} \subseteq Denotation(r)
      BY Zenon DEF FillInsertKeepsMonads
    <2> DEFINE r == fillInsertRange(a, f, l)
               d == l - f + 1
    <2>1. a \in Rep /\ Used(a) /\ a.mses # << >>
      BY InUseUsed DEF ObjectsInv, isEmpty
    <2>2. f \in Nat /\ l \in Nat /\ 1 <= f /\ f <= l /\ d \in Nat
      BY Bounds DEF Monad
    <2>3. /\ r \in Rep
          /\ \A x \in Nat : Covers(a.mses, x) /\ x < f => Covers(r.mses, x)
          /\ \A x \in Nat : Covers(a.mses, x) /\ x >= f => Covers(r.mses, x + d)
      BY <2>1, <2>2, FillInsertRep
    <2>4. /\ \A x : x \in Denotation(a) <=> x \in Nat /\ Covers(a.mses, x)
          /\ \A x : x \in Denotation(r) <=> x \in Nat /\ Covers(r.mses, x)
      BY <2>1, <2>3, Denotes
    <2>5. Canonical(r) /\ BoundsExact(r)
      BY <2>3, RepSound
    <2> HIDE DEF r, d
    <2>6. \A x \in Nat : x + d \in Nat
      BY <2>2
    <2>7. {m \in Denotation(a) : m < f} \subseteq Denotation(r)
      BY <2>3, <2>4
    <2>8. {m + d : m \in {x \in Denotation(a) : x >= f}} \subseteq Denotation(r)
      BY <2>3, <2>4, <2>6
    <2> QED  BY <2>5, <2>7, <2>8 DEF r, d
  <1>2. Spec => []ObjectsInv
    BY ObjectsInvariant
  <1> QED  BY <1>1, <1>2, PTL

\* gapExists and hasLargerGap agree with the list of gaps, and fillGaps leaves
\* no gap of fewer than min_gap monads, for all objects the methods build.
THEOREM GapsAlwaysCorrect == ~OffsetsEmptySets => (Spec => []GapsCorrect)
  <1> SUFFICES ASSUME ~OffsetsEmptySets PROVE Spec => []GapsCorrect
    OBVIOUS
  <1>1. ObjectsInv => GapsCorrect
    <2> SUFFICES ASSUME ObjectsInv PROVE GapsCorrect
      OBVIOUS
    <2> DEFINE q == a.mses
               n == Len(q)
               g == getGaps(a).mses
    <2>1. InUse(a) /\ a \in Rep /\ Used(a) /\ Good(q) /\ n \in Nat
      BY InUseUsed, RepParts, ListEnds DEF ObjectsInv
    <2>2. \A x \in Nat : Covers(q, x) => x < MAX_MONAD
      BY <2>1, Bounds DEF InUse
    <2>3. /\ DOMAIN g = 1 .. (n - 1)
          /\ 1 .. Len(g) = 1 .. (n - 1)
          /\ \A i \in 1 .. (n - 1) : /\ g[i].first = q[i].last + 1
                                     /\ g[i].last = q[i + 1].first - 1
      BY <2>1, GapItems
    <2>4. \A i \in 1 .. (n - 1) : i \in 1 .. n /\ i + 1 \in 1 .. n
      <3> HIDE DEF n
      <3> QED  BY <2>1
    <2>5. \A i \in 1 .. (n - 1) : q[i].last \in Nat /\ q[i + 1].first \in Nat
      BY <2>1, <2>4, ListAscends
    <2>6. ASSUME NEW Sm \in Monad
          PROVE  LET i == SelectInSeq(g, LAMBDA e : e.first = Sm)
                 IN  gapExists(a, Sm) = IF i = 0 THEN 0 ELSE g[i].last
      <3> DEFINE I == {i \in 1 .. Len(g) : g[i].first = Sm}
                 k == IF I # {} THEN Min(I) ELSE 0
      <3>1. SelectInSeq(g, LAMBDA e : e.first = Sm) = k
        BY Zenon DEF SelectInSeq
      <3>2. Sm \in Nat
        BY Bounds DEF Monad
      <3>3. \A i : i \in I <=> i \in 1 .. (n - 1) /\ Sm = q[i].last + 1
        BY <2>3
      <3>4. /\ \A j \in 1 .. (n - 1) :
                  Sm = q[j].last + 1 => gapExists(a, Sm) = q[j + 1].first - 1
            /\ (\A j \in 1 .. (n - 1) : Sm # q[j].last + 1) => gapExists(a, Sm) = 0
        BY <2>1, <2>2, <3>2, GapExistsExact
      <3>5. I \in SUBSET Nat
        OBVIOUS
      <3> HIDE DEF I
      <3>6. CASE I = {}
        <4>1. k = 0
          BY <3>6
        <4>2. gapExists(a, Sm) = 0
          BY <3>3, <3>4, <3>6
        <4>3. gapExists(a, Sm) = IF k = 0 THEN 0 ELSE g[k].last
          BY <4>1, <4>2
        <4> QED  BY <3>1, <4>3, Zenon
      <3>7. CASE I # {}
        <4>1. k \in I
          BY <3>5, <3>7, LeastPosition
        <4> HIDE DEF k
        <4>2. k \in 1 .. (n - 1) /\ Sm = q[k].last + 1
          BY <3>3, <4>1
        <4>3. k # 0
          BY <4>2
        <4>4. gapExists(a, Sm) = g[k].last
          BY <2>3, <3>4, <4>2
        <4>5. gapExists(a, Sm) = IF k = 0 THEN 0 ELSE g[k].last
          BY <4>3, <4>4
        <4> QED  BY <3>1, <4>5, Zenon
      <3> QED  BY <3>6, <3>7
    <2>7. ASSUME NEW m \in Monad
          PROVE  hasLargerGap(a, m) <=> \E i \in DOMAIN g : g[i].last - g[i].first + 2 > m
      <3>1. m \in Nat
        BY Bounds DEF Monad
      <3>2. hasLargerGap(a, m) <=> \E i \in 1 .. (n - 1) : q[i + 1].first - q[i].last > m
        BY <2>1, <3>1, LargerGapExact
      <3>3. ASSUME NEW i \in 1 .. (n - 1)
            PROVE  g[i].last - g[i].first + 2 = q[i + 1].first - q[i].last
        <4> DEFINE f == q[i + 1].first
                   l == q[i].last
        <4>1. f \in Nat /\ l \in Nat /\ g[i].last = f - 1 /\ g[i].first = l + 1
          BY <2>3, <2>5
        <4> HIDE DEF f, l
        <4>2. (f - 1) - (l + 1) + 2 = f - l
          BY <4>1
        <4> QED  BY <4>1, <4>2 DEF f, l
      <3> QED  BY <2>3, <3>2, <3>3
    <2>8. ASSUME NEW m \in Monad, NEW i \in DOMAIN getGaps(fillGaps(a, m)).mses
          PROVE  LET h == getGaps(fillGaps(a, m)).mses[i] IN h.last - h.first + 1 >= m
      <3> DEFINE s == fillGaps(a, m)
                 p == s.mses
                 h == getGaps(s).mses[i]
                 f == p[i + 1].first
                 l == p[i].last
      <3>1. m \in Nat
        BY Bounds DEF Monad
      <3>2. Used(s) /\ Good(p) /\ Len(p) \in Nat
        BY <2>1, FillGapsMeans, InUseUsed, RepParts, ListEnds
      <3>3. i \in 1 .. (Len(p) - 1) /\ h.first = l + 1 /\ h.last = f - 1
        BY <3>2, GapItems
      <3>4. f - l - 1 >= m
        BY <2>1, <3>1, <3>3, FillLeavesWide
      <3>5. f \in Nat /\ l \in Nat
        <4> DEFINE z == Len(p)
        <4>1. z \in Nat /\ i \in 1 .. (z - 1)
          BY <3>2, <3>3
        <4> HIDE DEF z
        <4>2. i \in 1 .. z /\ i + 1 \in 1 .. z
          BY <4>1
        <4> HIDE DEF p
        <4> QED  BY <3>2, <4>2, ListAscends DEF z
      <3> HIDE DEF f, l, h
      <3>6. h.last - h.first + 1 >= m
        BY <3>1, <3>3, <3>4, <3>5
      <3> QED  BY <3>6 DEF h
    <2> QED  BY <2>6, <2>7, <2>8, Zenon DEF GapsCorrect
  <1>2. Spec => []ObjectsInv
    BY ObjectsInvariant
  <1> QED  BY <1>1, <1>2, PTL

-----------------------------------------------------------------------------
\* Compact strings

\* The loop of fromCompactString, a character at a time.
decodeStep(st, c, x, y) == Decode(st, c)

DecodeLoop == INSTANCE Loops WITH Step <- decodeStep, Border <- noBorder, Cross <- noCross

\* The loop that reads a number.
shiftStep(n, d, x, y) == ShiftIn(n, d)

ShiftLoop == INSTANCE Loops WITH Step <- shiftStep, Border <- noBorder, Cross <- noCross

\* The loop that writes the ranges.
concatStep(str, t, x, y) == Concat(str, t)

ConcatLoop == INSTANCE Loops WITH Step <- concatStep, Border <- noBorder, Cross <- noCross

\* The loop of fromCompactStringFM.
readStep(st, c, str, y) == ReadRange(str, st)

ReadLoop == INSTANCE Loops WITH Step <- readStep, Border <- noBorder, Cross <- noCross

\* The folds of the conversions.
DecodeAll(base, q) == FoldLeft(Decode, base, q)

ShiftAll(base, q) == FoldLeft(ShiftIn, base, q)

ConcatAll(base, q) == FoldLeft(Concat, base, q)

ReadAll(base, q, str) == FoldLeft(LAMBDA st, c : ReadRange(str, st), base, q)

\* They are these loops.
LEMMA StringLoops ==
    ASSUME NEW q, DOMAIN q = 1 .. Len(q), NEW str
    PROVE  /\ \A base : DecodeAll(base, q) = DecodeLoop!Run(q, base, 0, 0)[1 .. Len(q)]
           /\ \A base : ShiftAll(base, q) = ShiftLoop!Run(q, base, 0, 0)[1 .. Len(q)]
           /\ \A base : ConcatAll(base, q) = ConcatLoop!Run(q, base, 0, 0)[1 .. Len(q)]
           /\ \A base : ReadAll(base, q, str)
                           = ReadLoop!Run(q, base, str, 0)[1 .. Len(q)]
  <1>1. \A base : DecodeAll(base, q) = DecodeLoop!Run(q, base, 0, 0)[1 .. Len(q)]
    BY Zenon DEF DecodeAll, FoldLeft, MapThenFoldSet, decodeStep,
         DecodeLoop!Run, DecodeLoop!Fold, DecodeLoop!Greatest, Max
  <1>2. \A base : ShiftAll(base, q) = ShiftLoop!Run(q, base, 0, 0)[1 .. Len(q)]
    BY Zenon DEF ShiftAll, FoldLeft, MapThenFoldSet, shiftStep,
         ShiftLoop!Run, ShiftLoop!Fold, ShiftLoop!Greatest, Max
  <1>3. \A base : ConcatAll(base, q) = ConcatLoop!Run(q, base, 0, 0)[1 .. Len(q)]
    BY Zenon DEF ConcatAll, FoldLeft, MapThenFoldSet, concatStep,
         ConcatLoop!Run, ConcatLoop!Fold, ConcatLoop!Greatest, Max
  <1>4. \A base : ReadAll(base, q, str)
                     = ReadLoop!Run(q, base, str, 0)[1 .. Len(q)]
    BY Zenon DEF ReadAll, FoldLeft, MapThenFoldSet, readStep,
         ReadLoop!Run, ReadLoop!Fold, ReadLoop!Greatest, Max
  <1> QED  BY <1>1, <1>2, <1>3, <1>4, Zenon

\* Reading one more character.
LEMMA StringAppend ==
    ASSUME NEW q \in Seq(Nat), NEW c \in Nat, NEW base
    PROVE  /\ DecodeAll(base, Append(q, c)) = Decode(DecodeAll(base, q), c)
           /\ ShiftAll(base, Append(q, c)) = ShiftIn(ShiftAll(base, q), c)
  <1> DEFINE p == Append(q, c)
             n == Len(q)
  <1>1. n \in Nat /\ DOMAIN q = 1 .. n /\ Len(p) = n + 1 /\ DOMAIN p = 1 .. Len(p)
    OBVIOUS
  <1>2. DecodeLoop!Run(p, base, 0, 0)[1 .. (n + 1)]
           = decodeStep(DecodeLoop!Run(q, base, 0, 0)[1 .. n], c, 0, 0)
    BY NumbersInduct, DecodeLoop!FoldAppend DEF DecodeLoop!Inductive
  <1>3. ShiftLoop!Run(p, base, 0, 0)[1 .. (n + 1)]
           = shiftStep(ShiftLoop!Run(q, base, 0, 0)[1 .. n], c, 0, 0)
    BY NumbersInduct, ShiftLoop!FoldAppend DEF ShiftLoop!Inductive
  <1> HIDE DEF p, n
  <1>4. /\ DecodeAll(base, p) = DecodeLoop!Run(p, base, 0, 0)[1 .. Len(p)]
        /\ ShiftAll(base, p) = ShiftLoop!Run(p, base, 0, 0)[1 .. Len(p)]
    BY <1>1, StringLoops, Zenon
  <1>5. /\ DecodeAll(base, q) = DecodeLoop!Run(q, base, 0, 0)[1 .. n]
        /\ ShiftAll(base, q) = ShiftLoop!Run(q, base, 0, 0)[1 .. n]
    <2>1. DOMAIN q = 1 .. Len(q)
      BY <1>1 DEF n
    <2> QED  BY <2>1, StringLoops, Zenon DEF n
  <1>6. DecodeAll(base, p) = Decode(DecodeAll(base, q), c)
    BY <1>1, <1>2, <1>4, <1>5, Zenon DEF decodeStep
  <1>7. ShiftAll(base, p) = ShiftIn(ShiftAll(base, q), c)
    BY <1>1, <1>3, <1>4, <1>5, Zenon DEF shiftStep
  <1> QED  BY <1>6, <1>7 DEF p

\* Reading nothing.
LEMMA StringEmpty ==
    ASSUME NEW base
    PROVE  /\ DecodeAll(base, << >>) = base
           /\ ShiftAll(base, << >>) = base
           /\ ConcatAll(base, << >>) = base
  <1> DEFINE e == << >>
  <1>1. DOMAIN e = 1 .. Len(e) /\ Len(e) = 0 /\ Len(e) \in Nat
    OBVIOUS
  <1> HIDE DEF e
  <1>2. /\ DecodeLoop!Run(e, base, 0, 0)[1 .. 0] = base
        /\ ShiftLoop!Run(e, base, 0, 0)[1 .. 0] = base
        /\ ConcatLoop!Run(e, base, 0, 0)[1 .. 0] = base
    BY <1>1, NumbersInduct, DecodeLoop!FoldChain, ShiftLoop!FoldChain, ConcatLoop!FoldChain
       DEF DecodeLoop!Inductive, ShiftLoop!Inductive, ConcatLoop!Inductive
  <1>3. /\ DecodeAll(base, e) = DecodeLoop!Run(e, base, 0, 0)[1 .. Len(e)]
        /\ ShiftAll(base, e) = ShiftLoop!Run(e, base, 0, 0)[1 .. Len(e)]
        /\ ConcatAll(base, e) = ConcatLoop!Run(e, base, 0, 0)[1 .. Len(e)]
    BY <1>1, StringLoops, Zenon
  <1>4. /\ DecodeAll(base, e) = base
        /\ ShiftAll(base, e) = base
        /\ ConcatAll(base, e) = base
    BY <1>1, <1>2, <1>3, Zenon
  <1> QED  BY <1>4 DEF e

\* Division by the base.
LEMMA Divide ==
    ASSUME NEW n \in Nat
    PROVE  /\ n \div Radix \in Nat /\ n % Radix \in 0 .. (Radix - 1)
           /\ n = (n \div Radix) * Radix + (n % Radix)
  BY RadixAssumption

\* What is less than c digits less a digit.
LEMMA DivideLess ==
    ASSUME NEW n \in Nat, NEW c \in Nat, n < Radix * c
    PROVE  n \div Radix < c
  BY RadixAssumption

\* The number that the first k digits of m make.
Value(m, k) == IF k = 0 THEN 0 ELSE Shifts(m)[k]

\* Every digit is below the base, the digits make up the number, and six are enough.
LEMMA DigitsMake ==
    ASSUME NEW m \in Nat, m <= MAX_MONAD
    PROVE  /\ Value(m, 0) = 0 /\ Value(m, MaxDigits) = m
           /\ \A k \in 0 .. MaxDigits : Value(m, k) \in Nat
           /\ \A k \in 1 .. MaxDigits :
                 /\ Digits(m)[k] \in 0 .. (Radix - 1)
                 /\ Value(m, k) = Value(m, k - 1) * Radix + Digits(m)[k]
           /\ Digits(m) \in [1 .. MaxDigits -> 0 .. (Radix - 1)]
  <1> DEFINE m1 == m \div Radix
             m2 == m1 \div Radix
             m3 == m2 \div Radix
             m4 == m3 \div Radix
             m5 == m4 \div Radix
             R == Radix
  <1>1. R \in Nat /\ R >= 2
    BY RadixAssumption
  <1>2. m1 \in Nat
    BY Divide
  <1> HIDE DEF m1
  <1>3. m2 \in Nat
    BY <1>2, Divide
  <1> HIDE DEF m2
  <1>4. m3 \in Nat
    BY <1>3, Divide
  <1> HIDE DEF m3
  <1>5. m4 \in Nat
    BY <1>4, Divide
  <1> HIDE DEF m4
  <1>6. m5 \in Nat
    BY <1>5, Divide
  <1> HIDE DEF m5
  <1>7. m5 < R
    <2> DEFINE r2 == R * R
               r3 == R * r2
               r4 == R * r3
               r5 == R * r4
    <2>1. r2 \in Nat
      BY <1>1
    <2>2. m < R * r5
      BY RadixAssumption, MaxMonadAssumption
    <2> HIDE DEF r2
    <2>3. r3 \in Nat
      BY <1>1, <2>1
    <2> HIDE DEF r3
    <2>4. r4 \in Nat
      BY <1>1, <2>3
    <2> HIDE DEF r4
    <2>5. r5 \in Nat
      BY <1>1, <2>4
    <2> HIDE DEF r5
    <2>6. m1 < r5
      BY <2>2, <2>5, DivideLess DEF m1
    <2>7. m2 < r4
      BY <1>2, <2>4, <2>6, DivideLess DEF m2, r5
    <2>8. m3 < r3
      BY <1>3, <2>3, <2>7, DivideLess DEF m3, r4
    <2>9. m4 < r2
      BY <1>4, <2>1, <2>8, DivideLess DEF m4, r3
    <2> QED  BY <1>1, <1>5, <2>9, DivideLess DEF m5, r2
  <1>8. Shifts(m) = <<m5, m4, m3, m2, m1, m>>
    BY Zenon DEF Shifts, m1, m2, m3, m4, m5
  <1>9. /\ Shifts(m)[1] = m5 /\ Shifts(m)[2] = m4 /\ Shifts(m)[3] = m3
        /\ Shifts(m)[4] = m2 /\ Shifts(m)[5] = m1 /\ Shifts(m)[6] = m
    BY <1>8
  <1>10. \A k \in 1 .. MaxDigits : Digits(m)[k] = Shifts(m)[k] % R
    BY DEF Digits
  <1>11. \A k \in 1 .. MaxDigits : k = 1 \/ k = 2 \/ k = 3 \/ k = 4 \/ k = 5 \/ k = 6
    BY DEF MaxDigits
  <1>12. \A k \in 1 .. MaxDigits : Shifts(m)[k] \in Nat
    BY <1>2, <1>3, <1>4, <1>5, <1>6, <1>9, <1>11
  <1>13. ASSUME NEW k \in 1 .. MaxDigits
         PROVE  Digits(m)[k] \in 0 .. (Radix - 1)
    <2> DEFINE v == Shifts(m)[k]
    <2>1. v \in Nat
      BY <1>12
    <2> HIDE DEF v
    <2>2. v % Radix \in 0 .. (Radix - 1)
      BY <2>1, Divide
    <2> QED  BY <1>10, <2>2 DEF v
  <1>14. Digits(m) \in [1 .. MaxDigits -> 0 .. (Radix - 1)]
    <2>1. \A k \in 1 .. MaxDigits : Shifts(m)[k] % Radix \in 0 .. (Radix - 1)
      BY <1>10, <1>13
    <2> QED  BY <2>1 DEF Digits
  <1>15. Value(m, 1) = Value(m, 0) * Radix + Digits(m)[1]
    <2>1. m5 % R = m5
      BY <1>1, <1>6, <1>7
    <2>2. 1 \in 1 .. MaxDigits
      BY DEF MaxDigits
    <2>3. Digits(m)[1] = m5
      BY <1>9, <1>10, <2>1, <2>2
    <2>4. Value(m, 1) = m5 /\ Value(m, 0) = 0
      BY <1>9 DEF Value
    <2> QED  BY <1>1, <1>6, <2>3, <2>4
  <1>16. /\ m4 = m5 * R + (m4 % R) /\ m3 = m4 * R + (m3 % R) /\ m2 = m3 * R + (m2 % R)
         /\ m1 = m2 * R + (m1 % R) /\ m = m1 * R + (m % R)
    BY <1>2, <1>3, <1>4, <1>5, Divide DEF m1, m2, m3, m4, m5
  <1>17. /\ Value(m, 0) = 0 /\ Value(m, 1) = m5 /\ Value(m, 2) = m4 /\ Value(m, 3) = m3
         /\ Value(m, 4) = m2 /\ Value(m, 5) = m1 /\ Value(m, 6) = m
    BY <1>9 DEF Value
  <1>18. /\ Digits(m)[2] = m4 % R /\ Digits(m)[3] = m3 % R /\ Digits(m)[4] = m2 % R
         /\ Digits(m)[5] = m1 % R /\ Digits(m)[6] = m % R
    BY <1>9, <1>10 DEF MaxDigits
  <1> DEFINE D(k) == Digits(m)[k]
             V(k) == Value(m, k)
  <1>19. /\ V(2) = V(1) * R + D(2) /\ V(3) = V(2) * R + D(3) /\ V(4) = V(3) * R + D(4)
         /\ V(5) = V(4) * R + D(5) /\ V(6) = V(5) * R + D(6)
    BY <1>16, <1>17, <1>18
  <1>20. ASSUME NEW k \in 1 .. MaxDigits
         PROVE  V(k) = V(k - 1) * R + D(k)
    <2>1. 2 - 1 = 1 /\ 3 - 1 = 2 /\ 4 - 1 = 3 /\ 5 - 1 = 4 /\ 6 - 1 = 5 /\ 1 - 1 = 0
      OBVIOUS
    <2>2. V(1) = V(0) * R + D(1)
      BY <1>15
    <2> HIDE DEF D, V
    <2> QED  BY <1>11, <1>19, <2>1, <2>2
  <1>21. \A k \in 0 .. MaxDigits : Value(m, k) \in Nat
    BY <1>12 DEF Value, MaxDigits
  <1> QED  BY <1>13, <1>14, <1>17, <1>20, <1>21 DEF MaxDigits

\* Functions on positions are lists, and so are their parts.
LEMMA ListParts ==
    ASSUME NEW S, NEW n \in Nat, NEW D \in [1 .. n -> S], NEW d \in 1 .. (n + 1)
    PROVE  /\ D \in Seq(S) /\ Len(D) = n /\ DOMAIN D = 1 .. n
           /\ SubSeq(D, d, n) \in Seq(S) /\ Len(SubSeq(D, d, n)) = n - d + 1
           /\ \A i \in 1 .. (n - d + 1) : SubSeq(D, d, n)[i] = D[d + i - 1]
  <1>1. D \in Seq(S) /\ Len(D) = n /\ DOMAIN D = 1 .. n
    OBVIOUS
  <1>2. SubSeq(D, d, n) \in Seq(S) /\ Len(SubSeq(D, d, n)) = n - d + 1
    BY <1>1
  <1>3. \A i \in 1 .. (n - d + 1) : SubSeq(D, d, n)[i] = D[d + i - 1]
    BY <1>1
  <1> QED  BY <1>1, <1>2, <1>3

\* A function on 1 .. n is a list of n elements.
ListOf(D, n, S) == D \in Seq(S) /\ Len(D) = n /\ DOMAIN D = 1 .. n

LEMMA FunctionIsList ==
    ASSUME NEW S, NEW n \in Nat, NEW D \in [1 .. n -> S]
    PROVE  ListOf(D, n, S)
  BY DEF ListOf

\* A number's string is its digits from the first that is not 0.
LEMMA NumString ==
    ASSUME NEW m \in Nat, m <= MAX_MONAD
    PROVE  /\ \E d \in 1 .. (MaxDigits + 1) :
                 num2string(m) = SubSeq(Digits(m), d, MaxDigits) /\ Value(m, d - 1) = 0
           /\ num2string(m) \in Seq(0 .. (Radix - 1))
           /\ m > 0 => Len(num2string(m)) > 0
  <1> DEFINE D == Digits(m)
             I == {i \in 1 .. MaxDigits : D[i] > 0}
             d == IF I = {} THEN MaxDigits + 1 ELSE Min(I)
             T == {k \in 0 .. (d - 1) : Value(m, k) = 0}
  <1>1. D \in [1 .. MaxDigits -> 0 .. (Radix - 1)] /\ Len(D) = MaxDigits
        /\ D \in Seq(0 .. (Radix - 1)) /\ DOMAIN D = 1 .. MaxDigits
    <2>1. D \in [1 .. MaxDigits -> 0 .. (Radix - 1)]
      BY DigitsMake
    <2>2. MaxDigits \in Nat
      BY DEF MaxDigits
    <2> HIDE DEF D
    <2>3. D \in Seq(0 .. (Radix - 1)) /\ Len(D) = MaxDigits /\ DOMAIN D = 1 .. MaxDigits
      <3>1. ListOf(D, MaxDigits, 0 .. (Radix - 1))
        BY <2>1, <2>2, FunctionIsList, Zenon
      <3> QED  BY <3>1, Zenon DEF ListOf
    <2> QED  BY <2>1, <2>3, Zenon
  <1>2. SelectInSeq(D, LAMBDA e : e > 0) = IF I # {} THEN Min(I) ELSE 0
    <2>1. SelectInSeq(D, LAMBDA e : e > 0)
             = LET J == {i \in 1 .. Len(D) : D[i] > 0} IN IF J # {} THEN Min(J) ELSE 0
      BY Zenon DEF SelectInSeq
    <2> QED  BY <1>1, <2>1, Zenon
  <1>3. num2string(m) = IF I = {} THEN << >> ELSE SubSeq(D, Min(I), MaxDigits)
    <2>1. I # {} => Min(I) \in I /\ Min(I) # 0
      <3>1. I \in SUBSET Nat
        BY DEF MaxDigits
      <3>2. \A i \in I : i # 0
        BY DEF MaxDigits
      <3> HIDE DEF I
      <3> QED  BY <3>1, <3>2, LeastPosition
    <2> DEFINE begun == SelectInSeq(D, LAMBDA e : e > 0)
    <2>2. num2string(m) = IF begun = 0 THEN << >> ELSE SubSeq(D, begun, MaxDigits)
      BY Zenon DEF num2string, SelectInSeq
    <2> HIDE DEF begun, D, I
    <2>3. begun = IF I # {} THEN Min(I) ELSE 0
      BY <1>2 DEF begun
    <2> QED  BY <2>1, <2>2, <2>3
  <1>4. d \in 1 .. (MaxDigits + 1) /\ (\A i \in 1 .. (d - 1) : i \in 1 .. MaxDigits /\ D[i] = 0)
        /\ num2string(m) = SubSeq(D, d, MaxDigits)
        /\ (d = MaxDigits + 1 \/ D[d] > 0)
    <2>1. CASE I = {}
      <3>1. \A i \in 1 .. MaxDigits : D[i] = 0
        <4>1. \A i \in 1 .. MaxDigits : D[i] \in 0 .. (Radix - 1)
          BY <1>1
        <4>2. \A i \in 1 .. MaxDigits : ~(D[i] > 0)
          BY <2>1
        <4> QED  BY <4>1, <4>2, RadixAssumption
      <3>2. SubSeq(D, MaxDigits + 1, MaxDigits) = << >>
        BY <1>1 DEF MaxDigits
      <3>3. d = MaxDigits + 1 /\ (MaxDigits + 1) - 1 = MaxDigits
            /\ MaxDigits + 1 \in 1 .. (MaxDigits + 1)
        BY <2>1 DEF MaxDigits
      <3> QED  BY <1>3, <2>1, <3>1, <3>2, <3>3
    <2>2. CASE I # {}
      <3>1. I \in SUBSET Nat
        BY DEF MaxDigits
      <3>2. Min(I) \in I /\ \A j \in I : Min(I) <= j
        BY <2>2, <3>1, LeastPosition
      <3>3. d = Min(I)
        BY <2>2
      <3> HIDE DEF d
      <3>4. d \in 1 .. MaxDigits /\ D[d] > 0 /\ \A j \in 1 .. MaxDigits : D[j] > 0 => d <= j
        BY <3>2, <3>3
      <3>5. \A i \in 1 .. (d - 1) : i \in 1 .. MaxDigits /\ ~(D[i] > 0)
        BY <3>4 DEF MaxDigits
      <3>6. \A i \in 1 .. (d - 1) : D[i] = 0
        <4>1. \A i \in 1 .. MaxDigits : D[i] \in 0 .. (Radix - 1)
          BY <1>1
        <4> QED  BY <3>5, <4>1, RadixAssumption
      <3>7. d \in 1 .. (MaxDigits + 1)
        BY <3>4 DEF MaxDigits
      <3>8. num2string(m) = SubSeq(D, d, MaxDigits)
        BY <1>3, <2>2, <3>3
      <3> QED  BY <3>4, <3>5, <3>6, <3>7, <3>8
    <2> QED  BY <2>1, <2>2
  <1> HIDE DEF d, I
  <1>5. d - 1 \in Nat /\ d - 1 <= MaxDigits
    BY <1>4 DEF MaxDigits
  <1>6. \A k \in 0 .. (d - 1) : k \in T
    <2>1. 0 \in T
      BY <1>5, DigitsMake
    <2>2. ASSUME NEW k \in 1 .. (d - 1), k - 1 \in T PROVE k \in T
      <3>1. Value(m, k) = Value(m, k - 1) * Radix + D[k]
        BY <1>4, DigitsMake
      <3>2. Value(m, k - 1) = 0 /\ D[k] = 0
        BY <1>4, <2>2
      <3>3. Value(m, k) = 0
        <4> HIDE DEF D
        <4> QED  BY <3>1, <3>2, RadixAssumption
      <3> QED  BY <1>5, <3>3
    <2> HIDE DEF T
    <2> QED  BY <1>5, <2>1, <2>2, UpTo
  <1>7. Value(m, d - 1) = 0
    BY <1>5, <1>6
  <1>8. num2string(m) \in Seq(0 .. (Radix - 1))
    <2> HIDE DEF D
    <2>1. SubSeq(D, d, MaxDigits) \in Seq(0 .. (Radix - 1))
      <3>1. MaxDigits \in Nat
        BY DEF MaxDigits
      <3> QED  BY <1>1, <1>4, <3>1, ListParts
    <2> QED  BY <1>4, <2>1
  <1>9. m > 0 => Len(num2string(m)) > 0
    <2> SUFFICES ASSUME m > 0 PROVE d # MaxDigits + 1 /\ Len(SubSeq(D, d, MaxDigits)) > 0
      BY <1>4
    <2>1. d # MaxDigits + 1
      <3>1. Value(m, MaxDigits) = m
        BY DigitsMake
      <3> SUFFICES ASSUME d = MaxDigits + 1 PROVE FALSE
        OBVIOUS
      <3>2. d - 1 = MaxDigits
        BY DEF MaxDigits
      <3> QED  BY <1>7, <3>1, <3>2
    <2> HIDE DEF D
    <2>2. d \in 1 .. MaxDigits /\ MaxDigits \in Nat
      BY <1>4, <2>1 DEF MaxDigits
    <2>3. Len(SubSeq(D, d, MaxDigits)) = MaxDigits - d + 1
      BY <1>1, <1>4, <2>2, ListParts
    <2> QED  BY <2>1, <2>2, <2>3
  <1> QED  BY <1>4, <1>7, <1>8, <1>9

\* The state of the loop of fromCompactString.
Reading(som, prev, first, cur, separator) ==
    [som |-> som, prev |-> prev, first |-> first, cur |-> cur, separator |-> separator]

\* What each character does to it: a digit,
LEMMA DecodeDigit ==
    ASSUME NEW som, NEW prev, NEW first, NEW cur, NEW sep, NEW c, c # Y, c # Z
    PROVE  Decode(Reading(som, prev, first, cur, sep), c)
              = Reading(som, prev, first, cur * Radix + c, sep)
  BY DEF Decode, Reading

\* a separator between ranges, behind a range of one monad
LEMMA DecodeSingle ==
    ASSUME NEW som, NEW prev, NEW first, NEW cur
    PROVE  Decode(Reading(som, prev, first, cur, Y), Y)
              = Reading(addRange(som, cur + prev, cur + prev), cur + prev, cur + prev, 0, Y)
  <1>1. Y # Z
    BY RadixAssumption DEF Y, Z
  <1> QED  BY <1>1 DEF Decode, Reading

\* or of more,
LEMMA DecodeWide ==
    ASSUME NEW som, NEW prev, NEW first, NEW cur
    PROVE  Decode(Reading(som, prev, first, cur, Z), Y)
              = Reading(addRange(som, first, cur + prev), cur + prev, first, 0, Y)
  <1>1. Y # Z
    BY RadixAssumption DEF Y, Z
  <1> QED  BY <1>1 DEF Decode, Reading

\* and the separator within a range.
LEMMA DecodeWithin ==
    ASSUME NEW som, NEW prev, NEW first, NEW cur, NEW sep
    PROVE  Decode(Reading(som, prev, first, cur, sep), Z)
              = Reading(som, cur + prev, cur + prev, 0, Z)
  <1>1. Y # Z
    BY RadixAssumption DEF Y, Z
  <1> QED  BY <1>1 DEF Decode, Reading

\* A part of a list that is one element longer.
Grows(str, D, d, k) ==
    str \o SubSeq(D, d, k) = Append(str \o SubSeq(D, d, k - 1), D[k])

\* The elements of a list may be appended one by one.
LEMMA PartGrows ==
    ASSUME NEW S, NEW n \in Nat, NEW D \in [1 .. n -> S], NEW d \in 1 .. (n + 1),
           NEW k \in d .. n, NEW str \in Seq(S)
    PROVE  Grows(str, D, d, k)
  <1> DEFINE r == SubSeq(D, d, k - 1)
             c == D[k]
  <1>1. SubSeq(D, d, k) = Append(r, c) /\ r \in Seq(S) /\ c \in S
    <2>1. SubSeq(D, d, k) = Append(r, c)
      OBVIOUS
    <2>2. r \in Seq(S)
      OBVIOUS
    <2>3. c \in S
      OBVIOUS
    <2> QED  BY <2>1, <2>2, <2>3, Zenon
  <1> HIDE DEF r, c
  <1>2. str \o Append(r, c) = Append(str \o r, c)
    BY <1>1
  <1> QED  BY <1>1, <1>2, Zenon DEF r, c, Grows

\* The same with nothing before it.
LEMMA PartAlone ==
    ASSUME NEW S, NEW n \in Nat, NEW D \in [1 .. n -> S], NEW d \in 1 .. (n + 1),
           NEW k \in d .. n
    PROVE  SubSeq(D, d, k) = Append(SubSeq(D, d, k - 1), D[k])
  OBVIOUS

\* It is a list.
LEMMA PartIsList ==
    ASSUME NEW S, NEW n \in Nat, NEW D \in [1 .. n -> S], NEW d \in 1 .. (n + 1),
           NEW k \in d .. n, NEW str \in Seq(S)
    PROVE  str \o SubSeq(D, d, k - 1) \in Seq(S)
  OBVIOUS

\* Reading the string of a number makes it the current one.
LEMMA ReadNumber ==
    ASSUME NEW m \in Nat, m <= MAX_MONAD, NEW str \in Seq(Nat), NEW base,
           NEW som, NEW prev, NEW first, NEW sep,
           DecodeAll(base, str) = Reading(som, prev, first, 0, sep)
    PROVE  DecodeAll(base, str \o num2string(m)) = Reading(som, prev, first, m, sep)
  <1> DEFINE D == Digits(m)
             N == MaxDigits
             F(k) == DecodeAll(base, k)
  <1>1. PICK d \in 1 .. (N + 1) : num2string(m) = SubSeq(D, d, N) /\ Value(m, d - 1) = 0
    BY NumString
  <1>2. N \in Nat /\ D \in [1 .. N -> 0 .. (Radix - 1)] /\ D \in [1 .. N -> Nat]
    <2>1. D \in [1 .. N -> 0 .. (Radix - 1)] /\ (0 .. (Radix - 1)) \subseteq Nat
      BY DigitsMake, RadixAssumption
    <2> HIDE DEF D
    <2> QED  BY <2>1 DEF MaxDigits
  <1> DEFINE T == {k \in 0 .. (N + 1 - d) :
                     F(str \o SubSeq(D, d, d - 1 + k)) = Reading(som, prev, first, Value(m, d - 1 + k), sep)}
  <1>3. 0 \in T
    <2>1. str \o SubSeq(D, d, d - 1) = str
      <3> HIDE DEF D, N
      <3>1. D \in Seq(Nat)
        BY <1>2
      <3>2. SubSeq(D, d, d - 1) = << >>
        BY <1>2, <3>1
      <3> QED  BY <3>2
    <2>2. 0 \in 0 .. (N + 1 - d) /\ d - 1 + 0 = d - 1
      BY DEF MaxDigits
    <2> HIDE DEF D, N
    <2> QED  BY <1>1, <2>1, <2>2
  <1>4. ASSUME NEW k \in 1 .. (N + 1 - d), k - 1 \in T PROVE k \in T
    <2> DEFINE j == d - 1 + k
               p == str \o SubSeq(D, d, j - 1)
               v == Value(m, j - 1)
               c == D[j]
    <2>1. j \in d .. N /\ d - 1 + (k - 1) = j - 1 /\ j \in 1 .. N /\ k \in 0 .. (N + 1 - d)
      BY DEF MaxDigits
    <2>2. F(p) = Reading(som, prev, first, v, sep)
      <3> HIDE DEF D, N, j
      <3> QED  BY <1>4, <2>1
    <2>3. str \o SubSeq(D, d, j) = Append(p, c) /\ p \in Seq(Nat) /\ c \in Nat
      <3> HIDE DEF D, N, j
      <3>1. str \o SubSeq(D, d, j) = Append(str \o SubSeq(D, d, j - 1), D[j])
        <4>1. Grows(str, D, d, j)
          BY <1>2, <2>1, PartGrows
        <4> QED  BY <4>1, Zenon DEF Grows
      <3>2. str \o SubSeq(D, d, j - 1) \in Seq(Nat)
        BY <1>2, <2>1, PartIsList
      <3>3. D[j] \in Nat
        BY <1>2, <2>1
      <3> QED  BY <3>1, <3>2, <3>3
    <2>4. F(Append(p, c)) = Decode(F(p), c)
      <3> HIDE DEF p, c
      <3> QED  BY <2>3, StringAppend
    <2>5. c # Y /\ c # Z
      <3>1. c \in 0 .. (Radix - 1)
        <4> HIDE DEF D, N, j
        <4> QED  BY <1>2, <2>1
      <3> HIDE DEF c
      <3> QED  BY <3>1, RadixAssumption DEF Y, Z
    <2>6. v * Radix + c = Value(m, j)
      <3> HIDE DEF j
      <3> QED  BY <2>1, DigitsMake
    <2>7. Decode(Reading(som, prev, first, v, sep), c) = Reading(som, prev, first, v * Radix + c, sep)
      <3> HIDE DEF v, c
      <3> QED  BY <2>5, DecodeDigit
    <2>8. F(str \o SubSeq(D, d, j)) = Reading(som, prev, first, Value(m, j), sep)
      <3> HIDE DEF v, c, p, j, D
      <3> QED  BY <2>2, <2>3, <2>4, <2>6, <2>7, Zenon
    <2> HIDE DEF D, v, c, p
    <2> QED  BY <2>1, <2>8
  <1> HIDE DEF T
  <1>5. \A k \in 0 .. (N + 1 - d) : k \in T
    <2>1. N + 1 - d \in Nat
      BY DEF MaxDigits
    <2> QED  BY <1>3, <1>4, <2>1, UpTo
  <1>6. N + 1 - d \in 0 .. (N + 1 - d) /\ d - 1 + (N + 1 - d) = N
    BY DEF MaxDigits
  <1>7. F(str \o SubSeq(D, d, N)) = Reading(som, prev, first, Value(m, N), sep)
    <2> HIDE DEF D, N
    <2> QED  BY <1>5, <1>6 DEF T
  <1> QED  BY <1>1, <1>7, DigitsMake

\* The string of a number has that value.
LEMMA NumberValue ==
    ASSUME NEW m \in Nat, m <= MAX_MONAD
    PROVE  ShiftAll(0, num2string(m)) = m
  <1> DEFINE D == Digits(m)
             N == MaxDigits
             F(k) == ShiftAll(0, k)
  <1>1. PICK d \in 1 .. (N + 1) : num2string(m) = SubSeq(D, d, N) /\ Value(m, d - 1) = 0
    BY NumString
  <1>2. N \in Nat /\ D \in [1 .. N -> 0 .. (Radix - 1)] /\ D \in [1 .. N -> Nat]
    <2>1. D \in [1 .. N -> 0 .. (Radix - 1)] /\ (0 .. (Radix - 1)) \subseteq Nat
      BY DigitsMake, RadixAssumption
    <2> HIDE DEF D
    <2> QED  BY <2>1 DEF MaxDigits
  <1> DEFINE T == {k \in 0 .. (N + 1 - d) : F(SubSeq(D, d, d - 1 + k)) = Value(m, d - 1 + k)}
  <1>3. 0 \in T
    <2>1. SubSeq(D, d, d - 1) = << >>
      <3> HIDE DEF D, N
      <3>1. D \in Seq(Nat)
        BY <1>2
      <3> QED  BY <1>2, <3>1
    <2>2. 0 \in 0 .. (N + 1 - d) /\ d - 1 + 0 = d - 1
      BY DEF MaxDigits
    <2>3. F(<< >>) = 0
      BY StringEmpty
    <2> HIDE DEF D, N, F
    <2> QED  BY <1>1, <2>1, <2>2, <2>3
  <1>4. ASSUME NEW k \in 1 .. (N + 1 - d), k - 1 \in T PROVE k \in T
    <2> DEFINE j == d - 1 + k
               p == SubSeq(D, d, j - 1)
               v == Value(m, j - 1)
               c == D[j]
    <2>1. j \in d .. N /\ d - 1 + (k - 1) = j - 1 /\ j \in 1 .. N /\ k \in 0 .. (N + 1 - d)
      BY DEF MaxDigits
    <2>2. F(p) = v
      <3> HIDE DEF D, N, j, F
      <3> QED  BY <1>4, <2>1
    <2>3. SubSeq(D, d, j) = Append(p, c) /\ p \in Seq(Nat) /\ c \in Nat
      <3> HIDE DEF D, N, j
      <3>1. SubSeq(D, d, j) = Append(SubSeq(D, d, j - 1), D[j])
        BY <1>2, <2>1, PartAlone
      <3>2. SubSeq(D, d, j - 1) \in Seq(Nat)
        BY <1>2, <2>1
      <3>3. D[j] \in Nat
        BY <1>2, <2>1
      <3> QED  BY <3>1, <3>2, <3>3, Zenon
    <2>4. F(Append(p, c)) = F(p) * Radix + c
      <3> HIDE DEF p, c
      <3> QED  BY <2>3, StringAppend DEF ShiftIn
    <2>5. v * Radix + c = Value(m, j)
      <3> HIDE DEF j
      <3> QED  BY <2>1, DigitsMake
    <2>6. F(SubSeq(D, d, j)) = Value(m, j)
      <3> HIDE DEF v, c, p, j, D, F
      <3> QED  BY <2>2, <2>3, <2>4, <2>5
    <2> HIDE DEF D, v, c, p, F
    <2> QED  BY <2>1, <2>6
  <1> HIDE DEF T
  <1>5. \A k \in 0 .. (N + 1 - d) : k \in T
    <2>1. N + 1 - d \in Nat
      BY DEF MaxDigits
    <2> QED  BY <1>3, <1>4, <2>1, UpTo
  <1>6. N + 1 - d \in 0 .. (N + 1 - d) /\ d - 1 + (N + 1 - d) = N
    BY DEF MaxDigits
  <1>7. F(SubSeq(D, d, N)) = Value(m, N)
    <2> HIDE DEF D, N, F
    <2> QED  BY <1>5, <1>6 DEF T
  <1> QED  BY <1>1, <1>7, DigitsMake

\* A number's string is a string.
LEMMA NumIsString ==
    ASSUME NEW m \in Nat, m <= MAX_MONAD
    PROVE  num2string(m) \in Seq(Nat)
  <1>1. num2string(m) \in Seq(0 .. (Radix - 1))
    BY NumString
  <1>2. \A e \in 0 .. (Radix - 1) : e \in Nat
    BY RadixAssumption
  <1> DEFINE t == num2string(m)
             S == 0 .. (Radix - 1)
  <1> HIDE DEF t, S
  <1>3. t \in Seq(S) /\ \A e \in S : e \in Nat
    BY <1>1, <1>2 DEF t, S
  <1>4. t \in Seq(Nat)
    BY <1>3
  <1> QED  BY <1>4 DEF t

\* The letters are characters.
LEMMA Letters == Y \in Nat /\ Z \in Nat /\ Y # Z
  BY RadixAssumption DEF Y, Z

\* The string of a range from f to l behind one that ends at p.
RangeFrom(p, f, l) ==
    num2string(f - p) \o (IF l = f THEN << >> ELSE <<Z>> \o num2string(l - f))

\* The state after it.
AfterRange(som, p, first, f, l) ==
    IF l = f THEN Reading(som, p, first, f - p, Y) ELSE Reading(som, f, f, l - f, Z)

\* Appending a letter is joining a string of one letter.
LEMMA LetterAppended ==
    ASSUME NEW S, NEW str \in Seq(S), NEW c \in S
    PROVE  <<c>> \in Seq(S) /\ Append(str, c) = str \o <<c>>
  OBVIOUS

\* Two strings with the same letters are one.
LEMMA EqualStrings ==
    ASSUME NEW S, NEW s \in Seq(S), NEW t \in Seq(S), Len(s) = Len(t),
           \A i \in 1 .. Len(s) : s[i] = t[i]
    PROVE  s = t
  OBVIOUS

\* What joining makes of two strings: their letters, in order.
JoinOf(s, t, r) ==
    /\ Len(r) = Len(s) + Len(t)
    /\ \A i \in 1 .. Len(s) : r[i] = s[i]
    /\ \A i \in 1 .. Len(t) : r[Len(s) + i] = t[i]

\* What the join of two strings is.
LEMMA JoinIsJoinOf ==
    ASSUME NEW S, NEW s \in Seq(S), NEW t \in Seq(S)
    PROVE  s \o t \in Seq(S) /\ JoinOf(s, t, s \o t)
  <1>1. \A i \in 1 .. Len(s) : (s \o t)[i] = s[i]
    OBVIOUS
  <1>2. \A i \in 1 .. Len(t) : (s \o t)[Len(s) + i] = t[i]
    OBVIOUS
  <1>3. s \o t \in Seq(S) /\ Len(s \o t) = Len(s) + Len(t)
    OBVIOUS
  <1> QED  BY <1>1, <1>2, <1>3, Zenon DEF JoinOf

\* Joining strings is associative.
Regroups(s, t, u) == s \o (t \o u) = (s \o t) \o u

\* Strings may be joined in any order of the joins.
LEMMA JoinAssociative ==
    ASSUME NEW S, NEW s \in Seq(S), NEW t \in Seq(S), NEW u \in Seq(S)
    PROVE  Regroups(s, t, u)
  <1> DEFINE st == s \o t
             tu == t \o u
             left == s \o tu
             right == st \o u
  <1>1. st \in Seq(S) /\ JoinOf(s, t, st)
    BY JoinIsJoinOf, Zenon
  <1>2. tu \in Seq(S) /\ JoinOf(t, u, tu)
    BY JoinIsJoinOf, Zenon
  <1> HIDE DEF st, tu
  <1>3. left \in Seq(S) /\ JoinOf(s, tu, left)
    BY <1>2, JoinIsJoinOf, Zenon
  <1>4. right \in Seq(S) /\ JoinOf(st, u, right)
    BY <1>1, JoinIsJoinOf, Zenon
  <1> HIDE DEF left, right
  <1>5. Len(s) \in Nat /\ Len(t) \in Nat /\ Len(u) \in Nat
    OBVIOUS
  <1>6. Len(left) = Len(s) + (Len(t) + Len(u)) /\ Len(right) = Len(left)
        /\ Len(tu) = Len(t) + Len(u) /\ Len(st) = Len(s) + Len(t)
    BY <1>1, <1>2, <1>3, <1>4, <1>5 DEF JoinOf
  <1>7. ASSUME NEW i \in 1 .. Len(left) PROVE left[i] = right[i]
    <2>1. CASE i \in 1 .. Len(s)
      <3>1. left[i] = s[i] /\ st[i] = s[i]
        BY <1>1, <1>3, <2>1 DEF JoinOf
      <3>2. right[i] = st[i]
        BY <1>4, <1>5, <1>6, <2>1 DEF JoinOf
      <3> QED  BY <3>1, <3>2
    <2>2. ASSUME NEW j \in 1 .. Len(t), i = Len(s) + j PROVE left[i] = right[i]
      <3>1. left[i] = tu[j]
        BY <1>3, <1>5, <1>6, <2>2 DEF JoinOf
      <3>2. tu[j] = t[j]
        BY <1>2 DEF JoinOf
      <3>3. right[i] = st[i]
        BY <1>4, <1>5, <1>6, <2>2 DEF JoinOf
      <3>4. st[i] = t[j]
        BY <1>1, <2>2 DEF JoinOf
      <3> QED  BY <3>1, <3>2, <3>3, <3>4
    <2>3. ASSUME NEW j \in 1 .. Len(u), i = Len(s) + (Len(t) + j) PROVE left[i] = right[i]
      <3>1. left[i] = tu[Len(t) + j]
        BY <1>3, <1>5, <1>6, <2>3 DEF JoinOf
      <3>2. tu[Len(t) + j] = u[j]
        BY <1>2 DEF JoinOf
      <3>3. i = Len(st) + j
        BY <1>5, <1>6, <2>3
      <3>4. right[Len(st) + j] = u[j]
        BY <1>4 DEF JoinOf
      <3> QED  BY <3>1, <3>2, <3>3, <3>4
    <2>4. \/ i \in 1 .. Len(s)
          \/ i - Len(s) \in 1 .. Len(t) /\ i = Len(s) + (i - Len(s))
          \/ /\ (i - Len(s)) - Len(t) \in 1 .. Len(u)
             /\ i = Len(s) + (Len(t) + ((i - Len(s)) - Len(t)))
      BY <1>5, <1>6
    <2> QED  BY <2>1, <2>2, <2>3, <2>4
  <1>8. left = right
    BY <1>3, <1>4, <1>6, <1>7, EqualStrings
  <1> QED  BY <1>8, Zenon DEF left, right, st, tu, Regroups

\* A letter between two strings may be appended to the first.
Inserted(s, t, c, u) == s \o (t \o (<<c>> \o u)) = Append(s \o t, c) \o u

LEMMA LetterBetween ==
    ASSUME NEW S, NEW s \in Seq(S), NEW t \in Seq(S), NEW u \in Seq(S), NEW c \in S
    PROVE  Inserted(s, t, c, u)
  <1> DEFINE k == <<c>>
  <1>1. k \in Seq(S) /\ Append(s \o t, c) = (s \o t) \o k /\ k \o u \in Seq(S) /\ s \o t \in Seq(S)
    OBVIOUS
  <1> HIDE DEF k
  <1>2. Regroups(s, t, k \o u)
    BY <1>1, JoinAssociative, Zenon
  <1>3. Regroups(s \o t, k, u)
    BY <1>1, JoinAssociative, Zenon
  <1>4. s \o (t \o (k \o u)) = Append(s \o t, c) \o u
    BY <1>1, <1>2, <1>3, Zenon DEF Regroups
  <1> QED  BY <1>4, Zenon DEF k, Inserted

\* The string of a range is a string, and what reading it does.
LEMMA ReadsRange ==
    ASSUME NEW str \in Seq(Nat), NEW base, NEW som, NEW first, NEW p \in Nat, NEW f \in Nat,
           NEW l \in Nat, p < f, f <= l, l <= MAX_MONAD
    PROVE  /\ RangeFrom(p, f, l) \in Seq(Nat)
           /\ Len(RangeFrom(p, f, l)) > 0
           /\ DecodeAll(base, str) = Reading(som, p, first, 0, Y)
                 => DecodeAll(base, str \o RangeFrom(p, f, l)) = AfterRange(som, p, first, f, l)
  <1> DEFINE t == num2string(f - p)
             u == num2string(l - f)
  <1>1. /\ f - p \in Nat /\ f - p <= MAX_MONAD /\ f - p > 0
        /\ l - f \in Nat /\ l - f <= MAX_MONAD
    BY MaxMonadAssumption
  <1>2. t \in Seq(Nat) /\ u \in Seq(Nat) /\ Len(t) > 0
    BY <1>1, NumIsString, NumString
  <1>3. DecodeAll(base, str) = Reading(som, p, first, 0, Y)
           => DecodeAll(base, str \o t) = Reading(som, p, first, f - p, Y)
    BY <1>1, ReadNumber
  <1>4. ASSUME NEW v \in Seq(Nat), DecodeAll(base, v) = Reading(som, f, f, 0, Z)
        PROVE  DecodeAll(base, v \o u) = Reading(som, f, f, l - f, Z)
    BY <1>1, <1>4, ReadNumber
  <1> HIDE DEF t, u
  <1>5. CASE l = f
    <2>1. RangeFrom(p, f, l) = t \o << >>
      BY <1>5, Zenon DEF RangeFrom, t
    <2>2. t \o << >> = t
      BY <1>2
    <2>3. AfterRange(som, p, first, f, l) = Reading(som, p, first, f - p, Y)
      BY <1>5, Zenon DEF AfterRange
    <2> QED  BY <1>2, <1>3, <2>1, <2>2, <2>3
  <1>6. CASE l # f
    <2> DEFINE w == Append(str \o t, Z)
    <2>1. RangeFrom(p, f, l) = t \o (<<Z>> \o u)
      BY <1>6, Zenon DEF RangeFrom, t, u
    <2>2. str \o (t \o (<<Z>> \o u)) = w \o u /\ w \in Seq(Nat) /\ str \o t \in Seq(Nat)
      <3>1. w \in Seq(Nat) /\ str \o t \in Seq(Nat)
        BY <1>2, Letters
      <3>2. str \o (t \o (<<Z>> \o u)) = w \o u
        <4>1. Inserted(str, t, Z, u)
          BY <1>2, Letters, LetterBetween
        <4> QED  BY <4>1, Zenon DEF Inserted
      <3> QED  BY <3>1, <3>2, Zenon
    <2>3. t \o (<<Z>> \o u) \in Seq(Nat) /\ Len(t \o (<<Z>> \o u)) > 0
      BY <1>2, Letters
    <2>4. ASSUME DecodeAll(base, str) = Reading(som, p, first, 0, Y)
          PROVE  DecodeAll(base, w \o u) = Reading(som, f, f, l - f, Z)
      <3>1. DecodeAll(base, w) = Decode(DecodeAll(base, str \o t), Z)
        BY <2>2, Letters, StringAppend
      <3>2. DecodeAll(base, str \o t) = Reading(som, p, first, f - p, Y)
        BY <1>3, <2>4
      <3>3. Decode(Reading(som, p, first, f - p, Y), Z)
               = Reading(som, (f - p) + p, (f - p) + p, 0, Z)
        BY DecodeWithin
      <3>4. (f - p) + p = f
        OBVIOUS
      <3>5. DecodeAll(base, w) = Reading(som, f, f, 0, Z)
        BY <3>1, <3>2, <3>3, <3>4
      <3> HIDE DEF w
      <3> QED  BY <1>4, <2>2, <3>5
    <2>5. AfterRange(som, p, first, f, l) = Reading(som, f, f, l - f, Z)
      BY <1>6, Zenon DEF AfterRange
    <2> QED  BY <2>1, <2>2, <2>3, <2>4, <2>5
  <1> QED  BY <1>5, <1>6

\* The separator behind it adds the range.
LEMMA ReadsSeparator ==
    ASSUME NEW som, NEW first, NEW p \in Nat, NEW f \in Nat, NEW l \in Nat, p < f, f <= l
    PROVE  Decode(AfterRange(som, p, first, f, l), Y) = Reading(addRange(som, f, l), l, f, 0, Y)
  <1>1. (f - p) + p = f /\ (l - f) + f = l
    OBVIOUS
  <1>2. CASE l = f
    BY <1>1, <1>2, DecodeSingle DEF AfterRange
  <1>3. CASE l # f
    BY <1>1, <1>3, DecodeWide DEF AfterRange
  <1> QED  BY <1>2, <1>3

\* Joining strings: to nothing, and with a separator in between.
LEMMA JoinEmpty ==
    ASSUME NEW S, NEW v \in Seq(S)
    PROVE  << >> \o (<< >> \o v) = v
  OBVIOUS

\* A letter between two strings belongs to the first.
Separates(u, c, v) == u \o (<<c>> \o v) = Append(u, c) \o v

LEMMA JoinSeparated ==
    ASSUME NEW S, NEW u \in Seq(S), NEW v \in Seq(S), NEW c \in S
    PROVE  Separates(u, c, v)
  <1> DEFINE k == <<c>>
  <1>1. k \in Seq(S) /\ Append(u, c) = u \o k
    BY LetterAppended
  <1> HIDE DEF k
  <1>2. u \o (k \o v) = (u \o k) \o v
    <2>1. Regroups(u, k, v)
      BY <1>1, JoinAssociative, Zenon
    <2> QED  BY <2>1, Zenon DEF Regroups
  <1>3. u \o (k \o v) = Append(u, c) \o v
    BY <1>1, <1>2, Zenon
  <1> QED  BY <1>3, Zenon DEF k, Separates

LEMMA JoinIsList ==
    ASSUME NEW S, NEW u \in Seq(S), NEW v \in Seq(S), NEW c \in S
    PROVE  Append(u, c) \in Seq(S) /\ Append(u, c) \o v \in Seq(S)
           /\ Len(Append(u, c)) = Len(u) + 1
           /\ Len(Append(u, c) \o v) = Len(u) + 1 + Len(v)
  <1>1. Append(u, c) \in Seq(S) /\ Len(Append(u, c)) = Len(u) + 1
    OBVIOUS
  <1> DEFINE w == Append(u, c)
  <1> HIDE DEF w
  <1>2. w \o v \in Seq(S) /\ Len(w \o v) = Len(w) + Len(v)
    BY <1>1 DEF w
  <1> QED  BY <1>1, <1>2 DEF w

\* W[k] is what the loop over the ranges has written after k of them.
Written(W, strings, n) ==
    /\ W \in [1 .. n -> Seq(Nat)]
    /\ W[1] = strings[1]
    /\ \A k \in 2 .. n : W[k] = Append(W[k - 1], Y) \o strings[k]

\* WithSeparators writes the strings one after the other.
LEMMA Writes ==
    ASSUME NEW n \in Nat \ {0}, NEW strings \in [1 .. n -> Seq(Nat)]
    PROVE  \E W : Written(W, strings, n) /\ WithSeparators(strings) = W[n]
  <1> DEFINE p == [i \in DOMAIN strings |-> (IF i = 1 THEN << >> ELSE <<Y>>) \o strings[i]]
             r == ConcatLoop!Run(p, << >>, 0, 0)
             T == {k \in 0 .. n : k # 0 => r[1 .. k] \in Seq(Nat)}
             W == [k \in 1 .. n |-> r[1 .. k]]
  <1>1. DOMAIN strings = 1 .. n /\ \A i \in 1 .. n : strings[i] \in Seq(Nat)
    OBVIOUS
  <1>2. /\ \A i \in 1 .. n : p[i] = (IF i = 1 THEN << >> ELSE <<Y>>) \o strings[i]
        /\ DOMAIN p = 1 .. n
    BY <1>1, Zenon
  <1>3. WithSeparators(strings) = ConcatAll(<< >>, p)
    BY Zenon DEF WithSeparators, ConcatAll
  <1> HIDE DEF p
  <1>4. Len(p) = n
    BY <1>2
  <1>5. ConcatAll(<< >>, p) = r[1 .. n]
    <2>1. DOMAIN p = 1 .. Len(p)
      BY <1>2, <1>4, Zenon
    <2>2. ConcatAll(<< >>, p) = ConcatLoop!Run(p, << >>, 0, 0)[1 .. Len(p)]
      BY <2>1, StringLoops, Zenon
    <2> QED  BY <1>4, <2>2, Zenon
  <1>6. r[1 .. 0] = << >> /\ \A k \in 1 .. n : r[1 .. k] = concatStep(r[1 .. (k - 1)], p[k], 0, 0)
    <2>1. Len(p) \in Nat
      BY <1>4
    <2>2. /\ ConcatLoop!Run(p, << >>, 0, 0)[1 .. 0] = << >>
          /\ \A k \in 1 .. Len(p) :
                ConcatLoop!Run(p, << >>, 0, 0)[1 .. k]
                   = concatStep(ConcatLoop!Run(p, << >>, 0, 0)[1 .. (k - 1)], p[k], 0, 0)
      BY <2>1, NumbersInduct, ConcatLoop!FoldChain DEF ConcatLoop!Inductive
    <2> QED  BY <1>4, <2>2, Zenon
  <1>7. \A k \in 1 .. n : r[1 .. k] = r[1 .. (k - 1)] \o p[k]
    BY <1>6, Zenon DEF concatStep, Concat
  <1> HIDE DEF r
  <1>8. r[1 .. 1] = strings[1]
    <2> DEFINE v == strings[1]
    <2>1. 1 \in 1 .. n /\ 1 - 1 = 0
      OBVIOUS
    <2>2. r[1 .. 1] = r[1 .. 0] \o p[1]
      BY <1>7, <2>1
    <2>3. p[1] = << >> \o v
      BY <1>2, <2>1, Zenon
    <2>4. v \in Seq(Nat)
      BY <1>1, <2>1
    <2>5. << >> \o (<< >> \o v) = v
      BY <2>4, JoinEmpty
    <2> QED  BY <1>6, <2>2, <2>3, <2>5, Zenon
  <1>9. ASSUME NEW k \in 2 .. n, r[1 .. (k - 1)] \in Seq(Nat)
        PROVE  r[1 .. k] = Append(r[1 .. (k - 1)], Y) \o strings[k] /\ r[1 .. k] \in Seq(Nat)
    <2> DEFINE u == r[1 .. (k - 1)]
               v == strings[k]
    <2>1. k \in 1 .. n /\ k # 1
      OBVIOUS
    <2>2. r[1 .. k] = u \o p[k] /\ p[k] = <<Y>> \o v
      BY <1>2, <1>7, <2>1, Zenon
    <2>3. v \in Seq(Nat) /\ u \in Seq(Nat) /\ Y \in Nat
      BY <1>1, <1>9, <2>1, Letters
    <2> HIDE DEF u, v
    <2>4. u \o (<<Y>> \o v) = Append(u, Y) \o v
      <3>1. Separates(u, Y, v)
        BY <2>3, JoinSeparated
      <3> QED  BY <3>1, Zenon DEF Separates
    <2>5. Append(u, Y) \o v \in Seq(Nat)
      BY <2>3, JoinIsList
    <2>6. r[1 .. k] = Append(u, Y) \o v
      BY <2>2, <2>4, Zenon
    <2>7. r[1 .. k] \in Seq(Nat)
      BY <2>5, <2>6, Zenon
    <2> QED  BY <2>6, <2>7 DEF u, v
  <1>10. 0 \in T
    OBVIOUS
  <1>11. ASSUME NEW k \in 1 .. n, k - 1 \in T PROVE k \in T
    <2>1. CASE k = 1
      <3>1. strings[1] \in Seq(Nat)
        BY <1>1
      <3> QED  BY <1>8, <2>1, <3>1
    <2>2. CASE k # 1
      <3>1. k \in 2 .. n /\ k - 1 # 0 /\ k \in 0 .. n
        BY <2>2
      <3>2. r[1 .. (k - 1)] \in Seq(Nat)
        BY <1>11, <3>1
      <3>3. r[1 .. k] \in Seq(Nat)
        BY <1>9, <3>1, <3>2
      <3> QED  BY <3>1, <3>3
    <2> QED  BY <2>1, <2>2
  <1> HIDE DEF T
  <1>12. \A k \in 0 .. n : k \in T
    BY <1>10, <1>11, UpTo
  <1>13. \A k \in 1 .. n : r[1 .. k] \in Seq(Nat)
    BY <1>12 DEF T
  <1>14. W \in [1 .. n -> Seq(Nat)]
    BY <1>13, Zenon
  <1>15. \A k \in 1 .. n : W[k] = r[1 .. k]
    BY Zenon
  <1> HIDE DEF W
  <1>16. ASSUME NEW k \in 2 .. n PROVE W[k] = Append(W[k - 1], Y) \o strings[k]
    <2>1. k \in 1 .. n /\ k - 1 \in 1 .. n
      OBVIOUS
    <2>2. r[1 .. (k - 1)] \in Seq(Nat)
      BY <1>13, <2>1
    <2>3. r[1 .. k] = Append(r[1 .. (k - 1)], Y) \o strings[k]
      BY <1>9, <2>2
    <2> QED  BY <1>15, <2>1, <2>3, Zenon
  <1>17. 1 \in 1 .. n /\ n \in 1 .. n
    OBVIOUS
  <1>18. Written(W, strings, n)
    BY <1>8, <1>14, <1>15, <1>16, <1>17, Zenon DEF Written
  <1> QED  BY <1>3, <1>5, <1>15, <1>17, <1>18, Zenon

\* The ranges of a set in use, as the conversions see them.
LEMMA RangesRead ==
    ASSUME NEW s, Used(s), NEW k \in 1 .. Len(s.mses)
    PROVE  /\ s.mses[k].first \in Nat /\ s.mses[k].last \in Nat /\ prevLast(s, k) \in Nat
           /\ prevLast(s, k) < s.mses[k].first /\ s.mses[k].first <= s.mses[k].last
           /\ s.mses[k].last <= MAX_MONAD
           /\ RangeString(s, k) = RangeFrom(prevLast(s, k), s.mses[k].first, s.mses[k].last)
           /\ addRange(FirstRanges(s, k - 1), s.mses[k].first, s.mses[k].last)
                 = FirstRanges(s, k)
  <1> DEFINE q == s.mses
             e == q[k]
  <1>1. Good(q) /\ Len(q) \in Nat
    BY RepParts, ListEnds DEF Used
  <1>2. e \in Stretch /\ e.first \in Nat /\ e.last \in Nat /\ 1 <= e.first /\ e.first <= e.last
    BY <1>1, ListEnds, ListAscends
  <1>3. e.last <= MAX_MONAD
    <2>1. Covers(q, e.last)
      BY <1>2 DEF Covers, In
    <2> QED  BY <1>2, <2>1 DEF Used
  <1>4. prevLast(s, k) \in Nat /\ prevLast(s, k) < e.first
    <2>1. CASE k = 1
      BY <1>2, <2>1 DEF prevLast
    <2>2. CASE k # 1
      <3>1. k - 1 \in 1 .. Len(q) /\ k - 1 < k
        BY <1>1, <2>2
      <3>2. q[k - 1].last \in Nat /\ q[k - 1].last + 1 < q[k].first
        BY <1>1, <3>1, ListAscends
      <3>3. prevLast(s, k) = q[k - 1].last
        BY <2>2 DEF prevLast
      <3> DEFINE u == q[k - 1].last
                 v == q[k].first
      <3> HIDE DEF u, v
      <3>4. u \in Nat /\ v \in Nat /\ u + 1 < v => u < v
        OBVIOUS
      <3> QED  BY <1>2, <3>2, <3>3, <3>4 DEF u, v
    <2> QED  BY <2>1, <2>2
  <1>5. MSE(e.first, e.last) = e
    BY <1>2 DEF Stretch, MSE
  <1>6. addMSE(FirstRanges(s, k - 1), e) = FirstRanges(s, k)
    BY NextRange
  <1>7. addRange(FirstRanges(s, k - 1), e.first, e.last) = FirstRanges(s, k)
    BY <1>5, <1>6, Zenon DEF addRange
  <1>8. RangeString(s, k) = RangeFrom(prevLast(s, k), e.first, e.last)
    BY Zenon DEF RangeString, RangeFrom
  <1> QED  BY <1>2, <1>3, <1>4, <1>7, <1>8

\* The first monad of the range before the k-th.
prevFirst(s, k) == IF k = 1 THEN 0 ELSE s.mses[k - 1].first

\* The state of fromCompactString before the string, and after the strings of
\* the first k ranges.
StartReading == Reading(EmptySOM, 0, 0, 0, Y)

RangesReadTo(s, k) ==
    AfterRange(FirstRanges(s, k - 1), prevLast(s, k), prevFirst(s, k),
               s.mses[k].first, s.mses[k].last)

\* fromCompactString reads the string of the ranges one range after the other.
LEMMA ReadsRanges ==
    ASSUME NEW s, Used(s), NEW n \in Nat \ {0}, Len(s.mses) = n, NEW W,
           Written(W, [i \in 1 .. n |-> RangeString(s, i)], n)
    PROVE  \A k \in 1 .. n : DecodeAll(StartReading, W[k]) = RangesReadTo(s, k) /\ Len(W[k]) > 0
  <1> DEFINE strings == [i \in 1 .. n |-> RangeString(s, i)]
             F(t) == DecodeAll(StartReading, t)
             T == {k \in 0 .. n : k # 0 => F(W[k]) = RangesReadTo(s, k) /\ Len(W[k]) > 0}
  <1>1. \A k \in 1 .. n : /\ W[k] \in Seq(Nat)
                          /\ strings[k] = RangeString(s, k)
                          /\ k # 1 => W[k] = Append(W[k - 1], Y) \o strings[k]
    <2>1. \A k \in 1 .. n : k # 1 => k \in 2 .. n
      OBVIOUS
    <2>2. \A k \in 1 .. n : strings[k] = RangeString(s, k)
      OBVIOUS
    <2> HIDE DEF strings
    <2>3. W \in [1 .. n -> Seq(Nat)]
      BY DEF Written, strings
    <2>4. \A k \in 2 .. n : W[k] = Append(W[k - 1], Y) \o strings[k]
      BY Zenon DEF Written, strings
    <2> QED  BY <2>1, <2>2, <2>3, <2>4
  <1>2. W[1] = strings[1]
    BY Zenon DEF Written
  <1> HIDE DEF strings
  <1>3. ASSUME NEW k \in 1 .. n, NEW str \in Seq(Nat),
               F(str) = Reading(FirstRanges(s, k - 1), prevLast(s, k), prevFirst(s, k), 0, Y)
        PROVE  F(str \o strings[k]) = RangesReadTo(s, k) /\ Len(strings[k]) > 0
               /\ strings[k] \in Seq(Nat)
    <2> DEFINE som == FirstRanges(s, k - 1)
               p == prevLast(s, k)
               first == prevFirst(s, k)
               f == s.mses[k].first
               l == s.mses[k].last
    <2>1. f \in Nat /\ l \in Nat /\ p \in Nat /\ p < f /\ f <= l /\ l <= MAX_MONAD
          /\ RangeString(s, k) = RangeFrom(p, f, l)
      BY RangesRead
    <2>2. F(str) = Reading(som, p, first, 0, Y)
      BY <1>3
    <2>3. RangesReadTo(s, k) = AfterRange(som, p, first, f, l)
      BY Zenon DEF RangesReadTo
    <2> HIDE DEF som, p, first, f, l
    <2>4. RangeFrom(p, f, l) \in Seq(Nat) /\ Len(RangeFrom(p, f, l)) > 0
          /\ F(str \o RangeFrom(p, f, l)) = AfterRange(som, p, first, f, l)
      BY <2>1, <2>2, ReadsRange
    <2>5. strings[k] = RangeFrom(p, f, l)
      BY <1>1, <2>1
    <2> HIDE DEF F
    <2> QED  BY <2>3, <2>4, <2>5
  <1>4. 0 \in T
    OBVIOUS
  <1>5. 1 \in T
    <2>1. 1 \in 1 .. n /\ 1 - 1 = 0 /\ 1 \in 0 .. n
      OBVIOUS
    <2>2. F(<< >>) = StartReading
      BY StringEmpty
    <2>3. FirstRanges(s, 0) = EmptySOM /\ prevLast(s, 1) = 0 /\ prevFirst(s, 1) = 0
      BY DEF FirstRanges, prevLast, prevFirst
    <2>4. << >> \in Seq(Nat)
      OBVIOUS
    <2>5. F(<< >>) = Reading(FirstRanges(s, 1 - 1), prevLast(s, 1), prevFirst(s, 1), 0, Y)
      <3> HIDE DEF F
      <3> QED  BY <2>1, <2>2, <2>3, Zenon DEF StartReading
    <2>6. F(<< >> \o strings[1]) = RangesReadTo(s, 1) /\ Len(strings[1]) > 0
          /\ strings[1] \in Seq(Nat)
      BY <1>3, <2>1, <2>4, <2>5
    <2>7. << >> \o strings[1] = strings[1]
      BY <2>6
    <2> HIDE DEF F
    <2> QED  BY <1>2, <2>1, <2>6, <2>7
  <1>6. ASSUME NEW k \in 1 .. n, k - 1 \in T PROVE k \in T
    <2>1. CASE k = 1
      BY <1>5, <2>1
    <2>2. CASE k # 1
      <3> DEFINE j == k - 1
                 som == FirstRanges(s, j - 1)
                 p == prevLast(s, j)
                 first == prevFirst(s, j)
                 f == s.mses[j].first
                 l == s.mses[j].last
                 str == Append(W[j], Y)
      <3>1. j \in 1 .. n /\ j # 0 /\ k \in 0 .. n
        BY <2>2
      <3>2. F(W[j]) = RangesReadTo(s, j) /\ W[j] \in Seq(Nat)
        <4> HIDE DEF F
        <4> QED  BY <1>1, <1>6, <3>1
      <3>3. F(str) = Decode(F(W[j]), Y) /\ str \in Seq(Nat) /\ Len(str) > 0
        <4>1. F(str) = Decode(F(W[j]), Y)
          BY <3>2, Letters, StringAppend
        <4>2. str \in Seq(Nat) /\ Len(str) > 0
          BY <3>2, Letters
        <4> QED  BY <4>1, <4>2
      <3>4. RangesReadTo(s, j) = AfterRange(som, p, first, f, l)
        BY Zenon DEF RangesReadTo
      <3>5. f \in Nat /\ l \in Nat /\ p \in Nat /\ p < f /\ f <= l
            /\ addRange(som, f, l) = FirstRanges(s, j)
        <4> HIDE DEF j
        <4> QED  BY <3>1, RangesRead
      <3>6. l = prevLast(s, k) /\ f = prevFirst(s, k)
        BY <2>2 DEF prevLast, prevFirst
      <3> HIDE DEF som, p, first, f, l, str, F
      <3>7. Decode(AfterRange(som, p, first, f, l), Y) = Reading(addRange(som, f, l), l, f, 0, Y)
        BY <3>5, ReadsSeparator
      <3>8. F(str) = Reading(FirstRanges(s, k - 1), prevLast(s, k), prevFirst(s, k), 0, Y)
        BY <3>2, <3>3, <3>4, <3>5, <3>6, <3>7, Zenon DEF j
      <3>9. F(str \o strings[k]) = RangesReadTo(s, k) /\ strings[k] \in Seq(Nat)
            /\ Len(strings[k]) > 0
        BY <1>3, <3>3, <3>8
      <3>10. W[k] = str \o strings[k]
        BY <1>1, <2>2, Zenon DEF str, j
      <3>11. Len(str \o strings[k]) > 0
        BY <3>3, <3>9
      <3> QED  BY <3>1, <3>9, <3>10, <3>11
    <2> QED  BY <2>1, <2>2
  <1> HIDE DEF T
  <1>7. \A k \in 0 .. n : k \in T
    BY <1>4, <1>6, UpTo
  <1> QED  BY <1>7 DEF T

\* fromCompactString makes the set of which toCompactString wrote the ranges.
LEMMA StringDecodes ==
    ASSUME NEW s, Used(s)
    PROVE  fromCompactString(toCompactString(s)) = s
  <1> DEFINE n == Len(s.mses)
             strings == [i \in 1 .. n |-> RangeString(s, i)]
             str == toCompactString(s)
  <1>1. s \in Rep /\ n \in Nat /\ DOMAIN s.mses = 1 .. n
    BY RepParts, ListEnds DEF Used
  <1>2. str = WithSeparators(strings)
    BY <1>1, Zenon DEF toCompactString
  <1>3. CASE n = 0
    <2>1. s = EmptySOM
      BY <1>1, <1>3, AllRanges DEF FirstRanges
    <2>2. strings = << >>
      BY <1>3
    <2>3. WithSeparators(<< >>) = << >>
      <3> DEFINE e == << >>
                 p == [i \in DOMAIN e |-> (IF i = 1 THEN << >> ELSE <<Y>>) \o e[i]]
      <3>1. p = << >>
        OBVIOUS
      <3>2. WithSeparators(e) = ConcatAll(<< >>, p)
        BY Zenon DEF WithSeparators, ConcatAll
      <3> HIDE DEF p
      <3>3. ConcatAll(<< >>, << >>) = << >>
        BY StringEmpty
      <3> QED  BY <3>1, <3>2, <3>3
    <2>4. str = << >>
      BY <1>2, <2>2, <2>3
    <2>5. fromCompactString(str) = EmptySOM
      BY <2>4, Zenon DEF fromCompactString
    <2> QED  BY <2>1, <2>5
  <1>4. CASE n # 0
    <2>1. n \in Nat \ {0} /\ n \in 1 .. n
      BY <1>1, <1>4
    <2>2. \A k \in 1 .. n : RangeString(s, k) \in Seq(Nat)
      <3> SUFFICES ASSUME NEW k \in 1 .. n PROVE RangeString(s, k) \in Seq(Nat)
        OBVIOUS
      <3> DEFINE p == prevLast(s, k)
                 f == s.mses[k].first
                 l == s.mses[k].last
      <3>1. f \in Nat /\ l \in Nat /\ p \in Nat /\ p < f /\ f <= l /\ l <= MAX_MONAD
            /\ RangeString(s, k) = RangeFrom(p, f, l)
        BY RangesRead
      <3> HIDE DEF p, f, l
      <3>2. << >> \in Seq(Nat)
        OBVIOUS
      <3>3. RangeFrom(p, f, l) \in Seq(Nat)
        BY <3>1, <3>2, ReadsRange
      <3> QED  BY <3>1, <3>3
    <2>3. strings \in [1 .. n -> Seq(Nat)]
      BY <2>2, Zenon
    <2>4. PICK W : Written(W, strings, n) /\ WithSeparators(strings) = W[n]
      <3> HIDE DEF strings, n
      <3> QED  BY <2>1, <2>3, Writes
    <2> DEFINE som == FirstRanges(s, n - 1)
               p == prevLast(s, n)
               first == prevFirst(s, n)
               f == s.mses[n].first
               l == s.mses[n].last
               end == DecodeAll(StartReading, str)
    <2>5. DecodeAll(StartReading, W[n]) = RangesReadTo(s, n) /\ Len(W[n]) > 0
      <3> HIDE DEF n
      <3> QED  BY <2>1, <2>4, ReadsRanges DEF n
    <2>6. end = AfterRange(som, p, first, f, l) /\ str # << >>
      <3>1. RangesReadTo(s, n) = AfterRange(som, p, first, f, l)
        BY Zenon DEF RangesReadTo
      <3>2. str = W[n]
        BY <1>2, <2>4
      <3>3. W[n] # << >>
        BY <2>5
      <3> HIDE DEF str, n
      <3> QED  BY <2>5, <3>1, <3>2, <3>3
    <2>7. f \in Nat /\ l \in Nat /\ p \in Nat /\ p < f /\ f <= l
          /\ addRange(som, f, l) = FirstRanges(s, n)
      <3> HIDE DEF n
      <3> QED  BY <2>1, RangesRead DEF n
    <2>8. FirstRanges(s, n) = s
      BY <1>1, AllRanges
    <2> HIDE DEF str
    <2>9. fromCompactString(str)
             = addRange(end.som, IF end.separator = Y THEN end.cur + end.prev ELSE end.first,
                        end.cur + end.prev)
      <3>1. StartReading = [som |-> EmptySOM, prev |-> 0, first |-> 0, cur |-> 0, separator |-> Y]
        BY Zenon DEF StartReading, Reading
      <3> QED  BY <2>6, <3>1, Zenon DEF fromCompactString, DecodeAll
    <2> HIDE DEF som, p, first, f, l, end, n
    <2>10. end.som = som /\ end.cur + end.prev = l
           /\ (IF end.separator = Y THEN end.cur + end.prev ELSE end.first) = f
      <3>1. Y # Z
        BY Letters
      <3>2. (f - p) + p = f /\ (l - f) + f = l
        BY <2>7
      <3>3. CASE l = f
        <4>1. end = Reading(som, p, first, f - p, Y)
          BY <2>6, <3>3 DEF AfterRange
        <4> QED  BY <3>2, <3>3, <4>1 DEF Reading
      <3>4. CASE l # f
        <4>1. end = Reading(som, f, f, l - f, Z)
          BY <2>6, <3>4 DEF AfterRange
        <4> QED  BY <3>1, <3>2, <4>1 DEF Reading
      <3> QED  BY <3>3, <3>4
    <2>11. fromCompactString(str) = s
      BY <2>7, <2>8, <2>9, <2>10
    <2> QED  BY <2>11 DEF str
  <1> QED  BY <1>3, <1>4

\* w has the characters of u, then c, and then those of v.
Joined(w, u, c, v) ==
    /\ Len(w) = Len(u) + 1 + Len(v)
    /\ \A i \in 1 .. Len(u) : w[i] = u[i]
    /\ w[Len(u) + 1] = c
    /\ \A i \in 1 .. Len(v) : w[Len(u) + 1 + i] = v[i]

\* Where the characters of joined strings are.
LEMMA JoinReads ==
    ASSUME NEW S, NEW u \in Seq(S), NEW v \in Seq(S), NEW c \in S
    PROVE  Joined(Append(u, c) \o v, u, c, v)
  <1> DEFINE w == Append(u, c)
             n == Len(u)
  <1>1. w \in Seq(S) /\ Len(w) = n + 1 /\ w[n + 1] = c /\ n \in Nat
        /\ \A i \in 1 .. n : w[i] = u[i]
    OBVIOUS
  <1> HIDE DEF w
  <1>2. /\ Len(w \o v) = Len(w) + Len(v)
        /\ \A i \in 1 .. Len(w) : (w \o v)[i] = w[i]
        /\ \A i \in 1 .. Len(v) : (w \o v)[Len(w) + i] = v[i]
    <2>1. JoinOf(w, v, w \o v)
      BY <1>1, JoinIsJoinOf, Zenon
    <2> QED  BY <2>1, Zenon DEF JoinOf
  <1> DEFINE x == w \o v
  <1> HIDE DEF x, n
  <1>3. Len(x) = n + 1 + Len(v)
    BY <1>1, <1>2 DEF x
  <1>4. \A i \in 1 .. n : x[i] = u[i]
    BY <1>1, <1>2 DEF x
  <1>5. x[n + 1] = c
    BY <1>1, <1>2 DEF x
  <1>6. \A i \in 1 .. Len(v) : x[n + 1 + i] = v[i]
    BY <1>1, <1>2 DEF x
  <1> QED  BY <1>3, <1>4, <1>5, <1>6, Zenon DEF x, w, n, Joined

\* Where the k-th string is in what is written.
Placed(W, strings, n, k) ==
    /\ W[k] \in Seq(Nat) /\ Len(W[k]) \in Nat
    /\ Len(W[k]) <= Len(W[n]) /\ k - 1 <= Len(W[k])
    /\ \A i \in 1 .. Len(W[k]) : W[n][i] = W[k][i]
    /\ k < n => Len(W[k]) < Len(W[n]) /\ W[n][Len(W[k]) + 1] = Y
    /\ k >= 2 => /\ Len(W[k]) = Len(W[k - 1]) + 1 + Len(strings[k])
                 /\ \A i \in 1 .. Len(strings[k]) :
                       W[n][Len(W[k - 1]) + 1 + i] = strings[k][i]

\* Every string is there, behind the separator that follows the one before.
LEMMA StringPositions ==
    ASSUME NEW n \in Nat \ {0}, NEW strings \in [1 .. n -> Seq(Nat)], NEW W,
           Written(W, strings, n), NEW k \in 1 .. n
    PROVE  Placed(W, strings, n, k)
  <1>1. \A j \in 1 .. n : W[j] \in Seq(Nat) /\ Len(W[j]) \in Nat
    <2>1. \A j \in 1 .. n : W[j] \in Seq(Nat)
      BY DEF Written
    <2> QED  BY <2>1
  <1>2. ASSUME NEW j \in 2 .. n
        PROVE  /\ Len(W[j]) = Len(W[j - 1]) + 1 + Len(strings[j])
               /\ Len(strings[j]) \in Nat
               /\ \A i \in 1 .. Len(W[j - 1]) : W[j][i] = W[j - 1][i]
               /\ W[j][Len(W[j - 1]) + 1] = Y
               /\ \A i \in 1 .. Len(strings[j]) : W[j][Len(W[j - 1]) + 1 + i] = strings[j][i]
    <2> DEFINE u == W[j - 1]
               v == strings[j]
    <2>1. u \in Seq(Nat) /\ v \in Seq(Nat) /\ Y \in Nat
      BY <1>1, Letters
    <2>2. W[j] = Append(u, Y) \o v
      BY Zenon DEF Written
    <2> HIDE DEF u, v
    <2>3. Joined(Append(u, Y) \o v, u, Y, v)
      BY <2>1, JoinReads
    <2>4. Len(v) \in Nat
      BY <2>1
    <2>5. Joined(W[j], u, Y, v)
      BY <2>2, <2>3, Zenon
    <2> QED  BY <2>4, <2>5, Zenon DEF Joined, u, v
  <1> DEFINE L(j) == Len(W[j])
             T == {d \in 0 .. n - 1 :
                     /\ L(n - d) <= L(n)
                     /\ \A i \in 1 .. L(n - d) : W[n][i] = W[n - d][i]
                     /\ d # 0 => L(n - d) < L(n) /\ W[n][L(n - d) + 1] = Y}
  <1>3. 0 \in T
    <2>1. n - 0 = n /\ L(n) \in Nat /\ 0 \in 0 .. n - 1
      BY <1>1
    <2> HIDE DEF L
    <2> QED  BY <2>1
  <1>4. ASSUME NEW d \in 1 .. n - 1, d - 1 \in T PROVE d \in T
    <2> DEFINE j == n - d
    <2>1. j \in 1 .. n /\ j + 1 \in 2 .. n /\ (j + 1) - 1 = j /\ n - (d - 1) = j + 1
          /\ d \in 0 .. n - 1 /\ d # 0
      OBVIOUS
    <2>2. L(j + 1) <= L(n) /\ \A i \in 1 .. L(j + 1) : W[n][i] = W[j + 1][i]
      <3> HIDE DEF j, L
      <3> QED  BY <1>4, <2>1
    <2>3. /\ L(j + 1) = L(j) + 1 + Len(strings[j + 1]) /\ Len(strings[j + 1]) \in Nat
          /\ \A i \in 1 .. L(j) : W[j + 1][i] = W[j][i]
          /\ W[j + 1][L(j) + 1] = Y
      <3> DEFINE m == j + 1
      <3> HIDE DEF j
      <3>1. m \in 2 .. n /\ m - 1 = j
        BY <2>1
      <3> HIDE DEF m
      <3>2. /\ L(m) = L(m - 1) + 1 + Len(strings[m]) /\ Len(strings[m]) \in Nat
            /\ \A i \in 1 .. L(m - 1) : W[m][i] = W[m - 1][i]
            /\ W[m][L(m - 1) + 1] = Y
        BY <1>2, <3>1
      <3>3. /\ L(m) = L(j) + 1 + Len(strings[m]) /\ Len(strings[m]) \in Nat
            /\ \A i \in 1 .. L(j) : W[m][i] = W[j][i]
            /\ W[m][L(j) + 1] = Y
        BY <3>1, <3>2, Zenon
      <3> QED  BY <3>3, Zenon DEF m
    <2>4. L(j) \in Nat /\ L(j + 1) \in Nat /\ L(n) \in Nat
      BY <1>1, <2>1
    <2> DEFINE a1 == Len(strings[j + 1])
    <2> HIDE DEF L, j, a1
    <2>5. L(j) < L(n)
      BY <2>2, <2>3, <2>4 DEF a1
    <2>6. \A i \in 1 .. L(j) : W[n][i] = W[j][i]
      <3>1. \A i \in 1 .. L(j) : i \in 1 .. L(j + 1)
        BY <2>3, <2>4 DEF a1
      <3> QED  BY <2>2, <2>3, <3>1, Zenon
    <2>7. W[n][L(j) + 1] = Y
      <3>1. L(j) + 1 \in 1 .. L(j + 1)
        BY <2>3, <2>4 DEF a1
      <3> QED  BY <2>2, <2>3, <3>1, Zenon
    <2>8. L(j) <= L(n)
      BY <2>4, <2>5
    <2> QED  BY <2>1, <2>5, <2>6, <2>7, <2>8 DEF j
  <1> HIDE DEF T
  <1>5. \A d \in 0 .. n - 1 : d \in T
    <2>1. n - 1 \in Nat
      OBVIOUS
    <2> QED  BY <1>3, <1>4, <2>1, UpTo
  <1>6. /\ L(k) <= L(n) /\ \A i \in 1 .. L(k) : W[n][i] = W[k][i]
        /\ k < n => L(k) < L(n) /\ W[n][L(k) + 1] = Y
    <2>1. n - k \in 0 .. n - 1 /\ n - (n - k) = k /\ (k < n => n - k # 0)
      OBVIOUS
    <2> HIDE DEF L
    <2> QED  BY <1>5, <2>1 DEF T
  <1>7. k >= 2 => /\ L(k) = L(k - 1) + 1 + Len(strings[k])
                  /\ \A i \in 1 .. Len(strings[k]) : W[n][L(k - 1) + 1 + i] = strings[k][i]
    <2> SUFFICES ASSUME k >= 2
                 PROVE  /\ L(k) = L(k - 1) + 1 + Len(strings[k])
                        /\ \A i \in 1 .. Len(strings[k]) : W[n][L(k - 1) + 1 + i] = strings[k][i]
      OBVIOUS
    <2>1. k \in 2 .. n /\ k - 1 \in 1 .. n
      OBVIOUS
    <2>2. /\ L(k) = L(k - 1) + 1 + Len(strings[k]) /\ Len(strings[k]) \in Nat
          /\ \A i \in 1 .. Len(strings[k]) : W[k][L(k - 1) + 1 + i] = strings[k][i]
      BY <1>2, <2>1, Zenon
    <2>3. L(k) \in Nat /\ L(k - 1) \in Nat
      BY <1>1, <2>1
    <2> DEFINE a1 == Len(strings[k])
    <2> HIDE DEF L, a1
    <2>4. \A i \in 1 .. a1 : L(k - 1) + 1 + i \in 1 .. L(k)
      <3>1. \A x, y \in Nat : x = y + 1 + a1 => \A i \in 1 .. a1 : y + 1 + i \in 1 .. x
        <4>1. a1 \in Nat
          BY <2>2 DEF a1
        <4> QED  BY <4>1
      <3> QED  BY <2>2, <2>3, <3>1, Zenon DEF a1
    <2> QED  BY <1>6, <2>2, <2>4, Zenon DEF a1
  <1>8. k - 1 <= L(k)
    <2> DEFINE U == {d \in 0 .. n : d # 0 => d - 1 <= L(d)}
    <2>1. 0 \in U
      OBVIOUS
    <2>2. ASSUME NEW d \in 1 .. n, d - 1 \in U PROVE d \in U
      <3>1. CASE d = 1
        <4>1. L(1) \in Nat
          BY <1>1
        <4> HIDE DEF L
        <4> QED  BY <3>1, <4>1
      <3>2. CASE d # 1
        <4>1. d \in 2 .. n /\ d - 1 \in 1 .. n /\ d - 1 # 0 /\ d \in 0 .. n
          BY <3>2
        <4>2. L(d) = L(d - 1) + 1 + Len(strings[d]) /\ Len(strings[d]) \in Nat
          BY <1>2, <4>1, Zenon
        <4>3. L(d) \in Nat /\ L(d - 1) \in Nat
          BY <1>1, <4>1
        <4>4. (d - 1) - 1 <= L(d - 1)
          <5> HIDE DEF L
          <5> QED  BY <2>2, <4>1
        <4> DEFINE a1 == Len(strings[d])
        <4> HIDE DEF L, a1
        <4>5. d - 1 <= L(d)
          BY <4>1, <4>2, <4>3, <4>4 DEF a1
        <4> QED  BY <4>1, <4>5
      <3> QED  BY <3>1, <3>2
    <2> HIDE DEF U
    <2>3. \A d \in 0 .. n : d \in U
      BY <2>1, <2>2, UpTo
    <2>4. k \in U /\ k # 0
      BY <2>3
    <2> HIDE DEF L
    <2> QED  BY <2>4 DEF U
  <1>9. W[k] \in Seq(Nat) /\ Len(W[k]) \in Nat
    BY <1>1
  <1>10. Len(W[k]) <= Len(W[n]) /\ k - 1 <= Len(W[k])
    BY <1>6, <1>8
  <1>11. \A i \in 1 .. Len(W[k]) : W[n][i] = W[k][i]
    BY <1>6
  <1>12. k < n => Len(W[k]) < Len(W[n]) /\ W[n][Len(W[k]) + 1] = Y
    BY <1>6
  <1>13. k >= 2 => /\ Len(W[k]) = Len(W[k - 1]) + 1 + Len(strings[k])
                   /\ \A i \in 1 .. Len(strings[k]) :
                         W[n][Len(W[k - 1]) + 1 + i] = strings[k][i]
    BY <1>7
  <1> QED  BY <1>9, <1>10, <1>11, <1>12, <1>13, Zenon DEF Placed

\* Lists with the same elements are the same.
LEMMA SameList ==
    ASSUME NEW S, NEW u \in Seq(S), NEW v \in Seq(S), Len(u) = Len(v),
           \A k \in 1 .. Len(v) : u[k] = v[k]
    PROVE  u = v
  <1>1. DOMAIN u = 1 .. Len(v) /\ DOMAIN v = 1 .. Len(v)
    OBVIOUS
  <1>2. u = [k \in 1 .. Len(v) |-> u[k]] /\ v = [k \in 1 .. Len(v) |-> v[k]]
    BY <1>1
  <1>3. [k \in 1 .. Len(v) |-> u[k]] = [k \in 1 .. Len(v) |-> v[k]]
    BY Zenon
  <1> QED  BY <1>2, <1>3, Zenon

\* Reading a number where one is.
LEMMA ReadsNumber ==
    ASSUME NEW str \in Seq(Nat), NEW m \in Nat, m <= MAX_MONAD, NEW i \in Nat, i >= 1,
           i + Len(num2string(m)) <= Len(str) + 1,
           \A k \in 1 .. Len(num2string(m)) : str[i + k - 1] = num2string(m)[k],
           \/ i + Len(num2string(m)) = Len(str) + 1
           \/ str[i + Len(num2string(m))] \in {Y, Z}
    PROVE  EndOfNumber(str, i) = i + Len(num2string(m)) /\ Number(str, i) = m
  <1> DEFINE t == num2string(m)
             n == Len(t)
             e == i + n
             E == {j \in i .. Len(str) : str[j] \in {Y, Z}} \cup {Len(str) + 1}
  <1>1. t \in Seq(0 .. (Radix - 1)) /\ t \in Seq(Nat) /\ n \in Nat
    BY NumString, NumIsString
  <1>2. \A k \in 1 .. n : t[k] \notin {Y, Z}
    <2>1. \A k \in 1 .. n : t[k] \in 0 .. (Radix - 1)
      <3> DEFINE S == 0 .. (Radix - 1)
      <3> HIDE DEF S, t
      <3>1. t \in Seq(S)
        BY <1>1 DEF S
      <3>2. \A k \in 1 .. n : t[k] \in S
        BY <3>1
      <3> QED  BY <3>2 DEF S
    <2>2. \A d \in 0 .. (Radix - 1) : d # Y /\ d # Z
      BY RadixAssumption DEF Y, Z
    <2> HIDE DEF t
    <2> QED  BY <2>1, <2>2
  <1> HIDE DEF t, n
  <1>3. /\ e <= Len(str) + 1 /\ \A k \in 1 .. n : str[i + k - 1] = t[k]
        /\ (e = Len(str) + 1 \/ str[e] \in {Y, Z})
    BY DEF t, n
  <1>4. e \in E
    BY <1>1, <1>3
  <1>5. \A j \in E : e <= j
    <2> SUFFICES ASSUME NEW j \in E, j < e PROVE FALSE
      BY <1>1
    <2>1. j \in i .. Len(str) /\ str[j] \in {Y, Z}
      BY <1>1, <1>3
    <2>2. j - i + 1 \in 1 .. n /\ i + (j - i + 1) - 1 = j
      BY <1>1, <2>1
    <2>3. str[j] = t[j - i + 1]
      BY <1>3, <2>2
    <2> QED  BY <1>2, <2>1, <2>2, <2>3
  <1>6. E \in SUBSET Nat
    OBVIOUS
  <1>7. Min(E) = e
    <2> HIDE DEF E, e
    <2>1. Min(E) \in E /\ \A j \in E : Min(E) <= j
      BY <1>4, <1>6, LeastPosition
    <2> DEFINE x == Min(E)
    <2> HIDE DEF x
    <2>2. x \in Nat /\ e \in Nat /\ x <= e /\ e <= x
      BY <1>4, <1>5, <1>6, <2>1 DEF x
    <2>3. x = e
      BY <2>2
    <2> QED  BY <2>3 DEF x
  <1>8. EndOfNumber(str, i) = e
    BY <1>7, Zenon DEF EndOfNumber
  <1>9. SubSeq(str, i, e - 1) = t
    <2> DEFINE x == SubSeq(str, i, e - 1)
    <2>1. x \in Seq(Nat) /\ Len(x) = n /\ \A k \in 1 .. n : x[k] = str[i + k - 1]
      BY <1>1, <1>3
    <2> HIDE DEF x
    <2>2. \A k \in 1 .. n : x[k] = t[k]
      BY <1>3, <2>1
    <2>3. x \in Seq(Nat) /\ t \in Seq(Nat) /\ Len(x) = Len(t)
          /\ \A k \in 1 .. Len(t) : x[k] = t[k]
      BY <1>1, <2>1, <2>2 DEF n
    <2>4. x = t
      BY <2>3, SameList
    <2> QED  BY <2>4 DEF x
  <1>10. Number(str, i) = ShiftAll(0, t)
    BY <1>8, <1>9, Zenon DEF Number, ShiftAll
  <1>11. ShiftAll(0, t) = m
    BY NumberValue DEF t
  <1> QED  BY <1>8, <1>10, <1>11, Zenon DEF e, n, t

\* r is the string t or, for a range of several monads, t, Z and u.
RangeReading(r, t, u, single) ==
    /\ r \in Seq(Nat) /\ Len(r) \in Nat
    /\ t \in Seq(Nat) /\ u \in Seq(Nat) /\ Len(t) > 0
    /\ single => r = t
    /\ ~single => Joined(r, t, Z, u)

\* Where the characters of a range's string are.
LEMMA RangeReads ==
    ASSUME NEW p \in Nat, NEW f \in Nat, NEW l \in Nat, p < f, f <= l, l <= MAX_MONAD
    PROVE  RangeReading(RangeFrom(p, f, l), num2string(f - p), num2string(l - f), l = f)
  <1> DEFINE t == num2string(f - p)
             u == num2string(l - f)
             r == RangeFrom(p, f, l)
  <1>1. /\ f - p \in Nat /\ f - p <= MAX_MONAD /\ f - p > 0
        /\ l - f \in Nat /\ l - f <= MAX_MONAD
    BY MaxMonadAssumption
  <1>2. t \in Seq(Nat) /\ u \in Seq(Nat) /\ Len(t) > 0
    BY <1>1, NumIsString, NumString
  <1>3. r = t \o (IF l = f THEN << >> ELSE <<Z>> \o u)
    BY Zenon DEF RangeFrom
  <1> HIDE DEF t, u, r
  <1>4. CASE l = f
    <2>1. t \o << >> = t
      BY <1>2
    <2>2. r = t
      BY <1>3, <1>4, <2>1
    <2>3. r \in Seq(Nat) /\ Len(r) \in Nat
      BY <1>2, <2>2
    <2> QED  BY <1>2, <1>4, <2>2, <2>3 DEF t, u, r, RangeReading
  <1>5. CASE l # f
    <2> DEFINE w == Append(t, Z) \o u
    <2>1. r = t \o (<<Z>> \o u)
      BY <1>3, <1>5, Zenon
    <2>2. t \o (<<Z>> \o u) = w
      <3>1. Separates(t, Z, u)
        BY <1>2, Letters, JoinSeparated
      <3> QED  BY <3>1, Zenon DEF Separates
    <2>3. w \in Seq(Nat)
      BY <1>2, Letters, JoinIsList
    <2>4. Joined(w, t, Z, u)
      BY <1>2, Letters, JoinReads
    <2> HIDE DEF w
    <2>5. r = w
      BY <2>1, <2>2, Zenon
    <2>6. r \in Seq(Nat) /\ Len(r) \in Nat
      BY <2>3, <2>5
    <2>7. Joined(r, t, Z, u)
      BY <2>4, <2>5, Zenon
    <2> QED  BY <1>2, <1>5, <2>6, <2>7 DEF t, u, r, RangeReading
  <1> QED  BY <1>4, <1>5

\* The state of the loop of fromCompactStringFM.
At(i, prev, som) == [i |-> i, prev |-> prev, som |-> som]

\* One turn reads one range.
LEMMA ReadsOneRange ==
    ASSUME NEW str \in Seq(Nat), NEW som, NEW p \in Nat, NEW f \in Nat, NEW l \in Nat,
           p < f, f <= l, l <= MAX_MONAD, NEW i \in Nat, i >= 1,
           i + Len(RangeFrom(p, f, l)) <= Len(str) + 1,
           \A k \in 1 .. Len(RangeFrom(p, f, l)) : str[i + k - 1] = RangeFrom(p, f, l)[k],
           \/ i + Len(RangeFrom(p, f, l)) = Len(str) + 1
           \/ str[i + Len(RangeFrom(p, f, l))] = Y
    PROVE  ReadRange(str, At(i, p, som))
              = At(i + Len(RangeFrom(p, f, l)) + 1, l, addRange(som, f, l))
  <1> DEFINE t == num2string(f - p)
             u == num2string(l - f)
             r == RangeFrom(p, f, l)
             st == At(i, p, som)
             e == EndOfNumber(str, i)
             wide == e <= Len(str) /\ str[e] = Z
             n1 == Number(str, i)
             n2 == Number(str, e + 1)
             e2 == EndOfNumber(str, e + 1)
             first == p + n1
             last == first + (IF wide THEN n2 ELSE 0)
  <1>1. st.i = i /\ st.prev = p /\ st.som = som
    BY DEF At
  <1>2. ReadRange(str, st)
           = IF i > Len(str) THEN st
             ELSE At(1 + (IF wide THEN e2 ELSE e), last, addRange(som, first, last))
    <2> HIDE DEF st
    <2> QED  BY <1>1, Zenon DEF ReadRange, At
  <1>3. /\ f - p \in Nat /\ f - p <= MAX_MONAD /\ f - p > 0 /\ p + (f - p) = f
        /\ l - f \in Nat /\ l - f <= MAX_MONAD /\ f + (l - f) = l
    BY MaxMonadAssumption
  <1>4. /\ Len(r) \in Nat /\ t \in Seq(Nat) /\ u \in Seq(Nat) /\ Len(t) > 0
        /\ l = f => r = t
        /\ l # f =>
                /\ Len(r) = Len(t) + 1 + Len(u)
                /\ \A k \in 1 .. Len(t) : r[k] = t[k]
                /\ r[Len(t) + 1] = Z
                /\ \A k \in 1 .. Len(u) : r[Len(t) + 1 + k] = u[k]
    <2>1. RangeReading(r, t, u, l = f)
      BY RangeReads
    <2> HIDE DEF r, t, u
    <2> QED  BY <2>1, Zenon DEF RangeReading, Joined
  <1>5. Len(t) \in Nat /\ Len(u) \in Nat /\ Len(str) \in Nat
    BY <1>4
  <1>6. /\ i + Len(r) <= Len(str) + 1
        /\ \A k \in 1 .. Len(r) : str[i + k - 1] = r[k]
        /\ (i + Len(r) = Len(str) + 1 \/ str[i + Len(r)] = Y)
    OBVIOUS
  <1>7. ASSUME i + Len(t) <= Len(str) + 1,
               \A k \in 1 .. Len(t) : str[i + k - 1] = t[k],
               i + Len(t) = Len(str) + 1 \/ str[i + Len(t)] \in {Y, Z}
        PROVE  e = i + Len(t) /\ n1 = f - p
    BY <1>3, <1>7, ReadsNumber
  <1>8. ASSUME NEW j \in Nat, j >= 1, j + Len(u) <= Len(str) + 1,
               \A k \in 1 .. Len(u) : str[j + k - 1] = u[k],
               j + Len(u) = Len(str) + 1 \/ str[j + Len(u)] \in {Y, Z}
        PROVE  EndOfNumber(str, j) = j + Len(u) /\ Number(str, j) = l - f
    BY <1>3, <1>8, ReadsNumber
  <1> HIDE DEF r, t, u, e, n1
  <1>9. CASE l = f
    <2>1. Len(r) = Len(t) /\ r = t
      BY <1>4, <1>9
    <2>2. e = i + Len(t) /\ n1 = f - p
      <3>1. i + Len(t) <= Len(str) + 1
        BY <1>6, <2>1
      <3>2. \A k \in 1 .. Len(t) : str[i + k - 1] = t[k]
        BY <1>6, <2>1, Zenon
      <3>3. i + Len(t) = Len(str) + 1 \/ str[i + Len(t)] \in {Y, Z}
        BY <1>6, <2>1
      <3> QED  BY <1>7, <3>1, <3>2, <3>3
    <2>3. ~wide
      <3>1. e = Len(str) + 1 \/ str[e] = Y
        BY <1>6, <2>1, <2>2, Zenon
      <3> QED  BY <1>5, <3>1, Letters
    <2>4. ~(i > Len(str))
      BY <1>4, <1>5, <1>6, <2>1
    <2>5. first = f
      BY <1>3, <2>2
    <2>6. last = l
      <3>1. last = first + 0
        BY <2>3, Zenon
      <3> HIDE DEF first, last
      <3> QED  BY <1>9, <2>5, <3>1
    <2>7. 1 + e = i + Len(r) + 1
      BY <1>5, <2>1, <2>2
    <2> HIDE DEF wide, first, last, st
    <2>8. ReadRange(str, st) = At(1 + e, last, addRange(som, first, last))
      BY <1>2, <2>3, <2>4, Zenon
    <2> QED  BY <2>5, <2>6, <2>7, <2>8, Zenon DEF st, r
  <1>10. CASE l # f
    <2>1. /\ Len(r) = Len(t) + 1 + Len(u)
          /\ \A k \in 1 .. Len(t) : r[k] = t[k]
          /\ r[Len(t) + 1] = Z
          /\ \A k \in 1 .. Len(u) : r[Len(t) + 1 + k] = u[k]
      BY <1>4, <1>10, Zenon
    <2> DEFINE m == Len(t)
               n == Len(u)
               c == Len(r)
    <2> HIDE DEF m, n, c
    <2>2. m \in Nat /\ n \in Nat /\ c \in Nat /\ c = m + 1 + n /\ m > 0 /\ i + c <= Len(str) + 1
      BY <1>4, <1>5, <1>6, <2>1 DEF m, n, c
    <2>3. /\ \A k \in 1 .. c : str[i + k - 1] = r[k]
          /\ \A k \in 1 .. m : r[k] = t[k]
          /\ r[m + 1] = Z
          /\ \A k \in 1 .. n : r[m + 1 + k] = u[k]
      BY <1>6, <2>1, Zenon DEF m, n, c
    <2>4. \A k \in 1 .. m : str[i + k - 1] = t[k]
      <3>1. \A k \in 1 .. m : k \in 1 .. c
        BY <2>2
      <3> QED  BY <2>3, <3>1, Zenon
    <2>5. str[i + m] = Z
      <3>1. m + 1 \in 1 .. c /\ i + (m + 1) - 1 = i + m
        BY <2>2
      <3>2. str[i + (m + 1) - 1] = r[m + 1]
        BY <2>3, <3>1, Zenon
      <3> QED  BY <2>3, <3>1, <3>2, Zenon
    <2>6. \A k \in 1 .. n : str[(i + m + 1) + k - 1] = u[k]
      <3> SUFFICES ASSUME NEW k \in 1 .. n PROVE str[(i + m + 1) + k - 1] = u[k]
        OBVIOUS
      <3>1. m + 1 + k \in 1 .. c /\ i + (m + 1 + k) - 1 = (i + m + 1) + k - 1
        BY <2>2
      <3>2. str[i + (m + 1 + k) - 1] = r[m + 1 + k]
        BY <2>3, <3>1, Zenon
      <3> QED  BY <2>3, <3>1, <3>2, Zenon
    <2>7. e = i + m /\ n1 = f - p
      <3>1. i + Len(t) <= Len(str) + 1
        BY <1>5, <2>2 DEF m
      <3>2. \A k \in 1 .. Len(t) : str[i + k - 1] = t[k]
        BY <2>4, Zenon DEF m
      <3>3. str[i + Len(t)] \in {Y, Z}
        BY <2>5 DEF m
      <3> QED  BY <1>7, <3>1, <3>2, <3>3 DEF m
    <2>8. wide
      BY <1>5, <2>2, <2>5, <2>7
    <2>9. e + 1 = i + m + 1 /\ i + m + 1 \in Nat /\ i + m + 1 >= 1
      BY <2>2, <2>7
    <2>10. e2 = i + c /\ n2 = l - f
      <3> DEFINE j == i + m + 1
      <3>1. j \in Nat /\ j >= 1 /\ j + n = i + c
        BY <2>2
      <3>2. \A k \in 1 .. Len(u) : str[j + k - 1] = u[k]
        BY <2>6, Zenon DEF n
      <3> HIDE DEF j
      <3>3. j + Len(u) <= Len(str) + 1
        BY <2>2, <3>1 DEF n
      <3>4. j + Len(u) = Len(str) + 1 \/ str[j + Len(u)] \in {Y, Z}
        <4>1. i + c = Len(str) + 1 \/ str[i + c] = Y
          BY <1>6 DEF c
        <4> QED  BY <3>1, <4>1 DEF n
      <3>5. EndOfNumber(str, j) = j + Len(u) /\ Number(str, j) = l - f
        BY <1>8, <3>1, <3>2, <3>3, <3>4
      <3>6. e + 1 = j
        BY <2>9 DEF j
      <3> QED  BY <3>1, <3>5, <3>6, Zenon DEF n
    <2>11. ~(i > Len(str))
      BY <1>5, <2>2
    <2>12. first = f
      BY <1>3, <2>7
    <2>13. last = l
      <3>1. last = first + n2
        BY <2>8, Zenon
      <3> HIDE DEF first, last, n2
      <3> QED  BY <1>3, <2>10, <2>12, <3>1
    <2>14. 1 + e2 = i + Len(r) + 1
      <3> HIDE DEF e2
      <3>1. 1 + (i + c) = i + c + 1
        BY <2>2
      <3> QED  BY <2>10, <3>1 DEF c
    <2> HIDE DEF wide, first, last, st, e2
    <2>15. ReadRange(str, st) = At(1 + e2, last, addRange(som, first, last))
      BY <1>2, <2>8, <2>11, Zenon
    <2> QED  BY <2>12, <2>13, <2>14, <2>15, Zenon DEF st, r
  <1> QED  BY <1>9, <1>10

\* The strings that toCompactStringFM writes.
StringsFM(s) ==
    [i \in 1 .. Len(s.mses) |->
       IF i = 1 THEN num2string(s.mses[1].last - s.mses[1].first) ELSE RangeString(s, i)]

\* They are strings, the first that of a number, the others those of ranges.
LEMMA StringsFMParts ==
    ASSUME NEW s, Used(s)
    PROVE  /\ StringsFM(s) \in [1 .. Len(s.mses) -> Seq(Nat)]
           /\ \A k \in 1 .. Len(s.mses) : k # 1 =>
                 StringsFM(s)[k] = RangeFrom(prevLast(s, k), s.mses[k].first, s.mses[k].last)
           /\ 1 \in 1 .. Len(s.mses) =>
                 /\ StringsFM(s)[1] = num2string(s.mses[1].last - s.mses[1].first)
                 /\ s.mses[1].last - s.mses[1].first \in Nat
                 /\ s.mses[1].last - s.mses[1].first <= MAX_MONAD
                 /\ s.mses[1].first + (s.mses[1].last - s.mses[1].first) = s.mses[1].last
  <1> DEFINE n == Len(s.mses)
  <1>1. 1 \in 1 .. n =>
           /\ StringsFM(s)[1] = num2string(s.mses[1].last - s.mses[1].first)
           /\ s.mses[1].last - s.mses[1].first \in Nat
           /\ s.mses[1].last - s.mses[1].first <= MAX_MONAD
           /\ s.mses[1].first + (s.mses[1].last - s.mses[1].first) = s.mses[1].last
    <2> SUFFICES ASSUME 1 \in 1 .. n
                 PROVE  /\ StringsFM(s)[1] = num2string(s.mses[1].last - s.mses[1].first)
                        /\ s.mses[1].last - s.mses[1].first \in Nat
                        /\ s.mses[1].last - s.mses[1].first <= MAX_MONAD
                        /\ s.mses[1].first + (s.mses[1].last - s.mses[1].first) = s.mses[1].last
      OBVIOUS
    <2>1. StringsFM(s)[1] = num2string(s.mses[1].last - s.mses[1].first)
      BY Zenon DEF StringsFM
    <2> DEFINE f == s.mses[1].first
               l == s.mses[1].last
    <2>2. f \in Nat /\ l \in Nat /\ f <= l /\ l <= MAX_MONAD
      BY RangesRead
    <2> HIDE DEF f, l
    <2>3. l - f \in Nat /\ l - f <= MAX_MONAD /\ f + (l - f) = l
      BY <2>2, MaxMonadAssumption
    <2> QED  BY <2>1, <2>3 DEF f, l
  <1>2. ASSUME NEW k \in 1 .. n, k # 1
        PROVE  /\ StringsFM(s)[k]
                     = RangeFrom(prevLast(s, k), s.mses[k].first, s.mses[k].last)
               /\ RangeFrom(prevLast(s, k), s.mses[k].first, s.mses[k].last) \in Seq(Nat)
    <2> DEFINE p == prevLast(s, k)
               f == s.mses[k].first
               l == s.mses[k].last
    <2>1. StringsFM(s)[k] = RangeString(s, k)
      BY <1>2, Zenon DEF StringsFM
    <2>2. f \in Nat /\ l \in Nat /\ p \in Nat /\ p < f /\ f <= l /\ l <= MAX_MONAD
          /\ RangeString(s, k) = RangeFrom(p, f, l)
      BY RangesRead
    <2> HIDE DEF p, f, l
    <2>3. RangeFrom(p, f, l) \in Seq(Nat)
      BY <2>2, RangeReads DEF RangeReading
    <2> QED  BY <2>1, <2>2, <2>3, Zenon DEF p, f, l
  <1>3. \A k \in 1 .. n : StringsFM(s)[k] \in Seq(Nat)
    <2> SUFFICES ASSUME NEW k \in 1 .. n PROVE StringsFM(s)[k] \in Seq(Nat)
      OBVIOUS
    <2>1. CASE k = 1
      <3> DEFINE m == s.mses[1].last - s.mses[1].first
      <3>1. StringsFM(s)[1] = num2string(m) /\ m \in Nat /\ m <= MAX_MONAD
        <4> HIDE DEF n
        <4> QED  BY <1>1, <2>1
      <3> HIDE DEF m
      <3>2. num2string(m) \in Seq(Nat)
        BY <3>1, NumIsString
      <3> QED  BY <2>1, <3>1, <3>2, Zenon
    <2>2. CASE k # 1
      BY <1>2, <2>2, Zenon
    <2> QED  BY <2>1, <2>2
  <1>4. StringsFM(s) \in [1 .. n -> Seq(Nat)]
    <2> DEFINE w == StringsFM(s)
    <2>1. w = [i \in 1 .. n |-> w[i]]
      BY Zenon DEF StringsFM
    <2> HIDE DEF w, n
    <2>2. \A i \in 1 .. n : w[i] \in Seq(Nat)
      BY <1>3 DEF w
    <2>3. [i \in 1 .. n |-> w[i]] \in [1 .. n -> Seq(Nat)]
      BY <2>2, Zenon
    <2>4. w \in [1 .. n -> Seq(Nat)]
      BY <2>1, <2>3, Zenon
    <2> QED  BY <2>4 DEF w
  <1>5. \A k \in 1 .. n : k # 1 =>
           StringsFM(s)[k] = RangeFrom(prevLast(s, k), s.mses[k].first, s.mses[k].last)
    BY <1>2, Zenon
  <1> QED  BY <1>1, <1>4, <1>5, Zenon

\* Where the loop of fromCompactStringFM is before the range behind the k-th.
ReadTo(s, W, k) == At(Len(W[k]) + 2, s.mses[k].last, FirstRanges(s, k))

\* The turn that reads the range behind the k-th.
LEMMA TurnReads ==
    ASSUME NEW s, Used(s), NEW n \in Nat \ {0}, n = Len(s.mses), NEW W,
           Written(W, StringsFM(s), n), NEW k \in 1 .. (n - 1)
    PROVE  ReadRange(W[n], ReadTo(s, W, k)) = ReadTo(s, W, k + 1)
  <1> DEFINE strings == StringsFM(s)
             str == W[n]
             h == k + 1
             p == s.mses[k].last
             f == s.mses[h].first
             l == s.mses[h].last
             som == FirstRanges(s, k)
             r == RangeFrom(p, f, l)
             c == Len(W[k])
             d == Len(W[h])
             i == c + 2
  <1>1. h \in 1 .. n /\ h # 1 /\ h >= 2 /\ h - 1 = k /\ k \in 1 .. n
    OBVIOUS
  <1>2. strings \in [1 .. n -> Seq(Nat)] /\ Written(W, strings, n)
    BY StringsFMParts
  <1>3. prevLast(s, h) = p
    <2>1. prevLast(s, h) = s.mses[h - 1].last
      BY <1>1, Zenon DEF prevLast
    <2> HIDE DEF h
    <2> QED  BY <1>1, <2>1
  <1>4. strings[h] = r
    <2> HIDE DEF h
    <2>1. strings[h] = RangeFrom(prevLast(s, h), f, l)
      BY <1>1, StringsFMParts
    <2> QED  BY <1>3, <2>1, Zenon
  <1>5. f \in Nat /\ l \in Nat /\ p \in Nat /\ p < f /\ f <= l /\ l <= MAX_MONAD
        /\ addRange(som, f, l) = FirstRanges(s, h)
    <2>1. f \in Nat /\ l \in Nat /\ prevLast(s, h) \in Nat /\ prevLast(s, h) < f /\ f <= l
          /\ l <= MAX_MONAD /\ addRange(FirstRanges(s, h - 1), f, l) = FirstRanges(s, h)
      <3> HIDE DEF h
      <3> QED  BY <1>1, RangesRead
    <2> HIDE DEF h
    <2> QED  BY <1>1, <1>3, <2>1
  <1>6. Len(r) \in Nat
    <2> HIDE DEF p, f, l
    <2> QED  BY <1>5, RangeReads DEF RangeReading
  <1> HIDE DEF strings
  <1>7. str \in Seq(Nat) /\ Len(str) \in Nat
    <2>1. n \in 1 .. n
      OBVIOUS
    <2>2. Placed(W, strings, n, n)
      BY <1>2, <2>1, StringPositions
    <2> QED  BY <2>2, Zenon DEF Placed
  <1>8. c \in Nat
    <2>1. Placed(W, strings, n, k)
      BY <1>1, <1>2, StringPositions
    <2> QED  BY <2>1, Zenon DEF Placed
  <1>9. /\ d \in Nat /\ d <= Len(str)
        /\ h < n => str[d + 1] = Y
        /\ d = Len(W[h - 1]) + 1 + Len(strings[h])
        /\ \A j \in 1 .. Len(strings[h]) : str[Len(W[h - 1]) + 1 + j] = strings[h][j]
    <2> HIDE DEF h
    <2>1. h \in 1 .. n
      BY <1>1
    <2>2. Placed(W, strings, n, h)
      BY <1>2, <2>1, StringPositions
    <2> QED  BY <1>1, <2>2, Zenon DEF Placed
  <1>10. /\ d = c + 1 + Len(r)
         /\ \A j \in 1 .. Len(r) : str[c + 1 + j] = r[j]
    <2> HIDE DEF h, r
    <2>1. Len(W[h - 1]) = c
      BY <1>1
    <2> HIDE DEF c, d, str
    <2> QED  BY <1>4, <1>9, <2>1
  <1>11. h = n => d = Len(str)
    BY Zenon
  <1>12. ReadTo(s, W, k) = At(i, p, som) /\ ReadTo(s, W, h) = At(d + 2, l, FirstRanges(s, h))
    BY Zenon DEF ReadTo
  <1> HIDE DEF str, h, p, f, l, som, r, c, d
  <1>13. i \in Nat /\ i >= 1 /\ i + Len(r) = d + 1 /\ i + Len(r) + 1 = d + 2
         /\ i + Len(r) <= Len(str) + 1
    <2> DEFINE u == Len(r)
               v == Len(str)
    <2>1. u \in Nat /\ v \in Nat /\ c \in Nat /\ d \in Nat /\ d <= v /\ d = c + 1 + u
      BY <1>6, <1>7, <1>8, <1>9, <1>10
    <2> HIDE DEF u, v
    <2>2. i \in Nat /\ i >= 1 /\ i + u = d + 1 /\ i + u + 1 = d + 2 /\ i + u <= v + 1
      BY <2>1
    <2> QED  BY <2>2 DEF u, v
  <1>14. \A j \in 1 .. Len(r) : str[i + j - 1] = r[j]
    <2>1. \A j \in 1 .. Len(r) : i + j - 1 = c + 1 + j
      BY <1>6, <1>8
    <2> QED  BY <1>10, <2>1, Zenon
  <1>15. i + Len(r) = Len(str) + 1 \/ str[i + Len(r)] = Y
    <2>1. h = n \/ h < n
      BY <1>1
    <2>2. CASE h = n
      BY <1>11, <1>13, <2>2
    <2>3. CASE h < n
      BY <1>9, <1>13, <2>3, Zenon
    <2> QED  BY <2>1, <2>2, <2>3
  <1> HIDE DEF i
  <1>16. ReadRange(str, At(i, p, som)) = At(i + Len(r) + 1, l, addRange(som, f, l))
    <2>1. /\ f \in Nat /\ l \in Nat /\ p \in Nat /\ p < f /\ f <= l /\ l <= MAX_MONAD
          /\ str \in Seq(Nat) /\ i \in Nat /\ i >= 1
      BY <1>5, <1>7, <1>13
    <2> HIDE DEF f, l, p, str
    <2> QED  BY <1>13, <1>14, <1>15, <2>1, ReadsOneRange DEF r
  <1>17. ReadRange(str, ReadTo(s, W, k)) = ReadTo(s, W, h)
    BY <1>5, <1>12, <1>13, <1>16, Zenon
  <1> QED  BY <1>17 DEF str, h

\* A list that is not empty.
LEMMA OneOrMore ==
    ASSUME NEW n \in Nat \ {0}
    PROVE  (n = 1 \/ 1 < n) /\ (n - 1 <= 0 => n = 1)
  OBVIOUS

\* What fromCompactStringFM reads first of a string with W[1] in front: its
\* first number, and no string that stands for anything else.
FirstRead(s, str, first, n) ==
    /\ EndOfNumber(str, 1) = Len(first) + 1
    /\ Number(str, 1) = s.mses[1].last - s.mses[1].first
    /\ str # <<Z, Z>>
    /\ str = << >> => n = 1 /\ s.mses[1].last = s.mses[1].first
    /\ str \in Seq(Nat) /\ n - 1 <= Len(str)

\* The first number in the string.
LEMMA FirstNumber ==
    ASSUME NEW s, Used(s), NEW n \in Nat \ {0}, n = Len(s.mses), NEW W,
           Written(W, StringsFM(s), n)
    PROVE  FirstRead(s, W[n], W[1], n)
  <1> DEFINE strings == StringsFM(s)
             str == W[n]
             m == s.mses[1].last - s.mses[1].first
             t == num2string(m)
             f == s.mses[1].first
             l == s.mses[1].last
  <1>1. 1 \in 1 .. n /\ n \in 1 .. n
    OBVIOUS
  <1>2. strings \in [1 .. n -> Seq(Nat)] /\ Written(W, strings, n)
    BY StringsFMParts
  <1>3. strings[1] = t /\ m \in Nat /\ m <= MAX_MONAD /\ f + m = l
    BY <1>1, StringsFMParts
  <1>4. W[1] = t
    BY <1>2, <1>3, Zenon DEF Written
  <1> HIDE DEF strings, m, t
  <1>5. Placed(W, strings, n, 1) /\ Placed(W, strings, n, n)
    BY <1>1, <1>2, StringPositions
  <1>6. /\ t \in Seq(Nat) /\ Len(t) \in Nat /\ Len(t) <= Len(str)
        /\ \A i \in 1 .. Len(t) : str[i] = t[i]
        /\ 1 < n => Len(t) < Len(str) /\ str[Len(t) + 1] = Y
    BY <1>4, <1>5, Zenon DEF Placed
  <1>7. str \in Seq(Nat) /\ Len(str) \in Nat /\ n - 1 <= Len(str)
    BY <1>5, Zenon DEF Placed
  <1>8. n = 1 \/ 1 < n
    BY OneOrMore
  <1>9. n = 1 => Len(t) = Len(str)
    BY <1>4, Zenon
  <1> HIDE DEF str
  <1>10. EndOfNumber(str, 1) = 1 + Len(t) /\ Number(str, 1) = m
    <2>1. 1 + Len(t) <= Len(str) + 1
      BY <1>6, <1>7
    <2>2. \A k \in 1 .. Len(t) : str[1 + k - 1] = t[k]
      <3>1. \A k \in 1 .. Len(t) : 1 + k - 1 = k
        OBVIOUS
      <3> QED  BY <1>6, <3>1, Zenon
    <2>3. 1 + Len(t) = Len(str) + 1 \/ str[1 + Len(t)] \in {Y, Z}
      <3>1. 1 + Len(t) = Len(t) + 1
        BY <1>6
      <3>2. CASE n = 1
        BY <1>9, <3>1, <3>2, Zenon
      <3>3. CASE 1 < n
        <4>1. str[1 + Len(t)] = Y
          BY <1>6, <3>1, <3>3, Zenon
        <4> QED  BY <4>1
      <3> QED  BY <1>8, <3>2, <3>3
    <2>4. 1 \in Nat /\ 1 >= 1
      OBVIOUS
    <2> QED  BY <1>3, <1>7, <2>1, <2>2, <2>3, <2>4, ReadsNumber DEF t
  <1>11. str # <<Z, Z>>
    <2> SUFFICES ASSUME str = <<Z, Z>> PROVE FALSE
      OBVIOUS
    <2>1. Len(str) = 2 /\ str[1] = Z
      OBVIOUS
    <2>2. CASE Len(t) > 0
      <3>1. 1 \in 1 .. Len(t)
        BY <1>6, <2>2
      <3>2. t[1] = Z
        BY <1>6, <2>1, <3>1
      <3> DEFINE S == 0 .. (Radix - 1)
      <3>3. t \in Seq(S)
        BY <1>3, NumString DEF t
      <3> HIDE DEF S
      <3>4. t[1] \in S
        BY <3>1, <3>3
      <3>5. Z \notin S
        BY RadixAssumption DEF S, Z
      <3> QED  BY <3>2, <3>4, <3>5
    <2>3. CASE ~(Len(t) > 0)
      <3>1. Len(t) = 0 /\ Len(t) + 1 = 1
        BY <1>6, <2>3
      <3>2. n # 1
        BY <1>9, <2>1, <3>1
      <3>3. str[1] = Y
        BY <1>6, <1>8, <3>1, <3>2
      <3> QED  BY <2>1, <3>3, Letters
    <2> QED  BY <2>2, <2>3
  <1>12. str = << >> => n = 1 /\ l = f
    <2> SUFFICES ASSUME str = << >> PROVE n = 1 /\ l = f
      OBVIOUS
    <2>1. Len(str) = 0
      OBVIOUS
    <2>2. n = 1
      <3>1. n - 1 <= 0
        BY <1>7, <2>1
      <3> QED  BY <3>1, OneOrMore
    <2>3. ~(m > 0)
      <3>1. m > 0 => Len(t) > 0
        BY <1>3, NumString DEF t
      <3> QED  BY <1>6, <2>1, <3>1
    <2>4. m = 0
      BY <1>3, <2>3
    <2>5. f \in Nat /\ l \in Nat
      BY <1>1, RangesRead
    <2> HIDE DEF f, l
    <2>6. l = f
      BY <1>3, <2>4, <2>5
    <2> QED  BY <2>2, <2>6
  <1>13. EndOfNumber(str, 1) = Len(W[1]) + 1
    BY <1>4, <1>6, <1>10
  <1> QED  BY <1>7, <1>10, <1>11, <1>12, <1>13, Zenon DEF str, m, FirstRead

\* The turns of fromCompactStringFM read the ranges behind the first.
LEMMA TurnsRead ==
    ASSUME NEW s, Used(s), NEW n \in Nat \ {0}, n = Len(s.mses), NEW W,
           Written(W, StringsFM(s), n), W[n] \in Seq(Nat), n - 1 <= Len(W[n])
    PROVE  ReadAll(ReadTo(s, W, 1), W[n], W[n]) = ReadTo(s, W, n)
  <1> DEFINE str == W[n]
             N == Len(str)
             base == ReadTo(s, W, 1)
             r == ReadLoop!Run(str, base, str, 0)
             G(k) == IF k <= n - 1 THEN ReadTo(s, W, k + 1) ELSE ReadTo(s, W, n)
             T == {k \in 0 .. N : r[1 .. k] = G(k)}
  <1>1. str \in Seq(Nat) /\ N \in Nat /\ DOMAIN str = 1 .. N /\ n - 1 <= N
    OBVIOUS
  <1> HIDE DEF str
  <1>2. ReadAll(base, str, str) = r[1 .. N]
    BY <1>1, StringLoops, Zenon
  <1>3. r[1 .. 0] = base /\ \A k \in 1 .. N : r[1 .. k] = readStep(r[1 .. (k - 1)], str[k], str, 0)
    <2>1. ReadLoop!Inductive
      BY NumbersInduct, Zenon DEF ReadLoop!Inductive
    <2>2. Len(str) \in Nat
      BY <1>1
    <2> QED  BY <2>1, <2>2, ReadLoop!FoldChain
  <1>4. \A k \in 1 .. N : r[1 .. k] = ReadRange(str, r[1 .. (k - 1)])
    BY <1>3, Zenon DEF readStep
  <1> HIDE DEF r, N
  <1>5. 0 \in T
    <2>1. 0 \in 0 .. N /\ 0 <= n - 1 /\ 0 + 1 = 1
      BY <1>1
    <2>2. G(0) = base
      BY <2>1, Zenon
    <2> HIDE DEF G, base
    <2> QED  BY <1>3, <2>1, <2>2
  <1>6. ReadRange(str, ReadTo(s, W, n)) = ReadTo(s, W, n)
    <2> DEFINE st == ReadTo(s, W, n)
    <2>1. st.i = N + 2
      BY DEF ReadTo, At, N, str
    <2> HIDE DEF st
    <2>2. st.i > N
      BY <1>1, <2>1
    <2>3. ReadRange(str, st) = st
      BY <2>2, Zenon DEF ReadRange, N
    <2> QED  BY <2>3 DEF st
  <1>7. ASSUME NEW k \in 1 .. N PROVE ReadRange(str, G(k - 1)) = G(k)
    <2>1. k - 1 + 1 = k
      BY <1>1
    <2>2. CASE k <= n - 1
      <3>1. k \in 1 .. (n - 1) /\ k - 1 <= n - 1
        BY <1>1, <2>2
      <3>2. G(k - 1) = ReadTo(s, W, k) /\ G(k) = ReadTo(s, W, k + 1)
        BY <2>1, <2>2, <3>1, Zenon
      <3>3. ReadRange(W[n], ReadTo(s, W, k)) = ReadTo(s, W, k + 1)
        BY <3>1, TurnReads
      <3> HIDE DEF G
      <3> QED  BY <3>2, <3>3, Zenon DEF str
    <2>3. CASE ~(k <= n - 1)
      <3>1. G(k) = ReadTo(s, W, n)
        BY <2>3, Zenon
      <3>2. k - 1 <= n - 1 => k = n
        BY <1>1, <2>3
      <3>3. G(k - 1) = ReadTo(s, W, n)
        BY <2>1, <3>2, Zenon
      <3> HIDE DEF G
      <3> QED  BY <1>6, <3>1, <3>3, Zenon
    <2> QED  BY <2>2, <2>3
  <1>8. ASSUME NEW k \in 1 .. N, k - 1 \in T PROVE k \in T
    <2> HIDE DEF G
    <2>1. r[1 .. (k - 1)] = G(k - 1)
      BY <1>8
    <2>2. r[1 .. k] = ReadRange(str, r[1 .. (k - 1)]) /\ ReadRange(str, G(k - 1)) = G(k)
      BY <1>4, <1>7
    <2>3. r[1 .. k] = G(k)
      BY <2>1, <2>2, Zenon
    <2>4. k \in 0 .. N
      OBVIOUS
    <2> QED  BY <2>3, <2>4
  <1> HIDE DEF T
  <1>9. \A k \in 0 .. N : k \in T
    BY <1>1, <1>5, <1>8, UpTo
  <1>10. r[1 .. N] = G(N)
    <2>1. N \in T
      BY <1>1, <1>9
    <2> HIDE DEF G
    <2> QED  BY <2>1 DEF T
  <1>11. G(N) = ReadTo(s, W, n)
    <2>1. N <= n - 1 => N + 1 = n
      BY <1>1
    <2> QED  BY <2>1, Zenon
  <1> QED  BY <1>2, <1>10, <1>11, Zenon DEF str

\* fromCompactStringFM makes the set of which toCompactStringFM wrote the
\* string, given its first monad.
LEMMA StringFMDecodes ==
    ASSUME NEW s, Used(s)
    PROVE  fromCompactStringFM(toCompactStringFM(s), s.first) = s
  <1> DEFINE n == Len(s.mses)
             str == toCompactStringFM(s)
             F == fromCompactStringFM(str, s.first)
  <1>1. s \in Rep /\ Good(s.mses) /\ Exact(s) /\ n \in Nat /\ DOMAIN s.mses = 1 .. n
        /\ s.mses \in Seq(Stretch)
    BY RepParts, ListEnds DEF Used
  <1>2. CASE n = 0
    <2>1. s = EmptySOM
      BY <1>1, <1>2, AllRanges DEF FirstRanges
    <2>2. isEmpty(s)
      BY <1>1, <1>2 DEF isEmpty
    <2>3. str = <<Z, Z>>
      BY <2>2, Zenon DEF toCompactStringFM
    <2>4. F = EmptySOM
      <3> HIDE DEF str
      <3> QED  BY <2>3, Zenon DEF fromCompactStringFM
    <2> QED  BY <2>1, <2>4, Zenon
  <1>3. CASE n # 0
    <2>1. n \in Nat \ {0} /\ n \in 1 .. n /\ 1 \in 1 .. n
      BY <1>1, <1>3
    <2>2. ~isEmpty(s) /\ s.mses # << >>
      BY <1>3 DEF isEmpty
    <2>3. s.first = s.mses[1].first
      BY <1>1, <2>2 DEF Exact
    <2>4. str = WithSeparators(StringsFM(s))
      BY <1>1, <2>2, Zenon DEF toCompactStringFM, StringsFM
    <2>5. StringsFM(s) \in [1 .. n -> Seq(Nat)]
      BY StringsFMParts
    <2>6. PICK W : Written(W, StringsFM(s), n) /\ WithSeparators(StringsFM(s)) = W[n]
      <3> HIDE DEF n
      <3> QED  BY <2>1, <2>5, Writes
    <2> DEFINE f == s.mses[1].first
               l == s.mses[1].last
    <2>7. /\ EndOfNumber(W[n], 1) = Len(W[1]) + 1
          /\ Number(W[n], 1) = l - f
          /\ W[n] # <<Z, Z>>
          /\ W[n] = << >> => n = 1 /\ l = f
          /\ W[n] \in Seq(Nat) /\ n - 1 <= Len(W[n])
      <3> DEFINE v == n
      <3> HIDE DEF v
      <3>1. v = Len(s.mses) /\ v \in Nat \ {0} /\ Written(W, StringsFM(s), v)
        BY <2>1, <2>6 DEF v
      <3>2. FirstRead(s, W[v], W[1], v)
        BY <3>1, FirstNumber
      <3> QED  BY <3>2, Zenon DEF v, FirstRead
    <2>8. f \in Nat /\ l \in Nat /\ addRange(FirstRanges(s, 0), f, l) = FirstRanges(s, 1)
          /\ f <= l
      <3>1. f \in Nat /\ l \in Nat /\ addRange(FirstRanges(s, 1 - 1), f, l) = FirstRanges(s, 1)
            /\ f <= l
        BY <2>1, RangesRead
      <3>2. 1 - 1 = 0
        OBVIOUS
      <3> QED  BY <3>1, <3>2
    <2>9. FirstRanges(s, 0) = EmptySOM /\ FirstRanges(s, n) = s
      BY <1>1, AllRanges DEF FirstRanges
    <2>10. str = W[n]
      BY <2>4, <2>6
    <2>11. CASE str = << >>
      <3>1. n = 1 /\ l = f
        BY <2>7, <2>10, <2>11
      <3>2. << >> # <<Z, Z>>
        OBVIOUS
      <3>3. F = addRange(EmptySOM, s.first, s.first)
        BY <2>11, <3>2, Zenon DEF fromCompactStringFM
      <3>4. F = addRange(EmptySOM, f, l)
        BY <2>3, <3>1, <3>3, Zenon
      <3>5. FirstRanges(s, 1) = s
        BY <2>9, <3>1, Zenon
      <3> QED  BY <2>8, <2>9, <3>4, <3>5, Zenon
    <2>12. CASE str # << >>
      <3> DEFINE base == At(EndOfNumber(str, 1) + 1, s.first + Number(str, 1),
                            addRange(EmptySOM, s.first, s.first + Number(str, 1)))
      <3>1. F = ReadAll(base, str, str).som
        <4>1. str # <<Z, Z>> /\ str # << >>
          BY <2>7, <2>10, <2>12
        <4> HIDE DEF str
        <4> QED  BY <4>1, Zenon DEF fromCompactStringFM, ReadAll, At
      <3>2. base = ReadTo(s, W, 1)
        <4>1. s.first + Number(str, 1) = l
          <5>1. Number(str, 1) = l - f
            BY <2>7, <2>10, Zenon
          <5> HIDE DEF f, l, str
          <5>2. f + (l - f) = l
            BY <2>8
          <5> QED  BY <2>3, <5>1, <5>2, Zenon DEF f
        <4>2. EndOfNumber(str, 1) + 1 = Len(W[1]) + 2
          <5>1. EndOfNumber(str, 1) = Len(W[1]) + 1
            BY <2>7, <2>10, Zenon
          <5>2. Len(W[1]) \in Nat
            <6>1. W \in [1 .. n -> Seq(Nat)]
              BY <2>6, Zenon DEF Written
            <6>2. W[1] \in Seq(Nat)
              BY <2>1, <6>1
            <6> QED  BY <6>2
          <5> DEFINE u == Len(W[1])
          <5> HIDE DEF u
          <5>3. (u + 1) + 1 = u + 2
            BY <5>2 DEF u
          <5> QED  BY <5>1, <5>3, Zenon DEF u
        <4>3. addRange(EmptySOM, s.first, l) = FirstRanges(s, 1)
          BY <2>3, <2>8, <2>9, Zenon
        <4> HIDE DEF str
        <4> QED  BY <4>1, <4>2, <4>3, Zenon DEF ReadTo
      <3>3. ReadAll(ReadTo(s, W, 1), W[n], W[n]) = ReadTo(s, W, n)
        <4> DEFINE v == n
        <4> HIDE DEF v
        <4>1. v = Len(s.mses) /\ v \in Nat \ {0} /\ Written(W, StringsFM(s), v)
              /\ W[v] \in Seq(Nat) /\ v - 1 <= Len(W[v])
          BY <2>1, <2>6, <2>7 DEF v
        <4>2. ReadAll(ReadTo(s, W, 1), W[v], W[v]) = ReadTo(s, W, v)
          BY <4>1, TurnsRead
        <4> QED  BY <4>2, Zenon DEF v
      <3>4. ReadTo(s, W, n).som = FirstRanges(s, n)
        BY DEF ReadTo, At
      <3> HIDE DEF base, str
      <3> QED  BY <2>9, <2>10, <3>1, <3>2, <3>3, <3>4, Zenon DEF str
    <2> QED  BY <2>11, <2>12
  <1> QED  BY <1>2, <1>3

\* Every set that the methods make is what its compact string, of either form,
\* is read back as, in the same representation.
THEOREM CompactStringsAlwaysDecode == ~OffsetsEmptySets => (Spec => []CompactStringsDecode)
  <1> SUFFICES ASSUME ~OffsetsEmptySets PROVE Spec => []CompactStringsDecode
    OBVIOUS
  <1>1. ObjectsInv => CompactStringsDecode
    <2> SUFFICES ASSUME ObjectsInv PROVE CompactStringsDecode
      OBVIOUS
    <2>1. Used(a)
      BY InUseUsed DEF ObjectsInv
    <2>2. fromCompactString(toCompactString(a)) = a
      BY <2>1, StringDecodes
    <2>3. fromCompactStringFM(toCompactStringFM(a), a.first) = a
      BY <2>1, StringFMDecodes
    <2> QED  BY <2>2, <2>3 DEF CompactStringsDecode
  <1>2. Spec => []ObjectsInv
    BY ObjectsInvariant
  <1> QED  BY <1>1, <1>2, PTL

-----------------------------------------------------------------------------
\* Maps from the first monad of a range to the range

\* The map ms holds ranges under their first monads, below End, that ascend
\* and never touch.
FGood(ms) ==
    /\ ms = [k \in DOMAIN ms |-> ms[k]]
    /\ DOMAIN ms \in SUBSET Nat
    /\ \A k \in DOMAIN ms : ms[k] \in Stretch /\ ms[k].first = k /\ k < End
    /\ \A j, k \in DOMAIN ms : j < k => ms[j].last + 1 < k

FCovers(ms, x) == \E k \in DOMAIN ms : In(ms[k], x)

\* The members of such a map.
LEMMA MapParts ==
    ASSUME NEW ms, FGood(ms)
    PROVE  /\ \A k \in DOMAIN ms : /\ k \in Nat /\ 1 <= k /\ k < End
                                   /\ ms[k].first = k /\ ms[k].last \in Nat /\ k <= ms[k].last
           /\ \A j, k \in DOMAIN ms : j < k => ms[j].last + 1 < k
           /\ End \in Nat
  <1>1. End \in Nat
    BY MaxMonadAssumption DEF End
  <1>2. ASSUME NEW k \in DOMAIN ms
        PROVE  /\ k \in Nat /\ 1 <= k /\ k < End
               /\ ms[k].first = k /\ ms[k].last \in Nat /\ k <= ms[k].last
    <2>1. ms[k] \in Stretch /\ ms[k].first = k /\ k < End /\ k \in Nat
      BY DEF FGood
    <2>2. ms[k].first \in Nat /\ ms[k].last \in Nat /\ 1 <= ms[k].first /\ ms[k].first <= ms[k].last
      BY <2>1, StretchTypes
    <2> QED  BY <2>1, <2>2
  <1> QED  BY <1>1, <1>2 DEF FGood

\* The keys of a map that searches are made in.
Keyed(ms) == DOMAIN ms \in SUBSET {k \in Nat : k < End}

\* Ranges under their first monads are finitely many entries below End.
LEMMA GoodIsKeyed ==
    ASSUME NEW ms, FGood(ms)
    PROVE  Keyed(ms)
  BY MapParts DEF Keyed

\* What upper_bound finds.
Above(ms, k, u) ==
    /\ u \in Nat /\ k < u /\ u <= End
    /\ u # End => u \in DOMAIN ms
    /\ \A j \in DOMAIN ms : j > k => u <= j

\* upper_bound finds the first key above k, or End.
LEMMA UpperBound ==
    ASSUME NEW ms, Keyed(ms), NEW k \in Nat, k < End
    PROVE  Above(ms, k, upper_bound(ms, k))
  <1> DEFINE S == {x \in DOMAIN ms : x > k} \cup {End}
  <1>1. S \in SUBSET Nat /\ S # {} /\ \A x \in S : x = End \/ (x \in DOMAIN ms /\ x > k)
    BY MaxMonadAssumption DEF Keyed, End
  <1>2. \A j \in DOMAIN ms : j > k => j \in S
    OBVIOUS
  <1>3. \A x \in S : x <= End
    BY <1>1, MaxMonadAssumption DEF Keyed, End
  <1>4. upper_bound(ms, k) = Min(S)
    BY DEF upper_bound
  <1> HIDE DEF S
  <1>5. Min(S) \in S /\ \A y \in S : Min(S) <= y
    BY <1>1, LeastPosition
  <1> QED  BY <1>1, <1>2, <1>3, <1>4, <1>5 DEF Above

\* What begin finds.
LEMMA Beginning ==
    ASSUME NEW ms, Keyed(ms)
    PROVE  /\ begin(ms) \in Nat /\ begin(ms) <= End
           /\ DOMAIN ms # {} => begin(ms) \in DOMAIN ms
           /\ DOMAIN ms = {} => begin(ms) = End
           /\ \A j \in DOMAIN ms : begin(ms) <= j
  <1> DEFINE S == DOMAIN ms \cup {End}
  <1>1. S \in SUBSET Nat /\ S # {} /\ End \in S /\ \A x \in S : x <= End
    BY MaxMonadAssumption DEF Keyed, End
  <1>2. begin(ms) = Min(S)
    BY DEF begin
  <1>3. \A j \in DOMAIN ms : j \in S /\ j < End /\ j \in Nat /\ End \in Nat
    BY MaxMonadAssumption DEF Keyed, End
  <1>4. \A x \in S : x = End \/ x \in DOMAIN ms
    OBVIOUS
  <1> HIDE DEF S
  <1>5. Min(S) \in S /\ \A y \in S : Min(S) <= y
    BY <1>1, LeastPosition
  <1>6. Min(S) \in Nat /\ Min(S) <= End
    BY <1>1, <1>5
  <1>7. DOMAIN ms # {} => Min(S) # End
    <2> SUFFICES ASSUME NEW j \in DOMAIN ms PROVE Min(S) # End
      OBVIOUS
    <2>1. Min(S) <= j /\ j < End /\ j \in Nat /\ End \in Nat
      BY <1>3, <1>5
    <2> QED  BY <2>1, <1>6
  <1> QED  BY <1>2, <1>3, <1>4, <1>5, <1>6, <1>7

\* The greatest of some keys.
LEMMA GreatestKey ==
    ASSUME NEW ms, Keyed(ms), NEW S \in SUBSET (DOMAIN ms), S # {}, \A k \in S : 1 <= k
    PROVE  Max(S) \in S /\ \A j \in S : j <= Max(S)
  <1>1. S \in SUBSET (1 .. End) /\ End \in Nat
    BY MaxMonadAssumption DEF Keyed, End
  <1>2. \E y \in S : \A z \in S : z <= y
    BY <1>1, GreatestUpTo
  <1>3. \E y \in S : \A z \in S : y >= z
    BY <1>1, <1>2
  <1>4. Max(S) \in S /\ \A z \in S : Max(S) >= z
    BY <1>3, Zenon DEF Max
  <1> QED  BY <1>1, <1>4

\* What rbegin and predecessor find.
LEMMA Preceding ==
    ASSUME NEW ms, Keyed(ms), \A k \in DOMAIN ms : 1 <= k
    PROVE  /\ DOMAIN ms # {} => /\ rbegin(ms) \in DOMAIN ms
                                /\ \A j \in DOMAIN ms : j <= rbegin(ms)
           /\ \A it : (\E k \in DOMAIN ms : k < it) =>
                 /\ predecessor(ms, it) \in DOMAIN ms /\ predecessor(ms, it) < it
                 /\ \A j \in DOMAIN ms : j < it => j <= predecessor(ms, it)
  <1>1. DOMAIN ms # {} => /\ rbegin(ms) \in DOMAIN ms
                          /\ \A j \in DOMAIN ms : j <= rbegin(ms)
    BY GreatestKey DEF rbegin
  <1>2. ASSUME NEW it, \E k \in DOMAIN ms : k < it
        PROVE  /\ predecessor(ms, it) \in DOMAIN ms /\ predecessor(ms, it) < it
               /\ \A j \in DOMAIN ms : j < it => j <= predecessor(ms, it)
    <2> DEFINE S == {x \in DOMAIN ms : x < it}
    <2>1. S \in SUBSET (DOMAIN ms) /\ S # {} /\ \A k \in S : 1 <= k
      BY <1>2
    <2>2. Max(S) \in S /\ \A j \in S : j <= Max(S)
      <3> HIDE DEF S
      <3> QED  BY <2>1, GreatestKey
    <2>3. predecessor(ms, it) = Max(S)
      BY DEF predecessor
    <2> QED  BY <2>2, <2>3
  <1> QED  BY <1>1, <1>2

\* Where the ranges of a map begin and end, in terms of the monads it covers.
LEMMA KeyStarts ==
    ASSUME NEW ms, FGood(ms), NEW k \in Nat, 1 <= k
    PROVE  /\ k \in DOMAIN ms <=> FCovers(ms, k) /\ ~FCovers(ms, k - 1)
           /\ k \in DOMAIN ms => /\ \A x \in k .. ms[k].last : FCovers(ms, x)
                                 /\ ~FCovers(ms, ms[k].last + 1)
  <1>1. /\ \A j \in DOMAIN ms : /\ j \in Nat /\ ms[j].first = j /\ ms[j].last \in Nat
                                /\ j <= ms[j].last
        /\ \A i, j \in DOMAIN ms : i < j => ms[i].last + 1 < j
    BY MapParts
  <1>2. \A x : FCovers(ms, x) <=> \E j \in DOMAIN ms : j <= x /\ x <= ms[j].last
    BY <1>1 DEF FCovers, In
  <1>3. ASSUME k \in DOMAIN ms PROVE FCovers(ms, k) /\ ~FCovers(ms, k - 1)
    <2>1. FCovers(ms, k)
      BY <1>1, <1>2, <1>3
    <2>2. ASSUME NEW j \in DOMAIN ms, j <= k - 1, k - 1 <= ms[j].last PROVE FALSE
      <3>1. j \in Nat /\ ms[j].last \in Nat /\ j < k
        BY <1>1, <2>2
      <3>2. ms[j].last + 1 < k
        BY <1>1, <1>3, <3>1
      <3> QED  BY <2>2, <3>1, <3>2
    <2> QED  BY <1>2, <2>1, <2>2
  <1>4. ASSUME FCovers(ms, k), ~FCovers(ms, k - 1) PROVE k \in DOMAIN ms
    <2>1. PICK j \in DOMAIN ms : j <= k /\ k <= ms[j].last
      BY <1>2, <1>4
    <2>2. j \in Nat /\ ms[j].last \in Nat
      BY <1>1
    <2>3. j = k \/ (j <= k - 1 /\ k - 1 <= ms[j].last)
      BY <2>1, <2>2
    <2> QED  BY <1>2, <1>4, <2>3
  <1>5. ASSUME k \in DOMAIN ms
        PROVE  (\A x \in k .. ms[k].last : FCovers(ms, x)) /\ ~FCovers(ms, ms[k].last + 1)
    <2> DEFINE l == ms[k].last
    <2>1. \A x \in k .. l : FCovers(ms, x)
      <3> SUFFICES ASSUME NEW x \in k .. l PROVE FCovers(ms, x)
        OBVIOUS
      <3>1. l \in Nat
        BY <1>1, <1>5
      <3>2. k <= x /\ x <= l
        BY <3>1
      <3> QED  BY <1>2, <1>5, <3>2
    <2>2. ASSUME NEW j \in DOMAIN ms, j <= l + 1, l + 1 <= ms[j].last PROVE FALSE
      <3>1. j \in Nat /\ ms[j].last \in Nat /\ l \in Nat /\ k <= l
        BY <1>1, <1>5
      <3>2. (j < k => ms[j].last + 1 < k) /\ (k < j => l + 1 < j)
        BY <1>1, <1>5
      <3>3. j = k => ms[j].last = l
        OBVIOUS
      <3> HIDE DEF l
      <3> QED  BY <2>2, <3>1, <3>2, <3>3
    <2> QED  BY <1>2, <2>1, <2>2
  <1> QED  BY <1>3, <1>4, <1>5

\* Two maps that cover the same monads are one.
LEMMA SameMap ==
    ASSUME NEW m, FGood(m), NEW n, FGood(n), \A x \in Nat : FCovers(m, x) <=> FCovers(n, x)
    PROVE  m = n
  <1>1. \A k \in Nat : 1 <= k => (k \in DOMAIN m <=> k \in DOMAIN n)
    BY KeyStarts
  <1>2. DOMAIN m = DOMAIN n
    BY <1>1, MapParts
  <1>3. ASSUME NEW k \in DOMAIN m PROVE m[k] = n[k]
    <2>1. k \in Nat /\ 1 <= k /\ k \in DOMAIN n
      BY <1>2, MapParts
    <2>2. /\ m[k] \in Stretch /\ n[k] \in Stretch /\ m[k].first = k /\ n[k].first = k
          /\ m[k].last \in Nat /\ n[k].last \in Nat /\ k <= m[k].last /\ k <= n[k].last
      BY <2>1, MapParts DEF FGood
    <2> DEFINE c == m[k].last
               d == n[k].last
    <2>3. /\ \A x \in k .. c : FCovers(m, x)
          /\ ~FCovers(m, c + 1)
          /\ \A x \in k .. d : FCovers(n, x)
          /\ ~FCovers(n, d + 1)
      BY <2>1, KeyStarts
    <2>4. c \in Nat /\ d \in Nat /\ k <= c /\ k <= d
      BY <2>2
    <2> HIDE DEF c, d
    <2>5. c = d
      <3>1. c < d => c + 1 \in k .. d /\ c + 1 \in Nat
        BY <2>1, <2>4
      <3>2. d < c => d + 1 \in k .. c /\ d + 1 \in Nat
        BY <2>1, <2>4
      <3>3. ~(c < d)
        BY <2>3, <3>1
      <3>4. ~(d < c)
        BY <2>3, <3>2
      <3> QED  BY <2>4, <3>3, <3>4
    <2> QED  BY <2>2, <2>5, StretchTypes DEF c, d
  <1>4. m = [k \in DOMAIN m |-> m[k]] /\ n = [k \in DOMAIN n |-> n[k]]
    BY DEF FGood
  <1> QED  BY <1>2, <1>3, <1>4, Zenon

\* insert and erase on such a map.
LEMMA InsertedMap ==
    ASSUME NEW ms, FGood(ms), NEW e \in Stretch, e.first < End,
           \A k \in DOMAIN ms : ms[k].last + 1 < e.first \/ e.last + 1 < k
    PROVE  /\ FGood(insert(ms, e))
           /\ DOMAIN insert(ms, e) = DOMAIN ms \cup {e.first}
           /\ insert(ms, e)[e.first] = e
           /\ \A k \in DOMAIN ms : insert(ms, e)[k] = ms[k]
           /\ \A x : FCovers(insert(ms, e), x) <=> FCovers(ms, x) \/ In(e, x)
  <1> DEFINE f == e.first
             D == DOMAIN ms \cup {f}
             r == [k \in D |-> IF k = f THEN e ELSE ms[k]]
  <1>1. /\ \A k \in DOMAIN ms : /\ k \in Nat /\ k < End /\ ms[k].first = k /\ ms[k].last \in Nat
                                /\ k <= ms[k].last
        /\ \A j, k \in DOMAIN ms : j < k => ms[j].last + 1 < k
    BY MapParts
  <1>2. f \in Nat /\ e.last \in Nat /\ f <= e.last /\ 1 <= f
    BY StretchTypes
  <1>3. f \notin DOMAIN ms
    BY <1>1, <1>2
  <1>4. insert(ms, e) = r
    BY <1>3, Zenon DEF insert
  <1>5. DOMAIN r = D /\ r[f] = e /\ \A k \in DOMAIN ms : r[k] = ms[k]
    BY <1>3
  <1> HIDE DEF r
  <1>6. r = [k \in DOMAIN r |-> r[k]]
    BY DEF r
  <1>7. ASSUME NEW k \in D PROVE r[k] \in Stretch /\ r[k].first = k /\ k < End /\ k \in Nat
    <2>1. CASE k \in DOMAIN ms
      BY <1>1, <1>5, <2>1 DEF FGood
    <2>2. CASE k = f
      BY <1>2, <1>5, <2>2
    <2> QED  BY <2>1, <2>2
  <1>8. ASSUME NEW j \in D, NEW k \in D, j < k PROVE r[j].last + 1 < k
    <2>1. CASE j \in DOMAIN ms /\ k \in DOMAIN ms
      BY <1>1, <1>5, <1>8, <2>1
    <2>2. CASE j \in DOMAIN ms /\ k = f
      BY <1>1, <1>2, <1>5, <1>8, <2>2
    <2>3. CASE j = f /\ k \in DOMAIN ms
      BY <1>1, <1>2, <1>5, <1>8, <2>3
    <2>4. CASE j = f /\ k = f
      BY <1>2, <1>8, <2>4
    <2> QED  BY <2>1, <2>2, <2>3, <2>4
  <1>9. FGood(r)
    BY <1>5, <1>6, <1>7, <1>8 DEF FGood
  <1>10. \A x : FCovers(r, x) <=> FCovers(ms, x) \/ In(e, x)
    BY <1>5 DEF FCovers
  <1> QED  BY <1>4, <1>5, <1>9, <1>10

\* erase takes one range away, and the monads of that range.
LEMMA ErasedMap ==
    ASSUME NEW ms, FGood(ms), NEW it \in DOMAIN ms
    PROVE  /\ FGood(erase(ms, it))
           /\ DOMAIN erase(ms, it) = DOMAIN ms \ {it}
           /\ \A k \in DOMAIN ms : k # it => erase(ms, it)[k] = ms[k]
           /\ \A x \in Nat : FCovers(erase(ms, it), x) <=> FCovers(ms, x) /\ ~In(ms[it], x)
  <1> DEFINE D == DOMAIN ms \ {it}
             r == [k \in D |-> ms[k]]
  <1>1. erase(ms, it) = r
    BY Zenon DEF erase, Restrict
  <1>2. DOMAIN r = D /\ (\A k \in D : r[k] = ms[k]) /\ r = [k \in DOMAIN r |-> r[k]]
    OBVIOUS
  <1> HIDE DEF r
  <1>3. FGood(r)
    BY <1>2 DEF FGood
  <1>4. ASSUME NEW x \in Nat PROVE FCovers(r, x) <=> FCovers(ms, x) /\ ~In(ms[it], x)
    <2>1. ASSUME NEW k \in D, In(ms[k], x) PROVE ~In(ms[it], x)
      <3>1. /\ k \in Nat /\ it \in Nat /\ ms[k].first = k /\ ms[it].first = it /\ k # it
            /\ ms[k].last \in Nat /\ ms[it].last \in Nat
            /\ k < it => ms[k].last + 1 < it
            /\ it < k => ms[it].last + 1 < k
        BY MapParts
      <3> QED  BY <2>1, <3>1 DEF In
    <2> QED  BY <1>2, <2>1 DEF FCovers
  <1> QED  BY <1>1, <1>2, <1>3, <1>4

-----------------------------------------------------------------------------
\* Iterators

\* The keys of a map are finitely many.
LEMMA FiniteKeys ==
    ASSUME NEW ms, Keyed(ms)
    PROVE  /\ IsFiniteSet(DOMAIN ms) /\ Cardinality(DOMAIN ms) \in Nat
           /\ \A S \in SUBSET (DOMAIN ms) : IsFiniteSet(S) /\ Cardinality(S) \in Nat
  <1>1. DOMAIN ms \in SUBSET Nat /\ End \in Nat /\ \A k \in DOMAIN ms : k <= End
    BY MaxMonadAssumption DEF Keyed, End
  <1>2. IsFiniteSet(DOMAIN ms)
    BY <1>1, FS_BoundedSetOfNaturals
  <1>3. \A S \in SUBSET (DOMAIN ms) : IsFiniteSet(S)
    BY <1>2, FS_Subset
  <1> QED  BY <1>2, <1>3, FS_CardinalityType

\* keys are the keys of ms from it on, in ascending order.
Iterates(keys, ms, it) ==
    /\ keys \in Seq(DOMAIN ms) /\ Len(keys) \in Nat /\ DOMAIN keys = 1 .. Len(keys)
    /\ \A i \in 1 .. Len(keys) : keys[i] \in DOMAIN ms /\ it <= keys[i]
    /\ \A i, j \in 1 .. Len(keys) : i < j => keys[i] < keys[j]
    /\ \A k \in DOMAIN ms : it <= k => \E i \in 1 .. Len(keys) : keys[i] = k

\* The function by which keysFrom is defined.
KeyFunction(key, ms, K) ==
    key = [i \in 1 .. Cardinality(K) |-> IF i = 1 THEN Min(K) ELSE successor(ms, key[i - 1])]

\* The keys from an iterator on are chosen by the equation of the recursion.
LEMMA KeysAre ==
    ASSUME NEW ms, NEW it
    PROVE  keysFrom(ms, it) = CHOOSE key : KeyFunction(key, ms, {k \in DOMAIN ms : k >= it})
  BY Zenon DEF keysFrom, KeyFunction

\* There is a function with that equation: the iterator is incremented m
\* times.
LEMMA KeyFunctionExists ==
    ASSUME NEW ms, Keyed(ms), NEW K \in SUBSET Nat, K # {}, NEW m \in Nat, Cardinality(K) = m + 1
    PROVE  \E key : KeyFunction(key, ms, K)
  <1> DEFINE step == [i \in 1 .. m |-> [x \in Nat |-> successor(ms, x)]]
             s0 == Min(K)
  <1>1. s0 \in Nat
    BY LeastPosition
  <1>2. ASSUME NEW x \in Nat PROVE successor(ms, x) \in Nat
    <2> DEFINE S == {k \in DOMAIN ms : k > x} \cup {End}
    <2>1. S \in SUBSET Nat /\ S # {}
      BY MaxMonadAssumption DEF Keyed, End
    <2>2. successor(ms, x) = Min(S)
      BY DEF successor, upper_bound
    <2> HIDE DEF S
    <2> QED  BY <2>1, <2>2, LeastPosition
  <1>3. step \in [1 .. m -> [Nat -> Nat]]
    BY <1>2
  <1>4. \A i \in 1 .. m, x \in Nat : step[i][x] = successor(ms, x)
    OBVIOUS
  <1> HIDE DEF step, s0
  <1>5. PICK f : Recurses(f, m, Nat, s0, step)
    BY <1>1, <1>3, Recursion
  <1>6. /\ f \in [0 .. m -> Nat] /\ f[0] = s0
        /\ \A i \in 1 .. m : f[i] = successor(ms, f[i - 1])
    <2>1. /\ f \in [0 .. m -> Nat] /\ f[0] = s0
          /\ \A i \in 1 .. m : f[i] = step[i][f[i - 1]]
      BY <1>5, Zenon DEF Recurses
    <2>2. \A i \in 1 .. m : f[i - 1] \in Nat
      BY <2>1
    <2> QED  BY <1>4, <2>1, <2>2
  <1> DEFINE key == [i \in 1 .. (m + 1) |-> f[i - 1]]
  <1>7. \A i \in 1 .. (m + 1) : i # 1 => i - 1 \in 1 .. (m + 1) /\ i - 1 \in 1 .. m
    OBVIOUS
  <1>8. \A i \in 1 .. (m + 1) : key[i] = f[i - 1]
    OBVIOUS
  <1>9. \A i \in 1 .. (m + 1) : f[i - 1] = IF i = 1 THEN s0 ELSE successor(ms, key[i - 1])
    <2>1. ASSUME NEW i \in 1 .. (m + 1) PROVE f[i - 1] = IF i = 1 THEN s0 ELSE successor(ms, key[i - 1])
      <3>1. CASE i = 1
        <4>1. i - 1 = 0
          BY <3>1
        <4> QED  BY <1>6, <3>1, <4>1
      <3>2. CASE i # 1
        <4>1. key[i - 1] = f[(i - 1) - 1]
          BY <1>7, <1>8, <3>2
        <4>2. f[i - 1] = successor(ms, f[(i - 1) - 1])
          BY <1>6, <1>7, <3>2
        <4> QED  BY <3>2, <4>1, <4>2, Zenon
      <3> QED  BY <3>1, <3>2
    <2> QED  BY <2>1
  <1>10. key = [i \in 1 .. (m + 1) |-> IF i = 1 THEN s0 ELSE successor(ms, key[i - 1])]
    <2>1. [i \in 1 .. (m + 1) |-> f[i - 1]]
             = [i \in 1 .. (m + 1) |-> IF i = 1 THEN s0 ELSE successor(ms, key[i - 1])]
      <3> HIDE DEF key
      <3> QED  BY <1>9, Zenon
    <2> QED  BY <2>1, Zenon
  <1> HIDE DEF key
  <1>11. KeyFunction(key, ms, K)
    BY <1>10, Zenon DEF KeyFunction, s0
  <1> QED  BY <1>11, Zenon

\* keysFrom lists the keys from an iterator on, in order.
LEMMA KeysFrom ==
    ASSUME NEW ms, Keyed(ms), NEW it \in Nat
    PROVE  Iterates(keysFrom(ms, it), ms, it)
  <1> DEFINE K == {k \in DOMAIN ms : k >= it}
             n == Cardinality(K)
             key == keysFrom(ms, it)
  <1>1. K \in SUBSET (DOMAIN ms) /\ DOMAIN ms \in SUBSET Nat /\ End \in Nat /\ K \in SUBSET Nat
        /\ \A k \in DOMAIN ms : k < End
    BY MaxMonadAssumption DEF Keyed, End
  <1>2. IsFiniteSet(K) /\ n \in Nat
    BY <1>1, FiniteKeys
  <1>3. key = CHOOSE f : KeyFunction(f, ms, K)
    BY KeysAre
  <1>4. \A k : k \in K <=> k \in DOMAIN ms /\ it <= k
    BY <1>1
  <1> HIDE DEF K, key
  <1>5. CASE n = 0
    <2>1. K = {}
      BY <1>2, <1>5, FS_EmptySet
    <2>2. \E f : KeyFunction(f, ms, K)
      <3> DEFINE f == [i \in 1 .. 0 |-> 0]
      <3>1. f = [i \in 1 .. 0 |-> IF i = 1 THEN Min(K) ELSE successor(ms, f[i - 1])]
        OBVIOUS
      <3> HIDE DEF f
      <3>2. KeyFunction(f, ms, K)
        BY <1>5, <3>1, Zenon DEF KeyFunction, n
      <3> QED  BY <3>2, Zenon
    <2>3. KeyFunction(key, ms, K)
      BY <1>3, <2>2, Zenon
    <2>4. key = [i \in 1 .. 0 |-> IF i = 1 THEN Min(K) ELSE successor(ms, key[i - 1])]
      BY <1>5, <2>3, Zenon DEF KeyFunction, n
    <2>5. key = << >>
      <3>1. key = [i \in 1 .. 0 |-> key[i]]
        BY <2>4
      <3>2. [i \in 1 .. 0 |-> key[i]] = << >>
        OBVIOUS
      <3> QED  BY <3>1, <3>2, Zenon
    <2>6. \A k \in DOMAIN ms : ~(it <= k)
      BY <1>4, <2>1
    <2> QED  BY <2>5, <2>6 DEF Iterates, key
  <1>6. CASE n # 0
    <2>1. K # {} /\ n - 1 \in Nat /\ n = (n - 1) + 1
      BY <1>2, <1>6, FS_EmptySet
    <2>2. \E f : KeyFunction(f, ms, K)
      BY <1>1, <2>1, KeyFunctionExists
    <2>3. KeyFunction(key, ms, K)
      BY <1>3, <2>2, Zenon
    <2>4. key = [i \in 1 .. n |-> IF i = 1 THEN Min(K) ELSE successor(ms, key[i - 1])]
      BY <2>3, Zenon DEF KeyFunction
    <2> HIDE DEF n
    <2>5. DOMAIN key = 1 .. n /\ \A i \in 1 .. n : key[i] = IF i = 1 THEN Min(K) ELSE successor(ms, key[i - 1])
      <3>1. DOMAIN [i \in 1 .. n |-> IF i = 1 THEN Min(K) ELSE successor(ms, key[i - 1])] = 1 .. n
        BY Zenon
      <3>2. DOMAIN key = 1 .. n
        BY <2>4, <3>1, Zenon
      <3>3. ASSUME NEW i \in 1 .. n PROVE key[i] = IF i = 1 THEN Min(K) ELSE successor(ms, key[i - 1])
        BY <2>4, Zenon
      <3> QED  BY <3>2, <3>3
    <2> DEFINE T(i) == {k \in K : k <= key[i]}
               S == {i \in 0 .. n : i = 0 \/ (key[i] \in K /\ Cardinality(T(i)) = i)}
               up(i) == key[i] < key[i + 1] /\ \A k \in K : k > key[i] => key[i + 1] <= k
    <2>6. 0 \in S
      BY <1>2
    <2>7. ASSUME NEW i \in 1 .. n, i - 1 \in S
          PROVE  i \in S /\ (i # 1 => up(i - 1)) /\ (i = 1 => \A k \in K : key[1] <= k)
      <3>1. CASE i = 1
        <4>1. key[1] = Min(K) /\ Min(K) \in K /\ \A k \in K : Min(K) <= k
          BY <1>1, <2>1, <2>5, <3>1, LeastPosition
        <4>2. T(1) = {key[1]}
          BY <1>1, <4>1
        <4>3. Cardinality(T(1)) = 1
          BY <4>2, FS_Singleton
        <4> QED  BY <3>1, <4>1, <4>3
      <3>2. CASE i # 1
        <4> DEFINE c == key[i - 1]
                   d == key[i]
        <4>1. i - 1 \in Nat /\ i - 1 # 0 /\ i - 1 < n /\ (i - 1) + 1 = i
          BY <1>2, <3>2 DEF n
        <4>2. c \in K /\ Cardinality(T(i - 1)) = i - 1
          BY <2>7, <4>1
        <4>3. d = successor(ms, c)
          BY <2>5, <3>2
        <4>4. c \in Nat /\ c < End /\ c \in DOMAIN ms /\ it <= c
          BY <1>1, <1>4, <4>2
        <4> HIDE DEF c, d
        <4>5. Above(ms, c, d)
          BY <4>3, <4>4, UpperBound DEF successor
        <4>6. T(i - 1) \in SUBSET K /\ T(i - 1) # K
          <5>1. T(i - 1) # K
            <6>1. n = Cardinality(K)
              BY DEF n
            <6> QED  BY <4>1, <4>2, <6>1
          <5> QED  BY <5>1
        <4>7. PICK k \in K : ~(k <= c)
          BY <4>6 DEF c
        <4>8. d \in DOMAIN ms /\ d <= k /\ c < d /\ d \in Nat
          <5>1. k \in Nat /\ k < End /\ k \in DOMAIN ms /\ k > c
            BY <1>1, <1>4, <4>4, <4>7
          <5>2. d <= k /\ d \in Nat /\ c < d /\ (d # End => d \in DOMAIN ms)
            BY <4>5, <5>1 DEF Above
          <5> QED  BY <1>1, <5>1, <5>2
        <4>9. d \in K
          <5>1. it <= d
            BY <4>4, <4>8
          <5> QED  BY <1>4, <4>8, <5>1
        <4>10. \A j \in K : j > c => d <= j
          BY <1>4, <4>5 DEF Above
        <4>11. T(i) = T(i - 1) \cup {d} /\ d \notin T(i - 1)
          BY <1>1, <4>4, <4>8, <4>9, <4>10 DEF c, d
        <4>12. IsFiniteSet(T(i - 1))
          BY <1>2, FS_Subset
        <4>13. Cardinality(T(i)) = (i - 1) + 1
          BY <4>2, <4>11, <4>12, FS_AddElement
        <4>14. up(i - 1)
          BY <4>1, <4>8, <4>10 DEF c, d
        <4> QED  BY <3>2, <4>1, <4>9, <4>13, <4>14 DEF d
      <3> QED  BY <3>1, <3>2
    <2> HIDE DEF S
    <2>8. \A i \in 0 .. n : i \in S
      BY <1>2, <2>6, <2>7, UpTo DEF n
    <2>9. n \in Nat /\ n \in 1 .. n /\ 1 \in 1 .. n
      BY <1>2, <1>6 DEF n
    <2>10. \A i \in 1 .. n : key[i] \in K /\ key[i] \in Nat /\ key[i] \in DOMAIN ms /\ it <= key[i]
      <3> SUFFICES ASSUME NEW i \in 1 .. n
                   PROVE  key[i] \in K /\ key[i] \in Nat /\ key[i] \in DOMAIN ms /\ it <= key[i]
        OBVIOUS
      <3>1. i \in S /\ i # 0
        BY <2>8, <2>9
      <3> HIDE DEF T
      <3>2. key[i] \in K
        BY <3>1 DEF S
      <3> QED  BY <1>1, <1>4, <3>2
    <2>11. \A i \in 1 .. n : i # 1 => up(i - 1)
      <3> HIDE DEF up, T
      <3> SUFFICES ASSUME NEW i \in 1 .. n, i # 1 PROVE up(i - 1)
        OBVIOUS
      <3>1. i - 1 \in 0 .. n
        BY <2>9
      <3>2. i - 1 \in S
        BY <2>8, <3>1
      <3> QED  BY <2>7, <3>2, Zenon
    <2>12. \A k \in K : key[1] <= k
      BY <2>6, <2>7, <2>9
    <2>13. \A k \in K : k <= key[n]
      <3>1. n \in S /\ n # 0
        BY <1>6, <2>8, <2>9 DEF n
      <3>2. Cardinality(T(n)) = n /\ T(n) \in SUBSET K /\ n = Cardinality(K)
        BY <3>1 DEF S, n
      <3>3. T(n) = K
        BY <1>2, <3>2, FS_Subset
      <3> QED  BY <3>3
    <2>14. \A i, j \in 1 .. n : i < j => key[i] < key[j]
      <3> DEFINE R == {j \in 0 .. n : \A i \in 1 .. n : i < j => key[i] < key[j]}
      <3>1. 0 \in R
        BY <2>9
      <3>2. ASSUME NEW j \in 1 .. n, j - 1 \in R PROVE j \in R
        <4> SUFFICES ASSUME NEW i \in 1 .. n, i < j PROVE key[i] < key[j]
          BY <2>9
        <4>1. j # 1 /\ j - 1 \in 1 .. n /\ (j - 1) + 1 = j /\ i <= j - 1
          BY <2>9
        <4>2. key[j - 1] < key[j]
          BY <2>11, <4>1
        <4>3. i < j - 1 => key[i] < key[j - 1]
          BY <3>2
        <4>4. i = j - 1 \/ i < j - 1
          BY <4>1
        <4> QED  BY <2>10, <4>1, <4>2, <4>3, <4>4
      <3> HIDE DEF R
      <3>3. \A j \in 0 .. n : j \in R
        BY <2>9, <3>1, <3>2, UpTo
      <3>4. \A j \in 1 .. n : j \in R
        BY <2>9, <3>3
      <3> QED  BY <3>4 DEF R
    <2>15. ASSUME NEW k \in K PROVE \E i \in 1 .. n : key[i] = k
      <3> DEFINE I == {i \in 1 .. n : k <= key[i]}
      <3>1. I # {} /\ I \in SUBSET Nat
        BY <2>9, <2>13
      <3> HIDE DEF I
      <3>2. PICK i \in I : \A j \in I : i <= j
        BY <3>1, LeastNatural
      <3>3. i \in 1 .. n /\ k <= key[i] /\ \A j \in 1 .. n : j < i => ~(k <= key[j])
        <4>1. i \in 1 .. n /\ k <= key[i]
          BY <3>2 DEF I
        <4>2. ASSUME NEW j \in 1 .. n, j < i, k <= key[j] PROVE FALSE
          <5>1. i <= j
            BY <3>2, <4>2 DEF I
          <5> QED  BY <2>9, <4>1, <4>2, <5>1
        <4> QED  BY <4>1, <4>2
      <3>4. key[i] <= k
        <4>1. CASE i = 1
          BY <2>12, <4>1
        <4>2. CASE i # 1
          <5>1. i - 1 \in 1 .. n /\ i - 1 < i /\ (i - 1) + 1 = i
            BY <2>9, <3>3, <4>2
          <5>2. ~(k <= key[i - 1]) /\ key[i - 1] \in Nat /\ k \in Nat
            BY <1>1, <2>10, <3>3, <5>1
          <5>3. k > key[i - 1]
            BY <5>2
          <5> QED  BY <2>11, <3>3, <4>2, <5>1, <5>3
        <4> QED  BY <4>1, <4>2
      <3>5. key[i] \in Nat /\ k \in Nat
        BY <1>1, <2>10, <3>3
      <3>6. key[i] = k
        BY <3>3, <3>4, <3>5
      <3> QED  BY <3>3, <3>6
    <2>16. key \in [1 .. n -> DOMAIN ms]
      <3>1. key = [i \in 1 .. n |-> key[i]]
        BY <2>4, <2>5, Zenon
      <3> QED  BY <2>10, <3>1
    <2>17. key \in Seq(DOMAIN ms) /\ Len(key) = n
      BY <2>9, <2>16
    <2>18. \A k \in DOMAIN ms : it <= k => \E i \in 1 .. n : key[i] = k
      BY <1>4, <2>15
    <2> HIDE DEF up, T
    <2> QED  BY <2>5, <2>9, <2>10, <2>14, <2>17, <2>18 DEF Iterates, key
  <1> QED  BY <1>5, <1>6

-----------------------------------------------------------------------------
\* The loops over a map

\* addMSE: the "insert carefully" loop.
fastInsertStep(st, it, x, y) == fastInsertVisit(st, it)

FastInsertLoop == INSTANCE Loops WITH Step <- fastInsertStep, Border <- noBorder, Cross <- noCross

FastInsertRun(q, base) == FastInsertLoop!Run(q, base, 0, 0)

\* fromSetOfMonads: insert every range.
mapInsertStep(ms, e, x, y) == insert(ms, e)

MapInsertLoop == INSTANCE Loops WITH Step <- mapInsertStep, Border <- noBorder, Cross <- noCross

MapInsertRun(q, base) == MapInsertLoop!Run(q, base, 0, 0)

\* unionWith, intersect and offset: add every range.
fastAddStep(s, e, x, y) == fastAddMSE(s, e)

FastAddLoop == INSTANCE Loops WITH Step <- fastAddStep, Border <- noBorder, Cross <- noCross

FastAddRun(q, base) == FastAddLoop!Run(q, base, 0, 0)

\* difference: remove every range.
fastRemoveStep(s, e, x, y) == fastRemoveMSE(s, e)

FastRemoveLoop == INSTANCE Loops WITH Step <- fastRemoveStep, Border <- noBorder, Cross <- noCross

FastRemoveRun(q, base) == FastRemoveLoop!Run(q, base, 0, 0)

\* removeMSE: turn after turn.
fastTurnStep(st, turn, B, y) == fastRemoveVisit(st, B)

FastTurnLoop == INSTANCE Loops WITH Step <- fastTurnStep, Border <- noBorder, Cross <- noCross

FastTurnRun(q, base, B) == FastTurnLoop!Run(q, base, B, 0)

\* fillGaps.
fastFillStep(st, cur, min_gap, y) == fastFillVisit(st, cur, min_gap)

FastFillLoop == INSTANCE Loops WITH Step <- fastFillStep, Border <- noBorder, Cross <- noCross

FastFillRun(q, base, min_gap) == FastFillLoop!Run(q, base, min_gap, 0)

\* Their values, element by element.
LEMMA FastInsertChain ==
    ASSUME NEW q, Len(q) \in Nat, NEW base
    PROVE  /\ FastInsertRun(q, base)[1 .. 0] = base
           /\ \A k \in 1 .. Len(q) :
                 FastInsertRun(q, base)[1 .. k]
                    = fastInsertVisit(FastInsertRun(q, base)[1 .. (k - 1)], q[k])
  BY NumbersInduct, FastInsertLoop!FoldChain
     DEF FastInsertLoop!Inductive, FastInsertRun, fastInsertStep

\* The states between the turns of the loops, each the body applied to the
\* one before.
LEMMA MapInsertChain ==
    ASSUME NEW q, Len(q) \in Nat, NEW base
    PROVE  /\ MapInsertRun(q, base)[1 .. 0] = base
           /\ \A k \in 1 .. Len(q) :
                 MapInsertRun(q, base)[1 .. k] = insert(MapInsertRun(q, base)[1 .. (k - 1)], q[k])
  BY NumbersInduct, MapInsertLoop!FoldChain
     DEF MapInsertLoop!Inductive, MapInsertRun, mapInsertStep

LEMMA FastAddChain ==
    ASSUME NEW q, Len(q) \in Nat, NEW base
    PROVE  /\ FastAddRun(q, base)[1 .. 0] = base
           /\ \A k \in 1 .. Len(q) :
                 FastAddRun(q, base)[1 .. k] = fastAddMSE(FastAddRun(q, base)[1 .. (k - 1)], q[k])
  BY NumbersInduct, FastAddLoop!FoldChain
     DEF FastAddLoop!Inductive, FastAddRun, fastAddStep

LEMMA FastRemoveChain ==
    ASSUME NEW q, Len(q) \in Nat, NEW base
    PROVE  /\ FastRemoveRun(q, base)[1 .. 0] = base
           /\ \A k \in 1 .. Len(q) :
                 FastRemoveRun(q, base)[1 .. k]
                    = fastRemoveMSE(FastRemoveRun(q, base)[1 .. (k - 1)], q[k])
  BY NumbersInduct, FastRemoveLoop!FoldChain
     DEF FastRemoveLoop!Inductive, FastRemoveRun, fastRemoveStep

LEMMA FastTurnChain ==
    ASSUME NEW q, Len(q) \in Nat, NEW base, NEW B
    PROVE  /\ FastTurnRun(q, base, B)[1 .. 0] = base
           /\ \A k \in 1 .. Len(q) :
                 FastTurnRun(q, base, B)[1 .. k]
                    = fastRemoveVisit(FastTurnRun(q, base, B)[1 .. (k - 1)], B)
  BY NumbersInduct, FastTurnLoop!FoldChain
     DEF FastTurnLoop!Inductive, FastTurnRun, fastTurnStep

LEMMA FastFillChain ==
    ASSUME NEW q, Len(q) \in Nat, NEW base, NEW min_gap
    PROVE  /\ FastFillRun(q, base, min_gap)[1 .. 0] = base
           /\ \A k \in 1 .. Len(q) :
                 FastFillRun(q, base, min_gap)[1 .. k]
                    = fastFillVisit(FastFillRun(q, base, min_gap)[1 .. (k - 1)], q[k], min_gap)
  BY NumbersInduct, FastFillLoop!FoldChain
     DEF FastFillLoop!Inductive, FastFillRun, fastFillStep

\* The methods' folds are these.
LEMMA FastLoopsAreFolds ==
    ASSUME NEW q, DOMAIN q = 1 .. Len(q), NEW base, NEW B, NEW min_gap
    PROVE  /\ FoldLeft(fastInsertVisit, base, q) = FastInsertRun(q, base)[1 .. Len(q)]
           /\ FoldLeft(insert, base, q) = MapInsertRun(q, base)[1 .. Len(q)]
           /\ FoldLeft(fastAddMSE, base, q) = FastAddRun(q, base)[1 .. Len(q)]
           /\ FoldLeft(fastRemoveMSE, base, q) = FastRemoveRun(q, base)[1 .. Len(q)]
           /\ FoldLeft(LAMBDA st, turn : fastRemoveVisit(st, B), base, q)
                = FastTurnRun(q, base, B)[1 .. Len(q)]
           /\ FoldLeft(LAMBDA st, cur : fastFillVisit(st, cur, min_gap), base, q)
                = FastFillRun(q, base, min_gap)[1 .. Len(q)]
  <1>1. FoldLeft(fastInsertVisit, base, q) = FastInsertRun(q, base)[1 .. Len(q)]
    BY Zenon DEF FoldLeft, MapThenFoldSet, FastInsertRun, fastInsertStep,
         FastInsertLoop!Run, FastInsertLoop!Fold, FastInsertLoop!Greatest, Max
  <1>2. FoldLeft(insert, base, q) = MapInsertRun(q, base)[1 .. Len(q)]
    BY Zenon DEF FoldLeft, MapThenFoldSet, MapInsertRun, mapInsertStep,
         MapInsertLoop!Run, MapInsertLoop!Fold, MapInsertLoop!Greatest, Max
  <1>3. FoldLeft(fastAddMSE, base, q) = FastAddRun(q, base)[1 .. Len(q)]
    BY Zenon DEF FoldLeft, MapThenFoldSet, FastAddRun, fastAddStep,
         FastAddLoop!Run, FastAddLoop!Fold, FastAddLoop!Greatest, Max
  <1>4. FoldLeft(fastRemoveMSE, base, q) = FastRemoveRun(q, base)[1 .. Len(q)]
    BY Zenon DEF FoldLeft, MapThenFoldSet, FastRemoveRun, fastRemoveStep,
         FastRemoveLoop!Run, FastRemoveLoop!Fold, FastRemoveLoop!Greatest, Max
  <1>5. FoldLeft(LAMBDA st, turn : fastRemoveVisit(st, B), base, q)
           = FastTurnRun(q, base, B)[1 .. Len(q)]
    BY Zenon DEF FoldLeft, MapThenFoldSet, FastTurnRun, fastTurnStep,
         FastTurnLoop!Run, FastTurnLoop!Fold, FastTurnLoop!Greatest, Max
  <1>6. FoldLeft(LAMBDA st, cur : fastFillVisit(st, cur, min_gap), base, q)
           = FastFillRun(q, base, min_gap)[1 .. Len(q)]
    BY Zenon DEF FoldLeft, MapThenFoldSet, FastFillRun, fastFillStep,
         FastFillLoop!Run, FastFillLoop!Fold, FastFillLoop!Greatest, Max
  <1> QED  BY <1>1, <1>2, <1>3, <1>4, <1>5, <1>6, Zenon

-----------------------------------------------------------------------------
\* Objects of FastSetOfMonads

\* The first and the last monad that a map covers, or the bounds of the empty set.
FBounds(ms, first, last) ==
    IF DOMAIN ms = {} THEN first = MAX_MONAD /\ last = 0
    ELSE /\ first \in Nat /\ last \in Nat /\ FCovers(ms, first) /\ FCovers(ms, last)
         /\ \A x \in Nat : FCovers(ms, x) => first <= x /\ x <= last

\* The objects that satisfy the class invariant of FastSetOfMonads.
FRep(s) ==
    /\ s = Fast(s.ms, s.first, s.last)
    /\ FGood(s.ms) /\ FBounds(s.ms, s.first, s.last)

\* The fields of an object.
LEMMA FastFields ==
    ASSUME NEW ms, NEW f, NEW l
    PROVE  Fast(ms, f, l).ms = ms /\ Fast(ms, f, l).first = f /\ Fast(ms, f, l).last = l
  BY DEF Fast

\* A map without keys covers nothing, and only such a map.
LEMMA EmptyMap ==
    ASSUME NEW ms, FGood(ms)
    PROVE  DOMAIN ms = {} <=> \A x \in Nat : ~FCovers(ms, x)
  <1>1. ASSUME NEW k \in DOMAIN ms PROVE k \in Nat /\ FCovers(ms, k)
    <2>1. k \in Nat /\ ms[k].first = k /\ k <= ms[k].last
      BY MapParts
    <2> QED  BY <2>1 DEF FCovers, In
  <1> QED  BY <1>1 DEF FCovers

\* The new object is empty and satisfies the invariant.
LEMMA EmptyFastRep == FRep(EmptyFast) /\ DOMAIN EmptyFast.ms = {}
  <1>1. EmptyFast.ms = << >> /\ EmptyFast.first = MAX_MONAD /\ EmptyFast.last = 0
    BY FastFields DEF EmptyFast
  <1>2. DOMAIN << >> = {} /\ FGood(<< >>)
    BY DEF FGood
  <1>3. EmptyFast = Fast(EmptyFast.ms, EmptyFast.first, EmptyFast.last)
    BY <1>1 DEF EmptyFast
  <1> QED  BY <1>1, <1>2, <1>3 DEF FRep, FBounds

\* Bounds make an object.
LEMMA MakeFast ==
    ASSUME NEW ms, FGood(ms), NEW f \in Nat, NEW l \in Nat, FCovers(ms, f), FCovers(ms, l),
           \A x \in Nat : FCovers(ms, x) => f <= x /\ x <= l
    PROVE  FRep(Fast(ms, f, l)) /\ Fast(ms, f, l).ms = ms
  <1>1. DOMAIN ms # {}
    BY DEF FCovers
  <1>2. FBounds(ms, f, l)
    BY <1>1 DEF FBounds
  <1> DEFINE s == Fast(ms, f, l)
  <1>3. s.ms = ms /\ s.first = f /\ s.last = l
    BY FastFields
  <1>4. s = Fast(s.ms, s.first, s.last)
    BY <1>3
  <1> QED  BY <1>2, <1>3, <1>4 DEF FRep

\* Where the bounds of an object are in its map.
LEMMA FastEnds ==
    ASSUME NEW s, FRep(s), DOMAIN s.ms # {}
    PROVE  /\ s.first \in Nat /\ s.last \in Nat
           /\ FCovers(s.ms, s.first) /\ FCovers(s.ms, s.last)
           /\ \A x \in Nat : FCovers(s.ms, x) => s.first <= x /\ x <= s.last
           /\ begin(s.ms) = s.first /\ s.first \in DOMAIN s.ms
           /\ rbegin(s.ms) \in DOMAIN s.ms /\ s.ms[rbegin(s.ms)].last = s.last
           /\ \A k \in DOMAIN s.ms : s.first <= k /\ s.ms[k].last <= s.last /\ k <= rbegin(s.ms)
  <1> DEFINE m == s.ms
             r == rbegin(m)
             bg == begin(m)
  <1>1. FGood(m) /\ FBounds(m, s.first, s.last)
    BY DEF FRep
  <1>2. /\ s.first \in Nat /\ s.last \in Nat
        /\ FCovers(s.ms, s.first) /\ FCovers(s.ms, s.last)
        /\ \A x \in Nat : FCovers(s.ms, x) => s.first <= x /\ x <= s.last
    BY <1>1 DEF FBounds
  <1>3. Keyed(m) /\ \A k \in DOMAIN m : 1 <= k
    BY <1>1, GoodIsKeyed, MapParts
  <1>4. r \in DOMAIN m /\ \A j \in DOMAIN m : j <= r
    BY <1>3, Preceding
  <1>5. bg \in DOMAIN m /\ bg \in Nat /\ \A j \in DOMAIN m : bg <= j
    BY <1>3, Beginning
  <1>6. /\ \A k \in DOMAIN m : /\ k \in Nat /\ m[k].first = k /\ m[k].last \in Nat /\ k <= m[k].last
        /\ \A j, k \in DOMAIN m : j < k => m[j].last + 1 < k
    BY <1>1, MapParts
  <1> HIDE DEF r, bg, m
  <1>7. ASSUME NEW k \in DOMAIN m PROVE FCovers(m, k) /\ FCovers(m, m[k].last)
    BY <1>6 DEF FCovers, In
  <1>8. \A k \in DOMAIN m : s.first <= k /\ m[k].last <= s.last
    BY <1>2, <1>6, <1>7 DEF m
  <1>9. bg = s.first
    <2>1. PICK k \in DOMAIN m : In(m[k], s.first)
      BY <1>2 DEF FCovers, m
    <2>2. k <= s.first /\ bg <= k /\ s.first <= bg
      BY <1>5, <1>6, <1>8, <2>1 DEF In
    <2> QED  BY <1>2, <1>5, <1>6, <2>2
  <1>10. m[r].last = s.last
    <2>1. PICK k \in DOMAIN m : In(m[k], s.last)
      BY <1>2 DEF FCovers, m
    <2>2. s.last <= m[k].last /\ m[k].last <= s.last /\ m[r].last <= s.last
      BY <1>4, <1>8, <2>1 DEF In
    <2>3. /\ k \in Nat /\ r \in Nat /\ k <= r /\ m[k].last \in Nat /\ m[r].last \in Nat /\ r <= m[r].last
          /\ k < r => m[k].last + 1 < r
      BY <1>4, <1>6
    <2>4. k = r => m[k].last = m[r].last
      OBVIOUS
    <2> QED  BY <1>2, <2>2, <2>3, <2>4
  <1> QED  BY <1>2, <1>4, <1>5, <1>8, <1>9, <1>10 DEF m, r, bg

\* Two objects with the same monads are one.
LEMMA SameFast ==
    ASSUME NEW s, FRep(s), NEW t, FRep(t), \A x \in Nat : FCovers(s.ms, x) <=> FCovers(t.ms, x)
    PROVE  s = t
  <1>1. /\ FGood(s.ms) /\ FGood(t.ms) /\ FBounds(s.ms, s.first, s.last)
        /\ FBounds(t.ms, t.first, t.last)
        /\ s = Fast(s.ms, s.first, s.last) /\ t = Fast(t.ms, t.first, t.last)
    BY DEF FRep
  <1>2. s.ms = t.ms
    BY <1>1, SameMap
  <1>3. s.first = t.first /\ s.last = t.last
    <2>1. CASE DOMAIN s.ms = {}
      BY <1>1, <1>2, <2>1 DEF FBounds
    <2>2. CASE DOMAIN s.ms # {}
      <3>1. /\ s.first \in Nat /\ s.last \in Nat /\ t.first \in Nat /\ t.last \in Nat
            /\ s.first <= t.first /\ t.first <= s.first /\ s.last <= t.last /\ t.last <= s.last
        <4>1. /\ s.first \in Nat /\ s.last \in Nat /\ FCovers(s.ms, s.first) /\ FCovers(s.ms, s.last)
              /\ \A x \in Nat : FCovers(s.ms, x) => s.first <= x /\ x <= s.last
          BY <1>1, <2>2, Zenon DEF FBounds
        <4>2. /\ t.first \in Nat /\ t.last \in Nat /\ FCovers(s.ms, t.first) /\ FCovers(s.ms, t.last)
              /\ \A x \in Nat : FCovers(s.ms, x) => t.first <= x /\ x <= t.last
          BY <1>1, <1>2, <2>2, Zenon DEF FBounds
        <4> QED  BY <4>1, <4>2
      <3> QED  BY <3>1
    <2> QED  BY <2>1, <2>2
  <1> QED  BY <1>1, <1>2, <1>3

-----------------------------------------------------------------------------
\* addMSE of FastSetOfMonads

\* What careful finds: every key before it ends before k, every key behind it is past k.
CarefulAt(ms, k, c) ==
    /\ c \in Nat /\ c <= End
    /\ c = End <=> DOMAIN ms = {}
    /\ DOMAIN ms # {} => c \in DOMAIN ms
    /\ \A j \in DOMAIN ms : j < c => c <= k
    /\ \A j \in DOMAIN ms : j > c => j > k

\* The step back from upper_bound leaves nothing that the range could meet
\* before the iterator.
LEMMA CarefulStart ==
    ASSUME NEW ms, FGood(ms), NEW k \in Nat, k < End
    PROVE  CarefulAt(ms, k, careful(ms, k))
  <1> DEFINE it == upper_bound(ms, k)
             bg == begin(ms)
             p == predecessor(ms, it)
  <1>1. Keyed(ms) /\ End \in Nat /\ \A j \in DOMAIN ms : 1 <= j /\ j \in Nat /\ j < End
    BY GoodIsKeyed, MapParts
  <1>2. /\ it \in Nat /\ k < it /\ it <= End /\ (it # End => it \in DOMAIN ms)
        /\ \A j \in DOMAIN ms : j > k => it <= j
    BY <1>1, UpperBound DEF Above
  <1>3. /\ bg \in Nat /\ bg <= End /\ (DOMAIN ms # {} => bg \in DOMAIN ms)
        /\ (DOMAIN ms = {} => bg = End) /\ \A j \in DOMAIN ms : bg <= j
    BY <1>1, Beginning
  <1>4. (\E j \in DOMAIN ms : j < it) =>
           p \in DOMAIN ms /\ p < it /\ \A j \in DOMAIN ms : j < it => j <= p
    BY <1>1, Preceding
  <1>5. careful(ms, k) = IF it = bg THEN it ELSE p
    BY DEF careful
  <1> HIDE DEF it, bg, p
  <1>6. CASE it = bg
    <2>1. it = End <=> DOMAIN ms = {}
      <3>1. DOMAIN ms # {} => it # End
        BY <1>1, <1>3, <1>6
      <3>2. DOMAIN ms = {} => it = End
        BY <1>3, <1>6
      <3> QED  BY <3>1, <3>2
    <2>2. \A j \in DOMAIN ms : ~(j < it)
      BY <1>1, <1>2, <1>3, <1>6
    <2>3. \A j \in DOMAIN ms : j > it => j > k
      BY <1>1, <1>2
    <2> QED  BY <1>2, <1>3, <1>5, <1>6, <2>1, <2>2, <2>3 DEF CarefulAt
  <1>7. CASE it # bg
    <2>1. DOMAIN ms # {}
      <3>1. DOMAIN ms = {} => it = End /\ bg = End
        BY <1>2, <1>3
      <3> QED  BY <1>7, <3>1
    <2>2. bg < it
      <3>1. it # End => bg <= it
        BY <1>2, <1>3
      <3> QED  BY <1>1, <1>2, <1>3, <1>7, <3>1
    <2>3. p \in DOMAIN ms /\ p < it /\ \A j \in DOMAIN ms : j < it => j <= p
      BY <1>3, <1>4, <2>1, <2>2
    <2>4. p <= k
      BY <1>1, <1>2, <2>3
    <2>5. \A j \in DOMAIN ms : j > p => j > k
      BY <1>1, <1>2, <2>3
    <2>6. p # End /\ p \in Nat /\ p <= End
      BY <1>1, <2>3
    <2> QED  BY <1>5, <1>7, <2>1, <2>3, <2>4, <2>5, <2>6 DEF CarefulAt
  <1> QED  BY <1>6, <1>7

\* What the "insert carefully" loop has done once it has visited the first k keys: what
\* it has passed ends before the new range, and where it has stopped, the rest is past it.
FastInsertInv(st, ms, e, keys, k) ==
    /\ st = [ms |-> st.ms, cur |-> st.cur, stopped |-> st.stopped]
    /\ FGood(st.ms) /\ st.cur \in Stretch /\ st.cur.first < End /\ st.stopped \in BOOLEAN
    /\ \A i \in 1 .. Len(keys) : i > k => keys[i] \in DOMAIN st.ms
    /\ \A j \in DOMAIN st.ms :
          \/ st.ms[j].last + 1 < st.cur.first
          \/ IF st.stopped THEN st.cur.last + 1 < j
             ELSE \E i \in 1 .. Len(keys) : i > k /\ keys[i] = j
    /\ \A x \in Nat : FCovers(st.ms, x) \/ In(st.cur, x) <=> FCovers(ms, x) \/ In(e, x)

\* What one turn does.
LEMMA FastInsertTurn ==
    ASSUME NEW st, NEW it, st = [ms |-> st.ms, cur |-> st.cur, stopped |-> st.stopped],
           st.stopped \in BOOLEAN
    PROVE  LET r == fastInsertVisit(st, it)
               A == st.ms[it]
           IN  /\ r = [ms |-> r.ms, cur |-> r.cur, stopped |-> r.stopped]
               /\ \/ st.stopped /\ r = st
                  \/ /\ ~st.stopped /\ (overlapMSE(st.cur, A) \/ adjacent(st.cur, A))
                     /\ r.ms = erase(st.ms, it) /\ r.cur = subsume(st.cur, A)
                     /\ r.stopped = FALSE
                  \/ /\ ~st.stopped /\ ~overlapMSE(st.cur, A) /\ ~adjacent(st.cur, A)
                     /\ r.ms = st.ms /\ r.cur = st.cur /\ r.stopped = past(A, st.cur)
  <1> DEFINE m == st.ms
             u == st.cur
             s == st.stopped
             A == m[it]
             r == fastInsertVisit(st, it)
             T == overlapMSE(u, A) \/ adjacent(u, A)
             er == erase(m, it)
             su == subsume(u, A)
             pa == past(A, u)
  <1>1. r = IF s THEN st ELSE IF T THEN [st EXCEPT !.cur = su, !.ms = er]
            ELSE [st EXCEPT !.stopped = pa]
    BY DEF fastInsertVisit
  <1>2. st = [ms |-> m, cur |-> u, stopped |-> s]
    OBVIOUS
  <1> HIDE DEF er, su, pa, T, r
  <1>3. CASE s
    BY <1>1, <1>2, <1>3 DEF r
  <1>4. CASE ~s /\ T
    <2>1. r = [ms |-> er, cur |-> su, stopped |-> s]
      BY <1>1, <1>2, <1>4
    <2> QED  BY <1>4, <2>1 DEF r, er, su, T
  <1>5. CASE ~s /\ ~T
    <2>1. r = [ms |-> m, cur |-> u, stopped |-> pa]
      BY <1>1, <1>2, <1>5
    <2> QED  BY <1>5, <2>1 DEF r, pa, T
  <1> QED  BY <1>3, <1>4, <1>5

\* Two ranges that touch make one range of the monads of both.
LEMMA TouchingStretch ==
    ASSUME NEW u \in Stretch, NEW A \in Stretch, overlapMSE(u, A) \/ adjacent(u, A)
    PROVE  \A x \in Nat : In(subsume(u, A), x) <=> In(u, x) \/ In(A, x)
  <1>1. /\ subsume(u, A).first = IF u.first < A.first THEN u.first ELSE A.first
        /\ subsume(u, A).last = IF u.last > A.last THEN u.last ELSE A.last
    BY SubsumeStretch
  <1>2. u.first \in Nat /\ u.last \in Nat /\ A.first \in Nat /\ A.last \in Nat
        /\ u.first <= u.last /\ A.first <= A.last
    BY StretchTypes
  <1>3. u.last + 1 >= A.first /\ A.last + 1 >= u.first
    BY <1>2 DEF overlapMSE, adjacent
  <1> QED  BY <1>1, <1>2, <1>3 DEF In

\* A turn of the loop keeps the invariant.
LEMMA FastInsertStepKeeps ==
    ASSUME NEW ms, NEW e, NEW keys, NEW n \in Nat, Len(keys) = n, NEW k \in 1 .. n, NEW st,
           \A i, j \in 1 .. n : i < j => keys[i] < keys[j],
           FastInsertInv(st, ms, e, keys, k - 1)
    PROVE  FastInsertInv(fastInsertVisit(st, keys[k]), ms, e, keys, k)
  <1> DEFINE it == keys[k]
             m == st.ms
             u == st.cur
             A == m[it]
             r == fastInsertVisit(st, it)
  <1>1. /\ st = [ms |-> m, cur |-> u, stopped |-> st.stopped]
        /\ FGood(m) /\ u \in Stretch /\ u.first < End /\ st.stopped \in BOOLEAN
        /\ \A i \in 1 .. n : i > k - 1 => keys[i] \in DOMAIN m
        /\ \A j \in DOMAIN m :
              \/ m[j].last + 1 < u.first
              \/ IF st.stopped THEN u.last + 1 < j
                 ELSE \E i \in 1 .. n : i > k - 1 /\ keys[i] = j
        /\ \A x \in Nat : FCovers(m, x) \/ In(u, x) <=> FCovers(ms, x) \/ In(e, x)
    BY DEF FastInsertInv
  <1>2. /\ r = [ms |-> r.ms, cur |-> r.cur, stopped |-> r.stopped]
        /\ \/ st.stopped /\ r = st
           \/ /\ ~st.stopped /\ (overlapMSE(u, A) \/ adjacent(u, A))
              /\ r.ms = erase(m, it) /\ r.cur = subsume(u, A)
              /\ r.stopped = FALSE
           \/ /\ ~st.stopped /\ ~overlapMSE(u, A) /\ ~adjacent(u, A)
              /\ r.ms = m /\ r.cur = u /\ r.stopped = past(A, u)
    BY <1>1, FastInsertTurn
  <1>3. it \in DOMAIN m
    BY <1>1
  <1>4. /\ \A j \in DOMAIN m : /\ j \in Nat /\ 1 <= j /\ j < End
                               /\ m[j].first = j /\ m[j].last \in Nat /\ j <= m[j].last
        /\ \A i, j \in DOMAIN m : i < j => m[i].last + 1 < j
    BY <1>1, MapParts
  <1>5. u.first \in Nat /\ u.last \in Nat /\ u.first <= u.last /\ End \in Nat
    BY <1>1, StretchTypes, MaxMonadAssumption DEF End
  <1>6. A \in Stretch /\ A.first = it /\ A.last \in Nat /\ it <= A.last /\ it \in Nat
    BY <1>1, <1>3, <1>4 DEF FGood
  <1>7. \A i \in 1 .. n : i > k => it < keys[i] /\ keys[i] # it /\ keys[i] \in DOMAIN m
    BY <1>1, <1>4
  <1>8. \A i \in 1 .. n : i > k - 1 => i = k \/ i > k
    OBVIOUS
  <1> HIDE DEF A, it, m, u, r
  <1>9. CASE st.stopped /\ r = st
    <2>1. \A j \in DOMAIN m : m[j].last + 1 < u.first \/ u.last + 1 < j
      BY <1>1, <1>9
    <2>2. \A i \in 1 .. n : i > k => keys[i] \in DOMAIN m
      BY <1>7
    <2> QED  BY <1>1, <1>9, <2>1, <2>2 DEF FastInsertInv, r, m, u, it
  <1>10. CASE /\ ~st.stopped /\ (overlapMSE(u, A) \/ adjacent(u, A))
              /\ r.ms = erase(m, it) /\ r.cur = subsume(u, A) /\ r.stopped = FALSE
    <2> DEFINE w == subsume(u, A)
               p == erase(m, it)
    <2>1. /\ w \in Stretch
          /\ w.first = IF u.first < A.first THEN u.first ELSE A.first
          /\ w.last = IF u.last > A.last THEN u.last ELSE A.last
      BY <1>1, <1>6, SubsumeStretch
    <2>2. \A x \in Nat : In(w, x) <=> In(u, x) \/ In(A, x)
      BY <1>1, <1>6, <1>10, TouchingStretch
    <2>3. /\ FGood(p) /\ DOMAIN p = DOMAIN m \ {it}
          /\ \A j \in DOMAIN m : j # it => p[j] = m[j]
          /\ \A x \in Nat : FCovers(p, x) <=> FCovers(m, x) /\ ~In(A, x)
      BY <1>1, <1>3, ErasedMap DEF A
    <2>4. A.last + 1 >= u.first
      BY <1>5, <1>6, <1>10 DEF overlapMSE, adjacent
    <2> HIDE DEF w, p
    <2>5. w.first < End
      BY <1>1, <1>3, <1>4, <1>6, <2>1
    <2>6. ASSUME NEW j \in DOMAIN p
          PROVE  p[j].last + 1 < w.first \/ \E i \in 1 .. n : i > k /\ keys[i] = j
      <3>1. j \in DOMAIN m /\ j # it /\ p[j] = m[j]
        BY <2>3
      <3>2. CASE m[j].last + 1 < u.first
        <4>1. j \in Nat /\ m[j].last \in Nat /\ j <= m[j].last
              /\ (j < it => m[j].last + 1 < it) /\ (it < j => A.last + 1 < j)
          BY <1>3, <1>4, <3>1 DEF A
        <4>2. j < it
          BY <1>5, <1>6, <2>4, <3>1, <3>2, <4>1
        <4> QED  BY <1>6, <2>1, <3>1, <3>2, <4>1, <4>2
      <3>3. CASE \E i \in 1 .. n : i > k - 1 /\ keys[i] = j
        BY <1>8, <3>1, <3>3 DEF it
      <3> QED  BY <1>1, <1>10, <3>1, <3>2, <3>3
    <2>7. \A i \in 1 .. n : i > k => keys[i] \in DOMAIN p
      BY <1>7, <2>3
    <2>8. \A x \in Nat : FCovers(m, x) \/ In(u, x) <=> FCovers(ms, x) \/ In(e, x)
      BY <1>1
    <2>9. \A x \in Nat : FCovers(p, x) \/ In(w, x) <=> FCovers(ms, x) \/ In(e, x)
      <3>1. \A x \in Nat : In(A, x) => FCovers(m, x)
        BY <1>3 DEF FCovers, A
      <3> QED  BY <2>2, <2>3, <2>8, <3>1
    <2>10. r.ms = p /\ r.cur = w /\ r.stopped = FALSE
      BY <1>10 DEF p, w
    <2>11. FastInsertInv(r, ms, e, keys, k)
      BY <1>2, <2>1, <2>3, <2>5, <2>6, <2>7, <2>9, <2>10 DEF FastInsertInv
    <2> QED  BY <2>11 DEF r, it
  <1>11. CASE /\ ~st.stopped /\ ~overlapMSE(u, A) /\ ~adjacent(u, A)
              /\ r.ms = m /\ r.cur = u /\ r.stopped = past(A, u)
    <2>1. past(A, u) <=> u.last + 1 < it
      BY <1>5, <1>6 DEF past
    <2>2. ~past(A, u) => A.last + 1 < u.first
      BY <1>5, <1>6, <1>11, <2>1 DEF overlapMSE, adjacent
    <2>3. ASSUME NEW j \in DOMAIN m
          PROVE  \/ m[j].last + 1 < u.first
                 \/ IF past(A, u) THEN u.last + 1 < j ELSE \E i \in 1 .. n : i > k /\ keys[i] = j
      <3>1. m[j].last + 1 < u.first \/ \E i \in 1 .. n : i > k - 1 /\ keys[i] = j
        BY <1>1, <1>11
      <3>2. ASSUME NEW i \in 1 .. n, i > k - 1, keys[i] = j, past(A, u) PROVE u.last + 1 < j
        <4>1. j = it \/ it < j
          BY <1>7, <1>8, <3>2 DEF it
        <4> QED  BY <1>4, <1>5, <1>6, <2>1, <3>2, <4>1
      <3>3. ASSUME NEW i \in 1 .. n, i > k - 1, keys[i] = j, ~past(A, u)
            PROVE  m[j].last + 1 < u.first \/ \E h \in 1 .. n : h > k /\ keys[h] = j
        <4>1. i = k => j = it
          BY <3>3 DEF it
        <4> QED  BY <1>8, <2>2, <3>3, <4>1 DEF A
      <3> QED  BY <3>1, <3>2, <3>3
    <2>4. \A i \in 1 .. n : i > k => keys[i] \in DOMAIN m
      BY <1>7
    <2>5. past(A, u) \in BOOLEAN
      BY DEF past
    <2>6. \A x \in Nat : FCovers(m, x) \/ In(u, x) <=> FCovers(ms, x) \/ In(e, x)
      BY <1>1
    <2>7. FastInsertInv(r, ms, e, keys, k)
      BY <1>1, <1>2, <1>11, <2>3, <2>4, <2>5, <2>6 DEF FastInsertInv
    <2> QED  BY <2>7 DEF r, it
  <1> QED  BY <1>2, <1>9, <1>10, <1>11

\* fastInsertCarefully adds the monads of the range.
LEMMA FastInsertCarefullyMap ==
    ASSUME NEW ms, FGood(ms), NEW e \in Stretch, e.first < End
    PROVE  /\ FGood(fastInsertCarefully(ms, e))
           /\ \A x \in Nat : FCovers(fastInsertCarefully(ms, e), x) <=> FCovers(ms, x) \/ In(e, x)
  <1> DEFINE g == e.first - 1
             c == careful(ms, g)
             keys == keysFrom(ms, c)
             n == Len(keys)
             base == [ms |-> ms, cur |-> e, stopped |-> FALSE]
             t(k) == FastInsertRun(keys, base)[1 .. k]
             S == {k \in 0 .. n : FastInsertInv(t(k), ms, e, keys, k)}
  <1>1. e.first \in Nat /\ e.last \in Nat /\ 1 <= e.first /\ End \in Nat
    BY StretchTypes, MaxMonadAssumption DEF End
  <1>2. g \in Nat /\ g < End
    BY <1>1
  <1>3. /\ \A j \in DOMAIN ms : j \in Nat /\ ms[j].last \in Nat
        /\ \A i, j \in DOMAIN ms : i < j => ms[i].last + 1 < j
    BY MapParts
  <1>4. CarefulAt(ms, g, c)
    <2> HIDE DEF g
    <2> QED  BY <1>2, CarefulStart
  <1>5. c \in Nat
    BY <1>4 DEF CarefulAt
  <1> HIDE DEF c
  <1>6. Iterates(keys, ms, c)
    BY <1>5, GoodIsKeyed, KeysFrom
  <1>7. fastInsertCarefully(ms, e)
           = LET end == FoldLeft(fastInsertVisit, base, keys) IN insert(end.ms, end.cur)
    BY Zenon DEF fastInsertCarefully, c, g
  <1> HIDE DEF keys
  <1>8. /\ n \in Nat /\ DOMAIN keys = 1 .. n
        /\ \A i \in 1 .. n : keys[i] \in DOMAIN ms /\ c <= keys[i]
        /\ \A i, j \in 1 .. n : i < j => keys[i] < keys[j]
        /\ \A k \in DOMAIN ms : c <= k => \E i \in 1 .. n : keys[i] = k
    BY <1>6 DEF Iterates
  <1>9. FoldLeft(fastInsertVisit, base, keys) = t(n)
    BY <1>8, FastLoopsAreFolds, Zenon
  <1>10. FastInsertInv(base, ms, e, keys, 0)
    <2>1. ASSUME NEW j \in DOMAIN ms
          PROVE  ms[j].last + 1 < e.first \/ \E i \in 1 .. n : i > 0 /\ keys[i] = j
      <3>1. CASE c <= j
        BY <1>8, <3>1
      <3>2. CASE j < c
        <4>1. c \in DOMAIN ms /\ c <= g
          BY <1>4, <3>2 DEF CarefulAt
        <4>2. ms[j].last + 1 < c
          BY <1>3, <3>2, <4>1
        <4> QED  BY <1>1, <1>3, <1>5, <4>1, <4>2
      <3> QED  BY <1>3, <1>5, <3>1, <3>2
    <2>2. base.ms = ms /\ base.cur = e /\ base.stopped = FALSE
      OBVIOUS
    <2>3. base = [ms |-> base.ms, cur |-> base.cur, stopped |-> base.stopped]
      OBVIOUS
    <2> HIDE DEF base
    <2> QED  BY <1>8, <2>1, <2>2, <2>3 DEF FastInsertInv
  <1> HIDE DEF base
  <1>11. t(0) = base /\ \A k \in 1 .. n : t(k) = fastInsertVisit(t(k - 1), keys[k])
    BY <1>8, FastInsertChain
  <1> HIDE DEF t
  <1>12. 0 \in S
    BY <1>8, <1>10, <1>11
  <1>13. ASSUME NEW k \in 1 .. n, k - 1 \in S PROVE k \in S
    <2>1. FastInsertInv(t(k - 1), ms, e, keys, k - 1)
      BY <1>13
    <2>2. FastInsertInv(fastInsertVisit(t(k - 1), keys[k]), ms, e, keys, k)
      <3> HIDE DEF S
      <3> QED  BY <1>8, <2>1, FastInsertStepKeeps
    <2> QED  BY <1>8, <1>11, <2>2
  <1> HIDE DEF S
  <1>14. n \in S
    <2>1. n \in Nat
      BY <1>8
    <2> HIDE DEF n
    <2>2. \A k \in 0 .. n : k \in S
      BY <1>12, <1>13, <2>1, UpTo
    <2> QED  BY <2>1, <2>2
  <1> DEFINE m == t(n).ms
             u == t(n).cur
  <1>15. FastInsertInv(t(n), ms, e, keys, n)
    BY <1>14 DEF S
  <1>16. /\ FGood(m) /\ u \in Stretch /\ u.first < End
         /\ \A j \in DOMAIN m : m[j].last + 1 < u.first \/ u.last + 1 < j
         /\ \A x \in Nat : FCovers(m, x) \/ In(u, x) <=> FCovers(ms, x) \/ In(e, x)
    <2>1. \A i \in 1 .. n : ~(i > n)
      BY <1>8
    <2> QED  BY <1>15, <2>1 DEF FastInsertInv
  <1>17. fastInsertCarefully(ms, e) = insert(m, u)
    BY <1>7, <1>9
  <1> HIDE DEF m, u
  <1>18. /\ FGood(insert(m, u))
         /\ \A x : FCovers(insert(m, u), x) <=> FCovers(m, x) \/ In(u, x)
    BY <1>16, InsertedMap
  <1> QED  BY <1>16, <1>17, <1>18

\* An entry that is replaced by what it makes with a range that touches it.
LEMMA ExtendedMap ==
    ASSUME NEW ms, FGood(ms), NEW it \in DOMAIN ms, NEW e \in Stretch,
           overlapMSE(ms[it], e) \/ adjacent(ms[it], e),
           subsume(ms[it], e).first < End,
           \A j \in DOMAIN ms : j < it => ms[j].last + 1 < subsume(ms[it], e).first,
           \A j \in DOMAIN ms : it < j => subsume(ms[it], e).last + 1 < j
    PROVE  /\ FGood(insert(erase(ms, it), subsume(ms[it], e)))
           /\ \A x \in Nat : FCovers(insert(erase(ms, it), subsume(ms[it], e)), x)
                                <=> FCovers(ms, x) \/ In(e, x)
  <1> DEFINE w == subsume(ms[it], e)
             p == erase(ms, it)
  <1>1. ms[it] \in Stretch /\ \A j \in DOMAIN ms : j \in Nat
    BY MapParts DEF FGood
  <1>2. w \in Stretch /\ w.first < End
    BY <1>1, SubsumeStretch
  <1>3. \A x \in Nat : In(w, x) <=> In(ms[it], x) \/ In(e, x)
    BY <1>1, TouchingStretch
  <1>4. /\ FGood(p) /\ DOMAIN p = DOMAIN ms \ {it}
        /\ \A j \in DOMAIN ms : j # it => p[j] = ms[j]
        /\ \A x \in Nat : FCovers(p, x) <=> FCovers(ms, x) /\ ~In(ms[it], x)
    BY ErasedMap
  <1>5. \A j \in DOMAIN ms : /\ j < it => ms[j].last + 1 < w.first
                             /\ it < j => w.last + 1 < j
    OBVIOUS
  <1>6. \A x \in Nat : In(ms[it], x) => FCovers(ms, x)
    BY DEF FCovers
  <1> HIDE DEF w, p
  <1>7. \A j \in DOMAIN p : p[j].last + 1 < w.first \/ w.last + 1 < j
    <2> SUFFICES ASSUME NEW j \in DOMAIN p PROVE p[j].last + 1 < w.first \/ w.last + 1 < j
      OBVIOUS
    <2>1. j \in DOMAIN ms /\ j # it /\ p[j] = ms[j]
      BY <1>4
    <2>2. j < it \/ it < j
      BY <1>1, <2>1
    <2> QED  BY <1>5, <2>1, <2>2
  <1>8. /\ FGood(insert(p, w))
        /\ \A x : FCovers(insert(p, w), x) <=> FCovers(p, x) \/ In(w, x)
    BY <1>2, <1>4, <1>7, InsertedMap
  <1>9. \A x \in Nat : FCovers(insert(p, w), x) <=> FCovers(ms, x) \/ In(e, x)
    BY <1>3, <1>4, <1>6, <1>8
  <1> QED  BY <1>8, <1>9 DEF p, w

\* The bounds after an addition.
LEMMA AddedBounds ==
    ASSUME NEW s, FRep(s), NEW e \in Stretch, e.first < End, NEW ms, FGood(ms),
           \A x \in Nat : FCovers(ms, x) <=> FCovers(s.ms, x) \/ In(e, x)
    PROVE  FRep(Fast(ms, lesser(e.first, s.first), greater(e.last, s.last)))
  <1> DEFINE f == lesser(e.first, s.first)
             l == greater(e.last, s.last)
  <1>1. e.first \in Nat /\ e.last \in Nat /\ e.first <= e.last /\ End \in Nat /\ End = MAX_MONAD
    BY StretchTypes, MaxMonadAssumption DEF End
  <1>2. In(e, e.first) /\ In(e, e.last)
    BY <1>1 DEF In
  <1>3. CASE DOMAIN s.ms = {}
    <2>1. s.first = MAX_MONAD /\ s.last = 0 /\ \A x : ~FCovers(s.ms, x)
      BY <1>3 DEF FRep, FBounds, FCovers
    <2>2. f = e.first /\ l = e.last
      BY <1>1, <2>1 DEF lesser, greater
    <2> QED  BY <1>1, <1>2, <2>1, <2>2, MakeFast DEF In
  <1>4. CASE DOMAIN s.ms # {}
    <2>1. /\ s.first \in Nat /\ s.last \in Nat /\ FCovers(s.ms, s.first) /\ FCovers(s.ms, s.last)
          /\ \A x \in Nat : FCovers(s.ms, x) => s.first <= x /\ x <= s.last
      BY <1>4, FastEnds
    <2>2. /\ f \in Nat /\ f <= e.first /\ f <= s.first /\ (f = e.first \/ f = s.first)
          /\ l \in Nat /\ e.last <= l /\ s.last <= l /\ (l = e.last \/ l = s.last)
      BY <1>1, <2>1 DEF lesser, greater
    <2> HIDE DEF f, l
    <2>3. FCovers(ms, f) /\ FCovers(ms, l)
      BY <1>2, <2>1, <2>2
    <2>4. \A x \in Nat : FCovers(ms, x) => f <= x /\ x <= l
      BY <1>1, <2>1, <2>2 DEF In
    <2>5. FRep(Fast(ms, f, l))
      BY <2>2, <2>3, <2>4, MakeFast
    <2> QED  BY <2>5 DEF f, l
  <1> QED  BY <1>3, <1>4

\* addMSE of FastSetOfMonads adds the monads of the range.
LEMMA FastAddRep ==
    ASSUME NEW s, FRep(s), NEW e \in Stretch, e.first < End
    PROVE  /\ FRep(fastAddMSE(s, e))
           /\ \A x \in Nat : FCovers(fastAddMSE(s, e).ms, x) <=> FCovers(s.ms, x) \/ In(e, x)
  <1> DEFINE m == s.ms
             r == rbegin(m)
             bg == begin(m)
             Ext(it) == insert(erase(m, it), subsume(m[it], e))
             new == IF fastIsEmpty(s) \/ e.first > s.last + 1 THEN insert(m, e)
                    ELSE IF e.first >= m[r].first THEN Ext(r)
                    ELSE IF e.last = s.first - 1 THEN Ext(bg)
                    ELSE IF e.last < s.first - 1 THEN insert(m, e)
                    ELSE fastInsertCarefully(m, e)
             Adds(p) == FGood(p) /\ \A x \in Nat : FCovers(p, x) <=> FCovers(m, x) \/ In(e, x)
  <1>1. fastAddMSE(s, e) = Fast(new, lesser(e.first, s.first), greater(e.last, s.last))
    BY DEF fastAddMSE
  <1>2. FGood(m)
    BY DEF FRep
  <1>3. fastIsEmpty(s) <=> DOMAIN m = {}
    BY DEF fastIsEmpty
  <1>4. e.first \in Nat /\ e.last \in Nat /\ 1 <= e.first /\ e.first <= e.last /\ End \in Nat
    BY StretchTypes, MaxMonadAssumption DEF End
  <1>5. /\ \A j \in DOMAIN m : /\ j \in Nat /\ 1 <= j /\ j < End
                               /\ m[j].first = j /\ m[j].last \in Nat /\ j <= m[j].last
                               /\ m[j] \in Stretch
        /\ \A i, j \in DOMAIN m : i < j => m[i].last + 1 < j
    BY <1>2, MapParts DEF FGood
  <1>6. DOMAIN m # {} =>
           /\ s.first \in Nat /\ s.last \in Nat
           /\ bg = s.first /\ s.first \in DOMAIN m
           /\ r \in DOMAIN m /\ m[r].last = s.last
           /\ \A k \in DOMAIN m : s.first <= k /\ m[k].last <= s.last /\ k <= r
    BY FastEnds
  <1> HIDE DEF m, new
  <1>7. ASSUME \A k \in DOMAIN m : m[k].last + 1 < e.first \/ e.last + 1 < k
        PROVE  Adds(insert(m, e))
    <2>1. /\ FGood(insert(m, e))
          /\ \A x : FCovers(insert(m, e), x) <=> FCovers(m, x) \/ In(e, x)
      BY <1>2, <1>7, InsertedMap
    <2> QED  BY <2>1
  <1>14. SUFFICES Adds(new)
    <2>1. ASSUME Adds(new)
          PROVE  FRep(Fast(new, lesser(e.first, s.first), greater(e.last, s.last)))
      BY <2>1, AddedBounds DEF m
    <2>2. fastAddMSE(s, e) = Fast(new, lesser(e.first, s.first), greater(e.last, s.last))
      BY <1>1 DEF new, m
    <2> QED  BY <2>1, <2>2, FastFields DEF m
  <1>8. CASE DOMAIN m = {}
    <2>1. new = insert(m, e)
      BY <1>3, <1>8, Zenon DEF new
    <2>2. \A k \in DOMAIN m : m[k].last + 1 < e.first \/ e.last + 1 < k
      BY <1>8
    <2>3. Adds(insert(m, e))
      BY <1>7, <2>2
    <2> HIDE DEF Adds
    <2> QED  BY <2>1, <2>3, Zenon
  <1>9. CASE DOMAIN m # {} /\ e.first > s.last + 1
    <2>1. \A k \in DOMAIN m : m[k].last + 1 < e.first
      BY <1>4, <1>5, <1>6, <1>9
    <2>2. new = insert(m, e)
      BY <1>3, <1>9, Zenon DEF new
    <2>3. Adds(insert(m, e))
      BY <1>7, <2>1
    <2> HIDE DEF Adds
    <2> QED  BY <2>2, <2>3, Zenon
  <1>10. CASE DOMAIN m # {} /\ ~(e.first > s.last + 1) /\ e.first >= m[r].first
    <2> DEFINE w == subsume(m[r], e)
    <2>1. /\ r \in DOMAIN m /\ r \in Nat /\ m[r].first = r /\ m[r].last = s.last /\ s.last \in Nat
          /\ r <= s.last /\ m[r] \in Stretch
      BY <1>5, <1>6, <1>10
    <2>2. w.first = r
      <3>1. w.first = IF m[r].first < e.first THEN m[r].first ELSE e.first
        BY <2>1, SubsumeStretch
      <3> QED  BY <1>4, <1>10, <2>1, <3>1
    <2>3. overlapMSE(m[r], e) \/ adjacent(m[r], e)
      BY <1>4, <1>10, <2>1 DEF overlapMSE, adjacent
    <2>4. \A j \in DOMAIN m : (j < r => m[j].last + 1 < w.first) /\ (r < j => w.last + 1 < j)
      <3>1. \A j \in DOMAIN m : ~(r < j)
        BY <1>5, <1>6, <1>10
      <3> HIDE DEF w, r
      <3> QED  BY <1>5, <2>1, <2>2, <3>1
    <2>5. w.first < End
      BY <1>5, <2>1, <2>2
    <2>6. Adds(Ext(r))
      <3> HIDE DEF r
      <3> QED  BY <1>2, <2>1, <2>3, <2>4, <2>5, ExtendedMap
    <2>7. new = Ext(r)
      BY <1>3, <1>10, Zenon DEF new
    <2> HIDE DEF Adds, Ext
    <2> QED  BY <2>6, <2>7, Zenon
  <1>11. CASE /\ DOMAIN m # {} /\ ~(e.first > s.last + 1) /\ ~(e.first >= m[r].first)
              /\ e.last = s.first - 1
    <2> DEFINE w == subsume(m[bg], e)
    <2>1. /\ bg \in DOMAIN m /\ bg \in Nat /\ bg = s.first /\ m[bg].first = bg /\ m[bg].last \in Nat
          /\ bg <= m[bg].last /\ m[bg] \in Stretch
      BY <1>5, <1>6, <1>11
    <2>2. w.first = e.first /\ w.last = m[bg].last
      <3>1. /\ w.first = IF m[bg].first < e.first THEN m[bg].first ELSE e.first
            /\ w.last = IF m[bg].last > e.last THEN m[bg].last ELSE e.last
        BY <2>1, SubsumeStretch
      <3> HIDE DEF w, bg
      <3> QED  BY <1>4, <1>11, <2>1, <3>1
    <2>3. overlapMSE(m[bg], e) \/ adjacent(m[bg], e)
      BY <1>4, <1>11, <2>1 DEF overlapMSE, adjacent
    <2>4. \A j \in DOMAIN m : (j < bg => m[j].last + 1 < w.first) /\ (bg < j => w.last + 1 < j)
      <3>1. \A j \in DOMAIN m : ~(j < bg)
        BY <1>5, <1>6, <1>11
      <3> HIDE DEF w, bg
      <3> QED  BY <1>5, <2>1, <2>2, <3>1
    <2>5. w.first < End
      BY <2>2
    <2>6. Adds(Ext(bg))
      <3> HIDE DEF bg
      <3> QED  BY <1>2, <2>1, <2>3, <2>4, <2>5, ExtendedMap
    <2>7. new = Ext(bg)
      BY <1>3, <1>11, Zenon DEF new
    <2> HIDE DEF Adds, Ext
    <2> QED  BY <2>6, <2>7, Zenon
  <1>12. CASE /\ DOMAIN m # {} /\ ~(e.first > s.last + 1) /\ ~(e.first >= m[r].first)
              /\ e.last # s.first - 1 /\ e.last < s.first - 1
    <2>1. \A k \in DOMAIN m : e.last + 1 < k
      BY <1>4, <1>5, <1>6, <1>12
    <2>2. new = insert(m, e)
      BY <1>3, <1>12, Zenon DEF new
    <2>3. Adds(insert(m, e))
      BY <1>7, <2>1
    <2> HIDE DEF Adds
    <2> QED  BY <2>2, <2>3, Zenon
  <1>13. CASE /\ DOMAIN m # {} /\ ~(e.first > s.last + 1) /\ ~(e.first >= m[r].first)
              /\ e.last # s.first - 1 /\ ~(e.last < s.first - 1)
    <2>1. new = fastInsertCarefully(m, e)
      BY <1>3, <1>13, Zenon DEF new
    <2>2. Adds(fastInsertCarefully(m, e))
      BY <1>2, FastInsertCarefullyMap
    <2> HIDE DEF Adds
    <2> QED  BY <2>1, <2>2, Zenon
  <1> QED  BY <1>8, <1>9, <1>10, <1>11, <1>12, <1>13

-----------------------------------------------------------------------------
\* removeMSE of FastSetOfMonads

\* An entry of a map that is replaced by a range within it.
LEMMA CutMap ==
    ASSUME NEW ms, FGood(ms), NEW it \in DOMAIN ms, NEW c \in Stretch, c.first < End,
           it <= c.first, c.last <= ms[it].last
    PROVE  LET p == insert(erase(ms, it), c)
           IN  /\ FGood(p) /\ DOMAIN p = (DOMAIN ms \ {it}) \cup {c.first}
               /\ p[c.first] = c /\ \A j \in DOMAIN ms : j # it => p[j] = ms[j]
               /\ \A x \in Nat : FCovers(p, x) <=> (FCovers(ms, x) /\ ~In(ms[it], x)) \/ In(c, x)
  <1> DEFINE q == erase(ms, it)
             p == insert(q, c)
             f == c.first
  <1>1. /\ FGood(q) /\ DOMAIN q = DOMAIN ms \ {it}
        /\ \A j \in DOMAIN ms : j # it => q[j] = ms[j]
        /\ \A x \in Nat : FCovers(q, x) <=> FCovers(ms, x) /\ ~In(ms[it], x)
    BY ErasedMap
  <1>2. /\ \A j \in DOMAIN ms : j \in Nat /\ ms[j].last \in Nat /\ j <= ms[j].last
        /\ \A i, j \in DOMAIN ms : i < j => ms[i].last + 1 < j
    BY MapParts
  <1>3. f \in Nat /\ c.last \in Nat /\ f <= c.last
    BY StretchTypes
  <1> HIDE DEF q
  <1>4. \A j \in DOMAIN q : q[j].last + 1 < c.first \/ c.last + 1 < j
    <2> SUFFICES ASSUME NEW j \in DOMAIN q PROVE q[j].last + 1 < c.first \/ c.last + 1 < j
      OBVIOUS
    <2>1. j \in DOMAIN ms /\ j # it /\ q[j] = ms[j]
      BY <1>1
    <2>2. (j < it /\ ms[j].last + 1 < it) \/ (it < j /\ ms[it].last + 1 < j)
      BY <1>2, <2>1
    <2>3. ms[j].last \in Nat /\ ms[it].last \in Nat /\ j \in Nat /\ it \in Nat
      BY <1>2, <2>1
    <2> QED  BY <1>3, <2>1, <2>2, <2>3
  <1>5. /\ FGood(insert(q, c))
        /\ DOMAIN insert(q, c) = DOMAIN q \cup {c.first}
        /\ insert(q, c)[c.first] = c
        /\ \A k \in DOMAIN q : insert(q, c)[k] = q[k]
        /\ \A x : FCovers(insert(q, c), x) <=> FCovers(q, x) \/ In(c, x)
    BY <1>1, <1>4, InsertedMap
  <1> HIDE DEF p
  <1>6. /\ FGood(p) /\ DOMAIN p = (DOMAIN ms \ {it}) \cup {c.first}
        /\ p[c.first] = c /\ \A j \in DOMAIN ms : j # it => p[j] = ms[j]
        /\ \A x \in Nat : FCovers(p, x) <=> (FCovers(ms, x) /\ ~In(ms[it], x)) \/ In(c, x)
    BY <1>1, <1>5 DEF p
  <1> QED  BY <1>6 DEF p, q

\* What lies outside a range.
Outside(e, B) == e.last < B.first \/ e.first > B.last

\* The state of the loop of removeMSE: nothing before the iterator lies in B any more,
\* and what is behind the iterator begins behind the first monad of B.
FastRemoveInv(st, ms, B) ==
    /\ st = [ms |-> st.ms, it |-> st.it]
    /\ FGood(st.ms) /\ st.it \in Nat /\ st.it <= End
    /\ st.it # End => st.it \in DOMAIN st.ms
    /\ \A x \in Nat : /\ FCovers(st.ms, x) => FCovers(ms, x)
                      /\ FCovers(ms, x) /\ ~In(B, x) => FCovers(st.ms, x)
    /\ \A k \in DOMAIN st.ms : /\ k < st.it => Outside(st.ms[k], B)
                               /\ k > st.it => k > B.first

Inside(ms, B) == {k \in DOMAIN ms : B.first <= k /\ k <= B.last}

\* How many turns are left at most.
TurnsLeft(st, B) ==
    IF st.it = End THEN 0
    ELSE 2 * Cardinality(Inside(st.ms, B)) + (IF st.it < B.first THEN 1 ELSE 0) + 1

\* The cases of a turn.
LEMMA FastRemoveTurn ==
    ASSUME NEW st, NEW B
    PROVE  LET ms == st.ms
               it == st.it
               A == ms[it]
               r == fastRemoveVisit(st, B)
               cut == insert(erase(ms, it), truncate(A, B.first, B.last))
           IN  \/ it = End /\ r = st
               \/ /\ it # End /\ A.last < B.first
                  /\ r = [ms |-> ms, it |-> successor(ms, it)]
               \/ /\ it # End /\ ~(A.last < B.first) /\ A.first > B.last
                  /\ r = [ms |-> ms, it |-> End]
               \/ /\ it # End /\ ~(A.last < B.first) /\ ~(A.first > B.last)
                  /\ A.first >= B.first /\ A.last <= B.last
                  /\ r = [ms |-> erase(ms, it), it |-> careful(erase(ms, it), B.first)]
               \/ /\ it # End /\ ~(A.last < B.first) /\ ~(A.first > B.last)
                  /\ A.first < B.first /\ A.last > B.last
                  /\ r = [ms |-> insert(cut, MSE(B.last + 1, A.last)), it |-> End]
               \/ /\ it # End /\ ~(A.last < B.first) /\ ~(A.first > B.last)
                  /\ ~(A.first >= B.first /\ A.last <= B.last)
                  /\ ~(A.first < B.first /\ A.last > B.last)
                  /\ r = [ms |-> cut, it |-> successor(ms, it)]
  <1> DEFINE ms == st.ms
             it == st.it
             A == ms[it]
             r == fastRemoveVisit(st, B)
             cut == insert(erase(ms, it), truncate(A, B.first, B.last))
             r1 == [ms |-> ms, it |-> successor(ms, it)]
             r5 == [ms |-> ms, it |-> End]
             r3 == [ms |-> erase(ms, it), it |-> careful(erase(ms, it), B.first)]
             r6 == [ms |-> insert(cut, MSE(B.last + 1, A.last)), it |-> End]
             r2 == [ms |-> cut, it |-> successor(ms, it)]
             c1 == A.last < B.first
             c5 == A.first > B.last
             c3 == A.first >= B.first /\ A.last <= B.last
             c6 == A.first < B.first /\ A.last > B.last
  <1>1. r = IF it = End THEN st ELSE IF c1 THEN r1 ELSE IF c5 THEN r5 ELSE IF c3 THEN r3
            ELSE IF c6 THEN r6 ELSE r2
    BY Zenon DEF fastRemoveVisit
  <1> HIDE DEF r1, r2, r3, r5, r6, c1, c3, c5, c6, r
  <1>2. \/ it = End /\ r = st
        \/ it # End /\ c1 /\ r = r1
        \/ it # End /\ ~c1 /\ c5 /\ r = r5
        \/ it # End /\ ~c1 /\ ~c5 /\ c3 /\ r = r3
        \/ it # End /\ ~c1 /\ ~c5 /\ c6 /\ r = r6
        \/ it # End /\ ~c1 /\ ~c5 /\ ~c3 /\ ~c6 /\ r = r2
    BY <1>1
  <1> QED  BY <1>2, Zenon DEF r1, r2, r3, r5, r6, c1, c3, c5, c6, r

\* What makes a state that keeps the invariant.
LEMMA RemoveStateMade ==
    ASSUME NEW st, NEW ms, NEW B, FastRemoveInv(st, ms, B),
           NEW p, NEW t, FGood(p), t \in Nat, t <= End, t # End => t \in DOMAIN p,
           \A x \in Nat : /\ FCovers(p, x) => FCovers(st.ms, x)
                          /\ FCovers(st.ms, x) /\ ~In(B, x) => FCovers(p, x),
           \A k \in DOMAIN p : k < t => Outside(p[k], B),
           \A k \in DOMAIN p : k > t => k > B.first
    PROVE  FastRemoveInv([ms |-> p, it |-> t], ms, B)
  <1> DEFINE r == [ms |-> p, it |-> t]
  <1>1. r.ms = p /\ r.it = t
    OBVIOUS
  <1>2. r = [ms |-> r.ms, it |-> r.it]
    BY <1>1
  <1>3. \A x \in Nat : /\ FCovers(p, x) => FCovers(ms, x)
                       /\ FCovers(ms, x) /\ ~In(B, x) => FCovers(p, x)
    BY DEF FastRemoveInv
  <1> HIDE DEF r
  <1>4. FastRemoveInv(r, ms, B)
    BY <1>1, <1>2, <1>3 DEF FastRemoveInv
  <1> QED  BY <1>4 DEF r

\* How many keys lie inside B once one of them is gone.
LEMMA FewerInside ==
    ASSUME NEW ms, FGood(ms), NEW B \in Stretch, NEW it \in DOMAIN ms, NEW p,
           Inside(p, B) = Inside(ms, B) \ {it}
    PROVE  /\ Cardinality(Inside(ms, B)) \in Nat /\ Cardinality(Inside(p, B)) \in Nat
           /\ it \in Inside(ms, B) => Cardinality(Inside(p, B)) = Cardinality(Inside(ms, B)) - 1
           /\ it \notin Inside(ms, B) => Cardinality(Inside(p, B)) = Cardinality(Inside(ms, B))
  <1> DEFINE I == Inside(ms, B)
  <1>1. I \in SUBSET (DOMAIN ms)
    BY DEF Inside
  <1>2. IsFiniteSet(I) /\ Cardinality(I) \in Nat
    BY <1>1, GoodIsKeyed, FiniteKeys
  <1> HIDE DEF I
  <1>3. it \in I => Cardinality(I \ {it}) = Cardinality(I) - 1
    BY <1>2, FS_RemoveElement
  <1>4. it \notin I => I \ {it} = I
    OBVIOUS
  <1>5. IsFiniteSet(I \ {it}) /\ Cardinality(I \ {it}) \in Nat
    BY <1>2, FS_Subset, FS_CardinalityType
  <1> QED  BY <1>2, <1>3, <1>4, <1>5 DEF I

\* A turn at an iterator other than the end keeps the invariant and leaves fewer turns.
LEMMA FastRemoveStepKeeps ==
    ASSUME NEW ms, NEW B \in Stretch, B.first < End, NEW st, FastRemoveInv(st, ms, B),
           st.it # End, \A x \in Nat : FCovers(ms, x) => x < End
    PROVE  /\ FastRemoveInv(fastRemoveVisit(st, B), ms, B)
           /\ TurnsLeft(st, B) \in Nat /\ TurnsLeft(fastRemoveVisit(st, B), B) \in Nat
           /\ TurnsLeft(fastRemoveVisit(st, B), B) < TurnsLeft(st, B)
  <1> DEFINE m == st.ms
             it == st.it
             A == m[it]
             c == truncate(A, B.first, B.last)
             cut == insert(erase(m, it), c)
             r == fastRemoveVisit(st, B)
             t == successor(m, it)
             N(p) == Cardinality(Inside(p, B))
  <1>1. /\ FGood(m) /\ it \in Nat /\ it < End /\ it \in DOMAIN m
        /\ \A k \in DOMAIN m : (k < it => Outside(m[k], B)) /\ (k > it => k > B.first)
        /\ \A x \in Nat : FCovers(m, x) => FCovers(ms, x)
    BY MaxMonadAssumption DEF FastRemoveInv, End
  <1>2. /\ \A k \in DOMAIN m : /\ k \in Nat /\ 1 <= k /\ k < End /\ m[k].first = k
                               /\ m[k].last \in Nat /\ k <= m[k].last
        /\ \A j, k \in DOMAIN m : j < k => m[j].last + 1 < k
        /\ End \in Nat
    BY <1>1, MapParts
  <1>3. B.first \in Nat /\ B.last \in Nat /\ 1 <= B.first /\ B.first <= B.last
    BY StretchTypes
  <1>4. A \in Stretch /\ A.first = it /\ A.last \in Nat /\ it <= A.last
    BY <1>1, <1>2 DEF FGood
  <1>5. A.last < End
    <2>1. In(A, A.last)
      BY <1>4 DEF In
    <2> QED  BY <1>1, <1>4, <2>1 DEF FCovers
  <1>6. /\ t \in Nat /\ it < t /\ t <= End /\ (t # End => t \in DOMAIN m)
        /\ \A k \in DOMAIN m : k > it => t <= k
    BY <1>1, GoodIsKeyed, UpperBound DEF Above, successor
  <1>7. t # End => A.last + 1 < t /\ t > B.first
    BY <1>1, <1>2, <1>6
  <1>8. N(m) \in Nat
    <2>1. Inside(m, B) \in SUBSET (DOMAIN m)
      BY DEF Inside
    <2> QED  BY <1>1, <2>1, GoodIsKeyed, FiniteKeys
  <1>9. TurnsLeft(st, B) = 2 * N(m) + (IF it < B.first THEN 1 ELSE 0) + 1
    BY DEF TurnsLeft
  <1>10. TurnsLeft(st, B) \in Nat /\ TurnsLeft(st, B) >= 1
    <2> HIDE DEF N
    <2> QED  BY <1>8, <1>9
  <1>11. \A k \in DOMAIN m : k < t => k < it \/ k = it
    <2> HIDE DEF m, it, t
    <2> QED  BY <1>1, <1>2, <1>6
  <1>12. SUFFICES /\ FastRemoveInv(r, ms, B)
                  /\ TurnsLeft(r, B) \in Nat /\ TurnsLeft(r, B) < TurnsLeft(st, B)
    BY <1>10
  <1>13. \A p, u : TurnsLeft([ms |-> p, it |-> u], B)
                      = IF u = End THEN 0 ELSE 2 * N(p) + (IF u < B.first THEN 1 ELSE 0) + 1
    BY DEF TurnsLeft
  <1>14. \A p, u : r = [ms |-> p, it |-> u] /\ u = End => TurnsLeft(r, B) = 0
    BY <1>13
  <1>15. \/ A.last < B.first /\ r = [ms |-> m, it |-> t]
         \/ ~(A.last < B.first) /\ A.first > B.last /\ r = [ms |-> m, it |-> End]
         \/ /\ ~(A.last < B.first) /\ ~(A.first > B.last) /\ A.first >= B.first /\ A.last <= B.last
            /\ r = [ms |-> erase(m, it), it |-> careful(erase(m, it), B.first)]
         \/ /\ A.first < B.first /\ A.last > B.last
            /\ r = [ms |-> insert(cut, MSE(B.last + 1, A.last)), it |-> End]
         \/ /\ ~(A.last < B.first) /\ ~(A.first > B.last)
            /\ ~(A.first >= B.first /\ A.last <= B.last)
            /\ ~(A.first < B.first /\ A.last > B.last)
            /\ r = [ms |-> cut, it |-> t]
    BY FastRemoveTurn
  <1> HIDE DEF m, it, A, c, cut, r, t, N
  \* 1
  <1>16. CASE A.last < B.first /\ r = [ms |-> m, it |-> t]
    <2>1. \A k \in DOMAIN m : k < t => Outside(m[k], B)
      BY <1>1, <1>11, <1>16 DEF Outside, A
    <2>2. \A k \in DOMAIN m : k > t => k > B.first
      BY <1>1, <1>2, <1>6
    <2>3. FastRemoveInv(r, ms, B)
      BY <1>1, <1>6, <1>16, <2>1, <2>2, RemoveStateMade DEF m
    <2>4. TurnsLeft(r, B) = IF t = End THEN 0 ELSE 2 * N(m) + (IF t < B.first THEN 1 ELSE 0) + 1
      BY <1>13, <1>16
    <2>5. it < B.first
      BY <1>1, <1>3, <1>4, <1>16
    <2> QED  BY <1>3, <1>6, <1>7, <1>8, <1>9, <2>3, <2>4, <2>5
  \* 5
  <1>17. CASE ~(A.last < B.first) /\ A.first > B.last /\ r = [ms |-> m, it |-> End]
    <2>1. \A k \in DOMAIN m : Outside(m[k], B)
      <3> SUFFICES ASSUME NEW k \in DOMAIN m PROVE Outside(m[k], B)
        OBVIOUS
      <3>1. k < it \/ k >= it
        BY <1>1, <1>2
      <3>2. k >= it => m[k].first > B.last
        BY <1>1, <1>2, <1>3, <1>4, <1>17
      <3> QED  BY <1>1, <3>1, <3>2 DEF Outside
    <2>2. \A k \in DOMAIN m : k > End => k > B.first
      BY <1>2
    <2>3. FastRemoveInv(r, ms, B)
      BY <1>1, <1>2, <1>17, <2>1, <2>2, RemoveStateMade DEF m
    <2> QED  BY <1>10, <1>14, <1>17, <2>3
  \* 3
  <1>18. CASE /\ A.first >= B.first /\ A.last <= B.last
              /\ r = [ms |-> erase(m, it), it |-> careful(erase(m, it), B.first)]
    <2> DEFINE p == erase(m, it)
               u == careful(p, B.first)
    <2>1. /\ FGood(p) /\ DOMAIN p = DOMAIN m \ {it}
          /\ \A k \in DOMAIN m : k # it => p[k] = m[k]
          /\ \A x \in Nat : FCovers(p, x) <=> FCovers(m, x) /\ ~In(A, x)
      BY <1>1, ErasedMap DEF A
    <2>2. r = [ms |-> p, it |-> u]
      BY <1>18
    <2> HIDE DEF p
    <2>3. CarefulAt(p, B.first, u)
      BY <1>3, <2>1, CarefulStart
    <2> HIDE DEF u
    <2>4. /\ u \in Nat /\ u <= End /\ (u # End => u \in DOMAIN p)
          /\ \A k \in DOMAIN p : (k < u => u <= B.first) /\ (k > u => k > B.first)
      BY <2>3 DEF CarefulAt
    <2>5. ASSUME NEW k \in DOMAIN p, k < u PROVE Outside(p[k], B)
      <3>1. u <= B.first /\ u \in DOMAIN p
        BY <1>2, <2>3, <2>4, <2>5 DEF CarefulAt
      <3>2. p[k].last + 1 < u /\ p[k].last \in Nat
        BY <2>1, <2>5, <3>1, MapParts
      <3> QED  BY <1>3, <2>4, <3>1, <3>2 DEF Outside
    <2>6. \A x \in Nat : In(A, x) => In(B, x)
      BY <1>1, <1>3, <1>4, <1>18 DEF In
    <2>7. \A x \in Nat : /\ FCovers(p, x) => FCovers(m, x)
                         /\ FCovers(m, x) /\ ~In(B, x) => FCovers(p, x)
      BY <2>1, <2>6
    <2>8. FastRemoveInv([ms |-> p, it |-> u], ms, B)
      BY <2>1, <2>4, <2>5, <2>7, RemoveStateMade DEF m
    <2>9. Inside(p, B) = Inside(m, B) \ {it} /\ it \in Inside(m, B)
      BY <1>1, <1>3, <1>4, <1>18, <2>1 DEF Inside
    <2>10. N(p) \in Nat /\ N(p) = N(m) - 1
      BY <1>1, <2>9, FewerInside DEF N
    <2>11. TurnsLeft(r, B) = IF u = End THEN 0 ELSE 2 * N(p) + (IF u < B.first THEN 1 ELSE 0) + 1
      BY <1>13, <2>2
    <2> QED  BY <1>8, <1>9, <2>2, <2>8, <2>10, <2>11
  \* 6
  <1>19. CASE /\ A.first < B.first /\ A.last > B.last
              /\ r = [ms |-> insert(cut, MSE(B.last + 1, A.last)), it |-> End]
    <2> DEFINE d == MSE(B.last + 1, A.last)
               p == insert(cut, d)
    <2>1. c = MSE(it, B.first - 1)
      BY <1>4, <1>19, TruncateStretch, StretchIsSpan DEF c
    <2>2. c \in Stretch /\ c.first = it /\ c.last = B.first - 1
      BY <1>2, <1>1, <1>3, <1>4, <1>19, <2>1, StretchTypes
    <2>3. d \in Stretch /\ d.first = B.last + 1 /\ d.last = A.last
      BY <1>3, <1>4, <1>19, StretchTypes
    <2>4. /\ FGood(cut) /\ DOMAIN cut = (DOMAIN m \ {it}) \cup {it}
          /\ cut[it] = c /\ \A j \in DOMAIN m : j # it => cut[j] = m[j]
          /\ \A x \in Nat : FCovers(cut, x) <=> (FCovers(m, x) /\ ~In(A, x)) \/ In(c, x)
      <3>1. it <= c.first /\ c.last <= m[it].last /\ c.first < End
        BY <1>1, <1>3, <1>4, <1>19, <2>2 DEF A
      <3>2. /\ FGood(cut) /\ DOMAIN cut = (DOMAIN m \ {it}) \cup {c.first}
            /\ cut[c.first] = c /\ \A j \in DOMAIN m : j # it => cut[j] = m[j]
            /\ \A x \in Nat : FCovers(cut, x) <=> (FCovers(m, x) /\ ~In(A, x)) \/ In(c, x)
        <4> HIDE DEF d, p
        <4>1. c \in Stretch /\ it \in DOMAIN m /\ FGood(m)
          BY <1>1, <2>2
        <4> QED  BY <3>1, <4>1, CutMap DEF cut, A
      <3> QED  BY <2>2, <3>2
    <2> HIDE DEF d, p
    <2>5. \A k \in DOMAIN cut : cut[k].last + 1 < d.first \/ d.last + 1 < k
      <3> SUFFICES ASSUME NEW k \in DOMAIN cut PROVE cut[k].last + 1 < d.first \/ d.last + 1 < k
        OBVIOUS
      <3>1. CASE k = it
        BY <1>3, <2>2, <2>3, <2>4, <3>1
      <3>2. CASE k # it
        <4>1. k \in DOMAIN m /\ cut[k] = m[k]
          BY <2>4, <3>2
        <4>2. /\ k \in Nat /\ m[k].last \in Nat /\ k <= m[k].last
              /\ (k < it => m[k].last + 1 < it) /\ (it < k => A.last + 1 < k)
          BY <1>1, <1>2, <4>1 DEF A
        <4> QED  BY <1>1, <1>3, <1>4, <1>19, <2>3, <3>2, <4>1, <4>2
      <3> QED  BY <3>1, <3>2
    <2>6. d.first < End
      BY <1>2, <1>3, <1>4, <1>5, <1>19, <2>3
    <2>7. /\ FGood(p) /\ DOMAIN p = DOMAIN cut \cup {d.first} /\ p[d.first] = d
          /\ \A k \in DOMAIN cut : p[k] = cut[k]
          /\ \A x : FCovers(p, x) <=> FCovers(cut, x) \/ In(d, x)
      BY <2>3, <2>4, <2>5, <2>6, InsertedMap DEF p
    <2>8. ASSUME NEW k \in DOMAIN p PROVE Outside(p[k], B)
      <3>1. CASE k = d.first
        BY <1>3, <2>3, <2>7, <3>1 DEF Outside
      <3>2. CASE k = it
        BY <1>3, <2>2, <2>4, <2>7, <3>2 DEF Outside
      <3>3. CASE k # d.first /\ k # it
        <4>1. k \in DOMAIN m /\ p[k] = m[k]
          BY <2>4, <2>7, <3>3
        <4>2. k \in Nat /\ m[k].first = k /\ (it < k => A.last + 1 < k)
          BY <1>1, <1>2, <4>1 DEF A
        <4>3. k < it => Outside(m[k], B)
          BY <1>1, <4>1
        <4>4. it < k => m[k].first > B.last
          BY <1>3, <1>4, <1>19, <4>2
        <4> QED  BY <1>1, <3>3, <4>1, <4>2, <4>3, <4>4 DEF Outside
      <3> QED  BY <3>1, <3>2, <3>3
    <2>9. \A x \in Nat : In(c, x) \/ In(d, x) <=> In(A, x) /\ ~In(B, x)
      BY <1>3, <1>4, <1>1, <1>19, <2>2, <2>3 DEF In
    <2>10. \A x \in Nat : In(A, x) => FCovers(m, x)
      BY <1>1 DEF FCovers, A
    <2>11. \A x \in Nat : /\ FCovers(p, x) => FCovers(m, x)
                          /\ FCovers(m, x) /\ ~In(B, x) => FCovers(p, x)
      BY <2>4, <2>7, <2>9, <2>10
    <2>12. \A k \in DOMAIN p : k > End => k > B.first
      <3>1. \A k \in DOMAIN p : k \in Nat /\ k < End
        BY <2>7, MapParts
      <3> QED  BY <1>2, <3>1
    <2>13. FastRemoveInv([ms |-> p, it |-> End], ms, B)
      BY <1>2, <2>7, <2>8, <2>11, <2>12, RemoveStateMade DEF m
    <2>14. r = [ms |-> p, it |-> End]
      BY <1>19 DEF p, d
    <2> QED  BY <1>10, <1>14, <2>13, <2>14
  \* 2 and 4
  <1>20. CASE /\ ~(A.last < B.first) /\ ~(A.first > B.last)
              /\ ~(A.first >= B.first /\ A.last <= B.last)
              /\ ~(A.first < B.first /\ A.last > B.last)
              /\ r = [ms |-> cut, it |-> t]
    <2>1. \/ /\ it < B.first /\ c = MSE(it, B.first - 1) /\ c.first = it /\ c.last = B.first - 1
             /\ A.last <= B.last
          \/ /\ it >= B.first /\ c = MSE(B.last + 1, A.last) /\ c.first = B.last + 1
             /\ c.last = A.last /\ A.last > B.last /\ it <= B.last
      <3>1. CASE it < B.first
        BY <1>3, <1>4, <1>1, <1>20, <3>1, TruncateStretch, StretchIsSpan, StretchTypes DEF c
      <3>2. CASE it >= B.first
        BY <1>3, <1>4, <1>1, <1>20, <3>2, TruncateStretch, StretchIsSpan, StretchTypes DEF c
      <3> QED  BY <1>1, <1>3, <3>1, <3>2
    <2>2. c \in Stretch /\ it <= c.first /\ c.last <= A.last
      <3>1. \A f, l \in Nat : 1 <= f /\ f <= l => MSE(f, l) \in Stretch
        BY StretchTypes
      <3>2. 1 <= it
        BY <1>1, <1>2
      <3>3. CASE it < B.first /\ c = MSE(it, B.first - 1) /\ c.first = it /\ c.last = B.first - 1
        <4>1. B.first - 1 \in Nat /\ it <= B.first - 1
          BY <1>1, <1>3, <3>3
        <4> QED  BY <1>1, <1>4, <1>20, <3>1, <3>2, <3>3, <1>3, <4>1
      <3>4. CASE /\ it >= B.first /\ c = MSE(B.last + 1, A.last) /\ c.first = B.last + 1
                 /\ c.last = A.last /\ A.last > B.last /\ it <= B.last
        <4>1. B.last + 1 \in Nat /\ 1 <= B.last + 1 /\ B.last + 1 <= A.last
          BY <1>3, <1>4, <3>4
        <4> QED  BY <1>1, <1>3, <1>4, <3>1, <3>4, <4>1
      <3> QED  BY <2>1, <3>3, <3>4
    <2>3. c.first < End /\ c.first \in Nat /\ c.last \in Nat
      BY <1>1, <1>2, <1>3, <1>4, <1>5, <2>1, <2>2, StretchTypes
    <2>4. /\ FGood(cut) /\ DOMAIN cut = (DOMAIN m \ {it}) \cup {c.first}
          /\ cut[c.first] = c /\ \A j \in DOMAIN m : j # it => cut[j] = m[j]
          /\ \A x \in Nat : FCovers(cut, x) <=> (FCovers(m, x) /\ ~In(A, x)) \/ In(c, x)
      BY <1>1, <2>2, <2>3, CutMap DEF cut, A
    <2>5. Outside(c, B)
      BY <1>3, <2>1 DEF Outside
    <2>6. \A x \in Nat : In(c, x) <=> In(A, x) /\ ~In(B, x)
      BY <1>1, <1>3, <1>4, <1>20, <2>1 DEF In
    <2>7. \A x \in Nat : In(A, x) => FCovers(m, x)
      BY <1>1 DEF FCovers, A
    <2>8. \A x \in Nat : /\ FCovers(cut, x) => FCovers(m, x)
                         /\ FCovers(m, x) /\ ~In(B, x) => FCovers(cut, x)
      BY <2>4, <2>6, <2>7
    <2>9. t # End => t \in DOMAIN cut
      BY <1>1, <1>6, <2>4
    <2>10. ASSUME NEW k \in DOMAIN cut PROVE (k < t => Outside(cut[k], B)) /\ (k > t => k > B.first)
      <3>1. CASE k = c.first
        <4>1. k > t => k > B.first
          BY <1>2, <1>4, <1>6, <1>7, <1>3, <2>1, <2>2, <2>3, <1>5, <3>1
        <4> QED  BY <2>4, <2>5, <3>1, <4>1
      <3>2. CASE k # c.first
        <4>1. k \in DOMAIN m /\ k # it /\ cut[k] = m[k]
          BY <2>4, <3>2
        <4> QED  BY <1>1, <1>2, <1>6, <1>11, <4>1
      <3> QED  BY <3>1, <3>2
    <2>11. FastRemoveInv([ms |-> cut, it |-> t], ms, B)
      BY <1>6, <2>4, <2>8, <2>9, <2>10, RemoveStateMade DEF m
    <2>12. TurnsLeft(r, B) = IF t = End THEN 0 ELSE 2 * N(cut) + (IF t < B.first THEN 1 ELSE 0) + 1
      BY <1>13, <1>20
    <2>13. Inside(cut, B) = Inside(m, B) \ {it} \/ (it < B.first /\ Inside(cut, B) = Inside(m, B))
      <3>1. CASE it < B.first /\ c.first = it
        <4>1. DOMAIN cut = DOMAIN m
          BY <1>1, <2>4, <3>1
        <4> QED  BY <3>1, <4>1 DEF Inside
      <3>2. CASE it >= B.first /\ c.first = B.last + 1
        <4>1. ~(c.first <= B.last)
          BY <1>3, <3>2
        <4> QED  BY <2>4, <4>1 DEF Inside
      <3> QED  BY <2>1, <3>1, <3>2
    <2>14. it < B.first => it \notin Inside(m, B)
      BY <1>1, <1>3 DEF Inside
    <2>15. it >= B.first => it \in Inside(m, B)
      BY <1>1, <1>3, <2>1 DEF Inside
    <2>16. N(cut) \in Nat /\ (it < B.first => N(cut) = N(m)) /\ (it >= B.first => N(cut) = N(m) - 1)
      <3>1. CASE Inside(cut, B) = Inside(m, B) \ {it}
        BY <1>1, <2>14, <2>15, <3>1, FewerInside DEF N
      <3>2. CASE it < B.first /\ Inside(cut, B) = Inside(m, B)
        BY <1>1, <1>3, <1>8, <3>2 DEF N
      <3> QED  BY <2>13, <3>1, <3>2
    <2>17. FastRemoveInv(r, ms, B)
      BY <1>20, <2>11
    <2> QED  BY <1>1, <1>3, <1>6, <1>7, <1>8, <1>9, <2>12, <2>16, <2>17
  <1> QED  BY <1>15, <1>16, <1>17, <1>18, <1>19, <1>20

\* The bounds that are read off a map.
LEMMA MapEnds ==
    ASSUME NEW ms, FGood(ms), DOMAIN ms # {}
    PROVE  FRep(Fast(ms, ms[begin(ms)].first, ms[rbegin(ms)].last))
  <1> DEFINE bg == begin(ms)
             r == rbegin(ms)
             l == ms[r].last
  <1>1. /\ \A k \in DOMAIN ms : /\ k \in Nat /\ 1 <= k /\ ms[k].first = k /\ ms[k].last \in Nat
                                /\ k <= ms[k].last
        /\ \A j, k \in DOMAIN ms : j < k => ms[j].last + 1 < k
    BY MapParts
  <1>2. bg \in DOMAIN ms /\ \A j \in DOMAIN ms : bg <= j
    BY GoodIsKeyed, Beginning
  <1>3. r \in DOMAIN ms /\ \A j \in DOMAIN ms : j <= r
    BY <1>1, GoodIsKeyed, Preceding
  <1> HIDE DEF bg, r
  <1>4. ms[bg].first = bg /\ bg \in Nat /\ l \in Nat
    BY <1>1, <1>2, <1>3
  <1>5. FCovers(ms, bg) /\ FCovers(ms, l)
    BY <1>1, <1>2, <1>3 DEF FCovers, In
  <1>6. ASSUME NEW x \in Nat, FCovers(ms, x) PROVE bg <= x /\ x <= l
    <2>1. PICK k \in DOMAIN ms : ms[k].first <= x /\ x <= ms[k].last
      BY <1>6 DEF FCovers, In
    <2>2. k = r => ms[k].last = l
      OBVIOUS
    <2>4. r <= l /\ r \in Nat /\ k <= r /\ k \in Nat /\ ms[k].last \in Nat
          /\ (k < r => ms[k].last + 1 < r)
      BY <1>1, <1>3
    <2> HIDE DEF l
    <2>3. k # r => ms[k].last <= l
      BY <1>4, <2>4
    <2> QED  BY <1>1, <1>2, <1>4, <2>1, <2>2, <2>3
  <1>7. FRep(Fast(ms, bg, l))
    <2> HIDE DEF l
    <2> QED  BY <1>4, <1>5, <1>6, MakeFast
  <1> QED  BY <1>4, <1>7 DEF bg, r

\* A fold whose step takes an argument.
LEMMA TurnsFold ==
    ASSUME NEW q, DOMAIN q = 1 .. Len(q), NEW base, NEW B
    PROVE  FoldLeft(LAMBDA st, turn : fastRemoveVisit(st, B), base, q)
              = FastTurnRun(q, base, B)[1 .. Len(q)]
  BY FastLoopsAreFolds, Zenon

\* removeMSE of FastSetOfMonads removes the monads of the range.
LEMMA FastRemoveRep ==
    ASSUME NEW s, FRep(s), \A x \in Nat : FCovers(s.ms, x) => x < End,
           NEW B \in Stretch, B.first < End
    PROVE  /\ FRep(fastRemoveMSE(s, B))
           /\ \A x \in Nat : FCovers(fastRemoveMSE(s, B).ms, x) <=> FCovers(s.ms, x) /\ ~In(B, x)
  <1> DEFINE ms == s.ms
             c == careful(ms, B.first)
             base == [ms |-> ms, it |-> c]
             turns == 2 * Cardinality(DOMAIN ms) + 2
             q == [turn \in 1 .. turns |-> turn]
             t(k) == FastTurnRun(q, base, B)[1 .. k]
             m == t(turns).ms
             S == {k \in 0 .. turns :
                      /\ FastRemoveInv(t(k), ms, B)
                      /\ t(k).it # End => TurnsLeft(t(k), B) \in Nat /\ TurnsLeft(t(k), B) + k <= turns}
  <1>1. FGood(ms) /\ B.first \in Nat /\ B.last \in Nat /\ B.first <= B.last
    BY StretchTypes DEF FRep
  <1>2. IsFiniteSet(DOMAIN ms) /\ Cardinality(DOMAIN ms) \in Nat /\ turns \in Nat
    BY <1>1, GoodIsKeyed, FiniteKeys
  <1>3. q \in Seq(Nat) /\ Len(q) = turns /\ DOMAIN q = 1 .. turns
    <2> HIDE DEF turns
    <2> QED  BY <1>2
  <1> HIDE DEF q
  <1>4. fastRemoveMSE(s, B) = IF fastIsEmpty(s) THEN s
                              ELSE IF DOMAIN m = {} THEN EmptyFast
                              ELSE Fast(m, m[begin(m)].first, m[rbegin(m)].last)
    <2> DEFINE Visit(st, turn) == fastRemoveVisit(st, B)
               f == FoldLeft(Visit, base, q).ms
    <2>1. fastRemoveMSE(s, B) = IF fastIsEmpty(s) THEN s
                                ELSE IF DOMAIN f = {} THEN EmptyFast
                                ELSE Fast(f, f[begin(f)].first, f[rbegin(f)].last)
      BY Zenon DEF fastRemoveMSE, q
    <2>2. FoldLeft(Visit, base, q) = FastTurnRun(q, base, B)[1 .. Len(q)]
      <3> HIDE DEF base
      <3> QED  BY <1>3, TurnsFold, Zenon
    <2>3. f = m
      BY <1>3, <2>2, Zenon
    <2> HIDE DEF f, m
    <2> QED  BY <2>1, <2>3, Zenon
  <1>5. CASE fastIsEmpty(s)
    <2>1. DOMAIN ms = {}
      BY <1>5 DEF fastIsEmpty
    <2>2. \A x : ~FCovers(ms, x)
      BY <2>1 DEF FCovers
    <2>3. fastRemoveMSE(s, B) = s
      BY <1>4, <1>5
    <2> QED  BY <2>2, <2>3
  <1>6. CASE ~fastIsEmpty(s)
    <2>1. DOMAIN ms # {}
      BY <1>6 DEF fastIsEmpty
    <2>2. /\ c \in Nat /\ c <= End /\ (c # End => c \in DOMAIN ms)
          /\ \A j \in DOMAIN ms : j < c => c \in DOMAIN ms /\ c <= B.first
          /\ \A j \in DOMAIN ms : j > c => j > B.first
      BY <1>1, <2>1, CarefulStart DEF CarefulAt
    <2> HIDE DEF c
    <2>3. base.ms = ms /\ base.it = c /\ base = [ms |-> base.ms, it |-> base.it]
      OBVIOUS
    <2> HIDE DEF base
    <2>4. \A k \in DOMAIN ms : k < c => Outside(ms[k], B)
      <3> SUFFICES ASSUME NEW k \in DOMAIN ms, k < c PROVE Outside(ms[k], B)
        OBVIOUS
      <3>1. ms[k].last + 1 < c /\ ms[k].last \in Nat
        BY <1>1, <2>2, MapParts
      <3> QED  BY <1>1, <2>2, <3>1 DEF Outside
    <2>5. FastRemoveInv(base, ms, B)
      <3> HIDE DEF ms
      <3> QED  BY <1>1, <2>2, <2>3, <2>4 DEF FastRemoveInv
    <2>6. base.it # End => TurnsLeft(base, B) \in Nat /\ TurnsLeft(base, B) <= turns
      <3> DEFINE N == Cardinality(Inside(ms, B))
                 D == Cardinality(DOMAIN ms)
      <3>1. Inside(ms, B) \in SUBSET (DOMAIN ms)
        BY DEF Inside
      <3>2. N \in Nat /\ N <= D /\ D \in Nat
        BY <1>2, <3>1, FS_Subset, FS_CardinalityType
      <3>3. c # End => TurnsLeft(base, B) = 2 * N + (IF c < B.first THEN 1 ELSE 0) + 1
        BY <2>3 DEF TurnsLeft
      <3>4. turns = 2 * D + 2
        OBVIOUS
      <3> HIDE DEF N, D, turns
      <3> QED  BY <2>3, <3>2, <3>3, <3>4
    <2>7. t(0) = base /\ \A k \in 1 .. turns : t(k) = fastRemoveVisit(t(k - 1), B)
      <3> HIDE DEF turns
      <3> QED  BY <1>2, <1>3, FastTurnChain
    <2> HIDE DEF turns, t
    <2>8. 0 \in S
      BY <1>2, <2>5, <2>6, <2>7
    <2>9. ASSUME NEW k \in 1 .. turns, k - 1 \in S PROVE k \in S
      <3> DEFINE st == t(k - 1)
                 w == TurnsLeft(st, B)
                 w2 == TurnsLeft(t(k), B)
      <3>1. FastRemoveInv(st, ms, B) /\ (st.it # End => w \in Nat /\ w + (k - 1) <= turns)
        BY <2>9
      <3>2. t(k) = fastRemoveVisit(st, B)
        BY <2>7
      <3>3. CASE st.it = End
        <4>1. t(k) = st
          BY <3>2, <3>3 DEF fastRemoveVisit
        <4> HIDE DEF st
        <4> QED  BY <1>2, <3>1, <3>3, <4>1
      <3>4. CASE st.it # End
        <4>1. FastRemoveInv(t(k), ms, B) /\ w2 \in Nat /\ w2 < w
          <5> HIDE DEF ms, st, S
          <5> QED  BY <3>1, <3>2, <3>4, FastRemoveStepKeeps DEF ms
        <4> HIDE DEF w
        <4>2. w2 \in Nat /\ w2 + k <= turns
          <5> HIDE DEF w2
          <5> QED  BY <1>2, <3>1, <3>4, <4>1
        <4> QED  BY <1>2, <4>1, <4>2
      <3> QED  BY <3>3, <3>4
    <2>10. turns \in S
      <3> HIDE DEF S
      <3>1. \A k \in 0 .. turns : k \in S
        BY <1>2, <2>8, <2>9, UpTo
      <3> QED  BY <1>2, <3>1
    <2> DEFINE st == t(turns)
    <2>11. FastRemoveInv(st, ms, B) /\ st.it = End
      <3>1. FastRemoveInv(st, ms, B)
            /\ (st.it # End => TurnsLeft(st, B) \in Nat /\ TurnsLeft(st, B) + turns <= turns)
        BY <2>10
      <3>2. ASSUME st.it # End PROVE FALSE
        <4> DEFINE N == Cardinality(Inside(st.ms, B))
        <4>1. FGood(st.ms) /\ Inside(st.ms, B) \in SUBSET (DOMAIN st.ms)
          BY <3>1 DEF FastRemoveInv, Inside
        <4>2. N \in Nat
          BY <4>1, GoodIsKeyed, FiniteKeys
        <4>3. TurnsLeft(st, B) = 2 * N + (IF st.it < B.first THEN 1 ELSE 0) + 1
          BY <3>2 DEF TurnsLeft
        <4>4. TurnsLeft(st, B) + turns <= turns
          BY <3>1, <3>2
        <4> HIDE DEF N, st
        <4> QED  BY <1>2, <4>2, <4>3, <4>4
      <3> QED  BY <3>1, <3>2
    <2>12. /\ FGood(m)
           /\ \A x \in Nat : /\ FCovers(m, x) => FCovers(ms, x)
                             /\ FCovers(ms, x) /\ ~In(B, x) => FCovers(m, x)
           /\ \A k \in DOMAIN m : k < End => Outside(m[k], B)
      BY <2>11 DEF FastRemoveInv
    <2> HIDE DEF m
    <2>13. \A x \in Nat : FCovers(m, x) => ~In(B, x)
      <3> SUFFICES ASSUME NEW x \in Nat, NEW k \in DOMAIN m, In(m[k], x), In(B, x) PROVE FALSE
        BY DEF FCovers
      <3>1. k < End /\ m[k].first \in Nat /\ m[k].last \in Nat
        BY <2>12, MapParts
      <3> QED  BY <1>1, <2>12, <3>1 DEF Outside, In
    <2>14. \A x \in Nat : FCovers(m, x) <=> FCovers(ms, x) /\ ~In(B, x)
      BY <2>12, <2>13
    <2>15. CASE DOMAIN m = {}
      <3>1. fastRemoveMSE(s, B) = EmptyFast
        BY <1>4, <1>6, <2>15
      <3>2. \A x : ~FCovers(m, x) /\ ~FCovers(EmptyFast.ms, x)
        BY <2>15, EmptyFastRep DEF FCovers
      <3> QED  BY <2>14, <3>1, <3>2, EmptyFastRep
    <2>16. CASE DOMAIN m # {}
      <3>1. fastRemoveMSE(s, B) = Fast(m, m[begin(m)].first, m[rbegin(m)].last)
        BY <1>4, <1>6, <2>16
      <3>2. FRep(Fast(m, m[begin(m)].first, m[rbegin(m)].last))
        BY <2>12, <2>16, MapEnds
      <3>3. Fast(m, m[begin(m)].first, m[rbegin(m)].last).ms = m
        BY FastFields
      <3> QED  BY <2>14, <3>1, <3>2, <3>3
    <2> QED  BY <2>15, <2>16
  <1> QED  BY <1>5, <1>6

-----------------------------------------------------------------------------
\* A set in both classes

\* Two lists with the same ranges in ascending order are one.
LEMMA SameAscending ==
    ASSUME NEW p, Good(p), NEW q, Good(q),
           \A i \in 1 .. Len(p) : \E j \in 1 .. Len(q) : p[i] = q[j],
           \A j \in 1 .. Len(q) : \E i \in 1 .. Len(p) : p[i] = q[j]
    PROVE  p = q
  <1> DEFINE m == Len(p)
             n == Len(q)
             S == {k \in 0 .. m : \A i \in 1 .. k : i <= n /\ p[i] = q[i]}
             T == {k \in 0 .. n : \A i \in 1 .. k : i <= m /\ p[i] = q[i]}
  <1>1. m \in Nat /\ n \in Nat /\ p \in Seq(Stretch) /\ q \in Seq(Stretch)
    BY ListEnds
  <1>2. /\ \A i \in 1 .. m : p[i].first \in Nat
        /\ \A i, j \in 1 .. m : i < j => p[i].first < p[j].first
        /\ \A i \in 1 .. n : q[i].first \in Nat
        /\ \A i, j \in 1 .. n : i < j => q[i].first < q[j].first
    <2>1. /\ \A i \in 1 .. m : p[i].first \in Nat /\ p[i].last \in Nat /\ p[i].first <= p[i].last
          /\ \A i, j \in 1 .. m : i < j => p[i].last + 1 < p[j].first
      BY ListAscends
    <2>2. /\ \A i \in 1 .. n : q[i].first \in Nat /\ q[i].last \in Nat /\ q[i].first <= q[i].last
          /\ \A i, j \in 1 .. n : i < j => q[i].last + 1 < q[j].first
      BY ListAscends
    <2> HIDE DEF m, n
    <2>3. \A i, j \in 1 .. m : i < j => p[i].first < p[j].first
      <3> SUFFICES ASSUME NEW i \in 1 .. m, NEW j \in 1 .. m, i < j PROVE p[i].first < p[j].first
        OBVIOUS
      <3>1. /\ p[i].first \in Nat /\ p[i].last \in Nat /\ p[i].first <= p[i].last
            /\ p[i].last + 1 < p[j].first /\ p[j].first \in Nat
        BY <2>1
      <3> QED  BY <3>1
    <2>4. \A i, j \in 1 .. n : i < j => q[i].first < q[j].first
      <3> SUFFICES ASSUME NEW i \in 1 .. n, NEW j \in 1 .. n, i < j PROVE q[i].first < q[j].first
        OBVIOUS
      <3>1. /\ q[i].first \in Nat /\ q[i].last \in Nat /\ q[i].first <= q[i].last
            /\ q[i].last + 1 < q[j].first /\ q[j].first \in Nat
        BY <2>2
      <3> QED  BY <3>1
    <2> QED  BY <2>1, <2>2, <2>3, <2>4
  <1>3. /\ \A i \in 1 .. m : \E j \in 1 .. n : p[i] = q[j]
        /\ \A j \in 1 .. n : \E i \in 1 .. m : p[i] = q[j]
    OBVIOUS
  <1> HIDE DEF m, n
  <1>4. 0 \in S
    BY <1>1
  <1>5. ASSUME NEW k \in 1 .. m, k - 1 \in S PROVE k \in S
    <2>1. \A i \in 1 .. (k - 1) : i <= n /\ p[i] = q[i]
      BY <1>5
    <2>2. PICK j \in 1 .. n : p[k] = q[j]
      BY <1>3
    <2>3. ~(j < k)
      <3> SUFFICES ASSUME j < k PROVE FALSE
        OBVIOUS
      <3>1. j \in 1 .. (k - 1) /\ j \in 1 .. m /\ j < k
        BY <1>1
      <3>2. p[j] = p[k]
        BY <2>1, <2>2, <3>1
      <3>3. p[j].first < p[k].first
        BY <1>2, <3>1
      <3> QED  BY <1>2, <3>1, <3>2, <3>3
    <2>4. k \in 1 .. n
      BY <1>1, <2>3
    <2>5. PICK h \in 1 .. m : p[h] = q[k]
      BY <1>3, <2>4
    <2>6. ~(h < k)
      <3> SUFFICES ASSUME h < k PROVE FALSE
        OBVIOUS
      <3>1. h \in 1 .. (k - 1) /\ h \in 1 .. n /\ h < k
        BY <1>1, <2>4
      <3>2. q[h] = q[k]
        BY <2>1, <2>5, <3>1
      <3>3. q[h].first < q[k].first
        BY <1>2, <2>4, <3>1
      <3> QED  BY <1>2, <2>4, <3>2, <3>3
    <2>7. h = k
      <3> SUFFICES ASSUME h # k PROVE FALSE
        OBVIOUS
      <3>1. k < h
        BY <1>1, <2>6
      <3>2. p[k].first < p[h].first
        BY <1>2, <3>1
      <3>3. k < j => q[k].first < q[j].first
        BY <1>2, <2>4
      <3>4. j = k \/ k < j
        BY <1>1, <2>3
      <3>5. q[k].first \in Nat /\ q[j].first \in Nat
        BY <1>2, <2>4
      <3> QED  BY <2>2, <2>5, <3>2, <3>3, <3>4, <3>5
    <2>8. \A i \in 1 .. k : i = k \/ i \in 1 .. (k - 1)
      BY <1>1
    <2>9. \A i \in 1 .. k : i <= n /\ p[i] = q[i]
      BY <2>1, <2>4, <2>5, <2>7, <2>8, <1>1
    <2> QED  BY <2>9, <1>1
  <1> HIDE DEF S
  <1>6. m \in S
    <2>1. \A k \in 0 .. m : k \in S
      BY <1>1, <1>4, <1>5, UpTo
    <2> QED  BY <1>1, <2>1
  <1>7. \A i \in 1 .. m : i <= n /\ p[i] = q[i]
    BY <1>6 DEF S
  <1>8. n <= m
    <2> SUFFICES ASSUME m < n PROVE FALSE
      BY <1>1
    <2>1. n \in 1 .. n
      BY <1>1
    <2>2. PICK i \in 1 .. m : p[i] = q[n]
      BY <1>3, <2>1
    <2>3. q[i] = q[n] /\ i < n /\ i \in 1 .. n
      BY <1>1, <1>7, <2>2
    <2>4. q[i].first < q[n].first
      BY <1>2, <2>1, <2>3
    <2> QED  BY <1>2, <2>1, <2>3, <2>4
  <1>9. m = n
    <2>1. m # 0 => m <= n
      <3>1. m # 0 => m \in 1 .. m
        BY <1>1
      <3> QED  BY <1>7, <3>1
    <2> QED  BY <1>1, <1>8, <2>1
  <1>10. Len(p) = Len(q) /\ \A i \in 1 .. Len(p) : p[i] = q[i]
    BY <1>7, <1>9 DEF m, n
  <1> QED  BY <1>1, <1>10, EqualStrings

\* What fromSetOfMonads has inserted after k ranges.
InsertedTo(ms, q, k) ==
    /\ FGood(ms) /\ \A j : j \in DOMAIN ms <=> \E i \in 1 .. k : j = q[i].first
    /\ \A i \in 1 .. k : ms[q[i].first] = q[i]
    /\ \A x : FCovers(ms, x) <=> CoversTo(q, k, x)

\* Inserting the ranges of a list, one by one, stores each under its first
\* monad.
LEMMA InsertedAll ==
    ASSUME NEW q, Good(q), \A i \in 1 .. Len(q) : q[i].first < End
    PROVE  InsertedTo(FoldLeft(insert, << >>, q), q, Len(q))
  <1> DEFINE n == Len(q)
             base == << >>
             t(k) == MapInsertRun(q, base)[1 .. k]
             S == {k \in 0 .. n : InsertedTo(t(k), q, k)}
  <1>1. q \in Seq(Stretch) /\ n \in Nat /\ DOMAIN q = 1 .. n
    BY ListEnds
  <1>2. /\ \A i \in 1 .. n : /\ q[i].first \in Nat /\ q[i].last \in Nat /\ q[i].first <= q[i].last
                             /\ q[i] \in Stretch /\ q[i].first < End
        /\ \A i, j \in 1 .. n : i < j => q[i].last + 1 < q[j].first
    BY ListAscends, ListEnds
  <1>3. FoldLeft(insert, << >>, q) = t(n)
    BY <1>1, FastLoopsAreFolds, Zenon
  <1>4. InsertedTo(base, q, 0)
    <2>1. DOMAIN base = {} /\ FGood(base)
      BY DEF FGood
    <2>2. \A x : ~FCovers(base, x) /\ ~CoversTo(q, 0, x)
      BY <2>1 DEF FCovers, CoversTo
    <2> HIDE DEF base
    <2> QED  BY <2>1, <2>2 DEF InsertedTo
  <1> HIDE DEF base
  <1>5. t(0) = base /\ \A k \in 1 .. n : t(k) = insert(t(k - 1), q[k])
    BY <1>1, MapInsertChain
  <1> HIDE DEF t, n
  <1>6. 0 \in S
    BY <1>1, <1>4, <1>5
  <1>7. ASSUME NEW k \in 1 .. n, k - 1 \in S PROVE k \in S
    <2> DEFINE ms == t(k - 1)
               e == q[k]
               r == insert(ms, e)
    <2>1. /\ FGood(ms) /\ \A j : j \in DOMAIN ms <=> \E i \in 1 .. (k - 1) : j = q[i].first
          /\ \A i \in 1 .. (k - 1) : ms[q[i].first] = q[i]
          /\ \A x : FCovers(ms, x) <=> CoversTo(q, k - 1, x)
      BY <1>7 DEF InsertedTo
    <2>2. t(k) = r
      BY <1>5
    <2>3. e \in Stretch /\ e.first < End
      BY <1>2
    <2> HIDE DEF ms
    <2>4. \A i \in 1 .. (k - 1) : i \in 1 .. n /\ i < k
      BY <1>1
    <2>5. \A j \in DOMAIN ms : ms[j].last + 1 < e.first
      BY <1>2, <2>1, <2>4
    <2>6. /\ FGood(r)
          /\ DOMAIN r = DOMAIN ms \cup {e.first}
          /\ r[e.first] = e
          /\ \A j \in DOMAIN ms : r[j] = ms[j]
          /\ \A x : FCovers(r, x) <=> FCovers(ms, x) \/ In(e, x)
      BY <2>1, <2>3, <2>5, InsertedMap
    <2> HIDE DEF r
    <2>7. \A i : i \in 1 .. k <=> i \in 1 .. (k - 1) \/ i = k
      BY <1>1
    <2>8. \A j : j \in DOMAIN r <=> \E i \in 1 .. k : j = q[i].first
      BY <2>1, <2>6, <2>7
    <2>9. \A i \in 1 .. k : r[q[i].first] = q[i]
      BY <2>1, <2>6, <2>7
    <2>10. \A x : FCovers(r, x) <=> CoversTo(q, k, x)
      BY <2>1, <2>6, CoversMore
    <2>11. InsertedTo(r, q, k)
      BY <2>6, <2>8, <2>9, <2>10 DEF InsertedTo
    <2> QED  BY <1>1, <2>2, <2>11
  <1> HIDE DEF S
  <1>8. n \in S
    <2>1. \A k \in 0 .. n : k \in S
      BY <1>1, <1>6, <1>7, UpTo
    <2> QED  BY <1>1, <2>1
  <1>9. InsertedTo(t(n), q, n)
    BY <1>8 DEF S
  <1> QED  BY <1>3, <1>9 DEF n

\* The sets whose monads all lie below the bound of the empty set.
Below(s) == s \in Rep /\ \A x \in Nat : Covers(s.mses, x) => x < MAX_MONAD

FBelow(s) == FRep(s) /\ \A x \in Nat : FCovers(s.ms, x) => x < MAX_MONAD

\* A set with monads below MAX_MONAD only is one a program can make, with
\* ranges below End.
LEMMA BelowUsed ==
    ASSUME NEW s, Below(s)
    PROVE  /\ Used(s) /\ s \in Rep
           /\ \A i \in 1 .. Len(s.mses) : s.mses[i].first < End /\ s.mses[i].last < End
                                          /\ s.mses[i] \in Stretch
  <1>1. s \in Rep /\ MAX_MONAD \in Nat /\ \A x \in Nat : Covers(s.mses, x) => x < MAX_MONAD
    BY MaxMonadAssumption DEF Below
  <1>2. Good(s.mses)
    BY <1>1, RepParts
  <1>3. Used(s)
    BY <1>1 DEF Used
  <1>4. ASSUME NEW i \in 1 .. Len(s.mses)
        PROVE  s.mses[i].first < End /\ s.mses[i].last < End /\ s.mses[i] \in Stretch
    <2>1. s.mses[i] \in Stretch
      BY <1>2, ListEnds
    <2>2. s.mses[i].first \in Nat /\ s.mses[i].last \in Nat /\ In(s.mses[i], s.mses[i].first)
          /\ In(s.mses[i], s.mses[i].last)
      BY <2>1, StretchEnds
    <2>3. Covers(s.mses, s.mses[i].first) /\ Covers(s.mses, s.mses[i].last)
      BY <2>2 DEF Covers
    <2> QED  BY <1>1, <2>1, <2>2, <2>3 DEF End
  <1> QED  BY <1>1, <1>3, <1>4

\* fromSetOfMonads keeps the ranges and the bounds.
LEMMA FromRep ==
    ASSUME NEW s, Below(s)
    PROVE  /\ FBelow(fromSetOfMonads(s))
           /\ InsertedTo(fromSetOfMonads(s).ms, s.mses, Len(s.mses))
           /\ \A x \in Nat : FCovers(fromSetOfMonads(s).ms, x) <=> Covers(s.mses, x)
           /\ fromSetOfMonads(s).first = s.first /\ fromSetOfMonads(s).last = s.last
  <1> DEFINE f == fromSetOfMonads(s)
             q == s.mses
             m == FoldLeft(insert, << >>, q)
  <1>1. s \in Rep /\ Used(s) /\ \A i \in 1 .. Len(q) : q[i].first < End
    BY BelowUsed
  <1>2. Good(q) /\ s.first \in Nat /\ s.last \in Nat /\ Exact(s)
    BY <1>1, RepParts
  <1>3. InsertedTo(m, q, Len(q))
    <2> HIDE DEF q
    <2> QED  BY <1>1, <1>2, InsertedAll
  <1>4. f = Fast(m, s.first, s.last) /\ f.ms = m /\ f.first = s.first /\ f.last = s.last
    BY FastFields DEF fromSetOfMonads
  <1> HIDE DEF m, f
  <1>5. FGood(m) /\ \A x : FCovers(m, x) <=> Covers(q, x)
    BY <1>3 DEF InsertedTo, Covers, CoversTo
  <1>6. DOMAIN m = {} <=> q = << >>
    <2>1. Len(q) \in Nat /\ (q = << >> <=> Len(q) = 0) /\ (q # << >> => 1 \in 1 .. Len(q))
      BY <1>2, ListEnds
    <2>2. Len(q) = 0 => DOMAIN m = {}
      BY <1>3 DEF InsertedTo
    <2>3. 1 \in 1 .. Len(q) => DOMAIN m # {}
      BY <1>3 DEF InsertedTo
    <2> QED  BY <2>1, <2>2, <2>3
  <1>7. FBounds(m, s.first, s.last)
    <2>1. CASE q = << >>
      BY <1>2, <1>6, <2>1 DEF FBounds, Exact
    <2>2. CASE q # << >>
      <3>1. /\ Covers(q, s.first) /\ Covers(q, s.last)
            /\ \A x \in Nat : Covers(q, x) => s.first <= x /\ x <= s.last
        BY <1>1, <2>2, RepEnds
      <3> QED  BY <1>2, <1>5, <1>6, <2>2, <3>1 DEF FBounds
    <2> QED  BY <2>1, <2>2
  <1>8. FRep(f)
    BY <1>4, <1>5, <1>7 DEF FRep
  <1>9. FBelow(f)
    BY <1>4, <1>5, <1>8 DEF FBelow, Below
  <1> QED  BY <1>3, <1>4, <1>5, <1>9 DEF f

\* An object with the monads of a set is what fromSetOfMonads makes of the set.
LEMMA IsFrom ==
    ASSUME NEW f, FRep(f), NEW s, Below(s), \A x \in Nat : FCovers(f.ms, x) <=> Covers(s.mses, x)
    PROVE  f = fromSetOfMonads(s)
  <1>1. /\ FRep(fromSetOfMonads(s))
        /\ \A x \in Nat : FCovers(fromSetOfMonads(s).ms, x) <=> Covers(s.mses, x)
    BY FromRep DEF FBelow
  <1> QED  BY <1>1, SameFast

\* Two lists that cover the same monads are one.
LEMMA SameLists ==
    ASSUME NEW p, Good(p), NEW q, Good(q), \A x \in Nat : Covers(p, x) <=> Covers(q, x),
           \A i \in 1 .. Len(p) : p[i].first < End, \A i \in 1 .. Len(q) : q[i].first < End
    PROVE  p = q
  <1> DEFINE m == FoldLeft(insert, << >>, p)
             n == FoldLeft(insert, << >>, q)
  <1>1. InsertedTo(m, p, Len(p)) /\ InsertedTo(n, q, Len(q))
    BY InsertedAll
  <1> HIDE DEF m, n
  <1>2. m = n
    <2>1. FGood(m) /\ FGood(n) /\ \A x \in Nat : FCovers(m, x) <=> FCovers(n, x)
      BY <1>1 DEF InsertedTo, Covers, CoversTo
    <2> QED  BY <2>1, SameMap
  <1>5. /\ \A k : k \in DOMAIN m <=> \E i \in 1 .. Len(p) : k = p[i].first
        /\ \A i \in 1 .. Len(p) : m[p[i].first] = p[i]
        /\ \A k : k \in DOMAIN m <=> \E i \in 1 .. Len(q) : k = q[i].first
        /\ \A i \in 1 .. Len(q) : m[q[i].first] = q[i]
    BY <1>1, <1>2, Zenon DEF InsertedTo
  <1>3. ASSUME NEW i \in 1 .. Len(p) PROVE \E j \in 1 .. Len(q) : p[i] = q[j]
    <2>1. PICK j \in 1 .. Len(q) : p[i].first = q[j].first
      <3>1. p[i].first \in DOMAIN m
        BY <1>5, Zenon
      <3> QED  BY <1>5, <3>1, Zenon
    <2> QED  BY <1>5, <2>1
  <1>4. ASSUME NEW j \in 1 .. Len(q) PROVE \E i \in 1 .. Len(p) : p[i] = q[j]
    <2>1. PICK i \in 1 .. Len(p) : p[i].first = q[j].first
      <3>1. q[j].first \in DOMAIN m
        BY <1>5, Zenon
      <3> QED  BY <1>5, <3>1, Zenon
    <2> QED  BY <1>5, <2>1
  <1> QED  BY <1>3, <1>4, SameAscending

\* A map whose entries ascend, whatever their keys.
Ordered(ms) ==
    /\ Keyed(ms)
    /\ \A k \in DOMAIN ms : ms[k] \in Stretch
    /\ \A j, k \in DOMAIN ms : j < k => ms[j].last + 1 < ms[k].first

\* Ranges under their first monads are in order.
LEMMA GoodIsOrdered ==
    ASSUME NEW ms, FGood(ms)
    PROVE  Ordered(ms)
  <1>1. \A k \in DOMAIN ms : ms[k] \in Stretch /\ ms[k].first = k
    BY DEF FGood
  <1>2. \A j, k \in DOMAIN ms : j < k => ms[j].last + 1 < k
    BY MapParts
  <1> QED  BY <1>1, <1>2, GoodIsKeyed DEF Ordered

\* The iterator goes through the entries in order.
LEMMA ElementsList ==
    ASSUME NEW s, Ordered(s.ms)
    PROVE  /\ Good(elements(s))
           /\ \A x : Covers(elements(s), x) <=> FCovers(s.ms, x)
           /\ \A i \in 1 .. Len(elements(s)) : \E k \in DOMAIN s.ms : elements(s)[i] = s.ms[k]
           /\ DOMAIN elements(s) = 1 .. Len(elements(s))
           /\ elements(s) = << >> <=> DOMAIN s.ms = {}
  <1> DEFINE ms == s.ms
             keys == keysFrom(ms, 0)
             n == Len(keys)
             q == [i \in DOMAIN keys |-> ms[keys[i]]]
  <1>1. /\ Keyed(ms) /\ \A k \in DOMAIN ms : ms[k] \in Stretch /\ 0 <= k
        /\ \A j, k \in DOMAIN ms : j < k => ms[j].last + 1 < ms[k].first
    BY DEF Ordered, Keyed
  <1>2. elements(s) = q
    BY Zenon DEF elements
  <1>3. Iterates(keys, ms, 0)
    BY <1>1, KeysFrom
  <1> HIDE DEF keys, ms
  <1>4. /\ n \in Nat /\ DOMAIN keys = 1 .. n
        /\ \A i \in 1 .. n : keys[i] \in DOMAIN ms
        /\ \A i, j \in 1 .. n : i < j => keys[i] < keys[j]
        /\ \A k \in DOMAIN ms : \E i \in 1 .. n : keys[i] = k
    BY <1>1, <1>3 DEF Iterates
  <1> HIDE DEF n
  <1>5. DOMAIN q = 1 .. n /\ (\A i \in 1 .. n : q[i] = ms[keys[i]]) /\ q = [i \in 1 .. n |-> q[i]]
    BY <1>4
  <1> HIDE DEF q
  <1>6. q \in [1 .. n -> Stretch]
    BY <1>1, <1>4, <1>5
  <1>7. q \in Seq(Stretch) /\ Len(q) = n
    BY <1>4, <1>6
  <1>8. \A i, j \in 1 .. n : i < j => q[i].last + 1 < q[j].first
    BY <1>1, <1>4, <1>5
  <1>9. Good(q)
    BY <1>7, <1>8 DEF Good
  <1>10. \A x : Covers(q, x) <=> FCovers(ms, x)
    BY <1>4, <1>5, <1>7 DEF Covers, FCovers
  <1>11. q = << >> <=> DOMAIN ms = {}
    <2>1. q = << >> <=> n = 0
      BY <1>7, <1>9, ListEnds
    <2>2. n = 0 <=> DOMAIN ms = {}
      <3>1. n # 0 => 1 \in 1 .. n
        BY <1>4
      <3>2. DOMAIN ms # {} => n # 0
        BY <1>4
      <3>3. n # 0 => DOMAIN ms # {}
        BY <1>4, <3>1
      <3> QED  BY <3>2, <3>3
    <2> QED  BY <2>1, <2>2
  <1>12. \A i \in 1 .. Len(q) : \E k \in DOMAIN ms : q[i] = ms[k]
    BY <1>4, <1>5, <1>7
  <1> QED  BY <1>2, <1>5, <1>7, <1>9, <1>10, <1>11, <1>12 DEF ms

\* The entries of what fromSetOfMonads makes are the ranges of the set.
LEMMA ElementsAre ==
    ASSUME NEW s, Below(s)
    PROVE  elements(fromSetOfMonads(s)) = s.mses
  <1> DEFINE f == fromSetOfMonads(s)
             e == elements(f)
  <1>1. FGood(f.ms) /\ \A x \in Nat : FCovers(f.ms, x) <=> Covers(s.mses, x)
    BY FromRep DEF FBelow, FRep
  <1>2. /\ Good(e) /\ \A x : Covers(e, x) <=> FCovers(f.ms, x)
        /\ \A i \in 1 .. Len(e) : \E k \in DOMAIN f.ms : e[i] = f.ms[k]
    BY <1>1, GoodIsOrdered, ElementsList
  <1>3. \A i \in 1 .. Len(e) : e[i].first < End
    BY <1>1, <1>2, MapParts
  <1>4. Good(s.mses) /\ \A i \in 1 .. Len(s.mses) : s.mses[i].first < End
    BY BelowUsed, RepParts
  <1> HIDE DEF e, f
  <1>5. e = s.mses
    BY <1>1, <1>2, <1>3, <1>4, SameLists
  <1> QED  BY <1>5 DEF e, f

\* Converting there and back changes nothing.
LEMMA ThereAndBack ==
    ASSUME NEW s, Below(s)
    PROVE  toSetOfMonads(fromSetOfMonads(s)) = s
  BY ElementsAre, BelowUsed, AddedAgain DEF toSetOfMonads

\* The empty set is the same in both classes.
LEMMA EmptyBelow ==
    Below(EmptySOM) /\ fromSetOfMonads(EmptySOM) = EmptyFast
  <1>1. EmptySOM \in Rep /\ EmptySOM.mses = << >> /\ \A x : ~Covers(EmptySOM.mses, x)
    BY EmptyRep, EmptyList
  <1>2. Below(EmptySOM)
    BY <1>1 DEF Below
  <1>3. \A x : ~FCovers(EmptyFast.ms, x)
    BY EmptyFastRep DEF FCovers
  <1> QED  BY <1>1, <1>2, <1>3, EmptyFastRep, IsFrom

\* The ranges below the bound of the empty set.
LowStretch == {e \in Stretch : e.last < End}

\* What is known of a range below End.
LEMMA LowTypes ==
    ASSUME NEW e \in LowStretch
    PROVE  /\ e \in Stretch /\ e.first \in Nat /\ e.last \in Nat /\ End \in Nat /\ End = MAX_MONAD
           /\ e.first < End /\ e.last < End /\ e.first <= e.last /\ e.first <= MAX_MONAD
           /\ \A x \in Nat : In(e, x) => x < MAX_MONAD
  <1>1. e \in Stretch /\ e.first \in Nat /\ e.last \in Nat /\ e.first <= e.last /\ e.last < End
        /\ End \in Nat /\ End = MAX_MONAD
    BY StretchTypes, MaxMonadAssumption DEF LowStretch, End
  <1> QED  BY <1>1 DEF In

\* The ranges of a set that stays below MAX_MONAD do so too.
LEMMA BelowLow ==
    ASSUME NEW s, Below(s)
    PROVE  s.mses \in Seq(LowStretch) /\ s.mses \in Seq(Stretch) /\ Len(s.mses) \in Nat
           /\ DOMAIN s.mses = 1 .. Len(s.mses)
           /\ \A i \in 1 .. Len(s.mses) : s.mses[i] \in LowStretch
  <1> DEFINE q == s.mses
  <1>1. q \in Seq(Stretch) /\ Len(q) \in Nat
    BY BelowUsed, RepParts, ListEnds
  <1>2. \A i \in 1 .. Len(q) : q[i] \in LowStretch
    BY BelowUsed DEF LowStretch
  <1> HIDE DEF q
  <1>3. q \in Seq(LowStretch) /\ DOMAIN q = 1 .. Len(q)
    BY <1>1, <1>2
  <1> QED  BY <1>1, <1>2, <1>3 DEF q

-----------------------------------------------------------------------------
\* Changes to a set in both classes

\* addMSE and removeMSE do the same to both.
LEMMA AddAgrees ==
    ASSUME NEW s, Below(s), NEW e \in LowStretch
    PROVE  Below(addMSE(s, e)) /\ fastAddMSE(fromSetOfMonads(s), e) = fromSetOfMonads(addMSE(s, e))
  <1> DEFINE f == fromSetOfMonads(s)
             r == addMSE(s, e)
  <1>1. s \in Rep /\ \A x \in Nat : Covers(s.mses, x) => x < MAX_MONAD
    BY DEF Below
  <1>2. r \in Rep /\ \A x \in Nat : Covers(r.mses, x) <=> Covers(s.mses, x) \/ In(e, x)
    BY <1>1, LowTypes, AddRep
  <1> HIDE DEF r
  <1>3. Below(r)
    BY <1>1, <1>2, LowTypes DEF Below
  <1>4. FRep(f) /\ \A x \in Nat : FCovers(f.ms, x) <=> Covers(s.mses, x)
    BY FromRep DEF FBelow
  <1> HIDE DEF f
  <1>5. /\ FRep(fastAddMSE(f, e))
        /\ \A x \in Nat : FCovers(fastAddMSE(f, e).ms, x) <=> FCovers(f.ms, x) \/ In(e, x)
    BY <1>4, LowTypes, FastAddRep
  <1>6. fastAddMSE(f, e) = fromSetOfMonads(r)
    BY <1>2, <1>3, <1>4, <1>5, IsFrom
  <1> QED  BY <1>3, <1>6 DEF f, r

\* removeMSE does the same to both.
LEMMA RemoveAgrees ==
    ASSUME NEW s, Below(s), NEW e \in LowStretch
    PROVE  /\ Below(removeMSE(s, e))
           /\ fastRemoveMSE(fromSetOfMonads(s), e) = fromSetOfMonads(removeMSE(s, e))
  <1> DEFINE f == fromSetOfMonads(s)
             r == removeMSE(s, e)
  <1>1. s \in Rep /\ \A x \in Nat : Covers(s.mses, x) => x < MAX_MONAD
    BY DEF Below
  <1>2. r \in Rep /\ \A x \in Nat : Covers(r.mses, x) <=> Covers(s.mses, x) /\ ~In(e, x)
    BY <1>1, LowTypes, RemoveRep
  <1> HIDE DEF r
  <1>3. Below(r)
    BY <1>1, <1>2 DEF Below
  <1>4. FRep(f) /\ \A x \in Nat : FCovers(f.ms, x) <=> Covers(s.mses, x)
    BY FromRep DEF FBelow
  <1> HIDE DEF f
  <1>5. /\ FRep(fastRemoveMSE(f, e))
        /\ \A x \in Nat : FCovers(fastRemoveMSE(f, e).ms, x) <=> FCovers(f.ms, x) /\ ~In(e, x)
    <2>1. \A x \in Nat : FCovers(f.ms, x) => x < End
      BY <1>1, <1>4 DEF End
    <2> QED  BY <1>4, <2>1, LowTypes, FastRemoveRep
  <1>6. fastRemoveMSE(f, e) = fromSetOfMonads(r)
    BY <1>2, <1>3, <1>4, <1>5, IsFrom
  <1> QED  BY <1>3, <1>6 DEF f, r

\* So do their repetitions.
LEMMA AllAdded ==
    ASSUME NEW s, Below(s), NEW q \in Seq(LowStretch)
    PROVE  /\ Below(FoldLeft(addMSE, s, q))
           /\ FoldLeft(fastAddMSE, fromSetOfMonads(s), q) = fromSetOfMonads(FoldLeft(addMSE, s, q))
  <1> DEFINE n == Len(q)
             f == fromSetOfMonads(s)
             it == AddRun(q, s)
             t == FastAddRun(q, f)
             S == {k \in 0 .. n : Below(it[1 .. k]) /\ t[1 .. k] = fromSetOfMonads(it[1 .. k])}
  <1>1. n \in Nat /\ DOMAIN q = 1 .. n /\ \A k \in 1 .. n : q[k] \in LowStretch
    OBVIOUS
  <1>2. FoldLeft(addMSE, s, q) = it[1 .. n] /\ FoldLeft(fastAddMSE, f, q) = t[1 .. n]
    BY <1>1, LoopsAreFolds, FastLoopsAreFolds, Zenon
  <1>3. /\ it[1 .. 0] = s
        /\ \A k \in 1 .. n : it[1 .. k] = addMSE(it[1 .. (k - 1)], q[k])
    BY <1>1, AddChain
  <1>4. /\ t[1 .. 0] = f
        /\ \A k \in 1 .. n : t[1 .. k] = fastAddMSE(t[1 .. (k - 1)], q[k])
    BY <1>1, FastAddChain
  <1> HIDE DEF n, it, t
  <1>5. 0 \in S
    BY <1>1, <1>3, <1>4
  <1>6. ASSUME NEW k \in 1 .. n, k - 1 \in S PROVE k \in S
    <2> DEFINE u == it[1 .. (k - 1)]
    <2>1. Below(u) /\ t[1 .. (k - 1)] = fromSetOfMonads(u)
      BY <1>6
    <2>2. it[1 .. k] = addMSE(u, q[k]) /\ t[1 .. k] = fastAddMSE(fromSetOfMonads(u), q[k])
      BY <1>3, <1>4, <2>1
    <2> HIDE DEF u
    <2>3. Below(it[1 .. k]) /\ t[1 .. k] = fromSetOfMonads(it[1 .. k])
      BY <1>1, <2>1, <2>2, AddAgrees
    <2> QED  BY <1>1, <2>3
  <1> HIDE DEF S
  <1>7. n \in S
    <2>1. \A k \in 0 .. n : k \in S
      BY <1>1, <1>5, <1>6, UpTo
    <2> QED  BY <1>1, <2>1
  <1>8. Below(it[1 .. n]) /\ t[1 .. n] = fromSetOfMonads(it[1 .. n])
    BY <1>7 DEF S
  <1> QED  BY <1>2, <1>8

\* Removing a list of ranges does the same to both.
LEMMA AllRemoved ==
    ASSUME NEW s, Below(s), NEW q \in Seq(LowStretch)
    PROVE  /\ Below(FoldLeft(removeMSE, s, q))
           /\ FoldLeft(fastRemoveMSE, fromSetOfMonads(s), q)
                 = fromSetOfMonads(FoldLeft(removeMSE, s, q))
  <1> DEFINE n == Len(q)
             f == fromSetOfMonads(s)
             it == RemoveRun(q, s)
             t == FastRemoveRun(q, f)
             S == {k \in 0 .. n : Below(it[1 .. k]) /\ t[1 .. k] = fromSetOfMonads(it[1 .. k])}
  <1>1. n \in Nat /\ DOMAIN q = 1 .. n /\ \A k \in 1 .. n : q[k] \in LowStretch
    OBVIOUS
  <1>2. FoldLeft(removeMSE, s, q) = it[1 .. n] /\ FoldLeft(fastRemoveMSE, f, q) = t[1 .. n]
    BY <1>1, LoopsAreFolds, FastLoopsAreFolds, Zenon
  <1>3. /\ it[1 .. 0] = s
        /\ \A k \in 1 .. n : it[1 .. k] = removeMSE(it[1 .. (k - 1)], q[k])
    BY <1>1, RemoveChain
  <1>4. /\ t[1 .. 0] = f
        /\ \A k \in 1 .. n : t[1 .. k] = fastRemoveMSE(t[1 .. (k - 1)], q[k])
    BY <1>1, FastRemoveChain
  <1> HIDE DEF n, it, t
  <1>5. 0 \in S
    BY <1>1, <1>3, <1>4
  <1>6. ASSUME NEW k \in 1 .. n, k - 1 \in S PROVE k \in S
    <2> DEFINE u == it[1 .. (k - 1)]
    <2>1. Below(u) /\ t[1 .. (k - 1)] = fromSetOfMonads(u)
      BY <1>6
    <2>2. it[1 .. k] = removeMSE(u, q[k]) /\ t[1 .. k] = fastRemoveMSE(fromSetOfMonads(u), q[k])
      BY <1>3, <1>4, <2>1
    <2> HIDE DEF u
    <2>3. Below(it[1 .. k]) /\ t[1 .. k] = fromSetOfMonads(it[1 .. k])
      BY <1>1, <2>1, <2>2, RemoveAgrees
    <2> QED  BY <1>1, <2>3
  <1> HIDE DEF S
  <1>7. n \in S
    <2>1. \A k \in 0 .. n : k \in S
      BY <1>1, <1>5, <1>6, UpTo
    <2> QED  BY <1>1, <2>1
  <1>8. Below(it[1 .. n]) /\ t[1 .. n] = fromSetOfMonads(it[1 .. n])
    BY <1>7 DEF S
  <1> QED  BY <1>2, <1>8

\* unionWith, difference and intersect.
LEMMA SetMethodsAgree ==
    ASSUME NEW s, Below(s), NEW t, Below(t)
    PROVE  LET f == fromSetOfMonads(s)
               g == fromSetOfMonads(t)
           IN  /\ fastUnionWith(f, g) = fromSetOfMonads(unionWith(s, t))
               /\ fastDifference(f, g) = fromSetOfMonads(difference(s, t))
               /\ fastIntersect(f, g) = fromSetOfMonads(intersect(s, t))
  <1> DEFINE f == fromSetOfMonads(s)
             g == fromSetOfMonads(t)
  <1>1. elements(f) = s.mses /\ elements(g) = t.mses
    BY ElementsAre
  <1>2. t.mses \in Seq(LowStretch)
    BY BelowLow
  <1>3. fastUnionWith(f, g) = fromSetOfMonads(unionWith(s, t))
    BY <1>1, <1>2, AllAdded DEF fastUnionWith, unionWith
  <1>4. fastDifference(f, g) = fromSetOfMonads(difference(s, t))
    BY <1>1, <1>2, AllRemoved DEF fastDifference, difference
  <1>5. (fastIsEmpty(f) <=> isEmpty(s)) /\ (fastIsEmpty(g) <=> isEmpty(t))
    <2>1. \A u : Below(u) => (fastIsEmpty(fromSetOfMonads(u)) <=> isEmpty(u))
      <3> SUFFICES ASSUME NEW u, Below(u) PROVE fastIsEmpty(fromSetOfMonads(u)) <=> isEmpty(u)
        OBVIOUS
      <3>1. FGood(fromSetOfMonads(u).ms)
        BY FromRep DEF FBelow, FRep
      <3>2. elements(fromSetOfMonads(u)) = << >> <=> DOMAIN fromSetOfMonads(u).ms = {}
        BY <3>1, GoodIsOrdered, ElementsList
      <3> QED  BY <3>2, ElementsAre DEF fastIsEmpty, isEmpty
    <2> QED  BY <2>1
  <1>6. fastIntersect(f, g) = fromSetOfMonads(intersect(s, t))
    <2> DEFINE c == commonRanges(s.mses, t.mses)
    <2>1. /\ c \in Seq(Stretch)
          /\ \A x \in Nat : Covers(c, x) <=> Covers(s.mses, x) /\ Covers(t.mses, x)
      BY BelowUsed, RepParts, CommonList
    <2>2. c \in Seq(LowStretch)
      <3> HIDE DEF c
      <3>1. ASSUME NEW i \in 1 .. Len(c) PROVE c[i] \in LowStretch
        <4>1. c[i] \in Stretch
          BY <2>1
        <4>2. c[i].last \in Nat /\ In(c[i], c[i].last)
          BY <4>1, StretchEnds
        <4>3. Covers(c, c[i].last)
          BY <4>2 DEF Covers
        <4> QED  BY <2>1, <4>1, <4>2, <4>3 DEF Below, LowStretch, End
      <3> QED  BY <2>1, <3>1
    <2>3. FoldLeft(fastAddMSE, EmptyFast, c) = fromSetOfMonads(FoldLeft(addMSE, EmptySOM, c))
      <3> HIDE DEF c
      <3> QED  BY <2>2, EmptyBelow, AllAdded
    <2>4. fastIntersect(f, g) = IF isEmpty(s) \/ isEmpty(t) THEN EmptyFast
                                ELSE FoldLeft(fastAddMSE, EmptyFast, c)
      <3> HIDE DEF f, g
      <3> QED  BY <1>1, <1>5, Zenon DEF fastIntersect
    <2>5. intersect(s, t) = IF isEmpty(s) \/ isEmpty(t) THEN EmptySOM
                            ELSE FoldLeft(addMSE, EmptySOM, c)
      BY Zenon DEF intersect
    <2> HIDE DEF c, f, g
    <2> QED  BY <2>3, <2>4, <2>5, EmptyBelow
  <1> QED  BY <1>3, <1>4, <1>6

\* offset.
LEMMA OffsetAgrees ==
    ASSUME NEW s, Below(s), ~isEmpty(s), NEW m \in Nat, s.last + m < MAX_MONAD
    PROVE  fastOffset(fromSetOfMonads(s), m) = fromSetOfMonads(offset(s, m))
  <1> DEFINE q == s.mses
             o == offset(s, m)
             p == [i \in DOMAIN q |-> offsetMSE(q[i], m)]
  <1>1. s \in Rep /\ q # << >>
    BY BelowUsed DEF isEmpty
  <1>2. /\ o \in Rep
        /\ \A y \in Nat : Covers(o.mses, y) <=> \E x \in Nat : y = x + m /\ Covers(q, x)
    BY <1>1, OffsetRep
  <1>3. s.last \in Nat /\ MAX_MONAD \in Nat /\ \A x \in Nat : Covers(q, x) => x <= s.last
    BY <1>1, RepEnds, RepParts, MaxMonadAssumption
  <1>4. o.mses = p
    BY SOMFields DEF offset
  <1> HIDE DEF o
  <1>5. Below(o)
    <2>1. ASSUME NEW y \in Nat, Covers(o.mses, y) PROVE y < MAX_MONAD
      <3>1. PICK x \in Nat : y = x + m /\ Covers(q, x)
        BY <1>2, <2>1
      <3>2. x <= s.last
        BY <1>3, <3>1
      <3> QED  BY <1>3, <3>1, <3>2
    <2> QED  BY <1>2, <2>1 DEF Below
  <1>6. elements(fromSetOfMonads(s)) = q
    BY ElementsAre
  <1>7. fastOffset(fromSetOfMonads(s), m) = FoldLeft(fastAddMSE, EmptyFast, p)
    BY <1>6, Zenon DEF fastOffset
  <1>8. p \in Seq(LowStretch) /\ FoldLeft(addMSE, EmptySOM, p) = o
    BY <1>4, <1>5, BelowLow, BelowUsed, AddedAgain
  <1> HIDE DEF p
  <1> QED  BY <1>7, <1>8, EmptyBelow, AllAdded DEF o

\* Both are empty, or none is.
LEMMA FastEmptyAgrees ==
    ASSUME NEW s, Below(s)
    PROVE  fastIsEmpty(fromSetOfMonads(s)) <=> isEmpty(s)
  <1>1. FGood(fromSetOfMonads(s).ms)
    BY FromRep DEF FBelow, FRep
  <1>2. elements(fromSetOfMonads(s)) = << >> <=> DOMAIN fromSetOfMonads(s).ms = {}
    BY <1>1, GoodIsOrdered, ElementsList
  <1> QED  BY <1>2, ElementsAre DEF fastIsEmpty, isEmpty

\* One turn of the loop of fillGaps in both classes: next in SetOfMonads.
FillsAlike(s, p, cur, min_gap, next) ==
    /\ Below(next.som) /\ next.prev_last = cur.last
    /\ next = [som |-> next.som, prev_last |-> cur.last]
    /\ fastFillVisit([som |-> fromSetOfMonads(s), prev_last |-> p], cur, min_gap)
          = [som |-> fromSetOfMonads(next.som), prev_last |-> cur.last]

\* A turn of the loop of fillGaps does the same to both.
LEMMA FillTurnAgrees ==
    ASSUME NEW s, Below(s), NEW p \in Nat, NEW cur \in LowStretch, 1 <= p, p <= cur.last,
           NEW min_gap
    PROVE  FillsAlike(s, p, cur, min_gap, fillVisit([som |-> s, prev_last |-> p], cur, min_gap))
  <1> DEFINE e == IF isWideGap(p, cur, min_gap) THEN cur ELSE MSE(p, cur.last)
             r == addMSE(s, e)
             st == [som |-> s, prev_last |-> p]
             ft == [som |-> fromSetOfMonads(s), prev_last |-> p]
  <1>1. e \in LowStretch
    <2>1. MSE(p, cur.last) \in Stretch /\ MSE(p, cur.last).last = cur.last
      BY LowTypes, StretchTypes
    <2>2. MSE(p, cur.last) \in LowStretch
      BY <2>1, LowTypes DEF LowStretch
    <2> QED  BY <2>2
  <1>2. fillVisit(st, cur, min_gap) = [som |-> r, prev_last |-> cur.last]
    BY DEF fillVisit, addRange
  <1>3. fastFillVisit(ft, cur, min_gap)
          = [som |-> fastAddMSE(fromSetOfMonads(s), e), prev_last |-> cur.last]
    BY DEF fastFillVisit
  <1> HIDE DEF e
  <1>4. Below(r) /\ fastAddMSE(fromSetOfMonads(s), e) = fromSetOfMonads(r)
    BY <1>1, AddAgrees
  <1> HIDE DEF r, st, ft
  <1>5. fillVisit(st, cur, min_gap).som = r /\ fillVisit(st, cur, min_gap).prev_last = cur.last
    BY <1>2
  <1> QED  BY <1>2, <1>3, <1>4, <1>5 DEF st, ft, FillsAlike

\* fillGaps.
LEMMA FillAgrees ==
    ASSUME NEW s, Below(s), NEW min_gap
    PROVE  fastFillGaps(fromSetOfMonads(s), min_gap) = fromSetOfMonads(fillGaps(s, min_gap))
  <1> DEFINE q == s.mses
             n == Len(q)
             t == Tail(q)
             s1 == addMSE(EmptySOM, q[1])
             start == [som |-> s1, prev_last |-> q[1].last]
             fstart == [som |-> fastAddMSE(EmptyFast, q[1]), prev_last |-> q[1].last]
             it == FillRun(t, start, min_gap)
             ft == FastFillRun(t, fstart, min_gap)
             f == fromSetOfMonads(s)
             Same(k) == /\ Below(it[1 .. k].som) /\ it[1 .. k].prev_last = q[k + 1].last
                        /\ it[1 .. k] = [som |-> it[1 .. k].som, prev_last |-> q[k + 1].last]
                        /\ ft[1 .. k] = [som |-> fromSetOfMonads(it[1 .. k].som),
                                         prev_last |-> q[k + 1].last]
             S == {k \in 0 .. (n - 1) : Same(k)}
  <1>1. /\ q \in Seq(LowStretch) /\ n \in Nat /\ \A i \in 1 .. n : q[i] \in LowStretch
        /\ Good(q) /\ (q = << >> <=> n = 0)
    BY BelowLow, BelowUsed, RepParts, ListEnds
  <1>2. elements(f) = q /\ (fastIsEmpty(f) <=> isEmpty(s))
    BY ElementsAre, FastEmptyAgrees
  <1>3. CASE q = << >>
    <2>1. fillGaps(s, min_gap) = EmptySOM
      BY <1>3 DEF fillGaps, isEmpty
    <2>2. fastFillGaps(f, min_gap) = EmptyFast
      BY <1>2, <1>3 DEF fastFillGaps, isEmpty
    <2> QED  BY <2>1, <2>2, EmptyBelow
  <1>4. CASE q # << >>
    <2>1. Len(t) = n - 1 /\ DOMAIN t = 1 .. (n - 1) /\ \A k \in 1 .. (n - 1) : t[k] = q[k + 1]
      BY <1>1, <1>4
    <2>2. Head(q) = q[1] /\ n \in Nat \ {0} /\ 1 \in 1 .. n
      BY <1>1, <1>4
    <2>3. fillGaps(s, min_gap) = it[1 .. (n - 1)].som
      <3>1. FoldLeft(LAMBDA st, cur : fillVisit(st, cur, min_gap), start, t) = it[1 .. Len(t)]
        BY <2>1, LoopsWithArguments, Zenon
      <3>2. fillGaps(s, min_gap)
              = FoldLeft(LAMBDA st, cur : fillVisit(st, cur, min_gap), start, t).som
        BY <1>4, <2>2, Zenon DEF fillGaps, isEmpty
      <3> QED  BY <2>1, <3>1, <3>2, Zenon
    <2>4. fastFillGaps(f, min_gap) = ft[1 .. (n - 1)].som
      <3>1. FoldLeft(LAMBDA st, cur : fastFillVisit(st, cur, min_gap), fstart, t) = ft[1 .. Len(t)]
        BY <2>1, FastLoopsAreFolds, Zenon
      <3>2. ~fastIsEmpty(f) /\ elements(f) = q
        BY <1>2, <1>4 DEF isEmpty
      <3>3. fastFillGaps(f, min_gap)
              = FoldLeft(LAMBDA st, cur : fastFillVisit(st, cur, min_gap), fstart, t).som
        <4> HIDE DEF f, q
        <4> QED  BY <2>2, <3>2, Zenon DEF fastFillGaps
      <3> QED  BY <2>1, <3>1, <3>3, Zenon
    <2>5. /\ it[1 .. 0] = start
          /\ \A k \in 1 .. (n - 1) : it[1 .. k] = fillVisit(it[1 .. (k - 1)], t[k], min_gap)
          /\ ft[1 .. 0] = fstart
          /\ \A k \in 1 .. (n - 1) : ft[1 .. k] = fastFillVisit(ft[1 .. (k - 1)], t[k], min_gap)
      <3>1. Len(t) \in Nat
        BY <2>1, <2>2
      <3> HIDE DEF t, start, fstart
      <3>2. /\ it[1 .. 0] = start
            /\ \A k \in 1 .. Len(t) : it[1 .. k] = fillVisit(it[1 .. (k - 1)], t[k], min_gap)
        BY <3>1, FillChain
      <3>3. /\ ft[1 .. 0] = fstart
            /\ \A k \in 1 .. Len(t) : ft[1 .. k] = fastFillVisit(ft[1 .. (k - 1)], t[k], min_gap)
        BY <3>1, FastFillChain
      <3> QED  BY <2>1, <3>2, <3>3
    <2>6. /\ Below(s1) /\ fastAddMSE(EmptyFast, q[1]) = fromSetOfMonads(s1)
      BY <1>1, <2>2, EmptyBelow, AddAgrees
    <2>7. /\ start.som = s1 /\ start.prev_last = q[1].last
          /\ start = [som |-> s1, prev_last |-> q[1].last]
          /\ fstart = [som |-> fastAddMSE(EmptyFast, q[1]), prev_last |-> q[1].last]
      OBVIOUS
    <2>8. /\ \A i \in 1 .. n : q[i].last \in Nat /\ 1 <= q[i].last
          /\ \A i, j \in 1 .. n : i < j => q[i].last <= q[j].last
      <3>1. \A i \in 1 .. n : /\ q[i].first \in Nat /\ 1 <= q[i].first /\ q[i].last \in Nat
                              /\ q[i].first <= q[i].last
        BY <1>1, ListAscends
      <3>2. \A i, j \in 1 .. n : i < j => q[i].last + 1 < q[j].first
        BY <1>1, ListAscends
      <3> HIDE DEF q, n
      <3>3. ASSUME NEW i \in 1 .. n PROVE q[i].last \in Nat /\ 1 <= q[i].last
        <4>1. q[i].first \in Nat /\ 1 <= q[i].first /\ q[i].last \in Nat /\ q[i].first <= q[i].last
          BY <3>1
        <4> QED  BY <4>1
      <3>4. ASSUME NEW i \in 1 .. n, NEW j \in 1 .. n, i < j PROVE q[i].last <= q[j].last
        <4>1. /\ q[i].last \in Nat /\ q[j].first \in Nat /\ q[j].last \in Nat
              /\ q[j].first <= q[j].last /\ q[i].last + 1 < q[j].first
          BY <3>1, <3>2, <3>4
        <4> QED  BY <4>1
      <3> QED  BY <3>3, <3>4
    <2> HIDE DEF it, ft, t, n, start, fstart, q, s1
    <2>9. 0 \in S
      <3>1. 0 + 1 = 1 /\ 0 \in 0 .. (n - 1)
        BY <2>2
      <3>2. Same(0)
        BY <2>5, <2>6, <2>7, <3>1, Zenon
      <3> QED  BY <3>1, <3>2
    <2>10. ASSUME NEW k \in 1 .. (n - 1), k - 1 \in S PROVE k \in S
      <3>1. (k - 1) + 1 = k /\ k \in 1 .. n /\ k + 1 \in 1 .. n /\ k < k + 1 /\ k \in 0 .. (n - 1)
        BY <2>2
      <3> DEFINE u == it[1 .. (k - 1)].som
                 p == q[k].last
                 cur == q[k + 1]
                 next == fillVisit([som |-> u, prev_last |-> p], cur, min_gap)
      <3>2. Same(k - 1)
        BY <2>10
      <3>3. /\ Below(u) /\ it[1 .. (k - 1)] = [som |-> u, prev_last |-> p]
            /\ ft[1 .. (k - 1)] = [som |-> fromSetOfMonads(u), prev_last |-> p]
        BY <3>1, <3>2, Zenon
      <3>4. it[1 .. k] = next
        BY <2>1, <2>5, <3>3
      <3>5. ft[1 .. k] = fastFillVisit([som |-> fromSetOfMonads(u), prev_last |-> p], cur, min_gap)
        BY <2>1, <2>5, <3>3
      <3>6. p \in Nat /\ 1 <= p /\ p <= cur.last /\ cur \in LowStretch
        BY <1>1, <2>8, <3>1
      <3> HIDE DEF u, p, cur, Same, S
      <3>7. FillsAlike(u, p, cur, min_gap, next)
        BY <3>3, <3>6, FillTurnAgrees
      <3> HIDE DEF next
      <3>8. Same(k)
        BY <3>4, <3>5, <3>7 DEF cur, Same, FillsAlike
      <3> QED  BY <3>1, <3>8 DEF S
    <2> HIDE DEF S
    <2>11. n - 1 \in S
      <3>1. n - 1 \in Nat /\ n - 1 \in 0 .. (n - 1)
        BY <2>2
      <3>2. \A k \in 0 .. (n - 1) : k \in S
        BY <2>9, <2>10, <3>1, UpTo
      <3> QED  BY <3>1, <3>2
    <2>12. Same(n - 1)
      BY <2>11 DEF S
    <2>13. ft[1 .. (n - 1)].som = fromSetOfMonads(it[1 .. (n - 1)].som)
      BY <2>12
    <2> QED  BY <2>3, <2>4, <2>13
  <1> QED  BY <1>3, <1>4

-----------------------------------------------------------------------------
\* Tests and searches in both classes

\* Two searches that bracket a monad: the first key past k, and the keys around it.
Searched(f, k, it, p, r) ==
    /\ it \in Nat /\ k < it /\ it <= End
    /\ it # End => it \in DOMAIN f.ms
    /\ \A j \in DOMAIN f.ms : j > k => it <= j
    /\ f.first < it => p \in DOMAIN f.ms /\ p < it /\ \A j \in DOMAIN f.ms : j < it => j <= p
    /\ r \in DOMAIN f.ms /\ f.ms[r].last = f.last /\ \A j \in DOMAIN f.ms : j <= r
    /\ f.first \in DOMAIN f.ms /\ begin(f.ms) = f.first
    /\ \A j \in DOMAIN f.ms : f.first <= j /\ f.ms[j].last <= f.last

\* What the three searches for k find: the entry above it, the one before
\* that, and the last.
LEMMA FastSearch ==
    ASSUME NEW f, FRep(f), DOMAIN f.ms # {}, NEW k \in Nat, k < End
    PROVE  Searched(f, k, upper_bound(f.ms, k), predecessor(f.ms, upper_bound(f.ms, k)),
                    rbegin(f.ms))
  <1> DEFINE ms == f.ms
             it == upper_bound(ms, k)
             p == predecessor(ms, it)
             r == rbegin(ms)
  <1>1. FGood(ms)
    BY DEF FRep
  <1>2. Keyed(ms) /\ \A j \in DOMAIN ms : 1 <= j
    BY <1>1, GoodIsKeyed, MapParts
  <1>3. Above(ms, k, it)
    BY <1>2, UpperBound
  <1>4. /\ r \in DOMAIN ms
        /\ (\E j \in DOMAIN ms : j < it) =>
              p \in DOMAIN ms /\ p < it /\ \A j \in DOMAIN ms : j < it => j <= p
    BY <1>2, Preceding
  <1>5. /\ r \in DOMAIN ms /\ ms[r].last = f.last /\ \A j \in DOMAIN ms : j <= r
        /\ f.first \in DOMAIN ms /\ begin(ms) = f.first
        /\ \A j \in DOMAIN ms : f.first <= j /\ ms[j].last <= f.last
    BY FastEnds
  <1> HIDE DEF it, p, r
  <1>6. Searched(f, k, it, p, r)
    BY <1>3, <1>4, <1>5 DEF Searched, Above
  <1> QED  BY <1>6 DEF it, p, r

\* The entries in numbers.
LEMMA Entries ==
    ASSUME NEW f, FRep(f)
    PROVE  /\ End \in Nat
           /\ \A j \in DOMAIN f.ms : /\ j \in Nat /\ 1 <= j /\ j < End
                                     /\ f.ms[j].first = j /\ f.ms[j].last \in Nat /\ j <= f.ms[j].last
           /\ \A j, k \in DOMAIN f.ms : j < k => f.ms[j].last + 1 < k
           /\ \A x : FCovers(f.ms, x) <=> \E j \in DOMAIN f.ms : j <= x /\ x <= f.ms[j].last
  <1>1. FGood(f.ms)
    BY DEF FRep
  <1>2. /\ \A j \in DOMAIN f.ms : /\ j \in Nat /\ 1 <= j /\ j < End
                                  /\ f.ms[j].first = j /\ f.ms[j].last \in Nat /\ j <= f.ms[j].last
        /\ \A j, k \in DOMAIN f.ms : j < k => f.ms[j].last + 1 < k
        /\ End \in Nat
    BY <1>1, MapParts
  <1> QED  BY <1>2 DEF FCovers, In

\* isMemberOf.
LEMMA FastMember ==
    ASSUME NEW f, FRep(f), NEW m \in Nat, 1 <= m, m < End
    PROVE  fastIsMemberOf(f, m) <=> FCovers(f.ms, m)
  <1> DEFINE ms == f.ms
             it == upper_bound(ms, m - 1)
             p == predecessor(ms, it)
             r == rbegin(ms)
             F(j) == ms[j].first
             L(j) == ms[j].last
  <1>1. /\ End \in Nat
        /\ \A j \in DOMAIN ms : /\ j \in Nat /\ 1 <= j /\ j < End /\ F(j) = j
                                /\ L(j) \in Nat /\ j <= L(j)
        /\ \A j, k \in DOMAIN ms : j < k => L(j) + 1 < k
        /\ FCovers(ms, m) <=> \E j \in DOMAIN ms : j <= m /\ m <= L(j)
    BY Entries
  <1>2. CASE DOMAIN ms = {}
    BY <1>1, <1>2 DEF fastIsMemberOf, fastIsEmpty
  <1>3. CASE DOMAIN ms # {}
    <2>1. m - 1 \in Nat /\ m - 1 < End
      BY <1>1
    <2>2. Searched(f, m - 1, it, p, r)
      BY <1>3, <2>1, FastSearch
    <2>3. fastIsMemberOf(f, m) <=>
             IF it = End THEN L(r) >= m /\ F(r) <= m
             ELSE IF F(it) > m THEN it # begin(ms) /\ F(p) <= m /\ m <= L(p)
             ELSE L(it) >= m
      <3>1. overlapMSE(ms[r], MSE(m, m)) <=> L(r) >= m /\ F(r) <= m
        BY DEF overlapMSE, MSE
      <3> QED  BY <1>3, <3>1, Zenon DEF fastIsMemberOf, fastIsEmpty
    <2> HIDE DEF it, p, r
    <2>4. /\ it \in Nat /\ m - 1 < it /\ it <= End /\ (it # End => it \in DOMAIN ms)
          /\ \A j \in DOMAIN ms : j > m - 1 => it <= j
          /\ f.first < it => p \in DOMAIN ms /\ p < it /\ \A j \in DOMAIN ms : j < it => j <= p
          /\ r \in DOMAIN ms /\ \A j \in DOMAIN ms : j <= r
          /\ f.first \in DOMAIN ms /\ begin(ms) = f.first
          /\ \A j \in DOMAIN ms : f.first <= j
      BY <2>2 DEF Searched
    <2> HIDE DEF ms, F, L
    <2>5. CASE it = End
      <3>1. \A j \in DOMAIN ms : j <= m - 1
        BY <1>1, <2>1, <2>4, <2>5
      <3>2. ASSUME NEW j \in DOMAIN ms, j <= m, m <= L(j) PROVE j = r
        <4> SUFFICES ASSUME j # r PROVE FALSE
          OBVIOUS
        <4>1. j \in Nat /\ r \in Nat /\ j <= r /\ r <= m - 1 /\ L(j) \in Nat
          BY <1>1, <2>4, <3>1
        <4>2. j < r
          BY <4>1
        <4>3. L(j) + 1 < r
          BY <1>1, <2>4, <4>2
        <4> QED  BY <3>2, <4>1, <4>3
      <3>3. r \in Nat /\ F(r) = r /\ r <= m /\ L(r) \in Nat
        <4>1. r \in Nat /\ F(r) = r /\ r <= m - 1 /\ L(r) \in Nat
          BY <1>1, <2>4, <3>1
        <4> QED  BY <4>1
      <3> QED  BY <1>1, <2>3, <2>4, <2>5, <3>2, <3>3 DEF ms
    <2>6. CASE it # End
      <3>1. it \in DOMAIN ms /\ F(it) = it /\ L(it) \in Nat /\ it <= L(it) /\ m <= it
        BY <1>1, <2>4, <2>6
      <3>2. CASE it > m
        <4>1. ASSUME NEW j \in DOMAIN ms, j <= m, m <= L(j)
              PROVE  it # f.first /\ p \in DOMAIN ms /\ j = p
          <5>1. j \in Nat /\ f.first \in Nat /\ f.first <= j /\ j < it /\ L(j) \in Nat
            BY <1>1, <2>4, <3>2, <4>1
          <5>2. p \in DOMAIN ms /\ p < it /\ j <= p
            BY <2>4, <5>1
          <5>3. p \in Nat /\ p <= m - 1
            <6>1. p \in Nat /\ (p > m - 1 => it <= p)
              BY <1>1, <2>4, <5>2
            <6>2. m \in Nat /\ it \in Nat /\ p < it
              BY <2>4, <5>2
            <6>3. \A x, y, z \in Nat : (x > y - 1 => z <= x) /\ x < z => x <= y - 1
              OBVIOUS
            <6> HIDE DEF p, it
            <6> QED  BY <6>1, <6>2, <6>3
          <5>4. ~(j < p)
            <6> SUFFICES ASSUME j < p PROVE FALSE
              OBVIOUS
            <6>1. L(j) + 1 < p /\ p \in Nat
              BY <1>1, <5>2
            <6> QED  BY <4>1, <5>1, <5>3, <6>1
          <5>5. p \in Nat
            BY <1>1, <5>2
          <5> QED  BY <5>1, <5>2, <5>4, <5>5
        <4>2. it # f.first => p \in DOMAIN ms /\ F(p) = p
          <5>1. f.first \in Nat /\ f.first <= it
            BY <1>1, <2>4, <3>1
          <5> QED  BY <1>1, <2>4, <5>1
        <4>3. fastIsMemberOf(f, m) <=> it # f.first /\ F(p) <= m /\ m <= L(p)
          BY <2>3, <2>4, <2>6, <3>1, <3>2
        <4> QED  BY <1>1, <4>1, <4>2, <4>3 DEF ms
      <3>3. CASE ~(it > m)
        <4>1. it = m
          BY <3>1, <3>3, <2>4
        <4> QED  BY <1>1, <2>3, <2>6, <3>1, <4>1 DEF ms
      <3> QED  BY <3>2, <3>3
    <2> QED  BY <2>5, <2>6
  <1> QED  BY <1>2, <1>3

\* Some monad of a range is covered where an entry meets the range.
LEMMA RangeMet ==
    ASSUME NEW f, FRep(f), NEW g \in Nat, NEW l \in Nat, g <= l
    PROVE  (\E x \in g .. l : FCovers(f.ms, x))
              <=> \E j \in DOMAIN f.ms : f.ms[j].last >= g /\ j <= l
  <1> DEFINE ms == f.ms
             L(j) == ms[j].last
  <1>1. /\ \A j \in DOMAIN ms : j \in Nat /\ L(j) \in Nat /\ j <= L(j)
        /\ \A x : FCovers(ms, x) <=> \E j \in DOMAIN ms : j <= x /\ x <= L(j)
    BY Entries
  <1> HIDE DEF ms, L
  <1>2. ASSUME NEW j \in DOMAIN ms, L(j) >= g, j <= l PROVE \E x \in g .. l : FCovers(ms, x)
    <2> DEFINE x == IF j <= g THEN g ELSE j
    <2>1. j \in Nat /\ L(j) \in Nat /\ j <= L(j)
      BY <1>1
    <2>2. x \in g .. l /\ j <= x /\ x <= L(j)
      BY <1>2, <2>1
    <2> QED  BY <1>1, <2>2
  <1>3. ASSUME NEW x \in g .. l, FCovers(ms, x) PROVE \E j \in DOMAIN ms : L(j) >= g /\ j <= l
    <2>1. PICK j \in DOMAIN ms : j <= x /\ x <= L(j)
      BY <1>1, <1>3
    <2>2. j \in Nat /\ L(j) \in Nat
      BY <1>1
    <2>3. L(j) >= g /\ j <= l
      BY <2>1, <2>2
    <2> QED  BY <2>3
  <1>4. (\E x \in g .. l : FCovers(ms, x)) <=> \E j \in DOMAIN ms : L(j) >= g /\ j <= l
    BY <1>2, <1>3
  <1> QED  BY <1>4 DEF ms, L

\* hasMonadsInRange.
LEMMA FastRange ==
    ASSUME NEW f, FRep(f), NEW g \in Nat, NEW l \in Nat, 1 <= g, g <= l, l < End
    PROVE  fastHasMonadsInRange(f, g, l) <=> \E x \in g .. l : FCovers(f.ms, x)
  <1> DEFINE ms == f.ms
             it == upper_bound(ms, g - 1)
             p == predecessor(ms, it)
             r == rbegin(ms)
             F(j) == ms[j].first
             L(j) == ms[j].last
             Met == \E j \in DOMAIN ms : L(j) >= g /\ j <= l
  <1>1. /\ End \in Nat
        /\ \A j \in DOMAIN ms : /\ j \in Nat /\ 1 <= j /\ j < End /\ F(j) = j
                                /\ L(j) \in Nat /\ j <= L(j)
        /\ \A j, k \in DOMAIN ms : j < k => L(j) + 1 < k
    BY Entries
  <1>2. (\E x \in g .. l : FCovers(ms, x)) <=> Met
    BY RangeMet
  <1>3. CASE DOMAIN ms = {}
    BY <1>2, <1>3 DEF fastHasMonadsInRange, fastIsEmpty
  <1>4. CASE DOMAIN ms # {}
    <2>1. g - 1 \in Nat /\ g - 1 < End
      BY <1>1
    <2>2. Searched(f, g - 1, it, p, r)
      BY <1>4, <2>1, FastSearch
    <2> DEFINE O(k) == L(k) >= g /\ F(k) <= l
    <2>3. fastHasMonadsInRange(f, g, l) <=>
             /\ f.first <= l /\ f.last >= g
             /\ IF it = End THEN O(r)
                ELSE IF F(it) > l THEN O(p)
                ELSE F(it) > g \/ O(it)
      <3>1. \A k : overlapMSE(ms[k], MSE(g, l)) <=> O(k)
        BY DEF overlapMSE, MSE
      <3> HIDE DEF O
      <3> QED  BY <1>4, <3>1, Zenon DEF fastHasMonadsInRange, fastIsEmpty
    <2> HIDE DEF it, p, r
    <2>4. /\ it \in Nat /\ g - 1 < it /\ it <= End /\ (it # End => it \in DOMAIN ms)
          /\ \A j \in DOMAIN ms : j > g - 1 => it <= j
          /\ f.first < it => p \in DOMAIN ms /\ p < it /\ \A j \in DOMAIN ms : j < it => j <= p
          /\ r \in DOMAIN ms /\ L(r) = f.last /\ \A j \in DOMAIN ms : j <= r
          /\ f.first \in DOMAIN ms
          /\ \A j \in DOMAIN ms : f.first <= j /\ L(j) <= f.last
      BY <2>2 DEF Searched
    <2>5. f.first \in Nat /\ f.last \in Nat
      BY <1>1, <2>4
    <2> HIDE DEF ms, F, L
    \* What an entry that meets the range says of the bounds and the keys.
    <2>6. ASSUME NEW j \in DOMAIN ms, L(j) >= g, j <= l PROVE f.first <= l /\ f.last >= g
      <3>1. j \in Nat /\ L(j) \in Nat /\ f.first <= j /\ L(j) <= f.last
        BY <1>1, <2>4
      <3> QED  BY <2>5, <2>6, <3>1
    <2>7. \A j, k \in DOMAIN ms : j <= k => L(j) <= L(k)
      <3> SUFFICES ASSUME NEW j \in DOMAIN ms, NEW k \in DOMAIN ms, j <= k PROVE L(j) <= L(k)
        OBVIOUS
      <3>1. j \in Nat /\ k \in Nat /\ L(j) \in Nat /\ L(k) \in Nat /\ k <= L(k)
            /\ (j < k => L(j) + 1 < k)
        BY <1>1
      <3>2. j = k => L(j) = L(k)
        OBVIOUS
      <3> QED  BY <3>1, <3>2
    <2>8. CASE it = End
      <3>1. r \in Nat /\ F(r) = r /\ r <= l
        <4>1. r \in Nat /\ F(r) = r /\ r < End /\ (r > g - 1 => it <= r)
          BY <1>1, <2>4
        <4> QED  BY <1>1, <2>8, <4>1
      <3>2. ASSUME Met PROVE L(r) >= g
        <4>1. PICK j \in DOMAIN ms : L(j) >= g /\ j <= l
          BY <3>2
        <4>2. j <= r /\ r \in DOMAIN ms
          BY <2>4
        <4>3. L(j) <= L(r) /\ L(j) \in Nat /\ L(r) \in Nat
          BY <1>1, <2>7, <4>2
        <4> QED  BY <4>1, <4>3
      <3> QED  BY <1>2, <2>3, <2>4, <2>6, <2>8, <3>1, <3>2 DEF ms
    <2>9. CASE it # End /\ F(it) > l
      <3>1. it \in DOMAIN ms /\ F(it) = it /\ l < it
        BY <1>1, <2>4, <2>9
      <3>2. ASSUME f.first <= l
            PROVE  p \in DOMAIN ms /\ F(p) = p /\ p <= l /\ \A j \in DOMAIN ms : j <= l => j <= p
        <4>1. f.first < it
          BY <2>4, <2>5, <3>1, <3>2
        <4>2. p \in DOMAIN ms /\ p < it /\ \A j \in DOMAIN ms : j < it => j <= p
          BY <2>4, <4>1
        <4>3. p \in Nat /\ F(p) = p /\ (p > g - 1 => it <= p)
          BY <1>1, <2>4, <4>2
        <4>4. p <= l
          BY <2>4, <4>2, <4>3
        <4>5. \A j \in DOMAIN ms : j <= l => j < it
          BY <1>1, <2>4, <3>1
        <4> QED  BY <4>2, <4>3, <4>4, <4>5
      <3>3. ASSUME Met PROVE f.first <= l /\ f.last >= g /\ L(p) >= g
        <4>1. PICK j \in DOMAIN ms : L(j) >= g /\ j <= l
          BY <3>3
        <4>2. f.first <= l /\ f.last >= g
          BY <2>6, <4>1
        <4>3. p \in DOMAIN ms /\ j <= p
          BY <3>2, <4>1, <4>2
        <4>4. L(j) <= L(p) /\ L(j) \in Nat /\ L(p) \in Nat
          BY <1>1, <2>7, <4>3
        <4> QED  BY <4>1, <4>2, <4>4
      <3> QED  BY <1>2, <2>3, <2>9, <3>2, <3>3 DEF ms
    <2>10. CASE it # End /\ ~(F(it) > l)
      <3>1. it \in DOMAIN ms /\ F(it) = it /\ it <= l /\ g <= it /\ L(it) \in Nat /\ it <= L(it)
        BY <1>1, <2>4, <2>10
      <3>2. L(it) >= g
        BY <3>1, <2>4
      <3>3. Met /\ O(it)
        BY <3>1, <3>2
      <3> QED  BY <1>2, <2>3, <2>6, <2>10, <3>1, <3>2, <3>3 DEF ms
    <2> QED  BY <2>8, <2>9, <2>10
  <1> QED  BY <1>3, <1>4

\* overlap of one class with the other.
LEMMA FastOverlapAgrees ==
    ASSUME NEW s, Below(s), NEW t, Below(t)
    PROVE  fastOverlap(s, fromSetOfMonads(t)) <=> overlap(s, t)
  <1> DEFINE q == s.mses
             g == fromSetOfMonads(t)
  <1>1. s \in Rep /\ t \in Rep /\ q \in Seq(LowStretch) /\ \A i \in 1 .. Len(q) : q[i] \in LowStretch
    BY BelowUsed, BelowLow
  <1>2. FRep(g) /\ \A x \in Nat : FCovers(g.ms, x) <=> Covers(t.mses, x)
    BY FromRep DEF FBelow
  <1>3. (fastIsEmpty(g) <=> isEmpty(t)) /\ (isEmpty(t) <=> t.mses = << >>)
    BY FastEmptyAgrees DEF isEmpty
  <1>4. DOMAIN q = 1 .. Len(q)
    BY <1>1
  <1>5. fastOverlap(s, g) <=>
           /\ ~isEmpty(s) /\ ~fastIsEmpty(g)
           /\ \E i \in 1 .. Len(q) : fastHasMonadsInRange(g, q[i].first, q[i].last)
    BY <1>4 DEF fastOverlap
  <1> HIDE DEF g
  <1>6. \A i \in 1 .. Len(q) :
           fastHasMonadsInRange(g, q[i].first, q[i].last)
              <=> \E x \in Nat : In(q[i], x) /\ Covers(t.mses, x)
    <2> SUFFICES ASSUME NEW i \in 1 .. Len(q)
                 PROVE  fastHasMonadsInRange(g, q[i].first, q[i].last)
                           <=> \E x \in Nat : In(q[i], x) /\ Covers(t.mses, x)
      OBVIOUS
    <2> DEFINE e == q[i]
    <2>1. e \in LowStretch
      BY <1>1
    <2> HIDE DEF e
    <2>2. e.first \in Nat /\ e.last \in Nat /\ 1 <= e.first /\ e.first <= e.last /\ e.last < End
      BY <2>1, LowTypes, StretchTypes
    <2>3. fastHasMonadsInRange(g, e.first, e.last)
             <=> \E x \in e.first .. e.last : FCovers(g.ms, x)
      BY <1>2, <2>2, FastRange
    <2>4. \A x \in Nat : x \in e.first .. e.last <=> In(e, x)
      BY <2>2 DEF In
    <2>5. e.first .. e.last \in SUBSET Nat
      BY <2>2
    <2> QED  BY <1>2, <2>3, <2>4, <2>5 DEF e
  <1>7. overlap(s, t) <=> \E x \in Nat : Covers(q, x) /\ Covers(t.mses, x)
    BY <1>1, OverlapExact
  <1>8. (isEmpty(s) => \A x : ~Covers(q, x)) /\ (isEmpty(t) => \A x : ~Covers(t.mses, x))
    BY EmptyList DEF isEmpty
  <1> QED  BY <1>3, <1>5, <1>6, <1>7, <1>8 DEF Covers, g

\* subsumesRange: a range is covered where one entry contains it.
LEMMA FastSubsumed ==
    ASSUME NEW f, FRep(f), NEW e \in LowStretch
    PROVE  subsumesRange(f, e) <=> \A x \in Nat : In(e, x) => FCovers(f.ms, x)
  <1> DEFINE ms == f.ms
             g == e.first
             l == e.last
             it == upper_bound(ms, g - 1)
             p == predecessor(ms, it)
             r == rbegin(ms)
             F(j) == ms[j].first
             L(j) == ms[j].last
             U(j) == F(j) <= g /\ l <= L(j)
             Whole == \E j \in DOMAIN ms : U(j)
             within == f.first <= g /\ l <= f.last
  <1>1. /\ End \in Nat
        /\ \A j \in DOMAIN ms : /\ j \in Nat /\ 1 <= j /\ j < End /\ F(j) = j
                                /\ L(j) \in Nat /\ j <= L(j)
        /\ \A j, k \in DOMAIN ms : j < k => L(j) + 1 < k
        /\ \A x : FCovers(ms, x) <=> \E j \in DOMAIN ms : j <= x /\ x <= L(j)
    BY Entries
  <1>2. g \in Nat /\ l \in Nat /\ 1 <= g /\ g <= l /\ l < End
        /\ \A x : In(e, x) <=> g <= x /\ x <= l
    BY LowTypes, StretchTypes DEF In
  <1>3. g - 1 \in Nat /\ g - 1 < End
    BY <1>1, <1>2
  <1>4. Whole <=> \A x \in Nat : In(e, x) => FCovers(f.ms, x)
    <2> HIDE DEF ms, g, l, L, F
    <2>1. ASSUME NEW j \in DOMAIN ms, U(j), NEW x \in Nat, In(e, x) PROVE FCovers(ms, x)
      <3>1. j \in Nat /\ L(j) \in Nat /\ F(j) = j /\ g <= x /\ x <= l
        BY <1>1, <1>2, <2>1
      <3>2. j <= x /\ x <= L(j)
        BY <1>2, <2>1, <3>1
      <3> QED  BY <1>1, <3>2
    <2>2. ASSUME \A x \in Nat : In(e, x) => FCovers(ms, x) PROVE Whole
      <3>1. FCovers(ms, g)
        BY <1>2, <2>2
      <3>2. PICK j \in DOMAIN ms : j <= g /\ g <= L(j)
        BY <1>1, <3>1
      <3>3. j \in Nat /\ L(j) \in Nat /\ F(j) = j
        BY <1>1
      <3>4. l <= L(j)
        <4> SUFFICES ASSUME L(j) < l PROVE FALSE
          BY <1>2, <3>3
        <4>1. L(j) + 1 \in Nat /\ In(e, L(j) + 1)
          BY <1>2, <3>2, <3>3
        <4>2. PICK k \in DOMAIN ms : k <= L(j) + 1 /\ L(j) + 1 <= L(k)
          BY <1>1, <2>2, <4>1
        <4>3. k \in Nat /\ L(k) \in Nat /\ (j < k => L(j) + 1 < k) /\ (k < j => L(k) + 1 < j)
          BY <1>1
        <4>4. k = j => L(k) = L(j)
          OBVIOUS
        <4> QED  BY <1>2, <3>2, <3>3, <4>2, <4>3, <4>4
      <3> QED  BY <3>2, <3>3, <3>4
    <2> QED  BY <2>1, <2>2 DEF ms
  <1>5. CASE DOMAIN ms = {}
    BY <1>4, <1>5 DEF subsumesRange, fastIsEmpty
  <1>6. CASE DOMAIN ms # {}
    <2>1. Searched(f, g - 1, it, p, r)
      <3> HIDE DEF g
      <3> QED  BY <1>3, <1>6, FastSearch
    <2>2. subsumesRange(f, e) <=>
             \/ within /\ Cardinality(DOMAIN ms) = 1
             \/ /\ within \/ (f.first <= l /\ f.last >= g)
                /\ IF it = End THEN U(r) ELSE IF F(it) > l THEN U(p) ELSE U(it)
      BY <1>6, Zenon DEF subsumesRange, fastIsEmpty
    <2>3. Cardinality(DOMAIN ms) = 1 => \A j, k \in DOMAIN ms : j = k
      <3>1. FGood(ms)
        BY DEF FRep
      <3>2. IsFiniteSet(DOMAIN ms)
        BY <3>1, GoodIsKeyed, FiniteKeys
      <3> QED  BY <3>2, FS_Singleton
    <2> HIDE DEF it, p, r
    <2>4. /\ it \in Nat /\ g - 1 < it /\ it <= End /\ (it # End => it \in DOMAIN ms)
          /\ \A j \in DOMAIN ms : j > g - 1 => it <= j
          /\ f.first < it => p \in DOMAIN ms /\ p < it /\ \A j \in DOMAIN ms : j < it => j <= p
          /\ r \in DOMAIN ms /\ L(r) = f.last /\ \A j \in DOMAIN ms : j <= r
          /\ f.first \in DOMAIN ms
          /\ \A j \in DOMAIN ms : f.first <= j /\ L(j) <= f.last
      BY <2>1 DEF Searched
    <2>5. f.first \in Nat /\ f.last \in Nat
      BY <1>1, <2>4
    <2> HIDE DEF ms, F, L, g, l
    <2>6. ASSUME NEW j \in DOMAIN ms, U(j) PROVE within
      <3>1. j \in Nat /\ F(j) = j /\ L(j) \in Nat /\ f.first <= j /\ L(j) <= f.last
        BY <1>1, <2>4
      <3> QED  BY <1>2, <2>5, <2>6, <3>1
    <2>7. ASSUME within, Cardinality(DOMAIN ms) = 1 PROVE Whole
      <3>1. f.first \in DOMAIN ms /\ f.first = r /\ F(f.first) = f.first /\ L(f.first) = f.last
        <4>1. f.first = r /\ F(f.first) = f.first
          BY <1>1, <2>3, <2>4, <2>7
        <4> QED  BY <2>4, <4>1
      <3>2. U(f.first)
        BY <2>7, <3>1
      <3> QED  BY <3>1, <3>2
    <2> DEFINE c == IF it = End THEN r ELSE IF F(it) > l THEN p ELSE it
               Found == (within \/ (f.first <= l /\ f.last >= g)) /\ U(c)
    <2>8. subsumesRange(f, e) <=> (within /\ Cardinality(DOMAIN ms) = 1) \/ Found
      BY <2>2
    <2>9. ASSUME within \/ (f.first <= l /\ f.last >= g)
          PROVE  c \in DOMAIN ms /\ \A j \in DOMAIN ms : U(j) => j = c
      <3>1. f.first <= l
        BY <1>2, <2>5, <2>9
      <3>2. ASSUME NEW j \in DOMAIN ms, U(j), NEW k \in DOMAIN ms, k <= l, j <= k PROVE j = k
        <4>1. j \in Nat /\ k \in Nat /\ L(j) \in Nat /\ (j < k => L(j) + 1 < k)
          BY <1>1
        <4> QED  BY <1>2, <3>2, <4>1
      <3>3. \A j \in DOMAIN ms : U(j) => j \in Nat /\ j <= g
        BY <1>1
      <3>4. CASE it = End
        <4>1. r \in Nat /\ r <= l
          <5>1. r \in Nat /\ r < End /\ (r > g - 1 => it <= r)
            BY <1>1, <2>4
          <5> QED  BY <1>1, <1>2, <3>4, <5>1
        <4> QED  BY <2>4, <3>2, <3>4, <4>1
      <3>5. CASE it # End /\ F(it) > l
        <4>1. F(it) = it /\ it \in Nat
          BY <1>1, <2>4, <3>5
        <4>2. f.first < it
          BY <1>2, <2>5, <3>1, <3>5, <4>1
        <4>3. p \in DOMAIN ms /\ p < it /\ \A j \in DOMAIN ms : j < it => j <= p
          BY <2>4, <4>2
        <4>4. p \in Nat /\ p <= l
          <5>1. p \in Nat /\ (p > g - 1 => it <= p)
            BY <1>1, <2>4, <4>3
          <5> QED  BY <1>2, <4>1, <4>3, <5>1
        <4>5. \A j \in DOMAIN ms : U(j) => j < it
          BY <1>2, <3>3, <3>5, <4>1
        <4> QED  BY <3>2, <3>5, <4>3, <4>4, <4>5
      <3>6. CASE it # End /\ ~(F(it) > l)
        <4>1. F(it) = it /\ it \in Nat /\ it \in DOMAIN ms
          BY <1>1, <2>4, <3>6
        <4>2. it <= l /\ g <= it
          BY <1>2, <2>4, <3>6, <4>1
        <4>3. \A j \in DOMAIN ms : U(j) => j <= it
          BY <1>2, <3>3, <4>1, <4>2
        <4> QED  BY <3>2, <3>6, <4>1, <4>2, <4>3
      <3> QED  BY <3>4, <3>5, <3>6
    <2> HIDE DEF c, U, within
    <2>10. Found => Whole
      BY <2>9
    <2>11. Whole => Found
      <3> SUFFICES ASSUME NEW j \in DOMAIN ms, U(j) PROVE Found
        OBVIOUS
      <3>1. within
        BY <2>6
      <3> QED  BY <2>9, <3>1
    <2> QED  BY <1>4, <2>7, <2>8, <2>10, <2>11
  <1> QED  BY <1>5, <1>6

\* part_of of one class in the other.
LEMMA FastPartAgrees ==
    ASSUME NEW s, Below(s), ~isEmpty(s), NEW t, Below(t)
    PROVE  part_ofFast(s, fromSetOfMonads(t)) <=> part_of(s, t)
  <1> DEFINE q == s.mses
             n == Len(q)
             g == fromSetOfMonads(t)
             Included == \A x \in Nat : Covers(q, x) => FCovers(g.ms, x)
  <1>1. /\ s \in Rep /\ Used(s) /\ t \in Rep /\ q # << >> /\ q \in Seq(LowStretch)
        /\ DOMAIN q = 1 .. n /\ \A i \in 1 .. n : q[i] \in LowStretch
        /\ \A x \in Nat : Covers(q, x) => x < MAX_MONAD
    BY BelowUsed, BelowLow DEF isEmpty, Below
  <1>2. FRep(g) /\ \A x \in Nat : FCovers(g.ms, x) <=> Covers(t.mses, x)
    BY FromRep DEF FBelow
  <1>3. part_of(s, t) <=> Included
    <2>1. part_of(s, t) <=> \A x \in Nat : Covers(q, x) => Covers(t.mses, x)
      BY <1>1, PartExact
    <2> QED  BY <1>2, <2>1
  <1>4. part_ofFast(s, g) <=>
           /\ s.first >= g.first /\ s.last <= g.last
           /\ \/ Cardinality(DOMAIN g.ms) = 1
              \/ \A i \in 1 .. n : subsumesRange(g, q[i])
    BY <1>1, Zenon DEF part_ofFast
  <1>5. /\ Covers(q, s.first) /\ Covers(q, s.last) /\ s.first \in Nat /\ s.last \in Nat
        /\ \A x \in Nat : Covers(q, x) => s.first <= x /\ x <= s.last
    BY <1>1, RepEnds, RepParts
  <1> HIDE DEF g
  <1>6. (\A i \in 1 .. n : subsumesRange(g, q[i])) <=> Included
    <2>1. \A i \in 1 .. n :
             subsumesRange(g, q[i]) <=> \A x \in Nat : In(q[i], x) => FCovers(g.ms, x)
      BY <1>1, <1>2, FastSubsumed
    <2>2. \A x : Covers(q, x) <=> \E i \in 1 .. n : In(q[i], x)
      BY DEF Covers
    <2> HIDE DEF q, n
    <2> QED  BY <2>1, <2>2
  <1>7. CASE DOMAIN g.ms = {}
    <2>1. g.first = MAX_MONAD /\ MAX_MONAD \in Nat /\ \A x : ~FCovers(g.ms, x)
      BY <1>2, <1>7, MaxMonadAssumption DEF FRep, FBounds, FCovers
    <2>2. s.first < MAX_MONAD
      BY <1>1, <1>5
    <2>3. ~(s.first >= g.first)
      BY <1>5, <2>1, <2>2
    <2> QED  BY <1>3, <1>4, <1>5, <2>1, <2>3 DEF g
  <1>8. CASE DOMAIN g.ms # {}
    <2>1. /\ g.first \in Nat /\ g.last \in Nat
          /\ \A x \in Nat : FCovers(g.ms, x) => g.first <= x /\ x <= g.last
          /\ begin(g.ms) = g.first /\ g.first \in DOMAIN g.ms
          /\ rbegin(g.ms) \in DOMAIN g.ms /\ g.ms[rbegin(g.ms)].last = g.last
      BY <1>2, <1>8, FastEnds
    <2>2. Included => s.first >= g.first /\ s.last <= g.last
      BY <1>5, <2>1
    <2>3. ASSUME s.first >= g.first, s.last <= g.last, Cardinality(DOMAIN g.ms) = 1 PROVE Included
      <3>1. rbegin(g.ms) = g.first
        <4>1. FGood(g.ms)
          BY <1>2 DEF FRep
        <4>2. IsFiniteSet(DOMAIN g.ms)
          BY <4>1, GoodIsKeyed, FiniteKeys
        <4> QED  BY <2>1, <2>3, <4>2, FS_Singleton
      <3>2. g.ms[g.first].last = g.last
        BY <2>1, <3>1
      <3>3. ASSUME NEW x \in Nat, Covers(q, x) PROVE FCovers(g.ms, x)
        <4>1. g.first <= x /\ x <= g.last
          BY <1>5, <2>1, <2>3, <3>3
        <4> QED  BY <1>2, <2>1, <3>2, <4>1, Entries
      <3> QED  BY <3>3
    <2> QED  BY <1>3, <1>4, <1>6, <2>2, <2>3 DEF g
  <1> QED  BY <1>7, <1>8

\* hasLargerGap.
LEMMA FastLargerGapAgrees ==
    ASSUME NEW s, Below(s), NEW m
    PROVE  fastHasLargerGap(fromSetOfMonads(s), m) <=> hasLargerGap(s, m)
  <1> DEFINE f == fromSetOfMonads(s)
             q == s.mses
  <1>1. elements(f) = q /\ (fastIsEmpty(f) <=> isEmpty(s)) /\ f.first = s.first /\ f.last = s.last
    BY ElementsAre, FastEmptyAgrees, FromRep
  <1> HIDE DEF f
  <1>2. fastHasLargerGap(f, m)
           <=> /\ ~fastIsEmpty(f) /\ f.last - f.first >= m
               /\ \E i \in 2..Len(elements(f)) : elements(f)[i].first - elements(f)[i-1].last > m
    BY Zenon DEF fastHasLargerGap
  <1>3. hasLargerGap(s, m)
           <=> /\ ~isEmpty(s) /\ s.last - s.first >= m
               /\ \E i \in 2..Len(q) : q[i].first - q[i-1].last > m
    BY Zenon DEF hasLargerGap
  <1> HIDE DEF q
  <1> QED  BY <1>1, <1>2, <1>3 DEF f

\* gapExists.
LEMMA FastGapAgrees ==
    ASSUME NEW s, Below(s), NEW Sm \in Nat, Sm < End
    PROVE  fastGapExists(fromSetOfMonads(s), Sm) = gapExists(s, Sm)
  <1> DEFINE f == fromSetOfMonads(s)
             ms == f.ms
             q == s.mses
             n == Len(q)
             it == upper_bound(ms, Sm)
             p == predecessor(ms, it)
             r == rbegin(ms)
             F(i) == q[i].first
             L(i) == q[i].last
             E == gapExists(s, Sm)
  <1>1. Used(s) /\ s \in Rep /\ Good(q) /\ n \in Nat /\ (\A x \in Nat : Covers(q, x) => x < MAX_MONAD)
    BY BelowUsed, RepParts, ListEnds DEF Below
  <1>2. /\ FRep(f)
        /\ \A j : j \in DOMAIN ms <=> \E i \in 1 .. n : j = F(i)
        /\ \A i \in 1 .. n : ms[F(i)] = q[i]
    BY FromRep DEF FBelow, InsertedTo
  <1>3. /\ \A i \in 1 .. n : F(i) \in Nat /\ L(i) \in Nat /\ F(i) <= L(i)
        /\ \A i, j \in 1 .. n : i < j => L(i) + 1 < F(j)
        /\ \A i, j \in 1 .. n : i <= j => L(i) <= L(j) /\ F(i) <= F(j)
    BY <1>1, ListAscends
  <1>4. /\ \A j \in 1 .. (n - 1) : Sm = L(j) + 1 => E = F(j + 1) - 1
        /\ (\A j \in 1 .. (n - 1) : Sm # L(j) + 1) => E = 0
    BY <1>1, GapExistsExact
  <1>5. End \in Nat /\ \A j \in DOMAIN ms : j \in Nat /\ j < End
    BY <1>2, Entries
  <1>6. fastGapExists(f, Sm) =
           IF /\ Sm >= f.first /\ Sm <= f.last /\ Cardinality(DOMAIN ms) # 1
              /\ it # End /\ ms[p].last + 1 = Sm
           THEN ms[it].first - 1 ELSE 0
    BY Zenon DEF fastGapExists
  <1>7. Cardinality(DOMAIN ms) = 1 => \A j, k \in DOMAIN ms : j = k
    <2>1. IsFiniteSet(DOMAIN ms)
      BY <1>2, GoodIsKeyed, FiniteKeys DEF FRep
    <2> HIDE DEF ms
    <2> QED  BY <2>1, FS_Singleton
  <1>8. CASE DOMAIN ms = {}
    <2>1. f.first = MAX_MONAD /\ MAX_MONAD \in Nat
      BY <1>2, <1>8, MaxMonadAssumption DEF FRep, FBounds
    <2>2. ~(Sm >= f.first)
      BY <2>1 DEF End
    <2>3. n = 0
      <3>1. \A i \in 1 .. n : FALSE
        BY <1>2, <1>8
      <3> HIDE DEF n
      <3> QED  BY <1>1, <3>1
    <2>4. E = 0
      <3> HIDE DEF n
      <3> QED  BY <1>4, <2>3
    <2> HIDE DEF E
    <2> QED  BY <1>6, <2>2, <2>4 DEF E
  <1>9. CASE DOMAIN ms # {}
    <2>1. Searched(f, Sm, it, p, r)
      BY <1>2, <1>9, FastSearch
    <2> HIDE DEF it, p, r
    <2>2. /\ it \in Nat /\ Sm < it /\ it <= End /\ (it # End => it \in DOMAIN ms)
          /\ \A j \in DOMAIN ms : j > Sm => it <= j
          /\ f.first < it => p \in DOMAIN ms /\ p < it /\ \A j \in DOMAIN ms : j < it => j <= p
          /\ f.first \in DOMAIN ms /\ r \in DOMAIN ms /\ ms[r].last = f.last
          /\ \A j \in DOMAIN ms : f.first <= j /\ ms[j].last <= f.last
      BY <2>1 DEF Searched
    <2>3. f.first \in Nat /\ f.last \in Nat
      BY <1>2, <1>9, FastEnds
    <2>4. \A i \in 1 .. n : F(i) \in DOMAIN ms /\ ms[F(i)].first = F(i) /\ ms[F(i)].last = L(i)
      BY <1>2
    <2> HIDE DEF F, L, n, q, ms, f, E
    <2>5. ASSUME NEW j \in 1 .. (n - 1), Sm = L(j) + 1 PROVE fastGapExists(f, Sm) = E
      <3>1. j \in 1 .. n /\ j + 1 \in 1 .. n /\ j < j + 1
        BY <1>1
      <3>2. /\ F(j) \in Nat /\ L(j) \in Nat /\ F(j) <= L(j) /\ F(j + 1) \in Nat /\ L(j + 1) \in Nat
            /\ F(j + 1) <= L(j + 1) /\ L(j) + 1 < F(j + 1)
        BY <1>3, <3>1
      <3>3. F(j + 1) \in DOMAIN ms /\ F(j) \in DOMAIN ms /\ F(j + 1) # F(j)
        BY <2>4, <3>1, <3>2
      <3>4. it <= F(j + 1) /\ it # End /\ it \in DOMAIN ms
        <4>1. it <= F(j + 1) /\ F(j + 1) < End
          BY <1>5, <2>2, <2>5, <3>2, <3>3
        <4> QED  BY <1>5, <2>2, <3>2, <4>1
      <3>5. it = F(j + 1)
        <4>1. PICK i \in 1 .. n : it = F(i)
          BY <1>2, <3>4
        <4>2. ~(i <= j)
          <5> SUFFICES ASSUME i <= j PROVE FALSE
            OBVIOUS
          <5>1. F(i) <= F(j) /\ F(i) \in Nat
            BY <1>3, <3>1
          <5> QED  BY <2>2, <2>5, <3>2, <4>1, <5>1
        <4>3. j + 1 <= i
          BY <1>1, <3>1, <4>2
        <4>4. F(j + 1) <= F(i) /\ F(i) \in Nat
          BY <1>3, <3>1, <4>3
        <4> QED  BY <3>2, <3>4, <4>1, <4>4
      <3>6. Sm >= f.first /\ Sm <= f.last
        <4>1. f.first <= F(j) /\ L(j + 1) <= f.last
          BY <2>2, <2>4, <3>1, <3>3
        <4> QED  BY <2>3, <2>5, <3>2, <4>1
      <3>7. p \in DOMAIN ms /\ p < it /\ F(j) <= p
        <4>1. f.first < it
          BY <2>2, <2>3, <3>6
        <4>2. F(j) < it
          BY <3>2, <3>5
        <4> QED  BY <2>2, <3>3, <4>1, <4>2
      <3>8. ms[p].last = L(j)
        <4>1. PICK i \in 1 .. n : p = F(i)
          BY <1>2, <3>7
        <4>2. i <= j
          <5> SUFFICES ASSUME j + 1 <= i PROVE FALSE
            BY <1>1, <3>1
          <5>1. F(j + 1) <= F(i) /\ F(i) \in Nat
            BY <1>3, <3>1
          <5> QED  BY <3>2, <3>5, <3>7, <4>1, <5>1
        <4>3. ~(i < j)
          <5> SUFFICES ASSUME i < j PROVE FALSE
            OBVIOUS
          <5>1. L(i) + 1 < F(j) /\ F(i) <= L(i) /\ F(i) \in Nat /\ L(i) \in Nat
            BY <1>3, <3>1
          <5> QED  BY <3>2, <3>7, <4>1, <5>1
        <4>4. i = j
          BY <1>1, <3>1, <4>2, <4>3
        <4> QED  BY <2>4, <3>1, <4>1, <4>4
      <3>9. Cardinality(DOMAIN ms) # 1
        BY <1>7, <3>3
      <3>10. ms[it].first = F(j + 1)
        BY <2>4, <3>1, <3>5
      <3>11. fastGapExists(f, Sm) = F(j + 1) - 1
        BY <1>6, <2>5, <3>4, <3>6, <3>8, <3>9, <3>10
      <3> QED  BY <1>4, <2>5, <3>11
    <2>6. ASSUME \A j \in 1 .. (n - 1) : Sm # L(j) + 1 PROVE fastGapExists(f, Sm) = E
      <3>1. ASSUME Sm >= f.first, it # End, ms[p].last + 1 = Sm PROVE FALSE
        <4>1. f.first < it
          BY <2>2, <2>3, <3>1
        <4>2. p \in DOMAIN ms /\ p < it /\ it \in DOMAIN ms
          BY <2>2, <3>1, <4>1
        <4>3. PICK h \in 1 .. n : p = F(h)
          BY <1>2, <4>2
        <4>4. PICK i \in 1 .. n : it = F(i)
          BY <1>2, <4>2
        <4>5. h < i
          <5> SUFFICES ASSUME i <= h PROVE FALSE
            BY <1>1
          <5>1. F(i) <= F(h) /\ F(i) \in Nat /\ F(h) \in Nat
            BY <1>3
          <5> QED  BY <4>2, <4>3, <4>4, <5>1
        <4>6. h \in 1 .. (n - 1)
          BY <1>1, <4>5
        <4>7. ms[p].last = L(h)
          BY <2>4, <4>3
        <4> QED  BY <2>6, <3>1, <4>6, <4>7
      <3>2. fastGapExists(f, Sm) = 0
        BY <1>6, <3>1
      <3> QED  BY <1>4, <2>6, <3>2
    <2>7. fastGapExists(f, Sm) = E
      BY <2>5, <2>6
    <2> QED  BY <2>7 DEF f, E
  <1> QED  BY <1>8, <1>9

-----------------------------------------------------------------------------
\* removeMonadsBefore

\* What is left of f when the monads before m are gone, whatever the keys.
RestOf(r, f, m) ==
    /\ Ordered(r.ms) /\ FBounds(r.ms, r.first, r.last)
    /\ \A x \in Nat : FCovers(r.ms, x) <=> FCovers(f.ms, x) /\ m <= x

\* Entries from c on.
LEMMA ErasedBefore ==
    ASSUME NEW ms, NEW c
    PROVE  /\ \A k : k \in DOMAIN eraseBefore(ms, c) <=> k \in DOMAIN ms /\ k >= c
           /\ \A k \in DOMAIN eraseBefore(ms, c) : eraseBefore(ms, c)[k] = ms[k]
           /\ eraseBefore(ms, c) = [k \in DOMAIN eraseBefore(ms, c) |-> eraseBefore(ms, c)[k]]
  <1> DEFINE D == {k \in DOMAIN ms : k >= c}
             e == [k \in D |-> ms[k]]
  <1>1. eraseBefore(ms, c) = e
    BY Zenon DEF eraseBefore, Restrict
  <1>2. DOMAIN e = D /\ (\A k \in D : e[k] = ms[k]) /\ e = [k \in DOMAIN e |-> e[k]]
    OBVIOUS
  <1>3. \A k : k \in D <=> k \in DOMAIN ms /\ k >= c
    OBVIOUS
  <1> HIDE DEF e, D
  <1> QED  BY <1>1, <1>2, <1>3

\* The entries from c on, where none before it reaches m.
LEMMA KeptFrom ==
    ASSUME NEW f, FRep(f), NEW m \in Nat, NEW c \in DOMAIN f.ms, m <= c,
           \A j \in DOMAIN f.ms : j < c => f.ms[j].last < m
    PROVE  RestOf(Fast(eraseBefore(f.ms, c), c, f.last), f, m)
  <1> DEFINE ms == f.ms
             e == eraseBefore(ms, c)
             L(j) == ms[j].last
             r == Fast(e, c, f.last)
  <1>1. FGood(ms) /\ DOMAIN ms # {}
    BY DEF FRep
  <1>2. /\ \A k : k \in DOMAIN e <=> k \in DOMAIN ms /\ k >= c
        /\ \A k \in DOMAIN e : e[k] = ms[k]
        /\ e = [k \in DOMAIN e |-> e[k]]
    BY ErasedBefore
  <1>3. /\ End \in Nat /\ c \in Nat
        /\ \A j \in DOMAIN ms : j \in Nat /\ L(j) \in Nat /\ j <= L(j) /\ j < End
        /\ \A x : FCovers(ms, x) <=> \E j \in DOMAIN ms : j <= x /\ x <= L(j)
    BY Entries
  <1>4. Ordered(ms) /\ \A j \in DOMAIN ms : ms[j].first = j
    BY <1>1, GoodIsOrdered, MapParts
  <1>5. /\ f.last \in Nat /\ FCovers(ms, f.last)
        /\ \A x \in Nat : FCovers(ms, x) => x <= f.last
        /\ \A j \in DOMAIN ms : L(j) <= f.last
    BY <1>1, FastEnds
  <1>6. \A j \in DOMAIN ms : j < c => L(j) < m
    OBVIOUS
  <1>7. r.ms = e /\ r.first = c /\ r.last = f.last
    BY FastFields
  <1> HIDE DEF e, r, ms, L
  <1>8. Ordered(e)
    <2>1. Keyed(e)
      BY <1>2, <1>4 DEF Ordered, Keyed
    <2> QED  BY <1>2, <1>4, <2>1 DEF Ordered
  <1>9. \A x : FCovers(e, x) <=> \E j \in DOMAIN ms : j >= c /\ j <= x /\ x <= L(j)
    BY <1>2, <1>4 DEF FCovers, In, L
  <1>10. \A x \in Nat : FCovers(e, x) <=> FCovers(ms, x) /\ m <= x
    <2> SUFFICES ASSUME NEW x \in Nat PROVE FCovers(e, x) <=> FCovers(ms, x) /\ m <= x
      OBVIOUS
    <2>1. ASSUME NEW j \in DOMAIN ms, j <= x, x <= L(j) PROVE j >= c <=> m <= x
      <3>1. j \in Nat /\ L(j) \in Nat /\ (j < c => L(j) < m)
        BY <1>3, <1>6
      <3> QED  BY <1>3, <2>1, <3>1
    <2> QED  BY <1>3, <1>9, <2>1
  <1>11. FBounds(e, c, f.last)
    <2>1. FCovers(e, c) /\ c \in DOMAIN e
      <3>1. c \in DOMAIN ms /\ c <= L(c) /\ c >= c
        BY <1>3 DEF ms
      <3> QED  BY <1>2, <1>9, <3>1
    <2>2. m <= f.last
      <3>1. c <= L(c) /\ L(c) <= f.last /\ L(c) \in Nat
        BY <1>3, <1>5 DEF ms
      <3> QED  BY <1>3, <1>5, <3>1
    <2>3. FCovers(e, f.last)
      BY <1>5, <1>10, <2>2
    <2>4. ASSUME NEW x \in Nat, FCovers(e, x) PROVE c <= x /\ x <= f.last
      <3>1. PICK j \in DOMAIN ms : j >= c /\ j <= x
        BY <1>9, <2>4
      <3>2. c <= x
        BY <1>3, <3>1
      <3> QED  BY <1>5, <1>10, <2>4, <3>2
    <2> QED  BY <1>3, <1>5, <2>1, <2>3, <2>4 DEF FBounds
  <1> QED  BY <1>7, <1>8, <1>10, <1>11 DEF RestOf, r, e, ms

\* The entries from c on, with the one at c cut at m.
LEMMA CutFrom ==
    ASSUME NEW f, FRep(f), NEW m \in Nat, 1 <= m, NEW c \in DOMAIN f.ms, c <= m, m <= f.ms[c].last
    PROVE  RestOf(Fast(eraseBefore([f.ms EXCEPT ![c].first = m], c), m, f.last), f, m)
  <1> DEFINE ms == f.ms
             d == [ms EXCEPT ![c].first = m]
             e == eraseBefore(d, c)
             L(j) == ms[j].last
             r == Fast(e, m, f.last)
  <1>1. FGood(ms) /\ DOMAIN ms # {}
    BY DEF FRep
  <1>2. /\ \A k : k \in DOMAIN e <=> k \in DOMAIN d /\ k >= c
        /\ \A k \in DOMAIN e : e[k] = d[k]
        /\ e = [k \in DOMAIN e |-> e[k]]
    <2> HIDE DEF d
    <2> QED  BY ErasedBefore
  <1>3. /\ End \in Nat /\ c \in Nat
        /\ \A j \in DOMAIN ms : /\ j \in Nat /\ L(j) \in Nat /\ j <= L(j) /\ j < End
                                /\ ms[j].first = j /\ ms[j] \in Stretch
        /\ \A j, k \in DOMAIN ms : j < k => L(j) + 1 < k
        /\ \A x : FCovers(ms, x) <=> \E j \in DOMAIN ms : j <= x /\ x <= L(j)
    BY <1>1, Entries DEF FGood
  <1>4. Ordered(ms)
    BY <1>1, GoodIsOrdered
  <1>5. /\ f.last \in Nat /\ FCovers(ms, f.last)
        /\ \A x \in Nat : FCovers(ms, x) => x <= f.last
        /\ \A j \in DOMAIN ms : L(j) <= f.last
    BY <1>1, FastEnds
  <1>6. /\ DOMAIN d = DOMAIN ms /\ \A k \in DOMAIN ms : k # c => d[k] = ms[k]
        /\ d[c] = MSE(m, L(c)) /\ d[c].first = m /\ d[c].last = L(c)
    <2>1. d[c] = [ms[c] EXCEPT !.first = m]
      OBVIOUS
    <2>2. ms[c] = [first |-> ms[c].first, last |-> ms[c].last]
      BY <1>3 DEF Stretch
    <2>3. [ms[c] EXCEPT !.first = m] = [first |-> m, last |-> ms[c].last]
      BY <2>2
    <2> QED  BY <2>1, <2>3 DEF MSE
  <1>7. r.ms = e /\ r.first = m /\ r.last = f.last
    BY FastFields
  <1>8. c \in DOMAIN ms /\ m <= L(c) /\ L(c) \in Nat
    BY <1>3
  <1> HIDE DEF e, r, ms, L, d
  <1>9. d[c] \in Stretch
    BY <1>6, <1>8, StretchTypes
  <1>10. Ordered(e)
    <2>1. Keyed(e)
      BY <1>2, <1>4, <1>6 DEF Ordered, Keyed
    <2>2. \A k \in DOMAIN e : /\ k \in DOMAIN ms /\ k >= c /\ e[k] \in Stretch /\ e[k].last = L(k)
                              /\ (k # c => e[k].first = k) /\ e[k] = d[k]
      BY <1>2, <1>3, <1>6, <1>9 DEF L
    <2>3. ASSUME NEW j \in DOMAIN e, NEW k \in DOMAIN e, j < k PROVE e[j].last + 1 < e[k].first
      <3>1. k # c
        BY <1>3, <2>2, <2>3
      <3> QED  BY <1>3, <2>2, <2>3, <3>1
    <2> QED  BY <2>1, <2>2, <2>3 DEF Ordered
  <1>11. \A x \in Nat : FCovers(e, x) <=> FCovers(ms, x) /\ m <= x
    <2> SUFFICES ASSUME NEW x \in Nat PROVE FCovers(e, x) <=> FCovers(ms, x) /\ m <= x
      OBVIOUS
    <2>1. ASSUME NEW k \in DOMAIN e, In(e[k], x) PROVE FCovers(ms, x) /\ m <= x
      <3>1. k \in DOMAIN ms /\ k >= c /\ e[k] = d[k] /\ k \in Nat /\ L(k) \in Nat
        BY <1>2, <1>3, <1>6
      <3>2. CASE k = c
        <4>1. m <= x /\ x <= L(c)
          BY <1>6, <2>1, <3>1, <3>2 DEF In
        <4>2. c <= x
          BY <1>3, <4>1
        <4> QED  BY <1>3, <1>8, <4>1, <4>2
      <3>3. CASE k # c
        <4>1. k <= x /\ x <= L(k)
          BY <1>3, <1>6, <2>1, <3>1, <3>3 DEF In, L
        <4>2. L(c) + 1 < k
          <5>1. c < k
            BY <1>3, <3>1, <3>3
          <5> QED  BY <1>3, <1>8, <3>1, <5>1
        <4>3. m <= x
          BY <1>8, <3>1, <4>1, <4>2
        <4> QED  BY <1>3, <3>1, <4>1, <4>3
      <3> QED  BY <3>2, <3>3
    <2>2. ASSUME NEW j \in DOMAIN ms, j <= x, x <= L(j), m <= x PROVE FCovers(e, x)
      <3>1. j \in Nat /\ L(j) \in Nat /\ ms[j].first = j /\ ms[j].last = L(j)
        BY <1>3 DEF L
      <3>2. ~(j < c)
        <4>1. j < c => L(j) + 1 < c
          BY <1>3, <1>8
        <4> QED  BY <1>3, <2>2, <3>1, <4>1
      <3>3. j \in DOMAIN e /\ e[j] = d[j]
        BY <1>2, <1>3, <1>6, <3>1, <3>2
      <3>4. In(d[j], x)
        <4>1. CASE j = c
          BY <1>6, <2>2, <4>1 DEF In
        <4>2. CASE j # c
          BY <1>6, <2>2, <3>1, <4>2 DEF In
        <4> QED  BY <4>1, <4>2
      <3> QED  BY <3>3, <3>4 DEF FCovers
    <2>3. FCovers(e, x) <=> \E k \in DOMAIN e : In(e[k], x)
      BY DEF FCovers
    <2> QED  BY <1>3, <2>1, <2>2, <2>3
  <1>12. FBounds(e, m, f.last)
    <2>1. FCovers(ms, m) /\ FCovers(e, m)
      <3>1. FCovers(ms, m)
        BY <1>3, <1>8
      <3> QED  BY <1>11, <3>1
    <2>2. DOMAIN e # {}
      BY <2>1 DEF FCovers
    <2>3. m <= f.last
      BY <1>5, <2>1
    <2>4. FCovers(e, f.last)
      BY <1>5, <1>11, <2>3
    <2>5. \A x \in Nat : FCovers(e, x) => m <= x /\ x <= f.last
      BY <1>5, <1>11
    <2> QED  BY <1>5, <2>1, <2>2, <2>4, <2>5 DEF FBounds
  <1> QED  BY <1>7, <1>10, <1>11, <1>12 DEF RestOf, r, e, d, ms

\* removeMonadsBefore.
LEMMA BeforeRemoved ==
    ASSUME NEW f, FRep(f), NEW m \in Nat, 1 <= m, m < End,
           \A x \in Nat : FCovers(f.ms, x) => x < MAX_MONAD
    PROVE  RestOf(removeMonadsBefore(f, m), f, m)
  <1> DEFINE ms == f.ms
             it == upper_bound(ms, m - 1)
             prev == predecessor(ms, it)
             rb == rbegin(ms)
             L(j) == ms[j].last
             CutAt(k) == Fast(eraseBefore([ms EXCEPT ![k].first = m], k), m, f.last)
             r == removeMonadsBefore(f, m)
  <1>1. r = IF fastIsEmpty(f) \/ f.last < m THEN EmptyFast
            ELSE IF f.first > m - 1 THEN f
            ELSE IF it = End THEN fastAddMSE(EmptyFast, MSE(m, L(rb)))
            ELSE IF ms[it].first = m THEN CutAt(it)
            ELSE IF L(prev) < m THEN Fast(eraseBefore(ms, it), ms[it].first, L(rb))
            ELSE CutAt(prev)
    BY Zenon DEF removeMonadsBefore
  <1>2. /\ End \in Nat
        /\ \A j \in DOMAIN ms : /\ j \in Nat /\ 1 <= j /\ j < End /\ ms[j].first = j
                                /\ L(j) \in Nat /\ j <= L(j)
        /\ \A j, k \in DOMAIN ms : j < k => L(j) + 1 < k
        /\ \A x : FCovers(ms, x) <=> \E j \in DOMAIN ms : j <= x /\ x <= L(j)
    BY Entries
  <1>3. FGood(ms) /\ FBounds(ms, f.first, f.last) /\ Ordered(ms)
    BY GoodIsOrdered DEF FRep
  <1> SUFFICES RestOf(r, f, m)
    OBVIOUS
  <1> HIDE DEF r
  <1>4. CASE DOMAIN ms = {} \/ (DOMAIN ms # {} /\ f.last < m)
    <2>1. \A x \in Nat : ~(FCovers(ms, x) /\ m <= x)
      <3>1. CASE DOMAIN ms = {}
        BY <3>1 DEF FCovers
      <3>2. CASE DOMAIN ms # {} /\ f.last < m
        <4>1. f.last \in Nat /\ \A x \in Nat : FCovers(ms, x) => x <= f.last
          BY <3>2, FastEnds
        <4> QED  BY <3>2, <4>1
      <3> QED  BY <1>4, <3>1, <3>2
    <2>2. r = EmptyFast
      BY <1>1, <1>4, Zenon DEF fastIsEmpty
    <2>3. FRep(EmptyFast) /\ DOMAIN EmptyFast.ms = {}
      BY EmptyFastRep
    <2>4. Ordered(EmptyFast.ms) /\ FBounds(EmptyFast.ms, EmptyFast.first, EmptyFast.last)
          /\ \A x : ~FCovers(EmptyFast.ms, x)
      BY <2>3, GoodIsOrdered DEF FRep, FCovers
    <2> QED  BY <2>1, <2>2, <2>4 DEF RestOf
  <1>5. CASE DOMAIN ms # {} /\ ~(f.last < m)
    <2>1. /\ f.first \in Nat /\ f.last \in Nat /\ m <= f.last /\ FCovers(ms, f.last)
          /\ \A x \in Nat : FCovers(ms, x) => f.first <= x /\ x <= f.last
      BY <1>5, FastEnds
    <2>2. m - 1 \in Nat /\ m - 1 < End
      BY <1>2
    <2>3. Searched(f, m - 1, it, prev, rb)
      BY <1>5, <2>2, FastSearch
    <2>4. ~(fastIsEmpty(f) \/ f.last < m)
      BY <1>5 DEF fastIsEmpty
    <2>5. r = IF f.first > m - 1 THEN f
              ELSE IF it = End THEN fastAddMSE(EmptyFast, MSE(m, L(rb)))
              ELSE IF ms[it].first = m THEN CutAt(it)
              ELSE IF L(prev) < m THEN Fast(eraseBefore(ms, it), ms[it].first, L(rb))
              ELSE CutAt(prev)
      BY <1>1, <2>4, Zenon
    <2> HIDE DEF it, prev, rb
    <2>6. /\ it \in Nat /\ m - 1 < it /\ it <= End /\ (it # End => it \in DOMAIN ms)
          /\ \A j \in DOMAIN ms : j > m - 1 => it <= j
          /\ f.first < it => prev \in DOMAIN ms /\ prev < it /\ \A j \in DOMAIN ms : j < it => j <= prev
          /\ rb \in DOMAIN ms /\ L(rb) = f.last /\ \A j \in DOMAIN ms : j <= rb
      BY <2>3 DEF Searched
    <2>7. CASE f.first > m - 1
      <3>1. r = f
        BY <2>5, <2>7
      <3>2. \A x \in Nat : FCovers(ms, x) => m <= x
        BY <2>1, <2>7
      <3> QED  BY <1>3, <3>1, <3>2 DEF RestOf
    <2>8. CASE ~(f.first > m - 1) /\ it = End
      <3> DEFINE e == MSE(m, f.last)
      <3>1. r = fastAddMSE(EmptyFast, e)
        BY <2>5, <2>6, <2>8
      <3>2. f.last < MAX_MONAD /\ MAX_MONAD \in Nat
        BY <2>1, MaxMonadAssumption
      <3>3. e \in Stretch /\ e.first = m /\ e.last = f.last
        BY <2>1, StretchTypes
      <3>4. e \in LowStretch
        BY <3>2, <3>3 DEF LowStretch, End
      <3> HIDE DEF e
      <3>5. FRep(EmptyFast) /\ \A x : ~FCovers(EmptyFast.ms, x)
        BY EmptyFastRep DEF FCovers
      <3>6. FRep(r) /\ \A x \in Nat : FCovers(r.ms, x) <=> In(e, x)
        BY <3>1, <3>4, <3>5, LowTypes, FastAddRep
      <3>7. rb \in Nat /\ rb <= m - 1
        <4>1. rb \in Nat /\ rb < End /\ (rb > m - 1 => it <= rb)
          BY <1>2, <2>6
        <4> QED  BY <1>2, <2>8, <4>1
      <3>8. \A x \in Nat : m <= x /\ x <= f.last => FCovers(ms, x)
        <4> SUFFICES ASSUME NEW x \in Nat, m <= x, x <= f.last PROVE FCovers(ms, x)
          OBVIOUS
        <4>1. rb <= x /\ x <= L(rb)
          BY <2>6, <3>7
        <4> QED  BY <1>2, <2>6, <4>1
      <3>9. \A x \in Nat : FCovers(r.ms, x) <=> FCovers(ms, x) /\ m <= x
        BY <2>1, <3>3, <3>6, <3>8 DEF In
      <3> QED  BY <3>6, <3>9, GoodIsOrdered DEF RestOf, FRep
    <2>9. CASE ~(f.first > m - 1) /\ it # End /\ ms[it].first = m
      <3>1. r = CutAt(it)
        BY <2>5, <2>9
      <3>2. it \in DOMAIN ms /\ it <= m /\ m <= L(it)
        BY <1>2, <2>6, <2>9
      <3> HIDE DEF it, L
      <3>3. RestOf(CutAt(it), f, m)
        BY <3>2, CutFrom DEF L
      <3> QED  BY <3>1, <3>3
    <2>10. CASE ~(f.first > m - 1) /\ it # End /\ ms[it].first # m /\ L(prev) < m
      <3>1. r = Fast(eraseBefore(ms, it), it, f.last)
        BY <1>2, <2>5, <2>6, <2>10
      <3>2. it \in DOMAIN ms /\ m <= it
        BY <1>2, <2>6, <2>10
      <3>3. prev \in DOMAIN ms /\ \A j \in DOMAIN ms : j < it => j <= prev
        <4>1. f.first < it
          BY <2>1, <2>6, <2>10
        <4> QED  BY <2>6, <4>1
      <3>4. ASSUME NEW j \in DOMAIN ms, j < it PROVE L(j) < m
        <4>1. j \in Nat /\ prev \in Nat /\ L(j) \in Nat /\ L(prev) \in Nat /\ prev <= L(prev)
              /\ j <= prev /\ (j < prev => L(j) + 1 < prev)
          BY <1>2, <3>3, <3>4
        <4>2. j = prev => L(j) = L(prev)
          OBVIOUS
        <4> QED  BY <2>10, <4>1, <4>2
      <3>5. RestOf(Fast(eraseBefore(ms, it), it, f.last), f, m)
        BY <3>2, <3>4, KeptFrom
      <3> QED  BY <3>1, <3>5
    <2>11. CASE ~(f.first > m - 1) /\ it # End /\ ms[it].first # m /\ ~(L(prev) < m)
      <3>1. r = CutAt(prev)
        BY <2>5, <2>11
      <3>2. prev \in DOMAIN ms /\ prev < it
        <4>1. f.first < it
          BY <2>1, <2>6, <2>11
        <4> QED  BY <2>6, <4>1
      <3>3. prev <= m /\ m <= L(prev)
        <4>1. prev \in Nat /\ L(prev) \in Nat /\ (prev > m - 1 => it <= prev)
          BY <1>2, <2>6, <3>2
        <4> QED  BY <2>6, <2>11, <3>2, <4>1
      <3> HIDE DEF L
      <3>4. RestOf(CutAt(prev), f, m)
        BY <3>2, <3>3, CutFrom DEF L
      <3> QED  BY <3>1, <3>4
    <2> QED  BY <2>7, <2>8, <2>9, <2>10, <2>11
  <1> QED  BY <1>4, <1>5

\* removeMonadsBefore leaves the monads from m on, though under an old key,
\* with exact bounds.
LEMMA BeforeAgrees ==
    ASSUME NEW s, Below(s), NEW m \in Nat, 1 <= m, m < End
    PROVE  LET r == removeMonadsBefore(fromSetOfMonads(s), m)
           IN  SOM(elements(r), r.first, r.last) = removeMSE(s, MSE(0, m - 1))
  <1> DEFINE f == fromSetOfMonads(s)
             r == removeMonadsBefore(f, m)
             e == elements(r)
             B == MSE(0, m - 1)
             R == removeMSE(s, B)
             p == R.mses
  <1>1. FRep(f) /\ \A x \in Nat : FCovers(f.ms, x) <=> Covers(s.mses, x)
    BY FromRep DEF FBelow
  <1>2. s \in Rep /\ \A x \in Nat : Covers(s.mses, x) => x < MAX_MONAD
    BY DEF Below
  <1>3. RestOf(r, f, m)
    BY <1>1, <1>2, BeforeRemoved
  <1>4. B \in Span /\ \A x \in Nat : In(B, x) <=> ~(m <= x)
    <2>1. B = [first |-> 0, last |-> m - 1] /\ B.first = 0 /\ B.last = m - 1 /\ m - 1 \in Nat
          /\ 0 <= m - 1
      BY DEF MSE
    <2>2. B \in Span
      BY <2>1 DEF Span
    <2> QED  BY <2>1, <2>2 DEF In
  <1>5. R \in Rep /\ \A x \in Nat : Covers(p, x) <=> Covers(s.mses, x) /\ ~In(B, x)
    BY <1>2, <1>4, RemoveSpan
  <1> HIDE DEF B, R, f, r
  <1>6. R = SOM(p, R.first, R.last) /\ Good(p) /\ Exact(R) /\ R.first \in Nat /\ R.last \in Nat
    BY <1>5, RepParts DEF Rep
  <1>7. /\ Ordered(r.ms) /\ FBounds(r.ms, r.first, r.last)
        /\ \A x \in Nat : FCovers(r.ms, x) <=> Covers(p, x)
    BY <1>1, <1>3, <1>4, <1>5 DEF RestOf
  <1>8. /\ Good(e) /\ \A x : Covers(e, x) <=> FCovers(r.ms, x)
    BY <1>7, ElementsList
  <1>9. e = << >> <=> DOMAIN r.ms = {}
    BY <1>7, ElementsList
  <1> HIDE DEF e, p
  <1>10. \A x \in Nat : Covers(p, x) => x < End
    BY <1>2, <1>5 DEF End
  <1>11. \A g : Good(g) /\ (\A x \in Nat : Covers(g, x) => x < End)
               => \A i \in 1 .. Len(g) : g[i].first < End
    <2> SUFFICES ASSUME NEW g, Good(g), \A x \in Nat : Covers(g, x) => x < End, NEW i \in 1 .. Len(g)
                 PROVE  g[i].first < End
      OBVIOUS
    <2>1. g[i] \in Stretch
      BY ListEnds
    <2>2. g[i].first \in Nat /\ In(g[i], g[i].first)
      BY <2>1, StretchEnds
    <2> QED  BY <2>2 DEF Covers
  <1>12. e = p
    BY <1>6, <1>7, <1>8, <1>10, <1>11, SameLists
  <1>13. r.first = R.first /\ r.last = R.last
    <2>1. CASE DOMAIN r.ms = {}
      <3>1. r.first = MAX_MONAD /\ r.last = 0 /\ R.mses = << >>
        BY <1>7, <1>9, <1>12, <2>1 DEF FBounds, p
      <3> QED  BY <1>6, <3>1 DEF Exact
    <2>2. CASE DOMAIN r.ms # {}
      <3>1. /\ r.first \in Nat /\ r.last \in Nat /\ FCovers(r.ms, r.first) /\ FCovers(r.ms, r.last)
            /\ \A x \in Nat : FCovers(r.ms, x) => r.first <= x /\ x <= r.last
        BY <1>7, <2>2, Zenon DEF FBounds
      <3>2. /\ Covers(p, R.first) /\ Covers(p, R.last)
            /\ \A x \in Nat : Covers(p, x) => R.first <= x /\ x <= R.last
        BY <1>5, <1>9, <1>12, <2>2, RepEnds DEF p
      <3>3. r.first <= R.first /\ R.first <= r.first /\ r.last <= R.last /\ R.last <= r.last
        BY <1>6, <1>7, <3>1, <3>2
      <3> QED  BY <1>6, <3>1, <3>3
    <2> QED  BY <2>1, <2>2
  <1> QED  BY <1>6, <1>12, <1>13 DEF e, r, f, R, B

-----------------------------------------------------------------------------
\* All methods of both classes

\* What the methods with a range or a monad for an argument do to a set.
LEMMA RangeMethodsAgree ==
    ASSUME NEW s, Below(s), NEW e \in LowStretch
    PROVE  LET f == fromSetOfMonads(s)
           IN  /\ fastAddMSE(f, e) = fromSetOfMonads(addMSE(s, e))
               /\ fastRemoveMSE(f, e) = fromSetOfMonads(removeMSE(s, e))
               /\ fastHasMonadsInRange(f, e.first, e.last) <=> hasMonadsInRange(s, e.first, e.last)
  <1> DEFINE f == fromSetOfMonads(s)
             g == e.first
             l == e.last
  <1>1. g \in Nat /\ l \in Nat /\ 1 <= g /\ g <= l /\ l < End
    BY LowTypes, StretchTypes
  <1>2. s \in Rep /\ FRep(f) /\ \A x \in Nat : FCovers(f.ms, x) <=> Covers(s.mses, x)
    BY BelowUsed, FromRep DEF FBelow
  <1> HIDE DEF f, g, l
  <1>3. fastHasMonadsInRange(f, g, l) <=> hasMonadsInRange(s, g, l)
    <2>1. fastHasMonadsInRange(f, g, l) <=> \E x \in g .. l : FCovers(f.ms, x)
      BY <1>1, <1>2, FastRange
    <2>2. hasMonadsInRange(s, g, l) <=> \E x \in g .. l : Covers(s.mses, x)
      BY <1>1, <1>2, RangeExact
    <2>3. g .. l \in SUBSET Nat
      BY <1>1
    <2> QED  BY <1>2, <2>1, <2>2, <2>3
  <1> QED  BY <1>3, AddAgrees, RemoveAgrees DEF f, g, l

\* What the methods with a monad, a gap or a distance for an argument do to a
\* set.
LEMMA MonadMethodsAgree ==
    ASSUME NEW s, Below(s), NEW m \in Nat, 1 <= m, m < End
    PROVE  LET f == fromSetOfMonads(s)
           IN  /\ fastIsMemberOf(f, m) <=> isMemberOf(s, m)
               /\ fastGapExists(f, m) = gapExists(s, m)
               /\ fastHasLargerGap(f, m) <=> hasLargerGap(s, m)
               /\ fastFillGaps(f, m) = fromSetOfMonads(fillGaps(s, m))
               /\ ~isEmpty(s) /\ s.last + m < MAX_MONAD
                     => fastOffset(f, m) = fromSetOfMonads(offset(s, m))
               /\ LET r == removeMonadsBefore(f, m)
                  IN  SOM(elements(r), r.first, r.last) = removeMSE(s, MSE(0, m - 1))
  <1> DEFINE f == fromSetOfMonads(s)
  <1>1. s \in Rep /\ FRep(f) /\ \A x \in Nat : FCovers(f.ms, x) <=> Covers(s.mses, x)
    BY BelowUsed, FromRep DEF FBelow
  <1>2. fastIsMemberOf(f, m) <=> isMemberOf(s, m)
    <2> HIDE DEF f
    <2>1. fastIsMemberOf(f, m) <=> FCovers(f.ms, m)
      BY <1>1, FastMember
    <2>2. isMemberOf(s, m) <=> Covers(s.mses, m)
      BY <1>1, MemberExact
    <2> QED  BY <1>1, <2>1, <2>2
  <1>3. fastGapExists(f, m) = gapExists(s, m)
    BY FastGapAgrees
  <1>4. fastHasLargerGap(f, m) <=> hasLargerGap(s, m)
    BY FastLargerGapAgrees
  <1>5. fastFillGaps(f, m) = fromSetOfMonads(fillGaps(s, m))
    BY FillAgrees
  <1>6. ~isEmpty(s) /\ s.last + m < MAX_MONAD
           => fastOffset(f, m) = fromSetOfMonads(offset(s, m))
    BY OffsetAgrees
  <1>7. LET r == removeMonadsBefore(f, m)
        IN  SOM(elements(r), r.first, r.last) = removeMSE(s, MSE(0, m - 1))
    BY BeforeAgrees
  <1> HIDE DEF f
  <1> QED  BY <1>2, <1>3, <1>4, <1>5, <1>6, <1>7, Zenon DEF f

\* Every method of FastSetOfMonads does to a set what its namesake does in
\* SetOfMonads, and gives the same answer, on all objects the methods build.
THEOREM FastSetsAlwaysAgree == ~OffsetsEmptySets => (Spec => []FastSetsAgree)
  <1> SUFFICES ASSUME ~OffsetsEmptySets PROVE Spec => []FastSetsAgree
    OBVIOUS
  <1>1. ObjectsInv => FastSetsAgree
    <2> SUFFICES ASSUME ObjectsInv PROVE FastSetsAgree
      OBVIOUS
    <2> DEFINE fa == fromSetOfMonads(a)
               fb == fromSetOfMonads(b)
               Ranges == {e \in [first : Monad, last : Monad] : e.first <= e.last}
    <2>1. Below(a) /\ Below(b)
      BY Bounds DEF ObjectsInv, InUse, Below
    <2>2. /\ toSetOfMonads(fa) = a
          /\ fastUnionWith(fa, fb) = fromSetOfMonads(unionWith(a, b))
          /\ fastDifference(fa, fb) = fromSetOfMonads(difference(a, b))
          /\ fastIntersect(fa, fb) = fromSetOfMonads(intersect(a, b))
      BY <2>1, ThereAndBack, SetMethodsAgree
    <2>3. /\ fastOverlap(a, fb) <=> overlap(a, b)
          /\ ~isEmpty(a) => (part_ofFast(a, fb) <=> part_of(a, b))
      BY <2>1, FastOverlapAgrees, FastPartAgrees
    <2>4. \A e \in Ranges : e \in LowStretch
      BY Bounds DEF Monad, LowStretch, Stretch, End
    <2>5. \A m \in Monad : m \in Nat /\ 1 <= m /\ m < End
      BY Bounds DEF Monad, End
    <2>6. \A e \in Ranges :
             /\ fastAddMSE(fa, e) = fromSetOfMonads(addMSE(a, e))
             /\ fastRemoveMSE(fa, e) = fromSetOfMonads(removeMSE(a, e))
             /\ fastHasMonadsInRange(fa, e.first, e.last)
                   <=> hasMonadsInRange(a, e.first, e.last)
      BY <2>1, <2>4, RangeMethodsAgree, Zenon
    <2>7. \A m \in Monad :
             /\ fastIsMemberOf(fa, m) <=> isMemberOf(a, m)
             /\ fastGapExists(fa, m) = gapExists(a, m)
             /\ fastHasLargerGap(fa, m) <=> hasLargerGap(a, m)
             /\ fastFillGaps(fa, m) = fromSetOfMonads(fillGaps(a, m))
             /\ ~isEmpty(a) /\ a.last + m < MAX_MONAD
                   => fastOffset(fa, m) = fromSetOfMonads(offset(a, m))
             /\ LET r == removeMonadsBefore(fa, m)
                IN  SOM(elements(r), r.first, r.last) = removeMSE(a, MSE(0, m - 1))
      BY <2>1, <2>5, MonadMethodsAgree, Zenon
    <2> HIDE DEF fa, fb, Ranges
    <2> QED  BY <2>2, <2>3, <2>6, <2>7, Zenon DEF FastSetsAgree, fa, fb, Ranges
  <1>2. Spec => []ObjectsInv
    BY ObjectsInvariant
  <1> QED  BY <1>1, <1>2, PTL
=============================================================================
