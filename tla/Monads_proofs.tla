---------------------------- MODULE Monads_proofs ----------------------------
(***************************************************************************)
(* What the algorithms of class SetOfMonads compute, for every list.       *)
(*                                                                         *)
(* A list of ranges that keeps the class invariant (Good) with exact       *)
(* cached bounds is in Rep, and Covers says which monads it stands for.    *)
(* The lemmas that end in Rep say of one method that its result is in Rep  *)
(* again and which monads it covers; those that end in Exact say what a    *)
(* test or a search answers.  Each follows from a loop invariant (the      *)
(* definitions that end in Inv) by induction over the list: module Loops   *)
(* gives the values of the loops, with the loop bodies for its parameters. *)
(***************************************************************************)
EXTENDS Monads, Induction, FiniteSetTheorems, TLAPS

-----------------------------------------------------------------------------
\* The loops over one list

\* For the parameters of Loops that a loop of one kind has no use for.
noStep(s, e, x, y) == s

noBorder(i, n) == FALSE

noCross(c, d, u, v) == FALSE

\* insertCarefully: the "insert carefully" loop of add.
insertStep(st, e, x, y) == insertVisit(st, e)

InsertLoop == INSTANCE Loops WITH Step <- insertStep, Border <- noBorder, Cross <- noCross

InsertRun(q, base) == InsertLoop!Run(q, base, 0, 0)

\* Its values, element by element.
LEMMA InsertChain ==
    ASSUME NEW q, Len(q) \in Nat, NEW base
    PROVE  /\ InsertRun(q, base)[1 .. 0] = base
           /\ \A k \in 1 .. Len(q) :
                 InsertRun(q, base)[1 .. k]
                    = insertVisit(InsertRun(q, base)[1 .. (k - 1)], q[k])
  BY NumbersInduct, InsertLoop!FoldChain
     DEF InsertLoop!Inductive, InsertRun, insertStep

\* unionWith and intersect: add every element of the other list.
addStep(s, e, x, y) == addMSE(s, e)

AddLoop == INSTANCE Loops WITH Step <- addStep, Border <- noBorder, Cross <- noCross

AddRun(q, base) == AddLoop!Run(q, base, 0, 0)

\* Its values, element by element.
LEMMA AddChain ==
    ASSUME NEW q, Len(q) \in Nat, NEW base
    PROVE  /\ AddRun(q, base)[1 .. 0] = base
           /\ \A k \in 1 .. Len(q) :
                 AddRun(q, base)[1 .. k]
                    = addMSE(AddRun(q, base)[1 .. (k - 1)], q[k])
  BY NumbersInduct, AddLoop!FoldChain
     DEF AddLoop!Inductive, AddRun, addStep

\* removeMSE: the loop over the elements.
removeVisitStep(st, A, B, y) == removeVisit(st, A, B)

RemoveVisitLoop == INSTANCE Loops WITH Step <- removeVisitStep, Border <- noBorder, Cross <- noCross

RemoveVisitRun(q, base, B) == RemoveVisitLoop!Run(q, base, B, 0)

\* Its values, element by element.
LEMMA RemoveVisitChain ==
    ASSUME NEW q, Len(q) \in Nat, NEW base, NEW B
    PROVE  /\ RemoveVisitRun(q, base, B)[1 .. 0] = base
           /\ \A k \in 1 .. Len(q) :
                 RemoveVisitRun(q, base, B)[1 .. k]
                    = removeVisit(RemoveVisitRun(q, base, B)[1 .. (k - 1)], q[k], B)
  BY NumbersInduct, RemoveVisitLoop!FoldChain
     DEF RemoveVisitLoop!Inductive, RemoveVisitRun, removeVisitStep

\* difference: remove every element of the other list.
removeStep(s, e, x, y) == removeMSE(s, e)

RemoveLoop == INSTANCE Loops WITH Step <- removeStep, Border <- noBorder, Cross <- noCross

RemoveRun(q, base) == RemoveLoop!Run(q, base, 0, 0)

\* Its values, element by element.
LEMMA RemoveChain ==
    ASSUME NEW q, Len(q) \in Nat, NEW base
    PROVE  /\ RemoveRun(q, base)[1 .. 0] = base
           /\ \A k \in 1 .. Len(q) :
                 RemoveRun(q, base)[1 .. k]
                    = removeMSE(RemoveRun(q, base)[1 .. (k - 1)], q[k])
  BY NumbersInduct, RemoveLoop!FoldChain
     DEF RemoveLoop!Inductive, RemoveRun, removeStep

\* fillGaps.
fillStep(st, cur, min_gap, y) == fillVisit(st, cur, min_gap)

FillLoop == INSTANCE Loops WITH Step <- fillStep, Border <- noBorder, Cross <- noCross

FillRun(q, base, min_gap) == FillLoop!Run(q, base, min_gap, 0)

\* Its values, element by element.
LEMMA FillChain ==
    ASSUME NEW q, Len(q) \in Nat, NEW base, NEW min_gap
    PROVE  /\ FillRun(q, base, min_gap)[1 .. 0] = base
           /\ \A k \in 1 .. Len(q) :
                 FillRun(q, base, min_gap)[1 .. k]
                    = fillVisit(FillRun(q, base, min_gap)[1 .. (k - 1)], q[k], min_gap)
  BY NumbersInduct, FillLoop!FoldChain
     DEF FillLoop!Inductive, FillRun, fillStep

\* getGaps.
gapStep(st, cur, x, y) == gapVisit(st, cur)

GapLoop == INSTANCE Loops WITH Step <- gapStep, Border <- noBorder, Cross <- noCross

GapRun(q, base) == GapLoop!Run(q, base, 0, 0)

\* Its values, element by element.
LEMMA GapChain ==
    ASSUME NEW q, Len(q) \in Nat, NEW base
    PROVE  /\ GapRun(q, base)[1 .. 0] = base
           /\ \A k \in 1 .. Len(q) :
                 GapRun(q, base)[1 .. k]
                    = gapVisit(GapRun(q, base)[1 .. (k - 1)], q[k])
  BY NumbersInduct, GapLoop!FoldChain
     DEF GapLoop!Inductive, GapRun, gapStep

\* fillInsertRange: move, and add again.
movedStep(r, A, first, last) == addMSE(r, moved(A, first, last))

MovedLoop == INSTANCE Loops WITH Step <- movedStep, Border <- noBorder, Cross <- noCross

MovedRun(q, base, first, last) == MovedLoop!Run(q, base, first, last)

\* Its values, element by element.
LEMMA MovedChain ==
    ASSUME NEW q, Len(q) \in Nat, NEW base, NEW first, NEW last
    PROVE  /\ MovedRun(q, base, first, last)[1 .. 0] = base
           /\ \A k \in 1 .. Len(q) :
                 MovedRun(q, base, first, last)[1 .. k]
                    = addMSE(MovedRun(q, base, first, last)[1 .. (k - 1)], moved(q[k], first, last))
  BY NumbersInduct, MovedLoop!FoldChain
     DEF MovedLoop!Inductive, MovedRun, movedStep

\* The methods' folds over a list are these.
LEMMA LoopsAreFolds ==
    ASSUME NEW q, DOMAIN q = 1 .. Len(q)
    PROVE  /\ \A base : FoldLeft(insertVisit, base, q) = InsertRun(q, base)[1 .. Len(q)]
           /\ \A base : FoldLeft(addMSE, base, q) = AddRun(q, base)[1 .. Len(q)]
           /\ \A base : FoldLeft(removeMSE, base, q) = RemoveRun(q, base)[1 .. Len(q)]
           /\ \A base : FoldLeft(gapVisit, base, q) = GapRun(q, base)[1 .. Len(q)]
  <1>1. \A base : FoldLeft(insertVisit, base, q) = InsertRun(q, base)[1 .. Len(q)]
    BY Zenon DEF FoldLeft, MapThenFoldSet, InsertRun, insertStep,
         InsertLoop!Run, InsertLoop!Fold, InsertLoop!Greatest, Max
  <1>2. \A base : FoldLeft(addMSE, base, q) = AddRun(q, base)[1 .. Len(q)]
    BY Zenon DEF FoldLeft, MapThenFoldSet, AddRun, addStep,
         AddLoop!Run, AddLoop!Fold, AddLoop!Greatest, Max
  <1>3. \A base : FoldLeft(removeMSE, base, q) = RemoveRun(q, base)[1 .. Len(q)]
    BY Zenon DEF FoldLeft, MapThenFoldSet, RemoveRun, removeStep,
         RemoveLoop!Run, RemoveLoop!Fold, RemoveLoop!Greatest, Max
  <1>4. \A base : FoldLeft(gapVisit, base, q) = GapRun(q, base)[1 .. Len(q)]
    BY Zenon DEF FoldLeft, MapThenFoldSet, GapRun, gapStep,
         GapLoop!Run, GapLoop!Fold, GapLoop!Greatest, Max
  <1> QED  BY <1>1, <1>2, <1>3, <1>4

\* The same for the loops that look at an argument of their method.
LEMMA LoopsWithArguments ==
    ASSUME NEW q, DOMAIN q = 1 .. Len(q), NEW base, NEW B, NEW first, NEW last, NEW min_gap
    PROVE  /\ FoldLeft(LAMBDA st, A : removeVisit(st, A, B), base, q)
                = RemoveVisitRun(q, base, B)[1 .. Len(q)]
           /\ FoldLeft(LAMBDA st, cur : fillVisit(st, cur, min_gap), base, q)
                = FillRun(q, base, min_gap)[1 .. Len(q)]
           /\ FoldLeft(LAMBDA r, A : addMSE(r, moved(A, first, last)), base, q)
                = MovedRun(q, base, first, last)[1 .. Len(q)]
  <1>1. FoldLeft(LAMBDA st, A : removeVisit(st, A, B), base, q)
                = RemoveVisitRun(q, base, B)[1 .. Len(q)]
    BY Zenon DEF FoldLeft, MapThenFoldSet, RemoveVisitRun, removeVisitStep,
         RemoveVisitLoop!Run, RemoveVisitLoop!Fold, RemoveVisitLoop!Greatest, Max
  <1>2. FoldLeft(LAMBDA st, cur : fillVisit(st, cur, min_gap), base, q)
                = FillRun(q, base, min_gap)[1 .. Len(q)]
    BY Zenon DEF FoldLeft, MapThenFoldSet, FillRun, fillStep,
         FillLoop!Run, FillLoop!Fold, FillLoop!Greatest, Max
  <1>3. FoldLeft(LAMBDA r, A : addMSE(r, moved(A, first, last)), base, q)
                = MovedRun(q, base, first, last)[1 .. Len(q)]
    BY Zenon DEF FoldLeft, MapThenFoldSet, MovedRun, movedStep,
         MovedLoop!Run, MovedLoop!Fold, MovedLoop!Greatest, Max
  <1> QED  BY <1>1, <1>2, <1>3, Zenon

-----------------------------------------------------------------------------
\* Lists of ranges

\* The elements the methods are called with: non-empty ranges of monads.
Stretch == {e \in [first : Nat, last : Nat] : 1 <= e.first /\ e.first <= e.last}

\* A list that satisfies the class invariant.
Good(q) ==
    /\ q \in Seq(Stretch)
    /\ \A i, j \in 1 .. Len(q) : i < j => q[i].last + 1 < q[j].first

In(e, x) == e.first <= x /\ x <= e.last

Covers(q, x) == \E i \in 1 .. Len(q) : In(q[i], x)

\* The monads that the first k ranges cover.
CoversTo(q, k, x) == \E i \in 1 .. k : In(q[i], x)

\* Every range of the list p ends at least two monads before n.
EndsBefore(p, n) == \A i \in 1 .. Len(p) : p[i].last + 1 < n

\* Every range of the list p begins at least two monads after n.
BeginsAfter(p, n) == \A i \in 1 .. Len(p) : n + 1 < p[i].first

\* The bounds of a range, and which pairs of bounds make one.
LEMMA StretchTypes ==
    /\ \A e \in Stretch : e.first \in Nat /\ e.last \in Nat /\ 1 <= e.first /\ e.first <= e.last
    /\ \A f, l \in Nat : 1 <= f /\ f <= l => MSE(f, l) \in Stretch
    /\ \A f, l : MSE(f, l).first = f /\ MSE(f, l).last = l
    /\ \A e \in Stretch : e = MSE(e.first, e.last)
  BY DEF Stretch, MSE

\* The empty list keeps the class invariant and covers nothing.
LEMMA EmptyList ==
    Good(<< >>) /\ (\A x : ~Covers(<< >>, x))
    /\ \A n : EndsBefore(<< >>, n) /\ BeginsAfter(<< >>, n)
  BY DEF Good, Covers, EndsBefore, BeginsAfter

\* So does a list of one range, which covers that range.
LEMMA SingleList ==
    ASSUME NEW e \in Stretch
    PROVE  /\ Good(<<e>>)
           /\ \A x : Covers(<<e>>, x) <=> In(e, x)
           /\ \A n : EndsBefore(<<e>>, n) <=> e.last + 1 < n
           /\ \A n : BeginsAfter(<<e>>, n) <=> n + 1 < e.first
  BY DEF Good, Covers, EndsBefore, BeginsAfter

\* A range that begins behind a list may be appended to it.
LEMMA AppendList ==
    ASSUME NEW q, Good(q), NEW e \in Stretch, EndsBefore(q, e.first)
    PROVE  /\ Good(Append(q, e))
           /\ \A x : Covers(Append(q, e), x) <=> Covers(q, x) \/ In(e, x)
           /\ \A n : EndsBefore(Append(q, e), n) <=> EndsBefore(q, n) /\ e.last + 1 < n
           /\ \A n : BeginsAfter(Append(q, e), n) <=> BeginsAfter(q, n) /\ n + 1 < e.first
  <1> DEFINE r == Append(q, e)
  <1>1. q \in Seq(Stretch) /\ Len(q) \in Nat
    BY DEF Good
  <1>2. r \in Seq(Stretch) /\ Len(r) = Len(q) + 1
    BY <1>1
  <1>3. r[Len(q) + 1] = e /\ \A i \in 1 .. Len(q) : r[i] = q[i]
    BY <1>1
  <1> HIDE DEF r
  <1>4. 1 .. Len(r) = 1 .. Len(q) \cup {Len(q) + 1}
    BY <1>1, <1>2
  <1>5. \A i, j \in 1 .. Len(r) : i < j => r[i].last + 1 < r[j].first
    BY <1>1, <1>2, <1>3 DEF Good, EndsBefore
  <1>6. Good(r)
    BY <1>2, <1>5 DEF Good
  <1>7. \A x : Covers(r, x) <=> Covers(q, x) \/ In(e, x)
    BY <1>3, <1>4 DEF Covers
  <1>8. \A n : EndsBefore(r, n) <=> EndsBefore(q, n) /\ e.last + 1 < n
    BY <1>3, <1>4 DEF EndsBefore
  <1>9. \A n : BeginsAfter(r, n) <=> BeginsAfter(q, n) /\ n + 1 < e.first
    BY <1>3, <1>4 DEF BeginsAfter
  <1> QED  BY <1>6, <1>7, <1>8, <1>9 DEF r

\* Two lists may be joined where one ends before the other begins.
LEMMA ConcatList ==
    ASSUME NEW p, Good(p), NEW q, Good(q),
           \A j \in 1 .. Len(q) : EndsBefore(p, q[j].first)
    PROVE  /\ Good(p \o q)
           /\ \A x : Covers(p \o q, x) <=> Covers(p, x) \/ Covers(q, x)
           /\ \A n : EndsBefore(p \o q, n) <=> EndsBefore(p, n) /\ EndsBefore(q, n)
           /\ \A n : BeginsAfter(p \o q, n) <=> BeginsAfter(p, n) /\ BeginsAfter(q, n)
  <1> DEFINE r == p \o q
  <1>1. p \in Seq(Stretch) /\ Len(p) \in Nat /\ q \in Seq(Stretch) /\ Len(q) \in Nat
    BY DEF Good
  <1>2. r \in Seq(Stretch) /\ Len(r) = Len(p) + Len(q)
    BY <1>1
  <1>3. /\ \A i \in 1 .. Len(p) : r[i] = p[i]
        /\ \A i \in 1 .. Len(r) : i > Len(p) => r[i] = q[i - Len(p)] /\ i - Len(p) \in 1 .. Len(q)
        /\ \A i \in 1 .. Len(q) : r[i + Len(p)] = q[i] /\ i + Len(p) \in 1 .. Len(r)
        /\ 1 .. Len(p) \subseteq 1 .. Len(r)
    BY <1>1
  <1> HIDE DEF r
  <1>4. ASSUME NEW i \in 1 .. Len(r) PROVE i \in 1 .. Len(p) \/ i > Len(p)
    BY <1>1, <1>2
  <1>5. ASSUME NEW i \in 1 .. Len(r), NEW j \in 1 .. Len(r), i < j
        PROVE  r[i].last + 1 < r[j].first
    <2>1. CASE j \in 1 .. Len(p)
      <3>1. i \in 1 .. Len(p)
        BY <1>1, <1>2, <1>5, <2>1
      <3> QED  BY <1>3, <1>5, <2>1, <3>1 DEF Good
    <2>2. CASE j > Len(p)
      <3>1. r[j] = q[j - Len(p)] /\ j - Len(p) \in 1 .. Len(q)
        BY <1>3, <2>2
      <3>2. CASE i \in 1 .. Len(p)
        BY <1>3, <3>1, <3>2 DEF EndsBefore
      <3>3. CASE i > Len(p)
        <4>1. r[i] = q[i - Len(p)] /\ i - Len(p) \in 1 .. Len(q)
          BY <1>3, <3>3
        <4>2. i - Len(p) < j - Len(p)
          BY <1>1, <1>2, <1>5
        <4> QED  BY <3>1, <4>1, <4>2 DEF Good
      <3> QED  BY <1>4, <3>2, <3>3
    <2> QED  BY <1>4, <2>1, <2>2
  <1>6. Good(r)
    BY <1>2, <1>5 DEF Good
  <1>7. \A x : Covers(r, x) <=> Covers(p, x) \/ Covers(q, x)
    BY <1>3, <1>4 DEF Covers
  <1>8. \A n : EndsBefore(r, n) <=> EndsBefore(p, n) /\ EndsBefore(q, n)
    BY <1>3, <1>4 DEF EndsBefore
  <1>9. \A n : BeginsAfter(r, n) <=> BeginsAfter(p, n) /\ BeginsAfter(q, n)
    BY <1>3, <1>4 DEF BeginsAfter
  <1> QED  BY <1>6, <1>7, <1>8, <1>9 DEF r

\* The elements of a list and its two ends.
LEMMA ListEnds ==
    ASSUME NEW q, Good(q)
    PROVE  /\ q \in Seq(Stretch) /\ Len(q) \in Nat
           /\ \A i \in 1 .. Len(q) : q[i] \in Stretch
           /\ q = << >> <=> Len(q) = 0
           /\ q # << >> =>
                 /\ 1 \in 1 .. Len(q) /\ Len(q) \in 1 .. Len(q)
                 /\ Covers(q, q[1].first) /\ Covers(q, q[Len(q)].last)
                 /\ \A x \in Nat : Covers(q, x) => q[1].first <= x /\ x <= q[Len(q)].last
  <1>1. q \in Seq(Stretch) /\ Len(q) \in Nat /\ (q = << >> <=> Len(q) = 0)
    BY DEF Good
  <1>2. \A i \in 1 .. Len(q) : q[i] \in Stretch
    BY <1>1
  <1>3. ASSUME q # << >>
        PROVE  /\ 1 \in 1 .. Len(q) /\ Len(q) \in 1 .. Len(q)
               /\ Covers(q, q[1].first) /\ Covers(q, q[Len(q)].last)
               /\ \A x \in Nat : Covers(q, x) => q[1].first <= x /\ x <= q[Len(q)].last
    <2>1. 1 \in 1 .. Len(q) /\ Len(q) \in 1 .. Len(q)
      BY <1>1, <1>3
    <2>2. Covers(q, q[1].first) /\ Covers(q, q[Len(q)].last)
      BY <1>2, <2>1, StretchTypes DEF Covers, In
    <2>3. ASSUME NEW x \in Nat, NEW i \in 1 .. Len(q), In(q[i], x)
          PROVE  q[1].first <= x /\ x <= q[Len(q)].last
      <3>1. q[1].first <= q[i].first
        <4>1. CASE i = 1
          BY <1>2, <4>1, StretchTypes
        <4>2. CASE i # 1
          BY <1>2, <2>1, <4>2, StretchTypes DEF Good
        <4> QED  BY <4>1, <4>2
      <3>2. q[i].last <= q[Len(q)].last
        <4>1. CASE i = Len(q)
          BY <1>2, <4>1, StretchTypes
        <4>2. CASE i # Len(q)
          BY <1>1, <1>2, <2>1, <4>2, StretchTypes DEF Good
        <4> QED  BY <4>1, <4>2
      <3> QED  BY <1>2, <2>1, <2>3, <3>1, <3>2, StretchTypes DEF In
    <2> QED  BY <2>1, <2>2, <2>3 DEF Covers
  <1> QED  BY <1>1, <1>2, <1>3

\* A list that ends before n ends before everything behind n.
LEMMA EndsBeforeLater ==
    ASSUME NEW q, Good(q), NEW m \in Nat, NEW n \in Nat, m <= n, EndsBefore(q, m)
    PROVE  EndsBefore(q, n)
  <1> SUFFICES ASSUME NEW i \in 1 .. Len(q) PROVE q[i].last + 1 < n
    BY DEF EndsBefore
  <1> DEFINE l == q[i].last
  <1>1. q[i] \in Stretch
    BY ListEnds
  <1>2. l \in Nat
    BY <1>1, StretchTypes
  <1>3. l + 1 < m
    BY DEF EndsBefore
  <1> HIDE DEF l
  <1>4. l + 1 < n
    BY <1>2, <1>3
  <1> QED  BY <1>4 DEF l

\* The ends of a list are the least and the greatest monad it covers.
LEMMA EndsByCover ==
    ASSUME NEW q, Good(q), NEW f \in Nat, NEW l \in Nat, Covers(q, f), Covers(q, l),
           \A x \in Nat : Covers(q, x) => f <= x /\ x <= l
    PROVE  q # << >> /\ q[1].first = f /\ q[Len(q)].last = l
  <1>1. q # << >>
    BY EmptyList
  <1>2. /\ 1 \in 1 .. Len(q) /\ Len(q) \in 1 .. Len(q)
        /\ Covers(q, q[1].first) /\ Covers(q, q[Len(q)].last)
        /\ \A x \in Nat : Covers(q, x) => q[1].first <= x /\ x <= q[Len(q)].last
        /\ \A i \in 1 .. Len(q) : q[i] \in Stretch
    BY <1>1, ListEnds
  <1>3. q[1].first \in Nat /\ q[Len(q)].last \in Nat
    BY <1>2, StretchTypes
  <1>4. q[1].first <= f /\ f <= q[1].first /\ q[Len(q)].last <= l /\ l <= q[Len(q)].last
    BY <1>2, <1>3
  <1> QED  BY <1>1, <1>3, <1>4

-----------------------------------------------------------------------------
\* The "insert carefully" loop

InsertState == [before : Seq(Stretch), cur : Stretch, rest : Seq(Stretch), stopped : BOOLEAN]

\* subsume of two ranges is a range, with the lower first and the higher last monad.
LEMMA SubsumeStretch ==
    ASSUME NEW m \in Stretch, NEW o \in Stretch
    PROVE  /\ subsume(m, o) \in Stretch
           /\ subsume(m, o).first = IF m.first < o.first THEN m.first ELSE o.first
           /\ subsume(m, o).last = IF m.last > o.last THEN m.last ELSE o.last
  <1>1. /\ m.first \in Nat /\ m.last \in Nat /\ 1 <= m.first /\ m.first <= m.last
        /\ o.first \in Nat /\ o.last \in Nat /\ 1 <= o.first /\ o.first <= o.last
    BY StretchTypes
  <1>2. /\ lesser(m.first, o.first) \in Nat /\ greater(m.last, o.last) \in Nat
        /\ 1 <= lesser(m.first, o.first) /\ lesser(m.first, o.first) <= greater(m.last, o.last)
    BY <1>1 DEF lesser, greater
  <1>3. /\ MSE(lesser(m.first, o.first), greater(m.last, o.last)) \in Stretch
        /\ MSE(lesser(m.first, o.first), greater(m.last, o.last)).first = lesser(m.first, o.first)
        /\ MSE(lesser(m.first, o.first), greater(m.last, o.last)).last = greater(m.last, o.last)
    BY <1>2, StretchTypes
  <1> QED  BY <1>3 DEF subsume, lesser, greater

\* What one step of the loop does, by the cases of the code.
LEMMA InsertCases ==
    ASSUME NEW st \in InsertState, NEW e \in Stretch
    PROVE  LET r == insertVisit(st, e)
           IN  /\ r \in InsertState
               /\ \/ /\ st.stopped /\ r.stopped
                     /\ r.before = st.before /\ r.cur = st.cur /\ r.rest = Append(st.rest, e)
                  \/ /\ ~st.stopped /\ ~r.stopped
                     /\ overlapMSE(st.cur, e) \/ adjacent(st.cur, e)
                     /\ r.before = st.before /\ r.cur = subsume(st.cur, e) /\ r.rest = st.rest
                  \/ /\ ~st.stopped /\ r.stopped
                     /\ ~overlapMSE(st.cur, e) /\ ~adjacent(st.cur, e) /\ past(e, st.cur)
                     /\ r.before = st.before /\ r.cur = st.cur /\ r.rest = <<e>>
                  \/ /\ ~st.stopped /\ ~r.stopped
                     /\ ~overlapMSE(st.cur, e) /\ ~adjacent(st.cur, e) /\ ~past(e, st.cur)
                     /\ r.before = Append(st.before, e) /\ r.cur = st.cur /\ r.rest = st.rest
  <1> DEFINE r == insertVisit(st, e)
             new == subsume(st.cur, e)
             touches == overlapMSE(st.cur, e) \/ adjacent(st.cur, e)
             beyond == past(e, st.cur)
  <1>1. /\ st = [before |-> st.before, cur |-> st.cur, rest |-> st.rest, stopped |-> st.stopped]
        /\ st.before \in Seq(Stretch) /\ st.cur \in Stretch /\ st.rest \in Seq(Stretch)
        /\ st.stopped \in BOOLEAN
    BY DEF InsertState
  <1>2. new \in Stretch
    BY <1>1, SubsumeStretch
  <1>3. Append(st.rest, e) \in Seq(Stretch) /\ <<e>> \in Seq(Stretch)
        /\ Append(st.before, e) \in Seq(Stretch)
    BY <1>1
  <1>4. r = IF st.stopped THEN [st EXCEPT !.rest = Append(st.rest, e)]
            ELSE IF touches THEN [st EXCEPT !.cur = new]
            ELSE IF beyond THEN [st EXCEPT !.stopped = TRUE, !.rest = <<e>>]
            ELSE [st EXCEPT !.before = Append(st.before, e)]
    BY Zenon DEF insertVisit
  <1> HIDE DEF new, touches, beyond
  <1>5. CASE st.stopped
    <2>1. r = [st EXCEPT !.rest = Append(st.rest, e)]
      BY <1>4, <1>5, Zenon
    <2> HIDE DEF r
    <2>2. r \in InsertState /\ r.stopped = st.stopped /\ r.before = st.before /\ r.cur = st.cur
          /\ r.rest = Append(st.rest, e)
      BY <1>1, <1>3, <2>1 DEF InsertState
    <2> QED  BY <1>5, <2>2 DEF r
  <1>6. CASE ~st.stopped /\ touches
    <2>1. r = [st EXCEPT !.cur = new]
      BY <1>4, <1>6, Zenon
    <2> HIDE DEF r
    <2>2. r \in InsertState /\ r.stopped = st.stopped /\ r.before = st.before /\ r.cur = new
          /\ r.rest = st.rest
      BY <1>1, <1>2, <2>1 DEF InsertState
    <2> QED  BY <1>6, <2>2 DEF r, new, touches
  <1>7. CASE ~st.stopped /\ ~touches /\ beyond
    <2>1. r = [st EXCEPT !.stopped = TRUE, !.rest = <<e>>]
      BY <1>4, <1>7, Zenon
    <2> HIDE DEF r
    <2>2. r \in InsertState /\ r.stopped = TRUE /\ r.before = st.before /\ r.cur = st.cur
          /\ r.rest = <<e>>
      BY <1>1, <1>3, <2>1 DEF InsertState
    <2> QED  BY <1>7, <2>2 DEF r, touches, beyond
  <1>8. CASE ~st.stopped /\ ~touches /\ ~beyond
    <2>1. r = [st EXCEPT !.before = Append(st.before, e)]
      BY <1>4, <1>8, Zenon
    <2> HIDE DEF r
    <2>2. r \in InsertState /\ r.stopped = st.stopped /\ r.before = Append(st.before, e)
          /\ r.cur = st.cur /\ r.rest = st.rest
      BY <1>1, <1>3, <2>1 DEF InsertState
    <2> QED  BY <1>8, <2>2 DEF r, touches, beyond
  <1> QED  BY <1>5, <1>6, <1>7, <1>8

\* The loop invariant after k elements of q: what lies before, in and behind the new
\* element is kept apart, and together they cover e and the elements seen so far.
InsertInv(st, q, e, k) ==
    /\ st \in InsertState
    /\ Good(st.before) /\ Good(st.rest)
    /\ EndsBefore(st.before, st.cur.first) /\ BeginsAfter(st.rest, st.cur.last)
    /\ ~st.stopped => st.rest = << >>
    /\ \A i \in 1 .. Len(q) : i > k =>
          /\ EndsBefore(st.before, q[i].first)
          /\ EndsBefore(st.rest, q[i].first)
          /\ st.stopped => st.cur.last + 1 < q[i].first
    /\ \A x \in Nat : (Covers(st.before, x) \/ In(st.cur, x) \/ Covers(st.rest, x))
                         <=> (In(e, x) \/ CoversTo(q, k, x))

\* The monads that one more range covers.
LEMMA CoversMore ==
    ASSUME NEW q, NEW k \in Nat \ {0}
    PROVE  \A x : CoversTo(q, k, x) <=> CoversTo(q, k - 1, x) \/ In(q[k], x)
  <1>1. 1 .. k = 1 .. (k - 1) \cup {k}
    OBVIOUS
  <1> QED  BY <1>1 DEF CoversTo

\* A step of the loop keeps the loop invariant.
LEMMA InsertStep ==
    ASSUME NEW q, Good(q), NEW e, NEW k \in 1 .. Len(q), NEW st, InsertInv(st, q, e, k - 1)
    PROVE  InsertInv(insertVisit(st, q[k]), q, e, k)
  <1> DEFINE r == insertVisit(st, q[k])
             c == q[k]
             Later(n) == n \in 1 .. Len(q) /\ n > k
  <1>1. /\ Len(q) \in Nat /\ \A i \in 1 .. Len(q) : q[i] \in Stretch
    BY ListEnds
  <1>2. c \in Stretch /\ c.first \in Nat /\ c.last \in Nat /\ 1 <= c.first /\ c.first <= c.last
    BY <1>1, StretchTypes
  <1>3. \A i : Later(i) => q[i].first \in Nat /\ c.last + 1 < q[i].first /\ i > k - 1
                           /\ i \in 1 .. Len(q)
    BY <1>1, StretchTypes DEF Good
  <1>4. st \in InsertState /\ Good(st.before) /\ Good(st.rest)
        /\ EndsBefore(st.before, st.cur.first) /\ BeginsAfter(st.rest, st.cur.last)
        /\ (~st.stopped => st.rest = << >>)
    BY DEF InsertInv
  <1>5. \A i : Later(i) => /\ EndsBefore(st.before, q[i].first)
                           /\ EndsBefore(st.rest, q[i].first)
                           /\ st.stopped => st.cur.last + 1 < q[i].first
    BY <1>3 DEF InsertInv
  <1>6. /\ EndsBefore(st.before, c.first) /\ EndsBefore(st.rest, c.first)
        /\ st.stopped => st.cur.last + 1 < c.first
    BY <1>1 DEF InsertInv
  <1>7. \A x \in Nat : (Covers(st.before, x) \/ In(st.cur, x) \/ Covers(st.rest, x))
                          <=> (In(e, x) \/ CoversTo(q, k - 1, x))
    BY DEF InsertInv
  <1>8. \A x : CoversTo(q, k, x) <=> CoversTo(q, k - 1, x) \/ In(c, x)
    BY <1>1, CoversMore
  <1>9. st.cur \in Stretch
    BY <1>4 DEF InsertState
  <1>10. st.cur.first \in Nat /\ st.cur.last \in Nat /\ 1 <= st.cur.first
         /\ st.cur.first <= st.cur.last
    BY <1>9, StretchTypes
  <1>11. /\ r \in InsertState
         /\ \/ /\ st.stopped /\ r.stopped
               /\ r.before = st.before /\ r.cur = st.cur /\ r.rest = Append(st.rest, c)
            \/ /\ ~st.stopped /\ ~r.stopped
               /\ overlapMSE(st.cur, c) \/ adjacent(st.cur, c)
               /\ r.before = st.before /\ r.cur = subsume(st.cur, c) /\ r.rest = st.rest
            \/ /\ ~st.stopped /\ r.stopped
               /\ ~overlapMSE(st.cur, c) /\ ~adjacent(st.cur, c) /\ past(c, st.cur)
               /\ r.before = st.before /\ r.cur = st.cur /\ r.rest = <<c>>
            \/ /\ ~st.stopped /\ ~r.stopped
               /\ ~overlapMSE(st.cur, c) /\ ~adjacent(st.cur, c) /\ ~past(c, st.cur)
               /\ r.before = Append(st.before, c) /\ r.cur = st.cur /\ r.rest = st.rest
    BY <1>2, <1>4, InsertCases
  <1> HIDE DEF r, c, Later
  \* The parts of the invariant after the step, in terms of r.
  <1>12. SUFFICES
           /\ Good(r.before) /\ Good(r.rest)
           /\ EndsBefore(r.before, r.cur.first) /\ BeginsAfter(r.rest, r.cur.last)
           /\ ~r.stopped => r.rest = << >>
           /\ \A i : Later(i) => /\ EndsBefore(r.before, q[i].first)
                                 /\ EndsBefore(r.rest, q[i].first)
                                 /\ r.stopped => r.cur.last + 1 < q[i].first
           /\ \A x \in Nat : (Covers(r.before, x) \/ In(r.cur, x) \/ Covers(r.rest, x))
                                <=> (In(e, x) \/ CoversTo(q, k, x))
    BY <1>11 DEF InsertInv, r, c, Later
  <1>13. CASE st.stopped /\ r.stopped
              /\ r.before = st.before /\ r.cur = st.cur /\ r.rest = Append(st.rest, c)
    <2>1. /\ Good(r.rest)
          /\ \A x : Covers(r.rest, x) <=> Covers(st.rest, x) \/ In(c, x)
          /\ \A n : EndsBefore(r.rest, n) <=> EndsBefore(st.rest, n) /\ c.last + 1 < n
          /\ \A n : BeginsAfter(r.rest, n) <=> BeginsAfter(st.rest, n) /\ n + 1 < c.first
      BY <1>2, <1>4, <1>6, <1>13, AppendList
    <2>2. BeginsAfter(r.rest, r.cur.last)
      BY <1>4, <1>6, <1>13, <2>1
    <2>3. \A i : Later(i) => /\ EndsBefore(r.before, q[i].first)
                             /\ EndsBefore(r.rest, q[i].first)
                             /\ r.cur.last + 1 < q[i].first
      BY <1>3, <1>5, <1>13, <2>1
    <2>4. \A x \in Nat : (Covers(r.before, x) \/ In(r.cur, x) \/ Covers(r.rest, x))
                            <=> (In(e, x) \/ CoversTo(q, k, x))
      BY <1>7, <1>8, <1>13, <2>1, Zenon
    <2> QED  BY <1>4, <1>13, <2>1, <2>2, <2>3, <2>4
  <1>14. CASE ~st.stopped /\ ~r.stopped
              /\ (overlapMSE(st.cur, c) \/ adjacent(st.cur, c))
              /\ r.before = st.before /\ r.cur = subsume(st.cur, c) /\ r.rest = st.rest
    <2>1. /\ r.cur \in Stretch
          /\ r.cur.first = IF st.cur.first < c.first THEN st.cur.first ELSE c.first
          /\ r.cur.last = IF st.cur.last > c.last THEN st.cur.last ELSE c.last
      BY <1>2, <1>9, <1>14, SubsumeStretch
    <2>2. \A x \in Nat : In(r.cur, x) <=> In(st.cur, x) \/ In(c, x)
      <3>1. overlapMSE(st.cur, c) \/ adjacent(st.cur, c)
        BY <1>14
      <3> QED  BY <1>2, <1>10, <2>1, <3>1, SMTT(30) DEF In, overlapMSE, adjacent
    <2>3. EndsBefore(r.before, r.cur.first)
      BY <1>4, <1>6, <1>14, <2>1
    <2>4. r.rest = << >> /\ BeginsAfter(r.rest, r.cur.last)
      BY <1>4, <1>14, EmptyList
    <2>5. \A x \in Nat : (Covers(r.before, x) \/ In(r.cur, x) \/ Covers(r.rest, x))
                            <=> (In(e, x) \/ CoversTo(q, k, x))
      BY <1>7, <1>8, <1>14, <2>2, Zenon
    <2> QED  BY <1>4, <1>5, <1>14, <2>3, <2>4, <2>5
  <1>15. CASE ~st.stopped /\ r.stopped
              /\ ~overlapMSE(st.cur, c) /\ ~adjacent(st.cur, c) /\ past(c, st.cur)
              /\ r.before = st.before /\ r.cur = st.cur /\ r.rest = <<c>>
    <2>1. /\ Good(r.rest)
          /\ \A x : Covers(r.rest, x) <=> In(c, x)
          /\ \A n : EndsBefore(r.rest, n) <=> c.last + 1 < n
          /\ \A n : BeginsAfter(r.rest, n) <=> n + 1 < c.first
      BY <1>2, <1>15, SingleList
    <2>2. r.cur.last + 1 < c.first
      BY <1>2, <1>10, <1>15 DEF past
    <2>3. \A i : Later(i) => r.cur.last + 1 < q[i].first
      <3> SUFFICES ASSUME NEW i, Later(i) PROVE r.cur.last + 1 < q[i].first
        OBVIOUS
      <3>1. q[i].first \in Nat /\ c.last + 1 < q[i].first
        BY <1>3
      <3>2. r.cur.last \in Nat
        BY <1>10, <1>15
      <3> QED  BY <1>2, <2>2, <3>1, <3>2, SMTT(30)
    <2>4. \A x : ~Covers(st.rest, x)
      BY <1>4, <1>15, EmptyList
    <2>5. \A x \in Nat : (Covers(r.before, x) \/ In(r.cur, x) \/ Covers(r.rest, x))
                            <=> (In(e, x) \/ CoversTo(q, k, x))
      BY <1>7, <1>8, <1>15, <2>1, <2>4, Zenon
    <2>6. \A i : Later(i) => EndsBefore(r.before, q[i].first) /\ EndsBefore(r.rest, q[i].first)
      BY <1>3, <1>5, <1>15, <2>1
    <2> QED  BY <1>4, <1>15, <2>1, <2>2, <2>3, <2>5, <2>6
  <1>16. CASE ~st.stopped /\ ~r.stopped
              /\ ~overlapMSE(st.cur, c) /\ ~adjacent(st.cur, c) /\ ~past(c, st.cur)
              /\ r.before = Append(st.before, c) /\ r.cur = st.cur /\ r.rest = st.rest
    <2>1. /\ Good(r.before)
          /\ \A x : Covers(r.before, x) <=> Covers(st.before, x) \/ In(c, x)
          /\ \A n : EndsBefore(r.before, n) <=> EndsBefore(st.before, n) /\ c.last + 1 < n
      BY <1>2, <1>4, <1>6, <1>16, AppendList
    <2>2. c.last + 1 < st.cur.first
      <3>1. /\ ~(st.cur.last >= c.first /\ st.cur.first <= c.last)
            /\ st.cur.last + 1 # c.first /\ c.last + 1 # st.cur.first
            /\ ~(c.first > st.cur.last + 1)
        BY <1>16, Zenon DEF past, overlapMSE, adjacent
      <3> QED  BY <1>2, <1>10, <3>1
    <2>3. EndsBefore(r.before, r.cur.first)
      BY <1>4, <1>16, <2>1, <2>2
    <2>4. \A i : Later(i) => EndsBefore(r.before, q[i].first) /\ EndsBefore(r.rest, q[i].first)
      BY <1>3, <1>5, <1>16, <2>1
    <2>5. \A x \in Nat : (Covers(r.before, x) \/ In(r.cur, x) \/ Covers(r.rest, x))
                            <=> (In(e, x) \/ CoversTo(q, k, x))
      BY <1>7, <1>8, <1>16, <2>1, Zenon
    <2> QED  BY <1>4, <1>16, <2>1, <2>3, <2>4, <2>5
  <1> QED  BY <1>11, <1>13, <1>14, <1>15, <1>16

\* The result of the loop: a list that covers the old one and the new element.
LEMMA InsertCarefullyList ==
    ASSUME NEW q, Good(q), NEW e \in Stretch
    PROVE  /\ Good(insertCarefully(q, e))
           /\ \A x \in Nat : Covers(insertCarefully(q, e), x) <=> Covers(q, x) \/ In(e, x)
  <1> DEFINE n == Len(q)
             st0 == [before |-> << >>, cur |-> e, rest |-> << >>, stopped |-> FALSE]
             it == InsertRun(q, st0)
             S == {k \in 0 .. n : InsertInv(it[1 .. k], q, e, k)}
             end == it[1 .. n]
  <1>1. n \in Nat /\ q \in Seq(Stretch) /\ \A k \in 1 .. n : q[k] \in Stretch
    BY ListEnds
  <1>2. DOMAIN q = 1 .. n
    BY <1>1
  <1>3. insertCarefully(q, e) = it[1 .. n].before \o <<it[1 .. n].cur>> \o it[1 .. n].rest
    <2>1. FoldLeft(insertVisit, st0, q) = it[1 .. n]
      BY <1>2, LoopsAreFolds, Zenon
    <2> QED  BY <2>1, Zenon DEF insertCarefully
  <1>4. st0 \in InsertState
    BY DEF InsertState
  <1> HIDE DEF st0
  <1>5. /\ it[1 .. 0] = st0
        /\ \A k \in 1 .. n : it[1 .. k] = insertVisit(it[1 .. (k - 1)], q[k])
    BY <1>1, InsertChain
  <1>10. it[1 .. 0] = st0
    BY <1>5
  <1>11. ASSUME NEW k \in 1 .. n PROVE it[1 .. k] = insertVisit(it[1 .. (k - 1)], q[k])
    BY <1>5
  <1> HIDE DEF it, n
  <1>12. 0 \in S
    <2>1. /\ st0.before = << >> /\ st0.cur = e /\ st0.rest = << >> /\ st0.stopped = FALSE
      BY DEF st0
    <2>2. \A x : ~CoversTo(q, 0, x)
      BY DEF CoversTo
    <2>3. InsertInv(st0, q, e, 0)
      BY <1>4, <2>1, <2>2, EmptyList DEF InsertInv
    <2> QED  BY <1>1, <1>10, <2>3
  <1>13. ASSUME NEW k \in 1 .. n, k - 1 \in S PROVE k \in S
    <2>1. InsertInv(it[1 .. (k - 1)], q, e, k - 1)
      BY <1>13
    <2>2. InsertInv(it[1 .. k], q, e, k)
      BY <1>11, <2>1, InsertStep DEF n
    <2> QED  BY <1>1, <2>2
  <1> HIDE DEF S
  <1>14. \A k \in 0 .. n : k \in S
    BY <1>1, <1>12, <1>13, UpTo
  <1>15. InsertInv(end, q, e, n)
    BY <1>1, <1>14 DEF S
  <1> HIDE DEF end
  <1>16. /\ Good(end.before) /\ Good(end.rest) /\ end.cur \in Stretch
         /\ EndsBefore(end.before, end.cur.first) /\ BeginsAfter(end.rest, end.cur.last)
         /\ \A x \in Nat : (Covers(end.before, x) \/ In(end.cur, x) \/ Covers(end.rest, x))
                              <=> (In(e, x) \/ CoversTo(q, n, x))
    BY <1>15 DEF InsertInv, InsertState
  <1>17. insertCarefully(q, e) = (end.before \o <<end.cur>>) \o end.rest
    BY <1>3 DEF end
  <1> DEFINE p == end.before \o <<end.cur>>
             h == <<end.cur>>
  <1>18. /\ Good(h) /\ Len(h) = 1 /\ h[1] = end.cur
         /\ \A x : Covers(h, x) <=> In(end.cur, x)
         /\ \A m : EndsBefore(h, m) <=> end.cur.last + 1 < m
    BY <1>16, SingleList
  <1> HIDE DEF h
  <1>19. \A j \in 1 .. Len(h) : EndsBefore(end.before, h[j].first)
    BY <1>16, <1>18
  <1>20. /\ Good(p)
         /\ \A x : Covers(p, x) <=> Covers(end.before, x) \/ Covers(h, x)
         /\ \A m : EndsBefore(p, m) <=> EndsBefore(end.before, m) /\ EndsBefore(h, m)
    BY <1>16, <1>18, <1>19, ConcatList DEF h
  <1> HIDE DEF p
  <1>21. ASSUME NEW j \in 1 .. Len(end.rest) PROVE EndsBefore(p, end.rest[j].first)
    <2>1. end.cur.last + 1 < end.rest[j].first
      BY <1>16 DEF BeginsAfter
    <2>2. end.rest[j] \in Stretch
      BY <1>16, ListEnds
    <2>4. EndsBefore(end.before, end.rest[j].first)
      <3> DEFINE v == end.cur.first
                 w == end.cur.last
                 z == end.rest[j].first
      <3>1. v \in Nat /\ w \in Nat /\ z \in Nat /\ v <= w /\ w + 1 < z
        BY <1>16, <2>1, <2>2, StretchTypes
      <3> HIDE DEF v, w, z
      <3>2. v <= z
        BY <3>1
      <3>3. Good(end.before) /\ EndsBefore(end.before, v)
        BY <1>16 DEF v
      <3>4. EndsBefore(end.before, z)
        BY <3>1, <3>2, <3>3, EndsBeforeLater
      <3> QED  BY <3>4 DEF z
    <2> QED  BY <1>18, <1>20, <2>1, <2>4
  <1>22. /\ Good(p \o end.rest)
         /\ \A x : Covers(p \o end.rest, x) <=> Covers(p, x) \/ Covers(end.rest, x)
    BY <1>16, <1>20, <1>21, ConcatList
  <1>23. \A x \in Nat : Covers(p \o end.rest, x) <=> Covers(q, x) \/ In(e, x)
    BY <1>16, <1>18, <1>20, <1>22, Zenon DEF Covers, CoversTo, n
  <1> QED  BY <1>17, <1>22, <1>23 DEF p

-----------------------------------------------------------------------------
\* addMSE

\* The cached bounds are exactly the ends of the list.
Exact(s) ==
    IF s.mses = << >> THEN s.first = MAX_MONAD /\ s.last = 0
    ELSE s.first = s.mses[1].first /\ s.last = s.mses[Len(s.mses)].last

\* The representations that satisfy the class invariant and have exact bounds.
Rep == {s \in [mses : Seq(Stretch), first : Nat, last : Nat] : Good(s.mses) /\ Exact(s)}

\* What being a representation means for its parts.
LEMMA RepParts ==
    ASSUME NEW s \in Rep
    PROVE  /\ Good(s.mses) /\ Exact(s) /\ s.first \in Nat /\ s.last \in Nat
           /\ s = SOM(s.mses, s.first, s.last)
  BY DEF Rep, SOM

\* The fields of a constructed set.
LEMMA SOMFields ==
    ASSUME NEW q, NEW f, NEW l
    PROVE  SOM(q, f, l).mses = q /\ SOM(q, f, l).first = f /\ SOM(q, f, l).last = l
  BY DEF SOM

\* The set that the default constructor and clear make is a representation.
LEMMA EmptyRep ==
    /\ EmptySOM \in Rep /\ EmptySOM.mses = << >>
    /\ \A s \in Rep : s.mses = << >> => s = EmptySOM
  <1>1. MAX_MONAD \in Nat
    BY MaxMonadAssumption
  <1>2. EmptySOM \in Rep /\ EmptySOM.mses = << >>
    BY <1>1, EmptyList DEF EmptySOM, SOM, Rep, Exact
  <1>3. ASSUME NEW s \in Rep, s.mses = << >> PROVE s = EmptySOM
    BY <1>3, RepParts, Zenon DEF Exact, EmptySOM
  <1> QED  BY <1>2, <1>3

\* A representation is made by a list and the least and the greatest monad it covers.
LEMMA MakeRep ==
    ASSUME NEW q, Good(q), NEW f \in Nat, NEW l \in Nat, Covers(q, f), Covers(q, l),
           \A x \in Nat : Covers(q, x) => f <= x /\ x <= l
    PROVE  SOM(q, f, l) \in Rep
  <1>1. q # << >> /\ q[1].first = f /\ q[Len(q)].last = l
    BY EndsByCover
  <1>2. q \in Seq(Stretch)
    BY DEF Good
  <1>3. SOM(q, f, l) \in [mses : Seq(Stretch), first : Nat, last : Nat]
    BY <1>2 DEF SOM
  <1> QED  BY <1>1, <1>3, SOMFields DEF Rep, Exact

\* The bounds of a representation that is not empty.
LEMMA RepEnds ==
    ASSUME NEW s \in Rep, s.mses # << >>
    PROVE  /\ Covers(s.mses, s.first) /\ Covers(s.mses, s.last)
           /\ \A x \in Nat : Covers(s.mses, x) => s.first <= x /\ x <= s.last
           /\ Len(s.mses) \in Nat \ {0}
           /\ s.first = s.mses[1].first /\ s.last = s.mses[Len(s.mses)].last
           /\ s.mses[1] \in Stretch /\ s.mses[Len(s.mses)] \in Stretch
  <1>1. Good(s.mses) /\ s.first = s.mses[1].first /\ s.last = s.mses[Len(s.mses)].last
    BY RepParts DEF Exact
  <1> QED  BY <1>1, ListEnds

\* A range that touches or overlaps an end of the list may be merged with it.
LEMMA MergeEnd ==
    ASSUME NEW q, Good(q), NEW k \in 1 .. Len(q), NEW e \in Stretch, NEW c \in Stretch,
           \A x \in Nat : In(c, x) <=> In(q[k], x) \/ In(e, x),
           k # 1 => c.first = q[k].first, k # Len(q) => c.last = q[k].last
    PROVE  /\ Good([q EXCEPT ![k] = c])
           /\ \A x \in Nat : Covers([q EXCEPT ![k] = c], x) <=> Covers(q, x) \/ In(e, x)
  <1> DEFINE r == [q EXCEPT ![k] = c]
  <1>1. q \in Seq(Stretch) /\ Len(q) \in Nat
    BY ListEnds
  <1>2. r \in Seq(Stretch) /\ Len(r) = Len(q) /\ r[k] = c
        /\ \A i \in 1 .. Len(q) : i # k => r[i] = q[i]
    BY <1>1
  <1> HIDE DEF r
  <1>3. ASSUME NEW i \in 1 .. Len(q), NEW j \in 1 .. Len(q), i < j
        PROVE  r[i].last + 1 < r[j].first
    <2>1. q[i].last + 1 < q[j].first
      BY <1>3 DEF Good
    <2>2. r[i].last = q[i].last
      <3>1. i = k => i # Len(q)
        BY <1>1, <1>3
      <3> QED  BY <1>2, <3>1
    <2>3. r[j].first = q[j].first
      <3>1. j = k => j # 1
        BY <1>1, <1>3
      <3> QED  BY <1>2, <3>1
    <2> QED  BY <2>1, <2>2, <2>3
  <1>4. Good(r)
    BY <1>2, <1>3 DEF Good
  <1>5. ASSUME NEW x \in Nat PROVE Covers(r, x) <=> Covers(q, x) \/ In(e, x)
    BY <1>2 DEF Covers
  <1> QED  BY <1>4, <1>5 DEF r

\* addMSE keeps the class invariant and is a union, as its comment says.
LEMMA AddRep ==
    ASSUME NEW s \in Rep, NEW e \in Stretch, s.mses = << >> => e.first <= MAX_MONAD
    PROVE  /\ addMSE(s, e) \in Rep
           /\ \A x \in Nat : Covers(addMSE(s, e).mses, x) <=> Covers(s.mses, x) \/ In(e, x)
  <1> DEFINE q == s.mses
             n == Len(q)
             f == lesser(e.first, s.first)
             l == greater(e.last, s.last)
             r == IF isEmpty(s) \/ e.first > s.last + 1 THEN Append(q, e)
                  ELSE IF e.first >= Last(q).first THEN [q EXCEPT ![n] = subsume(q[n], e)]
                  ELSE IF e.last = s.first - 1 THEN [q EXCEPT ![1] = subsume(q[1], e)]
                  ELSE insertCarefully(q, e)
  <1>1. addMSE(s, e) = SOM(r, f, l)
    BY Zenon DEF addMSE
  <1>2. /\ Good(q) /\ Exact(s) /\ s.first \in Nat /\ s.last \in Nat
        /\ e.first \in Nat /\ e.last \in Nat /\ 1 <= e.first /\ e.first <= e.last
        /\ n \in Nat /\ \A i \in 1 .. n : q[i] \in Stretch
    BY RepParts, StretchTypes, ListEnds
  <1>3. isEmpty(s) <=> q = << >>
    BY DEF isEmpty
  <1>4. q # << >> => /\ Covers(q, s.first) /\ Covers(q, s.last)
                     /\ \A x \in Nat : Covers(q, x) => s.first <= x /\ x <= s.last
                     /\ n \in Nat \ {0}
                     /\ s.first = q[1].first /\ s.last = q[n].last
                     /\ 1 \in 1 .. n /\ n \in 1 .. n
    BY RepEnds
  <1>5. \A x : In(e, x) <=> e.first <= x /\ x <= e.last
    BY DEF In
  <1>6. Good(r) /\ \A x \in Nat : Covers(r, x) <=> Covers(q, x) \/ In(e, x)
    <2>1. CASE isEmpty(s) \/ e.first > s.last + 1
      <3>1. EndsBefore(q, e.first)
        <4>1. CASE q = << >>
          BY <4>1, EmptyList
        <4>2. CASE q # << >>
          <5>1. ASSUME NEW i \in 1 .. Len(q) PROVE q[i].last \in Nat /\ q[i].last <= s.last
            <6>1. q[i] \in Stretch
              BY <1>2
            <6>2. Covers(q, q[i].last) /\ q[i].last \in Nat
              BY <6>1, StretchTypes DEF Covers, In
            <6> QED  BY <1>4, <4>2, <6>2
          <5> HIDE DEF q
          <5> QED  BY <1>2, <1>3, <2>1, <4>2, <5>1 DEF EndsBefore
        <4> QED  BY <4>1, <4>2
      <3>2. r = Append(q, e)
        BY <2>1, Zenon
      <3> HIDE DEF q, r
      <3> QED  BY <1>2, <3>1, <3>2, AppendList
    <2>2. CASE ~isEmpty(s) /\ ~(e.first > s.last + 1) /\ e.first >= Last(q).first
      <3> DEFINE c == subsume(q[n], e)
      <3>1. r = [q EXCEPT ![n] = c]
        BY <2>2, Zenon
      <3>2. Last(q) = q[n]
        BY DEF Last
      <3>3. n \in 1 .. n /\ q[n] \in Stretch /\ s.last = q[n].last
        BY <1>2, <1>3, <1>4, <2>2
      <3>4. q[n].first \in Nat /\ q[n].last \in Nat /\ q[n].first <= q[n].last
        BY <3>3, StretchTypes
      <3>5. /\ c \in Stretch
            /\ c.first = IF q[n].first < e.first THEN q[n].first ELSE e.first
            /\ c.last = IF q[n].last > e.last THEN q[n].last ELSE e.last
        BY <3>3, SubsumeStretch
      <3> DEFINE u == q[n]
      <3>6. u.first <= e.first /\ e.first <= u.last + 1
        BY <1>2, <2>2, <3>2, <3>3, <3>4
      <3> HIDE DEF c, q, n, r, u
      <3>7. c.first = q[n].first
        BY <1>2, <3>4, <3>5, <3>6 DEF u
      <3>8. \A x \in Nat : In(c, x) <=> In(q[n], x) \/ In(e, x)
        BY <1>2, <3>4, <3>5, <3>6 DEF In, u
      <3> QED  BY <1>2, <3>1, <3>3, <3>5, <3>7, <3>8, MergeEnd DEF n
    <2>3. CASE ~isEmpty(s) /\ ~(e.first > s.last + 1) /\ ~(e.first >= Last(q).first)
               /\ e.last = s.first - 1
      <3> DEFINE c == subsume(q[1], e)
      <3>1. r = [q EXCEPT ![1] = c]
        BY <2>3, Zenon
      <3>3. 1 \in 1 .. n /\ q[1] \in Stretch /\ s.first = q[1].first
        BY <1>2, <1>3, <1>4, <2>3
      <3>4. q[1].first \in Nat /\ q[1].last \in Nat /\ q[1].first <= q[1].last
        BY <3>3, StretchTypes
      <3>5. /\ c \in Stretch
            /\ c.first = IF q[1].first < e.first THEN q[1].first ELSE e.first
            /\ c.last = IF q[1].last > e.last THEN q[1].last ELSE e.last
        BY <3>3, SubsumeStretch
      <3> DEFINE u == q[1]
      <3>6. e.last = u.first - 1
        BY <2>3, <3>3
      <3> HIDE DEF c, q, n, r, u
      <3>7. c.last = q[1].last
        BY <1>2, <3>4, <3>5, <3>6 DEF u
      <3>8. \A x \in Nat : In(c, x) <=> In(q[1], x) \/ In(e, x)
        BY <1>2, <3>4, <3>5, <3>6 DEF In, u
      <3> QED  BY <1>2, <3>1, <3>3, <3>5, <3>7, <3>8, MergeEnd DEF n
    <2>4. CASE ~isEmpty(s) /\ ~(e.first > s.last + 1) /\ ~(e.first >= Last(q).first)
               /\ ~(e.last = s.first - 1)
      <3>1. r = insertCarefully(q, e)
        BY <2>4, Zenon
      <3> HIDE DEF q, r
      <3> QED  BY <1>2, <3>1, InsertCarefullyList
    <2> QED  BY <2>1, <2>2, <2>3, <2>4
  <1> HIDE DEF q, n, r
  <1>7. f \in Nat /\ l \in Nat
    BY <1>2 DEF lesser, greater
  <1>8. Covers(r, f) /\ Covers(r, l) /\ \A x \in Nat : Covers(r, x) => f <= x /\ x <= l
    <2>1. CASE q = << >>
      <3>1. s.first = MAX_MONAD /\ s.last = 0 /\ e.first <= s.first
        BY <2>1 , <1>2 DEF Exact, q
      <3>2. f = e.first /\ l = e.last
        BY <1>2, <3>1 DEF lesser, greater
      <3> HIDE DEF f, l
      <3>3. \A x : ~Covers(q, x)
        BY <2>1, EmptyList
      <3> QED  BY <1>2, <1>5, <1>6, <3>2, <3>3
    <2>2. CASE q # << >>
      <3>1. /\ (f = e.first \/ f = s.first) /\ f <= e.first /\ f <= s.first
            /\ (l = e.last \/ l = s.last) /\ e.last <= l /\ s.last <= l
        BY <1>2 DEF lesser, greater
      <3> HIDE DEF f, l
      <3>2. In(e, e.first) /\ In(e, e.last)
        BY <1>2, <1>5
      <3>3. Covers(r, f) /\ Covers(r, l)
        BY <1>2, <1>4, <1>6, <1>7, <2>2, <3>1, <3>2
      <3>4. ASSUME NEW x \in Nat, Covers(r, x) PROVE f <= x /\ x <= l
        <4>1. CASE Covers(q, x)
          BY <1>2, <1>4, <1>7, <2>2, <3>1, <4>1
        <4>2. CASE In(e, x)
          BY <1>2, <1>5, <1>7, <3>1, <4>2
        <4> QED  BY <1>6, <3>4, <4>1, <4>2
      <3> QED  BY <3>3, <3>4
    <2> QED  BY <2>1, <2>2
  <1> HIDE DEF f, l
  <1>9. SOM(r, f, l) \in Rep /\ SOM(r, f, l).mses = r
    BY <1>6, <1>7, <1>8, MakeRep, SOMFields
  <1> QED  BY <1>1, <1>6, <1>9 DEF q

-----------------------------------------------------------------------------
\* removeMSE

RemoveState == [out : Seq(Stretch), stopped : BOOLEAN]

\* What can be removed: a range that may begin at 0, where no monad is.
Span == {e \in [first : Nat, last : Nat] : e.first <= e.last}

LEMMA StretchIsSpan == Stretch \subseteq Span
  BY DEF Stretch, Span

\* What is left of A when B is taken out of one end of it.
LEMMA TruncateStretch ==
    ASSUME NEW A \in Stretch, NEW B \in Span
    PROVE  /\ A.first < B.first => truncate(A, B.first, B.last) = MSE(A.first, B.first - 1)
           /\ A.first >= B.first /\ A.last > B.last
                 => truncate(A, B.first, B.last) = MSE(B.last + 1, A.last)
  <1>1. A \in [first : Nat, last : Nat] /\ B \in [first : Nat, last : Nat]
    BY DEF Stretch, Span
  <1>2. A = [first |-> A.first, last |-> A.last]
    BY <1>1
  <1>3. [A EXCEPT !.last = B.first - 1] = MSE(A.first, B.first - 1)
    BY <1>1 DEF MSE
  <1>4. [A EXCEPT !.first = B.last + 1] = MSE(B.last + 1, A.last)
    BY <1>1 DEF MSE
  <1>5. A.first \in Nat /\ B.first \in Nat /\ A.last \in Nat /\ B.last \in Nat
    BY <1>1
  <1>6. ASSUME A.first < B.first
        PROVE  truncate(A, B.first, B.last) = MSE(A.first, B.first - 1)
    BY <1>3, <1>6 DEF truncate
  <1>7. ASSUME A.first >= B.first, A.last > B.last
        PROVE  truncate(A, B.first, B.last) = MSE(B.last + 1, A.last)
    <2>1. ~(A.first < B.first)
      BY <1>5, <1>7
    <2> QED  BY <1>4, <1>7, <2>1 DEF truncate
  <1> QED  BY <1>6, <1>7

\* c is what is left of A when B is removed, in one piece.
Piece(c, A, B) ==
    /\ c \in Stretch /\ A.first <= c.first /\ c.last <= A.last
    /\ \A x \in Nat : In(c, x) <=> In(A, x) /\ ~In(B, x)

\* What one step of the loop does: the element is dropped, is split in two, or one piece
\* of it is kept.
LEMMA RemoveCases ==
    ASSUME NEW st \in RemoveState, NEW A \in Stretch, NEW B \in Span
    PROVE  LET r == removeVisit(st, A, B)
           IN  /\ r \in RemoveState
               /\ \/ st.stopped /\ r = [out |-> Append(st.out, A), stopped |-> TRUE]
                  \/ /\ ~st.stopped
                     /\ \E c : /\ Piece(c, A, B)
                               /\ r.out = Append(st.out, c)
                               /\ r.stopped => A.first > B.last
                  \/ /\ ~st.stopped /\ r = st
                     /\ \A x \in Nat : In(A, x) => In(B, x)
                  \/ /\ ~st.stopped /\ r.stopped
                     /\ A.first < B.first /\ A.last > B.last
                     /\ r.out = Append(Append(st.out, MSE(A.first, B.first - 1)),
                                       MSE(B.last + 1, A.last))
  <1> DEFINE r == removeVisit(st, A, B)
  <1>1. /\ st = [out |-> st.out, stopped |-> st.stopped]
        /\ st.out \in Seq(Stretch) /\ st.stopped \in BOOLEAN
    BY DEF RemoveState
  <1>2. /\ A.first \in Nat /\ A.last \in Nat /\ 1 <= A.first /\ A.first <= A.last
        /\ B.first \in Nat /\ B.last \in Nat /\ B.first <= B.last
    BY StretchTypes DEF Span
  <1>3. [st EXCEPT !.out = Append(@, A)] = [out |-> Append(st.out, A), stopped |-> st.stopped]
    BY <1>1
  <1>4. \A c \in Stretch : Append(st.out, c) \in Seq(Stretch)
    BY <1>1
  <1>5. \A c \in Stretch, b \in BOOLEAN : [out |-> Append(st.out, c), stopped |-> b] \in RemoveState
    BY <1>4 DEF RemoveState
  <1>6. CASE st.stopped
    <2>1. r = [st EXCEPT !.out = Append(@, A)]
      BY <1>6, Zenon DEF removeVisit
    <2>2. r = [out |-> Append(st.out, A), stopped |-> TRUE]
      BY <1>3, <1>6, <2>1
    <2> QED  BY <1>5, <1>6, <2>2
  <1>7. CASE ~st.stopped /\ A.last < B.first
    <2>1. r = [st EXCEPT !.out = Append(@, A)]
      BY <1>7, Zenon DEF removeVisit
    <2>2. r = [out |-> Append(st.out, A), stopped |-> st.stopped]
      BY <1>3, <2>1
    <2>3. Piece(A, A, B)
      BY <1>2, <1>7 DEF Piece, In
    <2>4. r \in RemoveState /\ r.out = Append(st.out, A) /\ ~r.stopped
      BY <1>1, <1>5, <1>7, <2>2
    <2> HIDE DEF r
    <2> QED  BY <1>7, <2>3, <2>4, Zenon DEF r
  <1>8. CASE ~st.stopped /\ ~(A.last < B.first) /\ A.first > B.last
    <2>1. r = [out |-> Append(st.out, A), stopped |-> TRUE]
      BY <1>8, Zenon DEF removeVisit
    <2>2. Piece(A, A, B)
      BY <1>2, <1>8 DEF Piece, In
    <2>3. r \in RemoveState /\ r.out = Append(st.out, A)
      BY <1>4, <2>1 DEF RemoveState
    <2> HIDE DEF r
    <2> QED  BY <1>8, <2>2, <2>3, Zenon DEF r
  <1>9. CASE ~st.stopped /\ ~(A.last < B.first) /\ ~(A.first > B.last)
             /\ A.first >= B.first /\ A.last <= B.last
    <2>1. r = st
      BY <1>9, Zenon DEF removeVisit
    <2>2. \A x \in Nat : In(A, x) => In(B, x)
      BY <1>2, <1>9 DEF In
    <2> QED  BY <1>9, <2>1, <2>2
  <1>10. CASE ~st.stopped /\ ~(A.last < B.first) /\ ~(A.first > B.last)
              /\ ~(A.first >= B.first /\ A.last <= B.last)
              /\ A.first < B.first /\ A.last > B.last
    <2> DEFINE u == truncate(A, B.first, B.last)
               v == MSE(B.last + 1, A.last)
    <2>1. r = [out |-> st.out \o <<u, v>>, stopped |-> TRUE]
      BY <1>10, Zenon DEF removeVisit
    <2>2. u = MSE(A.first, B.first - 1)
      BY <1>10, TruncateStretch
    <2>3. MSE(A.first, B.first - 1) \in Stretch /\ v \in Stretch
      BY <1>2, <1>10, StretchTypes
    <2> HIDE DEF u, v
    <2>4. st.out \o <<u, v>> = Append(Append(st.out, u), v)
          /\ Append(Append(st.out, u), v) \in Seq(Stretch)
      BY <1>1, <2>2, <2>3
    <2>5. r \in RemoveState /\ r.out = Append(Append(st.out, u), v) /\ r.stopped
      BY <2>1, <2>4 DEF RemoveState
    <2> HIDE DEF r
    <2> QED  BY <1>10, <2>2, <2>5, Zenon DEF v, r
  <1>11. CASE ~st.stopped /\ ~(A.last < B.first) /\ ~(A.first > B.last)
              /\ ~(A.first >= B.first /\ A.last <= B.last)
              /\ ~(A.first < B.first /\ A.last > B.last)
    <2> DEFINE c == truncate(A, B.first, B.last)
    <2>1. r = [st EXCEPT !.out = Append(@, c)]
      BY <1>11, Zenon DEF removeVisit
    <2>2. Piece(c, A, B)
      <3>1. CASE A.first < B.first
        <4>1. c = MSE(A.first, B.first - 1)
          BY <3>1, TruncateStretch
        <4>2. c \in Stretch /\ c.first = A.first /\ c.last = B.first - 1
          BY <1>2, <3>1, <4>1, StretchTypes
        <4> HIDE DEF c
        <4> QED  BY <1>2, <1>11, <3>1, <4>2 DEF Piece, In
      <3>2. CASE A.first >= B.first /\ A.last > B.last
        <4>1. c = MSE(B.last + 1, A.last)
          BY <3>2, TruncateStretch
        <4>2. c \in Stretch /\ c.first = B.last + 1 /\ c.last = A.last
          BY <1>2, <3>2, <4>1, StretchTypes
        <4> HIDE DEF c
        <4> QED  BY <1>2, <1>11, <3>2, <4>2 DEF Piece, In
      <3> QED  BY <1>2, <1>11, <3>1, <3>2
    <2>3. c \in Stretch
      BY <2>2 DEF Piece
    <2> HIDE DEF c
    <2>4. r = [out |-> Append(st.out, c), stopped |-> st.stopped]
      BY <1>1, <2>1
    <2>5. r \in RemoveState /\ r.out = Append(st.out, c) /\ ~r.stopped
      BY <1>1, <1>5, <1>11, <2>3, <2>4
    <2> HIDE DEF r
    <2> QED  BY <1>11, <2>2, <2>5, Zenon DEF r
  <1> QED  BY <1>6, <1>7, <1>8, <1>9, <1>10, <1>11, Zenon

\* The loop invariant after k elements of q: the output covers what they cover outside
\* B, and once the loop is broken off nothing of B is left to meet.
RemoveInv(st, q, B, k) ==
    /\ st \in RemoveState /\ Good(st.out)
    /\ \A i \in 1 .. Len(q) : i > k =>
          EndsBefore(st.out, q[i].first) /\ (st.stopped => B.last < q[i].first)
    /\ \A x \in Nat : Covers(st.out, x) <=> CoversTo(q, k, x) /\ ~In(B, x)

\* A step of the loop keeps the loop invariant.
LEMMA RemoveStep ==
    ASSUME NEW q, Good(q), NEW B \in Span, NEW k \in 1 .. Len(q), NEW st,
           RemoveInv(st, q, B, k - 1)
    PROVE  RemoveInv(removeVisit(st, q[k], B), q, B, k)
  <1> DEFINE A == q[k]
             r == removeVisit(st, A, B)
             Later(n) == n \in 1 .. Len(q) /\ n > k
  <1>1. Len(q) \in Nat /\ \A i \in 1 .. Len(q) : q[i] \in Stretch
    BY ListEnds
  <1>2. /\ A \in Stretch
        /\ A.first \in Nat /\ A.last \in Nat /\ 1 <= A.first /\ A.first <= A.last
        /\ B.first \in Nat /\ B.last \in Nat /\ B.first <= B.last
    BY <1>1, StretchTypes DEF Span
  <1>3. \A i : Later(i) => q[i].first \in Nat /\ A.last + 1 < q[i].first /\ i > k - 1
                           /\ i \in 1 .. Len(q)
    BY <1>1, StretchTypes DEF Good
  <1>4. st \in RemoveState /\ Good(st.out)
    BY DEF RemoveInv
  <1>5. \A i : Later(i) => EndsBefore(st.out, q[i].first) /\ (st.stopped => B.last < q[i].first)
    BY <1>3 DEF RemoveInv
  <1>6. EndsBefore(st.out, A.first) /\ (st.stopped => B.last < A.first)
    BY <1>1 DEF RemoveInv
  <1>7. \A x \in Nat : Covers(st.out, x) <=> CoversTo(q, k - 1, x) /\ ~In(B, x)
    BY DEF RemoveInv
  <1>8. \A x : CoversTo(q, k, x) <=> CoversTo(q, k - 1, x) \/ In(A, x)
    BY <1>1, CoversMore
  <1>9. /\ r \in RemoveState
        /\ \/ st.stopped /\ r = [out |-> Append(st.out, A), stopped |-> TRUE]
           \/ /\ ~st.stopped
              /\ \E c : /\ Piece(c, A, B)
                        /\ r.out = Append(st.out, c)
                        /\ r.stopped => A.first > B.last
           \/ /\ ~st.stopped /\ r = st
              /\ \A x \in Nat : In(A, x) => In(B, x)
           \/ /\ ~st.stopped /\ r.stopped
              /\ A.first < B.first /\ A.last > B.last
              /\ r.out = Append(Append(st.out, MSE(A.first, B.first - 1)),
                                MSE(B.last + 1, A.last))
    BY <1>2, <1>4, RemoveCases
  <1> HIDE DEF A, r, Later
  <1>10. SUFFICES
           /\ Good(r.out)
           /\ \A i : Later(i) => EndsBefore(r.out, q[i].first) /\ (r.stopped => B.last < q[i].first)
           /\ \A x \in Nat : Covers(r.out, x) <=> CoversTo(q, k, x) /\ ~In(B, x)
    BY <1>9 DEF RemoveInv, r, A, Later
  \* One piece of the element is kept.
  <1>11. ASSUME NEW c, Piece(c, A, B), r.out = Append(st.out, c)
         PROVE  /\ Good(r.out)
                /\ \A i : Later(i) => EndsBefore(r.out, q[i].first)
                /\ \A x \in Nat : Covers(r.out, x) <=> CoversTo(q, k, x) /\ ~In(B, x)
    <2>1. c \in Stretch /\ A.first <= c.first /\ c.last <= A.last
          /\ \A x \in Nat : In(c, x) <=> In(A, x) /\ ~In(B, x)
      BY <1>11 DEF Piece
    <2>2. c.first \in Nat /\ c.last \in Nat
      BY <2>1, StretchTypes
    <2>3. \A i \in 1 .. Len(st.out) : st.out[i].last \in Nat
      BY <1>4, ListEnds, StretchTypes
    <2>4. EndsBefore(st.out, c.first)
      <3> SUFFICES ASSUME NEW i \in 1 .. Len(st.out) PROVE st.out[i].last + 1 < c.first
        BY DEF EndsBefore
      <3>1. st.out[i].last \in Nat /\ st.out[i].last + 1 < A.first
        BY <1>6, <2>3 DEF EndsBefore
      <3>2. A.first <= c.first
        BY <2>1
      <3> QED  BY <1>2, <2>2, <3>1, <3>2, SMTT(30)
    <2>5. /\ Good(r.out)
          /\ \A x : Covers(r.out, x) <=> Covers(st.out, x) \/ In(c, x)
          /\ \A n : EndsBefore(r.out, n) <=> EndsBefore(st.out, n) /\ c.last + 1 < n
      BY <1>4, <1>11, <2>1, <2>4, AppendList
    <2>6. \A i : Later(i) => c.last + 1 < q[i].first
      <3> SUFFICES ASSUME NEW i, Later(i) PROVE c.last + 1 < q[i].first
        OBVIOUS
      <3>1. q[i].first \in Nat /\ A.last + 1 < q[i].first
        BY <1>3
      <3>2. c.last <= A.last
        BY <2>1
      <3> QED  BY <1>2, <2>2, <3>1, <3>2, SMTT(30)
    <2>7. \A x \in Nat : Covers(r.out, x) <=> CoversTo(q, k, x) /\ ~In(B, x)
      BY <1>7, <1>8, <2>1, <2>5, Zenon
    <2> QED  BY <1>5, <2>5, <2>6, <2>7
  <1>12. CASE st.stopped /\ r = [out |-> Append(st.out, A), stopped |-> TRUE]
    <2>1. r.out = Append(st.out, A)
      BY <1>12
    <2>2. Piece(A, A, B)
      BY <1>2, <1>6, <1>12 DEF Piece, In
    <2> QED  BY <1>5, <1>11, <1>12, <2>1, <2>2
  <1>13. CASE /\ ~st.stopped
              /\ \E c : /\ Piece(c, A, B)
                        /\ r.out = Append(st.out, c)
                        /\ r.stopped => A.first > B.last
    <2>1. PICK c : Piece(c, A, B) /\ r.out = Append(st.out, c) /\ (r.stopped => A.first > B.last)
      BY <1>13, Zenon
    <2>2. \A i : Later(i) => (r.stopped => B.last < q[i].first)
      BY <1>2, <1>3, <2>1, SMTT(30)
    <2> QED  BY <1>11, <2>1, <2>2
  <1>14. CASE ~st.stopped /\ r = st /\ \A x \in Nat : In(A, x) => In(B, x)
    <2>1. \A x \in Nat : Covers(r.out, x) <=> CoversTo(q, k, x) /\ ~In(B, x)
      BY <1>7, <1>8, <1>14, Zenon
    <2> QED  BY <1>4, <1>5, <1>14, <2>1
  <1>15. CASE /\ ~st.stopped /\ r.stopped
              /\ A.first < B.first /\ A.last > B.last
              /\ r.out = Append(Append(st.out, MSE(A.first, B.first - 1)),
                                MSE(B.last + 1, A.last))
    <2> DEFINE u == MSE(A.first, B.first - 1)
               v == MSE(B.last + 1, A.last)
               p == Append(st.out, u)
    <2>1. A.first < B.first /\ A.last > B.last
      BY <1>15
    <2>2. /\ u \in Stretch /\ u.first = A.first /\ u.last = B.first - 1
          /\ v \in Stretch /\ v.first = B.last + 1 /\ v.last = A.last
      BY <1>2, <2>1, StretchTypes, SMTT(30)
    <2>3. r.out = Append(p, v)
      BY <1>15
    <2> HIDE DEF u, v
    <2>4. /\ Good(p)
          /\ \A x : Covers(p, x) <=> Covers(st.out, x) \/ In(u, x)
          /\ \A n : EndsBefore(p, n) <=> EndsBefore(st.out, n) /\ u.last + 1 < n
      BY <1>4, <1>6, <2>2, AppendList
    <2> HIDE DEF p
    <2>5. EndsBefore(st.out, v.first) /\ u.last + 1 < v.first
      <3>1. A.first < v.first /\ v.first \in Nat /\ u.last + 1 < v.first
        BY <1>2, <2>2, <2>1, SMTT(30)
      <3>2. A.first <= v.first
        BY <1>2, <3>1
      <3> QED  BY <1>2, <1>4, <1>6, <3>1, <3>2, EndsBeforeLater
    <2>6. /\ Good(r.out)
          /\ \A x : Covers(r.out, x) <=> Covers(p, x) \/ In(v, x)
          /\ \A n : EndsBefore(r.out, n) <=> EndsBefore(p, n) /\ v.last + 1 < n
      BY <2>2, <2>3, <2>4, <2>5, AppendList
    <2>7. \A i : Later(i) => u.last + 1 < q[i].first /\ v.last + 1 < q[i].first
                             /\ B.last < q[i].first
      <3> SUFFICES ASSUME NEW i, Later(i)
                   PROVE  /\ u.last + 1 < q[i].first /\ v.last + 1 < q[i].first
                          /\ B.last < q[i].first
        OBVIOUS
      <3>1. q[i].first \in Nat /\ A.last + 1 < q[i].first
        BY <1>3
      <3> QED  BY <1>2, <2>2, <2>1, <3>1, SMTT(30)
    <2>8. \A x \in Nat : (In(u, x) \/ In(v, x)) <=> In(A, x) /\ ~In(B, x)
      BY <1>2, <2>2, <2>1 DEF In
    <2>9. \A x \in Nat : Covers(r.out, x) <=> CoversTo(q, k, x) /\ ~In(B, x)
      BY <1>7, <1>8, <2>4, <2>6, <2>8, Zenon
    <2> QED  BY <1>5, <2>4, <2>6, <2>7, <2>9
  <1> QED  BY <1>9, <1>12, <1>13, <1>14, <1>15

\* removeMSE keeps the class invariant and takes the removed monads away.
LEMMA RemoveSpan ==
    ASSUME NEW s \in Rep, NEW B \in Span
    PROVE  /\ removeMSE(s, B) \in Rep
           /\ \A x \in Nat : Covers(removeMSE(s, B).mses, x) <=> Covers(s.mses, x) /\ ~In(B, x)
  <1> DEFINE q == s.mses
             n == Len(q)
             start == [out |-> << >>, stopped |-> FALSE]
             it == RemoveVisitRun(q, start, B)
             r == it[1 .. n].out
             S == {k \in 0 .. n : RemoveInv(it[1 .. k], q, B, k)}
  <1>1. Good(q) /\ n \in Nat /\ q \in Seq(Stretch) /\ \A k \in 1 .. n : q[k] \in Stretch
    BY RepParts, ListEnds
  <1>2. DOMAIN q = 1 .. n
    BY <1>1
  <1>3. removeMSE(s, B) = IF isEmpty(s) THEN s
                          ELSE IF r = << >> THEN EmptySOM
                          ELSE SOM(r, Head(r).first, Last(r).last)
    <2>1. FoldLeft(LAMBDA st, A : removeVisit(st, A, B), start, q) = it[1 .. n]
      BY <1>2, LoopsWithArguments, Zenon
    <2> QED  BY <2>1, Zenon DEF removeMSE
  <1>4. start \in RemoveState /\ start.out = << >> /\ start.stopped = FALSE
    BY DEF RemoveState
  <1> HIDE DEF start, q
  <1>6. /\ it[1 .. 0] = start
        /\ \A k \in 1 .. n : it[1 .. k] = removeVisit(it[1 .. (k - 1)], q[k], B)
    BY <1>1, RemoveVisitChain
  <1> HIDE DEF it, n
  <1>7. 0 \in S
    <2>1. \A x : ~CoversTo(q, 0, x)
      BY DEF CoversTo
    <2>2. RemoveInv(start, q, B, 0)
      BY <1>4, <2>1, EmptyList DEF RemoveInv
    <2> QED  BY <1>1, <1>6, <2>2
  <1>8. ASSUME NEW k \in 1 .. n, k - 1 \in S PROVE k \in S
    <2>1. RemoveInv(it[1 .. (k - 1)], q, B, k - 1)
      BY <1>8
    <2>2. RemoveInv(it[1 .. k], q, B, k)
      BY <1>1, <1>6, <2>1, RemoveStep DEF n
    <2> QED  BY <1>1, <2>2
  <1> HIDE DEF S
  <1>9. \A k \in 0 .. n : k \in S
    BY <1>1, <1>7, <1>8, UpTo
  <1>10. RemoveInv(it[1 .. n], q, B, n)
    BY <1>1, <1>9 DEF S
  <1>11. Good(r) /\ \A x \in Nat : Covers(r, x) <=> Covers(q, x) /\ ~In(B, x)
    BY <1>10 DEF RemoveInv, Covers, CoversTo, n
  <1> HIDE DEF r
  <1>12. CASE isEmpty(s)
    BY <1>3, <1>12, EmptyList, Zenon DEF isEmpty
  <1>13. CASE ~isEmpty(s) /\ r = << >>
    <2>1. removeMSE(s, B) = EmptySOM
      BY <1>3, <1>13, Zenon
    <2> QED  BY <1>11, <1>13, <2>1, EmptyRep, Zenon DEF q
  <1>14. CASE ~isEmpty(s) /\ r # << >>
    <2>1. removeMSE(s, B) = SOM(r, Head(r).first, Last(r).last)
      BY <1>3, <1>14, Zenon
    <2>2. Head(r) = r[1] /\ Last(r) = r[Len(r)]
      BY <1>11, <1>14, ListEnds DEF Last
    <2>3. /\ Covers(r, r[1].first) /\ Covers(r, r[Len(r)].last)
          /\ \A x \in Nat : Covers(r, x) => r[1].first <= x /\ x <= r[Len(r)].last
          /\ r[1] \in Stretch /\ r[Len(r)] \in Stretch
      BY <1>11, <1>14, ListEnds
    <2>4. r[1].first \in Nat /\ r[Len(r)].last \in Nat
      BY <2>3, StretchTypes
    <2>5. SOM(r, r[1].first, r[Len(r)].last) \in Rep
          /\ SOM(r, r[1].first, r[Len(r)].last).mses = r
      BY <1>11, <2>3, <2>4, MakeRep, SOMFields
    <2> QED  BY <1>11, <2>1, <2>2, <2>5 DEF q
  <1> QED  BY <1>12, <1>13, <1>14

LEMMA RemoveRep ==
    ASSUME NEW s \in Rep, NEW B \in Stretch
    PROVE  /\ removeMSE(s, B) \in Rep
           /\ \A x \in Nat : Covers(removeMSE(s, B).mses, x) <=> Covers(s.mses, x) /\ ~In(B, x)
  <1>1. B \in Span
    BY StretchIsSpan
  <1> QED  BY <1>1, RemoveSpan

-----------------------------------------------------------------------------
\* unionWith and difference

\* Adding every range of a list, in whatever order they come.
LEMMA AddAll ==
    ASSUME NEW s \in Rep, NEW q \in Seq(Stretch),
           \A k \in 1 .. Len(q) : q[k].first <= MAX_MONAD
    PROVE  LET r == FoldLeft(addMSE, s, q)
           IN  /\ r \in Rep
               /\ \A x \in Nat : Covers(r.mses, x) <=> Covers(s.mses, x) \/ Covers(q, x)
  <1> DEFINE n == Len(q)
             it == AddRun(q, s)
             P(t, k) == /\ t \in Rep
                        /\ \A x \in Nat : Covers(t.mses, x)
                                             <=> Covers(s.mses, x) \/ CoversTo(q, k, x)
             S == {k \in 0 .. n : P(it[1 .. k], k)}
  <1>1. n \in Nat /\ DOMAIN q = 1 .. n /\ \A k \in 1 .. n : q[k] \in Stretch
    OBVIOUS
  <1>2. \A k \in 1 .. n : \A t \in Rep :
           /\ addMSE(t, q[k]) \in Rep
           /\ \A x \in Nat : Covers(addMSE(t, q[k]).mses, x) <=> Covers(t.mses, x) \/ In(q[k], x)
    BY <1>1, AddRep
  <1>3. /\ it[1 .. 0] = s
        /\ \A k \in 1 .. n : it[1 .. k] = addMSE(it[1 .. (k - 1)], q[k])
    BY <1>1, AddChain
  <1> HIDE DEF it, n
  <1>4. 0 \in S
    <2>1. \A x : ~CoversTo(q, 0, x)
      BY DEF CoversTo
    <2> QED  BY <1>1, <1>3, <2>1
  <1>5. ASSUME NEW k \in 1 .. n, k - 1 \in S PROVE k \in S
    <2> DEFINE t == it[1 .. (k - 1)]
    <2>1. P(t, k - 1)
      BY <1>5
    <2>2. it[1 .. k] = addMSE(t, q[k])
      BY <1>3
    <2>3. \A x : CoversTo(q, k, x) <=> CoversTo(q, k - 1, x) \/ In(q[k], x)
      BY <1>1, CoversMore
    <2> HIDE DEF t
    <2>4. /\ addMSE(t, q[k]) \in Rep
          /\ \A x \in Nat : Covers(addMSE(t, q[k]).mses, x) <=> Covers(t.mses, x) \/ In(q[k], x)
      BY <1>2, <2>1
    <2>5. \A x \in Nat : Covers(addMSE(t, q[k]).mses, x)
                            <=> Covers(s.mses, x) \/ CoversTo(q, k, x)
      BY <2>1, <2>3, <2>4, Zenon
    <2>6. P(it[1 .. k], k)
      BY <2>2, <2>4, <2>5
    <2> QED  BY <1>1, <2>6
  <1> HIDE DEF S
  <1>6. \A k \in 0 .. n : k \in S
    BY <1>1, <1>4, <1>5, UpTo
  <1>7. P(it[1 .. n], n)
    BY <1>1, <1>6 DEF S
  <1>8. FoldLeft(addMSE, s, q) = it[1 .. n]
    BY <1>1, LoopsAreFolds, Zenon DEF it, n
  <1> QED  BY <1>7, <1>8 DEF Covers, CoversTo, n

\* Removing every range of a list.
LEMMA RemoveAll ==
    ASSUME NEW s \in Rep, NEW q \in Seq(Stretch)
    PROVE  LET r == FoldLeft(removeMSE, s, q)
           IN  /\ r \in Rep
               /\ \A x \in Nat : Covers(r.mses, x) <=> Covers(s.mses, x) /\ ~Covers(q, x)
  <1> DEFINE n == Len(q)
             it == RemoveRun(q, s)
             P(t, k) == /\ t \in Rep
                        /\ \A x \in Nat : Covers(t.mses, x)
                                             <=> Covers(s.mses, x) /\ ~CoversTo(q, k, x)
             S == {k \in 0 .. n : P(it[1 .. k], k)}
  <1>1. n \in Nat /\ DOMAIN q = 1 .. n /\ \A k \in 1 .. n : q[k] \in Stretch
    OBVIOUS
  <1>2. \A k \in 1 .. n : \A t \in Rep :
           /\ removeMSE(t, q[k]) \in Rep
           /\ \A x \in Nat : Covers(removeMSE(t, q[k]).mses, x)
                                <=> Covers(t.mses, x) /\ ~In(q[k], x)
    BY <1>1, RemoveRep
  <1>3. /\ it[1 .. 0] = s
        /\ \A k \in 1 .. n : it[1 .. k] = removeMSE(it[1 .. (k - 1)], q[k])
    BY <1>1, RemoveChain
  <1> HIDE DEF it, n
  <1>4. 0 \in S
    <2>1. \A x : ~CoversTo(q, 0, x)
      BY DEF CoversTo
    <2> QED  BY <1>1, <1>3, <2>1
  <1>5. ASSUME NEW k \in 1 .. n, k - 1 \in S PROVE k \in S
    <2> DEFINE t == it[1 .. (k - 1)]
    <2>1. P(t, k - 1)
      BY <1>5
    <2>2. it[1 .. k] = removeMSE(t, q[k])
      BY <1>3
    <2>3. \A x : CoversTo(q, k, x) <=> CoversTo(q, k - 1, x) \/ In(q[k], x)
      BY <1>1, CoversMore
    <2> HIDE DEF t
    <2>4. /\ removeMSE(t, q[k]) \in Rep
          /\ \A x \in Nat : Covers(removeMSE(t, q[k]).mses, x)
                               <=> Covers(t.mses, x) /\ ~In(q[k], x)
      BY <1>2, <2>1
    <2>5. \A x \in Nat : Covers(removeMSE(t, q[k]).mses, x)
                            <=> Covers(s.mses, x) /\ ~CoversTo(q, k, x)
      BY <2>1, <2>3, <2>4, Zenon
    <2>6. P(it[1 .. k], k)
      BY <2>2, <2>4, <2>5
    <2> QED  BY <1>1, <2>6
  <1> HIDE DEF S
  <1>6. \A k \in 0 .. n : k \in S
    BY <1>1, <1>4, <1>5, UpTo
  <1>7. P(it[1 .. n], n)
    BY <1>1, <1>6 DEF S
  <1>8. FoldLeft(removeMSE, s, q) = it[1 .. n]
    BY <1>1, LoopsAreFolds, Zenon DEF it, n
  <1> QED  BY <1>7, <1>8 DEF Covers, CoversTo, n

\* Representations of sets of monads that may be in use: below the bound of the empty set.
Used(s) == s \in Rep /\ \A x \in Nat : Covers(s.mses, x) => x <= MAX_MONAD

\* No range of such a set begins above the bound of the empty set.
LEMMA UsedFirst ==
    ASSUME NEW s, Used(s)
    PROVE  \A k \in 1 .. Len(s.mses) : s.mses[k] \in Stretch /\ s.mses[k].first <= MAX_MONAD
  <1> SUFFICES ASSUME NEW k \in 1 .. Len(s.mses)
               PROVE  s.mses[k] \in Stretch /\ s.mses[k].first <= MAX_MONAD
    OBVIOUS
  <1>1. s.mses[k] \in Stretch
    BY RepParts, ListEnds DEF Used
  <1>2. s.mses[k].first \in Nat /\ Covers(s.mses, s.mses[k].first)
    BY <1>1, StretchTypes DEF Covers, In
  <1> QED  BY <1>1, <1>2 DEF Used

\* unionWith keeps the class invariant and is the union.
LEMMA UnionRep ==
    ASSUME NEW s \in Rep, NEW t, Used(t)
    PROVE  /\ unionWith(s, t) \in Rep
           /\ \A x \in Nat : Covers(unionWith(s, t).mses, x) <=> Covers(s.mses, x) \/ Covers(t.mses, x)
  <1>1. t.mses \in Seq(Stretch)
    BY RepParts DEF Used, Good
  <1>2. \A k \in 1 .. Len(t.mses) : t.mses[k].first <= MAX_MONAD
    BY UsedFirst
  <1> QED  BY <1>1, <1>2, AddAll DEF unionWith

\* difference keeps the class invariant and is the difference.
LEMMA DifferenceRep ==
    ASSUME NEW s \in Rep, NEW t \in Rep
    PROVE  /\ difference(s, t) \in Rep
           /\ \A x \in Nat : Covers(difference(s, t).mses, x)
                                <=> Covers(s.mses, x) /\ ~Covers(t.mses, x)
  <1>1. t.mses \in Seq(Stretch)
    BY RepParts DEF Good
  <1> QED  BY <1>1, RemoveAll DEF difference

-----------------------------------------------------------------------------
\* Walks along two lists

\* Where two iterators may be on lists of m and of n elements.
Grid(m, n) == (1 .. m + 1) \X (1 .. n + 1)

\* Induction along such a walk: the positions at which something holds are a set.
LEMMA WalkInduction ==
    ASSUME NEW m \in Nat, NEW n \in Nat, NEW T,
           \A i \in 1 .. m + 1, j \in 1 .. n + 1 :
              /\ i > m \/ j > n => <<i, j>> \in T
              /\ i <= m /\ j <= n /\ <<i + 1, j>> \in T /\ <<i, j + 1>> \in T
                    => <<i, j>> \in T
    PROVE  \A i \in 1 .. m + 1, j \in 1 .. n + 1 : <<i, j>> \in T
  <1> DEFINE S == {k \in 0 .. m + n : \A i \in 1 .. m + 1, j \in 1 .. n + 1 :
                                         (m + 1 - i) + (n + 1 - j) <= k => <<i, j>> \in T}
             M == m + n
  <1>1. 0 \in S
    <2>1. ASSUME NEW i \in 1 .. m + 1, NEW j \in 1 .. n + 1, (m + 1 - i) + (n + 1 - j) <= 0
          PROVE  <<i, j>> \in T
      <3>1. i > m
        BY <2>1
      <3> QED  BY <3>1
    <2> QED  BY <2>1
  <1>2. ASSUME NEW k \in 1 .. M, k - 1 \in S PROVE k \in S
    <2>1. ASSUME NEW i \in 1 .. m + 1, NEW j \in 1 .. n + 1, (m + 1 - i) + (n + 1 - j) <= k
          PROVE  <<i, j>> \in T
      <3>1. CASE i > m \/ j > n
        BY <3>1
      <3>2. CASE i <= m /\ j <= n
        <4>1. i + 1 \in 1 .. m + 1 /\ j + 1 \in 1 .. n + 1
          BY <3>2
        <4>2. /\ (m + 1 - (i + 1)) + (n + 1 - j) <= k - 1
              /\ (m + 1 - i) + (n + 1 - (j + 1)) <= k - 1
          BY <2>1
        <4>3. <<i + 1, j>> \in T /\ <<i, j + 1>> \in T
          BY <1>2, <4>1, <4>2
        <4> QED  BY <3>2, <4>3
      <3> QED  BY <3>1, <3>2
    <2> QED  BY <2>1
  <1>3. M \in Nat
    OBVIOUS
  <1> HIDE DEF S
  <1>4. \A k \in 0 .. M : k \in S
    BY <1>1, <1>2, <1>3, UpTo
  <1>5. M \in S
    BY <1>3, <1>4
  <1>6. \A i \in 1 .. m + 1, j \in 1 .. n + 1 : (m + 1 - i) + (n + 1 - j) <= M
    OBVIOUS
  <1>7. \A i \in 1 .. m + 1, j \in 1 .. n + 1 :
           (m + 1 - i) + (n + 1 - j) <= M => <<i, j>> \in T
    BY <1>5 DEF S
  <1> QED  BY <1>6, <1>7

-----------------------------------------------------------------------------
\* intersect

\* The monads that the ranges from position i on cover.
CoversFrom(q, i, x) == \E k \in i .. Len(q) : In(q[k], x)

\* The ranges from a position on are the one at it and those behind, which begin later.
LEMMA CoversOn ==
    ASSUME NEW q, Good(q), NEW i \in 1 .. Len(q)
    PROVE  /\ \A x : CoversFrom(q, i, x) <=> In(q[i], x) \/ CoversFrom(q, i + 1, x)
           /\ \A x \in Nat : CoversFrom(q, i + 1, x) => x > q[i].last + 1
           /\ q[i] \in Stretch /\ i + 1 \in 1 .. Len(q) + 1
  <1>1. Len(q) \in Nat /\ \A k \in 1 .. Len(q) : q[k] \in Stretch
    BY ListEnds
  <1>2. i .. Len(q) = {i} \cup ((i + 1) .. Len(q))
    BY <1>1
  <1>3. \A x : CoversFrom(q, i, x) <=> In(q[i], x) \/ CoversFrom(q, i + 1, x)
    BY <1>2 DEF CoversFrom
  <1>4. ASSUME NEW x \in Nat, NEW k \in (i + 1) .. Len(q), In(q[k], x) PROVE x > q[i].last + 1
    <2>1. k \in 1 .. Len(q) /\ i < k
      BY <1>1
    <2>2. q[i].last + 1 < q[k].first /\ q[k].first <= x
      BY <1>4, <2>1 DEF Good, In
    <2>3. q[k] \in Stretch /\ q[i] \in Stretch
      BY <1>1, <2>1
    <2>4. q[k].first \in Nat /\ q[i].last \in Nat
      BY <2>3, StretchTypes
    <2> DEFINE u == q[i].last
               v == q[k].first
    <2>5. u \in Nat /\ v \in Nat /\ u + 1 < v /\ v <= x
      BY <2>2, <2>4
    <2> HIDE DEF u, v
    <2>6. x > u + 1
      BY <2>5
    <2> QED  BY <2>6 DEF u
  <1>5. \A x \in Nat : CoversFrom(q, i + 1, x) => x > q[i].last + 1
    BY <1>4 DEF CoversFrom
  <1> QED  BY <1>1, <1>3, <1>5

\* One step of the walk: u and v are the results one step on in a and in b.
commonStep(c, d, u, v) ==
    IF c.last < d.first THEN u
    ELSE IF c.first > d.last THEN v
    ELSE IF c.first >= d.first /\ c.last <= d.last THEN <<c>> \o u
    ELSE IF c.first < d.first /\ c.last > d.last THEN <<d>> \o v
    ELSE IF c.first < d.first THEN <<MSE(d.first, c.last)>> \o u
    ELSE <<MSE(c.first, d.last)>> \o v

\* A step of intersect yields a list of ranges.
LEMMA CommonTypes ==
    ASSUME NEW c \in Stretch, NEW d \in Stretch, NEW u \in Seq(Stretch), NEW v \in Seq(Stretch)
    PROVE  commonStep(c, d, u, v) \in Seq(Stretch)
  <1>1. /\ c.first \in Nat /\ c.last \in Nat /\ 1 <= c.first /\ c.first <= c.last
        /\ d.first \in Nat /\ d.last \in Nat /\ 1 <= d.first /\ d.first <= d.last
    BY StretchTypes
  <1>2. \A e \in Stretch : <<e>> \o u \in Seq(Stretch) /\ <<e>> \o v \in Seq(Stretch)
    OBVIOUS
  <1>3. /\ ~(c.last < d.first) => MSE(d.first, c.last) \in Stretch
        /\ ~(c.first > d.last) => MSE(c.first, d.last) \in Stretch
    BY <1>1, StretchTypes
  <1> QED  BY <1>2, <1>3 DEF commonStep

\* A step of intersect yields what both lists share from here on, given what they share one
\* step on: c and d are the elements the iterators are at, Ac and Bd say that x is covered
\* behind them.
LEMMA CommonStep ==
    ASSUME NEW c \in Stretch, NEW d \in Stretch, NEW u \in Seq(Stretch), NEW v \in Seq(Stretch),
           NEW x \in Nat, NEW Ac, NEW Bd,
           Ac => x > c.last + 1, Bd => x > d.last + 1,
           Covers(u, x) <=> Ac /\ (In(d, x) \/ Bd),
           Covers(v, x) <=> (In(c, x) \/ Ac) /\ Bd
    PROVE  /\ commonStep(c, d, u, v) \in Seq(Stretch)
           /\ Covers(commonStep(c, d, u, v), x) <=> (In(c, x) \/ Ac) /\ (In(d, x) \/ Bd)
  <1> DEFINE r == commonStep(c, d, u, v)
  <1>1. /\ c.first \in Nat /\ c.last \in Nat /\ 1 <= c.first /\ c.first <= c.last
        /\ d.first \in Nat /\ d.last \in Nat /\ 1 <= d.first /\ d.first <= d.last
    BY StretchTypes
  <1>2. /\ In(c, x) <=> c.first <= x /\ x <= c.last
        /\ In(d, x) <=> d.first <= x /\ x <= d.last
    BY DEF In
  <1>3. ASSUME NEW e \in Stretch, NEW w \in Seq(Stretch)
        PROVE  /\ <<e>> \o w \in Seq(Stretch)
               /\ Covers(<<e>> \o w, x) <=> In(e, x) \/ Covers(w, x)
    <2> DEFINE p == <<e>> \o w
    <2>1. p \in Seq(Stretch) /\ Len(p) = Len(w) + 1 /\ p[1] = e /\ Len(w) \in Nat
          /\ \A k \in 1 .. Len(w) : p[k + 1] = w[k]
      OBVIOUS
    <2> HIDE DEF p
    <2>2. \A k \in 1 .. Len(p) : k = 1 \/ (k - 1 \in 1 .. Len(w) /\ p[k] = w[k - 1])
      BY <2>1
    <2>3. 1 \in 1 .. Len(p) /\ \A k \in 1 .. Len(w) : k + 1 \in 1 .. Len(p)
      BY <2>1
    <2>4. Covers(p, x) <=> In(e, x) \/ Covers(w, x)
      BY <2>1, <2>2, <2>3 DEF Covers
    <2> QED  BY <2>1, <2>4 DEF p
  <1>4. CASE c.last < d.first
    <2>1. r = u
      BY <1>4, Zenon DEF commonStep
    <2> QED  BY <1>1, <1>2, <1>4, <2>1
  <1>5. CASE ~(c.last < d.first) /\ c.first > d.last
    <2>1. r = v
      BY <1>5, Zenon DEF commonStep
    <2> QED  BY <1>1, <1>2, <1>5, <2>1
  <1>6. CASE ~(c.last < d.first) /\ ~(c.first > d.last) /\ c.first >= d.first /\ c.last <= d.last
    <2>1. r = <<c>> \o u
      BY <1>6, Zenon DEF commonStep
    <2>2. r \in Seq(Stretch) /\ (Covers(r, x) <=> In(c, x) \/ Covers(u, x))
      BY <1>3, <2>1
    <2> QED  BY <1>1, <1>2, <1>6, <2>2
  <1>7. CASE ~(c.last < d.first) /\ ~(c.first > d.last)
             /\ ~(c.first >= d.first /\ c.last <= d.last) /\ c.first < d.first /\ c.last > d.last
    <2>1. r = <<d>> \o v
      BY <1>7, Zenon DEF commonStep
    <2>2. r \in Seq(Stretch) /\ (Covers(r, x) <=> In(d, x) \/ Covers(v, x))
      BY <1>3, <2>1
    <2> QED  BY <1>1, <1>2, <1>7, <2>2
  <1>8. CASE ~(c.last < d.first) /\ ~(c.first > d.last)
             /\ ~(c.first >= d.first /\ c.last <= d.last) /\ ~(c.first < d.first /\ c.last > d.last)
             /\ c.first < d.first
    <2> DEFINE e == MSE(d.first, c.last)
    <2>1. r = <<e>> \o u
      BY <1>8, Zenon DEF commonStep
    <2>2. e \in Stretch /\ e.first = d.first /\ e.last = c.last
      BY <1>1, <1>8, StretchTypes
    <2> HIDE DEF e, r
    <2>3. r \in Seq(Stretch) /\ (Covers(r, x) <=> In(e, x) \/ Covers(u, x))
      BY <1>3, <2>1, <2>2
    <2>4. In(e, x) <=> d.first <= x /\ x <= c.last
      BY <2>2 DEF In
    <2> QED  BY <1>1, <1>2, <1>8, <2>3, <2>4 DEF r
  <1>9. CASE ~(c.last < d.first) /\ ~(c.first > d.last)
             /\ ~(c.first >= d.first /\ c.last <= d.last) /\ ~(c.first < d.first /\ c.last > d.last)
             /\ ~(c.first < d.first)
    <2> DEFINE e == MSE(c.first, d.last)
    <2>1. r = <<e>> \o v
      BY <1>9, Zenon DEF commonStep
    <2>2. e \in Stretch /\ e.first = c.first /\ e.last = d.last
      BY <1>1, <1>9, StretchTypes
    <2> HIDE DEF e, r
    <2>3. r \in Seq(Stretch) /\ (Covers(r, x) <=> In(e, x) \/ Covers(v, x))
      BY <1>3, <2>1, <2>2
    <2>4. In(e, x) <=> c.first <= x /\ x <= d.last
      BY <2>2 DEF In
    <2> QED  BY <1>1, <1>2, <1>9, <2>3, <2>4 DEF r
  <1> QED  BY <1>4, <1>5, <1>6, <1>7, <1>8, <1>9, Zenon

\* The walk of commonRanges over the lists a and b.
commonBorder(i, m) == << >>

CommonLoop == INSTANCE Loops WITH Step <- noStep, Border <- commonBorder, Cross <- commonStep

CommonRun(a, b) == CommonLoop!WalkRun(a, b)

\* Its values, position by position.
LEMMA CommonChain ==
    ASSUME NEW a \in Seq(Stretch), NEW b \in Seq(Stretch)
    PROVE  \A i \in 1 .. Len(a) + 1, j \in 1 .. Len(b) + 1 :
              CommonRun(a, b)[<<i, j>>] =
                 IF i > Len(a) \/ j > Len(b) THEN << >>
                 ELSE commonStep(a[i], b[j], CommonRun(a, b)[<<i + 1, j>>],
                                  CommonRun(a, b)[<<i, j + 1>>])
  <1>1. Len(a) \in Nat /\ Len(b) \in Nat
    OBVIOUS
  <1>2. CommonLoop!Walked(CommonLoop!WalkRun(a, b), a, b)
    BY <1>1, NumbersInduct, CommonLoop!WalkChain DEF CommonLoop!Inductive
  <1> QED  BY <1>2, Zenon DEF CommonRun, commonBorder, CommonLoop!Walked

\* The loop of intersect is this walk.
LEMMA CommonIsWalk ==
    ASSUME NEW a, NEW b
    PROVE  commonRanges(a, b) = CommonRun(a, b)[<<1, 1>>]
  BY Zenon DEF commonRanges, CommonRun, commonStep, commonBorder,
         CommonLoop!WalkRun, CommonLoop!Walk, CommonLoop!Value, CommonLoop!Grid, Positions

\* The ranges that intersect collects cover what both lists cover.
LEMMA CommonList ==
    ASSUME NEW a, Good(a), NEW b, Good(b)
    PROVE  /\ commonRanges(a, b) \in Seq(Stretch)
           /\ \A x \in Nat : Covers(commonRanges(a, b), x) <=> Covers(a, x) /\ Covers(b, x)
  <1> DEFINE m == Len(a)
             n == Len(b)
             g == CommonRun(a, b)
             P(i, j) == /\ g[<<i, j>>] \in Seq(Stretch)
                        /\ \A x \in Nat : Covers(g[<<i, j>>], x)
                                             <=> CoversFrom(a, i, x) /\ CoversFrom(b, j, x)
             T == {d \in Grid(m, n) : P(d[1], d[2])}
  <1>1. m \in Nat /\ n \in Nat /\ a \in Seq(Stretch) /\ b \in Seq(Stretch)
    BY ListEnds
  <1>2. \A i \in 1 .. m + 1, j \in 1 .. n + 1 :
           g[<<i, j>>] = IF i > m \/ j > n THEN << >>
                         ELSE commonStep(a[i], b[j], g[<<i + 1, j>>], g[<<i, j + 1>>])
    BY <1>1, CommonChain
  <1>3. \A i \in 1 .. m + 1, j \in 1 .. n + 1 : <<i, j>> \in T <=> P(i, j)
    BY DEF Grid
  <1> HIDE DEF g, T
  <1>4. ASSUME NEW i \in 1 .. m + 1, NEW j \in 1 .. n + 1, i > m \/ j > n
        PROVE  P(i, j)
    <2>1. g[<<i, j>>] = << >>
      BY <1>2, <1>4
    <2>2. \A x : ~(CoversFrom(a, i, x) /\ CoversFrom(b, j, x))
      BY <1>1, <1>4 DEF CoversFrom
    <2> QED  BY <2>1, <2>2, EmptyList
  <1>5. ASSUME NEW i \in 1 .. m, NEW j \in 1 .. n, P(i + 1, j), P(i, j + 1)
        PROVE  P(i, j)
    <2> DEFINE u == g[<<i + 1, j>>]
               v == g[<<i, j + 1>>]
    <2>1. g[<<i, j>>] = commonStep(a[i], b[j], u, v)
      <3>1. i \in 1 .. m + 1 /\ j \in 1 .. n + 1 /\ ~(i > m \/ j > n)
        BY <1>1
      <3> QED  BY <1>2, <3>1
    <2>2. u \in Seq(Stretch) /\ v \in Seq(Stretch)
      BY <1>5
    <2>3. /\ \A x : CoversFrom(a, i, x) <=> In(a[i], x) \/ CoversFrom(a, i + 1, x)
          /\ \A x \in Nat : CoversFrom(a, i + 1, x) => x > a[i].last + 1
          /\ a[i] \in Stretch
      BY CoversOn
    <2>4. /\ \A x : CoversFrom(b, j, x) <=> In(b[j], x) \/ CoversFrom(b, j + 1, x)
          /\ \A x \in Nat : CoversFrom(b, j + 1, x) => x > b[j].last + 1
          /\ b[j] \in Stretch
      BY CoversOn
    <2>5. commonStep(a[i], b[j], u, v) \in Seq(Stretch)
      BY <2>2, <2>3, <2>4, CommonTypes
    <2>6. ASSUME NEW x \in Nat
          PROVE  Covers(commonStep(a[i], b[j], u, v), x)
                    <=> CoversFrom(a, i, x) /\ CoversFrom(b, j, x)
      <3> DEFINE Ac == CoversFrom(a, i + 1, x)
                 Bd == CoversFrom(b, j + 1, x)
      <3>1. /\ Ac => x > a[i].last + 1
            /\ Bd => x > b[j].last + 1
        BY <2>3, <2>4
      <3>2. /\ Covers(u, x) <=> Ac /\ (In(b[j], x) \/ Bd)
            /\ Covers(v, x) <=> (In(a[i], x) \/ Ac) /\ Bd
        BY <1>5, <2>3, <2>4, Zenon
      <3> HIDE DEF Ac, Bd, u, v
      <3>3. Covers(commonStep(a[i], b[j], u, v), x)
               <=> (In(a[i], x) \/ Ac) /\ (In(b[j], x) \/ Bd)
        BY <2>2, <2>3, <2>4, <3>1, <3>2, CommonStep
      <3> QED  BY <2>3, <2>4, <3>3, Zenon DEF Ac, Bd
    <2> QED  BY <2>1, <2>5, <2>6
  <1> HIDE DEF P, m, n
  <1>6. \A i \in 1 .. m + 1, j \in 1 .. n + 1 :
           /\ i > m \/ j > n => <<i, j>> \in T
           /\ i <= m /\ j <= n /\ <<i + 1, j>> \in T /\ <<i, j + 1>> \in T
                 => <<i, j>> \in T
    <2> SUFFICES ASSUME NEW i \in 1 .. m + 1, NEW j \in 1 .. n + 1
                 PROVE  /\ i > m \/ j > n => <<i, j>> \in T
                        /\ i <= m /\ j <= n /\ <<i + 1, j>> \in T /\ <<i, j + 1>> \in T
                              => <<i, j>> \in T
      OBVIOUS
    <2>1. CASE i > m \/ j > n
      BY <1>1, <1>3, <1>4, <2>1
    <2>2. CASE i <= m /\ j <= n
      <3>1. i \in 1 .. m /\ j \in 1 .. n /\ i + 1 \in 1 .. m + 1 /\ j + 1 \in 1 .. n + 1
        BY <1>1, <2>2
      <3> QED  BY <1>1, <1>3, <1>5, <2>2, <3>1
    <2> QED  BY <1>1, <2>1, <2>2
  <1>7. \A i \in 1 .. m + 1, j \in 1 .. n + 1 : <<i, j>> \in T
    BY <1>1, <1>6, WalkInduction
  <1>8. 1 \in 1 .. m + 1 /\ 1 \in 1 .. n + 1
    BY <1>1
  <1>9. P(1, 1)
    BY <1>3, <1>7, <1>8
  <1> QED  BY <1>9, CommonIsWalk DEF P, g, Covers, CoversFrom

\* intersect keeps the class invariant and is the intersection.
LEMMA IntersectRep ==
    ASSUME NEW s, Used(s), NEW t, Used(t)
    PROVE  /\ intersect(s, t) \in Rep
           /\ \A x \in Nat : Covers(intersect(s, t).mses, x)
                                <=> Covers(s.mses, x) /\ Covers(t.mses, x)
  <1> DEFINE q == commonRanges(s.mses, t.mses)
  <1>1. s \in Rep /\ t \in Rep /\ Good(s.mses) /\ Good(t.mses)
    BY RepParts DEF Used
  <1>2. /\ q \in Seq(Stretch)
        /\ \A x \in Nat : Covers(q, x) <=> Covers(s.mses, x) /\ Covers(t.mses, x)
    BY <1>1, CommonList
  <1>3. EmptySOM \in Rep /\ EmptySOM.mses = << >> /\ \A x : ~Covers(<< >>, x)
    BY EmptyRep, EmptyList
  <1>4. CASE isEmpty(s) \/ isEmpty(t)
    <2>1. intersect(s, t) = EmptySOM
      BY <1>4, Zenon DEF intersect
    <2>2. s.mses = << >> \/ t.mses = << >>
      BY <1>4 DEF isEmpty
    <2> QED  BY <1>3, <2>1, <2>2
  <1>5. CASE ~(isEmpty(s) \/ isEmpty(t))
    <2>1. intersect(s, t) = FoldLeft(addMSE, EmptySOM, q)
      BY <1>5, Zenon DEF intersect
    <2> HIDE DEF q
    <2>2. ASSUME NEW k \in 1 .. Len(q) PROVE q[k].first <= MAX_MONAD
      <3>1. q[k] \in Stretch
        BY <1>2
      <3>2. q[k].first \in Nat /\ Covers(q, q[k].first)
        BY <3>1, StretchTypes DEF Covers, In
      <3> QED  BY <1>2, <3>2 DEF Used
    <2>3. /\ FoldLeft(addMSE, EmptySOM, q) \in Rep
          /\ \A x \in Nat : Covers(FoldLeft(addMSE, EmptySOM, q).mses, x)
                               <=> Covers(EmptySOM.mses, x) \/ Covers(q, x)
      BY <1>2, <1>3, <2>2, AddAll
    <2> QED  BY <1>2, <1>3, <2>1, <2>3
  <1> QED  BY <1>4, <1>5

-----------------------------------------------------------------------------
\* overlap and part_of

overlapStep(c, d, u, v) ==
    IF c.last < d.first THEN u ELSE IF c.first > d.last THEN v ELSE TRUE

partStep(c, d, u, v) ==
    IF c.last < d.first THEN FALSE
    ELSE IF c.first > d.last THEN v
    ELSE IF c.first >= d.first /\ c.last <= d.last THEN u
    ELSE FALSE

\* The walk of overlap over the lists a and b.
overlapBorder(i, m) == FALSE

OverlapLoop == INSTANCE Loops WITH Step <- noStep, Border <- overlapBorder, Cross <- overlapStep

OverlapRun(a, b) == OverlapLoop!WalkRun(a, b)

\* Its values, position by position.
LEMMA OverlapChain ==
    ASSUME NEW a \in Seq(Stretch), NEW b \in Seq(Stretch)
    PROVE  \A i \in 1 .. Len(a) + 1, j \in 1 .. Len(b) + 1 :
              OverlapRun(a, b)[<<i, j>>] =
                 IF i > Len(a) \/ j > Len(b) THEN FALSE
                 ELSE overlapStep(a[i], b[j], OverlapRun(a, b)[<<i + 1, j>>],
                                  OverlapRun(a, b)[<<i, j + 1>>])
  <1>1. Len(a) \in Nat /\ Len(b) \in Nat
    OBVIOUS
  <1>2. OverlapLoop!Walked(OverlapLoop!WalkRun(a, b), a, b)
    BY <1>1, NumbersInduct, OverlapLoop!WalkChain DEF OverlapLoop!Inductive
  <1> QED  BY <1>2, Zenon DEF OverlapRun, overlapBorder, OverlapLoop!Walked

\* The walk of part_of over the lists a and b.
partBorder(i, m) == i > m

PartLoop == INSTANCE Loops WITH Step <- noStep, Border <- partBorder, Cross <- partStep

PartRun(a, b) == PartLoop!WalkRun(a, b)

\* Its values, position by position.
LEMMA PartChain ==
    ASSUME NEW a \in Seq(Stretch), NEW b \in Seq(Stretch)
    PROVE  \A i \in 1 .. Len(a) + 1, j \in 1 .. Len(b) + 1 :
              PartRun(a, b)[<<i, j>>] =
                 IF i > Len(a) \/ j > Len(b) THEN i > Len(a)
                 ELSE partStep(a[i], b[j], PartRun(a, b)[<<i + 1, j>>],
                                  PartRun(a, b)[<<i, j + 1>>])
  <1>1. Len(a) \in Nat /\ Len(b) \in Nat
    OBVIOUS
  <1>2. PartLoop!Walked(PartLoop!WalkRun(a, b), a, b)
    BY <1>1, NumbersInduct, PartLoop!WalkChain DEF PartLoop!Inductive
  <1> QED  BY <1>2, Zenon DEF PartRun, partBorder, PartLoop!Walked

\* The loop of overlap is this walk.
LEMMA OverlapIsWalk ==
    ASSUME NEW s, NEW t
    PROVE  overlap(s, t) <=> /\ ~isEmpty(s) /\ ~isEmpty(t)
                             /\ OverlapRun(s.mses, t.mses)[<<1, 1>>]
  BY Zenon DEF overlap, OverlapRun, overlapStep, overlapBorder,
         OverlapLoop!WalkRun, OverlapLoop!Walk, OverlapLoop!Value, OverlapLoop!Grid, Positions

\* The loop of part_of is this walk, behind its two shortcuts.
LEMMA PartIsWalk ==
    ASSUME NEW s, NEW t
    PROVE  part_of(s, t) <=> /\ s.first >= t.first
                             /\ s.last <= t.last
                             /\ hasOnlyOneMSE(t) \/ PartRun(s.mses, t.mses)[<<1, 1>>]
  BY Zenon DEF part_of, PartRun, partStep, partBorder,
         PartLoop!WalkRun, PartLoop!Walk, PartLoop!Value, PartLoop!Grid, Positions

\* A range of monads covers its ends.
LEMMA StretchEnds ==
    ASSUME NEW c \in Stretch
    PROVE  In(c, c.first) /\ In(c, c.last) /\ c.first \in Nat /\ c.last \in Nat
  BY StretchTypes DEF In

\* What the walk of overlap answers.
LEMMA OverlapRunExact ==
    ASSUME NEW a, Good(a), NEW b, Good(b)
    PROVE  OverlapRun(a, b)[<<1, 1>>] <=> \E x \in Nat : Covers(a, x) /\ Covers(b, x)
  <1> DEFINE m == Len(a)
             n == Len(b)
             g == OverlapRun(a, b)
             Meet(i, j) == \E x \in Nat : CoversFrom(a, i, x) /\ CoversFrom(b, j, x)
             P(i, j) == g[<<i, j>>] = Meet(i, j)
             T == {d \in Grid(m, n) : P(d[1], d[2])}
  <1>1. m \in Nat /\ n \in Nat /\ a \in Seq(Stretch) /\ b \in Seq(Stretch)
    BY ListEnds
  <1>2. \A i \in 1 .. m + 1, j \in 1 .. n + 1 :
           g[<<i, j>>] = IF i > m \/ j > n THEN FALSE
                         ELSE overlapStep(a[i], b[j], g[<<i + 1, j>>], g[<<i, j + 1>>])
    BY <1>1, OverlapChain
  <1>3. \A i \in 1 .. m + 1, j \in 1 .. n + 1 : <<i, j>> \in T <=> P(i, j)
    <2> HIDE DEF P
    <2> QED  BY DEF Grid
  <1> HIDE DEF g, T
  <1>4. ASSUME NEW i \in 1 .. m + 1, NEW j \in 1 .. n + 1, i > m \/ j > n
        PROVE  P(i, j)
    <2>1. g[<<i, j>>] = FALSE
      BY <1>2, <1>4
    <2>2. ~Meet(i, j)
      BY <1>1, <1>4 DEF CoversFrom
    <2> QED  BY <2>1, <2>2
  <1>5. ASSUME NEW i \in 1 .. m, NEW j \in 1 .. n, P(i + 1, j), P(i, j + 1)
        PROVE  P(i, j)
    <2> DEFINE u == g[<<i + 1, j>>]
               v == g[<<i, j + 1>>]
               c == a[i]
               d == b[j]
    <2>1. g[<<i, j>>] = overlapStep(c, d, u, v)
      <3>1. i \in 1 .. m + 1 /\ j \in 1 .. n + 1 /\ ~(i > m \/ j > n)
        BY <1>1
      <3> QED  BY <1>2, <3>1
    <2>2. u = Meet(i + 1, j) /\ v = Meet(i, j + 1)
      BY <1>5
    <2>3. /\ \A x : CoversFrom(a, i, x) <=> In(c, x) \/ CoversFrom(a, i + 1, x)
          /\ \A x \in Nat : CoversFrom(a, i + 1, x) => x > c.last + 1
          /\ c \in Stretch
      BY CoversOn
    <2>4. /\ \A x : CoversFrom(b, j, x) <=> In(d, x) \/ CoversFrom(b, j + 1, x)
          /\ \A x \in Nat : CoversFrom(b, j + 1, x) => x > d.last + 1
          /\ d \in Stretch
      BY CoversOn
    <2>5. /\ c.first \in Nat /\ c.last \in Nat /\ 1 <= c.first /\ c.first <= c.last
          /\ d.first \in Nat /\ d.last \in Nat /\ 1 <= d.first /\ d.first <= d.last
      BY <2>3, <2>4, StretchTypes
    <2> HIDE DEF u, v, c, d
    <2>6. CASE c.last < d.first
      <3>1. overlapStep(c, d, u, v) = u
        BY <2>6, Zenon DEF overlapStep
      <3>2. \A x \in Nat : ~(In(c, x) /\ CoversFrom(b, j, x))
        BY <2>4, <2>5, <2>6 DEF In
      <3>3. Meet(i + 1, j) <=> Meet(i, j)
        BY <2>3, <3>2, Zenon
      <3>4. g[<<i, j>>] = Meet(i + 1, j)
        BY <2>1, <2>2, <3>1, Zenon
      <3> QED  BY <3>3, <3>4
    <2>7. CASE ~(c.last < d.first) /\ c.first > d.last
      <3>1. overlapStep(c, d, u, v) = v
        BY <2>7, Zenon DEF overlapStep
      <3>2. \A x \in Nat : ~(In(d, x) /\ CoversFrom(a, i, x))
        BY <2>3, <2>5, <2>7 DEF In
      <3>3. Meet(i, j + 1) <=> Meet(i, j)
        BY <2>4, <3>2, Zenon
      <3>4. g[<<i, j>>] = Meet(i, j + 1)
        BY <2>1, <2>2, <3>1, Zenon
      <3> QED  BY <3>3, <3>4
    <2>8. CASE ~(c.last < d.first) /\ ~(c.first > d.last)
      <3>1. overlapStep(c, d, u, v) = TRUE
        BY <2>8, Zenon DEF overlapStep
      <3>2. PICK x \in Nat : In(c, x) /\ In(d, x)
        <4>1. CASE c.first <= d.first
          BY <2>5, <2>8, <4>1 DEF In
        <4>2. CASE ~(c.first <= d.first)
          BY <2>5, <2>8, <4>2 DEF In
        <4> QED  BY <4>1, <4>2
      <3>3. Meet(i, j)
        BY <2>3, <2>4, <3>2, Zenon
      <3> QED  BY <2>1, <3>1, <3>3, Zenon
    <2> QED  BY <2>6, <2>7, <2>8
  <1> HIDE DEF P, m, n
  <1>6. \A i \in 1 .. m + 1, j \in 1 .. n + 1 :
           /\ i > m \/ j > n => <<i, j>> \in T
           /\ i <= m /\ j <= n /\ <<i + 1, j>> \in T /\ <<i, j + 1>> \in T
                 => <<i, j>> \in T
    <2> SUFFICES ASSUME NEW i \in 1 .. m + 1, NEW j \in 1 .. n + 1
                 PROVE  /\ i > m \/ j > n => <<i, j>> \in T
                        /\ i <= m /\ j <= n /\ <<i + 1, j>> \in T /\ <<i, j + 1>> \in T
                              => <<i, j>> \in T
      OBVIOUS
    <2>1. CASE i > m \/ j > n
      BY <1>1, <1>3, <1>4, <2>1
    <2>2. CASE i <= m /\ j <= n
      <3>1. i \in 1 .. m /\ j \in 1 .. n /\ i + 1 \in 1 .. m + 1 /\ j + 1 \in 1 .. n + 1
        BY <1>1, <2>2
      <3> QED  BY <1>1, <1>3, <1>5, <2>2, <3>1
    <2> QED  BY <1>1, <2>1, <2>2
  <1>7. \A i \in 1 .. m + 1, j \in 1 .. n + 1 : <<i, j>> \in T
    BY <1>1, <1>6, WalkInduction
  <1>8. 1 \in 1 .. m + 1 /\ 1 \in 1 .. n + 1
    BY <1>1
  <1>9. P(1, 1)
    BY <1>3, <1>7, <1>8
  <1>10. g[<<1, 1>>] = Meet(1, 1)
    BY <1>9 DEF P
  <1>11. \A x : (CoversFrom(a, 1, x) <=> Covers(a, x)) /\ (CoversFrom(b, 1, x) <=> Covers(b, x))
    BY DEF CoversFrom, Covers
  <1>12. Meet(1, 1) <=> \E x \in Nat : Covers(a, x) /\ Covers(b, x)
    BY <1>11, Zenon
  <1> QED  BY <1>10, <1>12, Zenon DEF g

\* What the walk of part_of answers.
LEMMA PartRunExact ==
    ASSUME NEW a, Good(a), NEW b, Good(b)
    PROVE  PartRun(a, b)[<<1, 1>>] <=> \A x \in Nat : Covers(a, x) => Covers(b, x)
  <1> DEFINE m == Len(a)
             n == Len(b)
             g == PartRun(a, b)
             Within(i, j) == \A x \in Nat : CoversFrom(a, i, x) => CoversFrom(b, j, x)
             P(i, j) == g[<<i, j>>] = Within(i, j)
             T == {d \in Grid(m, n) : P(d[1], d[2])}
  <1>1. m \in Nat /\ n \in Nat /\ a \in Seq(Stretch) /\ b \in Seq(Stretch)
    BY ListEnds
  <1>2. \A i \in 1 .. m + 1, j \in 1 .. n + 1 :
           g[<<i, j>>] = IF i > m \/ j > n THEN i > m
                         ELSE partStep(a[i], b[j], g[<<i + 1, j>>], g[<<i, j + 1>>])
    BY <1>1, PartChain
  <1>3. \A i \in 1 .. m + 1, j \in 1 .. n + 1 : <<i, j>> \in T <=> P(i, j)
    <2> HIDE DEF P
    <2> QED  BY DEF Grid
  <1> HIDE DEF g, T
  <1>4. ASSUME NEW i \in 1 .. m + 1, NEW j \in 1 .. n + 1, i > m \/ j > n
        PROVE  P(i, j)
    <2>1. g[<<i, j>>] = (i > m)
      BY <1>2, <1>4, Zenon
    <2>2. CASE i > m
      <3>1. Within(i, j)
        BY <1>1, <2>2 DEF CoversFrom
      <3>2. g[<<i, j>>] = TRUE
        BY <2>1, <2>2
      <3> QED  BY <3>1, <3>2
    <2>3. CASE ~(i > m)
      <3>1. i \in 1 .. m
        BY <1>1, <2>3
      <3>2. a[i] \in Stretch /\ \A x : In(a[i], x) => CoversFrom(a, i, x)
        BY <3>1, CoversOn
      <3>3. In(a[i], a[i].first) /\ a[i].first \in Nat
        BY <3>2, StretchEnds
      <3>4. \A x : ~CoversFrom(b, j, x)
        BY <1>1, <1>4, <2>3 DEF CoversFrom
      <3>5. ~Within(i, j)
        BY <3>2, <3>3, <3>4, Zenon
      <3>6. (i > m) = FALSE
        BY <2>3
      <3>7. g[<<i, j>>] = FALSE
        BY <2>1, <3>6, Zenon
      <3> QED  BY <3>5, <3>7
    <2> QED  BY <2>2, <2>3
  <1>5. ASSUME NEW i \in 1 .. m, NEW j \in 1 .. n, P(i + 1, j), P(i, j + 1)
        PROVE  P(i, j)
    <2> DEFINE u == g[<<i + 1, j>>]
               v == g[<<i, j + 1>>]
               c == a[i]
               d == b[j]
    <2>1. g[<<i, j>>] = partStep(c, d, u, v)
      <3>1. i \in 1 .. m + 1 /\ j \in 1 .. n + 1 /\ ~(i > m \/ j > n)
        BY <1>1
      <3> QED  BY <1>2, <3>1
    <2>2. u = Within(i + 1, j) /\ v = Within(i, j + 1)
      BY <1>5
    <2>3. /\ \A x : CoversFrom(a, i, x) <=> In(c, x) \/ CoversFrom(a, i + 1, x)
          /\ \A x \in Nat : CoversFrom(a, i + 1, x) => x > c.last + 1
          /\ c \in Stretch
      BY CoversOn
    <2>4. /\ \A x : CoversFrom(b, j, x) <=> In(d, x) \/ CoversFrom(b, j + 1, x)
          /\ \A x \in Nat : CoversFrom(b, j + 1, x) => x > d.last + 1
          /\ d \in Stretch
      BY CoversOn
    <2>5. /\ c.first \in Nat /\ c.last \in Nat /\ 1 <= c.first /\ c.first <= c.last
          /\ d.first \in Nat /\ d.last \in Nat /\ 1 <= d.first /\ d.first <= d.last
      BY <2>3, <2>4, StretchTypes
    <2> HIDE DEF u, v, c, d
    <2>6. \A x \in Nat : CoversFrom(b, j, x) => d.first <= x
      BY <2>4, <2>5 DEF In
    <2>7. CASE c.first < d.first
      <3>1. partStep(c, d, u, v) = FALSE
        <4>1. ~(c.first > d.last) /\ ~(c.first >= d.first)
          BY <2>5, <2>7
        <4> QED  BY <4>1, Zenon DEF partStep
      <3>2. CoversFrom(a, i, c.first)
        BY <2>3, StretchEnds
      <3>3. ~CoversFrom(b, j, c.first)
        BY <2>5, <2>6, <2>7
      <3>4. ~Within(i, j)
        BY <2>5, <3>2, <3>3, Zenon
      <3> QED  BY <2>1, <3>1, <3>4, Zenon
    <2>8. CASE ~(c.first < d.first) /\ c.first > d.last
      <3>1. partStep(c, d, u, v) = v
        <4>1. ~(c.last < d.first)
          BY <2>5, <2>8
        <4> QED  BY <2>8, <4>1, Zenon DEF partStep
      <3>2. \A x \in Nat : ~(In(d, x) /\ CoversFrom(a, i, x))
        BY <2>3, <2>5, <2>8 DEF In
      <3>3. Within(i, j + 1) <=> Within(i, j)
        BY <2>4, <3>2, Zenon
      <3>4. g[<<i, j>>] = Within(i, j + 1)
        BY <2>1, <2>2, <3>1, Zenon
      <3> QED  BY <3>3, <3>4
    <2>9. CASE ~(c.first < d.first) /\ ~(c.first > d.last) /\ c.last <= d.last
      <3>1. partStep(c, d, u, v) = u
        <4>1. ~(c.last < d.first) /\ c.first >= d.first
          BY <2>5, <2>9
        <4> QED  BY <2>9, <4>1, Zenon DEF partStep
      <3>2. \A x \in Nat : In(c, x) => CoversFrom(b, j, x)
        BY <2>4, <2>5, <2>9 DEF In
      <3>3. Within(i + 1, j) <=> Within(i, j)
        BY <2>3, <3>2, Zenon
      <3>4. g[<<i, j>>] = Within(i + 1, j)
        BY <2>1, <2>2, <3>1, Zenon
      <3> QED  BY <3>3, <3>4
    <2>10. CASE ~(c.first < d.first) /\ ~(c.first > d.last) /\ ~(c.last <= d.last)
      <3>1. partStep(c, d, u, v) = FALSE
        <4>1. ~(c.last < d.first) /\ ~(c.first >= d.first /\ c.last <= d.last)
          BY <2>5, <2>10
        <4> QED  BY <2>10, <4>1, Zenon DEF partStep
      <3> DEFINE x == d.last + 1
      <3>2. x \in Nat /\ In(c, x) /\ ~In(d, x) /\ ~(x > d.last + 1)
        BY <2>5, <2>10 DEF In
      <3> HIDE DEF x
      <3>3. CoversFrom(a, i, x) /\ ~CoversFrom(b, j, x)
        BY <2>3, <2>4, <3>2
      <3>4. ~Within(i, j)
        BY <3>2, <3>3, Zenon
      <3> QED  BY <2>1, <3>1, <3>4, Zenon
    <2> QED  BY <2>7, <2>8, <2>9, <2>10
  <1> HIDE DEF P, m, n
  <1>6. \A i \in 1 .. m + 1, j \in 1 .. n + 1 :
           /\ i > m \/ j > n => <<i, j>> \in T
           /\ i <= m /\ j <= n /\ <<i + 1, j>> \in T /\ <<i, j + 1>> \in T
                 => <<i, j>> \in T
    <2> SUFFICES ASSUME NEW i \in 1 .. m + 1, NEW j \in 1 .. n + 1
                 PROVE  /\ i > m \/ j > n => <<i, j>> \in T
                        /\ i <= m /\ j <= n /\ <<i + 1, j>> \in T /\ <<i, j + 1>> \in T
                              => <<i, j>> \in T
      OBVIOUS
    <2>1. CASE i > m \/ j > n
      BY <1>1, <1>3, <1>4, <2>1
    <2>2. CASE i <= m /\ j <= n
      <3>1. i \in 1 .. m /\ j \in 1 .. n /\ i + 1 \in 1 .. m + 1 /\ j + 1 \in 1 .. n + 1
        BY <1>1, <2>2
      <3> QED  BY <1>1, <1>3, <1>5, <2>2, <3>1
    <2> QED  BY <1>1, <2>1, <2>2
  <1>7. \A i \in 1 .. m + 1, j \in 1 .. n + 1 : <<i, j>> \in T
    BY <1>1, <1>6, WalkInduction
  <1>8. 1 \in 1 .. m + 1 /\ 1 \in 1 .. n + 1
    BY <1>1
  <1>9. P(1, 1)
    BY <1>3, <1>7, <1>8
  <1>10. g[<<1, 1>>] = Within(1, 1)
    BY <1>9 DEF P
  <1>11. \A x : (CoversFrom(a, 1, x) <=> Covers(a, x)) /\ (CoversFrom(b, 1, x) <=> Covers(b, x))
    BY DEF CoversFrom, Covers
  <1>12. Within(1, 1) <=> \A x \in Nat : Covers(a, x) => Covers(b, x)
    BY <1>11, Zenon
  <1> QED  BY <1>10, <1>12, Zenon DEF g

-----------------------------------------------------------------------------
\* Gaps

\* The bounds of the ranges of a list ascend.
LEMMA ListAscends ==
    ASSUME NEW q, Good(q)
    PROVE  /\ \A i \in 1 .. Len(q) : /\ q[i].first \in Nat /\ q[i].last \in Nat
                                     /\ 1 <= q[i].first /\ q[i].first <= q[i].last
           /\ \A i, j \in 1 .. Len(q) : i < j => q[i].last + 1 < q[j].first
           /\ \A i, j \in 1 .. Len(q) : i <= j => /\ q[i].last <= q[j].last
                                                  /\ q[i].first <= q[j].first
  <1>1. Len(q) \in Nat /\ \A i \in 1 .. Len(q) : q[i] \in Stretch
    BY ListEnds
  <1>2. \A i \in 1 .. Len(q) : /\ q[i].first \in Nat /\ q[i].last \in Nat
                               /\ 1 <= q[i].first /\ q[i].first <= q[i].last
    BY <1>1, StretchTypes
  <1>3. \A i, j \in 1 .. Len(q) : i < j => q[i].last + 1 < q[j].first
    BY DEF Good
  <1>4. ASSUME NEW i \in 1 .. Len(q), NEW j \in 1 .. Len(q), i <= j
        PROVE  q[i].last <= q[j].last /\ q[i].first <= q[j].first
    <2>1. CASE i = j
      BY <1>2, <2>1
    <2>2. CASE i < j
      <3> DEFINE fi == q[i].first
                 li == q[i].last
                 fj == q[j].first
                 lj == q[j].last
      <3>1. fi \in Nat /\ li \in Nat /\ fj \in Nat /\ lj \in Nat /\ fi <= li /\ fj <= lj
            /\ li + 1 < fj
        BY <1>2, <1>3, <2>2
      <3> HIDE DEF fi, li, fj, lj
      <3>2. li <= lj /\ fi <= fj
        BY <3>1
      <3> QED  BY <3>2 DEF fi, li, fj, lj
    <2> QED  BY <1>1, <1>4, <2>1, <2>2
  <1> QED  BY <1>2, <1>3, <1>4

\* x lies between the i-th range of a list and the next.
Between(q, i, x) == q[i].last < x /\ x < q[i + 1].first

\* A monad between two ranges is in no range, and between no other two.
LEMMA BetweenUncovered ==
    ASSUME NEW q, Good(q), NEW i \in 1 .. (Len(q) - 1), NEW x \in Nat, Between(q, i, x)
    PROVE  /\ ~Covers(q, x)
           /\ Covers(q, q[i].last) /\ Covers(q, q[i + 1].first)
           /\ \A j \in 1 .. (Len(q) - 1) : Between(q, j, x) => j = i
  <1> DEFINE n == Len(q)
             F(j) == q[j].first
             L(j) == q[j].last
  <1>1. n \in Nat
    BY ListEnds
  <1>2. /\ \A j \in 1 .. n : F(j) \in Nat /\ L(j) \in Nat /\ F(j) <= L(j)
        /\ \A j, k \in 1 .. n : j <= k => L(j) <= L(k) /\ F(j) <= F(k)
    BY ListAscends
  <1>3. L(i) < x /\ x < F(i + 1)
    BY DEF Between
  <1>4. i \in 1 .. n /\ i + 1 \in 1 .. n
    BY <1>1
  <1>5. Covers(q, q[i].last) /\ Covers(q, q[i + 1].first)
    BY <1>2, <1>4 DEF Covers, In
  <1> HIDE DEF F, L, n
  <1>6. ASSUME NEW j \in 1 .. n PROVE ~(F(j) <= x /\ x <= L(j))
    <2>1. CASE j <= i
      <3>1. L(j) <= L(i) /\ L(j) \in Nat /\ L(i) \in Nat
        BY <1>1, <1>2, <1>4, <2>1
      <3> QED  BY <1>3, <3>1
    <2>2. CASE i + 1 <= j
      <3>1. F(i + 1) <= F(j) /\ F(i + 1) \in Nat /\ F(j) \in Nat
        BY <1>1, <1>2, <1>4, <2>2
      <3> QED  BY <1>3, <3>1
    <2> QED  BY <1>1, <1>4, <2>1, <2>2
  <1>7. ~Covers(q, x)
    BY <1>6 DEF Covers, In, F, L, n
  <1>8. ASSUME NEW j \in 1 .. (n - 1), L(j) < x, x < F(j + 1) PROVE j = i
    <2>1. j \in 1 .. n /\ j + 1 \in 1 .. n
      BY <1>1
    <2>2. F(j + 1) \in Nat /\ F(i + 1) \in Nat /\ L(j) \in Nat /\ L(i) \in Nat
      BY <1>2, <1>4, <2>1
    <2>3. CASE j < i
      <3>1. F(j + 1) <= F(i) /\ F(i) <= L(i) /\ F(i) \in Nat
        BY <1>1, <1>2, <1>4, <2>1, <2>3
      <3> QED  BY <1>3, <1>8, <2>2, <3>1
    <2>4. CASE i < j
      <3>1. F(i + 1) <= F(j) /\ F(j) <= L(j) /\ F(j) \in Nat
        BY <1>1, <1>2, <1>4, <2>1, <2>4
      <3> QED  BY <1>3, <1>8, <2>2, <3>1
    <2> QED  BY <1>1, <1>4, <2>1, <2>3, <2>4
  <1> QED  BY <1>5, <1>7, <1>8 DEF Between, F, L, n

\* A monad that no range contains and that has ranges on both sides lies
\* between two neighbours.
LEMMA GapPosition ==
    ASSUME NEW q, Good(q), NEW x \in Nat, ~Covers(q, x),
           NEW l \in Nat, NEW r \in Nat, Covers(q, l), Covers(q, r), l < x, x < r
    PROVE  \E i \in 1 .. (Len(q) - 1) : Between(q, i, x)
  <1> DEFINE n == Len(q)
             F(j) == q[j].first
             L(j) == q[j].last
             S == {j \in 1 .. n : L(j) < x}
  <1>1. n \in Nat
    BY ListEnds
  <1>2. /\ \A j \in 1 .. n : F(j) \in Nat /\ L(j) \in Nat /\ F(j) <= L(j)
        /\ \A j, k \in 1 .. n : j <= k => L(j) <= L(k) /\ F(j) <= F(k)
    BY ListAscends
  <1>3. \A j \in 1 .. n : ~(F(j) <= x /\ x <= L(j))
    BY DEF Covers, In
  <1>4. PICK jl \in 1 .. n : F(jl) <= l /\ l <= L(jl)
    BY DEF Covers, In
  <1>5. PICK jr \in 1 .. n : F(jr) <= r /\ r <= L(jr)
    BY DEF Covers, In
  <1> HIDE DEF F, L, n
  <1>6. L(jl) < x
    <2>1. F(jl) \in Nat /\ L(jl) \in Nat
      BY <1>2
    <2> QED  BY <1>3, <1>4, <2>1
  <1>7. S \in SUBSET (1 .. n) /\ S # {}
    BY <1>6
  <1>8. PICK i \in S : \A j \in S : j <= i
    BY <1>1, <1>7, GreatestUpTo
  <1>9. i \in 1 .. n /\ L(i) < x
    BY <1>8
  <1>10. i < jr
    <2>1. CASE jr <= i
      <3>1. L(jr) <= L(i) /\ L(jr) \in Nat /\ L(i) \in Nat
        BY <1>1, <1>2, <1>9, <2>1
      <3> QED  BY <1>5, <1>9, <3>1
    <2> QED  BY <1>1, <1>9, <2>1
  <1>11. i \in 1 .. (n - 1) /\ i + 1 \in 1 .. n
    BY <1>1, <1>9, <1>10
  <1>12. i + 1 \notin S
    BY <1>1, <1>8, <1>11
  <1>13. x < F(i + 1)
    <2>1. L(i + 1) \in Nat /\ F(i + 1) \in Nat /\ ~(L(i + 1) < x)
      BY <1>2, <1>11, <1>12
    <2> QED  BY <1>3, <1>11, <2>1
  <1> QED  BY <1>9, <1>11, <1>13 DEF Between, F, L, n

\* What getGaps collects: the gap behind the i-th range, and the first k gaps.
Gap(q, i) == MSE(q[i].last + 1, q[i + 1].first - 1)

GapsTo(q, k) == [i \in 1 .. k |-> Gap(q, i)]

GapsSOM(q, k) == IF k = 0 THEN EmptySOM
                 ELSE SOM(GapsTo(q, k), q[1].last + 1, q[k + 1].first - 1)

\* A gap is a range, of the monads between two neighbours.
LEMMA GapStretch ==
    ASSUME NEW q, Good(q), NEW i \in 1 .. (Len(q) - 1)
    PROVE  /\ Gap(q, i) \in Stretch
           /\ Gap(q, i).first = q[i].last + 1 /\ Gap(q, i).last = q[i + 1].first - 1
           /\ \A x \in Nat : In(Gap(q, i), x) <=> Between(q, i, x)
  <1> DEFINE f == q[i + 1].first
             l == q[i].last
  <1>1. Len(q) \in Nat
    BY ListEnds
  <1>2. i \in 1 .. Len(q) /\ i + 1 \in 1 .. Len(q) /\ i < i + 1
    BY <1>1
  <1>3. f \in Nat /\ l \in Nat /\ l + 1 < f
    BY <1>2, ListAscends
  <1>4. Gap(q, i) = MSE(l + 1, f - 1)
    BY DEF Gap
  <1>5. \A x \in Nat : Between(q, i, x) <=> l < x /\ x < f
    BY DEF Between
  <1> HIDE DEF l, f
  <1>6. l + 1 \in Nat /\ f - 1 \in Nat /\ 1 <= l + 1 /\ l + 1 <= f - 1
    BY <1>3
  <1>7. MSE(l + 1, f - 1) \in Stretch /\ MSE(l + 1, f - 1).first = l + 1
        /\ MSE(l + 1, f - 1).last = f - 1
    BY <1>6, StretchTypes
  <1>8. \A x \in Nat : In(MSE(l + 1, f - 1), x) <=> l < x /\ x < f
    BY <1>3, <1>7 DEF In
  <1> QED  BY <1>4, <1>5, <1>7, <1>8 DEF l, f

\* addMSE with a range that begins well behind the set appends it.
LEMMA AddBehind ==
    ASSUME NEW s, NEW e, isEmpty(s) \/ e.first > s.last + 1
    PROVE  addMSE(s, e) = SOM(Append(s.mses, e), lesser(e.first, s.first), greater(e.last, s.last))
  BY Zenon DEF addMSE

\* The first k gaps are a list of their own, whose bounds are known.
LEMMA GapsToList ==
    ASSUME NEW q, Good(q), NEW k \in 1 .. (Len(q) - 1)
    PROVE  /\ Good(GapsTo(q, k)) /\ Len(GapsTo(q, k)) = k /\ GapsTo(q, k) # << >>
           /\ GapsTo(q, k)[1].first = q[1].last + 1
           /\ GapsTo(q, k)[k].last = q[k + 1].first - 1
           /\ \A x \in Nat : Covers(GapsTo(q, k), x) <=> \E i \in 1 .. k : Between(q, i, x)
  <1> DEFINE g == GapsTo(q, k)
             n == Len(q)
  <1>1. n \in Nat
    BY ListEnds
  <1>2. \A i \in 1 .. k : i \in 1 .. (n - 1) /\ i \in 1 .. n /\ i + 1 \in 1 .. n
    BY <1>1
  <1>3. \A i \in 1 .. k : /\ Gap(q, i) \in Stretch
                          /\ Gap(q, i).first = q[i].last + 1 /\ Gap(q, i).last = q[i + 1].first - 1
                          /\ \A x \in Nat : In(Gap(q, i), x) <=> Between(q, i, x)
    BY <1>2, GapStretch
  <1>4. k \in Nat /\ 1 \in 1 .. k /\ k \in 1 .. k
    BY <1>1
  <1>5. g \in Seq(Stretch) /\ Len(g) = k /\ g # << >>
    BY <1>3, <1>4 DEF GapsTo
  <1>6. \A i \in 1 .. k : g[i] = Gap(q, i)
    BY DEF GapsTo
  <1> HIDE DEF g
  <1>7. ASSUME NEW i \in 1 .. k, NEW j \in 1 .. k, i < j PROVE g[i].last + 1 < g[j].first
    <2> DEFINE a == q[i + 1].first
               b == q[j].first
               c == q[j].last
    <2>1. g[i].last = a - 1 /\ g[j].first = c + 1
      BY <1>3, <1>6
    <2>2. i + 1 <= j /\ i + 1 \in 1 .. n /\ j \in 1 .. n
      BY <1>2, <1>7
    <2>3. a \in Nat /\ b \in Nat /\ c \in Nat /\ a <= b /\ b <= c
      BY <2>2, ListAscends DEF n
    <2> HIDE DEF a, b, c
    <2>4. (a - 1) + 1 < c + 1
      BY <2>3
    <2> QED  BY <2>1, <2>4
  <1>8. Good(g)
    BY <1>5, <1>7 DEF Good
  <1>9. g[1].first = q[1].last + 1 /\ g[k].last = q[k + 1].first - 1
    BY <1>3, <1>4, <1>6
  <1>10. \A x \in Nat : Covers(g, x) <=> \E i \in 1 .. k : Between(q, i, x)
    <2>1. \A x \in Nat : \A i \in 1 .. k : In(g[i], x) <=> Between(q, i, x)
      BY <1>3, <1>6
    <2> QED  BY <1>5, <2>1 DEF Covers
  <1> QED  BY <1>5, <1>8, <1>9, <1>10 DEF g

\* A step of the loop of getGaps adds the next gap.
LEMMA NextGap ==
    ASSUME NEW q, Good(q), NEW k \in 1 .. (Len(q) - 1),
           \A i \in 1 .. Len(q) : q[i].first <= MAX_MONAD
    PROVE  addMSE(GapsSOM(q, k - 1), Gap(q, k)) = GapsSOM(q, k)
  <1> DEFINE e == Gap(q, k)
             n == Len(q)
             f == q[k + 1].first
             l == q[k].last
             l1 == q[1].last
  <1>1. n \in Nat /\ MAX_MONAD \in Nat
    BY ListEnds, MaxMonadAssumption
  <1>2. k \in 1 .. n /\ k + 1 \in 1 .. n /\ 1 \in 1 .. n
    BY <1>1
  <1>3. e \in Stretch /\ e.first = l + 1 /\ e.last = f - 1
    BY GapStretch
  <1>4. f \in Nat /\ l \in Nat /\ l + 1 < f /\ f <= MAX_MONAD /\ l1 \in Nat /\ l1 <= l
    BY <1>2, ListAscends
  <1>5. CASE k = 1
    <2>1. GapsSOM(q, k - 1) = EmptySOM /\ EmptySOM.mses = << >>
          /\ EmptySOM.first = MAX_MONAD /\ EmptySOM.last = 0
      BY <1>5, SOMFields DEF GapsSOM, EmptySOM
    <2>2. addMSE(EmptySOM, e) = SOM(Append(<< >>, e), lesser(l + 1, MAX_MONAD), greater(f - 1, 0))
      BY <1>3, <2>1, AddBehind DEF isEmpty
    <2>3. lesser(l + 1, MAX_MONAD) = l + 1 /\ greater(f - 1, 0) = f - 1
      <3> HIDE DEF l, f
      <3> QED  BY <1>1, <1>4 DEF lesser, greater
    <2>4. GapsTo(q, 1) = <<e>>
      BY <1>5 DEF GapsTo
    <2>5. GapsSOM(q, k) = SOM(<<e>>, l + 1, f - 1)
      BY <1>5, <2>4 DEF GapsSOM
    <2>6. Append(<< >>, e) = <<e>>
      OBVIOUS
    <2> QED  BY <2>1, <2>2, <2>3, <2>5, <2>6
  <1>6. CASE k # 1
    <2> DEFINE p == GapsTo(q, k - 1)
               h == q[k].first
    <2>1. k - 1 \in 1 .. (n - 1) /\ k - 1 # 0 /\ k # 0 /\ (k - 1) + 1 = k
      BY <1>1, <1>6
    <2>2. GapsSOM(q, k - 1) = SOM(p, l1 + 1, h - 1)
      BY <2>1 DEF GapsSOM
    <2>3. Good(p) /\ Len(p) = k - 1
      BY <2>1, GapsToList
    <2>4. h \in Nat /\ h <= l /\ 1 <= h
      BY <1>2, ListAscends
    <2>5. Append(p, e) = GapsTo(q, k)
      <3>1. k - 1 \in Nat /\ k \in Nat
        BY <1>1, <1>2
      <3>2. p = [i \in 1 .. (k - 1) |-> Gap(q, i)]
        BY DEF GapsTo
      <3>3. p \in Seq(Stretch)
        BY <2>3 DEF Good
      <3>4. Append(p, e) = [i \in 1 .. k |-> IF i = k THEN e ELSE p[i]]
        BY <2>1, <2>3, <3>1, <3>3
      <3>5. \A i \in 1 .. k : (IF i = k THEN e ELSE p[i]) = Gap(q, i)
        BY <3>1, <3>2
      <3> QED  BY <3>4, <3>5 DEF GapsTo
    <2> HIDE DEF p
    <2>6. addMSE(SOM(p, l1 + 1, h - 1), e)
            = SOM(Append(p, e), lesser(l + 1, l1 + 1), greater(f - 1, h - 1))
      <3>1. SOM(p, l1 + 1, h - 1).mses = p /\ SOM(p, l1 + 1, h - 1).first = l1 + 1
            /\ SOM(p, l1 + 1, h - 1).last = h - 1
        BY SOMFields
      <3>2. e.first > SOM(p, l1 + 1, h - 1).last + 1
        <4> HIDE DEF h, l, f, e
        <4> QED  BY <1>3, <1>4, <2>4, <3>1
      <3> QED  BY <1>3, <3>1, <3>2, AddBehind
    <2>7. lesser(l + 1, l1 + 1) = l1 + 1 /\ greater(f - 1, h - 1) = f - 1
      <3> HIDE DEF l, f, l1, h
      <3> QED  BY <1>4, <2>4 DEF lesser, greater
    <2>8. GapsSOM(q, k) = SOM(GapsTo(q, k), l1 + 1, f - 1)
      BY <2>1 DEF GapsSOM
    <2> QED  BY <2>2, <2>5, <2>6, <2>7, <2>8
  <1> QED  BY <1>5, <1>6

\* getGaps returns the list of all the gaps.
LEMMA GapsAre ==
    ASSUME NEW s, Used(s), s.mses # << >>
    PROVE  getGaps(s) = GapsSOM(s.mses, Len(s.mses) - 1)
  <1> DEFINE q == s.mses
             n == Len(q)
             t == Tail(q)
             start == [som |-> EmptySOM, prev_last |-> q[1].last]
             it == GapRun(t, start)
             P(st, k) == st = [som |-> GapsSOM(q, k), prev_last |-> q[k + 1].last]
             S == {k \in 0 .. (n - 1) : P(it[1 .. k], k)}
  <1>1. Good(q) /\ q \in Seq(Stretch) /\ n \in Nat \ {0} /\ \A i \in 1 .. n : q[i] \in Stretch
    BY RepParts, ListEnds DEF Used
  <1>2. Len(t) = n - 1 /\ DOMAIN t = 1 .. (n - 1) /\ \A k \in 1 .. (n - 1) : t[k] = q[k + 1]
    BY <1>1
  <1>3. Head(q) = q[1]
    BY <1>1
  <1>4. \A i \in 1 .. n : q[i].first <= MAX_MONAD
    BY UsedFirst
  <1>5. getGaps(s) = it[1 .. (n - 1)].som
    <2>1. FoldLeft(gapVisit, start, t) = it[1 .. Len(t)]
      BY <1>2, LoopsAreFolds, Zenon
    <2>2. getGaps(s) = FoldLeft(gapVisit, start, t).som
      BY <1>3, Zenon DEF getGaps, isEmpty
    <2> QED  BY <1>2, <2>1, <2>2, Zenon
  <1>6. /\ it[1 .. 0] = start
        /\ \A k \in 1 .. (n - 1) : it[1 .. k] = gapVisit(it[1 .. (k - 1)], t[k])
    <2>1. Len(t) \in Nat
      BY <1>1, <1>2
    <2>2. /\ it[1 .. 0] = start
          /\ \A k \in 1 .. Len(t) : it[1 .. k] = gapVisit(it[1 .. (k - 1)], t[k])
      BY <2>1, GapChain
    <2> QED  BY <1>2, <2>2
  <1>7. start = [som |-> EmptySOM, prev_last |-> q[1].last]
    OBVIOUS
  <1> HIDE DEF it, t, n, start, q
  <1>8. 0 \in S
    <2>1. GapsSOM(q, 0) = EmptySOM
      BY DEF GapsSOM
    <2> QED  BY <1>1, <1>6, <1>7, <2>1
  <1>9. ASSUME NEW k \in 1 .. (n - 1), k - 1 \in S PROVE k \in S
    <2>1. it[1 .. (k - 1)] = [som |-> GapsSOM(q, k - 1), prev_last |-> q[k].last]
      BY <1>1, <1>9
    <2>2. it[1 .. k] = gapVisit(it[1 .. (k - 1)], q[k + 1])
      BY <1>2, <1>6
    <2>3. it[1 .. k] = [som |-> addMSE(GapsSOM(q, k - 1), Gap(q, k)), prev_last |-> q[k + 1].last]
      BY <2>1, <2>2 DEF gapVisit, addRange, Gap
    <2>4. addMSE(GapsSOM(q, k - 1), Gap(q, k)) = GapsSOM(q, k)
      BY <1>1, <1>4, NextGap DEF n
    <2> QED  BY <1>1, <2>3, <2>4
  <1> HIDE DEF S
  <1>10. \A k \in 0 .. (n - 1) : k \in S
    <2>1. n - 1 \in Nat
      BY <1>1
    <2> QED  BY <1>8, <1>9, <2>1, UpTo
  <1>11. it[1 .. (n - 1)].som = GapsSOM(q, n - 1)
    <2>1. n - 1 \in 0 .. (n - 1)
      BY <1>1
    <2>2. P(it[1 .. (n - 1)], n - 1)
      BY <1>10, <2>1 DEF S
    <2> QED  BY <2>2
  <1> QED  BY <1>5, <1>11 DEF q, n

\* getGaps keeps the class invariant and returns the monads between ranges.
LEMMA GapsRep ==
    ASSUME NEW s, Used(s)
    PROVE  /\ getGaps(s) \in Rep
           /\ \A x \in Nat : Covers(getGaps(s).mses, x)
                                <=> \E i \in 1 .. (Len(s.mses) - 1) : Between(s.mses, i, x)
  <1> DEFINE q == s.mses
             n == Len(q)
             g == GapsTo(q, n - 1)
  <1>1. Good(q) /\ n \in Nat /\ (q = << >> <=> n = 0)
    BY RepParts, ListEnds DEF Used
  <1> HIDE DEF n
  <1>2. CASE n = 0
    <2>1. getGaps(s) = EmptySOM
      BY <1>1, <1>2 DEF getGaps, isEmpty
    <2>2. 1 .. (n - 1) = {}
      BY <1>2
    <2> QED  BY <2>1, <2>2, EmptyRep, EmptyList DEF n
  <1>3. CASE n = 1
    <2>1. getGaps(s) = EmptySOM
      BY <1>1, <1>3, GapsAre DEF GapsSOM, n
    <2>2. 1 .. (n - 1) = {}
      BY <1>3
    <2> QED  BY <2>1, <2>2, EmptyRep, EmptyList DEF n
  <1>4. CASE n > 1
    <2>1. n - 1 \in 1 .. (n - 1) /\ n - 1 # 0 /\ n # 0 /\ (n - 1) + 1 = n
      BY <1>1, <1>4
    <2>2. getGaps(s) = SOM(g, q[1].last + 1, q[n].first - 1)
      BY <1>1, <2>1, GapsAre DEF GapsSOM, n
    <2>3. /\ Good(g) /\ Len(g) = n - 1 /\ g # << >>
          /\ g[1].first = q[1].last + 1 /\ g[n - 1].last = q[n].first - 1
          /\ \A x \in Nat : Covers(g, x) <=> \E i \in 1 .. (n - 1) : Between(q, i, x)
      BY <1>1, <2>1, GapsToList DEF n
    <2> HIDE DEF g
    <2>4. /\ Covers(g, g[1].first) /\ Covers(g, g[n - 1].last)
          /\ \A x \in Nat : Covers(g, x) => g[1].first <= x /\ x <= g[n - 1].last
          /\ g[1].first \in Nat /\ g[n - 1].last \in Nat
      <3>1. g[1] \in Stretch /\ g[n - 1] \in Stretch
        BY <2>3, ListEnds
      <3> QED  BY <2>3, <3>1, ListEnds, StretchTypes
    <2>5. SOM(g, g[1].first, g[n - 1].last) \in Rep
      BY <2>3, <2>4, MakeRep
    <2>6. getGaps(s) \in Rep /\ getGaps(s).mses = g
      BY <2>2, <2>3, <2>5, SOMFields
    <2> QED  BY <2>3, <2>6 DEF n
  <1> QED  BY <1>1, <1>2, <1>3, <1>4

-----------------------------------------------------------------------------
\* fillGaps

\* The gap behind the i-th range has fewer than min_gap monads.
Narrow(q, i, min_gap) == q[i + 1].first - q[i].last - 1 < min_gap

\* The monads of the first k gaps that fillGaps adds.
FilledTo(q, k, min_gap, x) == \E i \in 1 .. k : Between(q, i, x) /\ Narrow(q, i, min_gap)

\* What fillGaps has built once it has passed k gaps.
FillInv(st, q, min_gap, k) ==
    /\ st.som \in Rep
    /\ st.prev_last = q[k + 1].last
    /\ \A x \in Nat : Covers(st.som.mses, x)
                         <=> CoversTo(q, k + 1, x) \/ FilledTo(q, k, min_gap, x)

\* What one more gap adds to the filled set.
LEMMA FilledMore ==
    ASSUME NEW q, NEW min_gap, NEW k \in Nat \ {0}
    PROVE  \A x : FilledTo(q, k, min_gap, x)
                     <=> \/ FilledTo(q, k - 1, min_gap, x)
                         \/ Between(q, k, x) /\ Narrow(q, k, min_gap)
  <1>1. \A i : i \in 1 .. k <=> i \in 1 .. (k - 1) \/ i = k
    OBVIOUS
  <1> QED  BY <1>1, Zenon DEF FilledTo

\* A step of the loop of fillGaps keeps the loop invariant.
LEMMA FillStep ==
    ASSUME NEW q, Good(q), NEW min_gap \in Nat, NEW k \in 1 .. (Len(q) - 1), NEW st,
           \A i \in 1 .. Len(q) : q[i].first <= MAX_MONAD /\ q[i].last <= MAX_MONAD,
           FillInv(st, q, min_gap, k - 1)
    PROVE  FillInv(fillVisit(st, q[k + 1], min_gap), q, min_gap, k)
  <1> DEFINE n == Len(q)
             som == st.som
             l == q[k].last
             cur == q[k + 1]
             f == cur.first
             cl == cur.last
             e == IF Narrow(q, k, min_gap) THEN MSE(l, cl) ELSE cur
  <1>1. n \in Nat /\ k \in Nat /\ k \in Nat \ {0}
    BY ListEnds
  <1>2. k \in 1 .. n /\ k + 1 \in 1 .. n /\ (k - 1) + 1 = k /\ (k + 1) - 1 = k /\ k + 1 \in Nat
    BY <1>1
  <1>3. cur \in Stretch /\ q[k] \in Stretch
    BY <1>2, ListEnds
  <1>4. l \in Nat /\ f \in Nat /\ cl \in Nat /\ 1 <= l /\ l + 1 < f /\ f <= cl
        /\ f <= MAX_MONAD /\ l <= MAX_MONAD
    <2>1. 1 <= q[k].first /\ q[k].first <= l /\ q[k].first \in Nat /\ l \in Nat
      BY <1>2, ListAscends
    <2>2. f \in Nat /\ cl \in Nat /\ l + 1 < f /\ f <= cl /\ f <= MAX_MONAD /\ l <= MAX_MONAD
      BY <1>1, <1>2, ListAscends
    <2>3. 1 <= l
      BY <2>1
    <2> QED  BY <2>1, <2>2, <2>3
  <1>5. /\ som \in Rep /\ st.prev_last = l
        /\ \A x \in Nat : Covers(som.mses, x)
                             <=> CoversTo(q, k, x) \/ FilledTo(q, k - 1, min_gap, x)
    BY <1>2 DEF FillInv
  <1>6. fillVisit(st, cur, min_gap) = [som |-> addMSE(som, e), prev_last |-> cl]
    <2>1. st.prev_last = l /\ (isWideGap(l, cur, min_gap) <=> ~Narrow(q, k, min_gap))
      <3>1. isWideGap(l, cur, min_gap) <=> f - l - 1 >= min_gap
        BY DEF isWideGap
      <3>2. Narrow(q, k, min_gap) <=> f - l - 1 < min_gap
        BY DEF Narrow
      <3> HIDE DEF l, f
      <3> QED  BY <1>4, <1>5, <3>1, <3>2
    <2> QED  BY <2>1 DEF fillVisit, addRange
  <1>7. Between(q, k, l) <=> FALSE
    BY <1>4 DEF Between
  <1>8. e \in Stretch /\ e.first <= MAX_MONAD
        /\ \A x \in Nat : In(e, x) <=> \/ In(cur, x)
                                       \/ Narrow(q, k, min_gap) /\ (Between(q, k, x) \/ x = l)
    <2>1. MSE(l, cl) \in Stretch /\ MSE(l, cl).first = l /\ MSE(l, cl).last = cl
      <3> HIDE DEF l, cl, f
      <3>1. 1 <= l /\ l <= cl
        BY <1>4
      <3> QED  BY <1>4, <3>1, StretchTypes
    <2>2. \A x \in Nat : In(MSE(l, cl), x) <=> In(cur, x) \/ Between(q, k, x) \/ x = l
      <3>1. \A x : Between(q, k, x) <=> l < x /\ x < f
        BY DEF Between
      <3>2. \A x : In(cur, x) <=> f <= x /\ x <= cl
        BY DEF In
      <3>3. \A x : In(MSE(l, cl), x) <=> l <= x /\ x <= cl
        BY <2>1 DEF In
      <3> HIDE DEF l, cl, f
      <3> QED  BY <1>4, <3>1, <3>2, <3>3
    <2>3. CASE Narrow(q, k, min_gap)
      BY <1>4, <2>1, <2>2, <2>3
    <2>4. CASE ~Narrow(q, k, min_gap)
      BY <1>3, <1>4, <2>4
    <2> QED  BY <2>3, <2>4
  <1> HIDE DEF e, som
  <1>9. /\ addMSE(som, e) \in Rep
        /\ \A x \in Nat : Covers(addMSE(som, e).mses, x) <=> Covers(som.mses, x) \/ In(e, x)
    BY <1>5, <1>8, AddRep
  <1>10. CoversTo(q, k, l)
    BY <1>1, <1>2, <1>3, StretchTypes DEF CoversTo, In
  <1>11. \A x : CoversTo(q, k + 1, x) <=> CoversTo(q, k, x) \/ In(cur, x)
    BY <1>1, <1>2, CoversMore
  <1>12. \A x : FilledTo(q, k, min_gap, x)
                   <=> \/ FilledTo(q, k - 1, min_gap, x)
                       \/ Between(q, k, x) /\ Narrow(q, k, min_gap)
    BY <1>1, FilledMore
  <1> HIDE DEF l
  <1>13. \A x \in Nat : Covers(addMSE(som, e).mses, x)
                          <=> CoversTo(q, k + 1, x) \/ FilledTo(q, k, min_gap, x)
    BY <1>5, <1>8, <1>9, <1>10, <1>11, <1>12, Zenon
  <1> QED  BY <1>6, <1>9, <1>13 DEF FillInv

\* fillGaps keeps the class invariant and adds the monads of the narrow gaps.
LEMMA FillRep ==
    ASSUME NEW s, Used(s), NEW min_gap \in Nat
    PROVE  /\ fillGaps(s, min_gap) \in Rep
           /\ \A x \in Nat : Covers(fillGaps(s, min_gap).mses, x)
                                <=> \/ Covers(s.mses, x)
                                    \/ FilledTo(s.mses, Len(s.mses) - 1, min_gap, x)
  <1> DEFINE q == s.mses
             n == Len(q)
             t == Tail(q)
             start == [som |-> addMSE(EmptySOM, q[1]), prev_last |-> q[1].last]
             it == FillRun(t, start, min_gap)
             S == {k \in 0 .. (n - 1) : FillInv(it[1 .. k], q, min_gap, k)}
  <1>1. Good(q) /\ q \in Seq(Stretch) /\ n \in Nat /\ (q = << >> <=> n = 0)
        /\ \A i \in 1 .. n : q[i] \in Stretch
    BY RepParts, ListEnds DEF Used
  <1>2. CASE q = << >>
    <2>1. fillGaps(s, min_gap) = EmptySOM
      BY <1>2 DEF fillGaps, isEmpty
    <2>2. n = 0
      BY <1>1, <1>2
    <2>3. \A x : ~FilledTo(q, n - 1, min_gap, x)
      <3> HIDE DEF n
      <3> QED  BY <2>2 DEF FilledTo
    <2> QED  BY <1>2, <2>1, <2>3, EmptyRep, EmptyList
  <1>3. CASE q # << >>
    <2>1. Len(t) = n - 1 /\ DOMAIN t = 1 .. (n - 1) /\ \A k \in 1 .. (n - 1) : t[k] = q[k + 1]
      BY <1>1, <1>3
    <2>2. Head(q) = q[1] /\ n \in Nat \ {0} /\ 1 \in 1 .. n
      BY <1>1, <1>3
    <2>3. \A i \in 1 .. n : q[i].first <= MAX_MONAD /\ q[i].last <= MAX_MONAD
      <3> SUFFICES ASSUME NEW i \in 1 .. n PROVE q[i].first <= MAX_MONAD /\ q[i].last <= MAX_MONAD
        OBVIOUS
      <3>1. q[i].last \in Nat /\ Covers(q, q[i].last)
        BY <1>1, StretchTypes, SMTT(30) DEF Covers, In
      <3> QED  BY <3>1, UsedFirst DEF Used
    <2>4. fillGaps(s, min_gap) = it[1 .. (n - 1)].som
      <3>1. FoldLeft(LAMBDA st, cur : fillVisit(st, cur, min_gap), start, t) = it[1 .. Len(t)]
        BY <2>1, LoopsWithArguments, Zenon
      <3>2. fillGaps(s, min_gap)
              = FoldLeft(LAMBDA st, cur : fillVisit(st, cur, min_gap), start, t).som
        BY <1>3, <2>2, Zenon DEF fillGaps, isEmpty
      <3> QED  BY <2>1, <3>1, <3>2, Zenon
    <2>5. /\ it[1 .. 0] = start
          /\ \A k \in 1 .. (n - 1) : it[1 .. k] = fillVisit(it[1 .. (k - 1)], t[k], min_gap)
      <3>1. Len(t) \in Nat
        BY <2>1, <2>2
      <3> HIDE DEF t, start
      <3>2. /\ it[1 .. 0] = start
            /\ \A k \in 1 .. Len(t) : it[1 .. k] = fillVisit(it[1 .. (k - 1)], t[k], min_gap)
        BY <3>1, FillChain
      <3> QED  BY <2>1, <3>2
    <2>6. start.som = addMSE(EmptySOM, q[1]) /\ start.prev_last = q[1].last
      OBVIOUS
    <2> HIDE DEF it, t, n, start, q
    <2>7. 0 \in S
      <3>1. EmptySOM \in Rep /\ EmptySOM.mses = << >> /\ \A x : ~Covers(<< >>, x)
        BY EmptyRep, EmptyList
      <3>2. /\ addMSE(EmptySOM, q[1]) \in Rep
            /\ \A x \in Nat : Covers(addMSE(EmptySOM, q[1]).mses, x) <=> In(q[1], x)
        BY <1>1, <2>2, <2>3, <3>1, AddRep
      <3>3. \A x : (CoversTo(q, 1, x) <=> In(q[1], x)) /\ ~FilledTo(q, 0, min_gap, x)
        BY DEF CoversTo, FilledTo
      <3>4. FillInv(start, q, min_gap, 0)
        BY <2>6, <3>2, <3>3 DEF FillInv
      <3> QED  BY <2>2, <2>5, <3>4
    <2>8. ASSUME NEW k \in 1 .. (n - 1), k - 1 \in S PROVE k \in S
      <3>1. FillInv(it[1 .. (k - 1)], q, min_gap, k - 1)
        BY <2>8
      <3>2. it[1 .. k] = fillVisit(it[1 .. (k - 1)], q[k + 1], min_gap)
        BY <2>1, <2>5
      <3>3. FillInv(it[1 .. k], q, min_gap, k)
        BY <1>1, <2>3, <3>1, <3>2, FillStep DEF n
      <3> QED  BY <2>2, <3>3
    <2> HIDE DEF S
    <2>9. \A k \in 0 .. (n - 1) : k \in S
      <3>1. n - 1 \in Nat
        BY <2>2
      <3> QED  BY <2>7, <2>8, <3>1, UpTo
    <2>10. FillInv(it[1 .. (n - 1)], q, min_gap, n - 1) /\ (n - 1) + 1 = n
      <3>1. n - 1 \in 0 .. (n - 1) /\ (n - 1) + 1 = n
        BY <2>2
      <3> QED  BY <2>9, <3>1 DEF S
    <2>11. \A x : CoversTo(q, n, x) <=> Covers(q, x)
      BY DEF CoversTo, Covers, n
    <2> QED  BY <2>4, <2>10, <2>11 DEF FillInv, q, n
  <1> QED  BY <1>2, <1>3

-----------------------------------------------------------------------------
\* offset and fillInsertRange

\* A range that is moved up is a range.
LEMMA OffsetStretch ==
    ASSUME NEW e \in Stretch, NEW n \in Nat
    PROVE  /\ offsetMSE(e, n) \in Stretch
           /\ offsetMSE(e, n).first = e.first + n /\ offsetMSE(e, n).last = e.last + n
           /\ \A x \in Nat : In(offsetMSE(e, n), x + n) <=> In(e, x)
           /\ \A y \in Nat : In(offsetMSE(e, n), y) => \E x \in Nat : y = x + n /\ In(e, x)
  <1> DEFINE f == e.first
             l == e.last
  <1>1. f \in Nat /\ l \in Nat /\ 1 <= f /\ f <= l
    BY StretchTypes
  <1>2. offsetMSE(e, n) = MSE(f + n, l + n)
    BY DEF offsetMSE
  <1>3. \A x : In(e, x) <=> f <= x /\ x <= l
    BY DEF In
  <1> HIDE DEF f, l
  <1>4. MSE(f + n, l + n) \in Stretch /\ MSE(f + n, l + n).first = f + n
        /\ MSE(f + n, l + n).last = l + n
    <2>1. f + n \in Nat /\ l + n \in Nat /\ 1 <= f + n /\ f + n <= l + n
      BY <1>1
    <2> QED  BY <2>1, StretchTypes
  <1>5. \A y : In(MSE(f + n, l + n), y) <=> f + n <= y /\ y <= l + n
    BY <1>4 DEF In
  <1>6. \A x \in Nat : In(MSE(f + n, l + n), x + n) <=> In(e, x)
    BY <1>1, <1>3, <1>5
  <1>7. ASSUME NEW y \in Nat, In(MSE(f + n, l + n), y)
        PROVE  \E x \in Nat : y = x + n /\ In(e, x)
    <2>1. y - n \in Nat /\ y = (y - n) + n /\ f <= y - n /\ y - n <= l
      BY <1>1, <1>5, <1>7
    <2> QED  BY <1>3, <2>1
  <1> QED  BY <1>2, <1>4, <1>6, <1>7 DEF f, l

\* offset keeps the class invariant of a set that is not empty, and moves
\* every monad.
LEMMA OffsetRep ==
    ASSUME NEW s \in Rep, s.mses # << >>, NEW n \in Nat
    PROVE  /\ offset(s, n) \in Rep
           /\ offset(s, n).first = s.first + n /\ offset(s, n).last = s.last + n
           /\ \A y \in Nat : Covers(offset(s, n).mses, y)
                                <=> \E x \in Nat : y = x + n /\ Covers(s.mses, x)
  <1> DEFINE q == s.mses
             k == Len(q)
             p == [i \in 1 .. k |-> offsetMSE(q[i], n)]
  <1>1. Good(q) /\ q \in Seq(Stretch) /\ k \in Nat \ {0} /\ \A i \in 1 .. k : q[i] \in Stretch
    BY RepParts, ListEnds
  <1>2. offset(s, n) = SOM(p, s.first + n, s.last + n)
    <2>1. DOMAIN q = 1 .. k
      BY <1>1
    <2> QED  BY <2>1 DEF offset
  <1>3. s.first = q[1].first /\ s.last = q[k].last /\ s.first \in Nat /\ s.last \in Nat
    BY RepParts, RepEnds
  <1>4. \A i \in 1 .. k :
           /\ offsetMSE(q[i], n) \in Stretch
           /\ offsetMSE(q[i], n).first = q[i].first + n /\ offsetMSE(q[i], n).last = q[i].last + n
           /\ \A x \in Nat : In(offsetMSE(q[i], n), x + n) <=> In(q[i], x)
           /\ \A y \in Nat : In(offsetMSE(q[i], n), y) => \E x \in Nat : y = x + n /\ In(q[i], x)
    BY <1>1, OffsetStretch
  <1> HIDE DEF k
  <1>5. p \in Seq(Stretch) /\ Len(p) = k /\ \A i \in 1 .. k : p[i] = offsetMSE(q[i], n)
    BY <1>1, <1>4
  <1> HIDE DEF p
  <1>6. ASSUME NEW i \in 1 .. k, NEW j \in 1 .. k, i < j PROVE p[i].last + 1 < p[j].first
    <2> DEFINE l == q[i].last
               f == q[j].first
    <2>1. l \in Nat /\ f \in Nat /\ l + 1 < f
      BY <1>1, <1>6, ListAscends DEF k
    <2>2. p[i].last = l + n /\ p[j].first = f + n
      BY <1>4, <1>5
    <2> HIDE DEF l, f
    <2>3. (l + n) + 1 < f + n
      BY <2>1
    <2> QED  BY <2>2, <2>3
  <1>7. Good(p)
    BY <1>5, <1>6 DEF Good
  <1>8. p # << >> /\ p[1].first = s.first + n /\ p[k].last = s.last + n
    <2>1. 1 \in 1 .. k /\ k \in 1 .. k
      BY <1>1
    <2> QED  BY <1>1, <1>3, <1>4, <1>5, <2>1
  <1>9. offset(s, n) \in Rep
    <2> DEFINE f == s.first + n
               l == s.last + n
    <2>1. f \in Nat /\ l \in Nat /\ p[1].first = f /\ p[Len(p)].last = l
      <3>1. f \in Nat /\ l \in Nat
        BY <1>3
      <3> QED  BY <1>5, <1>8, <3>1, Zenon
    <2> HIDE DEF f, l
    <2>2. /\ Covers(p, f) /\ Covers(p, l)
          /\ \A x \in Nat : Covers(p, x) => f <= x /\ x <= l
      BY <1>7, <1>8, <2>1, ListEnds
    <2>3. SOM(p, f, l) \in Rep
      BY <1>7, <2>1, <2>2, MakeRep
    <2> QED  BY <1>2, <2>3 DEF f, l
  <1>10. \A y \in Nat : Covers(p, y) <=> \E x \in Nat : y = x + n /\ Covers(q, x)
    <2>1. ASSUME NEW y \in Nat, Covers(p, y) PROVE \E x \in Nat : y = x + n /\ Covers(q, x)
      <3>1. PICK i \in 1 .. k : In(p[i], y)
        BY <1>5, <2>1 DEF Covers
      <3>2. PICK x \in Nat : y = x + n /\ In(q[i], x)
        <4>1. In(offsetMSE(q[i], n), y)
          BY <1>5, <3>1
        <4> QED  BY <1>4, <4>1, Zenon
      <3> QED  BY <3>2 DEF Covers, k
    <2>2. ASSUME NEW x \in Nat, Covers(q, x) PROVE Covers(p, x + n)
      <3>1. PICK i \in 1 .. k : In(q[i], x)
        BY <2>2 DEF Covers, k
      <3>2. In(p[i], x + n)
        BY <1>4, <1>5, <3>1
      <3> QED  BY <1>5, <3>2 DEF Covers
    <2> QED  BY <2>1, <2>2
  <1> QED  BY <1>2, <1>9, <1>10, SOMFields

\* Where fillInsertRange takes the monads of one range: those before the
\* insertion point stay, the others move up by the length of what is inserted.
LEMMA MovedStretch ==
    ASSUME NEW A \in Stretch, NEW first \in Nat, NEW last \in Nat, 1 <= first, first <= last
    PROVE  /\ moved(A, first, last) \in Stretch
           /\ A.first < last => moved(A, first, last).first <= A.first
           /\ \A x \in Nat : In(A, x) /\ x < first => In(moved(A, first, last), x)
           /\ \A x \in Nat : In(A, x) /\ x >= first
                                => In(moved(A, first, last), x + (last - first + 1))
  <1> DEFINE d == last - first + 1
             f == A.first
             l == A.last
             m == moved(A, first, last)
  <1>1. f \in Nat /\ l \in Nat /\ 1 <= f /\ f <= l
    BY StretchTypes
  <1>2. d \in Nat /\ d = last - first + 1
    OBVIOUS
  <1>3. m = IF l < first THEN A ELSE IF f > last THEN offsetMSE(A, d)
            ELSE MSE(lesser(f, first), l + d)
    BY DEF moved
  <1>4. \A x : In(A, x) <=> f <= x /\ x <= l
    BY DEF In
  <1>5. /\ offsetMSE(A, d) \in Stretch
        /\ \A x \in Nat : In(offsetMSE(A, d), x + d) <=> In(A, x)
    BY <1>2, OffsetStretch
  <1> HIDE DEF f, l, d
  <1>6. CASE l < first
    <2>1. m = A
      BY <1>3, <1>6
    <2>2. A.first <= A.first
      BY <1>1 DEF f
    <2>3. \A x \in Nat : In(A, x) => ~(x >= first)
      BY <1>1, <1>4, <1>6
    <2> QED  BY <2>1, <2>2, <2>3
  <1>7. CASE ~(l < first) /\ f > last
    <2>1. m = offsetMSE(A, d)
      BY <1>3, <1>7
    <2>2. \A x \in Nat : In(A, x) => ~(x < first)
      BY <1>1, <1>4, <1>7
    <2>3. ~(f < last)
      BY <1>1, <1>7
    <2> HIDE DEF m
    <2>4. \A x \in Nat : In(A, x) /\ x >= first => In(m, x + d)
      BY <1>5, <2>1
    <2> QED  BY <1>5, <2>1, <2>2, <2>3, <2>4 DEF f, d, m
  <1>8. CASE ~(l < first) /\ ~(f > last)
    <2> DEFINE g == lesser(f, first)
    <2>1. m = MSE(g, l + d)
      BY <1>3, <1>8
    <2>2. g \in Nat /\ 1 <= g /\ g <= f /\ g <= first
      BY <1>1 DEF lesser
    <2> HIDE DEF g, m
    <2>3. g <= l + d /\ l + d \in Nat
      BY <1>1, <1>2, <2>2
    <2>4. m \in Stretch /\ m.first = g /\ m.last = l + d
      BY <2>1, <2>2, <2>3, StretchTypes
    <2>5. \A x : In(m, x) <=> g <= x /\ x <= l + d
      BY <2>4 DEF In
    <2>6. \A x \in Nat : In(A, x) => In(m, x) /\ In(m, x + d)
      BY <1>1, <1>2, <1>4, <2>2, <2>5
    <2> QED  BY <2>2, <2>4, <2>6 DEF f, d, m
  <1> QED  BY <1>6, <1>7, <1>8

\* fillInsertRange keeps the class invariant, the monads before the insertion
\* point and, moved up, the others.
LEMMA FillInsertRep ==
    ASSUME NEW s, Used(s), s.mses # << >>,
           NEW first \in Nat, NEW last \in Nat, 1 <= first, first <= last
    PROVE  LET r == fillInsertRange(s, first, last)
           IN  /\ r \in Rep
               /\ \A x \in Nat : Covers(s.mses, x) /\ x < first => Covers(r.mses, x)
               /\ \A x \in Nat : Covers(s.mses, x) /\ x >= first
                                    => Covers(r.mses, x + (last - first + 1))
  <1> DEFINE q == s.mses
             n == Len(q)
             d == last - first + 1
             r == fillInsertRange(s, first, last)
             it == MovedRun(q, EmptySOM, first, last)
             e(k) == moved(q[k], first, last)
             P(t, k) == /\ t \in Rep
                        /\ \A x \in Nat : Covers(t.mses, x) <=> \E i \in 1 .. k : In(e(i), x)
             S == {k \in 0 .. n : P(it[1 .. k], k)}
  <1>1. s \in Rep /\ Good(q) /\ q \in Seq(Stretch) /\ n \in Nat \ {0}
        /\ \A i \in 1 .. n : q[i] \in Stretch
    BY RepParts, ListEnds DEF Used
  <1>2. /\ s.first \in Nat /\ s.last \in Nat /\ s.first = q[1].first
        /\ \A x \in Nat : Covers(q, x) => s.first <= x /\ x <= s.last
    BY <1>1, RepParts, RepEnds
  <1>3. d \in Nat /\ d = last - first + 1
    OBVIOUS
  <1>4. CASE s.last < first
    <2>1. r = s
      BY <1>4 DEF fillInsertRange
    <2>2. \A x \in Nat : Covers(q, x) => ~(x >= first)
      BY <1>2, <1>4
    <2> QED  BY <1>1, <2>1, <2>2
  <1>5. CASE ~(s.last < first) /\ s.first >= last
    <2>1. r = offset(s, d)
      BY <1>5 DEF fillInsertRange
    <2>2. \A x \in Nat : Covers(q, x) => ~(x < first)
      BY <1>2, <1>5
    <2> HIDE DEF d
    <2>3. /\ offset(s, d) \in Rep
          /\ \A y \in Nat : Covers(offset(s, d).mses, y)
                               <=> \E x \in Nat : y = x + d /\ Covers(q, x)
      BY <1>1, <1>3, OffsetRep
    <2>4. \A x \in Nat : x + d \in Nat
      BY <1>3
    <2>5. \A x \in Nat : Covers(q, x) => Covers(offset(s, d).mses, x + d)
      BY <2>3, <2>4
    <2> HIDE DEF q, r
    <2> QED  BY <2>1, <2>2, <2>3, <2>5 DEF d, q, r
  <1>6. CASE ~(s.last < first) /\ ~(s.first >= last)
    <2>1. r = addMSE(it[1 .. n], MSE(first, last))
      <3>1. DOMAIN q = 1 .. n
        BY <1>1
      <3>2. FoldLeft(LAMBDA t, A : addMSE(t, moved(A, first, last)), EmptySOM, q) = it[1 .. n]
        BY <3>1, LoopsWithArguments, Zenon
      <3>3. r = addRange(FoldLeft(LAMBDA t, A : addMSE(t, moved(A, first, last)), EmptySOM, q),
                         first, last)
        BY <1>6, Zenon DEF fillInsertRange
      <3> QED  BY <3>2, <3>3, Zenon DEF addRange
    <2>2. /\ it[1 .. 0] = EmptySOM
          /\ \A k \in 1 .. n : it[1 .. k] = addMSE(it[1 .. (k - 1)], e(k))
      <3>1. Len(q) \in Nat
        BY <1>1
      <3> HIDE DEF q
      <3> QED  BY <3>1, MovedChain
    <2>3. \A k \in 1 .. n :
             /\ e(k) \in Stretch
             /\ \A x \in Nat : In(q[k], x) /\ x < first => In(e(k), x)
             /\ \A x \in Nat : In(q[k], x) /\ x >= first => In(e(k), x + d)
      BY <1>1, MovedStretch
    <2>4. e(1).first <= MAX_MONAD
      <3>1. 1 \in 1 .. n /\ q[1].first < last
        BY <1>1, <1>2, <1>6
      <3>2. e(1).first <= q[1].first
        BY <1>1, <3>1, MovedStretch
      <3>3. q[1].first <= MAX_MONAD
        BY <3>1, UsedFirst
      <3>4. e(1) \in Stretch /\ q[1] \in Stretch /\ MAX_MONAD \in Nat
        BY <1>1, <2>3, <3>1, MaxMonadAssumption
      <3> DEFINE u == e(1).first
                 v == q[1].first
      <3>5. u \in Nat /\ v \in Nat /\ u <= v /\ v <= MAX_MONAD
        BY <3>2, <3>3, <3>4, StretchTypes
      <3> HIDE DEF u, v
      <3>6. u <= MAX_MONAD
        BY <3>4, <3>5
      <3> QED  BY <3>6 DEF u
    <2> HIDE DEF it, e, d
    <2>5. 0 \in S
      <3>1. P(EmptySOM, 0)
        BY EmptyRep, EmptyList
      <3> QED  BY <1>1, <2>2, <3>1
    <2>6. ASSUME NEW k \in 1 .. n, k - 1 \in S PROVE k \in S
      <3> DEFINE t == it[1 .. (k - 1)]
      <3>1. P(t, k - 1)
        BY <2>6
      <3>2. it[1 .. k] = addMSE(t, e(k))
        BY <2>2
      <3> HIDE DEF t
      <3>3. t.mses = << >> => e(k).first <= MAX_MONAD
        <4>1. CASE k = 1
          BY <2>4, <4>1
        <4>2. CASE k # 1
          <5>1. 1 \in 1 .. (k - 1) /\ 1 \in 1 .. n
            BY <1>1, <4>2
          <5>2. In(e(1), e(1).first) /\ e(1).first \in Nat
            BY <2>3, <5>1, StretchEnds
          <5>3. Covers(t.mses, e(1).first)
            BY <3>1, <5>1, <5>2
          <5> QED  BY <5>3, EmptyList
        <4> QED  BY <4>1, <4>2
      <3>4. /\ addMSE(t, e(k)) \in Rep
            /\ \A x \in Nat : Covers(addMSE(t, e(k)).mses, x) <=> Covers(t.mses, x) \/ In(e(k), x)
        BY <2>3, <3>1, <3>3, AddRep
      <3>5. \A i : i \in 1 .. k <=> i \in 1 .. (k - 1) \/ i = k
        BY <1>1
      <3>6. \A x \in Nat : Covers(addMSE(t, e(k)).mses, x) <=> \E i \in 1 .. k : In(e(i), x)
        BY <3>1, <3>4, <3>5, Zenon
      <3>7. P(it[1 .. k], k)
        BY <3>2, <3>4, <3>6
      <3> QED  BY <1>1, <3>7
    <2> HIDE DEF S
    <2>7. \A k \in 0 .. n : k \in S
      BY <1>1, <2>5, <2>6, UpTo
    <2> DEFINE w == it[1 .. n]
    <2>8. P(w, n)
      <3>1. n \in 0 .. n
        BY <1>1
      <3> QED  BY <2>7, <3>1 DEF S
    <2> HIDE DEF w
    <2>9. MSE(first, last) \in Stretch
      BY StretchTypes
    <2>10. w.mses = << >> => MSE(first, last).first <= MAX_MONAD
      <3>1. 1 \in 1 .. n
        BY <1>1
      <3>2. In(e(1), e(1).first) /\ e(1).first \in Nat
        BY <2>3, <3>1, StretchEnds
      <3>3. Covers(w.mses, e(1).first)
        BY <2>8, <3>1, <3>2
      <3> QED  BY <3>3, EmptyList
    <2>11. /\ r \in Rep
           /\ \A x \in Nat : Covers(r.mses, x) <=> Covers(w.mses, x) \/ In(MSE(first, last), x)
      BY <2>1, <2>8, <2>9, <2>10, AddRep DEF w
    <2> HIDE DEF r
    <2>12. \A x \in Nat : Covers(q, x) <=> \E i \in 1 .. n : In(q[i], x)
      BY DEF Covers
    <2>13. \A x \in Nat : x + d \in Nat
      BY <1>3
    <2>14. \A x \in Nat : Covers(q, x) /\ x < first => Covers(r.mses, x)
      BY <2>3, <2>8, <2>11, <2>12, Zenon
    <2>15. \A x \in Nat : Covers(q, x) /\ x >= first => Covers(r.mses, x + d)
      BY <2>3, <2>8, <2>11, <2>12, <2>13, Zenon
    <2> QED  BY <2>11, <2>14, <2>15 DEF d, r
  <1> QED  BY <1>4, <1>5, <1>6

-----------------------------------------------------------------------------
\* Searches

\* The least member of a set of positions.
LEMMA LeastPosition ==
    ASSUME NEW x \in SUBSET Nat, x # {}
    PROVE  Min(x) \in x /\ \A y \in x : Min(x) <= y
  <1>1. \E w \in x : \A z \in x : w <= z
    BY LeastNatural
  <1> QED  BY <1>1, Zenon DEF Min

\* Where the searches stop.
MemberStops(q, m) == {i \in 1 .. Len(q) : m <= q[i].last \/ m < q[i].first}

RangeStops(q, f, l) ==
    {i \in 1 .. Len(q) : overlapMSE(q[i], MSE(f, l)) \/ l < q[i].first}

\* What the searches look for, and what they answer for the position they stop at.
LEMMA SearchesAre ==
    ASSUME NEW s, NEW m, NEW f, NEW l
    PROVE  /\ isMemberOf(s, m) <=>
                LET I == MemberStops(s.mses, m)
                    i == IF I # {} THEN Min(I) ELSE 0
                IN  i # 0 /\ m >= s.mses[i].first
           /\ hasMonadsInRange(s, f, l) <=>
                LET I == RangeStops(s.mses, f, l)
                    i == IF I # {} THEN Min(I) ELSE 0
                IN  i # 0 /\ overlapMSE(s.mses[i], MSE(f, l))
  <1>1. isMemberOf(s, m) <=>
                LET I == MemberStops(s.mses, m)
                    i == IF I # {} THEN Min(I) ELSE 0
                IN  i # 0 /\ m >= s.mses[i].first
    BY Zenon DEF isMemberOf, SelectInSeq, MemberStops
  <1>2. hasMonadsInRange(s, f, l) <=>
                LET I == RangeStops(s.mses, f, l)
                    i == IF I # {} THEN Min(I) ELSE 0
                IN  i # 0 /\ overlapMSE(s.mses[i], MSE(f, l))
    BY Zenon DEF hasMonadsInRange, SelectInSeq, RangeStops
  <1> QED  BY <1>1, <1>2

\* isMemberOf finds a monad where it is.
LEMMA MemberExact ==
    ASSUME NEW s \in Rep, NEW m \in Nat
    PROVE  isMemberOf(s, m) <=> Covers(s.mses, m)
  <1> DEFINE q == s.mses
             n == Len(q)
             I == MemberStops(q, m)
             F(j) == q[j].first
             L(j) == q[j].last
  <1>1. Good(q) /\ n \in Nat
    BY RepParts, ListEnds
  <1>2. /\ \A j \in 1 .. n : F(j) \in Nat /\ L(j) \in Nat /\ F(j) <= L(j)
        /\ \A j, k \in 1 .. n : j < k => L(j) + 1 < F(k)
    BY <1>1, ListAscends
  <1>3. isMemberOf(s, m) <=> LET i == IF I # {} THEN Min(I) ELSE 0 IN i # 0 /\ m >= F(i)
    BY SearchesAre
  <1>4. \A j : j \in I <=> j \in 1 .. n /\ (m <= L(j) \/ m < F(j))
    BY DEF MemberStops
  <1>5. Covers(q, m) <=> \E j \in 1 .. n : F(j) <= m /\ m <= L(j)
    BY DEF Covers, In
  <1> HIDE DEF F, L, n, I
  <1>6. CASE I = {}
    <2>1. ~\E j \in 1 .. n : F(j) <= m /\ m <= L(j)
      BY <1>4, <1>6
    <2> QED  BY <1>3, <1>5, <1>6, <2>1
  <1>7. CASE I # {}
    <2> DEFINE i == Min(I)
    <2>1. I \in SUBSET Nat
      BY <1>1, <1>4
    <2>2. i \in I /\ \A j \in I : i <= j
      BY <1>7, <2>1, LeastPosition
    <2> HIDE DEF i
    <2>3. i \in 1 .. n /\ i # 0 /\ m <= L(i)
      <3>1. i \in 1 .. n /\ (m <= L(i) \/ m < F(i))
        BY <1>4, <2>2
      <3>2. F(i) \in Nat /\ L(i) \in Nat /\ F(i) <= L(i)
        BY <1>2, <3>1
      <3> QED  BY <1>1, <3>1, <3>2
    <2>4. isMemberOf(s, m) <=> m >= F(i)
      BY <1>3, <1>7, <2>3 DEF i
    <2>5. ASSUME NEW j \in 1 .. n, F(j) <= m, m <= L(j) PROVE m >= F(i)
      <3>1. j \in I /\ i <= j
        BY <1>4, <2>2, <2>5
      <3>2. ~(i < j)
        <4>1. i < j => L(i) + 1 < F(j)
          BY <1>2, <2>3
        <4>2. L(i) \in Nat /\ F(j) \in Nat
          BY <1>2, <2>3
        <4> QED  BY <2>3, <2>5, <4>1, <4>2
      <3>3. i = j
        BY <1>1, <2>3, <3>1, <3>2
      <3>4. F(j) \in Nat
        BY <1>2
      <3> QED  BY <2>5, <3>3, <3>4
    <2>6. m >= F(i) => F(i) <= m
      <3>1. F(i) \in Nat
        BY <1>2, <2>3
      <3> QED  BY <3>1
    <2> QED  BY <1>5, <2>3, <2>4, <2>5, <2>6
  <1> QED  BY <1>6, <1>7

\* hasMonadsInRange finds a range that shares a monad with the one asked for.
LEMMA RangeExact ==
    ASSUME NEW s \in Rep, NEW f \in Nat, NEW l \in Nat, f <= l
    PROVE  hasMonadsInRange(s, f, l) <=> \E x \in f .. l : Covers(s.mses, x)
  <1> DEFINE q == s.mses
             n == Len(q)
             I == RangeStops(q, f, l)
             F(j) == q[j].first
             L(j) == q[j].last
             O(j) == L(j) >= f /\ F(j) <= l
  <1>1. Good(q) /\ n \in Nat
    BY RepParts, ListEnds
  <1>2. /\ \A j \in 1 .. n : F(j) \in Nat /\ L(j) \in Nat /\ F(j) <= L(j)
        /\ \A j, k \in 1 .. n : j < k => L(j) + 1 < F(k)
    BY <1>1, ListAscends
  <1>3. \A j : overlapMSE(q[j], MSE(f, l)) <=> O(j)
    BY StretchTypes DEF overlapMSE
  <1>4. hasMonadsInRange(s, f, l) <=> LET i == IF I # {} THEN Min(I) ELSE 0 IN i # 0 /\ O(i)
    BY <1>3, SearchesAre
  <1>5. \A j : j \in I <=> j \in 1 .. n /\ (O(j) \/ l < F(j))
    BY <1>3 DEF RangeStops
  <1>6. \A x : Covers(q, x) <=> \E j \in 1 .. n : F(j) <= x /\ x <= L(j)
    BY DEF Covers, In
  <1> HIDE DEF F, L, n, I
  <1>7. ASSUME NEW j \in 1 .. n PROVE O(j) <=> \E x \in f .. l : F(j) <= x /\ x <= L(j)
    <2>1. F(j) \in Nat /\ L(j) \in Nat /\ F(j) <= L(j)
      BY <1>2
    <2>2. ASSUME NEW x \in f .. l, F(j) <= x, x <= L(j) PROVE O(j)
      BY <2>1, <2>2
    <2>3. ASSUME O(j), f <= F(j) PROVE \E x \in f .. l : F(j) <= x /\ x <= L(j)
      <3>1. F(j) \in f .. l
        BY <2>1, <2>3
      <3> QED  BY <2>1, <3>1
    <2>4. ASSUME O(j), F(j) < f PROVE \E x \in f .. l : F(j) <= x /\ x <= L(j)
      <3>1. f \in f .. l /\ F(j) <= f /\ f <= L(j)
        BY <2>1, <2>4
      <3> QED  BY <3>1
    <2> QED  BY <2>1, <2>2, <2>3, <2>4
  <1>8. (\E x \in f .. l : Covers(q, x)) <=> \E j \in 1 .. n : O(j)
    BY <1>6, <1>7
  <1>9. CASE I = {}
    BY <1>4, <1>5, <1>8, <1>9
  <1>10. CASE I # {}
    <2> DEFINE i == Min(I)
    <2>1. I \in SUBSET Nat
      BY <1>1, <1>5
    <2>2. i \in I /\ \A j \in I : i <= j
      BY <1>10, <2>1, LeastPosition
    <2> HIDE DEF i
    <2>3. i \in 1 .. n /\ i # 0 /\ (O(i) \/ l < F(i))
      BY <1>1, <1>5, <2>2
    <2>4. hasMonadsInRange(s, f, l) <=> O(i)
      BY <1>4, <1>10, <2>3 DEF i
    <2>5. ASSUME NEW j \in 1 .. n, O(j) PROVE O(i)
      <3>1. j \in I /\ i <= j
        BY <1>5, <2>2, <2>5
      <3>2. CASE i = j
        BY <2>5, <3>2
      <3>3. CASE i < j
        <4>1. L(i) + 1 < F(j)
          BY <1>2, <2>3, <3>3
        <4>2. F(i) \in Nat /\ L(i) \in Nat /\ F(i) <= L(i) /\ F(j) \in Nat
          BY <1>2, <2>3
        <4> QED  BY <2>3, <2>5, <4>1, <4>2
      <3> QED  BY <1>1, <2>3, <3>1, <3>2, <3>3
    <2> QED  BY <1>8, <2>3, <2>4, <2>5
  <1> QED  BY <1>9, <1>10

\* The search with a hint answers as isMemberOf does, wherever the hint is,
\* and leaves the hint inside the list unless the monad lies behind the set.
LEMMA HintExact ==
    ASSUME NEW s \in Rep, NEW m \in Nat, NEW h \in 1 .. Len(s.mses)
    PROVE  /\ isMemberOfHint(s, m, h).answer <=> Covers(s.mses, m)
           /\ m <= s.last => isMemberOfHint(s, m, h).hint \in 1 .. Len(s.mses)
  <1> DEFINE q == s.mses
             n == Len(q)
             F(j) == q[j].first
             L(j) == q[j].last
             z == s.last
             start == IF F(h) > m THEN 1 ELSE h
             I == {i \in start .. n : L(i) >= m}
             at == IF I = {} THEN n + 1 ELSE Min(I)
             r == isMemberOfHint(s, m, h)
  <1>1. Good(q) /\ n \in Nat
    BY RepParts, ListEnds
  <1>2. /\ \A j \in 1 .. n : F(j) \in Nat /\ L(j) \in Nat /\ F(j) <= L(j)
        /\ \A j, k \in 1 .. n : j < k => L(j) + 1 < F(k)
    BY <1>1, ListAscends
  <1>3. z \in Nat /\ z = L(n) /\ n \in 1 .. n /\ h \in 1 .. n /\ \A x \in Nat : Covers(q, x) => x <= z
    <2>1. h \in 1 .. n
      OBVIOUS
    <2>2. q # << >> /\ n \in 1 .. n
      <3> HIDE DEF n
      <3>1. n # 0 /\ n \in 1 .. n
        BY <1>1, <2>1
      <3> QED  BY <1>1, <3>1, ListEnds DEF n
    <2> QED  BY <2>1, <2>2, RepEnds, RepParts
  <1>4. r = IF m > z THEN [answer |-> FALSE, hint |-> n + 1]
            ELSE [answer |-> at <= n /\ F(at) <= m, hint |-> at]
    BY Zenon DEF isMemberOfHint
  <1>5. Covers(q, m) <=> \E j \in 1 .. n : F(j) <= m /\ m <= L(j)
    BY DEF Covers, In
  <1> HIDE DEF F, L, n, z, r
  <1>6. CASE m > z
    <2>1. r.answer = FALSE
      BY <1>4, <1>6
    <2>2. ~Covers(q, m) /\ ~(m <= z)
      BY <1>3, <1>6
    <2> QED  BY <2>1, <2>2 DEF r, z
  <1>7. CASE ~(m > z)
    <2>1. start \in 1 .. n /\ \A j \in 1 .. n : F(j) <= m /\ m <= L(j) => start <= j
      <3>1. CASE F(h) > m
        BY <1>1, <1>3, <3>1
      <3>2. CASE ~(F(h) > m)
        <4>1. start = h
          BY <3>2
        <4>2. ASSUME NEW j \in 1 .. n, F(j) <= m, m <= L(j), j < h PROVE FALSE
          <5>1. L(j) + 1 < F(h) /\ L(j) \in Nat /\ F(h) \in Nat
            BY <1>2, <1>3, <4>2
          <5> QED  BY <3>2, <4>2, <5>1
        <4>3. \A j \in 1 .. n : F(j) <= m /\ m <= L(j) => h <= j
          BY <1>1, <1>3, <4>2
        <4> QED  BY <1>3, <4>1, <4>3
      <3> QED  BY <3>1, <3>2
    <2> HIDE DEF start
    <2>2. n \in I /\ I \in SUBSET Nat /\ I \in SUBSET (1 .. n)
      <3>1. L(n) >= m /\ n \in start .. n
        BY <1>1, <1>3, <1>7, <2>1
      <3> QED  BY <1>1, <2>1, <3>1
    <2>3. \A j : j \in I <=> j \in start .. n /\ L(j) >= m
      OBVIOUS
    <2> HIDE DEF I
    <2>4. at = Min(I)
      BY <2>2
    <2>5. at \in I /\ \A j \in I : at <= j
      BY <2>2, <2>4, LeastPosition
    <2> HIDE DEF at
    <2>6. at \in 1 .. n /\ L(at) >= m
      BY <2>2, <2>3, <2>5
    <2>7. (r.answer <=> F(at) <= m) /\ r.hint = at
      <3>1. r.answer = (at <= n /\ F(at) <= m) /\ r.hint = at
        BY <1>4, <1>7
      <3>2. at <= n
        BY <1>1, <2>6
      <3> QED  BY <3>1, <3>2, Zenon
    <2>8. ASSUME NEW j \in 1 .. n, F(j) <= m, m <= L(j) PROVE F(at) <= m
      <3>1. j \in I
        <4>1. start <= j /\ L(j) \in Nat
          BY <1>2, <2>1, <2>8
        <4> QED  BY <1>1, <2>1, <2>3, <2>8, <4>1
      <3>2. at <= j
        BY <2>5, <3>1
      <3>3. ~(at < j)
        <4>1. at < j => L(at) + 1 < F(j)
          BY <1>2, <2>6
        <4>2. L(at) \in Nat /\ F(j) \in Nat
          BY <1>2, <2>6
        <4> QED  BY <2>6, <2>8, <4>1, <4>2
      <3>4. at = j
        BY <1>1, <2>6, <3>2, <3>3
      <3> QED  BY <2>8, <3>4
    <2>9. F(at) <= m => \E j \in 1 .. n : F(j) <= m /\ m <= L(j)
      <3>1. L(at) \in Nat
        BY <1>2, <2>6
      <3>2. m <= L(at)
        BY <2>6, <3>1
      <3> QED  BY <2>6, <3>2
    <2> QED  BY <1>5, <2>6, <2>7, <2>8, <2>9 DEF r, n
  <1> QED  BY <1>6, <1>7

-----------------------------------------------------------------------------
\* Tests on two sets

\* overlap finds a common monad when there is one.
LEMMA OverlapExact ==
    ASSUME NEW s \in Rep, NEW t \in Rep
    PROVE  overlap(s, t) <=> \E x \in Nat : Covers(s.mses, x) /\ Covers(t.mses, x)
  <1>1. Good(s.mses) /\ Good(t.mses)
    BY RepParts
  <1>2. OverlapRun(s.mses, t.mses)[<<1, 1>>]
           <=> \E x \in Nat : Covers(s.mses, x) /\ Covers(t.mses, x)
    BY <1>1, OverlapRunExact
  <1>3. isEmpty(s) \/ isEmpty(t) => ~\E x \in Nat : Covers(s.mses, x) /\ Covers(t.mses, x)
    BY EmptyList DEF isEmpty
  <1> QED  BY <1>2, <1>3, OverlapIsWalk

\* part_of of a set that is not empty is inclusion.
LEMMA PartExact ==
    ASSUME NEW s, Used(s), s.mses # << >>, NEW t \in Rep,
           \A x \in Nat : Covers(s.mses, x) => x < MAX_MONAD
    PROVE  part_of(s, t) <=> \A x \in Nat : Covers(s.mses, x) => Covers(t.mses, x)
  <1> DEFINE p == s.mses
             q == t.mses
             f == s.first
             l == s.last
             g == t.first
             k == t.last
             Inside == \A x \in Nat : Covers(p, x) => Covers(q, x)
  <1>1. Good(p) /\ Good(q) /\ s \in Rep /\ f \in Nat /\ l \in Nat /\ g \in Nat /\ k \in Nat
    BY RepParts DEF Used
  <1>2. /\ Covers(p, f) /\ Covers(p, l)
        /\ \A x \in Nat : Covers(p, x) => f <= x /\ x <= l
    BY <1>1, RepEnds
  <1>3. PartRun(p, q)[<<1, 1>>] <=> Inside
    BY <1>1, PartRunExact
  <1>4. part_of(s, t) <=> /\ f >= g /\ l <= k
                          /\ hasOnlyOneMSE(t) \/ PartRun(p, q)[<<1, 1>>]
    BY PartIsWalk
  <1>5. MAX_MONAD \in Nat
    BY MaxMonadAssumption
  <1>6. CASE q = << >>
    <2>1. g = MAX_MONAD
      BY <1>1, <1>6, RepParts DEF Exact
    <2> HIDE DEF f, g
    <2>2. ~(f >= g)
      BY <1>1, <1>2, <1>5, <2>1
    <2>3. ~Inside
      BY <1>1, <1>2, <1>6, EmptyList
    <2> QED  BY <1>4, <2>2, <2>3
  <1>7. CASE q # << >>
    <2>1. /\ \A x \in Nat : Covers(q, x) => g <= x /\ x <= k
          /\ g = q[1].first /\ k = q[Len(q)].last
      BY <1>7, RepEnds
    <2>2. hasOnlyOneMSE(t) => \A x \in Nat : Covers(q, x) <=> g <= x /\ x <= k
      <3> SUFFICES ASSUME Len(q) = 1 PROVE \A x \in Nat : Covers(q, x) <=> g <= x /\ x <= k
        BY DEF hasOnlyOneMSE
      <3>1. g = q[1].first /\ k = q[1].last
        BY <2>1
      <3>2. 1 .. Len(q) = {1}
        OBVIOUS
      <3> HIDE DEF g, k
      <3> QED  BY <3>1, <3>2 DEF Covers, In
    <2> HIDE DEF f, l, g, k, p, q
    <2>3. Inside => f >= g /\ l <= k
      BY <1>1, <1>2, <2>1
    <2>4. f >= g /\ l <= k /\ hasOnlyOneMSE(t) => Inside
      <3> SUFFICES ASSUME f >= g, l <= k, hasOnlyOneMSE(t), NEW x \in Nat, Covers(p, x)
                   PROVE  Covers(q, x)
        OBVIOUS
      <3>1. f <= x /\ x <= l
        BY <1>2
      <3>2. g <= x /\ x <= k
        BY <1>1, <3>1
      <3> QED  BY <2>2, <3>2
    <2> HIDE DEF Inside
    <2>5. part_of(s, t) <=> Inside
      BY <1>3, <1>4, <2>3, <2>4
    <2> QED  BY <2>5 DEF Inside, p, q
  <1> QED  BY <1>6, <1>7

-----------------------------------------------------------------------------
\* Searches for gaps

\* The list that getGaps returns, gap by gap.
LEMMA GapItems ==
    ASSUME NEW s, Used(s)
    PROVE  /\ DOMAIN getGaps(s).mses = 1 .. (Len(s.mses) - 1)
           /\ 1 .. Len(getGaps(s).mses) = 1 .. (Len(s.mses) - 1)
           /\ \A i \in 1 .. (Len(s.mses) - 1) :
                 /\ getGaps(s).mses[i] = Gap(s.mses, i)
                 /\ getGaps(s).mses[i].first = s.mses[i].last + 1
                 /\ getGaps(s).mses[i].last = s.mses[i + 1].first - 1
  <1> DEFINE q == s.mses
             n == Len(q)
             g == getGaps(s).mses
  <1>1. Good(q) /\ n \in Nat /\ (q = << >> <=> n = 0)
    BY RepParts, ListEnds DEF Used
  <1>2. \A i \in 1 .. (n - 1) : /\ Gap(q, i).first = q[i].last + 1
                                /\ Gap(q, i).last = q[i + 1].first - 1
    BY <1>1, GapStretch
  <1> HIDE DEF n
  <1>3. CASE n = 0 \/ n = 1
    <2>1. getGaps(s) = EmptySOM
      <3>1. CASE n = 0
        BY <1>1, <3>1 DEF getGaps, isEmpty
      <3>2. CASE n = 1
        BY <1>1, <3>2, GapsAre DEF GapsSOM, n
      <3> QED  BY <1>3, <3>1, <3>2
    <2>2. g = << >>
      BY <2>1, EmptyRep
    <2>3. 1 .. (n - 1) = {} /\ DOMAIN << >> = {} /\ 1 .. Len(<< >>) = {}
      BY <1>3
    <2> QED  BY <2>2, <2>3 DEF n
  <1>4. CASE n > 1
    <2>1. n - 1 \in 1 .. (n - 1) /\ n - 1 # 0 /\ n # 0 /\ n - 1 \in Nat
      BY <1>1, <1>4
    <2>2. getGaps(s) = SOM(GapsTo(q, n - 1), q[1].last + 1, q[(n - 1) + 1].first - 1)
      BY <1>1, <2>1, GapsAre DEF GapsSOM, n
    <2>3. g = GapsTo(q, n - 1)
      BY <2>2, SOMFields
    <2>4. Len(GapsTo(q, n - 1)) = n - 1
      BY <1>1, <2>1, GapsToList DEF n
    <2>5. DOMAIN g = 1 .. (n - 1) /\ \A i \in 1 .. (n - 1) : g[i] = Gap(q, i)
      BY <2>3 DEF GapsTo
    <2> HIDE DEF g
    <2>6. 1 .. Len(g) = 1 .. (n - 1)
      BY <2>3, <2>4
    <2> QED  BY <1>2, <2>5, <2>6 DEF n, g
  <1> QED  BY <1>1, <1>3, <1>4

\* Where gapExists stops, and what it answers.
GapStops(q, Sm) == {i \in 1 .. Len(q) : Sm <= q[i].last + 1 /\ Sm # q[i].last}

\* What gapExists answers, by the position its search stops at.
LEMMA GapExistsIs ==
    ASSUME NEW s, NEW Sm
    PROVE  gapExists(s, Sm) =
              LET I == GapStops(s.mses, Sm)
                  i == IF I # {} THEN Min(I) ELSE 0
              IN  IF Sm >= s.first /\ Sm <= s.last /\ i # 0 /\ Sm = s.mses[i].last + 1
                  THEN s.mses[i + 1].first - 1
                  ELSE 0
  BY Zenon DEF gapExists, SelectInSeq, GapStops

\* gapExists answers for the first monad of a gap, with its last.
LEMMA GapExistsExact ==
    ASSUME NEW s, Used(s), NEW Sm \in Nat,
           \A x \in Nat : Covers(s.mses, x) => x < MAX_MONAD
    PROVE  /\ \A j \in 1 .. (Len(s.mses) - 1) :
                 Sm = s.mses[j].last + 1 => gapExists(s, Sm) = s.mses[j + 1].first - 1
           /\ (\A j \in 1 .. (Len(s.mses) - 1) : Sm # s.mses[j].last + 1)
                 => gapExists(s, Sm) = 0
  <1> DEFINE q == s.mses
             n == Len(q)
             I == GapStops(q, Sm)
             F(j) == q[j].first
             L(j) == q[j].last
             f == s.first
             z == s.last
             i == IF I # {} THEN Min(I) ELSE 0
  <1>1. s \in Rep /\ Good(q) /\ n \in Nat /\ f \in Nat /\ z \in Nat
    BY RepParts, ListEnds DEF Used
  <1>2. /\ \A j \in 1 .. n : F(j) \in Nat /\ L(j) \in Nat /\ F(j) <= L(j)
        /\ \A j, k \in 1 .. n : j < k => L(j) + 1 < F(k)
        /\ \A j, k \in 1 .. n : j <= k => L(j) <= L(k) /\ F(j) <= F(k)
    BY <1>1, ListAscends
  <1>3. n # 0 => f = F(1) /\ z = L(n)
    <2>1. n # 0 => q # << >>
      BY <1>1, ListEnds
    <2> QED  BY <1>1, <2>1, RepEnds
  <1>4. gapExists(s, Sm) = IF Sm >= f /\ Sm <= z /\ i # 0 /\ Sm = L(i) + 1
                           THEN F(i + 1) - 1 ELSE 0
    BY GapExistsIs, Zenon
  <1>5. \A j : j \in I <=> j \in 1 .. n /\ Sm <= L(j) + 1 /\ Sm # L(j)
    BY DEF GapStops
  <1> HIDE DEF F, L, n, I, f, z
  <1>6. I \in SUBSET Nat
    BY <1>1, <1>5
  <1>7. I # {} => i \in I /\ \A j \in I : i <= j
    BY <1>6, LeastPosition
  <1>8. ASSUME NEW j \in 1 .. (n - 1), Sm = L(j) + 1 PROVE gapExists(s, Sm) = F(j + 1) - 1
    <2>1. j \in 1 .. n /\ j + 1 \in 1 .. n /\ 1 \in 1 .. n /\ n \in 1 .. n /\ n # 0
          /\ 1 <= j /\ j < j + 1 /\ j + 1 <= n
      BY <1>1
    <2>2. L(j) \in Nat /\ F(j) \in Nat /\ F(j) <= L(j)
      BY <1>2, <2>1
    <2>3. j \in I
      BY <1>5, <1>8, <2>1, <2>2
    <2>4. i \in I /\ i <= j
      BY <1>7, <2>3
    <2> HIDE DEF i
    <2>5. i \in 1 .. n /\ Sm <= L(i) + 1
      BY <1>5, <2>4
    <2>6. ~(i < j)
      <3>1. i < j => L(i) + 1 < F(j)
        BY <1>2, <2>1, <2>5
      <3>2. L(i) \in Nat
        BY <1>2, <2>5
      <3> QED  BY <1>8, <2>2, <2>5, <3>1, <3>2
    <2>7. i = j /\ i # 0
      BY <1>1, <2>1, <2>4, <2>5, <2>6
    <2>8. f <= L(j)
      <3>1. F(1) \in Nat /\ F(1) <= F(j) /\ f = F(1)
        BY <1>1, <1>2, <1>3, <2>1
      <3> QED  BY <2>2, <3>1
    <2>9. Sm <= z
      <3>1. F(j + 1) \in Nat /\ L(j + 1) \in Nat /\ F(j + 1) <= L(j + 1) /\ L(j) + 1 < F(j + 1)
        BY <1>2, <2>1
      <3>2. L(j + 1) <= L(n) /\ L(n) \in Nat /\ z = L(n)
        BY <1>2, <1>3, <2>1
      <3> QED  BY <1>8, <2>2, <3>1, <3>2
    <2>10. Sm >= f
      BY <1>1, <1>8, <2>2, <2>8
    <2> QED  BY <1>4, <1>8, <2>7, <2>9, <2>10
  <1>9. ASSUME \A j \in 1 .. (n - 1) : Sm # L(j) + 1 PROVE gapExists(s, Sm) = 0
    <2> SUFFICES ASSUME Sm <= z, i # 0, Sm = L(i) + 1 PROVE FALSE
      BY <1>4
    <2>1. i \in I
      BY <1>7
    <2> HIDE DEF i
    <2>2. i \in 1 .. n
      BY <1>5, <2>1
    <2>3. i = n
      BY <1>1, <1>9, <2>2
    <2>4. n # 0 /\ L(n) \in Nat
      BY <1>1, <1>2, <2>2, <2>3
    <2> QED  BY <1>3, <2>3, <2>4
  <1> QED  BY <1>8, <1>9 DEF F, L, n

\* hasLargerGap compares the widest step from one range to the next.
LEMMA LargerGapExact ==
    ASSUME NEW s, Used(s), NEW m \in Nat
    PROVE  hasLargerGap(s, m)
              <=> \E i \in 1 .. (Len(s.mses) - 1) : s.mses[i + 1].first - s.mses[i].last > m
  <1> DEFINE q == s.mses
             n == Len(q)
             F(j) == q[j].first
             L(j) == q[j].last
             f == s.first
             z == s.last
  <1>1. s \in Rep /\ Good(q) /\ n \in Nat /\ f \in Nat /\ z \in Nat
    BY RepParts, ListEnds DEF Used
  <1>2. /\ \A j \in 1 .. n : F(j) \in Nat /\ L(j) \in Nat /\ F(j) <= L(j)
        /\ \A j, k \in 1 .. n : j <= k => L(j) <= L(k) /\ F(j) <= F(k)
    BY <1>1, ListAscends
  <1>3. n # 0 => f = F(1) /\ z = L(n) /\ ~isEmpty(s)
    <2>1. n # 0 => q # << >>
      BY <1>1, ListEnds
    <2> QED  BY <1>1, <2>1, RepEnds DEF isEmpty
  <1>4. hasLargerGap(s, m) <=> /\ ~isEmpty(s) /\ z - f >= m
                               /\ \E i \in 2 .. n : F(i) - L(i - 1) > m
    BY DEF hasLargerGap
  <1> HIDE DEF F, L, n, f, z
  <1>5. ASSUME NEW i \in 2 .. n, F(i) - L(i - 1) > m
        PROVE  \E j \in 1 .. (n - 1) : F(j + 1) - L(j) > m
    <2>1. i - 1 \in 1 .. (n - 1) /\ (i - 1) + 1 = i
      BY <1>1
    <2> QED  BY <1>5, <2>1
  <1>6. ASSUME NEW j \in 1 .. (n - 1), F(j + 1) - L(j) > m PROVE hasLargerGap(s, m)
    <2>1. j \in 1 .. n /\ j + 1 \in 1 .. n /\ j + 1 \in 2 .. n /\ (j + 1) - 1 = j /\ n # 0
          /\ 1 \in 1 .. n /\ n \in 1 .. n /\ 1 <= j /\ j + 1 <= n
      BY <1>1
    <2>2. F(1) \in Nat /\ F(1) <= F(j) /\ F(j) \in Nat /\ F(j) <= L(j) /\ L(j) \in Nat
      BY <1>2, <2>1
    <2>3. L(n) \in Nat /\ L(j + 1) <= L(n) /\ L(j + 1) \in Nat /\ F(j + 1) <= L(j + 1)
          /\ F(j + 1) \in Nat
      BY <1>2, <2>1
    <2>4. z = L(n) /\ f = F(1) /\ ~isEmpty(s)
      BY <1>3, <2>1
    <2>5. z - f >= m
      BY <1>6, <2>2, <2>3, <2>4
    <2> QED  BY <1>4, <1>6, <2>1, <2>4, <2>5
  <1> QED  BY <1>4, <1>5, <1>6 DEF F, L, n

\* What fillGaps leaves between two ranges is at least min_gap monads wide.
LEMMA FillLeavesWide ==
    ASSUME NEW s, Used(s), NEW g \in Nat, NEW k \in 1 .. (Len(fillGaps(s, g).mses) - 1)
    PROVE  fillGaps(s, g).mses[k + 1].first - fillGaps(s, g).mses[k].last - 1 >= g
  <1> DEFINE q == s.mses
             n == Len(q)
             p == fillGaps(s, g).mses
             l == p[k].last
             r == p[k + 1].first
             x == l + 1
             A(j) == q[j].last
             B(j) == q[j + 1].first
  <1>1. Good(q) /\ n \in Nat /\ fillGaps(s, g) \in Rep
    BY RepParts, ListEnds, FillRep DEF Used
  <1>2. Good(p) /\ Len(p) \in Nat
    BY <1>1, RepParts, ListEnds
  <1>3. \A y \in Nat : Covers(p, y) <=> Covers(q, y) \/ FilledTo(q, n - 1, g, y)
    BY FillRep
  <1>4. \A j \in 1 .. (n - 1) : A(j) \in Nat /\ B(j) \in Nat
    <2>1. \A j \in 1 .. (n - 1) : j \in 1 .. n /\ j + 1 \in 1 .. n
      <3> HIDE DEF n
      <3> QED  BY <1>1
    <2> QED  BY <1>1, <2>1, ListAscends
  <1>5. \A j : \A y : Between(q, j, y) <=> A(j) < y /\ y < B(j)
    BY DEF Between
  <1>6. \A j \in 1 .. (n - 1) : \A y \in Nat :
           Between(q, j, y) =>
              /\ ~Covers(q, y) /\ Covers(q, A(j)) /\ Covers(q, B(j))
              /\ \A i \in 1 .. (n - 1) : Between(q, i, y) => i = j
    BY <1>1, BetweenUncovered
  <1>7. l \in Nat /\ r \in Nat /\ l + 1 < r
    <2>1. k \in 1 .. Len(p) /\ k + 1 \in 1 .. Len(p) /\ k < k + 1
      <3> DEFINE m == Len(p)
      <3>1. m \in Nat /\ k \in 1 .. (m - 1)
        BY <1>2
      <3> HIDE DEF m
      <3>2. k \in 1 .. m /\ k + 1 \in 1 .. m /\ k < k + 1
        BY <3>1
      <3> QED  BY <3>2 DEF m
    <2> HIDE DEF p
    <2> QED  BY <1>2, <2>1, ListAscends
  <1>8. \A y : Between(p, k, y) <=> l < y /\ y < r
    BY DEF Between
  <1> HIDE DEF p, l, r, n, q, A, B
  <1>9. x \in Nat /\ Between(p, k, x)
    BY <1>7, <1>8
  <1>10. ~Covers(p, x) /\ Covers(p, l) /\ Covers(p, r)
    BY <1>2, <1>9, BetweenUncovered DEF p, l, r
  <1>11. ~Covers(q, x) /\ ~FilledTo(q, n - 1, g, x)
    BY <1>3, <1>9, <1>10
  <1>12. \E y \in Nat : Covers(q, y) /\ y < x
    <2>1. CASE Covers(q, l)
      BY <1>7, <2>1
    <2>2. CASE FilledTo(q, n - 1, g, l)
      <3>1. PICK i \in 1 .. (n - 1) : Between(q, i, l)
        BY <2>2 DEF FilledTo
      <3>2. A(i) \in Nat /\ Covers(q, A(i)) /\ A(i) < l
        BY <1>4, <1>5, <1>6, <1>7, <3>1
      <3>3. A(i) < x
        BY <1>7, <3>2
      <3> QED  BY <3>2, <3>3
    <2> QED  BY <1>3, <1>7, <1>10, <2>1, <2>2
  <1>13. \E y \in Nat : Covers(q, y) /\ x < y
    <2>1. CASE Covers(q, r)
      BY <1>7, <2>1
    <2>2. CASE FilledTo(q, n - 1, g, r)
      <3>1. PICK i \in 1 .. (n - 1) : Between(q, i, r)
        BY <2>2 DEF FilledTo
      <3>2. B(i) \in Nat /\ Covers(q, B(i)) /\ r < B(i)
        BY <1>4, <1>5, <1>6, <1>7, <3>1
      <3>3. x < B(i)
        BY <1>7, <3>2
      <3> QED  BY <3>2, <3>3
    <2> QED  BY <1>3, <1>7, <1>10, <2>1, <2>2
  <1>14. PICK j \in 1 .. (n - 1) : Between(q, j, x)
    BY <1>1, <1>9, <1>11, <1>12, <1>13, GapPosition DEF n
  <1>15. ~Narrow(q, j, g) /\ (Narrow(q, j, g) <=> B(j) - A(j) - 1 < g)
    BY <1>11, <1>14 DEF FilledTo, Narrow, A, B
  <1>16. \A y \in Nat : Between(q, j, y) => ~Covers(p, y)
    <2> SUFFICES ASSUME NEW y \in Nat, Between(q, j, y) PROVE ~Covers(q, y) /\ ~FilledTo(q, n - 1, g, y)
      BY <1>3
    <2>1. ~Covers(q, y) /\ \A i \in 1 .. (n - 1) : Between(q, i, y) => i = j
      BY <1>6
    <2> QED  BY <1>15, <2>1 DEF FilledTo
  <1>17. A(j) < x /\ x < B(j) /\ ~(A(j) < l /\ l < B(j)) /\ ~(A(j) < r /\ r < B(j))
    BY <1>5, <1>7, <1>10, <1>14, <1>16
  <1>18. A(j) \in Nat /\ B(j) \in Nat
    BY <1>4
  <1> DEFINE al == A(j)
             be == B(j)
  <1>19. al \in Nat /\ be \in Nat /\ al < l + 1 /\ l + 1 < be /\ ~(al < l /\ l < be)
         /\ ~(al < r /\ r < be) /\ ~(be - al - 1 < g)
    BY <1>15, <1>17, <1>18
  <1> HIDE DEF al, be
  <1>20. r - l - 1 >= g
    BY <1>7, <1>19
  <1> QED  BY <1>20 DEF l, r, p
-----------------------------------------------------------------------------
\* Rebuilding a set from its ranges

\* The set of the first k ranges of s.
FirstRanges(s, k) ==
    IF k = 0 THEN EmptySOM
    ELSE SOM([i \in 1 .. k |-> s.mses[i]], s.mses[1].first, s.mses[k].last)

\* addMSE with the next range makes it the set of one range more.
LEMMA NextRange ==
    ASSUME NEW s, Used(s), NEW k \in 1 .. Len(s.mses)
    PROVE  addMSE(FirstRanges(s, k - 1), s.mses[k]) = FirstRanges(s, k)
  <1> DEFINE q == s.mses
             n == Len(q)
             e == q[k]
             f == e.first
             l == e.last
             f1 == q[1].first
  <1>1. Good(q) /\ n \in Nat /\ MAX_MONAD \in Nat
    BY RepParts, ListEnds, MaxMonadAssumption DEF Used
  <1>2. k \in 1 .. n /\ 1 \in 1 .. n /\ k \in Nat \ {0}
    BY <1>1
  <1>3. f \in Nat /\ l \in Nat /\ f <= l /\ f1 \in Nat /\ f1 <= f
    BY <1>1, <1>2, ListAscends
  <1>4. CASE k = 1
    <2>1. FirstRanges(s, k - 1) = EmptySOM /\ EmptySOM.mses = << >>
          /\ EmptySOM.first = MAX_MONAD /\ EmptySOM.last = 0
      BY <1>4, SOMFields DEF FirstRanges, EmptySOM
    <2>2. addMSE(EmptySOM, e) = SOM(Append(<< >>, e), lesser(f, MAX_MONAD), greater(l, 0))
      BY <2>1, AddBehind DEF isEmpty
    <2>3. f <= MAX_MONAD
      BY <1>2, UsedFirst
    <2>4. lesser(f, MAX_MONAD) = f /\ greater(l, 0) = l
      <3> HIDE DEF f, l, e
      <3> QED  BY <1>1, <1>3, <2>3 DEF lesser, greater
    <2>5. FirstRanges(s, k) = SOM(<<e>>, f, l)
      <3>1. [i \in 1 .. 1 |-> q[i]] = <<e>>
        BY <1>4
      <3> QED  BY <1>4, <3>1 DEF FirstRanges
    <2>6. Append(<< >>, e) = <<e>>
      OBVIOUS
    <2> QED  BY <2>1, <2>2, <2>4, <2>5, <2>6
  <1>5. CASE k # 1
    <2> DEFINE p == [i \in 1 .. (k - 1) |-> q[i]]
               h == q[k - 1].last
    <2>1. k - 1 \in 1 .. n /\ k - 1 # 0 /\ k # 0 /\ k - 1 < k
      BY <1>1, <1>2, <1>5
    <2>2. FirstRanges(s, k - 1) = SOM(p, f1, h)
      BY <2>1 DEF FirstRanges
    <2>3. h \in Nat /\ h + 1 < f
      BY <1>1, <1>2, <2>1, ListAscends
    <2>4. Append(p, e) = [i \in 1 .. k |-> q[i]]
      <3>1. \A i \in 1 .. n : q[i] \in Stretch
        BY <1>1, ListEnds
      <3>2. p \in Seq(Stretch) /\ Len(p) = k - 1
        <4>1. p \in [1 .. (k - 1) -> Stretch]
          BY <1>1, <1>2, <3>1
        <4>2. k - 1 \in Nat
          BY <1>2
        <4> HIDE DEF p
        <4> QED  BY <4>1, <4>2
      <3>3. Append(p, e) = [i \in 1 .. k |-> IF i = k THEN e ELSE p[i]]
        <4> HIDE DEF p
        <4> QED  BY <1>2, <3>2
      <3>4. \A i \in 1 .. k : (IF i = k THEN e ELSE p[i]) = q[i]
        BY <1>2
      <3> QED  BY <3>3, <3>4
    <2> HIDE DEF p
    <2>5. addMSE(SOM(p, f1, h), e) = SOM(Append(p, e), lesser(f, f1), greater(l, h))
      <3>1. SOM(p, f1, h).mses = p /\ SOM(p, f1, h).first = f1 /\ SOM(p, f1, h).last = h
        BY SOMFields
      <3>2. e.first > SOM(p, f1, h).last + 1
        <4> HIDE DEF h, e
        <4> QED  BY <1>3, <2>3, <3>1
      <3> QED  BY <3>1, <3>2, AddBehind
    <2>6. lesser(f, f1) = f1 /\ greater(l, h) = l
      <3> HIDE DEF f, l, f1, h
      <3> QED  BY <1>3, <2>3 DEF lesser, greater
    <2>7. FirstRanges(s, k) = SOM([i \in 1 .. k |-> q[i]], f1, l)
      BY <2>1 DEF FirstRanges
    <2> QED  BY <2>2, <2>4, <2>5, <2>6, <2>7
  <1> QED  BY <1>4, <1>5

\* All its ranges make the set.
LEMMA AllRanges ==
    ASSUME NEW s \in Rep
    PROVE  FirstRanges(s, Len(s.mses)) = s
  <1> DEFINE q == s.mses
             n == Len(q)
  <1>1. Good(q) /\ Exact(s) /\ s = SOM(q, s.first, s.last) /\ n \in Nat /\ q \in Seq(Stretch)
    BY RepParts, ListEnds
  <1>2. CASE n = 0
    <2>1. q = << >>
      BY <1>1, <1>2
    <2> QED  BY <1>2, <2>1, EmptyRep DEF FirstRanges
  <1>3. CASE n # 0
    <2>1. q # << >>
      BY <1>1, <1>3
    <2>2. s.first = q[1].first /\ s.last = q[n].last
      BY <1>1, <2>1 DEF Exact
    <2>3. [i \in 1 .. n |-> q[i]] = q
      BY <1>1
    <2> QED  BY <1>1, <1>3, <2>2, <2>3 DEF FirstRanges
  <1> QED  BY <1>2, <1>3

\* Adding its ranges to an empty set, one after the other, makes the set again.
LEMMA AddedAgain ==
    ASSUME NEW s, Used(s)
    PROVE  FoldLeft(addMSE, EmptySOM, s.mses) = s
  <1> DEFINE q == s.mses
             n == Len(q)
             r == AddRun(q, EmptySOM)
             T == {k \in 0 .. n : r[1 .. k] = FirstRanges(s, k)}
  <1>1. s \in Rep /\ n \in Nat /\ DOMAIN q = 1 .. n
    BY RepParts, ListEnds DEF Used
  <1>2. FoldLeft(addMSE, EmptySOM, q) = r[1 .. n]
    BY <1>1, LoopsAreFolds, Zenon
  <1>3. r[1 .. 0] = EmptySOM /\ \A k \in 1 .. n : r[1 .. k] = addMSE(r[1 .. (k - 1)], q[k])
    BY <1>1, AddChain
  <1> HIDE DEF r
  <1>4. 0 \in T
    BY <1>1, <1>3 DEF FirstRanges
  <1>5. ASSUME NEW k \in 1 .. n, k - 1 \in T PROVE k \in T
    <2>1. r[1 .. k] = addMSE(r[1 .. (k - 1)], q[k])
      BY <1>3
    <2>2. r[1 .. (k - 1)] = FirstRanges(s, k - 1)
      BY <1>5
    <2>3. addMSE(FirstRanges(s, k - 1), q[k]) = FirstRanges(s, k)
      BY NextRange
    <2> QED  BY <1>1, <2>1, <2>2, <2>3
  <1> HIDE DEF T
  <1>6. \A k \in 0 .. n : k \in T
    BY <1>1, <1>4, <1>5, UpTo
  <1>7. n \in T
    BY <1>1, <1>6
  <1> QED  BY <1>1, <1>2, <1>7, AllRanges DEF T
=============================================================================
