----------------------------- MODULE FastMonads -----------------------------
(***************************************************************************)
(* Class FastSetOfMonads (src/EMdF/monads.cpp): the ranges of a set of     *)
(* monads in a std::map from the first monad of a range to the range, with *)
(* the cached bounds of SetOfMonads.  Queries keep their growing sets in   *)
(* this class and hand them to SetOfMonads and back, so the two classes    *)
(* must do the same although they search by key and by position.           *)
(*                                                                         *)
(* An iterator is the key it is at, or End.                                *)
(***************************************************************************)
EXTENDS SetOfMonads

Fast(ms, first, last) == [ms |-> ms, first |-> first, last |-> last]

EmptyFast == Fast(<< >>, MAX_MONAD, 0)

fastIsEmpty(s) == DOMAIN s.ms = {}

-----------------------------------------------------------------------------
\* std::map

End == MAX_MONAD        \* end(); above every key

upper_bound(ms, k) == Min({x \in DOMAIN ms : x > k} \cup {End})

begin(ms) == Min(DOMAIN ms \cup {End})
rbegin(ms) == Max(DOMAIN ms)

successor(ms, it) == upper_bound(ms, it)
predecessor(ms, it) == Max({x \in DOMAIN ms : x < it})

\* insert does nothing where the key is taken.
insert(ms, mse) ==
    IF mse.first \in DOMAIN ms THEN ms
      ELSE [k \in DOMAIN ms \cup {mse.first} |-> IF k = mse.first THEN mse ELSE ms[k]]

erase(ms, it) == Restrict(ms, DOMAIN ms \ {it})

eraseBefore(ms, it) == Restrict(ms, {k \in DOMAIN ms : k >= it})

\* The keys from it on, in order: an iterator that is incremented.
keysFrom(ms, it) ==
    LET keys == {k \in DOMAIN ms : k >= it}
        key[i \in 1 .. Cardinality(keys)] ==
            IF i = 1 THEN Min(keys) ELSE successor(ms, key[i - 1])
    IN  key

\* What FastSOMConstIterator goes through.
elements(s) == LET keys == keysFrom(s.ms, 0) IN [i \in DOMAIN keys |-> s.ms[keys[i]]]

-----------------------------------------------------------------------------
\* Construction and change

\* The constructors that convert one class to the other.
fromSetOfMonads(s) == Fast(FoldLeft(insert, << >>, s.mses), s.first, s.last)
toSetOfMonads(s) == FoldLeft(addMSE, EmptySOM, elements(s))

\* Mutant of careful: the search does not step back to the range before the
\* new one.
carefulNoStepBack(ms, k) == upper_bound(ms, k)

\* One range back from the first key past k, unless it is the first range.
careful(ms, k) ==
    LET it == upper_bound(ms, k)
    IN  IF it = begin(ms) THEN it ELSE predecessor(ms, it)

\* The "insert carefully" loop of addMSE, with its iterator at it.
fastInsertVisit(st, it) ==
    LET e == st.ms[it]
    IN  IF st.stopped THEN st
        ELSE IF overlapMSE(st.cur, e) \/ adjacent(st.cur, e)
             THEN [st EXCEPT !.cur = subsume(@, e), !.ms = erase(@, it)]
        ELSE [st EXCEPT !.stopped = past(e, st.cur)]

fastInsertCarefully(ms, mse) ==
    LET end == FoldLeft(fastInsertVisit, [ms |-> ms, cur |-> mse, stopped |-> FALSE],
                        keysFrom(ms, careful(ms, mse.first - 1)))
    IN  insert(end.ms, end.cur)

fastAddMSE(s, mse) ==
    LET ms == s.ms
        Extend(it) == insert(erase(ms, it), subsume(ms[it], mse))
        new == IF fastIsEmpty(s) \/ mse.first > s.last + 1 THEN insert(ms, mse)
               ELSE IF mse.first >= ms[rbegin(ms)].first THEN Extend(rbegin(ms))
               ELSE IF mse.last = s.first - 1 THEN Extend(begin(ms))
               ELSE IF mse.last < s.first - 1 THEN insert(ms, mse)
               ELSE fastInsertCarefully(ms, mse)
    IN  Fast(new, lesser(mse.first, s.first), greater(mse.last, s.last))

fastUnionWith(s, other) == FoldLeft(fastAddMSE, s, elements(other))

\* One turn of the loop of removeMSE: the six cases of the range A at the
\* iterator against the removed range B.  Case 3 searches again after it
\* erased A.  Where the loop breaks the iterator is left at End.
fastRemoveVisit(st, B) ==
    LET ms  == st.ms
        it  == st.it
        A   == ms[it]
        cut == insert(erase(ms, it), truncate(A, B.first, B.last))
        To(new, at) == [ms |-> new, it |-> at]
    IN  IF it = End THEN st
        ELSE IF A.last < B.first THEN To(ms, successor(ms, it))          \* 1
        ELSE IF A.first > B.last THEN To(ms, End)                        \* 5
        ELSE IF A.first >= B.first /\ A.last <= B.last                   \* 3
        THEN To(erase(ms, it), careful(erase(ms, it), B.first))
        ELSE IF A.first < B.first /\ A.last > B.last                     \* 6
        THEN To(insert(cut, MSE(B.last + 1, A.last)), End)
        ELSE To(cut, successor(ms, it))                                  \* 2, 4

\* No range is visited more than twice.
fastRemoveMSE(s, B) ==
    LET turns == 2 * Cardinality(DOMAIN s.ms) + 2
        Visit(st, turn) == fastRemoveVisit(st, B)
        ms == FoldLeft(Visit, [ms |-> s.ms, it |-> careful(s.ms, B.first)],
                       [turn \in 1 .. turns |-> turn]).ms
    IN  IF fastIsEmpty(s) THEN s
        ELSE IF DOMAIN ms = {} THEN EmptyFast
        ELSE Fast(ms, ms[begin(ms)].first, ms[rbegin(ms)].last)

fastDifference(s, other) == FoldLeft(fastRemoveMSE, s, elements(other))

fastOffset(s, m) ==
    FoldLeft(fastAddMSE, EmptyFast,
             [i \in DOMAIN elements(s) |-> offsetMSE(elements(s)[i], m)])

-----------------------------------------------------------------------------
\* Derived sets

\* The loop goes through the same cases as that of SetOfMonads.
fastIntersect(Aset, Bset) ==
    IF fastIsEmpty(Aset) \/ fastIsEmpty(Bset) THEN EmptyFast
      ELSE FoldLeft(fastAddMSE, EmptyFast, commonRanges(elements(Aset), elements(Bset)))

fastFillVisit(st, cur, min_gap) ==
    [som |-> fastAddMSE(st.som, IF isWideGap(st.prev_last, cur, min_gap)
                                  THEN cur ELSE MSE(st.prev_last, cur.last)),
     prev_last |-> cur.last]

fastFillGaps(s, min_gap) ==
    LET Visit(st, cur) == fastFillVisit(st, cur, min_gap)
        e == elements(s)
    IN  IF fastIsEmpty(s) THEN EmptyFast
          ELSE FoldLeft(Visit, [som |-> fastAddMSE(EmptyFast, Head(e)),
                                prev_last |-> Head(e).last], Tail(e)).som

\* The range that monad cuts gets a new first monad but keeps its key.
removeMonadsBefore(s, monad) ==
    LET it   == upper_bound(s.ms, monad - 1)
        prev == predecessor(s.ms, it)
        CutAt(k) == Fast(eraseBefore([s.ms EXCEPT ![k].first = monad], k), monad, s.last)
    IN  IF fastIsEmpty(s) \/ s.last < monad THEN EmptyFast
        ELSE IF s.first > monad - 1 THEN s
        ELSE IF it = End THEN fastAddMSE(EmptyFast, MSE(monad, s.ms[rbegin(s.ms)].last))
        ELSE IF s.ms[it].first = monad THEN CutAt(it)
        ELSE IF s.ms[prev].last < monad
        THEN Fast(eraseBefore(s.ms, it), s.ms[it].first, s.ms[rbegin(s.ms)].last)
        ELSE CutAt(prev)

-----------------------------------------------------------------------------
\* Tests

fastIsMemberOf(s, m) ==
    LET it == upper_bound(s.ms, m - 1)
        e  == s.ms[it]
        prev == s.ms[predecessor(s.ms, it)]
    IN  /\ ~fastIsEmpty(s)
        /\ IF it = End THEN overlapMSE(s.ms[rbegin(s.ms)], MSE(m, m))
           ELSE IF e.first > m
           THEN it # begin(s.ms) /\ prev.first <= m /\ m <= prev.last
           ELSE e.last >= m

fastHasMonadsInRange(s, first, last) ==
    LET it == upper_bound(s.ms, first - 1)
        Overlaps(k) == overlapMSE(s.ms[k], MSE(first, last))
    IN  /\ ~fastIsEmpty(s) /\ s.first <= last /\ s.last >= first
        /\ IF it = End THEN Overlaps(rbegin(s.ms))
           ELSE IF s.ms[it].first > last THEN Overlaps(predecessor(s.ms, it))
           ELSE s.ms[it].first > first \/ Overlaps(it)

fastOverlap(Aset, Bset) ==
    /\ ~isEmpty(Aset) /\ ~fastIsEmpty(Bset)
    /\ \E i \in DOMAIN Aset.mses :
          fastHasMonadsInRange(Bset, Aset.mses[i].first, Aset.mses[i].last)

subsumesRange(s, range) ==
    LET it == upper_bound(s.ms, range.first - 1)
        Subsumes(k) == s.ms[k].first <= range.first /\ range.last <= s.ms[k].last
        within == s.first <= range.first /\ range.last <= s.last
    IN  /\ ~fastIsEmpty(s)
        /\ \/ within /\ Cardinality(DOMAIN s.ms) = 1
           \/ /\ within \/ (s.first <= range.last /\ s.last >= range.first)
              /\ IF it = End THEN Subsumes(rbegin(s.ms))
                 ELSE IF s.ms[it].first > range.last THEN Subsumes(predecessor(s.ms, it))
                 ELSE Subsumes(it)

part_ofFast(s, other) ==
    /\ s.first >= other.first /\ s.last <= other.last
    /\ \/ Cardinality(DOMAIN other.ms) = 1
       \/ \A i \in DOMAIN s.mses : subsumesRange(other, s.mses[i])

fastHasLargerGap(s, than_this) ==
    LET e == elements(s)
    IN  /\ ~fastIsEmpty(s) /\ s.last - s.first >= than_this
        /\ \E i \in 2..Len(e) : e[i].first - e[i-1].last > than_this

\* The first case decides: a key that upper_bound returns is past Sm.
fastGapExists(s, Sm) ==
    LET it == upper_bound(s.ms, Sm)
    IN  IF /\ Sm >= s.first /\ Sm <= s.last /\ Cardinality(DOMAIN s.ms) # 1
           /\ it # End /\ s.ms[predecessor(s.ms, it)].last + 1 = Sm
        THEN s.ms[it].first - 1
        ELSE 0

-----------------------------------------------------------------------------
\* Every pair of sets is once the result of an exchange: the properties below
\* look at each pair there only.
Exchanged == call[1] = "exchange"

\* Every method of FastSetOfMonads does to a set what its namesake does to the
\* same set in SetOfMonads: the same ranges under the right keys and the same
\* cached bounds (what the code asserts after every change), and the same
\* answers; and converting there and back changes nothing.  removeMonadsBefore
\* is held to the ranges and bounds alone: it leaves an old key behind.
\* Distances are such that the moved monads stay below MAX_MONAD.
FastSetsAgree ==
    Exchanged =>
      LET fa == fromSetOfMonads(a)
          fb == fromSetOfMonads(b)
          Ranges == {e \in [first : Monad, last : Monad] : e.first <= e.last}
      IN  /\ toSetOfMonads(fa) = a
          /\ fastUnionWith(fa, fb) = fromSetOfMonads(unionWith(a, b))
          /\ fastDifference(fa, fb) = fromSetOfMonads(difference(a, b))
          /\ fastIntersect(fa, fb) = fromSetOfMonads(intersect(a, b))
          /\ fastOverlap(a, fb) <=> overlap(a, b)
          /\ ~isEmpty(a) => (part_ofFast(a, fb) <=> part_of(a, b))
          /\ \A e \in Ranges :
                /\ fastAddMSE(fa, e) = fromSetOfMonads(addMSE(a, e))
                /\ fastRemoveMSE(fa, e) = fromSetOfMonads(removeMSE(a, e))
                /\ fastHasMonadsInRange(fa, e.first, e.last)
                      <=> hasMonadsInRange(a, e.first, e.last)
          /\ \A m \in Monad :
                /\ fastIsMemberOf(fa, m) <=> isMemberOf(a, m)
                /\ fastGapExists(fa, m) = gapExists(a, m)
                /\ fastHasLargerGap(fa, m) <=> hasLargerGap(a, m)
                /\ fastFillGaps(fa, m) = fromSetOfMonads(fillGaps(a, m))
                /\ ~isEmpty(a) /\ a.last + m < MAX_MONAD
                      => fastOffset(fa, m) = fromSetOfMonads(offset(a, m))
                /\ LET r == removeMonadsBefore(fa, m)
                   IN  SOM(elements(r), r.first, r.last) = removeMSE(a, MSE(0, m - 1))
=============================================================================
