------------------------------- MODULE Monads -------------------------------
(***************************************************************************)
(* The algorithms of class SetOfMonads (src/EMdF/monads.cpp).              *)
(*                                                                         *)
(* A set of monads is kept as a list of closed ranges (MonadSetElement)    *)
(* with two cached bounds, m_first and m_last.  The methods never look at  *)
(* single monads: they walk the list, or two lists side by side, and rely  *)
(* on the class invariant that the ranges ascend and never touch.          *)
(*                                                                         *)
(* A loop over one list is a fold (with a flag where the loop breaks), a   *)
(* search is SelectInSeq, and a loop over two lists is a recursive         *)
(* function of the two positions.                                          *)
(***************************************************************************)
EXTENDS Integers, Sequences, SequencesExt, FiniteSetsExt

CONSTANT MAX_MONAD      \* m_first of the empty set; above every monad

ASSUME MaxMonadAssumption == MAX_MONAD \in Nat \ {0}

-----------------------------------------------------------------------------
\* MonadSetElement

MSE(first, last) == [first |-> first, last |-> last]

lesser(x, y) == IF x < y THEN x ELSE y

greater(x, y) == IF x > y THEN x ELSE y

subsume(m, o) == MSE(lesser(m.first, o.first), greater(m.last, o.last))

truncate(m, other_first, other_last) ==
    IF m.first < other_first THEN [m EXCEPT !.last = other_first - 1]
    ELSE IF m.last > other_last THEN [m EXCEPT !.first = other_last + 1]
    ELSE m

\* Mutant of adjacent: only a right neighbour counts.
adjacentRightOnly(m, b) == m.last + 1 = b.first

adjacent(m, b) == m.last + 1 = b.first \/ b.last + 1 = m.first

overlapMSE(m, b) == m.last >= b.first /\ m.first <= b.last

past(m, b) == m.first > b.last + 1

offsetMSE(m, n) == MSE(m.first + n, m.last + n)

-----------------------------------------------------------------------------
\* SetOfMonads: construction and change

SOM(mses, first, last) == [mses |-> mses, first |-> first, last |-> last]

EmptySOM == SOM(<< >>, MAX_MONAD, 0)

isEmpty(s) == s.mses = << >>

hasOnlyOneMSE(s) == Len(s.mses) = 1

\* The "insert carefully" loop: erase what touches the new element, stop at
\* the first element past it, and insert it there.
insertVisit(st, e) ==
    IF st.stopped THEN [st EXCEPT !.rest = Append(@, e)]
    ELSE IF overlapMSE(st.cur, e) \/ adjacent(st.cur, e)
         THEN [st EXCEPT !.cur = subsume(@, e)]
    ELSE IF past(e, st.cur)
         THEN [st EXCEPT !.stopped = TRUE, !.rest = <<e>>]
    ELSE [st EXCEPT !.before = Append(@, e)]

insertCarefully(mses, mse) ==
    LET end == FoldLeft(insertVisit, [before |-> << >>, cur |-> mse, rest |-> << >>,
                                      stopped |-> FALSE], mses)
    IN  end.before \o <<end.cur>> \o end.rest

addMSE(s, mse) ==
    LET back == Last(s.mses)
        mses == IF isEmpty(s) \/ mse.first > s.last + 1
                THEN Append(s.mses, mse)
                ELSE IF mse.first >= back.first
                THEN [s.mses EXCEPT ![Len(s.mses)] = subsume(@, mse)]
                ELSE IF mse.last = s.first - 1
                THEN [s.mses EXCEPT ![1] = subsume(@, mse)]
                ELSE insertCarefully(s.mses, mse)
    IN  SOM(mses, lesser(mse.first, s.first), greater(mse.last, s.last))

addRange(s, first, last) == addMSE(s, MSE(first, last))

unionWith(s, other) == FoldLeft(addMSE, s, other.mses)

\* The six cases of one element A against the removed range B.  After case 5
\* or case 6 the loop breaks and the remaining elements are kept as they are.
removeVisit(st, A, B) ==
    IF st.stopped \/ A.last < B.first                                    \* 1
    THEN [st EXCEPT !.out = Append(@, A)]
    ELSE IF A.first > B.last                                             \* 5
    THEN [out |-> Append(st.out, A), stopped |-> TRUE]
    ELSE IF A.first >= B.first /\ A.last <= B.last                       \* 3
    THEN st
    ELSE IF A.first < B.first /\ A.last > B.last                         \* 6
    THEN [out |-> st.out \o <<truncate(A, B.first, B.last),
                              MSE(B.last + 1, A.last)>>,
          stopped |-> TRUE]
    ELSE [st EXCEPT !.out =                                              \* 2, 4
                    Append(@, truncate(A, B.first, B.last))]

removeMSE(s, B) ==
    LET Visit(st, A) == removeVisit(st, A, B)
        mses == FoldLeft(Visit, [out |-> << >>, stopped |-> FALSE], s.mses).out
    IN  IF isEmpty(s) THEN s
        ELSE IF mses = << >> THEN EmptySOM
        ELSE SOM(mses, Head(mses).first, Last(mses).last)

difference(s, other) == FoldLeft(removeMSE, s, other.mses)

\* The cached bounds are moved even when there is no element to move.
offset(s, m) == SOM([i \in DOMAIN s.mses |-> offsetMSE(s.mses[i], m)],
                    s.first + m, s.last + m)

clear(s) == EmptySOM

-----------------------------------------------------------------------------
\* SetOfMonads: derived sets

\* Where two iterators may be that walk along the lists a and b.
Positions(a, b) == (1 .. Len(a) + 1) \X (1 .. Len(b) + 1)

\* The stretches that two lists of ranges share.  go[<<i, j>>]: those still to
\* be added once iterator A is at i and B at j.
commonRanges(a, b) ==
    LET go[p \in Positions(a, b)] ==
            LET A == a[p[1]]
                B == b[p[2]]
                nextA == go[<<p[1] + 1, p[2]>>]
                nextB == go[<<p[1], p[2] + 1>>]
            IN  IF p[1] > Len(a) \/ p[2] > Len(b) THEN << >>
                ELSE IF A.last < B.first THEN nextA                      \* 1
                ELSE IF A.first > B.last THEN nextB                      \* 5
                ELSE IF A.first >= B.first /\ A.last <= B.last           \* 3
                THEN <<A>> \o nextA
                ELSE IF A.first < B.first /\ A.last > B.last             \* 6
                THEN <<B>> \o nextB
                ELSE IF A.first < B.first                                \* 2
                THEN <<MSE(B.first, A.last)>> \o nextA
                ELSE <<MSE(A.first, B.last)>> \o nextB                   \* 4
    IN  go[<<1, 1>>]

intersect(Aset, Bset) ==
    IF isEmpty(Aset) \/ isEmpty(Bset) THEN EmptySOM
      ELSE FoldLeft(addMSE, EmptySOM, commonRanges(Aset.mses, Bset.mses))

\* Mutant of isWideGap: a gap of exactly min_gap monads is filled too.
isWiderGap(prev_last, cur, min_gap) == cur.first - prev_last - 1 > min_gap

isWideGap(prev_last, cur, min_gap) == cur.first - prev_last - 1 >= min_gap

fillVisit(st, cur, min_gap) ==
    [som |-> IF isWideGap(st.prev_last, cur, min_gap)
             THEN addMSE(st.som, cur)
             ELSE addRange(st.som, st.prev_last, cur.last),
     prev_last |-> cur.last]

fillGaps(s, min_gap) ==
    LET Visit(st, cur) == fillVisit(st, cur, min_gap)
    IN  IF isEmpty(s) THEN EmptySOM
        ELSE FoldLeft(Visit, [som |-> addMSE(EmptySOM, Head(s.mses)),
                              prev_last |-> Head(s.mses).last],
                      Tail(s.mses)).som

gapVisit(st, cur) ==
    [som |-> addRange(st.som, st.prev_last + 1, cur.first - 1),
     prev_last |-> cur.last]

getGaps(s) ==
    IF isEmpty(s) THEN EmptySOM
    ELSE FoldLeft(gapVisit, [som |-> EmptySOM, prev_last |-> Head(s.mses).last],
                  Tail(s.mses)).som

\* What becomes of an element A when the range first..last is inserted.
moved(A, first, last) ==
    IF A.last < first THEN A                                             \* 1
    ELSE IF A.first > last THEN offsetMSE(A, last - first + 1)           \* 5
    ELSE MSE(lesser(A.first, first), A.last + (last - first + 1))        \* 2, 3, 4, 6

\* Mutant of fillInsertRange: a set behind the insertion point is not moved.
fillInsertRangeBefore(s, first, last) ==
    LET Visit(r, A) == addMSE(r, moved(A, first, last))
    IN  IF s.last < first \/ s.first >= last THEN s
        ELSE addRange(FoldLeft(Visit, EmptySOM, s.mses), first, last)

fillInsertRange(s, first, last) ==
    LET Visit(r, A) == addMSE(r, moved(A, first, last))
    IN  IF s.last < first THEN s
        ELSE IF s.first >= last THEN offset(s, last - first + 1)
        ELSE addRange(FoldLeft(Visit, EmptySOM, s.mses), first, last)

-----------------------------------------------------------------------------
\* SetOfMonads: tests

\* Mutant of part_of: the shortcut for a one-element other is taken for every
\* other, so only the cached bounds are compared.
part_ofByBounds(s, other) == s.first >= other.first /\ s.last <= other.last

\* Undefined where both bounds tests pass, other has several elements and s
\* is empty: the code then reads the current element of an empty list.
part_of(s, other) ==
    LET a == s.mses
        b == other.mses
        go[p \in Positions(a, b)] ==
            LET A == a[p[1]]
                B == b[p[2]]
            IN  IF p[1] > Len(a) \/ p[2] > Len(b) THEN p[1] > Len(a)
                ELSE IF A.last < B.first THEN FALSE                      \* 1
                ELSE IF A.first > B.last THEN go[<<p[1], p[2] + 1>>]     \* 5
                ELSE IF A.first >= B.first /\ A.last <= B.last           \* 3
                THEN go[<<p[1] + 1, p[2]>>]
                ELSE FALSE                                               \* 2, 4, 6
    IN  /\ s.first >= other.first
        /\ s.last <= other.last
        /\ hasOnlyOneMSE(other) \/ go[<<1, 1>>]

overlap(Aset, Bset) ==
    LET a == Aset.mses
        b == Bset.mses
        go[p \in Positions(a, b)] ==
            LET A == a[p[1]]
                B == b[p[2]]
            IN  IF p[1] > Len(a) \/ p[2] > Len(b) THEN FALSE
                ELSE IF A.last < B.first THEN go[<<p[1] + 1, p[2]>>]     \* 1
                ELSE IF A.first > B.last THEN go[<<p[1], p[2] + 1>>]     \* 5
                ELSE TRUE                                                \* 2, 3, 4, 6
    IN  ~isEmpty(Aset) /\ ~isEmpty(Bset) /\ go[<<1, 1>>]

\* The first element that contains m or lies after it decides.
isMemberOf(s, m) ==
    LET i == SelectInSeq(s.mses, LAMBDA e : m <= e.last \/ m < e.first)
    IN  i # 0 /\ m >= s.mses[i].first

starts_in(s, other) == isMemberOf(other, s.first)

hasMonadsInRange(s, first, last) ==
    LET i == SelectInSeq(s.mses, LAMBDA e :
                 overlapMSE(e, MSE(first, last)) \/ last < e.first)
    IN  i # 0 /\ overlapMSE(s.mses[i], MSE(first, last))

\* Mutant of isMemberOfHint: the search never goes back to the beginning.
isMemberOfHintForward(s, m, hint) ==
    LET n     == Len(s.mses)
        stops == {i \in hint..n : s.mses[i].last >= m}
        at    == IF stops = {} THEN n + 1 ELSE Min(stops)
    IN  IF m > s.last THEN [answer |-> FALSE, hint |-> n + 1]
        ELSE [answer |-> at <= n /\ s.mses[at].first <= m, hint |-> at]

\* The hint is a position in the list; the result is the answer together with
\* the position the hint is left at.  It is undefined for a hint past the end
\* when m is not behind the set: the code reads the element at the hint.
isMemberOfHint(s, m, hint) ==
    LET n     == Len(s.mses)
        start == IF s.mses[hint].first > m THEN 1 ELSE hint
        stops == {i \in start..n : s.mses[i].last >= m}
        at    == IF stops = {} THEN n + 1 ELSE Min(stops)
    IN  IF m > s.last THEN [answer |-> FALSE, hint |-> n + 1]
        ELSE [answer |-> at <= n /\ s.mses[at].first <= m, hint |-> at]

\* Mutant of hasLargerGap: off by one.
hasLargeGap(s, than_this) ==
    /\ ~isEmpty(s)
    /\ s.last - s.first >= than_this
    /\ \E i \in 2..Len(s.mses) :
          s.mses[i].first - s.mses[i-1].last >= than_this

hasLargerGap(s, than_this) ==
    /\ ~isEmpty(s)
    /\ s.last - s.first >= than_this
    /\ \E i \in 2..Len(s.mses) :
          s.mses[i].first - s.mses[i-1].last > than_this

\* The end of the gap that starts at Sm, or 0 where no gap starts there.
gapExists(s, Sm) ==
    LET i == SelectInSeq(s.mses, LAMBDA e : Sm <= e.last + 1 /\ Sm # e.last)
    IN  IF /\ Sm >= s.first /\ Sm <= s.last
           /\ i # 0 /\ Sm = s.mses[i].last + 1
        THEN s.mses[i+1].first - 1
        ELSE 0
=============================================================================
