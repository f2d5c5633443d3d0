---------------------------- MODULE CompactMonads ---------------------------
(***************************************************************************)
(* The compact strings in which sets of monads are stored in the database: *)
(* the differences between the ends of the ranges, in base 64, with "z"    *)
(* within a range and "y" between ranges.  The FM form leaves out the      *)
(* first monad, which has a column of its own.                             *)
(*                                                                         *)
(* A character is its distance from '0': a digit, or one of the letters y  *)
(* and z.  A string is a sequence of characters.                           *)
(***************************************************************************)
EXTENDS SetOfMonads

CONSTANT Radix      \* the base: 64

\* Six digits are enough for a monad: 64^6 > MAX_MONAD.
ASSUME RadixAssumption ==
    /\ Radix \in Nat /\ Radix >= 2
    /\ MAX_MONAD < Radix * (Radix * (Radix * (Radix * (Radix * Radix))))

Y == Radix + 9      \* 'y'
Z == Radix + 10     \* 'z'

MaxDigits == 6      \* num2string has six digits, m5 to m0

\* m shifted right by five digits, four, and so on to none.
Shifts(m) ==
    LET m1 == m \div Radix
        m2 == m1 \div Radix
        m3 == m2 \div Radix
        m4 == m3 \div Radix
        m5 == m4 \div Radix
    IN  <<m5, m4, m3, m2, m1, m>>

Digits(m) == [i \in 1 .. MaxDigits |-> Shifts(m)[i] % Radix]

\* Mutant of num2string: bBegun is never set.
num2stringNoZeros(m) == SelectSeq(Digits(m), LAMBDA d : d > 0)

\* No leading zeros, and nothing at all for 0.
num2string(m) ==
    LET begun == SelectInSeq(Digits(m), LAMBDA d : d > 0)
    IN  IF begun = 0 THEN << >> ELSE SubSeq(Digits(m), begun, MaxDigits)

prevLast(s, i) == IF i = 1 THEN 0 ELSE s.mses[i - 1].last

RangeString(s, i) ==
    num2string(s.mses[i].first - prevLast(s, i))
    \o (IF s.mses[i].last = s.mses[i].first THEN << >>
          ELSE <<Z>> \o num2string(s.mses[i].last - s.mses[i].first))

\* What the loop over the ranges writes, a range at a time.
Concat(str, t) == str \o t
WithSeparators(strings) ==
    FoldLeft(Concat, << >>,
             [i \in DOMAIN strings |-> (IF i = 1 THEN << >> ELSE <<Y>>) \o strings[i]])

toCompactString(s) == WithSeparators([i \in DOMAIN s.mses |-> RangeString(s, i)])

toCompactStringFM(s) ==
    IF isEmpty(s) THEN <<Z, Z>>
      ELSE WithSeparators([i \in DOMAIN s.mses |->
             IF i = 1 THEN num2string(s.mses[1].last - s.mses[1].first)
                      ELSE RangeString(s, i)])

\* One character: a separator ends the number cur, which is a difference to
\* prev.
Decode(st, c) ==
    CASE c = Y -> IF st.separator = Y
                    THEN [st EXCEPT !.som = addRange(@, st.cur + st.prev, st.cur + st.prev),
                                    !.first = st.cur + st.prev,
                                    !.prev = st.cur + st.prev, !.cur = 0]
                    ELSE [st EXCEPT !.som = addRange(@, st.first, st.cur + st.prev),
                                    !.prev = st.cur + st.prev, !.cur = 0, !.separator = Y]
      [] c = Z -> [st EXCEPT !.first = st.cur + st.prev, !.prev = st.cur + st.prev,
                             !.cur = 0, !.separator = Z]
      [] OTHER -> [st EXCEPT !.cur = @ * Radix + c]

fromCompactString(str) ==
    LET end == FoldLeft(Decode, [som |-> EmptySOM, prev |-> 0, first |-> 0, cur |-> 0,
                                 separator |-> Y], str)
        last == end.cur + end.prev
    IN  IF str = << >> THEN EmptySOM
          ELSE addRange(end.som, IF end.separator = Y THEN last ELSE end.first, last)

\* Where the number that starts at i ends, and its value.
EndOfNumber(str, i) ==
    Min({j \in i .. Len(str) : str[j] \in {Y, Z}} \cup {Len(str) + 1})
ShiftIn(n, d) == n * Radix + d
Number(str, i) == FoldLeft(ShiftIn, 0, SubSeq(str, i, EndOfNumber(str, i) - 1))

\* A range after the first: a number, and another one after z.
ReadRange(str, st) ==
    LET e == EndOfNumber(str, st.i)
        wide == e <= Len(str) /\ str[e] = Z
        first == st.prev + Number(str, st.i)
        last == first + (IF wide THEN Number(str, e + 1) ELSE 0)
    IN  IF st.i > Len(str) THEN st
          ELSE [i |-> 1 + (IF wide THEN EndOfNumber(str, e + 1) ELSE e),
                prev |-> last,
                som |-> addRange(st.som, first, last)]

\* Every turn of the loop reads a character at least.
fromCompactStringFM(str, first_monad) ==
    LET last == first_monad + Number(str, 1)
        Turn(st, c) == ReadRange(str, st)
    IN  CASE str = <<Z, Z>> -> EmptySOM
          [] str = << >> -> addRange(EmptySOM, first_monad, first_monad)
          [] OTHER -> FoldLeft(Turn, [i |-> EndOfNumber(str, 1) + 1, prev |-> last,
                                      som |-> addRange(EmptySOM, first_monad, last)],
                               str).som

\* What is stored for a set of monads in either form is read back as that set,
\* in the same representation, whatever ranges it has and however many digits
\* its differences need.
CompactStringsDecode ==
    /\ fromCompactString(toCompactString(a)) = a
    /\ fromCompactStringFM(toCompactStringFM(a), a.first) = a
=============================================================================
