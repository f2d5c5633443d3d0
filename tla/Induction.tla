------------------------------ MODULE Induction ------------------------------
(***************************************************************************)
(* Induction and recursion on natural numbers, with sets in the place of   *)
(* predicates and functions in the place of operators: what the proofs     *)
(* about recursive functions rest on.                                      *)
(***************************************************************************)
EXTENDS Integers, WellFoundedInduction, TLAPS

\* A set of natural numbers has a least element.
LEMMA LeastNatural ==
    ASSUME NEW S \in SUBSET Nat, S # {}
    PROVE  \E i \in S : \A j \in S : i <= j
  <1>1. IsWellFoundedOn({ss \in Nat \X Nat : ss[1] < ss[2]}, Nat)
    BY NatLessThanWellFounded, Zenon DEF OpToRel
  <1> DEFINE R == {ss \in Nat \X Nat : ss[1] < ss[2]}
  <1>2. \A i, j \in Nat : j < i => <<j, i>> \in R
    OBVIOUS
  <1>3. IsWellFoundedOn(R, Nat)
    BY <1>1
  <1> HIDE DEF R
  <1>4. \E i \in S : \A j \in S : ~(<<j, i>> \in R)
    BY <1>3, WFMin
  <1>5. PICK i \in S : \A j \in S : ~(<<j, i>> \in R)
    BY <1>4
  <1>6. \A j \in S : ~(j < i)
    BY <1>2, <1>5
  <1>7. \A j \in S : i <= j
    BY <1>6
  <1> QED  BY <1>7

\* A set of positions in a list has a greatest element.
LEMMA GreatestUpTo ==
    ASSUME NEW n \in Nat, NEW x \in SUBSET (1 .. n), x # {}
    PROVE  \E y \in x : \A z \in x : z <= y
  <1> DEFINE R == {n - y : y \in x}
  <1>1. R \in SUBSET Nat /\ R # {}
    <2>1. \A y \in x : n - y \in Nat
      OBVIOUS
    <2> QED  BY <2>1
  <1> HIDE DEF R
  <1>2. PICK r \in R : \A s \in R : r <= s
    BY <1>1, LeastNatural
  <1>3. PICK y \in x : r = n - y
    BY <1>2 DEF R
  <1>4. \A z \in x : n - y <= n - z
    BY <1>2, <1>3 DEF R
  <1>5. \A z \in x : z <= y
    BY <1>4
  <1> QED  BY <1>5

\* Induction over 0..m: the numbers for which something holds are a set.
LEMMA UpTo ==
    ASSUME NEW m \in Nat, NEW S, 0 \in S, \A n \in 1 .. m : n - 1 \in S => n \in S
    PROVE  \A n \in 0 .. m : n \in S
  <1> DEFINE T == {n \in 0 .. m : n \notin S}
  <1>1. SUFFICES ASSUME T # {} PROVE FALSE
    OBVIOUS
  <1>2. T \in SUBSET Nat
    OBVIOUS
  <1> HIDE DEF T
  <1>3. PICK i \in T : \A j \in T : i <= j
    BY <1>1, <1>2, LeastNatural
  <1>4. i \in 1 .. m /\ i \notin S
    BY <1>3 DEF T
  <1>5. i - 1 \in 0 .. m /\ i - 1 \notin T
    BY <1>2, <1>3, <1>4
  <1> QED  BY <1>4, <1>5 DEF T

\* The same in one formula: the hypothesis Inductive of module Loops.
LEMMA NumbersInduct ==
    \A m \in Nat : \A S :
       0 \in S /\ (\A n \in 1 .. m : n - 1 \in S => n \in S) => \A n \in 0 .. m : n \in S
  BY UpTo

\* f, on 0..m, is given by its first value and a step.
Recurses(f, m, S, s0, step) ==
    /\ f \in [0 .. m -> S]
    /\ f[0] = s0
    /\ \A n \in 1 .. m : f[n] = step[n][f[n - 1]]

\* There is a function on 0..m with a given first value and step.
LEMMA Recursion ==
    ASSUME NEW m \in Nat, NEW S, NEW s0 \in S, NEW step \in [1 .. m -> [S -> S]]
    PROVE  \E f : Recurses(f, m, S, s0, step)
  <1> DEFINE P(k) == \E f \in [0 .. k -> S] :
                        f[0] = s0 /\ \A n \in 1 .. k : f[n] = step[n][f[n - 1]]
             Q == {k \in 0 .. m : P(k)}
  <1>1. 0 \in Q
    <2> DEFINE g == [n \in 0 .. 0 |-> s0]
    <2>1. g \in [0 .. 0 -> S] /\ g[0] = s0 /\ \A n \in 1 .. 0 : g[n] = step[n][g[n - 1]]
      OBVIOUS
    <2> HIDE DEF g
    <2>2. P(0)
      BY <2>1
    <2> HIDE DEF P
    <2> QED  BY <2>2
  <1>2. ASSUME NEW k \in 1 .. m, k - 1 \in Q PROVE k \in Q
    <2>1. PICK f \in [0 .. k - 1 -> S] :
             f[0] = s0 /\ \A n \in 1 .. k - 1 : f[n] = step[n][f[n - 1]]
      BY <1>2
    <2> DEFINE g == [n \in 0 .. k |-> IF n = k THEN step[k][f[k - 1]] ELSE f[n]]
    <2>2. f[k - 1] \in S
      BY <2>1
    <2>3. step[k][f[k - 1]] \in S
      BY <2>2
    <2>4. g \in [0 .. k -> S]
      BY <2>1, <2>3
    <2>5. g[0] = s0
      BY <2>1
    <2>6. \A n \in 1 .. k : g[n] = step[n][g[n - 1]]
      BY <2>1
    <2> HIDE DEF g
    <2>7. P(k)
      BY <2>4, <2>5, <2>6
    <2> HIDE DEF P
    <2> QED  BY <2>7
  <1> HIDE DEF Q
  <1>3. \A k \in 0 .. m : k \in Q
    BY <1>1, <1>2, UpTo
  <1>4. m \in Q
    BY <1>3
  <1> QED  BY <1>4 DEF Q, Recurses
=============================================================================
