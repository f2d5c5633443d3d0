-------------------------------- MODULE Loops --------------------------------
(***************************************************************************)
(* What a loop computes, for every loop body: the recursive functions by   *)
(* which a fold over a list and a walk along two lists are defined have    *)
(* the values that their recursion says.  The bodies are parameters, for   *)
(* the proofs to instantiate: Step is the body of a fold, which may look   *)
(* at two arguments of its method; Cross is the body of a walk, and Border *)
(* its value where one of the lists has ended.                             *)
(*                                                                         *)
(* The module is instantiated for every loop, so it extends little: that   *)
(* induction holds is a hypothesis of its lemmas (Inductive), which module *)
(* Induction proves, and Greatest stands for Max of FiniteSetsExt.         *)
(***************************************************************************)
EXTENDS Integers, Sequences, TLAPS

CONSTANTS
    Step(_, _, _, _),   \* the state, the element and the two arguments
    Border(_, _),       \* the position in the first list and its length
    Cross(_, _, _, _)   \* an element of each list, the values one step on

\* Induction over 0..m: the numbers for which something holds are a set.
Inductive ==
    \A m \in Nat : \A S :
       0 \in S /\ (\A n \in 1 .. m : n - 1 \in S => n \in S) => \A n \in 0 .. m : n \in S

\* The same as a rule.
LEMMA InductionTo ==
    ASSUME Inductive, NEW m \in Nat, NEW S, 0 \in S,
           \A n \in 1 .. m : n - 1 \in S => n \in S
    PROVE  \A n \in 0 .. m : n \in S
  BY Zenon DEF Inductive

-----------------------------------------------------------------------------
\* Folds over a list

Greatest(S) == CHOOSE x \in S : \A y \in S : x >= y

\* The greatest member of a set of positions.
LEMMA GreatestPosition ==
    ASSUME Inductive, NEW n \in Nat, NEW x \in SUBSET (1 .. n), x # {}
    PROVE  Greatest(x) \in x /\ \A y \in x : y <= Greatest(x)
  <1> DEFINE HasGreatest(z) == \E w \in z : \A v \in z : w >= v
             T == {k \in 0 .. n : \A z \in SUBSET (1 .. k) : z # {} => HasGreatest(z)}
  <1>1. 0 \in T
    <2>1. 0 \in 0 .. n /\ \A z \in SUBSET (1 .. 0) : z = {}
      OBVIOUS
    <2> HIDE DEF HasGreatest
    <2> QED  BY <2>1
  <1>2. ASSUME NEW k \in 1 .. n, k - 1 \in T PROVE k \in T
    <2>1. ASSUME NEW z \in SUBSET (1 .. k), z # {} PROVE HasGreatest(z)
      <3>1. CASE k \in z
        <4>1. \A v \in z : k >= v
          OBVIOUS
        <4> QED  BY <3>1, <4>1
      <3>2. CASE k \notin z
        <4>1. z \in SUBSET (1 .. (k - 1))
          BY <3>2
        <4> QED  BY <1>2, <2>1, <4>1
      <3> QED  BY <3>1, <3>2
    <2> HIDE DEF HasGreatest
    <2> QED  BY <2>1
  <1>3. n \in T
    <2> HIDE DEF T
    <2>1. \A k \in 0 .. n : k \in T
      BY <1>1, <1>2, InductionTo
    <2> QED  BY <2>1
  <1>4. HasGreatest(x)
    BY <1>3
  <1>5. Greatest(x) \in x /\ \A y \in x : Greatest(x) >= y
    BY <1>4, Zenon DEF Greatest
  <1> QED  BY <1>5

\* The positions up to k, for the k-th step of a fold.
LEMMA FirstPositions ==
    ASSUME Inductive, NEW n \in Nat, NEW k \in 1 .. n
    PROVE  /\ (1 .. k) \in SUBSET (1 .. n)
           /\ (1 .. k) # {}
           /\ Greatest(1 .. k) = k
           /\ (1 .. k) \ {k} = 1 .. (k - 1)
  <1> DEFINE x == 1 .. k
  <1>1. x \in SUBSET (1 .. n) /\ x # {} /\ k \in x /\ \A y \in x : y \in Nat /\ y <= k
    OBVIOUS
  <1>2. x \ {k} = 1 .. (k - 1)
    OBVIOUS
  <1> HIDE DEF x
  <1>3. Greatest(x) \in x /\ \A y \in x : y <= Greatest(x)
    BY <1>1, GreatestPosition
  <1>4. Greatest(x) \in Nat /\ Greatest(x) <= k /\ k <= Greatest(x)
    BY <1>1, <1>3
  <1>5. Greatest(x) = k
    BY <1>4
  <1> QED  BY <1>1, <1>2, <1>5 DEF x

\* The greatest of some positions among which is the last.
LEMMA GreatestOfTop ==
    ASSUME Inductive, NEW k \in Nat, NEW x \in SUBSET (1 .. k), k \in x
    PROVE  Greatest(x) = k
  <1>1. Greatest(x) \in x /\ \A y \in x : y <= Greatest(x)
    BY GreatestPosition
  <1> DEFINE M == Greatest(x)
  <1>2. M \in 1 .. k /\ k <= M
    BY <1>1
  <1> HIDE DEF M
  <1>3. M = k
    BY <1>2
  <1> QED  BY <1>3 DEF M

\* The function that FoldLeft defines for the first n elements of q, and the
\* one it takes for all of them.
Fold(f, q, n, base, arg1, arg2) ==
    f = [x \in SUBSET (1 .. n) |->
           IF x = {} THEN base ELSE Step(f[x \ {Greatest(x)}], q[Greatest(x)], arg1, arg2)]

Run(q, base, arg1, arg2) == CHOOSE f : Fold(f, q, Len(q), base, arg1, arg2)

\* There is such a function.
LEMMA FoldExists ==
    ASSUME Inductive, NEW q, NEW n \in Nat, NEW base, NEW arg1, NEW arg2
    PROVE  \E f : Fold(f, q, n, base, arg1, arg2)
  <1> DEFINE S == {k \in 0 .. n : \E f : Fold(f, q, k, base, arg1, arg2)}
  <1>1. 0 \in S
    <2> DEFINE f == [x \in SUBSET (1 .. 0) |-> base]
    <2>1. f = [x \in SUBSET (1 .. 0) |->
                 IF x = {} THEN base ELSE Step(f[x \ {Greatest(x)}], q[Greatest(x)], arg1, arg2)]
      OBVIOUS
    <2>2. Fold(f, q, 0, base, arg1, arg2)
      BY <2>1, Zenon DEF Fold
    <2> HIDE DEF f
    <2>3. \E h : Fold(h, q, 0, base, arg1, arg2)
      BY <2>2, Zenon
    <2> QED  BY <2>3
  <1>2. ASSUME NEW k \in 1 .. n, k - 1 \in S PROVE k \in S
    <2>1. PICK f : Fold(f, q, k - 1, base, arg1, arg2)
      BY <1>2
    <2>2. ASSUME NEW x \in SUBSET (1 .. (k - 1))
          PROVE  f[x] = IF x = {} THEN base
                        ELSE Step(f[x \ {Greatest(x)}], q[Greatest(x)], arg1, arg2)
      BY <2>1, Zenon DEF Fold
    <2> DEFINE g == [x \in SUBSET (1 .. k) |->
                       IF k \in x THEN Step(f[x \ {k}], q[k], arg1, arg2) ELSE f[x]]
    <2>3. \A x \in SUBSET (1 .. k) : k \notin x => x \in SUBSET (1 .. (k - 1))
      OBVIOUS
    <2>4. \A x \in SUBSET (1 .. k) : k \notin x => g[x] = f[x]
      BY Zenon
    <2>5. \A x \in SUBSET (1 .. k) : k \in x => g[x] = Step(f[x \ {k}], q[k], arg1, arg2)
      BY Zenon
    <2> HIDE DEF g
    <2>6. ASSUME NEW x \in SUBSET (1 .. k)
          PROVE  (IF k \in x THEN Step(f[x \ {k}], q[k], arg1, arg2) ELSE f[x])
                    = IF x = {} THEN base ELSE Step(g[x \ {Greatest(x)}], q[Greatest(x)], arg1, arg2)
      <3>1. CASE k \in x
        <4>1. Greatest(x) = k
          BY <3>1, GreatestOfTop
        <4>2. x \ {k} \in SUBSET (1 .. k) /\ k \notin x \ {k} /\ x # {}
          BY <3>1
        <4>3. g[x \ {k}] = f[x \ {k}]
          BY <2>4, <4>2
        <4> QED  BY <3>1, <4>1, <4>2, <4>3, Zenon
      <3>2. CASE k \notin x
        <4>1. x \in SUBSET (1 .. (k - 1))
          BY <2>3, <3>2
        <4>2. f[x] = IF x = {} THEN base
                     ELSE Step(f[x \ {Greatest(x)}], q[Greatest(x)], arg1, arg2)
          BY <2>2, <4>1
        <4>3. x \ {Greatest(x)} \in SUBSET (1 .. k) /\ k \notin x \ {Greatest(x)}
          BY <3>2
        <4>4. g[x \ {Greatest(x)}] = f[x \ {Greatest(x)}]
          BY <2>4, <4>3
        <4> QED  BY <3>2, <4>2, <4>4, Zenon
      <3> QED  BY <3>1, <3>2
    <2>7. g = [x \in SUBSET (1 .. k) |->
                 IF x = {} THEN base ELSE Step(g[x \ {Greatest(x)}], q[Greatest(x)], arg1, arg2)]
      <3>1. [x \in SUBSET (1 .. k) |-> IF k \in x THEN Step(f[x \ {k}], q[k], arg1, arg2) ELSE f[x]]
               = [x \in SUBSET (1 .. k) |->
                    IF x = {} THEN base ELSE Step(g[x \ {Greatest(x)}], q[Greatest(x)], arg1, arg2)]
        BY <2>6, Zenon
      <3>2. g = [x \in SUBSET (1 .. k) |->
                   IF k \in x THEN Step(f[x \ {k}], q[k], arg1, arg2) ELSE f[x]]
        BY Zenon DEF g
      <3> QED  BY <3>1, <3>2, Zenon
    <2>8. \E h : Fold(h, q, k, base, arg1, arg2)
      BY <2>7, Zenon DEF Fold
    <2> QED  BY <2>8
  <1> HIDE DEF S
  <1>3. \A k \in 0 .. n : k \in S
    BY <1>1, <1>2, InductionTo
  <1>4. n \in S
    BY <1>3
  <1> QED  BY <1>4 DEF S

\* It has the values that the loop computes, element by element.
LEMMA FoldChain ==
    ASSUME Inductive, NEW q, Len(q) \in Nat, NEW base, NEW arg1, NEW arg2
    PROVE  /\ Run(q, base, arg1, arg2)[1 .. 0] = base
           /\ \A k \in 1 .. Len(q) :
                 Run(q, base, arg1, arg2)[1 .. k]
                    = Step(Run(q, base, arg1, arg2)[1 .. (k - 1)], q[k], arg1, arg2)
  <1> DEFINE n == Len(q)
             r == Run(q, base, arg1, arg2)
  <1> HIDE DEF n
  <1>1. n \in Nat
    BY DEF n
  <1>2. \E f : Fold(f, q, n, base, arg1, arg2)
    BY <1>1, FoldExists
  <1>3. Fold(r, q, n, base, arg1, arg2)
    BY <1>2, Zenon DEF Run, n
  <1> HIDE DEF r
  <1>4. r[1 .. 0] = base
    <2>1. 1 .. 0 = {} /\ {} \in SUBSET (1 .. n)
      OBVIOUS
    <2> QED  BY <1>3, <2>1, Zenon DEF Fold
  <1>5. ASSUME NEW k \in 1 .. n PROVE r[1 .. k] = Step(r[1 .. (k - 1)], q[k], arg1, arg2)
    <2> DEFINE y == 1 .. k
    <2>1. y \in SUBSET (1 .. n) /\ y # {} /\ Greatest(y) = k /\ y \ {k} = 1 .. (k - 1)
      BY <1>1, FirstPositions
    <2> HIDE DEF y
    <2>2. r[y] = Step(r[y \ {Greatest(y)}], q[Greatest(y)], arg1, arg2)
      BY <1>3, <2>1, Zenon DEF Fold
    <2> QED  BY <2>1, <2>2 DEF y
  <1> QED  BY <1>4, <1>5 DEF r, n

\* A fold over a list with one more element is one more step.
LEMMA FoldAppend ==
    ASSUME Inductive, NEW S, NEW q \in Seq(S), NEW c \in S,
           NEW base, NEW arg1, NEW arg2
    PROVE  Run(Append(q, c), base, arg1, arg2)[1 .. (Len(q) + 1)]
              = Step(Run(q, base, arg1, arg2)[1 .. Len(q)], c, arg1, arg2)
  <1> DEFINE p == Append(q, c)
             n == Len(q)
             f == Run(q, base, arg1, arg2)
             g == Run(p, base, arg1, arg2)
             T == {k \in 0 .. n : g[1 .. k] = f[1 .. k]}
  <1>1. n \in Nat /\ Len(p) = n + 1 /\ p[n + 1] = c /\ \A k \in 1 .. n : p[k] = q[k]
    OBVIOUS
  <1>2. /\ f[1 .. 0] = base
        /\ \A k \in 1 .. n : f[1 .. k] = Step(f[1 .. (k - 1)], q[k], arg1, arg2)
    BY <1>1, FoldChain
  <1>3. /\ g[1 .. 0] = base
        /\ \A k \in 1 .. Len(p) : g[1 .. k] = Step(g[1 .. (k - 1)], p[k], arg1, arg2)
    <2>1. Len(p) \in Nat
      BY <1>1
    <2> HIDE DEF p
    <2> QED  BY <2>1, FoldChain
  <1>4. /\ \A k \in 1 .. n : g[1 .. k] = Step(g[1 .. (k - 1)], q[k], arg1, arg2)
        /\ g[1 .. (n + 1)] = Step(g[1 .. n], c, arg1, arg2)
    <2>1. n + 1 \in 1 .. Len(p) /\ (n + 1) - 1 = n /\ \A k \in 1 .. n : k \in 1 .. Len(p)
      BY <1>1
    <2> HIDE DEF p, n, f, g
    <2>2. g[1 .. (n + 1)] = Step(g[1 .. ((n + 1) - 1)], p[n + 1], arg1, arg2)
      BY <1>3, <2>1
    <2> QED  BY <1>1, <1>3, <2>1, <2>2
  <1> HIDE DEF n, p, f, g
  <1>5. 0 \in T
    BY <1>1, <1>2, <1>3
  <1>6. ASSUME NEW k \in 1 .. n, k - 1 \in T PROVE k \in T
    <2>1. g[1 .. (k - 1)] = f[1 .. (k - 1)]
      BY <1>6
    <2>2. g[1 .. k] = f[1 .. k]
      BY <1>2, <1>4, <2>1
    <2> QED  BY <1>1, <2>2
  <1> HIDE DEF T
  <1>7. \A k \in 0 .. n : k \in T
    BY <1>1, <1>5, <1>6, InductionTo
  <1>8. g[1 .. n] = f[1 .. n]
    <2>1. n \in T
      BY <1>1, <1>7
    <2> QED  BY <2>1 DEF T
  <1> QED  BY <1>4, <1>8 DEF p, n, f, g

-----------------------------------------------------------------------------
\* Walks along two lists

\* Where two iterators may be on lists of m and of n elements.
Grid(m, n) == (1 .. m + 1) \X (1 .. n + 1)

Value(g, p, a, b) ==
    IF p[1] > Len(a) \/ p[2] > Len(b) THEN Border(p[1], Len(a))
    ELSE Cross(a[p[1]], b[p[2]], g[<<p[1] + 1, p[2]>>], g[<<p[1], p[2] + 1>>])

\* The function of the two positions by which a walk is defined.
Walk(g, a, b) == g = [p \in Grid(Len(a), Len(b)) |-> Value(g, p, a, b)]

WalkRun(a, b) == CHOOSE g : Walk(g, a, b)

\* There is such a function.
LEMMA WalkExists ==
    ASSUME Inductive, NEW a, NEW b, Len(a) \in Nat, Len(b) \in Nat
    PROVE  \E g : Walk(g, a, b)
  <1> DEFINE m == Len(a)
             n == Len(b)
             G == Grid(m, n)
             M == m + n
             mu(p) == (m + 1 - p[1]) + (n + 1 - p[2])
             V(p, g) == Value(g, p, a, b)
             Q(g, k) == \A p \in G : mu(p) <= k => g[p] = V(p, g)
             S == {k \in 0 .. M : \E g : Q(g, k)}
  <1>1. m \in Nat /\ n \in Nat /\ M \in Nat
    OBVIOUS
  <1>2. \A p, g : V(p, g) = IF p[1] > m \/ p[2] > n THEN Border(p[1], m)
                            ELSE Cross(a[p[1]], b[p[2]], g[<<p[1] + 1, p[2]>>],
                                       g[<<p[1], p[2] + 1>>])
    BY Zenon DEF Value
  <1> HIDE DEF m, n, V
  <1>3. ASSUME NEW p \in G
        PROVE  /\ p[1] \in 1 .. m + 1 /\ p[2] \in 1 .. n + 1 /\ mu(p) \in 0 .. M
               /\ mu(p) = 0 => p[1] > m
               /\ ~(p[1] > m \/ p[2] > n) =>
                     /\ <<p[1] + 1, p[2]>> \in G /\ <<p[1], p[2] + 1>> \in G
                     /\ mu(<<p[1] + 1, p[2]>>) = mu(p) - 1
                     /\ mu(<<p[1], p[2] + 1>>) = mu(p) - 1
    <2>1. p[1] \in 1 .. m + 1 /\ p[2] \in 1 .. n + 1
      BY DEF Grid
    <2>2. \A i \in 1 .. m + 1, j \in 1 .. n + 1 : <<i, j>> \in G
      BY DEF Grid
    <2> DEFINE i == p[1]
               j == p[2]
    <2> HIDE DEF i, j, G
    <2>3. i \in 1 .. m + 1 /\ j \in 1 .. n + 1
      BY <2>1 DEF i, j
    <2>4. (m + 1 - i) + (n + 1 - j) \in 0 .. M /\ ((m + 1 - i) + (n + 1 - j) = 0 => i > m)
      BY <1>1, <2>3
    <2>5. ~(i > m \/ j > n) =>
             /\ i + 1 \in 1 .. m + 1 /\ j + 1 \in 1 .. n + 1
             /\ (m + 1 - (i + 1)) + (n + 1 - j) = ((m + 1 - i) + (n + 1 - j)) - 1
             /\ (m + 1 - i) + (n + 1 - (j + 1)) = ((m + 1 - i) + (n + 1 - j)) - 1
      BY <1>1, <2>3
    <2> QED  BY <2>2, <2>3, <2>4, <2>5 DEF i, j
  <1>4. ASSUME NEW p \in G, NEW g, NEW h, \A e \in G : mu(e) < mu(p) => g[e] = h[e]
        PROVE  V(p, g) = V(p, h)
    <2>1. CASE p[1] > m \/ p[2] > n
      BY <1>2, <2>1, Zenon
    <2>2. CASE ~(p[1] > m \/ p[2] > n)
      <3>1. /\ mu(<<p[1] + 1, p[2]>>) < mu(p) /\ <<p[1] + 1, p[2]>> \in G
            /\ mu(<<p[1], p[2] + 1>>) < mu(p) /\ <<p[1], p[2] + 1>> \in G
        <4> HIDE DEF G, mu
        <4>1. mu(p) \in 0 .. M
          BY <1>3
        <4>2. mu(p) - 1 < mu(p)
          <5> HIDE DEF M
          <5> QED  BY <1>1, <4>1
        <4> QED  BY <1>3, <2>2, <4>2
      <3>2. g[<<p[1] + 1, p[2]>>] = h[<<p[1] + 1, p[2]>>]
            /\ g[<<p[1], p[2] + 1>>] = h[<<p[1], p[2] + 1>>]
        BY <1>4, <3>1, Zenon
      <3> QED  BY <1>2, <2>2, <3>2, Zenon
    <2> QED  BY <2>1, <2>2
  <1> HIDE DEF G, M, mu
  <1>31. /\ \A p \in G : mu(p) \in 0 .. M
         /\ \A p \in G : mu(p) = 0 => p[1] > m
    BY <1>3, Zenon
  <1>6. 0 \in S
    <2> DEFINE g == [p \in G |-> Border(p[1], m)]
    <2>1. ASSUME NEW p \in G, mu(p) <= 0 PROVE g[p] = V(p, g)
      <3>1. mu(p) = 0
        <4>1. mu(p) \in 0 .. M
          BY <1>31
        <4> QED  BY <1>1, <2>1, <4>1
      <3>2. p[1] > m
        BY <1>31, <3>1
      <3>3. V(p, g) = Border(p[1], m)
        BY <1>2, <3>2, Zenon
      <3> QED  BY <3>3
    <2> HIDE DEF g
    <2>2. Q(g, 0)
      BY <2>1
    <2> QED  BY <1>1, <2>2
  <1>7. ASSUME NEW k \in 1 .. M, k - 1 \in S PROVE k \in S
    <2>1. PICK g : Q(g, k - 1)
      BY <1>7
    <2> DEFINE h == [p \in G |-> IF mu(p) <= k - 1 THEN g[p] ELSE V(p, g)]
    <2>2. \A p \in G : h[p] = IF mu(p) <= k - 1 THEN g[p] ELSE V(p, g)
      BY Zenon
    <2> HIDE DEF h
    <2>3. ASSUME NEW p \in G, mu(p) <= k PROVE h[p] = V(p, h)
      <3>1. \A e \in G : mu(e) < mu(p) => g[e] = h[e]
        <4>1. \A e \in G : mu(e) < mu(p) => mu(e) <= k - 1
          BY <1>1, <1>31, <2>3
        <4> QED  BY <2>2, <4>1, Zenon
      <3>2. V(p, g) = V(p, h)
        BY <1>4, <3>1
      <3>3. CASE mu(p) <= k - 1
        BY <2>1, <2>2, <3>2, <3>3, Zenon
      <3>4. CASE ~(mu(p) <= k - 1)
        BY <2>2, <3>2, <3>4, Zenon
      <3> QED  BY <3>3, <3>4
    <2>4. Q(h, k)
      BY <2>3
    <2> QED  BY <1>1, <2>4
  <1> HIDE DEF S
  <1>8. \A k \in 0 .. M : k \in S
    BY <1>1, <1>6, <1>7, InductionTo
  <1>9. M \in S
    BY <1>1, <1>8
  <1>10. PICK g : Q(g, M)
    BY <1>9 DEF S
  <1>11. \A p \in G : g[p] = V(p, g)
    <2>1. ASSUME NEW p \in G PROVE mu(p) <= M
      BY <1>1, <1>31
    <2> QED  BY <1>10, <2>1, Zenon
  <1> DEFINE w == [p \in G |-> g[p]]
  <1>12. \A p \in G : w[p] = g[p]
    BY Zenon
  <1> HIDE DEF w
  <1>13. \A p \in G : V(p, w) = g[p]
    BY <1>4, <1>11, <1>12, Zenon
  <1>14. w = [p \in G |-> V(p, w)]
    <2>1. [p \in G |-> g[p]] = [p \in G |-> V(p, w)]
      BY <1>13, Zenon
    <2>2. w = [p \in G |-> g[p]]
      BY Zenon DEF w
    <2> QED  BY <2>1, <2>2, Zenon
  <1>15. Walk(w, a, b)
    BY <1>14, Zenon DEF Walk, V, G, m, n
  <1> QED  BY <1>15, Zenon

\* g has the values that the walk computes, position by position.
Walked(g, a, b) ==
    \A i \in 1 .. Len(a) + 1, j \in 1 .. Len(b) + 1 :
       g[<<i, j>>] = IF i > Len(a) \/ j > Len(b) THEN Border(i, Len(a))
                     ELSE Cross(a[i], b[j], g[<<i + 1, j>>], g[<<i, j + 1>>])

\* The function has these values.
LEMMA WalkChain ==
    ASSUME Inductive, NEW a, NEW b, Len(a) \in Nat, Len(b) \in Nat
    PROVE  Walked(WalkRun(a, b), a, b)
  <1> DEFINE r == WalkRun(a, b)
  <1>1. Walk(r, a, b)
    BY WalkExists, Zenon DEF WalkRun
  <1> HIDE DEF r
  <1> SUFFICES ASSUME NEW i \in 1 .. Len(a) + 1, NEW j \in 1 .. Len(b) + 1
               PROVE  r[<<i, j>>] =
                        IF i > Len(a) \/ j > Len(b) THEN Border(i, Len(a))
                        ELSE Cross(a[i], b[j], r[<<i + 1, j>>], r[<<i, j + 1>>])
    BY Zenon DEF r, Walked
  <1> DEFINE d == <<i, j>>
  <1>2. d \in Grid(Len(a), Len(b)) /\ d[1] = i /\ d[2] = j
    BY DEF Grid
  <1> HIDE DEF d
  <1>3. r[d] = Value(r, d, a, b)
    BY <1>1, <1>2, Zenon DEF Walk
  <1> QED  BY <1>2, <1>3, Zenon DEF Value, d
=============================================================================
