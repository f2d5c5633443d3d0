------------------------ MODULE ObjectStore_proofs --------------------------
(***************************************************************************)
(* The derived values of an Emdros database are right, for any number of   *)
(* object types, objects, monads and failures: theorems about ObjectStore. *)
(*                                                                         *)
(* A statement is proved correct by what holds of the database and the     *)
(* cache between any two of its commands (Partial) and where it ends       *)
(* (Complete).  FinishKeeps and FailKeeps say that this is enough, however *)
(* a statement ends; the other lemmas are about one statement each.        *)
(* The last part is about queries, with the lemmas about sets of monads.   *)
(***************************************************************************)
EXTENDS ObjectStore, Sequences, FiniteSetTheorems, Induction, TLAPS

Coherent(c, d) ==
    \A t \in Types : c[t].id # 0 => c[t] = [id |-> d.ot[t], lol |-> d.lol[t]]

BoundsHold(d) == MonadsBounded(d) /\ \A o \in d.objs : o.id <= d.objSeq

ExtremesHold(d) == <<d.min_m, d.max_m>> \in Extremes(d, Types)

\* What is true of a database at the end of every statement.
DatabaseInv(d) ==
    /\ d \in Database
    /\ HasTypes(d) /\ IdsUnique(d)
    /\ ~d.torn => BoundsHold(d)
    /\ ~d.torn /\ ~d.stale => LengthsBounded(d)
    /\ ~d.torn /\ ~d.stale /\ ~d.loose => ExtremesHold(d)

\* The inductive invariant.
StoreInv ==
    /\ inProgress \in BOOLEAN /\ rolledBack \in BOOLEAN /\ faults \in Nat
    /\ DatabaseInv(db) /\ DatabaseInv(stored)
    /\ cache \in Cache
    /\ ~rolledBack => Coherent(cache, db)

\* What is true of the database and the cache between the commands of a
\* statement.
Partial(d, c) ==
    /\ d \in Database /\ c \in Cache
    /\ HasTypes(d) /\ IdsUnique(d)
    /\ ~rolledBack => Coherent(c, d)

\* What is true of them when the statement has reached its end.
Complete(d, c) ==
    /\ Partial(d, c)
    /\ ~d.torn => BoundsHold(d)
    /\ ~d.torn /\ ~d.stale /\ ~rolledBack => LengthsBounded(d)
    /\ ~d.torn /\ ~d.stale /\ ~rolledBack /\ ~d.loose => ExtremesHold(d)

-----------------------------------------------------------------------------
\* How statements end

\* Marking a database as written with an old cache leaves everything else.
LEMMA MarkedFacts ==
    ASSUME NEW d \in Database, rolledBack \in BOOLEAN
    PROVE  /\ Marked(d) \in Database
           /\ Marked(d).ot = d.ot /\ Marked(d).lol = d.lol
           /\ Marked(d).tables = d.tables /\ Marked(d).objs = d.objs
           /\ Marked(d).objSeq = d.objSeq
           /\ Marked(d).min_m = d.min_m /\ Marked(d).max_m = d.max_m
           /\ Marked(d).torn = d.torn /\ Marked(d).loose = d.loose
           /\ Marked(d).stale = (d.stale \/ rolledBack)
  BY DEF Marked, Database

\* What a complete statement leaves is a good database.
LEMMA CompleteMarked ==
    ASSUME NEW d, NEW c, Complete(d, c), rolledBack \in BOOLEAN
    PROVE  DatabaseInv(Marked(d)) /\ (~rolledBack => Coherent(c, Marked(d)))
  <1>1. d \in Database
    BY DEF Complete, Partial
  <1>2. Extremes(Marked(d), Types) = Extremes(d, Types)
    BY <1>1, MarkedFacts DEF Extremes
  <1>3. HasTypes(Marked(d)) /\ IdsUnique(Marked(d))
    BY <1>1, MarkedFacts DEF Complete, Partial, HasTypes, IdsUnique
  <1>4. ~Marked(d).torn => BoundsHold(Marked(d))
    BY <1>1, MarkedFacts DEF Complete, BoundsHold, MonadsBounded
  <1>5. ~Marked(d).stale => ~d.stale /\ ~rolledBack
    BY <1>1, MarkedFacts
  <1>6. ~Marked(d).torn /\ ~Marked(d).stale => LengthsBounded(Marked(d))
    BY <1>1, <1>5, MarkedFacts DEF Complete, LengthsBounded
  <1>7. ~Marked(d).torn /\ ~Marked(d).stale /\ ~Marked(d).loose
            => ExtremesHold(Marked(d))
    BY <1>1, <1>2, <1>5, MarkedFacts DEF Complete, ExtremesHold
  <1>8. ~rolledBack => Coherent(c, Marked(d))
    BY <1>1, MarkedFacts DEF Complete, Partial, Coherent
  <1>. QED
    BY <1>1, <1>3, <1>4, <1>6, <1>7, <1>8, MarkedFacts DEF DatabaseInv

\* A statement that reaches its end keeps the invariant.
LEMMA FinishKeeps ==
    ASSUME NEW d, NEW c, StoreInv, Complete(d, c), Finish(State(d, c)),
           faults' \in Nat
    PROVE  StoreInv'
  <1>1. /\ db' = Marked(d) /\ cache' = c
        /\ stored' = IF inProgress THEN stored ELSE db'
        /\ UNCHANGED <<inProgress, rolledBack>>
    BY DEF Finish, State
  <1>2. DatabaseInv(Marked(d)) /\ (~rolledBack => Coherent(c, Marked(d)))
    BY CompleteMarked DEF StoreInv
  <1>3. DatabaseInv(db)' /\ DatabaseInv(stored)'
    BY <1>1, <1>2 DEF StoreInv, DatabaseInv, HasTypes, IdsUnique, BoundsHold,
        MonadsBounded, LengthsBounded, ExtremesHold, Extremes
  <1>. QED
    BY <1>1, <1>2, <1>3 DEF StoreInv, Complete, Partial, Coherent

\* A database that a statement left half done is only expected to have its
\* tables and ids in order.
LEMMA TornFacts ==
    ASSUME NEW d, NEW c, Partial(d, c), rolledBack \in BOOLEAN,
           NEW e, e = [Marked(d) EXCEPT !.torn = TRUE]
    PROVE  DatabaseInv(e) /\ (~rolledBack => Coherent(c, e))
  <1>1. d \in Database
    BY DEF Partial
  <1>2. /\ e \in Database /\ e.torn = TRUE
        /\ e.ot = d.ot /\ e.lol = d.lol /\ e.tables = d.tables /\ e.objs = d.objs
    <2>. DEFINE m == Marked(d)
    <2>1. /\ m \in Database
          /\ m.ot = d.ot /\ m.lol = d.lol /\ m.tables = d.tables /\ m.objs = d.objs
      BY <1>1, MarkedFacts
    <2>2. e = [m EXCEPT !.torn = TRUE]
      OBVIOUS
    <2>. HIDE DEF m
    <2>. QED
      BY <2>1, <2>2 DEF Database
  <1>3. HasTypes(e) /\ IdsUnique(e)
    BY <1>2 DEF Partial, HasTypes, IdsUnique
  <1>4. ~rolledBack => Coherent(c, e)
    BY <1>2 DEF Partial, Coherent
  <1>. QED
    BY <1>2, <1>3, <1>4 DEF DatabaseInv

\* A statement that fails keeps the invariant, whichever of its commands have
\* taken effect.
LEMMA FailKeeps ==
    ASSUME NEW d, NEW c, NEW partial, NEW final, StoreInv,
           Complete(d, c), Fail(State(d, c), partial, final),
           \A p \in partial : Partial(p.d, p.c),
           final.c \in Cache
    PROVE  StoreInv'
  <1>0. State(d, c).d = d /\ State(d, c).c = c
    BY DEF State
  <1>1. faults' \in Nat /\ inProgress' = inProgress /\ rolledBack \in BOOLEAN
    BY DEF Fail, StoreInv
  <1>2. DatabaseInv(Marked(d)) /\ (~rolledBack => Coherent(c, Marked(d)))
    BY <1>1, CompleteMarked
  <1>3. CASE inProgress
    <2>1. PICK p \in partial :
             /\ db' = [Marked(p.d) EXCEPT !.torn = @ \/ p.d # d]
             /\ cache' = p.c
      BY <1>0, <1>3 DEF Fail
    <2>2. stored' = stored /\ rolledBack' = rolledBack
      BY <1>3 DEF Fail
    <2>3. Partial(p.d, p.c) /\ p.d \in Database /\ p.c \in Cache
      BY DEF Partial
    <2>4. DatabaseInv(db') /\ (~rolledBack => Coherent(p.c, db'))
      <3>1. CASE p.d # d
        <4>1. db' = [Marked(p.d) EXCEPT !.torn = TRUE]
          BY <2>1, <3>1
        <4>. QED
          BY <4>1, <1>1, <2>3, TornFacts
      <3>2. CASE p.d = d
        <4>1. d \in Database /\ Marked(d) \in Database
          BY <1>1, <2>3, <3>2, MarkedFacts
        <4>2. Marked(d).torn \in BOOLEAN
          BY <4>1 DEF Database
        <4>3. db' = [Marked(d) EXCEPT !.torn = Marked(d).torn]
          BY <2>1, <3>2, <4>2
        <4>4. db' = Marked(d)
          BY <4>1, <4>3 DEF Database
        <4>5. Marked(d).ot = d.ot /\ Marked(d).lol = d.lol
          BY <1>1, <4>1, MarkedFacts
        <4>. QED
          BY <1>2, <2>3, <3>2, <4>4, <4>5 DEF Partial, Coherent
      <3>. QED
        BY <3>1, <3>2
    <2>. QED
      BY <1>1, <2>1, <2>2, <2>3, <2>4 DEF StoreInv, DatabaseInv, HasTypes,
          IdsUnique, BoundsHold, MonadsBounded, LengthsBounded, ExtremesHold,
          Extremes, Coherent
  <1>4. CASE ~inProgress
    <2>1. PICK p \in partial \cup {final} :
             cache' = p.c /\ rolledBack' = (rolledBack \/ p.c # c)
      BY <1>0, <1>4 DEF Fail
    <2>2. db' = Marked(d) /\ stored' = Marked(d)
      BY <1>0, <1>4 DEF Fail
    <2>3. p.c \in Cache
      BY <2>1 DEF Partial
    <2>4. ~rolledBack' => ~rolledBack /\ p.c = c
      BY <2>1
    <2>. QED
      BY <1>1, <1>2, <2>1, <2>2, <2>3, <2>4 DEF StoreInv, DatabaseInv, HasTypes,
          IdsUnique, BoundsHold, MonadsBounded, LengthsBounded, ExtremesHold,
          Extremes, Coherent
  <1>. QED
    BY <1>3, <1>4
-----------------------------------------------------------------------------
\* The commands that statements are made of

\* Asking for object types changes the cache only, and keeps it right.
LEMMA AskComplete ==
    ASSUME StoreInv, NEW T
    PROVE  Complete(db, addObjectTypesToCache(T))
  <1>. DEFINE c == addObjectTypesToCache(T)
  <1>1. db \in Database /\ cache \in Cache
    BY DEF StoreInv, DatabaseInv
  <1>2. c \in Cache
    BY <1>1 DEF addObjectTypesToCache, Cached, Cache, Database
  <1>3. ~rolledBack => Coherent(c, db)
    BY <1>1 DEF StoreInv, Coherent, addObjectTypesToCache, Cached, Cache
  <1>. QED
    BY <1>1, <1>2, <1>3 DEF StoreInv, DatabaseInv, Complete, Partial

\* Taking objects away and changing anything but tables and types is safe
\* between commands.
LEMMA FewerObjects ==
    ASSUME NEW d, NEW e, NEW c, Partial(d, c), e \in Database,
           e.ot = d.ot, e.lol = d.lol, e.tables = d.tables,
           e.objs \subseteq d.objs
    PROVE  Partial(e, c)
  BY DEF Partial, HasTypes, IdsUnique, Coherent

\* So is adding rows that the primary keys let in.
LEMMA MoreObjects ==
    ASSUME NEW d, NEW e, NEW c, NEW new, Partial(d, c), CanInsert(d, new),
           e \in Database,
           e.ot = d.ot, e.lol = d.lol, e.tables = d.tables,
           e.objs = d.objs \cup new
    PROVE  Partial(e, c)
  <1>1. HasTypes(e)
    BY DEF Partial, HasTypes, CanInsert
  <1>2. IdsUnique(e)
    BY DEF Partial, IdsUnique, CanInsert
  <1>. QED
    BY <1>1, <1>2 DEF Partial, Coherent

\* setMin_m and setMax_m change these two values only.
LEMMA SetExtremes ==
    ASSUME NEW d \in Database, NEW f \in Nat, NEW l \in Nat
    PROVE  LET e == setMin_m(d, f)
               g == setMax_m(e, l)
           IN  /\ e \in Database /\ g \in Database
               /\ e.ot = d.ot /\ e.lol = d.lol /\ e.tables = d.tables
               /\ e.objs = d.objs
               /\ g.ot = d.ot /\ g.lol = d.lol /\ g.tables = d.tables
               /\ g.objs = d.objs /\ g.objSeq = d.objSeq
               /\ g.torn = d.torn /\ g.stale = d.stale /\ g.loose = d.loose
               /\ g.min_m = IF f < d.min_m THEN f ELSE d.min_m
               /\ g.max_m = IF l > d.max_m THEN l ELSE d.max_m
  <1>1. \A x \in Database : /\ [x EXCEPT !.min_m = f] \in Database
                            /\ [x EXCEPT !.max_m = l] \in Database
    BY DEF Database
  <1>. QED
    BY <1>1 DEF setMin_m, setMax_m, Database

\* The sequence of ids only goes forward.
LEMMA SequenceForward ==
    ASSUME NEW d \in Database, NEW n \in Nat
    PROVE  LET e == setNextObjectID_DIfNotHigher(d, n + 1)
           IN  /\ e \in Database
               /\ e.ot = d.ot /\ e.lol = d.lol /\ e.tables = d.tables
               /\ e.objs = d.objs /\ e.min_m = d.min_m /\ e.max_m = d.max_m
               /\ e.torn = d.torn /\ e.stale = d.stale /\ e.loose = d.loose
               /\ e.objSeq >= d.objSeq /\ e.objSeq >= n
  <1>1. [d EXCEPT !.objSeq = n] \in Database /\ n + 1 - 1 = n /\ d.objSeq \in Nat
    BY DEF Database
  <1>. QED
    BY <1>1 DEF setNextObjectID_DIfNotHigher, Database
\* A cached object type has the id and the length of its row.
LEMMA CoherentFields ==
    ASSUME NEW c, NEW d, Coherent(c, d), NEW t \in Types, c[t].id # 0
    PROVE  c[t].id = d.ot[t] /\ c[t].lol = d.lol[t]
  <1>1. c[t] = [id |-> d.ot[t], lol |-> d.lol[t]]
    BY DEF Coherent
  <1>. QED
    BY ONLY <1>1

\* setLargestObjectLength changes the length of one type, in the row and in
\* the cache alike.
LEMMA SetLength ==
    ASSUME NEW d, NEW c, Partial(d, c), NEW t \in Types, NEW length \in Nat
    PROVE  LET s == setLargestObjectLength(State(d, c), t, length)
           IN  /\ Partial(s.d, s.c)
               /\ s.d.ot = d.ot /\ s.d.tables = d.tables /\ s.d.objs = d.objs
               /\ s.d.objSeq = d.objSeq
               /\ s.d.min_m = d.min_m /\ s.d.max_m = d.max_m
               /\ s.d.torn = d.torn /\ s.d.stale = d.stale /\ s.d.loose = d.loose
               /\ \A u \in Types : s.d.lol[u] = IF u = t /\ d.ot[t] # 0
                                               THEN length ELSE d.lol[u]
  <1>. DEFINE n == IF d.ot[t] # 0 THEN length ELSE d.lol[t]
              e == [d EXCEPT !.lol[t] = n]
              k == IF c[t].id # 0 THEN [c[t] EXCEPT !.lol = length] ELSE c[t]
              b == [c EXCEPT ![t] = k]
  <1>1. setLargestObjectLength(State(d, c), t, length) = State(e, b)
    BY DEF setLargestObjectLength, State
  <1>2. d \in Database /\ c \in Cache
    BY DEF Partial
  <1>3. /\ e \in Database
        /\ e.ot = d.ot /\ e.tables = d.tables /\ e.objs = d.objs
        /\ e.objSeq = d.objSeq /\ e.min_m = d.min_m /\ e.max_m = d.max_m
        /\ e.torn = d.torn /\ e.stale = d.stale /\ e.loose = d.loose
        /\ \A u \in Types : e.lol[u] = IF u = t THEN n ELSE d.lol[u]
    BY <1>2 DEF Database
  <1>4. /\ k \in [id : Nat, lol : Nat]
        /\ k.id = c[t].id
        /\ k.id # 0 => k = [id |-> c[t].id, lol |-> length]
    BY <1>2 DEF Cache
  <1>5. b \in Cache /\ \A u \in Types : b[u] = IF u = t THEN k ELSE c[u]
    BY <1>2, <1>4 DEF Cache
  <1>6. ~rolledBack => Coherent(b, e)
    <2>. SUFFICES ASSUME ~rolledBack, NEW u \in Types, b[u].id # 0
                  PROVE  b[u] = [id |-> e.ot[u], lol |-> e.lol[u]]
      BY DEF Coherent
    <2>1. Coherent(c, d)
      BY DEF Partial
    <2>2. CASE u = t
      <3>1. b[u] = k /\ c[t].id # 0
        BY <1>4, <1>5, <2>2
      <3>2. c[t].id = d.ot[t]
        BY <2>1, <3>1, CoherentFields
      <3>3. e.lol[u] = length /\ e.ot[u] = d.ot[t]
        BY <1>3, <2>2, <3>1, <3>2
      <3>. QED
        BY <1>4, <3>1, <3>2, <3>3
    <2>3. CASE u # t
      BY <1>3, <1>5, <2>1, <2>3 DEF Coherent
    <2>. QED
      BY <2>2, <2>3
  <1>7. HasTypes(e) /\ IdsUnique(e)
    BY <1>3 DEF Partial, HasTypes, IdsUnique
  <1>8. State(e, b).d = e /\ State(e, b).c = b
    BY DEF State
  <1>9. Partial(e, b)
    BY <1>3, <1>5, <1>6, <1>7 DEF Partial
  <1>. HIDE DEF e, b, k
  <1>. QED
    BY <1>1, <1>3, <1>8, <1>9

\* setLargestObjectLengthIfNecessary never makes a length smaller, and with a
\* good cache the length asked for is covered.
LEMMA RaiseLength ==
    ASSUME NEW d, NEW c, Partial(d, c), NEW t \in Types, NEW length \in Nat,
           d.ot[t] # 0
    PROVE  LET s == setLargestObjectLengthIfNecessary(State(d, c), t, length)
           IN  /\ Partial(s.d, s.c)
               /\ s.d.ot = d.ot /\ s.d.tables = d.tables /\ s.d.objs = d.objs
               /\ s.d.objSeq = d.objSeq
               /\ s.d.min_m = d.min_m /\ s.d.max_m = d.max_m
               /\ s.d.torn = d.torn /\ s.d.stale = d.stale /\ s.d.loose = d.loose
               /\ ~rolledBack => /\ s.d.lol[t] >= length
                                 /\ \A u \in Types : s.d.lol[u] >= d.lol[u]
  <1>. DEFINE g == getLargestObjectLength(c, d, t)
              s == setLargestObjectLengthIfNecessary(State(d, c), t, length)
  <1>1. d \in Database /\ c \in Cache /\ State(d, c).d = d /\ State(d, c).c = c
    BY DEF Partial, State
  <1>2. g \in Nat /\ d.lol[t] \in Nat /\ \A u \in Types : d.lol[u] \in Nat
    BY <1>1 DEF getLargestObjectLength, Database, Cache
  <1>3. ~rolledBack => g = d.lol[t]
    BY CoherentFields DEF Partial, getLargestObjectLength
  <1>4. CASE g >= length
    <2>1. s = State(d, c)
      BY <1>1, <1>4 DEF setLargestObjectLengthIfNecessary
    <2>. QED
      BY <1>1, <1>2, <1>3, <1>4, <2>1
  <1>5. CASE ~(g >= length)
    <2>1. s = setLargestObjectLength(State(d, c), t, length)
      BY <1>1, <1>5 DEF setLargestObjectLengthIfNecessary
    <2>. HIDE DEF s
    <2>2. /\ Partial(s.d, s.c)
          /\ s.d.ot = d.ot /\ s.d.tables = d.tables /\ s.d.objs = d.objs
          /\ s.d.objSeq = d.objSeq
          /\ s.d.min_m = d.min_m /\ s.d.max_m = d.max_m
          /\ s.d.torn = d.torn /\ s.d.stale = d.stale /\ s.d.loose = d.loose
          /\ \A u \in Types : s.d.lol[u] = IF u = t THEN length ELSE d.lol[u]
      BY <2>1, SetLength
    <2>3. ~rolledBack => s.d.lol[t] >= length /\ \A u \in Types : s.d.lol[u] >= d.lol[u]
      BY <1>2, <1>3, <1>5, <2>2
    <2>. QED
      BY <2>2, <2>3 DEF s
  <1>. QED
    BY <1>4, <1>5
-----------------------------------------------------------------------------
\* Objects come and go

\* min_m and max_m are the extremes where they are the least first and the
\* greatest last monad of the objects.
LEMMA ExtremesMeaning ==
    ASSUME NEW d \in Database
    PROVE  ExtremesHold(d) <=>
              /\ d.min_m \in Least({o.first : o \in d.objs}, MAX_MONAD)
              /\ d.max_m \in Greatest({o.last : o \in d.objs}, 0)
  <1>1. {o \in d.objs : o.ot \in Types} = d.objs
    BY DEF Database, Object
  <1>. QED
    BY <1>1 DEF ExtremesHold, Extremes

\* Least and Greatest mean what they say.
LEMMA LeastFacts ==
    ASSUME NEW S \in SUBSET Nat, NEW none \in Nat, NEW x, x \in Least(S, none)
    PROVE  /\ x \in Nat /\ \A y \in S : x <= y
           /\ S # {} => x \in S
           /\ S = {} => x = none
  BY DEF Least

LEMMA GreatestFacts ==
    ASSUME NEW S \in SUBSET Nat, NEW none \in Nat, NEW x, x \in Greatest(S, none)
    PROVE  /\ x \in Nat /\ \A y \in S : x >= y
           /\ S # {} => x \in S
           /\ S = {} => x = none
  BY DEF Greatest

\* The extremes grow with the objects.
LEMMA ExtremesGrow ==
    ASSUME NEW d \in Database, NEW e \in Database, NEW new \in SUBSET NewObject,
           new # {},
           NEW f, f \in Least({o.first : o \in new}, MAX_MONAD),
           NEW l, l \in Greatest({o.last : o \in new}, 0),
           e.objs = d.objs \cup new,
           e.min_m = IF f < d.min_m THEN f ELSE d.min_m,
           e.max_m = IF l > d.max_m THEN l ELSE d.max_m
    PROVE  /\ f \in Nat /\ l \in Nat
           /\ MonadsBounded(d) => MonadsBounded(e)
           /\ ExtremesHold(d) => ExtremesHold(e)
  <1>. DEFINE F(S) == {o.first : o \in S}
              L(S) == {o.last : o \in S}
  <1>1. /\ \A o \in new : o.first \in Nat /\ o.last \in Nat /\ o.first <= MAX_MONAD
        /\ \A o \in d.objs : o.first \in Nat /\ o.last \in Nat
        /\ d.min_m \in Nat /\ d.max_m \in Nat /\ MAX_MONAD \in Nat
    BY StoreAssumption DEF NewObject, Monad, Database, Object
  <1>2. /\ f \in Nat /\ \A o \in new : f <= o.first
        /\ f \in F(new)
    <2>1. /\ F(new) \in SUBSET Nat /\ F(new) # {}
          /\ \A o \in new : o.first \in F(new)
          /\ f \in Least(F(new), MAX_MONAD)
      BY <1>1
    <2>. HIDE DEF F
    <2>. QED
      BY <1>1, <2>1, LeastFacts
  <1>3. /\ l \in Nat /\ \A o \in new : l >= o.last
        /\ l \in L(new)
    <2>1. /\ L(new) \in SUBSET Nat /\ L(new) # {}
          /\ \A o \in new : o.last \in L(new)
          /\ l \in Greatest(L(new), 0)
      BY <1>1
    <2>. HIDE DEF L
    <2>. QED
      BY <1>1, <2>1, GreatestFacts
  <1>4. ASSUME MonadsBounded(d) PROVE MonadsBounded(e)
    BY <1>1, <1>2, <1>3, <1>4 DEF MonadsBounded
  <1>5. ASSUME ExtremesHold(d) PROVE ExtremesHold(e)
    <2>1. /\ d.min_m \in Least(F(d.objs), MAX_MONAD)
          /\ d.max_m \in Greatest(L(d.objs), 0)
      BY <1>5, ExtremesMeaning
    <2>2. /\ \A o \in d.objs : d.min_m <= o.first
          /\ d.objs # {} => d.min_m \in F(d.objs)
          /\ d.objs = {} => d.min_m = MAX_MONAD
      BY <2>1 DEF Least
    <2>3. /\ \A o \in d.objs : d.max_m >= o.last
          /\ d.objs # {} => d.max_m \in L(d.objs)
          /\ d.objs = {} => d.max_m = 0
      BY <2>1 DEF Greatest
    <2>4. \A o \in e.objs : e.min_m <= o.first /\ e.max_m >= o.last
      BY <1>1, <1>2, <1>3, <2>2, <2>3
    <2>5. e.min_m \in F(e.objs)
      <3>1. F(new) \subseteq F(e.objs) /\ F(d.objs) \subseteq F(e.objs)
        OBVIOUS
      <3>2. f <= MAX_MONAD
        BY <1>1, <1>2
      <3>. QED
        BY <1>1, <1>2, <2>2, <3>1, <3>2
    <2>6. e.max_m \in L(e.objs)
      <3>1. L(new) \subseteq L(e.objs) /\ L(d.objs) \subseteq L(e.objs)
        OBVIOUS
      <3>. QED
        BY <1>1, <1>3, <2>3, <3>1
    <2>8. e.min_m \in Least(F(e.objs), MAX_MONAD)
      BY <2>4, <2>5 DEF Least
    <2>9. e.max_m \in Greatest(L(e.objs), 0)
      BY <2>4, <2>6 DEF Greatest
    <2>. QED
      BY <2>8, <2>9, ExtremesMeaning
  <1>. QED
    BY <1>2, <1>3, <1>4, <1>5

\* The end of a statement that creates objects.
LEMMA InsertComplete ==
    ASSUME NEW d, NEW c, Complete(d, c), NEW new \in SUBSET NewObject,
           new # {}, CanInsert(d, new),
           NEW f, f \in Least({o.first : o \in new}, MAX_MONAD),
           NEW l, l \in Greatest({o.last : o \in new}, 0),
           NEW e, NEW b, Partial(e, b),
           e.ot = d.ot, e.objs = d.objs \cup new,
           e.objSeq >= d.objSeq, \A o \in new : o.id <= e.objSeq,
           e.min_m = IF f < d.min_m THEN f ELSE d.min_m,
           e.max_m = IF l > d.max_m THEN l ELSE d.max_m,
           e.torn = d.torn, e.stale = d.stale, e.loose = d.loose,
           ~rolledBack => /\ \A o \in new : Length(o) <= e.lol[o.ot]
                          /\ \A u \in Types : e.lol[u] >= d.lol[u]
    PROVE  Complete(e, b)
  <1>1. d \in Database /\ e \in Database
    BY DEF Complete, Partial
  <1>2. /\ MonadsBounded(d) => MonadsBounded(e)
        /\ ExtremesHold(d) => ExtremesHold(e)
    BY <1>1, ExtremesGrow
  <1>3. ~e.torn => BoundsHold(e)
    <2>1. /\ e.objSeq \in Nat /\ d.objSeq \in Nat
          /\ \A o \in e.objs : o.id \in Nat
      BY <1>1 DEF Database, Object
    <2>. QED
      BY <1>2, <2>1 DEF Complete, BoundsHold
  <1>4. ~e.torn /\ ~e.stale /\ ~rolledBack => LengthsBounded(e)
    <2>. SUFFICES ASSUME ~e.torn, ~e.stale, ~rolledBack, NEW o \in e.objs
                  PROVE  e.ot[o.ot] # 0 /\ Length(o) <= e.lol[o.ot]
      BY DEF LengthsBounded
    <2>1. /\ o.ot \in Types /\ Length(o) \in Int
          /\ d.lol[o.ot] \in Nat /\ e.lol[o.ot] \in Nat
      BY <1>1 DEF Database, Object, Length
    <2>2. e.ot[o.ot] # 0
      BY DEF Partial, HasTypes
    <2>3. CASE o \in new
      BY <2>2, <2>3
    <2>4. CASE o \in d.objs
      BY <2>1, <2>2, <2>4 DEF Complete, LengthsBounded
    <2>. QED
      BY <2>3, <2>4
  <1>. QED
    BY <1>2, <1>3, <1>4 DEF Complete
\* CREATE OBJECT keeps the invariant.
LEMMA CreateObjectKeeps ==
    ASSUME StoreInv, NEW o \in NewObject, NEW explicit \in BOOLEAN,
           createObject(o, explicit)
    PROVE  StoreInv'
  <1>. DEFINE asked == {t \in Types : explicit /\ db.ot[t] # 0}
              c0 == addObjectTypesToCache(asked \cup {o.ot})
              d0 == IF explicit THEN setNextObjectID_DIfNotHigher(db, o.id + 1)
                    ELSE [db EXCEPT !.objSeq = @ + 1]
              d1 == [d0 EXCEPT !.objs = @ \cup {o}]
              d2 == setMin_m(d1, o.first)
              d3 == setMax_m(d2, o.last)
              end == setLargestObjectLengthIfNecessary(State(d3, c0), o.ot, Length(o))
              partial == {State(d, c0) : d \in {d0, d1, d2, d3}}
  <1>1. /\ o \in Object /\ o.first \in Nat /\ o.last \in Nat /\ o.ot \in Types
        /\ o.id \in Nat /\ Length(o) \in Nat
    BY StoreAssumption DEF NewObject, Monad, Object, Length
  <1>2. Complete(db, c0) /\ db \in Database
    BY AskComplete DEF StoreInv, DatabaseInv
  <1>3. /\ explicit \/ o.id = d0.objSeq
        /\ IF CanInsert(d0, {o}) THEN Run(State(d0, c0), partial, end)
           ELSE Refuse(State(d0, c0), {State(d0, c0)})
    BY Zenon DEF createObject
  <1>. HIDE DEF c0
  <1>4. /\ d0 \in Database /\ d0.ot = db.ot /\ d0.lol = db.lol
        /\ d0.tables = db.tables /\ d0.objs = db.objs
        /\ d0.min_m = db.min_m /\ d0.max_m = db.max_m
        /\ d0.torn = db.torn /\ d0.stale = db.stale /\ d0.loose = db.loose
        /\ d0.objSeq >= db.objSeq /\ o.id <= d0.objSeq
    <2>1. CASE explicit
      BY <1>1, <1>2, <2>1, SequenceForward DEF Database
    <2>2. CASE ~explicit
      BY <1>1, <1>2, <1>3, <2>2 DEF Database
    <2>. QED
      BY <2>1, <2>2
  <1>. HIDE DEF d0
  <1>5. Partial(d0, c0)
    BY <1>2, <1>4, FewerObjects DEF Complete
  <1>6. Complete(d0, c0)
    <2>1. ~d0.torn => BoundsHold(d0)
      <3>1. /\ db.objSeq \in Nat /\ d0.objSeq \in Nat
            /\ \A p \in db.objs : p.id \in Nat
        BY <1>2, <1>4 DEF Database, Object
      <3>. QED
        BY <1>2, <1>4, <3>1 DEF Complete, BoundsHold, MonadsBounded
    <2>2. LengthsBounded(db) => LengthsBounded(d0)
      BY <1>4 DEF LengthsBounded
    <2>3. ExtremesHold(db) => ExtremesHold(d0)
      BY <1>2, <1>4, ExtremesMeaning
    <2>. QED
      BY <1>2, <1>4, <1>5, <2>1, <2>2, <2>3 DEF Complete
  <1>7. State(d0, c0).c \in Cache /\ \A d : State(d, c0).d = d /\ State(d, c0).c = c0
    BY <1>5 DEF State, Partial
  <1>8. CASE ~CanInsert(d0, {o})
    <2>1. Fail(State(d0, c0), {State(d0, c0)}, State(d0, c0))
      BY <1>3, <1>8 DEF Refuse
    <2>2. \A p \in {State(d0, c0)} : Partial(p.d, p.c)
      BY <1>5, <1>7
    <2>. QED
      BY <1>6, <1>7, <2>1, <2>2, FailKeeps
  <1>9. CASE CanInsert(d0, {o})
    <2>1. /\ d1 \in Database /\ d1.ot = d0.ot /\ d1.lol = d0.lol
          /\ d1.tables = d0.tables /\ d1.objs = d0.objs \cup {o}
          /\ d1.objSeq = d0.objSeq /\ d1.min_m = d0.min_m /\ d1.max_m = d0.max_m
          /\ d1.torn = d0.torn /\ d1.stale = d0.stale /\ d1.loose = d0.loose
      BY <1>1, <1>4 DEF Database
    <2>. HIDE DEF d1
    <2>2. /\ d2 \in Database /\ d2.ot = d0.ot /\ d2.lol = d0.lol
          /\ d2.tables = d0.tables /\ d2.objs = d0.objs \cup {o}
          /\ d3 \in Database /\ d3.ot = d0.ot /\ d3.lol = d0.lol
          /\ d3.tables = d0.tables /\ d3.objs = d0.objs \cup {o}
          /\ d3.objSeq = d0.objSeq
          /\ d3.torn = d0.torn /\ d3.stale = d0.stale /\ d3.loose = d0.loose
          /\ d3.min_m = IF o.first < d0.min_m THEN o.first ELSE d0.min_m
          /\ d3.max_m = IF o.last > d0.max_m THEN o.last ELSE d0.max_m
      <3>1. /\ d2 \in Database /\ d3 \in Database
            /\ d2.ot = d1.ot /\ d2.lol = d1.lol /\ d2.tables = d1.tables
            /\ d2.objs = d1.objs
            /\ d3.ot = d1.ot /\ d3.lol = d1.lol /\ d3.tables = d1.tables
            /\ d3.objs = d1.objs /\ d3.objSeq = d1.objSeq
            /\ d3.torn = d1.torn /\ d3.stale = d1.stale /\ d3.loose = d1.loose
            /\ d3.min_m = IF o.first < d1.min_m THEN o.first ELSE d1.min_m
            /\ d3.max_m = IF o.last > d1.max_m THEN o.last ELSE d1.max_m
        BY <1>1, <2>1, SetExtremes, Zenon
      <3>. HIDE DEF d2, d3
      <3>. QED
        BY <2>1, <3>1
    <2>. HIDE DEF d2, d3
    <2>3. Partial(d1, c0) /\ Partial(d2, c0) /\ Partial(d3, c0)
      BY <1>5, <1>9, <2>1, <2>2, MoreObjects
    <2>4. d3.ot[o.ot] # 0
      BY <1>4, <1>5, <1>9, <2>2 DEF CanInsert, Partial, HasTypes
    <2>5. /\ Partial(end.d, end.c)
          /\ end.d.ot = d3.ot /\ end.d.tables = d3.tables /\ end.d.objs = d3.objs
          /\ end.d.objSeq = d3.objSeq
          /\ end.d.min_m = d3.min_m /\ end.d.max_m = d3.max_m
          /\ end.d.torn = d3.torn /\ end.d.stale = d3.stale /\ end.d.loose = d3.loose
          /\ ~rolledBack => /\ end.d.lol[o.ot] >= Length(o)
                            /\ \A u \in Types : end.d.lol[u] >= d3.lol[u]
      BY <1>1, <2>3, <2>4, RaiseLength
    <2>6. end = State(end.d, end.c)
      BY DEF setLargestObjectLengthIfNecessary, setLargestObjectLength, State
    <2>. HIDE DEF end
    <2>7. Complete(end.d, end.c)
      <3>1. o.first \in Least({p.first : p \in {o}}, MAX_MONAD)
        BY <1>1 DEF Least
      <3>2. o.last \in Greatest({p.last : p \in {o}}, 0)
        BY <1>1 DEF Greatest
      <3>3. end.d \in Database /\ \A u \in Types : end.d.lol[u] \in Nat
        BY <2>5 DEF Partial, Database
      <3>4. d0.objSeq \in Nat
        BY <1>4 DEF Database
      <3>5. /\ {o} \in SUBSET NewObject /\ {o} # {}
            /\ \A p \in {o} : p.id <= end.d.objSeq
            /\ end.d.objSeq >= d0.objSeq
            /\ ~rolledBack => /\ \A p \in {o} : Length(p) <= end.d.lol[p.ot]
                              /\ \A u \in Types : end.d.lol[u] >= d0.lol[u]
        BY <1>1, <1>4, <2>2, <2>5, <3>3, <3>4
      <3>. QED
        BY <1>6, <1>9, <2>2, <2>5, <3>1, <3>2, <3>5, InsertComplete
    <2>8. Succeed(end) \/ Fail(State(d0, c0), partial, end)
      BY <1>3, <1>9 DEF Run
    <2>9. CASE Succeed(end)
      BY <2>6, <2>7, <2>9, FinishKeeps DEF Succeed, StoreInv
    <2>10. CASE Fail(State(d0, c0), partial, end)
      <3>1. \A p \in partial : Partial(p.d, p.c)
        BY <1>5, <1>7, <2>3
      <3>2. end.c \in Cache
        BY <2>5 DEF Partial
      <3>. HIDE DEF partial
      <3>. QED
        BY <1>6, <2>10, <3>1, <3>2, FailKeeps
    <2>. QED
      BY <2>8, <2>9, <2>10
  <1>. QED
    BY <1>8, <1>9
\* CREATE OBJECTS WITH OBJECT TYPE keeps the invariant, for any number of
\* objects.
LEMMA CreateObjectsKeeps ==
    ASSUME StoreInv, NEW t \in Types, NEW batch \in SUBSET NewObject,
           batch # {}, IsFiniteSet(batch), \A o \in batch : o.ot = t,
           NEW auto \in SUBSET batch,
           createObjects(t, batch, auto)
    PROVE  StoreInv'
  <1>. DEFINE c0 == addObjectTypesToCache({t})
              d0 == [db EXCEPT !.objSeq = @ + Cardinality(auto)]
              Inserted(some) == [d0 EXCEPT !.objs = @ \cup some]
              s0 == State(db, c0)
              inserting == {s0} \cup {State(Inserted(some), c0) :
                              some \in {b \in SUBSET batch : CanInsert(d0, b)}}
  <1>1. PICK first \in Least({o.first : o \in batch}, MAX_MONAD),
             last \in Greatest({o.last : o \in batch}, 0),
             length \in Greatest({Length(o) : o \in batch}, 0),
             maxId \in Greatest({o.id : o \in batch}, 0) :
           LET d2 == setMin_m(Inserted(batch), first)
               d3 == setMax_m(d2, last)
               s4 == setLargestObjectLengthIfNecessary(State(d3, c0), t, length)
               end == State(setNextObjectID_DIfNotHigher(s4.d, maxId + 1), s4.c)
           IN  IF CanInsert(d0, batch)
               THEN Run(s0, inserting \cup {State(d2, c0), State(d3, c0), s4}, end)
               ELSE Refuse(s0, inserting)
    BY Zenon DEF createObjects
  <1>. DEFINE d1 == Inserted(batch)
              d2 == setMin_m(d1, first)
              d3 == setMax_m(d2, last)
              s4 == setLargestObjectLengthIfNecessary(State(d3, c0), t, length)
              d5 == setNextObjectID_DIfNotHigher(s4.d, maxId + 1)
              partial == inserting \cup {State(d2, c0), State(d3, c0), s4}
  <1>2. \A o \in batch : /\ o \in Object /\ o.first \in Nat /\ o.last \in Nat
                         /\ o.id \in Nat /\ Length(o) \in Nat
    BY StoreAssumption DEF NewObject, Monad, Object, Length
  <1>3. /\ length \in Nat /\ \A o \in batch : length >= Length(o)
        /\ maxId \in Nat /\ \A o \in batch : maxId >= o.id
    <2>. DEFINE L == {Length(o) : o \in batch}
                I == {o.id : o \in batch}
    <2>1. /\ L \in SUBSET Nat /\ \A o \in batch : Length(o) \in L
          /\ I \in SUBSET Nat /\ \A o \in batch : o.id \in I
          /\ length \in Greatest(L, 0) /\ maxId \in Greatest(I, 0)
      BY <1>2
    <2>. HIDE DEF L, I
    <2>. QED
      BY <2>1, GreatestFacts
  <1>4. Complete(db, c0) /\ db \in Database /\ db.objSeq \in Nat
    BY AskComplete DEF StoreInv, DatabaseInv, Database
  <1>. HIDE DEF c0
  <1>5. Cardinality(auto) \in Nat
    BY FS_Subset, FS_CardinalityType
  <1>6. /\ d0 \in Database /\ d0.ot = db.ot /\ d0.lol = db.lol
        /\ d0.tables = db.tables /\ d0.objs = db.objs
        /\ d0.min_m = db.min_m /\ d0.max_m = db.max_m
        /\ d0.torn = db.torn /\ d0.stale = db.stale /\ d0.loose = db.loose
        /\ d0.objSeq >= db.objSeq
    BY <1>4, <1>5 DEF Database
  <1>7. \A some \in SUBSET batch :
           LET d == Inserted(some)
           IN  /\ d \in Database /\ d.ot = d0.ot /\ d.lol = d0.lol
               /\ d.tables = d0.tables /\ d.objs = d0.objs \cup some
               /\ d.objSeq = d0.objSeq /\ d.min_m = d0.min_m /\ d.max_m = d0.max_m
               /\ d.torn = d0.torn /\ d.stale = d0.stale /\ d.loose = d0.loose
    <2>. HIDE DEF d0
    <2>. SUFFICES ASSUME NEW some \in SUBSET batch
                  PROVE  LET d == Inserted(some)
           IN  /\ d \in Database /\ d.ot = d0.ot /\ d.lol = d0.lol
               /\ d.tables = d0.tables /\ d.objs = d0.objs \cup some
               /\ d.objSeq = d0.objSeq /\ d.min_m = d0.min_m /\ d.max_m = d0.max_m
               /\ d.torn = d0.torn /\ d.stale = d0.stale /\ d.loose = d0.loose
      OBVIOUS
    <2>1. d0.objs \cup some \in SUBSET Object
      BY <1>2, <1>6 DEF Database
    <2>. QED
      BY <1>6, <2>1 DEF Database
  <1>. HIDE DEF d0, Inserted
  <1>8. Partial(db, c0) /\ Partial(d0, c0)
    BY <1>4, <1>6, FewerObjects DEF Complete
  <1>9. \A d, c : State(d, c).d = d /\ State(d, c).c = c
    BY DEF State
  <1>10. \A p \in inserting : Partial(p.d, p.c)
    <2>1. ASSUME NEW some \in SUBSET batch, CanInsert(d0, some)
          PROVE  Partial(Inserted(some), c0)
      BY <1>7, <1>8, <2>1, MoreObjects
    <2>. QED
      BY <1>8, <1>9, <2>1
  <1>11. CASE ~CanInsert(d0, batch)
    <2>1. Fail(s0, inserting, s0)
      BY <1>1, <1>11, Zenon DEF Refuse
    <2>2. s0.c \in Cache
      BY <1>8, <1>9 DEF Partial
    <2>. HIDE DEF inserting
    <2>. QED
      BY <1>4, <1>10, <2>1, <2>2, FailKeeps
  <1>12. CASE CanInsert(d0, batch)
    <2>1. /\ first \in Nat /\ last \in Nat
      <3>. DEFINE F == {o.first : o \in batch}
                  L == {o.last : o \in batch}
      <3>1. /\ F \in SUBSET Nat /\ L \in SUBSET Nat /\ MAX_MONAD \in Nat
            /\ first \in Least(F, MAX_MONAD) /\ last \in Greatest(L, 0)
        BY <1>2, StoreAssumption
      <3>. HIDE DEF F, L
      <3>. QED
        BY <3>1, LeastFacts, GreatestFacts
    <2>2. /\ d1 \in Database /\ d1.ot = d0.ot /\ d1.lol = d0.lol
          /\ d1.tables = d0.tables /\ d1.objs = d0.objs \cup batch
          /\ d1.objSeq = d0.objSeq /\ d1.min_m = d0.min_m /\ d1.max_m = d0.max_m
          /\ d1.torn = d0.torn /\ d1.stale = d0.stale /\ d1.loose = d0.loose
      BY <1>7
    <2>. HIDE DEF d1
    <2>3. /\ d2 \in Database /\ d3 \in Database
          /\ d2.ot = d1.ot /\ d2.lol = d1.lol /\ d2.tables = d1.tables
          /\ d2.objs = d1.objs
          /\ d3.ot = d1.ot /\ d3.lol = d1.lol /\ d3.tables = d1.tables
          /\ d3.objs = d1.objs /\ d3.objSeq = d1.objSeq
          /\ d3.torn = d1.torn /\ d3.stale = d1.stale /\ d3.loose = d1.loose
          /\ d3.min_m = IF first < d1.min_m THEN first ELSE d1.min_m
          /\ d3.max_m = IF last > d1.max_m THEN last ELSE d1.max_m
      BY <2>1, <2>2, SetExtremes, Zenon
    <2>. HIDE DEF d2, d3
    <2>4. Partial(d2, c0) /\ Partial(d3, c0)
      BY <1>8, <1>12, <2>2, <2>3, MoreObjects
    <2>5. d3.ot[t] # 0
      <3>1. t \in d0.tables
        BY <1>12 DEF CanInsert
      <3>. QED
        BY <1>8, <2>2, <2>3, <3>1 DEF Partial, HasTypes
    <2>6. /\ Partial(s4.d, s4.c)
          /\ s4.d.ot = d3.ot /\ s4.d.tables = d3.tables /\ s4.d.objs = d3.objs
          /\ s4.d.objSeq = d3.objSeq
          /\ s4.d.min_m = d3.min_m /\ s4.d.max_m = d3.max_m
          /\ s4.d.torn = d3.torn /\ s4.d.stale = d3.stale /\ s4.d.loose = d3.loose
          /\ ~rolledBack => /\ s4.d.lol[t] >= length
                            /\ \A u \in Types : s4.d.lol[u] >= d3.lol[u]
      BY <1>3, <2>4, <2>5, RaiseLength
    <2>. HIDE DEF s4
    <2>7. s4.d \in Database /\ s4.c \in Cache
      BY <2>6 DEF Partial
    <2>8. /\ d5 \in Database
          /\ d5.ot = s4.d.ot /\ d5.lol = s4.d.lol /\ d5.tables = s4.d.tables
          /\ d5.objs = s4.d.objs
          /\ d5.min_m = s4.d.min_m /\ d5.max_m = s4.d.max_m
          /\ d5.torn = s4.d.torn /\ d5.stale = s4.d.stale /\ d5.loose = s4.d.loose
          /\ d5.objSeq >= s4.d.objSeq /\ d5.objSeq >= maxId
      BY <1>3, <2>7, SequenceForward, Zenon
    <2>. HIDE DEF d5
    <2>9. Partial(d5, s4.c)
      BY <2>6, <2>8, FewerObjects
    <2>10. Complete(d0, c0)
      <3>1. ~d0.torn => BoundsHold(d0)
        <4>1. d0.objSeq \in Nat /\ \A p \in db.objs : p.id \in Nat
          BY <1>4, <1>6 DEF Database, Object
        <4>. QED
          BY <1>4, <1>6, <4>1 DEF Complete, BoundsHold, MonadsBounded
      <3>2. LengthsBounded(db) => LengthsBounded(d0)
        BY <1>6 DEF LengthsBounded
      <3>3. ExtremesHold(db) => ExtremesHold(d0)
        BY <1>4, <1>6, ExtremesMeaning
      <3>. QED
        BY <1>4, <1>6, <1>8, <3>1, <3>2, <3>3 DEF Complete
    <2>11. Complete(d5, s4.c)
      <3>1. d0.objSeq \in Nat /\ d5.objSeq \in Nat /\ d0.lol \in [Types -> Nat]
        BY <1>6, <2>8 DEF Database
      <3>2. \A u \in Types : d5.lol[u] \in Nat
        BY <2>8 DEF Database
      <3>3. /\ d5.ot = d0.ot /\ d5.objs = d0.objs \cup batch
            /\ d5.objSeq >= d0.objSeq /\ \A o \in batch : o.id <= d5.objSeq
            /\ d5.min_m = IF first < d0.min_m THEN first ELSE d0.min_m
            /\ d5.max_m = IF last > d0.max_m THEN last ELSE d0.max_m
            /\ d5.torn = d0.torn /\ d5.stale = d0.stale /\ d5.loose = d0.loose
        BY <1>2, <1>3, <2>2, <2>3, <2>6, <2>8, <3>1
      <3>4. ~rolledBack => /\ \A o \in batch : Length(o) <= d5.lol[o.ot]
                           /\ \A u \in Types : d5.lol[u] >= d0.lol[u]
        BY <1>2, <1>3, <2>2, <2>3, <2>6, <2>8, <3>2
      <3>. QED
        BY <1>12, <2>9, <2>10, <3>3, <3>4, InsertComplete
    <2>12. Succeed(State(d5, s4.c)) \/ Fail(s0, partial, State(d5, s4.c))
      BY <1>1, <1>12, Zenon DEF Run, d1, d2, d3, s4, d5
    <2>13. CASE Succeed(State(d5, s4.c))
      BY <2>11, <2>13, FinishKeeps DEF Succeed, StoreInv
    <2>14. CASE Fail(s0, partial, State(d5, s4.c))
      <3>1. \A p \in partial : Partial(p.d, p.c)
        <4>. HIDE DEF inserting
        <4>. QED
          BY <1>9, <1>10, <2>4, <2>6
      <3>2. State(d5, s4.c).c \in Cache
        BY <1>9, <2>7
      <3>. HIDE DEF partial
      <3>. QED
        BY <1>4, <2>14, <3>1, <3>2, FailKeeps
    <2>. QED
      BY <2>12, <2>13, <2>14
  <1>. QED
    BY <1>11, <1>12
\* Recomputing min_m and max_m from all types that have objects gives the
\* extremes.
LEMMA Recompute ==
    ASSUME NEW d \in Database, NEW T, \A o \in d.objs : o.ot \in T,
           NEW b \in Extremes(d, T)
    PROVE  LET e == setMin_max_m_fromObjectTypes(d, b)
           IN  /\ e \in Database
               /\ e.ot = d.ot /\ e.lol = d.lol /\ e.tables = d.tables
               /\ e.objs = d.objs /\ e.objSeq = d.objSeq
               /\ e.torn = d.torn /\ e.stale = d.stale
               /\ MonadsBounded(e) /\ ExtremesHold(e)
  <1>. DEFINE F == {o.first : o \in d.objs}
              L == {o.last : o \in d.objs}
              e == setMin_max_m_fromObjectTypes(d, b)
  <1>1. {o \in d.objs : o.ot \in T} = d.objs
    OBVIOUS
  <1>2. b[1] \in Least(F, MAX_MONAD) /\ b[2] \in Greatest(L, 0)
    BY <1>1 DEF Extremes
  <1>3. /\ F \in SUBSET Nat /\ L \in SUBSET Nat /\ MAX_MONAD \in Nat
        /\ \A o \in d.objs : o.first \in F /\ o.last \in L
    BY StoreAssumption DEF Database, Object
  <1>4. /\ b[1] \in Nat /\ \A o \in d.objs : b[1] <= o.first
        /\ b[2] \in Nat /\ \A o \in d.objs : b[2] >= o.last
    <2>. DEFINE lo == b[1]
                hi == b[2]
    <2>1. lo \in Least(F, MAX_MONAD) /\ hi \in Greatest(L, 0)
      BY <1>2
    <2>. HIDE DEF F, L, lo, hi
    <2>2. /\ lo \in Nat /\ \A o \in d.objs : lo <= o.first
          /\ hi \in Nat /\ \A o \in d.objs : hi >= o.last
      BY <1>3, <2>1, LeastFacts, GreatestFacts
    <2>. QED
      BY <2>2 DEF lo, hi
  <1>5. /\ e \in Database
        /\ e.ot = d.ot /\ e.lol = d.lol /\ e.tables = d.tables
        /\ e.objs = d.objs /\ e.objSeq = d.objSeq
        /\ e.torn = d.torn /\ e.stale = d.stale
        /\ e.min_m = b[1] /\ e.max_m = b[2]
    BY <1>4 DEF setMin_max_m_fromObjectTypes, Database
  <1>. HIDE DEF e
  <1>6. MonadsBounded(e)
    <2>1. \A o \in d.objs : o.first \in Nat /\ o.last \in Nat
      BY DEF Database, Object
    <2>. QED
      BY <1>4, <1>5, <2>1 DEF MonadsBounded
  <1>7. ExtremesHold(e)
    BY <1>2, <1>5, ExtremesMeaning
  <1>. QED
    BY <1>5, <1>6, <1>7 DEF e

\* An interrupted recomputation has changed min_m and max_m only.
LEMMA PartlyResetFacts ==
    ASSUME NEW d \in Database, NEW e \in PartlyReset(d)
    PROVE  /\ e \in Database
           /\ e.ot = d.ot /\ e.lol = d.lol /\ e.tables = d.tables
           /\ e.objs = d.objs
  <1>1. CASE e = [d EXCEPT !.min_m = MAX_MONAD]
    BY <1>1, StoreAssumption DEF Database
  <1>2. CASE \E b \in UNION {Extremes(d, T) : T \in SUBSET Types} :
                e = [d EXCEPT !.min_m = b[1], !.max_m = b[2]]
    <2>1. PICK b \in UNION {Extremes(d, T) : T \in SUBSET Types} :
             e = [d EXCEPT !.min_m = b[1], !.max_m = b[2]]
      BY <1>2
    <2>0. PICK T \in SUBSET Types : b \in Extremes(d, T)
      OBVIOUS
    <2>. DEFINE O == {o \in d.objs : o.ot \in T}
                F == {o.first : o \in O}
                L == {o.last : o \in O}
    <2>2. b[1] \in Least(F, MAX_MONAD) /\ b[2] \in Greatest(L, 0)
      BY <2>0 DEF Extremes
    <2>3. F \in SUBSET Nat /\ L \in SUBSET Nat /\ MAX_MONAD \in Nat
      BY StoreAssumption DEF Database, Object
    <2>4. b[1] \in Nat /\ b[2] \in Nat
      <3>. DEFINE lo == b[1]
                  hi == b[2]
      <3>1. lo \in Least(F, MAX_MONAD) /\ hi \in Greatest(L, 0)
        BY <2>2
      <3>. HIDE DEF F, L, lo, hi
      <3>2. lo \in Nat /\ hi \in Nat
        BY <2>3, <3>1, LeastFacts, GreatestFacts
      <3>. QED
        BY <3>2 DEF lo, hi
    <2>. QED
      BY <2>1, <2>4 DEF Database
  <1>. QED
    BY <1>1, <1>2 DEF PartlyReset

\* Without an object that is at neither edge the extremes are the same.
LEMMA ExtremesStay ==
    ASSUME NEW d \in Database, NEW e \in Database, NEW o \in d.objs,
           e.objs = d.objs \ {o}, e.min_m = d.min_m, e.max_m = d.max_m,
           o.first # d.min_m, o.last # d.max_m, ExtremesHold(d)
    PROVE  ExtremesHold(e)
  <1>. DEFINE F(S) == {p.first : p \in S}
              L(S) == {p.last : p \in S}
  <1>1. /\ d.min_m \in Least(F(d.objs), MAX_MONAD)
        /\ d.max_m \in Greatest(L(d.objs), 0)
    BY ExtremesMeaning
  <1>2. /\ \A x \in F(d.objs) : d.min_m <= x
        /\ d.min_m \in F(d.objs)
    BY <1>1 DEF Least
  <1>3. /\ \A x \in L(d.objs) : d.max_m >= x
        /\ d.max_m \in L(d.objs)
    BY <1>1 DEF Greatest
  <1>4. e.min_m \in F(e.objs) /\ F(e.objs) \subseteq F(d.objs)
    BY <1>2
  <1>5. e.max_m \in L(e.objs) /\ L(e.objs) \subseteq L(d.objs)
    BY <1>3
  <1>6. e.min_m \in Least(F(e.objs), MAX_MONAD)
    <2>. HIDE DEF F
    <2>. QED
      BY <1>2, <1>4 DEF Least
  <1>7. e.max_m \in Greatest(L(e.objs), 0)
    <2>. HIDE DEF L
    <2>. QED
      BY <1>3, <1>5 DEF Greatest
  <1>. QED
    BY <1>6, <1>7, ExtremesMeaning
\* The end of a statement that removes objects: those that are left are still
\* covered by the lengths, and min_m and max_m are right or need not be.
LEMMA RemoveComplete ==
    ASSUME NEW d, NEW c, Complete(d, c), NEW e, NEW b, Partial(e, b),
           e.ot = d.ot, e.objs \subseteq d.objs, e.objSeq = d.objSeq,
           e.torn = d.torn, e.stale = d.stale,
           \/ MonadsBounded(e)
           \/ e.min_m = d.min_m /\ e.max_m = d.max_m,
           ~rolledBack /\ LengthsBounded(d) =>
              \A o \in e.objs : Length(o) <= e.lol[o.ot],
           ~d.torn /\ ~d.stale /\ ~rolledBack /\ ~e.loose => ExtremesHold(e)
    PROVE  Complete(e, b)
  <1>1. ~e.torn => BoundsHold(e)
    BY DEF Complete, BoundsHold, MonadsBounded
  <1>2. \A o \in e.objs : e.ot[o.ot] # 0
    BY DEF Partial, HasTypes
  <1>3. ~e.torn /\ ~e.stale /\ ~rolledBack => LengthsBounded(e)
    BY <1>2 DEF Complete, LengthsBounded
  <1>. QED
    BY <1>1, <1>3 DEF Complete

\* DELETE OBJECTS BY ID_DS keeps the invariant.
LEMMA DropObjectKeeps ==
    ASSUME StoreInv, NEW o \in db.objs, NEW read \in BOOLEAN, dropObject(o, read)
    PROVE  StoreInv'
  <1>. DEFINE c0 == addObjectTypesToCache({o.ot})
              first == IF read THEN o.first ELSE MAX_MONAD
              last == IF read THEN o.last ELSE 0
              length == last - first + 1
              d1 == [db EXCEPT !.objs = @ \ {o}, !.loose = @ \/ ~read]
              atEdge == db.min_m = first \/ db.max_m = last
              partial == {State(d, c0) : d \in {db, d1} \cup
                             (IF atEdge THEN PartlyReset(d1) ELSE {})}
  <1>1. PICK x \in Extremes(d1, TypesInDB(db)) :
           LET d2 == IF atEdge THEN setMin_max_m_fromObjectTypes(d1, x) ELSE d1
               s2 == State(d2, c0)
               end == IF length >= getLargestObjectLength(c0, d2, o.ot)
                      THEN setLargestObjectLength(s2, o.ot, length) ELSE s2
           IN  IF atEdge => TypesInDB(db) \subseteq db.tables
               THEN IF read THEN Run(State(db, c0), partial, end)
                    ELSE SucceedRegardless(end)
               ELSE Refuse(State(db, c0), partial)
    BY Zenon DEF dropObject
  <1>. DEFINE d2 == IF atEdge THEN setMin_max_m_fromObjectTypes(d1, x) ELSE d1
              g == getLargestObjectLength(c0, d2, o.ot)
              end == IF length >= g THEN setLargestObjectLength(State(d2, c0), o.ot, length)
                     ELSE State(d2, c0)
  <1>2. Complete(db, c0) /\ Partial(db, c0) /\ db \in Database /\ c0 \in Cache
    BY AskComplete DEF Complete, Partial
  <1>. HIDE DEF c0
  <1>3. o \in Object /\ o.ot \in Types /\ o.first \in Nat /\ o.last \in Nat
    BY <1>2 DEF Database, Object
  <1>4. first \in Nat /\ last \in Nat /\ length \in Int
    BY <1>3, StoreAssumption
  <1>5. /\ d1 \in Database /\ d1.ot = db.ot /\ d1.lol = db.lol
        /\ d1.tables = db.tables /\ d1.objs = db.objs \ {o}
        /\ d1.objSeq = db.objSeq /\ d1.min_m = db.min_m /\ d1.max_m = db.max_m
        /\ d1.torn = db.torn /\ d1.stale = db.stale
    BY <1>2 DEF Database
  <1>6. ~read => d1.loose
    BY <1>2 DEF Database
  <1>7. read /\ ~d1.loose => ~db.loose
    BY <1>2 DEF Database
  <1>. HIDE DEF d1
  <1>8. \A p \in d1.objs : p.ot \in TypesInDB(db)
    BY <1>2, <1>5 DEF Partial, HasTypes, TypesInDB, Database
  <1>9. /\ d2 \in Database /\ d2.ot = db.ot /\ d2.lol = db.lol
        /\ d2.tables = db.tables /\ d2.objs = db.objs \ {o}
        /\ d2.objSeq = db.objSeq /\ d2.torn = db.torn /\ d2.stale = db.stale
        /\ \/ MonadsBounded(d2)
           \/ d2.min_m = db.min_m /\ d2.max_m = db.max_m
        /\ ~db.torn /\ ~db.stale /\ ~rolledBack /\ ~d2.loose => ExtremesHold(d2)
    <2>1. CASE atEdge
      <3>1. d2 = setMin_max_m_fromObjectTypes(d1, x)
        BY <2>1
      <3>. HIDE DEF d2
      <3>2. /\ d2 \in Database /\ d2.ot = d1.ot /\ d2.lol = d1.lol
            /\ d2.tables = d1.tables /\ d2.objs = d1.objs
            /\ d2.objSeq = d1.objSeq /\ d2.torn = d1.torn /\ d2.stale = d1.stale
            /\ MonadsBounded(d2) /\ ExtremesHold(d2)
        BY <1>5, <1>8, <3>1, Recompute
      <3>. QED
        BY <1>5, <3>2
    <2>2. CASE ~atEdge
      <3>1. d2 = d1
        BY <2>2
      <3>. HIDE DEF d2
      <3>2. ASSUME ~db.torn, ~db.stale, ~rolledBack, ~d1.loose
            PROVE  ExtremesHold(d1)
        <4>1. read /\ ~db.loose
          BY <1>6, <1>7, <3>2
        <4>2. ExtremesHold(db)
          BY <1>2, <3>2, <4>1 DEF Complete
        <4>3. o.first # db.min_m /\ o.last # db.max_m
          BY <2>2, <4>1
        <4>. QED
          BY <1>2, <1>5, <4>2, <4>3, ExtremesStay
      <3>. QED
        BY <1>5, <3>1, <3>2
    <2>. QED
      BY <2>1, <2>2
  <1>. HIDE DEF d2
  <1>10. Partial(d1, c0) /\ Partial(d2, c0)
    BY <1>2, <1>5, <1>9, FewerObjects
  <1>11. \A d, c : State(d, c).d = d /\ State(d, c).c = c
    BY DEF State
  <1>12. \A p \in partial : Partial(p.d, p.c)
    <2>1. \A e \in PartlyReset(d1) : Partial(e, c0)
      BY <1>5, <1>10, PartlyResetFacts, FewerObjects
    <2>. QED
      BY <1>2, <1>10, <1>11, <2>1
  <1>13. Complete(end.d, end.c) /\ end = State(end.d, end.c)
    <2>1. g \in Nat
      BY <1>2, <1>3, <1>9 DEF getLargestObjectLength, Database, Cache
    <2>2. ~rolledBack => g = d2.lol[o.ot]
      BY <1>3, <1>10, CoherentFields DEF Partial, getLargestObjectLength
    <2>3. /\ Partial(end.d, end.c)
          /\ end.d.ot = d2.ot /\ end.d.objs = d2.objs
          /\ end.d.objSeq = d2.objSeq
          /\ end.d.min_m = d2.min_m /\ end.d.max_m = d2.max_m
          /\ end.d.torn = d2.torn /\ end.d.stale = d2.stale /\ end.d.loose = d2.loose
          /\ ~rolledBack => \A u \in Types : end.d.lol[u] >= d2.lol[u]
      <3>1. CASE length >= g
        <4>1. length \in Nat /\ end = setLargestObjectLength(State(d2, c0), o.ot, length)
          BY <1>4, <2>1, <3>1
        <4>. HIDE DEF end, length, g
        <4>2. /\ Partial(end.d, end.c)
              /\ end.d.ot = d2.ot /\ end.d.objs = d2.objs
              /\ end.d.objSeq = d2.objSeq
              /\ end.d.min_m = d2.min_m /\ end.d.max_m = d2.max_m
              /\ end.d.torn = d2.torn /\ end.d.stale = d2.stale /\ end.d.loose = d2.loose
              /\ \A u \in Types : end.d.lol[u] = IF u = o.ot /\ d2.ot[o.ot] # 0
                                                 THEN length ELSE d2.lol[u]
          <5>. DEFINE t == o.ot
          <5>1. t \in Types /\ end = setLargestObjectLength(State(d2, c0), t, length)
            BY <1>3, <4>1
          <5>. HIDE DEF t
          <5>2. /\ Partial(end.d, end.c)
                /\ end.d.ot = d2.ot /\ end.d.objs = d2.objs
                /\ end.d.objSeq = d2.objSeq
                /\ end.d.min_m = d2.min_m /\ end.d.max_m = d2.max_m
                /\ end.d.torn = d2.torn /\ end.d.stale = d2.stale
                /\ end.d.loose = d2.loose
            BY <1>10, <4>1, <5>1, SetLength
          <5>3. \A u \in Types : end.d.lol[u] = IF u = t /\ d2.ot[t] # 0
                                                 THEN length ELSE d2.lol[u]
            BY <1>10, <4>1, <5>1, SetLength
          <5>. QED
            BY <5>2, <5>3 DEF t
        <4>3. \A u \in Types : d2.lol[u] \in Nat
          BY <1>9 DEF Database
        <4>. QED
          BY <2>1, <2>2, <3>1, <4>1, <4>2, <4>3
      <3>2. CASE ~(length >= g)
        <4>1. end.d = d2 /\ end.c = c0
          BY <1>11, <3>2
        <4>2. \A u \in Types : d2.lol[u] \in Nat
          BY <1>9 DEF Database
        <4>. HIDE DEF end
        <4>. QED
          BY <1>10, <4>1, <4>2
      <3>. QED
        BY <3>1, <3>2
    <2>4. end = State(end.d, end.c)
      BY DEF setLargestObjectLength, State
    <2>. HIDE DEF end
    <2>5. ~rolledBack /\ LengthsBounded(db) =>
              \A p \in end.d.objs : Length(p) <= end.d.lol[p.ot]
      <3>. SUFFICES ASSUME ~rolledBack, LengthsBounded(db), NEW p \in end.d.objs
                    PROVE  Length(p) <= end.d.lol[p.ot]
        OBVIOUS
      <3>1. p \in db.objs /\ p.ot \in Types /\ Length(p) \in Int
        BY <1>2, <1>9, <2>3 DEF Database, Object, Length
      <3>2. Length(p) <= db.lol[p.ot]
        BY <3>1 DEF LengthsBounded
      <3>3. end.d.lol[p.ot] \in Nat /\ db.lol[p.ot] \in Nat
        BY <1>2, <2>3, <3>1 DEF Partial, Database
      <3>. QED
        BY <1>9, <2>3, <3>1, <3>2, <3>3
    <2>6. \/ MonadsBounded(end.d)
          \/ end.d.min_m = db.min_m /\ end.d.max_m = db.max_m
      BY <1>9, <2>3 DEF MonadsBounded
    <2>7. ExtremesHold(d2) => ExtremesHold(end.d)
      BY <1>9, <2>3, ExtremesMeaning DEF Partial
    <2>8. Complete(end.d, end.c)
      BY <1>2, <1>9, <2>3, <2>5, <2>6, <2>7, RemoveComplete
    <2>. QED
      BY <2>4, <2>8
  <1>. HIDE DEF end, partial
  <1>14. end.c \in Cache /\ State(db, c0).c \in Cache
    BY <1>2, <1>11, <1>13 DEF Complete, Partial
  <1>15. \/ Succeed(end) \/ SucceedRegardless(end)
         \/ Fail(State(db, c0), partial, end)
         \/ Fail(State(db, c0), partial, State(db, c0))
    BY <1>1, Zenon DEF Run, Refuse, end, d2, partial
  <1>16. CASE Succeed(end) \/ SucceedRegardless(end)
    <2>1. Finish(State(end.d, end.c)) /\ faults' \in Nat
      BY <1>13, <1>16 DEF Succeed, SucceedRegardless, StoreInv
    <2>. QED
      BY <1>13, <2>1, FinishKeeps
  <1>17. CASE \/ Fail(State(db, c0), partial, end)
              \/ Fail(State(db, c0), partial, State(db, c0))
    BY <1>2, <1>12, <1>14, <1>17, FailKeeps
  <1>. QED
    BY <1>15, <1>16, <1>17
\* DELETE OBJECTS BY MONADS keeps the invariant.
LEMMA DropObjectsInMonadsKeeps ==
    ASSUME StoreInv, NEW t \in Types, NEW som, dropObjectsInMonads(t, som)
    PROVE  StoreInv'
  <1>. DEFINE c0 == addObjectTypesToCache({t})
              gone == WithinMonads(t, som)
              d1 == [db EXCEPT !.objs = @ \ gone]
              partial == {State(d, c0) : d \in {db, d1} \cup PartlyReset(d1)}
              lengths == {Length(o) : o \in ObjectsOf(d1, t)}
  <1>1. PICK x \in Extremes(d1, TypesInDB(db)), length \in Greatest(lengths, 0) :
           LET d2 == setMin_max_m_fromObjectTypes(d1, x)
               end == setLargestObjectLength(State(d2, c0), t, length)
           IN  IF TypesInDB(db) \subseteq db.tables
               THEN Run(State(db, c0), partial, end)
               ELSE Refuse(State(db, c0), partial)
    BY Zenon DEF dropObjectsInMonads
  <1>. DEFINE d2 == setMin_max_m_fromObjectTypes(d1, x)
              end == setLargestObjectLength(State(d2, c0), t, length)
  <1>2. Complete(db, c0) /\ Partial(db, c0) /\ db \in Database /\ c0 \in Cache
    BY AskComplete DEF Complete, Partial
  <1>. HIDE DEF c0, gone
  <1>3. /\ d1 \in Database /\ d1.ot = db.ot /\ d1.lol = db.lol
        /\ d1.tables = db.tables /\ d1.objs = db.objs \ gone
        /\ d1.objSeq = db.objSeq /\ d1.torn = db.torn /\ d1.stale = db.stale
    BY <1>2 DEF Database
  <1>. HIDE DEF d1
  <1>4. \A p \in d1.objs : p.ot \in TypesInDB(db)
    BY <1>2, <1>3 DEF Partial, HasTypes, TypesInDB, Database
  <1>5. /\ d2 \in Database /\ d2.ot = d1.ot /\ d2.lol = d1.lol
        /\ d2.tables = d1.tables /\ d2.objs = d1.objs
        /\ d2.objSeq = d1.objSeq /\ d2.torn = d1.torn /\ d2.stale = d1.stale
        /\ MonadsBounded(d2) /\ ExtremesHold(d2)
    BY <1>3, <1>4, Recompute
  <1>. HIDE DEF d2
  <1>6. Partial(d1, c0) /\ Partial(d2, c0)
    BY <1>2, <1>3, <1>5, FewerObjects
  <1>7. \A d, c : State(d, c).d = d /\ State(d, c).c = c
    BY DEF State
  <1>8. \A p \in partial : Partial(p.d, p.c)
    <2>1. \A e \in PartlyReset(d1) : Partial(e, c0)
      BY <1>3, <1>6, PartlyResetFacts, FewerObjects
    <2>. QED
      BY <1>2, <1>6, <1>7, <2>1
  <1>9. length \in Nat /\ \A o \in d1.objs : o.ot = t => length >= Length(o)
    <2>1. /\ lengths \in SUBSET Nat
          /\ \A o \in d1.objs : o.ot = t => Length(o) \in lengths
      BY <1>3 DEF Database, Object, Length, ObjectsOf
    <2>. HIDE DEF lengths
    <2>. QED
      BY <2>1, GreatestFacts
  <1>10. end = State(end.d, end.c)
    BY DEF setLargestObjectLength, State
  <1>11. /\ Partial(end.d, end.c)
         /\ end.d.ot = d2.ot /\ end.d.objs = d2.objs
         /\ end.d.objSeq = d2.objSeq
         /\ end.d.min_m = d2.min_m /\ end.d.max_m = d2.max_m
         /\ end.d.torn = d2.torn /\ end.d.stale = d2.stale /\ end.d.loose = d2.loose
    BY <1>6, <1>9, SetLength
  <1>12. \A u \in Types : end.d.lol[u] = IF u = t /\ d2.ot[t] # 0
                                         THEN length ELSE d2.lol[u]
    BY <1>6, <1>9, SetLength
  <1>. HIDE DEF end
  <1>13. Complete(end.d, end.c)
    <2>1. LengthsBounded(db) => \A p \in end.d.objs : Length(p) <= end.d.lol[p.ot]
      <3>. SUFFICES ASSUME LengthsBounded(db), NEW p \in end.d.objs
                    PROVE  Length(p) <= end.d.lol[p.ot]
        OBVIOUS
      <3>1. p \in db.objs /\ p \in d1.objs /\ p.ot \in Types /\ Length(p) \in Int
        BY <1>2, <1>3, <1>5, <1>11 DEF Database, Object, Length
      <3>2. Length(p) <= db.lol[p.ot] /\ db.ot[p.ot] # 0
        BY <3>1 DEF LengthsBounded
      <3>. QED
        BY <1>3, <1>5, <1>9, <1>12, <3>1, <3>2
    <2>2. MonadsBounded(end.d)
      BY <1>5, <1>11 DEF MonadsBounded
    <2>3. ExtremesHold(end.d)
      BY <1>5, <1>11, ExtremesMeaning DEF Partial
    <2>. QED
      BY <1>2, <1>3, <1>5, <1>11, <2>1, <2>2, <2>3, RemoveComplete
  <1>. HIDE DEF partial
  <1>14. end.c \in Cache /\ State(db, c0).c \in Cache
    BY <1>2, <1>7, <1>11 DEF Partial
  <1>15. \/ Succeed(end) \/ Fail(State(db, c0), partial, end)
         \/ Fail(State(db, c0), partial, State(db, c0))
    BY <1>1, Zenon DEF Run, Refuse, end, d2, partial
  <1>16. CASE Succeed(end)
    <2>1. Finish(State(end.d, end.c)) /\ faults' \in Nat
      BY <1>10, <1>16 DEF Succeed, StoreInv
    <2>. QED
      BY <1>13, <2>1, FinishKeeps
  <1>17. CASE \/ Fail(State(db, c0), partial, end)
              \/ Fail(State(db, c0), partial, State(db, c0))
    BY <1>2, <1>8, <1>14, <1>17, FailKeeps
  <1>. QED
    BY <1>15, <1>16, <1>17

-----------------------------------------------------------------------------
\* Object types come and go

\* CREATE OBJECT TYPE keeps the invariant.
LEMMA CreateObjectTypeKeeps ==
    ASSUME StoreInv, NEW t \in Types, createObjectType(t)
    PROVE  StoreInv'
  <1>. DEFINE id == db.typeSeq + 1
              d1 == [db EXCEPT !.typeSeq = id]
              d2 == [d1 EXCEPT !.ot[t] = id, !.lol[t] = 0]
              d3 == [d2 EXCEPT !.tables = @ \cup {t}]
              c3 == [cache EXCEPT ![t] = [id |-> id, lol |-> 0]]
              s0 == State(db, cache)
              P == {State(d, cache) : d \in {db, d1, d2, d3}}
              Q == {State(d, cache) : d \in {db, d1, d2}}
  <1>1. /\ cache[t].id = 0 /\ db.ot[t] = 0
        /\ \/ Succeed(State(d3, c3)) \/ Fail(s0, P, s0) \/ Fail(s0, Q, s0)
    BY Zenon DEF createObjectType, objectTypeExists, Cached, Refuse
  <1>2. Complete(db, cache) /\ Partial(db, cache) /\ db \in Database /\ cache \in Cache
    BY DEF StoreInv, DatabaseInv, Complete, Partial
  <1>3. id \in Nat /\ id # 0
    BY <1>2 DEF Database
  <1>. HIDE DEF id
  <1>4. /\ d1 \in Database /\ d1.ot = db.ot /\ d1.lol = db.lol
        /\ d1.tables = db.tables /\ d1.objs = db.objs
        /\ d1.objSeq = db.objSeq /\ d1.min_m = db.min_m /\ d1.max_m = db.max_m
        /\ d1.torn = db.torn /\ d1.stale = db.stale /\ d1.loose = db.loose
    BY <1>2, <1>3 DEF Database
  <1>. HIDE DEF d1
  <1>5. /\ d2 \in Database
        /\ \A u \in Types : d2.ot[u] = IF u = t THEN id ELSE db.ot[u]
        /\ \A u \in Types : d2.lol[u] = IF u = t THEN 0 ELSE db.lol[u]
        /\ d2.tables = db.tables /\ d2.objs = db.objs
        /\ d2.objSeq = db.objSeq /\ d2.min_m = db.min_m /\ d2.max_m = db.max_m
        /\ d2.torn = db.torn /\ d2.stale = db.stale /\ d2.loose = db.loose
    BY <1>3, <1>4 DEF Database
  <1>. HIDE DEF d2
  <1>6. /\ d3 \in Database /\ d3.ot = d2.ot /\ d3.lol = d2.lol
        /\ d3.tables = db.tables \cup {t} /\ d3.objs = db.objs
        /\ d3.objSeq = db.objSeq /\ d3.min_m = db.min_m /\ d3.max_m = db.max_m
        /\ d3.torn = db.torn /\ d3.stale = db.stale /\ d3.loose = db.loose
    BY <1>5 DEF Database
  <1>. HIDE DEF d3
  <1>7. db.tables \subseteq Types /\ \A o \in db.objs : o.ot \in Types /\ o.ot # t
    BY <1>1, <1>2 DEF Partial, HasTypes, Database, Object
  <1>8. HasTypes(d2) /\ HasTypes(d3) /\ IdsUnique(d2) /\ IdsUnique(d3)
    BY <1>2, <1>3, <1>5, <1>6, <1>7 DEF Partial, HasTypes, IdsUnique
  <1>9. ~rolledBack => Coherent(cache, d2) /\ Coherent(cache, d3)
    BY <1>1, <1>2, <1>5, <1>6 DEF Partial, Coherent
  <1>10. c3 \in Cache /\ \A u \in Types : c3[u] = IF u = t THEN [id |-> id, lol |-> 0]
                                                  ELSE cache[u]
    BY <1>2, <1>3 DEF Cache
  <1>11. ~rolledBack => Coherent(c3, d3)
    BY <1>2, <1>5, <1>6, <1>10 DEF Partial, Coherent
  <1>12. Partial(d1, cache) /\ Partial(d2, cache) /\ Partial(d3, cache) /\ Partial(d3, c3)
    <2>1. Partial(d1, cache)
      BY <1>2, <1>4, FewerObjects
    <2>. QED
      BY <1>2, <1>5, <1>6, <1>8, <1>9, <1>10, <1>11, <2>1 DEF Partial
  <1>13. Complete(d3, c3)
    <2>1. BoundsHold(db) => BoundsHold(d3)
      BY <1>6 DEF BoundsHold, MonadsBounded
    <2>2. LengthsBounded(db) => LengthsBounded(d3)
      BY <1>5, <1>6, <1>7 DEF LengthsBounded
    <2>3. ExtremesHold(db) => ExtremesHold(d3)
      BY <1>2, <1>6, ExtremesMeaning
    <2>. QED
      BY <1>2, <1>6, <1>12, <2>1, <2>2, <2>3 DEF Complete
  <1>14. \A d : State(d, cache).d = d /\ State(d, cache).c = cache
    BY DEF State
  <1>15. /\ \A p \in P : Partial(p.d, p.c)
         /\ \A p \in Q : Partial(p.d, p.c)
         /\ s0.c \in Cache
    BY <1>2, <1>12, <1>14
  <1>16. CASE Succeed(State(d3, c3))
    BY <1>13, <1>16, FinishKeeps DEF Succeed, StoreInv
  <1>17. CASE Fail(s0, P, s0) \/ Fail(s0, Q, s0)
    <2>. HIDE DEF P, Q
    <2>. QED
      BY <1>2, <1>15, <1>17, FailKeeps
  <1>. QED
    BY <1>1, <1>16, <1>17

\* DROP OBJECT TYPE keeps the invariant.
LEMMA DropObjectTypeKeeps ==
    ASSUME StoreInv, NEW t \in Types, dropObjectType(t)
    PROVE  StoreInv'
  <1>. DEFINE c0 == addObjectTypesToCache({t})
              d1 == dropTable(db, t)
              same == c0[t].id = db.ot[t]
              d2 == IF same THEN [d1 EXCEPT !.ot[t] = 0, !.lol[t] = 0] ELSE d1
              c2 == deleteObjectTypeFromCache(c0, t)
              s0 == State(db, c0)
              P == {s0, State(d1, c0)}
  <1>1. \/ Succeed(State(d2, c2)) \/ Fail(s0, P, s0) \/ Fail(s0, {s0}, s0)
    BY Zenon DEF dropObjectType, Refuse
  <1>2. Complete(db, c0) /\ Partial(db, c0) /\ db \in Database /\ c0 \in Cache
    BY AskComplete DEF Complete, Partial
  <1>. HIDE DEF c0
  <1>3. /\ d1 \in Database /\ d1.ot = db.ot /\ d1.lol = db.lol
        /\ d1.tables = db.tables \ {t} /\ d1.objs = db.objs \ ObjectsOf(db, t)
        /\ d1.objSeq = db.objSeq /\ d1.min_m = db.min_m /\ d1.max_m = db.max_m
        /\ d1.torn = db.torn /\ d1.stale = db.stale
    BY <1>2 DEF dropTable, Database
  <1>4. ~d1.loose => ~db.loose /\ ObjectsOf(db, t) = {}
    BY <1>2 DEF dropTable, Database
  <1>. HIDE DEF d1, same
  <1>5. /\ d2 \in Database
        /\ \A u \in Types : u # t => d2.ot[u] = db.ot[u] /\ d2.lol[u] = db.lol[u]
        /\ d2.tables = d1.tables /\ d2.objs = d1.objs
        /\ d2.objSeq = db.objSeq /\ d2.min_m = db.min_m /\ d2.max_m = db.max_m
        /\ d2.torn = db.torn /\ d2.stale = db.stale /\ d2.loose = d1.loose
    BY <1>3 DEF Database
  <1>. HIDE DEF d2
  <1>6. /\ d1.tables \subseteq Types
        /\ \A o \in d1.objs : o \in db.objs /\ o.ot \in Types /\ o.ot # t
    BY <1>2, <1>3 DEF Database, Object, ObjectsOf
  <1>7. HasTypes(d1) /\ HasTypes(d2) /\ IdsUnique(d1) /\ IdsUnique(d2)
    BY <1>2, <1>3, <1>5, <1>6 DEF Partial, HasTypes, IdsUnique
  <1>8. c2 \in Cache /\ \A u \in Types : c2[u] = IF u = t THEN NotCached ELSE c0[u]
    BY <1>2 DEF deleteObjectTypeFromCache, Cache, NotCached
  <1>9. ~rolledBack => Coherent(c0, d1) /\ Coherent(c2, d2)
    <2>1. NotCached.id = 0
      BY DEF NotCached
    <2>. QED
      BY <1>2, <1>3, <1>5, <1>8, <2>1 DEF Partial, Coherent
  <1>10. Partial(d1, c0) /\ Partial(d2, c2)
    BY <1>2, <1>3, <1>5, <1>7, <1>8, <1>9 DEF Partial
  <1>11. Complete(d2, c2)
    <2>1. BoundsHold(db) => BoundsHold(d2)
      BY <1>5, <1>6 DEF BoundsHold, MonadsBounded
    <2>2. LengthsBounded(db) => LengthsBounded(d2)
      BY <1>5, <1>6 DEF LengthsBounded
    <2>3. ~d2.loose => ~db.loose /\ d2.objs = db.objs
      BY <1>3, <1>4, <1>5
    <2>4. ~d2.loose /\ ExtremesHold(db) => ExtremesHold(d2)
      BY <1>2, <1>5, <2>3, ExtremesMeaning
    <2>. QED
      BY <1>2, <1>5, <1>10, <2>1, <2>2, <2>3, <2>4 DEF Complete
  <1>12. \A d : State(d, c0).d = d /\ State(d, c0).c = c0
    BY DEF State
  <1>13. /\ \A p \in P : Partial(p.d, p.c)
         /\ \A p \in {s0} : Partial(p.d, p.c)
         /\ s0.c \in Cache
    BY <1>2, <1>10, <1>12
  <1>14. CASE Succeed(State(d2, c2))
    BY <1>11, <1>14, FinishKeeps DEF Succeed, StoreInv
  <1>15. CASE Fail(s0, P, s0) \/ Fail(s0, {s0}, s0)
    <2>. HIDE DEF P
    <2>. QED
      BY <1>2, <1>13, <1>15, FailKeeps
  <1>. QED
    BY <1>1, <1>14, <1>15
-----------------------------------------------------------------------------
\* The specification

\* An empty database and an empty cache are as they should be.
LEMMA InitStoreInv == Init => StoreInv
  <1>. SUFFICES ASSUME Init PROVE StoreInv
    OBVIOUS
  <1>1. /\ EmptyDatabase \in Database /\ EmptyDatabase.objs = {}
        /\ EmptyDatabase.tables = {}
        /\ EmptyDatabase.min_m = MAX_MONAD /\ EmptyDatabase.max_m = 0
    BY StoreAssumption DEF EmptyDatabase, Database
  <1>2. ExtremesHold(EmptyDatabase)
    BY <1>1, ExtremesMeaning DEF Least, Greatest
  <1>3. DatabaseInv(EmptyDatabase)
    BY <1>1, <1>2 DEF DatabaseInv, HasTypes, IdsUnique, BoundsHold, MonadsBounded,
        LengthsBounded
  <1>4. EmptyCache \in Cache /\ Coherent(EmptyCache, EmptyDatabase)
    BY DEF EmptyCache, NotCached, Cache, Coherent
  <1>. QED
    BY <1>3, <1>4 DEF Init, StoreInv

\* Transactions and changes of session keep the invariant: a rollback is
\* remembered, and a new session starts with an empty cache.
LEMMA SessionsKeep ==
    ASSUME StoreInv,
           \/ BeginTransaction \/ CommitTransaction \/ AbortTransaction
           \/ useDatabase \/ Crash
    PROVE  StoreInv'
  <1>. USE DEF StoreInv, DatabaseInv, HasTypes, IdsUnique, BoundsHold,
        MonadsBounded, LengthsBounded, ExtremesHold, Extremes, Coherent
  <1>1. CASE BeginTransaction
    BY <1>1 DEF BeginTransaction
  <1>2. CASE CommitTransaction
    BY <1>2 DEF CommitTransaction
  <1>3. CASE AbortTransaction
    BY <1>3 DEF AbortTransaction
  <1>4. EmptyCache \in Cache /\ \A d : Coherent(EmptyCache, d)
    BY DEF EmptyCache, NotCached, Cache
  <1>5. CASE useDatabase
    BY <1>4, <1>5 DEF useDatabase
  <1>6. CASE Crash
    BY <1>4, <1>6 DEF Crash
  <1>. QED
    BY <1>1, <1>2, <1>3, <1>5, <1>6

\* Every step keeps the invariant.
LEMMA NextStoreInv == StoreInv /\ [Next]_vars => StoreInv'
  <1>. SUFFICES ASSUME StoreInv, [Next]_vars PROVE StoreInv'
    OBVIOUS
  <1>1. CASE UNCHANGED vars
    BY <1>1 DEF vars, StoreInv, DatabaseInv, HasTypes, IdsUnique, BoundsHold,
        MonadsBounded, LengthsBounded, ExtremesHold, Extremes, Coherent
  <1>2. ASSUME NEW t \in Types, ObjectTypeExists(t) PROVE StoreInv'
    <2>1. Complete(db, addObjectTypesToCache({t}))
      BY AskComplete
    <2>. QED
      BY <1>2, <2>1 DEF ObjectTypeExists, Complete, Partial, StoreInv, DatabaseInv,
          HasTypes, IdsUnique, BoundsHold, MonadsBounded, LengthsBounded,
          ExtremesHold, Extremes, Coherent
  <1>3. CASE CreateObject
    BY <1>3, CreateObjectKeeps DEF CreateObject
  <1>4. CASE CreateObjects
    <2>1. PICK o \in NewObject : \E p \in NewObject :
             o.ot = p.ot /\ \E auto \in SUBSET {o, p} : createObjects(o.ot, {o, p}, auto)
      BY <1>4 DEF CreateObjects
    <2>2. PICK p \in NewObject :
             o.ot = p.ot /\ \E auto \in SUBSET {o, p} : createObjects(o.ot, {o, p}, auto)
      BY <2>1
    <2>3. PICK auto \in SUBSET {o, p} : createObjects(o.ot, {o, p}, auto)
      BY <2>2
    <2>. DEFINE batch == {o, p}
    <2>4. IsFiniteSet(batch)
      <3>1. IsFiniteSet({o}) /\ IsFiniteSet({p})
        BY FS_Singleton
      <3>2. IsFiniteSet({o} \cup {p})
        BY <3>1, FS_Union
      <3>3. batch = {o} \cup {p}
        OBVIOUS
      <3>. QED
        BY <3>2, <3>3, Zenon
    <2>5. /\ batch \in SUBSET NewObject /\ batch # {} /\ o.ot \in Types
          /\ \A x \in batch : x.ot = o.ot
          /\ auto \in SUBSET batch /\ createObjects(o.ot, batch, auto)
      BY <2>2, <2>3 DEF NewObject
    <2>. HIDE DEF batch
    <2>. QED
      BY <2>4, <2>5, CreateObjectsKeeps
  <1>5. CASE DropObject
    BY <1>5, DropObjectKeeps DEF DropObject
  <1>6. CASE DropObjectsInMonads
    <2>1. \E t \in Types : \E som : dropObjectsInMonads(t, som)
      BY <1>6, Zenon DEF DropObjectsInMonads
    <2>. QED
      BY <2>1, DropObjectsInMonadsKeeps
  <1>. QED
    BY <1>1, <1>2, <1>3, <1>4, <1>5, <1>6, SessionsKeep, CreateObjectTypeKeeps,
       DropObjectTypeKeeps DEF Next

\* The invariant holds throughout, with every interleaving of statements,
\* transactions, failures, crashes and changes of database.
THEOREM StoreCorrect == Spec => []StoreInv
  BY InitStoreInv, NextStoreInv, PTL DEF Spec

\* Every variable always has its type: no length becomes negative, however an
\* object whose monads could not be read is deleted.
THEOREM StoreTypes == Spec => []TypeOK
  <1>1. StoreInv => TypeOK
    BY DEF StoreInv, DatabaseInv, TypeOK
  <1>. QED
    BY <1>1, StoreCorrect, PTL

\* Every table of objects has its row in object_types and every object a table.
THEOREM TablesAlwaysHaveTypes == Spec => []TablesHaveTypes
  <1>1. StoreInv => TablesHaveTypes
    BY DEF StoreInv, DatabaseInv, TablesHaveTypes
  <1>. QED
    BY <1>1, StoreCorrect, PTL

\* The cache of object types agrees with the database until a rollback.
THEOREM CacheAlwaysCoherent == Spec => []CacheCoherent
  <1>1. StoreInv => CacheCoherent
    BY DEF StoreInv, CacheCoherent, Coherent, Cached
  <1>. QED
    BY <1>1, StoreCorrect, PTL

\* No object is longer than the largest object length of its type.
THEOREM LengthsAlwaysBound == Spec => []LargestObjectLengthBounds
  <1>1. StoreInv => LargestObjectLengthBounds
    BY DEF StoreInv, DatabaseInv, LargestObjectLengthBounds
  <1>. QED
    BY <1>1, StoreCorrect, PTL

\* All objects lie between min_m and max_m, and their ids behind the sequence.
THEOREM DerivedValuesAlwaysBound == Spec => []DerivedValuesBound
  <1>1. StoreInv => DerivedValuesBound
    BY DEF StoreInv, DatabaseInv, DerivedValuesBound, BoundsHold
  <1>. QED
    BY <1>1, StoreCorrect, PTL

\* min_m and max_m are the extremes of the objects.
THEOREM ExtremesAlwaysExact == Spec => []ExtremesExact
  <1>1. StoreInv => ExtremesExact
    BY DEF StoreInv, DatabaseInv, ExtremesExact, ExtremesHold
  <1>. QED
    BY <1>1, StoreCorrect, PTL

\* No two objects of a type have the same id.
THEOREM IdsAlwaysUnique == Spec => []IdsUniqueInType
  <1>1. StoreInv => IdsUniqueInType
    BY DEF StoreInv, DatabaseInv, IdsUniqueInType
  <1>. QED
    BY <1>1, StoreCorrect, PTL
-----------------------------------------------------------------------------
\* Queries

\* The look-behind of a query is long enough: in a database in which nothing was
\* left half done, read with a good cache, the query for a stretch of monads
\* finds every object of the type that has a monad in the stretch.
LookBehindComplete ==
    ~db.torn /\ ~db.stale /\ ~rolledBack =>
       \A t \in Types : \A f, l \in Nat :
          LET lol == getLargestObjectLength(cache, db, t)
          IN  {o \in ObjectsOf(db, t) : o.first <= l /\ o.last >= f}
                 \subseteq StretchQuery(db, lol, t, f, l)

\* The invariant is enough for the look-behind.
LEMMA LookBehind == StoreInv => LookBehindComplete
  <1>. SUFFICES ASSUME StoreInv, ~db.torn, ~db.stale, ~rolledBack,
                       NEW t \in Types, NEW f \in Nat, NEW l \in Nat,
                       NEW o \in ObjectsOf(db, t), o.first <= l, o.last >= f
                PROVE  o \in StretchQuery(db, getLargestObjectLength(cache, db, t), t, f, l)
    BY DEF LookBehindComplete
  <1>1. /\ o \in db.objs /\ o.ot = t /\ db \in Database
        /\ BoundsHold(db) /\ LengthsBounded(db) /\ Coherent(cache, db)
    BY DEF StoreInv, DatabaseInv, ObjectsOf
  <1>2. /\ o.first \in Nat /\ o.last \in Nat
        /\ db.lol[t] \in Nat /\ db.min_m \in Nat
    BY <1>1 DEF Database, Object
  <1>3. getLargestObjectLength(cache, db, t) = db.lol[t]
    BY <1>1, CoherentFields DEF getLargestObjectLength
  <1>4. db.min_m <= o.first /\ o.last - o.first + 1 <= db.lol[t]
    BY <1>1 DEF BoundsHold, MonadsBounded, LengthsBounded, Length
  <1>5. o.first >= f - db.lol[t] + 1
    BY <1>2, <1>4
  <1>. QED
    BY <1>2, <1>3, <1>4, <1>5 DEF StretchQuery

\* No object is missed by the look-behind of getObjectsHavingMonadsIn.
THEOREM LookBehindAlwaysComplete == Spec => []LookBehindComplete
  BY LookBehind, StoreCorrect, PTL

-----------------------------------------------------------------------------
\* Sets of monads in queries

\* What is known of the methods of SetOfMonads.
MP == INSTANCE Monads_proofs

\* Those lemmas are about the methods that ObjectStore calls: the empty set,
LEMMA SameEmpty == M!EmptySOM = MP!EmptySOM
  BY Zenon DEF M!EmptySOM, MP!EmptySOM, M!SOM, MP!SOM

\* add,
LEMMA SameAdd ==
    ASSUME NEW s, NEW f, NEW l PROVE M!addRange(s, f, l) = MP!addRange(s, f, l)
  BY Zenon DEF M!MSE, MP!MSE, M!SOM, MP!SOM, M!isEmpty, MP!isEmpty, M!EmptySOM, MP!EmptySOM,
              M!lesser, MP!lesser, M!greater, MP!greater, M!subsume, MP!subsume,
              M!overlapMSE, MP!overlapMSE, M!adjacent, MP!adjacent, M!past, MP!past,
              M!Last, MP!Last, M!Max, MP!Max, M!FoldLeft, MP!FoldLeft,
              M!MapThenFoldSet, MP!MapThenFoldSet, M!insertVisit, MP!insertVisit,
              M!insertCarefully, MP!insertCarefully, M!addMSE, MP!addMSE,
              M!addRange, MP!addRange

\* fillGaps,
LEMMA SameFill ==
    ASSUME NEW s, NEW g PROVE M!fillGaps(s, g) = MP!fillGaps(s, g)
  BY Zenon DEF M!MSE, MP!MSE, M!SOM, MP!SOM, M!isEmpty, MP!isEmpty, M!EmptySOM, MP!EmptySOM,
              M!lesser, MP!lesser, M!greater, MP!greater, M!subsume, MP!subsume,
              M!overlapMSE, MP!overlapMSE, M!adjacent, MP!adjacent, M!past, MP!past,
              M!Last, MP!Last, M!Max, MP!Max, M!FoldLeft, MP!FoldLeft,
              M!MapThenFoldSet, MP!MapThenFoldSet, M!insertVisit, MP!insertVisit,
              M!insertCarefully, MP!insertCarefully, M!addMSE, MP!addMSE,
              M!addRange, MP!addRange,
              M!isWideGap, MP!isWideGap, M!fillVisit, MP!fillVisit, M!fillGaps, MP!fillGaps

\* and hasMonadsInRange are the same in both.
LEMMA SameSearch ==
    ASSUME NEW s, NEW f, NEW l
    PROVE M!hasMonadsInRange(s, f, l) = MP!hasMonadsInRange(s, f, l)
  BY Zenon DEF M!MSE, MP!MSE, M!overlapMSE, MP!overlapMSE, M!Min, MP!Min,
               M!SelectInSeq, MP!SelectInSeq, M!hasMonadsInRange, MP!hasMonadsInRange

\* The monads of a set.
Covered(som) == {x \in Nat : MP!Covers(som.mses, x)}

\* The objects that SomOf goes through.
Soms == {som \in MP!Rep : Covered(som) \in SUBSET Monad}

\* The loop of SomOf begins with no monads,
LEMMA EmptyMonads == M!EmptySOM \in Soms /\ Covered(M!EmptySOM) = {}
  <1>1. MAX_MONAD \in Nat \ {0}
    BY StoreAssumption
  <1>2. MP!EmptySOM \in MP!Rep /\ MP!EmptySOM.mses = << >>
    BY <1>1, MP!EmptyRep
  <1>3. \A x \in Nat : ~MP!Covers(<< >>, x)
    BY DEF MP!Covers
  <1>4. Covered(MP!EmptySOM) = {}
    BY <1>2, <1>3 DEF Covered
  <1> QED  BY <1>2, <1>4, SameEmpty DEF Soms

\* and every turn adds one to those the object covers.
LEMMA AddMonad ==
    ASSUME NEW som \in Soms, NEW m \in Monad
    PROVE  /\ M!addRange(som, m, m) \in Soms
           /\ Covered(M!addRange(som, m, m)) = Covered(som) \cup {m}
  <1> DEFINE e == MP!MSE(m, m)
             r == MP!addMSE(som, e)
  <1>1. MAX_MONAD \in Nat /\ MaxMonad \in Nat /\ MaxMonad < MAX_MONAD
    BY StoreAssumption
  <1>2. m \in Nat /\ 1 <= m /\ m <= MaxMonad
    BY <1>1 DEF Monad
  <1>3. e \in MP!Stretch /\ e.first = m /\ e.last = m
    BY <1>1, <1>2 DEF MP!Stretch, MP!MSE
  <1>4. M!addRange(som, m, m) = r
    BY SameAdd, Zenon DEF MP!addRange
  <1> HIDE DEF e
  <1>5. som \in MP!Rep /\ e.first <= MAX_MONAD
    BY <1>1, <1>2, <1>3 DEF Soms
  <1>6. /\ r \in MP!Rep
        /\ \A x \in Nat : MP!Covers(r.mses, x) <=> MP!Covers(som.mses, x) \/ MP!In(e, x)
    BY <1>1, <1>3, <1>5, MP!AddRep
  <1>7. \A x \in Nat : MP!In(e, x) <=> x = m
    BY <1>2, <1>3 DEF MP!In
  <1> HIDE DEF r
  <1>8. Covered(r) = Covered(som) \cup {m}
    BY <1>2, <1>6, <1>7 DEF Covered
  <1> QED  BY <1>4, <1>6, <1>8 DEF Soms

\* som holds the values of the loop of SomOf.
SomIs(som, S) ==
    som = [m \in 0..MaxMonad |->
             IF m = 0 THEN M!EmptySOM
             ELSE IF m \in S THEN M!addRange(som[m - 1], m, m)
             ELSE som[m - 1]]

\* The loop of SomOf has values.
LEMMA SomOfRecursion ==
    ASSUME NEW S \in SUBSET Monad
    PROVE  \E f : SomIs(f, S) /\ f \in [0..MaxMonad -> Soms]
  <1> DEFINE next(m, som) == IF m \in S THEN M!addRange(som, m, m) ELSE som
             step == [m \in 1 .. MaxMonad |-> [som \in Soms |-> next(m, som)]]
  <1>0. MaxMonad \in Nat /\ MAX_MONAD \in Nat \ {0}
    BY StoreAssumption
  <1>1. ASSUME NEW m \in 1 .. MaxMonad, NEW som \in Soms PROVE next(m, som) \in Soms
    BY AddMonad DEF Monad
  <1> HIDE DEF next
  <1>2. step \in [1 .. MaxMonad -> [Soms -> Soms]]
    BY <1>1
  <1>3. M!EmptySOM \in Soms
    BY EmptyMonads
  <1>4. \A m \in 1 .. MaxMonad, som \in Soms : step[m][som] = next(m, som)
    OBVIOUS
  <1> HIDE DEF step
  <1>5. PICK f : Recurses(f, MaxMonad, Soms, M!EmptySOM, step)
    BY <1>0, <1>2, <1>3, Recursion
  <1>6. /\ f \in [0 .. MaxMonad -> Soms]
        /\ f[0] = M!EmptySOM
        /\ \A m \in 1 .. MaxMonad : f[m] = step[m][f[m - 1]]
    BY <1>5 DEF Recurses
  <1>7. \A m \in 1 .. MaxMonad : f[m] = next(m, f[m - 1])
    <2>1. SUFFICES ASSUME NEW m \in 1 .. MaxMonad PROVE f[m] = next(m, f[m - 1])
      OBVIOUS
    <2>2. f[m - 1] \in Soms
      BY <1>0, <1>6
    <2> QED  BY <1>4, <1>6, <2>2
  <1>8. SomIs(f, S)
    <2> DEFINE g == [m \in 0..MaxMonad |->
                       IF m = 0 THEN M!EmptySOM
                       ELSE IF m \in S THEN M!addRange(f[m - 1], m, m)
                       ELSE f[m - 1]]
    <2>1. \A m \in 0 .. MaxMonad : f[m] = g[m]
      BY <1>0, <1>6, <1>7 DEF next
    <2>2. f = [m \in 0 .. MaxMonad |-> f[m]] /\ g = [m \in 0 .. MaxMonad |-> g[m]]
      BY <1>6
    <2> HIDE DEF g
    <2>3. f = g
      BY <2>1, <2>2
    <2> QED  BY <2>3 DEF SomIs, g
  <1> QED  BY <1>6, <1>8

\* The set of monads of a query is in order and covers just its monads.
LEMMA SomOfExact ==
    ASSUME NEW S \in SUBSET Monad
    PROVE  /\ MP!Used(SomOf(S))
           /\ \A x \in Nat : MP!Covers(SomOf(S).mses, x) <=> x \in S
  <1> DEFINE som == CHOOSE f : SomIs(f, S)
             upTo(k) == {m \in S : m <= k}
             T == {k \in 0 .. MaxMonad : som[k] \in Soms /\ Covered(som[k]) = upTo(k)}
  <1>0. MaxMonad \in Nat /\ MAX_MONAD \in Nat \ {0} /\ MaxMonad < MAX_MONAD
    BY StoreAssumption
  <1>a. \A m \in S : m \in Nat /\ 1 <= m /\ m <= MaxMonad
    BY <1>0 DEF Monad
  <1>1. SomOf(S) = som[MaxMonad]
    BY Zenon DEF SomOf, SomIs
  <1>2. SomIs(som, S)
    BY SomOfRecursion, Zenon
  <1> HIDE DEF som
  <1>3. som[0] = M!EmptySOM
    BY <1>0, <1>2 DEF SomIs
  <1>4. \A m \in 1 .. MaxMonad :
           som[m] = IF m \in S THEN M!addRange(som[m - 1], m, m) ELSE som[m - 1]
    BY <1>0, <1>2 DEF SomIs
  <1>5. 0 \in T
    <2>1. upTo(0) = {}
      BY <1>a
    <2> HIDE DEF upTo
    <2> QED  BY <1>0, <1>3, <2>1, EmptyMonads
  <1>6. ASSUME NEW k \in 1 .. MaxMonad, k - 1 \in T PROVE k \in T
    <2>1. som[k - 1] \in Soms /\ Covered(som[k - 1]) = upTo(k - 1) /\ k \in Monad
      BY <1>6 DEF Monad
    <2>2. upTo(k) = IF k \in S THEN upTo(k - 1) \cup {k} ELSE upTo(k - 1)
      <3>1. k \in Nat /\ \A m \in S : m <= k <=> m = k \/ m <= k - 1
        BY <1>0, <1>a
      <3> QED  BY <3>1
    <2> HIDE DEF upTo
    <2>3. CASE k \in S
      <3>1. som[k] = M!addRange(som[k - 1], k, k)
        BY <1>4, <2>3
      <3>2. /\ M!addRange(som[k - 1], k, k) \in Soms
            /\ Covered(M!addRange(som[k - 1], k, k)) = Covered(som[k - 1]) \cup {k}
        BY <2>1, AddMonad
      <3>3. k \in 0 .. MaxMonad
        OBVIOUS
      <3> QED  BY <2>1, <2>2, <2>3, <3>1, <3>2, <3>3
    <2>4. CASE k \notin S
      BY <1>4, <2>1, <2>2, <2>4
    <2> QED  BY <2>3, <2>4
  <1> HIDE DEF T
  <1>7. \A k \in 0 .. MaxMonad : k \in T
    BY <1>0, <1>5, <1>6, UpTo
  <1>8. MaxMonad \in T
    BY <1>0, <1>7
  <1>9. SomOf(S) \in Soms /\ Covered(SomOf(S)) = S
    <2>1. upTo(MaxMonad) = S
      BY <1>a
    <2> HIDE DEF upTo
    <2> QED  BY <1>1, <1>8, <2>1 DEF T
  <1>10. SomOf(S) \in MP!Rep /\ \A x \in Nat : MP!Covers(SomOf(S).mses, x) <=> x \in S
    BY <1>9 DEF Soms, Covered
  <1>11. \A x \in Nat : MP!Covers(SomOf(S).mses, x) => x <= MAX_MONAD
    BY <1>0, <1>10 DEF Monad
  <1> QED  BY <1>10, <1>11, Zenon DEF MP!Used

-----------------------------------------------------------------------------
\* Queries for sets of monads

\* What a query finds for one of its stretches: the objects of the type that
\* the look-behind query returns and that have a monad in the set.
LEMMA FoundIs ==
    ASSUME NEW t, NEW S \in SUBSET Monad, db \in Database
    PROVE  LET found == getObjectsHavingMonadsIn(t, SomOf(S))
               lol == getLargestObjectLength(cache, db, t)
               st == Stretches(lol, SomOf(S))
           IN  /\ DOMAIN found = DOMAIN st
               /\ \A i \in DOMAIN st : found[i] =
                     {o \in StretchQuery(db, lol, t, st[i].first, st[i].last) :
                         (o.first..o.last) \cap S # {}}
  <1> DEFINE found == getObjectsHavingMonadsIn(t, SomOf(S))
             lol == getLargestObjectLength(cache, db, t)
             som == SomOf(S)
             st == Stretches(lol, som)
  <1>1. MAX_MONAD \in Nat \ {0} /\ S \in SUBSET Nat
    BY StoreAssumption DEF Monad
  <1>2. som \in MP!Rep /\ \A x \in Nat : MP!Covers(som.mses, x) <=> x \in S
    BY SomOfExact DEF MP!Used
  <1>3. /\ DOMAIN found = DOMAIN st
        /\ \A i \in DOMAIN st : found[i] = HavingMonadsIn(db, lol, t, som, st[i])
    BY Zenon DEF getObjectsHavingMonadsIn
  <1> HIDE DEF som, lol, st, found
  <1>4. ASSUME NEW o \in db.objs
        PROVE  M!hasMonadsInRange(som, o.first, o.last) <=> (o.first..o.last) \cap S # {}
    <2>1. o.first \in Nat /\ o.last \in Nat /\ o.first <= o.last
      BY DEF Database, Object
    <2>2. MP!hasMonadsInRange(som, o.first, o.last)
             <=> \E x \in o.first .. o.last : MP!Covers(som.mses, x)
      BY <1>1, <1>2, <2>1, MP!RangeExact
    <2>3. M!hasMonadsInRange(som, o.first, o.last) = MP!hasMonadsInRange(som, o.first, o.last)
      BY SameSearch
    <2>4. \A x \in o.first .. o.last : x \in Nat
      BY <2>1
    <2> QED  BY <1>2, <2>2, <2>3, <2>4
  <1>5. ASSUME NEW i \in DOMAIN st
        PROVE  HavingMonadsIn(db, lol, t, som, st[i])
                  = {o \in StretchQuery(db, lol, t, st[i].first, st[i].last) :
                        (o.first..o.last) \cap S # {}}
    <2>1. \A o \in StretchQuery(db, lol, t, st[i].first, st[i].last) : o \in db.objs
      BY DEF StretchQuery, ObjectsOf
    <2> QED  BY <1>4, <2>1 DEF HavingMonadsIn
  <1>6. \A i \in DOMAIN st : found[i] =
                     {o \in StretchQuery(db, lol, t, st[i].first, st[i].last) :
                         (o.first..o.last) \cap S # {}}
    BY <1>3, <1>5
  <1> QED  BY <1>3, <1>6 DEF found, st, lol, som

\* The stretches of a query ascend, lie further apart than the largest object
\* length, and cover the set of monads.
LEMMA StretchesAre ==
    ASSUME NEW S \in SUBSET Monad, NEW lol \in Nat
    PROVE  LET st == Stretches(lol, SomOf(S))
           IN  /\ DOMAIN st = 1 .. Len(st)
               /\ \A i \in DOMAIN st : st[i].first \in Nat /\ st[i].last \in Nat
               /\ \A i, j \in DOMAIN st :
                     i < j => st[j].first > st[i].last + lol
               /\ \A x \in S : \E i \in DOMAIN st : st[i].first <= x /\ x <= st[i].last
  <1> DEFINE som == SomOf(S)
             g == IF lol > MIN_GAP THEN lol ELSE MIN_GAP
             f == MP!fillGaps(som, g)
             st == f.mses
             F(i) == st[i].first
             L(i) == st[i].last
             n == Len(st)
  <1>1. MAX_MONAD \in Nat \ {0} /\ S \in SUBSET Nat /\ g \in Nat /\ g >= lol
    BY StoreAssumption DEF Monad
  <1>2. MP!Used(som) /\ \A x \in Nat : MP!Covers(som.mses, x) <=> x \in S
    BY SomOfExact
  <1>3. Stretches(lol, som) = st
    BY SameFill, Zenon DEF Stretches
  <1> HIDE DEF som, g
  <1>4. /\ f \in MP!Rep
        /\ \A x \in Nat : MP!Covers(som.mses, x) => MP!Covers(st, x)
    BY <1>1, <1>2, MP!FillRep
  <1>5. \A k \in 1 .. (n - 1) : F(k + 1) - L(k) - 1 >= g
    BY <1>1, <1>2, MP!FillLeavesWide
  <1> HIDE DEF f
  <1>6. MP!Good(st)
    BY <1>1, <1>4, MP!RepParts
  <1>7. DOMAIN st = 1 .. n /\ n \in Nat
    BY <1>6 DEF MP!Good
  <1>8. /\ \A i \in 1 .. n : F(i) \in Nat /\ L(i) \in Nat
        /\ \A i, j \in 1 .. n : i <= j => F(i) <= F(j)
    BY <1>1, <1>6, MP!ListAscends
  <1>9. \A x \in S : \E i \in 1 .. n : F(i) <= x /\ x <= L(i)
    BY <1>1, <1>2, <1>4, Zenon DEF MP!Covers, MP!In
  <1> HIDE DEF F, L, n
  <1>10. ASSUME NEW i \in 1 .. n, NEW j \in 1 .. n, i < j PROVE F(j) > L(i) + lol
    <2>1. i \in 1 .. (n - 1) /\ i + 1 \in 1 .. n /\ i + 1 <= j
      BY <1>7, <1>10
    <2>2. F(i + 1) - L(i) - 1 >= g /\ F(i + 1) <= F(j)
      BY <1>5, <1>8, <2>1
    <2>3. F(i + 1) \in Nat /\ F(j) \in Nat /\ L(i) \in Nat
      BY <1>8, <2>1
    <2> QED  BY <1>1, <2>2, <2>3
  <1> QED  BY <1>3, <1>7, <1>8, <1>9, <1>10 DEF F, L, n, som

\* A query misses no object and returns no other.
LEMMA QueryExact ==
    ASSUME StoreInv, ~db.torn, ~db.stale, ~rolledBack,
           NEW t \in Types, NEW S \in SUBSET Monad
    PROVE  LET found == getObjectsHavingMonadsIn(t, SomOf(S))
           IN  UNION {found[i] : i \in DOMAIN found}
                  = {o \in db.objs : o.ot = t /\ (o.first..o.last) \cap S # {}}
  <1> DEFINE found == getObjectsHavingMonadsIn(t, SomOf(S))
             lol == getLargestObjectLength(cache, db, t)
             st == Stretches(lol, SomOf(S))
             Q(i) == StretchQuery(db, lol, t, st[i].first, st[i].last)
  <1>1. db \in Database /\ cache \in Cache
    BY DEF StoreInv, DatabaseInv
  <1>2. lol \in Nat
    BY <1>1 DEF getLargestObjectLength, Cache, Database
  <1>3. /\ DOMAIN found = DOMAIN st
        /\ \A i \in DOMAIN st : found[i] = {o \in Q(i) : (o.first..o.last) \cap S # {}}
    BY <1>1, FoundIs
  <1>4. /\ \A i \in DOMAIN st : st[i].first \in Nat /\ st[i].last \in Nat
        /\ \A x \in S : \E i \in DOMAIN st : st[i].first <= x /\ x <= st[i].last
    BY <1>2, StretchesAre
  <1>5. \A f, l \in Nat : {o \in ObjectsOf(db, t) : o.first <= l /\ o.last >= f}
                             \subseteq StretchQuery(db, lol, t, f, l)
    BY LookBehind DEF LookBehindComplete
  <1> HIDE DEF found, lol, st
  <1>6. ASSUME NEW i \in DOMAIN st, NEW o \in found[i]
        PROVE  o \in db.objs /\ o.ot = t /\ (o.first..o.last) \cap S # {}
    BY <1>3 DEF StretchQuery, ObjectsOf
  <1>7. ASSUME NEW o \in db.objs, o.ot = t, (o.first..o.last) \cap S # {}
        PROVE  \E i \in DOMAIN st : o \in found[i]
    <2>1. PICK x \in S : x \in o.first .. o.last
      BY <1>7
    <2>2. PICK i \in DOMAIN st : st[i].first <= x /\ x <= st[i].last
      BY <1>4
    <2>3. o.first \in Nat /\ o.last \in Nat /\ st[i].first \in Nat /\ st[i].last \in Nat
      BY <1>1, <1>4 DEF Database, Object
    <2>4. o.first <= st[i].last /\ o.last >= st[i].first
      BY <2>1, <2>2, <2>3
    <2>5. o \in ObjectsOf(db, t)
      BY <1>7 DEF ObjectsOf
    <2>6. o \in Q(i)
      BY <1>5, <2>3, <2>4, <2>5
    <2> QED  BY <1>3, <1>7, <2>6
  <1>8. UNION {found[i] : i \in DOMAIN found}
           = {o \in db.objs : o.ot = t /\ (o.first..o.last) \cap S # {}}
    BY <1>3, <1>6, <1>7
  <1> QED  BY <1>8 DEF found

\* No object is found for two stretches of a query.
LEMMA QueryDisjoint ==
    ASSUME StoreInv, ~db.torn,
           NEW t \in Types, NEW S \in SUBSET Monad
    PROVE  LET found == getObjectsHavingMonadsIn(t, SomOf(S))
           IN  \A i, j \in DOMAIN found : i # j => found[i] \cap found[j] = {}
  <1> DEFINE found == getObjectsHavingMonadsIn(t, SomOf(S))
             lol == getLargestObjectLength(cache, db, t)
             st == Stretches(lol, SomOf(S))
             F(i) == st[i].first
             L(i) == st[i].last
             Q(i) == StretchQuery(db, lol, t, F(i), L(i))
  <1>1. /\ db \in Database /\ cache \in Cache
        /\ MonadsBounded(db) /\ db.min_m \in Nat /\ db.max_m \in Nat
    BY DEF StoreInv, DatabaseInv, BoundsHold, Database
  <1>2. lol \in Nat
    BY <1>1 DEF getLargestObjectLength, Cache, Database
  <1>3. /\ DOMAIN found = DOMAIN st
        /\ \A i \in DOMAIN st : found[i] = {o \in Q(i) : (o.first..o.last) \cap S # {}}
    BY <1>1, FoundIs
  <1>4. /\ DOMAIN st = 1 .. Len(st)
        /\ \A i \in DOMAIN st : F(i) \in Nat /\ L(i) \in Nat
        /\ \A i, j \in DOMAIN st : i < j => F(j) > L(i) + lol
    BY <1>2, StretchesAre
  <1> HIDE DEF found, lol, st, F, L
  <1>5. ASSUME NEW i \in DOMAIN st, NEW j \in DOMAIN st, i < j,
               NEW o \in found[i], o \in found[j]
        PROVE  FALSE
    <2>1. o \in Q(i) /\ o \in Q(j)
      BY <1>3, <1>5
    <2>2. o \in db.objs
      BY <2>1 DEF StretchQuery, ObjectsOf
    <2>3. /\ o.first \in Nat /\ o.last \in Nat /\ o.first <= o.last
          /\ db.min_m <= o.first /\ o.last <= db.max_m
      BY <1>1, <2>2 DEF MonadsBounded, Database, Object
    <2>4. F(j) \in Nat /\ L(i) \in Nat /\ F(j) > L(i) + lol
      BY <1>4, <1>5
    <2>5. o.first <= L(i)
      BY <1>1, <2>1, <2>3, <2>4 DEF StretchQuery
    <2>6. o.first >= F(j) \/ o.first >= F(j) - lol + 1
      BY <1>1, <2>1, <2>3, <2>4 DEF StretchQuery
    <2> QED  BY <1>2, <2>3, <2>4, <2>5, <2>6
  <1>6. ASSUME NEW i \in DOMAIN st, NEW j \in DOMAIN st, i # j
        PROVE  found[i] \cap found[j] = {}
    <2>1. i < j \/ j < i
      BY <1>4, <1>6
    <2> QED  BY <1>5, <2>1
  <1> QED  BY <1>3, <1>6 DEF found

\* A query returns exactly the objects of the type that have a monad in the set
\* asked for, for every set: getObjectsHavingMonadsIn with its filled gaps, its
\* look-behind and its test of each row.
THEOREM QueriesAlwaysExact == Spec => []QueriesExact
  <1>1. StoreInv => QueriesExact
    BY QueryExact DEF QueriesExact
  <1>. QED
    BY <1>1, StoreCorrect, PTL

\* No object is returned for two stretches of a query.
THEOREM StretchesAlwaysDisjoint == Spec => []StretchesDisjoint
  <1>1. StoreInv => StretchesDisjoint
    BY QueryDisjoint DEF StretchesDisjoint
  <1>. QED
    BY <1>1, StoreCorrect, PTL
=============================================================================
