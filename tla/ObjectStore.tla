---------------------------- MODULE ObjectStore -----------------------------
(***************************************************************************)
(* Object types and objects as the MQL statements that create and drop     *)
(* them see them: class EMdFDB (src/EMdF/emdfdb.cpp) on the SQLite 3       *)
(* backend, with its in-memory cache of object types.                      *)
(*                                                                         *)
(* Two derived values decide whether a query finds all its objects: the    *)
(* largest object length of each type, which says how far to look behind   *)
(* the first monad asked for, and min_m/max_m, which bound the monads in   *)
(* use.  Both are kept up to date by every method that writes, each in     *)
(* several commands; the length is also cached, and the cache is not part  *)
(* of the transaction.  This module is about keeping them right across     *)
(* failures, aborted transactions, crashes and changes of database.        *)
(*                                                                         *)
(* A statement is one step.  It is described by the database and cache     *)
(* contents after each of its commands; where it fails, it leaves one of   *)
(* the partial results behind (inside a transaction of the program) or     *)
(* none (otherwise).  EMdFConnection shows why that is so.                 *)
(***************************************************************************)
EXTENDS Integers, FiniteSets

CONSTANTS
    Types,              \* names of object types
    MAX_MONAD,          \* min_m of a database without objects
    MIN_GAP,            \* the gap below which a query is not split
    MaxMonad,           \* bound on the monads of objects
    MaxObjectId,        \* bound on object id_ds
    MaxTypeId,          \* bound on object type ids
    MaxFaults           \* bound on the number of statements that fail

ASSUME StoreAssumption ==
    /\ MAX_MONAD \in Nat /\ MIN_GAP \in Nat /\ MaxMonad \in Nat
    /\ MaxMonad < MAX_MONAD
    /\ MaxObjectId \in Nat /\ MaxTypeId \in Nat /\ MaxFaults \in Nat

VARIABLES
    inProgress,         \* the program's own transaction is in progress
    db,                 \* the database as this connection sees it
    stored,             \* the database on disk
    cache,              \* m_object_type_cache_map; id 0: not in the map
    \* History variables:
    rolledBack,         \* a rollback happened after the cache was last cleared
    faults              \* number of statements that have failed

vars == <<inProgress, db, stored, cache, rolledBack, faults>>

M == INSTANCE Monads

Monad == 1..MaxMonad

Object ==
    {o \in [id : Nat, ot : Types, first : Nat, last : Nat] : o.first <= o.last}

\* The tables of the database.  The last three fields are not in the code:
\*   torn    a statement that failed half-way inside a transaction of the
\*           program left its first commands behind;
\*   stale   something was written while the cache was older than a rollback;
\*   loose   objects are gone without min_m and max_m having been recomputed:
\*           their object type was dropped, or their monads were not read.
Database ==
    [ot : [Types -> Nat],           \* object_types: the id, 0 for no row
     lol : [Types -> Nat],          \* object_types.largest_object_length
     tables : SUBSET Types,         \* the OT_objects tables that exist
     objs : SUBSET Object,          \* their rows
     typeSeq : Nat, objSeq : Nat,   \* the id sequences
     min_m : Nat, max_m : Nat,
     torn : BOOLEAN, stale : BOOLEAN, loose : BOOLEAN]

Cache == [Types -> [id : Nat, lol : Nat]]

TypeOK ==
    /\ inProgress \in BOOLEAN
    /\ db \in Database /\ stored \in Database
    /\ cache \in Cache
    /\ rolledBack \in BOOLEAN
    /\ faults \in Nat

EmptyDatabase ==
    [ot |-> [t \in Types |-> 0], lol |-> [t \in Types |-> 0],
     tables |-> {}, objs |-> {}, typeSeq |-> 0, objSeq |-> 0,
     min_m |-> MAX_MONAD, max_m |-> 0,
     torn |-> FALSE, stale |-> FALSE, loose |-> FALSE]

NotCached == [id |-> 0, lol |-> 0]

EmptyCache == [t \in Types |-> NotCached]

Init ==
    /\ inProgress = FALSE
    /\ db = EmptyDatabase /\ stored = EmptyDatabase
    /\ cache = EmptyCache
    /\ rolledBack = FALSE
    /\ faults = 0

-----------------------------------------------------------------------------
\* How statements end

State(d, c) == [d |-> d, c |-> c]

\* Everything a statement writes is marked as written with a stale cache
\* where a rollback has happened since the cache was cleared.
Marked(d) == [d EXCEPT !.stale = @ \/ rolledBack]

Finish(final) ==
    /\ db' = Marked(final.d)
    /\ stored' = IF inProgress THEN stored ELSE db'
    /\ cache' = final.c
    /\ UNCHANGED <<inProgress, rolledBack>>

Succeed(final) == Finish(final) /\ UNCHANGED faults

\* A command has failed, but the statement goes on as if it had not.
SucceedRegardless(final) ==
    faults < MaxFaults /\ faults' = faults + 1 /\ Finish(final)

\* Inside a transaction of the program the commands executed so far stay in
\* effect.  Otherwise the statement's own transaction is rolled back to
\* before; what was written to the cache by then stays there.
Fail(before, partial, final) ==
    /\ faults < MaxFaults
    /\ faults' = faults + 1
    /\ UNCHANGED inProgress
    /\ IF inProgress
       THEN /\ \E p \in partial :
                  /\ db' = [Marked(p.d) EXCEPT !.torn = @ \/ p.d # before.d]
                  /\ cache' = p.c
            /\ UNCHANGED <<stored, rolledBack>>
       ELSE /\ \E p \in partial \cup {final} :
                  /\ cache' = p.c
                  /\ rolledBack' = (rolledBack \/ p.c # before.c)
            /\ db' = Marked(before.d)
            /\ stored' = db'

\* A statement of which every command can succeed.
Run(before, partial, final) == Succeed(final) \/ Fail(before, partial, final)

\* A statement one of whose commands cannot succeed.
Refuse(before, partial) == Fail(before, partial, before)

-----------------------------------------------------------------------------
\* The object type cache

Cached(t) == cache[t].id # 0

\* The cache is asked first.
objectTypeExists(t) == Cached(t) \/ db.ot[t] # 0

\* What asking leaves in the cache.
addObjectTypesToCache(T) ==
    [t \in Types |->
       IF t \in T /\ ~Cached(t) THEN [id |-> db.ot[t], lol |-> db.lol[t]]
       ELSE cache[t]]

getLargestObjectLength(c, d, t) == IF c[t].id # 0 THEN c[t].lol ELSE d.lol[t]

\* Mutant of setLargestObjectLength: the cache is forgotten.
setLargestObjectLengthInDB(s, t, length) ==
    State([s.d EXCEPT !.lol[t] = IF s.d.ot[t] # 0 THEN length ELSE @], s.c)

\* Sets the length in the row, if there is one, and in the cache, if there.
setLargestObjectLength(s, t, length) ==
    State([s.d EXCEPT !.lol[t] = IF s.d.ot[t] # 0 THEN length ELSE @],
          [s.c EXCEPT ![t] = IF @.id # 0 THEN [@ EXCEPT !.lol = length] ELSE @])

\* Mutant of setLargestObjectLengthIfNecessary: set unconditionally.
setLargestObjectLengthAlways(s, t, length) == setLargestObjectLength(s, t, length)

setLargestObjectLengthIfNecessary(s, t, length) ==
    IF getLargestObjectLength(s.c, s.d, t) >= length THEN s
    ELSE setLargestObjectLength(s, t, length)

\* MQL asks for the object type in most statements before it does anything.
ObjectTypeExists(t) ==
    /\ db.ot[t] # 0
    /\ cache' = addObjectTypesToCache({t})
    /\ UNCHANGED <<inProgress, db, stored, rolledBack, faults>>

\* Mutant of deleteObjectTypeFromCache: nothing is erased.
deleteNothingFromCache(c, t) == c

deleteObjectTypeFromCache(c, t) == [c EXCEPT ![t] = NotCached]

createObjectType(t) ==
    LET s0 == State(db, cache)
        id == db.typeSeq + 1
        d1 == [db EXCEPT !.typeSeq = id]
        d2 == [d1 EXCEPT !.ot[t] = id, !.lol[t] = 0]
        d3 == [d2 EXCEPT !.tables = @ \cup {t}]
        end == State(d3, [cache EXCEPT ![t] = [id |-> id, lol |-> 0]])
    IN  /\ ~objectTypeExists(t)
        /\ db.typeSeq < MaxTypeId
        /\ IF t \notin db.tables
           THEN \/ Succeed(end)
                \/ Fail(s0, {State(d, cache) : d \in {db, d1, d2, d3}}, s0)
           ELSE Refuse(s0, {State(d, cache) : d \in {db, d1, d2}})

ObjectsOf(d, t) == {o \in d.objs : o.ot = t}

\* Mutant of dropTable: the table is emptied only.
emptyTable(d, t) ==
    [d EXCEPT !.objs = @ \ ObjectsOf(d, t), !.loose = @ \/ ObjectsOf(d, t) # {}]

\* The table OT_objects is dropped, with the objects in it.
dropTable(d, t) ==
    [d EXCEPT !.tables = @ \ {t}, !.objs = @ \ ObjectsOf(d, t),
              !.loose = @ \/ ObjectsOf(d, t) # {}]

\* The row is deleted by the id that the cache gave.
dropObjectType(t) ==
    LET c0 == addObjectTypesToCache({t})
        s0 == State(db, c0)
        d1 == dropTable(db, t)
        d2 == IF c0[t].id = db.ot[t]
              THEN [d1 EXCEPT !.ot[t] = 0, !.lol[t] = 0] ELSE d1
        end == State(d2, deleteObjectTypeFromCache(c0, t))
    IN  /\ objectTypeExists(t)
        /\ IF t \in db.tables
           THEN Succeed(end) \/ Fail(s0, {s0, State(d1, c0)}, s0)
           ELSE Refuse(s0, {s0})

-----------------------------------------------------------------------------
\* Objects

setMin_m(d, m) == IF m < d.min_m THEN [d EXCEPT !.min_m = m] ELSE d

setMax_m(d, m) == IF m > d.max_m THEN [d EXCEPT !.max_m = m] ELSE d

\* Mutant of setNextObjectID_DIfNotHigher: the sequence is left where it is.
setNextObjectID_DNever(d, next) == d

setNextObjectID_DIfNotHigher(d, next) ==
    IF d.objSeq < next - 1 THEN [d EXCEPT !.objSeq = next - 1] ELSE d

Length(o) == o.last - o.first + 1

\* Mutant of CanInsert: the tables have no primary key.
CanInsertAnyId(d, new) == \A o \in new : o.ot \in d.tables

\* The rows of a table have distinct object_id_ds (the primary key).
CanInsert(d, new) ==
    \A o \in new :
       /\ o.ot \in d.tables
       /\ \A p \in d.objs \cup new : p.ot = o.ot /\ p.id = o.id => p = o
       /\ o \notin d.objs

\* The least and the greatest of a set, or the value given for none.
Least(S, none) ==
    {x \in S : \A y \in S : x <= y} \cup (IF S = {} THEN {none} ELSE {})

Greatest(S, none) ==
    {x \in S : \A y \in S : x >= y} \cup (IF S = {} THEN {none} ELSE {})

\* CREATE OBJECT.  The id comes from the sequence, or the program gives one
\* that no object has; either way the sequence is changed in a transaction
\* of its own first.
createObject(o, explicit) ==
    LET asked == {t \in Types : explicit /\ db.ot[t] # 0}  \* by objectID_DExists
        c0 == addObjectTypesToCache(asked \cup {o.ot})
        d0 == IF explicit THEN setNextObjectID_DIfNotHigher(db, o.id + 1)
              ELSE [db EXCEPT !.objSeq = @ + 1]
        d1 == [d0 EXCEPT !.objs = @ \cup {o}]
        d2 == setMin_m(d1, o.first)
        d3 == setMax_m(d2, o.last)
        end == setLargestObjectLengthIfNecessary(State(d3, c0), o.ot, Length(o))
    IN  /\ objectTypeExists(o.ot)
        /\ IF explicit THEN \A p \in db.objs : p.id # o.id ELSE o.id = d0.objSeq
        /\ IF CanInsert(d0, {o})
           THEN Run(State(d0, c0), {State(d, c0) : d \in {d0, d1, d2, d3}}, end)
           ELSE Refuse(State(d0, c0), {State(d0, c0)})

\* CREATE OBJECTS WITH OBJECT TYPE: objects of one type in one transaction.
\* The ids of the objects in auto come from the sequence; the others' are not
\* compared with the ids of other types' objects.  The extremes are collected
\* while the objects are inserted.
createObjects(t, batch, auto) ==
    LET c0 == addObjectTypesToCache({t})
        d0 == [db EXCEPT !.objSeq = @ + Cardinality(auto)]
        Inserted(some) == [d0 EXCEPT !.objs = @ \cup some]
        s0 == State(db, c0)
        inserting == {s0} \cup {State(Inserted(some), c0) :
                                 some \in {b \in SUBSET batch : CanInsert(d0, b)}}
    IN  /\ objectTypeExists(t)
        /\ {o.id : o \in auto} = (db.objSeq + 1)..(db.objSeq + Cardinality(auto))
        /\ \E first \in Least({o.first : o \in batch}, MAX_MONAD),
              last \in Greatest({o.last : o \in batch}, 0),
              length \in Greatest({Length(o) : o \in batch}, 0),
              maxId \in Greatest({o.id : o \in batch}, 0) :
             LET d2 == setMin_m(Inserted(batch), first)
                 d3 == setMax_m(d2, last)
                 s4 == setLargestObjectLengthIfNecessary(State(d3, c0), t, length)
                 end == State(setNextObjectID_DIfNotHigher(s4.d, maxId + 1), s4.c)
             IN  IF CanInsert(d0, batch)
                 THEN Run(s0, inserting \cup {State(d2, c0), State(d3, c0), s4}, end)
                 ELSE Refuse(s0, inserting)

\* min_m and max_m are reset and then extended by the objects of each type in
\* T: the pairs of values they can then have (there is exactly one).
Extremes(d, T) ==
    LET objs == {o \in d.objs : o.ot \in T}
    IN  Least({o.first : o \in objs}, MAX_MONAD)
            \X Greatest({o.last : o \in objs}, 0)

\* Mutant of setMin_max_m_fromObjectTypes: max_m is not reset.
setMin_m_fromObjectTypes(d, b) == [d EXCEPT !.min_m = b[1], !.loose = FALSE]

setMin_max_m_fromObjectTypes(d, b) ==
    [d EXCEPT !.min_m = b[1], !.max_m = b[2], !.loose = FALSE]

\* What an interrupted recomputation leaves behind.
PartlyReset(d) ==
    {[d EXCEPT !.min_m = MAX_MONAD]} \cup
    {[d EXCEPT !.min_m = b[1], !.max_m = b[2]] :
        b \in UNION {Extremes(d, T) : T \in SUBSET Types}}

\* Mutant of TypesInDB: the object types in the cache.
TypesInCache(d) == {t \in Types : Cached(t)}

TypesInDB(d) == {t \in Types : d.ot[t] # 0}

\* DELETE OBJECTS BY ID_DS, for one object: the extremes are recomputed if it
\* was at one of them.  Where its monads cannot be read, the set of monads
\* stays empty and the object is deleted all the same.
dropObject(o, read) ==
    LET c0 == addObjectTypesToCache({o.ot})
        first == IF read THEN o.first ELSE MAX_MONAD
        last == IF read THEN o.last ELSE 0
        length == last - first + 1
        d1 == [db EXCEPT !.objs = @ \ {o}, !.loose = @ \/ ~read]
        atEdge == db.min_m = first \/ db.max_m = last
    IN  /\ objectTypeExists(o.ot)
        /\ \E b \in Extremes(d1, TypesInDB(db)) :
             LET d2 == IF atEdge THEN setMin_max_m_fromObjectTypes(d1, b) ELSE d1
                 s2 == State(d2, c0)
                 end == IF length >= getLargestObjectLength(c0, d2, o.ot)
                        THEN setLargestObjectLength(s2, o.ot, length) ELSE s2
                 partial == {State(d, c0) : d \in {db, d1} \cup
                                 (IF atEdge THEN PartlyReset(d1) ELSE {})}
             IN  IF atEdge => TypesInDB(db) \subseteq db.tables
                 THEN IF read THEN Run(State(db, c0), partial, end)
                      ELSE SucceedRegardless(end)
                 ELSE Refuse(State(db, c0), partial)

\* The objects that lie in one of the ranges of a set of monads.
WithinMonads(t, som) ==
    {o \in ObjectsOf(db, t) :
        \E i \in DOMAIN som.mses : som.mses[i].first <= o.first
                                   /\ o.last <= som.mses[i].last}

\* DELETE OBJECTS BY MONADS, for one type.  The largest object length is
\* recomputed from the objects that are left.
dropObjectsInMonads(t, som) ==
    LET c0 == addObjectTypesToCache({t})
        gone == WithinMonads(t, som)
        d1 == [db EXCEPT !.objs = @ \ gone]
    IN  /\ objectTypeExists(t)
        /\ gone # {}
        /\ \E b \in Extremes(d1, TypesInDB(db)),
              length \in Greatest({Length(o) : o \in ObjectsOf(d1, t)}, 0) :
             LET d2 == setMin_max_m_fromObjectTypes(d1, b)
                 end == setLargestObjectLength(State(d2, c0), t, length)
                 partial == {State(d, c0) : d \in {db, d1} \cup PartlyReset(d1)}
             IN  IF TypesInDB(db) \subseteq db.tables
                 THEN Run(State(db, c0), partial, end)
                 ELSE Refuse(State(db, c0), partial)

-----------------------------------------------------------------------------
\* Transactions and sessions

BeginTransaction ==
    /\ ~inProgress
    /\ inProgress' = TRUE
    /\ UNCHANGED <<db, stored, cache, rolledBack, faults>>

CommitTransaction ==
    /\ inProgress
    /\ inProgress' = FALSE
    /\ stored' = db
    /\ UNCHANGED <<db, cache, rolledBack, faults>>

\* ABORT TRANSACTION; also a COMMIT that SQLite answers with a rollback.  The
\* cache is left alone.
AbortTransaction ==
    /\ inProgress
    /\ inProgress' = FALSE
    /\ db' = stored
    /\ rolledBack' = TRUE
    /\ UNCHANGED <<stored, cache, faults>>

\* USE DATABASE of the same database: what is in progress is committed, and
\* the cache is cleared.
useDatabase ==
    /\ inProgress' = FALSE
    /\ stored' = db
    /\ cache' = EmptyCache
    /\ rolledBack' = FALSE
    /\ UNCHANGED <<db, faults>>

\* The process dies and another one opens the database.
Crash ==
    /\ inProgress' = FALSE
    /\ db' = stored
    /\ cache' = EmptyCache
    /\ rolledBack' = FALSE
    /\ UNCHANGED <<stored, faults>>

-----------------------------------------------------------------------------
NewObject ==
    {o \in [id : 1..MaxObjectId, ot : Types, first : Monad, last : Monad] :
        o.first <= o.last}

CreateObject == \E o \in NewObject, explicit \in BOOLEAN : createObject(o, explicit)

CreateObjects ==
    \E o, p \in NewObject :
       /\ o.ot = p.ot /\ o.id <= p.id
       /\ \E auto \in SUBSET {o, p} : createObjects(o.ot, {o, p}, auto)

DropObject == \E o \in db.objs, read \in BOOLEAN : dropObject(o, read)

DropObjectsInMonads ==
    \E t \in Types, f, l \in Monad :
       f <= l /\ dropObjectsInMonads(t, M!SOM(<<M!MSE(f, l)>>, f, l))

Next ==
    \/ \E t \in Types : ObjectTypeExists(t) \/ createObjectType(t) \/ dropObjectType(t)
    \/ CreateObject \/ CreateObjects \/ DropObject \/ DropObjectsInMonads
    \/ BeginTransaction \/ CommitTransaction \/ AbortTransaction
    \/ useDatabase \/ Crash

Spec == Init /\ [][Next]_vars

-----------------------------------------------------------------------------
\* Queries (SELECT)

\* Mutant of StretchQuery: the look-behind is one monad short.
StretchQueryShort(d, lol, t, f, l) ==
    {o \in ObjectsOf(d, t) :
        \/ f = d.min_m /\ l = d.max_m
        \/ o.first <= l /\ o.first > f - lol + 1 /\ o.first >= d.min_m}

\* The look-behind query for one stretch of monads.
StretchQuery(d, lol, t, f, l) ==
    {o \in ObjectsOf(d, t) :
        \/ f = d.min_m /\ l = d.max_m
        \/ /\ o.first <= l
           /\ o.first >= f - lol + 1
           /\ o.first >= d.min_m}

\* Mutant of Stretches: the largest object length is not considered.
StretchesMinGap(lol, som) == M!fillGaps(som, MIN_GAP).mses

\* The stretches that are asked for, each with one query: the set of monads
\* with its short gaps filled.
Stretches(lol, som) ==
    M!fillGaps(som, IF lol > MIN_GAP THEN lol ELSE MIN_GAP).mses

\* The rows that overlap the original set of monads are kept.
HavingMonadsIn(d, lol, t, som, mse) ==
    {o \in StretchQuery(d, lol, t, mse.first, mse.last) :
        M!hasMonadsInRange(som, o.first, o.last)}

getObjectsHavingMonadsIn(t, som) ==
    LET lol == getLargestObjectLength(cache, db, t)
        stretches == Stretches(lol, som)
    IN  [i \in DOMAIN stretches |-> HavingMonadsIn(db, lol, t, som, stretches[i])]

-----------------------------------------------------------------------------
HasTypes(d) ==
    /\ \A t \in d.tables : d.ot[t] # 0
    /\ \A o \in d.objs : o.ot \in d.tables

\* Every table of objects has its row in object_types, and every object is in
\* a table, whatever was left half done or written with an old cache: the
\* recomputations that go from type to type reach every object.
TablesHaveTypes == HasTypes(db) /\ HasTypes(stored)

\* The cache of object types agrees with the database, through failures and
\* crashes, unless a rollback has happened since the cache was cleared.
CacheCoherent ==
    ~rolledBack =>
       \A t \in Types :
          Cached(t) => cache[t] = [id |-> db.ot[t], lol |-> db.lol[t]]

LengthsBounded(d) ==
    \A o \in d.objs : d.ot[o.ot] # 0 /\ Length(o) <= d.lol[o.ot]

\* In a database that was only written to with a good cache, and in which no
\* statement was left half done, no object is longer than the recorded
\* largest object length of its type: this is what the look-behind of a
\* query relies on.
LargestObjectLengthBounds ==
    \A d \in {db, stored} : ~d.torn /\ ~d.stale => LengthsBounded(d)

MonadsBounded(d) == \A o \in d.objs : d.min_m <= o.first /\ o.last <= d.max_m

\* Unless a statement was left half done, every object lies between min_m and
\* max_m, and every id given out is behind the sequence, so that no object
\* is ever given the id of another one of any type by the sequence.
DerivedValuesBound ==
    \A d \in {db, stored} :
       ~d.torn => MonadsBounded(d) /\ \A o \in d.objs : o.id <= d.objSeq

\* min_m and max_m are exactly the extremes of the objects, or MAX_MONAD and 0
\* if there are none, unless objects are gone without a recomputation.
ExtremesExact ==
    \A d \in {db, stored} :
       ~d.torn /\ ~d.stale /\ ~d.loose => <<d.min_m, d.max_m>> \in Extremes(d, Types)

IdsUnique(d) == \A o, p \in d.objs : o.ot = p.ot /\ o.id = p.id => o = p

\* No two objects of a type have the same id.
IdsUniqueInType == IdsUnique(db) /\ IdsUnique(stored)

\* A set of monads S as the query has it: a SetOfMonads object, built monad by
\* monad.
SomOf(S) ==
    LET som[m \in 0..MaxMonad] ==
            IF m = 0 THEN M!EmptySOM
            ELSE IF m \in S THEN M!addRange(som[m - 1], m, m)
            ELSE som[m - 1]
    IN  som[MaxMonad]

\* A query returns exactly the objects that have a monad in the set of monads
\* asked for, whatever happened before, unless a statement was left half done
\* or a rollback left the cache behind.
QueriesExact ==
    ~db.torn /\ ~db.stale /\ ~rolledBack =>
       \A t \in {u \in Types : db.ot[u] # 0} : \A S \in (SUBSET Monad) \ {{}} :
          LET found == getObjectsHavingMonadsIn(t, SomOf(S))
          IN  UNION {found[i] : i \in DOMAIN found}
                 = {o \in db.objs : o.ot = t /\ (o.first..o.last) \cap S # {}}

\* No object is returned for two stretches of a query, which is why the code
\* may do without looking for it among the objects it already has.  The length
\* that separates the stretches is the one that looks behind, right or not.
StretchesDisjoint ==
    ~db.torn =>
       \A t \in {u \in Types : db.ot[u] # 0} : \A S \in (SUBSET Monad) \ {{}} :
          LET found == getObjectsHavingMonadsIn(t, SomOf(S))
          IN  \A i, j \in DOMAIN found : i # j => found[i] \cap found[j] = {}

\* "largest_object_length the length (in monads) of the longest object"
\* (emdfdb.cpp): in a database in which every statement succeeded, no object is
\* longer.  An aborted transaction leaves the cached length too large, and a
\* later object of that length does not raise the stored one.
LengthIsThatOfTheLongest == ~db.torn => LengthsBounded(db)
=============================================================================
