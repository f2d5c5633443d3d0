---------------------------- MODULE EnumCatalog -----------------------------
(***************************************************************************)
(* Enumerations: the tables enumerations and enumeration_constants, the    *)
(* caches in front of them (m_enum_cache and class EnumConstCache), and    *)
(* the statements CREATE, UPDATE and DROP ENUMERATION.                     *)
(*                                                                         *)
(* An enumeration is meant to be a bijection between labels and values     *)
(* with one default.  UPDATE ENUMERATION checks this for the result of its *)
(* list of changes, and then makes the changes one by one, each with a     *)
(* command of its own and not in one transaction; the cache follows each   *)
(* change.  So every change is a step of the model, between which the      *)
(* process may die, and in which the cache's own checks may fail.          *)
(*                                                                         *)
(* EnumConstCache has two maps to the same EnumConstInfo objects: SECIMap  *)
(* by name and VECIMap by value.  Objects have fixed names, SECIMap has    *)
(* one object per name, and an object is in VECIMap only if it is in       *)
(* SECIMap, with its value as the key (until an assertion fails); so the   *)
(* two maps are a set of objects and the set of the names in VECIMap.      *)
(***************************************************************************)
EXTENDS Naturals, Sequences, FiniteSets

CONSTANTS
    Enums,              \* names of enumerations
    MaxName,            \* the labels, in alphabetical order, are 1..MaxName
    MaxValue,           \* bound on the values of constants
    MaxEnumId,          \* bound on enumeration ids
    MaxChanges,         \* bound on the length of the list of a statement
    MaxFaults           \* bound on the number of commands that fail

ASSUME CatalogAssumption ==
    /\ MaxName \in Nat /\ MaxValue \in Nat /\ MaxEnumId \in Nat
    /\ MaxChanges \in Nat /\ MaxFaults \in Nat

Names == 1..MaxName
EnumIds == 1..MaxEnumId
NoName == 0

\* EnumConstInfo, and rows of enumeration_constants
EnumConstInfo == [name : Names, value : Nat, is_default : BOOLEAN]

ECI(name, value, is_default) ==
    [name |-> name, value |-> value, is_default |-> is_default]

\* ECUpdate; kDeclare is an ECDeclaration of CREATE ENUMERATION
Change == [kind : {"kDeclare", "kAdd", "kUpdate", "kRemove"},
           name : Names, value : Nat, is_default : BOOLEAN]

\* The statement being executed: the changes that are still to be made, and
\* the new default, which is set after them.  torn is history.
Statement == [id : Nat, todo : Seq(Change), default : Nat, torn : BOOLEAN]

Idle == [id |-> 0, todo |-> << >>, default |-> NoName, torn |-> FALSE]

\* The tables.  The last two fields are not in the code:
\*   torn    a statement has been executed in part;
\*   stale   something was written while the cache was suspect.
Database ==
    [enums : SUBSET [id : EnumIds, name : Enums],
     consts : [EnumIds -> SUBSET EnumConstInfo],
     seq : Nat, torn : BOOLEAN, stale : BOOLEAN]

VARIABLES
    inProgress,         \* the program's own transaction is in progress
    db,                 \* the database as this connection sees it
    stored,             \* the database on disk
    enumCache,          \* m_enum_cache
    constCache,         \* m_enum_const_cache, by enumeration id
    statement,          \* the statement being executed
    \* History variables:
    suspect,            \* the cache need not agree with the database
    broken,             \* an assertion failed although it was not suspect
    faults              \* number of commands that have failed

vars == <<inProgress, db, stored, enumCache, constCache, statement,
          suspect, broken, faults>>

NotCached == [seci |-> {}, veci |-> {}]

TypeOK ==
    /\ inProgress \in BOOLEAN
    /\ db \in Database /\ stored \in Database
    /\ enumCache \subseteq [id : EnumIds, name : Enums]
    /\ constCache \in [EnumIds -> [seci : SUBSET EnumConstInfo, veci : SUBSET Names]]
    /\ statement \in Statement
    /\ suspect \in BOOLEAN /\ broken \in BOOLEAN /\ faults \in Nat

EmptyDatabase ==
    [enums |-> {}, consts |-> [k \in EnumIds |-> {}],
     seq |-> 0, torn |-> FALSE, stale |-> FALSE]

Init ==
    /\ inProgress = FALSE
    /\ db = EmptyDatabase /\ stored = EmptyDatabase
    /\ enumCache = {} /\ constCache = [k \in EnumIds |-> NotCached]
    /\ statement = Idle
    /\ suspect = FALSE /\ broken = FALSE /\ faults = 0

-----------------------------------------------------------------------------
\* EnumConstCache.  c is what is cached of one enumeration; the result has what
\* is cached afterwards, and how the method returned: TRUE, FALSE, or "throw".

Result(c, returned) == [c |-> c, returned |-> returned]

Named(S, name) == {x \in S : x.name = name}

NamesIn(S) == {x.name : x \in S}

\* VECIMap at a value: the object, or none
AtValue(c, value) == {x \in c.seci : x.name \in c.veci /\ x.value = value}

addEci(c, eci) ==
    CASE AtValue(c, eci.value) # {} -> Result(c, "false")
      [] AtValue(c, eci.value) = {} /\ Named(c.seci, eci.name) # {} -> Result(c, "throw")
      [] OTHER -> Result([seci |-> c.seci \cup {eci}, veci |-> c.veci \cup {eci.name}], "true")

\* The object that VECIMap has at the value is deleted; where that is another
\* one than SECIMap had, SECIMap is left with a pointer to a deleted object.
drop(c, name) ==
    LET old == Named(c.seci, name)
        at == UNION {AtValue(c, x.value) : x \in old}
    IN  CASE old = {} -> Result(c, "true")
          [] old # {} /\ at # old -> Result(c, "throw")
          [] OTHER -> Result([seci |-> c.seci \ old, veci |-> c.veci \ {name}], "true")

\* Mutant of updateValue: VECIMap keeps the old value.
updateValueInSECIOnly(c, name, value) ==
    Result([seci |-> {IF x.name = name THEN [x EXCEPT !.value = value] ELSE x : x \in c.seci},
            veci |-> c.veci \ {name}], "true")

\* The entry at the old value is erased, whichever it is; std::map::insert
\* does nothing if there is one at the new value.
updateValue(c, name, value) ==
    LET old == Named(c.seci, name)
        at == UNION {AtValue(c, x.value) : x \in old}
        left == c.veci \ NamesIn(at)
        free == AtValue([c EXCEPT !.veci = left], value) = {}
    IN  CASE old = {} -> Result(c, "true")
          [] old # {} /\ at = {} -> Result(c, "throw")
          [] OTHER ->
               Result([seci |-> {IF x.name = name THEN [x EXCEPT !.value = value] ELSE x :
                                    x \in c.seci},
                       veci |-> left \cup (IF free THEN {name} ELSE {})], "true")

\* Mutant of setNewDefault: the old default stays one.
setNewDefaultToo(c, name) ==
    [c EXCEPT !.seci = {[x EXCEPT !.is_default = @ \/ x.name = name] : x \in @}]

setNewDefault(c, name) ==
    [c EXCEPT !.seci = {[x EXCEPT !.is_default = x.name = name] : x \in @}]

-----------------------------------------------------------------------------
\* EMdFDB: lookups.  A row that is not cached is added to the cache; where the
\* cache refuses it, the lookup fails.

\* enumExists by name: the ids it can find (at most one)
enumExists(e) ==
    LET cached == {x.id : x \in {y \in enumCache : y.name = e}}
    IN  IF cached # {} THEN cached ELSE {x.id : x \in {y \in db.enums : y.name = e}}

addEnumToCache(e, id) ==
    IF \E x \in enumCache : x.name = e THEN enumCache
    ELSE enumCache \cup {[id |-> id, name |-> e]}

\* enumConstExists by name: what it finds, and what is cached afterwards.
Found(c, id, name) ==
    IF Named(c.seci, name) # {} THEN Named(c.seci, name) ELSE Named(db.consts[id], name)

addEcis(c, rows) ==
    IF rows = {} THEN Result(c, "true") ELSE addEci(c, CHOOSE row \in rows : TRUE)

enumConstExists(c, id, name) ==
    IF Named(c.seci, name) # {} THEN Result(c, "true")
    ELSE addEcis(c, Named(db.consts[id], name))

\* enumConstExists by value: one of the rows, if there are several.
enumConstExistsByValue(c, id, value) ==
    LET rows == {x \in db.consts[id] : x.value = value}
    IN  IF AtValue(c, value) # {} THEN {Result(c, "true")}
        ELSE IF rows = {} THEN {Result(c, "true")}
        ELSE {addEci(c, row) : row \in rows}

\* The default, from the objects in VECIMap or, if none of them is it, from the
\* database.
getDefault(c, id) ==
    LET cached == {x \in c.seci : x.name \in c.veci /\ x.is_default}
    IN  IF cached # {} THEN cached ELSE {x \in db.consts[id] : x.is_default}

\* All rows, by name, are added to the cache; that it has some of them
\* already is no error.
getEnumConstants(c, id) ==
    LET load[n \in 0..MaxName] ==
            IF n = 0 \/ load[n - 1].returned = "throw" \/ Named(db.consts[id], n) = {}
            THEN IF n = 0 THEN Result(c, "true") ELSE load[n - 1]
            ELSE addEcis(load[n - 1].c, Named(db.consts[id], n))
    IN  load[MaxName]

-----------------------------------------------------------------------------
\* How steps end

Distinct(S) == \A x, y \in S : x.value = y.value => x = y

\* The database after a command; outside a transaction it is on disk at once.
Write(d) ==
    /\ db' = [d EXCEPT !.stale = @ \/ suspect]
    /\ stored' = IF inProgress THEN stored ELSE db'

NoFault == UNCHANGED <<inProgress, broken, faults>>

\* An assertion has failed, and the exception ends the process; or an object
\* was deleted that is still in use, after which anything can happen.
Restart ==
    /\ db' = stored /\ UNCHANGED stored
    /\ inProgress' = FALSE
    /\ enumCache' = {} /\ constCache' = [k \in EnumIds |-> NotCached]
    /\ statement' = Idle
    /\ suspect' = ~(\A k \in EnumIds : Distinct(stored.consts[k]))

Throw == Restart /\ broken' = (broken \/ ~suspect) /\ UNCHANGED faults

\* A command fails.  A method that has begun a transaction rolls back; inside
\* a transaction of the program some of its commands stay in effect.  enums is
\* what m_enum_cache has by then.
CommandFails(enums, partial) ==
    /\ faults < MaxFaults
    /\ faults' = faults + 1
    /\ \E d \in IF inProgress THEN partial ELSE {db} :
          /\ Write([d EXCEPT !.torn = @ \/ d # db])
          /\ suspect' = (suspect \/ d.consts # db.consts)
    /\ statement' = Idle
    /\ enumCache' = enums
    /\ UNCHANGED <<inProgress, constCache, broken>>

-----------------------------------------------------------------------------
\* Lookups by other statements

Lookup(e, id, r) ==
    /\ statement = Idle
    /\ id \in enumExists(e)
    /\ IF r.returned = "throw" THEN Throw
       ELSE /\ enumCache' = addEnumToCache(e, id)
            /\ constCache' = [constCache EXCEPT ![id] = r.c]
            /\ UNCHANGED <<db, stored, statement, suspect>> /\ NoFault

LookupByName(e, name) ==
    \E id \in enumExists(e) : Lookup(e, id, enumConstExists(constCache[id], id, name))

LookupByValue(e, value) ==
    \E id \in enumExists(e) : \E r \in enumConstExistsByValue(constCache[id], id, value) :
       Lookup(e, id, r)

LookupAll(e) ==
    \E id \in enumExists(e) : Lookup(e, id, getEnumConstants(constCache[id], id))

-----------------------------------------------------------------------------
\* CREATE ENUMERATION

\* A declaration without initialization has the value after the previous one.
symbolAssignValues(decls) ==
    LET value[i \in 0..Len(decls)] ==
            IF i = 0 THEN 0
            ELSE IF decls[i].init # 0 THEN decls[i].init ELSE value[i - 1] + 1
    IN  [i \in 1..Len(decls) |-> value[i]]

\* The first constant is the default if none is declared to be.
weedDefault(decls, i) ==
    \/ decls[i].is_default
    \/ i = 1 /\ \A j \in 1..Len(decls) : ~decls[j].is_default

AtMostOneDefault(list) ==
    \A i, j \in 1..Len(list) : list[i].is_default /\ list[j].is_default => i = j

symbolValueMoreThanOnce(decls, value) ==
    \E i, j \in 1..Len(decls) :
       i # j /\ (decls[i].name = decls[j].name \/ value[i] = value[j])

\* The enumeration is created, in a transaction; then its constants one by one.
createEnum(e, decls) ==
    LET value == symbolAssignValues(decls)
        id == db.seq + 1
        d1 == [db EXCEPT !.seq = id]
        d2 == [d1 EXCEPT !.enums = @ \cup {[id |-> id, name |-> e]}]
    IN  /\ statement = Idle
        /\ enumExists(e) = {}
        /\ id \in EnumIds
        /\ AtMostOneDefault(decls)
        /\ ~symbolValueMoreThanOnce(decls, value)
        /\ \/ /\ Write([d2 EXCEPT !.torn = TRUE])
              /\ enumCache' = enumCache \cup {[id |-> id, name |-> e]}
              /\ statement' =
                    [id |-> id, default |-> NoName, torn |-> db.torn,
                     todo |-> [i \in 1..Len(decls) |->
                                 [kind |-> "kDeclare", name |-> decls[i].name,
                                  value |-> value[i], is_default |-> weedDefault(decls, i)]]]
              /\ UNCHANGED <<constCache, suspect>> /\ NoFault
           \/ CommandFails(enumCache, {db, d1})

-----------------------------------------------------------------------------
\* UPDATE ENUMERATION

\* Looks the labels up, one after the other.
symbolLookups(c, id, list) ==
    LET look[i \in 0..Len(list)] ==
            IF i = 0 THEN Result(c, "true")
            ELSE IF look[i - 1].returned # "true" THEN look[i - 1]
            ELSE enumConstExists(look[i - 1].c, id, list[i].name)
    IN  look[Len(list)]

symbolExistenceOfConstants(c, id, list) ==
    \A i \in 1..Len(list) : (Found(c, id, list[i].name) = {}) = (list[i].kind = "kAdd")

\* Mutant of symbolDefaultIsRemoved: never.
symbolDefaultIsKept(c, id, list) == FALSE

symbolDefaultIsRemoved(c, id, list) ==
    \E i \in 1..Len(list) :
       list[i].kind = "kRemove" /\ \E x \in Found(c, id, list[i].name) : x.is_default

hasDefault(list) == \E i \in 1..Len(list) : list[i].is_default

getDefaultOf(list) ==
    IF hasDefault(list) THEN list[CHOOSE i \in 1..Len(list) : list[i].is_default].name
    ELSE NoName

\* The labels and values there would be after the update: the rows of the table,
\* or the change of the list that added them.
LocalChange(S, c, i) ==
    CASE c.kind = "kAdd" -> S \cup {<<c.name, c.value, i>>}
      [] c.kind = "kUpdate" -> {IF x[1] = c.name THEN <<x[1], c.value, x[3]>> ELSE x : x \in S}
      [] c.kind = "kRemove" -> {x \in S : x[1] # c.name}

symbolDoLocalUpdate(id, list) ==
    LET after[i \in 0..Len(list)] ==
            IF i = 0 THEN {<<x.name, x.value, 0>> : x \in db.consts[id]}
            ELSE LocalChange(after[i - 1], list[i], i)
    IN  after[Len(list)]

\* Mutant of symbolNoTwoValuesSame: not checked.
symbolNoCheck(id, list) == TRUE

symbolNoTwoValuesSame(id, list) ==
    \A x, y \in symbolDoLocalUpdate(id, list) : x[2] = y[2] => x = y

\* The checks of UPDATE ENUMERATION, after which all rows are cached.  A
\* statement that does not pass them has only looked up constants.
UpdateEnumeration(e, id, list) ==
    LET looked == symbolLookups(constCache[id], id, list)
        loaded == getEnumConstants(looked.c, id)
    IN  /\ statement = Idle
        /\ id \in enumExists(e)
        /\ AtMostOneDefault(list)
        /\ looked.returned = "true"
        /\ symbolExistenceOfConstants(looked.c, id, list)
        /\ symbolDefaultIsRemoved(looked.c, id, list) => hasDefault(list)
        /\ IF loaded.returned = "throw" THEN Throw
           ELSE /\ symbolNoTwoValuesSame(id, list)
                /\ enumCache' = addEnumToCache(e, id)
                /\ constCache' = [constCache EXCEPT ![id] = loaded.c]
                /\ statement' = [id |-> id, todo |-> list, torn |-> db.torn,
                                 default |-> getDefaultOf(list)]
                /\ UNCHANGED <<db, stored, suspect>> /\ NoFault

-----------------------------------------------------------------------------
\* The execution of CREATE and UPDATE ENUMERATION, change by change

\* A change has been made: the table's rows and the cache.  The statement goes
\* on, or has ended.
Changed(rows, r) ==
    LET id == statement.id
        rest == [statement EXCEPT !.todo = Tail(@)]
        last == rest.todo = << >> /\ rest.default = NoName
        ended == r.returned = "false" \/ last
        d == [db EXCEPT !.consts[id] = rows,
                        !.torn = IF r.returned = "true" /\ last THEN statement.torn ELSE TRUE]
    IN  IF r.returned = "throw"
        THEN Throw
        ELSE /\ Write(d)
             /\ constCache' = [constCache EXCEPT ![id] = r.c]
             /\ statement' = IF ended THEN Idle ELSE rest
             /\ suspect' = (suspect \/ ~Distinct(rows))
             /\ UNCHANGED enumCache /\ NoFault

\* The INSERT fails if the table has a row with that name.
createEnumConstant(c, change) ==
    LET id == statement.id
        eci == ECI(change.name, change.value, change.is_default)
    IN  IF Named(db.consts[id], change.name) # {}
        THEN Changed(db.consts[id], Result(c, "false"))
        ELSE Changed(db.consts[id] \cup {eci}, addEci(c, eci))

\* The row that has the old value is updated.
updateEnumConst(c, change, old) ==
    LET rows == db.consts[statement.id]
    IN  Changed({IF x.name = change.name /\ x.value = old.value
                 THEN [x EXCEPT !.value = change.value] ELSE x : x \in rows},
                updateValue(c, change.name, change.value))

dropEnumConst(c, change, old) ==
    LET rows == db.consts[statement.id]
    IN  Changed({x \in rows : ~(x.name = change.name /\ x.value = old.value)},
                drop(c, change.name))

\* The old value comes from the cache, or from the table.  What is no longer
\* there is neither updated nor removed.
execAddUpdateRemove ==
    /\ statement.todo # << >>
    /\ LET change == Head(statement.todo)
           id == statement.id
           r == IF change.kind = "kDeclare" THEN Result(constCache[id], "true")
                ELSE enumConstExists(constCache[id], id, change.name)
           found == Found(constCache[id], id, change.name)
       IN  \/ IF r.returned # "true"
              THEN Changed(db.consts[id], r)
              ELSE \/ change.kind \in {"kDeclare", "kAdd"} /\ createEnumConstant(r.c, change)
                   \/ \E old \in found :
                         \/ change.kind = "kUpdate" /\ updateEnumConst(r.c, change, old)
                         \/ change.kind = "kRemove" /\ dropEnumConst(r.c, change, old)
                   \/ /\ change.kind \in {"kUpdate", "kRemove"} /\ found = {}
                      /\ Changed(db.consts[id], r)
           \/ CommandFails(enumCache, {db})

\* The last step, in a transaction, if the statement names a default.
setDefaultEnumConst ==
    LET id == statement.id
        With(S) == [db EXCEPT !.consts[id] = {[x EXCEPT !.is_default = x.name \in S] : x \in @}]
    IN  /\ statement.todo = << >> /\ statement.default # NoName
        /\ \/ /\ Write([With({statement.default}) EXCEPT !.torn = statement.torn])
              /\ constCache' = [constCache EXCEPT ![id] = setNewDefault(@, statement.default)]
              /\ statement' = Idle
              /\ UNCHANGED <<enumCache, suspect>> /\ NoFault
           \/ CommandFails(enumCache, {db, With({})})

-----------------------------------------------------------------------------
\* DROP ENUMERATION

\* Mutant of dropEnumFromCache: the constants stay in the cache.
dropEnumFromTable(c, id) == c

dropEnumFromCache(c, id) == [c EXCEPT ![id] = NotCached]

\* Mutant of eraseEnum: the enumeration stays in the cache.
eraseNothing(cached, x) == cached

eraseEnum(cached, x) == cached \ {x}

dropEnum(e, id) ==
    LET d1 == [db EXCEPT !.consts[id] = {}]
        d2 == [d1 EXCEPT !.enums = {x \in @ : x.id # id}]
    IN  /\ statement = Idle
        /\ id \in enumExists(e)
        /\ \/ /\ Write(d2)
              /\ \E x \in addEnumToCache(e, id) :          \* one with that id
                    x.id = id /\ enumCache' = eraseEnum(addEnumToCache(e, id), x)
              /\ constCache' = dropEnumFromCache(constCache, id)
              /\ UNCHANGED <<statement, suspect>> /\ NoFault
           \/ CommandFails(addEnumToCache(e, id), {db, d1})

-----------------------------------------------------------------------------
\* Transactions and sessions

BeginTransaction ==
    /\ statement = Idle /\ ~inProgress
    /\ inProgress' = TRUE
    /\ UNCHANGED <<db, stored, enumCache, constCache, statement, suspect, broken, faults>>

CommitTransaction ==
    /\ statement = Idle /\ inProgress
    /\ inProgress' = FALSE /\ stored' = db
    /\ UNCHANGED <<db, enumCache, constCache, statement, suspect, broken, faults>>

\* The caches are left alone.
AbortTransaction ==
    /\ statement = Idle /\ inProgress
    /\ inProgress' = FALSE /\ db' = stored
    /\ suspect' = TRUE
    /\ UNCHANGED <<stored, enumCache, constCache, statement, broken, faults>>

\* USE DATABASE of the same database commits, and clears the caches.
useDatabase ==
    /\ statement = Idle
    /\ inProgress' = FALSE /\ stored' = db
    /\ enumCache' = {} /\ constCache' = [k \in EnumIds |-> NotCached]
    /\ suspect' = ~(\A k \in EnumIds : Distinct(db.consts[k]))
    /\ UNCHANGED <<db, statement, broken, faults>>

\* The process dies, at any point, and another one opens the database.
Crash == Restart /\ UNCHANGED <<broken, faults>>

-----------------------------------------------------------------------------
\* The statements of the program

Lists(S) == UNION {[1..n -> S] : n \in 1..MaxChanges}

Declaration == [name : Names, init : 0..MaxValue, is_default : BOOLEAN]

NewChange ==
    [kind : {"kAdd", "kUpdate"}, name : Names, value : 1..MaxValue, is_default : BOOLEAN]
    \cup [kind : {"kRemove"}, name : Names, value : {0}, is_default : {FALSE}]

DeclarationLists == Lists(Declaration)

\* The labels of a list are different.  (A list that removes the default and
\* then updates the same label as the new default passes the checks and
\* leaves no default.)
UpdateLists ==
    {list \in Lists(NewChange) :
        \A i, j \in 1..Len(list) : list[i].name = list[j].name => i = j}

CreateEnumerationStatement ==
    statement = Idle /\ \E e \in Enums, decls \in DeclarationLists : createEnum(e, decls)

UpdateEnumerationStatement ==
    /\ statement = Idle
    /\ \E e \in Enums : \E id \in enumExists(e), list \in UpdateLists :
          UpdateEnumeration(e, id, list)

DropEnumerationStatement ==
    \E e \in Enums : \E id \in enumExists(e) : dropEnum(e, id)

LookupStatement ==
    \E e \in Enums :
       \/ \E name \in Names : LookupByName(e, name)
       \/ \E value \in 1..MaxValue : LookupByValue(e, value)
       \/ LookupAll(e)

Next ==
    \/ CreateEnumerationStatement \/ UpdateEnumerationStatement
    \/ execAddUpdateRemove \/ setDefaultEnumConst
    \/ DropEnumerationStatement \/ LookupStatement
    \/ BeginTransaction \/ CommitTransaction \/ AbortTransaction
    \/ useDatabase \/ Crash

Spec == Init /\ [][Next]_vars

-----------------------------------------------------------------------------
\* The two maps of the cache hold the same objects ("it should be in both the
\* SECIMap and the VECIMap", enum_const_cache.cpp).
MapsAgree == \A k \in EnumIds : constCache[k].veci = NamesIn(constCache[k].seci)

\* Unless a rollback, an interrupted command or two constants with one value
\* have made the cache suspect, both maps hold the same objects, these are
\* rows of the table as they are now, also in the middle of a statement, and
\* the cached enumerations exist.
CacheCoherent ==
    ~suspect => /\ MapsAgree
                /\ \A k \in EnumIds : constCache[k].seci \subseteq db.consts[k]
                /\ enumCache \subseteq db.enums

\* Unless the cache is suspect, the cache, however much of an enumeration it
\* holds, hides nothing: between statements, labels, values and defaults are
\* found as the table has them.
LookupsExact ==
    ~suspect /\ ~db.torn /\ ~db.stale =>
       \A e \in Enums : \A id \in enumExists(e) :
          LET c == constCache[id]
              rows == db.consts[id]
          IN  /\ [id |-> id, name |-> e] \in db.enums
              /\ \A n \in Names : Found(c, id, n) = Named(rows, n)
              /\ \A v \in 1..MaxValue :
                    AtValue(c, v) # {} => AtValue(c, v) = {x \in rows : x.value = v}
              /\ getDefault(c, id) = {x \in rows : x.is_default}

\* Unless the cache is suspect, no assertion of EnumConstCache ever fails and no
\* object is deleted while a map still points to it.
AssertionsHold == ~broken

OneDefault(S) == Cardinality({x \in S : x.is_default}) = 1

\* In a database in which every statement was executed to its end, with a cache
\* that was not suspect, every enumeration is a bijection between labels and
\* values with exactly one default, and there are no constants without an
\* enumeration.
EnumerationsSound ==
    \A d \in {db, stored} : ~d.torn /\ ~d.stale =>
       \A k \in EnumIds :
          /\ \A x, y \in d.consts[k] : (x.name = y.name \/ x.value = y.value) => x = y
          /\ IF \E x \in d.enums : x.id = k THEN OneDefault(d.consts[k])
             ELSE d.consts[k] = {}

\* "Now values must be distinct within an enumeration" (NEWS).  Where the list
\* gives a new constant the value of one that is removed after it, the cache
\* refuses the new constant and the statement ends there, with both in the
\* table.
ValuesDistinct ==
    statement = Idle => \A k \in EnumIds : Distinct(db.consts[k])
=============================================================================
