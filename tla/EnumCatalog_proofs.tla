------------------------- MODULE EnumCatalog_proofs -------------------------
(***************************************************************************)
(* Proofs about enumerations and the caches in front of them, for any      *)
(* number of enumerations, labels and values and lists of any length.      *)
(***************************************************************************)
EXTENDS EnumCatalog, FiniteSetTheorems, SequenceTheorems, Induction, TLAPS

-----------------------------------------------------------------------------
\* The inductive invariant

NamesDistinct(S) == \A x, y \in S : x.name = y.name => x = y

\* The tables: the INSERT of a constant fails if there is one with its name, and
\* ids come from a sequence.
TablesOK(d) ==
    /\ \A k \in EnumIds : NamesDistinct(d.consts[k])
    /\ \A x \in d.enums : x.id <= d.seq
    /\ \A x, y \in d.enums : x.id = y.id => x = y

\* What is cached of an enumeration is in both maps and in the table.
CacheOf(c, rows) == c.veci = NamesIn(c.seci) /\ c.seci \subseteq rows

Trusted ==
    /\ \A k \in EnumIds : Distinct(db.consts[k]) /\ CacheOf(constCache[k], db.consts[k])
    /\ enumCache \subseteq db.enums

\* One enumeration of a database: a bijection between labels and values, with one
\* default.
UniqueDefault(rows) == \E x \in rows : x.is_default /\ \A y \in rows : y.is_default => y = x

SoundRows(rows) ==
    /\ \A x, y \in rows : (x.name = y.name \/ x.value = y.value) => x = y
    /\ UniqueDefault(rows)

SoundEnum(d, k) ==
    IF \E x \in d.enums : x.id = k THEN SoundRows(d.consts[k]) ELSE d.consts[k] = {}

SoundDatabase(d) == ~d.torn /\ ~d.stale => \A k \in EnumIds : SoundEnum(d, k)

\* The changes that a statement has still to make.
Changes(todo) == {todo[i] : i \in 1 .. Len(todo)}

IsNew(c) == c.kind \in {"kDeclare", "kAdd"}

\* A row that the changes C do not touch, and one that they do not remove.
Untouched(x, C) == \A c \in C : c.name # x.name
Stays(x, C) == \A c \in C : c.name = x.name => c.kind # "kRemove"

\* What the changes C, and then the new default, will make of the rows: labels
\* are new where they are added and there where they are changed; no two constants
\* with one value; and one default.
PlannedNames(rows, C) ==
    /\ \A c, d \in C : c.name = d.name => c = d
    /\ \A c \in C : (\E x \in rows : x.name = c.name) <=> ~IsNew(c)

PlannedValues(rows, C) ==
    /\ \A c, d \in C : c.kind # "kRemove" /\ d.kind # "kRemove" /\ c.value = d.value => c = d
    /\ \A x \in rows, c \in C : Untouched(x, C) /\ c.kind # "kRemove" => x.value # c.value
    /\ \A x, y \in rows : Untouched(x, C) /\ Untouched(y, C) /\ x.value = y.value => x = y

PlannedDefault(rows, C) ==
    /\ \/ \E x \in rows : x.is_default /\ Stays(x, C)
       \/ \E c \in C : IsNew(c) /\ c.is_default
    /\ \A x, y \in rows :
          x.is_default /\ Stays(x, C) /\ y.is_default /\ Stays(y, C) => x = y
    /\ \A x \in rows, c \in C : x.is_default /\ Stays(x, C) /\ IsNew(c) => ~c.is_default
    /\ \A c, d \in C : IsNew(c) /\ c.is_default /\ IsNew(d) /\ d.is_default => c = d

NamedDefault(rows, C, default) ==
    \/ \E x \in rows : x.name = default /\ Stays(x, C)
    \/ \E c \in C : IsNew(c) /\ c.name = default

Plan(rows, C, default) ==
    /\ PlannedNames(rows, C) /\ PlannedValues(rows, C)
    /\ IF default = NoName THEN PlannedDefault(rows, C) ELSE NamedDefault(rows, C, default)

\* The statement being executed.
StatementOK ==
    statement # Idle =>
       /\ statement.id \in EnumIds
       /\ statement.todo # << >> \/ statement.default # NoName
       /\ \A i, j \in 1 .. Len(statement.todo) :
             statement.todo[i].name = statement.todo[j].name => i = j

Executing ==
    statement # Idle /\ ~statement.torn /\ ~db.stale /\ ~suspect =>
       /\ \A k \in EnumIds \ {statement.id} : SoundEnum(db, k)
       /\ \E x \in db.enums : x.id = statement.id
       /\ Plan(db.consts[statement.id], Changes(statement.todo), statement.default)

CatalogInv ==
    /\ TypeOK
    /\ TablesOK(db) /\ TablesOK(stored)
    /\ ~suspect => Trusted
    /\ ~broken
    /\ ~inProgress => stored = db
    /\ SoundDatabase(db) /\ SoundDatabase(stored)
    /\ StatementOK /\ Executing

-----------------------------------------------------------------------------
\* The operations of EnumConstCache

CacheType == [seci : SUBSET EnumConstInfo, veci : SUBSET Names]

ResultType == [c : CacheType, returned : {"true", "false", "throw"}]

LEMMA ResultIs ==
    ASSUME NEW c \in CacheType, NEW t \in {"true", "false", "throw"}
    PROVE  Result(c, t) \in ResultType /\ Result(c, t).c = c /\ Result(c, t).returned = t
  BY DEF Result, ResultType

LEMMA CacheIs ==
    ASSUME NEW S \in SUBSET EnumConstInfo, NEW T \in SUBSET Names
    PROVE  LET c == [seci |-> S, veci |-> T]
           IN  c \in CacheType /\ c.seci = S /\ c.veci = T
  BY DEF CacheType

LEMMA RowUpdate ==
    ASSUME NEW x \in EnumConstInfo
    PROVE  /\ x.name \in Names /\ x.value \in Nat /\ x.is_default \in BOOLEAN
           /\ \A v \in Nat :
                 /\ [x EXCEPT !.value = v] \in EnumConstInfo
                 /\ [x EXCEPT !.value = v].name = x.name
                 /\ [x EXCEPT !.value = v].value = v
                 /\ [x EXCEPT !.value = v].is_default = x.is_default
           /\ \A b \in BOOLEAN :
                 /\ [x EXCEPT !.is_default = b] \in EnumConstInfo
                 /\ [x EXCEPT !.is_default = b].name = x.name
                 /\ [x EXCEPT !.is_default = b].value = x.value
                 /\ [x EXCEPT !.is_default = b].is_default = b
  BY DEF EnumConstInfo

\* The methods return caches, and TRUE, FALSE or an exception.
LEMMA AddEciType ==
    ASSUME NEW c \in CacheType, NEW eci \in EnumConstInfo
    PROVE  addEci(c, eci) \in ResultType
  <1>1. [seci |-> c.seci \cup {eci}, veci |-> c.veci \cup {eci.name}] \in CacheType
    BY RowUpdate, CacheIs DEF CacheType, EnumConstInfo
  <1> QED  BY <1>1, ResultIs DEF addEci

LEMMA DropType ==
    ASSUME NEW c \in CacheType, NEW name
    PROVE  drop(c, name) \in ResultType
  <1>1. [seci |-> c.seci \ Named(c.seci, name), veci |-> c.veci \ {name}] \in CacheType
    BY DEF CacheType
  <1> QED  BY <1>1, ResultIs DEF drop

LEMMA UpdateValueType ==
    ASSUME NEW c \in CacheType, NEW name \in Names, NEW value \in Nat
    PROVE  updateValue(c, name, value) \in ResultType
  <1> DEFINE new == {IF x.name = name THEN [x EXCEPT !.value = value] ELSE x : x \in c.seci}
  <1>1. c.seci \subseteq EnumConstInfo /\ c.veci \subseteq Names
    BY DEF CacheType
  <1>2. new \subseteq EnumConstInfo
    <2>1. SUFFICES ASSUME NEW y \in new PROVE y \in EnumConstInfo
      OBVIOUS
    <2>2. PICK x \in c.seci : y = IF x.name = name THEN [x EXCEPT !.value = value] ELSE x
      OBVIOUS
    <2> QED  BY <1>1, <2>2, RowUpdate
  <1> HIDE DEF new
  <1>3. ASSUME NEW left \in SUBSET c.veci, NEW b \in BOOLEAN
        PROVE  [seci |-> new, veci |-> left \cup (IF b THEN {name} ELSE {})] \in CacheType
    BY <1>1, <1>2, CacheIs
  <1> DEFINE at == UNION {AtValue(c, x.value) : x \in Named(c.seci, name)}
             left == c.veci \ NamesIn(at)
             free == AtValue([c EXCEPT !.veci = left], value) = {}
  <1>4. left \in SUBSET c.veci /\ free \in BOOLEAN
    OBVIOUS
  <1>5. \/ updateValue(c, name, value) = Result(c, "true")
        \/ updateValue(c, name, value) = Result(c, "throw")
        \/ updateValue(c, name, value) =
              Result([seci |-> new, veci |-> left \cup (IF free THEN {name} ELSE {})], "true")
    BY DEF updateValue, new
  <1> HIDE DEF left, free, at
  <1> QED  BY <1>3, <1>4, <1>5, ResultIs

LEMMA SetNewDefaultIs ==
    ASSUME NEW c \in CacheType, NEW name
    PROVE  /\ setNewDefault(c, name) \in CacheType
           /\ setNewDefault(c, name).veci = c.veci
           /\ setNewDefault(c, name).seci =
                 {[x EXCEPT !.is_default = x.name = name] : x \in c.seci}
  <1> DEFINE new == {[x EXCEPT !.is_default = x.name = name] : x \in c.seci}
  <1>1. new \subseteq EnumConstInfo
    <2>1. SUFFICES ASSUME NEW y \in new PROVE y \in EnumConstInfo
      OBVIOUS
    <2>2. PICK x \in c.seci : y = [x EXCEPT !.is_default = x.name = name]
      OBVIOUS
    <2>3. x \in EnumConstInfo
      BY DEF CacheType
    <2> QED  BY <2>2, <2>3, RowUpdate
  <1>2. setNewDefault(c, name) = [c EXCEPT !.seci = new]
    BY DEF setNewDefault
  <1> HIDE DEF new
  <1>3. [c EXCEPT !.seci = new] \in CacheType /\ [c EXCEPT !.seci = new].veci = c.veci
        /\ [c EXCEPT !.seci = new].seci = new
    BY <1>1 DEF CacheType
  <1> QED  BY <1>2, <1>3 DEF new

\* A cache that agrees with a table of distinct names and values: the object at
\* a value is the one that the row of that value describes.
GoodRows(rows) == rows \subseteq EnumConstInfo /\ NamesDistinct(rows) /\ Distinct(rows)

LEMMA ObjectsAtValue ==
    ASSUME NEW c \in CacheType, NEW rows, GoodRows(rows), CacheOf(c, rows)
    PROVE  /\ \A x \in c.seci : AtValue(c, x.value) = {x} /\ Named(c.seci, x.name) = {x}
           /\ \A v, x : x \in AtValue(c, v) <=> x \in c.seci /\ x.value = v
  BY DEF GoodRows, CacheOf, AtValue, NamesIn, Distinct, NamesDistinct, Named

\* A row of the table goes to the cache unless it is there, without exception.
LEMMA AddRow ==
    ASSUME NEW c \in CacheType, NEW rows, GoodRows(rows), CacheOf(c, rows), NEW row \in rows
    PROVE  LET r == addEci(c, row)
           IN  /\ r.returned # "throw"
               /\ CacheOf(r.c, rows) /\ r.c \in CacheType
               /\ Named(c.seci, row.name) = {} => r.returned = "true"
  <1>0. row \in EnumConstInfo /\ row.name \in Names
    BY RowUpdate DEF GoodRows, EnumConstInfo
  <1>1. CASE AtValue(c, row.value) # {}
    <2>1. addEci(c, row) = Result(c, "false")
      BY <1>1 DEF addEci
    <2>2. row \in c.seci
      BY <1>1, ObjectsAtValue DEF CacheOf, GoodRows, Distinct
    <2> QED  BY <2>1, <2>2, ResultIs DEF Named
  <1>2. CASE AtValue(c, row.value) = {}
    <2>1. Named(c.seci, row.name) = {}
      <3>1. SUFFICES ASSUME NEW x \in Named(c.seci, row.name) PROVE FALSE
        OBVIOUS
      <3>2. x = row /\ x \in c.seci
        BY DEF Named, CacheOf, GoodRows, NamesDistinct
      <3> QED  BY <1>2, <3>2, ObjectsAtValue
    <2> DEFINE d == [seci |-> c.seci \cup {row}, veci |-> c.veci \cup {row.name}]
    <2>2. addEci(c, row) = Result(d, "true")
      BY <1>2, <2>1 DEF addEci
    <2>3. d \in CacheType /\ d.seci = c.seci \cup {row} /\ d.veci = c.veci \cup {row.name}
      BY <1>0, CacheIs DEF CacheType
    <2> HIDE DEF d
    <2>4. CacheOf(d, rows)
      BY <2>3 DEF CacheOf, NamesIn
    <2> QED  BY <2>2, <2>3, <2>4, ResultIs
  <1> QED  BY <1>1, <1>2

\* A lookup by name.
LEMMA LookupName ==
    ASSUME NEW c \in CacheType, NEW id, NEW name, db.consts[id] \subseteq EnumConstInfo
    PROVE  /\ enumConstExists(c, id, name) \in ResultType
           /\ GoodRows(db.consts[id]) /\ CacheOf(c, db.consts[id]) =>
                 /\ enumConstExists(c, id, name).returned = "true"
                 /\ CacheOf(enumConstExists(c, id, name).c, db.consts[id])
  <1> DEFINE rows == Named(db.consts[id], name)
             row == CHOOSE x \in rows : TRUE
  <1>1. CASE Named(c.seci, name) # {} \/ rows = {}
    <2>1. enumConstExists(c, id, name) = Result(c, "true")
      BY <1>1 DEF enumConstExists, addEcis
    <2> QED  BY <2>1, ResultIs
  <1>2. CASE Named(c.seci, name) = {} /\ rows # {}
    <2>1. enumConstExists(c, id, name) = addEci(c, row)
      BY <1>2 DEF enumConstExists, addEcis
    <2>2. row \in rows
      BY <1>2
    <2>3. row \in db.consts[id] /\ row \in EnumConstInfo /\ row.name = name
      BY <2>2 DEF Named
    <2> HIDE DEF row
    <2> QED  BY <1>2, <2>1, <2>3, AddEciType, AddRow
  <1> QED  BY <1>1, <1>2

\* A lookup by value.
LEMMA LookupValue ==
    ASSUME NEW c \in CacheType, NEW id, NEW value, db.consts[id] \subseteq EnumConstInfo,
           NEW r \in enumConstExistsByValue(c, id, value)
    PROVE  /\ r \in ResultType
           /\ GoodRows(db.consts[id]) /\ CacheOf(c, db.consts[id]) =>
                 r.returned # "throw" /\ CacheOf(r.c, db.consts[id])
  <1> DEFINE rows == {x \in db.consts[id] : x.value = value}
  <1>0. \/ enumConstExistsByValue(c, id, value) = {Result(c, "true")}
        \/ enumConstExistsByValue(c, id, value) = {addEci(c, row) : row \in rows}
    BY DEF enumConstExistsByValue
  <1>1. r = Result(c, "true") \/ \E row \in rows : r = addEci(c, row)
    BY <1>0
  <1>2. CASE r = Result(c, "true")
    BY <1>2, ResultIs
  <1>3. ASSUME NEW row \in db.consts[id], r = addEci(c, row)
        PROVE  /\ r \in ResultType
               /\ GoodRows(db.consts[id]) /\ CacheOf(c, db.consts[id]) =>
                     r.returned # "throw" /\ CacheOf(r.c, db.consts[id])
    BY <1>3, AddEciType, AddRow
  <1> QED  BY <1>1, <1>2, <1>3

\* getEnumConstants: its recursion has a solution, and all along it the cache is
\* one, and agrees with the table.
LoadsFrom(f, c, id) ==
    f = [n \in 0..MaxName |->
            IF n = 0 \/ f[n - 1].returned = "throw" \/ Named(db.consts[id], n) = {}
            THEN IF n = 0 THEN Result(c, "true") ELSE f[n - 1]
            ELSE addEcis(f[n - 1].c, Named(db.consts[id], n))]

LEMMA AddEcisType ==
    ASSUME NEW c \in CacheType, NEW rows \in SUBSET EnumConstInfo
    PROVE  addEcis(c, rows) \in ResultType
  BY AddEciType, ResultIs DEF addEcis

LEMMA LoadRecursion ==
    ASSUME NEW c \in CacheType, NEW id, db.consts[id] \subseteq EnumConstInfo
    PROVE  \E f : LoadsFrom(f, c, id)
  <1> DEFINE next(n, r) == IF r.returned = "throw" \/ Named(db.consts[id], n) = {} THEN r
                           ELSE addEcis(r.c, Named(db.consts[id], n))
             step == [n \in 1 .. MaxName |-> [r \in ResultType |-> next(n, r)]]
  <1>0. MaxName \in Nat
    BY CatalogAssumption
  <1>1. ASSUME NEW n \in 1 .. MaxName, NEW r \in ResultType PROVE next(n, r) \in ResultType
    <2>1. r.c \in CacheType /\ Named(db.consts[id], n) \in SUBSET EnumConstInfo
      BY DEF ResultType, Named
    <2> QED  BY <2>1, AddEcisType
  <1> HIDE DEF next
  <1>2. step \in [1 .. MaxName -> [ResultType -> ResultType]]
    BY <1>1
  <1>3. Result(c, "true") \in ResultType
    BY ResultIs
  <1>4. \A n \in 1 .. MaxName, r \in ResultType : step[n][r] = next(n, r)
    OBVIOUS
  <1> HIDE DEF step
  <1>a. \E f : Recurses(f, MaxName, ResultType, Result(c, "true"), step)
    BY <1>0, <1>2, <1>3, Recursion
  <1>5. PICK f : /\ f \in [0 .. MaxName -> ResultType]
                 /\ f[0] = Result(c, "true")
                 /\ \A n \in 1 .. MaxName : f[n] = step[n][f[n - 1]]
    BY <1>a DEF Recurses
  <1>6. \A n \in 1 .. MaxName : f[n] = next(n, f[n - 1])
    <2>1. SUFFICES ASSUME NEW n \in 1 .. MaxName PROVE f[n] = next(n, f[n - 1])
      OBVIOUS
    <2>2. f[n - 1] \in ResultType
      BY <1>0, <1>5
    <2> QED  BY <1>4, <1>5, <2>2
  <1>7. LoadsFrom(f, c, id)
    <2> DEFINE g == [n \in 0..MaxName |->
            IF n = 0 \/ f[n - 1].returned = "throw" \/ Named(db.consts[id], n) = {}
            THEN IF n = 0 THEN Result(c, "true") ELSE f[n - 1]
            ELSE addEcis(f[n - 1].c, Named(db.consts[id], n))]
    <2>1. \A n \in 0 .. MaxName : f[n] = g[n]
      BY <1>0, <1>5, <1>6 DEF next
    <2>2. f = [n \in 0 .. MaxName |-> f[n]] /\ g = [n \in 0 .. MaxName |-> g[n]]
      BY <1>5
    <2> HIDE DEF g
    <2>3. f = g
      BY <2>1, <2>2
    <2> QED  BY <2>3 DEF LoadsFrom, g
  <1> QED  BY <1>7

LEMMA LoadAll ==
    ASSUME NEW c \in CacheType, NEW id, db.consts[id] \subseteq EnumConstInfo
    PROVE  /\ getEnumConstants(c, id) \in ResultType
           /\ GoodRows(db.consts[id]) /\ CacheOf(c, db.consts[id]) =>
                 /\ getEnumConstants(c, id).returned # "throw"
                 /\ CacheOf(getEnumConstants(c, id).c, db.consts[id])
  <1> DEFINE load == CHOOSE f : LoadsFrom(f, c, id)
             good(r) == GoodRows(db.consts[id]) /\ CacheOf(c, db.consts[id]) =>
                           r.returned # "throw" /\ CacheOf(r.c, db.consts[id])
             S == {n \in 0 .. MaxName : load[n] \in ResultType /\ good(load[n])}
  <1>0. MaxName \in Nat
    BY CatalogAssumption
  <1>1. getEnumConstants(c, id) = load[MaxName]
    BY Zenon DEF getEnumConstants, LoadsFrom
  <1>2. LoadsFrom(load, c, id)
    BY LoadRecursion, Zenon
  <1> HIDE DEF load
  <1>3. load[0] = Result(c, "true")
    BY <1>0, <1>2 DEF LoadsFrom
  <1>4. \A n \in 1 .. MaxName :
           load[n] = IF load[n - 1].returned = "throw" \/ Named(db.consts[id], n) = {}
                     THEN load[n - 1] ELSE addEcis(load[n - 1].c, Named(db.consts[id], n))
    BY <1>0, <1>2 DEF LoadsFrom
  <1>5. 0 \in S
    BY <1>0, <1>3, ResultIs
  <1>6. ASSUME NEW n \in 1 .. MaxName, n - 1 \in S PROVE n \in S
    <2>1. load[n - 1] \in ResultType /\ good(load[n - 1])
      BY <1>6
    <2>2. CASE load[n] = load[n - 1]
      BY <2>1, <2>2
    <2>3. CASE /\ load[n] = addEcis(load[n - 1].c, Named(db.consts[id], n))
               /\ Named(db.consts[id], n) # {}
      <3> DEFINE row == CHOOSE x \in Named(db.consts[id], n) : TRUE
      <3>1. load[n] = addEci(load[n - 1].c, row)
        BY <2>3 DEF addEcis
      <3>2. row \in db.consts[id]
        BY <2>3 DEF Named
      <3>3. load[n - 1].c \in CacheType
        BY <2>1 DEF ResultType
      <3> HIDE DEF row
      <3> QED  BY <2>1, <3>1, <3>2, <3>3, AddEciType, AddRow
    <2> QED  BY <1>4, <2>2, <2>3
  <1> HIDE DEF S
  <1>7. \A n \in 0 .. MaxName : n \in S
    BY <1>0, <1>5, <1>6, UpTo
  <1>8. MaxName \in S
    BY <1>0, <1>7
  <1> QED  BY <1>1, <1>8 DEF S

\* symbolLookups: the labels of a list are looked up one after the other.
LooksUp(f, c, id, list) ==
    f = [i \in 0..Len(list) |->
            IF i = 0 THEN Result(c, "true")
            ELSE IF f[i - 1].returned # "true" THEN f[i - 1]
            ELSE enumConstExists(f[i - 1].c, id, list[i].name)]

LEMMA LooksUpRecursion ==
    ASSUME NEW c \in CacheType, NEW id, db.consts[id] \subseteq EnumConstInfo,
           NEW list, Len(list) \in Nat
    PROVE  \E f : LooksUp(f, c, id, list)
  <1> DEFINE M == Len(list)
             next(n, r) == IF r.returned # "true" THEN r
                           ELSE enumConstExists(r.c, id, list[n].name)
             step == [n \in 1 .. M |-> [r \in ResultType |-> next(n, r)]]
  <1>0. M \in Nat
    OBVIOUS
  <1>1. ASSUME NEW n \in 1 .. M, NEW r \in ResultType PROVE next(n, r) \in ResultType
    <2>1. r.c \in CacheType
      BY DEF ResultType
    <2> QED  BY <2>1, LookupName
  <1> HIDE DEF next, M
  <1>2. step \in [1 .. M -> [ResultType -> ResultType]]
    BY <1>1
  <1>3. Result(c, "true") \in ResultType
    BY ResultIs
  <1>4. \A n \in 1 .. M, r \in ResultType : step[n][r] = next(n, r)
    OBVIOUS
  <1> HIDE DEF step
  <1>a. \E f : Recurses(f, M, ResultType, Result(c, "true"), step)
    BY <1>0, <1>2, <1>3, Recursion
  <1>5. PICK f : /\ f \in [0 .. M -> ResultType]
                 /\ f[0] = Result(c, "true")
                 /\ \A n \in 1 .. M : f[n] = step[n][f[n - 1]]
    BY <1>a DEF Recurses
  <1>6. \A n \in 1 .. M : f[n] = next(n, f[n - 1])
    <2>1. SUFFICES ASSUME NEW n \in 1 .. M PROVE f[n] = next(n, f[n - 1])
      OBVIOUS
    <2>2. f[n - 1] \in ResultType
      BY <1>0, <1>5
    <2> QED  BY <1>4, <1>5, <2>2
  <1>7. LooksUp(f, c, id, list)
    <2> DEFINE g == [i \in 0..M |->
            IF i = 0 THEN Result(c, "true")
            ELSE IF f[i - 1].returned # "true" THEN f[i - 1]
            ELSE enumConstExists(f[i - 1].c, id, list[i].name)]
    <2>1. \A n \in 0 .. M : f[n] = g[n]
      BY <1>0, <1>5, <1>6 DEF next
    <2>2. f = [n \in 0 .. M |-> f[n]] /\ g = [n \in 0 .. M |-> g[n]]
      BY <1>5
    <2> HIDE DEF g
    <2>3. f = g
      BY <2>1, <2>2
    <2> QED  BY <2>3 DEF LooksUp, g, M
  <1> QED  BY <1>7

LEMMA LookupNames ==
    ASSUME NEW c \in CacheType, NEW id, db.consts[id] \subseteq EnumConstInfo,
           NEW list, Len(list) \in Nat
    PROVE  /\ symbolLookups(c, id, list) \in ResultType
           /\ GoodRows(db.consts[id]) /\ CacheOf(c, db.consts[id]) =>
                 CacheOf(symbolLookups(c, id, list).c, db.consts[id])
  <1> DEFINE look == CHOOSE f : LooksUp(f, c, id, list)
             M == Len(list)
             good(r) == GoodRows(db.consts[id]) /\ CacheOf(c, db.consts[id]) =>
                           CacheOf(r.c, db.consts[id])
             S == {n \in 0 .. M : look[n] \in ResultType /\ good(look[n])}
  <1>0. M \in Nat
    OBVIOUS
  <1>1. symbolLookups(c, id, list) = look[M]
    BY Zenon DEF symbolLookups, LooksUp
  <1>2. LooksUp(look, c, id, list)
    BY LooksUpRecursion, Zenon
  <1> HIDE DEF look
  <1>3. look[0] = Result(c, "true")
    BY <1>0, <1>2 DEF LooksUp
  <1>4. \A n \in 1 .. M :
           look[n] = IF look[n - 1].returned # "true" THEN look[n - 1]
                     ELSE enumConstExists(look[n - 1].c, id, list[n].name)
    BY <1>0, <1>2 DEF LooksUp
  <1> HIDE DEF M
  <1>5. 0 \in S
    BY <1>0, <1>3, ResultIs
  <1>6. ASSUME NEW n \in 1 .. M, n - 1 \in S PROVE n \in S
    <2>1. look[n - 1] \in ResultType /\ good(look[n - 1])
      BY <1>6
    <2>2. CASE look[n] = look[n - 1]
      BY <2>1, <2>2
    <2>3. CASE look[n] = enumConstExists(look[n - 1].c, id, list[n].name)
      <3>1. look[n - 1].c \in CacheType
        BY <2>1 DEF ResultType
      <3> QED  BY <2>1, <2>3, <3>1, LookupName
    <2> QED  BY <1>4, <2>2, <2>3
  <1> HIDE DEF S
  <1>7. \A n \in 0 .. M : n \in S
    BY <1>0, <1>5, <1>6, UpTo
  <1>8. M \in S
    BY <1>0, <1>7
  <1> QED  BY <1>1, <1>8 DEF S

\* symbolAssignValues gives natural numbers.
Assigns(f, decls) ==
    f = [i \in 0..Len(decls) |->
            IF i = 0 THEN 0
            ELSE IF decls[i].init # 0 THEN decls[i].init ELSE f[i - 1] + 1]

LEMMA AssignedValues ==
    ASSUME NEW decls, Len(decls) \in Nat, \A i \in 1 .. Len(decls) : decls[i].init \in Nat
    PROVE  \A i \in 1 .. Len(decls) : symbolAssignValues(decls)[i] \in Nat
  <1> DEFINE M == Len(decls)
             next(n, v) == IF decls[n].init # 0 THEN decls[n].init ELSE v + 1
             step == [n \in 1 .. M |-> [v \in Nat |-> next(n, v)]]
  <1>0. M \in Nat /\ \A i \in 1 .. M : decls[i].init \in Nat
    OBVIOUS
  <1>1. ASSUME NEW n \in 1 .. M, NEW v \in Nat PROVE next(n, v) \in Nat
    BY <1>0
  <1> HIDE DEF next, M
  <1>2. step \in [1 .. M -> [Nat -> Nat]]
    BY <1>1
  <1>4. \A n \in 1 .. M, v \in Nat : step[n][v] = next(n, v)
    OBVIOUS
  <1> HIDE DEF step
  <1>a. \E f : Recurses(f, M, Nat, 0, step)
    BY <1>0, <1>2, Recursion
  <1>5. PICK f : /\ f \in [0 .. M -> Nat]
                 /\ f[0] = 0
                 /\ \A n \in 1 .. M : f[n] = step[n][f[n - 1]]
    BY <1>a DEF Recurses
  <1>6. \A n \in 1 .. M : f[n] = next(n, f[n - 1])
    <2>1. SUFFICES ASSUME NEW n \in 1 .. M PROVE f[n] = next(n, f[n - 1])
      OBVIOUS
    <2>2. f[n - 1] \in Nat
      BY <1>0, <1>5
    <2> QED  BY <1>4, <1>5, <2>2
  <1>7. \E g : Assigns(g, decls)
    <2> DEFINE g == [i \in 0..M |->
            IF i = 0 THEN 0
            ELSE IF decls[i].init # 0 THEN decls[i].init ELSE f[i - 1] + 1]
    <2>1. \A n \in 0 .. M : f[n] = g[n]
      BY <1>0, <1>5, <1>6 DEF next
    <2>2. f = [n \in 0 .. M |-> f[n]] /\ g = [n \in 0 .. M |-> g[n]]
      BY <1>5
    <2> HIDE DEF g
    <2>3. f = g
      BY <2>1, <2>2
    <2>4. Assigns(f, decls)
      BY <2>3 DEF Assigns, g, M
    <2> QED  BY <2>4
  <1> DEFINE value == CHOOSE g : Assigns(g, decls)
  <1>8. symbolAssignValues(decls) = [i \in 1 .. M |-> value[i]]
    BY Zenon DEF symbolAssignValues, Assigns, M
  <1>9. Assigns(value, decls)
    BY <1>7, Zenon
  <1> HIDE DEF value
  <1>10. /\ value[0] = 0
         /\ \A n \in 1 .. M : value[n] = IF decls[n].init # 0 THEN decls[n].init
                                         ELSE value[n - 1] + 1
    BY <1>0, <1>9 DEF Assigns, M
  <1> DEFINE S == {n \in 0 .. M : value[n] \in Nat}
  <1>11. 0 \in S
    BY <1>0, <1>10
  <1>12. ASSUME NEW n \in 1 .. M, n - 1 \in S PROVE n \in S
    BY <1>0, <1>10, <1>12
  <1> HIDE DEF S
  <1>13. \A n \in 0 .. M : n \in S
    BY <1>0, <1>11, <1>12, UpTo
  <1> QED  BY <1>0, <1>8, <1>13 DEF S, M

\* symbolDoLocalUpdate: what the list will make of the labels and values.
LocalUpdate(f, id, list) ==
    f = [i \in 0..Len(list) |->
            IF i = 0 THEN {<<x.name, x.value, 0>> : x \in db.consts[id]}
            ELSE LocalChange(f[i - 1], list[i], i)]

Triple == Names \X Nat \X Nat

LEMMA LocalChangeType ==
    ASSUME NEW S \in SUBSET Triple, NEW c, c.name \in Names, c.value \in Nat,
           c.kind \in {"kAdd", "kUpdate", "kRemove"}, NEW i \in Nat
    PROVE  LocalChange(S, c, i) \in SUBSET Triple
  <1>1. CASE c.kind = "kAdd"
    <2>1. <<c.name, c.value, i>> \in Triple
      BY DEF Triple
    <2>2. LocalChange(S, c, i) = S \cup {<<c.name, c.value, i>>}
      BY <1>1 DEF LocalChange
    <2> QED  BY <2>1, <2>2
  <1>2. CASE c.kind = "kUpdate"
    <2> DEFINE T == {IF x[1] = c.name THEN <<x[1], c.value, x[3]>> ELSE x : x \in S}
    <2>1. LocalChange(S, c, i) = T
      BY <1>2 DEF LocalChange
    <2>2. ASSUME NEW x \in S
          PROVE  (IF x[1] = c.name THEN <<x[1], c.value, x[3]>> ELSE x) \in Triple
      BY DEF Triple
    <2> QED  BY <2>1, <2>2
  <1>3. CASE c.kind = "kRemove"
    <2>1. LocalChange(S, c, i) = {x \in S : x[1] # c.name}
      BY <1>3 DEF LocalChange
    <2> QED  BY <2>1
  <1> QED  BY <1>1, <1>2, <1>3

LEMMA LocalUpdateRecursion ==
    ASSUME NEW id, db.consts[id] \subseteq EnumConstInfo, NEW list, Len(list) \in Nat,
           \A i \in 1 .. Len(list) : /\ list[i].name \in Names /\ list[i].value \in Nat
                                     /\ list[i].kind \in {"kAdd", "kUpdate", "kRemove"}
    PROVE  \E f : LocalUpdate(f, id, list)
  <1> DEFINE M == Len(list)
             X == SUBSET Triple
             s0 == {<<x.name, x.value, 0>> : x \in db.consts[id]}
             step == [n \in 1 .. M |-> [s \in X |-> LocalChange(s, list[n], n)]]
  <1>0. M \in Nat
    OBVIOUS
  <1>1. ASSUME NEW n \in 1 .. M, NEW s \in X PROVE LocalChange(s, list[n], n) \in X
    BY LocalChangeType
  <1>3. s0 \in X
    <2>1. ASSUME NEW x \in db.consts[id] PROVE <<x.name, x.value, 0>> \in Triple
      BY RowUpdate DEF Triple, EnumConstInfo
    <2> QED  BY <2>1
  <1> HIDE DEF M, X, s0
  <1>2. step \in [1 .. M -> [X -> X]]
    BY <1>1
  <1>4. \A n \in 1 .. M, s \in X : step[n][s] = LocalChange(s, list[n], n)
    OBVIOUS
  <1> HIDE DEF step
  <1>a. \E f : Recurses(f, M, X, s0, step)
    BY <1>0, <1>2, <1>3, Recursion
  <1>5. PICK f : /\ f \in [0 .. M -> X]
                 /\ f[0] = s0
                 /\ \A n \in 1 .. M : f[n] = step[n][f[n - 1]]
    BY <1>a DEF Recurses
  <1>6. \A n \in 1 .. M : f[n] = LocalChange(f[n - 1], list[n], n)
    <2>1. SUFFICES ASSUME NEW n \in 1 .. M PROVE f[n] = LocalChange(f[n - 1], list[n], n)
      OBVIOUS
    <2>2. f[n - 1] \in X
      BY <1>0, <1>5
    <2> QED  BY <1>4, <1>5, <2>2
  <1>7. LocalUpdate(f, id, list)
    <2> DEFINE g == [i \in 0..M |-> IF i = 0 THEN s0 ELSE LocalChange(f[i - 1], list[i], i)]
    <2>1. \A n \in 0 .. M : f[n] = g[n]
      BY <1>0, <1>5, <1>6
    <2>2. f = [n \in 0 .. M |-> f[n]] /\ g = [n \in 0 .. M |-> g[n]]
      BY <1>5
    <2> HIDE DEF g
    <2>3. f = g
      BY <2>1, <2>2
    <2> QED  BY <2>3 DEF LocalUpdate, g, M, s0
  <1> QED  BY <1>7

\* A change leaves the triples of other labels alone.
LEMMA LocalChangeKeeps ==
    ASSUME NEW S, NEW c, c.kind \in {"kAdd", "kUpdate", "kRemove"}, NEW i,
           NEW x \in S, x[1] # c.name
    PROVE  x \in LocalChange(S, c, i)
  <1>1. CASE c.kind = "kAdd"
    BY <1>1 DEF LocalChange
  <1>2. CASE c.kind = "kUpdate"
    <2>1. LocalChange(S, c, i) =
             {IF y[1] = c.name THEN <<y[1], c.value, y[3]>> ELSE y : y \in S}
      BY <1>2 DEF LocalChange
    <2> QED  BY <2>1
  <1>3. CASE c.kind = "kRemove"
    BY <1>3 DEF LocalChange
  <1> QED  BY <1>1, <1>2, <1>3

\* Every row that the list leaves, every row it updates and every constant it
\* adds is in the result.
LEMMA LocalUpdateHas ==
    ASSUME NEW id, db.consts[id] \subseteq EnumConstInfo, NEW list, Len(list) \in Nat,
           \A i \in 1 .. Len(list) : /\ list[i].name \in Names /\ list[i].value \in Nat
                                     /\ list[i].kind \in {"kAdd", "kUpdate", "kRemove"},
           \A i, j \in 1 .. Len(list) : list[i].name = list[j].name => i = j
    PROVE  LET T == symbolDoLocalUpdate(id, list)
               rows == db.consts[id]
           IN  /\ \A x \in rows : (\A j \in 1 .. Len(list) : list[j].name # x.name) =>
                     <<x.name, x.value, 0>> \in T
               /\ \A j \in 1 .. Len(list) : list[j].kind = "kAdd" =>
                     <<list[j].name, list[j].value, j>> \in T
               /\ \A j \in 1 .. Len(list), x \in rows :
                     list[j].kind = "kUpdate" /\ x.name = list[j].name =>
                        <<list[j].name, list[j].value, 0>> \in T
  <1> DEFINE M == Len(list)
             rows == db.consts[id]
             after == CHOOSE f : LocalUpdate(f, id, list)
             A(n) == \A x \in rows : (\A j \in 1 .. n : list[j].name # x.name) =>
                        <<x.name, x.value, 0>> \in after[n]
             B(n) == \A j \in 1 .. n : list[j].kind = "kAdd" =>
                        <<list[j].name, list[j].value, j>> \in after[n]
             C(n) == \A j \in 1 .. n, x \in rows :
                        list[j].kind = "kUpdate" /\ x.name = list[j].name =>
                           <<list[j].name, list[j].value, 0>> \in after[n]
             S == {n \in 0 .. M : A(n) /\ B(n) /\ C(n)}
  <1>0. M \in Nat /\ \A i \in 1 .. M : list[i].kind \in {"kAdd", "kUpdate", "kRemove"}
    OBVIOUS
  <1>d. \A i, j \in 1 .. M : list[i].name = list[j].name => i = j
    OBVIOUS
  <1>1. symbolDoLocalUpdate(id, list) = after[M]
    BY Zenon DEF symbolDoLocalUpdate, LocalUpdate
  <1>2. LocalUpdate(after, id, list)
    <2>1. \E f : LocalUpdate(f, id, list)
      BY LocalUpdateRecursion
    <2> QED  BY <2>1, Zenon
  <1> HIDE DEF after
  <1>3. after[0] = {<<x.name, x.value, 0>> : x \in rows}
    BY <1>0, <1>2 DEF LocalUpdate
  <1>4. \A n \in 1 .. M : after[n] = LocalChange(after[n - 1], list[n], n)
    <2>1. SUFFICES ASSUME NEW n \in 1 .. M
                   PROVE  after[n] = LocalChange(after[n - 1], list[n], n)
      OBVIOUS
    <2>2. n \in 0 .. Len(list) /\ n # 0
      BY <1>0
    <2>3. after = [i \in 0 .. Len(list) |->
                     IF i = 0 THEN {<<x.name, x.value, 0>> : x \in db.consts[id]}
                     ELSE LocalChange(after[i - 1], list[i], i)]
      BY <1>2, Zenon DEF LocalUpdate
    <2> QED  BY <2>2, <2>3, Zenon
  <1> HIDE DEF M
  <1>5. 0 \in S
    <2>1. A(0)
      BY <1>3
    <2>2. B(0) /\ C(0)
      OBVIOUS
    <2> HIDE DEF A, B, C
    <2> QED  BY <1>0, <2>1, <2>2
  <1>6. ASSUME NEW n \in 1 .. M, n - 1 \in S PROVE n \in S
    <2>1. A(n - 1) /\ B(n - 1) /\ C(n - 1)
      BY <1>6
    <2> DEFINE c == list[n]
               old == after[n - 1]
    <2>2. after[n] = LocalChange(old, c, n)
      BY <1>4
    <2>3. \A x \in old : x[1] # c.name => x \in after[n]
      BY <1>0, <2>2, LocalChangeKeeps
    <2>4. \A j \in 1 .. n : j = n \/ (j \in 1 .. n - 1 /\ list[j].name # c.name)
      BY <1>0, <1>d
    <2>5. A(n)
      <3>1. SUFFICES ASSUME NEW x \in rows, \A j \in 1 .. n : list[j].name # x.name
                     PROVE  <<x.name, x.value, 0>> \in after[n]
        OBVIOUS
      <3>2. \A j \in 1 .. n - 1 : list[j].name # x.name
        BY <1>0, <3>1
      <3>3. <<x.name, x.value, 0>> \in old
        BY <2>1, <3>2
      <3>4. <<x.name, x.value, 0>>[1] # c.name
        BY <1>0, <3>1
      <3> QED  BY <2>3, <3>3, <3>4
    <2>6. B(n)
      <3>1. SUFFICES ASSUME NEW j \in 1 .. n, list[j].kind = "kAdd"
                     PROVE  <<list[j].name, list[j].value, j>> \in after[n]
        OBVIOUS
      <3>2. CASE j = n
        BY <2>2, <3>1, <3>2 DEF LocalChange
      <3>3. CASE j # n
        <4>1. <<list[j].name, list[j].value, j>> \in old
          BY <2>1, <2>4, <3>1, <3>3
        <4>2. <<list[j].name, list[j].value, j>>[1] # c.name
          BY <2>4, <3>3
        <4> QED  BY <2>3, <4>1, <4>2
      <3> QED  BY <3>2, <3>3
    <2>7. C(n)
      <3>1. SUFFICES ASSUME NEW j \in 1 .. n, NEW x \in rows,
                            list[j].kind = "kUpdate", x.name = list[j].name
                     PROVE  <<list[j].name, list[j].value, 0>> \in after[n]
        OBVIOUS
      <3>2. CASE j = n
        <4>1. \A i \in 1 .. n - 1 : list[i].name # x.name
          BY <1>0, <1>d, <3>1, <3>2
        <4>2. <<x.name, x.value, 0>> \in old
          BY <2>1, <4>1
        <4>3. after[n] = {IF y[1] = c.name THEN <<y[1], c.value, y[3]>> ELSE y : y \in old}
          BY <2>2, <3>1, <3>2 DEF LocalChange
        <4> DEFINE y == <<x.name, x.value, 0>>
        <4>4. y[1] = c.name /\ y[3] = 0
          BY <3>1, <3>2
        <4>5. y \in old
          BY <4>2
        <4> HIDE DEF y
        <4>6. <<y[1], c.value, y[3]>> \in after[n]
          BY <4>3, <4>4, <4>5
        <4> QED  BY <3>2, <4>4, <4>6
      <3>3. CASE j # n
        <4>1. <<list[j].name, list[j].value, 0>> \in old
          BY <2>1, <2>4, <3>1, <3>3
        <4>2. <<list[j].name, list[j].value, 0>>[1] # c.name
          BY <2>4, <3>3
        <4> QED  BY <2>3, <4>1, <4>2
      <3> QED  BY <3>2, <3>3
    <2> HIDE DEF A, B, C
    <2> QED  BY <1>0, <2>5, <2>6, <2>7
  <1> HIDE DEF S
  <1>7. \A n \in 0 .. M : n \in S
    BY <1>0, <1>5, <1>6, UpTo
  <1>8. M \in S
    BY <1>0, <1>7
  <1>9. A(M) /\ B(M) /\ C(M)
    BY <1>8 DEF S
  <1> QED  BY <1>1, <1>9 DEF M

-----------------------------------------------------------------------------
\* The cache follows a change to the table

\* createEnumConstant: the label is new, so SECIMap does not have it.
LEMMA CacheAdds ==
    ASSUME NEW c \in CacheType, NEW rows, GoodRows(rows), CacheOf(c, rows),
           NEW eci \in EnumConstInfo, Named(rows, eci.name) = {}
    PROVE  LET r == addEci(c, eci)
           IN  r.returned # "throw" /\ CacheOf(r.c, rows \cup {eci})
  <1>1. Named(c.seci, eci.name) = {}
    BY DEF CacheOf, Named
  <1>2. CASE AtValue(c, eci.value) # {}
    <2>1. addEci(c, eci) = Result(c, "false")
      BY <1>2 DEF addEci
    <2> QED  BY <2>1, ResultIs DEF CacheOf
  <1>3. CASE AtValue(c, eci.value) = {}
    <2> DEFINE d == [seci |-> c.seci \cup {eci}, veci |-> c.veci \cup {eci.name}]
    <2>1. addEci(c, eci) = Result(d, "true")
      BY <1>1, <1>3 DEF addEci
    <2>2. d \in CacheType /\ d.seci = c.seci \cup {eci} /\ d.veci = c.veci \cup {eci.name}
      BY RowUpdate, CacheIs DEF CacheType, EnumConstInfo
    <2> HIDE DEF d
    <2>3. CacheOf(d, rows \cup {eci})
      BY <2>2 DEF CacheOf, NamesIn
    <2> QED  BY <2>1, <2>2, <2>3, ResultIs
  <1> QED  BY <1>2, <1>3

\* The rows after an UPDATE and after a DELETE of the row with a label and a value.
RowsUpdated(rows, name, old, value) ==
    {IF x.name = name /\ x.value = old THEN [x EXCEPT !.value = value] ELSE x : x \in rows}

RowsDropped(rows, name, old) == {x \in rows : ~(x.name = name /\ x.value = old)}

LEMMA RowsUpdatedType ==
    ASSUME NEW rows \in SUBSET EnumConstInfo, NEW name, NEW old, NEW value \in Nat,
           NamesDistinct(rows)
    PROVE  /\ RowsUpdated(rows, name, old, value) \in SUBSET EnumConstInfo
           /\ NamesDistinct(RowsUpdated(rows, name, old, value))
  <1> DEFINE new(x) == IF x.name = name /\ x.value = old THEN [x EXCEPT !.value = value] ELSE x
  <1>1. \A x \in rows : new(x) \in EnumConstInfo /\ new(x).name = x.name
    BY RowUpdate
  <1>2. RowsUpdated(rows, name, old, value) = {new(x) : x \in rows}
    BY DEF RowsUpdated
  <1> HIDE DEF new
  <1> QED  BY <1>1, <1>2 DEF NamesDistinct

LEMMA RowsDroppedType ==
    ASSUME NEW rows \in SUBSET EnumConstInfo, NEW name, NEW old, NamesDistinct(rows)
    PROVE  /\ RowsDropped(rows, name, old) \in SUBSET EnumConstInfo
           /\ NamesDistinct(RowsDropped(rows, name, old))
  BY DEF RowsDropped, NamesDistinct

\* If the row is the one that has the label, it is that row which is changed.
LEMMA RowsUpdatedIs ==
    ASSUME NEW rows \in SUBSET EnumConstInfo, NEW row \in rows, NEW value \in Nat,
           NamesDistinct(rows)
    PROVE  LET new == [row EXCEPT !.value = value]
           IN  /\ new \in EnumConstInfo /\ new.name = row.name /\ new.value = value
               /\ new.is_default = row.is_default
               /\ RowsUpdated(rows, row.name, row.value, value) = (rows \ {row}) \cup {new}
  <1> DEFINE new == [row EXCEPT !.value = value]
             f(x) == IF x.name = row.name /\ x.value = row.value
                     THEN [x EXCEPT !.value = value] ELSE x
  <1>1. /\ new \in EnumConstInfo /\ new.name = row.name /\ new.value = value
        /\ new.is_default = row.is_default
    BY RowUpdate
  <1>2. \A x \in rows : f(x) = IF x = row THEN new ELSE x
    BY DEF NamesDistinct
  <1>3. RowsUpdated(rows, row.name, row.value, value) = {f(x) : x \in rows}
    BY DEF RowsUpdated
  <1> HIDE DEF f, new
  <1>4. {f(x) : x \in rows} = (rows \ {row}) \cup {new}
    BY <1>2
  <1> QED  BY <1>1, <1>3, <1>4 DEF new

LEMMA RowsDroppedIs ==
    ASSUME NEW rows, NEW row \in rows, NamesDistinct(rows)
    PROVE  RowsDropped(rows, row.name, row.value) = rows \ {row}
  BY DEF RowsDropped, NamesDistinct

\* updateEnumConst: VECIMap has the object at its old value, and nothing at the
\* new one unless two constants now have one value.
LEMMA CacheUpdates ==
    ASSUME NEW c \in CacheType, NEW rows, GoodRows(rows), CacheOf(c, rows),
           NEW row \in rows, NEW value \in Nat
    PROVE  LET r == updateValue(c, row.name, value)
               after == RowsUpdated(rows, row.name, row.value, value)
           IN  r.returned # "throw" /\ (Distinct(after) => CacheOf(r.c, after))
  <1> DEFINE new == [row EXCEPT !.value = value]
             after == RowsUpdated(rows, row.name, row.value, value)
             old == Named(c.seci, row.name)
             at == UNION {AtValue(c, x.value) : x \in old}
             left == c.veci \ NamesIn(at)
             free == AtValue([c EXCEPT !.veci = left], value) = {}
             seci == {IF x.name = row.name THEN [x EXCEPT !.value = value] ELSE x : x \in c.seci}
             d == [seci |-> seci, veci |-> left \cup (IF free THEN {row.name} ELSE {})]
  <1>0. rows \in SUBSET EnumConstInfo /\ NamesDistinct(rows) /\ row \in EnumConstInfo
    BY DEF GoodRows
  <1>1. /\ new \in EnumConstInfo /\ new.name = row.name /\ new.value = value
        /\ after = (rows \ {row}) \cup {new}
    BY <1>0, RowsUpdatedIs
  <1>2. old = IF row \in c.seci THEN {row} ELSE {}
    BY <1>0 DEF Named, CacheOf, NamesDistinct
  <1>3. CASE row \notin c.seci
    <2>1. updateValue(c, row.name, value) = Result(c, "true")
      BY <1>2, <1>3 DEF updateValue
    <2>2. CacheOf(c, after)
      BY <1>1, <1>3 DEF CacheOf
    <2> QED  BY <2>1, <2>2, ResultIs
  <1>4. CASE row \in c.seci
    <2>1. AtValue(c, row.value) = {row}
      BY <1>4, ObjectsAtValue
    <2>2. at = {row}
      BY <1>2, <1>4, <2>1
    <2>3. left = c.veci \ {row.name}
      BY <2>2 DEF NamesIn
    <2>4. updateValue(c, row.name, value) = Result(d, "true")
      BY <1>2, <1>4, <2>2 DEF updateValue
    <2>5. seci = (c.seci \ {row}) \cup {new}
      <3> DEFINE f(x) == IF x.name = row.name THEN [x EXCEPT !.value = value] ELSE x
      <3>1. \A x \in c.seci : f(x) = IF x = row THEN new ELSE x
        BY <1>0 DEF CacheOf, NamesDistinct
      <3>2. seci = {f(x) : x \in c.seci}
        OBVIOUS
      <3> HIDE DEF f, new, seci
      <3> QED  BY <1>4, <3>1, <3>2
    <2>6. [c EXCEPT !.veci = left].seci = c.seci /\ [c EXCEPT !.veci = left].veci = left
      BY DEF CacheType
    <2> HIDE DEF new, after, seci, left
    <2>7. seci \in SUBSET EnumConstInfo /\ left \in SUBSET Names /\ row.name \in Names
      BY <1>0, <1>1, <2>3, <2>5, RowUpdate DEF CacheType
    <2>8. d \in CacheType /\ d.seci = seci /\ d.veci = left \cup (IF free THEN {row.name} ELSE {})
      BY <2>7, CacheIs
    <2>9. ASSUME Distinct(after) PROVE free
      <3>1. SUFFICES ASSUME NEW x \in c.seci, x.name \in left, x.value = value PROVE FALSE
        BY <2>6 DEF AtValue
      <3>2. x \in after /\ new \in after /\ x.name # row.name
        BY <1>1, <2>3, <3>1 DEF CacheOf
      <3> QED  BY <1>1, <2>9, <3>1, <3>2 DEF Distinct
    <2> HIDE DEF d, free
    <2>10. ASSUME Distinct(after) PROVE CacheOf(d, after)
      <3>1. d.seci = (c.seci \ {row}) \cup {new} /\ d.veci = c.veci
        BY <1>4, <2>3, <2>5, <2>8, <2>9, <2>10 DEF CacheOf, NamesIn
      <3>2. NamesIn(d.seci) = NamesIn(c.seci)
        BY <1>1, <1>4, <3>1 DEF NamesIn
      <3> QED  BY <1>1, <3>1, <3>2 DEF CacheOf
    <2>11. Result(d, "true").returned = "true" /\ Result(d, "true").c = d
      BY <2>8, ResultIs
    <2> QED  BY <2>4, <2>10, <2>11 DEF after
  <1> QED  BY <1>3, <1>4

\* dropEnumConst: the object that is deleted is the one with the label.
LEMMA CacheDrops ==
    ASSUME NEW c \in CacheType, NEW rows, GoodRows(rows), CacheOf(c, rows), NEW row \in rows
    PROVE  LET r == drop(c, row.name)
               after == RowsDropped(rows, row.name, row.value)
           IN  r.returned # "throw" /\ CacheOf(r.c, after)
  <1> DEFINE after == RowsDropped(rows, row.name, row.value)
             old == Named(c.seci, row.name)
             at == UNION {AtValue(c, x.value) : x \in old}
             d == [seci |-> c.seci \ old, veci |-> c.veci \ {row.name}]
  <1>0. NamesDistinct(rows)
    BY DEF GoodRows
  <1>1. after = rows \ {row}
    BY <1>0, RowsDroppedIs
  <1>2. old = IF row \in c.seci THEN {row} ELSE {}
    BY <1>0 DEF Named, CacheOf, NamesDistinct
  <1>3. CASE row \notin c.seci
    <2>1. drop(c, row.name) = Result(c, "true")
      BY <1>2, <1>3 DEF drop
    <2>2. CacheOf(c, after)
      BY <1>1, <1>3 DEF CacheOf
    <2> QED  BY <2>1, <2>2, ResultIs
  <1>4. CASE row \in c.seci
    <2>1. AtValue(c, row.value) = {row}
      BY <1>4, ObjectsAtValue
    <2>2. at = old
      BY <1>2, <1>4, <2>1
    <2>3. drop(c, row.name) = Result(d, "true")
      BY <1>2, <1>4, <2>2 DEF drop
    <2>4. d \in CacheType /\ d.seci = c.seci \ {row} /\ d.veci = c.veci \ {row.name}
      BY <1>2, <1>4, CacheIs DEF CacheType
    <2> HIDE DEF d, after
    <2>5. CacheOf(d, after)
      <3>1. \A x \in c.seci : x.name = row.name <=> x = row
        BY <1>0, <1>4 DEF CacheOf, NamesDistinct
      <3>2. NamesIn(d.seci) = d.veci
        BY <2>4, <3>1 DEF CacheOf, NamesIn
      <3> QED  BY <1>1, <2>4, <3>2 DEF CacheOf
    <2>6. Result(d, "true").returned = "true" /\ Result(d, "true").c = d
      BY <2>4, ResultIs
    <2> QED  BY <2>3, <2>5, <2>6 DEF after
  <1> QED  BY <1>3, <1>4

\* setDefaultEnumConst: names and values stay.
RowsWithDefault(rows, S) == {[x EXCEPT !.is_default = x.name \in S] : x \in rows}

LEMMA RowsWithDefaultType ==
    ASSUME NEW rows \in SUBSET EnumConstInfo, NEW S
    PROVE  LET after == RowsWithDefault(rows, S)
           IN  /\ after \in SUBSET EnumConstInfo
               /\ NamesDistinct(rows) => NamesDistinct(after)
               /\ NamesDistinct(rows) /\ Distinct(rows) => Distinct(after)
               /\ \A y \in after : y.is_default <=> y.name \in S
               /\ \A x \in rows : \E y \in after : y.name = x.name
  <1> DEFINE f(x) == [x EXCEPT !.is_default = x.name \in S]
             after == RowsWithDefault(rows, S)
  <1>1. \A x \in rows : /\ f(x) \in EnumConstInfo
                        /\ f(x).name = x.name /\ f(x).value = x.value
                        /\ f(x).is_default <=> x.name \in S
    <2>1. SUFFICES ASSUME NEW x \in rows
                   PROVE  /\ f(x) \in EnumConstInfo
                          /\ f(x).name = x.name /\ f(x).value = x.value
                          /\ f(x).is_default <=> x.name \in S
      OBVIOUS
    <2> DEFINE b == x.name \in S
    <2>2. b \in BOOLEAN /\ f(x) = [x EXCEPT !.is_default = b]
      OBVIOUS
    <2> HIDE DEF f, b
    <2>3. /\ f(x) \in EnumConstInfo
          /\ f(x).name = x.name /\ f(x).value = x.value /\ f(x).is_default = b
      BY <2>2, RowUpdate
    <2> QED  BY <2>3, Zenon DEF b
  <1>2. after = {f(x) : x \in rows}
    BY DEF RowsWithDefault
  <1> HIDE DEF f, after
  <1>3. after \in SUBSET EnumConstInfo /\ (NamesDistinct(rows) => NamesDistinct(after))
        /\ (NamesDistinct(rows) /\ Distinct(rows) => Distinct(after))
    BY <1>1, <1>2 DEF NamesDistinct, Distinct
  <1>4. \A y \in after : y.is_default <=> y.name \in S
    BY <1>1, <1>2
  <1>5. \A x \in rows : \E y \in after : y.name = x.name
    BY <1>1, <1>2
  <1> QED  BY <1>3, <1>4, <1>5 DEF after

LEMMA CacheSetsDefault ==
    ASSUME NEW c \in CacheType, NEW rows, CacheOf(c, rows), rows \subseteq EnumConstInfo, NEW name
    PROVE  CacheOf(setNewDefault(c, name), RowsWithDefault(rows, {name}))
  <1> DEFINE f(x) == [x EXCEPT !.is_default = x.name = name]
             g(x) == [x EXCEPT !.is_default = x.name \in {name}]
  <1>1. \A x \in rows : f(x) = g(x) /\ f(x).name = x.name
    BY RowUpdate
  <1>2. setNewDefault(c, name).veci = c.veci /\ setNewDefault(c, name).seci = {f(x) : x \in c.seci}
    BY SetNewDefaultIs
  <1>3. RowsWithDefault(rows, {name}) = {g(x) : x \in rows}
    BY DEF RowsWithDefault
  <1> HIDE DEF f, g
  <1>4. NamesIn(setNewDefault(c, name).seci) = NamesIn(c.seci)
    BY <1>1, <1>2 DEF NamesIn, CacheOf
  <1> QED  BY <1>1, <1>2, <1>3, <1>4 DEF CacheOf

-----------------------------------------------------------------------------
\* The plan of a statement, change by change

LEMMA PlanAdds ==
    ASSUME NEW rows, NEW C, NEW default, Plan(rows, C, default), NEW h \in C, IsNew(h),
           NEW e, e.name = h.name, e.value = h.value, e.is_default = h.is_default
    PROVE  Plan(rows \cup {e}, C \ {h}, default)
  <1> DEFINE R == rows \cup {e}
             D == C \ {h}
  <1>0. PlannedNames(rows, C) /\ PlannedValues(rows, C)
    BY DEF Plan
  <1>a. \A x \in rows : x.name # h.name
    BY <1>0 DEF PlannedNames
  <1>b. \A x \in rows : Untouched(x, D) <=> Untouched(x, C)
    BY <1>a DEF Untouched
  <1>c. \A x \in rows : Stays(x, D) <=> Stays(x, C)
    BY <1>a DEF Stays
  <1>d. Stays(e, D)
    BY <1>0 DEF Stays, PlannedNames
  <1>e. h.kind # "kRemove"
    BY DEF IsNew
  <1>1. PlannedNames(R, D)
    BY <1>0 DEF PlannedNames
  <1>2. PlannedValues(R, D)
    BY <1>0, <1>b, <1>e DEF PlannedValues, Untouched
  <1>3. CASE default = NoName
    <2>1. PlannedDefault(rows, C)
      BY <1>3 DEF Plan
    <2>2. PlannedDefault(R, D)
      BY <2>1, <1>c, <1>d DEF PlannedDefault
    <2> QED  BY <1>1, <1>2, <1>3, <2>2 DEF Plan
  <1>4. CASE default # NoName
    <2>1. NamedDefault(rows, C, default)
      BY <1>4 DEF Plan
    <2>2. NamedDefault(R, D, default)
      BY <2>1, <1>c, <1>d DEF NamedDefault
    <2> QED  BY <1>1, <1>2, <1>4, <2>2 DEF Plan
  <1> QED  BY <1>3, <1>4

LEMMA PlanUpdates ==
    ASSUME NEW rows, NEW C, NEW default, Plan(rows, C, default), NEW h \in C,
           h.kind = "kUpdate", NamesDistinct(rows), NEW row \in rows, row.name = h.name,
           NEW e, e.name = row.name, e.value = h.value, e.is_default = row.is_default
    PROVE  Plan((rows \ {row}) \cup {e}, C \ {h}, default)
  <1> DEFINE R == (rows \ {row}) \cup {e}
             D == C \ {h}
  <1>0. PlannedNames(rows, C) /\ PlannedValues(rows, C) /\ ~IsNew(h)
    BY DEF Plan, IsNew
  <1>a. \A x \in rows \ {row} : x.name # h.name
    BY DEF NamesDistinct
  <1>b. \A x \in rows \ {row} : Untouched(x, D) <=> Untouched(x, C)
    BY <1>a DEF Untouched
  <1>c. \A x \in rows \ {row} : Stays(x, D) <=> Stays(x, C)
    BY <1>a DEF Stays
  <1>d. Stays(e, D) /\ Stays(row, C)
    BY <1>0 DEF Stays, PlannedNames
  <1>1. PlannedNames(R, D)
    BY <1>0 DEF PlannedNames
  <1>2. PlannedValues(R, D)
    BY <1>0, <1>b DEF PlannedValues, Untouched
  <1>3. CASE default = NoName
    <2>1. PlannedDefault(rows, C)
      BY <1>3 DEF Plan
    <2>2. PlannedDefault(R, D)
      BY <1>0, <2>1, <1>c, <1>d DEF PlannedDefault
    <2> QED  BY <1>1, <1>2, <1>3, <2>2 DEF Plan
  <1>4. CASE default # NoName
    <2>1. NamedDefault(rows, C, default)
      BY <1>4 DEF Plan
    <2>2. NamedDefault(R, D, default)
      BY <1>0, <2>1, <1>c, <1>d DEF NamedDefault
    <2> QED  BY <1>1, <1>2, <1>4, <2>2 DEF Plan
  <1> QED  BY <1>3, <1>4

LEMMA PlanDrops ==
    ASSUME NEW rows, NEW C, NEW default, Plan(rows, C, default), NEW h \in C,
           h.kind = "kRemove", NamesDistinct(rows), NEW row \in rows, row.name = h.name
    PROVE  Plan(rows \ {row}, C \ {h}, default)
  <1> DEFINE R == rows \ {row}
             D == C \ {h}
  <1>0. PlannedNames(rows, C) /\ PlannedValues(rows, C) /\ ~IsNew(h)
    BY DEF Plan, IsNew
  <1>a. \A x \in R : x.name # h.name
    BY DEF NamesDistinct
  <1>b. \A x \in R : Untouched(x, D) <=> Untouched(x, C)
    BY <1>a DEF Untouched
  <1>c. \A x \in R : Stays(x, D) <=> Stays(x, C)
    BY <1>a DEF Stays
  <1>d. ~Stays(row, C)
    BY DEF Stays
  <1>1. PlannedNames(R, D)
    BY <1>0 DEF PlannedNames
  <1>2. PlannedValues(R, D)
    BY <1>0, <1>b DEF PlannedValues
  <1>3. CASE default = NoName
    <2>1. PlannedDefault(rows, C)
      BY <1>3 DEF Plan
    <2>2. PlannedDefault(R, D)
      BY <1>0, <2>1, <1>c, <1>d DEF PlannedDefault
    <2> QED  BY <1>1, <1>2, <1>3, <2>2 DEF Plan
  <1>4. CASE default # NoName
    <2>1. NamedDefault(rows, C, default)
      BY <1>4 DEF Plan
    <2>2. NamedDefault(R, D, default)
      BY <1>0, <2>1, <1>c, <1>d DEF NamedDefault
    <2> QED  BY <1>1, <1>2, <1>4, <2>2 DEF Plan
  <1> QED  BY <1>3, <1>4

\* At the end of the plan, the rows are sound.
LEMMA PlanDone ==
    ASSUME NEW rows, NamesDistinct(rows), Plan(rows, {}, NoName)
    PROVE  SoundRows(rows)
  <1>1. PlannedValues(rows, {}) /\ PlannedDefault(rows, {})
    BY DEF Plan
  <1>2. \A x : Untouched(x, {}) /\ Stays(x, {})
    BY DEF Untouched, Stays
  <1>3. \A x, y \in rows : (x.name = y.name \/ x.value = y.value) => x = y
    BY <1>1, <1>2 DEF PlannedValues, NamesDistinct
  <1>4. PICK x \in rows : x.is_default
    BY <1>1 DEF PlannedDefault
  <1>5. \A y \in rows : y.is_default => y = x
    BY <1>1, <1>2, <1>4 DEF PlannedDefault
  <1>6. UniqueDefault(rows)
    BY <1>4, <1>5 DEF UniqueDefault
  <1> QED  BY <1>3, <1>6 DEF SoundRows

LEMMA PlanDefaults ==
    ASSUME NEW rows \in SUBSET EnumConstInfo, NamesDistinct(rows), NEW default,
           default # NoName, Plan(rows, {}, default)
    PROVE  SoundRows(RowsWithDefault(rows, {default}))
  <1> DEFINE after == RowsWithDefault(rows, {default})
  <1>1. PlannedValues(rows, {}) /\ NamedDefault(rows, {}, default)
    BY DEF Plan
  <1>2. \A x : Untouched(x, {}) /\ Stays(x, {})
    BY DEF Untouched, Stays
  <1>3. Distinct(rows)
    BY <1>1, <1>2 DEF PlannedValues, Distinct
  <1>4. /\ NamesDistinct(after) /\ Distinct(after)
        /\ \A y \in after : y.is_default <=> y.name \in {default}
        /\ \A x \in rows : \E y \in after : y.name = x.name
    BY <1>3, RowsWithDefaultType
  <1> HIDE DEF after
  <1>5. PICK y \in after : y.name = default
    BY <1>1, <1>4 DEF NamedDefault
  <1>6. y.is_default /\ \A z \in after : z.is_default => z = y
    BY <1>4, <1>5 DEF NamesDistinct
  <1>7. UniqueDefault(after)
    BY <1>6 DEF UniqueDefault
  <1> QED  BY <1>4, <1>7 DEF SoundRows, NamesDistinct, Distinct, after

\* The changes that remain after the first one.
LEMMA ChangesTail ==
    ASSUME NEW todo \in Seq(Change), todo # << >>,
           \A i, j \in 1 .. Len(todo) : todo[i].name = todo[j].name => i = j
    PROVE  /\ Head(todo) \in Change /\ Tail(todo) \in Seq(Change)
           /\ Head(todo) \in Changes(todo)
           /\ Changes(Tail(todo)) = Changes(todo) \ {Head(todo)}
           /\ \A i, j \in 1 .. Len(Tail(todo)) : Tail(todo)[i].name = Tail(todo)[j].name => i = j
  <1>1. /\ Head(todo) \in Change /\ Tail(todo) \in Seq(Change)
        /\ Len(Tail(todo)) = Len(todo) - 1
        /\ \A i \in 1 .. Len(Tail(todo)) : Tail(todo)[i] = todo[i + 1]
    BY HeadTailProperties
  <1>2. Len(todo) \in Nat /\ Len(todo) >= 1 /\ Head(todo) = todo[1]
    OBVIOUS
  <1> DEFINE rest == Tail(todo)
  <1> HIDE DEF rest
  <1>3. \A i, j \in 1 .. Len(rest) : rest[i].name = rest[j].name => i = j
    BY <1>1, <1>2 DEF rest
  <1>4. Changes(rest) = Changes(todo) \ {todo[1]}
    <2>1. ASSUME NEW i \in 1 .. Len(rest)
          PROVE  i + 1 \in 1 .. Len(todo) /\ rest[i] = todo[i + 1] /\ todo[i + 1] # todo[1]
      BY <1>1, <1>2 DEF rest
    <2>2. ASSUME NEW i \in 1 .. Len(todo), todo[i] # todo[1]
          PROVE  i - 1 \in 1 .. Len(rest) /\ rest[i - 1] = todo[i]
      BY <1>1, <1>2, <2>2 DEF rest
    <2>3. ASSUME NEW x \in Changes(rest) PROVE x \in Changes(todo) \ {todo[1]}
      <3>1. PICK i \in 1 .. Len(rest) : x = rest[i]
        BY DEF Changes
      <3>2. i + 1 \in 1 .. Len(todo) /\ x = todo[i + 1] /\ x # todo[1]
        BY <2>1, <3>1
      <3> QED  BY <3>2 DEF Changes
    <2>4. ASSUME NEW x \in Changes(todo), x # todo[1] PROVE x \in Changes(rest)
      <3>1. PICK i \in 1 .. Len(todo) : x = todo[i]
        BY DEF Changes
      <3>2. i - 1 \in 1 .. Len(rest) /\ rest[i - 1] = x
        BY <2>2, <2>4, <3>1
      <3> QED  BY <3>2 DEF Changes
    <2> QED  BY <2>3, <2>4
  <1>5. todo[1] \in Changes(todo)
    BY <1>2 DEF Changes
  <1> QED  BY <1>1, <1>2, <1>3, <1>4, <1>5 DEF rest

-----------------------------------------------------------------------------
\* Databases

EnumRow == [id : EnumIds, name : Enums]

LEMMA DatabaseFields ==
    ASSUME NEW d \in Database
    PROVE  /\ d.enums \in SUBSET EnumRow /\ d.consts \in [EnumIds -> SUBSET EnumConstInfo]
           /\ d.seq \in Nat /\ d.torn \in BOOLEAN /\ d.stale \in BOOLEAN
  BY DEF Database, EnumRow

SameTables(x, d) == x.enums = d.enums /\ x.consts = d.consts /\ x.seq = d.seq

LEMMA WithStale ==
    ASSUME NEW d \in Database, NEW u \in BOOLEAN
    PROVE  LET x == [d EXCEPT !.stale = u]
           IN  x \in Database /\ SameTables(x, d) /\ x.torn = d.torn /\ x.stale = u
  BY DEF Database, SameTables

LEMMA WithTorn ==
    ASSUME NEW d \in Database, NEW u \in BOOLEAN
    PROVE  LET x == [d EXCEPT !.torn = u]
           IN  x \in Database /\ SameTables(x, d) /\ x.torn = u /\ x.stale = d.stale
  BY DEF Database, SameTables

LEMMA WithSeq ==
    ASSUME NEW d \in Database, NEW n \in Nat
    PROVE  LET x == [d EXCEPT !.seq = n]
           IN  /\ x \in Database
               /\ x.enums = d.enums /\ x.consts = d.consts
               /\ x.seq = n /\ x.torn = d.torn /\ x.stale = d.stale
  BY DEF Database

LEMMA WithEnums ==
    ASSUME NEW d \in Database, NEW S \in SUBSET EnumRow
    PROVE  LET x == [d EXCEPT !.enums = S]
           IN  /\ x \in Database
               /\ x.enums = S /\ x.consts = d.consts
               /\ x.seq = d.seq /\ x.torn = d.torn /\ x.stale = d.stale
  BY DEF Database, EnumRow

\* What holds of a table holds of one with the same rows.
LEMMA SameTablesSame ==
    ASSUME NEW x, NEW d, SameTables(x, d)
    PROVE  /\ TablesOK(x) <=> TablesOK(d)
           /\ \A k : SoundEnum(x, k) <=> SoundEnum(d, k)
  BY DEF SameTables, TablesOK, SoundEnum

-----------------------------------------------------------------------------
\* How steps end

LEMMA InvFields ==
    ASSUME CatalogInv
    PROVE  /\ inProgress \in BOOLEAN /\ db \in Database /\ stored \in Database
           /\ enumCache \in SUBSET EnumRow /\ constCache \in [EnumIds -> CacheType]
           /\ statement \in Statement
           /\ suspect \in BOOLEAN /\ broken = FALSE /\ faults \in Nat
           /\ \A k \in EnumIds : db.consts[k] \in SUBSET EnumConstInfo
           /\ ~suspect => \A k \in EnumIds : GoodRows(db.consts[k])
  <1>1. /\ inProgress \in BOOLEAN /\ db \in Database /\ stored \in Database
        /\ enumCache \in SUBSET EnumRow /\ constCache \in [EnumIds -> CacheType]
        /\ statement \in Statement
        /\ suspect \in BOOLEAN /\ broken = FALSE /\ faults \in Nat
    BY DEF CatalogInv, TypeOK, EnumRow, CacheType
  <1>2. \A k \in EnumIds : db.consts[k] \in SUBSET EnumConstInfo
    BY <1>1, DatabaseFields
  <1>3. TablesOK(db) /\ (~suspect => Trusted)
    BY DEF CatalogInv
  <1> QED  BY <1>1, <1>2, <1>3 DEF TablesOK, Trusted, GoodRows

LEMMA InvParts ==
    ASSUME inProgress' \in BOOLEAN, db' \in Database, stored' \in Database,
           enumCache' \in SUBSET EnumRow, constCache' \in [EnumIds -> CacheType],
           statement' \in Statement, suspect' \in BOOLEAN, broken' = FALSE, faults' \in Nat,
           TablesOK(db'), TablesOK(stored'),
           ~suspect' => /\ \A k \in EnumIds : /\ Distinct(db'.consts[k])
                                              /\ CacheOf(constCache'[k], db'.consts[k])
                        /\ enumCache' \subseteq db'.enums,
           ~inProgress' => stored' = db',
           SoundDatabase(db'), SoundDatabase(stored'), StatementOK', Executing'
    PROVE  CatalogInv'
  <1>1. TypeOK'
    BY DEF TypeOK, EnumRow, CacheType
  <1>2. (~suspect => Trusted)'
    BY DEF Trusted
  <1> QED  BY <1>1, <1>2 DEF CatalogInv

LEMMA NotExecuting ==
    ASSUME statement' = Idle
    PROVE  statement' \in Statement /\ StatementOK' /\ Executing'
  <1>1. Idle \in Statement
    BY DEF Idle, Statement, NoName
  <1> QED  BY <1>1 DEF StatementOK, Executing

\* A command is in effect, and on disk outside a transaction.
LEMMA WriteKeeps ==
    ASSUME CatalogInv, NEW d \in Database, TablesOK(d), d.stale = db.stale,
           inProgress' = inProgress, Write(d),
           ~d.torn /\ ~d.stale /\ ~suspect => \A k \in EnumIds : SoundEnum(d, k)
    PROVE  /\ db' \in Database /\ stored' \in Database
           /\ TablesOK(db') /\ TablesOK(stored')
           /\ ~inProgress' => stored' = db'
           /\ SoundDatabase(db') /\ SoundDatabase(stored')
           /\ SameTables(db', d) /\ db'.torn = d.torn
           /\ db'.stale <=> db.stale \/ suspect
  <1> DEFINE u == d.stale \/ suspect
             x == [d EXCEPT !.stale = u]
  <1>1. u \in BOOLEAN /\ d.stale \in BOOLEAN /\ suspect \in BOOLEAN
    BY InvFields, DatabaseFields
  <1>2. db' = x /\ stored' = IF inProgress THEN stored ELSE db'
    BY DEF Write
  <1>u. u <=> db.stale \/ suspect
    OBVIOUS
  <1> HIDE DEF u
  <1>3. x \in Database /\ SameTables(x, d) /\ x.torn = d.torn /\ x.stale = u
    BY <1>1, WithStale
  <1> HIDE DEF x
  <1>4. TablesOK(x) /\ \A k : SoundEnum(x, k) <=> SoundEnum(d, k)
    BY <1>3, SameTablesSame
  <1>5. SoundDatabase(x)
    <2>1. SUFFICES ASSUME ~x.torn, ~x.stale PROVE \A k \in EnumIds : SoundEnum(x, k)
      BY DEF SoundDatabase
    <2>2. ~d.torn /\ ~d.stale /\ ~suspect
      BY <1>3, <1>u, <2>1
    <2> QED  BY <1>4, <2>2
  <1>6. stored \in Database /\ TablesOK(stored) /\ SoundDatabase(stored)
        /\ inProgress \in BOOLEAN
    BY InvFields DEF CatalogInv
  <1> QED  BY <1>2, <1>3, <1>u, <1>4, <1>5, <1>6

LEMMA EmptyCache ==
    /\ [k \in EnumIds |-> NotCached] \in [EnumIds -> CacheType]
    /\ \A rows : CacheOf(NotCached, rows)
  BY DEF NotCached, CacheType, CacheOf, NamesIn

\* The process ends, and another one opens the database that is on disk.
LEMMA RestartKeeps ==
    ASSUME CatalogInv, Restart, broken' = FALSE, faults' \in Nat
    PROVE  CatalogInv'
  <1>1. /\ db' = stored /\ stored' = stored /\ inProgress' = FALSE
        /\ enumCache' = {} /\ constCache' = [k \in EnumIds |-> NotCached]
        /\ statement' = Idle
        /\ suspect' = ~(\A k \in EnumIds : Distinct(stored.consts[k]))
    BY DEF Restart
  <1>2. stored \in Database /\ TablesOK(stored) /\ SoundDatabase(stored)
    BY InvFields DEF CatalogInv
  <1>3. statement' \in Statement /\ StatementOK' /\ Executing'
    BY <1>1, NotExecuting
  <1>4. constCache' \in [EnumIds -> CacheType] /\ enumCache' \in SUBSET EnumRow
    BY <1>1, EmptyCache
  <1>5. ~suspect' => /\ \A k \in EnumIds : /\ Distinct(db'.consts[k])
                                           /\ CacheOf(constCache'[k], db'.consts[k])
                     /\ enumCache' \subseteq db'.enums
    BY <1>1, EmptyCache
  <1>6. suspect' \in BOOLEAN
    BY <1>1
  <1> QED  BY <1>1, <1>2, <1>3, <1>4, <1>5, <1>6, InvParts

\* An exception is thrown only where the cache was suspect.
LEMMA ThrowKeeps ==
    ASSUME CatalogInv, Throw, suspect
    PROVE  CatalogInv'
  <1>1. broken = FALSE /\ faults \in Nat
    BY InvFields
  <1>2. broken' = FALSE /\ faults' \in Nat
    BY <1>1 DEF Throw
  <1> QED  BY <1>2, RestartKeeps DEF Throw

\* A command fails, and some before it stay in effect.
LEMMA CommandFailsKeeps ==
    ASSUME CatalogInv, NEW enums \in SUBSET EnumRow, ~suspect => enums \subseteq db.enums,
           NEW partial, CommandFails(enums, partial),
           \A d \in partial : /\ d \in Database /\ TablesOK(d)
                              /\ d.enums = db.enums /\ d.stale = db.stale
    PROVE  CatalogInv'
  <1>0. /\ db \in Database /\ TablesOK(db) /\ SoundDatabase(db) /\ faults \in Nat
        /\ inProgress \in BOOLEAN /\ suspect \in BOOLEAN /\ broken = FALSE
        /\ constCache \in [EnumIds -> CacheType] /\ (~suspect => Trusted)
    BY InvFields DEF CatalogInv
  <1>1. PICK d \in IF inProgress THEN partial ELSE {db} :
           /\ Write([d EXCEPT !.torn = @ \/ d # db])
           /\ suspect' = (suspect \/ d.consts # db.consts)
    BY DEF CommandFails
  <1>2. d \in Database /\ TablesOK(d) /\ d.enums = db.enums /\ d.stale = db.stale
    BY <1>0
  <1> DEFINE u == d.torn \/ d # db
             x == [d EXCEPT !.torn = u]
  <1>3. u \in BOOLEAN /\ (~u => d = db) /\ Write(x)
    BY <1>1, <1>2, DatabaseFields
  <1>u. ~u => ~d.torn
    OBVIOUS
  <1> HIDE DEF u
  <1>4. x \in Database /\ SameTables(x, d) /\ x.torn = u /\ x.stale = d.stale
    BY <1>2, <1>3, WithTorn
  <1> HIDE DEF x
  <1>5. TablesOK(x) /\ \A k : SoundEnum(x, k) <=> SoundEnum(d, k)
    BY <1>2, <1>4, SameTablesSame
  <1>6. ~x.torn /\ ~x.stale /\ ~suspect => \A k \in EnumIds : SoundEnum(x, k)
    BY <1>0, <1>2, <1>3, <1>u, <1>4, <1>5 DEF SoundDatabase
  <1>7. /\ inProgress' = inProgress /\ constCache' = constCache /\ broken' = FALSE
        /\ enumCache' = enums /\ statement' = Idle /\ faults' \in Nat
    BY <1>0 DEF CommandFails
  <1>8. /\ db' \in Database /\ stored' \in Database
        /\ TablesOK(db') /\ TablesOK(stored')
        /\ ~inProgress' => stored' = db'
        /\ SoundDatabase(db') /\ SoundDatabase(stored')
        /\ SameTables(db', x)
    BY <1>2, <1>3, <1>4, <1>5, <1>6, <1>7, WriteKeeps
  <1>9. db'.consts = d.consts /\ db'.enums = db.enums
    BY <1>2, <1>4, <1>8 DEF SameTables
  <1>10. ~suspect' => /\ \A k \in EnumIds : /\ Distinct(db'.consts[k])
                                            /\ CacheOf(constCache'[k], db'.consts[k])
                      /\ enumCache' \subseteq db'.enums
    BY <1>0, <1>1, <1>7, <1>9 DEF Trusted
  <1>11. statement' \in Statement /\ StatementOK' /\ Executing'
    BY <1>7, NotExecuting
  <1>12. suspect' \in BOOLEAN
    BY <1>1
  <1> QED  BY <1>0, <1>7, <1>8, <1>10, <1>11, <1>12, InvParts

\* A change has been made.
LEMMA ChangedKeeps ==
    ASSUME CatalogInv, statement.todo # << >>,
           NEW rows \in SUBSET EnumConstInfo, NamesDistinct(rows), NEW r \in ResultType,
           ~suspect => r.returned # "throw" /\ (Distinct(rows) => CacheOf(r.c, rows)),
           ~suspect /\ ~statement.torn /\ ~db.stale /\ r.returned = "true" =>
              Plan(rows, Changes(Tail(statement.todo)), statement.default),
           Changed(rows, r)
    PROVE  CatalogInv'
  <1> DEFINE id == statement.id
             rest == [statement EXCEPT !.todo = Tail(@)]
             last == rest.todo = << >> /\ rest.default = NoName
             ended == r.returned = "false" \/ last
             u == IF r.returned = "true" /\ last THEN statement.torn ELSE TRUE
             d == [db EXCEPT !.consts[id] = rows, !.torn = u]
  <1>0. /\ db \in Database /\ TablesOK(db) /\ statement \in Statement
        /\ suspect \in BOOLEAN /\ broken = FALSE /\ faults \in Nat /\ inProgress \in BOOLEAN
        /\ constCache \in [EnumIds -> CacheType] /\ (~suspect => Trusted)
        /\ enumCache \in SUBSET EnumRow
        /\ StatementOK /\ Executing
    BY InvFields DEF CatalogInv
  <1>1. /\ statement.id \in Nat /\ statement.todo \in Seq(Change)
        /\ statement.default \in Nat /\ statement.torn \in BOOLEAN
    BY <1>0 DEF Statement
  <1>2. statement # Idle
    BY DEF Idle
  <1>3. /\ id \in EnumIds
        /\ \A i, j \in 1 .. Len(statement.todo) :
              statement.todo[i].name = statement.todo[j].name => i = j
    BY <1>0, <1>2 DEF StatementOK
  <1>4. /\ Tail(statement.todo) \in Seq(Change)
        /\ \A i, j \in 1 .. Len(Tail(statement.todo)) :
              Tail(statement.todo)[i].name = Tail(statement.todo)[j].name => i = j
    BY <1>1, <1>3, ChangesTail
  <1>5. /\ rest \in Statement /\ rest.id = id /\ rest.todo = Tail(statement.todo)
        /\ rest.default = statement.default /\ rest.torn = statement.torn
    BY <1>0, <1>4 DEF Statement
  <1>6. CASE r.returned = "throw"
    <2>1. suspect /\ Throw
      BY <1>6 DEF Changed
    <2> QED  BY <2>1, ThrowKeeps
  <1>7. CASE r.returned # "throw"
    <2>1. /\ Write(d)
          /\ constCache' = [constCache EXCEPT ![id] = r.c]
          /\ statement' = IF ended THEN Idle ELSE rest
          /\ suspect' = (suspect \/ ~Distinct(rows))
          /\ enumCache' = enumCache /\ NoFault
      BY <1>7 DEF Changed
    <2>2. inProgress' = inProgress /\ broken' = FALSE /\ faults' \in Nat
      BY <1>0, <2>1 DEF NoFault
    <2>3. u \in BOOLEAN /\ (~u => r.returned = "true" /\ last /\ ~statement.torn)
      BY <1>1
    <2> HIDE DEF id, rest, u
    <2>4. /\ d \in Database
          /\ d.enums = db.enums /\ d.consts = [db.consts EXCEPT ![id] = rows]
          /\ d.seq = db.seq /\ d.torn = u /\ d.stale = db.stale
      <3>1. db \in Database /\ id \in EnumIds /\ u \in BOOLEAN
        BY <1>0, <1>3, <2>3
      <3> QED  BY <3>1 DEF Database
    <2> HIDE DEF d
    <2>5. \A k \in EnumIds : d.consts[k] = IF k = id THEN rows ELSE db.consts[k]
      BY <1>0, <1>3, <2>4, DatabaseFields
    <2>6. TablesOK(d)
      BY <1>0, <2>4, <2>5 DEF TablesOK
    <2>7. \A k \in EnumIds \ {id} : SoundEnum(d, k) <=> SoundEnum(db, k)
      BY <2>4, <2>5 DEF SoundEnum
    <2>8. ~d.torn /\ ~d.stale /\ ~suspect => \A k \in EnumIds : SoundEnum(d, k)
      <3>1. SUFFICES ASSUME ~d.torn, ~d.stale, ~suspect
                     PROVE  \A k \in EnumIds : SoundEnum(d, k)
        OBVIOUS
      <3>2. r.returned = "true" /\ last /\ ~statement.torn /\ ~db.stale
        BY <2>3, <2>4, <3>1
      <3>3. Tail(statement.todo) = << >> /\ statement.default = NoName
        BY <1>5, <3>2
      <3>4. Changes(<< >>) = {}
        BY DEF Changes
      <3>5. Plan(rows, {}, NoName)
        BY <3>1, <3>2, <3>3, <3>4
      <3>6. SoundRows(rows)
        BY <3>5, PlanDone
      <3>7. /\ \A k \in EnumIds \ {id} : SoundEnum(db, k)
            /\ \E x \in db.enums : x.id = id
        BY <1>0, <1>2, <3>1, <3>2 DEF Executing, id
      <3>8. SoundEnum(d, id)
        BY <1>3, <2>4, <2>5, <3>6, <3>7 DEF SoundEnum
      <3> QED  BY <2>7, <3>7, <3>8
    <2>9. /\ db' \in Database /\ stored' \in Database
          /\ TablesOK(db') /\ TablesOK(stored')
          /\ ~inProgress' => stored' = db'
          /\ SoundDatabase(db') /\ SoundDatabase(stored')
          /\ SameTables(db', d) /\ db'.torn = d.torn
          /\ db'.stale <=> db.stale \/ suspect
      BY <2>1, <2>2, <2>4, <2>6, <2>8, WriteKeeps
    <2>10. db'.enums = db.enums /\ db'.consts = d.consts
      BY <2>4, <2>9 DEF SameTables
    <2>11. /\ constCache' \in [EnumIds -> CacheType]
           /\ \A k \in EnumIds : constCache'[k] = IF k = id THEN r.c ELSE constCache[k]
      BY <1>0, <1>3, <2>1 DEF ResultType
    <2>12. ~suspect' => /\ \A k \in EnumIds : /\ Distinct(db'.consts[k])
                                              /\ CacheOf(constCache'[k], db'.consts[k])
                        /\ enumCache' \subseteq db'.enums
      BY <1>0, <2>1, <2>5, <2>10, <2>11, <1>7 DEF Trusted
    <2>13. statement' \in Statement /\ StatementOK' /\ Executing'
      <3>1. CASE ended
        BY <2>1, <3>1, NotExecuting
      <3>2. CASE ~ended
        <4>1. statement' = rest /\ r.returned = "true"
          BY <1>7, <2>1, <3>2 DEF ResultType
        <4>2. rest.todo # << >> \/ rest.default # NoName
          BY <3>2
        <4>3. StatementOK'
          <5>1. /\ rest.id \in EnumIds
                /\ \A i, j \in 1 .. Len(rest.todo) :
                      rest.todo[i].name = rest.todo[j].name => i = j
            BY <1>3, <1>4, <1>5, Zenon
          <5> QED  BY <4>1, <4>2, <5>1, Zenon DEF StatementOK
        <4>4. ASSUME ~rest.torn, ~db'.stale, ~suspect'
              PROVE  /\ \A k \in EnumIds \ {rest.id} : SoundEnum(db', k)
                     /\ \E x \in db'.enums : x.id = rest.id
                     /\ Plan(db'.consts[rest.id], Changes(rest.todo), rest.default)
          <5>1. ~suspect /\ ~statement.torn /\ ~db.stale
            BY <1>5, <2>1, <2>9, <4>4
          <5>2. /\ \A k \in EnumIds \ {id} : SoundEnum(db, k)
                /\ \E x \in db.enums : x.id = id
            BY <1>0, <1>2, <5>1 DEF Executing, id
          <5>3. \A k : SoundEnum(db', k) <=> SoundEnum(d, k)
            BY <2>9, SameTablesSame
          <5>4. Plan(rows, Changes(Tail(statement.todo)), statement.default)
            BY <4>1, <5>1
          <5>5. db'.consts[id] = rows
            BY <1>3, <2>5, <2>10
          <5> QED  BY <1>5, <2>7, <2>10, <5>2, <5>3, <5>4, <5>5
        <4>5. Executing'
          BY <4>1, <4>4 DEF Executing
        <4> QED  BY <1>5, <4>1, <4>3, <4>5
      <3> QED  BY <3>1, <3>2
    <2>14. suspect' \in BOOLEAN
      BY <2>1
    <2> QED  BY <1>0, <2>1, <2>2, <2>9, <2>11, <2>12, <2>13, <2>14, InvParts
  <1> QED  BY <1>6, <1>7

LEMMA FoundIs ==
    ASSUME NEW c, NEW id, NamesDistinct(db.consts[id]), CacheOf(c, db.consts[id]), NEW name
    PROVE  Found(c, id, name) = Named(db.consts[id], name)
  <1>1. CASE Named(c.seci, name) = {}
    BY <1>1 DEF Found
  <1>2. CASE Named(c.seci, name) # {}
    <2>1. Found(c, id, name) = Named(c.seci, name)
      BY <1>2 DEF Found
    <2>2. Named(c.seci, name) = Named(db.consts[id], name)
      BY <1>2 DEF Named, CacheOf, NamesDistinct
    <2> QED  BY <2>1, <2>2
  <1> QED  BY <1>1, <1>2

\* One change of CREATE or UPDATE ENUMERATION.
LEMMA ChangeKeeps ==
    ASSUME CatalogInv, execAddUpdateRemove
    PROVE  CatalogInv'
  <1> DEFINE change == Head(statement.todo)
             id == statement.id
             c == constCache[id]
             rows == db.consts[id]
             r == IF change.kind = "kDeclare" THEN Result(c, "true")
                  ELSE enumConstExists(c, id, change.name)
             found == Found(c, id, change.name)
             C == Changes(statement.todo)
  <1>0. /\ db \in Database /\ TablesOK(db) /\ statement \in Statement
        /\ constCache \in [EnumIds -> CacheType] /\ (~suspect => Trusted)
        /\ enumCache \in SUBSET EnumRow
        /\ StatementOK /\ Executing
    BY InvFields DEF CatalogInv
  <1>t. statement.todo # << >>
    BY DEF execAddUpdateRemove
  <1>1. statement.todo \in Seq(Change) /\ statement # Idle
    BY <1>0, <1>t DEF Statement, Idle
  <1>2. /\ id \in EnumIds
        /\ \A i, j \in 1 .. Len(statement.todo) :
              statement.todo[i].name = statement.todo[j].name => i = j
    BY <1>0, <1>1 DEF StatementOK
  <1>3. /\ change \in Change /\ change \in C
        /\ Changes(Tail(statement.todo)) = C \ {change}
    BY <1>1, <1>2, <1>t, ChangesTail
  <1>4. /\ change.name \in Names /\ change.value \in Nat /\ change.is_default \in BOOLEAN
        /\ change.kind \in {"kDeclare", "kAdd", "kUpdate", "kRemove"}
    BY <1>3 DEF Change
  <1>5. c \in CacheType /\ rows \in SUBSET EnumConstInfo /\ NamesDistinct(rows)
    BY <1>0, <1>2, InvFields DEF TablesOK
  <1>6. ~suspect => GoodRows(rows) /\ CacheOf(c, rows)
    BY <1>0, <1>2, InvFields DEF Trusted
  <1>7. ~suspect /\ ~statement.torn /\ ~db.stale => Plan(rows, C, statement.default)
    BY <1>0, <1>1 DEF Executing
  <1>8. execAddUpdateRemove =>
           \/ r.returned # "true" /\ Changed(rows, r)
           \/ /\ r.returned = "true"
              /\ \/ change.kind \in {"kDeclare", "kAdd"} /\ createEnumConstant(r.c, change)
                 \/ \E old \in found :
                       \/ change.kind = "kUpdate" /\ updateEnumConst(r.c, change, old)
                       \/ change.kind = "kRemove" /\ dropEnumConst(r.c, change, old)
                 \/ /\ change.kind \in {"kUpdate", "kRemove"} /\ found = {}
                    /\ Changed(rows, r)
           \/ CommandFails(enumCache, {db})
    BY DEF execAddUpdateRemove
  <1>9. r \in ResultType /\ (~suspect => r.returned = "true" /\ CacheOf(r.c, rows))
    <2>1. CASE change.kind = "kDeclare"
      <3>1. r = Result(c, "true")
        BY <2>1
      <3> QED  BY <1>5, <1>6, <3>1, ResultIs
    <2>2. CASE change.kind # "kDeclare"
      <3>1. r = enumConstExists(c, id, change.name)
        BY <2>2
      <3> QED  BY <1>5, <1>6, <3>1, LookupName
    <2> QED  BY <2>1, <2>2
  <1>10. ~suspect => found = Named(rows, change.name)
    BY <1>5, <1>6, FoundIs
  <1>11. r.c \in CacheType
    BY <1>9 DEF ResultType
  <1>p. id = statement.id /\ rows = db.consts[statement.id]
    OBVIOUS
  <1> HIDE DEF change, C, r, found, c, rows, id
  <1>12. CASE r.returned # "true" /\ Changed(rows, r)
    BY <1>t, <1>5, <1>9, <1>12, ChangedKeeps
  <1>13. CASE /\ r.returned = "true" /\ change.kind \in {"kDeclare", "kAdd"}
              /\ createEnumConstant(r.c, change)
    <2> DEFINE eci == ECI(change.name, change.value, change.is_default)
               f == Result(r.c, "false")
    <2>1. /\ eci \in EnumConstInfo /\ eci.name = change.name /\ eci.value = change.value
          /\ eci.is_default = change.is_default
      BY <1>4 DEF ECI, EnumConstInfo
    <2>2. CASE Named(rows, change.name) # {}
      <3>1. Changed(rows, f)
        BY <1>p, <1>13, <2>2 DEF createEnumConstant
      <3>2. f \in ResultType /\ f.c = r.c /\ f.returned = "false"
        BY <1>11, ResultIs
      <3> HIDE DEF f
      <3> QED  BY <1>t, <1>5, <1>9, <3>1, <3>2, ChangedKeeps
    <2>3. CASE Named(rows, change.name) = {}
      <3> DEFINE a == addEci(r.c, eci)
      <3>1. Changed(rows \cup {eci}, a)
        BY <1>p, <1>13, <2>3 DEF createEnumConstant
      <3> HIDE DEF eci
      <3>2. a \in ResultType
        BY <1>11, <2>1, AddEciType
      <3>3. ~suspect => a.returned # "throw" /\ CacheOf(a.c, rows \cup {eci})
        BY <1>6, <1>9, <1>11, <2>1, <2>3, CacheAdds
      <3>4. rows \cup {eci} \in SUBSET EnumConstInfo /\ NamesDistinct(rows \cup {eci})
        BY <1>5, <2>1, <2>3 DEF Named, NamesDistinct
      <3>5. IsNew(change)
        BY <1>13 DEF IsNew
      <3>6. ~suspect /\ ~statement.torn /\ ~db.stale =>
               Plan(rows \cup {eci}, Changes(Tail(statement.todo)), statement.default)
        BY <1>3, <1>7, <2>1, <3>5, PlanAdds
      <3> HIDE DEF a
      <3> QED  BY <1>t, <3>1, <3>2, <3>3, <3>4, <3>6, ChangedKeeps
    <2> QED  BY <2>2, <2>3
  <1>14. ASSUME r.returned = "true", NEW old \in found, change.kind = "kUpdate",
                updateEnumConst(r.c, change, old)
         PROVE  CatalogInv'
    <2> DEFINE after == RowsUpdated(rows, change.name, old.value, change.value)
               a == updateValue(r.c, change.name, change.value)
    <2>1. Changed(after, a)
      BY <1>p, <1>14 DEF updateEnumConst, RowsUpdated
    <2>2. after \in SUBSET EnumConstInfo /\ NamesDistinct(after)
      BY <1>4, <1>5, RowsUpdatedType
    <2>3. a \in ResultType
      BY <1>4, <1>11, UpdateValueType
    <2>4. ~suspect => old \in rows /\ old.name = change.name
      BY <1>10, <1>14 DEF Named
    <2>5. ASSUME ~suspect
          PROVE  a.returned # "throw" /\ (Distinct(after) => CacheOf(a.c, after))
      <3>1. after = RowsUpdated(rows, old.name, old.value, change.value)
            /\ a = updateValue(r.c, old.name, change.value)
        BY <2>4, <2>5
      <3> HIDE DEF after, a
      <3> QED  BY <1>4, <1>6, <1>9, <1>11, <2>4, <2>5, <3>1, CacheUpdates
    <2>6. ASSUME ~suspect, ~statement.torn, ~db.stale
          PROVE  Plan(after, Changes(Tail(statement.todo)), statement.default)
      <3> DEFINE new == [old EXCEPT !.value = change.value]
      <3>1. /\ new \in EnumConstInfo /\ new.name = old.name /\ new.value = change.value
            /\ new.is_default = old.is_default
            /\ after = (rows \ {old}) \cup {new}
        BY <1>4, <1>5, <2>4, <2>6, RowsUpdatedIs
      <3> HIDE DEF new, after
      <3>2. Plan(rows, C, statement.default)
        BY <1>7, <2>6
      <3> QED  BY <1>3, <1>5, <1>14, <2>4, <2>6, <3>1, <3>2, PlanUpdates
    <2> HIDE DEF after, a
    <2> QED  BY <1>t, <2>1, <2>2, <2>3, <2>5, <2>6, ChangedKeeps
  <1>15. ASSUME r.returned = "true", NEW old \in found, change.kind = "kRemove",
                dropEnumConst(r.c, change, old)
         PROVE  CatalogInv'
    <2> DEFINE after == RowsDropped(rows, change.name, old.value)
               a == drop(r.c, change.name)
    <2>1. Changed(after, a)
      BY <1>p, <1>15 DEF dropEnumConst, RowsDropped
    <2>2. after \in SUBSET EnumConstInfo /\ NamesDistinct(after)
      BY <1>5, RowsDroppedType
    <2>3. a \in ResultType
      BY <1>11, DropType
    <2>4. ~suspect => old \in rows /\ old.name = change.name
      BY <1>10, <1>15 DEF Named
    <2>5. ASSUME ~suspect
          PROVE  a.returned # "throw" /\ CacheOf(a.c, after)
      <3>1. after = RowsDropped(rows, old.name, old.value) /\ a = drop(r.c, old.name)
        BY <2>4, <2>5
      <3> HIDE DEF after, a
      <3> QED  BY <1>6, <1>9, <1>11, <2>4, <2>5, <3>1, CacheDrops
    <2>6. ASSUME ~suspect, ~statement.torn, ~db.stale
          PROVE  Plan(after, Changes(Tail(statement.todo)), statement.default)
      <3>1. after = rows \ {old}
        BY <1>5, <2>4, <2>6, RowsDroppedIs
      <3> HIDE DEF after
      <3>2. Plan(rows, C, statement.default)
        BY <1>7, <2>6
      <3> QED  BY <1>3, <1>5, <1>15, <2>4, <2>6, <3>1, <3>2, PlanDrops
    <2> HIDE DEF after, a
    <2> QED  BY <1>t, <2>1, <2>2, <2>3, <2>5, <2>6, ChangedKeeps
  <1>16. CASE /\ r.returned = "true" /\ change.kind \in {"kUpdate", "kRemove"}
              /\ found = {} /\ Changed(rows, r)
    <2>1. ASSUME ~suspect, ~statement.torn, ~db.stale PROVE FALSE
      <3>1. PlannedNames(rows, C)
        BY <1>7, <2>1 DEF Plan
      <3>2. \E x \in rows : x.name = change.name
        BY <1>3, <1>16, <3>1 DEF PlannedNames, IsNew
      <3> QED  BY <1>10, <1>16, <2>1, <3>2 DEF Named
    <2> QED  BY <1>t, <1>5, <1>9, <1>16, <2>1, ChangedKeeps
  <1>17. CASE CommandFails(enumCache, {db})
    <2>1. ~suspect => enumCache \subseteq db.enums
      BY <1>0 DEF Trusted
    <2> QED  BY <1>0, <1>17, <2>1, CommandFailsKeeps
  <1> QED  BY <1>8, <1>12, <1>13, <1>14, <1>15, <1>16, <1>17

\* The new default, after the changes.
LEMMA DefaultKeeps ==
    ASSUME CatalogInv, setDefaultEnumConst
    PROVE  CatalogInv'
  <1> DEFINE id == statement.id
             rows == db.consts[id]
             name == statement.default
             With(S) == [db EXCEPT !.consts[id] = {[x EXCEPT !.is_default = x.name \in S] : x \in @}]
  <1>0. /\ db \in Database /\ TablesOK(db) /\ statement \in Statement
        /\ constCache \in [EnumIds -> CacheType] /\ (~suspect => Trusted)
        /\ enumCache \in SUBSET EnumRow /\ inProgress \in BOOLEAN
        /\ suspect \in BOOLEAN /\ broken = FALSE /\ faults \in Nat
        /\ StatementOK /\ Executing
    BY InvFields DEF CatalogInv
  <1>1. statement.todo = << >> /\ name # NoName
    BY DEF setDefaultEnumConst
  <1>2. statement # Idle /\ statement.torn \in BOOLEAN
    BY <1>0, <1>1 DEF Idle, Statement
  <1>3. id \in EnumIds
    BY <1>0, <1>2 DEF StatementOK
  <1>5. rows \in SUBSET EnumConstInfo /\ NamesDistinct(rows)
    BY <1>0, <1>3, InvFields DEF TablesOK
  <1>6. ASSUME NEW S
        PROVE  /\ With(S) \in Database
               /\ With(S).enums = db.enums /\ With(S).seq = db.seq
               /\ With(S).torn = db.torn /\ With(S).stale = db.stale
               /\ \A k \in EnumIds : With(S).consts[k] = IF k = id THEN RowsWithDefault(rows, S)
                                                         ELSE db.consts[k]
               /\ TablesOK(With(S))
    <2> DEFINE new == RowsWithDefault(rows, S)
    <2>1. new \in SUBSET EnumConstInfo /\ NamesDistinct(new)
      BY <1>5, RowsWithDefaultType
    <2>2. With(S) = [db EXCEPT !.consts[id] = new]
      BY <1>0, <1>3 DEF RowsWithDefault
    <2> HIDE DEF With, new
    <2>3. /\ With(S) \in Database
          /\ With(S).enums = db.enums /\ With(S).consts = [db.consts EXCEPT ![id] = new]
          /\ With(S).seq = db.seq
          /\ With(S).torn = db.torn /\ With(S).stale = db.stale
      <3>1. db \in Database /\ id \in EnumIds /\ new \in SUBSET EnumConstInfo
        BY <1>0, <1>3, <2>1
      <3> QED  BY <2>2, <3>1 DEF Database
    <2>4. \A k \in EnumIds : With(S).consts[k] = IF k = id THEN new ELSE db.consts[k]
      BY <1>0, <1>3, <2>3, DatabaseFields
    <2>5. TablesOK(With(S))
      BY <1>0, <2>1, <2>3, <2>4 DEF TablesOK
    <2> QED  BY <2>3, <2>4, <2>5 DEF new
  <1>7. setDefaultEnumConst =>
           \/ /\ Write([With({name}) EXCEPT !.torn = statement.torn])
              /\ constCache' = [constCache EXCEPT ![id] = setNewDefault(@, name)]
              /\ statement' = Idle
              /\ UNCHANGED <<enumCache, suspect>> /\ NoFault
           \/ CommandFails(enumCache, {db, With({})})
    BY DEF setDefaultEnumConst
  <1>p. name = statement.default /\ id = statement.id /\ rows = db.consts[statement.id]
    OBVIOUS
  <1> HIDE DEF With, id, rows, name
  <1>8. CASE CommandFails(enumCache, {db, With({})})
    <2>1. ~suspect => enumCache \subseteq db.enums
      BY <1>0 DEF Trusted
    <2> QED  BY <1>0, <1>6, <1>8, <2>1, CommandFailsKeeps
  <1>9. CASE /\ Write([With({name}) EXCEPT !.torn = statement.torn])
             /\ constCache' = [constCache EXCEPT ![id] = setNewDefault(@, name)]
             /\ statement' = Idle
             /\ UNCHANGED <<enumCache, suspect>> /\ NoFault
    <2> DEFINE w == With({name})
               d == [w EXCEPT !.torn = statement.torn]
               new == RowsWithDefault(rows, {name})
    <2>1. /\ w \in Database /\ w.enums = db.enums /\ w.stale = db.stale /\ TablesOK(w)
          /\ \A k \in EnumIds : w.consts[k] = IF k = id THEN new ELSE db.consts[k]
      BY <1>6
    <2>2. Write(d)
      BY <1>9
    <2>i. inProgress' = inProgress /\ broken' = FALSE /\ faults' \in Nat
      BY <1>0, <1>9 DEF NoFault
    <2> HIDE DEF w
    <2>3. d \in Database /\ SameTables(d, w) /\ d.torn = statement.torn /\ d.stale = db.stale
      BY <1>2, <2>1, WithTorn
    <2> HIDE DEF d
    <2>4. TablesOK(d) /\ \A k : SoundEnum(d, k) <=> SoundEnum(w, k)
      BY <2>1, <2>3, SameTablesSame
    <2>5. ~d.torn /\ ~d.stale /\ ~suspect => \A k \in EnumIds : SoundEnum(d, k)
      <3>1. SUFFICES ASSUME ~statement.torn, ~db.stale, ~suspect
                     PROVE  \A k \in EnumIds : SoundEnum(w, k)
        BY <2>3, <2>4
      <3>2. /\ \A k \in EnumIds \ {id} : SoundEnum(db, k)
            /\ \E x \in db.enums : x.id = id
            /\ Plan(rows, Changes(statement.todo), name)
        BY <1>0, <1>2, <3>1, <1>p DEF Executing
      <3>3. Changes(statement.todo) = {}
        BY <1>1 DEF Changes
      <3>4. SoundRows(new)
        BY <1>1, <1>5, <3>2, <3>3, PlanDefaults
      <3>5. SoundEnum(w, id)
        BY <1>3, <2>1, <3>2, <3>4 DEF SoundEnum
      <3>6. \A k \in EnumIds \ {id} : SoundEnum(w, k)
        BY <2>1, <3>2 DEF SoundEnum
      <3> QED  BY <3>5, <3>6
    <2>6. /\ db' \in Database /\ stored' \in Database
          /\ TablesOK(db') /\ TablesOK(stored')
          /\ ~inProgress' => stored' = db'
          /\ SoundDatabase(db') /\ SoundDatabase(stored')
          /\ SameTables(db', d)
      BY <2>2, <2>i, <2>3, <2>4, <2>5, WriteKeeps
    <2>7. db'.enums = db.enums /\ db'.consts = w.consts
      BY <2>1, <2>3, <2>6 DEF SameTables
    <2>8. /\ constCache' \in [EnumIds -> CacheType]
          /\ \A k \in EnumIds : constCache'[k] = IF k = id THEN setNewDefault(constCache[id], name)
                                                 ELSE constCache[k]
      BY <1>0, <1>3, <1>9, SetNewDefaultIs
    <2>9. ~suspect => /\ Distinct(new)
                      /\ CacheOf(setNewDefault(constCache[id], name), new)
      <3>1. SUFFICES ASSUME ~suspect
                     PROVE  Distinct(new) /\ CacheOf(setNewDefault(constCache[id], name), new)
        OBVIOUS
      <3>2. Distinct(rows) /\ CacheOf(constCache[id], rows) /\ constCache[id] \in CacheType
        BY <1>0, <1>3, <3>1, <1>p DEF Trusted
      <3> QED  BY <1>5, <3>2, RowsWithDefaultType, CacheSetsDefault
    <2> HIDE DEF new
    <2>10. suspect' = suspect /\ enumCache' = enumCache
      BY <1>9
    <2>11. ~suspect' => /\ \A k \in EnumIds : /\ Distinct(db'.consts[k])
                                              /\ CacheOf(constCache'[k], db'.consts[k])
                        /\ enumCache' \subseteq db'.enums
      BY <1>0, <2>1, <2>7, <2>8, <2>9, <2>10 DEF Trusted
    <2>12. statement' \in Statement /\ StatementOK' /\ Executing'
      BY <1>9, NotExecuting
    <2> QED  BY <1>0, <2>i, <2>6, <2>8, <2>10, <2>11, <2>12, InvParts
  <1> QED  BY <1>7, <1>8, <1>9

-----------------------------------------------------------------------------
\* Lookups

LEMMA EnumRowIs ==
    ASSUME NEW x \in EnumRow
    PROVE  x.id \in EnumIds /\ x.name \in Enums /\ x = [id |-> x.id, name |-> x.name]
  BY DEF EnumRow

LEMMA EnumFound ==
    ASSUME CatalogInv, NEW e \in Enums, NEW id \in enumExists(e)
    PROVE  /\ id \in EnumIds
           /\ ~suspect => [id |-> id, name |-> e] \in db.enums
  <1>1. enumCache \in SUBSET EnumRow /\ db.enums \in SUBSET EnumRow
    BY InvFields, DatabaseFields
  <1>2. PICK x \in enumCache \cup db.enums : x.id = id /\ x.name = e
    BY DEF enumExists
  <1>3. id \in EnumIds /\ x = [id |-> id, name |-> e]
    BY <1>1, <1>2, EnumRowIs
  <1>4. ~suspect => enumCache \subseteq db.enums
    BY DEF CatalogInv, Trusted
  <1> QED  BY <1>2, <1>3, <1>4

LEMMA EnumCached ==
    ASSUME CatalogInv, NEW e \in Enums, NEW id \in enumExists(e)
    PROVE  /\ addEnumToCache(e, id) \in SUBSET EnumRow
           /\ ~suspect => addEnumToCache(e, id) \subseteq db.enums
  <1>1. enumCache \in SUBSET EnumRow /\ (~suspect => enumCache \subseteq db.enums)
    BY InvFields DEF CatalogInv, Trusted
  <1>2. [id |-> id, name |-> e] \in EnumRow /\ (~suspect => [id |-> id, name |-> e] \in db.enums)
    BY EnumFound DEF EnumRow
  <1> QED  BY <1>1, <1>2 DEF addEnumToCache

\* The cache has more of an enumeration, and nothing else changes.
LEMMA CachedMore ==
    ASSUME CatalogInv, NEW e \in Enums, NEW id \in enumExists(e), NEW r \in ResultType,
           ~suspect => CacheOf(r.c, db.consts[id]),
           enumCache' = addEnumToCache(e, id),
           constCache' = [constCache EXCEPT ![id] = r.c],
           UNCHANGED <<db, stored, suspect>>, NoFault,
           statement' \in Statement, StatementOK', Executing'
    PROVE  CatalogInv'
  <1>1. /\ db \in Database /\ stored \in Database /\ TablesOK(db) /\ TablesOK(stored)
        /\ SoundDatabase(db) /\ SoundDatabase(stored) /\ (~inProgress => stored = db)
        /\ constCache \in [EnumIds -> CacheType] /\ (~suspect => Trusted)
        /\ inProgress \in BOOLEAN /\ suspect \in BOOLEAN /\ broken = FALSE /\ faults \in Nat
    BY InvFields DEF CatalogInv
  <1>2. id \in EnumIds
    BY EnumFound
  <1>3. /\ db' = db /\ stored' = stored /\ suspect' = suspect
        /\ inProgress' = inProgress /\ broken' = broken /\ faults' = faults
    BY DEF NoFault
  <1>4. /\ constCache' \in [EnumIds -> CacheType]
        /\ \A k \in EnumIds : constCache'[k] = IF k = id THEN r.c ELSE constCache[k]
    BY <1>1, <1>2 DEF ResultType
  <1>5. enumCache' \in SUBSET EnumRow /\ (~suspect => enumCache' \subseteq db.enums)
    BY EnumCached
  <1>6. ~suspect' => /\ \A k \in EnumIds : /\ Distinct(db'.consts[k])
                                           /\ CacheOf(constCache'[k], db'.consts[k])
                     /\ enumCache' \subseteq db'.enums
    BY <1>1, <1>3, <1>4, <1>5 DEF Trusted
  <1> QED  BY <1>1, <1>3, <1>4, <1>5, <1>6, InvParts

LEMMA LookupKeeps ==
    ASSUME CatalogInv, NEW e \in Enums, NEW id \in enumExists(e), NEW r \in ResultType,
           ~suspect => r.returned # "throw" /\ CacheOf(r.c, db.consts[id]), Lookup(e, id, r)
    PROVE  CatalogInv'
  <1>1. CASE r.returned = "throw"
    <2>1. suspect /\ Throw
      BY <1>1 DEF Lookup
    <2> QED  BY <2>1, ThrowKeeps
  <1>2. CASE r.returned # "throw"
    <2>1. /\ enumCache' = addEnumToCache(e, id)
          /\ constCache' = [constCache EXCEPT ![id] = r.c]
          /\ UNCHANGED <<db, stored, statement, suspect>> /\ NoFault
          /\ statement = Idle
      BY <1>2 DEF Lookup
    <2>2. statement' \in Statement /\ StatementOK' /\ Executing'
      BY <2>1, NotExecuting
    <2> QED  BY <2>1, <2>2, CachedMore
  <1> QED  BY <1>1, <1>2

LEMMA LookupStatementKeeps ==
    ASSUME CatalogInv, LookupStatement
    PROVE  CatalogInv'
  <1>1. ASSUME NEW e \in Enums, NEW id \in enumExists(e)
        PROVE  /\ constCache[id] \in CacheType /\ db.consts[id] \subseteq EnumConstInfo
               /\ ~suspect => GoodRows(db.consts[id]) /\ CacheOf(constCache[id], db.consts[id])
    BY EnumFound, InvFields DEF CatalogInv, Trusted
  <1>2. PICK e \in Enums : \/ \E name \in Names : LookupByName(e, name)
                           \/ \E value \in 1 .. MaxValue : LookupByValue(e, value)
                           \/ LookupAll(e)
    BY DEF LookupStatement
  <1>3. ASSUME NEW name \in Names, LookupByName(e, name) PROVE CatalogInv'
    <2>1. PICK id \in enumExists(e) : Lookup(e, id, enumConstExists(constCache[id], id, name))
      BY <1>3 DEF LookupByName
    <2> DEFINE r == enumConstExists(constCache[id], id, name)
    <2>2. r \in ResultType /\ (~suspect => r.returned # "throw" /\ CacheOf(r.c, db.consts[id]))
      BY <1>1, LookupName
    <2>3. Lookup(e, id, r)
      BY <2>1
    <2> HIDE DEF r
    <2> QED  BY <2>2, <2>3, LookupKeeps
  <1>4. ASSUME NEW value \in 1 .. MaxValue, LookupByValue(e, value) PROVE CatalogInv'
    <2>1. PICK id \in enumExists(e) :
             \E r \in enumConstExistsByValue(constCache[id], id, value) : Lookup(e, id, r)
      BY <1>4 DEF LookupByValue
    <2>2. PICK r \in enumConstExistsByValue(constCache[id], id, value) : Lookup(e, id, r)
      BY <2>1
    <2>3. r \in ResultType /\ (~suspect => r.returned # "throw" /\ CacheOf(r.c, db.consts[id]))
      BY <1>1, LookupValue
    <2> QED  BY <2>2, <2>3, LookupKeeps
  <1>5. CASE LookupAll(e)
    <2>1. PICK id \in enumExists(e) : Lookup(e, id, getEnumConstants(constCache[id], id))
      BY <1>5 DEF LookupAll
    <2> DEFINE r == getEnumConstants(constCache[id], id)
    <2>2. r \in ResultType /\ (~suspect => r.returned # "throw" /\ CacheOf(r.c, db.consts[id]))
      BY <1>1, LoadAll
    <2>3. Lookup(e, id, r)
      BY <2>1
    <2> HIDE DEF r
    <2> QED  BY <2>2, <2>3, LookupKeeps
  <1> QED  BY <1>2, <1>3, <1>4, <1>5

-----------------------------------------------------------------------------
\* CREATE ENUMERATION

LEMMA ListIs ==
    ASSUME NEW S, NEW list \in Lists(S)
    PROVE  /\ list \in Seq(S) /\ list # << >> /\ Len(list) \in Nat \ {0}
           /\ \A i \in 1 .. Len(list) : list[i] \in S
  <1>1. PICK n \in 1 .. MaxChanges : list \in [1 .. n -> S]
    BY DEF Lists
  <1>2. n \in Nat \ {0}
    BY CatalogAssumption
  <1>3. list \in Seq(S) /\ Len(list) = n
    BY <1>1, <1>2
  <1> QED  BY <1>1, <1>2, <1>3

\* The declarations have different labels and values, and one is the default.
LEMMA CreatePlan ==
    ASSUME NEW decls, NEW value, Len(decls) \in Nat \ {0}, AtMostOneDefault(decls),
           ~symbolValueMoreThanOnce(decls, value), NEW todo, Len(todo) = Len(decls),
           \A i \in 1 .. Len(decls) :
              /\ todo[i].kind = "kDeclare" /\ todo[i].name = decls[i].name
              /\ todo[i].value = value[i] /\ (todo[i].is_default <=> weedDefault(decls, i))
    PROVE  /\ Plan({}, Changes(todo), NoName)
           /\ \A i, j \in 1 .. Len(todo) : todo[i].name = todo[j].name => i = j
  <1> DEFINE C == Changes(todo)
             I == 1 .. Len(decls)
  <1>1. \A i, j \in I : (todo[i].name = todo[j].name \/ todo[i].value = todo[j].value) => i = j
    BY DEF symbolValueMoreThanOnce
  <1>2. \A c \in C : \E i \in I : c = todo[i]
    BY DEF Changes
  <1>3. \A i \in I : todo[i] \in C
    BY DEF Changes
  <1>4. \A c \in C : IsNew(c)
    BY <1>2 DEF IsNew
  <1>5. PlannedNames({}, C)
    BY <1>1, <1>2, <1>4 DEF PlannedNames
  <1>6. PlannedValues({}, C)
    BY <1>1, <1>2 DEF PlannedValues
  <1>7. \A i, j \in I : weedDefault(decls, i) /\ weedDefault(decls, j) => i = j
    BY DEF weedDefault, AtMostOneDefault
  <1>8. \E i \in I : weedDefault(decls, i)
    <2>1. 1 \in I
      OBVIOUS
    <2> QED  BY <2>1 DEF weedDefault
  <1>9. PlannedDefault({}, C)
    <2>1. \E c \in C : IsNew(c) /\ c.is_default
      BY <1>3, <1>4, <1>8
    <2>2. \A c, d \in C : c.is_default /\ d.is_default => c = d
      BY <1>2, <1>7
    <2> QED  BY <2>1, <2>2 DEF PlannedDefault
  <1>10. Plan({}, C, NoName)
    BY <1>5, <1>6, <1>9 DEF Plan
  <1> QED  BY <1>1, <1>10

LEMMA CreateKeeps ==
    ASSUME CatalogInv, NEW e \in Enums, NEW decls \in DeclarationLists, createEnum(e, decls)
    PROVE  CatalogInv'
  <1> DEFINE value == symbolAssignValues(decls)
             id == db.seq + 1
             d1 == [db EXCEPT !.seq = id]
             d2 == [d1 EXCEPT !.enums = @ \cup {[id |-> id, name |-> e]}]
             d == [d2 EXCEPT !.torn = TRUE]
             todo == [i \in 1..Len(decls) |->
                        [kind |-> "kDeclare", name |-> decls[i].name,
                         value |-> value[i], is_default |-> weedDefault(decls, i)]]
             new == [id |-> id, default |-> NoName, torn |-> db.torn, todo |-> todo]
             row == [id |-> id, name |-> e]
  <1>0. /\ db \in Database /\ TablesOK(db) /\ SoundDatabase(db)
        /\ constCache \in [EnumIds -> CacheType] /\ (~suspect => Trusted)
        /\ enumCache \in SUBSET EnumRow /\ inProgress \in BOOLEAN
        /\ suspect \in BOOLEAN /\ broken = FALSE /\ faults \in Nat
        /\ db.enums \in SUBSET EnumRow /\ db.seq \in Nat
        /\ db.torn \in BOOLEAN /\ db.stale \in BOOLEAN
    BY InvFields, DatabaseFields DEF CatalogInv
  <1>1. /\ id \in EnumIds /\ AtMostOneDefault(decls)
        /\ ~symbolValueMoreThanOnce(decls, value)
        /\ \/ /\ Write(d) /\ enumCache' = enumCache \cup {row} /\ statement' = new
              /\ UNCHANGED <<constCache, suspect>> /\ NoFault
           \/ CommandFails(enumCache, {db, d1})
    BY DEF createEnum
  <1>2. /\ Len(decls) \in Nat \ {0}
        /\ \A i \in 1 .. Len(decls) : decls[i] \in Declaration
    BY ListIs DEF DeclarationLists
  <1>3. \A i \in 1 .. Len(decls) : decls[i].name \in Names /\ decls[i].init \in Nat
    BY <1>2, CatalogAssumption DEF Declaration
  <1>4. \A i \in 1 .. Len(decls) : value[i] \in Nat
    BY <1>2, <1>3, AssignedValues
  <1>5. row \in EnumRow /\ row.id = id
    BY <1>1 DEF EnumRow
  <1> HIDE DEF value, row, id
  <1>6. /\ d1 \in Database
        /\ d1.enums = db.enums /\ d1.consts = db.consts
        /\ d1.seq = id /\ d1.torn = db.torn /\ d1.stale = db.stale
    BY <1>0, WithSeq DEF id
  <1>7. TablesOK(d1)
    BY <1>0, <1>6, EnumRowIs DEF TablesOK, id, EnumIds
  <1>8. CASE CommandFails(enumCache, {db, d1})
    <2>1. ~suspect => enumCache \subseteq db.enums
      BY <1>0 DEF Trusted
    <2> HIDE DEF d1
    <2> QED  BY <1>0, <1>6, <1>7, <1>8, <2>1, CommandFailsKeeps
  <1>9. CASE /\ Write(d) /\ enumCache' = enumCache \cup {row} /\ statement' = new
             /\ UNCHANGED <<constCache, suspect>> /\ NoFault
    <2>1. d2 = [d1 EXCEPT !.enums = db.enums \cup {row}]
      BY <1>6 DEF row
    <2> HIDE DEF d1, d2
    <2>2. /\ d2 \in Database
          /\ d2.enums = db.enums \cup {row} /\ d2.consts = db.consts
          /\ d2.seq = id /\ d2.stale = db.stale
      BY <1>0, <1>5, <1>6, <2>1, WithEnums
    <2>3. d \in Database /\ SameTables(d, d2) /\ d.torn = TRUE /\ d.stale = db.stale
      BY <2>2, WithTorn
    <2> HIDE DEF d
    <2>4. /\ d.enums = db.enums \cup {row} /\ d.consts = db.consts /\ d.seq = id
      BY <2>2, <2>3 DEF SameTables
    <2>5. \A x \in db.enums : x.id # id /\ x.id <= id
      BY <1>0, EnumRowIs DEF TablesOK, id, EnumIds
    <2>6. TablesOK(d)
      <3>1. \A k \in EnumIds : NamesDistinct(d.consts[k])
        BY <1>0, <2>4 DEF TablesOK
      <3>2. \A x \in d.enums : x.id <= d.seq
        BY <1>0, <1>1, <1>5, <2>4, <2>5 DEF EnumIds
      <3>3. \A x, y \in d.enums : x.id = y.id => x = y
        BY <1>0, <1>5, <2>4, <2>5 DEF TablesOK
      <3> QED  BY <3>1, <3>2, <3>3 DEF TablesOK
    <2>7. /\ inProgress' = inProgress /\ broken' = FALSE /\ faults' \in Nat
          /\ constCache' = constCache /\ suspect' = suspect
      BY <1>0, <1>9 DEF NoFault
    <2>8. /\ db' \in Database /\ stored' \in Database
          /\ TablesOK(db') /\ TablesOK(stored')
          /\ ~inProgress' => stored' = db'
          /\ SoundDatabase(db') /\ SoundDatabase(stored')
          /\ SameTables(db', d)
          /\ db'.stale <=> db.stale \/ suspect
      BY <1>9, <2>3, <2>6, <2>7, WriteKeeps
    <2>9. db'.enums = db.enums \cup {row} /\ db'.consts = db.consts
      BY <2>4, <2>8 DEF SameTables
    <2>10. ~suspect' => /\ \A k \in EnumIds : /\ Distinct(db'.consts[k])
                                              /\ CacheOf(constCache'[k], db'.consts[k])
                        /\ enumCache' \subseteq db'.enums
      BY <1>0, <1>9, <2>7, <2>9 DEF Trusted
    <2>11. /\ todo \in Seq(Change) /\ Len(todo) = Len(decls) /\ todo # << >>
           /\ \A i \in 1 .. Len(decls) :
                 /\ todo[i].kind = "kDeclare" /\ todo[i].name = decls[i].name
                 /\ todo[i].value = value[i] /\ (todo[i].is_default <=> weedDefault(decls, i))
      <3> DEFINE t(i) == [kind |-> "kDeclare", name |-> decls[i].name,
                          value |-> value[i], is_default |-> weedDefault(decls, i)]
      <3>1. ASSUME NEW i \in 1 .. Len(decls)
            PROVE  /\ t(i) \in Change
                   /\ t(i).kind = "kDeclare" /\ t(i).name = decls[i].name
                   /\ t(i).value = value[i] /\ (t(i).is_default <=> weedDefault(decls, i))
        <4>1. weedDefault(decls, i) \in BOOLEAN
          BY DEF weedDefault
        <4> QED  BY <1>3, <1>4, <4>1 DEF Change
      <3>2. todo = [i \in 1 .. Len(decls) |-> t(i)]
        OBVIOUS
      <3> HIDE DEF t, todo
      <3>3. todo \in [1 .. Len(decls) -> Change]
        BY <3>1, <3>2
      <3>4. todo \in Seq(Change) /\ Len(todo) = Len(decls)
        BY <1>2, <3>3
      <3>5. \A i \in 1 .. Len(decls) : todo[i] = t(i)
        BY <3>2
      <3> QED  BY <1>2, <3>1, <3>4, <3>5
    <2> HIDE DEF todo
    <2>12. /\ Plan({}, Changes(todo), NoName)
           /\ \A i, j \in 1 .. Len(todo) : todo[i].name = todo[j].name => i = j
      BY <1>1, <1>2, <2>11, CreatePlan
    <2>13. /\ new \in Statement /\ new.id = id /\ new.default = NoName
           /\ new.torn = db.torn /\ new.todo = todo
      BY <1>0, <1>1, <2>11 DEF Statement, NoName, EnumIds
    <2>14. statement' = new
      BY <1>9
    <2> HIDE DEF new
    <2>15. StatementOK'
      BY <1>1, <2>11, <2>12, <2>13, <2>14 DEF StatementOK
    <2>16. ASSUME ~new.torn, ~db'.stale
           PROVE  /\ \A k \in EnumIds \ {new.id} : SoundEnum(db', k)
                  /\ \E x \in db'.enums : x.id = new.id
                  /\ Plan(db'.consts[new.id], Changes(new.todo), new.default)
      <3>1. \A k \in EnumIds : SoundEnum(db, k)
        BY <1>0, <2>8, <2>13, <2>16 DEF SoundDatabase
      <3>2. \A k \in EnumIds \ {id} : SoundEnum(db', k)
        BY <1>5, <2>9, <3>1 DEF SoundEnum
      <3>3. db.consts[id] = {}
        BY <1>1, <2>5, <3>1 DEF SoundEnum
      <3> QED  BY <1>5, <2>9, <2>12, <2>13, <3>2, <3>3
    <2>17. Executing'
      BY <2>14, <2>16 DEF Executing
    <2>18. enumCache' \in SUBSET EnumRow
      BY <1>0, <1>5, <1>9
    <2> QED  BY <1>0, <2>7, <2>8, <2>10, <2>13, <2>14, <2>15, <2>17, <2>18, InvParts
  <1> QED  BY <1>1, <1>8, <1>9

-----------------------------------------------------------------------------
\* UPDATE ENUMERATION

LEMMA NewChangeIs ==
    ASSUME NEW c \in NewChange
    PROVE  /\ c \in Change
           /\ c.name \in Names /\ c.value \in Nat /\ c.is_default \in BOOLEAN
           /\ c.kind \in {"kAdd", "kUpdate", "kRemove"}
           /\ c.kind = "kRemove" => ~c.is_default
  <1>1. CASE c \in [kind : {"kAdd", "kUpdate"}, name : Names, value : 1..MaxValue,
                    is_default : BOOLEAN]
    BY <1>1, CatalogAssumption DEF Change
  <1>2. CASE c \in [kind : {"kRemove"}, name : Names, value : {0}, is_default : {FALSE}]
    <2>1. c.is_default \in {FALSE}
      BY <1>2
    <2>2. ~c.is_default /\ c.is_default \in BOOLEAN
      BY <2>1, Zenon
    <2>3. /\ c = [kind |-> c.kind, name |-> c.name, value |-> c.value, is_default |-> c.is_default]
          /\ c.kind = "kRemove" /\ c.name \in Names /\ c.value = 0
      BY <1>2
    <2>4. c \in Change
      BY <2>2, <2>3 DEF Change
    <2> QED  BY <2>2, <2>3, <2>4
  <1> QED  BY <1>1, <1>2 DEF NewChange

\* What the checks of the statement establish.
LEMMA UpdatePlan ==
    ASSUME NEW id, db.consts[id] \subseteq EnumConstInfo, SoundRows(db.consts[id]),
           NEW list \in UpdateLists, AtMostOneDefault(list),
           \A i \in 1 .. Len(list) :
              (Named(db.consts[id], list[i].name) = {}) <=> list[i].kind = "kAdd",
           (\E i \in 1 .. Len(list) : /\ list[i].kind = "kRemove"
                                      /\ \E x \in Named(db.consts[id], list[i].name) : x.is_default)
              => hasDefault(list),
           symbolNoTwoValuesSame(id, list)
    PROVE  Plan(db.consts[id], Changes(list), getDefaultOf(list))
  <1> DEFINE rows == db.consts[id]
             C == Changes(list)
             I == 1 .. Len(list)
             T == symbolDoLocalUpdate(id, list)
             kinds == {"kAdd", "kUpdate", "kRemove"}
  <1>0. /\ Len(list) \in Nat /\ \A i \in I : list[i] \in NewChange
        /\ \A i, j \in I : list[i].name = list[j].name => i = j
    BY ListIs DEF UpdateLists
  <1>1. /\ \A i \in I : /\ list[i].name \in Names /\ list[i].value \in Nat
                        /\ list[i].kind \in kinds
                        /\ list[i].kind = "kRemove" => ~list[i].is_default
    BY <1>0, NewChangeIs
  <1>2. /\ \A x \in rows : (\A j \in I : list[j].name # x.name) => <<x.name, x.value, 0>> \in T
        /\ \A j \in I : list[j].kind = "kAdd" => <<list[j].name, list[j].value, j>> \in T
        /\ \A j \in I, x \in rows : list[j].kind = "kUpdate" /\ x.name = list[j].name =>
              <<list[j].name, list[j].value, 0>> \in T
    <2>1. /\ Len(list) \in Nat
          /\ \A i \in 1 .. Len(list) : /\ list[i].name \in Names /\ list[i].value \in Nat
                                        /\ list[i].kind \in {"kAdd", "kUpdate", "kRemove"}
          /\ \A i, j \in 1 .. Len(list) : list[i].name = list[j].name => i = j
      BY <1>0, <1>1
    <2> QED  BY <2>1, LocalUpdateHas, Zenon
  <1>3. \A x, y \in T : x[2] = y[2] => x = y
    BY DEF symbolNoTwoValuesSame
  <1>4. \A i \in I : (\E x \in rows : x.name = list[i].name) <=> list[i].kind # "kAdd"
    BY DEF Named
  <1>5. (\A c \in C : \E i \in I : c = list[i]) /\ (\A i \in I : list[i] \in C)
    BY DEF Changes
  <1>6. \A x, y \in rows : (x.name = y.name \/ x.value = y.value) => x = y
    BY DEF SoundRows
  <1>7. PICK q \in rows : q.is_default /\ \A y \in rows : y.is_default => y = q
    BY DEF SoundRows, UniqueDefault
  <1>8. \A i \in I : list[i].kind = "kRemove" /\ q.name = list[i].name => hasDefault(list)
    BY <1>7 DEF Named
  <1> HIDE DEF T, C, I, rows
  <1>9. \A i \in I : IsNew(list[i]) <=> list[i].kind = "kAdd"
    BY <1>1 DEF IsNew
  <1>10. PlannedNames(rows, C)
    BY <1>0, <1>4, <1>5, <1>9 DEF PlannedNames
  \* a change that does not remove its label is in the result, at some place
  <1>11. ASSUME NEW i \in I, list[i].kind # "kRemove"
         PROVE  \E n : <<list[i].name, list[i].value, n>> \in T
    <2>1. CASE list[i].kind = "kAdd"
      BY <1>2, <2>1
    <2>2. CASE list[i].kind = "kUpdate"
      <3>1. PICK x \in rows : x.name = list[i].name
        BY <1>4, <2>2
      <3> QED  BY <1>2, <2>2, <3>1
    <2> QED  BY <1>1, <1>11, <2>1, <2>2
  <1>12. \A a, b, m, n, v : <<a, v, m>> \in T /\ <<b, v, n>> \in T => a = b
    <2>1. SUFFICES ASSUME NEW a, NEW b, NEW m, NEW n, NEW v, <<a, v, m>> \in T, <<b, v, n>> \in T
                   PROVE  a = b
      OBVIOUS
    <2>2. <<a, v, m>>[2] = <<b, v, n>>[2]
      OBVIOUS
    <2>3. <<a, v, m>> = <<b, v, n>>
      BY <1>3, <2>1, <2>2
    <2> QED  BY <2>3
  <1>13. PlannedValues(rows, C)
    <2>1. ASSUME NEW i \in I, NEW j \in I, list[i].kind # "kRemove", list[j].kind # "kRemove",
                 list[i].value = list[j].value
          PROVE  i = j
      <3>1. PICK m : <<list[i].name, list[i].value, m>> \in T
        BY <1>11, <2>1
      <3>2. PICK n : <<list[j].name, list[j].value, n>> \in T
        BY <1>11, <2>1
      <3>3. list[i].name = list[j].name
        BY <1>12, <2>1, <3>1, <3>2
      <3> QED  BY <1>0, <3>3
    <2>2. ASSUME NEW x \in rows, NEW i \in I, Untouched(x, C), list[i].kind # "kRemove",
                 x.value = list[i].value
          PROVE  FALSE
      <3>1. \A j \in I : list[j].name # x.name
        BY <1>5, <2>2 DEF Untouched
      <3>2. <<x.name, x.value, 0>> \in T
        BY <1>2, <3>1
      <3>3. PICK m : <<list[i].name, list[i].value, m>> \in T
        BY <1>11, <2>2
      <3>4. x.name = list[i].name
        BY <1>12, <2>2, <3>2, <3>3
      <3> QED  BY <3>1, <3>4
    <2>3. \A c, d \in C : c.kind # "kRemove" /\ d.kind # "kRemove" /\ c.value = d.value => c = d
      BY <1>5, <2>1
    <2>4. \A x \in rows, c \in C : Untouched(x, C) /\ c.kind # "kRemove" => x.value # c.value
      BY <1>5, <2>2
    <2> QED  BY <1>6, <2>3, <2>4 DEF PlannedValues
  <1>14. CASE hasDefault(list)
    <2> DEFINE i == CHOOSE k \in I : list[k].is_default
    <2>1. i \in I /\ list[i].is_default
      <3>1. \E k \in I : list[k].is_default
        BY <1>14 DEF hasDefault, I
      <3> QED  BY <3>1, Zenon
    <2>2. getDefaultOf(list) = list[i].name
      BY <1>14, Zenon DEF getDefaultOf, I
    <2> HIDE DEF i
    <2>3. getDefaultOf(list) # NoName
      BY <1>1, <2>1, <2>2 DEF NoName, Names
    <2>4. list[i].kind \in {"kAdd", "kUpdate"}
      BY <1>1, <2>1
    <2>5. NamedDefault(rows, C, list[i].name)
      <3>1. CASE list[i].kind = "kAdd"
        BY <1>5, <1>9, <2>1, <3>1 DEF NamedDefault
      <3>2. CASE list[i].kind = "kUpdate"
        <4>1. PICK x \in rows : x.name = list[i].name
          BY <1>4, <2>1, <3>2
        <4>2. Stays(x, C)
          BY <1>0, <1>5, <2>1, <3>2, <4>1 DEF Stays
        <4> QED  BY <4>1, <4>2 DEF NamedDefault
      <3> QED  BY <2>4, <3>1, <3>2
    <2> QED  BY <1>10, <1>13, <2>2, <2>3, <2>5 DEF Plan, rows, C
  <1>15. CASE ~hasDefault(list)
    <2>1. getDefaultOf(list) = NoName
      BY <1>15 DEF getDefaultOf
    <2>2. \A c \in C : ~c.is_default
      BY <1>5, <1>15 DEF hasDefault, I
    <2>3. Stays(q, C)
      BY <1>5, <1>8, <1>15 DEF Stays
    <2>4. PlannedDefault(rows, C)
      BY <1>7, <2>2, <2>3 DEF PlannedDefault
    <2> QED  BY <1>10, <1>13, <2>1, <2>4 DEF Plan, rows, C
  <1> QED  BY <1>14, <1>15

LEMMA UpdateKeeps ==
    ASSUME CatalogInv, NEW e \in Enums, NEW id \in enumExists(e), NEW list \in UpdateLists,
           UpdateEnumeration(e, id, list)
    PROVE  CatalogInv'
  <1> DEFINE looked == symbolLookups(constCache[id], id, list)
             loaded == getEnumConstants(looked.c, id)
             new == [id |-> id, todo |-> list, torn |-> db.torn, default |-> getDefaultOf(list)]
             rows == db.consts[id]
  <1>0. /\ db \in Database /\ TablesOK(db) /\ SoundDatabase(db) /\ (~suspect => Trusted)
        /\ db.torn \in BOOLEAN /\ db.stale \in BOOLEAN /\ suspect \in BOOLEAN
    BY InvFields, DatabaseFields DEF CatalogInv
  <1>1. id \in EnumIds /\ (~suspect => [id |-> id, name |-> e] \in db.enums)
    BY EnumFound
  <1>2. /\ constCache[id] \in CacheType /\ rows \subseteq EnumConstInfo /\ NamesDistinct(rows)
        /\ ~suspect => GoodRows(rows) /\ CacheOf(constCache[id], rows)
    BY <1>0, <1>1, InvFields DEF TablesOK, Trusted
  <1>3. /\ list \in Seq(Change) /\ list # << >> /\ Len(list) \in Nat \ {0}
        /\ \A i \in 1 .. Len(list) : list[i] \in NewChange
        /\ \A i, j \in 1 .. Len(list) : list[i].name = list[j].name => i = j
    <2>1. /\ list # << >> /\ list \in Seq(NewChange) /\ Len(list) \in Nat \ {0}
          /\ \A i \in 1 .. Len(list) : list[i] \in NewChange
      BY ListIs DEF UpdateLists
    <2>2. list \in Seq(Change)
      BY <2>1, NewChangeIs
    <2> QED  BY <2>1, <2>2 DEF UpdateLists
  <1>4. looked \in ResultType /\ (~suspect => CacheOf(looked.c, rows))
    BY <1>2, <1>3, LookupNames
  <1>5. looked.c \in CacheType
    BY <1>4 DEF ResultType
  <1>6. /\ AtMostOneDefault(list)
        /\ symbolExistenceOfConstants(looked.c, id, list)
        /\ symbolDefaultIsRemoved(looked.c, id, list) => hasDefault(list)
        /\ IF loaded.returned = "throw" THEN Throw
           ELSE /\ symbolNoTwoValuesSame(id, list)
                /\ enumCache' = addEnumToCache(e, id)
                /\ constCache' = [constCache EXCEPT ![id] = loaded.c]
                /\ statement' = new
                /\ UNCHANGED <<db, stored, suspect>> /\ NoFault
    BY DEF UpdateEnumeration
  <1> HIDE DEF looked
  <1>7. /\ loaded \in ResultType
        /\ ~suspect => loaded.returned # "throw" /\ CacheOf(loaded.c, rows)
    BY <1>2, <1>4, <1>5, LoadAll
  <1> HIDE DEF loaded
  <1>8. CASE loaded.returned = "throw"
    BY <1>6, <1>7, <1>8, ThrowKeeps
  <1>9. CASE loaded.returned # "throw"
    <2>1. /\ symbolNoTwoValuesSame(id, list)
          /\ enumCache' = addEnumToCache(e, id)
          /\ constCache' = [constCache EXCEPT ![id] = loaded.c]
          /\ statement' = new
          /\ UNCHANGED <<db, stored, suspect>> /\ NoFault
      BY <1>6, <1>9
    <2>2. getDefaultOf(list) \in Nat
      <3>1. CASE hasDefault(list)
        <4> DEFINE i == CHOOSE k \in 1 .. Len(list) : list[k].is_default
        <4>1. i \in 1 .. Len(list)
          <5>1. \E k \in 1 .. Len(list) : list[k].is_default
            BY <3>1 DEF hasDefault
          <5> QED  BY <5>1, Zenon
        <4>2. getDefaultOf(list) = list[i].name
          BY <3>1, Zenon DEF getDefaultOf
        <4> HIDE DEF i
        <4> QED  BY <1>3, <4>1, <4>2, NewChangeIs DEF Names
      <3>2. CASE ~hasDefault(list)
        BY <3>2 DEF getDefaultOf, NoName
      <3> QED  BY <3>1, <3>2
    <2>3. /\ new \in Statement /\ new.id = id /\ new.default = getDefaultOf(list)
          /\ new.torn = db.torn /\ new.todo = list
      BY <1>0, <1>1, <1>3, <2>2 DEF Statement, EnumIds
    <2> HIDE DEF new
    <2>4. StatementOK'
      BY <1>1, <1>3, <2>1, <2>3 DEF StatementOK
    <2>5. ASSUME ~db.torn, ~db.stale, ~suspect
          PROVE  /\ \A k \in EnumIds \ {id} : SoundEnum(db, k)
                 /\ \E x \in db.enums : x.id = id
                 /\ Plan(rows, Changes(list), getDefaultOf(list))
      <3>1. \A k \in EnumIds : SoundEnum(db, k)
        BY <1>0, <2>5 DEF SoundDatabase
      <3>2. \E x \in db.enums : x.id = id
        BY <1>1, <2>5
      <3>3. SoundRows(rows)
        BY <1>1, <3>1, <3>2 DEF SoundEnum
      <3>4. \A n : Found(looked.c, id, n) = Named(rows, n)
        BY <1>2, <1>4, <2>5, FoundIs
      <3>5. \A i \in 1 .. Len(list) : (Named(rows, list[i].name) = {}) <=> list[i].kind = "kAdd"
        BY <1>6, <3>4 DEF symbolExistenceOfConstants
      <3>6. (\E i \in 1 .. Len(list) : /\ list[i].kind = "kRemove"
                                       /\ \E x \in Named(rows, list[i].name) : x.is_default)
               => hasDefault(list)
        BY <1>6, <3>4 DEF symbolDefaultIsRemoved
      <3>7. Plan(rows, Changes(list), getDefaultOf(list))
        BY <1>2, <1>6, <2>1, <3>3, <3>5, <3>6, UpdatePlan
      <3> QED  BY <3>1, <3>2, <3>7
    <2>6. Executing'
      BY <2>1, <2>3, <2>5 DEF Executing
    <2>7. statement' \in Statement /\ db' = db /\ stored' = stored /\ suspect' = suspect
      BY <2>1, <2>3
    <2>8. ~suspect => CacheOf(loaded.c, db.consts[id])
      BY <1>7
    <2> QED  BY <1>7, <2>1, <2>4, <2>6, <2>7, <2>8, CachedMore
  <1> QED  BY <1>8, <1>9

-----------------------------------------------------------------------------
\* DROP ENUMERATION

LEMMA DropKeeps ==
    ASSUME CatalogInv, NEW e \in Enums, NEW id \in enumExists(e), dropEnum(e, id)
    PROVE  CatalogInv'
  <1> DEFINE d1 == [db EXCEPT !.consts[id] = {}]
             d2 == [d1 EXCEPT !.enums = {x \in @ : x.id # id}]
             cached == addEnumToCache(e, id)
  <1>0. /\ db \in Database /\ TablesOK(db) /\ SoundDatabase(db)
        /\ constCache \in [EnumIds -> CacheType] /\ (~suspect => Trusted)
        /\ inProgress \in BOOLEAN /\ suspect \in BOOLEAN /\ broken = FALSE /\ faults \in Nat
        /\ db.enums \in SUBSET EnumRow /\ db.consts \in [EnumIds -> SUBSET EnumConstInfo]
    BY InvFields, DatabaseFields DEF CatalogInv
  <1>1. id \in EnumIds
    BY EnumFound
  <1>2. cached \in SUBSET EnumRow /\ (~suspect => cached \subseteq db.enums)
    BY EnumCached
  <1>3. /\ statement = Idle
        /\ \/ /\ Write(d2)
              /\ \E x \in cached : x.id = id /\ enumCache' = eraseEnum(cached, x)
              /\ constCache' = dropEnumFromCache(constCache, id)
              /\ UNCHANGED <<statement, suspect>> /\ NoFault
           \/ CommandFails(cached, {db, d1})
    BY DEF dropEnum
  <1>4. /\ d1 \in Database
        /\ d1.enums = db.enums /\ d1.consts = [db.consts EXCEPT ![id] = {}]
        /\ d1.seq = db.seq /\ d1.torn = db.torn /\ d1.stale = db.stale
    BY <1>0, <1>1 DEF Database
  <1>5. \A k \in EnumIds : d1.consts[k] = IF k = id THEN {} ELSE db.consts[k]
    BY <1>0, <1>1, <1>4
  <1>6. TablesOK(d1)
    BY <1>0, <1>4, <1>5 DEF TablesOK, NamesDistinct
  <1> HIDE DEF cached
  <1>7. CASE CommandFails(cached, {db, d1})
    <2> HIDE DEF d1
    <2> QED  BY <1>0, <1>2, <1>4, <1>6, <1>7, CommandFailsKeeps
  <1>8. CASE /\ Write(d2)
             /\ \E x \in cached : x.id = id /\ enumCache' = eraseEnum(cached, x)
             /\ constCache' = dropEnumFromCache(constCache, id)
             /\ UNCHANGED <<statement, suspect>> /\ NoFault
    <2> DEFINE left == {x \in db.enums : x.id # id}
    <2>1. d2 = [d1 EXCEPT !.enums = left]
      BY <1>4
    <2>2. left \in SUBSET EnumRow
      BY <1>0
    <2> HIDE DEF d1, d2
    <2>3. /\ d2 \in Database /\ d2.enums = left /\ d2.consts = d1.consts
          /\ d2.seq = db.seq /\ d2.torn = db.torn /\ d2.stale = db.stale
      BY <1>4, <2>1, <2>2, WithEnums
    <2>4. TablesOK(d2)
      BY <1>4, <1>6, <2>3 DEF TablesOK
    <2>5. ~d2.torn /\ ~d2.stale /\ ~suspect => \A k \in EnumIds : SoundEnum(d2, k)
      <3>1. SUFFICES ASSUME ~db.torn, ~db.stale, NEW k \in EnumIds PROVE SoundEnum(d2, k)
        BY <2>3
      <3>2. SoundEnum(db, k)
        BY <1>0, <3>1 DEF SoundDatabase
      <3> QED  BY <1>5, <2>3, <3>2 DEF SoundEnum
    <2>6. /\ inProgress' = inProgress /\ broken' = FALSE /\ faults' \in Nat
          /\ statement' = Idle /\ suspect' = suspect
      BY <1>0, <1>3, <1>8 DEF NoFault
    <2>7. /\ db' \in Database /\ stored' \in Database
          /\ TablesOK(db') /\ TablesOK(stored')
          /\ ~inProgress' => stored' = db'
          /\ SoundDatabase(db') /\ SoundDatabase(stored')
          /\ SameTables(db', d2)
      BY <1>8, <2>3, <2>4, <2>5, <2>6, WriteKeeps
    <2>8. db'.enums = left /\ db'.consts = d1.consts
      BY <2>3, <2>7 DEF SameTables
    <2>9. PICK x \in cached : x.id = id /\ enumCache' = cached \ {x}
      BY <1>8 DEF eraseEnum
    <2>10. ~suspect => enumCache' \subseteq left
      BY <1>0, <1>2, <2>9 DEF TablesOK
    <2>11. /\ constCache' \in [EnumIds -> CacheType]
           /\ \A k \in EnumIds : constCache'[k] = IF k = id THEN NotCached ELSE constCache[k]
      BY <1>0, <1>1, <1>8, EmptyCache DEF dropEnumFromCache
    <2>12. ~suspect' => /\ \A k \in EnumIds : /\ Distinct(db'.consts[k])
                                              /\ CacheOf(constCache'[k], db'.consts[k])
                        /\ enumCache' \subseteq db'.enums
      BY <1>0, <1>5, <2>6, <2>8, <2>10, <2>11, EmptyCache DEF Trusted, Distinct
    <2>13. statement' \in Statement /\ StatementOK' /\ Executing'
      BY <2>6, NotExecuting
    <2>14. enumCache' \in SUBSET EnumRow
      BY <1>2, <2>9
    <2> QED  BY <1>0, <2>6, <2>7, <2>11, <2>12, <2>13, <2>14, InvParts
  <1> QED  BY <1>3, <1>7, <1>8

-----------------------------------------------------------------------------
\* The inductive invariant

LEMMA CatalogInit ==
    ASSUME Init
    PROVE  CatalogInv
  <1>1. EmptyDatabase \in Database
    BY DEF EmptyDatabase, Database
  <1>2. /\ EmptyDatabase.enums = {} /\ \A k \in EnumIds : EmptyDatabase.consts[k] = {}
    BY DEF EmptyDatabase
  <1>3. TypeOK
    <2>1. Idle \in Statement
      BY DEF Idle, Statement, NoName
    <2> QED  BY <1>1, <2>1, EmptyCache DEF Init, TypeOK, CacheType
  <1>4. TablesOK(EmptyDatabase) /\ SoundDatabase(EmptyDatabase)
    BY <1>2 DEF TablesOK, NamesDistinct, SoundDatabase, SoundEnum
  <1>5. Trusted
    BY <1>2, EmptyCache DEF Init, Trusted, Distinct
  <1>6. StatementOK /\ Executing
    BY DEF Init, StatementOK, Executing
  <1> QED  BY <1>3, <1>4, <1>5, <1>6 DEF Init, CatalogInv

LEMMA TransactionsKeep ==
    ASSUME CatalogInv, BeginTransaction \/ CommitTransaction \/ AbortTransaction \/ useDatabase
    PROVE  CatalogInv'
  <1>0. /\ db \in Database /\ stored \in Database /\ TablesOK(db) /\ TablesOK(stored)
        /\ SoundDatabase(db) /\ SoundDatabase(stored) /\ (~inProgress => stored = db)
        /\ constCache \in [EnumIds -> CacheType] /\ (~suspect => Trusted)
        /\ enumCache \in SUBSET EnumRow
        /\ inProgress \in BOOLEAN /\ suspect \in BOOLEAN /\ broken = FALSE /\ faults \in Nat
    BY InvFields DEF CatalogInv
  <1>1. statement' = Idle
    BY DEF BeginTransaction, CommitTransaction, AbortTransaction, useDatabase
  <1>2. statement' \in Statement /\ StatementOK' /\ Executing'
    BY <1>1, NotExecuting
  <1>3. CASE BeginTransaction
    <2>1. /\ inProgress' = TRUE /\ db' = db /\ stored' = stored /\ enumCache' = enumCache
          /\ constCache' = constCache /\ suspect' = suspect /\ broken' = broken /\ faults' = faults
      BY <1>3 DEF BeginTransaction
    <2> QED  BY <1>0, <1>2, <2>1, InvParts DEF Trusted
  <1>4. CASE CommitTransaction
    <2>1. /\ inProgress' = FALSE /\ db' = db /\ stored' = db /\ enumCache' = enumCache
          /\ constCache' = constCache /\ suspect' = suspect /\ broken' = broken /\ faults' = faults
      BY <1>4 DEF CommitTransaction
    <2> QED  BY <1>0, <1>2, <2>1, InvParts DEF Trusted
  <1>5. CASE AbortTransaction
    <2>1. /\ inProgress' = FALSE /\ db' = stored /\ stored' = stored /\ enumCache' = enumCache
          /\ constCache' = constCache /\ suspect' = TRUE /\ broken' = broken /\ faults' = faults
      BY <1>5 DEF AbortTransaction
    <2> QED  BY <1>0, <1>2, <2>1, InvParts
  <1>6. CASE useDatabase
    <2>1. /\ inProgress' = FALSE /\ db' = db /\ stored' = db /\ enumCache' = {}
          /\ constCache' = [k \in EnumIds |-> NotCached]
          /\ suspect' = ~(\A k \in EnumIds : Distinct(db.consts[k]))
          /\ broken' = broken /\ faults' = faults
      BY <1>6 DEF useDatabase
    <2>2. constCache' \in [EnumIds -> CacheType] /\ enumCache' \in SUBSET EnumRow
      BY <2>1, EmptyCache
    <2>3. ~suspect' => /\ \A k \in EnumIds : /\ Distinct(db'.consts[k])
                                             /\ CacheOf(constCache'[k], db'.consts[k])
                       /\ enumCache' \subseteq db'.enums
      BY <2>1, EmptyCache
    <2>4. suspect' \in BOOLEAN
      BY <2>1
    <2> QED  BY <1>0, <1>2, <2>1, <2>2, <2>3, <2>4, InvParts
  <1> QED  BY <1>3, <1>4, <1>5, <1>6

LEMMA CatalogNext ==
    ASSUME CatalogInv, [Next]_vars
    PROVE  CatalogInv'
  <1>1. CASE CreateEnumerationStatement
    BY <1>1, CreateKeeps DEF CreateEnumerationStatement
  <1>2. CASE UpdateEnumerationStatement
    BY <1>2, UpdateKeeps DEF UpdateEnumerationStatement
  <1>3. CASE execAddUpdateRemove
    BY <1>3, ChangeKeeps
  <1>4. CASE setDefaultEnumConst
    BY <1>4, DefaultKeeps
  <1>5. CASE DropEnumerationStatement
    BY <1>5, DropKeeps DEF DropEnumerationStatement
  <1>6. CASE LookupStatement
    BY <1>6, LookupStatementKeeps
  <1>7. CASE BeginTransaction \/ CommitTransaction \/ AbortTransaction \/ useDatabase
    BY <1>7, TransactionsKeep
  <1>8. CASE Crash
    <2>1. broken' = FALSE /\ faults' \in Nat
      BY <1>8, InvFields DEF Crash
    <2> QED  BY <1>8, <2>1, RestartKeeps DEF Crash
  <1>9. CASE UNCHANGED vars
    BY <1>9 DEF vars, CatalogInv, TypeOK, Trusted, StatementOK, Executing
  <1> QED  BY <1>1, <1>2, <1>3, <1>4, <1>5, <1>6, <1>7, <1>8, <1>9 DEF Next

\* The inductive invariant holds in every state of CREATE, UPDATE and DROP
\* ENUMERATION, of lookups, transactions, failing commands and crashes.
THEOREM CatalogInvariant == Spec => []CatalogInv
  <1>1. Init => CatalogInv
    BY CatalogInit
  <1>2. CatalogInv /\ [Next]_vars => CatalogInv'
    BY CatalogNext
  <1> QED  BY <1>1, <1>2, PTL DEF Spec

\* The tables, the two maps of EnumConstCache, m_enum_cache and the list of changes
\* that is being executed keep their types; in particular the values that
\* symbolAssignValues gives and the caches that its recursive callers pass on.
THEOREM CatalogTypes == Spec => []TypeOK
  <1>1. CatalogInv => TypeOK
    BY DEF CatalogInv
  <1> QED  BY <1>1, CatalogInvariant, PTL

\* Unless a rollback, an interrupted command or two constants with one value have
\* made the cache suspect, SECIMap and VECIMap hold the same objects, these are rows
\* of the table as they are now, and the cached enumerations exist: after every
\* addEci, updateValue, drop and setNewDefault, in the middle of a statement too.
THEOREM CacheAlwaysCoherent == Spec => []CacheCoherent
  <1>1. CatalogInv => CacheCoherent
    BY DEF CatalogInv, CacheCoherent, Trusted, CacheOf, MapsAgree
  <1> QED  BY <1>1, CatalogInvariant, PTL

\* Unless the cache is suspect, no assertion of EnumConstCache fails ("it should be
\* in both the SECIMap and the VECIMap"), and no object is deleted in use.
THEOREM AssertionsAlwaysHold == Spec => []AssertionsHold
  <1>1. CatalogInv => AssertionsHold
    BY DEF CatalogInv, AssertionsHold
  <1> QED  BY <1>1, CatalogInvariant, PTL

LEMMA UniqueDefaultIsOne ==
    ASSUME NEW rows, UniqueDefault(rows)
    PROVE  OneDefault(rows)
  <1>1. PICK x \in rows : x.is_default /\ \A y \in rows : y.is_default => y = x
    BY DEF UniqueDefault
  <1>2. {y \in rows : y.is_default} = {x}
    BY <1>1
  <1> QED  BY <1>2, FS_Singleton DEF OneDefault

\* Where every statement was executed to its end, with a cache that was not suspect,
\* every enumeration is a bijection between labels and values with exactly one
\* default, and there are no constants without an enumeration: what the checks of
\* UPDATE ENUMERATION establish for the whole list holds after the last of its
\* changes, which are made one by one.
THEOREM EnumerationsAlwaysSound == Spec => []EnumerationsSound
  <1>1. ASSUME NEW d, SoundDatabase(d), ~d.torn, ~d.stale, NEW k \in EnumIds
        PROVE  /\ \A x, y \in d.consts[k] : (x.name = y.name \/ x.value = y.value) => x = y
               /\ IF \E x \in d.enums : x.id = k THEN OneDefault(d.consts[k])
                  ELSE d.consts[k] = {}
    <2>1. SoundEnum(d, k)
      BY <1>1 DEF SoundDatabase
    <2> QED  BY <2>1, UniqueDefaultIsOne DEF SoundEnum, SoundRows
  <1>2. CatalogInv => EnumerationsSound
    BY <1>1 DEF CatalogInv, EnumerationsSound
  <1> QED  BY <1>2, CatalogInvariant, PTL

\* Unless the cache is suspect, between statements the cache hides nothing, however
\* much of an enumeration it holds: labels, values and defaults are found as the
\* table has them.
THEOREM LookupsAlwaysExact == Spec => []LookupsExact
  <1>1. ASSUME CatalogInv, ~suspect, ~db.torn, ~db.stale, NEW e \in Enums,
               NEW id \in enumExists(e)
        PROVE  LET c == constCache[id]
                   rows == db.consts[id]
               IN  /\ [id |-> id, name |-> e] \in db.enums
                   /\ \A n \in Names : Found(c, id, n) = Named(rows, n)
                   /\ \A v \in 1..MaxValue :
                         AtValue(c, v) # {} => AtValue(c, v) = {x \in rows : x.value = v}
                   /\ getDefault(c, id) = {x \in rows : x.is_default}
    <2> DEFINE c == constCache[id]
               rows == db.consts[id]
    <2>1. id \in EnumIds /\ [id |-> id, name |-> e] \in db.enums
      BY <1>1, EnumFound
    <2>2. GoodRows(rows) /\ CacheOf(c, rows) /\ c \in CacheType
      BY <1>1, <2>1, InvFields DEF CatalogInv, Trusted
    <2>3. \A n \in Names : Found(c, id, n) = Named(rows, n)
      BY <2>2, FoundIs DEF GoodRows
    <2>4. \A v, x : x \in AtValue(c, v) <=> x \in c.seci /\ x.value = v
      BY <2>2, ObjectsAtValue
    <2>5. ASSUME NEW v, AtValue(c, v) # {} PROVE AtValue(c, v) = {x \in rows : x.value = v}
      BY <2>2, <2>4, <2>5 DEF GoodRows, Distinct, CacheOf
    <2>6. UniqueDefault(rows)
      <3>1. SoundEnum(db, id)
        BY <1>1, <2>1 DEF CatalogInv, SoundDatabase
      <3>2. \E x \in db.enums : x.id = id
        BY <2>1
      <3> QED  BY <3>1, <3>2 DEF SoundEnum, SoundRows
    <2>7. getDefault(c, id) = {x \in rows : x.is_default}
      <3> DEFINE cached == {x \in c.seci : x.name \in c.veci /\ x.is_default}
      <3>1. cached = {} \/ cached = {x \in rows : x.is_default}
        BY <2>2, <2>6 DEF UniqueDefault, CacheOf
      <3> QED  BY <3>1 DEF getDefault
    <2> QED  BY <2>1, <2>3, <2>5, <2>7
  <1>2. CatalogInv => LookupsExact
    BY <1>1 DEF LookupsExact
  <1> QED  BY <1>2, CatalogInvariant, PTL

=============================================================================
