----------------------------- MODULE StringSets -----------------------------
(***************************************************************************)
(* Features FROM SET, and several processes on one SQLite 3 database.      *)
(*                                                                         *)
(* An object has, for a feature declared STRING FROM SET, the id_d of a    *)
(* row of the table OT_mdf_FEATURE_set, which has the string.  Rows are    *)
(* added when an object is given a string that has none                    *)
(* (EMdFDB::getID_DFromStringSet), and every process keeps a cache of      *)
(* pairs of ids and strings (src/EMdF/string_set_cache.cpp), which is      *)
(* emptied by USE DATABASE only.                                           *)
(*                                                                         *)
(* The model has one object type with one such feature.  A statement is    *)
(* executed in steps, one for every command sent to SQLite.  A command     *)
(* that SQLite answers with SQLITE_BUSY is sent again until it is accepted *)
(* (sqlite3conn.cpp, execCommand; sqlite3conn.h, getNextTuple): a step is  *)
(* not enabled as long as it would be answered SQLITE_BUSY, and what a     *)
(* refused command leaves behind is commitBusy.                            *)
(***************************************************************************)
EXTENDS Integers, FiniteSets

CONSTANTS
    Procs,              \* the processes that have the database open
    Writers,            \* those that write within transactions; the others read
                        \* within transactions, and write (UPDATE OBJECTS)
                        \* without
    Strings,            \* the strings given to the feature
    MaxStatements,      \* bound on the number of statements begun; a fault
                        \* counts as one
    MaxFaults           \* bound on the number of crashes and failing commands

ASSUME ConstantsAssumption ==
    /\ Writers \subseteq Procs
    /\ "" \notin Strings
    /\ MaxStatements \in Nat /\ MaxFaults \in Nat

VARIABLES
    file,               \* the database as committed
    work,               \* the database as the process that writes it sees it
    lock,               \* the lock a process keeps on the file
    tx,                 \* whose transaction a process is in
    cache,              \* the process's string set cache and feature cache
    stmt,               \* the statement a process executes
    statements, faults, \* counters for the bounds
    undone              \* history: since the cache of the process was last
                        \* emptied, a row that is in it has gone, or a
                        \* rollback brought rows back that it says are not there

vars == <<file, work, lock, tx, cache, stmt, statements, faults, undone>>

NIL == 0

Pair == [id : Nat, str : Strings]

\* id, str: a row of the string set; tx: history, added in a transaction.
Row == [id : Nat, str : Strings, tx : BOOLEAN]

\* The value of an object.  id is what the database holds, 0 if it holds a text
\* that is no number.  The rest is history: the string the object was given,
\* by whom, and whether that process's cache could be trusted.
Value == [id : Nat, str : Strings \cup {""}, by : Procs, sure : BOOLEAN]

Lock == {"none", "shared", "reserved", "pending"}
Writing == {"reserved", "pending"}

\* What a feature consists of: the column of OT_objects, the row in the table
\* features, and the table OT_mdf_FEATURE_set.
Parts == {"column", "row", "set"}

NoStatement == [op |-> "none", at |-> "idle", own |-> FALSE, obj |-> 0,
                str |-> "", id |-> NIL]

-----------------------------------------------------------------------------
\* StringSetCache and the feature cache

\* there: the object StringSetCache exists; id2s and s2id: its two maps;
\* filled: m_bHasFilledStringToSetIDCache; complete: m_bIsComplete;
\* known: the feature is in m_feature_cache.
EmptyCache == [there |-> FALSE, id2s |-> {}, s2id |-> {}, filled |-> FALSE,
               complete |-> FALSE, known |-> FALSE]

\* Mutant of addPair: a cache that is complete has nothing to add.
addPairUnlessComplete(c, i, s) ==
    IF c.complete THEN c ELSE
    [c EXCEPT !.there = TRUE,
              !.id2s = {e \in c.id2s : e.id # i} \cup {[id |-> i, str |-> s]},
              !.s2id = IF c.filled
                       THEN {e \in @ : e.str # s} \cup {[id |-> i, str |-> s]}
                       ELSE @]

addPair(c, i, s) ==
    [c EXCEPT !.there = TRUE, !.complete = FALSE,
              !.id2s = {e \in c.id2s : e.id # i} \cup {[id |-> i, str |-> s]},
              !.s2id = IF c.filled
                       THEN {e \in @ : e.str # s} \cup {[id |-> i, str |-> s]}
                       ELSE @]

\* The map from strings to ids is built at the first search for a string: of
\* several ids of one string the highest, which comes last, stays.
fillStringToSetIDDCache(c) ==
    IF c.there /\ ~c.filled
    THEN [c EXCEPT !.filled = TRUE,
                   !.s2id = {e \in c.id2s :
                               \A f \in c.id2s : f.str = e.str => f.id <= e.id}]
    ELSE c

\* The id the cache has for a string, as a set of at most one element.
getID_DFromString(c, s) ==
    {e.id : e \in {f \in fillStringToSetIDDCache(c).s2id : f.str = s}}

\* loadStringSetIntoCache, once the rows have been read: one addPair per row,
\* in the order of ids.
loadRows(c, rows) ==
    LET new  == {[id |-> r.id, str |-> r.str] : r \in rows}
        last == {e \in new : \A f \in new : f.str = e.str => f.id <= e.id}
    IN  [c EXCEPT
           !.there = TRUE, !.complete = TRUE,
           !.id2s = {e \in @ : \A f \in new : f.id # e.id} \cup new,
           !.s2id = IF c.filled
                    THEN {e \in @ : \A f \in last : f.str # e.str} \cup last
                    ELSE @]

-----------------------------------------------------------------------------
\* SQLite's locks (rollback journal), as the connection uses them

Others(p) == Procs \ {p}

\* What p reads.
view(p) == IF lock[p] \in Writing THEN work ELSE file

\* SELECT: a shared lock is refused while another process waits for all
\* readers to go.  It is kept to the end of the transaction, if there is one.
Select(p) ==
    /\ lock[p] = "none" => \A q \in Others(p) : lock[q] # "pending"
    /\ lock' = [lock EXCEPT
                  ![p] = IF @ = "none" /\ tx[p] # "no" THEN "shared" ELSE @]
    /\ UNCHANGED <<file, work>>

\* A command that changes the database to db.  Within a transaction it takes the
\* reserved lock, which one process has at a time; readers may stay.  Otherwise
\* it is committed at once, which takes the file for itself; where it is
\* refused, SQLite rolls it back and keeps no lock.
Execute(p, db) ==
    \/ /\ tx[p] # "no"
       /\ \A q \in Others(p) : lock[q] \notin Writing
       /\ lock' = [lock EXCEPT ![p] = IF @ \in Writing THEN @ ELSE "reserved"]
       /\ work' = db
       /\ UNCHANGED file
    \/ /\ tx[p] = "no"
       /\ \A q \in Others(p) : lock[q] = "none"
       /\ file' = db /\ work' = db
       /\ UNCHANGED lock

\* COMMIT: a transaction that wrote needs the file for itself.
Commit(p) ==
    /\ lock[p] \in Writing => \A q \in Others(p) : lock[q] = "none"
    /\ file' = view(p)
    /\ lock' = [lock EXCEPT ![p] = "none"]
    /\ tx' = [tx EXCEPT ![p] = "no"]
    /\ UNCHANGED work

Rollback(p) ==
    /\ work' = IF lock[p] \in Writing THEN file ELSE work
    /\ lock' = [lock EXCEPT ![p] = "none"]
    /\ tx' = [tx EXCEPT ![p] = "no"]
    /\ UNCHANGED file

-----------------------------------------------------------------------------
\* Statements

Init ==
    /\ file = [feature |-> Parts, rows |-> {}, next |-> 0,
               val |-> [o \in {} |-> 0]]
    /\ work = file
    /\ lock = [p \in Procs |-> "none"]
    /\ tx = [p \in Procs |-> "no"]
    /\ cache = [p \in Procs |-> EmptyCache]
    /\ stmt = [p \in Procs |-> NoStatement]
    /\ statements = 0 /\ faults = 0
    /\ undone = [p \in Procs |-> FALSE]

stored(e, rows) == \E r \in rows : r.id = e.id /\ r.str = e.str

\* The history variable undone: the processes of emptied have just emptied
\* their caches.
Watch(emptied) ==
    undone' = [q \in Procs |->
                 /\ q \notin emptied
                 /\ \/ undone[q]
                    \/ \E e \in cache[q].id2s :
                          stored(e, view(q).rows) /\ ~stored(e, view(q)'.rows)
                    \/ /\ cache[q].complete /\ tx[q] # "no" /\ tx'[q] = "no"
                       /\ ~(view(q)'.rows \subseteq view(q).rows)]

Start(p, s) ==
    /\ stmt[p] = NoStatement
    /\ statements + faults < MaxStatements
    /\ statements' = statements + 1
    /\ stmt' = [stmt EXCEPT ![p] = s]
    /\ UNCHANGED faults

\* The statement goes on at step at, or ends if there is none.
GoTo(p, s) ==
    stmt' = [stmt EXCEPT ![p] = IF s.at = "end" THEN NoStatement ELSE s]

\* beginTransaction returns false, and does nothing, within a transaction; its
\* result is bDoCommit of the method, field own of the statement.
beginTransaction(p) ==
    tx' = [tx EXCEPT ![p] = IF @ = "no" THEN "method" ELSE @]

\* The checks of a statement find the feature in the feature cache, or in the
\* database and then add it to the cache.
featureExists(p) == cache[p].known \/ "row" \in view(p).feature

Known(p) == cache' = [cache EXCEPT ![p].known = TRUE]

counters == <<statements, faults>>

\* CREATE OBJECT gives the feature the string s.  Its first command is the one
\* of getNextID, in a transaction of its own.
CreateObject(p, s) ==
    /\ p \in Writers
    /\ featureExists(p)
    /\ Start(p, [NoStatement EXCEPT !.op = "create", !.at = "id", !.str = s,
                                    !.own = (tx[p] = "no")])
    /\ beginTransaction(p)
    /\ Known(p)
    /\ UNCHANGED <<file, work, lock>>
    /\ Watch({})

\* UPDATE OBJECTS reads which objects it is about, and has no transaction.
UpdateObjects(p, o, s) ==
    /\ p \in Writers \/ tx[p] = "no"
    /\ featureExists(p)
    /\ o \in DOMAIN view(p).val
    /\ Start(p, [NoStatement EXCEPT !.op = "update", !.at = "lookup",
                                    !.obj = o, !.str = s])
    /\ Select(p)
    /\ Known(p)
    /\ UNCHANGED tx
    /\ Watch({})

\* A query with the constraint feature = s.
QueryEqual(p, s) ==
    /\ featureExists(p)
    /\ Start(p, [NoStatement EXCEPT !.op = "find", !.at = "lookup", !.str = s])
    /\ Known(p)
    /\ UNCHANGED <<file, work, lock, tx>>
    /\ Watch({})

\* GET FEATURES of the feature, or GET ... SET: all strings are loaded, unless
\* the cache says that it has them.
GetFeatures(p) ==
    /\ featureExists(p)
    /\ ~cache[p].complete
    /\ Start(p, [NoStatement EXCEPT !.op = "load", !.at = "load"])
    /\ Known(p)
    /\ UNCHANGED <<file, work, lock, tx>>
    /\ Watch({})

\* UPDATE OBJECT TYPE { ADD feature } and { REMOVE feature }.  The transaction
\* is that of the statement: addFeature and dropFeature find it begun.
UpdateObjectType(p, op) ==
    /\ p \in Writers
    /\ featureExists(p) = (op = "drop")
    /\ Start(p, [NoStatement EXCEPT !.op = op, !.at = "column",
                                    !.own = (tx[p] = "no")])
    /\ beginTransaction(p)
    /\ cache' = [cache EXCEPT ![p].known = (op = "drop")]
    /\ UNCHANGED <<file, work, lock>>
    /\ Watch({})

\* USE DATABASE commits what the program has not committed.
UseDatabase(p) ==
    /\ Start(p, [NoStatement EXCEPT !.op = "use", !.at = "commit"])
    /\ UNCHANGED <<file, work, lock, tx, cache>>
    /\ Watch({})

BeginTransaction(p) ==
    /\ tx[p] = "no"
    /\ Start(p, NoStatement)
    /\ tx' = [tx EXCEPT ![p] = "program"]
    /\ UNCHANGED <<file, work, lock, cache>>
    /\ Watch({})

CommitTransaction(p) ==
    /\ tx[p] = "program" /\ stmt[p] = NoStatement
    /\ GoTo(p, [NoStatement EXCEPT !.op = "end", !.at = "commit"])
    /\ UNCHANGED <<file, work, lock, tx, cache, counters>>
    /\ Watch({})

\* Mutant: the flag is cleared, ROLLBACK is not sent.
abortTransactionFlagOnly(p) ==
    /\ tx[p] = "program" /\ stmt[p] = NoStatement
    /\ tx' = [tx EXCEPT ![p] = "no"]
    /\ UNCHANGED <<file, work, lock, cache, stmt, counters>>
    /\ Watch({})

AbortTransaction(p) ==
    /\ tx[p] = "program" /\ stmt[p] = NoStatement
    /\ Rollback(p)
    /\ UNCHANGED <<cache, stmt, counters>>
    /\ Watch({})

-----------------------------------------------------------------------------
\* The steps of the statements

\* getNextID: UPDATE and SELECT of the sequence, which needs no further lock.
getNextID(p) ==
    /\ stmt[p].at = "id"
    /\ Execute(p, [view(p) EXCEPT !.next = @ + 1])
    /\ GoTo(p, [stmt[p] EXCEPT !.obj = view(p).next + 1,
                               !.at = IF @ = "id" /\ stmt[p].own
                                      THEN "idCommit" ELSE "lookup"])
    /\ UNCHANGED <<tx, cache, counters>>
    /\ Watch({})

idFound(s, i) == [s EXCEPT !.id = i, !.at = IF s.op = "find" THEN "end" ELSE "store"]

\* createObject begins its transaction; getID_DFromStringSet searches the cache.
findID_DInSetCacheFromString(p) ==
    /\ stmt[p].at = "lookup"
    /\ LET s    == [stmt[p] EXCEPT !.own = stmt[p].op = "create" /\ tx[p] = "no"]
           hits == getID_DFromString(cache[p], s.str)
       IN  GoTo(p, IF hits = {} THEN [s EXCEPT !.at = "select"]
                   ELSE idFound(s, CHOOSE i \in hits : TRUE))
    /\ cache' = [cache EXCEPT ![p] = fillStringToSetIDDCache(@)]
    /\ IF stmt[p].op = "create" THEN beginTransaction(p) ELSE UNCHANGED tx
    /\ UNCHANGED <<file, work, lock, counters>>
    /\ Watch({})

\* The ids of the rows that have the string.
idsOf(rows, s) == {r.id : r \in {t \in rows : t.str = s}}

\* Mutant: NIL goes to the cache too.
selectStringCachesNIL(p) ==
    /\ stmt[p].at = "select"
    /\ "set" \in view(p).feature
    /\ Select(p)
    /\ LET s    == stmt[p]
           ids  == idsOf(view(p).rows, s.str)
           i    == IF ids = {} THEN NIL ELSE CHOOSE j \in ids : \A k \in ids : j <= k
           adds == ids = {} /\ s.op # "find"
       IN  /\ GoTo(p, IF adds THEN [s EXCEPT !.at = "insert"] ELSE idFound(s, i))
           /\ cache' = [cache EXCEPT
                          ![p] = IF adds THEN @ ELSE addPair(@, i, s.str)]
    /\ UNCHANGED <<tx, counters>>
    /\ Watch({})

\* Mutant: the string is looked for before the transaction begins.
selectStringUnlocked(p) ==
    /\ stmt[p].at = "select"
    /\ "set" \in view(p).feature
    /\ LET s    == stmt[p]
           ids  == idsOf(view(p).rows, s.str)
           i    == CHOOSE j \in ids : \A k \in ids : j <= k
       IN  /\ GoTo(p, IF ids # {} THEN idFound(s, i)
                      ELSE [s EXCEPT !.at = IF s.op = "find" THEN "end" ELSE "insert"])
           /\ cache' = [cache EXCEPT
                          ![p] = IF ids = {} THEN @ ELSE addPair(@, i, s.str)]
    /\ UNCHANGED <<file, work, lock, tx, counters>>
    /\ Watch({})

\* SELECT id_d ... WHERE string_value = s: the index gives the lowest id first.
\* A query does not add the string, and NIL does not go to the cache.
selectString(p) ==
    /\ stmt[p].at = "select"
    /\ "set" \in view(p).feature
    /\ Select(p)
    /\ LET s    == stmt[p]
           ids  == idsOf(view(p).rows, s.str)
           i    == CHOOSE j \in ids : \A k \in ids : j <= k
       IN  /\ GoTo(p, IF ids # {} THEN idFound(s, i)
                      ELSE [s EXCEPT !.at = IF s.op = "find" THEN "end" ELSE "insert"])
           /\ cache' = [cache EXCEPT
                          ![p] = IF ids = {} THEN @ ELSE addPair(@, i, s.str)]
    /\ UNCHANGED <<tx, counters>>
    /\ Watch({})

\* The rowid SQLite gives to a row inserted with NULL: one above the highest,
\* and ids start at 1 and have no gaps.
newRowid(rows) == Cardinality(rows) + 1

\* Mutant: the rowid is asked for before the INSERT has been done.
rowidBefore(rows) == Cardinality(rows)

\* The id that the connection reports after the INSERT.
get_last_insert_rowid(rows) == newRowid(rows)

addStringToStringSetTable(p) ==
    /\ stmt[p].at = "insert"
    /\ "set" \in view(p).feature
    /\ LET s == stmt[p]
           r == [id |-> newRowid(view(p).rows), str |-> s.str, tx |-> tx[p] # "no"]
           i == get_last_insert_rowid(view(p).rows)
       IN  /\ Execute(p, [view(p) EXCEPT !.rows = @ \cup {r}])
           /\ cache' = [cache EXCEPT ![p] = addPair(@, i, s.str)]
           /\ GoTo(p, idFound(s, i))
    /\ UNCHANGED <<tx, counters>>
    /\ Watch({})

\* INSERT of the object, with min_m, max_m and the largest length, or UPDATE of
\* its value.
storeValue(p) ==
    /\ stmt[p].at = "store"
    /\ "column" \in view(p).feature
    /\ LET s   == stmt[p]
           v   == [id |-> s.id, str |-> s.str, by |-> p, sure |-> ~undone[p]]
           val == view(p).val
       IN  /\ Execute(p, [view(p) EXCEPT
                !.val = IF s.op = "update" /\ s.obj \notin DOMAIN val THEN val
                        ELSE [o \in DOMAIN val \cup {s.obj} |->
                                 IF o = s.obj THEN v ELSE val[o]]])
           /\ GoTo(p, [s EXCEPT !.at = IF s.own THEN "commit" ELSE "end"])
    /\ UNCHANGED <<tx, cache, counters>>
    /\ Watch({})

loadStringSetIntoCache(p) ==
    /\ stmt[p].at = "load"
    /\ "set" \in view(p).feature
    /\ Select(p)
    /\ cache' = [cache EXCEPT ![p] = loadRows(@, view(p).rows)]
    /\ GoTo(p, [stmt[p] EXCEPT !.at = "end"])
    /\ UNCHANGED <<tx, counters>>
    /\ Watch({})

\* The commands of addFeature (with createFeature) and of dropFeature, each for
\* one part, and what they leave: a new column has the default as a text in
\* every object, and a new string set has no rows.  SQLite has no DROP COLUMN:
\* OT_objects is built again without it, which is one step here.
nextPart(s) ==
    IF s.op = "add" THEN [column |-> "row", row |-> "set", set |-> "end"][s.at]
    ELSE [column |-> "set", set |-> "row", row |-> "end"][s.at]

altered(p, d, s) ==
    LET text == [id |-> NIL, str |-> "", by |-> p, sure |-> FALSE]
    IN  [feature |-> IF s.op = "add" THEN d.feature \cup {s.at} ELSE d.feature \ {s.at},
         rows |-> IF s.at = "set" THEN {} ELSE d.rows,
         next |-> d.next,
         val |-> IF s.at = "column" THEN [o \in DOMAIN d.val |-> text] ELSE d.val]

\* SQLite refuses to add what is there, and to drop a table that is not.
partRefused(p) ==
    IF stmt[p].op = "add" THEN stmt[p].at \in view(p).feature
    ELSE stmt[p].at = "set" /\ "set" \notin view(p).feature

\* The feature cache is changed after the last command, the string set cache is
\* not.
alterType(p) ==
    /\ stmt[p].at \in Parts
    /\ ~partRefused(p)
    /\ LET s    == stmt[p]
           next == nextPart(s)
       IN  /\ Execute(p, altered(p, view(p), s))
           /\ cache' = [cache EXCEPT
                          ![p].known = IF next = "end" THEN s.op = "add" ELSE @]
           /\ GoTo(p, [s EXCEPT !.at = IF next = "end" /\ s.own THEN "commit" ELSE next])
    /\ UNCHANGED <<tx, counters>>
    /\ Watch({})

\* Mutant of commitStep: the flag is cleared, COMMIT is not sent.
commitStepFlagOnly(p) ==
    /\ stmt[p].at \in {"idCommit", "commit"}
    /\ tx' = [tx EXCEPT ![p] = "no"]
    /\ GoTo(p, [stmt[p] EXCEPT !.at = IF @ = "idCommit" THEN "lookup" ELSE "end"])
    /\ UNCHANGED <<file, work, lock, cache, counters>>
    /\ Watch({})

\* Mutant of commitStep: USE DATABASE forgets the string sets.
commitStepKeepsCache(p) ==
    /\ stmt[p].at \in {"idCommit", "commit"}
    /\ Commit(p)
    /\ GoTo(p, [stmt[p] EXCEPT !.at = IF @ = "idCommit" THEN "lookup" ELSE "end"])
    /\ UNCHANGED <<cache, counters>>
    /\ Watch(IF stmt[p].op = "use" THEN {p} ELSE {})

\* commitTransaction of getNextID, of a method, or of the program; USE DATABASE
\* then empties the caches.
commitStep(p) ==
    /\ stmt[p].at \in {"idCommit", "commit"}
    /\ Commit(p)
    /\ GoTo(p, [stmt[p] EXCEPT !.at = IF @ = "idCommit" THEN "lookup" ELSE "end"])
    /\ cache' = [cache EXCEPT ![p] = IF stmt[p].op = "use" THEN EmptyCache ELSE @]
    /\ UNCHANGED counters
    /\ Watch(IF stmt[p].op = "use" THEN {p} ELSE {})

\* COMMIT is refused because others read: from now on nobody may start to.
commitBusy(p) ==
    /\ stmt[p].at \in {"idCommit", "commit"}
    /\ lock[p] = "reserved"
    /\ \E q \in Others(p) : lock[q] # "none"
    /\ lock' = [lock EXCEPT ![p] = "pending"]
    /\ UNCHANGED <<file, work, tx, cache, stmt, counters>>
    /\ Watch({})

\* The statement returns false at its present command.  The exception of
\* getID_DFromStringSet leaves createObject's transaction open; otherwise a
\* transaction that the statement began is ended, by the method or, for UPDATE
\* OBJECT TYPE, by exec, whichever way addFeature or dropFeature returned.  In
\* the program's transaction what the statement has done so far stays.
returnFalse(p) ==
    /\ GoTo(p, [stmt[p] EXCEPT !.at = "end"])
    /\ IF stmt[p].own /\ stmt[p].at \notin {"select", "insert"}
       THEN Rollback(p) ELSE UNCHANGED <<file, work, lock, tx>>
    /\ UNCHANGED <<cache, statements>>
    /\ Watch({})

\* A command names a part of the feature that is not there, or adds one that is:
\* another process has removed or added the feature, or a statement of this one
\* has been left half-done.
featureMissing(p) ==
    /\ \/ stmt[p].at \in {"select", "insert", "load"} /\ "set" \notin view(p).feature
       \/ stmt[p].at = "store" /\ "column" \notin view(p).feature
       \/ stmt[p].at \in Parts /\ partRefused(p)
    /\ returnFalse(p)
    /\ UNCHANGED faults

\* A command fails for another reason than SQLITE_BUSY.
commandFails(p) ==
    /\ stmt[p].at \in {"id", "select", "insert", "store", "load"} \cup Parts
    /\ faults < MaxFaults /\ faults' = faults + 1
    /\ returnFalse(p)

\* A process dies, and starts again with an empty cache.
crash(p) ==
    /\ faults < MaxFaults /\ faults' = faults + 1
    /\ Rollback(p)
    /\ cache' = [cache EXCEPT ![p] = EmptyCache]
    /\ stmt' = [stmt EXCEPT ![p] = NoStatement]
    /\ UNCHANGED statements
    /\ Watch({p})

-----------------------------------------------------------------------------
Step(p) ==
    \/ getNextID(p) \/ findID_DInSetCacheFromString(p) \/ selectString(p)
    \/ addStringToStringSetTable(p) \/ storeValue(p)
    \/ loadStringSetIntoCache(p) \/ alterType(p)
    \/ commitStep(p) \/ commitBusy(p) \/ featureMissing(p)

EndTransaction(p) == CommitTransaction(p) \/ AbortTransaction(p)

Program(p) ==
    \/ \E s \in Strings : \/ CreateObject(p, s)
                          \/ QueryEqual(p, s)
                          \/ \E o \in DOMAIN view(p).val : UpdateObjects(p, o, s)
    \/ GetFeatures(p) \/ UseDatabase(p)
    \/ \E op \in {"add", "drop"} : UpdateObjectType(p, op)
    \/ BeginTransaction(p)

Next == \E p \in Procs :
    \/ Program(p) \/ EndTransaction(p) \/ Step(p) \/ commandFails(p) \/ crash(p)

Spec == Init /\ [][Next]_vars

\* A process that executes a statement goes on with it, in a loop that asks
\* SQLite again and again; a program ends the transactions it begins.
Fairness == \A p \in Procs : /\ WF_vars(Step(p))
                             /\ WF_vars(EndTransaction(p))

FairSpec == Spec /\ Fairness

-----------------------------------------------------------------------------
\* Properties

At == {"idle", "id", "idCommit", "lookup", "select", "insert", "store",
       "load", "commit"} \cup Parts

\* Where a statement is about a string.
AboutString == {"id", "idCommit", "lookup", "select", "insert", "store"}

StatementType ==
    [op : {"none", "create", "update", "find", "load", "add", "drop", "use", "end"},
     at : At, own : BOOLEAN, obj : Nat, str : Strings \cup {""}, id : Nat]

CacheType ==
    [there : BOOLEAN, id2s : SUBSET Pair, s2id : SUBSET Pair, filled : BOOLEAN,
     complete : BOOLEAN, known : BOOLEAN]

DatabaseOK(d) ==
    /\ d \in [feature : SUBSET Parts, rows : SUBSET Row, next : Nat,
              val : [DOMAIN d.val -> Value]]
    /\ DOMAIN d.val \subseteq Nat

ProcessesOK ==
    /\ lock \in [Procs -> Lock]
    /\ tx \in [Procs -> {"no", "method", "program"}]
    /\ cache \in [Procs -> CacheType]
    /\ stmt \in [Procs -> StatementType]
    /\ \A p \in Procs : stmt[p].at \in AboutString => stmt[p].str \in Strings
    /\ statements \in Nat /\ faults \in Nat
    /\ undone \in [Procs -> BOOLEAN]

\* The type invariant.
TypeOK == DatabaseOK(file) /\ DatabaseOK(work) /\ ProcessesOK

\* At most one process has the database in a state that others do not see, and
\* without such a process there is no such state; a lock outlives its command in
\* a transaction only.
LocksSound ==
    /\ \A p, q \in Procs : lock[p] \in Writing /\ lock[q] \in Writing => p = q
    /\ (\A p \in Procs : lock[p] \notin Writing) => work = file
    /\ \A p \in Procs : tx[p] = "no" => lock[p] = "none"
    /\ \A p \in Procs : lock[p] = "pending" => stmt[p].at \in {"idCommit", "commit"}

\* What the cache of a process says is what the process would read in the
\* string set, whoever wrote it, unless a rollback or the removal of the feature
\* took a row away that the process had in its cache.
CachedPairsStored ==
    \A p \in Procs : ~undone[p] =>
       \A e \in cache[p].id2s \cup cache[p].s2id : stored(e, view(p).rows)

\* The id_d in an object is that of the string the object was given, in the
\* file and for the process that writes it, provided that the cache it was taken
\* from could be trusted.
ValuesExact ==
    \A db \in {file, work} : \A o \in DOMAIN db.val :
       db.val[o].sure => stored(db.val[o], db.rows)

\* What a process has stored, it can read back: its cache gives the string, or
\* is not complete and will be loaded.
ReadsOwnWrites ==
    \A p \in Procs : \A o \in DOMAIN view(p).val :
       LET v == view(p).val[o]
       IN  ~undone[p] /\ v.sure /\ v.by = p /\ cache[p].complete =>
              [id |-> v.id, str |-> v.str] \in cache[p].id2s

unique(rows) == \A r, t \in rows : r.str = t.str => r = t

\* The id_d that a query compares with.
queryID(p, s) ==
    LET hits == getID_DFromString(cache[p], s)
        ids  == IF hits # {} THEN hits ELSE idsOf(view(p).rows, s)
    IN  IF ids = {} THEN NIL ELSE CHOOSE i \in ids : \A j \in ids : i <= j

\* A query for a string finds exactly the objects that were given it, by any
\* process, where no string is in the set twice.
EqualityExact ==
    \A p \in Procs : ~undone[p] /\ unique(view(p).rows) =>
       \A o \in DOMAIN view(p).val, s \in Strings :
          LET v == view(p).val[o]
          IN  v.sure => (v.id = queryID(p, s) <=> v.str = s)

\* A string gets into the set twice only through a process that looks for it
\* and adds it outside a transaction (UPDATE OBJECTS).
DuplicatesNeedNoTransaction ==
    \A db \in {file, work} : \A r, t \in db.rows :
       r.str = t.str /\ r # t => ~r.tx \/ ~t.tx

\* p waits for q to give up its shared lock, and q, which wants to write, for p.
waitForEachOther(p, q) ==
    /\ lock[p] = "pending" /\ lock[q] = "shared"
    /\ stmt[q].at \in {"id", "insert", "store"} \cup Parts

leftOpen(p) == tx[p] = "method" /\ stmt[p] = NoStatement

\* Every statement comes to an end, however the commands of the processes fall
\* and whatever fails, but for two reasons: one process has read and wants to
\* write while the other commits, or createObject left its transaction open.
StatementsReturnOrBlock ==
    \A p \in Procs :
       stmt[p] # NoStatement ~>
          \/ stmt[p] = NoStatement
          \/ \E q, r \in Procs : waitForEachOther(q, r)
          \/ \E q \in Procs : leftOpen(q)

\* Every statement comes to an end if no command fails and no process dies: NEWS
\* says of this that all aspects of Emdros are able to run concurrently.
StatementsReturn ==
    \A p \in Procs : (stmt[p] # NoStatement) ~> (stmt[p] = NoStatement \/ faults > 0)

\* An object that has an id_d for the feature has that of the string it was
\* given: the comment at emdfdb.cpp:8363 says the association is created if it
\* is not there.
AssociationThere ==
    \A o \in DOMAIN file.val :
       file.val[o].id # NIL => stored(file.val[o], file.rows)
=============================================================================
