------------------------- MODULE StringSets_proofs --------------------------
(***************************************************************************)
(* Proofs about string sets and the processes that share them, for any set *)
(* of processes and of strings and any number of statements and faults.    *)
(***************************************************************************)
EXTENDS StringSets, FiniteSetTheorems, Induction, TLAPS

-----------------------------------------------------------------------------
\* The inductive invariant

\* The ids of a string set have no gaps and no id has two rows: the next rowid
\* is new.
RowsSound(rows) ==
    /\ IsFiniteSet(rows)
    /\ \A r \in rows : r.id \in 1 .. Cardinality(rows)
    /\ \A r, t \in rows : r.id = t.id => r = t

\* Both maps of a cache have pairs that are stored, the map from strings no
\* other ones than the map from ids, and the id a statement is about to store
\* is one of them.
CacheSound(p) ==
    ~undone[p] =>
       /\ cache[p].s2id \subseteq cache[p].id2s
       /\ \A e \in cache[p].id2s : stored(e, view(p).rows)
       /\ stmt[p].at = "store" =>
             [id |-> stmt[p].id, str |-> stmt[p].str] \in cache[p].id2s

OwnedBy(v, p) == v.sure /\ v.by = p
InCache(v, c) == [id |-> v.id, str |-> v.str] \in c.id2s

\* What p gave to objects is in its complete cache: in what p sees, and in the
\* file to which a rollback would return, unless the rollback brought rows back.
OwnWritesCached(p) ==
    ~undone[p] /\ cache[p].complete =>
       /\ \A o \in DOMAIN view(p).val :
             OwnedBy(view(p).val[o], p) => InCache(view(p).val[o], cache[p])
       /\ file.rows \subseteq view(p).rows =>
             \A o \in DOMAIN file.val :
                OwnedBy(file.val[o], p) => InCache(file.val[o], cache[p])

\* Between the SELECT that does not find a string and the INSERT of it, within
\* a transaction, the shared lock keeps the string out of the set.
LookedUp(p) ==
    stmt[p].at = "insert" /\ tx[p] # "no" =>
       lock[p] # "none" /\ idsOf(view(p).rows, stmt[p].str) = {}

\* ADD and REMOVE of a feature are within a transaction, and the string set is
\* dropped when the column is not there any more.
Altering(p) ==
    /\ stmt[p].at \in Parts => tx[p] # "no"
    /\ stmt[p].at = "set" /\ stmt[p].op # "add" =>
          lock[p] \in Writing /\ "column" \notin view(p).feature

ProcessInv(p) == CacheSound(p) /\ OwnWritesCached(p) /\ LookedUp(p) /\ Altering(p)

\* Only the process that writes has values in work that are not in the file.
OwnersWrite ==
    \A p \in Procs : lock[p] \notin Writing =>
       \A o \in DOMAIN work.val : work.val[o].by = p =>
          o \in DOMAIN file.val /\ file.val[o] = work.val[o]

DatabaseSound(d) ==
    /\ DatabaseOK(d)
    /\ RowsSound(d.rows)
    /\ \A o \in DOMAIN d.val : d.val[o].sure => stored(d.val[o], d.rows)
    /\ \A r, t \in d.rows : r.str = t.str /\ r # t => ~r.tx \/ ~t.tx
    /\ "set" \notin d.feature => d.rows = {}
    /\ "column" \notin d.feature => \A o \in DOMAIN d.val : ~d.val[o].sure

StringSetsInv ==
    /\ TypeOK
    /\ LocksSound
    /\ DatabaseSound(file) /\ DatabaseSound(work)
    /\ OwnersWrite
    /\ \A p \in Procs : ProcessInv(p)

-----------------------------------------------------------------------------
\* What the database commands do to what each process sees

\* A SELECT changes nobody's view.
LEMMA SelectViews ==
    ASSUME TypeOK, NEW p \in Procs, Select(p)
    PROVE  \A q \in Procs : view(q)' = view(q)
  BY DEF TypeOK, ProcessesOK, Select, view, Writing, Lock

\* A command of p gives p the database it makes.  Another process sees no change,
\* or sees the same database if it has no lock.
LEMMA ExecuteViews ==
    ASSUME TypeOK, LocksSound, NEW p \in Procs, NEW db, Execute(p, db)
    PROVE  /\ view(p)' = db
           /\ work' = db
           /\ file' = file \/ file' = db
           /\ \A q \in Others(p) : /\ lock'[q] = lock[q]
                                   /\ lock[q] \notin Writing
                                   /\ \/ view(q)' = view(q) /\ file' = file
                                      \/ view(q)' = db /\ file' = db /\ lock[q] = "none"
  <1>1. CASE tx[p] # "no"
    BY <1>1 DEF TypeOK, ProcessesOK, Execute, view, Writing, Lock, Others
  <1>2. CASE tx[p] = "no"
    BY <1>2 DEF TypeOK, ProcessesOK, LocksSound, Execute, view, Writing, Lock, Others
  <1> QED  BY <1>1, <1>2

\* A commit leaves p's view as it is, and publishes it to those without a lock.
LEMMA CommitViews ==
    ASSUME TypeOK, LocksSound, NEW p \in Procs, Commit(p)
    PROVE  /\ view(p)' = view(p)
           /\ file' = view(p) /\ work' = work
           /\ \A q \in Others(p) : /\ lock'[q] = lock[q]
                                   /\ \/ view(q)' = view(q) /\ file' = file
                                      \/ /\ view(q)' = view(p) /\ view(p) = work
                                         /\ lock[q] = "none"
  <1>1. CASE lock[p] \in Writing
    BY <1>1 DEF TypeOK, ProcessesOK, LocksSound, Commit, view, Writing, Lock, Others
  <1>2. CASE lock[p] \notin Writing
    BY <1>2 DEF TypeOK, ProcessesOK, LocksSound, Commit, view, Writing, Lock, Others
  <1> QED  BY <1>1, <1>2

\* A rollback gives p the file, and changes nobody else's view.
LEMMA RollbackViews ==
    ASSUME TypeOK, LocksSound, NEW p \in Procs, Rollback(p)
    PROVE  /\ view(p)' = file
           /\ file' = file
           /\ work' = IF lock[p] \in Writing THEN file ELSE work
           /\ \A q \in Others(p) : lock'[q] = lock[q] /\ view(q)' = view(q)
  BY DEF TypeOK, ProcessesOK, LocksSound, Rollback, view, Writing, Lock, Others

-----------------------------------------------------------------------------
\* Types

\* The operations of the cache make caches.
LEMMA CacheTypes ==
    ASSUME NEW c \in CacheType
    PROVE  /\ \A i \in Nat, s \in Strings : addPair(c, i, s) \in CacheType
           /\ fillStringToSetIDDCache(c) \in CacheType
           /\ \A rows \in SUBSET Row : loadRows(c, rows) \in CacheType
           /\ EmptyCache \in CacheType
  <1>1. ASSUME NEW i \in Nat, NEW s \in Strings PROVE addPair(c, i, s) \in CacheType
    <2>1. [id |-> i, str |-> s] \in Pair
      BY DEF Pair
    <2>2. ASSUME NEW x \in Pair
          PROVE  [c EXCEPT !.there = TRUE, !.complete = FALSE,
                           !.id2s = {e \in c.id2s : e.id # i} \cup {x},
                           !.s2id = IF c.filled THEN {e \in @ : e.str # s} \cup {x}
                                    ELSE @] \in CacheType
      BY DEF CacheType
    <2> QED  BY <2>1, <2>2 DEF addPair
  <1>2. fillStringToSetIDDCache(c) \in CacheType
    BY DEF CacheType, fillStringToSetIDDCache
  <1>3. ASSUME NEW rows \in SUBSET Row PROVE loadRows(c, rows) \in CacheType
    <2> DEFINE new == {[id |-> r.id, str |-> r.str] : r \in rows}
               last == {e \in new : \A f \in new : f.str = e.str => f.id <= e.id}
    <2>1. new \subseteq Pair /\ last \subseteq Pair
      BY DEF Row, Pair
    <2> HIDE DEF new, last
    <2>2. [c EXCEPT
             !.there = TRUE, !.complete = TRUE,
             !.id2s = {e \in @ : \A f \in new : f.id # e.id} \cup new,
             !.s2id = IF c.filled
                      THEN {e \in @ : \A f \in last : f.str # e.str} \cup last
                      ELSE @] \in CacheType
      BY <2>1 DEF CacheType
    <2> QED  BY <2>2 DEF loadRows, new, last
  <1>4. EmptyCache \in CacheType
    BY DEF EmptyCache, CacheType
  <1> QED  BY <1>1, <1>2, <1>3, <1>4

\* Of the ids of a string the cache gives natural numbers.
LEMMA CachedIds ==
    ASSUME NEW c \in CacheType, NEW s
    PROVE  getID_DFromString(c, s) \subseteq Nat
  BY CacheTypes DEF getID_DFromString, CacheType, Pair

\* The SELECT of a string gives the id of one of its rows, the lowest.
LEMMA LowestId ==
    ASSUME NEW rows \in SUBSET Row, NEW s, idsOf(rows, s) # {}
    PROVE  LET i == CHOOSE j \in idsOf(rows, s) : \A k \in idsOf(rows, s) : j <= k
           IN  i \in Nat /\ i \in idsOf(rows, s) /\ stored([id |-> i, str |-> s], rows)
  <1> DEFINE ids == idsOf(rows, s)
             i == CHOOSE j \in ids : \A k \in ids : j <= k
  <1>1. ids \in SUBSET Nat /\ ids # {}
    BY DEF idsOf, Row
  <1>2. \A j \in ids : stored([id |-> j, str |-> s], rows)
    BY DEF idsOf, stored
  <1> HIDE DEF ids
  <1>3. i \in ids
    BY <1>1, LeastNatural
  <1> QED  BY <1>1, <1>2, <1>3 DEF ids

\* The types of what a step does to the statements, locks and history.
StatementsOK == /\ stmt \in [Procs -> StatementType]
                /\ \A p \in Procs : stmt[p].at \in AboutString => stmt[p].str \in Strings

LEMMA GoToType ==
    ASSUME ProcessesOK, NEW p \in Procs, NEW s, GoTo(p, s),
           s.at = "end" \/ (s \in StatementType /\ (s.at \in AboutString => s.str \in Strings))
    PROVE  StatementsOK'
  <1>1. NoStatement \in StatementType /\ NoStatement.at \notin AboutString
    BY DEF NoStatement, StatementType, At, AboutString, NIL
  <1> DEFINE n == IF s.at = "end" THEN NoStatement ELSE s
  <1>2. n \in StatementType /\ (n.at \in AboutString => n.str \in Strings)
    BY <1>1
  <1>3. stmt' = [stmt EXCEPT ![p] = n]
    BY DEF GoTo
  <1> HIDE DEF n
  <1> QED  BY <1>2, <1>3 DEF ProcessesOK, StatementsOK

LEMMA StartType ==
    ASSUME ProcessesOK, NEW p \in Procs, NEW s \in StatementType, Start(p, s),
           s.at \in AboutString => s.str \in Strings
    PROVE  StatementsOK' /\ statements' \in Nat /\ faults' \in Nat
  BY DEF ProcessesOK, StatementsOK, Start

LEMMA WatchType ==
    ASSUME NEW E, Watch(E)
    PROVE  undone' \in [Procs -> BOOLEAN]
  BY DEF Watch

LEMMA LockTypes ==
    ASSUME ProcessesOK, NEW p \in Procs
    PROVE  /\ Select(p) => lock' \in [Procs -> Lock]
           /\ \A db : Execute(p, db) => lock' \in [Procs -> Lock]
           /\ Commit(p) \/ Rollback(p) =>
                 lock' \in [Procs -> Lock] /\ tx' \in [Procs -> {"no", "method", "program"}]
           /\ beginTransaction(p) => tx' \in [Procs -> {"no", "method", "program"}]
  BY DEF ProcessesOK, Select, Execute, Commit, Rollback, beginTransaction, Lock

LEMMA ViewType ==
    ASSUME TypeOK, NEW p \in Procs
    PROVE  DatabaseOK(view(p)) /\ view(p).rows \subseteq Row /\ view(p).next \in Nat
  BY DEF TypeOK, DatabaseOK, view

LEMMA IdFoundType ==
    ASSUME NEW s \in StatementType, s.str \in Strings, NEW i \in Nat
    PROVE  \/ idFound(s, i).at = "end"
           \/ idFound(s, i) \in StatementType /\ idFound(s, i).str \in Strings
  BY DEF idFound, StatementType, At

\* Every step of a process keeps the types of the processes' state.
LEMMA ProcessesStep ==
    ASSUME TypeOK, NEW p \in Procs, IsFiniteSet(view(p).rows),
           Program(p) \/ EndTransaction(p) \/ Step(p) \/ commandFails(p) \/ crash(p)
    PROVE  ProcessesOK'
  <1>0. ProcessesOK /\ cache[p] \in CacheType /\ stmt[p] \in StatementType
    BY DEF TypeOK, ProcessesOK
  <1>k. Known(p) => cache' \in [Procs -> CacheType]
    <2>1. ASSUME NEW b \in BOOLEAN PROVE [cache[p] EXCEPT !.known = b] \in CacheType
      BY <1>0 DEF CacheType
    <2>2. Known(p) => cache' = [cache EXCEPT ![p] = [cache[p] EXCEPT !.known = TRUE]]
      BY DEF Known
    <2> QED  BY <1>0, <2>1, <2>2 DEF ProcessesOK
  <1>s. ASSUME NEW c \in CacheType
        PROVE  [cache EXCEPT ![p] = c] \in [Procs -> CacheType]
    BY <1>0 DEF ProcessesOK
  <1>n. NoStatement \in StatementType
    BY DEF NoStatement, StatementType, At, NIL
  <1>1. ASSUME NEW s \in Strings, CreateObject(p, s) PROVE ProcessesOK'
    <2> DEFINE n == [NoStatement EXCEPT !.op = "create", !.at = "id", !.str = s,
                                        !.own = (tx[p] = "no")]
    <2>1. n \in StatementType /\ n.str \in Strings
      BY DEF NoStatement, StatementType, At, NIL
    <2> HIDE DEF n
    <2>2. Start(p, n)
      BY <1>1 DEF CreateObject, n
    <2>3. lock' = lock /\ Known(p) /\ beginTransaction(p) /\ Watch({})
      BY <1>1 DEF CreateObject
    <2> QED  BY <1>0, <1>k, <2>1, <2>2, <2>3, StartType, WatchType, LockTypes
             DEF ProcessesOK, StatementsOK
  <1>2. ASSUME NEW o \in DOMAIN view(p).val, NEW s \in Strings, UpdateObjects(p, o, s)
        PROVE  ProcessesOK'
    <2> DEFINE n == [NoStatement EXCEPT !.op = "update", !.at = "lookup",
                                        !.obj = o, !.str = s]
    <2>1. n \in StatementType /\ n.str \in Strings
      BY ViewType DEF NoStatement, StatementType, At, NIL, DatabaseOK
    <2> HIDE DEF n
    <2>2. Start(p, n)
      BY <1>2 DEF UpdateObjects, n
    <2>3. tx' = tx /\ Known(p) /\ Select(p) /\ Watch({})
      BY <1>2 DEF UpdateObjects
    <2> QED  BY <1>0, <1>k, <2>1, <2>2, <2>3, StartType, WatchType, LockTypes
             DEF ProcessesOK, StatementsOK
  <1>3. ASSUME NEW s \in Strings, QueryEqual(p, s) PROVE ProcessesOK'
    <2> DEFINE n == [NoStatement EXCEPT !.op = "find", !.at = "lookup", !.str = s]
    <2>1. n \in StatementType /\ n.str \in Strings
      BY DEF NoStatement, StatementType, At, NIL
    <2> HIDE DEF n
    <2>2. Start(p, n)
      BY <1>3 DEF QueryEqual, n
    <2>3. UNCHANGED <<lock, tx>> /\ Known(p) /\ Watch({})
      BY <1>3 DEF QueryEqual
    <2> QED  BY <1>0, <1>k, <2>1, <2>2, <2>3, StartType, WatchType
             DEF ProcessesOK, StatementsOK
  <1>4. CASE GetFeatures(p)
    <2> DEFINE n == [NoStatement EXCEPT !.op = "load", !.at = "load"]
    <2>1. n \in StatementType /\ n.at \notin AboutString
      BY DEF NoStatement, StatementType, At, AboutString, NIL
    <2> HIDE DEF n
    <2>2. Start(p, n)
      BY <1>4 DEF GetFeatures, n
    <2>3. UNCHANGED <<lock, tx>> /\ Known(p) /\ Watch({})
      BY <1>4 DEF GetFeatures
    <2> QED  BY <1>0, <1>k, <2>1, <2>2, <2>3, StartType, WatchType
             DEF ProcessesOK, StatementsOK
  <1>5. ASSUME NEW op \in {"add", "drop"}, UpdateObjectType(p, op) PROVE ProcessesOK'
    <2> DEFINE n == [NoStatement EXCEPT !.op = op, !.at = "column",
                                        !.own = (tx[p] = "no")]
    <2>1. n \in StatementType /\ n.at \notin AboutString
      BY DEF NoStatement, StatementType, At, AboutString, NIL, Parts
    <2> HIDE DEF n
    <2>2. Start(p, n)
      BY <1>5 DEF UpdateObjectType, n
    <2>3. /\ UNCHANGED lock /\ beginTransaction(p) /\ Watch({})
          /\ cache' = [cache EXCEPT ![p].known = (op = "drop")]
      BY <1>5 DEF UpdateObjectType
    <2>4. cache' \in [Procs -> CacheType]
      BY <1>0, <2>3 DEF ProcessesOK, CacheType
    <2> QED  BY <1>0, <2>1, <2>2, <2>3, <2>4, StartType, WatchType, LockTypes
             DEF ProcessesOK, StatementsOK
  <1>6. CASE UseDatabase(p)
    <2> DEFINE n == [NoStatement EXCEPT !.op = "use", !.at = "commit"]
    <2>1. n \in StatementType /\ n.at \notin AboutString
      BY DEF NoStatement, StatementType, At, AboutString, NIL
    <2> HIDE DEF n
    <2>2. Start(p, n) /\ UNCHANGED <<lock, tx, cache>> /\ Watch({})
      BY <1>6 DEF UseDatabase, n
    <2> QED  BY <1>0, <2>1, <2>2, StartType, WatchType DEF ProcessesOK, StatementsOK
  <1>7. CASE BeginTransaction(p)
    <2>1. NoStatement.at \notin AboutString
      BY DEF NoStatement, AboutString
    <2>2. /\ Start(p, NoStatement) /\ UNCHANGED <<lock, cache>> /\ Watch({})
          /\ tx' = [tx EXCEPT ![p] = "program"]
      BY <1>7 DEF BeginTransaction
    <2> QED  BY <1>0, <1>n, <2>1, <2>2, StartType, WatchType DEF ProcessesOK, StatementsOK
  <1>8. CASE CommitTransaction(p)
    <2> DEFINE n == [NoStatement EXCEPT !.op = "end", !.at = "commit"]
    <2>1. n \in StatementType /\ n.at \notin AboutString
      BY DEF NoStatement, StatementType, At, AboutString, NIL
    <2> HIDE DEF n
    <2>2. GoTo(p, n) /\ UNCHANGED <<lock, tx, cache, statements, faults>> /\ Watch({})
      BY <1>8 DEF CommitTransaction, counters, n
    <2> QED  BY <1>0, <2>1, <2>2, GoToType, WatchType DEF ProcessesOK, StatementsOK
  <1>9. CASE AbortTransaction(p)
    BY <1>0, <1>9, WatchType, LockTypes DEF AbortTransaction, counters, ProcessesOK
  <1>10. CASE getNextID(p)
    <2> DEFINE n == [stmt[p] EXCEPT !.obj = view(p).next + 1,
                                    !.at = IF @ = "id" /\ stmt[p].own
                                           THEN "idCommit" ELSE "lookup"]
    <2>1. n \in StatementType /\ n.str \in Strings
      <3>1. ASSUME NEW o \in Nat, NEW t \in {"idCommit", "lookup"}
            PROVE  [stmt[p] EXCEPT !.obj = o, !.at = t] \in StatementType
        BY <1>0 DEF StatementType, At
      <3>2. n.str = stmt[p].str /\ stmt[p].str \in Strings
        BY <1>0, <1>10 DEF getNextID, StatementType, ProcessesOK, AboutString
      <3> DEFINE t == IF stmt[p].at = "id" /\ stmt[p].own THEN "idCommit" ELSE "lookup"
      <3>3. view(p).next + 1 \in Nat /\ t \in {"idCommit", "lookup"}
        BY ViewType
      <3>4. n = [stmt[p] EXCEPT !.obj = view(p).next + 1, !.at = t]
        OBVIOUS
      <3> HIDE DEF t, n
      <3> QED  BY <3>1, <3>2, <3>3, <3>4
    <2> HIDE DEF n
    <2>2. /\ GoTo(p, n) /\ UNCHANGED <<tx, cache, statements, faults>> /\ Watch({})
          /\ \E db : Execute(p, db)
      BY <1>10 DEF getNextID, counters, n
    <2> QED  BY <1>0, <2>1, <2>2, GoToType, WatchType, LockTypes DEF ProcessesOK, StatementsOK
  <1>11. CASE findID_DInSetCacheFromString(p)
    <2> DEFINE s == [stmt[p] EXCEPT !.own = stmt[p].op = "create" /\ tx[p] = "no"]
               hits == getID_DFromString(cache[p], s.str)
               n == IF hits = {} THEN [s EXCEPT !.at = "select"]
                    ELSE idFound(s, CHOOSE i \in hits : TRUE)
    <2>1. s \in StatementType /\ s.str \in Strings
      BY <1>0, <1>11
         DEF findID_DInSetCacheFromString, StatementType, ProcessesOK, AboutString
    <2>2. hits \subseteq Nat
      BY <1>0, CachedIds
    <2>3. ASSUME NEW x \in StatementType, x.str \in Strings
          PROVE  LET y == [x EXCEPT !.at = "select"]
                 IN  y \in StatementType /\ y.str \in Strings
      BY <2>3 DEF StatementType, At
    <2>4. /\ GoTo(p, n)
          /\ cache' = [cache EXCEPT ![p] = fillStringToSetIDDCache(cache[p])]
          /\ beginTransaction(p) \/ UNCHANGED tx
          /\ UNCHANGED <<lock, statements, faults>> /\ Watch({})
      BY <1>11 DEF findID_DInSetCacheFromString, counters
    <2> HIDE DEF s, hits
    <2>5. n.at = "end" \/ (n \in StatementType /\ n.str \in Strings)
      <3>1. CASE hits = {}  BY <2>1, <2>3, <3>1
      <3>2. CASE hits # {}
        <4>1. (CHOOSE i \in hits : TRUE) \in Nat
          BY <2>2, <3>2
        <4> QED  BY <2>1, <3>2, <4>1, IdFoundType
      <3> QED  BY <3>1, <3>2
    <2> HIDE DEF n
    <2>6. StatementsOK'
      BY <1>0, <2>4, <2>5, GoToType
    <2>7. cache' \in [Procs -> CacheType]
      BY <1>0, <1>s, <2>4, CacheTypes
    <2> QED  BY <1>0, <2>4, <2>6, <2>7, WatchType, LockTypes DEF ProcessesOK, StatementsOK
  <1>12. CASE selectString(p)
    <2> DEFINE s == stmt[p]
               ids == idsOf(view(p).rows, s.str)
               i == CHOOSE j \in ids : \A k \in ids : j <= k
               end == [s EXCEPT !.at = IF s.op = "find" THEN "end" ELSE "insert"]
               n == IF ids # {} THEN idFound(s, i) ELSE end
               c == IF ids = {} THEN cache[p] ELSE addPair(cache[p], i, s.str)
    <2>1. s \in StatementType /\ s.str \in Strings
      BY <1>0, <1>12 DEF selectString, ProcessesOK, AboutString
    <2>2. ids # {} => i \in Nat
      BY ViewType, LowestId
    <2>3. end.at = "end" \/ (end \in StatementType /\ end.str \in Strings)
      BY <2>1 DEF StatementType, At
    <2>4. /\ GoTo(p, n) /\ cache' = [cache EXCEPT ![p] = c] /\ Select(p)
          /\ UNCHANGED <<tx, statements, faults>> /\ Watch({})
      BY <1>12 DEF selectString, counters
    <2> HIDE DEF s, ids, i, end
    <2>5. n.at = "end" \/ (n \in StatementType /\ n.str \in Strings)
      BY <2>1, <2>2, <2>3, IdFoundType
    <2>6. c \in CacheType
      BY <1>0, <2>1, <2>2, CacheTypes
    <2> HIDE DEF n, c
    <2>7. StatementsOK'
      BY <1>0, <2>4, <2>5, GoToType
    <2> QED  BY <1>0, <1>s, <2>4, <2>6, <2>7, WatchType, LockTypes
             DEF ProcessesOK, StatementsOK
  <1>13. CASE addStringToStringSetTable(p)
    <2> DEFINE s == stmt[p]
               i == get_last_insert_rowid(view(p).rows)
               n == idFound(s, i)
               c == addPair(cache[p], i, s.str)
    <2>1. s \in StatementType /\ s.str \in Strings
      BY <1>0, <1>13 DEF addStringToStringSetTable, ProcessesOK, AboutString
    <2>2. i \in Nat
      BY FS_CardinalityType DEF get_last_insert_rowid, newRowid
    <2>4. /\ GoTo(p, n) /\ cache' = [cache EXCEPT ![p] = c] /\ \E db : Execute(p, db)
          /\ UNCHANGED <<tx, statements, faults>> /\ Watch({})
      BY <1>13 DEF addStringToStringSetTable, counters
    <2> HIDE DEF s, i
    <2>5. n.at = "end" \/ (n \in StatementType /\ n.str \in Strings)
      BY <2>1, <2>2, IdFoundType
    <2>6. c \in CacheType
      BY <1>0, <2>1, <2>2, CacheTypes
    <2> HIDE DEF n, c
    <2>7. StatementsOK'
      BY <1>0, <2>4, <2>5, GoToType
    <2> QED  BY <1>0, <1>s, <2>4, <2>6, <2>7, WatchType, LockTypes
             DEF ProcessesOK, StatementsOK
  <1>e. ASSUME NEW t \in {"commit", "end"}
        PROVE  LET n == [stmt[p] EXCEPT !.at = t]
               IN  n.at = "end" \/ (n \in StatementType /\ n.at \notin AboutString)
    BY <1>0 DEF StatementType, At, AboutString
  <1>14. CASE storeValue(p)
    <2> DEFINE n == [stmt[p] EXCEPT !.at = IF stmt[p].own THEN "commit" ELSE "end"]
    <2>1. n.at = "end" \/ (n \in StatementType /\ n.at \notin AboutString)
      BY <1>e
    <2> HIDE DEF n
    <2>2. /\ GoTo(p, n) /\ UNCHANGED <<tx, cache, statements, faults>> /\ Watch({})
          /\ \E db : Execute(p, db)
      BY <1>14 DEF storeValue, counters, n
    <2> QED  BY <1>0, <2>1, <2>2, GoToType, WatchType, LockTypes DEF ProcessesOK, StatementsOK
  <1>15. CASE loadStringSetIntoCache(p)
    <2> DEFINE n == [stmt[p] EXCEPT !.at = "end"]
    <2>1. n.at = "end" \/ (n \in StatementType /\ n.at \notin AboutString)
      BY <1>e
    <2> HIDE DEF n
    <2>2. /\ GoTo(p, n) /\ UNCHANGED <<tx, statements, faults>> /\ Watch({}) /\ Select(p)
          /\ cache' = [cache EXCEPT ![p] = loadRows(cache[p], view(p).rows)]
      BY <1>15 DEF loadStringSetIntoCache, counters, n
    <2>3. loadRows(cache[p], view(p).rows) \in CacheType
      BY <1>0, ViewType, CacheTypes
    <2> QED  BY <1>0, <1>s, <2>1, <2>2, <2>3, GoToType, WatchType, LockTypes
             DEF ProcessesOK, StatementsOK
  <1>16. CASE alterType(p)
    <2> DEFINE next == nextPart(stmt[p])
               n == [stmt[p] EXCEPT !.at = IF next = "end" /\ stmt[p].own THEN "commit" ELSE next]
               b == IF next = "end" THEN stmt[p].op = "add" ELSE cache[p].known
    <2>0. next \in {"end", "row", "set"}
      BY <1>16 DEF alterType, nextPart, Parts
    <2>1. n.at = "end" \/ (n \in StatementType /\ n.at \notin AboutString)
      BY <1>0, <2>0 DEF StatementType, At, AboutString, Parts
    <2> HIDE DEF n
    <2>2. /\ GoTo(p, n) /\ UNCHANGED <<tx, statements, faults>> /\ Watch({})
          /\ \E db : Execute(p, db)
          /\ cache' = [cache EXCEPT ![p].known = b]
      BY <1>16 DEF alterType, counters, n
    <2>b. b \in BOOLEAN
      BY <1>0, <1>s DEF CacheType
    <2> HIDE DEF b
    <2>3. cache' \in [Procs -> CacheType]
      BY <1>0, <2>2, <2>b DEF ProcessesOK, CacheType
    <2> QED  BY <1>0, <2>1, <2>2, <2>3, GoToType, WatchType, LockTypes
             DEF ProcessesOK, StatementsOK
  <1>17. CASE commitStep(p)
    <2> DEFINE n == [stmt[p] EXCEPT !.at = IF @ = "idCommit" THEN "lookup" ELSE "end"]
               c == IF stmt[p].op = "use" THEN EmptyCache ELSE cache[p]
    <2>1. n.at = "end" \/ (n \in StatementType /\ (n.at \in AboutString => n.str \in Strings))
      BY <1>0 DEF StatementType, At, AboutString, ProcessesOK
    <2>2. c \in CacheType
      BY <1>0, CacheTypes
    <2>3. /\ GoTo(p, n) /\ Commit(p) /\ UNCHANGED <<statements, faults>>
          /\ Watch(IF stmt[p].op = "use" THEN {p} ELSE {})
          /\ cache' = [cache EXCEPT ![p] = c]
      BY <1>17 DEF commitStep, counters
    <2> HIDE DEF n, c
    <2>4. StatementsOK'
      BY <1>0, <2>1, <2>3, GoToType
    <2> QED  BY <1>0, <1>s, <2>2, <2>3, <2>4, WatchType, LockTypes
             DEF ProcessesOK, StatementsOK
  <1>18. CASE commitBusy(p)
    BY <1>0, <1>18, WatchType DEF commitBusy, counters, ProcessesOK, Lock
  <1>19. ASSUME returnFalse(p), faults' \in Nat PROVE ProcessesOK'
    <2> DEFINE n == [stmt[p] EXCEPT !.at = "end"]
    <2>1. n.at = "end" \/ (n \in StatementType /\ n.at \notin AboutString)
      BY <1>e
    <2> HIDE DEF n
    <2>2. /\ GoTo(p, n) /\ UNCHANGED <<cache, statements>> /\ Watch({})
          /\ Rollback(p) \/ UNCHANGED <<lock, tx>>
      BY <1>19 DEF returnFalse, n
    <2> QED  BY <1>0, <1>19, <2>1, <2>2, GoToType, WatchType, LockTypes
             DEF ProcessesOK, StatementsOK
  <1>20. CASE featureMissing(p)
    BY <1>0, <1>19, <1>20 DEF featureMissing, ProcessesOK
  <1>21. CASE commandFails(p)
    BY <1>0, <1>19, <1>21 DEF commandFails, ProcessesOK
  <1>22. CASE crash(p)
    <2>1. /\ Rollback(p) /\ Watch({p}) /\ UNCHANGED statements /\ faults' = faults + 1
          /\ cache' = [cache EXCEPT ![p] = EmptyCache]
          /\ stmt' = [stmt EXCEPT ![p] = NoStatement]
      BY <1>22 DEF crash
    <2>2. StatementsOK'
      BY <1>0, <1>n, <2>1 DEF ProcessesOK, StatementsOK, NoStatement, AboutString
    <2>3. EmptyCache \in CacheType
      BY <1>0, CacheTypes
    <2> QED  BY <1>0, <1>s, <2>1, <2>2, <2>3, WatchType, LockTypes
             DEF ProcessesOK, StatementsOK
  <1> QED  BY <1>1, <1>2, <1>3, <1>4, <1>5, <1>6, <1>7, <1>8, <1>9, <1>10, <1>11,
              <1>12, <1>13, <1>14, <1>15, <1>16, <1>17, <1>18, <1>20, <1>21, <1>22
           DEF Program, EndTransaction, Step

-----------------------------------------------------------------------------
\* What a step of one process does to the state of the others

\* The steps of p by what they ask of SQLite: nothing, a SELECT, a change to db,
\* a COMMIT, a ROLLBACK, or a COMMIT that is refused.
Quiet(p) == /\ UNCHANGED <<file, work, lock>>
            /\ lock[p] # "pending"
            /\ tx'[p] = "no" => tx[p] = "no"

Reads(p) == Select(p) /\ lock[p] # "pending" /\ tx' = tx

Writes(p, db) == Execute(p, db) /\ lock[p] # "pending" /\ tx' = tx

Waits(p) == /\ UNCHANGED <<file, work, tx, stmt>>
            /\ lock[p] = "reserved" /\ lock' = [lock EXCEPT ![p] = "pending"]
            /\ stmt[p].at \in {"idCommit", "commit"}

\* A step of p changes p's state only.
Frame(p) ==
    /\ \A q \in Others(p) : tx'[q] = tx[q] /\ cache'[q] = cache[q] /\ stmt'[q] = stmt[q]
    /\ \E E \in SUBSET {p} : Watch(E)

\* p changes what it sees to db: db is sound, and only p gives new values.
Change(p, db) ==
    /\ DatabaseSound(db)
    /\ \A o \in DOMAIN db.val : db.val[o].by # p =>
          o \in DOMAIN view(p).val /\ db.val[o] = view(p).val[o]

Kind(p) == \/ Quiet(p) \/ Reads(p) \/ Waits(p) \/ Commit(p) \/ Rollback(p)
           \/ \E db : Writes(p, db) /\ Change(p, db)

LEMMA StatementOfStart ==
    ASSUME ProcessesOK, LocksSound, NEW p \in Procs, stmt[p] = NoStatement
    PROVE  lock[p] # "pending"
  <1>1. NoStatement.at = "idle"
    BY DEF NoStatement
  <1> QED  BY <1>1 DEF LocksSound

\* The database after getNextID, as p sees it.
LEMMA NextIdChange ==
    ASSUME NEW p \in Procs, DatabaseSound(view(p))
    PROVE  Change(p, [view(p) EXCEPT !.next = @ + 1])
  <1>1. ASSUME NEW d, DatabaseSound(d)
        PROVE  DatabaseSound([d EXCEPT !.next = @ + 1])
    <2> DEFINE e == [d EXCEPT !.next = @ + 1]
    <2>1. e.rows = d.rows /\ e.val = d.val /\ e.feature = d.feature /\ DatabaseOK(e)
      BY <1>1 DEF DatabaseSound, DatabaseOK
    <2> HIDE DEF e
    <2> QED  BY <1>1, <2>1 DEF DatabaseSound, e
  <1>2. [view(p) EXCEPT !.next = @ + 1].val = view(p).val
    BY DEF DatabaseSound, DatabaseOK
  <1> QED  BY <1>1, <1>2 DEF Change

\* One more row of a string set, with the next rowid.
LEMMA OneMoreRow ==
    ASSUME NEW rows, rows \subseteq Row, RowsSound(rows), NEW s \in Strings, NEW b \in BOOLEAN
    PROVE  LET r == [id |-> newRowid(rows), str |-> s, tx |-> b]
           IN  /\ r \in Row
               /\ RowsSound(rows \cup {r})
               /\ \A t \in rows : t.id # r.id
  <1> DEFINE n == Cardinality(rows)
             r == [id |-> n + 1, str |-> s, tx |-> b]
  <1>1. n \in Nat /\ \A t \in rows : t.id \in 1 .. n
    BY FS_CardinalityType DEF RowsSound
  <1>2. r \in Row /\ r.id = n + 1
    BY <1>1 DEF Row
  <1>3. \A t \in rows : t.id # r.id
    BY <1>1, <1>2
  <1>4. r \notin rows
    BY <1>3
  <1>5. IsFiniteSet(rows \cup {r}) /\ Cardinality(rows \cup {r}) = n + 1
    BY <1>4, FS_AddElement DEF RowsSound
  <1> HIDE DEF r
  <1>6. \A t \in rows \cup {r} : t.id \in 1 .. n + 1
    BY <1>1, <1>2
  <1>7. \A t, u \in rows \cup {r} : t.id = u.id => t = u
    BY <1>3 DEF RowsSound
  <1>8. RowsSound(rows \cup {r})
    BY <1>5, <1>6, <1>7 DEF RowsSound
  <1> QED  BY <1>2, <1>3, <1>8 DEF newRowid, r

\* addStringToStringSetTable keeps the string set sound: within a transaction
\* the string has not got there since it was looked for.
LEMMA NewRowChange ==
    ASSUME NEW p \in Procs, DatabaseSound(view(p)), NEW s \in Strings,
           "set" \in view(p).feature,
           tx[p] # "no" => idsOf(view(p).rows, s) = {}
    PROVE  LET r == [id |-> newRowid(view(p).rows), str |-> s, tx |-> tx[p] # "no"]
           IN  Change(p, [view(p) EXCEPT !.rows = @ \cup {r}])
  <1> DEFINE d == view(p)
             r == [id |-> newRowid(d.rows), str |-> s, tx |-> tx[p] # "no"]
             e == [d EXCEPT !.rows = @ \cup {r}]
  <1>0. d.rows \subseteq Row /\ RowsSound(d.rows)
    BY DEF DatabaseSound, DatabaseOK
  <1>1. r \in Row /\ RowsSound(d.rows \cup {r})
    BY <1>0, OneMoreRow
  <1>2. r.str = s /\ r.tx = (tx[p] # "no")
    OBVIOUS
  <1>3. \A t \in d.rows : t.str = s => tx[p] = "no"
    BY DEF idsOf
  <1> HIDE DEF r
  <1>4. e.rows = d.rows \cup {r} /\ e.val = d.val /\ e.feature = d.feature /\ DatabaseOK(e)
    BY <1>1 DEF DatabaseSound, DatabaseOK
  <1> HIDE DEF e
  <1>5. \A t, u \in d.rows \cup {r} : t.str = u.str /\ t # u => ~t.tx \/ ~u.tx
    BY <1>2, <1>3 DEF DatabaseSound
  <1>6. \A o \in DOMAIN e.val : e.val[o].sure => stored(e.val[o], e.rows)
    BY <1>4 DEF DatabaseSound, stored
  <1>7. Change(p, e)
    BY <1>1, <1>4, <1>5, <1>6 DEF Change, DatabaseSound
  <1> QED  BY <1>7 DEF e, r

\* The value that storeValue gives to an object.
LEMMA NewValueChange ==
    ASSUME NEW p \in Procs, DatabaseSound(view(p)), NEW v \in Value, v.by = p,
           v.sure => stored(v, view(p).rows), NEW x \in Nat,
           "column" \in view(p).feature
    PROVE  LET val == view(p).val
           IN  Change(p, [view(p) EXCEPT
                  !.val = [o \in DOMAIN val \cup {x} |-> IF o = x THEN v ELSE val[o]]])
  <1> DEFINE d == view(p)
             w == [o \in DOMAIN d.val \cup {x} |-> IF o = x THEN v ELSE d.val[o]]
             e == [d EXCEPT !.val = w]
  <1>1. /\ d.val \in [DOMAIN d.val -> Value] /\ DOMAIN d.val \subseteq Nat
        /\ d \in [feature : SUBSET Parts, rows : SUBSET Row, next : Nat,
                  val : [DOMAIN d.val -> Value]]
    BY DEF DatabaseSound, DatabaseOK
  <1>2. w \in [DOMAIN w -> Value] /\ DOMAIN w \subseteq Nat
    BY <1>1
  <1>3. \A o \in DOMAIN w : (o = x /\ w[o] = v) \/ (o \in DOMAIN d.val /\ w[o] = d.val[o])
    BY <1>1
  <1> HIDE DEF w
  <1>4. e.rows = d.rows /\ e.val = w /\ e.feature = d.feature /\ DatabaseOK(e)
    BY <1>1, <1>2 DEF DatabaseOK
  <1> HIDE DEF e
  <1>5. \A o \in DOMAIN e.val : e.val[o].sure => stored(e.val[o], e.rows)
    BY <1>3, <1>4 DEF DatabaseSound
  <1>6. Change(p, e)
    BY <1>3, <1>4, <1>5 DEF Change, DatabaseSound
  <1> QED  BY <1>6 DEF e, w

\* A change that is none.
LEMMA NoChange ==
    ASSUME NEW p \in Procs, DatabaseSound(view(p))
    PROVE  Change(p, [view(p) EXCEPT !.val = view(p).val])
  <1>1. [view(p) EXCEPT !.val = view(p).val] = view(p)
    BY DEF DatabaseSound, DatabaseOK
  <1> QED  BY <1>1 DEF Change

\* The commands of addFeature and dropFeature keep the database sound: a string
\* set is only dropped, or added without rows, when no object has a value of it.
LEMMA PartChange ==
    ASSUME NEW p \in Procs, DatabaseSound(view(p)), Altering(p),
           stmt[p].at \in Parts, ~partRefused(p)
    PROVE  LET d == view(p)
               e == altered(p, d, stmt[p])
           IN  /\ Change(p, e)
               /\ \/ e.rows = d.rows
                  \/ e.rows = {} /\ \A o \in DOMAIN e.val : ~e.val[o].sure
               /\ \A o \in DOMAIN e.val : \/ ~e.val[o].sure
                                          \/ o \in DOMAIN d.val /\ e.val[o] = d.val[o]
               /\ stmt[p].at = "column" /\ stmt[p].op # "add" => "column" \notin e.feature
  <1> DEFINE d == view(p)
             s == stmt[p]
             text == [id |-> NIL, str |-> "", by |-> p, sure |-> FALSE]
             e == altered(p, d, s)
             w == [o \in DOMAIN d.val |-> text]
  <1>1. text \in Value /\ text.by = p /\ text.sure = FALSE
    BY DEF Value, NIL
  <1>2. /\ e.feature = IF s.op = "add" THEN d.feature \cup {s.at} ELSE d.feature \ {s.at}
        /\ e.rows = IF s.at = "set" THEN {} ELSE d.rows
        /\ e.next = d.next
        /\ e.val = IF s.at = "column" THEN w ELSE d.val
        /\ e = [feature |-> e.feature, rows |-> e.rows, next |-> e.next, val |-> e.val]
    BY DEF altered
  <1>3. /\ d.feature \subseteq Parts /\ d.rows \subseteq Row /\ d.next \in Nat
        /\ d.val \in [DOMAIN d.val -> Value] /\ DOMAIN d.val \subseteq Nat
    BY DEF DatabaseSound, DatabaseOK
  <1> HIDE DEF text
  <1>4. w \in [DOMAIN w -> Value] /\ DOMAIN w = DOMAIN d.val /\ \A o \in DOMAIN w : w[o] = text
    BY <1>1
  <1> HIDE DEF e, w
  <1>5. /\ e.feature \subseteq Parts /\ e.rows \subseteq Row /\ e.next \in Nat
        /\ e.val \in [DOMAIN e.val -> Value] /\ DOMAIN e.val \subseteq Nat
    BY <1>2, <1>3, <1>4
  <1>6. DatabaseOK(e)
    BY <1>2, <1>5 DEF DatabaseOK
  <1>7. RowsSound({})
    BY FS_EmptySet DEF RowsSound
  <1>8. s.at = "set" => \A o \in DOMAIN d.val : ~d.val[o].sure
    <2>1. CASE s.op = "add"
      BY <2>1 DEF partRefused, DatabaseSound, stored
    <2>2. CASE s.op # "add"
      BY <2>2 DEF Altering, DatabaseSound
    <2> QED  BY <2>1, <2>2
  <1>9. /\ \/ e.rows = d.rows
           \/ e.rows = {} /\ \A o \in DOMAIN e.val : ~e.val[o].sure
        /\ \A o \in DOMAIN e.val : \/ ~e.val[o].sure /\ e.val[o].by = p
                                   \/ o \in DOMAIN d.val /\ e.val[o] = d.val[o]
    BY <1>1, <1>2, <1>4, <1>8
  <1>10. \A o \in DOMAIN e.val : e.val[o].sure => stored(e.val[o], e.rows)
    BY <1>9 DEF DatabaseSound
  <1>11. /\ RowsSound(e.rows)
         /\ \A r, t \in e.rows : r.str = t.str /\ r # t => ~r.tx \/ ~t.tx
    BY <1>7, <1>9 DEF DatabaseSound
  <1>12. "set" \notin e.feature => e.rows = {}
    BY <1>2 DEF DatabaseSound
  <1>13. "column" \notin e.feature => \A o \in DOMAIN e.val : ~e.val[o].sure
    BY <1>1, <1>2, <1>4 DEF DatabaseSound
  <1>14. DatabaseSound(e)
    BY <1>6, <1>10, <1>11, <1>12, <1>13 DEF DatabaseSound
  <1>15. Change(p, e)
    BY <1>9, <1>14 DEF Change
  <1>16. s.at = "column" /\ s.op # "add" => "column" \notin e.feature
    BY <1>2
  <1> QED  BY <1>9, <1>15, <1>16 DEF e

\* What p sees is sound.
LEMMA ViewSound ==
    ASSUME StringSetsInv, NEW p \in Procs
    PROVE  DatabaseSound(view(p)) /\ DatabaseOK(view(p)) /\ IsFiniteSet(view(p).rows)
  BY DEF StringSetsInv, view, DatabaseSound, RowsSound

\* Every step is of one of the kinds, and leaves the state of others alone.
LEMMA StepKinds ==
    ASSUME StringSetsInv, NEW p \in Procs,
           Program(p) \/ EndTransaction(p) \/ Step(p) \/ commandFails(p) \/ crash(p)
    PROVE  Frame(p) /\ Kind(p)
  <1>0. /\ TypeOK /\ ProcessesOK /\ LocksSound /\ DatabaseSound(view(p))
        /\ CacheSound(p) /\ LookedUp(p) /\ Altering(p)
    BY ViewSound DEF StringSetsInv, TypeOK, ProcessInv
  <1>p. stmt[p].at \notin {"idCommit", "commit"} => lock[p] # "pending"
    BY <1>0 DEF LocksSound
  <1>f. ASSUME tx' = tx \/ (\E t : tx' = [tx EXCEPT ![p] = t]),
               cache' = cache \/ (\E c : cache' = [cache EXCEPT ![p] = c]),
               stmt' = stmt \/ (\E s : stmt' = [stmt EXCEPT ![p] = s]),
               Watch({}) \/ Watch({p})
        PROVE  Frame(p)
    <2>1. \A q \in Others(p) : tx'[q] = tx[q] /\ cache'[q] = cache[q] /\ stmt'[q] = stmt[q]
      BY <1>0, <1>f DEF ProcessesOK, Others
    <2> QED  BY <1>f, <2>1 DEF Frame
  <1>b. beginTransaction(p) => /\ tx'[p] # "no"
                               /\ \E t : tx' = [tx EXCEPT ![p] = t]
    BY <1>0 DEF beginTransaction, ProcessesOK
  <1>t. ASSUME NEW s, Start(p, s)
        PROVE  (\E t : stmt' = [stmt EXCEPT ![p] = t]) /\ lock[p] # "pending"
    BY <1>0, <1>t, StatementOfStart DEF Start
  <1>g. ASSUME NEW s, GoTo(p, s)
        PROVE  \E t : stmt' = [stmt EXCEPT ![p] = t]
    BY <1>g DEF GoTo
  <1>k. Known(p) => \E c : cache' = [cache EXCEPT ![p] = c]
    BY DEF Known
  <1>c. Commit(p) \/ Rollback(p) => \E t : tx' = [tx EXCEPT ![p] = t]
    BY DEF Commit, Rollback
  <1>1. ASSUME NEW s \in Strings, CreateObject(p, s) PROVE Frame(p) /\ Kind(p)
    BY <1>1, <1>f, <1>b, <1>t, <1>k DEF CreateObject, Kind, Quiet
  <1>2. ASSUME NEW o, NEW s \in Strings, UpdateObjects(p, o, s) PROVE Frame(p) /\ Kind(p)
    BY <1>2, <1>f, <1>t, <1>k DEF UpdateObjects, Kind, Reads
  <1>3. ASSUME NEW s \in Strings, QueryEqual(p, s) PROVE Frame(p) /\ Kind(p)
    BY <1>3, <1>f, <1>t, <1>k DEF QueryEqual, Kind, Quiet
  <1>4. CASE GetFeatures(p)
    BY <1>4, <1>f, <1>t, <1>k DEF GetFeatures, Kind, Quiet
  <1>5. ASSUME NEW op, UpdateObjectType(p, op) PROVE Frame(p) /\ Kind(p)
    <2>1. \E c : cache' = [cache EXCEPT ![p] = c]
      BY <1>5 DEF UpdateObjectType
    <2> QED  BY <1>5, <2>1, <1>f, <1>b, <1>t DEF UpdateObjectType, Kind, Quiet
  <1>6. CASE UseDatabase(p)
    BY <1>6, <1>f, <1>t DEF UseDatabase, Kind, Quiet
  <1>7. CASE BeginTransaction(p)
    BY <1>7, <1>f, <1>t DEF BeginTransaction, Kind, Quiet
  <1>8. CASE CommitTransaction(p)
    BY <1>0, <1>8, <1>f, <1>g, StatementOfStart DEF CommitTransaction, Kind, Quiet
  <1>9. CASE AbortTransaction(p)
    BY <1>9, <1>f, <1>c DEF AbortTransaction, Kind
  <1>10. CASE getNextID(p)
    <2> DEFINE db == [view(p) EXCEPT !.next = @ + 1]
    <2>1. Change(p, db)
      BY <1>0, NextIdChange
    <2>2. /\ Execute(p, db) /\ UNCHANGED <<tx, cache>> /\ Watch({}) /\ stmt[p].at = "id"
          /\ \E s : GoTo(p, s)
      BY <1>10 DEF getNextID
    <2> HIDE DEF db
    <2> QED  BY <2>1, <2>2, <1>p, <1>f, <1>g DEF Kind, Writes
  <1>11. CASE findID_DInSetCacheFromString(p)
    <2>1. /\ \E s : GoTo(p, s)
          /\ \E c : cache' = [cache EXCEPT ![p] = c]
          /\ beginTransaction(p) \/ tx' = tx
          /\ UNCHANGED <<file, work, lock>> /\ Watch({}) /\ stmt[p].at = "lookup"
      BY <1>11 DEF findID_DInSetCacheFromString
    <2> QED  BY <2>1, <1>p, <1>f, <1>g, <1>b DEF Kind, Quiet
  <1>12. CASE selectString(p)
    <2>1. /\ \E s : GoTo(p, s)
          /\ \E c : cache' = [cache EXCEPT ![p] = c]
          /\ Select(p) /\ tx' = tx /\ Watch({}) /\ stmt[p].at = "select"
      BY <1>12 DEF selectString
    <2> QED  BY <2>1, <1>p, <1>f, <1>g DEF Kind, Reads
  <1>13. CASE addStringToStringSetTable(p)
    <2> DEFINE r == [id |-> newRowid(view(p).rows), str |-> stmt[p].str, tx |-> tx[p] # "no"]
               db == [view(p) EXCEPT !.rows = @ \cup {r}]
    <2>1. /\ \E s : GoTo(p, s)
          /\ \E c : cache' = [cache EXCEPT ![p] = c]
          /\ Execute(p, db) /\ tx' = tx /\ Watch({}) /\ stmt[p].at = "insert"
          /\ "set" \in view(p).feature
      BY <1>13 DEF addStringToStringSetTable
    <2>2. stmt[p].str \in Strings /\ (tx[p] # "no" => idsOf(view(p).rows, stmt[p].str) = {})
      BY <1>0, <2>1 DEF ProcessesOK, AboutString, LookedUp
    <2>3. Change(p, db)
      BY <1>0, <2>1, <2>2, NewRowChange
    <2> HIDE DEF db
    <2> QED  BY <2>1, <2>3, <1>p, <1>f, <1>g DEF Kind, Writes
  <1>14. CASE storeValue(p)
    <2> DEFINE s == stmt[p]
               v == [id |-> s.id, str |-> s.str, by |-> p, sure |-> ~undone[p]]
               val == view(p).val
               same == [view(p) EXCEPT !.val = val]
               db == [view(p) EXCEPT
                  !.val = [o \in DOMAIN val \cup {s.obj} |-> IF o = s.obj THEN v ELSE val[o]]]
    <2>1. /\ \E t : GoTo(p, t)
          /\ Execute(p, db) \/ Execute(p, same)
          /\ UNCHANGED <<tx, cache>> /\ Watch({}) /\ s.at = "store"
          /\ "column" \in view(p).feature
      BY <1>14 DEF storeValue
    <2>2. v \in Value /\ v.by = p /\ s.obj \in Nat
      BY <1>0 DEF ProcessesOK, StatementType, Value
    <2>3. v.sure => stored(v, view(p).rows)
      BY <1>0, <2>1 DEF CacheSound, stored
    <2>4. Change(p, same)
      BY <1>0, NoChange
    <2> HIDE DEF v
    <2>5. Change(p, db)
      BY <1>0, <2>1, <2>2, <2>3, NewValueChange
    <2> HIDE DEF db, same
    <2> QED  BY <2>1, <2>4, <2>5, <1>p, <1>f, <1>g DEF Kind, Writes
  <1>15. CASE loadStringSetIntoCache(p)
    <2>1. /\ \E s : GoTo(p, s)
          /\ \E c : cache' = [cache EXCEPT ![p] = c]
          /\ Select(p) /\ tx' = tx /\ Watch({}) /\ stmt[p].at = "load"
      BY <1>15 DEF loadStringSetIntoCache
    <2> QED  BY <2>1, <1>p, <1>f, <1>g DEF Kind, Reads
  <1>16. CASE alterType(p)
    <2> DEFINE db == altered(p, view(p), stmt[p])
    <2>1. /\ \E s : GoTo(p, s)
          /\ \E c : cache' = [cache EXCEPT ![p] = c]
          /\ Execute(p, db) /\ tx' = tx /\ Watch({})
          /\ stmt[p].at \in Parts /\ ~partRefused(p)
      BY <1>16 DEF alterType
    <2>2. Change(p, db)
      BY <1>0, <2>1, PartChange
    <2>3. stmt[p].at \notin {"idCommit", "commit"}
      BY <2>1 DEF Parts
    <2> HIDE DEF db
    <2> QED  BY <2>1, <2>2, <2>3, <1>p, <1>f, <1>g DEF Kind, Writes
  <1>17. CASE commitStep(p)
    <2>1. /\ \E s : GoTo(p, s)
          /\ \E c : cache' = [cache EXCEPT ![p] = c]
          /\ Commit(p) /\ (Watch({}) \/ Watch({p}))
      BY <1>17 DEF commitStep
    <2> QED  BY <2>1, <1>c, <1>f, <1>g DEF Kind
  <1>18. CASE commitBusy(p)
    BY <1>18, <1>f DEF commitBusy, Kind, Waits
  <1>19. CASE returnFalse(p) /\ lock[p] # "pending"
    BY <1>19, <1>c, <1>f, <1>g DEF returnFalse, Kind, Quiet
  <1>20. CASE featureMissing(p) \/ commandFails(p)
    BY <1>20, <1>19, <1>p DEF featureMissing, commandFails, Parts
  <1>21. CASE crash(p)
    <2>1. /\ Rollback(p) /\ Watch({p})
          /\ \E c : cache' = [cache EXCEPT ![p] = c]
          /\ \E s : stmt' = [stmt EXCEPT ![p] = s]
      BY <1>21 DEF crash
    <2> QED  BY <2>1, <1>c, <1>f DEF Kind
  <1> QED  BY <1>1, <1>2, <1>3, <1>4, <1>5, <1>6, <1>7, <1>8, <1>9, <1>10, <1>11,
              <1>12, <1>13, <1>14, <1>15, <1>16, <1>17, <1>18, <1>20, <1>21
           DEF Program, EndTransaction, Step

\* The history variable: if a process's cache can still be trusted, and it was
\* not emptied, all of it is still stored.
LEMMA WatchKeeps ==
    ASSUME NEW q \in Procs, NEW E, Watch(E), q \notin E,
           ~undone'[q], CacheSound(q)
    PROVE  /\ ~undone[q]
           /\ cache[q].s2id \subseteq cache[q].id2s
           /\ \A e \in cache[q].id2s : stored(e, view(q).rows) /\ stored(e, view(q)'.rows)
           /\ cache[q].complete /\ tx[q] # "no" /\ tx'[q] = "no" =>
                 view(q)'.rows \subseteq view(q).rows
  <1>1. /\ ~undone[q]
        /\ \A e \in cache[q].id2s : stored(e, view(q).rows) => stored(e, view(q)'.rows)
        /\ cache[q].complete /\ tx[q] # "no" /\ tx'[q] = "no" =>
              view(q)'.rows \subseteq view(q).rows
    BY DEF Watch
  <1> QED  BY <1>1 DEF CacheSound

\* What every kind of step does to the two databases and to another process: it
\* sees what it saw, or, having no lock, a database that is now in the file and in
\* which its own values are those it saw.
LEMMA KindDatabases ==
    ASSUME StringSetsInv, NEW p \in Procs, Kind(p)
    PROVE  /\ DatabaseSound(file)' /\ DatabaseSound(work)'
           /\ \A q \in Others(p) :
                 /\ lock'[q] = lock[q]
                 /\ \/ view(q)' = view(q) /\ file' = file
                    \/ /\ lock[q] = "none" /\ view(q)' = file'
                       /\ \A o \in DOMAIN file'.val : file'.val[o].by = q =>
                             o \in DOMAIN file.val /\ file'.val[o] = file.val[o]
  <1>0. /\ TypeOK /\ ProcessesOK /\ LocksSound /\ DatabaseSound(file) /\ DatabaseSound(work)
        /\ DatabaseSound(view(p)) /\ OwnersWrite
    BY ViewSound DEF StringSetsInv, TypeOK
  <1>p. ASSUME NEW d, DatabaseSound(d), file' = d PROVE DatabaseSound(file)'
    BY <1>p DEF DatabaseSound, DatabaseOK, RowsSound, stored
  <1>w. ASSUME NEW d, DatabaseSound(d), work' = d PROVE DatabaseSound(work)'
    BY <1>w DEF DatabaseSound, DatabaseOK, RowsSound, stored
  <1>1. CASE Quiet(p)
    <2>1. \A q \in Others(p) : view(q)' = view(q) /\ lock'[q] = lock[q]
      BY <1>1 DEF Quiet, view
    <2> QED  BY <1>0, <1>p, <1>w, <1>1, <2>1 DEF Quiet
  <1>2. CASE Reads(p)
    <2>1. \A q \in Others(p) : view(q)' = view(q) /\ lock'[q] = lock[q]
      BY <1>0, <1>2, SelectViews DEF Reads, Select, Others, ProcessesOK
    <2>2. file' = file /\ work' = work
      BY <1>2 DEF Reads, Select
    <2> QED  BY <1>0, <1>p, <1>w, <2>1, <2>2
  <1>3. CASE Waits(p)
    <2>1. \A q \in Others(p) : view(q)' = view(q) /\ lock'[q] = lock[q]
      BY <1>0, <1>3 DEF Waits, view, Others, ProcessesOK
    <2>2. file' = file /\ work' = work
      BY <1>3 DEF Waits
    <2> QED  BY <1>0, <1>p, <1>w, <2>1, <2>2
  <1>4. CASE Commit(p)
    <2>1. /\ file' = view(p) /\ work' = work
          /\ \A q \in Others(p) : /\ lock'[q] = lock[q]
                                  /\ \/ view(q)' = view(q) /\ file' = file
                                     \/ /\ view(q)' = view(p) /\ view(p) = work
                                        /\ lock[q] = "none"
      BY <1>0, <1>4, CommitViews
    <2>2. ASSUME NEW q \in Others(p), lock[q] = "none", file' = work
          PROVE  \A o \in DOMAIN file'.val : file'.val[o].by = q =>
                    o \in DOMAIN file.val /\ file'.val[o] = file.val[o]
      BY <1>0, <2>2 DEF OwnersWrite, Others, Writing
    <2> QED  BY <1>0, <1>p, <1>w, <2>1, <2>2
  <1>5. CASE Rollback(p)
    <2>1. /\ file' = file /\ (work' = file \/ work' = work)
          /\ \A q \in Others(p) : lock'[q] = lock[q] /\ view(q)' = view(q)
      BY <1>0, <1>5, RollbackViews
    <2> QED  BY <1>0, <1>p, <1>w, <2>1
  <1>6. ASSUME NEW db, Writes(p, db), Change(p, db)
        PROVE  /\ DatabaseSound(file)' /\ DatabaseSound(work)'
               /\ \A q \in Others(p) :
                     /\ lock'[q] = lock[q]
                     /\ \/ view(q)' = view(q) /\ file' = file
                        \/ /\ lock[q] = "none" /\ view(q)' = file'
                           /\ \A o \in DOMAIN file'.val : file'.val[o].by = q =>
                                 o \in DOMAIN file.val /\ file'.val[o] = file.val[o]
    <2>1. /\ work' = db /\ (file' = file \/ file' = db)
          /\ \A q \in Others(p) : /\ lock'[q] = lock[q]
                                  /\ \/ view(q)' = view(q) /\ file' = file
                                     \/ view(q)' = db /\ file' = db /\ lock[q] = "none"
      BY <1>0, <1>6, ExecuteViews DEF Writes
    <2>2. DatabaseSound(file)' /\ DatabaseSound(work)'
      BY <1>0, <1>p, <1>w, <1>6, <2>1 DEF Change
    <2>3. CASE tx[p] = "no"
      <3>1. view(p) = file
        BY <1>0, <2>3 DEF LocksSound, view, Writing
      <3>2. ASSUME NEW q \in Others(p)
            PROVE  \A o \in DOMAIN db.val : db.val[o].by = q =>
                      o \in DOMAIN file.val /\ db.val[o] = file.val[o]
        BY <1>6, <3>1 DEF Change, Others
      <3> QED  BY <2>1, <2>2, <3>2
    <2>4. CASE tx[p] # "no"
      <3>1. file' = file /\ \A q \in Others(p) : lock[q] \notin Writing /\ lock'[q] = lock[q]
        BY <1>0, <1>6, <2>4 DEF Writes, Execute, Others, ProcessesOK
      <3>2. \A q \in Others(p) : view(q)' = view(q)
        BY <3>1 DEF view
      <3> QED  BY <2>2, <3>1, <3>2
    <2> QED  BY <2>3, <2>4
  <1> QED  BY <1>1, <1>2, <1>3, <1>4, <1>5, <1>6 DEF Kind

\* The locks stay sound.
LEMMA KindLocks ==
    ASSUME StringSetsInv, NEW p \in Procs, Kind(p), Frame(p), ProcessesOK'
    PROVE  LocksSound'
  <1>0. TypeOK /\ ProcessesOK /\ LocksSound
    BY DEF StringSetsInv, TypeOK
  <1>1. CASE Quiet(p)
    BY <1>0, <1>1 DEF Quiet, LocksSound, Frame, Others
  <1>2. CASE Reads(p)
    BY <1>0, <1>2 DEF Reads, Select, LocksSound, Frame, Others, Writing, ProcessesOK
  <1>3. CASE Waits(p)
    BY <1>0, <1>3 DEF Waits, LocksSound, Frame, Others, Writing, ProcessesOK
  <1>4. CASE Commit(p)
    BY <1>0, <1>4 DEF Commit, LocksSound, Frame, Others, Writing, ProcessesOK, view
  <1>5. CASE Rollback(p)
    BY <1>0, <1>5 DEF Rollback, LocksSound, Frame, Others, Writing, ProcessesOK
  <1>6. ASSUME NEW db, Writes(p, db) PROVE LocksSound'
    BY <1>0, <1>6 DEF Writes, Execute, LocksSound, Frame, Others, Writing, ProcessesOK
  <1> QED  BY <1>1, <1>2, <1>3, <1>4, <1>5, <1>6 DEF Kind

\* Only the writer's values are not in the file.
LEMMA KindOwners ==
    ASSUME StringSetsInv, NEW p \in Procs, Kind(p), Frame(p), ProcessesOK'
    PROVE  OwnersWrite'
  <1>0. TypeOK /\ ProcessesOK /\ LocksSound /\ OwnersWrite
    BY DEF StringSetsInv, TypeOK
  <1>1. CASE Quiet(p)
    BY <1>0, <1>1 DEF Quiet, OwnersWrite
  <1>2. CASE Reads(p)
    BY <1>0, <1>2 DEF Reads, Select, OwnersWrite, Writing, ProcessesOK
  <1>3. CASE Waits(p)
    BY <1>0, <1>3 DEF Waits, OwnersWrite, Writing, ProcessesOK
  <1>4. CASE Commit(p)
    BY <1>0, <1>4 DEF Commit, OwnersWrite, Writing, ProcessesOK, view
  <1>5. CASE Rollback(p)
    BY <1>0, <1>5 DEF Rollback, OwnersWrite, Writing, ProcessesOK
  <1>6. ASSUME NEW db, Writes(p, db), Change(p, db) PROVE OwnersWrite'
    <2>1. CASE tx[p] = "no"
      BY <1>6, <2>1 DEF Writes, Execute, OwnersWrite
    <2>2. CASE tx[p] # "no"
      <3>1. /\ \A q \in Others(p) : lock[q] \notin Writing
            /\ lock'[p] \in Writing /\ work' = db /\ file' = file
        BY <1>0, <1>6, <2>2 DEF Writes, Execute, Writing, ProcessesOK
      <3>2. view(p) = work
        BY <1>0, <3>1 DEF LocksSound, view, Others
      <3>3. ASSUME NEW q \in Others(p), NEW o \in DOMAIN db.val, db.val[o].by = q
            PROVE  o \in DOMAIN file.val /\ file.val[o] = db.val[o]
        BY <1>0, <1>6, <3>1, <3>2, <3>3 DEF Change, OwnersWrite, Others
      <3> QED  BY <3>1, <3>3 DEF OwnersWrite, Others
    <2> QED  BY <2>1, <2>2
  <1> QED  BY <1>1, <1>2, <1>3, <1>4, <1>5, <1>6 DEF Kind

\* What p does leaves the other processes' part of the invariant as it is.
LEMMA OtherProcesses ==
    ASSUME StringSetsInv, NEW p \in Procs, Kind(p), Frame(p), NEW q \in Others(p)
    PROVE  ProcessInv(q)'
  <1>0. q \in Procs /\ q # p /\ ProcessInv(q)
    BY DEF StringSetsInv, Others
  <1>1. /\ tx'[q] = tx[q] /\ cache'[q] = cache[q] /\ stmt'[q] = stmt[q]
        /\ lock'[q] = lock[q]
        /\ \/ view(q)' = view(q) /\ file' = file
           \/ /\ lock[q] = "none" /\ view(q)' = file'
              /\ \A o \in DOMAIN file'.val : file'.val[o].by = q =>
                    o \in DOMAIN file.val /\ file'.val[o] = file.val[o]
    BY KindDatabases DEF Frame
  <1>2. ASSUME ~undone'[q]
        PROVE  /\ ~undone[q]
               /\ cache[q].s2id \subseteq cache[q].id2s
               /\ \A e \in cache[q].id2s : stored(e, view(q)'.rows)
    BY <1>0, <1>2, WatchKeeps DEF Frame, ProcessInv
  <1>3. CacheSound(q)'
    BY <1>0, <1>1, <1>2 DEF CacheSound, ProcessInv, stored
  <1>4. OwnWritesCached(q)'
    <2>1. SUFFICES ASSUME ~undone'[q], cache'[q].complete
                   PROVE  /\ \A o \in DOMAIN view(q)'.val :
                                OwnedBy(view(q)'.val[o], q) => InCache(view(q)'.val[o], cache'[q])
                          /\ file'.rows \subseteq view(q)'.rows =>
                                \A o \in DOMAIN file'.val :
                                   OwnedBy(file'.val[o], q) => InCache(file'.val[o], cache'[q])
      BY DEF OwnWritesCached, OwnedBy, InCache
    <2>2. OwnWritesCached(q) /\ ~undone[q] /\ cache[q].complete
      BY <1>0, <1>1, <1>2, <2>1 DEF ProcessInv
    <2>3. CASE view(q)' = view(q) /\ file' = file
      BY <1>1, <2>2, <2>3 DEF OwnWritesCached, InCache
    <2>4. CASE /\ lock[q] = "none" /\ view(q)' = file'
               /\ \A o \in DOMAIN file'.val : file'.val[o].by = q =>
                     o \in DOMAIN file.val /\ file'.val[o] = file.val[o]
      <3>1. view(q) = file
        BY <2>4 DEF view, Writing
      <3> QED  BY <1>1, <2>2, <2>4, <3>1 DEF OwnWritesCached, OwnedBy, InCache
    <2> QED  BY <1>1, <2>3, <2>4
  <1>5. LookedUp(q)'
    BY <1>0, <1>1 DEF LookedUp, ProcessInv, idsOf
  <1>6. Altering(q)'
    BY <1>0, <1>1 DEF Altering, ProcessInv, Writing
  <1> QED  BY <1>3, <1>4, <1>5, <1>6 DEF ProcessInv

-----------------------------------------------------------------------------
\* What a step does to the process that takes it

SameCache(p) == /\ cache'[p].id2s = cache[p].id2s
                /\ cache'[p].s2id = cache[p].s2id
                /\ cache'[p].complete = cache[p].complete

\* The values that p gave are in its cache, in the state after a step.
OwnValuesCached(p, db, c) ==
    \A o \in DOMAIN db.val : OwnedBy(db.val[o], p) => InCache(db.val[o], c)

LEMMA OwnWritesPrimed ==
    ASSUME NEW p \in Procs,
           ~undone'[p] /\ cache'[p].complete =>
              /\ OwnValuesCached(p, view(p)', cache'[p])
              /\ file'.rows \subseteq view(p)'.rows => OwnValuesCached(p, file', cache'[p])
    PROVE  OwnWritesCached(p)'
  BY DEF OwnWritesCached, OwnValuesCached, OwnedBy, InCache

LEMMA OwnWritesNow ==
    ASSUME NEW p \in Procs, OwnWritesCached(p), ~undone[p], cache[p].complete
    PROVE  /\ OwnValuesCached(p, view(p), cache[p])
           /\ file.rows \subseteq view(p).rows => OwnValuesCached(p, file, cache[p])
  BY DEF OwnWritesCached, OwnValuesCached

LEMMA CacheSoundPrimed ==
    ASSUME NEW p \in Procs,
           ~undone'[p] =>
              /\ cache'[p].s2id \subseteq cache'[p].id2s
              /\ \A e \in cache'[p].id2s : stored(e, view(p)'.rows)
              /\ stmt'[p].at = "store" =>
                    [id |-> stmt'[p].id, str |-> stmt'[p].str] \in cache'[p].id2s
    PROVE  CacheSound(p)'
  BY DEF CacheSound, stored

\* A step that changes neither p's string set cache nor what p sees, and is not
\* one that finds or misses a string.
LEMMA NothingNew ==
    ASSUME NEW p \in Procs, ProcessInv(p), SameCache(p), Watch({}),
           stmt'[p].at \notin {"store", "insert", "row", "set"},
           stmt'[p].at = "column" => tx'[p] # "no",
           view(p)' = view(p), file' = file \/ file' = view(p)
    PROVE  ProcessInv(p)'
  <1>1. ASSUME ~undone'[p]
        PROVE  /\ ~undone[p]
               /\ cache[p].s2id \subseteq cache[p].id2s
               /\ \A e \in cache[p].id2s : stored(e, view(p)'.rows)
    BY <1>1, WatchKeeps DEF ProcessInv
  <1>2. CacheSound(p)'
    BY <1>1, CacheSoundPrimed DEF SameCache
  <1>3. ASSUME ~undone'[p], cache'[p].complete
        PROVE  /\ OwnValuesCached(p, view(p)', cache'[p])
               /\ file'.rows \subseteq view(p)'.rows => OwnValuesCached(p, file', cache'[p])
    <2>1. /\ OwnValuesCached(p, view(p), cache[p])
          /\ file.rows \subseteq view(p).rows => OwnValuesCached(p, file, cache[p])
      BY <1>1, <1>3, OwnWritesNow DEF ProcessInv, SameCache
    <2> QED  BY <2>1 DEF OwnValuesCached, InCache, SameCache
  <1>4. OwnWritesCached(p)'
    BY <1>3, OwnWritesPrimed
  <1>5. LookedUp(p)' /\ Altering(p)'
    BY DEF LookedUp, Altering, Parts
  <1> QED  BY <1>2, <1>4, <1>5 DEF ProcessInv

\* A rollback that leaves p's cache alone.
LEMMA RolledBack ==
    ASSUME StringSetsInv, NEW p \in Procs, ProcessInv(p), cache' = cache, Watch({}),
           stmt'[p].at \notin {"store", "insert"} \cup Parts, Rollback(p)
    PROVE  ProcessInv(p)'
  <1>0. TypeOK /\ ProcessesOK /\ LocksSound
    BY DEF StringSetsInv, TypeOK
  <1>1. view(p)' = file /\ file' = file /\ tx'[p] = "no"
    BY <1>0, RollbackViews DEF Rollback, ProcessesOK
  <1>2. ASSUME ~undone'[p]
        PROVE  /\ ~undone[p]
               /\ cache[p].s2id \subseteq cache[p].id2s
               /\ \A e \in cache[p].id2s : stored(e, view(p)'.rows)
               /\ cache[p].complete /\ tx[p] # "no" => file.rows \subseteq view(p).rows
    BY <1>1, <1>2, WatchKeeps DEF ProcessInv
  <1>3. CacheSound(p)'
    BY <1>2, CacheSoundPrimed
  <1>4. ASSUME ~undone'[p], cache'[p].complete
        PROVE  OwnValuesCached(p, file, cache[p])
    <2>1. tx[p] = "no" => view(p) = file
      BY <1>0 DEF LocksSound, view, Writing
    <2> QED  BY <1>2, <1>4, <2>1, OwnWritesNow DEF ProcessInv
  <1>5. OwnWritesCached(p)'
    BY <1>1, <1>4, OwnWritesPrimed
  <1>6. LookedUp(p)' /\ Altering(p)'
    BY DEF LookedUp, Altering, Parts
  <1> QED  BY <1>3, <1>5, <1>6 DEF ProcessInv

\* A pair that is stored goes to the cache.
LEMMA PairAdded ==
    ASSUME NEW c, c.id2s \subseteq Pair, c.s2id \subseteq c.id2s, NEW rows, NEW i, NEW s,
           \A e \in c.id2s : stored(e, rows),
           \A r, t \in rows : r.id = t.id => r = t,
           stored([id |-> i, str |-> s], rows), c \in CacheType
    PROVE  LET d == addPair(c, i, s)
           IN  /\ d.s2id \subseteq d.id2s
               /\ \A e \in d.id2s : stored(e, rows)
               /\ [id |-> i, str |-> s] \in d.id2s
               /\ ~d.complete
  <1> DEFINE x == [id |-> i, str |-> s]
             d == addPair(c, i, s)
  <1>1. x.id = i /\ x.str = s
    OBVIOUS
  <1> HIDE DEF x
  <1>2. /\ d.id2s = {e \in c.id2s : e.id # i} \cup {x}
        /\ d.s2id \subseteq {e \in c.s2id : e.str # s} \cup {x} \/ d.s2id = c.s2id
        /\ d.complete = FALSE
    BY DEF addPair, CacheType, x
  <1>3. \A e \in c.id2s : e.id = i => e = x
    <2>1. SUFFICES ASSUME NEW e \in c.id2s, e.id = i PROVE e = x
      OBVIOUS
    <2>2. e.str = s
      BY <2>1 DEF stored
    <2>3. e = [id |-> e.id, str |-> e.str]
      BY DEF Pair
    <2> QED  BY <2>1, <2>2, <2>3 DEF x
  <1>4. stored(x, rows)
    BY DEF x
  <1> QED  BY <1>2, <1>3, <1>4 DEF x

\* The rows of the string set go to the cache.
LEMMA RowsLoaded ==
    ASSUME NEW c \in CacheType, NEW rows, rows \subseteq Row, c.s2id \subseteq c.id2s,
           \A e \in c.id2s : stored(e, rows)
    PROVE  LET d == loadRows(c, rows)
           IN  /\ d.s2id \subseteq d.id2s
               /\ \A e \in d.id2s : stored(e, rows)
               /\ \A r \in rows : [id |-> r.id, str |-> r.str] \in d.id2s
  <1> DEFINE new == {[id |-> r.id, str |-> r.str] : r \in rows}
             last == {e \in new : \A f \in new : f.str = e.str => f.id <= e.id}
             d == loadRows(c, rows)
  <1>1. \A e \in new : stored(e, rows)
    BY DEF stored
  <1>2. \A e \in c.id2s : e \in new
    <2>1. SUFFICES ASSUME NEW e \in c.id2s PROVE e \in new
      OBVIOUS
    <2>2. PICK r \in rows : r.id = e.id /\ r.str = e.str
      BY DEF stored
    <2>3. e = [id |-> e.id, str |-> e.str]
      BY DEF CacheType, Pair
    <2> QED  BY <2>2, <2>3
  <1>3. \A r \in rows : [id |-> r.id, str |-> r.str] \in new
    OBVIOUS
  <1>4. last \subseteq new
    OBVIOUS
  <1>5. /\ d.id2s = {e \in c.id2s : \A f \in new : f.id # e.id} \cup new
        /\ d.s2id \subseteq {e \in c.s2id : \A f \in last : f.str # e.str} \cup last
           \/ d.s2id = c.s2id
    BY DEF loadRows, CacheType
  <1> HIDE DEF new, last, d
  <1>6. d.id2s = new /\ d.s2id \subseteq new
    BY <1>2, <1>4, <1>5
  <1> QED  BY <1>1, <1>3, <1>6 DEF d

\* The map from strings to ids is built from the other one.
LEMMA MapFilled ==
    ASSUME NEW c \in CacheType, c.s2id \subseteq c.id2s
    PROVE  LET d == fillStringToSetIDDCache(c)
           IN  /\ d.s2id \subseteq d.id2s /\ d.id2s = c.id2s /\ d.complete = c.complete
               /\ \A s, i : i \in getID_DFromString(c, s) =>
                     [id |-> i, str |-> s] \in c.id2s
  <1> DEFINE d == fillStringToSetIDDCache(c)
  <1>1. d.s2id \subseteq d.id2s /\ d.id2s = c.id2s /\ d.complete = c.complete
    BY DEF fillStringToSetIDDCache, CacheType
  <1>2. ASSUME NEW s, NEW i, i \in getID_DFromString(c, s)
        PROVE  [id |-> i, str |-> s] \in c.id2s
    <2>1. PICK e \in d.s2id : e.str = s /\ e.id = i
      BY <1>2 DEF getID_DFromString
    <2>2. e \in c.id2s /\ e \in Pair
      BY <1>1, <2>1 DEF CacheType
    <2>3. e = [id |-> i, str |-> s]
      BY <2>1, <2>2 DEF Pair
    <2> QED  BY <2>2, <2>3
  <1> QED  BY <1>1, <1>2

\* A command of p that keeps the rows; what it changes of the values is in p's
\* cache.
LEMMA ValuesKept ==
    ASSUME NEW p \in Procs, ProcessInv(p), cache' = cache, Watch({}),
           stmt'[p].at \notin {"store", "insert"} \cup Parts, NEW db,
           view(p)' = db, file' = file \/ file' = db,
           db.rows = view(p).rows,
           \/ db.val = view(p).val
           \/ ~undone[p] => \A o \in DOMAIN db.val :
                 \/ InCache(db.val[o], cache[p])
                 \/ o \in DOMAIN view(p).val /\ db.val[o] = view(p).val[o]
    PROVE  ProcessInv(p)'
  <1>1. ASSUME ~undone'[p]
        PROVE  /\ ~undone[p]
               /\ cache[p].s2id \subseteq cache[p].id2s
               /\ \A e \in cache[p].id2s : stored(e, view(p)'.rows)
    BY <1>1, WatchKeeps DEF ProcessInv
  <1>2. CacheSound(p)'
    BY <1>1, CacheSoundPrimed
  <1>3. ASSUME ~undone'[p], cache'[p].complete
        PROVE  /\ OwnValuesCached(p, view(p)', cache'[p])
               /\ file'.rows \subseteq view(p)'.rows => OwnValuesCached(p, file', cache'[p])
    <2>1. /\ OwnValuesCached(p, view(p), cache[p])
          /\ file.rows \subseteq view(p).rows => OwnValuesCached(p, file, cache[p])
      BY <1>1, <1>3, OwnWritesNow DEF ProcessInv
    <2>2. OwnValuesCached(p, db, cache[p])
      BY <1>1, <1>3, <2>1 DEF OwnValuesCached
    <2> QED  BY <2>1, <2>2
  <1>4. OwnWritesCached(p)'
    BY <1>3, OwnWritesPrimed
  <1>5. LookedUp(p)' /\ Altering(p)'
    BY DEF LookedUp, Altering, Parts
  <1> QED  BY <1>2, <1>4, <1>5 DEF ProcessInv

\* Where the next step of p's statement is.
LEMMA Goes ==
    ASSUME ProcessesOK, NEW p \in Procs, NEW s, GoTo(p, s)
    PROVE  /\ s.at = "end" => stmt'[p].at = "idle"
           /\ s.at # "end" => stmt'[p] = s
  <1>1. NoStatement.at = "idle"
    BY DEF NoStatement
  <1> QED  BY <1>1 DEF GoTo, ProcessesOK

\* A step of a process keeps its own part of the invariant.
LEMMA OwnProcess ==
    ASSUME StringSetsInv, NEW p \in Procs,
           Program(p) \/ EndTransaction(p) \/ Step(p) \/ commandFails(p) \/ crash(p)
    PROVE  ProcessInv(p)'
  <1>0. /\ TypeOK /\ ProcessesOK /\ LocksSound /\ ProcessInv(p) /\ DatabaseSound(file)
        /\ DatabaseSound(view(p)) /\ cache[p] \in CacheType /\ stmt[p] \in StatementType
    BY ViewSound DEF StringSetsInv, TypeOK, ProcessesOK
  <1>v. UNCHANGED <<file, work, lock>> => view(p)' = view(p)
    BY DEF view
  <1>k. ASSUME NEW b, cache' = [cache EXCEPT ![p].known = b] PROVE SameCache(p)
    BY <1>0, <1>k DEF SameCache, ProcessesOK, CacheType
  <1>u. cache' = cache => SameCache(p)
    BY DEF SameCache
  <1>c. ASSUME NEW c, cache' = [cache EXCEPT ![p] = c] PROVE cache'[p] = c
    BY <1>0, <1>c DEF ProcessesOK
  <1>t. ASSUME NEW s, Start(p, s) PROVE stmt'[p] = s
    BY <1>0, <1>t DEF Start, ProcessesOK
  <1>1. ASSUME NEW s \in Strings, CreateObject(p, s) PROVE ProcessInv(p)'
    <2>1. stmt'[p].at = "id"
      BY <1>1, <1>t DEF CreateObject, NoStatement
    <2> QED  BY <1>0, <1>1, <1>v, <1>k, <2>1, NothingNew DEF CreateObject, Known
  <1>2. ASSUME NEW o, NEW s \in Strings, UpdateObjects(p, o, s) PROVE ProcessInv(p)'
    <2>1. stmt'[p].at = "lookup"
      BY <1>2, <1>t DEF UpdateObjects, NoStatement
    <2>2. view(p)' = view(p) /\ file' = file
      BY <1>0, <1>2, SelectViews DEF UpdateObjects, Select
    <2> QED  BY <1>0, <1>2, <1>k, <2>1, <2>2, NothingNew DEF UpdateObjects, Known
  <1>3. ASSUME NEW s \in Strings, QueryEqual(p, s) PROVE ProcessInv(p)'
    <2>1. stmt'[p].at = "lookup"
      BY <1>3, <1>t DEF QueryEqual, NoStatement
    <2> QED  BY <1>0, <1>3, <1>v, <1>k, <2>1, NothingNew DEF QueryEqual, Known
  <1>4. CASE GetFeatures(p)
    <2>1. stmt'[p].at = "load"
      BY <1>4, <1>t DEF GetFeatures, NoStatement
    <2> QED  BY <1>0, <1>4, <1>v, <1>k, <2>1, NothingNew DEF GetFeatures, Known
  <1>5. ASSUME NEW op, UpdateObjectType(p, op) PROVE ProcessInv(p)'
    <2>1. stmt'[p].at = "column"
      BY <1>5, <1>t DEF UpdateObjectType, NoStatement
    <2>2. tx'[p] # "no"
      BY <1>0, <1>5 DEF UpdateObjectType, beginTransaction, ProcessesOK
    <2> QED  BY <1>0, <1>5, <1>v, <1>k, <2>1, <2>2, NothingNew DEF UpdateObjectType
  <1>6. CASE UseDatabase(p)
    <2>1. stmt'[p].at = "commit"
      BY <1>6, <1>t DEF UseDatabase, NoStatement
    <2> QED  BY <1>0, <1>6, <1>v, <1>u, <2>1, NothingNew DEF UseDatabase
  <1>7. CASE BeginTransaction(p)
    <2>0. NoStatement.at = "idle"
      BY DEF NoStatement
    <2>1. stmt'[p].at = "idle"
      BY <1>7, <1>t, <2>0 DEF BeginTransaction
    <2> QED  BY <1>0, <1>7, <1>v, <1>u, <2>1, NothingNew DEF BeginTransaction
  <1>8. CASE CommitTransaction(p)
    <2> DEFINE n == [NoStatement EXCEPT !.op = "end", !.at = "commit"]
    <2>1. n.at = "commit"
      BY DEF NoStatement
    <2> HIDE DEF n
    <2>2. stmt'[p].at = "commit"
      BY <1>0, <1>8, <2>1, Goes DEF CommitTransaction, n
    <2> QED  BY <1>0, <1>8, <1>v, <1>u, <2>2, NothingNew DEF CommitTransaction
  <1>9. CASE AbortTransaction(p)
    <2>1. NoStatement.at = "idle"
      BY DEF NoStatement
    <2> QED  BY <1>0, <1>9, <2>1, RolledBack DEF AbortTransaction, Parts
  <1>10. CASE getNextID(p)
    <2> DEFINE db == [view(p) EXCEPT !.next = @ + 1]
               t == IF stmt[p].at = "id" /\ stmt[p].own THEN "idCommit" ELSE "lookup"
               n == [stmt[p] EXCEPT !.obj = view(p).next + 1, !.at = t]
    <2>1. Execute(p, db) /\ GoTo(p, n) /\ cache' = cache /\ Watch({})
      BY <1>10 DEF getNextID
    <2>2. n.at \in {"idCommit", "lookup"}
      BY <1>0 DEF StatementType
    <2>3. db.rows = view(p).rows /\ db.val = view(p).val
      BY <1>0 DEF DatabaseSound, DatabaseOK
    <2> HIDE DEF db, n
    <2>4. view(p)' = db /\ (file' = file \/ file' = db)
      BY <1>0, <2>1, ExecuteViews
    <2>5. stmt'[p].at \notin {"store", "insert"} \cup Parts
      BY <1>0, <2>1, <2>2, Goes DEF Parts
    <2> QED  BY <1>0, <2>1, <2>3, <2>4, <2>5, ValuesKept
  <1>11. CASE findID_DInSetCacheFromString(p)
    <2> DEFINE s == [stmt[p] EXCEPT !.own = stmt[p].op = "create" /\ tx[p] = "no"]
               hits == getID_DFromString(cache[p], s.str)
               sel == [s EXCEPT !.at = "select"]
               i == CHOOSE j \in hits : TRUE
               n == IF hits = {} THEN sel ELSE idFound(s, i)
    <2>1. /\ GoTo(p, n) /\ Watch({}) /\ UNCHANGED <<file, work, lock>>
          /\ cache' = [cache EXCEPT ![p] = fillStringToSetIDDCache(cache[p])]
      BY <1>11 DEF findID_DInSetCacheFromString
    <2>2. s \in StatementType
      BY <1>0 DEF StatementType
    <2> HIDE DEF s
    <2>3. sel.at = "select"
      BY <2>2 DEF StatementType
    <2> HIDE DEF sel
    <2>4. /\ idFound(s, i).at \in {"end", "store"}
          /\ idFound(s, i).id = i /\ idFound(s, i).str = s.str
      BY <2>2 DEF idFound, StatementType
    <2>5. hits # {} => i \in hits
      OBVIOUS
    <2> HIDE DEF hits, i
    <2>6. /\ stmt'[p].at \in {"idle", "select", "store"}
          /\ stmt'[p].at = "store" => stmt'[p].id \in hits /\ stmt'[p].str = s.str
      BY <1>0, <2>1, <2>3, <2>4, <2>5, Goes
    <2>7. cache'[p] = fillStringToSetIDDCache(cache[p])
      BY <2>1, <1>c
    <2>8. ASSUME ~undone'[p]
          PROVE  /\ ~undone[p]
                 /\ cache[p].s2id \subseteq cache[p].id2s
                 /\ \A e \in cache[p].id2s : stored(e, view(p)'.rows)
      BY <1>0, <2>1, <2>8, WatchKeeps DEF ProcessInv
    <2>9. ASSUME ~undone'[p]
          PROVE  /\ cache'[p].s2id \subseteq cache'[p].id2s
                 /\ cache'[p].id2s = cache[p].id2s
                 /\ cache'[p].complete = cache[p].complete
                 /\ stmt'[p].at = "store" =>
                       [id |-> stmt'[p].id, str |-> stmt'[p].str] \in cache[p].id2s
      BY <1>0, <2>6, <2>7, <2>8, <2>9, MapFilled DEF hits
    <2>10. CacheSound(p)'
      BY <2>8, <2>9, CacheSoundPrimed
    <2>11. OwnWritesCached(p)'
      <3>1. ASSUME ~undone'[p], cache'[p].complete
            PROVE  /\ OwnValuesCached(p, view(p)', cache'[p])
                   /\ file'.rows \subseteq view(p)'.rows => OwnValuesCached(p, file', cache'[p])
        <4>1. /\ OwnValuesCached(p, view(p), cache[p])
              /\ file.rows \subseteq view(p).rows => OwnValuesCached(p, file, cache[p])
          BY <1>0, <2>8, <2>9, <3>1, OwnWritesNow DEF ProcessInv
        <4> QED  BY <1>v, <2>1, <2>9, <3>1, <4>1 DEF OwnValuesCached, InCache
      <3> QED  BY <3>1, OwnWritesPrimed
    <2> QED  BY <2>6, <2>10, <2>11 DEF ProcessInv, LookedUp, Altering, Parts
  <1>12. CASE selectString(p)
    <2> DEFINE s == stmt[p]
               ids == idsOf(view(p).rows, s.str)
               i == CHOOSE j \in ids : \A k \in ids : j <= k
               end == [s EXCEPT !.at = IF s.op = "find" THEN "end" ELSE "insert"]
    <2>1. /\ GoTo(p, IF ids # {} THEN idFound(s, i) ELSE end) /\ Watch({})
          /\ Select(p) /\ tx' = tx
          /\ cache' = [cache EXCEPT ![p] = IF ids = {} THEN cache[p]
                                           ELSE addPair(cache[p], i, s.str)]
      BY <1>12 DEF selectString
    <2>2. view(p)' = view(p) /\ file' = file
      BY <1>0, <2>1, SelectViews DEF Select
    <2>3. view(p).rows \subseteq Row /\ RowsSound(view(p).rows)
      BY <1>0 DEF DatabaseSound, DatabaseOK
    <2>4. /\ idFound(s, i).at \in {"end", "store"}
          /\ idFound(s, i).id = i /\ idFound(s, i).str = s.str
      BY <1>0 DEF idFound, StatementType
    <2>5. end.at \in {"end", "insert"} /\ end.str = s.str
      BY <1>0 DEF StatementType
    <2>6. ids # {} => stored([id |-> i, str |-> s.str], view(p).rows)
      BY <2>3, LowestId
    <2>7. ASSUME ~undone'[p]
          PROVE  /\ ~undone[p]
                 /\ cache[p].s2id \subseteq cache[p].id2s
                 /\ \A e \in cache[p].id2s : stored(e, view(p).rows)
      BY <1>0, <2>1, <2>7, WatchKeeps DEF ProcessInv
    <2> HIDE DEF i, end
    <2>8. CASE ids = {}
      <3>1. stmt'[p].at \in {"idle", "insert"} /\ (stmt'[p].at = "insert" => stmt'[p].str = s.str)
        BY <1>0, <2>1, <2>5, <2>8, Goes
      <3>2. cache'[p] = cache[p]
        BY <2>1, <2>8, <1>c
      <3>3. CacheSound(p)'
        BY <2>2, <2>7, <3>1, <3>2, CacheSoundPrimed
      <3>4. OwnWritesCached(p)'
        <4>1. ASSUME ~undone'[p], cache'[p].complete
              PROVE  /\ OwnValuesCached(p, view(p)', cache'[p])
                     /\ file'.rows \subseteq view(p)'.rows => OwnValuesCached(p, file', cache'[p])
          BY <1>0, <2>2, <2>7, <3>2, <4>1, OwnWritesNow DEF ProcessInv
        <4> QED  BY <4>1, OwnWritesPrimed
      <3>5. tx[p] # "no" => lock'[p] # "none"
        BY <1>0, <2>1 DEF Select, ProcessesOK
      <3>6. LookedUp(p)'
        BY <2>1, <2>2, <2>8, <3>1, <3>5 DEF LookedUp, idsOf
      <3>7. Altering(p)'
        BY <3>1 DEF Altering, Parts
      <3> QED  BY <3>3, <3>4, <3>6, <3>7 DEF ProcessInv
    <2>9. CASE ids # {}
      <3>1. /\ stmt'[p].at \in {"idle", "store"}
            /\ stmt'[p].at = "store" => stmt'[p].id = i /\ stmt'[p].str = s.str
        BY <1>0, <2>1, <2>4, <2>9, Goes
      <3>2. cache'[p] = addPair(cache[p], i, s.str)
        BY <2>1, <2>9, <1>c
      <3>3. ASSUME ~undone'[p]
            PROVE  /\ cache'[p].s2id \subseteq cache'[p].id2s
                   /\ \A e \in cache'[p].id2s : stored(e, view(p).rows)
                   /\ [id |-> i, str |-> s.str] \in cache'[p].id2s
        BY <1>0, <2>3, <2>6, <2>7, <2>9, <3>2, <3>3, PairAdded DEF RowsSound, CacheType
      <3>4. CacheSound(p)'
        BY <2>2, <3>1, <3>3, CacheSoundPrimed
      <3>5. ~cache'[p].complete
        BY <1>0, <3>2 DEF addPair, CacheType
      <3>6. OwnWritesCached(p)'
        BY <3>5, OwnWritesPrimed
      <3> QED  BY <3>1, <3>4, <3>6 DEF ProcessInv, LookedUp, Altering, Parts
    <2> QED  BY <2>8, <2>9
  <1>13. CASE addStringToStringSetTable(p)
    <2> DEFINE s == stmt[p]
               rows == view(p).rows
               i == newRowid(rows)
               r == [id |-> i, str |-> s.str, tx |-> tx[p] # "no"]
               db == [view(p) EXCEPT !.rows = @ \cup {r}]
    <2>1. /\ GoTo(p, idFound(s, i)) /\ Watch({}) /\ Execute(p, db)
          /\ cache' = [cache EXCEPT ![p] = addPair(cache[p], i, s.str)]
          /\ s.at = "insert"
      BY <1>13 DEF addStringToStringSetTable, get_last_insert_rowid
    <2>2. rows \subseteq Row /\ RowsSound(rows) /\ s.str \in Strings
      BY <1>0, <2>1 DEF DatabaseSound, DatabaseOK, ProcessesOK, AboutString
    <2>3. RowsSound(rows \cup {r}) /\ \A t \in rows : t.id # r.id
      BY <2>2, OneMoreRow
    <2>4. db.rows = rows \cup {r}
      BY <1>0 DEF DatabaseSound, DatabaseOK
    <2>a. r.id = i /\ r.str = s.str
      OBVIOUS
    <2> HIDE DEF db, i, r
    <2>5. stored([id |-> i, str |-> s.str], db.rows)
      BY <2>4, <2>a DEF stored
    <2>6. view(p)' = db
      BY <1>0, <2>1, ExecuteViews
    <2>7. /\ idFound(s, i).at \in {"end", "store"}
          /\ idFound(s, i).id = i /\ idFound(s, i).str = s.str
      BY <1>0 DEF idFound, StatementType
    <2>8. /\ stmt'[p].at \in {"idle", "store"}
          /\ stmt'[p].at = "store" => stmt'[p].id = i /\ stmt'[p].str = s.str
      BY <1>0, <2>1, <2>7, Goes
    <2>9. cache'[p] = addPair(cache[p], i, s.str)
      BY <2>1, <1>c
    <2>10. ASSUME ~undone'[p]
           PROVE  /\ cache'[p].s2id \subseteq cache'[p].id2s
                  /\ \A e \in cache'[p].id2s : stored(e, db.rows)
                  /\ [id |-> i, str |-> s.str] \in cache'[p].id2s
      <3>1. /\ cache[p].s2id \subseteq cache[p].id2s
            /\ \A e \in cache[p].id2s : stored(e, db.rows)
        BY <1>0, <2>1, <2>6, <2>10, WatchKeeps DEF ProcessInv
      <3>2. \A t, u \in db.rows : t.id = u.id => t = u
        BY <2>3, <2>4 DEF RowsSound
      <3>3. cache[p].id2s \subseteq Pair
        BY <1>0 DEF CacheType
      <3> QED  BY <1>0, <2>5, <2>9, <3>1, <3>2, <3>3, PairAdded
    <2>11. CacheSound(p)'
      BY <2>6, <2>8, <2>10, CacheSoundPrimed
    <2>12. ~cache'[p].complete
      BY <1>0, <2>9 DEF addPair, CacheType
    <2>13. OwnWritesCached(p)'
      BY <2>12, OwnWritesPrimed
    <2> QED  BY <2>8, <2>11, <2>13 DEF ProcessInv, LookedUp, Altering, Parts
  <1>e. ASSUME NEW t \in {"commit", "end"}, GoTo(p, [stmt[p] EXCEPT !.at = t])
        PROVE  stmt'[p].at \notin {"store", "insert"} \cup Parts
    <2> DEFINE n == [stmt[p] EXCEPT !.at = t]
    <2>1. n.at = t
      BY <1>0 DEF StatementType
    <2> HIDE DEF n
    <2> QED  BY <1>0, <1>e, <2>1, Goes DEF n, Parts
  <1>14. CASE storeValue(p)
    <2> DEFINE s == stmt[p]
               v == [id |-> s.id, str |-> s.str, by |-> p, sure |-> ~undone[p]]
               val == view(p).val
               w == IF s.op = "update" /\ s.obj \notin DOMAIN val THEN val
                    ELSE [o \in DOMAIN val \cup {s.obj} |-> IF o = s.obj THEN v ELSE val[o]]
               db == [view(p) EXCEPT !.val = w]
    <2>1. /\ Execute(p, db) /\ cache' = cache /\ Watch({}) /\ s.at = "store"
          /\ GoTo(p, [s EXCEPT !.at = IF s.own THEN "commit" ELSE "end"])
      BY <1>14 DEF storeValue
    <2>2. stmt'[p].at \notin {"store", "insert"} \cup Parts
      BY <1>e, <2>1
    <2>3. v.id = s.id /\ v.str = s.str
      OBVIOUS
    <2> HIDE DEF v
    <2>4. \A o \in DOMAIN w : w[o] = v \/ (o \in DOMAIN val /\ w[o] = val[o])
      OBVIOUS
    <2> HIDE DEF w
    <2>5. db.rows = view(p).rows /\ db.val = w
      BY <1>0 DEF DatabaseSound, DatabaseOK
    <2> HIDE DEF db
    <2>6. view(p)' = db /\ (file' = file \/ file' = db)
      BY <1>0, <2>1, ExecuteViews
    <2>7. ~undone[p] => InCache(v, cache[p])
      BY <1>0, <2>1, <2>3 DEF ProcessInv, CacheSound, InCache
    <2>8. ~undone[p] =>
             \A o \in DOMAIN db.val : \/ InCache(db.val[o], cache[p])
                                      \/ o \in DOMAIN val /\ db.val[o] = val[o]
      BY <2>4, <2>5, <2>7
    <2> QED  BY <1>0, <1>u, <2>1, <2>2, <2>5, <2>6, <2>8, ValuesKept
  <1>15. CASE loadStringSetIntoCache(p)
    <2>1. /\ Select(p) /\ Watch({}) /\ GoTo(p, [stmt[p] EXCEPT !.at = "end"])
          /\ cache' = [cache EXCEPT ![p] = loadRows(cache[p], view(p).rows)]
      BY <1>15 DEF loadStringSetIntoCache
    <2>2. view(p)' = view(p) /\ file' = file
      BY <1>0, <2>1, SelectViews DEF Select
    <2>3. stmt'[p].at \notin {"store", "insert"} \cup Parts
      BY <1>e, <2>1
    <2>4. cache'[p] = loadRows(cache[p], view(p).rows)
      BY <2>1, <1>c
    <2>5. view(p).rows \subseteq Row
      BY <1>0 DEF DatabaseSound, DatabaseOK
    <2>6. ASSUME ~undone'[p]
          PROVE  /\ cache'[p].s2id \subseteq cache'[p].id2s
                 /\ \A e \in cache'[p].id2s : stored(e, view(p).rows)
                 /\ \A r \in view(p).rows : [id |-> r.id, str |-> r.str] \in cache'[p].id2s
      <3>1. /\ cache[p].s2id \subseteq cache[p].id2s
            /\ \A e \in cache[p].id2s : stored(e, view(p).rows)
        BY <1>0, <2>1, <2>2, <2>6, WatchKeeps DEF ProcessInv
      <3> QED  BY <1>0, <2>4, <2>5, <3>1, RowsLoaded
    <2>7. CacheSound(p)'
      BY <2>2, <2>3, <2>6, CacheSoundPrimed
    <2>8. ASSUME ~undone'[p], NEW d, DatabaseSound(d), d.rows \subseteq view(p).rows
          PROVE  OwnValuesCached(p, d, cache'[p])
      BY <2>6, <2>8 DEF OwnValuesCached, OwnedBy, InCache, DatabaseSound, stored
    <2>9. OwnWritesCached(p)'
      BY <1>0, <2>2, <2>8, OwnWritesPrimed
    <2> QED  BY <2>3, <2>7, <2>9 DEF ProcessInv, LookedUp, Altering, Parts
  <1>16. CASE alterType(p)
    <2> DEFINE s == stmt[p]
               next == nextPart(s)
               n == [s EXCEPT !.at = IF next = "end" /\ s.own THEN "commit" ELSE next]
               b == IF next = "end" THEN s.op = "add" ELSE cache[p].known
               db == altered(p, view(p), s)
    <2>1. /\ Execute(p, db) /\ Watch({}) /\ cache' = [cache EXCEPT ![p].known = b]
          /\ GoTo(p, n) /\ tx' = tx /\ s.at \in Parts /\ ~partRefused(p)
      BY <1>16 DEF alterType
    <2> HIDE DEF b
    <2>2. /\ \/ db.rows = view(p).rows
             \/ db.rows = {} /\ \A o \in DOMAIN db.val : ~db.val[o].sure
          /\ \A o \in DOMAIN db.val :
                ~db.val[o].sure \/ (o \in DOMAIN view(p).val /\ db.val[o] = view(p).val[o])
          /\ s.at = "column" /\ s.op # "add" => "column" \notin db.feature
      BY <1>0, <2>1, PartChange DEF ProcessInv
    <2> HIDE DEF db
    <2>3. view(p)' = db /\ (file' = file \/ file' = db)
      BY <1>0, <2>1, ExecuteViews
    <2>4. SameCache(p)
      BY <1>k, <2>1
    <2>5. ASSUME ~undone'[p]
          PROVE  /\ ~undone[p]
                 /\ cache[p].s2id \subseteq cache[p].id2s
                 /\ \A e \in cache[p].id2s : stored(e, view(p)'.rows)
      BY <1>0, <2>1, <2>5, WatchKeeps DEF ProcessInv
    <2>a. n.op = s.op /\ n.at = IF next = "end" /\ s.own THEN "commit" ELSE next
      BY <1>0 DEF StatementType
    <2> HIDE DEF n
    <2>n. /\ next \in {"end", "row", "set"}
          /\ next = "set" /\ s.op # "add" => s.at = "column"
      BY <2>1 DEF nextPart, Parts
    <2>6. /\ n.op = s.op /\ n.at \in {"commit", "end", "row", "set"}
          /\ n.at = "set" /\ s.op # "add" => s.at = "column"
      BY <2>a, <2>n
    <2>7. /\ stmt'[p].at \in {"idle", "commit", "row", "set"}
          /\ stmt'[p].at = "set" /\ stmt'[p].op # "add" => s.at = "column" /\ s.op # "add"
      BY <1>0, <2>1, <2>6, Goes
    <2>8. Altering(p)'
      <3>1. tx[p] # "no" /\ tx'[p] # "no"
        BY <1>0, <2>1 DEF ProcessInv, Altering
      <3>2. lock'[p] \in Writing
        BY <1>0, <2>1, <3>1 DEF Execute, Writing, ProcessesOK
      <3> QED  BY <2>2, <2>3, <2>7, <3>1, <3>2 DEF Altering
    <2>9. CacheSound(p)'
      BY <2>4, <2>5, <2>7, CacheSoundPrimed DEF SameCache
    <2>10. ASSUME ~undone'[p], cache'[p].complete
           PROVE  /\ OwnValuesCached(p, db, cache'[p])
                  /\ file.rows \subseteq db.rows => OwnValuesCached(p, file, cache'[p])
      <3>1. /\ OwnValuesCached(p, view(p), cache[p])
            /\ file.rows \subseteq view(p).rows => OwnValuesCached(p, file, cache[p])
        BY <1>0, <2>4, <2>5, <2>10, OwnWritesNow DEF ProcessInv, SameCache
      <3>2. OwnValuesCached(p, db, cache'[p])
        BY <2>2, <2>4, <3>1 DEF OwnValuesCached, OwnedBy, InCache, SameCache
      <3>3. CASE db.rows = view(p).rows
        BY <2>4, <3>1, <3>2, <3>3 DEF OwnValuesCached, InCache, SameCache
      <3>4. CASE db.rows = {}
        BY <1>0, <3>2, <3>4 DEF OwnValuesCached, OwnedBy, DatabaseSound, stored
      <3> QED  BY <2>2, <3>3, <3>4
    <2>11. OwnWritesCached(p)'
      BY <2>3, <2>10, OwnWritesPrimed
    <2> QED  BY <2>7, <2>8, <2>9, <2>11 DEF ProcessInv, LookedUp
  <1>x. ASSUME NEW E, Watch(E), p \in E, cache'[p] = EmptyCache,
               stmt'[p].at \notin {"store", "insert"} \cup Parts
        PROVE  ProcessInv(p)'
    <2>1. EmptyCache.id2s = {} /\ EmptyCache.s2id = {} /\ EmptyCache.complete = FALSE
      BY DEF EmptyCache
    <2>2. CacheSound(p)'
      BY <1>x, <2>1, CacheSoundPrimed
    <2>3. OwnWritesCached(p)'
      BY <1>x, <2>1, OwnWritesPrimed
    <2> QED  BY <1>x, <2>2, <2>3 DEF ProcessInv, LookedUp, Altering, Parts
  <1>17. CASE commitStep(p)
    <2> DEFINE n == [stmt[p] EXCEPT !.at = IF @ = "idCommit" THEN "lookup" ELSE "end"]
    <2>1. /\ Commit(p) /\ GoTo(p, n)
          /\ cache' = [cache EXCEPT ![p] = IF stmt[p].op = "use" THEN EmptyCache ELSE cache[p]]
          /\ Watch(IF stmt[p].op = "use" THEN {p} ELSE {})
      BY <1>17 DEF commitStep
    <2>2. n.at \in {"lookup", "end"}
      BY <1>0 DEF StatementType
    <2> HIDE DEF n
    <2>3. stmt'[p].at \notin {"store", "insert"} \cup Parts
      BY <1>0, <2>1, <2>2, Goes DEF Parts
    <2>4. cache'[p] = IF stmt[p].op = "use" THEN EmptyCache ELSE cache[p]
      BY <2>1, <1>c
    <2>5. CASE stmt[p].op = "use"
      BY <1>x, <2>1, <2>3, <2>4, <2>5
    <2>6. CASE stmt[p].op # "use"
      <3>1. view(p)' = view(p) /\ file' = view(p)
        BY <1>0, <2>1, CommitViews
      <3> QED  BY <1>0, <2>1, <2>3, <2>4, <2>6, <3>1, NothingNew DEF SameCache, Parts
    <2> QED  BY <2>5, <2>6
  <1>18. CASE commitBusy(p)
    <2>1. view(p)' = view(p) /\ file' = file
      BY <1>0, <1>18 DEF commitBusy, view, Writing, ProcessesOK
    <2> QED  BY <1>0, <1>18, <1>u, <2>1, NothingNew DEF commitBusy
  <1>19. CASE returnFalse(p)
    <2>1. stmt'[p].at \notin {"store", "insert"} \cup Parts /\ cache' = cache /\ Watch({})
      BY <1>19, <1>e DEF returnFalse
    <2>2. CASE Rollback(p)
      BY <1>0, <2>1, <2>2, RolledBack
    <2>3. CASE UNCHANGED <<file, work, lock, tx>>
      BY <1>0, <1>v, <1>u, <2>1, <2>3, NothingNew DEF Parts
    <2> QED  BY <1>19, <2>2, <2>3 DEF returnFalse
  <1>20. CASE crash(p)
    <2>1. NoStatement.at = "idle"
      BY DEF NoStatement
    <2>2. cache'[p] = EmptyCache /\ stmt'[p].at = "idle" /\ Watch({p})
      BY <1>0, <1>20, <2>1 DEF crash, ProcessesOK
    <2> QED  BY <1>x, <2>2 DEF Parts
  <1> QED  BY <1>1, <1>2, <1>3, <1>4, <1>5, <1>6, <1>7, <1>8, <1>9, <1>10, <1>11,
              <1>12, <1>13, <1>14, <1>15, <1>16, <1>17, <1>18, <1>19, <1>20
           DEF Program, EndTransaction, Step, featureMissing, commandFails

-----------------------------------------------------------------------------
\* The invariant holds at the beginning: no rows, no values, empty caches.
LEMMA InitInv ==
    Init => StringSetsInv
  <1> SUFFICES ASSUME Init PROVE StringSetsInv
    OBVIOUS
  <1> DEFINE d == [feature |-> Parts, rows |-> {}, next |-> 0, val |-> [o \in {} |-> 0]]
  <1>1. d.rows = {} /\ DOMAIN d.val = {} /\ DatabaseOK(d)
    <2>1. d.val \in [{} -> Value] /\ DOMAIN d.val = {}
      OBVIOUS
    <2> QED  BY <2>1 DEF DatabaseOK
  <1>2. file = d /\ work = d
    BY DEF Init
  <1> HIDE DEF d
  <1>3. RowsSound({})
    BY FS_EmptySet DEF RowsSound
  <1>4. DatabaseSound(d)
    BY <1>1, <1>3 DEF DatabaseSound
  <1>5. EmptyCache \in CacheType /\ EmptyCache.id2s = {} /\ EmptyCache.s2id = {}
        /\ EmptyCache.complete = FALSE
    BY DEF EmptyCache, CacheType
  <1>6. NoStatement \in StatementType /\ NoStatement.at = "idle"
    BY DEF NoStatement, StatementType, At, NIL
  <1>7. ProcessesOK
    BY <1>5, <1>6 DEF Init, ProcessesOK, Lock, AboutString
  <1>8. LocksSound
    BY DEF Init, LocksSound, Writing
  <1>9. OwnersWrite
    BY <1>1, <1>2 DEF OwnersWrite
  <1>10. \A p \in Procs : ProcessInv(p)
    BY <1>5, <1>6 DEF Init, ProcessInv, CacheSound, OwnWritesCached, LookedUp, Altering, Parts
  <1> QED  BY <1>2, <1>4, <1>7, <1>8, <1>9, <1>10 DEF StringSetsInv, TypeOK, DatabaseSound

\* Every step keeps the invariant.
LEMMA NextInv ==
    StringSetsInv /\ [Next]_vars => StringSetsInv'
  <1> SUFFICES ASSUME StringSetsInv, [Next]_vars PROVE StringSetsInv'
    OBVIOUS
  <1>1. CASE UNCHANGED vars
    <2>1. /\ file' = file /\ work' = work /\ lock' = lock /\ tx' = tx /\ cache' = cache
          /\ stmt' = stmt /\ statements' = statements /\ faults' = faults /\ undone' = undone
      BY <1>1 DEF vars
    <2>2. TypeOK'
      BY <2>1 DEF StringSetsInv, TypeOK, DatabaseOK, ProcessesOK
    <2>3. LocksSound' /\ OwnersWrite'
      BY <2>1 DEF StringSetsInv, LocksSound, OwnersWrite
    <2>4. DatabaseSound(file)' /\ DatabaseSound(work)'
      BY <2>1 DEF StringSetsInv, DatabaseSound, DatabaseOK, RowsSound, stored
    <2>5. \A p \in Procs : view(p)' = view(p)
      BY <2>1 DEF view
    <2>6. ASSUME NEW p \in Procs PROVE ProcessInv(p)'
      <3>0. ProcessInv(p) /\ view(p)' = view(p)
        BY <2>5 DEF StringSetsInv
      <3>1. CacheSound(p)'
        BY <2>1, <3>0 DEF ProcessInv, CacheSound, stored
      <3>2. OwnWritesCached(p)'
        BY <2>1, <3>0 DEF ProcessInv, OwnWritesCached, OwnedBy, InCache
      <3>3. LookedUp(p)'
        BY <2>1, <3>0 DEF ProcessInv, LookedUp, idsOf
      <3>4. Altering(p)'
        BY <2>1, <3>0 DEF ProcessInv, Altering
      <3> QED  BY <3>1, <3>2, <3>3, <3>4 DEF ProcessInv
    <2> QED  BY <2>2, <2>3, <2>4, <2>6 DEF StringSetsInv
  <1>2. CASE Next
    <2>1. PICK p \in Procs :
             Program(p) \/ EndTransaction(p) \/ Step(p) \/ commandFails(p) \/ crash(p)
      BY <1>2 DEF Next
    <2>2. ProcessesOK'
      BY <2>1, ViewSound, ProcessesStep DEF StringSetsInv
    <2>3. Frame(p) /\ Kind(p)
      BY <2>1, StepKinds
    <2>4. DatabaseSound(file)' /\ DatabaseSound(work)'
      BY <2>3, KindDatabases
    <2>5. LocksSound' /\ OwnersWrite'
      BY <2>2, <2>3, KindLocks, KindOwners
    <2>6. ASSUME NEW q \in Procs PROVE ProcessInv(q)'
      <3>1. CASE q = p   BY <2>1, <3>1, OwnProcess
      <3>2. CASE q # p   BY <2>3, <3>2, OtherProcesses DEF Others
      <3> QED  BY <3>1, <3>2
    <2>7. TypeOK'
      BY <2>2, <2>4 DEF TypeOK, DatabaseSound
    <2> QED  BY <2>4, <2>5, <2>6, <2>7 DEF StringSetsInv
  <1> QED  BY <1>1, <1>2

\* The inductive invariant holds in every state of any number of processes that look
\* strings up, add them, store their ids, commit, are refused, roll back and die.
THEOREM StringSetsInvariant == Spec => []StringSetsInv
  BY InitInv, NextInv, PTL DEF Spec

\* Types: the database, the locks, the caches and the statements.
THEOREM StringSetsTypes == Spec => []TypeOK
  <1>1. StringSetsInv => TypeOK
    BY DEF StringSetsInv
  <1> QED  BY <1>1, StringSetsInvariant, PTL

\* At most one process writes, nothing is unseen without a writer, and locks end
\* with their transaction, however many processes execute, commit, are refused,
\* roll back and die (sqlite3conn.cpp, beginTransaction to abortTransaction).
THEOREM LocksAlwaysSound == Spec => []LocksSound
  <1>1. StringSetsInv => LocksSound
    BY DEF StringSetsInv
  <1> QED  BY <1>1, StringSetsInvariant, PTL

\* The string set cache of a process (string_set_cache.cpp) tells it what it would
\* read in the database, for any number of processes that add strings.
THEOREM CachedPairsAlwaysStored == Spec => []CachedPairsStored
  <1>1. StringSetsInv => CachedPairsStored
    BY DEF StringSetsInv, ProcessInv, CacheSound, CachedPairsStored
  <1> QED  BY <1>1, StringSetsInvariant, PTL

\* The id_d that createObject and updateObjects store is that of the string they
\* were given (getID_DFromStringSet).
THEOREM ValuesAlwaysExact == Spec => []ValuesExact
  <1>1. StringSetsInv => ValuesExact
    BY DEF StringSetsInv, DatabaseSound, ValuesExact
  <1> QED  BY <1>1, StringSetsInvariant, PTL

\* A string gets two ids through UPDATE OBJECTS outside a transaction only.
THEOREM DuplicatesAlwaysNeedNoTransaction == Spec => []DuplicatesNeedNoTransaction
  <1>1. StringSetsInv => DuplicatesNeedNoTransaction
    BY DEF StringSetsInv, DatabaseSound, DuplicatesNeedNoTransaction
  <1> QED  BY <1>1, StringSetsInvariant, PTL

\* A process reads back what it has stored (getStringFromID_DInSet): a cache that
\* says that it is complete has the process's own strings.
THEOREM OwnWritesAlwaysRead == Spec => []ReadsOwnWrites
  <1>1. StringSetsInv => ReadsOwnWrites
    BY DEF StringSetsInv, ProcessInv, OwnWritesCached, OwnedBy, InCache, ReadsOwnWrites
  <1> QED  BY <1>1, StringSetsInvariant, PTL

\* A query for a string compares with the id of exactly the objects that were
\* given it, whichever process asks and whichever gave it.
THEOREM EqualityAlwaysExact == Spec => []EqualityExact
  <1>1. ASSUME StringSetsInv, NEW p \in Procs, ~undone[p], unique(view(p).rows),
               NEW o \in DOMAIN view(p).val, NEW s \in Strings, view(p).val[o].sure
        PROVE  view(p).val[o].id = queryID(p, s) <=> view(p).val[o].str = s
    <2> DEFINE v == view(p).val[o]
               rows == view(p).rows
               hits == getID_DFromString(cache[p], s)
               ids == IF hits # {} THEN hits ELSE idsOf(rows, s)
    <2>0. /\ DatabaseSound(view(p)) /\ CacheSound(p) /\ cache[p] \in CacheType
          /\ unique(rows)
      BY <1>1, ViewSound DEF StringSetsInv, ProcessInv, TypeOK, ProcessesOK
    <2>1. PICK r \in rows : r.id = v.id /\ r.str = v.str
      BY <1>1, <2>0 DEF DatabaseSound, stored
    <2>2. /\ \A t \in rows : t.id \in 1 .. Cardinality(rows) /\ Cardinality(rows) \in Nat
          /\ \A t, u \in rows : t.id = u.id => t = u
      BY <2>0, FS_CardinalityType DEF DatabaseSound, RowsSound
    <2>3. \A i \in hits : \E t \in rows : t.id = i /\ t.str = s
      <3>1. ASSUME NEW i \in hits PROVE \E t \in rows : t.id = i /\ t.str = s
        <4> DEFINE e == [id |-> i, str |-> s]
        <4>1. e.id = i /\ e.str = s
          OBVIOUS
        <4>2. e \in cache[p].id2s
          BY <1>1, <2>0, MapFilled DEF CacheSound
        <4> HIDE DEF e
        <4> QED  BY <1>1, <2>0, <4>1, <4>2 DEF CacheSound, stored
      <3> QED  BY <3>1
    <2>4. \A i \in idsOf(rows, s) : \E t \in rows : t.id = i /\ t.str = s
      BY DEF idsOf
    <2>5. \A i \in ids : \E t \in rows : t.id = i /\ t.str = s
      BY <2>3, <2>4
    <2>6. \A i \in ids : i \in Nat /\ i # 0
      BY <2>2, <2>5
    <2>7. queryID(p, s) = IF ids = {} THEN NIL ELSE CHOOSE i \in ids : \A j \in ids : i <= j
      BY DEF queryID
    <2>8. v.id \in Nat /\ v.id # 0
      BY <2>1, <2>2
    <2>9. v.str = s => v.id \in idsOf(rows, s)
      BY <2>1 DEF idsOf
    <2>10. v.str = s => ids # {}
      BY <2>9
    <2> HIDE DEF hits, v
    <2> DEFINE J == ids
               x == CHOOSE i \in J : \A j \in J : i <= j
    <2>11. /\ \A i \in J : i \in Nat /\ i # 0 /\ \E t \in rows : t.id = i /\ t.str = s
           /\ v.str = s => J # {}
           /\ queryID(p, s) = IF J = {} THEN NIL ELSE x
      BY <2>5, <2>6, <2>7, <2>10
    <2> HIDE DEF J, ids
    <2>12. J # {} => x \in J
      <3>1. J \in SUBSET Nat
        BY <2>11
      <3> QED  BY <3>1, LeastNatural
    <2> HIDE DEF x
    <2>13. ASSUME v.str = s PROVE v.id = queryID(p, s)
      <3>1. PICK t \in rows : t.id = x /\ t.str = s
        BY <2>11, <2>12, <2>13
      <3>2. t = r
        BY <2>0, <2>1, <2>13, <3>1 DEF unique
      <3> QED  BY <2>1, <2>11, <2>13, <3>1, <3>2
    <2>14. ASSUME v.id = queryID(p, s) PROVE v.str = s
      <3>1. J # {}
        BY <2>8, <2>11, <2>14 DEF NIL
      <3>2. PICK t \in rows : t.id = x /\ t.str = s
        BY <2>11, <2>12, <3>1
      <3>3. t = r
        BY <2>1, <2>2, <2>11, <2>14, <3>1, <3>2
      <3> QED  BY <2>1, <3>2, <3>3
    <2> QED  BY <2>13, <2>14 DEF v
  <1>2. StringSetsInv => EqualityExact
    BY <1>1 DEF EqualityExact
  <1> QED  BY <1>2, StringSetsInvariant, PTL
=============================================================================
