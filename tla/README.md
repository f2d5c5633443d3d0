# TLA+ models of Emdros

Emdros is a text database engine for annotated text. Text is laid out on a line
of positive integers, the *monads*; *objects* of user-defined *object types* are
sets of monads with *features*; *MQL* is the language in which a program
creates, changes and queries them. The engine stores everything in an SQL
database, here SQLite 3, and is used as a C++ library (`EmdrosEnv`, `EMdFDB`,
`SetOfMonads`, ...) or through the `mql` program.

This directory holds models of the parts of the engine in which correctness
depends on long sequences of calls: the sets of monads everything is computed
with, the transaction protocol between `EMdFDB` and SQLite, the values the
engine derives from the objects and relies on when it retrieves them, the
catalogue of enumerations, string sets shared by several processes, and the
matcher of topographic queries. TLC checks small instances; the theorems in the
`_proofs` modules hold for every value of the constants.

## 1. The system

| Component | State | Operations | Interaction |
|---|---|---|---|
| Sets of monads (`EMdF/monads.cpp`, `include/monads.h`) | an ordered list of maximal ranges `MonadSetElement`, and the cached bounds `m_first`, `m_last`; in `FastSetOfMonads` the ranges are in a map by first monad; stored as compact strings | `addMSE`, `removeMSE`, `unionWith`, `difference`, `intersect`, `offset`, `truncate`, `fillGaps`, `fillInsertRange`, tests | used by every other component; nothing calls back |
| SQLite connection (`EMdF/sqlite3conn.cpp`) | `m_pDB`, `m_bTransactionInProgress`; SQLite's own transaction | `beginTransaction`, `commitTransaction`, `abortTransaction`, `execCommand`, `execSelect`, `deleteDatabase`, `useDatabaseSQLite3` | every `EMdFDB` method begins a transaction, and ends it only if it was the one that began it |
| Object types and objects (`EMdF/emdfdb.cpp`, `EMdF/sqlite3emdfdb.cpp`) | table `object_types` (id, largest object length), one table of objects per type, `min_m`, `max_m`, id sequences; the cache `m_object_type_cache_map` | `createObjectType`, `dropObjectType`, `createObject`, `createObjectsOT`, `dropObject`, `dropObjectsInMonads`, the setters of the derived values | called by the MQL statements; the cache is outside the transaction |
| Retrieval (`EMdF/emdfdb.cpp`, `EMdFOTObjectFactory`) | none of its own | `getObjectsHavingMonadsIn`: one query per stretch, with a look-behind of the largest object length | reads the derived values and the cached length |
| Enumerations (`EMdF/enum_const_cache.cpp`, `emdfdb.cpp`, `MQL/mql_enumeration_statements.cpp`) | tables `enumerations` and `enumeration_constants`; a cache with two maps per enumeration (by name, by value) | `CREATE`, `UPDATE`, `DROP ENUMERATION`; lookups by name and by value | an `UPDATE` is a list of changes, each one a call of `EMdFDB` |
| String sets (`EMdF/string_set_cache.cpp`, `emdfdb.cpp`) | a table `OT_mdf_FEATURE_set` of ids and strings per `FROM SET` feature; per process a `StringSetCache` with two maps and the flags "filled" and "complete" | `getID_DFromStringSet`, `addStringToStringSetTable`, `loadStringSetIntoCache`, `addPair` | objects hold ids; pairs are cached before the transaction commits |
| Features (`EMdF/emdfdb.cpp`) | table `features`, the cache `m_feature_cache` | `addFeature`, `dropFeature` | `CREATE`/`UPDATE OBJECT TYPE`; a removed feature takes its string set with it |
| Multi-user access (`EMdF/sqlite3conn.cpp`) | SQLite's file locks, one connection and one set of caches per process | the retry loops of `execCommand` and `getNextTuple` | through the file only |
| MQL queries (`MQL/mql_query.cpp`, `mql_R.cpp`, `mql_select_statements.cpp`) | substrate and universe, one prefetched inst per object block, flags set while compiling, start monads, straws, sheaf | `weed`, `type`, `aggregateQuery`, `getSMI`, the `R_` functions; a callback hears of every list of straws and may stop the query | reads objects through `getInst` |
| Others | BPT/MySQL/PostgreSQL back ends, parser, full-text search, harvesting, importers, bindings, vendored libraries | | not modelled, see section 7 |

### What is hard

*Sequences of calls.* `addMSE` takes shortcuts that are right only while the
list is ordered, its ranges do not touch, and `m_first`/`m_last` are its bounds.
Whichever method breaks one of these, a *later* call returns a wrong set.

*Partial failure.* A statement issues several SQL commands; each can fail. The
methods undo their work by `abortTransaction()`, but only if the transaction is
their own. The flag that says so is set before `BEGIN` and cleared before
`COMMIT`, and SQLite may roll back by itself.

*State outside the transaction.* The caches are C++ maps. A rollback, a crash or
`USE DATABASE` undoes or replaces the tables, not the maps.

*Boundaries.* Whether a query finds an object depends on `first -
largest_object_length + 1`, on gaps of exactly the limit, and on `min_m`/`max_m`
after the last object is gone.

*Concurrency* occurs between processes that share a file, and is left to SQLite,
except that `SQLITE_BUSY` is retried for ever (`sqlite3conn.cpp:219`) and that
every process trusts its own caches of what others may change. Inside a process
there are no threads. There are no messages and no timers.

*Shortcuts.* The matcher does not try a query everywhere: it fetches objects per
block, restricts the monads in which the next blocks look by what earlier ones
found, and computes the start monads at which a match may begin. Each shortcut
has to leave every match in place, whatever blocks are combined.

PROJECT.json lists the hazards one by one, with the line at which each bites
and the properties that are about it.

## 2. Modules

| Module | Models | Role |
|---|---|---|
| `Monads` | the methods of `SetOfMonads` as operators on a record `[mses, first, last]` | pure algorithms |
| `MonadSets` | sets of integers with union, difference, intersection, ... | abstract specification |
| `SetOfMonads` | two `SetOfMonads` objects and the methods that change one | implements `MonadSets` |
| `Induction`, `Loops` | | lemmas: induction and recursion on numbers; what a fold over a list and a walk along two lists compute |
| `Monads_proofs` | | lemmas: what each method of `Monads` computes, for every list |
| `SetOfMonads_proofs` | | theorems about `SetOfMonads` |
| `CompactMonads` | the compact strings sets of monads are stored in: encoding and decoding, both forms | pure algorithms, checked in the states of `SetOfMonads` |
| `FastMonads` | `FastSetOfMonads`, the same operations on a map | pure algorithms, checked against `Monads` |
| `EMdFConnection` | the connection, SQLite's transaction, the call stack of `EMdFDB` methods | state machine |
| `EMdFConnection_proofs` | | theorems about `EMdFConnection` |
| `ObjectStore` | object types, objects, derived values, the object type cache, retrieval | state machine, uses `Monads` |
| `ObjectStore_proofs` | | theorems about `ObjectStore` |
| `EnumCatalog` | enumerations, their constants, both caches, `CREATE`/`UPDATE`/`DROP ENUMERATION` | state machine |
| `EnumCatalog_proofs` | | theorems about `EnumCatalog` |
| `StringSets` | one `FROM SET` feature, its string set, the caches of several processes, SQLite's locks, the statements command by command | state machine with fairness |
| `StringSets_proofs` | | theorems about `StringSets` |
| `Topograph` | compiling, prefetching and matching of a topographic query; what the query means | state machine and reference definition |
| `MC...` | constants, symmetry and query inputs for TLC | |

### Monads, MonadSets, SetOfMonads

`SOM(mses, first, last)` is a `SetOfMonads` object: the list of ranges and the
two cached bounds, kept separate because the code does. Operators have the
names of the methods. `call` records the last method and its arguments in both
specifications, so that a step of `fillGaps(3)` has to be explained by
`fillGaps(3)` and not by some other operation with the same result. The list of ranges is a sequence; iteration with
insertion and erasure becomes a fold over it or a selection of its elements. What
a method returns after a `ASSERT_THROW` is left out, since the exception ends it.
`MonadSets` has one variable, a set of integers, and one action per method that
says which set results; `SetOfMonads` implements it under the mapping "the
monads of all ranges" (`RefinesMonadSets`).

### CompactMonads, FastMonads

`toCompactString` and `toCompactStringFM` write the differences between the ends
of successive ranges in base 64 (`num2string`), with one letter within a range and
another one between ranges; the second form leaves out the first monad, which
has a column of its own. A character is its distance from `'0'`. The base is
the constant `Radix`; `RadixAssumption` says that six of its digits are enough for
`MAX_MONAD`, as six of 64 are in the code, since `num2string` writes no more. Decoding goes
through the string character by character (`Decode`) or number by number
(`ReadRange`), as the code does, and adds the ranges with `addRange`.

A `FastSetOfMonads` is a function from keys to ranges, with the cached bounds.
The operators of `std::map` are the code's library and marked external; an
iterator is the key it is at. `insert` does nothing when the key is taken, which
is what makes a wrong key dangerous. `fastAddMSE` has one shortcut more than
`addMSE`, and `careful` is the step back from `upper_bound` that both it and
`fastRemoveMSE` depend on. `fastRemoveVisit` is one turn of the loop of
`removeMSE`, which erases, inserts and searches again under its own iterator; a
`break` leaves the iterator at `End`. `FastSetsAgree` compares the results of every
method, keys and bounds included, with those of its namesake in `Monads`; `offset`
only where the result stays below `MAX_MONAD`, which is `End` of the map.

### EMdFConnection

`open`, `inProgress`, `inTx`, `work` and `stored` are `m_pDB # 0`,
`m_bTransactionInProgress`, whether SQLite has a transaction open, and the
database as the connection sees it and as it is on disk. A database is
represented by the set of commands that took effect. `frames` is the stack of
`bDoCommit` variables of the `EMdFDB` methods being executed, `failing` says that
an error is on its way up. `Enter`, `execCommand`, `execCommandFails`,
`ReturnTrue` and `ReturnFalse` are the steps of any such method: the program may
nest methods in any way up to `MaxDepth`, with any number of commands up to
`MaxCommands`. `createObjectCatches` is the exit the idiom does not have (see
finding `transaction_left_open`). A `Crash` can happen anywhere.

History variables record what the program was told: `acked` holds the commands
it was told are committed and `undone` those it was told failed or were
aborted, `begun` whether its own `BEGIN TRANSACTION` returned true.
`desync` becomes true, for good, in the four situations in which the code lets
the flag and SQLite part: a `COMMIT` of the program that fails and leaves the
transaction open, the same for a method's commit, SQLite rolling back a
transaction of the program behind its back, and `createObjectCatches`. The
properties are about the behaviour up to there. They are not empty: all other
failures, nested methods, crashes and changes of database are below that line.

### ObjectStore

A statement is one step, described by the database and cache after each of its
commands. It either reaches the end (`Succeed`), or fails and leaves what
`EMdFConnection` says: nothing if no transaction was in progress, one of the
partial results if the program has one (`Fail`; `Refuse` where a command cannot
succeed). The database record `d` has `ot` (row id of each type in
`object_types`, 0 for none), `lol` (largest object length), `tables`, `objs`,
`min_m`, `max_m`, and the sequences; `cache` has the cached id and length.
Objects are `[id, ot, first, last]`: retrieval and derived values only
depend on the extremes of their sets of monads. Features are left out.

Three more fields of `d` are history, and travel with the database through
commit and rollback: `torn` (a failed statement left a partial result that the
program then kept), `stale` (it was written to with a cache that a rollback had
left behind) and `loose` (objects are gone without a recomputation of
`min_m`/`max_m`: a dropped object type, or an object whose monads could not be
read). `rolledBack` says that a rollback happened since the cache was last
cleared. They appear in properties only, never in a guard.

### EnumCatalog

`db.enums` and `db.consts` are the two tables, `enumCache` is `m_enum_cache`
(names and ids), `constCache` the `EnumConstCache` by enumeration id. The two
maps of the latter point to the same objects; an object's name never changes,
and an object in the map by value is also in the map by name under its own name
and value. So they are represented by the set `seci` of objects in the map by
name, and the set `veci` of the names of those that are also in the map by
value. A failed `ASSERT_THROW` is an exception that only the main programs
catch: it ends the process (`Throw`). So does, in the model, the deletion of an
object that the other map still points to; what happens then is undefined.

`UPDATE ENUMERATION` is a check of the whole list (`UpdateEnumeration`) and one
step per change (`execAddUpdateRemove`), because the code makes each change in a
command of its own and outside a transaction; a last step sets the default.
`CREATE ENUMERATION` works the same way. A list that does not pass the checks
has only looked up constants, which `LookupStatement` does too. Lists are
executed in the order in which they are written (the parser builds them
backwards, and the methods recurse first).

History: `suspect` is set when something makes it possible that the cache
differs from the table: a rollback, a command that failed between two others
inside a transaction of the program, or two constants that had the same value.
`db.torn` is true while a statement is being executed and stays true if it does
not reach its end, `db.stale` when the database was written to while the cache
was suspect. `broken` records an assertion that failed although the cache was
not suspect.

### StringSets

`file` is the database as committed, `work` as the process sees it that has
uncommitted changes (`view` chooses). A statement is started by an action of its
own (`CreateObject`, `UpdateObjects`, `QueryEqual`, `GetFeatures`,
`UpdateObjectType`, `UseDatabase`) and executed in steps, one per command sent
to SQLite: `getNextID`, the search of the cache, the `SELECT`, the `INSERT` of the
string, the `INSERT` or `UPDATE` of the object, `COMMIT`. Between two steps any
other process may go on, a command may fail (`commandFails`) and the process may
die (`crash`). `Select`, `Execute` and `Commit` are SQLite's locking protocol with
a rollback journal: shared locks are kept to the end of a transaction, one
process has the reserved lock, and a commit that is refused because others read
leaves a pending lock, which keeps new readers out (`commitBusy`). A feature is a
set of `Parts`, its column, its row in `features` and its string set: `addFeature` and
`dropFeature` send one command for each (`nextPart`; the building of `OT_objects`
without the column, six commands, is one step). `UPDATE OBJECT TYPE` itself begins
the transaction (`UpdateObjectTypeStatement::exec`), so the `bDoCommit` of these
two methods is always false, they change `m_feature_cache` before the commit, and
`exec` ends the transaction whichever way they return. In a transaction of the
program it does not, and the parts that are done stay: a feature of which column and
string set are gone, but not the row, can neither be added nor removed again. A step that SQLite
would answer with `SQLITE_BUSY` is not enabled: the loop that asks again
is the step being enabled later. A process of `Writers` writes within
transactions; another one reads within them and writes, by `UPDATE OBJECTS`,
outside.

`cache` has both maps of `StringSetCache`, its two flags, and whether the feature
is in `m_feature_cache`. History: a value remembers the string that was given,
the process that gave it, and whether its cache could be trusted; `undone` says
that since the cache was last emptied a row it has was taken away by a rollback
or with the feature, or that a rollback brought rows back that the cache says are
not there. Properties are about caches that are not `undone`: what happens to
the others is the finding `string_after_abort`.

### Topograph

A query is a tree of records: block strings with alternatives, object blocks,
`NOTEXIST` blocks, gaps, optional gaps, power blocks, groups with a star, unordered
groups. `Compile` sets the flags of `NOTEXIST` blocks (`WeedAlts`) and inserts the
optional gaps (`TypeBlocks`). `aggregateQuery` fetches the insts of the object
blocks, outermost or innermost first, by the strategy the code chooses;
`getInst` is the retrieval of one inst with the look-behind and the limits it
takes from the substrate. `BlockStringSMI` and its parts compute the start
monads, `R_block_string`, `R_block`, ... match at one of them. A query is
executed in steps: `Execute` compiles, prefetches and finds the start monads,
`NextStartMonad` matches at the next one, `Finish` ends, and the callback may stop
the query at the beginning and after every list of straws.

The second part says what a query means, with none of that: `SpansOfBlock`,
`SpansOfString` and `Join` give the spans of monads that blocks match, wherever
they are, and `Meaning` the straws. The first four properties of the run relate the
two.

`SetOfMonads(first, last)` throws `BadMonadsException` when the ends are exchanged,
and `myExec` catches another exception only. `bad` says so of the making of an inst and
of a start monad iterator (`Ranges` has the ranges it makes), `Thrown` stands for the
straws of a call that threw, and the query ends in phase `"threw"`. `RangesInOrder`
says when that may happen.

Sets of monads are plain sets here (the runs about `SetOfMonads` show that the
class implements them). Straws are sets: their order within one start monad and
a straw found twice are not told apart. Object references, feature expressions
(one feature with two values stands for them), features that are sets of monads,
insts shared by equal blocks, focus and flat sheaves are left out. `USING RANGE`
is left out: `ChangeLog:7399` calls it experimental.

## 3. Runs

| Run | Instance | What it shows |
|---|---|---|
| `set_of_monads` | monads 1..6 | from every pair of sets, each method computes the set `MonadSets` says, and the representation stays canonical; pair tests, searches (with every hint), gaps and `fillInsertRange` agree with their set definitions; compact strings decode to the set they were made from; `FastSetOfMonads` agrees method by method |
| `transactions` | 3 commands, depth 2 | the protocol keeps `Durable`, `NothingUndoneIsStored` and `TransactionDiscipline`; `ProtocolInv` is the inductive invariant of the proof |
| `transaction_left_open` | 2 commands, depth 2 | violation: `OwnerEndsItsTransaction` |
| `object_store` | 1 type created once, ids 1..2, monads 1..2, 1 failure | tables, cache, length, extremes and ids, with explicit ids, batches, failures, transactions, crashes |
| `queries` | 1 type, monads 1..5 | `getObjectsHavingMonadsIn` returns exactly the objects that share a monad with the set asked for, for every set of monads, and none twice |
| `enumerations` | 2 labels, 2 values, lists of up to 2 changes | maps, table and lookups agree, assertions hold, enumerations are bijections with one default; crashes between the changes |
| `enumerations_faults` | 2 labels, 1 value, lists of 1, ids 1..2, 1 failure | the same with failing commands, and enumerations dropped and created again |
| `value_changes_hands` | as `enumerations` | violation: `MapsAgree` |
| `string_sets` | 2 processes that write, 2 strings, 4 statements and failures together | cached pairs, ids of objects, equality queries and own writes are right as long as no row was taken back; duplicates need an `UPDATE OBJECTS` outside a transaction; every statement returns, but for two named ways to block |
| `two_writers_wait` | 2 processes, 1 string, 2 statements | violation: `StatementsReturn` |
| `string_after_abort` | 1 process, 2 strings, 3 statements | violation: `AssociationThere` |
| `topographic_queries` | monads 1..6, up to 4 of 12 objects, 26 queries, 3 substrates | the matcher finds what the query means, no less and no more, fails only without a match, delivers matches in order, and throws for two reasons only |

Bounds. Six monads are enough for three ranges with gaps of different sizes
before, between and behind them, hence for every case distinction in
`monads.cpp`, which all compare two ranges and a neighbour. A depth of 2 has a
caller and a callee; entries of `frames` behind the first are all false while
`desync` is, so more depth adds nothing, and the proof holds for every depth. In
`ObjectStore` two objects of lengths 1 and 2 suffice to have a longest and a
shorter one, an object at an edge and one that is not, and a collision of ids.
`MIN_GAP` is 1 in the query instance (the code has a larger value), so that five
monads have gaps below, at and above the limit for every object length.
Two labels and two values let values change hands, a default be replaced, and a
label be removed and added; a list of two changes has a state in the middle.
`MAX_MONAD` is a number behind all monads in use. `Radix` is 2, where the code
has 64, so that the differences of up to 6 monads have one, two and three
digits, with zeros inside and at the end. Every pair of sets is the result of
`Exchange` in some state, and `FastSetsAgree` is evaluated there only, which saves
time and loses no pair.

Four statements of two processes are enough for two transactions with a statement
each, or for a writer that adds a string while the other one has read, loaded,
removed or rolled back; a failure counts as a statement.

The queries of `MCTopograph` have every kind of block, alone and in the combinations
in which one restricts where another one looks, and for each of the two exceptions
one query that meets it; twelve candidates overlap, nest, touch, leave gaps and have
gaps inside, and a fifth of the text, at which `getInst` drops its monad
constraints, is one monad, so that both ways of fetching occur. Queries that find
too much or too little (section 4) are not among them.

The programs that drive the system can always call something. `StringSets`
bounds the number of statements, so its runs end in states in which nothing is
left to do, and turn the deadlock check off; that nobody waits for ever is
what its temporal property says.

Fairness. Only `StringSets` has something that waits. `FairSpec` assumes weak
fairness of `Step(p)`, the next command of the statement that process `p` is
executing: the code is a loop that asks SQLite again as long as the answer is
`SQLITE_BUSY` (`sqlite3conn.cpp:218-224`, `getNextTuple` in `sqlite3conn.h`), so a
command that would be accepted from some time on is accepted. And weak
fairness of `EndTransaction(p)`: a program that began a transaction commits or
aborts it. Starting statements, failures and crashes are not fair. Since the
number of statements is bounded, the others stop issuing statements at
some time; starvation by an endless stream of them is not excluded by the run.
The other components are called by a program that may stop calling at any time,
and nothing in them waits.

## 4. Findings

* `transaction_left_open`: `createObject` and `dropObjectType` have an exit that
  leaves the transaction they began open.
* `value_changes_hands`: in a list such as `{ UPDATE a = 2, UPDATE b = 1 }` the
  map by value loses a constant, and the next lookup of its value throws.
* `two_writers_wait`: two processes in `CREATE OBJECT` can wait for each other
  for ever, because the one that has looked up a string keeps its shared lock
  while it asks for the reserved one that the other, who wants to commit, has.
* `string_after_abort`: a string added in an aborted transaction stays in the
  cache; the next object that is given it gets an id without a row.

More disagreements between code and documentation, or between parts of the code,
were met while modelling. They are recorded here without a run.

Sets of monads: `offset` moves the cached bounds of an empty set, and a later
`addMSE` then fills a gap (`monads.cpp:1548`; `AddIsUnion` with `OffsetsEmptySets`
shows it). `removeMonadsBefore` changes the first monad of a range in
the map but not its key (`monads.cpp:2914`, `2932`), so a range added before
it later can find its key taken and is lost, and the assertion at `monads.cpp:2430`
fails; only the tests call it.

Objects: the cached largest object length survives `ABORT TRANSACTION`, and an
object of that length created later does not raise the length in the database
(`emdfdb.cpp:1683`; `LengthIsThatOfTheLongest` states it and fails).
`dropObjectType` does not recompute `min_m`/`max_m` (`emdfdb.cpp:1357`), although
the comments of `getMin_m` and `getMax_m` give defaults for a database without
objects (`ExtremesExact` therefore excludes `loose` databases). `CREATE OBJECTS`
accepts an id that an object of another type has, although `README.md:60` of the
repository says that `self` is unique in the database.

Enumerations: `{ ADD DEFAULT b = 1, REMOVE a }` with `a = 1` passes the checks,
fails after the `INSERT`, and leaves two labels with one value (`NEWS:1040`;
`ValuesDistinct`). `{ REMOVE a, UPDATE DEFAULT a = 2 }` with default `a` leaves an
enumeration without a default (`EnumCatalog` only has lists whose labels are
different).

String sets: a process whose cache is complete fails on an object whose string
another process added later. Two `UPDATE OBJECTS` at the same time can put a
string into the set twice. `ADD` of a `FROM SET` feature leaves the text of the
default in the objects there are. After `REMOVE` and `ADD` of the feature the
cache serves the ids of the old set; a set loaded in a transaction that removed
the feature and was aborted stays "complete". `DROP OBJECT TYPE` leaves the set
tables, an aborted `UPDATE OBJECT TYPE` leaves the feature in `m_feature_cache`.
`SQLITE_BUSY` from `sqlite3_prepare` is not retried.

Matcher:
* `[A] OR NOTEXIST [B]`: the flag that says a block came before `NOTEXIST` goes
  on from one alternative to the next (`mql_query.cpp:5590` against `NEWS:151-161`).
* A power block followed by a group with `OR` that can match nothing (an optional
  gap, a star with 0) may find a match that starts before the previous block.
* A block with `overlap` after a power block, or a `NOTEXIST` block with `overlap` at the
  end of the text, may throw `BadMonadsException` (`monads.h:102`): the range from
  its lower bound to the first monad of the substrate has its ends exchanged
  (`mql_query.cpp:4598`), whatever the query matches (`RangesInOrder`). Where it does not,
  `[A] .. BETWEEN 1 AND 3 [B overlap(substrate)]` finds a `B` that is nearer to the `A`
  than one monad, or lies before it, against `NEWS:1239-1243`: the start monads go back by
  the longest object (`mql_query.cpp:4567`), and only the upper limit is compared
  (`PowerSeparates`, which TLC refutes for `Queries <- MCPowerQuery`).
* `[A [B rel(universe)]]` throws `BadMonadsException` (`mql_R.cpp:239`) if no `A` is
  found, also where another alternative of an `OR` matches, although the comment at
  `mql_query.cpp:4410-4413` says that empty insts are made to be able to run the query
  (`RunsWithEmptyInsts`, which TLC refutes for the queries of the run).
* A star with 0, or a `NOTEXIST` block, at the beginning and before a gap misses
  matches.
* Innermost-first with `overlap` or `starts_in` on the outer block misses inner
  objects outside the substrate: the guard at `mql_query.cpp:4699` is commented
  out (`ChangeLog:3645-3650`). So does `[gap [B overlap(substrate)]]` at top level.
* An unbounded star on a group that can match nothing does not end.

## 5. Proofs

`EMdFConnection_proofs` proves, for every `MaxCommands` and `MaxDepth`:

* `ProtocolCorrect`: `Spec => []ProtocolInv`
* `CommittedIsDurable`: `Spec => []Durable`
* `UndoneStaysUndone`: `Spec => []NothingUndoneIsStored`
* `DisciplineHolds`: `Spec => []TransactionDiscipline`

None of the three safety properties is inductive. `Durable` needs that what a
method has written is not on disk before the owner commits, and afterwards is
all that `work` had; that needs the flag to agree with SQLite whenever a
statement starts; that needs that only the first frame can own the transaction,
and that it does not while the program has one of its own. `ProtocolInv` says so
in three parts: `FlagInv` relates flag, stack and `begun`; `SqliteInv` relates
the flag to SQLite's transaction, which may be gone while an error travels up
(`failing`); `OutcomeInv` relates the two databases and what the program was
told. The proof has one lemma per group of actions, under the hypothesis that
`desync` is still false (`DesyncStays`: it never returns to false). The only
assumption is `BoundsAssumption`.

Sequences appear in the proof only through `Append` and `SubSeq` of `frames`
(`CallerFacts`).

`ObjectStore_proofs` proves, for any set of types and any bounds on monads, ids
and failures:

* `TablesAlwaysHaveTypes`, `CacheAlwaysCoherent`, `LengthsAlwaysBound`,
  `DerivedValuesAlwaysBound`, `ExtremesAlwaysExact`, `IdsAlwaysUnique`: the
  invariants of run `object_store` that do not speak of queries;
* `StoreTypes`: `Spec => []TypeOK`;
* `LookBehindAlwaysComplete`: the query for one stretch of monads finds every
  object that has a monad in it;
* `QueriesAlwaysExact`, `StretchesAlwaysDisjoint`: a query for any set of monads
  finds exactly the objects that have a monad in it, and none for two stretches.

The invariants need each other. That a recomputation over all types in
`object_types` reaches every object needs `TablesHaveTypes`; that
`setLargestObjectLengthIfNecessary`, which compares with the cached length,
leaves a sufficient one in the database needs `CacheCoherent`; that the length
0 of a new type covers its objects needs that a type without a row has none.
`StoreInv` is their conjunction with the types, for the database as seen and as
stored. The argument about a statement is always the same: between its commands
`Partial` holds (tables, ids, cache), and at its end `Complete`; `FinishKeeps`
and `FailKeeps` conclude from this that `StoreInv` holds however the statement
ends. There is a lemma per statement (`CreateObjectKeeps`, ...), and lemmas
about the commands they share (`SetLength`, `RaiseLength`, `Recompute`,
`ExtremesGrow`, ...). `CreateObjectsKeeps` is for batches of any size, although
`CreateObjects` has batches of at most two. The only assumption is
`StoreAssumption`: the bounds are numbers, and the monads of objects lie below
`MAX_MONAD`.

The theorems about queries join `StoreInv` with the lemmas about sets of monads
(below). `SomOfExact`: the object built by `addRange` covers just the monads asked
for. `StretchesAre`, from `FillRep` and `FillLeavesWide`: the stretches cover them,
and lie more than the length that looks behind apart. `FoundIs`, from `RangeExact`:
the test of a row is an intersection. With `LargestObjectLengthBounds` and
`CacheCoherent` no object is missed. That none is found twice does not need them: a
wrong length separates the stretches as far as it looks behind. It needs
`DerivedValuesBound`, for the shortcut of a stretch from `min_m` to `max_m`.

`EnumCatalog_proofs` proves, for any number of enumerations, labels and values
and for lists of any length:

* `CacheAlwaysCoherent`, `AssertionsAlwaysHold`, `EnumerationsAlwaysSound`,
  `LookupsAlwaysExact`: all the invariants of runs `enumerations` and
  `enumerations_faults`;
* `CatalogTypes`: `Spec => []TypeOK`.

`CatalogInv` is the inductive invariant. The hard part is `EnumerationsSound`: the
statement checks its whole list, and then makes the changes one by one, through
states in which two constants may have one value or none may be the default.
`Plan` says of the rows as they are and of the changes still to make what the two
together will make: `PlannedNames`, `PlannedValues` and `PlannedDefault` or
`NamedDefault`. The checks of `CREATE` and `UPDATE ENUMERATION` establish it for
the whole list, every change keeps it for the rest of the list, and with an empty
list it is the soundness of the enumeration. The other part is `Trusted`: each
cached enumeration is in both maps, with the rows the table has, unless something
made the cache suspect. The recursion of `getEnumConstants` and of the lookups of
a list are solved by `Recursion` of `Induction`.

`StringSets_proofs` proves, for any set of processes and strings and any number
of statements and faults:

* `LocksAlwaysSound`, `CachedPairsAlwaysStored`, `ValuesAlwaysExact`,
  `DuplicatesAlwaysNeedNoTransaction`, `OwnWritesAlwaysRead`,
  `EqualityAlwaysExact`: all the safety properties of run `string_sets`;
* `StringSetsTypes`: `Spec => []TypeOK`.

`StringSetsInv` is inductive. `LocksSound` comes first: that at most one process has
a lock to write, and nobody reads while it commits, makes it possible to speak of one
database `file` and one set of uncommitted changes `work`. `DatabaseSound` holds of
both, since a process may be killed between any two commands: ids without gaps, so
that the next one is new; a row for every value that was given an id surely; and no
string twice in transactions. `OwnersWrite` says that only the process with the lock
has values in `work`. `ProcessInv` says of each process that its cached pairs are
rows of the database it reads (`CacheSound`), that it has cached what it wrote
(`OwnWritesCached`), what it knows in the middle of a lookup (`LookedUp`), and that
the commands about a feature are within a transaction, in which the string set goes
only when the column is gone (`Altering`).

`SetOfMonads_proofs` proves, for every `MaxMonad` and every `MAX_MONAD` above it,
and for lists of any length, provided that `~OffsetsEmptySets`:

* `MethodsImplementSets`: `Spec => RefinesMonadSets`, every method does to the set
  of monads what `MonadSets` says of it;
* `RepresentationAlwaysSound`, `PairTestsAlwaysCorrect`, `SearchesAlwaysCorrect`,
  `FillInsertAlwaysKeeps`, `GapsAlwaysCorrect`: the invariants of run
  `set_of_monads` on the class itself;
* `CompactStringsAlwaysDecode`: the compact strings of either form, for every base
  and `MAX_MONAD` that `RadixAssumption` admits;
* `FastSetsAlwaysAgree`: every method of `FastSetOfMonads` does what its namesake
  does, for every two sets the methods build;
* `AddAlwaysUnites`: `addMSE` is a union, as its comment says. No run has it; it
  is what the offset of an empty set violates.

The hypothesis is the one place where the class does not keep its invariant:
`offset` on an empty set (section 4). With `OffsetsEmptySets = TRUE` the theorems
are false, and TLC shows it.

`RepresentationInv` says that neighbours in the list do not touch and that the
cached bounds are those of the list. It is not inductive without the bounds on
the monads: the empty set has `m_first = MAX_MONAD`, and `addMSE` takes the lesser
of that and the new first monad. `ObjectsInv` therefore says of both objects that
they are in `Rep` and hold monads in use only.

The induction over the list is done as follows. `FoldLeft`, and the recursive
functions of `intersect`, `overlap` and `part_of`, are defined by `CHOOSE`: what they
yield is known only after it is shown that a function with the recursion's equation
exists. `Loops` shows this once, for a loop body that is a parameter of the module
(by induction on the number of elements, with a set in the place of the predicate;
that this is valid is the hypothesis `Inductive` of its lemmas, because a module
with twenty instances should extend little, and `NumbersInduct` of `Induction` proves
it), and `Monads_proofs` instantiates it with every loop body of
`monads.cpp`: `insertVisit`, `removeVisit`, `fillVisit`, ... . What is left is a
loop invariant for each, in the sense of Hoare: `InsertInv` (what lies before, in and
behind the element being merged is kept apart), `RemoveInv`, `FillInv`, and for the
walks along two lists the set that both still have in common. `AddRep`,
`RemoveRep`, `IntersectRep`, `GapsRep`, `FillRep`, `OffsetRep`, `FillInsertRep` say
what each method does to a list in `Rep`; `PartExact`, `OverlapExact`,
`MemberExact`, `HintExact`, `RangeExact`, `GapExistsExact`, `LargerGapExact` say
what the tests and searches answer.

The proof about compact strings has three parts. `DigitsMake` and `NumString`: the
digits written for a number, without the leading zeros, make it again. `Writes`
and `StringPositions`: where the string of each range is in what the loop over the
ranges writes. And what the readers know where they are: `RangesReadTo` behind the
string of a range for `fromCompactString`, which has added all the ranges but
the last and has that one in its variables; `ReadTo` for `fromCompactStringFM`,
which is at the number behind a separator. `NextRange` and `AllRanges` say that
adding the ranges of a set in their order makes the set.

The proof of `FastSetsAlwaysAgree` does not compare the loops of the two classes
turn by turn, for they visit different ranges. `FRep` is for maps what `Rep` is for
lists: keys are first monads, ranges do not touch, the cached bounds are exact. One
set of monads has one such map (`IsFrom`: an object in `FRep` with the monads of a
set is what `fromSetOfMonads` makes of it), so it is enough to know which monads a
method leaves. `FastAddRep` and `FastRemoveRep` say that of the two loops with
iterators of their own. The step back from `upper_bound` (`CarefulStart`) leaves
nothing to be merged or cut before the iterator. The loop of `removeMSE` may
go back, but only after it has erased a range that begins within the removed one
(`TurnsLeft` decreases with every turn). The other changes are folds of `addMSE` and
`removeMSE` over the same ranges in the same order, and these do agree turn by
turn. `ElementsAre` says that an iterator goes through the ranges in the order of the
list; `FastSearch` what the three searches by key find, from which the tests follow.
`removeMonadsBefore` stands apart: the range that it cuts stays under its old key, so
its result is not in `FRep`; `RestOf` says what holds of it.

Only model-checked:

* `StatementsReturnOrBlock` of `StringSets`, which is liveness under fairness;
* everything about `Topograph`: the matcher is a `RECURSIVE` operator over the
  query, in whose module no theorem can be proved.

That the properties of `object_store` hold with several types, where extremes are
recomputed over all of them and types are dropped and created again, is part of
the theorems, which are for every set of types.

## 6. Plan

Done: sets of monads with compact strings and `FastSetOfMonads`; transactions;
object store and stretch queries; enumerations; string sets with several
processes; the matcher. Left, in this order:

1. `ObjectStore`: `UPDATE OBJECTS`, monad sets, features other than `FROM SET`.
2. Enumerations: `getEnumConstNameFromValue` and features of enumeration types.
3. `Topograph`: object references, features that are sets of monads, insts shared by
   equal blocks.

## 7. Not modelled

* MySQL, PostgreSQL and BPT back ends: the same `EMdFDB` interface; the first
  two have their own transaction semantics, the last is read-only.
* Lexer and parser: generated from grammars.
* Full-text search, harvesting, rendering, importers, exporters: applications of
  the library; input and output dominate.
* Language bindings: generated wrappers.
* `sqlite3`, `pcre`, `zlib`, `lzma`: vendored, and most of the lines of the
  repository (`sqlite3.c` and its shell alone have a quarter of a million).
  SQLite's transactions and locks, and `std::map`, appear as far as the code relies
  on them. The models cover a share of Emdros' own engine, `EMdF/` and `MQL/`,
  not of the repository.
* `USING RANGE`, object references, feature expressions, focus and flat sheaves of
  queries; feature types other than `FROM SET`; monad sets stored in the database.
* `vacuum`, result sets, logging, error texts: no property is about them.
