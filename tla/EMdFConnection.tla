--------------------------- MODULE EMdFConnection ---------------------------
(***************************************************************************)
(* The transaction protocol between EMdFDB's methods and the SQLite 3      *)
(* connection (src/EMdF/sqlite3conn.cpp).                                  *)
(*                                                                         *)
(* SQLite3EMdFConnection keeps a flag, m_bTransactionInProgress, and       *)
(* trusts it to say whether SQLite has a transaction open.  Every EMdFDB   *)
(* method that writes follows one idiom:                                   *)
(*                                                                         *)
(*     bDoCommit = pConn->beginTransaction();                              *)
(*     ... commands and nested calls; on an error:                         *)
(*             if (bDoCommit) pConn->abortTransaction();  return false;    *)
(*     if (bDoCommit) pConn->commitTransaction();  return true;            *)
(*                                                                         *)
(* so that only the outermost method ends a transaction, and none does if  *)
(* the program began one itself.  The model has the call stack of such     *)
(* methods, SQLite's own state, and the ways in which commands fail.  The  *)
(* contents of the database are the set of commands that took effect.      *)
(***************************************************************************)
EXTENDS Naturals, Sequences, FiniteSets

CONSTANTS
    MaxCommands,        \* bound on the number of commands that write
    MaxDepth            \* bound on the nesting of EMdFDB methods

ASSUME BoundsAssumption == MaxCommands \in Nat /\ MaxDepth \in Nat \ {0}

VARIABLES
    open,               \* m_pDB # 0
    inProgress,         \* m_bTransactionInProgress
    inTx,               \* SQLite has a transaction open
    work,               \* the commands whose effect this connection sees
    stored,             \* the commands whose effect is on disk
    frames,             \* bDoCommit of the EMdFDB methods being executed
    failing,            \* a method or command has just returned false
    issued,             \* the number of commands issued so far
    \* History variables:
    begun,              \* the program was told its own transaction started
    current,            \* the commands of the outermost method
    acked,              \* the commands the program was told are committed
    undone,             \* the commands the program was told are not
    desync              \* the flag and SQLite have come apart at some time

vars == <<open, inProgress, inTx, work, stored, frames, failing, issued,
          begun, current, acked, undone, desync>>

sqlite == <<inTx, work, stored>>

Command == 1..MaxCommands

TypeOK ==
    /\ open \in BOOLEAN /\ inProgress \in BOOLEAN /\ inTx \in BOOLEAN
    /\ work \in SUBSET Nat /\ stored \in SUBSET Nat
    /\ frames \in Seq(BOOLEAN) /\ failing \in BOOLEAN /\ issued \in Nat
    /\ begun \in BOOLEAN /\ desync \in BOOLEAN
    /\ current \in SUBSET Nat /\ acked \in SUBSET Nat /\ undone \in SUBSET Nat

Init ==
    /\ open = TRUE /\ inProgress = FALSE /\ inTx = FALSE
    /\ work = {} /\ stored = {}
    /\ frames = << >> /\ failing = FALSE /\ issued = 0
    /\ begun = FALSE /\ current = {} /\ acked = {} /\ undone = {}
    /\ desync = FALSE

-----------------------------------------------------------------------------
\* SQLite

SqlCommit == inTx /\ inTx' = FALSE /\ stored' = work /\ UNCHANGED work

\* COMMIT returns an error other than SQLITE_BUSY: there was nothing to
\* commit, or SQLite rolled back, or the transaction is still open.
SqlCommitFails ==
    \/ ~inTx /\ UNCHANGED sqlite
    \/ inTx /\ inTx' = FALSE /\ work' = stored /\ UNCHANGED stored
    \/ inTx /\ UNCHANGED sqlite

\* ROLLBACK, or an error of ROLLBACK because no transaction is open.
SqlRollback == inTx' = FALSE /\ work' = stored /\ UNCHANGED stored

\* A command fails; on some errors SQLite rolls the whole transaction back.
SqlFails == UNCHANGED sqlite \/ (inTx /\ SqlRollback)

-----------------------------------------------------------------------------
\* SQLite3EMdFConnection

\* Mutant of beginTransaction: true although one is in progress already.
beginTransactionNested(result) ==
    /\ result = (open /\ (inProgress \/ ~inTx))
    /\ inProgress' = (inProgress \/ open)
    /\ inTx' = (inTx \/ (open /\ ~inProgress))
    /\ UNCHANGED <<work, stored>>

\* BEGIN takes no lock and touches no file; it fails where SQLite already has a
\* transaction open.  The flag is set before BEGIN is executed.
beginTransaction(result) ==
    /\ result = (open /\ ~inProgress /\ ~inTx)
    /\ inProgress' = (inProgress \/ open)
    /\ inTx' = (inTx \/ (open /\ ~inProgress))
    /\ UNCHANGED <<work, stored>>

\* Mutant of commitTransaction: the flag is cleared, COMMIT is not executed.
commitTransactionFlag(result) ==
    /\ result = (open /\ inProgress)
    /\ inProgress' = (inProgress /\ ~open)
    /\ UNCHANGED sqlite

\* The flag is cleared before COMMIT is executed.
commitTransaction(result) ==
    IF open /\ inProgress
    THEN /\ inProgress' = FALSE
         /\ \/ result = TRUE /\ SqlCommit
            \/ result = FALSE /\ SqlCommitFails
    ELSE result = FALSE /\ UNCHANGED <<inProgress, sqlite>>

\* Mutant of abortTransaction: the flag is cleared, ROLLBACK is not executed.
abortTransactionFlag ==
    inProgress' = (inProgress /\ ~open) /\ UNCHANGED sqlite

abortTransaction ==
    IF open /\ inProgress
    THEN inProgress' = FALSE /\ SqlRollback
    ELSE UNCHANGED <<inProgress, sqlite>>

-----------------------------------------------------------------------------
\* The program: BEGIN, COMMIT and ABORT TRANSACTION between statements

idle == frames = << >>

Begin ==
    /\ idle
    /\ \E result \in BOOLEAN :
          beginTransaction(result) /\ begun' = (begun \/ result)
    /\ UNCHANGED <<open, frames, failing, issued, current, acked, undone, desync>>

Commit ==
    /\ idle
    /\ \E result \in BOOLEAN :
          /\ commitTransaction(result)
          /\ acked' = IF result THEN acked \cup work ELSE acked
          /\ undone' = IF begun /\ ~result THEN undone \cup (work \ stored) ELSE undone
          /\ desync' = (desync \/ (inTx /\ inTx'))
    /\ begun' = FALSE
    /\ UNCHANGED <<open, frames, failing, issued, current>>

Abort ==
    /\ idle
    /\ abortTransaction
    /\ begun' = FALSE
    /\ undone' = IF begun THEN undone \cup (work \ stored) ELSE undone
    /\ UNCHANGED <<open, frames, failing, issued, current, acked, desync>>

\* deleteDatabase commits what is in progress and closes the connection, on
\* which SQLite rolls back what is still open; then the new file is opened
\* if it exists.
useDatabaseSQLite3(exists) ==
    /\ idle
    /\ \E result \in BOOLEAN :
          /\ IF open /\ inProgress
             THEN \/ result = TRUE /\ inTx /\ stored' = work
                  \/ result = FALSE /\ stored' = stored
             ELSE result = FALSE /\ stored' = stored
          /\ acked' = IF result THEN acked \cup work ELSE acked
          /\ undone' = IF begun /\ ~result THEN undone \cup (work \ stored) ELSE undone
    /\ work' = stored'
    /\ inProgress' = FALSE /\ inTx' = FALSE
    /\ open' = exists
    /\ begun' = FALSE
    /\ UNCHANGED <<frames, failing, issued, current, desync>>

-----------------------------------------------------------------------------
\* EMdFDB methods

Enter ==
    /\ Len(frames) < MaxDepth
    /\ ~failing
    /\ \E bDoCommit \in BOOLEAN :
          beginTransaction(bDoCommit) /\ frames' = Append(frames, bDoCommit)
    /\ current' = IF idle THEN {} ELSE current
    /\ UNCHANGED <<open, failing, issued, begun, acked, undone, desync>>

\* Outside a transaction SQLite commits each command by itself.
execCommand ==
    /\ ~idle /\ ~failing /\ open
    /\ issued < MaxCommands
    /\ issued' = issued + 1
    /\ work' = work \cup {issued'}
    /\ stored' = IF inTx THEN stored ELSE work'
    /\ current' = current \cup {issued'}
    /\ UNCHANGED <<open, inProgress, inTx, frames, failing, begun, acked, undone, desync>>

\* Without a database every command fails.
execCommandFails ==
    /\ ~idle /\ ~failing
    /\ failing' = TRUE
    /\ SqlFails
    /\ desync' = (desync \/ (begun /\ inTx /\ ~inTx'))
    /\ UNCHANGED <<open, inProgress, frames, issued, begun, current, acked, undone>>

bDoCommitOfCallee == frames[Len(frames)]

caller == SubSeq(frames, 1, Len(frames) - 1)

\* What the program concludes when the outermost method returns.
Outcome(success) ==
    /\ acked' = IF success /\ caller = << >> /\ ~begun
                THEN acked \cup current ELSE acked
    /\ undone' = IF ~success /\ caller = << >> /\ ~begun
                 THEN undone \cup current ELSE undone
    /\ UNCHANGED <<begun, current>>

ReturnTrue ==
    /\ ~idle /\ ~failing
    /\ frames' = caller
    /\ \E result \in BOOLEAN :
          /\ IF bDoCommitOfCallee THEN commitTransaction(result)
             ELSE result = TRUE /\ UNCHANGED <<inProgress, sqlite>>
          /\ failing' = (~result /\ caller # << >>)
          /\ desync' = (desync \/ (~result /\ inTx'))
          /\ Outcome(result)
    /\ UNCHANGED <<open, issued>>

ReturnFalse ==
    /\ ~idle /\ failing
    /\ frames' = caller
    /\ IF bDoCommitOfCallee THEN abortTransaction
       ELSE UNCHANGED <<inProgress, sqlite>>
    /\ failing' = (caller # << >>)
    /\ Outcome(FALSE)
    /\ UNCHANGED <<open, issued, desync>>

\* EMdFDB::createObject catches EMdFDBDBError, which setting a feature value
\* throws after a failed command, and returns false without aborting; so does
\* dropObjectType where the object range type cannot be read.
createObjectCatches ==
    /\ ~idle /\ failing
    /\ frames' = caller
    /\ UNCHANGED <<inProgress, sqlite>>
    /\ failing' = (caller # << >>)
    /\ desync' = (desync \/ bDoCommitOfCallee)
    /\ Outcome(FALSE)
    /\ UNCHANGED <<open, issued>>

\* The process dies, at any point, and the database is opened again.
Crash ==
    /\ work' = stored /\ inTx' = FALSE /\ inProgress' = FALSE
    /\ open' = TRUE /\ frames' = << >> /\ failing' = FALSE
    /\ begun' = FALSE
    /\ undone' = IF begun THEN undone \cup (work \ stored) ELSE undone
    /\ UNCHANGED <<stored, issued, current, acked, desync>>

Next ==
    \/ Begin \/ Commit \/ Abort
    \/ \E exists \in BOOLEAN : useDatabaseSQLite3(exists)
    \/ Enter \/ execCommand \/ execCommandFails
    \/ ReturnTrue \/ ReturnFalse \/ createObjectCatches
    \/ Crash

Spec == Init /\ [][Next]_vars

-----------------------------------------------------------------------------
\* As long as the flag and SQLite have not come apart, what the program was
\* told is committed (its own COMMIT returned true, or a method it called
\* outside a transaction of its own did) is on disk and stays there, through
\* crashes and changes of database.
Durable == ~desync => acked \subseteq stored

\* As long as the flag and SQLite have not come apart, nothing of what the
\* program was told failed or was aborted ever reaches the disk: no nested
\* method commits the work of a caller that fails later.
NothingUndoneIsStored == ~desync => undone \cap stored = {}

\* Between statements, as long as the flag and SQLite have not come apart, a
\* transaction is in progress exactly if the program began one, SQLite
\* agrees, and without one nothing is waiting to be written.
TransactionDiscipline ==
    ~desync /\ idle =>
       /\ inProgress = begun
       /\ inTx = begun
       /\ ~begun => work = stored

\* The idiom of the Programmer's Reference (doc/progref/Content.txt): a method
\* that began a transaction has ended it, one way or the other, when it
\* returns.
OwnerEndsItsTransaction ==
    [][frames = <<TRUE>> /\ frames' = << >> => ~inProgress']_vars

-----------------------------------------------------------------------------
\* The inductive invariant: what relates the flag, SQLite, the call stack and
\* the program's knowledge while the flag and SQLite have not come apart.

owner == frames # << >> /\ frames[1]

FlagInv ==
    /\ idle => ~failing
    /\ \A i \in DOMAIN frames : frames[i] => i = 1 /\ ~begun
    /\ inProgress = (begun \/ owner)
    /\ inProgress => open
    /\ ~idle /\ ~inProgress => ~open

SqliteInv ==
    /\ inTx => inProgress
    /\ begun => inTx
    /\ ~failing => inTx = inProgress
    /\ ~inTx => work = stored
    /\ stored \subseteq work
    /\ work \subseteq 1..issued

OutcomeInv ==
    /\ acked \subseteq stored
    /\ undone \cap work = {}
    /\ undone \subseteq 1..issued /\ current \subseteq 1..issued
    /\ owner => current \cap stored = {}
    /\ owner /\ ~failing => current \subseteq work
    /\ ~idle /\ ~inProgress => current = {}

\* While the flag and SQLite agree, the flag, the transaction, the call stack
\* and what the program has been told fit together: the invariant from which
\* the properties above follow.
ProtocolInv == TypeOK /\ (~desync => FlagInv /\ SqliteInv /\ OutcomeInv)
=============================================================================
