----------------------- MODULE EMdFConnection_proofs ------------------------
(***************************************************************************)
(* Proofs about the transaction protocol, for any number of commands and   *)
(* any depth of nested methods.                                            *)
(***************************************************************************)
EXTENDS EMdFConnection, SequenceTheorems, TLAPS

-----------------------------------------------------------------------------
\* The call stack without the method that returns: one frame shorter, and the
\* callers' frames are as they were.
LEMMA CallerFacts ==
    ASSUME TypeOK, ~idle
    PROVE  /\ caller \in Seq(BOOLEAN)
           /\ Len(frames) \in Nat \ {0}
           /\ Len(caller) = Len(frames) - 1
           /\ DOMAIN caller = 1..(Len(frames) - 1)
           /\ \A i \in 1..(Len(frames) - 1) : caller[i] = frames[i]
           /\ caller = << >> <=> Len(frames) = 1
  <1>1. Len(frames) \in Nat \ {0}
    BY EmptySeq, LenProperties DEF TypeOK, idle
  <1>2. /\ caller \in Seq(BOOLEAN)
        /\ Len(caller) = Len(frames) - 1
        /\ \A i \in 1..(Len(frames) - 1) : caller[i] = frames[i]
    <2> DEFINE n == Len(frames) - 1
    <2>1. n \in Nat
      BY <1>1
    <2>2. \A i \in 1..n : frames[i] \in BOOLEAN /\ 1 + i - 1 = i
      BY <1>1, LenProperties DEF TypeOK
    <2> HIDE DEF n
    <2>0. n - 1 + 1 = n /\ (1 <= n \/ n = 0)
      BY <2>1
    <2>3. /\ SubSeq(frames, 1, n) \in Seq(BOOLEAN)
          /\ Len(SubSeq(frames, 1, n)) = IF 1 <= n THEN n - 1 + 1 ELSE 0
          /\ \A i \in 1..(n - 1 + 1) : SubSeq(frames, 1, n)[i] = frames[1 + i - 1]
      BY <2>1, <2>2, SubSeqProperties
    <2>4. Len(SubSeq(frames, 1, n)) = n
      <3>1. CASE 1 <= n        BY <2>0, <2>3, <3>1, Zenon
      <3>2. CASE ~(1 <= n)     BY <2>0, <2>3, <3>2, Zenon
      <3> QED  BY <3>1, <3>2
    <2>5. \A i \in 1..n : SubSeq(frames, 1, n)[i] = frames[i]
      BY <2>0, <2>2, <2>3, Zenon
    <2> QED  BY <2>3, <2>4, <2>5, Zenon DEF caller, n
  <1>3. DOMAIN caller = 1..(Len(frames) - 1)
    BY <1>1, <1>2, LenProperties
  <1>4. caller = << >> <=> Len(frames) = 1
    BY <1>1, <1>2, EmptySeq
  <1> QED  BY <1>1, <1>2, <1>3, <1>4

\* The steps of the connection keep the types of its state.
LEMMA TypeStep == TypeOK /\ [Next]_vars => TypeOK'
  <1> SUFFICES ASSUME TypeOK, [Next]_vars PROVE TypeOK'
    OBVIOUS
  <1> USE DEF sqlite
  <1>1. CASE Begin
    BY <1>1 DEF TypeOK, Begin, beginTransaction
  <1>2. CASE Commit
    BY <1>2 DEF TypeOK, Commit, commitTransaction, SqlCommit, SqlCommitFails
  <1>3. CASE Abort
    BY <1>3 DEF TypeOK, Abort, abortTransaction, SqlRollback
  <1>4. ASSUME NEW exists \in BOOLEAN, useDatabaseSQLite3(exists) PROVE TypeOK'
    BY <1>4 DEF TypeOK, useDatabaseSQLite3
  <1>5. CASE Enter
    BY <1>5 DEF TypeOK, Enter, beginTransaction
  <1>6. CASE execCommand
    BY <1>6 DEF TypeOK, execCommand
  <1>7. CASE execCommandFails
    BY <1>7 DEF TypeOK, execCommandFails, SqlFails, SqlRollback
  <1>8. CASE ReturnTrue
    BY <1>8, CallerFacts
       DEF TypeOK, ReturnTrue, Outcome, commitTransaction, SqlCommit, SqlCommitFails
  <1>9. CASE ReturnFalse
    BY <1>9, CallerFacts DEF TypeOK, ReturnFalse, Outcome, abortTransaction, SqlRollback
  <1>10. CASE createObjectCatches
    BY <1>10, CallerFacts DEF TypeOK, createObjectCatches, Outcome
  <1>11. CASE Crash
    BY <1>11, EmptySeq DEF TypeOK, Crash
  <1>12. CASE UNCHANGED vars
    BY <1>12 DEF TypeOK, vars
  <1> QED
    BY <1>1, <1>2, <1>3, <1>4, <1>5, <1>6, <1>7, <1>8, <1>9, <1>10, <1>11, <1>12 DEF Next

-----------------------------------------------------------------------------
\* The parts of ProtocolInv that hold while the flag and SQLite agree.
AgreeInv == FlagInv /\ SqliteInv /\ OutcomeInv

\* The state of the program between two statements, seen through AgreeInv.
LEMMA IdleFacts ==
    ASSUME TypeOK, AgreeInv, idle
    PROVE  ~failing /\ ~owner /\ inProgress = begun /\ inTx = begun
  BY DEF TypeOK, AgreeInv, FlagInv, SqliteInv, owner, idle

\* BEGIN TRANSACTION keeps flag, SQLite and the program's knowledge in step.
LEMMA AgreeBegin ==
    ASSUME TypeOK, AgreeInv, Begin PROVE AgreeInv'
  <1> USE IdleFacts DEF TypeOK, AgreeInv, Begin, beginTransaction, idle, owner
  <1>1. FlagInv'    BY DEF FlagInv
  <1>2. SqliteInv'  BY DEF SqliteInv, FlagInv
  <1>3. OutcomeInv' BY DEF OutcomeInv
  <1> QED  BY <1>1, <1>2, <1>3

\* COMMIT TRANSACTION keeps flag, SQLite and the program's knowledge in step,
\* unless the COMMIT fails and leaves SQLite's transaction open.
LEMMA AgreeCommit ==
    ASSUME TypeOK, AgreeInv, Commit, ~desync' PROVE AgreeInv'
  <1> USE IdleFacts DEF TypeOK, AgreeInv, Commit, commitTransaction, SqlCommit,
                        SqlCommitFails, sqlite, idle, owner
  <1>1. FlagInv'    BY DEF FlagInv
  <1>2. SqliteInv'  BY DEF SqliteInv, FlagInv
  <1>3. OutcomeInv' BY DEF OutcomeInv, SqliteInv
  <1> QED  BY <1>1, <1>2, <1>3

\* ABORT TRANSACTION keeps them in step.
LEMMA AgreeAbort ==
    ASSUME TypeOK, AgreeInv, Abort PROVE AgreeInv'
  <1> USE IdleFacts DEF TypeOK, AgreeInv, Abort, abortTransaction, SqlRollback,
                        sqlite, idle, owner
  <1>1. FlagInv'    BY DEF FlagInv
  <1>2. SqliteInv'  BY DEF SqliteInv, FlagInv
  <1>3. OutcomeInv' BY DEF OutcomeInv, SqliteInv, FlagInv
  <1> QED  BY <1>1, <1>2, <1>3

\* USE DATABASE keeps them in step, whether or not its COMMIT succeeds.
LEMMA AgreeUseDatabase ==
    ASSUME TypeOK, AgreeInv, NEW exists \in BOOLEAN, useDatabaseSQLite3(exists)
    PROVE  AgreeInv'
  <1> USE IdleFacts DEF TypeOK, AgreeInv, useDatabaseSQLite3, idle, owner
  <1>1. FlagInv'    BY DEF FlagInv
  <1>2. SqliteInv'  BY DEF SqliteInv, FlagInv
  <1>3. OutcomeInv' BY DEF OutcomeInv, SqliteInv, FlagInv
  <1> QED  BY <1>1, <1>2, <1>3

\* A crash and the next start of the program keep them in step.
LEMMA AgreeCrash ==
    ASSUME TypeOK, AgreeInv, Crash PROVE AgreeInv'
  <1> USE DEF TypeOK, AgreeInv, Crash, idle, owner
  <1>0. frames' = << >> /\ \A i \in DOMAIN frames' : FALSE
    OBVIOUS
  <1>1. FlagInv'    BY <1>0 DEF FlagInv
  <1>2. SqliteInv'  BY DEF SqliteInv
  <1>3. undone' \cap work' = {} /\ undone' \subseteq 1..issued'
    BY DEF OutcomeInv, SqliteInv
  <1>4. OutcomeInv' BY <1>3 DEF OutcomeInv, SqliteInv
  <1> QED  BY <1>1, <1>2, <1>4

-----------------------------------------------------------------------------
\* A method is entered: only the outermost one can have begun a transaction.
LEMMA AgreeEnter ==
    ASSUME TypeOK, AgreeInv, Enter PROVE AgreeInv'
  <1>1. PICK b \in BOOLEAN : beginTransaction(b) /\ frames' = Append(frames, b)
    BY DEF Enter
  <1>2. /\ Len(frames) \in Nat
        /\ DOMAIN frames = 1..Len(frames)
        /\ DOMAIN frames' = 1..(Len(frames) + 1)
        /\ \A i \in 1..Len(frames) : frames'[i] = frames[i]
        /\ frames'[Len(frames) + 1] = b
        /\ frames' # << >>
        /\ idle <=> Len(frames) = 0
    BY <1>1, EmptySeq DEF TypeOK, idle
  <1>3. b = (idle /\ open /\ ~begun)
    BY <1>1, IdleFacts DEF beginTransaction, AgreeInv, FlagInv, TypeOK
  <1>4. owner' = (IF idle THEN b ELSE owner)
    BY <1>2 DEF owner, TypeOK, idle
  <1>5. idle => ~owner
    BY DEF idle, owner
  <1>6. \A i \in DOMAIN frames' : frames'[i] => i = 1 /\ ~begun'
    BY <1>2, <1>3 DEF AgreeInv, FlagInv, Enter, TypeOK
  <1>7. ~idle'
    BY <1>2 DEF idle
  <1>8. FlagInv'
    BY <1>1, <1>3, <1>4, <1>5, <1>6, <1>7 DEF AgreeInv, FlagInv, Enter, TypeOK, beginTransaction
  <1>9. SqliteInv'
    BY <1>1, IdleFacts DEF AgreeInv, FlagInv, SqliteInv, Enter, TypeOK, beginTransaction
  <1>10. OutcomeInv'
    BY <1>1, <1>3, <1>4, <1>7, <1>8
       DEF AgreeInv, FlagInv, SqliteInv, OutcomeInv, Enter, TypeOK, beginTransaction
  <1> QED  BY <1>8, <1>9, <1>10 DEF AgreeInv

\* A command of a method writes into the transaction of the outermost method.
LEMMA AgreeCommand ==
    ASSUME TypeOK, AgreeInv, execCommand PROVE AgreeInv'
  <1> USE DEF TypeOK, AgreeInv, execCommand, idle, owner
  <1>1. FlagInv'
    BY DEF FlagInv
  <1>2. inProgress /\ inTx
    BY DEF FlagInv, SqliteInv
  <1>3. issued' \in Nat /\ issued' \notin 1..issued /\ 1..issued \subseteq 1..issued'
                       /\ issued' \in 1..issued'
    OBVIOUS
  <1>4. SqliteInv'
    BY <1>2, <1>3 DEF SqliteInv
  <1>5. OutcomeInv'
    BY <1>2, <1>3 DEF OutcomeInv, SqliteInv
  <1> QED  BY <1>1, <1>4, <1>5

\* A command that fails keeps them in step, unless SQLite rolls back a
\* transaction that the program began.
LEMMA AgreeCommandFails ==
    ASSUME TypeOK, AgreeInv, execCommandFails, ~desync' PROVE AgreeInv'
  <1> USE DEF TypeOK, AgreeInv, execCommandFails, SqlFails, SqlRollback, sqlite, idle, owner
  <1>1. FlagInv'     BY DEF FlagInv
  <1>2. SqliteInv'
    <2>1. CASE UNCHANGED sqlite  BY <2>1 DEF SqliteInv
    <2>2. CASE inTx /\ SqlRollback
      <3>1. ~begun  BY <2>2
      <3> QED  BY <2>2, <3>1 DEF SqliteInv
    <2> QED  BY <2>1, <2>2
  <1>3. stored' = stored /\ work' \subseteq work
    BY DEF SqliteInv
  <1>4. OutcomeInv'
    <2> USE DEF OutcomeInv
    <2>1. undone' \cap work' = {}        BY <1>3
    <2>2. owner' => current' \cap stored' = {}    BY <1>3
    <2>3. ~idle' /\ ~inProgress' => current' = {}  OBVIOUS
    <2> QED  BY <1>3, <2>1, <2>2, <2>3
  <1> QED  BY <1>1, <1>2, <1>4

\* A method returns: it ends a transaction only if it is the outermost one.
LEMMA ReturnFacts ==
    ASSUME TypeOK, AgreeInv, ~idle, frames' = caller
    PROVE  /\ bDoCommitOfCallee \in BOOLEAN
           /\ bDoCommitOfCallee => caller = << >> /\ owner /\ ~begun
           /\ caller = << >> => owner = bDoCommitOfCallee
           /\ owner' = (owner /\ ~bDoCommitOfCallee)
           /\ idle' = (caller = << >>)
           /\ \A i \in DOMAIN frames' : frames'[i] => i = 1 /\ ~begun
  <1>1. DOMAIN frames = 1..Len(frames) /\ \A i \in DOMAIN frames : frames[i] \in BOOLEAN
    BY LenProperties DEF TypeOK
  <1>2. /\ bDoCommitOfCallee \in BOOLEAN
        /\ bDoCommitOfCallee => Len(frames) = 1 /\ ~begun
    BY <1>1, CallerFacts DEF bDoCommitOfCallee, AgreeInv, FlagInv
  <1>3. Len(frames) = 1 => owner = bDoCommitOfCallee
    BY <1>1, CallerFacts DEF owner, bDoCommitOfCallee, idle
  <1>4. Len(frames) # 1 => owner' = owner
    BY <1>1, CallerFacts DEF owner, idle
  <1>5. Len(frames) = 1 => ~owner'
    BY CallerFacts DEF owner
  <1>6. \A i \in DOMAIN frames' : frames'[i] => i = 1 /\ ~begun
    BY <1>1, CallerFacts DEF AgreeInv, FlagInv
  <1> QED
    BY <1>1, <1>2, <1>3, <1>4, <1>5, <1>6, CallerFacts DEF idle, owner

\* A method that succeeds commits exactly if it began the transaction.
LEMMA AgreeReturnTrue ==
    ASSUME TypeOK, AgreeInv, ReturnTrue, ~desync' PROVE AgreeInv'
  <1>1. ~idle /\ ~failing /\ frames' = caller
    BY DEF ReturnTrue
  <1>2. UNCHANGED <<open, issued, begun, current>>
    BY DEF ReturnTrue, Outcome
  <1>3. inTx = inProgress
    BY <1>1 DEF AgreeInv, SqliteInv
  <1> USE <1>1, <1>2, ReturnFacts DEF TypeOK, AgreeInv
  <1>4. CASE ~bDoCommitOfCallee
    <2>1. UNCHANGED <<inProgress, inTx, work, stored>> /\ ~failing' /\ undone' = undone
                /\ acked' = IF caller = << >> /\ ~begun THEN acked \cup current ELSE acked
      BY <1>4 DEF ReturnTrue, Outcome, sqlite
    <2>2. FlagInv'
      BY <1>4, <2>1 DEF FlagInv
    <2>3. SqliteInv'
      BY <2>1 DEF SqliteInv
    <2>4. caller = << >> /\ ~begun => current = {}
      BY <1>4 DEF FlagInv, OutcomeInv
    <2>5. OutcomeInv'
      BY <1>4, <2>1, <2>4 DEF OutcomeInv
    <2> QED  BY <2>2, <2>3, <2>5
  <1>5. CASE bDoCommitOfCallee
    <2>1. open /\ inProgress /\ inTx /\ caller = << >> /\ owner /\ ~begun
      BY <1>3, <1>5 DEF FlagInv
    <2>2. PICK result \in BOOLEAN :
             /\ commitTransaction(result)
             /\ failing' = (~result /\ caller # << >>)
             /\ desync' = (desync \/ (~result /\ inTx'))
             /\ Outcome(result)
      BY <1>5 DEF ReturnTrue
    <2>3. inProgress' = FALSE /\ failing' = FALSE /\ inTx' = FALSE /\ work' = stored'
      BY <2>1, <2>2 DEF commitTransaction, SqlCommit, SqlCommitFails, sqlite
    <2>4. \/ stored' = work /\ acked' = acked \cup current /\ undone' = undone
          \/ stored' = stored /\ acked' = acked /\ undone' = undone \cup current
      BY <2>1, <2>2, <2>3 DEF commitTransaction, SqlCommit, SqlCommitFails, Outcome, sqlite
    <2>5. idle' /\ ~owner'
      BY <1>5, <2>1
    <2>6. FlagInv'
      BY <2>1, <2>3, <2>5 DEF FlagInv
    <2>7. SqliteInv'
      BY <2>1, <2>3, <2>4 DEF SqliteInv
    <2>8. OutcomeInv'
      <3>1. acked' \subseteq stored' /\ undone' \cap work' = {} /\ undone' \subseteq 1..issued'
        BY <2>1, <2>3, <2>4 DEF OutcomeInv, SqliteInv
      <3> QED  BY <2>5, <3>1 DEF OutcomeInv
    <2> QED  BY <2>6, <2>7, <2>8
  <1> QED  BY <1>4, <1>5

\* A method that fails aborts exactly if it began the transaction.
LEMMA AgreeReturnFalse ==
    ASSUME TypeOK, AgreeInv, ReturnFalse PROVE AgreeInv'
  <1> USE ReturnFacts
  <1> USE DEF TypeOK, AgreeInv, ReturnFalse, Outcome, abortTransaction, SqlRollback, sqlite
  <1>1. FlagInv'     BY DEF FlagInv
  <1>2. SqliteInv'   BY DEF SqliteInv, FlagInv
  <1>3. OutcomeInv'  BY DEF OutcomeInv, SqliteInv, FlagInv
  <1> QED  BY <1>1, <1>2, <1>3

\* createObject's catch block is harmless inside the program's transaction.
LEMMA AgreeCatches ==
    ASSUME TypeOK, AgreeInv, createObjectCatches, ~desync' PROVE AgreeInv'
  <1> USE ReturnFacts
  <1> USE DEF TypeOK, AgreeInv, createObjectCatches, Outcome, sqlite
  <1>1. FlagInv'     BY DEF FlagInv
  <1>2. SqliteInv'   BY DEF SqliteInv, FlagInv
  <1>3. OutcomeInv'  BY DEF OutcomeInv, SqliteInv, FlagInv
  <1> QED  BY <1>1, <1>2, <1>3

-----------------------------------------------------------------------------
\* Once the flag and SQLite have come apart, that is remembered.
LEMMA DesyncStays ==
    ASSUME TypeOK, [Next]_vars, ~desync' PROVE ~desync
  BY DEF TypeOK, Next, vars, Begin, Commit, Abort, useDatabaseSQLite3, Enter, execCommand,
         execCommandFails, ReturnTrue, ReturnFalse, createObjectCatches, Crash

\* The transaction protocol of EMdFDB and SQLite3EMdFConnection keeps the flag,
\* SQLite's transaction, the call stack and what the program was told
\* consistent, for any depth of nesting and any number of commands.
THEOREM ProtocolCorrect == Spec => []ProtocolInv
  <1>1. Init => ProtocolInv
    <2> SUFFICES ASSUME Init PROVE ProtocolInv
      OBVIOUS
    <2>1. TypeOK
      BY EmptySeq DEF Init, TypeOK
    <2>2. \A i \in DOMAIN frames : FALSE
      BY DEF Init
    <2>3. FlagInv
      BY <2>2 DEF Init, FlagInv, idle, owner
    <2>4. SqliteInv
      BY DEF Init, SqliteInv
    <2>5. OutcomeInv
      BY DEF Init, OutcomeInv, idle, owner
    <2> QED  BY <2>1, <2>3, <2>4, <2>5 DEF ProtocolInv
  <1>2. ProtocolInv /\ [Next]_vars => ProtocolInv'
    <2> SUFFICES ASSUME TypeOK, [Next]_vars, AgreeInv, ~desync' PROVE AgreeInv'
      BY TypeStep, DesyncStays DEF ProtocolInv, AgreeInv
    <2>1. CASE UNCHANGED vars
      BY <2>1 DEF vars, AgreeInv, FlagInv, SqliteInv, OutcomeInv, idle, owner
    <2>2. CASE Next
      BY <2>2, AgreeBegin, AgreeCommit, AgreeAbort, AgreeUseDatabase, AgreeEnter,
         AgreeCommand, AgreeCommandFails, AgreeReturnTrue, AgreeReturnFalse,
         AgreeCatches, AgreeCrash
         DEF Next
    <2> QED  BY <2>1, <2>2
  <1> QED  BY <1>1, <1>2, PTL DEF Spec

\* What the program was told is committed stays on disk, as long as the flag
\* and SQLite have not come apart.
THEOREM CommittedIsDurable == Spec => []Durable
  <1>1. ProtocolInv => Durable
    BY DEF ProtocolInv, OutcomeInv, Durable
  <1> QED  BY <1>1, ProtocolCorrect, PTL

\* What the program was told failed or was aborted is never on disk, as long as
\* the flag and SQLite have not come apart.
THEOREM UndoneStaysUndone == Spec => []NothingUndoneIsStored
  <1>1. ProtocolInv => NothingUndoneIsStored
    BY DEF ProtocolInv, OutcomeInv, SqliteInv, NothingUndoneIsStored
  <1> QED  BY <1>1, ProtocolCorrect, PTL

\* Between statements a transaction is in progress exactly if the program
\* began one.
THEOREM DisciplineHolds == Spec => []TransactionDiscipline
  <1>1. ProtocolInv => TransactionDiscipline
    <2> SUFFICES ASSUME TypeOK, AgreeInv, idle
                 PROVE  inProgress = begun /\ inTx = begun /\ (~begun => work = stored)
      BY DEF ProtocolInv, AgreeInv, TransactionDiscipline
    <2> QED  BY IdleFacts DEF AgreeInv, SqliteInv
  <1> QED  BY <1>1, ProtocolCorrect, PTL
=============================================================================
