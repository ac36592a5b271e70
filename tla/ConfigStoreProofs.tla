-------------------------- MODULE ConfigStoreProofs --------------------------
(***************************************************************************)
(* Theorems about ConfigStore for every set of browsers, requests and      *)
(* workers and every bound.                                                *)
(***************************************************************************)
EXTENDS ConfigStore, SequenceTheorems, TLAPS

(* What the types alone do not say: the processes that are about to use a   *)
(* row or a transaction have one.                                          *)
WorkTyped ==
  \A p \in Proc :
    /\ pc[p] \in {"fill", "ready", "stale", "locked", "committed"} => basis[p] \in Row
    /\ pc[p] \in {"locked", "committed"} => tx[p].value \in Document
    /\ pc[p] \in {"locked", "committed", "deleted", "unlogged"} => tx[p].seen \in Row
    /\ pc[p] = "read" => p \in Worker
    /\ pc[p] = "stale" => p \in Editor
    /\ pc[p] \in {"query", "fill", "deleted", "unlogged"} => p \in Web
  
(* A running worker has its static copy and an attempt left. *)
WorkerTyped ==
  \A w \in Worker :
    /\ pc[w] # "idle" => static[w] \in Row
    /\ pc[w] # "lost" => attempts[w] < MaxAttempts

TInv == TypeOK /\ WorkTyped /\ WorkerTyped

-----------------------------------------------------------------------------
(* The marker NoRow is no row that a table can hold. *)
LEMMA NoRowIsNoRow == NoRow \notin Row /\ Absent \in Row /\ NoRow # Absent
BY DEF NoRow, Row, Absent, Document, Edits

LEMMA NoTxTyped == NoTx \in [seen : Row \cup {NoRow}, value : Document \cup {NoValue}]
BY DEF NoTx

(* The row a committed transaction leaves, and the document of a new one.   *)
LEMMA SavedTyped ==
  ASSUME NEW p \in Proc, tx[p].value \in Document, tx[p].seen \in Row
  PROVE  Saved(p) \in Row
BY DEF Saved, Row

LEMMA EditTyped ==
  ASSUME NEW d \in Document, edits \in 0..MaxEdits, edits < MaxEdits
  PROVE  d \cup {edits + 1} \in Document
BY ConfigStoreAssumption DEF Document, Edits

LEMMA InitTyped == Init => TInv
BY ConfigStoreAssumption
   DEF Init, TInv, TypeOK, WorkTyped, WorkerTyped, Row, Absent, NoRow, NoTx,
       NoValue, Document, PC, Proc, Web

(* Every step keeps the types. *)
LEMMA StepTyped == TInv /\ [Next]_vars => TInv'
<1> SUFFICES ASSUME TInv, [Next]_vars PROVE TInv'
  OBVIOUS
<1> USE ConfigStoreAssumption, NoRowIsNoRow
    DEF TInv, TypeOK, WorkTyped, WorkerTyped, dbVars, Goto, Hold, Forget, KeepForm, HasForm, PC, Proc, Web
<1>1. CASE Expire
  BY <1>1 DEF Expire
<1>2. ASSUME NEW p \in Web, CacheHit(p) PROVE TInv'
  BY <1>2 DEF CacheHit
<1>3. ASSUME NEW p \in Web, CacheMiss(p) PROVE TInv'
  BY <1>3 DEF CacheMiss
<1>4. ASSUME NEW p \in Web, Query(p) PROVE TInv'
  BY <1>4 DEF Query
<1>5. ASSUME NEW p \in Web, QueryFail(p) PROVE TInv'
  BY <1>5 DEF QueryFail
<1>6. ASSUME NEW p \in Web, Fill(p) PROVE TInv'
  BY <1>6 DEF Fill
<1>7. ASSUME NEW p \in Web, DeleteRow(p) PROVE TInv'
  BY <1>7 DEF DeleteRow
<1>8. ASSUME NEW p \in Web, DropCache(p) PROVE TInv'
  <2>1. TypeOK'
    BY <1>8, NoTxTyped DEF DropCache
  <2>2. WorkTyped'
    BY <1>8, NoTxTyped DEF DropCache
  <2>3. WorkerTyped'
    BY <1>8 DEF DropCache
  <2> QED
    BY <2>1, <2>2, <2>3
<1>9. ASSUME NEW p \in Web, LogDelete(p) PROVE TInv'
  <2>1. TypeOK'
    BY <1>9, NoTxTyped DEF LogDelete, Row
  <2>2. WorkTyped'
    BY <1>9, NoTxTyped DEF LogDelete, Row
  <2>3. WorkerTyped'
    BY <1>9 DEF LogDelete
  <2> QED
    BY <2>1, <2>2, <2>3
<1>10. ASSUME NEW w \in Worker, Open(w) PROVE TInv'
  BY <1>10 DEF Open
<1>11. ASSUME NEW w \in Worker, Read(w) PROVE TInv'
  BY <1>11 DEF Read, MarkStart
<1>12. ASSUME NEW w \in Worker, Abandon(w) PROVE TInv'
  <2>1. TypeOK'
    BY <1>12 DEF Abandon
  <2>2. WorkTyped'
    BY <1>12 DEF Abandon
  <2>3. WorkerTyped'
    BY <1>12 DEF Abandon
  <2> QED
    BY <2>1, <2>2, <2>3
<1>13. ASSUME NEW w \in Worker, Exit(w) PROVE TInv'
  BY <1>13 DEF Exit
<1>14. ASSUME NEW p \in Proc, SaveBegin(p) PROVE TInv'
  <2>1. TypeOK'
    <3>1. basis[p].value \cup {edits + 1} \in Document
      BY <1>14, EditTyped DEF SaveBegin, Row
    <3> QED
      BY <1>14, <3>1 DEF SaveBegin
  <2>2. WorkTyped'
    BY <1>14, EditTyped DEF SaveBegin, CanLock, Row
  <2>3. WorkerTyped'
    BY <1>14 DEF SaveBegin
  <2> QED
    BY <2>1, <2>2, <2>3
<1>15. ASSUME NEW p \in Proc, SaveConflict(p) PROVE TInv'
  <2>1. TypeOK'
    <3>1. basis[p].version \in Nat
      BY <1>15 DEF SaveConflict, AfterConflict, Row
    <3>2. CASE p \in Editor
      <4>1. /\ refused' = [refused EXCEPT ![p] = {basis[p].version}]
            /\ Goto(p, "stale")
            /\ UNCHANGED <<attempts, dbVars, apcu, static, basis, tx, edits, began>>
        BY <1>15, <3>2 DEF SaveConflict, AfterConflict
      <4> QED
        BY <4>1, <3>1
    <3>3. CASE p \in Worker
      <4>1. /\ attempts' = [attempts EXCEPT ![p] = @ + 1] /\ attempts[p] < MaxAttempts
            /\ Hold(p, NoRow) /\ \E l \in {"read", "lost"} : Goto(p, l)
            /\ UNCHANGED <<refused, dbVars, apcu, static, tx, edits, began>>
        BY <1>15, <3>3 DEF SaveConflict, AfterConflict
      <4>2. attempts' \in [Worker -> 0..MaxAttempts]
        BY <4>1, <3>3
      <4>3. pc' \in [Proc -> PC]
        BY <4>1
      <4> QED
        BY <4>1, <4>2, <4>3
    <3> QED
      BY <1>15, <3>2, <3>3 DEF SaveConflict, AfterConflict
  <2>2. WorkTyped'
    BY <1>15 DEF SaveConflict, AfterConflict
  <2>3. WorkerTyped'
    BY <1>15 DEF SaveConflict, AfterConflict
  <2> QED
    BY <2>1, <2>2, <2>3
<1>16. ASSUME NEW p \in Proc, SaveCommit(p) PROVE TInv'
  <2>1. TypeOK'
    BY <1>16, SavedTyped DEF SaveCommit, CanWrite, Row
  <2>2. WorkTyped'
    BY <1>16, SavedTyped DEF SaveCommit, CanWrite, Row
  <2>3. WorkerTyped'
    BY <1>16 DEF SaveCommit, CanWrite
  <2> QED
    BY <2>1, <2>2, <2>3
<1>17. ASSUME NEW p \in Proc, SaveFail(p) PROVE TInv'
  <2>1. TypeOK'
    BY <1>17, NoTxTyped DEF SaveFail
  <2>2. WorkTyped'
    BY <1>17, NoTxTyped DEF SaveFail
  <2>3. WorkerTyped'
    BY <1>17 DEF SaveFail
  <2> QED
    BY <2>1, <2>2, <2>3
<1>18. ASSUME NEW p \in Proc, SaveReturn(p) PROVE TInv'
  <2>1. TypeOK'
    <3>1. Saved(p) \in Row
      BY <1>18, SavedTyped DEF SaveReturn
    <3>2. refused' \in [Editor -> SUBSET Nat]
      BY <1>18, Zenon DEF SaveReturn
    <3>3. pc' \in [Proc -> PC]
      BY <1>18 DEF SaveReturn
    <3>4. basis' \in [Proc -> Row \cup {NoRow}]
      BY <1>18, <3>1 DEF SaveReturn
    <3>5. tx' \in [Proc -> [seen : Row \cup {NoRow}, value : Document \cup {NoValue}]]
      BY <1>18, NoTxTyped DEF SaveReturn
    <3>6. CASE p \in Web
      <4>1. apcu' = Saved(p) /\ UNCHANGED <<static, attempts, dbVars, edits, began>>
        BY <1>18, <3>6 DEF SaveReturn
      <4> QED
        BY <4>1, <3>1, <3>2, <3>3, <3>4, <3>5
    <3>7. CASE p \in Worker
      <4>1. /\ static' = [static EXCEPT ![p] = Saved(p)]
            /\ attempts' = [attempts EXCEPT ![p] = 0]
            /\ UNCHANGED <<apcu, dbVars, edits, began>>
        BY <1>18, <3>7 DEF SaveReturn
      <4>2. attempts' \in [Worker -> 0..MaxAttempts]
        BY <3>7, <4>1
      <4>3. static' \in [Worker -> Row \cup {NoRow}]
        BY <3>7, <4>1, <3>1
      <4> QED
        BY <4>1, <4>2, <4>3, <3>2, <3>3, <3>4, <3>5
    <3> QED
      BY <3>6, <3>7
  <2>2. WorkTyped'
    BY <1>18, SavedTyped, NoTxTyped DEF SaveReturn
  <2>3. WorkerTyped'
    <3>1. Saved(p) \in Row
      BY <1>18, SavedTyped DEF SaveReturn
    <3>2. CASE p \in Web
      <4>1. UNCHANGED <<static, attempts>> /\ \A w \in Worker : pc'[w] = pc[w]
        BY <1>18, <3>2 DEF SaveReturn
      <4> QED
        BY <4>1
    <3>3. CASE p \in Worker
      <4>1. /\ static' = [static EXCEPT ![p] = Saved(p)]
            /\ attempts' = [attempts EXCEPT ![p] = 0]
            /\ \A w \in Worker \ {p} : pc'[w] = pc[w]
        BY <1>18, <3>3 DEF SaveReturn
      <4> QED
        BY <4>1, <3>1
    <3> QED
      BY <3>2, <3>3
  <2> QED
    BY <2>1, <2>2, <2>3
<1>19. ASSUME NEW p \in Proc, Crash(p) PROVE TInv'
  <2>1. TypeOK'
    BY <1>19, NoTxTyped DEF Crash
  <2>2. WorkTyped'
    BY <1>19, NoTxTyped DEF Crash
  <2>3. WorkerTyped'
    BY <1>19 DEF Crash
  <2> QED
    BY <2>1, <2>2, <2>3
<1>20. CASE UNCHANGED vars
  BY <1>20 DEF vars
<1> QED
  BY <1>1, <1>2, <1>3, <1>4, <1>5, <1>6, <1>7, <1>8, <1>9, <1>10, <1>11, <1>12, <1>13, <1>14, <1>15, <1>16, <1>17, <1>18, <1>19, <1>20
     DEF Next, Step, WebStep, WorkerStep

LEMMA AlwaysTyped == Spec => []TInv
<1> QED
  BY InitTyped, StepTyped, PTL DEF Spec

(* Type correctness of the store, its caches and its clients. *)
THEOREM TypeCorrect == Spec => []TypeOK
<1>1. TInv => TypeOK
  BY DEF TInv
<1> QED
  BY <1>1, AlwaysTyped, PTL

-----------------------------------------------------------------------------
(* The row lock *)

(* The lock is held exactly by the transactions that found a row, so there   *)
(* is at most one of them, and none while there is no row.                  *)
LockInv ==
  /\ \A p \in Proc : pc[p] = "locked" /\ tx[p].seen # Absent
                      => lock = {p} /\ row = tx[p].seen
  /\ \A p \in lock : pc[p] = "locked" /\ tx[p].seen # Absent

LEMMA StepLocks == TInv /\ LockInv /\ [Next]_vars => LockInv'
<1> SUFFICES ASSUME TInv, LockInv, [Next]_vars PROVE LockInv'
  OBVIOUS
<1> USE ConfigStoreAssumption
    DEF LockInv, TInv, TypeOK, dbVars, Goto, Hold, Forget, KeepForm, HasForm, Proc, Web
<1>1. CASE Expire
  BY <1>1 DEF Expire
<1>2. ASSUME NEW p \in Web, CacheHit(p) PROVE LockInv'
  BY <1>2 DEF CacheHit, MayRead
<1>3. ASSUME NEW p \in Web, CacheMiss(p) PROVE LockInv'
  BY <1>3 DEF CacheMiss, MayRead
<1>4. ASSUME NEW p \in Web, Query(p) PROVE LockInv'
  BY <1>4 DEF Query
<1>5. ASSUME NEW p \in Web, QueryFail(p) PROVE LockInv'
  BY <1>5 DEF QueryFail
<1>6. ASSUME NEW p \in Web, Fill(p) PROVE LockInv'
  BY <1>6 DEF Fill
<1>7. ASSUME NEW p \in Web, DeleteRow(p) PROVE LockInv'
  BY <1>7 DEF DeleteRow
<1>8. ASSUME NEW p \in Web, DropCache(p) PROVE LockInv'
  BY <1>8 DEF DropCache
<1>9. ASSUME NEW p \in Web, LogDelete(p) PROVE LockInv'
  BY <1>9 DEF LogDelete
<1>10. ASSUME NEW w \in Worker, Open(w) PROVE LockInv'
  BY <1>10 DEF Open
<1>11. ASSUME NEW w \in Worker, Read(w) PROVE LockInv'
  BY <1>11 DEF Read
<1>12. ASSUME NEW w \in Worker, Abandon(w) PROVE LockInv'
  BY <1>12 DEF Abandon
<1>13. ASSUME NEW w \in Worker, Exit(w) PROVE LockInv'
  BY <1>13 DEF Exit
<1>14. ASSUME NEW p \in Proc, SaveBegin(p) PROVE LockInv'
  BY <1>14 DEF SaveBegin, CanLock
<1>15. ASSUME NEW p \in Proc, SaveConflict(p) PROVE LockInv'
  BY <1>15 DEF SaveConflict, AfterConflict
<1>16. ASSUME NEW p \in Proc, SaveCommit(p) PROVE LockInv'
  <2>1. CASE tx[p].seen = Absent
    <3>1. lock = {} /\ \A q \in Proc : pc[q] = "locked" => tx[q].seen = Absent
      BY <1>16, <2>1, NoRowIsNoRow DEF SaveCommit, CanWrite
    <3> QED
      BY <1>16, <3>1 DEF SaveCommit, CanWrite
  <2>2. CASE tx[p].seen # Absent
    <3>1. \A q \in Proc \ {p} : pc[q] = "locked" => tx[q].seen = Absent
      BY <1>16, <2>2 DEF SaveCommit, CanWrite
    <3>2. lock' = {} /\ pc'[p] = "committed" /\ tx' = tx
      BY <1>16, <2>2 DEF SaveCommit, CanWrite
    <3> QED
      BY <1>16, <3>1, <3>2 DEF SaveCommit, CanWrite
  <2> QED
    BY <2>1, <2>2
<1>17. ASSUME NEW p \in Proc, SaveFail(p) PROVE LockInv'
  BY <1>17 DEF SaveFail
<1>18. ASSUME NEW p \in Proc, SaveReturn(p) PROVE LockInv'
  BY <1>18 DEF SaveReturn
<1>19. ASSUME NEW p \in Proc, Crash(p) PROVE LockInv'
  BY <1>19 DEF Crash
<1>20. CASE UNCHANGED vars
  BY <1>20 DEF vars
<1> QED
  BY <1>1, <1>2, <1>3, <1>4, <1>5, <1>6, <1>7, <1>8, <1>9, <1>10, <1>11, <1>12, <1>13, <1>14, <1>15, <1>16, <1>17, <1>18, <1>19, <1>20
     DEF Next, Step, WebStep, WorkerStep

(* A transaction that read the row under its lock commits over that very    *)
(* row: neither another save nor a deletion gets in between.               *)
THEOREM RowLockHolds == Spec => []LockedRowStands
<1>1. Init => LockInv
  BY DEF Init, LockInv
<1>2. LockInv => LockedRowStands
  BY DEF LockInv, LockedRowStands
<1> QED
  BY <1>1, <1>2, AlwaysTyped, StepLocks, PTL DEF Spec

-----------------------------------------------------------------------------
(* Versions.  As long as the key is not deleted, versions only grow, so that *)
(* a version names one document, whoever saves it and whether or not the    *)
(* save was checked.                                                        *)

Version0IsAbsent == row.version = 0 => row = Absent

(* An accepted transaction is about the version its document was made on.   *)
TxMatchesBasis ==
  \A p \in Proc \ Blind : pc[p] = "locked" =>
    /\ basis[p].version = tx[p].seen.version
    /\ basis[p].value \subseteq tx[p].value

(* The row about to be cached after a COMMIT is in the audit trail.         *)
SavedIsCommitted == \A p \in Proc : pc[p] = "committed" => Genuine(Saved(p), log)

NothingDeleted == \A p \in Proc : pc[p] \notin {"deleted", "unlogged"}

VInv == /\ HistoryIsAChain
        /\ CopiesAreCommitted
        /\ Version0IsAbsent
        /\ TxMatchesBasis
        /\ SavedIsCommitted
        /\ NothingDeleted

(* Copies stay genuine when the audit trail grows. *)
LEMMA GenuineStays ==
  ASSUME NEW E, NEW l \in Seq(E), NEW x \in E, NEW r, Genuine(r, l)
  PROVE  Genuine(r, Append(l, x))
BY DEF Genuine

(* The row itself is genuine, and the only genuine row of its version. *)
LEMMA RowIsGenuine ==
  ASSUME TInv, HistoryIsAChain, Version0IsAbsent
  PROVE  /\ Genuine(row, log)
         /\ \A r \in Row : Genuine(r, log) /\ r.version = row.version => r = row
<1>1. row \in Row
  BY DEF TInv, TypeOK
<1>2. CASE log = <<>>
  BY <1>1, <1>2, NoRowIsNoRow DEF HistoryIsAChain, Version0IsAbsent, Genuine, Row, Absent
<1>3. CASE log # <<>>
  <2>1. Len(log) \in Nat \ {0} /\ row.version = Len(log) /\ row.value = log[Len(log)].new
    BY <1>3 DEF HistoryIsAChain, TInv, TypeOK
  <2> QED
    BY <1>1, <2>1, NoRowIsNoRow DEF Genuine, Row, Absent
<1> QED
  BY <1>2, <1>3

(* A transaction that can commit writes over the row its edit was made on.  *)
LEMMA LockedIsFresh ==
  ASSUME TInv, LockInv, VInv, NEW p \in Proc, pc[p] = "locked",
         tx[p].seen = Absent => row = Absent
  PROVE  row = tx[p].seen /\ (p \notin Blind => basis[p] = row)
<1>1. row = tx[p].seen
  BY DEF LockInv
<1>2. ASSUME p \notin Blind
      PROVE  basis[p] \in Row /\ basis[p].version = row.version /\ Genuine(basis[p], log)
  BY <1>1, <1>2 DEF TInv, WorkTyped, VInv, TxMatchesBasis, CopiesAreCommitted
<1> QED
  BY <1>1, <1>2, RowIsGenuine DEF VInv

LEMMA NoneIsGenuine == \A l : Genuine(NoRow, l) /\ Genuine(Absent, l)
BY DEF Genuine

LEMMA DatabaseKept ==
  ASSUME VInv, UNCHANGED <<row, log>>
  PROVE  HistoryIsAChain' /\ Version0IsAbsent'
BY DEF VInv, HistoryIsAChain, Version0IsAbsent

(* The COMMIT of a save adds one document to the history.         *)
LEMMA CommitExtends ==
  ASSUME TInv, LockInv, VInv, NEW p \in Proc, SaveCommit(p)
  PROVE  VInv'
<1> DEFINE entry == [old |-> IF tx[p].seen = Absent THEN NoValue ELSE tx[p].seen.value,
                     new |-> tx[p].value]
           E == [old : Document \cup {NoValue}, new : Document \cup {NoValue}]
<1>1. row = tx[p].seen
  BY LockedIsFresh DEF SaveCommit, CanWrite
<1>2. /\ row \in Row /\ tx[p].value \in Document
      /\ log \in Seq(E)
  BY <1>1 DEF SaveCommit, CanWrite, TInv, WorkTyped, TypeOK, VInv, TxMatchesBasis
<1>3. /\ row' = [version |-> row.version + 1, value |-> tx[p].value]
      /\ log' = Append(log, entry)
      /\ UNCHANGED <<apcu, static, basis, tx>>
      /\ pc' = [pc EXCEPT ![p] = "committed"]
  BY <1>1 DEF SaveCommit, CanWrite, Saved, Goto
<1>4. entry \in E
  BY <1>1, <1>2 DEF Row
<1>5. /\ Len(log) = row.version /\ Len(log') = row.version + 1
      /\ \A i \in 1..Len(log) : log'[i] = log[i]
      /\ log'[row.version + 1] = entry
  BY <1>2, <1>3, <1>4 DEF VInv, HistoryIsAChain
<1>6. row = Absent <=> row.version = 0
  BY DEF VInv, Version0IsAbsent, Absent
<1>7. HistoryIsAChain'
  <2>1. \A i \in 1..Len(log) : log'[i].old = IF i = 1 THEN NoValue ELSE log'[i - 1].new
    <3> TAKE i \in 1..Len(log)
    <3>1. i \in Nat /\ (i # 1 => i - 1 \in 1..Len(log))
      BY <1>2, <1>5 DEF Row
    <3>2. log[i].old = IF i = 1 THEN NoValue ELSE log[i - 1].new
      BY DEF VInv, HistoryIsAChain
    <3> QED
      BY <3>1, <3>2, <1>5
  <2>2. entry.old = IF row.version + 1 = 1 THEN NoValue ELSE log'[row.version].new
    <3>1. CASE row.version = 0
      BY <3>1, <1>1, <1>6
    <3>2. CASE row.version # 0
      <4>1. log # <<>> /\ row.version \in 1..Len(log)
        BY <3>2, <1>2, <1>5 DEF Row
      <4>2. log'[row.version].new = row.value
        BY <4>1, <1>5 DEF VInv, HistoryIsAChain
      <4> QED
        BY <4>2, <3>2, <1>1, <1>2, <1>6 DEF Row
    <3> QED
      BY <3>1, <3>2
  <2>3. Len(log') = row'.version /\ log'[Len(log')].new = row'.value
    BY <1>3, <1>5
  <2> HIDE DEF entry
  <2> QED
    BY <2>1, <2>2, <2>3, <1>5, <1>2 DEF HistoryIsAChain, Row
<1>9. Version0IsAbsent'
  BY <1>2, <1>3 DEF Version0IsAbsent, Row
<1>10. \A r : Genuine(r, log) => Genuine(r, log')
  BY <1>2, <1>3, <1>4, GenuineStays
<1>11. CopiesAreCommitted'
  BY <1>3, <1>10 DEF VInv, CopiesAreCommitted
<1>12. TxMatchesBasis' /\ NothingDeleted'
  BY <1>3 DEF VInv, TxMatchesBasis, NothingDeleted, TInv, TypeOK
<1>13. SavedIsCommitted'
  <2>1. Genuine(Saved(p), log')
    <3>1. Saved(p) = [version |-> row.version + 1, value |-> tx[p].value]
      BY <1>1 DEF Saved
    <3> QED
      BY <3>1, <1>2, <1>5 DEF Genuine, Row
  <2>2. \A q \in Proc : Saved(q)' = Saved(q)
    BY <1>3 DEF Saved
  <2> QED
    BY <2>1, <2>2, <1>3, <1>10 DEF VInv, SavedIsCommitted, TInv, TypeOK
<1> QED
  BY <1>7, <1>9, <1>11, <1>12, <1>13 DEF VInv

LEMMA StepVersioned ==
  ASSUME Cleaner = {}, TInv, LockInv, VInv, [Next]_vars
  PROVE  VInv'
<1> USE ConfigStoreAssumption, DatabaseKept, NoneIsGenuine
    DEF VInv, CopiesAreCommitted, TxMatchesBasis, SavedIsCommitted, NothingDeleted,
        dbVars, Goto, Hold, Forget, KeepForm, HasForm, Proc, Web
<1>0. Genuine(row, log)
  BY RowIsGenuine
<1>1. CASE Expire
  BY <1>1 DEF Expire, Saved
<1>2. ASSUME NEW p \in Web, CacheHit(p) PROVE VInv'
  BY <1>0, <1>2 DEF CacheHit, MayRead, Saved, TInv, TypeOK
<1>3. ASSUME NEW p \in Web, CacheMiss(p) PROVE VInv'
  BY <1>0, <1>3 DEF CacheMiss, MayRead, Saved, TInv, TypeOK
<1>4. ASSUME NEW p \in Web, Query(p) PROVE VInv'
  BY <1>0, <1>4 DEF Query, Saved, TInv, TypeOK
<1>5. ASSUME NEW p \in Web, QueryFail(p) PROVE VInv'
  BY <1>0, <1>5 DEF QueryFail, Saved, TInv, TypeOK
<1>6. ASSUME NEW p \in Web, Fill(p) PROVE VInv'
  BY <1>0, <1>6 DEF Fill, Saved, TInv, TypeOK
<1>7. ASSUME NEW p \in Web, DeleteRow(p) PROVE VInv'
  BY <1>0, <1>7 DEF DeleteRow, Saved, TInv, TypeOK
<1>8. ASSUME NEW p \in Web, DropCache(p) PROVE VInv'
  BY <1>0, <1>8 DEF DropCache, Saved, TInv, TypeOK
<1>9. ASSUME NEW p \in Web, LogDelete(p) PROVE VInv'
  BY <1>0, <1>9 DEF LogDelete, Saved, TInv, TypeOK
<1>10. ASSUME NEW w \in Worker, Open(w) PROVE VInv'
  BY <1>0, <1>10 DEF Open, Saved, TInv, TypeOK
<1>11. ASSUME NEW w \in Worker, Read(w) PROVE VInv'
  BY <1>0, <1>11 DEF Read, Saved, TInv, TypeOK
<1>12. ASSUME NEW w \in Worker, Abandon(w) PROVE VInv'
  BY <1>0, <1>12 DEF Abandon, Saved, TInv, TypeOK
<1>13. ASSUME NEW w \in Worker, Exit(w) PROVE VInv'
  BY <1>0, <1>13 DEF Exit, Saved, TInv, TypeOK
<1>14. ASSUME NEW p \in Proc, SaveBegin(p) PROVE VInv'
  <2>1. /\ HasForm(p) /\ basis[p] \in Row
        /\ p \notin Blind => basis[p].version = row.version
        /\ UNCHANGED <<row, log, apcu, static, basis>>
        /\ pc' = [pc EXCEPT ![p] = "locked"]
        /\ tx' = [tx EXCEPT ![p] = [seen |-> row, value |-> basis[p].value \cup {edits + 1}]]
    BY <1>14 DEF SaveBegin, VersionMatches, TInv, WorkTyped
  <2>2. TxMatchesBasis'
    BY <2>1 DEF TInv, TypeOK
  <2>3. \A q \in Proc : q # p => pc'[q] = pc[q] /\ Saved(q)' = Saved(q)
    BY <2>1 DEF Saved, TInv, TypeOK
  <2>4. SavedIsCommitted' /\ NothingDeleted'
    BY <2>1, <2>3 DEF TInv, TypeOK
  <2>5. CopiesAreCommitted'
    BY <2>1
  <2> QED
    BY <2>1, <2>2, <2>4, <2>5
<1>15. ASSUME NEW p \in Proc, SaveConflict(p) PROVE VInv'
  <2>1. /\ UNCHANGED <<row, log, apcu, static, tx>>
        /\ basis' = basis \/ basis' = [basis EXCEPT ![p] = NoRow]
        /\ \E l \in {"stale", "read", "lost"} : pc' = [pc EXCEPT ![p] = l]
    BY <1>15 DEF SaveConflict, AfterConflict
  <2>2. \A q \in Proc : /\ Saved(q)' = Saved(q)
                        /\ pc'[q] \in {"locked", "committed", "deleted", "unlogged"}
                             => pc'[q] = pc[q] /\ basis'[q] = basis[q]
    BY <2>1 DEF Saved, TInv, TypeOK
  <2>3. TxMatchesBasis' /\ SavedIsCommitted' /\ NothingDeleted'
    BY <2>1, <2>2
  <2>4. CopiesAreCommitted'
    <3>1. \A q \in Proc : basis'[q] \in {basis[q], NoRow}
      BY <2>1 DEF TInv, TypeOK
    <3> QED
      BY <2>1, <3>1
  <2> QED
    BY <2>1, <2>3, <2>4
<1>16. ASSUME NEW p \in Proc, SaveCommit(p) PROVE VInv'
  BY <1>16, CommitExtends
<1>17. ASSUME NEW p \in Proc, SaveFail(p) PROVE VInv'
  BY <1>0, <1>17 DEF SaveFail, Saved, TInv, TypeOK
<1>18. ASSUME NEW p \in Proc, SaveReturn(p) PROVE VInv'
  <2>1. Genuine(Saved(p), log)
    BY <1>18 DEF SaveReturn
  <2>2. /\ UNCHANGED <<row, log>>
        /\ apcu' \in {apcu, Saved(p)}
        /\ \A w \in Worker : static'[w] \in {static[w], Saved(p)}
    BY <1>18 DEF SaveReturn, TInv, TypeOK
  <2>3. \E r \in {Saved(p), NoRow} : basis' = [basis EXCEPT ![p] = r]
    BY <1>18 DEF SaveReturn
  <2>4. /\ tx' = [tx EXCEPT ![p] = NoTx]
        /\ \E l \in {"ready", "idle", "read"} : pc' = [pc EXCEPT ![p] = l]
    BY <1>18 DEF SaveReturn
  <2>5. \A q \in Proc : q # p => Saved(q)' = Saved(q)
    BY <2>4 DEF Saved, TInv, TypeOK
  <2>6. TxMatchesBasis' /\ SavedIsCommitted' /\ NothingDeleted'
    <3>1. \A q \in Proc : \/ pc'[q] \in {"ready", "idle", "read"}
                         \/ /\ q # p /\ pc'[q] = pc[q] /\ tx'[q] = tx[q]
                            /\ basis'[q] = basis[q] /\ Saved(q)' = Saved(q)
      BY <2>3, <2>4, <2>5 DEF TInv, TypeOK
    <3>2. TxMatchesBasis'
      BY <3>1
    <3>3. SavedIsCommitted'
      <4> SUFFICES ASSUME NEW q \in Proc, pc'[q] = "committed" PROVE Genuine(Saved(q), log)'
        OBVIOUS
      <4>1. pc[q] = "committed" /\ Saved(q)' = Saved(q) /\ log' = log
        BY <3>1, <2>2
      <4> QED
        BY <4>1 DEF Genuine
    <3>4. NothingDeleted'
      BY <3>1
    <3> QED
      BY <3>2, <3>3, <3>4
  <2>7. CopiesAreCommitted'
    <3>1. \A q \in Proc : basis'[q] \in {basis[q], Saved(p), NoRow}
      BY <2>3 DEF TInv, TypeOK
    <3>2. Genuine(apcu', log')
      BY <2>1, <2>2
    <3>3. \A w \in Worker : Genuine(static'[w], log')
      BY <2>1, <2>2
    <3>4. \A q \in Proc : Genuine(basis'[q], log')
      BY <2>1, <2>2, <3>1
    <3> QED
      BY <3>2, <3>3, <3>4
  <2> QED
    BY <2>2, <2>6, <2>7
<1>19. ASSUME NEW p \in Proc, Crash(p) PROVE VInv'
  BY <1>0, <1>19 DEF Crash, Saved, TInv, TypeOK
<1>20. CASE UNCHANGED vars
  BY <1>20 DEF vars, Saved
<1> QED
  BY <1>1, <1>2, <1>3, <1>4, <1>5, <1>6, <1>7, <1>8, <1>9, <1>10, <1>11, <1>12, <1>13, <1>14, <1>15, <1>16, <1>17, <1>18, <1>19, <1>20
     DEF Next, Step, WebStep, WorkerStep
-----------------------------------------------------------------------------
LEMMA AlwaysLocked == Spec => []LockInv
<1>1. Init => LockInv
  BY DEF Init, LockInv
<1> QED
  BY <1>1, AlwaysTyped, StepLocks, PTL DEF Spec

LEMMA InitVersioned == Init => VInv
BY DEF Init, VInv, HistoryIsAChain, CopiesAreCommitted,
       Version0IsAbsent, TxMatchesBasis, SavedIsCommitted, NothingDeleted,
       Genuine, Absent

LEMMA VersionedInvariant == ASSUME Cleaner = {} PROVE Spec => []VInv
<1>1. TInv /\ LockInv /\ VInv /\ [Next]_vars => VInv'
  BY StepVersioned
<1> QED
  BY <1>1, InitVersioned, AlwaysTyped, AlwaysLocked, PTL DEF Spec

(* Whatever cache, form or process a copy went through, its version and its  *)
(* document belong together, while nobody deletes the key; saves without an  *)
(* expected version do no harm to that.                                     *)
THEOREM KeptCopiesAreCommitted ==
  ASSUME Cleaner = {} PROVE Spec => []CopiesAreCommitted
<1>1. VInv => CopiesAreCommitted
  BY DEF VInv
<1> QED
  BY <1>1, VersionedInvariant, PTL

(* The audit trail then is a gapless chain that ends in the present row.     *)
THEOREM KeptHistoryIsAChain ==
  ASSUME Cleaner = {} PROVE Spec => []HistoryIsAChain
<1>1. VInv => HistoryIsAChain
  BY DEF VInv
<1> QED
  BY <1>1, VersionedInvariant, PTL

(* A save that passed the version check writes over the very row its edit    *)
(* was made on, whoever else saves without one.                             *)
THEOREM CheckedSavesAreFresh ==
  ASSUME Cleaner = {} PROVE Spec => []AcceptedSaveIsFresh
<1>1. TInv /\ LockInv /\ VInv => AcceptedSaveIsFresh
  BY LockedIsFresh DEF AcceptedSaveIsFresh, CanWrite
<1> QED
  BY <1>1, VersionedInvariant, AlwaysTyped, AlwaysLocked, PTL

-----------------------------------------------------------------------------
(* The retries of a worker *)

(* Every conflict that a reloading worker has counted stands for a save of   *)
(* somebody else since its update began: the copy it is about to save from   *)
(* is at least that many saves younger.                                     *)
RetryCounted(w) ==
  /\ pc[w] \in {"read", "lost"} => \/ attempts[w] = 0
                                   \/ began[w] + attempts[w] <= Len(log)
  /\ pc[w] = "ready" => began[w] + attempts[w] <= basis[w].version
  /\ pc[w] = "lost" => attempts[w] = MaxAttempts

RetryInv == \A w \in Reloader : RetryCounted(w)

(* Only a COMMIT and a deletion touch the row and its audit trail.          *)
LEMMA OnlyCommitsWrite ==
  ASSUME Cleaner = {}, VInv, [Next]_vars
  PROVE  UNCHANGED <<row, log>> \/ \E p \in Proc : SaveCommit(p)
BY DEF Next, Step, WebStep, WorkerStep, Expire, SaveBegin, SaveConflict, SaveFail,
       SaveReturn, Crash, CacheHit, CacheMiss, Query, QueryFail, Fill, DeleteRow,
       DropCache, LogDelete, Open, Read, Abandon, Exit, dbVars, vars, VInv,
       NothingDeleted, Proc, Web

(* A COMMIT appends the document it writes to the trail.                    *)
LEMMA CommitAppends ==
  ASSUME TInv, NEW p \in Proc, SaveCommit(p)
  PROVE  /\ row'.value = tx[p].value
         /\ Len(log) \in Nat /\ Len(log') = Len(log) + 1
         /\ \A i \in 1..Len(log) : log'[i] = log[i]
         /\ log'[Len(log')].new = tx[p].value
BY DEF SaveCommit, Saved, TInv, TypeOK

(* The version of a genuine copy is a position in the history.               *)
LEMMA CopyInHistory ==
  ASSUME NEW r, NEW l, Len(l) \in Nat, Genuine(r, l)
  PROVE  r.version \in 0..Len(l)
BY DEF Genuine, NoRow, Absent

(* A step that leaves a worker alone does not shorten the trail either.      *)
LEMMA RetryKept ==
  ASSUME TInv, NEW w \in Reloader, RetryCounted(w), Len(log') \in Nat, Len(log') >= Len(log),
         pc'[w] = pc[w] \/ pc'[w] \notin {"read", "lost", "ready"},
         basis'[w] = basis[w], attempts'[w] = attempts[w], began'[w] = began[w]
  PROVE  RetryCounted(w)'
BY ConfigStoreAssumption DEF RetryCounted, TInv, TypeOK

LEMMA StepRetries ==
  ASSUME Cleaner = {}, TInv, TInv', VInv, RetryInv, [Next]_vars
  PROVE  RetryInv'
<1> SUFFICES ASSUME NEW w \in Reloader PROVE RetryCounted(w)'
  BY DEF RetryInv
<1>1. /\ RetryCounted(w) /\ w \in Worker /\ w \in Proc
      /\ Len(log) \in Nat /\ Len(log) = row.version
      /\ attempts[w] \in 0..MaxAttempts /\ began[w] \in Nat /\ MaxAttempts \in Nat \ {0}
  BY ConfigStoreAssumption DEF RetryInv, TInv, TypeOK, VInv, HistoryIsAChain, Proc
<1>2. Len(log') \in Nat /\ Len(log') >= Len(log)
  BY <1>1, OnlyCommitsWrite, CommitAppends
<1> USE DEF TInv, TypeOK, dbVars, Goto, Hold
<1>3. CASE Expire \/ UNCHANGED vars
  BY <1>1, <1>2, <1>3, RetryKept DEF Expire, vars
<1>4. ASSUME NEW p \in Web, WebStep(p) PROVE RetryCounted(w)'
  <2>1. p # w
    BY <1>1, ConfigStoreAssumption
  <2> QED
    BY <1>1, <1>2, <1>4, <2>1, RetryKept
       DEF WebStep, CacheHit, CacheMiss, Query, QueryFail, Fill, DeleteRow, DropCache, LogDelete
<1>5. ASSUME NEW p \in Proc \ {w}, Step(p) PROVE RetryCounted(w)'
  BY <1>1, <1>2, <1>5, RetryKept
     DEF Step, SaveBegin, SaveConflict, SaveCommit, SaveFail, SaveReturn, Crash, KeepForm
<1>6. ASSUME NEW p \in Worker \ {w}, WorkerStep(p) PROVE RetryCounted(w)'
  BY <1>1, <1>2, <1>6, RetryKept DEF WorkerStep, Open, Read, MarkStart, Abandon, Exit
<1>7. CASE Read(w)
  <2>1. /\ pc[w] = "read" /\ pc'[w] = "ready" /\ basis'[w] = row
        /\ attempts' = attempts
        /\ began'[w] = IF attempts[w] = 0 THEN Len(log) ELSE began[w]
    BY <1>1, <1>7 DEF Read, MarkStart
  <2> QED
    BY <1>1, <2>1 DEF RetryCounted
<1>8. CASE Open(w) \/ Abandon(w) \/ SaveFail(w)
  <2>1. pc'[w] = "read" /\ attempts'[w] = 0
    BY <1>1, <1>8, ConfigStoreAssumption DEF Open, Abandon, SaveFail, Web, Proc
  <2> QED
    BY <2>1 DEF RetryCounted
<1>9. CASE Exit(w) \/ SaveBegin(w) \/ SaveCommit(w) \/ Crash(w)
  <2>1. pc'[w] \in {"idle", "locked", "committed"}
    BY <1>1, <1>9, ConfigStoreAssumption DEF Exit, SaveBegin, SaveCommit, Crash, Web, Proc
  <2> QED
    BY <2>1 DEF RetryCounted
<1>10. CASE SaveReturn(w)
  <2>1. pc'[w] = "read" /\ attempts'[w] = 0
    BY <1>1, <1>10, ConfigStoreAssumption DEF SaveReturn, Web
  <2> QED
    BY <2>1 DEF RetryCounted
<1>11. CASE SaveConflict(w)
  <2>1. /\ pc[w] = "ready" /\ basis[w].version # row.version
        /\ attempts'[w] = attempts[w] + 1 /\ began' = began /\ log' = log
        /\ pc'[w] = IF attempts[w] + 1 < MaxAttempts THEN "read" ELSE "lost"
    BY <1>1, <1>11, ConfigStoreAssumption
       DEF SaveConflict, AfterConflict, VersionMatches, HasForm, Web, WorkTyped
  <2>2. basis[w].version \in 0..Len(log)
    BY <1>1, CopyInHistory DEF VInv, CopiesAreCommitted
  <2>3. began[w] + attempts[w] + 1 <= Len(log)
    BY <1>1, <2>1, <2>2 DEF RetryCounted
  <2>4. attempts'[w] \in 0..MaxAttempts
    BY <1>1
  <2> QED
    BY <1>1, <2>1, <2>3, <2>4 DEF RetryCounted
<1> QED
  BY <1>1, <1>3, <1>4, <1>5, <1>6, <1>7, <1>8, <1>9, <1>10, <1>11 DEF Next, Step, WorkerStep

(* However the saves of browsers, requests and workers interleave, a worker   *)
(* that reloads the row before each attempt gives up only after MaxAttempts   *)
(* saves of others: no attempt is spent twice on the same one, and no update  *)
(* is refused without contention.                                           *)
THEOREM LostUpdatesWereContended ==
  ASSUME Cleaner = {} PROVE Spec => []LostOnlyUnderContention
<1>1. Init => RetryInv
  BY ConfigStoreAssumption DEF Init, RetryInv, RetryCounted, Proc
<1>2. TInv /\ TInv' /\ VInv /\ RetryInv /\ [Next]_vars => RetryInv'
  BY StepRetries
<1>3. TInv /\ RetryInv => LostOnlyUnderContention
  BY ConfigStoreAssumption
     DEF RetryInv, RetryCounted, LostOnlyUnderContention, TInv, TypeOK
<1> QED
  BY <1>1, <1>2, <1>3, VersionedInvariant, AlwaysTyped, PTL DEF Spec

-----------------------------------------------------------------------------
(* Edits are kept where every save is checked *)

LEMMA NobodyDeletes == ASSUME Blind = {} PROVE Cleaner = {}
BY ConfigStoreAssumption

LEMMA StepLosesNothing ==
  ASSUME Blind = {}, TInv, LockInv, VInv, NoLostUpdate, [Next]_vars
  PROVE  NoLostUpdate'
<1>1. CASE UNCHANGED <<row, log>>
  BY <1>1 DEF NoLostUpdate
<1>2. ASSUME NEW p \in Proc, SaveCommit(p) PROVE NoLostUpdate'
  <2>1. row = tx[p].seen /\ basis[p] = row /\ row \in Row
    BY <1>2, LockedIsFresh DEF SaveCommit, CanWrite, TInv, TypeOK
  <2>2. row.value \subseteq tx[p].value
    BY <1>2, <2>1 DEF SaveCommit, VInv, TxMatchesBasis
  <2> QED
    BY <1>2, <2>2, CommitAppends DEF NoLostUpdate
<1> QED
  BY <1>1, <1>2, NobodyDeletes, OnlyCommitsWrite

(* No update is lost as long as every save names the version it was made    *)
(* on.                                                                     *)
THEOREM VersionedSavesLoseNothing == ASSUME Blind = {} PROVE Spec => []NoLostUpdate
<1>1. Init => NoLostUpdate
  BY DEF Init, NoLostUpdate
<1>2. TInv /\ LockInv /\ VInv /\ NoLostUpdate /\ [Next]_vars => NoLostUpdate'
  BY StepLosesNothing
<1> QED
  BY <1>1, <1>2, NobodyDeletes, VersionedInvariant, AlwaysTyped, AlwaysLocked, PTL DEF Spec

-----------------------------------------------------------------------------
(* The store implements the register of EditRegister *)

LEMMA InitRegister == Init => Register!RegisterInit
BY DEF Init, Register!RegisterInit, Absent, NoRow

(* A step that leaves the audit trail alone only moves copies.               *)
LEMMA LookStep ==
  ASSUME TInv, VInv', log' = log, TInv'
  PROVE  Register!Look
<1>1. Len(log) \in Nat /\ Len(log') \in Nat
  BY DEF TInv, TypeOK
<1>2. apcu'.version \in 0..Len(log) /\ \A p \in Proc : basis'[p].version \in 0..Len(log)
  BY <1>1, CopyInHistory DEF VInv, CopiesAreCommitted
<1> QED
  BY <1>1, <1>2 DEF Register!Look

(* The names of the edits made so far, and the one each transaction adds.    *)
FreshInv ==
  /\ row.value \subseteq 1..edits
  /\ \A p \in Proc : pc[p] = "locked" =>
       /\ tx[p].value \subseteq 1..edits
       /\ \E e \in Edits : /\ e \notin tx[p].seen.value
                          /\ tx[p].value = tx[p].seen.value \cup {e}

LEMMA StepFresh ==
  ASSUME Blind = {}, TInv, LockInv, VInv, FreshInv, [Next]_vars
  PROVE  FreshInv'
<1> USE ConfigStoreAssumption DEF TInv, TypeOK, Goto, Hold, Forget, HasForm, Proc, Web
<1>1. ASSUME NEW p \in Proc, SaveBegin(p) PROVE FreshInv'
  <2> DEFINE d == basis[p].value \cup {edits + 1}
  <2>1. /\ row' = row /\ edits' = edits + 1 /\ edits \in Nat /\ edits + 1 \in Edits
        /\ pc' = [pc EXCEPT ![p] = "locked"]
        /\ tx' = [tx EXCEPT ![p] = [seen |-> row, value |-> d]]
    BY <1>1 DEF SaveBegin, Edits
  <2>2. basis[p] = row
    BY <1>1, RowIsGenuine DEF SaveBegin, VersionMatches, VInv, CopiesAreCommitted, WorkTyped
  <2>3. d \subseteq 1..edits' /\ edits + 1 \notin row.value /\ d = row.value \cup {edits + 1}
    BY <2>1, <2>2 DEF FreshInv
  <2>4. \A q \in Proc \ {p} : pc'[q] = pc[q] /\ tx'[q] = tx[q]
    BY <2>1
  <2>5. tx'[p].seen = row /\ tx'[p].value = d
    BY <2>1
  <2>6. \A S : S \subseteq 1..edits => S \subseteq 1..edits'
    BY <2>1
  <2> HIDE DEF d
  <2> QED
    BY <2>1, <2>3, <2>4, <2>5, <2>6 DEF FreshInv
<1>2. ASSUME NEW p \in Proc, SaveCommit(p) PROVE FreshInv'
  <2>1. /\ row'.value = tx[p].value /\ UNCHANGED <<tx, edits>>
        /\ pc' = [pc EXCEPT ![p] = "committed"] /\ pc[p] = "locked"
    BY <1>2 DEF SaveCommit, CanWrite, Saved
  <2> QED
    BY <2>1 DEF FreshInv
<1>3. CASE /\ row' = row /\ edits' = edits
           /\ \A p \in Proc : pc'[p] = "locked" => pc[p] = "locked" /\ tx'[p] = tx[p]
  BY <1>3 DEF FreshInv
<1>4. ASSUME NEW p \in Web, WebStep(p) PROVE FreshInv'
  BY <1>3, <1>4, NoRowIsNoRow
     DEF WebStep, CacheHit, CacheMiss, Query, QueryFail, Fill, DeleteRow, DropCache,
         LogDelete, VInv, NothingDeleted, dbVars
<1>5. ASSUME NEW w \in Worker, WorkerStep(w) PROVE FreshInv'
  BY <1>3, <1>5 DEF WorkerStep, Open, Read, Abandon, Exit, dbVars
<1>6. ASSUME NEW p \in Proc, SaveConflict(p) \/ SaveFail(p) \/ SaveReturn(p) \/ Crash(p)
      PROVE  FreshInv'
  BY <1>3, <1>6 DEF SaveConflict, AfterConflict, SaveFail, SaveReturn, Crash, dbVars, KeepForm
<1>7. CASE Expire \/ UNCHANGED vars
  BY <1>3, <1>7 DEF Expire, vars, dbVars
<1> QED
  BY <1>1, <1>2, <1>4, <1>5, <1>6, <1>7 DEF Next, Step

LEMMA FreshInvariant == ASSUME Blind = {} PROVE Spec => []FreshInv
<1>1. Init => FreshInv
  BY DEF Init, FreshInv, Absent
<1>2. TInv /\ LockInv /\ VInv /\ FreshInv /\ [Next]_vars => FreshInv'
  BY StepFresh
<1> QED
  BY <1>1, <1>2, AlwaysTyped, AlwaysLocked, NobodyDeletes, VersionedInvariant, PTL DEF Spec

(* A COMMIT is an accepted edit of the latest document.                      *)
LEMMA CommitIsAccept ==
  ASSUME Blind = {}, TInv, LockInv, VInv, FreshInv, NEW p \in Proc, SaveCommit(p)
  PROVE  \E e \in Edits : Register!Accept(p, e)
<1>1. basis[p] = row /\ row = tx[p].seen /\ row \in Row
  BY LockedIsFresh DEF SaveCommit, CanWrite, TInv, TypeOK
<1>2. PICK e \in Edits : e \notin row.value /\ tx[p].value = row.value \cup {e}
  BY <1>1 DEF SaveCommit, CanWrite, FreshInv
<1>3. /\ Len(log) \in Nat /\ Len(log) = row.version
      /\ Len(log') = Len(log) + 1
      /\ \A i \in 1..Len(log) : log'[i] = log[i]
      /\ log'[Len(log')].new = tx[p].value
  BY CommitAppends DEF VInv, HistoryIsAChain
<1> DEFINE h == [i \in 1..Len(log) |-> log[i].new]
<1>4. h \in Seq(Document \cup {NoValue}) /\ Len(h) = Len(log)
  <2>1. \A i \in 1..Len(log) : log[i].new \in Document \cup {NoValue}
    <3> TAKE i \in 1..Len(log)
    <3>1. log[i] \in [old : Document \cup {NoValue}, new : Document \cup {NoValue}]
      BY ElementOfSeq DEF TInv, TypeOK
    <3> QED
      BY <3>1
  <2>2. h \in [1..Len(log) -> Document \cup {NoValue}]
    BY <2>1
  <2> HIDE DEF h
  <2>3. h \in Seq(Document \cup {NoValue})
    BY <2>2, <1>3, SeqDef
  <2>4. DOMAIN h = 1..Len(h) /\ Len(h) \in Nat
    BY <2>3, LenProperties
  <2> QED
    BY <2>2, <2>3, <2>4, <1>3
<1>5. Register!Latest = row.value
  <2>1. CASE log = <<>>
    <3>1. row.value = {}
      BY <2>1, <1>3 DEF VInv, Version0IsAbsent, Absent
    <3> QED
      BY <2>1, <3>1 DEF Register!Latest
  <2>2. CASE log # <<>>
    <3>1. log[Len(log)].new = row.value /\ Len(log) \in 1..Len(log) /\ h # <<>>
      BY <2>2, <1>3, <1>4 DEF VInv, HistoryIsAChain, TInv, TypeOK
    <3> QED
      BY <3>1, <1>4 DEF Register!Latest
  <2> QED
    BY <2>1, <2>2
<1>6. [i \in 1..Len(log') |-> log'[i].new] = Append(h, row.value \cup {e})
  BY <1>2, <1>3, <1>4
<1>7. UNCHANGED <<apcu, basis>> /\ p # "apcu"
  BY ConfigStoreAssumption DEF SaveCommit, CanWrite
<1> QED
  BY <1>1, <1>2, <1>3, <1>5, <1>6, <1>7 DEF Register!Accept

(* Every step of the store is a step of the register, or none.               *)
LEMMA StepRegister ==
  ASSUME Blind = {}, TInv, LockInv, VInv, FreshInv, TInv', VInv', [Next]_vars
  PROVE  [Register!RegisterNext]_(Register!registerVars)
<1>1. ASSUME NEW p \in Proc, SaveCommit(p) PROVE Register!RegisterNext
  BY <1>1, CommitIsAccept, ConfigStoreAssumption DEF Register!RegisterNext
<1>2. ASSUME log' = log PROVE Register!RegisterNext
  BY <1>2, LookStep DEF Register!RegisterNext
<1>3. (\E p \in Proc : SaveCommit(p)) \/ log' = log
  BY DEF Next, Step, WebStep, WorkerStep, Expire, SaveBegin, SaveConflict, SaveFail,
         SaveReturn, Crash, CacheHit, CacheMiss, Query, QueryFail, Fill, DeleteRow,
         DropCache, LogDelete, Open, Read, Abandon, Exit, dbVars, vars, VInv,
         NothingDeleted, Proc, Web
<1> QED
  BY <1>1, <1>2, <1>3

(* With versioned saves only, the store with its caches, forms, retries and  *)
(* crashes implements the edit register: a save that commits was made on a    *)
(* copy of the latest document and adds one edit to it.                     *)
THEOREM VersionedStoreIsARegister ==
  ASSUME Blind = {} PROVE Spec => ImplementsRegister
<1>1. /\ TInv /\ LockInv /\ VInv /\ FreshInv /\ TInv' /\ VInv' /\ [Next]_vars
        => [Register!RegisterNext]_(Register!registerVars)
  BY StepRegister
<1> QED
  BY <1>1, InitRegister, AlwaysTyped, AlwaysLocked, NobodyDeletes, VersionedInvariant,
     FreshInvariant, PTL DEF Spec, ImplementsRegister, Register!RegisterSpec
=============================================================================
