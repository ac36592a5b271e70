------------------------- MODULE RecordOwnersProofs -------------------------
(***************************************************************************)
(* Theorems about RecordOwners for any sets of records, users and requests *)
(* at work together.                                                       *)
(***************************************************************************)
EXTENDS RecordOwners, FiniteSetTheorems, TLAPS

OwnerRow == [owner : User, current : BOOLEAN]

(* Indices of the rows of r that p has closed.                              *)
Mine(p, r) == {i \in DOMAIN owners[r] : <<r, i>> \in touched[p]}

-----------------------------------------------------------------------------
(* What an UPDATE makes of the rows of a record. *)
LEMMA ClosedRows ==
  ASSUME TypeOK, NEW p \in Request, NEW r \in Record
  PROVE  /\ Closed(p)[r] \in Seq(OwnerRow)
         /\ DOMAIN Closed(p)[r] = DOMAIN owners[r]
         /\ Len(Closed(p)[r]) = Len(owners[r])
         /\ \A i \in DOMAIN owners[r] :
              Closed(p)[r][i].current <=> owners[r][i].current /\ i \notin Mine(p, r)
<1>1. owners[r] \in Seq(OwnerRow)
  BY DEF TypeOK, OwnerRow
<1>2. Closed(p)[r] = [i \in DOMAIN owners[r] |->
                        IF <<r, i>> \in touched[p]
                        THEN [owners[r][i] EXCEPT !.current = FALSE]
                        ELSE owners[r][i]]
  BY DEF Closed
<1>3. \A i \in DOMAIN owners[r] : owners[r][i] \in OwnerRow
  BY <1>1
<1>4. \A i \in DOMAIN owners[r] : Closed(p)[r][i] \in OwnerRow
  BY <1>2, <1>3 DEF OwnerRow
<1>5. DOMAIN owners[r] = 1..Len(owners[r]) /\ Len(owners[r]) \in Nat
  BY <1>1
<1>6. Closed(p)[r] \in [1..Len(owners[r]) -> OwnerRow]
  BY <1>2, <1>4, <1>5
<1>7. Closed(p)[r] \in Seq(OwnerRow) /\ Len(Closed(p)[r]) = Len(owners[r])
  BY <1>5, <1>6
<1>8. ASSUME NEW i \in DOMAIN owners[r]
      PROVE  Closed(p)[r][i].current <=> owners[r][i].current /\ i \notin Mine(p, r)
  <2>1. CASE i \in Mine(p, r)
    <3>1. Closed(p)[r][i] = [owners[r][i] EXCEPT !.current = FALSE]
      BY <1>2, <2>1 DEF Mine
    <3>2. Closed(p)[r][i].current = FALSE
      BY <1>3, <3>1 DEF OwnerRow
    <3> QED
      BY <2>1, <3>2
  <2>2. CASE i \notin Mine(p, r)
    <3>1. Closed(p)[r][i] = owners[r][i]
      BY <1>2, <2>2 DEF Mine
    <3> QED
      BY <2>2, <3>1
  <2> QED
    BY <2>1, <2>2
<1> QED
  BY <1>2, <1>7, <1>8

(* What an assignment makes of the rows of a record. *)
LEMMA AssignedRows ==
  ASSUME TypeOK, NEW p \in Request, NEW r \in Record, job[p].owner \in User
  PROVE  /\ Assigned(p)[r] \in Seq(OwnerRow)
         /\ r \notin job[p].records => Assigned(p)[r] = Closed(p)[r]
         /\ r \in job[p].records =>
              /\ DOMAIN Assigned(p)[r] = DOMAIN owners[r] \cup {Len(owners[r]) + 1}
              /\ Assigned(p)[r][Len(owners[r]) + 1].current
              /\ \A i \in DOMAIN owners[r] : Assigned(p)[r][i] = Closed(p)[r][i]
<1> DEFINE new == [owner |-> job[p].owner, current |-> TRUE]
<1>1. /\ Closed(p)[r] \in Seq(OwnerRow)
      /\ DOMAIN Closed(p)[r] = DOMAIN owners[r]
      /\ Len(Closed(p)[r]) = Len(owners[r])
  BY ClosedRows
<1>2. new \in OwnerRow /\ new.current
  BY DEF OwnerRow
<1>3. CASE r \in job[p].records
  <2>1. Assigned(p)[r] = Append(Closed(p)[r], new)
    BY <1>3 DEF Assigned
  <2> HIDE DEF new
  <2>2. /\ Assigned(p)[r] \in Seq(OwnerRow)
        /\ Len(Assigned(p)[r]) = Len(owners[r]) + 1
        /\ Assigned(p)[r][Len(owners[r]) + 1] = new
        /\ \A i \in 1..Len(owners[r]) : Assigned(p)[r][i] = Closed(p)[r][i]
    BY <1>1, <1>2, <2>1
  <2>3. owners[r] \in Seq(OwnerRow)
    BY DEF TypeOK, OwnerRow
  <2>4. DOMAIN owners[r] = 1..Len(owners[r]) /\ Len(owners[r]) \in Nat
    BY <2>3
  <2>5. DOMAIN Assigned(p)[r] = 1..(Len(owners[r]) + 1)
    BY <2>2
  <2> QED
    BY <1>2, <1>3, <2>2, <2>4, <2>5
<1>4. CASE r \notin job[p].records
  BY <1>1, <1>4 DEF Assigned
<1> QED
  BY <1>3, <1>4

(* The current rows of a record after its rows have been closed ...         *)
LEMMA CurrentClosed ==
  ASSUME TypeOK, NEW p \in Request, NEW r \in Record, owners' = Closed(p)
  PROVE  Current(r)' = Current(r) \ Mine(p, r)
BY ClosedRows DEF Current

(* ... and after it was assigned.                                           *)
LEMMA CurrentAssigned ==
  ASSUME TypeOK, NEW p \in Request, NEW r \in Record, job[p].owner \in User,
         owners' = Assigned(p)
  PROVE  /\ r \in job[p].records =>
              Current(r)' = (Current(r) \ Mine(p, r)) \cup {Len(owners[r]) + 1}
         /\ r \notin job[p].records => Current(r)' = Current(r) \ Mine(p, r)
<1>1. CASE r \in job[p].records
  <2>1. Len(owners[r]) + 1 \notin DOMAIN owners[r]
    <3>1. owners[r] \in Seq(OwnerRow)
      BY DEF TypeOK, OwnerRow
    <3> QED
      BY <3>1
  <2> QED
    BY <1>1, <2>1, AssignedRows, ClosedRows DEF Current
<1>2. CASE r \notin job[p].records
  BY <1>2, AssignedRows, ClosedRows DEF Current
<1> QED
  BY <1>1, <1>2

LEMMA CurrentFinite ==
  ASSUME TypeOK, NEW r \in Record
  PROVE  IsFiniteSet(Current(r)) /\ Cardinality(Current(r)) \in Nat
<1>1. owners[r] \in Seq(OwnerRow)
  BY DEF TypeOK, OwnerRow
<1>2. DOMAIN owners[r] = 1..Len(owners[r]) /\ Len(owners[r]) \in Nat
  BY <1>1
<1>3. IsFiniteSet(DOMAIN owners[r])
  BY <1>2, FS_Interval
<1>4. Current(r) \in SUBSET DOMAIN owners[r]
  BY DEF Current
<1> QED
  BY <1>3, <1>4, FS_Subset, FS_CardinalityType

-----------------------------------------------------------------------------
LEMMA SnapshotRows ==
  ASSUME TypeOK, NEW p \in Request
  PROVE  Snapshot(p) \in SUBSET Rows
<1>1. ASSUME NEW r \in job[p].records, NEW i \in Current(r) PROVE <<r, i>> \in Rows
  <2>1. r \in Record
    BY DEF TypeOK
  <2>2. owners[r] \in Seq(OwnerRow)
    BY <2>1 DEF TypeOK, OwnerRow
  <2>3. i \in 1..Len(owners[r]) /\ Len(owners[r]) \in Nat
    BY <2>2 DEF Current
  <2> QED
    BY <2>1, <2>3 DEF Rows
<1> QED
  BY <1>1 DEF Snapshot

LEMMA BeginTyped ==
  ASSUME TypeOK, NEW p \in Request, NEW records \in SUBSET Record, NEW u \in User,
         Begin(p, records, u)
  PROVE  /\ pc' \in [Request -> {"idle", "assign", "update", "insert", "commit"}]
         /\ job' \in [Request -> [records : SUBSET Record, owner : User \cup {"none"}]]
         /\ \A q \in Request : pc'[q] # "idle" => job'[q].owner \in User
         /\ requests' \in 0..MaxRequests
<1>1. pc' = [pc EXCEPT ![p] = "assign"] /\ requests' = requests + 1 /\ requests < MaxRequests
  BY DEF Begin, Goto
<1>2. job' = [job EXCEPT ![p] = [records |-> records, owner |-> u]]
  BY DEF Begin
<1>3. [records |-> records, owner |-> u]
        \in [records : SUBSET Record, owner : User \cup {"none"}]
  OBVIOUS
<1>4. job' \in [Request -> [records : SUBSET Record, owner : User \cup {"none"}]]
  BY <1>2, <1>3 DEF TypeOK
<1>5. pc' \in [Request -> {"idle", "assign", "update", "insert", "commit"}]
  BY <1>1 DEF TypeOK
<1>6. requests' \in 0..MaxRequests
  BY <1>1, RecordOwnersAssumption DEF TypeOK
<1>7. ASSUME NEW q \in Request, pc'[q] # "idle" PROVE job'[q].owner \in User
  BY <1>1, <1>2, <1>7 DEF TypeOK
<1> QED
  BY <1>4, <1>5, <1>6, <1>7

LEMMA ReleaseTyped ==
  ASSUME TypeOK, NEW p \in Request, Release(p)
  PROVE  /\ pc' \in [Request -> {"idle", "assign", "update", "insert", "commit"}]
         /\ job' \in [Request -> [records : SUBSET Record, owner : User \cup {"none"}]]
         /\ \A q \in Request : pc'[q] # "idle" => job'[q].owner \in User
         /\ seen' \in [Request -> SUBSET Rows]
         /\ touched' \in [Request -> SUBSET Rows]
BY DEF TypeOK, Release, Goto, NoJob

LEMMA VisibleTyped ==
  ASSUME TypeOK, NEW p \in Request, pc[p] # "idle", Visible(p)
  PROVE  /\ owners' \in [Record -> Seq([owner : User, current : BOOLEAN])]
         /\ behind' \in [Request -> SUBSET Record]
         /\ extra' \in [Record -> Nat]
         /\ unowned' \in SUBSET Record
<1>1. job[p].owner \in User
  BY DEF TypeOK
<1>2. \A r \in Record : Assigned(p)[r] \in Seq(OwnerRow)
  BY <1>1, AssignedRows
<1>3. owners' \in [Record -> Seq(OwnerRow)]
  <2>1. owners' = Assigned(p) /\ DOMAIN Assigned(p) = Record
    BY DEF Visible, Assigned
  <2>2. Assigned(p) = [r \in Record |-> Assigned(p)[r]]
    BY DEF Assigned
  <2> QED
    BY <1>2, <2>1, <2>2
<1>4. behind' \in [Request -> SUBSET Record]
  BY DEF Visible, OverBack, TypeOK
<1>5. extra' \in [Record -> Nat]
  BY DEF Visible, TypeOK
<1>6. unowned' \in SUBSET Record
  BY DEF Visible, TypeOK
<1> QED
  BY <1>3, <1>4, <1>5, <1>6 DEF OwnerRow

LEMMA FailUpdateTyped ==
  ASSUME TypeOK, NEW p \in Request, FailUpdate(p), requests' = requests,
         faults' \in 0..MaxFaults
  PROVE  TypeOK'
<1>1. CASE p \in Single
  BY <1>1 DEF TypeOK, FailUpdate, Goto, tables
<1>2. CASE p \notin Single
  BY <1>2, ReleaseTyped DEF TypeOK, FailUpdate, Rollback, tables
<1> QED
  BY <1>1, <1>2

LEMMA StepTyped == TypeOK /\ [Next]_vars => TypeOK'
<1> SUFFICES ASSUME TypeOK, [Next]_vars PROVE TypeOK'
  OBVIOUS
<1> USE RecordOwnersAssumption DEF tables, history, bounds
<1>1. ASSUME NEW p \in Request, NEW r \in Record, NEW u \in User, Create(p, r, u)
      PROVE  TypeOK'
  BY <1>1, BeginTyped DEF TypeOK, Create
<1>2. ASSUME NEW p \in Request, NEW r \in Record, NEW u \in User, SetOwner(p, r, u)
      PROVE  TypeOK'
  BY <1>2, BeginTyped DEF TypeOK, SetOwner
<1>3. ASSUME NEW p \in Request, NEW records \in SUBSET Record, NEW u \in User,
             MassSetOwner(p, records, u)
      PROVE  TypeOK'
  BY <1>3, BeginTyped DEF TypeOK, MassSetOwner
<1>4. ASSUME NEW p \in Request, StartUpdate(p) PROVE TypeOK'
  BY <1>4, SnapshotRows DEF TypeOK, StartUpdate, Goto
<1>5. ASSUME NEW p \in Request, NEW row \in seen[p], Touch(p, row) PROVE TypeOK'
  <2>1. row \in Rows
    BY DEF TypeOK
  <2>2. touched' \in [Request -> SUBSET Rows] /\ seen' \in [Request -> SUBSET Rows]
    BY <1>5, <2>1 DEF TypeOK, Touch
  <2> QED
    BY <1>5, <2>2 DEF TypeOK, Touch
<1>6. ASSUME NEW p \in Request, EndUpdate(p) PROVE TypeOK'
  <2>1. \A r \in Record : Closed(p)[r] \in Seq(OwnerRow)
    BY ClosedRows
  <2>2. Closed(p) = [r \in Record |-> Closed(p)[r]]
    BY DEF Closed
  <2>3. Closed(p) \in [Record -> Seq(OwnerRow)]
    BY <2>1, <2>2
  <2>4. owners' \in [Record -> Seq(OwnerRow)] /\ touched' \in [Request -> SUBSET Rows]
    BY <1>6, <2>3 DEF EndUpdate, TypeOK, OwnerRow
  <2>5. /\ pc' \in [Request -> {"idle", "assign", "update", "insert", "commit"}]
        /\ \A q \in Request : pc'[q] # "idle" => job[q].owner \in User
    BY <1>6 DEF EndUpdate, TypeOK, Goto
  <2> QED
    BY <1>6, <2>4, <2>5 DEF EndUpdate, TypeOK, OwnerRow
<1>7. ASSUME NEW p \in Request, Insert(p) \/ Commit(p) PROVE TypeOK'
  <2>1. pc[p] # "idle" /\ Visible(p) /\ Release(p) /\ UNCHANGED <<created, bounds>>
    BY <1>7 DEF Insert, Commit
  <2> QED
    BY <2>1, VisibleTyped, ReleaseTyped DEF TypeOK
<1>8. ASSUME NEW p \in Request, BulkInsert(p) PROVE TypeOK'
  BY <1>8 DEF TypeOK, BulkInsert, Goto
<1>9. ASSUME NEW p \in Request, Victim(p) PROVE TypeOK'
  BY <1>9, FailUpdateTyped DEF TypeOK, Victim
<1>10. ASSUME NEW p \in Request, Fault(p) PROVE TypeOK'
  <2>1. faults' \in 0..MaxFaults
    BY <1>10 DEF TypeOK, Fault
  <2>2. CASE FailUpdate(p)
    BY <1>10, <2>1, <2>2, FailUpdateTyped DEF Fault
  <2>3. CASE FailInsert(p)
    <3>1. Release(p) /\ UNCHANGED <<tables, behind, extra, requests>>
      BY <1>10, <2>3 DEF Fault, FailInsert, Rollback
    <3>2. unowned' \in SUBSET Record
      BY <2>3 DEF TypeOK, FailInsert
    <3> QED
      BY <2>1, <3>1, <3>2, ReleaseTyped DEF TypeOK
  <2> QED
    BY <1>10, <2>2, <2>3 DEF Fault
<1>11. CASE UNCHANGED vars
  BY <1>11 DEF TypeOK, vars
<1>12. ASSUME NEW r \in Record, CreateUnowned(r) PROVE TypeOK'
  BY <1>12 DEF TypeOK, CreateUnowned
<1> QED
  BY <1>1, <1>2, <1>3, <1>4, <1>5, <1>6, <1>7, <1>8, <1>9, <1>10, <1>11, <1>12
     DEF Next, Start, Work

(* Type correctness, however many requests are at work together.            *)
THEOREM TypeCorrect == Spec => []TypeOK
<1>1. Init => TypeOK
  BY RecordOwnersAssumption DEF Init, TypeOK, NoJob
<1> QED
  BY <1>1, StepTyped, PTL DEF Spec

-----------------------------------------------------------------------------
(* The inductive invariant *)

(* Rows of r that p's UPDATE has still to visit.                            *)
Left(p, r) == {i \in DOMAIN owners[r] : <<r, i>> \in seen[p]}

(* A request has rows to visit during its UPDATE only, and locks on rows    *)
(* only as long as its transaction lasts.                                  *)
ShapeInv ==
  \A p \in Request : /\ pc[p] # "update" => seen[p] = {}
                     /\ pc[p] \in {"idle", "assign"} => touched[p] = {}
                     /\ pc[p] # "update" /\ p \in Single => touched[p] = {}

(* A row is changed by one transaction at a time.                          *)
LockInv == \A p, q \in Request : p # q => touched[p] \cap touched[q] = {}

(* It is a current row of a record that is being assigned.                  *)
OwnInv ==
  \A p \in Request, r \in Record, i \in Nat :
    /\ <<r, i>> \in touched[p] => r \in job[p].records /\ i \in Current(r)
    /\ <<r, i>> \in seen[p] => r \in job[p].records /\ i \in DOMAIN owners[r]

(* Unless something happened behind its back, a request closes every        *)
(* current row of its records.                                             *)
CoverInv ==
  \A p \in Request : \A r \in job[p].records \ behind[p] :
    /\ pc[p] = "update" => Current(r) \subseteq Mine(p, r) \cup Left(p, r)
    /\ pc[p] \in {"insert", "commit"} => Current(r) \subseteq Mine(p, r)

OInv == ShapeInv /\ LockInv /\ OwnInv /\ CoverInv

LEMMA OInvInit == Init => OInv
BY DEF Init, OInv, ShapeInv, LockInv, OwnInv, CoverInv, NoJob

(* A request that begins has no rows of its own yet.                        *)
LEMMA BeginKeeps ==
  ASSUME TypeOK, OInv, NEW p \in Request, NEW records \in SUBSET Record, NEW u \in User,
         Begin(p, records, u), UNCHANGED <<owners, seen, touched, behind>>
  PROVE  OInv'
<1>1. /\ pc[p] = "idle" /\ pc' = [pc EXCEPT ![p] = "assign"]
      /\ job' = [job EXCEPT ![p] = [records |-> records, owner |-> u]]
  BY DEF Begin, Goto
<1>2. seen[p] = {} /\ touched[p] = {}
  BY <1>1 DEF OInv, ShapeInv
<1>3. ShapeInv'
  BY <1>1, <1>2 DEF OInv, ShapeInv, TypeOK
<1>4. LockInv'
  BY DEF OInv, LockInv
<1>5. OwnInv'
  BY <1>1, <1>2 DEF OInv, OwnInv, Current, TypeOK
<1>6. CoverInv'
  <2> SUFFICES ASSUME NEW q \in Request, NEW r \in (job'[q].records \ behind'[q])
               PROVE  /\ pc'[q] = "update" => Current(r)' \subseteq Mine(q, r)' \cup Left(q, r)'
                      /\ pc'[q] \in {"insert", "commit"} => Current(r)' \subseteq Mine(q, r)'
    BY DEF CoverInv
  <2>1. Current(r)' = Current(r) /\ Mine(q, r)' = Mine(q, r) /\ Left(q, r)' = Left(q, r)
    BY DEF Current, Mine, Left
  <2>2. CASE q = p
    BY <1>1, <2>2 DEF TypeOK
  <2>3. CASE q # p
    BY <1>1, <2>1, <2>3 DEF OInv, CoverInv, TypeOK
  <2> QED
    BY <2>2, <2>3
<1> QED
  BY <1>3, <1>4, <1>5, <1>6 DEF OInv

LEMMA StartUpdateKeeps ==
  ASSUME TypeOK, OInv, NEW p \in Request, StartUpdate(p)
  PROVE  OInv'
<1>1. /\ pc[p] = "assign" /\ pc' = [pc EXCEPT ![p] = "update"]
      /\ seen' = [seen EXCEPT ![p] = Snapshot(p)]
      /\ behind' = [behind EXCEPT ![p] = {}]
      /\ UNCHANGED <<owners, job, touched>>
  BY DEF StartUpdate, Goto, tables
<1>2. touched[p] = {}
  BY <1>1 DEF OInv, ShapeInv
<1>3. ShapeInv'
  BY <1>1, <1>2 DEF OInv, ShapeInv, TypeOK
<1>4. LockInv'
  BY <1>1 DEF OInv, LockInv
<1>5. \A r \in Record, i \in Nat :
        <<r, i>> \in Snapshot(p) <=> r \in job[p].records /\ i \in Current(r)
  BY DEF Snapshot
<1>6. OwnInv'
  BY <1>1, <1>5 DEF OInv, OwnInv, Current, TypeOK
<1>7. CoverInv'
  <2> SUFFICES ASSUME NEW q \in Request, NEW r \in (job'[q].records \ behind'[q])
               PROVE  /\ pc'[q] = "update" => Current(r)' \subseteq Mine(q, r)' \cup Left(q, r)'
                      /\ pc'[q] \in {"insert", "commit"} => Current(r)' \subseteq Mine(q, r)'
    BY DEF CoverInv
  <2>1. Current(r)' = Current(r) /\ Mine(q, r)' = Mine(q, r)
    BY <1>1 DEF Current, Mine
  <2>2. CASE q = p
    <3>1. r \in job[p].records
      BY <1>1, <2>2
    <3>2. Current(r) \subseteq Left(p, r)'
      BY <1>1, <3>1 DEF Snapshot, Left, Current, TypeOK
    <3> QED
      BY <1>1, <2>1, <2>2, <3>2 DEF TypeOK
  <2>3. CASE q # p
    <3>1. /\ pc'[q] = pc[q] /\ behind'[q] = behind[q] /\ job'[q] = job[q]
          /\ Left(q, r)' = Left(q, r)
      BY <1>1, <2>3 DEF Left, TypeOK
    <3> QED
      BY <2>1, <3>1 DEF OInv, CoverInv
  <2> QED
    BY <2>2, <2>3
<1> QED
  BY <1>3, <1>4, <1>6, <1>7 DEF OInv

LEMMA TouchKeeps ==
  ASSUME TypeOK, OInv, NEW p \in Request, NEW row \in seen[p], Touch(p, row)
  PROVE  OInv'
<1>1. PICK r0 \in Record, i0 \in Nat : row = <<r0, i0>>
  BY DEF TypeOK, Rows
<1>2. /\ pc[p] = "update" /\ UNCHANGED <<owners, pc, job, behind>>
      /\ seen' = [seen EXCEPT ![p] = @ \ {row}]
      /\ ~Locked(p, row)
  BY DEF Touch, tables, history
<1>3. r0 \in job[p].records /\ i0 \in DOMAIN owners[r0]
  BY <1>1 DEF OInv, OwnInv
<1>4. touched' = [touched EXCEPT ![p] = IF i0 \in Current(r0) THEN @ \cup {row} ELSE @]
  BY <1>1, <1>3 DEF Touch, Current
<1>5. ShapeInv'
  BY <1>2, <1>4 DEF OInv, ShapeInv, TypeOK
<1>6. LockInv'
  BY <1>2, <1>4 DEF OInv, LockInv, Locked, TypeOK
<1>7. \A r \in Record : Current(r)' = Current(r)
  BY <1>2 DEF Current
<1>8. OwnInv'
  <2> SUFFICES ASSUME NEW q \in Request, NEW r \in Record, NEW i \in Nat
               PROVE  /\ <<r, i>> \in touched'[q] => r \in job'[q].records /\ i \in Current(r)'
                      /\ <<r, i>> \in seen'[q] => r \in job'[q].records /\ i \in DOMAIN owners'[r]
    BY DEF OwnInv
  <2>1. <<r, i>> \in seen'[q] => <<r, i>> \in seen[q]
    BY <1>2 DEF TypeOK
  <2>2. <<r, i>> \in touched'[q] =>
          <<r, i>> \in touched[q] \/ (q = p /\ r = r0 /\ i = i0 /\ i0 \in Current(r0))
    BY <1>1, <1>4 DEF TypeOK
  <2> QED
    BY <1>2, <1>3, <1>7, <2>1, <2>2 DEF OInv, OwnInv
<1>9. CoverInv'
  <2> SUFFICES ASSUME NEW q \in Request, NEW r \in (job[q].records \ behind[q])
               PROVE  /\ pc[q] = "update" => Current(r)' \subseteq Mine(q, r)' \cup Left(q, r)'
                      /\ pc[q] \in {"insert", "commit"} => Current(r)' \subseteq Mine(q, r)'
    BY <1>2 DEF CoverInv
  <2>1. r \in Record
    BY DEF TypeOK
  <2>2. CASE q = p
    <3>1. Current(r) \subseteq Mine(p, r) \cup Left(p, r)
      BY <1>2, <2>2 DEF OInv, CoverInv
    <3>2. ASSUME NEW i \in Current(r) PROVE i \in Mine(p, r)' \cup Left(p, r)'
      <4>1. CASE r = r0 /\ i = i0
        BY <1>1, <1>2, <1>3, <1>4, <4>1, <3>2 DEF Mine, TypeOK
      <4>2. CASE ~(r = r0 /\ i = i0)
        BY <1>1, <1>2, <1>4, <3>1, <3>2, <4>2 DEF Mine, Left, TypeOK
      <4> QED
        BY <4>1, <4>2
    <3> QED
      BY <1>2, <1>7, <2>1, <2>2, <3>2
  <2>3. CASE q # p
    <3>1. Mine(q, r)' = Mine(q, r) /\ Left(q, r)' = Left(q, r)
      BY <1>2, <1>4, <2>3 DEF Mine, Left, TypeOK
    <3> QED
      BY <1>7, <2>1, <3>1 DEF OInv, CoverInv
  <2> QED
    BY <2>2, <2>3
<1> QED
  BY <1>5, <1>6, <1>8, <1>9 DEF OInv

(* Giving everything up, as at the end of a request. *)
LEMMA ReleaseKeeps ==
  ASSUME TypeOK, OInv, NEW p \in Request, Release(p), UNCHANGED <<owners, behind>>
  PROVE  OInv'
<1>1. /\ pc' = [pc EXCEPT ![p] = "idle"] /\ job' = [job EXCEPT ![p] = NoJob]
      /\ seen' = [seen EXCEPT ![p] = {}] /\ touched' = [touched EXCEPT ![p] = {}]
  BY DEF Release, Goto
<1>2. ShapeInv'
  BY <1>1 DEF OInv, ShapeInv, TypeOK
<1>3. LockInv'
  BY <1>1 DEF OInv, LockInv, TypeOK
<1>4. OwnInv'
  BY <1>1 DEF OInv, OwnInv, Current, TypeOK
<1>5. CoverInv'
  <2> SUFFICES ASSUME NEW q \in Request, NEW r \in (job'[q].records \ behind'[q])
               PROVE  /\ pc'[q] = "update" => Current(r)' \subseteq Mine(q, r)' \cup Left(q, r)'
                      /\ pc'[q] \in {"insert", "commit"} => Current(r)' \subseteq Mine(q, r)'
    BY DEF CoverInv
  <2>1. CASE q = p
    BY <1>1, <2>1 DEF TypeOK
  <2>2. CASE q # p
    <3>1. /\ pc'[q] = pc[q] /\ job'[q] = job[q] /\ behind'[q] = behind[q]
          /\ Current(r)' = Current(r) /\ Mine(q, r)' = Mine(q, r) /\ Left(q, r)' = Left(q, r)
      BY <1>1, <2>2 DEF Current, Mine, Left, TypeOK
    <3> QED
      BY <3>1 DEF OInv, CoverInv
  <2> QED
    BY <2>1, <2>2
<1> QED
  BY <1>2, <1>3, <1>4, <1>5 DEF OInv

(* The rows that another request q looks at survive a statement of p.       *)
LEMMA OthersRows ==
  ASSUME TypeOK, OInv, NEW p \in Request, NEW q \in Request, p # q, NEW r \in Record,
         \/ owners' = Closed(p)
         \/ owners' = Assigned(p) /\ job[p].owner \in User,
         touched'[q] = touched[q], seen'[q] = seen[q]
  PROVE  /\ DOMAIN owners[r] \subseteq DOMAIN owners'[r]
         /\ Mine(q, r) \subseteq Current(r)'
         /\ owners' = Closed(p) \/ r \notin job[p].records =>
              Current(r)' \subseteq Current(r)
         /\ Mine(q, r) \subseteq Mine(q, r)' /\ Left(q, r) \subseteq Left(q, r)'
<1>1. Mine(q, r) \subseteq Current(r) /\ Mine(q, r) \cap Mine(p, r) = {}
  <2>1. owners[r] \in Seq(OwnerRow)
    BY DEF TypeOK, OwnerRow
  <2>2. DOMAIN owners[r] \subseteq Nat
    BY <2>1
  <2> QED
    BY <2>2 DEF OInv, OwnInv, LockInv, Mine
<1>2. CASE owners' = Closed(p)
  <2>1. Current(r)' = Current(r) \ Mine(p, r)
    BY <1>2, CurrentClosed
  <2>2. DOMAIN owners'[r] = DOMAIN owners[r]
    BY <1>2, ClosedRows
  <2> QED
    BY <1>1, <2>1, <2>2 DEF Mine, Left
<1>3. CASE owners' = Assigned(p) /\ job[p].owner \in User
  <2>1. /\ Current(r) \ Mine(p, r) \subseteq Current(r)'
        /\ r \notin job[p].records => Current(r)' \subseteq Current(r)
    BY <1>3, CurrentAssigned
  <2>2. DOMAIN owners[r] \subseteq DOMAIN owners'[r]
    BY <1>3, AssignedRows, ClosedRows
  <2>3. owners' = Closed(p) => Current(r)' \subseteq Current(r)
    BY CurrentClosed
  <2> QED
    BY <1>1, <2>1, <2>2, <2>3 DEF Mine, Left
<1> QED
  BY <1>2, <1>3

LEMMA EndUpdateKeeps ==
  ASSUME TypeOK, OInv, NEW p \in Request, EndUpdate(p)
  PROVE  OInv'
<1>1. /\ pc[p] = "update" /\ pc' = [pc EXCEPT ![p] = "insert"] /\ seen[p] = {}
      /\ UNCHANGED <<job, seen, behind>>
  BY DEF EndUpdate, Goto, history
<1>2. CASE p \in Single
  <2>1. owners' = Closed(p) /\ touched' = [touched EXCEPT ![p] = {}]
    BY <1>2 DEF EndUpdate
  <2>2. ASSUME NEW q \in Request, q # p, NEW r \in Record
        PROVE  /\ DOMAIN owners[r] \subseteq DOMAIN owners'[r]
               /\ Mine(q, r) \subseteq Current(r)' /\ Current(r)' \subseteq Current(r)
               /\ Mine(q, r) \subseteq Mine(q, r)' /\ Left(q, r) \subseteq Left(q, r)'
    <3>1. touched'[q] = touched[q] /\ seen'[q] = seen[q]
      BY <1>1, <2>1, <2>2
    <3> QED
      BY <2>1, <2>2, <3>1, OthersRows
  <2>3. ShapeInv'
    BY <1>1, <2>1 DEF OInv, ShapeInv, TypeOK
  <2>4. LockInv'
    BY <2>1 DEF OInv, LockInv, TypeOK
  <2>5. OwnInv'
    <3> SUFFICES ASSUME NEW q \in Request, NEW r \in Record, NEW i \in Nat
                 PROVE  /\ <<r, i>> \in touched'[q] => r \in job'[q].records /\ i \in Current(r)'
                        /\ <<r, i>> \in seen'[q] => r \in job'[q].records /\ i \in DOMAIN owners'[r]
      BY DEF OwnInv
    <3>1. CASE q = p
      BY <1>1, <2>1, <3>1 DEF TypeOK
    <3>2. CASE q # p
      <4>1. touched'[q] = touched[q] /\ seen'[q] = seen[q] /\ job'[q] = job[q]
        BY <1>1, <2>1, <3>2
      <4>2. <<r, i>> \in touched[q] => i \in Mine(q, r)
        BY DEF OInv, OwnInv, Current, Mine
      <4> QED
        BY <2>2, <3>2, <4>1, <4>2 DEF OInv, OwnInv
    <3> QED
      BY <3>1, <3>2
  <2>6. CoverInv'
    <3> SUFFICES ASSUME NEW q \in Request, NEW r \in (job[q].records \ behind[q])
                 PROVE  /\ pc'[q] = "update" => Current(r)' \subseteq Mine(q, r)' \cup Left(q, r)'
                        /\ pc'[q] \in {"insert", "commit"} => Current(r)' \subseteq Mine(q, r)'
      BY <1>1 DEF CoverInv
    <3>1. r \in Record
      BY DEF TypeOK
    <3>2. CASE q = p
      <4>1. Left(p, r) = {}
        BY <1>1 DEF Left
      <4>2. Current(r) \subseteq Mine(p, r)
        BY <1>1, <3>2, <4>1 DEF OInv, CoverInv
      <4>3. Current(r)' = {}
        BY <2>1, <3>1, <4>2, CurrentClosed
      <4> QED
        BY <1>1, <3>2, <4>3 DEF TypeOK
    <3>3. CASE q # p
      <4>1. pc'[q] = pc[q]
        BY <1>1, <3>3
      <4> QED
        BY <2>2, <3>1, <3>3, <4>1 DEF OInv, CoverInv
    <3> QED
      BY <3>2, <3>3
  <2> QED
    BY <2>3, <2>4, <2>5, <2>6 DEF OInv
<1>3. CASE p \notin Single
  <2>1. UNCHANGED <<owners, touched>>
    BY <1>3 DEF EndUpdate
  <2>2. \A q \in Request, r \in Record :
          Current(r)' = Current(r) /\ Mine(q, r)' = Mine(q, r) /\ Left(q, r)' = Left(q, r)
    BY <1>1, <2>1 DEF Current, Mine, Left
  <2>3. ShapeInv'
    BY <1>1, <1>3, <2>1 DEF OInv, ShapeInv, TypeOK
  <2>4. LockInv' /\ OwnInv'
    BY <1>1, <2>1, <2>2 DEF OInv, LockInv, OwnInv
  <2>5. CoverInv'
    <3> SUFFICES ASSUME NEW q \in Request, NEW r \in (job[q].records \ behind[q])
                 PROVE  /\ pc'[q] = "update" => Current(r)' \subseteq Mine(q, r)' \cup Left(q, r)'
                        /\ pc'[q] \in {"insert", "commit"} => Current(r)' \subseteq Mine(q, r)'
      BY <1>1 DEF CoverInv
    <3>1. r \in Record
      BY DEF TypeOK
    <3>2. CASE q = p
      <4>1. Left(p, r) = {}
        BY <1>1 DEF Left
      <4>2. Current(r) \subseteq Mine(p, r)
        BY <1>1, <3>2, <4>1 DEF OInv, CoverInv
      <4> QED
        BY <1>1, <2>2, <3>1, <3>2, <4>2 DEF TypeOK
    <3>3. CASE q # p
      <4>1. pc'[q] = pc[q]
        BY <1>1, <3>3
      <4> QED
        BY <2>2, <3>1, <4>1 DEF OInv, CoverInv
    <3> QED
      BY <3>2, <3>3
  <2> QED
    BY <2>3, <2>4, <2>5 DEF OInv
<1> QED
  BY <1>2, <1>3

(* New rows become visible: everyone who missed them is told so.            *)
LEMMA VisibleKeeps ==
  ASSUME TypeOK, OInv, NEW p \in Request, pc[p] # "idle", Visible(p), Release(p)
  PROVE  OInv'
<1>1. /\ pc' = [pc EXCEPT ![p] = "idle"] /\ job' = [job EXCEPT ![p] = NoJob]
      /\ seen' = [seen EXCEPT ![p] = {}] /\ touched' = [touched EXCEPT ![p] = {}]
  BY DEF Release, Goto
<1>2. owners' = Assigned(p) /\ job[p].owner \in User
  BY DEF Visible, TypeOK
<1>3. \A q \in Request \ {p} : touched'[q] = touched[q] /\ seen'[q] = seen[q]
  BY <1>1
<1>4. ShapeInv'
  BY <1>1 DEF OInv, ShapeInv, TypeOK
<1>5. LockInv'
  BY <1>1 DEF OInv, LockInv, TypeOK
<1>6. OwnInv'
  <2> SUFFICES ASSUME NEW q \in Request, NEW r \in Record, NEW i \in Nat
               PROVE  /\ <<r, i>> \in touched'[q] => r \in job'[q].records /\ i \in Current(r)'
                      /\ <<r, i>> \in seen'[q] => r \in job'[q].records /\ i \in DOMAIN owners'[r]
    BY DEF OwnInv
  <2>1. CASE q = p
    BY <1>1, <2>1 DEF TypeOK
  <2>2. CASE q # p
    <3>1. job'[q] = job[q]
      BY <1>1, <2>2
    <3>2. DOMAIN owners[r] \subseteq DOMAIN owners'[r] /\ Mine(q, r) \subseteq Current(r)'
      BY <1>2, <1>3, <2>2, OthersRows
    <3>3. <<r, i>> \in touched[q] => i \in Mine(q, r)
      BY DEF OInv, OwnInv, Current, Mine
    <3> QED
      BY <1>3, <2>2, <3>1, <3>2, <3>3 DEF OInv, OwnInv
  <2> QED
    BY <2>1, <2>2
<1>7. CoverInv'
  <2> SUFFICES ASSUME NEW q \in Request, NEW r \in (job'[q].records \ behind'[q]),
                      pc'[q] \in {"update", "insert", "commit"}
               PROVE  /\ pc'[q] = "update" => Current(r)' \subseteq Mine(q, r)' \cup Left(q, r)'
                      /\ pc'[q] \in {"insert", "commit"} => Current(r)' \subseteq Mine(q, r)'
    BY DEF CoverInv
  <2>1. q # p /\ pc'[q] = pc[q] /\ job'[q] = job[q]
    BY <1>1 DEF TypeOK
  <2>2. r \in Record
    BY <2>1 DEF TypeOK
  <2>3. behind'[q] = behind[q] \cup (job[p].records \cap job[q].records)
    BY <2>1 DEF Visible, OverBack
  <2>4. r \notin job[p].records /\ r \in job[q].records \ behind[q]
    BY <2>1, <2>3
  <2>5. /\ Current(r)' \subseteq Current(r)
        /\ Mine(q, r) \subseteq Mine(q, r)' /\ Left(q, r) \subseteq Left(q, r)'
    BY <1>2, <1>3, <2>1, <2>2, <2>4, OthersRows
  <2> QED
    BY <2>1, <2>4, <2>5 DEF OInv, CoverInv
<1> QED
  BY <1>4, <1>5, <1>6, <1>7 DEF OInv

LEMMA FailUpdateKeeps ==
  ASSUME TypeOK, OInv, NEW p \in Request, FailUpdate(p)
  PROVE  OInv'
<1>1. CASE p \in Single
  <2>1. /\ pc' = [pc EXCEPT ![p] = "insert"] /\ UNCHANGED <<owners, job>>
        /\ seen' = [seen EXCEPT ![p] = {}] /\ touched' = [touched EXCEPT ![p] = {}]
        /\ behind' = [behind EXCEPT ![p] = job[p].records]
    BY <1>1 DEF FailUpdate, Goto, tables
  <2>2. ShapeInv'
    BY <2>1 DEF OInv, ShapeInv, TypeOK
  <2>3. LockInv'
    BY <2>1 DEF OInv, LockInv, TypeOK
  <2>4. OwnInv'
    BY <2>1 DEF OInv, OwnInv, Current, TypeOK
  <2>5. CoverInv'
    <3> SUFFICES ASSUME NEW q \in Request, NEW r \in (job[q].records \ behind'[q])
                 PROVE  /\ pc'[q] = "update" => Current(r)' \subseteq Mine(q, r)' \cup Left(q, r)'
                        /\ pc'[q] \in {"insert", "commit"} => Current(r)' \subseteq Mine(q, r)'
      BY <2>1 DEF CoverInv
    <3>1. q # p
      BY <2>1 DEF TypeOK
    <3>2. /\ pc'[q] = pc[q] /\ behind'[q] = behind[q]
          /\ Current(r)' = Current(r) /\ Mine(q, r)' = Mine(q, r) /\ Left(q, r)' = Left(q, r)
      BY <2>1, <3>1 DEF Current, Mine, Left, TypeOK
    <3> QED
      BY <3>2 DEF OInv, CoverInv
  <2> QED
    BY <2>2, <2>3, <2>4, <2>5 DEF OInv
<1>2. CASE p \notin Single
  BY <1>2, ReleaseKeeps DEF FailUpdate, Rollback, tables
<1> QED
  BY <1>1, <1>2

LEMMA OInvStep == TypeOK /\ OInv /\ [Next]_vars => OInv'
<1> SUFFICES ASSUME TypeOK, OInv, [Next]_vars PROVE OInv'
  OBVIOUS
<1>1. ASSUME NEW p \in Request, NEW r \in Record, NEW u \in User,
             Create(p, r, u) \/ SetOwner(p, r, u)
      PROVE  OInv'
  <2>1. Begin(p, {r}, u) /\ UNCHANGED <<owners, seen, touched, behind>>
    BY <1>1 DEF Create, SetOwner, tables, history
  <2> QED
    BY <2>1, BeginKeeps
<1>2. ASSUME NEW p \in Request, NEW records \in SUBSET Record, NEW u \in User,
             MassSetOwner(p, records, u)
      PROVE  OInv'
  <2>1. Begin(p, records, u) /\ UNCHANGED <<owners, seen, touched, behind>>
    BY <1>2 DEF MassSetOwner, tables, history
  <2> QED
    BY <2>1, BeginKeeps
<1>3. ASSUME NEW p \in Request, Insert(p) \/ Commit(p) PROVE OInv'
  <2>1. pc[p] # "idle" /\ Visible(p) /\ Release(p)
    BY <1>3 DEF Insert, Commit
  <2> QED
    BY <2>1, VisibleKeeps
<1>4. ASSUME NEW p \in Request, BulkInsert(p) PROVE OInv'
  <2>1. /\ p \notin Single /\ pc[p] = "insert" /\ pc' = [pc EXCEPT ![p] = "commit"]
        /\ UNCHANGED <<owners, job, seen, touched, behind>>
    BY <1>4, RecordOwnersAssumption DEF BulkInsert, Goto, tables, history
  <2>2. ShapeInv' /\ LockInv'
    BY <2>1 DEF OInv, ShapeInv, LockInv, TypeOK
  <2>3. \A q \in Request, r \in Record :
          Current(r)' = Current(r) /\ Mine(q, r)' = Mine(q, r) /\ Left(q, r)' = Left(q, r)
    BY <2>1 DEF Current, Mine, Left
  <2>4. OwnInv'
    BY <2>1, <2>3 DEF OInv, OwnInv
  <2>5. CoverInv'
    BY <2>1, <2>3 DEF OInv, CoverInv, TypeOK
  <2> QED
    BY <2>2, <2>4, <2>5 DEF OInv
<1>5. ASSUME NEW p \in Request, Fault(p) PROVE OInv'
  <2>1. CASE FailUpdate(p)
    BY <2>1, FailUpdateKeeps
  <2>2. CASE FailInsert(p)
    BY <2>2, ReleaseKeeps DEF FailInsert, Rollback, tables
  <2> QED
    BY <1>5, <2>1, <2>2 DEF Fault
<1>6. ASSUME NEW p \in Request, Victim(p) PROVE OInv'
  BY <1>6, FailUpdateKeeps DEF Victim
<1>7. CASE UNCHANGED vars
  <2>1. UNCHANGED <<owners, pc, job, seen, touched, behind>>
    BY <1>7 DEF vars, tables, history
  <2> QED
    BY <2>1 DEF OInv, ShapeInv, LockInv, OwnInv, CoverInv, Current, Mine, Left
<1>8. ASSUME NEW r \in Record, CreateUnowned(r) PROVE OInv'
  <2>1. UNCHANGED <<owners, pc, job, seen, touched, behind>>
    BY <1>8 DEF CreateUnowned
  <2> QED
    BY <2>1 DEF OInv, ShapeInv, LockInv, OwnInv, CoverInv, Current, Mine, Left
<1> QED
  BY <1>1, <1>2, <1>3, <1>4, <1>5, <1>6, <1>7, <1>8, StartUpdateKeeps, TouchKeeps, EndUpdateKeeps
     DEF Next, Start, Work

-----------------------------------------------------------------------------
(* Every step but the last one of an assignment leaves the owners of a       *)
(* record alone or takes some away.                                        *)
LEMMA OwnersStep ==
  ASSUME TypeOK, OInv, [Next]_vars
  PROVE  \/ \E p \in Request : /\ pc[p] \in {"insert", "commit"}
                               /\ Visible(p) /\ Release(p) /\ created' = created
         \/ /\ extra' = extra
            /\ \/ owners' = owners
               \/ \E p \in Single : EndUpdate(p) /\ owners' = Closed(p)
<1> USE DEF tables, history
<1>1. ASSUME NEW p \in Request, EndUpdate(p)
      PROVE  extra' = extra /\ (owners' = owners \/ (p \in Single /\ owners' = Closed(p)))
  BY <1>1 DEF EndUpdate
<1>2. ASSUME NEW p \in Request, Insert(p) \/ Commit(p)
      PROVE  pc[p] \in {"insert", "commit"} /\ Visible(p) /\ Release(p) /\ created' = created
  BY <1>2 DEF Insert, Commit
<1>3. ASSUME NEW p \in Request, Fault(p) \/ Victim(p) PROVE UNCHANGED <<owners, extra>>
  BY <1>3 DEF Fault, Victim, FailUpdate, FailInsert
<1>4. ASSUME NEW p \in Request, Start(p) PROVE UNCHANGED <<owners, extra>>
  BY <1>4 DEF Start, Create, SetOwner, MassSetOwner
<1>5. ASSUME NEW p \in Request,
             StartUpdate(p) \/ BulkInsert(p) \/ \E row \in seen[p] : Touch(p, row)
      PROVE  UNCHANGED <<owners, extra>>
  BY <1>5 DEF StartUpdate, BulkInsert, Touch
<1>6. CASE UNCHANGED vars \/ \E r \in Record : CreateUnowned(r)
  BY <1>6 DEF vars, CreateUnowned
<1>7. CASE \E p \in Request : Start(p) \/ Work(p) \/ Fault(p)
  <2>1. PICK p \in Request : Start(p) \/ Work(p) \/ Fault(p)
    BY <1>7
  <2>2. CASE Insert(p) \/ Commit(p)
    BY <1>2, <2>2
  <2>3. CASE EndUpdate(p)
    BY <1>1, <2>3
  <2>4. CASE Start(p) \/ Fault(p) \/ Victim(p)
    BY <1>3, <1>4, <2>4
  <2>5. CASE StartUpdate(p) \/ BulkInsert(p) \/ \E row \in seen[p] : Touch(p, row)
    BY <1>5, <2>5
  <2> QED
    BY <2>1, <2>2, <2>3, <2>4, <2>5 DEF Work
<1> QED
  BY <1>6, <1>7 DEF Next

(* What the last step of an assignment adds is accounted for.               *)
LEMMA AssignmentAccounted ==
  ASSUME TypeOK, OInv, ExtraOwnersHaveAReason,
         NEW p \in Request, pc[p] \in {"insert", "commit"}, Visible(p), NEW r \in Record
  PROVE  Cardinality(Current(r)') <= 1 + extra'[r]
<1>1. owners' = Assigned(p) /\ job[p].owner \in User
  BY DEF Visible, TypeOK
<1>2. extra'[r] = IF r \notin job[p].records THEN extra[r]
                  ELSE IF r \in behind[p] THEN extra[r] + 1 ELSE 0
  BY DEF Visible
<1>3. /\ IsFiniteSet(Current(r)) /\ Cardinality(Current(r)) \in Nat
      /\ Cardinality(Current(r)) <= 1 + extra[r] /\ extra[r] \in Nat
  BY CurrentFinite DEF ExtraOwnersHaveAReason, TypeOK
<1> DEFINE kept == Current(r) \ Mine(p, r)
<1>4. IsFiniteSet(kept) /\ Cardinality(kept) \in Nat /\ Cardinality(kept) <= Cardinality(Current(r))
  <2>1. kept \in SUBSET Current(r)
    OBVIOUS
  <2> QED
    BY <1>3, <2>1, FS_Subset, FS_CardinalityType
<1>5. CASE r \notin job[p].records
  <2>1. Current(r)' = kept
    BY <1>1, <1>5, CurrentAssigned
  <2> HIDE DEF kept
  <2> QED
    BY <1>2, <1>3, <1>4, <1>5, <2>1
<1>6. CASE r \in job[p].records
  <2>1. Current(r)' = kept \cup {Len(owners[r]) + 1}
    BY <1>1, <1>6, CurrentAssigned
  <2>2. CASE r \in behind[p]
    <3> HIDE DEF kept
    <3> DEFINE new == Len(owners[r]) + 1
    <3> HIDE DEF new
    <3>0. Current(r)' = kept \cup {new}
      BY <2>1 DEF new
    <3>1. Cardinality(kept \cup {new}) = IF new \in kept THEN Cardinality(kept)
                                         ELSE Cardinality(kept) + 1
      BY <1>4, FS_AddElement
    <3>2. Cardinality(Current(r)') \in Nat /\ Cardinality(Current(r)') <= Cardinality(kept) + 1
      BY <1>4, <3>0, <3>1
    <3> QED
      BY <1>2, <1>3, <1>4, <1>6, <2>2, <3>2
  <2>3. CASE r \notin behind[p]
    <3>1. kept = {}
      BY <1>6, <2>3 DEF OInv, CoverInv
    <3>2. Cardinality(Current(r)') = 1
      <4>1. Current(r)' = {Len(owners[r]) + 1}
        BY <2>1, <3>1
      <4> QED
        BY <4>1, FS_Singleton
    <3> QED
      BY <1>2, <1>6, <2>3, <3>2
  <2> QED
    BY <2>2, <2>3
<1> QED
  BY <1>5, <1>6

LEMMA ExtraStep == TypeOK /\ OInv /\ ExtraOwnersHaveAReason /\ [Next]_vars
                     => ExtraOwnersHaveAReason'
<1> SUFFICES ASSUME TypeOK, OInv, ExtraOwnersHaveAReason, [Next]_vars, NEW r \in Record
             PROVE  Cardinality(Current(r)') <= 1 + extra'[r]
  BY DEF ExtraOwnersHaveAReason
<1>1. ASSUME NEW p \in Request, pc[p] \in {"insert", "commit"}, Visible(p)
      PROVE  Cardinality(Current(r)') <= 1 + extra'[r]
  BY <1>1, AssignmentAccounted
<1>2. CASE owners' = owners /\ extra' = extra
  BY <1>2 DEF ExtraOwnersHaveAReason, Current
<1>3. ASSUME NEW p \in Single, owners' = Closed(p), extra' = extra
      PROVE  Cardinality(Current(r)') <= 1 + extra'[r]
  <2>1. Current(r)' \in SUBSET Current(r)
    BY <1>3, CurrentClosed DEF Request
  <2>2. IsFiniteSet(Current(r)) /\ Cardinality(Current(r)) \in Nat
    BY CurrentFinite
  <2>3. Cardinality(Current(r)') <= Cardinality(Current(r)) /\ Cardinality(Current(r)') \in Nat
    BY <2>1, <2>2, FS_Subset, FS_CardinalityType
  <2> QED
    BY <1>3, <2>2, <2>3 DEF ExtraOwnersHaveAReason, TypeOK
<1> QED
  BY <1>1, <1>2, <1>3, OwnersStep

LEMMA ExtraInit == Init => ExtraOwnersHaveAReason
<1> SUFFICES ASSUME Init, NEW r \in Record PROVE Cardinality(Current(r)) <= 1 + extra[r]
  BY DEF ExtraOwnersHaveAReason
<1>1. Current(r) = {} /\ extra[r] = 0
  BY DEF Init, Current
<1> QED
  BY <1>1, FS_EmptySet

(* A record has more than one owner only if assignments were disturbed, and  *)
(* an undisturbed one leaves a single owner, however many requests there    *)
(* are.                                                                    *)
THEOREM OwnersAreAccounted == Spec => []ExtraOwnersHaveAReason
<1>1. Init => OInv /\ ExtraOwnersHaveAReason
  BY OInvInit, ExtraInit
<1> QED
  BY <1>1, TypeCorrect, OInvStep, ExtraStep, PTL DEF Spec

-----------------------------------------------------------------------------
(* The two checks of who may see a record agree as long as it has at most   *)
(* one owner.                                                              *)
LEMMA AgreementFollows == TypeOK /\ ExtraOwnersHaveAReason => ChecksAgree
<1> SUFFICES ASSUME TypeOK, ExtraOwnersHaveAReason, NEW r \in Record, NEW u \in User,
                    extra[r] = 0
             PROVE  /\ Hides(r, u) <=> MayRefuse(r, u)
                    /\ Hides(r, u) <=> ~MayAllow(r, u)
  BY DEF ChecksAgree
<1>1. IsFiniteSet(Current(r)) /\ Cardinality(Current(r)) \in Nat
      /\ Cardinality(Current(r)) <= 1
  BY CurrentFinite DEF ExtraOwnersHaveAReason
<1>2. CASE Current(r) = {}
  BY <1>2 DEF Hides, MayRefuse, MayAllow
<1>3. CASE Current(r) # {}
  <2>1. Cardinality(Current(r)) = 1
    BY <1>1, <1>3, FS_EmptySet
  <2>2. PICK i : Current(r) = {i}
    BY <1>1, <2>1, FS_Singleton
  <2> QED
    BY <2>2 DEF Hides, MayRefuse, MayAllow
<1> QED
  BY <1>2, <1>3

(* The lists and the check of a single record agree on who may see a record  *)
(* that no disturbed assignment left with two owners.                       *)
THEOREM VisibilityIsDefinite == Spec => []ChecksAgree
BY AgreementFollows, TypeCorrect, OwnersAreAccounted, PTL

-----------------------------------------------------------------------------
(* Steps that leave the rows, the records and the jobs alone, as far as a    *)
(* record without an owner can tell.                                       *)
LEMMA UnownedKept ==
  ASSUME TypeOK, UnownedHaveAReason, NEW r \in created, Current(r)' = {}, Current(r) = {},
         r \in unowned => r \in unowned',
         \A q \in Single : pc[q] # "idle" /\ r \in job[q].records =>
           r \in unowned' \/ (pc'[q] # "idle" /\ r \in job'[q].records)
  PROVE  \/ r \in unowned'
         \/ \E q \in Single : pc'[q] # "idle" /\ r \in job'[q].records
BY DEF UnownedHaveAReason

LEMMA UnownedStep == TypeOK /\ OInv /\ UnownedHaveAReason /\ [Next]_vars
                       => UnownedHaveAReason'
<1> SUFFICES ASSUME TypeOK, OInv, UnownedHaveAReason, [Next]_vars,
                    NEW r \in created', Current(r)' = {}
             PROVE  \/ r \in unowned'
                    \/ \E q \in Single : pc'[q] # "idle" /\ r \in job'[q].records
  BY DEF UnownedHaveAReason
<1> DEFINE Goal == \/ r \in unowned'
                   \/ \E q \in Single : pc'[q] # "idle" /\ r \in job'[q].records
<1> USE DEF tables, history
<1>1. ASSUME NEW p \in Request, NEW r0 \in Record, NEW u \in User, Create(p, r0, u)
      PROVE  Goal
  <2>1. /\ p \in Single /\ pc[p] = "idle" /\ pc' = [pc EXCEPT ![p] = "assign"]
        /\ job' = [job EXCEPT ![p] = [records |-> {r0}, owner |-> u]]
        /\ created' = created \cup {r0} /\ UNCHANGED <<owners, unowned>>
    BY <1>1 DEF Create, Begin, Goto
  <2>2. CASE r = r0
    BY <2>1, <2>2 DEF TypeOK
  <2>3. CASE r # r0
    <3>1. r \in created /\ Current(r) = {}
      BY <2>1, <2>3 DEF Current
    <3>2. \A q \in Single : pc[q] # "idle" => pc'[q] = pc[q] /\ job'[q] = job[q]
      BY <2>1 DEF TypeOK
    <3> QED
      BY <2>1, <3>1, <3>2, UnownedKept
  <2> QED
    BY <2>2, <2>3
<1>2. ASSUME NEW p \in Request, NEW records \in SUBSET Record, NEW u \in User,
             Begin(p, records, u), UNCHANGED <<created, owners, unowned>>
      PROVE  Goal
  <2>1. r \in created /\ Current(r) = {}
    BY <1>2 DEF Current
  <2>2. \A q \in Single : pc[q] # "idle" => pc'[q] = pc[q] /\ job'[q] = job[q]
    BY <1>2 DEF Begin, Goto, TypeOK
  <2> QED
    BY <1>2, <2>1, <2>2, UnownedKept
<1>3. ASSUME NEW p \in Request, EndUpdate(p) PROVE Goal
  <2>1. /\ pc' = [pc EXCEPT ![p] = "insert"]
        /\ UNCHANGED <<created, job, unowned>>
    BY <1>3 DEF EndUpdate, Goto
  <2>2. r \in created /\ r \in Record
    BY <2>1 DEF TypeOK
  <2>3. \A q \in Single : pc[q] # "idle" => pc'[q] # "idle"
    BY <2>1 DEF TypeOK
  <2>4. CASE Current(r) = {}
    BY <2>1, <2>2, <2>3, <2>4, UnownedKept
  <2>5. CASE Current(r) # {}
    <3>1. p \in Single /\ owners' = Closed(p)
      <4>1. owners' # owners
        BY <2>5 DEF Current
      <4> QED
        BY <1>3, <4>1 DEF EndUpdate
    <3>2. PICK i : i \in Mine(p, r)
      BY <2>2, <2>5, <3>1, CurrentClosed
    <3>3. i \in Nat
      <4>1. owners[r] \in Seq(OwnerRow)
        BY <2>2 DEF TypeOK, OwnerRow
      <4> QED
        BY <3>2, <4>1 DEF Mine
    <3>4. r \in job[p].records
      BY <2>2, <3>1, <3>2, <3>3 DEF OInv, OwnInv, Mine
    <3> QED
      BY <2>1, <3>1, <3>4 DEF TypeOK
  <2> QED
    BY <2>4, <2>5
<1>4. ASSUME NEW p \in Request, Insert(p) \/ Commit(p) PROVE Goal
  <2>1. /\ pc[p] # "idle" /\ Visible(p) /\ Release(p) /\ created' = created
    BY <1>4 DEF Insert, Commit
  <2>2. /\ owners' = Assigned(p) /\ job[p].owner \in User
        /\ unowned' = unowned \ job[p].records
    BY <2>1 DEF Visible, TypeOK
  <2>3. r \in created /\ r \in Record
    BY <2>1 DEF TypeOK
  <2>4. r \notin job[p].records
    BY <2>2, <2>3, CurrentAssigned
  <2>5. Mine(p, r) = {}
    <3>1. owners[r] \in Seq(OwnerRow)
      BY <2>3 DEF TypeOK, OwnerRow
    <3>2. DOMAIN owners[r] \subseteq Nat
      BY <3>1
    <3> QED
      BY <2>3, <2>4, <3>2 DEF OInv, OwnInv, Mine
  <2>6. Current(r) = {}
    BY <2>2, <2>3, <2>4, <2>5, CurrentAssigned
  <2>7. \A q \in Single : q # p => pc'[q] = pc[q] /\ job'[q] = job[q]
    BY <2>1 DEF Release, Goto, Request
  <2> QED
    BY <2>2, <2>3, <2>4, <2>6, <2>7, UnownedKept
<1>5. ASSUME NEW p \in Request, FailUpdate(p) PROVE Goal
  <2>1. UNCHANGED <<created, owners, unowned>>
    BY <1>5 DEF FailUpdate
  <2>2. r \in created /\ Current(r) = {}
    BY <2>1 DEF Current
  <2>3. ASSUME NEW q \in Single, pc[q] # "idle", r \in job[q].records
        PROVE  pc'[q] # "idle" /\ r \in job'[q].records
    <3>1. CASE p \in Single
      BY <1>5, <2>3, <3>1 DEF FailUpdate, Goto, TypeOK, Request
    <3>2. CASE p \notin Single
      <4>1. q # p /\ Release(p)
        BY <1>5, <3>2 DEF FailUpdate, Rollback
      <4> QED
        BY <2>3, <4>1 DEF Release, Goto, Request
    <3> QED
      BY <3>1, <3>2
  <2> QED
    BY <2>1, <2>2, <2>3, UnownedKept
<1>6. ASSUME NEW p \in Request, FailInsert(p) PROVE Goal
  <2>1. Release(p) /\ UNCHANGED <<created, owners>>
    BY <1>6 DEF FailInsert, Rollback
  <2>2. r \in created /\ r \in Record /\ Current(r) = {}
    BY <2>1 DEF Current, TypeOK
  <2>3. r \in unowned => r \in unowned'
    BY <1>6 DEF FailInsert
  <2>4. ASSUME NEW q \in Single, pc[q] # "idle", r \in job[q].records
        PROVE  r \in unowned' \/ (pc'[q] # "idle" /\ r \in job'[q].records)
    <3>1. CASE q = p
      BY <1>6, <2>2, <2>4, <3>1 DEF FailInsert
    <3>2. CASE q # p
      BY <2>1, <2>4, <3>2 DEF Release, Goto, Request
    <3> QED
      BY <3>1, <3>2
  <2> QED
    BY <2>2, <2>3, <2>4, UnownedKept
<1>7. ASSUME NEW p \in Request,
             StartUpdate(p) \/ BulkInsert(p) \/ \E row \in seen[p] : Touch(p, row)
      PROVE  Goal
  <2>1. /\ UNCHANGED <<created, owners, unowned, job>>
        /\ \A q \in Single : pc[q] # "idle" => pc'[q] # "idle"
    BY <1>7 DEF StartUpdate, BulkInsert, Touch, Goto, TypeOK, Request
  <2>2. r \in created /\ Current(r) = {}
    BY <2>1 DEF Current
  <2> QED
    BY <2>1, <2>2, UnownedKept
<1>8. CASE UNCHANGED vars
  <2>1. UNCHANGED <<created, owners, unowned, job, pc>>
    BY <1>8 DEF vars
  <2>2. r \in created /\ Current(r) = {}
    BY <2>1 DEF Current
  <2> QED
    BY <2>1, <2>2, UnownedKept
<1>9. ASSUME NEW r0 \in Record, CreateUnowned(r0) PROVE Goal
  <2>1. /\ created' = created \cup {r0} /\ unowned' = unowned \cup {r0}
        /\ UNCHANGED <<owners, pc, job>>
    BY <1>9 DEF CreateUnowned
  <2>2. CASE r # r0
    <3>1. r \in created /\ Current(r) = {}
      BY <2>1, <2>2 DEF Current
    <3> QED
      BY <2>1, <3>1, UnownedKept
  <2> QED
    BY <2>1, <2>2
<1>10. CASE \E p \in Request : Start(p) \/ Work(p) \/ Fault(p)
  <2>1. PICK p \in Request : Start(p) \/ Work(p) \/ Fault(p)
    BY <1>10
  <2>2. CASE \E r0 \in Record, u \in User : Create(p, r0, u)
    BY <1>1, <2>2
  <2>3. CASE \E r0 \in Record, u \in User : SetOwner(p, r0, u)
    <3>1. PICK r0 \in Record, u \in User : SetOwner(p, r0, u)
      BY <2>3
    <3>2. Begin(p, {r0}, u) /\ UNCHANGED <<created, owners, unowned>>
      BY <3>1 DEF SetOwner
    <3>3. {r0} \in SUBSET Record
      OBVIOUS
    <3> QED
      BY <1>2, <3>2, <3>3
  <2>4. CASE \E records \in SUBSET Record, u \in User : MassSetOwner(p, records, u)
    <3>1. PICK records \in SUBSET Record, u \in User : MassSetOwner(p, records, u)
      BY <2>4
    <3>2. Begin(p, records, u) /\ UNCHANGED <<created, owners, unowned>>
      BY <3>1 DEF MassSetOwner
    <3> QED
      BY <1>2, <3>2
  <2>5. CASE Fault(p) \/ Victim(p)
    BY <1>5, <1>6, <2>5 DEF Fault, Victim
  <2>6. CASE Insert(p) \/ Commit(p)
    BY <1>4, <2>6
  <2>7. CASE EndUpdate(p)
    BY <1>3, <2>7
  <2>8. CASE StartUpdate(p) \/ BulkInsert(p) \/ \E row \in seen[p] : Touch(p, row)
    BY <1>7, <2>8
  <2>9. CASE Start(p)
    BY <2>2, <2>3, <2>4, <2>9 DEF Start
  <2>10. CASE Work(p)
    BY <2>5, <2>6, <2>7, <2>8, <2>10 DEF Work
  <2> QED
    BY <2>1, <2>5, <2>9, <2>10
<1> QED
  BY <1>8, <1>9, <1>10 DEF Next

(* A record that something created for somebody is without an owner only     *)
(* while an assignment is at work on it, or after its last one failed.      *)
THEOREM GapsAreAccounted == Spec => []UnownedHaveAReason
<1>1. Init => OInv /\ UnownedHaveAReason
  BY OInvInit DEF Init, UnownedHaveAReason
<1> QED
  BY <1>1, TypeCorrect, OInvStep, UnownedStep, PTL DEF Spec

-----------------------------------------------------------------------------
(* One request at a time, and nothing fails *)

NothingHappened == /\ \A p \in Request : behind[p] = {}
                   /\ \A r \in Record : extra[r] = 0
                   /\ faults = 0

LEMMA AloneStep ==
  ASSUME NEW p0, Request = {p0}, MaxFaults = 0, TypeOK, NothingHappened, [Next]_vars
  PROVE  NothingHappened'
<1> USE DEF tables, history, bounds
<1>1. ~Deadlocked(p0)
  BY DEF Deadlocked, Stuck, Locked
<1>2. ~Fault(p0)
  BY DEF Fault, NothingHappened
<1>3. CASE UNCHANGED <<behind, extra, faults>>
  BY <1>3 DEF NothingHappened
<1>4. CASE Start(p0)
  BY <1>3, <1>4 DEF Start, Create, SetOwner, MassSetOwner
<1>5. CASE StartUpdate(p0)
  <2>1. behind' = [behind EXCEPT ![p0] = {}] /\ UNCHANGED <<extra, faults>>
    BY <1>5 DEF StartUpdate
  <2> QED
    BY <2>1 DEF NothingHappened, TypeOK
<1>6. CASE Insert(p0) \/ Commit(p0)
  <2>1. Visible(p0) /\ faults' = faults
    BY <1>6 DEF Insert, Commit
  <2> QED
    BY <2>1 DEF Visible, OverBack, NothingHappened
<1>7. CASE EndUpdate(p0) \/ BulkInsert(p0) \/ \E row \in seen[p0] : Touch(p0, row)
  BY <1>3, <1>7 DEF EndUpdate, BulkInsert, Touch
<1>8. CASE UNCHANGED vars \/ \E r \in Record : CreateUnowned(r)
  BY <1>3, <1>8 DEF vars, CreateUnowned
<1> QED
  BY <1>1, <1>2, <1>4, <1>5, <1>6, <1>7, <1>8 DEF Next, Work, Victim

(* Requests that never overlap, and of which none fails, keep one active     *)
(* row per record, as the documentation says.                              *)
THEOREM AloneOneActiveRow ==
  ASSUME NEW p0, Request = {p0}, MaxFaults = 0
  PROVE  Spec => []OneActiveRow
<1>1. Init => NothingHappened
  BY DEF Init, NothingHappened
<1>2. TypeOK /\ NothingHappened /\ [Next]_vars => NothingHappened'
  BY AloneStep
<1>3. TypeOK /\ NothingHappened /\ ExtraOwnersHaveAReason => OneActiveRow
  <2> SUFFICES ASSUME TypeOK, NothingHappened, ExtraOwnersHaveAReason, NEW r \in Record
               PROVE  Cardinality(Current(r)) <= 1
    BY DEF OneActiveRow
  <2>1. Cardinality(Current(r)) \in Nat /\ Cardinality(Current(r)) <= 1 + 0
    BY CurrentFinite DEF NothingHappened, ExtraOwnersHaveAReason
  <2> QED
    BY <2>1
<1> QED
  BY <1>1, <1>2, <1>3, TypeCorrect, OwnersAreAccounted, PTL DEF Spec

-----------------------------------------------------------------------------
(* Waiting for rows *)

(* The guard of Work(q), without the bookkeeping: q is between statements,  *)
(* has a row to visit that nobody else has changed or none at all, or is in *)
(* a circle of requests that the database breaks.                          *)
CanMove(q) ==
  \/ pc[q] \in {"assign", "insert", "commit"}
  \/ /\ pc[q] = "update"
     /\ \/ seen[q] = {}
        \/ \E row \in seen[q] : ~Locked(q, row)
        \/ Deadlocked(q)

SomebodyMoves == (\E p \in Request : pc[p] # "idle") => \E q \in Request : CanMove(q)

LEMMA WaitersFormACircle == TypeOK /\ OInv => SomebodyMoves
<1> SUFFICES ASSUME TypeOK, OInv, NEW p \in Request, pc[p] # "idle",
                    \A q \in Request : ~CanMove(q)
             PROVE  FALSE
  BY DEF SomebodyMoves
<1> DEFINE Waiting == {q \in Request : pc[q] = "update"}
<1>1. ASSUME NEW q \in Request, pc[q] # "idle"
      PROVE  q \in Waiting
  BY <1>1 DEF TypeOK, CanMove
<1>2. ASSUME NEW q \in Waiting
      PROVE  Stuck(q)
  BY <1>2 DEF CanMove, Stuck
<1>3. ASSUME NEW q \in Waiting
      PROVE  \E row \in seen[q] : \E o \in Waiting \ {q} : row \in touched[o]
  <2>1. PICK row \in seen[q] : Locked(q, row)
    BY <1>2, <1>3 DEF Stuck
  <2>2. PICK o \in Request \ {q} : row \in touched[o]
    BY <2>1 DEF Locked
  <2>3. pc[o] # "idle"
    BY <2>2 DEF OInv, ShapeInv
  <2> QED
    BY <1>1, <2>2, <2>3
<1>4. p \in Waiting /\ Waiting \in SUBSET Request
  BY <1>1
<1> HIDE DEF Waiting
<1>5. \A q \in Waiting : /\ Stuck(q)
                        /\ \E row \in seen[q] : \E o \in Waiting \ {q} : row \in touched[o]
  BY <1>2, <1>3
<1>6. Deadlocked(p)
  BY <1>4, <1>5 DEF Deadlocked
<1> QED
  BY <1>4, <1>6 DEF CanMove, Waiting

(* Requests never all wait for one another's rows for ever: while any of    *)
(* them is at work, one can go on, because a wait that has no other end     *)
(* closes a circle, and a circle is what the database breaks.  A lock is     *)
(* never left behind by a request that ended or is yet to start its UPDATE. *)
THEOREM NobodyWaitsForEver == Spec => []SomebodyMoves
<1> QED
  BY OInvInit, TypeCorrect, OInvStep, WaitersFormACircle, PTL DEF Spec
=============================================================================
