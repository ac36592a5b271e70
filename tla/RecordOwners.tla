---------------------------- MODULE RecordOwners ----------------------------
(***************************************************************************)
(* Who owns a record: the table spw_record_owners of one owner-restricted  *)
(* table, in which every change of owner appends a row and the rows marked *)
(* is_current decide who may see the record.  Nothing in the database      *)
(* keeps a second row of a record from being current.                      *)
(*                                                                         *)
(* An assignment is an UPDATE that closes the current rows of the records  *)
(* and an INSERT of the new ones.  Two kinds of process make one:          *)
(*   Single  handles requests that create or duplicate a record and assign *)
(*           it to its user, or that assign an existing record to a user,  *)
(*           in statements that commit one by one;                         *)
(*   Bulk    those that assign a set of records in one transaction.        *)
(*                                                                         *)
(* The database runs at READ COMMITTED: an UPDATE looks for its rows in    *)
(* the snapshot taken when it starts, waits for rows that another          *)
(* transaction has changed, and looks at them again when it gets them.     *)
(***************************************************************************)
EXTENDS Naturals, Sequences, FiniteSets

CONSTANTS Record, User, Single, Bulk,
          MaxRequests,  \* bound on the assignments begun, for model checking
          MaxFaults     \* bound on failed statements and dead requests

Request == Single \cup Bulk

ASSUME RecordOwnersAssumption ==
  /\ Single \cap Bulk = {}
  /\ MaxRequests \in Nat /\ MaxFaults \in Nat

VARIABLES created,  \* records that exist
          owners,   \* committed rows of each record, oldest first
          pc,       \* where each request is
          job,      \* what it assigns to whom
          seen,     \* rows its UPDATE has still to visit
          touched,  \* rows it has changed and not yet committed
          behind,   \* history: records assigned by others behind its back
          extra,    \* history: reasons for a record to have one more owner
          unowned,  \* history: records that were given no row, or lost it
          requests, faults

tables   == <<created, owners>>
history  == <<behind, extra, unowned>>
bounds   == <<requests, faults>>
vars     == <<tables, pc, job, seen, touched, history, bounds>>

Rows     == Record \X Nat
NoJob    == [records |-> {}, owner |-> "none"]
Current(r) == {i \in DOMAIN owners[r] : owners[r][i].current}

TypeOK ==
  /\ created \in SUBSET Record
  /\ owners \in [Record -> Seq([owner : User, current : BOOLEAN])]
  /\ pc \in [Request -> {"idle", "assign", "update", "insert", "commit"}]
  /\ job \in [Request -> [records : SUBSET Record, owner : User \cup {"none"}]]
  /\ \A p \in Request : pc[p] # "idle" => job[p].owner \in User
  /\ seen \in [Request -> SUBSET Rows]
  /\ touched \in [Request -> SUBSET Rows]
  /\ behind \in [Request -> SUBSET Record]
  /\ extra \in [Record -> Nat]
  /\ unowned \in SUBSET Record
  /\ requests \in 0..MaxRequests
  /\ faults \in 0..MaxFaults

Init ==
  /\ created = {}
  /\ owners = [r \in Record |-> <<>>]
  /\ pc = [p \in Request |-> "idle"]
  /\ job = [p \in Request |-> NoJob]
  /\ seen = [p \in Request |-> {}]
  /\ touched = [p \in Request |-> {}]
  /\ behind = [p \in Request |-> {}]
  /\ extra = [r \in Record |-> 0]
  /\ unowned = {}
  /\ requests = 0 /\ faults = 0

Goto(p, label) == pc' = [pc EXCEPT ![p] = label]

-----------------------------------------------------------------------------
(* Who may see a record *)

HidesByHistory(r, u) == \E i \in DOMAIN owners[r] : owners[r][i].owner # u  \* mutant

(* The NOT EXISTS of restrictionSql and the list of filterVisibleIds: one   *)
(* current row of somebody else hides the record.                          *)
Hides(r, u) == \E i \in Current(r) : owners[r][i].owner # u

(* canAccess looks at whichever current row the database returns first.     *)
MayRefuse(r, u) == \E i \in Current(r) : owners[r][i].owner # u
MayAllow(r, u)  == Current(r) = {} \/ \E i \in Current(r) : owners[r][i].owner = u

-----------------------------------------------------------------------------
(* The beginning of a request *)

Begin(p, records, u) ==
  /\ pc[p] = "idle" /\ requests < MaxRequests
  /\ requests' = requests + 1
  /\ job' = [job EXCEPT ![p] = [records |-> records, owner |-> u]]
  /\ Goto(p, "assign")

(* The record is there, and everybody's, before assign is called.          *)
Create(p, r, u) ==
  /\ p \in Single /\ r \notin created
  /\ created' = created \cup {r}
  /\ Begin(p, {r}, u)
  /\ UNCHANGED <<owners, seen, touched, history, faults>>

(* An automation rule or a CSV import creates a record for nobody.          *)
CreateUnowned(r) ==
  /\ r \notin created
  /\ created' = created \cup {r}
  /\ unowned' = unowned \cup {r}
  /\ UNCHANGED <<owners, pc, job, seen, touched, behind, extra, bounds>>

SetOwner(p, r, u) ==
  /\ p \in Single /\ r \in created
  /\ Begin(p, {r}, u)
  /\ UNCHANGED <<tables, seen, touched, history, faults>>

MassSetOwner(p, records, u) ==
  /\ p \in Bulk /\ records # {} /\ records \subseteq created
  /\ Begin(p, records, u)
  /\ UNCHANGED <<tables, seen, touched, history, faults>>

-----------------------------------------------------------------------------
(* UPDATE ... SET is_current = false *)

OldestOnly(p) ==   \* mutant: closes one row of each record
  UNION {{<<r, i>> : i \in {j \in Current(r) : \A k \in Current(r) : j <= k}} :
         r \in job[p].records}

(* The rows of its records that are current when it starts. *)
Snapshot(p) == UNION {{<<r, i>> : i \in Current(r)} : r \in job[p].records}

StartUpdate(p) ==
  /\ pc[p] = "assign"
  /\ seen' = [seen EXCEPT ![p] = Snapshot(p)]
  /\ behind' = [behind EXCEPT ![p] = {}]
  /\ Goto(p, "update")
  /\ UNCHANGED <<tables, job, touched, extra, unowned, bounds>>

Locked(p, row) == \E q \in Request \ {p} : row \in touched[q]

(* A row that is no longer current when the UPDATE gets it is left alone.   *)
Touch(p, row) ==
  /\ pc[p] = "update" /\ row \in seen[p] /\ ~Locked(p, row)
  /\ seen' = [seen EXCEPT ![p] = @ \ {row}]
  /\ touched' = [touched EXCEPT ![p] =
                   IF owners[row[1]][row[2]].current THEN @ \cup {row} ELSE @]
  /\ UNCHANGED <<tables, pc, job, history, bounds>>

Closed(p) == [r \in Record |->
                [i \in DOMAIN owners[r] |->
                   IF <<r, i>> \in touched[p] THEN [owners[r][i] EXCEPT !.current = FALSE]
                   ELSE owners[r][i]]]

(* Outside of a transaction the statement commits here. *)
EndUpdate(p) ==
  /\ pc[p] = "update" /\ seen[p] = {}
  /\ IF p \in Single
     THEN /\ owners' = Closed(p)
          /\ touched' = [touched EXCEPT ![p] = {}]
     ELSE UNCHANGED <<owners, touched>>
  /\ Goto(p, "insert")
  /\ UNCHANGED <<created, job, seen, history, bounds>>

-----------------------------------------------------------------------------
(* INSERT, and the COMMIT of a bulk assignment *)

DefaultFlag(p) == [r \in Record |->   \* mutant: is_current takes its default
                     IF r \in job[p].records
                     THEN Append(Closed(p)[r], [owner |-> job[p].owner, current |-> FALSE])
                     ELSE Closed(p)[r]]

(* What the table looks like once p's new rows are visible. *)
Assigned(p) == [r \in Record |->
                  IF r \in job[p].records
                  THEN Append(Closed(p)[r], [owner |-> job[p].owner, current |-> TRUE])
                  ELSE Closed(p)[r]]

OverBack(p) ==   \* everyone else at work on the same records missed them
  behind' = [q \in Request |->
               IF q # p /\ pc[q] \in {"update", "insert", "commit"}
               THEN behind[q] \cup (job[p].records \cap job[q].records)
               ELSE IF q = p THEN {} ELSE behind[q]]

Visible(p) ==
  /\ owners' = Assigned(p)
  /\ OverBack(p)
  /\ extra' = [r \in Record |-> IF r \notin job[p].records THEN extra[r]
                                ELSE IF r \in behind[p] THEN extra[r] + 1 ELSE 0]
  /\ unowned' = unowned \ job[p].records

ForgetJob(p) ==   \* mutant: the request goes on after its answer
  /\ job' = [job EXCEPT ![p] = NoJob]
  /\ UNCHANGED <<pc, seen, touched>>

Release(p) ==
  /\ job' = [job EXCEPT ![p] = NoJob]
  /\ seen' = [seen EXCEPT ![p] = {}]
  /\ touched' = [touched EXCEPT ![p] = {}]
  /\ Goto(p, "idle")

Insert(p) ==
  /\ p \in Single /\ pc[p] = "insert"
  /\ Visible(p) /\ Release(p)
  /\ UNCHANGED <<created, bounds>>

BulkInsert(p) ==
  /\ p \in Bulk /\ pc[p] = "insert"
  /\ Goto(p, "commit")
  /\ UNCHANGED <<tables, job, seen, touched, history, bounds>>

Commit(p) ==
  /\ pc[p] = "commit"
  /\ Visible(p) /\ Release(p)
  /\ UNCHANGED <<created, bounds>>

-----------------------------------------------------------------------------
(* Failures *)

LeaveOpen(p) ==   \* mutant: the error path forgets the ROLLBACK
  /\ job' = [job EXCEPT ![p] = NoJob]
  /\ Goto(p, "idle")
  /\ UNCHANGED <<seen, touched>>

(* ROLLBACK, and the request answers with an error. *)
Rollback(p) == Release(p)

(* assign does not look at the result of its UPDATE: after an error it      *)
(* inserts the new row all the same.  A bulk assignment rolls back.         *)
FailUpdate(p) ==
  /\ pc[p] = "update"
  /\ IF p \in Single
     THEN /\ seen' = [seen EXCEPT ![p] = {}]
          /\ touched' = [touched EXCEPT ![p] = {}]
          /\ behind' = [behind EXCEPT ![p] = job[p].records]
          /\ Goto(p, "insert")
          /\ UNCHANGED job
     ELSE Rollback(p) /\ UNCHANGED behind
  /\ UNCHANGED <<tables, extra, unowned>>

(* Nor at that of its INSERT: the record may be left without an owner.  The *)
(* same goes for a request that dies on its way.                           *)
FailInsert(p) ==
  /\ pc[p] # "idle"
  /\ Rollback(p)
  /\ unowned' = IF p \in Single
                THEN unowned \cup {r \in job[p].records : Current(r) = {}}
                ELSE unowned
  /\ UNCHANGED <<tables, behind, extra>>

Fault(p) ==
  /\ faults < MaxFaults /\ faults' = faults + 1
  /\ FailUpdate(p) \/ FailInsert(p)
  /\ UNCHANGED requests

(* The database ends a deadlock by failing one of the statements in it.     *)
Stuck(p) == seen[p] # {} /\ \A row \in seen[p] : Locked(p, row)

Deadlocked(p) ==
  \E Circle \in SUBSET Request :
    /\ p \in Circle
    /\ \A q \in Circle :
         /\ Stuck(q)
         /\ \E row \in seen[q] : \E o \in Circle \ {q} : row \in touched[o]

Victim(p) ==
  /\ Deadlocked(p)
  /\ FailUpdate(p)
  /\ UNCHANGED bounds

-----------------------------------------------------------------------------
Start(p) == \/ \E r \in Record, u \in User : Create(p, r, u) \/ SetOwner(p, r, u)
            \/ \E records \in SUBSET Record, u \in User : MassSetOwner(p, records, u)

Work(p) == \/ StartUpdate(p) \/ \E row \in seen[p] : Touch(p, row)
           \/ EndUpdate(p) \/ Insert(p) \/ BulkInsert(p) \/ Commit(p) \/ Victim(p)

Next == \/ \E r \in Record : CreateUnowned(r)
        \/ \E p \in Request : Start(p) \/ Work(p) \/ Fault(p)

Spec == Init /\ [][Next]_vars

(* A request that runs goes on running, and the database does what it is   *)
(* asked.                                                                  *)
FairSpec == Spec /\ \A p \in Request : WF_vars(Work(p))

-----------------------------------------------------------------------------
(* Properties *)

(* A record has a second current owner only if an assignment missed rows    *)
(* that another one added while it ran, or its UPDATE failed; the first     *)
(* assignment after that which runs undisturbed leaves a single owner.      *)
ExtraOwnersHaveAReason ==
  \A r \in Record : Cardinality(Current(r)) <= 1 + extra[r]

(* An existing record without a current owner, which everyone may see, has  *)
(* an assignment at work on it, was created for nobody, or lost its last    *)
(* assignment to a failure.                                                *)
UnownedHaveAReason ==
  \A r \in created : Current(r) = {} =>
    \/ r \in unowned
    \/ \E p \in Single : pc[p] # "idle" /\ r \in job[p].records

(* The lists and the single-record check agree on who may see a record, as  *)
(* long as no assignment was disturbed.                                    *)
ChecksAgree ==
  \A r \in Record, u \in User : extra[r] = 0 =>
    /\ Hides(r, u) <=> MayRefuse(r, u)
    /\ Hides(r, u) <=> ~MayAllow(r, u)

(* No request waits for ever for rows that others have changed.             *)
RequestsEnd == \A p \in Request : pc[p] # "idle" ~> pc[p] = "idle"

(* "Marks the one active row per record": the claim of the documentation.   *)
OneActiveRow == \A r \in Record : Cardinality(Current(r)) <= 1
=============================================================================
