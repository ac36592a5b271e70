---------------------------- MODULE WorkflowRun ----------------------------
(***************************************************************************)
(* One run of a workflow wizard (startWorkflow in                          *)
(* public/assets/js/workflows.js): the step on the screen and its form, the *)
(* records buffered for each step, the procedure called before the wizard  *)
(* advances, and saveAll, which inserts the buffered records one request   *)
(* at a time, links children to the row of an earlier step, uploads the    *)
(* photos and can be pressed again after a failure.                        *)
(*                                                                         *)
(* An entry is what the user typed as one record; 0 is a form the browser's *)
(* validation rejects, as it is blank or a required field of it is.  A     *)
(* snapshot is the object snapshotWithImages makes of the form: two        *)
(* snapshots of one entry are different objects, told apart by a number    *)
(* that grows.  Whether a photo is selected is up to the user when the     *)
(* form is read.  The user is patient: while a request is under way no     *)
(* button is pressed, not even those the code leaves enabled (Back, Add    *)
(* and the rows of the list during a procedure, the Edit buttons of the    *)
(* review during a save).                                                  *)
(***************************************************************************)
EXTENDS Naturals, Sequences, FiniteSets

CONSTANTS N,           \* number of steps
          Workflows,   \* the workflows the user may start
          MaxEntries,  \* bounds for model checking: records typed,
          MaxSnaps,    \* snapshots made,
          MaxRows      \* rows inserted

Step   == 1..N
Review == N + 1
Done   == N + 2

(* The configuration of a workflow.  link is the step that supplies the    *)
(* parent, 0 when there is none; it is meant to be an earlier step, but    *)
(* the steps are renumbered when one is deleted and the links are not, so  *)
(* it may be any number.                                                   *)
Workflow == [multi : SUBSET Step, gated : SUBSET Step, gallery : SUBSET Step,
             link : [Step -> Nat]]

ASSUME WorkflowRunAssumption ==
  /\ N \in Nat \ {0}
  /\ Workflows \subseteq Workflow
  /\ MaxEntries \in Nat /\ MaxSnaps \in Nat /\ MaxRows \in Nat

VARIABLES wf,       \* workflow
          at,       \* currentStepIndex, counted from 1; Done: the success screen
          returns,  \* returnToReview
          form,     \* the entry in the form, and editingIndex (0: none)
          data,     \* stepData
          call,     \* callStepProcedure, and the record appended for it
          run,      \* the request of saveAll
          saved,    \* savedRecords
          ids,      \* stepResults (0: undefined)
          rows,     \* the rows inserted; a row's id is its index
          typed,    \* entries typed so far
          made,     \* snapshots made so far
          lost,     \* history: snapshots stored by a request that failed
          verdict   \* history: what the procedure said of a step's records

screen  == <<at, returns, form>>
server  == <<saved, ids, rows, lost>>
counted == <<typed, made>>
vars    == <<wf, screen, data, call, run, server, counted, verdict>>

Entry    == 0..MaxEntries
Snap     == [object : 1..MaxSnaps, entry : Entry, photo : BOOLEAN]
(* made: the snapshots made by then (history).                             *)
Row      == [step : Step, snap : Snap, parent : Nat, photo : BOOLEAN, made : 0..MaxSnaps]
Request  == [phase : {"sent", "stored", "photo"}, step : Step, snap : Snap, parent : Nat]
Idle     == [phase |-> "idle"]
NoCall   == [phase |-> "idle", appended |-> 0]
Blank    == [entry |-> 0, editing |-> 0]

(* The procedure accepted the step's records as they are, or they were     *)
(* changed from the review, where it is not called; "none": neither.       *)
Verdict  == {"none", "passed", "skipped"}

TypeOK ==
  /\ wf \in Workflows
  /\ at \in 1..Done
  /\ returns \in BOOLEAN
  /\ form \in [entry : Entry, editing : Nat]
  /\ data \in [Step -> Seq(Snap)]
  /\ call \in [phase : {"idle", "sent"}, appended : Nat]
  /\ run \in Request \cup {Idle}
  /\ saved \subseteq Snap
  /\ ids \in [Step -> Nat]
  /\ rows \in Seq(Row)
  /\ typed \in Entry
  /\ made \in 0..MaxSnaps
  /\ lost \subseteq Snap
  /\ verdict \in [Step -> Verdict]

Init ==
  /\ wf \in Workflows
  /\ at = 1 /\ returns = FALSE /\ form = Blank
  /\ data = [i \in Step |-> << >>]
  /\ call = NoCall /\ run = Idle
  /\ saved = {} /\ ids = [i \in Step |-> 0] /\ rows = << >>
  /\ typed = 0 /\ made = 0
  /\ lost = {} /\ verdict = [i \in Step |-> "none"]

-----------------------------------------------------------------------------
(* JavaScript's array.splice(j, 1).                                        *)
Splice(s, j) == [k \in 1..(Len(s) - 1) |-> IF k < j THEN s[k] ELSE s[k + 1]]

Multi == at \in wf.multi                             \* step.allow_multiple
Free  == call = NoCall /\ run = Idle                 \* no request is awaited
OnStep == at \in Step /\ Free

(* A new object with what the form holds.                                  *)
SnapshotWithImages(snap) ==
  /\ made < MaxSnaps
  /\ snap \in [object : {made + 1}, entry : {form.entry},
               photo : IF at \in wf.gallery THEN BOOLEAN ELSE {FALSE}]
  /\ made' = made + 1

(* A form is rendered with the buffered record of a single-record step.    *)
ShowForm(i) ==
  form' = IF i \in Step /\ i \notin wf.multi /\ data'[i] # << >>
            THEN [Blank EXCEPT !.entry = data'[i][1].entry] ELSE Blank

GoToStep(i) == at' = i /\ ShowForm(i)

ExitEditMode == form' = Blank

Buffer(records) == data' = [data EXCEPT ![at] = records]

(* Records changed on the way to the review are yet to be accepted, and    *)
(* those changed from the review never are.                                *)
Reconsider ==
  verdict' = IF data' = data THEN verdict
             ELSE [verdict EXCEPT ![at] = IF returns THEN "skipped" ELSE "none"]

-----------------------------------------------------------------------------
(* The user types a record into the blank form.                            *)
Fill ==
  /\ OnStep /\ form.entry = 0 /\ typed < MaxEntries
  /\ typed' = typed + 1
  /\ form' = [form EXCEPT !.entry = typed + 1]
  /\ UNCHANGED <<wf, at, returns, data, call, run, server, made, verdict>>

(* The user empties the form, or a required field of it.                   *)
Clear ==
  /\ OnStep /\ form.entry # 0
  /\ form' = [form EXCEPT !.entry = 0]
  /\ UNCHANGED <<wf, at, returns, data, call, run, server, counted, verdict>>

(* The buttons of a multiple-record step.                                  *)
AddRecord ==
  /\ OnStep /\ Multi /\ form.entry # 0
  /\ \E snap \in Snap :
       /\ SnapshotWithImages(snap)
       /\ Buffer(IF form.editing # 0 THEN [data[at] EXCEPT ![form.editing] = snap]
                                     ELSE Append(data[at], snap))
  /\ ExitEditMode /\ Reconsider
  /\ UNCHANGED <<wf, at, returns, call, run, server, typed>>

EnterEditMode ==
  /\ OnStep /\ Multi
  /\ \E j \in DOMAIN data[at] : form' = [entry |-> data[at][j].entry, editing |-> j]
  /\ UNCHANGED <<wf, at, returns, data, call, run, server, counted, verdict>>

CancelEdit ==
  /\ OnStep /\ Multi /\ form.editing # 0
  /\ ExitEditMode
  /\ UNCHANGED <<wf, at, returns, data, call, run, server, counted, verdict>>

RemoveRecord ==
  /\ OnStep /\ Multi
  /\ \E j \in DOMAIN data[at] : Buffer(Splice(data[at], j))
  /\ IF form.editing # 0 THEN ExitEditMode ELSE UNCHANGED form
  /\ Reconsider
  /\ UNCHANGED <<wf, at, returns, call, run, server, counted>>

AlwaysBack == TRUE                 \* mutant: the first step has the button, too
HasBack    == at > 1

(* Back keeps what the form of a single-record step holds, valid or not,   *)
(* and drops what was typed into the form of a multiple-record step.       *)
Back ==
  /\ OnStep /\ HasBack
  /\ IF Multi THEN UNCHANGED <<data, made>>
     ELSE \E snap \in Snap : SnapshotWithImages(snap) /\ Buffer(<<snap>>)
  /\ GoToStep(at - 1) /\ Reconsider
  /\ UNCHANGED <<wf, returns, call, run, server, typed>>

-----------------------------------------------------------------------------
(* Next step, or Save when the step was opened from the review.            *)
Advance ==
  /\ GoToStep(IF returns THEN Review ELSE at + 1)
  /\ returns' = FALSE

RunsProcedure == at \in wf.gated /\ ~returns

(* The form is stored before the procedure is called: records is the       *)
(* step's buffer then, and appended the index of a record added to it.     *)
Submit(records, appended) ==
  /\ Buffer(records) /\ Reconsider
  /\ IF RunsProcedure
       THEN call' = [phase |-> "sent", appended |-> appended] /\ UNCHANGED screen
       ELSE Advance /\ UNCHANGED call
  /\ UNCHANGED <<wf, run, server, typed>>

SubmitSingle ==
  /\ OnStep /\ ~Multi /\ form.entry # 0
  /\ \E snap \in Snap : SnapshotWithImages(snap) /\ Submit(<<snap>>, 0)

SubmitNewRecord ==
  /\ OnStep /\ Multi /\ form.entry # 0 /\ form.editing = 0
  /\ \E snap \in Snap :
       /\ SnapshotWithImages(snap)
       /\ Submit(Append(data[at], snap), Len(data[at]) + 1)

SubmitEdited ==
  /\ OnStep /\ Multi /\ form.entry # 0 /\ form.editing # 0
  /\ \E snap \in Snap :
       /\ SnapshotWithImages(snap)
       /\ Submit([data[at] EXCEPT ![form.editing] = snap], 0)

(* A blank form, or one the validation rejects, is passed over in silence. *)
SubmitWithoutForm == OnStep /\ Multi /\ Submit(data[at], 0) /\ UNCHANGED made

ProcedureSucceeds ==
  /\ call.phase = "sent"
  /\ call' = NoCall /\ verdict' = [verdict EXCEPT ![at] = "passed"]
  /\ UNCHANGED data
  /\ Advance
  /\ UNCHANGED <<wf, run, server, counted>>

KeepRecord == UNCHANGED data       \* mutant: the appended record stays
RollBack   ==
  IF call.appended # 0 THEN Buffer(Splice(data[at], call.appended)) ELSE UNCHANGED data

GoOn == Advance                    \* mutant: the catch does not return
Stay == UNCHANGED screen

(* The appended record is taken out again, the form keeps it.              *)
ProcedureFails ==
  /\ call.phase = "sent"
  /\ call' = NoCall /\ verdict' = [verdict EXCEPT ![at] = "none"]
  /\ RollBack
  /\ Stay
  /\ UNCHANGED <<wf, run, server, counted>>

-----------------------------------------------------------------------------
(* The review screen.                                                      *)
OnReview == at = Review /\ Free

EditStep(i) ==
  /\ OnReview
  /\ returns' = TRUE /\ UNCHANGED data
  /\ GoToStep(i)
  /\ UNCHANGED <<wf, call, run, server, counted, verdict>>

BackFromReview ==
  /\ OnReview
  /\ UNCHANGED data
  /\ GoToStep(N)
  /\ UNCHANGED <<wf, returns, call, run, server, counted, verdict>>

(* The loop of saveAll goes on with the first record it has not saved yet, *)
(* or shows the success screen.  done and known are savedRecords and       *)
(* stepResults at that moment.                                             *)
Buffered      == UNION {{i} \X DOMAIN data[i] : i \in Step}
Unsaved(done) == {p \in Buffered : data[p[1]][p[2]] \notin done}

NextRecord(p, todo) ==
  \A q \in todo : p[1] < q[1] \/ (p[1] = q[1] /\ p[2] <= q[2])

ParentOf(i, known) == IF wf.link[i] \in Step THEN known[wf.link[i]] ELSE 0

Proceed(done, known) ==
  LET todo == Unsaved(done)
  IN  \/ /\ todo = {}
         /\ run' = Idle /\ at' = Done /\ form' = Blank
         /\ UNCHANGED returns
      \/ \E p \in todo :
           /\ NextRecord(p, todo)
           /\ run' = [phase |-> "sent", step |-> p[1], snap |-> data[p[1]][p[2]],
                      parent |-> ParentOf(p[1], known)]
           /\ UNCHANGED screen

(* The catch of saveAll: the buttons of the review work again.             *)
StayDisabled == run' = [run EXCEPT !.phase = "failed"]   \* mutant
Fail         == run' = Idle

Save ==
  /\ OnReview
  /\ Proceed(saved, ids)
  /\ UNCHANGED <<wf, data, call, server, counted, verdict>>

(* The server inserts the row ...                                          *)
RowStored ==
  /\ run.phase = "sent" /\ Len(rows) < MaxRows
  /\ rows' = Append(rows, [step |-> run.step, snap |-> run.snap,
                           parent |-> run.parent, photo |-> FALSE, made |-> made])
  /\ run' = [run EXCEPT !.phase = "stored"]
  /\ UNCHANGED <<wf, screen, data, call, saved, ids, lost, counted, verdict>>

SkipRecord == Proceed(saved \cup {run.snap}, ids)   \* mutant: a catch inside the loop
GiveUp     == Fail /\ UNCHANGED screen

(* ... or refuses it, or is never reached.                                 *)
RowRefused ==
  /\ run.phase = "sent"
  /\ GiveUp
  /\ UNCHANGED <<wf, data, call, server, counted, verdict>>

SavedWithPhoto(snap) ==            \* mutant: saved only after the upload
  IF snap.photo THEN saved ELSE saved \cup {snap}
Saved(snap) == saved \cup {snap}

LatestId(i, id)    == [ids EXCEPT ![i] = id]                  \* mutants: replaced by a
IdAfterPhoto(i, id) == IF run.snap.photo THEN ids             \* later row, or set after
                       ELSE [ids EXCEPT ![i] = id]            \* the upload
FirstId(i, id) == IF ids[i] = 0 THEN [ids EXCEPT ![i] = id] ELSE ids

(* The answer: the record is saved before its photo is uploaded.           *)
RowAnswered ==
  /\ run.phase = "stored"
  /\ saved' = Saved(run.snap)
  /\ ids' = FirstId(run.step, Len(rows))
  /\ IF run.snap.photo
       THEN run' = [run EXCEPT !.phase = "photo"] /\ UNCHANGED screen
       ELSE Proceed(saved', ids')
  /\ UNCHANGED <<wf, data, call, rows, lost, counted, verdict>>

AnswerLost ==
  /\ run.phase = "stored"
  /\ lost' = lost \cup {run.snap}
  /\ Fail
  /\ UNCHANGED <<wf, screen, data, call, saved, ids, rows, counted, verdict>>

PhotoUploaded ==
  /\ run.phase = "photo"
  /\ rows' = [rows EXCEPT ![Len(rows)].photo = TRUE]
  /\ Proceed(saved, ids)
  /\ UNCHANGED <<wf, data, call, saved, ids, lost, counted, verdict>>

(* The upload is refused, or its answer is lost.                           *)
PhotoFails ==
  /\ run.phase = "photo"
  /\ rows' \in {rows, [rows EXCEPT ![Len(rows)].photo = TRUE]}
  /\ Fail
  /\ UNCHANGED <<wf, screen, data, call, saved, ids, lost, counted, verdict>>

-----------------------------------------------------------------------------
UserStep ==
  \/ Fill \/ Clear \/ AddRecord \/ EnterEditMode \/ CancelEdit \/ RemoveRecord \/ Back
  \/ SubmitSingle \/ SubmitNewRecord \/ SubmitEdited \/ SubmitWithoutForm
  \/ \E i \in Step : EditStep(i)
  \/ BackFromReview \/ Save

ServerStep ==
  \/ ProcedureSucceeds \/ ProcedureFails
  \/ RowStored \/ RowRefused \/ RowAnswered \/ AnswerLost
  \/ PhotoUploaded \/ PhotoFails

Next == UserStep \/ ServerStep

Spec == Init /\ [][Next]_vars

(* Every request is answered, or fails, in the end.                        *)
FairSpec == Spec /\ WF_vars(ServerStep)

-----------------------------------------------------------------------------
(* A record the user typed is buffered once: a procedure that refuses a    *)
(* step, tried again, and edits from the review do not double it.          *)
EachEntryOnce ==
  \A i, k \in Step : \A j \in DOMAIN data[i], l \in DOMAIN data[k] :
    data[i][j].entry = data[k][l].entry /\ data[i][j].entry # 0 => i = k /\ j = l

(* Save pressed again after a failure, as often as it takes, inserts a     *)
(* record a second time for two reasons only: the answer to its first      *)
(* insertion was lost, or its form was read again after it was inserted    *)
(* (Edit and Save, Back and Next: a new object is not in savedRecords,     *)
(* changed or not).                                                        *)
StoredOnce ==
  \A q, r \in DOMAIN rows : q < r =>
    /\ rows[q].snap = rows[r].snap => rows[q].snap \in lost
    /\ rows[q].snap # rows[r].snap /\ rows[q].snap.entry = rows[r].snap.entry
         /\ rows[q].snap.entry # 0 => rows[r].snap.object > rows[q].made

(* All rows of a linked step, over all the times Save was pressed, have    *)
(* one parent, and it is a row of the step the workflow links to.          *)
OneParent ==
  \A q \in DOMAIN rows : rows[q].parent # 0 =>
    /\ rows[q].parent \in DOMAIN rows
    /\ rows[rows[q].parent].step = wf.link[rows[q].step]
    /\ \A r \in DOMAIN rows : rows[r].step = rows[q].step /\ rows[r].parent # 0
                                => rows[r].parent = rows[q].parent

(* A row whose step links to an earlier one is inserted without a parent   *)
(* only if that step has no record.  (A link to the step itself or to a    *)
(* later one, which the deletion of a step can leave, leaves orphans.)     *)
NoOrphans ==
  [][ Len(rows') > Len(rows) =>
        LET row == rows'[Len(rows')]
        IN  wf.link[row.step] \in 1..(row.step - 1) /\ row.parent = 0
              => data[wf.link[row.step]] = << >> ]_vars

(* The success screen is shown only when every buffered record has a row.  *)
SuccessMeansStored ==
  at = Done => \A i \in Step : \A j \in DOMAIN data[i] :
                 \E r \in DOMAIN rows : rows[r].step = i /\ rows[r].snap = data[i][j]

(* On the review screen the procedure of each gated step has accepted its  *)
(* records as they are shown, and each single-record step holds a record   *)
(* that passed the validation, unless the step was changed from the review *)
(* since: there Save calls no procedure, and Back stores whatever the form *)
(* holds.                                                                  *)
ReviewIsComplete ==
  at = Review =>
    /\ \A i \in wf.gated : verdict[i] # "none"
    /\ \A i \in Step \ wf.multi :
         data[i] # << >> /\ (data[i][1].entry # 0 \/ verdict[i] = "skipped")

(* Save comes to an end: at the success screen or back on the review.      *)
SavingEnds == run # Idle ~> run = Idle
=============================================================================
