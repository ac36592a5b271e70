------------------------- MODULE WorkflowRunProofs -------------------------
(***************************************************************************)
(* What holds of every run of every workflow, however often the user goes  *)
(* back, edits and presses Save again: the types, that a typed record is   *)
(* buffered once, that the review is reached through every gate, which     *)
(* records are inserted twice, that the rows of a linked step have one     *)
(* parent, and that the success screen means stored.                       *)
(***************************************************************************)
EXTENDS WorkflowRun, SequenceTheorems, TLAPS

-----------------------------------------------------------------------------
(* Sequences.                                                              *)
LEMMA SeqFacts ==
  ASSUME NEW S, NEW s \in Seq(S)
  PROVE  /\ Len(s) \in Nat /\ DOMAIN s = 1..Len(s)
         /\ \A j \in DOMAIN s : s[j] \in S
         /\ s # << >> => Len(s) > 0 /\ 1 \in DOMAIN s /\ Len(s) \in DOMAIN s
         /\ s = << >> => DOMAIN s = {}
  OBVIOUS

LEMMA EmptyFacts ==
  ASSUME NEW S
  PROVE  << >> \in Seq(S) /\ DOMAIN << >> = {} /\ Len(<< >>) = 0
  OBVIOUS

LEMMA SingleFacts ==
  ASSUME NEW S, NEW e \in S
  PROVE  /\ <<e>> \in Seq(S) /\ DOMAIN <<e>> = {1} /\ <<e>>[1] = e
         /\ <<e>> # << >> /\ Len(<<e>>) = 1
  OBVIOUS

LEMMA AppendFacts ==
  ASSUME NEW S, NEW s \in Seq(S), NEW e \in S
  PROVE  /\ Append(s, e) \in Seq(S)
         /\ Len(Append(s, e)) = Len(s) + 1
         /\ DOMAIN Append(s, e) = 1..(Len(s) + 1)
         /\ \A j \in DOMAIN s : Append(s, e)[j] = s[j]
         /\ Append(s, e)[Len(s) + 1] = e
         /\ Append(s, e) # << >>
  OBVIOUS

LEMMA ExceptFacts ==
  ASSUME NEW S, NEW s \in Seq(S), NEW j, NEW e \in S
  PROVE  /\ [s EXCEPT ![j] = e] \in Seq(S)
         /\ DOMAIN [s EXCEPT ![j] = e] = DOMAIN s
         /\ \A k \in DOMAIN s : [s EXCEPT ![j] = e][k] = IF k = j THEN e ELSE s[k]
  <1>1. Len(s) \in Nat /\ s \in [1..Len(s) -> S]
    OBVIOUS
  <1>2. [s EXCEPT ![j] = e] \in [1..Len(s) -> S]
    BY <1>1
  <1>3. [s EXCEPT ![j] = e] \in Seq(S)
    BY <1>1, <1>2, SeqDef
  <1> QED BY <1>1, <1>2, <1>3

LEMMA SpliceFacts ==
  ASSUME NEW S, NEW s \in Seq(S), NEW j \in DOMAIN s
  PROVE  /\ Splice(s, j) \in Seq(S)
         /\ DOMAIN Splice(s, j) = 1..(Len(s) - 1)
         /\ \A k \in 1..(Len(s) - 1) : Splice(s, j)[k] = IF k < j THEN s[k] ELSE s[k + 1]
  <1>1. Len(s) \in Nat /\ DOMAIN s = 1..Len(s) /\ Len(s) > 0
    OBVIOUS
  <1>2. \A k \in 1..(Len(s) - 1) : (IF k < j THEN s[k] ELSE s[k + 1]) \in S
    BY <1>1
  <1>3. Len(s) - 1 \in Nat
    BY <1>1
  <1>4. Splice(s, j) \in [1..(Len(s) - 1) -> S]
    BY <1>2 DEF Splice
  <1>5. Splice(s, j) \in Seq(S)
    BY <1>3, <1>4, SeqDef
  <1> QED BY <1>4, <1>5 DEF Splice

-----------------------------------------------------------------------------
(* Types.                                                                  *)
LEMMA StepFacts ==
  /\ N \in Nat /\ N > 0
  /\ Step = 1..N /\ Review = N + 1 /\ Done = N + 2
  /\ Review \notin Step /\ Done \notin Step /\ Review # Done
  /\ Review \in 1..Done /\ Done \in 1..Done
  BY WorkflowRunAssumption DEF Step, Review, Done

LEMMA IdleFacts ==
  /\ Idle.phase = "idle" /\ NoCall.phase = "idle" /\ NoCall.appended = 0
  /\ Blank.entry = 0 /\ Blank.editing = 0
  /\ Blank \in [entry : Entry, editing : Nat]
  /\ NoCall \in [phase : {"idle", "sent"}, appended : Nat]
  BY WorkflowRunAssumption DEF Idle, NoCall, Blank, Entry

LEMMA RequestFacts ==
  ASSUME NEW q \in Request
  PROVE  /\ q # Idle /\ q.step \in Step /\ q.snap \in Snap /\ q.parent \in Nat
         /\ q.phase \in {"sent", "stored", "photo"}
         /\ \A p \in {"sent", "stored", "photo"} :
              /\ [q EXCEPT !.phase = p] \in Request
              /\ [q EXCEPT !.phase = p].phase = p
              /\ [q EXCEPT !.phase = p].step = q.step
              /\ [q EXCEPT !.phase = p].snap = q.snap
              /\ [q EXCEPT !.phase = p].parent = q.parent
  BY DEF Request, Idle

LEMMA ShowFormType ==
  ASSUME data' \in [Step -> Seq(Snap)], NEW i, ShowForm(i)
  PROVE  /\ form' \in [entry : Entry, editing : Nat]
         /\ form'.editing = 0
         /\ form'.entry # 0 =>
              /\ i \in Step \ wf.multi /\ data'[i] # << >>
              /\ 1 \in DOMAIN data'[i] /\ form'.entry = data'[i][1].entry
         /\ i \in Step \ wf.multi /\ data'[i] # << >> => form'.entry = data'[i][1].entry
  <1>1. CASE i \in Step /\ i \notin wf.multi /\ data'[i] # << >>
    <2>1. data'[i] \in Seq(Snap)
      BY <1>1
    <2>2. 1 \in DOMAIN data'[i] /\ data'[i][1] \in Snap
      BY <1>1, <2>1, SeqFacts
    <2>3. data'[i][1].entry \in Entry
      BY <2>2 DEF Snap
    <2>4. form' = [entry |-> data'[i][1].entry, editing |-> 0]
      BY <1>1 DEF ShowForm, Blank
    <2> QED BY <1>1, <2>2, <2>3, <2>4
  <1>2. CASE ~(i \in Step /\ i \notin wf.multi /\ data'[i] # << >>)
    <2>1. form' = Blank
      BY <1>2 DEF ShowForm
    <2> QED BY <1>2, <2>1, IdleFacts
  <1> QED BY <1>1, <1>2

LEMMA SnapFacts ==
  ASSUME TypeOK, NEW snap \in Snap, SnapshotWithImages(snap)
  PROVE  /\ made \in Nat /\ made' = made + 1 /\ made' \in 0..MaxSnaps
         /\ snap.object = made + 1 /\ snap.entry = form.entry
  BY WorkflowRunAssumption DEF TypeOK, SnapshotWithImages

LEMMA BufferType ==
  ASSUME TypeOK, at \in Step, NEW b \in Seq(Snap), Buffer(b)
  PROVE  /\ data' \in [Step -> Seq(Snap)] /\ data'[at] = b
         /\ \A i \in Step : i # at => data'[i] = data[i]
  BY DEF TypeOK, Buffer

LEMMA ReconsiderFacts ==
  ASSUME TypeOK, at \in Step, NEW b, Buffer(b) \/ data' = data, Reconsider
  PROVE  /\ verdict' \in [Step -> Verdict]
         /\ \A i \in Step : i # at => data'[i] = data[i] /\ verdict'[i] = verdict[i]
         /\ data' = data => verdict' = verdict
         /\ data' # data => verdict'[at] = IF returns THEN "skipped" ELSE "none"
  <1>1. verdict \in [Step -> Verdict] /\ data \in [Step -> Seq(Snap)]
    BY DEF TypeOK
  <1>2. \A i \in Step : i # at => data'[i] = data[i]
    BY <1>1 DEF Buffer
  <1>3. CASE data' = data
    BY <1>1, <1>3 DEF Reconsider
  <1>4. CASE data' # data
    <2>1. verdict' = [verdict EXCEPT ![at] = IF returns THEN "skipped" ELSE "none"]
      BY <1>4 DEF Reconsider
    <2>2. (IF returns THEN "skipped" ELSE "none") \in Verdict
      BY DEF Verdict
    <2> QED BY <1>1, <1>2, <1>4, <2>1, <2>2
  <1> QED BY <1>3, <1>4

LEMMA VerdictType ==
  ASSUME TypeOK, NEW v \in Verdict, verdict' = [verdict EXCEPT ![at] = v]
  PROVE  /\ verdict' \in [Step -> Verdict]
         /\ at \in Step => verdict'[at] = v
         /\ \A i \in Step : i # at => verdict'[i] = verdict[i]
  BY DEF TypeOK

LEMMA AdvanceType ==
  ASSUME TypeOK, at \in Step, data' \in [Step -> Seq(Snap)], Advance
  PROVE  /\ at' \in 1..Done /\ at' = (IF returns THEN Review ELSE at + 1)
         /\ returns' = FALSE /\ ShowForm(at')
         /\ form' \in [entry : Entry, editing : Nat]
  <1>1. at' = (IF returns THEN Review ELSE at + 1) /\ returns' = FALSE /\ ShowForm(at')
    BY DEF Advance, GoToStep
  <1>2. at' \in 1..Done
    BY <1>1, StepFacts DEF Done
  <1> QED BY <1>1, <1>2, ShowFormType

LEMMA ProceedType ==
  ASSUME TypeOK, at = Review, NEW done, NEW known \in [Step -> Nat], Proceed(done, known)
  PROVE  /\ run' \in Request \cup {Idle}
         /\ at' \in 1..Done /\ form' \in [entry : Entry, editing : Nat] /\ returns' = returns
         /\ \/ /\ run' = Idle /\ at' = Done /\ form' = Blank
               /\ \A i \in Step : \A j \in DOMAIN data[i] : data[i][j] \in done
            \/ /\ UNCHANGED screen
               /\ run' \in Request /\ run'.phase = "sent"
               /\ run'.parent = ParentOf(run'.step, known)
               /\ run'.snap \notin done
               /\ \E j \in DOMAIN data[run'.step] : run'.snap = data[run'.step][j]
               /\ \A k \in Step : \A l \in DOMAIN data[k] :
                    k < run'.step => data[k][l] \in done
  <1> DEFINE todo == Unsaved(done)
  <1>0. \A i \in Step : \A j \in DOMAIN data[i] : data[i][j] \notin done => <<i, j>> \in todo
    BY DEF Unsaved, Buffered
  <1>a. \A p \in todo : /\ p[1] \in Step /\ p[2] \in DOMAIN data[p[1]]
                        /\ data[p[1]][p[2]] \notin done
    BY DEF Unsaved, Buffered
  <1>1. CASE todo = {} /\ run' = Idle /\ at' = Done /\ form' = Blank /\ UNCHANGED returns
    BY <1>0, <1>1, StepFacts, IdleFacts
  <1>2. ASSUME NEW p \in todo, NextRecord(p, todo),
               run' = [phase |-> "sent", step |-> p[1], snap |-> data[p[1]][p[2]],
                       parent |-> ParentOf(p[1], known)],
               UNCHANGED screen
        PROVE  /\ run' \in Request /\ run'.phase = "sent"
               /\ run'.parent = ParentOf(run'.step, known)
               /\ run'.snap \notin done
               /\ \E j \in DOMAIN data[run'.step] : run'.snap = data[run'.step][j]
               /\ \A k \in Step : \A l \in DOMAIN data[k] :
                    k < run'.step => data[k][l] \in done
    <2>1. p[1] \in Step /\ p[2] \in DOMAIN data[p[1]] /\ data[p[1]][p[2]] \notin done
      BY <1>2, <1>a
    <2>2. data[p[1]] \in Seq(Snap)
      BY <2>1 DEF TypeOK
    <2>3. data[p[1]][p[2]] \in Snap
      BY <2>1, <2>2, SeqFacts
    <2>5. ParentOf(p[1], known) \in Nat
      BY DEF ParentOf
    <2>6. run' \in Request
      BY <1>2, <2>1, <2>3, <2>5 DEF Request
    <2>7. \A k \in Step : \A l \in DOMAIN data[k] : k < p[1] => data[k][l] \in done
      <3> SUFFICES ASSUME NEW k \in Step, NEW l \in DOMAIN data[k], k < p[1],
                          data[k][l] \notin done
                   PROVE  FALSE
        OBVIOUS
      <3>1. <<k, l>> \in todo
        BY <1>0
      <3>2. p[1] < k \/ (p[1] = k /\ p[2] <= l)
        BY <3>1, <1>2 DEF NextRecord
      <3> QED BY <3>2, <2>1 DEF Step
    <2> QED BY <1>2, <2>1, <2>6, <2>7
  <1>3. \/ todo = {} /\ run' = Idle /\ at' = Done /\ form' = Blank /\ UNCHANGED returns
        \/ \E p \in todo : /\ NextRecord(p, todo)
                           /\ run' = [phase |-> "sent", step |-> p[1], snap |-> data[p[1]][p[2]],
                                      parent |-> ParentOf(p[1], known)]
                           /\ UNCHANGED screen
    BY DEF Proceed
  <1>4. UNCHANGED screen => /\ at' \in 1..Done /\ form' \in [entry : Entry, editing : Nat]
                            /\ returns' = returns
    BY DEF screen, TypeOK
  <1> HIDE DEF todo
  <1> QED BY <1>1, <1>2, <1>3, <1>4

-----------------------------------------------------------------------------
(* One request at a time, and returnToReview only on a step.               *)
Wiring ==
  /\ call # NoCall => call.phase = "sent" /\ at \in wf.gated /\ ~returns /\ run = Idle
  /\ run # Idle => at = Review
  /\ at \notin Step => ~returns
  /\ call.appended # 0 => /\ call # NoCall /\ at \in wf.multi /\ form.editing = 0
                          /\ call.appended = Len(data[at])

TInv == TypeOK /\ Wiring

LEMMA TInvInit == Init => TInv
  <1> SUFFICES ASSUME Init PROVE TInv
    OBVIOUS
  <1>1. << >> \in Seq(Snap) /\ << >> \in Seq(Row)
    BY EmptyFacts
  <1>2. 1 \in 1..Done /\ 1 \in Step
    BY StepFacts DEF Done
  <1>3. TypeOK
    <2>1. data \in [Step -> Seq(Snap)] /\ rows \in Seq(Row) /\ ids \in [Step -> Nat]
      BY <1>1 DEF Init
    <2>2. 0 \in Entry /\ 0 \in 0..MaxSnaps
      BY WorkflowRunAssumption DEF Entry
    <2>3. verdict \in [Step -> Verdict]
      BY DEF Init, Verdict
    <2> QED BY <1>2, <2>1, <2>2, <2>3, IdleFacts DEF Init, TypeOK
  <1>4. Wiring
    BY <1>2, IdleFacts DEF Init, Wiring
  <1> QED BY <1>3, <1>4 DEF TInv

LEMMA SubmitKeepsTInv ==
  ASSUME TInv, OnStep, NEW b \in Seq(Snap), NEW n \in Nat, Submit(b, n), made' \in 0..MaxSnaps,
         n # 0 => n = Len(b) /\ Multi /\ form.editing = 0
  PROVE  TInv'
  <1>1. TypeOK /\ Wiring /\ at \in Step /\ call = NoCall /\ run = Idle
    BY DEF TInv, OnStep, Free
  <1>2. Buffer(b) /\ Reconsider /\ UNCHANGED <<wf, run, server, typed>>
    BY DEF Submit
  <1>3. data' \in [Step -> Seq(Snap)] /\ verdict' \in [Step -> Verdict]
    BY <1>1, <1>2, BufferType, ReconsiderFacts
  <1>4. CASE RunsProcedure
    <2>1. call' = [phase |-> "sent", appended |-> n] /\ UNCHANGED screen
      BY <1>4 DEF Submit
    <2>2. call'.phase = "sent" /\ at' \in wf'.gated /\ ~returns' /\ run' = Idle
      BY <1>1, <1>2, <1>4, <2>1 DEF RunsProcedure, screen
    <2>3. call'.appended = n /\ call' # NoCall /\ data'[at] = b
      BY <1>1, <1>2, <2>1, <2>2, IdleFacts, BufferType
    <2> QED
      BY <1>1, <1>2, <1>3, <2>1, <2>2, <2>3 DEF TInv, TypeOK, Wiring, screen, server, Multi
  <1>5. CASE ~RunsProcedure
    <2>1. Advance /\ call' = call
      BY <1>5 DEF Submit
    <2>2. at' \in 1..Done /\ returns' = FALSE /\ form' \in [entry : Entry, editing : Nat]
      BY <1>1, <1>3, <2>1, AdvanceType
    <2> QED
      BY <1>1, <1>2, <1>3, <2>1, <2>2, IdleFacts DEF TInv, TypeOK, Wiring, server
  <1> QED BY <1>4, <1>5

LEMMA FillKeepsTInv == ASSUME TInv, Fill PROVE TInv'
  <1>1. TypeOK /\ Wiring /\ call = NoCall /\ form \in [entry : Entry, editing : Nat]
    BY DEF TInv, TypeOK, Fill, OnStep, Free
  <1>0. typed' \in Entry /\ typed + 1 \in Entry
    BY <1>1, WorkflowRunAssumption DEF Fill, TypeOK, Entry
  <1>2. /\ form' \in [entry : Entry, editing : Nat]
        /\ form'.editing = form.editing
    BY <1>0, <1>1 DEF Fill
  <1> QED BY <1>0, <1>1, <1>2, IdleFacts DEF TInv, TypeOK, Wiring, Fill, server

LEMMA ClearKeepsTInv == ASSUME TInv, Clear PROVE TInv'
  <1>1. TypeOK /\ Wiring /\ call = NoCall /\ form \in [entry : Entry, editing : Nat]
    BY DEF TInv, TypeOK, Clear, OnStep, Free
  <1>2. form' \in [entry : Entry, editing : Nat] /\ form'.editing = form.editing
    BY <1>1, WorkflowRunAssumption DEF Clear, Entry
  <1> QED BY <1>1, <1>2, IdleFacts DEF TInv, TypeOK, Wiring, Clear, server, counted

LEMMA AddRecordKeepsTInv == ASSUME TInv, AddRecord PROVE TInv'
  <1>1. TypeOK /\ Wiring /\ at \in Step /\ call = NoCall /\ run = Idle
    BY DEF TInv, OnStep, Free, AddRecord
  <1>2. PICK snap \in Snap :
          /\ SnapshotWithImages(snap)
          /\ Buffer(IF form.editing # 0 THEN [data[at] EXCEPT ![form.editing] = snap]
                                        ELSE Append(data[at], snap))
    BY DEF AddRecord
  <1>3. data[at] \in Seq(Snap)
    BY <1>1 DEF TypeOK
  <1>4. (IF form.editing # 0 THEN [data[at] EXCEPT ![form.editing] = snap]
                             ELSE Append(data[at], snap)) \in Seq(Snap)
    BY <1>3, ExceptFacts, AppendFacts
  <1>5. /\ data' \in [Step -> Seq(Snap)] /\ made' \in 0..MaxSnaps
        /\ verdict' \in [Step -> Verdict]
    BY <1>1, <1>2, <1>4, BufferType, SnapFacts, ReconsiderFacts DEF AddRecord
  <1> QED
    BY <1>1, <1>5, IdleFacts DEF AddRecord, TInv, TypeOK, Wiring, ExitEditMode, server

LEMMA EnterEditModeKeepsTInv == ASSUME TInv, EnterEditMode PROVE TInv'
  <1>1. TypeOK /\ Wiring /\ at \in Step /\ call = NoCall
    BY DEF TInv, OnStep, Free, EnterEditMode
  <1>2. PICK j \in DOMAIN data[at] : form' = [entry |-> data[at][j].entry, editing |-> j]
    BY DEF EnterEditMode
  <1>3. data[at] \in Seq(Snap)
    BY <1>1 DEF TypeOK
  <1>4. data[at][j] \in Snap /\ j \in Nat
    BY <1>2, <1>3, SeqFacts
  <1>5. form' \in [entry : Entry, editing : Nat]
    BY <1>2, <1>4 DEF Snap
  <1> QED
    BY <1>1, <1>5, IdleFacts DEF EnterEditMode, TInv, TypeOK, Wiring, server, counted

LEMMA CancelEditKeepsTInv == ASSUME TInv, CancelEdit PROVE TInv'
  BY IdleFacts DEF TInv, TypeOK, Wiring, CancelEdit, ExitEditMode, server, counted

LEMMA RemoveRecordKeepsTInv == ASSUME TInv, RemoveRecord PROVE TInv'
  <1>1. TypeOK /\ Wiring /\ at \in Step /\ call = NoCall
    BY DEF TInv, OnStep, Free, RemoveRecord
  <1>2. PICK j \in DOMAIN data[at] : Buffer(Splice(data[at], j))
    BY DEF RemoveRecord
  <1>3. Splice(data[at], j) \in Seq(Snap)
    BY <1>1, SpliceFacts DEF TypeOK
  <1>4. data' \in [Step -> Seq(Snap)] /\ verdict' \in [Step -> Verdict]
    BY <1>1, <1>2, <1>3, BufferType, ReconsiderFacts DEF RemoveRecord
  <1>5. form' \in [entry : Entry, editing : Nat]
    BY <1>1, IdleFacts DEF RemoveRecord, ExitEditMode, TypeOK
  <1> QED
    BY <1>1, <1>4, <1>5, IdleFacts DEF RemoveRecord, TInv, TypeOK, Wiring, server, counted

LEMMA BackKeepsTInv == ASSUME TInv, Back PROVE TInv'
  <1>1. TypeOK /\ Wiring /\ at \in Step /\ call = NoCall /\ run = Idle
    BY DEF TInv, OnStep, Free, Back
  <1>2. /\ data' \in [Step -> Seq(Snap)] /\ made' \in 0..MaxSnaps
        /\ verdict' \in [Step -> Verdict]
    <2>0. Reconsider
      BY DEF Back
    <2>1. CASE Multi
      <3>1. data' = data /\ made' = made
        BY <2>1 DEF Back
      <3> QED BY <1>1, <2>0, <3>1, ReconsiderFacts DEF TypeOK
    <2>2. CASE ~Multi
      <3>1. PICK snap \in Snap : SnapshotWithImages(snap) /\ Buffer(<<snap>>)
        BY <2>2 DEF Back
      <3> QED BY <1>1, <2>0, <3>1, SingleFacts, BufferType, SnapFacts, ReconsiderFacts
    <2> QED BY <2>1, <2>2
  <1>3. at' = at - 1 /\ ShowForm(at - 1)
    BY DEF Back, GoToStep
  <1>4. at' \in Step /\ at' \in 1..Done
    BY <1>1, <1>3, StepFacts DEF Back, HasBack
  <1>5. form' \in [entry : Entry, editing : Nat]
    BY <1>2, <1>3, ShowFormType
  <1> QED
    BY <1>1, <1>2, <1>4, <1>5 DEF Back, TInv, TypeOK, Wiring, server

LEMMA SubmitsKeepTInv ==
  ASSUME TInv, SubmitSingle \/ SubmitNewRecord \/ SubmitEdited \/ SubmitWithoutForm
  PROVE  TInv'
  <1>1. TypeOK /\ OnStep /\ at \in Step
    BY DEF TInv, OnStep, SubmitSingle, SubmitNewRecord, SubmitEdited, SubmitWithoutForm
  <1>2. data[at] \in Seq(Snap)
    BY <1>1 DEF TypeOK
  <1>3. 0 \in Nat /\ Len(data[at]) + 1 \in Nat /\ made \in 0..MaxSnaps
    BY <1>1, <1>2, SeqFacts DEF TypeOK
  <1>4. CASE SubmitSingle
    BY <1>1, <1>3, <1>4, SnapFacts, SingleFacts, SubmitKeepsTInv DEF SubmitSingle
  <1>5. CASE SubmitNewRecord
    <2>1. PICK snap \in Snap :
            /\ SnapshotWithImages(snap)
            /\ Submit(Append(data[at], snap), Len(data[at]) + 1)
      BY <1>5 DEF SubmitNewRecord
    <2>2. Append(data[at], snap) \in Seq(Snap) /\ Len(Append(data[at], snap)) = Len(data[at]) + 1
      BY <1>2, AppendFacts
    <2>3. made' \in 0..MaxSnaps /\ Multi /\ form.editing = 0
      BY <1>1, <1>5, <2>1, SnapFacts DEF SubmitNewRecord
    <2> QED BY <1>1, <1>3, <2>1, <2>2, <2>3, SubmitKeepsTInv
  <1>6. CASE SubmitEdited
    BY <1>1, <1>2, <1>3, <1>6, SnapFacts, ExceptFacts, SubmitKeepsTInv DEF SubmitEdited
  <1>7. CASE SubmitWithoutForm
    BY <1>1, <1>2, <1>3, <1>7, SubmitKeepsTInv DEF SubmitWithoutForm
  <1> QED BY <1>4, <1>5, <1>6, <1>7

LEMMA ReviewKeepsTInv ==
  ASSUME TInv, (\E i \in Step : EditStep(i)) \/ BackFromReview
  PROVE  TInv'
  <1>1. TypeOK /\ Wiring /\ at = Review /\ call = NoCall /\ run = Idle
    BY DEF TInv, OnReview, Free, EditStep, BackFromReview
  <1>2. PICK i \in Step : at' = i /\ ShowForm(i)
    BY StepFacts DEF EditStep, BackFromReview, GoToStep
  <1>3. data' \in [Step -> Seq(Snap)] /\ data' = data
    BY <1>1 DEF EditStep, BackFromReview, TypeOK
  <1>4. form' \in [entry : Entry, editing : Nat]
    BY <1>2, <1>3, ShowFormType
  <1>5. at' \in 1..Done /\ at' \in Step
    BY <1>2, StepFacts
  <1> QED
    BY <1>1, <1>3, <1>4, <1>5
    DEF EditStep, BackFromReview, TInv, TypeOK, Wiring, server, counted

LEMMA ProcedureKeepsTInv ==
  ASSUME TInv, ProcedureSucceeds \/ ProcedureFails
  PROVE  TInv'
  <1>1. TypeOK /\ Wiring /\ call # NoCall /\ call.phase = "sent"
    BY IdleFacts DEF TInv, ProcedureSucceeds, ProcedureFails
  <1>2. at \in Step /\ at \in wf.gated /\ ~returns /\ run = Idle
    BY <1>1, WorkflowRunAssumption DEF Wiring, TypeOK, Workflow
  <1>3. CASE ProcedureSucceeds
    <2>1. data' \in [Step -> Seq(Snap)] /\ Advance
      BY <1>1, <1>3 DEF ProcedureSucceeds, TypeOK
    <2>2. at' \in 1..Done /\ returns' = FALSE /\ form' \in [entry : Entry, editing : Nat]
      BY <1>1, <1>2, <2>1, AdvanceType
    <2>3. verdict' \in [Step -> Verdict]
      BY <1>1, <1>3, VerdictType DEF ProcedureSucceeds, Verdict
    <2> QED
      BY <1>1, <1>2, <1>3, <2>1, <2>2, <2>3, IdleFacts
      DEF ProcedureSucceeds, TInv, TypeOK, Wiring, server, counted
  <1>4. CASE ProcedureFails
    <2>1. data' \in [Step -> Seq(Snap)]
      <3>1. CASE call.appended = 0
        BY <1>1, <1>4, <3>1 DEF ProcedureFails, RollBack, TypeOK
      <3>2. CASE call.appended # 0
        <4>1. data[at] \in Seq(Snap) /\ call.appended = Len(data[at])
          BY <1>1, <1>2, <3>2 DEF TypeOK, Wiring
        <4>2. Splice(data[at], call.appended) \in Seq(Snap)
          BY <3>2, <4>1, SeqFacts, SpliceFacts
        <4> QED BY <1>1, <1>2, <1>4, <3>2, <4>2, BufferType DEF ProcedureFails, RollBack
      <3> QED BY <3>1, <3>2
    <2>2. verdict' \in [Step -> Verdict]
      BY <1>1, <1>4, VerdictType DEF ProcedureFails, Verdict
    <2> QED
      BY <1>1, <1>2, <1>4, <2>1, <2>2, IdleFacts
      DEF ProcedureFails, Stay, TInv, TypeOK, Wiring, server, counted, screen
  <1> QED BY <1>3, <1>4

LEMMA SaveKeepsTInv == ASSUME TInv, Save PROVE TInv'
  <1>1. TypeOK /\ Wiring /\ at = Review /\ call = NoCall /\ run = Idle /\ Proceed(saved, ids)
    BY DEF TInv, OnReview, Free, Save
  <1>2. ids \in [Step -> Nat]
    BY <1>1 DEF TypeOK
  <1>3. /\ run' \in Request \cup {Idle} /\ at' \in 1..Done
        /\ form' \in [entry : Entry, editing : Nat] /\ returns' = returns
        /\ (run' = Idle /\ at' = Done) \/ at' = at
    BY <1>1, <1>2, ProceedType DEF screen
  <1> QED
    BY <1>1, <1>3, StepFacts, IdleFacts DEF Save, TInv, TypeOK, Wiring, server, counted

LEMMA RowKept ==
  ASSUME TypeOK, run \in Request
  PROVE  LET row == [step |-> run.step, snap |-> run.snap, parent |-> run.parent,
                     photo |-> FALSE, made |-> made]
         IN  row \in Row /\ Append(rows, row) \in Seq(Row)
  BY RequestFacts, AppendFacts DEF TypeOK, Row

LEMMA PhotoKept ==
  ASSUME TypeOK
  PROVE  /\ [rows EXCEPT ![Len(rows)].photo = TRUE] \in Seq(Row)
         /\ DOMAIN [rows EXCEPT ![Len(rows)].photo = TRUE] = DOMAIN rows
         /\ \A q \in DOMAIN rows :
              /\ [rows EXCEPT ![Len(rows)].photo = TRUE][q].step = rows[q].step
              /\ [rows EXCEPT ![Len(rows)].photo = TRUE][q].snap = rows[q].snap
              /\ [rows EXCEPT ![Len(rows)].photo = TRUE][q].parent = rows[q].parent
              /\ [rows EXCEPT ![Len(rows)].photo = TRUE][q].made = rows[q].made
         /\ Len([rows EXCEPT ![Len(rows)].photo = TRUE]) = Len(rows)
  <1>1. rows \in Seq(Row)
    BY DEF TypeOK
  <1>2. Len(rows) \in Nat /\ rows \in [1..Len(rows) -> Row]
    BY <1>1
  <1>3. \A r \in Row : [r EXCEPT !.photo = TRUE] \in Row
    BY DEF Row
  <1>4. [rows EXCEPT ![Len(rows)].photo = TRUE] \in [1..Len(rows) -> Row]
    BY <1>2, <1>3
  <1>5. [rows EXCEPT ![Len(rows)].photo = TRUE] \in Seq(Row)
    BY <1>2, <1>4, SeqDef
  <1>6. \A q \in DOMAIN rows :
              /\ [rows EXCEPT ![Len(rows)].photo = TRUE][q].step = rows[q].step
              /\ [rows EXCEPT ![Len(rows)].photo = TRUE][q].snap = rows[q].snap
              /\ [rows EXCEPT ![Len(rows)].photo = TRUE][q].parent = rows[q].parent
              /\ [rows EXCEPT ![Len(rows)].photo = TRUE][q].made = rows[q].made
    BY <1>2 DEF Row
  <1> QED BY <1>2, <1>4, <1>5, <1>6

LEMMA ServerKeepsTInv ==
  ASSUME TInv, RowStored \/ RowRefused \/ RowAnswered \/ AnswerLost \/ PhotoUploaded \/ PhotoFails
  PROVE  TInv'
  <1>1. TypeOK /\ Wiring /\ run # Idle
    BY IdleFacts
    DEF TInv, RowStored, RowRefused, RowAnswered, AnswerLost, PhotoUploaded, PhotoFails
  <1>2. run \in Request /\ at = Review /\ call = NoCall
    BY <1>1 DEF TypeOK, Wiring
  <1>3. /\ run.step \in Step /\ run.snap \in Snap
        /\ \A p \in {"stored", "photo"} : [run EXCEPT !.phase = p] \in Request
    BY <1>2, RequestFacts
  <1>4. CASE RowStored
    BY <1>1, <1>2, <1>3, <1>4, RowKept, StepFacts
    DEF RowStored, TInv, TypeOK, Wiring, screen, counted
  <1>5. CASE RowRefused
    BY <1>1, <1>2, <1>5, StepFacts
    DEF RowRefused, GiveUp, Fail, TInv, TypeOK, Wiring, screen, server, counted
  <1>6. CASE RowAnswered
    <2>1. saved' = saved \cup {run.snap} /\ saved' \subseteq Snap
      BY <1>1, <1>3, <1>6 DEF RowAnswered, Saved, TypeOK
    <2>2. ids' \in [Step -> Nat]
      <3>1. Len(rows) \in Nat /\ ids \in [Step -> Nat]
        BY <1>1, SeqFacts DEF TypeOK
      <3> QED BY <1>3, <1>6, <3>1 DEF RowAnswered, FirstId
    <2>3. /\ run' \in Request \cup {Idle} /\ at' \in 1..Done
          /\ form' \in [entry : Entry, editing : Nat] /\ returns' = returns
          /\ (run' = Idle /\ at' = Done) \/ at' = at
      <3>1. CASE run.snap.photo
        BY <1>1, <1>3, <1>6, <3>1 DEF RowAnswered, screen, TypeOK
      <3>2. CASE ~run.snap.photo
        BY <1>1, <1>2, <1>6, <2>2, <3>2, ProceedType DEF RowAnswered, screen
      <3> QED BY <3>1, <3>2
    <2> QED
      BY <1>1, <1>2, <1>6, <2>1, <2>2, <2>3, StepFacts, IdleFacts
      DEF RowAnswered, TInv, TypeOK, Wiring, counted
  <1>7. CASE AnswerLost
    BY <1>1, <1>2, <1>3, <1>7, StepFacts
    DEF AnswerLost, Fail, TInv, TypeOK, Wiring, screen, counted
  <1>8. CASE PhotoUploaded
    <2>1. ids \in [Step -> Nat] /\ Proceed(saved, ids)
      BY <1>1, <1>8 DEF TypeOK, PhotoUploaded
    <2>2. /\ run' \in Request \cup {Idle} /\ at' \in 1..Done
          /\ form' \in [entry : Entry, editing : Nat] /\ returns' = returns
          /\ (run' = Idle /\ at' = Done) \/ at' = at
      BY <1>1, <1>2, <2>1, ProceedType DEF screen
    <2>3. rows' \in Seq(Row)
      BY <1>1, <1>8, PhotoKept DEF PhotoUploaded
    <2> QED
      BY <1>1, <1>2, <1>8, <2>2, <2>3, StepFacts, IdleFacts
      DEF PhotoUploaded, TInv, TypeOK, Wiring, counted
  <1>9. CASE PhotoFails
    <2>1. rows' \in Seq(Row)
      BY <1>1, <1>9, PhotoKept DEF PhotoFails, TypeOK
    <2> QED
      BY <1>1, <1>2, <1>9, <2>1, StepFacts
      DEF PhotoFails, Fail, TInv, TypeOK, Wiring, screen, counted
  <1> QED BY <1>4, <1>5, <1>6, <1>7, <1>8, <1>9

LEMMA TInvNext == TInv /\ [Next]_vars => TInv'
  <1> SUFFICES ASSUME TInv, [Next]_vars PROVE TInv'
    OBVIOUS
  <1>1. CASE UNCHANGED vars
    BY <1>1 DEF vars, screen, server, counted, TInv, TypeOK, Wiring
  <1>2. CASE UserStep
    BY <1>2, FillKeepsTInv, ClearKeepsTInv, AddRecordKeepsTInv, EnterEditModeKeepsTInv, CancelEditKeepsTInv,
       RemoveRecordKeepsTInv, BackKeepsTInv, SubmitsKeepTInv, ReviewKeepsTInv, SaveKeepsTInv
    DEF UserStep
  <1>3. CASE ServerStep
    BY <1>3, ProcedureKeepsTInv, ServerKeepsTInv DEF ServerStep
  <1> QED BY <1>1, <1>2, <1>3 DEF Next

(* Whatever the workflow and the user's way through it, every variable has *)
(* its type, one request at a time is awaited, and a save runs on the      *)
(* review screen only.                                                     *)
THEOREM TypeCorrect == Spec => [](TypeOK /\ Wiring)
  <1>1. Init => TInv
    BY TInvInit
  <1>2. TInv /\ [Next]_vars => TInv'
    BY TInvNext
  <1>3. TInv => TypeOK /\ Wiring
    BY DEF TInv
  <1> QED BY <1>1, <1>2, <1>3, PTL DEF Spec

-----------------------------------------------------------------------------
(* The steps of the wizard, and what they do to the buffers.               *)
WizardStep ==
  \/ Fill \/ Clear \/ AddRecord \/ EnterEditMode \/ CancelEdit \/ RemoveRecord \/ Back
  \/ SubmitSingle \/ SubmitNewRecord \/ SubmitEdited \/ SubmitWithoutForm
  \/ (\E i \in Step : EditStep(i)) \/ BackFromReview
  \/ ProcedureSucceeds \/ ProcedureFails

IsNew(snap) ==
  snap \in Snap /\ snap.object = made + 1 /\ made' = made + 1 /\ snap.entry = form.entry

Splices(j)     == j \in DOMAIN data[at] /\ Buffer(Splice(data[at], j)) /\ made' = made
Sets(snap)     == IsNew(snap) /\ at \notin wf.multi /\ Buffer(<<snap>>)
Appends(snap)  == /\ IsNew(snap) /\ at \in wf.multi /\ form.editing = 0 /\ form.entry # 0
                  /\ call = NoCall /\ Buffer(Append(data[at], snap))
Replaces(snap) == /\ IsNew(snap) /\ at \in wf.multi /\ form.editing # 0 /\ form.entry # 0
                  /\ call = NoCall /\ Buffer([data[at] EXCEPT ![form.editing] = snap])

Changes ==
  \/ UNCHANGED <<data, made>>
  \/ /\ at \in Step
     /\ \/ \E j \in DOMAIN data[at] : Splices(j)
        \/ \E snap \in Snap : Sets(snap) \/ Appends(snap) \/ Replaces(snap)

LEMMA NewFacts ==
  ASSUME TypeOK, NEW snap \in Snap, SnapshotWithImages(snap)
  PROVE  IsNew(snap)
  BY SnapFacts DEF IsNew

LEMMA WizardChanges ==
  ASSUME TInv, WizardStep
  PROVE  /\ Changes /\ UNCHANGED <<wf, server>> /\ run = Idle /\ run' = Idle
         /\ at \in 1..Review /\ at' \in 1..Review
  <1> USE DEF server, counted
  <1>1. TypeOK /\ Wiring /\ TInv'
    BY TInvNext DEF TInv, Next, UserStep, ServerStep, WizardStep
  <1>2. \A snap \in Snap : SnapshotWithImages(snap) => IsNew(snap)
    BY <1>1, NewFacts
  <1>3. ASSUME OnStep PROVE at \in Step /\ call = NoCall /\ run = Idle
    BY <1>3 DEF OnStep, Free
  <1>4. ASSUME OnReview PROVE at = Review /\ call = NoCall /\ run = Idle
    BY <1>4 DEF OnReview, Free
  <1>5. ASSUME at \in Step, Advance PROVE at' \in 1..Review
    BY <1>5, StepFacts DEF Advance, GoToStep
  <1>6. Step \subseteq 1..Review /\ Review \in 1..Review
    BY StepFacts
  <1>7. CASE Fill \/ Clear \/ EnterEditMode \/ CancelEdit
    BY <1>7, <1>3, <1>6 DEF Fill, Clear, EnterEditMode, CancelEdit, Changes
  <1>8. CASE AddRecord
    <2>1. PICK snap \in Snap :
            /\ SnapshotWithImages(snap)
            /\ Buffer(IF form.editing # 0 THEN [data[at] EXCEPT ![form.editing] = snap]
                                          ELSE Append(data[at], snap))
      BY <1>8 DEF AddRecord
    <2>2. Appends(snap) \/ Replaces(snap)
      BY <1>8, <2>1, <1>2, <1>3 DEF AddRecord, Appends, Replaces, Multi
    <2> QED BY <1>8, <2>2, <1>3, <1>6 DEF AddRecord, Changes
  <1>9. CASE RemoveRecord
    BY <1>9, <1>3, <1>6 DEF RemoveRecord, Changes, Splices
  <1>10. CASE Back
    <2>1. Changes
      <3>1. CASE Multi
        BY <1>10, <3>1 DEF Back, Changes
      <3>2. CASE ~Multi
        BY <1>10, <3>2, <1>2, <1>3 DEF Back, Changes, Sets, Multi
      <3> QED BY <3>1, <3>2
    <2>2. at \in Step /\ at' = at - 1 /\ at > 1
      BY <1>10, <1>3 DEF Back, GoToStep, HasBack
    <2> QED BY <1>10, <2>1, <2>2, <1>3, StepFacts DEF Back
  <1>11. ASSUME OnStep, NEW b, NEW n, Submit(b, n)
         PROVE  /\ Buffer(b) /\ UNCHANGED <<wf, server>> /\ run = Idle /\ run' = Idle
                /\ at \in Step /\ at' \in 1..Review /\ call = NoCall
    BY <1>11, <1>3, <1>5, <1>6 DEF Submit, screen
  <1>12. CASE SubmitSingle
    BY <1>12, <1>11, <1>2, <1>6 DEF SubmitSingle, Changes, Sets, Multi
  <1>13. CASE SubmitNewRecord
    BY <1>13, <1>11, <1>2, <1>6 DEF SubmitNewRecord, Changes, Appends, Multi
  <1>14. CASE SubmitEdited
    BY <1>14, <1>11, <1>2, <1>6 DEF SubmitEdited, Changes, Replaces, Multi
  <1>15. CASE SubmitWithoutForm
    <2>1. Buffer(data[at]) => data' = data
      BY <1>1 DEF TypeOK, Buffer
    <2> QED BY <1>15, <2>1, <1>11, <1>6 DEF SubmitWithoutForm, Changes
  <1>16. CASE (\E i \in Step : EditStep(i)) \/ BackFromReview
    BY <1>16, <1>4, <1>6, StepFacts DEF EditStep, BackFromReview, GoToStep, Changes
  <1>17. ASSUME call.phase = "sent" PROVE call # NoCall /\ at \in Step /\ run = Idle
    BY <1>17, <1>1, IdleFacts, WorkflowRunAssumption DEF Wiring, TypeOK, Workflow
  <1>18. CASE ProcedureSucceeds
    BY <1>18, <1>17, <1>5, <1>6 DEF ProcedureSucceeds, Changes
  <1>19. CASE ProcedureFails
    <2>1. call # NoCall /\ at \in Step /\ run = Idle
      BY <1>19, <1>17 DEF ProcedureFails
    <2>2. call.appended # 0 => call.appended \in DOMAIN data[at]
      <3>1. data[at] \in Seq(Snap)
        BY <1>1, <2>1 DEF TypeOK
      <3>2. call.appended # 0 => call.appended = Len(data[at])
        BY <1>1 DEF Wiring
      <3> QED BY <3>1, <3>2, SeqFacts
    <2>3. Changes
      BY <1>19, <2>1, <2>2 DEF ProcedureFails, RollBack, Changes, Splices
    <2> QED BY <1>19, <2>1, <2>3, <1>6 DEF ProcedureFails, Stay, screen
  <1> QED
    BY <1>7, <1>8, <1>9, <1>10, <1>12, <1>13, <1>14, <1>15, <1>16, <1>18, <1>19
    DEF WizardStep

-----------------------------------------------------------------------------
(* Every snapshot is an object of its own, made once.                      *)
Objects ==
  \A i, k \in Step : \A j \in DOMAIN data[i], l \in DOMAIN data[k] :
    /\ data[i][j].object <= made
    /\ data[i][j].object = data[k][l].object => i = k /\ j = l

SavedIsOld == \A s \in saved : s.object <= made

(* Where the records of the buffers come from.                             *)
Kept ==
  /\ made <= made'
  /\ \A i \in Step : \A j \in DOMAIN data'[i] :
       \/ \E l \in DOMAIN data[i] : data'[i][j] = data[i][l]
       \/ data'[i][j].object = made + 1

LEMMA BufferTypes ==
  ASSUME TypeOK, NEW i \in Step
  PROVE  /\ data[i] \in Seq(Snap)
         /\ Len(data[i]) \in Nat /\ DOMAIN data[i] = 1..Len(data[i])
         /\ \A j \in DOMAIN data[i] : data[i][j] \in Snap /\ data[i][j].object \in Nat
                                     /\ data[i][j].entry \in Nat
  <1>1. data[i] \in Seq(Snap)
    BY DEF TypeOK
  <1>2. \A j \in DOMAIN data[i] : data[i][j] \in Snap
    BY <1>1, SeqFacts
  <1> QED BY <1>1, <1>2, SeqFacts DEF Snap, Entry

LEMMA BufferKeeps ==
  ASSUME TypeOK, Objects, at \in Step, NEW b \in Seq(Snap), Buffer(b),
         made' \in {made, made + 1},
         \A j, l \in DOMAIN b : b[j].object = b[l].object => j = l,
         \A j \in DOMAIN b :
           \/ \E l \in DOMAIN data[at] : b[j] = data[at][l]
           \/ b[j].object = made + 1 /\ made' = made + 1
  PROVE  Objects' /\ Kept
  <1>1. made \in Nat
    BY WorkflowRunAssumption DEF TypeOK
  <1>2. /\ data'[at] = b
        /\ \A i \in Step : i # at => data'[i] = data[i]
    BY BufferType
  <1>3. \A i \in Step : \A j \in DOMAIN data[i] :
          data[i][j].object \in Nat /\ data[i][j].object <= made
    BY BufferTypes DEF Objects
  <1>4. Kept
    BY <1>1, <1>2 DEF Kept
  <1>5. \A i \in Step : \A j \in DOMAIN data'[i] : data'[i][j].object <= made'
    <2> TAKE i \in Step
    <2> TAKE j \in DOMAIN data'[i]
    <2>1. CASE i = at
      BY <1>1, <1>2, <1>3, <2>1
    <2>2. CASE i # at
      BY <1>1, <1>2, <1>3, <2>2
    <2> QED BY <2>1, <2>2
  <1>6. ASSUME NEW k \in Step, k # at, NEW j \in DOMAIN b, NEW l \in DOMAIN data[k]
        PROVE  b[j].object # data[k][l].object
    <2>1. CASE \E m \in DOMAIN data[at] : b[j] = data[at][m]
      BY <1>6, <2>1 DEF Objects
    <2>2. CASE b[j].object = made + 1
      BY <1>1, <1>3, <1>6, <2>2
    <2> QED BY <2>1, <2>2
  <1>7. ASSUME NEW i \in Step, NEW k \in Step,
               NEW j \in DOMAIN data'[i], NEW l \in DOMAIN data'[k],
               data'[i][j].object = data'[k][l].object
        PROVE  i = k /\ j = l
    <2>1. CASE i = at /\ k = at
      BY <1>2, <1>7, <2>1
    <2>2. CASE i = at /\ k # at
      BY <1>2, <1>6, <1>7, <2>2
    <2>3. CASE i # at /\ k = at
      BY <1>2, <1>6, <1>7, <2>3
    <2>4. CASE i # at /\ k # at
      BY <1>2, <1>7, <2>4 DEF Objects
    <2> QED BY <2>1, <2>2, <2>3, <2>4
  <1> QED BY <1>4, <1>5, <1>7 DEF Objects

LEMMA ChangesKeep ==
  ASSUME TypeOK, Objects, Changes
  PROVE  Objects' /\ Kept
  <1>0. made \in Nat
    BY WorkflowRunAssumption DEF TypeOK
  <1>s. at \in Step =>
          /\ data[at] \in Seq(Snap) /\ Len(data[at]) \in Nat /\ DOMAIN data[at] = 1..Len(data[at])
          /\ \A j \in DOMAIN data[at] : data[at][j].object \in Nat /\ data[at][j].object <= made
          /\ \A j, l \in DOMAIN data[at] : data[at][j].object = data[at][l].object => j = l
    BY BufferTypes DEF Objects
  <1>1. CASE UNCHANGED <<data, made>>
    BY <1>1, <1>0 DEF Objects, Kept
  <1>2. ASSUME at \in Step, NEW j \in DOMAIN data[at], Splices(j) PROVE Objects' /\ Kept
    <2> DEFINE b == Splice(data[at], j)
    <2>1. /\ DOMAIN b = 1..(Len(data[at]) - 1) /\ b \in Seq(Snap)
          /\ \A k \in 1..(Len(data[at]) - 1) : b[k] = IF k < j THEN data[at][k] ELSE data[at][k + 1]
      BY <1>s, <1>2, SpliceFacts
    <2>2. Buffer(b) /\ made' = made
      BY <1>2 DEF Splices
    <2> HIDE DEF b
    <2>3. \A k \in DOMAIN b : \E l \in DOMAIN data[at] : b[k] = data[at][l]
      <3> TAKE k \in DOMAIN b
      <3>1. k \in DOMAIN data[at] /\ k + 1 \in DOMAIN data[at]
        BY <1>s, <1>2, <2>1
      <3> QED BY <2>1, <3>1
    <2>4. \A k, l \in DOMAIN b : b[k].object = b[l].object => k = l
      <3> SUFFICES ASSUME NEW k \in DOMAIN b, NEW l \in DOMAIN b, b[k].object = b[l].object
                   PROVE  k = l
        OBVIOUS
      <3> DEFINE of(n) == IF n < j THEN n ELSE n + 1
      <3>1. of(k) \in DOMAIN data[at] /\ of(l) \in DOMAIN data[at]
        BY <1>s, <1>2, <2>1
      <3>2. b[k] = data[at][of(k)] /\ b[l] = data[at][of(l)]
        BY <2>1
      <3>3. of(k) = of(l)
        BY <1>s, <1>2, <3>1, <3>2
      <3> QED BY <1>s, <1>2, <2>1, <3>3
    <2> QED BY <1>2, <2>1, <2>2, <2>3, <2>4, BufferKeeps
  <1>3. ASSUME at \in Step, NEW snap \in Snap, Sets(snap) PROVE Objects' /\ Kept
    <2>1. <<snap>> \in Seq(Snap) /\ DOMAIN <<snap>> = {1} /\ <<snap>>[1] = snap
      BY SingleFacts
    <2>2. Buffer(<<snap>>) /\ made' = made + 1 /\ snap.object = made + 1
      BY <1>3 DEF Sets, IsNew
    <2> QED BY <1>3, <2>1, <2>2, BufferKeeps
  <1>4. ASSUME at \in Step, NEW snap \in Snap, Appends(snap) PROVE Objects' /\ Kept
    <2> DEFINE b == Append(data[at], snap)
    <2>1. /\ b \in Seq(Snap) /\ DOMAIN b = 1..(Len(data[at]) + 1)
          /\ \A k \in DOMAIN data[at] : b[k] = data[at][k]
          /\ b[Len(data[at]) + 1] = snap
      BY <1>s, <1>4, AppendFacts
    <2>2. Buffer(b) /\ made' = made + 1 /\ snap.object = made + 1
      BY <1>4 DEF Appends, IsNew
    <2> HIDE DEF b
    <2>3. \A k \in DOMAIN b : (k \in DOMAIN data[at] /\ b[k] = data[at][k]) \/ (k = Len(data[at]) + 1 /\ b[k] = snap)
      BY <1>s, <1>4, <2>1
    <2>4. \A k, l \in DOMAIN b : b[k].object = b[l].object => k = l
      BY <1>0, <1>s, <1>4, <2>2, <2>3
    <2>5. \A k \in DOMAIN b : \/ \E l \in DOMAIN data[at] : b[k] = data[at][l]
                              \/ b[k].object = made + 1 /\ made' = made + 1
      BY <2>2, <2>3
    <2> QED BY <1>4, <2>1, <2>2, <2>4, <2>5, BufferKeeps
  <1>5. ASSUME at \in Step, NEW snap \in Snap, Replaces(snap) PROVE Objects' /\ Kept
    <2> DEFINE b == [data[at] EXCEPT ![form.editing] = snap]
    <2>1. /\ b \in Seq(Snap) /\ DOMAIN b = DOMAIN data[at]
          /\ \A k \in DOMAIN data[at] : b[k] = IF k = form.editing THEN snap ELSE data[at][k]
      BY <1>s, <1>5, ExceptFacts
    <2>2. Buffer(b) /\ made' = made + 1 /\ snap.object = made + 1
      BY <1>5 DEF Replaces, IsNew
    <2> HIDE DEF b
    <2>3. \A k, l \in DOMAIN b : b[k].object = b[l].object => k = l
      BY <1>0, <1>s, <1>5, <2>1, <2>2
    <2>4. \A k \in DOMAIN b : \/ \E l \in DOMAIN data[at] : b[k] = data[at][l]
                              \/ b[k].object = made + 1 /\ made' = made + 1
      BY <2>1, <2>2
    <2> QED BY <1>5, <2>1, <2>2, <2>3, <2>4, BufferKeeps
  <1> QED BY <1>1, <1>2, <1>3, <1>4, <1>5 DEF Changes

-----------------------------------------------------------------------------
(* What saveAll knows of the rows, over all the times Save is pressed.     *)
RunMatches ==
  /\ run # Idle => \E j \in DOMAIN data[run.step] : run.snap = data[run.step][j]
  /\ run.phase = "sent" => /\ run.parent = ParentOf(run.step, ids)
                           /\ run.snap \notin saved
                           /\ \A k \in Step : \A l \in DOMAIN data[k] :
                                k < run.step => data[k][l] \in saved
  /\ run.phase = "stored" => /\ rows # << >>
                             /\ rows[Len(rows)].step = run.step
                             /\ rows[Len(rows)].snap = run.snap

SavedHasRow ==
  \A i \in Step : \A j \in DOMAIN data[i] : data[i][j] \in saved =>
    ids[i] # 0 /\ \E r \in DOMAIN rows : rows[r].step = i /\ rows[r].snap = data[i][j]

IdsAreRows == \A i \in Step : ids[i] # 0 => ids[i] \in DOMAIN rows /\ rows[ids[i]].step = i

ParentsAreIds ==
  \A q \in DOMAIN rows : rows[q].parent # 0 =>
    wf.link[rows[q].step] \in Step /\ rows[q].parent = ids[wf.link[rows[q].step]]

RowsAreKnown ==
  \A q \in DOMAIN rows : \/ rows[q].snap \in saved \cup lost
                         \/ run.phase = "stored" /\ rows[q].snap = run.snap

SnapsOnce ==
  \A q, r \in DOMAIN rows : rows[q].snap = rows[r].snap /\ q # r => rows[q].snap \in lost

DoneIsSaved == at = Done => \A i \in Step : \A j \in DOMAIN data[i] : data[i][j] \in saved

SInv == /\ TInv /\ Objects /\ SavedIsOld /\ RunMatches /\ SavedHasRow /\ IdsAreRows
        /\ ParentsAreIds /\ RowsAreKnown /\ DoneIsSaved /\ SnapsOnce

LEMMA SInvInit == Init => SInv
  <1> SUFFICES ASSUME Init PROVE SInv
    OBVIOUS
  <1>1. TInv
    BY TInvInit
  <1>2. /\ \A i \in Step : data[i] = << >> /\ DOMAIN data[i] = {} /\ ids[i] = 0
        /\ rows = << >> /\ DOMAIN rows = {} /\ saved = {} /\ run = Idle /\ at = 1
    BY EmptyFacts DEF Init
  <1> QED
    BY <1>1, <1>2, IdleFacts, StepFacts
    DEF SInv, Objects, SavedIsOld, RunMatches, SavedHasRow, IdsAreRows, ParentsAreIds,
        RowsAreKnown, DoneIsSaved, SnapsOnce

LEMMA LinkFacts ==
  ASSUME TypeOK, NEW i \in Step
  PROVE  /\ wf.link[i] \in Nat
         /\ wf.link[i] \in 1..(i - 1) => wf.link[i] \in Step
         /\ ParentOf(i, ids) # 0 => wf.link[i] \in Step
         /\ wf.link[i] \in Step => ParentOf(i, ids) = ids[wf.link[i]]
  BY WorkflowRunAssumption DEF TypeOK, Workflow, ParentOf, Step

LEMMA RowFacts ==
  ASSUME TypeOK
  PROVE  /\ rows \in Seq(Row) /\ Len(rows) \in Nat /\ DOMAIN rows = 1..Len(rows)
         /\ \A q \in DOMAIN rows : rows[q] \in Row /\ rows[q].step \in Step
                                 /\ rows[q].snap \in Snap /\ rows[q].parent \in Nat
                                 /\ rows[q].made \in Nat
  <1>1. rows \in Seq(Row)
    BY DEF TypeOK
  <1>2. \A q \in DOMAIN rows : rows[q] \in Row
    BY <1>1, SeqFacts
  <1> QED BY <1>1, <1>2, SeqFacts DEF Row

LEMMA WizardKeepsSInv ==
  ASSUME SInv, WizardStep
  PROVE  SInv'
  <1>1. /\ TInv /\ TypeOK /\ Objects
        /\ TInv'
    BY TInvNext DEF SInv, TInv, Next, UserStep, ServerStep, WizardStep
  <1>2. /\ Changes /\ UNCHANGED <<wf, saved, ids, rows, lost>> /\ run = Idle /\ run' = Idle
        /\ at' # Done
    BY <1>1, WizardChanges, StepFacts DEF server
  <1>3. Objects' /\ Kept
    BY <1>1, <1>2, ChangesKeep
  <1>4. made \in Nat /\ made' \in Nat /\ saved \subseteq Snap
    BY <1>1, WorkflowRunAssumption DEF TInv, TypeOK
  <1>5. \A s \in saved : s.object \in Nat /\ s.object <= made
    BY <1>4 DEF SInv, SavedIsOld, Snap
  <1>6. SavedIsOld'
    BY <1>2, <1>3, <1>4, <1>5 DEF SavedIsOld, Kept
  <1>7. SavedHasRow'
    <2> SUFFICES ASSUME NEW i \in Step, NEW j \in DOMAIN data'[i], data'[i][j] \in saved
                 PROVE  ids[i] # 0 /\ \E r \in DOMAIN rows : rows[r].step = i /\ rows[r].snap = data'[i][j]
      BY <1>2 DEF SavedHasRow
    <2>1. PICK l \in DOMAIN data[i] : data'[i][j] = data[i][l]
      BY <1>3, <1>4, <1>5 DEF Kept
    <2> QED BY <2>1 DEF SInv, SavedHasRow
  <1>8. RunMatches' /\ DoneIsSaved'
    BY <1>2, IdleFacts DEF RunMatches, DoneIsSaved
  <1>9. IdsAreRows' /\ ParentsAreIds' /\ SnapsOnce'
    BY <1>2 DEF SInv, IdsAreRows, ParentsAreIds, SnapsOnce
  <1>10. RowsAreKnown'
    BY <1>2, IdleFacts DEF SInv, RowsAreKnown
  <1> QED BY <1>1, <1>3, <1>6, <1>7, <1>8, <1>9, <1>10 DEF SInv

(* A request is sent, or the success screen shown.                         *)
LEMMA ProceedMatches ==
  ASSUME TypeOK, at = Review, ids' \in [Step -> Nat], Proceed(saved', ids'),
         UNCHANGED <<wf, data>>
  PROVE  RunMatches' /\ DoneIsSaved' /\ run'.phase # "stored"
  <1>1. \/ /\ run' = Idle /\ at' = Done
           /\ \A i \in Step : \A j \in DOMAIN data[i] : data[i][j] \in saved'
        \/ /\ at' = at /\ run'.phase = "sent"
           /\ run'.parent = ParentOf(run'.step, ids')
           /\ run'.snap \notin saved'
           /\ \E j \in DOMAIN data[run'.step] : run'.snap = data[run'.step][j]
           /\ \A k \in Step : \A l \in DOMAIN data[k] :
                k < run'.step => data[k][l] \in saved'
    BY ProceedType DEF screen
  <1>2. \A i : ParentOf(i, ids') = (IF wf.link[i] \in Step THEN ids'[wf.link[i]] ELSE 0)
    BY DEF ParentOf
  <1> QED BY <1>1, <1>2, IdleFacts, StepFacts DEF RunMatches, DoneIsSaved, ParentOf

LEMMA SaveKeepsSInv == ASSUME SInv, Save PROVE SInv'
  <1>1. /\ TypeOK /\ TInv'
        /\ at = Review /\ run = Idle /\ Proceed(saved, ids)
        /\ UNCHANGED <<wf, data, saved, ids, rows, lost, made>>
    BY TInvNext DEF SInv, TInv, Next, UserStep, Save, OnReview, Free, server, counted
  <1>2. ids' \in [Step -> Nat] /\ Proceed(saved', ids')
    BY <1>1 DEF TypeOK
  <1>3. RunMatches' /\ DoneIsSaved'
    BY <1>1, <1>2, ProceedMatches
  <1>4. Objects' /\ SavedIsOld' /\ SavedHasRow' /\ IdsAreRows' /\ ParentsAreIds' /\ SnapsOnce'
    BY <1>1 DEF SInv, Objects, SavedIsOld, SavedHasRow, IdsAreRows, ParentsAreIds, SnapsOnce
  <1>5. RowsAreKnown'
    BY <1>1, IdleFacts DEF SInv, RowsAreKnown
  <1> QED BY <1>1, <1>3, <1>4, <1>5 DEF SInv

(* The requests of saveAll are made on the review screen.                  *)
LEMMA Running ==
  ASSUME SInv, run # Idle
  PROVE  /\ TypeOK /\ run \in Request /\ at = Review
         /\ run.step \in Step /\ run.snap \in Snap /\ run.parent \in Nat
         /\ \E j \in DOMAIN data[run.step] : run.snap = data[run.step][j]
         /\ run.snap.object <= made
         /\ \A i \in Step : \A j \in DOMAIN data[i] : data[i][j] = run.snap => i = run.step
  <1>1. TypeOK /\ run \in Request /\ at = Review
    BY DEF SInv, TInv, TypeOK, Wiring
  <1>2. run.step \in Step /\ run.snap \in Snap /\ run.parent \in Nat
    BY <1>1, RequestFacts
  <1>3. PICK j \in DOMAIN data[run.step] : run.snap = data[run.step][j]
    BY DEF SInv, RunMatches
  <1> QED BY <1>1, <1>2, <1>3 DEF SInv, Objects

LEMMA RowStoredKeepsSInv == ASSUME SInv, RowStored PROVE SInv'
  <1>1. /\ TypeOK /\ TInv' /\ run # Idle /\ run.phase = "sent"
        /\ UNCHANGED <<wf, screen, data, saved, ids, lost, made>>
    BY TInvNext, IdleFacts DEF SInv, TInv, Next, ServerStep, RowStored, counted
  <1>2. /\ run \in Request /\ run.step \in Step
        /\ \E j \in DOMAIN data[run.step] : run.snap = data[run.step][j]
        /\ at = Review
    BY <1>1, Running
  <1> DEFINE row == [step |-> run.step, snap |-> run.snap, parent |-> run.parent, photo |-> FALSE,
                 made |-> made]
  <1>3. rows' = Append(rows, row) /\ row \in Row
    BY <1>1, <1>2, RowKept DEF RowStored
  <1>4. /\ Len(rows) \in Nat /\ DOMAIN rows = 1..Len(rows)
        /\ Len(rows') = Len(rows) + 1 /\ DOMAIN rows' = 1..(Len(rows) + 1) /\ rows' # << >>
        /\ \A q \in DOMAIN rows : rows'[q] = rows[q]
        /\ rows'[Len(rows) + 1] = row
    BY <1>1, <1>3, RowFacts, AppendFacts
  <1>5. row.step = run.step /\ row.snap = run.snap /\ row.parent = run.parent
    OBVIOUS
  <1> HIDE DEF row
  <1>6. /\ run' \in Request /\ run'.phase = "stored" /\ run'.step = run.step
        /\ run'.snap = run.snap
    BY <1>1, <1>2, RequestFacts DEF RowStored
  <1>7. RunMatches'
    BY <1>1, <1>2, <1>4, <1>5, <1>6 DEF RunMatches
  <1>8. Objects' /\ SavedIsOld' /\ DoneIsSaved'
    BY <1>1 DEF SInv, Objects, SavedIsOld, DoneIsSaved, screen
  <1>9. SavedHasRow' /\ IdsAreRows'
    BY <1>1, <1>4 DEF SInv, SavedHasRow, IdsAreRows
  <1>10. ParentsAreIds'
    <2>1. run.parent = ParentOf(run.step, ids)
      BY <1>1 DEF SInv, RunMatches
    <2>2. run.parent # 0 => wf.link[run.step] \in Step /\ run.parent = ids[wf.link[run.step]]
      BY <1>1, <1>2, <2>1, LinkFacts
    <2>3. \A q \in DOMAIN rows' : q \in DOMAIN rows \/ q = Len(rows) + 1
      BY <1>4
    <2> QED BY <1>1, <1>4, <1>5, <2>2, <2>3 DEF SInv, ParentsAreIds
  <1>11. \A q \in DOMAIN rows : rows[q].snap \in saved \cup lost
    BY <1>1 DEF SInv, RowsAreKnown
  <1>12. RowsAreKnown'
    <2>3. \A q \in DOMAIN rows' : q \in DOMAIN rows \/ q = Len(rows) + 1
      BY <1>4
    <2> QED BY <1>1, <1>4, <1>5, <1>6, <1>11, <2>3 DEF RowsAreKnown
  <1>13. SnapsOnce'
    <2>1. run.snap \notin saved
      BY <1>1 DEF SInv, RunMatches
    <2>2. \A q \in DOMAIN rows : rows[q].snap = run.snap => run.snap \in lost
      BY <1>11, <2>1
    <2>3. \A q \in DOMAIN rows' : q \in DOMAIN rows \/ q = Len(rows) + 1
      BY <1>4
    <2> QED BY <1>1, <1>4, <1>5, <2>2, <2>3 DEF SInv, SnapsOnce
  <1> QED BY <1>1, <1>7, <1>8, <1>9, <1>10, <1>12, <1>13 DEF SInv

(* A request that fails: the row's answer is lost, or it was not stored.   *)
LEMMA FailureKeepsSInv ==
  ASSUME SInv, RowRefused \/ AnswerLost \/ PhotoFails
  PROVE  SInv'
  <1>1. /\ TypeOK /\ TInv' /\ run # Idle /\ run' = Idle
        /\ UNCHANGED <<wf, at, data, saved, ids, made>>
    BY TInvNext, IdleFacts
    DEF SInv, TInv, Next, ServerStep, RowRefused, GiveUp, AnswerLost, PhotoFails, Fail, counted,
        server, screen
  <1>2. lost \subseteq lost' /\ (run.phase = "stored" => run.snap \in lost')
    BY DEF RowRefused, AnswerLost, PhotoFails, server
  <1>3. /\ DOMAIN rows' = DOMAIN rows
        /\ \A q \in DOMAIN rows : /\ rows'[q].step = rows[q].step /\ rows'[q].snap = rows[q].snap
                                /\ rows'[q].parent = rows[q].parent
    BY <1>1, PhotoKept DEF RowRefused, AnswerLost, PhotoFails, server
  <1>4. RunMatches'
    BY <1>1, IdleFacts DEF RunMatches
  <1>5. Objects' /\ SavedIsOld' /\ DoneIsSaved'
    BY <1>1 DEF SInv, Objects, SavedIsOld, DoneIsSaved
  <1>6. SavedHasRow' /\ IdsAreRows' /\ ParentsAreIds'
    BY <1>1, <1>3, RowFacts DEF SInv, SavedHasRow, IdsAreRows, ParentsAreIds
  <1>7. RowsAreKnown'
    BY <1>1, <1>2, <1>3 DEF SInv, RowsAreKnown
  <1>8. SnapsOnce'
    BY <1>2, <1>3 DEF SInv, SnapsOnce
  <1> QED BY <1>1, <1>4, <1>5, <1>6, <1>7, <1>8 DEF SInv

LEMMA RowAnsweredKeepsSInv == ASSUME SInv, RowAnswered PROVE SInv'
  <1>1. /\ TypeOK /\ TInv' /\ run # Idle /\ run.phase = "stored"
        /\ UNCHANGED <<wf, data, rows, lost, made>>
        /\ saved' = saved \cup {run.snap}
        /\ ids' = FirstId(run.step, Len(rows))
    BY TInvNext, IdleFacts DEF SInv, TInv, Next, ServerStep, RowAnswered, counted, Saved
  <1>2. /\ run \in Request /\ run.step \in Step /\ at = Review
        /\ \E j \in DOMAIN data[run.step] : run.snap = data[run.step][j]
        /\ run.snap.object <= made
        /\ \A i \in Step : \A j \in DOMAIN data[i] : data[i][j] = run.snap => i = run.step
    BY <1>1, Running
  <1>3. /\ Len(rows) \in DOMAIN rows /\ Len(rows) # 0
        /\ rows[Len(rows)].step = run.step /\ rows[Len(rows)].snap = run.snap
    <2>1. /\ rows # << >>
          /\ rows[Len(rows)].step = run.step /\ rows[Len(rows)].snap = run.snap
      BY <1>1 DEF SInv, RunMatches
    <2> QED BY <1>1, <2>1, RowFacts, SeqFacts
  <1>4. /\ ids' \in [Step -> Nat] /\ ids \in [Step -> Nat]
        /\ ids'[run.step] # 0
        /\ ids[run.step] = 0 => ids'[run.step] = Len(rows)
        /\ \A i \in Step : ids[i] # 0 \/ i # run.step => ids'[i] = ids[i]
    <2>1. ids \in [Step -> Nat] /\ Len(rows) \in Nat
      BY <1>1, RowFacts DEF TypeOK
    <2> QED BY <1>1, <1>2, <1>3, <2>1 DEF FirstId
  <1>5. RunMatches' /\ DoneIsSaved' /\ run'.phase # "stored"
    <2>1. CASE run.snap.photo
      <3>1. run' = [run EXCEPT !.phase = "photo"] /\ UNCHANGED screen
        BY <2>1 DEF RowAnswered
      <3>2. run'.phase = "photo" /\ run'.step = run.step /\ run'.snap = run.snap
        BY <1>2, <3>1, RequestFacts
      <3> QED BY <1>1, <1>2, <3>1, <3>2, StepFacts DEF RunMatches, DoneIsSaved, screen
    <2>2. CASE ~run.snap.photo
      BY <1>1, <1>2, <1>4, <2>2, ProceedMatches DEF RowAnswered
    <2> QED BY <2>1, <2>2
  <1>6. Objects' /\ SavedIsOld'
    BY <1>1, <1>2 DEF SInv, Objects, SavedIsOld
  <1>7. SavedHasRow'
    <2> SUFFICES ASSUME NEW i \in Step, NEW j \in DOMAIN data[i], data[i][j] \in saved'
                 PROVE  /\ ids'[i] # 0
                        /\ \E r \in DOMAIN rows : rows[r].step = i /\ rows[r].snap = data[i][j]
      BY <1>1 DEF SavedHasRow
    <2>1. CASE data[i][j] = run.snap
      BY <1>2, <1>3, <1>4, <2>1
    <2>2. CASE data[i][j] \in saved
      BY <1>4, <2>2 DEF SInv, SavedHasRow
    <2> QED BY <1>1, <2>1, <2>2
  <1>8. IdsAreRows'
    BY <1>1, <1>2, <1>3, <1>4 DEF SInv, IdsAreRows
  <1>9. ParentsAreIds'
    <2> SUFFICES ASSUME NEW q \in DOMAIN rows, rows[q].parent # 0
                 PROVE  wf.link[rows[q].step] \in Step /\ rows[q].parent = ids'[wf.link[rows[q].step]]
      BY <1>1 DEF ParentsAreIds
    <2>1. wf.link[rows[q].step] \in Step /\ rows[q].parent = ids[wf.link[rows[q].step]]
      BY DEF SInv, ParentsAreIds
    <2> QED BY <1>4, <2>1
  <1>10. RowsAreKnown' /\ SnapsOnce'
    BY <1>1, <1>5 DEF SInv, RowsAreKnown, SnapsOnce
  <1> QED BY <1>1, <1>5, <1>6, <1>7, <1>8, <1>9, <1>10 DEF SInv

LEMMA PhotoUploadedKeepsSInv == ASSUME SInv, PhotoUploaded PROVE SInv'
  <1>1. /\ TypeOK /\ TInv' /\ run # Idle /\ run.phase = "photo"
        /\ UNCHANGED <<wf, data, saved, ids, lost, made>>
        /\ Proceed(saved, ids)
    BY TInvNext, IdleFacts DEF SInv, TInv, Next, ServerStep, PhotoUploaded, counted
  <1>2. at = Review
    BY <1>1, Running
  <1>3. /\ DOMAIN rows' = DOMAIN rows
        /\ \A q \in DOMAIN rows : /\ rows'[q].step = rows[q].step /\ rows'[q].snap = rows[q].snap
                                /\ rows'[q].parent = rows[q].parent
    BY <1>1, PhotoKept DEF PhotoUploaded
  <1>4. ids' \in [Step -> Nat] /\ Proceed(saved', ids')
    BY <1>1 DEF TypeOK
  <1>5. RunMatches' /\ DoneIsSaved' /\ run'.phase # "stored"
    BY <1>1, <1>2, <1>4, ProceedMatches
  <1>6. Objects' /\ SavedIsOld'
    BY <1>1 DEF SInv, Objects, SavedIsOld
  <1>7. SavedHasRow' /\ IdsAreRows' /\ ParentsAreIds'
    BY <1>1, <1>3, RowFacts DEF SInv, SavedHasRow, IdsAreRows, ParentsAreIds
  <1>8. RowsAreKnown' /\ SnapsOnce'
    BY <1>1, <1>3, <1>5 DEF SInv, RowsAreKnown, SnapsOnce
  <1> QED BY <1>1, <1>5, <1>6, <1>7, <1>8 DEF SInv

LEMMA SInvNext == SInv /\ [Next]_vars => SInv'
  <1> SUFFICES ASSUME SInv, [Next]_vars PROVE SInv'
    OBVIOUS
  <1>1. CASE UNCHANGED vars
    <2>1. TInv'
      BY TInvNext DEF SInv
    <2> QED
      BY <1>1, <2>1
      DEF vars, screen, server, counted, SInv, Objects, SavedIsOld, RunMatches, ParentOf,
          SavedHasRow, IdsAreRows, ParentsAreIds, RowsAreKnown, DoneIsSaved, SnapsOnce
  <1>2. CASE Next
    <2>1. \/ WizardStep \/ Save \/ RowStored \/ RowAnswered \/ PhotoUploaded
          \/ RowRefused \/ AnswerLost \/ PhotoFails
      BY <1>2 DEF Next, UserStep, ServerStep, WizardStep
    <2> QED
      BY <2>1, WizardKeepsSInv, SaveKeepsSInv, RowStoredKeepsSInv, RowAnsweredKeepsSInv,
         PhotoUploadedKeepsSInv, FailureKeepsSInv
  <1> QED BY <1>1, <1>2

LEMMA ParentsAgree == SInv => OneParent
  <1> SUFFICES ASSUME SInv, NEW q \in DOMAIN rows, rows[q].parent # 0
               PROVE  /\ rows[q].parent \in DOMAIN rows
                      /\ rows[rows[q].parent].step = wf.link[rows[q].step]
                      /\ \A r \in DOMAIN rows :
                           rows[r].step = rows[q].step /\ rows[r].parent # 0
                             => rows[r].parent = rows[q].parent
    BY DEF OneParent
  <1>1. wf.link[rows[q].step] \in Step /\ rows[q].parent = ids[wf.link[rows[q].step]]
    BY DEF SInv, ParentsAreIds
  <1>3. rows[q].parent \in DOMAIN rows /\ rows[rows[q].parent].step = wf.link[rows[q].step]
    BY <1>1 DEF SInv, IdsAreRows
  <1>4. \A r \in DOMAIN rows : rows[r].parent # 0 => rows[r].parent = ids[wf.link[rows[r].step]]
    BY DEF SInv, ParentsAreIds
  <1> QED BY <1>1, <1>3, <1>4

(* The rows of a linked step have one parent, a row of the step the        *)
(* workflow names, over any number of failures, edits and saves.           *)
THEOREM ParentsAreOne == Spec => []OneParent
  BY SInvInit, SInvNext, ParentsAgree, PTL DEF Spec

LEMMA DoneHasRows == SInv => SuccessMeansStored
  BY DEF SInv, SuccessMeansStored, DoneIsSaved, SavedHasRow

(* The success screen is never shown over a record without its row.        *)
THEOREM SuccessIsStored == Spec => []SuccessMeansStored
  BY SInvInit, SInvNext, DoneHasRows, PTL DEF Spec

Orphan == LET row == rows'[Len(rows')]
          IN  wf.link[row.step] \in 1..(row.step - 1) /\ row.parent = 0
                   => data[wf.link[row.step]] = << >>

LEMMA RowsGrow ==
  ASSUME SInv, [Next]_vars, Len(rows') > Len(rows)
  PROVE  RowStored
  <1>1. TypeOK
    BY DEF SInv, TInv
  <1>2. Len(rows) \in Nat /\ ~(Len(rows) > Len(rows))
    BY <1>1, RowFacts
  <1>3. rows' # rows /\ Len(rows') # Len(rows)
    BY <1>2
  <1>4. CASE UNCHANGED vars
    BY <1>3, <1>4 DEF vars, server
  <1>5. CASE WizardStep
    BY <1>3, <1>5, WizardChanges DEF SInv, server
  <1>6. CASE Save \/ RowRefused
    BY <1>3, <1>6 DEF Save, RowRefused, server
  <1>7. CASE RowAnswered \/ AnswerLost
    BY <1>3, <1>7 DEF RowAnswered, AnswerLost
  <1>8. CASE PhotoUploaded \/ PhotoFails
    BY <1>1, <1>3, <1>8, PhotoKept DEF PhotoUploaded, PhotoFails
  <1> QED
    BY <1>4, <1>5, <1>6, <1>7, <1>8 DEF Next, UserStep, ServerStep, WizardStep

LEMMA StoredIsLinked ==
  ASSUME SInv, RowStored
  PROVE  Orphan
  <1>1. TypeOK /\ run # Idle /\ run.phase = "sent"
    BY IdleFacts DEF SInv, TInv, RowStored
  <1>2. run \in Request /\ run.step \in Step
    BY <1>1, Running
  <1> DEFINE row == [step |-> run.step, snap |-> run.snap, parent |-> run.parent, photo |-> FALSE,
                 made |-> made]
  <1>3. rows' = Append(rows, row) /\ row \in Row
    BY <1>1, <1>2, RowKept DEF RowStored
  <1>4. rows'[Len(rows')] = row
    BY <1>1, <1>3, RowFacts, AppendFacts
  <1>5. ASSUME wf.link[run.step] \in 1..(run.step - 1), run.parent = 0, data[wf.link[run.step]] # << >>
        PROVE  FALSE
    <2>1. /\ wf.link[run.step] \in Step /\ wf.link[run.step] < run.step
          /\ run.parent = ids[wf.link[run.step]]
      BY <1>1, <1>2, <1>5, LinkFacts, StepFacts DEF SInv, RunMatches
    <2>2. 1 \in DOMAIN data[wf.link[run.step]]
      BY <1>1, <1>5, <2>1, BufferTypes, SeqFacts
    <2>3. data[wf.link[run.step]][1] \in saved
      BY <1>1, <2>1, <2>2 DEF SInv, RunMatches
    <2>4. ids[wf.link[run.step]] # 0
      BY <2>1, <2>2, <2>3 DEF SInv, SavedHasRow
    <2> QED BY <1>5, <2>1, <2>4
  <1> QED BY <1>4, <1>5 DEF Orphan

(* No row of a step linked to an earlier one is inserted without its       *)
(* parent while that step has records, whatever the other links are.       *)
THEOREM ChildrenAreLinked == Spec => NoOrphans
  <1>1. SInv /\ [Next]_vars => (Len(rows') > Len(rows) => Orphan)
    BY RowsGrow, StoredIsLinked
  <1>2. SInv /\ [Next]_vars =>
          [Len(rows') > Len(rows) =>
             LET row == rows'[Len(rows')]
             IN  wf.link[row.step] \in 1..(row.step - 1) /\ row.parent = 0
                   => data[wf.link[row.step]] = << >>]_vars
    BY <1>1 DEF Orphan
  <1> QED BY <1>2, SInvInit, SInvNext, PTL DEF Spec, NoOrphans

-----------------------------------------------------------------------------
(* A typed record is in one place: the form of a multiple-record step      *)
(* holds a record of the buffers only while it edits it, or while the      *)
(* procedure decides on the record just appended.                          *)
Entries ==
  \A i \in Step : \A j \in DOMAIN data[i] :
    data[i][j].entry <= typed /\ (i \in wf.multi => data[i][j].entry # 0)

FormHolds ==
  \A i \in Step : \A j \in DOMAIN data[i] :
    form.entry # 0 /\ data[i][j].entry = form.entry
      => i = at /\ (i \in wf.multi => j \in {form.editing, call.appended})

EInv == TInv /\ EachEntryOnce /\ Entries /\ form.entry <= typed /\ FormHolds

LEMMA EInvInit == Init => EInv
  <1> SUFFICES ASSUME Init PROVE EInv
    OBVIOUS
  <1>1. \A i \in Step : data[i] = << >> /\ DOMAIN data[i] = {}
    BY EmptyFacts DEF Init
  <1>2. form.entry = 0 /\ form.editing = 0 /\ typed = 0
    BY IdleFacts DEF Init
  <1> QED
    BY <1>1, <1>2, TInvInit
    DEF EInv, EachEntryOnce, Entries, FormHolds

LEMMA CountsFacts ==
  ASSUME TypeOK
  PROVE  typed \in Nat /\ form.entry \in Nat /\ form.editing \in Nat
  BY DEF TypeOK, Entry

LEMMA BufferEntries ==
  ASSUME EInv, at \in Step, NEW b \in Seq(Snap), Buffer(b), UNCHANGED <<wf, typed>>,
         \A j, l \in DOMAIN b : b[j].entry = b[l].entry /\ b[j].entry # 0 => j = l,
         \A j \in DOMAIN b :
           \/ \E l \in DOMAIN data[at] : b[j] = data[at][l]
           \/ b[j].entry = form.entry /\ (at \in wf.multi => form.entry # 0)
  PROVE  EachEntryOnce' /\ Entries'
  <1>1. TypeOK /\ typed \in Nat
    BY CountsFacts DEF EInv, TInv
  <1>2. /\ data'[at] = b
        /\ \A i \in Step : i # at => data'[i] = data[i]
    BY <1>1, BufferType
  <1>3. ASSUME NEW k \in Step, k # at, NEW j \in DOMAIN b, NEW l \in DOMAIN data[k],
               b[j].entry = data[k][l].entry, b[j].entry # 0
        PROVE  FALSE
    <2>1. CASE \E m \in DOMAIN data[at] : b[j] = data[at][m]
      BY <1>3, <2>1 DEF EInv, EachEntryOnce
    <2>2. CASE b[j].entry = form.entry
      BY <1>3, <2>2 DEF EInv, FormHolds
    <2> QED BY <2>1, <2>2
  <1>4. ASSUME NEW i \in Step, NEW k \in Step,
               NEW j \in DOMAIN data'[i], NEW l \in DOMAIN data'[k],
               data'[i][j].entry = data'[k][l].entry, data'[i][j].entry # 0
        PROVE  i = k /\ j = l
    <2>1. CASE i = at /\ k = at
      BY <1>2, <1>4, <2>1
    <2>2. CASE i = at /\ k # at
      BY <1>2, <1>3, <1>4, <2>2
    <2>3. CASE i # at /\ k = at
      BY <1>2, <1>3, <1>4, <2>3
    <2>4. CASE i # at /\ k # at
      BY <1>2, <1>4, <2>4 DEF EInv, EachEntryOnce
    <2> QED BY <2>1, <2>2, <2>3, <2>4
  <1>5. Entries'
    <2> SUFFICES ASSUME NEW i \in Step, NEW j \in DOMAIN data'[i]
                 PROVE  data'[i][j].entry <= typed /\ (i \in wf.multi => data'[i][j].entry # 0)
      BY DEF Entries
    <2>1. CASE i = at
      BY <1>2, <2>1 DEF EInv, Entries
    <2>2. CASE i # at
      BY <1>2, <2>2 DEF EInv, Entries
    <2> QED BY <2>1, <2>2
  <1> QED BY <1>4, <1>5 DEF EachEntryOnce

LEMMA ChangesKeepEntries ==
  ASSUME EInv, Changes, UNCHANGED <<wf, typed>>
  PROVE  EachEntryOnce' /\ Entries'
  <1>0. TypeOK
    BY DEF EInv, TInv
  <1>s. at \in Step =>
          /\ data[at] \in Seq(Snap) /\ Len(data[at]) \in Nat /\ DOMAIN data[at] = 1..Len(data[at])
          /\ \A j, l \in DOMAIN data[at] :
               data[at][j].entry = data[at][l].entry /\ data[at][j].entry # 0 => j = l
    BY <1>0, BufferTypes DEF EInv, EachEntryOnce
  <1>f. at \in wf.multi /\ at \in Step /\ call = NoCall /\ form.entry # 0 =>
          \A j \in DOMAIN data[at] : j # form.editing => data[at][j].entry # form.entry
    BY <1>0, <1>s, IdleFacts DEF EInv, FormHolds
  <1>1. CASE UNCHANGED <<data, made>>
    BY <1>1 DEF EInv, EachEntryOnce, Entries
  <1>2. ASSUME at \in Step, NEW j \in DOMAIN data[at], Splices(j) PROVE EachEntryOnce' /\ Entries'
    <2> DEFINE b == Splice(data[at], j)
    <2>1. /\ DOMAIN b = 1..(Len(data[at]) - 1) /\ b \in Seq(Snap)
          /\ \A k \in 1..(Len(data[at]) - 1) : b[k] = IF k < j THEN data[at][k] ELSE data[at][k + 1]
      BY <1>s, <1>2, SpliceFacts
    <2>2. Buffer(b)
      BY <1>2 DEF Splices
    <2> HIDE DEF b
    <2>3. \A k \in DOMAIN b : \E l \in DOMAIN data[at] : b[k] = data[at][l]
      <3> TAKE k \in DOMAIN b
      <3>1. k \in DOMAIN data[at] /\ k + 1 \in DOMAIN data[at]
        BY <1>s, <1>2, <2>1
      <3> QED BY <2>1, <3>1
    <2>4. \A k, l \in DOMAIN b : b[k].entry = b[l].entry /\ b[k].entry # 0 => k = l
      <3> SUFFICES ASSUME NEW k \in DOMAIN b, NEW l \in DOMAIN b,
                          b[k].entry = b[l].entry, b[k].entry # 0
                   PROVE  k = l
        OBVIOUS
      <3> DEFINE of(n) == IF n < j THEN n ELSE n + 1
      <3>1. of(k) \in DOMAIN data[at] /\ of(l) \in DOMAIN data[at]
        BY <1>s, <1>2, <2>1
      <3>2. b[k] = data[at][of(k)] /\ b[l] = data[at][of(l)]
        BY <2>1
      <3>3. of(k) = of(l)
        BY <1>s, <1>2, <3>1, <3>2
      <3> QED BY <1>s, <1>2, <2>1, <3>3
    <2> QED BY <1>2, <2>1, <2>2, <2>3, <2>4, BufferEntries
  <1>3. ASSUME at \in Step, NEW snap \in Snap, Sets(snap) PROVE EachEntryOnce' /\ Entries'
    <2>1. <<snap>> \in Seq(Snap) /\ DOMAIN <<snap>> = {1} /\ <<snap>>[1] = snap
      BY SingleFacts
    <2>2. Buffer(<<snap>>) /\ snap.entry = form.entry /\ at \notin wf.multi
      BY <1>3 DEF Sets, IsNew
    <2> QED BY <1>3, <2>1, <2>2, BufferEntries
  <1>4. ASSUME at \in Step, NEW snap \in Snap, Appends(snap) PROVE EachEntryOnce' /\ Entries'
    <2> DEFINE b == Append(data[at], snap)
    <2>1. /\ b \in Seq(Snap) /\ DOMAIN b = 1..(Len(data[at]) + 1)
          /\ \A k \in DOMAIN data[at] : b[k] = data[at][k]
          /\ b[Len(data[at]) + 1] = snap
      BY <1>s, <1>4, AppendFacts
    <2>2. /\ Buffer(b) /\ snap.entry = form.entry /\ form.entry # 0
          /\ \A k \in DOMAIN data[at] : data[at][k].entry # form.entry
      BY <1>f, <1>s, <1>4 DEF Appends, IsNew
    <2> HIDE DEF b
    <2>3. \A k \in DOMAIN b : (k \in DOMAIN data[at] /\ b[k] = data[at][k]) \/ (k = Len(data[at]) + 1 /\ b[k] = snap)
      BY <1>s, <1>4, <2>1
    <2>4. \A k, l \in DOMAIN b : b[k].entry = b[l].entry /\ b[k].entry # 0 => k = l
      BY <1>s, <1>4, <2>2, <2>3
    <2>5. \A k \in DOMAIN b : \/ \E l \in DOMAIN data[at] : b[k] = data[at][l]
                              \/ b[k].entry = form.entry
      BY <2>2, <2>3
    <2> QED BY <1>4, <2>1, <2>2, <2>4, <2>5, BufferEntries
  <1>5. ASSUME at \in Step, NEW snap \in Snap, Replaces(snap) PROVE EachEntryOnce' /\ Entries'
    <2> DEFINE b == [data[at] EXCEPT ![form.editing] = snap]
    <2>1. /\ b \in Seq(Snap) /\ DOMAIN b = DOMAIN data[at]
          /\ \A k \in DOMAIN data[at] : b[k] = IF k = form.editing THEN snap ELSE data[at][k]
      BY <1>s, <1>5, ExceptFacts
    <2>2. /\ Buffer(b) /\ snap.entry = form.entry /\ form.entry # 0
          /\ \A k \in DOMAIN data[at] : k # form.editing => data[at][k].entry # form.entry
      BY <1>f, <1>5 DEF Replaces, IsNew
    <2> HIDE DEF b
    <2>3. \A k, l \in DOMAIN b : b[k].entry = b[l].entry /\ b[k].entry # 0 => k = l
      BY <1>s, <1>5, <2>1, <2>2
    <2>4. \A k \in DOMAIN b : \/ \E l \in DOMAIN data[at] : b[k] = data[at][l]
                              \/ b[k].entry = form.entry
      BY <2>1, <2>2
    <2> QED BY <1>5, <2>1, <2>2, <2>3, <2>4, BufferEntries
  <1> QED BY <1>1, <1>2, <1>3, <1>4, <1>5 DEF Changes

(* A form just shown holds at most the record of its own step.             *)
LEMMA ShownHolds ==
  ASSUME TypeOK', EachEntryOnce', Entries', NEW i, at' = i, ShowForm(i), wf' = wf
  PROVE  form'.entry <= typed' /\ FormHolds'
  <1>1. /\ form'.editing = 0
        /\ form'.entry # 0 => /\ i \in Step \ wf.multi /\ 1 \in DOMAIN data'[i]
                              /\ form'.entry = data'[i][1].entry
    BY ShowFormType DEF TypeOK
  <1>2. typed' \in Nat /\ form'.entry \in Nat
    BY DEF TypeOK, Entry
  <1> QED BY <1>1, <1>2 DEF EachEntryOnce, Entries, FormHolds

LEMMA BlankHolds ==
  ASSUME TypeOK', form' = Blank
  PROVE  form'.entry <= typed' /\ FormHolds'
  <1>1. form'.entry = 0 /\ form'.editing = 0 /\ typed' \in Nat
    BY IdleFacts DEF TypeOK, Entry
  <1> QED BY <1>1 DEF FormHolds

LEMMA FillKeepsEInv == ASSUME EInv, Fill PROVE EInv'
  <1>1. TypeOK /\ TInv' /\ at \in Step /\ call = NoCall
    BY TInvNext DEF EInv, TInv, Next, UserStep, Fill, OnStep, Free
  <1>2. /\ typed' = typed + 1 /\ form'.entry = typed + 1 /\ form'.editing = form.editing
        /\ UNCHANGED <<wf, at, data, call>> /\ form.entry = 0 /\ typed \in Nat
    BY <1>1, CountsFacts DEF Fill, TypeOK
  <1>3. \A i \in Step : \A j \in DOMAIN data[i] :
          data[i][j].entry \in Nat /\ data[i][j].entry <= typed
    BY <1>1, BufferTypes DEF EInv, Entries
  <1>4. Entries' /\ FormHolds'
    BY <1>2, <1>3 DEF EInv, Entries, FormHolds
  <1>6. EachEntryOnce'
    BY <1>2 DEF EInv, EachEntryOnce
  <1> QED BY <1>1, <1>2, <1>4, <1>6 DEF EInv

LEMMA ClearKeepsEInv == ASSUME EInv, Clear PROVE EInv'
  <1>1. /\ TypeOK /\ TInv' /\ at \in Step
        /\ UNCHANGED <<wf, at, data, call, typed>>
    BY TInvNext DEF EInv, TInv, Next, UserStep, Clear, OnStep, counted
  <1>2. form'.entry = 0 /\ form'.editing = form.editing /\ typed \in Nat
    BY <1>1, CountsFacts DEF Clear, TypeOK
  <1> QED BY <1>1, <1>2 DEF EInv, EachEntryOnce, Entries, FormHolds

LEMMA EnterEditModeKeepsEInv == ASSUME EInv, EnterEditMode PROVE EInv'
  <1>1. /\ TypeOK /\ TInv' /\ at \in Step /\ at \in wf.multi
        /\ UNCHANGED <<wf, at, data, call, typed>>
    BY TInvNext DEF EInv, TInv, Next, UserStep, EnterEditMode, OnStep, Multi, counted
  <1>2. PICK j \in DOMAIN data[at] : form' = [entry |-> data[at][j].entry, editing |-> j]
    BY DEF EnterEditMode
  <1>3. form'.entry = data[at][j].entry /\ form'.editing = j
    BY <1>2
  <1> QED
    BY <1>1, <1>2, <1>3 DEF EInv, EachEntryOnce, Entries, FormHolds

LEMMA RemoveRecordKeepsEInv == ASSUME EInv, RemoveRecord PROVE EInv'
  <1>1. /\ TypeOK /\ TInv' /\ TypeOK' /\ at \in Step /\ at \in wf.multi /\ call = NoCall
        /\ UNCHANGED <<wf, at, call, typed>>
    BY TInvNext DEF EInv, TInv, Next, UserStep, RemoveRecord, OnStep, Free, Multi, counted
  <1>2. EachEntryOnce' /\ Entries'
    BY <1>1, WizardChanges, ChangesKeepEntries DEF EInv, WizardStep
  <1>3. CASE form.editing # 0
    BY <1>1, <1>2, <1>3, BlankHolds DEF EInv, RemoveRecord, ExitEditMode
  <1>4. CASE form.editing = 0
    <2>1. form' = form
      BY <1>4 DEF RemoveRecord
    <2>2. PICK j \in DOMAIN data[at] : Buffer(Splice(data[at], j))
      BY DEF RemoveRecord
    <2>3. /\ data[at] \in Seq(Snap) /\ Len(data[at]) \in Nat /\ DOMAIN data[at] = 1..Len(data[at])
      BY <1>1, BufferTypes
    <2>4. /\ DOMAIN Splice(data[at], j) = 1..(Len(data[at]) - 1)
          /\ Splice(data[at], j) \in Seq(Snap)
          /\ \A k \in 1..(Len(data[at]) - 1) :
               Splice(data[at], j)[k] = IF k < j THEN data[at][k] ELSE data[at][k + 1]
      BY <2>2, <2>3, SpliceFacts
    <2>5. /\ data'[at] = Splice(data[at], j)
          /\ \A i \in Step : i # at => data'[i] = data[i]
      BY <1>1, <2>2, <2>4, BufferType
    <2>6. form.entry # 0 => \A k \in DOMAIN data[at] : data[at][k].entry # form.entry
      BY <1>1, <1>4, <2>3, IdleFacts DEF EInv, FormHolds
    <2>7. FormHolds'
      <3> SUFFICES ASSUME NEW i \in Step, NEW k \in DOMAIN data'[i],
                          form.entry # 0, data'[i][k].entry = form.entry
                   PROVE  FALSE
        BY <2>1 DEF FormHolds
      <3>1. CASE i = at
        <4>1. k \in DOMAIN data[at] /\ k + 1 \in DOMAIN data[at]
          BY <2>3, <2>4, <2>5, <3>1
        <4> QED BY <2>4, <2>5, <2>6, <3>1, <4>1
      <3>2. CASE i # at
        BY <2>5, <3>2 DEF EInv, FormHolds
      <3> QED BY <3>1, <3>2
    <2> QED BY <1>1, <1>2, <1>4, <2>1, <2>7 DEF EInv
  <1> QED BY <1>3, <1>4

(* The procedure is called with the form still on the screen.              *)
LEMMA CallKeepsForm ==
  ASSUME EInv, at \in Step, call = NoCall, UNCHANGED <<wf, at, form, typed>>,
         NEW b \in Seq(Snap), Buffer(b), TypeOK',
         \/ b = data[at] /\ call'.appended = 0
         \/ at \notin wf.multi
         \/ /\ form.editing = 0 /\ call'.appended = Len(data[at]) + 1
            /\ \E snap \in Snap : b = Append(data[at], snap)
         \/ /\ form.editing # 0
            /\ \E snap \in Snap : snap.entry = form.entry /\ b = [data[at] EXCEPT ![form.editing] = snap]
  PROVE  form'.entry <= typed' /\ FormHolds'
  <1>1. TypeOK /\ form'.entry <= typed'
    BY DEF EInv, TInv
  <1>2. /\ data'[at] = b
        /\ \A i \in Step : i # at => data'[i] = data[i]
    BY <1>1, BufferType
  <1>3. /\ data[at] \in Seq(Snap) /\ Len(data[at]) \in Nat /\ DOMAIN data[at] = 1..Len(data[at])
    BY <1>1, BufferTypes
  <1>4. \A j \in DOMAIN data[at] :
          at \in wf.multi /\ form.entry # 0 /\ data[at][j].entry = form.entry => j = form.editing
    BY <1>3, IdleFacts DEF EInv, FormHolds
  <1>5. ASSUME NEW i \in Step, i # at, NEW j \in DOMAIN data'[i], form.entry # 0
        PROVE  data'[i][j].entry # form.entry
    BY <1>2, <1>5 DEF EInv, FormHolds
  <1>6. CASE b = data[at] /\ call'.appended = 0
    BY <1>1, <1>2, <1>4, <1>5, <1>6 DEF EInv, FormHolds
  <1>7. CASE at \notin wf.multi
    BY <1>1, <1>2, <1>5, <1>7 DEF FormHolds
  <1>8. ASSUME form.editing = 0, call'.appended = Len(data[at]) + 1,
               NEW snap \in Snap, b = Append(data[at], snap)
        PROVE  FormHolds'
    <2>1. /\ DOMAIN b = 1..(Len(data[at]) + 1)
          /\ \A k \in DOMAIN data[at] : b[k] = data[at][k]
      BY <1>3, <1>8, AppendFacts
    <2>2. \A k \in DOMAIN b : k \in DOMAIN data[at] \/ k = Len(data[at]) + 1
      BY <1>3, <2>1
    <2> QED BY <1>2, <1>4, <1>5, <1>8, <2>1, <2>2 DEF FormHolds
  <1>9. ASSUME form.editing # 0, NEW snap \in Snap, snap.entry = form.entry,
               b = [data[at] EXCEPT ![form.editing] = snap]
        PROVE  FormHolds'
    <2>1. /\ DOMAIN b = DOMAIN data[at]
          /\ \A k \in DOMAIN data[at] : b[k] = IF k = form.editing THEN snap ELSE data[at][k]
      BY <1>3, <1>9, ExceptFacts
    <2> QED BY <1>2, <1>4, <1>5, <1>9, <2>1 DEF EInv, FormHolds
  <1> QED BY <1>1, <1>6, <1>7, <1>8, <1>9

LEMMA SubmitsKeepEInv ==
  ASSUME EInv, SubmitSingle \/ SubmitNewRecord \/ SubmitEdited \/ SubmitWithoutForm
  PROVE  EInv'
  <1>1. /\ TypeOK /\ TInv' /\ TypeOK' /\ at \in Step /\ call = NoCall /\ UNCHANGED <<wf, typed>>
    BY TInvNext
    DEF EInv, TInv, Next, UserStep, SubmitSingle, SubmitNewRecord, SubmitEdited,
        SubmitWithoutForm, Submit, OnStep, Free
  <1>2. EachEntryOnce' /\ Entries'
    BY <1>1, WizardChanges, ChangesKeepEntries DEF EInv, WizardStep
  <1>3. data[at] \in Seq(Snap)
    BY <1>1 DEF TypeOK
  <1>4. \A snap \in Snap : SnapshotWithImages(snap) => snap.entry = form.entry
    BY <1>1, SnapFacts
  <1>5. PICK b \in Seq(Snap), n \in Nat :
          /\ Submit(b, n)
          /\ \/ b = data[at] /\ n = 0
             \/ at \notin wf.multi
             \/ /\ form.editing = 0 /\ n = Len(data[at]) + 1
                /\ \E snap \in Snap : b = Append(data[at], snap)
             \/ /\ form.editing # 0
                /\ \E snap \in Snap : snap.entry = form.entry /\ b = [data[at] EXCEPT ![form.editing] = snap]
    <2>1. 0 \in Nat /\ Len(data[at]) + 1 \in Nat
      BY <1>3, SeqFacts
    <2>2. CASE SubmitSingle
      BY <2>1, <2>2, SingleFacts DEF SubmitSingle, Multi
    <2>3. CASE SubmitNewRecord
      BY <1>3, <2>1, <2>3, AppendFacts DEF SubmitNewRecord
    <2>4. CASE SubmitEdited
      BY <1>3, <1>4, <2>1, <2>4, ExceptFacts DEF SubmitEdited
    <2>5. CASE SubmitWithoutForm
      BY <1>3, <2>1, <2>5 DEF SubmitWithoutForm
    <2> QED BY <2>2, <2>3, <2>4, <2>5
  <1>6. CASE RunsProcedure
    <2>1. Buffer(b) /\ call'.appended = n /\ UNCHANGED <<at, form>>
      BY <1>5, <1>6 DEF Submit, screen
    <2> QED BY <1>1, <1>2, <1>5, <2>1, CallKeepsForm DEF EInv
  <1>7. CASE ~RunsProcedure
    <2>1. ShowForm(at')
      BY <1>5, <1>7 DEF Submit, Advance, GoToStep
    <2> QED BY <1>1, <1>2, <2>1, ShownHolds DEF EInv
  <1> QED BY <1>6, <1>7

LEMMA ShowsKeepEInv ==
  ASSUME EInv, Back \/ (\E i \in Step : EditStep(i)) \/ BackFromReview \/ ProcedureSucceeds
  PROVE  EInv'
  <1>1. /\ TypeOK /\ TInv' /\ TypeOK' /\ UNCHANGED <<wf, typed>>
    BY TInvNext
    DEF EInv, TInv, Next, UserStep, ServerStep, Back, EditStep, BackFromReview,
        ProcedureSucceeds, counted
  <1>2. EachEntryOnce' /\ Entries'
    BY <1>1, WizardChanges, ChangesKeepEntries DEF EInv, WizardStep
  <1>3. ShowForm(at')
    BY DEF Back, EditStep, BackFromReview, ProcedureSucceeds, Advance, GoToStep
  <1> QED BY <1>1, <1>2, <1>3, ShownHolds DEF EInv

LEMMA BlanksKeepEInv == ASSUME EInv, AddRecord \/ CancelEdit PROVE EInv'
  <1>1. /\ TypeOK /\ TInv' /\ TypeOK' /\ UNCHANGED <<wf, typed>> /\ form' = Blank
    BY TInvNext
    DEF EInv, TInv, Next, UserStep, AddRecord, CancelEdit, ExitEditMode, counted
  <1>2. EachEntryOnce' /\ Entries'
    BY <1>1, WizardChanges, ChangesKeepEntries DEF EInv, WizardStep
  <1> QED BY <1>1, <1>2, BlankHolds DEF EInv

LEMMA ProcedureFailsKeepsEInv == ASSUME EInv, ProcedureFails PROVE EInv'
  <1>1. /\ TypeOK /\ TInv' /\ TypeOK' /\ UNCHANGED <<wf, at, form, typed>> /\ call' = NoCall
        /\ call # NoCall
    BY TInvNext, IdleFacts
    DEF EInv, TInv, Next, ServerStep, ProcedureFails, Stay, screen, counted
  <1>2. at \in Step
    BY <1>1, WorkflowRunAssumption DEF EInv, TInv, Wiring, TypeOK, Workflow
  <1>3. EachEntryOnce' /\ Entries'
    BY <1>1, WizardChanges, ChangesKeepEntries DEF EInv, WizardStep
  <1>4. CASE call.appended = 0
    <2>1. data' = data
      BY <1>4 DEF ProcedureFails, RollBack
    <2> QED BY <1>1, <1>3, <1>4, <2>1, IdleFacts DEF EInv, FormHolds
  <1>5. CASE call.appended # 0
    <2>1. at \in wf.multi /\ form.editing = 0 /\ call.appended = Len(data[at])
      BY <1>5 DEF EInv, TInv, Wiring
    <2>2. /\ data[at] \in Seq(Snap) /\ Len(data[at]) \in Nat /\ DOMAIN data[at] = 1..Len(data[at])
          /\ Len(data[at]) \in DOMAIN data[at]
      BY <1>1, <1>2, <1>5, <2>1, BufferTypes
    <2> DEFINE b == Splice(data[at], Len(data[at]))
    <2>3. /\ DOMAIN b = 1..(Len(data[at]) - 1) /\ b \in Seq(Snap)
          /\ \A k \in 1..(Len(data[at]) - 1) :
               b[k] = IF k < Len(data[at]) THEN data[at][k] ELSE data[at][k + 1]
      BY <2>2, SpliceFacts
    <2>4. Buffer(b)
      BY <1>5, <2>1 DEF ProcedureFails, RollBack
    <2> HIDE DEF b
    <2>5. /\ data'[at] = b
          /\ \A i \in Step : i # at => data'[i] = data[i]
      BY <1>1, <1>2, <2>3, <2>4, BufferType
    <2>6. \A k \in DOMAIN b : k \in DOMAIN data[at] /\ k # call.appended /\ k # 0 /\ b[k] = data[at][k]
      BY <2>1, <2>2, <2>3
    <2>7. FormHolds'
      <3> SUFFICES ASSUME NEW i \in Step, NEW k \in DOMAIN data'[i],
                          form.entry # 0, data'[i][k].entry = form.entry
                   PROVE  FALSE
        BY <1>1 DEF FormHolds
      <3>1. CASE i = at
        BY <1>2, <2>1, <2>5, <2>6, <3>1 DEF EInv, FormHolds
      <3>2. CASE i # at
        BY <2>5, <3>2 DEF EInv, FormHolds
      <3> QED BY <3>1, <3>2
    <2> QED BY <1>1, <1>3, <2>1, <2>7 DEF EInv
  <1> QED BY <1>4, <1>5

(* saveAll leaves the buffers alone.                                       *)
SaveStep ==
  Save \/ RowStored \/ RowRefused \/ RowAnswered \/ AnswerLost \/ PhotoUploaded \/ PhotoFails

LEMMA SaveStepFacts ==
  ASSUME TInv, SaveStep
  PROVE  /\ UNCHANGED <<wf, data, call, typed, returns, verdict>> /\ at = Review
         /\ UNCHANGED screen \/ (at' = Done /\ form' = Blank)
  <1>1. TypeOK /\ Wiring /\ at = Review
    BY IdleFacts
    DEF TInv, Wiring, SaveStep, Save, OnReview, RowStored, RowRefused, RowAnswered, AnswerLost,
        PhotoUploaded, PhotoFails
  <1>2. UNCHANGED <<wf, data, call, typed, verdict>>
    BY DEF SaveStep, Save, RowStored, RowRefused, RowAnswered, AnswerLost, PhotoUploaded,
           PhotoFails, counted
  <1>3. \A done, known : Proceed(done, known) =>
          returns' = returns /\ (UNCHANGED screen \/ (at' = Done /\ form' = Blank))
    BY DEF Proceed, screen
  <1>4. UNCHANGED screen => returns' = returns
    BY DEF screen
  <1> QED
    BY <1>1, <1>2, <1>3, <1>4
    DEF SaveStep, Save, RowStored, RowRefused, GiveUp, RowAnswered, AnswerLost, PhotoUploaded,
        PhotoFails

LEMMA SaveStepKeepsEInv == ASSUME EInv, SaveStep PROVE EInv'
  <1>1. TInv' /\ TypeOK' /\ TInv
    BY TInvNext DEF EInv, TInv, Next, UserStep, ServerStep, SaveStep
  <1>2. /\ UNCHANGED <<wf, data, call, typed>>
        /\ UNCHANGED screen \/ (at' = Done /\ form' = Blank)
    BY <1>1, SaveStepFacts
  <1>3. EachEntryOnce' /\ Entries'
    BY <1>2 DEF EInv, EachEntryOnce, Entries
  <1>4. CASE UNCHANGED screen
    BY <1>1, <1>2, <1>3, <1>4 DEF screen, EInv, FormHolds
  <1>5. CASE form' = Blank
    BY <1>1, <1>3, <1>5, BlankHolds DEF EInv
  <1> QED BY <1>2, <1>4, <1>5

LEMMA EInvNext == EInv /\ [Next]_vars => EInv'
  <1> SUFFICES ASSUME EInv, [Next]_vars PROVE EInv'
    OBVIOUS
  <1>1. CASE UNCHANGED vars
    <2>1. TInv'
      BY TInvNext DEF EInv
    <2> QED
      BY <1>1, <2>1
      DEF vars, screen, counted, EInv, EachEntryOnce, Entries, FormHolds
  <1>2. CASE Next
    <2>1. \/ Fill \/ Clear \/ EnterEditMode \/ RemoveRecord
          \/ SubmitSingle \/ SubmitNewRecord \/ SubmitEdited \/ SubmitWithoutForm
          \/ Back \/ (\E i \in Step : EditStep(i)) \/ BackFromReview \/ ProcedureSucceeds
          \/ AddRecord \/ CancelEdit \/ ProcedureFails \/ SaveStep
      BY <1>2 DEF Next, UserStep, ServerStep, SaveStep
    <2> QED
      BY <2>1, FillKeepsEInv, ClearKeepsEInv, EnterEditModeKeepsEInv, RemoveRecordKeepsEInv, SubmitsKeepEInv,
         ShowsKeepEInv, BlanksKeepEInv, ProcedureFailsKeepsEInv, SaveStepKeepsEInv
  <1> QED BY <1>1, <1>2

(* Nothing the user does on the way, and no refused procedure tried again, *)
(* buffers a typed record twice.                                           *)
THEOREM EntriesOnce == Spec => []EachEntryOnce
  <1>1. EInv => EachEntryOnce
    BY DEF EInv
  <1> QED BY <1>1, EInvInit, EInvNext, PTL DEF Spec

-----------------------------------------------------------------------------
(* Which records are inserted twice.  A buffered record that has a row is  *)
(* the very object that was inserted, or its form was read after the       *)
(* insertion.                                                              *)
Fresh ==
  \A q \in DOMAIN rows :
    /\ rows[q].made <= made
    /\ \A i \in Step : \A j \in DOMAIN data[i] :
         rows[q].snap.entry # 0 /\ data[i][j].entry = rows[q].snap.entry
           => data[i][j] = rows[q].snap \/ data[i][j].object > rows[q].made

RInv == SInv /\ EInv /\ Fresh /\ StoredOnce

LEMMA RInvInit == Init => RInv
  <1>1. Init => DOMAIN rows = {}
    BY EmptyFacts DEF Init
  <1> QED BY <1>1, SInvInit, EInvInit DEF RInv, Fresh, StoredOnce

(* What the rows say of the records is settled when they are inserted.     *)
SameRows ==
  /\ DOMAIN rows' = DOMAIN rows /\ lost \subseteq lost'
  /\ \A q \in DOMAIN rows : rows'[q].snap = rows[q].snap /\ rows'[q].made = rows[q].made

LEMMA SameRowsKeepRInv ==
  ASSUME RInv, SInv', EInv', SameRows, Kept
  PROVE  RInv'
  <1>1. TypeOK /\ made \in Nat /\ made' \in Nat
    BY WorkflowRunAssumption DEF RInv, SInv, TInv, TypeOK
  <1>2. \A q \in DOMAIN rows : rows[q].made \in Nat /\ rows[q].made <= made
    BY <1>1, RowFacts DEF RInv, Fresh
  <1>3. Fresh'
    <2> SUFFICES ASSUME NEW q \in DOMAIN rows
                 PROVE  /\ rows[q].made <= made'
                        /\ \A i \in Step : \A j \in DOMAIN data'[i] :
                             rows[q].snap.entry # 0 /\ data'[i][j].entry = rows[q].snap.entry
                               => \/ data'[i][j] = rows[q].snap
                                  \/ data'[i][j].object > rows[q].made
      BY DEF Fresh, SameRows
    <2>1. rows[q].made <= made'
      BY <1>1, <1>2 DEF Kept
    <2>2. ASSUME NEW i \in Step, NEW j \in DOMAIN data'[i],
                 rows[q].snap.entry # 0, data'[i][j].entry = rows[q].snap.entry
          PROVE  data'[i][j] = rows[q].snap \/ data'[i][j].object > rows[q].made
      <3>1. CASE \E l \in DOMAIN data[i] : data'[i][j] = data[i][l]
        BY <2>2, <3>1 DEF RInv, Fresh
      <3>2. CASE data'[i][j].object = made + 1
        BY <1>1, <1>2, <3>2
      <3> QED BY <2>2, <3>1, <3>2 DEF Kept
    <2> QED BY <2>1, <2>2
  <1>4. StoredOnce'
    BY DEF RInv, StoredOnce, SameRows
  <1> QED BY <1>3, <1>4 DEF RInv

LEMMA RowStoredKeepsRInv == ASSUME RInv, RowStored, SInv', EInv' PROVE RInv'
  <1>1. /\ TypeOK /\ SInv /\ run # Idle /\ UNCHANGED <<data, made, lost>>
    BY IdleFacts DEF RInv, SInv, TInv, RowStored, counted
  <1>2. run \in Request /\ run.step \in Step /\ run.snap \in Snap
    BY <1>1, Running
  <1>3. PICK k \in DOMAIN data[run.step] : run.snap = data[run.step][k]
    BY <1>1, Running
  <1> DEFINE row == [step |-> run.step, snap |-> run.snap, parent |-> run.parent, photo |-> FALSE,
                     made |-> made]
             n == Len(rows) + 1
  <1>4. rows' = Append(rows, row) /\ row \in Row
    BY <1>1, <1>2, RowKept DEF RowStored
  <1>5. /\ Len(rows) \in Nat /\ DOMAIN rows = 1..Len(rows) /\ DOMAIN rows' = 1..n
        /\ \A q \in DOMAIN rows : rows'[q] = rows[q]
        /\ rows'[n] = row
    BY <1>1, <1>4, RowFacts, AppendFacts
  <1>6. row.snap = run.snap /\ row.made = made
    OBVIOUS
  <1>7. made \in Nat
    BY <1>1, WorkflowRunAssumption DEF TypeOK
  <1> HIDE DEF row
  <1>8. \A q \in DOMAIN rows' : q \in DOMAIN rows \/ q = n
    BY <1>5
  <1>9. \A i \in Step : \A j \in DOMAIN data[i] :
          run.snap.entry # 0 /\ data[i][j].entry = run.snap.entry => data[i][j] = run.snap
    BY <1>2, <1>3 DEF RInv, EInv, EachEntryOnce
  <1>10. Fresh'
    <2> SUFFICES ASSUME NEW q \in DOMAIN rows'
                 PROVE  /\ rows'[q].made <= made
                        /\ \A i \in Step : \A j \in DOMAIN data[i] :
                             rows'[q].snap.entry # 0 /\ data[i][j].entry = rows'[q].snap.entry
                               => \/ data[i][j] = rows'[q].snap
                                  \/ data[i][j].object > rows'[q].made
      BY <1>1 DEF Fresh
    <2>1. CASE q \in DOMAIN rows
      BY <1>5, <2>1 DEF RInv, Fresh
    <2>2. CASE q = n
      BY <1>5, <1>6, <1>7, <1>9, <2>2
    <2> QED BY <1>8, <2>1, <2>2
  <1>11. StoredOnce'
    <2> SUFFICES ASSUME NEW q \in DOMAIN rows', NEW r \in DOMAIN rows', q < r
                 PROVE  /\ rows'[q].snap = rows'[r].snap => rows'[q].snap \in lost'
                        /\ /\ rows'[q].snap # rows'[r].snap
                           /\ rows'[q].snap.entry = rows'[r].snap.entry
                           /\ rows'[q].snap.entry # 0
                           => rows'[r].snap.object > rows'[q].made
      BY DEF StoredOnce
    <2>1. q \in DOMAIN rows
      BY <1>5
    <2>2. rows'[q].snap = rows'[r].snap => rows'[q].snap \in lost'
      <3>1. q # r
        BY <1>5
      <3> QED BY <3>1 DEF SInv, SnapsOnce
    <2>3. ASSUME rows'[q].snap # rows'[r].snap, rows'[q].snap.entry = rows'[r].snap.entry,
                 rows'[q].snap.entry # 0
          PROVE  rows'[r].snap.object > rows'[q].made
      <3>1. CASE r \in DOMAIN rows
        BY <1>5, <2>1, <2>3, <3>1 DEF RInv, StoredOnce
      <3>2. CASE r = n
        <4>1. rows'[r].snap = data[run.step][k] /\ rows'[q] = rows[q]
          BY <1>3, <1>5, <1>6, <2>1, <3>2
        <4> QED BY <1>2, <2>1, <2>3, <4>1 DEF RInv, Fresh
      <3> QED BY <1>8, <3>1, <3>2
    <2> QED BY <2>2, <2>3
  <1> QED BY <1>10, <1>11 DEF RInv

LEMMA RInvNext == RInv /\ [Next]_vars => RInv'
  <1> SUFFICES ASSUME RInv, [Next]_vars PROVE RInv'
    OBVIOUS
  <1>1. SInv /\ SInv' /\ EInv' /\ TypeOK /\ Objects
    BY SInvNext, EInvNext DEF RInv, SInv, TInv
  <1>2. UNCHANGED <<data, made>> => Kept
    BY <1>1, WorkflowRunAssumption DEF Kept, TypeOK
  <1>3. CASE UNCHANGED vars
    <2>1. SameRows /\ UNCHANGED <<data, made>>
      BY <1>3 DEF vars, server, counted, SameRows
    <2> QED BY <1>1, <1>2, <2>1, SameRowsKeepRInv
  <1>4. CASE WizardStep
    <2>1. Changes /\ UNCHANGED server
      BY <1>1, <1>4, WizardChanges DEF SInv
    <2>2. SameRows
      BY <2>1 DEF server, SameRows
    <2> QED BY <1>1, <2>1, <2>2, ChangesKeep, SameRowsKeepRInv
  <1>5. CASE Save \/ RowRefused \/ RowAnswered \/ AnswerLost
    <2>1. UNCHANGED <<data, made, rows>> /\ lost \subseteq lost'
      BY <1>5 DEF Save, RowRefused, RowAnswered, AnswerLost, server, counted
    <2>2. SameRows
      BY <2>1 DEF SameRows
    <2> QED BY <1>1, <1>2, <2>1, <2>2, SameRowsKeepRInv
  <1>6. CASE PhotoUploaded \/ PhotoFails
    <2>1. UNCHANGED <<data, made, lost>>
      BY <1>6 DEF PhotoUploaded, PhotoFails, counted
    <2>2. SameRows
      BY <1>1, <1>6, <2>1, PhotoKept DEF PhotoUploaded, PhotoFails, SameRows
    <2> QED BY <1>1, <1>2, <2>1, <2>2, SameRowsKeepRInv
  <1>7. CASE RowStored
    BY <1>1, <1>7, RowStoredKeepsRInv
  <1> QED
    BY <1>3, <1>4, <1>5, <1>6, <1>7 DEF Next, UserStep, ServerStep, WizardStep

(* Save pressed again, as often as the user likes, inserts a record a      *)
(* second time only if the answer to its first insertion was lost, or if   *)
(* its form was read again after it.                                       *)
THEOREM NoSecondInsert == Spec => []StoredOnce
  <1>1. RInv => StoredOnce
    BY DEF RInv
  <1> QED BY <1>1, RInvInit, RInvNext, PTL DEF Spec

-----------------------------------------------------------------------------
(* What lies behind the step on the screen is filled in and has passed its *)
(* gate, or was changed from the review; once the review was reached, that *)
(* goes for all steps.                                                     *)
Filled(d, i) == i \notin wf.multi => d[i] # << >> /\ d[i][1].entry # 0

Fit(d, v, i) ==
  /\ i \notin wf.multi => d[i] # << >> /\ (d[i][1].entry # 0 \/ v[i] = "skipped")
  /\ i \in wf.gated => v[i] # "none"

Behind == \A i \in Step : i < at \/ returns => Fit(data, verdict, i)

CalledFilled == call # NoCall => Filled(data, at)

PInv == TInv /\ Behind /\ CalledFilled

LEMMA PInvInit == Init => PInv
  BY TInvInit, StepFacts DEF Init, PInv, Behind, CalledFilled

LEMMA FitNext ==
  ASSUME UNCHANGED wf
  PROVE  \A i : Fit(data', verdict', i) <=> Fit(data, verdict, i)'
  BY DEF Fit

LEMMA FilledNext ==
  ASSUME UNCHANGED wf
  PROVE  \A i : Filled(data', i) <=> Filled(data, i)'
  BY DEF Filled

(* The other steps stay as they are; a step changed from the review is     *)
(* fit, as nothing is asked of it.                                         *)
LEMMA FitKept ==
  ASSUME TypeOK, at \in Step, NEW b, Buffer(b) \/ data' = data, Reconsider, UNCHANGED wf
  PROVE  /\ \A i \in Step : i # at /\ Fit(data, verdict, i) => Fit(data', verdict', i)
         /\ returns /\ Fit(data, verdict, at) /\ (at \in wf.multi \/ data'[at] # << >>)
              => Fit(data', verdict', at)
  <1>1. /\ \A i \in Step : i # at => data'[i] = data[i] /\ verdict'[i] = verdict[i]
        /\ data' = data => verdict' = verdict
        /\ data' # data => verdict'[at] = IF returns THEN "skipped" ELSE "none"
    BY ReconsiderFacts
  <1>2. CASE data' = data
    BY <1>1, <1>2 DEF Fit
  <1>3. CASE data' # data
    BY <1>1, <1>3 DEF Fit
  <1> QED BY <1>2, <1>3

LEMMA SetFills ==
  ASSUME TypeOK, at \in Step, NEW snap \in Snap, SnapshotWithImages(snap), Buffer(<<snap>>)
  PROVE  data'[at] # << >> /\ (form.entry # 0 => Filled(data', at))
  <1>1. <<snap>> \in Seq(Snap) /\ <<snap>> # << >> /\ <<snap>>[1] = snap
    BY SingleFacts
  <1>2. snap.entry = form.entry
    BY SnapFacts
  <1>3. data'[at] = <<snap>>
    BY <1>1, BufferType
  <1> QED BY <1>1, <1>2, <1>3 DEF Filled

(* The form is filled or emptied, or the list of records changed.          *)
LEMMA FormKeepsPInv ==
  ASSUME PInv, Fill \/ Clear \/ AddRecord \/ EnterEditMode \/ CancelEdit \/ RemoveRecord
  PROVE  PInv'
  <1>1. /\ TypeOK /\ TInv' /\ UNCHANGED <<wf, at, returns, call>> /\ call = NoCall /\ at \in Step
    BY TInvNext
    DEF PInv, TInv, Next, UserStep, Fill, Clear, AddRecord, EnterEditMode, CancelEdit,
        RemoveRecord, OnStep, Free
  <1>2. CASE Fill \/ Clear \/ EnterEditMode \/ CancelEdit
    <2>1. UNCHANGED <<data, verdict>>
      BY <1>2 DEF Fill, Clear, EnterEditMode, CancelEdit
    <2> QED BY <1>1, <2>1, FitNext, FilledNext DEF PInv, Behind, CalledFilled
  <1>3. CASE AddRecord \/ RemoveRecord
    <2>1. at \in wf.multi /\ Reconsider /\ \E b : Buffer(b)
      BY <1>3 DEF AddRecord, RemoveRecord, Multi
    <2>2. \A i \in Step : i < at \/ returns => Fit(data', verdict', i)
      <3> SUFFICES ASSUME NEW i \in Step, i < at \/ returns PROVE Fit(data', verdict', i)
        OBVIOUS
      <3>1. Fit(data, verdict, i) /\ (i # at \/ returns)
        BY <1>1, StepFacts DEF PInv, Behind
      <3> QED BY <1>1, <2>1, <3>1, FitKept
    <2> QED BY <1>1, <2>2, FitNext, FilledNext DEF PInv, Behind, CalledFilled
  <1> QED BY <1>2, <1>3

LEMMA BackKeepsPInv == ASSUME PInv, Back PROVE PInv'
  <1>1. /\ TypeOK /\ TInv' /\ UNCHANGED <<wf, returns, call>> /\ call = NoCall /\ Reconsider
        /\ at \in Step /\ at > 1 /\ at' = at - 1
    BY TInvNext DEF PInv, TInv, Next, UserStep, Back, OnStep, Free, HasBack, GoToStep
  <1>2. (\E b : Buffer(b) \/ data' = data) /\ (at \in wf.multi \/ data'[at] # << >>)
    <2>1. CASE Multi
      BY <2>1 DEF Back, Multi
    <2>2. CASE ~Multi
      <3>1. PICK snap \in Snap : SnapshotWithImages(snap) /\ Buffer(<<snap>>)
        BY <2>2 DEF Back
      <3> QED BY <1>1, <3>1, SetFills
    <2> QED BY <2>1, <2>2
  <1>3. \A i \in Step : i < at' \/ returns => Fit(data', verdict', i)
    <2> SUFFICES ASSUME NEW i \in Step, i < at' \/ returns PROVE Fit(data', verdict', i)
      OBVIOUS
    <2>1. Fit(data, verdict, i) /\ (i # at \/ returns)
      BY <1>1, StepFacts DEF PInv, Behind
    <2> QED BY <1>1, <1>2, <2>1, FitKept
  <1> QED BY <1>1, <1>3, FitNext, FilledNext DEF PInv, Behind, CalledFilled

LEMMA SubmitsKeepPInv ==
  ASSUME PInv, SubmitSingle \/ SubmitNewRecord \/ SubmitEdited \/ SubmitWithoutForm
  PROVE  PInv'
  <1>1. /\ TypeOK /\ TInv' /\ at \in Step /\ call = NoCall /\ UNCHANGED wf
    BY TInvNext
    DEF PInv, TInv, Next, UserStep, SubmitSingle, SubmitNewRecord, SubmitEdited,
        SubmitWithoutForm, Submit, OnStep, Free
  <1>2. PICK b, n : Submit(b, n)
    BY DEF SubmitSingle, SubmitNewRecord, SubmitEdited, SubmitWithoutForm
  <1>3. Filled(data', at)
    <2>1. CASE SubmitSingle
      <3>1. PICK snap \in Snap : SnapshotWithImages(snap) /\ Submit(<<snap>>, 0) /\ form.entry # 0
        BY <2>1 DEF SubmitSingle
      <3> QED BY <1>1, <3>1, SetFills DEF Submit
    <2>2. CASE ~SubmitSingle
      BY <1>1, <2>2 DEF Filled, SubmitNewRecord, SubmitEdited, SubmitWithoutForm, Multi
    <2> QED BY <2>1, <2>2
  <1>4. Buffer(b) /\ Reconsider
    BY <1>2 DEF Submit
  <1>5. \A i \in Step : (i # at \/ returns) /\ Fit(data, verdict, i) => Fit(data', verdict', i)
    BY <1>1, <1>3, <1>4, FitKept DEF Filled
  <1>6. CASE RunsProcedure
    <2>1. UNCHANGED screen /\ ~returns
      BY <1>2, <1>6 DEF Submit, RunsProcedure
    <2>2. \A i \in Step : i < at => Fit(data', verdict', i)
      BY <1>1, <1>5, StepFacts DEF PInv, Behind
    <2> QED BY <1>1, <1>3, <2>1, <2>2, FitNext, FilledNext DEF PInv, Behind, CalledFilled, screen
  <1>7. CASE ~RunsProcedure
    <2>1. /\ at' = (IF returns THEN Review ELSE at + 1) /\ returns' = FALSE /\ call' = call
      BY <1>2, <1>7 DEF Submit, Advance, GoToStep
    <2>2. at \in wf.gated => returns
      BY <1>7 DEF RunsProcedure
    <2>3. \A i \in Step : i < at' => Fit(data', verdict', i)
      <3> SUFFICES ASSUME NEW i \in Step, i < at' PROVE Fit(data', verdict', i)
        OBVIOUS
      <3>1. CASE returns
        BY <1>5, <3>1 DEF PInv, Behind
      <3>2. CASE ~returns /\ i # at
        <4>1. i < at
          BY <1>1, <2>1, <3>2, StepFacts
        <4> QED BY <1>5, <3>2, <4>1 DEF PInv, Behind
      <3>3. CASE ~returns /\ i = at
        BY <1>3, <2>2, <3>3 DEF Fit, Filled
      <3> QED BY <3>1, <3>2, <3>3
    <2> QED BY <1>1, <2>1, <2>3, FitNext, FilledNext DEF PInv, Behind, CalledFilled
  <1> QED BY <1>6, <1>7

LEMMA ReviewKeepsPInv ==
  ASSUME PInv, (\E i \in Step : EditStep(i)) \/ BackFromReview
  PROVE  PInv'
  <1>1. /\ TypeOK /\ TInv' /\ at = Review /\ call = NoCall
        /\ UNCHANGED <<wf, data, call, verdict>>
    BY TInvNext DEF PInv, TInv, Next, UserStep, EditStep, BackFromReview, OnReview, Free
  <1>2. \A k \in Step : Fit(data', verdict', k)
    BY <1>1, StepFacts DEF PInv, Behind
  <1> QED BY <1>1, <1>2, FitNext, FilledNext DEF PInv, Behind, CalledFilled

LEMMA ProcedureKeepsPInv ==
  ASSUME PInv, ProcedureSucceeds \/ ProcedureFails
  PROVE  PInv'
  <1>1. /\ TypeOK /\ TInv' /\ call # NoCall /\ ~returns /\ UNCHANGED wf /\ call' = NoCall
        /\ Filled(data, at)
    BY TInvNext, IdleFacts
    DEF PInv, TInv, Wiring, CalledFilled, Next, ServerStep, ProcedureSucceeds, ProcedureFails
  <1>2. at \in Step
    BY <1>1, WorkflowRunAssumption DEF PInv, TInv, Wiring, TypeOK, Workflow
  <1>3. \A i \in Step : i < at => i # at /\ Fit(data, verdict, i)
    BY <1>2, StepFacts DEF PInv, Behind
  <1>4. CASE ProcedureSucceeds
    <2>1. /\ at' = at + 1 /\ returns' = FALSE /\ data' = data
          /\ verdict' = [verdict EXCEPT ![at] = "passed"]
      BY <1>1, <1>4 DEF ProcedureSucceeds, Advance, GoToStep
    <2>2. verdict'[at] = "passed" /\ \A i \in Step : i # at => verdict'[i] = verdict[i]
      BY <1>1, <1>2, <2>1, VerdictType DEF Verdict
    <2>3. \A i \in Step : i < at' => i < at \/ i = at
      BY <1>2, <2>1, StepFacts
    <2>4. \A i \in Step : i < at' => Fit(data', verdict', i)
      BY <1>1, <1>3, <2>1, <2>2, <2>3 DEF Fit, Filled
    <2> QED BY <1>1, <2>1, <2>4, FitNext, FilledNext DEF PInv, Behind, CalledFilled
  <1>5. CASE ProcedureFails
    <2>1. UNCHANGED <<at, returns, form>> /\ verdict' = [verdict EXCEPT ![at] = "none"]
      BY <1>5 DEF ProcedureFails, Stay, screen
    <2>2. \A i \in Step : i # at => verdict'[i] = verdict[i]
      BY <1>1, <2>1, VerdictType DEF Verdict
    <2>3. \A i \in Step : i # at => data'[i] = data[i]
      BY <1>1, <1>2, <1>5 DEF ProcedureFails, RollBack, Buffer, TypeOK
    <2>4. \A i \in Step : i < at => Fit(data', verdict', i)
      BY <1>1, <1>3, <2>2, <2>3 DEF Fit
    <2> QED BY <1>1, <2>1, <2>4, FitNext, FilledNext DEF PInv, Behind, CalledFilled
  <1> QED BY <1>4, <1>5

LEMMA SaveStepKeepsPInv == ASSUME PInv, SaveStep PROVE PInv'
  <1>1. TInv /\ TInv' /\ Wiring
    BY TInvNext DEF PInv, TInv, Next, UserStep, ServerStep, SaveStep
  <1>2. UNCHANGED <<wf, data, call, returns, verdict>> /\ at = Review
    BY <1>1, SaveStepFacts
  <1>3. \A i \in Step : Fit(data', verdict', i)
    BY <1>2, StepFacts DEF PInv, Behind
  <1>4. call' = NoCall
    BY <1>1, <1>2, StepFacts, WorkflowRunAssumption DEF Wiring, TInv, TypeOK, Workflow
  <1> QED BY <1>1, <1>2, <1>3, <1>4, FitNext, FilledNext DEF PInv, Behind, CalledFilled

LEMMA PInvNext == PInv /\ [Next]_vars => PInv'
  <1> SUFFICES ASSUME PInv, [Next]_vars PROVE PInv'
    OBVIOUS
  <1>1. CASE UNCHANGED vars
    <2>1. TInv'
      BY TInvNext DEF PInv
    <2> QED
      BY <1>1, <2>1
      DEF vars, screen, PInv, Behind, CalledFilled, Filled, Fit
  <1>2. CASE Next
    <2>1. \/ Fill \/ Clear \/ EnterEditMode \/ RemoveRecord \/ AddRecord \/ CancelEdit \/ Back
          \/ SubmitSingle \/ SubmitNewRecord \/ SubmitEdited \/ SubmitWithoutForm
          \/ (\E i \in Step : EditStep(i)) \/ BackFromReview
          \/ ProcedureSucceeds \/ ProcedureFails \/ SaveStep
      BY <1>2 DEF Next, UserStep, ServerStep, SaveStep
    <2> QED
      BY <2>1, FormKeepsPInv, BackKeepsPInv, SubmitsKeepPInv, ReviewKeepsPInv,
         ProcedureKeepsPInv, SaveStepKeepsPInv
  <1> QED BY <1>1, <1>2

LEMMA ReviewIsBehind == PInv => ReviewIsComplete
  <1> SUFFICES ASSUME PInv, at = Review PROVE ReviewIsComplete
    BY DEF ReviewIsComplete
  <1>1. \A i \in Step : Fit(data, verdict, i)
    BY StepFacts DEF PInv, Behind
  <1>2. wf.gated \subseteq Step
    BY WorkflowRunAssumption DEF PInv, TInv, TypeOK, Workflow
  <1> QED BY <1>1, <1>2 DEF ReviewIsComplete, Fit

(* Back, Edit and refused procedures open no way to the review around a    *)
(* gate or an empty step: what is on the review has been accepted as it is *)
(* shown, or was changed from there.                                       *)
THEOREM GatesArePassed == Spec => []ReviewIsComplete
  BY PInvInit, PInvNext, ReviewIsBehind, PTL DEF Spec

-----------------------------------------------------------------------------
(* The loop of saveAll. *)

(* While one press of Save lasts, everything of the steps before the        *)
(* request's is saved, and so is a record whose photo is uploaded.          *)
TurnInv ==
  /\ SInv
  /\ run # Idle => \A k \in Step : \A l \in DOMAIN data[k] :
                     k < run.step => data[k][l] \in saved
  /\ run.phase = "photo" => run.snap \in saved

SameRecord == run'.step = run.step /\ run'.snap = run.snap /\ run'.parent = run.parent

(* The record comes nearer to its end, or it is saved for good and another  *)
(* one, not saved yet and not of an earlier step, is sent.                  *)
InTurn ==
  \/ /\ SameRecord
     /\ \/ run.phase = "sent" /\ run'.phase = "stored"
        \/ run.phase = "stored" /\ run'.phase = "photo"
  \/ /\ run.phase \in {"stored", "photo"} /\ run'.phase = "sent"
     /\ run.snap \in saved' /\ run'.snap \notin saved'
     /\ run'.step >= run.step

SavesInTurn ==
  [][run # Idle /\ run' # Idle /\ run' # run =>
       InTurn /\ data' = data /\ saved \subseteq saved']_vars

LEMMA TurnAfterProceed ==
  ASSUME TurnInv, SInv', run' = Idle \/ run'.phase = "sent"
  PROVE  TurnInv'
  <1>1. TInv' /\ RunMatches'
    BY DEF SInv
  <1>2. run' # Idle => \A k \in Step : \A l \in DOMAIN data'[k] :
                         k < run'.step => data'[k][l] \in saved'
    BY <1>1 DEF RunMatches
  <1>3. run'.phase # "photo"
    BY IdleFacts
  <1> QED BY <1>2, <1>3 DEF TurnInv

(* What Proceed sends is not of an earlier step than the request before.    *)
LEMMA ProceedInTurn ==
  ASSUME TurnInv, run # Idle, UNCHANGED data, saved \subseteq saved', run.snap \in saved',
         NEW known \in [Step -> Nat], Proceed(saved', known)
  PROVE  \/ run' = Idle
         \/ /\ run'.phase = "sent" /\ run'.snap \notin saved' /\ run'.step >= run.step
  <1>1. TypeOK /\ at = Review /\ run.step \in Step
    BY Running DEF TurnInv
  <1>2. SUFFICES ASSUME run' # Idle
                 PROVE  /\ run'.phase = "sent" /\ run'.snap \notin saved'
                        /\ run'.step >= run.step
    OBVIOUS
  <1>3. /\ run' \in Request /\ run'.phase = "sent" /\ run'.snap \notin saved'
        /\ \E j \in DOMAIN data[run'.step] : run'.snap = data[run'.step][j]
    BY <1>1, <1>2, ProceedType
  <1>4. run'.step \in Step
    BY <1>3, RequestFacts
  <1>5. ~(run'.step < run.step)
    BY <1>2, <1>3, <1>4 DEF TurnInv
  <1>6. run'.step \in Nat /\ run.step \in Nat
    BY <1>1, <1>4, StepFacts
  <1> QED BY <1>3, <1>5, <1>6

LEMMA RowStoredInTurn ==
  ASSUME TurnInv, SInv', RowStored
  PROVE  TurnInv' /\ InTurn /\ UNCHANGED <<data, saved>>
  <1>1. run # Idle /\ run.phase = "sent" /\ UNCHANGED <<data, saved>>
        /\ run' = [run EXCEPT !.phase = "stored"]
    BY IdleFacts DEF RowStored
  <1>2. run \in Request
    BY <1>1, Running DEF TurnInv
  <1>3. run'.phase = "stored" /\ SameRecord
    BY <1>1, <1>2, RequestFacts DEF SameRecord
  <1> QED BY <1>1, <1>3 DEF TurnInv, InTurn, SameRecord

LEMMA RowAnsweredInTurn ==
  ASSUME TurnInv, SInv', RowAnswered
  PROVE  /\ TurnInv' /\ data' = data /\ saved \subseteq saved'
         /\ run' # Idle => InTurn
  <1>1. /\ run # Idle /\ run.phase = "stored" /\ UNCHANGED data
        /\ saved' = saved \cup {run.snap}
    BY IdleFacts DEF RowAnswered, Saved
  <1>2. run \in Request
    BY <1>1, Running DEF TurnInv
  <1>3. CASE run.snap.photo
    <2>1. run' = [run EXCEPT !.phase = "photo"]
      BY <1>3 DEF RowAnswered
    <2>2. run'.phase = "photo" /\ SameRecord
      BY <1>2, <2>1, RequestFacts DEF SameRecord
    <2> QED BY <1>1, <2>2 DEF TurnInv, InTurn, SameRecord
  <1>4. CASE ~run.snap.photo
    <2>1. Proceed(saved', ids')
      BY <1>4 DEF RowAnswered
    <2>2. TInv'
      BY DEF SInv
    <2>3. ids' \in [Step -> Nat]
      BY <2>2 DEF TInv, TypeOK
    <2>4. \/ run' = Idle
          \/ /\ run'.phase = "sent" /\ run'.snap \notin saved' /\ run'.step >= run.step
      BY <1>1, <2>1, <2>3, ProceedInTurn
    <2> QED BY <1>1, <2>4, TurnAfterProceed DEF InTurn
  <1> QED BY <1>3, <1>4

LEMMA PhotoUploadedInTurn ==
  ASSUME TurnInv, SInv', PhotoUploaded
  PROVE  /\ TurnInv' /\ data' = data /\ saved \subseteq saved'
         /\ run' # Idle => InTurn
  <1>1. /\ run # Idle /\ run.phase = "photo" /\ UNCHANGED <<data, saved>>
        /\ Proceed(saved, ids)
    BY IdleFacts DEF PhotoUploaded
  <1>2. run.snap \in saved /\ ids \in [Step -> Nat] /\ Proceed(saved', ids)
    BY <1>1 DEF TurnInv, SInv, TInv, TypeOK
  <1>3. \/ run' = Idle
        \/ /\ run'.phase = "sent" /\ run'.snap \notin saved' /\ run'.step >= run.step
    BY <1>1, <1>2, ProceedInTurn
  <1> QED BY <1>1, <1>2, <1>3, TurnAfterProceed DEF InTurn

LEMMA TurnStep ==
  ASSUME TurnInv, [Next]_vars
  PROVE  /\ TurnInv'
         /\ run # Idle /\ run' # Idle /\ run' # run =>
              InTurn /\ data' = data /\ saved \subseteq saved'
  <1>1. SInv' /\ SInv
    BY SInvNext DEF TurnInv
  <1>2. CASE UNCHANGED vars
    BY <1>1, <1>2 DEF vars, server, TurnInv
  <1>3. CASE WizardStep
    <2>1. run' = Idle
      BY <1>1, <1>3, WizardChanges DEF SInv
    <2> QED BY <1>1, <2>1, TurnAfterProceed
  <1>4. CASE Save
    <2>1. run = Idle /\ TypeOK /\ at = Review /\ Proceed(saved, ids)
      BY <1>1, <1>4 DEF Save, OnReview, Free, SInv, TInv
    <2>2. run' = Idle \/ run'.phase = "sent"
      BY <2>1, ProceedType DEF TypeOK
    <2> QED BY <1>1, <2>1, <2>2, TurnAfterProceed
  <1>5. CASE RowRefused \/ AnswerLost \/ PhotoFails
    <2>1. run' = Idle
      BY <1>5 DEF RowRefused, GiveUp, AnswerLost, PhotoFails, Fail
    <2> QED BY <1>1, <2>1, TurnAfterProceed
  <1>6. CASE RowStored \/ RowAnswered \/ PhotoUploaded
    BY <1>1, <1>6, RowStoredInTurn, RowAnsweredInTurn, PhotoUploadedInTurn
  <1> QED
    BY <1>2, <1>3, <1>4, <1>5, <1>6 DEF Next, UserStep, ServerStep, WizardStep

(* saveAll goes through the records in the order of the steps and sends     *)
(* none again that is saved: each answer brings the record nearer to its    *)
(* end or ends the press of Save, so that with every request answered the   *)
(* loop cannot go round in circles.                                        *)
THEOREM RecordsAreSentInTurn == Spec => SavesInTurn
  <1>1. Init => TurnInv
    <2>1. Init => run = Idle
      BY DEF Init
    <2> QED BY <2>1, SInvInit, IdleFacts DEF TurnInv
  <1>2. TurnInv /\ [Next]_vars => TurnInv'
    BY TurnStep
  <1>3. TurnInv /\ [Next]_vars =>
          [run # Idle /\ run' # Idle /\ run' # run =>
             InTurn /\ data' = data /\ saved \subseteq saved']_vars
    BY TurnStep
  <1> QED BY <1>1, <1>2, <1>3, PTL DEF Spec, SavesInTurn
=============================================================================
