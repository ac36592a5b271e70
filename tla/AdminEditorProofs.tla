------------------------- MODULE AdminEditorProofs -------------------------
(***************************************************************************)
(* What holds of the admin page whatever the user does.  Three inductive   *)
(* invariants:                                                             *)
(*   - TInv: types, and the timer and the flags of the autosave;           *)
(*   - KInv: the key each document goes by, whatever is loading or being   *)
(*     saved meanwhile;                                                    *)
(*   - CInv: as long as no version has got to another document, the        *)
(*     versions belong to the documents they go with, and an edit the page *)
(*     lets go of is stored, on its way or announced.                      *)
(***************************************************************************)
EXTENDS AdminEditor, TLAPS

-----------------------------------------------------------------------------
(* The records the page and the server exchange.                           *)
LEMMA DocTypes ==
  ASSUME NEW d \in Doc
  PROVE  /\ d.of \in Tab /\ d.edits \in SUBSET Edit
         /\ d # NoDoc
         /\ \A e \in Edit : With(d, e) \in Doc /\ With(d, e).of = d.of
                          /\ With(d, e).edits = d.edits \cup {e}
  BY AdminEditorAssumption DEF Doc, NoDoc, With

LEMMA DocMade ==
  ASSUME NEW t \in Tab, NEW E \in SUBSET Edit
  PROVE  [of |-> t, edits |-> E] \in Doc
  BY DEF Doc

LEMMA NoDocTypes == NoDoc.of = None /\ NoDoc.edits = {}
  BY DEF NoDoc

LEMMA RowTypes ==
  ASSUME NEW r \in Row
  PROVE  /\ r.ver \in Nat /\ r.doc \in Doc
         /\ \A d \in Doc : /\ Saved(r, d) \in Row
                          /\ Saved(r, d).ver = r.ver + 1
                          /\ Saved(r, d).doc = d
  BY DEF Row, Saved

LEMMA SaveTypes ==
  ASSUME NEW q \in SaveRequest
  PROVE  /\ q.tab \in Tab /\ q.doc \in Doc /\ q.ver \in Nat /\ q # Idle
         /\ q.phase \in {"sent", "saved", "refused"}
  BY AdminEditorAssumption DEF SaveRequest, Idle

LEMMA IdleTypes ==
  Idle.phase = "idle" /\ Idle.tab = None /\ Idle.doc = NoDoc
  BY DEF Idle

LEMMA RequestTypes ==
  ASSUME NEW k \in Tab, config \in Doc, version \in Nat
  PROVE  /\ RequestFor(k) \in SaveRequest
         /\ RequestFor(k).phase = "sent" /\ RequestFor(k).tab = k
         /\ RequestFor(k).doc = config /\ RequestFor(k).ver = version
  BY DEF RequestFor, SaveRequest

LEMMA OutcomeTypes ==
  ASSUME save \in SaveRequest, NEW p \in {"saved", "refused"}, NEW v \in Nat
  PROVE  /\ Outcome(p, v) \in SaveRequest
         /\ Outcome(p, v).phase = p /\ Outcome(p, v).tab = save.tab
         /\ Outcome(p, v).doc = save.doc /\ Outcome(p, v).ver = v
  BY DEF Outcome, SaveRequest

LEMMA LoadTypes ==
  ASSUME NEW l \in LoadRequest
  PROVE  /\ l.tab \in Tab /\ l.ver \in Nat /\ l.doc \in Doc \cup {NoDoc}
         /\ l.phase \in {"sent", "read"} /\ l # Free
  BY AdminEditorAssumption DEF LoadRequest, Free

LEMMA FreeTypes ==
  Free.phase = "idle"
  BY DEF Free

LEMMA LoadMade ==
  ASSUME NEW t \in Tab
  PROVE  /\ LoadOf(t) \in LoadRequest
         /\ LoadOf(t).phase = "sent" /\ LoadOf(t).tab = t
  BY DEF LoadOf, LoadRequest

LEMMA AnswerTypes ==
  ASSUME NEW l \in LoadRequest, row \in [Tab -> Row]
  PROVE  /\ Answered(l) \in LoadRequest
         /\ Answered(l).phase = "read" /\ Answered(l).tab = l.tab
         /\ Answered(l).ver = row[l.tab].ver
         /\ Answered(l).doc = row[l.tab].doc
  <1>1. l.tab \in Tab /\ row[l.tab] \in Row
    BY LoadTypes
  <1>2. row[l.tab].ver \in Nat /\ row[l.tab].doc \in Doc
    BY <1>1, RowTypes
  <1> QED BY <1>1, <1>2 DEF Answered, LoadRequest

LEMMA EditIsNat == Edit \subseteq Nat
  BY AdminEditorAssumption DEF Edit

-----------------------------------------------------------------------------
(* The autosave, for any user.                                             *)
SyncHere == sync = "here" => config.of = Schema

PendingHolds == InFlight /\ dirty /\ file # save.tab => pending

TInv == TypeOK /\ SyncHere /\ TimerIsAlone /\ DirtyIsScheduled /\ PendingHolds

LEMMA TInvInit == Init => TInv
  <1> SUFFICES ASSUME Init PROVE TInv
    OBVIOUS
  <1>1. \A k \in Tab : [ver |-> 0, doc |-> [of |-> k, edits |-> {}]] \in Row
    BY DEF Row, Doc
  <1> QED
    BY <1>1 DEF Init, TInv, TypeOK, SyncHere, TimerIsAlone, DirtyIsScheduled, PendingHolds, InFlight

(* Noting an edit.                                                         *)
LEMMA NotedTypes ==
  ASSUME TypeOK, NEW e \in Edit, NEW t \in Tab, NEW r, Noted(e, t, r)
  PROVE  /\ made' \in [Edit -> Tab \cup {None}]
         /\ exposed' \in SUBSET Edit /\ astray' \in SUBSET Tab /\ muddled' \in BOOLEAN
         /\ made' = [made EXCEPT ![e] = t] /\ MarkDirty
  BY DEF TypeOK, Noted, Eligible

LEMMA EditsKeepTInv ==
  ASSUME TInv, NEW e \in Edit, Edits(e) PROVE TInv'
  <1> USE AdminEditorAssumption
          DEF TInv, TypeOK, SyncHere, TimerIsAlone, DirtyIsScheduled, PendingHolds,
              InFlight, Eligible, OffSchema, MarkDirty, ScheduleAutosave
  <1>0. ASSUME NEW d \in Doc, d.of \in Tab, Edited(e, d), inner' = inner,
               sync' = Detach(sync) \/ (sync' = sync /\ d.of = config.of)
        PROVE  TInv'
    <2>1. /\ config' = d /\ Noted(e, d.of, FALSE)
          /\ UNCHANGED <<row, file, version, failed, save, loads, warned>>
      BY <1>0 DEF Edited
    <2>2. /\ made' \in [Edit -> Tab \cup {None}]
          /\ exposed' \in SUBSET Edit /\ astray' \in SUBSET Tab /\ muddled' \in BOOLEAN
          /\ MarkDirty
      BY <1>0, <2>1, NotedTypes
    <2> QED BY <1>0, <2>1, <2>2 DEF Detach
  <1>1. CASE Change(e)
    <2>1. config \in Doc BY <1>1 DEF Change, MayEdit
    <2>2. With(config, e) \in Doc /\ With(config, e).of = config.of /\ config.of \in Tab
      BY <2>1, DocTypes
    <2>3. Edited(e, With(config, e)) /\ inner' = inner /\ sync' = sync
      BY <1>1 DEF Change
    <2> QED BY <1>0, <2>2, <2>3
  <1>2. CASE AddItem(e)
    <2>1. config \in Doc BY <1>2 DEF AddItem, MayEdit
    <2>2. With(config, e) \in Doc /\ With(config, e).of = config.of /\ config.of \in Tab
      BY <2>1, DocTypes
    <2>3. Edited(e, With(config, e)) /\ inner' = inner /\ sync' = sync
      BY <1>2 DEF AddItem
    <2> QED BY <1>0, <2>2, <2>3
  <1>3. CASE ClearConfig(e)
    <2> DEFINE E == {e} \cup IF config.of = file THEN config.edits ELSE {}
               d == [of |-> file, edits |-> E]
    <2>1. config \in Doc /\ file \in Tab BY <1>3 DEF ClearConfig, MayEdit
    <2>2. E \in SUBSET Edit BY <2>1, DocTypes
    <2>3. d \in Doc /\ d.of = file BY <2>1, <2>2, DocMade
    <2>4. Edited(e, d) /\ sync' = Detach(sync) /\ UNCHANGED inner
      BY <1>3 DEF ClearConfig
    <2> HIDE DEF d
    <2> QED BY <1>0, <2>1, <2>3, <2>4
  <1>4. CASE SyncArrives(e)
    <2>1. sync = "here" => config \in Doc BY NoDocTypes
    <2>2. config' \in Doc \cup {NoDoc}
      BY <1>4, <2>1, DocTypes DEF SyncArrives
    <2>3. /\ sync' = "none" /\ UNCHANGED <<row, file, version, failed, save, loads, warned>>
          /\ inner' = FALSE /\ Noted(e, Schema, sync = "lost" \/ OffSchema)
      BY <1>4 DEF SyncArrives
    <2>4. /\ made' \in [Edit -> Tab \cup {None}]
          /\ exposed' \in SUBSET Edit /\ astray' \in SUBSET Tab /\ muddled' \in BOOLEAN
          /\ MarkDirty
      BY <2>3, NotedTypes
    <2> QED BY <2>2, <2>3, <2>4
  <1>5. ASSUME NEW k \in Tab, RivalSaves(k, e) PROVE TInv'
    <2>1. row[k] \in Row /\ With(row[k].doc, e) \in Doc BY RowTypes, DocTypes
    <2>2. row' \in [Tab -> Row] BY <1>5, <2>1, RowTypes DEF RivalSaves
    <2> QED BY <1>5, <2>2 DEF RivalSaves, shown, autosave, risks
  <1> QED BY <1>1, <1>2, <1>3, <1>4, <1>5 DEF Edits

LEMMA InnerKeepsTInv ==
  ASSUME TInv, OpenInner \/ CloseInner \/ AskSync \/ SyncFindsNothing
  PROVE  TInv'
  <1> USE DEF TInv, TypeOK, SyncHere, TimerIsAlone, DirtyIsScheduled,
              PendingHolds, InFlight, shown, autosave, history, risks
  <1>1. CASE OpenInner
    <2>1. Lost(config.edits) \subseteq Edit BY DocTypes, NoDocTypes DEF Lost
    <2> QED BY <1>1, <2>1 DEF OpenInner
  <1>2. CASE CloseInner       BY <1>2 DEF CloseInner
  <1>3. CASE AskSync          BY <1>3 DEF AskSync
  <1>4. CASE SyncFindsNothing BY <1>4 DEF SyncFindsNothing
  <1> QED BY <1>1, <1>2, <1>3, <1>4

(* What is about to be saved is the document of a tab.                     *)
LEMMA ToSaveTypes ==
  ASSUME TypeOK, ToSave
  PROVE  config \in Doc /\ file \in Tab /\ version \in Nat
  BY DEF TypeOK, ToSave, Eligible

LEMMA UnsavedTypes ==
  ASSUME TypeOK PROVE Unsaved \in SUBSET Edit
  BY DocTypes, NoDocTypes DEF TypeOK, Unsaved

LEMMA FlushKeepsTInv ==
  ASSUME TInv, TimerFires \/ Hide PROVE TInv'
  <1> USE DEF TInv, TypeOK, SyncHere, TimerIsAlone, DirtyIsScheduled, PendingHolds,
              InFlight, Eligible, OffSchema
  <1>0. UNCHANGED <<row, file, shown, loads, sync, made, exposed, astray, muddled>>
        /\ FlushAutosave
    BY DEF TimerFires, Hide, risks
  <1>1. CASE FlushBusy    BY <1>0, <1>1 DEF FlushBusy, shown
  <1>2. CASE FlushForgets BY <1>0, <1>2 DEF FlushForgets, MarkClean, shown
  <1>3. CASE FlushInvalid
    BY <1>0, <1>3, UnsavedTypes DEF FlushInvalid, ToSave, shown
  <1>4. CASE FlushPosts
    <2>1. save' \in SaveRequest /\ save'.tab = file
      BY <1>4, ToSaveTypes, RequestTypes DEF FlushPosts
    <2>2. save' # Idle BY <2>1, SaveTypes
    <2> QED BY <1>0, <1>4, <2>1, <2>2 DEF FlushPosts, ToSave, shown
  <1> QED BY <1>0, <1>1, <1>2, <1>3, <1>4 DEF FlushAutosave

(* What a click on a tab leaves of the autosave.                           *)
LEMMA LeaveTabTypes ==
  ASSUME TypeOK, NEW t, LeaveTab(t)
  PROVE  /\ pending' \in BOOLEAN /\ warned' \in SUBSET Edit
         /\ save' \in SaveRequest \cup {Idle}
  <1>1. ToSave => RequestFor(FlushKey(t)) \in SaveRequest
    BY ToSaveTypes, RequestTypes DEF FlushKey
  <1> QED BY <1>1, UnsavedTypes DEF LeaveTab, TypeOK, InFlight, Asked

LEMMA OpensKeepTInv ==
  ASSUME TInv, Opens PROVE TInv'
  <1> USE DEF TInv, TypeOK, SyncHere, TimerIsAlone, DirtyIsScheduled, PendingHolds, MarkClean
  <1>1. ASSUME NEW p \in Page, OpenPage(p) PROVE TInv'
    BY <1>1, LeaveTabTypes DEF OpenPage, Detach, risks
  <1>2. ASSUME NEW t \in Tab, NEW s \in Slot, OpenTab(t, s) PROVE TInv'
    BY <1>2, LeaveTabTypes, LoadMade DEF OpenTab, shown
  <1> QED BY <1>1, <1>2 DEF Opens

LEMMA ArrivesKeepsTInv ==
  ASSUME TInv, NEW s \in Slot, Arrives(s) PROVE TInv'
  <1> USE DEF TInv, TypeOK, SyncHere, TimerIsAlone, DirtyIsScheduled, PendingHolds,
              InFlight, Eligible, OffSchema, shown, autosave, history, risks
  <1>0. ASSUME NEW d \in Doc \cup {NoDoc}, NEW v \in Nat, Shows(s, d, v) PROVE TInv'
    BY <1>0 DEF Shows, MarkClean, Detach
  <1>1. CASE ServerReads(s)
    <2>1. loads[s] \in LoadRequest BY <1>1, FreeTypes DEF ServerReads
    <2>2. Answered(loads[s]) \in LoadRequest BY <2>1, AnswerTypes
    <2> QED BY <1>1, <2>2 DEF ServerReads
  <1>2. CASE LoadArrives(s)
    <2>1. loads[s] \in LoadRequest BY <1>2, FreeTypes DEF LoadArrives
    <2> QED BY <1>0, <1>2, <2>1, LoadTypes DEF LoadArrives
  <1>3. CASE LoadRefused(s)
    <2>1. loads[s] \in LoadRequest BY <1>3 DEF LoadRefused
    <2>2. [of |-> loads[s].tab, edits |-> {}] \in Doc BY <2>1, LoadTypes, DocMade
    <2> QED BY <1>0, <1>3, <2>2 DEF LoadRefused
  <1>4. CASE LoadFails(s)   BY <1>4 DEF LoadFails
  <1> QED BY <1>1, <1>2, <1>3, <1>4 DEF Arrives

(* The row of a tab after the server has saved a request.                  *)
LEMMA SavedRowTypes ==
  ASSUME TypeOK, save \in SaveRequest
  PROVE  [row EXCEPT ![save.tab] = Saved(@, save.doc)] \in [Tab -> Row]
  BY SaveTypes, RowTypes DEF TypeOK

LEMMA ServerKeepsTInv ==
  ASSUME TInv, ServerSaves \/ Answers \/ ClosePage PROVE TInv'
  <1> USE DEF TInv, TypeOK, SyncHere, TimerIsAlone, DirtyIsScheduled, PendingHolds,
              InFlight, Eligible, OffSchema, shown, autosave, history, risks
  <1>1. CASE ServerSaves
    <2>1. save \in SaveRequest BY <1>1, IdleTypes DEF ServerSaves
    <2>2. save.tab \in Tab /\ row[save.tab].ver + 1 \in Nat /\ save.ver \in Nat
      BY <2>1, SaveTypes, RowTypes
    <2>3. save' \in SaveRequest /\ save'.tab = save.tab
      BY <1>1, <2>1, <2>2, OutcomeTypes DEF ServerSaves
    <2>4. row' \in [Tab -> Row] BY <1>1, <2>1, SavedRowTypes DEF ServerSaves
    <2>5. save # Idle /\ save' # Idle BY <2>1, <2>3, SaveTypes
    <2> QED BY <1>1, <2>3, <2>4, <2>5 DEF ServerSaves
  <1>2. CASE AnswerSuccess
    <2>1. save \in SaveRequest BY <1>2, IdleTypes DEF AnswerSuccess
    <2>2. version' \in Nat BY <1>2, <2>1, SaveTypes DEF AnswerSuccess, NextVersion
    <2>3. save # Idle BY <2>1, SaveTypes
    <2>4. CASE file = save.tab
      BY <1>2, <2>2, <2>3, <2>4 DEF AnswerSuccess, MarkClean
    <2>5. CASE file # save.tab
      <3>1. /\ save' = Idle /\ ThenPending(dirty)
            /\ UNCHANGED <<row, file, config, inner, loads, sync, history>>
            /\ UNCHANGED <<version, dirty, failed>>
        BY <1>2, <2>5 DEF AnswerSuccess
      <3>2. CASE pending /\ dirty
        BY <2>2, <2>3, <2>5, <3>1, <3>2 DEF ThenPending
      <3>3. CASE ~(pending /\ dirty)
        BY <2>2, <2>3, <2>5, <3>1, <3>3 DEF ThenPending
      <3> QED BY <3>2, <3>3
    <2> QED BY <2>4, <2>5
  <1>3. CASE AnswerFailure
    <2>1. save \in SaveRequest BY <1>3 DEF AnswerFailure
    <2>2. warned' \in SUBSET Edit
      BY <1>3, <2>1, SaveTypes, DocTypes DEF AnswerFailure, Told
    <2> QED BY <1>3, <2>1, <2>2 DEF AnswerFailure, ThenPending
  <1>4. CASE ClosePage
    <2>1. row' \in [Tab -> Row] BY <1>4, IdleTypes, SavedRowTypes DEF ClosePage
    <2>2. warned' \in SUBSET Edit BY <1>4, UnsavedTypes DEF ClosePage
    <2>3. Lost(save.doc.edits) \subseteq Edit
      BY SaveTypes, DocTypes, IdleTypes, NoDocTypes DEF Lost
    <2> QED BY <1>4, <2>1, <2>2, <2>3 DEF ClosePage, MarkClean
  <1> QED BY <1>1, <1>2, <1>3, <1>4 DEF Answers

LEMMA TInvStep == TInv /\ [Next]_vars => TInv'
  <1> SUFFICES ASSUME TInv, [Next]_vars PROVE TInv'
    OBVIOUS
  <1>1. CASE UNCHANGED vars
    BY <1>1 DEF TInv, TypeOK, SyncHere, TimerIsAlone, DirtyIsScheduled, PendingHolds, vars,
                shown, autosave, history, risks, InFlight, Eligible, OffSchema
  <1>2. CASE Next
    BY <1>2, EditsKeepTInv, InnerKeepsTInv, FlushKeepsTInv, OpensKeepTInv,
       ArrivesKeepsTInv, ServerKeepsTInv DEF Next
  <1> QED BY <1>1, <1>2

(* The variables keep their types: a request always carries the document   *)
(* and the key of a tab.                                                   *)
THEOREM TypeCorrect == Spec => []TypeOK
  <1>1. TInv => TypeOK BY DEF TInv
  <1> QED BY <1>1, TInvInit, TInvStep, PTL DEF Spec

(* Whatever the user does, a page with something to save has its timer or  *)
(* a save under way, and the two never run together.                       *)
THEOREM AlwaysScheduled == Spec => [](DirtyIsScheduled /\ TimerIsAlone)
  <1>1. TInv => DirtyIsScheduled /\ TimerIsAlone BY DEF TInv
  <1> QED BY <1>1, TInvInit, TInvStep, PTL DEF Spec

-----------------------------------------------------------------------------
(* The key a document goes by.  Only a tab that was marked while it showed *)
(* another tab's document is posted with that document.                    *)
KeptRows   == \A k \in Tab : row[k].doc.of = k \/ k \in astray
KeptSave   == InFlight => save.doc.of = save.tab \/ save.tab \in astray
KeptLoads  == \A s \in Slot : loads[s].phase = "read" =>
                loads[s].doc.of = loads[s].tab \/ loads[s].tab \in astray
DirtyKnown == dirty => file \in Tab /\ (config.of = file \/ file \in astray)

Kept == KeptRows /\ KeptSave /\ KeptLoads /\ DirtyKnown
KInv == TInv /\ Kept

LEMMA KInvInit == Init => KInv
  BY TInvInit, IdleTypes, FreeTypes
     DEF Init, KInv, Kept, KeptRows, KeptSave, KeptLoads, DirtyKnown, InFlight

(* The keys marked astray stay so, and nothing else happens to the rows    *)
(* and the requests when an edit is noted.                                 *)
LEMMA NotedKeepsKeys ==
  ASSUME KInv, NEW e \in Edit, NEW t, NEW r, Noted(e, t, r),
         config'.of \in {config.of, file}, UNCHANGED <<row, file, save, loads>>
  PROVE  Kept'
  <1>1. /\ astray \subseteq astray'
        /\ Eligible /\ config.of # file => file \in astray'
        /\ dirty' => dirty \/ Eligible
    BY DEF Noted, MarkDirty
  <1>2. DirtyKnown'
    BY <1>1 DEF KInv, Kept, DirtyKnown, Eligible
  <1> QED BY <1>1, <1>2 DEF KInv, Kept, KeptRows, KeptSave, KeptLoads, InFlight

LEMMA EditsKeepKeys ==
  ASSUME KInv, NEW e \in Edit, Edits(e)
  PROVE  Kept'
  <1>0. TypeOK BY DEF KInv, TInv
  <1>1. ASSUME NEW d, Edited(e, d), d.of \in {config.of, file} PROVE Kept'
    BY <1>1, NotedKeepsKeys DEF Edited
  <1>2. CASE Change(e)
    <2>1. config \in Doc BY <1>0, <1>2 DEF Change, MayEdit, TypeOK
    <2> QED BY <1>1, <1>2, <2>1, DocTypes DEF Change
  <1>3. CASE AddItem(e)
    <2>1. config \in Doc BY <1>0, <1>3 DEF AddItem, MayEdit, TypeOK
    <2> QED BY <1>1, <1>3, <2>1, DocTypes DEF AddItem
  <1>4. CASE ClearConfig(e) BY <1>1, <1>4 DEF ClearConfig
  <1>5. CASE SyncArrives(e)
    <2>1. config'.of = config.of
      BY <1>5 DEF SyncArrives, With
    <2> QED BY <1>5, <2>1, NotedKeepsKeys DEF SyncArrives
  <1>6. ASSUME NEW k \in Tab, RivalSaves(k, e) PROVE Kept'
    <2>1. row[k] \in Row /\ row[k].doc \in Doc
      BY <1>0, RowTypes DEF TypeOK
    <2>2. With(row[k].doc, e) \in Doc /\ With(row[k].doc, e).of = row[k].doc.of
      BY <2>1, DocTypes
    <2>3. \A j \in Tab : row'[j].doc.of = row[j].doc.of
      BY <1>0, <1>6, <2>1, <2>2, RowTypes DEF RivalSaves, TypeOK
    <2> QED BY <1>6, <2>3 DEF KInv, Kept, KeptRows, KeptSave, KeptLoads, DirtyKnown,
                              RivalSaves, InFlight, shown, autosave, risks
  <1> QED BY <1>2, <1>3, <1>4, <1>5, <1>6 DEF Edits

LEMMA InnerKeepsKeys ==
  ASSUME KInv, OpenInner \/ CloseInner \/ AskSync \/ SyncFindsNothing
  PROVE  Kept'
  <1>1. UNCHANGED <<row, file, config, dirty, save, loads, astray>>
    BY DEF OpenInner, CloseInner, AskSync, SyncFindsNothing, shown, autosave, history, risks
  <1> QED BY <1>1 DEF KInv, Kept, KeptRows, KeptSave, KeptLoads, DirtyKnown, InFlight

(* What is posted is the document of the tab it is posted for, or the tab  *)
(* is marked.                                                              *)
LEMMA PostKeepsKeys ==
  ASSUME KInv, UNCHANGED <<row, astray>>,
         \A s \in Slot : loads'[s].phase = "read" => loads'[s] = loads[s],
         \/ save' = save
         \/ dirty /\ ToSave /\ save' = RequestFor(file)
  PROVE  KeptRows' /\ KeptSave' /\ KeptLoads'
  <1>1. KeptRows' /\ KeptLoads' BY DEF KInv, Kept, KeptRows, KeptLoads
  <1>2. CASE save' = save BY <1>1, <1>2 DEF KInv, Kept, KeptSave, InFlight
  <1>3. CASE dirty /\ ToSave /\ save' = RequestFor(file)
    <2>1. save'.tab = file /\ save'.doc = config
      BY <1>3, ToSaveTypes, RequestTypes DEF KInv, TInv
    <2> QED BY <1>1, <1>3, <2>1 DEF KInv, Kept, KeptSave, DirtyKnown
  <1> QED BY <1>2, <1>3

LEMMA FlushKeepsKeys ==
  ASSUME KInv, TimerFires \/ Hide PROVE Kept'
  <1>1. /\ FlushAutosave /\ dirty
        /\ UNCHANGED <<row, file, config, loads, astray>>
    BY DEF TimerFires, Hide, KInv, TInv, TimerIsAlone, shown, risks
  <1>2. save' = save \/ (ToSave /\ save' = RequestFor(file))
    BY <1>1 DEF FlushAutosave, FlushBusy, FlushForgets, FlushInvalid, FlushPosts
  <1>3. KeptRows' /\ KeptSave' /\ KeptLoads' BY <1>1, <1>2, PostKeepsKeys
  <1> QED BY <1>1, <1>3 DEF KInv, Kept, DirtyKnown

LEMMA OpensKeepKeys ==
  ASSUME KInv, Opens PROVE Kept'
  <1>0. TypeOK BY DEF KInv, TInv
  <1>1. ASSUME NEW t, LeaveTab(t)
        PROVE  save' = save \/ (dirty /\ ToSave /\ save' = RequestFor(file))
    BY <1>1 DEF LeaveTab, FlushKey, ToSave
  <1>2. ASSUME NEW p \in Page, OpenPage(p) PROVE Kept'
    <2>1. LeaveTab(p) /\ dirty' = FALSE /\ UNCHANGED <<row, loads, astray>>
      BY <1>2 DEF OpenPage, MarkClean, risks
    <2>2. KeptRows' /\ KeptSave' /\ KeptLoads' BY <1>1, <2>1, PostKeepsKeys
    <2> QED BY <2>1, <2>2 DEF Kept, DirtyKnown
  <1>3. ASSUME NEW t \in Tab, NEW s \in Slot, OpenTab(t, s) PROVE Kept'
    <2>1. /\ LeaveTab(t) /\ dirty' = FALSE
          /\ UNCHANGED <<row, astray>> /\ loads' = [loads EXCEPT ![s] = LoadOf(t)]
      BY <1>3 DEF OpenTab, MarkClean
    <2>2. \A o \in Slot : loads'[o] = LoadOf(t) \/ loads'[o] = loads[o]
      BY <1>0, <2>1 DEF TypeOK
    <2>3. \A o \in Slot : loads'[o].phase = "read" => loads'[o] = loads[o]
      BY <2>2, LoadMade
    <2>4. KeptRows' /\ KeptSave' /\ KeptLoads' BY <1>1, <2>1, <2>3, PostKeepsKeys
    <2> QED BY <2>1, <2>4 DEF Kept, DirtyKnown
  <1> QED BY <1>2, <1>3 DEF Opens

LEMMA ArrivesKeepKeys ==
  ASSUME KInv, NEW s \in Slot, Arrives(s) PROVE Kept'
  <1>0. TypeOK BY DEF KInv, TInv
  <1>1. CASE ServerReads(s)
    <2>1. /\ loads[s] \in LoadRequest
          /\ loads' = [loads EXCEPT ![s] = Answered(loads[s])]
          /\ UNCHANGED <<row, file, config, dirty, save, astray>>
      BY <1>0, <1>1, FreeTypes DEF ServerReads, TypeOK, shown, autosave, history, risks
    <2>2. LET a == Answered(loads[s]) IN a.doc.of = a.tab \/ a.tab \in astray
      BY <1>0, <2>1, AnswerTypes, LoadTypes DEF TypeOK, KInv, Kept, KeptRows
    <2>3. KeptLoads' BY <1>0, <2>1, <2>2 DEF KInv, Kept, KeptLoads, TypeOK
    <2> QED BY <2>1, <2>3 DEF KInv, Kept, KeptRows, KeptSave, DirtyKnown, InFlight
  <1>2. ASSUME loads' = [loads EXCEPT ![s] = Free], UNCHANGED <<row, file, save, astray>>,
               dirty' = FALSE \/ UNCHANGED <<dirty, config>>
        PROVE  Kept'
    <2>1. \A o \in Slot : loads'[o] = Free \/ loads'[o] = loads[o]
      BY <1>0, <1>2 DEF TypeOK
    <2>2. KeptLoads' BY <1>2, <2>1, FreeTypes DEF KInv, Kept, KeptLoads
    <2> QED BY <1>2, <2>2 DEF KInv, Kept, KeptRows, KeptSave, DirtyKnown, InFlight
  <1>3. CASE LoadArrives(s)
    BY <1>2, <1>3 DEF LoadArrives, Shows, MarkClean, history, risks
  <1>4. CASE LoadRefused(s)
    BY <1>2, <1>4 DEF LoadRefused, Shows, MarkClean, history, risks
  <1>5. CASE LoadFails(s)
    BY <1>2, <1>5 DEF LoadFails, shown, autosave, history, risks
  <1> QED BY <1>1, <1>3, <1>4, <1>5 DEF Arrives

(* The server writes the document of a request under the key of its tab.   *)
LEMMA WriteKeepsKeys ==
  ASSUME KInv, InFlight, row' = [row EXCEPT ![save.tab] = Saved(@, save.doc)],
         astray' = astray
  PROVE  KeptRows'
  <1>1. /\ row \in [Tab -> Row] /\ save \in SaveRequest
        /\ save.tab \in Tab /\ save.doc \in Doc
        /\ save.doc.of = save.tab \/ save.tab \in astray
    BY SaveTypes DEF KInv, Kept, TInv, TypeOK, InFlight, KeptSave
  <1>2. \A k \in Tab : row'[k].doc = row[k].doc \/ (k = save.tab /\ row'[k].doc = save.doc)
    BY <1>1, RowTypes
  <1> QED BY <1>1, <1>2 DEF KInv, Kept, KeptRows

LEMMA ServerKeepsKeys ==
  ASSUME KInv, ServerSaves \/ Answers \/ ClosePage PROVE Kept'
  <1>0. TypeOK BY DEF KInv, TInv
  <1>1. CASE ServerSaves
    <2>1. /\ InFlight /\ save \in SaveRequest
          /\ UNCHANGED <<file, config, dirty, loads, astray>>
      BY <1>0, <1>1, IdleTypes
         DEF ServerSaves, InFlight, TypeOK, shown, autosave, history, risks
    <2>2. row' = row \/ row' = [row EXCEPT ![save.tab] = Saved(@, save.doc)]
      BY <1>1 DEF ServerSaves
    <2>3. KeptRows' BY <2>1, <2>2, WriteKeepsKeys DEF KInv, Kept, KeptRows
    <2>4. save'.tab = save.tab /\ save'.doc = save.doc
      BY <1>1 DEF ServerSaves, Outcome
    <2>5. KeptSave' BY <2>1, <2>4 DEF KInv, Kept, KeptSave
    <2> QED BY <2>1, <2>3, <2>5 DEF KInv, Kept, KeptLoads, DirtyKnown
  <1>2. CASE Answers
    <2>1. /\ save' = Idle /\ (dirty' => dirty)
          /\ UNCHANGED <<row, file, config, loads, astray>>
      BY <1>2 DEF Answers, AnswerSuccess, AnswerFailure, MarkClean, shown, history, risks
    <2>2. KeptRows' /\ KeptLoads' BY <2>1 DEF KInv, Kept, KeptRows, KeptLoads
    <2>3. KeptSave' BY <2>1 DEF KeptSave, InFlight
    <2>4. DirtyKnown' BY <2>1 DEF KInv, Kept, DirtyKnown
    <2> QED BY <2>2, <2>3, <2>4 DEF Kept
  <1>3. CASE ClosePage
    <2>1. /\ save' = Idle /\ dirty' = FALSE /\ astray' = astray
          /\ loads' = [s \in Slot |-> Free]
      BY <1>3 DEF ClosePage, MarkClean
    <2>2. row' = row \/ (InFlight /\ row' = [row EXCEPT ![save.tab] = Saved(@, save.doc)])
      BY <1>3, IdleTypes DEF ClosePage, InFlight
    <2>3. KeptRows' BY <2>1, <2>2, WriteKeepsKeys DEF KInv, Kept, KeptRows
    <2> QED BY <2>1, <2>3, FreeTypes
            DEF Kept, KeptSave, KeptLoads, DirtyKnown, InFlight
  <1> QED BY <1>1, <1>2, <1>3

LEMMA KInvStep == KInv /\ [Next]_vars => KInv'
  <1> SUFFICES ASSUME KInv, [Next]_vars PROVE KInv'
    OBVIOUS
  <1>1. TInv' BY TInvStep DEF KInv
  <1>2. CASE UNCHANGED vars
    BY <1>1, <1>2 DEF KInv, Kept, KeptRows, KeptSave, KeptLoads, DirtyKnown,
                      InFlight, vars, shown, autosave, history, risks
  <1>3. CASE Next
    <2>1. Kept'
      BY <1>3, EditsKeepKeys, InnerKeepsKeys, FlushKeepsKeys, OpensKeepKeys,
         ArrivesKeepKeys, ServerKeepsKeys DEF Next
    <2> QED BY <1>1, <2>1 DEF KInv
  <1> QED BY <1>2, <1>3

(* The document of one tab is written under the key of another only if     *)
(* that tab was marked while it showed the other's document: loads, saves  *)
(* and answers that come under another tab never do it by themselves.      *)
THEOREM OwnKeyOnly == Spec => []KeepsItsKey
  <1>1. KInv => KeepsItsKey BY DEF KInv, Kept, KeptRows, KeepsItsKey
  <1> QED BY <1>1, KInvInit, KInvStep, PTL DEF Spec

-----------------------------------------------------------------------------
(* The versions.  As long as none may have got to another document, the    *)
(* rest is as a reader of the code expects.                                *)
MadeIn(d) == \A e \in d.edits : made[e] = d.of

(* Documents hold edits of their own tab, wherever they are.               *)
OwnRows   == \A k \in Tab : row[k].doc.of = k /\ MadeIn(row[k].doc)
OwnConfig == MadeIn(config)
OwnSave   == InFlight => save.doc.of = save.tab /\ MadeIn(save.doc)
OwnLoads  == \A s \in Slot : loads[s].phase = "read" =>
                loads[s].doc.of = loads[s].tab /\ MadeIn(loads[s].doc)
Own == OwnRows /\ OwnConfig /\ OwnSave /\ OwnLoads

(* The document on the page is the open tab's while there is something to  *)
(* save, and while its own save is under way, which it then still holds.   *)
DirtyShown == dirty => ~Loading /\ file \in Tab /\ config.of = file
SaveShown  == InFlight /\ file = save.tab =>
                ~Loading /\ config.of = file /\ save.doc.edits \subseteq config.edits
Waits == DirtyShown /\ SaveShown

(* A copy with the version of its row holds everything the row holds; a    *)
(* row never saved holds nothing, like the body of an error.               *)
Copies(ver, doc) ==
  /\ ver <= row[doc.of].ver
  /\ ver = row[doc.of].ver => row[doc.of].doc.edits \subseteq doc.edits

Current == /\ config # NoDoc => Copies(version, config)
           /\ InFlight => Copies(save.ver, save.doc)
           /\ \A s \in Slot : loads[s].phase = "read" => Copies(loads[s].ver, loads[s].doc)

Blank == \A k \in Tab : row[k].ver = 0 => row[k].doc.edits = {}

SavedThere == save.phase = "saved" => save.doc.edits \subseteq row[save.tab].doc.edits

(* What the page may let go of is cared for elsewhere: all of the document *)
(* while its save is under way, and while an inner page is open.           *)
Settled(e) == Stored(e) \/ OnItsWay(e) \/ e \in warned

Served == (InFlight /\ file = save.tab) \/ (OffSchema /\ dirty) =>
             \A e \in config.edits \ exposed : Settled(e)
AllThere == \A e \in Edit \ exposed : made[e] # None => OnPage(e) \/ Settled(e)
NoLoss   == Served /\ AllThere

PInv == Own /\ Waits /\ Current /\ Blank /\ SavedThere /\ NoLoss
CInv == TInv /\ (~muddled => PInv)

RowsGrow == \A k \in Tab : row[k].doc.edits \subseteq row'[k].doc.edits
PStep == PInv' /\ RowsGrow

LEMMA CInvInit == Init => CInv
  <1> SUFFICES ASSUME Init PROVE PInv
    BY TInvInit DEF CInv
  <1>1. Own BY IdleTypes, NoDocTypes, FreeTypes
    DEF Init, Own, OwnRows, OwnConfig, OwnSave, OwnLoads, MadeIn, InFlight
  <1>2. Waits BY DEF Init, Waits, DirtyShown, SaveShown, InFlight
  <1>3. Current BY FreeTypes DEF Init, Current, InFlight
  <1>4. SavedThere BY IdleTypes DEF Init, SavedThere
  <1>5. Blank BY DEF Init, Blank
  <1>6. NoLoss BY NoDocTypes DEF Init, NoLoss, Served, AllThere
  <1> QED BY <1>1, <1>2, <1>3, <1>4, <1>5, <1>6 DEF PInv

(* An edit that is cared for stays so.                                     *)
LEMMA SettledStays ==
  ASSUME NEW e \in Edit, Settled(e), made'[e] = made[e], RowsGrow,
         warned \subseteq warned', OnItsWay(e) => Settled(e)'
  PROVE  Settled(e)'
  BY DEF Settled, Stored, RowsGrow

LEMMA ConfigTypes ==
  ASSUME TypeOK
  PROVE  /\ config.edits \subseteq Edit
         /\ config # NoDoc => config \in Doc /\ config.of \in Tab
  BY DocTypes, NoDocTypes DEF TypeOK

LEMMA SaveEdits ==
  ASSUME TypeOK
  PROVE  /\ save.doc.edits \subseteq Edit
         /\ ~InFlight => save.doc.edits = {} /\ save.phase = "idle" /\ save.tab = None
  BY SaveTypes, DocTypes, IdleTypes, NoDocTypes DEF TypeOK, InFlight

(* Whose documents the page, the save and the loads hold.                  *)
LEMMA CopiesOfTabs ==
  ASSUME TInv, PInv
  PROVE  /\ config # NoDoc => config.of \in Tab
         /\ version \in Nat
         /\ InFlight => /\ save \in SaveRequest /\ save.ver \in Nat
                        /\ save.doc \in Doc /\ save.doc.of = save.tab /\ save.tab \in Tab
         /\ \A s \in Slot : loads[s].phase = "read" =>
               /\ loads[s] \in LoadRequest /\ loads[s].ver \in Nat
               /\ loads[s].doc.of = loads[s].tab /\ loads[s].tab \in Tab
               /\ loads[s].doc.edits \subseteq Edit
  <1>1. TypeOK BY DEF TInv
  <1>2. ASSUME NEW s \in Slot, loads[s].phase = "read"
        PROVE  /\ loads[s] \in LoadRequest /\ loads[s].ver \in Nat
               /\ loads[s].doc.of = loads[s].tab /\ loads[s].tab \in Tab
               /\ loads[s].doc.edits \subseteq Edit
    <2>1. loads[s] \in LoadRequest BY <1>1, <1>2, FreeTypes DEF TypeOK
    <2>2. loads[s].doc.edits \subseteq Edit BY <2>1, LoadTypes, DocTypes, NoDocTypes
    <2> QED BY <1>2, <2>1, <2>2, LoadTypes DEF PInv, Own, OwnLoads
  <1>3. InFlight => save \in SaveRequest BY <1>1 DEF TypeOK, InFlight
  <1> QED BY <1>1, <1>2, <1>3, DocTypes, SaveTypes DEF TypeOK, PInv, Own, OwnSave

(* A new edit: on the page, to be saved, or not claimed.                   *)
LEMMA EditedStep ==
  ASSUME TInv, PInv, NEW e \in Edit, NEW t \in Tab, made[e] = None,
         made' = [made EXCEPT ![e] = t],
         \/ config' = config
         \/ /\ config \in Doc /\ config.of = t
            /\ config' \in Doc /\ config'.of = t /\ config'.edits = config.edits \cup {e},
         exposed \subseteq exposed', exposed' \subseteq exposed \cup {e},
         \/ dirty' = dirty
         \/ dirty' = TRUE /\ ~OffSchema /\ ~Loading /\ file \in Tab /\ config.of = file,
         e \notin exposed' => dirty' /\ e \in config'.edits /\ save.tab # file /\ ~OffSchema,
         OffSchema' => OffSchema,
         UNCHANGED <<row, file, version, save, loads, warned>>
  PROVE  PStep
  <1> USE AdminEditorAssumption
  <1>0. /\ row \in [Tab -> Row] /\ made \in [Edit -> Tab \cup {None}]
        /\ save \in SaveRequest \cup {Idle} /\ dirty \in BOOLEAN
        /\ config.edits \subseteq Edit /\ save.doc.edits \subseteq Edit
    BY ConfigTypes, SaveEdits DEF TInv, TypeOK
  <1>1. ASSUME NEW d, MadeIn(d), d.of \in Tab, d.edits \subseteq Edit
        PROVE  e \notin d.edits /\ \A x \in d.edits : made'[x] = d.of
    BY <1>0, <1>1 DEF MadeIn
  <1>2. Own'
    <2>1. OwnRows'
      BY <1>0, <1>1, RowTypes, DocTypes DEF PInv, Own, OwnRows, MadeIn
    <2>2. OwnConfig'
      <3>1. CASE config = NoDoc /\ config' = config
        BY <3>1, NoDocTypes DEF OwnConfig, MadeIn
      <3>2. CASE config # NoDoc \/ config' # config
        <4>1. config.of \in Tab /\ MadeIn(config)
          BY <3>2, CopiesOfTabs DEF PInv, Own, OwnConfig
        <4>2. \A x \in config.edits : made'[x] = config.of BY <1>0, <1>1, <4>1
        <4>3. made'[e] = t BY <1>0
        <4> QED BY <4>2, <4>3 DEF OwnConfig, MadeIn
      <3> QED BY <3>1, <3>2
    <2>3. OwnSave'
      <3> SUFFICES ASSUME InFlight
                   PROVE  save.doc.of = save.tab /\ \A x \in save.doc.edits : made'[x] = save.doc.of
        BY DEF OwnSave, InFlight, MadeIn
      <3> QED BY <1>0, <1>1, CopiesOfTabs DEF PInv, Own, OwnSave
    <2>4. OwnLoads'
      <3> SUFFICES ASSUME NEW s \in Slot, loads[s].phase = "read"
                   PROVE  loads[s].doc.of = loads[s].tab
                          /\ \A x \in loads[s].doc.edits : made'[x] = loads[s].doc.of
        BY DEF OwnLoads, MadeIn
      <3> QED BY <1>1, CopiesOfTabs DEF PInv, Own, OwnLoads
    <2> QED BY <2>1, <2>2, <2>3, <2>4 DEF Own
  <1>3. config'.of = config.of /\ config.edits \subseteq config'.edits
        /\ config'.edits \subseteq config.edits \cup {e}
    OBVIOUS
  <1>4. Waits'
    BY <1>0, <1>3 DEF PInv, Waits, DirtyShown, SaveShown, Loading, InFlight
  <1>5. Current'
    <2>1. config' # NoDoc => Copies(version, config)
      BY DocTypes DEF PInv, Current
    <2>2. config' # NoDoc => Copies(version, config)'
      BY <1>3, <2>1 DEF Copies
    <2> QED BY <2>2 DEF PInv, Current, Copies, InFlight
  <1>6. SavedThere' /\ Blank'
    BY DEF PInv, SavedThere, Blank
  <1>7. NoLoss'
    <2>1. ASSUME NEW x \in Edit, x # e, Settled(x) PROVE Settled(x)'
      BY <1>0, <2>1 DEF Settled, Stored, OnItsWay
    <2>2. Served'
      BY <1>0, <1>3, <2>1 DEF PInv, NoLoss, Served, InFlight
    <2>3. AllThere'
      <3> SUFFICES ASSUME NEW x \in Edit \ exposed', made'[x] # None
                   PROVE  OnPage(x)' \/ Settled(x)'
        BY DEF AllThere
      <3>1. CASE x = e BY <3>1 DEF OnPage
      <3>2. CASE x # e
        BY <1>0, <1>3, <2>1, <3>2 DEF PInv, NoLoss, AllThere, OnPage
      <3> QED BY <3>1, <3>2
    <2> QED BY <2>2, <2>3 DEF NoLoss
  <1> QED BY <1>2, <1>4, <1>5, <1>6, <1>7 DEF PStep, PInv, RowsGrow

LEMMA UserEditsStep ==
  ASSUME TInv, PInv, ~muddled', NEW e \in Edit,
         Change(e) \/ AddItem(e) \/ ClearConfig(e) \/ SyncArrives(e)
  PROVE  PStep
  <1> USE AdminEditorAssumption
  <1>0. TypeOK BY DEF TInv
  <1>1. ASSUME MayEdit(e), NEW d \in Doc, Edited(e, d), d.of = file,
               config.of = file => d.edits = config.edits \cup {e},
               inner' = inner
        PROVE  PStep
    <2>1. /\ made[e] = None /\ config \in Doc /\ file \in Tab /\ ~inner
      BY <1>0, <1>1 DEF MayEdit, Fresh, TypeOK
    <2>2. Eligible /\ ~OffSchema BY <2>1 DEF Eligible, OffSchema
    <2>3. ~Unsettled /\ config.of = file /\ ~Loading
      BY <1>1, <2>2 DEF Edited, Noted, Unsettled
    <2>4. /\ dirty' = TRUE /\ config' = d /\ made' = [made EXCEPT ![e] = file]
          /\ exposed' = (IF save.tab = file THEN exposed \cup {e} ELSE exposed)
          /\ UNCHANGED <<row, file, version, save, loads, warned>>
      BY <1>1, <2>2, <2>3 DEF Edited, Noted, MarkDirty
    <2>5. OffSchema' => OffSchema BY <1>1, <2>4 DEF OffSchema
    <2> QED BY <1>1, <2>1, <2>2, <2>3, <2>4, <2>5, EditedStep
  <1>2. ASSUME MayEdit(e) PROVE config \in Doc /\ file \in Tab /\ Eligible
    BY <1>0, <1>2 DEF MayEdit, TypeOK, Eligible, OffSchema
  <1>3. ASSUME MayEdit(e), NEW d, Edited(e, d) PROVE config.of = file
    BY <1>2, <1>3 DEF Edited, Noted, Unsettled
  <1>4. CASE Change(e)
    BY <1>1, <1>2, <1>3, <1>4, DocTypes DEF Change
  <1>5. CASE AddItem(e)
    BY <1>1, <1>2, <1>3, <1>5, DocTypes DEF AddItem
  <1>6. CASE ClearConfig(e)
    <2> DEFINE E == {e} \cup IF config.of = file THEN config.edits ELSE {}
               d == [of |-> file, edits |-> E]
    <2>1. MayEdit(e) /\ Edited(e, d) /\ inner' = inner
      BY <1>6 DEF ClearConfig
    <2>2. E \in SUBSET Edit BY <1>2, <2>1, DocTypes
    <2>3. d \in Doc BY <1>2, <2>1, <2>2, DocMade
    <2>4. d.of = file /\ (config.of = file => d.edits = config.edits \cup {e}) OBVIOUS
    <2> HIDE DEF d, E
    <2> QED BY <1>1, <2>1, <2>3, <2>4
  <1>7. CASE SyncArrives(e)
    <2>1. /\ made[e] = None /\ inner' = FALSE
          /\ config' = (IF sync = "here" THEN With(config, e) ELSE config)
          /\ Noted(e, Schema, sync = "lost" \/ OffSchema)
          /\ sync \in {"here", "lost"}
          /\ UNCHANGED <<row, file, version, save, loads, warned>>
      BY <1>0, <1>7 DEF SyncArrives, Fresh, TypeOK
    <2>2. sync = "here" => config \in Doc /\ config.of = Schema
      BY <1>0, NoDocTypes DEF TInv, SyncHere, TypeOK
    <2>3. \/ config' = config
          \/ /\ config \in Doc /\ config.of = Schema
             /\ config' \in Doc /\ config'.of = Schema /\ config'.edits = config.edits \cup {e}
      BY <2>1, <2>2, DocTypes
    <2>4. sync = "here" => e \in config'.edits BY <2>1, <2>2, DocTypes
    <2>5. /\ made' = [made EXCEPT ![e] = Schema]
          /\ exposed' = (IF Unsettled \/ save.tab = file \/ sync = "lost" \/ OffSchema
                          THEN exposed \cup {e} ELSE exposed)
          /\ Eligible => dirty' = TRUE /\ ~Unsettled
          /\ ~Eligible => dirty' = dirty
      BY <2>1 DEF Noted, MarkDirty
    <2>6. Eligible => file \in Tab /\ ~OffSchema /\ ~Loading /\ config.of = file
      BY <2>5 DEF Eligible, Unsettled
    <2>7. e \notin exposed' => /\ sync = "here" /\ ~Unsettled /\ save.tab # file /\ ~OffSchema
                               /\ Eligible
      <3> SUFFICES ASSUME e \notin exposed' PROVE sync = "here" /\ ~Unsettled
                          /\ save.tab # file /\ ~OffSchema /\ Eligible
        OBVIOUS
      <3>1. sync = "here" /\ ~Unsettled /\ save.tab # file /\ ~OffSchema BY <2>1, <2>5
      <3>2. file = Schema BY <2>2, <3>1 DEF Unsettled
      <3> QED BY <3>1, <3>2 DEF Eligible
    <2>8. OffSchema' => OffSchema BY <2>1 DEF OffSchema
    <2>9. exposed \subseteq exposed' /\ exposed' \subseteq exposed \cup {e} BY <2>5
    <2>10. \/ dirty' = dirty
           \/ dirty' = TRUE /\ ~OffSchema /\ ~Loading /\ file \in Tab /\ config.of = file
      BY <2>5, <2>6
    <2>11. e \notin exposed' => dirty' /\ e \in config'.edits /\ save.tab # file /\ ~OffSchema
      BY <2>4, <2>5, <2>7
    <2>12. Schema \in Tab OBVIOUS
    <2> QED BY <2>1, <2>3, <2>5, <2>8, <2>9, <2>10, <2>11, <2>12, EditedStep
  <1> QED BY <1>4, <1>5, <1>6, <1>7

(* Copies that were current enough stay so.                                *)
CopiesStay ==
  \A doc, ver : doc.of \in Tab /\ ver \in Nat /\ Copies(ver, doc) =>
     /\ ver <= row'[doc.of].ver
     /\ ver = row'[doc.of].ver => row'[doc.of].doc.edits \subseteq doc.edits

(* A row that is written with what it held and more.                       *)
LEMMA RowWritten ==
  ASSUME TInv, PInv, NEW k \in Tab, NEW d \in Doc, d.of = k,
         row[k].doc.edits \subseteq d.edits,
         row'[k] = Saved(row[k], d), \A j \in Tab : j # k => row'[j] = row[j]
  PROVE  /\ RowsGrow
         /\ row'[k].ver = row[k].ver + 1 /\ row'[k].doc = d
         /\ \A j \in Tab : row'[j].doc.of = j /\ (j # k => row'[j] = row[j])
         /\ CopiesStay /\ Blank'
  <1>1. row \in [Tab -> Row] BY DEF TInv, TypeOK
  <1>2. row'[k].ver = row[k].ver + 1 /\ row'[k].doc = d /\ row[k].ver \in Nat
    BY <1>1, RowTypes
  <1>3. \A j \in Tab : j # k => row'[j] = row[j] BY <1>1
  <1>4. \A j \in Tab : row[j].ver \in Nat /\ row[j].doc.of = j
    BY <1>1, RowTypes DEF PInv, Own, OwnRows
  <1>5. RowsGrow BY <1>2, <1>3 DEF RowsGrow
  <1>6. \A j \in Tab : row'[j].doc.of = j BY <1>2, <1>3, <1>4
  <1>7. ASSUME NEW doc, NEW ver, doc.of \in Tab, ver \in Nat, Copies(ver, doc)
        PROVE  /\ ver <= row'[doc.of].ver
               /\ ver = row'[doc.of].ver =>
                    row'[doc.of].doc.edits \subseteq doc.edits
    <2>1. CASE doc.of = k BY <1>2, <1>4, <1>7, <2>1 DEF Copies
    <2>2. CASE doc.of # k BY <1>3, <1>7, <2>2 DEF Copies
    <2> QED BY <2>1, <2>2
  <1>8. CopiesStay BY <1>7 DEF CopiesStay
  <1>9. Blank' BY <1>2, <1>3 DEF PInv, Blank
  <1> QED BY <1>2, <1>3, <1>5, <1>6, <1>8, <1>9

(* The page when somebody writes a row.                                    *)
LEMMA PageStays ==
  ASSUME TInv, PInv, RowsGrow, CopiesStay,
         UNCHANGED <<file, config, version, inner, dirty, loads>>
  PROVE  /\ config' # NoDoc => Copies(version, config)'
         /\ \A s \in Slot : loads'[s].phase = "read" => Copies(loads[s].ver, loads[s].doc)'
         /\ DirtyShown'
  <1>1. config' # NoDoc => Copies(version, config)'
    BY CopiesOfTabs DEF PInv, Current, Copies, CopiesStay
  <1>2. ASSUME NEW s \in Slot, loads[s].phase = "read"
        PROVE  Copies(loads[s].ver, loads[s].doc)'
    <2>1. /\ Copies(loads[s].ver, loads[s].doc)
          /\ loads[s].ver \in Nat /\ loads[s].doc.of \in Tab
      BY <1>2, CopiesOfTabs DEF PInv, Current
    <2> QED BY <2>1 DEF Copies, CopiesStay
  <1>3. DirtyShown' BY DEF PInv, Waits, DirtyShown, Loading
  <1> QED BY <1>1, <1>2, <1>3

LEMMA RivalStep ==
  ASSUME TInv, PInv, NEW k \in Tab, NEW e \in Edit, RivalSaves(k, e)
  PROVE  PStep
  <1> USE AdminEditorAssumption
  <1>0. TypeOK /\ made[e] = None BY DEF TInv, RivalSaves, Fresh
  <1>a. /\ With(row[k].doc, e) \in Doc /\ With(row[k].doc, e).of = k
        /\ With(row[k].doc, e).edits = row[k].doc.edits \cup {e}
    BY <1>0, RowTypes, DocTypes DEF TypeOK, PInv, Own, OwnRows
  <1>b. PICK d \in Doc : d = With(row[k].doc, e)
    BY <1>a
  <1>1. /\ d \in Doc /\ d.of = k /\ d.edits = row[k].doc.edits \cup {e}
    BY <1>a, <1>b
  <1>2. /\ row' = [row EXCEPT ![k] = Saved(row[k], d)]
        /\ made' = [made EXCEPT ![e] = k]
        /\ UNCHANGED <<file, config, version, inner, dirty, save, loads, sync, warned, exposed>>
    BY <1>b DEF RivalSaves, shown, autosave, risks
  <1>3. /\ RowsGrow /\ row'[k].doc = d
        /\ \A j \in Tab : row'[j].doc.of = j /\ (j # k => row'[j] = row[j])
        /\ CopiesStay /\ Blank'
    <2>1. row'[k] = Saved(row[k], d) /\ \A j \in Tab : j # k => row'[j] = row[j]
      BY <1>0, <1>2 DEF TypeOK
    <2>2. row[k].doc.edits \subseteq d.edits BY <1>1
    <2> QED BY <1>1, <2>1, <2>2, RowWritten
  <1>4. ASSUME NEW x, MadeIn(x), x.of \in Tab
        PROVE  \A y \in x.edits : made'[y] = x.of
    BY <1>0, <1>2, <1>4 DEF MadeIn, TypeOK
  <1>5. Own'
    <2>1. OwnRows'
      <3> SUFFICES ASSUME NEW j \in Tab
                   PROVE  \A y \in row'[j].doc.edits : made'[y] = j
        BY <1>3 DEF OwnRows, MadeIn
      <3>1. \A y \in row[j].doc.edits : made'[y] = j
        BY <1>4 DEF PInv, Own, OwnRows
      <3>2. made'[e] = k BY <1>0, <1>2 DEF TypeOK
      <3> QED BY <1>1, <1>3, <3>1, <3>2
    <2>2. OwnConfig'
      BY <1>2, <1>4, NoDocTypes, CopiesOfTabs DEF PInv, Own, OwnConfig, MadeIn
    <2>3. OwnSave'
      BY <1>2, <1>4, CopiesOfTabs DEF PInv, Own, OwnSave, MadeIn, InFlight
    <2>4. OwnLoads'
      BY <1>2, <1>4, CopiesOfTabs DEF PInv, Own, OwnLoads, MadeIn
    <2> QED BY <2>1, <2>2, <2>3, <2>4 DEF Own
  <1>6. Waits'
    BY <1>2 DEF PInv, Waits, DirtyShown, SaveShown, Loading, InFlight
  <1>7. Current'
    <2>1. InFlight' => Copies(save.ver, save.doc)'
      BY <1>2, <1>3, CopiesOfTabs DEF PInv, Current, Copies, CopiesStay, InFlight
    <2> QED BY <1>2, <1>3, <2>1, PageStays DEF Current
  <1>8. SavedThere'
    BY <1>2, <1>3, CopiesOfTabs, IdleTypes DEF PInv, SavedThere, RowsGrow, InFlight
  <1>9. NoLoss'
    <2>1. ASSUME NEW x \in Edit, made[x] # None, Settled(x) PROVE Settled(x)'
      <3>1. made'[x] = made[x] BY <1>0, <1>2, <2>1 DEF TypeOK
      <3> QED BY <1>2, <1>3, <2>1, <3>1, SettledStays DEF Settled, OnItsWay
    <2>2. \A x \in config.edits : x \in Edit /\ made[x] # None
      BY <1>0, NoDocTypes, ConfigTypes, CopiesOfTabs DEF PInv, Own, OwnConfig, MadeIn
    <2>3. Served'
      BY <1>2, <2>1, <2>2 DEF PInv, NoLoss, Served, InFlight, OffSchema
    <2>4. Settled(e)'
      <3>1. made'[e] = k /\ e \in row'[k].doc.edits
        BY <1>0, <1>1, <1>2, <1>3 DEF TypeOK
      <3> QED BY <3>1 DEF Settled, Stored
    <2>5. AllThere'
      <3> SUFFICES ASSUME NEW x \in Edit \ exposed, made'[x] # None
                   PROVE  OnPage(x)' \/ Settled(x)'
        BY <1>2 DEF AllThere
      <3>1. CASE x = e BY <2>4, <3>1
      <3>2. CASE x # e
        <4>1. made'[x] = made[x] BY <1>0, <1>2, <3>2 DEF TypeOK
        <4> QED BY <1>2, <2>1, <4>1 DEF PInv, NoLoss, AllThere, OnPage
      <3> QED BY <3>1, <3>2
    <2> QED BY <2>3, <2>5 DEF NoLoss
  <1> QED BY <1>3, <1>5, <1>6, <1>7, <1>8, <1>9 DEF PStep, PInv

LEMMA SaveStep ==
  ASSUME TInv, PInv, ServerSaves PROVE PStep
  <1> USE AdminEditorAssumption
  <1>0. /\ TypeOK /\ InFlight /\ save.phase = "sent"
        /\ UNCHANGED <<file, config, version, inner, dirty, loads, sync, made, warned, exposed>>
    BY IdleTypes DEF TInv, ServerSaves, InFlight, shown, autosave, history, risks
  <1>a. save \in SaveRequest /\ save.tab \in Tab /\ save.doc \in Doc
    BY <1>0, CopiesOfTabs
  <1>k. PICK k \in Tab : k = save.tab BY <1>a
  <1>d. PICK d \in Doc : d = save.doc BY <1>a
  <1>1. /\ save \in SaveRequest /\ k \in Tab /\ d \in Doc /\ d.of = k
        /\ save.ver \in Nat /\ row[k] \in Row /\ row[k].ver \in Nat
    BY <1>0, <1>k, <1>d, CopiesOfTabs, RowTypes DEF TypeOK
  <1>2. Copies(save.ver, d) BY <1>0, <1>d DEF PInv, Current
  <1>3. ASSUME save' # Idle, save'.tab = k, save'.doc = d, RowsGrow
        PROVE  /\ SaveShown' /\ NoLoss'
    <2>1. SaveShown'
      BY <1>k, <1>d, <1>0, <1>3 DEF PInv, Waits, SaveShown, Loading, InFlight
    <2>2. ASSUME NEW x \in Edit, Settled(x) PROVE Settled(x)'
      <3>1. OnItsWay(x) => OnItsWay(x)' BY <1>d, <1>3 DEF OnItsWay
      <3> QED BY <1>0, <1>3, <2>2, <3>1, SettledStays DEF Settled
    <2>3. config.edits \subseteq Edit BY <1>0, ConfigTypes
    <2>4. Served'
      BY <1>k, <1>0, <1>3, <2>2, <2>3 DEF PInv, NoLoss, Served, InFlight, OffSchema
    <2>5. AllThere'
      BY <1>0, <2>2 DEF PInv, NoLoss, AllThere, OnPage
    <2> QED BY <2>1, <2>4, <2>5 DEF NoLoss
  <1>4. CASE Matches(save)
    <2>1. /\ row' = [row EXCEPT ![k] = Saved(row[k], d)]
          /\ save' = Outcome("saved", row[k].ver + 1)
      BY <1>k, <1>d, <1>4 DEF ServerSaves
    <2>2. row[k].doc.edits \subseteq d.edits
      BY <1>k, <1>d, <1>1, <1>2, <1>4 DEF Copies, Matches
    <2>3. /\ save' \in SaveRequest /\ save'.tab = k /\ save'.doc = d
          /\ save'.ver = row[k].ver + 1 /\ save' # Idle
      BY <1>k, <1>d, <1>1, <2>1, OutcomeTypes, SaveTypes
    <2>4. /\ RowsGrow /\ row'[k].ver = row[k].ver + 1 /\ row'[k].doc = d
          /\ \A j \in Tab : row'[j].doc.of = j /\ (j # k => row'[j] = row[j])
          /\ CopiesStay /\ Blank'
      <3>1. row'[k] = Saved(row[k], d) /\ \A j \in Tab : j # k => row'[j] = row[j]
        BY <1>0, <2>1 DEF TypeOK
      <3> QED BY <1>1, <2>2, <3>1, RowWritten
    <2>5. Own'
      <3>1. OwnRows'
        BY <1>k, <1>d, <1>0, <1>1, <2>4 DEF PInv, Own, OwnRows, OwnSave, MadeIn
      <3> QED BY <1>k, <1>d, <1>0, <1>1, <2>3, <3>1
              DEF PInv, Own, OwnConfig, OwnSave, OwnLoads, MadeIn, InFlight
    <2>6. Current'
      <3>1. Copies(save.ver, save.doc)'
        BY <1>k, <1>d, <1>1, <2>3, <2>4 DEF Copies
      <3> QED BY <1>0, <2>4, <3>1, PageStays DEF Current
    <2>7. SavedThere'
      BY <1>k, <1>d, <2>3, <2>4 DEF SavedThere
    <2> QED BY <1>0, <1>3, <2>3, <2>4, <2>5, <2>6, <2>7, PageStays DEF PStep, PInv, Waits
  <1>5. CASE ~Matches(save)
    <2>1. row' = row /\ save' = Outcome("refused", save.ver)
      BY <1>k, <1>d, <1>5 DEF ServerSaves
    <2>2. /\ save' \in SaveRequest /\ save'.tab = k /\ save'.doc = d
          /\ save'.ver = save.ver /\ save' # Idle /\ save'.phase = "refused"
      BY <1>k, <1>d, <1>1, <2>1, OutcomeTypes, SaveTypes
    <2>3. Own'
      BY <1>k, <1>d, <1>0, <2>1, <2>2
         DEF PInv, Own, OwnRows, OwnConfig, OwnSave, OwnLoads, MadeIn, InFlight
    <2>4. Current' /\ Blank'
      BY <1>k, <1>d, <1>0, <2>1, <2>2 DEF PInv, Current, Copies, InFlight, Blank
    <2>5. SavedThere' BY <1>k, <1>d, <2>2 DEF SavedThere
    <2>6. RowsGrow BY <2>1 DEF RowsGrow
    <2>7. DirtyShown' BY <1>0 DEF PInv, Waits, DirtyShown, Loading
    <2> QED BY <1>3, <2>2, <2>3, <2>4, <2>5, <2>6, <2>7 DEF PStep, PInv, Waits
  <1> QED BY <1>4, <1>5

(* The answers: an edit the page lets go of is stored, or the user is told. *)
LEMMA AnswerStep ==
  ASSUME TInv, PInv, Answers PROVE PStep
  <1> USE AdminEditorAssumption
  <1>0. /\ TypeOK /\ InFlight /\ save' = Idle
        /\ UNCHANGED <<row, file, config, inner, loads, sync, made, exposed>>
        /\ warned \subseteq warned' /\ dirty' \in {dirty, FALSE}
    BY IdleTypes DEF TInv, Answers, AnswerSuccess, AnswerFailure, InFlight, MarkClean, Told,
                     shown, history, risks
  <1>1. RowsGrow BY <1>0 DEF RowsGrow
  <1>2. Own'
    BY <1>0 DEF PInv, Own, OwnRows, OwnConfig, OwnSave, OwnLoads, MadeIn, InFlight
  <1>3. Waits'
    <2>1. dirty' => dirty BY DEF Answers, AnswerSuccess, AnswerFailure, MarkClean
    <2>2. DirtyShown' BY <1>0, <2>1 DEF PInv, Waits, DirtyShown, Loading
    <2> QED BY <1>0, <2>2 DEF Waits, SaveShown, InFlight
  <1>4. SavedThere' /\ Blank' BY <1>0, IdleTypes DEF PInv, SavedThere, Blank
  <1>5. /\ save \in SaveRequest /\ save.tab \in Tab /\ save.doc \in Doc
        /\ save.doc.of = save.tab /\ MadeIn(save.doc) /\ save.ver \in Nat
        /\ Copies(save.ver, save.doc)
    BY <1>0, CopiesOfTabs DEF PInv, Own, OwnSave, Current
  <1>6. ASSUME NEW x \in Edit, Settled(x) PROVE Settled(x)'
    <2>1. CASE AnswerSuccess
      <3>1. save.doc.edits \subseteq row[save.tab].doc.edits
        BY <2>1 DEF PInv, SavedThere, AnswerSuccess
      <3>2. OnItsWay(x) => Stored(x)
        BY <1>5, <3>1 DEF MadeIn, Stored, OnItsWay
      <3> QED BY <1>0, <1>6, <3>2 DEF Settled, Stored
    <2>2. CASE AnswerFailure
      <3>1. OnItsWay(x) => x \in warned' BY <2>2 DEF AnswerFailure, Told, OnItsWay
      <3> QED BY <1>0, <1>6, <3>1 DEF Settled, Stored
    <2> QED BY <2>1, <2>2 DEF Answers
  <1>7. NoLoss'
    <2>1. config.edits \subseteq Edit BY <1>0, ConfigTypes
    <2>2. Served'
      BY <1>0, <1>6, <2>1 DEF PInv, NoLoss, Served, InFlight, OffSchema
    <2>3. dirty' = dirty \/ (InFlight /\ file = save.tab)
      BY <1>0 DEF Answers, AnswerSuccess, AnswerFailure
    <2>4. AllThere'
      <3> SUFFICES ASSUME NEW x \in Edit \ exposed, made[x] # None
                   PROVE  OnPage(x)' \/ Settled(x)'
        BY <1>0 DEF AllThere
      <3>1. OnPage(x) \/ Settled(x) BY DEF PInv, NoLoss, AllThere
      <3>2. CASE Settled(x) BY <1>6, <3>2
      <3>3. CASE OnPage(x) /\ dirty' = dirty BY <1>0, <3>3 DEF OnPage
      <3>4. CASE OnPage(x) /\ InFlight /\ file = save.tab
        <4>1. Settled(x) BY <3>4 DEF PInv, NoLoss, Served, OnPage
        <4> QED BY <1>6, <4>1
      <3> QED BY <2>3, <3>1, <3>2, <3>3, <3>4
    <2> QED BY <2>2, <2>4 DEF NoLoss
  <1>8. config # NoDoc => Copies(version', config)
    <2>1. CASE version' = version BY <2>1 DEF PInv, Current
    <2>2. CASE version' # version
      <3>1. version' = save.ver /\ file = save.tab
        BY <2>2 DEF Answers, AnswerSuccess, AnswerFailure, NextVersion, shown
      <3>2. config.of = save.tab /\ save.doc.edits \subseteq config.edits
        BY <1>0, <3>1 DEF PInv, Waits, SaveShown
      <3> QED BY <1>5, <3>1, <3>2 DEF Copies
    <2> QED BY <2>1, <2>2
  <1>9. Current' BY <1>0, <1>8 DEF PInv, Current, Copies, InFlight
  <1> QED BY <1>1, <1>2, <1>3, <1>4, <1>7, <1>9 DEF PStep, PInv

(* The requests that load a document: nothing waits to be saved meanwhile. *)
LEMMA ReadStep ==
  ASSUME TInv, PInv, NEW s \in Slot, ServerReads(s) PROVE PStep
  <1>0. TypeOK BY DEF TInv
  <1>1. /\ loads[s] \in LoadRequest /\ loads[s] # Free /\ Loading
        /\ loads' = [loads EXCEPT ![s] = Answered(loads[s])]
        /\ UNCHANGED <<row, file, config, version, inner, dirty, save, sync, made, warned, exposed>>
    BY <1>0, FreeTypes
       DEF ServerReads, TypeOK, Loading, shown, autosave, history, risks
  <1>2. /\ loads[s].tab \in Tab /\ Answered(loads[s]).tab = loads[s].tab
        /\ Answered(loads[s]).ver = row[loads[s].tab].ver
        /\ Answered(loads[s]).doc = row[loads[s].tab].doc
    BY <1>0, <1>1, AnswerTypes, LoadTypes DEF TypeOK
  <1>3. /\ \A o \in Slot : o # s => loads'[o] = loads[o]
        /\ loads'[s] = Answered(loads[s])
    BY <1>0, <1>1 DEF TypeOK
  <1>4. row[loads[s].tab] \in Row /\ row[loads[s].tab].ver \in Nat
    BY <1>0, <1>2, RowTypes DEF TypeOK
  <1>5. OwnLoads'
    BY <1>1, <1>2, <1>3 DEF PInv, Own, OwnRows, OwnLoads, MadeIn
  <1>6. Own'
    BY <1>1, <1>5 DEF PInv, Own, OwnRows, OwnConfig, OwnSave, MadeIn, InFlight
  <1>7. Waits'
    BY <1>1 DEF PInv, Waits, DirtyShown, SaveShown, InFlight
  <1>8. \A o \in Slot : loads'[o].phase = "read" => Copies(loads[o].ver, loads[o].doc)'
    <2> SUFFICES ASSUME NEW o \in Slot, loads'[o].phase = "read"
                 PROVE  Copies(loads[o].ver, loads[o].doc)'
      OBVIOUS
    <2>1. CASE o = s
      BY <1>1, <1>2, <1>3, <1>4, <2>1 DEF PInv, Own, OwnRows, Copies
    <2>2. CASE o # s
      BY <1>1, <1>3, <2>2 DEF PInv, Current, Copies
    <2> QED BY <2>1, <2>2
  <1>9. Current' BY <1>1, <1>8 DEF PInv, Current, Copies, InFlight
  <1>10. NoLoss'
    BY <1>1 DEF PInv, NoLoss, Served, AllThere, Settled, Stored, OnPage, OnItsWay, OffSchema, InFlight
  <1> QED BY <1>1, <1>6, <1>7, <1>9, <1>10 DEF PInv, PStep, RowsGrow, SavedThere, Blank

(* The end of a load, with a document for the page or without.             *)
LEMMA LoadEnds ==
  ASSUME TInv, PInv, NEW s \in Slot, loads[s] # Free,
         loads' = [loads EXCEPT ![s] = Free],
         UNCHANGED <<row, file, save, made, warned, exposed>>, dirty' => dirty,
         MadeIn(config') /\ (config' # NoDoc => Copies(version', config'))
  PROVE  PStep
  <1>0. TypeOK BY DEF TInv
  <1>1. Loading BY DEF Loading
  <1>2. ~dirty /\ ~dirty' /\ (InFlight => file # save.tab)
    BY <1>1 DEF PInv, Waits, DirtyShown, SaveShown
  <1>3. \A o \in Slot : loads'[o] = Free \/ loads'[o] = loads[o]
    BY <1>0 DEF TypeOK
  <1>4. \A o \in Slot : loads'[o].phase = "read" => loads'[o] = loads[o]
    BY <1>3, FreeTypes
  <1>5. Own'
    BY <1>4 DEF PInv, Own, OwnRows, OwnConfig, OwnSave, OwnLoads, MadeIn, InFlight
  <1>6. Waits' BY <1>2 DEF Waits, DirtyShown, SaveShown, InFlight
  <1>7. Current' BY <1>4 DEF PInv, Current, Copies, InFlight
  <1>8. NoLoss'
    BY <1>2 DEF PInv, NoLoss, Served, AllThere, Settled, Stored, OnPage, OnItsWay, InFlight
  <1> QED BY <1>5, <1>6, <1>7, <1>8 DEF PInv, PStep, RowsGrow, SavedThere, Blank

LEMMA ArrivesStep ==
  ASSUME TInv, PInv, NEW s \in Slot, Arrives(s) PROVE PStep
  <1>0. TypeOK BY DEF TInv
  <1>1. CASE ServerReads(s) BY <1>1, ReadStep
  <1>2. CASE LoadArrives(s)
    <2>1. /\ loads[s].phase = "read" /\ loads[s] # Free
          /\ loads' = [loads EXCEPT ![s] = Free]
          /\ config' = loads[s].doc /\ version' = loads[s].ver /\ dirty' = FALSE
          /\ UNCHANGED <<row, file, save, made, warned, exposed>>
      BY <1>2, FreeTypes DEF LoadArrives, Shows, MarkClean, history, risks
    <2>2. MadeIn(loads[s].doc) /\ Copies(loads[s].ver, loads[s].doc)
      BY <2>1 DEF PInv, Own, OwnLoads, Current
    <2> QED BY <2>1, <2>2, LoadEnds
  <1>3. CASE LoadRefused(s)
    <2>1. /\ loads[s] # Free /\ loads' = [loads EXCEPT ![s] = Free]
          /\ config' = [of |-> loads[s].tab, edits |-> {}] /\ version' = 0 /\ dirty' = FALSE
          /\ UNCHANGED <<row, file, save, made, warned, exposed>>
      BY <1>3 DEF LoadRefused, Shows, MarkClean, history, risks
    <2>2. loads[s].tab \in Tab BY <1>0, <2>1, LoadTypes DEF TypeOK
    <2>3. row[loads[s].tab].ver \in Nat BY <1>0, <2>2, RowTypes DEF TypeOK
    <2>4. config'.of = loads[s].tab /\ config'.edits = {} BY <2>1
    <2>5. MadeIn(config') BY <2>4 DEF MadeIn
    <2>6. Copies(version', config') BY <2>1, <2>2, <2>3, <2>4 DEF Copies, PInv, Blank
    <2> QED BY <2>1, <2>5, <2>6, LoadEnds
  <1>4. CASE LoadFails(s)
    <2>1. /\ loads[s] # Free /\ loads' = [loads EXCEPT ![s] = Free]
          /\ UNCHANGED <<row, file, config, version, dirty, save, made, warned, exposed>>
      BY <1>4 DEF LoadFails, shown, autosave, history, risks
    <2>2. MadeIn(config') /\ (config' # NoDoc => Copies(version', config'))
      BY <2>1 DEF PInv, Own, OwnConfig, Current
    <2> QED BY <2>1, <2>2, LoadEnds
  <1> QED BY <1>1, <1>2, <1>3, <1>4 DEF Arrives

(* What is left to save when an inner page is opened is no longer claimed. *)
LEMMA InnerStep ==
  ASSUME TInv, PInv, OpenInner \/ CloseInner \/ AskSync \/ SyncFindsNothing
  PROVE  PStep
  <1>1. /\ UNCHANGED <<row, file, config, version, dirty, save, loads, made, warned>>
        /\ exposed \subseteq exposed'
    BY DEF OpenInner, CloseInner, AskSync, SyncFindsNothing, shown, autosave, history, risks
  <1>2. Waits'
    BY <1>1 DEF PInv, Waits, DirtyShown, SaveShown, InFlight, Loading
  <1>3. Own'
    BY <1>1 DEF PInv, Own, OwnRows, OwnConfig, OwnSave, OwnLoads, MadeIn, InFlight
  <1>4. Current' BY <1>1 DEF PInv, Current, Copies, InFlight
  <1>5. \A x : Settled(x)' <=> Settled(x)
    BY <1>1 DEF Settled, Stored, OnItsWay
  <1>6. AllThere' BY <1>1, <1>5 DEF PInv, NoLoss, AllThere, OnPage
  <1>7. Served'
    <2>1. CASE OpenInner
      <3>1. dirty => \A x \in config.edits \ exposed' : Settled(x)
        BY <2>1 DEF OpenInner, Lost, Settled, OnItsWay
      <3> QED BY <1>1, <1>5, <3>1 DEF PInv, NoLoss, Served, InFlight
    <2>2. CASE CloseInner \/ AskSync \/ SyncFindsNothing
      <3>1. OffSchema' => OffSchema
        BY <1>1, <2>2 DEF CloseInner, AskSync, SyncFindsNothing, OffSchema, shown
      <3> QED BY <1>1, <1>5, <3>1 DEF PInv, NoLoss, Served, InFlight
    <2> QED BY <2>1, <2>2
  <1> QED BY <1>1, <1>2, <1>3, <1>4, <1>6, <1>7
          DEF PInv, PStep, RowsGrow, SavedThere, NoLoss, Blank

(* What there is to save is the open tab's document, and can be posted     *)
(* unless an inner page is open.                                           *)
LEMMA DirtyToSave ==
  ASSUME TInv, PInv, dirty
  PROVE  /\ ~InFlight => ToSave \/ OffSchema
         /\ config \in Doc /\ file \in Tab /\ config.of = file /\ version \in Nat
         /\ ~Loading /\ Unsaved = config.edits /\ config # NoDoc
  <1>1. file \in Tab /\ config.of = file /\ ~Loading
    BY DEF PInv, Waits, DirtyShown
  <1>2. TypeOK /\ config \in Doc
    BY <1>1, NoDocTypes, AdminEditorAssumption DEF TInv, TypeOK
  <1>3. config # NoDoc BY <1>2, DocTypes
  <1> QED BY <1>1, <1>2, <1>3 DEF ToSave, Eligible, Unsaved, TypeOK

(* The document is posted under its own key.                               *)
LEMMA PostedStep ==
  ASSUME TInv, PInv, dirty, save' = RequestFor(file), UNCHANGED <<row, made>>
  PROVE  /\ save' # Idle /\ save'.tab = file /\ save'.doc = config
         /\ OwnSave' /\ Copies(save.ver, save.doc)' /\ SavedThere'
  <1>1. /\ save' \in SaveRequest /\ save'.tab = file /\ save'.doc = config
        /\ save'.ver = version /\ save'.phase = "sent"
    BY DirtyToSave, RequestTypes
  <1>2. save' # Idle BY <1>1, SaveTypes
  <1>3. Copies(save.ver, save.doc)' BY <1>1, DirtyToSave DEF PInv, Current, Copies
  <1>4. OwnSave' BY <1>1, DirtyToSave DEF PInv, Own, OwnConfig, OwnSave, MadeIn
  <1> QED BY <1>1, <1>2, <1>3, <1>4 DEF SavedThere

LEMMA FlushStep ==
  ASSUME TInv, PInv, TimerFires \/ Hide PROVE PStep
  <1>0. /\ FlushAutosave /\ dirty /\ TypeOK
        /\ UNCHANGED <<row, file, config, version, inner, loads, sync, made, exposed>>
    BY DEF TimerFires, Hide, TInv, TimerIsAlone, shown, risks
  <1>1. RowsGrow /\ Blank' BY <1>0 DEF RowsGrow, PInv, Blank
  <1>2. OwnRows' /\ OwnConfig' /\ OwnLoads'
    BY <1>0 DEF PInv, Own, OwnRows, OwnConfig, OwnLoads, MadeIn
  <1>3. ASSUME save' = save, dirty' \in {dirty, FALSE}, warned \subseteq warned',
               ~dirty' => ~InFlight /\ OffSchema
        PROVE  PStep
    <2>1. OwnSave' BY <1>0, <1>3 DEF PInv, Own, OwnSave, MadeIn, InFlight
    <2>2. DirtyShown' BY <1>0, DirtyToSave DEF DirtyShown, Loading
    <2>3. SaveShown' BY <1>0, <1>3 DEF PInv, Waits, SaveShown, InFlight, Loading
    <2>4. Current' BY <1>0, <1>3 DEF PInv, Current, Copies, InFlight
    <2>5. SavedThere' BY <1>0, <1>3 DEF PInv, SavedThere
    <2>6. \A x : Settled(x) => Settled(x)'
      BY <1>0, <1>3 DEF Settled, Stored, OnItsWay
    <2>7. Served' BY <1>0, <1>3, <2>6 DEF PInv, NoLoss, Served, InFlight, OffSchema
    <2>8. AllThere'
      <3>1. ASSUME NEW x \in Edit \ exposed, OnPage(x) PROVE OnPage(x)' \/ Settled(x)'
        <4>1. CASE dirty' BY <1>0, <3>1, <4>1 DEF OnPage
        <4>2. CASE ~dirty'
          BY <1>0, <1>3, <2>6, <3>1, <4>2 DEF PInv, NoLoss, Served, OnPage
        <4> QED BY <4>1, <4>2
      <3> QED BY <1>0, <2>6, <3>1 DEF PInv, NoLoss, AllThere
    <2> QED BY <1>1, <1>2, <2>1, <2>2, <2>3, <2>4, <2>5, <2>7, <2>8
            DEF PInv, PStep, Own, Waits, NoLoss
  <1>4. CASE FlushBusy    BY <1>0, <1>3, <1>4 DEF FlushBusy
  <1>5. CASE FlushForgets
    <2>1. ~InFlight /\ OffSchema BY <1>0, <1>5, DirtyToSave DEF FlushForgets
    <2> QED BY <1>3, <1>5, <2>1 DEF FlushForgets, MarkClean
  <1>6. CASE FlushInvalid BY <1>0, <1>3, <1>6 DEF FlushInvalid
  <1>7. CASE FlushPosts
    <2>1. /\ ~InFlight /\ save' = RequestFor(file) /\ dirty' = dirty /\ warned' = warned
      BY <1>7 DEF FlushPosts, ToSave
    <2>2. /\ save' # Idle /\ save'.tab = file /\ save'.doc = config
          /\ OwnSave' /\ Copies(save.ver, save.doc)' /\ SavedThere'
      BY <1>0, <2>1, PostedStep
    <2>3. Waits'
      BY <1>0, <2>1, <2>2, DirtyToSave DEF Waits, DirtyShown, SaveShown, Loading
    <2>4. Current' BY <1>0, <2>2 DEF PInv, Current, Copies
    <2>5. \A x : Settled(x) => Settled(x)'
      BY <1>0, <2>1, SaveEdits DEF Settled, Stored, OnItsWay
    <2>6. \A x \in config.edits : Settled(x)' BY <2>2 DEF Settled, OnItsWay
    <2>7. NoLoss'
      BY <1>0, <2>5, <2>6 DEF PInv, NoLoss, Served, AllThere, OnPage
    <2> QED BY <1>1, <1>2, <2>2, <2>3, <2>4, <2>7 DEF PStep, PInv, Own
  <1> QED BY <1>0, <1>4, <1>5, <1>6, <1>7 DEF FlushAutosave

(* A click on a tab takes with it what was to be saved, or the user is told. *)
LEMMA LeaveTabStep ==
  ASSUME TInv, PInv, NEW t, LeaveTab(t), UNCHANGED <<row, made, exposed>>, dirty' = FALSE
  PROVE  /\ AllThere'
         /\ \/ save' = save
            \/ dirty /\ ~InFlight /\ save' = RequestFor(file)
  <1>0. TypeOK BY DEF TInv
  <1>1. ASSUME \A x : Settled(x) => Settled(x)',
               dirty => \A x \in config.edits \ exposed : Settled(x)'
        PROVE  AllThere'
    BY <1>1 DEF PInv, NoLoss, AllThere, OnPage
  <1>2. CASE dirty /\ ToSave
    <2>1. ~InFlight BY <1>2 DEF ToSave
    <2>2. \/ save' = RequestFor(file) /\ warned \subseteq warned'
          \/ save' = save /\ warned' = warned \cup config.edits
      BY <1>2, DirtyToSave DEF LeaveTab, FlushKey
    <2>3. save' = RequestFor(file) => save'.doc = config
      BY <1>2, DirtyToSave, RequestTypes
    <2>4. \A x : Settled(x) => Settled(x)'
      BY <1>0, <2>1, <2>2, SaveEdits DEF Settled, Stored, OnItsWay
    <2>5. \A x \in config.edits : Settled(x)'
      BY <2>2, <2>3 DEF Settled, OnItsWay
    <2> QED BY <1>1, <1>2, <2>1, <2>2, <2>4, <2>5
  <1>3. CASE dirty /\ InFlight
    <2>1. save' = save /\ warned' = warned \cup config.edits
      BY <1>3, DirtyToSave DEF LeaveTab, ToSave, Asked
    <2>2. \A x : Settled(x) => Settled(x)' BY <2>1 DEF Settled, Stored, OnItsWay
    <2>3. \A x \in config.edits : Settled(x)' BY <2>1 DEF Settled
    <2> QED BY <1>1, <2>1, <2>2, <2>3
  <1>4. CASE dirty /\ ~InFlight /\ ~ToSave
    <2>1. save' = save /\ warned \subseteq warned'
      BY <1>4 DEF LeaveTab
    <2>2. \A x : Settled(x) => Settled(x)' BY <2>1 DEF Settled, Stored, OnItsWay
    <2>3. OffSchema BY <1>4, DirtyToSave
    <2>4. \A x \in config.edits \ exposed : Settled(x)
      BY <1>4, <2>3 DEF PInv, NoLoss, Served
    <2> QED BY <1>1, <2>1, <2>2, <2>4
  <1>5. CASE ~dirty
    <2>1. save' = save /\ warned \subseteq warned'
      BY <1>5 DEF LeaveTab, ToSave
    <2>2. \A x : Settled(x) => Settled(x)' BY <2>1 DEF Settled, Stored, OnItsWay
    <2> QED BY <1>1, <1>5, <2>1, <2>2
  <1> QED BY <1>2, <1>3, <1>4, <1>5

(* After the click the page is clean; what was posted is another tab's.    *)
LEMMA OpensStep ==
  ASSUME TInv, PInv, ~muddled', Opens PROVE PStep
  <1> USE AdminEditorAssumption
  <1>0. TypeOK BY DEF TInv
  <1>1. ASSUME NEW t, LeaveTab(t), UNCHANGED <<row, made, exposed, version>>, dirty' = FALSE,
               file' = t, save'.tab # t,
               config' = config \/ config' = NoDoc,
               \A s \in Slot : loads'[s].phase = "read" => loads'[s] = loads[s]
        PROVE  PStep
    <2>1. AllThere' /\ \/ save' = save
                       \/ dirty /\ ~InFlight /\ save' = RequestFor(file)
      BY <1>1, LeaveTabStep
    <2>2. OwnRows' BY <1>1 DEF PInv, Own, OwnRows, MadeIn
    <2>3. OwnConfig' BY <1>1, NoDocTypes DEF PInv, Own, OwnConfig, MadeIn
    <2>4. OwnLoads' BY <1>1 DEF PInv, Own, OwnLoads, MadeIn
    <2>5. config' # NoDoc => Copies(version, config)'
      BY <1>1 DEF PInv, Current, Copies
    <2>6. \A s \in Slot : loads'[s].phase = "read" => Copies(loads[s].ver, loads[s].doc)'
      BY <1>1 DEF PInv, Current, Copies
    <2>7. Waits' BY <1>1 DEF Waits, DirtyShown, SaveShown
    <2>8. NoLoss' BY <1>1, <2>1 DEF NoLoss, Served
    <2>9. RowsGrow /\ Blank' BY <1>1 DEF RowsGrow, PInv, Blank
    <2>10. OwnSave' /\ SavedThere' /\ (InFlight' => Copies(save.ver, save.doc)')
      <3>1. CASE save' = save
        BY <1>1, <3>1 DEF PInv, Own, OwnSave, MadeIn, InFlight, SavedThere, Current, Copies
      <3>2. CASE dirty /\ ~InFlight /\ save' = RequestFor(file)
        BY <1>1, <3>2, PostedStep
      <3> QED BY <2>1, <3>1, <3>2
    <2> QED BY <2>2, <2>3, <2>4, <2>5, <2>6, <2>7, <2>8, <2>9, <2>10
            DEF PStep, PInv, Own, Current
  <1>2. ASSUME NEW p \in Page, OpenPage(p) PROVE PStep
    <2>1. /\ LeaveTab(p) /\ file' = p /\ config' = NoDoc /\ dirty' = FALSE
          /\ UNCHANGED <<row, version, loads, made, exposed>>
      BY <1>2 DEF OpenPage, MarkClean, risks
    <2>2. p \notin Tab /\ p # None OBVIOUS
    <2>3. save' \in SaveRequest \cup {Idle} BY <1>0, <2>1, LeaveTabTypes
    <2>4. save'.tab # p BY <2>2, <2>3, SaveTypes, IdleTypes
    <2> QED BY <1>1, <2>1, <2>4
  <1>3. ASSUME NEW t \in Tab, NEW s \in Slot, OpenTab(t, s) PROVE PStep
    <2>1. /\ LeaveTab(t) /\ save'.tab # t /\ file' = t /\ dirty' = FALSE
          /\ loads' = [loads EXCEPT ![s] = LoadOf(t)]
          /\ UNCHANGED <<row, config, version, made, exposed>>
      BY <1>3 DEF OpenTab, MarkClean, shown
    <2>2. \A o \in Slot : loads'[o] = LoadOf(t) \/ loads'[o] = loads[o]
      BY <1>0, <2>1 DEF TypeOK
    <2>3. \A o \in Slot : loads'[o].phase = "read" => loads'[o] = loads[o]
      BY <2>2, LoadMade
    <2> QED BY <1>1, <2>1, <2>3
  <1> QED BY <1>2, <1>3 DEF Opens

LEMMA CloseStep ==
  ASSUME TInv, PInv, ClosePage PROVE PStep
  <1> USE AdminEditorAssumption
  <1>0. TypeOK BY DEF TInv
  <1>1. /\ file' \in Page /\ config' = NoDoc /\ dirty' = FALSE
        /\ save' = Idle /\ loads' = [s \in Slot |-> Free]
        /\ made' = made /\ warned' = warned \cup IF dirty THEN config.edits ELSE {}
        /\ exposed' = exposed \cup Lost(save.doc.edits)
    BY DEF ClosePage, MarkClean, Unsaved
  <1>2. RowsGrow /\ Blank' /\ OwnRows'
    <2>1. CASE row' = row
      BY <1>1, <2>1 DEF RowsGrow, PInv, Own, OwnRows, MadeIn, Blank
    <2>2. CASE save.phase = "sent" /\ Matches(save)
               /\ row' = [row EXCEPT ![save.tab] = Saved(row[save.tab], save.doc)]
      <3>1. InFlight BY <2>2, IdleTypes DEF InFlight
      <3>2. /\ save.tab \in Tab /\ save.doc \in Doc /\ save.doc.of = save.tab
            /\ MadeIn(save.doc) /\ Copies(save.ver, save.doc)
        BY <3>1, CopiesOfTabs DEF PInv, Own, OwnSave, Current
      <3>k. PICK k \in Tab : k = save.tab BY <3>2
      <3>d. PICK d \in Doc : d = save.doc BY <3>2
      <3>3. row[k].doc.edits \subseteq d.edits
        BY <2>2, <3>2, <3>k, <3>d DEF Copies, Matches
      <3>4. row'[k] = Saved(row[k], d) /\ \A j \in Tab : j # k => row'[j] = row[j]
        BY <1>0, <2>2, <3>k, <3>d DEF TypeOK
      <3>5. d.of = k BY <3>2, <3>k, <3>d
      <3>6. /\ RowsGrow /\ row'[k].doc = d /\ Blank'
            /\ \A j \in Tab : row'[j].doc.of = j /\ (j # k => row'[j] = row[j])
        BY <3>3, <3>4, <3>5, RowWritten
      <3>7. OwnRows'
        BY <1>1, <3>2, <3>d, <3>6 DEF PInv, Own, OwnRows, MadeIn
      <3> QED BY <3>6, <3>7
    <2> QED BY <2>1, <2>2 DEF ClosePage
  <1>3. OwnConfig' /\ OwnSave' /\ OwnLoads'
    BY <1>1, NoDocTypes, FreeTypes DEF OwnConfig, OwnSave, OwnLoads, MadeIn, InFlight
  <1>4. Waits' BY <1>1 DEF Waits, DirtyShown, SaveShown, InFlight
  <1>5. Current' BY <1>1, FreeTypes DEF Current, InFlight
  <1>6. SavedThere' BY <1>1, IdleTypes DEF SavedThere
  <1>7. Served' BY <1>1, NoDocTypes DEF Served
  <1>8. AllThere'
    <2> SUFFICES ASSUME NEW x \in Edit \ exposed', made[x] # None PROVE Settled(x)'
      BY <1>1 DEF AllThere
    <2>1. OnPage(x) \/ Settled(x) BY <1>1 DEF PInv, NoLoss, AllThere
    <2>2. Stored(x) => Stored(x)' BY <1>1, <1>2 DEF Stored, RowsGrow
    <2>3. OnItsWay(x) => Stored(x) BY <1>1 DEF OnItsWay, Lost
    <2>4. OnPage(x) => x \in warned' BY <1>1 DEF OnPage
    <2> QED BY <1>1, <2>1, <2>2, <2>3, <2>4 DEF Settled
  <1> QED BY <1>2, <1>3, <1>4, <1>5, <1>6, <1>7, <1>8 DEF PStep, PInv, Own, NoLoss

(* No step takes the mark back, and a step that makes it writes no row.    *)
LEMMA MuddledStep ==
  ASSUME TInv, [Next]_vars
  PROVE  (muddled => muddled') /\ (~muddled /\ muddled' => row' = row)
  <1> USE DEF history, risks
  <1>1. CASE UNCHANGED vars BY <1>1 DEF vars
  <1>2. ASSUME NEW e \in Edit, Edits(e)
        PROVE  (muddled => muddled') /\ (~muddled /\ muddled' => row' = row)
    <2>1. ASSUME NEW t, NEW r, Noted(e, t, r) PROVE muddled => muddled'
      BY <2>1 DEF Noted
    <2>2. ASSUME NEW d, Edited(e, d) PROVE row' = row /\ (muddled => muddled')
      BY <2>1, <2>2 DEF Edited
    <2>3. CASE Change(e) BY <2>2, <2>3 DEF Change
    <2>4. CASE AddItem(e) BY <2>2, <2>4 DEF AddItem
    <2>5. CASE ClearConfig(e) BY <2>2, <2>5 DEF ClearConfig
    <2>6. CASE SyncArrives(e) BY <2>1, <2>6 DEF SyncArrives
    <2>7. ASSUME NEW k \in Tab, RivalSaves(k, e) PROVE muddled' = muddled
      BY <2>7 DEF RivalSaves
    <2> QED BY <1>2, <2>3, <2>4, <2>5, <2>6, <2>7 DEF Edits
  <1>3. ASSUME Opens
        PROVE  (muddled => muddled') /\ (~muddled /\ muddled' => row' = row)
    BY <1>3 DEF Opens, OpenPage, OpenTab, TInv, TypeOK
  <1>4. ASSUME OpenInner \/ CloseInner \/ AskSync \/ SyncFindsNothing \/ TimerFires \/ Hide
        PROVE  muddled' = muddled
    BY <1>4 DEF OpenInner, CloseInner, AskSync, SyncFindsNothing, TimerFires, Hide
  <1>5. ASSUME NEW s \in Slot, Arrives(s) PROVE muddled' = muddled
    BY <1>5 DEF Arrives, ServerReads, LoadArrives, LoadRefused, LoadFails, Shows
  <1>6. ASSUME ServerSaves \/ Answers \/ ClosePage PROVE muddled' = muddled
    BY <1>6 DEF ServerSaves, Answers, AnswerSuccess, AnswerFailure, ClosePage
  <1> QED BY <1>1, <1>2, <1>3, <1>4, <1>5, <1>6 DEF Next

LEMMA CInvStep == CInv /\ [Next]_vars => CInv' /\ (~muddled => RowsGrow)
  <1> SUFFICES ASSUME CInv, [Next]_vars PROVE CInv' /\ (~muddled => RowsGrow)
    OBVIOUS
  <1>1. TInv /\ TInv' BY TInvStep DEF CInv
  <1>2. ASSUME ~muddled, ~muddled' PROVE PStep
    <2>0. PInv BY <1>2 DEF CInv
    <2>1. CASE UNCHANGED vars
      <3> USE <2>0, <2>1 DEF vars, shown, autosave, history, risks
      <3>1. Own' BY DEF PInv, Own, OwnRows, OwnConfig, OwnSave, OwnLoads, MadeIn, InFlight
      <3>2. Waits' BY DEF PInv, Waits, DirtyShown, SaveShown, InFlight, Loading
      <3>3. Current' BY DEF PInv, Current, Copies, InFlight
      <3>4. NoLoss'
        BY DEF PInv, NoLoss, Served, AllThere, Settled, Stored, OnPage, OnItsWay, InFlight, OffSchema
      <3> QED BY <3>1, <3>2, <3>3, <3>4 DEF PStep, PInv, RowsGrow, SavedThere, Blank
    <2>2. CASE Next
      BY <1>1, <1>2, <2>0, <2>2, UserEditsStep, RivalStep, InnerStep, FlushStep, OpensStep,
         ArrivesStep, SaveStep, AnswerStep, CloseStep DEF Next, Edits
    <2> QED BY <2>1, <2>2
  <1>3. (muddled => muddled') /\ (~muddled /\ muddled' => row' = row)
    BY <1>1, MuddledStep
  <1>4. ~muddled => RowsGrow
    <2>1. CASE muddled' BY <1>3, <2>1 DEF RowsGrow
    <2>2. CASE ~muddled' BY <1>2, <2>2 DEF PStep
    <2> QED BY <2>1, <2>2
  <1>5. ~muddled' => PInv' BY <1>2, <1>3 DEF PStep
  <1> QED BY <1>1, <1>4, <1>5 DEF CInv

(* Whatever the user does, an edit is stored, still to be saved, on its    *)
(* way or announced as lost, unless it is one of those the page is known   *)
(* to forget, or versions have got mixed up.                               *)
THEOREM EditsAreKept == Spec => []NoEditVanishes
  <1>1. CInv => NoEditVanishes
    BY DEF CInv, PInv, NoLoss, AllThere, NoEditVanishes, Settled
  <1>2. CInv /\ [Next]_vars => CInv' BY CInvStep
  <1> QED BY <1>1, <1>2, CInvInit, PTL DEF Spec

(* What anybody has stored under a key stays there, whoever saves next,    *)
(* also when tabs are left during loads and saves, a load fails, or the    *)
(* user types during a save; unless versions have got mixed up.            *)
THEOREM NobodyOverwrites == Spec => NothingOverwritten
  <1>1. CInv /\ [Next]_vars => CInv' BY CInvStep
  <1>2. CInv /\ [Next]_vars =>
          [~muddled => \A k \in Tab : row[k].doc.edits \subseteq row'[k].doc.edits]_vars
    BY CInvStep DEF RowsGrow
  <1> QED BY <1>1, <1>2, CInvInit, PTL DEF Spec, NothingOverwritten
=============================================================================
