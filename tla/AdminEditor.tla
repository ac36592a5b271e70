---------------------------- MODULE AdminEditor ----------------------------
(***************************************************************************)
(* The page of the admin panel (public/admin/js/app.js) with its tabs: the *)
(* document of the open tab, the flags of the autosave, the requests that  *)
(* load and save documents, and the rows of spw_config behind them.        *)
(*                                                                         *)
(* A document is the set of edits folded into it.  What the user sees is   *)
(* the document in memory, whichever tab is open: a tab's document replaces *)
(* it when its load is answered.  The page lets the user act at any time;  *)
(* three histories note what was done at a moment the page does not cope   *)
(* with: edits it may forget, keys it may give the document of another tab, *)
(* and whether a version may have got to a document it is not of.          *)
(***************************************************************************)
EXTENDS Naturals, FiniteSets

CONSTANTS Tab,        \* tabs that edit a document of spw_config
          Page,       \* tabs without one: NON_CONFIG_TABS
          Schema,     \* the tab with inner pages and Sync DB Tables
          Validated,  \* tabs whose document is validated before a save
          None,
          MaxEdits,   \* bound on the edits, for model checking
          MaxLoads    \* bound on the loads under way together

ASSUME AdminEditorAssumption ==
  /\ Schema \in Tab /\ Validated \subseteq Tab \ {Schema}
  /\ Tab \cap Page = {} /\ Page # {} /\ None \notin Tab \cup Page
  /\ MaxEdits \in Nat /\ MaxLoads \in Nat \ {0}

VARIABLES row,       \* spw_config: document and version of each key
          file,      \* currentFile
          config,    \* currentConfig
          version,   \* configVersion
          inner,     \* currentItemKey is an inner page of the schema tab
          dirty, failed, timer, pending, \* isDirty, autosaveFailed, ...
          save,      \* the request of persistCurrentConfig
          loads,     \* the requests of loadConfigFile
          sync,      \* Sync DB Tables under way, and in which document
          made,      \* history: the tab each edit was made in
          warned,    \* history: edits whose loss the user was told of,
          exposed,   \* edits the page may forget,
          astray,    \* tabs marked while another tab's document was shown,
          muddled    \* a version may be that of another document

autosave == <<dirty, failed, timer, pending>>
shown    == <<config, version, inner>>
risks    == <<exposed, astray, muddled>>
history  == <<made, warned, risks>>
vars     == <<row, file, shown, autosave, save, loads, sync, history>>

Edit  == 1..MaxEdits
Doc   == [of : Tab, edits : SUBSET Edit]
NoDoc == [of |-> None, edits |-> {}]
Row   == [ver : Nat, doc : Doc]
Slot  == 1..MaxLoads
SaveRequest == [phase : {"sent", "saved", "refused"}, tab : Tab, doc : Doc, ver : Nat]
LoadRequest == [phase : {"sent", "read"}, tab : Tab, ver : Nat, doc : Doc \cup {NoDoc}]
Idle  == [phase |-> "idle", tab |-> None, doc |-> NoDoc, ver |-> 0]
Free  == [phase |-> "idle", tab |-> None, ver |-> 0, doc |-> NoDoc]

TypeOK ==
  /\ row \in [Tab -> Row]
  /\ file \in Tab \cup Page
  /\ config \in Doc \cup {NoDoc}
  /\ version \in Nat
  /\ inner \in BOOLEAN /\ dirty \in BOOLEAN /\ failed \in BOOLEAN
  /\ timer \in BOOLEAN /\ pending \in BOOLEAN
  /\ save \in SaveRequest \cup {Idle}
  /\ loads \in [Slot -> LoadRequest \cup {Free}]
  /\ sync \in {"none", "here", "lost"}
  /\ made \in [Edit -> Tab \cup {None}]
  /\ warned \in SUBSET Edit /\ exposed \in SUBSET Edit
  /\ astray \in SUBSET Tab /\ muddled \in BOOLEAN

Init ==
  /\ row = [k \in Tab |-> [ver |-> 0, doc |-> [of |-> k, edits |-> {}]]]
  /\ file \in Page
  /\ config = NoDoc /\ version = 0
  /\ inner = FALSE /\ dirty = FALSE /\ failed = FALSE
  /\ timer = FALSE /\ pending = FALSE
  /\ save = Idle
  /\ loads = [s \in Slot |-> Free]
  /\ sync = "none"
  /\ made = [e \in Edit |-> None]
  /\ warned = {} /\ exposed = {} /\ astray = {} /\ muddled = FALSE

-----------------------------------------------------------------------------
With(doc, e)   == [doc EXCEPT !.edits = @ \cup {e}]
Saved(r, doc)  == [ver |-> r.ver + 1, doc |-> doc]
InFlight == save # Idle                              \* autosaveInFlight
Loading  == \E s \in Slot : loads[s] # Free
Stored(e) == \E k \in Tab : made[e] = k /\ e \in row[k].doc.edits
Lost(edits) == {e \in edits : ~Stored(e)}
Fresh(e) == made[e] = None /\ \A d \in Edit : d < e => made[d] # None

OffSchema == file = Schema /\ inner

Eligible == file \in Tab /\ ~OffSchema               \* isAutosaveEligible

ScheduleAutosave ==
  IF InFlight THEN pending' = TRUE /\ UNCHANGED timer
              ELSE timer' = TRUE /\ UNCHANGED pending

MarkDirty ==
  IF Eligible THEN dirty' = TRUE /\ ScheduleAutosave
              ELSE UNCHANGED <<dirty, timer, pending>>

MarkClean == dirty' = FALSE /\ failed' = FALSE /\ timer' = FALSE

Detach(s) == IF s = "here" THEN "lost" ELSE s

-----------------------------------------------------------------------------
(* A change is noted: the page marks the open tab, whatever document it    *)
(* shows.  The edit is at risk while a load is under way, on the document  *)
(* of another tab, during a save of the open tab, or for a reason of its   *)
(* own.                                                                    *)
Unsettled == Loading \/ config.of # file

Noted(e, of, atRisk) ==
  /\ made' = [made EXCEPT ![e] = of]
  /\ MarkDirty
  /\ exposed' = IF Unsettled \/ save.tab = file \/ atRisk THEN exposed \cup {e} ELSE exposed
  /\ astray'  = IF Eligible /\ config.of # file THEN astray \cup {file} ELSE astray
  /\ muddled' = (muddled \/ (Eligible /\ Unsettled))

(* The user edits the document on the screen.                              *)
MayEdit(e) == Fresh(e) /\ config # NoDoc /\ file \in Tab /\ ~inner

Edited(e, doc) ==
  /\ config' = doc
  /\ Noted(e, doc.of, FALSE)
  /\ UNCHANGED <<row, file, version, failed, save, loads, warned>>

(* A field, or the buttons that move and delete the items of a card.       *)
Change(e) ==
  /\ MayEdit(e)
  /\ Edited(e, With(config, e))
  /\ UNCHANGED <<inner, sync>>

(* It is the open tab that says which list the new item goes to.           *)
AddItem(e) ==
  /\ MayEdit(e) /\ config.of = file /\ file # Schema
  /\ Edited(e, With(config, e))
  /\ UNCHANGED <<inner, sync>>

(* The document is replaced by an empty one of the open tab.               *)
ClearConfig(e) ==
  /\ MayEdit(e)
  /\ Edited(e, [of |-> file, edits |-> {e} \cup
                  IF config.of = file THEN config.edits ELSE {}])
  /\ sync' = Detach(sync)
  /\ UNCHANGED inner

(* The buttons of the schema tab that change the item shown.               *)
OpenInner ==
  /\ file = Schema /\ config.of = Schema /\ ~inner
  /\ inner' = TRUE
  /\ exposed' = IF dirty THEN exposed \cup (Lost(config.edits) \ save.doc.edits) ELSE exposed
  /\ UNCHANGED <<row, file, config, version, autosave, save, loads, sync,
                 made, warned, astray, muddled>>

CloseInner ==
  /\ file = Schema /\ config.of = Schema /\ inner
  /\ inner' = FALSE
  /\ UNCHANGED <<row, file, config, version, autosave, save, loads, sync, history>>

(* Sync DB Tables: the tables found are added to the document that was in  *)
(* memory when it was asked for, and the open tab is marked.               *)
AskSync ==
  /\ file = Schema /\ config.of = Schema /\ ~inner /\ sync = "none"
  /\ sync' = "here"
  /\ UNCHANGED <<row, file, shown, autosave, save, loads, history>>

SyncArrives(e) ==
  /\ sync # "none" /\ Fresh(e)
  /\ config' = IF sync = "here" THEN With(config, e) ELSE config
  /\ Noted(e, Schema, sync = "lost" \/ OffSchema)
  /\ sync' = "none"
  /\ inner' = FALSE
  /\ UNCHANGED <<row, file, version, failed, save, loads, warned>>

SyncFindsNothing ==
  /\ sync # "none"
  /\ sync' = "none"
  /\ inner' \in {inner, FALSE}
  /\ UNCHANGED <<row, file, config, version, autosave, save, loads, history>>

-----------------------------------------------------------------------------
(* flushAutosave and persistCurrentConfig up to the request.               *)
RequestFor(k) == [phase |-> "sent", tab |-> k, doc |-> config, ver |-> version]

Unsaved == config.edits    \* what an error message is about

ToSave == ~InFlight /\ dirty /\ Eligible /\ config # NoDoc

FlushBusy ==
  /\ InFlight
  /\ pending' = TRUE
  /\ UNCHANGED <<dirty, failed, timer, save, warned>>

FlushForgets ==
  /\ ~InFlight /\ dirty /\ ~ToSave
  /\ MarkClean
  /\ UNCHANGED <<pending, save, warned>>

(* validateWorkflowsConfig refuses the document.                           *)
FlushInvalid ==
  /\ ToSave /\ file \in Validated
  /\ failed' = TRUE /\ warned' = warned \cup Unsaved
  /\ timer' = pending /\ pending' = FALSE
  /\ UNCHANGED <<dirty, save>>

FlushPosts ==
  /\ ToSave
  /\ save' = RequestFor(file)
  /\ timer' = FALSE
  /\ UNCHANGED <<dirty, failed, pending, warned>>

FlushAutosave == FlushBusy \/ FlushForgets \/ FlushInvalid \/ FlushPosts

TimerFires ==
  /\ timer
  /\ FlushAutosave
  /\ UNCHANGED <<row, file, shown, loads, sync, made, risks>>

(* visibilitychange, and beforeunload when the user then stays.            *)
Hide ==
  /\ dirty
  /\ FlushAutosave
  /\ UNCHANGED <<row, file, shown, loads, sync, made, risks>>

-----------------------------------------------------------------------------
NotAsked == FALSE             \* mutant: no question

(* confirmDiscard: the user is asked, and goes on.                         *)
Asked == failed \/ (InFlight /\ dirty)

Swapped(to) ==                \* mutant: the tab changes before the flush
  IF to \in Tab THEN to ELSE file

FlushKey(to) == file

(* A click on a tab: the question, a last flush, then the new tab.         *)
LeaveTab(to) ==
  LET discards == IF Asked THEN Unsaved ELSE {} IN
  \/ /\ ToSave
     /\ \/ save' = RequestFor(FlushKey(to)) /\ warned' = warned \cup discards
        \/ file \in Validated /\ warned' = warned \cup Unsaved /\ UNCHANGED save
     /\ UNCHANGED pending
  \/ /\ ~ToSave
     /\ pending' = (pending \/ InFlight)
     /\ warned' = warned \cup discards
     /\ UNCHANGED save

OpenPage(p) ==
  /\ LeaveTab(p)
  /\ file' = p /\ config' = NoDoc /\ sync' = Detach(sync)
  /\ MarkClean
  /\ UNCHANGED <<row, version, inner, loads, made, risks>>

LoadOf(t)   == [phase |-> "sent", tab |-> t, ver |-> 0, doc |-> NoDoc]
Answered(l) == [phase |-> "read", tab |-> l.tab, ver |-> row[l.tab].ver,
                doc |-> row[l.tab].doc]
NextSlot(s) == loads[s] = Free /\ \A o \in Slot : o < s => loads[o] # Free

(* A tab opened while its own save is under way may be loaded before it.   *)
OpenTab(t, s) ==
  /\ NextSlot(s)
  /\ LeaveTab(t)
  /\ file' = t
  /\ MarkClean
  /\ loads' = [loads EXCEPT ![s] = LoadOf(t)]
  /\ muddled' = (muddled \/ save'.tab = t)
  /\ UNCHANGED <<row, shown, sync, made, exposed, astray>>

ServerReads(s) ==
  /\ loads[s].phase = "sent"
  /\ loads' = [loads EXCEPT ![s] = Answered(@)]
  /\ UNCHANGED <<row, file, shown, autosave, save, sync, history>>

(* loadConfigFile after its await: whatever tab is open by now.            *)
Shows(s, doc, ver) ==
  /\ config' = doc /\ version' = ver
  /\ inner' \in (IF loads[s].tab = Schema THEN {FALSE} ELSE {inner, FALSE})
  /\ sync' = Detach(sync)
  /\ MarkClean
  /\ loads' = [loads EXCEPT ![s] = Free]
  /\ UNCHANGED <<row, file, pending, save, history>>

LoadArrives(s) ==
  /\ loads[s].phase = "read"
  /\ Shows(s, loads[s].doc, loads[s].ver)

(* The body of an error is shown like a document without version; without  *)
(* one the document on the page stays.                                     *)
LoadRefused(s) ==
  /\ loads[s] # Free
  /\ Shows(s, [of |-> loads[s].tab, edits |-> {}], 0)

LoadFails(s) ==
  /\ loads[s] # Free
  /\ loads' = [loads EXCEPT ![s] = Free]
  /\ UNCHANGED <<row, file, shown, autosave, save, sync, history>>

-----------------------------------------------------------------------------
AnyVersion(s) == TRUE         \* mutant: the version is not compared

Outcome(phase, ver) == [phase |-> phase, tab |-> save.tab, doc |-> save.doc, ver |-> ver]

Matches(s) == s.ver = row[s.tab].ver

(* The save of api.php: config_save with the version of the document.      *)
ServerSaves ==
  /\ save.phase = "sent"
  /\ \/ /\ Matches(save)
        /\ row'  = [row EXCEPT ![save.tab] = Saved(@, save.doc)]
        /\ save' = Outcome("saved", row[save.tab].ver + 1)
     \/ /\ ~Matches(save)
        /\ save' = Outcome("refused", save.ver)
        /\ UNCHANGED row
  /\ UNCHANGED <<file, shown, autosave, loads, sync, history>>

NoVersion(v) == None          \* mutant: the answer's version is left out

NextVersion(v) == save.ver

Quiet(doc) == warned          \* mutant: no message

Told(doc) == warned \cup doc.edits

Forgets(stillDirty) ==        \* mutant: nothing happens to a pending edit
  UNCHANGED <<pending, timer>>

(* finally: an edit made meanwhile gets its timer.                         *)
ThenPending(stillDirty) ==
  IF pending /\ stillDirty THEN pending' = FALSE /\ timer' = TRUE
                           ELSE UNCHANGED <<pending, timer>>

AnswerSuccess ==
  /\ save.phase = "saved"
  /\ \/ /\ file = save.tab
        /\ version' = NextVersion(version)
        /\ MarkClean /\ UNCHANGED pending
     \/ /\ file # save.tab
        /\ ThenPending(dirty)
        /\ UNCHANGED <<version, dirty, failed>>
  /\ save' = Idle
  /\ UNCHANGED <<row, file, config, inner, loads, sync, history>>

(* A conflict, an error of the server, or no answer at all.                *)
AnswerFailure ==
  /\ InFlight
  /\ failed' = (failed \/ file = save.tab)
  /\ warned' = Told(save.doc)
  /\ ThenPending(dirty)
  /\ save' = Idle
  /\ UNCHANGED <<row, file, shown, dirty, loads, sync, made, risks>>

(* Another administrator, or a server-side writer, saves the key.          *)
RivalSaves(k, e) ==
  /\ Fresh(e)
  /\ row' = [row EXCEPT ![k] = Saved(@, With(@.doc, e))]
  /\ made' = [made EXCEPT ![e] = k]
  /\ UNCHANGED <<file, shown, autosave, save, loads, sync, warned, risks>>

(* The page is closed or reloaded, after a question when it is dirty.  A   *)
(* request under way may have reached the server or not, and nobody is     *)
(* there to hear of it.                                                    *)
ClosePage ==
  /\ warned' = warned \cup IF dirty THEN Unsaved ELSE {}
  /\ \/ UNCHANGED row
     \/ /\ save.phase = "sent" /\ Matches(save)
        /\ row' = [row EXCEPT ![save.tab] = Saved(@, save.doc)]
  /\ file' \in Page
  /\ config' = NoDoc /\ version' = 0 /\ inner' = FALSE
  /\ MarkClean /\ pending' = FALSE
  /\ save' = Idle /\ loads' = [s \in Slot |-> Free] /\ sync' = "none"
  /\ exposed' = exposed \cup Lost(save.doc.edits)
  /\ UNCHANGED <<made, astray, muddled>>

Edits(e) == Change(e) \/ AddItem(e) \/ ClearConfig(e) \/ SyncArrives(e)
            \/ \E k \in Tab : RivalSaves(k, e)
Opens == (\E p \in Page : OpenPage(p)) \/ (\E t \in Tab, s \in Slot : OpenTab(t, s))
Arrives(s) == ServerReads(s) \/ LoadArrives(s) \/ LoadRefused(s) \/ LoadFails(s)
Answers == AnswerSuccess \/ AnswerFailure

Next == \/ \E e \in Edit : Edits(e)
        \/ OpenInner \/ CloseInner \/ AskSync \/ SyncFindsNothing
        \/ TimerFires \/ Hide \/ Opens
        \/ \E s \in Slot : Arrives(s)
        \/ ServerSaves \/ Answers \/ ClosePage

Spec == Init /\ [][Next]_vars

(* Timers fire, requests are served and answered.                          *)
FairSpec == Spec /\ WF_vars(TimerFires) /\ WF_vars(ServerSaves) /\ WF_vars(Answers)

-----------------------------------------------------------------------------
(* A key holds the document of its own tab, whatever is open when a load   *)
(* or a save is answered, unless the tab was marked while it showed the    *)
(* document of another one.                                                *)
KeepsItsKey == \A k \in Tab : row[k].doc.of = k \/ k \in astray

OnPage(e)   == e \in config.edits /\ dirty
OnItsWay(e) == e \in save.doc.edits

(* An edit is stored, or on the page and still to be saved, or in the      *)
(* request under way, or the user was told that it may be lost; unless it  *)
(* was made during a load or a save of the open tab or on a document the   *)
(* page no longer holds, or left to save when an inner page was opened, or *)
(* on its way when the page was closed, or versions got mixed up.          *)
NoEditVanishes ==
  \A e \in Edit \ exposed : made[e] # None /\ ~muddled =>
     Stored(e) \/ OnPage(e) \/ OnItsWay(e) \/ e \in warned

(* A save never removes from a key what somebody else has stored there,    *)
(* unless a tab was opened again during its own save, or marked during a   *)
(* load or with the document of another tab on the page.                   *)
NothingOverwritten ==
  [][~muddled => \A k \in Tab : row[k].doc.edits \subseteq row'[k].doc.edits]_vars

(* A page with something to save has a timer running or a save under way   *)
(* that starts the next one, unless a save failed: an edit is not left     *)
(* waiting for the next edit.                                              *)
DirtyIsScheduled == dirty /\ ~failed => timer \/ InFlight

(* The timer belongs to something to save, and never runs beside a save.   *)
TimerIsAlone == timer => dirty /\ ~InFlight

(* Every edit ends up stored, or the user is told, with the exceptions of  *)
(* NoEditVanishes.                                                         *)
EditsSettle ==
  \A e \in Edit : made[e] # None ~> Stored(e) \/ e \in warned \cup exposed \/ muddled

=============================================================================
