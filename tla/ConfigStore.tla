----------------------------- MODULE ConfigStore -----------------------------
(***************************************************************************)
(* One key of the configuration store of includes/config_store.php: its    *)
(* row in spw_config, the audit trail spw_config_log, the copy that the    *)
(* web server's processes share in APCu, and the requests and command line *)
(* processes that read, save and delete it.                                *)
(*                                                                         *)
(* A document is the set of edits it contains, so that a lost update is an *)
(* edit that disappears.  A row of version 0 stands for "no row".          *)
(*                                                                         *)
(* Processes are of three kinds:                                           *)
(*   Editor   a browser tab of the admin panel.  Loading the page and      *)
(*            saving the form are separate requests; the form keeps the    *)
(*            version it was loaded with and sends it back.                *)
(*   Blind    a request that reads, modifies and saves the document on the *)
(*            server without an expected version (CSV import, schema and   *)
(*            many-to-many builders, automations, demo data); the members  *)
(*            of Cleaner may also delete the key.                          *)
(*   Worker   a cron process updating the document in the bounded retry    *)
(*            loop of the ETL engine.  It runs in the CLI, where there is  *)
(*            no APCu shared with the web server; its config_get_row is    *)
(*            served by the static cache of the process.  The members of   *)
(*            Reloader pass the uncached reader to the loop.               *)
(***************************************************************************)
EXTENDS Naturals, Sequences

CONSTANTS Editor, Blind, Cleaner, Worker, Reloader,
          MaxAttempts,  \* tries of the optimistic update loop (5 in the code)
          CacheAbsent,  \* the key is read with an absentTtl
          ReadsFail,    \* whether the SELECT of a read may fail
          MaxEdits      \* bound on the edits begun, for model checking

Proc == Editor \cup Blind \cup Worker
Web  == Editor \cup Blind

ASSUME ConfigStoreAssumption ==
  /\ Editor \cap Blind = {} /\ Web \cap Worker = {} /\ "apcu" \notin Proc
  /\ Cleaner \subseteq Blind /\ Reloader \subseteq Worker
  /\ MaxAttempts \in Nat \ {0} /\ MaxEdits \in Nat
  /\ CacheAbsent \in BOOLEAN /\ ReadsFail \in BOOLEAN

VARIABLES row,      \* the row of spw_config
          log,      \* spw_config_log, oldest entry first
          lock,     \* the process whose transaction holds the row lock, or {}
          apcu,     \* the entry of the shared cache
          static,   \* static $cache of each worker process
          pc,       \* where each process is
          basis,    \* the row its next edit is made on (an editor's form)
          tx,       \* the transaction of config_save, or the deletion, at work
          attempts, \* conflicts met so far in the optimistic update loop
          refused,  \* versions of this editor's form refused as stale
          edits,    \* edits named so far
          began     \* history: saves there were when a reloader's update began

dbVars   == <<row, log, lock>>
vars     == <<row, log, lock, apcu, static, pc, basis, tx, attempts, refused,
              edits, began>>

-----------------------------------------------------------------------------
Edits    == 1..MaxEdits
Document == SUBSET Edits
Row      == [version : Nat, value : Document]
Absent   == [version |-> 0, value |-> {}]
NoRow    == [version |-> 0, value |-> {0}]   \* nothing read, nothing cached
NoValue  == {0}                              \* NULL in the audit trail
NoTx     == [seen |-> NoRow, value |-> NoValue]

PC == {"idle", "query", "fill", "read", "ready", "stale", "locked", "committed",
       "deleted", "unlogged", "lost"}

TypeOK ==
  /\ row \in Row
  /\ log \in Seq([old : Document \cup {NoValue}, new : Document \cup {NoValue}])
  /\ lock \in SUBSET Proc
  /\ apcu \in Row \cup {NoRow}
  /\ static \in [Worker -> Row \cup {NoRow}]
  /\ pc \in [Proc -> PC]
  /\ basis \in [Proc -> Row \cup {NoRow}]
  /\ tx \in [Proc -> [seen : Row \cup {NoRow}, value : Document \cup {NoValue}]]
  /\ attempts \in [Worker -> 0..MaxAttempts]
  /\ refused \in [Editor -> SUBSET Nat]
  /\ edits \in 0..MaxEdits
  /\ began \in [Worker -> Nat]

Init ==
  /\ row = Absent /\ log = <<>> /\ lock = {} /\ apcu = NoRow
  /\ static = [w \in Worker |-> NoRow]
  /\ pc = [p \in Proc |-> "idle"]
  /\ basis = [p \in Proc |-> NoRow]
  /\ tx = [p \in Proc |-> NoTx]
  /\ attempts = [w \in Worker |-> 0]
  /\ refused = [e \in Editor |-> {}]
  /\ edits = 0
  /\ began = [w \in Worker |-> 0]

Goto(p, label) == pc' = [pc EXCEPT ![p] = label]
Hold(p, r)     == basis' = [basis EXCEPT ![p] = r]
Forget(p)      == tx' = [tx EXCEPT ![p] = NoTx]

(* The form stays on the screen when a request fails; whatever else a       *)
(* process looked at goes with it.                                         *)
KeepForm(p)    == Hold(p, IF p \in Editor THEN basis[p] ELSE NoRow)

-----------------------------------------------------------------------------
(* A process has a document to save; that of a browser may be one that was  *)
(* refused already.                                                        *)
HasForm(p) == pc[p] \in {"ready", "stale"}

(* config_get_row in a web request.  A browser may reload the page at any   *)
(* time, throwing its form away.                                           *)
MayRead(p) == \/ pc[p] = "idle"
              \/ p \in Editor /\ HasForm(p)

(* The shared cache answers. *)
CacheHit(p) ==
  /\ MayRead(p)
  /\ apcu # NoRow
  /\ Hold(p, apcu) /\ Goto(p, "ready")
  /\ UNCHANGED <<dbVars, apcu, static, tx, attempts, refused, edits, began>>

CacheMiss(p) ==
  /\ MayRead(p)
  /\ apcu = NoRow
  /\ Hold(p, NoRow) /\ Goto(p, "query")
  /\ UNCHANGED <<dbVars, apcu, static, tx, attempts, refused, edits, began>>

(* SELECT value, version: the answer is in the process, not yet in APCu. *)
Query(p) ==
  /\ pc[p] = "query"
  /\ Hold(p, row) /\ Goto(p, "fill")
  /\ UNCHANGED <<dbVars, apcu, static, tx, attempts, refused, edits, began>>

(* The SELECT fails: the caller is told that there is no such row.         *)
QueryFail(p) ==
  /\ ReadsFail /\ pc[p] = "query"
  /\ Hold(p, Absent) /\ Goto(p, "ready")
  /\ UNCHANGED <<dbVars, apcu, static, tx, attempts, refused, edits, began>>

(* config_cache in write mode; an absent row is remembered only on request. *)
Fill(p) ==
  /\ pc[p] = "fill"
  /\ apcu' = IF basis[p] # Absent \/ CacheAbsent THEN basis[p] ELSE apcu
  /\ Goto(p, "ready")
  /\ UNCHANGED <<dbVars, static, basis, tx, attempts, refused, edits, began>>

NoExpiry == FALSE /\ UNCHANGED vars   \* mutant: entries are cached for ever

(* The entry's time to live runs out, or APCu is restarted or evicts it. *)
Expire ==
  /\ apcu # NoRow
  /\ apcu' = NoRow
  /\ UNCHANGED <<dbVars, static, pc, basis, tx, attempts, refused, edits, began>>

-----------------------------------------------------------------------------
(* etl_config_optimistic_update in a worker *)

(* The process starts by reading the configuration; there is none to read   *)
(* from but the database, and without a row the process ends at once.       *)
Open(w) ==
  /\ pc[w] = "idle" /\ row # Absent
  /\ static' = [static EXCEPT ![w] = row]
  /\ attempts' = [attempts EXCEPT ![w] = 0]
  /\ Goto(w, "read")
  /\ UNCHANGED <<dbVars, apcu, basis, tx, refused, edits, began>>

(* An update begins with the read of its first attempt.  Only the loops     *)
(* that read the row afresh have a claim about the saves since then.       *)
MarkStart(w) ==
  began' = IF attempts[w] = 0 /\ w \in Reloader
           THEN [began EXCEPT ![w] = Len(log)] ELSE began

CachedRead(w) ==   \* mutant: every worker reads through config_get_row
  /\ pc[w] = "read" /\ static[w] # Absent
  /\ Hold(w, static[w]) /\ Goto(w, "ready")
  /\ MarkStart(w)
  /\ UNCHANGED <<dbVars, apcu, static, tx, attempts, refused, edits>>

(* The reader of the loop: etl_reload_config_row asks the database, the     *)
(* default one is config_get_row, which finds the static copy.              *)
Read(w) ==
  /\ pc[w] = "read"
  /\ LET found == IF w \in Reloader THEN row ELSE static[w] IN
       /\ found # Absent
       /\ Hold(w, found) /\ Goto(w, "ready")
  /\ MarkStart(w)
  /\ UNCHANGED <<dbVars, apcu, static, tx, attempts, refused, edits>>

(* The update is over without a save: there is no row any more, the mutator *)
(* found nothing to change, or the attempts are used up.                   *)
Abandon(w) ==
  /\ pc[w] \in {"ready", "lost"}
  /\ attempts' = [attempts EXCEPT ![w] = 0]
  /\ Hold(w, NoRow) /\ Goto(w, "read")
  /\ UNCHANGED <<dbVars, apcu, static, tx, refused, edits, began>>

(* The process ends, and its static cache with it.                         *)
Exit(w) ==
  /\ pc[w] = "read"
  /\ static' = [static EXCEPT ![w] = NoRow]
  /\ Goto(w, "idle")
  /\ UNCHANGED <<dbVars, apcu, basis, tx, attempts, refused, edits, began>>

-----------------------------------------------------------------------------
(* config_save *)

PlainSelect == TRUE   \* mutant: no FOR UPDATE

(* SELECT ... FOR UPDATE waits for the transaction that has the row.       *)
CanLock == row = Absent \/ lock = {}

NotNewer(p)      == p \in Blind \/ basis[p].version <= row.version      \* mutants:
ZeroMeansNone(p) == p \in Blind \/ basis[p].version \in {0, row.version}  \* lax checks

(* Only a save without an expected version escapes the check.              *)
VersionMatches(p) == p \in Blind \/ basis[p].version = row.version

(* BEGIN, SELECT ... FOR UPDATE and the check passed.  The document to      *)
(* write is the one the process looked at, with one more edit.             *)
SaveBegin(p) ==
  /\ HasForm(p) /\ CanLock /\ VersionMatches(p)
  /\ edits < MaxEdits
  /\ edits' = edits + 1
  /\ tx' = [tx EXCEPT ![p] = [seen |-> row,
                              value |-> basis[p].value \cup {edits + 1}]]
  /\ lock' = IF row = Absent THEN lock ELSE {p}
  /\ Goto(p, "locked")
  /\ UNCHANGED <<row, log, apcu, static, basis, attempts, refused, began>>

RetryForever(p)  == "read"   \* mutant: the loop has no bound
AfterConflict(p) == IF attempts[p] + 1 < MaxAttempts THEN "read" ELSE "lost"

(* The check failed: ROLLBACK, status conflict.  The browser shows a message *)
(* and leaves the form on the screen; the worker tries again unless this was *)
(* its last attempt.                                                       *)
SaveConflict(p) ==
  /\ HasForm(p) /\ CanLock /\ ~VersionMatches(p)
  /\ \/ /\ p \in Editor
        /\ refused' = [refused EXCEPT ![p] = {basis[p].version}]
        /\ Goto(p, "stale")
        /\ UNCHANGED <<basis, attempts>>
     \/ /\ p \in Worker
        /\ attempts' = [attempts EXCEPT ![p] = @ + 1]
        /\ Hold(p, NoRow)
        /\ Goto(p, AfterConflict(p))
        /\ UNCHANGED refused
  /\ UNCHANGED <<dbVars, apcu, static, tx, edits, began>>

SameVersion(p) == [version |-> tx[p].seen.version, value |-> tx[p].value] \* mutant

Saved(p) == [version |-> tx[p].seen.version + 1, value |-> tx[p].value]

Upsert(p) == TRUE   \* mutant: INSERT ... ON CONFLICT DO UPDATE

(* An INSERT finds the primary key taken when another one came first.      *)
CanWrite(p) == tx[p].seen = Absent => row = Absent

(* UPDATE or INSERT, the audit entry and COMMIT, visible to others at once. *)
SaveCommit(p) ==
  /\ pc[p] = "locked"
  /\ CanWrite(p)
  /\ row' = Saved(p)
  /\ log' = Append(log, [old |-> IF tx[p].seen = Absent
                                 THEN NoValue ELSE tx[p].seen.value,
                         new |-> tx[p].value])
  /\ lock' = lock \ {p}
  /\ Goto(p, "committed")
  /\ UNCHANGED <<apcu, static, basis, tx, attempts, refused, edits, began>>

(* A statement or the COMMIT fails, or the process dies: the transaction is *)
(* rolled back.  A browser keeps its form and its version, the worker gives *)
(* the update up without another attempt.                                  *)
SaveFail(p) ==
  /\ pc[p] = "locked"
  /\ lock' = lock \ {p}
  /\ KeepForm(p) /\ Forget(p)
  /\ attempts' = [w \in Worker |-> IF w = p THEN 0 ELSE attempts[w]]
  /\ Goto(p, CASE p \in Editor -> "ready"
               [] p \in Blind  -> "idle"
               [] p \in Worker -> "read")
  /\ UNCHANGED <<row, log, apcu, static, refused, edits, began>>

(* config_cache after the COMMIT, then the answer with the new version.    *)
SaveReturn(p) ==
  /\ pc[p] = "committed"
  /\ \/ /\ p \in Web
        /\ apcu' = Saved(p)
        /\ UNCHANGED <<static, attempts>>
     \/ /\ p \in Worker
        /\ static' = [static EXCEPT ![p] = Saved(p)]
        /\ attempts' = [attempts EXCEPT ![p] = 0]
        /\ UNCHANGED apcu
  /\ Hold(p, IF p \in Editor THEN Saved(p) ELSE NoRow)
  /\ Forget(p)
  /\ refused' = [e \in Editor |-> IF e = p THEN {} ELSE refused[e]]
  /\ Goto(p, CASE p \in Editor -> "ready"
               [] p \in Blind  -> "idle"
               [] p \in Worker -> "read")
  /\ UNCHANGED <<dbVars, edits, began>>

-----------------------------------------------------------------------------
(* config_delete: three steps, no transaction around them *)

DeleteRow(p) ==
  /\ p \in Cleaner /\ pc[p] = "ready" /\ lock = {}
  /\ tx' = [tx EXCEPT ![p] = [seen |-> row, value |-> NoValue]]
  /\ row' = Absent
  /\ Hold(p, NoRow) /\ Goto(p, "deleted")
  /\ UNCHANGED <<log, lock, apcu, static, attempts, refused, edits, began>>

DropCache(p) ==
  /\ pc[p] = "deleted"
  /\ apcu' = NoRow
  /\ Goto(p, IF tx[p].seen = Absent THEN "idle" ELSE "unlogged")
  /\ tx' = [tx EXCEPT ![p] = IF @.seen = Absent THEN NoTx ELSE @]
  /\ UNCHANGED <<dbVars, static, basis, attempts, refused, edits, began>>

LogDelete(p) ==
  /\ pc[p] = "unlogged"
  /\ log' = Append(log, [old |-> tx[p].seen.value, new |-> NoValue])
  /\ Forget(p) /\ Goto(p, "idle")
  /\ UNCHANGED <<row, lock, apcu, static, basis, attempts, refused, edits, began>>

(* A request or a process dies, or its answer is lost, outside of a         *)
(* transaction.  A browser that was saving still has its form.             *)
Crash(p) ==
  /\ \/ pc[p] \in {"query", "fill", "committed", "deleted", "unlogged"}
     \/ p \in Blind /\ pc[p] = "ready"
  /\ Goto(p, IF p \in Editor /\ pc[p] = "committed" THEN "ready" ELSE "idle")
  /\ Hold(p, IF p \in Editor /\ pc[p] = "committed" THEN basis[p] ELSE NoRow)
  /\ Forget(p)
  /\ UNCHANGED <<dbVars, apcu, static, attempts, refused, edits, began>>

-----------------------------------------------------------------------------
Step(p) == \/ SaveBegin(p) \/ SaveConflict(p) \/ SaveCommit(p)
           \/ SaveFail(p) \/ SaveReturn(p) \/ Crash(p)

WebStep(p) == \/ CacheHit(p) \/ CacheMiss(p) \/ Query(p) \/ QueryFail(p) \/ Fill(p)
              \/ DeleteRow(p) \/ DropCache(p) \/ LogDelete(p)

WorkerStep(w) == Open(w) \/ Read(w) \/ Abandon(w) \/ Exit(w)

Next == \/ Expire
        \/ \E p \in Proc : Step(p)
        \/ \E p \in Web : WebStep(p)
        \/ \E w \in Worker : WorkerStep(w)

Spec == Init /\ [][Next]_vars

(* The one thing that must happen: an entry of APCu has a time to live.    *)
FairSpec == Spec /\ WF_vars(Expire)

-----------------------------------------------------------------------------
(* Properties *)

(* What a holder of a copy may look at: nothing, or a row that config_save  *)
(* committed, version and document belonging together.                     *)
Genuine(r, trail) == \/ r \in {NoRow, Absent}
                     \/ /\ r.version \in 1..Len(trail)
                        /\ r.value = trail[r.version].new

(* No copy pairs a version with a document other than the one committed     *)
(* under it, whatever cache, form or process it travelled through: the      *)
(* version check of config_save is worth nothing otherwise.                *)
CopiesAreCommitted ==
  /\ Genuine(apcu, log)
  /\ \A w \in Worker : Genuine(static[w], log)
  /\ \A p \in Proc : Genuine(basis[p], log)

(* The audit trail tells the whole story of the row: entries follow on each *)
(* other without a gap and the last one made the row what it is.           *)
HistoryIsAChain ==
  /\ Len(log) = row.version
  /\ \A i \in 1..Len(log) :
       log[i].old = IF i = 1 THEN NoValue ELSE log[i - 1].new
  /\ log # <<>> => log[Len(log)].new = row.value

(* A save whose version was accepted writes over the very row its edit was  *)
(* made on, up to its COMMIT (for an INSERT: as long as it can succeed).    *)
AcceptedSaveIsFresh ==
  \A p \in Proc \ Blind :
    pc[p] = "locked" /\ CanWrite(p)
      => /\ basis[p].version = row.version
         /\ basis[p].value \subseteq row.value /\ row.value \subseteq basis[p].value

(* Every edit that was ever committed is still in the document.            *)
NoLostUpdate == \A i \in 1..Len(log) : log[i].new \subseteq row.value

(* While a transaction holds the row lock, the row is what it read under    *)
(* the lock, and nobody else holds it.                                     *)
LockedRowStands ==
  \A p \in Proc :
    pc[p] = "locked" /\ tx[p].seen # Absent => row = tx[p].seen /\ lock = {p}

(* A worker that reloads gives its update up only when, since it began, as  *)
(* many other saves got in its way as it has attempts: each attempt meets a *)
(* new one.                                                                *)
LostOnlyUnderContention ==
  \A w \in Reloader : pc[w] = "lost" => Len(log) >= began[w] + MaxAttempts

(* A form loaded after a conflict is newer than the one that was refused,   *)
(* as the messages "reload and retry" promise.                             *)
ReloadBringsNewerForm ==
  \A e \in Editor : pc[e] = "ready" /\ basis[e] # Absent =>
    \A v \in refused[e] : basis[e].version > v

(* Once the edits stop, the copy in APCu is dropped or brought up to date   *)
(* for good, whatever order the fills and drops of racing requests took.   *)
CacheConverges == <>[](apcu \in {NoRow, row})

Register == INSTANCE EditRegister WITH
  Edit    <- Edits,
  Holder  <- Proc \cup {"apcu"},
  history <- [i \in 1..Len(log) |-> log[i].new],
  copy    <- [h \in Proc \cup {"apcu"} |->
                IF h = "apcu" THEN apcu.version ELSE basis[h].version]

(* Caches, forms and retries included, the store is an edit register: a     *)
(* save is accepted only from a copy of the latest document.               *)
ImplementsRegister == Register!RegisterSpec
=============================================================================
