------------------------------- MODULE EtlJobs -------------------------------
(***************************************************************************)
(* ETL jobs and flows (includes/etl_engine.php, includes/etl_cli.php,      *)
(* cron/cron_etl.php, cron/cron_etl_flow.php).  A job copies rows of a     *)
(* source into its target table.  Its load mode says how they are written; *)
(* its incremental column and the placeholder {{watermark}} in its query   *)
(* say which ones are read and what watermark is kept, whatever the mode.  *)
(* cron starts the jobs and the flows that have not succeeded in their     *)
(* window, the administrator starts one at any time, and nothing keeps two *)
(* runs of a job apart.  A flow is a sequence of jobs run by one process   *)
(* with one copy of the configuration.                                     *)
(*                                                                         *)
(* A version <<k, s>> is what the row with key k has been since the moment *)
(* s of the source; s is the value of the incremental column.  A load is a *)
(* transaction and shows as one step.  The watermark is saved by           *)
(* etl_config_optimistic_update, which ConfigStore has in detail: here it  *)
(* replaces the stored value in one step, or is lost.                      *)
(***************************************************************************)
EXTENDS Naturals, Sequences, FiniteSets

CONSTANTS Process,     \* processes that run jobs,
          FlowProcess, \* those of them that may run flows
          Job,         \* enabled jobs with a source and a target of their own
          Key,         \* rows of the source
          Loads,       \* the assignments of settings to the jobs
          Flows,       \* the enabled flows, each a sequence of jobs
          MaxStamp,    \* bounds for model checking: changes of the source,
          MaxFaults    \* failures, crashes and lost updates

(* A job has no incremental column; one, which only sets its watermark; or *)
(* one and a query that asks for the rows above {{watermark}}.             *)
Mode    == {"append", "upsert", "full_refresh"}
Setting == [mode : Mode, increment : {"none", "column", "query"}]

ASSUME EtlJobsAssumption ==
  /\ FlowProcess \subseteq Process
  /\ Loads \subseteq [Job -> Setting]
  /\ Flows \in Seq(Seq(Job))
  /\ MaxStamp \in Nat /\ MaxFaults \in Nat

VARIABLES load,       \* load_mode, incremental_column and query of each job
          source,     \* when each row of the source was last changed (0: never)
          stamp,      \* the last of these moments
          target,     \* the versions in the target table
          watermark,  \* last_watermark of each job (0: the initial value)
          ran,        \* jobs with a success of cron in their window
          flowRan,    \* flows with a success in their window
          proc,       \* the processes
          faults,     \* failures so far
          doubled,    \* history: jobs that appended a version again,
          crossed,    \* jobs that two processes had in hand at a time,
          behind      \* jobs run from an older watermark than they had
                      \* reached: not stored, or not in the run's copy

history == <<doubled, crossed, behind>>
window  == <<ran, flowRan>>
vars    == <<load, source, stamp, target, watermark, window, proc, faults, history>>

Stamp   == 0..MaxStamp
Version == Key \X Stamp
Current == {<<k, source[k]>> : k \in {i \in Key : source[i] # 0}}

(* A run of one job has flow = 0.  known are the watermarks in its copy of *)
(* the configuration, as long as they are needed; more says that other     *)
(* flows follow, counts that the success of the run will be one in the     *)
(* present window of its job or flow.                                      *)
Run  == [stage : {"idle", "flows", "ready", "read", "loaded", "recorded"},
         more : BOOLEAN, flow : 0..(Len(Flows) + 1), jobs : Seq(Job),
         known : [Job -> Stamp], rows : SUBSET Version, counts : BOOLEAN]
Idle == [stage |-> "idle", more |-> FALSE, flow |-> 0, jobs |-> << >>,
         known |-> [j \in Job |-> 0], rows |-> {}, counts |-> FALSE]

TypeOK ==
  /\ load \in Loads
  /\ source \in [Key -> Stamp]
  /\ stamp \in Stamp
  /\ target \in [Job -> SUBSET Version]
  /\ watermark \in [Job -> Stamp]
  /\ ran \subseteq Job
  /\ flowRan \subseteq 1..Len(Flows)
  /\ proc \in [Process -> Run]
  /\ faults \in 0..MaxFaults
  /\ doubled \subseteq Job /\ crossed \subseteq Job /\ behind \subseteq Job

Init ==
  /\ load \in Loads
  /\ source = [k \in Key |-> 0] /\ stamp = 0
  /\ target = [j \in Job |-> {}]
  /\ watermark = [j \in Job |-> 0]
  /\ ran = {} /\ flowRan = {}
  /\ proc = [p \in Process |-> Idle]
  /\ faults = 0
  /\ doubled = {} /\ crossed = {} /\ behind = {}

-----------------------------------------------------------------------------
Elements(s) == {s[i] : i \in DOMAIN s}

(* The jobs a process runs, or will run, with the configuration it read.   *)
Ahead(r) ==
  IF r.flow = 0 \/ ~r.more THEN {}
  ELSE UNION {Elements(Flows[f]) : f \in {g \in DOMAIN Flows :
                                            g > r.flow \/ (g = r.flow /\ r.stage = "flows")}}
InHand(r) == Elements(r.jobs) \cup Ahead(r)

JobOf(p)       == Head(proc[p].jobs)
Incremental(j) == load[j].increment = "query"
Marked(j)      == load[j].increment # "none"

-----------------------------------------------------------------------------
(* The environment: a row of the source is inserted or changed ...         *)
Change(k) ==
  /\ stamp < MaxStamp
  /\ stamp' = stamp + 1
  /\ source' = [source EXCEPT ![k] = stamp + 1]
  /\ UNCHANGED <<load, target, watermark, window, proc, faults, history>>

(* ... and the interval ends that began with the last run of a job or flow.*)
Age(j) ==
  /\ ran' = ran \ {j}
  /\ proc' = [p \in Process |->
                IF proc[p].flow = 0 /\ proc[p].stage \notin {"idle", "ready"} /\ JobOf(p) = j
                  THEN [proc[p] EXCEPT !.counts = FALSE] ELSE proc[p]]
  /\ UNCHANGED <<load, source, stamp, target, watermark, flowRan, faults, history>>

AgeFlow(f) ==
  /\ flowRan' = flowRan \ {f}
  /\ proc' = [p \in Process |-> IF proc[p].flow = f
                                  THEN [proc[p] EXCEPT !.counts = FALSE] ELSE proc[p]]
  /\ UNCHANGED <<load, source, stamp, target, watermark, ran, faults, history>>

-----------------------------------------------------------------------------
(* A process reads the configuration and begins.                           *)
Launch(p, run) ==
  /\ proc[p] = Idle
  /\ proc' = [proc EXCEPT ![p] = [run EXCEPT !.known = watermark]]
  /\ crossed' = crossed \cup
       (InHand(run) \cap UNION {InHand(proc[q]) : q \in Process \ {p}})
  /\ UNCHANGED <<load, source, stamp, target, watermark, window, faults, doubled, behind>>

EverRan(j)     == target[j] # {}   \* mutant: the interval is forgotten
RanInWindow(j) == j \in ran

CronJob(p, j) ==
  /\ ~RanInWindow(j)
  /\ Launch(p, [Idle EXCEPT !.stage = "ready", !.jobs = <<j>>, !.counts = TRUE])

AdminJob(p, j) == Launch(p, [Idle EXCEPT !.stage = "ready", !.jobs = <<j>>])

CronFlows(p) == Launch(p, [Idle EXCEPT !.stage = "flows", !.more = TRUE, !.flow = 1])

AdminFlow(p, f) ==
  Launch(p, [Idle EXCEPT !.stage = "ready", !.flow = f,
                         !.jobs = Flows[f], !.counts = TRUE])

(* The worker of a run of several jobs reads the configuration itself.     *)
Reread(p) ==
  /\ proc[p].stage = "ready" /\ proc[p].flow = 0
  /\ proc' = [proc EXCEPT ![p].known = watermark]
  /\ UNCHANGED <<load, source, stamp, target, watermark, window, faults, history>>

(* cron goes through the flows.                                            *)
AtFlow(p) == proc[p].stage = "flows" /\ proc[p].flow \in DOMAIN Flows

NextFlow(r) == [r EXCEPT !.stage = "flows", !.flow = @ + 1, !.jobs = << >>, !.rows = {}]

SkipFlow(p) ==
  /\ AtFlow(p) /\ proc[p].flow \in flowRan
  /\ proc' = [proc EXCEPT ![p] = NextFlow(@)]
  /\ UNCHANGED <<load, source, stamp, target, watermark, window, faults, history>>

StartFlow(p) ==
  /\ AtFlow(p) /\ proc[p].flow \notin flowRan
  /\ proc' = [proc EXCEPT ![p].stage = "ready", ![p].jobs = Flows[proc[p].flow],
                          ![p].counts = TRUE]
  /\ UNCHANGED <<load, source, stamp, target, watermark, window, faults, history>>

NoMoreFlows(p) ==
  /\ proc[p].stage = "flows" /\ proc[p].flow \notin DOMAIN Flows
  /\ proc' = [proc EXCEPT ![p] = Idle]
  /\ UNCHANGED <<load, source, stamp, target, watermark, window, faults, history>>

OneTooMany(r) == IF r.more THEN [NextFlow(r) EXCEPT !.flow = r.flow + 2] ELSE Idle  \* mutant

(* After a flow: the next one, or the end of an administrator's run.       *)
Onward(r) == IF r.more THEN NextFlow(r) ELSE Idle

EndFlow(p) ==
  /\ proc[p].stage = "ready" /\ proc[p].flow # 0 /\ proc[p].jobs = << >>
  /\ flowRan' = IF proc[p].counts THEN flowRan \cup {proc[p].flow} ELSE flowRan
  /\ proc' = [proc EXCEPT ![p] = Onward(@)]
  /\ UNCHANGED <<load, source, stamp, target, watermark, ran, faults, history>>

-----------------------------------------------------------------------------
(* etl_run_job: the source is read ...                                     *)
NotOlder(s, mark) == s >= mark     \* mutant
Newer(s, mark)    == s > mark

Rows(j, mark) == {v \in Current : Incremental(j) => Newer(v[2], mark)}

Extract(p) ==
  /\ proc[p].stage = "ready" /\ proc[p].jobs # << >>
  /\ LET j == JobOf(p)
         r == proc[p]
     IN  /\ proc' = [proc EXCEPT ![p] = [r EXCEPT !.stage = "read",
                                           !.rows = Rows(j, r.known[j]),
                                           !.known = IF r.flow = 0 THEN Idle.known ELSE @]]
         /\ behind' = IF r.known[j] < watermark[j] THEN behind \cup {j} ELSE behind
  /\ UNCHANGED <<load, source, stamp, target, watermark, window, faults, doubled, crossed>>

(* ... and what was read is written in one transaction.  An empty source   *)
(* does not empty the table.                                               *)
Loaded(j, rows) ==
  CASE load[j].mode = "append" -> target[j] \cup rows
    [] load[j].mode = "upsert" -> {v \in target[j] : \A w \in rows : w[1] # v[1]} \cup rows
    [] OTHER              -> IF rows = {} THEN target[j] ELSE rows

Load(p) ==
  /\ proc[p].stage = "read"
  /\ LET j == JobOf(p)
         rows == proc[p].rows
     IN  /\ target' = [target EXCEPT ![j] = Loaded(j, rows)]
         /\ doubled' = IF load[j].mode = "append" /\ target[j] \cap rows # {}
                         THEN doubled \cup {j} ELSE doubled
  /\ proc' = [proc EXCEPT ![p].stage = "loaded"]
  /\ UNCHANGED <<load, source, stamp, watermark, window, faults, crossed, behind>>

(* Then its newest row is the watermark, whatever is stored by now.        *)
IsPresent(m, rows) == m = stamp    \* mutant: the source is asked again
IsNewest(m, rows)  == \E v \in rows : v[2] = m /\ \A w \in rows : w[2] <= m

Advances(p) == Marked(JobOf(p)) /\ proc[p].rows # {}

AfterLoad(r) ==
  IF r.flow = 0 THEN [r EXCEPT !.stage = "recorded", !.rows = {}]
  ELSE [r EXCEPT !.stage = "ready", !.rows = {}, !.jobs = Tail(@)]

Recorded(p) == proc' = [proc EXCEPT ![p] = AfterLoad(@)]

Persist(p) ==
  /\ proc[p].stage = "loaded"
  /\ IF Advances(p)
       THEN \E m \in Stamp : /\ IsNewest(m, proc[p].rows)
                             /\ watermark' = [watermark EXCEPT ![JobOf(p)] = m]
       ELSE UNCHANGED watermark
  /\ Recorded(p)
  /\ UNCHANGED <<load, source, stamp, target, window, faults, history>>

(* etl_finish_job_log: only successes of cron count in the window.         *)
Report(p) ==
  /\ proc[p].stage = "recorded"
  /\ ran' = IF proc[p].counts THEN ran \cup {JobOf(p)} ELSE ran
  /\ proc' = [proc EXCEPT ![p] = Idle]
  /\ UNCHANGED <<load, source, stamp, target, watermark, flowRan, faults, history>>

-----------------------------------------------------------------------------
(* What can fail: reading the source after its retries or the load, which  *)
(* is rolled back; the update of the watermark, which is only logged; and  *)
(* the process itself.                                                     *)
Fault == faults < MaxFaults /\ faults' = faults + 1

KeepTruncated(p) ==                \* mutant: TRUNCATE before the BEGIN
  target' = IF load[JobOf(p)].mode # "full_refresh" THEN target
            ELSE [target EXCEPT ![JobOf(p)] = {}]
RollBack(p) == UNCHANGED target

Fail(p) ==
  /\ Fault
  /\ \/ proc[p].stage = "ready" /\ proc[p].jobs # << >> /\ UNCHANGED target
     \/ proc[p].stage = "read" /\ RollBack(p)
  /\ proc' = [proc EXCEPT ![p] = Onward(@)]
  /\ UNCHANGED <<load, source, stamp, watermark, window, history>>

PersistLost(p) ==
  /\ Fault
  /\ proc[p].stage = "loaded" /\ Advances(p)
  /\ behind' = behind \cup {JobOf(p)}
  /\ Recorded(p)
  /\ UNCHANGED <<load, source, stamp, target, watermark, window, doubled, crossed>>

Crash(p) ==
  /\ Fault
  /\ proc[p].stage # "idle"
  /\ behind' = IF proc[p].stage = "loaded" /\ Advances(p)
                 THEN behind \cup {JobOf(p)} ELSE behind
  /\ proc' = [proc EXCEPT ![p] = Idle]
  /\ UNCHANGED <<load, source, stamp, target, watermark, window, doubled, crossed>>

-----------------------------------------------------------------------------
(* What a process does when nothing fails.                                 *)
Work(p) ==
  \/ SkipFlow(p) \/ StartFlow(p) \/ NoMoreFlows(p) \/ EndFlow(p)
  \/ Extract(p) \/ Load(p) \/ Persist(p) \/ Report(p)

Next ==
  \/ \E k \in Key : Change(k)
  \/ \E j \in Job : Age(j)
  \/ \E f \in DOMAIN Flows : AgeFlow(f)
  \/ \E p \in FlowProcess : CronFlows(p) \/ \E f \in DOMAIN Flows : AdminFlow(p, f)
  \/ \E p \in Process :
       \/ Work(p) \/ Reread(p)
       \/ \E j \in Job : CronJob(p, j) \/ AdminJob(p, j)
       \/ Fail(p) \/ PersistLost(p) \/ Crash(p)

Spec == Init /\ [][Next]_vars

(* Processes run, intervals end, and cron starts every job again and again *)
(* for which its window allows it.                                         *)
FairSpec ==
  /\ Spec
  /\ \A p \in Process : WF_vars(Work(p))
  /\ \A j \in Job : WF_vars(Age(j)) /\ SF_vars(\E p \in Process : CronJob(p, j))

-----------------------------------------------------------------------------
(* The watermark never passes by a row: every current version up to it is  *)
(* in the target, through failures, crashes and lost updates, whether or   *)
(* not the query uses it.  With upsert an older run that overlaps a newer  *)
(* one may undo this; a full refresh keeps only what it read.              *)
NothingSkipped ==
  \A j \in Job :
    load[j].mode = "append" \/ (load[j].mode = "upsert" /\ j \notin crossed) =>
      \A v \in Current : v[2] <= watermark[j] => v \in target[j]

(* A job that asks only for the rows above its watermark appends a version *)
(* again only if two runs of the job overlapped, its load was committed    *)
(* and its watermark not stored, or a process ran the job twice with one   *)
(* copy of the configuration.  Any other append job repeats all its rows   *)
(* in every run.                                                           *)
AppendedOnce ==
  \A j \in doubled : Incremental(j) => j \in crossed \cup behind

(* A full refresh of the rows above the watermark, which drops the others. *)
DropsOld(j) == load[j].mode = "full_refresh" /\ Incremental(j)

(* Neither a target nor a watermark goes back: a row stays, and is as new  *)
(* as it was, and no watermark is replaced by an older one, unless runs of *)
(* the job overlapped.                                                     *)
NeverOlder ==
  [][ \A j \in Job \ crossed :
        /\ ~DropsOld(j) =>
             \A v \in target[j] : \E w \in target'[j] : w[1] = v[1] /\ w[2] >= v[2]
        /\ watermark'[j] >= watermark[j] ]_vars

(* The targets catch up with the source after any overlap, failure and     *)
(* lost watermark; but an incremental upsert may lose a row for good to an *)
(* overlap, and an incremental full refresh keeps only the newest rows.    *)
CatchesUp ==
  <>[](\A j \in Job : \/ DropsOld(j)
                      \/ load[j].mode = "upsert" /\ Incremental(j) /\ j \in crossed
                      \/ Current \subseteq target[j])
=============================================================================
