---------------------------- MODULE EtlJobsProofs ----------------------------
(***************************************************************************)
(* Proofs about EtlJobs, for any processes, jobs, rows, flows and bounds.  *)
(*                                                                         *)
(* TInv adds to the types how a process is wired: a run that read rows has *)
(* a job in hand, and one that goes through the flows is at one of them.   *)
(* HInv says that a job in the hands of two processes is crossed.  SInv    *)
(* follows the rows of a run: what it read is the newest there was, and    *)
(* every row up to its newest one is in the target or among those it will  *)
(* write.  AInv is the same from the other side: what is in the target of  *)
(* an undisturbed incremental append job is not newer than its watermark.  *)
(***************************************************************************)
EXTENDS EtlJobs, SequenceTheorems, TLAPS

-----------------------------------------------------------------------------
(* Definitions                                                             *)

HasJob(r)   == r.stage \in {"read", "loaded", "recorded"} => r.jobs # << >>
AtAJob(r)   == r.stage = "ready" /\ r.flow = 0 => r.jobs # << >>
InFlows(r)  == r.stage # "flows" => r.flow \in DOMAIN Flows \/ (r.flow = 0 /\ ~r.more)
Between(r)  == r.stage = "flows" => r.more /\ r.jobs = << >>
AtRest(r)   == r.stage = "idle" => r = Idle
Holding(r)  == r.stage \notin {"read", "loaded"} => r.rows = {}

Wired(r) == /\ HasJob(r) /\ AtAJob(r) /\ InFlows(r)
            /\ Between(r) /\ AtRest(r) /\ Holding(r)

Wiring == \A p \in Process : Wired(proc[p])
TInv   == TypeOK /\ Wiring

(* Jobs in the hands of two processes are crossed.                         *)
HInv == \A p, q \in Process : p # q => InHand(proc[p]) \cap InHand(proc[q]) \subseteq crossed

(* Nothing is newer than the source.                                       *)
InThePast ==
  /\ \A k \in Key : source[k] <= stamp
  /\ \A j \in Job : /\ watermark[j] <= stamp
                    /\ \A p \in Process : proc[p].known[j] <= stamp
  /\ \A j \in Job : \A v \in target[j] : v[2] # 0 /\ v[2] <= source[v[1]]
  /\ \A p \in Process : \A w \in proc[p].rows : w[2] # 0 /\ w[2] <= source[w[1]]

(* The jobs NothingSkipped speaks of.                                      *)
Followed(j) == load[j].mode = "append" \/ (load[j].mode = "upsert" /\ j \notin crossed)

Covered(j, m) == \A v \in Current : v[2] <= m => v \in target[j]

Marks == \A j \in Job : Followed(j) => /\ Covered(j, watermark[j])
                                       /\ \A p \in Process : Covered(j, proc[p].known[j])

Busy(p, st) == proc[p].stage = st

(* Every row up to one that was read is written, or will be.               *)
Reaches(p) ==
  /\ Busy(p, "read") /\ Followed(JobOf(p)) =>
       \A v \in Current, w \in proc[p].rows :
         v[2] <= w[2] => v \in proc[p].rows \cup target[JobOf(p)]
  /\ Busy(p, "loaded") /\ Followed(JobOf(p)) =>
       \A v \in Current, w \in proc[p].rows : v[2] <= w[2] => v \in target[JobOf(p)]

(* What was read is no older than what is in the target.                   *)
Fresher(p) ==
  Busy(p, "read") /\ JobOf(p) \notin crossed =>
    \A v \in target[JobOf(p)] :
      /\ \A w \in proc[p].rows : w[1] = v[1] => v[2] <= w[2]
      /\ load[JobOf(p)].mode = "full_refresh" /\ ~Incremental(JobOf(p)) => \E w \in proc[p].rows : w[1] = v[1]

SInv == InThePast /\ Marks /\ \A p \in Process : Reaches(p) /\ Fresher(p)

(* An append job that nothing disturbed.                                   *)
Calm(j) == load[j].mode = "append" /\ Incremental(j) /\ j \notin crossed \cup behind

Below == \A j \in Job : Calm(j) =>
           \A v \in target[j] :
             v[2] <= watermark[j] \/ \E p \in Process : /\ Busy(p, "loaded")
                                                        /\ JobOf(p) = j /\ v \in proc[p].rows

StillNew(p) ==
  /\ Busy(p, "read") /\ Calm(JobOf(p)) =>
       \A w \in proc[p].rows : w[2] > watermark[JobOf(p)] /\ w \notin target[JobOf(p)]
  /\ Busy(p, "loaded") /\ Calm(JobOf(p)) =>
       \A w \in proc[p].rows : w[2] > watermark[JobOf(p)]

AInv == AppendedOnce /\ Below /\ \A p \in Process : StillNew(p)

(* The kinds of steps: a process goes on with what it has, or it comes to  *)
(* rest without rows, with the watermarks it had, none, or the stored ones.*)
Same(q)  == /\ proc'[q].stage = proc[q].stage /\ proc'[q].jobs = proc[q].jobs
            /\ proc'[q].rows = proc[q].rows /\ proc'[q].known = proc[q].known
Rests(q) == /\ proc'[q].stage \notin {"read", "loaded"} /\ proc'[q].rows = {}
            /\ \A j \in Job : proc'[q].known[j] \in {0, proc[q].known[j], watermark[j]}

(* Rows and watermarks stay; a load without its watermark is noted.        *)
Quiet == /\ UNCHANGED <<load, source, stamp, target, watermark, doubled>>
         /\ crossed \subseteq crossed' /\ behind \subseteq behind'
         /\ \A q \in Process :
              \/ Same(q)
              \/ /\ Rests(q)
                 /\ proc[q].stage = "loaded" /\ Advances(q) => JobOf(q) \in behind'

Stored(p) == /\ proc[p].stage = "loaded" /\ Advances(p)
             /\ \E m \in Stamp : /\ IsNewest(m, proc[p].rows)
                                 /\ watermark' = [watermark EXCEPT ![JobOf(p)] = m]
             /\ Rests(p) /\ \A q \in Process \ {p} : Same(q)
             /\ UNCHANGED <<load, source, stamp, target, history>>

AStep == \/ Quiet
         \/ \E k \in Key : Change(k)
         \/ \E p \in Process : Extract(p) \/ Load(p) \/ Stored(p)

-----------------------------------------------------------------------------
(* Records and sequences.                                                  *)
LEMMA Bounds ==
  /\ MaxStamp \in Nat /\ MaxFaults \in Nat /\ Len(Flows) \in Nat
  /\ DOMAIN Flows = 1..Len(Flows)
  /\ \A f \in DOMAIN Flows : Flows[f] \in Seq(Job)
  /\ Stamp = 0..MaxStamp /\ 0 \in Stamp
  BY EtlJobsAssumption DEF Stamp

LEMMA JobsFacts ==
  ASSUME NEW s \in Seq(Job)
  PROVE  /\ Elements(s) \subseteq Job
         /\ s # << >> => /\ Head(s) \in Job /\ Head(s) \in Elements(s)
                         /\ Tail(s) \in Seq(Job)
                         /\ Elements(Tail(s)) \subseteq Elements(s)
  <1>1. Len(s) \in Nat /\ DOMAIN s = 1..Len(s) /\ \A i \in 1..Len(s) : s[i] \in Job
    OBVIOUS
  <1>2. Elements(s) \subseteq Job
    BY <1>1 DEF Elements
  <1>3. ASSUME s # << >>
        PROVE  /\ Head(s) \in Job /\ Head(s) \in Elements(s)
               /\ Tail(s) \in Seq(Job) /\ Elements(Tail(s)) \subseteq Elements(s)
    <2>1. Len(s) > 0 /\ Head(s) = s[1] /\ 1 \in DOMAIN s
      BY <1>1, <1>3
    <2>2. /\ Tail(s) \in Seq(Job) /\ Len(Tail(s)) = Len(s) - 1
          /\ \A i \in 1..Len(Tail(s)) : Tail(s)[i] = s[i + 1]
      BY <1>1, <1>3, <2>1
    <2>3. \A i \in DOMAIN Tail(s) : i + 1 \in DOMAIN s /\ Tail(s)[i] = s[i + 1]
      BY <1>1, <2>1, <2>2
    <2>4. Elements(Tail(s)) \subseteq Elements(s)
      BY <2>3 DEF Elements
    <2> QED BY <1>1, <2>1, <2>2, <2>4 DEF Elements
  <1> QED BY <1>2, <1>3

LEMMA NoJobs == << >> \in Seq(Job) /\ Elements(<< >>) = {}
  BY DEF Elements

LEMMA OneJob ==
  ASSUME NEW j \in Job
  PROVE  <<j>> \in Seq(Job) /\ <<j>> # << >> /\ Head(<<j>>) = j
  OBVIOUS

LEMMA IdleFacts ==
  /\ Idle \in Run /\ Wired(Idle) /\ InHand(Idle) = {}
  /\ Idle.stage = "idle" /\ Idle.rows = {} /\ Idle.flow = 0 /\ Idle.more = FALSE
  /\ Idle.jobs = << >>
  /\ Idle.known \in [Job -> Stamp] /\ \A j \in Job : Idle.known[j] = 0
  <1>1. /\ Idle.stage = "idle" /\ Idle.rows = {} /\ Idle.flow = 0 /\ Idle.more = FALSE
        /\ Idle.jobs = << >> /\ Idle.known = [j \in Job |-> 0] /\ Idle.counts = FALSE
    BY DEF Idle
  <1>2. Idle.known \in [Job -> Stamp] /\ \A j \in Job : Idle.known[j] = 0
    BY <1>1, Bounds
  <1>3. Idle \in Run
    BY <1>2, Bounds, NoJobs DEF Idle, Run
  <1>4. Wired(Idle)
    BY <1>1 DEF Wired, HasJob, AtAJob, InFlows, Between, AtRest, Holding
  <1>5. InHand(Idle) = {}
    BY <1>1, NoJobs DEF InHand, Ahead
  <1> QED BY <1>1, <1>2, <1>3, <1>4, <1>5

LEMMA RunFields ==
  ASSUME NEW r \in Run
  PROVE  /\ r.stage \in {"idle", "flows", "ready", "read", "loaded", "recorded"}
         /\ r.more \in BOOLEAN /\ r.flow \in 0..(Len(Flows) + 1) /\ r.jobs \in Seq(Job)
         /\ r.known \in [Job -> Stamp] /\ r.rows \subseteq Version /\ r.counts \in BOOLEAN
  BY DEF Run

(* A step of one process.                                                  *)
LEMMA OneMoves ==
  ASSUME NEW p \in Process, NEW r \in Run, Wired(r), TInv,
         proc' = [proc EXCEPT ![p] = r]
  PROVE  /\ proc' \in [Process -> Run] /\ Wiring'
         /\ proc'[p] = r /\ \A q \in Process \ {p} : proc'[q] = proc[q]
  <1>1. proc \in [Process -> Run] /\ \A q \in Process : Wired(proc[q])
    BY DEF TInv, TypeOK, Wiring
  <1>2. /\ proc' \in [Process -> Run] /\ proc'[p] = r
        /\ \A q \in Process \ {p} : proc'[q] = proc[q]
    BY <1>1
  <1>3. \A q \in Process : Wired(proc'[q])
    BY <1>1, <1>2
  <1> QED BY <1>2, <1>3 DEF Wiring, Wired, HasJob, AtAJob, InFlows, Between, AtRest, Holding

LEMMA NextFlowFacts ==
  ASSUME NEW r \in Run, r.more, r.flow \in DOMAIN Flows
  PROVE  /\ NextFlow(r) \in Run /\ Wired(NextFlow(r))
         /\ NextFlow(r).stage = "flows" /\ NextFlow(r).more = r.more
         /\ NextFlow(r).flow = r.flow + 1 /\ NextFlow(r).jobs = << >>
         /\ NextFlow(r).rows = {} /\ NextFlow(r).known = r.known
  <1>1. /\ NextFlow(r).stage = "flows" /\ NextFlow(r).more = r.more
        /\ NextFlow(r).flow = r.flow + 1 /\ NextFlow(r).jobs = << >>
        /\ NextFlow(r).rows = {} /\ NextFlow(r).known = r.known
    BY DEF NextFlow, Run
  <1>2. r.flow + 1 \in 0..(Len(Flows) + 1)
    BY Bounds
  <1>3. NextFlow(r) \in Run
    BY <1>2, NoJobs DEF NextFlow, Run
  <1>4. Wired(NextFlow(r))
    BY <1>1 DEF Wired, HasJob, AtAJob, InFlows, Between, AtRest, Holding
  <1> QED BY <1>1, <1>3, <1>4

LEMMA OnwardFacts ==
  ASSUME NEW r \in Run, Wired(r), r.stage # "flows"
  PROVE  /\ Onward(r) \in Run /\ Wired(Onward(r))
         /\ Onward(r).stage \in {"idle", "flows"} /\ Onward(r).rows = {}
         /\ \A j \in Job : Onward(r).known[j] \in {0, r.known[j]}
  <1>1. CASE r.more
    <2>1. r.flow \in DOMAIN Flows
      BY <1>1 DEF Wired, InFlows
    <2> QED BY <1>1, <2>1, NextFlowFacts DEF Onward
  <1>2. CASE ~r.more
    BY <1>2, IdleFacts DEF Onward
  <1> QED BY <1>1, <1>2

-----------------------------------------------------------------------------
(* Types.                                                                  *)
LEMMA TypeInit == Init => TInv
  <1> SUFFICES ASSUME Init PROVE TInv
    OBVIOUS
  <1>1. TypeOK
    BY IdleFacts, Bounds, EtlJobsAssumption DEF Init, TypeOK
  <1>2. Wiring
    BY IdleFacts DEF Init, Wiring
  <1> QED BY <1>1, <1>2 DEF TInv

(* What one process becomes in a step that is not the end of an interval.  *)
LEMMA LaunchType ==
  ASSUME TInv, NEW p \in Process, NEW run \in Run, Launch(p, run),
         run.stage \in {"flows", "ready"}, Wired([run EXCEPT !.known = watermark])
  PROVE  TInv'
  <1>1. watermark \in [Job -> Stamp]
    BY DEF TInv, TypeOK
  <1>2. [run EXCEPT !.known = watermark] \in Run
    BY <1>1 DEF Run
  <1>3. proc' \in [Process -> Run] /\ Wiring'
    BY <1>2, OneMoves DEF Launch
  <1>4. \A q \in Process : InHand(proc[q]) \subseteq UNION {InHand(proc[x]) : x \in Process}
    OBVIOUS
  <1>5. crossed' \subseteq Job
    <2>1. \A r \in Run : InHand(r) \subseteq Job
      <3> SUFFICES ASSUME NEW r \in Run PROVE InHand(r) \subseteq Job
        OBVIOUS
      <3>1. \A f \in DOMAIN Flows : Elements(Flows[f]) \subseteq Job
        BY Bounds, JobsFacts
      <3>2. Elements(r.jobs) \subseteq Job
        BY RunFields, JobsFacts
      <3> QED BY <3>1, <3>2 DEF InHand, Ahead
    <2> QED BY <2>1 DEF Launch, TInv, TypeOK
  <1> QED BY <1>3, <1>5 DEF TInv, TypeOK, Launch, window, history

(* The successes of some runs do not count any more.                       *)
LEMMA CountsOut ==
  ASSUME TInv, NEW S \in SUBSET Process, \A p \in S : proc[p].stage # "idle",
         proc' = [p \in Process |-> IF p \in S THEN [proc[p] EXCEPT !.counts = FALSE]
                                    ELSE proc[p]]
  PROVE  /\ proc' \in [Process -> Run] /\ Wiring'
         /\ \A p \in Process : /\ proc'[p].stage = proc[p].stage /\ proc'[p].more = proc[p].more
                               /\ proc'[p].flow = proc[p].flow /\ proc'[p].jobs = proc[p].jobs
                               /\ proc'[p].known = proc[p].known /\ proc'[p].rows = proc[p].rows
  <1>1. ASSUME NEW p \in Process
        PROVE  /\ proc'[p] \in Run /\ Wired(proc'[p])
               /\ proc'[p].stage = proc[p].stage /\ proc'[p].more = proc[p].more
               /\ proc'[p].flow = proc[p].flow /\ proc'[p].jobs = proc[p].jobs
               /\ proc'[p].known = proc[p].known /\ proc'[p].rows = proc[p].rows
    <2>1. proc[p] \in Run /\ Wired(proc[p])
      BY DEF TInv, TypeOK, Wiring
    <2>2. CASE p \in S
      <3> DEFINE r == proc[p]
                 n == [r EXCEPT !.counts = FALSE]
      <3>1. proc'[p] = n
        BY <2>2
      <3>2. r \in Run /\ Wired(r) /\ r.stage # "idle"
        BY <2>1, <2>2
      <3>3. /\ n \in Run /\ n.stage = r.stage /\ n.more = r.more /\ n.flow = r.flow
            /\ n.jobs = r.jobs /\ n.rows = r.rows /\ n.known = r.known
        BY <3>2 DEF Run
      <3> HIDE DEF n, r
      <3>4. Wired(n)
        BY <3>2, <3>3 DEF Wired, HasJob, AtAJob, InFlows, Between, AtRest, Holding
      <3> QED BY <3>1, <3>3, <3>4 DEF r
    <2>3. CASE p \notin S
      BY <2>1, <2>3
    <2> QED BY <2>2, <2>3
  <1>2. proc' \in [Process -> Run]
    BY <1>1
  <1>3. Wiring'
    BY <1>1 DEF Wiring, Wired, HasJob, AtAJob, InFlows, Between, AtRest, Holding
  <1> QED BY <1>1, <1>2, <1>3

LEMMA AgeFacts ==
  ASSUME TInv, (\E j \in Job : Age(j)) \/ (\E f \in DOMAIN Flows : AgeFlow(f))
  PROVE  /\ proc' \in [Process -> Run] /\ Wiring'
         /\ \A p \in Process : /\ proc'[p].stage = proc[p].stage /\ proc'[p].more = proc[p].more
                               /\ proc'[p].flow = proc[p].flow /\ proc'[p].jobs = proc[p].jobs
                               /\ proc'[p].known = proc[p].known /\ proc'[p].rows = proc[p].rows
         /\ ran' \subseteq ran /\ flowRan' \subseteq flowRan
         /\ UNCHANGED <<load, source, stamp, target, watermark, faults, history>>
  <1>1. ASSUME NEW j \in Job, Age(j)
        PROVE \E S \in SUBSET Process :
                /\ \A p \in S : proc[p].stage # "idle"
                /\ proc' = [p \in Process |-> IF p \in S THEN [proc[p] EXCEPT !.counts = FALSE]
                                              ELSE proc[p]]
    <2> DEFINE S == {p \in Process : /\ proc[p].flow = 0 /\ proc[p].stage \notin {"idle", "ready"}
                                     /\ JobOf(p) = j}
    <2>1. proc' = [p \in Process |-> IF p \in S THEN [proc[p] EXCEPT !.counts = FALSE] ELSE proc[p]]
      BY <1>1 DEF Age
    <2> QED BY <2>1
  <1>2. ASSUME NEW f \in DOMAIN Flows, AgeFlow(f)
        PROVE \E S \in SUBSET Process :
                /\ \A p \in S : proc[p].stage # "idle"
                /\ proc' = [p \in Process |-> IF p \in S THEN [proc[p] EXCEPT !.counts = FALSE]
                                              ELSE proc[p]]
    <2> DEFINE S == {p \in Process : proc[p].flow = f}
    <2>1. proc' = [p \in Process |-> IF p \in S THEN [proc[p] EXCEPT !.counts = FALSE] ELSE proc[p]]
      BY <1>2 DEF AgeFlow
    <2>2. \A p \in S : proc[p].stage # "idle"
      BY Bounds, IdleFacts DEF TInv, TypeOK, Wiring, Wired, AtRest
    <2> QED BY <2>1, <2>2
  <1>3. \E S \in SUBSET Process :
                /\ \A p \in S : proc[p].stage # "idle"
                /\ proc' = [p \in Process |-> IF p \in S THEN [proc[p] EXCEPT !.counts = FALSE]
                                              ELSE proc[p]]
    BY <1>1, <1>2
  <1>4. /\ ran' \subseteq ran /\ flowRan' \subseteq flowRan
        /\ UNCHANGED <<load, source, stamp, target, watermark, faults, history>>
    BY DEF Age, AgeFlow
  <1> QED BY <1>3, <1>4, CountsOut

(* What is started is a job or a flow, or the flows one after the other.   *)
LEMMA Launches ==
  ASSUME TInv, NEW p \in Process,
         \/ CronFlows(p) \/ \E f \in DOMAIN Flows : AdminFlow(p, f)
         \/ \E j \in Job : CronJob(p, j) \/ AdminJob(p, j)
  PROVE  \E run \in Run : /\ Launch(p, run)
                          /\ run.stage \in {"flows", "ready"} /\ run.rows = {}
                          /\ Wired([run EXCEPT !.known = watermark])
  <1> USE DEF Wired, HasJob, AtAJob, InFlows, Between, AtRest, Holding
  <1>1. ASSUME NEW j \in Job, NEW c \in BOOLEAN
        PROVE  LET run == [Idle EXCEPT !.stage = "ready", !.jobs = <<j>>, !.counts = c]
               IN  /\ run \in Run /\ run.stage = "ready" /\ run.rows = {}
                   /\ Wired([run EXCEPT !.known = watermark])
    BY OneJob, IdleFacts, Bounds DEF Run, Idle
  <1>2. CASE \E j \in Job : CronJob(p, j) \/ AdminJob(p, j)
    <2>1. PICK j \in Job : CronJob(p, j) \/ AdminJob(p, j)
      BY <1>2
    <2>2. CASE CronJob(p, j)
      BY <2>2, <1>1 DEF CronJob
    <2>3. CASE AdminJob(p, j)
      <3> DEFINE run == [Idle EXCEPT !.stage = "ready", !.jobs = <<j>>]
      <3>1. /\ run \in Run /\ run.stage = "ready" /\ run.rows = {}
            /\ Wired([run EXCEPT !.known = watermark])
        BY OneJob, IdleFacts, Bounds DEF Run, Idle
      <3> QED BY <2>3, <3>1 DEF AdminJob
    <2> QED BY <2>1, <2>2, <2>3
  <1>3. CASE CronFlows(p)
    <2> DEFINE run == [Idle EXCEPT !.stage = "flows", !.more = TRUE, !.flow = 1]
    <2>1. run.stage = "flows" /\ run.rows = {} /\ run.more = TRUE /\ run.jobs = << >>
      BY DEF Idle
    <2>2. run \in Run
      <3>1. 1 \in 0..(Len(Flows) + 1)
        BY Bounds
      <3> QED BY <3>1, IdleFacts DEF Run
    <2>3. Wired([run EXCEPT !.known = watermark])
      <3> DEFINE n == [run EXCEPT !.known = watermark]
      <3>1. n.stage = "flows" /\ n.rows = {} /\ n.more = TRUE /\ n.jobs = << >>
        BY <2>1, <2>2 DEF Run
      <3>2. Wired(n)
        <4> HIDE DEF n
        <4> QED BY <3>1
      <3> QED BY <3>2
    <2> QED BY <1>3, <2>1, <2>2, <2>3 DEF CronFlows
  <1>4. ASSUME NEW f \in DOMAIN Flows, AdminFlow(p, f)
        PROVE  \E run \in Run : /\ Launch(p, run)
                                /\ run.stage \in {"flows", "ready"} /\ run.rows = {}
                                /\ Wired([run EXCEPT !.known = watermark])
    <2> DEFINE run == [Idle EXCEPT !.stage = "ready", !.flow = f,
                                   !.jobs = Flows[f], !.counts = TRUE]
    <2>1. f # 0 /\ f \in 0..(Len(Flows) + 1)
      BY Bounds
    <2>2. /\ run \in Run /\ run.stage = "ready" /\ run.rows = {}
          /\ Wired([run EXCEPT !.known = watermark])
      BY <2>1, IdleFacts, Bounds DEF Run, Idle
    <2> QED BY <1>4, <2>2 DEF AdminFlow
  <1> QED BY <1>2, <1>3, <1>4

(* After a load the process goes on without its rows.                      *)
LEMMA RecordedFacts ==
  ASSUME TInv, NEW p \in Process, proc[p].stage = "loaded", Recorded(p)
  PROVE  /\ proc' \in [Process -> Run] /\ Wiring'
         /\ proc'[p].stage \in {"ready", "recorded"} /\ proc'[p].rows = {}
         /\ proc'[p].known = proc[p].known
         /\ \A q \in Process \ {p} : proc'[q] = proc[q]
  <1> USE DEF Wired, HasJob, AtAJob, InFlows, Between, AtRest, Holding
  <1> DEFINE r == proc[p]
             n == AfterLoad(r)
  <1>1. r \in Run /\ Wired(r) /\ r.stage = "loaded" /\ r.jobs # << >>
    BY DEF TInv, TypeOK, Wiring
  <1>2. proc' = [proc EXCEPT ![p] = n]
    BY DEF Recorded
  <1> HIDE DEF r
  <1>3. Tail(r.jobs) \in Seq(Job)
    BY <1>1, RunFields, JobsFacts
  <1>4. /\ n \in Run /\ Wired(n)
        /\ n.stage \in {"ready", "recorded"} /\ n.rows = {} /\ n.known = r.known
    BY <1>1, <1>3 DEF Run, AfterLoad
  <1> HIDE DEF n
  <1>5. /\ proc' \in [Process -> Run] /\ Wiring' /\ proc'[p] = n
        /\ \A q \in Process \ {p} : proc'[q] = proc[q]
    BY <1>2, <1>4, OneMoves
  <1> QED BY <1>4, <1>5 DEF r

(* A process that gives up goes on with the next flow or ends.             *)
LEMMA OnwardStep ==
  ASSUME TInv, NEW p \in Process, proc[p].stage # "flows",
         proc' = [proc EXCEPT ![p] = Onward(@)]
  PROVE  /\ proc' \in [Process -> Run] /\ Wiring'
         /\ proc'[p].stage \in {"idle", "flows"} /\ proc'[p].rows = {}
         /\ \A j \in Job : proc'[p].known[j] \in {0, proc[p].known[j]}
         /\ \A q \in Process \ {p} : proc'[q] = proc[q]
  <1>1. proc[p] \in Run /\ Wired(proc[p])
    BY DEF TInv, TypeOK, Wiring
  <1>2. /\ Onward(proc[p]) \in Run /\ Wired(Onward(proc[p]))
        /\ Onward(proc[p]).stage \in {"idle", "flows"} /\ Onward(proc[p]).rows = {}
        /\ \A j \in Job : Onward(proc[p]).known[j] \in {0, proc[p].known[j]}
    BY <1>1, OnwardFacts
  <1>3. proc' = [proc EXCEPT ![p] = Onward(proc[p])]
    OBVIOUS
  <1>4. /\ proc' \in [Process -> Run] /\ Wiring' /\ proc'[p] = Onward(proc[p])
        /\ \A q \in Process \ {p} : proc'[q] = proc[q]
    BY <1>2, <1>3, OneMoves
  <1> QED BY <1>2, <1>4

LEMMA IdleStep ==
  ASSUME TInv, NEW p \in Process, proc' = [proc EXCEPT ![p] = Idle]
  PROVE  /\ proc' \in [Process -> Run] /\ Wiring' /\ proc'[p] = Idle
         /\ \A q \in Process \ {p} : proc'[q] = proc[q]
  BY IdleFacts, OneMoves

LEMMA QuietMove ==
  ASSUME NEW p \in Process, \A q \in Process \ {p} : proc'[q] = proc[q],
         proc'[p].stage \notin {"read", "loaded"}, proc'[p].rows = {},
         \A j \in Job : proc'[p].known[j] \in {0, proc[p].known[j], watermark[j]},
         proc[p].stage = "loaded" /\ Advances(p) => JobOf(p) \in behind',
         UNCHANGED <<load, source, stamp, target, watermark, doubled>>,
         crossed \subseteq crossed', behind \subseteq behind'
  PROVE  AStep
  BY DEF AStep, Quiet, Same, Rests

LEMMA ReadFacts ==
  ASSUME TInv, NEW p \in Process, Extract(p)
  PROVE  LET j == JobOf(p)
             rows == Rows(j, proc[p].known[j])
         IN  /\ j \in Job /\ rows \subseteq Version
             /\ proc' \in [Process -> Run] /\ Wiring'
             /\ proc'[p].stage = "read" /\ proc'[p].jobs = proc[p].jobs /\ proc'[p].rows = rows
             /\ \A i \in Job : proc'[p].known[i] \in {0, proc[p].known[i]}
             /\ \A q \in Process \ {p} : proc'[q] = proc[q]
  <1> DEFINE r == proc[p]
             j == JobOf(p)
             kn == IF r.flow = 0 THEN Idle.known ELSE r.known
             n == [r EXCEPT !.stage = "read", !.rows = Rows(j, r.known[j]), !.known = kn]
  <1>1. r \in Run /\ Wired(r) /\ r.stage = "ready" /\ r.jobs # << >>
    BY DEF TInv, TypeOK, Wiring, Extract
  <1>2. j \in Job
    BY <1>1, RunFields, JobsFacts DEF JobOf
  <1>3. Rows(j, r.known[j]) \subseteq Version
    <2>1. Current \subseteq Version
      BY DEF Current, Version, TInv, TypeOK
    <2> QED BY <2>1 DEF Rows
  <1>4. kn \in [Job -> Stamp] /\ \A i \in Job : kn[i] \in {0, r.known[i]}
    BY <1>1, RunFields, IdleFacts
  <1>5. proc' = [proc EXCEPT ![p] = n]
    BY DEF Extract
  <1>6. /\ n \in Run /\ n.stage = "read" /\ n.jobs = r.jobs /\ n.known = kn
        /\ n.rows = Rows(j, r.known[j]) /\ n.more = r.more /\ n.flow = r.flow
    <2> HIDE DEF kn, r, j
    <2> QED BY <1>1, <1>3, <1>4 DEF Run
  <1>7. Wired(n)
    <2> HIDE DEF n, kn, r
    <2> QED BY <1>1, <1>6 DEF Wired, HasJob, AtAJob, InFlows, Between, AtRest, Holding
  <1>8. /\ proc' \in [Process -> Run] /\ Wiring' /\ proc'[p] = n
        /\ \A q \in Process \ {p} : proc'[q] = proc[q]
    <2> HIDE DEF n
    <2> QED BY <1>5, <1>6, <1>7, OneMoves
  <1> HIDE DEF n, kn
  <1> QED BY <1>2, <1>3, <1>4, <1>6, <1>8

LEMMA LoadFacts ==
  ASSUME TInv, NEW p \in Process, Load(p)
  PROVE  /\ JobOf(p) \in Job /\ proc[p].rows \subseteq Version
         /\ proc' \in [Process -> Run] /\ Wiring'
         /\ proc'[p].stage = "loaded" /\ proc'[p].jobs = proc[p].jobs
         /\ proc'[p].rows = proc[p].rows /\ proc'[p].known = proc[p].known
         /\ \A q \in Process \ {p} : proc'[q] = proc[q]
  <1> DEFINE r == proc[p]
             n == [r EXCEPT !.stage = "loaded"]
  <1>1. r \in Run /\ Wired(r) /\ r.stage = "read" /\ r.jobs # << >>
    BY DEF TInv, TypeOK, Wiring, Load, Wired, HasJob
  <1>2. JobOf(p) \in Job /\ r.rows \subseteq Version
    BY <1>1, RunFields, JobsFacts DEF JobOf
  <1>3. proc' = [proc EXCEPT ![p] = n]
    BY DEF Load
  <1>4. /\ n \in Run /\ n.stage = "loaded" /\ n.jobs = r.jobs /\ n.known = r.known
        /\ n.rows = r.rows /\ n.more = r.more /\ n.flow = r.flow
    <2> HIDE DEF r
    <2> QED BY <1>1 DEF Run
  <1> HIDE DEF n
  <1>5. Wired(n)
    BY <1>1, <1>4 DEF Wired, HasJob, AtAJob, InFlows, Between, AtRest, Holding
  <1>6. /\ proc' \in [Process -> Run] /\ Wiring' /\ proc'[p] = n
        /\ \A q \in Process \ {p} : proc'[q] = proc[q]
    BY <1>3, <1>4, <1>5, OneMoves
  <1> QED BY <1>2, <1>4, <1>6

LEMMA JobInType ==
  ASSUME TInv, NEW p \in Process, proc[p].stage \in {"read", "loaded", "recorded"}
  PROVE  JobOf(p) \in Job
  BY RunFields, JobsFacts DEF TInv, TypeOK, Wiring, Wired, HasJob, JobOf

(* Every step keeps the types and is of one of the kinds.                  *)
LEMMA Steps == TInv /\ [Next]_vars => TInv' /\ AStep
  <1> SUFFICES ASSUME TInv, [Next]_vars PROVE TInv' /\ AStep
    OBVIOUS
  <1> USE DEF history, window
  <1>t. /\ TypeOK /\ Wiring
        /\ \A p \in Process : proc[p] \in Run /\ Wired(proc[p])
    BY DEF TInv, TypeOK, Wiring
  <1>1. ASSUME NEW k \in Key, Change(k) PROVE TInv' /\ AStep
    <2>1. stamp + 1 \in Stamp
      BY <1>1, <1>t, Bounds DEF Change, TypeOK
    <2>2. Wiring'
      BY <1>1, <1>t DEF Change, Wiring, Wired, HasJob, AtAJob, InFlows, Between, AtRest, Holding
    <2>3. TypeOK'
      BY <1>1, <1>t, <2>1 DEF Change, TypeOK
    <2> QED BY <1>1, <2>2, <2>3 DEF TInv, AStep
  <1>2. CASE (\E j \in Job : Age(j)) \/ (\E f \in DOMAIN Flows : AgeFlow(f))
    <2>1. TInv'
      BY <1>2, <1>t, AgeFacts DEF TInv, TypeOK
    <2>2. Quiet
      BY <1>2, AgeFacts DEF Quiet, Same
    <2> QED BY <2>1, <2>2 DEF AStep
  <1>3. ASSUME NEW p \in Process,
               \/ CronFlows(p) \/ \E f \in DOMAIN Flows : AdminFlow(p, f)
               \/ \E j \in Job : CronJob(p, j) \/ AdminJob(p, j)
        PROVE  TInv' /\ AStep
    <2>1. PICK run \in Run : /\ Launch(p, run)
                             /\ run.stage \in {"flows", "ready"} /\ run.rows = {}
                             /\ Wired([run EXCEPT !.known = watermark])
      BY <1>3, Launches
    <2>2. TInv'
      BY <2>1, LaunchType
    <2>3. proc[p] = Idle /\ proc[p].stage # "loaded"
      BY <2>1, IdleFacts DEF Launch
    <2>4. /\ proc'[p].stage = run.stage /\ proc'[p].rows = run.rows /\ proc'[p].known = watermark
          /\ \A q \in Process \ {p} : proc'[q] = proc[q]
      <3>1. proc'[p] = [run EXCEPT !.known = watermark] /\ \A q \in Process \ {p} : proc'[q] = proc[q]
        BY <2>1, <1>t DEF Launch, TypeOK
      <3> QED BY <3>1 DEF Run
    <2>5. AStep
      <3>1. /\ UNCHANGED <<load, source, stamp, target, watermark, doubled>>
            /\ crossed \subseteq crossed' /\ behind \subseteq behind'
        BY <2>1 DEF Launch
      <3>2. proc'[p].stage \notin {"read", "loaded"} /\ proc'[p].rows = {}
        BY <2>1, <2>4
      <3> QED BY <2>3, <2>4, <3>1, <3>2, QuietMove
    <2> QED BY <2>2, <2>5
  <1>4. ASSUME NEW p \in Process, Reread(p) PROVE TInv' /\ AStep
    <2> DEFINE r == proc[p]
               n == [r EXCEPT !.known = watermark]
    <2>1. r \in Run /\ Wired(r) /\ r.stage = "ready"
      BY <1>4, <1>t DEF Reread
    <2>2. proc' = [proc EXCEPT ![p] = n] /\ watermark \in [Job -> Stamp]
      BY <1>4, <1>t DEF Reread, TypeOK
    <2>3. /\ n \in Run /\ n.stage = r.stage /\ n.jobs = r.jobs /\ n.rows = r.rows
          /\ n.flow = r.flow /\ n.more = r.more /\ n.known = watermark
      <3> HIDE DEF r
      <3> QED BY <2>1, <2>2 DEF Run
    <2> HIDE DEF n
    <2>4. Wired(n)
      BY <2>1, <2>3 DEF Wired, HasJob, AtAJob, InFlows, Between, AtRest, Holding
    <2>5. /\ proc' \in [Process -> Run] /\ Wiring' /\ proc'[p] = n
          /\ \A q \in Process \ {p} : proc'[q] = proc[q]
      BY <2>2, <2>3, <2>4, OneMoves
    <2>6. TInv'
      BY <1>4, <1>t, <2>5 DEF Reread, TInv, TypeOK
    <2>7. n.rows = {} /\ r.stage # "loaded" /\ n.stage \notin {"read", "loaded"}
      BY <2>1, <2>3 DEF Wired, Holding
    <2>8. AStep
      BY <1>4, <2>3, <2>5, <2>7, QuietMove DEF Reread
    <2> QED BY <2>6, <2>8
  <1>5. ASSUME NEW p \in Process, SkipFlow(p) PROVE TInv' /\ AStep
    <2>1. proc[p].flow \in DOMAIN Flows /\ proc[p].stage = "flows" /\ proc[p].more
      BY <1>5, <1>t DEF SkipFlow, AtFlow, Wired, Between
    <2>2. /\ NextFlow(proc[p]) \in Run /\ Wired(NextFlow(proc[p]))
          /\ NextFlow(proc[p]).stage = "flows" /\ NextFlow(proc[p]).rows = {}
          /\ NextFlow(proc[p]).known = proc[p].known
      BY <2>1, <1>t, NextFlowFacts
    <2>3. proc' = [proc EXCEPT ![p] = NextFlow(proc[p])]
      BY <1>5 DEF SkipFlow
    <2>4. /\ proc' \in [Process -> Run] /\ Wiring' /\ proc'[p] = NextFlow(proc[p])
          /\ \A q \in Process \ {p} : proc'[q] = proc[q]
      BY <2>2, <2>3, OneMoves
    <2>5. TInv'
      BY <1>5, <1>t, <2>4 DEF SkipFlow, TInv, TypeOK
    <2>6. AStep
      BY <1>5, <2>1, <2>2, <2>4, QuietMove DEF SkipFlow
    <2> QED BY <2>5, <2>6
  <1>6. ASSUME NEW p \in Process, StartFlow(p) PROVE TInv' /\ AStep
    <2> DEFINE r == proc[p]
               n == [r EXCEPT !.stage = "ready", !.jobs = Flows[r.flow], !.counts = TRUE]
    <2>1. r \in Run /\ Wired(r) /\ r.stage = "flows" /\ r.flow \in DOMAIN Flows
      BY <1>6, <1>t DEF StartFlow, AtFlow
    <2>2. Flows[r.flow] \in Seq(Job) /\ r.flow # 0
      BY <2>1, Bounds
    <2>3. proc' = [proc EXCEPT ![p] = n]
      BY <1>6, <1>t DEF StartFlow, TypeOK
    <2>4. /\ n \in Run /\ n.stage = "ready" /\ n.rows = r.rows
          /\ n.flow = r.flow /\ n.more = r.more /\ n.known = r.known
      <3> HIDE DEF r
      <3> QED BY <2>1, <2>2 DEF Run
    <2> HIDE DEF n
    <2>5. Wired(n)
      BY <2>1, <2>2, <2>4 DEF Wired, HasJob, AtAJob, InFlows, Between, AtRest, Holding
    <2>6. /\ proc' \in [Process -> Run] /\ Wiring' /\ proc'[p] = n
          /\ \A q \in Process \ {p} : proc'[q] = proc[q]
      BY <2>3, <2>4, <2>5, OneMoves
    <2>7. TInv'
      BY <1>6, <1>t, <2>6 DEF StartFlow, TInv, TypeOK
    <2>8. r.rows = {}
      BY <2>1 DEF Wired, Holding
    <2>9. AStep
      BY <1>6, <2>1, <2>4, <2>6, <2>8, QuietMove DEF StartFlow
    <2> QED BY <2>7, <2>9
  <1>7. ASSUME NEW p \in Process, NoMoreFlows(p) \/ Report(p) \/ Crash(p)
        PROVE  TInv' /\ AStep
    <2>1. proc' = [proc EXCEPT ![p] = Idle]
      BY <1>7 DEF NoMoreFlows, Report, Crash
    <2>2. /\ proc' \in [Process -> Run] /\ Wiring' /\ proc'[p] = Idle
          /\ \A q \in Process \ {p} : proc'[q] = proc[q]
      BY <2>1, IdleStep
    <2>3. proc[p].stage \in {"read", "loaded", "recorded"} => JobOf(p) \in Job
      BY JobInType
    <2>4. /\ ran' \subseteq Job /\ behind' \subseteq Job /\ faults' \in 0..MaxFaults
          /\ behind \subseteq behind'
          /\ UNCHANGED <<load, source, stamp, target, watermark, flowRan, doubled, crossed>>
          /\ proc[p].stage = "loaded" /\ Advances(p) => JobOf(p) \in behind'
      BY <1>7, <1>t, <2>3, Bounds DEF NoMoreFlows, Report, Crash, Fault, TypeOK
    <2>5. TInv'
      BY <1>t, <2>2, <2>4 DEF TInv, TypeOK
    <2>6. AStep
      BY <2>2, <2>4, IdleFacts, QuietMove
    <2> QED BY <2>5, <2>6
  <1>8. ASSUME NEW p \in Process, EndFlow(p) \/ Fail(p) PROVE TInv' /\ AStep
    <2>1. /\ proc' = [proc EXCEPT ![p] = Onward(@)]
          /\ proc[p].stage \in {"ready", "read"}
      BY <1>8 DEF EndFlow, Fail
    <2>2. /\ proc' \in [Process -> Run] /\ Wiring'
          /\ proc'[p].stage \in {"idle", "flows"} /\ proc'[p].rows = {}
          /\ \A j \in Job : proc'[p].known[j] \in {0, proc[p].known[j]}
          /\ \A q \in Process \ {p} : proc'[q] = proc[q]
      BY <2>1, OnwardStep
    <2>3. EndFlow(p) => proc[p].flow \in 1..Len(Flows)
      BY <1>t, Bounds DEF EndFlow, Wired, InFlows
    <2>4. /\ UNCHANGED <<load, source, stamp, target, watermark, doubled, crossed, behind, ran>>
          /\ faults' \in 0..MaxFaults
      BY <1>8, <1>t, Bounds DEF EndFlow, Fail, RollBack, Fault, TypeOK
    <2>5. flowRan' \subseteq 1..Len(Flows)
      BY <1>8, <1>t, <2>3 DEF EndFlow, Fail, TypeOK
    <2>6. TInv'
      BY <1>t, <2>2, <2>4, <2>5 DEF TInv, TypeOK
    <2>7. AStep
      BY <2>1, <2>2, <2>4, QuietMove
    <2> QED BY <2>6, <2>7
  <1>9. ASSUME NEW p \in Process, Extract(p) PROVE TInv' /\ AStep
    <2>1. TypeOK'
      BY <1>9, <1>t, ReadFacts DEF Extract, TypeOK
    <2> QED BY <1>9, <2>1, ReadFacts DEF TInv, AStep
  <1>10. ASSUME NEW p \in Process, Load(p) PROVE TInv' /\ AStep
    <2>1. JobOf(p) \in Job /\ proc[p].rows \subseteq Version
      BY <1>10, LoadFacts
    <2>2. Loaded(JobOf(p), proc[p].rows) \in SUBSET Version
      BY <1>t, <2>1 DEF TypeOK, Loaded
    <2>3. target' \in [Job -> SUBSET Version] /\ doubled' \subseteq Job
      BY <1>10, <1>t, <2>1, <2>2 DEF Load, TypeOK
    <2>4. TypeOK'
      BY <1>10, <1>t, <2>3, LoadFacts DEF Load, TypeOK
    <2> QED BY <1>10, <2>4, LoadFacts DEF TInv, AStep
  <1>11. ASSUME NEW p \in Process, Persist(p) \/ PersistLost(p) PROVE TInv' /\ AStep
    <2>1. proc[p].stage = "loaded" /\ Recorded(p)
      BY <1>11 DEF Persist, PersistLost
    <2>2. /\ proc' \in [Process -> Run] /\ Wiring'
          /\ proc'[p].stage \in {"ready", "recorded"} /\ proc'[p].rows = {}
          /\ proc'[p].known = proc[p].known
          /\ \A q \in Process \ {p} : proc'[q] = proc[q]
      BY <2>1, RecordedFacts
    <2>3. JobOf(p) \in Job
      BY <2>1, JobInType
    <2>4. /\ UNCHANGED <<load, source, stamp, target, window, doubled, crossed>>
          /\ watermark' \in [Job -> Stamp] /\ faults' \in 0..MaxFaults
          /\ behind' \subseteq Job /\ behind \subseteq behind'
      BY <1>11, <1>t, <2>3, Bounds DEF Persist, PersistLost, Fault, TypeOK
    <2>5. TInv'
      BY <1>t, <2>2, <2>4 DEF TInv, TypeOK
    <2>6. CASE PersistLost(p) \/ ~Advances(p)
      <3>1. UNCHANGED watermark /\ (Advances(p) => JobOf(p) \in behind')
        BY <1>11, <2>6 DEF Persist, PersistLost
      <3> QED BY <2>2, <2>4, <2>5, <3>1, QuietMove
    <2>7. CASE Persist(p) /\ Advances(p)
      <3>1. /\ \E m \in Stamp : /\ IsNewest(m, proc[p].rows)
                                /\ watermark' = [watermark EXCEPT ![JobOf(p)] = m]
            /\ UNCHANGED <<load, source, stamp, target, history>>
        BY <2>7 DEF Persist
      <3>2. Rests(p) /\ \A q \in Process \ {p} : Same(q)
        BY <2>2 DEF Rests, Same
      <3>3. Stored(p)
        BY <2>1, <2>7, <3>1, <3>2 DEF Stored
      <3> QED BY <2>5, <3>3 DEF AStep
    <2> QED BY <1>11, <2>6, <2>7
  <1>12. CASE UNCHANGED vars
    <2>1. TInv'
      BY <1>12, <1>t DEF vars, TInv, TypeOK, Wiring, Wired, HasJob, AtAJob, InFlows,
                         Between, AtRest, Holding
    <2>2. Quiet
      BY <1>12 DEF vars, Quiet, Same
    <2> QED BY <2>1, <2>2 DEF AStep
  <1>13. ASSUME NEW p \in Process, Work(p) PROVE TInv' /\ AStep
    BY <1>13, <1>5, <1>6, <1>7, <1>8, <1>9, <1>10, <1>11 DEF Work
  <1>14. ASSUME NEW p \in FlowProcess, CronFlows(p) \/ \E f \in DOMAIN Flows : AdminFlow(p, f)
         PROVE  TInv' /\ AStep
    <2>1. p \in Process
      BY EtlJobsAssumption
    <2> QED BY <1>14, <2>1, <1>3
  <1>15. CASE Next
    BY <1>15, <1>1, <1>2, <1>3, <1>4, <1>7, <1>8, <1>11, <1>13, <1>14 DEF Next
  <1> QED BY <1>12, <1>15

(* The types hold in every reachable state of the workers: a process is    *)
(* never past the end of the flows and never holds rows without a job.     *)
THEOREM TypeCorrect == Spec => []TypeOK
  <1>1. TInv /\ [Next]_vars => TInv'
    BY Steps
  <1>2. TInv => TypeOK
    BY DEF TInv
  <1> QED BY TypeInit, <1>1, <1>2, PTL DEF Spec

-----------------------------------------------------------------------------
(* What processes have in hand.                                            *)
LEMMA HandKept ==
  ASSUME NEW r, NEW n, n.more = r.more, n.flow = r.flow,
         Elements(n.jobs) \subseteq Elements(r.jobs),
         n.stage = "flows" => r.stage = "flows"
  PROVE  InHand(n) \subseteq InHand(r)
  <1>1. Ahead(n) \subseteq Ahead(r)
    BY DEF Ahead
  <1> QED BY <1>1 DEF InHand

LEMMA HandNextFlow ==
  ASSUME NEW r \in Run, r.more, r.flow \in DOMAIN Flows
  PROVE  InHand(NextFlow(r)) \subseteq InHand(r)
  <1> DEFINE n == NextFlow(r)
  <1>1. n.stage = "flows" /\ n.more = r.more /\ n.flow = r.flow + 1 /\ n.jobs = << >>
    BY NextFlowFacts
  <1>2. r.flow \in Nat /\ r.flow # 0 /\ DOMAIN Flows \subseteq Nat
    BY Bounds
  <1> HIDE DEF n
  <1>3. \A g \in DOMAIN Flows : g > n.flow \/ g = n.flow => g > r.flow
    BY <1>1, <1>2
  <1>4. Ahead(n) \subseteq Ahead(r)
    BY <1>1, <1>2, <1>3 DEF Ahead
  <1>5. InHand(n) \subseteq InHand(r)
    BY <1>1, <1>4, NoJobs DEF InHand
  <1> QED BY <1>5 DEF n

LEMMA HandOnward ==
  ASSUME NEW r \in Run, Wired(r), r.stage # "flows"
  PROVE  InHand(Onward(r)) \subseteq InHand(r)
  <1>1. CASE r.more
    BY <1>1, HandNextFlow DEF Onward, Wired, InFlows
  <1>2. CASE ~r.more
    BY <1>2, IdleFacts DEF Onward
  <1> QED BY <1>1, <1>2

(* A step of one process that takes nothing in hand.                       *)
LEMMA HandOne ==
  ASSUME TInv, NEW p \in Process, NEW n, proc' = [proc EXCEPT ![p] = n],
         InHand(n) \subseteq InHand(proc[p])
  PROVE  \A q \in Process : InHand(proc'[q]) \subseteq InHand(proc[q])
  BY DEF TInv, TypeOK

(* Only a start puts jobs in the hands of a process.                       *)
LEMMA Hands ==
  ASSUME TInv, [Next]_vars
  PROVE  \/ \E p \in Process, run \in Run : Launch(p, run)
         \/ /\ crossed' = crossed
            /\ \A q \in Process : InHand(proc'[q]) \subseteq InHand(proc[q])
  <1> DEFINE Fewer == /\ crossed' = crossed
                      /\ \A q \in Process : InHand(proc'[q]) \subseteq InHand(proc[q])
  <1>t. \A p \in Process : proc[p] \in Run /\ Wired(proc[p])
    BY DEF TInv, TypeOK, Wiring
  <1>1. CASE (\E j \in Job : Age(j)) \/ (\E f \in DOMAIN Flows : AgeFlow(f))
    <2>1. \A q \in Process : InHand(proc'[q]) \subseteq InHand(proc[q])
      BY <1>1, AgeFacts, HandKept
    <2> QED BY <1>1, <2>1 DEF Age, AgeFlow, history
  <1>2. CASE UNCHANGED vars \/ \E k \in Key : Change(k)
    BY <1>2 DEF vars, Change, history
  <1>3. ASSUME NEW p \in Process,
               NoMoreFlows(p) \/ Report(p) \/ Crash(p) \/ EndFlow(p) \/ Fail(p)
        PROVE  Fewer
    <2>1. /\ \/ proc' = [proc EXCEPT ![p] = Idle]
             \/ proc' = [proc EXCEPT ![p] = Onward(proc[p])] /\ proc[p].stage # "flows"
          /\ crossed' = crossed
      BY <1>3 DEF NoMoreFlows, Report, Crash, EndFlow, Fail, history
    <2>2. InHand(Idle) \subseteq InHand(proc[p])
      BY IdleFacts
    <2>3. proc[p].stage # "flows" => InHand(Onward(proc[p])) \subseteq InHand(proc[p])
      BY <1>t, HandOnward
    <2>4. CASE proc' = [proc EXCEPT ![p] = Idle]
      BY <2>1, <2>2, <2>4, HandOne
    <2>5. CASE proc' = [proc EXCEPT ![p] = Onward(proc[p])] /\ proc[p].stage # "flows"
      BY <2>1, <2>3, <2>5, HandOne
    <2> QED BY <2>1, <2>4, <2>5
  <1>4. ASSUME NEW p \in Process, SkipFlow(p) PROVE Fewer
    <2>1. proc[p].flow \in DOMAIN Flows /\ proc[p].more
      BY <1>4, <1>t DEF SkipFlow, AtFlow, Wired, Between
    <2>2. proc' = [proc EXCEPT ![p] = NextFlow(proc[p])] /\ crossed' = crossed
      BY <1>4 DEF SkipFlow, history
    <2> QED BY <1>t, <2>1, <2>2, HandNextFlow, HandOne
  <1>5. ASSUME NEW p \in Process, StartFlow(p) PROVE Fewer
    <2> DEFINE r == proc[p]
               n == [r EXCEPT !.stage = "ready", !.jobs = Flows[r.flow], !.counts = TRUE]
    <2>1. /\ r \in Run /\ Wired(r) /\ r.stage = "flows" /\ r.flow \in DOMAIN Flows
          /\ proc' = [proc EXCEPT ![p] = n] /\ crossed' = crossed
      BY <1>5, <1>t DEF StartFlow, AtFlow, history, TInv, TypeOK
    <2>2. /\ n.stage = "ready" /\ n.more = r.more /\ n.flow = r.flow /\ n.jobs = Flows[r.flow]
      <3> HIDE DEF r
      <3> QED BY <2>1 DEF Run
    <2>3. r.more /\ r.flow # 0
      BY <2>1, Bounds DEF Wired, Between
    <2>4. InHand(n) \subseteq InHand(r)
      <3> HIDE DEF n, r
      <3>1. Ahead(n) \subseteq Ahead(r) /\ Elements(Flows[r.flow]) \subseteq Ahead(r)
        BY <2>1, <2>2, <2>3 DEF Ahead
      <3> QED BY <2>2, <3>1 DEF InHand
    <2> HIDE DEF n
    <2> QED BY <2>1, <2>4, HandOne
  <1>6. ASSUME NEW p \in Process,
               Reread(p) \/ Extract(p) \/ Load(p) \/ Persist(p) \/ PersistLost(p)
        PROVE  Fewer
    <2> DEFINE r == proc[p]
    <2>1. r \in Run /\ Wired(r) /\ crossed' = crossed
      BY <1>6, <1>t DEF Reread, Extract, Load, Persist, PersistLost, history
    <2>2. CASE Reread(p)
      <3> DEFINE n == [r EXCEPT !.known = watermark]
      <3>1. proc' = [proc EXCEPT ![p] = n]
        BY <2>2 DEF Reread, TInv, TypeOK
      <3>2. n.more = r.more /\ n.flow = r.flow /\ n.jobs = r.jobs /\ n.stage = r.stage
        BY <2>1 DEF Run
      <3> HIDE DEF n
      <3>3. InHand(n) \subseteq InHand(r)
        BY <3>2, HandKept
      <3> QED BY <2>1, <3>1, <3>3, HandOne
    <2>3. CASE Extract(p)
      <3> DEFINE n == [r EXCEPT !.stage = "read", !.rows = Rows(JobOf(p), r.known[JobOf(p)]),
                                !.known = IF r.flow = 0 THEN Idle.known ELSE r.known]
      <3>1. proc' = [proc EXCEPT ![p] = n]
        BY <2>3 DEF Extract
      <3>2. n.more = r.more /\ n.flow = r.flow /\ n.jobs = r.jobs /\ n.stage = "read"
        BY <2>1 DEF Run
      <3> HIDE DEF n
      <3>3. InHand(n) \subseteq InHand(r)
        BY <3>2, HandKept
      <3> QED BY <2>1, <3>1, <3>3, HandOne
    <2>4. CASE Load(p)
      <3> DEFINE n == [r EXCEPT !.stage = "loaded"]
      <3>1. proc' = [proc EXCEPT ![p] = n]
        BY <2>4 DEF Load
      <3>2. n.more = r.more /\ n.flow = r.flow /\ n.jobs = r.jobs /\ n.stage = "loaded"
        BY <2>1 DEF Run
      <3> HIDE DEF n
      <3>3. InHand(n) \subseteq InHand(r)
        BY <3>2, HandKept
      <3> QED BY <2>1, <3>1, <3>3, HandOne
    <2>5. CASE Persist(p) \/ PersistLost(p)
      <3> DEFINE n == AfterLoad(r)
      <3>1. proc' = [proc EXCEPT ![p] = n] /\ r.stage = "loaded" /\ r.jobs # << >>
        BY <2>1, <2>5 DEF Persist, PersistLost, Recorded, Wired, HasJob
      <3> HIDE DEF r
      <3>2. Elements(Tail(r.jobs)) \subseteq Elements(r.jobs)
        BY <2>1, <3>1, RunFields, JobsFacts
      <3>3. n.more = r.more /\ n.flow = r.flow /\ n.stage # "flows"
            /\ Elements(n.jobs) \subseteq Elements(r.jobs)
        BY <2>1, <3>2 DEF Run, AfterLoad
      <3> HIDE DEF n
      <3>4. InHand(n) \subseteq InHand(r)
        BY <3>3, HandKept
      <3> QED BY <2>1, <3>1, <3>4, HandOne DEF r
    <2> QED BY <1>6, <2>2, <2>3, <2>4, <2>5
  <1>7. ASSUME NEW p \in Process, Work(p) PROVE Fewer
    BY <1>7, <1>3, <1>4, <1>5, <1>6 DEF Work
  <1>8. ASSUME NEW p \in Process,
               \/ CronFlows(p) \/ \E f \in DOMAIN Flows : AdminFlow(p, f)
               \/ \E j \in Job : CronJob(p, j) \/ AdminJob(p, j)
        PROVE  \E q \in Process, run \in Run : Launch(q, run)
    BY <1>8, Launches
  <1>9. FlowProcess \subseteq Process
    BY EtlJobsAssumption
  <1> QED BY <1>1, <1>2, <1>3, <1>6, <1>7, <1>8, <1>9 DEF Next

LEMMA HandInit == Init => HInv
  BY IdleFacts DEF Init, HInv

LEMMA HandStep == TInv /\ HInv /\ [Next]_vars => HInv'
  <1> SUFFICES ASSUME TInv, HInv, [Next]_vars PROVE HInv'
    OBVIOUS
  <1>1. ASSUME NEW p \in Process, NEW run \in Run, Launch(p, run) PROVE HInv'
    <2>1. /\ proc'[p] = [run EXCEPT !.known = watermark]
          /\ \A q \in Process \ {p} : proc'[q] = proc[q]
          /\ crossed' = crossed \cup
               (InHand(run) \cap UNION {InHand(proc[q]) : q \in Process \ {p}})
      BY <1>1 DEF Launch, TInv, TypeOK
    <2>2. InHand(proc'[p]) \subseteq InHand(run)
      <3> DEFINE n == [run EXCEPT !.known = watermark]
      <3>1. n.more = run.more /\ n.flow = run.flow /\ n.jobs = run.jobs /\ n.stage = run.stage
        BY DEF Run
      <3> HIDE DEF n
      <3>2. InHand(n) \subseteq InHand(run)
        BY <3>1, HandKept
      <3> QED BY <2>1, <3>2 DEF n
    <2>3. \A q \in Process \ {p} : InHand(run) \cap InHand(proc[q]) \subseteq crossed'
      BY <2>1
    <2>4. \A q \in Process \ {p} : InHand(proc'[q]) = InHand(proc[q])
      BY <2>1
    <2>5. ASSUME NEW x \in Process, NEW y \in Process, x # y
          PROVE  InHand(proc'[x]) \cap InHand(proc'[y]) \subseteq crossed'
      <3>1. CASE x = p
        BY <2>2, <2>3, <2>4, <2>5, <3>1
      <3>2. CASE y = p
        BY <2>2, <2>3, <2>4, <2>5, <3>2
      <3>3. CASE x # p /\ y # p
        BY <2>1, <2>4, <2>5, <3>3 DEF HInv
      <3> QED BY <3>1, <3>2, <3>3
    <2> QED BY <2>5 DEF HInv, InHand, Ahead
  <1>2. CASE /\ crossed' = crossed
             /\ \A q \in Process : InHand(proc'[q]) \subseteq InHand(proc[q])
    <2>1. \A x, y \in Process : x # y => InHand(proc'[x]) \cap InHand(proc'[y]) \subseteq crossed'
      BY <1>2 DEF HInv
    <2> QED BY <2>1 DEF HInv, InHand, Ahead
  <1> QED BY <1>1, <1>2, Hands

LEMMA HandUse ==
  ASSUME TInv, HInv, NEW p \in Process, NEW q \in Process, p # q, JobOf(p) = JobOf(q),
         proc[p].jobs # << >>, proc[q].stage \in {"read", "loaded"}
  PROVE  JobOf(p) \in crossed
  <1>1. proc[q].jobs # << >>
    BY DEF TInv, Wiring, Wired, HasJob
  <1>2. JobOf(p) \in InHand(proc[p]) /\ JobOf(q) \in InHand(proc[q])
    BY <1>1, RunFields, JobsFacts DEF TInv, TypeOK, JobOf, InHand
  <1> QED BY <1>2 DEF HInv

-----------------------------------------------------------------------------
(* The rows of the source.                                                 *)
LEMMA CurrentFacts ==
  ASSUME TypeOK, NEW v \in Current
  PROVE  v \in Version /\ v[1] \in Key /\ v[2] # 0 /\ v[2] = source[v[1]] /\ v = <<v[1], v[2]>>
  BY DEF Current, Version, TypeOK

LEMMA VersionFacts ==
  ASSUME NEW v \in Version
  PROVE  v[1] \in Key /\ v[2] \in Nat /\ v[2] \in Stamp /\ v = <<v[1], v[2]>>
  BY Bounds DEF Version

LEMMA NothingBeforeZero ==
  ASSUME TypeOK, NEW j \in Job
  PROVE  Covered(j, 0)
  BY CurrentFacts, VersionFacts DEF Covered

LEMMA SInit == Init => SInv
  <1> SUFFICES ASSUME Init PROVE SInv
    OBVIOUS
  <1>1. Current = {}
    BY DEF Init, Current
  <1>2. InThePast
    BY IdleFacts DEF Init, InThePast
  <1>3. Marks
    BY <1>1 DEF Marks, Covered
  <1>4. \A p \in Process : Reaches(p) /\ Fresher(p)
    BY IdleFacts DEF Init, Reaches, Fresher, Busy
  <1> QED BY <1>2, <1>3, <1>4 DEF SInv

(* A load keeps the current rows of a job that is followed ...             *)
LEMMA LoadKeeps ==
  ASSUME TInv, SInv, NEW p \in Process, Load(p), Followed(JobOf(p))
  PROVE  /\ proc[p].rows \subseteq target'[JobOf(p)]
         /\ \A v \in Current : v \in target[JobOf(p)] => v \in target'[JobOf(p)]
  <1> DEFINE j == JobOf(p)
             rows == proc[p].rows
  <1>1. j \in Job /\ rows \subseteq Version
    BY LoadFacts
  <1>2. target'[j] = Loaded(j, rows)
    BY <1>1 DEF Load, TInv, TypeOK
  <1>3. CASE load[j].mode = "append"
    BY <1>2, <1>3 DEF Loaded
  <1>4. CASE load[j].mode = "upsert" /\ j \notin crossed
    <2>1. ASSUME NEW v \in Current, v \in target[j], NEW w \in rows, w[1] = v[1]
          PROVE  w = v
      <3>1. v[2] <= w[2]
        BY <1>4, <2>1 DEF SInv, Fresher, Busy, Load
      <3>2. w[2] <= source[w[1]]
        BY DEF SInv, InThePast
      <3>3. w \in Version /\ v \in Version /\ v[2] = source[v[1]]
        BY <1>1, CurrentFacts DEF TInv
      <3>4. w[2] = v[2]
        BY <2>1, <3>1, <3>2, <3>3, VersionFacts
      <3> QED BY <2>1, <3>3, <3>4, VersionFacts
    <2>2. target'[j] = {v \in target[j] : \A w \in rows : w[1] # v[1]} \cup rows
      BY <1>2, <1>4 DEF Loaded
    <2> HIDE DEF j, rows
    <2>3. \A v \in Current : v \in target[j] => v \in target'[j]
      BY <2>1, <2>2
    <2> QED BY <2>2, <2>3 DEF j, rows
  <1> QED BY <1>3, <1>4 DEF Followed

(* ... and of no job that nothing crosses does it make a row older.        *)
LEMMA LoadNotOlder ==
  ASSUME TInv, SInv, NEW p \in Process, Load(p), JobOf(p) \notin crossed,
         ~DropsOld(JobOf(p)), NEW v \in target[JobOf(p)]
  PROVE  \E w \in target'[JobOf(p)] : w[1] = v[1] /\ w[2] >= v[2]
  <1> DEFINE j == JobOf(p)
             rows == proc[p].rows
  <1>1. j \in Job /\ rows \subseteq Version
    BY LoadFacts
  <1>2. target'[j] = Loaded(j, rows) /\ v \in Version /\ load[j].mode \in Mode
    BY <1>1, EtlJobsAssumption DEF Load, TInv, TypeOK, Setting
  <1>3. /\ \A w \in rows : w[1] = v[1] => v[2] <= w[2]
        /\ load[j].mode = "full_refresh" => \E w \in rows : w[1] = v[1]
    BY DEF SInv, Fresher, Busy, Load, DropsOld
  <1>4. v[2] >= v[2] /\ \A w \in rows : v[2] <= w[2] => w[2] >= v[2]
    BY <1>1, <1>2, VersionFacts
  <1> HIDE DEF j, rows
  <1>5. \E w \in Loaded(j, rows) : w[1] = v[1] /\ w[2] >= v[2]
    <2>1. v \in target[j]
      BY DEF j
    <2>2. CASE load[j].mode = "append"
      BY <1>4, <2>1, <2>2 DEF Loaded
    <2>3. CASE load[j].mode = "upsert"
      BY <1>3, <1>4, <2>1, <2>3 DEF Loaded
    <2>4. CASE load[j].mode = "full_refresh"
      BY <1>3, <1>4, <2>1, <2>4 DEF Loaded
    <2> QED BY <1>2, <2>2, <2>3, <2>4 DEF Mode
  <1> QED BY <1>2, <1>5 DEF j

-----------------------------------------------------------------------------
(* SInv is kept by each kind of step.                                      *)
LEMMA SQuiet == TInv /\ SInv /\ Quiet => SInv'
  <1> SUFFICES ASSUME TInv, SInv, Quiet PROVE SInv'
    OBVIOUS
  <1>1. /\ UNCHANGED <<load, source, stamp, target, watermark>> /\ Current' = Current
        /\ \A j \in Job : Followed(j)' => Followed(j)
    BY DEF Quiet, Current, Followed
  <1>2. \A j \in Job, p \in Process : proc'[p].known[j] \in {0, proc[p].known[j], watermark[j]}
    BY DEF Quiet, Same, Rests
  <1>3. \A p \in Process : proc'[p].rows \subseteq proc[p].rows
    BY DEF Quiet, Same, Rests
  <1>4. \A p \in Process : proc'[p].stage \in {"read", "loaded"} => Same(p)
    BY DEF Quiet, Rests
  <1>5. 0 <= stamp
    BY Bounds DEF TInv, TypeOK
  <1>6. InThePast'
    BY <1>1, <1>2, <1>3, <1>5 DEF SInv, InThePast
  <1>7. Marks'
    <2>1. \A j \in Job, m \in Nat : Covered(j, m)' <=> Covered(j, m)
      BY <1>1 DEF Covered
    <2>2. \A j \in Job : watermark[j] \in Nat /\ \A p \in Process : proc'[p].known[j] \in Nat
      BY <1>2, RunFields, Bounds DEF TInv, TypeOK
    <2>3. \A j \in Job : Covered(j, 0)
      BY NothingBeforeZero DEF TInv
    <2>4. ASSUME NEW j \in Job, Followed(j)'
          PROVE  /\ Covered(j, watermark[j])
                 /\ \A p \in Process : Covered(j, proc'[p].known[j])
      BY <1>1, <1>2, <2>3, <2>4 DEF SInv, Marks
    <2> QED BY <1>1, <2>4 DEF Marks, Covered
  <1>8. ASSUME NEW p \in Process PROVE Reaches(p)' /\ Fresher(p)'
    <2>1. Reaches(p) /\ Fresher(p)
      BY DEF SInv
    <2>2. CASE Same(p)
      <3>1. JobOf(p)' = JobOf(p)
        BY <2>2 DEF Same, JobOf
      <3> QED BY <1>1, <2>1, <2>2, <3>1 DEF Same, Reaches, Fresher, Busy, Followed, Incremental, Quiet
    <2>3. CASE ~Same(p)
      BY <1>4, <2>3 DEF Reaches, Fresher, Busy
    <2> QED BY <2>2, <2>3
  <1> QED BY <1>6, <1>7, <1>8 DEF SInv

LEMMA SChange ==
  ASSUME TInv, SInv, NEW k \in Key, Change(k)
  PROVE  SInv'
  <1>1. /\ UNCHANGED <<load, target, watermark, proc, crossed>>
        /\ stamp' = stamp + 1 /\ source' = [source EXCEPT ![k] = stamp + 1]
    BY DEF Change, history
  <1>2. stamp \in Nat /\ source \in [Key -> Nat] /\ TypeOK
    BY Bounds DEF TInv, TypeOK
  <1>3. \A i \in Key : source[i] <= stamp /\ source[i] <= source'[i] /\ source'[i] <= stamp'
    BY <1>1, <1>2 DEF SInv, InThePast
  <1>4. /\ \A j \in Job : target[j] \subseteq Version /\ watermark[j] \in Nat
        /\ \A p \in Process : /\ proc[p].rows \subseteq Version
                              /\ \A j \in Job : proc[p].known[j] \in Nat
    BY RunFields, Bounds DEF TInv, TypeOK
  <1>5. \A v \in Current' : v[2] <= stamp => v \in Current
    BY <1>1, <1>2 DEF Current
  <1>5a. \A v \in Current' : v[2] \in Nat
    BY <1>1, <1>2 DEF Current
  <1>6. InThePast'
    <2>1. \A j \in Job : watermark[j] <= stamp' /\ \A p \in Process : proc[p].known[j] <= stamp'
      BY <1>1, <1>2, <1>4 DEF SInv, InThePast
    <2>2. \A j \in Job : \A v \in target[j] : v[2] # 0 /\ v[2] <= source'[v[1]]
      <3> SUFFICES ASSUME NEW j \in Job, NEW v \in target[j]
                   PROVE  v[2] # 0 /\ v[2] <= source'[v[1]]
        OBVIOUS
      <3>1. v \in Version /\ v[2] # 0 /\ v[2] <= source[v[1]]
        BY <1>4 DEF SInv, InThePast
      <3>2. v[1] \in Key /\ v[2] \in Nat /\ source'[v[1]] \in Nat
        BY <1>1, <1>2, <3>1, VersionFacts
      <3> QED BY <1>2, <1>3, <3>1, <3>2
    <2>3. \A p \in Process : \A v \in proc[p].rows : v[2] # 0 /\ v[2] <= source'[v[1]]
      <3> SUFFICES ASSUME NEW p \in Process, NEW v \in proc[p].rows
                   PROVE  v[2] # 0 /\ v[2] <= source'[v[1]]
        OBVIOUS
      <3>1. v \in Version /\ v[2] # 0 /\ v[2] <= source[v[1]]
        BY <1>4 DEF SInv, InThePast
      <3>2. v[1] \in Key /\ v[2] \in Nat /\ source'[v[1]] \in Nat
        BY <1>1, <1>2, <3>1, VersionFacts
      <3> QED BY <1>2, <1>3, <3>1, <3>2
    <2> QED BY <1>1, <1>3, <2>1, <2>2, <2>3 DEF InThePast
  <1>7. Marks'
    <2>1. ASSUME NEW j \in Job, NEW m \in Nat, m <= stamp, Covered(j, m)
          PROVE  \A v \in Current' : v[2] <= m => v \in target'[j]
      <3>1. \A v \in Current' : v[2] <= m => v \in Current
        BY <1>2, <1>5, <1>5a, <2>1
      <3> QED BY <1>1, <2>1, <3>1 DEF Covered
    <2>2. ASSUME NEW j \in Job, Followed(j)'
          PROVE  /\ \A v \in Current' : v[2] <= watermark[j] => v \in target'[j]
                 /\ \A p \in Process : \A v \in Current' : v[2] <= proc[p].known[j] => v \in target'[j]
      <3>1. Followed(j)
        BY <1>1, <2>2 DEF Followed
      <3>2. /\ Covered(j, watermark[j]) /\ watermark[j] <= stamp
            /\ \A p \in Process : Covered(j, proc[p].known[j]) /\ proc[p].known[j] <= stamp
        BY <3>1 DEF SInv, Marks, InThePast
      <3> QED BY <1>4, <2>1, <3>2
    <2> QED BY <1>1, <2>2 DEF Marks, Covered
  <1>8. ASSUME NEW p \in Process PROVE Reaches(p)' /\ Fresher(p)'
    <2>1. Reaches(p) /\ Fresher(p)
      BY DEF SInv
    <2>2. \A w \in proc[p].rows : w[2] <= stamp /\ w[2] \in Nat
      <3> SUFFICES ASSUME NEW w \in proc[p].rows PROVE w[2] <= stamp /\ w[2] \in Nat
        OBVIOUS
      <3>1. w \in Version /\ w[2] <= source[w[1]]
        BY <1>4 DEF SInv, InThePast
      <3> QED BY <1>2, <1>3, <3>1, VersionFacts
    <2>3. \A v \in Current', w \in proc[p].rows : v[2] <= w[2] => v \in Current
      BY <1>2, <1>5, <1>5a, <2>2
    <2>4. Reaches(p)'
      BY <1>1, <2>1, <2>3 DEF Reaches, Busy, Followed, JobOf
    <2>5. Fresher(p)'
      BY <1>1, <2>1 DEF Fresher, Busy, JobOf, Incremental
    <2> QED BY <2>4, <2>5
  <1> QED BY <1>6, <1>7, <1>8 DEF SInv

LEMMA SExtract ==
  ASSUME TInv, SInv, NEW p \in Process, Extract(p)
  PROVE  SInv'
  <1> DEFINE j == JobOf(p)
             mark == proc[p].known[JobOf(p)]
             rows == Rows(JobOf(p), proc[p].known[JobOf(p)])
  <1>1. /\ UNCHANGED <<load, source, stamp, target, watermark, crossed>>
        /\ Current' = Current /\ \A i \in Job : Followed(i)' = Followed(i)
    BY DEF Extract, Current, Followed
  <1>2. /\ j \in Job /\ rows \subseteq Version
        /\ proc'[p].stage = "read" /\ proc'[p].jobs = proc[p].jobs /\ proc'[p].rows = rows
        /\ \A i \in Job : proc'[p].known[i] \in {0, proc[p].known[i]}
        /\ \A q \in Process \ {p} : proc'[q] = proc[q]
    BY ReadFacts
  <1>3. /\ mark \in Nat /\ stamp \in Nat /\ TypeOK
        /\ \A i \in Job : target[i] \subseteq Version
    BY <1>2, RunFields, Bounds DEF TInv, TypeOK
  <1>4. JobOf(p)' = j /\ \A q \in Process \ {p} : JobOf(q)' = JobOf(q)
    BY <1>2 DEF JobOf
  <1>5. rows \subseteq Current
    BY DEF Rows
  <1>5a. \A v \in Current : v[2] \in Nat /\ v \in Version /\ v[2] # 0 /\ v[2] = source[v[1]]
    BY <1>3, CurrentFacts, VersionFacts
  <1> HIDE DEF j, mark, rows
  <1>6. InThePast'
    <2>1. \A w \in rows : w[2] # 0 /\ w[2] <= source[w[1]]
      <3> SUFFICES ASSUME NEW w \in rows PROVE w[2] # 0 /\ w[2] <= source[w[1]]
        OBVIOUS
      <3>1. w[2] \in Nat /\ w[2] # 0 /\ w[2] = source[w[1]]
        BY <1>5, <1>5a
      <3> QED BY <3>1
    <2>2. \A i \in Job : proc'[p].known[i] <= stamp
      BY <1>2, <1>3 DEF SInv, InThePast
    <2> QED BY <1>1, <1>2, <2>1, <2>2 DEF SInv, InThePast
  <1>7. Marks'
    <2>1. \A i \in Job : Covered(i, 0)
      BY <1>3, NothingBeforeZero
    <2>2. \A i \in Job, q \in Process : proc'[q].known[i] \in {0, proc[q].known[i]}
      BY <1>2
    <2>3. \A i \in Job : Followed(i) =>
            Covered(i, watermark[i]) /\ \A q \in Process : Covered(i, proc'[q].known[i])
      BY <2>1, <2>2 DEF SInv, Marks
    <2> QED BY <1>1, <2>3 DEF Marks, Covered
  <1>8. Reaches(p)'
    <2>1. ASSUME Followed(j), NEW v \in Current PROVE v \in rows \cup target[j]
      <3>2. CASE v[2] > mark \/ ~Incremental(j)
        BY <3>2 DEF rows, mark, j, Rows, Newer
      <3>3. CASE v[2] <= mark
        BY <1>2, <2>1, <3>3 DEF SInv, Marks, Covered, mark, j
      <3> QED BY <1>3, <1>5a, <3>2, <3>3
    <2> QED BY <1>1, <1>2, <1>4, <2>1 DEF Reaches, Busy
  <1>9. Fresher(p)'
    <2>1. ASSUME NEW v \in target[j]
          PROVE  /\ \A w \in rows : w[1] = v[1] => v[2] <= w[2]
                 /\ load[j].mode = "full_refresh" /\ ~Incremental(j) => \E w \in rows : w[1] = v[1]
      <3>1. v \in Version /\ v[2] # 0 /\ v[2] <= source[v[1]]
        BY <1>2, <1>3 DEF SInv, InThePast
      <3>2. \A w \in rows : w[1] = v[1] => v[2] <= w[2]
        BY <1>5, <1>5a, <3>1
      <3>3. ASSUME load[j].mode = "full_refresh", ~Incremental(j) PROVE \E w \in rows : w[1] = v[1]
        <4>1. source[v[1]] # 0 /\ v[1] \in Key
          BY <1>3, <3>1, VersionFacts, Bounds DEF TypeOK
        <4>2. <<v[1], source[v[1]]>> \in Current
          BY <4>1 DEF Current
        <4>3. <<v[1], source[v[1]]>> \in rows
          BY <3>3, <4>2 DEF rows, j, Rows, Incremental
        <4> QED BY <4>3
      <3> QED BY <3>2, <3>3
    <2> QED BY <1>1, <1>2, <1>4, <2>1 DEF Fresher, Busy, Incremental
  <1>10. ASSUME NEW q \in Process \ {p} PROVE Reaches(q)' /\ Fresher(q)'
    <2>1. Reaches(q) /\ Fresher(q)
      BY DEF SInv
    <2> QED BY <1>1, <1>2, <1>4, <2>1 DEF Reaches, Fresher, Busy, Followed, Incremental
  <1> QED BY <1>6, <1>7, <1>8, <1>9, <1>10 DEF SInv

LEMMA SLoad ==
  ASSUME TInv, HInv, SInv, NEW p \in Process, Load(p)
  PROVE  SInv'
  <1> DEFINE j == JobOf(p)
             rows == proc[p].rows
  <1>1. /\ UNCHANGED <<load, source, stamp, watermark, crossed>>
        /\ Current' = Current /\ \A i \in Job : Followed(i)' = Followed(i)
        /\ proc[p].stage = "read"
    BY DEF Load, Current, Followed
  <1>2. /\ j \in Job /\ rows \subseteq Version
        /\ proc'[p].stage = "loaded" /\ proc'[p].jobs = proc[p].jobs
        /\ proc'[p].rows = rows /\ proc'[p].known = proc[p].known
        /\ \A q \in Process \ {p} : proc'[q] = proc[q]
    BY LoadFacts
  <1>3. /\ target'[j] = Loaded(j, rows) /\ \A i \in Job \ {j} : target'[i] = target[i]
        /\ proc[p].jobs # << >>
    BY <1>1, <1>2 DEF Load, TInv, TypeOK, Wiring, Wired, HasJob
  <1>4. \A q \in Process : JobOf(q)' = JobOf(q)
    BY <1>2 DEF JobOf
  <1>5. target'[j] \subseteq target[j] \cup rows
    BY <1>3 DEF Loaded
  <1>6. Followed(j) => /\ rows \subseteq target'[j]
                       /\ \A v \in Current : v \in target[j] => v \in target'[j]
    BY LoadKeeps
  <1>6a. \A q \in Process \ {p} : proc[q].stage \in {"read", "loaded"} /\ JobOf(q) = j => j \in crossed
    BY <1>3, HandUse
  <1> HIDE DEF j, rows
  <1>7. InThePast'
    <2>1. /\ \A i \in Job : \A v \in target[i] : v[2] # 0 /\ v[2] <= source[v[1]]
          /\ \A w \in rows : w[2] # 0 /\ w[2] <= source[w[1]]
      BY DEF SInv, InThePast, rows
    <2>2. \A i \in Job : \A v \in target'[i] : v[2] # 0 /\ v[2] <= source[v[1]]
      BY <1>3, <1>5, <2>1
    <2>3. \A q \in Process : proc'[q].rows = proc[q].rows /\ proc'[q].known = proc[q].known
      BY <1>2 DEF rows
    <2> QED BY <1>1, <2>2, <2>3 DEF SInv, InThePast
  <1>8. \A i \in Job : Followed(i) => \A v \in Current : v \in target[i] => v \in target'[i]
    BY <1>3, <1>6
  <1>9. Marks'
    <2>1. \A q \in Process : proc'[q].known = proc[q].known
      BY <1>2
    <2>2. ASSUME NEW i \in Job, Followed(i)
          PROVE  /\ \A v \in Current : v[2] <= watermark[i] => v \in target'[i]
                 /\ \A q \in Process : \A v \in Current : v[2] <= proc[q].known[i] => v \in target'[i]
      BY <1>8, <2>2 DEF SInv, Marks, Covered
    <2> QED BY <1>1, <2>1, <2>2 DEF Marks, Covered
  <1>10. Reaches(p)' /\ Fresher(p)'
    <2>1. ASSUME Followed(j), NEW v \in Current, NEW w \in rows, v[2] <= w[2]
          PROVE  v \in target'[j]
      <3>1. v \in rows \cup target[j]
        BY <1>1, <2>1 DEF SInv, Reaches, Busy, rows, j
      <3> QED BY <1>6, <2>1, <3>1
    <2> QED BY <1>1, <1>2, <1>4, <2>1 DEF Reaches, Fresher, Busy, j
  <1>11. ASSUME NEW q \in Process \ {p} PROVE Reaches(q)' /\ Fresher(q)'
    <2>1. Reaches(q) /\ Fresher(q)
      BY DEF SInv
    <2>2. proc[q].stage \in {"read", "loaded"} => JobOf(q) \in Job
      BY JobInType
    <2>3. Reaches(q)'
      BY <1>1, <1>2, <1>4, <1>8, <2>1, <2>2 DEF Reaches, Busy
    <2>4. Fresher(q)'
      <3>1. CASE proc[q].stage = "read" /\ JobOf(q) \notin crossed
        <4>1. target'[JobOf(q)] = target[JobOf(q)]
          BY <1>3, <1>6a, <2>2, <3>1
        <4> QED BY <1>1, <1>2, <1>4, <2>1, <4>1 DEF Fresher, Busy, Incremental
      <3>2. CASE ~(proc[q].stage = "read" /\ JobOf(q) \notin crossed)
        BY <1>1, <1>2, <1>4, <3>2 DEF Fresher, Busy
      <3> QED BY <3>1, <3>2
    <2> QED BY <2>3, <2>4
  <1> QED BY <1>7, <1>9, <1>10, <1>11 DEF SInv

LEMMA SStored ==
  ASSUME TInv, SInv, NEW p \in Process, Stored(p)
  PROVE  SInv'
  <1> DEFINE j == JobOf(p)
             rows == proc[p].rows
  <1>1. /\ UNCHANGED <<load, source, stamp, target, crossed>>
        /\ Current' = Current /\ \A i \in Job : Followed(i)' = Followed(i)
        /\ proc[p].stage = "loaded"
    BY DEF Stored, Current, Followed, history
  <1>2. j \in Job /\ rows \subseteq Version
    BY <1>1, JobInType, RunFields DEF TInv, TypeOK
  <1>3. PICK m \in Stamp : IsNewest(m, rows) /\ watermark' = [watermark EXCEPT ![j] = m]
    BY DEF Stored
  <1>4. PICK w \in rows : w[2] = m
    BY <1>3 DEF IsNewest
  <1>5. /\ watermark'[j] = m /\ \A i \in Job \ {j} : watermark'[i] = watermark[i]
        /\ \A i \in Job : watermark[i] \in Nat
    BY <1>2, <1>3, Bounds DEF TInv, TypeOK
  <1>6. \A i \in Job, q \in Process : proc'[q].known[i] \in {0, proc[q].known[i], watermark[i]}
    BY DEF Stored, Same, Rests
  <1>7. Rests(p) /\ \A q \in Process \ {p} : Same(q) /\ JobOf(q)' = JobOf(q)
    BY DEF Stored, Same, JobOf
  <1>8. m <= stamp
    <2>1. w \in Version /\ w[2] <= source[w[1]] /\ source[w[1]] <= stamp
      BY <1>2, <1>4, VersionFacts DEF SInv, InThePast
    <2> QED BY <1>4, <2>1, VersionFacts, Bounds DEF TInv, TypeOK
  <1>9. Followed(j) => Covered(j, m)
    BY <1>1, <1>4 DEF SInv, Reaches, Busy, Covered
  <1> HIDE DEF j, rows
  <1>10. InThePast'
    <2>1. stamp \in Nat
      BY Bounds DEF TInv, TypeOK
    <2>2. \A i \in Job : watermark'[i] <= stamp
      BY <1>5, <1>8 DEF SInv, InThePast
    <2>3. \A i \in Job, q \in Process : proc'[q].known[i] <= stamp
      BY <1>6, <2>1 DEF SInv, InThePast
    <2>4. \A q \in Process : proc'[q].rows \subseteq proc[q].rows
      BY <1>7 DEF Rests, Same
    <2> QED BY <1>1, <2>2, <2>3, <2>4 DEF SInv, InThePast
  <1>11. Marks'
    <2>1. \A i \in Job : Covered(i, 0)
      BY NothingBeforeZero DEF TInv
    <2>2. ASSUME NEW i \in Job, Followed(i)
          PROVE  /\ Covered(i, watermark'[i])
                 /\ \A q \in Process : Covered(i, proc'[q].known[i])
      <3>1. Covered(i, watermark[i]) /\ \A q \in Process : Covered(i, proc[q].known[i])
        BY <2>2 DEF SInv, Marks
      <3>2. Covered(i, watermark'[i])
        BY <1>5, <1>9, <2>2, <3>1
      <3>3. \A q \in Process : Covered(i, proc'[q].known[i])
        BY <1>6, <2>1, <3>1
      <3> QED BY <3>2, <3>3
    <2> QED BY <1>1, <2>2 DEF Marks, Covered
  <1>12. ASSUME NEW q \in Process PROVE Reaches(q)' /\ Fresher(q)'
    <2>1. Reaches(q) /\ Fresher(q)
      BY DEF SInv
    <2>2. CASE q = p
      BY <1>7, <2>2 DEF Rests, Reaches, Fresher, Busy
    <2>3. CASE q # p
      BY <1>1, <1>7, <2>1, <2>3 DEF Same, Reaches, Fresher, Busy, Followed, Incremental
    <2> QED BY <2>2, <2>3
  <1> QED BY <1>10, <1>11, <1>12 DEF SInv

LEMMA SStep == TInv /\ HInv /\ SInv /\ [Next]_vars => SInv'
  BY Steps, SQuiet, SChange, SExtract, SLoad, SStored DEF AStep

LEMMA SafeInit == Init => TInv /\ HInv /\ SInv
  BY TypeInit, HandInit, SInit

LEMMA SafeStep == TInv /\ HInv /\ SInv /\ [Next]_vars => (TInv /\ HInv /\ SInv)'
  BY Steps, HandStep, SStep

(* No run of an append job, and no run of an upsert job that ran alone,    *)
(* leaves a current row of the source behind its watermark for good,       *)
(* whatever fails: the load commits before the watermark moves.            *)
THEOREM NothingLeftOut == Spec => []NothingSkipped
  <1>1. TInv /\ HInv /\ SInv => NothingSkipped
    BY DEF SInv, Marks, Covered, Followed, NothingSkipped
  <1> QED BY SafeInit, SafeStep, <1>1, PTL DEF Spec

-----------------------------------------------------------------------------
(* Watermarks.  The newest change of the source is always there, so that   *)
(* whatever a job read, from however old a copy of its watermark, reaches  *)
(* as far as the watermark stored at that time; it stays so while no other *)
(* process has the job in hand.                                            *)
NewestThere == stamp = 0 \/ \E k \in Key : source[k] = stamp

Leads(p) ==
  /\ proc[p].stage \in {"read", "loaded"} /\ proc[p].rows # {}
  /\ JobOf(p) \notin crossed
  => \E w \in proc[p].rows : w[2] >= watermark[JobOf(p)]

WInv == NewestThere /\ \A p \in Process : Leads(p)

LEMMA WInit == Init => WInv
  BY IdleFacts DEF Init, WInv, NewestThere, Leads

LEMMA WQuiet == TInv /\ WInv /\ Quiet => WInv'
  <1> SUFFICES ASSUME TInv, WInv, Quiet PROVE WInv'
    OBVIOUS
  <1>1. UNCHANGED <<load, source, stamp, watermark>> /\ crossed \subseteq crossed'
    BY DEF Quiet
  <1>2. NewestThere'
    BY <1>1 DEF WInv, NewestThere
  <1>3. ASSUME NEW p \in Process PROVE Leads(p)'
    <2>1. Leads(p)
      BY DEF WInv
    <2>2. CASE Same(p)
      <3>1. JobOf(p)' = JobOf(p)
        BY <2>2 DEF Same, JobOf
      <3> QED BY <1>1, <2>1, <2>2, <3>1 DEF Same, Leads
    <2>3. CASE Rests(p)
      BY <2>3 DEF Rests, Leads
    <2> QED BY <2>2, <2>3 DEF Quiet
  <1> QED BY <1>2, <1>3 DEF WInv

LEMMA WChange ==
  ASSUME TInv, WInv, NEW k \in Key, Change(k)
  PROVE  WInv'
  <1>1. UNCHANGED <<load, watermark, proc, crossed>>
    BY DEF Change, history
  <1>2. source'[k] = stamp'
    BY DEF Change, TInv, TypeOK
  <1> QED BY <1>1, <1>2 DEF WInv, NewestThere, Leads, JobOf

LEMMA WExtract ==
  ASSUME TInv, SInv, WInv, NEW p \in Process, Extract(p)
  PROVE  WInv'
  <1> DEFINE j == JobOf(p)
             mark == proc[p].known[JobOf(p)]
             rows == Rows(JobOf(p), proc[p].known[JobOf(p)])
  <1>1. UNCHANGED <<load, source, stamp, watermark, crossed>>
    BY DEF Extract
  <1>2. /\ j \in Job /\ rows \subseteq Version
        /\ proc'[p].stage = "read" /\ proc'[p].jobs = proc[p].jobs /\ proc'[p].rows = rows
        /\ \A q \in Process \ {p} : proc'[q] = proc[q]
    BY ReadFacts
  <1>3. JobOf(p)' = j /\ \A q \in Process \ {p} : JobOf(q)' = JobOf(q)
    BY <1>2 DEF JobOf
  <1>4. /\ mark \in Nat /\ stamp \in Nat /\ watermark[j] \in Nat /\ TypeOK
        /\ \A k \in Key : source[k] \in Nat
    BY <1>2, RunFields, Bounds DEF TInv, TypeOK
  <1>5. NewestThere'
    BY <1>1 DEF WInv, NewestThere
  <1>6. ASSUME rows # {}
        PROVE  \E w \in rows : w[2] >= watermark[j]
    <2>1. PICK v \in rows : TRUE
      BY <1>6
    <2>2. v \in Current /\ (Incremental(j) => v[2] > mark)
      BY <1>6, <2>1 DEF Rows, Newer
    <2>3. v[2] \in Nat /\ v[2] # 0 /\ v[2] = source[v[1]] /\ v[1] \in Key
      BY <1>4, <2>2, CurrentFacts, VersionFacts
    <2>4. source[v[1]] <= stamp /\ watermark[j] <= stamp
      BY <1>2, <2>3 DEF SInv, InThePast
    <2>5. /\ stamp # 0 /\ stamp >= watermark[j]
          /\ Incremental(j) => stamp > mark
      BY <1>4, <2>2, <2>3, <2>4
    <2>6. PICK k \in Key : source[k] = stamp
      BY <2>5 DEF WInv, NewestThere
    <2>7. <<k, stamp>> \in Current
      BY <2>5, <2>6 DEF Current
    <2>8. <<k, stamp>> \in rows
      BY <2>5, <2>7 DEF Rows, Newer
    <2> QED BY <2>5, <2>8
  <1> HIDE DEF j, mark, rows
  <1>7. Leads(p)'
    BY <1>1, <1>2, <1>3, <1>6 DEF Leads
  <1>8. ASSUME NEW q \in Process \ {p} PROVE Leads(q)'
    BY <1>1, <1>2, <1>3 DEF WInv, Leads
  <1> QED BY <1>5, <1>7, <1>8 DEF WInv

LEMMA WLoad ==
  ASSUME TInv, WInv, NEW p \in Process, Load(p)
  PROVE  WInv'
  <1>1. UNCHANGED <<load, source, stamp, watermark, crossed>> /\ proc[p].stage = "read"
    BY DEF Load
  <1>2. /\ \A q \in Process : proc'[q].jobs = proc[q].jobs /\ proc'[q].rows = proc[q].rows
        /\ \A q \in Process \ {p} : proc'[q].stage = proc[q].stage
    BY LoadFacts
  <1>3. \A q \in Process : JobOf(q)' = JobOf(q)
    BY <1>2 DEF JobOf
  <1> QED BY <1>1, <1>2, <1>3 DEF WInv, NewestThere, Leads

(* A watermark that is stored is the newest of the rows that were read.    *)
LEMMA StoredAdvances ==
  ASSUME TInv, WInv, NEW p \in Process, Stored(p)
  PROVE  /\ JobOf(p) \in Job /\ \A i \in Job \ {JobOf(p)} : watermark'[i] = watermark[i]
         /\ JobOf(p) \notin crossed => watermark'[JobOf(p)] >= watermark[JobOf(p)]
  <1> DEFINE j == JobOf(p)
             rows == proc[p].rows
  <1>1. /\ proc[p].stage = "loaded" /\ rows # {}
    BY DEF Stored, Advances
  <1>2. j \in Job /\ rows \subseteq Version
    BY <1>1, JobInType, RunFields DEF TInv, TypeOK
  <1>3. PICK m \in Stamp : IsNewest(m, rows) /\ watermark' = [watermark EXCEPT ![j] = m]
    BY DEF Stored
  <1>4. /\ watermark'[j] = m /\ \A i \in Job \ {j} : watermark'[i] = watermark[i]
        /\ m \in Nat /\ watermark[j] \in Nat
    BY <1>2, <1>3, Bounds DEF TInv, TypeOK
  <1>5. ASSUME j \notin crossed PROVE m >= watermark[j]
    <2>1. PICK w \in rows : w[2] >= watermark[j]
      BY <1>1, <1>5 DEF WInv, Leads
    <2>2. w[2] <= m /\ w[2] \in Nat
      BY <1>2, <1>3, VersionFacts DEF IsNewest
    <2> QED BY <1>4, <2>1, <2>2
  <1> QED BY <1>2, <1>4, <1>5

LEMMA WStored ==
  ASSUME TInv, HInv, WInv, NEW p \in Process, Stored(p)
  PROVE  WInv'
  <1>1. /\ UNCHANGED <<load, source, stamp, crossed>> /\ proc[p].stage = "loaded"
        /\ Rests(p) /\ \A q \in Process \ {p} : Same(q) /\ JobOf(q)' = JobOf(q)
    BY DEF Stored, history, Same, JobOf
  <1>2. NewestThere'
    BY <1>1 DEF WInv, NewestThere
  <1>3. Leads(p)'
    BY <1>1 DEF Rests, Leads
  <1>4. ASSUME NEW q \in Process \ {p}, proc[q].stage \in {"read", "loaded"},
               JobOf(q) \notin crossed
        PROVE  watermark'[JobOf(q)] = watermark[JobOf(q)]
    <2>1. JobOf(q) \in Job /\ proc[q].jobs # << >>
      BY <1>4, JobInType DEF TInv, Wiring, Wired, HasJob
    <2>2. JobOf(q) # JobOf(p)
      BY <1>1, <1>4, <2>1, HandUse
    <2> QED BY <2>1, <2>2, StoredAdvances
  <1>5. ASSUME NEW q \in Process \ {p} PROVE Leads(q)'
    BY <1>1, <1>4 DEF WInv, Leads, Same
  <1> QED BY <1>2, <1>3, <1>5 DEF WInv

LEMMA WStep == TInv /\ HInv /\ SInv /\ WInv /\ [Next]_vars => WInv'
  BY Steps, WQuiet, WChange, WExtract, WLoad, WStored DEF AStep

(* Neither the target nor the watermark of a job whose runs never          *)
(* overlapped goes back: its rows stay and only get newer, unless the job  *)
(* replaces its target by the rows above the watermark, and a watermark is *)
(* never replaced by an older one, whatever fails in between.              *)
THEOREM TargetsAdvance == Spec => NeverOlder
  <1> DEFINE NotOlderStep ==
        \A j \in Job \ crossed :
          /\ ~DropsOld(j) =>
               \A v \in target[j] : \E w \in target'[j] : w[1] = v[1] /\ w[2] >= v[2]
          /\ watermark'[j] >= watermark[j]
  <1>1. TInv /\ HInv /\ SInv /\ WInv /\ [Next]_vars => [NotOlderStep]_vars
    <2> SUFFICES ASSUME TInv, SInv, WInv, [Next]_vars, NEW j \in Job \ crossed
                 PROVE  /\ ~DropsOld(j) =>
                             \A v \in target[j] : \E w \in target'[j] : w[1] = v[1] /\ w[2] >= v[2]
                        /\ watermark'[j] >= watermark[j]
      OBVIOUS
    <2>1. /\ \A v \in target[j] : v[2] >= v[2]
          /\ watermark[j] >= watermark[j]
      BY VersionFacts, Bounds DEF TInv, TypeOK
    <2>2. ASSUME ~DropsOld(j)
          PROVE  \A v \in target[j] : \E w \in target'[j] : w[1] = v[1] /\ w[2] >= v[2]
      <3>1. CASE target' = target
        BY <2>1, <3>1
      <3>2. ASSUME NEW p \in Process, Load(p)
            PROVE  \A v \in target[j] : \E w \in target'[j] : w[1] = v[1] /\ w[2] >= v[2]
        <4>1. CASE j = JobOf(p)
          BY <2>2, <3>2, <4>1, LoadNotOlder
        <4>2. CASE j # JobOf(p)
          <5>1. target'[j] = target[j]
            BY <3>2, <4>2 DEF Load, TInv, TypeOK
          <5> QED BY <2>1, <5>1
        <4> QED BY <4>1, <4>2
      <3>3. target' = target \/ \E p \in Process : Load(p)
        BY Steps DEF AStep, Quiet, Change, Extract, Stored
      <3> QED BY <3>1, <3>2, <3>3
    <2>3. watermark'[j] >= watermark[j]
      <3>1. watermark' = watermark \/ \E p \in Process : Stored(p)
        BY Steps DEF AStep, Quiet, Change, Extract, Load
      <3>2. ASSUME NEW p \in Process, Stored(p) PROVE watermark'[j] >= watermark[j]
        <4>1. CASE j = JobOf(p)
          BY <3>2, <4>1, StoredAdvances
        <4>2. CASE j # JobOf(p)
          <5>1. watermark'[j] = watermark[j]
            BY <3>2, <4>2, StoredAdvances
          <5> QED BY <2>1, <5>1
        <4> QED BY <4>1, <4>2
      <3> QED BY <2>1, <3>1, <3>2
    <2> QED BY <2>2, <2>3
  <1> HIDE DEF NotOlderStep
  <1>2. Spec => [][NotOlderStep]_vars
    BY SafeInit, SafeStep, WInit, WStep, <1>1, PTL DEF Spec
  <1> QED BY <1>2 DEF NeverOlder, NotOlderStep

-----------------------------------------------------------------------------
(* AInv is kept by each kind of step.                                      *)
LEMMA AInit == Init => AInv
  <1> SUFFICES ASSUME Init PROVE AInv
    OBVIOUS
  <1>1. AppendedOnce /\ Below
    BY DEF Init, AppendedOnce, Below
  <1>2. \A p \in Process : StillNew(p)
    BY IdleFacts DEF Init, StillNew, Busy
  <1> QED BY <1>1, <1>2 DEF AInv

LEMMA AQuiet == TInv /\ AInv /\ Quiet => AInv'
  <1> SUFFICES ASSUME TInv, AInv, Quiet PROVE AInv'
    OBVIOUS
  <1>1. /\ UNCHANGED <<load, target, watermark, doubled>>
        /\ crossed \subseteq crossed' /\ behind \subseteq behind'
        /\ \A j \in Job : Calm(j)' => Calm(j) /\ j \notin behind'
    BY DEF Quiet, Calm, Incremental
  <1>2. AppendedOnce'
    BY <1>1 DEF AInv, AppendedOnce, Incremental
  <1>3. Below'
    <2> SUFFICES ASSUME NEW j \in Job, Calm(j)', NEW v \in target'[j]
                 PROVE  \/ v[2] <= watermark'[j]
                        \/ \E p \in Process : /\ Busy(p, "loaded")'
                                              /\ JobOf(p)' = j /\ v \in proc'[p].rows
      BY DEF Below
    <2>1. Calm(j) /\ v \in target[j]
      BY <1>1
    <2>2. CASE v[2] <= watermark[j]
      BY <1>1, <2>2
    <2>3. ASSUME NEW p \in Process, Busy(p, "loaded"), JobOf(p) = j, v \in proc[p].rows
          PROVE  Busy(p, "loaded")' /\ JobOf(p)' = j /\ v \in proc'[p].rows
      <3>1. \/ Same(p)
            \/ Rests(p) /\ (proc[p].stage = "loaded" /\ Advances(p) => JobOf(p) \in behind')
        BY DEF Quiet
      <3>2. Advances(p)
        BY <2>1, <2>3 DEF Advances, Incremental, Marked, Calm
      <3>3. Same(p)
        BY <1>1, <2>3, <3>1, <3>2 DEF Busy
      <3> QED BY <2>3, <3>3 DEF Same, Busy, JobOf
    <2> QED BY <2>1, <2>2, <2>3 DEF AInv, Below
  <1>4. ASSUME NEW p \in Process PROVE StillNew(p)'
    <2>1. StillNew(p)
      BY DEF AInv
    <2>2. CASE Same(p)
      <3>1. JobOf(p)' = JobOf(p) /\ proc'[p].stage = proc[p].stage /\ proc'[p].rows = proc[p].rows
        BY <2>2 DEF Same, JobOf
      <3>2. proc[p].stage \in {"read", "loaded"} => JobOf(p) \in Job
        BY JobInType
      <3>3. ASSUME Calm(JobOf(p))' PROVE Calm(JobOf(p))
        BY <1>1, <3>1, <3>3 DEF Calm, Incremental
      <3> QED BY <1>1, <2>1, <3>1, <3>3 DEF StillNew, Busy
    <2>3. CASE Rests(p)
      BY <2>3 DEF Rests, StillNew, Busy
    <2> QED BY <2>2, <2>3 DEF Quiet
  <1> QED BY <1>2, <1>3, <1>4 DEF AInv

LEMMA AChange ==
  ASSUME AInv, NEW k \in Key, Change(k)
  PROVE  AInv'
  <1>1. UNCHANGED <<load, target, watermark, proc, doubled, crossed, behind>>
    BY DEF Change, history
  <1> QED BY <1>1 DEF AInv, AppendedOnce, Below, StillNew, Busy, JobOf, Calm, Incremental

LEMMA AExtract ==
  ASSUME TInv, HInv, AInv, NEW p \in Process, Extract(p)
  PROVE  AInv'
  <1> DEFINE j == JobOf(p)
             mark == proc[p].known[JobOf(p)]
             rows == Rows(JobOf(p), proc[p].known[JobOf(p)])
  <1>1. /\ UNCHANGED <<load, target, watermark, crossed, doubled>>
        /\ behind' = IF mark < watermark[j] THEN behind \cup {j} ELSE behind
        /\ proc[p].stage = "ready" /\ proc[p].jobs # << >>
    BY DEF Extract
  <1>2. /\ j \in Job /\ rows \subseteq Version
        /\ proc'[p].stage = "read" /\ proc'[p].jobs = proc[p].jobs /\ proc'[p].rows = rows
        /\ \A q \in Process \ {p} : proc'[q] = proc[q]
    BY ReadFacts
  <1>3. JobOf(p)' = j /\ \A q \in Process \ {p} : JobOf(q)' = JobOf(q)
    BY <1>2 DEF JobOf
  <1>4. behind \subseteq behind' /\ \A i \in Job : Calm(i)' => Calm(i)
    BY <1>1 DEF Calm, Incremental
  <1>5. mark \in Nat /\ watermark[j] \in Nat
    BY <1>2, RunFields, Bounds DEF TInv, TypeOK
  <1>6. AppendedOnce'
    BY <1>1, <1>4 DEF AInv, AppendedOnce, Incremental
  <1>7. Below'
    <2> SUFFICES ASSUME NEW i \in Job, Calm(i)', NEW v \in target'[i]
                 PROVE  \/ v[2] <= watermark'[i]
                        \/ \E q \in Process : /\ Busy(q, "loaded")'
                                              /\ JobOf(q)' = i /\ v \in proc'[q].rows
      BY DEF Below
    <2>1. \/ v[2] <= watermark[i]
          \/ \E q \in Process : Busy(q, "loaded") /\ JobOf(q) = i /\ v \in proc[q].rows
      BY <1>1, <1>4 DEF AInv, Below
    <2>2. \A q \in Process : Busy(q, "loaded") => q # p
      BY <1>1 DEF Busy
    <2> QED BY <1>1, <1>2, <1>3, <2>1, <2>2 DEF Busy
  <1>8. StillNew(p)'
    <2>1. ASSUME NEW i \in Job, i = j, Calm(i)', NEW w \in rows
          PROVE  w[2] > watermark[i] /\ w \notin target[i]
      <3>1. Calm(i) /\ i \notin behind'
        BY <1>4, <2>1 DEF Calm
      <3>2. mark >= watermark[i]
        BY <1>1, <1>5, <2>1, <3>1
      <3>3. w[2] > mark /\ w[2] \in Nat
        <4>1. w[2] > mark
          BY <2>1, <3>1 DEF Calm, Rows, Incremental, Newer
        <4> QED BY <1>2, <4>1, VersionFacts
      <3>4. w[2] > watermark[i] /\ ~(w[2] <= watermark[i])
        BY <1>5, <2>1, <3>2, <3>3
      <3>5. ASSUME w \in target[i] PROVE FALSE
        <4>1. PICK q \in Process : Busy(q, "loaded") /\ JobOf(q) = i
          BY <3>1, <3>4, <3>5 DEF AInv, Below
        <4>2. q # p
          BY <1>1, <4>1 DEF Busy
        <4>3. i \in crossed
          BY <1>1, <2>1, <4>1, <4>2, HandUse DEF Busy
        <4> QED BY <3>1, <4>3 DEF Calm
      <3> QED BY <3>4, <3>5
    <2> HIDE DEF j, rows
    <2>2. ASSUME Calm(JobOf(p))', NEW w \in rows
          PROVE  w[2] > watermark[j] /\ w \notin target[j]
      <3>1. PICK i \in Job : i = j
        BY <1>2
      <3>2. Calm(i)'
        BY <1>3, <2>2, <3>1 DEF Calm
      <3> QED BY <2>1, <3>1, <3>2
    <2> QED BY <1>1, <1>2, <1>3, <2>2 DEF StillNew, Busy
  <1>9. ASSUME NEW q \in Process \ {p} PROVE StillNew(q)'
    <2>1. StillNew(q)
      BY DEF AInv
    <2>2. proc[q].stage \in {"read", "loaded"} => JobOf(q) \in Job
      BY JobInType
    <2> HIDE DEF j, rows, mark
    <2> QED BY <1>1, <1>2, <1>3, <1>4, <2>1, <2>2 DEF StillNew, Busy
  <1> QED BY <1>6, <1>7, <1>8, <1>9 DEF AInv

LEMMA ALoad ==
  ASSUME TInv, HInv, AInv, NEW p \in Process, Load(p)
  PROVE  AInv'
  <1> DEFINE j == JobOf(p)
             rows == proc[p].rows
  <1>1. /\ UNCHANGED <<load, watermark, crossed, behind>>
        /\ \A i \in Job : Calm(i)' = Calm(i)
        /\ proc[p].stage = "read"
        /\ doubled' = IF load[j].mode = "append" /\ target[j] \cap rows # {}
                        THEN doubled \cup {j} ELSE doubled
    BY DEF Load, Calm, Incremental
  <1>2. /\ j \in Job
        /\ proc'[p].stage = "loaded" /\ proc'[p].jobs = proc[p].jobs /\ proc'[p].rows = rows
        /\ \A q \in Process \ {p} : proc'[q] = proc[q]
    BY LoadFacts
  <1>3. /\ target'[j] = Loaded(j, rows) /\ \A i \in Job \ {j} : target'[i] = target[i]
        /\ proc[p].jobs # << >>
    BY <1>1, <1>2 DEF Load, TInv, TypeOK, Wiring, Wired, HasJob
  <1>4. \A q \in Process : JobOf(q)' = JobOf(q)
    BY <1>2 DEF JobOf
  <1>5. target'[j] \subseteq target[j] \cup rows
    BY <1>3 DEF Loaded
  <1>6. Calm(j) => \A w \in rows : w[2] > watermark[j] /\ w \notin target[j]
    BY <1>1 DEF AInv, StillNew, Busy
  <1>7. \A q \in Process \ {p} : proc[q].stage \in {"read", "loaded"} /\ JobOf(q) = j => j \in crossed
    BY <1>3, HandUse
  <1>8. AppendedOnce'
    <2>1. load[j].mode = "append" /\ Incremental(j) /\ target[j] \cap rows # {}
            => j \in crossed \cup behind
      BY <1>6 DEF Calm
    <2> QED BY <1>1, <2>1 DEF AInv, AppendedOnce, Incremental
  <1> HIDE DEF j, rows
  <1>9. Below'
    <2> SUFFICES ASSUME NEW i \in Job, Calm(i)', NEW v \in target'[i]
                 PROVE  \/ v[2] <= watermark'[i]
                        \/ \E q \in Process : /\ Busy(q, "loaded")'
                                              /\ JobOf(q)' = i /\ v \in proc'[q].rows
      BY DEF Below
    <2>1. CASE i = j /\ v \in rows
      BY <1>2, <1>4, <2>1 DEF Busy, j
    <2>2. CASE v \in target[i]
      <3>1. \/ v[2] <= watermark[i]
            \/ \E q \in Process : Busy(q, "loaded") /\ JobOf(q) = i /\ v \in proc[q].rows
        BY <1>1, <2>2 DEF AInv, Below
      <3>2. \A q \in Process : Busy(q, "loaded") => q # p
        BY <1>1 DEF Busy
      <3> QED BY <1>1, <1>2, <1>4, <3>1, <3>2 DEF Busy
    <2> QED BY <1>3, <1>5, <2>1, <2>2
  <1>10. StillNew(p)'
    BY <1>1, <1>2, <1>4, <1>6 DEF StillNew, Busy, j
  <1>11. ASSUME NEW q \in Process \ {p} PROVE StillNew(q)'
    <2>1. StillNew(q)
      BY DEF AInv
    <2>2. proc[q].stage \in {"read", "loaded"} => JobOf(q) \in Job
      BY JobInType
    <2>3. CASE proc[q].stage \in {"read", "loaded"} /\ JobOf(q) = j
      <3>1. ~Calm(j)
        BY <1>7, <2>3 DEF Calm
      <3> QED BY <1>1, <1>2, <1>4, <2>2, <2>3, <3>1 DEF StillNew, Busy
    <2>4. CASE proc[q].stage \in {"read", "loaded"} /\ JobOf(q) # j
      <3>1. target'[JobOf(q)] = target[JobOf(q)]
        BY <1>3, <2>2, <2>4
      <3> QED BY <1>1, <1>2, <1>4, <2>1, <2>2, <2>4, <3>1 DEF StillNew, Busy
    <2>5. CASE proc[q].stage \notin {"read", "loaded"}
      BY <1>2, <2>5 DEF StillNew, Busy
    <2> QED BY <2>3, <2>4, <2>5
  <1> QED BY <1>8, <1>9, <1>10, <1>11 DEF AInv

LEMMA AStored ==
  ASSUME TInv, HInv, AInv, NEW p \in Process, Stored(p)
  PROVE  AInv'
  <1> DEFINE j == JobOf(p)
             rows == proc[p].rows
  <1>1. /\ UNCHANGED <<load, target, crossed, behind, doubled>>
        /\ \A i \in Job : Calm(i)' = Calm(i)
        /\ proc[p].stage = "loaded"
    BY DEF Stored, Calm, Incremental, history
  <1>2. j \in Job /\ rows \subseteq Version /\ proc[p].jobs # << >>
    BY <1>1, JobInType, RunFields DEF TInv, TypeOK, Wiring, Wired, HasJob
  <1>3. PICK m \in Stamp : IsNewest(m, rows) /\ watermark' = [watermark EXCEPT ![j] = m]
    BY DEF Stored
  <1>4. /\ watermark'[j] = m /\ \A i \in Job \ {j} : watermark'[i] = watermark[i]
        /\ watermark[j] \in Nat /\ m \in Nat
    BY <1>2, <1>3, Bounds DEF TInv, TypeOK
  <1>5. /\ Rests(p)
        /\ \A q \in Process \ {p} : /\ proc'[q].stage = proc[q].stage
                                    /\ proc'[q].rows = proc[q].rows /\ JobOf(q)' = JobOf(q)
    BY DEF Stored, Same, JobOf
  <1>6. Calm(j) => m > watermark[j]
    BY <1>1, <1>3 DEF AInv, StillNew, Busy, IsNewest
  <1>7. \A q \in Process \ {p} : proc[q].stage \in {"read", "loaded"} /\ JobOf(q) = j => j \in crossed
    BY <1>2, HandUse
  <1>8. AppendedOnce'
    BY <1>1 DEF AInv, AppendedOnce, Incremental
  <1>8a. \A i \in Job : target[i] \subseteq Version
    BY DEF TInv, TypeOK
  <1>8b. \A w \in rows : w[2] <= m
    BY <1>3 DEF IsNewest
  <1> HIDE DEF j, rows
  <1>9. Below'
    <2> SUFFICES ASSUME NEW i \in Job, Calm(i)', NEW v \in target'[i]
                 PROVE  \/ v[2] <= watermark'[i]
                        \/ \E q \in Process : /\ Busy(q, "loaded")'
                                              /\ JobOf(q)' = i /\ v \in proc'[q].rows
      BY DEF Below
    <2>1. v \in target[i] /\ Calm(i) /\ v[2] \in Nat
      BY <1>1, <1>8a, VersionFacts
    <2>2. \/ v[2] <= watermark[i]
          \/ \E q \in Process : Busy(q, "loaded") /\ JobOf(q) = i /\ v \in proc[q].rows
      BY <2>1 DEF AInv, Below
    <2>3. CASE v[2] <= watermark[i]
      BY <1>4, <1>6, <2>1, <2>3
    <2>4. ASSUME NEW q \in Process, Busy(q, "loaded"), JobOf(q) = i, v \in proc[q].rows
          PROVE  \/ v[2] <= watermark'[i]
                 \/ Busy(q, "loaded")' /\ JobOf(q)' = i /\ v \in proc'[q].rows
      <3>1. CASE q = p
        BY <1>4, <1>8b, <2>4, <3>1 DEF j, rows
      <3>2. CASE q # p
        BY <1>5, <2>4, <3>2 DEF Busy
      <3> QED BY <3>1, <3>2
    <2> QED BY <2>2, <2>3, <2>4
  <1>10. ASSUME NEW q \in Process PROVE StillNew(q)'
    <2>1. StillNew(q)
      BY DEF AInv
    <2>2. CASE q = p
      BY <1>5, <2>2 DEF Rests, StillNew, Busy
    <2>3. CASE q # p /\ proc[q].stage \in {"read", "loaded"}
      <3>1. JobOf(q) \in Job
        BY <2>3, JobInType
      <3>2. CASE JobOf(q) = j
        BY <1>1, <1>5, <1>7, <2>3, <3>1, <3>2 DEF StillNew, Busy, Calm
      <3>3. CASE JobOf(q) # j
        BY <1>1, <1>4, <1>5, <2>1, <2>3, <3>1, <3>3 DEF StillNew, Busy
      <3> QED BY <3>2, <3>3
    <2>4. CASE q # p /\ proc[q].stage \notin {"read", "loaded"}
      BY <1>5, <2>4 DEF StillNew, Busy
    <2> QED BY <2>2, <2>3, <2>4
  <1> QED BY <1>8, <1>9, <1>10 DEF AInv

LEMMA AppendStep == TInv /\ HInv /\ AInv /\ [Next]_vars => AInv'
  BY Steps, AQuiet, AChange, AExtract, ALoad, AStored DEF AStep

(* A job that asks only for the rows above its watermark appends a version *)
(* a second time only for one of three reasons: runs of the job overlapped,*)
(* a committed load lost its watermark, or one copy of the configuration   *)
(* served two runs of the job.                                             *)
THEOREM RowsAppendedOnce == Spec => []AppendedOnce
  <1>1. AInv => AppendedOnce
    BY DEF AInv
  <1> QED BY SafeInit, SafeStep, AInit, AppendStep, <1>1, PTL DEF Spec

=============================================================================
