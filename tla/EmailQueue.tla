----------------------------- MODULE EmailQueue -----------------------------
(***************************************************************************)
(* The queue of outgoing mail, spw_automation_emails: automation rules put *)
(* mail into it, the notifications cron (includes/cron_notifications.php)  *)
(* delivers it in batches, and the admin panel requeues, deletes and       *)
(* purges it.  A run selects its batch, and then for each message in turn  *)
(* talks to the mail server and records the result in the row.             *)
(*                                                                         *)
(* A run comes to the mail only when the calendar has sources, the from     *)
(* address and the SMTP host are set and nothing before has thrown: ready.  *)
(* Runs may overlap: nothing keeps the scheduler, the web endpoint cron.php *)
(* and the button of the admin panel from starting one while another is at *)
(* work.  A message is alone until two of them have it in hand together.   *)
(***************************************************************************)
EXTENDS Naturals, FiniteSets

CONSTANTS Runner,       \* runs of the cron that may be at work together
          MaxEmails,    \* bound on the messages queued, for model checking
          MaxAttempts,  \* AUTOMATION_EMAIL_MAX_ATTEMPTS
          BatchLimit,   \* AUTOMATION_EMAIL_BATCH_LIMIT
          MaxMishaps    \* bound on requeues, crashes, failed updates and
                        \* lost answers together, for model checking

ASSUME EmailQueueAssumption ==
  /\ MaxEmails \in Nat /\ MaxMishaps \in Nat
  /\ MaxAttempts \in Nat \ {0} /\ BatchLimit \in Nat \ {0}
  /\ IsFiniteSet(Runner)

VARIABLES mail,      \* the table: status and attempts of each id
          batch,     \* ids each run has selected and not yet dealt with
          outcome,   \* result of the message just sent, to be recorded
          delivered, \* history: copies of the message that reached the server
          failures,  \* history: deliveries reported as failed
          excuses,   \* history: reasons to send the message once more
          overlaps,  \* history: selections of a message another run had selected
          ready,     \* a run gets as far as the mail, and can send
          requeues, faults

history == <<delivered, failures, excuses, overlaps>>
vars    == <<mail, batch, outcome, history, ready, requeues, faults>>

Email   == 1..MaxEmails
Statuses == {"pending", "sent", "error"}
NotYet  == [status |-> "none", attempts |-> 0]
Gone    == [status |-> "deleted", attempts |-> 0]
Queued  == [status |-> "pending", attempts |-> 0]

TypeOK ==
  /\ mail \in [Email -> [status : Statuses \cup {"none", "deleted"}, attempts : Nat]]
  /\ batch \in [Runner -> SUBSET Email]
  /\ outcome \in [Runner -> {"none", "ok", "failed"}]
  /\ \A r \in Runner : outcome[r] # "none" => batch[r] # {}
  /\ delivered \in [Email -> Nat]
  /\ failures \in [Email -> Nat]
  /\ excuses \in [Email -> Nat]
  /\ overlaps \in [Email -> Nat]
  /\ ready \in BOOLEAN
  /\ requeues \in Nat /\ faults \in Nat

Init ==
  /\ mail = [e \in Email |-> NotYet]
  /\ batch = [r \in Runner |-> {}]
  /\ outcome = [r \in Runner |-> "none"]
  /\ delivered = [e \in Email |-> 0]
  /\ failures = [e \in Email |-> 0]
  /\ excuses = [e \in Email |-> 0]
  /\ overlaps = [e \in Email |-> 0]
  /\ ready \in BOOLEAN
  /\ requeues = 0 /\ faults = 0

Status(e)  == mail[e].status
Exists(e)  == Status(e) \in Statuses
OneMore(count, e) == [count EXCEPT ![e] = @ + 1]
MayFail    == requeues + faults < MaxMishaps
Fault      == MayFail /\ faults' = faults + 1

-----------------------------------------------------------------------------
(* auto_action_email inserts a row for a recipient; ids come from a serial. *)
Enqueue(e) ==
  /\ Status(e) = "none" /\ \A f \in Email : f < e => Status(f) # "none"
  /\ mail' = [mail EXCEPT ![e] = Queued]
  /\ UNCHANGED <<batch, outcome, history, ready, requeues, faults>>

AnyStatus(e) == Exists(e) /\ mail[e].attempts < MaxAttempts   \* mutant

(* status = 'pending' AND attempts < MaxAttempts                            *)
Waiting(e) == Status(e) = "pending" /\ mail[e].attempts < MaxAttempts

(* ORDER BY id LIMIT BatchLimit                                            *)
NextBatch == {e \in Email : /\ Waiting(e)
                            /\ Cardinality({f \in Email : f < e /\ Waiting(f)})
                                 < BatchLimit}

InBatch(e) == \E r \in Runner : e \in batch[r]

(* cron_notifications_run returns early, or reports that it cannot deliver, *)
(* when the configuration is not complete, and gives up on an exception of  *)
(* the notifications before: then the queue stays as it is.  The            *)
(* administrator, or whatever made them fail, changes that at any time.     *)
Reconfigure ==
  /\ ready' = ~ready
  /\ UNCHANGED <<mail, batch, outcome, history, requeues, faults>>

(* Nothing marks the selected rows: another run selects them as well.      *)
Select(r) ==
  /\ ready /\ batch[r] = {}
  /\ NextBatch # {} /\ batch' = [batch EXCEPT ![r] = NextBatch]
  /\ overlaps' = [e \in Email |-> IF e \in NextBatch /\ InBatch(e)
                                 THEN overlaps[e] + 1 ELSE overlaps[e]]
  /\ UNCHANGED <<mail, outcome, delivered, failures, excuses, ready, requeues, faults>>

First(r, e) == e \in batch[r] /\ \A f \in batch[r] : e <= f

(* The message goes out as it was selected, whatever has become of its row. *)
(* A delivery may be reported as failed although the server took it: the    *)
(* answer to the message did not arrive in time.                           *)
Send(r, e) ==
  /\ First(r, e) /\ outcome[r] = "none"
  /\ \/ /\ outcome' = [outcome EXCEPT ![r] = "ok"]
        /\ delivered' = OneMore(delivered, e)
        /\ UNCHANGED <<failures, excuses, faults>>
     \/ /\ outcome' = [outcome EXCEPT ![r] = "failed"]
        /\ failures' = OneMore(failures, e)
        /\ UNCHANGED <<delivered, excuses, faults>>
     \/ /\ outcome' = [outcome EXCEPT ![r] = "failed"]
        /\ delivered' = OneMore(delivered, e)
        /\ failures' = OneMore(failures, e)
        /\ excuses' = OneMore(excuses, e)
        /\ Fault
  /\ UNCHANGED <<mail, batch, overlaps, ready, requeues>>

NoLimit(n) == FALSE       \* mutant: the give-up never comes

GiveUp(n) == n >= MaxAttempts

Optimistic(m, result) ==  \* mutant: handed to the server means sent
  [status |-> "sent", attempts |-> m.attempts + 1]

Hasty(m, result) ==       \* mutant: the first failure is final
  [status   |-> IF result = "ok" THEN "sent" ELSE "error",
   attempts |-> m.attempts + 1]

Stuck(m, result) ==       \* mutant: a sent message stays in the queue
  [status |-> IF GiveUp(m.attempts + 1) THEN "error" ELSE "pending",
   attempts |-> m.attempts + 1]

(* The row after the UPDATE that records a result. *)
Updated(m, result) ==
  [status   |-> IF result = "ok" THEN "sent"
                ELSE IF GiveUp(m.attempts + 1) THEN "error" ELSE "pending",
   attempts |-> m.attempts + 1]

KeepOutcome(r, e) == /\ batch' = [batch EXCEPT ![r] = @ \ {e}]   \* mutant
                     /\ outcome' = outcome

Dequeue(r, e) == /\ batch' = [batch EXCEPT ![r] = @ \ {e}]
                 /\ outcome' = [outcome EXCEPT ![r] = "none"]

(* UPDATE ... WHERE id, whatever the status of the row is by now.          *)
Record(r, e) ==
  /\ First(r, e) /\ outcome[r] # "none"
  /\ mail' = [mail EXCEPT ![e] = IF Exists(e) THEN Updated(@, outcome[r]) ELSE @]
  /\ Dequeue(r, e)
  /\ UNCHANGED <<history, ready, requeues, faults>>

(* A delivery that nobody will know of. *)
Unrecorded(r, e) ==
  excuses' = IF First(r, e) /\ outcome[r] = "ok" THEN OneMore(excuses, e) ELSE excuses

(* The result of the UPDATE is not looked at: when it fails the run goes on. *)
RecordFail(r, e) ==
  /\ First(r, e) /\ outcome[r] # "none"
  /\ Fault
  /\ Unrecorded(r, e) /\ Dequeue(r, e)
  /\ UNCHANGED <<mail, delivered, failures, overlaps, ready, requeues>>

(* The run dies, or stops on an error: the rest of its batch stays pending. *)
Crash(r) ==
  /\ batch[r] # {}
  /\ Fault
  /\ \E e \in Email : First(r, e) /\ Unrecorded(r, e)
  /\ batch' = [batch EXCEPT ![r] = {}]
  /\ outcome' = [outcome EXCEPT ![r] = "none"]
  /\ UNCHANGED <<mail, delivered, failures, overlaps, ready, requeues>>

-----------------------------------------------------------------------------
(* The admin panel *)

(* automation_emails_requeue asks for no particular status. *)
Requeue(e) ==
  /\ Exists(e) /\ MayFail
  /\ requeues' = requeues + 1
  /\ mail' = [mail EXCEPT ![e] = Queued]
  /\ excuses' = OneMore(excuses, e)
  /\ UNCHANGED <<batch, outcome, delivered, failures, overlaps, ready, faults>>

Delete(e) ==
  /\ Exists(e)
  /\ mail' = [mail EXCEPT ![e] = Gone]
  /\ UNCHANGED <<batch, outcome, history, ready, requeues, faults>>

(* Everything of one status, or only what was created up to some time. *)
Purge(status, last) ==
  /\ \E e \in 1..last : Status(e) = status
  /\ mail' = [e \in Email |-> IF e <= last /\ Status(e) = status THEN Gone ELSE mail[e]]
  /\ UNCHANGED <<batch, outcome, history, ready, requeues, faults>>

-----------------------------------------------------------------------------
Run(r) == Select(r) \/ \E e \in Email : Send(r, e) \/ Record(r, e)

Next == \/ \E e \in Email : Enqueue(e) \/ Requeue(e) \/ Delete(e)
        \/ \E status \in Statuses, last \in Email : Purge(status, last)
        \/ Reconfigure
        \/ \E r \in Runner : \/ Run(r) \/ Crash(r)
                             \/ \E e \in Email : RecordFail(r, e)

Spec == Init /\ [][Next]_vars

(* The cron is scheduled for ever, its runs come to the mail as long as     *)
(* they are ready, and the mail server and the database answer or time out. *)
FairSpec == Spec /\ \A r \in Runner : WF_vars(Run(r))

-----------------------------------------------------------------------------
(* Properties *)

Alone(e) == overlaps[e] = 0

(* A message is delivered more than once only for a reason: its delivery was *)
(* reported as failed, the run ended or the database failed before it was    *)
(* recorded, or the administrator requeued it.                             *)
RepeatsHaveAReason == \A e \in Email : delivered[e] <= 1 + excuses[e]

(* Runs that overlap add to the reasons, and no more than this: each time a *)
(* run selects a message that another one is at work on, one more copy may  *)
(* go out, in whatever order the runs send, fail, record and die.           *)
CopiesAreAccounted ==
  \A e \in Email : delivered[e] <= 1 + excuses[e] + overlaps[e]

(* "sent" is only said of a message that the mail server took.             *)
SentWasDelivered == \A e \in Email : Status(e) = "sent" => delivered[e] > 0

(* A message that runs have not shared is given up only after MaxAttempts   *)
(* failed deliveries.                                                      *)
ErrorMeansExhausted ==
  \A e \in Email : Status(e) = "error" /\ Alone(e) => failures[e] >= MaxAttempts

(* A pending message is one that some run will pick up.                    *)
PendingIsWaiting == \A e \in Email : Status(e) = "pending" => Waiting(e)

(* Only the administrator takes a message that runs have not shared out of  *)
(* the status "sent".                                                      *)
SentStays ==
  [][\A e \in Email : Status(e) = "sent" /\ Status(e)' # "sent" /\ Alone(e)
       => mail'[e] = Gone \/ requeues' = requeues + 1]_vars

(* Once the runs stay ready every message leaves the queue, however many    *)
(* others fail before it, however often runs overlapped or were not ready   *)
(* until then, and whatever runs select while others are at work.           *)
QueueDrains ==
  <>[]ready => \A e \in Email : Status(e) = "pending" ~> Status(e) # "pending"

Promised(count) == [e \in Email |-> IF Alone(e) THEN count[e] ELSE 0]

Promise == INSTANCE Outbox WITH
  Message <- Email,
  Limit   <- MaxAttempts,
  status  <- [e \in Email |-> IF Alone(e) THEN Status(e) ELSE "shared"],
  copies  <- Promised(delivered),
  failed  <- Promised(failures),
  reasons <- Promised(excuses)

(* Batches, crashes, lost answers, the administrator and the overlaps of    *)
(* other messages included, the queue is an outbox for each message that    *)
(* runs do not share: it changes hands only while it is under way, is       *)
(* confirmed only after it was handed over, given up only after enough      *)
(* failures, and taken back by the administrator only.                      *)
ImplementsOutbox == Promise!OutboxSpec
=============================================================================
