------------------------------- MODULE Outbox -------------------------------
(***************************************************************************)
(* What a queue of outgoing mail promises about each message.  A message   *)
(* is posted once, and handed to the mail server once: a further copy      *)
(* needs a reason of its own, which is a copy nobody knows of or the wish  *)
(* of the administrator.  What was confirmed as sent was handed over, what *)
(* was given up had failed Limit times, and only the administrator takes a *)
(* message out of either state.  The promise ends for messages that two    *)
(* senders have in hand together.                                          *)
(***************************************************************************)
EXTENDS Naturals

CONSTANTS Message,
          Limit    \* failures before a message may be given up

VARIABLES status,  \* "none", "pending", "sent", "error", "deleted" or "shared"
          copies,  \* copies the mail server took
          failed,  \* deliveries that were reported as failed
          reasons  \* reasons there were to send one copy more

outboxVars == <<status, copies, failed, reasons>>

OutboxInit ==
  /\ status = [m \in Message |-> "none"]
  /\ copies = [m \in Message |-> 0]
  /\ failed = [m \in Message |-> 0]
  /\ reasons = [m \in Message |-> 0]

Turn(m, from, to) == status[m] \in from /\ status' = [status EXCEPT ![m] = to]
More(count, m)    == [count EXCEPT ![m] = @ + 1]

(* A message that is deleted while it is being sent may still go out.       *)
Underway(m) == status[m] \in {"pending", "deleted"}

Post(m) == Turn(m, {"none"}, "pending") /\ UNCHANGED <<copies, failed, reasons>>

(* The server takes a copy and says so ... *)
HandOver(m) ==
  /\ Underway(m) /\ copies[m] <= reasons[m]
  /\ copies' = More(copies, m)
  /\ UNCHANGED <<status, failed, reasons>>

(* ... or takes it unheard ... *)
HandOverUnheard(m) ==
  /\ Underway(m) /\ copies[m] <= reasons[m]
  /\ copies' = More(copies, m) /\ failed' = More(failed, m) /\ reasons' = More(reasons, m)
  /\ UNCHANGED status

(* ... or refuses it. *)
Miss(m) == Underway(m) /\ failed' = More(failed, m) /\ UNCHANGED <<status, copies, reasons>>

(* Nobody will ever know that a copy was taken. *)
Forget(m) ==
  /\ Underway(m) /\ copies[m] > 0
  /\ reasons' = More(reasons, m)
  /\ UNCHANGED <<status, copies, failed>>

Confirm(m) ==
  Turn(m, {"pending"}, "sent") /\ copies[m] > 0 /\ UNCHANGED <<copies, failed, reasons>>

Abandon(m) ==
  Turn(m, {"pending"}, "error") /\ failed[m] >= Limit /\ UNCHANGED <<copies, failed, reasons>>

(* The administrator *)
Requeue(m) ==
  /\ Turn(m, {"pending", "sent", "error"}, "pending")
  /\ reasons' = More(reasons, m)
  /\ UNCHANGED <<copies, failed>>

Remove(gone) ==
  /\ \A m \in gone : status[m] \in {"pending", "sent", "error"}
  /\ status' = [m \in Message |-> IF m \in gone THEN "deleted" ELSE status[m]]
  /\ UNCHANGED <<copies, failed, reasons>>

(* Two senders have these messages, and what becomes of them is open.       *)
Share(both) ==
  LET Zeroed(count) == [m \in Message |-> IF m \in both THEN 0 ELSE count[m]] IN
  /\ \A m \in both : status[m] = "pending"
  /\ status' = [m \in Message |-> IF m \in both THEN "shared" ELSE status[m]]
  /\ copies' = Zeroed(copies) /\ failed' = Zeroed(failed) /\ reasons' = Zeroed(reasons)

OutboxNext ==
  \/ \E m \in Message : \/ Post(m) \/ HandOver(m) \/ HandOverUnheard(m) \/ Miss(m)
                        \/ Forget(m) \/ Confirm(m) \/ Abandon(m) \/ Requeue(m)
  \/ \E some \in SUBSET Message : Remove(some) \/ Share(some)

OutboxSpec == OutboxInit /\ [][OutboxNext]_outboxVars
=============================================================================
