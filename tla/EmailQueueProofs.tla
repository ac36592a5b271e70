-------------------------- MODULE EmailQueueProofs --------------------------
(***************************************************************************)
(* Theorems about EmailQueue for any number of messages and of overlapping  *)
(* runs, any batch size and number of attempts.                            *)
(***************************************************************************)
EXTENDS EmailQueue, FiniteSetTheorems, TLAPS

LEMMA Constants0 ==
  /\ Queued \in [status : Statuses \cup {"none", "deleted"}, attempts : Nat]
  /\ Gone \in [status : Statuses \cup {"none", "deleted"}, attempts : Nat]
  /\ NotYet \in [status : Statuses \cup {"none", "deleted"}, attempts : Nat]
BY DEF Queued, Gone, NotYet, Statuses

(* What an UPDATE makes of a row. *)
LEMMA UpdatedTyped ==
  ASSUME NEW m, m.attempts \in Nat, NEW result
  PROVE  /\ Updated(m, result) \in [status : Statuses \cup {"none", "deleted"}, attempts : Nat]
         /\ Updated(m, result).attempts = m.attempts + 1
         /\ Updated(m, result).status \in Statuses
         /\ Updated(m, result).status = "sent" => result = "ok"
         /\ result = "ok" => Updated(m, result).status = "sent"
         /\ Updated(m, result).status = "pending" => m.attempts + 1 < MaxAttempts
         /\ Updated(m, result).status = "error" => m.attempts + 1 >= MaxAttempts
<1> USE EmailQueueAssumption DEF Updated, Statuses, GiveUp
<1>1. CASE result = "ok"
  <2>1. Updated(m, result) = [status |-> "sent", attempts |-> m.attempts + 1]
    BY <1>1
  <2> QED
    BY <1>1, <2>1
<1>2. CASE result # "ok" /\ m.attempts + 1 >= MaxAttempts
  <2>1. Updated(m, result) = [status |-> "error", attempts |-> m.attempts + 1]
    BY <1>2
  <2> QED
    BY <1>2, <2>1
<1>3. CASE result # "ok" /\ ~(m.attempts + 1 >= MaxAttempts)
  <2>1. Updated(m, result) = [status |-> "pending", attempts |-> m.attempts + 1]
    BY <1>3
  <2> QED
    BY <1>3, <2>1
<1> QED
  BY <1>1, <1>2, <1>3

(* The first of a batch is one message. *)
LEMMA FirstIsOne ==
  ASSUME TypeOK, NEW r \in Runner, NEW e \in Email, NEW f \in Email, First(r, e), First(r, f)
  PROVE  e = f
BY DEF First, Email, TypeOK

LEMMA StepTyped == TypeOK /\ [Next]_vars => TypeOK'
<1> SUFFICES ASSUME TypeOK, [Next]_vars PROVE TypeOK'
  OBVIOUS
<1> USE EmailQueueAssumption, Constants0 DEF TypeOK, OneMore, Fault, history
<1>1. ASSUME NEW e \in Email, Enqueue(e) PROVE TypeOK'
  BY <1>1 DEF Enqueue
<1>2. ASSUME NEW e \in Email, Requeue(e) PROVE TypeOK'
  BY <1>2 DEF Requeue
<1>3. ASSUME NEW e \in Email, Delete(e) PROVE TypeOK'
  BY <1>3 DEF Delete
<1>4. ASSUME NEW status \in Statuses, NEW last \in Email, Purge(status, last) PROVE TypeOK'
  BY <1>4 DEF Purge
<1>5. ASSUME NEW r \in Runner, Select(r) PROVE TypeOK'
  BY <1>5 DEF Select, NextBatch
<1>6. ASSUME NEW r \in Runner, NEW e \in Email, Send(r, e) PROVE TypeOK'
  <2>1. /\ outcome' \in [Runner -> {"none", "ok", "failed"}]
        /\ \A q \in Runner : outcome'[q] # "none" => batch'[q] # {}
    <3>1. /\ \E x \in {"ok", "failed"} : outcome' = [outcome EXCEPT ![r] = x]
          /\ batch' = batch /\ batch[r] # {}
      BY <1>6 DEF Send, First
    <3> QED
      BY <3>1
  <2> HIDE DEF OneMore
  <2>2. /\ delivered' \in {delivered, OneMore(delivered, e)}
        /\ failures' \in {failures, OneMore(failures, e)}
        /\ excuses' \in {excuses, OneMore(excuses, e)}
        /\ faults' \in {faults, faults + 1}
    BY <1>6 DEF Send
  <2>3. \A count \in [Email -> Nat] : OneMore(count, e) \in [Email -> Nat]
    BY DEF OneMore
  <2>4. /\ delivered' \in [Email -> Nat] /\ failures' \in [Email -> Nat]
        /\ excuses' \in [Email -> Nat] /\ faults' \in Nat
    BY <2>2, <2>3
  <2> QED
    BY <1>6, <2>1, <2>4 DEF Send
<1>7. ASSUME NEW r \in Runner, NEW e \in Email, Record(r, e) PROVE TypeOK'
  <2>1. Updated(mail[e], outcome[r])
          \in [status : Statuses \cup {"none", "deleted"}, attempts : Nat]
    <3>1. mail[e].attempts \in Nat
      OBVIOUS
    <3> QED
      BY <3>1, UpdatedTyped
  <2>2. mail' \in [Email -> [status : Statuses \cup {"none", "deleted"}, attempts : Nat]]
    BY <1>7, <2>1 DEF Record
  <2>3. batch' \in [Runner -> SUBSET Email]
    BY <1>7 DEF Record, Dequeue
  <2>4. outcome' \in [Runner -> {"none", "ok", "failed"}]
    BY <1>7 DEF Record, Dequeue
  <2>5. \A q \in Runner : outcome'[q] # "none" => batch'[q] # {}
    BY <1>7 DEF Record, Dequeue
  <2>6. UNCHANGED <<delivered, failures, excuses, overlaps, ready, requeues, faults>>
    BY <1>7 DEF Record
  <2> QED
    BY <2>2, <2>3, <2>4, <2>5, <2>6
<1>8. ASSUME NEW r \in Runner, NEW e \in Email, RecordFail(r, e) PROVE TypeOK'
  BY <1>8 DEF RecordFail, Dequeue, Unrecorded
<1>9. ASSUME NEW r \in Runner, Crash(r) PROVE TypeOK'
  BY <1>9 DEF Crash, Unrecorded
<1>10. CASE Reconfigure
  BY <1>10 DEF Reconfigure
<1>11. CASE UNCHANGED vars
  BY <1>11 DEF vars
<1> QED
  BY <1>1, <1>2, <1>3, <1>4, <1>5, <1>6, <1>7, <1>8, <1>9, <1>10, <1>11 DEF Next, Run

(* Type correctness of the queue and its runs. *)
THEOREM TypeCorrect == Spec => []TypeOK
<1>1. Init => TypeOK
  BY EmailQueueAssumption, Constants0 DEF Init, TypeOK
<1> QED
  BY <1>1, StepTyped, PTL DEF Spec

-----------------------------------------------------------------------------
(* Nothing is stuck in the queue, however many runs overlap: a pending       *)
(* message always has an attempt left.                                      *)
THEOREM NothingIsStuck == Spec => []PendingIsWaiting
<1>1. Init => PendingIsWaiting
  BY DEF Init, PendingIsWaiting, Status, NotYet
<1>2. TypeOK /\ PendingIsWaiting /\ [Next]_vars => PendingIsWaiting'
  <2> SUFFICES ASSUME TypeOK, PendingIsWaiting, [Next]_vars PROVE PendingIsWaiting'
    OBVIOUS
  <2> USE EmailQueueAssumption DEF TypeOK, PendingIsWaiting, Waiting, Status, Exists
  <2>1. ASSUME NEW e \in Email, Enqueue(e) \/ Requeue(e) \/ Delete(e) PROVE PendingIsWaiting'
    BY <2>1 DEF Enqueue, Requeue, Delete, Queued, Gone
  <2>2. ASSUME NEW status \in Statuses, NEW last \in Email, Purge(status, last)
        PROVE  PendingIsWaiting'
    BY <2>2 DEF Purge, Gone
  <2>3. ASSUME NEW r \in Runner, NEW e \in Email, Record(r, e) PROVE PendingIsWaiting'
    BY <2>3, UpdatedTyped DEF Record
  <2>4. CASE mail' = mail
    BY <2>4
  <2> QED
    BY <2>1, <2>2, <2>3, <2>4 DEF Next, Run, Reconfigure, Select, Send, RecordFail, Crash, vars
<1> QED
  BY <1>1, <1>2, TypeCorrect, PTL DEF Spec

-----------------------------------------------------------------------------
(* "sent" is a promise kept *)

(* A run that is about to record a delivery has made it. *)
OkWasDelivered ==
  \A r \in Runner, e \in Email : First(r, e) /\ outcome[r] = "ok" => delivered[e] > 0

LEMMA StepDelivered ==
  ASSUME TypeOK, SentWasDelivered, OkWasDelivered, [Next]_vars
  PROVE  SentWasDelivered' /\ OkWasDelivered'
<1> USE EmailQueueAssumption DEF TypeOK, SentWasDelivered, OkWasDelivered, Status, Exists, First,
                                 Queued, Gone, OneMore, history
<1>1. ASSUME NEW e \in Email, Enqueue(e) \/ Requeue(e) \/ Delete(e)
      PROVE  SentWasDelivered' /\ OkWasDelivered'
  <2>1. /\ UNCHANGED <<batch, outcome, delivered>>
        /\ mail' \in {[mail EXCEPT ![e] = Queued], [mail EXCEPT ![e] = Gone]}
    BY <1>1 DEF Enqueue, Requeue, Delete
  <2> QED
    BY <2>1
<1>2. ASSUME NEW status \in Statuses, NEW last \in Email, Purge(status, last)
      PROVE  SentWasDelivered' /\ OkWasDelivered'
  BY <1>2 DEF Purge
<1>3. ASSUME NEW r \in Runner, Select(r) PROVE SentWasDelivered' /\ OkWasDelivered'
  BY <1>3 DEF Select
<1>4. ASSUME NEW r \in Runner, NEW e \in Email, Send(r, e)
      PROVE  SentWasDelivered' /\ OkWasDelivered'
  <2>1. /\ mail' = mail /\ batch' = batch
        /\ \A q \in Runner : q # r => outcome'[q] = outcome[q]
        /\ \A f \in Email : delivered[f] > 0 => delivered'[f] > 0
        /\ outcome'[r] = "ok" => delivered'[e] > 0
    BY <1>4 DEF Send
  <2>2. SentWasDelivered'
    BY <2>1
  <2>3. ASSUME NEW q \in Runner, NEW f \in Email, First(q, f)', outcome'[q] = "ok"
        PROVE  delivered'[f] > 0
    <3>1. First(q, f)
      BY <2>1, <2>3
    <3>2. CASE q = r
      <4>1. First(r, e) /\ First(r, f)
        BY <1>4, <3>1, <3>2 DEF Send
      <4>2. e = f
        BY <4>1, FirstIsOne
      <4> QED
        BY <2>1, <2>3, <3>2, <4>2
    <3>3. CASE q # r
      BY <2>1, <2>3, <3>1, <3>3
    <3> QED
      BY <3>2, <3>3
  <2> QED
    BY <2>2, <2>3
<1>5. ASSUME NEW r \in Runner, NEW e \in Email, Record(r, e)
      PROVE  SentWasDelivered' /\ OkWasDelivered'
  <2>1. mail[e].attempts \in Nat
    OBVIOUS
  <2>2. SentWasDelivered'
    BY <1>5, <2>1, UpdatedTyped DEF Record
  <2>3. OkWasDelivered'
    BY <1>5 DEF Record, Dequeue
  <2> QED
    BY <2>2, <2>3
<1>6. ASSUME NEW r \in Runner, NEW e \in Email, RecordFail(r, e)
      PROVE  SentWasDelivered' /\ OkWasDelivered'
  BY <1>6 DEF RecordFail, Dequeue
<1>7. ASSUME NEW r \in Runner, Crash(r) PROVE SentWasDelivered' /\ OkWasDelivered'
  BY <1>7 DEF Crash
<1>8. CASE UNCHANGED vars \/ Reconfigure
  BY <1>8 DEF vars, Reconfigure
<1> QED
  BY <1>1, <1>2, <1>3, <1>4, <1>5, <1>6, <1>7, <1>8 DEF Next, Run

LEMMA AlwaysDelivered == Spec => [](SentWasDelivered /\ OkWasDelivered)
<1>1. Init => SentWasDelivered /\ OkWasDelivered
  BY DEF Init, SentWasDelivered, OkWasDelivered, Status, NotYet
<1>2. TypeOK /\ SentWasDelivered /\ OkWasDelivered /\ [Next]_vars
        => SentWasDelivered' /\ OkWasDelivered'
  BY StepDelivered
<1> QED
  BY <1>1, <1>2, TypeCorrect, PTL DEF Spec

(* A message marked "sent" was taken by the mail server, overlapping runs,   *)
(* requeues, lost answers and crashes notwithstanding.                      *)
THEOREM SentIsTrue == Spec => []SentWasDelivered
BY AlwaysDelivered, PTL

-----------------------------------------------------------------------------
(* Copies of a message *)

(* The runs that may yet send the message from their batch.                 *)
Senders(e) == {r \in Runner : e \in batch[r] /\ ~(First(r, e) /\ outcome[r] = "ok")}

(* Every copy sent, and every copy that a run may yet send, has a reason of  *)
(* its own: the first selection, an excuse or an overlap.  A message that is *)
(* pending and that no run is at work on keeps one reason in stock.         *)
CopiesOf(e) ==
  /\ delivered[e] + Cardinality(Senders(e)) <= 1 + excuses[e] + overlaps[e]
  /\ Status(e) = "pending" /\ ~InBatch(e) => delivered[e] <= excuses[e] + overlaps[e]
  /\ Status(e) = "none" => delivered[e] = 0 /\ ~InBatch(e)

CopyInv == \A e \in Email : CopiesOf(e)

LEMMA SendersFinite ==
  /\ \A e : IsFiniteSet(Senders(e)) /\ Cardinality(Senders(e)) \in Nat
  /\ \A e : IsFiniteSet(Senders(e))' /\ Cardinality(Senders(e))' \in Nat
BY EmailQueueAssumption, FS_Subset, FS_CardinalityType DEF Senders

LEMMA CountsTyped ==
  ASSUME TypeOK, TypeOK', NEW e \in Email
  PROVE  /\ delivered[e] \in Nat /\ excuses[e] \in Nat /\ overlaps[e] \in Nat
         /\ delivered'[e] \in Nat /\ excuses'[e] \in Nat /\ overlaps'[e] \in Nat
BY DEF TypeOK

(* A step that touches neither the batches nor the copies of a message.     *)
LEMMA CopiesKept ==
  ASSUME TypeOK, TypeOK', NEW e \in Email, CopiesOf(e),
         Senders(e)' = Senders(e), InBatch(e)' = InBatch(e),
         delivered'[e] = delivered[e], overlaps'[e] = overlaps[e],
         \/ /\ Status(e)' \in {Status(e), "deleted"} /\ excuses'[e] = excuses[e]
         \/ Status(e)' = "pending" /\ excuses'[e] = excuses[e] + 1
         \/ Status(e) = "none" /\ Status(e)' = "pending" /\ excuses'[e] = excuses[e]
  PROVE  CopiesOf(e)'
BY CountsTyped, SendersFinite DEF CopiesOf

(* Selecting a message makes one more sender, counted as an overlap unless   *)
(* it is the only one.                                                      *)
LEMMA SelectCopies ==
  ASSUME TypeOK, TypeOK', CopyInv, NEW r \in Runner, Select(r), NEW e \in Email
  PROVE  CopiesOf(e)'
<1>1. /\ CopiesOf(e)
      /\ batch[r] = {} /\ outcome[r] = "none"
      /\ batch' = [batch EXCEPT ![r] = NextBatch] /\ outcome' = outcome
      /\ mail' = mail /\ delivered' = delivered /\ excuses' = excuses
      /\ overlaps'[e] = IF e \in NextBatch /\ InBatch(e) THEN overlaps[e] + 1 ELSE overlaps[e]
  BY DEF Select, CopyInv, TypeOK
<1>2. CASE e \notin NextBatch
  <2>1. \A q \in Runner : e \in batch'[q] <=> e \in batch[q]
    BY <1>1, <1>2 DEF TypeOK
  <2>2. \A q \in Runner : e \in batch[q] => batch'[q] = batch[q]
    BY <1>1 DEF TypeOK
  <2>3. Senders(e)' = Senders(e) /\ InBatch(e)' = InBatch(e)
    BY <1>1, <2>1, <2>2 DEF Senders, InBatch, First
  <2> QED
    BY <1>1, <1>2, <2>3, CopiesKept DEF Status
<1>3. CASE e \in NextBatch
  <2>1. Status(e) = "pending" /\ InBatch(e)'
    BY <1>1, <1>3 DEF NextBatch, Waiting, InBatch, TypeOK
  <2>2. Senders(e)' = Senders(e) \cup {r} /\ r \notin Senders(e)
    <3>1. \A q \in Runner \ {r} : batch'[q] = batch[q]
      BY <1>1 DEF TypeOK
    <3>2. batch'[r] = NextBatch
      BY <1>1 DEF TypeOK
    <3> QED
      BY <1>1, <1>3, <3>1, <3>2 DEF Senders, First
  <2>3. Cardinality(Senders(e)') = Cardinality(Senders(e)) + 1
    BY <2>2, SendersFinite, FS_AddElement
  <2>4. CASE InBatch(e)
    BY <1>1, <1>3, <2>1, <2>3, <2>4, CountsTyped, SendersFinite DEF CopiesOf, Status
  <2>5. CASE ~InBatch(e)
    <3>1. Senders(e) = {}
      BY <2>5 DEF Senders, InBatch
    <3>2. Cardinality(Senders(e)) = 0
      BY <3>1, FS_EmptySet
    <3> QED
      BY <1>1, <1>3, <2>1, <2>3, <2>5, <3>2, CountsTyped DEF CopiesOf, Status
  <2> QED
    BY <2>4, <2>5
<1> QED
  BY <1>2, <1>3

(* The copy that a run sends was counted among those it might send.         *)
LEMMA SendCopies ==
  ASSUME TypeOK, TypeOK', CopyInv, NEW r \in Runner, NEW e \in Email, Send(r, e),
         NEW f \in Email
  PROVE  CopiesOf(f)'
<1>1. /\ mail' = mail /\ batch' = batch /\ overlaps' = overlaps
      /\ First(r, e) /\ e \in batch[r] /\ outcome[r] = "none"
      /\ \A q \in Runner, g \in Email : First(q, g)' <=> First(q, g)
      /\ \A q \in Runner \ {r} : outcome'[q] = outcome[q]
      /\ CopiesOf(f) /\ InBatch(f)' = InBatch(f)
  <2>1. \E x \in {"ok", "failed"} : outcome' = [outcome EXCEPT ![r] = x]
    BY DEF Send
  <2> QED
    BY <2>1 DEF Send, First, CopyInv, InBatch, TypeOK
<1>2. CASE f # e
  <2>1. ~First(r, f)
    BY <1>1, <1>2, FirstIsOne
  <2>2. Senders(f)' = Senders(f)
    BY <1>1, <2>1 DEF Senders
  <2>3. delivered'[f] = delivered[f] /\ excuses'[f] = excuses[f]
    BY <1>2 DEF Send, OneMore, TypeOK
  <2> QED
    BY <1>1, <2>2, <2>3, CopiesKept DEF Status
<1>3. CASE f = e
  <2>1. r \in Senders(e) /\ InBatch(e)
    BY <1>1 DEF Senders, InBatch
  <2>2. CASE outcome'[r] = "ok"
    <3>1. delivered'[e] = delivered[e] + 1 /\ excuses'[e] = excuses[e]
      BY <2>2 DEF Send, OneMore, TypeOK
    <3>2. Senders(e)' = Senders(e) \ {r}
      BY <1>1, <2>2 DEF Senders
    <3>3. Cardinality(Senders(e)') = Cardinality(Senders(e)) - 1
      BY <2>1, <3>2, SendersFinite, FS_RemoveElement
    <3> QED
      BY <1>1, <1>3, <2>1, <3>1, <3>3, CountsTyped, SendersFinite DEF CopiesOf, Status
  <2>3. CASE outcome'[r] # "ok"
    <3>1. \/ delivered'[e] = delivered[e] /\ excuses'[e] = excuses[e]
          \/ delivered'[e] = delivered[e] + 1 /\ excuses'[e] = excuses[e] + 1
      BY <2>3 DEF Send, OneMore, TypeOK
    <3>2. Senders(e)' = Senders(e)
      BY <1>1, <2>3 DEF Senders
    <3> QED
      BY <1>1, <1>3, <2>1, <3>1, <3>2, CountsTyped, SendersFinite DEF CopiesOf, Status
  <2> QED
    BY <2>2, <2>3
<1> QED
  BY <1>2, <1>3

(* A run puts the first message of its batch aside, or all of it.           *)
PutAside(r, e) ==
  /\ First(r, e)
  /\ \E rest \in SUBSET (batch[r] \ {e}) : batch' = [batch EXCEPT ![r] = rest]
  /\ outcome' = [outcome EXCEPT ![r] = "none"]
  /\ delivered' = delivered /\ overlaps' = overlaps

LEMMA AsideSenders ==
  ASSUME TypeOK, NEW r \in Runner, NEW e \in Email, PutAside(r, e), NEW f \in Email
  PROVE  /\ Senders(f)' \subseteq Senders(f)
         /\ InBatch(f)' => InBatch(f)
         /\ InBatch(f) /\ ~InBatch(f)' => f \in batch[r]
         /\ f \in batch[r] /\ ~(f = e /\ outcome[r] = "ok") => r \in Senders(f)
<1>1. /\ e \in batch[r] /\ First(r, e)
      /\ \A q \in Runner \ {r} : batch'[q] = batch[q] /\ outcome'[q] = outcome[q]
      /\ batch'[r] \subseteq batch[r] \ {e} /\ outcome'[r] = "none"
  BY DEF PutAside, First, TypeOK
<1>2. f # e => ~First(r, f)
  BY <1>1, FirstIsOne
<1> QED
  BY <1>1, <1>2 DEF Senders, InBatch, First

LEMMA AsideCopies ==
  ASSUME TypeOK, TypeOK', CopyInv, NEW r \in Runner, NEW e \in Email, PutAside(r, e),
         NEW f \in Email,
         excuses'[f] >= excuses[f],
         Status(f)' = Status(f) \/ (Status(f)' # "none" /\ f = e),
         f = e /\ outcome[r] = "ok" => \/ Status(f)' # "pending"
                                      \/ excuses'[f] = excuses[f] + 1
  PROVE  CopiesOf(f)'
<1>1. /\ CopiesOf(f) /\ delivered'[f] = delivered[f] /\ overlaps'[f] = overlaps[f]
      /\ e \in batch[r]
  BY DEF CopyInv, PutAside, First
<1>2. Cardinality(Senders(f)') <= Cardinality(Senders(f))
  BY AsideSenders, SendersFinite, FS_Subset
<1>3. delivered'[f] + Cardinality(Senders(f)') <= 1 + excuses'[f] + overlaps'[f]
  BY <1>1, <1>2, CountsTyped, SendersFinite DEF CopiesOf
<1>4. ASSUME Status(f)' = "pending", ~InBatch(f)'
      PROVE  delivered'[f] <= excuses'[f] + overlaps'[f]
  <2>1. CASE ~InBatch(f)
    <3>1. f # e
      BY <1>1, <2>1 DEF InBatch
    <3> QED
      BY <1>1, <1>4, <2>1, <3>1, CountsTyped DEF CopiesOf
  <2>2. CASE InBatch(f) /\ r \in Senders(f)
    <3>1. Cardinality(Senders(f)) >= 1
      BY <2>2, SendersFinite, FS_EmptySet
    <3> QED
      BY <1>1, <3>1, CountsTyped, SendersFinite DEF CopiesOf
  <2>3. CASE InBatch(f) /\ r \notin Senders(f)
    <3>1. excuses'[f] = excuses[f] + 1
      BY <1>4, <2>3, AsideSenders
    <3> QED
      BY <1>1, <3>1, CountsTyped, SendersFinite DEF CopiesOf
  <2> QED
    BY <2>1, <2>2, <2>3
<1>5. Status(f)' = "none" => delivered'[f] = 0 /\ ~InBatch(f)'
  BY <1>1, AsideSenders DEF CopiesOf
<1> QED
  BY <1>3, <1>4, <1>5 DEF CopiesOf

LEMMA StepCopies ==
  ASSUME TypeOK, TypeOK', CopyInv, [Next]_vars
  PROVE  CopyInv'
<1> SUFFICES ASSUME NEW f \in Email PROVE CopiesOf(f)'
  BY DEF CopyInv
<1>1. CopiesOf(f)
  BY DEF CopyInv
<1>2. ASSUME batch' = batch, outcome' = outcome
      PROVE  Senders(f)' = Senders(f) /\ InBatch(f)' = InBatch(f)
  BY <1>2 DEF Senders, InBatch, First
<1>3. ASSUME NEW e \in Email, Enqueue(e) \/ Requeue(e) \/ Delete(e) PROVE CopiesOf(f)'
  BY <1>1, <1>2, <1>3, CopiesKept
     DEF Enqueue, Requeue, Delete, Status, OneMore, Queued, Gone, TypeOK, history
<1>4. ASSUME NEW status \in Statuses, NEW last \in Email, Purge(status, last)
      PROVE  CopiesOf(f)'
  BY <1>1, <1>2, <1>4, CopiesKept DEF Purge, Status, Gone, TypeOK, history
<1>5. ASSUME NEW r \in Runner, NEW e \in Email, Record(r, e) PROVE CopiesOf(f)'
  <2>1. PutAside(r, e) /\ excuses' = excuses /\ outcome[r] \in {"ok", "failed"}
    BY <1>5 DEF Record, Dequeue, PutAside, history, TypeOK
  <2>2. f # e => mail'[f] = mail[f]
    BY <1>5 DEF Record, TypeOK
  <2>3. mail'[e] = IF Exists(e) THEN Updated(mail[e], outcome[r]) ELSE mail[e]
    BY <1>5 DEF Record, TypeOK
  <2>4. mail[e].attempts \in Nat
    BY DEF TypeOK
  <2>5. CASE Exists(e)
    <3>1. mail'[e].status \in Statuses
      BY <2>3, <2>4, <2>5, UpdatedTyped
    <3>2. outcome[r] = "ok" => mail'[e].status = "sent"
      BY <2>3, <2>4, <2>5, UpdatedTyped
    <3> QED
      BY <2>1, <2>2, <3>1, <3>2, AsideCopies, CountsTyped DEF Status, Statuses
  <2>6. CASE ~Exists(e)
    <3>1. mail'[e] = mail[e] /\ mail[e].status # "pending"
      BY <2>3, <2>6 DEF Exists, Status, Statuses
    <3> QED
      BY <2>1, <2>2, <3>1, AsideCopies, CountsTyped DEF Status
  <2> QED
    BY <2>5, <2>6
<1>6. ASSUME NEW r \in Runner, NEW e \in Email, mail' = mail, PutAside(r, e), Unrecorded(r, e)
      PROVE  CopiesOf(f)'
  <2>1. excuses'[f] = IF f = e /\ outcome[r] = "ok" THEN excuses[f] + 1 ELSE excuses[f]
    BY <1>6 DEF Unrecorded, OneMore, PutAside, TypeOK
  <2> QED
    BY <1>6, <2>1, AsideCopies, CountsTyped DEF Status
<1>7. ASSUME NEW r \in Runner, NEW e \in Email, RecordFail(r, e) PROVE CopiesOf(f)'
  <2>1. mail' = mail /\ PutAside(r, e) /\ Unrecorded(r, e)
    BY <1>7 DEF RecordFail, Dequeue, PutAside
  <2> QED
    BY <1>6, <2>1
<1>8. ASSUME NEW r \in Runner, Crash(r) PROVE CopiesOf(f)'
  <2>1. PICK e \in Email : First(r, e) /\ Unrecorded(r, e)
    BY <1>8 DEF Crash
  <2>2. mail' = mail /\ PutAside(r, e)
    BY <1>8, <2>1 DEF Crash, PutAside
  <2> QED
    BY <1>6, <2>1, <2>2
<1>9. ASSUME NEW r \in Runner, Select(r) PROVE CopiesOf(f)'
  BY <1>9, SelectCopies
<1>10. ASSUME NEW r \in Runner, NEW e \in Email, Send(r, e) PROVE CopiesOf(f)'
  BY <1>10, SendCopies
<1>11. CASE UNCHANGED vars \/ Reconfigure
  BY <1>1, <1>2, <1>11, CopiesKept DEF vars, Status, history, Reconfigure
<1> QED
  BY <1>3, <1>4, <1>5, <1>7, <1>8, <1>9, <1>10, <1>11 DEF Next, Run

(* However many runs overlap, and in whatever order they select, send,       *)
(* record, fail and die: a message goes out once, and once more at most for  *)
(* every excuse and for every time a run selected it while another one was   *)
(* at work on it.                                                           *)
THEOREM CopiesAreBounded == Spec => []CopiesAreAccounted
<1>1. Init => CopyInv
  <2> SUFFICES ASSUME Init, NEW e \in Email PROVE CopiesOf(e)
    BY DEF CopyInv
  <2>1. Senders(e) = {} /\ ~InBatch(e) /\ Status(e) = "none"
    BY DEF Init, Senders, InBatch, Status, NotYet
  <2>2. Cardinality(Senders(e)) = 0
    BY <2>1, FS_EmptySet
  <2> QED
    BY <2>1, <2>2 DEF CopiesOf, Init
<1>2. TypeOK /\ TypeOK' /\ CopyInv /\ [Next]_vars => CopyInv'
  BY StepCopies
<1>3. TypeOK /\ CopyInv => CopiesAreAccounted
  BY SendersFinite DEF CopyInv, CopiesOf, CopiesAreAccounted, TypeOK
<1> QED
  BY <1>1, <1>2, <1>3, TypeCorrect, PTL DEF Spec

-----------------------------------------------------------------------------
(* Messages that runs have not shared *)

(* The result of a message is known and not yet recorded. *)
Answered(e, result) == \E r \in Runner : First(r, e) /\ outcome[r] = result

(* One run at most has the message in hand, and what it has in hand is still *)
(* in the queue, unless it was deleted.                                     *)
BatchInv(e) ==
  /\ \A r, q \in Runner : e \in batch[r] /\ e \in batch[q] => r = q
  /\ InBatch(e) => Status(e) \in {"pending", "deleted"}

(* Whatever may be sent has a reason in stock for every copy sent so far.    *)
RepeatInv(e) ==
  /\ delivered[e] <= 1 + excuses[e]
  /\ Status(e) = "none" => delivered[e] = 0
  /\ (Status(e) = "pending" \/ InBatch(e)) /\ ~Answered(e, "ok")
       => delivered[e] <= excuses[e]

(* Attempts are failures, the one not yet recorded aside.                   *)
FailInv(e) ==
  /\ Status(e) = "pending" => mail[e].attempts <= failures[e]
  /\ Status(e) = "pending" /\ Answered(e, "failed") => mail[e].attempts + 1 <= failures[e]
  /\ Status(e) = "error" => failures[e] >= MaxAttempts

AloneInv(e) == BatchInv(e) /\ RepeatInv(e) /\ FailInv(e)

SInv == \A e \in Email : Alone(e) => AloneInv(e)

(* A message that a step does not concern.                                  *)
LEMMA OthersKept ==
  ASSUME TypeOK, TypeOK', NEW f \in Email, AloneInv(f),
         mail'[f] = mail[f], delivered'[f] = delivered[f], failures'[f] = failures[f],
         excuses'[f] = excuses[f],
         \A q \in Runner : f \in batch'[q] => f \in batch[q],
         \A x \in {"ok", "failed"} : Answered(f, x)' <=> Answered(f, x)
  PROVE  AloneInv(f)'
<1>1. InBatch(f)' => InBatch(f)
  BY DEF InBatch
<1>2. BatchInv(f)'
  BY <1>1 DEF AloneInv, BatchInv, Status
<1>3. RepeatInv(f)'
  BY <1>1 DEF AloneInv, RepeatInv, Status
<1>4. FailInv(f)'
  BY DEF AloneInv, FailInv, Status
<1> QED
  BY <1>2, <1>3, <1>4 DEF AloneInv

(* The administrator changes rows, and no batch.                            *)
LEMMA AdminKeeps ==
  ASSUME TypeOK, TypeOK', NEW f \in Email, AloneInv(f),
         batch' = batch, outcome' = outcome, delivered' = delivered, failures' = failures,
         \/ /\ mail'[f] \in {mail[f], Gone} /\ excuses'[f] = excuses[f]
         \/ /\ mail'[f] = Queued /\ Status(f) = "none" /\ excuses'[f] = excuses[f]
         \/ /\ mail'[f] = Queued /\ Exists(f) /\ excuses'[f] = excuses[f] + 1
  PROVE  AloneInv(f)'
<1>1. /\ InBatch(f)' <=> InBatch(f)
      /\ \A x : Answered(f, x)' <=> Answered(f, x)
  BY DEF InBatch, Answered, First
<1>2. /\ delivered[f] \in Nat /\ excuses[f] \in Nat /\ failures[f] \in Nat
      /\ mail[f].attempts \in Nat
  BY DEF TypeOK
<1>3. BatchInv(f)'
  <2>1. Queued.status = "pending" /\ Gone.status = "deleted"
    BY DEF Queued, Gone
  <2>2. InBatch(f) => Status(f)' \in {"pending", "deleted"}
    BY <2>1 DEF AloneInv, BatchInv, Status
  <2> QED
    BY <1>1, <2>2 DEF AloneInv, BatchInv
<1>4. RepeatInv(f)'
  BY <1>1, <1>2 DEF AloneInv, RepeatInv, Status, Exists, Statuses, Queued, Gone
<1>5. FailInv(f)'
  <2>1. /\ Queued.status = "pending" /\ Queued.attempts = 0 /\ Gone.status = "deleted"
    BY DEF Queued, Gone
  <2>2. Answered(f, "failed") => InBatch(f)
    BY DEF Answered, First, InBatch
  <2>3. Answered(f, "failed") => Status(f) \in {"pending", "deleted"}
    BY <2>2 DEF AloneInv, BatchInv
  <2>4. Answered(f, "failed") /\ Status(f) = "pending" => failures[f] >= 1
    BY <1>2 DEF AloneInv, FailInv
  <2>5. CASE mail'[f] = mail[f] \/ mail'[f] = Gone
    BY <1>1, <2>1, <2>5 DEF AloneInv, FailInv, Status
  <2>6. CASE mail'[f] = Queued
    <3>1. Answered(f, "failed") => failures[f] >= 1
      BY <2>3, <2>4, <2>6 DEF Status, Exists, Statuses, Gone, Queued
    <3> QED
      BY <1>1, <1>2, <2>1, <2>6, <3>1 DEF FailInv, Status
  <2> QED
    BY <2>5, <2>6
<1> QED
  BY <1>3, <1>4, <1>5 DEF AloneInv

(* A message that is selected is shared from now on, or in no other hand.   *)
LEMMA SelectKeeps ==
  ASSUME TypeOK, TypeOK', SInv, NEW r \in Runner, Select(r), NEW f \in Email, Alone(f)'
  PROVE  AloneInv(f)'
<1>1. /\ batch[r] = {} /\ outcome[r] = "none"
      /\ batch'[r] = NextBatch /\ \A q \in Runner \ {r} : batch'[q] = batch[q]
      /\ outcome' = outcome /\ mail' = mail /\ delivered' = delivered
      /\ failures' = failures /\ excuses' = excuses
      /\ overlaps'[f] = IF f \in NextBatch /\ InBatch(f) THEN overlaps[f] + 1 ELSE overlaps[f]
  BY DEF Select, TypeOK
<1>2. Alone(f) /\ ~(f \in NextBatch /\ InBatch(f))
  BY <1>1 DEF Alone, TypeOK
<1>3. AloneInv(f)
  BY <1>2 DEF SInv
<1>4. CASE f \notin NextBatch
  <2>1. \A q \in Runner : f \in batch'[q] <=> f \in batch[q]
    BY <1>1, <1>4
  <2>2. \A q \in Runner : First(q, f)' <=> First(q, f)
    BY <1>1, <1>4 DEF First
  <2>3. \A x \in {"ok", "failed"} : Answered(f, x)' <=> Answered(f, x)
    BY <1>1, <2>2 DEF Answered
  <2> QED
    BY <1>1, <1>3, <2>1, <2>3, OthersKept
<1>5. CASE f \in NextBatch
  <2>1. ~InBatch(f) /\ Status(f) = "pending"
    BY <1>2, <1>5 DEF NextBatch, Waiting
  <2>2. \A q \in Runner : f \in batch'[q] => q = r
    BY <1>1, <2>1 DEF InBatch
  <2>3. \A x \in {"ok", "failed"} : ~Answered(f, x)' /\ ~Answered(f, x)
    BY <1>1, <2>1, <2>2 DEF Answered, First, InBatch
  <2>4. delivered[f] <= excuses[f] /\ mail[f].attempts <= failures[f]
    BY <1>3, <2>1, <2>3 DEF AloneInv, RepeatInv, FailInv
  <2>5. delivered[f] \in Nat /\ excuses[f] \in Nat
    BY DEF TypeOK
  <2> QED
    BY <1>1, <2>1, <2>2, <2>3, <2>4, <2>5
       DEF AloneInv, BatchInv, RepeatInv, FailInv, Status, InBatch
<1> QED
  BY <1>4, <1>5

(* The only run that has a message is the one that knows its result.        *)
LEMMA OneHand ==
  ASSUME NEW e \in Email, BatchInv(e), NEW r \in Runner, e \in batch[r]
  PROVE  /\ InBatch(e)
         /\ \A q \in Runner : e \in batch[q] => q = r
         /\ \A x : Answered(e, x) <=> First(r, e) /\ outcome[r] = x
BY DEF BatchInv, InBatch, Answered, First

LEMMA SendKeeps ==
  ASSUME TypeOK, TypeOK', SInv, NEW r \in Runner, NEW e \in Email, Send(r, e),
         NEW f \in Email, Alone(f)'
  PROVE  AloneInv(f)'
<1>1. /\ mail' = mail /\ batch' = batch /\ overlaps' = overlaps
      /\ First(r, e) /\ e \in batch[r] /\ outcome[r] = "none"
      /\ \A q \in Runner, g \in Email : First(q, g)' <=> First(q, g)
      /\ \A q \in Runner \ {r} : outcome'[q] = outcome[q]
  <2>1. \E x \in {"ok", "failed"} : outcome' = [outcome EXCEPT ![r] = x]
    BY DEF Send
  <2> QED
    BY <2>1 DEF Send, First, TypeOK
<1>2. Alone(f) /\ AloneInv(f)
  BY <1>1 DEF SInv, Alone
<1>3. CASE f # e
  <2>1. ~First(r, f)
    BY <1>1, <1>3, FirstIsOne
  <2>2. \A x \in {"ok", "failed"} : Answered(f, x)' <=> Answered(f, x)
    BY <1>1, <2>1 DEF Answered
  <2>3. /\ delivered'[f] = delivered[f] /\ failures'[f] = failures[f]
        /\ excuses'[f] = excuses[f]
    BY <1>3 DEF Send, OneMore, TypeOK
  <2> QED
    BY <1>1, <1>2, <2>2, <2>3, OthersKept
<1>4. CASE f = e
  <2>1. /\ InBatch(e) /\ \A q \in Runner : e \in batch[q] => q = r
        /\ \A x : Answered(e, x) <=> outcome[r] = x
    BY <1>1, <1>2, <1>4, OneHand DEF AloneInv
  <2>2. /\ InBatch(e)' /\ \A x : Answered(e, x)' <=> outcome'[r] = x
    BY <1>1, <2>1 DEF InBatch, Answered, First
  <2>3. delivered[e] <= excuses[e] /\ Status(e) \in {"pending", "deleted"}
    BY <1>1, <1>2, <1>4, <2>1 DEF AloneInv, RepeatInv, BatchInv
  <2>4. \/ /\ outcome'[r] = "ok" /\ delivered'[e] = delivered[e] + 1
           /\ excuses'[e] = excuses[e] /\ failures'[e] = failures[e]
        \/ /\ outcome'[r] = "failed" /\ delivered'[e] = delivered[e]
           /\ excuses'[e] = excuses[e] /\ failures'[e] = failures[e] + 1
        \/ /\ outcome'[r] = "failed" /\ delivered'[e] = delivered[e] + 1
           /\ excuses'[e] = excuses[e] + 1 /\ failures'[e] = failures[e] + 1
    BY DEF Send, OneMore, TypeOK
  <2>5. /\ delivered[e] \in Nat /\ excuses[e] \in Nat /\ failures[e] \in Nat
        /\ mail[e].attempts \in Nat
    BY DEF TypeOK
  <2>6. BatchInv(e)'
    BY <1>1, <2>1, <2>3 DEF BatchInv, Status
  <2>7. RepeatInv(e)'
    BY <1>1, <2>2, <2>3, <2>4, <2>5 DEF RepeatInv, Status
  <2>8. FailInv(e)'
    BY <1>1, <1>2, <1>4, <2>2, <2>3, <2>4, <2>5 DEF AloneInv, FailInv, Status
  <2> QED
    BY <1>4, <2>6, <2>7, <2>8 DEF AloneInv
<1> QED
  BY <1>3, <1>4

(* The messages of a run that puts one of its batch aside, or all of them.   *)
LEMMA AsideKeeps ==
  ASSUME TypeOK, TypeOK', SInv, NEW r \in Runner, NEW e \in Email, PutAside(r, e),
         NEW f \in Email, Alone(f)', failures' = failures,
         f # e => mail'[f] = mail[f] /\ excuses'[f] = excuses[f],
         f = e => AloneInv(e)'
  PROVE  AloneInv(f)'
<1>1. /\ First(r, e) /\ overlaps' = overlaps /\ delivered' = delivered
      /\ batch'[r] \subseteq batch[r] /\ outcome'[r] = "none"
      /\ \A q \in Runner \ {r} : batch'[q] = batch[q] /\ outcome'[q] = outcome[q]
  BY DEF PutAside, TypeOK
<1>2. CASE f # e
  <2>1. ~First(r, f)
    BY <1>1, <1>2, FirstIsOne
  <2>2. \A x \in {"ok", "failed"} : Answered(f, x)' <=> Answered(f, x)
    BY <1>1, <2>1 DEF Answered, First
  <2>3. AloneInv(f)
    BY <1>1 DEF SInv, Alone
  <2> QED
    BY <1>1, <1>2, <2>2, <2>3, OthersKept
<1> QED
  BY <1>2

(* The message itself, which nobody has in hand any more.                   *)
LEMMA DoneWith ==
  ASSUME TypeOK, NEW r \in Runner, NEW e \in Email, AloneInv(e), PutAside(r, e)
  PROVE  /\ ~InBatch(e)' /\ \A x : ~Answered(e, x)'
         /\ \A x : Answered(e, x) <=> outcome[r] = x
         /\ Status(e) \in {"pending", "deleted"}
         /\ outcome[r] # "ok" => delivered[e] <= excuses[e]
<1>1. /\ First(r, e) /\ e \in batch[r] /\ e \notin batch'[r]
      /\ \A q \in Runner \ {r} : batch'[q] = batch[q]
  BY DEF PutAside, First, TypeOK
<1>2. /\ InBatch(e) /\ \A q \in Runner : e \in batch[q] => q = r
      /\ \A x : Answered(e, x) <=> outcome[r] = x
  BY <1>1, OneHand DEF AloneInv
<1>3. ~InBatch(e)' /\ \A x : ~Answered(e, x)'
  BY <1>1, <1>2 DEF InBatch, Answered, First
<1> QED
  BY <1>2, <1>3 DEF AloneInv, BatchInv, RepeatInv

LEMMA RecordKeeps ==
  ASSUME TypeOK, TypeOK', SInv, NEW r \in Runner, NEW e \in Email, Record(r, e),
         NEW f \in Email, Alone(f)'
  PROVE  AloneInv(f)'
<1>1. /\ PutAside(r, e) /\ outcome[r] \in {"ok", "failed"}
      /\ UNCHANGED <<delivered, failures, excuses, overlaps>>
      /\ mail'[e] = IF Exists(e) THEN Updated(mail[e], outcome[r]) ELSE mail[e]
      /\ f # e => mail'[f] = mail[f]
  BY DEF Record, Dequeue, PutAside, history, TypeOK
<1>2. /\ delivered[e] \in Nat /\ excuses[e] \in Nat /\ failures[e] \in Nat
      /\ mail[e].attempts \in Nat
  BY DEF TypeOK
<1>3. ASSUME f = e PROVE AloneInv(e)'
  <2>1. AloneInv(e)
    BY <1>1, <1>3 DEF SInv, Alone
  <2>2. /\ ~InBatch(e)' /\ \A x : ~Answered(e, x)'
        /\ \A x : Answered(e, x) <=> outcome[r] = x
        /\ Status(e) \in {"pending", "deleted"}
        /\ outcome[r] # "ok" => delivered[e] <= excuses[e]
    BY <1>1, <2>1, DoneWith
  <2>3. BatchInv(e)'
    BY <2>2 DEF BatchInv, InBatch
  <2>4. RepeatInv(e)'
    <3>1. Status(e)' = "pending" => outcome[r] # "ok"
      BY <1>1, <1>2, <2>2, UpdatedTyped DEF Exists, Status, Statuses
    <3>2. Status(e)' # "none"
      BY <1>1, <1>2, <2>2, UpdatedTyped DEF Status, Statuses
    <3> QED
      BY <1>1, <2>1, <2>2, <3>1, <3>2 DEF AloneInv, RepeatInv
  <2>5. FailInv(e)'
    <3>1. CASE Status(e) = "deleted"
      BY <1>1, <3>1 DEF FailInv, Exists, Status, Statuses
    <3>2. CASE Status(e) = "pending" /\ outcome[r] = "ok"
      <4>1. mail'[e].status = "sent"
        BY <1>1, <1>2, <3>2, UpdatedTyped DEF Exists, Status, Statuses
      <4> QED
        BY <4>1 DEF FailInv, Status
    <3>3. CASE Status(e) = "pending" /\ outcome[r] = "failed"
      <4>1. mail[e].attempts + 1 <= failures[e]
        BY <2>1, <2>2, <3>3 DEF AloneInv, FailInv
      <4>2. /\ mail'[e].attempts = mail[e].attempts + 1
            /\ mail'[e].status = "error" => mail[e].attempts + 1 >= MaxAttempts
        BY <1>1, <1>2, <3>3, UpdatedTyped DEF Exists, Status, Statuses
      <4> QED
        BY <1>1, <1>2, <2>2, <4>1, <4>2, EmailQueueAssumption DEF FailInv, Status
    <3> QED
      BY <1>1, <2>2, <3>1, <3>2, <3>3
  <2> QED
    BY <2>3, <2>4, <2>5 DEF AloneInv
<1> QED
  BY <1>1, <1>3, AsideKeeps

(* A result that gets lost leaves the row as it was. *)
LEMMA LossKeeps ==
  ASSUME TypeOK, TypeOK', SInv, NEW r \in Runner, NEW e \in Email, PutAside(r, e),
         Unrecorded(r, e), mail' = mail, failures' = failures,
         NEW f \in Email, Alone(f)'
  PROVE  AloneInv(f)'
<1>1. /\ First(r, e) /\ delivered' = delivered /\ overlaps' = overlaps
      /\ excuses'[f] = IF f = e /\ outcome[r] = "ok" THEN excuses[f] + 1 ELSE excuses[f]
      /\ delivered[e] \in Nat /\ excuses[e] \in Nat
  BY DEF Unrecorded, OneMore, PutAside, TypeOK
<1>2. ASSUME f = e PROVE AloneInv(e)'
  <2>1. AloneInv(e)
    BY <1>1, <1>2 DEF SInv, Alone
  <2>2. /\ ~InBatch(e)' /\ \A x : ~Answered(e, x)'
        /\ Status(e) \in {"pending", "deleted"}
        /\ outcome[r] # "ok" => delivered[e] <= excuses[e]
    BY <2>1, DoneWith
  <2>3. BatchInv(e)'
    BY <2>2 DEF BatchInv, InBatch
  <2>4. RepeatInv(e)'
    BY <1>1, <1>2, <2>1, <2>2 DEF AloneInv, RepeatInv, Status
  <2>5. FailInv(e)'
    BY <2>1, <2>2 DEF AloneInv, FailInv, Status
  <2> QED
    BY <2>3, <2>4, <2>5 DEF AloneInv
<1> QED
  BY <1>1, <1>2, AsideKeeps

LEMMA StepAlone ==
  ASSUME TypeOK, TypeOK', SInv, [Next]_vars
  PROVE  SInv'
<1> SUFFICES ASSUME NEW f \in Email, Alone(f)' PROVE AloneInv(f)'
  BY DEF SInv
<1>1. ASSUME NEW e \in Email, Enqueue(e) \/ Requeue(e) \/ Delete(e) PROVE AloneInv(f)'
  <2>1. AloneInv(f)
    BY <1>1 DEF SInv, Alone, Enqueue, Requeue, Delete, history
  <2> QED
    BY <1>1, <2>1, AdminKeeps DEF Enqueue, Requeue, Delete, OneMore, history, TypeOK
<1>2. ASSUME NEW status \in Statuses, NEW last \in Email, Purge(status, last)
      PROVE  AloneInv(f)'
  <2>1. AloneInv(f)
    BY <1>2 DEF SInv, Alone, Purge, history
  <2> QED
    BY <1>2, <2>1, AdminKeeps DEF Purge, history
<1>3. ASSUME NEW r \in Runner, Select(r) PROVE AloneInv(f)'
  BY <1>3, SelectKeeps
<1>4. ASSUME NEW r \in Runner, NEW e \in Email, Send(r, e) PROVE AloneInv(f)'
  BY <1>4, SendKeeps
<1>5. ASSUME NEW r \in Runner, NEW e \in Email, Record(r, e) PROVE AloneInv(f)'
  BY <1>5, RecordKeeps
<1>6. ASSUME NEW r \in Runner, NEW e \in Email, RecordFail(r, e) PROVE AloneInv(f)'
  <2>1. /\ PutAside(r, e) /\ Unrecorded(r, e)
        /\ mail' = mail /\ failures' = failures
    BY <1>6 DEF RecordFail, Dequeue, PutAside
  <2> QED
    BY <2>1, LossKeeps
<1>7. ASSUME NEW r \in Runner, Crash(r) PROVE AloneInv(f)'
  <2>1. PICK e \in Email : First(r, e) /\ Unrecorded(r, e)
    BY <1>7 DEF Crash
  <2>2. PutAside(r, e) /\ mail' = mail /\ failures' = failures
    BY <1>7, <2>1 DEF Crash, PutAside
  <2> QED
    BY <2>1, <2>2, LossKeeps
<1>8. CASE UNCHANGED vars \/ Reconfigure
  <2>1. AloneInv(f)
    BY <1>8 DEF SInv, Alone, vars, history, Reconfigure
  <2> QED
    BY <1>8, <2>1, AdminKeeps DEF vars, history, Reconfigure
<1> QED
  BY <1>1, <1>2, <1>3, <1>4, <1>5, <1>6, <1>7, <1>8 DEF Next, Run

LEMMA AloneInvariant == Spec => []SInv
<1>1. Init => SInv
  BY EmailQueueAssumption
     DEF Init, SInv, AloneInv, BatchInv, RepeatInv, FailInv, Status, InBatch, Answered, NotYet
<1>2. TypeOK /\ TypeOK' /\ SInv /\ [Next]_vars => SInv'
  BY StepAlone
<1> QED
  BY <1>1, <1>2, TypeCorrect, PTL DEF Spec

(* A message that runs have not shared, whatever they did with others, and   *)
(* that is marked "error" failed as often as the documentation says.        *)
THEOREM ErrorsAreExhausted == Spec => []ErrorMeansExhausted
<1>1. SInv => ErrorMeansExhausted
  BY DEF SInv, AloneInv, FailInv, ErrorMeansExhausted
<1> QED
  BY <1>1, AloneInvariant, PTL

(* Only the administrator undoes "sent" on a message runs have not shared.   *)
THEOREM SentIsFinal == Spec => SentStays
<1> DEFINE Kept == \A e \in Email : Status(e) = "sent" /\ Status(e)' # "sent" /\ Alone(e)
                     => mail'[e] = Gone \/ requeues' = requeues + 1
<1>1. SInv /\ TypeOK /\ [Next]_vars => [Kept]_vars
  <2> SUFFICES ASSUME SInv, TypeOK, Next PROVE Kept
    OBVIOUS
  <2> USE DEF Status, TypeOK
  <2>1. ASSUME NEW e \in Email, Enqueue(e) \/ Requeue(e) \/ Delete(e) PROVE Kept
    BY <2>1 DEF Enqueue, Requeue, Delete
  <2>2. ASSUME NEW status \in Statuses, NEW last \in Email, Purge(status, last) PROVE Kept
    BY <2>2 DEF Purge
  <2>3. ASSUME NEW r \in Runner, NEW e \in Email, Record(r, e) PROVE Kept
    <3>1. Alone(e) => Status(e) \in {"pending", "deleted"}
      BY <2>3 DEF Record, First, SInv, AloneInv, BatchInv, InBatch
    <3> QED
      BY <2>3, <3>1 DEF Record
  <2>4. CASE mail' = mail
    BY <2>4
  <2> QED
    BY <2>1, <2>2, <2>3, <2>4 DEF Next, Run, Reconfigure, Select, Send, RecordFail, Crash
<1> QED
  BY <1>1, AloneInvariant, TypeCorrect, PTL DEF Spec, SentStays

-----------------------------------------------------------------------------
(* Runs that do not overlap *)

NoOverlap == \A r, q \in Runner : r = q

AllAlone == \A e \in Email : Alone(e)

(* With a schedule without overlaps a message is delivered again only when   *)
(* its delivery was reported failed, could not be recorded, or was asked for. *)
THEOREM RepeatsAreExcused == ASSUME NoOverlap PROVE Spec => []RepeatsHaveAReason
<1>1. Init => AllAlone
  BY DEF Init, AllAlone, Alone
<1>2. TypeOK /\ AllAlone /\ [Next]_vars => AllAlone'
  <2> SUFFICES ASSUME TypeOK, AllAlone, [Next]_vars PROVE AllAlone'
    OBVIOUS
  <2>1. ASSUME NEW r \in Runner, Select(r) PROVE overlaps' = overlaps
    <3>1. \A e \in Email : ~InBatch(e)
      BY <2>1 DEF NoOverlap, InBatch, Select
    <3> QED
      BY <2>1, <3>1 DEF Select, TypeOK
  <2>2. overlaps' = overlaps
    BY <2>1 DEF Next, Run, Enqueue, Requeue, Delete, Purge, Reconfigure, Send, Record,
                RecordFail, Crash, vars, history
  <2> QED
    BY <2>2 DEF AllAlone, Alone
<1>3. TypeOK /\ AllAlone /\ CopiesAreAccounted => RepeatsHaveAReason
  BY DEF TypeOK, AllAlone, Alone, CopiesAreAccounted, RepeatsHaveAReason
<1> QED
  BY <1>1, <1>2, <1>3, TypeCorrect, CopiesAreBounded, PTL DEF Spec

-----------------------------------------------------------------------------
(* The queue is an outbox *)

StatusOf == [e \in Email |-> IF Alone(e) THEN Status(e) ELSE "shared"]

LEMMA InitOutbox == Init => Promise!OutboxInit
BY DEF Init, Promise!OutboxInit, Status, NotYet, Alone, Promised

(* A step that turns the status of one message and counts nothing.          *)
LEMMA StatusTurns ==
  ASSUME TypeOK, NEW e \in Email, Alone(e), NEW m, mail' = [mail EXCEPT ![e] = m],
         overlaps' = overlaps
  PROVE  StatusOf' = [StatusOf EXCEPT ![e] = m.status]
BY DEF TypeOK, StatusOf, Status, Alone

(* Of a message that is shared nothing is promised.                         *)
LEMMA SharedTurns ==
  ASSUME TypeOK, NEW e \in Email, ~Alone(e), overlaps' = overlaps,
         \A f \in Email \ {e} : mail'[f] = mail[f]
  PROVE  StatusOf' = StatusOf
BY DEF StatusOf, Status, Alone

(* What is counted of one message counts if it is alone.                    *)
LEMMA CountStays ==
  ASSUME overlaps' = overlaps
  PROVE  /\ delivered' = delivered => Promised(delivered)' = Promised(delivered)
         /\ failures' = failures => Promised(failures)' = Promised(failures)
         /\ excuses' = excuses => Promised(excuses)' = Promised(excuses)
BY DEF Promised, Alone

LEMMA CountTurns ==
  ASSUME TypeOK, NEW e \in Email, overlaps' = overlaps, Alone(e)
  PROVE  /\ delivered' = OneMore(delivered, e)
              => Promised(delivered)' = Promise!More(Promised(delivered), e)
         /\ failures' = OneMore(failures, e)
              => Promised(failures)' = Promise!More(Promised(failures), e)
         /\ excuses' = OneMore(excuses, e)
              => Promised(excuses)' = Promise!More(Promised(excuses), e)
BY DEF TypeOK, Promised, Alone, OneMore, Promise!More

LEMMA SharedCount ==
  ASSUME TypeOK, NEW e \in Email, overlaps' = overlaps, ~Alone(e)
  PROVE  /\ delivered' = OneMore(delivered, e) => Promised(delivered)' = Promised(delivered)
         /\ failures' = OneMore(failures, e) => Promised(failures)' = Promised(failures)
         /\ excuses' = OneMore(excuses, e) => Promised(excuses)' = Promised(excuses)
BY DEF TypeOK, Promised, Alone, OneMore

(* Nothing that is promised changes.                                        *)
Same == UNCHANGED <<StatusOf, Promised(delivered), Promised(failures), Promised(excuses)>>

LEMMA SameIsStutter == Same => UNCHANGED Promise!outboxVars
BY DEF Same, StatusOf, Promise!outboxVars

LEMMA RecordIsOutbox ==
  ASSUME TypeOK, SInv, OkWasDelivered, NEW r \in Runner, NEW e \in Email, Record(r, e)
  PROVE  [Promise!OutboxNext]_(Promise!outboxVars)
<1>1. /\ PutAside(r, e) /\ First(r, e) /\ outcome[r] \in {"ok", "failed"}
      /\ mail' = [mail EXCEPT ![e] = IF Exists(e) THEN Updated(mail[e], outcome[r]) ELSE mail[e]]
      /\ UNCHANGED <<delivered, failures, excuses, overlaps>>
      /\ mail[e].attempts \in Nat
  BY DEF Record, Dequeue, PutAside, history, TypeOK
<1>2. UNCHANGED <<Promised(delivered), Promised(failures), Promised(excuses)>>
  BY <1>1, CountStays
<1>3. CASE ~Alone(e)
  <2>1. StatusOf' = StatusOf
    BY <1>1, <1>3, SharedTurns DEF TypeOK
  <2> QED
    BY <1>2, <2>1, SameIsStutter DEF Same
<1>4. CASE ~Exists(e)
  <2>1. mail' = mail
    BY <1>1, <1>4 DEF TypeOK
  <2>2. StatusOf' = StatusOf
    BY <1>1, <2>1 DEF StatusOf, Status, Alone
  <2> QED
    BY <1>2, <2>2, SameIsStutter DEF Same
<1>5. CASE Alone(e) /\ Exists(e)
  <2> DEFINE m == Updated(mail[e], outcome[r])
  <2>1. AloneInv(e) /\ Answered(e, outcome[r])
    BY <1>1, <1>5, DoneWith DEF SInv
  <2>2. Status(e) = "pending" /\ StatusOf[e] = "pending"
    BY <1>1, <1>5, <2>1, DoneWith DEF Exists, Statuses, StatusOf
  <2>3. StatusOf' = [StatusOf EXCEPT ![e] = m.status]
    BY <1>1, <1>5, StatusTurns
  <2>4. CASE outcome[r] = "ok"
    <3>1. m.status = "sent"
      BY <1>1, <2>4, UpdatedTyped
    <3>2. Promised(delivered)[e] > 0
      BY <1>1, <1>5, <2>4 DEF OkWasDelivered, Promised
    <3>3. Promise!Confirm(e)
      BY <1>2, <2>2, <2>3, <3>1, <3>2 DEF Promise!Confirm, Promise!Turn, StatusOf
    <3> QED
      BY <3>3 DEF Promise!OutboxNext
  <2>5. CASE outcome[r] = "failed" /\ m.status = "error"
    <3>1. mail[e].attempts + 1 >= MaxAttempts
      BY <1>1, <2>5, UpdatedTyped
    <3>2. mail[e].attempts + 1 <= failures[e]
      BY <2>1, <2>2, <2>5 DEF AloneInv, FailInv
    <3>3. Promised(failures)[e] >= MaxAttempts
      BY <1>1, <1>5, <3>1, <3>2, EmailQueueAssumption DEF TypeOK, Promised
    <3>4. Promise!Abandon(e)
      BY <1>2, <2>2, <2>3, <2>5, <3>3 DEF Promise!Abandon, Promise!Turn, StatusOf
    <3> QED
      BY <3>4 DEF Promise!OutboxNext
  <2>6. CASE outcome[r] = "failed" /\ m.status # "error"
    <3>1. m.status = "pending"
      BY <1>1, <2>6 DEF Updated
    <3>2. StatusOf' = StatusOf
      BY <2>2, <2>3, <3>1 DEF StatusOf
    <3> QED
      BY <1>2, <3>2, SameIsStutter DEF Same
  <2> QED
    BY <1>1, <2>4, <2>5, <2>6
<1> QED
  BY <1>3, <1>4, <1>5

LEMMA SendIsOutbox ==
  ASSUME TypeOK, SInv, NEW r \in Runner, NEW e \in Email, Send(r, e)
  PROVE  [Promise!OutboxNext]_(Promise!outboxVars)
<1>1. /\ First(r, e) /\ e \in batch[r] /\ outcome[r] = "none" /\ mail' = mail
      /\ overlaps' = overlaps
  BY DEF Send, First
<1>2. UNCHANGED StatusOf
  BY <1>1 DEF StatusOf, Status, Alone
<1>3. CASE Alone(e)
  <2>1. AloneInv(e)
    BY <1>3 DEF SInv
  <2>2. InBatch(e) /\ ~Answered(e, "ok")
    BY <1>1, <2>1, OneHand DEF AloneInv
  <2>3. StatusOf[e] \in {"pending", "deleted"} /\ delivered[e] <= excuses[e]
    BY <1>3, <2>1, <2>2 DEF AloneInv, BatchInv, RepeatInv, StatusOf
  <2>4. Promise!Underway(e) /\ Promised(delivered)[e] <= Promised(excuses)[e]
    BY <1>3, <2>3 DEF Promise!Underway, StatusOf, Promised
  <2>5. Promise!HandOver(e) \/ Promise!HandOverUnheard(e) \/ Promise!Miss(e)
    BY <1>1, <1>2, <1>3, <2>4, CountTurns, CountStays
       DEF Send, StatusOf, Promise!HandOver, Promise!HandOverUnheard, Promise!Miss
  <2> QED
    BY <2>5 DEF Promise!OutboxNext
<1>4. CASE ~Alone(e)
  <2>1. Same
    BY <1>1, <1>2, <1>4, SharedCount, CountStays DEF Same, Send
  <2> QED
    BY <2>1, SameIsStutter
<1> QED
  BY <1>3, <1>4

(* A result that gets lost is forgotten, if it was a delivery.              *)
LEMMA LossIsOutbox ==
  ASSUME TypeOK, SInv, OkWasDelivered, NEW r \in Runner, NEW e \in Email, PutAside(r, e),
         Unrecorded(r, e), UNCHANGED <<mail, delivered, failures>>
  PROVE  [Promise!OutboxNext]_(Promise!outboxVars)
<1>1. /\ First(r, e) /\ overlaps' = overlaps
      /\ UNCHANGED <<StatusOf, Promised(delivered), Promised(failures)>>
  BY CountStays DEF PutAside, StatusOf, Status, Alone
<1>2. CASE outcome[r] = "ok" /\ Alone(e)
  <2>1. Status(e) \in {"pending", "deleted"} /\ delivered[e] > 0
    BY <1>1, <1>2, DoneWith DEF SInv, OkWasDelivered
  <2>2. Promise!Underway(e) /\ Promised(delivered)[e] > 0
    BY <1>2, <2>1 DEF Promise!Underway, Promised
  <2>3. Promised(excuses)' = Promise!More(Promised(excuses), e)
    BY <1>1, <1>2, CountTurns DEF Unrecorded
  <2>4. Promise!Forget(e)
    BY <1>1, <2>2, <2>3 DEF StatusOf, Promise!Forget
  <2> QED
    BY <2>4 DEF Promise!OutboxNext
<1>3. CASE ~(outcome[r] = "ok" /\ Alone(e))
  <2>1. Same
    BY <1>1, <1>3, CountStays, SharedCount DEF Same, Unrecorded
  <2> QED
    BY <2>1, SameIsStutter
<1> QED
  BY <1>2, <1>3

LEMMA AdminIsOutbox ==
  ASSUME TypeOK, NEW e \in Email, Enqueue(e) \/ Requeue(e) \/ Delete(e)
  PROVE  [Promise!OutboxNext]_(Promise!outboxVars)
<1>0. /\ Queued.status = "pending" /\ Gone.status = "deleted"
      /\ overlaps' = overlaps /\ delivered' = delivered /\ failures' = failures
      /\ \A f \in Email \ {e} : mail'[f] = mail[f]
      /\ UNCHANGED <<Promised(delivered), Promised(failures)>>
  BY CountStays DEF Queued, Gone, Enqueue, Requeue, Delete, history, TypeOK
<1>1. CASE ~Alone(e)
  <2>1. StatusOf' = StatusOf
    BY <1>0, <1>1, SharedTurns
  <2>2. Promised(excuses)' = Promised(excuses)
    BY <1>0, <1>1, CountStays, SharedCount DEF Enqueue, Requeue, Delete, history
  <2> QED
    BY <1>0, <2>1, <2>2, SameIsStutter DEF Same
<1>2. CASE Enqueue(e) /\ Alone(e)
  <2>1. StatusOf' = [StatusOf EXCEPT ![e] = "pending"] /\ StatusOf[e] = "none"
    <3>1. mail' = [mail EXCEPT ![e] = Queued] /\ Status(e) = "none"
      BY <1>2 DEF Enqueue
    <3>2. StatusOf' = [StatusOf EXCEPT ![e] = Queued.status]
      BY <1>0, <1>2, <3>1, StatusTurns
    <3> QED
      BY <1>0, <1>2, <3>1, <3>2 DEF StatusOf
  <2>2. Promised(excuses)' = Promised(excuses)
    BY <1>0, <1>2, CountStays DEF Enqueue, history
  <2>3. Promise!Post(e)
    BY <1>0, <2>1, <2>2 DEF StatusOf, Promise!Post, Promise!Turn
  <2> QED
    BY <2>3 DEF Promise!OutboxNext
<1>3. CASE Requeue(e) /\ Alone(e)
  <2>1. StatusOf' = [StatusOf EXCEPT ![e] = "pending"]
    <3>1. mail' = [mail EXCEPT ![e] = Queued]
      BY <1>3 DEF Requeue
    <3>2. StatusOf' = [StatusOf EXCEPT ![e] = Queued.status]
      BY <1>0, <1>3, <3>1, StatusTurns
    <3> QED
      BY <1>0, <1>3, <3>1, <3>2
  <2>2. StatusOf[e] \in {"pending", "sent", "error"}
    BY <1>3 DEF Requeue, Exists, Statuses, StatusOf
  <2>3. Promised(excuses)' = Promise!More(Promised(excuses), e)
    BY <1>0, <1>3, CountTurns DEF Requeue
  <2>4. Promise!Requeue(e)
    BY <1>0, <2>1, <2>2, <2>3 DEF StatusOf, Promise!Requeue, Promise!Turn
  <2> QED
    BY <2>4 DEF Promise!OutboxNext
<1>4. CASE Delete(e) /\ Alone(e)
  <2>1. StatusOf' = [StatusOf EXCEPT ![e] = "deleted"]
    <3>1. mail' = [mail EXCEPT ![e] = Gone]
      BY <1>4 DEF Delete
    <3>2. StatusOf' = [StatusOf EXCEPT ![e] = Gone.status]
      BY <1>0, <1>4, <3>1, StatusTurns
    <3> QED
      BY <1>0, <1>4, <3>1, <3>2
  <2>2. StatusOf' = [f \in Email |-> IF f \in {e} THEN "deleted" ELSE StatusOf[f]]
    BY <2>1 DEF StatusOf
  <2>3. StatusOf[e] \in {"pending", "sent", "error"}
    BY <1>4 DEF Delete, Exists, Statuses, StatusOf
  <2>4. Promised(excuses)' = Promised(excuses)
    BY <1>0, <1>4, CountStays DEF Delete, history
  <2>5. Promise!Remove({e})
    BY <1>0, <2>2, <2>3, <2>4 DEF StatusOf, Promise!Remove
  <2> QED
    BY <2>5 DEF Promise!OutboxNext
<1> QED
  BY <1>1, <1>2, <1>3, <1>4

LEMMA PurgeIsOutbox ==
  ASSUME TypeOK, NEW status \in Statuses, NEW last \in Email, Purge(status, last)
  PROVE  Promise!OutboxNext
<1> DEFINE gone == {e \in Email : e <= last /\ Status(e) = status /\ Alone(e)}
<1>1. \A e \in gone : StatusOf[e] \in {"pending", "sent", "error"}
  BY DEF StatusOf, Statuses
<1>2. StatusOf' = [e \in Email |-> IF e \in gone THEN "deleted" ELSE StatusOf[e]]
  BY DEF Purge, StatusOf, Status, Gone, Alone, history
<1>3. UNCHANGED <<Promised(delivered), Promised(failures), Promised(excuses)>>
  BY CountStays DEF Purge, history
<1>4. Promise!Remove(gone)
  BY <1>1, <1>2, <1>3 DEF StatusOf, Promise!Remove
<1> QED
  BY <1>4 DEF Promise!OutboxNext

(* A run that selects what another one has in hand shares it.               *)
LEMMA SelectIsOutbox ==
  ASSUME TypeOK, NEW r \in Runner, Select(r)
  PROVE  Promise!OutboxNext
<1> DEFINE both == {e \in Email : e \in NextBatch /\ InBatch(e) /\ Alone(e)}
<1>1. /\ mail' = mail
      /\ UNCHANGED <<delivered, failures, excuses>>
      /\ \A e \in Email : overlaps'[e] = IF e \in NextBatch /\ InBatch(e)
                                        THEN overlaps[e] + 1 ELSE overlaps[e]
  BY DEF Select
<1>2. \A e \in Email : Alone(e)' <=> Alone(e) /\ e \notin both
  BY <1>1 DEF Alone, TypeOK
<1>3. \A e \in both : StatusOf[e] = "pending"
  BY DEF StatusOf, NextBatch, Waiting
<1>4. StatusOf' = [e \in Email |-> IF e \in both THEN "shared" ELSE StatusOf[e]]
  BY <1>1, <1>2 DEF StatusOf, Status
<1>5. /\ Promised(delivered)' = [e \in Email |-> IF e \in both THEN 0 ELSE Promised(delivered)[e]]
      /\ Promised(failures)' = [e \in Email |-> IF e \in both THEN 0 ELSE Promised(failures)[e]]
      /\ Promised(excuses)' = [e \in Email |-> IF e \in both THEN 0 ELSE Promised(excuses)[e]]
  BY <1>1, <1>2 DEF Promised
<1>6. Promise!Share(both)
  BY <1>3, <1>4, <1>5 DEF StatusOf, Promise!Share
<1> QED
  BY <1>6 DEF Promise!OutboxNext

(* Every step of the queue is a step of the outbox, or none.                *)
LEMMA StepOutbox ==
  ASSUME TypeOK, SInv, OkWasDelivered, [Next]_vars
  PROVE  [Promise!OutboxNext]_(Promise!outboxVars)
<1>1. ASSUME NEW e \in Email, Enqueue(e) \/ Requeue(e) \/ Delete(e)
      PROVE  [Promise!OutboxNext]_(Promise!outboxVars)
  BY <1>1, AdminIsOutbox
<1>2. ASSUME NEW status \in Statuses, NEW last \in Email, Purge(status, last)
      PROVE  Promise!OutboxNext
  BY <1>2, PurgeIsOutbox
<1>3. ASSUME NEW r \in Runner, NEW e \in Email, Send(r, e)
      PROVE  [Promise!OutboxNext]_(Promise!outboxVars)
  BY <1>3, SendIsOutbox
<1>4. ASSUME NEW r \in Runner, NEW e \in Email, Record(r, e)
      PROVE  [Promise!OutboxNext]_(Promise!outboxVars)
  BY <1>4, RecordIsOutbox
<1>5. ASSUME NEW r \in Runner, NEW e \in Email, RecordFail(r, e)
      PROVE  [Promise!OutboxNext]_(Promise!outboxVars)
  <2>1. /\ PutAside(r, e) /\ Unrecorded(r, e)
        /\ UNCHANGED <<mail, delivered, failures>>
    BY <1>5 DEF RecordFail, Dequeue, PutAside
  <2> QED
    BY <2>1, LossIsOutbox
<1>6. ASSUME NEW r \in Runner, Crash(r)
      PROVE  [Promise!OutboxNext]_(Promise!outboxVars)
  <2>1. PICK e \in Email : First(r, e) /\ Unrecorded(r, e)
    BY <1>6 DEF Crash
  <2>2. PutAside(r, e) /\ UNCHANGED <<mail, delivered, failures>>
    BY <1>6, <2>1 DEF Crash, PutAside
  <2> QED
    BY <2>1, <2>2, LossIsOutbox
<1>7. ASSUME NEW r \in Runner, Select(r) PROVE Promise!OutboxNext
  BY <1>7, SelectIsOutbox
<1>8. CASE UNCHANGED vars \/ Reconfigure
  <2>1. Same
    BY <1>8, CountStays DEF vars, history, Reconfigure, Same, StatusOf, Status, Alone
  <2> QED
    BY <2>1, SameIsStutter
<1> QED
  BY <1>1, <1>2, <1>3, <1>4, <1>5, <1>6, <1>7, <1>8 DEF Next, Run

(* The queue with its batches, crashes, lost answers, requeues, deletions and *)
(* overlapping runs implements the outbox, for every message until two runs  *)
(* have it in hand together.                                                *)
THEOREM QueueIsAnOutbox == Spec => ImplementsOutbox
<1>1. TypeOK /\ SInv /\ OkWasDelivered /\ [Next]_vars
        => [Promise!OutboxNext]_(Promise!outboxVars)
  BY StepOutbox
<1> QED
  BY <1>1, InitOutbox, TypeCorrect, AloneInvariant, AlwaysDelivered, PTL
     DEF Spec, ImplementsOutbox, Promise!OutboxSpec
=============================================================================
