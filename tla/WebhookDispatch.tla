-------------------------- MODULE WebhookDispatch --------------------------
(***************************************************************************)
(* The webhook stream and its dispatchers (workers/webhook_dispatcher.py). *)
(* The gateway and the workers append one event for each answered task;    *)
(* dispatchers of one consumer group read events in batches, POST each to  *)
(* the client, and append a failed one to the stream again.                *)
(*                                                                         *)
(* An entry of the stream has fields.  The only field anybody writes is    *)
(* "data"; the attempts of a retry are inside it.  Both places are here:   *)
(* inData is the count in the JSON, inFields the count in the entry's own  *)
(* fields, 0 when there is none.                                           *)
(***************************************************************************)
EXTENDS Naturals, Sequences, FiniteSets

CONSTANTS
  Tasks,        \* tasks whose webhook is to be delivered
  Dispatchers,  \* consumers of the group webhook_dispatchers
  Batch,        \* WEBHOOK_STREAM_BATCH
  MaxAttempts,  \* [Dispatchers -> Nat], WEBHOOK_MAX_ATTEMPTS of each process
  MaxFailures,  \* bound on failed POSTs in a behaviour
  MaxRaises,    \* bound on exceptions
  MaxCrashes    \* bound on crashes

ASSUME BatchAssumption == Batch \in Nat \ {0}
ASSUME AttemptsAssumption == MaxAttempts \in [Dispatchers -> Nat]
ASSUME BoundAssumption ==
  MaxFailures \in Nat /\ MaxRaises \in Nat /\ MaxCrashes \in Nat

VARIABLES
  events,     \* the webhook stream
  delivered,  \* the group's last-delivered-id
  pel,        \* [Dispatchers -> positions], delivered and not acknowledged
  dpc,        \* [Dispatchers -> Steps]
  dpos,       \* [Dispatchers -> position], the event in hand
  dlast,      \* [Dispatchers -> position], the last of the batch
  received,   \* [Tasks -> Nat], POSTs the client has received
  sends,      \* [Tasks -> Nat], POSTs attempted
  lostReplies,\* [Tasks -> Nat], POSTs received whose answer was lost
  dropped,    \* tasks given up after the maximum of attempts
  discarded,  \* tasks whose event an exception threw away
  failures, raises, crashes   \* so far

stream  == <<events, delivered, pel>>
control == <<dpc, dpos, dlast>>
client  == <<received, sends, lostReplies>>
ends    == <<dropped, discarded>>
budget  == <<failures, raises, crashes>>
vars    == <<stream, control, client, ends, budget>>

Entries == [task : Tasks, inData : Nat, inFields : Nat]

\* Mutant of RetryOrder: the old entry is acknowledged before the retry is added.
AckBeforeRetry == [failed |-> "ackretry", ackretry |-> "requeue", requeue |-> "sleep"]

\* After a failed POST: append the retry, acknowledge the old entry, sleep.
RetryOrder == [failed |-> "requeue", requeue |-> "ackretry", ackretry |-> "sleep"]

TrySteps  == {"send", "acksent", "count", "ackdrop", "requeue", "ackretry"}
BusySteps == TrySteps \cup {"sleep", "exceptack"}
Steps     == BusySteps \cup {"read", "down"}

TypeOK ==
  /\ events \in Seq(Entries)
  /\ delivered \in 0 .. Len(events)
  /\ pel \in [Dispatchers -> SUBSET (1 .. delivered)]
  /\ dpc \in [Dispatchers -> Steps]
  /\ dpos \in [Dispatchers -> Nat]
  /\ dlast \in [Dispatchers -> 0 .. delivered]
  /\ received \in [Tasks -> Nat]
  /\ sends \in [Tasks -> Nat]
  /\ lostReplies \in [Tasks -> Nat]
  /\ dropped \subseteq Tasks /\ discarded \subseteq Tasks
  /\ failures \in 0 .. MaxFailures
  /\ raises \in 0 .. MaxRaises
  /\ crashes \in 0 .. MaxCrashes

Init ==
  /\ events = <<>> /\ delivered = 0 /\ pel = [d \in Dispatchers |-> {}]
  /\ dpc = [d \in Dispatchers |-> "read"]
  /\ dpos = [d \in Dispatchers |-> 0]
  /\ dlast = [d \in Dispatchers |-> 0]
  /\ received = [t \in Tasks |-> 0]
  /\ sends = [t \in Tasks |-> 0]
  /\ lostReplies = [t \in Tasks |-> 0]
  /\ dropped = {} /\ discarded = {}
  /\ failures = 0 /\ raises = 0 /\ crashes = 0

-----------------------------------------------------------------------------
(* Actions.                                                                *)

Goto(d, s)  == dpc' = [dpc EXCEPT ![d] = s]
InHand(d)   == events[dpos[d]]
TaskOf(d)   == InHand(d).task
Queued(t)   == \E i \in 1 .. Len(events) : events[i].task = t

\* enqueue_webhook: one event for a task, without attempts.
Publish(t) ==
  /\ ~Queued(t)
  /\ events' = Append(events, [task |-> t, inData |-> 0, inFields |-> 0])
  /\ UNCHANGED <<delivered, pel, control, client, ends, budget>>

BatchSize ==
  IF Batch < Len(events) - delivered THEN Batch ELSE Len(events) - delivered

\* Mutant of FirstUnread: the read starts at the last delivered entry.
LastDelivered == IF delivered = 0 THEN 1 ELSE delivered

FirstUnread == delivered + 1

Read(d) ==
  LET last == delivered + BatchSize IN
  /\ dpc[d] = "read"
  /\ delivered < Len(events)
  /\ delivered' = last
  /\ pel' = [pel EXCEPT ![d] = @ \cup (FirstUnread .. last)]
  /\ dpos' = [dpos EXCEPT ![d] = FirstUnread]
  /\ dlast' = [dlast EXCEPT ![d] = last]
  /\ Goto(d, "send")
  /\ UNCHANGED <<events, client, ends, budget>>

\* Mutant of AfterSuccess: the "continue" after the acknowledgement is missing.
NoContinue == "count"

\* Where a POST answered with success leads.
AfterSuccess == "acksent"

\* deliver_webhook never raises: it reports a POST answered with success or
\* not.  One that timed out may have been received all the same.
SendOk(d) ==
  /\ dpc[d] = "send"
  /\ sends' = [sends EXCEPT ![TaskOf(d)] = @ + 1]
  /\ received' = [received EXCEPT ![TaskOf(d)] = @ + 1]
  /\ Goto(d, AfterSuccess)
  /\ UNCHANGED <<stream, dpos, dlast, lostReplies, ends, budget>>

SendFails(d) ==
  /\ dpc[d] = "send"
  /\ failures < MaxFailures
  /\ failures' = failures + 1
  /\ sends' = [sends EXCEPT ![TaskOf(d)] = @ + 1]
  /\ \/ UNCHANGED <<received, lostReplies>>
     \/ /\ received' = [received EXCEPT ![TaskOf(d)] = @ + 1]
        /\ lostReplies' = [lostReplies EXCEPT ![TaskOf(d)] = @ + 1]
  /\ Goto(d, "count")
  /\ UNCHANGED <<stream, dpos, dlast, ends, raises, crashes>>

\* The count is read from the fields of the entry.
AttemptsOf(e) == e.inFields + 1

GivesUp(d, n) == n >= MaxAttempts[d]

Count(d) ==
  /\ dpc[d] = "count"
  /\ IF GivesUp(d, AttemptsOf(InHand(d)))
     THEN /\ Goto(d, "ackdrop")
          /\ dropped' = dropped \cup {TaskOf(d)}
     ELSE /\ Goto(d, RetryOrder.failed)
          /\ UNCHANGED dropped
  /\ UNCHANGED <<stream, dpos, dlast, client, discarded, budget>>

\* The retry goes to the end of the stream as a new entry; its count is in
\* the JSON under "data" and the entry has no field "attempts".
Retry(e) == [task |-> e.task, inData |-> AttemptsOf(e), inFields |-> 0]

Requeue(d) ==
  /\ dpc[d] = "requeue"
  /\ events' = Append(events, Retry(InHand(d)))
  /\ Goto(d, RetryOrder.requeue)
  /\ UNCHANGED <<delivered, pel, dpos, dlast, client, ends, budget>>

AckInHand(d) == pel' = [pel EXCEPT ![d] = @ \ {dpos[d]}]

AckRetry(d) ==
  /\ dpc[d] = "ackretry"
  /\ AckInHand(d)
  /\ Goto(d, RetryOrder.ackretry)
  /\ UNCHANGED <<events, delivered, dpos, dlast, client, ends, budget>>

\* Mutant of NextEvent: the loop over the batch stops after its first event.
LeaveBatch(d) ==
  /\ Goto(d, "read")
  /\ UNCHANGED dpos

\* The for loop goes on, or back to XREADGROUP.
NextEvent(d) ==
  \/ /\ dpos[d] < dlast[d]
     /\ dpos' = [dpos EXCEPT ![d] = @ + 1]
     /\ Goto(d, "send")
  \/ /\ dpos[d] >= dlast[d]
     /\ Goto(d, "read")
     /\ UNCHANGED dpos

\* XACK of an event that was sent or given up.
AckAndNext(d) ==
  /\ dpc[d] \in {"acksent", "ackdrop"}
  /\ AckInHand(d)
  /\ NextEvent(d)
  /\ UNCHANGED <<events, delivered, dlast, client, ends, budget>>

\* asyncio.sleep holds up the rest of the batch, not the other dispatchers.
Wake(d) ==
  /\ dpc[d] = "sleep"
  /\ NextEvent(d)
  /\ UNCHANGED <<stream, dlast, client, ends, budget>>

\* Redis raises in one of the calls of the try; what is left is to
\* acknowledge the entry.  Before the retry is on the stream that throws the
\* event away.
Raise(d) ==
  /\ dpc[d] \in {"acksent", "ackdrop", "requeue", "ackretry"}
  /\ raises < MaxRaises
  /\ raises' = raises + 1
  /\ discarded' = IF dpc[d] = "requeue" THEN discarded \cup {TaskOf(d)} ELSE discarded
  /\ Goto(d, "exceptack")
  /\ UNCHANGED <<stream, dpos, dlast, client, dropped, failures, crashes>>

ExceptAck(d) ==
  /\ dpc[d] = "exceptack"
  /\ AckInHand(d)
  /\ NextEvent(d)
  /\ UNCHANGED <<events, delivered, dlast, client, ends, budget>>

\* The process dies, or the XACK of the except branch raises.
Crash(d) ==
  /\ dpc[d] # "down"
  /\ crashes < MaxCrashes
  /\ crashes' = crashes + 1
  /\ Goto(d, "down")
  /\ UNCHANGED <<stream, dpos, dlast, client, ends, failures, raises>>

Restart(d) ==
  /\ dpc[d] = "down"
  /\ Goto(d, "read")
  /\ UNCHANGED <<stream, dpos, dlast, client, ends, budget>>

Dispatch(d) ==
  \/ Read(d) \/ SendOk(d) \/ Count(d) \/ Requeue(d) \/ AckRetry(d)
  \/ AckAndNext(d) \/ Wake(d) \/ ExceptAck(d) \/ Restart(d)

Next ==
  \/ \E t \in Tasks : Publish(t)
  \/ \E d \in Dispatchers : Dispatch(d) \/ SendFails(d) \/ Raise(d) \/ Crash(d)

Spec == Init /\ [][Next]_vars

\* The dispatchers keep running; a client that fails only so often is in the
\* bound MaxFailures, which leaves SendOk as the only way on.
FairSpec == Spec /\ \A d \in Dispatchers : WF_vars(Dispatch(d))

-----------------------------------------------------------------------------
(* Properties.                                                             *)

Unread(i)  == i > delivered
Pending(i) == \E d \in Dispatchers : i \in pel[d]

\* An event is never silently lost: until the client has received it, it is on
\* the stream or on a pending list, or it was given up after the last attempt,
\* or an exception in the dispatcher threw it away (lines 77 and 80-82).
NothingVanishes ==
  \A t \in Tasks : Queued(t) =>
    \/ received[t] > 0
    \/ t \in dropped \cup discarded
    \/ \E i \in 1 .. Len(events) : events[i].task = t /\ (Unread(i) \/ Pending(i))

\* The client sees an event twice only when an answer of its own was lost: no
\* crash, retry or second dispatcher repeats a POST that succeeded.
DuplicatesExplained == \A t \in Tasks : received[t] <= 1 + lostReplies[t]

\* At most one copy of an event can still be sent.
Live(i) ==
  \/ Unread(i)
  \/ \E d \in Dispatchers :
       /\ dpc[d] \in BusySteps
       /\ i \in dpos[d] .. dlast[d]
       /\ i = dpos[d] => dpc[d] \in {"send", "count", "requeue"}
OneLiveCopy ==
  \A t \in Tasks :
    Cardinality({i \in 1 .. Len(events) : events[i].task = t /\ Live(i)}) <= 1

\* The dispatcher gives an event up after WEBHOOK_MAX_ATTEMPTS attempts (the
\* log line of webhook_dispatcher.py:65 and the limit of line 36).
AttemptsBounded ==
  \A t \in Tasks : \E d \in Dispatchers : sends[t] <= MaxAttempts[d]

\* Every event reaches the client or is given up, although a retry goes behind
\* all other events and its wait holds up a batch, as long as the client fails
\* finitely often and no dispatcher dies or raises.
EveryEventEnds ==
  \A t \in Tasks :
    Queued(t) ~> received[t] > 0 \/ t \in dropped \/ raises > 0 \/ crashes > 0
=============================================================================
