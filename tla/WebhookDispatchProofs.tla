------------------------ MODULE WebhookDispatchProofs ------------------------
(***************************************************************************)
(* The safety properties of WebhookDispatch for any number of tasks and    *)
(* dispatchers, any batch size and limits, failures, exceptions, crashes.  *)
(***************************************************************************)
EXTENDS WebhookDispatch, FiniteSetTheorems, TLAPS

-----------------------------------------------------------------------------
(* Types.  A dispatcher at a step of the loop has an entry in hand that    *)
(* has been delivered.                                                     *)

StreamOK ==
  /\ events \in Seq(Entries)
  /\ delivered \in 0 .. Len(events)
  /\ pel \in [Dispatchers -> SUBSET (1 .. delivered)]

ControlOK ==
  /\ dpc \in [Dispatchers -> Steps]
  /\ dpos \in [Dispatchers -> Nat]
  /\ dlast \in [Dispatchers -> 0 .. delivered]
  /\ \A d \in Dispatchers : dpc[d] \in BusySteps => dpos[d] >= 1 /\ dpos[d] <= dlast[d]

\* A dispatcher at a step of its loop has a delivered entry in hand.
BusyHasEntry ==
  \A d \in Dispatchers : dpc[d] \in BusySteps =>
    dpos[d] \in 1 .. delivered /\ InHand(d) \in Entries

ClientOK ==
  /\ received \in [Tasks -> Nat]
  /\ sends \in [Tasks -> Nat]
  /\ lostReplies \in [Tasks -> Nat]
  /\ dropped \subseteq Tasks /\ discarded \subseteq Tasks
  /\ failures \in 0 .. MaxFailures
  /\ raises \in 0 .. MaxRaises
  /\ crashes \in 0 .. MaxCrashes

Types == StreamOK /\ ControlOK /\ ClientOK

\* The types hold initially.
LEMMA InitTypes == Init => Types
  BY BoundAssumption DEF Init, Types, StreamOK, ControlOK, ClientOK, Steps, BusySteps, TrySteps

\* What a dispatcher has in hand is an entry of the stream.
LEMMA EventInHand ==
  ASSUME StreamOK, ControlOK, NEW d \in Dispatchers, dpc[d] \in BusySteps
  PROVE  /\ dpos[d] \in 1 .. Len(events)
         /\ InHand(d) \in Entries
         /\ TaskOf(d) \in Tasks
<1>1. /\ Len(events) \in Nat /\ delivered \in Nat /\ delivered <= Len(events)
      /\ \A i \in 1 .. Len(events) : events[i] \in Entries
  BY DEF StreamOK
<1>2. dpos[d] \in 1 .. Len(events)
  BY <1>1 DEF ControlOK
<1>3. InHand(d) \in Entries
  BY <1>1, <1>2 DEF InHand
<1> QED
  BY <1>2, <1>3 DEF TaskOf, Entries

\* The loop goes on with the next event, or back to the stream.
LEMMA EventAfter ==
  ASSUME ControlOK, NEW d \in Dispatchers, dpc[d] \in BusySteps, NextEvent(d),
         dlast' = dlast, delivered' = delivered
  PROVE  /\ ControlOK'
         /\ dpc'[d] \in {"send", "read"}
         /\ \A e \in Dispatchers \ {d} : dpc'[e] = dpc[e] /\ dpos'[e] = dpos[e]
<1> USE DEF ControlOK, Steps, BusySteps, TrySteps, Goto
<1>1. CASE dpos[d] < dlast[d] /\ dpos' = [dpos EXCEPT ![d] = @ + 1] /\ Goto(d, "send")
  <2>1. dpos' \in [Dispatchers -> Nat] /\ dpc' \in [Dispatchers -> Steps]
    BY <1>1
  <2> QED
    BY <1>1, <2>1
<1>2. CASE Goto(d, "read") /\ UNCHANGED dpos
  BY <1>2
<1> QED
  BY <1>1, <1>2 DEF NextEvent

\* Every step keeps the types.
LEMMA NextTypes == Types /\ [Next]_vars => Types'
<1> SUFFICES ASSUME StreamOK, ControlOK, ClientOK, [Next]_vars
             PROVE  StreamOK' /\ ControlOK' /\ ClientOK'
  BY DEF Types
<1>0. Len(events) \in Nat /\ delivered \in Nat /\ delivered <= Len(events)
  BY DEF StreamOK
<1> USE DEF Steps, BusySteps, TrySteps
<1>1. ASSUME NEW t \in Tasks, Publish(t) PROVE StreamOK' /\ ControlOK' /\ ClientOK'
  <2>1. StreamOK'
    <3>1. [task |-> t, inData |-> 0, inFields |-> 0] \in Entries
      BY DEF Entries
    <3> QED
      BY <1>1, <1>0, <3>1 DEF Publish, control, client, ends, budget, StreamOK
  <2>2. ControlOK'
    BY <1>1, <1>0 DEF Publish, control, client, ends, budget, ControlOK
  <2>3. ClientOK'
    BY <1>1, BoundAssumption DEF Publish, control, client, ends, budget, ClientOK
  <2> QED
    BY <2>1, <2>2, <2>3
<1>2. ASSUME NEW d \in Dispatchers, Read(d) PROVE StreamOK' /\ ControlOK' /\ ClientOK'
  <2>1. StreamOK'
    <3>1. delivered' \in 0 .. Len(events) /\ 1 .. delivered \subseteq 1 .. delivered'
          /\ delivered + 1 .. delivered' \subseteq 1 .. delivered'
      BY <1>2, <1>0, BatchAssumption
         DEF Read, BatchSize, FirstUnread, Goto, client, ends, budget
    <3> QED
      BY <1>2, <3>1 DEF Read, BatchSize, FirstUnread, Goto, client, ends, budget, StreamOK
  <2>2. ControlOK'
    BY <1>2, <1>0, BatchAssumption
       DEF Read, BatchSize, FirstUnread, Goto, client, ends, budget, ControlOK
  <2>3. ClientOK'
    BY <1>2, BoundAssumption
       DEF Read, BatchSize, FirstUnread, Goto, client, ends, budget, ClientOK
  <2> QED
    BY <2>1, <2>2, <2>3
<1>3. ASSUME NEW d \in Dispatchers, SendOk(d) PROVE StreamOK' /\ ControlOK' /\ ClientOK'
  <2>1. StreamOK'
    BY <1>3 DEF SendOk, AfterSuccess, TaskOf, InHand, Goto, stream, ends, budget, StreamOK
  <2>2. ControlOK'
    BY <1>3, <1>0
       DEF SendOk, AfterSuccess, TaskOf, InHand, Goto, stream, ends, budget, ControlOK
  <2>3. ClientOK'
    BY <1>3, BoundAssumption, EventInHand
       DEF SendOk, AfterSuccess, Goto, stream, ends, budget, ClientOK
  <2> QED
    BY <2>1, <2>2, <2>3
<1>4. ASSUME NEW d \in Dispatchers, SendFails(d) PROVE StreamOK' /\ ControlOK' /\ ClientOK'
  <2>1. StreamOK'
    BY <1>4 DEF SendFails, TaskOf, InHand, Goto, stream, ends, StreamOK
  <2>2. ControlOK'
    BY <1>4, <1>0 DEF SendFails, TaskOf, InHand, Goto, stream, ends, ControlOK
  <2>3. ClientOK'
    <3>1. TaskOf(d) \in Tasks
      BY <1>4, EventInHand DEF SendFails
    <3>2. sends' \in [Tasks -> Nat] /\ failures' \in 0 .. MaxFailures
      BY <1>4, <3>1, BoundAssumption DEF SendFails, ClientOK
    <3>3. received' \in [Tasks -> Nat] /\ lostReplies' \in [Tasks -> Nat]
      BY <1>4, <3>1 DEF SendFails, ClientOK
    <3> QED
      BY <1>4, <3>2, <3>3 DEF SendFails, ends, ClientOK
  <2> QED
    BY <2>1, <2>2, <2>3
<1>5. ASSUME NEW d \in Dispatchers, Count(d) PROVE StreamOK' /\ ControlOK' /\ ClientOK'
  <2>1. StreamOK'
    BY <1>5 DEF Count, RetryOrder, TaskOf, InHand, Goto, stream, client, budget, StreamOK
  <2>2. ControlOK'
    BY <1>5, <1>0 DEF Count, RetryOrder, TaskOf, InHand, Goto, stream, client, budget, ControlOK
  <2>3. ClientOK'
    BY <1>5, BoundAssumption, EventInHand
       DEF Count, RetryOrder, Goto, stream, client, budget, ClientOK
  <2> QED
    BY <2>1, <2>2, <2>3
<1>6. ASSUME NEW d \in Dispatchers, Requeue(d) PROVE StreamOK' /\ ControlOK' /\ ClientOK'
  <2>1. StreamOK'
    <3>1. Retry(InHand(d)) \in Entries
      BY <1>6, EventInHand DEF Requeue, Retry, AttemptsOf, Entries
    <3> QED
      BY <1>6, <1>0, <3>1 DEF Requeue, RetryOrder, InHand, Goto, client, ends, budget, StreamOK
  <2>2. ControlOK'
    BY <1>6, <1>0
       DEF Requeue, Retry, AttemptsOf, RetryOrder, InHand, Goto, client, ends, budget, ControlOK
  <2>3. ClientOK'
    BY <1>6, BoundAssumption
       DEF Requeue, Retry, AttemptsOf, RetryOrder, InHand, Goto, client, ends, budget, ClientOK
  <2> QED
    BY <2>1, <2>2, <2>3
<1>7. ASSUME NEW d \in Dispatchers, AckRetry(d) PROVE StreamOK' /\ ControlOK' /\ ClientOK'
  <2>1. StreamOK'
    BY <1>7 DEF AckRetry, AckInHand, RetryOrder, Goto, client, ends, budget, StreamOK
  <2>2. ControlOK'
    BY <1>7, <1>0 DEF AckRetry, AckInHand, RetryOrder, Goto, client, ends, budget, ControlOK
  <2>3. ClientOK'
    BY <1>7, BoundAssumption
       DEF AckRetry, AckInHand, RetryOrder, Goto, client, ends, budget, ClientOK
  <2> QED
    BY <2>1, <2>2, <2>3
<1>8. ASSUME NEW d \in Dispatchers, AckAndNext(d) PROVE StreamOK' /\ ControlOK' /\ ClientOK'
  <2>1. StreamOK'
    BY <1>8 DEF AckAndNext, AckInHand, NextEvent, Goto, client, ends, budget, StreamOK
  <2>2. ControlOK'
    BY <1>8, EventAfter DEF AckAndNext, AckInHand, client, stream
  <2>3. ClientOK'
    BY <1>8, BoundAssumption
       DEF AckAndNext, AckInHand, NextEvent, Goto, client, ends, budget, ClientOK
  <2> QED
    BY <2>1, <2>2, <2>3
<1>9. ASSUME NEW d \in Dispatchers, Wake(d) PROVE StreamOK' /\ ControlOK' /\ ClientOK'
  <2>1. StreamOK'
    BY <1>9 DEF Wake, NextEvent, Goto, stream, client, ends, budget, StreamOK
  <2>2. ControlOK'
    BY <1>9, EventAfter DEF Wake, client, stream
  <2>3. ClientOK'
    BY <1>9, BoundAssumption DEF Wake, NextEvent, Goto, stream, client, ends, budget, ClientOK
  <2> QED
    BY <2>1, <2>2, <2>3
<1>10. ASSUME NEW d \in Dispatchers, ExceptAck(d) PROVE StreamOK' /\ ControlOK' /\ ClientOK'
  <2>1. StreamOK'
    BY <1>10 DEF ExceptAck, AckInHand, NextEvent, Goto, client, ends, budget, StreamOK
  <2>2. ControlOK'
    BY <1>10, EventAfter DEF ExceptAck, AckInHand, client, stream
  <2>3. ClientOK'
    BY <1>10, BoundAssumption
       DEF ExceptAck, AckInHand, NextEvent, Goto, client, ends, budget, ClientOK
  <2> QED
    BY <2>1, <2>2, <2>3
<1>11. ASSUME NEW d \in Dispatchers, Restart(d) PROVE StreamOK' /\ ControlOK' /\ ClientOK'
  <2>1. StreamOK'
    BY <1>11 DEF Restart, Goto, stream, client, ends, budget, StreamOK
  <2>2. ControlOK'
    BY <1>11, <1>0 DEF Restart, Goto, stream, client, ends, budget, ControlOK
  <2>3. ClientOK'
    BY <1>11, BoundAssumption DEF Restart, Goto, stream, client, ends, budget, ClientOK
  <2> QED
    BY <2>1, <2>2, <2>3
<1>12. ASSUME NEW d \in Dispatchers, Raise(d) PROVE StreamOK' /\ ControlOK' /\ ClientOK'
  <2>1. StreamOK'
    BY <1>12 DEF Raise, TaskOf, InHand, Goto, stream, client, StreamOK
  <2>2. ControlOK'
    BY <1>12, <1>0 DEF Raise, TaskOf, InHand, Goto, stream, client, ControlOK
  <2>3. ClientOK'
    BY <1>12, BoundAssumption, EventInHand DEF Raise, Goto, stream, client, ClientOK
  <2> QED
    BY <2>1, <2>2, <2>3
<1>13. ASSUME NEW d \in Dispatchers, Crash(d) PROVE StreamOK' /\ ControlOK' /\ ClientOK'
  <2>1. StreamOK'
    BY <1>13 DEF Crash, Goto, stream, client, ends, StreamOK
  <2>2. ControlOK'
    BY <1>13, <1>0 DEF Crash, Goto, stream, client, ends, ControlOK
  <2>3. ClientOK'
    BY <1>13, BoundAssumption DEF Crash, Goto, stream, client, ends, ClientOK
  <2> QED
    BY <2>1, <2>2, <2>3
<1>14. CASE UNCHANGED vars
  <2>1. StreamOK'
    BY <1>14 DEF vars, stream, control, client, ends, budget, StreamOK
  <2>2. ControlOK'
    BY <1>14, <1>0 DEF vars, stream, control, client, ends, budget, ControlOK
  <2>3. ClientOK'
    BY <1>14, BoundAssumption DEF vars, stream, control, client, ends, budget, ClientOK
  <2> QED
    BY <2>1, <2>2, <2>3
<1> QED
  BY <1>1, <1>2, <1>3, <1>4, <1>5, <1>6, <1>7, <1>8, <1>9, <1>10, <1>11, <1>12, <1>13,
     <1>14 DEF Next, Dispatch

-----------------------------------------------------------------------------
(* No event vanishes.  What a dispatcher is about to acknowledge has been  *)
(* received or given up, or a later copy of it is on the stream or on a    *)
(* pending list; "later" keeps two dispatchers from relying on each other. *)

Answered(t) == received[t] > 0 \/ t \in dropped \cup discarded
Held(i)     == Unread(i) \/ Pending(i)
CopyAfter(t, p) == \E i \in 1 .. Len(events) : i > p /\ events[i].task = t /\ Held(i)

AckSteps == {"acksent", "ackdrop", "ackretry", "exceptack"}

MayAcknowledge ==
  \A d \in Dispatchers :
    dpc[d] \in AckSteps => Answered(TaskOf(d)) \/ CopyAfter(TaskOf(d), dpos[d])

Kept == NothingVanishes /\ MayAcknowledge

\* Nothing is queued initially.
LEMMA InitKept == Init => Kept
  BY DEF Init, Kept, NothingVanishes, MayAcknowledge, AckSteps, Queued

\* The stream only grows, and an event stays answered.
StreamGrows ==
  /\ Len(events') >= Len(events)
  /\ \A i \in 1 .. Len(events) : events'[i] = events[i]
  /\ \A i \in Len(events) + 1 .. Len(events') : Held(i)'
  /\ \A t \in Tasks : Answered(t) => Answered(t)'

\* An event that is answered stays so.
LEMMA AnsweredForGood ==
  Types /\ [Next]_vars => \A t \in Tasks : Answered(t) => Answered(t)'
<1> SUFFICES ASSUME ClientOK, [Next]_vars, NEW t \in Tasks, Answered(t) PROVE Answered(t)'
  BY DEF Types
<1> USE DEF Answered
<1>1. ASSUME NEW u \in Tasks, Publish(u) PROVE Answered(t)'
  BY <1>1 DEF Publish, control, client, ends, budget
<1>2. ASSUME NEW d \in Dispatchers, Read(d) PROVE Answered(t)'
  BY <1>2 DEF Read, BatchSize, FirstUnread, Goto, client, ends, budget
<1>3. ASSUME NEW d \in Dispatchers, SendOk(d) PROVE Answered(t)'
  BY <1>3 DEF SendOk, ends, ClientOK
<1>4. ASSUME NEW d \in Dispatchers, SendFails(d) PROVE Answered(t)'
  BY <1>4 DEF SendFails, ends, ClientOK
<1>5. ASSUME NEW d \in Dispatchers, Count(d) PROVE Answered(t)'
  BY <1>5 DEF Count, RetryOrder, TaskOf, InHand, Goto, stream, client, budget
<1>6. ASSUME NEW d \in Dispatchers, Requeue(d) PROVE Answered(t)'
  BY <1>6 DEF Requeue, Retry, AttemptsOf, RetryOrder, InHand, Goto, client, ends, budget
<1>7. ASSUME NEW d \in Dispatchers, AckRetry(d) PROVE Answered(t)'
  BY <1>7 DEF AckRetry, AckInHand, RetryOrder, Goto, client, ends, budget
<1>8. ASSUME NEW d \in Dispatchers, AckAndNext(d) PROVE Answered(t)'
  BY <1>8 DEF AckAndNext, AckInHand, NextEvent, Goto, client, ends, budget
<1>9. ASSUME NEW d \in Dispatchers, Wake(d) PROVE Answered(t)'
  BY <1>9 DEF Wake, NextEvent, Goto, stream, client, ends, budget
<1>10. ASSUME NEW d \in Dispatchers, ExceptAck(d) PROVE Answered(t)'
  BY <1>10 DEF ExceptAck, AckInHand, NextEvent, Goto, client, ends, budget
<1>11. ASSUME NEW d \in Dispatchers, Restart(d) PROVE Answered(t)'
  BY <1>11 DEF Restart, Goto, stream, client, ends, budget
<1>12. ASSUME NEW d \in Dispatchers, Raise(d) PROVE Answered(t)'
  BY <1>12 DEF Raise, TaskOf, InHand, Goto, stream, client
<1>13. ASSUME NEW d \in Dispatchers, Crash(d) PROVE Answered(t)'
  BY <1>13 DEF Crash, Goto, stream, client, ends
<1>14. CASE UNCHANGED vars
  BY <1>14 DEF vars, stream, control, client, ends, budget
<1> QED
  BY <1>1, <1>2, <1>3, <1>4, <1>5, <1>6, <1>7, <1>8, <1>9, <1>10, <1>11, <1>12, <1>13,
     <1>14 DEF Next, Dispatch

\* A step leaves the stream alone or appends one entry to it.
LEMMA StreamAppends ==
  Types /\ [Next]_vars =>
    \/ events' = events
    \/ \E e \in Entries : events' = Append(events, e) /\ delivered' = delivered
<1> SUFFICES ASSUME Types, [Next]_vars, events' # events
             PROVE  \E e \in Entries : events' = Append(events, e) /\ delivered' = delivered
  OBVIOUS
<1>1. ASSUME NEW t \in Tasks, Publish(t)
      PROVE  \E e \in Entries : events' = Append(events, e) /\ delivered' = delivered
  BY <1>1 DEF Publish, Entries
<1>2. ASSUME NEW d \in Dispatchers, Requeue(d)
      PROVE  \E e \in Entries : events' = Append(events, e) /\ delivered' = delivered
  <2>1. Retry(InHand(d)) \in Entries
    BY <1>2, EventInHand DEF Types, Requeue, BusySteps, TrySteps, Retry, AttemptsOf, Entries
  <2> QED
    BY <1>2, <2>1 DEF Requeue
<1>3. (\E t \in Tasks : Publish(t)) \/ \E d \in Dispatchers : Requeue(d)
  BY DEF Next, Dispatch, Read, SendOk, SendFails, Count, AckRetry, AckAndNext, Wake,
         ExceptAck, Restart, Raise, Crash, vars, stream
<1> QED
  BY <1>1, <1>2, <1>3

\* The stream only grows, and answers stay.
LEMMA NextStream == Types /\ [Next]_vars => StreamGrows
<1> SUFFICES ASSUME Types, [Next]_vars PROVE StreamGrows
  OBVIOUS
<1>1. Len(events) \in Nat /\ delivered \in 0 .. Len(events) /\ events \in Seq(Entries)
  BY DEF Types, StreamOK
<1>2. CASE events' = events
  BY <1>1, <1>2, AnsweredForGood DEF StreamGrows, Types
<1>3. CASE \E e \in Entries : events' = Append(events, e) /\ delivered' = delivered
  <2>1. Len(events') = Len(events) + 1 /\ \A i \in 1 .. Len(events) : events'[i] = events[i]
    BY <1>1, <1>3
  <2>2. \A i \in Len(events) + 1 .. Len(events') : Held(i)'
    BY <1>1, <1>3, <2>1 DEF Held, Unread
  <2> QED
    BY <1>1, <2>1, <2>2, AnsweredForGood DEF StreamGrows, Types
<1> QED
  BY <1>2, <1>3, StreamAppends

\* What a step has to show so that nothing vanishes by it.
LEMMA KeptStep ==
  ASSUME Types, Types', Kept, StreamGrows,
         \A i \in 1 .. Len(events) : Held(i) =>
           Held(i)' \/ Answered(events[i].task)' \/ CopyAfter(events[i].task, i)',
         \A d \in Dispatchers : dpc'[d] \in AckSteps =>
           \/ dpc[d] \in AckSteps /\ dpos'[d] = dpos[d]
           \/ Answered(TaskOf(d))' \/ CopyAfter(TaskOf(d), dpos[d])'
  PROVE  Kept'
<1>t. /\ Len(events) \in Nat /\ Len(events') \in Nat
      /\ \A i \in 1 .. Len(events) : events[i].task \in Tasks
  <2>1. \A i \in 1 .. Len(events) : events[i] \in Entries
    BY DEF Types, StreamOK
  <2> QED
    BY <2>1 DEF Types, StreamOK, Entries
<1> USE <1>t DEF StreamGrows
<1>0. ASSUME NEW d \in Dispatchers, dpc[d] \in AckSteps
      PROVE  dpos[d] \in 1 .. Len(events) /\ TaskOf(d) \in Tasks
  BY <1>0, EventInHand DEF Types, AckSteps, BusySteps, TrySteps
<1>1. ASSUME NEW t \in Tasks, NEW p \in Nat, CopyAfter(t, p)
      PROVE  Answered(t)' \/ CopyAfter(t, p)'
  <2>1. PICK i \in 1 .. Len(events) : i > p /\ events[i].task = t /\ Held(i)
    BY <1>1 DEF CopyAfter
  <2>2. CASE Held(i)'
    BY <2>1, <2>2 DEF CopyAfter
  <2>3. CASE CopyAfter(t, i)'
    BY <2>1, <2>3 DEF CopyAfter
  <2> QED
    BY <2>1, <2>2, <2>3
<1>2. MayAcknowledge'
  <2> SUFFICES ASSUME NEW d \in Dispatchers, dpc'[d] \in AckSteps
               PROVE  Answered(TaskOf(d))' \/ CopyAfter(TaskOf(d), dpos[d])'
    BY DEF MayAcknowledge
  <2>1. CASE dpc[d] \in AckSteps /\ dpos'[d] = dpos[d]
    <3>1. TaskOf(d)' = TaskOf(d) /\ TaskOf(d) \in Tasks
      BY <1>0, <2>1 DEF TaskOf, InHand
    <3>2. Answered(TaskOf(d)) \/ CopyAfter(TaskOf(d), dpos[d])
      BY <2>1 DEF Kept, MayAcknowledge
    <3>3. CASE Answered(TaskOf(d))
      BY <3>1, <3>3 DEF StreamGrows, Answered
    <3>4. CASE CopyAfter(TaskOf(d), dpos[d])
      <4>1. dpos[d] \in Nat
        BY DEF Types, ControlOK
      <4>2. PICK p \in Nat, t \in Tasks : p = dpos[d] /\ t = TaskOf(d)
        BY <3>1, <4>1
      <4>3. Answered(t)' \/ CopyAfter(t, p)'
        BY <1>1, <3>4, <4>2
      <4>4. dpos'[d] = p /\ TaskOf(d)' = t
        BY <2>1, <3>1, <4>2
      <4> QED
        BY <4>3, <4>4 DEF Answered, CopyAfter
    <3> QED
      BY <3>2, <3>3, <3>4
  <2> QED
    BY <2>1
<1>3. NothingVanishes'
  <2> SUFFICES ASSUME NEW t \in Tasks, Queued(t)'
               PROVE  Answered(t)' \/ CopyAfter(t, 0)'
    BY DEF NothingVanishes, Answered, CopyAfter, Held, Unread, Pending
  <2>1. CASE Queued(t)
    <3>1. Answered(t) \/ CopyAfter(t, 0)
      BY <2>1 DEF Kept, NothingVanishes, Answered, CopyAfter, Held
    <3> QED
      BY <1>1, <3>1
  <2>2. CASE ~Queued(t)
    <3>1. PICK i \in 1 .. Len(events') : events'[i].task = t
      BY DEF Queued
    <3>2. i \in Len(events) + 1 .. Len(events')
      BY <2>2, <3>1 DEF Queued
    <3> QED
      BY <3>1, <3>2 DEF CopyAfter
  <2> QED
    BY <2>1, <2>2
<1> QED
  BY <1>2, <1>3 DEF Kept

\* No step lets an event vanish.
LEMMA NextKept == Types /\ Types' /\ Kept /\ [Next]_vars => Kept'
<1> SUFFICES ASSUME Types, Types', Kept, [Next]_vars PROVE Kept'
  OBVIOUS
<1>0. /\ StreamGrows /\ StreamOK /\ StreamOK'
      /\ Len(events) \in Nat /\ delivered \in Nat /\ delivered <= Len(events)
      /\ dpc \in [Dispatchers -> Steps] /\ dpos \in [Dispatchers -> Nat]
  BY NextStream DEF Types, StreamOK, ControlOK
<1> USE BatchAssumption, <1>0 DEF Steps, BusySteps, TrySteps
<1>1. ASSUME NEW t \in Tasks, Publish(t) PROVE Kept'
  <2>1. \A i \in 1 .. Len(events) : Held(i) => Held(i)'
    BY <1>1 DEF Publish, control, client, ends, budget, Held, Unread, Pending
  <2>2. \A e \in Dispatchers : dpc'[e] \in AckSteps =>
          \/ dpc[e] \in AckSteps /\ dpos'[e] = dpos[e]
          \/ Answered(TaskOf(e))' \/ CopyAfter(TaskOf(e), dpos[e])'
    BY <1>1 DEF Publish, control, client, ends, budget, AckSteps, Answered, TaskOf, InHand
  <2> QED
    BY <2>1, <2>2, KeptStep
<1>2. ASSUME NEW d \in Dispatchers, Read(d) PROVE Kept'
  <2>1. \A i \in 1 .. Len(events) : Held(i) => Held(i)'
    <3>1. pel \in [Dispatchers -> SUBSET (1 .. delivered)]
      BY DEF StreamOK
    <3>2. \A i \in 1 .. Len(events) : Unread(i) => Unread(i)' \/ i \in pel'[d]
      BY <1>2, <3>1 DEF Read, FirstUnread, Unread
    <3>3. \A e \in Dispatchers : pel[e] \subseteq pel'[e]
      BY <1>2, <3>1 DEF Read
    <3> QED
      BY <3>2, <3>3 DEF Held, Pending
  <2>2. \A e \in Dispatchers : dpc'[e] \in AckSteps =>
          \/ dpc[e] \in AckSteps /\ dpos'[e] = dpos[e]
          \/ Answered(TaskOf(e))' \/ CopyAfter(TaskOf(e), dpos[e])'
    BY <1>2 DEF Read, BatchSize, FirstUnread, Goto, client, ends, budget, AckSteps, Answered,
       TaskOf, InHand
  <2> QED
    BY <2>1, <2>2, KeptStep
<1>3. ASSUME NEW d \in Dispatchers, SendOk(d) PROVE Kept'
  <2>1. \A i \in 1 .. Len(events) : Held(i) => Held(i)'
    BY <1>3 DEF SendOk, AfterSuccess, TaskOf, InHand, Goto, stream, ends, budget, Held,
       Unread, Pending
  <2>2. \A e \in Dispatchers : dpc'[e] \in AckSteps =>
          \/ dpc[e] \in AckSteps /\ dpos'[e] = dpos[e]
          \/ Answered(TaskOf(e))' \/ CopyAfter(TaskOf(e), dpos[e])'
    <3>1. TaskOf(d) \in Tasks /\ TaskOf(d)' = TaskOf(d)
      BY <1>3, EventInHand DEF SendOk, Types, TaskOf, InHand, stream
    <3>2. Answered(TaskOf(d))'
      BY <1>3, <3>1 DEF SendOk, RetryOrder, Goto, ends, Types, ClientOK, Answered, AckSteps
    <3> QED
      BY <1>3, <3>2 DEF SendOk, AfterSuccess, RetryOrder, Goto, AckSteps
  <2> QED
    BY <2>1, <2>2, KeptStep
<1>4. ASSUME NEW d \in Dispatchers, SendFails(d) PROVE Kept'
  <2>1. \A i \in 1 .. Len(events) : Held(i) => Held(i)'
    BY <1>4 DEF SendFails, TaskOf, InHand, Goto, stream, ends, Held, Unread, Pending
  <2>2. \A e \in Dispatchers : dpc'[e] \in AckSteps =>
          \/ dpc[e] \in AckSteps /\ dpos'[e] = dpos[e]
          \/ Answered(TaskOf(e))' \/ CopyAfter(TaskOf(e), dpos[e])'
    BY <1>4 DEF SendFails, TaskOf, InHand, Goto, stream, ends, AckSteps, Answered
  <2> QED
    BY <2>1, <2>2, KeptStep
<1>5. ASSUME NEW d \in Dispatchers, Count(d) PROVE Kept'
  <2>1. \A i \in 1 .. Len(events) : Held(i) => Held(i)'
    BY <1>5 DEF Count, RetryOrder, TaskOf, InHand, Goto, stream, client, budget, Held,
       Unread, Pending
  <2>2. \A e \in Dispatchers : dpc'[e] \in AckSteps =>
          \/ dpc[e] \in AckSteps /\ dpos'[e] = dpos[e]
          \/ Answered(TaskOf(e))' \/ CopyAfter(TaskOf(e), dpos[e])'
    <3>1. TaskOf(d) \in Tasks /\ TaskOf(d)' = TaskOf(d)
      BY <1>5, EventInHand DEF Count, Types, TaskOf, InHand, stream
    <3>2. dpc'[d] = "ackdrop" => Answered(TaskOf(d))'
      BY <1>5, <3>1 DEF Count, RetryOrder, Goto, ends, Types, ClientOK, Answered, AckSteps
    <3> QED
      BY <1>5, <3>2 DEF Count, AfterSuccess, RetryOrder, Goto, AckSteps
  <2> QED
    BY <2>1, <2>2, KeptStep
<1>6. ASSUME NEW d \in Dispatchers, Requeue(d) PROVE Kept'
  <2>1. \A i \in 1 .. Len(events) : Held(i) => Held(i)'
    BY <1>6 DEF Requeue, Retry, AttemptsOf, RetryOrder, InHand, Goto, client, ends, budget,
       Held, Unread, Pending
  <2>2. \A e \in Dispatchers : dpc'[e] \in AckSteps =>
          \/ dpc[e] \in AckSteps /\ dpos'[e] = dpos[e]
          \/ Answered(TaskOf(e))' \/ CopyAfter(TaskOf(e), dpos[e])'
    <3>1. Held(Len(events))' /\ Len(events') = Len(events) + 1
      BY <1>6 DEF Requeue, Retry, AttemptsOf, RetryOrder, InHand, Goto, client, ends, budget,
         Held, Unread
    <3>2. TaskOf(d)' = TaskOf(d) /\ dpos'[d] \in 1 .. Len(events)
      BY <1>6, EventInHand DEF Requeue, Types, StreamGrows, TaskOf, InHand
    <3>3. events'[Len(events')].task = TaskOf(d)
      BY <1>6 DEF Requeue, Retry, TaskOf, StreamOK
    <3>4. CopyAfter(TaskOf(d), dpos[d])'
      BY <3>1, <3>2, <3>3 DEF CopyAfter
    <3> QED
      BY <1>6, <3>4 DEF Requeue, RetryOrder, Goto, AckSteps
  <2> QED
    BY <2>1, <2>2, KeptStep
<1>7. ASSUME NEW d \in Dispatchers, AckRetry(d) PROVE Kept'
  <2>1. \A i \in 1 .. Len(events) : Held(i) => 
          Held(i)' \/ Answered(events[i].task)' \/ CopyAfter(events[i].task, i)'
    <3> SUFFICES ASSUME NEW i \in 1 .. Len(events), Held(i), ~Held(i)'
                 PROVE  Answered(events[i].task)' \/ CopyAfter(events[i].task, i)'
      OBVIOUS
    <3>1. i = dpos[d] /\ dpc[d] \in AckSteps
      BY <1>7 DEF AckRetry, AckInHand, RetryOrder, Goto, client, ends, budget, Held, Unread,
         Pending, AckSteps
    <3>2. events[i].task = TaskOf(d)
      BY <3>1 DEF TaskOf, InHand
    <3>3. Answered(events[i].task) \/ CopyAfter(events[i].task, i)
      BY <3>1, <3>2 DEF Kept, MayAcknowledge
    <3>4. CASE Answered(events[i].task)
      BY <1>7, <3>4 DEF AckRetry, AckInHand, RetryOrder, Goto, client, ends, budget, Answered
    <3>5. CASE CopyAfter(events[i].task, i)
      <4>1. PICK k \in 1 .. Len(events) : k > i /\ events[k].task = events[i].task /\ Held(k)
        BY <3>5 DEF CopyAfter
      <4>2. Held(k)' /\ events' = events
        BY <1>7, <3>1, <4>1
           DEF AckRetry, AckInHand, RetryOrder, Goto, client, ends, budget, Held, Unread,
              Pending
      <4> QED
        BY <4>1, <4>2 DEF CopyAfter
    <3> QED
      BY <3>3, <3>4, <3>5
  <2>2. \A e \in Dispatchers : dpc'[e] \in AckSteps =>
          \/ dpc[e] \in AckSteps /\ dpos'[e] = dpos[e]
          \/ Answered(TaskOf(e))' \/ CopyAfter(TaskOf(e), dpos[e])'
    BY <1>7 DEF AckRetry, AckInHand, RetryOrder, Goto, client, ends, budget, AckSteps,
       Answered, TaskOf, InHand
  <2> QED
    BY <2>1, <2>2, KeptStep
<1>8. ASSUME NEW d \in Dispatchers, AckAndNext(d) PROVE Kept'
  <2>1. \A i \in 1 .. Len(events) : Held(i) => 
          Held(i)' \/ Answered(events[i].task)' \/ CopyAfter(events[i].task, i)'
    <3> SUFFICES ASSUME NEW i \in 1 .. Len(events), Held(i), ~Held(i)'
                 PROVE  Answered(events[i].task)' \/ CopyAfter(events[i].task, i)'
      OBVIOUS
    <3>1. i = dpos[d] /\ dpc[d] \in AckSteps
      BY <1>8 DEF AckAndNext, AckInHand, NextEvent, Goto, client, ends, budget, Held, Unread,
         Pending, AckSteps
    <3>2. events[i].task = TaskOf(d)
      BY <3>1 DEF TaskOf, InHand
    <3>3. Answered(events[i].task) \/ CopyAfter(events[i].task, i)
      BY <3>1, <3>2 DEF Kept, MayAcknowledge
    <3>4. CASE Answered(events[i].task)
      BY <1>8, <3>4 DEF AckAndNext, AckInHand, NextEvent, Goto, client, ends, budget, Answered
    <3>5. CASE CopyAfter(events[i].task, i)
      <4>1. PICK k \in 1 .. Len(events) : k > i /\ events[k].task = events[i].task /\ Held(k)
        BY <3>5 DEF CopyAfter
      <4>2. Held(k)' /\ events' = events
        BY <1>8, <3>1, <4>1
           DEF AckAndNext, AckInHand, NextEvent, Goto, client, ends, budget, Held, Unread,
              Pending
      <4> QED
        BY <4>1, <4>2 DEF CopyAfter
    <3> QED
      BY <3>3, <3>4, <3>5
  <2>2. \A e \in Dispatchers : dpc'[e] \in AckSteps =>
          \/ dpc[e] \in AckSteps /\ dpos'[e] = dpos[e]
          \/ Answered(TaskOf(e))' \/ CopyAfter(TaskOf(e), dpos[e])'
    BY <1>8, EventAfter DEF AckAndNext, AckInHand, client, AckSteps, Types
  <2> QED
    BY <2>1, <2>2, KeptStep
<1>9. ASSUME NEW d \in Dispatchers, Wake(d) PROVE Kept'
  <2>1. \A i \in 1 .. Len(events) : Held(i) => Held(i)'
    BY <1>9 DEF Wake, NextEvent, Goto, stream, client, ends, budget, Held, Unread, Pending
  <2>2. \A e \in Dispatchers : dpc'[e] \in AckSteps =>
          \/ dpc[e] \in AckSteps /\ dpos'[e] = dpos[e]
          \/ Answered(TaskOf(e))' \/ CopyAfter(TaskOf(e), dpos[e])'
    BY <1>9, EventAfter DEF Wake, stream, AckSteps, Types
  <2> QED
    BY <2>1, <2>2, KeptStep
<1>10. ASSUME NEW d \in Dispatchers, ExceptAck(d) PROVE Kept'
  <2>1. \A i \in 1 .. Len(events) : Held(i) => 
          Held(i)' \/ Answered(events[i].task)' \/ CopyAfter(events[i].task, i)'
    <3> SUFFICES ASSUME NEW i \in 1 .. Len(events), Held(i), ~Held(i)'
                 PROVE  Answered(events[i].task)' \/ CopyAfter(events[i].task, i)'
      OBVIOUS
    <3>1. i = dpos[d] /\ dpc[d] \in AckSteps
      BY <1>10 DEF ExceptAck, AckInHand, NextEvent, Goto, client, ends, budget, Held, Unread,
         Pending, AckSteps
    <3>2. events[i].task = TaskOf(d)
      BY <3>1 DEF TaskOf, InHand
    <3>3. Answered(events[i].task) \/ CopyAfter(events[i].task, i)
      BY <3>1, <3>2 DEF Kept, MayAcknowledge
    <3>4. CASE Answered(events[i].task)
      BY <1>10, <3>4 DEF ExceptAck, AckInHand, NextEvent, Goto, client, ends, budget, Answered
    <3>5. CASE CopyAfter(events[i].task, i)
      <4>1. PICK k \in 1 .. Len(events) : k > i /\ events[k].task = events[i].task /\ Held(k)
        BY <3>5 DEF CopyAfter
      <4>2. Held(k)' /\ events' = events
        BY <1>10, <3>1, <4>1
           DEF ExceptAck, AckInHand, NextEvent, Goto, client, ends, budget, Held, Unread,
              Pending
      <4> QED
        BY <4>1, <4>2 DEF CopyAfter
    <3> QED
      BY <3>3, <3>4, <3>5
  <2>2. \A e \in Dispatchers : dpc'[e] \in AckSteps =>
          \/ dpc[e] \in AckSteps /\ dpos'[e] = dpos[e]
          \/ Answered(TaskOf(e))' \/ CopyAfter(TaskOf(e), dpos[e])'
    BY <1>10, EventAfter DEF ExceptAck, AckInHand, client, AckSteps, Types
  <2> QED
    BY <2>1, <2>2, KeptStep
<1>11. ASSUME NEW d \in Dispatchers, Restart(d) PROVE Kept'
  <2>1. \A i \in 1 .. Len(events) : Held(i) => Held(i)'
    BY <1>11 DEF Restart, Goto, stream, client, ends, budget, Held, Unread, Pending
  <2>2. \A e \in Dispatchers : dpc'[e] \in AckSteps =>
          \/ dpc[e] \in AckSteps /\ dpos'[e] = dpos[e]
          \/ Answered(TaskOf(e))' \/ CopyAfter(TaskOf(e), dpos[e])'
    BY <1>11 DEF Restart, Goto, stream, client, ends, budget, AckSteps, Answered, TaskOf, InHand
  <2> QED
    BY <2>1, <2>2, KeptStep
<1>12. ASSUME NEW d \in Dispatchers, Raise(d) PROVE Kept'
  <2>1. \A i \in 1 .. Len(events) : Held(i) => Held(i)'
    BY <1>12 DEF Raise, TaskOf, InHand, Goto, stream, client, Held, Unread, Pending
  <2>2. \A e \in Dispatchers : dpc'[e] \in AckSteps =>
          \/ dpc[e] \in AckSteps /\ dpos'[e] = dpos[e]
          \/ Answered(TaskOf(e))' \/ CopyAfter(TaskOf(e), dpos[e])'
    <3>1. TaskOf(d) \in Tasks /\ TaskOf(d)' = TaskOf(d)
      BY <1>12, EventInHand DEF Raise, Types, TaskOf, InHand, stream
    <3>2. dpc[d] \notin AckSteps => Answered(TaskOf(d))'
      BY <1>12, <3>1 DEF Raise, RetryOrder, Goto, ends, Types, ClientOK, Answered, AckSteps
    <3> QED
      BY <1>12, <3>2 DEF Raise, AfterSuccess, RetryOrder, Goto, AckSteps
  <2> QED
    BY <2>1, <2>2, KeptStep
<1>13. ASSUME NEW d \in Dispatchers, Crash(d) PROVE Kept'
  <2>1. \A i \in 1 .. Len(events) : Held(i) => Held(i)'
    BY <1>13 DEF Crash, Goto, stream, client, ends, Held, Unread, Pending
  <2>2. \A e \in Dispatchers : dpc'[e] \in AckSteps =>
          \/ dpc[e] \in AckSteps /\ dpos'[e] = dpos[e]
          \/ Answered(TaskOf(e))' \/ CopyAfter(TaskOf(e), dpos[e])'
    BY <1>13 DEF Crash, Goto, stream, client, ends, AckSteps, Answered, TaskOf, InHand
  <2> QED
    BY <2>1, <2>2, KeptStep
<1>14. CASE UNCHANGED vars
  <2>1. \A i \in 1 .. Len(events) : Held(i) => Held(i)'
    BY <1>14 DEF vars, stream, control, client, ends, budget, Held, Unread, Pending
  <2>2. \A e \in Dispatchers : dpc'[e] \in AckSteps =>
          \/ dpc[e] \in AckSteps /\ dpos'[e] = dpos[e]
          \/ Answered(TaskOf(e))' \/ CopyAfter(TaskOf(e), dpos[e])'
    BY <1>14 DEF vars, stream, control, client, ends, budget, AckSteps, Answered, TaskOf, InHand
  <2> QED
    BY <2>1, <2>2, KeptStep
<1> QED
  BY <1>1, <1>2, <1>3, <1>4, <1>5, <1>6, <1>7, <1>8, <1>9, <1>10, <1>11, <1>12, <1>13,
     <1>14 DEF Next, Dispatch

-----------------------------------------------------------------------------
(* Nothing is sent twice.  The batches of two dispatchers are apart, an    *)
(* event has one live copy, and one that is live has been received no more *)
(* often than an answer of the client was lost.                            *)

BatchesApart ==
  \A d, e \in Dispatchers :
    d # e /\ dpc[d] \in BusySteps /\ dpc[e] \in BusySteps =>
      dlast[d] < dpos[e] \/ dlast[e] < dpos[d]

OneLive ==
  \A i, j \in 1 .. Len(events) :
    events[i].task = events[j].task /\ Live(i) /\ Live(j) => i = j

LiveIsUnsent ==
  \A i \in 1 .. Len(events) :
    Live(i) => received[events[i].task] <= lostReplies[events[i].task]

NewIsUnsent == \A t \in Tasks : ~Queued(t) => received[t] = 0

SentOnce == OneLive /\ LiveIsUnsent /\ NewIsUnsent /\ DuplicatesExplained

\* Nothing is sent initially.
LEMMA InitSentOnce == Init => BatchesApart /\ SentOnce
  BY DEF Init, BatchesApart, SentOnce, OneLive, LiveIsUnsent, NewIsUnsent, DuplicatesExplained,
         BusySteps, TrySteps

\* Every step keeps the batches of the dispatchers apart.
LEMMA NextApart == Types /\ BatchesApart /\ [Next]_vars => BatchesApart'
<1> SUFFICES ASSUME Types, BatchesApart, [Next]_vars PROVE BatchesApart'
  OBVIOUS
<1>0. /\ delivered \in Nat /\ Len(events) \in Nat /\ delivered <= Len(events)
      /\ dpc \in [Dispatchers -> Steps] /\ dpos \in [Dispatchers -> Nat]
      /\ dlast \in [Dispatchers -> 0 .. delivered]
  BY DEF Types, StreamOK, ControlOK
<1> USE <1>0 DEF Steps, BusySteps, TrySteps, BatchesApart
<1>1. ASSUME NEW t \in Tasks, Publish(t) PROVE BatchesApart'
  BY <1>1 DEF Publish, control, client, ends, budget
<1>2. ASSUME NEW d \in Dispatchers, Read(d) PROVE BatchesApart'
  <2>1. dpos'[d] = delivered + 1
    BY <1>2 DEF Read, FirstUnread
  <2>2. \A e \in Dispatchers \ {d} :
          dpc'[e] = dpc[e] /\ dpos'[e] = dpos[e] /\ dlast'[e] = dlast[e] /\ dlast[e] <= delivered
    BY <1>2 DEF Read, Goto
  <2> QED
    BY <2>1, <2>2
<1>3. ASSUME NEW d \in Dispatchers, SendOk(d) PROVE BatchesApart'
  BY <1>3 DEF SendOk, AfterSuccess, TaskOf, InHand, Goto, stream, ends, budget
<1>4. ASSUME NEW d \in Dispatchers, SendFails(d) PROVE BatchesApart'
  BY <1>4 DEF SendFails, TaskOf, InHand, Goto, stream, ends
<1>5. ASSUME NEW d \in Dispatchers, Count(d) PROVE BatchesApart'
  BY <1>5 DEF Count, RetryOrder, TaskOf, InHand, Goto, stream, client, budget
<1>6. ASSUME NEW d \in Dispatchers, Requeue(d) PROVE BatchesApart'
  BY <1>6 DEF Requeue, Retry, AttemptsOf, RetryOrder, InHand, Goto, client, ends, budget
<1>7. ASSUME NEW d \in Dispatchers, AckRetry(d) PROVE BatchesApart'
  BY <1>7 DEF AckRetry, AckInHand, RetryOrder, Goto, client, ends, budget
<1>8. ASSUME NEW d \in Dispatchers, AckAndNext(d) PROVE BatchesApart'
  <2>1. /\ dlast' = dlast
        /\ \A e \in Dispatchers \ {d} : dpc'[e] = dpc[e] /\ dpos'[e] = dpos[e]
    BY <1>8, EventAfter DEF AckAndNext, AckInHand, client, Types
  <2>2. dpc'[d] = "read" \/ dpos'[d] = dpos[d] + 1
    BY <1>8 DEF AckAndNext, NextEvent, Goto
  <2> QED
    BY <1>8, <2>1, <2>2 DEF AckAndNext
<1>9. ASSUME NEW d \in Dispatchers, Wake(d) PROVE BatchesApart'
  <2>1. /\ dlast' = dlast
        /\ \A e \in Dispatchers \ {d} : dpc'[e] = dpc[e] /\ dpos'[e] = dpos[e]
    BY <1>9, EventAfter DEF Wake, stream, Types
  <2>2. dpc'[d] = "read" \/ dpos'[d] = dpos[d] + 1
    BY <1>9 DEF Wake, NextEvent, Goto
  <2> QED
    BY <1>9, <2>1, <2>2 DEF Wake
<1>10. ASSUME NEW d \in Dispatchers, ExceptAck(d) PROVE BatchesApart'
  <2>1. /\ dlast' = dlast
        /\ \A e \in Dispatchers \ {d} : dpc'[e] = dpc[e] /\ dpos'[e] = dpos[e]
    BY <1>10, EventAfter DEF ExceptAck, AckInHand, client, Types
  <2>2. dpc'[d] = "read" \/ dpos'[d] = dpos[d] + 1
    BY <1>10 DEF ExceptAck, NextEvent, Goto
  <2> QED
    BY <1>10, <2>1, <2>2 DEF ExceptAck
<1>11. ASSUME NEW d \in Dispatchers, Restart(d) PROVE BatchesApart'
  BY <1>11 DEF Restart, Goto, stream, client, ends, budget
<1>12. ASSUME NEW d \in Dispatchers, Raise(d) PROVE BatchesApart'
  BY <1>12 DEF Raise, TaskOf, InHand, Goto, stream, client
<1>13. ASSUME NEW d \in Dispatchers, Crash(d) PROVE BatchesApart'
  BY <1>13 DEF Crash, Goto, stream, client, ends
<1>14. CASE UNCHANGED vars
  BY <1>14 DEF vars, stream, control, client, ends, budget
<1> QED
  BY <1>1, <1>2, <1>3, <1>4, <1>5, <1>6, <1>7, <1>8, <1>9, <1>10, <1>11, <1>12, <1>13,
     <1>14 DEF Next, Dispatch

\* A step that makes no copy live and sends nothing.
LEMMA NoneLiveAgain ==
  ASSUME Types, SentOnce, events' = events,
         \A i \in 1 .. Len(events) : Live(i)' => Live(i),
         \/ received' = received /\ lostReplies' = lostReplies
         \/ \E t \in Tasks : /\ received' = [received EXCEPT ![t] = @ + 1]
                            /\ lostReplies' = [lostReplies EXCEPT ![t] = @ + 1]
                            /\ Queued(t)
  PROVE  SentOnce'
<1>0. /\ \A i \in 1 .. Len(events) : events[i].task \in Tasks
      /\ received \in [Tasks -> Nat] /\ lostReplies \in [Tasks -> Nat]
  <2>1. \A i \in 1 .. Len(events) : events[i] \in Entries
    BY DEF Types, StreamOK
  <2> QED
    BY <2>1 DEF Types, ClientOK, Entries
<1>1. \A u \in Tasks :
        /\ received[u] <= lostReplies[u] => received'[u] <= lostReplies'[u]
        /\ received[u] <= 1 + lostReplies[u] => received'[u] <= 1 + lostReplies'[u]
        /\ received[u] = 0 /\ ~Queued(u) => received'[u] = 0
  <2>1. CASE received' = received /\ lostReplies' = lostReplies
    BY <2>1
  <2>2. ASSUME NEW t \in Tasks, received' = [received EXCEPT ![t] = @ + 1],
               lostReplies' = [lostReplies EXCEPT ![t] = @ + 1], Queued(t), NEW u \in Tasks
        PROVE  /\ received[u] <= lostReplies[u] => received'[u] <= lostReplies'[u]
               /\ received[u] <= 1 + lostReplies[u] => received'[u] <= 1 + lostReplies'[u]
               /\ received[u] = 0 /\ ~Queued(u) => received'[u] = 0
    <3>1. received[u] \in Nat /\ lostReplies[u] \in Nat
      BY <1>0
    <3>2. CASE u = t
      BY <1>0, <2>2, <3>1, <3>2
    <3>3. CASE u # t
      BY <1>0, <2>2, <3>3
    <3> QED
      BY <3>2, <3>3
  <2> QED
    BY <2>1, <2>2
<1>2. OneLive'
  BY DEF SentOnce, OneLive
<1>3. LiveIsUnsent'
  BY <1>0, <1>1 DEF SentOnce, LiveIsUnsent
<1>4. NewIsUnsent'
  BY <1>1 DEF SentOnce, NewIsUnsent, Queued
<1>5. DuplicatesExplained'
  BY <1>1 DEF SentOnce, DuplicatesExplained
<1> QED
  BY <1>2, <1>3, <1>4, <1>5 DEF SentOnce

\* No step makes a second copy live or sends one without a reason.
LEMMA NextSentOnce == Types /\ Types' /\ BatchesApart /\ SentOnce /\ [Next]_vars => SentOnce'
<1> SUFFICES ASSUME Types, Types', BatchesApart, SentOnce, [Next]_vars PROVE SentOnce'
  OBVIOUS
<1>0. /\ delivered \in Nat /\ Len(events) \in Nat /\ delivered <= Len(events)
      /\ dpc \in [Dispatchers -> Steps] /\ dpos \in [Dispatchers -> Nat]
      /\ dlast \in [Dispatchers -> 0 .. delivered]
      /\ \A d \in Dispatchers : dpc[d] \in BusySteps => dpos[d] >= 1 /\ dpos[d] <= dlast[d]
  BY DEF Types, StreamOK, ControlOK
<1>g. StreamGrows
  BY NextStream
<1>h. /\ received \in [Tasks -> Nat] /\ lostReplies \in [Tasks -> Nat]
      /\ \A i \in 1 .. Len(events) : events[i].task \in Tasks
  <2>1. \A i \in 1 .. Len(events) : events[i] \in Entries
    BY DEF Types, StreamOK
  <2> QED
    BY <2>1 DEF Types, ClientOK, Entries
<1> USE <1>0 DEF Steps, BusySteps, TrySteps
<1>1. ASSUME NEW t \in Tasks, Publish(t) PROVE SentOnce'
  <2> DEFINE new == Len(events) + 1
  <2>1. /\ Len(events') = new /\ events'[new].task = t
        /\ \A i \in 1 .. Len(events) : events'[i] = events[i] /\ events[i].task # t
    BY <1>1, <1>g DEF Publish, StreamGrows, Queued, Types, StreamOK
  <2>2. \A i \in 1 .. Len(events) : Live(i)' => Live(i)
    BY <1>1, <2>1 DEF Publish, Live, Unread, control
  <2>3. received' = received /\ lostReplies' = lostReplies /\ received[t] = 0
    BY <1>1 DEF Publish, client, SentOnce, NewIsUnsent
  <2>4. OneLive'
    <3> SUFFICES ASSUME NEW i \in 1 .. Len(events'), NEW j \in 1 .. Len(events'),
                        events'[i].task = events'[j].task, Live(i)', Live(j)'
                 PROVE  i = j
      BY DEF OneLive
    <3>1. (i \in 1 .. Len(events) \/ i = new) /\ (j \in 1 .. Len(events) \/ j = new)
      BY <2>1
    <3> QED
      BY <2>1, <2>2, <3>1 DEF SentOnce, OneLive
  <2>5. LiveIsUnsent'
    <3> SUFFICES ASSUME NEW i \in 1 .. Len(events'), Live(i)'
                 PROVE  received[events'[i].task] <= lostReplies[events'[i].task]
      BY <2>3 DEF LiveIsUnsent
    <3>1. i \in 1 .. Len(events) \/ i = new
      BY <2>1
    <3>2. received[t] <= lostReplies[t]
      BY <1>h, <2>3
    <3> QED
      BY <2>1, <2>2, <3>1, <3>2 DEF SentOnce, LiveIsUnsent
  <2>6. NewIsUnsent'
    BY <2>1, <2>3 DEF SentOnce, NewIsUnsent, Queued
  <2>7. DuplicatesExplained'
    BY <2>3 DEF SentOnce, DuplicatesExplained
  <2> QED
    BY <2>4, <2>5, <2>6, <2>7 DEF SentOnce
<1>2. ASSUME NEW d \in Dispatchers, Read(d) PROVE SentOnce'
  <2>1. /\ events' = events /\ delivered' = delivered + BatchSize
        /\ dpos'[d] = delivered + 1 /\ dlast'[d] = delivered + BatchSize /\ BatchSize \in Nat
        /\ \A e \in Dispatchers \ {d} :
              dpc'[e] = dpc[e] /\ dpos'[e] = dpos[e] /\ dlast'[e] = dlast[e]
    BY <1>2, BatchAssumption DEF Read, FirstUnread, BatchSize, Goto
  <2>2. \A i \in 1 .. Len(events) : Live(i)' => Live(i)
    BY <2>1 DEF Live, Unread
  <2> QED
    BY <1>2, <2>1, <2>2, NoneLiveAgain DEF Read, client
<1>3. ASSUME NEW d \in Dispatchers, SendOk(d) PROVE SentOnce'
  <2> DEFINE t == TaskOf(d)
  <2>1. /\ dpos[d] \in 1 .. Len(events) /\ t \in Tasks /\ events[dpos[d]].task = t
        /\ Live(dpos[d])
    BY <1>3, EventInHand DEF SendOk, Types, Live, TaskOf, InHand
  <2>2. \A i \in 1 .. Len(events) :
          /\ Live(i)' => Live(i)
          /\ i = dpos[d] => ~Live(i)'
    <3>1. /\ delivered' = delivered /\ dpos' = dpos /\ dlast' = dlast
          /\ dpc[d] = "send" /\ dpc'[d] = "acksent"
          /\ \A e \in Dispatchers \ {d} : dpc'[e] = dpc[e]
      BY <1>3 DEF SendOk, AfterSuccess, Goto, stream
    <3>2. \A i \in 1 .. Len(events) : Live(i)' => Live(i)
      BY <3>1 DEF Live, Unread
    <3>3. ASSUME NEW i \in 1 .. Len(events), i = dpos[d] PROVE ~Live(i)'
      <4>1. dpos[d] <= dlast[d] /\ dlast[d] <= delivered
        BY <1>0, <3>1
      <4>2. \A e \in Dispatchers \ {d} :
              dpc[e] \in BusySteps => dpos[d] \notin dpos[e] .. dlast[e]
        BY <1>0, <3>1, <4>1 DEF BatchesApart
      <4> QED
        BY <1>0, <3>1, <3>3, <4>1, <4>2 DEF Live, Unread
    <3> QED
      BY <3>2, <3>3
  <2>3. /\ events' = events /\ lostReplies' = lostReplies
        /\ received' = [received EXCEPT ![t] = @ + 1]
        /\ received[t] <= lostReplies[t]
    BY <1>3, <2>1 DEF SendOk, stream, SentOnce, LiveIsUnsent
  <2>4. OneLive'
    BY <2>2, <2>3 DEF SentOnce, OneLive
  <2>5. \A i \in 1 .. Len(events) : Live(i)' => events[i].task # t
    BY <2>1, <2>2 DEF SentOnce, OneLive
  <2>6. LiveIsUnsent'
    BY <1>h, <2>2, <2>3, <2>5 DEF SentOnce, LiveIsUnsent
  <2>7. NewIsUnsent'
    BY <1>h, <2>1, <2>3 DEF SentOnce, NewIsUnsent, Queued
  <2>8. DuplicatesExplained'
    BY <1>h, <2>1, <2>3 DEF SentOnce, DuplicatesExplained
  <2> QED
    BY <2>4, <2>6, <2>7, <2>8 DEF SentOnce
<1>4. ASSUME NEW d \in Dispatchers, SendFails(d) PROVE SentOnce'
  <2>1. events' = events /\ \A i \in 1 .. Len(events) : Live(i)' => Live(i)
    BY <1>4 DEF SendFails, Goto, stream, Live, Unread
  <2>2. TaskOf(d) \in Tasks /\ Queued(TaskOf(d))
    BY <1>4, EventInHand DEF SendFails, Types, TaskOf, InHand, Queued
  <2> QED
    BY <1>4, <2>1, <2>2, NoneLiveAgain DEF SendFails
<1>5. ASSUME NEW d \in Dispatchers, Count(d) PROVE SentOnce'
  <2>1. events' = events /\ \A i \in 1 .. Len(events) : Live(i)' => Live(i)
    BY <1>5 DEF Count, RetryOrder, TaskOf, InHand, Goto, stream, client, budget, Live, Unread
  <2> QED
    BY <1>5, <2>1, NoneLiveAgain DEF Count, client
<1>6. ASSUME NEW d \in Dispatchers, Requeue(d) PROVE SentOnce'
  <2> DEFINE new == Len(events) + 1
               t   == TaskOf(d)
  <2>1. /\ Len(events') = new /\ events'[new].task = t
        /\ \A i \in 1 .. Len(events) : events'[i] = events[i]
    BY <1>6, <1>g DEF Requeue, Retry, TaskOf, StreamGrows, Types, StreamOK
  <2>2. /\ dpos[d] \in 1 .. Len(events) /\ t \in Tasks /\ events[dpos[d]].task = t
        /\ Live(dpos[d])
    BY <1>6, EventInHand DEF Requeue, Types, Live, TaskOf, InHand
  <2>3. \A i \in 1 .. Len(events) :
          /\ Live(i)' => Live(i)
          /\ i = dpos[d] => ~Live(i)'
    <3>1. /\ delivered' = delivered /\ dpos' = dpos /\ dlast' = dlast
          /\ dpc[d] = "requeue" /\ dpc'[d] = "ackretry"
          /\ \A e \in Dispatchers \ {d} : dpc'[e] = dpc[e]
      BY <1>6 DEF Requeue, RetryOrder, Goto
    <3>2. \A i \in 1 .. Len(events) : Live(i)' => Live(i)
      BY <3>1 DEF Live, Unread
    <3>3. \A e \in Dispatchers \ {d} : dpc[e] \in BusySteps => dpos[d] \notin dpos[e] .. dlast[e]
      BY <3>1 DEF BatchesApart
    <3>4. ~Live(dpos[d])'
      BY <3>1, <3>3 DEF Live, Unread
    <3> QED
      BY <3>1, <3>2, <3>4
  <2>4. received' = received /\ lostReplies' = lostReplies
    BY <1>6 DEF Requeue, client
  <2>5. OneLive'
    <3> SUFFICES ASSUME NEW i \in 1 .. Len(events'), NEW j \in 1 .. Len(events'),
                        events'[i].task = events'[j].task, Live(i)', Live(j)'
                 PROVE  i = j
      BY DEF OneLive
    <3>1. (i \in 1 .. Len(events) \/ i = new) /\ (j \in 1 .. Len(events) \/ j = new)
      BY <2>1
    <3> QED
      BY <2>1, <2>2, <2>3, <3>1 DEF SentOnce, OneLive
  <2>6. LiveIsUnsent'
    <3> SUFFICES ASSUME NEW i \in 1 .. Len(events'), Live(i)'
                 PROVE  received[events'[i].task] <= lostReplies[events'[i].task]
      BY <2>4 DEF LiveIsUnsent
    <3>1. i \in 1 .. Len(events) \/ i = new
      BY <2>1
    <3>2. received[t] <= lostReplies[t]
      BY <2>2 DEF SentOnce, LiveIsUnsent
    <3> QED
      BY <2>1, <2>3, <3>1, <3>2 DEF SentOnce, LiveIsUnsent
  <2>7. NewIsUnsent'
    BY <2>1, <2>4 DEF SentOnce, NewIsUnsent, Queued
  <2>8. DuplicatesExplained'
    BY <2>4 DEF SentOnce, DuplicatesExplained
  <2> QED
    BY <2>5, <2>6, <2>7, <2>8 DEF SentOnce
<1>7. ASSUME NEW d \in Dispatchers, AckRetry(d) PROVE SentOnce'
  <2>1. events' = events /\ \A i \in 1 .. Len(events) : Live(i)' => Live(i)
    BY <1>7 DEF AckRetry, AckInHand, RetryOrder, Goto, client, ends, budget, Live, Unread
  <2> QED
    BY <1>7, <2>1, NoneLiveAgain DEF AckRetry, client
<1>8. ASSUME NEW d \in Dispatchers, AckAndNext(d) PROVE SentOnce'
  <2>1. /\ dlast' = dlast /\ delivered' = delivered /\ events' = events
        /\ \A e \in Dispatchers \ {d} : dpc'[e] = dpc[e] /\ dpos'[e] = dpos[e]
    BY <1>8, EventAfter DEF AckAndNext, AckInHand, client, Types
  <2>2. dpc'[d] = "read" \/ dpos'[d] = dpos[d] + 1
    BY <1>8 DEF AckAndNext, NextEvent, Goto
  <2>3. \A i \in 1 .. Len(events) : Live(i)' => Live(i)
    BY <1>8, <2>1, <2>2 DEF AckAndNext, Live, Unread
  <2> QED
    BY <1>8, <2>1, <2>3, NoneLiveAgain DEF AckAndNext, client
<1>9. ASSUME NEW d \in Dispatchers, Wake(d) PROVE SentOnce'
  <2>1. /\ dlast' = dlast /\ delivered' = delivered /\ events' = events
        /\ \A e \in Dispatchers \ {d} : dpc'[e] = dpc[e] /\ dpos'[e] = dpos[e]
    BY <1>9, EventAfter DEF Wake, stream, Types
  <2>2. dpc'[d] = "read" \/ dpos'[d] = dpos[d] + 1
    BY <1>9 DEF Wake, NextEvent, Goto
  <2>3. \A i \in 1 .. Len(events) : Live(i)' => Live(i)
    BY <1>9, <2>1, <2>2 DEF Wake, Live, Unread
  <2> QED
    BY <1>9, <2>1, <2>3, NoneLiveAgain DEF Wake, client
<1>10. ASSUME NEW d \in Dispatchers, ExceptAck(d) PROVE SentOnce'
  <2>1. /\ dlast' = dlast /\ delivered' = delivered /\ events' = events
        /\ \A e \in Dispatchers \ {d} : dpc'[e] = dpc[e] /\ dpos'[e] = dpos[e]
    BY <1>10, EventAfter DEF ExceptAck, AckInHand, client, Types
  <2>2. dpc'[d] = "read" \/ dpos'[d] = dpos[d] + 1
    BY <1>10 DEF ExceptAck, NextEvent, Goto
  <2>3. \A i \in 1 .. Len(events) : Live(i)' => Live(i)
    BY <1>10, <2>1, <2>2 DEF ExceptAck, Live, Unread
  <2> QED
    BY <1>10, <2>1, <2>3, NoneLiveAgain DEF ExceptAck, client
<1>11. ASSUME NEW d \in Dispatchers, Restart(d) PROVE SentOnce'
  <2>1. events' = events /\ \A i \in 1 .. Len(events) : Live(i)' => Live(i)
    BY <1>11 DEF Restart, Goto, stream, client, ends, budget, Live, Unread
  <2> QED
    BY <1>11, <2>1, NoneLiveAgain DEF Restart, client
<1>12. ASSUME NEW d \in Dispatchers, Raise(d) PROVE SentOnce'
  <2>1. events' = events /\ \A i \in 1 .. Len(events) : Live(i)' => Live(i)
    BY <1>12 DEF Raise, TaskOf, InHand, Goto, stream, client, Live, Unread
  <2> QED
    BY <1>12, <2>1, NoneLiveAgain DEF Raise, client
<1>13. ASSUME NEW d \in Dispatchers, Crash(d) PROVE SentOnce'
  <2>1. events' = events /\ \A i \in 1 .. Len(events) : Live(i)' => Live(i)
    BY <1>13 DEF Crash, Goto, stream, client, ends, Live, Unread
  <2> QED
    BY <1>13, <2>1, NoneLiveAgain DEF Crash, client
<1>14. CASE UNCHANGED vars
  <2>1. events' = events /\ \A i \in 1 .. Len(events) : Live(i)' => Live(i)
    BY <1>14 DEF vars, stream, control, client, ends, budget, Live, Unread
  <2> QED
    BY <1>14, <2>1, NoneLiveAgain DEF vars, client
<1> QED
  BY <1>1, <1>2, <1>3, <1>4, <1>5, <1>6, <1>7, <1>8, <1>9, <1>10, <1>11, <1>12, <1>13,
     <1>14 DEF Next, Dispatch

\* Positions without two of one task hold at most one of it.
LEMMA AtMostOne ==
  ASSUME NEW S, \A x, y \in S : x = y
  PROVE  Cardinality(S) <= 1
<1>1. CASE S = {}
  BY <1>1, FS_EmptySet
<1>2. CASE \E x \in S : TRUE
  <2>1. PICK x \in S : TRUE
    BY <1>2
  <2>2. S = {x}
    BY <2>1
  <2> QED
    BY <2>2, FS_Singleton
<1> QED
  BY <1>1, <1>2

-----------------------------------------------------------------------------
(* Theorems.                                                               *)

IInv == Types /\ Kept /\ BatchesApart /\ SentOnce

\* The inductive invariant holds throughout.
LEMMA Inductive == Spec => []IInv
<1>1. Init => IInv
  BY InitTypes, InitKept, InitSentOnce DEF IInv
<1>2. IInv /\ [Next]_vars => IInv'
  BY NextTypes, NextKept, NextApart, NextSentOnce DEF IInv
<1> QED
  BY <1>1, <1>2, PTL DEF Spec

\* The stream, the dispatchers and the counters of WebhookDispatch have their
\* types, and a dispatcher at a step of its loop has a delivered entry in hand.
THEOREM TypesProved == Spec => [](TypeOK /\ BusyHasEntry)
<1>1. IInv => TypeOK
  BY DEF IInv, Types, StreamOK, ControlOK, ClientOK, TypeOK
<1>2. IInv => BusyHasEntry
  <2> SUFFICES ASSUME IInv, NEW d \in Dispatchers, dpc[d] \in BusySteps
               PROVE  dpos[d] \in 1 .. delivered /\ InHand(d) \in Entries
    BY DEF BusyHasEntry
  <2>1. StreamOK /\ ControlOK
    BY DEF IInv, Types
  <2>2. InHand(d) \in Entries
    BY <2>1, EventInHand
  <2>3. dpos[d] \in 1 .. delivered
    BY <2>1 DEF StreamOK, ControlOK
  <2> QED
    BY <2>2, <2>3
<1> QED
  BY <1>1, <1>2, Inductive, PTL

\* webhook_dispatcher.py loses no event: it acknowledges one only when the
\* client has received it, it was given up, or a later copy is on the stream.
THEOREM NothingVanishesProved == Spec => []NothingVanishes
<1>1. IInv => NothingVanishes
  BY DEF IInv, Kept
<1> QED
  BY <1>1, Inductive, PTL

\* The client receives an event at most once more often than an answer of its
\* own was lost.
THEOREM DuplicatesExplainedProved == Spec => []DuplicatesExplained
<1>1. IInv => DuplicatesExplained
  BY DEF IInv, SentOnce
<1> QED
  BY <1>1, Inductive, PTL

\* At most one copy of an event can still be sent.
THEOREM OneLiveCopyProved == Spec => []OneLiveCopy
<1>1. IInv => OneLiveCopy
  <2> SUFFICES ASSUME IInv, NEW t \in Tasks
               PROVE  Cardinality({i \in 1 .. Len(events) : events[i].task = t /\ Live(i)}) <= 1
    BY DEF OneLiveCopy
  <2> QED
    BY AtMostOne DEF IInv, SentOnce, OneLive
<1> QED
  BY <1>1, Inductive, PTL
==============================================================================
