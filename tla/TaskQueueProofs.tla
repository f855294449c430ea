-------------------------- MODULE TaskQueueProofs --------------------------
(***************************************************************************)
(* Proofs about TaskQueue, for every set of tasks and workers, every batch *)
(* size, every kind of job and any number of exceptions, crashes and       *)
(* expiries.  First the inductive form of the type invariant, TypeInv;     *)
(* above it HandledOnceInv; above that StageInv, about the status of a     *)
(* task and its owner.  Each has one step for each action under its        *)
(* preservation lemma; the actions that neither read a batch nor put       *)
(* anything out are dealt with together (SteadyKeeps), and the steps along *)
(* a handler too (WorkerStageKeeps, GatewayStageKeeps).                    *)
(***************************************************************************)
EXTENDS TaskOutcomeInv, TLAPS

USE DEF gateway, store, queue, outputs, worker, budget

\* Rewriting a body, for the cache or for another student, gives a body.
LEMMA BodyTypes ==
  ASSUME NEW t \in Tasks, NEW b \in Bodies
  PROVE  /\ Artefact(b) \in Bodies
         /\ Addressed(t, b) \in Bodies
         /\ BodyFromCache(t, b) \in Bodies
         /\ CacheEntry(b) \in Bodies
  BY RequestAssumption DEF Artefact, Addressed, BodyFromCache, CacheEntry, Bodies, Owners

\* What a busy worker has in hand is an entry of the stream, and its task is one.
LEMMA CurType ==
  ASSUME TypeOK, InHand, NEW w \in Workers, wpc[w] \in BusySteps
  PROVE  /\ Cur(w) \in Tasks
         /\ wpos[w] \in 1 .. Len(stream)
         /\ NewBody(w) \in Bodies
<1>1. wpos[w] \in 1 .. Len(stream)
  BY DEF TypeOK, InHand
<1>2. Cur(w) \in Tasks
  BY <1>1 DEF TypeOK, Cur
<1> QED
  BY <1>1, <1>2, RequestAssumption DEF NewBody, Bodies, Owners

\* The ids read from or carried to a status document are owners.
LEMMA OwnerType ==
  ASSUME TypeOK
  PROVE  /\ \A t \in Tasks : status[t].owner \in Owners
         /\ \A w \in Workers : OwnerToWrite(w) \in Owners
  BY DEF TypeOK, StatusDocs, OwnerToWrite

\* An acknowledgement leaves the pending lists well formed.
LEMMA AckPel ==
  ASSUME TypeOK, NEW w \in Workers, delivered' = delivered,
         pel' = pel \/ pel' = [pel EXCEPT ![w] = AfterAck(w)]
  PROVE  pel' \in [Workers -> SUBSET (1 .. delivered')]
  BY DEF TypeOK, AfterAck

\* The two ways out of an entry: the next one of the batch, or the next read.
LEMMA NextEntryCases ==
  ASSUME TypeOK, NEW w \in Workers, NextEntry(w)
  PROVE  \/ /\ wpos[w] < wlast[w]
            /\ wpos' = [wpos EXCEPT ![w] = wpos[w] + 1]
            /\ wpc' = [wpc EXCEPT ![w] = "mark"]
         \/ /\ wpc' = [wpc EXCEPT ![w] = "read"]
            /\ wpos' = wpos
  BY DEF NextEntry, WorkerGoto, TypeOK

\* Either way out of an entry leaves the control variables well typed.
LEMMA NextEntryType ==
  ASSUME TypeOK, InHand, HoldsBody, NEW w \in Workers, wpc[w] \in BusySteps,
         NextEntry(w), LeaveHandler(w), wlast' = wlast, gpc' = gpc, gbody' = gbody
  PROVE  /\ wpos' \in [Workers -> Nat]
         /\ wpc' \in [Workers -> WorkerSteps]
         /\ wbody' \in [Workers -> Bodies \cup {NoBody}]
         /\ wseen' \in [Workers -> Owners]
         /\ InHand' /\ HoldsBody'
<1>1. /\ wbody' \in [Workers -> Bodies \cup {NoBody}]
      /\ wseen' \in [Workers -> Owners]
  BY DEF LeaveHandler, TypeOK, Owners
<1>2. CASE /\ wpos[w] < wlast[w]
           /\ wpos' = [wpos EXCEPT ![w] = wpos[w] + 1]
           /\ wpc' = [wpc EXCEPT ![w] = "mark"]
  <2>1. wpos' \in [Workers -> Nat] /\ wpc' \in [Workers -> WorkerSteps]
    BY <1>2 DEF TypeOK, WorkerSteps, BusySteps, HandlerSteps
  <2>2. InHand'
    <3>1. wpos[w] \in 1 .. wlast[w] /\ wlast[w] \in Nat
      BY DEF InHand, TypeOK
    <3>2. wpos'[w] \in 1 .. wlast'[w]
      <4>1. wpos'[w] = wpos[w] + 1
        BY <1>2 DEF TypeOK
      <4> QED
        BY <1>2, <3>1, <4>1
    <3>3. ASSUME NEW v \in Workers, v # w, wpc'[v] \in BusySteps
          PROVE  wpos'[v] \in 1 .. wlast'[v]
      BY <1>2, <3>3 DEF InHand, TypeOK
    <3> QED
      BY <3>2, <3>3 DEF InHand
  <2>3. HoldsBody'
    BY <1>2 DEF HoldsBody, LeaveHandler, TypeOK
  <2> QED
    BY <1>1, <2>1, <2>2, <2>3
<1>3. CASE wpc' = [wpc EXCEPT ![w] = "read"] /\ wpos' = wpos
  <2>1. wpos' \in [Workers -> Nat] /\ wpc' \in [Workers -> WorkerSteps]
    BY <1>3 DEF TypeOK, WorkerSteps
  <2>2. InHand'
    BY <1>3 DEF InHand, TypeOK, BusySteps, HandlerSteps, FailureSteps
  <2>3. HoldsBody'
    BY <1>3 DEF HoldsBody, LeaveHandler, TypeOK
  <2> QED
    BY <1>1, <2>1, <2>2, <2>3
<1> QED
  BY <1>2, <1>3, NextEntryCases

\* The initial state is well typed.
LEMMA TypeInit == Init => TypeInv
<1> SUFFICES ASSUME Init PROVE TypeInv
  OBVIOUS
<1>1. TypeOK
  BY RequestAssumption, BoundAssumption DEF Init, TypeOK, GatewaySteps, EnqueueSteps, WorkerSteps, StatusDocs, NoDoc, Owners
<1>2. InHand /\ HoldsBody
  BY DEF Init, InHand, HoldsBody, CachedSteps, BusySteps, HandlerSteps, FailureSteps
<1> QED
  BY <1>1, <1>2 DEF TypeInv

\* Every step keeps TypeInv.
LEMMA TypeNext == TypeInv /\ [Next]_vars => TypeInv'
<1> SUFFICES ASSUME TypeInv, [Next]_vars PROVE TypeInv'
  OBVIOUS
<1> USE RequestAssumption, BoundAssumption, BatchAssumption
<1> USE DEF TypeInv, TypeOK, InHand, HoldsBody, GatewaySteps, EnqueueSteps, CachedSteps, WorkerSteps, BusySteps, HandlerSteps, FailureSteps, GatewayGoto, WorkerGoto, Cur
<1>1. ASSUME NEW t \in Tasks, GatewayLookup(t) PROVE TypeInv'
  <2>1. CASE cache[WorkOf[t]] = NoBody
    BY <1>1, <2>1 DEF GatewayLookup, EnqueueOrder
  <2>2. CASE cache[WorkOf[t]] # NoBody
    <3>1. BodyFromCache(t, cache[WorkOf[t]]) \in Bodies
      BY <2>2, BodyTypes
    <3>2. /\ gpc' = [gpc EXCEPT ![t] = "cpend"]
          /\ gbody' = [gbody EXCEPT ![t] = BodyFromCache(t, cache[WorkOf[t]])]
      BY <1>1, <2>2 DEF GatewayLookup
    <3>3. gpc' \in [Tasks -> GatewaySteps] /\ gbody' \in [Tasks -> Bodies \cup {NoBody}]
      BY <3>1, <3>2
    <3>4. HoldsBody'
      BY <1>1, <3>1, <3>2 DEF GatewayLookup
    <3> QED
      BY <1>1, <3>3, <3>4 DEF GatewayLookup
  <2> QED
    BY <2>1, <2>2
<1>2. ASSUME NEW t \in Tasks, GatewaySetPending(t) PROVE TypeInv'
  BY <1>2 DEF GatewaySetPending, EnqueueOrder, SetStatus, StatusDocs, Statuses, Owners
<1>3. ASSUME NEW t \in Tasks, GatewayAdd(t) PROVE TypeInv'
  BY <1>3 DEF GatewayAdd, EnqueueOrder
<1>4. ASSUME NEW t \in Tasks, CachedSetPending(t) PROVE TypeInv'
  BY <1>4 DEF CachedSetPending, CachedOrder, SetStatus, StatusDocs, Statuses, Owners
<1>5. ASSUME NEW t \in Tasks, CachedSnapshot(t) PROVE TypeInv'
  BY <1>5 DEF CachedSnapshot, CachedOrder, StatusDocs
<1>6. ASSUME NEW t \in Tasks, CachedSetDone(t) PROVE TypeInv'
  BY <1>6 DEF CachedSetDone, CachedOrder, SetStatus, StatusDocs, Statuses
<1>7. ASSUME NEW t \in Tasks, CachedSetResult(t) PROVE TypeInv'
  BY <1>7 DEF CachedSetResult, CachedOrder, SetResult
<1>8. ASSUME NEW t \in Tasks, CachedWebhook(t) PROVE TypeInv'
  BY <1>8 DEF CachedWebhook, CachedOrder, EnqueueWebhook
<1>9. ASSUME NEW t \in Tasks, CachedPersist(t) PROVE TypeInv'
  <2>1. Artefact(gbody[t]) \in Bodies
    BY <1>9, BodyTypes DEF CachedPersist
  <2> QED
    BY <1>9, <2>1 DEF CachedPersist, CachedOrder, PersistRow
<1>10. ASSUME NEW t \in Tasks, GatewayReply(t) PROVE TypeInv'
  BY <1>10 DEF GatewayReply
<1>11. ASSUME NEW t \in Tasks, GatewayFail(t) PROVE TypeInv'
  BY <1>11 DEF GatewayFail
<1>12. ASSUME NEW w \in Workers, Read(w) PROVE TypeInv'
  <2> DEFINE last == delivered + BatchSize
  <2>1. /\ delivered \in Nat /\ Len(stream) \in Nat /\ delivered < Len(stream)
        /\ wpc[w] = "read"
    BY <1>12 DEF Read
  <2>2. BatchSize \in Nat /\ BatchSize > 0 /\ BatchSize <= Len(stream) - delivered
    BY <2>1 DEF BatchSize
  <2>3. /\ delivered < last /\ last <= Len(stream)
        /\ FirstUnread \in 1 .. last /\ last \in Nat /\ FirstUnread \in Nat
    BY <2>1, <2>2 DEF FirstUnread
  <2>4. /\ delivered' = last
        /\ pel' = [pel EXCEPT ![w] = @ \cup (FirstUnread .. last)]
        /\ wpos' = [wpos EXCEPT ![w] = FirstUnread]
        /\ wlast' = [wlast EXCEPT ![w] = last]
        /\ wpc' = [wpc EXCEPT ![w] = "mark"]
        /\ UNCHANGED <<stream, gateway, store, outputs, wbody, wseen, budget>>
    BY <1>12 DEF Read
  <2> HIDE DEF last
  <2>5. /\ delivered' \in 0 .. Len(stream')
        /\ pel' \in [Workers -> SUBSET (1 .. delivered')]
    <3>1. /\ 1 .. delivered \subseteq 1 .. last /\ FirstUnread .. last \subseteq 1 .. last
          /\ last \in 0 .. Len(stream)
      BY <2>1, <2>3
    <3>2. pel \in [Workers -> SUBSET (1 .. delivered)]
      OBVIOUS
    <3> QED
      BY <2>4, <3>1, <3>2
  <2>6. /\ wpos' \in [Workers -> Nat] /\ wlast' \in [Workers -> 0 .. delivered']
        /\ wpc' \in [Workers -> WorkerSteps]
    BY <2>1, <2>3, <2>4
  <2>7. InHand'
    BY <2>3, <2>4
  <2>8. HoldsBody'
    BY <2>4
  <2> QED
    BY <2>4, <2>5, <2>6, <2>7, <2>8
<1>13. ASSUME NEW w \in Workers, Mark(w) PROVE TypeInv'
  BY <1>13, CurType, OwnerType DEF Mark, HandlerOrder
<1>14. ASSUME NEW w \in Workers, SetProcessing(w) PROVE TypeInv'
  BY <1>14 DEF SetProcessing, HandlerOrder, SetStatus, OwnerToWrite, StatusDocs, Statuses
<1>15. ASSUME NEW w \in Workers, CacheLookup(w) PROVE TypeInv'
  <2>1. Cur(w) \in Tasks
    BY <1>15, CurType DEF CacheLookup
  <2>2. CASE cache[WorkOf[Cur(w)]] = NoBody
    BY <1>15, <2>1, <2>2 DEF CacheLookup
  <2>3. CASE cache[WorkOf[Cur(w)]] # NoBody
    <3> DEFINE b == BodyFromCache(Cur(w), cache[WorkOf[Cur(w)]])
    <3>1. b \in Bodies
      BY <2>1, <2>3, BodyTypes
    <3>2. wbody' = [wbody EXCEPT ![w] = b]
      BY <1>15, <2>3 DEF CacheLookup
    <3>3. \/ wpc' = [wpc EXCEPT ![w] = "complete"]
          \/ wpc' = [wpc EXCEPT ![w] = "persist"]
      BY <1>15, <2>3 DEF CacheLookup, HandlerOrder
    <3> HIDE DEF b
    <3>4. wbody' \in [Workers -> Bodies \cup {NoBody}] /\ wpc' \in [Workers -> WorkerSteps]
      BY <3>1, <3>2, <3>3
    <3>5. InHand' /\ HoldsBody'
      BY <1>15, <3>1, <3>2, <3>3 DEF CacheLookup
    <3> QED
      BY <1>15, <3>4, <3>5 DEF CacheLookup
  <2> QED
    BY <2>2, <2>3
<1>16. ASSUME NEW w \in Workers, Infer(w) PROVE TypeInv'
  <2>1. NewBody(w) \in Bodies
    BY <1>16, CurType DEF Infer
  <2> QED
    BY <1>16, <2>1 DEF Infer, HandlerOrder
<1>17. ASSUME NEW w \in Workers, CacheFill(w) PROVE TypeInv'
  <2>1. CacheEntry(wbody[w]) \in Bodies
    BY <1>17, CurType, BodyTypes DEF CacheFill
  <2> QED
    BY <1>17, <2>1 DEF CacheFill, HandlerOrder
<1>18. ASSUME NEW w \in Workers, Persist(w) PROVE TypeInv'
  <2>1. Cur(w) \in Tasks /\ Artefact(wbody[w]) \in Bodies
    BY <1>18, CurType, BodyTypes DEF Persist
  <2>2. rows' \in [Tasks -> Seq(Bodies)]
    BY <1>18, <2>1 DEF Persist, PersistRow
  <2> QED
    BY <1>18, <2>2 DEF Persist, HandlerOrder
<1>19. ASSUME NEW w \in Workers, Snapshot(w) PROVE TypeInv'
  BY <1>19, CurType, OwnerType DEF Snapshot, CompletionOrder
<1>20. ASSUME NEW w \in Workers, SetDone(w) PROVE TypeInv'
  BY <1>20 DEF SetDone, CompletionOrder, SetStatus, OwnerToWrite, StatusDocs, Statuses
<1>21. ASSUME NEW w \in Workers, StoreResult(w) PROVE TypeInv'
  BY <1>21 DEF StoreResult, CompletionOrder, SetResult, BodyToStore
<1>22. ASSUME NEW w \in Workers, Webhook(w) PROVE TypeInv'
  <2>1. Cur(w) \in Tasks
    BY <1>22, CurType DEF Webhook
  <2>2. hooks' \in [Tasks -> Seq(Bodies)]
    BY <1>22, <2>1 DEF Webhook, EnqueueWebhook
  <2> QED
    BY <1>22, <2>2 DEF Webhook, CompletionOrder
<1>23. ASSUME NEW w \in Workers, Ack(w) PROVE TypeInv'
  <2>1. /\ pel' \in [Workers -> SUBSET (1 .. delivered')]
    BY <1>23, AckPel DEF Ack
  <2>2. wpc[w] \in BusySteps /\ NextEntry(w) /\ LeaveHandler(w)
    BY <1>23 DEF Ack
  <2>3. /\ wpos' \in [Workers -> Nat]
        /\ wpc' \in [Workers -> WorkerSteps]
        /\ wbody' \in [Workers -> Bodies \cup {NoBody}]
        /\ wseen' \in [Workers -> Owners]
        /\ InHand' /\ HoldsBody'
    BY <1>23, <2>2, NextEntryType DEF Ack
  <2> QED
    BY <1>23, <2>1, <2>3 DEF Ack
<1>24. ASSUME NEW w \in Workers, FailGet(w) PROVE TypeInv'
  BY <1>24, CurType, OwnerType DEF FailGet, FailureOrder
<1>25. ASSUME NEW w \in Workers, SetFailed(w) PROVE TypeInv'
  BY <1>25 DEF SetFailed, FailureOrder, SetStatus, OwnerToWrite, StatusDocs, Statuses
<1>26. ASSUME NEW w \in Workers, FailAck(w) PROVE TypeInv'
  <2>1. /\ pel' \in [Workers -> SUBSET (1 .. delivered')]
    BY <1>26, AckPel DEF FailAck
  <2>2. wpc[w] \in BusySteps /\ NextEntry(w) /\ LeaveHandler(w)
    BY <1>26 DEF FailAck
  <2>3. /\ wpos' \in [Workers -> Nat]
        /\ wpc' \in [Workers -> WorkerSteps]
        /\ wbody' \in [Workers -> Bodies \cup {NoBody}]
        /\ wseen' \in [Workers -> Owners]
        /\ InHand' /\ HoldsBody'
    BY <1>26, <2>2, NextEntryType DEF FailAck
  <2> QED
    BY <1>26, <2>1, <2>3 DEF FailAck
<1>27. ASSUME NEW w \in Workers, Raise(w) PROVE TypeInv'
  <2>1. pel' \in [Workers -> SUBSET (1 .. delivered')]
    BY <1>27, AckPel DEF Raise
  <2>2. wpc' = [wpc EXCEPT ![w] = "failget"] /\ wpc[w] \in HandlerSteps
    BY <1>27 DEF Raise, FailureOrder
  <2>3. wpc' \in [Workers -> WorkerSteps] /\ InHand' /\ HoldsBody'
    BY <1>27, <2>2 DEF Raise
  <2>4. raises' \in 0 .. MaxRaises
    BY <1>27 DEF Raise
  <2> QED
    BY <1>27, <2>1, <2>3, <2>4 DEF Raise
<1>28. ASSUME NEW w \in Workers, Crash(w) PROVE TypeInv'
  BY <1>28 DEF Crash, LeaveHandler, Owners
<1>29. ASSUME NEW w \in Workers, Restart(w) PROVE TypeInv'
  BY <1>29 DEF Restart
<1>30. ASSUME NEW t \in Tasks, ExpireStatus(t) \/ ExpireResult(t) PROVE TypeInv'
  <2>1. NoDoc \in StatusDocs
    BY DEF NoDoc, StatusDocs, Owners
  <2> QED
    BY <1>30, <2>1 DEF ExpireStatus, ExpireResult
<1>31. ASSUME NEW k \in Works, ExpireCache(k) PROVE TypeInv'
  BY <1>31 DEF ExpireCache
<1>32. CASE UNCHANGED vars
  BY <1>32 DEF vars
<1> QED
  BY <1>1, <1>2, <1>3, <1>4, <1>5, <1>6, <1>7, <1>8, <1>9, <1>10, <1>11, <1>12, <1>13, <1>14, <1>15, <1>16, <1>17, <1>18, <1>19, <1>20, <1>21, <1>22, <1>23, <1>24, <1>25, <1>26, <1>27, <1>28, <1>29, <1>30, <1>31, <1>32 DEF Next, Gateway, Worker

(* The type invariant of the task queue holds in every reachable state, for *)
(* any number of tasks, workers, works and students, any kind of task, any  *)
(* batch size and any number of exceptions and crashes.                     *)
THEOREM TypeCorrect == Spec => []TypeOK
<1>1. TypeInv => TypeOK
  BY DEF TypeInv
<1> QED
  BY TypeInit, TypeNext, <1>1, PTL DEF Spec

-----------------------------------------------------------------------------
(* HandledOnce.  Most steps are steady: they put nothing out, move no       *)
(* position, and never go back to a step before the output.                 *)

Steady ==
  /\ stream' = stream /\ delivered' = delivered /\ rows' = rows /\ hooks' = hooks
  /\ wpos' = wpos /\ wlast' = wlast
  /\ \A w \in Workers :
       /\ wpc'[w] \in BusySteps => wpc[w] \in BusySteps
       /\ wpc'[w] \in BeforeRow => wpc[w] \in BeforeRow
       /\ wpc'[w] \in BeforeHook => wpc[w] \in BeforeHook
  /\ \A t \in Tasks :
       /\ gpc[t] \in PastAdd => gpc'[t] \in PastAdd
       /\ gpc'[t] \in GatewayBeforeHook => gpc[t] \in GatewayBeforeHook
       /\ gpc'[t] \in GatewayBeforeHook \cup {"row"} =>
            gpc[t] \in GatewayBeforeHook \cup {"row"}

\* A step that hands out no position, adds no entry and puts nothing out keeps
\* the invariant, if each program counter moves forward or stays.
LEMMA SteadyKeeps ==
  ASSUME HandledOnceInv, Steady
  PROVE  Claims' /\ Outputs' /\ HandledOnce'
<1> USE DEF HandledOnceInv, Steady
<1>1. StreamOnce' /\ BatchesDisjoint' /\ HandledOnce'
  BY DEF Claims, StreamOnce, BatchesDisjoint, HandledOnce
<1>2. AddedByGateway'
  BY DEF Claims, AddedByGateway, TypeInv, TypeOK
<1>3. UnreadUntouched' /\ BatchUntouched'
  BY DEF Outputs, UnreadUntouched, BatchUntouched, NothingOut
<1>4. CurrentUntouched' /\ GatewayUntouched'
  BY DEF Outputs, CurrentUntouched, GatewayUntouched, Cur
<1> QED
  BY <1>1, <1>2, <1>3, <1>4 DEF Claims, Outputs

\* A worker's move along its handler is steady when it does not go back.
LEMMA WorkerSteady ==
  ASSUME TypeOK, NEW w \in Workers, NEW s, wpc' = [wpc EXCEPT ![w] = s],
         s \in BusySteps => wpc[w] \in BusySteps,
         s \in BeforeRow => wpc[w] \in BeforeRow,
         s \in BeforeHook => wpc[w] \in BeforeHook,
         gpc' = gpc, stream' = stream, delivered' = delivered, rows' = rows,
         hooks' = hooks, wpos' = wpos, wlast' = wlast
  PROVE  Steady
  BY DEF Steady, TypeOK

\* So is a gateway's move along its handler.
LEMMA GatewaySteady ==
  ASSUME TypeOK, NEW t \in Tasks, NEW s, gpc' = [gpc EXCEPT ![t] = s],
         gpc[t] \in PastAdd => s \in PastAdd,
         s \in GatewayBeforeHook => gpc[t] \in GatewayBeforeHook,
         s \in GatewayBeforeHook \cup {"row"} =>
           gpc[t] \in GatewayBeforeHook \cup {"row"},
         UNCHANGED <<queue, outputs, worker>>
  PROVE  Steady
  BY DEF Steady, TypeOK

\* The task a worker has in hand is nobody else's.
LEMMA CurrentIsMine ==
  ASSUME HandledOnceInv, NEW w \in Workers, wpc[w] \in BusySteps
  PROVE  /\ gpc[Cur(w)] \in PastAdd
         /\ \A i \in (delivered + 1) .. Len(stream) : stream[i] # Cur(w)
         /\ \A v \in Workers : wpc[v] \in BusySteps =>
              /\ \A i \in (wpos[v] + 1) .. wlast[v] : stream[i] # Cur(w)
              /\ v # w => Cur(v) # Cur(w)
<1>1. /\ wpos[w] \in 1 .. wlast[w] /\ wlast[w] \in 0 .. delivered
      /\ delivered \in 0 .. Len(stream) /\ Len(stream) \in Nat
  BY DEF HandledOnceInv, TypeInv, TypeOK, InHand
<1>2. gpc[Cur(w)] \in PastAdd
  BY <1>1 DEF HandledOnceInv, Claims, AddedByGateway, Cur
<1>3. \A i \in 1 .. Len(stream) : i # wpos[w] => stream[i] # Cur(w)
  BY <1>1 DEF HandledOnceInv, Claims, StreamOnce, Cur
<1>4. \A i \in (delivered + 1) .. Len(stream) : stream[i] # Cur(w)
  BY <1>1, <1>3
<1>5. ASSUME NEW v \in Workers, wpc[v] \in BusySteps
      PROVE  /\ \A i \in (wpos[v] + 1) .. wlast[v] : stream[i] # Cur(w)
             /\ v # w => Cur(v) # Cur(w)
  <2>1. /\ wpos[v] \in 1 .. wlast[v] /\ wlast[v] \in 0 .. delivered
    BY <1>5 DEF HandledOnceInv, TypeInv, TypeOK, InHand
  <2>2. v # w => wlast[v] < wpos[w] \/ wlast[w] < wpos[v]
    BY <1>5 DEF HandledOnceInv, Claims, BatchesDisjoint
  <2>3. \A i \in wpos[v] .. wlast[v] : i \in 1 .. Len(stream) /\ (i = wpos[w] => v = w)
    BY <1>1, <2>1, <2>2
  <2>4. \A i \in (wpos[v] + 1) .. wlast[v] : i \in 1 .. Len(stream) /\ i # wpos[w]
    BY <1>1, <2>1, <2>3
  <2> QED
    BY <1>1, <1>3, <2>1, <2>3, <2>4 DEF Cur
<1> QED
  BY <1>2, <1>4, <1>5

\* The positions a read hands out are beyond all those handed out before.
LEMMA ReadKeeps ==
  ASSUME HandledOnceInv, NEW w \in Workers, Read(w)
  PROVE  Claims' /\ Outputs' /\ HandledOnce'
<1> DEFINE last == delivered + BatchSize
<1>1. /\ delivered \in Nat /\ Len(stream) \in Nat /\ delivered < Len(stream)
      /\ wpc[w] = "read"
  BY DEF Read, HandledOnceInv, TypeInv, TypeOK
<1>2. BatchSize \in Nat /\ BatchSize > 0 /\ BatchSize <= Len(stream) - delivered
  BY <1>1, BatchAssumption DEF BatchSize
<1>3. /\ delivered < last /\ last <= Len(stream) /\ last \in Nat
  BY <1>1, <1>2
<1>4. /\ delivered' = last
      /\ wpos' = [wpos EXCEPT ![w] = delivered + 1]
      /\ wlast' = [wlast EXCEPT ![w] = last]
      /\ wpc' = [wpc EXCEPT ![w] = "mark"]
      /\ stream' = stream /\ gpc' = gpc /\ rows' = rows /\ hooks' = hooks
  BY DEF Read, FirstUnread, WorkerGoto
<1> HIDE DEF last
<1>5. /\ wpc \in [Workers -> WorkerSteps] /\ wpos \in [Workers -> Nat]
      /\ wlast \in [Workers -> 0 .. delivered]
  BY DEF HandledOnceInv, TypeInv, TypeOK
<1>6. \A v \in Workers : v # w =>
        /\ wpc'[v] = wpc[v] /\ wpos'[v] = wpos[v] /\ wlast'[v] = wlast[v]
        /\ Cur(v)' = Cur(v)
  BY <1>4, <1>5 DEF Cur
<1>7. /\ wpc'[w] = "mark" /\ wpos'[w] = delivered + 1 /\ wlast'[w] = last
      /\ Cur(w)' = stream[delivered + 1]
  BY <1>4, <1>5 DEF Cur
<1>8. StreamOnce' /\ AddedByGateway' /\ HandledOnce' /\ GatewayUntouched'
  BY <1>4 DEF HandledOnceInv, Claims, StreamOnce, AddedByGateway, HandledOnce,
              Outputs, GatewayUntouched
<1>9. BatchesDisjoint'
  <2>1. \A v \in Workers : wlast[v] \in Nat /\ wlast[v] <= delivered
    BY <1>1, <1>5
  <2> QED
    BY <1>1, <1>6, <1>7, <2>1 DEF HandledOnceInv, Claims, BatchesDisjoint
<1>10. \A i \in (delivered + 1) .. Len(stream) : NothingOut(stream[i])
  BY DEF HandledOnceInv, Outputs, UnreadUntouched
<1>11. UnreadUntouched'
  BY <1>1, <1>3, <1>4, <1>10 DEF UnreadUntouched, NothingOut
<1>12. BatchUntouched'
  <2>1. \A i \in (wpos'[w] + 1) .. wlast'[w] : NothingOut(stream[i])
    BY <1>1, <1>3, <1>7, <1>10
  <2> QED
    BY <1>4, <1>6, <2>1 DEF HandledOnceInv, Outputs, BatchUntouched, NothingOut
<1>13. CurrentUntouched'
  <2>1. NothingOut(Cur(w)')
    BY <1>1, <1>3, <1>7, <1>10
  <2> QED
    BY <1>4, <1>6, <2>1 DEF HandledOnceInv, Outputs, CurrentUntouched, NothingOut
<1> QED
  BY <1>8, <1>9, <1>11, <1>12, <1>13 DEF Claims, Outputs

\* Moving on in a batch: the next entry is one of those nothing was put out for.
LEMMA NextEntryKeeps ==
  ASSUME HandledOnceInv, NEW w \in Workers, wpc[w] \in BusySteps, NextEntry(w),
         gpc' = gpc, stream' = stream, delivered' = delivered, rows' = rows,
         hooks' = hooks, wlast' = wlast
  PROVE  Claims' /\ Outputs' /\ HandledOnce'
<1>1. /\ wpc \in [Workers -> WorkerSteps] /\ wpos \in [Workers -> Nat]
      /\ wlast \in [Workers -> 0 .. delivered] /\ TypeOK
      /\ delivered \in Nat /\ wpos[w] \in Nat /\ wlast[w] \in Nat
  <2>1. TypeOK /\ delivered \in 0 .. Len(stream)
    BY DEF HandledOnceInv, TypeInv, TypeOK
  <2>2. wlast \in [Workers -> 0 .. delivered] /\ wpos \in [Workers -> Nat]
    BY <2>1 DEF TypeOK
  <2>3. wpc \in [Workers -> WorkerSteps] /\ stream \in Seq(Tasks)
    BY <2>1 DEF TypeOK
  <2> QED
    BY <2>1, <2>2, <2>3
<1>2. StreamOnce' /\ AddedByGateway' /\ HandledOnce' /\ GatewayUntouched' /\ UnreadUntouched'
  BY DEF HandledOnceInv, Claims, StreamOnce, AddedByGateway, HandledOnce,
         Outputs, GatewayUntouched, UnreadUntouched, NothingOut
<1>3. CASE /\ wpos[w] < wlast[w]
           /\ wpos' = [wpos EXCEPT ![w] = wpos[w] + 1]
           /\ wpc' = [wpc EXCEPT ![w] = "mark"]
  <2>1. \A v \in Workers : v # w =>
          wpc'[v] = wpc[v] /\ wpos'[v] = wpos[v] /\ Cur(v)' = Cur(v)
    BY <1>1, <1>3 DEF Cur
  <2>2. wpos'[w] = wpos[w] + 1 /\ Cur(w)' = stream[wpos[w] + 1]
    BY <1>1, <1>3 DEF Cur
  <2>3. BatchesDisjoint'
    BY <1>1, <2>1, <2>2 DEF HandledOnceInv, Claims, BatchesDisjoint
  <2>4. \A i \in (wpos[w] + 1) .. wlast[w] : NothingOut(stream[i])
    BY DEF HandledOnceInv, Outputs, BatchUntouched
  <2>5. BatchUntouched'
    <3>1. \A i \in (wpos'[w] + 1) .. wlast[w] : NothingOut(stream[i])
      BY <1>1, <2>2, <2>4
    <3> QED
      BY <2>1, <3>1 DEF HandledOnceInv, Outputs, BatchUntouched, NothingOut
  <2>6. CurrentUntouched'
    <3>1. NothingOut(Cur(w)')
      BY <1>1, <1>3, <2>2, <2>4
    <3> QED
      BY <2>1, <3>1 DEF HandledOnceInv, Outputs, CurrentUntouched, NothingOut
  <2> QED
    BY <1>2, <2>3, <2>5, <2>6 DEF Claims, Outputs
<1>4. CASE wpc' = [wpc EXCEPT ![w] = "read"] /\ wpos' = wpos
  <2>1. Steady
    BY <1>1, <1>4, WorkerSteady DEF BusySteps, HandlerSteps, FailureSteps, BeforeRow, BeforeHook
  <2> QED
    BY <2>1, SteadyKeeps
<1> QED
  BY <1>1, <1>3, <1>4, NextEntryCases

\* A task on its way to the stream is not on it.
LEMMA NotOnStream ==
  ASSUME HandledOnceInv, NEW t \in Tasks, gpc[t] \notin PastAdd
  PROVE  \A i \in 1 .. Len(stream) : stream[i] # t
  BY DEF HandledOnceInv, Claims, AddedByGateway

\* The gateway's XADD: the new entry's task has nothing out and is on no batch.
LEMMA AddKeeps ==
  ASSUME HandledOnceInv, NEW t \in Tasks, GatewayAdd(t)
  PROVE  Claims' /\ Outputs' /\ HandledOnce'
<1>1. /\ gpc[t] = "xadd" /\ gpc' = [gpc EXCEPT ![t] = "reply"]
      /\ stream' = Append(stream, t)
      /\ delivered' = delivered /\ rows' = rows /\ hooks' = hooks
      /\ wpc' = wpc /\ wpos' = wpos /\ wlast' = wlast
  BY DEF GatewayAdd, GatewayGoto, EnqueueOrder
<1>2. /\ stream \in Seq(Tasks) /\ gpc \in [Tasks -> GatewaySteps]
      /\ delivered \in 0 .. Len(stream) /\ Len(stream) \in Nat
      /\ wlast \in [Workers -> 0 .. delivered] /\ wpos \in [Workers -> Nat]
  BY DEF HandledOnceInv, TypeInv, TypeOK
<1>3. /\ Len(stream') = Len(stream) + 1
      /\ \A i \in 1 .. Len(stream) : stream'[i] = stream[i]
      /\ stream'[Len(stream) + 1] = t
  BY <1>1, <1>2
<1>4. \A i \in 1 .. Len(stream) : stream[i] # t
  BY <1>1, NotOnStream DEF PastAdd
<1>5. NothingOut(t)
  BY <1>1 DEF HandledOnceInv, Outputs, GatewayUntouched, NothingOut,
              GatewayBeforeHook, GatewaySteps, EnqueueSteps, PastAdd
<1>6. StreamOnce'
  BY <1>2, <1>3, <1>4 DEF HandledOnceInv, Claims, StreamOnce
<1>7. AddedByGateway'
  <2>1. \A i \in 1 .. Len(stream) : stream[i] \in Tasks
    BY <1>2
  <2> QED
    BY <1>1, <1>2, <1>3, <1>4, <2>1 DEF HandledOnceInv, Claims, AddedByGateway, PastAdd
<1>8. BatchesDisjoint' /\ HandledOnce'
  BY <1>1 DEF HandledOnceInv, Claims, BatchesDisjoint, HandledOnce
<1>9. UnreadUntouched'
  BY <1>1, <1>2, <1>3, <1>5 DEF HandledOnceInv, Outputs, UnreadUntouched, NothingOut
<1>10. \A w \in Workers : wpc[w] \in BusySteps => Cur(w)' = Cur(w)
  BY <1>1, <1>2, <1>3 DEF HandledOnceInv, TypeInv, InHand, Cur
<1>11. BatchUntouched'
  BY <1>1, <1>2, <1>3 DEF HandledOnceInv, Outputs, BatchUntouched, NothingOut
<1>12. CurrentUntouched'
  BY <1>1, <1>10 DEF HandledOnceInv, Outputs, CurrentUntouched,
                     BusySteps, HandlerSteps, BeforeRow, BeforeHook
<1>13. GatewayUntouched'
  BY <1>1, <1>2 DEF HandledOnceInv, Outputs, GatewayUntouched, GatewayBeforeHook, PastAdd
<1> QED
  BY <1>6, <1>7, <1>8, <1>9, <1>11, <1>12, <1>13 DEF Claims, Outputs

\* A worker's output for the task in its hand is the first one.
LEMMA PersistKeeps ==
  ASSUME HandledOnceInv, NEW w \in Workers, Persist(w)
  PROVE  Claims' /\ Outputs' /\ HandledOnce'
<1> DEFINE t == Cur(w)
<1>1. /\ wpc[w] = "persist" /\ wpc[w] \in BusySteps /\ wpc[w] \in BeforeRow
      /\ rows' = [rows EXCEPT ![t] = Append(rows[t], Artefact(wbody[w]))]
      /\ wpc' = [wpc EXCEPT ![w] = HandlerOrder.persist]
      /\ stream' = stream /\ delivered' = delivered /\ hooks' = hooks
      /\ gpc' = gpc /\ wpos' = wpos /\ wlast' = wlast
  BY DEF Persist, PersistRow, WorkerGoto, BusySteps, HandlerSteps, BeforeRow
<1>2. t \in Tasks /\ rows \in [Tasks -> Seq(Bodies)] /\ TypeOK
  BY <1>1, CurType DEF HandledOnceInv, TypeInv, TypeOK
<1>3. rows[t] = <<>>
  BY <1>1 DEF HandledOnceInv, Outputs, CurrentUntouched
<1>4. Artefact(wbody[w]) \in Bodies
  BY <1>1, <1>2, BodyTypes DEF HandledOnceInv, TypeInv, HoldsBody
<1>5. /\ HandlerOrder.persist \in BusySteps
      /\ HandlerOrder.persist \notin BeforeRow
  BY KindAssumption DEF HandlerOrder, BusySteps, HandlerSteps, BeforeRow
<1>6. /\ \A v \in Workers : v # w => wpc'[v] = wpc[v] /\ Cur(v)' = Cur(v)
      /\ wpc'[w] = HandlerOrder.persist /\ Cur(w)' = t
      /\ \A v \in Workers : wpc'[v] \in BusySteps => wpc[v] \in BusySteps
  BY <1>1, <1>2 DEF TypeOK, Cur
<1>7. /\ gpc[t] \in PastAdd
      /\ \A i \in (delivered + 1) .. Len(stream) : stream[i] # t
      /\ \A v \in Workers : wpc[v] \in BusySteps =>
           /\ \A i \in (wpos[v] + 1) .. wlast[v] : stream[i] # t
           /\ v # w => Cur(v) # t
  BY <1>1, CurrentIsMine
<1> HIDE DEF t
<1>8. HandledOnce'
  BY <1>1, <1>2, <1>3, <1>4 DEF HandledOnceInv, HandledOnce
<1>9. \A u : u # t => rows'[u] = rows[u]
  BY <1>1, <1>2
<1>10. StreamOnce' /\ AddedByGateway' /\ BatchesDisjoint'
  BY <1>1, <1>6 DEF HandledOnceInv, Claims, StreamOnce, AddedByGateway, BatchesDisjoint
<1>11. UnreadUntouched' /\ BatchUntouched'
  BY <1>1, <1>6, <1>7, <1>9 DEF HandledOnceInv, Outputs, UnreadUntouched, BatchUntouched, NothingOut
<1>12. CurrentUntouched'
  <2>1. BeforeRow \subseteq BusySteps /\ BeforeHook \subseteq BusySteps
    BY DEF BeforeRow, BeforeHook, BusySteps, HandlerSteps
  <2>2. hooks[t] = <<>>
    BY <1>1, <1>6 DEF HandledOnceInv, Outputs, CurrentUntouched, BeforeHook, HandlerSteps, t
  <2> QED
    BY <1>1, <1>5, <1>6, <1>7, <1>9, <2>1, <2>2 DEF HandledOnceInv, Outputs, CurrentUntouched
<1>13. GatewayUntouched'
  BY <1>1, <1>7, <1>9 DEF HandledOnceInv, Outputs, GatewayUntouched,
                         GatewayBeforeHook, PastAdd
<1> QED
  BY <1>8, <1>10, <1>11, <1>12, <1>13 DEF Claims, Outputs

\* The same for the webhook event a worker queues.
LEMMA WebhookKeeps ==
  ASSUME HandledOnceInv, NEW w \in Workers, Webhook(w)
  PROVE  Claims' /\ Outputs' /\ HandledOnce'
<1> DEFINE t == Cur(w)
<1>1. /\ wpc[w] = "webhook" /\ wpc[w] \in BusySteps /\ wpc[w] \in BeforeHook
      /\ hooks' = [hooks EXCEPT ![t] = Append(hooks[t], wbody[w])]
      /\ wpc' = [wpc EXCEPT ![w] = "ack"]
      /\ stream' = stream /\ delivered' = delivered /\ rows' = rows
      /\ gpc' = gpc /\ wpos' = wpos /\ wlast' = wlast
  BY DEF Webhook, EnqueueWebhook, WorkerGoto, CompletionOrder, BusySteps, HandlerSteps, BeforeHook
<1>2. t \in Tasks /\ hooks \in [Tasks -> Seq(Bodies)] /\ TypeOK
  BY <1>1, CurType DEF HandledOnceInv, TypeInv, TypeOK
<1>3. hooks[t] = <<>>
  BY <1>1 DEF HandledOnceInv, Outputs, CurrentUntouched
<1>4. wbody[w] \in Bodies
  BY <1>1 DEF HandledOnceInv, TypeInv, HoldsBody
<1>5. "ack" \in BusySteps /\ "ack" \notin BeforeRow /\ "ack" \notin BeforeHook
  BY DEF BusySteps, HandlerSteps, BeforeRow, BeforeHook
<1>6. /\ \A v \in Workers : v # w => wpc'[v] = wpc[v] /\ Cur(v)' = Cur(v)
      /\ wpc'[w] = "ack"
      /\ \A v \in Workers : wpc'[v] \in BusySteps => wpc[v] \in BusySteps
  BY <1>1, <1>2 DEF TypeOK, Cur
<1>7. /\ gpc[t] \in PastAdd
      /\ \A i \in (delivered + 1) .. Len(stream) : stream[i] # t
      /\ \A v \in Workers : wpc[v] \in BusySteps =>
           /\ \A i \in (wpos[v] + 1) .. wlast[v] : stream[i] # t
           /\ v # w => Cur(v) # t
  BY <1>1, CurrentIsMine
<1> HIDE DEF t
<1>8. HandledOnce'
  BY <1>1, <1>2, <1>3, <1>4 DEF HandledOnceInv, HandledOnce
<1>9. \A u : u # t => hooks'[u] = hooks[u]
  BY <1>1, <1>2
<1>10. StreamOnce' /\ AddedByGateway' /\ BatchesDisjoint'
  BY <1>1, <1>6 DEF HandledOnceInv, Claims, StreamOnce, AddedByGateway, BatchesDisjoint
<1>11. UnreadUntouched' /\ BatchUntouched'
  BY <1>1, <1>6, <1>7, <1>9 DEF HandledOnceInv, Outputs, UnreadUntouched, BatchUntouched, NothingOut
<1>12. CurrentUntouched'
  <2>1. BeforeRow \subseteq BusySteps /\ BeforeHook \subseteq BusySteps
    BY DEF BeforeRow, BeforeHook, BusySteps, HandlerSteps
  <2> QED
    BY <1>1, <1>5, <1>6, <1>7, <1>9, <2>1 DEF HandledOnceInv, Outputs, CurrentUntouched
<1>13. GatewayUntouched'
  BY <1>1, <1>7, <1>9 DEF HandledOnceInv, Outputs, GatewayUntouched,
                         GatewayBeforeHook, PastAdd
<1> QED
  BY <1>8, <1>10, <1>11, <1>12, <1>13 DEF Claims, Outputs

\* What the gateway puts out on a cache hit is for a task on no stream.
LEMMA CachedOutputKeeps ==
  ASSUME HandledOnceInv, NEW t \in Tasks, CachedWebhook(t) \/ CachedPersist(t)
  PROVE  Claims' /\ Outputs' /\ HandledOnce'
<1>1. /\ stream' = stream /\ delivered' = delivered /\ wpc' = wpc
      /\ wpos' = wpos /\ wlast' = wlast
      /\ \/ /\ gpc[t] = "webhook" /\ rows' = rows
            /\ hooks' = [hooks EXCEPT ![t] = Append(hooks[t], gbody[t])]
            /\ gpc' = [gpc EXCEPT ![t] = CachedOrder.webhook]
         \/ /\ gpc[t] = "row" /\ hooks' = hooks
            /\ rows' = [rows EXCEPT ![t] = Append(rows[t], Artefact(gbody[t]))]
            /\ gpc' = [gpc EXCEPT ![t] = "reply"]
  BY DEF CachedWebhook, CachedPersist, EnqueueWebhook, PersistRow, GatewayGoto, CachedOrder
<1>2. /\ gpc \in [Tasks -> GatewaySteps] /\ stream \in Seq(Tasks)
      /\ rows \in [Tasks -> Seq(Bodies)] /\ hooks \in [Tasks -> Seq(Bodies)]
      /\ delivered \in 0 .. Len(stream) /\ Len(stream) \in Nat
      /\ wlast \in [Workers -> 0 .. delivered] /\ wpos \in [Workers -> Nat]
  BY DEF HandledOnceInv, TypeInv, TypeOK
<1>3. gbody[t] \in Bodies /\ Artefact(gbody[t]) \in Bodies
  <2>1. gbody[t] \in Bodies
    BY <1>1 DEF HandledOnceInv, TypeInv, HoldsBody, CachedSteps
  <2> QED
    BY <2>1, BodyTypes
<1>4. \A i \in 1 .. Len(stream) : stream[i] # t
  BY <1>1, NotOnStream DEF PastAdd
<1>5. /\ gpc[t] = "webhook" => hooks[t] = <<>>
      /\ gpc[t] = "row" => rows[t] = <<>>
  BY DEF HandledOnceInv, Outputs, GatewayUntouched, GatewayBeforeHook,
         GatewaySteps, CachedSteps, PastAdd
<1>6. HandledOnce'
  <2>1. CASE gpc[t] = "webhook"
    <3>1. rows' = rows /\ hooks' = [hooks EXCEPT ![t] = Append(<<>>, gbody[t])]
      BY <1>1, <1>5, <2>1
    <3> QED
      BY <1>2, <1>3, <3>1 DEF HandledOnceInv, HandledOnce
  <2>2. CASE gpc[t] = "row"
    <3>1. hooks' = hooks /\ rows' = [rows EXCEPT ![t] = Append(<<>>, Artefact(gbody[t]))]
      BY <1>1, <1>5, <2>2
    <3> QED
      BY <1>2, <1>3, <3>1 DEF HandledOnceInv, HandledOnce
  <2> QED
    BY <1>1, <2>1, <2>2
<1>7. \A u \in Tasks : u # t => rows'[u] = rows[u] /\ hooks'[u] = hooks[u]
  <2>1. CASE gpc[t] = "webhook"
    BY <1>1, <1>2, <2>1
  <2>2. CASE gpc[t] = "row"
    BY <1>1, <1>2, <2>2
  <2> QED
    BY <1>1, <2>1, <2>2
<1>8. \A u \in Tasks : u # t => gpc'[u] = gpc[u]
  BY <1>1, <1>2
<1>9. \A i \in 1 .. Len(stream) : stream[i] \in Tasks
  BY <1>2
<1>10. StreamOnce' /\ AddedByGateway' /\ BatchesDisjoint'
  BY <1>1, <1>4, <1>8, <1>9 DEF HandledOnceInv, Claims, StreamOnce, AddedByGateway, BatchesDisjoint
<1>11. UnreadUntouched'
  BY <1>1, <1>2, <1>4, <1>7, <1>9 DEF HandledOnceInv, Outputs, UnreadUntouched, NothingOut
<1>12. BatchUntouched'
  <2>1. \A w \in Workers : \A i \in (wpos[w] + 1) .. wlast[w] : i \in 1 .. Len(stream)
    BY <1>2
  <2> QED
    BY <1>1, <1>4, <1>7, <1>9, <2>1 DEF HandledOnceInv, Outputs, BatchUntouched, NothingOut
<1>13. CurrentUntouched'
  <2>1. \A w \in Workers : wpc[w] \in BusySteps =>
          Cur(w) # t /\ Cur(w) \in Tasks /\ Cur(w)' = Cur(w)
    <3>1. \A w \in Workers : wpc[w] \in BusySteps => wpos[w] \in 1 .. Len(stream)
      BY <1>2, CurType DEF HandledOnceInv, TypeInv
    <3> QED
      BY <1>1, <1>4, <1>9, <3>1 DEF Cur
  <2>2. BeforeRow \subseteq BusySteps /\ BeforeHook \subseteq BusySteps
    BY DEF BeforeRow, BeforeHook, BusySteps, HandlerSteps
  <2> QED
    BY <1>1, <1>7, <2>1, <2>2 DEF HandledOnceInv, Outputs, CurrentUntouched
<1>14. GatewayUntouched'
  <2>1. /\ gpc'[t] \notin GatewayBeforeHook
        /\ gpc'[t] \in GatewayBeforeHook \cup {"row"} => rows'[t] = <<>>
    BY <1>1, <1>2 DEF CachedOrder, HandledOnceInv, Outputs, GatewayUntouched,
                      GatewayBeforeHook, GatewaySteps, CachedSteps, PastAdd
  <2> QED
    BY <1>7, <1>8, <2>1 DEF HandledOnceInv, Outputs, GatewayUntouched
<1> QED
  BY <1>6, <1>10, <1>11, <1>12, <1>13, <1>14 DEF Claims, Outputs

\* Nothing is out and nobody is busy initially.
LEMMA HandledOnceInit == Init => HandledOnceInv
<1> SUFFICES ASSUME Init PROVE HandledOnceInv
  OBVIOUS
<1>1. TypeInv
  BY TypeInit
<1>2. Claims
  BY DEF Init, Claims, StreamOnce, AddedByGateway, BatchesDisjoint, BusySteps, HandlerSteps, FailureSteps
<1>3. Outputs /\ HandledOnce
  BY DEF Init, Outputs, UnreadUntouched, BatchUntouched, CurrentUntouched, GatewayUntouched,
         BusySteps, HandlerSteps, FailureSteps, BeforeRow, BeforeHook, HandledOnce
<1> QED
  BY <1>1, <1>2, <1>3 DEF HandledOnceInv

\* The gateway's steps that put nothing out and add nothing.
LEMMA GatewayKeeps ==
  ASSUME HandledOnceInv, NEW t \in Tasks,
         Gateway(t) \/ GatewayFail(t)
  PROVE  Claims' /\ Outputs' /\ HandledOnce'
<1> TypeOK
  BY DEF HandledOnceInv, TypeInv
<1> USE DEF GatewayGoto, GatewayBeforeHook, GatewaySteps, EnqueueSteps, CachedSteps, PastAdd
<1>1. CASE GatewayLookup(t)
  <2>1. Steady
    BY <1>1, GatewaySteady DEF GatewayLookup, EnqueueOrder
  <2> QED
    BY <2>1, SteadyKeeps
<1>2. CASE GatewaySetPending(t)
  <2>1. Steady
    BY <1>2, GatewaySteady DEF GatewaySetPending, EnqueueOrder
  <2> QED
    BY <2>1, SteadyKeeps
<1>3. CASE CachedSetPending(t)
  <2>1. Steady
    BY <1>3, GatewaySteady DEF CachedSetPending, CachedOrder
  <2> QED
    BY <2>1, SteadyKeeps
<1>4. CASE CachedSnapshot(t)
  <2>1. Steady
    BY <1>4, GatewaySteady DEF CachedSnapshot, CachedOrder
  <2> QED
    BY <2>1, SteadyKeeps
<1>5. CASE CachedSetDone(t)
  <2>1. Steady
    BY <1>5, GatewaySteady DEF CachedSetDone, CachedOrder
  <2> QED
    BY <2>1, SteadyKeeps
<1>6. CASE CachedSetResult(t)
  <2>1. Steady
    BY <1>6, GatewaySteady DEF CachedSetResult, CachedOrder
  <2> QED
    BY <2>1, SteadyKeeps
<1>7. CASE GatewayReply(t)
  <2>1. Steady
    BY <1>7, GatewaySteady DEF GatewayReply
  <2> QED
    BY <2>1, SteadyKeeps
<1>8. CASE GatewayFail(t)
  <2>1. Steady
    BY <1>8, GatewaySteady DEF GatewayFail
  <2> QED
    BY <2>1, SteadyKeeps
<1> QED
  BY <1>1, <1>2, <1>3, <1>4, <1>5, <1>6, <1>7, <1>8, AddKeeps, CachedOutputKeeps DEF Gateway

\* Every step of a worker keeps the invariant.
LEMMA WorkerKeeps ==
  ASSUME HandledOnceInv, NEW w \in Workers,
         Worker(w) \/ Raise(w) \/ Crash(w)
  PROVE  Claims' /\ Outputs' /\ HandledOnce'
<1> TypeOK
  BY DEF HandledOnceInv, TypeInv
<1> USE KindAssumption
<1> USE DEF WorkerGoto, BusySteps, HandlerSteps, FailureSteps, BeforeRow, BeforeHook
<1>1. CASE Mark(w)
  <2>1. Steady
    BY <1>1, WorkerSteady DEF Mark, HandlerOrder
  <2> QED
    BY <2>1, SteadyKeeps
<1>2. CASE SetProcessing(w)
  <2>1. Steady
    BY <1>2, WorkerSteady DEF SetProcessing, HandlerOrder
  <2> QED
    BY <2>1, SteadyKeeps
<1>3. CASE CacheLookup(w)
  <2>1. Steady
    BY <1>3, WorkerSteady DEF CacheLookup, HandlerOrder
  <2> QED
    BY <2>1, SteadyKeeps
<1>4. CASE Infer(w)
  <2>1. Steady
    BY <1>4, WorkerSteady DEF Infer, HandlerOrder
  <2> QED
    BY <2>1, SteadyKeeps
<1>5. CASE CacheFill(w)
  <2>1. Steady
    BY <1>5, WorkerSteady DEF CacheFill, HandlerOrder
  <2> QED
    BY <2>1, SteadyKeeps
<1>6. CASE Snapshot(w)
  <2>1. Steady
    BY <1>6, WorkerSteady DEF Snapshot, CompletionOrder
  <2> QED
    BY <2>1, SteadyKeeps
<1>7. CASE SetDone(w)
  <2>1. Steady
    BY <1>7, WorkerSteady DEF SetDone, CompletionOrder
  <2> QED
    BY <2>1, SteadyKeeps
<1>8. CASE StoreResult(w)
  <2>1. Steady
    BY <1>8, WorkerSteady DEF StoreResult, CompletionOrder
  <2> QED
    BY <2>1, SteadyKeeps
<1>9. CASE FailGet(w)
  <2>1. Steady
    BY <1>9, WorkerSteady DEF FailGet, FailureOrder
  <2> QED
    BY <2>1, SteadyKeeps
<1>10. CASE SetFailed(w)
  <2>1. Steady
    BY <1>10, WorkerSteady DEF SetFailed, FailureOrder
  <2> QED
    BY <2>1, SteadyKeeps
<1>11. CASE Raise(w)
  <2>1. Steady
    BY <1>11, WorkerSteady DEF Raise, FailureOrder
  <2> QED
    BY <2>1, SteadyKeeps
<1>12. CASE Crash(w)
  <2>1. Steady
    BY <1>12, WorkerSteady DEF Crash
  <2> QED
    BY <2>1, SteadyKeeps
<1>13. CASE Restart(w)
  <2>1. Steady
    BY <1>13, WorkerSteady DEF Restart
  <2> QED
    BY <2>1, SteadyKeeps
<1>14. CASE Ack(w)
  BY <1>14, NextEntryKeeps DEF Ack
<1>15. CASE FailAck(w)
  BY <1>15, NextEntryKeeps DEF FailAck
<1> QED
  BY <1>1, <1>2, <1>3, <1>4, <1>5, <1>6, <1>7, <1>8, <1>9, <1>10, <1>11, <1>12, <1>13, <1>14, <1>15, ReadKeeps, PersistKeeps, WebhookKeeps DEF Worker

\* A document that expires disturbs none of it.
LEMMA ExpiryKeeps ==
  ASSUME HandledOnceInv,
         \/ \E t \in Tasks : ExpireStatus(t) \/ ExpireResult(t)
         \/ \E k \in Works : ExpireCache(k)
         \/ UNCHANGED vars
  PROVE  Claims' /\ Outputs' /\ HandledOnce'
<1>1. Steady
  BY DEF ExpireStatus, ExpireResult, ExpireCache, vars, Steady
<1> QED
  BY <1>1, SteadyKeeps

\* Every step keeps HandledOnceInv.
LEMMA HandledOnceNext == HandledOnceInv /\ [Next]_vars => HandledOnceInv'
<1> SUFFICES ASSUME HandledOnceInv, [Next]_vars PROVE HandledOnceInv'
  OBVIOUS
<1>1. TypeInv'
  BY TypeNext DEF HandledOnceInv
<1>2. Claims' /\ Outputs' /\ HandledOnce'
  BY GatewayKeeps, WorkerKeeps, ExpiryKeeps DEF Next
<1> QED
  BY <1>1, <1>2 DEF HandledOnceInv

(* No task is ever handled twice: at most one row in the database and one   *)
(* event on the webhook stream, however many workers share the stream and   *)
(* whatever raises, crashes, restarts or expires.                           *)
THEOREM HandledAtMostOnce == Spec => []HandledOnce
<1>1. HandledOnceInv => HandledOnce
  BY DEF HandledOnceInv
<1> QED
  BY HandledOnceInit, HandledOnceNext, <1>1, PTL DEF Spec

-----------------------------------------------------------------------------
(* How the entries of the stream move between waiting and a hand.          *)

\* The task a worker has in hand waits nowhere, is in no other hand, and its
\* gateway handler is past the XADD.
LEMMA CurrentAlone ==
  ASSUME HandledOnceInv, NEW w \in Workers, wpc[w] \in BusySteps
  PROVE  /\ Cur(w) \in Tasks
         /\ \A i \in 1 .. Len(stream) : WaitingAt(i) => stream[i] # Cur(w)
         /\ \A v \in Workers : v # w /\ wpc[v] \in BusySteps => Cur(v) # Cur(w)
         /\ \A t \in Tasks : gpc[t] \notin PastAdd => t # Cur(w)
<1>1. Cur(w) \in Tasks
  BY CurType DEF HandledOnceInv, TypeInv
<1>2. delivered \in Nat /\ Len(stream) \in Nat
  BY DEF HandledOnceInv, TypeInv, TypeOK
<1> QED
  BY <1>1, <1>2, CurrentIsMine DEF WaitingAt

\* A task before its XADD waits nowhere and is in no hand.
LEMMA BeforeAddAlone ==
  ASSUME HandledOnceInv, NEW t \in Tasks, gpc[t] \notin PastAdd
  PROVE  /\ \A i \in 1 .. Len(stream) : stream[i] # t
         /\ \A w \in Workers : wpc[w] \in BusySteps => Cur(w) # t
  BY NotOnStream, CurrentAlone

\* Worker w has no entry in hand any more, or takes up one that waited.
Advance(w) ==
  /\ stream' = stream
  /\ \A i \in 1 .. Len(stream) : WaitingAt(i)' => WaitingAt(i)
  /\ \A v \in Workers \ {w} : wpc'[v] = wpc[v] /\ Cur(v)' = Cur(v)
  /\ \/ wpc'[w] \in {"read", "down"}
     \/ /\ wpc'[w] = "mark"
        /\ wpos'[w] \in 1 .. Len(stream)
        /\ WaitingAt(wpos'[w])
        /\ Cur(w)' = stream[wpos'[w]]

\* XREADGROUP puts the first entry of a new batch into the worker's hand.
LEMMA ReadAdvances ==
  ASSUME HandledOnceInv, NEW w \in Workers, Read(w)
  PROVE  Advance(w)
<1> DEFINE last == delivered + BatchSize
<1>1. /\ delivered \in Nat /\ Len(stream) \in Nat /\ delivered < Len(stream)
      /\ wpc \in [Workers -> WorkerSteps] /\ wpos \in [Workers -> Nat]
      /\ wlast \in [Workers -> 0 .. delivered]
  BY DEF Read, HandledOnceInv, TypeInv, TypeOK
<1>2. BatchSize \in Nat /\ BatchSize > 0 /\ BatchSize <= Len(stream) - delivered
  BY <1>1, BatchAssumption DEF BatchSize
<1>3. delivered < last /\ last <= Len(stream) /\ last \in Nat
  BY <1>1, <1>2
<1>4. /\ delivered' = last /\ stream' = stream
      /\ wpos' = [wpos EXCEPT ![w] = delivered + 1]
      /\ wlast' = [wlast EXCEPT ![w] = last]
      /\ wpc' = [wpc EXCEPT ![w] = "mark"]
  BY DEF Read, FirstUnread, WorkerGoto
<1> HIDE DEF last
<1>5. \A v \in Workers : v # w =>
        wpc'[v] = wpc[v] /\ wpos'[v] = wpos[v] /\ wlast'[v] = wlast[v]
  BY <1>1, <1>4
<1>6. wpc'[w] = "mark" /\ wpos'[w] = delivered + 1 /\ wlast'[w] = last
  BY <1>1, <1>4
<1>7. ASSUME NEW i \in 1 .. Len(stream), WaitingAt(i)' PROVE WaitingAt(i)
  <2>1. CASE i > delivered'
    BY <1>1, <1>3, <1>4, <2>1 DEF WaitingAt
  <2>2. CASE \E v \in Workers : wpc'[v] \in BusySteps /\ i \in (wpos'[v] + 1) .. wlast'[v]
    <3>1. PICK v \in Workers : wpc'[v] \in BusySteps /\ i \in (wpos'[v] + 1) .. wlast'[v]
      BY <2>2
    <3>2. CASE v = w
      BY <1>1, <1>3, <1>6, <3>1, <3>2 DEF WaitingAt
    <3>3. CASE v # w
      BY <1>5, <3>1, <3>3 DEF WaitingAt
    <3> QED
      BY <3>2, <3>3
  <2> QED
    BY <1>7, <2>1, <2>2 DEF WaitingAt
<1>8. WaitingAt(wpos'[w]) /\ wpos'[w] \in 1 .. Len(stream)
  BY <1>1, <1>6 DEF WaitingAt
<1> QED
  BY <1>4, <1>5, <1>6, <1>7, <1>8 DEF Advance, Cur

\* The end of a handler puts the next entry of the batch into it, or none.
LEMMA NextEntryAdvances ==
  ASSUME HandledOnceInv, NEW w \in Workers, wpc[w] \in BusySteps, NextEntry(w),
         stream' = stream, delivered' = delivered, wlast' = wlast
  PROVE  Advance(w)
<1> TypeOK
  BY DEF HandledOnceInv, TypeInv
<1>1. /\ wpc \in [Workers -> WorkerSteps] /\ wpos \in [Workers -> Nat]
      /\ wlast \in [Workers -> 0 .. delivered] /\ wlast[w] \in 0 .. delivered
      /\ delivered \in 0 .. Len(stream) /\ Len(stream) \in Nat /\ wpos[w] \in Nat
  BY DEF TypeOK
<1>2. CASE /\ wpos[w] < wlast[w]
           /\ wpos' = [wpos EXCEPT ![w] = wpos[w] + 1]
           /\ wpc' = [wpc EXCEPT ![w] = "mark"]
  <2>1. \A v \in Workers : v # w => wpc'[v] = wpc[v] /\ wpos'[v] = wpos[v]
    BY <1>1, <1>2
  <2>2. wpc'[w] = "mark" /\ wpos'[w] = wpos[w] + 1
    BY <1>1, <1>2
  <2>3. ASSUME NEW i \in 1 .. Len(stream), WaitingAt(i)' PROVE WaitingAt(i)
    <3>1. CASE i > delivered
      BY <3>1 DEF WaitingAt
    <3>2. CASE \E v \in Workers : wpc'[v] \in BusySteps /\ i \in (wpos'[v] + 1) .. wlast[v]
      <4>1. PICK v \in Workers : wpc'[v] \in BusySteps /\ i \in (wpos'[v] + 1) .. wlast[v]
        BY <3>2
      <4>2. CASE v = w
        BY <1>1, <2>2, <4>1, <4>2 DEF WaitingAt
      <4>3. CASE v # w
        BY <2>1, <4>1, <4>3 DEF WaitingAt
      <4> QED
        BY <4>2, <4>3
    <3> QED
      BY <2>3, <3>1, <3>2 DEF WaitingAt
  <2>4. WaitingAt(wpos'[w]) /\ wpos'[w] \in 1 .. Len(stream)
    BY <1>1, <1>2, <2>2 DEF WaitingAt
  <2> QED
    BY <2>1, <2>2, <2>3, <2>4 DEF Advance, Cur
<1>3. CASE wpc' = [wpc EXCEPT ![w] = "read"] /\ wpos' = wpos
  <2>1. /\ wpc'[w] = "read" /\ "read" \notin BusySteps
        /\ \A v \in Workers : v # w => wpc'[v] = wpc[v]
    BY <1>1, <1>3 DEF BusySteps, HandlerSteps, FailureSteps
  <2> QED
    BY <1>3, <2>1 DEF Advance, WaitingAt, Cur
<1> QED
  BY <1>1, <1>2, <1>3, NextEntryCases

\* A step that moves no position lets no entry wait that did not.
LEMMA StillWaiting ==
  ASSUME stream' = stream, delivered' = delivered, wpos' = wpos, wlast' = wlast,
         \A w \in Workers : wpc'[w] \in BusySteps => wpc[w] \in BusySteps
  PROVE  /\ \A i \in 1 .. Len(stream) : WaitingAt(i)' => WaitingAt(i)
         /\ \A w \in Workers : Cur(w)' = Cur(w)
  BY DEF WaitingAt, Cur

\* A crash empties the worker's hand; a restart leaves it empty.
LEMMA IdleAdvances ==
  ASSUME HandledOnceInv, NEW w \in Workers, Crash(w) \/ Restart(w)
  PROVE  Advance(w)
<1>1. /\ wpc \in [Workers -> WorkerSteps]
      /\ wpos' = wpos /\ wlast' = wlast /\ stream' = stream /\ delivered' = delivered
      /\ \E s \in {"read", "down"} : wpc' = [wpc EXCEPT ![w] = s]
  BY DEF Crash, Restart, WorkerGoto, HandledOnceInv, TypeInv, TypeOK
<1>2. /\ wpc'[w] \in {"read", "down"} /\ wpc'[w] \notin BusySteps
      /\ \A v \in Workers : v # w => wpc'[v] = wpc[v]
  BY <1>1 DEF BusySteps, HandlerSteps, FailureSteps
<1>3. \A v \in Workers : wpc'[v] \in BusySteps => wpc[v] \in BusySteps
  BY <1>2
<1> QED
  BY <1>1, <1>2, <1>3, StillWaiting DEF Advance

\* The XADD lets one more entry wait, and no worker has it in hand.
LEMMA AddWaits ==
  ASSUME HandledOnceInv, NEW t \in Tasks, GatewayAdd(t)
  PROVE  /\ \A i \in 1 .. Len(stream') :
              \/ stream'[i] = t
              \/ /\ i \in 1 .. Len(stream) /\ stream'[i] = stream[i]
                 /\ WaitingAt(i)' => WaitingAt(i)
         /\ \A w \in Workers : wpc[w] \in BusySteps => Cur(w)' = Cur(w)
<1>1. /\ stream' = Append(stream, t) /\ delivered' = delivered
      /\ wpc' = wpc /\ wpos' = wpos /\ wlast' = wlast
  BY DEF GatewayAdd
<1> stream \in Seq(Tasks) /\ Len(stream) \in Nat
  BY DEF HandledOnceInv, TypeInv, TypeOK
<1>2. /\ Len(stream') = Len(stream) + 1
      /\ \A i \in 1 .. Len(stream) : stream'[i] = stream[i]
      /\ stream'[Len(stream) + 1] = t
  BY <1>1
<1>3. \A i : WaitingAt(i)' = WaitingAt(i)
  BY <1>1 DEF WaitingAt
<1>4. \A w \in Workers : wpc[w] \in BusySteps => wpos[w] \in 1 .. Len(stream)
  BY CurType DEF HandledOnceInv, TypeInv
<1> QED
  BY <1>1, <1>2, <1>3, <1>4 DEF Cur

-----------------------------------------------------------------------------
(* The status and its owner.                                               *)

\* What a status write of a worker to the task in its hand leaves alone: the
\* stages of every other task.  wpc' says where the worker goes.
LEMMA WorkerStageKeeps ==
  ASSUME HandledOnceInv, StageInv, NEW w \in Workers, wpc[w] \in BusySteps,
         NEW s, wpc' = [wpc EXCEPT ![w] = s], s \in BusySteps \cup {"down"},
         gpc' = gpc, gseen' = gseen, stream' = stream, delivered' = delivered,
         wpos' = wpos, wlast' = wlast,
         \A v \in Workers \ {w} : wseen'[v] = wseen[v],
         \A t \in Tasks : t # Cur(w) => status'[t] = status[t],
         OwnerOf(status'[Cur(w)].owner, Cur(w)) \/ status'[Cur(w)] = status[Cur(w)],
         WorkerStage(w)',
         s \in {"marking", "done", "failset"} => OwnerOf(wseen'[w], Cur(w))
  PROVE  StageInv'
<1>1. /\ Cur(w) \in Tasks
      /\ \A i \in 1 .. Len(stream) : WaitingAt(i) => stream[i] # Cur(w)
      /\ \A v \in Workers : v # w /\ wpc[v] \in BusySteps => Cur(v) # Cur(w)
      /\ \A t \in Tasks : gpc[t] \notin PastAdd => t # Cur(w)
  BY CurrentAlone
<1>2. /\ wpc \in [Workers -> WorkerSteps] /\ stream \in Seq(Tasks)
      /\ \A v \in Workers : wpc[v] \in BusySteps => Cur(v) \in Tasks
  BY CurType DEF HandledOnceInv, TypeInv, TypeOK
<1>3. /\ \A v \in Workers : v # w => wpc'[v] = wpc[v]
      /\ wpc'[w] = s
  BY <1>2
<1>4. /\ \A i \in 1 .. Len(stream) : WaitingAt(i)' => WaitingAt(i)
      /\ \A v \in Workers : Cur(v)' = Cur(v)
  BY <1>3, StillWaiting
<1>5. ASSUME NEW t \in Tasks PROVE GatewayStage(t)'
  BY <1>1 DEF StageInv, Stages, GatewayStage, Reads, PastAdd
<1>6. ASSUME NEW v \in Workers PROVE WorkerStage(v)'
  <2>1. CASE v = w
    BY <2>1
  <2>2. CASE v # w
    <3>1. WorkerStage(v) /\ wpc'[v] = wpc[v] /\ Cur(v)' = Cur(v)
      BY <1>3, <1>4, <2>2 DEF StageInv, Stages
    <3>2. CASE wpc[v] \in BusySteps
      <4>1. status'[Cur(v)] = status[Cur(v)]
        BY <1>1, <1>2, <2>2, <3>2
      <4> QED
        BY <3>1, <4>1 DEF WorkerStage, Reads
    <3>3. CASE wpc[v] \notin BusySteps
      BY <3>1, <3>3 DEF WorkerStage, BusySteps, HandlerSteps, FailureSteps, Working, Finished
    <3> QED
      BY <3>2, <3>3
  <2> QED
    BY <2>1, <2>2
<1>7. ASSUME NEW i \in 1 .. Len(stream'), WaitingAt(i)'
      PROVE  Reads(stream[i], {"pending"})'
  <2>1. stream[i] \in Tasks /\ WaitingAt(i) /\ stream[i] # Cur(w)
    BY <1>1, <1>2, <1>4, <1>7
  <2> QED
    BY <2>1 DEF StageInv, Stages, Reads
<1>8. SeenOwners'
  <2>1. \A t \in Tasks : gpc'[t] = "done" => OwnerOf(gseen'[t], t)
    BY DEF StageInv, SeenOwners
  <2>2. \A v \in Workers : wpc'[v] \in {"marking", "done", "failset"} =>
          OwnerOf(wseen'[v], Cur(v))
    BY <1>3 DEF StageInv, SeenOwners
  <2> QED
    BY <1>4, <2>1, <2>2 DEF SeenOwners, OwnerOf
<1>9. OwnerKept'
  BY DEF StageInv, OwnerKept, OwnerOf
<1> QED
  BY <1>5, <1>6, <1>7, <1>8, <1>9 DEF StageInv, Stages

\* A worker that takes up a waiting entry finds its task pending.
LEMMA AdvanceStageKeeps ==
  ASSUME HandledOnceInv, StageInv, NEW w \in Workers, Advance(w),
         gpc' = gpc, gseen' = gseen, status' = status,
         \A v \in Workers \ {w} : wseen'[v] = wseen[v]
  PROVE  StageInv'
<1>1. \A t \in Tasks : GatewayStage(t)'
  BY DEF StageInv, Stages, GatewayStage, Reads
<1>2. ASSUME NEW v \in Workers PROVE WorkerStage(v)'
  <2>1. CASE v = w
    <3>1. CASE wpc'[w] \in {"read", "down"}
      BY <2>1, <3>1 DEF WorkerStage, Working, Finished
    <3>2. CASE wpc'[w] = "mark"
      <4>1. Reads(Cur(w)', {"pending"})
        BY <3>2 DEF Advance, StageInv, Stages
      <4> QED
        BY <2>1, <3>2, <4>1 DEF WorkerStage, Reads, Working, Finished
    <3> QED
      BY <3>1, <3>2 DEF Advance
  <2>2. CASE v # w
    BY <2>2 DEF Advance, StageInv, Stages, WorkerStage, Reads
  <2> QED
    BY <2>1, <2>2
<1>3. \A i \in 1 .. Len(stream') : WaitingAt(i)' => Reads(stream[i], {"pending"})'
  BY DEF Advance, StageInv, Stages, Reads
<1>4. SeenOwners' /\ OwnerKept'
  BY DEF Advance, StageInv, SeenOwners, OwnerKept, OwnerOf
<1> QED
  BY <1>1, <1>2, <1>3, <1>4 DEF StageInv, Stages

\* What a gateway handler writes for its own task, before the XADD, leaves
\* alone: the stages of every other task.
LEMMA GatewayStageKeeps ==
  ASSUME HandledOnceInv, StageInv, NEW t \in Tasks,
         NEW s, gpc' = [gpc EXCEPT ![t] = s],
         gpc[t] \notin PastAdd \/ status' = status,
         UNCHANGED <<queue, wpc, wpos, wlast, wseen>>,
         \A u \in Tasks \ {t} : status'[u] = status[u] /\ gseen'[u] = gseen[u],
         OwnerOf(status'[t].owner, t) \/ status'[t] = status[t],
         GatewayStage(t)',
         s = "done" => OwnerOf(gseen'[t], t)
  PROVE  StageInv'
<1>1. /\ gpc \in [Tasks -> GatewaySteps] /\ stream \in Seq(Tasks)
      /\ \A w \in Workers : wpc[w] \in BusySteps => Cur(w) \in Tasks
  BY CurType DEF HandledOnceInv, TypeInv, TypeOK
<1>2. /\ \A i \in 1 .. Len(stream) : status'[stream[i]] = status[stream[i]]
      /\ \A w \in Workers : wpc[w] \in BusySteps => status'[Cur(w)] = status[Cur(w)]
  <2>1. CASE gpc[t] \notin PastAdd
    BY <1>1, <2>1, BeforeAddAlone
  <2>2. CASE status' = status
    BY <2>2
  <2> QED
    BY <2>1, <2>2
<1>3. /\ \A i \in 1 .. Len(stream) : WaitingAt(i)' => WaitingAt(i)
      /\ \A w \in Workers : Cur(w)' = Cur(w)
  BY StillWaiting
<1>4. ASSUME NEW u \in Tasks PROVE GatewayStage(u)'
  BY <1>1 DEF StageInv, Stages, GatewayStage, Reads
<1>5. ASSUME NEW w \in Workers PROVE WorkerStage(w)'
  BY <1>2, <1>3 DEF StageInv, Stages, WorkerStage, Reads,
                    Working, Finished, BusySteps, HandlerSteps, FailureSteps
<1>6. \A i \in 1 .. Len(stream') : WaitingAt(i)' => Reads(stream[i], {"pending"})'
  BY <1>2, <1>3 DEF StageInv, Stages, Reads
<1>7. SeenOwners'
  BY <1>1, <1>3 DEF StageInv, SeenOwners, OwnerOf
<1>8. OwnerKept'
  BY DEF StageInv, OwnerKept, OwnerOf
<1> QED
  BY <1>4, <1>5, <1>6, <1>7, <1>8 DEF StageInv, Stages

\* Each step of the gateway keeps the stages.
LEMMA GatewayStages ==
  ASSUME HandledOnceInv, StageInv, NEW t \in Tasks, Gateway(t) \/ GatewayFail(t)
  PROVE  StageInv'
<1>1. /\ gpc \in [Tasks -> GatewaySteps] /\ gseen \in [Tasks -> Owners]
      /\ status \in [Tasks -> StatusDocs]
  BY DEF HandledOnceInv, TypeInv, TypeOK
<1>2. GatewayStage(t) /\ (status[t] # NoDoc => OwnerOf(status[t].owner, t))
  BY DEF StageInv, Stages, OwnerKept, OwnerOf
<1> USE DEF GatewayStage, Reads, PastAdd, GatewayGoto
<1>3. CASE GatewayLookup(t)
  <2>1. PICK s \in {"pend", "cpend"} : gpc' = [gpc EXCEPT ![t] = s]
    BY <1>3 DEF GatewayLookup, EnqueueOrder
  <2>2. GatewayStage(t)'
    BY <1>1, <1>2, <1>3, <2>1 DEF GatewayLookup
  <2> QED
    BY <1>3, <2>1, <2>2, GatewayStageKeeps DEF GatewayLookup
<1>4. CASE GatewaySetPending(t)
  <2>1. /\ gpc[t] = "pend" /\ gpc' = [gpc EXCEPT ![t] = "xadd"]
        /\ status' = [status EXCEPT ![t] = [st |-> "pending", owner |-> StudentOf[t]]]
    BY <1>4 DEF GatewaySetPending, EnqueueOrder, SetStatus
  <2> QED
    BY <1>1, <1>4, <2>1, GatewayStageKeeps DEF GatewaySetPending, OwnerOf
<1>5. CASE GatewayAdd(t)
  <2>1. /\ gpc[t] = "xadd" /\ gpc' = [gpc EXCEPT ![t] = "reply"]
        /\ status' = status /\ gseen' = gseen /\ wpc' = wpc /\ wseen' = wseen
    BY <1>5 DEF GatewayAdd, EnqueueOrder
  <2>2. \A u \in Tasks : GatewayStage(u)'
    BY <1>1, <2>1 DEF StageInv, Stages
  <2>3. \A w \in Workers : WorkerStage(w)'
    BY <1>5, <2>1, AddWaits DEF StageInv, Stages, WorkerStage,
                    Working, Finished, BusySteps, HandlerSteps, FailureSteps
  <2>4. \A i \in 1 .. Len(stream') : WaitingAt(i)' => Reads(stream[i], {"pending"})'
    BY <1>2, <1>5, <2>1, AddWaits DEF StageInv, Stages
  <2>5. SeenOwners' /\ OwnerKept'
    BY <1>1, <1>5, <2>1, AddWaits DEF StageInv, SeenOwners, OwnerKept, OwnerOf,
                    BusySteps, HandlerSteps, FailureSteps
  <2> QED
    BY <2>2, <2>3, <2>4, <2>5 DEF StageInv, Stages
<1>6. CASE CachedSetPending(t)
  <2>1. /\ gpc[t] = "cpend" /\ gpc' = [gpc EXCEPT ![t] = "complete"]
        /\ status' = [status EXCEPT ![t] = [st |-> "pending", owner |-> StudentOf[t]]]
    BY <1>6 DEF CachedSetPending, CachedOrder, SetStatus
  <2> QED
    BY <1>1, <1>6, <2>1, GatewayStageKeeps DEF CachedSetPending, OwnerOf
<1>7. CASE CachedSnapshot(t)
  <2>1. /\ gpc[t] = "complete" /\ gpc' = [gpc EXCEPT ![t] = "done"]
        /\ gseen' = [gseen EXCEPT ![t] = status[t].owner] /\ status' = status
    BY <1>7 DEF CachedSnapshot, CachedOrder
  <2>2. OwnerOf(gseen'[t], t)
    BY <1>1, <1>2, <2>1 DEF OwnerOf, NoDoc
  <2> QED
    BY <1>1, <1>2, <1>7, <2>1, <2>2, GatewayStageKeeps DEF CachedSnapshot
<1>8. CASE CachedSetDone(t)
  <2>1. /\ gpc[t] = "done" /\ gpc' = [gpc EXCEPT ![t] = "result"]
        /\ status' = [status EXCEPT ![t] = [st |-> "done", owner |-> gseen[t]]]
    BY <1>8 DEF CachedSetDone, CachedOrder, SetStatus
  <2>2. OwnerOf(gseen[t], t)
    BY <2>1 DEF StageInv, SeenOwners
  <2> QED
    BY <1>1, <1>8, <2>1, <2>2, GatewayStageKeeps DEF CachedSetDone
<1>9. CASE CachedSetResult(t) \/ CachedWebhook(t) \/ CachedPersist(t)
  <2>1. /\ gpc[t] \in {"result", "webhook", "row"} /\ status' = status
        /\ \E s \in {"webhook", "row", "reply"} : gpc' = [gpc EXCEPT ![t] = s]
    BY <1>9 DEF CachedSetResult, CachedWebhook, CachedPersist, CachedOrder
  <2>2. PICK s \in {"webhook", "row", "reply"} : gpc' = [gpc EXCEPT ![t] = s]
    BY <2>1
  <2>3. GatewayStage(t)'
    BY <1>1, <1>2, <2>1, <2>2
  <2> QED
    BY <1>9, <2>1, <2>2, <2>3, GatewayStageKeeps DEF CachedSetResult, CachedWebhook, CachedPersist
<1>10. CASE GatewayReply(t) \/ GatewayFail(t)
  <2>1. /\ status' = status
        /\ \E s \in {"accepted", "error"} : gpc' = [gpc EXCEPT ![t] = s]
    BY <1>10 DEF GatewayReply, GatewayFail
  <2>2. PICK s \in {"accepted", "error"} : gpc' = [gpc EXCEPT ![t] = s]
    BY <2>1
  <2>3. GatewayStage(t)'
    BY <1>1, <2>2
  <2> QED
    BY <1>10, <2>1, <2>2, <2>3, GatewayStageKeeps DEF GatewayReply, GatewayFail
<1> QED
  BY <1>3, <1>4, <1>5, <1>6, <1>7, <1>8, <1>9, <1>10 DEF Gateway

\* The owner a read of the status document finds.
LEMMA OwnerRead ==
  ASSUME StageInv, NEW t \in Tasks, NEW S, "none" \notin S, Reads(t, S)
  PROVE  OwnerOf(status[t].owner, t)
  BY DEF StageInv, OwnerKept, OwnerOf, Reads, NoDoc

\* Each step of a worker keeps the stages.
LEMMA WorkerStages ==
  ASSUME HandledOnceInv, StageInv, NEW w \in Workers,
         Worker(w) \/ Raise(w) \/ Crash(w)
  PROVE  StageInv'
<1>1. /\ wpc \in [Workers -> WorkerSteps] /\ wseen \in [Workers -> Owners]
      /\ status \in [Tasks -> StatusDocs]
      /\ wpc[w] \in BusySteps => Cur(w) \in Tasks
  BY CurType DEF HandledOnceInv, TypeInv, TypeOK
<1>2. WorkerStage(w)
  BY DEF StageInv, Stages
<1>3. wpc[w] \in {"marking", "done", "failset"} => OwnerOf(wseen[w], Cur(w))
  BY DEF StageInv, SeenOwners
<1> USE KindAssumption
<1> USE DEF WorkerStage, Working, Finished, BusySteps, HandlerSteps, FailureSteps, WorkerGoto
<1>5. CASE Read(w)
  BY <1>5, ReadAdvances, AdvanceStageKeeps DEF Read
<1>6. CASE Mark(w)
  <2>1. /\ wpc[w] = "mark" /\ wpc' = [wpc EXCEPT ![w] = "marking"] /\ status' = status
        /\ wseen' = [wseen EXCEPT ![w] = status[Cur(w)].owner] /\ Cur(w)' = Cur(w)
    BY <1>6 DEF Mark, HandlerOrder, Cur
  <2>2. OwnerOf(wseen'[w], Cur(w))
    BY <1>1, <1>2, <2>1, OwnerRead
  <2>3. WorkerStage(w)'
    BY <1>1, <1>2, <2>1 DEF Reads
  <2> QED
    BY <1>1, <1>6, <2>1, <2>2, <2>3, WorkerStageKeeps DEF Mark
<1>7. CASE SetProcessing(w)
  <2>1. /\ wpc[w] = "marking" /\ Cur(w)' = Cur(w)
        /\ \E s \in {"infer", "lookup"} : wpc' = [wpc EXCEPT ![w] = s]
        /\ status' = [status EXCEPT ![Cur(w)] = [st |-> "processing", owner |-> wseen[w]]]
    BY <1>7, FlagAssumption DEF SetProcessing, HandlerOrder, SetStatus, OwnerToWrite, Cur
  <2>2. PICK s \in {"infer", "lookup"} : wpc' = [wpc EXCEPT ![w] = s]
    BY <2>1
  <2>3. /\ status'[Cur(w)] = [st |-> "processing", owner |-> wseen[w]]
        /\ \A t \in Tasks : t # Cur(w) => status'[t] = status[t]
    BY <1>1, <2>1
  <2>4. WorkerStage(w)'
    BY <1>1, <2>1, <2>2, <2>3 DEF Reads
  <2> QED
    BY <1>1, <1>3, <1>7, <2>1, <2>2, <2>3, <2>4, WorkerStageKeeps DEF SetProcessing
<1>8. CASE CacheLookup(w) \/ Infer(w) \/ CacheFill(w) \/ Persist(w)
  <2>1. /\ wpc[w] \in {"lookup", "infer", "fill", "persist"} /\ Cur(w)' = Cur(w)
        /\ status' = status /\ wseen' = wseen
        /\ \E s \in {"infer", "fill", "persist", "complete"} : wpc' = [wpc EXCEPT ![w] = s]
    BY <1>8, FlagAssumption DEF CacheLookup, Infer, CacheFill, Persist, HandlerOrder, Cur
  <2>2. PICK s \in {"infer", "fill", "persist", "complete"} : wpc' = [wpc EXCEPT ![w] = s]
    BY <2>1
  <2>3. WorkerStage(w)'
    BY <1>1, <1>2, <2>1, <2>2 DEF Reads
  <2> QED
    BY <1>8, <2>1, <2>2, <2>3, WorkerStageKeeps DEF CacheLookup, Infer, CacheFill, Persist
<1>9. CASE Snapshot(w)
  <2>1. /\ wpc[w] = "complete" /\ wpc' = [wpc EXCEPT ![w] = "done"] /\ status' = status
        /\ wseen' = [wseen EXCEPT ![w] = status[Cur(w)].owner] /\ Cur(w)' = Cur(w)
    BY <1>9 DEF Snapshot, CompletionOrder, Cur
  <2>2. OwnerOf(wseen'[w], Cur(w))
    BY <1>1, <1>2, <2>1, OwnerRead
  <2>3. WorkerStage(w)'
    BY <1>1, <1>2, <2>1 DEF Reads
  <2> QED
    BY <1>1, <1>9, <2>1, <2>2, <2>3, WorkerStageKeeps DEF Snapshot
<1>10. CASE SetDone(w)
  <2>1. /\ wpc[w] = "done" /\ Cur(w)' = Cur(w) /\ wpc' = [wpc EXCEPT ![w] = "result"]
        /\ status' = [status EXCEPT ![Cur(w)] = [st |-> "done", owner |-> wseen[w]]]
    BY <1>10 DEF SetDone, CompletionOrder, SetStatus, OwnerToWrite, Cur
  <2>2. /\ status'[Cur(w)] = [st |-> "done", owner |-> wseen[w]]
        /\ \A t \in Tasks : t # Cur(w) => status'[t] = status[t]
    BY <1>1, <2>1
  <2>3. WorkerStage(w)'
    BY <1>1, <2>1, <2>2 DEF Reads
  <2> QED
    BY <1>1, <1>3, <1>10, <2>1, <2>2, <2>3, WorkerStageKeeps DEF SetDone
<1>11. CASE StoreResult(w) \/ Webhook(w)
  <2>1. /\ wpc[w] \in {"result", "webhook"} /\ Cur(w)' = Cur(w)
        /\ status' = status /\ wseen' = wseen
        /\ \E s \in {"webhook", "ack"} : wpc' = [wpc EXCEPT ![w] = s]
    BY <1>11 DEF StoreResult, Webhook, CompletionOrder, Cur
  <2>2. PICK s \in {"webhook", "ack"} : wpc' = [wpc EXCEPT ![w] = s]
    BY <2>1
  <2>3. WorkerStage(w)'
    BY <1>1, <1>2, <2>1, <2>2 DEF Reads
  <2> QED
    BY <1>11, <2>1, <2>2, <2>3, WorkerStageKeeps DEF StoreResult, Webhook
<1>12. CASE Ack(w) \/ FailAck(w)
  <2>1. Advance(w)
    BY <1>12, NextEntryAdvances DEF Ack, FailAck
  <2> QED
    BY <1>1, <1>12, <2>1, AdvanceStageKeeps DEF Ack, FailAck, LeaveHandler
<1>13. CASE FailGet(w)
  <2>1. /\ wpc[w] = "failget" /\ wpc' = [wpc EXCEPT ![w] = "failset"] /\ status' = status
        /\ wseen' = [wseen EXCEPT ![w] = status[Cur(w)].owner] /\ Cur(w)' = Cur(w)
    BY <1>13 DEF FailGet, FailureOrder, Cur
  <2>2. OwnerOf(wseen'[w], Cur(w))
    BY <1>1, <1>2, <2>1, OwnerRead
  <2>3. WorkerStage(w)'
    BY <1>1, <1>2, <2>1 DEF Reads
  <2> QED
    BY <1>1, <1>13, <2>1, <2>2, <2>3, WorkerStageKeeps DEF FailGet
<1>14. CASE SetFailed(w)
  <2>1. /\ wpc[w] = "failset" /\ Cur(w)' = Cur(w) /\ wpc' = [wpc EXCEPT ![w] = "failack"]
        /\ status' = [status EXCEPT ![Cur(w)] = [st |-> "failed", owner |-> wseen[w]]]
    BY <1>14 DEF SetFailed, FailureOrder, SetStatus, OwnerToWrite, Cur
  <2>2. /\ status'[Cur(w)] = [st |-> "failed", owner |-> wseen[w]]
        /\ \A t \in Tasks : t # Cur(w) => status'[t] = status[t]
    BY <1>1, <2>1
  <2>3. WorkerStage(w)'
    BY <1>1, <2>1, <2>2 DEF Reads
  <2> QED
    BY <1>1, <1>3, <1>14, <2>1, <2>2, <2>3, WorkerStageKeeps DEF SetFailed
<1>15. CASE Raise(w)
  <2>1. /\ wpc[w] \in HandlerSteps /\ Cur(w)' = Cur(w) /\ status' = status
        /\ wpc' = [wpc EXCEPT ![w] = "failget"]
    BY <1>15 DEF Raise, FailureOrder, Cur
  <2>2. WorkerStage(w)'
    BY <1>1, <1>2, <2>1 DEF Reads
  <2> QED
    BY <1>15, <2>1, <2>2, WorkerStageKeeps DEF Raise
<1>16. CASE Crash(w) \/ Restart(w)
  <2>1. Advance(w)
    BY <1>16, IdleAdvances
  <2> QED
    BY <1>1, <1>16, <2>1, AdvanceStageKeeps DEF Crash, Restart, LeaveHandler
<1> QED
  BY <1>5, <1>6, <1>7, <1>8, <1>9, <1>10, <1>11, <1>12, <1>13, <1>14, <1>15, <1>16 DEF Worker

\* A document that expires lets every reader find none, or changes nothing.
LEMMA ExpiryStages ==
  ASSUME HandledOnceInv, StageInv,
         \/ \E t \in Tasks : ExpireStatus(t) \/ ExpireResult(t)
         \/ \E k \in Works : ExpireCache(k)
         \/ UNCHANGED vars
  PROVE  StageInv'
<1> /\ status \in [Tasks -> StatusDocs] /\ stream \in Seq(Tasks)
    /\ \A w \in Workers : wpc[w] \in BusySteps => Cur(w) \in Tasks
  BY CurType DEF HandledOnceInv, TypeInv, TypeOK
<1>1. /\ \A t \in Tasks : status'[t] = status[t] \/ (Expiring /\ status'[t] = NoDoc)
      /\ UNCHANGED <<gpc, gseen, queue, wpc, wpos, wlast, wseen>>
  BY DEF ExpireStatus, ExpireResult, ExpireCache, vars
<1>2. \A t \in Tasks : \A S : Reads(t, S) => Reads(t, S)'
  BY <1>1 DEF Reads
<1>3. \A t \in Tasks : GatewayStage(t)'
  BY <1>1, <1>2 DEF StageInv, Stages, GatewayStage
<1>4. \A w \in Workers : WorkerStage(w)'
  <2>1. \A w \in Workers : \A S : wpc[w] \in BusySteps /\ Reads(Cur(w), S) => Reads(Cur(w), S)'
    BY <1>1 DEF Reads, Cur
  <2> QED
    BY <1>1, <2>1 DEF StageInv, Stages, WorkerStage, Working, Finished,
                      BusySteps, HandlerSteps, FailureSteps
<1>5. \A i \in 1 .. Len(stream') : WaitingAt(i)' => Reads(stream[i], {"pending"})'
  BY <1>1 DEF StageInv, Stages, WaitingAt, Reads
<1>6. SeenOwners' /\ OwnerKept'
  BY <1>1 DEF StageInv, SeenOwners, OwnerKept, OwnerOf, Cur, NoDoc
<1> QED
  BY <1>3, <1>4, <1>5, <1>6 DEF StageInv, Stages

\* Nothing is written and nothing waits initially.
LEMMA StageInit == Init => StageInv
<1> SUFFICES ASSUME Init PROVE StageInv
  OBVIOUS
<1>1. Stages
  BY DEF Init, Stages, GatewayStage, WorkerStage, Working, Finished
<1>2. SeenOwners /\ OwnerKept
  BY DEF Init, SeenOwners, OwnerKept
<1> QED
  BY <1>1, <1>2 DEF StageInv

\* Every step keeps the stages.
LEMMA StageNext == HandledOnceInv /\ StageInv /\ [Next]_vars => StageInv'
  BY GatewayStages, WorkerStages, ExpiryStages DEF Next

(* A task never changes hands: its status document names the student who    *)
(* posted it through every write that passes no ids, and only the TTL takes *)
(* the name away.                                                           *)
THEOREM OwnerIsKept == Spec => []OwnerKept
<1>1. StageInv => OwnerKept
  BY DEF StageInv
<1> QED
  BY HandledOnceInit, HandledOnceNext, StageInit, StageNext, <1>1, PTL DEF Spec

\* What a step does to the status document of one task.
StatusMove(t) ==
  \/ status'[t] = status[t]
  \/ Expiring /\ status'[t] = NoDoc
  \/ status'[t].st = "pending" /\ status[t] = NoDoc
  \/ status'[t].st = "processing" /\ Reads(t, {"pending"})
  \/ status'[t].st = "done" /\ Reads(t, {"pending", "processing"})
  \/ status'[t].st = "failed" /\ Reads(t, {"pending", "processing", "done"})

\* Every step moves the status of a task as StatusMove says.
LEMMA StatusMoves ==
  ASSUME HandledOnceInv, StageInv, [Next]_vars
  PROVE  \A t \in Tasks : StatusMove(t)
<1> SUFFICES ASSUME NEW t \in Tasks PROVE StatusMove(t)
  OBVIOUS
<1>1. status \in [Tasks -> StatusDocs] /\ GatewayStage(t)
  BY DEF HandledOnceInv, TypeInv, TypeOK, StageInv, Stages
<1>2. CASE status'[t] = status[t]
  BY <1>2 DEF StatusMove
<1>3. ASSUME NEW u \in Tasks, Gateway(u), status'[t] # status[t] PROVE StatusMove(t)
  <2>1. u = t
    BY <1>1, <1>3 DEF Gateway, GatewayLookup, GatewaySetPending, GatewayAdd, CachedSetPending,
         CachedSnapshot, CachedSetDone, CachedSetResult, CachedWebhook, CachedPersist,
         GatewayReply, SetStatus
  <2>2. \/ GatewaySetPending(t) \/ CachedSetPending(t) \/ CachedSetDone(t)
    BY <1>3, <2>1 DEF Gateway, GatewayLookup, GatewayAdd, CachedSnapshot, CachedSetResult,
         CachedWebhook, CachedPersist, GatewayReply
  <2> QED
    BY <1>1, <2>2 DEF GatewaySetPending, CachedSetPending, CachedSetDone, SetStatus,
         GatewayStage, StatusMove, Reads
<1>4. ASSUME NEW w \in Workers, Worker(w), status'[t] # status[t] PROVE StatusMove(t)
  <2>1. SetProcessing(w) \/ SetDone(w) \/ SetFailed(w)
    BY <1>4 DEF Worker, Read, Mark, CacheLookup, Infer, CacheFill, Persist, Snapshot,
         StoreResult, Webhook, Ack, FailGet, FailAck, Restart
  <2>2. WorkerStage(w)
    BY DEF StageInv, Stages
  <2>3. Cur(w) \in Tasks /\ Cur(w) = t
    BY <1>1, <1>4, <2>1, CurrentAlone DEF SetProcessing, SetDone, SetFailed, SetStatus,
         BusySteps, HandlerSteps, FailureSteps
  <2> QED
    BY <1>1, <2>1, <2>2, <2>3 DEF SetProcessing, SetDone, SetFailed, SetStatus,
         WorkerStage, Working, StatusMove, Reads
<1>5. ASSUME \/ \E u \in Tasks : GatewayFail(u)
             \/ \E w \in Workers : Raise(w) \/ Crash(w)
             \/ \E u \in Tasks : ExpireResult(u)
             \/ \E k \in Works : ExpireCache(k)
             \/ UNCHANGED vars
      PROVE  status' = status
  BY <1>5 DEF GatewayFail, Raise, Crash, ExpireResult, ExpireCache, vars
<1>6. ASSUME NEW u \in Tasks, ExpireStatus(u) PROVE StatusMove(t)
  BY <1>1, <1>6 DEF ExpireStatus, StatusMove
<1> QED
  BY <1>2, <1>3, <1>4, <1>5, <1>6 DEF Next, StatusMove

(* The status a client polls only goes forward, whatever the gateway and    *)
(* any number of workers write, raise, crash on or let expire.              *)
THEOREM StatusIsForward == Spec => StatusForward
<1>1. HandledOnceInv /\ StageInv /\ [Next]_vars =>
        [\A t \in Tasks : status'[t] # NoDoc =>
           Rank(status'[t].st) >= Rank(status[t].st)]_vars
  <2> SUFFICES ASSUME HandledOnceInv, StageInv, [Next]_vars, NEW t \in Tasks,
                      status'[t] # NoDoc
               PROVE  Rank(status'[t].st) >= Rank(status[t].st)
    OBVIOUS
  <2>1. StatusMove(t) /\ status[t] \in StatusDocs
    BY StatusMoves DEF HandledOnceInv, TypeInv, TypeOK
  <2>2. Rank(status[t].st) \in Nat
    BY DEF Rank
  <2> QED
    BY <2>1, <2>2 DEF StatusMove, Reads, Rank, NoDoc
<1> QED
  BY HandledOnceInit, HandledOnceNext, StageInit, StageNext, <1>1, PTL DEF Spec, StatusForward
=============================================================================
