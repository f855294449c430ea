----------------------------- MODULE TaskQueue -----------------------------
(***************************************************************************)
(* The life of a task: the gateway's POST endpoint, the status and result  *)
(* documents in Redis, the job stream with its consumer group, and the     *)
(* workers that serve it.  One instance models one of the three streams;   *)
(* Kind says which, and Mock whether its workers are workers/mock_workers  *)
(* or the real ones.                                                       *)
(*                                                                         *)
(* Every await of the Python code is a step of its own, so whatever runs   *)
(* between two awaits of one coroutine runs between two steps here.  An    *)
(* entry of the stream is named by its position, which stands for its      *)
(* message id.                                                             *)
(***************************************************************************)
EXTENDS Naturals, Sequences, FiniteSets

CONSTANTS
  Tasks,       \* task ids: each POST draws a fresh uuid4
  Workers,     \* consumers of the group
  Students,    \* (platform, student) pairs that own tasks
  Works,       \* what is asked for; stands for the cache key
  NoOne,       \* an owner that was never written or has been lost
  NoBody,      \* an absent document
  StudentOf,   \* [Tasks -> Students], who posted the task
  WorkOf,      \* [Tasks -> Works], what was posted
  Kind,        \* "analyze", "generate" or "pipeline"
  Mock,        \* TRUE for workers/mock_workers.py
  Batch,       \* STREAM_BATCH, the count given to XREADGROUP
  Expiring,    \* TRUE when documents may reach their TTL
  MaxRaises,   \* bound on the exceptions of a behaviour
  MaxCrashes   \* bound on the worker crashes of a behaviour

ASSUME KindAssumption == Kind \in {"analyze", "generate", "pipeline"}
ASSUME FlagAssumption == Mock \in BOOLEAN /\ Expiring \in BOOLEAN
ASSUME BatchAssumption == Batch \in Nat \ {0}
ASSUME BoundAssumption == MaxRaises \in Nat /\ MaxCrashes \in Nat
ASSUME RequestAssumption == /\ StudentOf \in [Tasks -> Students]
                            /\ WorkOf \in [Tasks -> Works]
                            /\ NoOne \notin Students

VARIABLES
  gpc,        \* [Tasks -> GatewaySteps], where the POST handler stands
  gbody,      \* [Tasks -> body], the cached body the handler holds
  gseen,      \* [Tasks -> owner], the owner its snapshot held
  status,     \* [Tasks -> status document]
  result,     \* [Tasks -> result document]
  cache,      \* [Works -> cached body]
  stream,     \* the job stream, never trimmed
  delivered,  \* the group's last-delivered-id
  pel,        \* [Workers -> positions], delivered and not acknowledged
  rows,       \* [Tasks -> Seq(body)], rows committed to PostgreSQL
  hooks,      \* [Tasks -> Seq(body)], events put on the webhook stream
  wpc,        \* [Workers -> WorkerSteps]
  wpos,       \* [Workers -> position], the entry in hand
  wlast,      \* [Workers -> position], the last entry of the batch read
  wbody,      \* [Workers -> body], the local variable of _handle_job
  wseen,      \* [Workers -> owner], the ids read back before a write
  raises,     \* exceptions so far
  crashes     \* crashes so far

gateway == <<gpc, gbody, gseen>>
store   == <<status, result, cache>>
queue   == <<stream, delivered, pel>>
outputs == <<rows, hooks>>
worker  == <<wpc, wpos, wlast, wbody, wseen>>
budget  == <<raises, crashes>>
vars    == <<gateway, store, queue, outputs, worker, budget>>

-----------------------------------------------------------------------------
(* Documents.                                                              *)

Statuses == {"pending", "processing", "done", "failed"}
Owners   == Students \cup {NoOne}

NoDoc      == [st |-> "none", owner |-> NoOne]
StatusDocs == [st : Statuses \cup {"none"}, owner : Owners]

\* A result body.  "by" is the task whose inference made the artefact: two
\* inferences on the same input give different texts.  The bodies cached by
\* analyze and generate name no student; those cached by the pipeline do.
Bodies == [student : Owners, work : Works, by : Tasks]

ASSUME AbsentAssumption == NoBody \notin Bodies

Addressed(t, artefact) == [artefact EXCEPT !.student = StudentOf[t]]
Artefact(b) == [b EXCEPT !.student = NoOne]

\* The body built from a cache hit for task t.
BodyFromCache(t, cached) ==
  IF Kind = "pipeline" THEN cached ELSE Addressed(t, cached)

\* What a finished worker puts into the cache.
CacheEntry(b) == IF Kind = "pipeline" THEN b ELSE Artefact(b)

-----------------------------------------------------------------------------
(* The order of the awaits, as tables from a step to the next.             *)

\* Mutant of EnqueueOrder: the job is published before its status is written.
PublishBeforeStatus == [start |-> "xadd", xadd |-> "pend", pend |-> "reply"]

EnqueueOrder == [start |-> "pend", pend |-> "xadd", xadd |-> "reply"]

CachedOrder ==
  [cpend |-> "complete", complete |-> "done", done |-> "result",
   result |-> "webhook",
   webhook |-> IF Kind = "pipeline" THEN "reply" ELSE "row",
   row |-> "reply"]

HandlerOrder ==
  [mark    |-> "marking",
   marking |-> IF Mock THEN "infer" ELSE "lookup",
   hit     |-> IF Kind = "pipeline" THEN "complete" ELSE "persist",
   infer   |-> IF Mock \/ Kind = "pipeline" THEN "persist" ELSE "fill",
   fill    |-> IF Kind = "pipeline" THEN "complete" ELSE "persist",
   persist |-> IF Kind = "pipeline" /\ ~Mock THEN "fill" ELSE "complete"]

\* Mutant of CompletionOrder: the webhook is queued before the result is stored.
WebhookBeforeResult ==
  [complete |-> "done", done |-> "webhook", webhook |-> "result",
   result |-> "ack"]

CompletionOrder ==
  [complete |-> "done", done |-> "result", result |-> "webhook",
   webhook |-> "ack"]

\* Mutant of FailureOrder: a failed job is acknowledged without a status.
AckWithoutStatus ==
  [raise |-> "failack", failget |-> "failset", failset |-> "failack"]

\* Mutant of FailureOrder: a failed job tells the client by webhook as well,
\* with the body in hand, which no inference need have made yet.
WebhookAfterFailure ==
  [raise |-> "failget", failget |-> "failset", failset |-> "webhook"]

FailureOrder ==
  [raise |-> "failget", failget |-> "failset", failset |-> "failack"]

EnqueueSteps  == {"start", "pend", "xadd"}
CachedSteps   == {"cpend", "complete", "done", "result", "webhook", "row"}
GatewaySteps  == EnqueueSteps \cup CachedSteps \cup {"reply", "accepted", "error"}
HandlerSteps  == {"mark", "marking", "lookup", "infer", "fill", "persist",
                  "complete", "done", "result", "webhook", "ack"}
FailureSteps  == {"failget", "failset", "failack"}
BusySteps     == HandlerSteps \cup FailureSteps
WorkerSteps   == BusySteps \cup {"read", "down"}

TypeOK ==
  /\ gpc \in [Tasks -> GatewaySteps]
  /\ gbody \in [Tasks -> Bodies \cup {NoBody}]
  /\ gseen \in [Tasks -> Owners]
  /\ status \in [Tasks -> StatusDocs]
  /\ result \in [Tasks -> Bodies \cup {NoBody}]
  /\ cache \in [Works -> Bodies \cup {NoBody}]
  /\ stream \in Seq(Tasks)
  /\ delivered \in 0 .. Len(stream)
  /\ pel \in [Workers -> SUBSET (1 .. delivered)]
  /\ rows \in [Tasks -> Seq(Bodies)]
  /\ hooks \in [Tasks -> Seq(Bodies)]
  /\ wpc \in [Workers -> WorkerSteps]
  /\ wpos \in [Workers -> Nat]
  /\ wlast \in [Workers -> 0 .. delivered]
  /\ wbody \in [Workers -> Bodies \cup {NoBody}]
  /\ wseen \in [Workers -> Owners]
  /\ raises \in 0 .. MaxRaises
  /\ crashes \in 0 .. MaxCrashes

Init ==
  /\ gpc = [t \in Tasks |-> "start"]
  /\ gbody = [t \in Tasks |-> NoBody]
  /\ gseen = [t \in Tasks |-> NoOne]
  /\ status = [t \in Tasks |-> NoDoc]
  /\ result = [t \in Tasks |-> NoBody]
  /\ cache = [k \in Works |-> NoBody]
  /\ stream = <<>>
  /\ delivered = 0
  /\ pel = [w \in Workers |-> {}]
  /\ rows = [t \in Tasks |-> <<>>]
  /\ hooks = [t \in Tasks |-> <<>>]
  /\ wpc = [w \in Workers |-> "read"]
  /\ wpos = [w \in Workers |-> 0]
  /\ wlast = [w \in Workers |-> 0]
  /\ wbody = [w \in Workers |-> NoBody]
  /\ wseen = [w \in Workers |-> NoOne]
  /\ raises = 0
  /\ crashes = 0

-----------------------------------------------------------------------------
(* QueueService, as the gateway and the workers call it.                   *)

SetStatus(t, st, ids) == status' = [status EXCEPT ![t] = [st |-> st, owner |-> ids]]
SetResult(t, b)       == result' = [result EXCEPT ![t] = b]
EnqueueWebhook(t, b)  == hooks' = [hooks EXCEPT ![t] = Append(@, b)]
PersistRow(t, b)      == rows' = [rows EXCEPT ![t] = Append(@, Artefact(b))]

-----------------------------------------------------------------------------
(* The gateway.                                                            *)

GatewayGoto(t, step) == gpc' = [gpc EXCEPT ![t] = step]

\* The POST handler up to the cache lookup: hit or miss.
GatewayLookup(t) ==
  /\ gpc[t] = "start"
  /\ \/ /\ cache[WorkOf[t]] = NoBody
        /\ GatewayGoto(t, EnqueueOrder.start)
        /\ UNCHANGED gbody
     \/ /\ cache[WorkOf[t]] # NoBody
        /\ GatewayGoto(t, "cpend")
        /\ gbody' = [gbody EXCEPT ![t] = BodyFromCache(t, cache[WorkOf[t]])]
  /\ UNCHANGED <<gseen, store, queue, outputs, worker, budget>>

\* enqueue_*: the status document first, then the entry.
GatewaySetPending(t) ==
  /\ gpc[t] = "pend"
  /\ SetStatus(t, "pending", StudentOf[t])
  /\ GatewayGoto(t, EnqueueOrder.pend)
  /\ UNCHANGED <<gbody, gseen, result, cache, queue, outputs, worker, budget>>

GatewayAdd(t) ==
  /\ gpc[t] = "xadd"
  /\ stream' = Append(stream, t)
  /\ GatewayGoto(t, EnqueueOrder.xadd)
  /\ UNCHANGED <<gbody, gseen, store, delivered, pel, outputs, worker, budget>>

\* The cached branch answers the task on the spot.
CachedSetPending(t) ==
  /\ gpc[t] = "cpend"
  /\ SetStatus(t, "pending", StudentOf[t])
  /\ GatewayGoto(t, CachedOrder.cpend)
  /\ UNCHANGED <<gbody, gseen, result, cache, queue, outputs, worker, budget>>

CachedSnapshot(t) ==
  /\ gpc[t] = "complete"
  /\ gseen' = [gseen EXCEPT ![t] = status[t].owner]
  /\ GatewayGoto(t, CachedOrder.complete)
  /\ UNCHANGED <<gbody, store, queue, outputs, worker, budget>>

CachedSetDone(t) ==
  /\ gpc[t] = "done"
  /\ SetStatus(t, "done", gseen[t])
  /\ GatewayGoto(t, CachedOrder.done)
  /\ UNCHANGED <<gbody, gseen, result, cache, queue, outputs, worker, budget>>

CachedSetResult(t) ==
  /\ gpc[t] = "result"
  /\ SetResult(t, gbody[t])
  /\ GatewayGoto(t, CachedOrder.result)
  /\ UNCHANGED <<gbody, gseen, status, cache, queue, outputs, worker, budget>>

CachedWebhook(t) ==
  /\ gpc[t] = "webhook"
  /\ EnqueueWebhook(t, gbody[t])
  /\ GatewayGoto(t, CachedOrder.webhook)
  /\ UNCHANGED <<gbody, gseen, store, queue, rows, worker, budget>>

CachedPersist(t) ==
  /\ gpc[t] = "row"
  /\ PersistRow(t, gbody[t])
  /\ GatewayGoto(t, CachedOrder.row)
  /\ UNCHANGED <<gbody, gseen, store, queue, hooks, worker, budget>>

GatewayReply(t) ==
  /\ gpc[t] = "reply"
  /\ GatewayGoto(t, "accepted")
  /\ UNCHANGED <<gbody, gseen, store, queue, outputs, worker, budget>>

\* Redis or the database raises, or the process dies: the client gets no
\* task id, and what was already written stays.
GatewayFail(t) ==
  /\ gpc[t] \notin {"start", "accepted", "error"}
  /\ raises < MaxRaises
  /\ raises' = raises + 1
  /\ GatewayGoto(t, "error")
  /\ UNCHANGED <<gbody, gseen, store, queue, outputs, worker, crashes>>

Gateway(t) ==
  \/ GatewayLookup(t) \/ GatewaySetPending(t) \/ GatewayAdd(t)
  \/ CachedSetPending(t) \/ CachedSnapshot(t) \/ CachedSetDone(t)
  \/ CachedSetResult(t) \/ CachedWebhook(t) \/ CachedPersist(t)
  \/ GatewayReply(t)

-----------------------------------------------------------------------------
(* The workers.                                                            *)

Cur(w)           == stream[wpos[w]]
WorkerGoto(w, s) == wpc' = [wpc EXCEPT ![w] = s]

\* XREADGROUP returns what there is, up to count.
BatchSize ==
  IF Batch < Len(stream) - delivered THEN Batch ELSE Len(stream) - delivered

\* Mutant of FirstUnread: the read starts at the last delivered entry.
LastDelivered == IF delivered = 0 THEN 1 ELSE delivered

\* ">" asks for entries never delivered to any consumer of the group.
FirstUnread == delivered + 1

\* A worker reads a batch; every entry of it joins the worker's pending list.
Read(w) ==
  LET last == delivered + BatchSize IN
  /\ wpc[w] = "read"
  /\ delivered < Len(stream)
  /\ delivered' = last
  /\ pel' = [pel EXCEPT ![w] = @ \cup (FirstUnread .. last)]
  /\ wpos' = [wpos EXCEPT ![w] = FirstUnread]
  /\ wlast' = [wlast EXCEPT ![w] = last]
  /\ WorkerGoto(w, "mark")
  /\ UNCHANGED <<stream, gateway, store, outputs, wbody, wseen, budget>>

\* set_status(PROCESSING) without ids: first the GET that looks for them ...
Mark(w) ==
  /\ wpc[w] = "mark"
  /\ wseen' = [wseen EXCEPT ![w] = status[Cur(w)].owner]
  /\ WorkerGoto(w, HandlerOrder.mark)
  /\ UNCHANGED <<gateway, store, queue, outputs, wpos, wlast, wbody, budget>>

\* Mutant of OwnerToWrite: the ids of the previous document are not kept.
OwnerForgotten(w) == NoOne

\* The ids a status write without ids carries: those it read back.
OwnerToWrite(w) == wseen[w]

\* ... then the SET.
SetProcessing(w) ==
  /\ wpc[w] = "marking"
  /\ SetStatus(Cur(w), "processing", OwnerToWrite(w))
  /\ WorkerGoto(w, HandlerOrder.marking)
  /\ UNCHANGED <<gateway, result, cache, queue, outputs, wpos, wlast, wbody, wseen, budget>>

CacheLookup(w) ==
  LET cached == cache[WorkOf[Cur(w)]] IN
  /\ wpc[w] = "lookup"
  /\ \/ /\ cached = NoBody
        /\ WorkerGoto(w, "infer")
        /\ UNCHANGED wbody
     \/ /\ cached # NoBody
        /\ WorkerGoto(w, HandlerOrder.hit)
        /\ wbody' = [wbody EXCEPT ![w] = BodyFromCache(Cur(w), cached)]
  /\ UNCHANGED <<gateway, store, queue, outputs, wpos, wlast, wseen, budget>>

\* Mutant of NewBody: the student of the batch's last entry, as a closure over
\* the loop variable would bind it.
LateBoundBody(w) ==
  [student |-> StudentOf[stream[wlast[w]]], work |-> WorkOf[Cur(w)], by |-> Cur(w)]

NewBody(w) ==
  [student |-> StudentOf[Cur(w)], work |-> WorkOf[Cur(w)], by |-> Cur(w)]

\* infer_sync in a thread.  The pipeline runs two inferences, each behind a
\* cache of its own, and merges the student's profile between them.
Infer(w) ==
  /\ wpc[w] = "infer"
  /\ wbody' = [wbody EXCEPT ![w] = NewBody(w)]
  /\ WorkerGoto(w, HandlerOrder.infer)
  /\ UNCHANGED <<gateway, store, queue, outputs, wpos, wlast, wseen, budget>>

CacheFill(w) ==
  /\ wpc[w] = "fill"
  /\ cache' = [cache EXCEPT ![WorkOf[Cur(w)]] = CacheEntry(wbody[w])]
  /\ WorkerGoto(w, HandlerOrder.fill)
  /\ UNCHANGED <<gateway, status, result, queue, outputs, wpos, wlast, wbody, wseen, budget>>

Persist(w) ==
  /\ wpc[w] = "persist"
  /\ PersistRow(Cur(w), wbody[w])
  /\ WorkerGoto(w, HandlerOrder.persist)
  /\ UNCHANGED <<gateway, store, queue, hooks, wpos, wlast, wbody, wseen, budget>>

\* complete_with_result: the snapshot, the status, the result.  A snapshot
\* without ids makes set_status read the document once more; only this worker
\* writes it, so that read finds no ids either.
Snapshot(w) ==
  /\ wpc[w] = "complete"
  /\ wseen' = [wseen EXCEPT ![w] = status[Cur(w)].owner]
  /\ WorkerGoto(w, CompletionOrder.complete)
  /\ UNCHANGED <<gateway, store, queue, outputs, wpos, wlast, wbody, budget>>

SetDone(w) ==
  /\ wpc[w] = "done"
  /\ SetStatus(Cur(w), "done", OwnerToWrite(w))
  /\ WorkerGoto(w, CompletionOrder.done)
  /\ UNCHANGED <<gateway, result, cache, queue, outputs, wpos, wlast, wbody, wseen, budget>>

\* Mutant of BodyToStore: the body is read from the cache again.
BodyReread(w) == BodyFromCache(Cur(w), cache[WorkOf[Cur(w)]])

BodyToStore(w) == wbody[w]

StoreResult(w) ==
  /\ wpc[w] = "result"
  /\ SetResult(Cur(w), BodyToStore(w))
  /\ WorkerGoto(w, CompletionOrder.result)
  /\ UNCHANGED <<gateway, status, cache, queue, outputs, wpos, wlast, wbody, wseen, budget>>

Webhook(w) ==
  /\ wpc[w] = "webhook"
  /\ EnqueueWebhook(Cur(w), wbody[w])
  /\ WorkerGoto(w, CompletionOrder.webhook)
  /\ UNCHANGED <<gateway, store, queue, rows, wpos, wlast, wbody, wseen, budget>>

\* _handle_job has returned or been left: its local variables are gone.
LeaveHandler(w) ==
  /\ wbody' = [wbody EXCEPT ![w] = NoBody]
  /\ wseen' = [wseen EXCEPT ![w] = NoOne]

\* Mutant of NextEntry: the loop over the batch stops after its first entry.
LeaveBatch(w) ==
  /\ WorkerGoto(w, "read")
  /\ UNCHANGED wpos

\* The for loop: on to the next entry of the batch, or back to XREADGROUP.
NextEntry(w) ==
  \/ /\ wpos[w] < wlast[w]
     /\ wpos' = [wpos EXCEPT ![w] = @ + 1]
     /\ WorkerGoto(w, "mark")
  \/ /\ wpos[w] >= wlast[w]
     /\ WorkerGoto(w, "read")
     /\ UNCHANGED wpos

\* Mutant of AfterAck: the acknowledgement is forgotten.
NothingAcked(w) == pel[w]

\* What XACK of the entry in hand leaves pending.
AfterAck(w) == pel[w] \ {wpos[w]}

Ack(w) ==
  /\ wpc[w] = "ack"
  /\ pel' = [pel EXCEPT ![w] = AfterAck(w)]
  /\ NextEntry(w)
  /\ LeaveHandler(w)
  /\ UNCHANGED <<gateway, store, stream, delivered, outputs, wlast, budget>>

\* Anything may raise inside the try.  The call that raises has not taken
\* effect, or has (the exception then comes at the step after it); for the
\* XACK that ends the try, the last call in it, both are spelled out.
Raise(w) ==
  /\ wpc[w] \in HandlerSteps
  /\ raises < MaxRaises
  /\ raises' = raises + 1
  /\ WorkerGoto(w, FailureOrder.raise)
  /\ \/ UNCHANGED pel
     \/ /\ wpc[w] = "ack"
        /\ pel' = [pel EXCEPT ![w] = AfterAck(w)]
  /\ UNCHANGED <<gateway, store, stream, delivered, outputs, wpos, wlast, wbody, wseen, crashes>>

\* The except branch: set_status(FAILED) without ids, then the XACK.
FailGet(w) ==
  /\ wpc[w] = "failget"
  /\ wseen' = [wseen EXCEPT ![w] = status[Cur(w)].owner]
  /\ WorkerGoto(w, FailureOrder.failget)
  /\ UNCHANGED <<gateway, store, queue, outputs, wpos, wlast, wbody, budget>>

SetFailed(w) ==
  /\ wpc[w] = "failset"
  /\ SetStatus(Cur(w), "failed", OwnerToWrite(w))
  /\ WorkerGoto(w, FailureOrder.failset)
  /\ UNCHANGED <<gateway, result, cache, queue, outputs, wpos, wlast, wbody, wseen, budget>>

FailAck(w) ==
  /\ wpc[w] = "failack"
  /\ pel' = [pel EXCEPT ![w] = AfterAck(w)]
  /\ NextEntry(w)
  /\ LeaveHandler(w)
  /\ UNCHANGED <<gateway, store, stream, delivered, outputs, wlast, budget>>

\* The process dies, or a call of the except branch raises and leaves
\* run_forever.  Nothing claims the entries left on its pending list.
Crash(w) ==
  /\ wpc[w] # "down"
  /\ crashes < MaxCrashes
  /\ crashes' = crashes + 1
  /\ WorkerGoto(w, "down")
  /\ LeaveHandler(w)
  /\ UNCHANGED <<gateway, store, queue, outputs, wpos, wlast, raises>>

\* The deployment starts the container again; it reads ">" like before.
Restart(w) ==
  /\ wpc[w] = "down"
  /\ WorkerGoto(w, "read")
  /\ UNCHANGED <<gateway, store, queue, outputs, wpos, wlast, wbody, wseen, budget>>

Worker(w) ==
  \/ Read(w) \/ Mark(w) \/ SetProcessing(w) \/ CacheLookup(w) \/ Infer(w)
  \/ CacheFill(w) \/ Persist(w) \/ Snapshot(w) \/ SetDone(w) \/ StoreResult(w)
  \/ Webhook(w) \/ Ack(w) \/ FailGet(w) \/ SetFailed(w) \/ FailAck(w)
  \/ Restart(w)

-----------------------------------------------------------------------------
(* Redis drops a document at the end of its TTL.                           *)

ExpireStatus(t) ==
  /\ Expiring
  /\ status[t] # NoDoc
  /\ status' = [status EXCEPT ![t] = NoDoc]
  /\ UNCHANGED <<gateway, result, cache, queue, outputs, worker, budget>>

ExpireResult(t) ==
  /\ Expiring
  /\ result[t] # NoBody
  /\ result' = [result EXCEPT ![t] = NoBody]
  /\ UNCHANGED <<gateway, status, cache, queue, outputs, worker, budget>>

ExpireCache(k) ==
  /\ Expiring
  /\ cache[k] # NoBody
  /\ cache' = [cache EXCEPT ![k] = NoBody]
  /\ UNCHANGED <<gateway, status, result, queue, outputs, worker, budget>>

Next ==
  \/ \E t \in Tasks : Gateway(t) \/ GatewayFail(t)
  \/ \E w \in Workers : Worker(w) \/ Raise(w) \/ Crash(w)
  \/ \E t \in Tasks : ExpireStatus(t) \/ ExpireResult(t)
  \/ \E k \in Works : ExpireCache(k)

Spec == Init /\ [][Next]_vars

\* The event loop runs every ready coroutine and the deployment restarts a
\* container that exits; nothing forces a client to post, or an exception.
Fairness ==
  /\ \A t \in Tasks : WF_vars(gpc[t] # "start" /\ Gateway(t))
  /\ \A w \in Workers : WF_vars(Worker(w))

FairSpec == Spec /\ Fairness

-----------------------------------------------------------------------------
(* Properties.                                                             *)

Settled(t) == status[t].st \in {"done", "failed"}

Pending == UNION {pel[w] : w \in Workers}

\* A task is handled at most once, whatever raises, crashes or restarts: at
\* most one row of it reaches the database and at most one event the webhook
\* stream (run_forever reads ">" only and the gateway adds one entry).
HandledOnce ==
  \A t \in Tasks : Len(rows[t]) <= 1 /\ Len(hooks[t]) <= 1

\* A status write that passes no ids (PROCESSING, FAILED) keeps the ids of the
\* document before it, so a task never changes hands; only the TTL loses them.
OwnerKept ==
  \A t \in Tasks : status[t] # NoDoc =>
    \/ status[t].owner = StudentOf[t]
    \/ Expiring /\ status[t].owner = NoOne

\* The webhook and the poll give the same answer: once an event is queued, the
\* result document holds its body until the TTL drops it.
PublishedIsStored ==
  \A t \in Tasks : \A i \in 1 .. Len(hooks[t]) :
    \/ result[t] = hooks[t][i]
    \/ Expiring /\ result[t] = NoBody

\* The row a task stores and the result it reports come from one inference,
\* also when two workers race on the same cache key.
RowMatchesResult ==
  \A t \in Tasks : rows[t] # <<>> /\ result[t] # NoBody =>
    rows[t][1] = Artefact(result[t])

\* Whatever races, raises or expires, what a task has put out is of one
\* inference: its row, its result and its webhook.
OutputsAgree == PublishedIsStored /\ RowMatchesResult

\* The result of a task names the student who asked for it.
AddressedToRequester ==
  \A t \in Tasks : result[t] # NoBody => result[t].student = StudentOf[t]

\* No entry leaves the group without an outcome: one that is delivered and on
\* no pending list has a task that is done or failed.
AckedIsSettled ==
  \A i \in 1 .. delivered : i \notin Pending =>
    \/ Settled(stream[i])
    \/ Expiring /\ status[stream[i]] = NoDoc

\* A crash strands at most the batch in hand: the entries on pending lists that
\* no worker is about to handle are at most Batch for each crash.
AboutToHandle(w) ==
  IF wpc[w] \in BusySteps THEN wpos[w] .. wlast[w] ELSE {}
Stranded == Pending \ UNION {AboutToHandle(w) : w \in Workers}
CrashStrandsOneBatch == Cardinality(Stranded) <= Batch * crashes

\* The status a client polls only moves forward: a task that left pending is
\* never pending again, done only turns to failed, failed is final.
Rank(st) == CASE st = "pending" -> 1 [] st = "processing" -> 2
              [] st = "done" -> 3 [] st = "failed" -> 4 [] OTHER -> 0
StatusForward ==
  [][\A t \in Tasks : status'[t] # NoDoc =>
       Rank(status'[t].st) >= Rank(status[t].st)]_vars

\* Every task the gateway accepted is settled in the end, when no worker dies.
EveryTaskSettles ==
  \A t \in Tasks : gpc[t] = "accepted" ~> Settled(t)
=============================================================================
