------------------------- MODULE TaskOutcomeProofs -------------------------
(***************************************************************************)
(* Proofs about what a task puts out and shows, on top of HandledOnceInv   *)
(* and StageInv: that row, result and webhook agree (AnswerInv), that      *)
(* every step of TaskQueue is a step or a stutter of TaskLifecycle, that   *)
(* no entry leaves the group without an outcome (EntryInv), that a result  *)
(* is of the work and names the student asked for (AddressInv).  Polling   *)
(* changes nothing of the queue, so all of it holds with clients that poll *)
(* too, and what those are shown rests on it (PollInv, NotAhead).          *)
(***************************************************************************)
EXTENDS TaskPolling, TaskRefinement, TaskQueueProofs, FiniteSetTheorems

USE DEF gateway, store, queue, outputs, worker, budget

-----------------------------------------------------------------------------
(* Row, result and webhook.                                                *)

\* OutputsAgree, of one task.
Agree(t) ==
  /\ \A i \in 1 .. Len(hooks[t]) : Stored(t, hooks[t][i])
  /\ rows[t] # <<>> /\ result[t] # NoBody => rows[t][1] = Artefact(result[t])

\* OutputsAgree, task by task.
LEMMA AgreeEach == OutputsAgree <=> \A t \in Tasks : Agree(t)
  BY DEF OutputsAgree, PublishedIsStored, RowMatchesResult, Agree, Stored

\* The same with primes.
LEMMA AgreeEachNext == OutputsAgree' <=> \A t \in Tasks : Agree(t)'
  BY DEF OutputsAgree, PublishedIsStored, RowMatchesResult, Agree, Stored

\* What a worker puts out for the task in its hand disturbs no other task.
LEMMA WorkerAnswerKeeps ==
  ASSUME HandledOnceInv, AnswerInv, NEW w \in Workers, wpc[w] \in BusySteps,
         NEW s, wpc' = [wpc EXCEPT ![w] = s], s \in BusySteps \cup {"down"},
         UNCHANGED <<gpc, gbody, stream, delivered, wpos, wlast>>,
         \A v \in Workers \ {w} : wbody'[v] = wbody[v],
         \A t \in Tasks : t # Cur(w) =>
           result'[t] = result[t] /\ rows'[t] = rows[t] /\ hooks'[t] = hooks[t],
         WorkerAnswer(w)', Cur(w)' = Cur(w), Agree(Cur(w))'
  PROVE  AnswerInv'
<1>1. /\ Cur(w) \in Tasks
      /\ \A i \in 1 .. Len(stream) : WaitingAt(i) => stream[i] # Cur(w)
      /\ \A v \in Workers : v # w /\ wpc[v] \in BusySteps => Cur(v) # Cur(w)
      /\ \A t \in Tasks : gpc[t] \notin PastAdd => t # Cur(w)
  BY CurrentAlone
<1>2. /\ wpc \in [Workers -> WorkerSteps] /\ stream \in Seq(Tasks)
      /\ \A v \in Workers : wpc[v] \in BusySteps => Cur(v) \in Tasks
  BY CurType DEF HandledOnceInv, TypeInv, TypeOK
<1>3. /\ \A v \in Workers : v # w => wpc'[v] = wpc[v]
      /\ wpc'[w] = s
  BY <1>2
<1>4. /\ \A i \in 1 .. Len(stream) : WaitingAt(i)' => WaitingAt(i)
      /\ \A v \in Workers : Cur(v)' = Cur(v)
  BY <1>3, StillWaiting
<1>5. ASSUME NEW t \in Tasks PROVE GatewayAnswer(t)'
  BY <1>1 DEF AnswerInv, Answers, GatewayAnswer, Stored, PastAdd,
              GatewayBeforeResult, EnqueueSteps
<1>6. ASSUME NEW v \in Workers PROVE WorkerAnswer(v)'
  <2>1. CASE v = w
    BY <2>1
  <2>2. CASE v # w
    <3>1. WorkerAnswer(v) /\ wpc'[v] = wpc[v] /\ Cur(v)' = Cur(v) /\ wbody'[v] = wbody[v]
      BY <1>3, <1>4, <2>2 DEF AnswerInv, Answers
    <3>2. CASE wpc[v] \in BusySteps
      <4>1. result'[Cur(v)] = result[Cur(v)] /\ rows'[Cur(v)] = rows[Cur(v)]
        BY <1>1, <1>2, <2>2, <3>2
      <4> QED
        BY <3>1, <4>1 DEF WorkerAnswer, Stored
    <3>3. CASE wpc[v] \notin BusySteps
      BY <3>1, <3>3 DEF WorkerAnswer, BusySteps, HandlerSteps, FailureSteps
    <3> QED
      BY <3>2, <3>3
  <2> QED
    BY <2>1, <2>2
<1>7. \A i \in 1 .. Len(stream') : WaitingAt(i)' => result'[stream'[i]] = NoBody
  BY <1>1, <1>2, <1>4 DEF AnswerInv, Answers
<1>8. OutputsAgree'
  <2>1. ASSUME NEW t \in Tasks PROVE Agree(t)'
    <3>1. CASE t = Cur(w)
      BY <3>1, <1>4
    <3>2. CASE t # Cur(w)
      BY <3>2, AgreeEach DEF AnswerInv, Agree, Stored
    <3> QED
      BY <3>1, <3>2
  <2> QED
    BY <2>1, AgreeEachNext
<1> QED
  BY <1>5, <1>6, <1>7, <1>8 DEF AnswerInv, Answers

\* A worker that takes up a waiting entry finds no result of its task.
LEMMA AdvanceAnswerKeeps ==
  ASSUME HandledOnceInv, AnswerInv, NEW w \in Workers, Advance(w),
         UNCHANGED <<gpc, gbody, result, rows, hooks>>,
         \A v \in Workers \ {w} : wbody'[v] = wbody[v]
  PROVE  AnswerInv'
<1>1. \A t \in Tasks : GatewayAnswer(t)'
  BY DEF AnswerInv, Answers, GatewayAnswer, Stored
<1>2. ASSUME NEW v \in Workers PROVE WorkerAnswer(v)'
  <2>1. CASE v = w
    <3>1. CASE wpc'[w] \in {"read", "down"}
      BY <2>1, <3>1 DEF WorkerAnswer, HandlerSteps
    <3>2. CASE wpc'[w] = "mark"
      <4>1. result[Cur(w)'] = NoBody
        BY <3>2 DEF Advance, AnswerInv, Answers
      <4> QED
        BY <2>1, <3>2, <4>1 DEF WorkerAnswer
    <3> QED
      BY <3>1, <3>2 DEF Advance
  <2>2. CASE v # w
    BY <2>2 DEF Advance, AnswerInv, Answers, WorkerAnswer, Stored
  <2> QED
    BY <2>1, <2>2
<1>3. \A i \in 1 .. Len(stream') : WaitingAt(i)' => result'[stream'[i]] = NoBody
  BY DEF Advance, AnswerInv, Answers
<1>4. OutputsAgree'
  BY DEF AnswerInv, OutputsAgree, PublishedIsStored, RowMatchesResult
<1> QED
  BY <1>1, <1>2, <1>3, <1>4 DEF AnswerInv, Answers

\* What the gateway puts out on a cache hit disturbs no other task.
LEMMA GatewayAnswerKeeps ==
  ASSUME HandledOnceInv, AnswerInv, NEW t \in Tasks,
         NEW s, gpc' = [gpc EXCEPT ![t] = s],
         gpc[t] \notin PastAdd \/ UNCHANGED <<result, rows>>,
         UNCHANGED <<queue, wpc, wpos, wlast, wbody>>,
         \A u \in Tasks \ {t} :
           /\ result'[u] = result[u] /\ rows'[u] = rows[u]
           /\ hooks'[u] = hooks[u] /\ gbody'[u] = gbody[u],
         GatewayAnswer(t)', Agree(t)'
  PROVE  AnswerInv'
<1>1. /\ gpc \in [Tasks -> GatewaySteps] /\ stream \in Seq(Tasks)
      /\ \A w \in Workers : wpc[w] \in BusySteps => Cur(w) \in Tasks
  BY CurType DEF HandledOnceInv, TypeInv, TypeOK
<1>2. /\ \A i \in 1 .. Len(stream) : result'[stream[i]] = result[stream[i]]
      /\ \A w \in Workers : wpc[w] \in BusySteps =>
           result'[Cur(w)] = result[Cur(w)] /\ rows'[Cur(w)] = rows[Cur(w)]
  <2>1. CASE gpc[t] \notin PastAdd
    BY <1>1, <2>1, BeforeAddAlone
  <2>2. CASE UNCHANGED <<result, rows>>
    BY <2>2
  <2> QED
    BY <2>1, <2>2
<1>3. /\ \A i \in 1 .. Len(stream) : WaitingAt(i)' => WaitingAt(i)
      /\ \A w \in Workers : Cur(w)' = Cur(w)
  BY StillWaiting
<1>4. ASSUME NEW u \in Tasks PROVE GatewayAnswer(u)'
  BY <1>1 DEF AnswerInv, Answers, GatewayAnswer, Stored
<1>5. ASSUME NEW w \in Workers PROVE WorkerAnswer(w)'
  BY <1>2, <1>3 DEF AnswerInv, Answers, WorkerAnswer, Stored,
                    BusySteps, HandlerSteps, FailureSteps
<1>6. \A i \in 1 .. Len(stream') : WaitingAt(i)' => result'[stream'[i]] = NoBody
  BY <1>2, <1>3 DEF AnswerInv, Answers
<1>7. OutputsAgree'
  <2>1. ASSUME NEW u \in Tasks PROVE Agree(u)'
    BY AgreeEach DEF AnswerInv, Agree, Stored
  <2> QED
    BY <2>1, AgreeEachNext
<1> QED
  BY <1>4, <1>5, <1>6, <1>7 DEF AnswerInv, Answers

\* Each step of the gateway keeps the answers.
LEMMA GatewayAnswers ==
  ASSUME HandledOnceInv, AnswerInv, NEW t \in Tasks, Gateway(t) \/ GatewayFail(t)
  PROVE  AnswerInv'
<1>1. /\ gpc \in [Tasks -> GatewaySteps] /\ gbody \in [Tasks -> Bodies \cup {NoBody}]
      /\ result \in [Tasks -> Bodies \cup {NoBody}]
      /\ rows \in [Tasks -> Seq(Bodies)] /\ hooks \in [Tasks -> Seq(Bodies)]
      /\ gpc[t] \in CachedSteps => gbody[t] \in Bodies
  BY DEF HandledOnceInv, TypeInv, TypeOK, HoldsBody
<1>2. GatewayAnswer(t) /\ Agree(t)
  BY AgreeEach DEF AnswerInv, Answers
<1>3. /\ gpc[t] \in GatewayBeforeHook => hooks[t] = <<>>
      /\ gpc[t] \in GatewayBeforeHook \cup {"row"} => rows[t] = <<>>
  BY DEF HandledOnceInv, Outputs, GatewayUntouched
<1> USE DEF GatewayAnswer, PastAdd, GatewayGoto, GatewayBeforeResult, EnqueueSteps
<1>4. ASSUME UNCHANGED <<result, rows, hooks>> PROVE Agree(t)'
  BY <1>2, <1>4 DEF Agree, Stored
<1>5. CASE GatewayLookup(t)
  <2>1. PICK s \in {"pend", "cpend"} : gpc' = [gpc EXCEPT ![t] = s]
    BY <1>5 DEF GatewayLookup, EnqueueOrder
  <2>2. GatewayAnswer(t)' /\ Agree(t)'
    BY <1>1, <1>2, <1>4, <1>5, <2>1 DEF GatewayLookup
  <2>3. \A u \in Tasks \ {t} : gbody'[u] = gbody[u]
    BY <1>1, <1>5 DEF GatewayLookup
  <2> QED
    BY <1>5, <2>1, <2>2, <2>3, GatewayAnswerKeeps DEF GatewayLookup
<1>6. CASE \/ GatewaySetPending(t) \/ CachedSetPending(t)
           \/ CachedSnapshot(t) \/ CachedSetDone(t)
  <2>1. /\ gpc[t] \in {"pend", "cpend", "complete", "done"}
        /\ UNCHANGED <<gbody, result, rows, hooks, queue, wpc, wpos, wlast, wbody>>
        /\ \E s \in {"xadd", "complete", "done", "result"} : gpc' = [gpc EXCEPT ![t] = s]
    BY <1>6 DEF GatewaySetPending, CachedSetPending, CachedSnapshot, CachedSetDone,
                EnqueueOrder, CachedOrder
  <2>2. PICK s \in {"xadd", "complete", "done", "result"} : gpc' = [gpc EXCEPT ![t] = s]
    BY <2>1
  <2>3. GatewayAnswer(t)' /\ Agree(t)'
    BY <1>1, <1>2, <1>4, <2>1, <2>2
  <2> QED
    BY <2>1, <2>2, <2>3, GatewayAnswerKeeps
<1>7. CASE GatewayAdd(t)
  <2>1. /\ gpc[t] = "xadd" /\ gpc' = [gpc EXCEPT ![t] = "reply"]
        /\ UNCHANGED <<gbody, result, rows, hooks, wpc, wbody>>
    BY <1>7 DEF GatewayAdd, EnqueueOrder
  <2>2. \A u \in Tasks : GatewayAnswer(u)'
    BY <1>1, <2>1 DEF AnswerInv, Answers, Stored
  <2>3. \A w \in Workers : WorkerAnswer(w)'
    BY <1>7, <2>1, AddWaits DEF AnswerInv, Answers, WorkerAnswer, Stored,
                    BusySteps, HandlerSteps, FailureSteps
  <2>4. \A i \in 1 .. Len(stream') : WaitingAt(i)' => result'[stream'[i]] = NoBody
    BY <1>2, <1>7, <2>1, AddWaits DEF AnswerInv, Answers
  <2>5. OutputsAgree'
    BY <2>1 DEF AnswerInv, OutputsAgree, PublishedIsStored, RowMatchesResult
  <2> QED
    BY <2>2, <2>3, <2>4, <2>5 DEF AnswerInv, Answers
<1>8. CASE CachedSetResult(t)
  <2>1. /\ gpc[t] = "result" /\ gpc' = [gpc EXCEPT ![t] = "webhook"]
        /\ result' = [result EXCEPT ![t] = gbody[t]]
        /\ UNCHANGED <<gbody, rows, hooks, queue, wpc, wpos, wlast, wbody>>
    BY <1>8 DEF CachedSetResult, CachedOrder, SetResult
  <2>2. rows[t] = <<>> /\ hooks[t] = <<>>
    BY <1>3, <2>1 DEF GatewayBeforeHook, GatewaySteps, CachedSteps
  <2>3. GatewayAnswer(t)' /\ Agree(t)'
    BY <1>1, <2>1, <2>2 DEF Agree, Stored
  <2> QED
    BY <1>1, <2>1, <2>3, GatewayAnswerKeeps
<1>9. CASE CachedWebhook(t)
  <2>1. /\ gpc[t] = "webhook" /\ \E s \in {"row", "reply"} : gpc' = [gpc EXCEPT ![t] = s]
        /\ hooks' = [hooks EXCEPT ![t] = Append(hooks[t], gbody[t])]
        /\ UNCHANGED <<gbody, rows, result, queue, wpc, wpos, wlast, wbody>>
    BY <1>9 DEF CachedWebhook, CachedOrder, EnqueueWebhook
  <2>2. PICK s \in {"row", "reply"} : gpc' = [gpc EXCEPT ![t] = s]
    BY <2>1
  <2>3. hooks[t] = <<>> /\ gbody[t] \in Bodies
    BY <1>1, <1>3, <2>1 DEF GatewayBeforeHook, GatewaySteps, CachedSteps
  <2>4. hooks'[t] = <<gbody[t]>> /\ Stored(t, gbody[t])
    BY <1>1, <1>2, <2>1, <2>3
  <2>5. GatewayAnswer(t)' /\ Agree(t)'
    BY <1>1, <1>2, <2>1, <2>2, <2>4 DEF Agree, Stored
  <2> QED
    BY <1>1, <2>1, <2>2, <2>5, GatewayAnswerKeeps
<1>10. CASE CachedPersist(t)
  <2>1. /\ gpc[t] = "row" /\ gpc' = [gpc EXCEPT ![t] = "reply"]
        /\ rows' = [rows EXCEPT ![t] = Append(rows[t], Artefact(gbody[t]))]
        /\ UNCHANGED <<gbody, hooks, result, queue, wpc, wpos, wlast, wbody>>
    BY <1>10 DEF CachedPersist, CachedOrder, PersistRow
  <2>2. rows[t] = <<>> /\ Artefact(gbody[t]) \in Bodies
    BY <1>1, <1>3, <2>1, BodyTypes DEF GatewayBeforeHook, GatewaySteps, CachedSteps
  <2>3. rows'[t] = <<Artefact(gbody[t])>> /\ Stored(t, gbody[t])
    BY <1>1, <1>2, <2>1, <2>2
  <2>4. GatewayAnswer(t)' /\ Agree(t)'
    BY <1>1, <1>2, <2>1, <2>3 DEF Agree, Stored
  <2> QED
    BY <1>1, <2>1, <2>4, GatewayAnswerKeeps
<1>11. CASE GatewayReply(t) \/ GatewayFail(t)
  <2>1. /\ UNCHANGED <<gbody, result, rows, hooks, queue, wpc, wpos, wlast, wbody>>
        /\ \E s \in {"accepted", "error"} : gpc' = [gpc EXCEPT ![t] = s]
    BY <1>11 DEF GatewayReply, GatewayFail
  <2>2. PICK s \in {"accepted", "error"} : gpc' = [gpc EXCEPT ![t] = s]
    BY <2>1
  <2>3. GatewayAnswer(t)' /\ Agree(t)'
    BY <1>1, <1>4, <2>1, <2>2
  <2> QED
    BY <2>1, <2>2, <2>3, GatewayAnswerKeeps
<1> QED
  BY <1>5, <1>6, <1>7, <1>8, <1>9, <1>10, <1>11 DEF Gateway

\* Each step of a worker keeps the answers.
LEMMA WorkerAnswers ==
  ASSUME HandledOnceInv, AnswerInv, NEW w \in Workers,
         Worker(w) \/ Raise(w) \/ Crash(w)
  PROVE  AnswerInv'
<1>1. /\ wpc \in [Workers -> WorkerSteps] /\ wbody \in [Workers -> Bodies \cup {NoBody}]
      /\ result \in [Tasks -> Bodies \cup {NoBody}]
      /\ rows \in [Tasks -> Seq(Bodies)] /\ hooks \in [Tasks -> Seq(Bodies)]
      /\ wpc[w] \in BusySteps => Cur(w) \in Tasks
      /\ wpc[w] \in {"persist", "result", "webhook"} => wbody[w] \in Bodies
  BY CurType DEF HandledOnceInv, TypeInv, TypeOK, HoldsBody
<1>2. WorkerAnswer(w) /\ (wpc[w] \in BusySteps => Agree(Cur(w)))
  BY <1>1, AgreeEach DEF AnswerInv, Answers
<1>3. /\ wpc[w] \in {"lookup", "infer", "persist"} => rows[Cur(w)] = <<>>
      /\ wpc[w] \in {"result", "webhook"} => hooks[Cur(w)] = <<>>
  BY DEF HandledOnceInv, Outputs, CurrentUntouched, BeforeRow, BeforeHook, HandlerSteps
<1> USE KindAssumption
<1> USE DEF WorkerAnswer, BusySteps, HandlerSteps, FailureSteps, WorkerGoto
<1>4. ASSUME UNCHANGED <<result, rows, hooks, stream, wpos>>, wpc[w] \in BusySteps
      PROVE  Agree(Cur(w))' /\ Cur(w)' = Cur(w)
  BY <1>2, <1>4 DEF Agree, Stored, Cur
<1>5. CASE Read(w)
  BY <1>5, ReadAdvances, AdvanceAnswerKeeps DEF Read
<1>6. CASE Mark(w) \/ SetProcessing(w) \/ Snapshot(w) \/ SetDone(w) \/ CacheFill(w)
  <2>1. /\ wpc[w] \in {"mark", "marking", "complete", "done", "fill"}
        /\ UNCHANGED <<gateway, queue, result, rows, hooks, wpos, wlast, wbody>>
        /\ \E s \in {"marking", "infer", "lookup", "persist", "complete", "done", "result"} :
             /\ wpc' = [wpc EXCEPT ![w] = s]
             /\ s \in {"persist", "complete", "done", "result"} =>
                  wpc[w] \in {"complete", "done", "fill"}
    BY <1>6, FlagAssumption DEF Mark, SetProcessing, Snapshot, SetDone, CacheFill,
              HandlerOrder, CompletionOrder, SetStatus
  <2>2. PICK s \in {"marking", "infer", "lookup", "persist", "complete", "done", "result"} :
             /\ wpc' = [wpc EXCEPT ![w] = s]
             /\ s \in {"persist", "complete", "done", "result"} =>
                  wpc[w] \in {"complete", "done", "fill"}
    BY <2>1
  <2>3. Agree(Cur(w))' /\ Cur(w)' = Cur(w)
    BY <1>4, <2>1
  <2>4. WorkerAnswer(w)'
    BY <1>1, <1>2, <2>1, <2>2, <2>3
  <2> QED
    BY <2>1, <2>2, <2>3, <2>4, WorkerAnswerKeeps
<1>7. CASE CacheLookup(w) \/ Infer(w)
  <2>1. /\ wpc[w] \in {"lookup", "infer"}
        /\ UNCHANGED <<gateway, queue, result, rows, hooks, wpos, wlast>>
        /\ \A v \in Workers \ {w} : wbody'[v] = wbody[v]
        /\ \E s \in {"infer", "fill", "persist", "complete"} : wpc' = [wpc EXCEPT ![w] = s]
    BY <1>1, <1>7, FlagAssumption DEF CacheLookup, Infer, HandlerOrder
  <2>2. PICK s \in {"infer", "fill", "persist", "complete"} : wpc' = [wpc EXCEPT ![w] = s]
    BY <2>1
  <2>3. Agree(Cur(w))' /\ Cur(w)' = Cur(w)
    BY <1>4, <2>1
  <2>4. WorkerAnswer(w)'
    BY <1>1, <1>2, <1>3, <2>1, <2>2, <2>3
  <2> QED
    BY <2>1, <2>2, <2>3, <2>4, WorkerAnswerKeeps
<1>8. CASE Persist(w)
  <2>1. /\ wpc[w] = "persist" /\ Cur(w)' = Cur(w)
        /\ rows' = [rows EXCEPT ![Cur(w)] = Append(rows[Cur(w)], Artefact(wbody[w]))]
        /\ UNCHANGED <<gateway, queue, result, hooks, wpos, wlast, wbody>>
        /\ \E s \in {"fill", "complete"} : wpc' = [wpc EXCEPT ![w] = s]
    BY <1>8, FlagAssumption DEF Persist, HandlerOrder, PersistRow, Cur
  <2>2. PICK s \in {"fill", "complete"} : wpc' = [wpc EXCEPT ![w] = s]
    BY <2>1
  <2>3. rows[Cur(w)] = <<>> /\ Artefact(wbody[w]) \in Bodies
    BY <1>1, <1>3, <2>1, BodyTypes
  <2>4. /\ rows'[Cur(w)] = <<Artefact(wbody[w])>>
        /\ \A t \in Tasks : t # Cur(w) => rows'[t] = rows[t]
    BY <1>1, <2>1, <2>3
  <2>5. WorkerAnswer(w)'
    BY <1>1, <1>2, <2>1, <2>2, <2>4
  <2>6. Agree(Cur(w))'
    BY <1>2, <2>1, <2>4 DEF Agree, Stored
  <2> QED
    BY <2>1, <2>2, <2>4, <2>5, <2>6, WorkerAnswerKeeps
<1>9. CASE StoreResult(w)
  <2>1. /\ wpc[w] = "result" /\ Cur(w)' = Cur(w) /\ wpc' = [wpc EXCEPT ![w] = "webhook"]
        /\ result' = [result EXCEPT ![Cur(w)] = wbody[w]]
        /\ UNCHANGED <<gateway, queue, rows, hooks, wpos, wlast, wbody>>
    BY <1>9 DEF StoreResult, CompletionOrder, SetResult, BodyToStore, Cur
  <2>2. /\ result'[Cur(w)] = wbody[w]
        /\ \A t \in Tasks : t # Cur(w) => result'[t] = result[t]
    BY <1>1, <2>1
  <2>3. WorkerAnswer(w)'
    BY <1>1, <2>1, <2>2 DEF Stored
  <2>4. Agree(Cur(w))'
    BY <1>2, <1>3, <2>1, <2>2 DEF Agree
  <2> QED
    BY <2>1, <2>2, <2>3, <2>4, WorkerAnswerKeeps
<1>10. CASE Webhook(w)
  <2>1. /\ wpc[w] = "webhook" /\ Cur(w)' = Cur(w) /\ wpc' = [wpc EXCEPT ![w] = "ack"]
        /\ hooks' = [hooks EXCEPT ![Cur(w)] = Append(hooks[Cur(w)], wbody[w])]
        /\ UNCHANGED <<gateway, queue, rows, result, wpos, wlast, wbody>>
    BY <1>10 DEF Webhook, CompletionOrder, EnqueueWebhook, Cur
  <2>2. /\ hooks'[Cur(w)] = <<wbody[w]>> /\ Stored(Cur(w), wbody[w])
        /\ \A t \in Tasks : t # Cur(w) => hooks'[t] = hooks[t]
    BY <1>1, <1>2, <1>3, <2>1
  <2>3. WorkerAnswer(w)'
    BY <1>1, <2>1
  <2>4. Agree(Cur(w))'
    BY <1>2, <2>1, <2>2 DEF Agree, Stored
  <2> QED
    BY <2>1, <2>2, <2>3, <2>4, WorkerAnswerKeeps
<1>11. CASE Ack(w) \/ FailAck(w)
  <2>1. Advance(w)
    BY <1>11, NextEntryAdvances DEF Ack, FailAck
  <2> QED
    BY <1>1, <1>11, <2>1, AdvanceAnswerKeeps DEF Ack, FailAck, LeaveHandler
<1>12. CASE FailGet(w) \/ SetFailed(w) \/ Raise(w)
  <2>1. /\ wpc[w] \in BusySteps
        /\ UNCHANGED <<gateway, stream, delivered, result, rows, hooks, wpos, wlast, wbody>>
        /\ \E s \in FailureSteps : wpc' = [wpc EXCEPT ![w] = s]
    BY <1>12 DEF FailGet, SetFailed, Raise, FailureOrder, SetStatus
  <2>2. PICK s \in FailureSteps : wpc' = [wpc EXCEPT ![w] = s]
    BY <2>1
  <2>3. WorkerAnswer(w)' /\ Agree(Cur(w))' /\ Cur(w)' = Cur(w)
    BY <1>1, <1>4, <2>1, <2>2
  <2> QED
    BY <2>1, <2>2, <2>3, WorkerAnswerKeeps
<1>13. CASE Crash(w) \/ Restart(w)
  <2>1. Advance(w)
    BY <1>13, IdleAdvances
  <2> QED
    BY <1>1, <1>13, <2>1, AdvanceAnswerKeeps DEF Crash, Restart, LeaveHandler
<1> QED
  BY <1>5, <1>6, <1>7, <1>8, <1>9, <1>10, <1>11, <1>12, <1>13 DEF Worker

\* A document that expires was the last to be compared, or changes nothing.
LEMMA ExpiryAnswers ==
  ASSUME HandledOnceInv, AnswerInv,
         \/ \E t \in Tasks : ExpireStatus(t) \/ ExpireResult(t)
         \/ \E k \in Works : ExpireCache(k)
         \/ UNCHANGED vars
  PROVE  AnswerInv'
<1> /\ result \in [Tasks -> Bodies \cup {NoBody}] /\ stream \in Seq(Tasks)
    /\ \A w \in Workers : wpc[w] \in BusySteps => Cur(w) \in Tasks
  BY CurType DEF HandledOnceInv, TypeInv, TypeOK
<1>1. /\ \A t \in Tasks : result'[t] = result[t] \/ (Expiring /\ result'[t] = NoBody)
      /\ UNCHANGED <<gpc, gbody, queue, outputs, wpc, wpos, wlast, wbody>>
  BY DEF ExpireStatus, ExpireResult, ExpireCache, vars
<1>2. \A t \in Tasks : GatewayAnswer(t)'
  BY <1>1 DEF AnswerInv, Answers, GatewayAnswer, Stored
<1>3. \A w \in Workers : WorkerAnswer(w)'
  BY <1>1 DEF AnswerInv, Answers, WorkerAnswer, Stored, Cur,
              BusySteps, HandlerSteps, FailureSteps
<1>4. \A i \in 1 .. Len(stream') : WaitingAt(i)' => result'[stream'[i]] = NoBody
  BY <1>1 DEF AnswerInv, Answers, WaitingAt
<1>5. \A t \in Tasks : Agree(t)'
  BY <1>1, AgreeEach DEF AnswerInv, Agree, Stored
<1> QED
  BY <1>2, <1>3, <1>4, <1>5, AgreeEachNext DEF AnswerInv, Answers

\* Nothing is stored and nothing is put out initially.
LEMMA AnswerInit == Init => AnswerInv
<1> SUFFICES ASSUME Init PROVE AnswerInv
  OBVIOUS
<1>1. Answers
  BY DEF Init, Answers, GatewayAnswer, WorkerAnswer, HandlerSteps
<1>2. OutputsAgree
  BY DEF Init, OutputsAgree, PublishedIsStored, RowMatchesResult
<1> QED
  BY <1>1, <1>2 DEF AnswerInv

\* Every step keeps the answers.
LEMMA AnswerNext == HandledOnceInv /\ AnswerInv /\ [Next]_vars => AnswerInv'
  BY GatewayAnswers, WorkerAnswers, ExpiryAnswers DEF Next

(* What a task has put out is of one inference, for any number of tasks     *)
(* that race on any number of cache keys: the row is the artefact of the    *)
(* result, and the webhook carries the result, until its TTL drops it.      *)
THEOREM OutputsAlwaysAgree == Spec => []OutputsAgree
<1>1. AnswerInv => OutputsAgree
  BY DEF AnswerInv
<1> QED
  BY HandledOnceInit, HandledOnceNext, AnswerInit, AnswerNext, <1>1, PTL DEF Spec

-----------------------------------------------------------------------------
(* TaskQueue implements TaskLifecycle.                                      *)

\* A write of one status document opens, finishes or fails its task, or
\* changes nothing that TaskLifecycle sees.
LEMMA StatusMaps ==
  ASSUME ~ Expiring, NEW t \in Tasks, NEW d, StatusMove(t),
         status \in [Tasks -> StatusDocs], status' = [status EXCEPT ![t] = d],
         UNCHANGED <<result, hooks>>
  PROVE  [Lifecycle!LifeNext]_(Lifecycle!lifeVars)
<1> DEFINE phase == [u \in Tasks |-> PhaseOf(status[u].st)]
<1>1. phase' = [phase EXCEPT ![t] = PhaseOf(status'[t].st)]
  OBVIOUS
<1>2. phase[t] = PhaseOf(status[t].st)
  OBVIOUS
<1>3. CASE status'[t] = status[t]
  BY <1>3 DEF Lifecycle!lifeVars
<1>4. CASE status'[t].st = "pending" /\ status[t].st = "none"
  <2>1. Lifecycle!Open(t)
    BY <1>1, <1>2, <1>4 DEF Lifecycle!Open, PhaseOf
  <2> QED
    BY <2>1 DEF Lifecycle!LifeNext
<1>5. CASE status'[t].st = "processing" /\ status[t].st = "pending"
  <2>1. phase' = phase
    BY <1>1, <1>2, <1>5 DEF PhaseOf
  <2> QED
    BY <2>1 DEF Lifecycle!lifeVars
<1>6. CASE status'[t].st = "done" /\ status[t].st \in {"pending", "processing"}
  <2>1. Lifecycle!Finish(t)
    BY <1>1, <1>2, <1>6 DEF Lifecycle!Finish, PhaseOf
  <2> QED
    BY <2>1 DEF Lifecycle!LifeNext
<1>7. CASE status'[t].st = "failed" /\ status[t].st \in {"pending", "processing", "done"}
  <2>1. Lifecycle!Fail(t)
    BY <1>1, <1>2, <1>7 DEF Lifecycle!Fail, PhaseOf
  <2> QED
    BY <2>1 DEF Lifecycle!LifeNext
<1> QED
  BY <1>3, <1>4, <1>5, <1>6, <1>7 DEF StatusMove, Reads, NoDoc

\* The first result of a task that is done is its answer.
LEMMA ResultMaps ==
  ASSUME NEW t \in Tasks, NEW b \in Bodies, status[t].st = "done",
         result[t] = NoBody, result' = [result EXCEPT ![t] = b],
         UNCHANGED <<status, hooks>>
  PROVE  Lifecycle!LifeNext
<1>1. Lifecycle!Answer(t, b)
  BY DEF Lifecycle!Answer, PhaseOf
<1> QED
  BY <1>1 DEF Lifecycle!LifeNext

\* The first webhook of a task that has an answer carries it.
LEMMA HookMaps ==
  ASSUME NEW t \in Tasks, NEW b \in Bodies, status[t].st = "done",
         result[t] = b, hooks[t] = <<>>, hooks' = [hooks EXCEPT ![t] = Append(hooks[t], b)],
         UNCHANGED <<status, result>>
  PROVE  Lifecycle!LifeNext
<1>1. hooks' = [hooks EXCEPT ![t] = <<result[t]>>]
  OBVIOUS
<1>2. Lifecycle!Send(t)
  BY <1>1, AbsentAssumption DEF Lifecycle!Send, PhaseOf
<1> QED
  BY <1>2 DEF Lifecycle!LifeNext

\* Each step of the gateway is a step or a stutter of TaskLifecycle.
LEMMA GatewayMaps ==
  ASSUME ~ Expiring, HandledOnceInv, StageInv, AnswerInv, [Next]_vars,
         NEW t \in Tasks, Gateway(t) \/ GatewayFail(t)
  PROVE  [Lifecycle!LifeNext]_(Lifecycle!lifeVars)
<1>1. /\ status \in [Tasks -> StatusDocs] /\ StatusMove(t)
      /\ GatewayStage(t) /\ GatewayAnswer(t)
      /\ gpc[t] \in CachedSteps => gbody[t] \in Bodies
  BY StatusMoves DEF HandledOnceInv, TypeInv, TypeOK, HoldsBody,
                     StageInv, Stages, AnswerInv, Answers
<1>2. CASE GatewaySetPending(t) \/ CachedSetPending(t) \/ CachedSetDone(t)
  <2>1. /\ \E d : status' = [status EXCEPT ![t] = d]
        /\ UNCHANGED <<result, hooks>>
    BY <1>2 DEF GatewaySetPending, CachedSetPending, CachedSetDone, SetStatus
  <2> QED
    BY <1>1, <2>1, StatusMaps
<1>3. CASE CachedSetResult(t)
  <2>1. /\ gpc[t] = "result" /\ result' = [result EXCEPT ![t] = gbody[t]]
        /\ UNCHANGED <<status, hooks>>
    BY <1>3 DEF CachedSetResult, SetResult
  <2>2. status[t].st = "done" /\ result[t] = NoBody /\ gbody[t] \in Bodies
    BY <1>1, <2>1 DEF GatewayStage, Reads, GatewayAnswer, GatewayBeforeResult, CachedSteps
  <2> QED
    BY <2>1, <2>2, ResultMaps
<1>4. CASE CachedWebhook(t)
  <2>1. /\ gpc[t] = "webhook" /\ hooks' = [hooks EXCEPT ![t] = Append(hooks[t], gbody[t])]
        /\ UNCHANGED <<status, result>>
    BY <1>4 DEF CachedWebhook, EnqueueWebhook
  <2>2. status[t].st = "done" /\ result[t] = gbody[t] /\ gbody[t] \in Bodies
    BY <1>1, <2>1 DEF GatewayStage, Reads, GatewayAnswer, Stored, CachedSteps
  <2>3. hooks[t] = <<>>
    BY <2>1 DEF HandledOnceInv, Outputs, GatewayUntouched, GatewayBeforeHook,
                GatewaySteps, CachedSteps, PastAdd
  <2> QED
    BY <2>1, <2>2, <2>3, HookMaps
<1>5. CASE \/ GatewayLookup(t) \/ GatewayAdd(t) \/ CachedSnapshot(t)
           \/ CachedPersist(t) \/ GatewayReply(t) \/ GatewayFail(t)
  <2>1. UNCHANGED <<status, result, hooks>>
    BY <1>5 DEF GatewayLookup, GatewayAdd, CachedSnapshot, CachedPersist,
                GatewayReply, GatewayFail
  <2> QED
    BY <2>1 DEF Lifecycle!lifeVars
<1> QED
  BY <1>2, <1>3, <1>4, <1>5 DEF Gateway

\* So is each step of a worker.
LEMMA WorkerMaps ==
  ASSUME ~ Expiring, HandledOnceInv, StageInv, AnswerInv, [Next]_vars,
         NEW w \in Workers, Worker(w) \/ Raise(w) \/ Crash(w)
  PROVE  [Lifecycle!LifeNext]_(Lifecycle!lifeVars)
<1>1. /\ status \in [Tasks -> StatusDocs] /\ WorkerStage(w) /\ WorkerAnswer(w)
      /\ wpc[w] \in BusySteps => Cur(w) \in Tasks /\ StatusMove(Cur(w))
      /\ wpc[w] \in {"result", "webhook"} => wbody[w] \in Bodies
  BY CurType, StatusMoves DEF HandledOnceInv, TypeInv, TypeOK, HoldsBody,
                     StageInv, Stages, AnswerInv, Answers
<1>2. CASE SetProcessing(w) \/ SetDone(w) \/ SetFailed(w)
  <2>1. /\ wpc[w] \in BusySteps /\ \E d : status' = [status EXCEPT ![Cur(w)] = d]
        /\ UNCHANGED <<result, hooks>>
    BY <1>2 DEF SetProcessing, SetDone, SetFailed, SetStatus,
                BusySteps, HandlerSteps, FailureSteps
  <2> QED
    BY <1>1, <2>1, StatusMaps
<1>3. CASE StoreResult(w)
  <2>1. /\ wpc[w] = "result" /\ result' = [result EXCEPT ![Cur(w)] = wbody[w]]
        /\ UNCHANGED <<status, hooks>>
    BY <1>3 DEF StoreResult, SetResult, BodyToStore
  <2>2. /\ status[Cur(w)].st = "done" /\ result[Cur(w)] = NoBody
        /\ wbody[w] \in Bodies /\ Cur(w) \in Tasks
    BY <1>1, <2>1 DEF WorkerStage, Reads, Finished, WorkerAnswer, BusySteps, HandlerSteps
  <2> QED
    BY <2>1, <2>2, ResultMaps
<1>4. CASE Webhook(w)
  <2>1. /\ wpc[w] = "webhook"
        /\ hooks' = [hooks EXCEPT ![Cur(w)] = Append(hooks[Cur(w)], wbody[w])]
        /\ UNCHANGED <<status, result>>
    BY <1>4 DEF Webhook, EnqueueWebhook
  <2>2. /\ status[Cur(w)].st = "done" /\ result[Cur(w)] = wbody[w]
        /\ wbody[w] \in Bodies /\ Cur(w) \in Tasks
    BY <1>1, <2>1 DEF WorkerStage, Reads, Finished, WorkerAnswer, Stored,
                      BusySteps, HandlerSteps
  <2>3. hooks[Cur(w)] = <<>>
    BY <2>1 DEF HandledOnceInv, Outputs, CurrentUntouched, BeforeHook, HandlerSteps
  <2> QED
    BY <2>1, <2>2, <2>3, HookMaps
<1>5. CASE \/ Read(w) \/ Mark(w) \/ CacheLookup(w) \/ Infer(w) \/ CacheFill(w)
           \/ Persist(w) \/ Snapshot(w) \/ Ack(w) \/ FailGet(w) \/ FailAck(w)
           \/ Restart(w) \/ Raise(w) \/ Crash(w)
  <2>1. UNCHANGED <<status, result, hooks>>
    BY <1>5 DEF Read, Mark, CacheLookup, Infer, CacheFill, Persist, Snapshot, Ack,
                FailGet, FailAck, Restart, Raise, Crash
  <2> QED
    BY <2>1 DEF Lifecycle!lifeVars
<1> QED
  BY <1>2, <1>3, <1>4, <1>5 DEF Worker

\* So is every step, as long as no document expires.
LEMMA LifecycleStep ==
  ASSUME ~ Expiring
  PROVE  HandledOnceInv /\ StageInv /\ AnswerInv /\ [Next]_vars =>
           [Lifecycle!LifeNext]_(Lifecycle!lifeVars)
<1> SUFFICES ASSUME HandledOnceInv, StageInv, AnswerInv, [Next]_vars
             PROVE  [Lifecycle!LifeNext]_(Lifecycle!lifeVars)
  OBVIOUS
<1>1. CASE \/ \E t \in Tasks : ExpireStatus(t) \/ ExpireResult(t)
           \/ \E k \in Works : ExpireCache(k)
           \/ UNCHANGED vars
  <2>1. UNCHANGED <<status, result, hooks>>
    BY <1>1 DEF ExpireStatus, ExpireResult, ExpireCache, vars
  <2> QED
    BY <2>1 DEF Lifecycle!lifeVars
<1> QED
  BY <1>1, GatewayMaps, WorkerMaps DEF Next

(* As long as no document expires, every task goes through the life that    *)
(* TaskLifecycle describes: opened, done or failed, answered once, and its  *)
(* one webhook carries that answer, with any number of gateways and workers *)
(* that interleave, raise, crash and restart.                               *)
THEOREM LifecycleImplemented ==
  ASSUME ~ Expiring
  PROVE  Spec => ImplementsLifecycle
<1>1. Init => Lifecycle!LifeInit
  BY DEF Init, Lifecycle!LifeInit, PhaseOf, NoDoc
<1> QED
  BY HandledOnceInit, HandledOnceNext, StageInit, StageNext, AnswerInit, AnswerNext,
     LifecycleStep, <1>1, PTL DEF Spec, ImplementsLifecycle, Lifecycle!LifeSpec

-----------------------------------------------------------------------------
(* The pending lists.                                                       *)

\* The task of entry i has an outcome, unless its status has expired.
HasOutcome(i) ==
  Settled(stream[i]) \/ (Expiring /\ status[stream[i]] = NoDoc)

\* The types the proofs below use.
LEMMA EntryTypes ==
  ASSUME HandledOnceInv
  PROVE  /\ stream \in Seq(Tasks) /\ Len(stream) \in Nat /\ delivered \in 0 .. Len(stream)
         /\ pel \in [Workers -> SUBSET (1 .. delivered)]
         /\ wpc \in [Workers -> WorkerSteps] /\ wpos \in [Workers -> Nat]
         /\ wlast \in [Workers -> 0 .. delivered]
         /\ \A w \in Workers : wpc[w] \in BusySteps =>
              /\ wpos[w] \in 1 .. wlast[w] /\ wlast[w] \in 0 .. delivered
              /\ Cur(w) = stream[wpos[w]]
  BY DEF HandledOnceInv, TypeInv, TypeOK, InHand, Cur

\* The outcome of an entry on no pending list stays: the only worker that could
\* write its task again is in the except branch, and writes failed.
LEMMA OutcomeStays ==
  ASSUME HandledOnceInv, StageInv, \A w \in Workers : HoldsEntries(w), [Next]_vars,
         NEW i \in 1 .. delivered, i \notin Pending, HasOutcome(i)
  PROVE  HasOutcome(i)' /\ stream'[i] = stream[i]
<1> DEFINE t == stream[i]
<1>1. /\ t \in Tasks /\ i \in 1 .. Len(stream) /\ status \in [Tasks -> StatusDocs]
      /\ gpc[t] \in PastAdd
  BY DEF HandledOnceInv, TypeInv, TypeOK, Claims, AddedByGateway
<1>2. stream'[i] = stream[i]
  <2>1. CASE stream' = stream
    BY <2>1
  <2>2. ASSUME NEW u \in Tasks, GatewayAdd(u) PROVE stream'[i] = stream[i]
    <3>1. stream' = Append(stream, u) /\ stream \in Seq(Tasks)
      BY <2>2 DEF GatewayAdd, HandledOnceInv, TypeInv, TypeOK
    <3> QED
      BY <1>1, <3>1
  <2>3. stream' = stream \/ \E u \in Tasks : GatewayAdd(u)
    BY DEF Next, vars, Gateway, GatewayLookup, GatewaySetPending, CachedSetPending,
       CachedSnapshot, CachedSetDone, CachedSetResult, CachedWebhook, CachedPersist,
       GatewayReply, GatewayFail, Worker, Read, Mark, SetProcessing, CacheLookup, Infer,
       CacheFill, Persist, Snapshot, SetDone, StoreResult, Webhook, Ack, FailGet,
       SetFailed, FailAck, Restart, Raise, Crash, ExpireStatus, ExpireResult, ExpireCache
  <2> QED
    BY <2>1, <2>2, <2>3
<1>3. CASE status'[t] = status[t]
  BY <1>2, <1>3 DEF HasOutcome, Settled
<1>4. ASSUME status'[t] # status[t], ~ HasOutcome(i)' PROVE FALSE
  <2>1. status'[t].st \in {"pending", "processing"}
    BY <1>1, <1>2, <1>4, StatusMoves DEF StatusMove, HasOutcome, Settled
  <2>2. \A u \in Tasks : ~ GatewaySetPending(u) \/ u # t
    BY <1>1 DEF GatewaySetPending, PastAdd
  <2>3. \A u \in Tasks : ~ CachedSetPending(u) \/ u # t
    BY <1>1 DEF CachedSetPending, PastAdd
  <2>4. ASSUME NEW w \in Workers, SetProcessing(w) PROVE Cur(w) # t
    <3>1. wpc[w] = "marking" /\ wpc[w] \in BusySteps /\ wpc[w] \notin FailureSteps
      BY <2>4 DEF SetProcessing, BusySteps, HandlerSteps, FailureSteps
    <3>2. /\ wpos[w] \in 1 .. wlast[w] /\ wlast[w] \in 0 .. delivered
          /\ Cur(w) = stream[wpos[w]]
      BY <3>1, EntryTypes
    <3>3. wpos[w] \in pel[w]
      BY <3>1, <3>2 DEF HoldsEntries, AboutToHandle
    <3>4. wpos[w] # i /\ wpos[w] \in 1 .. Len(stream)
      BY <3>2, <3>3, EntryTypes DEF Pending
    <3> QED
      BY <1>1, <3>2, <3>4 DEF HandledOnceInv, Claims, StreamOnce
  <2> HIDE DEF t
  <2>5. \/ \E u \in Tasks : GatewaySetPending(u) \/ CachedSetPending(u)
        \/ \E w \in Workers : SetProcessing(w)
        \/ status'[t] = status[t]
        \/ status'[t] = NoDoc
        \/ status'[t].st \in {"done", "failed"}
    <3>1. ASSUME NEW u \in Tasks, Gateway(u), ~ GatewaySetPending(u), ~ CachedSetPending(u)
          PROVE  status'[t] = status[t] \/ status'[t].st \in {"done", "failed"}
      BY <1>1, <3>1 DEF Gateway, GatewayLookup, GatewayAdd, CachedSnapshot, CachedSetDone,
         CachedSetResult, CachedWebhook, CachedPersist, GatewayReply, SetStatus
    <3>2. ASSUME NEW w \in Workers, Worker(w), ~ SetProcessing(w)
          PROVE  status'[t] = status[t] \/ status'[t].st \in {"done", "failed"}
      BY <1>1, <3>2 DEF Worker, Read, Mark, CacheLookup, Infer, CacheFill, Persist,
         Snapshot, SetDone, StoreResult, Webhook, Ack, FailGet, SetFailed, FailAck,
         Restart, SetStatus
    <3> QED
      BY <1>1, <3>1, <3>2 DEF Next, vars, GatewayFail, Raise, Crash,
         ExpireStatus, ExpireResult, ExpireCache
  <2>6. ASSUME NEW u \in Tasks, u # t, GatewaySetPending(u) \/ CachedSetPending(u)
        PROVE  status'[t] = status[t]
    BY <1>1, <2>6 DEF GatewaySetPending, CachedSetPending, SetStatus
  <2>7. ASSUME NEW w \in Workers, Cur(w) # t, SetProcessing(w)
        PROVE  status'[t] = status[t]
    BY <1>1, <2>7 DEF SetProcessing, SetStatus
  <2> QED
    BY <1>4, <2>1, <2>2, <2>3, <2>4, <2>5, <2>6, <2>7 DEF NoDoc
<1> QED
  BY <1>2, <1>3, <1>4

\* AckedIsSettled after a step, when every entry it takes off the pending lists
\* has an outcome.
LEMMA SettledKeeps ==
  ASSUME HandledOnceInv, StageInv, EntryInv, [Next]_vars,
         \A i \in 1 .. delivered' : i \notin Pending' =>
           i \in 1 .. delivered /\ (i \in Pending => HasOutcome(i)')
  PROVE  AckedIsSettled'
<1> SUFFICES ASSUME NEW i \in 1 .. delivered', i \notin Pending' PROVE HasOutcome(i)'
  BY DEF AckedIsSettled, HasOutcome
<1>1. i \in 1 .. delivered /\ (i \in Pending => HasOutcome(i)')
  OBVIOUS
<1>2. CASE i \notin Pending
  <2>1. HasOutcome(i)
    BY <1>1, <1>2 DEF EntryInv, AckedIsSettled, HasOutcome
  <2> QED
    BY <1>1, <1>2, <2>1, OutcomeStays DEF EntryInv
<1> QED
  BY <1>1, <1>2

\* The entries on pending lists are finitely many.
LEMMA StrandedFinite ==
  ASSUME HandledOnceInv
  PROVE  IsFiniteSet(Stranded) /\ Cardinality(Stranded) \in Nat
<1>1. Stranded \subseteq 1 .. delivered /\ delivered \in Nat
  BY EntryTypes DEF Stranded, Pending
<1>2. IsFiniteSet(1 .. delivered)
  BY <1>1, FS_Interval
<1>3. IsFiniteSet(Stranded)
  BY <1>1, <1>2, FS_Subset
<1> QED
  BY <1>3, FS_CardinalityType

\* CrashStrandsOneBatch after a step that strands nothing.
LEMMA StrandedKeeps ==
  ASSUME HandledOnceInv, EntryInv, Stranded' \subseteq Stranded, crashes' = crashes
  PROVE  CrashStrandsOneBatch'
<1>1. Cardinality(Stranded') <= Cardinality(Stranded)
  BY StrandedFinite, FS_Subset
<1>2. /\ Cardinality(Stranded) \in Nat /\ Cardinality(Stranded') \in Nat
      /\ Batch * crashes \in Nat
  <2>1. crashes \in Nat
    BY BoundAssumption DEF HandledOnceInv, TypeInv, TypeOK
  <2> QED
    BY <2>1, StrandedFinite, FS_Subset, FS_CardinalityType, BatchAssumption
<1>3. Cardinality(Stranded) <= Batch * crashes
  BY DEF EntryInv, CrashStrandsOneBatch
<1>4. Cardinality(Stranded') <= Batch * crashes
  BY <1>1, <1>2, <1>3
<1> QED
  BY <1>4 DEF CrashStrandsOneBatch

\* A step that gives out no entry and ends no handler leaves everybody's
\* entries alone; one XACK may take effect just before a handler fails.
LEMMA SteadyEntries ==
  ASSUME HandledOnceInv, StageInv, EntryInv, [Next]_vars,
         UNCHANGED <<delivered, crashes, wpos, wlast>>,
         \A v \in Workers :
           /\ wpc'[v] \in BusySteps <=> wpc[v] \in BusySteps
           /\ wpc[v] \in FailureSteps => wpc'[v] \in FailureSteps
           /\ pel'[v] = pel[v]
                \/ /\ pel'[v] = pel[v] \ {wpos[v]} /\ wpc'[v] \in FailureSteps
                   /\ HasOutcome(wpos[v])'
  PROVE  EntryInv'
<1>1. \A v \in Workers : AboutToHandle(v)' = AboutToHandle(v) /\ pel'[v] \subseteq pel[v]
  BY DEF AboutToHandle
<1>2. ASSUME NEW v \in Workers PROVE HoldsEntries(v)'
  BY <1>1 DEF EntryInv, HoldsEntries
<1>3. AckedIsSettled'
  BY SettledKeeps DEF Pending
<1>4. Stranded' \subseteq Stranded
  BY <1>1 DEF Stranded, Pending
<1> QED
  BY <1>2, <1>3, <1>4, StrandedKeeps DEF EntryInv

\* A worker that reads takes entries nobody ever had.
LEMMA ReadEntries ==
  ASSUME HandledOnceInv, StageInv, EntryInv, NEW w \in Workers, Read(w)
  PROVE  EntryInv'
<1> DEFINE new == (delivered + 1) .. delivered'
<1>1. /\ delivered' = delivered + BatchSize /\ BatchSize \in 1 .. Batch
      /\ delivered' \in Nat /\ delivered \in Nat
  BY EntryTypes, BatchAssumption DEF Read, BatchSize
<1>2. /\ pel' = [pel EXCEPT ![w] = pel[w] \cup new]
      /\ wpos'[w] = delivered + 1 /\ wlast'[w] = delivered' /\ wpc'[w] = "mark"
      /\ \A v \in Workers : v # w =>
           wpos'[v] = wpos[v] /\ wlast'[v] = wlast[v] /\ wpc'[v] = wpc[v]
      /\ wpc[w] = "read" /\ crashes' = crashes
  BY EntryTypes DEF Read, FirstUnread, WorkerGoto, budget
<1>3. AboutToHandle(w) = {} /\ AboutToHandle(w)' = new
  BY <1>2 DEF AboutToHandle, BusySteps, HandlerSteps, FailureSteps
<1>4. \A v \in Workers : v # w => AboutToHandle(v)' = AboutToHandle(v)
  BY <1>2 DEF AboutToHandle
<1>5. \A v \in Workers : AboutToHandle(v) \subseteq 1 .. delivered /\ pel[v] \subseteq 1 .. delivered
  BY EntryTypes DEF AboutToHandle
<1>6. /\ pel'[w] = pel[w] \cup new
      /\ \A v \in Workers : v # w => pel'[v] = pel[v]
  BY <1>2, EntryTypes
<1>7. new \cap (1 .. delivered) = {}
  BY <1>1
<1> HIDE DEF new
<1>8. ASSUME NEW v \in Workers PROVE HoldsEntries(v)'
  <2>1. CASE v = w
    <3>1. wlast'[w] - wpos'[w] < Batch
      BY <1>1, <1>2, BatchAssumption
    <3> QED
      BY <2>1, <3>1, <1>3, <1>5, <1>6, <1>7 DEF HoldsEntries
  <2>2. CASE v # w
    BY <2>2, <1>2, <1>4, <1>5, <1>6, <1>7 DEF EntryInv, HoldsEntries
  <2> QED
    BY <2>1, <2>2
<1>9. AckedIsSettled'
  <2>1. 1 .. delivered' \subseteq (1 .. delivered) \cup new
    BY <1>1 DEF new
  <2>2. new \subseteq Pending' /\ Pending \subseteq Pending'
    BY <1>6 DEF Pending
  <2>3. [Next]_vars
    BY DEF Next, Worker
  <2> QED
    BY <2>1, <2>2, <2>3, SettledKeeps
<1>10. Stranded' \subseteq Stranded
  BY <1>3, <1>4, <1>6 DEF Stranded, Pending
<1> QED
  BY <1>2, <1>8, <1>9, <1>10, StrandedKeeps DEF EntryInv

\* A worker that is through with an entry has settled its task, and holds the
\* rest of its batch.
LEMMA AckEntries ==
  ASSUME HandledOnceInv, StageInv, EntryInv, NEW w \in Workers, Ack(w) \/ FailAck(w)
  PROVE  EntryInv'
<1>1. /\ wpc[w] \in {"ack", "failack"} /\ wpc[w] \in BusySteps
      /\ pel' = [pel EXCEPT ![w] = pel[w] \ {wpos[w]}]
      /\ NextEntry(w)
      /\ UNCHANGED <<stream, status, delivered, wlast, crashes>>
  BY DEF Ack, FailAck, AfterAck, store, budget, BusySteps, HandlerSteps, FailureSteps
<1>2. /\ pel'[w] = pel[w] \ {wpos[w]}
      /\ \A v \in Workers : v # w => pel'[v] = pel[v]
  BY <1>1, EntryTypes
<1>3. \A v \in Workers : v # w => AboutToHandle(v)' = AboutToHandle(v) /\ wpos'[v] = wpos[v] /\ wpc'[v] = wpc[v]
  BY <1>1, EntryTypes DEF NextEntry, WorkerGoto, AboutToHandle
<1>4. /\ AboutToHandle(w) = wpos[w] .. wlast[w]
      /\ AboutToHandle(w)' = AboutToHandle(w) \ {wpos[w]}
      /\ wpos[w] \in AboutToHandle(w)
      /\ wpc'[w] \in BusySteps => wlast'[w] - wpos'[w] < Batch
  <2>1. /\ wpos[w] \in 1 .. wlast[w] /\ wlast[w] \in Nat
        /\ wlast[w] - wpos[w] < Batch
    BY <1>1, EntryTypes DEF EntryInv, HoldsEntries
  <2>2. CASE wpos[w] < wlast[w]
    <3>1. wpos'[w] = wpos[w] + 1 /\ wpc'[w] = "mark"
      BY <1>1, <2>1, <2>2, EntryTypes DEF NextEntry, WorkerGoto
    <3> QED
      BY <1>1, <2>1, <2>2, <3>1, BatchAssumption DEF AboutToHandle, BusySteps, HandlerSteps
  <2>3. CASE wpos[w] >= wlast[w]
    <3>1. wpos'[w] = wpos[w] /\ wpc'[w] = "read"
      BY <1>1, <2>1, <2>3, EntryTypes DEF NextEntry, WorkerGoto
    <3> QED
      BY <1>1, <2>1, <2>3, <3>1 DEF AboutToHandle, BusySteps, HandlerSteps, FailureSteps
  <2> QED
    BY <2>1, <2>2, <2>3
<1>5. ASSUME NEW v \in Workers PROVE HoldsEntries(v)'
  <2>1. CASE v = w
    BY <2>1, <1>1, <1>2, <1>4 DEF EntryInv, HoldsEntries
  <2>2. CASE v # w
    BY <2>2, <1>1, <1>2, <1>3 DEF EntryInv, HoldsEntries
  <2> QED
    BY <2>1, <2>2
<1>6. AckedIsSettled'
  <2>1. ASSUME NEW i, i = wpos[w] PROVE HasOutcome(i)'
    <3>1. Cur(w) = stream[wpos[w]] /\ Reads(Cur(w), {"done", "failed"})
      BY <1>1, EntryTypes DEF StageInv, Stages, WorkerStage, Finished, Reads
    <3> QED
      BY <1>1, <2>1, <3>1 DEF HasOutcome, Settled, Reads
  <2>2. [Next]_vars
    BY DEF Next, Worker
  <2>3. \A i \in Pending : i \notin Pending' => i = wpos[w]
    BY <1>2 DEF Pending
  <2> QED
    BY <1>1, <2>1, <2>2, <2>3, SettledKeeps
<1>7. Stranded' \subseteq Stranded
  <2>1. \A v \in Workers : wpos[w] \notin pel'[v]
    BY <1>2, <1>4 DEF EntryInv, HoldsEntries
  <2>2. Pending' \subseteq Pending \ {wpos[w]}
    BY <2>1, <1>2 DEF Pending
  <2>3. \A v \in Workers : AboutToHandle(v) \subseteq AboutToHandle(v)' \cup {wpos[w]}
    BY <1>3, <1>4
  <2> QED
    BY <2>2, <2>3 DEF Stranded
<1> QED
  BY <1>1, <1>5, <1>6, <1>7, StrandedKeeps DEF EntryInv

\* A crash strands what is left of the batch, the entry in hand included.
LEMMA CrashEntries ==
  ASSUME HandledOnceInv, StageInv, EntryInv, NEW w \in Workers, Crash(w)
  PROVE  EntryInv'
<1>1. /\ wpc'[w] = "down" /\ \A v \in Workers : v # w => wpc'[v] = wpc[v]
      /\ UNCHANGED <<pel, delivered, wpos, wlast>> /\ crashes' = crashes + 1
  BY EntryTypes DEF Crash, WorkerGoto
<1>2. /\ AboutToHandle(w)' = {}
      /\ \A v \in Workers : v # w => AboutToHandle(v)' = AboutToHandle(v)
  BY <1>1 DEF AboutToHandle, BusySteps, HandlerSteps, FailureSteps
<1>3. ASSUME NEW v \in Workers PROVE HoldsEntries(v)'
  BY <1>1, <1>2 DEF EntryInv, HoldsEntries, BusySteps, HandlerSteps, FailureSteps
<1>4. AckedIsSettled'
  <2>1. [Next]_vars
    BY DEF Next
  <2> QED
    BY <1>1, <2>1, SettledKeeps DEF Pending
<1>5. IsFiniteSet(AboutToHandle(w)) /\ Cardinality(AboutToHandle(w)) <= Batch
  <2>1. CASE wpc[w] \in BusySteps
    <3>1. /\ wpos[w] \in Int /\ wlast[w] \in Int /\ wpos[w] <= wlast[w]
          /\ wlast[w] - wpos[w] < Batch /\ AboutToHandle(w) = wpos[w] .. wlast[w]
      BY <2>1, EntryTypes DEF EntryInv, HoldsEntries, AboutToHandle
    <3> QED
      BY <3>1, FS_Interval, BatchAssumption
  <2>2. CASE wpc[w] \notin BusySteps
    BY <2>2, FS_EmptySet, BatchAssumption DEF AboutToHandle
  <2> QED
    BY <2>1, <2>2
<1>6. CrashStrandsOneBatch'
  <2> DEFINE both == Stranded \cup AboutToHandle(w)
  <2>1. Stranded' \subseteq both
    BY <1>1, <1>2 DEF Stranded, Pending
  <2>2. /\ IsFiniteSet(both)
        /\ Cardinality(both) <= Cardinality(Stranded) + Cardinality(AboutToHandle(w))
    <3>1. /\ IsFiniteSet(both)
          /\ Cardinality(both) = Cardinality(Stranded) + Cardinality(AboutToHandle(w))
                                   - Cardinality(Stranded \cap AboutToHandle(w))
      BY <1>5, StrandedFinite, FS_Union
    <3>2. Cardinality(Stranded \cap AboutToHandle(w)) \in Nat
      BY <1>5, FS_Intersection, FS_CardinalityType
    <3> QED
      BY <1>5, <3>1, <3>2, StrandedFinite, FS_CardinalityType
  <2>3. /\ Cardinality(Stranded') <= Cardinality(both) /\ Cardinality(Stranded') \in Nat
        /\ Cardinality(both) \in Nat /\ Cardinality(Stranded) \in Nat
        /\ Cardinality(AboutToHandle(w)) \in Nat
    BY <1>5, <2>1, <2>2, FS_Subset, FS_CardinalityType, StrandedFinite
  <2>4. Batch * (crashes + 1) = Batch * crashes + Batch /\ Batch * crashes \in Nat
    <3>1. crashes \in Nat
      BY BoundAssumption DEF HandledOnceInv, TypeInv, TypeOK
    <3> QED
      BY <3>1, BatchAssumption
  <2>5. Cardinality(Stranded) <= Batch * crashes
    BY DEF EntryInv, CrashStrandsOneBatch
  <2> HIDE DEF both
  <2>6. Cardinality(Stranded') <= Batch * (crashes + 1)
    BY <1>5, <2>2, <2>3, <2>4, <2>5, BatchAssumption
  <2> QED
    BY <1>1, <2>6 DEF CrashStrandsOneBatch
<1> QED
  BY <1>3, <1>4, <1>6 DEF EntryInv

\* Each step of a worker keeps the pending lists in order.
LEMMA WorkerEntries ==
  ASSUME HandledOnceInv, StageInv, EntryInv, NEW w \in Workers,
         Worker(w) \/ Raise(w) \/ Crash(w)
  PROVE  EntryInv'
<1>1. [Next]_vars /\ wpc \in [Workers -> WorkerSteps]
  BY EntryTypes DEF Next
<1> USE DEF BusySteps, HandlerSteps, FailureSteps, WorkerGoto
<1>2. CASE \/ Mark(w) \/ SetProcessing(w) \/ CacheLookup(w) \/ Infer(w)
           \/ CacheFill(w) \/ Persist(w) \/ Snapshot(w) \/ SetDone(w)
           \/ StoreResult(w) \/ Webhook(w)
  <2>1. /\ wpc[w] \in HandlerSteps /\ \E s \in HandlerSteps : wpc' = [wpc EXCEPT ![w] = s]
        /\ UNCHANGED <<pel, delivered, crashes, wpos, wlast>>
    BY <1>2 DEF Mark, SetProcessing, CacheLookup, Infer, CacheFill, Persist, Snapshot,
                SetDone, StoreResult, Webhook, HandlerOrder, CompletionOrder
  <2> QED
    BY <1>1, <2>1, SteadyEntries
<1>3. CASE FailGet(w) \/ SetFailed(w)
  <2>1. /\ wpc[w] \in FailureSteps /\ \E s \in FailureSteps : wpc' = [wpc EXCEPT ![w] = s]
        /\ UNCHANGED <<pel, delivered, crashes, wpos, wlast>>
    BY <1>3 DEF FailGet, SetFailed, FailureOrder
  <2> QED
    BY <1>1, <2>1, SteadyEntries
<1>4. CASE Restart(w)
  <2>1. /\ wpc[w] = "down" /\ wpc' = [wpc EXCEPT ![w] = "read"]
        /\ UNCHANGED <<pel, delivered, crashes, wpos, wlast>>
    BY <1>4 DEF Restart
  <2> QED
    BY <1>1, <2>1, SteadyEntries
<1>5. CASE Raise(w)
  <2>1. /\ wpc[w] \in HandlerSteps /\ wpc' = [wpc EXCEPT ![w] = "failget"]
        /\ UNCHANGED <<stream, status, delivered, crashes, wpos, wlast>>
        /\ \/ UNCHANGED pel
           \/ wpc[w] = "ack" /\ pel' = [pel EXCEPT ![w] = pel[w] \ {wpos[w]}]
    BY <1>5 DEF Raise, FailureOrder, AfterAck
  <2>2. CASE UNCHANGED pel
    BY <1>1, <2>1, <2>2, SteadyEntries
  <2>3. CASE wpc[w] = "ack" /\ pel' = [pel EXCEPT ![w] = pel[w] \ {wpos[w]}]
    <3>1. Cur(w) = stream[wpos[w]] /\ Reads(Cur(w), {"done"})
      BY <2>3, EntryTypes DEF StageInv, Stages, WorkerStage, Finished
    <3>2. HasOutcome(wpos[w])'
      BY <2>1, <3>1 DEF HasOutcome, Settled, Reads
    <3>3. \A v \in Workers : v # w => pel'[v] = pel[v] /\ wpc'[v] = wpc[v]
      BY <1>1, <2>1, <2>3, EntryTypes
    <3>4. pel'[w] = pel[w] \ {wpos[w]} /\ wpc'[w] = "failget"
      BY <1>1, <2>1, <2>3, EntryTypes
    <3> QED
      BY <1>1, <2>1, <3>2, <3>3, <3>4, SteadyEntries
  <2> QED
    BY <2>1, <2>2, <2>3
<1> QED
  BY <1>2, <1>3, <1>4, <1>5, ReadEntries, AckEntries, CrashEntries DEF Worker

\* No step of the gateway, and no TTL, touches what the workers hold.
LEMMA OtherEntries ==
  ASSUME HandledOnceInv, StageInv, EntryInv, [Next]_vars,
         \/ \E t \in Tasks : Gateway(t) \/ GatewayFail(t)
         \/ \E t \in Tasks : ExpireStatus(t) \/ ExpireResult(t)
         \/ \E k \in Works : ExpireCache(k)
         \/ UNCHANGED vars
  PROVE  EntryInv'
<1>1. UNCHANGED <<pel, delivered, crashes, wpos, wlast, wpc>>
  BY DEF Gateway, GatewayLookup, GatewaySetPending, GatewayAdd, CachedSetPending,
     CachedSnapshot, CachedSetDone, CachedSetResult, CachedWebhook, CachedPersist,
     GatewayReply, GatewayFail, ExpireStatus, ExpireResult, ExpireCache, vars
<1> QED
  BY <1>1, SteadyEntries

\* The group has delivered nothing initially.
LEMMA EntryInit == Init => EntryInv
<1> SUFFICES ASSUME Init PROVE EntryInv
  OBVIOUS
<1>1. \A w \in Workers : HoldsEntries(w)
  BY DEF Init, HoldsEntries, AboutToHandle, BusySteps, HandlerSteps, FailureSteps
<1>2. AckedIsSettled
  BY DEF Init, AckedIsSettled
<1>3. Stranded = {} /\ crashes = 0
  BY DEF Init, Stranded, Pending
<1> QED
  BY <1>1, <1>2, <1>3, FS_EmptySet, BatchAssumption DEF EntryInv, CrashStrandsOneBatch

\* Every step keeps the pending lists in order.
LEMMA EntryNext == HandledOnceInv /\ StageInv /\ EntryInv /\ [Next]_vars => EntryInv'
  BY WorkerEntries, OtherEntries DEF Next

(* No entry leaves the pending lists of the group without an outcome, for   *)
(* any batch size and any number of workers, exceptions and crashes: the    *)
(* XACK of _handle_job follows a status of done, the one of its except      *)
(* branch a status of failed.                                               *)
THEOREM NothingAckedUnsettled == Spec => []AckedIsSettled
<1>1. EntryInv => AckedIsSettled
  BY DEF EntryInv
<1> QED
  BY HandledOnceInit, HandledOnceNext, StageInit, StageNext, EntryInit, EntryNext,
     <1>1, PTL DEF Spec

(* The entries nobody will handle any more are at most one batch for each   *)
(* crash, since a worker is given the next batch only when it is through    *)
(* with the one before.                                                     *)
THEOREM OneBatchPerCrash == Spec => []CrashStrandsOneBatch
<1>1. EntryInv => CrashStrandsOneBatch
  BY DEF EntryInv
<1> QED
  BY HandledOnceInit, HandledOnceNext, StageInit, StageNext, EntryInit, EntryNext,
     <1>1, PTL DEF Spec

-----------------------------------------------------------------------------
(* What a body is about and whom it names.                                  *)

\* A body built from the cache for task t fits it.
LEMMA CachedBodyFits ==
  ASSUME NEW t \in Tasks, NEW b \in Bodies, b.work = WorkOf[t],
         Addressing => Kind # "pipeline"
  PROVE  Fits(BodyFromCache(t, b), t)
  BY DEF BodyFromCache, Addressed, Bodies, Fits

\* What is put into the cache is about the same work.
LEMMA CacheEntryFits ==
  ASSUME NEW b \in Bodies
  PROVE  CacheEntry(b).work = b.work
  BY DEF CacheEntry, Artefact, Bodies

\* Each step of the gateway passes on the body of its own task.
LEMMA GatewayAddresses ==
  ASSUME HandledOnceInv, AddressInv, NEW t \in Tasks, Gateway(t) \/ GatewayFail(t)
  PROVE  AddressInv'
<1>1. /\ gpc \in [Tasks -> GatewaySteps] /\ gbody \in [Tasks -> Bodies \cup {NoBody}]
      /\ result \in [Tasks -> Bodies \cup {NoBody}] /\ WorkOf[t] \in Works
      /\ cache \in [Works -> Bodies \cup {NoBody}]
  BY RequestAssumption DEF HandledOnceInv, TypeInv, TypeOK
<1>2. UNCHANGED <<cache, wpc, wbody>>
  BY DEF Gateway, GatewayLookup, GatewaySetPending, GatewayAdd, CachedSetPending,
     CachedSnapshot, CachedSetDone, CachedSetResult, CachedWebhook, CachedPersist,
     GatewayReply, GatewayFail
<1>3. \A w \in Workers : wpc[w] \in BusySteps => Cur(w)' = Cur(w)
  <2>1. CASE GatewayAdd(t)
    BY <2>1, AddWaits
  <2>2. CASE UNCHANGED <<stream, wpos>>
    BY <2>2 DEF Cur
  <2> QED
    BY <2>1, <2>2 DEF Gateway, GatewayLookup, GatewaySetPending, CachedSetPending,
     CachedSnapshot, CachedSetDone, CachedSetResult, CachedWebhook, CachedPersist,
     GatewayReply, GatewayFail
<1>4. ASSUME NEW w \in Workers, wpc'[w] \in {"fill", "persist", "complete", "done", "result"}
      PROVE  Fits(wbody'[w], Cur(w)')
  BY <1>2, <1>3, <1>4 DEF AddressInv, BodiesFit, BusySteps, HandlerSteps
<1>5. ASSUME NEW u \in Tasks, gpc'[u] \in CachedSteps
      PROVE  Fits(gbody'[u], u)
  <2>1. CASE GatewayLookup(t)
    <3>1. CASE u = t
      <4>1. /\ cache[WorkOf[t]] # NoBody
            /\ gbody'[t] = BodyFromCache(t, cache[WorkOf[t]])
        BY <1>1, <1>5, <2>1, <3>1 DEF GatewayLookup, GatewayGoto, EnqueueOrder, CachedSteps
      <4>2. /\ cache[WorkOf[t]] \in Bodies /\ cache[WorkOf[t]].work = WorkOf[t]
            /\ Addressing => Kind # "pipeline"
        BY <1>1, <4>1 DEF AddressInv, BodiesFit
      <4> QED
        BY <3>1, <4>1, <4>2, CachedBodyFits
    <3>2. CASE u # t
      BY <1>1, <1>5, <2>1, <3>2 DEF GatewayLookup, GatewayGoto, AddressInv, BodiesFit
    <3> QED
      BY <3>1, <3>2
  <2>2. CASE /\ UNCHANGED gbody
             /\ \A v \in Tasks : gpc'[v] \in CachedSteps => gpc[v] \in CachedSteps
    BY <1>5, <2>2 DEF AddressInv, BodiesFit
  <2> QED
    BY <1>1, <2>1, <2>2 DEF Gateway, GatewaySetPending, GatewayAdd, CachedSetPending,
     CachedSnapshot, CachedSetDone, CachedSetResult, CachedWebhook, CachedPersist,
     GatewayReply, GatewayFail, GatewayGoto, EnqueueOrder, CachedSteps
<1>6. ASSUME NEW u \in Tasks, result'[u] # NoBody PROVE Fits(result'[u], u)
  <2>1. CASE CachedSetResult(t)
    BY <1>1, <1>6, <2>1 DEF CachedSetResult, SetResult, CachedSteps, AddressInv,
       BodiesFit, ResultsFit
  <2>2. CASE UNCHANGED result
    BY <1>6, <2>2 DEF AddressInv, ResultsFit
  <2> QED
    BY <2>1, <2>2 DEF Gateway, GatewayLookup, GatewaySetPending, GatewayAdd,
     CachedSetPending, CachedSnapshot, CachedSetDone, CachedWebhook, CachedPersist,
     GatewayReply, GatewayFail
<1> QED
  BY <1>2, <1>4, <1>5, <1>6 DEF AddressInv, BodiesFit, ResultsFit

\* Each step of a worker passes on the body of the task in its hand.
LEMMA WorkerAddresses ==
  ASSUME HandledOnceInv, AddressInv,
         NEW w \in Workers, Worker(w) \/ Raise(w) \/ Crash(w)
  PROVE  AddressInv'
<1>1. /\ wpc \in [Workers -> WorkerSteps] /\ wbody \in [Workers -> Bodies \cup {NoBody}]
      /\ cache \in [Works -> Bodies \cup {NoBody}]
      /\ result \in [Tasks -> Bodies \cup {NoBody}]
      /\ wpc[w] \in BusySteps => Cur(w) \in Tasks /\ WorkOf[Cur(w)] \in Works
  BY CurType, RequestAssumption DEF HandledOnceInv, TypeInv, TypeOK
<1> DEFINE withBody == {"fill", "persist", "complete", "done", "result"}
<1> USE DEF BusySteps, HandlerSteps, FailureSteps, WorkerGoto
<1>2. \A v \in Workers : Mock => wpc'[v] \notin {"lookup", "fill"}
  BY <1>1 DEF AddressInv, BodiesFit, Worker, Read, Mark, SetProcessing,
     CacheLookup, Infer, CacheFill, Persist, Snapshot, SetDone, StoreResult, Webhook, Ack,
     FailGet, SetFailed, FailAck, Restart, Raise, Crash, NextEntry,
     HandlerOrder, CompletionOrder, FailureOrder
<1>3. \A k \in Works : cache'[k] # NoBody =>
        cache'[k].work = k /\ (Addressing => Kind # "pipeline")
  <2>1. CASE CacheFill(w)
    <3>1. /\ cache' = [cache EXCEPT ![WorkOf[Cur(w)]] = CacheEntry(wbody[w])]
          /\ wpc[w] = "fill" /\ wbody[w] \in Bodies
      BY <2>1 DEF CacheFill, HandledOnceInv, TypeInv, HoldsBody
    <3>2. CacheEntry(wbody[w]).work = WorkOf[Cur(w)] /\ ~ Mock
      BY <3>1, CacheEntryFits DEF AddressInv, BodiesFit, Fits
    <3> QED
      BY <1>1, <3>1, <3>2 DEF AddressInv, BodiesFit, Addressing
  <2>2. CASE UNCHANGED cache
    BY <2>2 DEF AddressInv, BodiesFit
  <2> QED
    BY <2>1, <2>2 DEF Worker, Read, Mark, SetProcessing, CacheLookup, Infer, Persist,
     Snapshot, SetDone, StoreResult, Webhook, Ack, FailGet, SetFailed, FailAck, Restart,
     Raise, Crash
<1>4. UNCHANGED <<gpc, gbody>>
  BY DEF Worker, Read, Mark, SetProcessing, CacheLookup, Infer, CacheFill, Persist,
     Snapshot, SetDone, StoreResult, Webhook, Ack, FailGet, SetFailed, FailAck, Restart,
     Raise, Crash
<1>5. ASSUME NEW v \in Workers, wpc'[v] \in withBody
      PROVE  Fits(wbody'[v], Cur(v)')
  <2>1. CASE v # w
    <3>1. wpc'[v] = wpc[v] /\ wbody'[v] = wbody[v] /\ Cur(v)' = Cur(v)
      BY <1>1, <2>1, EntryTypes DEF Worker, Read, Mark, SetProcessing, CacheLookup, Infer,
         CacheFill, Persist, Snapshot, SetDone, StoreResult, Webhook, Ack, FailGet,
         SetFailed, FailAck, Restart, Raise, Crash, NextEntry, LeaveHandler, Cur
    <3> QED
      BY <1>5, <3>1 DEF AddressInv, BodiesFit
  <2>2. CASE v = w /\ Infer(w)
    BY <1>1, <2>2 DEF Infer, NewBody, Cur, Fits
  <2>3. CASE v = w /\ CacheLookup(w)
    <3>1. /\ cache[WorkOf[Cur(w)]] # NoBody /\ Cur(w)' = Cur(w)
          /\ wbody'[w] = BodyFromCache(Cur(w), cache[WorkOf[Cur(w)]])
      BY <1>1, <1>5, <2>3 DEF CacheLookup, Cur
    <3>2. /\ cache[WorkOf[Cur(w)]] \in Bodies /\ Cur(w) \in Tasks
          /\ cache[WorkOf[Cur(w)]].work = WorkOf[Cur(w)]
          /\ Addressing => Kind # "pipeline"
      BY <1>1, <2>3, <3>1 DEF CacheLookup, AddressInv, BodiesFit
    <3> QED
      BY <2>3, <3>1, <3>2, CachedBodyFits
  <2>4. CASE /\ v = w /\ wpc[w] \in withBody
             /\ UNCHANGED <<wbody, wpos, stream>>
    BY <2>4 DEF AddressInv, BodiesFit, Cur
  <2> QED
    BY <1>1, <1>5, <2>1, <2>2, <2>3, <2>4 DEF Worker, Read, Mark, SetProcessing,
     CacheFill, Persist, Snapshot, SetDone, StoreResult, Webhook, Ack, FailGet, SetFailed,
     FailAck, Restart, Raise, Crash, NextEntry, HandlerOrder, CompletionOrder, FailureOrder
<1>6. ASSUME NEW u \in Tasks, result'[u] # NoBody PROVE Fits(result'[u], u)
  <2>1. CASE StoreResult(w)
    BY <1>1, <1>6, <2>1 DEF StoreResult, SetResult, BodyToStore, AddressInv,
       BodiesFit, ResultsFit
  <2>2. CASE UNCHANGED result
    BY <1>6, <2>2 DEF AddressInv, ResultsFit
  <2> QED
    BY <2>1, <2>2 DEF Worker, Read, Mark, SetProcessing, CacheLookup, Infer, CacheFill,
     Persist, Snapshot, SetDone, Webhook, Ack, FailGet, SetFailed, FailAck, Restart,
     Raise, Crash
<1> QED
  BY <1>2, <1>3, <1>4, <1>5, <1>6 DEF AddressInv, BodiesFit, ResultsFit

\* AddressInv holds initially, and every step keeps it.
LEMMA AddressInit == Init => AddressInv
  BY DEF Init, AddressInv, BodiesFit, ResultsFit, CachedSteps

\* A TTL takes bodies away and changes none.
LEMMA AddressNext == HandledOnceInv /\ AddressInv /\ [Next]_vars => AddressInv'
<1> SUFFICES ASSUME HandledOnceInv, AddressInv, [Next]_vars PROVE AddressInv'
  OBVIOUS
<1>1. CASE \/ \E t \in Tasks : ExpireStatus(t) \/ ExpireResult(t)
           \/ \E k \in Works : ExpireCache(k)
           \/ UNCHANGED vars
  <2>1. /\ UNCHANGED <<gpc, gbody, stream, wpc, wpos, wbody>>
        /\ \A k \in Works : cache'[k] \in {cache[k], NoBody}
        /\ \A t \in Tasks : result'[t] \in {result[t], NoBody}
    BY <1>1 DEF HandledOnceInv, TypeInv, TypeOK, ExpireStatus, ExpireResult,
                ExpireCache, vars
  <2> QED
    BY <2>1 DEF AddressInv, BodiesFit, ResultsFit, Cur
<1> QED
  BY <1>1, GatewayAddresses, WorkerAddresses DEF Next

(* A result names the student who asked for it, with the mock workers and   *)
(* for analyze and generate, whose cached bodies name nobody.  The run      *)
(* queue_pipeline_addressee shows why the real pipeline is excluded.        *)
THEOREM ResultsAddressed ==
  ASSUME Addressing
  PROVE  Spec => []AddressedToRequester
<1>1. AddressInv => AddressedToRequester
  BY DEF AddressInv, ResultsFit, Fits, AddressedToRequester
<1> QED
  BY HandledOnceInit, HandledOnceNext, AddressInit, AddressNext, <1>1, PTL DEF Spec

-----------------------------------------------------------------------------
(* Clients that poll.                                                      *)

AnswerDocs == [st : Statuses \cup {"none"}, body : Bodies \cup {NoBody}, who : Readers \cup {NoOne}]

PollTypes ==
  /\ ppc \in [Polled -> {"idle", "read"}]
  /\ pwho \in [Polled -> Readers \cup {NoOne}]
  /\ pdoc \in [Polled -> StatusDocs]
  /\ answer \in [Polled -> AnswerDocs]

\* An outstanding poll has a reader, and the document it has read names the
\* owner of the task or nobody.
SnapshotsOwned ==
  \A t \in Polled : ppc[t] = "read" =>
    pwho[t] \in Readers /\ pdoc[t].owner \in {StudentOf[t], NoOne}

\* The inductive form of PollShowsOwnTask.
PollInv == PollTypes /\ SnapshotsOwned /\ PollShowsOwnTask

\* The invariants of the task queue a poll rests on.
QueueInv == HandledOnceInv /\ StageInv /\ AnswerInv /\ AddressInv

\* Nobody has polled initially.
LEMMA PollInitInv == PollInit => PollInv
  BY PolledAssumption DEF PollInit, PollInv, PollTypes, SnapshotsOwned, PollShowsOwnTask,
     NoAnswer, AnswerDocs, NoDoc, StatusDocs, Statuses, Owners

\* A step of the task queue does not touch the polls.
LEMMA PollStep == [PollNext]_allVars => [Next]_vars
  BY DEF PollNext, PollStatus, PollAnswer, allVars

\* Every step keeps the answers with the owner and about the work asked for.
LEMMA PollNextInv == QueueInv /\ PollInv /\ [PollNext]_allVars => PollInv'
<1> SUFFICES ASSUME QueueInv, PollInv, [PollNext]_allVars PROVE PollInv'
  OBVIOUS
<1>1. /\ status \in [Tasks -> StatusDocs] /\ result \in [Tasks -> Bodies \cup {NoBody}]
      /\ \A t \in Polled : t \in Tasks /\ StudentOf[t] \in Students
      /\ NoOne \notin Students /\ Students \subseteq Owners
  BY PolledAssumption, RequestAssumption
     DEF QueueInv, HandledOnceInv, TypeInv, TypeOK, Owners
<1>2. NoDoc \in StatusDocs
  BY DEF NoDoc, StatusDocs, Owners
<1>3. CASE UNCHANGED polling
  BY <1>3 DEF polling, PollInv, PollTypes, SnapshotsOwned, PollShowsOwnTask
<1>4. ASSUME NEW t \in Polled, NEW who \in Readers, PollStatus(t, who) PROVE PollInv'
  <2>1. status[t].owner \in {StudentOf[t], NoOne} /\ status[t] \in StatusDocs
    BY <1>1, <1>4 DEF PollStatus, QueueInv, StageInv, OwnerKept
  <2> QED
    BY <1>1, <1>4, <2>1 DEF PollStatus, PollInv, PollTypes, SnapshotsOwned, PollShowsOwnTask
<1>5. ASSUME NEW t \in Polled, PollAnswer(t) PROVE PollInv'
  <2>1. PollTypes' /\ SnapshotsOwned'
    <3>1. ResultToShow(pdoc[t], t) \in Bodies \cup {NoBody} /\ pdoc[t].st \in Statuses \cup {"none"}
      BY <1>1 DEF ResultToShow, PollInv, PollTypes, StatusDocs
    <3>2. answer' \in [Polled -> AnswerDocs]
      BY <1>5, <3>1 DEF PollAnswer, PollInv, PollTypes, AnswerDocs
    <3> QED
      BY <1>2, <1>5, <3>2 DEF PollAnswer, PollInv, PollTypes, SnapshotsOwned
  <2>2. PollShowsOwnTask'
    <3>1. CASE ~ MayRead(pdoc[t], pwho[t])
      BY <1>5, <3>1 DEF PollAnswer, PollInv, PollShowsOwnTask
    <3>2. CASE MayRead(pdoc[t], pwho[t])
      <4>1. pwho[t] \in {StudentOf[t], PlatformOf[StudentOf[t]]}
        BY <1>1, <1>5, <3>2
           DEF PollAnswer, MayRead, PlatformOfReader, PollInv, SnapshotsOwned
      <4>2. answer' = [answer EXCEPT ![t] =
              [st |-> pdoc[t].st, body |-> ResultToShow(pdoc[t], t), who |-> pwho[t]]]
        BY <1>5, <3>2 DEF PollAnswer
      <4>3. ResultToShow(pdoc[t], t) # NoBody =>
              pdoc[t].st = "done" /\ ResultToShow(pdoc[t], t).work = WorkOf[t]
        BY <1>1 DEF ResultToShow, QueueInv, AddressInv, ResultsFit, Fits
      <4> QED
        BY <4>1, <4>2, <4>3 DEF PollInv, PollTypes, PollShowsOwnTask
    <3> QED
      BY <3>1, <3>2
  <2> QED
    BY <2>1, <2>2 DEF PollInv
<1> QED
  BY <1>3, <1>4, <1>5 DEF PollNext, allVars

\* The invariants of the task queue hold with pollers, too.
LEMMA QueueInvHolds == PollSpec => []QueueInv
<1>1. PollInit => HandledOnceInv /\ StageInv /\ AnswerInv /\ AddressInv
  BY HandledOnceInit, StageInit, AnswerInit, AddressInit DEF PollInit
<1> QED
  BY <1>1, PollStep, HandledOnceNext, StageNext, AnswerNext, AddressNext, PTL
     DEF PollSpec, QueueInv

(* Only the student who asked, or the key of its platform, is ever shown a  *)
(* task, and what is shown is the work that was asked for, for any number   *)
(* of tasks, workers, readers and platforms and also when documents expire  *)
(* between the two reads of a poll.                                         *)
THEOREM PollsShowOwnTask == PollSpec => []PollShowsOwnTask
<1>1. PollInv => PollShowsOwnTask
  BY DEF PollInv
<1> QED
  BY QueueInvHolds, PollInitInv, PollNextInv, <1>1, PTL DEF PollSpec

-----------------------------------------------------------------------------
(* The order of the answers.                                               *)

\* What a client has seen is no further than the task, and a result it has
\* seen is there still.
Behind(t) ==
  /\ Rank(answer[t].st) <= Rank(status[t].st)
  /\ ppc[t] = "read" =>
       /\ Rank(answer[t].st) <= Rank(pdoc[t].st)
       /\ Rank(pdoc[t].st) <= Rank(status[t].st)
  /\ answer[t].body # NoBody => result[t] = answer[t].body

NotAhead == \A t \in Polled : Behind(t)

\* Nobody has seen anything initially.
LEMMA NotAheadInit == PollInit => NotAhead
  BY PolledAssumption DEF PollInit, Init, NotAhead, Behind, NoAnswer, NoDoc, Rank

\* A step of the task queue takes no status back and changes no result.
LEMMA OnlyForward ==
  ASSUME ~ Expiring, QueueInv, [Next]_vars, NEW t \in Tasks
  PROVE  /\ Rank(status[t].st) <= Rank(status'[t].st)
         /\ result[t] # NoBody => result'[t] = result[t]
<1>1. Rank(status[t].st) <= Rank(status'[t].st)
  BY StatusMoves DEF QueueInv, StatusMove, Reads, NoDoc, Rank
<1>2. result[t] # NoBody => result'[t] = result[t]
  <2>1. [Lifecycle!LifeNext]_(Lifecycle!lifeVars) /\ result \in [Tasks -> Bodies \cup {NoBody}]
    BY LifecycleStep DEF QueueInv, HandledOnceInv, TypeInv, TypeOK
  <2> QED
    BY <2>1 DEF Lifecycle!LifeNext, Lifecycle!lifeVars, Lifecycle!Open, Lifecycle!Finish,
       Lifecycle!Answer, Lifecycle!Send, Lifecycle!Fail
<1> QED
  BY <1>1, <1>2

\* Every step leaves the clients behind, and takes no answer back.
LEMMA NotAheadNext ==
  ASSUME ~ Expiring, QueueInv, PollTypes, NotAhead, [PollNext]_allVars
  PROVE  /\ NotAhead'
         /\ \A t \in Polled :
              /\ Rank(answer'[t].st) >= Rank(answer[t].st)
              /\ answer[t].body # NoBody /\ answer'[t].st = "done" =>
                   answer'[t].body = answer[t].body
<1> SUFFICES ASSUME NEW t \in Polled
             PROVE  /\ Behind(t)'
                    /\ Rank(answer'[t].st) >= Rank(answer[t].st)
                    /\ answer[t].body # NoBody /\ answer'[t].st = "done" =>
                         answer'[t].body = answer[t].body
  BY DEF NotAhead
<1> DEFINE seen == Rank(answer[t].st)
           now  == Rank(status[t].st)
           read == Rank(pdoc[t].st)
<1>1. \A st : Rank(st) \in 0 .. 4
  BY DEF Rank
<1>2. t \in Tasks /\ Behind(t)
  BY PolledAssumption DEF NotAhead
<1>3. /\ now <= Rank(status'[t].st)
      /\ result[t] # NoBody => result'[t] = result[t]
  BY <1>2, PollStep, OnlyForward
<1>4. CASE UNCHANGED <<ppc, pdoc, answer>>
  BY <1>1, <1>2, <1>3, <1>4 DEF Behind
<1>5. ASSUME NEW u \in Polled, NEW who \in Readers, PollStatus(u, who)
      PROVE  Behind(t)' /\ answer' = answer
  <2>1. answer' = answer /\ status' = status /\ result' = result
    BY <1>5 DEF PollStatus, vars, store
  <2>2. CASE u = t
    <3>1. pdoc'[t] = status[t]
      BY <1>5, <2>2 DEF PollStatus, PollTypes
    <3> QED
      BY <1>1, <1>2, <2>1, <3>1 DEF Behind
  <2>3. CASE u # t
    <3>1. pdoc'[t] = pdoc[t] /\ ppc'[t] = ppc[t]
      BY <1>5, <2>3 DEF PollStatus, PollTypes
    <3> QED
      BY <1>2, <2>1, <3>1 DEF Behind
  <2> QED
    BY <2>1, <2>2, <2>3
<1>6. ASSUME NEW u \in Polled, PollAnswer(u)
      PROVE  /\ Behind(t)'
             /\ answer'[t] = answer[t] \/
                  /\ u = t /\ ppc[t] = "read" /\ answer'[t].st = pdoc[t].st
                  /\ answer'[t].body = ResultToShow(pdoc[t], t)
  <2>1. status' = status /\ result' = result
    BY <1>6 DEF PollAnswer, vars, store
  <2>2. CASE u # t
    <3>1. pdoc'[t] = pdoc[t] /\ ppc'[t] = ppc[t] /\ answer'[t] = answer[t]
      BY <1>6, <2>2 DEF PollAnswer, PollTypes
    <3> QED
      BY <1>2, <2>1, <3>1 DEF Behind
  <2>3. CASE u = t /\ answer' = answer
    <3>1. ppc'[t] = "idle"
      BY <1>6, <2>3 DEF PollAnswer, PollTypes
    <3> QED
      BY <1>2, <2>1, <2>3, <3>1 DEF Behind
  <2>4. CASE u = t /\ answer' # answer
    <3>1. /\ ppc'[t] = "idle" /\ ppc[t] = "read" /\ answer'[t].st = pdoc[t].st
          /\ answer'[t].body = ResultToShow(pdoc[t], t)
      BY <1>6, <2>4 DEF PollAnswer, PollTypes
    <3> QED
      BY <1>2, <2>1, <2>4, <3>1 DEF Behind, ResultToShow
  <2> QED
    BY <2>2, <2>3, <2>4
<1>7. CASE \E u \in Polled : PollAnswer(u)
  BY <1>1, <1>2, <1>6, <1>7 DEF Behind, ResultToShow
<1>8. CASE \E u \in Polled, who \in Readers : PollStatus(u, who)
  BY <1>1, <1>5, <1>8
<1> QED
  BY <1>1, <1>2, <1>4, <1>7, <1>8 DEF PollNext, allVars, polling

(* As long as no document expires, the answers to a client never go back,   *)
(* however the two reads of its polls interleave with the writes of the     *)
(* gateway and the workers: a task seen done is not seen processing later,  *)
(* and a result shown once is shown with every later done.                  *)
THEOREM AnswersForward ==
  ASSUME ~ Expiring
  PROVE  PollSpec => PollsForward
<1>1. QueueInv /\ PollInv /\ NotAhead /\ [PollNext]_allVars =>
        /\ NotAhead'
        /\ [\A t \in Polled :
              /\ Rank(answer'[t].st) >= Rank(answer[t].st)
              /\ answer[t].body # NoBody /\ answer'[t].st = "done" =>
                   answer'[t].body = answer[t].body]_allVars
  BY NotAheadNext DEF PollInv
<1> QED
  BY QueueInvHolds, PollInitInv, PollNextInv, NotAheadInit, <1>1, PTL
     DEF PollSpec, PollsForward
=============================================================================
