--------------------------- MODULE TaskOutcomeInv --------------------------
(***************************************************************************)
(* The inductive invariants behind what a task shows and puts out.  Each   *)
(* says what the documents of a task hold while its entry waits, while a   *)
(* worker has it in hand and while the gateway answers it itself; that     *)
(* nobody else writes them meanwhile is HandledOnceInv.                    *)
(***************************************************************************)
EXTENDS TaskQueueInv

\* An entry nobody has begun to handle: unread, or further on in a batch.
WaitingAt(i) ==
  \/ i > delivered
  \/ \E w \in Workers : wpc[w] \in BusySteps /\ i \in (wpos[w] + 1) .. wlast[w]

-----------------------------------------------------------------------------
(* The status and its owner.                                               *)

\* The status document of t says one of S, unless its TTL has passed.
Reads(t, S) == status[t].st \in S \/ (Expiring /\ status[t] = NoDoc)

GatewayStage(t) ==
  /\ gpc[t] \in {"start", "pend", "cpend"} => status[t] = NoDoc
  /\ gpc[t] \in {"xadd", "complete", "done"} => Reads(t, {"pending"})
  /\ gpc[t] \in {"result", "webhook", "row"} => Reads(t, {"done"})

Working  == {"lookup", "infer", "fill", "persist", "complete", "done"}
Finished == {"result", "webhook", "ack"}

WorkerStage(w) ==
  /\ wpc[w] \in {"mark", "marking"} => Reads(Cur(w), {"pending"})
  /\ wpc[w] \in Working => Reads(Cur(w), {"processing"})
  /\ wpc[w] \in Finished => Reads(Cur(w), {"done"})
  /\ wpc[w] \in {"failget", "failset"} =>
       Reads(Cur(w), {"pending", "processing", "done"})
  /\ wpc[w] = "failack" => Reads(Cur(w), {"failed"})

Stages ==
  /\ \A t \in Tasks : GatewayStage(t)
  /\ \A w \in Workers : WorkerStage(w)
  /\ \A i \in 1 .. Len(stream) : WaitingAt(i) => Reads(stream[i], {"pending"})

OwnerOf(owner, t) == owner = StudentOf[t] \/ (Expiring /\ owner = NoOne)

\* The ids a status write is about to carry are those of the task's owner.
SeenOwners ==
  /\ \A t \in Tasks : gpc[t] = "done" => OwnerOf(gseen[t], t)
  /\ \A w \in Workers :
       wpc[w] \in {"marking", "done", "failset"} => OwnerOf(wseen[w], Cur(w))

StageInv == Stages /\ SeenOwners /\ OwnerKept

-----------------------------------------------------------------------------
(* The result, the row and the webhook.                                    *)

\* The result document of t holds b, unless its TTL has passed.
Stored(t, b) == result[t] = b \/ (Expiring /\ result[t] = NoBody)

GatewayBeforeResult ==
  EnqueueSteps \cup {"cpend", "complete", "done", "result"}

GatewayAnswer(t) ==
  /\ gpc[t] \in GatewayBeforeResult => result[t] = NoBody
  /\ gpc[t] \in {"webhook", "row"} => Stored(t, gbody[t])

WorkerAnswer(w) ==
  /\ wpc[w] \in HandlerSteps \ {"webhook", "ack"} => result[Cur(w)] = NoBody
  /\ wpc[w] = "webhook" => Stored(Cur(w), wbody[w])
  /\ wpc[w] \in {"fill", "persist", "complete", "done", "result"} =>
       rows[Cur(w)] \in {<<>>, <<Artefact(wbody[w])>>}

Answers ==
  /\ \A t \in Tasks : GatewayAnswer(t)
  /\ \A w \in Workers : WorkerAnswer(w)
  /\ \A i \in 1 .. Len(stream) : WaitingAt(i) => result[stream[i]] = NoBody

AnswerInv == Answers /\ OutputsAgree

-----------------------------------------------------------------------------
(* The pending lists.                                                      *)

\* What a worker will still acknowledge is on its own pending list and on no
\* other, except the entry whose XACK took effect and then raised.
HoldsEntries(w) ==
  /\ \A i \in AboutToHandle(w) :
       i \in pel[w] \/ (i = wpos[w] /\ wpc[w] \in FailureSteps)
  /\ \A v \in Workers \ {w} : AboutToHandle(w) \cap pel[v] = {}
  /\ wpc[w] \in BusySteps => wlast[w] - wpos[w] < Batch

EntryInv ==
  /\ \A w \in Workers : HoldsEntries(w)
  /\ AckedIsSettled
  /\ CrashStrandsOneBatch

-----------------------------------------------------------------------------
(* What a body is about and whom it names.                                 *)

\* Where a result names the student who asked: everywhere but in the real
\* pipeline.
Addressing == Kind # "pipeline" \/ Mock

\* Body b is what task t asked for, and names its student.
Fits(b, t) ==
  b.work = WorkOf[t] /\ (Addressing => b.student = StudentOf[t])

\* Outside the real pipeline no body is used as it lies in the cache: the mock
\* workers neither read nor fill it.
BodiesFit ==
  /\ \A k \in Works : cache[k] # NoBody =>
       cache[k].work = k /\ (Addressing => Kind # "pipeline")
  /\ \A w \in Workers : Mock => wpc[w] \notin {"lookup", "fill"}
  /\ \A t \in Tasks : gpc[t] \in CachedSteps => Fits(gbody[t], t)
  /\ \A w \in Workers :
       wpc[w] \in {"fill", "persist", "complete", "done", "result"} =>
         Fits(wbody[w], Cur(w))

ResultsFit == \A t \in Tasks : result[t] # NoBody => Fits(result[t], t)

AddressInv == BodiesFit /\ ResultsFit
=============================================================================
