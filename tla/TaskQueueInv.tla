---------------------------- MODULE TaskQueueInv ---------------------------
(***************************************************************************)
(* The inductive invariants behind HandledOnce and behind the refinement   *)
(* of TaskLifecycle.  HandledOnce is not inductive: a worker about to      *)
(* store a row preserves it only if the task has no row yet, which holds   *)
(* because the entry in its hand is in nobody else's, which holds because  *)
(* the group hands every position out once and the gateway adds every task *)
(* once.                                                                   *)
(***************************************************************************)
EXTENDS TaskQueue

\* A busy worker has an entry of its batch in hand.
InHand ==
  \A w \in Workers : wpc[w] \in BusySteps => wpos[w] \in 1 .. wlast[w]

\* A handler that is about to use a body holds one.
HoldsBody ==
  /\ \A t \in Tasks : gpc[t] \in CachedSteps => gbody[t] \in Bodies
  /\ \A w \in Workers :
       wpc[w] \in {"fill", "persist", "complete", "done", "result", "webhook"} =>
         wbody[w] \in Bodies

\* The inductive form of TypeOK.
TypeInv == TypeOK /\ InHand /\ HoldsBody

\* The positions of the stream are handed out once, in disjoint batches, and
\* the gateway is past the XADD of every task on the stream.
StreamOnce ==
  \A i, j \in 1 .. Len(stream) : stream[i] = stream[j] => i = j

PastAdd == {"reply", "accepted", "error"}
AddedByGateway == \A i \in 1 .. Len(stream) : gpc[stream[i]] \in PastAdd

BatchesDisjoint ==
  \A v, w \in Workers :
    v # w /\ wpc[v] \in BusySteps /\ wpc[w] \in BusySteps =>
      wlast[v] < wpos[w] \/ wlast[w] < wpos[v]

Claims == StreamOnce /\ AddedByGateway /\ BatchesDisjoint

\* The steps of a handler before its row is stored, and before its event is
\* queued.  The pipeline fills its cache after the row, the others before.
BeforeRow == {"mark", "marking", "lookup", "infer", "persist"}
               \cup (IF Kind = "pipeline" THEN {} ELSE {"fill"})
BeforeHook == HandlerSteps \ {"ack"}
GatewayBeforeHook == GatewaySteps \ (PastAdd \cup {"row"})

NothingOut(t) == rows[t] = <<>> /\ hooks[t] = <<>>

\* Whoever will put something out for a task finds nothing out for it yet.
UnreadUntouched ==
  \A i \in (delivered + 1) .. Len(stream) : NothingOut(stream[i])

BatchUntouched ==
  \A w \in Workers : wpc[w] \in BusySteps =>
    \A i \in (wpos[w] + 1) .. wlast[w] : NothingOut(stream[i])

CurrentUntouched ==
  \A w \in Workers :
    /\ wpc[w] \in BeforeRow => rows[Cur(w)] = <<>>
    /\ wpc[w] \in BeforeHook => hooks[Cur(w)] = <<>>

GatewayUntouched ==
  \A t \in Tasks :
    /\ gpc[t] \in GatewayBeforeHook => hooks[t] = <<>>
    /\ gpc[t] \in GatewayBeforeHook \cup {"row"} => rows[t] = <<>>

Outputs ==
  UnreadUntouched /\ BatchUntouched /\ CurrentUntouched /\ GatewayUntouched

\* The inductive invariant of HandledOnce.
HandledOnceInv == TypeInv /\ Claims /\ Outputs /\ HandledOnce
=============================================================================
