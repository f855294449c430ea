----------------------------- MODULE LegacyJobs -----------------------------
(***************************************************************************)
(* The queue of the architecture under legacy/: an endpoint writes a job   *)
(* document to Redis and sends a message to SQS, workers receive one       *)
(* message at a time, run the model, write the outcome into the document   *)
(* and delete the message.  SQS shows a message again that was not deleted *)
(* within its visibility timeout, to another worker while the first may    *)
(* still be at it, and moves it to a dead-letter queue after MaxReceives   *)
(* deliveries.                                                             *)
(*                                                                         *)
(* A result is named by the delivery it was made in; 0 is none.            *)
(***************************************************************************)
EXTENDS Naturals, FiniteSets

CONSTANTS
  Jobs,          \* job ids, a fresh uuid4 for each request
  Workers,       \* processes of sqs_worker.py
  NoJob,         \* a worker without a message
  MaxReceives,   \* maxReceiveCount of the queue
  MaxEarly,      \* bound on timeouts of messages still being handled
  MaxRaises,     \* bound on exceptions
  MaxCrashes     \* bound on crashes and stops

ASSUME JobAssumption == NoJob \notin Jobs
ASSUME WorkerAssumption == IsFiniteSet(Workers)
ASSUME BoundAssumption ==
  /\ MaxReceives \in Nat \ {0}
  /\ MaxEarly \in Nat /\ MaxRaises \in Nat /\ MaxCrashes \in Nat

VARIABLES
  post,       \* [Jobs -> {"new", "send", "accepted", "error"}], the endpoint
  doc,        \* [Jobs -> Docs], the job document
  msg,        \* [Jobs -> Places], where the message is
  receives,   \* [Jobs -> 0 .. MaxReceives], deliveries so far
  merges,     \* [Jobs -> Nat], how often its scores were merged
  pc,         \* [Workers -> Steps]
  job,        \* [Workers -> Jobs or NoJob], the message in hand
  turn,       \* [Workers -> deliveries], which delivery of it this is
  held,       \* [Workers -> Docs], the document as loaded
  overlapped, \* jobs whose message came back while a worker had it
  unreported, \* jobs whose mark_failed raised
  expired,    \* jobs whose document has reached its TTL
  early, raises, crashes   \* so far

endpoint == <<post>>
shared   == <<doc, msg, receives, merges>>
worker   == <<pc, job, turn, held>>
past     == <<overlapped, unreported, expired>>
budget   == <<early, raises, crashes>>
vars     == <<endpoint, shared, worker, past, budget>>

Docs   == [st : {"none", "pending", "processing", "completed", "failed"},
           res : 0 .. MaxReceives]
NoDoc  == [st |-> "none", res |-> 0]
Fresh  == [st |-> "pending", res |-> 0]
Places == {"none", "visible", "inflight", "deleted", "dead"}

\* Mutant of HandlerOrder: the scores are merged before the job is completed.
MergeFirst ==
  [load |-> "save", save |-> "merge", merge |-> "loaddone",
   loaddone |-> "savedone", savedone |-> "delete"]

\* mark_processing, the model and mark_completed, the scores, the message.
HandlerOrder ==
  [load |-> "save", save |-> "loaddone", loaddone |-> "savedone",
   savedone |-> "merge", merge |-> "delete"]

TrySteps == {"load", "save", "loaddone", "savedone", "merge"}
Busy     == TrySteps \cup {"loadfail", "savefail", "delete"}
Steps    == Busy \cup {"idle"}

TypeOK ==
  /\ post \in [Jobs -> {"new", "send", "accepted", "error"}]
  /\ doc \in [Jobs -> Docs]
  /\ msg \in [Jobs -> Places]
  /\ receives \in [Jobs -> 0 .. MaxReceives]
  /\ merges \in [Jobs -> Nat]
  /\ pc \in [Workers -> Steps]
  /\ job \in [Workers -> Jobs \cup {NoJob}]
  /\ turn \in [Workers -> 0 .. MaxReceives]
  /\ held \in [Workers -> Docs]
  /\ overlapped \subseteq Jobs /\ unreported \subseteq Jobs /\ expired \subseteq Jobs
  /\ early \in 0 .. MaxEarly
  /\ raises \in 0 .. MaxRaises
  /\ crashes \in 0 .. MaxCrashes

Init ==
  /\ post = [j \in Jobs |-> "new"]
  /\ doc = [j \in Jobs |-> NoDoc]
  /\ msg = [j \in Jobs |-> "none"]
  /\ receives = [j \in Jobs |-> 0]
  /\ merges = [j \in Jobs |-> 0]
  /\ pc = [w \in Workers |-> "idle"]
  /\ job = [w \in Workers |-> NoJob]
  /\ turn = [w \in Workers |-> 0]
  /\ held = [w \in Workers |-> NoDoc]
  /\ overlapped = {} /\ unreported = {} /\ expired = {}
  /\ early = 0 /\ raises = 0 /\ crashes = 0

-----------------------------------------------------------------------------
(* The endpoint.                                                           *)

CreatePending(j) ==
  /\ post[j] = "new"
  /\ doc' = [doc EXCEPT ![j] = Fresh]
  /\ post' = [post EXCEPT ![j] = "send"]
  /\ UNCHANGED <<msg, receives, merges, worker, past, budget>>

Send(j) ==
  /\ post[j] = "send"
  /\ msg' = [msg EXCEPT ![j] = "visible"]
  /\ post' = [post EXCEPT ![j] = "accepted"]
  /\ UNCHANGED <<doc, receives, merges, worker, past, budget>>

\* The answer is 502; the message may have been sent all the same.
SendFails(j) ==
  /\ post[j] = "send"
  /\ raises < MaxRaises
  /\ raises' = raises + 1
  /\ post' = [post EXCEPT ![j] = "error"]
  /\ msg' \in {msg, [msg EXCEPT ![j] = "visible"]}
  /\ UNCHANGED <<doc, receives, merges, worker, past, early, crashes>>

-----------------------------------------------------------------------------
(* A worker: _handle_one.                                                  *)

Goto(w, s)    == pc' = [pc EXCEPT ![w] = s]
Step(w, s)    == pc[w] = s /\ Goto(w, HandlerOrder[s])
SetDoc(w, d)  == doc' = [doc EXCEPT ![job[w]] = d]
Handles(w, j) == pc[w] \in Busy /\ job[w] = j

Deliverable(j) == msg[j] = "visible" /\ receives[j] < MaxReceives

Receive(w, j) ==
  /\ pc[w] = "idle"
  /\ Deliverable(j)
  /\ msg' = [msg EXCEPT ![j] = "inflight"]
  /\ receives' = [receives EXCEPT ![j] = @ + 1]
  /\ job' = [job EXCEPT ![w] = j]
  /\ turn' = [turn EXCEPT ![w] = receives[j] + 1]
  /\ Goto(w, "load")
  /\ UNCHANGED <<endpoint, doc, merges, held, past, budget>>

\* _load: a document that is gone counts as a new one.
Loaded(w) == IF doc[job[w]] = NoDoc THEN Fresh ELSE doc[job[w]]

Load(w) ==
  /\ \/ pc[w] \in {"load", "loaddone"} /\ Goto(w, HandlerOrder[pc[w]])
     \/ pc[w] = "loadfail" /\ Goto(w, "savefail")
  /\ held' = [held EXCEPT ![w] = Loaded(w)]
  /\ UNCHANGED <<endpoint, shared, job, turn, past, budget>>

\* Mutant of Processing: the document starts again, without its result.
StartAgain(d) == [st |-> "processing", res |-> 0]

\* mark_processing changes the status only.
Processing(d) == [d EXCEPT !.st = "processing"]

SaveProcessing(w) ==
  /\ Step(w, "save")
  /\ SetDoc(w, Processing(held[w]))
  /\ UNCHANGED <<endpoint, msg, receives, merges, job, turn, held, past, budget>>

SaveCompleted(w) ==
  /\ Step(w, "savedone")
  /\ SetDoc(w, [st |-> "completed", res |-> turn[w]])
  /\ UNCHANGED <<endpoint, msg, receives, merges, job, turn, held, past, budget>>

\* The scores, if the user is known and the model gave any; that this raised
\* is only logged.
Merge(w) ==
  /\ Step(w, "merge")
  /\ merges' \in {merges, [merges EXCEPT ![job[w]] = @ + 1]}
  /\ UNCHANGED <<endpoint, doc, msg, receives, job, turn, held, past, budget>>

\* Mutant of AfterRaise: nothing catches it, and the finally deletes the message.
Uncaught == "delete"

\* The except clause, mark_failed.
AfterRaise == "loadfail"

\* Anything in the try raises; at "merge" that is a save which raised after
\* it had taken effect, or the archive.
Raise(w) ==
  /\ pc[w] \in TrySteps
  /\ raises < MaxRaises
  /\ raises' = raises + 1
  /\ Goto(w, AfterRaise)
  /\ UNCHANGED <<endpoint, shared, job, turn, held, past, early, crashes>>

\* Mutant of Failed: mark_failed stores the error and leaves the status.
ErrorOnly(d) == d

\* mark_failed leaves the result.
Failed(d) == [d EXCEPT !.st = "failed"]

SaveFailed(w) ==
  /\ pc[w] = "savefail"
  /\ SetDoc(w, Failed(held[w]))
  /\ Goto(w, "delete")
  /\ UNCHANGED <<endpoint, msg, receives, merges, job, turn, held, past, budget>>

\* mark_failed raises: that is logged, and the finally deletes all the same.
ReportLost(w) ==
  /\ pc[w] \in {"loadfail", "savefail"}
  /\ raises < MaxRaises
  /\ raises' = raises + 1
  /\ unreported' = unreported \cup {job[w]}
  /\ Goto(w, "delete")
  /\ UNCHANGED <<endpoint, shared, job, turn, held, overlapped, expired, early, crashes>>

LetGo(w) ==
  /\ Goto(w, "idle")
  /\ job' = [job EXCEPT ![w] = NoJob]
  /\ turn' = [turn EXCEPT ![w] = 0]
  /\ held' = [held EXCEPT ![w] = NoDoc]

\* A receipt of an earlier delivery may or may not delete the message.
MayStay(w) == turn[w] # receives[job[w]] \/ msg[job[w]] \notin {"visible", "inflight"}

Delete(w) ==
  /\ pc[w] = "delete"
  /\ \/ /\ msg[job[w]] \in {"visible", "inflight"}
        /\ msg' = [msg EXCEPT ![job[w]] = "deleted"]
     \/ MayStay(w) /\ UNCHANGED msg
  /\ LetGo(w)
  /\ UNCHANGED <<endpoint, doc, receives, merges, past, budget>>

\* A ClientError of delete_message is logged.
DeleteFails(w) ==
  /\ pc[w] = "delete"
  /\ raises < MaxRaises
  /\ raises' = raises + 1
  /\ LetGo(w)
  /\ UNCHANGED <<endpoint, shared, past, early, crashes>>

\* The process dies, or is stopped with a message it has received, or an
\* exception that is no ClientError leaves main; the container starts again.
Crash(w) ==
  /\ pc[w] # "idle"
  /\ crashes < MaxCrashes
  /\ crashes' = crashes + 1
  /\ LetGo(w)
  /\ UNCHANGED <<endpoint, shared, past, early, raises>>

-----------------------------------------------------------------------------
(* SQS and Redis.                                                          *)

InHand(j) == \E w \in Workers : Handles(w, j) /\ turn[w] = receives[j]

\* The visibility timeout of a message nobody handles any more ...
Reappear(j) ==
  /\ msg[j] = "inflight"
  /\ ~InHand(j)
  /\ msg' = [msg EXCEPT ![j] = "visible"]
  /\ UNCHANGED <<endpoint, doc, receives, merges, worker, past, budget>>

\* ... and of one whose worker is slower than the timeout.
ReappearEarly(j) ==
  /\ msg[j] = "inflight"
  /\ InHand(j)
  /\ early < MaxEarly
  /\ early' = early + 1
  /\ msg' = [msg EXCEPT ![j] = "visible"]
  /\ overlapped' = overlapped \cup {j}
  /\ UNCHANGED <<endpoint, doc, receives, merges, worker, unreported, expired, raises, crashes>>

DeadLetter(j) ==
  /\ msg[j] = "visible"
  /\ receives[j] = MaxReceives
  /\ msg' = [msg EXCEPT ![j] = "dead"]
  /\ UNCHANGED <<endpoint, doc, receives, merges, worker, past, budget>>

Expire(j) ==
  /\ doc[j] # NoDoc
  /\ j \notin expired
  /\ doc' = [doc EXCEPT ![j] = NoDoc]
  /\ expired' = expired \cup {j}
  /\ UNCHANGED <<endpoint, msg, receives, merges, worker, overlapped, unreported, budget>>

Handle(w) ==
  \/ Load(w) \/ SaveProcessing(w) \/ SaveCompleted(w) \/ Merge(w)
  \/ SaveFailed(w) \/ Delete(w) \/ \E j \in Jobs : Receive(w, j)

Queue(j) == Reappear(j) \/ DeadLetter(j)

Next ==
  \/ \E j \in Jobs : CreatePending(j) \/ Send(j) \/ SendFails(j)
  \/ \E w \in Workers :
       Handle(w) \/ Raise(w) \/ ReportLost(w) \/ DeleteFails(w) \/ Crash(w)
  \/ \E j \in Jobs : Queue(j) \/ ReappearEarly(j) \/ Expire(j)

Spec == Init /\ [][Next]_vars

\* Workers run, and SQS keeps its timeouts.
FairSpec ==
  /\ Spec
  /\ \A w \in Workers : WF_vars(Handle(w))
  /\ \A j \in Jobs : WF_vars(Queue(j))

-----------------------------------------------------------------------------
(* Properties.                                                             *)

Settled(j) == doc[j].st \in {"completed", "failed"}

\* A report nobody can read any more: the document has reached its TTL, and
\* nothing will write it again.
Outdated(j) == msg[j] = "deleted" /\ j \in expired /\ doc[j] = NoDoc

\* What the code gives up: mark_failed raised, or two workers had the job at
\* once and the slower one wrote last.
Spoilt == unreported \cup overlapped

\* A message is deleted only when its job is settled, so a crash, a failed
\* deletion, an expiry in the middle of the handler or an exception anywhere
\* but in mark_failed never leaves a job without an end.  The two cases of
\* Spoilt do.
DeletedIsSettled ==
  \A j \in Jobs :
    msg[j] = "deleted" => Settled(j) \/ Outdated(j) \/ j \in Spoilt

\* A redelivery sets a completed job back to processing, but only a redelivery
\* does, and the result of the earlier delivery stays readable until a later
\* one replaces it.
ReportsForward ==
  [][\A j \in Jobs \ (expired' \cup overlapped') :
       /\ doc'[j].res >= doc[j].res
       /\ doc[j].st = "completed" /\ doc'[j].st = "processing" => receives[j] > 1
       /\ doc[j].st = "failed" => doc'[j].st = "failed" \/ receives[j] > 1]_vars

\* Scores reach the user's statistics at most once for each delivery, and only
\* scores of a job whose result can be read.
MergedIsReported ==
  \A j \in Jobs :
    /\ merges[j] <= receives[j]
    /\ merges[j] > 0 => doc[j].res > 0 \/ j \in expired \cup overlapped

\* Every accepted job has its end for good, or its message is in the
\* dead-letter queue, whatever crashes, raises and comes back in between; but
\* for the two cases of Spoilt.
EveryJobEnds ==
  \A j \in Jobs :
    post[j] = "accepted" ~>
      [](Settled(j) \/ Outdated(j) \/ msg[j] = "dead" \/ j \in Spoilt)
=============================================================================
