-------------------------- MODULE LegacyJobsProofs --------------------------
(***************************************************************************)
(* The safety properties of LegacyJobs for any number of jobs, workers,    *)
(* deliveries, exceptions and crashes.                                     *)
(***************************************************************************)
EXTENDS LegacyJobs, FiniteSetTheorems, TLAPS

-----------------------------------------------------------------------------
(* Types.                                                                  *)

\* The order of _handle_one, one step at a time.
LEMMA OrderOfSteps ==
  /\ HandlerOrder["load"] = "save"
  /\ HandlerOrder["save"] = "loaddone"
  /\ HandlerOrder["loaddone"] = "savedone"
  /\ HandlerOrder["savedone"] = "merge"
  /\ HandlerOrder["merge"] = "delete"
  BY DEF HandlerOrder

\* A worker that is at a step of the handler has a message.
BusyHasJob == \A w \in Workers : pc[w] \in Busy => job[w] \in Jobs

Types == TypeOK /\ BusyHasJob

\* The types hold initially.
LEMMA InitTypes == Init => Types
  BY BoundAssumption
     DEF Init, Types, BusyHasJob, TypeOK, Docs, NoDoc, Places, Steps, Busy, TrySteps

\* Every step keeps the types.
LEMMA NextTypes == Types /\ [Next]_vars => Types'
<1> SUFFICES ASSUME Types, [Next]_vars PROVE Types'
  OBVIOUS
<1> USE BoundAssumption, OrderOfSteps DEF Types, BusyHasJob, TypeOK, Places, Steps, Busy, TrySteps, Docs, NoDoc, Fresh
<1>1. ASSUME NEW j \in Jobs, CreatePending(j) PROVE Types'
  BY <1>1 DEF CreatePending, worker, past, budget
<1>2. ASSUME NEW j \in Jobs, Send(j) PROVE Types'
  BY <1>2 DEF Send, worker, past, budget
<1>3. ASSUME NEW j \in Jobs, SendFails(j) PROVE Types'
  BY <1>3 DEF SendFails, worker, past
<1>4. ASSUME NEW w \in Workers, Load(w) PROVE Types'
  BY <1>4 DEF Load, Loaded, Goto, endpoint, shared, past, budget
<1>5. ASSUME NEW w \in Workers, SaveProcessing(w) PROVE Types'
  BY <1>5 DEF SaveProcessing, SetDoc, Processing, Step, Goto, endpoint, past, budget
<1>6. ASSUME NEW w \in Workers, SaveCompleted(w) PROVE Types'
  BY <1>6 DEF SaveCompleted, SetDoc, Step, Goto, endpoint, past, budget
<1>7. ASSUME NEW w \in Workers, Merge(w) PROVE Types'
  BY <1>7 DEF Merge, Step, Goto, endpoint, past, budget
<1>8. ASSUME NEW w \in Workers, SaveFailed(w) PROVE Types'
  BY <1>8 DEF SaveFailed, SetDoc, Failed, Goto, endpoint, past, budget
<1>9. ASSUME NEW w \in Workers, Delete(w) PROVE Types'
  BY <1>9 DEF Delete, LetGo, Goto, endpoint, past, budget
<1>10. ASSUME NEW w \in Workers, NEW j \in Jobs, Receive(w, j) PROVE Types'
  BY <1>10 DEF Receive, Deliverable, Goto, endpoint, past, budget
<1>11. ASSUME NEW w \in Workers, Raise(w) PROVE Types'
  BY <1>11 DEF Raise, AfterRaise, Goto, endpoint, shared, past
<1>12. ASSUME NEW w \in Workers, ReportLost(w) PROVE Types'
  BY <1>12 DEF ReportLost, Goto, endpoint, shared
<1>13. ASSUME NEW w \in Workers, DeleteFails(w) PROVE Types'
  BY <1>13 DEF DeleteFails, LetGo, Goto, endpoint, shared, past
<1>14. ASSUME NEW w \in Workers, Crash(w) PROVE Types'
  BY <1>14 DEF Crash, LetGo, Goto, endpoint, shared, past
<1>15. ASSUME NEW j \in Jobs, Queue(j) PROVE Types'
  BY <1>15 DEF Queue, Reappear, DeadLetter, endpoint, worker, past, budget
<1>16. ASSUME NEW j \in Jobs, ReappearEarly(j) PROVE Types'
  BY <1>16 DEF ReappearEarly, endpoint, worker
<1>17. ASSUME NEW j \in Jobs, Expire(j) PROVE Types'
  BY <1>17 DEF Expire, endpoint, worker, budget
<1>18. CASE UNCHANGED vars
  BY <1>18 DEF vars, endpoint, shared, worker, past, budget
<1> QED
  BY <1>1, <1>2, <1>3, <1>4, <1>5, <1>6, <1>7, <1>8, <1>9, <1>10, <1>11, <1>12,
     <1>13, <1>14, <1>15, <1>16, <1>17, <1>18 DEF Next, Handle

-----------------------------------------------------------------------------
(* One worker at a time.  A job without a message has not been delivered   *)
(* and its document is as the endpoint left it; the message of a job that  *)
(* no timeout has doubled is in flight while a worker has it, and no other *)
(* worker has it too.                                                      *)

NotYetSent ==
  \A j \in Jobs :
    /\ post[j] = "new" => doc[j] = NoDoc
    /\ post[j] \in {"new", "send"} => msg[j] = "none"
    /\ msg[j] = "none" => receives[j] = 0
    /\ post[j] # "new" /\ receives[j] = 0 => doc[j] = Fresh \/ j \in expired

TurnsKnown ==
  \A w \in Workers : pc[w] \in Busy => turn[w] \in 1 .. receives[job[w]]

OneInHand ==
  \A w \in Workers :
    pc[w] \in Busy /\ job[w] \notin overlapped =>
      /\ msg[job[w]] = "inflight"
      /\ turn[w] = receives[job[w]]
      /\ \A v \in Workers : pc[v] \in Busy /\ job[v] = job[w] => v = w

Alone == NotYetSent /\ TurnsKnown /\ OneInHand

\* No message is in flight initially.
LEMMA InitAlone == Init => Alone
  BY DEF Init, Alone, NotYetSent, TurnsKnown, OneInHand, Busy, TrySteps

\* Every step keeps a job in the hand of one worker, until a timeout doubles it.
LEMMA NextAlone == Types /\ Types' /\ Alone /\ [Next]_vars => Alone'
<1> SUFFICES ASSUME Types, Types', Alone, [Next]_vars PROVE Alone'
  OBVIOUS
<1> USE BoundAssumption, OrderOfSteps
    DEF Types, BusyHasJob, TypeOK, Busy, TrySteps, Steps, Alone, NotYetSent, TurnsKnown, OneInHand
<1>1. ASSUME NEW j \in Jobs, CreatePending(j) PROVE Alone'
  BY <1>1 DEF CreatePending, worker, past, budget
<1>2. ASSUME NEW j \in Jobs, Send(j) PROVE Alone'
  BY <1>2 DEF Send, worker, past, budget
<1>3. ASSUME NEW j \in Jobs, SendFails(j) PROVE Alone'
  BY <1>3 DEF SendFails, worker, past
<1>4. ASSUME NEW w \in Workers, Load(w) PROVE Alone'
  BY <1>4 DEF Load, Goto, endpoint, shared, past, budget
<1>5. ASSUME NEW w \in Workers, SaveProcessing(w) PROVE Alone'
  BY <1>5 DEF SaveProcessing, SetDoc, Step, Goto, endpoint, past, budget
<1>6. ASSUME NEW w \in Workers, SaveCompleted(w) PROVE Alone'
  BY <1>6 DEF SaveCompleted, SetDoc, Step, Goto, endpoint, past, budget
<1>7. ASSUME NEW w \in Workers, Merge(w) PROVE Alone'
  BY <1>7 DEF Merge, Step, Goto, endpoint, past, budget
<1>8. ASSUME NEW w \in Workers, SaveFailed(w) PROVE Alone'
  BY <1>8 DEF SaveFailed, SetDoc, Goto, endpoint, past, budget
<1>9. ASSUME NEW w \in Workers, Delete(w) PROVE Alone'
  BY <1>9 DEF Delete, MayStay, LetGo, Goto, endpoint, past, budget
<1>10. ASSUME NEW w \in Workers, NEW j \in Jobs, Receive(w, j) PROVE Alone'
  BY <1>10 DEF Receive, Deliverable, Goto, endpoint, past, budget
<1>11. ASSUME NEW w \in Workers, Raise(w) PROVE Alone'
  BY <1>11 DEF Raise, AfterRaise, Goto, endpoint, shared, past
<1>12. ASSUME NEW w \in Workers, ReportLost(w) PROVE Alone'
  BY <1>12 DEF ReportLost, Goto, endpoint, shared
<1>13. ASSUME NEW w \in Workers, DeleteFails(w) PROVE Alone'
  BY <1>13 DEF DeleteFails, LetGo, Goto, endpoint, shared, past
<1>14. ASSUME NEW w \in Workers, Crash(w) PROVE Alone'
  BY <1>14 DEF Crash, LetGo, Goto, endpoint, shared, past
<1>15. ASSUME NEW j \in Jobs, Queue(j) PROVE Alone'
  BY <1>15 DEF Queue, Reappear, DeadLetter, InHand, Handles, endpoint, worker, past, budget
<1>16. ASSUME NEW j \in Jobs, ReappearEarly(j) PROVE Alone'
  BY <1>16 DEF ReappearEarly, endpoint, worker
<1>17. ASSUME NEW j \in Jobs, Expire(j) PROVE Alone'
  BY <1>17 DEF Expire, endpoint, worker, budget
<1>18. CASE UNCHANGED vars
  BY <1>18 DEF vars, endpoint, shared, worker, past, budget
<1> QED
  BY <1>1, <1>2, <1>3, <1>4, <1>5, <1>6, <1>7, <1>8, <1>9, <1>10, <1>11, <1>12, <1>13, <1>14, <1>15, <1>16, <1>17, <1>18 DEF Next, Handle

-----------------------------------------------------------------------------
(* The document while a worker is at it.  For a job that no timeout has    *)
(* doubled and whose document is there: a document in hand has the result  *)
(* of the one in Redis, the scores are merged after the result is stored,  *)
(* and in the first delivery the document goes through its states once.    *)

InOrder(w, j) ==
  /\ pc[w] \in {"save", "savefail"} => held[w].res = doc[j].res
  /\ pc[w] = "merge" => doc[j].st = "completed" /\ doc[j].res > 0
  /\ receives[j] = 1 /\ pc[w] \in {"load", "save"} => doc[j] = Fresh
  /\ receives[j] = 1 /\ pc[w] \in {"loaddone", "savedone"} => doc[j].st = "processing"

HandlersInOrder ==
  \A w \in Workers :
    pc[w] \in Busy /\ job[w] \notin expired \cup overlapped => InOrder(w, job[w])

ResultsOfDeliveries ==
  \A j \in Jobs : j \notin expired \cup overlapped => doc[j].res <= receives[j]

\* Who has reported, and is about to merge the scores or to delete the message,
\* has left a report that may be past its TTL by now.
ReportedFirst ==
  \A w \in Workers :
    pc[w] \in {"merge", "delete"} =>
      \/ Settled(job[w])
      \/ job[w] \in expired /\ doc[job[w]] = NoDoc
      \/ job[w] \in Spoilt

Documents ==
  HandlersInOrder /\ ResultsOfDeliveries /\ ReportedFirst /\ DeletedIsSettled

\* There are no documents initially.
LEMMA InitDocuments == Init => Documents
  BY DEF Init, Documents, HandlersInOrder, ResultsOfDeliveries, ReportedFirst, DeletedIsSettled,
         NoDoc, Busy, TrySteps

\* Every step keeps documents, handlers and messages in agreement.
LEMMA NextDocuments ==
  Types /\ Types' /\ Alone /\ Alone' /\ Documents /\ [Next]_vars => Documents'
<1> SUFFICES ASSUME Types, Types', Alone, Alone', Documents, [Next]_vars PROVE Documents'
  OBVIOUS
<1> USE BoundAssumption, OrderOfSteps
    DEF Types, BusyHasJob, TypeOK, Docs, NoDoc, Fresh, Busy, TrySteps, Steps,
        Alone, NotYetSent, TurnsKnown, OneInHand,
        Documents, HandlersInOrder, InOrder, ResultsOfDeliveries, ReportedFirst,
        DeletedIsSettled, Settled, Outdated, Spoilt
<1>1. ASSUME NEW j \in Jobs, CreatePending(j) PROVE Documents'
  BY <1>1 DEF CreatePending, worker, past, budget
<1>2. ASSUME NEW j \in Jobs, Send(j) PROVE Documents'
  BY <1>2 DEF Send, worker, past, budget
<1>3. ASSUME NEW j \in Jobs, SendFails(j) PROVE Documents'
  BY <1>3 DEF SendFails, worker, past
<1>4. ASSUME NEW w \in Workers, Load(w) PROVE Documents'
  BY <1>4 DEF Load, Goto, endpoint, shared, past, budget, Loaded
<1>5. ASSUME NEW w \in Workers, SaveProcessing(w) PROVE Documents'
  BY <1>5 DEF SaveProcessing, SetDoc, Step, Goto, endpoint, past, budget, Processing
<1>6. ASSUME NEW w \in Workers, SaveCompleted(w) PROVE Documents'
  BY <1>6 DEF SaveCompleted, SetDoc, Step, Goto, endpoint, past, budget
<1>7. ASSUME NEW w \in Workers, Merge(w) PROVE Documents'
  BY <1>7 DEF Merge, Step, Goto, endpoint, past, budget
<1>8. ASSUME NEW w \in Workers, SaveFailed(w) PROVE Documents'
  BY <1>8 DEF SaveFailed, SetDoc, Goto, endpoint, past, budget, Failed
<1>9. ASSUME NEW w \in Workers, Delete(w) PROVE Documents'
  BY <1>9 DEF Delete, MayStay, LetGo, Goto, endpoint, past, budget
<1>10. ASSUME NEW w \in Workers, NEW j \in Jobs, Receive(w, j) PROVE Documents'
  BY <1>10 DEF Receive, Deliverable, Goto, endpoint, past, budget
<1>11. ASSUME NEW w \in Workers, Raise(w) PROVE Documents'
  BY <1>11 DEF Raise, AfterRaise, Goto, endpoint, shared, past
<1>12. ASSUME NEW w \in Workers, ReportLost(w) PROVE Documents'
  BY <1>12 DEF ReportLost, Goto, endpoint, shared
<1>13. ASSUME NEW w \in Workers, DeleteFails(w) PROVE Documents'
  BY <1>13 DEF DeleteFails, LetGo, Goto, endpoint, shared, past
<1>14. ASSUME NEW w \in Workers, Crash(w) PROVE Documents'
  BY <1>14 DEF Crash, LetGo, Goto, endpoint, shared, past
<1>15. ASSUME NEW j \in Jobs, Queue(j) PROVE Documents'
  BY <1>15 DEF Queue, Reappear, DeadLetter, InHand, Handles, endpoint, worker, past, budget
<1>16. ASSUME NEW j \in Jobs, ReappearEarly(j) PROVE Documents'
  BY <1>16 DEF ReappearEarly, endpoint, worker
<1>17. ASSUME NEW j \in Jobs, Expire(j) PROVE Documents'
  BY <1>17 DEF Expire, endpoint, worker, budget
<1>18. CASE UNCHANGED vars
  BY <1>18 DEF vars, endpoint, shared, worker, past, budget
<1> QED
  BY <1>1, <1>2, <1>3, <1>4, <1>5, <1>6, <1>7, <1>8, <1>9, <1>10, <1>11, <1>12, <1>13, <1>14, <1>15, <1>16, <1>17, <1>18 DEF Next, Handle

-----------------------------------------------------------------------------
(* How often scores are merged.  The workers that may still merge a job's  *)
(* scores and the merges so far are together no more than its deliveries.  *)

Unmerged(j) == {w \in Workers : job[w] = j /\ pc[w] \in TrySteps}

MergesBounded == \A j \in Jobs : merges[j] + Cardinality(Unmerged(j)) <= receives[j]

\* The workers are finitely many, so some of them are.
LEMMA UnmergedFinite ==
  ASSUME NEW S \in SUBSET Workers
  PROVE  IsFiniteSet(S) /\ Cardinality(S) \in Nat
  BY WorkerAssumption, FS_Subset, FS_CardinalityType

\* Nothing is merged initially.
LEMMA InitMerges == Init => MergesBounded
<1> SUFFICES ASSUME Init, NEW j \in Jobs
             PROVE  merges[j] + Cardinality(Unmerged(j)) <= receives[j]
  BY DEF MergesBounded
<1>1. Unmerged(j) = {}
  BY DEF Init, Unmerged, TrySteps
<1> QED
  BY <1>1, FS_EmptySet DEF Init

\* A step after which no more workers may merge, and nothing was merged.
LEMMA MergesKept ==
  ASSUME Types, MergesBounded, merges' = merges, receives' = receives,
         \A k \in Jobs : Unmerged(k)' \subseteq Unmerged(k)
  PROVE  MergesBounded'
<1> SUFFICES ASSUME NEW k \in Jobs
             PROVE  merges'[k] + Cardinality(Unmerged(k)') <= receives'[k]
  BY DEF MergesBounded
<1>1. /\ IsFiniteSet(Unmerged(k))
      /\ Cardinality(Unmerged(k)) \in Nat /\ Cardinality(Unmerged(k)') \in Nat
  BY UnmergedFinite DEF Unmerged
<1>2. Cardinality(Unmerged(k)') <= Cardinality(Unmerged(k))
  BY <1>1, FS_Subset
<1>3. merges[k] \in Nat /\ receives[k] \in Nat
  BY BoundAssumption DEF Types, TypeOK
<1> QED
  BY <1>1, <1>2, <1>3 DEF MergesBounded

\* Every step keeps merges and workers that may merge within the deliveries.
LEMMA NextMerges == Types /\ Types' /\ MergesBounded /\ [Next]_vars => MergesBounded'
<1> SUFFICES ASSUME Types, Types', MergesBounded, [Next]_vars PROVE MergesBounded'
  OBVIOUS
<1> USE OrderOfSteps, MergesKept
    DEF Types, BusyHasJob, TypeOK, Busy, TrySteps, Steps, Unmerged
<1>1. ASSUME NEW j \in Jobs, CreatePending(j) PROVE MergesBounded'
  BY <1>1 DEF CreatePending, worker, past, budget
<1>2. ASSUME NEW j \in Jobs, Send(j) PROVE MergesBounded'
  BY <1>2 DEF Send, worker, past, budget
<1>3. ASSUME NEW j \in Jobs, SendFails(j) PROVE MergesBounded'
  BY <1>3 DEF SendFails, worker, past
<1>4. ASSUME NEW w \in Workers, Load(w) PROVE MergesBounded'
  BY <1>4 DEF Load, Goto, endpoint, shared, past, budget
<1>5. ASSUME NEW w \in Workers, SaveProcessing(w) PROVE MergesBounded'
  BY <1>5 DEF SaveProcessing, SetDoc, Step, Goto, endpoint, past, budget
<1>6. ASSUME NEW w \in Workers, SaveCompleted(w) PROVE MergesBounded'
  BY <1>6 DEF SaveCompleted, SetDoc, Step, Goto, endpoint, past, budget
<1>7. ASSUME NEW w \in Workers, Merge(w) PROVE MergesBounded'
  <2> SUFFICES ASSUME NEW k \in Jobs
               PROVE  merges'[k] + Cardinality(Unmerged(k)') <= receives'[k]
    BY DEF MergesBounded
  <2>1. /\ IsFiniteSet(Unmerged(k))
        /\ Cardinality(Unmerged(k)) \in Nat /\ merges[k] \in Nat /\ receives[k] \in Nat
    BY UnmergedFinite, BoundAssumption
  <2>2. CASE k = job[w]
    <3>1. w \in Unmerged(k) /\ Unmerged(k)' = Unmerged(k) \ {w}
      BY <1>7, <2>2 DEF Merge, Step, Goto
    <3> HIDE DEF Unmerged
    <3>2. Cardinality(Unmerged(k)') = Cardinality(Unmerged(k)) - 1
      BY <2>1, <3>1, FS_RemoveElement
    <3>3. merges'[k] <= merges[k] + 1 /\ merges'[k] \in Nat /\ receives'[k] = receives[k]
      BY <1>7, <2>2 DEF Merge
    <3> QED
      BY <2>1, <3>2, <3>3 DEF MergesBounded
  <2>3. CASE k # job[w]
    <3>1. Unmerged(k)' = Unmerged(k) /\ merges'[k] = merges[k] /\ receives'[k] = receives[k]
      BY <1>7, <2>3 DEF Merge, Step, Goto
    <3> QED
      BY <3>1 DEF MergesBounded
  <2> QED
    BY <2>2, <2>3
<1>8. ASSUME NEW w \in Workers, SaveFailed(w) PROVE MergesBounded'
  BY <1>8 DEF SaveFailed, SetDoc, Goto, endpoint, past, budget
<1>9. ASSUME NEW w \in Workers, Delete(w) PROVE MergesBounded'
  BY <1>9 DEF Delete, MayStay, LetGo, Goto, endpoint, past, budget
<1>10. ASSUME NEW w \in Workers, NEW j \in Jobs, Receive(w, j) PROVE MergesBounded'
  <2> SUFFICES ASSUME NEW k \in Jobs
               PROVE  merges'[k] + Cardinality(Unmerged(k)') <= receives'[k]
    BY DEF MergesBounded
  <2>1. /\ IsFiniteSet(Unmerged(k))
        /\ Cardinality(Unmerged(k)) \in Nat /\ merges[k] \in Nat /\ receives[k] \in Nat
    BY UnmergedFinite, BoundAssumption
  <2>2. CASE k = j
    <3>1. w \notin Unmerged(k) /\ Unmerged(k)' = Unmerged(k) \cup {w}
      BY <1>10, <2>2 DEF Receive, Goto
    <3> HIDE DEF Unmerged
    <3>2. Cardinality(Unmerged(k)') = Cardinality(Unmerged(k)) + 1
      <4>1. Cardinality(Unmerged(k) \cup {w}) = Cardinality(Unmerged(k)) + 1
        BY ONLY <2>1, <3>1, FS_AddElement
      <4> QED
        BY ONLY <3>1, <4>1
    <3>3. merges'[k] = merges[k] /\ receives'[k] = receives[k] + 1
      BY <1>10, <2>2 DEF Receive
    <3> QED
      BY <2>1, <3>2, <3>3 DEF MergesBounded
  <2>3. CASE k # j
    <3>1. Unmerged(k)' = Unmerged(k) /\ merges'[k] = merges[k] /\ receives'[k] = receives[k]
      BY <1>10, <2>3 DEF Receive, Goto
    <3> QED
      BY <3>1 DEF MergesBounded
  <2> QED
    BY <2>2, <2>3
<1>11. ASSUME NEW w \in Workers, Raise(w) PROVE MergesBounded'
  BY <1>11 DEF Raise, AfterRaise, Goto, endpoint, shared, past
<1>12. ASSUME NEW w \in Workers, ReportLost(w) PROVE MergesBounded'
  BY <1>12 DEF ReportLost, Goto, endpoint, shared
<1>13. ASSUME NEW w \in Workers, DeleteFails(w) PROVE MergesBounded'
  BY <1>13 DEF DeleteFails, LetGo, Goto, endpoint, shared, past
<1>14. ASSUME NEW w \in Workers, Crash(w) PROVE MergesBounded'
  BY <1>14 DEF Crash, LetGo, Goto, endpoint, shared, past
<1>15. ASSUME NEW j \in Jobs, Queue(j) PROVE MergesBounded'
  BY <1>15 DEF Queue, Reappear, DeadLetter, InHand, Handles, endpoint, worker, past, budget
<1>16. ASSUME NEW j \in Jobs, ReappearEarly(j) PROVE MergesBounded'
  BY <1>16 DEF ReappearEarly, endpoint, worker
<1>17. ASSUME NEW j \in Jobs, Expire(j) PROVE MergesBounded'
  BY <1>17 DEF Expire, endpoint, worker, budget
<1>18. CASE UNCHANGED vars
  BY <1>18 DEF vars, endpoint, shared, worker, past, budget
<1> QED
  BY <1>1, <1>2, <1>3, <1>4, <1>5, <1>6, <1>7, <1>8, <1>9, <1>10, <1>11, <1>12, <1>13, <1>14, <1>15, <1>16, <1>17, <1>18 DEF Next, Handle

MergedHasResult ==
  \A j \in Jobs : merges[j] > 0 => doc[j].res > 0 \/ j \in expired \cup overlapped

\* Nothing is merged initially, so nothing lacks its result.
LEMMA InitResults == Init => MergedHasResult
  BY DEF Init, MergedHasResult

\* The merges of a job are no more than its deliveries.
LEMMA NoMergeBeforeDelivery ==
  ASSUME Types, MergesBounded
  PROVE  \A j \in Jobs : merges[j] <= receives[j]
<1> SUFFICES ASSUME NEW j \in Jobs PROVE merges[j] <= receives[j]
  OBVIOUS
<1>1. Cardinality(Unmerged(j)) \in Nat
  BY UnmergedFinite DEF Unmerged
<1> QED
  BY <1>1, BoundAssumption DEF MergesBounded, Types, TypeOK

\* Every step keeps the result of a job whose scores are merged.
LEMMA NextResults ==
  Types /\ Types' /\ Alone /\ Documents /\ MergesBounded /\ MergedHasResult /\ [Next]_vars
    => MergedHasResult'
<1> SUFFICES ASSUME Types, Types', Alone, Documents, MergesBounded, MergedHasResult, [Next]_vars
             PROVE  MergedHasResult'
  OBVIOUS
<1> USE BoundAssumption, OrderOfSteps, NoMergeBeforeDelivery
    DEF Types, BusyHasJob, TypeOK, Docs, NoDoc, Fresh, Busy, TrySteps, Steps,
        Alone, NotYetSent, TurnsKnown, OneInHand,
        Documents, HandlersInOrder, InOrder, MergedHasResult
<1>1. ASSUME NEW j \in Jobs, CreatePending(j) PROVE MergedHasResult'
  BY <1>1 DEF CreatePending, worker, past, budget
<1>2. ASSUME NEW j \in Jobs, Send(j) PROVE MergedHasResult'
  BY <1>2 DEF Send, worker, past, budget
<1>3. ASSUME NEW j \in Jobs, SendFails(j) PROVE MergedHasResult'
  BY <1>3 DEF SendFails, worker, past
<1>4. ASSUME NEW w \in Workers, Load(w) PROVE MergedHasResult'
  BY <1>4 DEF Load, Goto, endpoint, shared, past, budget, Loaded
<1>5. ASSUME NEW w \in Workers, SaveProcessing(w) PROVE MergedHasResult'
  BY <1>5 DEF SaveProcessing, SetDoc, Step, Goto, endpoint, past, budget, Processing
<1>6. ASSUME NEW w \in Workers, SaveCompleted(w) PROVE MergedHasResult'
  BY <1>6 DEF SaveCompleted, SetDoc, Step, Goto, endpoint, past, budget
<1>7. ASSUME NEW w \in Workers, Merge(w) PROVE MergedHasResult'
  BY <1>7 DEF Merge, Step, Goto, endpoint, past, budget
<1>8. ASSUME NEW w \in Workers, SaveFailed(w) PROVE MergedHasResult'
  BY <1>8 DEF SaveFailed, SetDoc, Goto, endpoint, past, budget, Failed
<1>9. ASSUME NEW w \in Workers, Delete(w) PROVE MergedHasResult'
  BY <1>9 DEF Delete, MayStay, LetGo, Goto, endpoint, past, budget
<1>10. ASSUME NEW w \in Workers, NEW j \in Jobs, Receive(w, j) PROVE MergedHasResult'
  BY <1>10 DEF Receive, Deliverable, Goto, endpoint, past, budget
<1>11. ASSUME NEW w \in Workers, Raise(w) PROVE MergedHasResult'
  BY <1>11 DEF Raise, AfterRaise, Goto, endpoint, shared, past
<1>12. ASSUME NEW w \in Workers, ReportLost(w) PROVE MergedHasResult'
  BY <1>12 DEF ReportLost, Goto, endpoint, shared
<1>13. ASSUME NEW w \in Workers, DeleteFails(w) PROVE MergedHasResult'
  BY <1>13 DEF DeleteFails, LetGo, Goto, endpoint, shared, past
<1>14. ASSUME NEW w \in Workers, Crash(w) PROVE MergedHasResult'
  BY <1>14 DEF Crash, LetGo, Goto, endpoint, shared, past
<1>15. ASSUME NEW j \in Jobs, Queue(j) PROVE MergedHasResult'
  BY <1>15 DEF Queue, Reappear, DeadLetter, InHand, Handles, endpoint, worker, past, budget
<1>16. ASSUME NEW j \in Jobs, ReappearEarly(j) PROVE MergedHasResult'
  BY <1>16 DEF ReappearEarly, endpoint, worker
<1>17. ASSUME NEW j \in Jobs, Expire(j) PROVE MergedHasResult'
  BY <1>17 DEF Expire, endpoint, worker, budget
<1>18. CASE UNCHANGED vars
  BY <1>18 DEF vars, endpoint, shared, worker, past, budget
<1> QED
  BY <1>1, <1>2, <1>3, <1>4, <1>5, <1>6, <1>7, <1>8, <1>9, <1>10, <1>11, <1>12, <1>13, <1>14, <1>15, <1>16, <1>17, <1>18 DEF Next, Handle

-----------------------------------------------------------------------------
(* Theorems.                                                               *)

IInv == Types /\ Alone /\ Documents /\ MergesBounded /\ MergedHasResult

\* The inductive invariant holds throughout.
LEMMA Inductive == Spec => []IInv
<1>1. Init => IInv
  BY InitTypes, InitAlone, InitDocuments, InitMerges, InitResults DEF IInv
<1>2. IInv /\ [Next]_vars => IInv'
  BY NextTypes, NextAlone, NextDocuments, NextMerges, NextResults DEF IInv
<1> QED
  BY <1>1, <1>2, PTL DEF Spec

\* The documents, messages and workers of LegacyJobs have their types, and a
\* worker at a step of _handle_one has a message in hand.
THEOREM TypesProved == Spec => [](TypeOK /\ BusyHasJob)
<1>1. IInv => TypeOK /\ BusyHasJob
  BY DEF IInv, Types
<1> QED
  BY <1>1, Inductive, PTL

\* sqs_worker.py deletes a message only when its job is completed or failed,
\* or was and its document is past its TTL, unless mark_failed itself raised
\* or two workers had the job at once.
THEOREM DeletedIsSettledProved == Spec => []DeletedIsSettled
<1>1. IInv => DeletedIsSettled
  BY DEF IInv, Documents
<1> QED
  BY <1>1, Inductive, PTL

\* The scores of a job are merged at most once for each delivery, and only
\* when its result is stored.
THEOREM MergedIsReportedProved == Spec => []MergedIsReported
<1>1. IInv => MergedIsReported
  BY NoMergeBeforeDelivery DEF IInv, MergedIsReported, MergedHasResult
<1> QED
  BY <1>1, Inductive, PTL

\* Status and result of a job go forward; only a redelivery sets it back.
THEOREM ReportsForwardProved == Spec => ReportsForward
<1> DEFINE Forward ==
      \A j \in Jobs \ (expired' \cup overlapped') :
        /\ doc'[j].res >= doc[j].res
        /\ doc[j].st = "completed" /\ doc'[j].st = "processing" => receives[j] > 1
        /\ doc[j].st = "failed" => doc'[j].st = "failed" \/ receives[j] > 1
<1>0. ASSUME IInv, IInv', [Next]_vars PROVE Forward
  <2> SUFFICES ASSUME NEW i \in Jobs, i \notin expired', i \notin overlapped'
      PROVE  /\ doc'[i].res >= doc[i].res
             /\ doc[i].st = "completed" /\ doc'[i].st = "processing" => receives[i] > 1
             /\ doc[i].st = "failed" => doc'[i].st = "failed" \/ receives[i] > 1
    OBVIOUS
  <2> USE <1>0, BoundAssumption, OrderOfSteps
      DEF IInv, Types, BusyHasJob, TypeOK, Docs, NoDoc, Fresh, Busy, TrySteps, Steps,
          Alone, NotYetSent, TurnsKnown, OneInHand,
          Documents, HandlersInOrder, InOrder, ResultsOfDeliveries
  <2>1. CASE doc' = doc
    BY <2>1
  <2>2. ASSUME NEW j \in Jobs, CreatePending(j) \/ Expire(j) PROVE Forward
    BY <2>2 DEF CreatePending, Expire, past, worker, budget
  <2>3. ASSUME NEW w \in Workers, SaveProcessing(w) PROVE Forward
    BY <2>3 DEF SaveProcessing, SetDoc, Processing, Step, Goto, past
  <2>4. ASSUME NEW w \in Workers, SaveCompleted(w) PROVE Forward
    BY <2>4 DEF SaveCompleted, SetDoc, Step, Goto, past
  <2>5. ASSUME NEW w \in Workers, SaveFailed(w) PROVE Forward
    BY <2>5 DEF SaveFailed, SetDoc, Failed, Goto, past
  <2>6. doc' = doc \/ \E j \in Jobs : CreatePending(j) \/ Expire(j)
        \/ \E w \in Workers : SaveProcessing(w) \/ SaveCompleted(w) \/ SaveFailed(w)
    BY DEF Next, vars, Handle, Queue, Send, SendFails, Load, Merge, Delete, Receive, Raise,
           ReportLost, DeleteFails, Crash, Reappear, DeadLetter, ReappearEarly, shared
  <2> QED
    BY <2>1, <2>2, <2>3, <2>4, <2>5, <2>6
<1>1. IInv /\ IInv' /\ [Next]_vars => [Forward]_vars
  BY <1>0
<1> QED
  BY <1>1, Inductive, PTL DEF Spec, ReportsForward
=============================================================================
