# A model of the code-review REST service

This directory specifies, model-checks and partly proves the concurrent core of
the service in `src/api-request-gateway`: a FastAPI gateway, Redis as queue,
cache and status store, PostgreSQL, workers that run language models on
students' code, and a dispatcher that posts results to clients' webhooks.

## 1. The system

| part | code | state it keeps | operations |
|---|---|---|---|
| task endpoints | `gateway/routers/{analyze,generate,pipeline}.py` | local variables of a request | `POST`: look into the cache; miss: enqueue; hit: answer the task on the spot |
| queue service | `gateway/services/queue.py` | status and result documents, job streams, webhook stream (Redis, with TTL) | `set_status`, `set_result`, `get_snapshot`, `enqueue_*`, `complete_with_result` |
| status endpoint | `gateway/routers/status.py` | none | `GET /status/{task_id}` |
| cache | `gateway/services/cache.py` | one document per key, with TTL | `get_json`, `set_json` |
| workers | `workers/{analyze,generate,pipeline}_worker.py`, `workers/mock_workers.py` | the batch in hand; the group's pending lists in Redis | `run_forever` / `consume`, `_handle_job` |
| webhook dispatcher | `workers/webhook_dispatcher.py`, `gateway/services/webhook.py` | the batch in hand; the webhook stream | `run_forever`, `deliver_webhook` |
| students, users | `gateway/services/{students,users}.py`, `db/` | tables `students`, `users` | `get_or_create_student`, `register_user` |
| access | `gateway/services/auth.py`, `gateway/routers/{auth,students}.py` | none of its own: tokens, rows of `users` | `verify_auth_context`, `ensure_student_access`, `POST /auth/register`, `POST /auth/token` |
| rate limit | `gateway/services/auth.py` | one counter per caller and hour | `check_rate_limit` |
| student profile | `gateway/services/student_profile.py` | list, hash and document of a student in Redis | `merge_analysis_into_student_profile`, `get_weakest_tags`, `get_student_profile` |
| legacy jobs | `legacy/.../sqs_worker.py`, `job_redis_sync.py`, `job_redis.py`, `sqs_producer.py` | a job document in Redis, a message in SQS | `queue_analyze`, `_handle_one` |
| legacy user store | `legacy/.../redis_store.py`, `tag_stats.py`, the endpoints of code-analyze and task-generate | histories, statistics by tag, progress and profile of a user (Redis) | `save_analyze`, `save_task`, `get_*_history`, `merge_*` and `set_*` of `UserRedisStore`, `merge_tag_mastery_observations_sync` |
| schemas, start-up, models, deployment | see `PROJECT.json`, "components" | | |

How they interact: the gateway writes a status document and appends to a job
stream; workers of one consumer group read the stream in batches, write the
status, the cache, a row, the result and an event on the webhook stream; the
dispatchers read that stream and append failed events to it again; a client
polls the status meanwhile. A request first passes the checks of its token or
key, the rate limit and the check of the student it names, and only then
resolves that student; a pipeline job merges the student's profile halfway. The parts
share Redis keys and database rows, never memory, and nothing locks a Redis key
between two calls.

What is hard about it: every `await` lets another coroutine or process run;
every call to Redis may raise in the middle of a handler and send it to the
`except` branch; a worker may die with a batch on its pending list; documents
expire by themselves; two workers may infer two different texts for one cache
key; retries go through the same stream as new events. `PROJECT.json`
("hazards") lists each of these at the line where it bites, with the properties
that would catch it.

What makes each part correct:

- *queue and workers*: a task is put out once; row, result and webhook agree and
  belong to the student who asked; no entry is acknowledged without an outcome;
  the status moves forward; a task without crashes settles;
- *polling*: only the student who asked and its platform see the task, answers never go back, the outcome is
  learnt in the end;
- *dispatcher*: no event vanishes or is repeated without a reason, attempts are
  bounded, every event ends;
- *students*: one row per student, shared by all requests, never replaced;
- *access*: a refused request leaves nothing behind, a user's token leads to the
  user's own student only, and to none once the user is gone;
- *rate limit*: a refused caller is let in again;
- *profile*: samples are counted once when merges do not overlap, never invented
  when they do, and no key stays without a time to live;
- *legacy jobs*: a message is deleted only when its job has an outcome, and what
  a client has read of a job goes back only with a redelivery;
- *legacy user store*: what a handler wrote is lost only to a request that had
  read the document before; a history read page by page misses nothing.

## 2. Modules

| module | models |
|---|---|
| `TaskQueue` | gateway, queue service, cache and workers of one job stream |
| `TaskQueueInv` | the inductive invariant behind `HandledOnce` |
| `TaskOutcomeInv` | the inductive invariants on top of it: statuses and owners, answers, pending lists, addressees |
| `TaskQueueProofs` | proofs: types, `HandledOnce`, statuses and owners |
| `TaskPolling` | `TaskQueue` together with clients that poll |
| `TaskOutcomeProofs` | proofs: answers, pending lists, addressees, the refinement of `TaskLifecycle`, and polling |
| `TaskLifecycle` | abstract: what the service promises about a task |
| `TaskRefinement` | the refinement mapping from `TaskQueue` to `TaskLifecycle` |
| `WebhookDispatch`, `WebhookDispatchProofs` | webhook stream, dispatchers, clients |
| `StudentRegistry` | creation of students and users |
| `AccessControl`, `AccessControlProofs` | `StudentRegistry` behind the gate every request passes; the proofs about both |
| `RateLimit`, `RateLimitProofs` | the hourly counter |
| `StudentProfile`, `StudentProfileProofs` | merges into a profile, its reader and the TTLs of its keys |
| `LegacyJobs`, `LegacyJobsProofs` | the SQS workers the stream workers replaced |
| `UserStore`, `UserStoreProofs` | what the legacy services keep of one user |
| `MC*` | the constants of the finite instances |

Conventions. A process has a program counter (`gpc`, `wpc`, `dpc`, `pc`); its
value names the next `await`. One action is what runs from one `await` to the
next, so everything between two awaits is atomic, as in asyncio, and nothing
else is. Where the order of several awaits matters it is a table
(`EnqueueOrder`, `HandlerOrder`, `CompletionOrder`, `FailureOrder`,
`MergeOrder`, `RetryOrder`), which keeps the order in one place and lets one
action serve the three kinds of task. Operators whose comment starts with
"Mutant of" are used by no specification: they are wrong forms of the next
definition, by which the properties are tested (section 6).

### TaskQueue

One instance is one stream. `Kind` selects the handler and `Mock` the mock
worker. The state is `status`, `result` and `cache` (the Redis documents),
`stream`, `delivered` and `pel` (the stream and its consumer group), `rows` and
`hooks` (what reached the database and the webhook stream), and the local
variables of handlers. A position on the stream is its message id.

- `set_status` without ids is two steps, the `GET` that looks for the ids of the
  previous document (`Mark`, `FailGet`) and the `SET` (`SetProcessing`,
  `SetFailed`); the value read is in `wseen` between them. `complete_with_result`
  is a snapshot, the status and the result (`Snapshot`, `SetDone`,
  `StoreResult`), in the gateway and in workers.
- A result body carries `by`, the task whose inference made it, because two
  inferences on one input give different texts. It is what lets the model tell
  apart bodies that come from different runs of the model.
- `cache` is the cache of the stream's own key. The pipeline's inner caches of
  analyses and generated tasks only decide where an artefact comes from and are
  inside `Infer`; the writes of the mock pipeline to them after its webhook are
  for other keys, and an exception in them is `Raise` at step "ack". For the
  generate stream the order of awaits is that of analyze.
- `Raise` may happen at any step of the `try`. A call that raised after it took
  effect is an exception at the next step; for the `XACK`, the last one, both
  outcomes are spelled out. `Crash` is the process dying and also an exception
  in the `except` branch or in `XREADGROUP`, which leaves `run_forever`.
- `GatewayFail` is any exception or crash after the first write of a request,
  `ensure_stream` after the `XADD` included (step "reply").
- `ExpireStatus`, `ExpireResult`, `ExpireCache` are the TTL, at any moment.

`OutputsAgree` is two halves: what the webhook carries is what the row holds
(`PublishedIsStored`), and the result document is the row's (`RowMatchesResult`).

### TaskPolling

`get_snapshot` reads the status document (`PollStatus`) and the result document
(`PollAnswer`) in two awaits. `answer` is the last 200 answer for a task; a 404
changes nothing. A reader (`Readers`) comes with the token of a user or with the
key of a platform: `MayRead` compares the platform for both and the student for
a token only, as `status.py` does. A student id is one of a platform
(`PlatformOf`), since a task carries both.

### TaskLifecycle and TaskRefinement

A task opens, finishes, gets its one answer, is sent once with exactly that
answer, and may fail until then and after. The mapping reads the phase off the
status document (`PhaseOf`, which is `_normalize_status` with "no document"
kept apart), the answer off the result, and what was sent off the webhook stream.
The TTL breaks every such promise, so the instance has none.

### WebhookDispatch

An entry of the stream has two places for its attempts: its own field
(`inFields`), which the dispatcher reads, and the JSON under `data` (`inData`),
which it writes. `sends`, `received` and `lostReplies` count POSTs. `Raise` and
`ExceptAck` are the `except` branch; `Crash` includes an `XACK` of that branch
that raises. `MaxAttempts` is per dispatcher, so that one instance shows both
the dispatcher that gives an event up and the one that retries it.

### StudentRegistry

A transaction is `Select`, then `Insert` and `Commit`. The unique constraint
blocks an insert of a key that an open transaction has inserted (`holder`) and
raises `IntegrityError` (`Conflict`) when that one commits. `Lose` is a lost
connection or process; a `COMMIT` whose answer is lost may have taken effect.
`Register` inserts a user and a student with one id in one transaction; nobody
knows that id before, so nobody races with it. The module is a library: it is
checked through `AccessControl`, which extends it; what is proved of it by itself
carries over by `AccessImplementsRegistry`.

### AccessControl

`gate` is where a request is in `verify_auth_context`, the rate limit and
`ensure_student_access`; behind it the request runs the transaction of
`StudentRegistry` (`GatedResolve`) or only reads (`ReadStudent`, 404 without a
row). A credential is the platform's key or a user's token; what makes a
signature good is not modelled, only that a token is good until `ExpireToken`.
Every refusal is one outcome, since all of them leave the handler before it has
written. `Remove` is a row deleted by hand, which the code expects
(`get_user_for_platform` on every request) although no endpoint does it.

### RateLimit

`Incr` is the MULTI of `INCR` and `TTL`; `Expire` the `EXPIRE` of a key without
time; `Fault` a handler lost between them; `Tick` the clock. Counts above the
limit are one value. A refused call has made the same writes as an accepted one.

### StudentProfile

One action per call to Redis. `IsWeakest` states the result of
`get_weakest_tags`; ties are open, as they depend on the order of the hash.
Scores are integers; floats are not modelled. `TagScores` is
`tag_scores_from_analysis` with its two fallbacks and the clamp. What an analysis
may say is `AnalysisAssumption`: a score is an integer, missing, or something
`float()` refuses. A sum of scores is stated as the number of their points
(`Points`), the pairs of an analysis and one of the points it gave, so that
a sum is a cardinality and can be proved about.

`expiring` holds the keys that have a time to live, by the end of it; `TimeOver`
ends the first. All three get the same time, so a key that gets its time later
ends later and the order is all there is to know. `midway` and `torn` name what
the code cannot keep: a key that ends in the middle of a merge, whose sample or
document the next write brings back, and a hash that changed between the two
reads one document is made from. `leaked` is the list and the hash of a merge that
died before its EXPIREs.

### LegacyJobs

`Load` is the `GET` of `_load` and the following action the `SET` of `_save`, so
two workers of one message interleave between them; `HandlerOrder` is the order
of `_handle_one`, `Raise` leads to `mark_failed` and `Delete` is the `finally`. SQS
is external: `Reappear` ends the visibility timeout of a message nobody has in
hand, `ReappearEarly` that of a worker that is too slow, `DeadLetter` is the
redrive policy of `terraform/sqs/main.tf` with `MaxReceives` for its 5; a receipt
of an earlier delivery may or may not delete. A result is named by its delivery.
`Spoilt` names what the code gives up: a `mark_failed` that raised (the message
is deleted all the same, and the job may stay in processing for good) and a job
two workers had at once. A document that expires in the middle of the handler is
not among them: the report is written again, and may only be past its TTL
(`Outdated`) once the message is deleted. Moreover a job that was completed can read `processing` again, or
`failed` with its result still there, after a redelivery or an exception of the
archive; and scores are merged again by every redelivery.

### UserStore

A request is one of eight handlers; `Route` gives the calls to Redis of each, with
the one that comes next (`After`), and each call is an action. The module is one
user on *one* Redis server; `Served` says which handlers share one. The compose file
(`docker-compose.yml:62` and `:129`, `:95` and `:156`) and the manifests
(`k8s/manifests/code-analyze.yaml` and `task-generate.yaml`, lines 62-63) give
code-analyze and task-generate a server each, `AnalyzeHandlers` and
`GenerateHandlers`; with `REDIS_URL_ANALYZE` and `REDIS_URL_GENERATE` the compose
file also lets them share one. Requests run at once on one user, of any kinds
that share the server. `Completions` are answers of the model with the places scores are
read from (`Mastery` for the report's alignments and other blocks, `flat` for the
older format); a `NaN` passes the clamp and stays in a sum, as in Python. `writes`
is the history of SETs of the profile with what each had read, by which the
properties tell an update lost to an overlapping handler (nothing locks the
profile, so the code loses those) from one lost for any other reason. The place of the last alignment of a tag is the greatest of
its places in the report; sums are numbers of points, as in the profile. The assumptions on the
constants say what reaches the code: tags it knows (a patch passes
`normalize_three_tags` or its own list of tags, a report is read for known tags
only), scores that are numbers, `NaN` or refused by `float()`, and fresh ids.

## 3. Runs

| run | instance | shows |
|---|---|---|
| `queue_analyze` | 2 analyze tasks of 2 students on one work, 2 workers, batch 2, 2 exceptions, 2 crashes | types, owners, agreement of the outputs, the order of statuses, the refinement of `TaskLifecycle` |
| `queue_faults` | real pipeline, 2 tasks, 2 workers, batch 1, TTLs at any moment, 1 exception, 1 crash | a crash strands at most the batch in hand and repeats nothing; outcomes and the agreement of row, result and webhook survive expiry |
| `queue_pipeline_addressee` | real pipeline, 2 tasks | **violation**: a cached pipeline result names another student |
| `polling` | 2 analyze tasks of 2 students of one platform, the keys of 2 platforms, 1 worker, batch 2, 2 exceptions | what a poll may show, and that everything settles and is learnt |
| `poll_done_without_result` | mock pipeline, 2 workers, 2 tasks, batch 1 | **violation**: done may come without a result |
| `webhook` | 2 events, 2 dispatchers (1 and 3 attempts), batch 2, 1 crash, 1 exception, failed POSTs | nothing vanishes or is repeated without a reason; every event ends |
| `webhook_attempts` | 1 dispatcher with 2 attempts, 3 failures | **violation**: the limit of attempts does not hold |
| `registry` | `AccessControl`: 3 requests with any credentials, 2 of them for one student, 1 for a user's; the user registers, is removed; 2 faults | one row, no failure by a race, no wait for ever; nobody passes the gate who may not |
| `rate_limit` | 3 concurrent calls, limit 4, window 4, 2 faults | the counter always gets its time, the limit lifts |
| `student_profile` | 3 analyses, 1 reader, 2 tags, history of 1, 1 weak tag, 1 merge left in the middle, TTLs at any moment | exact when serial, real samples when overlapping, the newest analyses, weak tags with statistics, no key without a time |
| `legacy_jobs` | 1 job, 2 workers, 3 deliveries, 1 early timeout, 2 exceptions, 1 crash | a deleted message has its outcome, results stay, every job ends or is a dead letter |
| `user_store` | 3 requests of any kinds on the server of code-analyze, of task-generate, or on one for both; 2 tags, history of 2, pages of 1, 1 fault | updates are lost only to overlapping writers, pages miss nothing, statistics account for every score |

Why the bounds are enough. The properties are about one task, one event, one
student or one tag, or about a pair that share a key, a batch or a worker; two
of each, with two processes, make every pair meet. Two requests race for a row; a
third one's student is a user's. That two racers suffice is no guess: the
theorems about the registry hold for any number. In `student_profile` the third
analysis has no tags and is done at once; two merges, a reader and the ends of
three keys overlap in every way. Histories of one or two entries and pages of one
make a trim and a page boundary happen within three requests. One exception and one crash show each property's single
fault; two of them in `queue_analyze` show a fault in the recovery from the
first. Three deliveries of a legacy job are one that overlaps, one that repeats
and the last. `MaxFailures`, `MaxRaises`, `MaxCrashes`, `MaxFaults`, `MaxEarly` and
`MaxReceives` are the only
bounds on behaviours; streams and counters are bounded through them. Deadlock is
checked in `rate_limit`, whose callers never stop; elsewhere the system may
really be done, with all tasks settled and the streams empty.

Fairness. Weak fairness of a process is the event loop (a ready coroutine runs)
and the restart policy of a container. No fairness is assumed of a client that
posts, of an exception, a crash or a failed POST. `PollSpec` assumes of the owner
of a task that it polls again and again, strongly because the poll is enabled
only while no other one of that task is outstanding. `RateLimit` assumes that
the clock runs and that the caller keeps calling: `LimitLifts` is about a caller
that keeps calling while it is refused. `LegacyJobs` assumes weak fairness of its
workers (`restart: unless-stopped`) and of the timeouts of SQS, so its liveness
survives crashes. `FairAccessSpec` assumes weak fairness of a request that is
past the gate, which is the event loop again. Liveness of the queue is claimed without
crashes only: the code never claims the entries of a dead consumer
(`CrashStrandsOneBatch` says how many those are).

### Findings

- **pipeline cache** (`queue_pipeline_addressee`): the cached body contains
  `student_id` and `profile_tags_used` of the task that filled it, and is stored
  as it is for the next one. The analyze and generate endpoints rebuild theirs.
- **done before the result** (`poll_done_without_result`):
  `complete_with_result` writes the status first; the integration tests take the
  result out of the first answer that says done.
- **attempts** (`webhook_attempts`): the retry's counter is written inside `data`
  and read from the entry's own fields, so it stays at 1 and the limit and the
  growing delay never apply (except for a limit of 1).

What the runs show beside them: an entry whose `XACK` raised goes from done to
failed (`StatusForward` allows it: failed is the last rank); a task whose status
document expired in the middle of a handler has no owner afterwards
(`OwnerKept` names it), and its user and its platform get 404 from then on.

What reading shows beside the runs: since code-analyze and task-generate have
separate Redis servers in every deployment of the repository, nothing task-generate
reads was written by an analysis. `generate-from-progress` then works from the
progress the client has PUT only, and without one it answers 404 "no statistics on
analyses (at least one /v1/analyze is needed)" (`task-generate/app/main.py:206-212`)
to a user who has analyses; the tags an analysis records in the profile do not reach
the profile task-generate keeps. There is no run for it: it is wrong for a single
request, in no particular order of steps.

Properties that exempt what the code cannot keep say that nothing *else* goes wrong,
and no more: `WeakTagsHaveStats` (`torn`), `TimesAreSet` (`leaked`), `UsedTagsKept`
and `ProgressMirrored` (an overlapping or unfinished handler), `SerialMergesExact`
(overlapping merges), `DeletedIsSettled` and `EveryJobEnds` (`Spoilt`), `ReportsForward`
(jobs two workers had, documents past their TTL).
The hazards they are listed for carry a note.

## 4. Proofs

| theorem | says, for every value of the constants |
|---|---|
| `TaskQueueProofs!TypeCorrect` | `TypeOK` of the task queue |
| `TaskQueueProofs!HandledAtMostOnce` | `HandledOnce`: at most one row and one webhook event per task |
| `TaskQueueProofs!OwnerIsKept` | `OwnerKept`: the status document names its owner, unless a TTL lost it |
| `TaskQueueProofs!StatusIsForward` | `StatusForward`, an action property |
| `TaskOutcomeProofs!OutputsAlwaysAgree` | `OutputsAgree`: row, result and webhook are of one inference |
| `TaskOutcomeProofs!LifecycleImplemented` | `ImplementsLifecycle`, while no document expires (`~Expiring`) |
| `TaskOutcomeProofs!NothingAckedUnsettled` | `AckedIsSettled` |
| `TaskOutcomeProofs!OneBatchPerCrash` | `CrashStrandsOneBatch`, for any batch size and number of crashes |
| `TaskOutcomeProofs!ResultsAddressed` | `AddressedToRequester`, but for the real pipeline, which violates it |
| `TaskOutcomeProofs!PollsShowOwnTask` | `PollShowsOwnTask` |
| `TaskOutcomeProofs!AnswersForward` | `PollsForward`, an action property, while no document expires |
| `WebhookDispatchProofs!TypesProved` | `TypeOK` of the dispatcher, and that a dispatcher in its loop has a delivered entry in hand (`BusyHasEntry`) |
| `WebhookDispatchProofs!NothingVanishesProved` | `NothingVanishes` |
| `WebhookDispatchProofs!DuplicatesExplainedProved` | `DuplicatesExplained` |
| `WebhookDispatchProofs!OneLiveCopyProved` | `OneLiveCopy` |
| `LegacyJobsProofs!TypesProved` | `TypeOK` of the legacy queue, and that a worker in its handler has a message (`BusyHasJob`) |
| `LegacyJobsProofs!DeletedIsSettledProved` | `DeletedIsSettled`, which exempts jobs whose `mark_failed` raised and jobs two workers had at once |
| `LegacyJobsProofs!MergedIsReportedProved` | `MergedIsReported` |
| `LegacyJobsProofs!ReportsForwardProved` | `ReportsForward`, an action property |
| `AccessControlProofs!AccessImplementsRegistry` | `AccessSpec => Spec`: what is proved of `StudentRegistry` holds behind the gate |
| `AccessControlProofs!AccessKeptProved` | `AccessKept` |
| `AccessControlProofs!OneStudentProved` | `OneStudent` |
| `AccessControlProofs!TwoAttemptsSuffice` | `RaceNeverFails`: the last attempt of the loop never raises |
| `AccessControlProofs!UserStudentProved` | `UserIsStudent` |
| `AccessControlProofs!RowsFinalProved` | `RowsFinal` |
| `RateLimitProofs!TimeIsSetProved` | `TimeIsSet` |
| `StudentProfileProofs!TypesProved` | `TypeOK` of the profile |
| `StudentProfileProofs!TimesAreSetProved` | `TimesAreSet`: no key without a time to live after a finished merge; keys of a merge that died (`leaked`) are exempt |
| `StudentProfileProofs!HistoryIsNewestProved` | `HistoryIsNewest`, for any limit |
| `StudentProfileProofs!WeakTagsHaveStatsProved` | `WeakTagsHaveStats` |
| `StudentProfileProofs!SamplesAreRealProved` | `SamplesAreReal` |
| `StudentProfileProofs!SerialMergesExactProved` | `SerialMergesExact` |
| `UserStoreProofs!TypesProved` | `TypeOK` of the legacy user store |
| `UserStoreProofs!UsedTagsKeptProved` | `UsedTagsKept` |
| `UserStoreProofs!ProgressMirroredProved` | `ProgressMirrored` |
| `UserStoreProofs!PagesMissNothingProved` | `PagesMissNothing`, for any page size and history limit |
| `UserStoreProofs!StatsAccountProved` | `StatsAccount` |

The assumptions are the named `ASSUME`s on the constants, which the runs
evaluate. The arguments:

*HandledOnce.* A worker that stores a row or queues an event keeps the property
only if nothing is out for its task yet. `TaskQueueInv` builds that from below:
`TypeInv` (types; a busy worker's position lies in its batch; a handler about to
use a body holds one), `Claims` (a task is on the stream once, because only its
own gateway handler adds it and is past the `XADD` then; the batches of busy
workers are disjoint, because `delivered` only grows), `Outputs` (nothing is out
for an unread entry, for the rest of a batch, for the entry in hand before its
output steps, for a task its gateway still answers itself). `HandledOnceInv` is
proved in lemmas by action: most steps
touch neither claims nor outputs (`SteadyKeeps`); `ReadKeeps`, `NextEntryKeeps`,
`AddKeeps`, `PersistKeeps`, `WebhookKeeps` and `CachedOutputKeeps` are the rest.
Crashes, exceptions and expiry are among the steps, so the theorem holds with
any number of them, any batch size, and every `Kind`.

*StatusForward, OwnerKept.* That a status only moves forward is a matter of who
writes the document when. `StageInv` says what it reads while the gateway is at each
step, while an entry waits (unread, or further on in a batch: `WaitingAt`) and while
a worker is at each step of its handler; and that the ids somebody has read back for
a write are the owner's (`SeenOwners`). It is inductive because a write of one process
cannot disturb what another relies on: `HandledOnceInv` gives that nobody else has the
task in hand (`CurrentAlone`, `BeforeAddAlone`). The steps fall into three kinds, each
with its lemma: a worker goes on with its entry, takes up the next one (`Advance`),
or the gateway goes on. A TTL may end a document at any moment, so each stage allows
"or expired", and a write without ids then finds no owner.

*OutputsAgree.* `AnswerInv` says that there is no result before the step that stores
it, that until its webhook is queued the result is the body in the handler's hand,
and that a row stored earlier is the artefact of that body. Two workers that fill
one cache key cannot break this, since nothing reads a body from the cache twice.

*Refinement.* `StatusMove`, proved of every step from `StageInv`, lists the only ways
a status document changes; each is `Open`, `Finish`, `Fail` or a stutter of
`TaskLifecycle` (`StatusMaps`). A result is stored only when the status is done and
no result is there (`ResultMaps`), an event is queued only when the result is the
body it carries (`HookMaps`).

*Pending lists.* `EntryInv`: what a worker is about to handle is on its own pending
list and on no other, but for an entry whose `XACK` took effect and then raised; a
batch is no longer than `Batch`. `OutcomeStays` is what `AckedIsSettled` rests on:
nobody can take a settled task back to processing, because only the worker with the
entry in hand could, and its entry is still pending. `Stranded` grows only in
`Crash`, by what was left of one batch.

*Addressee.* `AddressInv`: a body in a handler's hand is of the work its task asked
for (a cached body lies under its own work) and, outside the real pipeline, names
its task's student; a body from the cache does because analyze and generate address
it anew, and the mock workers never look at the cache.

*Polling.* A poll changes nothing of the queue, so the invariants above hold with
pollers too (`QueueInvHolds`). The document of the first read names the owner or
nobody (`SnapshotsOwned`), hence only the owner and its platform's key pass the check; what is shown is of
its work by `AddressInv`. `NotAhead`: what a client has seen, and what an outstanding
poll has read, is no further than the status, and a result once shown is there still.
The refinement does the rest: a step of the queue takes no phase back and changes no
answer (`OnlyForward`).

*StudentRegistry.* A commit keeps the answers of the others because its key has
no row yet: `HolderInserts` (an open insert is its request's own, of a key
without a row) and `CommitHolds`. `RaceNeverFails` needs `RaceLeavesRow`: after
a lost race there is a row, so the next `SELECT` ends the call. `UserIsStudent`
needs `KeyUnknown`: nobody touches the row of a user's id before the
registration is committed.

*AccessControl.* Each step of the gate leaves the registry alone and each step
behind it is one of the registry's, which gives the refinement. `AccessKept` needs
that a request waiting before the gate has no lock and no answer, that `Enter`
admits a user's token for its own key only, and that the row of a user's key has
the user's id (`UserIsStudent`, taken from the registry's theorem).

*WebhookDispatch.* `Kept`: what a dispatcher is about to acknowledge has been
answered, or there is a *later* copy on the stream or on a pending list. "Later"
is needed: two dispatchers that acknowledge two copies could otherwise each rely on
the other's. `BatchesApart` and `OneLive`: batches of dispatchers never overlap,
every step makes at most one copy live, and only when the one in hand stops being
so; `LiveIsUnsent` ties that to what the client received.

*LegacyJobs.* `Alone`: while no visibility timeout has doubled a job, its message
is in flight with one worker at most. `HandlersInOrder`: then the document it has
loaded is the one it will write over, so a result stays, and it merges only after
the result is stored. `ReportedFirst`: who is about to merge or to delete has left a
report, or the report has expired since. `MergesBounded`: merges so far and workers that may still
merge are together no more than the deliveries, hence at most one merge each.

*RateLimit.* `TimeIsSet` with the fact that a missing key has no time.

*StudentProfile, history.* `HistoryInv`: the list is the end of what was pushed,
backwards (`Backwards`), and exceeds the limit by no more than the merges between
their `LPUSH` and their `LTRIM`; a merge that trims leaves that set and cuts one entry
at least if the list was too long. `TimesAreSet` is inductive by itself: who
writes a key without a time is on its way to the `EXPIRE`, or is lost and the key is
in `leaked`.

*StudentProfile, weak tags.* `WeakInv` says what a draft promises at each step
(`DraftOK`): once the weak tags are read they have statistics in the hash, once the
statistics are read also in the draft, since the hash loses a tag only by its TTL
(`torn`); a reader reads the two the other way round, so there a tag that gets its
first sample in between counts as torn.

*StudentProfile, samples.* A sum is a cardinality: `Real` says that sum and count of a
sample are the numbers of points and of analyses of one set `P`. `OneMoreSample` adds one
analysis that is not in `P`; the points are disjoint, so `Cardinality` of a product
and of a disjoint union are all that is needed, and no induction over `P`. `SampleInv`
holds that for the hash and for what each merge has in hand between `HGET` and `HSET`,
and that neither contains a merge that has yet to write the tag (`Written`), which is
why no analysis is ever added twice, whoever overwrites whom.

*StudentProfile, serial merges.* `SerialInv`: as long as no merges overlapped and no key
ended in the middle, one merge at most is active (`Alone`), what it has in hand is what
the hash holds (`InHand`), the hash holds all that was written (`KeptExact`), and its
draft agrees with hash and list as far as it is made (`DraftExact`). The document then
agrees as well, and keeps to because its time ends first (`DocFirst`): a merge gives
each other key its time after the document's `SET`.

*UserStore, types.* Whatever the model answers becomes scores of known tags on the scale,
but for a NaN (`AnswerBlock`). A report's last alignment of a tag is a greatest place;
that a set of places has one is `LastPlace`, by the well-foundedness of strict inclusion.

*UserStore, profile.* `UsedInv`: every tag written before a request's `GET` is in
the draft it is about to `SET`, unless lost before; a `SET` is `Stale` for all writes
since that `GET`, and for no others. `MirrorInv` says the same of the weak tags, with one
more thing: the request that wrote the progress has not written the profile yet, and has
the same tags in its draft when it does.

*UserStore, pages.* `PageInv`: what a client must see among the first `offset`
entries, it has seen (`Covered`). A `LPUSH` moves entries down, past the offset at worst, and its
own entry is in nobody's account because the request had not been in any
history before (`FreshInv`); an `LTRIM` cuts the end. An empty page then means that the
list ends at the offset or before it, since the `LLEN` before it promised more.

*UserStore, statistics.* As for the profile, with a NaN in the set making the sum NaN
(`IsSample`, `Spoiled`). The set is all that was merged unless a sample was written over
one not seen (`lossy`), and a part of it otherwise.

Only model-checked: liveness (`EveryTaskSettles`, `PollingLearnsOutcome`,
`EveryEventEnds`, `EveryRequestEnds`, `LimitLifts`, `EveryJobEnds`), which the proof
system does not cover. Every invariant and action property of the passing runs is a theorem;
`OutputsAgree` and the others about the task queue are proved of `TaskQueue` and carry over to
`TaskPolling` because polls change nothing of it.

## 5. Not modelled

Signatures of tokens and of webhooks, schema validation, URL rules of webhooks,
cache key hashing, the models and the text they produce (`score_to_difficulty`
included), the database engine and its pool, health checks, deployment, and in
the legacy architecture its auth service (replaced by the gateway's), the archive
in S3, and the TTL of the user store (off by default). Reads that change nothing
and are one call are left out: the GETs of progress and profile, `get_last_*`, the
two SELECTs of the history endpoint. `PROJECT.json` gives the reason for each. Redis and PostgreSQL do not lose acknowledged writes in
the models.

## 6. Checking

    tlc -config TaskQueue_analyze.cfg MCTaskQueue
    tlapm TaskQueueProofs.tla

Each property of a passing run has a mutant in `PROJECT.json` ("mutants"): a
definition that models code, replaced by a plausible wrong form of it, under
which the run finds the property violated.

## 7. Plan

Done: queue, polling, lifecycle, dispatcher, registry and the gate before it, rate
limit, profile with its reader and TTLs, legacy jobs, legacy user store, and the
proofs above. Next, in this order:

1. what `get_weakest_tags` returns, in both stores, as a lemma about `IsWeakest` (a
   choice of as many tags as the limit allows always exists), so that `Weakest` is
   never stuck;
2. `score_to_difficulty` and the normalisation of tags against reference
   definitions;
3. the generate worker of the legacy queue, with the job read by its status
   endpoint.
