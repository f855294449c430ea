----------------------------- MODULE UserStore -----------------------------
(***************************************************************************)
(* What one Redis server of the services under legacy/ keeps of one user   *)
(* (edu_ml/redis_store.py): the histories of analyses and tasks, a hash    *)
(* with sum and count of the scores of each tag, a progress document the   *)
(* client writes, and a profile document.  The handlers of the services    *)
(* connected to it change them at the same time: each call to Redis is a   *)
(* step, and nothing is locked between them.                               *)
(*                                                                         *)
(* The deployments give code-analyze (with its queue worker) and           *)
(* task-generate a server each, so neither sees what the other has stored; *)
(* no request uses both.  Served says which handlers share a server.       *)
(*                                                                         *)
(* The model is loaded before the first request (preload_model), no TTL is *)
(* set (redis_ttl_seconds), and each request names its user.               *)
(***************************************************************************)
EXTENDS Integers, Sequences, FiniteSets, FiniteSetsExt, SequencesExt

CONSTANTS
  Served,       \* sets of handlers, each with one Redis server
  Requests,     \* requests of the user, and jobs of the queue
  Tags,
  NaN, Bad,     \* a float NaN; a value float() refuses
  Completions,  \* what the model may answer to an analysis
  Patches,      \* bodies of PUT /v1/user/profile
  None,         \* a missing field, report or document
  Earlier,      \* the analyses in the history at the beginning, newest first
  HistoryMax,   \* user_history_max, 0 for no limit
  TagLimit,     \* k of get_weakest_tags and of normalize_three_tags, 3
  PageLimit,    \* limit of a page of a history
  MaxFaults     \* bound on requests that end in the middle

\* The calls to Redis of each handler, each with the one that comes next; hget
\* and hset repeat for every tag, llen and lrange for every page.
Analyze ==
  [begin |-> "infer", infer |-> "push", push |-> "trim", trim |-> "hget",
   hget |-> "hset", hset |-> "get", get |-> "set", set |-> "done"]
QueueMerge   == [begin |-> "infer", infer |-> "hget", hget |-> "hset", hset |-> "done"]
GenerateTask ==
  [begin |-> "infer", infer |-> "push", push |-> "trim", trim |-> "get",
   get |-> "set", set |-> "done"]
FromProgress ==
  [begin |-> "getprogress", getprogress |-> "weakest", weakest |-> "push",
   push |-> "trim", trim |-> "get", get |-> "set", set |-> "done"]
PutProgress  == [begin |-> "setprogress", setprogress |-> "get", get |-> "set", set |-> "done"]
PutProfile   == [begin |-> "get", get |-> "set", set |-> "done"]
AnalyzeHistory == [begin |-> "llen", llen |-> "lrange", lrange |-> "llen"]
TaskHistory    == [begin |-> "llen", llen |-> "lrange", lrange |-> "llen"]

Route ==
  [analyze |-> Analyze, queued |-> QueueMerge, generate |-> GenerateTask,
   from_progress |-> FromProgress, progress |-> PutProgress, patch |-> PutProfile,
   analyze_history |-> AnalyzeHistory, task_history |-> TaskHistory]

\* REDIS_URL of each service: the handlers of code-analyze and of task-generate.
AnalyzeHandlers  == {"analyze", "queued", "analyze_history"}
GenerateHandlers == {"generate", "from_progress", "progress", "patch", "task_history"}

ASSUME ServedAssumption == Served \subseteq SUBSET (DOMAIN Route)

ASSUME AbsentAssumption ==
  /\ NaN # Bad /\ {NaN, Bad} \cap Int = {}
  /\ None \notin Requests /\ Earlier \in Seq(ToSet(Earlier))
  /\ ToSet(Earlier) \cap Requests = {}

\* The tags a block of scores names, each with a number or something else.
IsBlock(b) == DOMAIN b \subseteq Tags /\ \A t \in DOMAIN b : b[t] \in Int \cup {NaN, Bad}

ASSUME InputAssumption ==
  /\ \A c \in Completions :
       /\ c.report # None =>
            /\ Len(c.report.alignments) \in Nat /\ Len(c.report.blocks) \in Nat
            /\ \A i \in 1 .. Len(c.report.alignments) : IsBlock(c.report.alignments[i])
            /\ \A i \in 1 .. Len(c.report.blocks) : IsBlock(c.report.blocks[i])
       /\ c.flat # None => IsBlock(c.flat)
  /\ \A p \in Patches : \A f \in {"weak", "tags", "used"} :
       p[f] # None => p[f] \subseteq Tags
ASSUME BoundAssumption ==
  /\ HistoryMax \in Nat /\ MaxFaults \in Nat
  /\ TagLimit \in Nat \ {0} /\ PageLimit \in Nat \ {0}

VARIABLES
  hist,      \* [{"analyze", "task"} -> Seq(Requests or Earlier)], newest first
  stats,     \* [Tags -> samples], the hash; Nothing for a missing field
  progress,  \* the weak tags of the progress document, or None
  profile,   \* the profile document
  kind,      \* [Requests -> DOMAIN Route], handlers of one server; never changes
  pc,        \* [Requests -> steps], the call to Redis that comes next
  mem,       \* [Requests -> locals of the handler]
  writes,    \* the SETs of the profile so far
  latest,    \* the request that wrote the progress document
  lossy,     \* tags whose sample was written over one not seen
  faults     \* so far

shared == <<hist, stats, progress, profile>>
past   == <<writes, latest, lossy>>
vars   == <<shared, kind, pc, mem, past, faults>>

Nothing == [sum |-> 0, count |-> 0]
NoDoc   == [weak |-> None, tags |-> None, used |-> {}]

Pages      == {"analyze_history", "task_history"}
ListOf(r)  == IF kind[r] \in {"analyze", "analyze_history"} THEN "analyze" ELSE "task"

\* tags: what the request records; at, todo, prev: the loop over the scores;
\* draft, base: the profile it will SET and the number of SETs when it read
\* it; total, offset, seen, owed: the pages so far, and the entries there were
\* at the first; was: the progress read.
NoMem ==
  [tags |-> {}, scores |-> <<>>, at |-> None, todo |-> {}, prev |-> Nothing,
   draft |-> NoDoc, base |-> 0, setsWeak |-> FALSE, total |-> 0, offset |-> 0,
   seen |-> {}, owed |-> {}, was |-> None]

Init ==
  /\ hist = [analyze |-> Earlier, task |-> <<>>]
  /\ stats = [t \in Tags |-> Nothing] /\ progress = None /\ profile = NoDoc
  /\ \E S \in Served : kind \in [Requests -> S]
  /\ pc = [r \in Requests |-> Route[kind[r]].begin]
  /\ mem = [r \in Requests |-> NoMem]
  /\ writes = <<>> /\ latest = None /\ lossy = {} /\ faults = 0

-----------------------------------------------------------------------------
(* Scores.  A block of scores is a function from the tags it names to raw  *)
(* values.  A completion is [report, flat]: report, when the answer has a  *)
(* readable EDU_REPORT_JSON, holds the tag_alignment blocks in the order   *)
(* they are read and the blocks under the other keys; flat is the block    *)
(* after EDU_TAG_SCORES_JSON.  Either may be None.                         *)

MinScore == 1
MaxScore == 10

\* A NaN is neither below the scale nor above it and stays.
Clamp(x) == IF x = NaN THEN NaN ELSE Max({MinScore, Min({MaxScore, x})})

Scores(block) ==
  [t \in {u \in DOMAIN block : block[u] # Bad} |-> Clamp(block[t])]

\* A later alignment replaces an earlier one of the same tag; without any, the
\* first other block that has a score.
Mastery(report) ==
  LET scored  == [i \in 1 .. Len(report.alignments) |-> Scores(report.alignments[i])]
      last(t) == Max({i \in DOMAIN scored : t \in DOMAIN scored[i]})
      others  == {i \in 1 .. Len(report.blocks) : DOMAIN Scores(report.blocks[i]) # {}}
      aligned == UNION {DOMAIN scored[i] : i \in DOMAIN scored}
  IN  CASE aligned # {} -> [t \in aligned |-> scored[last(t)][t]]
        [] aligned = {} /\ others # {} -> Scores(report.blocks[Min(others)])
        [] OTHER -> <<>>

TagScores(c) ==
  CASE c.report # None -> Mastery(c.report)
    [] c.report = None /\ c.flat # None -> Scores(c.flat)
    [] OTHER -> <<>>

Plus(x, y) == IF NaN \in {x, y} THEN NaN ELSE x + y

\* Mutant of MergeSample: a blob with a NaN counts as one that cannot be read.
RestartAtNaN(p, x) ==
  IF p.sum = NaN THEN [sum |-> x, count |-> 1] ELSE [sum |-> Plus(p.sum, x), count |-> p.count + 1]

MergeSample(p, x) == [sum |-> Plus(p.sum, x), count |-> p.count + 1]

Sampled == {t \in Tags : stats[t].count > 0}

\* As many as the limit allows, none left out with a lower mean; a mean that
\* is NaN leaves the order of the sort open.
IsWeakest(W) ==
  /\ W \subseteq Sampled
  /\ Cardinality(W) = Min({TagLimit, Cardinality(Sampled)})
  /\ (\A t \in Sampled : stats[t].sum # NaN) =>
       \A t \in W, u \in Sampled \ W :
         stats[t].sum * stats[u].count <= stats[u].sum * stats[t].count

-----------------------------------------------------------------------------
(* Actions.                                                                *)

Goto(r, s) == pc' = [pc EXCEPT ![r] = s]
After(r)   == Route[kind[r]][pc[r]]
Remember(r, m) == mem' = [mem EXCEPT ![r] = m]
TagLists    == (SUBSET Tags) \ {{}}

\* The first three of the tags, in the order the client gave them.
FirstThree(T) == {S \in SUBSET T : Cardinality(S) = Min({TagLimit, Cardinality(T)})}

\* The model answers; an analysis in which it names no score merges nothing.
InferAnalysis(r) ==
  /\ pc[r] = "infer" /\ kind[r] \in {"analyze", "queued"}
  /\ \E c \in Completions :
       LET s == TagScores(c) IN
       /\ Remember(r, [mem[r] EXCEPT !.scores = s, !.todo = DOMAIN s, !.tags = DOMAIN s])
       /\ Goto(r, IF kind[r] = "queued" /\ DOMAIN s = {} THEN "done" ELSE After(r))
  /\ UNCHANGED <<shared, kind, past, faults>>

\* The task is about the three tags of the request, blanks left out.
InferTask(r) ==
  /\ pc[r] = "infer" /\ kind[r] = "generate"
  /\ \E T \in SUBSET Tags : Remember(r, [mem[r] EXCEPT !.tags = T])
  /\ Goto(r, After(r))
  /\ UNCHANGED <<shared, kind, past, faults>>

Push(r) ==
  /\ pc[r] = "push"
  /\ hist' = [hist EXCEPT ![ListOf(r)] = <<r>> \o @]
  /\ Goto(r, After(r))
  /\ UNCHANGED <<stats, progress, profile, kind, mem, past, faults>>

Trim(r) ==
  /\ pc[r] = "trim"
  /\ hist' = [hist EXCEPT ![ListOf(r)] =
                IF HistoryMax > 0 THEN SubSeq(@, 1, Min({HistoryMax, Len(@)})) ELSE @]
  /\ Goto(r, IF mem[r].tags = {} THEN "done" ELSE After(r))
  /\ UNCHANGED <<stats, progress, profile, kind, mem, past, faults>>

HGet(r) ==
  /\ pc[r] = "hget"
  /\ \E t \in mem[r].todo : Remember(r, [mem[r] EXCEPT !.at = t, !.prev = stats[t]])
  /\ Goto(r, After(r))
  /\ UNCHANGED <<shared, kind, past, faults>>

HSet(r) ==
  LET t == mem[r].at IN
  /\ pc[r] = "hset"
  /\ stats' = [stats EXCEPT ![t] = MergeSample(mem[r].prev, mem[r].scores[t])]
  /\ lossy' = IF stats[t] = mem[r].prev THEN lossy ELSE lossy \cup {t}
  /\ Remember(r, [mem[r] EXCEPT !.todo = @ \ {t}, !.at = None, !.prev = Nothing])
  /\ Goto(r, IF mem[r].todo = {t} THEN After(r) ELSE "hget")
  /\ UNCHANGED <<hist, progress, profile, kind, writes, latest, faults>>

SetProgress(r) ==
  /\ pc[r] = "setprogress"
  /\ \E T \in TagLists : \E W \in FirstThree(T) :
       progress' = W /\ Remember(r, [mem[r] EXCEPT !.tags = W])
  /\ latest' = r
  /\ Goto(r, After(r))
  /\ UNCHANGED <<hist, stats, profile, kind, writes, lossy, faults>>

GetProgress(r) ==
  /\ pc[r] = "getprogress"
  /\ Remember(r, [mem[r] EXCEPT !.was = progress])
  /\ Goto(r, After(r))
  /\ UNCHANGED <<shared, kind, past, faults>>

\* The tags with the lowest means on this server; without statistics here those
\* of the progress, as it was read before, and without that 404.
Weakest(r) ==
  /\ pc[r] = "weakest"
  /\ \/ /\ Sampled # {}
        /\ \E W \in SUBSET Tags :
             IsWeakest(W) /\ Remember(r, [mem[r] EXCEPT !.tags = W])
        /\ Goto(r, After(r))
     \/ /\ Sampled = {} /\ mem[r].was # None
        /\ Remember(r, [mem[r] EXCEPT !.tags = mem[r].was])
        /\ Goto(r, After(r))
     \/ /\ Sampled = {} /\ mem[r].was = None
        /\ Goto(r, "notfound") /\ UNCHANGED mem
  /\ UNCHANGED <<shared, kind, past, faults>>

\* Mutant of AddTags: the list is replaced.
OnlyNewTags(used, new) == new

\* dict.fromkeys(old + new): none of the old ones goes.
AddTags(used, new) == used \cup new

OrNone(x) == IF x = None THEN {} ELSE x

\* _record_tags_in_profile
Recorded(d, T) == [d EXCEPT !.used = AddTags(@, T)]

\* Mutant of Synced: weak tags that are there stay.
SyncedOnce(d, W) == [d EXCEPT !.weak = IF @ = None THEN W ELSE @, !.used = AddTags(@, W)]

\* _sync_profile_weak_and_tags_used
Synced(d, W) == [d EXCEPT !.weak = W, !.used = AddTags(@, W)]

\* merge_user_profile: fields the patch has not stay.
Patched(d, p) ==
  LET weak == IF p.weak # None THEN p.weak ELSE d.weak
      tags == IF p.tags # None THEN p.tags ELSE d.tags
  IN  [weak |-> weak, tags |-> tags,
       used |-> AddTags(d.used, OrNone(p.used) \cup OrNone(weak) \cup OrNone(tags))]

\* The GET of the profile, and the document made from what it returns.
Get(r) ==
  LET Draft(d, weakToo, T) ==
        Remember(r, [mem[r] EXCEPT !.draft = d, !.base = Len(writes),
                                   !.setsWeak = weakToo, !.tags = T])
  IN
  /\ pc[r] = "get"
  /\ \/ /\ kind[r] \in {"analyze", "generate", "from_progress"}
        /\ Draft(Recorded(profile, mem[r].tags), FALSE, mem[r].tags)
     \/ /\ kind[r] = "progress"
        /\ Draft(Synced(profile, mem[r].tags), TRUE, mem[r].tags)
     \/ /\ kind[r] = "patch"
        /\ \E p \in Patches :
             Draft(Patched(profile, p), p.weak # None,
                   OrNone(p.weak) \cup OrNone(p.tags) \cup OrNone(p.used))
  /\ Goto(r, After(r))
  /\ UNCHANGED <<shared, kind, past, faults>>

Set(r) ==
  /\ pc[r] = "set"
  /\ profile' = mem[r].draft
  /\ writes' = Append(writes, [by |-> r, base |-> mem[r].base,
                               tags |-> mem[r].tags, setsWeak |-> mem[r].setsWeak])
  /\ Remember(r, [mem[r] EXCEPT !.draft = NoDoc, !.base = 0, !.setsWeak = FALSE])
  /\ Goto(r, After(r))
  /\ UNCHANGED <<hist, stats, progress, kind, latest, lossy, faults>>

\* Mutant of PastEnd: the last entry is taken for the end.
PastLast(offset, total) == offset + 1 >= total

PastEnd(offset, total) == offset >= total

\* A client that reads the pages one after the other until one is empty.
LLen(r) ==
  LET list == hist[ListOf(r)] IN
  /\ pc[r] = "llen"
  /\ Remember(r, [mem[r] EXCEPT !.total = Len(list),
                                !.owed = IF mem[r].offset = 0 THEN ToSet(list) ELSE @])
  /\ Goto(r, IF PastEnd(mem[r].offset, Len(list)) THEN "done" ELSE "lrange")
  /\ UNCHANGED <<shared, kind, past, faults>>

LRange(r) ==
  LET from == mem[r].offset
      n    == Min({PageLimit, mem[r].total - from})
      rows == SubSeq(hist[ListOf(r)], from + 1, Min({from + n, Len(hist[ListOf(r)])}))
  IN
  /\ pc[r] = "lrange"
  /\ Remember(r, [mem[r] EXCEPT !.offset = @ + Len(rows), !.seen = @ \cup ToSet(rows),
                                !.total = 0])
  /\ Goto(r, IF rows = <<>> THEN "done" ELSE "llen")
  /\ UNCHANGED <<shared, kind, past, faults>>

\* Redis raises, or the process dies: the rest of the request is not done.
Fail(r) ==
  /\ pc[r] \notin {"done", "notfound", "failed"}
  /\ faults < MaxFaults
  /\ faults' = faults + 1
  /\ Goto(r, "failed")
  /\ UNCHANGED <<shared, kind, mem, past>>

Next ==
  \E r \in Requests :
    \/ InferAnalysis(r) \/ InferTask(r) \/ Push(r) \/ Trim(r) \/ HGet(r) \/ HSet(r)
    \/ SetProgress(r) \/ GetProgress(r) \/ Weakest(r) \/ Get(r) \/ Set(r) \/ LLen(r) \/ LRange(r)
    \/ Fail(r)

Spec == Init /\ [][Next]_vars

-----------------------------------------------------------------------------
(* Properties.                                                             *)

\* A write that had not read the document as write i left it.
Stale(j, i) == j > i /\ writes[j].base < i

\* A tag that was ever written to all_tags_used is there, unless a handler that
\* read the document before that wrote it back after.
UsedTagsKept ==
  \A i \in DOMAIN writes :
    \/ writes[i].tags \subseteq profile.used
    \/ \E j \in DOMAIN writes : Stale(j, i)

\* The progress and the profile name the same weak tags once the PUT of the
\* progress is over, unless it was left in the middle, another request wrote
\* weak tags after it, or a handler put an older profile back.
ProgressMirrored ==
  \A i \in DOMAIN writes :
    writes[i].by = latest =>
      \/ profile.weak = progress
      \/ \E j \in DOMAIN writes : Stale(j, i) \/ (j > i /\ writes[j].setsWeak)

\* Reading a history page by page while entries are added and trimmed misses
\* none that was there at the first page and still is: LLEN and LRANGE are two
\* calls, and every new entry moves the offsets.
PagesMissNothing ==
  \A r \in Requests :
    kind[r] \in Pages /\ pc[r] = "done" =>
      mem[r].owed \cap ToSet(hist[ListOf(r)]) \subseteq mem[r].seen

\* The requests whose score for t is merged.
Merged(t) == {r \in Requests : t \in DOMAIN mem[r].scores \ mem[r].todo}

\* The points the requests R give tag t, each by itself: there are as many as
\* their scores add up to.
Points(t, R) == UNION {{r} \X (1 .. mem[r].scores[t]) : r \in R}

\* The statistics of a tag count every merged score once, of analyses and of
\* queue jobs, and its sum is NaN for good once one of them is; merges of the
\* same tag that overlap lose scores but invent none.
StatsAccount ==
  \A t \in Tags :
    LET values == {mem[r].scores[t] : r \in Merged(t)} IN
    /\ stats[t].count <= Cardinality(Merged(t))
    /\ Merged(t) # {} => stats[t].count > 0
    /\ stats[t].sum = NaN \/ stats[t].sum \in MinScore * stats[t].count .. MaxScore * stats[t].count
    /\ stats[t].sum = NaN => NaN \in values
    /\ t \notin lossy =>
         /\ stats[t].count = Cardinality(Merged(t))
         /\ stats[t].sum = IF NaN \in values THEN NaN ELSE Cardinality(Points(t, Merged(t)))
=============================================================================
