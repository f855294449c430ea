--------------------------- MODULE StudentProfile ---------------------------
(***************************************************************************)
(* The profile of one student in Redis: a list of analyses, a hash with    *)
(* sum and count of the scores of each tag, and a JSON document made from  *)
(* both (gateway/services/student_profile.py).  Pipeline workers merge     *)
(* analyses into it and the profile endpoint reads it; each call to Redis  *)
(* is a step, and nothing locks the profile between them.  The three keys  *)
(* live for ttl_seconds after a merge has set their time, and each is gone *)
(* when its own time is over.                                              *)
(***************************************************************************)
EXTENDS Integers, Sequences, FiniteSets, FiniteSetsExt, SequencesExt

CONSTANTS
  Merges,      \* calls of merge_analysis_into_student_profile
  Readers,     \* calls of get_student_profile
  Tags,
  AnalysisOf,  \* [Merges -> [explicit, score, tags]], what the model returned
  None, Bad,   \* a missing field; a value float() refuses
  HistoryMax,  \* HISTORY_MAX
  WeakLimit,   \* the limit given to get_weakest_tags, 3 in the code
  MaxFaults    \* bound on merges left in the middle

ASSUME AbsentAssumption == None # Bad /\ {None, Bad} \cap Int = {} /\ Merges \cap Readers = {}
\* A score is a number or of no use, in the answer as a whole and for each tag.
ASSUME AnalysisAssumption ==
  \A m \in Merges : LET A == AnalysisOf[m] IN
    /\ A.tags \subseteq Tags /\ A.score \in Int \cup {None, Bad}
    /\ DOMAIN A.explicit \subseteq Tags
    /\ \A t \in DOMAIN A.explicit : A.explicit[t] \in Int \cup {Bad}
ASSUME BoundAssumption ==
  HistoryMax \in Nat \ {0} /\ WeakLimit \in Nat /\ MaxFaults \in Nat

VARIABLES
  history,   \* the list, newest first
  stats,     \* [Tags -> samples], the hash; Nothing for a missing field
  doc,       \* the profile document, NoDoc when there is none
  expiring,  \* the keys that have a time to live, by the end of it
  pc,        \* [Merges \cup Readers -> steps], the call to Redis that is next
  mem,       \* [Merges \cup Readers -> locals]
  pushed,    \* the analyses pushed since the list exists, in order
  counted,   \* <<merge, tag>> whose HSET came since the hash exists
  kept,      \* [Tags -> SUBSET Merges], whose scores the hash holds
  overlap,   \* two merges have been in progress at once
  midway,    \* a key has reached its time in the middle of a merge
  leaked,    \* keys a merge was lost with, not given a time since
  faults     \* so far

shared == <<history, stats, doc, expiring>>
past   == <<pushed, counted, kept, overlap, midway, leaked>>
vars   == <<shared, pc, mem, past, faults>>

Keys    == {"list", "hash", "doc"}
Nothing == [sum |-> 0, count |-> 0]
NoStats == [t \in Tags |-> Nothing]
\* torn: the hash reached its time, or got a new tag, between the two reads of
\* it that the document was made from.
NoDoc   == [weak |-> {}, stats |-> NoStats, used |-> {}, history |-> <<>>, torn |-> FALSE]
NoMem   == [todo |-> {}, at |-> None, prev |-> Nothing, had |-> {}, draft |-> NoDoc]

\* Mutant of MergeOrder: the statistics of the document are read before the
\* loop over the tags.
StatsFirst ==
  [push |-> "trim", trim |-> "allstats", allstats |-> "hget", hget |-> "hset",
   hset |-> "weakest", weakest |-> "getdoc", getdoc |-> "lrange",
   lrange |-> "set", set |-> "expirehash", expirehash |-> "expirelist",
   expirelist |-> "done"]

\* Mutant of MergeOrder: the hash and the list get their time at the beginning.
ExpireFirst ==
  [push |-> "trim", trim |-> "expirehash", expirehash |-> "expirelist",
   expirelist |-> "hget", hget |-> "hset", hset |-> "weakest",
   weakest |-> "getdoc", getdoc |-> "allstats", allstats |-> "lrange",
   lrange |-> "set", set |-> "done"]

\* The calls to Redis in their order; hget and hset repeat for every tag.
MergeOrder ==
  [push |-> "trim", trim |-> "hget", hget |-> "hset", hset |-> "weakest",
   weakest |-> "getdoc", getdoc |-> "allstats", allstats |-> "lrange",
   lrange |-> "set", set |-> "expirehash", expirehash |-> "expirelist",
   expirelist |-> "done"]

-----------------------------------------------------------------------------
(* Pure parts.                                                             *)

MinScore == 1
MaxScore == 10

\* Mutant of ClampScore: the score of the model is taken as it is.
NotClamped(x) == x

ClampScore(x) == Max({MinScore, Min({MaxScore, x})})

\* The scores the model gives, or else its overall score, or else 5, for each
\* of the tags it names.
TagScores(a) ==
  LET given == {t \in DOMAIN a.explicit : a.explicit[t] # Bad} IN
  IF given # {}
  THEN [t \in given |-> ClampScore(a.explicit[t])]
  ELSE [t \in a.tags |-> IF a.score \in {None, Bad} THEN 5 ELSE ClampScore(a.score)]

ScoresOf(m) == TagScores(AnalysisOf[m])

MergeSample(p, x) == [sum |-> p.sum + x, count |-> p.count + 1]

Sampled(s) == {t \in Tags : s[t].count > 0}

\* The tags with the lowest means (get_weakest_tags): no tag left out has
\* a lower mean than one taken; ties are as the hash orders them.
IsWeakest(s, W) ==
  /\ W \subseteq Sampled(s)
  /\ Cardinality(W) = Min({WeakLimit, Cardinality(Sampled(s))})
  /\ \A t \in W, u \in Sampled(s) \ W : s[t].sum * s[u].count <= s[u].sum * s[t].count

Newest == SubSeq(history, 1, Min({HistoryMax, Len(history)}))

-----------------------------------------------------------------------------
(* Actions.                                                                *)

\* An analysis without tags merges nothing.
Init ==
  /\ history = <<>> /\ stats = NoStats /\ doc = NoDoc /\ expiring = <<>>
  /\ pc = [p \in Merges \cup Readers |->
             IF p \in Readers THEN "get" ELSE IF DOMAIN ScoresOf(p) = {} THEN "done" ELSE "push"]
  /\ mem = [p \in Merges \cup Readers |-> NoMem]
  /\ pushed = <<>> /\ counted = {} /\ kept = [t \in Tags |-> {}]
  /\ overlap = FALSE /\ midway = FALSE /\ leaked = {} /\ faults = 0

Goto(p, s) == pc' = [pc EXCEPT ![p] = s]
Step(m, s) == m \in Merges /\ pc[m] = s /\ Goto(m, MergeOrder[s])
Remember(p, x) == mem' = [mem EXCEPT ![p] = x]
Active(m)  == pc[m] \notin {"push", "done", "lost"}
Idle       == \A m \in Merges : ~Active(m)

Push(m) ==
  /\ Step(m, "push")
  /\ history' = <<m>> \o history
  /\ pushed' = Append(pushed, m)
  /\ overlap' = (overlap \/ ~Idle)
  /\ Remember(m, [NoMem EXCEPT !.todo = DOMAIN ScoresOf(m)])
  /\ UNCHANGED <<stats, doc, expiring, counted, kept, midway, leaked, faults>>

\* Mutant of Kept: LTRIM's last index is taken for a length.
KeptOneMore == HistoryMax + 1

\* LTRIM 0 .. HISTORY_MAX - 1 keeps that many.
Kept == HistoryMax

Trim(m) ==
  /\ Step(m, "trim")
  /\ history' = SubSeq(history, 1, Min({Kept, Len(history)}))
  /\ UNCHANGED <<stats, doc, expiring, mem, past, faults>>

HGet(m) ==
  /\ Step(m, "hget")
  /\ \E t \in mem[m].todo :
       Remember(m, [mem[m] EXCEPT !.at = t, !.prev = stats[t], !.had = kept[t]])
  /\ UNCHANGED <<shared, past, faults>>

\* Between the two reads of the hash: of a merge for its document, of a reader
\* for its answer.
BetweenReads(p) == pc[p] \in {"getdoc", "allstats", "readlist", "readweak"}
Torn(P) ==
  [p \in DOMAIN mem |-> IF p \in P THEN [mem[p] EXCEPT !.draft.torn = TRUE] ELSE mem[p]]

\* The sample goes back with the score added; then the next tag.
HSet(m) ==
  LET t == mem[m].at
      fresh == {p \in Readers : BetweenReads(p) /\ stats[t] = Nothing}
  IN
  /\ m \in Merges /\ pc[m] = "hset"
  /\ stats' = [stats EXCEPT ![t] = MergeSample(mem[m].prev, ScoresOf(m)[t])]
  /\ kept' = [kept EXCEPT ![t] = mem[m].had \cup {m}]
  /\ counted' = counted \cup {<<m, t>>}
  /\ mem' = [Torn(fresh) EXCEPT ![m] =
               [mem[m] EXCEPT !.todo = @ \ {t}, !.at = None, !.prev = Nothing, !.had = {}]]
  /\ Goto(m, IF mem[m].todo = {t} THEN MergeOrder.hset ELSE "hget")
  /\ UNCHANGED <<history, doc, expiring, pushed, overlap, midway, leaked, faults>>

Weakest(m) ==
  /\ Step(m, "weakest")
  /\ \E W \in SUBSET Tags :
       IsWeakest(stats, W) /\ Remember(m, [mem[m] EXCEPT !.draft.weak = W])
  /\ UNCHANGED <<shared, past, faults>>

\* The tags used before and those of this analysis.
GetDoc(m) ==
  /\ Step(m, "getdoc")
  /\ Remember(m, [mem[m] EXCEPT !.draft.used = doc.used \cup DOMAIN ScoresOf(m)])
  /\ UNCHANGED <<shared, past, faults>>

AllStats(m) ==
  /\ Step(m, "allstats")
  /\ Remember(m, [mem[m] EXCEPT !.draft.stats = stats])
  /\ UNCHANGED <<shared, past, faults>>

LRange(m) ==
  /\ Step(m, "lrange")
  /\ Remember(m, [mem[m] EXCEPT !.draft.history = Newest])
  /\ UNCHANGED <<shared, past, faults>>

\* The key's time begins anew: it ends after that of every other key.
Timed(k) == Append(RemoveFirst(expiring, k), k)

\* SET with EX.
SetDoc(m) ==
  /\ Step(m, "set")
  /\ doc' = mem[m].draft
  /\ expiring' = Timed("doc")
  /\ Remember(m, NoMem)
  /\ UNCHANGED <<history, stats, past, faults>>

\* EXPIRE does nothing to a key that is gone.
ExpireKey(m, s, k, exists) ==
  /\ Step(m, s)
  /\ expiring' = IF exists THEN Timed(k) ELSE expiring
  /\ leaked' = leaked \ {k}
  /\ UNCHANGED <<history, stats, doc, mem, pushed, counted, kept, overlap, midway, faults>>

ExpireHash(m) == ExpireKey(m, "expirehash", "hash", stats # NoStats)
ExpireList(m) == ExpireKey(m, "expirelist", "list", history # <<>>)

\* The key whose time ends first is gone; HSET and LPUSH make a new one.
TimeOver ==
  /\ expiring # <<>>
  /\ expiring' = Tail(expiring)
  /\ midway' = (midway \/ ~Idle)
  /\ LET k == Head(expiring) IN
     /\ history' = IF k = "list" THEN <<>> ELSE history
     /\ pushed'  = IF k = "list" THEN <<>> ELSE pushed
     /\ stats'   = IF k = "hash" THEN NoStats ELSE stats
     /\ counted' = IF k = "hash" THEN {} ELSE counted
     /\ kept'    = IF k = "hash" THEN [t \in Tags |-> {}] ELSE kept
     /\ doc'     = IF k = "doc" THEN NoDoc ELSE doc
     /\ mem'     = IF k = "hash" THEN Torn({p \in DOMAIN mem : BetweenReads(p)}) ELSE mem
  /\ UNCHANGED <<pc, overlap, leaked, faults>>

\* Redis raises or the worker dies in the middle of a merge.
Lose(m) ==
  /\ m \in Merges /\ Active(m)
  /\ faults < MaxFaults
  /\ faults' = faults + 1
  /\ leaked' = leaked \cup {"list", "hash"}
  /\ Goto(m, "lost")
  /\ UNCHANGED <<shared, mem, pushed, counted, kept, overlap, midway>>

\* get_student_profile: the document, or else an answer made from the hash,
\* the list and the hash again; none of them, no profile.
ReadDoc(r) ==
  /\ pc[r] = "get"
  /\ \/ doc # NoDoc /\ Remember(r, [NoMem EXCEPT !.draft = doc]) /\ Goto(r, "answered")
     \/ doc = NoDoc /\ UNCHANGED mem /\ Goto(r, "readhash")
  /\ UNCHANGED <<shared, past, faults>>

ReadHash(r) ==
  /\ pc[r] = "readhash"
  /\ Remember(r, [mem[r] EXCEPT !.draft.stats = stats])
  /\ Goto(r, "readlist")
  /\ UNCHANGED <<shared, past, faults>>

ReadList(r) ==
  /\ pc[r] = "readlist"
  /\ Remember(r, [mem[r] EXCEPT !.draft.history = Newest])
  /\ Goto(r, IF mem[r].draft.stats = NoStats /\ history = <<>> THEN "none" ELSE "readweak")
  /\ UNCHANGED <<shared, past, faults>>

ReadWeak(r) ==
  /\ pc[r] = "readweak"
  /\ \E W \in SUBSET Tags :
       IsWeakest(stats, W) /\ Remember(r, [mem[r] EXCEPT !.draft.weak = W])
  /\ Goto(r, "answered")
  /\ UNCHANGED <<shared, past, faults>>

Merge(m) ==
  \/ Push(m) \/ Trim(m) \/ HGet(m) \/ HSet(m) \/ Weakest(m) \/ GetDoc(m) \/ AllStats(m)
  \/ LRange(m) \/ SetDoc(m) \/ ExpireHash(m) \/ ExpireList(m)

Read(r) == ReadDoc(r) \/ ReadHash(r) \/ ReadList(r) \/ ReadWeak(r)

Next ==
  \/ \E m \in Merges : Merge(m) \/ Lose(m)
  \/ \E r \in Readers : Read(r)
  \/ TimeOver

Spec == Init /\ [][Next]_vars

-----------------------------------------------------------------------------
(* Properties.                                                             *)

\* Merges that do not overlap lose nothing: every analysis since the hash
\* exists counts once for each of its tags, also after a merge that was left in
\* the middle, and the document of a finished merge is what the hash and the
\* list say.  A key that reaches its time in the middle of a merge is the
\* exception: the HSET or SET that follows brings back what was read before.
SerialMergesExact ==
  ~overlap /\ ~midway =>
    /\ \A t \in Tags : kept[t] = {m \in Merges : <<m, t>> \in counted}
    /\ doc # NoDoc /\ (\A m \in Merges : pc[m] \in {"push", "done"}) =>
         /\ doc.stats = stats /\ doc.history = history
         /\ IsWeakest(stats, doc.weak)

\* The points analyses P give tag t, each by itself: there are as many as their
\* scores add up to.
Points(t, P) == UNION {{m} \X (1 .. ScoresOf(m)[t]) : m \in P}

\* However merges overlap and keys expire, a tag's sum and count are those of a
\* set of analyses, each counted once and within the scale of scores, and the
\* newest of them is the last that wrote.
SamplesAreReal ==
  \A t \in Tags :
    /\ stats[t].count = Cardinality(kept[t])
    /\ stats[t].sum = Cardinality(Points(t, kept[t]))
    /\ stats[t].sum \in MinScore * stats[t].count .. MaxScore * stats[t].count
    /\ stats[t] # Nothing <=> \E m \in Merges : <<m, t>> \in counted

\* The list holds the newest analyses in the order they came, at most
\* HISTORY_MAX of them beside those of merges that have not trimmed it yet, and
\* no concurrent LTRIM cuts off one that belongs to the newest.
HistoryIsNewest ==
  LET untrimmed == {m \in Merges : pc[m] \in {"trim", "lost"}} IN
  /\ \A i \in 1 .. Len(history) : history[i] = pushed[Len(pushed) + 1 - i]
  /\ Len(history) >= Min({HistoryMax, Len(pushed)})
  /\ Len(history) <= HistoryMax + Cardinality(untrimmed)

\* The weak tags a document or an answer names have statistics in it, although
\* the two are read from the hash at different times: a new tag or the end of
\* the hash's time in between is the only way to lose that.
WeakTagsHaveStats ==
  \A d \in {doc} \cup {mem[r].draft : r \in {q \in Readers : pc[q] = "answered"}} :
    d.torn \/ d.weak \subseteq Sampled(d.stats)

\* The key has content but no time to live.
Untimed(k) ==
  /\ \A i \in DOMAIN expiring : expiring[i] # k
  /\ \/ k = "list" /\ history # <<>>
     \/ k = "hash" /\ stats # NoStats
     \/ k = "doc" /\ doc # NoDoc

\* No key stays without a time to live: a merge that is under way gives it one,
\* or a merge was lost and none has come through since.
TimesAreSet ==
  /\ ~Untimed("doc")
  /\ Untimed("hash") /\ "hash" \notin leaked =>
       \E m \in Merges : Active(m) /\ pc[m] # "expirelist"
  /\ Untimed("list") /\ "list" \notin leaked => ~Idle
=============================================================================
