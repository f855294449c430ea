-------------------------- MODULE UserStoreProofs --------------------------
(***************************************************************************)
(* Proofs about UserStore, for any number of requests of any kinds, any    *)
(* tags, answers of the model and bodies of requests, any limits, with     *)
(* requests that end in the middle.                                        *)
(***************************************************************************)
EXTENDS UserStore, FiniteSetTheorems, WellFoundedInduction, TLAPS

-----------------------------------------------------------------------------
(* Operators.                                                              *)

\* The lesser of two numbers.
LEMMA MinOfTwo ==
  ASSUME NEW x \in Int, NEW y \in Int
  PROVE  Min({x, y}) = IF x <= y THEN x ELSE y
<1>1. \E z \in {x, y} : \A u \in {x, y} : z <= u
  OBVIOUS
<1> QED
  BY <1>1 DEF Min

\* The greater of two numbers.
LEMMA MaxOfTwo ==
  ASSUME NEW x \in Int, NEW y \in Int
  PROVE  Max({x, y}) = IF x >= y THEN x ELSE y
<1>1. \E z \in {x, y} : \A u \in {x, y} : z >= u
  OBVIOUS
<1> QED
  BY <1>1 DEF Max

\* Of some of the places of a list one is the last.
LEMMA LastPlace ==
  ASSUME NEW n \in Nat, NEW S, S \subseteq 1 .. n, S # {}
  PROVE  Max(S) \in S
<1> DEFINE T == {i .. n : i \in S}
<1>1. T \subseteq FiniteSubsetsOf(1 .. n) /\ T # {}
  <2>1. \A i \in S : i .. n \subseteq 1 .. n /\ IsFiniteSet(i .. n)
    BY FS_Interval
  <2> QED
    BY <2>1 DEF FiniteSubsetsOf
<1> HIDE DEF T
<1>2. PICK X \in T : \A Y \in T : <<Y, X>> \notin StrictSubsetOrdering(1 .. n)
  BY <1>1, FS_StrictSubsetOrderingWellFounded, WFMin
<1>3. PICK i \in S : X = i .. n
  BY <1>2 DEF T
<1>4. ASSUME NEW y \in S, y > i PROVE FALSE
  <2>1. y .. n \in T
    BY DEF T
  <2>2. y .. n \subseteq i .. n /\ y .. n # i .. n
    BY <1>4
  <2> QED
    BY <1>1, <1>2, <1>3, <2>1, <2>2 DEF StrictSubsetOrdering, FiniteSubsetsOf
<1>5. \A y \in S : i >= y
  BY <1>4
<1> QED
  BY <1>5 DEF Max

\* And one is the first.
LEMMA FirstPlace ==
  ASSUME NEW n \in Nat, NEW S, S \subseteq 1 .. n, S # {}
  PROVE  Min(S) \in S
<1> DEFINE T == {1 .. i : i \in S}
<1>1. T \subseteq FiniteSubsetsOf(1 .. n) /\ T # {}
  <2>1. \A i \in S : 1 .. i \subseteq 1 .. n /\ IsFiniteSet(1 .. i)
    BY FS_Interval
  <2> QED
    BY <2>1 DEF FiniteSubsetsOf
<1> HIDE DEF T
<1>2. PICK X \in T : \A Y \in T : <<Y, X>> \notin StrictSubsetOrdering(1 .. n)
  BY <1>1, FS_StrictSubsetOrderingWellFounded, WFMin
<1>3. PICK i \in S : X = 1 .. i
  BY <1>2 DEF T
<1>4. ASSUME NEW y \in S, y < i PROVE FALSE
  <2>1. 1 .. y \in T
    BY DEF T
  <2>2. 1 .. y \subseteq 1 .. i /\ 1 .. y # 1 .. i
    BY <1>4
  <2> QED
    BY <1>1, <1>2, <1>3, <2>1, <2>2 DEF StrictSubsetOrdering, FiniteSubsetsOf
<1>5. \A y \in S : i <= y
  BY <1>4
<1> QED
  BY <1>5 DEF Min

\* A score of the scale, or a NaN.
Values == (MinScore .. MaxScore) \cup {NaN}

\* Scores of some of the tags.
Blocks == UNION {[S -> Values] : S \in SUBSET Tags}

\* clamp_tag_score gives a score of the scale, but for a NaN.
LEMMA ClampInScale ==
  ASSUME NEW x \in Int \cup {NaN}
  PROVE  Clamp(x) \in Values
<1>1. CASE x = NaN
  BY <1>1 DEF Clamp, Values
<1>2. CASE x # NaN
  <2>1. Min({MaxScore, x}) \in Int /\ Min({MaxScore, x}) <= 10
    BY <1>2, MinOfTwo DEF MaxScore
  <2>2. Max({MinScore, Min({MaxScore, x})}) \in MinScore .. MaxScore
    BY <2>1, MaxOfTwo DEF MinScore, MaxScore
  <2> QED
    BY <1>2, <2>2 DEF Clamp, Values
<1> QED
  BY <1>1, <1>2

\* What is left of one block of a report.
LEMMA ScoresBlock ==
  ASSUME NEW b, IsBlock(b)
  PROVE  Scores(b) \in Blocks
<1> DEFINE S == {u \in DOMAIN b : b[u] # Bad}
<1>1. S \in SUBSET Tags /\ \A t \in S : b[t] \in Int \cup {NaN}
  BY DEF IsBlock
<1>2. \A t \in S : Clamp(b[t]) \in Values
  BY <1>1, ClampInScale
<1>3. [t \in S |-> Clamp(b[t])] \in [S -> Values]
  BY <1>2
<1>4. Scores(b) \in [S -> Values]
  BY <1>3 DEF Scores
<1> HIDE DEF S
<1> QED
  BY <1>1, <1>4 DEF Blocks

\* No scores are a block, too.
LEMMA NoScores == <<>> \in Blocks /\ DOMAIN <<>> = {}
<1>1. <<>> \in [{} -> Values]
  OBVIOUS
<1> QED
  BY <1>1 DEF Blocks

\* The domain of a block and its values.
LEMMA BlockFacts ==
  ASSUME NEW b \in Blocks
  PROVE  DOMAIN b \subseteq Tags /\ \A t \in DOMAIN b : b[t] \in Values
BY DEF Blocks

\* What a report says: the last alignment of each tag, or the first other
\* block with a score.
LEMMA MasteryBlock ==
  ASSUME NEW c \in Completions, c.report # None
  PROVE  Mastery(c.report) \in Blocks
<1> DEFINE al == c.report.alignments
           bl == c.report.blocks
           scored == [i \in 1 .. Len(al) |-> Scores(al[i])]
           last(t) == Max({i \in DOMAIN scored : t \in DOMAIN scored[i]})
           others == {i \in 1 .. Len(bl) : DOMAIN Scores(bl[i]) # {}}
           aligned == UNION {DOMAIN scored[i] : i \in DOMAIN scored}
<1>1. /\ Len(al) \in Nat /\ Len(bl) \in Nat
      /\ \A i \in 1 .. Len(al) : Scores(al[i]) \in Blocks
      /\ \A i \in 1 .. Len(bl) : Scores(bl[i]) \in Blocks
  BY InputAssumption, ScoresBlock
<1>2. CASE aligned # {}
  <2>1. Mastery(c.report) = [t \in aligned |-> scored[last(t)][t]]
    BY <1>2 DEF Mastery
  <2>2. DOMAIN scored = 1 .. Len(al) /\ \A i \in DOMAIN scored : scored[i] \in Blocks
    BY <1>1
  <2> HIDE DEF scored
  <2>3. ASSUME NEW t \in aligned
        PROVE  t \in Tags /\ scored[last(t)][t] \in Values
    <3> DEFINE S == {i \in DOMAIN scored : t \in DOMAIN scored[i]}
    <3>1. S # {} /\ S \subseteq 1 .. Len(al)
      BY <2>2
    <3> HIDE DEF S
    <3>2. Max(S) \in S
      BY <1>1, <3>1, LastPlace
    <3>3. last(t) \in DOMAIN scored /\ t \in DOMAIN scored[last(t)]
      BY <3>2 DEF S
    <3> QED
      BY <2>2, <3>3, BlockFacts
  <2> HIDE DEF last, aligned
  <2>4. [t \in aligned |-> scored[last(t)][t]] \in [aligned -> Values] /\ aligned \in SUBSET Tags
    BY <2>3
  <2> QED
    BY <2>1, <2>4 DEF Blocks
<1>3. CASE aligned = {} /\ others # {}
  <2>1. Mastery(c.report) = Scores(bl[Min(others)])
    BY <1>3 DEF Mastery
  <2>2. others \subseteq 1 .. Len(bl)
    OBVIOUS
  <2> HIDE DEF others
  <2>3. Min(others) \in 1 .. Len(bl)
    BY <1>1, <1>3, <2>2, FirstPlace
  <2> QED
    BY <1>1, <2>1, <2>3
<1>4. CASE aligned = {} /\ others = {}
  <2>1. Mastery(c.report) = <<>>
    BY <1>4 DEF Mastery
  <2> QED
    BY <2>1, NoScores
<1> QED
  BY <1>2, <1>3, <1>4

\* Whatever the model answers, its scores are of known tags and on the scale,
\* but for a NaN.
LEMMA AnswerBlock ==
  ASSUME NEW c \in Completions
  PROVE  TagScores(c) \in Blocks
<1>1. CASE c.report # None
  BY <1>1, MasteryBlock DEF TagScores
<1>2. CASE c.report = None /\ c.flat # None
  <2>1. IsBlock(c.flat)
    BY <1>2, InputAssumption
  <2> QED
    BY <1>2, <2>1, ScoresBlock DEF TagScores
<1>3. CASE c.report = None /\ c.flat = None
  BY <1>3, NoScores DEF TagScores
<1> QED
  BY <1>1, <1>2, <1>3
-----------------------------------------------------------------------------
(* Types.                                                                  *)

Samples   == [sum : Nat \cup {NaN}, count : Nat]
MaybeTags == (SUBSET Tags) \cup {None}
Docs      == [weak : MaybeTags, tags : MaybeTags, used : SUBSET Tags]
Entries   == Requests \cup ToSet(Earlier)
Writes    == [by : Requests, base : Nat, tags : SUBSET Tags, setsWeak : BOOLEAN]
Locals    ==
  [tags : SUBSET Tags, scores : Blocks, at : Tags \cup {None}, todo : SUBSET Tags,
   prev : Samples, draft : Docs, base : Nat, setsWeak : BOOLEAN, total : Nat,
   offset : Nat, seen : SUBSET Entries, owed : SUBSET Entries, was : MaybeTags]

\* The requests that make each call to Redis.
Callers ==
  [infer |-> {"analyze", "queued", "generate"},
   push |-> {"analyze", "generate", "from_progress"},
   trim |-> {"analyze", "generate", "from_progress"},
   hget |-> {"analyze", "queued"}, hset |-> {"analyze", "queued"},
   get |-> {"analyze", "generate", "from_progress", "progress", "patch"},
   set |-> {"analyze", "generate", "from_progress", "progress", "patch"},
   setprogress |-> {"progress"},
   getprogress |-> {"from_progress"}, weakest |-> {"from_progress"},
   llen |-> Pages, lrange |-> Pages,
   done |-> DOMAIN Route, failed |-> DOMAIN Route, notfound |-> DOMAIN Route]

SharedTypes ==
  /\ hist \in [{"analyze", "task"} -> Seq(Entries)]
  /\ stats \in [Tags -> Samples] /\ progress \in MaybeTags /\ profile \in Docs
  /\ writes \in Seq(Writes) /\ latest \in Requests \cup {None}
  /\ lossy \subseteq Tags /\ faults \in Nat

StepTypes ==
  /\ DOMAIN pc = Requests /\ kind \in [Requests -> DOMAIN Route]
  /\ \A r \in Requests : pc[r] \in DOMAIN Callers /\ kind[r] \in Callers[pc[r]]

MemTypes ==
  /\ mem \in [Requests -> Locals]
  /\ \A r \in Requests :
       /\ mem[r].todo \subseteq DOMAIN mem[r].scores
       /\ pc[r] = "infer" => mem[r].scores = <<>>
       /\ pc[r] = "hset" => mem[r].at \in mem[r].todo

TypeOK == SharedTypes /\ StepTypes /\ MemTypes

\* The call that comes next, for each kind of request.
LEMMA AfterCall ==
  ASSUME StepTypes, NEW r \in Requests
  PROVE  /\ pc[r] = "infer" =>
              After(r) = IF kind[r] = "queued" THEN "hget" ELSE "push"
         /\ pc[r] = "push" => After(r) = "trim"
         /\ pc[r] = "trim" =>
              After(r) = IF kind[r] = "analyze" THEN "hget" ELSE "get"
         /\ pc[r] = "hget" => After(r) = "hset"
         /\ pc[r] = "hset" =>
              After(r) = IF kind[r] = "analyze" THEN "get" ELSE "done"
         /\ pc[r] = "get" => After(r) = "set"
         /\ pc[r] = "set" => After(r) = "done"
         /\ pc[r] = "setprogress" => After(r) = "get"
         /\ pc[r] = "getprogress" => After(r) = "weakest"
         /\ pc[r] = "weakest" => After(r) = "push"
<1>0. pc[r] \in DOMAIN Callers /\ kind[r] \in Callers[pc[r]] /\ kind[r] \in DOMAIN Route
  BY DEF StepTypes
<1>1. CASE kind[r] = "analyze"
  <2>1. After(r) = Analyze[pc[r]]
    BY <1>1 DEF After, Route
  <2> QED
    BY <1>0, <1>1, <2>1 DEF Analyze, Callers
<1>2. CASE kind[r] = "queued"
  <2>1. After(r) = QueueMerge[pc[r]]
    BY <1>2 DEF After, Route
  <2> QED
    BY <1>0, <1>2, <2>1 DEF QueueMerge, Callers
<1>3. CASE kind[r] = "generate"
  <2>1. After(r) = GenerateTask[pc[r]]
    BY <1>3 DEF After, Route
  <2> QED
    BY <1>0, <1>3, <2>1 DEF GenerateTask, Callers
<1>4. CASE kind[r] = "from_progress"
  <2>1. After(r) = FromProgress[pc[r]]
    BY <1>4 DEF After, Route
  <2> QED
    BY <1>0, <1>4, <2>1 DEF FromProgress, Callers
<1>5. CASE kind[r] = "progress"
  <2>1. After(r) = PutProgress[pc[r]]
    BY <1>5 DEF After, Route
  <2> QED
    BY <1>0, <1>5, <2>1 DEF PutProgress, Callers
<1>6. CASE kind[r] = "patch"
  <2>1. After(r) = PutProfile[pc[r]]
    BY <1>6 DEF After, Route
  <2> QED
    BY <1>0, <1>6, <2>1 DEF PutProfile, Callers
<1>7. CASE kind[r] \in Pages
  <2>1. pc[r] \notin {"infer", "push", "trim", "hget", "hset", "get", "set",
                      "setprogress", "getprogress", "weakest"}
    BY <1>0, <1>7 DEF Callers, Pages
  <2> QED
    BY <2>1
<1>8. kind[r] \in {"analyze", "queued", "generate", "from_progress", "progress", "patch"} \cup Pages
  BY <1>0 DEF Route, Pages
<1> QED
  BY <1>1, <1>2, <1>3, <1>4, <1>5, <1>6, <1>7, <1>8

\* Request r goes from one of the calls X to one of the calls Y.
Moved(r, X, Y) ==
  /\ pc[r] \in X /\ pc'[r] \in Y
  /\ \A q \in Requests \ {r} : pc'[q] = pc[q]

\* A request goes on to a call of its own kind.
LEMMA GotoTypes ==
  ASSUME StepTypes, NEW r \in Requests, NEW x \in DOMAIN Callers, Goto(r, x),
         kind[r] \in Callers[x], UNCHANGED kind
  PROVE  StepTypes' /\ pc'[r] = x /\ \A q \in Requests \ {r} : pc'[q] = pc[q]
<1>1. pc'[r] = x /\ \A q \in Requests \ {r} : pc'[q] = pc[q]
  BY DEF StepTypes, Goto
<1>2. DOMAIN pc' = Requests
  BY DEF StepTypes, Goto
<1>3. Callers' = Callers
  BY DEF Callers, Pages, Route
<1> HIDE DEF Goto
<1>4. ASSUME NEW q \in Requests PROVE pc'[q] \in DOMAIN Callers /\ kind[q] \in Callers[pc'[q]]
  <2>1. CASE q = r
    BY <1>1, <2>1
  <2>2. CASE q # r
    BY <1>1, <2>2 DEF StepTypes
  <2> QED
    BY <2>1, <2>2
<1> QED
  BY <1>1, <1>2, <1>3, <1>4 DEF StepTypes

\* The other requests keep their locals.
Others(r) == \A q \in Requests \ {r} : mem'[q] = mem[q]

\* A request with new locals goes on.
LEMMA Remembered ==
  ASSUME TypeOK, NEW r \in Requests, NEW x \in Locals, Remember(r, x),
         x.todo \subseteq DOMAIN x.scores, pc'[r] # "infer",
         pc'[r] = "hset" => x.at \in x.todo,
         \A q \in Requests \ {r} : pc'[q] = pc[q]
  PROVE  MemTypes' /\ mem'[r] = x /\ Others(r)
<1>1. mem \in [Requests -> Locals]
  BY DEF TypeOK, MemTypes
<1>2. mem' \in [Requests -> Locals] /\ mem'[r] = x /\ \A q \in Requests \ {r} : mem'[q] = mem[q]
  BY <1>1 DEF Remember
<1> HIDE DEF Remember
<1>3. Locals' = Locals
  BY DEF Locals, Docs, Samples, MaybeTags, Entries, Blocks, Values
<1>4. ASSUME NEW q \in Requests
      PROVE  /\ mem'[q].todo \subseteq DOMAIN mem'[q].scores
             /\ pc'[q] = "infer" => mem'[q].scores = <<>>
             /\ pc'[q] = "hset" => mem'[q].at \in mem'[q].todo
  <2>1. CASE q = r
    BY <1>2, <2>1
  <2>2. CASE q # r
    BY <1>2, <2>2 DEF TypeOK, MemTypes
  <2> QED
    BY <2>1, <2>2
<1> QED
  BY <1>2, <1>3, <1>4 DEF MemTypes, Others

\* A request goes on with the locals it had.
LEMMA SameLocals ==
  ASSUME TypeOK, NEW r \in Requests, UNCHANGED mem, pc'[r] # "infer", pc'[r] # "hset",
         \A q \in Requests \ {r} : pc'[q] = pc[q]
  PROVE  MemTypes' /\ Others(r)
<1>1. Locals' = Locals
  BY DEF Locals, Docs, Samples, MaybeTags, Entries, Blocks, Values
<1>2. ASSUME NEW q \in Requests
      PROVE  /\ mem'[q].todo \subseteq DOMAIN mem'[q].scores
             /\ pc'[q] = "infer" => mem'[q].scores = <<>>
             /\ pc'[q] = "hset" => mem'[q].at \in mem'[q].todo
  BY DEF TypeOK, MemTypes
<1> QED
  BY <1>1, <1>2 DEF TypeOK, MemTypes, Others

\* The locals of a request and the state of the store, by their fields.
LEMMA Fields ==
  ASSUME TypeOK, NEW r \in Requests
  PROVE  /\ mem[r] \in Locals
         /\ mem[r].scores \in Blocks /\ mem[r].todo \subseteq DOMAIN mem[r].scores
         /\ DOMAIN mem[r].scores \subseteq Tags
         /\ \A t \in DOMAIN mem[r].scores : mem[r].scores[t] \in Values
         /\ pc[r] = "infer" => mem[r].scores = <<>> /\ mem[r].todo = {}
         /\ pc[r] = "hset" => mem[r].at \in mem[r].todo
         /\ pc[r] \in DOMAIN Callers /\ kind[r] \in Callers[pc[r]]
         /\ ListOf(r) \in {"analyze", "task"} /\ hist[ListOf(r)] \in Seq(Entries)
<1>1. mem[r] \in Locals
  BY DEF TypeOK, MemTypes
<1>2. mem[r].scores \in Blocks
  BY <1>1 DEF Locals
<1>3. mem[r].todo \subseteq DOMAIN mem[r].scores
  BY DEF TypeOK, MemTypes
<1>4. DOMAIN <<>> = {}
  OBVIOUS
<1>5. pc[r] = "infer" => mem[r].scores = <<>>
  BY DEF TypeOK, MemTypes
<1>6. pc[r] = "infer" => mem[r].todo = {}
  BY <1>3, <1>4, <1>5
<1>7. ListOf(r) \in {"analyze", "task"}
  BY DEF ListOf
<1>8. hist[ListOf(r)] \in Seq(Entries)
  BY <1>7 DEF TypeOK, SharedTypes
<1>9. pc[r] = "hset" => mem[r].at \in mem[r].todo
  BY DEF TypeOK, MemTypes
<1>10. pc[r] \in DOMAIN Callers /\ kind[r] \in Callers[pc[r]]
  BY DEF TypeOK, StepTypes
<1>11. DOMAIN mem[r].scores \subseteq Tags /\ \A t \in DOMAIN mem[r].scores : mem[r].scores[t] \in Values
  BY <1>2, BlockFacts
<1> QED
  BY <1>1, <1>2, <1>3, <1>5, <1>6, <1>7, <1>8, <1>9, <1>10, <1>11

\* The types of what a step leaves alone.
LEMMA SameShared ==
  ASSUME TypeOK, UNCHANGED <<shared, past>>, faults' \in Nat
  PROVE  SharedTypes'
BY DEF TypeOK, SharedTypes, shared, past, Entries, Samples, MaybeTags, Docs, Writes

LEMMA InferAnalysisStep ==
  ASSUME TypeOK, NEW r \in Requests, InferAnalysis(r)
  PROVE  /\ TypeOK' /\ Moved(r, {"infer"}, {"push", "hget", "done"}) /\ Others(r)
         /\ \E s \in Blocks :
              mem'[r] = [mem[r] EXCEPT !.scores = s, !.todo = DOMAIN s, !.tags = DOMAIN s]
<1>1. /\ pc[r] = "infer" /\ kind[r] \in {"analyze", "queued"}
      /\ UNCHANGED <<shared, kind, past, faults>>
  BY DEF InferAnalysis
<1>2. PICK c \in Completions :
        /\ Remember(r, [mem[r] EXCEPT !.scores = TagScores(c), !.todo = DOMAIN TagScores(c),
                                      !.tags = DOMAIN TagScores(c)])
        /\ Goto(r, IF kind[r] = "queued" /\ DOMAIN TagScores(c) = {} THEN "done" ELSE After(r))
  BY DEF InferAnalysis
<1>3. PICK x \in {"push", "hget", "done"} : Goto(r, x) /\ kind[r] \in Callers[x]
  BY <1>1, <1>2, AfterCall DEF TypeOK, Callers, Route
<1>4. x \in DOMAIN Callers
  BY DEF Callers
<1>5. StepTypes' /\ pc'[r] = x /\ \A q \in Requests \ {r} : pc'[q] = pc[q]
  BY <1>1, <1>3, <1>4, GotoTypes DEF TypeOK
<1> DEFINE s == TagScores(c)
<1>6. s \in Blocks /\ DOMAIN s \subseteq Tags
  BY AnswerBlock, BlockFacts
<1> HIDE DEF s
<1> DEFINE m == [mem[r] EXCEPT !.scores = s, !.todo = DOMAIN s, !.tags = DOMAIN s]
<1>7. m \in Locals /\ m.todo = DOMAIN m.scores
  BY <1>6, Fields DEF Locals
<1>8. Remember(r, m)
  BY <1>2 DEF s
<1> HIDE DEF m
<1>9. MemTypes' /\ mem'[r] = m /\ Others(r)
  BY <1>5, <1>7, <1>8, Remembered
<1>10. SharedTypes'
  BY <1>1, SameShared DEF TypeOK, SharedTypes
<1> QED
  BY <1>1, <1>5, <1>6, <1>9, <1>10 DEF TypeOK, Moved, m

LEMMA InferTaskStep ==
  ASSUME TypeOK, NEW r \in Requests, InferTask(r)
  PROVE  /\ TypeOK' /\ Moved(r, {"infer"}, {"push"}) /\ Others(r)
         /\ \E T \in SUBSET Tags : mem'[r] = [mem[r] EXCEPT !.tags = T]
<1>1. /\ pc[r] = "infer" /\ kind[r] = "generate"
      /\ UNCHANGED <<shared, kind, past, faults>>
      /\ Goto(r, After(r))
  BY DEF InferTask
<1>2. PICK T \in SUBSET Tags : Remember(r, [mem[r] EXCEPT !.tags = T])
  BY DEF InferTask
<1>3. Goto(r, "push") /\ kind[r] \in Callers["push"] /\ "push" \in DOMAIN Callers
  BY <1>1, AfterCall DEF TypeOK, Callers
<1>5. StepTypes' /\ pc'[r] = "push" /\ \A q \in Requests \ {r} : pc'[q] = pc[q]
  BY <1>1, <1>3, GotoTypes DEF TypeOK
<1> DEFINE m == [mem[r] EXCEPT !.tags = T]
<1>7. m \in Locals /\ m.todo = mem[r].todo /\ m.scores = mem[r].scores
  BY Fields DEF Locals
<1>8. Remember(r, m)
  BY <1>2
<1> HIDE DEF m
<1>9. MemTypes' /\ mem'[r] = m /\ Others(r)
  BY <1>5, <1>7, <1>8, Remembered, Fields
<1>10. SharedTypes'
  BY <1>1, SameShared DEF TypeOK, SharedTypes
<1> QED
  BY <1>1, <1>5, <1>9, <1>10 DEF TypeOK, Moved, m

LEMMA PushStep ==
  ASSUME TypeOK, NEW r \in Requests, Push(r)
  PROVE  /\ TypeOK' /\ Moved(r, {"push"}, {"trim"}) /\ UNCHANGED mem
         /\ hist' = [hist EXCEPT ![ListOf(r)] = <<r>> \o hist[ListOf(r)]]
<1>1. /\ pc[r] = "push" /\ Goto(r, After(r))
      /\ UNCHANGED <<stats, progress, profile, kind, mem, past, faults>>
      /\ hist' = [hist EXCEPT ![ListOf(r)] = <<r>> \o @]
  BY DEF Push
<1>2. Goto(r, "trim") /\ kind[r] \in Callers["trim"] /\ "trim" \in DOMAIN Callers
  BY <1>1, AfterCall DEF TypeOK, StepTypes, Callers
<1>3. StepTypes' /\ pc'[r] = "trim" /\ \A q \in Requests \ {r} : pc'[q] = pc[q]
  BY <1>1, <1>2, GotoTypes DEF TypeOK
<1>4. MemTypes'
  BY <1>1, <1>3, SameLocals
<1>5. <<r>> \o hist[ListOf(r)] \in Seq(Entries)
  BY Fields DEF Entries
<1>6. hist' \in [{"analyze", "task"} -> Seq(Entries)]
  BY <1>1, <1>5 DEF TypeOK, SharedTypes
<1>7. SharedTypes'
  BY <1>1, <1>6 DEF TypeOK, SharedTypes, past, Entries, Samples, MaybeTags, Docs, Writes
<1> QED
  BY <1>1, <1>3, <1>4, <1>7 DEF TypeOK, Moved

\* What LTRIM leaves of a list.
LEMMA TrimmedList ==
  ASSUME NEW S, NEW L \in Seq(S)
  PROVE  LET K == IF HistoryMax > 0 THEN SubSeq(L, 1, Min({HistoryMax, Len(L)})) ELSE L IN
         /\ K \in Seq(S) /\ Len(K) <= Len(L)
         /\ \A i \in 1 .. Len(K) : K[i] = L[i]
<1>1. HistoryMax \in Nat
  BY BoundAssumption
<1>2. Min({HistoryMax, Len(L)}) = IF HistoryMax <= Len(L) THEN HistoryMax ELSE Len(L)
  BY <1>1, MinOfTwo
<1> DEFINE n == Min({HistoryMax, Len(L)})
<1>3. n \in 0 .. Len(L)
  BY <1>1, <1>2
<1> HIDE DEF n
<1>4. SubSeq(L, 1, n) \in Seq(S) /\ Len(SubSeq(L, 1, n)) = n /\ \A i \in 1 .. n : SubSeq(L, 1, n)[i] = L[i]
  BY <1>3
<1>5. CASE HistoryMax > 0
  <2> DEFINE K == SubSeq(L, 1, n)
  <2>1. K \in Seq(S) /\ Len(K) <= Len(L) /\ \A i \in 1 .. Len(K) : K[i] = L[i]
    BY <1>3, <1>4
  <2> HIDE DEF K
  <2>2. (IF HistoryMax > 0 THEN SubSeq(L, 1, Min({HistoryMax, Len(L)})) ELSE L) = K
    BY <1>5 DEF n, K
  <2> QED
    BY <2>1, <2>2
<1>6. CASE ~ HistoryMax > 0
  BY <1>6
<1> QED
  BY <1>5, <1>6

LEMMA TrimStep ==
  ASSUME TypeOK, NEW r \in Requests, Trim(r)
  PROVE  /\ TypeOK' /\ Moved(r, {"trim"}, {"hget", "get", "done"}) /\ UNCHANGED mem
         /\ \E K \in Seq(Entries) :
              /\ hist' = [hist EXCEPT ![ListOf(r)] = K]
              /\ Len(K) <= Len(hist[ListOf(r)])
              /\ \A i \in 1 .. Len(K) : K[i] = hist[ListOf(r)][i]
<1> DEFINE L == hist[ListOf(r)]
           K == IF HistoryMax > 0 THEN SubSeq(L, 1, Min({HistoryMax, Len(L)})) ELSE L
<1>1. /\ pc[r] = "trim" /\ Goto(r, IF mem[r].tags = {} THEN "done" ELSE After(r))
      /\ UNCHANGED <<stats, progress, profile, kind, mem, past, faults>>
      /\ hist' = [hist EXCEPT ![ListOf(r)] = K]
  BY DEF Trim
<1>2. PICK x \in {"hget", "get", "done"} : Goto(r, x) /\ kind[r] \in Callers[x]
  BY <1>1, AfterCall DEF TypeOK, StepTypes, Callers, Route
<1>a. x \in DOMAIN Callers
  BY DEF Callers
<1>3. StepTypes' /\ pc'[r] = x /\ \A q \in Requests \ {r} : pc'[q] = pc[q]
  BY <1>1, <1>2, <1>a, GotoTypes DEF TypeOK
<1>4. MemTypes'
  BY <1>1, <1>3, SameLocals
<1>5. K \in Seq(Entries) /\ Len(K) <= Len(L) /\ \A i \in 1 .. Len(K) : K[i] = L[i]
  BY Fields, TrimmedList
<1> HIDE DEF K
<1>6. hist' \in [{"analyze", "task"} -> Seq(Entries)]
  BY <1>1, <1>5 DEF TypeOK, SharedTypes
<1>7. SharedTypes'
  BY <1>1, <1>6 DEF TypeOK, SharedTypes, past, Entries, Samples, MaybeTags, Docs, Writes
<1> QED
  BY <1>1, <1>3, <1>4, <1>5, <1>7 DEF TypeOK, Moved

LEMMA HGetStep ==
  ASSUME TypeOK, NEW r \in Requests, HGet(r)
  PROVE  /\ TypeOK' /\ Moved(r, {"hget"}, {"hset"}) /\ Others(r)
         /\ \E t \in mem[r].todo :
              mem'[r] = [mem[r] EXCEPT !.at = t, !.prev = stats[t]]
<1>1. /\ pc[r] = "hget" /\ Goto(r, After(r))
      /\ UNCHANGED <<shared, kind, past, faults>>
  BY DEF HGet
<1>2. PICK t \in mem[r].todo : Remember(r, [mem[r] EXCEPT !.at = t, !.prev = stats[t]])
  BY DEF HGet
<1>3. Goto(r, "hset") /\ kind[r] \in Callers["hset"] /\ "hset" \in DOMAIN Callers
  BY <1>1, AfterCall DEF TypeOK, StepTypes, Callers
<1>5. StepTypes' /\ pc'[r] = "hset" /\ \A q \in Requests \ {r} : pc'[q] = pc[q]
  BY <1>1, <1>3, GotoTypes DEF TypeOK
<1>6. t \in Tags /\ stats[t] \in Samples
  BY Fields DEF TypeOK, SharedTypes
<1> DEFINE m == [mem[r] EXCEPT !.at = t, !.prev = stats[t]]
<1>7. m \in Locals /\ m.todo = mem[r].todo /\ m.scores = mem[r].scores /\ m.at = t
  BY <1>6, Fields DEF Locals
<1>8. Remember(r, m)
  BY <1>2
<1> HIDE DEF m
<1>9. MemTypes' /\ mem'[r] = m /\ Others(r)
  BY <1>5, <1>7, <1>8, Remembered, Fields
<1>10. SharedTypes'
  BY <1>1, SameShared DEF TypeOK, SharedTypes
<1> QED
  BY <1>1, <1>5, <1>9, <1>10 DEF TypeOK, Moved, m

\* A sum and a count stay numbers, the sum possibly NaN.
LEMMA MergeTypes ==
  ASSUME NEW p \in Samples, NEW x \in Values
  PROVE  MergeSample(p, x) \in Samples
<1>1. Plus(p.sum, x) \in Nat \cup {NaN}
  BY DEF Plus, Values, Samples, MinScore, MaxScore
<1> QED
  BY <1>1 DEF MergeSample, Samples

LEMMA HSetStep ==
  ASSUME TypeOK, NEW r \in Requests, HSet(r)
  PROVE  /\ TypeOK' /\ Moved(r, {"hset"}, {"hget", "get", "done"}) /\ Others(r)
         /\ mem'[r] = [mem[r] EXCEPT !.todo = @ \ {mem[r].at}, !.at = None, !.prev = Nothing]
<1> DEFINE t == mem[r].at
<1>1. /\ pc[r] = "hset" /\ Goto(r, IF mem[r].todo = {t} THEN After(r) ELSE "hget")
      /\ UNCHANGED <<hist, progress, profile, kind, writes, latest, faults>>
      /\ stats' = [stats EXCEPT ![t] = MergeSample(mem[r].prev, mem[r].scores[t])]
      /\ lossy' = IF stats[t] = mem[r].prev THEN lossy ELSE lossy \cup {t}
      /\ Remember(r, [mem[r] EXCEPT !.todo = @ \ {t}, !.at = None, !.prev = Nothing])
  BY DEF HSet
<1>2. PICK x \in {"hget", "get", "done"} : Goto(r, x) /\ kind[r] \in Callers[x]
  BY <1>1, AfterCall DEF TypeOK, StepTypes, Callers, Route
<1>3. x \in DOMAIN Callers
  BY DEF Callers
<1>4. StepTypes' /\ pc'[r] = x /\ \A q \in Requests \ {r} : pc'[q] = pc[q]
  BY <1>1, <1>2, <1>3, GotoTypes DEF TypeOK
<1>5. t \in mem[r].todo /\ t \in Tags /\ mem[r].scores[t] \in Values
  BY <1>1, Fields
<1> DEFINE m == [mem[r] EXCEPT !.todo = @ \ {t}, !.at = None, !.prev = Nothing]
<1>6. Nothing \in Samples
  BY DEF Nothing, Samples
<1>7. m \in Locals /\ m.todo \subseteq DOMAIN m.scores /\ m.scores = mem[r].scores /\ m.todo \subseteq mem[r].todo
  BY <1>6, Fields DEF Locals
<1>8. Remember(r, m)
  BY <1>1
<1> HIDE DEF m
<1>9. MemTypes' /\ mem'[r] = m /\ Others(r)
  BY <1>4, <1>7, <1>8, Remembered, Fields
<1>10. MergeSample(mem[r].prev, mem[r].scores[t]) \in Samples
  BY <1>5, MergeTypes, Fields DEF Locals
<1> HIDE DEF t
<1>11. stats' \in [Tags -> Samples] /\ lossy' \subseteq Tags
  BY <1>1, <1>5, <1>10 DEF TypeOK, SharedTypes
<1>12. SharedTypes'
  BY <1>1, <1>11 DEF TypeOK, SharedTypes, Entries, Samples, MaybeTags, Docs, Writes
<1> QED
  BY <1>1, <1>4, <1>9, <1>12 DEF TypeOK, Moved, m, t

LEMMA SetProgressStep ==
  ASSUME TypeOK, NEW r \in Requests, SetProgress(r)
  PROVE  /\ TypeOK' /\ Moved(r, {"setprogress"}, {"get"}) /\ Others(r)
         /\ progress' \subseteq Tags
         /\ mem'[r] = [mem[r] EXCEPT !.tags = progress']
<1>1. /\ pc[r] = "setprogress" /\ Goto(r, After(r)) /\ latest' = r
      /\ UNCHANGED <<hist, stats, profile, kind, writes, lossy, faults>>
  BY DEF SetProgress
<1>2. PICK T \in TagLists : \E W \in FirstThree(T) :
        progress' = W /\ Remember(r, [mem[r] EXCEPT !.tags = W])
  BY DEF SetProgress
<1>3. progress' \in SUBSET Tags /\ Remember(r, [mem[r] EXCEPT !.tags = progress'])
  BY <1>2 DEF FirstThree, TagLists
<1>4. Goto(r, "get") /\ kind[r] \in Callers["get"] /\ "get" \in DOMAIN Callers
  BY <1>1, AfterCall DEF TypeOK, StepTypes, Callers
<1>5. StepTypes' /\ pc'[r] = "get" /\ \A q \in Requests \ {r} : pc'[q] = pc[q]
  BY <1>1, <1>4, GotoTypes DEF TypeOK
<1> DEFINE m == [mem[r] EXCEPT !.tags = progress']
<1>7. m \in Locals /\ m.todo = mem[r].todo /\ m.scores = mem[r].scores
  BY <1>3, Fields DEF Locals
<1>8. Remember(r, m)
  BY <1>3
<1> HIDE DEF m
<1>9. MemTypes' /\ mem'[r] = m /\ Others(r)
  BY <1>5, <1>7, <1>8, Remembered, Fields
<1>10. SharedTypes'
  BY <1>1, <1>3 DEF TypeOK, SharedTypes, Entries, Samples, MaybeTags, Docs, Writes
<1> QED
  BY <1>1, <1>3, <1>5, <1>9, <1>10 DEF TypeOK, Moved, m

LEMMA GetProgressStep ==
  ASSUME TypeOK, NEW r \in Requests, GetProgress(r)
  PROVE  /\ TypeOK' /\ Moved(r, {"getprogress"}, {"weakest"}) /\ Others(r)
         /\ mem'[r] = [mem[r] EXCEPT !.was = progress]
<1>1. /\ pc[r] = "getprogress" /\ Goto(r, After(r))
      /\ UNCHANGED <<shared, kind, past, faults>>
      /\ Remember(r, [mem[r] EXCEPT !.was = progress])
  BY DEF GetProgress
<1>4. Goto(r, "weakest") /\ kind[r] \in Callers["weakest"] /\ "weakest" \in DOMAIN Callers
  BY <1>1, AfterCall DEF TypeOK, StepTypes, Callers
<1>5. StepTypes' /\ pc'[r] = "weakest" /\ \A q \in Requests \ {r} : pc'[q] = pc[q]
  BY <1>1, <1>4, GotoTypes DEF TypeOK
<1> DEFINE m == [mem[r] EXCEPT !.was = progress]
<1>6. progress \in MaybeTags
  BY DEF TypeOK, SharedTypes
<1>8. Remember(r, m)
  BY <1>1
<1>7. m \in Locals /\ m.todo = mem[r].todo /\ m.scores = mem[r].scores
  BY <1>6, Fields DEF Locals
<1> HIDE DEF m
<1>9. MemTypes' /\ mem'[r] = m /\ Others(r)
  BY <1>5, <1>7, <1>8, Remembered, Fields
<1>10. SharedTypes'
  BY <1>1, SameShared DEF TypeOK, SharedTypes
<1> QED
  BY <1>1, <1>5, <1>9, <1>10 DEF TypeOK, Moved, m

LEMMA WeakestStep ==
  ASSUME TypeOK, NEW r \in Requests, Weakest(r)
  PROVE  /\ TypeOK' /\ Moved(r, {"weakest"}, {"push", "notfound"}) /\ Others(r)
         /\ \/ \E W \in SUBSET Tags :
                 mem'[r] = [mem[r] EXCEPT !.tags = W] /\ pc'[r] = "push"
            \/ pc'[r] = "notfound" /\ Sampled = {} /\ mem[r].was = None /\ UNCHANGED mem
<1>1. pc[r] = "weakest" /\ UNCHANGED <<shared, kind, past, faults>>
  BY DEF Weakest
<1>2. SharedTypes'
  BY <1>1, SameShared DEF TypeOK, SharedTypes
<1>3. CASE \E W \in SUBSET Tags : Remember(r, [mem[r] EXCEPT !.tags = W]) /\ Goto(r, After(r))
  <2>1. PICK W \in SUBSET Tags : Remember(r, [mem[r] EXCEPT !.tags = W]) /\ Goto(r, After(r))
    BY <1>3
  <2>2. Goto(r, "push") /\ kind[r] \in Callers["push"] /\ "push" \in DOMAIN Callers
    BY <1>1, <2>1, AfterCall DEF TypeOK, StepTypes, Callers
  <2>3. StepTypes' /\ pc'[r] = "push" /\ \A q \in Requests \ {r} : pc'[q] = pc[q]
    BY <1>1, <2>2, GotoTypes DEF TypeOK
  <2> DEFINE m == [mem[r] EXCEPT !.tags = W]
  <2>4. m \in Locals /\ m.todo = mem[r].todo /\ m.scores = mem[r].scores
    BY Fields DEF Locals
  <2>5. Remember(r, m)
    BY <2>1
  <2> HIDE DEF m
  <2>6. MemTypes' /\ mem'[r] = m /\ Others(r)
    BY <2>3, <2>4, <2>5, Remembered, Fields
  <2> QED
    BY <1>1, <1>2, <2>3, <2>6 DEF TypeOK, Moved, m
<1>4. CASE Sampled = {} /\ mem[r].was = None /\ Goto(r, "notfound") /\ UNCHANGED mem
  <2>1. kind[r] \in Callers["notfound"] /\ "notfound" \in DOMAIN Callers
    BY DEF TypeOK, StepTypes, Callers
  <2>2. StepTypes' /\ pc'[r] = "notfound" /\ \A q \in Requests \ {r} : pc'[q] = pc[q]
    BY <1>1, <1>4, <2>1, GotoTypes DEF TypeOK
  <2>3. MemTypes' /\ Others(r)
    BY <1>4, <2>2, SameLocals
  <2> QED
    BY <1>1, <1>2, <1>4, <2>2, <2>3 DEF TypeOK, Moved
<1>5. Sampled = {} /\ mem[r].was # None => mem[r].was \in SUBSET Tags
  BY Fields DEF Locals, MaybeTags
<1>6. CASE Sampled # {} /\ \E W \in SUBSET Tags : Remember(r, [mem[r] EXCEPT !.tags = W]) /\ Goto(r, After(r))
  BY <1>3, <1>6
<1>7. CASE Sampled = {} /\ mem[r].was # None /\ Remember(r, [mem[r] EXCEPT !.tags = mem[r].was]) /\ Goto(r, After(r))
  BY <1>3, <1>5, <1>7
<1>8. \/ Sampled # {} /\ \E W \in SUBSET Tags : Remember(r, [mem[r] EXCEPT !.tags = W]) /\ Goto(r, After(r))
      \/ Sampled = {} /\ mem[r].was # None /\ Remember(r, [mem[r] EXCEPT !.tags = mem[r].was]) /\ Goto(r, After(r))
      \/ Sampled = {} /\ mem[r].was = None /\ Goto(r, "notfound") /\ UNCHANGED mem
  BY DEF Weakest
<1> QED
  BY <1>4, <1>6, <1>7, <1>8

\* Every way to make a draft of a document gives a document.
LEMMA DraftTypes ==
  /\ \A d \in Docs, T \in SUBSET Tags : Recorded(d, T) \in Docs /\ Synced(d, T) \in Docs
  /\ \A d \in Docs, p \in Patches :
       /\ Patched(d, p) \in Docs
       /\ OrNone(p.weak) \cup OrNone(p.tags) \cup OrNone(p.used) \in SUBSET Tags
<1>1. \A d \in Docs, T \in SUBSET Tags : Recorded(d, T) \in Docs /\ Synced(d, T) \in Docs
  BY DEF Recorded, Synced, Docs, MaybeTags, AddTags
<1>2. ASSUME NEW d \in Docs, NEW p \in Patches
      PROVE  /\ Patched(d, p) \in Docs
             /\ OrNone(p.weak) \cup OrNone(p.tags) \cup OrNone(p.used) \in SUBSET Tags
  <2>1. /\ p.weak # None => p.weak \subseteq Tags
        /\ p.tags # None => p.tags \subseteq Tags
        /\ p.used # None => p.used \subseteq Tags
    BY InputAssumption
  <2>2. /\ OrNone(p.weak) \in SUBSET Tags /\ OrNone(p.tags) \in SUBSET Tags
        /\ OrNone(p.used) \in SUBSET Tags
    BY <2>1 DEF OrNone
  <2> DEFINE weak == IF p.weak # None THEN p.weak ELSE d.weak
             tags == IF p.tags # None THEN p.tags ELSE d.tags
  <2>3. weak \in MaybeTags /\ tags \in MaybeTags /\ d.used \in SUBSET Tags
    BY <2>1 DEF Docs, MaybeTags
  <2>4. Patched(d, p) = [weak |-> weak, tags |-> tags,
                         used |-> AddTags(d.used, OrNone(p.used) \cup OrNone(weak) \cup OrNone(tags))]
    BY DEF Patched
  <2> HIDE DEF weak, tags
  <2>5. OrNone(weak) \in SUBSET Tags /\ OrNone(tags) \in SUBSET Tags
    BY <2>3 DEF OrNone, MaybeTags
  <2>6. AddTags(d.used, OrNone(p.used) \cup OrNone(weak) \cup OrNone(tags)) \in SUBSET Tags
    BY <2>2, <2>3, <2>5 DEF AddTags
  <2> QED
    BY <2>2, <2>3, <2>4, <2>6 DEF Docs
<1> QED
  BY <1>1, <1>2

\* The draft of request r is d, made from the document of now.
Drafted(r, d, weakToo, T) ==
  mem'[r] = [mem[r] EXCEPT !.draft = d, !.base = Len(writes), !.setsWeak = weakToo, !.tags = T]

LEMMA GetStep ==
  ASSUME TypeOK, NEW r \in Requests, Get(r)
  PROVE  /\ TypeOK' /\ Moved(r, {"get"}, {"set"}) /\ Others(r)
         /\ \/ /\ kind[r] \in {"analyze", "generate", "from_progress"}
               /\ Drafted(r, Recorded(profile, mem[r].tags), FALSE, mem[r].tags)
            \/ /\ kind[r] = "progress"
               /\ Drafted(r, Synced(profile, mem[r].tags), TRUE, mem[r].tags)
            \/ /\ kind[r] = "patch"
               /\ \E p \in Patches :
                    Drafted(r, Patched(profile, p), p.weak # None,
                            OrNone(p.weak) \cup OrNone(p.tags) \cup OrNone(p.used))
<1> DEFINE D(d, b, T) == [mem[r] EXCEPT !.draft = d, !.base = Len(writes), !.setsWeak = b, !.tags = T]
<1>1. pc[r] = "get" /\ Goto(r, After(r)) /\ UNCHANGED <<shared, kind, past, faults>>
  BY DEF Get
<1>2. Goto(r, "set") /\ kind[r] \in Callers["set"] /\ "set" \in DOMAIN Callers
  BY <1>1, AfterCall DEF TypeOK, StepTypes, Callers
<1>3. StepTypes' /\ pc'[r] = "set" /\ \A q \in Requests \ {r} : pc'[q] = pc[q]
  BY <1>1, <1>2, GotoTypes DEF TypeOK
<1>4. SharedTypes'
  BY <1>1, SameShared DEF TypeOK, SharedTypes
<1>5. profile \in Docs /\ mem[r].tags \in SUBSET Tags /\ Len(writes) \in Nat
  BY Fields DEF TypeOK, SharedTypes, Locals
<1>6. ASSUME NEW d \in Docs, NEW b \in BOOLEAN, NEW T \in SUBSET Tags, Remember(r, D(d, b, T))
      PROVE  MemTypes' /\ Others(r) /\ Drafted(r, d, b, T)
  <2> DEFINE m == D(d, b, T)
  <2>1. m \in Locals /\ m.todo = mem[r].todo /\ m.scores = mem[r].scores
    BY <1>5, Fields DEF Locals
  <2>2. Remember(r, m)
    BY <1>6
  <2> HIDE DEF m
  <2>3. MemTypes' /\ mem'[r] = m /\ Others(r)
    BY <1>3, <2>1, <2>2, Remembered, Fields
  <2> QED
    BY <2>3 DEF m, Drafted
<1>7. CASE /\ kind[r] \in {"analyze", "generate", "from_progress"}
           /\ Remember(r, D(Recorded(profile, mem[r].tags), FALSE, mem[r].tags))
  <2>1. Recorded(profile, mem[r].tags) \in Docs
    BY <1>5, DraftTypes
  <2>2. MemTypes' /\ Others(r) /\ Drafted(r, Recorded(profile, mem[r].tags), FALSE, mem[r].tags)
    BY <1>5, <1>6, <1>7, <2>1
  <2> QED
    BY <1>1, <1>3, <1>4, <1>7, <2>2 DEF TypeOK, Moved
<1>8. CASE kind[r] = "progress" /\ Remember(r, D(Synced(profile, mem[r].tags), TRUE, mem[r].tags))
  <2>1. Synced(profile, mem[r].tags) \in Docs
    BY <1>5, DraftTypes
  <2>2. MemTypes' /\ Others(r) /\ Drafted(r, Synced(profile, mem[r].tags), TRUE, mem[r].tags)
    BY <1>5, <1>6, <1>8, <2>1
  <2> QED
    BY <1>1, <1>3, <1>4, <1>8, <2>2 DEF TypeOK, Moved
<1>9. CASE /\ kind[r] = "patch"
           /\ \E p \in Patches :
                Remember(r, D(Patched(profile, p), p.weak # None,
                              OrNone(p.weak) \cup OrNone(p.tags) \cup OrNone(p.used)))
  <2>1. PICK p \in Patches :
          Remember(r, D(Patched(profile, p), p.weak # None,
                        OrNone(p.weak) \cup OrNone(p.tags) \cup OrNone(p.used)))
    BY <1>9
  <2> DEFINE b == p.weak # None
             T == OrNone(p.weak) \cup OrNone(p.tags) \cup OrNone(p.used)
  <2>2. Patched(profile, p) \in Docs /\ T \in SUBSET Tags /\ b \in BOOLEAN
    BY <1>5, DraftTypes
  <2>3. Remember(r, D(Patched(profile, p), b, T))
    BY <2>1
  <2> HIDE DEF b, T, D
  <2>4. MemTypes' /\ Others(r) /\ Drafted(r, Patched(profile, p), b, T)
    BY <1>6, <2>2, <2>3
  <2>5. \E u \in Patches :
          Drafted(r, Patched(profile, u), u.weak # None,
                  OrNone(u.weak) \cup OrNone(u.tags) \cup OrNone(u.used))
    BY <2>4 DEF b, T
  <2> QED
    BY <1>1, <1>3, <1>4, <1>9, <2>4, <2>5 DEF TypeOK, Moved
<1> QED
  BY <1>7, <1>8, <1>9 DEF Get

LEMMA SetStep ==
  ASSUME TypeOK, NEW r \in Requests, Set(r)
  PROVE  /\ TypeOK' /\ Moved(r, {"set"}, {"done"}) /\ Others(r)
         /\ mem'[r] = [mem[r] EXCEPT !.draft = NoDoc, !.base = 0, !.setsWeak = FALSE]
<1>1. /\ pc[r] = "set" /\ Goto(r, After(r))
      /\ UNCHANGED <<hist, stats, progress, kind, latest, lossy, faults>>
      /\ profile' = mem[r].draft
      /\ writes' = Append(writes, [by |-> r, base |-> mem[r].base,
                                   tags |-> mem[r].tags, setsWeak |-> mem[r].setsWeak])
      /\ Remember(r, [mem[r] EXCEPT !.draft = NoDoc, !.base = 0, !.setsWeak = FALSE])
  BY DEF Set
<1>2. Goto(r, "done") /\ kind[r] \in Callers["done"] /\ "done" \in DOMAIN Callers
  BY <1>1, AfterCall DEF TypeOK, StepTypes, Callers
<1>3. StepTypes' /\ pc'[r] = "done" /\ \A q \in Requests \ {r} : pc'[q] = pc[q]
  BY <1>1, <1>2, GotoTypes DEF TypeOK
<1> DEFINE m == [mem[r] EXCEPT !.draft = NoDoc, !.base = 0, !.setsWeak = FALSE]
<1>4. NoDoc \in Docs
  BY DEF NoDoc, Docs, MaybeTags
<1>5. m \in Locals /\ m.todo = mem[r].todo /\ m.scores = mem[r].scores
  BY <1>4, Fields DEF Locals
<1>6. Remember(r, m)
  BY <1>1
<1> HIDE DEF m
<1>7. MemTypes' /\ mem'[r] = m /\ Others(r)
  BY <1>3, <1>5, <1>6, Remembered, Fields
<1> DEFINE w == [by |-> r, base |-> mem[r].base, tags |-> mem[r].tags, setsWeak |-> mem[r].setsWeak]
<1>8. w \in Writes /\ mem[r].draft \in Docs
  BY Fields DEF Locals, Writes
<1>9. writes' = Append(writes, w)
  BY <1>1
<1> HIDE DEF w
<1>10. writes' \in Seq(Writes)
  BY <1>8, <1>9 DEF TypeOK, SharedTypes
<1>11. SharedTypes'
  BY <1>1, <1>8, <1>10 DEF TypeOK, SharedTypes, Entries, Samples, MaybeTags, Docs, Writes
<1> QED
  BY <1>1, <1>3, <1>7, <1>11 DEF TypeOK, Moved, m

LEMMA LLenStep ==
  ASSUME TypeOK, NEW r \in Requests, LLen(r)
  PROVE  /\ TypeOK' /\ Moved(r, {"llen"}, {"done", "lrange"}) /\ Others(r)
         /\ pc'[r] = (IF mem[r].offset >= Len(hist[ListOf(r)]) THEN "done" ELSE "lrange")
         /\ mem'[r] = [mem[r] EXCEPT !.total = Len(hist[ListOf(r)]),
                         !.owed = IF mem[r].offset = 0 THEN ToSet(hist[ListOf(r)]) ELSE mem[r].owed]
<1> DEFINE L == hist[ListOf(r)]
           O == IF mem[r].offset = 0 THEN ToSet(L) ELSE mem[r].owed
           m == [mem[r] EXCEPT !.total = Len(L), !.owed = O]
<1>1. /\ pc[r] = "llen" /\ UNCHANGED <<shared, kind, past, faults>>
      /\ Goto(r, IF mem[r].offset >= Len(L) THEN "done" ELSE "lrange")
      /\ Remember(r, m)
  BY DEF LLen, PastEnd
<1>2. PICK x \in {"done", "lrange"} :
        /\ Goto(r, x) /\ kind[r] \in Callers[x] /\ x \in DOMAIN Callers
        /\ x = IF mem[r].offset >= Len(L) THEN "done" ELSE "lrange"
  BY <1>1 DEF TypeOK, StepTypes, Callers
<1>3. StepTypes' /\ pc'[r] = x /\ \A q \in Requests \ {r} : pc'[q] = pc[q]
  BY <1>1, <1>2, GotoTypes DEF TypeOK
<1>4. O \in SUBSET Entries /\ Len(L) \in Nat
  <2>1. L \in Seq(Entries) /\ mem[r].owed \in SUBSET Entries
    BY Fields DEF Locals
  <2>2. ToSet(L) \in SUBSET Entries
    BY <2>1 DEF ToSet
  <2> QED
    BY <2>1, <2>2
<1> HIDE DEF L, O
<1>5. m \in Locals /\ m.todo = mem[r].todo /\ m.scores = mem[r].scores
  BY <1>4, Fields DEF Locals
<1>6. Remember(r, m)
  BY <1>1
<1> HIDE DEF m
<1>7. MemTypes' /\ mem'[r] = m /\ Others(r)
  BY <1>2, <1>3, <1>5, <1>6, Remembered, Fields
<1>8. SharedTypes'
  BY <1>1, SameShared DEF TypeOK, SharedTypes
<1> QED
  BY <1>1, <1>2, <1>3, <1>7, <1>8 DEF TypeOK, Moved, m, O, L

\* What LRANGE gives of a list: the entries after the first from of them, some
\* unless the list or the total counted before ends there.
LEMMA PageRows ==
  ASSUME NEW S, NEW L \in Seq(S), NEW from \in Nat, NEW total \in Nat
  PROVE  LET n    == Min({PageLimit, total - from})
             rows == SubSeq(L, from + 1, Min({from + n, Len(L)}))
         IN  /\ rows \in Seq(S)
             /\ \A i \in 1 .. Len(rows) : from + i \in 1 .. Len(L) /\ rows[i] = L[from + i]
             /\ total > from /\ Len(L) > from => rows # <<>>
<1> DEFINE n == Min({PageLimit, total - from})
           k == Min({from + n, Len(L)})
<1>1. PageLimit \in Nat /\ PageLimit > 0
  BY BoundAssumption
<1>2. n \in Int /\ (total > from => n > 0)
  <2>1. total - from \in Int
    OBVIOUS
  <2> QED
    BY <1>1, <2>1, MinOfTwo
<1> HIDE DEF n
<1>3. k \in Int /\ k <= Len(L) /\ (total > from /\ Len(L) > from => k > from)
  <2>1. from + n \in Int /\ Len(L) \in Int
    BY <1>2
  <2> QED
    BY <1>2, <2>1, MinOfTwo
<1> HIDE DEF k
<1> DEFINE rows == SubSeq(L, from + 1, k)
<1>4. rows \in Seq(S) /\ Len(rows) = (IF k > from THEN k - from ELSE 0)
  BY <1>3
<1>5. \A i \in 1 .. Len(rows) : from + i \in 1 .. Len(L) /\ rows[i] = L[from + i]
  BY <1>3
<1>6. total > from /\ Len(L) > from => rows # <<>>
  <2>1. Len(<<>>) = 0
    OBVIOUS
  <2> HIDE DEF rows
  <2> QED
    BY <1>3, <1>4, <2>1
<1> QED
  BY <1>4, <1>5, <1>6 DEF k, n

LEMMA LRangeStep ==
  ASSUME TypeOK, NEW r \in Requests, LRange(r)
  PROVE  LET from == mem[r].offset
             n    == Min({PageLimit, mem[r].total - from})
             L    == hist[ListOf(r)]
             rows == SubSeq(L, from + 1, Min({from + n, Len(L)}))
         IN  /\ TypeOK' /\ Moved(r, {"lrange"}, {"done", "llen"}) /\ Others(r)
             /\ pc'[r] = (IF rows = <<>> THEN "done" ELSE "llen")
             /\ mem'[r] = [mem[r] EXCEPT !.offset = from + Len(rows),
                             !.seen = mem[r].seen \cup ToSet(rows), !.total = 0]
<1> DEFINE from == mem[r].offset
           n    == Min({PageLimit, mem[r].total - from})
           L    == hist[ListOf(r)]
           rows == SubSeq(L, from + 1, Min({from + n, Len(L)}))
           m    == [mem[r] EXCEPT !.offset = from + Len(rows),
                      !.seen = mem[r].seen \cup ToSet(rows), !.total = 0]
<1>1. /\ pc[r] = "lrange" /\ UNCHANGED <<shared, kind, past, faults>>
      /\ Goto(r, IF rows = <<>> THEN "done" ELSE "llen")
      /\ Remember(r, m)
  BY DEF LRange
<1>2. rows \in Seq(Entries) /\ from + Len(rows) \in Nat /\ mem[r].seen \in SUBSET Entries
  <2>1. L \in Seq(Entries) /\ from \in Nat /\ mem[r].total \in Nat /\ mem[r].seen \in SUBSET Entries
    BY Fields DEF Locals
  <2>2. rows \in Seq(Entries)
    BY <2>1, PageRows
  <2> HIDE DEF rows
  <2> QED
    BY <2>1, <2>2
<1> HIDE DEF from
<1> HIDE DEF n, L, rows
<1>3. PICK x \in {"done", "llen"} :
        /\ Goto(r, x) /\ kind[r] \in Callers[x] /\ x \in DOMAIN Callers
        /\ x = IF rows = <<>> THEN "done" ELSE "llen"
  BY <1>1 DEF TypeOK, StepTypes, Callers
<1>4. StepTypes' /\ pc'[r] = x /\ \A q \in Requests \ {r} : pc'[q] = pc[q]
  BY <1>1, <1>3, GotoTypes DEF TypeOK
<1>5. ToSet(rows) \in SUBSET Entries /\ Len(rows) \in Nat
  BY <1>2 DEF ToSet
<1>6. m \in Locals /\ m.todo = mem[r].todo /\ m.scores = mem[r].scores
  <2>1. from + Len(rows) \in Nat /\ mem[r].seen \cup ToSet(rows) \in SUBSET Entries
    BY <1>2, <1>5
  <2> QED
    BY <2>1, Fields DEF Locals
<1>7. Remember(r, m)
  BY <1>1
<1> HIDE DEF m
<1>8. MemTypes' /\ mem'[r] = m /\ Others(r)
  BY <1>3, <1>4, <1>6, <1>7, Remembered, Fields
<1>9. SharedTypes'
  BY <1>1, SameShared DEF TypeOK, SharedTypes
<1>10. TypeOK' /\ Moved(r, {"lrange"}, {"done", "llen"}) /\ Others(r)
  BY <1>1, <1>3, <1>4, <1>8, <1>9 DEF TypeOK, Moved
<1>11. pc'[r] = (IF rows = <<>> THEN "done" ELSE "llen")
  BY <1>3, <1>4
<1>12. mem'[r] = [mem[r] EXCEPT !.offset = from + Len(rows),
                    !.seen = mem[r].seen \cup ToSet(rows), !.total = 0]
  BY <1>8 DEF m
<1> QED
  BY <1>10, <1>11, <1>12 DEF rows, L, n, from

LEMMA FailStep ==
  ASSUME TypeOK, NEW r \in Requests, Fail(r)
  PROVE  TypeOK' /\ Moved(r, DOMAIN Callers \ {"done", "notfound", "failed"}, {"failed"})
<1>1. /\ pc[r] \notin {"done", "notfound", "failed"} /\ faults' = faults + 1
      /\ Goto(r, "failed") /\ UNCHANGED <<shared, kind, mem, past>>
  BY DEF Fail
<1>2. kind[r] \in Callers["failed"] /\ "failed" \in DOMAIN Callers
  BY DEF TypeOK, StepTypes, Callers
<1>3. StepTypes' /\ pc'[r] = "failed" /\ \A q \in Requests \ {r} : pc'[q] = pc[q]
  BY <1>1, <1>2, GotoTypes DEF TypeOK
<1>4. MemTypes'
  BY <1>1, <1>3, SameLocals
<1>5. SharedTypes'
  BY <1>1, SameShared DEF TypeOK, SharedTypes
<1> QED
  BY <1>1, <1>3, <1>4, <1>5, Fields DEF TypeOK, Moved

\* A step of one request, or none.
LEMMA TypeNext == TypeOK /\ [Next]_vars => TypeOK'
<1> SUFFICES ASSUME TypeOK, [Next]_vars PROVE TypeOK'
  OBVIOUS
<1>1. CASE UNCHANGED vars
  BY <1>1 DEF TypeOK, SharedTypes, StepTypes, MemTypes, vars, shared, past, Entries, Samples,
    MaybeTags, Docs, Writes, Locals, Blocks, Values, Callers, Pages, Route
<1>2. CASE Next
  <2>1. PICK r \in Requests :
          \/ InferAnalysis(r) \/ InferTask(r) \/ Push(r) \/ Trim(r) \/ HGet(r) \/ HSet(r)
          \/ SetProgress(r) \/ GetProgress(r) \/ Weakest(r) \/ Get(r) \/ Set(r) \/ LLen(r)
          \/ LRange(r) \/ Fail(r)
    BY <1>2 DEF Next
  <2> QED
    BY <2>1, InferAnalysisStep, InferTaskStep, PushStep, TrimStep, HGetStep, HSetStep,
       SetProgressStep, GetProgressStep, WeakestStep, GetStep, SetStep, LLenStep, LRangeStep, FailStep
<1> QED
  BY <1>1, <1>2

\* The requests on a server are of the handlers connected to it.
LEMMA KindsServed == Init => kind \in [Requests -> DOMAIN Route]
  BY ServedAssumption DEF Init

LEMMA TypeInit == Init => TypeOK
<1> SUFFICES ASSUME Init PROVE TypeOK
  OBVIOUS
<1>1. Earlier \in Seq(Entries) /\ <<>> \in Seq(Entries)
  BY AbsentAssumption DEF Entries
<1>2. Nothing \in Samples /\ NoDoc \in Docs /\ <<>> \in Seq(Writes)
  BY DEF Nothing, Samples, NoDoc, Docs, MaybeTags
<1>3. SharedTypes
  <2>1. hist \in [{"analyze", "task"} -> Seq(Entries)]
    <3>1. hist = [analyze |-> Earlier, task |-> <<>>]
      BY DEF Init
    <3>2. DOMAIN hist = {"analyze", "task"} /\ hist["analyze"] = Earlier /\ hist["task"] = <<>>
      BY <3>1
    <3>3. hist = [l \in {"analyze", "task"} |-> hist[l]]
      BY <3>1, <3>2
    <3> QED
      BY <1>1, <3>2, <3>3
  <2>2. stats \in [Tags -> Samples] /\ progress \in MaybeTags /\ profile \in Docs
    BY <1>2 DEF Init, MaybeTags
  <2>3. writes \in Seq(Writes) /\ latest \in Requests \cup {None} /\ lossy \subseteq Tags /\ faults \in Nat
    BY <1>2 DEF Init
  <2> QED
    BY <2>1, <2>2, <2>3 DEF SharedTypes
<1>0. kind \in [Requests -> DOMAIN Route]
  BY KindsServed
<1>4. ASSUME NEW r \in Requests
      PROVE  Route[kind[r]].begin \in DOMAIN Callers /\ kind[r] \in Callers[Route[kind[r]].begin]
             /\ Route[kind[r]].begin # "hset"
  <2>1. kind[r] \in DOMAIN Route
    BY <1>0
  <2> QED
    BY <2>1 DEF Route, Callers, Pages, Analyze, QueueMerge, GenerateTask, FromProgress,
       PutProgress, PutProfile, AnalyzeHistory, TaskHistory
<1>5. StepTypes
  BY <1>0, <1>4 DEF Init, StepTypes
<1>6. NoMem \in Locals /\ NoMem.scores = <<>> /\ NoMem.todo = {}
  BY <1>2, NoScores DEF NoMem, Locals, MaybeTags
<1>7. mem \in [Requests -> Locals] /\ \A r \in Requests : mem[r] = NoMem
  BY <1>6 DEF Init
<1>8. \A r \in Requests : pc[r] # "hset"
  BY <1>4 DEF Init
<1>9. MemTypes
  BY <1>6, <1>7, <1>8 DEF MemTypes
<1> QED
  BY <1>3, <1>5, <1>9 DEF TypeOK

\* The store and the requests stay in their types: a profile is one of lists of
\* known tags, a sample a sum and a count, whatever the model answers and
\* whatever the client sends.
THEOREM TypesProved == Spec => []TypeOK
BY TypeInit, TypeNext, PTL DEF Spec
-----------------------------------------------------------------------------
(* One request moves at a time.                                            *)

Step(r) ==
  \/ InferAnalysis(r) \/ InferTask(r) \/ Push(r) \/ Trim(r) \/ HGet(r) \/ HSet(r)
  \/ SetProgress(r) \/ GetProgress(r) \/ Weakest(r) \/ Get(r) \/ Set(r) \/ LLen(r) \/ LRange(r)
  \/ Fail(r)

\* The others keep their place and locals, and no request changes its kind.
LEMMA StepKeeps ==
  ASSUME TypeOK, NEW r \in Requests, Step(r)
  PROVE  /\ TypeOK' /\ Others(r) /\ UNCHANGED kind
         /\ \A q \in Requests \ {r} : pc'[q] = pc[q]
         /\ ~ Fail(r) => pc'[r] # "failed"
<1>1. UNCHANGED kind
  BY DEF Step, InferAnalysis, InferTask, Push, Trim, HGet, HSet, SetProgress, GetProgress, Weakest,
    Get, Set, LLen, LRange, Fail
<1>2. CASE InferAnalysis(r)
  BY <1>1, <1>2, InferAnalysisStep DEF Moved
<1>3. CASE InferTask(r)
  BY <1>1, <1>3, InferTaskStep DEF Moved
<1>4. CASE Push(r)
  BY <1>1, <1>4, PushStep DEF Moved, Others
<1>5. CASE Trim(r)
  BY <1>1, <1>5, TrimStep DEF Moved, Others
<1>6. CASE HGet(r)
  BY <1>1, <1>6, HGetStep DEF Moved
<1>7. CASE HSet(r)
  BY <1>1, <1>7, HSetStep DEF Moved
<1>8. CASE SetProgress(r)
  BY <1>1, <1>8, SetProgressStep DEF Moved
<1>9. CASE GetProgress(r)
  BY <1>1, <1>9, GetProgressStep DEF Moved
<1>10. CASE Weakest(r)
  BY <1>1, <1>10, WeakestStep DEF Moved
<1>11. CASE Get(r)
  BY <1>1, <1>11, GetStep DEF Moved
<1>12. CASE Set(r)
  BY <1>1, <1>12, SetStep DEF Moved
<1>13. CASE LLen(r)
  BY <1>1, <1>13, LLenStep DEF Moved
<1>14. CASE LRange(r)
  BY <1>1, <1>14, LRangeStep DEF Moved
<1>15. CASE Fail(r)
  <2>1. UNCHANGED mem
    BY <1>15 DEF Fail
  <2> QED
    BY <1>1, <1>15, <2>1, FailStep DEF Moved, Others
<1> QED
  BY <1>2, <1>3, <1>4, <1>5, <1>6, <1>7, <1>8, <1>9, <1>10, <1>11, <1>12, <1>13, <1>14, <1>15 DEF Step

\* The step that brings a request to a call is the step of the call before it.
LEMMA Reached ==
  ASSUME TypeOK, NEW r \in Requests, Step(r)
  PROVE  /\ pc'[r] = "weakest" => GetProgress(r)
         /\ pc'[r] = "notfound" => Weakest(r)
         /\ pc'[r] = "get" => Trim(r) \/ HSet(r) \/ SetProgress(r)
         /\ pc'[r] = "set" => Get(r)
         /\ pc'[r] = "hget" => InferAnalysis(r) \/ Trim(r) \/ HSet(r)
         /\ pc'[r] = "hset" => HGet(r)
         /\ pc'[r] = "llen" => LRange(r)
         /\ pc'[r] = "lrange" => LLen(r)
         /\ pc'[r] = "push" => pc[r] \in {"infer", "weakest"}
         /\ pc'[r] \notin {"infer", "setprogress", "getprogress"}
         /\ pc'[r] = "done" /\ pc[r] \in {"llen", "lrange"} => LLen(r) \/ LRange(r)
<1>2. CASE InferAnalysis(r)
  BY <1>2, InferAnalysisStep DEF Moved
<1>3. CASE InferTask(r)
  BY <1>3, InferTaskStep DEF Moved
<1>4. CASE Push(r)
  BY <1>4, PushStep DEF Moved
<1>5. CASE Trim(r)
  BY <1>5, TrimStep DEF Moved
<1>6. CASE HGet(r)
  BY <1>6, HGetStep DEF Moved
<1>7. CASE HSet(r)
  BY <1>7, HSetStep DEF Moved
<1>8. CASE SetProgress(r)
  BY <1>8, SetProgressStep DEF Moved
<1>9. CASE GetProgress(r)
  BY <1>9, GetProgressStep DEF Moved
<1>10. CASE Weakest(r)
  BY <1>10, WeakestStep DEF Moved
<1>11. CASE Get(r)
  BY <1>11, GetStep DEF Moved
<1>12. CASE Set(r)
  BY <1>12, SetStep DEF Moved
<1>13. CASE LLen(r)
  BY <1>13, LLenStep DEF Moved
<1>14. CASE LRange(r)
  BY <1>14, LRangeStep DEF Moved
<1>15. CASE Fail(r)
  BY <1>15, FailStep DEF Moved
<1> QED
  BY <1>2, <1>3, <1>4, <1>5, <1>6, <1>7, <1>8, <1>9, <1>10, <1>11, <1>12, <1>13, <1>14, <1>15 DEF Step

-----------------------------------------------------------------------------
(* The profile, written back by handlers that read it earlier.             *)

\* The writes so far, all of them or the first n.
WritesOf(n) == 1 .. n

\* Each write is one of a request.
LEMMA Authors ==
  ASSUME TypeOK, NEW i \in DOMAIN writes
  PROVE  writes[i].by \in Requests
<1>1. writes \in Seq(Writes)
  BY DEF TypeOK, SharedTypes
<1>2. writes[i] \in Writes
  BY <1>1
<1> QED
  BY <1>2 DEF Writes

\* What a request that is about to write has read: the tags of each earlier
\* write are in its draft, or were lost before.
UsedInv ==
  /\ UsedTagsKept
  /\ \A r \in Requests : pc[r] = "set" =>
       /\ mem[r].base <= Len(writes) /\ mem[r].tags \subseteq mem[r].draft.used
       /\ \A i \in WritesOf(mem[r].base) :
            \/ writes[i].tags \subseteq mem[r].draft.used
            \/ \E j \in DOMAIN writes : Stale(j, i)

\* A later write that lost what write i did to the weak tags, or replaced it.
Superseded(i) == \E j \in DOMAIN writes : Stale(j, i) \/ (j > i /\ writes[j].setsWeak)

\* The request that wrote the progress is to write the same weak tags, and has
\* not written before; a draft has them, or its request sets others.
MirrorInv ==
  /\ ProgressMirrored
  /\ \A i \in DOMAIN writes : pc[writes[i].by] = "done"
  /\ latest \in Requests =>
       /\ kind[latest] = "progress"
       /\ pc[latest] \in {"get", "set"} => mem[latest].tags = progress
       /\ pc[latest] = "set" => mem[latest].draft.weak = progress
  /\ \A r \in Requests : pc[r] = "set" =>
       /\ mem[r].base <= Len(writes)
       /\ \A i \in WritesOf(mem[r].base) : writes[i].by = latest =>
            mem[r].draft.weak = progress \/ mem[r].setsWeak \/ Superseded(i)

\* Only the SET of a profile changes it.
LEMMA WritesBySet ==
  ASSUME NEW r \in Requests, Step(r)
  PROVE  Set(r) \/ UNCHANGED <<profile, writes>>
BY DEF Step, InferAnalysis, InferTask, Push, Trim, HGet, HSet, SetProgress, GetProgress, Weakest,
  Get, LLen, LRange, Fail, shared, past

\* A write comes after the others.
LEMMA WriteAdded ==
  ASSUME TypeOK, NEW r \in Requests, Set(r)
  PROVE  /\ Len(writes) \in Nat /\ Len(writes') = Len(writes) + 1
         /\ DOMAIN writes = 1 .. Len(writes) /\ DOMAIN writes' = 1 .. Len(writes')
         /\ Len(writes') \in DOMAIN writes'
         /\ \A i \in DOMAIN writes : i \in Nat /\ i \in DOMAIN writes' /\ writes'[i] = writes[i]
         /\ \A i \in DOMAIN writes' : i \in DOMAIN writes \/ i = Len(writes')
         /\ profile' = mem[r].draft
         /\ writes'[Len(writes')] = [by |-> r, base |-> mem[r].base, tags |-> mem[r].tags,
                                     setsWeak |-> mem[r].setsWeak]
<1> DEFINE w == [by |-> r, base |-> mem[r].base, tags |-> mem[r].tags, setsWeak |-> mem[r].setsWeak]
<1>1. profile' = mem[r].draft /\ writes' = Append(writes, w)
  BY DEF Set
<1>2. writes \in Seq(Writes)
  BY DEF TypeOK, SharedTypes
<1>3. w \in Writes
  BY Fields DEF Locals, Writes
<1> HIDE DEF w
<1>4. /\ Len(writes) \in Nat /\ Len(writes') = Len(writes) + 1
      /\ DOMAIN writes = 1 .. Len(writes) /\ DOMAIN writes' = 1 .. Len(writes')
      /\ \A i \in 1 .. Len(writes) : writes'[i] = writes[i]
      /\ writes'[Len(writes) + 1] = w
  BY <1>1, <1>2, <1>3
<1>5. Len(writes') \in DOMAIN writes' /\ \A i \in DOMAIN writes' : i \in DOMAIN writes \/ i = Len(writes')
  BY <1>4
<1> QED
  BY <1>1, <1>4, <1>5 DEF w

\* What is lost stays lost, and a write that replaces another stays after it.
LEMMA LostStays ==
  ASSUME TypeOK, NEW r \in Requests, Step(r), NEW i \in DOMAIN writes
  PROVE  /\ (\E j \in DOMAIN writes : Stale(j, i)) => (\E j \in DOMAIN writes' : Stale(j, i)')
         /\ Superseded(i) => Superseded(i)'
<1>1. CASE Set(r)
  <2>1. \A j \in DOMAIN writes : j \in DOMAIN writes' /\ writes'[j] = writes[j]
    BY <1>1, WriteAdded
  <2>2. \A j \in DOMAIN writes : Stale(j, i) => Stale(j, i)'
    BY <2>1 DEF Stale
  <2> QED
    BY <2>1, <2>2 DEF Superseded
<1>2. CASE UNCHANGED <<profile, writes>>
  <2>1. \A j \in DOMAIN writes : Stale(j, i) <=> Stale(j, i)'
    BY <1>2 DEF Stale
  <2> QED
    BY <1>2, <2>1 DEF Superseded
<1> QED
  BY <1>1, <1>2, WritesBySet

\* A SET loses what was written between its GET and itself.
LEMMA WriteLoses ==
  ASSUME TypeOK, NEW r \in Requests, Set(r), NEW i \in DOMAIN writes, i > mem[r].base
  PROVE  \E j \in DOMAIN writes' : Stale(j, i)'
<1>1. PICK n \in DOMAIN writes' : n = Len(writes')
  BY WriteAdded, Zenon
<1>2. n > i /\ writes'[n].base = mem[r].base
  BY <1>1, WriteAdded
<1> QED
  BY <1>2 DEF Stale

LEMMA UsedStep == TypeOK /\ UsedInv /\ [Next]_vars => UsedInv'
<1> SUFFICES ASSUME TypeOK, UsedInv, [Next]_vars PROVE UsedInv'
  OBVIOUS
<1>1. CASE UNCHANGED vars
  BY <1>1 DEF UsedInv, UsedTagsKept, Stale, WritesOf, vars, shared, past
<1>2. CASE Next
  <2>1. PICK r \in Requests : Step(r)
    BY <1>2 DEF Next, Step
  <2>2. DOMAIN writes = 1 .. Len(writes) /\ Len(writes) \in Nat
    BY DEF TypeOK, SharedTypes
  <2>3. ASSUME NEW i \in DOMAIN writes'
        PROVE  writes'[i].tags \subseteq profile'.used \/ \E j \in DOMAIN writes' : Stale(j, i)'
    <3>1. CASE UNCHANGED <<profile, writes>>
      BY <2>1, <3>1, LostStays DEF UsedInv, UsedTagsKept
    <3>2. CASE Set(r) /\ i = Len(writes')
      <4>1. pc[r] = "set"
        BY <3>2 DEF Set
      <4> QED
        BY <3>2, <4>1, WriteAdded DEF UsedInv
    <3>3. CASE Set(r) /\ i # Len(writes')
      <4>a. pc[r] = "set" /\ mem[r].base \in Nat
        BY <3>3, Fields DEF Set, Locals
      <4>b. i \in DOMAIN writes
        BY <3>3, WriteAdded
      <4>1. pc[r] = "set" /\ i \in DOMAIN writes /\ writes'[i] = writes[i] /\ mem[r].base \in Nat
        BY <3>3, <4>a, <4>b, WriteAdded
      <4>2. CASE i > mem[r].base
        BY <3>3, <4>1, <4>2, WriteLoses
      <4>3. CASE ~ i > mem[r].base
        <5>1. i \in WritesOf(mem[r].base)
          BY <2>2, <4>1, <4>3 DEF WritesOf
        <5> QED
          BY <2>1, <3>3, <4>1, <5>1, WriteAdded, LostStays DEF UsedInv
      <4> QED
        BY <4>2, <4>3
    <3> QED
      BY <2>1, <3>1, <3>2, <3>3, WritesBySet
  <2>4. ASSUME NEW q \in Requests, pc'[q] = "set"
        PROVE  /\ mem'[q].base <= Len(writes') /\ mem'[q].tags \subseteq mem'[q].draft.used
               /\ \A i \in WritesOf(mem'[q].base) :
                    \/ writes'[i].tags \subseteq mem'[q].draft.used
                    \/ \E j \in DOMAIN writes' : Stale(j, i)'
    <3>1. CASE q # r
      <4>1. pc[q] = "set" /\ mem'[q] = mem[q]
        BY <2>1, <2>4, <3>1, StepKeeps DEF Others
      <4>2. mem[q].base \in Nat
        BY Fields DEF Locals
      <4>3. /\ Len(writes) <= Len(writes')
            /\ \A i \in DOMAIN writes : writes'[i] = writes[i]
        <5>1. CASE Set(r)
          <6>1. Len(writes') = Len(writes) + 1 /\ \A i \in DOMAIN writes : writes'[i] = writes[i]
            BY <5>1, WriteAdded
          <6> QED
            BY <2>2, <6>1
        <5>2. CASE UNCHANGED <<profile, writes>>
          BY <2>2, <5>2
        <5> QED
          BY <2>1, <5>1, <5>2, WritesBySet
      <4>4. Len(writes') \in Nat
        BY <2>1, StepKeeps DEF TypeOK, SharedTypes
      <4>5. mem[q].base <= Len(writes) /\ mem[q].tags \subseteq mem[q].draft.used
        BY <4>1 DEF UsedInv
      <4>6. ASSUME NEW i \in WritesOf(mem[q].base)
            PROVE  \/ writes'[i].tags \subseteq mem[q].draft.used
                   \/ \E j \in DOMAIN writes' : Stale(j, i)'
        <5>1. i \in DOMAIN writes
          BY <2>2, <4>2, <4>5 DEF WritesOf
        <5> QED
          BY <2>1, <4>1, <4>3, <5>1, LostStays DEF UsedInv
      <4> QED
        BY <2>2, <4>1, <4>2, <4>3, <4>4, <4>5, <4>6
    <3>2. CASE q = r
      <4>1. Get(r)
        BY <2>1, <2>4, <3>2, Reached
      <4>2. UNCHANGED <<profile, writes>>
        BY <4>1 DEF Get, shared, past
      <4>3. PICK d, b, T : /\ Drafted(r, d, b, T)
                           /\ profile.used \subseteq d.used /\ T \subseteq d.used
        <5>1. \A d \in Docs : \A T :
                /\ d.used \subseteq Recorded(d, T).used /\ T \subseteq Recorded(d, T).used
                /\ d.used \subseteq Synced(d, T).used /\ T \subseteq Synced(d, T).used
          BY DEF Recorded, Synced, AddTags, Docs
        <5>2. \A d, p : d.used \subseteq Patched(d, p).used
          BY DEF Patched, AddTags
        <5>3. \A d, p : OrNone(p.weak) \cup OrNone(p.tags) \cup OrNone(p.used) \subseteq Patched(d, p).used
          BY DEF Patched, AddTags, OrNone
        <5>4. profile \in Docs
          BY DEF TypeOK, SharedTypes
        <5>5. CASE Drafted(r, Recorded(profile, mem[r].tags), FALSE, mem[r].tags)
          BY <5>1, <5>4, <5>5
        <5>6. CASE Drafted(r, Synced(profile, mem[r].tags), TRUE, mem[r].tags)
          BY <5>1, <5>4, <5>6
        <5>7. CASE \E p \in Patches :
                     Drafted(r, Patched(profile, p), p.weak # None,
                             OrNone(p.weak) \cup OrNone(p.tags) \cup OrNone(p.used))
          BY <5>2, <5>3, <5>7
        <5> QED
          BY <4>1, <5>5, <5>6, <5>7, GetStep
      <4>4. mem'[r].draft = d /\ mem'[r].base = Len(writes) /\ mem'[r].tags = T
        BY <4>3, Fields DEF Drafted, Locals
      <4>5. \A i \in DOMAIN writes : \/ writes[i].tags \subseteq profile.used
                                     \/ \E j \in DOMAIN writes : Stale(j, i)
        BY DEF UsedInv, UsedTagsKept
      <4> QED
        BY <2>1, <2>2, <3>2, <4>2, <4>3, <4>4, <4>5, LostStays DEF WritesOf
    <3> QED
      BY <3>1, <3>2
  <2> QED
    BY <2>3, <2>4 DEF UsedInv, UsedTagsKept
<1> QED
  BY <1>1, <1>2

\* A tag once written to all_tags_used stays there, unless a handler that read
\* the document before that write wrote its copy back after it: no SET, merge
\* or order of the calls loses it in another way.
THEOREM UsedTagsKeptProved == Spec => []UsedTagsKept
<1>1. Init => UsedInv
  <2> SUFFICES ASSUME Init PROVE UsedInv
    OBVIOUS
  <2>1. DOMAIN writes = {}
    BY DEF Init
  <2>2. \A r \in Requests : pc[r] # "set"
    <3> TAKE r \in Requests
    <3>1. kind[r] \in DOMAIN Route /\ pc[r] = Route[kind[r]].begin
      BY KindsServed DEF Init
    <3> QED
      BY <3>1 DEF Route, Analyze, QueueMerge, GenerateTask, FromProgress,
         PutProgress, PutProfile, AnalyzeHistory, TaskHistory
  <2> QED
    BY <2>1, <2>2 DEF UsedInv, UsedTagsKept
<1>2. UsedInv => UsedTagsKept
  BY DEF UsedInv
<1> QED
  BY <1>1, <1>2, UsedStep, TypesProved, PTL DEF Spec

\* Only PUT /v1/user/progress changes the progress, and a request that is over
\* takes no step.
LEMMA ProgressBySet ==
  ASSUME NEW r \in Requests, Step(r)
  PROVE  /\ SetProgress(r) \/ UNCHANGED <<progress, latest>>
         /\ pc[r] # "done"
<1>1. SetProgress(r) \/ UNCHANGED <<progress, latest>>
  BY DEF Step, InferAnalysis, InferTask, Push, Trim, HGet, HSet, GetProgress, Weakest,
    Get, Set, LLen, LRange, Fail, shared, past
<1>2. pc[r] # "done"
  BY DEF Step, InferAnalysis, InferTask, Push, Trim, HGet, HSet, SetProgress, GetProgress, Weakest,
    Get, Set, LLen, LRange, Fail
<1> QED
  BY <1>1, <1>2

\* The PUT of a progress.
LEMMA MirrorAtSetProgress ==
  ASSUME TypeOK, MirrorInv, NEW r \in Requests, SetProgress(r)
  PROVE  MirrorInv'
<1>1. Step(r)
  BY DEF Step
<1>2. /\ pc[r] = "setprogress" /\ latest' = r /\ UNCHANGED <<profile, writes, kind>>
  BY DEF SetProgress
<1>3. pc'[r] = "get" /\ mem'[r] = [mem[r] EXCEPT !.tags = progress']
  BY SetProgressStep DEF Moved
<1>4. \A i \in DOMAIN writes : writes[i].by # r /\ writes[i].by \in Requests
  BY <1>2, Authors DEF MirrorInv
<1>5. ProgressMirrored'
  BY <1>2, <1>4 DEF ProgressMirrored
<1>6. \A i \in DOMAIN writes' : pc'[writes'[i].by] = "done"
  BY <1>1, <1>2, <1>4, StepKeeps DEF MirrorInv
<1>7. kind[r] = "progress"
  BY <1>2, Fields DEF Callers
<1>8. mem'[r].tags = progress'
  BY <1>3, Fields DEF Locals
<1>9. ASSUME NEW q \in Requests, pc'[q] = "set"
      PROVE  /\ mem'[q].base <= Len(writes)
             /\ \A i \in WritesOf(mem'[q].base) : writes[i].by # r
  <2>1. q # r /\ pc[q] = "set" /\ mem'[q] = mem[q]
    BY <1>1, <1>3, <1>9, StepKeeps DEF Others
  <2>2. mem[q].base \in Nat /\ mem[q].base <= Len(writes) /\ DOMAIN writes = 1 .. Len(writes)
        /\ Len(writes) \in Nat
    BY <2>1, Fields DEF MirrorInv, Locals, TypeOK, SharedTypes
  <2> QED
    BY <1>4, <2>1, <2>2 DEF WritesOf
<1> QED
  BY <1>2, <1>3, <1>5, <1>6, <1>7, <1>8, <1>9 DEF MirrorInv, WritesOf

\* The SET of a profile.
LEMMA MirrorAtSet ==
  ASSUME TypeOK, MirrorInv, NEW r \in Requests, Set(r)
  PROVE  MirrorInv'
<1>1. Step(r) /\ pc[r] = "set" /\ UNCHANGED <<progress, latest, kind>> /\ pc'[r] = "done"
  BY SetStep DEF Step, Set, Moved
<1>2. /\ profile' = mem[r].draft /\ mem[r].base \in Nat
      /\ writes'[Len(writes')].by = r /\ writes'[Len(writes')].setsWeak = mem[r].setsWeak
  <2>1. mem[r].base \in Nat
    BY Fields DEF Locals
  <2>2. /\ profile' = mem[r].draft
        /\ writes'[Len(writes')] = [by |-> r, base |-> mem[r].base, tags |-> mem[r].tags,
                                    setsWeak |-> mem[r].setsWeak]
    BY WriteAdded
  <2> QED
    BY <2>1, <2>2
<1>3. /\ DOMAIN writes = 1 .. Len(writes) /\ Len(writes) \in Nat /\ Len(writes') = Len(writes) + 1
      /\ \A i \in DOMAIN writes : i \in Nat /\ i \in DOMAIN writes' /\ writes'[i] = writes[i]
      /\ \A i \in DOMAIN writes' : i \in DOMAIN writes \/ i = Len(writes')
      /\ Len(writes') \in DOMAIN writes'
  BY WriteAdded
<1>4. ASSUME NEW i \in DOMAIN writes', writes'[i].by = latest
      PROVE  profile'.weak = progress \/ Superseded(i)'
  <2>1. CASE i = Len(writes')
    BY <1>1, <1>2, <1>4, <2>1 DEF MirrorInv
  <2>2. CASE i \in DOMAIN writes /\ i > mem[r].base
    <3>1. \E j \in DOMAIN writes' : Stale(j, i)'
      BY <2>2, WriteLoses
    <3> QED
      BY <3>1 DEF Superseded
  <2>3. CASE i \in DOMAIN writes /\ ~ i > mem[r].base
    <3>1. i \in WritesOf(mem[r].base) /\ writes[i].by = latest
      BY <1>2, <1>3, <1>4, <2>3 DEF WritesOf
    <3>2. mem[r].draft.weak = progress \/ mem[r].setsWeak \/ Superseded(i)
      BY <1>1, <3>1 DEF MirrorInv
    <3>3. Superseded(i) => Superseded(i)'
      BY <1>1, <2>3, LostStays
    <3>4. ASSUME mem[r].setsWeak PROVE Superseded(i)'
      <4>1. Len(writes') > i
        BY <1>3, <2>3
      <4>2. \E j \in DOMAIN writes' : j > i /\ writes'[j].setsWeak
        BY <1>2, <1>3, <3>4, <4>1
      <4> QED
        BY <4>2 DEF Superseded
    <3> QED
      BY <1>2, <3>2, <3>3, <3>4
  <2> QED
    BY <1>3, <2>1, <2>2, <2>3
<1>5. ProgressMirrored'
  BY <1>1, <1>4 DEF ProgressMirrored, Superseded
<1>6. \A i \in DOMAIN writes' : pc'[writes'[i].by] = "done"
  <2>1. ASSUME NEW i \in DOMAIN writes PROVE pc'[writes[i].by] = "done"
    <3>1. writes[i].by \in Requests /\ pc[writes[i].by] = "done"
      BY Authors DEF MirrorInv
    <3> QED
      BY <1>1, <3>1, StepKeeps
  <2> QED
    BY <1>1, <1>2, <1>3, <2>1
<1>7. ASSUME latest \in Requests
      PROVE  /\ kind[latest] = "progress"
             /\ pc'[latest] \in {"get", "set"} => mem'[latest].tags = progress
             /\ pc'[latest] = "set" => mem'[latest].draft.weak = progress
  BY <1>1, <1>7, StepKeeps DEF MirrorInv, Others
<1>8. ASSUME NEW q \in Requests, pc'[q] = "set"
      PROVE  /\ mem'[q].base <= Len(writes')
             /\ \A i \in WritesOf(mem'[q].base) : writes'[i].by = latest =>
                  mem'[q].draft.weak = progress \/ mem'[q].setsWeak \/ Superseded(i)'
  <2>1. q # r /\ pc[q] = "set" /\ mem'[q] = mem[q]
    BY <1>1, <1>8, StepKeeps DEF Others
  <2>2. mem[q].base \in Nat /\ mem[q].base <= Len(writes)
    BY <2>1, Fields DEF MirrorInv, Locals
  <2>3. ASSUME NEW i \in WritesOf(mem[q].base), writes'[i].by = latest
        PROVE  mem[q].draft.weak = progress \/ mem[q].setsWeak \/ Superseded(i)'
    <3>1. i \in DOMAIN writes /\ writes'[i] = writes[i]
      BY <1>3, <2>2 DEF WritesOf
    <3>2. mem[q].draft.weak = progress \/ mem[q].setsWeak \/ Superseded(i)
      BY <2>1, <2>3, <3>1 DEF MirrorInv
    <3> QED
      BY <1>1, <3>1, <3>2, LostStays
  <2> QED
    BY <1>3, <2>1, <2>2, <2>3
<1> QED
  BY <1>1, <1>5, <1>6, <1>7, <1>8 DEF MirrorInv, WritesOf

\* The steps that leave profile and progress alone: a draft is made or not.
LEMMA MirrorElsewhere ==
  ASSUME TypeOK, MirrorInv, NEW r \in Requests, Step(r), ~ Set(r), ~ SetProgress(r)
  PROVE  MirrorInv'
<1>1. UNCHANGED <<profile, writes, progress, latest, kind>>
  BY WritesBySet, ProgressBySet, StepKeeps
<1>2. ASSUME NEW i \in DOMAIN writes PROVE pc'[writes[i].by] = "done"
  <2>1. writes[i].by \in Requests /\ pc[writes[i].by] = "done"
    BY Authors DEF MirrorInv
  <2> QED
    BY <2>1, StepKeeps, ProgressBySet
<1>3. \A i \in DOMAIN writes : Superseded(i) => Superseded(i)'
  BY LostStays
<1>4. ProgressMirrored'
  BY <1>1 DEF MirrorInv, ProgressMirrored, Stale
<1>5. /\ Len(writes) \in Nat /\ DOMAIN writes = 1 .. Len(writes)
  BY DEF TypeOK, SharedTypes
<1>6. CASE Get(r)
  <2>1. pc[r] = "get"
    BY <1>6 DEF Get
  <2>2. PICK d, b, T : Drafted(r, d, b, T)
    BY <1>6, GetStep
  <2>3. mem'[r].draft = d /\ mem'[r].base = Len(writes) /\ mem'[r].setsWeak = b /\ mem'[r].tags = T
    BY <2>2, Fields DEF Drafted, Locals
  <2>4. b = TRUE \/ mem'[r].draft.weak = profile.weak
    <3>1. profile \in Docs /\ mem[r] \in Locals
      BY Fields DEF TypeOK, SharedTypes
    <3>2. CASE Drafted(r, Recorded(profile, mem[r].tags), FALSE, mem[r].tags)
      <4>1. mem'[r].draft = Recorded(profile, mem[r].tags)
        BY <3>1, <3>2 DEF Drafted, Locals
      <4> QED
        BY <3>1, <4>1 DEF Recorded, Docs
    <3>3. CASE Drafted(r, Synced(profile, mem[r].tags), TRUE, mem[r].tags)
      BY <2>3, <3>1, <3>3 DEF Drafted, Locals
    <3>4. CASE \E p \in Patches :
                     Drafted(r, Patched(profile, p), p.weak # None,
                             OrNone(p.weak) \cup OrNone(p.tags) \cup OrNone(p.used))
      <4>1. PICK p \in Patches : mem'[r].draft = Patched(profile, p) /\ mem'[r].setsWeak = (p.weak # None)
        BY <3>1, <3>4 DEF Drafted, Locals
      <4>2. CASE p.weak = None
        BY <4>1, <4>2 DEF Patched
      <4>3. CASE p.weak # None
        <5>1. (p.weak # None) = TRUE
          BY <4>3
        <5> QED
          BY <2>3, <4>1, <5>1
      <4> QED
        BY <4>2, <4>3
    <3> QED
      BY <1>6, <3>2, <3>3, <3>4, GetStep
  <2>5. ASSUME latest = r
        PROVE  mem'[r].tags = progress /\ mem'[r].draft.weak = progress
    <3>1. kind[r] = "progress" /\ mem[r].tags = progress
      BY <2>1, <2>5 DEF MirrorInv
    <3>2. Drafted(r, Synced(profile, mem[r].tags), TRUE, mem[r].tags)
      BY <1>6, <3>1, GetStep
    <3>3. mem'[r].draft = Synced(profile, mem[r].tags) /\ mem'[r].tags = mem[r].tags
      BY <3>2, Fields DEF Drafted, Locals
    <3>4. Synced(profile, mem[r].tags).weak = mem[r].tags
      BY DEF Synced, TypeOK, SharedTypes, Docs
    <3> QED
      BY <3>1, <3>3, <3>4
  <2>6. ASSUME latest \in Requests
        PROVE  /\ kind[latest] = "progress"
               /\ pc'[latest] \in {"get", "set"} => mem'[latest].tags = progress
               /\ pc'[latest] = "set" => mem'[latest].draft.weak = progress
    BY <2>5, <2>6, StepKeeps DEF MirrorInv, Others
  <2>7. ASSUME NEW q \in Requests, pc'[q] = "set"
        PROVE  /\ mem'[q].base <= Len(writes)
               /\ \A i \in WritesOf(mem'[q].base) : writes[i].by = latest =>
                    mem'[q].draft.weak = progress \/ mem'[q].setsWeak \/ Superseded(i)'
    <3>1. CASE q = r
      <4>1. mem'[q].base = Len(writes)
        BY <2>3, <3>1
      <4>2. ASSUME NEW i \in DOMAIN writes, writes[i].by = latest
            PROVE  mem'[q].draft.weak = progress \/ mem'[q].setsWeak \/ Superseded(i)'
        <5>1. profile.weak = progress \/ Superseded(i)
          BY <4>2 DEF MirrorInv, ProgressMirrored, Superseded
        <5> QED
          BY <1>3, <2>3, <2>4, <3>1, <5>1
      <4> QED
        BY <1>5, <4>1, <4>2 DEF WritesOf
    <3>2. CASE q # r
      <4>1. pc[q] = "set" /\ mem'[q] = mem[q] /\ mem[q].base \in Nat
        BY <2>7, <3>2, StepKeeps, Fields DEF Others, Locals
      <4>2. mem[q].base <= Len(writes)
        BY <4>1 DEF MirrorInv
      <4>3. \A i \in WritesOf(mem[q].base) : i \in DOMAIN writes
        BY <1>5, <4>1, <4>2 DEF WritesOf
      <4> QED
        BY <1>3, <4>1, <4>2, <4>3 DEF MirrorInv
    <3> QED
      BY <3>1, <3>2
  <2> QED
    BY <1>1, <1>2, <1>4, <2>6, <2>7 DEF MirrorInv, WritesOf
<1>7. CASE ~ Get(r)
  <2>1. pc'[r] # "set"
    BY <1>7, Reached
  <2>2. pc'[r] = "get" => kind[r] # "progress"
    <3>1. pc'[r] = "get" => pc[r] \in {"trim", "hset"}
      BY Reached DEF Trim, HSet
    <3> QED
      BY <3>1, Fields DEF Callers
  <2>3. ASSUME latest \in Requests
        PROVE  /\ kind[latest] = "progress"
               /\ pc'[latest] \in {"get", "set"} => mem'[latest].tags = progress
               /\ pc'[latest] = "set" => mem'[latest].draft.weak = progress
    BY <2>1, <2>2, <2>3, StepKeeps DEF MirrorInv, Others
  <2>4. ASSUME NEW q \in Requests, pc'[q] = "set"
        PROVE  /\ mem'[q].base <= Len(writes)
               /\ \A i \in WritesOf(mem'[q].base) : writes[i].by = latest =>
                    mem'[q].draft.weak = progress \/ mem'[q].setsWeak \/ Superseded(i)'
    <3>1. q # r
      BY <2>1, <2>4
    <3>2. pc[q] = "set" /\ mem'[q] = mem[q]
      BY <2>4, <3>1, StepKeeps DEF Others
    <3>3. mem[q].base \in Nat /\ mem[q].base <= Len(writes)
      BY <3>2, Fields DEF MirrorInv, Locals
    <3>4. \A i \in WritesOf(mem[q].base) : i \in DOMAIN writes
      BY <1>5, <3>3 DEF WritesOf
    <3> QED
      BY <1>3, <3>2, <3>3, <3>4 DEF MirrorInv
  <2> QED
    BY <1>1, <1>2, <1>4, <2>3, <2>4 DEF MirrorInv, WritesOf
<1> QED
  BY <1>6, <1>7

LEMMA MirrorStep == TypeOK /\ MirrorInv /\ [Next]_vars => MirrorInv'
<1> SUFFICES ASSUME TypeOK, MirrorInv, [Next]_vars PROVE MirrorInv'
  OBVIOUS
<1>1. CASE UNCHANGED vars
  BY <1>1 DEF MirrorInv, ProgressMirrored, Superseded, Stale, WritesOf, vars, shared, past
<1>2. CASE Next
  <2>1. PICK r \in Requests : Step(r)
    BY <1>2 DEF Next, Step
  <2> QED
    BY <2>1, MirrorAtSetProgress, MirrorAtSet, MirrorElsewhere
<1> QED
  BY <1>1, <1>2

\* Once PUT /v1/user/progress is over, the progress and the profile name the
\* same weak tags, unless a handler put an older profile back or another
\* request wrote weak tags since: the two documents drift apart in no other way.
THEOREM ProgressMirroredProved == Spec => []ProgressMirrored
<1>1. Init => MirrorInv
  <2> SUFFICES ASSUME Init PROVE MirrorInv
    OBVIOUS
  <2>1. DOMAIN writes = {} /\ latest \notin Requests
    BY AbsentAssumption DEF Init
  <2>2. \A r \in Requests : pc[r] # "set"
    <3> TAKE r \in Requests
    <3>1. kind[r] \in DOMAIN Route /\ pc[r] = Route[kind[r]].begin
      BY KindsServed DEF Init
    <3> QED
      BY <3>1 DEF Route, Analyze, QueueMerge, GenerateTask, FromProgress,
         PutProgress, PutProfile, AnalyzeHistory, TaskHistory
  <2> QED
    BY <2>1, <2>2 DEF MirrorInv, ProgressMirrored
<1>2. MirrorInv => ProgressMirrored
  BY DEF MirrorInv
<1> QED
  BY <1>1, <1>2, MirrorStep, TypesProved, PTL DEF Spec
-----------------------------------------------------------------------------
(* A history that moves under a client that reads it page by page.         *)

Lists == {"analyze", "task"}

\* A request before its LPUSH, and the entry it is to make.
BeforePush(r) == pc[r] \in {"infer", "getprogress", "weakest", "push"}

FreshInv ==
  \A r \in Requests : BeforePush(r) =>
    /\ \A l \in Lists : r \notin ToSet(hist[l])
    /\ \A q \in Requests : r \notin mem[q].owed

\* Of the first n entries of its list the client has seen all that it must.
Covered(r, n) ==
  \A i \in 1 .. Len(hist[ListOf(r)]) :
    i <= n /\ hist[ListOf(r)][i] \in mem[r].owed => hist[ListOf(r)][i] \in mem[r].seen

\* A page ends where the entries the client has seen end, or further down: new
\* entries come before them, and a trim takes the last.
PageOK(r) ==
  kind[r] \in Pages =>
    /\ pc[r] \in {"llen", "lrange"} => Covered(r, mem[r].offset)
    /\ pc[r] = "done" => Covered(r, Len(hist[ListOf(r)]))
    /\ pc[r] = "lrange" => mem[r].total > mem[r].offset

PageInv == FreshInv /\ \A r \in Requests : PageOK(r)

\* Only LPUSH and LTRIM change a history, and only LLEN what a client must see.
LEMMA HistBySteps ==
  ASSUME TypeOK, NEW r \in Requests, Step(r)
  PROVE  /\ Push(r) \/ Trim(r) \/ UNCHANGED hist
         /\ LLen(r) \/ mem'[r].owed = mem[r].owed
<1>1. Push(r) \/ Trim(r) \/ UNCHANGED hist
  BY DEF Step, InferAnalysis, InferTask, HGet, HSet, SetProgress, GetProgress, Weakest,
    Get, Set, LLen, LRange, Fail, shared
<1>2. mem[r] \in Locals
  BY Fields
<1>3. CASE InferAnalysis(r)
  BY <1>1, <1>2, <1>3, InferAnalysisStep DEF Locals
<1>4. CASE InferTask(r)
  BY <1>1, <1>2, <1>4, InferTaskStep DEF Locals
<1>5. CASE UNCHANGED mem
  BY <1>1, <1>5
<1>6. CASE HGet(r)
  BY <1>1, <1>2, <1>6, HGetStep DEF Locals
<1>7. CASE HSet(r)
  BY <1>1, <1>2, <1>7, HSetStep DEF Locals
<1>8. CASE SetProgress(r)
  BY <1>1, <1>2, <1>8, SetProgressStep DEF Locals
<1>9. CASE GetProgress(r)
  BY <1>1, <1>2, <1>9, GetProgressStep DEF Locals
<1>10. CASE Weakest(r)
  BY <1>1, <1>2, <1>10, WeakestStep DEF Locals
<1>11. CASE Get(r)
  BY <1>1, <1>2, <1>11, GetStep DEF Locals, Drafted
<1>12. CASE Set(r)
  BY <1>1, <1>2, <1>12, SetStep DEF Locals
<1>13. CASE LRange(r)
  BY <1>1, <1>2, <1>13, LRangeStep DEF Locals
<1>14. Push(r) \/ Trim(r) \/ Fail(r) => UNCHANGED mem
  BY DEF Push, Trim, Fail
<1>15. CASE LLen(r)
  BY <1>1, <1>15
<1> QED
  BY <1>3, <1>4, <1>5, <1>6, <1>7, <1>8, <1>9, <1>10, <1>11, <1>12, <1>13, <1>14, <1>15 DEF Step

\* A list with a new first entry, and a list cut at the end.
LEMMA PushedList ==
  ASSUME NEW S, NEW L \in Seq(S), NEW x \in S
  PROVE  LET K == <<x>> \o L IN
         /\ Len(K) = Len(L) + 1 /\ Len(L) \in Nat
         /\ \A i \in 1 .. Len(K) : IF i = 1 THEN K[i] = x ELSE i - 1 \in 1 .. Len(L) /\ K[i] = L[i - 1]
         /\ ToSet(K) = {x} \cup ToSet(L)
<1> DEFINE K == <<x>> \o L
<1>1. K \in Seq(S) /\ Len(K) = Len(L) + 1 /\ Len(L) \in Nat
  OBVIOUS
<1>2. \A i \in 1 .. Len(K) : K[i] = IF i = 1 THEN x ELSE L[i - 1]
  BY <1>1
<1>3. DOMAIN K = 1 .. Len(L) + 1 /\ DOMAIN L = 1 .. Len(L)
  BY <1>1
<1> HIDE DEF K
<1>4. \A i \in 1 .. Len(K) : IF i = 1 THEN K[i] = x ELSE i - 1 \in 1 .. Len(L) /\ K[i] = L[i - 1]
  BY <1>1, <1>2
<1>5. ToSet(K) \subseteq {x} \cup ToSet(L)
  BY <1>1, <1>3, <1>4 DEF ToSet
<1>6. x \in ToSet(K)
  BY <1>1, <1>2, <1>3 DEF ToSet
<1>7. ASSUME NEW i \in 1 .. Len(L) PROVE L[i] \in ToSet(K)
  <2>1. K[i + 1] = L[i] /\ i + 1 \in DOMAIN K
    BY <1>1, <1>2, <1>3
  <2> QED
    BY <2>1 DEF ToSet
<1>8. ToSet(K) = {x} \cup ToSet(L)
  BY <1>3, <1>5, <1>6, <1>7 DEF ToSet
<1> QED
  BY <1>1, <1>4, <1>8 DEF K

LEMMA CutList ==
  ASSUME NEW S, NEW L \in Seq(S), NEW K \in Seq(S), Len(K) <= Len(L),
         \A i \in 1 .. Len(K) : K[i] = L[i]
  PROVE  ToSet(K) \subseteq ToSet(L)
<1>1. DOMAIN K = 1 .. Len(K) /\ DOMAIN L = 1 .. Len(L) /\ Len(K) \in Nat /\ Len(L) \in Nat
  OBVIOUS
<1> QED
  BY <1>1 DEF ToSet

\* A request is in no history and in no client's account before its LPUSH.
LEMMA FreshStep ==
  ASSUME TypeOK, FreshInv, NEW r \in Requests, Step(r)
  PROVE  FreshInv'
<1> SUFFICES ASSUME NEW p \in Requests, BeforePush(p)'
             PROVE  /\ \A l \in Lists : p \notin ToSet(hist'[l])
                    /\ \A q \in Requests : p \notin mem'[q].owed
  BY DEF FreshInv, Lists
<1>1. BeforePush(p)
  <2>1. CASE p = r
    BY <2>1, Reached DEF BeforePush, GetProgress
  <2>2. CASE p # r
    BY <2>2, StepKeeps DEF BeforePush
  <2> QED
    BY <2>1, <2>2
<1>2. (\A l \in Lists : p \notin ToSet(hist[l])) /\ \A q \in Requests : p \notin mem[q].owed
  BY <1>1 DEF FreshInv
<1>3. ListOf(r) \in Lists /\ hist[ListOf(r)] \in Seq(Entries) /\ DOMAIN hist = Lists
  BY Fields DEF TypeOK, SharedTypes, Lists
<1>4. ASSUME NEW l \in Lists PROVE p \notin ToSet(hist'[l])
  <2>1. CASE UNCHANGED hist
    BY <1>2, <2>1
  <2>2. CASE Push(r)
    <3>1. hist'[l] = IF l = ListOf(r) THEN <<r>> \o hist[ListOf(r)] ELSE hist[l]
      BY <1>3, <2>2, PushStep
    <3>2. p # r
      BY <2>2, PushStep DEF Moved, BeforePush
    <3>3. r \in Entries
      BY DEF Entries
    <3>4. ToSet(<<r>> \o hist[ListOf(r)]) = {r} \cup ToSet(hist[ListOf(r)])
      BY <1>3, <3>3, PushedList
    <3> QED
      BY <1>2, <3>1, <3>2, <3>4
  <2>3. CASE Trim(r)
    <3>1. PICK K \in Seq(Entries) : /\ hist' = [hist EXCEPT ![ListOf(r)] = K]
                                    /\ Len(K) <= Len(hist[ListOf(r)])
                                    /\ \A i \in 1 .. Len(K) : K[i] = hist[ListOf(r)][i]
      BY <2>3, TrimStep
    <3>2. hist'[l] = IF l = ListOf(r) THEN K ELSE hist[l]
      BY <1>3, <3>1
    <3>3. ToSet(K) \subseteq ToSet(hist[ListOf(r)])
      BY <1>3, <3>1, CutList
    <3> QED
      BY <1>2, <3>2, <3>3
  <2> QED
    BY <2>1, <2>2, <2>3, HistBySteps
<1>5. ASSUME NEW q \in Requests PROVE p \notin mem'[q].owed
  <2>1. CASE q # r
    BY <1>2, <2>1, StepKeeps DEF Others
  <2>2. CASE q = r /\ LLen(r)
    <3>1. mem'[r].owed = IF mem[r].offset = 0 THEN ToSet(hist[ListOf(r)]) ELSE mem[r].owed
      BY <2>2, LLenStep, Fields DEF Locals
    <3> QED
      BY <1>2, <1>3, <2>2, <3>1
  <2>3. CASE q = r /\ ~ LLen(r)
    BY <1>2, <2>3, HistBySteps
  <2> QED
    BY <2>1, <2>2, <2>3
<1> QED
  BY <1>4, <1>5

\* A step of another request: its entry goes before the ones the client has
\* seen, its trim takes the last.
LEMMA PageOther ==
  ASSUME TypeOK, FreshInv, NEW r \in Requests, Step(r), NEW q \in Requests, q # r, PageOK(q)
  PROVE  PageOK(q)'
<1>1. pc'[q] = pc[q] /\ mem'[q] = mem[q] /\ UNCHANGED kind
  BY StepKeeps DEF Others
<1> DEFINE l == ListOf(q)
<1>2. UNCHANGED l /\ l \in Lists
  BY <1>1 DEF ListOf, Lists
<1>3. ListOf(r) \in Lists /\ hist[ListOf(r)] \in Seq(Entries) /\ DOMAIN hist = Lists
      /\ hist[l] \in Seq(Entries)
  BY <1>2, Fields DEF TypeOK, SharedTypes, Lists
<1>4. mem[q].offset \in Nat
  BY Fields DEF Locals
<1> DEFINE Cov(L, n) == \A i \in 1 .. Len(L) : i <= n /\ L[i] \in mem[q].owed => L[i] \in mem[q].seen
<1>5. \A n \in Nat : Cov(hist[l], n) => Cov(hist'[l], n)
  <2>1. CASE UNCHANGED hist
    BY <2>1
  <2>2. CASE Push(r) /\ l = ListOf(r)
    <3> DEFINE L == hist[l]
               K == <<r>> \o L
    <3>1. hist'[l] = K
      BY <1>3, <2>2, PushStep
    <3>2. BeforePush(r)
      BY <2>2, PushStep DEF Moved, BeforePush
    <3>3. r \notin mem[q].owed
      BY <3>2 DEF FreshInv
    <3>4. r \in Entries
      BY DEF Entries
    <3>5. /\ Len(K) = Len(L) + 1 /\ Len(L) \in Nat
          /\ \A i \in 1 .. Len(K) : IF i = 1 THEN K[i] = r ELSE i - 1 \in 1 .. Len(L) /\ K[i] = L[i - 1]
      BY <1>3, <3>4, PushedList
    <3> HIDE DEF K, L
    <3>6. ASSUME NEW n \in Nat, Cov(L, n) PROVE Cov(K, n)
      <4> SUFFICES ASSUME NEW i \in 1 .. Len(K), i <= n, K[i] \in mem[q].owed
                   PROVE  K[i] \in mem[q].seen
        OBVIOUS
      <4>1. i # 1 /\ i - 1 \in 1 .. Len(L) /\ K[i] = L[i - 1]
        BY <3>3, <3>5
      <4>2. i - 1 <= n
        BY <3>5, <4>1
      <4> QED
        BY <3>6, <4>1, <4>2
    <3> QED
      BY <3>1, <3>6 DEF L
  <2>3. CASE Trim(r) /\ l = ListOf(r)
    <3>1. PICK K \in Seq(Entries) : /\ hist' = [hist EXCEPT ![l] = K]
                                    /\ Len(K) <= Len(hist[l])
                                    /\ \A i \in 1 .. Len(K) : K[i] = hist[l][i]
      BY <2>3, TrimStep
    <3>2. hist'[l] = K
      BY <1>3, <2>3, <3>1
    <3>3. \A i \in 1 .. Len(K) : i \in 1 .. Len(hist[l])
      BY <1>3, <3>1
    <3> QED
      BY <3>1, <3>2, <3>3
  <2>4. CASE (Push(r) \/ Trim(r)) /\ l # ListOf(r)
    <3>1. hist'[l] = hist[l]
      BY <1>2, <1>3, <2>4, PushStep, TrimStep
    <3> QED
      BY <3>1
  <2> QED
    BY <2>1, <2>2, <2>3, <2>4, HistBySteps
<1>6. Cov(hist[l], Len(hist[l])) => Cov(hist'[l], Len(hist'[l]))
  <2>1. SUFFICES ASSUME Cov(hist[l], Len(hist[l])) PROVE Cov(hist'[l], Len(hist'[l]))
    OBVIOUS
  <2>2. Len(hist'[l]) \in Nat /\ Len(hist[l]) \in Nat
    <3>1. TypeOK'
      BY StepKeeps
    <3>2. hist' \in [Lists -> Seq(Entries)]
      BY <3>1 DEF TypeOK, SharedTypes, Lists, Entries
    <3> HIDE DEF l
    <3>3. hist'[l] \in Seq(Entries)
      BY <1>2, <3>2
    <3>4. \A L \in Seq(Entries) : Len(L) \in Nat
      OBVIOUS
    <3> QED
      BY <1>3, <3>3, <3>4
  <2> DEFINE n == Len(hist'[l])
  <2>3. n \in Nat /\ \A i \in 1 .. Len(hist[l]) : i <= Len(hist[l])
    BY <2>2
  <2> HIDE DEF n
  <2>4. Cov(hist[l], n)
    BY <2>1, <2>3
  <2>5. Cov(hist'[l], n)
    BY <1>5, <2>3, <2>4
  <2> QED
    BY <2>5 DEF n
<1>7. /\ Covered(q, mem[q].offset) <=> Cov(hist[l], mem[q].offset)
      /\ Covered(q, Len(hist[ListOf(q)])) <=> Cov(hist[l], Len(hist[l]))
      /\ Covered(q, mem[q].offset)' <=> Cov(hist'[l], mem[q].offset)
      /\ Covered(q, Len(hist[ListOf(q)]))' <=> Cov(hist'[l], Len(hist'[l]))
  BY <1>1, <1>2 DEF Covered
<1> QED
  BY <1>1, <1>4, <1>5, <1>6, <1>7 DEF PageOK

\* A step of the client: LLEN finds the end or not, and LRANGE reads on from
\* where the last page ended.
LEMMA PageOwn ==
  ASSUME TypeOK, NEW r \in Requests, Step(r), PageOK(r)
  PROVE  PageOK(r)'
<1> SUFFICES ASSUME kind'[r] \in Pages PROVE PageOK(r)'
  BY DEF PageOK, Pages
<1> DEFINE L == hist[ListOf(r)]
<1>1. kind[r] \in Pages /\ UNCHANGED kind
  BY StepKeeps
<1>2. pc[r] \in {"llen", "lrange", "done", "failed", "notfound"}
  BY <1>1, Fields DEF Callers, Pages
<1>3. L \in Seq(Entries) /\ mem[r] \in Locals
  BY Fields
<1>4. CASE LLen(r)
  <2>1. UNCHANGED hist /\ pc[r] = "llen" /\ UNCHANGED L
    BY <1>1, <1>4 DEF LLen, shared, ListOf
  <2>2. mem'[r] = [mem[r] EXCEPT !.total = Len(L),
                     !.owed = IF mem[r].offset = 0 THEN ToSet(L) ELSE mem[r].owed]
    BY <1>4, LLenStep
  <2>3. /\ mem'[r].offset = mem[r].offset /\ mem'[r].seen = mem[r].seen /\ mem'[r].total = Len(L)
        /\ mem[r].offset # 0 => mem'[r].owed = mem[r].owed
        /\ mem[r].offset \in Nat /\ Len(L) \in Nat
    BY <1>3, <2>2 DEF Locals
  <2>4. pc'[r] = (IF mem[r].offset >= Len(L) THEN "done" ELSE "lrange")
    BY <1>4, LLenStep
  <2>5. \A i \in 1 .. Len(L) : i <= mem[r].offset /\ L[i] \in mem'[r].owed => L[i] \in mem'[r].seen
    <3>1. CASE mem[r].offset = 0
      BY <3>1
    <3>2. CASE mem[r].offset # 0
      BY <1>1, <2>1, <2>3, <3>2 DEF PageOK, Covered
    <3> QED
      BY <3>1, <3>2
  <2> HIDE DEF L
  <2>6. CASE mem[r].offset >= Len(L)
    <3>1. pc'[r] = "done"
      BY <2>4, <2>6
    <3>2. \A i \in 1 .. Len(L) : L[i] \in mem'[r].owed => L[i] \in mem'[r].seen
      BY <2>3, <2>5, <2>6
    <3> QED
      BY <2>1, <3>1, <3>2 DEF PageOK, Covered, L
  <2>7. CASE ~ mem[r].offset >= Len(L)
    <3>1. pc'[r] = "lrange" /\ mem'[r].total > mem'[r].offset
      BY <2>3, <2>4, <2>7
    <3> QED
      BY <2>1, <2>3, <2>5, <3>1 DEF PageOK, Covered, L
  <2> QED
    BY <2>6, <2>7
<1>5. CASE LRange(r)
  <2> DEFINE from == mem[r].offset
             n    == Min({PageLimit, mem[r].total - from})
             rows == SubSeq(L, from + 1, Min({from + n, Len(L)}))
  <2>1. UNCHANGED hist /\ pc[r] = "lrange" /\ UNCHANGED L
    BY <1>1, <1>5 DEF LRange, shared, ListOf
  <2>2. /\ pc'[r] = (IF rows = <<>> THEN "done" ELSE "llen")
        /\ mem'[r] = [mem[r] EXCEPT !.offset = from + Len(rows),
                        !.seen = mem[r].seen \cup ToSet(rows), !.total = 0]
    BY <1>5, LRangeStep
  <2>3. from \in Nat /\ mem[r].total \in Nat /\ mem[r].total > from
    BY <1>1, <1>3, <2>1 DEF PageOK, Locals
  <2>4. /\ rows \in Seq(Entries)
        /\ \A i \in 1 .. Len(rows) : from + i \in 1 .. Len(L) /\ rows[i] = L[from + i]
        /\ mem[r].total > from /\ Len(L) > from => rows # <<>>
    BY <1>3, <2>3, PageRows
  <2>5. \A i \in 1 .. Len(L) : i <= from /\ L[i] \in mem[r].owed => L[i] \in mem[r].seen
    BY <1>1, <2>1 DEF PageOK, Covered
  <2> HIDE DEF rows
  <2> DEFINE seen == mem[r].seen \cup ToSet(rows)
             last == from + Len(rows)
  <2>6. mem'[r].owed = mem[r].owed /\ mem'[r].seen = seen /\ mem'[r].offset = last
    BY <1>3, <2>2 DEF Locals
  <2> HIDE DEF L
  <2>7. \A i \in 1 .. Len(L) : i <= last /\ L[i] \in mem[r].owed => L[i] \in seen
    <3> SUFFICES ASSUME NEW i \in 1 .. Len(L), i <= last, L[i] \in mem[r].owed
                 PROVE  L[i] \in seen
      OBVIOUS
    <3>1. CASE i <= from
      BY <2>5, <3>1
    <3>2. CASE i > from
      <4>1. i - from \in 1 .. Len(rows) /\ DOMAIN rows = 1 .. Len(rows)
        BY <2>3, <2>4, <3>2
      <4>2. rows[i - from] = L[i]
        BY <2>3, <2>4, <4>1
      <4> QED
        BY <4>1, <4>2 DEF ToSet
    <3> QED
      BY <2>3, <3>1, <3>2
  <2>8. CASE rows = <<>>
    <3>1. Len(L) <= from /\ Len(L) \in Nat
      BY <1>3, <2>3, <2>4, <2>8
    <3>2. pc'[r] = "done"
      BY <2>2, <2>8
    <3>3. \A i \in 1 .. Len(L) : L[i] \in mem[r].owed => L[i] \in seen
      BY <2>3, <2>5, <3>1
    <3> QED
      BY <2>1, <2>6, <3>2, <3>3 DEF PageOK, Covered, L
  <2>9. CASE rows # <<>>
    <3>1. pc'[r] = "llen"
      BY <2>2, <2>9
    <3> QED
      BY <2>1, <2>6, <2>7, <3>1 DEF PageOK, Covered, L
  <2> QED
    BY <2>8, <2>9
<1>6. CASE ~ LLen(r) /\ ~ LRange(r)
  <2>1. pc'[r] \notin {"llen", "lrange"}
    BY <1>6, Reached
  <2>2. pc'[r] # "done"
    <3>1. pc[r] \notin {"done", "failed", "notfound"}
      BY <1>6 DEF Step, InferAnalysis, InferTask, Push, Trim, HGet, HSet,
        SetProgress, GetProgress, Weakest, Get, Set, Fail
    <3>2. pc[r] \in {"llen", "lrange"}
      BY <1>2, <3>1
    <3> QED
      BY <1>6, <3>2, Reached
  <2> QED
    BY <2>1, <2>2 DEF PageOK
<1> QED
  BY <1>4, <1>5, <1>6

LEMMA PageStep == TypeOK /\ PageInv /\ [Next]_vars => PageInv'
<1> SUFFICES ASSUME TypeOK, PageInv, [Next]_vars PROVE PageInv'
  OBVIOUS
<1>1. CASE UNCHANGED vars
  <2>1. \A r \in Requests : UNCHANGED ListOf(r)
    BY <1>1 DEF vars, ListOf
  <2>2. FreshInv'
    BY <1>1 DEF PageInv, FreshInv, BeforePush, Lists, vars, shared
  <2>3. ASSUME NEW r \in Requests PROVE PageOK(r)'
    <3>1. UNCHANGED <<hist, kind, pc, mem>> /\ UNCHANGED ListOf(r) /\ PageOK(r)
      BY <1>1, <2>1 DEF vars, shared, PageInv
    <3> QED
      BY <3>1 DEF PageOK, Covered, Pages
  <2> QED
    BY <2>2, <2>3 DEF PageInv
<1>2. CASE Next
  <2>1. PICK r \in Requests : Step(r)
    BY <1>2 DEF Next, Step
  <2>2. FreshInv'
    BY <2>1, FreshStep DEF PageInv
  <2>3. ASSUME NEW q \in Requests PROVE PageOK(q)'
    <3>1. CASE q = r
      <4>1. PageOK(r)
        BY DEF PageInv
      <4> QED
        BY <2>1, <3>1, <4>1, PageOwn
    <3>2. CASE q # r
      <4>1. PageOK(q) /\ FreshInv
        BY DEF PageInv
      <4> QED
        BY <2>1, <3>2, <4>1, PageOther
    <3> QED
      BY <3>1, <3>2
  <2> QED
    BY <2>2, <2>3 DEF PageInv
<1> QED
  BY <1>1, <1>2

\* A client that reads a history page by page misses no entry that was there at
\* the first page and still is, however many are added at the front and trimmed
\* at the end between its calls, for every length of the pages and histories.
THEOREM PagesMissNothingProved == Spec => []PagesMissNothing
<1>1. Init => PageInv
  <2> SUFFICES ASSUME Init PROVE PageInv
    OBVIOUS
  <2>1. \A r \in Requests : mem[r] = NoMem
    BY DEF Init
  <2>2. NoMem.owed = {} /\ NoMem.offset = 0
    BY DEF NoMem
  <2>3. hist["analyze"] = Earlier /\ hist["task"] = <<>> /\ ToSet(<<>>) = {}
    BY DEF Init, ToSet
  <2>4. FreshInv
    BY <2>1, <2>2, <2>3, AbsentAssumption DEF FreshInv, Lists
  <2>5. ASSUME NEW r \in Requests, kind[r] \in Pages PROVE pc[r] = "llen"
    BY <2>5 DEF Init, Pages, Route, AnalyzeHistory, TaskHistory
  <2>6. \A r \in Requests : Covered(r, mem[r].offset)
    BY <2>1, <2>2 DEF Covered
  <2> QED
    BY <2>4, <2>5, <2>6 DEF PageInv, PageOK
<1>2. TypeOK /\ PageInv => PagesMissNothing
  <2> SUFFICES ASSUME TypeOK, PageInv, NEW r \in Requests, kind[r] \in Pages, pc[r] = "done",
                      NEW x \in mem[r].owed, x \in ToSet(hist[ListOf(r)])
               PROVE  x \in mem[r].seen
    BY DEF PagesMissNothing
  <2> DEFINE L == hist[ListOf(r)]
  <2>1. L \in Seq(Entries)
    BY Fields
  <2>2. \A i \in 1 .. Len(L) : i <= Len(L) /\ L[i] \in mem[r].owed => L[i] \in mem[r].seen
    BY DEF PageInv, PageOK, Covered
  <2>3. PICK i \in 1 .. Len(L) : x = L[i]
    BY <2>1 DEF ToSet
  <2> HIDE DEF L
  <2>4. i <= Len(L)
    BY <2>1
  <2> QED
    BY <2>2, <2>3, <2>4
<1> QED
  BY <1>1, <1>2, PageStep, TypesProved, PTL DEF Spec
-----------------------------------------------------------------------------
(* Samples.                                                                *)

\* One of the scores that the requests P give tag t is a NaN.
Spoiled(P, t) == \E r \in P : mem[r].scores[t] = NaN

\* A sample s is made of the scores that the requests P give tag t.
IsSample(s, P, t) ==
  /\ IsFiniteSet(P) /\ s.count = Cardinality(P)
  /\ IF Spoiled(P, t) THEN s.sum = NaN
     ELSE /\ IsFiniteSet(Points(t, P)) /\ s.sum = Cardinality(Points(t, P))
          /\ s.sum \in MinScore * s.count .. MaxScore * s.count

\* What the hash holds of a tag, and what a request holds between HGET and HSET,
\* is made of scores merged before; all of them, unless one was written over.
SampleInv ==
  /\ \A t \in Tags : \E P \in SUBSET Merged(t) :
       IsSample(stats[t], P, t) /\ (t \notin lossy => P = Merged(t))
  /\ \A r \in Requests : pc[r] = "hset" =>
       \E P \in SUBSET Merged(mem[r].at) : IsSample(mem[r].prev, P, mem[r].at)
  /\ \A t \in Tags : IsFiniteSet(Merged(t)) /\ (Merged(t) # {} => stats[t].count > 0)

\* A sample with one score more.
LEMMA OneMoreSample ==
  ASSUME NEW s \in Samples, NEW P, NEW t, NEW r, r \notin P, IsSample(s, P, t),
         mem[r].scores[t] \in Values
  PROVE  IsSample(MergeSample(s, mem[r].scores[t]), P \cup {r}, t)
<1> DEFINE x == mem[r].scores[t]
           A == Points(t, P)
           B == {r} \X (1 .. x)
           m == MergeSample(s, x)
<1>1. x \in 1 .. 10 \cup {NaN} /\ NaN \notin Int
  BY AbsentAssumption DEF Values, MinScore, MaxScore
<1>2. s.sum \in Nat \cup {NaN} /\ s.count \in Nat
  BY DEF Samples
<1>3. m.sum = Plus(s.sum, x) /\ m.count = s.count + 1
  BY DEF MergeSample
<1>4. IsFiniteSet(P \cup {r}) /\ Cardinality(P \cup {r}) = s.count + 1
  BY FS_AddElement DEF IsSample
<1>5. Spoiled(P \cup {r}, t) <=> (Spoiled(P, t) \/ x = NaN)
  BY DEF Spoiled
<1>6. CASE Spoiled(P \cup {r}, t)
  <2>1. s.sum = NaN \/ x = NaN
    BY <1>5, <1>6 DEF IsSample
  <2>2. m.sum = NaN
    BY <1>3, <2>1 DEF Plus
  <2> QED
    BY <1>3, <1>4, <1>6, <2>2 DEF IsSample
<1>7. CASE ~ Spoiled(P \cup {r}, t)
  <2>1. ~ Spoiled(P, t) /\ x \in 1 .. 10
    BY <1>1, <1>5, <1>7
  <2>2. Points(t, P \cup {r}) = A \cup B
    BY DEF Points
  <2>3. A \cap B = {}
    BY DEF Points
  <2>4. IsFiniteSet(B) /\ Cardinality(B) = x
    <3>1. IsFiniteSet({r}) /\ Cardinality({r}) = 1
      BY FS_Singleton
    <3>2. IsFiniteSet(1 .. x) /\ Cardinality(1 .. x) = x
      <4>1. x \in Int /\ 1 \in Int /\ x >= 1
        BY <2>1
      <4> HIDE DEF x
      <4>2. Cardinality(1 .. x) = IF 1 > x THEN 0 ELSE x - 1 + 1
        BY <4>1, FS_Interval
      <4> QED
        BY <4>1, <4>2, FS_Interval
    <3> HIDE DEF x
    <3>3. IsFiniteSet({r} \X (1 .. x)) /\ Cardinality({r} \X (1 .. x)) = Cardinality({r}) * Cardinality(1 .. x)
      BY <3>1, <3>2, FS_Product
    <3> QED
      BY <2>1, <3>1, <3>2, <3>3
  <2>5. /\ IsFiniteSet(A) /\ s.sum = Cardinality(A)
        /\ s.sum \in MinScore * s.count .. MaxScore * s.count /\ s.sum \in Nat
    <3>1. /\ IsFiniteSet(A) /\ s.sum = Cardinality(A)
          /\ s.sum \in MinScore * s.count .. MaxScore * s.count
      BY <2>1 DEF IsSample
    <3>2. Cardinality(A) \in Nat
      BY <3>1, FS_CardinalityType
    <3> QED
      BY <3>1, <3>2
  <2> HIDE DEF A, B, x
  <2>6. IsFiniteSet(A \cup B) /\ Cardinality(A \cup B) = s.sum + x
    <3>1. Cardinality(A \cap B) = 0
      BY <2>3, FS_EmptySet
    <3>2. Cardinality(A \cup B) = Cardinality(A) + Cardinality(B) - Cardinality(A \cap B)
      BY <2>4, <2>5, FS_Union
    <3>3. IsFiniteSet(A \cup B)
      BY <2>4, <2>5, FS_Union
    <3> QED
      BY <2>1, <2>4, <2>5, <3>1, <3>2, <3>3
  <2>7. m.sum = s.sum + x
    <3>1. s.sum # NaN /\ x # NaN
      BY <1>1, <2>1, <2>5
    <3> QED
      BY <1>3, <3>1 DEF Plus
  <2> HIDE DEF m
  <2>8. s.sum + x \in MinScore * (s.count + 1) .. MaxScore * (s.count + 1)
    BY <1>2, <2>1, <2>5 DEF MinScore, MaxScore
  <2> QED
    BY <1>3, <1>4, <1>7, <2>2, <2>6, <2>7, <2>8 DEF IsSample, m, x
<1> QED
  BY <1>6, <1>7

\* A sample of requests whose scores stay is one after a step.
LEMMA SampleStays ==
  ASSUME NEW s, NEW P, NEW t, IsSample(s, P, t),
         \A r \in P : mem'[r].scores = mem[r].scores
  PROVE  IsSample(s, P, t)'
<1>1. Spoiled(P, t)' <=> Spoiled(P, t)
  BY DEF Spoiled
<1>2. Points(t, P)' = Points(t, P)
  <2>1. \A r \in P : mem'[r].scores[t] = mem[r].scores[t]
    OBVIOUS
  <2> QED
    BY <2>1 DEF Points
<1> QED
  BY <1>1, <1>2 DEF IsSample

\* A step that leaves the merged scores and the hash alone, and after which a
\* request holds what it held or what it has just read.
LEMMA SampleFrame ==
  ASSUME TypeOK, SampleInv, UNCHANGED <<stats, lossy>>,
         \A t \in Tags : Merged(t)' = Merged(t),
         \A t \in Tags : \A r \in Merged(t) : mem'[r].scores = mem[r].scores,
         \A q \in Requests : pc'[q] = "hset" =>
           \/ pc[q] = "hset" /\ mem'[q].at = mem[q].at /\ mem'[q].prev = mem[q].prev
           \/ mem'[q].at \in Tags /\ mem'[q].prev = stats[mem'[q].at]
  PROVE  SampleInv'
<1>1. ASSUME NEW t \in Tags
      PROVE  \E P \in SUBSET Merged(t)' :
               IsSample(stats[t], P, t)' /\ (t \notin lossy' => P = Merged(t)')
  <2>1. PICK P \in SUBSET Merged(t) : IsSample(stats[t], P, t) /\ (t \notin lossy => P = Merged(t))
    BY DEF SampleInv
  <2>2. IsSample(stats[t], P, t)'
    <3> DEFINE s == stats[t]
    <3>1. UNCHANGED s
      OBVIOUS
    <3>2. \A u : u = s => IsSample(u, P, t)'
      BY <2>1, SampleStays
    <3> QED
      BY <3>1, <3>2
  <2> QED
    BY <2>1, <2>2
<1>2. ASSUME NEW q \in Requests, pc'[q] = "hset"
      PROVE  \E P \in SUBSET Merged(mem[q].at)' : IsSample(mem[q].prev, P, mem[q].at)'
  <2>1. CASE pc[q] = "hset" /\ mem'[q].at = mem[q].at /\ mem'[q].prev = mem[q].prev
    <3>1. PICK P \in SUBSET Merged(mem[q].at) : IsSample(mem[q].prev, P, mem[q].at)
      BY <2>1 DEF SampleInv
    <3>2. mem[q].at \in Tags
      BY <2>1, Fields
    <3>3. \A s, t : s = mem[q].prev /\ t = mem[q].at => IsSample(s, P, t)' /\ P \in SUBSET Merged(t)'
      BY <3>1, <3>2, SampleStays
    <3> QED
      BY <2>1, <3>3
  <2>2. CASE mem'[q].at \in Tags /\ mem'[q].prev = stats[mem'[q].at]
    <3>1. PICK t \in Tags : t = mem'[q].at
      BY <2>2
    <3>2. PICK P \in SUBSET Merged(t)' : IsSample(stats[t], P, t)'
      BY <1>1
    <3>3. mem'[q].prev = stats'[t]
      BY <2>2, <3>1
    <3> QED
      BY <3>1, <3>2, <3>3
  <2> QED
    BY <1>2, <2>1, <2>2
<1>3. \A t \in Tags : IsFiniteSet(Merged(t)') /\ (Merged(t)' # {} => stats'[t].count > 0)
  BY DEF SampleInv
<1> QED
  BY <1>1, <1>2, <1>3 DEF SampleInv

\* Scores come with the answer of the model, and are merged one by one.
LEMMA ScoresBySteps ==
  ASSUME TypeOK, NEW r \in Requests, Step(r), ~ InferAnalysis(r), ~ HSet(r)
  PROVE  /\ UNCHANGED <<stats, lossy>>
         /\ mem'[r].scores = mem[r].scores /\ mem'[r].todo = mem[r].todo
<1>1. UNCHANGED <<stats, lossy>>
  BY DEF Step, InferTask, Push, Trim, HGet, SetProgress, GetProgress, Weakest,
    Get, Set, LLen, LRange, Fail, shared, past
<1>2. mem[r] \in Locals
  BY Fields
<1>4. CASE InferTask(r)
  BY <1>1, <1>2, <1>4, InferTaskStep DEF Locals
<1>5. CASE UNCHANGED mem
  BY <1>1, <1>5
<1>6. CASE HGet(r)
  BY <1>1, <1>2, <1>6, HGetStep DEF Locals
<1>8. CASE SetProgress(r)
  BY <1>1, <1>2, <1>8, SetProgressStep DEF Locals
<1>9. CASE GetProgress(r)
  BY <1>1, <1>2, <1>9, GetProgressStep DEF Locals
<1>10. CASE Weakest(r)
  BY <1>1, <1>2, <1>10, WeakestStep DEF Locals
<1>11. CASE Get(r)
  BY <1>1, <1>2, <1>11, GetStep DEF Locals, Drafted
<1>12. CASE Set(r)
  BY <1>1, <1>2, <1>12, SetStep DEF Locals
<1>13. CASE LRange(r)
  BY <1>1, <1>2, <1>13, LRangeStep DEF Locals
<1>14. Push(r) \/ Trim(r) \/ Fail(r) => UNCHANGED mem
  BY DEF Push, Trim, Fail
<1>15. CASE LLen(r)
  BY <1>1, <1>2, <1>15, LLenStep DEF Locals
<1> QED
  BY <1>4, <1>5, <1>6, <1>8, <1>9, <1>10, <1>11, <1>12, <1>13, <1>14, <1>15 DEF Step

\* HSET: the sample read at HGET, with the score of this request.
LEMMA SampleAtHSet ==
  ASSUME TypeOK, SampleInv, NEW r \in Requests, HSet(r)
  PROVE  SampleInv'
<1> DEFINE t == mem[r].at
           x == mem[r].scores[t]
<1>1. /\ pc[r] = "hset" /\ stats' = [stats EXCEPT ![t] = MergeSample(mem[r].prev, x)]
      /\ lossy' = IF stats[t] = mem[r].prev THEN lossy ELSE lossy \cup {t}
  BY DEF HSet
<1>2. Step(r) /\ pc'[r] # "hset"
  BY HSetStep DEF Step, Moved
<1>3. /\ t \in mem[r].todo /\ t \in Tags /\ x \in Values /\ t \in DOMAIN mem[r].scores
      /\ mem[r].prev \in Samples /\ mem[r] \in Locals
  BY <1>1, Fields DEF Locals
<1>4. /\ mem'[r] = [mem[r] EXCEPT !.todo = @ \ {t}, !.at = None, !.prev = Nothing]
      /\ \A q \in Requests \ {r} : mem'[q] = mem[q] /\ pc'[q] = pc[q]
  BY <1>2, HSetStep, StepKeeps DEF Others
<1>5. mem'[r].scores = mem[r].scores /\ mem'[r].todo = mem[r].todo \ {t}
  BY <1>3, <1>4 DEF Locals
<1> HIDE DEF t
<1>6. \A q \in Requests : mem'[q].scores = mem[q].scores
  BY <1>4, <1>5
<1>7. Merged(t) \subseteq Requests /\ r \notin Merged(t)
  BY <1>3 DEF Merged
<1>8. \A u : u = t => Merged(u)' = Merged(u) \cup {r}
  <2> SUFFICES ASSUME NEW u, u = t PROVE Merged(u)' = Merged(u) \cup {r}
    OBVIOUS
  <2>1. r \in Merged(u)'
    BY <1>3, <1>5 DEF Merged
  <2>2. \A q \in Requests \ {r} : q \in Merged(u)' <=> q \in Merged(u)
    BY <1>4 DEF Merged
  <2>3. Merged(u)' \subseteq Requests /\ Merged(u) \subseteq Requests
    BY DEF Merged
  <2> QED
    BY <2>1, <2>2, <2>3
<1>9. \A u : u # t => Merged(u)' = Merged(u)
  <2> SUFFICES ASSUME NEW u, u # t PROVE Merged(u)' = Merged(u)
    OBVIOUS
  <2>1. \A q \in Requests : q \in Merged(u)' <=> q \in Merged(u)
    BY <1>4, <1>5 DEF Merged
  <2>2. Merged(u)' \subseteq Requests /\ Merged(u) \subseteq Requests
    BY DEF Merged
  <2> QED
    BY <2>1, <2>2
<1>10. \A u : Merged(u) \subseteq Merged(u)' /\ Merged(u) \subseteq Requests
  BY <1>8, <1>9 DEF Merged
<1>11. ASSUME NEW u \in Tags, u # t
       PROVE  /\ stats'[u] = stats[u] /\ (u \in lossy' <=> u \in lossy)
  BY <1>1, <1>11 DEF TypeOK, SharedTypes
<1>12. stats'[t] = MergeSample(mem[r].prev, x)
  BY <1>1, <1>3 DEF TypeOK, SharedTypes
<1>13. ASSUME NEW u \in Tags
       PROVE  \E P \in SUBSET Merged(u)' :
                IsSample(stats[u], P, u)' /\ (u \notin lossy' => P = Merged(u)')
  <2>1. CASE u # t
    <3>1. PICK P \in SUBSET Merged(u) : IsSample(stats[u], P, u) /\ (u \notin lossy => P = Merged(u))
      BY DEF SampleInv
    <3>2. \A s : s = stats[u] => IsSample(s, P, u)'
      BY <1>6, <1>10, <3>1, SampleStays
    <3>3. \A s : s = stats[u] => s = stats'[u]
      BY <1>11, <2>1
    <3> QED
      BY <1>9, <1>11, <2>1, <3>1, <3>2, <3>3
  <2>2. CASE u = t
    <3>1. PICK P \in SUBSET Merged(t) :
            /\ IsSample(mem[r].prev, P, t)
            /\ stats[t] = mem[r].prev /\ t \notin lossy => P = Merged(t)
      <4>1. CASE stats[t] = mem[r].prev
        BY <1>3, <4>1 DEF SampleInv
      <4>2. CASE stats[t] # mem[r].prev
        BY <1>1, <4>2 DEF SampleInv, t
      <4> QED
        BY <4>1, <4>2
    <3>2. IsSample(MergeSample(mem[r].prev, x), P \cup {r}, t)
      BY <1>3, <1>7, <3>1, OneMoreSample
    <3>3. \A q \in P \cup {r} : mem'[q].scores = mem[q].scores
      BY <1>6, <1>7, <3>1
    <3>4. \A s : s = MergeSample(mem[r].prev, x) => IsSample(s, P \cup {r}, u)'
      BY <2>2, <3>2, <3>3, SampleStays
    <3>5. P \cup {r} \subseteq Merged(u)' /\ (u \notin lossy' => P \cup {r} = Merged(u)')
      BY <1>1, <1>8, <2>2, <3>1
    <3>6. IsSample(stats[u], P \cup {r}, u)'
      BY <1>12, <2>2, <3>4
    <3> QED
      BY <3>5, <3>6
  <2> QED
    BY <2>1, <2>2
<1>14. ASSUME NEW q \in Requests, pc'[q] = "hset"
       PROVE  \E P \in SUBSET Merged(mem[q].at)' : IsSample(mem[q].prev, P, mem[q].at)'
  <2>1. q # r /\ pc[q] = "hset" /\ mem'[q] = mem[q]
    BY <1>2, <1>4, <1>14
  <2>2. PICK P \in SUBSET Merged(mem[q].at) : IsSample(mem[q].prev, P, mem[q].at)
    BY <2>1 DEF SampleInv
  <2>3. \A s, u : s = mem[q].prev /\ u = mem[q].at => IsSample(s, P, u)' /\ P \in SUBSET Merged(u)'
    BY <1>6, <1>10, <2>2, SampleStays
  <2> QED
    BY <2>1, <2>3
<1>15. ASSUME NEW u \in Tags
       PROVE  IsFiniteSet(Merged(u)') /\ (Merged(u)' # {} => stats'[u].count > 0)
  <2>1. CASE u # t
    BY <1>9, <1>11, <2>1 DEF SampleInv
  <2>2. CASE u = t
    <3>1. IsFiniteSet(Merged(u) \cup {r})
      BY FS_AddElement DEF SampleInv
    <3>2. stats'[u].count = mem[r].prev.count + 1 /\ mem[r].prev.count \in Nat
      BY <1>3, <1>12, <2>2 DEF MergeSample, Samples
    <3> QED
      BY <1>8, <2>2, <3>1, <3>2
  <2> QED
    BY <2>1, <2>2
<1> QED
  BY <1>13, <1>14, <1>15 DEF SampleInv

LEMMA SampleStep == TypeOK /\ SampleInv /\ [Next]_vars => SampleInv'
<1> SUFFICES ASSUME TypeOK, SampleInv, [Next]_vars PROVE SampleInv'
  OBVIOUS
<1>1. CASE UNCHANGED vars
  <2>1. UNCHANGED <<stats, lossy, pc, mem>>
    BY <1>1 DEF vars, shared, past
  <2>2. \A t : Merged(t)' = Merged(t)
    BY <2>1 DEF Merged
  <2> QED
    BY <2>1, <2>2, SampleFrame
<1>2. CASE Next
  <2>1. PICK r \in Requests : Step(r)
    BY <1>2 DEF Next, Step
  <2>2. \A q \in Requests \ {r} : pc'[q] = pc[q] /\ mem'[q] = mem[q]
    BY <2>1, StepKeeps DEF Others
  <2>3. CASE HSet(r)
    BY <2>3, SampleAtHSet
  <2>4. CASE InferAnalysis(r)
    <3>1. UNCHANGED <<stats, lossy>> /\ pc[r] = "infer"
      BY <2>4 DEF InferAnalysis, shared, past
    <3>2. PICK s \in Blocks : mem'[r] = [mem[r] EXCEPT !.scores = s, !.todo = DOMAIN s, !.tags = DOMAIN s]
      BY <2>4, InferAnalysisStep
    <3>3. mem'[r].scores = s /\ mem'[r].todo = DOMAIN s
      BY <3>2, Fields DEF Locals
    <3>4. mem[r].scores = <<>> /\ DOMAIN <<>> = {}
      BY <3>1, Fields
    <3>5. \A t : r \notin Merged(t) /\ r \notin Merged(t)'
      BY <3>3, <3>4 DEF Merged
    <3>6. ASSUME NEW t PROVE Merged(t)' = Merged(t) /\ \A q \in Merged(t) : mem'[q].scores = mem[q].scores
      <4>1. \A q \in Requests \ {r} : q \in Merged(t)' <=> q \in Merged(t)
        BY <2>2 DEF Merged
      <4>2. Merged(t)' \subseteq Requests /\ Merged(t) \subseteq Requests
        BY DEF Merged
      <4> QED
        BY <2>2, <3>5, <4>1, <4>2
    <3>7. \A q \in Requests : pc'[q] = "hset" => pc[q] = "hset" /\ mem'[q] = mem[q]
      BY <2>2, <2>4, InferAnalysisStep DEF Moved
    <3> QED
      BY <3>1, <3>6, <3>7, SampleFrame
  <2>5. CASE ~ HSet(r) /\ ~ InferAnalysis(r)
    <3>1. /\ UNCHANGED <<stats, lossy>>
          /\ mem'[r].scores = mem[r].scores /\ mem'[r].todo = mem[r].todo
      BY <2>1, <2>5, ScoresBySteps
    <3>2. \A q \in Requests : mem'[q].scores = mem[q].scores /\ mem'[q].todo = mem[q].todo
      BY <2>2, <3>1
    <3>3. \A t : Merged(t)' = Merged(t) /\ Merged(t) \subseteq Requests
      BY <3>2 DEF Merged
    <3>4. ASSUME pc'[r] = "hset"
          PROVE  mem'[r].at \in Tags /\ mem'[r].prev = stats[mem'[r].at]
      <4>1. HGet(r)
        BY <2>1, <3>4, Reached
      <4>2. PICK t \in mem[r].todo : mem'[r] = [mem[r] EXCEPT !.at = t, !.prev = stats[t]]
        BY <4>1, HGetStep
      <4>3. mem'[r].at = t /\ mem'[r].prev = stats[t] /\ t \in Tags
        BY <4>2, Fields DEF Locals
      <4> QED
        BY <4>3
    <3>5. \A q \in Requests : pc'[q] = "hset" =>
            \/ pc[q] = "hset" /\ mem'[q].at = mem[q].at /\ mem'[q].prev = mem[q].prev
            \/ mem'[q].at \in Tags /\ mem'[q].prev = stats[mem'[q].at]
      BY <2>2, <3>4
    <3> QED
      BY <3>1, <3>2, <3>3, <3>5, SampleFrame
  <2> QED
    BY <2>3, <2>4, <2>5
<1> QED
  BY <1>1, <1>2

\* The statistics of a tag count every merged score once and add them up, NaN
\* for good after a NaN, as long as no two merges of the tag overlapped; those
\* that do lose scores and invent none, whatever their number and order.
THEOREM StatsAccountProved == Spec => []StatsAccount
<1>1. Init => SampleInv
  <2> SUFFICES ASSUME Init PROVE SampleInv
    OBVIOUS
  <2>1. \A r \in Requests : mem[r] = NoMem
    BY DEF Init
  <2>2. NoMem.scores = <<>> /\ DOMAIN <<>> = {}
    BY DEF NoMem
  <2>3. \A t : Merged(t) = {}
    BY <2>1, <2>2 DEF Merged
  <2>4. \A t : Points(t, {}) = {} /\ ~ Spoiled({}, t)
    BY DEF Points, Spoiled
  <2>5. \A t : IsSample(Nothing, {}, t)
    <3>1. Nothing.sum = 0 /\ Nothing.count = 0
      BY DEF Nothing
    <3> QED
      BY <2>4, <3>1, FS_EmptySet DEF IsSample, MinScore, MaxScore
  <2>6. \A t \in Tags : stats[t] = Nothing
    BY DEF Init
  <2>7. \A r \in Requests : pc[r] # "hset"
    <3> TAKE r \in Requests
    <3>1. kind[r] \in DOMAIN Route /\ pc[r] = Route[kind[r]].begin
      BY KindsServed DEF Init
    <3> QED
      BY <3>1 DEF Route, Analyze, QueueMerge, GenerateTask, FromProgress,
         PutProgress, PutProfile, AnalyzeHistory, TaskHistory
  <2> QED
    BY <2>3, <2>5, <2>6, <2>7, FS_EmptySet DEF SampleInv
<1>2. TypeOK /\ SampleInv => StatsAccount
  <2> SUFFICES ASSUME TypeOK, SampleInv, NEW t \in Tags
               PROVE  LET values == {mem[r].scores[t] : r \in Merged(t)} IN
                      /\ stats[t].count <= Cardinality(Merged(t))
                      /\ Merged(t) # {} => stats[t].count > 0
                      /\ stats[t].sum = NaN \/ stats[t].sum \in MinScore * stats[t].count .. MaxScore * stats[t].count
                      /\ stats[t].sum = NaN => NaN \in values
                      /\ t \notin lossy =>
                           /\ stats[t].count = Cardinality(Merged(t))
                           /\ stats[t].sum = IF NaN \in values THEN NaN ELSE Cardinality(Points(t, Merged(t)))
    BY DEF StatsAccount
  <2> DEFINE values == {mem[r].scores[t] : r \in Merged(t)}
  <2>1. PICK P \in SUBSET Merged(t) : IsSample(stats[t], P, t) /\ (t \notin lossy => P = Merged(t))
    BY DEF SampleInv
  <2>2. IsFiniteSet(Merged(t)) /\ (Merged(t) # {} => stats[t].count > 0)
    BY DEF SampleInv
  <2>3. stats[t].count <= Cardinality(Merged(t))
    BY <2>1, <2>2, FS_Subset DEF IsSample
  <2>4. stats[t].sum = NaN \/ stats[t].sum \in MinScore * stats[t].count .. MaxScore * stats[t].count
    BY <2>1 DEF IsSample
  <2>5. stats[t].sum = NaN => NaN \in values
    <3>1. CASE Spoiled(P, t)
      BY <2>1, <3>1 DEF Spoiled
    <3>2. CASE ~ Spoiled(P, t)
      <4>1. stats[t].sum = Cardinality(Points(t, P)) /\ IsFiniteSet(Points(t, P))
        BY <2>1, <3>2 DEF IsSample
      <4>2. stats[t].sum \in Nat
        BY <4>1, FS_CardinalityType
      <4> QED
        BY <4>2, AbsentAssumption
    <3> QED
      BY <3>1, <3>2
  <2>6. ASSUME t \notin lossy
        PROVE  /\ stats[t].count = Cardinality(Merged(t))
               /\ stats[t].sum = IF NaN \in values THEN NaN ELSE Cardinality(Points(t, Merged(t)))
    <3>1. IsSample(stats[t], Merged(t), t)
      BY <2>1, <2>6
    <3>2. Spoiled(Merged(t), t) <=> NaN \in values
      BY DEF Spoiled
    <3> QED
      BY <3>1, <3>2 DEF IsSample
  <2> HIDE DEF values
  <2> QED
    BY <2>2, <2>3, <2>4, <2>5, <2>6 DEF values
<1> QED
  BY <1>1, <1>2, SampleStep, TypesProved, PTL DEF Spec
=============================================================================
