------------------------ MODULE StudentProfileProofs ------------------------
(***************************************************************************)
(* Proofs about StudentProfile, for any number of merges and readers, any  *)
(* tags and scores, any limits, with merges left in the middle and keys    *)
(* that reach their time at any moment.                                    *)
(***************************************************************************)
EXTENDS StudentProfile, FiniteSetTheorems, TLAPS

-----------------------------------------------------------------------------
(* Operators.                                                              *)

\* The lesser of two numbers, by which the code cuts a list or a score.
LEMMA MinOfTwo ==
  ASSUME NEW x \in Int, NEW y \in Int
  PROVE  Min({x, y}) = IF x <= y THEN x ELSE y
<1>1. \E z \in {x, y} : \A u \in {x, y} : z <= u
  OBVIOUS
<1> QED
  BY <1>1 DEF Min

\* The greater of two numbers.
LEMMA MaxOfTwo ==
  ASSUME NEW x \in Int, NEW y \in Int
  PROVE  Max({x, y}) = IF x >= y THEN x ELSE y
<1>1. \E z \in {x, y} : \A u \in {x, y} : z >= u
  OBVIOUS
<1> QED
  BY <1>1 DEF Max

\* _clamp_score gives a score of the scale.
LEMMA ClampInScale ==
  ASSUME NEW x \in Int
  PROVE  ClampScore(x) \in MinScore .. MaxScore
<1>1. Min({MaxScore, x}) \in Int /\ Min({MaxScore, x}) <= 10
  BY MinOfTwo DEF MaxScore
<1> QED
  BY <1>1, MaxOfTwo DEF ClampScore, MinScore, MaxScore

\* Whatever the model answered, the scores are of known tags and on the scale.
LEMMA ScoresInScale ==
  ASSUME NEW m \in Merges
  PROVE  /\ DOMAIN ScoresOf(m) \subseteq Tags
         /\ \A t \in DOMAIN ScoresOf(m) : ScoresOf(m)[t] \in MinScore .. MaxScore
<1> DEFINE A == AnalysisOf[m]
           given == {t \in DOMAIN A.explicit : A.explicit[t] # Bad}
<1>1. /\ A.tags \subseteq Tags /\ A.score \in Int \cup {None, Bad}
      /\ DOMAIN A.explicit \subseteq Tags
      /\ \A t \in DOMAIN A.explicit : A.explicit[t] \in Int \cup {Bad}
  BY AnalysisAssumption
<1>2. CASE given # {}
  <2>1. ScoresOf(m) = [t \in given |-> ClampScore(A.explicit[t])]
    BY <1>2 DEF ScoresOf, TagScores
  <2>2. \A t \in given : ClampScore(A.explicit[t]) \in MinScore .. MaxScore
    BY <1>1, ClampInScale
  <2> QED
    BY <1>1, <2>1, <2>2
<1>3. CASE given = {}
  <2> DEFINE overall == IF A.score \in {None, Bad} THEN 5 ELSE ClampScore(A.score)
  <2>1. ScoresOf(m) = [t \in A.tags |-> overall]
    BY <1>3 DEF ScoresOf, TagScores
  <2>2. overall \in MinScore .. MaxScore
    BY <1>1, ClampInScale DEF MinScore, MaxScore
  <2> HIDE DEF overall
  <2> QED
    BY <1>1, <2>1, <2>2
<1> QED
  BY <1>2, <1>3

\* The key k has a time to live.
HasTime(k) == \E i \in DOMAIN expiring : expiring[i] = k

\* No key has two times.
TimesDistinct ==
  \A i, j \in DOMAIN expiring : expiring[i] = expiring[j] => i = j

\* The time of key k is over before that of key l.
Before(k, l) ==
  \A i, j \in DOMAIN expiring : expiring[i] = k /\ expiring[j] = l => i < j

\* A key that gets its time anew ends last; nothing else changes about the
\* order of the ends.
LEMMA TimedIsLast ==
  ASSUME expiring \in Seq(Keys), TimesDistinct, NEW k \in Keys, expiring' = Timed(k)
  PROVE  /\ expiring' \in Seq(Keys) /\ TimesDistinct'
         /\ HasTime(k)'
         /\ \A l \in Keys : HasTime(l) => HasTime(l)'
         /\ \A l \in Keys : HasTime(l)' => HasTime(l) \/ l = k
         /\ \A l \in Keys \ {k} : Before(l, k)'
         /\ \A l, n \in Keys \ {k} : Before(l, n) => Before(l, n)'
<1> DEFINE s == RemoveFirst(expiring, k)
<1>1. CASE \E i \in 1 .. Len(expiring) : expiring[i] = k
  <2>1. PICK p \in 1 .. Len(expiring) : expiring[p] = k
    BY <1>1
  <2>2. {i \in 1 .. Len(expiring) : expiring[i] = k} = {p}
    BY <2>1 DEF TimesDistinct
  <2>3. Min({p}) = p
    <3>1. \E z \in {p} : \A u \in {p} : z <= u
      OBVIOUS
    <3> QED
      BY <3>1 DEF Min
  <2>4. s = SubSeq(expiring, 1, p - 1) \o SubSeq(expiring, p + 1, Len(expiring))
    BY <1>1, <2>2, <2>3 DEF RemoveFirst, RemoveAt, SelectInSeq
  <2>5. /\ s \in Seq(Keys) /\ Len(s) = Len(expiring) - 1
        /\ \A i \in 1 .. Len(s) : s[i] = IF i < p THEN expiring[i] ELSE expiring[i + 1]
    <3> DEFINE front == SubSeq(expiring, 1, p - 1)
               back  == SubSeq(expiring, p + 1, Len(expiring))
    <3>1. /\ front \in Seq(Keys) /\ Len(front) = p - 1
          /\ \A i \in 1 .. p - 1 : front[i] = expiring[i]
      BY <2>1
    <3>2. /\ back \in Seq(Keys) /\ Len(back) = Len(expiring) - p
          /\ \A i \in 1 .. Len(expiring) - p : back[i] = expiring[i + p]
      BY <2>1
    <3>3. s = front \o back
      BY <2>4
    <3> HIDE DEF front, back, s
    <3>4. Len(expiring) \in Nat /\ p \in Nat
      BY <2>1
    <3>5. s \in Seq(Keys) /\ Len(s) = Len(expiring) - 1
      BY <3>1, <3>2, <3>3, <3>4
    <3>6. ASSUME NEW i \in 1 .. Len(s), i < p PROVE s[i] = expiring[i]
      <4>1. s[i] = front[i]
        BY <2>1, <3>1, <3>2, <3>3, <3>4, <3>5, <3>6
      <4> QED
        BY <2>1, <3>1, <3>4, <3>5, <3>6, <4>1
    <3>7. ASSUME NEW i \in 1 .. Len(s), ~(i < p) PROVE s[i] = expiring[i + 1]
      <4>1. s[i] = back[i - (p - 1)]
        BY <2>1, <3>1, <3>2, <3>3, <3>4, <3>5, <3>7
      <4>2. i - (p - 1) \in 1 .. Len(expiring) - p
        BY <2>1, <3>4, <3>5, <3>7
      <4> QED
        BY <3>2, <3>4, <4>1, <4>2
    <3> QED
      BY <3>5, <3>6, <3>7
  <2>6. expiring' = Append(s, k)
    BY DEF Timed
  <2> QED
    <3> HIDE DEF s
    <3>1. /\ expiring' \in Seq(Keys) /\ Len(expiring') = Len(expiring) /\ expiring'[Len(expiring)] = k
          /\ \A i \in 1 .. Len(expiring) - 1 :
               expiring'[i] = IF i < p THEN expiring[i] ELSE expiring[i + 1]
      BY <2>1, <2>5, <2>6
    <3> DEFINE from(i) == IF i < p THEN i ELSE i + 1
               L == Len(expiring)
    <3>a. /\ \A i \in 1 .. L - 1 : expiring'[i] = expiring[from(i)] /\ from(i) \in (1 .. L) \ {p}
          /\ \A i, j \in 1 .. L - 1 : i < j => from(i) < from(j)
      BY <2>1, <3>1
    <3>b. \A i \in 1 .. L - 1 : expiring'[i] # k
      BY <2>1, <3>a DEF TimesDistinct
    <3>c. DOMAIN expiring' = 1 .. L /\ DOMAIN expiring = 1 .. L /\ L \in Nat
      BY <3>1
    <3> HIDE DEF from
    <3>2. TimesDistinct'
      <4> SUFFICES ASSUME NEW i \in 1 .. L, NEW j \in 1 .. L, i < j, expiring'[i] = expiring'[j]
                   PROVE  FALSE
        BY <3>c DEF TimesDistinct
      <4>1. CASE j = L
        BY <3>1, <3>b, <4>1
      <4>2. CASE j # L
        <5>1. expiring[from(i)] = expiring[from(j)] /\ from(i) < from(j)
              /\ from(i) \in 1 .. L /\ from(j) \in 1 .. L
          BY <3>a, <4>2
        <5> QED
          BY <5>1, <3>c DEF TimesDistinct
      <4> QED
        BY <4>1, <4>2
    <3>3. HasTime(k)' /\ \A l \in Keys : HasTime(l) => HasTime(l)'
      <4>1. HasTime(k)'
        BY <3>1 DEF HasTime
      <4>2. ASSUME NEW l \in Keys, HasTime(l), l # k PROVE HasTime(l)'
        <5>1. PICK i \in 1 .. Len(expiring) : expiring[i] = l
          BY <4>2 DEF HasTime
        <5>2. CASE i < p
          BY <2>1, <3>1, <5>1, <5>2 DEF HasTime
        <5>3. CASE i > p
          <6>1. i - 1 \in 1 .. Len(expiring) - 1 /\ expiring'[i - 1] = l
            BY <2>1, <3>1, <5>1, <5>3
          <6> QED
            BY <3>1, <6>1 DEF HasTime
        <5> QED
          BY <2>1, <4>2, <5>1, <5>2, <5>3
      <4> QED
        BY <4>1, <4>2
    <3>d. ASSUME NEW l \in Keys, HasTime(l)', l # k PROVE HasTime(l)
      <4>1. PICK i \in 1 .. L : expiring'[i] = l
        BY <3>c, <3>d DEF HasTime
      <4>2. i \in 1 .. L - 1
        BY <3>1, <3>c, <3>d, <4>1
      <4> QED
        BY <3>a, <3>c, <4>1, <4>2 DEF HasTime
    <3>4. \A l \in Keys \ {k} : Before(l, k)'
      BY <3>1, <3>b, <3>c DEF Before
    <3>5. ASSUME NEW l \in Keys \ {k}, NEW n \in Keys \ {k}, Before(l, n) PROVE Before(l, n)'
      <4> SUFFICES ASSUME NEW i \in 1 .. L, NEW j \in 1 .. L,
                          expiring'[i] = l, expiring'[j] = n
                   PROVE  i < j
        BY <3>c DEF Before
      <4>1. i \in 1 .. L - 1 /\ j \in 1 .. L - 1
        BY <3>1, <3>c
      <4>2. from(i) < from(j)
        BY <3>a, <3>c, <4>1, <3>5 DEF Before
      <4>3. from(i) \in Nat /\ from(j) \in Nat
        BY <3>a, <3>c, <4>1
      <4>4. CASE i = j
        BY <4>2, <4>3, <4>4
      <4>5. CASE j < i
        BY <3>a, <4>1, <4>2, <4>3, <4>5
      <4> QED
        BY <4>1, <4>4, <4>5
    <3> QED
      BY <3>1, <3>2, <3>3, <3>4, <3>5, <3>d
<1>2. CASE ~ \E i \in 1 .. Len(expiring) : expiring[i] = k
  <2>1. expiring' = Append(expiring, k)
    BY <1>2 DEF RemoveFirst, Timed
  <2>2. /\ expiring' \in Seq(Keys) /\ Len(expiring') = Len(expiring) + 1
        /\ expiring'[Len(expiring) + 1] = k
        /\ \A i \in 1 .. Len(expiring) : expiring'[i] = expiring[i]
    BY <2>1
  <2> QED
    BY <1>2, <2>2 DEF TimesDistinct, HasTime, Before
<1> QED
  BY <1>1, <1>2
-----------------------------------------------------------------------------
(* Types.                                                                  *)

Samples == [sum : Nat, count : Nat]
Docs    == [weak : SUBSET Tags, stats : [Tags -> Samples], used : SUBSET Tags,
            history : Seq(Merges), torn : BOOLEAN]
Locals  == [todo : SUBSET Tags, at : Tags \cup {None}, prev : Samples,
            had : SUBSET Merges, draft : Docs]

MergeSteps == DOMAIN MergeOrder \cup {"done", "lost"}
ReadSteps  == {"get", "readhash", "readlist", "readweak", "answered", "none"}
Calls      == Merges \cup Readers

SharedTypes ==
  /\ history \in Seq(Merges) /\ pushed \in Seq(Merges)
  /\ stats \in [Tags -> Samples] /\ doc \in Docs
  /\ expiring \in Seq(Keys) /\ TimesDistinct
  /\ counted \in SUBSET (Merges \X Tags) /\ kept \in [Tags -> SUBSET Merges]
  /\ overlap \in BOOLEAN /\ midway \in BOOLEAN
  /\ leaked \subseteq {"list", "hash"} /\ faults \in Nat

StepTypes ==
  /\ DOMAIN pc = Calls
  /\ \A m \in Merges : pc[m] \in MergeSteps
  /\ \A r \in Readers : pc[r] \in ReadSteps

MemTypes ==
  /\ mem \in [Calls -> Locals]
  /\ \A m \in Merges : mem[m].todo \subseteq DOMAIN ScoresOf(m)
  /\ \A m \in Merges : pc[m] = "hset" => mem[m].at \in mem[m].todo

TypeOK == SharedTypes /\ StepTypes /\ MemTypes

\* The empty values are values.
LEMMA EmptyTypes ==
  /\ NoStats \in [Tags -> Samples] /\ NoDoc \in Docs /\ NoMem \in Locals
  /\ NoMem.todo = {} /\ NoMem.at = None /\ NoMem.draft = NoDoc
<1>1. NoStats \in [Tags -> Samples]
  BY DEF NoStats, Nothing, Samples
<1>2. NoDoc \in Docs
  BY <1>1 DEF NoDoc, Docs
<1>3. NoMem \in Locals
  BY <1>2 DEF NoMem, Locals, Nothing, Samples
<1> QED
  BY <1>1, <1>2, <1>3 DEF NoMem

\* A draft written into a call's memory leaves the rest of it alone.
LEMMA DraftTypes ==
  ASSUME NEW x \in Locals
  PROVE  /\ \A W \in SUBSET Tags : [x EXCEPT !.draft.weak = W] \in Locals
         /\ \A U \in SUBSET Tags : [x EXCEPT !.draft.used = U] \in Locals
         /\ \A s \in [Tags -> Samples] : [x EXCEPT !.draft.stats = s] \in Locals
         /\ \A h \in Seq(Merges) : [x EXCEPT !.draft.history = h] \in Locals
         /\ [x EXCEPT !.draft.torn = TRUE] \in Locals
         /\ \A d \in Docs : [NoMem EXCEPT !.draft = d] \in Locals
<1>1. /\ \A W \in SUBSET Tags : [x.draft EXCEPT !.weak = W] \in Docs
      /\ \A U \in SUBSET Tags : [x.draft EXCEPT !.used = U] \in Docs
      /\ \A s \in [Tags -> Samples] : [x.draft EXCEPT !.stats = s] \in Docs
      /\ \A h \in Seq(Merges) : [x.draft EXCEPT !.history = h] \in Docs
      /\ [x.draft EXCEPT !.torn = TRUE] \in Docs
  BY DEF Locals, Docs
<1>2. \A d \in Docs : [x EXCEPT !.draft = d] \in Locals /\ [NoMem EXCEPT !.draft = d] \in Locals
  BY EmptyTypes DEF Locals
<1> QED
  BY <1>1, <1>2

\* Nothing is in the profile initially, and an analysis without tags is done.
LEMMA TypeInit == Init => TypeOK
<1> SUFFICES ASSUME Init PROVE TypeOK
  OBVIOUS
<1>1. SharedTypes
  <2>1. stats \in [Tags -> Samples] /\ doc \in Docs
    BY EmptyTypes DEF Init
  <2>2. /\ history \in Seq(Merges) /\ pushed \in Seq(Merges) /\ expiring \in Seq(Keys)
        /\ faults \in Nat
    BY DEF Init
  <2>4. overlap \in BOOLEAN /\ midway \in BOOLEAN
    BY DEF Init
  <2>5. TimesDistinct
    BY DEF Init, TimesDistinct
  <2>3. /\ counted \in SUBSET (Merges \X Tags) /\ kept \in [Tags -> SUBSET Merges]
        /\ leaked \subseteq {"list", "hash"}
    BY DEF Init
  <2> QED
    BY <2>1, <2>2, <2>3, <2>4, <2>5 DEF SharedTypes
<1>2. StepTypes
  BY AbsentAssumption DEF Init, StepTypes, Calls, MergeSteps, ReadSteps, MergeOrder
<1>3. MemTypes
  BY EmptyTypes, AbsentAssumption DEF Init, MemTypes, Calls
<1> QED
  BY <1>1, <1>2, <1>3 DEF TypeOK
\* A call goes on to a step of its own.
LEMMA GotoTypes ==
  ASSUME StepTypes, NEW p \in Calls, NEW x, Goto(p, x),
         p \in Merges => x \in MergeSteps, p \in Readers => x \in ReadSteps
  PROVE  StepTypes' /\ pc'[p] = x /\ \A q \in Calls \ {p} : pc'[q] = pc[q]
  BY DEF StepTypes, Goto, Calls

\* A call remembers something; only its own memory changes.
LEMMA RememberTypes ==
  ASSUME MemTypes, NEW p \in Calls, NEW x \in Locals, Remember(p, x),
         p \in Merges => x.todo \subseteq DOMAIN ScoresOf(p),
         p \in Merges /\ pc'[p] = "hset" => x.at \in x.todo,
         \A q \in Calls \ {p} : pc'[q] = pc[q]
  PROVE  MemTypes' /\ mem'[p] = x /\ \A q \in Calls \ {p} : mem'[q] = mem[q]
<1>1. mem' = [mem EXCEPT ![p] = x] /\ mem \in [Calls -> Locals]
  BY DEF MemTypes, Remember
<1>2. mem'[p] = x /\ \A q \in Calls \ {p} : mem'[q] = mem[q]
  BY <1>1
<1>3. mem' \in [Calls -> Locals]
  BY <1>1
<1>4. ASSUME NEW m \in Merges
      PROVE  mem'[m].todo \subseteq DOMAIN ScoresOf(m)
             /\ (pc'[m] = "hset" => mem'[m].at \in mem'[m].todo)
  <2>1. CASE m = p
    BY <1>2, <2>1
  <2>2. CASE m # p
    BY <1>2, <2>2 DEF MemTypes, Calls
  <2> QED
    BY <2>1, <2>2
<1> QED
  BY <1>2, <1>3, <1>4 DEF MemTypes

\* The same when nothing is remembered.
LEMMA NothingRemembered ==
  ASSUME MemTypes, UNCHANGED mem, NEW p \in Calls, pc'[p] # "hset",
         \A q \in Calls \ {p} : pc'[q] = pc[q]
  PROVE  MemTypes'
  BY DEF MemTypes, Calls

\* Each step of a merge is followed by the next of the order.
LEMMA StepTypesKept ==
  ASSUME StepTypes, NEW m, NEW x \in DOMAIN MergeOrder, Step(m, x)
  PROVE  /\ m \in Merges /\ m \in Calls /\ pc[m] = x /\ StepTypes'
         /\ pc'[m] = MergeOrder[x] /\ \A q \in Calls \ {m} : pc'[q] = pc[q]
<1>1. m \in Merges /\ m \in Calls /\ pc[m] = x /\ Goto(m, MergeOrder[x])
  BY DEF Step, Calls
<1>2. MergeOrder[x] \in MergeSteps /\ m \notin Readers
  BY <1>1, AbsentAssumption DEF MergeOrder, MergeSteps
<1> QED
  BY <1>1, <1>2, GotoTypes

\* Torn marks drafts and changes nothing else in a memory.
LEMMA TornFields ==
  ASSUME mem \in [Calls -> Locals], NEW P, NEW q \in Calls
  PROVE  /\ Torn(P)[q] \in Locals
         /\ Torn(P)[q].todo = mem[q].todo /\ Torn(P)[q].at = mem[q].at
         /\ Torn(P)[q].prev = mem[q].prev /\ Torn(P)[q].had = mem[q].had
         /\ Torn(P)[q].draft.weak = mem[q].draft.weak
         /\ Torn(P)[q].draft.stats = mem[q].draft.stats
         /\ Torn(P)[q].draft.history = mem[q].draft.history
         /\ q \in P => Torn(P)[q].draft.torn
         /\ q \notin P => Torn(P)[q] = mem[q]
<1>1. DOMAIN mem = Calls /\ mem[q] \in Locals
  OBVIOUS
<1>2. Torn(P)[q] = IF q \in P THEN [mem[q] EXCEPT !.draft.torn = TRUE] ELSE mem[q]
  BY <1>1 DEF Torn
<1>3. ASSUME NEW x \in Locals
      PROVE  LET y == [x EXCEPT !.draft.torn = TRUE] IN
             /\ y \in Locals /\ y.todo = x.todo /\ y.at = x.at /\ y.prev = x.prev /\ y.had = x.had
             /\ y.draft.weak = x.draft.weak /\ y.draft.stats = x.draft.stats
             /\ y.draft.history = x.draft.history /\ y.draft.torn
  <2> DEFINE y == [x EXCEPT !.draft.torn = TRUE]
             d == [x.draft EXCEPT !.torn = TRUE]
  <2>1. y = [x EXCEPT !.draft = d]
    OBVIOUS
  <2>2. x.draft \in Docs
    BY DEF Locals
  <2>3. /\ d.weak = x.draft.weak /\ d.stats = x.draft.stats
        /\ d.history = x.draft.history /\ d.torn
    BY <2>2 DEF Docs
  <2>4. y \in Locals
    BY DraftTypes
  <2> HIDE DEF d
  <2>5. y.draft = d /\ y.todo = x.todo /\ y.at = x.at /\ y.prev = x.prev /\ y.had = x.had
    BY <2>1 DEF Locals
  <2> QED
    BY <2>3, <2>4, <2>5
<1> HIDE DEF Torn
<1>4. CASE q \in P
  BY <1>1, <1>2, <1>3, <1>4
<1>5. CASE q \notin P
  BY <1>1, <1>2, <1>5
<1> QED
  BY <1>4, <1>5

\* The memories after drafts were marked.
LEMMA TornTypes ==
  ASSUME MemTypes, NEW P, UNCHANGED pc, mem' = Torn(P)
  PROVE  MemTypes'
<1>1. mem \in [Calls -> Locals] /\ DOMAIN mem = Calls
  BY DEF MemTypes
<1>2. \A q \in Calls : mem'[q] \in Locals /\ mem'[q].todo = mem[q].todo /\ mem'[q].at = mem[q].at
  BY <1>1, TornFields
<1>3. mem' \in [Calls -> Locals]
  BY <1>1, <1>2 DEF Torn
<1> QED
  BY <1>2, <1>3 DEF MemTypes, Calls

\* Readers whose draft is marked when a merge gives tag t its first sample.
FirstSample(t) == {p \in Readers : BetweenReads(p) /\ stats[t] = Nothing}

\* What everybody remembers after a sample was written.
LEMMA HSetMemory ==
  ASSUME mem \in [Calls -> Locals], NEW m \in Merges, HSet(m)
  PROVE  /\ mem'[m] = [mem[m] EXCEPT !.todo = @ \ {mem[m].at}, !.at = None,
                                     !.prev = Nothing, !.had = {}]
         /\ \A q \in Calls \ {m} : mem'[q] = Torn(FirstSample(mem[m].at))[q]
         /\ mem' = [q \in Calls |-> mem'[q]]
<1> DEFINE f == Torn(FirstSample(mem[m].at))
<1> DEFINE g == [mem[m] EXCEPT !.todo = @ \ {mem[m].at}, !.at = None, !.prev = Nothing, !.had = {}]
<1>1. mem' = [f EXCEPT ![m] = g]
  BY DEF HSet, FirstSample
<1>4. f = [q \in Calls |-> f[q]]
  BY DEF Torn
<1> HIDE DEF f, g
<1>5. DOMAIN f = Calls /\ DOMAIN mem' = Calls /\ m \in Calls
  BY <1>1, <1>4 DEF Calls
<1>6. mem'[m] = g
  BY <1>1, <1>5
<1>7. \A q \in Calls \ {m} : mem'[q] = f[q]
  BY <1>1, <1>5
<1>8. mem' = [q \in Calls |-> mem'[q]]
  BY <1>1, <1>5
<1> QED
  BY <1>6, <1>7, <1>8 DEF f, g

\* The same field by field.
LEMMA HSetFields ==
  ASSUME mem \in [Calls -> Locals], NEW m \in Merges, HSet(m)
  PROVE  /\ mem'[m].todo = mem[m].todo \ {mem[m].at} /\ mem'[m].at = None
         /\ mem'[m].prev = Nothing /\ mem'[m].had = {} /\ mem'[m].draft = mem[m].draft
         /\ \A q \in Calls \ {m} : mem'[q] = Torn(FirstSample(mem[m].at))[q]
<1> DEFINE x == [mem[m] EXCEPT !.todo = @ \ {mem[m].at}, !.at = None, !.prev = Nothing, !.had = {}]
<1>1. /\ mem'[m] = x /\ mem' = [q \in Calls |-> mem'[q]]
      /\ \A q \in Calls \ {m} : mem'[q] = Torn(FirstSample(mem[m].at))[q]
  BY HSetMemory
<1>2. m \in Calls /\ mem[m] \in Locals
  BY DEF Calls
<1>3. /\ x.todo = mem[m].todo \ {mem[m].at} /\ x.at = None
      /\ x.prev = Nothing /\ x.had = {} /\ x.draft = mem[m].draft
  BY <1>2 DEF Locals
<1> HIDE DEF x
<1> QED
  BY <1>1, <1>3

\* A merge that only changes its draft.
LEMMA DraftStepTypes ==
  ASSUME TypeOK, NEW m, NEW x \in DOMAIN MergeOrder, x # "hget", x # "push", Step(m, x),
         NEW d \in Docs, Remember(m, [mem[m] EXCEPT !.draft = d]),
         UNCHANGED <<shared, past, faults>>
  PROVE  TypeOK' /\ mem'[m].draft = d
<1>1. /\ m \in Calls /\ m \in Merges /\ pc[m] = x /\ StepTypes' /\ pc'[m] = MergeOrder[x]
      /\ \A q \in Calls \ {m} : pc'[q] = pc[q]
  BY StepTypesKept DEF TypeOK
<1>2. mem[m] \in Locals
  BY <1>1 DEF TypeOK, MemTypes
<1>3. /\ [mem[m] EXCEPT !.draft = d] \in Locals
      /\ [mem[m] EXCEPT !.draft = d].todo = mem[m].todo
      /\ [mem[m] EXCEPT !.draft = d].draft = d
  BY <1>2 DEF Locals
<1>4. pc'[m] # "hset"
  BY <1>1 DEF MergeOrder
<1>5. MemTypes' /\ mem'[m] = [mem[m] EXCEPT !.draft = d]
  BY <1>1, <1>3, <1>4, RememberTypes DEF TypeOK, MemTypes
<1>6. SharedTypes'
  BY DEF TypeOK, SharedTypes, shared, past, TimesDistinct
<1> QED
  BY <1>1, <1>3, <1>5, <1>6 DEF TypeOK

\* A document with one field replaced is a document.
LEMMA DocFields ==
  ASSUME NEW d \in Docs
  PROVE  /\ \A W \in SUBSET Tags : [d EXCEPT !.weak = W] \in Docs
         /\ \A U \in SUBSET Tags : [d EXCEPT !.used = U] \in Docs
         /\ \A s \in [Tags -> Samples] : [d EXCEPT !.stats = s] \in Docs
         /\ \A h \in Seq(Merges) : [d EXCEPT !.history = h] \in Docs
         /\ [d EXCEPT !.torn = TRUE] \in Docs
  BY DEF Docs

\* LTRIM and LRANGE give a list that begins like the one there is.
LEMMA FirstTypes ==
  ASSUME TypeOK
  PROVE  /\ SubSeq(history, 1, Min({Kept, Len(history)})) \in Seq(Merges)
         /\ Newest \in Seq(Merges)
<1>1. Min({HistoryMax, Len(history)}) \in 0 .. Len(history) /\ history \in Seq(Merges)
  <2>1. Len(history) \in Nat /\ HistoryMax \in Nat /\ history \in Seq(Merges)
    BY BoundAssumption DEF TypeOK, SharedTypes
  <2> QED
    BY <2>1, MinOfTwo
<1> DEFINE n == Min({HistoryMax, Len(history)})
<1>2. SubSeq(history, 1, n) \in Seq(Merges)
  <2>1. n \in 0 .. Len(history) /\ history \in Seq(Merges)
    BY <1>1
  <2> HIDE DEF n
  <2> QED
    BY <2>1
<1> QED
  BY <1>2 DEF Newest, Kept

\* Every step of a merge keeps the types.
LEMMA MergeTypes ==
  ASSUME TypeOK, NEW m \in Merges, Merge(m)
  PROVE  TypeOK'
<1> USE DEF TypeOK
<1>0. m \in Calls /\ mem[m] \in Locals /\ mem[m].draft \in Docs /\ m \notin Readers
  BY AbsentAssumption DEF Calls, MemTypes, Locals
<1>1. CASE Push(m)
  <2> DEFINE x == [NoMem EXCEPT !.todo = DOMAIN ScoresOf(m)]
  <2>1. /\ StepTypes' /\ pc'[m] = "trim" /\ \A q \in Calls \ {m} : pc'[q] = pc[q]
    BY <1>1, StepTypesKept DEF Push, MergeOrder
  <2>2. x \in Locals /\ x.todo = DOMAIN ScoresOf(m)
    BY EmptyTypes, ScoresInScale DEF Locals
  <2>3. Remember(m, x)
    BY <1>1 DEF Push
  <2> HIDE DEF x
  <2>4. MemTypes'
    BY <1>0, <2>1, <2>2, <2>3, RememberTypes
  <2>5. history' \in Seq(Merges) /\ pushed' \in Seq(Merges)
    BY <1>1 DEF Push, SharedTypes, TimesDistinct
  <2>6. overlap' \in BOOLEAN
    BY <1>1 DEF Push
  <2> QED
    BY <1>1, <2>1, <2>4, <2>5, <2>6 DEF Push, SharedTypes, TimesDistinct
<1>2. CASE Trim(m)
  <2>1. /\ StepTypes' /\ pc'[m] = "hget" /\ \A q \in Calls \ {m} : pc'[q] = pc[q]
    BY <1>2, StepTypesKept DEF Trim, MergeOrder
  <2>2. history' \in Seq(Merges)
    BY <1>2, FirstTypes DEF Trim
  <2>3. MemTypes'
    BY <1>0, <1>2, <2>1, NothingRemembered DEF Trim
  <2> QED
    BY <1>2, <2>1, <2>2, <2>3 DEF Trim, SharedTypes, past, TimesDistinct
<1>3. CASE HGet(m)
  <2>1. /\ StepTypes' /\ pc'[m] = "hset" /\ \A q \in Calls \ {m} : pc'[q] = pc[q]
    BY <1>3, StepTypesKept DEF HGet, MergeOrder
  <2>2. PICK t \in mem[m].todo :
          Remember(m, [mem[m] EXCEPT !.at = t, !.prev = stats[t], !.had = kept[t]])
    BY <1>3 DEF HGet
  <2> DEFINE x == [mem[m] EXCEPT !.at = t, !.prev = stats[t], !.had = kept[t]]
  <2>3. t \in Tags
    BY <1>0 DEF Locals
  <2>4. x \in Locals /\ x.at = t /\ x.todo = mem[m].todo
    BY <1>0, <2>3 DEF Locals, SharedTypes
  <2>5. Remember(m, x)
    BY <2>2
  <2> HIDE DEF x
  <2>6. MemTypes'
    BY <1>0, <2>1, <2>4, <2>5, RememberTypes DEF MemTypes
  <2> QED
    BY <1>3, <2>1, <2>6 DEF HGet, SharedTypes, shared, past, TimesDistinct
<1>4. CASE HSet(m)
  <2> DEFINE t == mem[m].at
             x == [mem[m] EXCEPT !.todo = @ \ {t}, !.at = None, !.prev = Nothing, !.had = {}]
  <2>1. t \in Tags /\ t \in DOMAIN ScoresOf(m) /\ pc[m] = "hset"
    BY <1>0, <1>4 DEF HSet, MemTypes, Locals
  <2>2. PICK y \in {"hget", "weakest"} : Goto(m, y)
    BY <1>4 DEF HSet, MergeOrder
  <2>3. /\ StepTypes' /\ pc'[m] # "hset" /\ \A q \in Calls \ {m} : pc'[q] = pc[q]
    BY <1>0, <2>2, GotoTypes DEF MergeSteps, MergeOrder
  <2>4. stats' \in [Tags -> Samples]
    <3>1. ScoresOf(m)[t] \in Nat /\ mem[m].prev \in Samples
      BY <1>0, <2>1, ScoresInScale DEF MinScore, MaxScore, Locals
    <3>2. MergeSample(mem[m].prev, ScoresOf(m)[t]) \in Samples
      BY <3>1 DEF MergeSample, Samples
    <3> QED
      BY <1>4, <3>2 DEF HSet, SharedTypes, TimesDistinct
  <2>5. kept' \in [Tags -> SUBSET Merges] /\ counted' \in SUBSET (Merges \X Tags)
    <3>1. mem[m].had \in SUBSET Merges
      BY <1>0 DEF Locals
    <3> QED
      BY <1>4, <2>1, <3>1 DEF HSet, SharedTypes, TimesDistinct
  <2>6. MemTypes'
    <3>1. mem \in [Calls -> Locals]
      BY DEF MemTypes
    <3>5. /\ mem'[m] = x /\ mem' = [q \in Calls |-> mem'[q]]
          /\ \A q \in Calls \ {m} : mem'[q] = Torn(FirstSample(t))[q]
      BY <1>4, <3>1, HSetMemory
    <3>6. x \in Locals /\ x.todo \subseteq mem[m].todo
      BY <1>0, EmptyTypes DEF Locals, Nothing, Samples
    <3>8. \A q \in Calls \ {m} : mem'[q] \in Locals /\ mem'[q].todo = mem[q].todo /\ mem'[q].at = mem[q].at
      BY <3>1, <3>5, TornFields
    <3> HIDE DEF x
    <3>9. mem' \in [Calls -> Locals]
      BY <3>5, <3>6, <3>8
    <3>10. ASSUME NEW q \in Merges
           PROVE  mem'[q].todo \subseteq DOMAIN ScoresOf(q)
                  /\ (pc'[q] = "hset" => mem'[q].at \in mem'[q].todo)
      <4>1. CASE q = m
        BY <2>3, <3>5, <3>6, <4>1 DEF MemTypes
      <4>2. CASE q # m
        BY <2>3, <3>8, <4>2 DEF MemTypes, Calls
      <4> QED
        BY <4>1, <4>2
    <3> QED
      BY <3>9, <3>10 DEF MemTypes
  <2> QED
    BY <1>4, <2>3, <2>4, <2>5, <2>6 DEF HSet, SharedTypes, TimesDistinct
<1>5. CASE Weakest(m)
  BY <1>0, <1>5, DraftStepTypes, DocFields DEF Weakest, MergeOrder
<1>6. CASE GetDoc(m)
  <2>1. doc.used \cup DOMAIN ScoresOf(m) \in SUBSET Tags
    BY ScoresInScale DEF SharedTypes, Docs
  <2> QED
    BY <1>0, <1>6, <2>1, DraftStepTypes, DocFields DEF GetDoc, MergeOrder
<1>7. CASE AllStats(m)
  BY <1>0, <1>7, DraftStepTypes, DocFields DEF AllStats, MergeOrder, SharedTypes
<1>8. CASE LRange(m)
  BY <1>0, <1>8, DraftStepTypes, DocFields, FirstTypes DEF LRange, MergeOrder
<1>9. CASE SetDoc(m)
  <2>1. /\ StepTypes' /\ pc'[m] = "expirehash" /\ \A q \in Calls \ {m} : pc'[q] = pc[q]
    BY <1>9, StepTypesKept DEF SetDoc, MergeOrder
  <2>2. NoMem \in Locals /\ NoMem.todo \subseteq DOMAIN ScoresOf(m) /\ Remember(m, NoMem)
    BY <1>9, EmptyTypes DEF SetDoc
  <2>3. MemTypes'
    BY <1>0, <2>1, <2>2, RememberTypes
  <2>4. expiring' \in Seq(Keys) /\ TimesDistinct'
    BY <1>9, TimedIsLast DEF SetDoc, SharedTypes, Keys
  <2> QED
    BY <1>0, <1>9, <2>1, <2>3, <2>4 DEF SetDoc, SharedTypes, past, TimesDistinct
<1>10. ASSUME NEW x \in {"expirehash", "expirelist"}, NEW k \in {"hash", "list"}, NEW e,
              ExpireKey(m, x, k, e)
       PROVE  TypeOK'
  <2>1. /\ StepTypes' /\ pc'[m] # "hset" /\ \A q \in Calls \ {m} : pc'[q] = pc[q]
    BY <1>10, StepTypesKept DEF ExpireKey, MergeOrder
  <2>2. MemTypes'
    BY <1>0, <1>10, <2>1, NothingRemembered DEF ExpireKey
  <2>3. expiring' \in Seq(Keys) /\ TimesDistinct'
    <3>1. CASE expiring' = expiring
      BY <3>1 DEF SharedTypes, TimesDistinct
    <3>2. CASE expiring' = Timed(k)
      BY <3>2, TimedIsLast DEF SharedTypes, Keys
    <3> QED
      BY <1>10, <3>1, <3>2 DEF ExpireKey
  <2> QED
    BY <1>10, <2>1, <2>2, <2>3 DEF ExpireKey, SharedTypes
<1>11. CASE ExpireHash(m)
  BY <1>10, <1>11 DEF ExpireHash
<1>12. CASE ExpireList(m)
  BY <1>10, <1>12 DEF ExpireList
<1> QED
  BY <1>1, <1>2, <1>3, <1>4, <1>5, <1>6, <1>7, <1>8, <1>9, <1>11, <1>12 DEF Merge

\* The end of a key's time leaves values of the same kinds.
LEMMA TimeOverTypes == TypeOK /\ TimeOver => TypeOK'
<1> SUFFICES ASSUME TypeOK, TimeOver PROVE TypeOK'
  OBVIOUS
<1>1. StepTypes'
  BY DEF TimeOver, TypeOK, StepTypes
<1>2. MemTypes'
  <2>1. CASE Head(expiring) = "hash"
    BY <2>1, TornTypes DEF TimeOver, TypeOK
  <2>2. CASE Head(expiring) # "hash"
    BY <2>2 DEF TimeOver, TypeOK, MemTypes
  <2> QED
    BY <2>1, <2>2
<1>3. /\ history' \in Seq(Merges) /\ pushed' \in Seq(Merges) /\ expiring' \in Seq(Keys)
  BY DEF TimeOver, TypeOK, SharedTypes
<1>7. TimesDistinct'
  BY DEF TimeOver, TypeOK, SharedTypes, TimesDistinct
<1>4. stats' \in [Tags -> Samples] /\ doc' \in Docs
  BY EmptyTypes DEF TimeOver, TypeOK, SharedTypes
<1>5. counted' \in SUBSET (Merges \X Tags) /\ kept' \in [Tags -> SUBSET Merges]
  BY DEF TimeOver, TypeOK, SharedTypes
<1>6. midway' \in BOOLEAN
  BY DEF TimeOver
<1> QED
  BY <1>1, <1>2, <1>3, <1>4, <1>5, <1>6, <1>7 DEF TimeOver, TypeOK, SharedTypes

\* A merge that is lost.
LEMMA LoseTypes == ASSUME TypeOK, NEW m \in Merges, Lose(m) PROVE TypeOK'
<1>1. /\ StepTypes' /\ pc'[m] = "lost" /\ m \in Calls
      /\ \A q \in Calls \ {m} : pc'[q] = pc[q]
  BY GotoTypes, AbsentAssumption DEF Lose, TypeOK, MergeSteps, Calls
<1>2. MemTypes'
  BY <1>1, NothingRemembered DEF Lose, TypeOK
<1> QED
  BY <1>1, <1>2 DEF Lose, TypeOK, SharedTypes, shared, TimesDistinct

\* Every step of a reader keeps the types.
LEMMA ReadTypes ==
  ASSUME TypeOK, NEW r \in Readers, Read(r)
  PROVE  TypeOK'
<1> USE DEF TypeOK
<1>0. r \in Calls /\ mem[r] \in Locals /\ mem[r].draft \in Docs /\ r \notin Merges
  BY AbsentAssumption DEF Calls, MemTypes, Locals
<1>1. SharedTypes'
  BY DEF Read, ReadDoc, ReadHash, ReadList, ReadWeak, SharedTypes, shared, past, TimesDistinct
<1>2. PICK y \in ReadSteps : Goto(r, y)
  BY DEF Read, ReadDoc, ReadHash, ReadList, ReadWeak, ReadSteps
<1>3. StepTypes' /\ \A q \in Calls \ {r} : pc'[q] = pc[q]
  BY <1>0, <1>2, GotoTypes
<1>4. UNCHANGED mem \/ \E x \in Locals : Remember(r, x)
  <2>1. CASE ReadDoc(r)
    BY <2>1, DraftTypes, EmptyTypes DEF ReadDoc, SharedTypes
  <2>2. CASE ReadHash(r)
    BY <1>0, <2>2, DraftTypes DEF ReadHash, SharedTypes
  <2>3. CASE ReadList(r)
    BY <1>0, <2>3, DraftTypes, FirstTypes DEF ReadList, SharedTypes
  <2>4. CASE ReadWeak(r)
    BY <1>0, <2>4, DraftTypes DEF ReadWeak
  <2> QED
    BY <2>1, <2>2, <2>3, <2>4 DEF Read
<1>5. MemTypes'
  <2>1. CASE UNCHANGED mem
    BY <1>0, <1>3, <2>1 DEF MemTypes, Calls
  <2>2. ASSUME NEW x \in Locals, Remember(r, x) PROVE MemTypes'
    BY <1>0, <1>3, <2>2, RememberTypes
  <2> QED
    BY <1>4, <2>1, <2>2
<1> QED
  BY <1>1, <1>3, <1>5

\* The inductive step of the type invariant.
LEMMA TypeNext == TypeOK /\ [Next]_vars => TypeOK'
<1>1. TypeOK /\ UNCHANGED vars => TypeOK'
  BY DEF TypeOK, SharedTypes, StepTypes, MemTypes, vars, shared, past, TimesDistinct
<1> QED
  BY <1>1, MergeTypes, LoseTypes, ReadTypes, TimeOverTypes DEF Next

\* The keys, documents, lists and memories keep their types: a merge that is
\* about to write a sample has a tag of its analysis in hand, whatever the
\* model answered and whatever expired meanwhile.
THEOREM TypesProved == Spec => []TypeOK
  BY TypeInit, TypeNext, PTL DEF Spec
-----------------------------------------------------------------------------
(* Times to live.                                                          *)

\* What k holds.
Content(k) ==
  \/ k = "list" /\ history # <<>>
  \/ k = "hash" /\ stats # NoStats
  \/ k = "doc" /\ doc # NoDoc

\* A merge that will give the hash its time.
Expires(m) == Active(m) /\ pc[m] # "expirelist"

\* TimesAreSet, with names for its parts.
LEMMA TimesParts ==
  TimesAreSet <=>
    /\ Content("doc") => HasTime("doc")
    /\ Content("hash") => HasTime("hash") \/ "hash" \in leaked \/ \E m \in Merges : Expires(m)
    /\ Content("list") => HasTime("list") \/ "list" \in leaked \/ ~Idle
  BY Zenon DEF TimesAreSet, Untimed, Content, HasTime, Expires

\* The same with primes.
LEMMA TimesPartsNext ==
  TimesAreSet' <=>
    /\ Content("doc")' => HasTime("doc")'
    /\ Content("hash")' => HasTime("hash")' \/ "hash" \in leaked' \/ \E m \in Merges : Expires(m)'
    /\ Content("list")' => HasTime("list")' \/ "list" \in leaked' \/ ~Idle'
  BY Zenon DEF TimesAreSet, Untimed, Content, HasTime, Expires

\* A step that ends no merge, takes no time away and puts content into a key
\* only from a merge that goes on.
LEMMA TimesFrame ==
  ASSUME TimesAreSet,
         \A k \in Keys : HasTime(k) => HasTime(k)',
         leaked \subseteq leaked',
         \A m \in Merges : Expires(m) => Expires(m)',
         \A m \in Merges : Active(m) => Active(m)',
         Content("doc")' => Content("doc") \/ HasTime("doc")',
         Content("hash")' => Content("hash") \/ \E m \in Merges : Expires(m)',
         Content("list")' => Content("list") \/ \E m \in Merges : Active(m)'
  PROVE  TimesAreSet'
  BY TimesParts, TimesPartsNext DEF Idle, Keys

\* A merge that makes a step other than the last two goes on.
LEMMA StillExpires ==
  ASSUME TypeOK, NEW m \in Merges, pc'[m] \in MergeSteps \ {"push", "expirelist", "done", "lost"},
         \A q \in Calls \ {m} : pc'[q] = pc[q]
  PROVE  /\ Expires(m)'
         /\ \A n \in Merges : Expires(n) => Expires(n)'
         /\ \A n \in Merges : Active(n) => Active(n)'
  BY DEF Expires, Active, Calls

\* Merging keeps it: the document gets its time with the SET, the hash and the
\* list get theirs before the merge is over.
LEMMA MergeTimes ==
  ASSUME TypeOK, TimesAreSet, NEW m \in Merges, Merge(m)
  PROVE  TimesAreSet'
<1>0. expiring \in Seq(Keys) /\ TimesDistinct /\ StepTypes /\ m \in Calls
  BY DEF TypeOK, SharedTypes, Calls
<1>1. CASE \E x \in {"push", "trim", "hget", "weakest", "getdoc", "allstats", "lrange"} :
             Step(m, x) /\ UNCHANGED <<stats, doc, expiring, leaked>>
  <2>1. /\ pc'[m] \in MergeSteps \ {"push", "expirelist", "done", "lost"}
        /\ \A q \in Calls \ {m} : pc'[q] = pc[q]
    BY <1>0, <1>1, StepTypesKept DEF MergeOrder, MergeSteps
  <2>2. /\ Expires(m)' /\ Active(m)'
        /\ \A n \in Merges : Expires(n) => Expires(n)'
        /\ \A n \in Merges : Active(n) => Active(n)'
    BY <2>1, StillExpires DEF Expires
  <2>3. UNCHANGED <<stats, doc, expiring, leaked>>
    BY <1>1
  <2>4. \A k \in Keys : HasTime(k) => HasTime(k)'
    BY <2>3 DEF HasTime
  <2>5. (Content("doc")' => Content("doc")) /\ (Content("hash")' => Content("hash"))
    BY <2>3 DEF Content
  <2> QED
    BY <2>2, <2>3, <2>4, <2>5, TimesFrame
<1>2. CASE HSet(m)
  <2>1. PICK y \in {"hget", "weakest"} : Goto(m, y)
    BY <1>2 DEF HSet, MergeOrder
  <2>2. /\ pc'[m] \in MergeSteps \ {"push", "expirelist", "done", "lost"}
        /\ \A q \in Calls \ {m} : pc'[q] = pc[q]
    BY <1>0, <2>1, AbsentAssumption, GotoTypes DEF MergeOrder, MergeSteps
  <2>3. /\ Expires(m)' /\ Active(m)'
        /\ \A n \in Merges : Expires(n) => Expires(n)'
        /\ \A n \in Merges : Active(n) => Active(n)'
    BY <2>2, StillExpires DEF Expires
  <2> QED
    BY <1>2, <2>3, TimesFrame DEF HSet, Content, HasTime
<1>3. CASE SetDoc(m)
  <2>1. /\ pc'[m] \in MergeSteps \ {"push", "expirelist", "done", "lost"}
        /\ \A q \in Calls \ {m} : pc'[q] = pc[q]
    BY <1>0, <1>3, StepTypesKept DEF SetDoc, MergeOrder, MergeSteps
  <2>2. /\ \A n \in Merges : Expires(n) => Expires(n)'
        /\ \A n \in Merges : Active(n) => Active(n)'
    BY <2>1, StillExpires
  <2>3. HasTime("doc")' /\ \A k \in Keys : HasTime(k) => HasTime(k)'
    BY <1>0, <1>3, TimedIsLast DEF SetDoc, Keys
  <2>4. UNCHANGED <<leaked, stats, history>>
    BY <1>3 DEF SetDoc, past
  <2> QED
    BY <2>2, <2>3, <2>4, TimesFrame DEF Content
<1>4. CASE ExpireHash(m)
  <2>1. pc[m] = "expirehash" /\ pc'[m] = "expirelist" /\ \A q \in Calls \ {m} : pc'[q] = pc[q]
    BY <1>0, <1>4, StepTypesKept DEF ExpireHash, ExpireKey, MergeOrder
  <2>2. \A k \in Keys : HasTime(k) => HasTime(k)'
    <3>1. CASE expiring' = Timed("hash")
      BY <1>0, <3>1, TimedIsLast DEF Keys
    <3>2. CASE expiring' = expiring
      BY <3>2 DEF HasTime
    <3> QED
      BY <1>4, <3>1, <3>2 DEF ExpireHash, ExpireKey
  <2>3. Content("hash")' => HasTime("hash")'
    BY <1>0, <1>4, TimedIsLast DEF ExpireHash, ExpireKey, Content, Keys
  <2>4. Active(m)' /\ ~Idle'
    BY <2>1 DEF Active, Idle
  <2>5. UNCHANGED <<stats, history, doc>> /\ leaked' = leaked \ {"hash"}
    BY <1>4 DEF ExpireHash, ExpireKey
  <2> QED
    BY <2>2, <2>3, <2>4, <2>5, TimesParts, TimesPartsNext DEF Content, Keys
<1>5. CASE ExpireList(m)
  <2>1. pc[m] = "expirelist" /\ pc'[m] = "done" /\ \A q \in Calls \ {m} : pc'[q] = pc[q]
    BY <1>0, <1>5, StepTypesKept DEF ExpireList, ExpireKey, MergeOrder
  <2>2. \A k \in Keys : HasTime(k) => HasTime(k)'
    <3>1. CASE expiring' = Timed("list")
      BY <1>0, <3>1, TimedIsLast DEF Keys
    <3>2. CASE expiring' = expiring
      BY <3>2 DEF HasTime
    <3> QED
      BY <1>5, <3>1, <3>2 DEF ExpireList, ExpireKey
  <2>3. Content("list")' => HasTime("list")'
    BY <1>0, <1>5, TimedIsLast DEF ExpireList, ExpireKey, Content, Keys
  <2>4. \A n \in Merges : Expires(n) => Expires(n)'
    BY <2>1 DEF Expires, Active, Calls
  <2>5. UNCHANGED <<stats, history, doc>> /\ leaked' = leaked \ {"list"}
    BY <1>5 DEF ExpireList, ExpireKey
  <2> QED
    BY <2>2, <2>3, <2>4, <2>5, TimesParts, TimesPartsNext DEF Content, Keys
<1>6. Merge(m) => HSet(m) \/ SetDoc(m) \/ ExpireHash(m) \/ ExpireList(m)
        \/ \E x \in {"push", "trim", "hget", "weakest", "getdoc", "allstats", "lrange"} :
             Step(m, x) /\ UNCHANGED <<stats, doc, expiring, leaked>>
  BY DEF Merge, Push, Trim, HGet, Weakest, GetDoc, AllStats, LRange, shared, past
<1> QED
  BY <1>1, <1>2, <1>3, <1>4, <1>5, <1>6

\* A key leaves with its content; every other key keeps both.
LEMMA TimeOverTimes == ASSUME TypeOK, TimesAreSet, TimeOver PROVE TimesAreSet'
<1>1. expiring \in Seq(Keys) /\ expiring # <<>> /\ expiring' = Tail(expiring)
  BY DEF TimeOver, TypeOK, SharedTypes
<1>2. \A k \in Keys : HasTime(k) /\ k # Head(expiring) => HasTime(k)'
  <2> SUFFICES ASSUME NEW k \in Keys, NEW i \in 1 .. Len(expiring), expiring[i] = k, k # Head(expiring)
               PROVE  HasTime(k)'
    BY <1>1 DEF HasTime
  <2>1. i - 1 \in 1 .. Len(expiring') /\ expiring'[i - 1] = k
    BY <1>1
  <2>2. DOMAIN expiring' = 1 .. Len(expiring')
    BY <1>1
  <2> QED
    BY <2>1, <2>2 DEF HasTime
<1>3. \A k \in Keys : Content(k)' => Content(k) /\ k # Head(expiring)
  <2>1. /\ history' = IF Head(expiring) = "list" THEN <<>> ELSE history
        /\ stats' = IF Head(expiring) = "hash" THEN NoStats ELSE stats
        /\ doc' = IF Head(expiring) = "doc" THEN NoDoc ELSE doc
    BY DEF TimeOver
  <2>2. NoStats' = NoStats /\ NoDoc' = NoDoc
    BY DEF NoStats, NoDoc
  <2>3. Content("list")' => Content("list") /\ "list" # Head(expiring)
    BY <2>1 DEF Content
  <2>4. Content("hash")' => Content("hash") /\ "hash" # Head(expiring)
    BY <2>1, <2>2 DEF Content
  <2>5. Content("doc")' => Content("doc") /\ "doc" # Head(expiring)
    BY <2>1, <2>2 DEF Content
  <2> QED
    BY <2>3, <2>4, <2>5 DEF Keys
<1>4. UNCHANGED <<pc, leaked>>
  BY DEF TimeOver
<1>5. (\A m \in Merges : Expires(m) <=> Expires(m)') /\ (Idle <=> Idle')
  BY <1>4 DEF Expires, Active, Idle
<1> QED
  BY <1>2, <1>3, <1>4, <1>5, TimesParts, TimesPartsNext DEF Keys

\* A lost merge leaks the hash and the list; readers change nothing.
LEMMA OtherTimes ==
  ASSUME TypeOK, TimesAreSet,
         \/ \E m \in Merges : Lose(m)
         \/ \E r \in Readers : Read(r)
         \/ UNCHANGED vars
  PROVE  TimesAreSet'
<1>1. UNCHANGED <<history, stats, doc, expiring>> /\ leaked \subseteq leaked'
  BY DEF Lose, Read, ReadDoc, ReadHash, ReadList, ReadWeak, shared, past, vars
<1>2. \A k \in Keys : (HasTime(k) <=> HasTime(k)') /\ (Content(k) <=> Content(k)')
  BY <1>1 DEF HasTime, Content
<1>3. CASE \E m \in Merges : Lose(m)
  <2>1. "hash" \in leaked' /\ "list" \in leaked'
    BY <1>3 DEF Lose
  <2> QED
    BY <1>2, <2>1, TimesParts, TimesPartsNext DEF Keys
<1>4. CASE \/ \E r \in Readers : Read(r)
           \/ UNCHANGED vars
  <2>1. \A m \in Merges : pc'[m] = pc[m]
    BY <1>4, AbsentAssumption DEF Read, ReadDoc, ReadHash, ReadList, ReadWeak, Goto, vars,
       TypeOK, StepTypes, Calls
  <2>2. (\A m \in Merges : Expires(m) <=> Expires(m)') /\ (Idle <=> Idle')
    BY <2>1 DEF Expires, Active, Idle
  <2> QED
    BY <1>1, <1>2, <2>2, TimesParts, TimesPartsNext DEF Keys
<1> QED
  BY <1>3, <1>4

\* A document is never without a time to live; the hash and the list are only
\* while a merge is on its way to their EXPIREs, or when one was lost before.
THEOREM TimesAreSetProved == Spec => []TimesAreSet
<1>1. Init => TimesAreSet
  BY DEF Init, TimesAreSet, Untimed
<1>2. TypeOK /\ TimesAreSet /\ [Next]_vars => TimesAreSet'
  BY MergeTimes, TimeOverTimes, OtherTimes DEF Next
<1> QED
  BY <1>1, <1>2, TypesProved, PTL DEF Spec
-----------------------------------------------------------------------------
(* The list of analyses.                                                   *)

Untrimmed == {m \in Merges : pc[m] \in {"trim", "lost"}}

\* The list is the end of what was pushed, backwards.
Backwards ==
  /\ Len(history) <= Len(pushed)
  /\ \A i \in 1 .. Len(history) : history[i] = pushed[Len(pushed) + 1 - i]

\* The inductive form of HistoryIsNewest.
HistoryInv ==
  /\ Backwards
  /\ Len(history) >= Min({HistoryMax, Len(pushed)})
  /\ IsFiniteSet(Untrimmed)
  /\ Len(history) <= HistoryMax + Cardinality(Untrimmed)

\* A new analysis goes to the head of the list, and may be cut off by nobody
\* but itself.
LEMMA PushHistory ==
  ASSUME TypeOK, HistoryInv, NEW m \in Merges, Push(m)
  PROVE  HistoryInv'
<1> DEFINE L == Len(history)
           N == Len(pushed)
<1>1. /\ history \in Seq(Merges) /\ pushed \in Seq(Merges) /\ StepTypes
      /\ L \in Nat /\ N \in Nat /\ HistoryMax \in Nat /\ m \in Calls
  BY BoundAssumption DEF TypeOK, SharedTypes, Calls
<1>2. history' = <<m>> \o history /\ pushed' = Append(pushed, m)
  BY DEF Push
<1>3. Len(history') = L + 1 /\ Len(pushed') = N + 1
  BY <1>1, <1>2
<1>4. pc[m] = "push" /\ pc'[m] = "trim" /\ \A q \in Calls \ {m} : pc'[q] = pc[q]
  BY <1>1, StepTypesKept DEF Push, MergeOrder
<1>5. Untrimmed' = Untrimmed \cup {m} /\ m \notin Untrimmed
  BY <1>4 DEF Untrimmed, Calls
<1>6. IsFiniteSet(Untrimmed') /\ Cardinality(Untrimmed') = Cardinality(Untrimmed) + 1
      /\ Cardinality(Untrimmed) \in Nat
  BY <1>5, FS_AddElement, FS_CardinalityType DEF HistoryInv
<1>7. Backwards'
  <2>1. ASSUME NEW i \in 1 .. L + 1 PROVE history'[i] = pushed'[N + 2 - i]
    <3>1. CASE i = 1
      BY <1>1, <1>2, <3>1
    <3>2. CASE i # 1
      <4>1. history'[i] = history[i - 1]
        BY <1>1, <1>2, <3>2
      <4>2. history[i - 1] = pushed[N + 2 - i]
        BY <1>1, <3>2 DEF HistoryInv, Backwards
      <4>3. N + 2 - i \in 1 .. N
        BY <1>1, <3>2 DEF HistoryInv, Backwards
      <4> QED
        BY <1>1, <1>2, <4>1, <4>2, <4>3
    <3> QED
      BY <3>1, <3>2
  <2> QED
    BY <1>1, <1>3, <2>1 DEF HistoryInv, Backwards
<1>8. Len(history') >= Min({HistoryMax, Len(pushed')})
  BY <1>1, <1>3, MinOfTwo DEF HistoryInv
<1> QED
  BY <1>1, <1>3, <1>6, <1>7, <1>8 DEF HistoryInv

\* LTRIM leaves the newest.
LEMMA TrimHistory ==
  ASSUME TypeOK, HistoryInv, NEW m \in Merges, Trim(m)
  PROVE  HistoryInv'
<1> DEFINE L == Len(history)
           N == Len(pushed)
           n == Min({HistoryMax, L})
<1>1. /\ history \in Seq(Merges) /\ pushed \in Seq(Merges) /\ StepTypes
      /\ L \in Nat /\ N \in Nat /\ HistoryMax \in Nat /\ m \in Calls
  BY BoundAssumption DEF TypeOK, SharedTypes, Calls
<1>2. history' = SubSeq(history, 1, n) /\ pushed' = pushed
  BY DEF Trim, Kept, past
<1>3. n = IF HistoryMax <= L THEN HistoryMax ELSE L
  BY <1>1, MinOfTwo
<1>4. n \in 0 .. L /\ n <= HistoryMax
  BY <1>1, <1>3
<1> HIDE DEF n
<1>5. Len(history') = n /\ \A i \in 1 .. n : history'[i] = history[i]
  BY <1>1, <1>2, <1>4
<1>6. Backwards'
  <2>1. L <= N /\ \A i \in 1 .. L : history[i] = pushed[N + 1 - i]
    BY DEF HistoryInv, Backwards
  <2>2. \A i \in 1 .. n : i \in 1 .. L
    BY <1>1, <1>4
  <2>3. n <= N
    BY <1>1, <1>4, <2>1
  <2> QED
    BY <1>2, <1>5, <2>1, <2>2, <2>3 DEF Backwards
<1>7. Len(history') >= Min({HistoryMax, Len(pushed')})
  <2>1. L >= Min({HistoryMax, N})
    BY DEF HistoryInv
  <2> QED
    BY <1>1, <1>2, <1>3, <1>5, <2>1, MinOfTwo
<1>8. pc'[m] = "hget" /\ \A q \in Calls \ {m} : pc'[q] = pc[q]
  BY <1>1, StepTypesKept DEF Trim, MergeOrder
<1>9. Untrimmed' \in SUBSET Untrimmed
  BY <1>8 DEF Untrimmed, Calls
<1>10. IsFiniteSet(Untrimmed') /\ Cardinality(Untrimmed') \in Nat
  BY <1>9, FS_Subset, FS_CardinalityType DEF HistoryInv
<1> QED
  BY <1>1, <1>4, <1>5, <1>6, <1>7, <1>10 DEF HistoryInv

\* A step that leaves the list alone and ends no LTRIM; it may lose one merge.
LEMMA HistoryFrame ==
  ASSUME HistoryInv, TypeOK, UNCHANGED <<history, pushed>>, NEW p,
         Untrimmed' = Untrimmed \/ Untrimmed' = Untrimmed \cup {p}
  PROVE  HistoryInv'
<1>1. IsFiniteSet(Untrimmed') /\ Cardinality(Untrimmed') >= Cardinality(Untrimmed)
      /\ Cardinality(Untrimmed) \in Nat /\ Cardinality(Untrimmed') \in Nat
  <2>1. CASE Untrimmed' = Untrimmed
    BY <2>1, FS_CardinalityType DEF HistoryInv
  <2>2. CASE Untrimmed' = Untrimmed \cup {p}
    <3>1. Cardinality(Untrimmed \cup {p}) \in {Cardinality(Untrimmed), Cardinality(Untrimmed) + 1}
      BY FS_AddElement DEF HistoryInv
    <3> QED
      BY <2>2, <3>1, FS_AddElement, FS_CardinalityType DEF HistoryInv
  <2> QED
    BY <2>1, <2>2
<1>2. Len(history) \in Nat /\ HistoryMax \in Nat
  BY BoundAssumption DEF TypeOK, SharedTypes
<1>3. Backwards'
  BY DEF HistoryInv, Backwards
<1> QED
  BY <1>1, <1>2, <1>3 DEF HistoryInv

\* The other steps of a merge do not touch the list.
LEMMA MergeHistory ==
  ASSUME TypeOK, HistoryInv, NEW m \in Merges, Merge(m)
  PROVE  HistoryInv'
<1>0. StepTypes /\ m \in Calls
  BY DEF TypeOK, Calls
<1>1. CASE \E x \in {"hget", "weakest", "getdoc", "allstats", "lrange", "set",
                     "expirehash", "expirelist"} :
             Step(m, x) /\ UNCHANGED <<history, pushed>>
  <2>1. pc[m] \notin {"trim", "lost"} /\ pc'[m] \notin {"trim", "lost"}
        /\ \A q \in Calls \ {m} : pc'[q] = pc[q]
    BY <1>0, <1>1, StepTypesKept DEF MergeOrder
  <2>2. Untrimmed' = Untrimmed
    BY <2>1 DEF Untrimmed, Calls
  <2> QED
    BY <1>1, <2>2, HistoryFrame
<1>2. CASE HSet(m)
  <2>1. PICK y \in {"hget", "weakest"} : Goto(m, y)
    BY <1>2 DEF HSet, MergeOrder
  <2>2. Untrimmed' = Untrimmed
    BY <1>0, <1>2, <2>1 DEF Goto, Untrimmed, Calls, HSet, StepTypes
  <2> QED
    BY <1>2, <2>2, HistoryFrame DEF HSet
<1>3. Merge(m) => Push(m) \/ Trim(m) \/ HSet(m)
        \/ \E x \in {"hget", "weakest", "getdoc", "allstats", "lrange", "set",
                     "expirehash", "expirelist"} : Step(m, x) /\ UNCHANGED <<history, pushed>>
  <2> DEFINE Leaves == \E x \in {"hget", "weakest", "getdoc", "allstats", "lrange", "set",
                                "expirehash", "expirelist"} :
                         Step(m, x) /\ UNCHANGED <<history, pushed>>
  <2>1. HGet(m) => Leaves
    BY DEF HGet, shared, past
  <2>2. Weakest(m) => Leaves
    BY DEF Weakest, shared, past
  <2>3. GetDoc(m) => Leaves
    BY DEF GetDoc, shared, past
  <2>5. AllStats(m) => Leaves
    BY DEF AllStats, shared, past
  <2>6. LRange(m) => Leaves
    BY DEF LRange, shared, past
  <2>7. SetDoc(m) => Leaves
    BY DEF SetDoc, shared, past
  <2>8. ExpireHash(m) => Leaves
    BY DEF ExpireHash, ExpireKey
  <2>9. ExpireList(m) => Leaves
    BY DEF ExpireList, ExpireKey
  <2> HIDE DEF Leaves
  <2>4. Merge(m) => Push(m) \/ Trim(m) \/ HSet(m) \/ Leaves
    BY <2>1, <2>2, <2>3, <2>5, <2>6, <2>7, <2>8, <2>9 DEF Merge
  <2> QED
    BY <2>4 DEF Leaves
<1> QED
  BY <1>1, <1>2, <1>3, PushHistory, TrimHistory

\* The list goes as a whole, and what was pushed with it; a lost merge may
\* leave an analysis too many.
LEMMA OtherHistory ==
  ASSUME TypeOK, HistoryInv,
         \/ TimeOver
         \/ \E m \in Merges : Lose(m)
         \/ \E r \in Readers : Read(r)
         \/ UNCHANGED vars
  PROVE  HistoryInv'
<1>1. CASE TimeOver /\ Head(expiring) = "list"
  <2>1. history' = <<>> /\ pushed' = <<>> /\ UNCHANGED pc
    BY <1>1 DEF TimeOver
  <2>2. Untrimmed' = Untrimmed
    BY <2>1 DEF Untrimmed
  <2>3. Cardinality(Untrimmed) \in Nat /\ HistoryMax \in Nat
    BY BoundAssumption, FS_CardinalityType DEF HistoryInv
  <2>4. Min({HistoryMax, 0}) <= 0
    BY <2>3, MinOfTwo
  <2> QED
    BY <2>1, <2>2, <2>3, <2>4 DEF HistoryInv, Backwards
<1>2. CASE UNCHANGED <<history, pushed, pc>>
  <2>1. Untrimmed' = Untrimmed
    BY <1>2 DEF Untrimmed
  <2> QED
    BY <1>2, <2>1, HistoryFrame
<1>3. CASE \E m \in Merges : Lose(m)
  <2>1. PICK m \in Merges : Lose(m)
    BY <1>3
  <2>2. pc' = [pc EXCEPT ![m] = "lost"] /\ DOMAIN pc = Calls
    BY <2>1 DEF Lose, Goto, TypeOK, StepTypes
  <2>3. Untrimmed' = Untrimmed \cup {m}
    BY <2>2 DEF Untrimmed, Calls
  <2> QED
    BY <2>1, <2>3, HistoryFrame DEF Lose, shared
<1>4. CASE \E r \in Readers : Read(r)
  <2>1. \A m \in Merges : pc'[m] = pc[m]
    BY <1>4, AbsentAssumption DEF Read, ReadDoc, ReadHash, ReadList, ReadWeak, Goto,
       TypeOK, StepTypes, Calls
  <2>2. Untrimmed' = Untrimmed
    BY <2>1 DEF Untrimmed
  <2>3. UNCHANGED <<history, pushed>>
    BY <1>4 DEF Read, ReadDoc, ReadHash, ReadList, ReadWeak, shared, past
  <2> QED
    BY <2>2, <2>3, HistoryFrame
<1> QED
  BY <1>1, <1>2, <1>3, <1>4 DEF TimeOver, vars, shared, past

\* The number of merges is finite wherever it counts: only those that have
\* begun can be untrimmed.
LEMMA HistoryInit == Init => HistoryInv
<1> SUFFICES ASSUME Init PROVE HistoryInv
  OBVIOUS
<1>1. Untrimmed = {}
  BY AbsentAssumption DEF Init, Untrimmed
<1>2. history = <<>> /\ pushed = <<>> /\ HistoryMax \in Nat
  BY BoundAssumption DEF Init
<1>3. Min({HistoryMax, 0}) <= 0
  BY <1>2, MinOfTwo
<1> QED
  BY <1>1, <1>2, <1>3, FS_EmptySet DEF HistoryInv, Backwards

\* The list never loses one of the newest analyses, keeps their order, and is
\* longer than HISTORY_MAX by no more than the merges that have not trimmed it.
THEOREM HistoryIsNewestProved == Spec => []HistoryIsNewest
<1>1. HistoryInv => HistoryIsNewest
  BY DEF HistoryInv, Backwards, HistoryIsNewest, Untrimmed
<1>2. TypeOK /\ HistoryInv /\ [Next]_vars => HistoryInv'
  BY MergeHistory, OtherHistory DEF Next
<1> QED
  BY <1>1, <1>2, HistoryInit, TypesProved, PTL DEF Spec
-----------------------------------------------------------------------------
(* Weak tags and statistics.                                               *)

\* What a draft d promises at a step, when tags S have statistics in the hash:
\* after the weak tags were read these have statistics in the hash, after the
\* statistics were read also in the draft; a reader reads them the other way.
DraftOK(step, d, S) ==
  /\ step \in {"getdoc", "allstats"} => d.torn \/ d.weak \subseteq S
  /\ step \in {"lrange", "set", "answered"} => d.torn \/ d.weak \subseteq Sampled(d.stats)
  /\ step \in {"readlist", "readweak"} => d.torn \/ S \subseteq Sampled(d.stats)

\* The inductive form of WeakTagsHaveStats.
WeakInv ==
  /\ \A t \in Tags : stats[t] = Nothing \/ stats[t].count > 0
  /\ doc.torn \/ doc.weak \subseteq Sampled(doc.stats)
  /\ \A p \in Calls : DraftOK(pc[p], mem[p].draft, Sampled(stats))

\* A call makes a step of its own that leaves hash and document alone.
LEMMA DraftFrame ==
  ASSUME WeakInv, UNCHANGED <<stats, doc>>, NEW p \in Calls,
         \A q \in Calls \ {p} : pc'[q] = pc[q] /\ mem'[q] = mem[q],
         DraftOK(pc'[p], mem'[p].draft, Sampled(stats))
  PROVE  WeakInv'
<1>1. Sampled(stats)' = Sampled(stats)
  BY DEF Sampled
<1>2. \A q \in Calls : DraftOK(pc'[q], mem'[q].draft, Sampled(stats))
  <2> SUFFICES ASSUME NEW q \in Calls PROVE DraftOK(pc'[q], mem'[q].draft, Sampled(stats))
    OBVIOUS
  <2>1. CASE q = p
    BY <2>1
  <2>2. CASE q # p
    BY <2>2 DEF WeakInv
  <2> QED
    BY <2>1, <2>2
<1>3. \A q \in Calls : DraftOK(pc[q], mem[q].draft, Sampled(stats))'
  BY <1>1, <1>2
<1> QED
  BY <1>3 DEF WeakInv, Nothing

\* A step after which a draft promises nothing.
LEMMA NoPromise ==
  ASSUME NEW step, NEW d, NEW S,
         step \notin {"getdoc", "allstats", "lrange", "set", "answered", "readlist", "readweak"}
  PROVE  DraftOK(step, d, S)
  BY DEF DraftOK

\* A new draft, and nothing else, in one call's memory.
LEMMA DraftWritten ==
  ASSUME mem \in [Calls -> Locals], NEW p \in Calls, NEW d \in Docs,
         Remember(p, [mem[p] EXCEPT !.draft = d])
  PROVE  /\ mem'[p].draft = d /\ mem'[p].todo = mem[p].todo /\ mem'[p].at = mem[p].at
         /\ mem'[p].prev = mem[p].prev /\ mem'[p].had = mem[p].had
         /\ \A q \in Calls \ {p} : mem'[q] = mem[q]
<1> DEFINE x == [mem[p] EXCEPT !.draft = d]
<1>1. /\ x.draft = d /\ x.todo = mem[p].todo /\ x.at = mem[p].at
      /\ x.prev = mem[p].prev /\ x.had = mem[p].had
  BY DEF Locals
<1>2. mem' = [mem EXCEPT ![p] = x]
  BY DEF Remember
<1> HIDE DEF x
<1> QED
  BY <1>1, <1>2

\* The steps of a merge other than its HSETs and the SET.
LEMMA MergeWeak ==
  ASSUME TypeOK, WeakInv, NEW m \in Merges, Merge(m), ~HSet(m), ~SetDoc(m)
  PROVE  WeakInv'
<1>0. /\ StepTypes /\ m \in Calls /\ mem \in [Calls -> Locals] /\ mem[m] \in Locals
      /\ mem[m].draft \in Docs
  BY DEF TypeOK, Calls, MemTypes, Locals
<1>1. ASSUME NEW d \in Docs, Remember(m, [mem[m] EXCEPT !.draft = d])
      PROVE  mem'[m].draft = d /\ \A q \in Calls \ {m} : mem'[q] = mem[q]
  BY <1>0, <1>1, DraftWritten
<1>2. ASSUME NEW x \in {"push", "trim", "hget", "expirehash", "expirelist"}, Step(m, x),
             UNCHANGED <<stats, doc>>,
             UNCHANGED mem \/ \E y : Remember(m, y)
      PROVE  WeakInv'
  <2>1. /\ \A q \in Calls \ {m} : pc'[q] = pc[q]
        /\ pc'[m] \in {"trim", "hget", "hset", "expirelist", "done"}
    BY <1>0, <1>2, StepTypesKept DEF MergeOrder
  <2>2. \A q \in Calls \ {m} : mem'[q] = mem[q]
    BY <1>0, <1>2 DEF Remember
  <2>3. DraftOK(pc'[m], mem'[m].draft, Sampled(stats))
    BY <2>1, NoPromise
  <2> QED
    BY <1>0, <1>2, <2>1, <2>2, <2>3, DraftFrame
<1>3. CASE Weakest(m)
  <2>1. PICK W \in SUBSET Tags : IsWeakest(stats, W) /\ Remember(m, [mem[m] EXCEPT !.draft.weak = W])
    BY <1>3 DEF Weakest
  <2> DEFINE d == [mem[m].draft EXCEPT !.weak = W]
  <2>2. d \in Docs /\ d.weak = W
    BY <1>0 DEF Docs
  <2>3. Remember(m, [mem[m] EXCEPT !.draft = d])
    BY <2>1
  <2> HIDE DEF d
  <2>4. mem'[m].draft = d /\ \A q \in Calls \ {m} : mem'[q] = mem[q]
    BY <1>1, <2>2, <2>3
  <2>5. pc'[m] = "getdoc" /\ \A q \in Calls \ {m} : pc'[q] = pc[q]
    BY <1>0, <1>3, StepTypesKept DEF Weakest, MergeOrder
  <2>6. DraftOK("getdoc", d, Sampled(stats))
    BY <2>1, <2>2 DEF DraftOK, IsWeakest
  <2> QED
    BY <1>0, <1>3, <2>4, <2>5, <2>6, DraftFrame DEF Weakest, shared
<1>4. CASE GetDoc(m)
  <2> DEFINE d == [mem[m].draft EXCEPT !.used = doc.used \cup DOMAIN ScoresOf(m)]
  <2>1. doc.used \cup DOMAIN ScoresOf(m) \in SUBSET Tags
    BY ScoresInScale DEF TypeOK, SharedTypes, Docs
  <2>2. d \in Docs /\ d.weak = mem[m].draft.weak /\ d.torn = mem[m].draft.torn
    BY <1>0, <2>1 DEF Docs
  <2>3. Remember(m, [mem[m] EXCEPT !.draft = d])
    BY <1>4 DEF GetDoc
  <2> HIDE DEF d
  <2>4. mem'[m].draft = d /\ \A q \in Calls \ {m} : mem'[q] = mem[q]
    BY <1>1, <2>2, <2>3
  <2>5. pc[m] = "getdoc" /\ pc'[m] = "allstats" /\ \A q \in Calls \ {m} : pc'[q] = pc[q]
    BY <1>0, <1>4, StepTypesKept DEF GetDoc, MergeOrder
  <2>6. DraftOK("getdoc", mem[m].draft, Sampled(stats))
    BY <1>0, <2>5 DEF WeakInv
  <2>7. DraftOK("allstats", d, Sampled(stats))
    BY <2>2, <2>6 DEF DraftOK
  <2> QED
    BY <1>0, <1>4, <2>4, <2>5, <2>7, DraftFrame DEF GetDoc, shared
<1>5. CASE AllStats(m)
  <2> DEFINE d == [mem[m].draft EXCEPT !.stats = stats]
  <2>2. d \in Docs /\ d.weak = mem[m].draft.weak /\ d.torn = mem[m].draft.torn /\ d.stats = stats
    BY <1>0 DEF Docs, TypeOK, SharedTypes
  <2>3. Remember(m, [mem[m] EXCEPT !.draft = d])
    BY <1>5 DEF AllStats
  <2> HIDE DEF d
  <2>4. mem'[m].draft = d /\ \A q \in Calls \ {m} : mem'[q] = mem[q]
    BY <1>1, <2>2, <2>3
  <2>5. pc[m] = "allstats" /\ pc'[m] = "lrange" /\ \A q \in Calls \ {m} : pc'[q] = pc[q]
    BY <1>0, <1>5, StepTypesKept DEF AllStats, MergeOrder
  <2>6. DraftOK("allstats", mem[m].draft, Sampled(stats))
    BY <1>0, <2>5 DEF WeakInv
  <2>7. DraftOK("lrange", d, Sampled(stats))
    BY <2>2, <2>6 DEF DraftOK
  <2> QED
    BY <1>0, <1>5, <2>4, <2>5, <2>7, DraftFrame DEF AllStats, shared
<1>6. CASE LRange(m)
  <2> DEFINE d == [mem[m].draft EXCEPT !.history = Newest]
  <2>2. d \in Docs /\ d.weak = mem[m].draft.weak /\ d.torn = mem[m].draft.torn
        /\ d.stats = mem[m].draft.stats
    BY <1>0, FirstTypes DEF Docs
  <2>3. Remember(m, [mem[m] EXCEPT !.draft = d])
    BY <1>6 DEF LRange
  <2> HIDE DEF d
  <2>4. mem'[m].draft = d /\ \A q \in Calls \ {m} : mem'[q] = mem[q]
    BY <1>1, <2>2, <2>3
  <2>5. pc[m] = "lrange" /\ pc'[m] = "set" /\ \A q \in Calls \ {m} : pc'[q] = pc[q]
    BY <1>0, <1>6, StepTypesKept DEF LRange, MergeOrder
  <2>6. DraftOK("lrange", mem[m].draft, Sampled(stats))
    BY <1>0, <2>5 DEF WeakInv
  <2>7. DraftOK("set", d, Sampled(stats))
    BY <2>2, <2>6 DEF DraftOK
  <2> QED
    BY <1>0, <1>6, <2>4, <2>5, <2>7, DraftFrame DEF LRange, shared
<1>7. CASE Push(m) \/ Trim(m)
  BY <1>2, <1>7 DEF Push, Trim
<1>8. CASE HGet(m)
  BY <1>2, <1>8 DEF HGet, shared
<1>9. CASE ExpireHash(m) \/ ExpireList(m)
  BY <1>2, <1>9 DEF ExpireHash, ExpireList, ExpireKey
<1> QED
  BY <1>3, <1>4, <1>5, <1>6, <1>7, <1>8, <1>9 DEF Merge

\* The SET stores a draft whose promise is that of a document.
LEMMA SetWeak ==
  ASSUME TypeOK, WeakInv, NEW m \in Merges, SetDoc(m)
  PROVE  WeakInv'
<1>0. /\ StepTypes /\ m \in Calls /\ DOMAIN mem = Calls
  BY DEF TypeOK, Calls, MemTypes
<1>1. /\ pc[m] = "set" /\ pc'[m] = "expirehash"
      /\ \A q \in Calls \ {m} : pc'[q] = pc[q] /\ mem'[q] = mem[q]
  BY <1>0, StepTypesKept DEF SetDoc, Remember, MergeOrder
<1>2. doc' = mem[m].draft /\ UNCHANGED stats
  BY DEF SetDoc
<1>3. DraftOK("set", mem[m].draft, Sampled(stats))
  BY <1>0, <1>1 DEF WeakInv
<1>4. doc'.torn \/ doc'.weak \subseteq Sampled(doc'.stats)
  BY <1>2, <1>3 DEF DraftOK
<1>5. Sampled(stats)' = Sampled(stats)
  BY <1>2 DEF Sampled
<1>6. ASSUME NEW q \in Calls PROVE DraftOK(pc'[q], mem'[q].draft, Sampled(stats))
  <2>1. CASE q = m
    BY <1>1, <2>1, NoPromise
  <2>2. CASE q # m
    BY <1>1, <2>2 DEF WeakInv
  <2> QED
    BY <2>1, <2>2
<1>7. \A q \in Calls : DraftOK(pc[q], mem[q].draft, Sampled(stats))'
  BY <1>5, <1>6
<1>8. Sampled(doc.stats)' = Sampled(doc'.stats)
  BY DEF Sampled
<1> QED
  BY <1>2, <1>4, <1>7, <1>8 DEF WeakInv, Nothing

\* A sample more gives at most one more tag statistics, and then the readers
\* between their two reads have a torn draft.
LEMMA HSetWeak ==
  ASSUME TypeOK, WeakInv, NEW m \in Merges, HSet(m)
  PROVE  WeakInv'
<1> DEFINE t == mem[m].at
<1>0. /\ StepTypes /\ m \in Calls /\ m \notin Readers /\ mem \in [Calls -> Locals]
      /\ mem[m] \in Locals /\ stats \in [Tags -> Samples] /\ pc[m] = "hset" /\ UNCHANGED doc
  BY AbsentAssumption DEF TypeOK, Calls, MemTypes, SharedTypes, HSet
<1>1. t \in Tags /\ t \in DOMAIN ScoresOf(m) /\ mem[m].prev \in Samples
  BY <1>0 DEF TypeOK, MemTypes, Locals
<1>2. /\ pc'[m] \in {"hget", "weakest"} /\ \A q \in Calls \ {m} : pc'[q] = pc[q]
  BY <1>0 DEF HSet, Goto, MergeOrder, StepTypes
<1>3. stats'[t].count > 0 /\ \A u \in Tags \ {t} : stats'[u] = stats[u]
  <2> DEFINE x == MergeSample(mem[m].prev, ScoresOf(m)[t])
  <2>1. x.count > 0
    BY <1>1 DEF MergeSample, Samples
  <2>2. stats' = [stats EXCEPT ![t] = x]
    BY DEF HSet
  <2> HIDE DEF x
  <2> QED
    BY <1>0, <1>1, <2>1, <2>2
<1>4. Sampled(stats)' = Sampled(stats) \cup {t}
  BY <1>1, <1>3 DEF Sampled
<1>5. stats[t] = Nothing \/ t \in Sampled(stats)
  BY <1>1 DEF WeakInv, Sampled
<1>6. ASSUME NEW q \in Calls PROVE DraftOK(pc'[q], mem'[q].draft, Sampled(stats) \cup {t})
  <2>1. CASE q = m
    BY <1>2, <2>1, NoPromise
  <2>2. CASE q # m
    <3> DEFINE d == mem[q].draft
               e == mem'[q].draft
    <3>1. mem'[q] = Torn(FirstSample(t))[q] /\ pc'[q] = pc[q]
      BY <1>0, <1>2, <2>2, HSetFields
    <3>2. e.weak = d.weak /\ e.stats = d.stats
      BY <1>0, <3>1, TornFields
    <3>3. e.torn \/ e = d
      BY <1>0, <3>1, TornFields
    <3>4. DraftOK(pc[q], d, Sampled(stats))
      BY DEF WeakInv
    <3> HIDE DEF d, e
    <3>5. CASE pc[q] \notin {"readlist", "readweak"}
      BY <3>1, <3>2, <3>3, <3>4, <3>5 DEF DraftOK, d, e
    <3>6. CASE pc[q] \in {"readlist", "readweak"} /\ t \in Sampled(stats)
      <4>1. Sampled(stats) \cup {t} = Sampled(stats)
        BY <3>6
      <4> QED
        BY <3>1, <3>2, <3>3, <3>4, <3>6, <4>1 DEF DraftOK, d, e
    <3>7. CASE pc[q] \in {"readlist", "readweak"} /\ stats[t] = Nothing
      <4>1. q \in Readers
        BY <1>0, <3>7 DEF StepTypes, Calls, MergeSteps, MergeOrder
      <4>2. q \in FirstSample(t)
        BY <3>7, <4>1 DEF FirstSample, BetweenReads
      <4>3. e.torn
        BY <1>0, <3>1, <4>2, TornFields DEF e
      <4> QED
        BY <3>1, <3>7, <4>3 DEF DraftOK, e
    <3> QED
      BY <1>5, <3>5, <3>6, <3>7
  <2> QED
    BY <2>1, <2>2
<1>7. \A q \in Calls : DraftOK(pc[q], mem[q].draft, Sampled(stats))'
  BY <1>4, <1>6
<1>8. Sampled(doc.stats)' = Sampled(doc.stats)
  BY <1>0 DEF Sampled
<1>9. \A u \in Tags : stats'[u] = Nothing \/ stats'[u].count > 0
  BY <1>3 DEF WeakInv
<1>10. Nothing' = Nothing
  BY DEF Nothing
<1> QED
  BY <1>0, <1>7, <1>8, <1>9, <1>10 DEF WeakInv

\* The end of the hash's time tears every draft between two reads of it.
LEMMA TimeOverWeak ==
  ASSUME TypeOK, WeakInv, TimeOver
  PROVE  WeakInv'
<1>0. mem \in [Calls -> Locals] /\ UNCHANGED pc /\ NoStats \in [Tags -> Samples]
  BY EmptyTypes DEF TypeOK, MemTypes, TimeOver
<1>1. NoStats' = NoStats /\ Nothing' = Nothing /\ NoDoc' = NoDoc
  BY DEF NoStats, Nothing, NoDoc
<1>2. CASE Head(expiring) = "hash"
  <2>1. stats' = NoStats /\ doc' = doc /\ mem' = Torn({p \in DOMAIN mem : BetweenReads(p)})
    BY <1>2 DEF TimeOver
  <2>2. Sampled(stats)' = {}
    BY <2>1 DEF Sampled, NoStats, Nothing
  <2>3. Sampled(doc.stats)' = Sampled(doc.stats)
    BY <2>1 DEF Sampled
  <2>4. ASSUME NEW q \in Calls PROVE DraftOK(pc'[q], mem'[q].draft, {})
    <3> DEFINE P == {p \in DOMAIN mem : BetweenReads(p)}
    <3>1. mem'[q].draft.weak = mem[q].draft.weak /\ mem'[q].draft.stats = mem[q].draft.stats
      BY <1>0, <2>1, TornFields
    <3>2. CASE q \in P
      BY <1>0, <2>1, <3>2, TornFields DEF DraftOK, BetweenReads
    <3>3. CASE q \notin P
      <4>1. mem'[q] = mem[q] /\ ~BetweenReads(q)
        BY <1>0, <2>1, <3>3, TornFields
      <4>2. DraftOK(pc[q], mem[q].draft, Sampled(stats))
        BY DEF WeakInv
      <4> QED
        BY <1>0, <4>1, <4>2 DEF DraftOK, BetweenReads
    <3> QED
      BY <3>2, <3>3
  <2>5. \A q \in Calls : DraftOK(pc[q], mem[q].draft, Sampled(stats))'
    BY <2>2, <2>4
  <2>6. \A t \in Tags : stats'[t] = Nothing
    BY <2>1 DEF NoStats
  <2> QED
    BY <1>1, <2>1, <2>3, <2>5, <2>6 DEF WeakInv
<1>3. CASE Head(expiring) # "hash"
  <2>1. UNCHANGED <<stats, mem>> /\ (doc' = doc \/ doc' = NoDoc)
    BY <1>3 DEF TimeOver
  <2>2. Sampled(stats)' = Sampled(stats)
    BY <2>1 DEF Sampled
  <2>3. \A q \in Calls : DraftOK(pc[q], mem[q].draft, Sampled(stats))'
    BY <1>0, <2>1, <2>2 DEF WeakInv
  <2>4. doc.torn' \/ doc'.weak \subseteq Sampled(doc.stats)'
    <3>1. CASE doc' = doc
      BY <3>1 DEF WeakInv, Sampled
    <3>2. CASE doc' = NoDoc
      <4>1. NoDoc.weak = {}
        BY DEF NoDoc
      <4> QED
        BY <3>2, <4>1
    <3> QED
      BY <2>1, <3>1, <3>2
  <2> QED
    BY <1>1, <2>1, <2>3, <2>4 DEF WeakInv
<1> QED
  BY <1>2, <1>3

\* A reader's answer: the document, whose promise is the same, or the weak tags
\* of a hash that has only lost tags since its statistics were read.
LEMMA ReadWeakTags ==
  ASSUME TypeOK, WeakInv, NEW r \in Readers, Read(r)
  PROVE  WeakInv'
<1>0. /\ StepTypes /\ r \in Calls /\ mem \in [Calls -> Locals] /\ mem[r] \in Locals
      /\ mem[r].draft \in Docs /\ doc \in Docs /\ stats \in [Tags -> Samples]
  BY DEF TypeOK, Calls, MemTypes, Locals, SharedTypes
<1>1. UNCHANGED <<stats, doc>>
  BY DEF Read, ReadDoc, ReadHash, ReadList, ReadWeak, shared
<1>2. \A q \in Calls \ {r} : pc'[q] = pc[q]
  BY <1>0 DEF Read, ReadDoc, ReadHash, ReadList, ReadWeak, Goto, StepTypes
<1>3. ASSUME NEW d \in Docs, Remember(r, [mem[r] EXCEPT !.draft = d]),
             DraftOK(pc'[r], d, Sampled(stats))
      PROVE  WeakInv'
  BY <1>0, <1>1, <1>2, <1>3, DraftWritten, DraftFrame
<1>4. CASE ReadDoc(r) /\ doc = NoDoc
  <2>1. UNCHANGED mem /\ pc'[r] = "readhash"
    BY <1>0, <1>4 DEF ReadDoc, Goto, StepTypes
  <2>2. DraftOK(pc'[r], mem'[r].draft, Sampled(stats))
    BY <2>1, NoPromise
  <2> QED
    BY <1>0, <1>1, <1>2, <2>1, <2>2, DraftFrame
<1>5. CASE ReadDoc(r) /\ doc # NoDoc
  <2>1. Remember(r, [NoMem EXCEPT !.draft = doc]) /\ pc'[r] = "answered"
    BY <1>0, <1>5 DEF ReadDoc, Goto, StepTypes
  <2>2. mem'[r] = [NoMem EXCEPT !.draft = doc] /\ \A q \in Calls \ {r} : mem'[q] = mem[q]
    BY <1>0, <2>1 DEF Remember
  <2>3. mem'[r].draft = doc
    BY <2>2, EmptyTypes DEF Locals
  <2>4. DraftOK("answered", doc, Sampled(stats))
    BY DEF WeakInv, DraftOK
  <2> QED
    BY <1>0, <1>1, <1>2, <2>1, <2>2, <2>3, <2>4, DraftFrame
<1>6. CASE ReadHash(r)
  <2> DEFINE d == [mem[r].draft EXCEPT !.stats = stats]
  <2>1. d \in Docs /\ d.stats = stats
    BY <1>0 DEF Docs
  <2>2. Remember(r, [mem[r] EXCEPT !.draft = d])
    BY <1>6 DEF ReadHash
  <2>3. pc'[r] = "readlist"
    BY <1>0, <1>6 DEF ReadHash, Goto, StepTypes
  <2> HIDE DEF d
  <2>4. DraftOK("readlist", d, Sampled(stats))
    BY <2>1 DEF DraftOK
  <2> QED
    BY <1>3, <2>1, <2>2, <2>3, <2>4
<1>7. CASE ReadList(r)
  <2> DEFINE d == [mem[r].draft EXCEPT !.history = Newest]
  <2>1. d \in Docs /\ d.stats = mem[r].draft.stats /\ d.torn = mem[r].draft.torn
    BY <1>0, FirstTypes DEF Docs
  <2>2. Remember(r, [mem[r] EXCEPT !.draft = d])
    BY <1>7 DEF ReadList
  <2>3. pc[r] = "readlist" /\ pc'[r] \in {"readweak", "none"}
    BY <1>0, <1>7 DEF ReadList, Goto, StepTypes
  <2>4. DraftOK("readlist", mem[r].draft, Sampled(stats))
    BY <1>0, <2>3 DEF WeakInv
  <2> HIDE DEF d
  <2>5. DraftOK("readweak", d, Sampled(stats))
    BY <2>1, <2>4 DEF DraftOK
  <2>6. DraftOK("none", d, Sampled(stats))
    BY NoPromise
  <2> QED
    BY <1>3, <2>1, <2>2, <2>3, <2>5, <2>6
<1>8. CASE ReadWeak(r)
  <2>1. PICK W \in SUBSET Tags : IsWeakest(stats, W) /\ Remember(r, [mem[r] EXCEPT !.draft.weak = W])
    BY <1>8 DEF ReadWeak
  <2> DEFINE d == [mem[r].draft EXCEPT !.weak = W]
  <2>2. /\ d \in Docs /\ d.weak = W /\ d.stats = mem[r].draft.stats
        /\ d.torn = mem[r].draft.torn
    BY <1>0 DEF Docs
  <2>3. Remember(r, [mem[r] EXCEPT !.draft = d])
    BY <2>1
  <2>4. pc[r] = "readweak" /\ pc'[r] = "answered"
    BY <1>0, <1>8 DEF ReadWeak, Goto, StepTypes
  <2>5. DraftOK("readweak", mem[r].draft, Sampled(stats))
    BY <1>0, <2>4 DEF WeakInv
  <2>6. W \subseteq Sampled(stats)
    BY <2>1 DEF IsWeakest
  <2> HIDE DEF d
  <2>7. DraftOK("answered", d, Sampled(stats))
    BY <2>2, <2>5, <2>6 DEF DraftOK
  <2> QED
    BY <1>3, <2>2, <2>3, <2>4, <2>7
<1> QED
  BY <1>4, <1>5, <1>6, <1>7, <1>8 DEF Read, ReadDoc

\* A lost merge promises nothing any more.
LEMMA LoseWeak ==
  ASSUME TypeOK, WeakInv, NEW m \in Merges, Lose(m)
  PROVE  WeakInv'
<1>1. /\ UNCHANGED <<stats, doc, mem>> /\ m \in Calls /\ pc'[m] = "lost"
      /\ \A q \in Calls \ {m} : pc'[q] = pc[q]
  BY DEF Lose, shared, Goto, TypeOK, StepTypes, Calls
<1>2. DraftOK(pc'[m], mem'[m].draft, Sampled(stats))
  BY <1>1, NoPromise
<1> QED
  BY <1>1, <1>2, DraftFrame

\* The weak tags that a document or an answer names have statistics in it,
\* unless the hash got a new tag or reached its time between the two reads.
THEOREM WeakTagsHaveStatsProved == Spec => []WeakTagsHaveStats
<1>1. Init => WeakInv
  <2> SUFFICES ASSUME Init PROVE WeakInv
    OBVIOUS
  <2>1. \A p \in Calls : pc[p] \in {"get", "done", "push"}
    BY DEF Init, Calls
  <2>2. \A p \in Calls : DraftOK(pc[p], mem[p].draft, Sampled(stats))
    BY <2>1, NoPromise
  <2>3. doc.weak = {} /\ \A t \in Tags : stats[t] = Nothing
    BY DEF Init, NoDoc, NoStats
  <2> QED
    BY <2>2, <2>3 DEF WeakInv
<1>2. TypeOK /\ WeakInv /\ [Next]_vars => WeakInv'
  <2>1. WeakInv /\ UNCHANGED vars => WeakInv'
    BY DEF WeakInv, vars, shared, past, Sampled, Nothing
  <2> QED
    BY <2>1, MergeWeak, SetWeak, HSetWeak, TimeOverWeak, ReadWeakTags, LoseWeak DEF Next
<1>3. TypeOK /\ WeakInv => WeakTagsHaveStats
  <2> SUFFICES ASSUME TypeOK, WeakInv, NEW r \in Readers, pc[r] = "answered"
               PROVE  mem[r].draft.torn \/ mem[r].draft.weak \subseteq Sampled(mem[r].draft.stats)
    BY DEF WeakTagsHaveStats, WeakInv
  <2>1. DraftOK("answered", mem[r].draft, Sampled(stats))
    BY DEF WeakInv, Calls
  <2> QED
    BY <2>1 DEF DraftOK
<1> QED
  BY <1>1, <1>2, <1>3, TypesProved, PTL DEF Spec
-----------------------------------------------------------------------------
(* Samples.                                                                *)

\* A sample s is made of the scores that the analyses P give tag t.
Real(s, P, t) ==
  /\ IsFiniteSet(P) /\ IsFiniteSet(Points(t, P))
  /\ s.count = Cardinality(P)
  /\ s.sum = Cardinality(Points(t, P))
  /\ s.sum \in MinScore * s.count .. MaxScore * s.count

\* Merges whose sample of tag t was written.
Written(t) == {m \in Merges : pc[m] # "push" /\ t \in DOMAIN ScoresOf(m) \ mem[m].todo}

\* The inductive form of SamplesAreReal: what a merge holds between HGET and
\* HSET is as real as what the hash holds, and neither has a merge in it that
\* has yet to write the tag.
SampleInv ==
  /\ \A t \in Tags : Real(stats[t], kept[t], t) /\ kept[t] \subseteq Written(t)
  /\ \A q \in Merges : pc[q] = "hset" =>
       /\ Real(mem[q].prev, mem[q].had, mem[q].at)
       /\ mem[q].had \subseteq Written(mem[q].at)
  /\ \A t \in Tags : stats[t] # Nothing <=> \E m \in Merges : <<m, t>> \in counted

\* merge_sample with the score of one analysis more.
LEMMA OneMoreSample ==
  ASSUME NEW s \in Samples, NEW P \in SUBSET Merges, NEW m \in Merges \ P,
         NEW t \in DOMAIN ScoresOf(m), Real(s, P, t)
  PROVE  Real(MergeSample(s, ScoresOf(m)[t]), P \cup {m}, t)
<1> DEFINE x == ScoresOf(m)[t]
           A == Points(t, P)
           B == {m} \X (1 .. x)
<1>1. x \in 1 .. 10
  BY ScoresInScale DEF MinScore, MaxScore
<1>2. Points(t, P \cup {m}) = A \cup B
  BY DEF Points
<1>3. A \cap B = {}
  BY DEF Points
<1>4. IsFiniteSet(B) /\ Cardinality(B) = x
  <2>1. IsFiniteSet({m}) /\ Cardinality({m}) = 1
    BY FS_Singleton
  <2>2. IsFiniteSet(1 .. x) /\ Cardinality(1 .. x) = x
    <3>1. x \in Int /\ 1 \in Int /\ x >= 1
      BY <1>1
    <3> HIDE DEF x
    <3>2. Cardinality(1 .. x) = IF 1 > x THEN 0 ELSE x - 1 + 1
      BY <3>1, FS_Interval
    <3> QED
      BY <3>1, <3>2, FS_Interval
  <2> HIDE DEF x
  <2>3. IsFiniteSet({m} \X (1 .. x)) /\ Cardinality({m} \X (1 .. x)) = Cardinality({m}) * Cardinality(1 .. x)
    BY <2>1, <2>2, FS_Product
  <2> QED
    BY <1>1, <2>1, <2>2, <2>3
<1>5. IsFiniteSet(A) /\ Cardinality(A) = s.sum /\ s.sum \in Nat /\ s.count \in Nat
  BY DEF Real, Samples
<1> HIDE DEF A, B, x
<1>6. IsFiniteSet(A \cup B) /\ Cardinality(A \cup B) = s.sum + x
  <2>1. Cardinality(A \cap B) = 0
    BY <1>3, FS_EmptySet
  <2>2. Cardinality(A \cup B) = Cardinality(A) + Cardinality(B) - Cardinality(A \cap B)
    BY <1>4, <1>5, FS_Union
  <2>3. IsFiniteSet(A \cup B)
    BY <1>4, <1>5, FS_Union
  <2> QED
    BY <1>1, <1>4, <1>5, <2>1, <2>2, <2>3
<1>7. IsFiniteSet(P \cup {m}) /\ Cardinality(P \cup {m}) = s.count + 1
  BY FS_AddElement DEF Real
<1>8. s.sum + x \in MinScore * (s.count + 1) .. MaxScore * (s.count + 1)
  BY <1>1, <1>5 DEF Real, MinScore, MaxScore
<1>9. MergeSample(s, x).sum = s.sum + x /\ MergeSample(s, x).count = s.count + 1
  BY DEF MergeSample
<1> QED
  BY <1>2, <1>6, <1>7, <1>8, <1>9 DEF Real, x

\* No score at all.
LEMMA NoSample == ASSUME NEW t PROVE Real(Nothing, {}, t)
<1>1. Points(t, {}) = {}
  BY DEF Points
<1> QED
  BY <1>1, FS_EmptySet DEF Real, Nothing, MinScore, MaxScore

\* A step that leaves the hash alone, and after which a merge holds what it
\* held or what it has just read.
LEMMA SampleFrame ==
  ASSUME TypeOK, SampleInv, UNCHANGED <<stats, kept, counted>>,
         \A q \in Merges : pc[q] # "push" =>
           pc'[q] # "push" /\ mem'[q].todo \subseteq mem[q].todo,
         \A q \in Merges : pc'[q] = "hset" =>
           \/ /\ pc[q] = "hset" /\ mem'[q].at = mem[q].at
              /\ mem'[q].prev = mem[q].prev /\ mem'[q].had = mem[q].had
           \/ /\ mem'[q].at \in Tags /\ mem'[q].prev = stats[mem'[q].at]
              /\ mem'[q].had = kept[mem'[q].at]
  PROVE  SampleInv'
<1>1. \A t : Written(t) \subseteq Written(t)'
  BY DEF Written
<1>2. \A t \in Tags : Real(stats[t], kept[t], t)' /\ kept'[t] \subseteq Written(t)'
  BY <1>1 DEF SampleInv
<1>3. ASSUME NEW q \in Merges, pc'[q] = "hset"
      PROVE  Real(mem'[q].prev, mem'[q].had, mem'[q].at) /\ mem'[q].had \subseteq Written(mem[q].at)'
  <2>1. CASE /\ pc[q] = "hset" /\ mem'[q].at = mem[q].at
             /\ mem'[q].prev = mem[q].prev /\ mem'[q].had = mem[q].had
    <3>1. Real(mem[q].prev, mem[q].had, mem[q].at) /\ mem[q].had \subseteq Written(mem[q].at)
      BY <2>1 DEF SampleInv
    <3>2. \A u : u = mem[q].at => mem[q].had \subseteq Written(u)'
      BY <1>1, <3>1
    <3> QED
      BY <2>1, <3>1, <3>2
  <2>2. CASE /\ mem'[q].at \in Tags /\ mem'[q].prev = stats[mem'[q].at]
             /\ mem'[q].had = kept[mem'[q].at]
    BY <1>2, <2>2 DEF SampleInv
  <2> QED
    BY <1>3, <2>1, <2>2
<1>4. \A t \in Tags : stats'[t] # Nothing <=> \E m \in Merges : <<m, t>> \in counted'
  BY DEF SampleInv
<1>5. Nothing' = Nothing
  BY DEF Nothing
<1> QED
  BY <1>2, <1>3, <1>4, <1>5 DEF SampleInv

\* The steps of a merge other than its HSETs.
LEMMA MergeSamples ==
  ASSUME TypeOK, SampleInv, NEW m \in Merges, Merge(m), ~HSet(m)
  PROVE  SampleInv'
<1>0. /\ StepTypes /\ m \in Calls /\ mem \in [Calls -> Locals] /\ mem[m] \in Locals
      /\ mem[m].draft \in Docs /\ Merges \subseteq Calls
  BY DEF TypeOK, Calls, MemTypes, Locals
<1>1. ASSUME NEW x \in DOMAIN MergeOrder, Step(m, x), x # "hget",
             UNCHANGED <<stats, kept, counted>>,
             \A q \in Calls \ {m} : mem'[q] = mem[q],
             x # "push" => mem'[m].todo \subseteq mem[m].todo
      PROVE  SampleInv'
  <2>1. /\ pc[m] = x /\ pc'[m] \notin {"hset", "push"}
        /\ \A q \in Calls \ {m} : pc'[q] = pc[q]
    BY <1>0, <1>1, StepTypesKept DEF MergeOrder
  <2>2. ASSUME NEW q \in Merges, pc[q] # "push"
        PROVE  pc'[q] # "push" /\ mem'[q].todo \subseteq mem[q].todo
    BY <1>0, <1>1, <2>1, <2>2
  <2>3. ASSUME NEW q \in Merges, pc'[q] = "hset"
        PROVE  /\ pc[q] = "hset" /\ mem'[q].at = mem[q].at
               /\ mem'[q].prev = mem[q].prev /\ mem'[q].had = mem[q].had
    BY <1>0, <1>1, <2>1, <2>3
  <2> QED
    BY <1>1, <2>2, <2>3, SampleFrame
<1>2. CASE Push(m)
  <2>1. Step(m, "push") /\ UNCHANGED <<stats, kept, counted>>
    BY <1>2 DEF Push
  <2>2. \A q \in Calls \ {m} : mem'[q] = mem[q]
    BY <1>0, <1>2 DEF Push, Remember
  <2> QED
    BY <1>1, <2>1, <2>2 DEF MergeOrder
<1>3. ASSUME NEW x \in DOMAIN MergeOrder, Step(m, x), x # "hget",
             UNCHANGED <<stats, kept, counted>>,
             UNCHANGED mem \/ \E d \in Docs : Remember(m, [mem[m] EXCEPT !.draft = d])
      PROVE  SampleInv'
  <2>1. mem'[m].todo = mem[m].todo /\ \A q \in Calls \ {m} : mem'[q] = mem[q]
    BY <1>0, <1>3, DraftWritten
  <2> QED
    BY <1>1, <1>3, <2>1
<1>4. CASE Trim(m)
  BY <1>3, <1>4 DEF Trim, past, MergeOrder
<1>5. CASE Weakest(m)
  <2>1. \E d \in Docs : Remember(m, [mem[m] EXCEPT !.draft = d])
    BY <1>0, <1>5, DocFields DEF Weakest
  <2> QED
    BY <1>3, <1>5, <2>1 DEF Weakest, shared, past, MergeOrder
<1>6. CASE GetDoc(m)
  <2>1. doc.used \cup DOMAIN ScoresOf(m) \in SUBSET Tags
    BY ScoresInScale DEF TypeOK, SharedTypes, Docs
  <2>2. \E d \in Docs : Remember(m, [mem[m] EXCEPT !.draft = d])
    BY <1>0, <1>6, <2>1, DocFields DEF GetDoc
  <2> QED
    BY <1>3, <1>6, <2>2 DEF GetDoc, shared, past, MergeOrder
<1>7. CASE AllStats(m)
  <2>1. \E d \in Docs : Remember(m, [mem[m] EXCEPT !.draft = d])
    BY <1>0, <1>7, DocFields DEF AllStats, TypeOK, SharedTypes
  <2> QED
    BY <1>3, <1>7, <2>1 DEF AllStats, shared, past, MergeOrder
<1>8. CASE LRange(m)
  <2>1. \E d \in Docs : Remember(m, [mem[m] EXCEPT !.draft = d])
    BY <1>0, <1>8, DocFields, FirstTypes DEF LRange
  <2> QED
    BY <1>3, <1>8, <2>1 DEF LRange, shared, past, MergeOrder
<1>9. CASE SetDoc(m)
  <2>1. Step(m, "set") /\ UNCHANGED <<stats, kept, counted>> /\ Remember(m, NoMem)
    BY <1>9 DEF SetDoc, past
  <2>2. mem'[m].todo = {} /\ \A q \in Calls \ {m} : mem'[q] = mem[q]
    BY <1>0, <2>1, EmptyTypes DEF Remember
  <2> QED
    BY <1>1, <2>1, <2>2 DEF MergeOrder
<1>10. CASE ExpireHash(m) \/ ExpireList(m)
  BY <1>3, <1>10 DEF ExpireHash, ExpireList, ExpireKey, MergeOrder
<1>11. CASE HGet(m)
  <2>1. PICK t \in mem[m].todo :
          Remember(m, [mem[m] EXCEPT !.at = t, !.prev = stats[t], !.had = kept[t]])
    BY <1>11 DEF HGet
  <2> DEFINE x == [mem[m] EXCEPT !.at = t, !.prev = stats[t], !.had = kept[t]]
  <2>2. /\ x.at = t /\ x.prev = stats[t] /\ x.had = kept[t] /\ x.todo = mem[m].todo
        /\ t \in Tags
    BY <1>0 DEF Locals
  <2>3. Remember(m, x)
    BY <2>1
  <2> HIDE DEF x
  <2>4. mem'[m] = x /\ \A q \in Calls \ {m} : mem'[q] = mem[q]
    BY <1>0, <2>3 DEF Remember
  <2>5. pc[m] = "hget" /\ pc'[m] = "hset" /\ \A q \in Calls \ {m} : pc'[q] = pc[q]
    BY <1>0, <1>11, StepTypesKept DEF HGet, MergeOrder
  <2>6. UNCHANGED <<stats, kept, counted>>
    BY <1>11 DEF HGet, shared, past
  <2>7. ASSUME NEW q \in Merges, pc[q] # "push"
        PROVE  pc'[q] # "push" /\ mem'[q].todo \subseteq mem[q].todo
    BY <1>0, <2>2, <2>4, <2>5, <2>7
  <2>8. ASSUME NEW q \in Merges, pc'[q] = "hset"
        PROVE  \/ /\ pc[q] = "hset" /\ mem'[q].at = mem[q].at
                  /\ mem'[q].prev = mem[q].prev /\ mem'[q].had = mem[q].had
               \/ /\ mem'[q].at \in Tags /\ mem'[q].prev = stats[mem'[q].at]
                  /\ mem'[q].had = kept[mem'[q].at]
    BY <1>0, <2>2, <2>4, <2>5, <2>8
  <2> QED
    BY <2>6, <2>7, <2>8, SampleFrame
<1> QED
  BY <1>2, <1>4, <1>5, <1>6, <1>7, <1>8, <1>9, <1>10, <1>11 DEF Merge

\* An HSET adds the merge to the analyses it read, among which it is not.
LEMMA HSetSamples ==
  ASSUME TypeOK, SampleInv, NEW m \in Merges, HSet(m)
  PROVE  SampleInv'
<1> DEFINE t == mem[m].at
           x == MergeSample(mem[m].prev, ScoresOf(m)[t])
           P == mem[m].had \cup {m}
<1>0. /\ StepTypes /\ m \in Calls /\ mem \in [Calls -> Locals] /\ mem[m] \in Locals
      /\ stats \in [Tags -> Samples] /\ kept \in [Tags -> SUBSET Merges]
      /\ pc[m] = "hset" /\ Merges \subseteq Calls
  BY DEF TypeOK, Calls, MemTypes, SharedTypes, HSet
<1>1. /\ t \in Tags /\ t \in DOMAIN ScoresOf(m) /\ t \in mem[m].todo
      /\ mem[m].prev \in Samples /\ mem[m].had \in SUBSET Merges
  BY <1>0 DEF TypeOK, MemTypes, Locals
<1>2. /\ pc'[m] \in {"hget", "weakest"} /\ \A q \in Calls \ {m} : pc'[q] = pc[q]
  BY <1>0 DEF HSet, Goto, MergeOrder, StepTypes
<1>3. /\ mem'[m].todo = mem[m].todo \ {t}
      /\ \A q \in Calls \ {m} : mem'[q] = Torn(FirstSample(t))[q]
  BY <1>0, HSetFields
<1>4. \A q \in Calls \ {m} :
        /\ mem'[q].todo = mem[q].todo /\ mem'[q].at = mem[q].at
        /\ mem'[q].prev = mem[q].prev /\ mem'[q].had = mem[q].had
  BY <1>0, <1>3, TornFields
<1>5. \A u : Written(u) \subseteq Written(u)'
  BY <1>0, <1>2, <1>3, <1>4 DEF Written
<1>6. \A u : u = t => m \in Written(u)'
  BY <1>1, <1>2, <1>3 DEF Written
<1>7. Real(mem[m].prev, mem[m].had, t) /\ mem[m].had \subseteq Written(t) /\ m \notin mem[m].had
  BY <1>0, <1>1 DEF SampleInv, Written
<1>8. Real(x, P, t)
  BY <1>1, <1>7, OneMoreSample
<1>9. x # Nothing
  <2>1. x.count > 0
    BY <1>1 DEF MergeSample, Samples
  <2> QED
    BY <2>1 DEF Nothing
<1>10. /\ stats' = [stats EXCEPT ![t] = x] /\ kept' = [kept EXCEPT ![t] = P]
       /\ counted' = counted \cup {<<m, t>>}
  BY DEF HSet
<1>11. \A u : u = t => P \subseteq Written(u)'
  BY <1>5, <1>6, <1>7
<1> HIDE DEF x, P
<1>12. /\ stats'[t] = x /\ kept'[t] = P
       /\ \A u \in Tags \ {t} : stats'[u] = stats[u] /\ kept'[u] = kept[u]
  BY <1>0, <1>1, <1>10
<1>13. ASSUME NEW u \in Tags PROVE Real(stats'[u], kept'[u], u) /\ kept'[u] \subseteq Written(u)'
  <2>1. CASE u = t
    BY <1>8, <1>11, <1>12, <2>1
  <2>2. CASE u # t
    BY <1>5, <1>12, <2>2 DEF SampleInv
  <2> QED
    BY <2>1, <2>2
<1>14. ASSUME NEW q \in Merges, pc'[q] = "hset"
       PROVE  Real(mem'[q].prev, mem'[q].had, mem'[q].at) /\ mem'[q].had \subseteq Written(mem[q].at)'
  <2>1. q # m /\ q \in Calls
    BY <1>0, <1>2, <1>14
  <2>2. pc[q] = "hset" /\ mem'[q].at = mem[q].at /\ mem'[q].prev = mem[q].prev /\ mem'[q].had = mem[q].had
    BY <1>2, <1>4, <1>14, <2>1
  <2>3. Real(mem[q].prev, mem[q].had, mem[q].at) /\ mem[q].had \subseteq Written(mem[q].at)
    BY <2>2 DEF SampleInv
  <2>4. \A u : u = mem[q].at => mem[q].had \subseteq Written(u)'
    BY <1>5, <2>3
  <2> QED
    BY <2>2, <2>3, <2>4
<1>15. ASSUME NEW u \in Tags PROVE stats'[u] # Nothing <=> \E n \in Merges : <<n, u>> \in counted'
  <2>1. CASE u = t
    BY <1>9, <1>10, <1>12, <2>1
  <2>2. CASE u # t
    <3>1. \A n : <<n, u>> \in counted' <=> <<n, u>> \in counted
      BY <1>10, <2>2
    <3> QED
      BY <1>12, <2>2, <3>1 DEF SampleInv
  <2> QED
    BY <2>1, <2>2
<1>16. Nothing' = Nothing
  BY DEF Nothing
<1> QED
  BY <1>13, <1>14, <1>15, <1>16 DEF SampleInv

\* The end of the hash's time forgets all samples, but not those in hand.
LEMMA TimeOverSamples ==
  ASSUME TypeOK, SampleInv, TimeOver
  PROVE  SampleInv'
<1>0. mem \in [Calls -> Locals] /\ UNCHANGED pc /\ Merges \subseteq Calls /\ DOMAIN mem = Calls
  BY DEF TypeOK, MemTypes, TimeOver, Calls
<1>1. CASE Head(expiring) # "hash"
  BY <1>1, SampleFrame DEF TimeOver
<1>2. CASE Head(expiring) = "hash"
  <2>1. /\ stats' = NoStats /\ counted' = {} /\ kept' = [t \in Tags |-> {}]
        /\ mem' = Torn({p \in DOMAIN mem : BetweenReads(p)})
    BY <1>2 DEF TimeOver
  <2>2. \A q \in Calls :
          /\ mem'[q].todo = mem[q].todo /\ mem'[q].at = mem[q].at
          /\ mem'[q].prev = mem[q].prev /\ mem'[q].had = mem[q].had
    BY <1>0, <2>1, TornFields
  <2>3. \A u : Written(u)' = Written(u)
    BY <1>0, <2>2 DEF Written
  <2>4. \A t \in Tags : stats'[t] = Nothing /\ kept'[t] = {}
    BY <2>1 DEF NoStats
  <2>5. \A t \in Tags : Real(stats'[t], kept'[t], t)
    BY <2>4, NoSample
  <2>6. ASSUME NEW q \in Merges, pc'[q] = "hset"
        PROVE  Real(mem'[q].prev, mem'[q].had, mem'[q].at) /\ mem'[q].had \subseteq Written(mem[q].at)'
    <3>1. Real(mem[q].prev, mem[q].had, mem[q].at) /\ mem[q].had \subseteq Written(mem[q].at)
      BY <1>0, <2>6 DEF SampleInv
    <3>2. \A u : u = mem[q].at => mem[q].had \subseteq Written(u)'
      BY <2>3, <3>1
    <3> QED
      BY <1>0, <2>2, <3>1, <3>2
  <2>7. Nothing' = Nothing
    BY DEF Nothing
  <2> QED
    BY <2>1, <2>4, <2>5, <2>6, <2>7 DEF SampleInv
<1> QED
  BY <1>1, <1>2

\* Readers and lost merges write no sample.
LEMMA OtherSamples ==
  ASSUME TypeOK, SampleInv,
         \/ \E m \in Merges : Lose(m)
         \/ \E r \in Readers : Read(r)
         \/ UNCHANGED vars
  PROVE  SampleInv'
<1>0. mem \in [Calls -> Locals] /\ StepTypes /\ Merges \subseteq Calls
  BY DEF TypeOK, MemTypes, Calls
<1>1. UNCHANGED <<stats, kept, counted>>
  BY DEF Lose, Read, ReadDoc, ReadHash, ReadList, ReadWeak, shared, past, vars
<1>2. \A q \in Merges : mem'[q] = mem[q] /\ (pc'[q] = pc[q] \/ pc'[q] = "lost")
  <2>1. CASE \E m \in Merges : Lose(m)
    BY <1>0, <2>1 DEF Lose, Goto, StepTypes
  <2>2. ASSUME NEW r \in Readers, Read(r)
        PROVE  \A q \in Merges : mem'[q] = mem[q] /\ pc'[q] = pc[q]
    <3>1. UNCHANGED mem \/ \E x : Remember(r, x)
      BY <2>2 DEF Read, ReadDoc, ReadHash, ReadList, ReadWeak
    <3>2. \E y : Goto(r, y)
      BY <2>2 DEF Read, ReadDoc, ReadHash, ReadList, ReadWeak
    <3> QED
      BY <1>0, <3>1, <3>2, AbsentAssumption DEF Remember, Goto, StepTypes
  <2>3. CASE UNCHANGED vars
    BY <2>3 DEF vars
  <2> QED
    BY <2>1, <2>2, <2>3
<1> QED
  BY <1>1, <1>2, SampleFrame

\* However merges interleave, whatever is lost or expires, the sum and the
\* count of a tag are those of a set of analyses, each counted once.
THEOREM SamplesAreRealProved == Spec => []SamplesAreReal
<1>1. Init => SampleInv
  <2> SUFFICES ASSUME Init PROVE SampleInv
    OBVIOUS
  <2>1. \A t \in Tags : stats[t] = Nothing /\ kept[t] = {}
    BY DEF Init, NoStats
  <2>2. counted = {} /\ \A q \in Merges : pc[q] # "hset"
    BY AbsentAssumption DEF Init
  <2> QED
    BY <2>1, <2>2, NoSample DEF SampleInv
<1>2. TypeOK /\ SampleInv /\ [Next]_vars => SampleInv'
  BY MergeSamples, HSetSamples, TimeOverSamples, OtherSamples DEF Next
<1>3. SampleInv => SamplesAreReal
  BY DEF SampleInv, SamplesAreReal, Real
<1> QED
  BY <1>1, <1>2, <1>3, TypesProved, PTL DEF Spec
-----------------------------------------------------------------------------
(* Merges one after the other.                                             *)

Calm  == ~overlap /\ ~midway
Sound == \A m \in Merges : pc[m] # "lost"
Alone == \A m, n \in Merges : Active(m) /\ Active(n) => m = n

\* Every analysis whose sample was written is in the tag's statistics.
KeptExact == \A t \in Tags : kept[t] = {m \in Merges : <<m, t>> \in counted}

\* What m read with HGET is what the hash holds.
InHand(m) ==
  pc[m] = "hset" =>
    mem[m].prev = stats[mem[m].at] /\ mem[m].had = kept[mem[m].at]

\* A document says what the hash and the list say; so does a draft, as far as
\* it is made.
Agrees(d) == d.stats = stats /\ d.history = history /\ IsWeakest(stats, d.weak)
DraftExact(m) ==
  LET d == mem[m].draft IN
  /\ pc[m] \in {"getdoc", "allstats", "lrange", "set"} => IsWeakest(stats, d.weak)
  /\ pc[m] \in {"lrange", "set"} => d.stats = stats
  /\ pc[m] = "set" => d.history = history

\* The document's time ends first, from the EXPIRE of each other key on.
DocFirst ==
  /\ (\A m \in Merges : pc[m] \in {"push", "done", "expirelist"}) => Before("doc", "hash")
  /\ (\A m \in Merges : pc[m] \in {"push", "done"}) => Before("doc", "list")

DocExact ==
  doc # NoDoc =>
    /\ (\A m \in Merges : pc[m] \in {"push", "done", "expirehash", "expirelist"}) => Agrees(doc)
    /\ DocFirst

\* The inductive form of SerialMergesExact.
SerialInv ==
  Calm =>
    /\ Alone /\ KeptExact /\ \A m \in Merges : InHand(m)
    /\ Sound => (\A m \in Merges : DraftExact(m)) /\ DocExact

\* Only a key with content has a time to live.
TimedInv ==
  /\ HasTime("hash") => stats # NoStats
  /\ HasTime("list") => history # <<>>

\* A step of a merge that has the profile for itself.
LEMMA SerialStep ==
  ASSUME TypeOK, SerialInv, NEW m \in Merges, pc[m] # "lost",
         \A q \in Merges \ {m} : pc'[q] = pc[q],
         Calm' => Calm /\ \A q \in Merges \ {m} : ~Active(q),
         Calm' => KeptExact' /\ InHand(m)',
         Calm' /\ Sound => DraftExact(m)',
         Calm' /\ Sound /\ pc'[m] \in {"push", "done", "expirehash", "expirelist"} => DocExact'
  PROVE  SerialInv'
<1> SUFFICES ASSUME Calm'
             PROVE  /\ Alone' /\ KeptExact' /\ (\A q \in Merges : InHand(q)')
                    /\ Sound' => (\A q \in Merges : DraftExact(q)') /\ DocExact'
  BY DEF SerialInv
<1>1. \A q \in Merges \ {m} : pc'[q] \in {"push", "done", "lost"}
  BY DEF Active
<1>2. Alone'
  BY <1>1 DEF Alone, Active
<1>3. \A q \in Merges : InHand(q)'
  BY <1>1 DEF InHand
<1>4. ASSUME Sound' PROVE (\A q \in Merges : DraftExact(q)') /\ DocExact'
  <2>1. Sound
    BY <1>4 DEF Sound
  <2>2. ASSUME NEW q \in Merges PROVE DraftExact(q)'
    <3>1. CASE q = m
      BY <2>1, <3>1
    <3>2. CASE q # m
      BY <1>1, <3>2 DEF DraftExact
    <3> QED
      BY <3>1, <3>2
  <2>3. DocExact'
    <3>1. CASE pc'[m] \in {"push", "done", "expirehash", "expirelist"}
      BY <2>1, <3>1
    <3>2. CASE pc'[m] \notin {"push", "done", "expirehash", "expirelist"}
      BY <3>2 DEF DocExact, DocFirst
    <3> QED
      BY <3>1, <3>2
  <2> QED
    BY <2>2, <2>3
<1> QED
  BY <1>2, <1>3, <1>4

\* The other merges wait while one goes on.
LEMMA OthersWait ==
  ASSUME SerialInv, Calm, NEW m \in Merges, Active(m)
  PROVE  \A q \in Merges \ {m} : ~Active(q)
  BY DEF SerialInv, Alone

\* What keeps the analyses counted keeps them exact.
LEMMA KeptFrame ==
  ASSUME KeptExact, UNCHANGED <<kept, counted>>
  PROVE  KeptExact'
  BY DEF KeptExact

\* PUSH and LTRIM: nothing is in hand and no document is made.
LEMMA SerialBegin ==
  ASSUME TypeOK, SerialInv, NEW m \in Merges, Push(m) \/ Trim(m)
  PROVE  SerialInv'
<1>0. StepTypes /\ Merges \subseteq Calls
  BY DEF TypeOK, Calls
<1>1. CASE Push(m)
  <2>1. pc[m] = "push" /\ pc'[m] = "trim" /\ \A q \in Calls \ {m} : pc'[q] = pc[q]
    BY <1>0, <1>1, StepTypesKept DEF Push, MergeOrder
  <2>2. UNCHANGED <<kept, counted>> /\ (Calm' => Calm /\ Idle)
    BY <1>1 DEF Push, Calm
  <2>3. Calm' => KeptExact'
    BY <2>2, KeptFrame DEF SerialInv
  <2>4. InHand(m)' /\ DraftExact(m)'
    BY <2>1 DEF InHand, DraftExact
  <2> QED
    BY <1>0, <2>1, <2>2, <2>3, <2>4, SerialStep DEF Idle
<1>2. CASE Trim(m)
  <2>1. pc[m] = "trim" /\ pc'[m] = "hget" /\ \A q \in Calls \ {m} : pc'[q] = pc[q]
    BY <1>0, <1>2, StepTypesKept DEF Trim, MergeOrder
  <2>2. UNCHANGED <<kept, counted>> /\ (Calm' => Calm)
    BY <1>2 DEF Trim, Calm, past
  <2>3. Calm' => KeptExact'
    BY <2>2, KeptFrame DEF SerialInv
  <2>4. InHand(m)' /\ DraftExact(m)'
    BY <2>1 DEF InHand, DraftExact
  <2>5. Active(m)
    BY <2>1 DEF Active
  <2> QED
    BY <1>0, <2>1, <2>2, <2>3, <2>4, <2>5, SerialStep, OthersWait
<1> QED
  BY <1>1, <1>2

\* HGET takes what the hash holds, and HSET puts it back with the score.
LEMMA SerialSamples ==
  ASSUME TypeOK, SerialInv, NEW m \in Merges, HGet(m) \/ HSet(m)
  PROVE  SerialInv'
<1>0. /\ StepTypes /\ Merges \subseteq Calls /\ mem[m] \in Locals /\ mem \in [Calls -> Locals]
      /\ kept \in [Tags -> SUBSET Merges]
  BY DEF TypeOK, Calls, MemTypes, SharedTypes
<1>1. CASE HGet(m)
  <2>1. pc[m] = "hget" /\ pc'[m] = "hset" /\ \A q \in Calls \ {m} : pc'[q] = pc[q]
    BY <1>0, <1>1, StepTypesKept DEF HGet, MergeOrder
  <2>2. UNCHANGED <<stats, kept, counted>> /\ (Calm' => Calm)
    BY <1>1 DEF HGet, Calm, shared, past
  <2>3. Calm' => KeptExact'
    BY <2>2, KeptFrame DEF SerialInv
  <2>4. PICK t \in mem[m].todo :
          Remember(m, [mem[m] EXCEPT !.at = t, !.prev = stats[t], !.had = kept[t]])
    BY <1>1 DEF HGet
  <2> DEFINE x == [mem[m] EXCEPT !.at = t, !.prev = stats[t], !.had = kept[t]]
  <2>5. x.at = t /\ x.prev = stats[t] /\ x.had = kept[t]
    BY <1>0 DEF Locals
  <2>6. Remember(m, x)
    BY <2>4
  <2> HIDE DEF x
  <2>7. mem'[m] = x
    BY <1>0, <2>6 DEF Remember
  <2>8. InHand(m)'
    BY <2>2, <2>5, <2>7 DEF InHand
  <2>9. DraftExact(m)'
    BY <2>1 DEF DraftExact
  <2>10. Active(m)
    BY <2>1 DEF Active
  <2> QED
    BY <1>0, <2>1, <2>2, <2>3, <2>8, <2>9, <2>10, SerialStep, OthersWait
<1>2. CASE HSet(m)
  <2> DEFINE t == mem[m].at
  <2>1. pc[m] = "hset" /\ pc'[m] \in {"hget", "weakest"} /\ \A q \in Calls \ {m} : pc'[q] = pc[q]
    BY <1>0, <1>2 DEF HSet, Goto, MergeOrder, StepTypes
  <2>2. Calm' => Calm
    BY <1>2 DEF HSet, Calm
  <2>3. t \in Tags
    BY <1>0, <2>1 DEF TypeOK, MemTypes, Locals
  <2>4. kept' = [kept EXCEPT ![t] = mem[m].had \cup {m}] /\ counted' = counted \cup {<<m, t>>}
    BY <1>2 DEF HSet
  <2>5. Calm' => KeptExact /\ mem[m].had = kept[t]
    BY <2>1, <2>2 DEF SerialInv, InHand
  <2>6. ASSUME Calm' PROVE KeptExact'
    <3> HIDE DEF t
    <3>1. kept'[t] = kept[t] \cup {m} /\ \A u \in Tags \ {t} : kept'[u] = kept[u]
      BY <1>0, <2>3, <2>4, <2>5, <2>6
    <3> SUFFICES ASSUME NEW u \in Tags
                 PROVE  kept'[u] = {n \in Merges : <<n, u>> \in counted'}
      BY DEF KeptExact
    <3>2. kept[u] = {n \in Merges : <<n, u>> \in counted}
      BY <2>5, <2>6 DEF KeptExact
    <3>3. CASE u = t
      <4>1. {n \in Merges : <<n, u>> \in counted'} = {n \in Merges : <<n, u>> \in counted} \cup {m}
        BY <2>4, <3>3
      <4> QED
        BY <3>1, <3>2, <3>3, <4>1
    <3>4. CASE u # t
      <4>1. {n \in Merges : <<n, u>> \in counted'} = {n \in Merges : <<n, u>> \in counted}
        BY <2>4, <3>4
      <4> QED
        BY <3>1, <3>2, <3>4, <4>1
    <3> QED
      BY <3>3, <3>4
  <2>7. InHand(m)' /\ DraftExact(m)'
    BY <2>1 DEF InHand, DraftExact
  <2>8. Active(m)
    BY <2>1 DEF Active
  <2> QED
    BY <1>0, <2>1, <2>2, <2>6, <2>7, <2>8, SerialStep, OthersWait
<1> QED
  BY <1>1, <1>2

\* A step towards the document, with what it adds to the draft.
LEMMA SerialDraft ==
  ASSUME TypeOK, SerialInv, NEW m \in Merges,
         NEW x \in {"weakest", "getdoc", "allstats", "lrange"}, Step(m, x),
         NEW d \in Docs, Remember(m, [mem[m] EXCEPT !.draft = d]),
         UNCHANGED <<shared, past, faults>>,
         Calm /\ Sound /\ DraftExact(m) =>
           /\ IsWeakest(stats, d.weak)
           /\ x \in {"allstats", "lrange"} => d.stats = stats
           /\ x = "lrange" => d.history = history
  PROVE  SerialInv'
<1>0. StepTypes /\ Merges \subseteq Calls /\ mem \in [Calls -> Locals]
  BY DEF TypeOK, Calls, MemTypes
<1>1. pc[m] = x /\ pc'[m] = MergeOrder[x] /\ \A q \in Calls \ {m} : pc'[q] = pc[q]
  BY <1>0, StepTypesKept DEF MergeOrder
<1>2. UNCHANGED <<stats, history, kept, counted>> /\ (Calm' => Calm)
  BY DEF Calm, shared, past
<1>3. Calm' => KeptExact'
  BY <1>2, KeptFrame DEF SerialInv
<1>4. InHand(m)'
  BY <1>1 DEF InHand, MergeOrder
<1>5. mem'[m].draft = d
  BY <1>0, DraftWritten
<1>6. Calm /\ Sound => DraftExact(m)
  BY DEF SerialInv
<1>7. Calm' /\ Sound => DraftExact(m)'
  <2> SUFFICES ASSUME Calm', Sound PROVE DraftExact(m)'
    OBVIOUS
  <2>1. /\ IsWeakest(stats, d.weak)
        /\ x \in {"allstats", "lrange"} => d.stats = stats
        /\ x = "lrange" => d.history = history
    BY <1>2, <1>6
  <2>2. IsWeakest(stats', mem'[m].draft.weak)
    BY <1>2, <1>5, <2>1
  <2> QED
    BY <1>1, <1>2, <1>5, <2>1, <2>2 DEF DraftExact, MergeOrder
<1>8. Active(m)
  BY <1>1 DEF Active
<1>9. pc[m] # "lost" /\ pc'[m] \notin {"push", "done", "expirehash", "expirelist"}
  BY <1>1 DEF MergeOrder
<1> QED
  BY <1>0, <1>1, <1>2, <1>3, <1>4, <1>7, <1>8, <1>9, SerialStep, OthersWait

\* The list is no longer than HISTORY_MAX when its only merge has trimmed it.
LEMMA SerialNewest ==
  ASSUME TypeOK, HistoryInv, SerialInv, Calm, Sound, NEW m \in Merges, pc[m] = "lrange"
  PROVE  Newest = history
<1>1. Active(m) /\ \A q \in Merges \ {m} : ~Active(q)
  BY OthersWait DEF Active
<1>2. Untrimmed = {}
  BY <1>1 DEF Untrimmed, Active, Sound
<1>3. Len(history) <= HistoryMax
  BY <1>2, FS_EmptySet, BoundAssumption DEF HistoryInv
<1>4. Len(history) \in Nat /\ HistoryMax \in Nat /\ history \in Seq(Merges)
  BY BoundAssumption DEF TypeOK, SharedTypes
<1>5. Min({HistoryMax, Len(history)}) = Len(history)
  BY <1>3, <1>4, MinOfTwo
<1> QED
  BY <1>4, <1>5 DEF Newest

\* The four steps that make the draft.
LEMMA SerialReads ==
  ASSUME TypeOK, HistoryInv, SerialInv, NEW m \in Merges,
         Weakest(m) \/ GetDoc(m) \/ AllStats(m) \/ LRange(m)
  PROVE  SerialInv'
<1>0. /\ StepTypes /\ Merges \subseteq Calls /\ mem[m] \in Locals /\ mem[m].draft \in Docs
      /\ stats \in [Tags -> Samples] /\ doc \in Docs
  BY DEF TypeOK, Calls, MemTypes, SharedTypes, Locals
<1>1. CASE Weakest(m)
  <2>1. PICK W \in SUBSET Tags : IsWeakest(stats, W) /\ Remember(m, [mem[m] EXCEPT !.draft.weak = W])
    BY <1>1 DEF Weakest
  <2> DEFINE d == [mem[m].draft EXCEPT !.weak = W]
  <2>2. d \in Docs /\ d.weak = W
    BY <1>0 DEF Docs
  <2>3. Remember(m, [mem[m] EXCEPT !.draft = d])
    BY <2>1
  <2> HIDE DEF d
  <2>4. IsWeakest(stats, d.weak)
    BY <2>1, <2>2
  <2> QED
    BY <1>1, <2>2, <2>3, <2>4, SerialDraft DEF Weakest
<1>2. CASE GetDoc(m)
  <2> DEFINE d == [mem[m].draft EXCEPT !.used = doc.used \cup DOMAIN ScoresOf(m)]
  <2>1. doc.used \cup DOMAIN ScoresOf(m) \in SUBSET Tags
    BY <1>0, ScoresInScale DEF Docs
  <2>2. d \in Docs /\ d.weak = mem[m].draft.weak
    BY <1>0, <2>1 DEF Docs
  <2>3. Remember(m, [mem[m] EXCEPT !.draft = d]) /\ pc[m] = "getdoc"
    BY <1>2 DEF GetDoc, Step
  <2> HIDE DEF d
  <2>4. DraftExact(m) => IsWeakest(stats, d.weak)
    BY <2>2, <2>3 DEF DraftExact
  <2> QED
    BY <1>2, <2>2, <2>3, <2>4, SerialDraft DEF GetDoc
<1>3. CASE AllStats(m)
  <2> DEFINE d == [mem[m].draft EXCEPT !.stats = stats]
  <2>2. d \in Docs /\ d.weak = mem[m].draft.weak /\ d.stats = stats
    BY <1>0 DEF Docs
  <2>3. Remember(m, [mem[m] EXCEPT !.draft = d]) /\ pc[m] = "allstats"
    BY <1>3 DEF AllStats, Step
  <2> HIDE DEF d
  <2>4. DraftExact(m) => IsWeakest(stats, d.weak)
    BY <2>2, <2>3 DEF DraftExact
  <2> QED
    BY <1>3, <2>2, <2>3, <2>4, SerialDraft DEF AllStats
<1>4. CASE LRange(m)
  <2> DEFINE d == [mem[m].draft EXCEPT !.history = Newest]
  <2>2. /\ d \in Docs /\ d.weak = mem[m].draft.weak /\ d.stats = mem[m].draft.stats
        /\ d.history = Newest
    BY <1>0, FirstTypes DEF Docs
  <2>3. Remember(m, [mem[m] EXCEPT !.draft = d]) /\ pc[m] = "lrange"
    BY <1>4 DEF LRange, Step
  <2> HIDE DEF d
  <2>4. DraftExact(m) => IsWeakest(stats, d.weak) /\ d.stats = stats
    BY <2>2, <2>3 DEF DraftExact
  <2>5. Calm /\ Sound => d.history = history
    BY <2>2, <2>3, SerialNewest
  <2> QED
    BY <1>4, <2>2, <2>3, <2>4, <2>5, SerialDraft DEF LRange
<1> QED
  BY <1>1, <1>2, <1>3, <1>4

\* The SET publishes an exact draft.
LEMMA SerialSet ==
  ASSUME TypeOK, SerialInv, NEW m \in Merges, SetDoc(m)
  PROVE  SerialInv'
<1>0. StepTypes /\ Merges \subseteq Calls
  BY DEF TypeOK, Calls
<1>1. pc[m] = "set" /\ pc'[m] = "expirehash" /\ \A q \in Calls \ {m} : pc'[q] = pc[q]
  BY <1>0, StepTypesKept DEF SetDoc, MergeOrder
<1>2. UNCHANGED <<stats, history, kept, counted>> /\ doc' = mem[m].draft /\ (Calm' => Calm)
  BY DEF SetDoc, Calm, past
<1>3. Calm' => KeptExact'
  BY <1>2, KeptFrame DEF SerialInv
<1>4. InHand(m)' /\ DraftExact(m)'
  BY <1>1 DEF InHand, DraftExact
<1>5. Calm' /\ Sound => DocExact'
  <2> SUFFICES ASSUME Calm', Sound PROVE DocExact'
    OBVIOUS
  <2>1. DraftExact(m)
    BY <1>2 DEF SerialInv
  <2>2. Agrees(mem[m].draft)
    BY <1>1, <2>1 DEF DraftExact, Agrees
  <2>3. Agrees(doc)'
    <3>1. IsWeakest(stats', doc'.weak)
      BY <1>2, <2>2 DEF Agrees
    <3> QED
      BY <1>2, <2>2, <3>1 DEF Agrees
  <2>4. DocFirst'
    BY <1>1 DEF DocFirst
  <2> QED
    BY <2>3, <2>4 DEF DocExact
<1>6. Active(m)
  BY <1>1 DEF Active
<1> QED
  BY <1>0, <1>1, <1>2, <1>3, <1>4, <1>5, <1>6, SerialStep, OthersWait

\* The last two steps put the times of hash and list after the document's.
LEMMA SerialExpire ==
  ASSUME TypeOK, TimedInv, SerialInv, NEW m \in Merges, ExpireHash(m) \/ ExpireList(m)
  PROVE  SerialInv'
<1>0. StepTypes /\ Merges \subseteq Calls /\ expiring \in Seq(Keys) /\ TimesDistinct
  BY DEF TypeOK, Calls, SharedTypes
<1>1. /\ UNCHANGED <<stats, history, doc, kept, counted>> /\ (Calm' => Calm)
      /\ \/ Step(m, "expirehash") /\ expiring' = IF stats # NoStats THEN Timed("hash") ELSE expiring
         \/ Step(m, "expirelist") /\ expiring' = IF history # <<>> THEN Timed("list") ELSE expiring
  BY DEF ExpireHash, ExpireList, ExpireKey, Calm
<1>2. /\ \/ pc[m] = "expirehash" /\ pc'[m] = "expirelist"
            /\ expiring' = IF stats # NoStats THEN Timed("hash") ELSE expiring
         \/ pc[m] = "expirelist" /\ pc'[m] = "done"
            /\ expiring' = IF history # <<>> THEN Timed("list") ELSE expiring
      /\ \A q \in Calls \ {m} : pc'[q] = pc[q]
  BY <1>0, <1>1, StepTypesKept DEF MergeOrder
<1>3. Calm' => KeptExact'
  BY <1>1, KeptFrame DEF SerialInv
<1>4. InHand(m)' /\ DraftExact(m)'
  BY <1>2 DEF InHand, DraftExact
<1>5. Active(m)
  BY <1>2 DEF Active
<1>6. Calm' /\ Sound => DocExact'
  <2> SUFFICES ASSUME Calm', Sound, doc # NoDoc PROVE Agrees(doc)' /\ DocFirst'
    BY <1>1 DEF DocExact, NoDoc, NoStats, Nothing
  <2>1. \A q \in Merges \ {m} : pc[q] \in {"push", "done"} /\ pc'[q] = pc[q]
    BY <1>0, <1>1, <1>2, <1>5, OthersWait DEF Sound, Active
  <2>2. DocExact
    BY <1>1 DEF SerialInv
  <2>3. Agrees(doc) /\ DocFirst
    BY <1>2, <2>1, <2>2 DEF DocExact
  <2>4. Agrees(doc)'
    <3>1. IsWeakest(stats', doc'.weak)
      BY <1>1, <2>3 DEF Agrees
    <3> QED
      BY <1>1, <2>3, <3>1 DEF Agrees
  <2>5. CASE pc[m] = "expirehash"
    <3>1. Before("doc", "hash")'
      <4>1. CASE stats # NoStats
        BY <1>0, <1>2, <2>5, <4>1, TimedIsLast DEF Keys
      <4>2. CASE stats = NoStats
        <5>1. ~HasTime("hash") /\ expiring' = expiring
          BY <1>2, <2>5, <4>2 DEF TimedInv
        <5> QED
          BY <5>1 DEF HasTime, Before
      <4> QED
        BY <4>1, <4>2
    <3>2. pc'[m] = "expirelist"
      BY <1>2, <2>5
    <3> QED
      BY <2>4, <3>1, <3>2 DEF DocFirst
  <2>6. CASE pc[m] = "expirelist"
    <3>1. Before("doc", "hash")
      BY <2>1, <2>3, <2>6 DEF DocFirst
    <3>2. Before("doc", "hash")' /\ Before("doc", "list")'
      <4>1. CASE history # <<>>
        BY <1>0, <1>2, <2>6, <3>1, <4>1, TimedIsLast DEF Keys
      <4>2. CASE history = <<>>
        <5>1. ~HasTime("list") /\ expiring' = expiring
          BY <1>2, <2>6, <4>2 DEF TimedInv
        <5> QED
          BY <3>1, <5>1 DEF HasTime, Before
      <4> QED
        BY <4>1, <4>2
    <3> QED
      BY <2>4, <3>2 DEF DocFirst
  <2> QED
    BY <1>2, <2>5, <2>6
<1> QED
  BY <1>0, <1>1, <1>2, <1>3, <1>4, <1>5, <1>6, SerialStep, OthersWait

\* Between merges the first key to go is the document, if there is one.
LEMMA SerialTimeOver ==
  ASSUME TypeOK, TimesAreSet, SerialInv, TimeOver
  PROVE  SerialInv'
<1> SUFFICES ASSUME Calm' PROVE SerialInv'
  BY DEF SerialInv
<1>0. expiring \in Seq(Keys) /\ expiring # <<>> /\ expiring' = Tail(expiring) /\ UNCHANGED pc
  BY DEF TimeOver, TypeOK, SharedTypes
<1>1. Calm /\ Idle
  BY DEF TimeOver, Calm
<1>2. Alone' /\ \A m \in Merges : InHand(m)' /\ DraftExact(m)'
  BY <1>0, <1>1 DEF Idle, Alone, Active, InHand, DraftExact
<1>3. KeptExact'
  <2>1. KeptExact
    BY <1>1 DEF SerialInv
  <2>2. CASE Head(expiring) = "hash"
    BY <2>2 DEF TimeOver, KeptExact
  <2>3. CASE Head(expiring) # "hash"
    BY <2>1, <2>3, KeptFrame DEF TimeOver
  <2> QED
    BY <2>2, <2>3
<1>4. ASSUME Sound' PROVE DocExact'
  <2>1. Sound /\ \A m \in Merges : pc[m] \in {"push", "done"}
    BY <1>0, <1>1, <1>4 DEF Sound, Idle, Active
  <2>2. CASE doc = NoDoc
    BY <2>2 DEF TimeOver, DocExact, NoDoc, NoStats, Nothing
  <2>3. CASE doc # NoDoc
    <3>1. HasTime("doc")
      BY <2>3, TimesParts DEF Content
    <3>2. Before("doc", "hash") /\ Before("doc", "list")
      BY <1>1, <2>1, <2>3 DEF SerialInv, DocExact, DocFirst
    <3>3. Head(expiring) = "doc"
      <4>1. PICK i \in DOMAIN expiring : expiring[i] = "doc"
        BY <3>1 DEF HasTime
      <4>2. i \in 1 .. Len(expiring) /\ expiring[1] \in Keys /\ 1 \in DOMAIN expiring
        BY <1>0, <4>1
      <4>3. expiring[1] \notin {"hash", "list"}
        BY <3>2, <4>1, <4>2 DEF Before
      <4> QED
        BY <1>0, <4>2, <4>3 DEF Keys
    <3>4. doc' = NoDoc
      BY <3>3 DEF TimeOver
    <3> QED
      BY <3>4 DEF DocExact, NoDoc, NoStats, Nothing
  <2> QED
    BY <2>2, <2>3
<1> QED
  BY <1>2, <1>3, <1>4 DEF SerialInv

\* After a lost merge nothing more is said of the document.
LEMMA SerialLose ==
  ASSUME TypeOK, SerialInv, NEW m \in Merges, Lose(m)
  PROVE  SerialInv'
<1>1. /\ UNCHANGED <<stats, kept, counted, mem>> /\ pc'[m] = "lost" /\ (Calm' => Calm)
      /\ \A q \in Merges \ {m} : pc'[q] = pc[q]
  BY DEF Lose, shared, Goto, TypeOK, StepTypes, Calls, Calm
<1>2. ~Sound'
  BY <1>1 DEF Sound
<1>3. Calm' => KeptExact'
  BY <1>1, KeptFrame DEF SerialInv
<1>4. Calm' => Alone' /\ \A q \in Merges : InHand(q)'
  BY <1>1 DEF SerialInv, Alone, Active, InHand
<1> QED
  BY <1>2, <1>3, <1>4 DEF SerialInv

\* Readers change nothing a merge sees.
LEMMA SerialRead ==
  ASSUME TypeOK, SerialInv, (\E r \in Readers : Read(r)) \/ UNCHANGED vars
  PROVE  SerialInv'
<1>0. mem \in [Calls -> Locals] /\ StepTypes /\ Merges \subseteq Calls
  BY DEF TypeOK, MemTypes, Calls
<1>1. UNCHANGED <<stats, history, doc, expiring, kept, counted, overlap, midway>>
  BY DEF Read, ReadDoc, ReadHash, ReadList, ReadWeak, shared, past, vars
<1>2. \A q \in Merges : mem'[q] = mem[q] /\ pc'[q] = pc[q]
  <2>1. ASSUME NEW r \in Readers, Read(r)
        PROVE  \A q \in Merges : mem'[q] = mem[q] /\ pc'[q] = pc[q]
    <3>1. UNCHANGED mem \/ \E x : Remember(r, x)
      BY <2>1 DEF Read, ReadDoc, ReadHash, ReadList, ReadWeak
    <3>2. \E y : Goto(r, y)
      BY <2>1 DEF Read, ReadDoc, ReadHash, ReadList, ReadWeak
    <3> QED
      BY <1>0, <3>1, <3>2, AbsentAssumption DEF Remember, Goto, StepTypes
  <2>2. CASE UNCHANGED vars
    BY <2>2 DEF vars
  <2> QED
    BY <2>1, <2>2
<1>3. (Calm' <=> Calm) /\ (Sound' <=> Sound) /\ (Alone' <=> Alone) /\ (DocFirst' <=> DocFirst)
  BY <1>1, <1>2 DEF Calm, Sound, Alone, Active, DocFirst, Before
<1>4. (KeptExact => KeptExact') /\ \A q \in Merges : InHand(q) => InHand(q)'
  BY <1>1, <1>2, KeptFrame DEF InHand
<1>5. ASSUME NEW q \in Merges, DraftExact(q) PROVE DraftExact(q)'
  <2>1. \A W : IsWeakest(stats, W) => IsWeakest(stats', W)
    BY <1>1
  <2> QED
    BY <1>1, <1>2, <1>5, <2>1 DEF DraftExact
<1>6. DocExact => DocExact'
  <2>1. Agrees(doc) => Agrees(doc)'
    <3>1. IsWeakest(stats, doc.weak) => IsWeakest(stats', doc'.weak)
      BY <1>1
    <3> QED
      BY <1>1, <3>1 DEF Agrees
  <2>2. doc' # NoDoc' => doc # NoDoc
    BY <1>1 DEF NoDoc, NoStats, Nothing
  <2> QED
    BY <1>2, <1>3, <2>1, <2>2 DEF DocExact
<1> QED
  BY <1>3, <1>4, <1>5, <1>6 DEF SerialInv

\* A key gets a time only when it has content, and loses content and time
\* together.
LEMMA TimedNext == TypeOK /\ TimedInv /\ [Next]_vars => TimedInv'
<1> SUFFICES ASSUME TypeOK, TimedInv, [Next]_vars PROVE TimedInv'
  OBVIOUS
<1>0. /\ expiring \in Seq(Keys) /\ TimesDistinct /\ stats \in [Tags -> Samples]
      /\ history \in Seq(Merges) /\ mem \in [Calls -> Locals] /\ NoStats' = NoStats
  BY DEF TypeOK, SharedTypes, MemTypes, NoStats, Nothing
<1>1. CASE UNCHANGED <<expiring, stats, history>>
  BY <1>0, <1>1 DEF TimedInv, HasTime
<1>2. ASSUME NEW m \in Merges, Push(m) PROVE TimedInv'
  <2>1. history' # <<>> /\ UNCHANGED <<expiring, stats>>
    BY <1>0, <1>2 DEF Push
  <2> QED
    BY <1>0, <2>1 DEF TimedInv, HasTime
<1>3. ASSUME NEW m \in Merges, Trim(m) PROVE TimedInv'
  <2>1. UNCHANGED <<expiring, stats>> /\ history' = SubSeq(history, 1, Min({HistoryMax, Len(history)}))
    BY <1>3 DEF Trim, Kept
  <2>2. history # <<>> => history' # <<>>
    <3>1. HistoryMax \in Nat /\ HistoryMax >= 1 /\ Len(history) \in Nat
      BY <1>0, BoundAssumption
    <3>2. ASSUME history # <<>>
          PROVE  Min({HistoryMax, Len(history)}) \in 1 .. Len(history)
      <4>1. Len(history) >= 1
        BY <1>0, <3>1, <3>2
      <4>2. Min({HistoryMax, Len(history)}) = IF HistoryMax <= Len(history) THEN HistoryMax ELSE Len(history)
        BY <3>1, MinOfTwo
      <4> QED
        BY <3>1, <4>1, <4>2
    <3> DEFINE n == Min({HistoryMax, Len(history)})
    <3> HIDE DEF n
    <3>3. ASSUME n \in 1 .. Len(history) PROVE Len(SubSeq(history, 1, n)) = n /\ n >= 1
      BY <1>0, <3>1, <3>3
    <3>4. ASSUME n \in 1 .. Len(history) PROVE SubSeq(history, 1, n) # <<>>
      BY <3>3, <3>4
    <3> QED
      BY <2>1, <3>2, <3>4 DEF n
  <2> QED
    BY <1>0, <2>1, <2>2 DEF TimedInv, HasTime
<1>4. ASSUME NEW m \in Merges, HSet(m) PROVE TimedInv'
  <2> DEFINE t == mem[m].at
             x == MergeSample(mem[m].prev, ScoresOf(m)[t])
  <2>1. t \in Tags /\ mem[m].prev \in Samples
    BY <1>0, <1>4 DEF HSet, TypeOK, MemTypes, Locals, Calls
  <2>2. x.count > 0
    BY <2>1 DEF MergeSample, Samples
  <2>3. stats' = [stats EXCEPT ![t] = x] /\ UNCHANGED <<expiring, history>>
    BY <1>4 DEF HSet
  <2> HIDE DEF x
  <2>4. stats'[t].count > 0
    BY <1>0, <2>1, <2>2, <2>3
  <2>5. stats' # NoStats
    BY <2>1, <2>4 DEF NoStats, Nothing
  <2> QED
    BY <1>0, <2>3, <2>5 DEF TimedInv, HasTime
<1>5. ASSUME NEW k \in Keys, expiring' = Timed(k), UNCHANGED <<stats, history>>,
             k = "hash" => stats # NoStats, k = "list" => history # <<>>
      PROVE  TimedInv'
  <2>1. \A l \in Keys : HasTime(l)' => HasTime(l) \/ l = k
    BY <1>0, <1>5, TimedIsLast
  <2> QED
    BY <1>0, <1>5, <2>1 DEF TimedInv, Keys
<1>6. CASE TimeOver
  <2>1. expiring' = Tail(expiring) /\ expiring # <<>>
    BY <1>6 DEF TimeOver
  <2>2. ASSUME NEW k \in Keys, HasTime(k)' PROVE HasTime(k) /\ k # Head(expiring)
    <3>1. PICK i \in DOMAIN expiring' : expiring'[i] = k
      BY <2>2 DEF HasTime
    <3>2. i + 1 \in DOMAIN expiring /\ expiring[i + 1] = k /\ 1 \in DOMAIN expiring /\ i + 1 # 1
      BY <1>0, <2>1, <3>1
    <3> QED
      BY <1>0, <2>1, <3>2 DEF HasTime, TimesDistinct
  <2>3. (Head(expiring) # "hash" => stats' = stats) /\ (Head(expiring) # "list" => history' = history)
    BY <1>6 DEF TimeOver
  <2> QED
    BY <1>0, <2>2, <2>3 DEF TimedInv, Keys
<1>7. ASSUME NEW m \in Merges, Merge(m) PROVE TimedInv'
  <2>1. CASE SetDoc(m)
    BY <1>5, <2>1 DEF SetDoc, Keys
  <2>2. CASE ExpireHash(m)
    BY <1>1, <1>5, <2>2 DEF ExpireHash, ExpireKey, Keys
  <2>3. CASE ExpireList(m)
    BY <1>1, <1>5, <2>3 DEF ExpireList, ExpireKey, Keys
  <2>4. CASE HGet(m)
    BY <1>1, <2>4 DEF HGet, shared
  <2>5. CASE Weakest(m) \/ GetDoc(m)
    BY <1>1, <2>5 DEF Weakest, GetDoc, shared
  <2>6. CASE AllStats(m) \/ LRange(m)
    BY <1>1, <2>6 DEF AllStats, LRange, shared
  <2> QED
    BY <1>2, <1>3, <1>4, <1>7, <2>1, <2>2, <2>3, <2>4, <2>5, <2>6 DEF Merge
<1>8. CASE \/ \E m \in Merges : Lose(m)
           \/ \E r \in Readers : Read(r)
           \/ UNCHANGED vars
  BY <1>1, <1>8 DEF Lose, Read, ReadDoc, ReadHash, ReadList, ReadWeak, vars, shared
<1> QED
  BY <1>6, <1>7, <1>8 DEF Next

\* Merges that do not overlap lose nothing, and the document of the last says
\* what the hash and the list say, as long as no key ends in the middle.
THEOREM SerialMergesExactProved == Spec => []SerialMergesExact
<1>1. Init => SerialInv /\ TimedInv
  <2> SUFFICES ASSUME Init PROVE SerialInv /\ TimedInv
    OBVIOUS
  <2>1. \A m \in Merges : pc[m] \in {"push", "done"}
    BY AbsentAssumption DEF Init
  <2>2. Alone /\ \A m \in Merges : InHand(m) /\ DraftExact(m)
    BY <2>1 DEF Alone, Active, InHand, DraftExact
  <2>3. KeptExact /\ DocExact
    BY DEF Init, KeptExact, DocExact
  <2>4. TimedInv
    BY DEF Init, TimedInv, HasTime
  <2> QED
    BY <2>2, <2>3, <2>4 DEF SerialInv
<1>2. TypeOK /\ HistoryInv /\ TimesAreSet /\ TimedInv /\ SerialInv /\ [Next]_vars => SerialInv'
  BY SerialBegin, SerialSamples, SerialReads, SerialSet, SerialExpire, SerialTimeOver,
     SerialLose, SerialRead DEF Next, Merge
<1>3. SerialInv => SerialMergesExact
  <2> SUFFICES ASSUME SerialInv, Calm
               PROVE  /\ \A t \in Tags : kept[t] = {m \in Merges : <<m, t>> \in counted}
                      /\ doc # NoDoc /\ (\A m \in Merges : pc[m] \in {"push", "done"}) => Agrees(doc)
    BY DEF SerialMergesExact, Calm, Agrees
  <2>1. (\A m \in Merges : pc[m] \in {"push", "done"}) => Sound
    BY DEF Sound
  <2> QED
    BY <2>1 DEF SerialInv, KeptExact, DocExact
<1>4. Spec => []HistoryInv
  <2>1. TypeOK /\ HistoryInv /\ [Next]_vars => HistoryInv'
    BY MergeHistory, OtherHistory DEF Next
  <2> QED
    BY <2>1, HistoryInit, TypesProved, PTL DEF Spec
<1> QED
  BY <1>1, <1>2, <1>3, <1>4, TimedNext, TypesProved, TimesAreSetProved, PTL DEF Spec
=============================================================================
