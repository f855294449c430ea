------------------------ MODULE AccessControlProofs ------------------------
(***************************************************************************)
(* Proofs about StudentRegistry and AccessControl, for any number of       *)
(* requests, students and users and any number of faults.                  *)
(*                                                                         *)
(* OneStudent is not inductive: a commit keeps the answers of the others   *)
(* only because its key has no row yet, which holds because the constraint *)
(* let its insert in and kept every other insert of the key waiting.       *)
(*                                                                         *)
(* Behind the gate the registry does what StudentRegistry says, so what is *)
(* proved of that module holds for AccessControl, and AccessKept needs     *)
(* only what the gate adds.                                                *)
(***************************************************************************)
EXTENDS AccessControl, TLAPS

-----------------------------------------------------------------------------
(* The registry.                                                           *)

\* An open insert is its request's own, of a key without a row.
HolderInserts ==
  \A k \in Keys : holder[k] # Nobody =>
    /\ pc[holder[k]] = "commit"
    /\ KeyOf[holder[k]] = k
    /\ table[k] = NoRow

CommitHolds == \A r \in Requests : pc[r] = "commit" => holder[KeyOf[r]] = r

\* After a lost race there is a row, so the next SELECT finds it.
RaceLeavesRow ==
  \A r \in Requests :
    /\ attempt[r] > 0 => table[KeyOf[r]] # NoRow
    /\ pc[r] = "insert" => attempt[r] = 0

\* Before a user is told its id, nobody has touched the row of that id.
KeyUnknown ==
  /\ \A u \in Users :
       /\ signup[u] = "new" => table[u] = NoRow
       /\ signup[u] = "registered" => table[u] = u
  /\ \A r \in Requests :
       KeyOf[r] \in Users /\ pc[r] \in {"insert", "commit", "done"} =>
         signup[KeyOf[r]] = "registered"

Inv ==
  /\ TypeOK /\ HolderInserts /\ CommitHolds /\ RaceLeavesRow /\ KeyUnknown
  /\ OneStudent /\ RaceNeverFails

USE DEF Goto, Ids, Steps

\* A fresh id is an id, and not the mark of an absent row.
LEMMA FreshId ==
  ASSUME TypeOK, NEW r \in Requests
  PROVE  <<r, attempt[r]>> \in Ids /\ <<r, attempt[r]>> # NoRow
  BY AbsentAssumption DEF TypeOK

\* The invariant holds of the empty tables.
LEMMA InitInv == Init => Inv
  BY KeyAssumption, AbsentAssumption, FaultAssumption
  DEF Init, Inv, TypeOK, HolderInserts, CommitHolds, RaceLeavesRow, KeyUnknown,
      OneStudent, RaceNeverFails

\* Every step keeps the invariant and every committed row.
LEMMA NextInv ==
  ASSUME Inv, [Next]_vars
  PROVE  Inv' /\ \A k \in Keys : table[k] # NoRow => table'[k] = table[k]
<1> USE KeyAssumption, AbsentAssumption
    DEF Inv, HolderInserts, CommitHolds, RaceLeavesRow, KeyUnknown, OneStudent,
        RaceNeverFails
<1>1. ASSUME NEW r \in Requests, Select(r)
      PROVE  Inv' /\ \A k \in Keys : table[k] # NoRow => table'[k] = table[k]
  BY <1>1 DEF TypeOK, Select, KeyKnown
<1>2. ASSUME NEW r \in Requests, Insert(r)
      PROVE  Inv' /\ \A k \in Keys : table[k] # NoRow => table'[k] = table[k]
  BY <1>2 DEF TypeOK, Insert, MayInsert
<1>3. ASSUME NEW r \in Requests, Conflict(r)
      PROVE  Inv' /\ \A k \in Keys : table[k] # NoRow => table'[k] = table[k]
  BY <1>3 DEF TypeOK, Conflict, MayInsert, AfterRace
<1>4. ASSUME NEW r \in Requests, Commit(r)
      PROVE  Inv' /\ \A k \in Keys : table[k] # NoRow => table'[k] = table[k]
  BY <1>4, FreshId DEF TypeOK, Commit
<1>5. ASSUME NEW r \in Requests, Lose(r)
      PROVE  Inv' /\ \A k \in Keys : table[k] # NoRow => table'[k] = table[k]
  <2>1. /\ holder' = AfterRollback(r) /\ pc' = [pc EXCEPT ![r] = "fault"]
        /\ UNCHANGED <<attempt, answer, signup>>
    BY <1>5 DEF Lose
  <2>2. \A k \in Keys : /\ holder[k] = r => holder'[k] = Nobody
                        /\ holder[k] # r => holder'[k] = holder[k]
    BY <2>1 DEF AfterRollback
  <2>3. CASE UNCHANGED table
    <3>1. TypeOK'
      BY <1>5, <2>1, <2>3, FaultAssumption DEF TypeOK, Lose, AfterRollback
    <3>2. HolderInserts' /\ CommitHolds'
      BY <2>1, <2>2, <2>3 DEF TypeOK
    <3> QED
      BY <2>1, <2>3, <3>1, <3>2 DEF TypeOK
  <2>4. CASE pc[r] = "commit" /\ table' = [table EXCEPT ![KeyOf[r]] = <<r, attempt[r]>>]
    <3>1. holder[KeyOf[r]] = r /\ table[KeyOf[r]] = NoRow
      BY <2>4
    <3>2. TypeOK'
      BY <1>5, <2>1, <2>4, FreshId, FaultAssumption DEF TypeOK, Lose, AfterRollback
    <3>3. /\ table'[KeyOf[r]] # NoRow
          /\ \A k \in Keys : k # KeyOf[r] => table'[k] = table[k]
      BY <2>4, FreshId DEF TypeOK
    <3>4. HolderInserts' /\ CommitHolds'
      BY <2>1, <2>2, <3>1, <3>3 DEF TypeOK
    <3>5. RaceLeavesRow' /\ OneStudent' /\ RaceNeverFails'
      BY <2>1, <3>1, <3>3 DEF TypeOK
    <3>6. KeyUnknown'
      BY <2>1, <2>4, <3>1, <3>3 DEF TypeOK
    <3> QED
      BY <3>1, <3>2, <3>3, <3>4, <3>5, <3>6
  <2> QED
    BY <1>5, <2>3, <2>4 DEF Lose
<1>6. ASSUME NEW u \in Users, Register(u)
      PROVE  Inv' /\ \A k \in Keys : table[k] # NoRow => table'[k] = table[k]
  BY <1>6 DEF TypeOK, Register, StudentOfUser
<1>7. ASSUME NEW u \in Users, RegisterLost(u)
      PROVE  Inv' /\ \A k \in Keys : table[k] # NoRow => table'[k] = table[k]
  BY <1>7, FaultAssumption DEF TypeOK, RegisterLost, StudentOfUser
<1>8. CASE UNCHANGED vars
  BY <1>8 DEF TypeOK, vars
<1> QED
  BY <1>1, <1>2, <1>3, <1>4, <1>5, <1>6, <1>7, <1>8 DEF Next, Resolve

\* Inv holds in every reachable state.
LEMMA InvHolds == Spec => []Inv
<1>1. Inv /\ [Next]_vars => Inv'
  BY NextInv
<1> QED
  BY InitInv, <1>1, PTL DEF Spec

(* Type correctness, for any number of requests and faults.                 *)
THEOREM TypeCorrect == Spec => []TypeOK
<1>1. Inv => TypeOK
  BY DEF Inv
<1> QED
  BY InvHolds, <1>1, PTL

(* All requests for a student get the id of one committed row.              *)
THEOREM OneStudentProved == Spec => []OneStudent
<1>1. Inv => OneStudent
  BY DEF Inv
<1> QED
  BY InvHolds, <1>1, PTL

(* No number of racing requests makes get_or_create_student fail: of its    *)
(* three attempts two are enough.                                           *)
THEOREM TwoAttemptsSuffice == Spec => []RaceNeverFails
<1>1. Inv => RaceNeverFails
  BY DEF Inv
<1> QED
  BY InvHolds, <1>1, PTL

(* A registered user's requests work on the row whose id is the user's.     *)
THEOREM UserStudentProved == Spec => []UserIsStudent
<1>1. Inv => UserIsStudent
  BY KeyAssumption DEF Inv, OneStudent, KeyUnknown, UserIsStudent
<1> QED
  BY InvHolds, <1>1, PTL

(* A committed row is never replaced.                                       *)
THEOREM RowsFinalProved == Spec => RowsFinal
<1>1. Inv /\ [Next]_vars =>
        [\A k \in Keys : table[k] # NoRow => table'[k] = table[k]]_vars
  BY NextInv
<1> QED
  BY InvHolds, <1>1, PTL DEF Spec, RowsFinal

-----------------------------------------------------------------------------
(* The gate.                                                               *)

(* Requests that pass the gate, readers, and users that come and go change *)
(* the rows only as StudentRegistry allows.                                *)
THEOREM AccessImplementsRegistry == AccessSpec => Spec
<1>1. AccessInit => Init
  BY DEF AccessInit
<1>2. [AccessNext]_accessVars => [Next]_vars
  BY DEF AccessNext, Identify, CheckUser, Enter, Refuse, GatedResolve, ReadStudent,
         GatedLose, SignUp, SignUpLost, ExpireToken, IssueToken, Remove, Next, Resolve,
         accessVars, vars
<1> QED
  BY <1>1, <1>2, PTL DEF AccessSpec, Spec

\* Only a call that is over has an answer, and a reader never inserts.
AnswerAtEnd ==
  \A r \in Requests :
    /\ answer[r] # NoRow => pc[r] = "done"
    /\ gate[r] = "read" => pc[r] \in {"select", "done", "fault"}
    /\ gate[r] \notin Open => pc[r] = "select" /\ answer[r] = NoRow

\* Whoever is behind the gate with a token names the student of the token.
OwnKeyBehindGate ==
  \A r \in Requests : gate[r] \in Open /\ cred[r] \in Users => KeyOf[r] = cred[r]

\* A request of a removed user does not get past the lookup of the user.
LateStays ==
  \A r \in late : gate[r] \in {"user", "refused"} /\ cred[r] \in removed

GateInv == AccessTypeOK /\ AnswerAtEnd /\ OwnKeyBehindGate /\ LateStays

\* Every request waits before the gate initially.
LEMMA GateInit == AccessInit => GateInv
  BY DEF AccessInit, Init, GateInv, AccessTypeOK, Gates, AnswerAtEnd, OwnKeyBehindGate,
         LateStays, Open

USE DEF Open, Gates, Pass, Goto, Steps

\* The steps before the gate leave the registry alone.
LEMMA GateStep ==
  ASSUME GateInv, TypeOK, NEW r \in Requests,
         Identify(r) \/ CheckUser(r) \/ Enter(r) \/ Refuse(r)
  PROVE  GateInv'
<1> USE DEF GateInv, AccessTypeOK, AnswerAtEnd, OwnKeyBehindGate, LateStays, TypeOK, vars
<1>1. CASE Identify(r)
  BY <1>1, CredentialAssumption DEF Identify
<1>2. CASE CheckUser(r)
  BY <1>2 DEF CheckUser, UserThere
<1>3. CASE Enter(r)
  BY <1>3 DEF Enter, MayAccess
<1>4. CASE Refuse(r)
  BY <1>4 DEF Refuse
<1> QED
  BY <1>1, <1>2, <1>3, <1>4

\* The steps behind it leave the gate alone, but for the 404 of a reader.
LEMMA OpenStep ==
  ASSUME GateInv, TypeOK, NEW r \in Requests,
         GatedResolve(r) \/ ReadStudent(r) \/ GatedLose(r)
  PROVE  GateInv'
<1> USE DEF GateInv, AccessTypeOK, AnswerAtEnd, OwnKeyBehindGate, LateStays, TypeOK, access
<1>1. CASE GatedResolve(r)
  BY <1>1 DEF GatedResolve, MayResolve, Resolve, Select, Insert, Conflict, Commit, AfterRace
<1>2. CASE ReadStudent(r)
  BY <1>2 DEF ReadStudent, Select, vars
<1>3. CASE GatedLose(r)
  BY <1>3 DEF GatedLose, Lose
<1> QED
  BY <1>1, <1>2, <1>3

\* Registrations, tokens and removals move no request.
LEMMA UserStep ==
  ASSUME GateInv, TypeOK, NEW u \in Users,
         SignUp(u) \/ SignUpLost(u) \/ ExpireToken(u) \/ IssueToken(u) \/ Remove(u)
  PROVE  GateInv'
<1> USE DEF GateInv, AccessTypeOK, AnswerAtEnd, OwnKeyBehindGate, LateStays, access, vars
<1> QED
  BY DEF SignUp, SignUpLost, ExpireToken, IssueToken, Remove, Register, RegisterLost

\* The invariant of the gate holds throughout.
LEMMA GateInvHolds == AccessSpec => []GateInv
<1>1. GateInv /\ TypeOK /\ [AccessNext]_accessVars => GateInv'
  <2> SUFFICES ASSUME GateInv, TypeOK, [AccessNext]_accessVars PROVE GateInv'
    OBVIOUS
  <2>1. CASE UNCHANGED accessVars
    BY <2>1 DEF GateInv, AccessTypeOK, AnswerAtEnd, OwnKeyBehindGate, LateStays,
                accessVars, access, vars
  <2> QED
    BY <2>1, GateStep, OpenStep, UserStep DEF AccessNext
<1> QED
  BY <1>1, GateInit, AccessImplementsRegistry, TypeCorrect, PTL DEF AccessSpec

(* A refused request leaves nothing behind, a user's token reaches only the *)
(* row of the user, and a removed user reaches none.                        *)
THEOREM AccessKeptProved == AccessSpec => []AccessKept
<1>1. GateInv /\ Inv => AccessKept
  <2> SUFFICES ASSUME GateInv, Inv PROVE AccessKept
    OBVIOUS
  <2> USE DEF GateInv, AnswerAtEnd, OwnKeyBehindGate, LateStays
  <2>1. RefusedLeavesNothing
    <3>1. ASSUME NEW r \in Requests, gate[r] # "post", NEW k \in Keys, holder[k] = r
          PROVE  FALSE
      <4>1. pc[r] = "commit"
        BY <3>1, AbsentAssumption DEF Inv, HolderInserts
      <4> QED
        BY <3>1, <4>1
    <3> QED
      BY <3>1 DEF RefusedLeavesNothing
  <2>2. UserIsStudent
    BY KeyAssumption DEF Inv, OneStudent, KeyUnknown, UserIsStudent
  <2>3. TokenReachesOwnStudent
    BY <2>2 DEF UserIsStudent, TokenReachesOwnStudent
  <2>4. RemovedIsShutOut
    BY DEF AccessTypeOK, RemovedIsShutOut
  <2> QED
    BY <2>1, <2>3, <2>4 DEF AccessKept
<1> QED
  BY <1>1, GateInvHolds, AccessImplementsRegistry, InvHolds, PTL
=============================================================================
