-------------------------- MODULE StudentRegistry --------------------------
(***************************************************************************)
(* Who a student is: the rows of table students, found or inserted by      *)
(* concurrent requests (gateway/services/students.py) and inserted         *)
(* together with a user at registration (gateway/services/users.py).  The  *)
(* table has a unique constraint on (external_id, platform_id).            *)
(*                                                                         *)
(* A transaction reads what is committed.  An INSERT of a key that an open *)
(* transaction has inserted waits for that transaction to end.             *)
(***************************************************************************)
EXTENDS Naturals

CONSTANTS
  Requests,   \* POST requests that need the row of a student
  Keys,       \* (external_id, platform_id) pairs
  Users,      \* the keys that are ids of users drawn at registration
  KeyOf,      \* [Requests -> Keys]
  NoRow,      \* an absent row
  Nobody,     \* a key no open transaction has inserted
  MaxFaults   \* bound on lost connections and crashes

ASSUME KeyAssumption == KeyOf \in [Requests -> Keys] /\ Users \subseteq Keys
ASSUME AbsentAssumption ==
  /\ NoRow \notin Requests \X (0 .. 2) /\ NoRow \notin Users
  /\ Nobody \notin Requests
ASSUME FaultAssumption == MaxFaults \in Nat

VARIABLES
  table,    \* [Keys -> Ids or NoRow], the committed rows
  holder,   \* [Keys -> Requests or Nobody], the open insert of a key
  pc,       \* [Requests -> Steps]
  attempt,  \* [Requests -> 0 .. 2], the loop variable
  answer,   \* [Requests -> Ids or NoRow], what the call returned
  signup,   \* [Users -> "new", "registered" or "error"]
  faults    \* faults so far

vars == <<table, holder, pc, attempt, answer, signup, faults>>

\* uuid4 draws a fresh id for each insert: the request and its attempt.
Ids   == (Requests \X (0 .. 2)) \cup Users
Steps == {"select", "insert", "commit", "done", "raced", "fault"}

TypeOK ==
  /\ table \in [Keys -> Ids \cup {NoRow}]
  /\ holder \in [Keys -> Requests \cup {Nobody}]
  /\ pc \in [Requests -> Steps]
  /\ attempt \in [Requests -> 0 .. 2]
  /\ answer \in [Requests -> Ids \cup {NoRow}]
  /\ signup \in [Users -> {"new", "registered", "error"}]
  /\ faults \in 0 .. MaxFaults

Init ==
  /\ table = [k \in Keys |-> NoRow]
  /\ holder = [k \in Keys |-> Nobody]
  /\ pc = [r \in Requests |-> "select"]
  /\ attempt = [r \in Requests |-> 0]
  /\ answer = [r \in Requests |-> NoRow]
  /\ signup = [u \in Users |-> "new"]
  /\ faults = 0

-----------------------------------------------------------------------------
(* Actions.                                                                *)

Goto(r, s) == pc' = [pc EXCEPT ![r] = s]

\* Nobody is told the id of a user before the registration is committed.
KeyKnown(k) == k \in Users => signup[k] = "registered"

\* SELECT: the row there is, or on to the INSERT.
Select(r) ==
  /\ pc[r] = "select"
  /\ KeyKnown(KeyOf[r])
  /\ \/ /\ table[KeyOf[r]] # NoRow
        /\ answer' = [answer EXCEPT ![r] = table[KeyOf[r]]]
        /\ Goto(r, "done")
     \/ /\ table[KeyOf[r]] = NoRow
        /\ Goto(r, "insert")
        /\ UNCHANGED answer
  /\ UNCHANGED <<table, holder, attempt, signup, faults>>

\* Mutant of MayInsert: the unique constraint is missing.
NoConstraint(k) == TRUE

\* What the constraint lets in, once no open transaction holds the key.
MayInsert(k) == table[k] = NoRow

Insert(r) ==
  /\ pc[r] = "insert"
  /\ holder[KeyOf[r]] = Nobody
  /\ MayInsert(KeyOf[r])
  /\ holder' = [holder EXCEPT ![KeyOf[r]] = r]
  /\ Goto(r, "commit")
  /\ UNCHANGED <<table, attempt, answer, signup, faults>>

\* Mutant of AfterRace: the insert is tried again without another SELECT.
InsertAgain == "insert"

\* Where an IntegrityError leads while attempts are left.
AfterRace == "select"

\* IntegrityError: somebody else's insert was committed first.
Conflict(r) ==
  /\ pc[r] = "insert"
  /\ holder[KeyOf[r]] = Nobody
  /\ ~MayInsert(KeyOf[r])
  /\ IF attempt[r] = 2
     THEN Goto(r, "raced") /\ UNCHANGED attempt
     ELSE Goto(r, AfterRace) /\ attempt' = [attempt EXCEPT ![r] = @ + 1]
  /\ UNCHANGED <<table, holder, answer, signup, faults>>

Commit(r) ==
  /\ pc[r] = "commit"
  /\ table' = [table EXCEPT ![KeyOf[r]] = <<r, attempt[r]>>]
  /\ holder' = [holder EXCEPT ![KeyOf[r]] = Nobody]
  /\ answer' = [answer EXCEPT ![r] = <<r, attempt[r]>>]
  /\ Goto(r, "done")
  /\ UNCHANGED <<attempt, signup, faults>>

\* Mutant of AfterRollback: the session stays open, and with it its insert.
SessionLeftOpen(r) == holder

\* The inserts that stay open when the transaction of r rolls back.
AfterRollback(r) == [k \in Keys |-> IF holder[k] = r THEN Nobody ELSE holder[k]]

\* The connection or the process is lost.  The open transaction rolls back; a
\* COMMIT whose answer is lost may have taken effect.
Lose(r) ==
  /\ pc[r] \in {"select", "insert", "commit"}
  /\ faults < MaxFaults
  /\ faults' = faults + 1
  /\ holder' = AfterRollback(r)
  /\ \/ UNCHANGED table
     \/ /\ pc[r] = "commit"
        /\ table' = [table EXCEPT ![KeyOf[r]] = <<r, attempt[r]>>]
  /\ Goto(r, "fault")
  /\ UNCHANGED <<attempt, answer, signup>>

\* Mutant of StudentOfUser: the student row of a user draws an id of its own.
OwnStudentId(u) == CHOOSE i \in Requests \X (0 .. 2) : TRUE

\* The id of the student row inserted with user u.
StudentOfUser(u) == u

\* register_user: the user and its student in one transaction.
Register(u) ==
  /\ signup[u] = "new"
  /\ table' = [table EXCEPT ![u] = StudentOfUser(u)]
  /\ signup' = [signup EXCEPT ![u] = "registered"]
  /\ UNCHANGED <<holder, pc, attempt, answer, faults>>

\* A registration whose commit failed; nobody was told the user's id.
RegisterLost(u) ==
  /\ signup[u] = "new"
  /\ faults < MaxFaults
  /\ faults' = faults + 1
  /\ signup' = [signup EXCEPT ![u] = "error"]
  /\ \/ UNCHANGED table
     \/ table' = [table EXCEPT ![u] = StudentOfUser(u)]
  /\ UNCHANGED <<holder, pc, attempt, answer>>

Resolve(r) == Select(r) \/ Insert(r) \/ Conflict(r) \/ Commit(r)

Next ==
  \/ \E r \in Requests : Resolve(r) \/ Lose(r)
  \/ \E u \in Users : Register(u) \/ RegisterLost(u)

Spec == Init /\ [][Next]_vars

-----------------------------------------------------------------------------
(* Properties.                                                             *)

\* All requests for one student work on one row, and that row is committed:
\* neither a racing insert nor a rollback leaves a request with another id.
OneStudent ==
  \A r \in Requests : pc[r] = "done" =>
    answer[r] # NoRow /\ answer[r] = table[KeyOf[r]]

\* A row once committed stays: no request replaces the student of another.
RowsFinal ==
  [][\A k \in Keys : table[k] # NoRow => table'[k] = table[k]]_vars

\* Losing a race never fails a request: the third IntegrityError, which the
\* loop raises, does not happen, however many requests race.
RaceNeverFails == \A r \in Requests : pc[r] # "raced"

\* The row a user's requests find is the one its registration inserted, whose
\* id is the user's id: the token and the rows name the same student.
UserIsStudent ==
  \A r \in Requests :
    pc[r] = "done" /\ KeyOf[r] \in Users => answer[r] = KeyOf[r]

\* Nobody waits for ever for an insert of somebody else to end.
EveryRequestEnds ==
  \A r \in Requests : pc[r] = "insert" ~> pc[r] \in {"done", "fault"}
=============================================================================
