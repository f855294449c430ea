---------------------------- MODULE TaskPolling ----------------------------
(***************************************************************************)
(* Clients that poll GET /status/{task_id} while the task moves.  The      *)
(* handler reads the status document and the result document in two        *)
(* awaits, so a worker can write between the two reads.  A reader comes    *)
(* with the token of a user, here the student it names, or with the key of *)
(* a platform.  A task has one poll outstanding at a time; the last answer *)
(* that was not a 404 is remembered.                                       *)
(***************************************************************************)
EXTENDS TaskQueue

CONSTANTS
  Polled,      \* the tasks somebody polls
  Platforms,   \* the platforms, each with its API key
  PlatformOf   \* [Students -> Platforms], the platform a student belongs to

ASSUME PolledAssumption == Polled \subseteq Tasks

ASSUME ReaderAssumption ==
  /\ PlatformOf \in [Students -> Platforms]
  /\ Platforms \cap (Students \cup {NoOne}) = {}

\* Who may ask for a status: a user with a token, or a platform with its key.
Readers == Students \cup Platforms

VARIABLES
  ppc,     \* [Polled -> {"idle", "read"}]
  pwho,    \* [Polled -> Readers], who the outstanding poll is from
  pdoc,    \* [Polled -> status document], what its first read returned
  answer   \* [Polled -> [st, body, who]], the last answer with code 200

polling == <<ppc, pwho, pdoc, answer>>
allVars == <<vars, polling>>

NoAnswer == [st |-> "none", body |-> NoBody, who |-> NoOne]

PollInit ==
  /\ Init
  /\ ppc = [t \in Polled |-> "idle"]
  /\ pwho = [t \in Polled |-> NoOne]
  /\ pdoc = [t \in Polled |-> NoDoc]
  /\ answer = [t \in Polled |-> NoAnswer]

\* get_snapshot's first read; without a document the answer is 404 at once.
\* Nobody knows a task id before the POST has answered.
PollStatus(t, who) ==
  /\ ppc[t] = "idle"
  /\ gpc[t] = "accepted"
  /\ status[t] # NoDoc
  /\ ppc' = [ppc EXCEPT ![t] = "read"]
  /\ pwho' = [pwho EXCEPT ![t] = who]
  /\ pdoc' = [pdoc EXCEPT ![t] = status[t]]
  /\ UNCHANGED <<vars, answer>>

\* The platform a reader is authenticated for (ctx.platform).
PlatformOfReader(who) == IF who \in Students THEN PlatformOf[who] ELSE who

\* Mutant of MayRead: a user is not held to tasks of its own.
PlatformSuffices(doc, who) ==
  doc.owner # NoOne /\ PlatformOf[doc.owner] = PlatformOfReader(who)

\* A task is shown to its own platform only and, with a user's token, to its
\* own student only; all others get 404, as everybody does for a document that
\* has lost its ids.
MayRead(doc, who) ==
  /\ doc.owner # NoOne
  /\ PlatformOf[doc.owner] = PlatformOfReader(who)
  /\ who \in Students => who = doc.owner

\* The result goes out only with status done.
ResultToShow(doc, t) == IF doc.st = "done" THEN result[t] ELSE NoBody

\* The second read, the ownership check and the answer.
PollAnswer(t) ==
  /\ ppc[t] = "read"
  /\ ppc' = [ppc EXCEPT ![t] = "idle"]
  /\ pdoc' = [pdoc EXCEPT ![t] = NoDoc]
  /\ pwho' = [pwho EXCEPT ![t] = NoOne]
  /\ IF MayRead(pdoc[t], pwho[t])
     THEN answer' = [answer EXCEPT ![t] =
            [st |-> pdoc[t].st, body |-> ResultToShow(pdoc[t], t), who |-> pwho[t]]]
     ELSE UNCHANGED answer
  /\ UNCHANGED vars

PollNext ==
  \/ Next /\ UNCHANGED polling
  \/ \E t \in Polled : PollAnswer(t) \/ \E who \in Readers : PollStatus(t, who)

PollSpec == PollInit /\ [][PollNext]_allVars

\* The owner of an accepted task polls until it has an answer.
PollFairness ==
  /\ \A t \in Tasks : WF_allVars(gpc[t] # "start" /\ Gateway(t) /\ UNCHANGED polling)
  /\ \A w \in Workers : WF_allVars(Worker(w) /\ UNCHANGED polling)
  /\ \A t \in Polled : /\ SF_allVars(PollStatus(t, StudentOf[t]))
                       /\ WF_allVars(PollAnswer(t))

PollFairSpec == PollSpec /\ PollFairness

-----------------------------------------------------------------------------
(* Properties.                                                             *)

\* Only the student who asked, or the key of its platform, is ever shown a
\* status other than 404, and what is shown is the work that was asked for,
\* although the owner is written by four different calls and the status and the
\* result are read at different times.
PollShowsOwnTask ==
  \A t \in Polled :
    /\ answer[t].st # "none" =>
         answer[t].who \in {StudentOf[t], PlatformOf[StudentOf[t]]}
    /\ answer[t].body # NoBody =>
         /\ answer[t].st = "done"
         /\ answer[t].body.work = WorkOf[t]

\* Successive answers never go back: a task seen done is not seen processing
\* later, and a result once shown with done is shown with every later done.
PollsForward ==
  [][\A t \in Polled :
       /\ Rank(answer'[t].st) >= Rank(answer[t].st)
       /\ answer[t].body # NoBody /\ answer'[t].st = "done" =>
            answer'[t].body = answer[t].body]_allVars

\* Whoever polls an accepted task long enough learns its outcome: the result
\* itself, or that it failed (README 6: the result comes by webhook or polling).
PollingLearnsOutcome ==
  \A t \in Polled : gpc[t] = "accepted" ~>
    (answer[t].st = "failed" \/ answer[t].body # NoBody)

\* The integration tests read the result out of the first answer that says
\* done (tests/test_analyze_status_integration.py).
DoneComesWithResult ==
  \A t \in Polled : answer[t].st = "done" => answer[t].body # NoBody
=============================================================================
