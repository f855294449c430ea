--------------------------- MODULE TaskLifecycle ---------------------------
(***************************************************************************)
(* What the service promises about one task, without gateway, stream or    *)
(* workers: it opens, it is done or failed, its answer is written once and *)
(* never changes, at most one webhook carries that very answer, and a      *)
(* failure is the end of it.                                               *)
(***************************************************************************)
EXTENDS Naturals, Sequences

CONSTANTS Tasks, Answers, NoAnswer

VARIABLES
  phase,    \* [Tasks -> "unknown", "open", "done" or "failed"]
  reply,    \* [Tasks -> Answers or NoAnswer], what a poll would be given
  sent      \* [Tasks -> Seq(Answers)], what the webhook was given

lifeVars == <<phase, reply, sent>>

LifeInit ==
  /\ phase = [t \in Tasks |-> "unknown"]
  /\ reply = [t \in Tasks |-> NoAnswer]
  /\ sent = [t \in Tasks |-> <<>>]

Open(t) ==
  /\ phase[t] = "unknown"
  /\ phase' = [phase EXCEPT ![t] = "open"]
  /\ UNCHANGED <<reply, sent>>

Finish(t) ==
  /\ phase[t] = "open"
  /\ phase' = [phase EXCEPT ![t] = "done"]
  /\ UNCHANGED <<reply, sent>>

Answer(t, a) ==
  /\ phase[t] = "done"
  /\ reply[t] = NoAnswer
  /\ reply' = [reply EXCEPT ![t] = a]
  /\ UNCHANGED <<phase, sent>>

Send(t) ==
  /\ phase[t] = "done"
  /\ reply[t] # NoAnswer
  /\ sent[t] = <<>>
  /\ sent' = [sent EXCEPT ![t] = <<reply[t]>>]
  /\ UNCHANGED <<phase, reply>>

Fail(t) ==
  /\ phase[t] \in {"open", "done"}
  /\ phase' = [phase EXCEPT ![t] = "failed"]
  /\ UNCHANGED <<reply, sent>>

LifeNext ==
  \E t \in Tasks :
    \/ Open(t) \/ Finish(t) \/ Send(t) \/ Fail(t)
    \/ \E a \in Answers : Answer(t, a)

LifeSpec == LifeInit /\ [][LifeNext]_lifeVars
=============================================================================
