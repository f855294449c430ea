----------------------------- MODULE RateLimit ------------------------------
(***************************************************************************)
(* The hourly counter of one caller (check_rate_limit of                   *)
(* gateway/services/auth.py): INCR and TTL in one MULTI, then an EXPIRE    *)
(* when the key had no time to live.  Redis deletes the key when its time  *)
(* is over.  A call is refused when INCR returned more than the limit,     *)
(* which changes nothing further.                                          *)
(***************************************************************************)
EXTENDS Integers

CONSTANTS
  Calls,      \* handlers that run at the same time for the caller
  Limit,      \* rate_limit_per_hour
  Window,     \* ticks of the clock in the 3600 seconds
  MaxFaults   \* bound on handlers lost before their EXPIRE

ASSUME LimitAssumption == Limit \in Nat /\ Window \in Nat \ {0}
ASSUME FaultAssumption == MaxFaults \in Nat

VARIABLES
  count,    \* the counter, 0 when there is no key
  ttl,      \* ticks the key still lives; Forever when none is set
  pc,       \* [Calls -> {"idle", "expire"}]
  faults    \* faults so far

vars == <<count, ttl, pc, faults>>

Forever == -1

TypeOK ==
  /\ count \in 0 .. Limit + 1
  /\ ttl \in Forever .. Window
  /\ pc \in [Calls -> {"idle", "expire"}]
  /\ faults \in 0 .. MaxFaults

Init == count = 0 /\ ttl = Forever /\ pc = [c \in Calls |-> "idle"] /\ faults = 0

Goto(c, s) == pc' = [pc EXCEPT ![c] = s]

\* Mutant of NeedsTtl: only the call that creates the key sets its time.
FirstCallOnly == count = 0

\* Mutant of NeedsTtl: the TTL is read before the INCR and is -2 then.
TtlBeforeIncr == count > 0 /\ ttl = Forever

\* What the TTL read after the INCR tells: a new key has no time either.
NeedsTtl == ttl = Forever

\* INCR and TTL.  All counts above the limit are alike.
Incr(c) ==
  /\ pc[c] = "idle"
  /\ count' = IF count > Limit THEN count ELSE count + 1
  /\ IF NeedsTtl THEN Goto(c, "expire") ELSE UNCHANGED pc
  /\ UNCHANGED <<ttl, faults>>

\* EXPIRE does nothing to a key that is gone.
Expire(c) ==
  /\ pc[c] = "expire"
  /\ ttl' = IF count = 0 THEN ttl ELSE Window
  /\ Goto(c, "idle")
  /\ UNCHANGED <<count, faults>>

\* Redis raises or the process dies between the INCR and the EXPIRE.
Fault(c) ==
  /\ pc[c] = "expire"
  /\ faults < MaxFaults
  /\ faults' = faults + 1
  /\ Goto(c, "idle")
  /\ UNCHANGED <<count, ttl>>

\* Time passes; at the end of its time the key is gone.
Tick ==
  /\ ttl > 0
  /\ \/ ttl > 1 /\ ttl' = ttl - 1 /\ UNCHANGED count
     \/ ttl = 1 /\ ttl' = Forever /\ count' = 0
  /\ UNCHANGED <<pc, faults>>

Call(c) == Incr(c) \/ Expire(c)

Next == Tick \/ \E c \in Calls : Call(c) \/ Fault(c)

Spec == Init /\ [][Next]_vars

\* The clock runs, handlers run, and the caller does not stop calling.
FairSpec ==
  /\ Spec
  /\ WF_vars(Tick)
  /\ \A c \in Calls : WF_vars(Call(c))

-----------------------------------------------------------------------------
(* Properties.                                                             *)

Refused == count > Limit

\* A counter that lives for ever is only a moment old or left by a fault: some
\* handler is about to set its time.
TimeIsSet ==
  count > 0 /\ ttl = Forever /\ faults = 0 =>
    \E c \in Calls : pc[c] = "expire"

\* A caller that is refused and keeps calling is let in again, also after a
\* fault between the INCR and the EXPIRE: a later call sets the time.
LimitLifts == Refused ~> ~Refused
=============================================================================
