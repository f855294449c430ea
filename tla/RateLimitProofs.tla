-------------------------- MODULE RateLimitProofs ---------------------------
(* Proof about RateLimit, for any number of concurrent calls, any limit    *)
(* and any window.                                                         *)
EXTENDS RateLimit, TLAPS

\* Without a key there is no time either.
Inv == TypeOK /\ (count = 0 => ttl = Forever) /\ TimeIsSet

(* As long as no handler is lost between INCR and EXPIRE, no counter lives  *)
(* for ever, however the calls interleave with each other and with the end  *)
(* of the window.                                                           *)
THEOREM TimeIsSetProved == Spec => []TimeIsSet
<1> USE LimitAssumption, FaultAssumption DEF Inv, TypeOK, TimeIsSet, Forever, Goto
<1>1. Init => Inv
  BY DEF Init
<1>2. Inv /\ [Next]_vars => Inv'
  <2> SUFFICES ASSUME Inv, [Next]_vars PROVE Inv'
    OBVIOUS
  <2>1. ASSUME NEW c \in Calls, Incr(c) PROVE Inv'
    BY <2>1 DEF Incr, NeedsTtl
  <2>2. ASSUME NEW c \in Calls, Expire(c) PROVE Inv'
    BY <2>2 DEF Expire
  <2>3. ASSUME NEW c \in Calls, Fault(c) PROVE Inv'
    BY <2>3 DEF Fault
  <2>4. CASE Tick
    BY <2>4 DEF Tick
  <2>5. CASE UNCHANGED vars
    BY <2>5 DEF vars
  <2> QED
    BY <2>1, <2>2, <2>3, <2>4, <2>5 DEF Next, Call
<1>3. Inv => TimeIsSet
  OBVIOUS
<1> QED
  BY <1>1, <1>2, <1>3, PTL DEF Spec
=============================================================================
