--------------------------- MODULE AccessControl ---------------------------
(***************************************************************************)
(* What a request passes before it reaches the rows of StudentRegistry:    *)
(* verify_auth_context, the rate limit and ensure_student_access           *)
(* (gateway/services/auth.py).  Users register, are removed, and get a new *)
(* token when the old one has expired, while requests are on their way.    *)
(* Each lookup of a row and the call of the rate limit is a step; all the  *)
(* refusals (400, 401, 403, 429, 500) are one outcome.                     *)
(***************************************************************************)
EXTENDS StudentRegistry

CONSTANT PlatformKey  \* the credentials of a platform; others are user tokens

ASSUME CredentialAssumption == PlatformKey \notin Users /\ NoRow # PlatformKey

VARIABLES
  gate,     \* [Requests -> Gates]
  cred,     \* [Requests -> Users \cup {PlatformKey, NoRow}], who asks
  live,     \* users whose token has not expired
  removed,  \* users whose row is gone
  late      \* requests with the token of a user removed before they began

access     == <<gate, cred, late>>
accessVars == <<vars, access, live, removed>>

Gates == {"begin", "user", "limit", "post", "read", "refused", "unknown"}
\* The gate is passed.
Open  == {"post", "read"}

AccessTypeOK ==
  /\ gate \in [Requests -> Gates]
  /\ cred \in [Requests -> Users \cup {PlatformKey, NoRow}]
  /\ live \subseteq Users /\ removed \subseteq Users /\ late \subseteq Requests

AccessInit ==
  /\ Init
  /\ gate = [r \in Requests |-> "begin"]
  /\ cred = [r \in Requests |-> NoRow]
  /\ live = {} /\ removed = {} /\ late = {}

-----------------------------------------------------------------------------
(* The gate.                                                               *)

Pass(r, g) == gate' = [gate EXCEPT ![r] = g]

\* The platform's key, or a token that is good and whose platform exists.
Identify(r) ==
  /\ gate[r] = "begin"
  /\ KeyKnown(KeyOf[r])
  /\ \/ /\ cred' = [cred EXCEPT ![r] = PlatformKey]
        /\ Pass(r, "limit")
        /\ UNCHANGED late
     \/ \E u \in live :
          /\ cred' = [cred EXCEPT ![r] = u]
          /\ late' = IF u \in removed THEN late \cup {r} ELSE late
          /\ Pass(r, "user")
  /\ UNCHANGED <<vars, live, removed>>

\* Mutant of UserThere: the token alone counts until it expires.
TokenSuffices(u) == TRUE

\* get_user_for_platform
UserThere(u) == signup[u] = "registered" /\ u \notin removed

CheckUser(r) ==
  /\ gate[r] = "user"
  /\ UserThere(cred[r])
  /\ Pass(r, "limit")
  /\ UNCHANGED <<vars, cred, live, removed, late>>

\* Mutant of MayAccess: the check is left out.
AnyStudent(c, k) == TRUE

\* ensure_student_access: a token is good for one student, the key for all.
MayAccess(c, k) == c \in Users => k = c

\* The call is below the limit, the student is the right one; the request
\* goes on to create the student or to read what there is of it.
Enter(r) ==
  /\ gate[r] = "limit"
  /\ MayAccess(cred[r], KeyOf[r])
  /\ Pass(r, "post") \/ Pass(r, "read")
  /\ UNCHANGED <<vars, cred, live, removed, late>>

\* No credentials or two of them, a bad token or key, no such user, the limit,
\* another student, or an exception on the way.
Refuse(r) ==
  /\ gate[r] \in {"begin", "user", "limit"}
  /\ KeyKnown(KeyOf[r])
  /\ Pass(r, "refused")
  /\ UNCHANGED <<vars, cred, live, removed, late>>

-----------------------------------------------------------------------------
(* Behind the gate.                                                        *)

\* Mutant of MayResolve: the student is created before the access is checked.
ResolveEarly(r) == gate[r] \in {"limit", "post"}

MayResolve(r) == gate[r] = "post"

GatedResolve(r) ==
  /\ MayResolve(r) /\ Resolve(r)
  /\ UNCHANGED <<access, live, removed>>

\* _resolve_student of the endpoints that read creates nothing: 404.
ReadStudent(r) ==
  /\ gate[r] = "read"
  /\ \/ /\ table[KeyOf[r]] # NoRow /\ Select(r)
        /\ UNCHANGED access
     \/ /\ table[KeyOf[r]] = NoRow /\ pc[r] = "select"
        /\ Pass(r, "unknown")
        /\ UNCHANGED <<vars, cred, late>>
  /\ UNCHANGED <<live, removed>>

GatedLose(r) ==
  /\ gate[r] \in Open /\ Lose(r)
  /\ UNCHANGED <<access, live, removed>>

-----------------------------------------------------------------------------
(* Users.                                                                  *)

\* POST /auth/register: the answer carries a token.
SignUp(u) ==
  /\ Register(u)
  /\ live' = live \cup {u}
  /\ UNCHANGED <<access, removed>>

SignUpLost(u) == RegisterLost(u) /\ UNCHANGED <<access, live, removed>>

ExpireToken(u) ==
  /\ u \in live /\ live' = live \ {u}
  /\ UNCHANGED <<vars, access, removed>>

\* POST /auth/token: the platform asks for a new one.
IssueToken(u) ==
  /\ u \notin live /\ UserThere(u)
  /\ live' = live \cup {u}
  /\ UNCHANGED <<vars, access, removed>>

\* The row is deleted by hand: no endpoint does.
Remove(u) ==
  /\ UserThere(u)
  /\ removed' = removed \cup {u}
  /\ UNCHANGED <<vars, access, live>>

AccessNext ==
  \/ \E r \in Requests :
       Identify(r) \/ CheckUser(r) \/ Enter(r) \/ Refuse(r)
         \/ GatedResolve(r) \/ ReadStudent(r) \/ GatedLose(r)
  \/ \E u \in Users :
       SignUp(u) \/ SignUpLost(u) \/ ExpireToken(u) \/ IssueToken(u) \/ Remove(u)

AccessSpec == AccessInit /\ [][AccessNext]_accessVars

FairAccessSpec == AccessSpec /\ \A r \in Requests : WF_accessVars(GatedResolve(r))

-----------------------------------------------------------------------------
(* Properties.                                                             *)

\* A refused request has neither found nor inserted a row, and no reader did.
RefusedLeavesNothing ==
  \A r \in Requests :
    /\ gate[r] \notin Open => pc[r] = "select" /\ answer[r] = NoRow
    /\ gate[r] # "post" => \A k \in Keys : holder[k] # r

\* The row a user's token leads to is that of the user.
TokenReachesOwnStudent ==
  \A r \in Requests :
    cred[r] \in Users /\ answer[r] # NoRow => answer[r] = cred[r]

\* A token outlives the row of its user, but is of no use from then on.
RemovedIsShutOut == \A r \in late : gate[r] \notin Open

\* Whoever gets behind the gate may: the order of the checks and of the writes
\* of a handler, the registrations and the removals in between included.
AccessKept == RefusedLeavesNothing /\ TokenReachesOwnStudent /\ RemovedIsShutOut
=============================================================================
