---------------------------- MODULE MCUserStore ----------------------------
(* Three requests on the server of code-analyze, on that of task-generate, *)
(* and on one for both, as the compose file also allows.  The answers:     *)
(* alignments of which the second replaces the first, a score outside the  *)
(* scale and one that is no number; other blocks, the first without any    *)
(* score; flat scores with a NaN; a text without scores.                   *)
EXTENDS UserStore, TLC

CONSTANTS r1, r2, r3, a, b, old

MCServed == {AnalyzeHandlers, GenerateHandlers, AnalyzeHandlers \cup GenerateHandlers}

MCCompletions ==
  {[report |-> [alignments |-> <<a :> 3, a :> 12 @@ b :> Bad>>, blocks |-> <<b :> 5>>], flat |-> None],
   [report |-> [alignments |-> <<>>, blocks |-> <<a :> Bad, a :> 4 @@ b :> 0>>], flat |-> a :> 5],
   [report |-> None, flat |-> b :> NaN],
   [report |-> None, flat |-> None]}
MCPatches == {[weak |-> {b}, tags |-> None, used |-> None], [weak |-> None, tags |-> {a}, used |-> {b}]}
MCEarlier == <<old>>
Symmetry  == Permutations(Requests)
=============================================================================
