--------------------------- MODULE TaskRefinement --------------------------
(***************************************************************************)
(* TaskQueue implements TaskLifecycle: the phase of a task is read off its *)
(* status document, its answer off its result document, and what was sent  *)
(* off the webhook stream.  The TTL breaks every such promise, so this is  *)
(* about behaviours in which no document expires.                          *)
(***************************************************************************)
EXTENDS TaskQueue

PhaseOf(st) ==
  CASE st = "none" -> "unknown"
    [] st \in {"pending", "processing"} -> "open"
    [] OTHER -> st

Lifecycle == INSTANCE TaskLifecycle WITH
  Answers  <- Bodies,
  NoAnswer <- NoBody,
  phase    <- [t \in Tasks |-> PhaseOf(status[t].st)],
  reply    <- result,
  sent     <- hooks

\* Whatever raises, crashes or races, each task goes through the life that
\* TaskLifecycle describes.
ImplementsLifecycle == Lifecycle!LifeSpec
=============================================================================
