---------------------------- MODULE MCTaskQueue ----------------------------
(* Two students ask for the same work, so that one task can find what the  *)
(* other has put into the cache.                                           *)
EXTENDS TaskRefinement, TLC

CONSTANTS t1, t2, s1, s2, k1

MCStudentOf == t1 :> s1 @@ t2 :> s2
MCWorkOf    == t1 :> k1 @@ t2 :> k1

Symmetry == Permutations(Workers)
=============================================================================
