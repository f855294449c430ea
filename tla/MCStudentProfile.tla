-------------------------- MODULE MCStudentProfile -------------------------
(* Analyses of two tags: one with scores outside the scale at both ends    *)
(* for tags a and b, one whose explicit scores are of no use and whose     *)
(* overall score counts for its tag, and one without any tag.              *)
EXTENDS StudentProfile, TLC

CONSTANTS m1, m2, m3, r1, a, b

MCAnalysisOf ==
  m1 :> [explicit |-> a :> 0 @@ b :> 12, score |-> 3, tags |-> {a}] @@
  m2 :> [explicit |-> b :> Bad, score |-> 7, tags |-> {b}] @@
  m3 :> [explicit |-> <<>>, score |-> None, tags |-> {}]
=============================================================================
