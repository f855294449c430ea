---------------------------- MODULE MCLegacyJobs ----------------------------
(* Finite instances of LegacyJobs.                                         *)
EXTENDS LegacyJobs

CONSTANTS j1, w1, w2
=============================================================================
