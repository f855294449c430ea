-------------------------- MODULE MCAccessControl --------------------------
(* Three requests, each with any credentials: two for one student a        *)
(* platform names, one for the student of a user.                          *)
EXTENDS AccessControl, TLC

CONSTANTS r1, r2, r3, k1, u1

MCKeyOf == r1 :> k1 @@ r2 :> k1 @@ r3 :> u1
=============================================================================
