--------------------------- MODULE MCTaskPolling ---------------------------
(* Two tasks of one work, asked for by two students of one platform; the    *)
(* first is polled, also with the keys of this and of another platform.     *)
EXTENDS TaskPolling, TLC

CONSTANTS t1, t2, s1, s2, k1, p1

MCStudentOf  == t1 :> s1 @@ t2 :> s2
MCWorkOf     == t1 :> k1 @@ t2 :> k1
MCPlatformOf == s1 :> p1 @@ s2 :> p1

=============================================================================
