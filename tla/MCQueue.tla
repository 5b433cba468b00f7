------------------------------ MODULE MCQueue -------------------------------
(* Small instances of UpdateQueue.                                         *)
EXTENDS UpdateQueue, TLC

CONSTANTS q1, q2, s1, s2, p1, p2

QuestionAndCommand == (1 :> "text" @@ 2 :> "command")

QuestionAndService == (q1 :> "question" @@ s1 :> "service" @@ q2 :> "question" @@ s2 :> "service")
TwoProcesses == (q1 :> p1 @@ s1 :> p1 @@ q2 :> p2 @@ s2 :> p2)

OneOfEach == (q1 :> "question" @@ s1 :> "service")
OneProcess == (q1 :> p1 @@ s1 :> p1)
=============================================================================
