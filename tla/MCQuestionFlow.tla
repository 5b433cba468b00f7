--------------------------- MODULE MCQuestionFlow ---------------------------
(* Small instances of QuestionFlow.                                        *)
EXTENDS QuestionFlow, TLC

CONSTANTS u1, w1, w2, p1, p2

OneUser == [r \in Request |-> u1]
OneAnswer == (u1 :> Cost)

TwoProcesses == (w1 :> p1 @@ w2 :> p2)
=============================================================================
