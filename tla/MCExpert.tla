------------------------------ MODULE MCExpert ------------------------------
(* Small instances of ExpertGeneration.                                    *)
EXTENDS ExpertGeneration, TLC

CONSTANTS q1, w1, w2, p1, p2, a1, a2

TwoProcesses == (w1 :> p1 @@ w2 :> p2)
TwoSettings == {[agent |-> a1, more |-> 1], [agent |-> a2, more |-> 0]}
OneUrl == <<"native">>
=============================================================================
