---------------------------- MODULE MCExpansion -----------------------------
(* Small instances of AnswerExpansion.                                     *)
EXTENDS AnswerExpansion, TLC

CONSTANTS o1, w1, w2, p1, p2

OneOffer == (1 :> o1 @@ 2 :> o1)
TwoProcesses == (w1 :> p1 @@ w2 :> p2)
=============================================================================
