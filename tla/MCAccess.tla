------------------------------ MODULE MCAccess ------------------------------
(* Small instances of Access.                                              *)
EXTENDS Access, TLC

CONSTANTS a, b

Each == <<"visit", "start", "grant", "allow", "reject", "block", "unblock",
          "deep", "level", "forget", "koji">>

\* Any three commands; their order is open anyway.
AnyThree == {[u \in Update |-> Each[n[u]]] :
                n \in {m \in [Update -> DOMAIN Each] : m[1] <= m[2] /\ m[2] <= m[3]}}

\* Somebody known from the group sends /start twice.
TwoStarts == {[u \in Update |-> "start"]}
=============================================================================
