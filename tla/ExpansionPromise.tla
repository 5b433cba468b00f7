-------------------------- MODULE ExpansionPromise --------------------------
(***************************************************************************)
(* What the bot promises with the button under a quick answer: the answer  *)
(* is expanded at most once, however often the button is pressed; credits  *)
(* are held from then on and taken together with the expanded answer, or   *)
(* given back.  Nothing here knows of clicks, attempts or leases.          *)
(***************************************************************************)
CONSTANT Offer

VARIABLES
    fate,       \* of the expansion
    funds       \* of the expansion

vars == <<fate, funds>>

Init ==
    /\ fate = [o \in Offer |-> "none"]
    /\ funds = [o \in Offer |-> "none"]

\* For an admin or an unlimited user nothing is held.
Begin(o) ==
    /\ fate[o] = "none"
    /\ fate' = [fate EXCEPT ![o] = "processing"]
    /\ \/ funds' = [funds EXCEPT ![o] = "held"]
       \/ UNCHANGED funds

Complete(o) ==
    /\ fate[o] = "processing"
    /\ fate' = [fate EXCEPT ![o] = "answered"]
    /\ funds' = [funds EXCEPT ![o] = IF @ = "held" THEN "charged" ELSE @]

GiveUp(o) ==
    /\ fate[o] = "processing"
    /\ fate' = [fate EXCEPT ![o] = "failed"]
    /\ funds' = [funds EXCEPT ![o] = IF @ = "held" THEN "returned" ELSE @]

Next == \E o \in Offer : Begin(o) \/ Complete(o) \/ GiveUp(o)

Spec == Init /\ [][Next]_vars
=============================================================================
