--------------------------- MODULE QuestionPromise --------------------------
(***************************************************************************)
(* What the bot promises for a question: it is decided once, it is charged *)
(* only together with its answer, an answer that is paid for is paid for   *)
(* with credits that were held for it, and whoever was told that there is  *)
(* no answer gets none.  Nothing here knows of attempts, leases or drafts. *)
(***************************************************************************)
CONSTANT Request

VARIABLES
    fate,       \* the status of the question
    funds,      \* the credits of the question
    excused     \* questions whose author was told something instead of an answer

vars == <<fate, funds, excused>>

Open == {"pending", "processing"}

Init ==
    /\ fate = [r \in Request |-> "none"]
    /\ funds = [r \in Request |-> "none"]
    /\ excused = {}

Accept(r) ==
    /\ fate[r] = "none" /\ r \notin excused
    /\ fate' = [fate EXCEPT ![r] = "pending"]
    /\ UNCHANGED <<funds, excused>>

Hold(r) ==
    /\ fate[r] = "pending" /\ funds[r] = "none" /\ r \notin excused
    /\ funds' = [funds EXCEPT ![r] = "held"]
    /\ UNCHANGED <<fate, excused>>

Progress(r) ==
    /\ fate[r] = "pending" /\ r \notin excused
    /\ fate' = [fate EXCEPT ![r] = "processing"]
    /\ UNCHANGED <<funds, excused>>

\* Charged with its answer; or from the cache, without a charge.
Answer(r) ==
    /\ fate[r] = "processing" /\ r \notin excused
    /\ funds[r] # "returned"
    /\ fate' = [fate EXCEPT ![r] = "answered"]
    /\ \/ funds[r] = "held" /\ funds' = [funds EXCEPT ![r] = "charged"]
       \/ UNCHANGED funds
    /\ UNCHANGED excused

\* No answer; what is held may be returned at once, or later.
Decline(r) ==
    /\ fate[r] \in Open
    /\ fate' \in {[fate EXCEPT ![r] = "rejected"], [fate EXCEPT ![r] = "failed"]}
    /\ \/ funds[r] = "held" /\ funds' = [funds EXCEPT ![r] = "returned"]
       \/ UNCHANGED funds
    /\ excused' \in {excused, excused \union {r}}

Return(r) ==
    /\ funds[r] = "held"
    /\ funds' = [funds EXCEPT ![r] = "returned"]
    /\ UNCHANGED <<fate, excused>>

Excuse(r) ==
    /\ fate[r] # "answered"
    /\ excused' = excused \union {r}
    /\ UNCHANGED <<fate, funds>>

Next == \E r \in Request : \/ Accept(r) \/ Hold(r) \/ Progress(r) \/ Answer(r)
                           \/ Decline(r) \/ Return(r) \/ Excuse(r)

Spec == Init /\ [][Next]_vars
=============================================================================
