---------------------------- MODULE AnswerOutbox ----------------------------
(***************************************************************************)
(* What the outbox promises about a stored answer, without tasks, leases   *)
(* or retries: its parts are posted in order, each at most once, a Rich    *)
(* part or the HTML parts that replace it but never both; it ends done,    *)
(* with the whole answer in the chat, or failed, once and for all.         *)
(***************************************************************************)
EXTENDS Naturals, Sequences

CONSTANTS
    Job,    \* stored answers
    Plan    \* the parts of each: format and, for a Rich part, its HTML children

VARIABLES
    copies,     \* how often each part has been posted
    outcome     \* "open", "done" or "failed"

vars == <<copies, outcome>>

Index(j) == 1 .. Len(Plan[j])

Init ==
    /\ copies = [j \in Job |-> [p \in Index(j) |-> 0]]
    /\ outcome = [j \in Job |-> "open"]

Posted(j, p) == copies[j][p] > 0

Parents(j, p) == {q \in Index(j) : p \in Plan[j][q].children}

\* Nothing is missing at p: it was posted, or the Rich part it stands in for
\* was, or it is a Rich part, whose children answer for themselves.
Covered(j, p) ==
    \/ Posted(j, p)
    \/ \E q \in Parents(j, p) : Posted(j, q)
    \/ Plan[j][p].children # {}

\* The last choice needs the children, unless Telegram has yet to see them.
Replaced(j, p, upto) ==
    Posted(j, p) \/ \A q \in Plan[j][p].children : q < upto => Posted(j, q)

Whole(j, upto) ==
    \A p \in Index(j) : p < upto => Covered(j, p) /\ Replaced(j, p, upto)

Post(j, p) ==
    /\ outcome[j] # "done"
    /\ ~Posted(j, p)
    /\ \A q \in Parents(j, p) \union Plan[j][p].children : ~Posted(j, q)
    /\ Whole(j, p)
    /\ copies' = [copies EXCEPT ![j][p] = @ + 1]
    /\ UNCHANGED outcome

Succeed(j) ==
    /\ outcome[j] = "open"
    /\ Whole(j, Len(Plan[j]) + 1)
    /\ outcome' = [outcome EXCEPT ![j] = "done"]
    /\ UNCHANGED copies

\* A request still on its way may be posted after the job was given up.
GiveUp(j) ==
    /\ outcome[j] = "open"
    /\ outcome' = [outcome EXCEPT ![j] = "failed"]
    /\ UNCHANGED copies

Next == \E j \in Job : Succeed(j) \/ GiveUp(j) \/ \E p \in Index(j) : Post(j, p)

Spec == Init /\ [][Next]_vars
=============================================================================
