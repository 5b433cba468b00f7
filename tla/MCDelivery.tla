----------------------------- MODULE MCDelivery -----------------------------
(* Small instances of Delivery.                                            *)
EXTENDS Delivery, TLC

CONSTANTS j1, j2, w1, w2, p1, p2, c1

Html == [format |-> "html", children |-> {}]
RichWith(children) == [format |-> "rich", children |-> children]

TwoProcesses == (w1 :> p1 @@ w2 :> p2)

\* A Rich part with two HTML children, then a Rich row from before the children.
RichPlan == (j1 :> <<RichWith({2, 3}), Html, Html, RichWith({})>>)
OneChat == (j1 :> c1)
First == (j1 :> 1)

\* Two answers of one chat, of one HTML message each.
PairPlan == (j1 :> <<Html>> @@ j2 :> <<Html>>)
SameChat == (j1 :> c1 @@ j2 :> c1)
FirstSecond == (j1 :> 1 @@ j2 :> 2)
=============================================================================
