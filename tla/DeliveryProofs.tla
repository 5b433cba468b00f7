--------------------------- MODULE DeliveryProofs ---------------------------
(***************************************************************************)
(* Proofs about Delivery, for any number of jobs, tasks, processes,        *)
(* attempts and faults: its types; no part of an answer is posted twice    *)
(* (SendInv); claims, and the order of the answers of a chat (ClaimInv,    *)
(* ChatInv); the outbox keeps the promise of AnswerOutbox (OutboxInv).     *)
(***************************************************************************)
EXTENDS Delivery, TLAPS

-----------------------------------------------------------------------------
(* What the actions build: plans, rows and the local state of tasks.       *)

LEMMA PlanFacts ==
  ASSUME NEW j \in Job
  PROVE  /\ Len(Plan[j]) \in Nat
         /\ Index(j) \subseteq Slot
         /\ \A p \in Index(j) : Plan[j][p].format \in Format
<1>1. Plan[j] \in Seq(PlanRow) /\ Len(Plan[j]) <= MaxParts /\ MaxParts \in Nat
  BY PlanAssumption
<1>2. \A p \in 1 .. Len(Plan[j]) : Plan[j][p] \in PlanRow
  BY <1>1
<1>3. \A p \in 1 .. Len(Plan[j]) : Plan[j][p].format \in Format
  BY <1>2 DEF PlanRow
<1> QED
  BY <1>1, <1>3 DEF Index, Slot

LEMMA NoRowsType == NoRows \in [Slot -> PartRow]
BY DEF NoRows, PartRow, PartState, Format

LEMMA PlanRowsType ==
  ASSUME NEW j \in Job
  PROVE  persistent_rows(j) \in [Slot -> PartRow]
<1>1. ASSUME NEW p \in Slot, p \in Index(j), NEW s \in {"standby", "pending"}
      PROVE  [state |-> s, format |-> Plan[j][p].format] \in PartRow
  BY <1>1, PlanFacts DEF PartRow, PartState
<1> QED
  BY <1>1, NoRowsType DEF persistent_rows

LEMMA IdleType == Idle \in Task
BY NoRowsType DEF Idle, Task, Phase, Reply

LEMMA ClaimingType ==
  ASSUME NEW j \in Job
  PROVE  [Idle EXCEPT !.pc = "claiming", !.job = j] \in Task
BY NoRowsType DEF Idle, Task, Phase, Reply

\* A task outside the loop needs a job and a ticket only.
LEMMA LeaveType ==
  ASSUME NEW t \in Task, t.pc # "idle", NEW pc \in Phase, pc # "waiting"
  PROVE  [Idle EXCEPT !.pc = pc, !.job = t.job, !.ticket = t.ticket] \in Task
BY NoRowsType DEF Idle, Task, Reply

LEMMA NotifyType ==
  ASSUME NEW t \in Task, t.pc # "idle"
  PROVE  [t EXCEPT !.pc = "notify"] \in Task
BY DEF Task, Phase

LEMMA OpenType ==
  ASSUME NEW t \in Task, t.pc # "idle", NEW n \in Nat
  PROVE  [t EXCEPT !.pc = "open", !.ticket = n] \in Task
BY DEF Task, Phase

LEMMA LoopType ==
  ASSUME NEW t \in Task, t.pc # "idle", NEW rows \in [Slot -> PartRow], NEW n \in Nat
  PROVE  /\ [t EXCEPT !.pc = "loop", !.at = n, !.snap = rows] \in Task
         /\ [t EXCEPT !.pc = "loop", !.snap = rows] \in Task
BY DEF Task, Phase

LEMMA SkipType ==
  ASSUME NEW t \in Task, t.pc = "loop"
  PROVE  [t EXCEPT !.at = @ + 1] \in Task
BY DEF Task, Phase

LEMMA WaitingType ==
  ASSUME NEW t \in Task, t.pc # "idle", t.at \in Index(t.job), NEW reply \in BOOLEAN
  PROVE  [t EXCEPT !.pc = "waiting", !.reply = "none", !.replying = reply] \in Task
BY DEF Task, Phase, Reply

LEMMA ReplyType ==
  ASSUME NEW t \in Task, NEW reply \in Reply
  PROVE  /\ [t EXCEPT !.reply = reply] \in Task
         /\ [t EXCEPT !.reply = reply, !.replying = FALSE] \in Task
BY DEF Task

LEMMA SentType ==
  ASSUME NEW t \in Task, t.pc = "waiting"
  PROVE  [t EXCEPT !.pc = "loop", !.at = t.at + 1,
                   !.snap = [t.snap EXCEPT ![t.at].state = "sent"]] \in Task
<1> DEFINE rows == [t.snap EXCEPT ![t.at].state = "sent"]
<1>1. t.snap \in [Slot -> PartRow] /\ t.at + 1 \in Nat
  BY DEF Task
<1>2. rows \in [Slot -> PartRow]
  BY <1>1 DEF PartRow, PartState
<1>3. t.pc # "idle"
  OBVIOUS
<1> HIDE DEF rows
<1>4. [t EXCEPT !.pc = "loop", !.at = t.at + 1, !.snap = rows] \in Task
  BY <1>1, <1>2, <1>3, LoopType
<1> QED
  BY <1>4 DEF rows

LEMMA RowType ==
  ASSUME NEW r \in Row, NEW s \in Status, NEW b \in BOOLEAN, NEW n \in Nat
  PROVE  /\ [r EXCEPT !.status = s] \in Row
         /\ [r EXCEPT !.fresh = b] \in Row
         /\ [r EXCEPT !.due = b] \in Row
         /\ [r EXCEPT !.status = s, !.attempts = n, !.lease = n, !.fresh = TRUE] \in Row
         /\ [r EXCEPT !.status = s, !.lease = 0, !.fresh = FALSE] \in Row
         /\ [r EXCEPT !.status = s, !.lease = 0, !.fresh = FALSE, !.due = b] \in Row
BY DEF Row

\* How the actions change the local state of one task.
LEMMA TaskStep ==
  ASSUME worker \in [Worker -> Task], NEW w \in Worker, NEW t \in Task,
         worker' = [worker EXCEPT ![w] = t]
  PROVE  worker' \in [Worker -> Task]
OBVIOUS

LEMMA LeaveStep ==
  ASSUME worker \in [Worker -> Task], NEW w \in Worker, worker[w].pc # "idle",
         NEW pc \in Phase, pc # "waiting", Leave(w, pc)
  PROVE  worker' \in [Worker -> Task]
<1>1. worker[w] \in Task
  OBVIOUS
<1> QED
  BY <1>1, LeaveType, TaskStep DEF Leave

LEMMA AnswerStep ==
  ASSUME worker \in [Worker -> Task], NEW r, NEW reply \in Reply, Answer(r, reply)
  PROVE  worker' \in [Worker -> Task]
<1>1. \A w \in Worker : [worker[w] EXCEPT !.reply = reply] \in Task
  BY ReplyType
<1> QED
  BY <1>1 DEF Answer

\* How they change the rows of a plan.
LEMMA PartRowType ==
  ASSUME NEW r \in PartRow, NEW s \in PartState
  PROVE  [r EXCEPT !.state = s] \in PartRow
BY DEF PartRow

LEMMA SetStateStep ==
  ASSUME part \in [Job -> [Slot -> PartRow]], NEW j \in Job, NEW p \in Slot,
         NEW s \in PartState, SetState(j, p, s)
  PROVE  part' \in [Job -> [Slot -> PartRow]]
<1> DEFINE r == [part[j][p] EXCEPT !.state = s]
<1>1. part' = [part EXCEPT ![j] = [part[j] EXCEPT ![p] = r]]
  BY DEF SetState
<1>2. r \in PartRow
  BY PartRowType
<1> HIDE DEF r
<1> QED
  BY <1>1, <1>2

LEMMA PutRowStep ==
  ASSUME part \in [Job -> [Slot -> PartRow]], NEW j \in Job, NEW p \in Slot,
         NEW r \in PartRow, part' = [part EXCEPT ![j][p] = r]
  PROVE  part' \in [Job -> [Slot -> PartRow]]
<1>1. part' = [part EXCEPT ![j] = [part[j] EXCEPT ![p] = r]]
  OBVIOUS
<1> QED
  BY <1>1

-----------------------------------------------------------------------------
(* Types.                                                                  *)

\* A step keeps the type of every variable.
LEMMA TypeStep == TypeOK /\ [Next]_vars => TypeOK'
<1> SUFFICES ASSUME TypeOK, [Next]_vars PROVE TypeOK'
  OBVIOUS
<1> USE JobAssumption, BoundAssumption
<1>1. ASSUME NEW j \in Job, Enqueue(j) PROVE TypeOK'
  <2>1. row' \in [Job -> Row]
    BY <1>1, RowType DEF TypeOK, Enqueue, Status
  <2> QED
    BY <1>1, <2>1 DEF TypeOK, Enqueue
<1>2. ASSUME NEW j \in Job, LeaseExpires(j) PROVE TypeOK'
  <2>1. row' \in [Job -> Row]
    BY <1>2, RowType DEF TypeOK, LeaseExpires, Status
  <2> QED
    BY <1>2, <2>1 DEF TypeOK, LeaseExpires
<1>3. ASSUME NEW j \in Job, Stall(j) PROVE TypeOK'
  <2>1. row' \in [Job -> Row]
    BY <1>3, RowType DEF TypeOK, Stall, Status
  <2> QED
    BY <1>3, <2>1 DEF TypeOK, Stall, Fault
<1>4. ASSUME NEW j \in Job, BackoffElapses(j) PROVE TypeOK'
  <2>1. row' \in [Job -> Row]
    BY <1>4, RowType DEF TypeOK, BackoffElapses, Status
  <2> QED
    BY <1>4, <2>1 DEF TypeOK, BackoffElapses
<1>5. ASSUME NEW w \in Worker, NEW j \in Job, ClaimSelect(w, j) PROVE TypeOK'
  <2>1. worker' \in [Worker -> Task]
    BY <1>5, ClaimingType, TaskStep DEF TypeOK, ClaimSelect
  <2> QED
    BY <1>5, <2>1 DEF TypeOK, ClaimSelect
<1>6. ASSUME NEW w \in Worker, ClaimCommit(w) PROVE TypeOK'
  <2>1. worker[w] \in Task /\ worker[w].job \in Job
    BY <1>6 DEF TypeOK, ClaimCommit, Task
  <2>2. row[worker[w].job].attempts + 1 \in Nat
    BY <1>6, <2>1 DEF TypeOK, Row
  <2>3. worker' \in [Worker -> Task]
    BY <1>6, <2>1, <2>2, OpenType DEF TypeOK, ClaimCommit
  <2>4. row' \in [Job -> Row]
    BY <1>6, <2>1, <2>2, RowType DEF TypeOK, ClaimCommit, Status
  <2> QED
    BY <1>6, <2>1, <2>2, <2>3, <2>4 DEF TypeOK, ClaimCommit
<1>7. ASSUME NEW w \in Worker, ClaimFails(w) PROVE TypeOK'
  <2>1. worker' \in [Worker -> Task]
    BY <1>7, IdleType DEF TypeOK, ClaimFails
  <2> QED
    BY <1>7, <2>1 DEF TypeOK, ClaimFails, Fault
<1>8. ASSUME NEW w \in Worker, OpenLost(w) PROVE TypeOK'
  <2>1. worker' \in [Worker -> Task]
    BY <1>8, LeaveStep DEF TypeOK, OpenLost, Phase
  <2> QED
    BY <1>8, <2>1 DEF TypeOK, OpenLost
<1>9. ASSUME NEW w \in Worker, OpenLegacy(w) PROVE TypeOK'
  <2>1. worker' \in [Worker -> Task]
    BY <1>9, LeaveStep DEF TypeOK, OpenLegacy, Phase
  <2> QED
    BY <1>9, <2>1 DEF TypeOK, OpenLegacy
<1>10. ASSUME NEW w \in Worker, StopAtAmbiguous(w) PROVE TypeOK'
  <2>1. worker' \in [Worker -> Task]
    BY <1>10, LeaveStep DEF TypeOK, StopAtAmbiguous, At, Phase
  <2> QED
    BY <1>10, <2>1 DEF TypeOK, StopAtAmbiguous
<1>11. ASSUME NEW w \in Worker, MarkLost(w) PROVE TypeOK'
  <2>1. worker' \in [Worker -> Task]
    BY <1>11, LeaveStep DEF TypeOK, MarkLost, At, Phase
  <2> QED
    BY <1>11, <2>1 DEF TypeOK, MarkLost
<1>12. ASSUME NEW w \in Worker, PartsFinished(w) PROVE TypeOK'
  <2>1. worker' \in [Worker -> Task]
    BY <1>12, LeaveStep DEF TypeOK, PartsFinished, Phase
  <2> QED
    BY <1>12, <2>1 DEF TypeOK, PartsFinished
<1>13. ASSUME NEW w \in Worker, OutcomeLost(w) PROVE TypeOK'
  <2>1. worker' \in [Worker -> Task]
    BY <1>13, LeaveStep DEF TypeOK, OutcomeLost, Replied, Phase
  <2> QED
    BY <1>13, <2>1 DEF TypeOK, OutcomeLost
<1>14. ASSUME NEW w \in Worker, Announce(w) PROVE TypeOK'
  <2>1. worker' \in [Worker -> Task]
    BY <1>14, LeaveStep DEF TypeOK, Announce, Phase
  <2> QED
    BY <1>14, <2>1 DEF TypeOK, Announce
<1>15. ASSUME NEW w \in Worker, Open(w) PROVE TypeOK'
  <2>1. worker[w] \in Task /\ worker[w].job \in Job
    BY <1>15 DEF TypeOK, Open, Task
  <2>2. part' \in [Job -> [Slot -> PartRow]]
    BY <1>15, <2>1, PlanRowsType DEF TypeOK, Open
  <2>3. part'[worker[w].job] \in [Slot -> PartRow]
    BY <1>15, <2>1, <2>2 DEF TypeOK
  <2>4. worker' \in [Worker -> Task]
    BY <1>15, <2>1, <2>3, LoopType, TaskStep DEF TypeOK, Open
  <2> QED
    BY <1>15, <2>1, <2>2, <2>3, <2>4 DEF TypeOK, Open
<1>16. ASSUME NEW w \in Worker, SkipPart(w) PROVE TypeOK'
  <2>1. worker' \in [Worker -> Task]
    BY <1>16, SkipType DEF TypeOK, SkipPart, At
  <2> QED
    BY <1>16, <2>1 DEF TypeOK, SkipPart
<1>17. ASSUME NEW w \in Worker, MarkSending(w) PROVE TypeOK'
  <2>1. worker[w] \in Task /\ worker[w].job \in Job
    BY <1>17 DEF TypeOK, MarkSending, At, Task
  <2>2. worker[w].at \in Index(worker[w].job) /\ worker[w].at \in Slot
    BY <1>17, <2>1, PlanFacts DEF TypeOK, MarkSending, At
  <2>3. part' \in [Job -> [Slot -> PartRow]]
    BY <1>17, <2>1, <2>2, SetStateStep DEF TypeOK, MarkSending, PartState
  <2>4. worker' \in [Worker -> Task]
    BY <1>17, <2>1, <2>2, WaitingType DEF TypeOK, MarkSending, At, FirstMessage
  <2>5. net' \subseteq SendRequest
    BY <1>17, <2>1, <2>2 DEF TypeOK, MarkSending, Request, SendRequest, Task
  <2> QED
    BY <1>17, <2>1, <2>2, <2>3, <2>4, <2>5 DEF TypeOK, MarkSending
<1>18. ASSUME NEW r \in net, TelegramAccept(r) PROVE TypeOK'
  <2>1. \A reply \in Reply : Answer(r, reply) => worker' \in [Worker -> Task]
    BY <1>18, AnswerStep DEF TypeOK
  <2>2. worker' \in [Worker -> Task]
    BY <1>18, <2>1 DEF TypeOK, TelegramAccept, Reply
  <2>3. r.job \in Job /\ r.part \in Slot
    BY <1>18 DEF TypeOK, SendRequest
  <2>4. copies' \in [Job -> [Slot -> Nat]]
    BY <1>18, <2>3 DEF TypeOK, TelegramAccept
  <2> QED
    BY <1>18, <2>1, <2>2, <2>3, <2>4 DEF TypeOK, TelegramAccept
<1>19. ASSUME NEW r \in net, TelegramReject(r) PROVE TypeOK'
  <2>1. \A reply \in Reply : Answer(r, reply) => worker' \in [Worker -> Task]
    BY <1>19, AnswerStep DEF TypeOK
  <2>2. worker' \in [Worker -> Task]
    BY <1>19, <2>1 DEF TypeOK, TelegramReject, Reply
  <2> QED
    BY <1>19, <2>1, <2>2 DEF TypeOK, TelegramReject
<1>20. ASSUME NEW w \in Worker, RetryWithoutReply(w) PROVE TypeOK'
  <2>1. worker[w] \in Task /\ worker[w].job \in Job
    BY <1>20 DEF TypeOK, RetryWithoutReply, Replied, Task
  <2>2. worker[w].at \in Index(worker[w].job) /\ worker[w].at \in Slot
    BY <1>20, <2>1, PlanFacts DEF TypeOK, RetryWithoutReply, Replied, Task
  <2>3. worker' \in [Worker -> Task]
    BY <1>20, <2>1, ReplyType DEF TypeOK, RetryWithoutReply, Reply
  <2>4. net' \subseteq SendRequest
    BY <1>20, <2>1, <2>2 DEF TypeOK, RetryWithoutReply, Request, SendRequest, Task
  <2> QED
    BY <1>20, <2>1, <2>2, <2>3, <2>4 DEF TypeOK, RetryWithoutReply
<1>21. ASSUME NEW w \in Worker, RecordSent(w) PROVE TypeOK'
  <2>1. worker[w] \in Task /\ worker[w].job \in Job /\ worker[w].pc # "idle"
    BY <1>21 DEF TypeOK, RecordSent, Replied, Task
  <2>2. worker[w].at \in Slot
    BY <1>21, <2>1, PlanFacts DEF TypeOK, RecordSent, Replied, Task
  <2>3. part' \in [Job -> [Slot -> PartRow]]
    BY <1>21, <2>1, <2>2, SetStateStep DEF TypeOK, RecordSent, PartState
  <2>4. worker' \in [Worker -> Task]
    BY <1>21, <2>1, SentType, TaskStep DEF TypeOK, RecordSent, Replied
  <2> QED
    BY <1>21, <2>1, <2>2, <2>3, <2>4 DEF TypeOK, RecordSent
<1>22. ASSUME NEW w \in Worker, Fallback(w) PROVE TypeOK'
  <2>1. worker[w] \in Task /\ worker[w].job \in Job /\ worker[w].pc # "idle"
    BY <1>22 DEF TypeOK, Fallback, Replied, Task
  <2>2. worker[w].at \in Slot
    BY <1>22, <2>1, PlanFacts DEF TypeOK, Fallback, Replied, Task
  <2>3. \A q \in Slot : \A s \in PartState : [part[worker[w].job][q] EXCEPT !.state = s] \in PartRow
    BY <1>22, <2>1, PartRowType DEF TypeOK
  <2>4. part' \in [Job -> [Slot -> PartRow]]
    BY <1>22, <2>1, <2>3 DEF TypeOK, Fallback, PartState
  <2>5. part'[worker[w].job] \in [Slot -> PartRow]
    BY <1>22, <2>1, <2>4 DEF TypeOK
  <2>6. worker' \in [Worker -> Task]
    BY <1>22, <2>1, <2>5, LoopType, TaskStep DEF TypeOK, Fallback
  <2> QED
    BY <1>22, <2>1, <2>2, <2>3, <2>4, <2>5, <2>6 DEF TypeOK, Fallback
<1>23. ASSUME NEW w \in Worker, LegacyFallback(w) PROVE TypeOK'
  <2>1. worker[w] \in Task /\ worker[w].job \in Job /\ worker[w].pc # "idle"
    BY <1>23 DEF TypeOK, LegacyFallback, Replied, Task
  <2>2. worker[w].at \in Slot
    BY <1>23, <2>1, PlanFacts DEF TypeOK, LegacyFallback, Replied, Task
  <2>3. [state |-> "pending", format |-> "html"] \in PartRow
    BY <1>23 DEF TypeOK, PartRow, PartState, Format
  <2>4. part' = part \/ part' = [part EXCEPT ![worker[w].job][worker[w].at] =
                    [state |-> "pending", format |-> "html"]]
    BY <1>23 DEF TypeOK, LegacyFallback
  <2>5. part' \in [Job -> [Slot -> PartRow]]
    BY <1>23, <2>1, <2>2, <2>3, <2>4, PutRowStep DEF TypeOK
  <2>6. part'[worker[w].job] \in [Slot -> PartRow]
    BY <1>23, <2>1, <2>5 DEF TypeOK
  <2>7. worker' \in [Worker -> Task]
    BY <1>23, <2>1, <2>6, LoopType, LeaveStep, TaskStep DEF TypeOK, LegacyFallback, Phase
  <2> QED
    BY <1>23, <2>1, <2>2, <2>3, <2>4, <2>5, <2>6, <2>7 DEF TypeOK, LegacyFallback
<1>24. ASSUME NEW w \in Worker, RejectPart(w) PROVE TypeOK'
  <2>1. worker[w] \in Task /\ worker[w].job \in Job /\ worker[w].pc # "idle"
    BY <1>24 DEF TypeOK, RejectPart, Replied, Task
  <2>2. worker[w].at \in Slot
    BY <1>24, <2>1, PlanFacts DEF TypeOK, RejectPart, Replied, Task
  <2>3. part' \in [Job -> [Slot -> PartRow]]
    BY <1>24, <2>1, <2>2, SetStateStep DEF TypeOK, RejectPart, PartState
  <2>4. worker' \in [Worker -> Task]
    BY <1>24, <2>1, LeaveStep DEF TypeOK, RejectPart, Phase
  <2> QED
    BY <1>24, <2>1, <2>2, <2>3, <2>4 DEF TypeOK, RejectPart
<1>25. ASSUME NEW w \in Worker, AmbiguousPart(w) PROVE TypeOK'
  <2>1. worker[w] \in Task /\ worker[w].job \in Job /\ worker[w].pc # "idle"
    BY <1>25 DEF TypeOK, AmbiguousPart, Replied, Task
  <2>2. worker[w].at \in Slot
    BY <1>25, <2>1, PlanFacts DEF TypeOK, AmbiguousPart, Replied, Task
  <2>3. part' \in [Job -> [Slot -> PartRow]]
    BY <1>25, <2>1, <2>2, SetStateStep DEF TypeOK, AmbiguousPart, PartState
  <2>4. worker' \in [Worker -> Task]
    BY <1>25, <2>1, LeaveStep DEF TypeOK, AmbiguousPart, Phase
  <2> QED
    BY <1>25, <2>1, <2>2, <2>3, <2>4 DEF TypeOK, AmbiguousPart
<1>26. ASSUME NEW w \in Worker, HandlerError(w) PROVE TypeOK'
  <2>1. worker' \in [Worker -> Task]
    BY <1>26, LeaveStep DEF TypeOK, HandlerError, Phase
  <2> QED
    BY <1>26, <2>1 DEF TypeOK, HandlerError, Fault
<1>27. ASSUME NEW w \in Worker, complete_delivery_job(w) PROVE TypeOK'
  <2>1. worker[w].job \in Job
    BY <1>27 DEF TypeOK, complete_delivery_job, Task
  <2>2. row' \in [Job -> Row]
    BY <1>27, <2>1, RowType DEF TypeOK, complete_delivery_job, Status
  <2>3. worker' \in [Worker -> Task]
    BY <1>27, IdleType DEF TypeOK, complete_delivery_job
  <2> QED
    BY <1>27, <2>1, <2>2, <2>3 DEF TypeOK, complete_delivery_job
<1>28. ASSUME NEW w \in Worker, fail_delivery_job(w) PROVE TypeOK'
  <2>1. worker[w] \in Task /\ worker[w].job \in Job /\ worker[w].pc # "idle"
    BY <1>28 DEF TypeOK, fail_delivery_job, Task
  <2>2. row' \in [Job -> Row]
    BY <1>28, <2>1, RowType DEF TypeOK, fail_delivery_job, Status, Retry
  <2>3. worker' \in [Worker -> Task]
    BY <1>28, <2>1, IdleType, NotifyType DEF TypeOK, fail_delivery_job
  <2> QED
    BY <1>28, <2>1, <2>2, <2>3 DEF TypeOK, fail_delivery_job
<1>29. ASSUME NEW w \in Worker, on_delivery_failed(w) PROVE TypeOK'
  <2>1. worker[w].job \in Job
    BY <1>29 DEF TypeOK, on_delivery_failed, Task
  <2>2. worker' \in [Worker -> Task]
    BY <1>29, IdleType DEF TypeOK, on_delivery_failed
  <2> QED
    BY <1>29, <2>1, <2>2 DEF TypeOK, on_delivery_failed
<1>30. ASSUME NEW w \in Worker, QueueHalts(w) PROVE TypeOK'
  <2>1. worker' \in [Worker -> Task]
    BY <1>30, IdleType DEF TypeOK, QueueHalts
  <2> QED
    BY <1>30, <2>1, ProcessAssumption DEF TypeOK, QueueHalts, Fault
<1>31. ASSUME NEW w \in Worker, heartbeat_delivery_job(w) PROVE TypeOK'
  <2>1. worker[w].job \in Job /\ row[worker[w].job] \in Row
    BY <1>31 DEF TypeOK, heartbeat_delivery_job, Holding, Task
  <2>2. [row[worker[w].job] EXCEPT !.fresh = TRUE] \in Row
    BY <1>31, <2>1, RowType DEF TypeOK, Status
  <2>3. row' \in [Job -> Row]
    BY <1>31, <2>1, <2>2 DEF TypeOK, heartbeat_delivery_job
  <2> QED
    BY <1>31, <2>1, <2>2, <2>3 DEF TypeOK, heartbeat_delivery_job
<1>32. ASSUME NEW w \in Worker, HeartbeatCancels(w) PROVE TypeOK'
  <2>1. worker' \in [Worker -> Task]
    BY <1>32, IdleType DEF TypeOK, HeartbeatCancels
  <2> QED
    BY <1>32, <2>1 DEF TypeOK, HeartbeatCancels
<1>33. ASSUME NEW w \in Worker, HeartbeatFails(w) PROVE TypeOK'
  <2>1. worker' \in [Worker -> Task]
    BY <1>33, IdleType DEF TypeOK, HeartbeatFails
  <2> QED
    BY <1>33, <2>1 DEF TypeOK, HeartbeatFails, Fault
<1>34. ASSUME NEW p \in Process, Crash(p) PROVE TypeOK'
  <2>1. worker' \in [Worker -> Task]
    BY <1>34, IdleType DEF TypeOK, Crash
  <2> QED
    BY <1>34, <2>1 DEF TypeOK, Crash, Fault
<1>35. ASSUME NEW p \in Process, Restart(p) PROVE TypeOK'
  BY <1>35 DEF TypeOK, Restart
<1>36. CASE UNCHANGED vars
  BY <1>36 DEF TypeOK, vars
<1> QED
  BY <1>1, <1>2, <1>3, <1>4, <1>5, <1>6, <1>7, <1>8, <1>9, <1>10, <1>11, <1>12,
     <1>13, <1>14, <1>15, <1>16, <1>17, <1>18, <1>19, <1>20, <1>21, <1>22, <1>23, <1>24,
     <1>25, <1>26, <1>27, <1>28, <1>29, <1>30, <1>31, <1>32, <1>33, <1>34, <1>35, <1>36
  DEF Next, Claim, Deliver, Finish, Heartbeat, Misfortune

-----------------------------------------------------------------------------
(* Steps that touch neither the parts, nor the network, nor the chat, and  *)
(* bring no task into the loop: they keep every part of SendInv.           *)

RowsKept ==
    \A j \in Job :
        /\ row'[j].attempts = row[j].attempts
        /\ row'[j].lease \in {row[j].lease, 0}
        /\ row'[j].status = "processing" =>
              row[j].status = "processing" /\ row'[j].lease = row[j].lease

TicketsKept ==
    \A w \in Worker : worker'[w].pc \in Holding =>
        /\ worker[w].pc \in Holding
        /\ worker'[w].job = worker[w].job /\ worker'[w].ticket = worker[w].ticket

LoopsKept == \A w \in Worker : worker'[w].pc \in Looping => worker'[w] = worker[w]

LEMMA LeaseFrame ==
  ASSUME TypeOK, LeaseInv, RowsKept, TicketsKept
  PROVE  LeaseInv'
<1>1. \A j \in Job : row[j].attempts \in Nat /\ row[j].lease \in Nat
  BY DEF TypeOK, Row
<1>2. \A w \in Worker : worker[w].pc \in Holding => worker[w].job \in Job
  BY DEF TypeOK, Task, Holding
<1>3. \A j \in Job : row'[j].lease <= row'[j].attempts
  BY <1>1 DEF LeaseInv, RowsKept
<1>4. ASSUME NEW w \in Worker, worker'[w].pc \in Holding
      PROVE  worker'[w].ticket <= row'[worker'[w].job].attempts
  BY <1>2, <1>4 DEF LeaseInv, RowsKept, TicketsKept
<1>5. ASSUME NEW v \in Worker, NEW w \in Worker,
             worker'[v].pc \in Holding, worker'[w].pc \in Holding,
             worker'[v].job = worker'[w].job, worker'[v].ticket = worker'[w].ticket
      PROVE  v = w
  BY <1>5 DEF LeaseInv, TicketsKept
<1> QED
  BY <1>3, <1>4, <1>5 DEF LeaseInv

LEMMA LocalStep ==
  ASSUME TypeOK, SendInv, RowsKept, TicketsKept, LoopsKept, UNCHANGED <<part, net, copies>>
  PROVE  LeaseInv' /\ SenderInv' /\ RequestInv' /\ PostedInv' /\ SnapshotInv'
<1>1. LeaseInv'
  BY LeaseFrame DEF SendInv
<1>2. SenderInv'
  BY DEF SendInv, SenderInv, LoopsKept, Waiting, SamePart, OnItsWay, Looping
<1>3. RequestInv'
  BY DEF SendInv, RequestInv
<1>4. PostedInv'
  BY DEF SendInv, PostedInv
<1>5. SnapshotInv'
  <2> SUFFICES ASSUME NEW w \in Worker, worker'[w].pc \in Looping, delivery_is_owned(w)',
                      NEW p \in Slot,
                      p > worker'[w].at \/ (p = worker'[w].at /\ worker'[w].pc = "loop"),
                      worker'[w].snap[p].state = "pending"
               PROVE  part'[worker'[w].job][p].state = "pending"
    BY DEF SnapshotInv
  <2>1. worker'[w] = worker[w] /\ worker[w].job \in Job
    BY DEF LoopsKept, TypeOK, Task, Looping
  <2>2. delivery_is_owned(w)
    BY <2>1 DEF delivery_is_owned, RowsKept
  <2> QED
    BY <2>1, <2>2 DEF SendInv, SnapshotInv
<1> QED
  BY <1>1, <1>2, <1>3, <1>4, <1>5

Local == RowsKept /\ TicketsKept /\ LoopsKept /\ UNCHANGED <<part, net, copies>>

\* The actions that are such steps.
LEMMA LocalActions ==
  ASSUME TypeOK,
         \/ \E j \in Job : Enqueue(j) \/ LeaseExpires(j) \/ Stall(j) \/ BackoffElapses(j)
         \/ \E w \in Worker :
              \/ \E j \in Job : ClaimSelect(w, j)
              \/ ClaimFails(w) \/ OpenLost(w) \/ OpenLegacy(w) \/ StopAtAmbiguous(w)
              \/ MarkLost(w) \/ PartsFinished(w) \/ OutcomeLost(w) \/ Announce(w)
              \/ HandlerError(w) \/ QueueHalts(w) \/ Finish(w) \/ Heartbeat(w)
              \/ HeartbeatFails(w)
         \/ \E p \in Process : Crash(p) \/ Restart(p)
         \/ UNCHANGED vars
  PROVE  Local
<1>a. row \in [Job -> Row] /\ worker \in [Worker -> Task]
  BY DEF TypeOK
<1>b. \A w \in Worker : worker[w].pc = "idle" \/ worker[w].job \in Job
  BY <1>a DEF Task
<1> USE <1>a, <1>b DEF RowsKept, TicketsKept, LoopsKept, Holding, Looping, Row
<1>1. ASSUME NEW j \in Job, Enqueue(j) PROVE Local
  BY <1>1 DEF Local, Enqueue
<1>2. ASSUME NEW j \in Job, LeaseExpires(j) PROVE Local
  BY <1>2 DEF Local, LeaseExpires
<1>3. ASSUME NEW j \in Job, Stall(j) PROVE Local
  BY <1>3 DEF Local, Stall
<1>4. ASSUME NEW j \in Job, BackoffElapses(j) PROVE Local
  BY <1>4 DEF Local, BackoffElapses
<1>5. ASSUME NEW w \in Worker, NEW j \in Job, ClaimSelect(w, j) PROVE Local
  BY <1>5 DEF Local, ClaimSelect, Idle
<1>6. ASSUME NEW w \in Worker, ClaimFails(w) PROVE Local
  BY <1>6 DEF Local, ClaimFails, Idle
<1>7. ASSUME NEW w \in Worker, HeartbeatCancels(w) PROVE Local
  BY <1>7 DEF Local, HeartbeatCancels, Idle
<1>8. ASSUME NEW w \in Worker, HeartbeatFails(w) PROVE Local
  BY <1>8 DEF Local, HeartbeatFails, Idle
<1>9. ASSUME NEW w \in Worker, on_delivery_failed(w) PROVE Local
  BY <1>9 DEF Local, on_delivery_failed, Idle
<1>10. ASSUME NEW w \in Worker, QueueHalts(w) PROVE Local
  BY <1>10 DEF Local, QueueHalts, Idle
<1>11. ASSUME NEW p \in Process, Crash(p) PROVE Local
  BY <1>11 DEF Local, Crash, Idle
<1>12. ASSUME NEW p \in Process, Restart(p) PROVE Local
  BY <1>12 DEF Local, Restart
<1>13. ASSUME NEW w \in Worker, OpenLost(w) PROVE Local
  BY <1>13 DEF Local, OpenLost, Leave, Idle
<1>14. ASSUME NEW w \in Worker, OpenLegacy(w) PROVE Local
  BY <1>14 DEF Local, OpenLegacy, Leave, Idle
<1>15. ASSUME NEW w \in Worker, StopAtAmbiguous(w) PROVE Local
  BY <1>15 DEF Local, StopAtAmbiguous, Leave, Idle, At
<1>16. ASSUME NEW w \in Worker, MarkLost(w) PROVE Local
  BY <1>16 DEF Local, MarkLost, Leave, Idle, At
<1>17. ASSUME NEW w \in Worker, PartsFinished(w) PROVE Local
  BY <1>17 DEF Local, PartsFinished, Leave, Idle
<1>18. ASSUME NEW w \in Worker, OutcomeLost(w) PROVE Local
  BY <1>18 DEF Local, OutcomeLost, Leave, Idle, Replied
<1>19. ASSUME NEW w \in Worker, Announce(w) PROVE Local
  BY <1>19 DEF Local, Announce, Leave, Idle
<1>20. ASSUME NEW w \in Worker, HandlerError(w) PROVE Local
  BY <1>20 DEF Local, HandlerError, Leave, Idle
<1>21. ASSUME NEW w \in Worker, complete_delivery_job(w) PROVE Local
  BY <1>21 DEF Local, complete_delivery_job, Idle
<1>22. ASSUME NEW w \in Worker, fail_delivery_job(w) PROVE Local
  BY <1>22 DEF Local, fail_delivery_job, Retry, Idle
<1>23. ASSUME NEW w \in Worker, heartbeat_delivery_job(w) PROVE Local
  BY <1>23 DEF Local, heartbeat_delivery_job
<1>24. CASE UNCHANGED vars
  BY <1>24 DEF Local, vars
<1> QED
  BY <1>1, <1>2, <1>3, <1>4, <1>5, <1>6, <1>7, <1>8, <1>9, <1>10, <1>11, <1>12,
     <1>13, <1>14, <1>15, <1>16, <1>17, <1>18, <1>19, <1>20, <1>21, <1>22, <1>23, <1>24
  DEF Finish, Heartbeat

-----------------------------------------------------------------------------
(* The other steps, one lemma each.                                        *)

SendFacts == LeaseInv /\ SenderInv /\ RequestInv /\ PostedInv /\ SnapshotInv

LEMMA OneOwner ==
  ASSUME LeaseInv, NEW v \in Worker, NEW w \in Worker,
         worker[v].pc \in Holding, worker[w].pc \in Holding,
         worker[v].job = worker[w].job, delivery_is_owned(v), delivery_is_owned(w)
  PROVE  v = w
BY DEF LeaseInv, delivery_is_owned

LEMMA SetStateEffect ==
  ASSUME part \in [Job -> [Slot -> PartRow]], NEW j \in Job, NEW p \in Slot,
         NEW s \in PartState, SetState(j, p, s)
  PROVE  \A i \in Job : \A q \in Slot :
           part'[i][q].state = IF i = j /\ q = p THEN s ELSE part[i][q].state
<1>1. part[j][p] \in PartRow
  OBVIOUS
<1>2. [part[j][p] EXCEPT !.state = s].state = s
  BY <1>1 DEF PartRow
<1> QED
  BY <1>2 DEF SetState

\* A busy task and its part.
LEMMA BusyTask ==
  ASSUME TypeOK, NEW w \in Worker
  PROVE  /\ worker[w] \in Task
         /\ worker[w].pc \in Holding => worker[w].job \in Job
         /\ worker[w].pc = "waiting" => worker[w].at \in Slot
<1>1. worker[w] \in Task
  BY DEF TypeOK
<1> QED
  BY <1>1, PlanFacts DEF Task, Holding

LEMMA RequestTypes ==
  ASSUME TypeOK, NEW r \in net
  PROVE  r.job \in Job /\ r.part \in Slot /\ r.ticket \in Nat
BY DEF TypeOK, SendRequest

LEMMA ClaimCommitStep ==
  ASSUME TypeOK, SendFacts, NEW w \in Worker, ClaimCommit(w)
  PROVE  SendFacts'
<1> DEFINE j == worker[w].job
<1> DEFINE n == row[j].attempts + 1
<1>1. worker[w] \in Task /\ worker[w].pc = "claiming" /\ j \in Job
  BY DEF ClaimCommit, TypeOK, Task
<1>2. \A i \in Job : row[i].attempts \in Nat /\ row[i].lease \in Nat
  BY DEF TypeOK, Row
<1>3. /\ row'[j].attempts = n /\ row'[j].lease = n
      /\ \A i \in Job \ {j} : row'[i] = row[i]
  BY <1>1 DEF ClaimCommit, TypeOK, Row
<1>4. /\ worker'[w].pc = "open" /\ worker'[w].job = j /\ worker'[w].ticket = n
      /\ \A v \in Worker \ {w} : worker'[v] = worker[v]
  BY <1>1 DEF ClaimCommit, TypeOK, Task
<1>5. UNCHANGED <<part, net, copies>>
  BY DEF ClaimCommit
<1>6. \A v \in Worker : worker[v].pc \in Holding =>
         worker[v].job \in Job /\ worker[v].ticket \in Nat
  BY DEF TypeOK, Task, Holding
<1>7. \A v \in Worker : worker[v].pc \in Holding =>
         worker[v].ticket <= row[worker[v].job].attempts
  BY DEF SendFacts, LeaseInv
<1>8. LeaseInv'
  <2>1. \A i \in Job : row'[i].lease <= row'[i].attempts
    BY <1>1, <1>2, <1>3 DEF SendFacts, LeaseInv
  <2>2. ASSUME NEW v \in Worker, worker'[v].pc \in Holding
        PROVE  worker'[v].ticket <= row'[worker'[v].job].attempts
    <3>1. CASE v = w
      BY <3>1, <1>1, <1>2, <1>3, <1>4
    <3>2. CASE v # w
      BY <2>2, <3>2, <1>1, <1>2, <1>3, <1>4, <1>6, <1>7
    <3> QED
      BY <3>1, <3>2
  <2>3. ASSUME NEW u \in Worker, NEW v \in Worker,
               worker'[u].pc \in Holding, worker'[v].pc \in Holding,
               worker'[u].job = worker'[v].job, worker'[u].ticket = worker'[v].ticket
        PROVE  u = v
    <3>1. CASE u # w /\ v # w
      BY <2>3, <3>1, <1>4 DEF SendFacts, LeaseInv
    <3>2. ASSUME NEW x \in Worker \ {w}, worker[x].pc \in Holding, worker[x].job = j
          PROVE  worker[x].ticket # n
      BY <3>2, <1>2, <1>6, <1>7
    <3> QED
      BY <2>3, <3>1, <3>2, <1>4
  <2> QED
    BY <2>1, <2>2, <2>3 DEF LeaseInv
<1>9. SenderInv'
  BY <1>4, <1>5 DEF SendFacts, SenderInv, Waiting, SamePart, OnItsWay
<1>10. RequestInv' /\ PostedInv'
  BY <1>5 DEF SendFacts, RequestInv, PostedInv
<1>11. SnapshotInv'
  <2> SUFFICES ASSUME NEW v \in Worker, worker'[v].pc \in Looping, delivery_is_owned(v)',
                      NEW p \in Slot,
                      p > worker'[v].at \/ (p = worker'[v].at /\ worker'[v].pc = "loop"),
                      worker'[v].snap[p].state = "pending"
               PROVE  part'[worker'[v].job][p].state = "pending"
    BY DEF SnapshotInv
  <2>1. v # w /\ worker'[v] = worker[v] /\ worker[v].pc \in Holding
    BY <1>4 DEF Looping, Holding
  <2>2. worker[v].job # j
    BY <2>1, <1>2, <1>3, <1>6, <1>7 DEF delivery_is_owned
  <2>3. delivery_is_owned(v)
    BY <2>1, <2>2, <1>3, <1>6 DEF delivery_is_owned
  <2> QED
    BY <2>1, <2>3, <1>5 DEF SendFacts, SnapshotInv
<1> QED
  BY <1>8, <1>9, <1>10, <1>11 DEF SendFacts

LEMMA OpenStep ==
  ASSUME TypeOK, SendFacts, NEW w \in Worker, Open(w)
  PROVE  SendFacts'
<1> DEFINE j == worker[w].job
<1>1. /\ worker[w] \in Task /\ worker[w].pc = "open" /\ j \in Job /\ worker[w].pc \in Holding
      /\ delivery_is_owned(w)
  BY DEF Open, TypeOK, Task, Holding
<1>2. part \in [Job -> [Slot -> PartRow]]
  BY DEF TypeOK
<1>3. /\ \A i \in Job \ {j} : part'[i] = part[i]
      /\ HasParts(j) => part'[j] = part[j]
      /\ ~HasParts(j) => part'[j] = persistent_rows(j)
  BY <1>1, <1>2 DEF Open
<1>4. \A p \in Slot : persistent_rows(j)[p].state \in {"absent", "pending", "standby"}
  BY DEF persistent_rows, NoRows
<1>5. /\ worker'[w].pc = "loop" /\ worker'[w].job = j /\ worker'[w].ticket = worker[w].ticket
      /\ worker'[w].snap = part'[j]
      /\ \A v \in Worker \ {w} : worker'[v] = worker[v]
  BY <1>1 DEF Open, TypeOK, Task
<1>6. UNCHANGED <<row, net, copies>>
  BY DEF Open
\* A row that matters to the other parts is there already.
<1>7. \A i \in Job : \A p \in Slot : part[i][p].state # "absent" => part'[i][p] = part[i][p]
  BY <1>3 DEF HasParts
<1>8. LeaseInv'
  <2>1. RowsKept /\ TicketsKept
    BY <1>1, <1>5, <1>6 DEF RowsKept, TicketsKept, Holding
  <2> QED
    BY <2>1, LeaseFrame DEF SendFacts
<1>9. SenderInv'
  <2>1. \A v \in Worker : Waiting(v)' => worker'[v] = worker[v]
    BY <1>5 DEF Waiting
  <2>2. ASSUME NEW v \in Worker, Waiting(v)'
        PROVE  part'[worker'[v].job][worker'[v].at].state = "sending"
    BY <2>1, <2>2, <1>7, BusyTask DEF SendFacts, SenderInv, Waiting, Holding
  <2> QED
    BY <2>1, <2>2, <1>6 DEF SendFacts, SenderInv, Waiting, SamePart, OnItsWay
<1>10. RequestInv'
  BY <1>6, <1>7, RequestTypes DEF SendFacts, RequestInv
<1>11. PostedInv'
  <2> SUFFICES ASSUME NEW i \in Job, NEW p \in Slot
               PROVE  /\ copies'[i][p] <= 1
                      /\ copies'[i][p] = 1 => part'[i][p].state \in {"sending", "sent", "unknown"}
                      /\ part'[i][p].state = "sent" => copies'[i][p] = 1
    BY DEF PostedInv
  <2>1. CASE part'[i][p] = part[i][p]
    BY <2>1, <1>6 DEF SendFacts, PostedInv
  <2>2. CASE part'[i][p] # part[i][p]
    <3>1. i = j /\ ~HasParts(j) /\ part[j][p].state = "absent"
      BY <2>2, <1>3 DEF HasParts
    <3>2. part'[j][p].state \in {"absent", "pending", "standby"}
      BY <3>1, <1>3, <1>4
    <3> QED
      BY <3>1, <3>2, <1>6 DEF SendFacts, PostedInv
  <2> QED
    BY <2>1, <2>2
<1>12. SnapshotInv'
  <2> SUFFICES ASSUME NEW v \in Worker, worker'[v].pc \in Looping, delivery_is_owned(v)',
                      NEW p \in Slot,
                      p > worker'[v].at \/ (p = worker'[v].at /\ worker'[v].pc = "loop"),
                      worker'[v].snap[p].state = "pending"
               PROVE  part'[worker'[v].job][p].state = "pending"
    BY DEF SnapshotInv
  <2>1. CASE v = w
    BY <2>1, <1>5
  <2>2. CASE v # w
    <3>1. worker'[v] = worker[v] /\ worker[v].pc \in Holding /\ delivery_is_owned(v)
      BY <2>2, <1>5, <1>6 DEF delivery_is_owned, Looping, Holding
    <3>2. worker[v].job # j
      BY <2>2, <3>1, <1>1, OneOwner DEF SendFacts
    <3>3. worker[v].job \in Job
      BY <3>1, BusyTask
    <3> QED
      BY <3>1, <3>2, <3>3, <1>3 DEF SendFacts, SnapshotInv
  <2> QED
    BY <2>1, <2>2
<1> QED
  BY <1>8, <1>9, <1>10, <1>11, <1>12 DEF SendFacts

LEMMA SkipPartStep ==
  ASSUME TypeOK, SendFacts, NEW w \in Worker, SkipPart(w)
  PROVE  SendFacts'
<1>1. /\ worker[w] \in Task /\ worker[w].pc = "loop" /\ worker[w].at \in Nat
      /\ worker[w].job \in Job
  BY DEF SkipPart, At, TypeOK, Task
<1>2. /\ worker'[w] = [worker[w] EXCEPT !.at = worker[w].at + 1]
      /\ \A v \in Worker \ {w} : worker'[v] = worker[v]
      /\ UNCHANGED <<row, part, net, copies>>
  BY <1>1 DEF SkipPart, TypeOK
<1>3. /\ worker'[w].pc = "loop" /\ worker'[w].at = worker[w].at + 1
      /\ worker'[w].job = worker[w].job /\ worker'[w].ticket = worker[w].ticket
      /\ worker'[w].snap = worker[w].snap
  BY <1>1, <1>2 DEF Task
<1>4. LeaseInv'
  <2>1. RowsKept /\ TicketsKept
    BY <1>1, <1>2, <1>3 DEF RowsKept, TicketsKept, Holding
  <2> QED
    BY <2>1, LeaseFrame DEF SendFacts
<1>5. \A v \in Worker : Waiting(v)' => worker'[v] = worker[v]
  BY <1>2, <1>3 DEF Waiting
<1>6. SenderInv' /\ RequestInv' /\ PostedInv'
  BY <1>2, <1>5 DEF SendFacts, SenderInv, RequestInv, PostedInv, Waiting, SamePart, OnItsWay
<1>7. SnapshotInv'
  <2> SUFFICES ASSUME NEW v \in Worker, worker'[v].pc \in Looping, delivery_is_owned(v)',
                      NEW p \in Slot,
                      p > worker'[v].at \/ (p = worker'[v].at /\ worker'[v].pc = "loop"),
                      worker'[v].snap[p].state = "pending"
               PROVE  part'[worker'[v].job][p].state = "pending"
    BY DEF SnapshotInv
  <2>1. delivery_is_owned(v) /\ worker[v].pc \in Looping
    BY <1>1, <1>2, <1>3 DEF delivery_is_owned, Looping
  <2>2. CASE v = w
    <3>1. p \in Nat /\ p > worker[w].at
      BY <2>2, <1>1, <1>3 DEF Slot
    <3> QED
      BY <2>1, <2>2, <3>1, <1>2, <1>3 DEF SendFacts, SnapshotInv
  <2>3. CASE v # w
    BY <2>1, <2>3, <1>2 DEF SendFacts, SnapshotInv
  <2> QED
    BY <2>2, <2>3
<1> QED
  BY <1>4, <1>6, <1>7 DEF SendFacts

LEMMA MarkSendingStep ==
  ASSUME TypeOK, SendFacts, NEW w \in Worker, MarkSending(w)
  PROVE  SendFacts'
<1> DEFINE j == worker[w].job
<1> DEFINE p == worker[w].at
<1>1. /\ worker[w] \in Task /\ worker[w].pc = "loop" /\ j \in Job /\ p \in Slot /\ p \in Nat
      /\ delivery_is_owned(w) /\ worker[w].snap[p].state = "pending"
  BY PlanFacts DEF MarkSending, At, TypeOK, Task, Slot
<1>2. /\ worker'[w].pc = "waiting" /\ worker'[w].job = j /\ worker'[w].ticket = worker[w].ticket
      /\ worker'[w].at = p /\ worker'[w].snap = worker[w].snap /\ worker'[w].reply = "none"
      /\ \A v \in Worker \ {w} : worker'[v] = worker[v]
  BY <1>1 DEF MarkSending, TypeOK, Task
<1>3. \A i \in Job : \A q \in Slot :
        part'[i][q].state = IF i = j /\ q = p THEN "sending" ELSE part[i][q].state
  BY <1>1, SetStateEffect DEF MarkSending, TypeOK, PartState
<1>4. /\ net' = net \union {[job |-> j, part |-> p, ticket |-> worker[w].ticket]}
      /\ UNCHANGED <<row, copies>>
  BY DEF MarkSending, Request
\* The owner's copy is right: nobody has sent the part yet.
<1>5. part[j][p].state = "pending"
  BY <1>1 DEF SendFacts, SnapshotInv, Looping
<1>6. copies[j][p] = 0
  <2>1. copies[j][p] \in Nat
    BY <1>1 DEF TypeOK
  <2>2. copies[j][p] <= 1 /\ copies[j][p] # 1
    BY <1>1, <1>5 DEF SendFacts, PostedInv
  <2> QED
    BY <2>1, <2>2
<1>7. ~OnItsWay(j, p)
  BY <1>5 DEF SendFacts, RequestInv, OnItsWay
<1>8. \A v \in Worker : Waiting(v) => ~(worker[v].job = j /\ worker[v].at = p)
  BY <1>5 DEF SendFacts, SenderInv
<1>9. \A v \in Worker : Waiting(v)' => v = w \/ (Waiting(v) /\ worker'[v] = worker[v])
  BY <1>2 DEF Waiting
<1>10. LeaseInv'
  <2>1. RowsKept /\ TicketsKept
    BY <1>1, <1>2, <1>4 DEF RowsKept, TicketsKept, Holding
  <2> QED
    BY <2>1, LeaseFrame DEF SendFacts
<1>11. SenderInv'
  <2>1. ASSUME NEW v \in Worker, Waiting(v)'
        PROVE  part'[worker'[v].job][worker'[v].at].state = "sending"
    <3>1. CASE v = w
      BY <3>1, <1>1, <1>2, <1>3
    <3>2. CASE v # w
      BY <2>1, <3>2, <1>3, <1>9, BusyTask DEF SendFacts, SenderInv, Waiting, Holding
    <3> QED
      BY <3>1, <3>2
  <2>2. ASSUME NEW u \in Worker, NEW v \in Worker, Waiting(u)', Waiting(v)', SamePart(u, v)'
        PROVE  u = v
    BY <2>2, <1>2, <1>8, <1>9 DEF SendFacts, SenderInv, SamePart
  <2>3. ASSUME NEW v \in Worker, Waiting(v)', worker'[v].reply # "none"
        PROVE  /\ ~OnItsWay(worker[v].job, worker[v].at)'
               /\ copies'[worker'[v].job][worker'[v].at] = IF worker'[v].reply = "ok" THEN 1 ELSE 0
    <3>1. v # w /\ Waiting(v) /\ worker'[v] = worker[v]
      BY <2>3, <1>2, <1>9
    <3>2. /\ ~OnItsWay(worker[v].job, worker[v].at)
          /\ copies[worker[v].job][worker[v].at] = IF worker[v].reply = "ok" THEN 1 ELSE 0
      BY <2>3, <3>1 DEF SendFacts, SenderInv
    <3>3. ~(worker[v].job = j /\ worker[v].at = p)
      BY <3>1, <1>8
    <3>4. ~OnItsWay(worker[v].job, worker[v].at)'
      BY <3>1, <3>2, <3>3, <1>4 DEF OnItsWay
    <3> QED
      BY <3>1, <3>2, <3>4, <1>4
  <2> QED
    BY <2>1, <2>2, <2>3 DEF SenderInv
<1>12. RequestInv'
  <2>1. ASSUME NEW r \in net'
        PROVE  part'[r.job][r.part].state \in {"sending", "unknown"} /\ copies'[r.job][r.part] = 0
    <3>1. CASE r \in net
      BY <3>1, <1>3, <1>4, RequestTypes DEF SendFacts, RequestInv
    <3>2. CASE r \notin net
      BY <3>2, <1>1, <1>3, <1>4, <1>6
    <3> QED
      BY <3>1, <3>2
  <2>2. ASSUME NEW r \in net', NEW s \in net', r.job = s.job, r.part = s.part
        PROVE  r = s
    BY <2>2, <1>4, <1>7 DEF SendFacts, RequestInv, OnItsWay
  <2> QED
    BY <2>1, <2>2 DEF RequestInv
<1>13. PostedInv'
  BY <1>1, <1>3, <1>4, <1>6 DEF SendFacts, PostedInv
<1>14. SnapshotInv'
  <2> SUFFICES ASSUME NEW v \in Worker, worker'[v].pc \in Looping, delivery_is_owned(v)',
                      NEW q \in Slot,
                      q > worker'[v].at \/ (q = worker'[v].at /\ worker'[v].pc = "loop"),
                      worker'[v].snap[q].state = "pending"
               PROVE  part'[worker'[v].job][q].state = "pending"
    BY DEF SnapshotInv
  <2>1. CASE v = w
    <3>1. q > p
      BY <2>1, <1>2
    <3>2. part[j][q].state = "pending"
      BY <2>1, <3>1, <1>1, <1>2 DEF SendFacts, SnapshotInv, Looping
    <3> QED
      BY <2>1, <3>1, <3>2, <1>1, <1>2, <1>3
  <2>2. CASE v # w
    <3>1. worker'[v] = worker[v] /\ worker[v].pc \in Holding /\ delivery_is_owned(v)
      BY <2>2, <1>2, <1>4 DEF delivery_is_owned, Looping, Holding
    <3>2. worker[v].job # j
      BY <2>2, <3>1, <1>1, OneOwner DEF SendFacts, Holding
    <3>3. worker[v].job \in Job
      BY <3>1, BusyTask
    <3> QED
      BY <3>1, <3>2, <3>3, <1>3 DEF SendFacts, SnapshotInv
  <2> QED
    BY <2>1, <2>2
<1> QED
  BY <1>10, <1>11, <1>12, <1>13, <1>14 DEF SendFacts

\* Telegram's answer changes only what a task knows about its own send.
LEMMA AnswerEffect ==
  ASSUME TypeOK, NEW r \in net, NEW reply \in Reply, Answer(r, reply)
  PROVE  \A w \in Worker :
           /\ worker'[w].pc = worker[w].pc /\ worker'[w].job = worker[w].job
           /\ worker'[w].at = worker[w].at /\ worker'[w].ticket = worker[w].ticket
           /\ worker'[w].snap = worker[w].snap
           /\ worker'[w].reply = IF Awaits(w, r) THEN reply ELSE worker[w].reply
<1>1. \A w \in Worker : worker[w] \in Task
  BY DEF TypeOK
<1>2. \A w \in Worker :
        worker'[w] = IF Awaits(w, r) THEN [worker[w] EXCEPT !.reply = reply] ELSE worker[w]
  BY DEF Answer
<1> QED
  BY <1>1, <1>2 DEF Task

LEMMA AnswerKeeps ==
  ASSUME TypeOK, SendFacts, NEW r \in net, NEW reply \in Reply, Answer(r, reply),
         UNCHANGED <<row, part>>
  PROVE  LeaseInv' /\ SnapshotInv'
<1>1. LeaseInv'
  <2>1. RowsKept /\ TicketsKept
    BY AnswerEffect DEF RowsKept, TicketsKept
  <2> QED
    BY <2>1, LeaseFrame DEF SendFacts
<1>2. SnapshotInv'
  BY AnswerEffect DEF SendFacts, SnapshotInv, delivery_is_owned
<1> QED
  BY <1>1, <1>2

LEMMA TelegramAcceptStep ==
  ASSUME TypeOK, SendFacts, NEW r \in net, TelegramAccept(r)
  PROVE  SendFacts'
<1>1. PICK reply \in {"ok", "none"} : Answer(r, reply)
  BY DEF TelegramAccept
<1>2. reply \in Reply
  BY DEF Reply
<1>a. \A v \in Worker : worker'[v].job = worker[v].job /\ worker'[v].at = worker[v].at
  BY <1>1, <1>2, AnswerEffect
<1>3. net' = net \ {r} /\ UNCHANGED <<row, part>>
  BY DEF TelegramAccept
<1>4. r.job \in Job /\ r.part \in Slot /\ copies \in [Job -> [Slot -> Nat]]
  BY RequestTypes DEF TypeOK
<1>5. copies[r.job][r.part] = 0 /\ part[r.job][r.part].state \in {"sending", "unknown"}
  BY DEF SendFacts, RequestInv
<1>6. \A i \in Job : \A q \in Slot :
        copies'[i][q] = IF i = r.job /\ q = r.part THEN 1 ELSE copies[i][q]
  BY <1>4, <1>5 DEF TelegramAccept
<1>7. \A s \in net' : ~(s.job = r.job /\ s.part = r.part)
  BY <1>3 DEF SendFacts, RequestInv
<1>8. LeaseInv' /\ SnapshotInv'
  BY <1>1, <1>2, <1>3, AnswerKeeps
<1>9. SenderInv'
  <2>1. \A v \in Worker : Waiting(v)' => Waiting(v)
    BY <1>1, <1>2, AnswerEffect DEF Waiting
  <2>2. ASSUME NEW v \in Worker, Waiting(v)'
        PROVE  part'[worker'[v].job][worker'[v].at].state = "sending"
    BY <2>1, <2>2, <1>1, <1>2, <1>3, AnswerEffect DEF SendFacts, SenderInv
  <2>3. ASSUME NEW u \in Worker, NEW v \in Worker, Waiting(u)', Waiting(v)', SamePart(u, v)'
        PROVE  u = v
    BY <2>1, <2>3, <1>1, <1>2, AnswerEffect DEF SendFacts, SenderInv, SamePart
  <2>4. ASSUME NEW v \in Worker, Waiting(v)', worker'[v].reply # "none"
        PROVE  /\ ~OnItsWay(worker[v].job, worker[v].at)'
               /\ copies'[worker[v].job][worker[v].at] = IF worker'[v].reply = "ok" THEN 1 ELSE 0
    <3>1. Waiting(v) /\ worker[v].job \in Job /\ worker[v].at \in Slot
      BY <2>1, <2>4, BusyTask DEF Waiting, Holding
    <3>2. CASE Awaits(v, r)
      <4>1. worker[v].job = r.job /\ worker[v].at = r.part
        BY <3>2 DEF Awaits, Request
      <4>2. worker'[v].reply = "ok"
        BY <2>4, <3>2, <1>1, <1>2, AnswerEffect
      <4>3. ~OnItsWay(worker[v].job, worker[v].at)'
        BY <4>1, <1>7, <1>a DEF OnItsWay
      <4>4. copies'[worker[v].job][worker[v].at] = 1
        BY <4>1, <3>1, <1>6
      <4> QED
        BY <4>2, <4>3, <4>4
    <3>3. CASE ~Awaits(v, r)
      <4>1. worker'[v].reply = worker[v].reply /\ worker[v].reply # "none"
        BY <2>4, <3>3, <1>1, <1>2, AnswerEffect
      <4>2. /\ ~OnItsWay(worker[v].job, worker[v].at)
            /\ copies[worker[v].job][worker[v].at] = IF worker[v].reply = "ok" THEN 1 ELSE 0
        BY <3>1, <4>1 DEF SendFacts, SenderInv
      <4>3. ~(worker[v].job = r.job /\ worker[v].at = r.part)
        BY <4>2 DEF OnItsWay
      <4>4. ~OnItsWay(worker[v].job, worker[v].at)'
        BY <4>2, <1>3, <1>a DEF OnItsWay
      <4>5. copies'[worker[v].job][worker[v].at] = copies[worker[v].job][worker[v].at]
        BY <4>3, <3>1, <1>6
      <4> QED
        BY <4>1, <4>2, <4>4, <4>5
    <3> QED
      BY <3>2, <3>3
  <2> QED
    BY <2>2, <2>3, <2>4, <1>a DEF SenderInv, OnItsWay
<1>10. RequestInv'
  <2>1. ASSUME NEW s \in net'
        PROVE  part'[s.job][s.part].state \in {"sending", "unknown"} /\ copies'[s.job][s.part] = 0
    <3>1. s \in net /\ s.job \in Job /\ s.part \in Slot
      BY <1>3, RequestTypes
    <3> QED
      BY <3>1, <1>3, <1>6, <1>7 DEF SendFacts, RequestInv
  <2> QED
    BY <2>1, <1>3 DEF SendFacts, RequestInv
<1>11. PostedInv'
  BY <1>3, <1>5, <1>6 DEF SendFacts, PostedInv
<1> QED
  BY <1>8, <1>9, <1>10, <1>11 DEF SendFacts

LEMMA TelegramRejectStep ==
  ASSUME TypeOK, SendFacts, NEW r \in net, TelegramReject(r)
  PROVE  SendFacts'
<1>1. PICK reply \in {"rejected", "richRejected", "replyGone"} : Answer(r, reply)
  BY DEF TelegramReject
<1>2. reply \in Reply /\ reply # "ok"
  BY DEF Reply
<1>a. \A v \in Worker : worker'[v].job = worker[v].job /\ worker'[v].at = worker[v].at
  BY <1>1, <1>2, AnswerEffect
<1>3. net' = net \ {r} /\ UNCHANGED <<row, part, copies>>
  BY DEF TelegramReject
<1>4. copies[r.job][r.part] = 0
  BY DEF SendFacts, RequestInv
<1>5. \A s \in net' : ~(s.job = r.job /\ s.part = r.part)
  BY <1>3 DEF SendFacts, RequestInv
<1>6. LeaseInv' /\ SnapshotInv'
  BY <1>1, <1>2, <1>3, AnswerKeeps
<1>7. SenderInv'
  <2>1. \A v \in Worker : Waiting(v)' => Waiting(v)
    BY <1>1, <1>2, AnswerEffect DEF Waiting
  <2>2. ASSUME NEW v \in Worker, Waiting(v)'
        PROVE  part'[worker'[v].job][worker'[v].at].state = "sending"
    BY <2>1, <2>2, <1>1, <1>2, <1>3, AnswerEffect DEF SendFacts, SenderInv
  <2>3. ASSUME NEW u \in Worker, NEW v \in Worker, Waiting(u)', Waiting(v)', SamePart(u, v)'
        PROVE  u = v
    BY <2>1, <2>3, <1>1, <1>2, AnswerEffect DEF SendFacts, SenderInv, SamePart
  <2>4. ASSUME NEW v \in Worker, Waiting(v)', worker'[v].reply # "none"
        PROVE  /\ ~OnItsWay(worker[v].job, worker[v].at)'
               /\ copies'[worker[v].job][worker[v].at] = IF worker'[v].reply = "ok" THEN 1 ELSE 0
    <3>1. CASE Awaits(v, r)
      <4>1. worker[v].job = r.job /\ worker[v].at = r.part
        BY <3>1 DEF Awaits, Request
      <4>2. worker'[v].reply # "ok"
        BY <3>1, <1>1, <1>2, AnswerEffect
      <4>3. ~OnItsWay(worker[v].job, worker[v].at)'
        BY <4>1, <1>5, <1>a DEF OnItsWay
      <4> QED
        BY <4>1, <4>2, <4>3, <1>3, <1>4
    <3>2. CASE ~Awaits(v, r)
      BY <2>1, <2>4, <3>2, <1>1, <1>2, <1>3, AnswerEffect DEF SendFacts, SenderInv, OnItsWay
    <3> QED
      BY <3>1, <3>2
  <2> QED
    BY <2>2, <2>3, <2>4, <1>a DEF SenderInv, OnItsWay
<1>8. RequestInv' /\ PostedInv'
  BY <1>3 DEF SendFacts, RequestInv, PostedInv
<1> QED
  BY <1>6, <1>7, <1>8 DEF SendFacts

LEMMA RetryWithoutReplyStep ==
  ASSUME TypeOK, SendFacts, NEW w \in Worker, RetryWithoutReply(w)
  PROVE  SendFacts'
<1> DEFINE j == worker[w].job
<1> DEFINE p == worker[w].at
<1>1. worker[w] \in Task /\ Waiting(w) /\ worker[w].reply = "replyGone" /\ j \in Job /\ p \in Slot
  BY BusyTask DEF RetryWithoutReply, Replied, Waiting, Holding
<1>2. /\ worker'[w].pc = "waiting" /\ worker'[w].job = j /\ worker'[w].ticket = worker[w].ticket
      /\ worker'[w].at = p /\ worker'[w].snap = worker[w].snap /\ worker'[w].reply = "none"
      /\ \A v \in Worker \ {w} : worker'[v] = worker[v]
  BY <1>1 DEF RetryWithoutReply, TypeOK, Task, Waiting
<1>3. /\ net' = net \union {[job |-> j, part |-> p, ticket |-> worker[w].ticket]}
      /\ UNCHANGED <<row, part, copies>>
  BY DEF RetryWithoutReply, Request
<1>4. ~OnItsWay(j, p) /\ copies[j][p] = 0 /\ part[j][p].state = "sending"
  BY <1>1 DEF SendFacts, SenderInv
<1>5. \A v \in Worker \ {w} : Waiting(v) => ~(worker[v].job = j /\ worker[v].at = p)
  BY <1>1 DEF SendFacts, SenderInv, SamePart
<1>6. LeaseInv'
  <2>1. RowsKept /\ TicketsKept
    BY <1>1, <1>2, <1>3 DEF RowsKept, TicketsKept, Holding, Waiting
  <2> QED
    BY <2>1, LeaseFrame DEF SendFacts
<1>7. SenderInv'
  <2>1. \A v \in Worker : Waiting(v)' => /\ Waiting(v) /\ worker'[v].job = worker[v].job
                                        /\ worker'[v].at = worker[v].at
    BY <1>1, <1>2 DEF Waiting
  <2>2. ASSUME NEW v \in Worker, Waiting(v)', worker'[v].reply # "none"
        PROVE  /\ ~OnItsWay(worker[v].job, worker[v].at)'
               /\ copies'[worker[v].job][worker[v].at] = IF worker'[v].reply = "ok" THEN 1 ELSE 0
    <3>1. v # w /\ worker'[v] = worker[v] /\ Waiting(v)
      BY <2>1, <2>2, <1>2
    <3>2. /\ ~OnItsWay(worker[v].job, worker[v].at)
          /\ copies[worker[v].job][worker[v].at] = IF worker[v].reply = "ok" THEN 1 ELSE 0
      BY <2>2, <3>1 DEF SendFacts, SenderInv
    <3> QED
      BY <3>1, <3>2, <1>3, <1>5 DEF OnItsWay
  <2> QED
    BY <2>1, <2>2, <1>3 DEF SendFacts, SenderInv, SamePart, OnItsWay
<1>8. RequestInv'
  <2>1. ASSUME NEW s \in net'
        PROVE  part'[s.job][s.part].state \in {"sending", "unknown"} /\ copies'[s.job][s.part] = 0
    BY <1>3, <1>4 DEF SendFacts, RequestInv
  <2>2. ASSUME NEW r \in net', NEW s \in net', r.job = s.job, r.part = s.part
        PROVE  r = s
    BY <2>2, <1>3, <1>4 DEF SendFacts, RequestInv, OnItsWay
  <2> QED
    BY <2>1, <2>2 DEF RequestInv
<1>9. PostedInv'
  BY <1>3 DEF SendFacts, PostedInv
<1>10. SnapshotInv'
  BY <1>1, <1>2, <1>3 DEF SendFacts, SnapshotInv, delivery_is_owned, Looping, Waiting
<1> QED
  BY <1>6, <1>7, <1>8, <1>9, <1>10 DEF SendFacts

\* What the owner of a part knows once Telegram has answered.
LEMMA AnsweredFacts ==
  ASSUME TypeOK, SendFacts, NEW w \in Worker, worker[w].pc = "waiting"
  PROVE  /\ worker[w] \in Task /\ worker[w].job \in Job
         /\ worker[w].at \in Slot /\ worker[w].at \in Nat
         /\ part[worker[w].job][worker[w].at].state = "sending"
         /\ worker[w].reply # "none" =>
               /\ ~OnItsWay(worker[w].job, worker[w].at)
               /\ copies[worker[w].job][worker[w].at] = IF worker[w].reply = "ok" THEN 1 ELSE 0
         /\ \A v \in Worker \ {w} : worker[v].pc = "waiting" =>
               ~(worker[v].job = worker[w].job /\ worker[v].at = worker[w].at)
<1>1. worker[w] \in Task /\ worker[w].job \in Job /\ worker[w].at \in Slot
  BY BusyTask DEF Holding
<1>2. worker[w].at \in Nat
  BY <1>1 DEF Task
<1> QED
  BY <1>1, <1>2 DEF SendFacts, SenderInv, Waiting, SamePart

\* The task leaves "waiting" and the parts that others wait for are untouched.
LEMMA SenderFrame ==
  ASSUME TypeOK, SendFacts, NEW w \in Worker, worker'[w].pc # "waiting",
         \A v \in Worker \ {w} : worker'[v] = worker[v],
         \A v \in Worker \ {w} : worker[v].pc = "waiting" =>
            part'[worker[v].job][worker[v].at].state = part[worker[v].job][worker[v].at].state,
         UNCHANGED <<net, copies>>
  PROVE  SenderInv'
<1>1. \A v \in Worker : Waiting(v)' => v # w /\ Waiting(v) /\ worker'[v] = worker[v]
  BY DEF Waiting
<1> QED
  BY <1>1 DEF SendFacts, SenderInv, Waiting, SamePart, OnItsWay

LEMMA RecordSentStep ==
  ASSUME TypeOK, SendFacts, NEW w \in Worker, RecordSent(w)
  PROVE  SendFacts'
<1> DEFINE j == worker[w].job
<1> DEFINE p == worker[w].at
<1>0. worker[w].pc = "waiting" /\ worker[w].reply = "ok" /\ delivery_is_owned(w)
  BY DEF RecordSent, Replied
<1>1. /\ worker[w] \in Task /\ worker[w].pc = "waiting" /\ j \in Job /\ p \in Slot /\ p \in Nat
      /\ delivery_is_owned(w) /\ part[j][p].state = "sending"
      /\ ~OnItsWay(j, p) /\ copies[j][p] = 1
  BY <1>0, AnsweredFacts
<1>2. /\ worker'[w].pc = "loop" /\ worker'[w].job = j /\ worker'[w].ticket = worker[w].ticket
      /\ worker'[w].at = p + 1 /\ worker'[w].snap = [worker[w].snap EXCEPT ![p].state = "sent"]
      /\ \A v \in Worker \ {w} : worker'[v] = worker[v]
  BY <1>1 DEF RecordSent, TypeOK, Task
<1>3. UNCHANGED <<row, net, copies>>
  BY DEF RecordSent
<1>4. \A i \in Job : \A q \in Slot :
        part'[i][q].state = IF i = j /\ q = p THEN "sent" ELSE part[i][q].state
  BY <1>1, SetStateEffect DEF RecordSent, TypeOK, PartState
<1>5. LeaseInv'
  <2>1. RowsKept /\ TicketsKept
    BY <1>1, <1>2, <1>3 DEF RowsKept, TicketsKept, Holding
  <2> QED
    BY <2>1, LeaseFrame DEF SendFacts
<1>6. SenderInv'
  <2>1. \A v \in Worker \ {w} : worker[v].pc = "waiting" =>
            part'[worker[v].job][worker[v].at].state = part[worker[v].job][worker[v].at].state
    BY <1>0, <1>4, AnsweredFacts
  <2> QED
    BY <2>1, <1>2, <1>3, SenderFrame
<1>7. RequestInv'
  BY <1>1, <1>3, <1>4, RequestTypes DEF SendFacts, RequestInv, OnItsWay
<1>8. PostedInv'
  BY <1>1, <1>3, <1>4 DEF SendFacts, PostedInv
<1>9. SnapshotInv'
  <2> SUFFICES ASSUME NEW v \in Worker, worker'[v].pc \in Looping, delivery_is_owned(v)',
                      NEW q \in Slot,
                      q > worker'[v].at \/ (q = worker'[v].at /\ worker'[v].pc = "loop"),
                      worker'[v].snap[q].state = "pending"
               PROVE  part'[worker'[v].job][q].state = "pending"
    BY DEF SnapshotInv
  <2>1. CASE v = w
    <3>1. q \in Nat /\ q > p
      BY <2>1, <1>1, <1>2 DEF Slot
    <3>2. worker[w].snap[q].state = "pending"
      BY <2>1, <3>1, <1>1, <1>2 DEF Task
    <3>3. part[j][q].state = "pending"
      BY <3>1, <3>2, <1>1 DEF SendFacts, SnapshotInv, Looping
    <3> QED
      BY <2>1, <3>1, <3>3, <1>1, <1>2, <1>4
  <2>2. CASE v # w
    <3>1. worker'[v] = worker[v] /\ worker[v].pc \in Holding /\ delivery_is_owned(v)
      BY <2>2, <1>2, <1>3 DEF delivery_is_owned, Looping, Holding
    <3>2. worker[v].job # j
      BY <2>2, <3>1, <1>1, OneOwner DEF SendFacts, Holding
    <3>3. worker[v].job \in Job
      BY <3>1, BusyTask
    <3> QED
      BY <3>1, <3>2, <3>3, <1>4 DEF SendFacts, SnapshotInv
  <2> QED
    BY <2>1, <2>2
<1> QED
  BY <1>5, <1>6, <1>7, <1>8, <1>9 DEF SendFacts

LEMMA FallbackStep ==
  ASSUME TypeOK, SendFacts, NEW w \in Worker, Fallback(w)
  PROVE  SendFacts'
<1> DEFINE j == worker[w].job
<1> DEFINE p == worker[w].at
<1>0. worker[w].pc = "waiting" /\ worker[w].reply = "richRejected" /\ delivery_is_owned(w)
  BY DEF Fallback, Replied
<1>1. /\ worker[w] \in Task /\ worker[w].pc = "waiting" /\ j \in Job /\ p \in Slot /\ p \in Nat
      /\ delivery_is_owned(w) /\ part[j][p].state = "sending"
      /\ ~OnItsWay(j, p) /\ copies[j][p] = 0
  BY <1>0, AnsweredFacts
<1>2. /\ worker'[w].pc = "loop" /\ worker'[w].job = j /\ worker'[w].ticket = worker[w].ticket
      /\ worker'[w].at = p /\ worker'[w].snap = part'[j]
      /\ \A v \in Worker \ {w} : worker'[v] = worker[v]
  BY <1>1 DEF Fallback, TypeOK, Task
<1>3. UNCHANGED <<row, net, copies>>
  BY DEF Fallback
<1>4. /\ \A i \in Job \ {j} : part'[i] = part[i]
      /\ part'[j][p].state = "fallback"
      /\ \A q \in Slot \ {p} :
           \/ part'[j][q].state = part[j][q].state
           \/ part[j][q].state = "standby" /\ part'[j][q].state = "pending"
  <2>1. part \in [Job -> [Slot -> PartRow]]
    BY DEF TypeOK
  <2>2. \A q \in Slot : \A s : [part[j][q] EXCEPT !.state = s].state = s
    BY <2>1, <1>1 DEF PartRow
  <2>3. /\ \A i \in Job \ {j} : part'[i] = part[i]
        /\ part'[j][p] = [part[j][p] EXCEPT !.state = "fallback"]
        /\ \A q \in Slot \ {p} :
             \/ part'[j][q] = part[j][q]
             \/ part[j][q].state = "standby" /\ part'[j][q] = [part[j][q] EXCEPT !.state = "pending"]
    BY <2>1, <1>1 DEF Fallback
  <2>4. part'[j][p].state = "fallback"
    BY <2>2, <2>3, <1>1
  <2>5. ASSUME NEW q \in Slot \ {p}
        PROVE  \/ part'[j][q].state = part[j][q].state
               \/ part[j][q].state = "standby" /\ part'[j][q].state = "pending"
    <3>1. [part[j][q] EXCEPT !.state = "pending"].state = "pending"
      BY <2>2, <2>5
    <3> QED
      BY <2>3, <2>5, <3>1
  <2> QED
    BY <2>3, <2>4, <2>5
<1>5. LeaseInv'
  <2>1. RowsKept /\ TicketsKept
    BY <1>1, <1>2, <1>3 DEF RowsKept, TicketsKept, Holding
  <2> QED
    BY <2>1, LeaseFrame DEF SendFacts
<1>6. SenderInv'
  <2>1. ASSUME NEW v \in Worker \ {w}, worker[v].pc = "waiting"
        PROVE  part'[worker[v].job][worker[v].at].state = part[worker[v].job][worker[v].at].state
    <3>1. /\ worker[v].job \in Job /\ worker[v].at \in Slot
          /\ ~(worker[v].job = j /\ worker[v].at = p)
          /\ part[worker[v].job][worker[v].at].state = "sending"
      BY <2>1, <1>0, AnsweredFacts
    <3> QED
      BY <3>1, <1>4
  <2> QED
    BY <2>1, <1>2, <1>3, SenderFrame
<1>7. RequestInv'
  <2>1. ASSUME NEW r \in net
        PROVE  part'[r.job][r.part].state = part[r.job][r.part].state
    <3>1. /\ r.job \in Job /\ r.part \in Slot /\ ~(r.job = j /\ r.part = p)
          /\ part[r.job][r.part].state \in {"sending", "unknown"}
      BY <1>1, RequestTypes DEF SendFacts, RequestInv, OnItsWay
    <3> QED
      BY <3>1, <1>4
  <2> QED
    BY <2>1, <1>3 DEF SendFacts, RequestInv
<1>8. PostedInv'
  <2> SUFFICES ASSUME NEW i \in Job, NEW q \in Slot
               PROVE  /\ copies'[i][q] <= 1
                      /\ copies'[i][q] = 1 => part'[i][q].state \in {"sending", "sent", "unknown"}
                      /\ part'[i][q].state = "sent" => copies'[i][q] = 1
    BY DEF PostedInv
  <2>1. CASE i = j /\ q = p
    BY <2>1, <1>1, <1>3, <1>4
  <2>2. CASE ~(i = j /\ q = p)
    BY <2>2, <1>3, <1>4 DEF SendFacts, PostedInv
  <2> QED
    BY <2>1, <2>2
<1>9. SnapshotInv'
  <2> SUFFICES ASSUME NEW v \in Worker, worker'[v].pc \in Looping, delivery_is_owned(v)',
                      NEW q \in Slot,
                      q > worker'[v].at \/ (q = worker'[v].at /\ worker'[v].pc = "loop"),
                      worker'[v].snap[q].state = "pending"
               PROVE  part'[worker'[v].job][q].state = "pending"
    BY DEF SnapshotInv
  <2>1. CASE v = w
    BY <2>1, <1>2
  <2>2. CASE v # w
    <3>1. worker'[v] = worker[v] /\ worker[v].pc \in Holding /\ delivery_is_owned(v)
      BY <2>2, <1>2, <1>3 DEF delivery_is_owned, Looping, Holding
    <3>2. worker[v].job # j
      BY <2>2, <3>1, <1>1, OneOwner DEF SendFacts, Holding
    <3>3. worker[v].job \in Job
      BY <3>1, BusyTask
    <3> QED
      BY <3>1, <3>2, <3>3, <1>4 DEF SendFacts, SnapshotInv
  <2> QED
    BY <2>1, <2>2
<1> QED
  BY <1>5, <1>6, <1>7, <1>8, <1>9 DEF SendFacts

\* A task that writes the outcome of its send, with or without the lease, and
\* leaves the loop: the two unfenced writes of deliver.
LEMMA OutcomeStep ==
  ASSUME TypeOK, SendFacts, NEW w \in Worker, NEW s \in {"pending", "unknown"},
         worker[w].pc = "waiting",
         s = "pending" => worker[w].reply \in {"rejected", "richRejected"},
         SetState(worker[w].job, worker[w].at, s),
         worker'[w].pc \notin Looping,
         worker'[w].job = worker[w].job, worker'[w].ticket = worker[w].ticket,
         \A v \in Worker \ {w} : worker'[v] = worker[v],
         UNCHANGED <<row, net, copies>>
  PROVE  SendFacts'
<1> DEFINE j == worker[w].job
<1> DEFINE p == worker[w].at
<1>1. /\ j \in Job /\ p \in Slot /\ part[j][p].state = "sending"
      /\ s = "pending" => ~OnItsWay(j, p) /\ copies[j][p] = 0
  BY AnsweredFacts
<1>2. \A i \in Job : \A q \in Slot :
        part'[i][q].state = IF i = j /\ q = p THEN s ELSE part[i][q].state
  BY <1>1, SetStateEffect DEF TypeOK, PartState
<1>3. LeaseInv'
  <2>1. RowsKept /\ TicketsKept
    BY DEF RowsKept, TicketsKept, Holding
  <2> QED
    BY <2>1, LeaseFrame DEF SendFacts
<1>4. SenderInv'
  <2>1. \A v \in Worker \ {w} : worker[v].pc = "waiting" =>
            part'[worker[v].job][worker[v].at].state = part[worker[v].job][worker[v].at].state
    BY <1>2, AnsweredFacts
  <2> QED
    BY <2>1, SenderFrame DEF Looping
<1>5. RequestInv'
  <2>1. ASSUME NEW r \in net PROVE part'[r.job][r.part].state \in {"sending", "unknown"}
    <3>1. r.job \in Job /\ r.part \in Slot
      BY RequestTypes
    <3>2. part[r.job][r.part].state \in {"sending", "unknown"}
      BY DEF SendFacts, RequestInv
    <3>3. r.job = j /\ r.part = p => s = "unknown"
      BY <1>1 DEF OnItsWay
    <3> QED
      BY <3>1, <3>2, <3>3, <1>2
  <2> QED
    BY <2>1 DEF SendFacts, RequestInv
<1>6. PostedInv'
  <2> SUFFICES ASSUME NEW i \in Job, NEW q \in Slot
               PROVE  /\ copies[i][q] <= 1
                      /\ copies[i][q] = 1 => part'[i][q].state \in {"sending", "sent", "unknown"}
                      /\ part'[i][q].state = "sent" => copies[i][q] = 1
    BY DEF PostedInv
  <2>1. /\ copies[i][q] <= 1
        /\ copies[i][q] = 1 => part[i][q].state \in {"sending", "sent", "unknown"}
        /\ part[i][q].state = "sent" => copies[i][q] = 1
    BY DEF SendFacts, PostedInv
  <2>2. CASE i = j /\ q = p
    BY <2>1, <2>2, <1>1, <1>2
  <2>3. CASE ~(i = j /\ q = p)
    BY <2>1, <2>3, <1>2
  <2> QED
    BY <2>2, <2>3
<1>7. SnapshotInv'
  <2> SUFFICES ASSUME NEW v \in Worker, worker'[v].pc \in Looping, delivery_is_owned(v)',
                      NEW q \in Slot,
                      q > worker'[v].at \/ (q = worker'[v].at /\ worker'[v].pc = "loop"),
                      worker'[v].snap[q].state = "pending"
               PROVE  part'[worker'[v].job][q].state = "pending"
    BY DEF SnapshotInv
  <2>1. worker'[v] = worker[v] /\ worker[v].pc \in Holding /\ delivery_is_owned(v)
    BY DEF delivery_is_owned, Looping, Holding
  <2>2. worker[v].job \in Job
    BY <2>1, BusyTask
  <2>3. part[worker[v].job][q].state = "pending"
    BY <2>1 DEF SendFacts, SnapshotInv
  <2> QED
    BY <2>1, <2>2, <2>3, <1>1, <1>2
<1> QED
  BY <1>3, <1>4, <1>5, <1>6, <1>7 DEF SendFacts

LEMMA LeaveEffect ==
  ASSUME TypeOK, NEW w \in Worker, NEW pc \in Phase, Leave(w, pc)
  PROVE  /\ worker'[w].pc = pc /\ worker'[w].job = worker[w].job
         /\ worker'[w].ticket = worker[w].ticket
         /\ \A v \in Worker \ {w} : worker'[v] = worker[v]
BY DEF Leave, Idle, TypeOK

LEMMA RejectPartStep ==
  ASSUME TypeOK, SendFacts, NEW w \in Worker, RejectPart(w)
  PROVE  SendFacts'
<1>1. worker[w].pc = "waiting" /\ worker[w].reply = "rejected"
  BY DEF RejectPart, Replied
<1>2. /\ worker'[w].pc = "failing" /\ worker'[w].job = worker[w].job
      /\ worker'[w].ticket = worker[w].ticket
      /\ \A v \in Worker \ {w} : worker'[v] = worker[v]
  BY LeaveEffect DEF RejectPart, Phase
<1>3. SetState(worker[w].job, worker[w].at, "pending") /\ UNCHANGED <<row, net, copies>>
  BY DEF RejectPart
<1> QED
  BY <1>1, <1>2, <1>3, OutcomeStep DEF Looping

LEMMA AmbiguousPartStep ==
  ASSUME TypeOK, SendFacts, NEW w \in Worker, AmbiguousPart(w)
  PROVE  SendFacts'
<1>1. worker[w].pc = "waiting"
  BY DEF AmbiguousPart, Replied
<1>2. /\ worker'[w].pc = "failingUnknown" /\ worker'[w].job = worker[w].job
      /\ worker'[w].ticket = worker[w].ticket
      /\ \A v \in Worker \ {w} : worker'[v] = worker[v]
  BY LeaveEffect DEF AmbiguousPart, Phase
<1>3. SetState(worker[w].job, worker[w].at, "unknown") /\ UNCHANGED <<row, net, copies>>
  BY DEF AmbiguousPart
<1> QED
  BY <1>1, <1>2, <1>3, OutcomeStep DEF Looping

LEMMA LegacyFallbackStep ==
  ASSUME TypeOK, SendFacts, NEW w \in Worker, LegacyFallback(w)
  PROVE  SendFacts'
<1> DEFINE j == worker[w].job
<1> DEFINE p == worker[w].at
<1>0. /\ worker[w].pc = "waiting" /\ worker[w].reply = "richRejected" /\ delivery_is_owned(w)
      /\ UNCHANGED <<row, net, copies>>
  BY DEF LegacyFallback, Replied
<1>1. /\ worker[w] \in Task /\ worker[w].pc = "waiting" /\ j \in Job /\ p \in Slot /\ p \in Nat
      /\ delivery_is_owned(w) /\ part[j][p].state = "sending"
      /\ ~OnItsWay(j, p) /\ copies[j][p] = 0
  BY <1>0, AnsweredFacts
<1>2. CASE Leave(w, "failingUnknown") /\ UNCHANGED part
  <2>1. Local
    BY <1>0, <1>1, <1>2, LeaveEffect
       DEF Local, RowsKept, TicketsKept, LoopsKept, Holding, Looping, Phase
  <2> QED
    BY <2>1, LocalStep DEF Local, SendInv, SendFacts
<1>3. CASE /\ part' = [part EXCEPT ![j][p] = [state |-> "pending", format |-> "html"]]
           /\ worker' = [worker EXCEPT ![w] = [@ EXCEPT !.pc = "loop", !.snap = part'[j]]]
  <2>1. /\ worker'[w].pc = "loop" /\ worker'[w].job = j /\ worker'[w].ticket = worker[w].ticket
        /\ worker'[w].at = p /\ worker'[w].snap = part'[j]
        /\ \A v \in Worker \ {w} : worker'[v] = worker[v]
    BY <1>1, <1>3 DEF TypeOK, Task
  <2>2. \A i \in Job : \A q \in Slot :
          part'[i][q].state = IF i = j /\ q = p THEN "pending" ELSE part[i][q].state
    BY <1>1, <1>3 DEF TypeOK
  <2>3. LeaseInv'
    <3>1. RowsKept /\ TicketsKept
      BY <1>0, <1>1, <2>1 DEF RowsKept, TicketsKept, Holding
    <3> QED
      BY <3>1, LeaseFrame DEF SendFacts
  <2>4. SenderInv'
    <3>1. \A v \in Worker \ {w} : worker[v].pc = "waiting" =>
              part'[worker[v].job][worker[v].at].state = part[worker[v].job][worker[v].at].state
      BY <1>0, <2>2, AnsweredFacts
    <3> QED
      BY <3>1, <2>1, <1>0, SenderFrame
  <2>5. RequestInv'
    BY <1>0, <1>1, <2>2, RequestTypes DEF SendFacts, RequestInv, OnItsWay
  <2>6. PostedInv'
    BY <1>0, <1>1, <2>2 DEF SendFacts, PostedInv
  <2>7. SnapshotInv'
    <3> SUFFICES ASSUME NEW v \in Worker, worker'[v].pc \in Looping, delivery_is_owned(v)',
                        NEW q \in Slot,
                        q > worker'[v].at \/ (q = worker'[v].at /\ worker'[v].pc = "loop"),
                        worker'[v].snap[q].state = "pending"
                 PROVE  part'[worker'[v].job][q].state = "pending"
      BY DEF SnapshotInv
    <3>1. CASE v = w
      BY <3>1, <2>1
    <3>2. CASE v # w
      <4>1. worker'[v] = worker[v] /\ worker[v].pc \in Holding /\ delivery_is_owned(v)
        BY <3>2, <2>1, <1>0 DEF delivery_is_owned, Looping, Holding
      <4>2. worker[v].job \in Job
        BY <4>1, BusyTask
      <4>3. part[worker[v].job][q].state = "pending"
        BY <3>2, <4>1, <2>1 DEF SendFacts, SnapshotInv
      <4> QED
        BY <4>1, <4>2, <4>3, <1>1, <2>2
    <3> QED
      BY <3>1, <3>2
  <2> QED
    BY <2>3, <2>4, <2>5, <2>6, <2>7 DEF SendFacts
<1> QED
  BY <1>2, <1>3 DEF LegacyFallback

-----------------------------------------------------------------------------
(* The theorems.                                                           *)

LEMMA InitSendInv == Init => SendInv
<1> SUFFICES ASSUME Init PROVE SendInv
  OBVIOUS
<1>1. TypeOK
  BY NoRowsType, IdleType, BoundAssumption DEF Init, TypeOK, Row, Status
<1>2. LeaseInv /\ SenderInv /\ RequestInv /\ SnapshotInv
  BY DEF Init, Idle, LeaseInv, SenderInv, RequestInv, SnapshotInv, Holding, Looping, Waiting
<1>3. PostedInv
  BY DEF Init, NoRows, PostedInv
<1> QED
  BY <1>1, <1>2, <1>3 DEF SendInv

LEMMA SendInvStep == SendInv /\ [Next]_vars => SendInv'
<1> SUFFICES ASSUME SendInv, [Next]_vars PROVE SendInv'
  OBVIOUS
<1>1. TypeOK /\ SendFacts
  BY DEF SendInv, SendFacts
<1>2. TypeOK'
  BY <1>1, TypeStep
<1> SUFFICES SendFacts'
  BY <1>2 DEF SendInv, SendFacts
<1>3. ASSUME Local PROVE SendFacts'
  BY <1>1, <1>3, LocalStep DEF Local, SendFacts
<1>4. ASSUME NEW j \in Job, Enqueue(j) \/ LeaseExpires(j) \/ Stall(j) \/ BackoffElapses(j)
      PROVE  SendFacts'
  BY <1>1, <1>3, <1>4, LocalActions
<1>5. ASSUME NEW w \in Worker, Claim(w) PROVE SendFacts'
  <2>1. CASE \E j \in Job : ClaimSelect(w, j)
    BY <1>1, <1>3, <2>1, LocalActions
  <2>2. CASE ClaimCommit(w)
    BY <1>1, <2>2, ClaimCommitStep
  <2> QED
    BY <1>5, <2>1, <2>2 DEF Claim
<1>6. ASSUME NEW w \in Worker, Deliver(w) PROVE SendFacts'
  <2>1. CASE \/ OpenLost(w) \/ OpenLegacy(w) \/ StopAtAmbiguous(w) \/ MarkLost(w)
             \/ PartsFinished(w) \/ OutcomeLost(w) \/ Announce(w)
    <3>1. Local
      BY <1>1, <2>1, LocalActions
    <3> QED
      BY <3>1, <1>3
  <2>2. CASE Open(w)
    BY <1>1, <2>2, OpenStep
  <2>3. CASE SkipPart(w)
    BY <1>1, <2>3, SkipPartStep
  <2>4. CASE MarkSending(w)
    BY <1>1, <2>4, MarkSendingStep
  <2>5. CASE RetryWithoutReply(w)
    BY <1>1, <2>5, RetryWithoutReplyStep
  <2>6. CASE RecordSent(w)
    BY <1>1, <2>6, RecordSentStep
  <2>7. CASE Fallback(w)
    BY <1>1, <2>7, FallbackStep
  <2>8. CASE LegacyFallback(w)
    BY <1>1, <2>8, LegacyFallbackStep
  <2>9. CASE RejectPart(w)
    BY <1>1, <2>9, RejectPartStep
  <2>10. CASE AmbiguousPart(w)
    BY <1>1, <2>10, AmbiguousPartStep
  <2> QED
    BY <1>6, <2>1, <2>2, <2>3, <2>4, <2>5, <2>6, <2>7, <2>8, <2>9, <2>10 DEF Deliver
<1>7. ASSUME NEW w \in Worker, Finish(w) \/ Heartbeat(w) \/ Misfortune(w) PROVE SendFacts'
  <2>1. Local
    BY <1>1, <1>7, LocalActions DEF Misfortune
  <2> QED
    BY <2>1, <1>3
<1>8. ASSUME NEW r \in net, TelegramAccept(r) PROVE SendFacts'
  BY <1>1, <1>8, TelegramAcceptStep
<1>9. ASSUME NEW r \in net, TelegramReject(r) PROVE SendFacts'
  BY <1>1, <1>9, TelegramRejectStep
<1>10. ASSUME NEW p \in Process, Crash(p) \/ Restart(p) PROVE SendFacts'
  <2>1. Local
    BY <1>1, <1>10, LocalActions
  <2> QED
    BY <2>1, <1>3
<1>11. CASE UNCHANGED vars
  <2>1. Local
    BY <1>1, <1>11, LocalActions
  <2> QED
    BY <2>1, <1>3
<1>12. CASE Next
  <2>1. CASE \E j \in Job : Enqueue(j) \/ LeaseExpires(j) \/ Stall(j) \/ BackoffElapses(j)
    BY <2>1, <1>4
  <2>2. CASE \E w \in Worker : Claim(w) \/ Deliver(w) \/ Finish(w) \/ Heartbeat(w) \/ Misfortune(w)
    BY <2>2, <1>5, <1>6, <1>7
  <2>3. CASE \E r \in net : TelegramAccept(r) \/ TelegramReject(r)
    BY <2>3, <1>8, <1>9
  <2>4. CASE \E p \in Process : Crash(p) \/ Restart(p)
    BY <2>4, <1>10
  <2> QED
    BY <1>12, <2>1, <2>2, <2>3, <2>4 DEF Next
<1> QED
  BY <1>11, <1>12

\* Every row, part, task and request keeps its type.
THEOREM TypeCorrect == Spec => []TypeOK
<1>1. Init => TypeOK
  BY InitSendInv DEF SendInv
<1> QED
  BY <1>1, TypeStep, PTL DEF Spec

\* Leases, requests on their way, posted parts and the copies of the rows that
\* the tasks act on agree in every reachable state.
THEOREM SendInvariant == Spec => []SendInv
BY InitSendInv, SendInvStep, PTL DEF Spec

LEMMA SendInvAtMostOnce == SendInv => AtMostOnce
<1> SUFFICES ASSUME SendInv, NEW j \in Job, NEW p \in Index(j) PROVE copies[j][p] <= 1
  BY DEF AtMostOnce
<1>1. p \in Slot
  BY PlanFacts
<1> QED
  BY <1>1 DEF SendInv, PostedInv

\* No part of an answer is posted twice, for any number of jobs, tasks,
\* processes, attempts and faults.
THEOREM NoPartTwice == Spec => []AtMostOnce
BY SendInvariant, SendInvAtMostOnce, PTL

\* Only the task that awaits Telegram, or the owner that is about to send, writes
\* to a part, and neither finds it "sent" or "unknown".
LEMMA NeverReopenedStep ==
  ASSUME SendInv, [Next]_vars, NEW j \in Job, NEW p \in Index(j),
         part[j][p].state \in {"sent", "unknown"}
  PROVE  part'[j][p].state = part[j][p].state
<1>1. TypeOK /\ SendFacts /\ p \in Slot
  BY PlanFacts DEF SendInv, SendFacts
<1>2. part \in [Job -> [Slot -> PartRow]]
  BY <1>1 DEF TypeOK
<1>3. ASSUME NEW i \in Job, NEW q \in Slot, NEW s \in PartState, SetState(i, q, s),
             part[i][q].state \notin {"sent", "unknown"}
      PROVE  part'[j][p].state = part[j][p].state
  BY <1>1, <1>2, <1>3, SetStateEffect
<1>4. ASSUME NEW w \in Worker, worker[w].pc = "waiting", NEW s \in PartState,
             SetState(worker[w].job, worker[w].at, s)
      PROVE  part'[j][p].state = part[j][p].state
  <2>1. worker[w].job \in Job /\ worker[w].at \in Slot
        /\ part[worker[w].job][worker[w].at].state = "sending"
    BY <1>1, <1>4, AnsweredFacts
  <2> QED
    BY <2>1, <1>3, <1>4
<1>5. ASSUME NEW w \in Worker, Open(w) PROVE part'[j][p].state = part[j][p].state
  <2>1. ~HasParts(worker[w].job) => worker[w].job # j
    BY <1>1 DEF HasParts
  <2>2. \A i \in Job : i # worker[w].job \/ HasParts(i) => part'[i] = part[i]
    BY <1>2, <1>5 DEF Open
  <2> QED
    BY <2>1, <2>2
<1>6. ASSUME NEW w \in Worker, MarkSending(w) PROVE part'[j][p].state = part[j][p].state
  <2>1. /\ worker[w].pc = "loop" /\ worker[w].job \in Job /\ worker[w].at \in Slot
        /\ delivery_is_owned(w) /\ worker[w].snap[worker[w].at].state = "pending"
    BY <1>1, <1>6, BusyTask, PlanFacts DEF MarkSending, At, Holding
  <2>2. part[worker[w].job][worker[w].at].state = "pending"
    BY <1>1, <2>1 DEF SendFacts, SnapshotInv, Looping
  <2> QED
    BY <2>1, <2>2, <1>3, <1>6 DEF MarkSending, PartState
<1>7. ASSUME NEW w \in Worker, RecordSent(w) PROVE part'[j][p].state = part[j][p].state
  BY <1>4, <1>7 DEF RecordSent, Replied, PartState
<1>8. ASSUME NEW w \in Worker, RejectPart(w) PROVE part'[j][p].state = part[j][p].state
  BY <1>4, <1>8 DEF RejectPart, Replied, PartState
<1>9. ASSUME NEW w \in Worker, AmbiguousPart(w) PROVE part'[j][p].state = part[j][p].state
  BY <1>4, <1>9 DEF AmbiguousPart, Replied, PartState
<1>10. ASSUME NEW w \in Worker, Fallback(w) PROVE part'[j][p].state = part[j][p].state
  <2>1. /\ worker[w].job \in Job /\ worker[w].at \in Slot
        /\ part[worker[w].job][worker[w].at].state = "sending"
    BY <1>1, <1>10, AnsweredFacts DEF Fallback, Replied
  <2>2. j # worker[w].job => part'[j] = part[j]
    BY <1>2, <1>10 DEF Fallback
  <2>3. j = worker[w].job => part'[j][p] = part[j][p]
    BY <1>1, <1>2, <1>10, <2>1 DEF Fallback
  <2> QED
    BY <2>2, <2>3
<1>11. ASSUME NEW w \in Worker, LegacyFallback(w) PROVE part'[j][p].state = part[j][p].state
  <2>1. /\ worker[w].job \in Job /\ worker[w].at \in Slot
        /\ part[worker[w].job][worker[w].at].state = "sending"
    BY <1>1, <1>11, AnsweredFacts DEF LegacyFallback, Replied
  <2> QED
    BY <1>1, <1>2, <1>11, <2>1 DEF LegacyFallback
<1>12. ASSUME UNCHANGED part PROVE part'[j][p].state = part[j][p].state
  BY <1>12
<1>13. CASE Next
  <2>1. ASSUME NEW i \in Job, Enqueue(i) \/ LeaseExpires(i) \/ Stall(i) \/ BackoffElapses(i)
        PROVE  UNCHANGED part
    BY <2>1 DEF Enqueue, LeaseExpires, Stall, BackoffElapses
  <2>2. ASSUME NEW w \in Worker, Claim(w) \/ Finish(w) \/ Heartbeat(w) \/ Misfortune(w)
        PROVE  UNCHANGED part
    BY <2>2 DEF Claim, ClaimSelect, ClaimCommit, Finish, complete_delivery_job,
       fail_delivery_job, on_delivery_failed, Heartbeat, heartbeat_delivery_job,
       HeartbeatCancels, Misfortune, ClaimFails, HandlerError, QueueHalts, HeartbeatFails
  <2>3. ASSUME NEW w \in Worker, Deliver(w) PROVE part'[j][p].state = part[j][p].state
    <3>1. CASE \/ OpenLost(w) \/ OpenLegacy(w) \/ SkipPart(w) \/ StopAtAmbiguous(w)
               \/ MarkLost(w) \/ PartsFinished(w) \/ RetryWithoutReply(w) \/ OutcomeLost(w)
               \/ Announce(w)
      BY <3>1 DEF OpenLost, OpenLegacy, SkipPart, StopAtAmbiguous, MarkLost, PartsFinished,
         RetryWithoutReply, OutcomeLost, Announce
    <3> QED
      BY <2>3, <3>1, <1>5, <1>6, <1>7, <1>8, <1>9, <1>10, <1>11 DEF Deliver
  <2>4. ASSUME NEW r \in net, TelegramAccept(r) \/ TelegramReject(r) PROVE UNCHANGED part
    BY <2>4 DEF TelegramAccept, TelegramReject
  <2>5. ASSUME NEW q \in Process, Crash(q) \/ Restart(q) PROVE UNCHANGED part
    BY <2>5 DEF Crash, Restart
  <2> QED
    BY <1>12, <1>13, <2>1, <2>2, <2>3, <2>4, <2>5 DEF Next
<1> QED
  BY <1>12, <1>13 DEF vars

\* A confirmed or ambiguous part is never made sendable again, whichever task
\* writes and whether or not it still holds the lease.
THEOREM ReopensNothing == Spec => NeverReopened
<1>1. SendInv /\ [Next]_vars =>
        [\A j \in Job : \A p \in Index(j) :
            part[j][p].state \in {"sent", "unknown"} =>
                part'[j][p].state = part[j][p].state]_vars
  BY NeverReopenedStep
<1> QED
  BY <1>1, SendInvariant, PTL DEF Spec, NeverReopened

-----------------------------------------------------------------------------
(* What one step does to rows, tasks, requests and parts.                  *)

\* Parts that the loop walks past, and parts that were sent at least once.
Passed(j, p) == part[j][p].state \in {"sent", "standby", "fallback"}
Begun(j, p) == part[j][p].state \in {"sending", "sent", "unknown", "fallback"}

\* A job changes its status when it is stored, when a claim commits, or with the
\* verdict of its owner, for which nobody may be claiming it.
RowMoves(j) ==
    \/ row'[j].status = row[j].status /\ row'[j].lease = row[j].lease
    \/ Enqueue(j) /\ row[j].status = "absent" /\ row'[j].status = "pending"
    \/ \E w \in Worker : /\ worker[w].pc = "claiming" /\ worker[w].job = j
                         /\ row'[j].status = "processing"
                         /\ row'[j].lease = row[j].attempts + 1
    \/ \E w \in Worker :
         /\ worker[w].job = j /\ RowFree(j) /\ delivery_is_owned(w)
         /\ \/ worker[w].pc = "complete" /\ row'[j].status = "done"
            \/ /\ worker[w].pc \in {"failing", "failingUnknown"}
               /\ row'[j].status \in {"pending", "failed"}

\* A task holds on to its job; only some steps move it along the parts.
TaskMoves(w) ==
    /\ worker'[w].pc = "claiming" =>
         \/ worker[w].pc = "claiming" /\ worker'[w].job = worker[w].job
         \/ \E j \in Job : ClaimSelect(w, j)
    /\ worker'[w].pc \in Holding =>
         /\ worker[w].pc \in Holding \union {"claiming"}
         /\ worker'[w].job = worker[w].job
         /\ \/ worker'[w].pc = "open"
            \/ worker[w].pc \in Holding /\ worker'[w].ticket = worker[w].ticket
    /\ worker'[w].pc \in Looping =>
         \/ /\ worker[w].pc \in Looping
            /\ worker'[w].at = worker[w].at /\ worker'[w].snap = worker[w].snap
         \/ Open(w) \/ SkipPart(w) \/ RecordSent(w) \/ Fallback(w) \/ LegacyFallback(w)
    /\ worker'[w].pc \in {"announce", "complete"} =>
         worker[w].pc \in {"announce", "complete"} \/ PartsFinished(w)

\* Tasks in the loop make requests; Telegram's posts are the only copies.
RequestMoves ==
    /\ \A r \in net' \ net :
          \E w \in Worker : worker[w].pc \in Looping /\ worker[w].job = r.job
    /\ copies' = copies \/ \E r \in net : TelegramAccept(r)

Moves ==
    /\ \A j \in Job : RowMoves(j)
    /\ \A w \in Worker : TaskMoves(w)
    /\ RequestMoves

LEMMA StandStill ==
  ASSUME NEW w \in Worker, worker'[w] = worker[w]
  PROVE  TaskMoves(w)
BY DEF TaskMoves, Holding, Looping

LEMMA OneTaskMoves ==
  ASSUME TypeOK, NEW w \in Worker, NEW t, worker' = [worker EXCEPT ![w] = t], TaskMoves(w)
  PROVE  \A v \in Worker : TaskMoves(v)
<1>1. \A v \in Worker \ {w} : worker'[v] = worker[v]
  BY DEF TypeOK
<1> QED
  BY <1>1, StandStill

LEMMA RowsStandStill ==
  ASSUME UNCHANGED row
  PROVE  \A j \in Job : RowMoves(j)
BY DEF RowMoves

LEMMA LeaveMoves ==
  ASSUME TypeOK, NEW w \in Worker, worker[w].pc \in Holding,
         \/ Leave(w, "failing") \/ Leave(w, "failingUnknown")
         \/ Leave(w, "announce") /\ PartsFinished(w)
         \/ Leave(w, "complete") /\ worker[w].pc = "announce"
  PROVE  \A v \in Worker : TaskMoves(v)
<1>1. /\ worker'[w].job = worker[w].job /\ worker'[w].ticket = worker[w].ticket
      /\ \A v \in Worker \ {w} : worker'[v] = worker[v]
      /\ \/ worker'[w].pc \in {"failing", "failingUnknown"}
         \/ worker'[w].pc = "announce" /\ PartsFinished(w)
         \/ worker'[w].pc = "complete" /\ worker[w].pc = "announce"
  <2>1. CASE Leave(w, "failing")
    BY <2>1, LeaveEffect DEF Phase
  <2>2. CASE Leave(w, "failingUnknown")
    BY <2>2, LeaveEffect DEF Phase
  <2>3. CASE Leave(w, "announce") /\ PartsFinished(w)
    BY <2>3, LeaveEffect DEF Phase
  <2>4. CASE Leave(w, "complete") /\ worker[w].pc = "announce"
    BY <2>4, LeaveEffect DEF Phase
  <2> QED
    BY <2>1, <2>2, <2>3, <2>4
<1>2. TaskMoves(w)
  BY <1>1 DEF TaskMoves, Holding, Looping
<1> QED
  BY <1>1, <1>2, StandStill

\* Every step is one of these.
LEMMA StepMoves ==
  ASSUME TypeOK, [Next]_vars
  PROVE  Moves
<1>a. row \in [Job -> Row] /\ worker \in [Worker -> Task]
  BY DEF TypeOK
<1>b. \A w \in Worker : worker[w].pc = "idle" \/ worker[w].job \in Job
  BY <1>a DEF Task
<1>1. ASSUME NEW j \in Job, Enqueue(j) PROVE Moves
  <2>1. \A i \in Job : RowMoves(i)
    <3>1. RowMoves(j)
      BY <1>1, <1>a DEF RowMoves, Enqueue, Row
    <3>2. \A i \in Job \ {j} : row'[i] = row[i]
      BY <1>1, <1>a DEF Enqueue
    <3> QED
      BY <3>1, <3>2 DEF RowMoves
  <2>2. UNCHANGED <<worker, net, copies>>
    BY <1>1 DEF Enqueue
  <2> QED
    BY <2>1, <2>2, StandStill DEF Moves, RequestMoves
<1>2. ASSUME NEW j \in Job, LeaseExpires(j) \/ Stall(j) \/ BackoffElapses(j) PROVE Moves
  <2>1. \A i \in Job : row'[i].status = row[i].status /\ row'[i].lease = row[i].lease
    BY <1>2, <1>a DEF LeaseExpires, Stall, BackoffElapses, Row
  <2>2. UNCHANGED <<worker, net, copies>>
    BY <1>2 DEF LeaseExpires, Stall, BackoffElapses
  <2> QED
    BY <2>1, <2>2, StandStill DEF Moves, RowMoves, RequestMoves
<1>3. ASSUME NEW w \in Worker, NEW j \in Job, ClaimSelect(w, j) PROVE Moves
  <2>1. TaskMoves(w)
    BY <1>3, <1>a DEF ClaimSelect, TaskMoves, Idle, Holding, Looping
  <2>2. UNCHANGED <<row, net, copies>>
    BY <1>3 DEF ClaimSelect
  <2> QED
    BY <1>3, <2>1, <2>2, OneTaskMoves, RowsStandStill DEF Moves, RequestMoves, ClaimSelect
<1>4. ASSUME NEW w \in Worker, ClaimCommit(w) PROVE Moves
  <2>1. worker[w].job \in Job /\ worker[w].pc = "claiming"
    BY <1>4, <1>b DEF ClaimCommit
  <2>2. RowMoves(worker[w].job)
    BY <1>4, <2>1, <1>a DEF ClaimCommit, RowMoves, Row
  <2>3. \A i \in Job \ {worker[w].job} : row'[i] = row[i]
    BY <1>4, <2>1, <1>a DEF ClaimCommit
  <2>4. \A i \in Job : RowMoves(i)
    BY <2>2, <2>3 DEF RowMoves
  <2>5. TaskMoves(w)
    BY <1>4, <1>a, <2>1 DEF ClaimCommit, TaskMoves, Task, Holding, Looping
  <2>6. \A v \in Worker : TaskMoves(v)
    BY <1>4, <2>5, OneTaskMoves DEF ClaimCommit
  <2> QED
    BY <1>4, <2>4, <2>6 DEF Moves, RequestMoves, ClaimCommit
<1>5. ASSUME NEW w \in Worker, worker' = [worker EXCEPT ![w] = Idle],
             UNCHANGED <<row, net, copies>>
      PROVE  Moves
  <2>1. TaskMoves(w)
    BY <1>5, <1>a DEF TaskMoves, Idle, Holding, Looping
  <2> QED
    BY <1>5, <2>1, OneTaskMoves, RowsStandStill DEF Moves, RequestMoves
<1>6. ASSUME \A w \in Worker : worker'[w] \in {worker[w], Idle}, UNCHANGED <<row, net, copies>>
      PROVE  Moves
  <2>1. \A w \in Worker : TaskMoves(w)
    BY <1>6 DEF TaskMoves, Idle, Holding, Looping
  <2> QED
    BY <1>6, <2>1, RowsStandStill DEF Moves, RequestMoves
<1>7. ASSUME NEW w \in Worker,
             \/ OpenLost(w) \/ OpenLegacy(w) \/ StopAtAmbiguous(w) \/ MarkLost(w)
             \/ OutcomeLost(w) \/ PartsFinished(w) \/ Announce(w) \/ HandlerError(w)
             \/ RejectPart(w) \/ AmbiguousPart(w)
      PROVE  Moves
  <2>1. /\ worker[w].pc \in Holding
        /\ \/ Leave(w, "failing") \/ Leave(w, "failingUnknown")
           \/ Leave(w, "announce") /\ PartsFinished(w)
           \/ Leave(w, "complete") /\ worker[w].pc = "announce"
    BY <1>7 DEF OpenLost, OpenLegacy, StopAtAmbiguous, MarkLost, OutcomeLost, PartsFinished,
       Announce, HandlerError, RejectPart, AmbiguousPart, At, Replied, Holding
  <2>2. UNCHANGED <<row, net, copies>>
    BY <1>7 DEF OpenLost, OpenLegacy, StopAtAmbiguous, MarkLost, OutcomeLost, PartsFinished,
       Announce, HandlerError, RejectPart, AmbiguousPart
  <2>3. \A v \in Worker : TaskMoves(v)
    BY <2>1, LeaveMoves
  <2> QED
    BY <2>2, <2>3, RowsStandStill DEF Moves, RequestMoves
<1>8. ASSUME NEW w \in Worker, Open(w) \/ SkipPart(w) PROVE Moves
  <2>1. /\ worker[w].pc \in {"open", "loop"} /\ worker'[w].pc = "loop"
        /\ worker'[w].job = worker[w].job /\ worker'[w].ticket = worker[w].ticket
    <3>1. worker[w] \in Task
      BY <1>a
    <3>2. CASE Open(w)
      BY <1>a, <3>1, <3>2 DEF Open, Task
    <3>3. CASE SkipPart(w)
      BY <1>a, <3>1, <3>3 DEF SkipPart, At, Task
    <3> QED
      BY <1>8, <3>2, <3>3
  <2>4. TaskMoves(w)
    BY <1>8, <2>1 DEF TaskMoves, Holding, Looping
  <2>2. \A v \in Worker : TaskMoves(v)
    BY <1>8, <2>4, OneTaskMoves DEF Open, SkipPart
  <2>3. UNCHANGED <<row, net, copies>>
    BY <1>8 DEF Open, SkipPart
  <2> QED
    BY <2>2, <2>3, RowsStandStill DEF Moves, RequestMoves
<1>9. ASSUME NEW w \in Worker, MarkSending(w) \/ RetryWithoutReply(w) PROVE Moves
  <2>1. worker[w].pc \in Looping
    BY <1>9 DEF MarkSending, RetryWithoutReply, At, Replied, Looping
  <2>5. /\ worker'[w].pc = "waiting"
        /\ worker'[w].job = worker[w].job /\ worker'[w].ticket = worker[w].ticket
        /\ worker'[w].at = worker[w].at /\ worker'[w].snap = worker[w].snap
    <3>1. worker[w] \in Task
      BY <1>a
    <3>2. CASE MarkSending(w)
      BY <1>a, <3>1, <3>2 DEF MarkSending, Task
    <3>3. CASE RetryWithoutReply(w)
      BY <1>a, <3>1, <3>3 DEF RetryWithoutReply, Replied, Task
    <3> QED
      BY <1>9, <3>2, <3>3
  <2>2. TaskMoves(w)
    BY <2>1, <2>5 DEF TaskMoves, Holding, Looping
  <2>3. \A v \in Worker : TaskMoves(v)
    BY <1>9, <2>2, OneTaskMoves DEF MarkSending, RetryWithoutReply
  <2>4. RequestMoves
    BY <1>9, <2>1 DEF MarkSending, RetryWithoutReply, RequestMoves, Request
  <2> QED
    BY <1>9, <2>3, <2>4, RowsStandStill DEF Moves, MarkSending, RetryWithoutReply
<1>10. ASSUME NEW w \in Worker, RecordSent(w) \/ Fallback(w) PROVE Moves
  <2>4. /\ worker[w].pc = "waiting" /\ worker'[w].pc = "loop"
        /\ worker'[w].job = worker[w].job /\ worker'[w].ticket = worker[w].ticket
    <3>1. worker[w] \in Task
      BY <1>a
    <3>2. CASE RecordSent(w)
      BY <1>a, <3>1, <3>2 DEF RecordSent, Replied, Task
    <3>3. CASE Fallback(w)
      BY <1>a, <3>1, <3>3 DEF Fallback, Replied, Task
    <3> QED
      BY <1>10, <3>2, <3>3
  <2>1. TaskMoves(w)
    BY <1>10, <2>4 DEF TaskMoves, Holding, Looping
  <2>2. \A v \in Worker : TaskMoves(v)
    BY <1>10, <2>1, OneTaskMoves DEF RecordSent, Fallback
  <2>3. UNCHANGED <<row, net, copies>>
    BY <1>10 DEF RecordSent, Fallback
  <2> QED
    BY <2>2, <2>3, RowsStandStill DEF Moves, RequestMoves
<1>11. ASSUME NEW w \in Worker, LegacyFallback(w) PROVE Moves
  <2>1. UNCHANGED <<row, net, copies>> /\ worker[w].pc = "waiting"
    BY <1>11 DEF LegacyFallback, Replied
  <2>2. CASE Leave(w, "failingUnknown")
    <3>1. \A v \in Worker : TaskMoves(v)
      BY <2>1, <2>2, LeaveMoves DEF Holding
    <3> QED
      BY <2>1, <3>1, RowsStandStill DEF Moves, RequestMoves
  <2>3. CASE worker' = [worker EXCEPT ![w] = [@ EXCEPT !.pc = "loop",
                                                       !.snap = part'[worker[w].job]]]
    <3>1. TaskMoves(w)
      BY <1>11, <1>a, <2>1, <2>3 DEF TaskMoves, Task, Holding, Looping
    <3> QED
      BY <2>1, <2>3, <3>1, OneTaskMoves, RowsStandStill DEF Moves, RequestMoves
  <2> QED
    BY <1>11, <2>2, <2>3 DEF LegacyFallback
<1>12. ASSUME NEW w \in Worker, complete_delivery_job(w) PROVE Moves
  <2>1. worker[w].job \in Job
    BY <1>12, <1>b DEF complete_delivery_job
  <2>2. \A i \in Job : RowMoves(i)
    BY <1>12, <1>a, <2>1 DEF complete_delivery_job, RowMoves, Row
  <2>3. TaskMoves(w)
    BY <1>12, <1>a DEF complete_delivery_job, TaskMoves, Idle, Holding, Looping
  <2> QED
    BY <1>12, <2>2, <2>3, OneTaskMoves DEF complete_delivery_job, Moves, RequestMoves
<1>13. ASSUME NEW w \in Worker, fail_delivery_job(w) PROVE Moves
  <2>1. worker[w].job \in Job
    BY <1>13, <1>b DEF fail_delivery_job
  <2>2. \A i \in Job : RowMoves(i)
    BY <1>13, <1>a, <2>1 DEF fail_delivery_job, RowMoves, Row
  <2>3. TaskMoves(w)
    BY <1>13, <1>a DEF fail_delivery_job, TaskMoves, Task, Idle, Holding, Looping
  <2> QED
    BY <1>13, <2>2, <2>3, OneTaskMoves DEF fail_delivery_job, Moves, RequestMoves
<1>14. ASSUME NEW w \in Worker, heartbeat_delivery_job(w) PROVE Moves
  <2>1. worker[w].job \in Job
    BY <1>14, <1>b DEF heartbeat_delivery_job, Holding
  <2>2. \A i \in Job : row'[i].status = row[i].status /\ row'[i].lease = row[i].lease
    BY <1>14, <1>a, <2>1 DEF heartbeat_delivery_job, Row
  <2>3. UNCHANGED <<worker, net, copies>>
    BY <1>14 DEF heartbeat_delivery_job
  <2> QED
    BY <2>2, <2>3, StandStill DEF Moves, RowMoves, RequestMoves
<1>15. ASSUME NEW r \in net, TelegramAccept(r) \/ TelegramReject(r) PROVE Moves
  <2>1. PICK reply \in Reply : Answer(r, reply)
    BY <1>15 DEF TelegramAccept, TelegramReject, Reply
  <2>2. \A w \in Worker : /\ worker'[w].pc = worker[w].pc /\ worker'[w].job = worker[w].job
                          /\ worker'[w].at = worker[w].at
                          /\ worker'[w].ticket = worker[w].ticket
                          /\ worker'[w].snap = worker[w].snap
    BY <2>1, AnswerEffect
  <2>3. \A w \in Worker : TaskMoves(w)
    BY <2>2 DEF TaskMoves, Holding, Looping
  <2>4. RequestMoves
    BY <1>15 DEF RequestMoves, TelegramAccept, TelegramReject
  <2> QED
    BY <1>15, <2>3, <2>4, RowsStandStill DEF Moves, TelegramAccept, TelegramReject
<1>16. ASSUME NEW w \in Worker, Finish(w) \/ Heartbeat(w) \/ Misfortune(w) PROVE Moves
  <2>1. CASE ClaimFails(w) \/ HeartbeatCancels(w) \/ HeartbeatFails(w) \/ on_delivery_failed(w)
    BY <2>1, <1>5 DEF ClaimFails, HeartbeatCancels, HeartbeatFails, on_delivery_failed
  <2>2. CASE QueueHalts(w)
    BY <2>2, <1>6 DEF QueueHalts
  <2> QED
    BY <1>16, <2>1, <2>2, <1>7, <1>12, <1>13, <1>14 DEF Finish, Heartbeat, Misfortune
<1>17. ASSUME NEW w \in Worker, Deliver(w) PROVE Moves
  BY <1>17, <1>7, <1>8, <1>9, <1>10, <1>11 DEF Deliver
<1>18. ASSUME NEW p \in Process, Crash(p) \/ Restart(p) PROVE Moves
  BY <1>18, <1>6 DEF Crash, Restart
<1>19. CASE UNCHANGED vars
  BY <1>19, <1>6 DEF vars
<1>20. CASE Next
  <2>1. CASE \E j \in Job : Enqueue(j) \/ LeaseExpires(j) \/ Stall(j) \/ BackoffElapses(j)
    BY <2>1, <1>1, <1>2
  <2>2. CASE \E w \in Worker : Claim(w) \/ Deliver(w) \/ Finish(w) \/ Heartbeat(w) \/ Misfortune(w)
    BY <2>2, <1>3, <1>4, <1>16, <1>17 DEF Claim
  <2>3. CASE \E r \in net : TelegramAccept(r) \/ TelegramReject(r)
    BY <2>3, <1>15
  <2>4. CASE \E p \in Process : Crash(p) \/ Restart(p)
    BY <2>4, <1>18
  <2> QED
    BY <1>20, <2>1, <2>2, <2>3, <2>4 DEF Next
<1> QED
  BY <1>19, <1>20

-----------------------------------------------------------------------------
(* Claims and the order within a chat.                                     *)

\* A job that is being claimed waits for that one task; a settled one is never
\* claimed again.
ClaimInv ==
    /\ \A w \in Worker : worker[w].pc = "claiming" =>
           row[worker[w].job].status \in {"pending", "processing"}
    /\ \A v, w \in Worker : /\ worker[v].pc = "claiming" /\ worker[w].pc = "claiming"
                            /\ worker[v].job = worker[w].job
                            => v = w

Settled(j) == row[j].status \in {"done", "failed"}

\* Whoever works on an answer, or has a request for it on its way, found every
\* older answer of the chat settled.
ChatInv ==
    \A i, j \in Job : Earlier(i, j) =>
        /\ row[j].status # "absent" => row[i].status # "absent"
        /\ row[j].status = "processing" => Settled(i)
        /\ \A w \in Worker :
              worker[w].pc \in Holding \union {"claiming"} /\ worker[w].job = j => Settled(i)
        /\ \A r \in net : r.job = j => Settled(i)

LEMMA ClaimInvStep ==
  ASSUME TypeOK, ClaimInv, [Next]_vars
  PROVE  ClaimInv'
<1>1. (\A j \in Job : RowMoves(j)) /\ (\A w \in Worker : TaskMoves(w))
  BY StepMoves DEF Moves
<1>2. \A w \in Worker : worker[w].pc = "claiming" => worker[w].job \in Job
  BY DEF TypeOK, Task
<1>3. ASSUME NEW j \in Job, NEW w \in Worker, worker[w].pc = "claiming", worker[w].job = j
      PROVE  row'[j].status \in {"pending", "processing"}
  <2>1. row[j].status \in {"pending", "processing"} /\ ~RowFree(j)
    BY <1>3 DEF ClaimInv, RowFree
  <2> QED
    BY <1>1, <2>1 DEF RowMoves
<1>4. ASSUME NEW w \in Worker, NEW j \in Job, ClaimSelect(w, j)
      PROVE  /\ RowFree(j) /\ row'[j].status \in {"pending", "processing"}
             /\ worker'[w].job = j /\ \A v \in Worker \ {w} : worker'[v] = worker[v]
  BY <1>4 DEF ClaimSelect, Claimable, TypeOK, Idle
<1>5. ASSUME NEW w \in Worker, worker'[w].pc = "claiming"
      PROVE  row'[worker'[w].job].status \in {"pending", "processing"}
  <2>1. CASE worker[w].pc = "claiming" /\ worker'[w].job = worker[w].job
    BY <2>1, <1>2, <1>3
  <2>2. CASE \E j \in Job : ClaimSelect(w, j)
    BY <2>2, <1>4
  <2> QED
    BY <1>1, <1>5, <2>1, <2>2 DEF TaskMoves
<1>6. ASSUME NEW v \in Worker, NEW w \in Worker, v # w,
             worker'[v].pc = "claiming", worker'[w].pc = "claiming",
             worker'[v].job = worker'[w].job
      PROVE  FALSE
  <2>1. ASSUME NEW x \in Worker, NEW y \in Worker, x # y, NEW j \in Job, ClaimSelect(x, j),
               worker'[y].pc = "claiming", worker'[x].job = worker'[y].job
        PROVE  FALSE
    BY <2>1, <1>4 DEF RowFree
  <2>2. /\ worker[v].pc = "claiming" /\ worker'[v].job = worker[v].job
        /\ worker[w].pc = "claiming" /\ worker'[w].job = worker[w].job
    BY <1>1, <1>6, <2>1 DEF TaskMoves
  <2> QED
    BY <1>6, <2>2 DEF ClaimInv
<1> QED
  BY <1>5, <1>6 DEF ClaimInv

\* A verdict is final: no task claims the job again, no late verdict changes it.
LEMMA VerdictStays ==
  ASSUME TypeOK, ClaimInv, [Next]_vars, NEW j \in Job, Settled(j)
  PROVE  row'[j].status = row[j].status
<1>1. RowMoves(j)
  BY StepMoves DEF Moves
<1>2. \A w \in Worker : ~(worker[w].pc = "claiming" /\ worker[w].job = j)
  BY DEF ClaimInv, Settled
<1>3. \A w \in Worker : worker[w].job = j => ~delivery_is_owned(w)
  BY DEF Settled, delivery_is_owned
<1> QED
  BY <1>1, <1>2, <1>3 DEF RowMoves, Settled

LEMMA ChatInvStep ==
  ASSUME ~LateCommit, TypeOK, ClaimInv, ChatInv, [Next]_vars
  PROVE  ChatInv'
<1>1. (\A j \in Job : RowMoves(j)) /\ (\A w \in Worker : TaskMoves(w)) /\ RequestMoves
  BY StepMoves DEF Moves
<1>2. \A j \in Job : row[j].status \in Status
  BY DEF TypeOK, Row
<1> SUFFICES ASSUME NEW i \in Job, NEW j \in Job, Earlier(i, j)
             PROVE  /\ row'[j].status # "absent" => row'[i].status # "absent"
                    /\ row'[j].status = "processing" => Settled(i)'
                    /\ \A w \in Worker :
                          /\ worker'[w].pc \in Holding \union {"claiming"}
                          /\ worker'[w].job = j
                          => Settled(i)'
                    /\ \A r \in net' : r.job = j => Settled(i)'
  BY DEF ChatInv, Earlier
<1>3. /\ row[j].status # "absent" => row[i].status # "absent"
      /\ row[j].status = "processing" => Settled(i)
      /\ \A w \in Worker :
            worker[w].pc \in Holding \union {"claiming"} /\ worker[w].job = j => Settled(i)
      /\ \A r \in net : r.job = j => Settled(i)
  BY DEF ChatInv
<1>4. Settled(i) => Settled(i)'
  BY VerdictStays DEF Settled
<1>5. ASSUME row'[j].status # "absent" PROVE row'[i].status # "absent"
  <2>1. row[i].status # "absent" => row'[i].status # "absent"
    BY <1>1 DEF RowMoves
  <2>2. CASE row[j].status # "absent"
    BY <1>3, <2>1, <2>2
  <2>3. CASE row[j].status = "absent"
    <3>1. (\A w \in Worker : ~(worker[w].pc = "claiming" /\ worker[w].job = j))
          /\ (\A w \in Worker : worker[w].job = j => ~delivery_is_owned(w))
      BY <2>3 DEF ClaimInv, delivery_is_owned
    <3>2. Enqueue(j)
      BY <1>1, <1>5, <2>3, <3>1 DEF RowMoves
    <3> QED
      BY <3>2, <2>1 DEF Enqueue
  <2> QED
    BY <2>2, <2>3
<1>6. ASSUME row'[j].status = "processing" PROVE Settled(i)'
  <2>1. \/ row[j].status = "processing"
        \/ \E w \in Worker : worker[w].pc = "claiming" /\ worker[w].job = j
    BY <1>1, <1>6 DEF RowMoves
  <2> QED
    BY <2>1, <1>3, <1>4
<1>7. ASSUME NEW w \in Worker, worker'[w].pc \in Holding \union {"claiming"}, worker'[w].job = j
      PROVE  Settled(i)'
  <2>1. CASE worker[w].pc \in Holding \union {"claiming"} /\ worker[w].job = j
    BY <2>1, <1>3, <1>4
  <2>2. CASE \E k \in Job : ClaimSelect(w, k)
    <3>1. ClaimSelect(w, j)
      BY <1>7, <2>2 DEF ClaimSelect, TypeOK, Idle
    <3>2. ~OlderInChat(j) /\ row[j].status # "absent"
      BY <3>1 DEF ClaimSelect, Claimable
    <3>3. Settled(i)
      BY <3>2, <1>2, <1>3 DEF OlderInChat, Settled, Status
    <3> QED
      BY <3>3, <1>4
  <2> QED
    BY <1>1, <1>7, <2>1, <2>2 DEF TaskMoves
<1>8. ASSUME NEW r \in net', r.job = j PROVE Settled(i)'
  <2>1. r \in net \/ \E w \in Worker : worker[w].pc \in Looping /\ worker[w].job = j
    BY <1>1, <1>8 DEF RequestMoves
  <2> QED
    BY <2>1, <1>3, <1>4, <1>8 DEF Looping, Holding
<1> QED
  BY <1>5, <1>6, <1>7, <1>8

LEMMA InitChat == Init => ClaimInv /\ ChatInv
BY DEF Init, Idle, ClaimInv, ChatInv, Holding

\* Answers that commit in the order in which they were created are worked on in
\* that order.
LEMMA ChatInvariant ==
  ASSUME ~LateCommit
  PROVE  Spec => [](TypeOK /\ ClaimInv /\ ChatInv)
<1>1. Init => TypeOK /\ ClaimInv /\ ChatInv
  BY InitSendInv, InitChat DEF SendInv
<1>2. TypeOK /\ ClaimInv /\ ChatInv /\ [Next]_vars => (TypeOK /\ ClaimInv /\ ChatInv)'
  BY TypeStep, ClaimInvStep, ChatInvStep
<1> QED
  BY <1>1, <1>2, PTL DEF Spec

\* Of two answers in one chat, one is older, and settled while the other is live.
LEMMA ChatInvOneDelivery ==
  ASSUME TypeOK, ChatInv
  PROVE  OneDeliveryPerChat
<1> SUFFICES ASSUME NEW i \in Job, NEW j \in Job, Live(i), Live(j), ChatOf[i] = ChatOf[j],
                    i # j
             PROVE  FALSE
  BY DEF OneDeliveryPerChat
<1>1. Created[i] \in Nat /\ Created[j] \in Nat /\ Created[i] # Created[j]
  BY CreatedAssumption
<1>2. Earlier(i, j) \/ Earlier(j, i)
  BY <1>1 DEF Earlier
<1> QED
  BY <1>2 DEF ChatInv, Settled, Live

\* If answers commit in the order of created_at, a chat never has two live
\* deliveries, not even between the SELECT of a claim and its commit.
THEOREM OneLiveDelivery ==
  ASSUME ~LateCommit
  PROVE  Spec => []OneDeliveryPerChat
<1>1. TypeOK /\ ChatInv => OneDeliveryPerChat
  BY ChatInvOneDelivery
<1> QED
  BY <1>1, ChatInvariant, PTL

\* If answers commit in the order of created_at, no part of one is posted before
\* every older answer of the chat is settled, late requests included.
THEOREM ChatsStayInOrder ==
  ASSUME ~LateCommit
  PROVE  Spec => ChatOrder
<1>1. ASSUME TypeOK, ChatInv, [Next]_vars, NEW i \in Job, NEW j \in Job,
             copies'[j] # copies[j], Earlier(i, j)
      PROVE  row[i].status \in {"done", "failed"}
  <2>1. PICK r \in net : TelegramAccept(r)
    BY <1>1, StepMoves DEF Moves, RequestMoves
  <2>2. r.job = j
    BY <1>1, <2>1 DEF TelegramAccept, TypeOK
  <2> QED
    BY <1>1, <2>2 DEF ChatInv, Settled
<1>2. TypeOK /\ ChatInv /\ [Next]_vars =>
        [\A j \in Job : copies'[j] # copies[j] =>
            \A i \in Job : Earlier(i, j) => row[i].status \in {"done", "failed"}]_vars
  BY <1>1
<1> QED
  BY <1>2, ChatInvariant, PTL DEF Spec, ChatOrder

-----------------------------------------------------------------------------
(* The parts of an answer.                                                 *)

\* Sending starts where everything before is over; children are dormant exactly
\* while their Rich part stands.
PartsInv ==
    \A j \in Job : \A p \in Index(j) :
        /\ Begun(j, p) => \A q \in Index(j) : q < p => Passed(j, q)
        /\ \A q \in Plan[j][p].children :
              part[j][q].state = "standby" <=> part[j][p].state \notin {"fallback", "absent"}
        /\ part[j][p].state = "standby" => IsChild(j, p)
        /\ part[j][p].state = "fallback" => Plan[j][p].children # {}

\* What the owner has behind it is over, whatever its copy of the rows says of
\* the rest; at the end of the loop everything is.
InLoop(w) ==
    /\ worker[w].at \in Nat \ {0}
    /\ \A p \in Index(worker[w].job) :
          /\ p < worker[w].at => Passed(worker[w].job, p)
          /\ worker[w].snap[p].state \in {"sent", "standby", "fallback"} =>
                Passed(worker[w].job, p)

AllPassed(j) == \A p \in Index(j) : Passed(j, p)

ProgressInv ==
    \A w \in Worker : worker[w].pc \in Holding /\ delivery_is_owned(w) =>
        /\ worker[w].pc \in Looping => InLoop(w)
        /\ worker[w].pc \in {"announce", "complete"} => AllPassed(worker[w].job)

DoneInv == \A j \in Job : row[j].status = "done" => AllPassed(j)

OutboxInv == SendInv /\ ClaimInv /\ PartsInv /\ ProgressInv /\ DoneInv

LEMMA ChildFacts ==
  ASSUME NEW j \in Job, NEW p \in Index(j), NEW q \in Plan[j][p].children
  PROVE  q \in Index(j) /\ q \in Slot /\ q \in Nat /\ p < q /\ Plan[j][q].children = {}
<1>1. Plan[j] \in Seq(PlanRow) /\ p \in DOMAIN Plan[j] /\ Len(Plan[j]) \in Nat
  BY PlanAssumption DEF Index
<1>2. q \in DOMAIN Plan[j] /\ Plan[j][q].format = "html"
  BY <1>1, PlanAssumption
<1>3. Plan[j][q].children = {}
  BY <1>2, PlanAssumption
<1>4. PICK n \in 0 .. MaxParts : Plan[j][p].children = p + 1 .. p + n
  BY <1>1, PlanAssumption
<1>5. q \in p + 1 .. p + n
  BY <1>4
<1>6. p < q
  BY <1>1, <1>5, PlanAssumption DEF Index
<1> QED
  BY <1>1, <1>2, <1>3, <1>6, PlanFacts DEF Index

\* The children of a part end where the next part begins.
LEMMA OneParent ==
  ASSUME NEW j \in Job, NEW p \in Index(j), NEW o \in Index(j),
         NEW q \in Plan[j][p].children, q \in Plan[j][o].children
  PROVE  p = o
<1>1. \A a, b \in Index(j) : q \in Plan[j][a].children /\ q \in Plan[j][b].children => ~(a < b)
  <2> SUFFICES ASSUME NEW a \in Index(j), NEW b \in Index(j), a < b,
                      q \in Plan[j][a].children, q \in Plan[j][b].children
               PROVE  FALSE
    OBVIOUS
  <2>1. a \in Nat /\ b \in Nat /\ a \in DOMAIN Plan[j]
    BY PlanAssumption DEF Index
  <2>2. PICK n \in 0 .. MaxParts : Plan[j][a].children = a + 1 .. a + n
    BY <2>1, PlanAssumption
  <2>3. q \in Nat /\ b < q
    BY ChildFacts
  <2>4. b \in Plan[j][a].children
    <3>1. n \in Nat
      BY PlanAssumption
    <3>2. q \in a + 1 .. a + n
      BY <2>2
    <3>3. b \in a + 1 .. a + n
      BY <2>1, <2>3, <3>1, <3>2
    <3> QED
      BY <2>2, <3>3
  <2>5. Plan[j][b].children = {}
    BY <2>4, ChildFacts
  <2> QED
    BY <2>5
<1>2. p \in Nat /\ o \in Nat
  BY DEF Index
<1> QED
  BY <1>1, <1>2

\* The effects of the steps that write to parts.
LEMMA FallbackEffect ==
  ASSUME TypeOK, SendFacts, PartsInv, NEW w \in Worker, Fallback(w)
  PROVE  LET j == worker[w].job
             p == worker[w].at
         IN  /\ j \in Job /\ p \in Index(j) /\ p \in Slot
             /\ worker[w].pc = "waiting" /\ delivery_is_owned(w)
             /\ Plan[j][p].children # {}
             /\ part[j][p].state = "sending"
             /\ \A i \in Job : i # j => part'[i] = part[i]
             /\ part'[j][p].state = "fallback"
             /\ \A q \in Plan[j][p].children : part'[j][q].state = "pending"
             /\ \A q \in Slot : q # p /\ q \notin Plan[j][p].children => part'[j][q] = part[j][q]
<1> DEFINE j == worker[w].job
<1> DEFINE p == worker[w].at
<1>1. worker[w].pc = "waiting" /\ delivery_is_owned(w) /\ Plan[j][p].children # {}
  BY DEF Fallback, Replied
<1>2. worker[w] \in Task /\ j \in Job /\ p \in Slot /\ part[j][p].state = "sending"
  BY <1>1, AnsweredFacts
<1>3. p \in Index(j)
  BY <1>1, <1>2 DEF Task
<1>4. \A q \in Plan[j][p].children : q \in Slot /\ q # p /\ part[j][q].state = "standby"
  BY <1>2, <1>3, ChildFacts DEF PartsInv, Index
<1>5. /\ \A i \in Job : i # j => part'[i] = part[i]
      /\ \A q \in Slot : part'[j][q] =
            IF q = p THEN [part[j][q] EXCEPT !.state = "fallback"]
            ELSE IF q \in Plan[j][p].children /\ part[j][q].state = "standby"
            THEN [part[j][q] EXCEPT !.state = "pending"]
            ELSE part[j][q]
  BY <1>2 DEF Fallback, TypeOK
<1>6. \A q \in Slot : part[j][q] \in PartRow
  BY <1>2 DEF TypeOK
<1>7. \A q \in Slot : /\ [part[j][q] EXCEPT !.state = "fallback"].state = "fallback"
                       /\ [part[j][q] EXCEPT !.state = "pending"].state = "pending"
  BY <1>6 DEF PartRow
<1>8. part'[j][p].state = "fallback"
  <2>1. part'[j][p] = [part[j][p] EXCEPT !.state = "fallback"]
    BY <1>2, <1>5
  <2> QED
    BY <1>2, <1>7, <2>1
<1>9. ASSUME NEW q \in Plan[j][p].children PROVE part'[j][q].state = "pending"
  <2>1. q \in Slot /\ q # p /\ part[j][q].state = "standby"
    BY <1>4
  <2>2. part'[j][q] = [part[j][q] EXCEPT !.state = "pending"]
    BY <1>5, <2>1
  <2> QED
    BY <1>7, <2>1, <2>2
<1> QED
  BY <1>1, <1>2, <1>3, <1>5, <1>8, <1>9

\* One row, from a state that is not over, to one that is not dormant.
RowWritten(j, p, s) ==
    /\ j \in Job /\ p \in Index(j) /\ part[j][p].state \in {"pending", "sending"}
    /\ s \in {"pending", "sending", "sent", "unknown"}
    /\ \A i \in Job : \A q \in Slot :
          part'[i][q].state = IF i = j /\ q = p THEN s ELSE part[i][q].state

\* No other row is written.
PartMoves ==
    \/ part' = part
    \/ \E w \in Worker :
          /\ Open(w) /\ ~HasParts(worker[w].job) /\ worker[w].job \in Job
          /\ part' = [part EXCEPT ![worker[w].job] = persistent_rows(worker[w].job)]
    \/ \E w \in Worker : MarkSending(w) /\ RowWritten(worker[w].job, worker[w].at, "sending")
    \/ \E w \in Worker : RecordSent(w) /\ RowWritten(worker[w].job, worker[w].at, "sent")
    \/ \E w \in Worker : Fallback(w)
    \/ \E w \in Worker : worker[w].pc = "waiting"
          /\ \E s \in {"pending", "unknown"} : RowWritten(worker[w].job, worker[w].at, s)

LEMMA StepPartMoves ==
  ASSUME TypeOK, SendFacts, [Next]_vars
  PROVE  PartMoves
<1>1. part \in [Job -> [Slot -> PartRow]]
  BY DEF TypeOK
<1>2. ASSUME NEW w \in Worker, worker[w].pc = "waiting",
             NEW s \in {"pending", "sent", "unknown"}, SetState(worker[w].job, worker[w].at, s)
      PROVE  RowWritten(worker[w].job, worker[w].at, s)
  <2>1. /\ worker[w] \in Task /\ worker[w].job \in Job /\ worker[w].at \in Slot
        /\ part[worker[w].job][worker[w].at].state = "sending"
    BY <1>2, AnsweredFacts
  <2>2. worker[w].at \in Index(worker[w].job)
    BY <1>2, <2>1 DEF Task
  <2>3. s \in PartState
    BY DEF PartState
  <2>4. \A i \in Job : \A q \in Slot :
          part'[i][q].state = IF i = worker[w].job /\ q = worker[w].at THEN s
                              ELSE part[i][q].state
    BY <1>1, <1>2, <2>1, <2>3, SetStateEffect
  <2> QED
    BY <2>1, <2>2, <2>4 DEF RowWritten
<1>3. ASSUME NEW w \in Worker, Open(w) PROVE PartMoves
  <2>1. worker[w].job \in Job
    BY <1>3, BusyTask DEF Open, Holding
  <2>2. CASE HasParts(worker[w].job)
    BY <1>1, <1>3, <2>1, <2>2 DEF Open, PartMoves
  <2>3. CASE ~HasParts(worker[w].job)
    BY <1>3, <2>1, <2>3 DEF Open, PartMoves
  <2> QED
    BY <2>2, <2>3
<1>4. ASSUME NEW w \in Worker, MarkSending(w) PROVE PartMoves
  <2>1. /\ worker[w].pc = "loop" /\ worker[w].job \in Job /\ worker[w].at \in Slot
        /\ worker[w].at \in Index(worker[w].job)
        /\ delivery_is_owned(w) /\ worker[w].snap[worker[w].at].state = "pending"
    BY <1>4, BusyTask, PlanFacts DEF MarkSending, At, Holding
  <2>2. part[worker[w].job][worker[w].at].state = "pending"
    BY <2>1 DEF SendFacts, SnapshotInv, Looping
  <2>3. \A i \in Job : \A q \in Slot :
          part'[i][q].state = IF i = worker[w].job /\ q = worker[w].at THEN "sending"
                              ELSE part[i][q].state
    BY <1>1, <1>4, <2>1, SetStateEffect DEF MarkSending, PartState
  <2> QED
    BY <1>4, <2>1, <2>2, <2>3 DEF PartMoves, RowWritten
<1>5. ASSUME NEW w \in Worker, RecordSent(w) PROVE PartMoves
  <2>1. RowWritten(worker[w].job, worker[w].at, "sent")
    BY <1>2, <1>5 DEF RecordSent, Replied
  <2> QED
    BY <1>5, <2>1 DEF PartMoves
<1>6. ASSUME NEW w \in Worker, RejectPart(w) \/ AmbiguousPart(w) PROVE PartMoves
  <2>1. PICK s \in {"pending", "unknown"} : SetState(worker[w].job, worker[w].at, s)
    BY <1>6 DEF RejectPart, AmbiguousPart
  <2>2. worker[w].pc = "waiting"
    BY <1>6 DEF RejectPart, AmbiguousPart, Replied
  <2>3. RowWritten(worker[w].job, worker[w].at, s)
    BY <2>1, <2>2, <1>2
  <2> QED
    BY <2>2, <2>3 DEF PartMoves
<1>7. ASSUME NEW w \in Worker, LegacyFallback(w) PROVE PartMoves
  <2>1. /\ worker[w].pc = "waiting" /\ worker[w] \in Task /\ worker[w].job \in Job
        /\ worker[w].at \in Slot /\ part[worker[w].job][worker[w].at].state = "sending"
    BY <1>7, AnsweredFacts DEF LegacyFallback, Replied
  <2>2. worker[w].at \in Index(worker[w].job)
    BY <2>1 DEF Task
  <2>3. CASE part' = [part EXCEPT ![worker[w].job][worker[w].at] =
                         [state |-> "pending", format |-> "html"]]
    <3>1. \A i \in Job : \A q \in Slot :
            part'[i][q].state = IF i = worker[w].job /\ q = worker[w].at THEN "pending"
                                ELSE part[i][q].state
      BY <1>1, <2>1, <2>3
    <3>2. RowWritten(worker[w].job, worker[w].at, "pending")
      BY <2>1, <2>2, <3>1 DEF RowWritten
    <3> QED
      BY <2>1, <3>2 DEF PartMoves
  <2> QED
    BY <1>7, <2>3 DEF LegacyFallback, PartMoves
<1>8. ASSUME NEW w \in Worker, Deliver(w) PROVE PartMoves
  <2>1. CASE \/ OpenLost(w) \/ OpenLegacy(w) \/ SkipPart(w) \/ StopAtAmbiguous(w)
             \/ MarkLost(w) \/ PartsFinished(w) \/ RetryWithoutReply(w) \/ OutcomeLost(w)
             \/ Announce(w)
    BY <2>1 DEF OpenLost, OpenLegacy, SkipPart, StopAtAmbiguous, MarkLost, PartsFinished,
       RetryWithoutReply, OutcomeLost, Announce, PartMoves
  <2>2. CASE Fallback(w)
    BY <2>2 DEF PartMoves
  <2> QED
    BY <1>8, <2>1, <2>2, <1>3, <1>4, <1>5, <1>6, <1>7 DEF Deliver
<1>9. CASE Next
  <2>1. ASSUME NEW i \in Job, Enqueue(i) \/ LeaseExpires(i) \/ Stall(i) \/ BackoffElapses(i)
        PROVE  UNCHANGED part
    BY <2>1 DEF Enqueue, LeaseExpires, Stall, BackoffElapses
  <2>2. ASSUME NEW w \in Worker, Claim(w) \/ Finish(w) \/ Heartbeat(w) \/ Misfortune(w)
        PROVE  UNCHANGED part
    BY <2>2 DEF Claim, ClaimSelect, ClaimCommit, Finish, complete_delivery_job,
       fail_delivery_job, on_delivery_failed, Heartbeat, heartbeat_delivery_job,
       HeartbeatCancels, Misfortune, ClaimFails, HandlerError, QueueHalts, HeartbeatFails
  <2>3. ASSUME NEW r \in net, TelegramAccept(r) \/ TelegramReject(r) PROVE UNCHANGED part
    BY <2>3 DEF TelegramAccept, TelegramReject
  <2>4. ASSUME NEW q \in Process, Crash(q) \/ Restart(q) PROVE UNCHANGED part
    BY <2>4 DEF Crash, Restart
  <2> QED
    BY <1>8, <1>9, <2>1, <2>2, <2>3, <2>4 DEF Next, PartMoves
<1> QED
  BY <1>9 DEF vars, PartMoves

\* What is over stays over, unless the owner falls back to the children.
LEMMA PassedStays ==
  ASSUME TypeOK, SendFacts, [Next]_vars, NEW j \in Job, NEW p \in Index(j), Passed(j, p),
         \A w \in Worker : worker[w].job = j => ~Fallback(w)
  PROVE  Passed(j, p)'
<1>1. p \in Slot
  BY PlanFacts
<1>2. ASSUME NEW i \in Job, NEW q \in Index(i), NEW s, RowWritten(i, q, s) PROVE Passed(j, p)'
  BY <1>1, <1>2 DEF Passed, RowWritten
<1>3. ASSUME part' = part PROVE Passed(j, p)'
  BY <1>3 DEF Passed
<1>4. ASSUME NEW w \in Worker, ~HasParts(worker[w].job), worker[w].job \in Job,
             part' = [part EXCEPT ![worker[w].job] = persistent_rows(worker[w].job)]
      PROVE  Passed(j, p)'
  <2>1. worker[w].job # j
    BY <1>1, <1>4 DEF HasParts, Passed
  <2>2. part'[j] = part[j]
    BY <1>4, <2>1 DEF TypeOK
  <2> QED
    BY <2>2 DEF Passed
<1>5. ASSUME NEW w \in Worker, Fallback(w) PROVE Passed(j, p)'
  <2>1. worker[w].job # j
    BY <1>5
  <2>2. worker[w].job \in Job
    BY <1>5, AnsweredFacts DEF Fallback, Replied
  <2>3. part'[j] = part[j]
    BY <1>5, <2>1, <2>2 DEF Fallback, TypeOK
  <2> QED
    BY <2>3 DEF Passed
<1>6. \A w \in Worker : \A s : RowWritten(worker[w].job, worker[w].at, s) => Passed(j, p)'
  BY <1>2 DEF RowWritten
<1> QED
  BY <1>3, <1>4, <1>5, <1>6, StepPartMoves DEF PartMoves

LEMMA RowWrittenKeeps ==
  ASSUME TypeOK, PartsInv, NEW j \in Job, NEW p \in Index(j), NEW s, RowWritten(j, p, s),
         \/ s = "pending" \/ part[j][p].state = "sending"
         \/ \A q \in Index(j) : q < p => Passed(j, q)
  PROVE  PartsInv'
<1>1. \A i \in Job : Index(i) \subseteq Slot
  BY PlanFacts
<1>2. /\ part[j][p].state \in {"pending", "sending"}
      /\ s \in {"pending", "sending", "sent", "unknown"}
      /\ \A i \in Job : \A q \in Slot :
            part'[i][q].state = IF i = j /\ q = p THEN s ELSE part[i][q].state
  BY DEF RowWritten
<1>3. \A i \in Job : \A q \in Index(i) : Passed(i, q) => Passed(i, q)'
  BY <1>1, <1>2 DEF Passed
<1>4. ASSUME NEW i \in Job, NEW o \in Index(i), Begun(i, o)', NEW q \in Index(i), q < o
      PROVE  Passed(i, q)'
  <2>1. CASE i = j /\ o = p
    <3>1. part[j][p].state = "sending" => Begun(j, p)
      BY DEF Begun
    <3>2. s # "pending"
      BY <1>1, <1>2, <1>4, <2>1 DEF Begun
    <3>3. Passed(i, q)
      BY <1>4, <2>1, <3>1, <3>2 DEF PartsInv
    <3> QED
      BY <3>3, <1>3
  <2>2. CASE ~(i = j /\ o = p)
    <3>1. Begun(i, o)
      BY <1>1, <1>2, <1>4, <2>2 DEF Begun
    <3> QED
      BY <3>1, <1>3, <1>4 DEF PartsInv
  <2> QED
    BY <2>1, <2>2
<1>5. ASSUME NEW i \in Job, NEW o \in Index(i), NEW q \in Plan[i][o].children
      PROVE  part'[i][q].state = "standby" <=> part'[i][o].state \notin {"fallback", "absent"}
  <2>1. part[i][q].state = "standby" <=> part[i][o].state \notin {"fallback", "absent"}
    BY DEF PartsInv
  <2>2. q \in Slot
    BY ChildFacts
  <2>3. part'[i][q].state = "standby" <=> part[i][q].state = "standby"
    BY <1>2, <2>2
  <2>4. part'[i][o].state \in {"fallback", "absent"} <=> part[i][o].state \in {"fallback", "absent"}
    BY <1>1, <1>2
  <2> QED
    BY <2>1, <2>3, <2>4
<1>6. ASSUME NEW i \in Job, NEW o \in Index(i)
      PROVE  /\ part'[i][o].state = "standby" => IsChild(i, o)
             /\ part'[i][o].state = "fallback" => Plan[i][o].children # {}
  <2>1. part'[i][o].state \in {"standby", "fallback"} => part[i][o].state = part'[i][o].state
    BY <1>1, <1>2
  <2> QED
    BY <2>1 DEF PartsInv
<1> QED
  BY <1>4, <1>5, <1>6 DEF PartsInv, IsChild

\* The parts after a fallback: a refused part and its children, woken up.
LEMMA FallbackRows ==
  ASSUME TypeOK, PartsInv, NEW j \in Job, NEW p \in Index(j),
         Plan[j][p].children # {}, part[j][p].state = "sending",
         \A i \in Job : i # j => part'[i] = part[i],
         part'[j][p].state = "fallback",
         \A q \in Plan[j][p].children : part'[j][q].state = "pending",
         \A q \in Slot : q # p /\ q \notin Plan[j][p].children => part'[j][q] = part[j][q]
  PROVE  PartsInv'
<1>1. /\ p \in Slot
      /\ \A q \in Slot : q # p /\ q \notin Plan[j][p].children => part'[j][q] = part[j][q]
  BY PlanFacts
<1>2. \A i \in Job : Index(i) \subseteq Slot /\ \A q \in Index(i) : q \in Nat
  BY PlanFacts DEF Index
<1>3. \A q \in Plan[j][p].children : q \in Index(j) /\ q \in Slot /\ p < q /\ Plan[j][q].children = {}
  BY <1>1, ChildFacts
<1>4. ASSUME NEW i \in Job, i # j, NEW o \in Index(i)
      PROVE  /\ Begun(i, o)' => \A q \in Index(i) : q < o => Passed(i, q)'
             /\ \A q \in Plan[i][o].children :
                  part'[i][q].state = "standby" <=> part'[i][o].state \notin {"fallback", "absent"}
             /\ part'[i][o].state = "standby" => IsChild(i, o)
             /\ part'[i][o].state = "fallback" => Plan[i][o].children # {}
  BY <1>1, <1>4 DEF PartsInv, Begun, Passed
<1>5. ASSUME NEW o \in Index(j), Begun(j, o)', NEW q \in Index(j), q < o
      PROVE  Passed(j, q)'
  <2>1. o \notin Plan[j][p].children
    BY <1>1, <1>5 DEF Begun
  <2>2. Begun(j, o)
    BY <1>1, <1>2, <1>5, <2>1 DEF Begun
  <2>3. Passed(j, q)
    BY <1>1, <1>5, <2>2 DEF PartsInv
  <2>4. ~Passed(j, p)
    BY <1>1 DEF Passed
  <2>5. ~(p < o)
    BY <1>1, <2>2, <2>4 DEF PartsInv
  <2>6. q < p
    BY <1>1, <1>2, <1>5, <2>5
  <2>7. q # p /\ q \notin Plan[j][p].children
    BY <1>1, <1>2, <1>3, <2>6
  <2>8. part'[j][q] = part[j][q]
    BY <1>1, <1>2, <2>7
  <2> QED
    BY <2>3, <2>8 DEF Passed
<1>6. ASSUME NEW o \in Index(j), NEW q \in Plan[j][o].children
      PROVE  part'[j][q].state = "standby" <=> part'[j][o].state \notin {"fallback", "absent"}
  <2>1. CASE o = p
    BY <1>1, <2>1
  <2>2. CASE o # p
    <3>1. q \in Slot /\ Plan[j][q].children = {}
      BY <1>1, ChildFacts
    <3>2. q \notin Plan[j][p].children
      BY <1>1, <2>2, OneParent
    <3>3. q # p
      BY <1>1, <3>1
    <3>4. part'[j][q] = part[j][q]
      BY <1>1, <3>1, <3>2, <3>3
    <3>5. o \notin Plan[j][p].children
      BY <1>3
    <3>6. part'[j][o] = part[j][o]
      BY <1>1, <1>2, <2>2, <3>5
    <3> QED
      BY <1>1, <3>4, <3>6 DEF PartsInv
  <2> QED
    BY <2>1, <2>2
<1>7. ASSUME NEW o \in Index(j)
      PROVE  /\ part'[j][o].state = "standby" => IsChild(j, o)
             /\ part'[j][o].state = "fallback" => Plan[j][o].children # {}
  <2>1. CASE o = p
    BY <1>1, <2>1
  <2>2. CASE o \in Plan[j][p].children
    BY <1>1, <2>2
  <2>3. CASE o # p /\ o \notin Plan[j][p].children
    <3>1. part'[j][o] = part[j][o]
      BY <1>1, <1>2, <2>3
    <3> QED
      BY <1>1, <3>1 DEF PartsInv
  <2> QED
    BY <2>1, <2>2, <2>3
<1> QED
  BY <1>4, <1>5, <1>6, <1>7 DEF PartsInv, IsChild

LEMMA FallbackKeeps ==
  ASSUME TypeOK, SendFacts, PartsInv, NEW w \in Worker, Fallback(w)
  PROVE  PartsInv'
<1>1. /\ worker[w].job \in Job /\ worker[w].at \in Index(worker[w].job)
      /\ Plan[worker[w].job][worker[w].at].children # {}
      /\ part[worker[w].job][worker[w].at].state = "sending"
      /\ \A i \in Job : i # worker[w].job => part'[i] = part[i]
      /\ part'[worker[w].job][worker[w].at].state = "fallback"
      /\ \A q \in Plan[worker[w].job][worker[w].at].children :
            part'[worker[w].job][q].state = "pending"
      /\ \A q \in Slot : /\ q # worker[w].at
                         /\ q \notin Plan[worker[w].job][worker[w].at].children
                         => part'[worker[w].job][q] = part[worker[w].job][q]
  BY FallbackEffect
<1> QED
  BY <1>1, FallbackRows

LEMMA OpenKeeps ==
  ASSUME TypeOK, PartsInv, NEW j \in Job, ~HasParts(j),
         part' = [part EXCEPT ![j] = persistent_rows(j)]
  PROVE  PartsInv'
<1>1. Index(j) \subseteq Slot
  BY PlanFacts
<1>2. \A p \in Index(j) : part'[j][p].state = IF IsChild(j, p) THEN "standby" ELSE "pending"
  BY <1>1 DEF persistent_rows, TypeOK
<1>3. \A i \in Job : i # j => part'[i] = part[i]
  BY DEF TypeOK
<1>4. ASSUME NEW i \in Job, i # j, NEW o \in Index(i)
      PROVE  /\ Begun(i, o)' => \A q \in Index(i) : q < o => Passed(i, q)'
             /\ \A q \in Plan[i][o].children :
                  part'[i][q].state = "standby" <=> part'[i][o].state \notin {"fallback", "absent"}
             /\ part'[i][o].state = "standby" => IsChild(i, o)
             /\ part'[i][o].state = "fallback" => Plan[i][o].children # {}
  BY <1>3, <1>4 DEF PartsInv, Begun, Passed
<1>5. ASSUME NEW o \in Index(j)
      PROVE  /\ ~Begun(j, o)'
             /\ \A q \in Plan[j][o].children :
                  part'[j][q].state = "standby" <=> part'[j][o].state \notin {"fallback", "absent"}
             /\ part'[j][o].state = "standby" => IsChild(j, o)
             /\ part'[j][o].state # "fallback"
  <2>1. part'[j][o].state \in {"standby", "pending"}
    BY <1>2
  <2>2. \A q \in Plan[j][o].children : part'[j][q].state = "standby"
    BY <1>2, ChildFacts DEF IsChild
  <2> QED
    BY <1>2, <2>1, <2>2 DEF Begun
<1> QED
  BY <1>4, <1>5 DEF PartsInv, IsChild

LEMMA PartsInvStep ==
  ASSUME TypeOK, SendFacts, PartsInv, ProgressInv, [Next]_vars
  PROVE  PartsInv'
<1>1. CASE part' = part
  BY <1>1 DEF PartsInv, Begun, Passed, IsChild
<1>2. ASSUME NEW w \in Worker, MarkSending(w), RowWritten(worker[w].job, worker[w].at, "sending")
      PROVE  PartsInv'
  <2>1. worker[w].pc = "loop" /\ delivery_is_owned(w)
    BY <1>2 DEF MarkSending, At
  <2>2. \A q \in Index(worker[w].job) : q < worker[w].at => Passed(worker[w].job, q)
    BY <2>1 DEF ProgressInv, Holding, Looping, InLoop
  <2> QED
    BY <1>2, <2>2, RowWrittenKeeps DEF RowWritten
<1>3. ASSUME NEW w \in Worker, worker[w].pc = "waiting", NEW s,
             RowWritten(worker[w].job, worker[w].at, s)
      PROVE  PartsInv'
  <2>1. part[worker[w].job][worker[w].at].state = "sending"
    BY <1>3, AnsweredFacts
  <2> QED
    BY <1>3, <2>1, RowWrittenKeeps DEF RowWritten
<1>4. ASSUME NEW w \in Worker, RecordSent(w), RowWritten(worker[w].job, worker[w].at, "sent")
      PROVE  PartsInv'
  BY <1>3, <1>4 DEF RecordSent, Replied
<1> QED
  BY <1>1, <1>2, <1>3, <1>4, OpenKeeps, FallbackKeeps, StepPartMoves DEF PartMoves

\* Who owns a job after a step held it before, or has just claimed it.
LEMMA OwnerStays ==
  ASSUME TypeOK, SendFacts, [Next]_vars, NEW w \in Worker,
         worker'[w].pc \in Holding, worker'[w].pc # "open", delivery_is_owned(w)'
  PROVE  /\ worker[w].pc \in Holding /\ worker[w].job \in Job
         /\ worker'[w].job = worker[w].job /\ delivery_is_owned(w)
<1>1. TaskMoves(w)
  BY StepMoves DEF Moves
<1>2. /\ worker[w].pc \in Holding /\ worker'[w].job = worker[w].job
      /\ worker'[w].ticket = worker[w].ticket
  BY <1>1 DEF TaskMoves
<1>3. worker[w] \in Task /\ worker[w].job \in Job
  BY <1>2, BusyTask
<1>4. /\ row'[worker[w].job].status = "processing"
      /\ row'[worker[w].job].lease = worker[w].ticket
  BY <1>2 DEF delivery_is_owned
<1>5. worker[w].ticket \in Nat /\ row[worker[w].job].attempts \in Nat
  BY <1>3 DEF Task, TypeOK, Row
<1>6. worker[w].ticket <= row[worker[w].job].attempts
  BY <1>2 DEF SendFacts, LeaseInv
<1>7. RowMoves(worker[w].job)
  BY <1>3, StepMoves DEF Moves
<1>8. row'[worker[w].job].status = row[worker[w].job].status
      /\ row'[worker[w].job].lease = row[worker[w].job].lease
  BY <1>4, <1>5, <1>6, <1>7 DEF RowMoves
<1> QED
  BY <1>2, <1>3, <1>4, <1>8 DEF delivery_is_owned

\* Only the owner falls back, so nobody else takes from what it has behind it.
LEMMA OwnersPassedStays ==
  ASSUME TypeOK, SendFacts, [Next]_vars, NEW w \in Worker, NEW j \in Job,
         worker[w].pc \in Holding, worker[w].job = j, delivery_is_owned(w), ~Fallback(w),
         NEW p \in Index(j), Passed(j, p)
  PROVE  Passed(j, p)'
<1>1. ASSUME NEW v \in Worker, worker[v].job = j, Fallback(v) PROVE FALSE
  <2>1. worker[v].pc = "waiting" /\ delivery_is_owned(v)
    BY <1>1 DEF Fallback, Replied
  <2>2. v = w
    BY <1>1, <2>1, OneOwner DEF SendFacts, Holding
  <2> QED
    BY <1>1, <2>2
<1> QED
  BY <1>1, PassedStays

LEMMA ProgressInvStep ==
  ASSUME TypeOK, SendFacts, PartsInv, ProgressInv, [Next]_vars
  PROVE  ProgressInv'
<1> SUFFICES ASSUME NEW w \in Worker, NEW j \in Job,
                    worker'[w].pc \in Holding, worker'[w].pc # "open", delivery_is_owned(w)',
                    worker[w].pc \in Holding, worker[w].job = j, worker'[w].job = j,
                    delivery_is_owned(w)
             PROVE  /\ worker'[w].pc \in Looping => InLoop(w)'
                    /\ worker'[w].pc \in {"announce", "complete"} =>
                          \A p \in Index(j) : Passed(j, p)'
  <2>1. ASSUME NEW w \in Worker, worker'[w].pc \in Holding, delivery_is_owned(w)',
               worker'[w].pc # "open"
        PROVE  /\ worker'[w].pc \in Looping => InLoop(w)'
               /\ worker'[w].pc \in {"announce", "complete"} => AllPassed(worker[w].job)'
    BY <2>1, OwnerStays DEF AllPassed, Index
  <2> QED
    BY <2>1 DEF ProgressInv, Looping
<1>1. \A p \in Index(j) : p \in Nat /\ p \in Slot /\ p >= 1
  BY PlanFacts DEF Index
<1>2. worker[w] \in Task
  BY BusyTask
<1>3. TaskMoves(w)
  BY StepMoves DEF Moves
<1>4. worker[w].pc \in Looping =>
        /\ worker[w].at \in Nat \ {0}
        /\ \A p \in Index(j) :
              /\ p < worker[w].at => Passed(j, p)
              /\ worker[w].snap[p].state \in {"sent", "standby", "fallback"} => Passed(j, p)
  BY DEF ProgressInv, InLoop
<1>5. ~Fallback(w) => \A p \in Index(j) : Passed(j, p) => Passed(j, p)'
  BY OwnersPassedStays
<1>6. ASSUME worker'[w].at \in Nat \ {0},
             \A p \in Index(j) :
                /\ p < worker'[w].at => Passed(j, p)'
                /\ worker'[w].snap[p].state \in {"sent", "standby", "fallback"} => Passed(j, p)'
      PROVE  InLoop(w)'
  BY <1>6 DEF InLoop, Passed, Index
<1>7. ASSUME worker'[w].pc \in Looping PROVE InLoop(w)'
  <2>1. CASE Fallback(w)
    <3>1. /\ worker'[w].at = worker[w].at /\ worker'[w].snap = part'[j]
          /\ worker[w].pc = "waiting"
      BY <1>2, <2>1 DEF Fallback, Replied, TypeOK, Task
    <3>2. /\ worker[w].at \in Index(j)
          /\ \A q \in Slot : q # worker[w].at /\ q \notin Plan[j][worker[w].at].children
                => part'[j][q] = part[j][q]
      BY <2>1, FallbackEffect
    <3>3. \A q \in Plan[j][worker[w].at].children : worker[w].at < q /\ q \in Nat
      BY <3>2, ChildFacts
    <3>4. ASSUME NEW p \in Index(j), p < worker[w].at PROVE Passed(j, p)'
      <4>1. part'[j][p] = part[j][p]
        BY <1>1, <3>2, <3>3, <3>4
      <4>2. Passed(j, p)
        BY <1>4, <3>1, <3>4 DEF Looping
      <4> QED
        BY <4>1, <4>2 DEF Passed
    <3> QED
      BY <1>4, <1>6, <3>1, <3>4 DEF Passed, Looping
  <2>2. CASE Open(w)
    <3>1. worker'[w].at = 1 /\ worker'[w].snap = part'[j]
      BY <1>2, <2>2 DEF Open, TypeOK, Task
    <3> QED
      BY <1>1, <1>6, <3>1 DEF Passed
  <2>3. CASE SkipPart(w)
    <3>1. /\ worker'[w].at = worker[w].at + 1 /\ worker'[w].snap = worker[w].snap
          /\ worker[w].pc = "loop"
          /\ worker[w].snap[worker[w].at].state \in {"sent", "standby", "fallback"}
          /\ ~Fallback(w)
      BY <1>2, <2>3 DEF SkipPart, At, TypeOK, Task, Fallback, Replied
    <3>2. \A p \in Index(j) : p < worker[w].at + 1 => p < worker[w].at \/ p = worker[w].at
      BY <1>1, <1>4, <3>1 DEF Looping
    <3> QED
      BY <1>4, <1>5, <1>6, <3>1, <3>2 DEF Looping
  <2>4. CASE RecordSent(w)
    <3>1. /\ worker'[w].at = worker[w].at + 1
          /\ worker'[w].snap = [worker[w].snap EXCEPT ![worker[w].at].state = "sent"]
          /\ worker[w].pc = "waiting" /\ SetState(j, worker[w].at, "sent")
      BY <1>2, <2>4 DEF RecordSent, Replied, TypeOK, Task
    <3>2. ~Fallback(w)
      BY <2>4 DEF RecordSent, Fallback, Replied
    <3>3. worker[w].at \in Slot /\ part \in [Job -> [Slot -> PartRow]]
      BY <3>1, BusyTask DEF TypeOK
    <3>4. part'[j][worker[w].at].state = "sent"
      BY <3>1, <3>3, SetStateEffect DEF PartState
    <3>6. \A p \in Index(j) : p < worker[w].at + 1 => p < worker[w].at \/ p = worker[w].at
      BY <1>1, <1>4, <3>1 DEF Looping
    <3>7. \A p \in Index(j) : p # worker[w].at => worker'[w].snap[p] = worker[w].snap[p]
      BY <1>1, <1>2, <3>1 DEF Task
    <3>8. \A p \in Index(j) : p = worker[w].at => Passed(j, p)'
      BY <3>4 DEF Passed
    <3> QED
      BY <1>4, <1>5, <1>6, <3>1, <3>2, <3>6, <3>7, <3>8 DEF Looping
  <2>5. CASE LegacyFallback(w)
    <3>1. /\ worker'[w].at = worker[w].at /\ worker'[w].snap = part'[j]
          /\ worker[w].pc = "waiting"
      <4>1. CASE Leave(w, "failingUnknown")
        BY <1>7, <4>1, LeaveEffect DEF Phase, Looping
      <4>2. CASE worker' = [worker EXCEPT ![w] = [@ EXCEPT !.pc = "loop", !.snap = part'[j]]]
        BY <1>2, <2>5, <4>2 DEF LegacyFallback, Replied, TypeOK, Task
      <4> QED
        BY <2>5, <4>1, <4>2 DEF LegacyFallback
    <3>2. ~Fallback(w)
      BY <2>5 DEF LegacyFallback, Fallback
    <3> QED
      BY <1>4, <1>5, <1>6, <3>1, <3>2 DEF Passed, Looping
  <2>6. CASE /\ worker[w].pc \in Looping /\ ~Fallback(w)
             /\ worker'[w].at = worker[w].at /\ worker'[w].snap = worker[w].snap
    BY <1>4, <1>5, <1>6, <2>6
  <2> QED
    BY <1>3, <1>7, <2>1, <2>2, <2>3, <2>4, <2>5, <2>6 DEF TaskMoves
<1>8. ASSUME worker'[w].pc \in {"announce", "complete"}, NEW p \in Index(j) PROVE Passed(j, p)'
  <2>1. CASE worker[w].pc \in {"announce", "complete"}
    <3>1. Passed(j, p) /\ ~Fallback(w)
      BY <2>1 DEF ProgressInv, AllPassed, Fallback, Replied
    <3> QED
      BY <3>1, <1>5
  <2>2. CASE PartsFinished(w)
    <3>1. worker[w].pc = "loop" /\ worker[w].at \notin Index(j) /\ ~Fallback(w)
      BY <2>2 DEF PartsFinished, Fallback, Replied
    <3>2. worker[w].at \in Nat \ {0}
      BY <1>4, <3>1 DEF Looping
    <3>3. p < worker[w].at
      BY <3>1, <3>2, PlanFacts DEF Index
    <3> QED
      BY <1>4, <1>5, <3>1, <3>3 DEF Looping
  <2> QED
    BY <1>3, <1>8, <2>1, <2>2 DEF TaskMoves
<1> QED
  BY <1>7, <1>8

LEMMA DoneInvStep ==
  ASSUME TypeOK, SendFacts, ClaimInv, ProgressInv, DoneInv, [Next]_vars
  PROVE  DoneInv'
<1> SUFFICES ASSUME NEW j \in Job, row'[j].status = "done", NEW p \in Index(j)
             PROVE  Passed(j, p)'
  BY DEF DoneInv, AllPassed, Index
<1>1. Passed(j, p)
  <2>1. CASE row[j].status = "done"
    BY <2>1 DEF DoneInv, AllPassed
  <2>2. CASE \E w \in Worker : /\ worker[w].job = j /\ delivery_is_owned(w)
                               /\ worker[w].pc = "complete"
    BY <2>2 DEF ProgressInv, AllPassed, Holding
  <2> QED
    BY <2>1, <2>2, StepMoves DEF Moves, RowMoves
<1>2. ASSUME NEW w \in Worker, worker[w].job = j, Fallback(w) PROVE FALSE
  BY <1>2 DEF Fallback, delivery_is_owned
<1> QED
  BY <1>1, <1>2, PassedStays

LEMMA OutboxInvStep == OutboxInv /\ [Next]_vars => OutboxInv'
<1> SUFFICES ASSUME OutboxInv, [Next]_vars PROVE OutboxInv'
  OBVIOUS
<1>1. TypeOK /\ SendInv /\ SendFacts /\ ClaimInv /\ PartsInv /\ ProgressInv /\ DoneInv
  BY DEF OutboxInv, SendInv, SendFacts
<1> QED
  BY <1>1, SendInvStep, ClaimInvStep, PartsInvStep, ProgressInvStep, DoneInvStep DEF OutboxInv

LEMMA InitOutboxInv == Init => OutboxInv
<1> SUFFICES ASSUME Init PROVE OutboxInv
  OBVIOUS
<1>1. SendInv /\ ClaimInv
  BY InitSendInv, InitChat
<1>2. \A j \in Job : \A p \in Slot : part[j][p].state = "absent"
  BY DEF Init, NoRows
<1>3. PartsInv
  <2>1. \A j \in Job : \A p \in Index(j) :
           p \in Slot /\ \A q \in Plan[j][p].children : q \in Slot
    BY PlanFacts, ChildFacts
  <2> QED
    BY <1>2, <2>1 DEF PartsInv, Begun
<1>4. ProgressInv /\ DoneInv
  BY DEF Init, Idle, ProgressInv, DoneInv, Holding
<1> QED
  BY <1>1, <1>3, <1>4 DEF OutboxInv

\* Dormant, open and finished parts of every answer, the copies of the rows that
\* owners act on and the verdicts agree in every reachable state.
THEOREM OutboxInvariant == Spec => []OutboxInv
BY InitOutboxInv, OutboxInvStep, PTL DEF Spec

-----------------------------------------------------------------------------
(* The outbox keeps its promise.                                           *)

\* The variables of the promise.
posts == [j \in Job |-> [p \in Index(j) |-> copies[j][p]]]
outcomes == [j \in Job |-> Outcome(j)]

\* Nothing is missing where the loop has passed: a part was sent, or stands in for
\* nothing as its Rich part was sent, or was replaced by children, sent in turn.
LEMMA PassedIsCovered ==
  ASSUME OutboxInv, NEW j \in Job, NEW upto \in Nat,
         \A p \in Index(j) : p < upto => Passed(j, p)
  PROVE  Outbox!Whole(j, upto)
<1>1. \A p \in Index(j) : p \in Slot /\ p \in Nat
  BY PlanFacts DEF Index
<1>2. \A p \in Slot : part[j][p].state = "sent" => posts[j][p] > 0 \/ p \notin Index(j)
  BY DEF OutboxInv, SendInv, PostedInv, posts
<1>3. ASSUME NEW p \in Index(j), p < upto
      PROVE  Outbox!Covered(j, p) /\ Outbox!Replaced(j, p, upto)
  <2>1. CASE part[j][p].state = "sent"
    <3>1. Outbox!Posted(j, p)
      BY <1>1, <1>2, <2>1 DEF Outbox!Posted, posts
    <3> QED
      BY <3>1 DEF Outbox!Covered, Outbox!Replaced
  <2>2. CASE part[j][p].state = "standby"
    <3>1. PICK q \in Index(j) : p \in Plan[j][q].children
      BY <2>2 DEF OutboxInv, PartsInv, IsChild
    <3>2. q < p /\ q \in Nat /\ Plan[j][p].children = {}
      BY <1>1, <3>1, ChildFacts
    <3>3. Passed(j, q)
      BY <1>1, <1>3, <3>2
    <3>4. part[j][q].state # "fallback"
      BY <2>2, <3>1 DEF OutboxInv, PartsInv
    <3>5. part[j][q].state # "standby"
      <4>1. ASSUME part[j][q].state = "standby" PROVE FALSE
        <5>1. PICK o \in Index(j) : q \in Plan[j][o].children
          BY <4>1 DEF OutboxInv, PartsInv, IsChild
        <5>2. Plan[j][q].children = {}
          BY <5>1, ChildFacts
        <5> QED
          BY <3>1, <5>2
      <4> QED
        BY <4>1
    <3>6. part[j][q].state = "sent"
      BY <3>3, <3>4, <3>5 DEF Passed
    <3>7. Outbox!Posted(j, q)
      BY <1>1, <1>2, <3>6 DEF Outbox!Posted, posts
    <3> QED
      BY <3>1, <3>2, <3>7 DEF Outbox!Covered, Outbox!Replaced, Outbox!Parents, Outbox!Index, Index
  <2>3. CASE part[j][p].state = "fallback"
    <3>1. Plan[j][p].children # {}
      BY <2>3 DEF OutboxInv, PartsInv
    <3>2. ASSUME NEW q \in Plan[j][p].children, q < upto PROVE Outbox!Posted(j, q)
      <4>1. q \in Index(j) /\ q \in Slot /\ Plan[j][q].children = {}
        BY ChildFacts
      <4>2. Passed(j, q)
        BY <3>2, <4>1
      <4>3. part[j][q].state # "standby"
        BY <2>3 DEF OutboxInv, PartsInv
      <4>4. part[j][q].state # "fallback"
        BY <4>1 DEF OutboxInv, PartsInv
      <4>5. part[j][q].state = "sent"
        BY <4>2, <4>3, <4>4 DEF Passed
      <4> QED
        BY <1>2, <4>1, <4>5 DEF Outbox!Posted, posts
    <3> QED
      BY <3>1, <3>2 DEF Outbox!Covered, Outbox!Replaced
  <2> QED
    BY <1>3, <2>1, <2>2, <2>3 DEF Passed
<1> QED
  BY <1>3 DEF Outbox!Whole, Outbox!Index, Index

\* A post is the first of its part, in order, and of a Rich part or of its
\* children, not of both.
LEMMA PostRefines ==
  ASSUME OutboxInv, NEW r \in net, TelegramAccept(r)
  PROVE  Outbox!Post(r.job, r.part) /\ r.job \in Job /\ r.part \in Index(r.job)
<1>1. TypeOK /\ SendFacts
  BY DEF OutboxInv, SendInv, SendFacts
<1> SUFFICES ASSUME NEW j \in Job, NEW p \in Index(j), r.job = j, r.part = p
             PROVE  Outbox!Post(j, p)
  <2>1. r.job \in Job /\ r.part \in Index(r.job)
    BY <1>1 DEF TypeOK, SendRequest
  <2> QED
    BY <2>1
<1>2. p \in Slot /\ p \in Nat /\ Index(j) \subseteq Slot
  BY PlanFacts DEF Index
<1>3. part[j][p].state \in {"sending", "unknown"} /\ copies[j][p] = 0
  BY <1>1 DEF SendFacts, RequestInv
<1>4. \A q \in Slot : part[j][q].state \in {"standby", "pending", "fallback"} => copies[j][q] # 1
  BY <1>1 DEF SendFacts, PostedInv
<1>5. \A q \in Slot : copies[j][q] \in Nat /\ copies[j][q] <= 1
  BY <1>1 DEF TypeOK, SendFacts, PostedInv
<1>6. posts[j][p] = 0 /\ \A q \in Index(j) : posts[j][q] = copies[j][q]
  BY <1>3 DEF posts
<1>7. Outcome(j) # "done"
  <2>1. ~Passed(j, p)
    BY <1>3 DEF Passed
  <2>2. row[j].status # "done"
    BY <2>1 DEF OutboxInv, DoneInv, AllPassed
  <2> QED
    BY <2>2 DEF Outcome
<1>8. ASSUME NEW q \in Plan[j][p].children PROVE ~Outbox!Posted(j, q)
  <2>1. q \in Index(j) /\ q \in Slot
    BY ChildFacts
  <2>2. part[j][q].state = "standby"
    BY <1>3 DEF OutboxInv, PartsInv
  <2> QED
    BY <1>4, <1>5, <1>6, <2>1, <2>2 DEF Outbox!Posted, posts
<1>9. ASSUME NEW q \in Index(j), p \in Plan[j][q].children PROVE ~Outbox!Posted(j, q)
  <2>1. part[j][q].state \in {"fallback", "absent"}
    BY <1>3, <1>9 DEF OutboxInv, PartsInv
  <2>2. copies[j][q] # 1
    BY <1>1, <1>2, <2>1 DEF SendFacts, PostedInv
  <2>3. q \in Slot
    BY <1>2, <1>9
  <2>4. copies[j][q] = 0
    BY <1>5, <2>2, <2>3
  <2> QED
    BY <1>9, <2>4 DEF Outbox!Posted
<1>10. Outbox!Whole(j, p)
  <2>1. \A q \in Index(j) : q < p => Passed(j, q)
    BY <1>3 DEF OutboxInv, PartsInv, Begun
  <2> QED
    BY <1>2, <2>1, PassedIsCovered
<1>11. posts' = [posts EXCEPT ![j][p] = @ + 1]
  <2>1. \A i \in Job : \A q \in Slot :
           copies'[i][q] = IF i = j /\ q = p THEN copies[i][q] + 1 ELSE copies[i][q]
    BY <1>1, <1>2 DEF TelegramAccept, TypeOK
  <2>2. \A i \in Job : Index(i) \subseteq Slot
    BY PlanFacts
  <2>3. posts' = [i \in Job |-> [q \in Index(i) |->
                    IF i = j /\ q = p THEN copies[i][q] + 1 ELSE copies[i][q]]]
    BY <2>1, <2>2 DEF posts, Index
  <2> QED
    BY <2>3 DEF posts
<1>12. outcomes' = outcomes
  BY DEF TelegramAccept, outcomes, Outcome
<1>13. outcomes[j] # "done"
  BY <1>7 DEF outcomes
<1>14. ~Outbox!Posted(j, p)
  BY <1>6 DEF Outbox!Posted, posts
<1>15. \A q \in Outbox!Parents(j, p) \union Plan[j][p].children : ~Outbox!Posted(j, q)
  BY <1>8, <1>9 DEF Outbox!Parents, Outbox!Index, Index
<1> QED
  BY <1>10, <1>11, <1>12, <1>13, <1>14, <1>15 DEF Outbox!Post, posts, outcomes

\* A verdict of the owner ends an open answer; a late one changes nothing.
LEMMA OutcomeMoves ==
  ASSUME OutboxInv, [Next]_vars, NEW j \in Job
  PROVE  \/ Outcome(j)' = Outcome(j)
         \/ Outcome(j) = "open" /\ Outcome(j)' = "failed"
         \/ Outcome(j) = "open" /\ Outcome(j)' = "done" /\ AllPassed(j)
<1>1. TypeOK /\ ClaimInv /\ ProgressInv /\ row[j].status \in Status
  BY DEF OutboxInv, SendInv, TypeOK, Row
<1>2. RowMoves(j)
  BY <1>1, StepMoves DEF Moves
<1>3. ASSUME row'[j].status = row[j].status PROVE Outcome(j)' = Outcome(j)
  BY <1>3 DEF Outcome
<1>4. ASSUME row[j].status = "absent", row'[j].status = "pending"
      PROVE  Outcome(j)' = Outcome(j)
  BY <1>4 DEF Outcome
<1>5. ASSUME NEW w \in Worker, worker[w].pc = "claiming", worker[w].job = j,
             row'[j].status = "processing"
      PROVE  Outcome(j)' = Outcome(j)
  <2>1. row[j].status \in {"pending", "processing"}
    BY <1>1, <1>5 DEF ClaimInv
  <2> QED
    BY <1>5, <2>1 DEF Outcome
<1>6. ASSUME NEW w \in Worker, worker[w].job = j, delivery_is_owned(w),
             row'[j].status \in {"pending", "failed"}
      PROVE  Outcome(j) = "open" /\ Outcome(j)' \in {"open", "failed"}
  <2>1. row[j].status = "processing"
    BY <1>6 DEF delivery_is_owned
  <2> QED
    BY <1>6, <2>1 DEF Outcome
<1>7. ASSUME NEW w \in Worker, worker[w].job = j, delivery_is_owned(w),
             worker[w].pc = "complete", row'[j].status = "done"
      PROVE  Outcome(j) = "open" /\ Outcome(j)' = "done" /\ AllPassed(j)
  <2>1. row[j].status = "processing"
    BY <1>7 DEF delivery_is_owned
  <2>2. AllPassed(j)
    BY <1>1, <1>7 DEF ProgressInv, Holding
  <2> QED
    BY <1>7, <2>1, <2>2 DEF Outcome
<1> QED
  BY <1>2, <1>3, <1>4, <1>5, <1>6, <1>7 DEF RowMoves

\* One step gives at most one verdict.
LEMMA OneVerdict ==
  ASSUME OutboxInv, [Next]_vars
  PROVE  \/ outcomes' = outcomes
         \/ \E j \in Job : \A i \in Job \ {j} : Outcome(i)' = Outcome(i)
<1>1. row \in [Job -> Row] /\ worker \in [Worker -> Task]
  BY DEF OutboxInv, SendInv, TypeOK
<1>2. \A w \in Worker : worker[w].pc # "idle" => worker[w].job \in Job
  BY <1>1 DEF Task
<1>3. ASSUME NEW j \in Job, \A i \in Job \ {j} : row'[i] = row[i]
      PROVE  \A i \in Job \ {j} : Outcome(i)' = Outcome(i)
  BY <1>3 DEF Outcome
<1>4. ASSUME NEW j \in Job, Enqueue(j) \/ LeaseExpires(j) \/ Stall(j) \/ BackoffElapses(j)
      PROVE  \A i \in Job \ {j} : row'[i] = row[i]
  BY <1>1, <1>4 DEF Enqueue, LeaseExpires, Stall, BackoffElapses
<1>5. ASSUME NEW w \in Worker, \/ ClaimCommit(w) \/ complete_delivery_job(w)
                               \/ fail_delivery_job(w) \/ heartbeat_delivery_job(w)
      PROVE  \E j \in Job : \A i \in Job \ {j} : row'[i] = row[i]
  <2>1. worker[w].job \in Job
    BY <1>2, <1>5 DEF ClaimCommit, complete_delivery_job, fail_delivery_job,
       heartbeat_delivery_job, Holding
  <2>2. \A i \in Job \ {worker[w].job} : row'[i] = row[i]
    BY <1>1, <1>5, <2>1 DEF ClaimCommit, complete_delivery_job, fail_delivery_job,
       heartbeat_delivery_job
  <2> QED
    BY <2>1, <2>2
<1>6. ASSUME row' = row PROVE outcomes' = outcomes
  BY <1>6 DEF outcomes, Outcome
<1>7. row' = row \/ \E j \in Job : \A i \in Job \ {j} : row'[i] = row[i]
  <2>1. ASSUME NEW w \in Worker, Deliver(w) PROVE row' = row
    BY <2>1 DEF Deliver, OpenLost, OpenLegacy, Open, SkipPart, StopAtAmbiguous, MarkLost,
       MarkSending, PartsFinished, RetryWithoutReply, RecordSent, Fallback, LegacyFallback,
       OutcomeLost, RejectPart, AmbiguousPart, Announce
  <2>2. ASSUME NEW w \in Worker, Misfortune(w) \/ HeartbeatCancels(w) \/ on_delivery_failed(w)
        PROVE  row' = row
    BY <2>2 DEF Misfortune, ClaimFails, HandlerError, QueueHalts, HeartbeatFails,
       HeartbeatCancels, on_delivery_failed
  <2>3. ASSUME NEW w \in Worker, NEW j \in Job, ClaimSelect(w, j) PROVE row' = row
    BY <2>3 DEF ClaimSelect
  <2>4. ASSUME NEW r \in net, TelegramAccept(r) \/ TelegramReject(r) PROVE row' = row
    BY <2>4 DEF TelegramAccept, TelegramReject
  <2>5. ASSUME NEW q \in Process, Crash(q) \/ Restart(q) PROVE row' = row
    BY <2>5 DEF Crash, Restart
  <2>6. ASSUME NEW w \in Worker, Claim(w) \/ Finish(w) \/ Heartbeat(w)
        PROVE  row' = row \/ \E j \in Job : \A i \in Job \ {j} : row'[i] = row[i]
    BY <2>6, <2>2, <2>3, <1>5 DEF Claim, Finish, Heartbeat
  <2>7. CASE UNCHANGED vars
    BY <2>7 DEF vars
  <2> QED
    BY <1>4, <2>1, <2>2, <2>4, <2>5, <2>6, <2>7 DEF Next
<1> QED
  BY <1>3, <1>6, <1>7

\* Every step is a post, a verdict, or nothing that the promise is about.
LEMMA StepRefines ==
  ASSUME OutboxInv, [Next]_vars
  PROVE  [Outbox!Next]_(Outbox!vars)
<1>1. TypeOK
  BY DEF OutboxInv, SendInv
<1>2. CASE \E r \in net : TelegramAccept(r)
  BY <1>2, PostRefines DEF Outbox!Next, Outbox!Index, Index
<1>3. CASE copies' = copies
  <2>1. posts' = posts
    BY <1>3 DEF posts
  <2>2. CASE outcomes' = outcomes
    BY <2>1, <2>2 DEF Outbox!vars, posts, outcomes
  <2>3. ASSUME NEW j \in Job, \A i \in Job \ {j} : Outcome(i)' = Outcome(i)
        PROVE  [Outbox!Next]_(Outbox!vars)
    <3>1. \A v : Outcome(j)' = v => outcomes' = [outcomes EXCEPT ![j] = v]
      BY <2>3 DEF outcomes
    <3>2. CASE Outcome(j)' = Outcome(j)
      <4>1. outcomes' = outcomes
        BY <2>3, <3>2 DEF outcomes
      <4> QED
        BY <4>1, <2>2
    <3>3. CASE Outcome(j) = "open" /\ Outcome(j)' = "failed"
      <4>1. Outbox!GiveUp(j)
        BY <2>1, <3>1, <3>3 DEF Outbox!GiveUp, outcomes, posts
      <4> QED
        BY <4>1 DEF Outbox!Next
    <3>4. CASE Outcome(j) = "open" /\ Outcome(j)' = "done" /\ AllPassed(j)
      <4>1. Len(Plan[j]) + 1 \in Nat
        BY PlanFacts
      <4>2. Outbox!Whole(j, Len(Plan[j]) + 1)
        BY <3>4, <4>1, PassedIsCovered DEF AllPassed
      <4>3. Outbox!Succeed(j)
        BY <2>1, <3>1, <3>4, <4>2 DEF Outbox!Succeed, outcomes, posts
      <4> QED
        BY <4>3 DEF Outbox!Next
    <3> QED
      BY <3>2, <3>3, <3>4, OutcomeMoves
  <2> QED
    BY <2>2, <2>3, OneVerdict
<1> QED
  BY <1>1, <1>2, <1>3, StepMoves DEF Moves, RequestMoves

\* However tasks, leases, crashes and late writes interleave, the outbox posts
\* every part in order and at most once, a Rich part or the HTML parts that
\* replace it, and says "done" only of an answer that is in the chat as a whole.
THEOREM PromiseKept == Spec => KeepsPromise
<1>1. Init => Outbox!Init
  <2>1. \A j \in Job : Index(j) \subseteq Slot
    BY PlanFacts
  <2> QED
    BY <2>1 DEF Init, Outbox!Init, Outbox!Index, Index, Outcome
<1>2. OutboxInv /\ [Next]_vars => [Outbox!Next]_(Outbox!vars)
  BY StepRefines
<1> QED
  BY <1>1, <1>2, OutboxInvariant, PTL DEF Spec, KeepsPromise, Outbox!Spec
=============================================================================
