------------------------------ MODULE Delivery ------------------------------
(***************************************************************************)
(* The answer outbox: TelegramDeliveryJob rows, their TelegramDeliveryPart *)
(* rows, the delivery tasks of UpdateQueueWorker that claim the jobs, and  *)
(* DeliveryService.deliver, which sends the parts to Telegram.             *)
(*                                                                         *)
(* One action is one database transaction, one network event or one step   *)
(* of the environment.  Between two of them any other task, of this or of  *)
(* another process, may run, a lease may expire and a process may die.     *)
(*                                                                         *)
(* A lease id is a fresh uuid written by the claim that also increments    *)
(* attempts, so the attempt number identifies the lease (0 is NULL).       *)
(***************************************************************************)
EXTENDS Naturals, Sequences, FiniteSets

CONSTANTS
    Job,            \* delivery jobs, one per stored answer
    Worker,         \* delivery tasks (delivery_concurrency per process)
    Process,        \* processes running an UpdateQueueWorker
    NoJob,          \* the job of an idle task
    ProcessOf,      \* the process a task belongs to
    ChatOf,         \* the chat a job is delivered to
    Created,        \* the position of a job in the order (created_at, id)
    Plan,           \* the rows persistent_rows makes of the answer of a job
    MaxParts,       \* bound on the length of a plan
    MaxAttempts,    \* update_queue_max_attempts
    LateCommit,     \* may a job commit after a job of its chat created later?
    MaxFaults       \* bound on the faults of a behaviour

Format == {"html", "rich"}
PlanRow == [format : Format, children : SUBSET (Nat \ {0})]

ASSUME JobAssumption == NoJob \notin Job
ASSUME ProcessAssumption == ProcessOf \in [Worker -> Process]
ASSUME CreatedAssumption ==
    /\ Created \in [Job -> Nat]
    /\ \A i, j \in Job : Created[i] = Created[j] => i = j
\* The children of a Rich part are the HTML rows right behind it.
ASSUME PlanAssumption ==
    /\ Plan \in [Job -> Seq(PlanRow)]
    /\ MaxParts \in Nat
    /\ \A j \in Job : Len(Plan[j]) <= MaxParts
    /\ \A j \in Job : \A p \in DOMAIN Plan[j] :
         /\ Plan[j][p].format = "html" => Plan[j][p].children = {}
         /\ \E n \in 0 .. MaxParts : Plan[j][p].children = p + 1 .. p + n
         /\ \A q \in Plan[j][p].children :
                q \in DOMAIN Plan[j] /\ Plan[j][q].format = "html"
ASSUME BoundAssumption == MaxAttempts \in Nat \ {0} /\ MaxFaults \in Nat

VARIABLES
    row,        \* telegram_delivery_jobs
    part,       \* telegram_delivery_parts, "absent" where there is no row
    worker,     \* the local state of each delivery task
    net,        \* send requests on their way to Telegram
    copies,     \* how often Telegram has posted each part (history)
    notified,   \* jobs whose chat was told that delivery failed (history)
    process,    \* is the process, and the queue worker in it, running?
    faults      \* faults so far, at most MaxFaults

vars == <<row, part, worker, net, copies, notified, process, faults>>

-----------------------------------------------------------------------------
Slot == 1 .. MaxParts
Index(j) == 1 .. Len(Plan[j])

PartState == {"absent", "pending", "standby", "sending", "sent", "unknown", "fallback"}
PartRow == [state : PartState, format : Format]
Status == {"absent", "pending", "processing", "done", "failed"}
Reply == {"none", "ok", "rejected", "richRejected", "replyGone"}
Phase == {"idle", "claiming", "open", "loop", "waiting", "announce",
          "complete", "failing", "failingUnknown", "notify"}

Holding == {"open", "loop", "waiting", "announce", "complete", "failing", "failingUnknown"}
Looping == {"loop", "waiting"}

NoRows == [p \in Slot |-> [state |-> "absent", format |-> "html"]]

Idle == [pc |-> "idle", job |-> NoJob, ticket |-> 0, at |-> 0,
         snap |-> NoRows, reply |-> "none", replying |-> FALSE]

Row == [status : Status, attempts : Nat, lease : Nat, fresh : BOOLEAN, due : BOOLEAN]

\* A busy task has a job; one that awaits Telegram is at a part of it.
Task ==
    {t \in [pc : Phase, job : Job \union {NoJob}, ticket : Nat, at : Nat,
            snap : [Slot -> PartRow], reply : Reply, replying : BOOLEAN] :
        /\ t.pc = "idle" \/ t.job \in Job
        /\ t.pc = "waiting" => t.at \in Index(t.job)}

SendRequest == {r \in [job : Job, part : Slot, ticket : Nat] : r.part \in Index(r.job)}

TypeOK ==
    /\ row \in [Job -> Row]
    /\ part \in [Job -> [Slot -> PartRow]]
    /\ worker \in [Worker -> Task]
    /\ net \subseteq SendRequest
    /\ copies \in [Job -> [Slot -> Nat]]
    /\ notified \subseteq Job
    /\ process \in [Process -> {"up", "down", "halted"}]
    /\ faults \in 0 .. MaxFaults

Init ==
    /\ row = [j \in Job |-> [status |-> "absent", attempts |-> 0, lease |-> 0,
                             fresh |-> FALSE, due |-> TRUE]]
    /\ part = [j \in Job |-> NoRows]
    /\ worker = [w \in Worker |-> Idle]
    /\ net = {}
    /\ copies = [j \in Job |-> [p \in Slot |-> 0]]
    /\ notified = {}
    /\ process = [p \in Process |-> "up"]
    /\ faults = 0

-----------------------------------------------------------------------------
(* What the transactions read.                                             *)

Earlier(i, j) == ChatOf[i] = ChatOf[j] /\ Created[i] < Created[j]

\* Mutant: a job in progress does not hold back the younger jobs of its chat.
OlderInChat_pendingOnly(j) == \E i \in Job : Earlier(i, j) /\ row[i].status = "pending"

OlderInChat(j) == \E i \in Job : Earlier(i, j) /\ row[i].status \in {"pending", "processing"}

ActiveInChat(j) ==
    \E i \in Job \ {j} : /\ ChatOf[i] = ChatOf[j]
                         /\ row[i].status = "processing" /\ row[i].fresh

\* Mutants: the order within a chat is forgotten; stale leases are never taken over.
Claimable_anyOrder(j) ==
    /\ ~ActiveInChat(j)
    /\ \/ row[j].status = "pending" /\ row[j].due
       \/ row[j].status = "processing" /\ ~row[j].fresh

Claimable_noTakeover(j) ==
    ~OlderInChat(j) /\ ~ActiveInChat(j) /\ row[j].status = "pending" /\ row[j].due

Claimable(j) ==
    /\ ~OlderInChat(j)
    /\ ~ActiveInChat(j)
    /\ \/ row[j].status = "pending" /\ row[j].due
       \/ row[j].status = "processing" /\ ~row[j].fresh

\* FOR UPDATE: the row of a job is locked from the claim's SELECT to its commit.
RowFree(j) == \A w \in Worker : ~(worker[w].pc = "claiming" /\ worker[w].job = j)

delivery_is_owned(w) ==
    LET j == worker[w].job IN
    /\ row[j].status = "processing"
    /\ row[j].lease = worker[w].ticket

Rich(j, p) == part[j][p].format = "rich"

IsChild(j, p) == \E q \in Index(j) : p \in Plan[j][q].children

persistent_rows(j) ==
    [p \in Slot |-> IF p \in Index(j)
                    THEN [state |-> IF IsChild(j, p) THEN "standby" ELSE "pending",
                          format |-> Plan[j][p].format]
                    ELSE NoRows[p]]

Running(w) == process[ProcessOf[w]] = "up"

Fault == faults < MaxFaults /\ faults' = faults + 1

SetState(j, p, s) == part' = [part EXCEPT ![j][p].state = s]

\* The loop is left: its local variables are dead.
Leave(w, pc) == worker' = [worker EXCEPT ![w] =
                    [Idle EXCEPT !.pc = pc, !.job = worker[w].job, !.ticket = worker[w].ticket]]

-----------------------------------------------------------------------------
(* _persist_answer commits the answer and its delivery job.  created_at is *)
(* the start of that transaction, so commits may come in another order.    *)
Enqueue(j) ==
    /\ row[j].status = "absent"
    /\ LateCommit \/ \A i \in Job : Earlier(i, j) => row[i].status # "absent"
    /\ row' = [row EXCEPT ![j].status = "pending"]
    /\ UNCHANGED <<part, worker, net, copies, notified, process, faults>>

(* claim_delivery_job: SELECT ... ORDER BY created_at FOR UPDATE SKIP      *)
(* LOCKED LIMIT 1, then the update and the commit.                         *)
ClaimSelect(w, j) ==
    /\ Running(w)
    /\ worker[w].pc = "idle"
    /\ Claimable(j) /\ RowFree(j)
    /\ \A i \in Job : Claimable(i) /\ RowFree(i) => Created[j] <= Created[i]
    /\ worker' = [worker EXCEPT ![w] = [Idle EXCEPT !.pc = "claiming", !.job = j]]
    /\ UNCHANGED <<row, part, net, copies, notified, process, faults>>

ClaimCommit(w) ==
    LET j == worker[w].job
        n == row[j].attempts + 1
    IN  /\ worker[w].pc = "claiming"
        /\ row' = [row EXCEPT ![j] = [@ EXCEPT !.status = "processing", !.attempts = n,
                                               !.lease = n, !.fresh = TRUE]]
        /\ worker' = [worker EXCEPT ![w] = [@ EXCEPT !.pc = "open", !.ticket = n]]
        /\ UNCHANGED <<part, net, copies, notified, process, faults>>

\* _claim_delivery_safely: an exception means there was no job.
ClaimFails(w) ==
    /\ worker[w].pc = "claiming"
    /\ Fault
    /\ worker' = [worker EXCEPT ![w] = Idle]
    /\ UNCHANGED <<row, part, net, copies, notified, process>>

-----------------------------------------------------------------------------
(* deliver: the first transaction.                                         *)
OpenLost(w) ==
    /\ worker[w].pc = "open"
    /\ RowFree(worker[w].job)
    /\ ~delivery_is_owned(w)
    /\ Leave(w, "failingUnknown")
    /\ UNCHANGED <<row, part, net, copies, notified, process, faults>>

HasParts(j) == \E p \in Slot : part[j][p].state # "absent"

\* No rows on a later attempt: taken for a job older than the table of parts.
OpenLegacy(w) ==
    /\ worker[w].pc = "open"
    /\ RowFree(worker[w].job)
    /\ delivery_is_owned(w)
    /\ ~HasParts(worker[w].job)
    /\ worker[w].ticket > 1
    /\ Leave(w, "failingUnknown")
    /\ UNCHANGED <<row, part, net, copies, notified, process, faults>>

Open(w) ==
    LET j == worker[w].job IN
    /\ worker[w].pc = "open"
    /\ RowFree(j)
    /\ delivery_is_owned(w)
    /\ HasParts(j) \/ worker[w].ticket <= 1
    /\ part' = [part EXCEPT ![j] = IF HasParts(j) THEN @ ELSE persistent_rows(j)]
    /\ worker' = [worker EXCEPT ![w] = [@ EXCEPT !.pc = "loop", !.at = 1, !.snap = part'[j]]]
    /\ UNCHANGED <<row, net, copies, notified, process, faults>>

-----------------------------------------------------------------------------
(* deliver: the loop over the parts read above.                            *)
At(w, states) ==
    /\ worker[w].pc = "loop"
    /\ worker[w].at \in Index(worker[w].job)
    /\ worker[w].snap[worker[w].at].state \in states

SkipPart(w) ==
    /\ At(w, {"sent", "standby", "fallback"})
    /\ worker' = [worker EXCEPT ![w].at = @ + 1]
    /\ UNCHANGED <<row, part, net, copies, notified, process, faults>>

StopAtAmbiguous(w) ==
    /\ At(w, {"sending", "unknown"})
    /\ Leave(w, "failingUnknown")
    /\ UNCHANGED <<row, part, net, copies, notified, process, faults>>

MarkLost(w) ==
    /\ At(w, {"pending"})
    /\ RowFree(worker[w].job)
    /\ ~delivery_is_owned(w)
    /\ Leave(w, "failingUnknown")
    /\ UNCHANGED <<row, part, net, copies, notified, process, faults>>

Request(w) == [job |-> worker[w].job, part |-> worker[w].at, ticket |-> worker[w].ticket]

\* The first message of an answer replies to the question.
FirstMessage(w) == \A p \in 1 .. worker[w].at - 1 : worker[w].snap[p].state # "sent"

\* Mutant: the lease is not checked again before the part is sent.
MarkSending_unfenced(w) ==
    /\ At(w, {"pending"}) /\ RowFree(worker[w].job)
    /\ SetState(worker[w].job, worker[w].at, "sending")
    /\ worker' = [worker EXCEPT ![w] = [@ EXCEPT !.pc = "waiting", !.reply = "none",
                                                 !.replying = FirstMessage(w)]]
    /\ net' = net \union {Request(w)}
    /\ UNCHANGED <<row, copies, notified, process, faults>>

\* current.state = "sending", commit, then the request leaves.
MarkSending(w) ==
    /\ At(w, {"pending"})
    /\ RowFree(worker[w].job)
    /\ delivery_is_owned(w)
    /\ SetState(worker[w].job, worker[w].at, "sending")
    /\ worker' = [worker EXCEPT ![w] = [@ EXCEPT !.pc = "waiting", !.reply = "none",
                                                 !.replying = FirstMessage(w)]]
    /\ net' = net \union {Request(w)}
    /\ UNCHANGED <<row, copies, notified, process, faults>>

PartsFinished(w) ==
    /\ worker[w].pc = "loop"
    /\ worker[w].at \notin Index(worker[w].job)
    /\ Leave(w, "announce")
    /\ UNCHANGED <<row, part, net, copies, notified, process, faults>>

-----------------------------------------------------------------------------
(* Telegram.  A request may be served long after its sender has gone.      *)
Awaits(w, r) == worker[w].pc = "waiting" /\ worker[w].reply = "none" /\ Request(w) = r

Answer(r, reply) ==
    worker' = [w \in Worker |-> IF Awaits(w, r) THEN [worker[w] EXCEPT !.reply = reply]
                                                ELSE worker[w]]

\* Posted; the confirmation may be lost on the way back.
TelegramAccept(r) ==
    /\ net' = net \ {r}
    /\ copies' = [copies EXCEPT ![r.job][r.part] = @ + 1]
    /\ \E reply \in {"ok", "none"} : Answer(r, reply)
    /\ UNCHANGED <<row, part, notified, process, faults>>

\* TelegramBadRequest, NotFound, Forbidden or RetryAfter: nothing was posted.
TelegramReject(r) ==
    /\ net' = net \ {r}
    /\ \E reply \in {"rejected", "richRejected", "replyGone"} :
         /\ reply = "richRejected" => Rich(r.job, r.part)
         /\ reply = "replyGone" => \E w \in Worker : Awaits(w, r) /\ worker[w].replying
         /\ Answer(r, reply)
    /\ UNCHANGED <<row, part, copies, notified, process, faults>>

-----------------------------------------------------------------------------
(* deliver: what a task does with the outcome of its send.                 *)
Replied(w, reply) == worker[w].pc = "waiting" /\ worker[w].reply = reply

\* _send_message: the question was deleted, send once more without replying.
RetryWithoutReply(w) ==
    /\ Replied(w, "replyGone")
    /\ worker' = [worker EXCEPT ![w] = [@ EXCEPT !.reply = "none", !.replying = FALSE]]
    /\ net' = net \union {Request(w)}
    /\ UNCHANGED <<row, part, copies, notified, process, faults>>

RecordSent(w) ==
    /\ Replied(w, "ok")
    /\ RowFree(worker[w].job)
    /\ delivery_is_owned(w)
    /\ SetState(worker[w].job, worker[w].at, "sent")
    /\ worker' = [worker EXCEPT ![w] = [@ EXCEPT !.pc = "loop", !.at = worker[w].at + 1,
                      !.snap = [worker[w].snap EXCEPT ![worker[w].at].state = "sent"]]]
    /\ UNCHANGED <<row, net, copies, notified, process, faults>>

\* Rich is refused for its size or its markup: its HTML children take over.
Fallback(w) ==
    LET j == worker[w].job
        p == worker[w].at
    IN  /\ Replied(w, "richRejected")
        /\ RowFree(j)
        /\ delivery_is_owned(w)
        /\ Plan[j][p].children # {}
        /\ part' = [part EXCEPT ![j] = [q \in Slot |->
                      IF q = p THEN [@[q] EXCEPT !.state = "fallback"]
                      ELSE IF q \in Plan[j][p].children /\ @[q].state = "standby"
                      THEN [@[q] EXCEPT !.state = "pending"]
                      ELSE @[q]]]
        /\ worker' = [worker EXCEPT ![w] = [@ EXCEPT !.pc = "loop", !.snap = part'[j]]]
        /\ UNCHANGED <<row, net, copies, notified, process, faults>>

\* A Rich row without children is sent again as HTML if one message holds it.
LegacyFallback(w) ==
    LET j == worker[w].job
        p == worker[w].at
    IN  /\ Replied(w, "richRejected")
        /\ RowFree(j)
        /\ delivery_is_owned(w)
        /\ Plan[j][p].children = {}
        /\ \/ /\ part' = [part EXCEPT ![j][p] = [state |-> "pending", format |-> "html"]]
              /\ worker' = [worker EXCEPT ![w] = [@ EXCEPT !.pc = "loop", !.snap = part'[j]]]
           \/ /\ Leave(w, "failingUnknown")
              /\ UNCHANGED part
        /\ UNCHANGED <<row, net, copies, notified, process, faults>>

\* The fenced writes of a task that no longer owns the job.
OutcomeLost(w) ==
    /\ Replied(w, "ok") \/ Replied(w, "richRejected")
    /\ RowFree(worker[w].job)
    /\ ~delivery_is_owned(w)
    /\ Leave(w, "failingUnknown")
    /\ UNCHANGED <<row, part, net, copies, notified, process, faults>>

\* Not fenced: whoever owns the job now, the part was certainly not posted.
RejectPart(w) ==
    /\ Replied(w, "rejected")
    /\ SetState(worker[w].job, worker[w].at, "pending")
    /\ Leave(w, "failing")
    /\ UNCHANGED <<row, net, copies, notified, process, faults>>

\* Mutant: a timeout is taken for a rejection.
AmbiguousPart_retry(w) ==
    /\ Replied(w, "none")
    /\ SetState(worker[w].job, worker[w].at, "pending")
    /\ Leave(w, "failing")
    /\ UNCHANGED <<row, net, copies, notified, process, faults>>

\* Not fenced: a timeout or a server error, the part may have been posted.
AmbiguousPart(w) ==
    /\ Replied(w, "none")
    /\ SetState(worker[w].job, worker[w].at, "unknown")
    /\ Leave(w, "failingUnknown")
    /\ UNCHANGED <<row, net, copies, notified, process, faults>>

\* Any other exception: a lost database connection, an unreadable response.
HandlerError(w) ==
    /\ worker[w].pc \in {"open", "loop", "waiting", "announce"}
    /\ Fault
    /\ Leave(w, "failing")
    /\ UNCHANGED <<row, part, net, copies, notified, process>>

\* on_delivery_complete, not fenced.
Announce(w) ==
    /\ worker[w].pc = "announce"
    /\ Leave(w, "complete")
    /\ UNCHANGED <<row, part, net, copies, notified, process, faults>>

-----------------------------------------------------------------------------
(* _process_delivery: the verdict on the job.                              *)
complete_delivery_job(w) ==
    /\ worker[w].pc = "complete"
    /\ RowFree(worker[w].job)
    /\ row' = IF delivery_is_owned(w)
              THEN [row EXCEPT ![worker[w].job] =
                       [@ EXCEPT !.status = "done", !.lease = 0, !.fresh = FALSE]]
              ELSE row
    /\ worker' = [worker EXCEPT ![w] = Idle]
    /\ UNCHANGED <<part, net, copies, notified, process, faults>>

Retry(w) == worker[w].pc = "failing" /\ worker[w].ticket < MaxAttempts

fail_delivery_job(w) ==
    LET status == IF Retry(w) THEN "pending" ELSE "failed" IN
    /\ worker[w].pc \in {"failing", "failingUnknown"}
    /\ RowFree(worker[w].job)
    /\ row' = IF delivery_is_owned(w)
              THEN [row EXCEPT ![worker[w].job] =
                       [@ EXCEPT !.status = status, !.lease = 0, !.fresh = FALSE, !.due = ~Retry(w)]]
              ELSE row
    /\ worker' = [worker EXCEPT ![w] = IF Retry(w) THEN Idle ELSE [@ EXCEPT !.pc = "notify"]]
    /\ UNCHANGED <<part, net, copies, notified, process, faults>>

\* on_delivery_failed; an exception there is only logged.
on_delivery_failed(w) ==
    /\ worker[w].pc = "notify"
    /\ notified' \in {notified, notified \union {worker[w].job}}
    /\ worker' = [worker EXCEPT ![w] = Idle]
    /\ UNCHANGED <<row, part, net, copies, process, faults>>

\* A database error while the verdict is written leaves _run_deliveries, and
\* run() then cancels every consumer of the process.
QueueHalts(w) ==
    /\ worker[w].pc \in {"complete", "failing", "failingUnknown"}
    /\ Fault
    /\ process' = [process EXCEPT ![ProcessOf[w]] = "halted"]
    /\ worker' = [v \in Worker |-> IF ProcessOf[v] = ProcessOf[w] THEN Idle ELSE worker[v]]
    /\ UNCHANGED <<row, part, net, copies, notified>>

-----------------------------------------------------------------------------
(* Leases.                                                                 *)
heartbeat_delivery_job(w) ==
    LET j == worker[w].job IN
    /\ worker[w].pc \in Holding
    /\ RowFree(j)
    /\ delivery_is_owned(w)
    /\ ~row[j].fresh
    /\ row' = [row EXCEPT ![j].fresh = TRUE]
    /\ UNCHANGED <<part, worker, net, copies, notified, process, faults>>

\* The renewal matched no row: the task is cancelled wherever it is.
HeartbeatCancels(w) ==
    /\ worker[w].pc \in Holding \union {"notify"}
    /\ RowFree(worker[w].job)
    /\ ~delivery_is_owned(w)
    /\ worker' = [worker EXCEPT ![w] = Idle]
    /\ UNCHANGED <<row, part, net, copies, notified, process, faults>>

\* The renewal failed: the same, although the task still owns the job.
HeartbeatFails(w) ==
    /\ worker[w].pc \in Holding \union {"notify"}
    /\ Fault
    /\ worker' = [worker EXCEPT ![w] = Idle]
    /\ UNCHANGED <<row, part, net, copies, notified, process>>

Held(j) == \E w \in Worker : worker[w].pc \in Holding /\ worker[w].job = j /\ delivery_is_owned(w)

\* Nobody renews the lease of a dead task.
LeaseExpires(j) ==
    /\ row[j].status = "processing" /\ row[j].fresh
    /\ ~Held(j)
    /\ row' = [row EXCEPT ![j].fresh = FALSE]
    /\ UNCHANGED <<part, worker, net, copies, notified, process, faults>>

\* A process that stood still for longer than update_queue_stale_seconds.
Stall(j) ==
    /\ row[j].status = "processing" /\ row[j].fresh
    /\ Held(j)
    /\ Fault
    /\ row' = [row EXCEPT ![j].fresh = FALSE]
    /\ UNCHANGED <<part, worker, net, copies, notified, process>>

BackoffElapses(j) ==
    /\ row[j].status = "pending" /\ ~row[j].due
    /\ row' = [row EXCEPT ![j].due = TRUE]
    /\ UNCHANGED <<part, worker, net, copies, notified, process, faults>>

Crash(p) ==
    /\ process[p] # "down"
    /\ Fault
    /\ process' = [process EXCEPT ![p] = "down"]
    /\ worker' = [w \in Worker |-> IF ProcessOf[w] = p THEN Idle ELSE worker[w]]
    /\ UNCHANGED <<row, part, net, copies, notified>>

Restart(p) ==
    /\ process[p] = "down"
    /\ process' = [process EXCEPT ![p] = "up"]
    /\ UNCHANGED <<row, part, worker, net, copies, notified, faults>>

-----------------------------------------------------------------------------
Deliver(w) ==
    \/ OpenLost(w) \/ OpenLegacy(w) \/ Open(w)
    \/ SkipPart(w) \/ StopAtAmbiguous(w) \/ MarkLost(w) \/ MarkSending(w) \/ PartsFinished(w)
    \/ RetryWithoutReply(w) \/ RecordSent(w) \/ Fallback(w) \/ LegacyFallback(w)
    \/ OutcomeLost(w) \/ RejectPart(w) \/ AmbiguousPart(w) \/ Announce(w)

Finish(w) == complete_delivery_job(w) \/ fail_delivery_job(w) \/ on_delivery_failed(w)

Claim(w) == (\E j \in Job : ClaimSelect(w, j)) \/ ClaimCommit(w)

Heartbeat(w) == heartbeat_delivery_job(w) \/ HeartbeatCancels(w)

Misfortune(w) == ClaimFails(w) \/ HandlerError(w) \/ QueueHalts(w) \/ HeartbeatFails(w)

Next ==
    \/ \E j \in Job : Enqueue(j) \/ LeaseExpires(j) \/ Stall(j) \/ BackoffElapses(j)
    \/ \E w \in Worker : Claim(w) \/ Deliver(w) \/ Finish(w) \/ Heartbeat(w) \/ Misfortune(w)
    \/ \E r \in net : TelegramAccept(r) \/ TelegramReject(r)
    \/ \E p \in Process : Crash(p) \/ Restart(p)

Spec == Init /\ [][Next]_vars

-----------------------------------------------------------------------------
(* Scheduling.  Every task of a running process gets to run, its timers    *)
(* fire, a dead process is restarted by the platform (the container health *)
(* check), the clock passes every deadline.  Nothing promises that         *)
(* Telegram answers: a request without an answer ends in a timeout.        *)
Fairness ==
    /\ \A w \in Worker : WF_vars(Claim(w) \/ Deliver(w) \/ Finish(w))
    /\ \A w \in Worker : WF_vars(Heartbeat(w))
    /\ \A j \in Job : WF_vars(LeaseExpires(j)) /\ WF_vars(BackoffElapses(j))
    /\ \A p \in Process : WF_vars(Restart(p))

FairSpec == Spec /\ Fairness

-----------------------------------------------------------------------------
(* Safety.                                                                 *)

\* No part of an answer appears twice in a chat, whatever tasks crash, stall or
\* write without the lease (the module docstring of delivery_service.py).
AtMostOnce == \A j \in Job : \A p \in Index(j) : copies[j][p] <= 1

\* A part that was confirmed, or whose outcome is not known, never becomes
\* sendable again: not by a retry, by a fallback or by a late write.
NeverReopened ==
    [][\A j \in Job : \A p \in Index(j) :
         part[j][p].state \in {"sent", "unknown"} =>
             part'[j][p].state = part[j][p].state]_vars

\* One live delivery per chat, even between the SELECT and the commit of a claim.
Live(j) == row[j].status = "processing" /\ row[j].fresh

OneDeliveryPerChat ==
    \A i, j \in Job : Live(i) /\ Live(j) /\ ChatOf[i] = ChatOf[j] => i = j

\* When a part is posted, every older answer of that chat is settled.
ChatOrder ==
    [][\A j \in Job : copies'[j] # copies[j] =>
         \A i \in Job : Earlier(i, j) => row[i].status \in {"done", "failed"}]_vars

-----------------------------------------------------------------------------
(* Why a part is never posted twice: the inductive invariant.              *)

\* Every claim has an attempt number of its own, so at most one task owns a job.
LeaseInv ==
    /\ \A j \in Job : row[j].lease <= row[j].attempts
    /\ \A w \in Worker : worker[w].pc \in Holding =>
           worker[w].ticket <= row[worker[w].job].attempts
    /\ \A v, w \in Worker :
           /\ worker[v].pc \in Holding /\ worker[w].pc \in Holding
           /\ worker[v].job = worker[w].job /\ worker[v].ticket = worker[w].ticket
           => v = w

Waiting(w) == worker[w].pc = "waiting"
SamePart(v, w) == worker[v].job = worker[w].job /\ worker[v].at = worker[w].at
OnItsWay(j, p) == \E r \in net : r.job = j /\ r.part = p

\* The part of a task that awaits Telegram is "sending", and its alone.
SenderInv ==
    /\ \A w \in Worker : Waiting(w) => part[worker[w].job][worker[w].at].state = "sending"
    /\ \A v, w \in Worker : Waiting(v) /\ Waiting(w) /\ SamePart(v, w) => v = w
    /\ \A w \in Worker : Waiting(w) /\ worker[w].reply # "none" =>
           /\ ~OnItsWay(worker[w].job, worker[w].at)
           /\ copies[worker[w].job][worker[w].at] = IF worker[w].reply = "ok" THEN 1 ELSE 0

\* A request on its way is the only one for its part, which was not posted yet.
RequestInv ==
    /\ \A r \in net : /\ part[r.job][r.part].state \in {"sending", "unknown"}
                      /\ copies[r.job][r.part] = 0
    /\ \A r, s \in net : r.job = s.job /\ r.part = s.part => r = s

\* A posted part is in a state from which no task sends it again.
PostedInv ==
    \A j \in Job : \A p \in Slot :
        /\ copies[j][p] <= 1
        /\ copies[j][p] = 1 => part[j][p].state \in {"sending", "sent", "unknown"}
        /\ part[j][p].state = "sent" => copies[j][p] = 1

\* What the owner still has to send according to its copy of the rows is still
\* to be sent according to the rows.
SnapshotInv ==
    \A w \in Worker : worker[w].pc \in Looping /\ delivery_is_owned(w) =>
        \A p \in Slot :
            /\ p > worker[w].at \/ (p = worker[w].at /\ worker[w].pc = "loop")
            /\ worker[w].snap[p].state = "pending"
            => part[worker[w].job][p].state = "pending"

SendInv == TypeOK /\ LeaseInv /\ SenderInv /\ RequestInv /\ PostedInv /\ SnapshotInv

-----------------------------------------------------------------------------
(* Liveness.                                                               *)

\* Every stored answer is delivered or given up: backoff, stale leases, dead tasks, and
\* an answer of the same chat that is retried, abandoned or given up never leave it
\* waiting for good.
EventuallySettled ==
    \A j \in Job : row[j].status # "absent" ~> row[j].status \in {"done", "failed"}

-----------------------------------------------------------------------------
(* Refinement: tasks, leases, crashes and late writes keep the promise.    *)
Outcome(j) == IF row[j].status \in {"done", "failed"} THEN row[j].status ELSE "open"

Outbox == INSTANCE AnswerOutbox WITH
              copies <- [j \in Job |-> [p \in Index(j) |-> copies[j][p]]],
              outcome <- [j \in Job |-> Outcome(j)]

\* The outbox keeps its promise: the abstract specification is implemented.
KeepsPromise == Outbox!Spec
=============================================================================
