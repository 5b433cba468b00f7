---------------------------- MODULE UpdateQueue -----------------------------
(***************************************************************************)
(* The durable queue of updates: Telegram posts an update to the webhook   *)
(* until it is acknowledged, the webhook stores it once as a job in one of *)
(* two lanes, and the consumers of UpdateQueueWorker claim, handle and     *)
(* settle the jobs.  A heartbeat renews the claim meanwhile; when it fails *)
(* it cancels its consumer, whatever that is doing.  One consumer of each  *)
(* process serves the service lane only.                                   *)
(*                                                                         *)
(* One action is one transaction or one handler.  The handlers are those   *)
(* of the routers (QuestionFlow, AnswerExpansion, Access); here they end   *)
(* well, badly, or never.  A consumer claims a job under a new lease each  *)
(* time, and the number of the attempt stands for it (0 is NULL).          *)
(***************************************************************************)
EXTENDS Naturals, FiniteSets

CONSTANTS
    Update,         \* numbered in the order of created_at
    KindOf,         \* what an update is
    Consumer,
    LaneOf,         \* the lane a consumer serves
    Process,
    ProcessOf,      \* the process a consumer belongs to
    MaxAttempts,    \* update_queue_max_attempts
    MaxFaults       \* bound on the faults of a behaviour

\* A menu button; a listed command; the callbacks of the buttons; a change of
\* membership; and any other text.
Kind == {"menu", "command", "level", "forget", "feedback", "expand", "member", "text"}

ASSUME UpdateAssumption == Update \subseteq Nat \ {0} /\ KindOf \in [Update -> Kind]
ASSUME ConsumerAssumption ==
    /\ LaneOf \in [Consumer -> {"service", "question"}]
    /\ ProcessOf \in [Consumer -> Process]
ASSUME AttemptsAssumption == MaxAttempts \in Nat \ {0} /\ MaxFaults \in Nat

VARIABLES
    job,            \* telegram_update_jobs
    acknowledged,   \* updates Telegram does not post again
    process,        \* the state of each process
    consumer,       \* the local state of each consumer
    takeovers,      \* how often a job was taken over because it was stale (history)
    faults

vars == <<job, acknowledged, process, consumer, takeovers, faults>>

-----------------------------------------------------------------------------
\* crippled: the web server runs, but the bot was not initialised; halted: the
\* worker has ended, and the web server runs on.
ProcessState == {"down", "up", "stopping", "crippled", "halted"}

JobRow == [status : {"absent", "pending", "processing", "done", "failed"},
           attempts : Nat, lease : Nat, fresh : BOOLEAN, due : BOOLEAN]

NoJob == [status |-> "absent", attempts |-> 0, lease |-> 0, fresh |-> FALSE, due |-> TRUE]

\* settle: in _complete or _fail; close: after its commit, before it returns.
Task == [pc : {"idle", "handle", "settle", "close"}, job : Update \union {0}, ticket : Nat,
         ok : BOOLEAN]

Idle == [pc |-> "idle", job |-> 0, ticket |-> 0, ok |-> FALSE]

TypeOK ==
    /\ job \in [Update -> JobRow]
    /\ acknowledged \subseteq Update
    /\ process \in [Process -> ProcessState]
    /\ consumer \in [Consumer -> Task]
    /\ takeovers \in [Update -> Nat]
    /\ faults \in 0 .. MaxFaults

Init ==
    /\ job = [u \in Update |-> NoJob]
    /\ acknowledged = {}
    /\ process = [p \in Process |-> "down"]
    /\ consumer = [c \in Consumer |-> Idle]
    /\ takeovers = [u \in Update |-> 0]
    /\ faults = 0

-----------------------------------------------------------------------------
Mine(c) == consumer[c].job
At(c, pc) == consumer[c].pc = pc
Host(c) == process[ProcessOf[c]]
OwnsJob(c) == /\ job[Mine(c)].status = "processing"
              /\ job[Mine(c)].lease = consumer[c].ticket

Fault == faults < MaxFaults /\ faults' = faults + 1

\* Mutant: commands wait behind questions.
update_lane_shared(kind) == IF kind = "member" THEN "service" ELSE "question"

\* An unknown callback, that of the expansion too, is work of the question lane.
update_lane(kind) == IF kind \in {"text", "expand"} THEN "question" ELSE "service"

-----------------------------------------------------------------------------
(* The webhook.                                                            *)

\* The row is committed before the answer to Telegram, which may be lost.  A process
\* whose bot is not initialised answers 503.
Post(u) ==
    /\ u \notin acknowledged
    /\ \E p \in Process : process[p] \in {"up", "stopping", "halted"}
    /\ job' = [job EXCEPT ![u] = IF @.status = "absent" THEN [@ EXCEPT !.status = "pending"]
                                  ELSE @]
    /\ \/ acknowledged' = acknowledged \union {u} /\ UNCHANGED faults
       \/ Fault /\ UNCHANGED acknowledged
    /\ UNCHANGED <<process, consumer, takeovers>>

-----------------------------------------------------------------------------
(* A consumer.                                                             *)

Stale(u) == job[u].status = "processing" /\ ~job[u].fresh
Claimable(u) == (job[u].status = "pending" /\ job[u].due) \/ Stale(u)

\* Mutant: a job that is taken over keeps its lease.
Claimed_sameLease(row) ==
    [row EXCEPT !.status = "processing", !.attempts = @ + 1, !.fresh = TRUE,
                !.lease = IF row.lease = 0 THEN row.attempts + 1 ELSE row.lease]

Claimed(row) == [status |-> "processing", attempts |-> row.attempts + 1,
                 lease |-> row.attempts + 1, fresh |-> TRUE, due |-> row.due]

\* The oldest one of the lane.  The attempts of a stale job are not limited.
Claim(c, u) ==
    /\ At(c, "idle") /\ Host(c) = "up"
    /\ update_lane(KindOf[u]) = LaneOf[c] /\ Claimable(u)
    /\ \A v \in Update : v < u /\ Claimable(v) => update_lane(KindOf[v]) # LaneOf[c]
    /\ job' = [job EXCEPT ![u] = Claimed(@)]
    /\ consumer' = [consumer EXCEPT ![c] = [pc |-> "handle", job |-> u, ok |-> FALSE,
                                            ticket |-> Claimed(job[u]).lease]]
    /\ takeovers' = [takeovers EXCEPT ![u] = IF Stale(u) THEN @ + 1 ELSE @]
    /\ UNCHANGED <<acknowledged, process, faults>>

\* feed_update returns or raises; also for an update that cannot be parsed.
Handled(c) ==
    /\ At(c, "handle")
    /\ \E ok \in BOOLEAN :
          consumer' = [consumer EXCEPT ![c].pc = "settle", ![c].ok = ok]
    /\ UNCHANGED <<job, acknowledged, process, takeovers, faults>>

CompletedJob(row) == [row EXCEPT !.status = "done", !.lease = 0]

\* Mutant: one attempt too many.
FailedJob_more(row) ==
    [row EXCEPT !.status = IF row.attempts <= MaxAttempts THEN "pending" ELSE "failed",
                !.lease = 0, !.due = FALSE]

FailedJob(row) ==
    [row EXCEPT !.status = IF row.attempts < MaxAttempts THEN "pending" ELSE "failed",
                !.lease = 0, !.due = FALSE]

\* Mutant: the verdict is written whoever owns the job.
Settle_unfenced(c) ==
    /\ At(c, "settle")
    /\ job' = [job EXCEPT ![Mine(c)] = IF consumer[c].ok THEN CompletedJob(@) ELSE FailedJob(@)]
    /\ consumer' = [consumer EXCEPT ![c].pc = "close"]
    /\ UNCHANGED <<acknowledged, process, takeovers, faults>>

\* complete_update_job or fail_update_job
Settle(c) ==
    /\ At(c, "settle")
    /\ job' = IF ~OwnsJob(c) THEN job
              ELSE [job EXCEPT ![Mine(c)] = IF consumer[c].ok THEN CompletedJob(@)
                                            ELSE FailedJob(@)]
    /\ consumer' = [consumer EXCEPT ![c].pc = "close"]
    /\ UNCHANGED <<acknowledged, process, takeovers, faults>>

Close(c) ==
    /\ At(c, "close")
    /\ consumer' = [consumer EXCEPT ![c] = Idle]
    /\ UNCHANGED <<job, acknowledged, process, takeovers, faults>>

Abandoned(p) == [c \in Consumer |-> IF ProcessOf[c] = p THEN Idle ELSE consumer[c]]

\* run() ends: the other consumers are cancelled, their jobs stay as they are.
Halts(p) ==
    /\ process' = [process EXCEPT ![p] = IF @ = "stopping" THEN "down" ELSE "halted"]
    /\ consumer' = Abandoned(p)

\* The verdict cannot be written: the error leaves the loop of the consumer.
SettleFails(c) ==
    /\ At(c, "settle") /\ Fault
    /\ Halts(ProcessOf[c])
    /\ UNCHANGED <<job, acknowledged, takeovers>>

\* The job is not ours any more, also because it has just been settled, or the renewal
\* failed.  Only in feed_update the consumer survives the cancellation.
HeartbeatCancels(c) ==
    /\ ~At(c, "idle")
    /\ IF OwnsJob(c) THEN Fault ELSE UNCHANGED faults
    /\ IF At(c, "handle") /\ Host(c) = "up"
       THEN consumer' = [consumer EXCEPT ![c] = Idle] /\ UNCHANGED process
       ELSE Halts(ProcessOf[c])
    /\ UNCHANGED <<job, acknowledged, takeovers>>

\* The lease of the user is lost: feed_update is cancelled by its own heartbeat.
HandlerCancelled(c) ==
    /\ At(c, "handle") /\ Host(c) = "up" /\ Fault
    /\ consumer' = [consumer EXCEPT ![c] = Idle]
    /\ UNCHANGED <<job, acknowledged, process, takeovers>>

-----------------------------------------------------------------------------
(* Processes and time.                                                     *)

\* lifespan: the application starts without a bot if Telegram cannot be asked.
Start(p) ==
    /\ process[p] = "down"
    /\ \/ process' = [process EXCEPT ![p] = "up"] /\ UNCHANGED faults
       \/ process' = [process EXCEPT ![p] = "crippled"] /\ Fault
    /\ UNCHANGED <<job, acknowledged, consumer, takeovers>>

Stop(p) ==
    /\ process[p] = "up" /\ Fault
    /\ process' = [process EXCEPT ![p] = "stopping"]
    /\ UNCHANGED <<job, acknowledged, consumer, takeovers>>

\* A shutdown waits for the consumers to finish what they are doing, until the platform
\* kills the process.
Stopped(p) ==
    /\ process[p] = "stopping"
    /\ process' = [process EXCEPT ![p] = "down"]
    /\ consumer' = Abandoned(p)
    /\ UNCHANGED <<job, acknowledged, takeovers, faults>>

Crash(p) ==
    /\ process[p] # "down" /\ Fault
    /\ process' = [process EXCEPT ![p] = "down"]
    /\ consumer' = Abandoned(p)
    /\ UNCHANGED <<job, acknowledged, takeovers>>

Backoff(u) ==
    /\ job[u].status = "pending" /\ ~job[u].due
    /\ job' = [job EXCEPT ![u].due = TRUE]
    /\ UNCHANGED <<acknowledged, process, consumer, takeovers, faults>>

\* No heartbeat for half an hour: the consumer is gone, or stands still.
JobGoesStale(u) ==
    /\ job[u].status = "processing" /\ job[u].fresh
    /\ job' = [job EXCEPT ![u].fresh = FALSE]
    /\ IF \E c \in Consumer : ~At(c, "idle") /\ Mine(c) = u /\ OwnsJob(c)
       THEN Fault ELSE UNCHANGED faults
    /\ UNCHANGED <<acknowledged, process, consumer, takeovers>>

Next ==
    \/ \E u \in Update : Post(u) \/ Backoff(u) \/ JobGoesStale(u)
    \/ \E c \in Consumer :
          \/ \E u \in Update : Claim(c, u)
          \/ Handled(c) \/ Settle(c) \/ Close(c)
          \/ SettleFails(c) \/ HeartbeatCancels(c) \/ HandlerCancelled(c)
    \/ \E p \in Process : Start(p) \/ Stop(p) \/ Stopped(p) \/ Crash(p)

Spec == Init /\ [][Next]_vars

Serves(c, lane) == LaneOf[c] = lane

\* Time passes, consumers run on, and processes are started.  A handler of a service
\* command returns; that of a question may wait for as long as it likes.
FairSpec ==
    /\ Spec
    /\ \A u \in Update : WF_vars(Backoff(u)) /\ WF_vars(JobGoesStale(u) /\ UNCHANGED faults)
    /\ \A c \in Consumer : /\ WF_vars(\E u \in Update : Claim(c, u))
                           /\ WF_vars(Settle(c) \/ Close(c))
                           /\ Serves(c, "service") => WF_vars(Handled(c))
    /\ \A p \in Process : WF_vars(Start(p)) /\ WF_vars(Stopped(p))

-----------------------------------------------------------------------------
(* Properties.                                                             *)

Final == {"done", "failed"}

\* A job that was settled stays so: neither a consumer that was overtaken nor an
\* update that Telegram posts again brings it back.
SettledForGood ==
    [][\A u \in Update : job[u].status \in Final => job'[u].status = job[u].status]_vars

\* Of all the consumers that handle an update, one at most can settle it.
OneOwner ==
    \A c, d \in Consumer :
        ~At(c, "idle") /\ ~At(d, "idle") /\ Mine(c) = Mine(d) /\ OwnsJob(c) /\ OwnsJob(d) => c = d

\* A job is attempted as often as configured, and once more for each time that its
\* consumer vanished.
AttemptsBounded == \A u \in Update : job[u].attempts <= MaxAttempts + takeovers[u]

Broken == \A p \in Process : process[p] \in {"halted", "crippled"}

\* A command, a button or a change of membership is served however long the questions
\* take, unless no process has a worker any more.
EventuallyServed ==
    \A u \in Update : KindOf[u] \notin {"text", "expand"} =>
        (job[u].status # "absent" ~> job[u].status \in Final \/ Broken)

\* A stored update is taken up in the end.
EventuallyTaken == \A u \in Update : job[u].status = "pending" ~> job[u].status # "pending"

-----------------------------------------------------------------------------
(* Why it is so: an inductive invariant.                                   *)

\* Attempts at a job have different numbers.
TicketInv ==
    /\ \A c \in Consumer : ~At(c, "idle") =>
         Mine(c) \in Update /\ consumer[c].ticket \in 1 .. job[Mine(c)].attempts
    /\ \A c, d \in Consumer :
         c # d /\ ~At(c, "idle") /\ ~At(d, "idle") /\ Mine(c) = Mine(d) =>
           consumer[c].ticket # consumer[d].ticket

\* What waits can be attempted once more without a takeover.
WaitingInv == \A u \in Update : job[u].status \in {"absent", "pending"} =>
                                   job[u].attempts < MaxAttempts

QueueInv == TypeOK /\ TicketInv /\ WaitingInv /\ AttemptsBounded
=============================================================================
