----------------------------- MODULE QueueProofs -----------------------------
(***************************************************************************)
(* The queue of updates, for any number of updates, consumers, processes   *)
(* and faults.  Each claim of a job has a number of its own (TicketInv),   *)
(* so that one consumer at most can settle it, and a job that waits has an *)
(* attempt left (WaitingInv), so that only takeovers go beyond the bound.  *)
(***************************************************************************)
EXTENDS UpdateQueue, TLAPS

-----------------------------------------------------------------------------
(* What is known of a state.                                               *)

LEMMA RowType ==
    ASSUME TypeOK, NEW u \in Update
    PROVE  /\ job[u] \in JobRow /\ job[u].attempts \in Nat /\ job[u].lease \in Nat
           /\ job[u].status \in {"absent", "pending", "processing", "done", "failed"}
           /\ job[u].fresh \in BOOLEAN /\ job[u].due \in BOOLEAN
BY DEF TypeOK, JobRow

LEMMA TaskType ==
    ASSUME QueueInv, NEW c \in Consumer
    PROVE  /\ consumer[c] \in Task /\ consumer[c].ticket \in Nat /\ consumer[c].ok \in BOOLEAN
           /\ consumer[c].job \in Update \union {0}
           /\ consumer[c].pc \in {"idle", "handle", "settle", "close"}
           /\ consumer[c].pc # "idle" => consumer[c].job \in Update
BY DEF QueueInv, TypeOK, Task, TicketInv, Mine, At

LEMMA IdleType == Idle \in Task /\ Idle.pc = "idle"
BY DEF Idle, Task

LEMMA AbandonedType ==
    ASSUME QueueInv, NEW p \in Process
    PROVE  /\ Abandoned(p) \in [Consumer -> Task]
           /\ \A c \in Consumer : Abandoned(p)[c] = Idle \/ Abandoned(p)[c] = consumer[c]
<1>1. \A c \in Consumer : consumer[c] \in Task
  BY TaskType
<1> QED
  BY <1>1, IdleType DEF Abandoned

LEMMA FaultType == ASSUME TypeOK, Fault PROVE faults' \in 0 .. MaxFaults
BY AttemptsAssumption DEF TypeOK, Fault

-----------------------------------------------------------------------------
(* Every step keeps the invariant.                                         *)

LEMMA InitHolds == ASSUME Init PROVE QueueInv
<1>1. NoJob \in JobRow /\ NoJob.attempts = 0 /\ NoJob.status = "absent"
  BY DEF NoJob, JobRow
<1>2. \A u \in Update : job[u] = NoJob /\ takeovers[u] = 0
  BY DEF Init
<1>3. \A c \in Consumer : consumer[c] = Idle
  BY DEF Init
<1>4. TypeOK
  BY <1>1, IdleType, AttemptsAssumption DEF Init, TypeOK, ProcessState
<1>5. TicketInv
  BY <1>3, IdleType DEF TicketInv, At
<1>6. WaitingInv /\ AttemptsBounded
  BY <1>1, <1>2, AttemptsAssumption DEF WaitingInv, AttemptsBounded
<1> QED
  BY <1>4, <1>5, <1>6 DEF QueueInv

\* A step other than a claim: no attempt begins, and a consumer goes on with its job or
\* leaves it.
LEMMA KeepStep ==
    ASSUME QueueInv,
           job' \in [Update -> JobRow],
           \A u \in Update : /\ job'[u].attempts = job[u].attempts
                             /\ job'[u].status \in {"absent", "pending"} =>
                                   job[u].attempts < MaxAttempts,
           acknowledged' \subseteq Update, process' \in [Process -> ProcessState],
           takeovers' = takeovers, faults' \in 0 .. MaxFaults,
           consumer' \in [Consumer -> Task],
           \A c \in Consumer : \/ consumer'[c].pc = "idle"
                               \/ /\ consumer[c].pc # "idle"
                                  /\ consumer'[c].job = consumer[c].job
                                  /\ consumer'[c].ticket = consumer[c].ticket
    PROVE  QueueInv'
<1>1. TypeOK'
  BY DEF QueueInv, TypeOK
<1>2. TicketInv'
  <2>1. ASSUME NEW c \in Consumer, consumer'[c].pc # "idle"
        PROVE  consumer'[c].job \in Update /\ consumer'[c].ticket \in 1 .. job'[consumer'[c].job].attempts
    BY <2>1 DEF QueueInv, TicketInv, At, Mine
  <2>2. ASSUME NEW c \in Consumer, NEW d \in Consumer, c # d, consumer'[c].pc # "idle",
               consumer'[d].pc # "idle", consumer'[c].job = consumer'[d].job
        PROVE  consumer'[c].ticket # consumer'[d].ticket
    BY <2>2 DEF QueueInv, TicketInv, At, Mine
  <2> QED
    BY <2>1, <2>2 DEF TicketInv, At, Mine
<1>3. WaitingInv'
  BY DEF WaitingInv
<1>4. AttemptsBounded'
  BY DEF QueueInv, AttemptsBounded
<1> QED
  BY <1>1, <1>2, <1>3, <1>4 DEF QueueInv

LEMMA ClaimStep == ASSUME QueueInv, NEW c \in Consumer, NEW u \in Update, Claim(c, u) PROVE QueueInv'
<1> DEFINE row == Claimed(job[u])
           task == [pc |-> "handle", job |-> u, ok |-> FALSE, ticket |-> row.lease]
<1>1. TypeOK /\ TicketInv /\ WaitingInv /\ AttemptsBounded
  BY DEF QueueInv
<1>2. /\ job[u] \in JobRow /\ job[u].attempts \in Nat /\ job[u].lease \in Nat
      /\ job[u].status \in {"absent", "pending", "processing", "done", "failed"}
      /\ job[u].fresh \in BOOLEAN /\ job[u].due \in BOOLEAN
  BY <1>1, RowType
<1>3. /\ row \in JobRow /\ row.attempts = job[u].attempts + 1 /\ row.lease = job[u].attempts + 1
      /\ row.status = "processing"
  BY <1>2 DEF Claimed, JobRow
<1>4. task \in Task /\ task.job = u /\ task.ticket = job[u].attempts + 1 /\ task.pc = "handle"
  <2> HIDE DEF row
  <2> QED
    BY <1>2, <1>3 DEF Task
<1>5. /\ job' = [job EXCEPT ![u] = row] /\ consumer' = [consumer EXCEPT ![c] = task]
      /\ takeovers' = [takeovers EXCEPT ![u] = IF Stale(u) THEN @ + 1 ELSE @]
      /\ UNCHANGED <<acknowledged, process, faults>>
      /\ consumer[c].pc = "idle"
      /\ (job[u].status = "pending" /\ job[u].due) \/ Stale(u)
  BY DEF Claim, Claimable, At
<1> HIDE DEF row, task
<1>6. /\ job \in [Update -> JobRow] /\ consumer \in [Consumer -> Task] /\ takeovers \in [Update -> Nat]
  BY <1>1 DEF TypeOK
<1>7. /\ job' \in [Update -> JobRow] /\ job'[u] = row
      /\ \A v \in Update : v # u => job'[v] = job[v]
  BY <1>3, <1>5, <1>6
<1>8. /\ consumer' \in [Consumer -> Task] /\ consumer'[c] = task
      /\ \A d \in Consumer : d # c => consumer'[d] = consumer[d]
  BY <1>4, <1>5, <1>6
<1>9. /\ takeovers' \in [Update -> Nat] /\ takeovers'[u] = IF Stale(u) THEN takeovers[u] + 1 ELSE takeovers[u]
      /\ \A v \in Update : v # u => takeovers'[v] = takeovers[v]
  BY <1>5, <1>6
<1>10. TypeOK'
  BY <1>1, <1>5, <1>7, <1>8, <1>9 DEF TypeOK
<1>11. TicketInv'
  <2>1. ASSUME NEW d \in Consumer, consumer'[d].pc # "idle"
        PROVE  consumer'[d].job \in Update /\ consumer'[d].ticket \in 1 .. job'[consumer'[d].job].attempts
    <3>1. CASE d = c
      BY <1>2, <1>3, <1>4, <1>7, <1>8, <3>1
    <3>2. CASE d # c
      <4>1. consumer[d].job \in Update /\ consumer[d].ticket \in 1 .. job[consumer[d].job].attempts
        BY <1>1, <1>8, <2>1, <3>2 DEF TicketInv, At, Mine
      <4>2. consumer[d].job # u => job'[consumer[d].job] = job[consumer[d].job]
        BY <1>7, <4>1
      <4> QED
        BY <1>2, <1>3, <1>7, <1>8, <3>2, <4>1, <4>2
    <3> QED
      BY <3>1, <3>2
  <2>2. ASSUME NEW d \in Consumer, d # c, consumer[d].pc # "idle", consumer[d].job = u
        PROVE  consumer[d].ticket # task.ticket
    <3>1. consumer[d].ticket \in 1 .. job[u].attempts
      BY <1>1, <2>2 DEF TicketInv, At, Mine
    <3> QED
      BY <1>2, <1>4, <3>1
  <2>3. ASSUME NEW d \in Consumer, NEW e \in Consumer, d # e, consumer'[d].pc # "idle",
               consumer'[e].pc # "idle", consumer'[d].job = consumer'[e].job
        PROVE  consumer'[d].ticket # consumer'[e].ticket
    <3>1. CASE d = c
      BY <1>4, <1>8, <2>2, <2>3, <3>1
    <3>2. CASE e = c
      BY <1>4, <1>8, <2>2, <2>3, <3>2
    <3>3. CASE d # c /\ e # c
      BY <1>1, <1>8, <2>3, <3>3 DEF TicketInv, At, Mine
    <3> QED
      BY <3>1, <3>2, <3>3
  <2> QED
    BY <2>1, <2>3 DEF TicketInv, At, Mine
<1>12. WaitingInv'
  BY <1>1, <1>3, <1>7 DEF WaitingInv
<1>13. AttemptsBounded'
  <2>1. row.attempts <= MaxAttempts + takeovers'[u]
    <3>1. CASE Stale(u)
      <4>1. job[u].attempts <= MaxAttempts + takeovers[u]
        BY <1>1 DEF AttemptsBounded
      <4> QED
        BY <1>2, <1>3, <1>6, <1>9, <3>1, <4>1, AttemptsAssumption
    <3>2. CASE ~Stale(u)
      <4>1. job[u].attempts < MaxAttempts
        BY <1>1, <1>5, <3>2 DEF WaitingInv
      <4> QED
        BY <1>2, <1>3, <1>6, <1>9, <3>2, <4>1, AttemptsAssumption
    <3> QED
      BY <3>1, <3>2
  <2> QED
    BY <1>1, <1>7, <1>9, <2>1 DEF AttemptsBounded
<1> QED
  BY <1>10, <1>11, <1>12, <1>13 DEF QueueInv

\* What KeepStep asks of what a step leaves alone.
LEMMA SameJob ==
    ASSUME QueueInv
    PROVE  /\ job \in [Update -> JobRow] /\ acknowledged \subseteq Update
           /\ process \in [Process -> ProcessState] /\ consumer \in [Consumer -> Task]
           /\ faults \in 0 .. MaxFaults
           /\ \A u \in Update : job[u].status \in {"absent", "pending"} => job[u].attempts < MaxAttempts
BY DEF QueueInv, TypeOK, WaitingInv

\* One row changes, no attempt begins.
LEMMA RowStep ==
    ASSUME QueueInv, NEW u \in Update, NEW row \in JobRow, job' = [job EXCEPT ![u] = row],
           row.attempts = job[u].attempts,
           row.status \in {"absent", "pending"} => job[u].attempts < MaxAttempts
    PROVE  /\ job' \in [Update -> JobRow]
           /\ \A v \in Update : /\ job'[v].attempts = job[v].attempts
                                /\ job'[v].status \in {"absent", "pending"} =>
                                      job[v].attempts < MaxAttempts
BY DEF QueueInv, TypeOK, WaitingInv

LEMMA PostStep == ASSUME QueueInv, NEW u \in Update, Post(u) PROVE QueueInv'
<1> DEFINE row == IF job[u].status = "absent" THEN [job[u] EXCEPT !.status = "pending"] ELSE job[u]
<1>1. job' = [job EXCEPT ![u] = row] /\ UNCHANGED <<process, consumer, takeovers>>
      /\ acknowledged' \in {acknowledged, acknowledged \union {u}}
      /\ (Fault \/ UNCHANGED faults)
  BY DEF Post
<1>2. TypeOK /\ job[u] \in JobRow
  BY RowType DEF QueueInv
<1>3. row \in JobRow /\ row.attempts = job[u].attempts
      /\ (row.status \in {"absent", "pending"} => job[u].status \in {"absent", "pending"})
  BY <1>2 DEF JobRow
<1> HIDE DEF row
<1>4. row.status \in {"absent", "pending"} => job[u].attempts < MaxAttempts
  BY <1>3, SameJob
<1>5. /\ job' \in [Update -> JobRow]
      /\ \A v \in Update : /\ job'[v].attempts = job[v].attempts
                           /\ job'[v].status \in {"absent", "pending"} =>
                                 job[v].attempts < MaxAttempts
  BY <1>1, <1>3, <1>4, RowStep
<1>6. faults' \in 0 .. MaxFaults /\ acknowledged' \subseteq Update
  BY <1>1, <1>2, FaultType, SameJob
<1> QED
  BY <1>1, <1>5, <1>6, SameJob, KeepStep

\* A step that leaves the jobs alone, and of a consumer at most its job.
LEMMA ConsumerStep ==
    ASSUME QueueInv, UNCHANGED <<job, acknowledged, takeovers>>, Fault \/ UNCHANGED faults,
           process' \in [Process -> ProcessState],
           consumer' \in [Consumer -> Task],
           \A c \in Consumer : \/ consumer'[c].pc = "idle"
                               \/ /\ consumer[c].pc # "idle"
                                  /\ consumer'[c].job = consumer[c].job
                                  /\ consumer'[c].ticket = consumer[c].ticket
    PROVE  QueueInv'
<1>1. TypeOK
  BY DEF QueueInv
<1>2. faults' \in 0 .. MaxFaults
  BY <1>1, FaultType, SameJob
<1>3. /\ job' \in [Update -> JobRow] /\ acknowledged' \subseteq Update /\ takeovers' = takeovers
      /\ \A u \in Update : /\ job'[u].attempts = job[u].attempts
                           /\ job'[u].status \in {"absent", "pending"} =>
                                 job[u].attempts < MaxAttempts
  BY SameJob
<1> QED
  BY <1>2, <1>3, KeepStep

\* A consumer that goes on with its job.
LEMMA GoesOn ==
    ASSUME QueueInv, NEW c \in Consumer, consumer[c].pc # "idle", NEW pc \in {"settle", "close"},
           NEW ok \in BOOLEAN,
           \/ consumer' = [consumer EXCEPT ![c].pc = pc, ![c].ok = ok]
           \/ consumer' = [consumer EXCEPT ![c].pc = pc]
    PROVE  /\ consumer' \in [Consumer -> Task]
           /\ \A d \in Consumer : \/ consumer'[d].pc = "idle"
                                  \/ /\ consumer[d].pc # "idle"
                                     /\ consumer'[d].job = consumer[d].job
                                     /\ consumer'[d].ticket = consumer[d].ticket
<1>1. consumer \in [Consumer -> Task] /\ consumer[c] \in Task
  BY SameJob
<1> DEFINE one == [consumer[c] EXCEPT !.pc = pc, !.ok = ok]
           two == [consumer[c] EXCEPT !.pc = pc]
<1>2. /\ one \in Task /\ one.job = consumer[c].job /\ one.ticket = consumer[c].ticket
      /\ two \in Task /\ two.job = consumer[c].job /\ two.ticket = consumer[c].ticket
  BY <1>1 DEF Task
<1>3. \/ consumer' = [consumer EXCEPT ![c] = one]
      \/ consumer' = [consumer EXCEPT ![c] = two]
  BY <1>1
<1> HIDE DEF one, two
<1>4. /\ consumer' \in [Consumer -> Task] /\ consumer'[c] \in {one, two}
      /\ \A d \in Consumer : d # c => consumer'[d] = consumer[d]
  BY <1>1, <1>2, <1>3
<1>5. \A d \in Consumer : d # c => \/ consumer'[d].pc = "idle"
                                  \/ /\ consumer[d].pc # "idle"
                                     /\ consumer'[d].job = consumer[d].job
                                     /\ consumer'[d].ticket = consumer[d].ticket
  BY <1>4
<1>6. consumer'[c].job = consumer[c].job /\ consumer'[c].ticket = consumer[c].ticket
  BY <1>2, <1>4
<1> QED
  BY <1>4, <1>5, <1>6

\* One that leaves its job, or all those of a process that do.
LEMMA Leaves ==
    ASSUME QueueInv,
           \/ \E c \in Consumer : consumer' = [consumer EXCEPT ![c] = Idle]
           \/ \E p \in Process : consumer' = Abandoned(p)
           \/ UNCHANGED consumer
    PROVE  /\ consumer' \in [Consumer -> Task]
           /\ \A d \in Consumer : \/ consumer'[d].pc = "idle"
                                  \/ /\ consumer[d].pc # "idle"
                                     /\ consumer'[d].job = consumer[d].job
                                     /\ consumer'[d].ticket = consumer[d].ticket
<1>1. consumer \in [Consumer -> Task]
  BY SameJob
<1>2. /\ consumer' \in [Consumer -> Task]
      /\ \A d \in Consumer : consumer'[d] = Idle \/ consumer'[d] = consumer[d]
  BY <1>1, IdleType, AbandonedType
<1> QED
  BY <1>2, IdleType

LEMMA SettleStep == ASSUME QueueInv, NEW c \in Consumer, Settle(c) PROVE QueueInv'
<1>1. /\ consumer[c].pc = "settle" /\ consumer' = [consumer EXCEPT ![c].pc = "close"]
      /\ UNCHANGED <<acknowledged, process, takeovers, faults>>
  BY DEF Settle, At
<1>2. /\ consumer' \in [Consumer -> Task]
      /\ \A d \in Consumer : \/ consumer'[d].pc = "idle"
                             \/ /\ consumer[d].pc # "idle"
                                /\ consumer'[d].job = consumer[d].job
                                /\ consumer'[d].ticket = consumer[d].ticket
  BY <1>1, GoesOn
<1>3. CASE job' = job
  BY <1>1, <1>2, <1>3, SameJob, ConsumerStep
<1>4. CASE \E row \in {CompletedJob(job[Mine(c)]), FailedJob(job[Mine(c)])} :
              job' = [job EXCEPT ![Mine(c)] = row]
  <2> DEFINE u == Mine(c)
  <2>1. u \in Update /\ job[u] \in JobRow /\ job[u].attempts \in Nat
    BY <1>1, TaskType, RowType DEF QueueInv, Mine
  <2> HIDE DEF u
  <2>2. /\ CompletedJob(job[u]) \in JobRow /\ CompletedJob(job[u]).attempts = job[u].attempts
        /\ CompletedJob(job[u]).status = "done"
    BY <2>1 DEF CompletedJob, JobRow
  <2>3. /\ FailedJob(job[u]) \in JobRow /\ FailedJob(job[u]).attempts = job[u].attempts
        /\ FailedJob(job[u]).status \in {"absent", "pending"} => job[u].attempts < MaxAttempts
    BY <2>1 DEF FailedJob, JobRow
  <2>4. PICK row \in {CompletedJob(job[u]), FailedJob(job[u])} : job' = [job EXCEPT ![u] = row]
    BY <1>4 DEF u
  <2>5. row \in JobRow /\ row.attempts = job[u].attempts
        /\ (row.status \in {"absent", "pending"} => job[u].attempts < MaxAttempts)
    BY <2>2, <2>3, <2>4
  <2>6. /\ job' \in [Update -> JobRow]
        /\ \A v \in Update : /\ job'[v].attempts = job[v].attempts
                             /\ job'[v].status \in {"absent", "pending"} =>
                                   job[v].attempts < MaxAttempts
    BY <2>1, <2>4, <2>5, RowStep
  <2> QED
    BY <1>1, <1>2, <2>6, SameJob, KeepStep
<1> QED
  BY <1>3, <1>4 DEF Settle

LEMMA ClockStep ==
    ASSUME QueueInv, NEW u \in Update, Backoff(u) \/ JobGoesStale(u)  PROVE QueueInv'
<1> DEFINE due == [job[u] EXCEPT !.due = TRUE]
           old == [job[u] EXCEPT !.fresh = FALSE]
<1>1. TypeOK /\ job[u] \in JobRow
  BY RowType DEF QueueInv
<1>2. \A row \in {due, old} : /\ row \in JobRow /\ row.attempts = job[u].attempts
                              /\ row.status = job[u].status
  BY <1>1 DEF JobRow
<1>3. \/ job' = [job EXCEPT ![u] = due]
      \/ job' = [job EXCEPT ![u] = old]
  BY DEF Backoff, JobGoesStale
<1>4. UNCHANGED <<acknowledged, process, consumer, takeovers>> /\ (Fault \/ UNCHANGED faults)
  BY DEF Backoff, JobGoesStale
<1> HIDE DEF due, old
<1>5. PICK row \in {due, old} : job' = [job EXCEPT ![u] = row]
  BY <1>3
<1>6. row \in JobRow /\ row.attempts = job[u].attempts
      /\ (row.status \in {"absent", "pending"} => job[u].attempts < MaxAttempts)
  BY <1>2, <1>5, SameJob
<1>7. /\ job' \in [Update -> JobRow]
      /\ \A v \in Update : /\ job'[v].attempts = job[v].attempts
                           /\ job'[v].status \in {"absent", "pending"} =>
                                 job[v].attempts < MaxAttempts
  BY <1>5, <1>6, RowStep
<1>8. faults' \in 0 .. MaxFaults
  BY <1>1, <1>4, FaultType, SameJob
<1>9. /\ acknowledged' \subseteq Update /\ process' \in [Process -> ProcessState]
      /\ takeovers' = takeovers
  BY <1>4, SameJob
<1>10. /\ consumer' \in [Consumer -> Task]
       /\ \A d \in Consumer : \/ consumer'[d].pc = "idle"
                              \/ /\ consumer[d].pc # "idle"
                                 /\ consumer'[d].job = consumer[d].job
                                 /\ consumer'[d].ticket = consumer[d].ticket
  BY <1>4, Leaves
<1> QED
  BY <1>7, <1>8, <1>9, <1>10, KeepStep

LEMMA TaskStep ==
    ASSUME QueueInv, NEW c \in Consumer,
           Handled(c) \/ Close(c) \/ SettleFails(c) \/ HeartbeatCancels(c) \/ HandlerCancelled(c)
    PROVE  QueueInv'
<1>1. ProcessOf[c] \in Process /\ process \in [Process -> ProcessState]
  BY ConsumerAssumption, SameJob
<1>2. CASE Handled(c)
  <2>1. PICK ok \in BOOLEAN : consumer' = [consumer EXCEPT ![c].pc = "settle", ![c].ok = ok]
    BY <1>2 DEF Handled
  <2>2. consumer[c].pc = "handle" /\ UNCHANGED <<job, acknowledged, process, takeovers, faults>>
    BY <1>2 DEF Handled, At
  <2> QED
    BY <1>1, <2>1, <2>2, GoesOn, ConsumerStep
<1>3. CASE Close(c) \/ HandlerCancelled(c)
  <2>1. /\ consumer' = [consumer EXCEPT ![c] = Idle] /\ UNCHANGED <<job, acknowledged, process, takeovers>>
        /\ (Fault \/ UNCHANGED faults)
    BY <1>3 DEF Close, HandlerCancelled
  <2> QED
    BY <1>1, <2>1, Leaves, ConsumerStep
<1>4. CASE SettleFails(c) \/ HeartbeatCancels(c)
  <2>1. /\ UNCHANGED <<job, acknowledged, takeovers>> /\ (Fault \/ UNCHANGED faults)
        /\ \/ consumer' = [consumer EXCEPT ![c] = Idle] /\ UNCHANGED process
           \/ Halts(ProcessOf[c])
    BY <1>4 DEF SettleFails, HeartbeatCancels
  <2>2. process' \in [Process -> ProcessState]
    BY <1>1, <2>1 DEF Halts, ProcessState
  <2>3. \/ consumer' = [consumer EXCEPT ![c] = Idle]
        \/ consumer' = Abandoned(ProcessOf[c])
    BY <2>1 DEF Halts
  <2> QED
    BY <1>1, <2>1, <2>2, <2>3, Leaves, ConsumerStep
<1> QED
  BY <1>2, <1>3, <1>4

LEMMA ProcessStep ==
    ASSUME QueueInv, NEW p \in Process, Start(p) \/ Stop(p) \/ Stopped(p) \/ Crash(p)
    PROVE  QueueInv'
<1>1. UNCHANGED <<job, acknowledged, takeovers>> /\ (Fault \/ UNCHANGED faults)
  BY DEF Start, Stop, Stopped, Crash
<1>2. process' \in [Process -> ProcessState]
  BY SameJob DEF Start, Stop, Stopped, Crash, ProcessState
<1>3. consumer' = Abandoned(p) \/ UNCHANGED consumer
  BY DEF Start, Stop, Stopped, Crash
<1> QED
  BY <1>1, <1>2, <1>3, Leaves, ConsumerStep

LEMMA StepHolds == ASSUME QueueInv, [Next]_vars PROVE QueueInv'
<1>1. CASE Next
  BY <1>1, PostStep, ClockStep, ClaimStep, SettleStep, TaskStep, ProcessStep DEF Next
<1>2. CASE UNCHANGED vars
  BY <1>2 DEF vars, QueueInv, TypeOK, TicketInv, WaitingInv, AttemptsBounded, At, Mine
<1> QED
  BY <1>1, <1>2

-----------------------------------------------------------------------------
(* What is proved of the queue.                                            *)

\* Every claim of a job has a number of its own, and a job that waits has an attempt left.
THEOREM QueueInvariant == Spec => []QueueInv
BY InitHolds, StepHolds, PTL DEF Spec

\* A job that is attempted more often than configured was taken over as often from consumers
\* that had vanished or stood still.
THEOREM AttemptsAreBounded == Spec => []AttemptsBounded
<1>1. QueueInv => AttemptsBounded
  BY DEF QueueInv
<1> QED
  BY <1>1, QueueInvariant, PTL

\* However many consumers handle an update at once, one at most can settle it.
THEOREM OneConsumerSettles == Spec => []OneOwner
<1>1. QueueInv => OneOwner
  BY DEF QueueInv, TicketInv, OneOwner, OwnsJob, Mine, At
<1> QED
  BY <1>1, QueueInvariant, PTL

\* A job that was settled stays as it was settled, whoever still handles it and however often
\* Telegram posts the update again.
THEOREM SettledStays == Spec => SettledForGood
<1> DEFINE Stays == \A u \in Update : job[u].status \in Final => job'[u].status = job[u].status
<1>1. ASSUME QueueInv, [Next]_vars  PROVE [Stays]_vars
  <2> SUFFICES ASSUME NEW v \in Update, job[v].status \in Final  PROVE job'[v].status = job[v].status
    OBVIOUS
  <2>1. job \in [Update -> JobRow]
    BY <1>1, SameJob
  <2>2. ASSUME NEW u \in Update, Post(u)  PROVE job'[v].status = job[v].status
    BY <2>1, <2>2 DEF Post, Final
  <2>3. ASSUME NEW u \in Update, Backoff(u) \/ JobGoesStale(u)  PROVE job'[v].status = job[v].status
    BY <2>1, <2>3 DEF Backoff, JobGoesStale, Final
  <2>4. ASSUME NEW c \in Consumer, NEW u \in Update, Claim(c, u)  PROVE job'[v].status = job[v].status
    <3>1. u # v /\ job' = [job EXCEPT ![u] = Claimed(job[u])]
      BY <2>4 DEF Claim, Claimable, Stale, Final
    <3> QED
      BY <2>1, <3>1
  <2>5. ASSUME NEW c \in Consumer, Settle(c)  PROVE job'[v].status = job[v].status
    <3>1. CASE OwnsJob(c)
      <4>1. Mine(c) # v
        BY <3>1 DEF OwnsJob, Final
      <4>2. \E row : job' = [job EXCEPT ![Mine(c)] = row]
        BY <2>5, <3>1 DEF Settle
      <4> QED
        BY <2>1, <4>1, <4>2
    <3>2. CASE ~OwnsJob(c)
      BY <2>5, <3>2 DEF Settle
    <3> QED
      BY <3>1, <3>2
  <2>6. ASSUME UNCHANGED job  PROVE job'[v].status = job[v].status
    BY <2>6
  <2> QED
    BY <1>1, <2>2, <2>3, <2>4, <2>5, <2>6 DEF Next, vars, Handled, Close, SettleFails,
       HeartbeatCancels, HandlerCancelled, Start, Stop, Stopped, Crash
<1> QED
  BY <1>1, QueueInvariant, PTL DEF Spec, SettledForGood
=============================================================================
