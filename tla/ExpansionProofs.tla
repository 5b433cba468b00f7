--------------------------- MODULE ExpansionProofs ---------------------------
(***************************************************************************)
(* The expansion of answers, for any offers, presses, consumers, processes,*)
(* prices, attempts and faults.  The lease of the user names the press and *)
(* the attempt that took it, and no two tasks have the same: what the task *)
(* with the live lease is about to do fits the question of the expansion   *)
(* (PhaseInv), and so the question, its offer, its ledger and its answers  *)
(* go together (RowInv, HeldInv).                                          *)
(***************************************************************************)
EXTENDS AnswerExpansion, FiniteSetTheorems, TLAPS

Busy(w) == worker[w].pc # "idle"

\* A press has an attempt number of its own at each claim.
TicketInv ==
    /\ \A w \in Worker : Busy(w) => /\ Mine(w) \in Click
                                    /\ worker[w].ticket <= job[Mine(w)].attempts
    /\ \A v, w \in Worker : /\ Busy(v) /\ Busy(w) /\ Mine(v) = Mine(w)
                            /\ worker[v].ticket = worker[w].ticket
                            => v = w
    /\ lease.click # 0 => /\ lease.for = ClickOf[lease.click]
                          /\ lease.ticket <= job[lease.click].attempts

UnderWay == {"started", "generate", "persist", "undo", "resume", "recover"}

Phase(w) ==
    /\ worker[w].pc \in UnderWay => question[Target(w)].status = "processing"
    /\ worker[w].pc = "close" => question[Target(w)].status = "failed"

\* Whoever holds the lease finds the question as its own steps left it.
PhaseInv == \A w \in Worker : Busy(w) /\ Holds(w) => Phase(w)

OfferFor(status) ==
    CASE status = "none"       -> {"none", "offered", "invalidated"}
      [] status = "processing" -> {"processing"}
      [] status = "answered"   -> {"generated", "sent"}
      [] status = "failed"     -> {"processing", "failed"}

Hold(status) ==
    CASE status = "none"       -> "none"
      [] status = "processing" -> "pending"
      [] status = "answered"   -> "committed"
      [] status = "failed"     -> "released"

\* The offer, the ledger and the answers of an expansion follow from its question.
RowFits(o) ==
    /\ question[o].delivery => question[o].status = "processing"
    /\ offer[o] \in OfferFor(question[o].status)
    /\ reservation[o] = IF Paying THEN Hold(question[o].status) ELSE "none"
    /\ o \in charged <=> reservation[o] = "committed"
    /\ o \in released <=> reservation[o] = "released"
    /\ answers[o] = IF question[o].status = "answered" THEN 1 ELSE 0

RowInv == \A o \in Offer : RowFits(o)

\* The account holds what its reservations add up to.
HeldInv ==
    /\ IsFiniteSet(Held)
    /\ account.reserved = Cost * Cardinality(Held)
    /\ account.reserved <= account.balance

IInv == TypeOK /\ TicketInv /\ PhaseInv /\ RowInv /\ HeldInv

-----------------------------------------------------------------------------
(* Steps of one task.                                                      *)

Pc == {"idle", "open", "acquire", "choose", "begin", "started", "generate", "persist", "undo",
       "resume", "recover", "close", "leave", "settle"}
Outcomes == {"ok", "error", "cancelled"}

\* Task w goes on with the same press and attempt.
Moves(w) ==
    /\ Busy(w)
    /\ worker' \in [Worker -> Task]
    /\ \A v \in Worker \ {w} : worker'[v] = worker[v]
    /\ worker'[w].click = worker[w].click /\ worker'[w].ticket = worker[w].ticket
    /\ worker'[w].pc # "idle"

LEMMA Kinds == Idle \in Task /\ Idle.pc = "idle" /\ NoLease \in LeaseRow /\ NoLease.click = 0
  BY DEF Idle, Task, NoLease, LeaseRow, OfferStatus

LEMMA TaskFields ==
    ASSUME NEW t \in Task, NEW pc \in Pc, NEW outcome \in Outcomes
    PROVE  /\ [t EXCEPT !.pc = pc] \in Task
           /\ [t EXCEPT !.pc = pc, !.outcome = outcome] \in Task
  BY DEF Task, Pc, Outcomes

LEMMA GoMoves ==
    ASSUME TypeOK, NEW w \in Worker, Busy(w), NEW pc \in Pc \ {"idle"}, Go(w, pc)
    PROVE  Moves(w) /\ worker'[w].pc = pc
<1>1. worker \in [Worker -> Task] /\ worker[w] \in Task
  BY DEF TypeOK
<1>2. [worker[w] EXCEPT !.pc = pc] \in Task
  BY <1>1, TaskFields DEF Outcomes, Task
<1>3. worker' = [worker EXCEPT ![w] = [worker[w] EXCEPT !.pc = pc]]
  BY DEF Go
<1>4. worker'[w] = [worker[w] EXCEPT !.pc = pc]
  BY <1>1, <1>3
<1>5. worker'[w].pc = pc /\ worker'[w].click = worker[w].click
      /\ worker'[w].ticket = worker[w].ticket
  BY <1>1, <1>4 DEF Task
<1>6. worker' \in [Worker -> Task] /\ \A v \in Worker \ {w} : worker'[v] = worker[v]
  BY <1>1, <1>2, <1>3
<1> QED
  BY <1>5, <1>6 DEF Moves

LEMMA EndsMoves ==
    ASSUME TypeOK, NEW w \in Worker, Busy(w), NEW pc \in Pc \ {"idle"},
           NEW outcome \in Outcomes, Ends(w, pc, outcome)
    PROVE  Moves(w) /\ worker'[w].pc = pc
<1>1. worker \in [Worker -> Task] /\ worker[w] \in Task
  BY DEF TypeOK
<1>2. [worker[w] EXCEPT !.pc = pc, !.outcome = outcome] \in Task
  BY <1>1, TaskFields
<1>3. worker' = [worker EXCEPT ![w] = [worker[w] EXCEPT !.pc = pc, !.outcome = outcome]]
  BY DEF Ends
<1>4. worker'[w] = [worker[w] EXCEPT !.pc = pc, !.outcome = outcome]
  BY <1>1, <1>3
<1>5. worker'[w].pc = pc /\ worker'[w].click = worker[w].click
      /\ worker'[w].ticket = worker[w].ticket
  BY <1>1, <1>4 DEF Task
<1>6. worker' \in [Worker -> Task] /\ \A v \in Worker \ {w} : worker'[v] = worker[v]
  BY <1>1, <1>2, <1>3
<1> QED
  BY <1>5, <1>6 DEF Moves

LEMMA TaskFacts ==
    ASSUME TypeOK, TicketInv, NEW w \in Worker
    PROVE  /\ worker[w] \in Task /\ worker[w].ticket \in Nat
           /\ Busy(w) => Mine(w) \in Click /\ Mine(w) # 0 /\ Target(w) \in Offer
  BY ClickAssumption DEF TypeOK, TicketInv, Task, Mine, Target

LEMMA LeaseFacts ==
    ASSUME TypeOK
    PROVE  /\ lease.click \in Click \union {0} /\ lease.ticket \in Nat /\ lease.live \in BOOLEAN
           /\ lease.click # 0 => lease.click \in Click
           /\ \A c \in Click : job[c].attempts \in Nat
  BY DEF TypeOK, LeaseRow, JobRow

\* At most one task has the lease.
LEMMA OneHolder ==
    ASSUME TicketInv, NEW v \in Worker, NEW w \in Worker, Busy(v), Busy(w),
           IsOwner(v), IsOwner(w)
    PROVE  v = w
  BY DEF TicketInv, IsOwner, Mine

\* Its lease is for the answer it expands.
LEMMA HolderLive ==
    ASSUME TypeOK, TicketInv, NEW w \in Worker, Busy(w), Holds(w)
    PROVE  LiveFor(Target(w))
  BY TaskFacts DEF TicketInv, Holds, IsOwner, LiveFor, Target

\* A step of a task that leaves jobs alone, and the lease too or gives it up.
LEMMA KeepsTickets ==
    ASSUME TypeOK, TicketInv, NEW w \in Worker, Moves(w), job' = job,
           lease' = lease \/ lease' = NoLease
    PROVE  TicketInv'
<1>1. \A v \in Worker : Busy(v)' => Busy(v) /\ Mine(v)' = Mine(v)
                                    /\ worker'[v].ticket = worker[v].ticket
  BY DEF Moves, Busy, Mine
<1>2. lease'.click # 0 => lease' = lease
  BY Kinds
<1> QED
  BY <1>1, <1>2 DEF TicketInv

\* Such a step keeps PhaseInv if the questions of the other holders stay as they were.
LEMMA KeepsPhase ==
    ASSUME TypeOK, TicketInv, PhaseInv, NEW w \in Worker, Moves(w),
           lease' = lease \/ lease' = NoLease,
           \/ question' = question
           \/ /\ Holds(w)
              /\ \A o \in Offer \ {Target(w)} : question'[o] = question[o],
           Holds(w) /\ Holds(w)' => Phase(w)'
    PROVE  PhaseInv'
<1> SUFFICES ASSUME NEW v \in Worker, Busy(v)', Holds(v)'  PROVE Phase(v)'
  BY DEF PhaseInv
<1>1. Busy(v) /\ Mine(v)' = Mine(v) /\ Target(v)' = Target(v)
      /\ worker'[v].ticket = worker[v].ticket
  BY DEF Moves, Busy, Mine, Target
<1>2. lease' = lease
  <2>1. Mine(v) # 0
    BY <1>1, TaskFacts
  <2> QED
    BY <1>1, <2>1, Kinds DEF Holds, IsOwner
<1>3. Holds(v)
  BY <1>1, <1>2 DEF Holds, IsOwner
<1>4. CASE v = w
  BY <1>3, <1>4
<1>5. CASE v # w
  <2>1. question'[Target(v)] = question[Target(v)]
    <3>1. CASE Holds(w)
      BY <1>1, <1>3, <1>5, <3>1, OneHolder DEF Holds, Moves
    <3>2. CASE question' = question
      BY <3>2
    <3> QED
      BY <3>1, <3>2
  <2>2. worker'[v] = worker[v]
    BY <1>5 DEF Moves
  <2> QED
    BY <1>1, <1>3, <2>1, <2>2 DEF PhaseInv, Phase
<1> QED
  BY <1>4, <1>5

LEMMA StaysFit ==
    ASSUME NEW o \in Offer, RowFits(o), question'[o] = question[o], offer'[o] = offer[o],
           reservation'[o] = reservation[o], o \in charged' <=> o \in charged,
           o \in released' <=> o \in released, answers'[o] = answers[o]
    PROVE  RowFits(o)'
  BY DEF RowFits

\* A step that only moves a task on.
LEMMA QuietStep ==
    ASSUME IInv, NEW w \in Worker, Moves(w),
           UNCHANGED <<offer, question, ledger, lease, job, closed, blocked, reading, answers>>,
           faults' \in 0 .. MaxFaults,
           Holds(w) => Phase(w)'
    PROVE  IInv'
<1>1. TypeOK'
  BY DEF IInv, TypeOK, Moves, ledger
<1>2. TicketInv'
  BY KeepsTickets DEF IInv
<1>3. PhaseInv'
  BY KeepsPhase DEF IInv
<1>4. RowInv' /\ HeldInv'
  BY DEF IInv, RowInv, RowFits, HeldInv, Held, ledger
<1> QED
  BY <1>1, <1>2, <1>3, <1>4 DEF IInv

-----------------------------------------------------------------------------
(* Steps that only move a task on.                                         *)

LEMMA LookStep == ASSUME IInv, NEW w \in Worker, Look(w)  PROVE IInv'
<1> DEFINE next == IF blocked THEN "settle" ELSE "acquire"
<1>1. TypeOK /\ TicketInv /\ Busy(w) /\ worker[w].pc = "open"
  BY DEF IInv, Look, At, Busy
<1>2. worker \in [Worker -> Task] /\ worker[w] \in Task /\ offer[Target(w)] \in OfferStatus
  BY <1>1, TaskFacts DEF TypeOK
<1> DEFINE new == [worker[w] EXCEPT !.pc = next, !.seen = offer[Target(w)], !.open = ~closed]
<1>3. worker' = [worker EXCEPT ![w] = new]
  BY DEF Look
<1>4. worker'[w] = new /\ new \in Task
  BY <1>2, <1>3 DEF Task
<1>5. Moves(w) /\ worker'[w].pc \in {"settle", "acquire"}
  BY <1>1, <1>2, <1>3, <1>4 DEF Moves, Task
<1>6. Phase(w)'
  BY <1>5 DEF Phase, UnderWay
<1> QED
  BY <1>5, <1>6, QuietStep DEF Look, IInv, TypeOK

LEMMA RefuseStep == ASSUME IInv, NEW w \in Worker, Refuse(w)  PROVE IInv'
<1>1. Moves(w) /\ worker'[w].pc = "leave"
  BY GoMoves DEF Refuse, At, Busy, IInv, Pc
<1> QED
  BY <1>1, QuietStep DEF Refuse, IInv, TypeOK, Phase, UnderWay

LEMMA ResumeStep == ASSUME IInv, NEW w \in Worker, Resume(w)  PROVE IInv'
<1>1. Moves(w) /\ worker'[w].pc = "resume" /\ Busy(w)
  BY GoMoves DEF Resume, At, Busy, IInv, Pc
<1>2. Target(w) \in Offer /\ Target(w)' = Target(w)
  BY <1>1, TaskFacts DEF IInv, Moves, Target, Mine
<1>3. question[Target(w)].status = "processing"
  BY <1>2 DEF Resume, Interrupted, IInv, RowInv, RowFits
<1>4. Phase(w)'
  BY <1>1, <1>2, <1>3 DEF Phase, Resume
<1> QED
  BY <1>1, <1>4, QuietStep DEF Resume, IInv, TypeOK

LEMMA ExamineStep == ASSUME IInv, NEW w \in Worker, Examine(w)  PROVE IInv'
<1>1. Moves(w) /\ worker'[w].pc = "begin"
  BY GoMoves DEF Examine, At, Busy, IInv, Pc
<1> QED
  BY <1>1, QuietStep DEF Examine, IInv, TypeOK, Phase, UnderWay

LEMMA StartAgainStep == ASSUME IInv, NEW w \in Worker, StartAgain(w)  PROVE IInv'
<1>1. Moves(w) /\ worker'[w].pc = "leave"
  BY EndsMoves DEF StartAgain, At, Busy, IInv, Pc, Outcomes
<1> QED
  BY <1>1, QuietStep DEF StartAgain, IInv, TypeOK, Phase, UnderWay

\* A holder whose question is being worked on goes on to work on it.
LEMMA OnwardStep ==
    ASSUME IInv, NEW w \in Worker, worker[w].pc \in UnderWay, NEW pc \in UnderWay, Go(w, pc),
           UNCHANGED <<offer, question, ledger, lease, job, closed, blocked, reading, answers,
                       faults>>
    PROVE  IInv'
<1>1. Moves(w) /\ worker'[w].pc = pc /\ Busy(w)
  BY GoMoves DEF UnderWay, Busy, IInv, Pc
<1>2. Target(w) \in Offer /\ Target(w)' = Target(w)
  BY <1>1, TaskFacts DEF IInv, Moves, Target, Mine
<1>3. Holds(w) => Phase(w)'
  BY <1>1, <1>2 DEF Phase, IInv, PhaseInv, UnderWay
<1> QED
  BY <1>1, <1>3, QuietStep DEF IInv, TypeOK

LEMMA GenerateStep == ASSUME IInv, NEW w \in Worker, Generate(w)  PROVE IInv'
<1>1. PICK pc \in {"persist", "undo"} : Go(w, pc)
  BY DEF Generate
<1> QED
  BY <1>1, OnwardStep DEF Generate, At, UnderWay

LEMMA ResumeGenerateStep == ASSUME IInv, NEW w \in Worker, ResumeGenerate(w)  PROVE IInv'
<1>1. PICK pc \in {"persist", "recover"} : Go(w, pc)
  BY DEF ResumeGenerate
<1> QED
  BY <1>1, OnwardStep DEF ResumeGenerate, At, UnderWay

LEMMA ResumeRefusedStep == ASSUME IInv, NEW w \in Worker, ResumeRefused(w)  PROVE IInv'
  BY OnwardStep DEF ResumeRefused, At, UnderWay

LEMMA LeaseLostStep == ASSUME IInv, NEW w \in Worker, LeaseLost(w)  PROVE IInv'
<1>1. PICK outcome \in {"error", "cancelled"} : Ends(w, "leave", outcome)
  BY DEF LeaseLost
<1>2. Moves(w) /\ worker'[w].pc = "leave"
  BY <1>1, EndsMoves DEF LeaseLost, Busy, IInv, Pc, Outcomes
<1> QED
  BY <1>2, QuietStep DEF LeaseLost, IInv, TypeOK, Phase, UnderWay

LEMMA RaiseStep == ASSUME IInv, NEW w \in Worker, Raise(w)  PROVE IInv'
<1>1. Busy(w)
  BY DEF Raise, Busy
<1>2. faults' \in 0 .. MaxFaults
  BY CostAssumption DEF Raise, Fault, IInv, TypeOK
<1> DEFINE next == IF worker[w].pc \in {"open", "acquire", "leave"} THEN "settle" ELSE "leave"
<1>3. PICK outcome \in {"error", "cancelled"} :
          \/ Ends(w, next, outcome)
          \/ At(w, "started") /\ Ends(w, "undo", outcome)
  BY DEF Raise
<1>4. CASE Ends(w, next, outcome)
  <2>1. next \in {"settle", "leave"}
    OBVIOUS
  <2> HIDE DEF next
  <2>2. Moves(w) /\ worker'[w].pc = next
    BY <1>1, <1>4, <2>1, EndsMoves DEF IInv, Pc, Outcomes
  <2> QED
    BY <1>2, <2>1, <2>2, QuietStep DEF Raise, Phase, UnderWay
<1>5. CASE At(w, "started") /\ Ends(w, "undo", outcome)
  <2>1. Moves(w) /\ worker'[w].pc = "undo"
    BY <1>1, <1>5, EndsMoves DEF IInv, Pc, Outcomes
  <2>2. Target(w)' = Target(w)
    BY <2>1 DEF Moves, Target, Mine
  <2>3. Holds(w) => Phase(w)'
    BY <1>1, <1>5, <2>1, <2>2 DEF Phase, IInv, PhaseInv, UnderWay, At, Raise
  <2> QED
    BY <1>2, <2>1, <2>3, QuietStep DEF Raise
<1> QED
  BY <1>3, <1>4, <1>5

LEMMA LeaveStep == ASSUME IInv, NEW w \in Worker, Leave(w)  PROVE IInv'
<1> DEFINE outcome == IF worker[w].outcome = "ok" /\ ~Holds(w) THEN "error" ELSE worker[w].outcome
<1>1. Busy(w) /\ TypeOK /\ outcome \in Outcomes /\ Ends(w, "settle", outcome)
  BY DEF Leave, At, Busy, IInv, TypeOK, Task, Outcomes
<1>2. Moves(w) /\ worker'[w].pc = "settle"
  BY <1>1, EndsMoves DEF Pc
<1>3. lease' = lease \/ lease' = NoLease
  BY DEF Leave
<1>4. Phase(w)'
  BY <1>2 DEF Phase, UnderWay
<1>5. TypeOK'
  BY <1>1, <1>2, <1>3, Kinds DEF TypeOK, Moves, Leave, ledger
<1>6. TicketInv'
  BY <1>2, <1>3, KeepsTickets DEF IInv, Leave
<1>7. PhaseInv'
  BY <1>2, <1>3, <1>4, KeepsPhase DEF IInv, Leave
<1>8. RowInv' /\ HeldInv'
  BY DEF IInv, RowInv, RowFits, HeldInv, Held, ledger, Leave
<1> QED
  BY <1>5, <1>6, <1>7, <1>8 DEF IInv

\* A task that ends, with whatever the job is settled to.
LEMMA SettleStep == ASSUME IInv, NEW w \in Worker, Settle(w)  PROVE IInv'
<1>1. TypeOK /\ TicketInv /\ Busy(w)
  BY DEF IInv, Settle, At, Busy
<1>2. Mine(w) \in Click /\ job \in [Click -> JobRow]
  BY <1>1, TaskFacts DEF TypeOK
<1>3. /\ job' \in [Click -> JobRow]
      /\ \A c \in Click : job'[c].attempts = job[c].attempts
  <2>1. CASE job' = job
    BY <1>2, <2>1
  <2>2. CASE job' = [job EXCEPT ![Mine(w)] = CompletedJob(@)]
    BY <1>2, <2>2 DEF CompletedJob, JobRow
  <2>3. CASE job' = [job EXCEPT ![Mine(w)] = FailedJob(@)]
    <3>1. FailedJob(job[Mine(w)]) \in JobRow /\ FailedJob(job[Mine(w)]).attempts = job[Mine(w)].attempts
      BY <1>2 DEF FailedJob, JobRow
    <3> QED
      BY <1>2, <2>3, <3>1
  <2> QED
    BY <2>1, <2>2, <2>3 DEF Settle
<1>4. worker' = [worker EXCEPT ![w] = Idle]
  BY DEF Settle
<1>5. /\ worker' \in [Worker -> Task] /\ worker'[w].pc = "idle"
      /\ \A v \in Worker \ {w} : worker'[v] = worker[v]
  BY <1>1, <1>4, Kinds DEF TypeOK
<1>6. \A v \in Worker : Busy(v)' => v # w /\ worker'[v] = worker[v]
  BY <1>5 DEF Busy
<1>7. TypeOK'
  BY <1>1, <1>3, <1>5 DEF TypeOK, Settle, ledger
<1>8. TicketInv'
  BY <1>1, <1>3, <1>6, LeaseFacts, TaskFacts DEF TicketInv, Busy, Mine, Settle
<1>9. PhaseInv'
  BY <1>6 DEF IInv, PhaseInv, Phase, Busy, Holds, IsOwner, Target, Mine, Settle
<1>10. RowInv' /\ HeldInv'
  BY DEF IInv, RowInv, RowFits, HeldInv, Held, ledger, Settle
<1> QED
  BY <1>7, <1>8, <1>9, <1>10 DEF IInv

LEMMA AcquireStep == ASSUME IInv, NEW w \in Worker, Acquire(w)  PROVE IInv'
<1>1. TypeOK /\ TicketInv /\ PhaseInv /\ Busy(w)
  BY DEF IInv, Acquire, At, Busy
<1>2. /\ Target(w) \in Offer /\ Mine(w) \in Click /\ worker[w].ticket \in Nat
      /\ worker[w].ticket <= job[Mine(w)].attempts
  BY <1>1, TaskFacts DEF TicketInv
<1>3. CASE ~CanAcquire
  <2>1. Moves(w) /\ worker'[w].pc = "settle"
    BY <1>1, <1>3, GoMoves DEF Acquire, Pc
  <2> QED
    BY <1>3, <2>1, QuietStep DEF Acquire, IInv, TypeOK, Phase, UnderWay
<1>4. CASE CanAcquire
  <2>1. Moves(w) /\ worker'[w].pc = "choose"
    BY <1>1, <1>4, GoMoves DEF Acquire, Pc
  <2>2. lease' = [for |-> Target(w), click |-> Mine(w), ticket |-> worker[w].ticket, live |-> TRUE]
    BY <1>4 DEF Acquire
  <2>3. \A v \in Worker : /\ Busy(v)' => Busy(v)
                          /\ Mine(v)' = Mine(v) /\ worker'[v].ticket = worker[v].ticket
    BY <2>1 DEF Moves, Busy, Mine
  <2>4. lease' \in LeaseRow
    BY <1>2, <2>2 DEF LeaseRow
  <2>5. TypeOK'
    BY <1>1, <2>1, <2>4 DEF TypeOK, Moves, Acquire, ledger
  <2>6. TicketInv'
    BY <1>1, <1>2, <2>2, <2>3 DEF TicketInv, Acquire, Target
  <2>7. PhaseInv'
    <3>1. \A v \in Worker : Busy(v)' /\ Holds(v)' => v = w
      BY <1>1, <2>2, <2>3 DEF TicketInv, Holds, IsOwner
    <3> QED
      BY <2>1, <3>1 DEF PhaseInv, Phase, UnderWay
  <2>8. RowInv' /\ HeldInv'
    BY DEF IInv, RowInv, RowFits, HeldInv, Held, ledger, Acquire
  <2> QED
    BY <2>5, <2>6, <2>7, <2>8 DEF IInv
<1> QED
  BY <1>3, <1>4

LEMMA ClaimStep == ASSUME IInv, NEW w \in Worker, NEW c \in Click, Claim(w, c)  PROVE IInv'
<1> DEFINE n == job[c].attempts + 1
           new == [Idle EXCEPT !.pc = "open", !.click = c, !.ticket = n]
<1>1. TypeOK /\ TicketInv /\ PhaseInv /\ ~Busy(w) /\ c # 0
  BY ClickAssumption DEF IInv, Claim, At, Busy
<1>2. job \in [Click -> JobRow] /\ job[c] \in JobRow /\ n \in Nat /\ job[c].attempts \in Nat
  BY <1>1 DEF TypeOK, JobRow
<1>3. /\ job' \in [Click -> JobRow] /\ job'[c].attempts = n
      /\ \A d \in Click \ {c} : job'[d] = job[d]
  <2>1. job' = [job EXCEPT ![c] = [job[c] EXCEPT !.status = "processing", !.attempts = n,
                                                !.lease = n, !.fresh = TRUE]]
    BY <1>2 DEF Claim
  <2>2. [job[c] EXCEPT !.status = "processing", !.attempts = n, !.lease = n, !.fresh = TRUE]
           \in JobRow
    BY <1>2 DEF JobRow
  <2> QED
    BY <1>2, <2>1, <2>2 DEF JobRow
<1>4. worker' = [worker EXCEPT ![w] = new]
  BY DEF Claim
<1>5. new \in Task /\ new.pc = "open" /\ new.click = c /\ new.ticket = n
  BY <1>2, Kinds DEF Idle, Task
<1>6. /\ worker' \in [Worker -> Task] /\ worker'[w] = new
      /\ \A v \in Worker \ {w} : worker'[v] = worker[v]
  BY <1>1, <1>4, <1>5 DEF TypeOK
<1> HIDE DEF n, new
<1>7. \A d \in Click : job[d].attempts \in Nat /\ job[d].attempts <= job'[d].attempts
  BY <1>1, <1>2, <1>3, LeaseFacts DEF n
<1>8. \A v \in Worker \ {w} : /\ Busy(v)' <=> Busy(v)
                              /\ Mine(v)' = Mine(v) /\ worker'[v].ticket = worker[v].ticket
  BY <1>6 DEF Busy, Mine
<1>9. \A v \in Worker : worker[v].ticket \in Nat
  BY <1>1, TaskFacts
<1>10. Mine(w)' = c /\ worker'[w].ticket = n
  BY <1>5, <1>6 DEF Mine
<1>11. lease' = lease /\ lease.ticket \in Nat
  BY <1>1, LeaseFacts DEF Claim
<1>12. TypeOK'
  BY <1>1, <1>3, <1>6 DEF TypeOK, Claim, ledger
<1>13. TicketInv'
  <2>1. ASSUME NEW v \in Worker, Busy(v)'
        PROVE  Mine(v)' \in Click /\ worker'[v].ticket <= job'[Mine(v)'].attempts
    <3>1. CASE v = w
      BY <1>2, <1>3, <1>10, <3>1
    <3>2. CASE v # w
      <4>1. Mine(v) \in Click /\ worker[v].ticket <= job[Mine(v)].attempts
        BY <1>1, <1>8, <2>1, <3>2 DEF TicketInv
      <4>2. job[Mine(v)].attempts \in Nat /\ job'[Mine(v)].attempts \in Nat
        BY <1>3, <1>7, <4>1 DEF JobRow
      <4> QED
        BY <1>7, <1>8, <1>9, <3>2, <4>1, <4>2
    <3> QED
      BY <3>1, <3>2
  <2>2. ASSUME NEW v \in Worker, v # w, Busy(v), Mine(v) = c  PROVE worker[v].ticket # n
    BY <1>1, <1>2, <1>9, <2>2 DEF TicketInv, n
  <2>3. \A v, u \in Worker :
            /\ Busy(v)' /\ Busy(u)' /\ Mine(v)' = Mine(u)'
            /\ worker'[v].ticket = worker'[u].ticket
            => v = u
    BY <1>1, <1>8, <1>10, <2>2 DEF TicketInv
  <2>4. lease.click # 0 => lease.ticket <= job'[lease.click].attempts
    <3> SUFFICES ASSUME lease.click # 0  PROVE lease.ticket <= job'[lease.click].attempts
      OBVIOUS
    <3>1. lease.click \in Click /\ lease.ticket <= job[lease.click].attempts
      BY <1>1, LeaseFacts DEF TicketInv
    <3>2. job'[lease.click].attempts \in Nat
      BY <1>3, <3>1 DEF JobRow
    <3> QED
      BY <1>7, <1>11, <3>1, <3>2
  <2> QED
    BY <1>1, <1>11, <2>1, <2>3, <2>4 DEF TicketInv
<1>14. PhaseInv'
  <2> SUFFICES ASSUME NEW v \in Worker, Busy(v)', Holds(v)'  PROVE Phase(v)'
    BY DEF PhaseInv
  <2>1. CASE v = w
    BY <1>5, <1>6, <2>1 DEF Phase, UnderWay
  <2>2. CASE v # w
    <3>1. worker'[v] = worker[v] /\ Busy(v) /\ Holds(v)
      BY <1>6, <1>11, <2>2 DEF Busy, Holds, IsOwner, Mine
    <3>2. Phase(v) /\ question' = question
      BY <1>1, <3>1 DEF PhaseInv, Claim
    <3> QED
      BY <3>1, <3>2 DEF Phase, Target, Mine
  <2> QED
    BY <2>1, <2>2
<1>15. RowInv' /\ HeldInv'
  BY DEF IInv, RowInv, RowFits, HeldInv, Held, ledger, Claim
<1> QED
  BY <1>12, <1>13, <1>14, <1>15 DEF IInv

-----------------------------------------------------------------------------
(* The ledger.                                                             *)

LEMMA Amounts ==
    ASSUME TypeOK
    PROVE  /\ account.balance \in Nat /\ account.reserved \in Nat /\ Cost \in Nat /\ Cost > 0
           /\ reservation \in [Offer -> {"none", "pending", "committed", "released"}]
           /\ account = [balance |-> account.balance, reserved |-> account.reserved]
  BY CostAssumption DEF TypeOK

LEMMA HeldOne ==
    ASSUME TypeOK, HeldInv, NEW o \in Offer, reservation[o] = "pending"
    PROVE  account.reserved >= Cost /\ o \in Held
<1>1. o \in Held
  BY DEF Held
<1>2. Cardinality(Held) \in Nat /\ Cardinality(Held) # 0
  BY <1>1, FS_CardinalityType, FS_EmptySet DEF HeldInv
<1>3. \A k \in Nat : k # 0 => Cost * k >= Cost
  BY Amounts
<1> QED
  BY <1>1, <1>2, <1>3 DEF HeldInv

\* The amounts are held for one more expansion ...
LEMMA HoldsMore ==
    ASSUME TypeOK, HeldInv, NEW o \in Offer, reservation[o] = "none",
           account.balance >= account.reserved + Cost, reserve_credits(o)
    PROVE  /\ HeldInv' /\ account' \in [balance : Nat, reserved : Nat]
           /\ reservation' = [reservation EXCEPT ![o] = "pending"]
           /\ charged' = charged /\ released' = released
<1>1. /\ account' = [account EXCEPT !.reserved = account.reserved + Cost]
      /\ reservation' = [reservation EXCEPT ![o] = "pending"]
      /\ charged' = charged /\ released' = released
  BY DEF reserve_credits
<1>2. /\ account' \in [balance : Nat, reserved : Nat]
      /\ account'.balance = account.balance /\ account'.reserved = account.reserved + Cost
  BY <1>1, Amounts DEF TypeOK
<1>3. Held' = Held \union {o} /\ o \notin Held
  BY <1>1, Amounts DEF Held
<1>4. IsFiniteSet(Held') /\ Cardinality(Held') = Cardinality(Held) + 1 /\ Cardinality(Held) \in Nat
  BY <1>3, FS_AddElement, FS_CardinalityType DEF HeldInv
<1>5. Cost * (Cardinality(Held) + 1) = Cost * Cardinality(Held) + Cost
  BY <1>4, Amounts
<1>6. HeldInv'
  BY <1>2, <1>4, <1>5, Amounts DEF HeldInv
<1> QED
  BY <1>1, <1>2, <1>6

\* ... or for one less, which may be taken.
LEMMA HoldsLess ==
    ASSUME TypeOK, HeldInv, NEW o \in Offer, reservation[o] = "pending",
           NEW status \in {"committed", "released"},
           reservation' = [reservation EXCEPT ![o] = status],
           account'.reserved = account.reserved - Cost,
           account'.balance \in {account.balance, account.balance - Cost},
           account' = [balance |-> account'.balance, reserved |-> account'.reserved]
    PROVE  HeldInv' /\ account' \in [balance : Nat, reserved : Nat]
<1>1. o \in Held /\ account.reserved >= Cost
  BY HeldOne
<1>2. Held' = Held \ {o}
  BY Amounts DEF Held
<1>3. IsFiniteSet(Held') /\ Cardinality(Held') = Cardinality(Held) - 1 /\ Cardinality(Held) \in Nat
  BY <1>1, <1>2, FS_RemoveElement, FS_CardinalityType DEF HeldInv
<1>4. Cost * (Cardinality(Held) - 1) = Cost * Cardinality(Held) - Cost
  BY <1>3, Amounts
<1>5. account'.reserved \in Nat /\ account'.balance \in Nat /\ account'.reserved <= account'.balance
  BY <1>1, Amounts DEF HeldInv
<1>6. HeldInv'
  BY <1>3, <1>4, <1>5, Amounts DEF HeldInv
<1> QED
  BY <1>5, <1>6

LEMMA Charges ==
    ASSUME TypeOK, HeldInv, NEW o \in Offer, reservation[o] = "pending", o \notin charged,
           commit_credit_reservation(o)
    PROVE  /\ HeldInv' /\ account' \in [balance : Nat, reserved : Nat]
           /\ reservation' = [reservation EXCEPT ![o] = "committed"]
           /\ charged' = charged \union {o} /\ released' = released
<1>1. /\ account' = [balance |-> account.balance - Cost, reserved |-> account.reserved - Cost]
      /\ reservation' = [reservation EXCEPT ![o] = "committed"]
      /\ charged' = charged \union {o} /\ released' = released
  BY DEF commit_credit_reservation
<1>2. HeldInv' /\ account' \in [balance : Nat, reserved : Nat]
  BY <1>1, HoldsLess
<1> QED
  BY <1>1, <1>2

LEMMA Releases ==
    ASSUME TypeOK, HeldInv, NEW o \in Offer, reservation[o] = "pending", o \notin released,
           release_credit_reservation(o)
    PROVE  /\ HeldInv' /\ account' \in [balance : Nat, reserved : Nat]
           /\ reservation' = [reservation EXCEPT ![o] = "released"]
           /\ released' = released \union {o} /\ charged' = charged
<1>1. account.reserved >= Cost /\ ~(account.reserved < Cost)
  BY HeldOne, Amounts
<1>2. /\ account' = [account EXCEPT !.reserved = account.reserved - Cost]
      /\ reservation' = [reservation EXCEPT ![o] = "released"]
      /\ released' = released \union {o} /\ charged' = charged
  BY <1>1 DEF release_credit_reservation
<1>3. account' = [balance |-> account.balance, reserved |-> account.reserved - Cost]
  BY <1>2, Amounts
<1>4. HeldInv' /\ account' \in [balance : Nat, reserved : Nat]
  BY <1>2, <1>3, HoldsLess
<1> QED
  BY <1>2, <1>4

-----------------------------------------------------------------------------
(* Steps that change the question of an expansion.                         *)

LedgerType ==
    /\ reservation' \in [Offer -> {"none", "pending", "committed", "released"}]
    /\ charged' \subseteq Offer /\ released' \subseteq Offer
    /\ account' \in [balance : Nat, reserved : Nat]

\* An expansion that is given up, with its offer or before it.
LEMMA GivesUp ==
    ASSUME IInv, NEW o \in Offer, question[o].status = "processing", GiveUp(o),
           \/ ReleaseIfPending(o)
           \/ IF Paying THEN release_credit_reservation(o) ELSE UNCHANGED ledger,
           offer' \in [Offer -> OfferStatus], offer'[o] \in {"processing", "failed"},
           \A p \in Offer \ {o} : offer'[p] = offer[p],
           answers' = answers
    PROVE  /\ RowInv' /\ HeldInv' /\ LedgerType
           /\ question' \in [Offer -> QuestionRow] /\ question'[o].status = "failed"
           /\ \A p \in Offer \ {o} : question'[p] = question[p]
<1>1. TypeOK /\ RowInv /\ HeldInv /\ RowFits(o)
  BY DEF IInv, RowInv
<1>2. /\ question' \in [Offer -> QuestionRow]
      /\ question'[o] = [status |-> "failed", delivery |-> FALSE]
      /\ \A p \in Offer \ {o} : question'[p] = question[p]
  BY <1>1 DEF GiveUp, TypeOK, QuestionRow
<1>3. reservation[o] = IF Paying THEN "pending" ELSE "none"
  BY <1>1 DEF RowFits, Hold
<1>4. /\ HeldInv' /\ LedgerType
      /\ reservation'[o] = IF Paying THEN "released" ELSE "none"
      /\ \A p \in Offer \ {o} : /\ reservation'[p] = reservation[p]
                                /\ p \in charged' <=> p \in charged
                                /\ p \in released' <=> p \in released
      /\ o \notin charged' /\ (o \in released' <=> Paying)
  <2>1. CASE Paying
    <3>1. reservation[o] = "pending" /\ o \notin charged /\ o \notin released
      BY <1>1, <1>3, <2>1 DEF RowFits
    <3>2. release_credit_reservation(o)
      BY <2>1, <3>1 DEF ReleaseIfPending
    <3>3. /\ HeldInv' /\ account' \in [balance : Nat, reserved : Nat]
          /\ reservation' = [reservation EXCEPT ![o] = "released"]
          /\ released' = released \union {o} /\ charged' = charged
      BY <1>1, <3>1, <3>2, Releases
    <3> QED
      BY <1>1, <2>1, <3>1, <3>3 DEF LedgerType, TypeOK
  <2>2. CASE ~Paying
    <3>1. UNCHANGED ledger
      BY <1>3, <2>2 DEF ReleaseIfPending
    <3>2. o \notin charged /\ o \notin released
      BY <1>1, <1>3, <2>2 DEF RowFits
    <3> QED
      BY <1>1, <1>3, <2>2, <3>1, <3>2 DEF LedgerType, TypeOK, ledger, HeldInv, Held
  <2> QED
    BY <2>1, <2>2
<1>5. RowFits(o)'
  <2>1. answers'[o] = 0
    BY <1>1 DEF RowFits
  <2>2. offer'[o] \in OfferFor("failed") /\ Hold("failed") = "released"
    BY DEF OfferFor, Hold
  <2> QED
    BY <1>2, <1>4, <2>1, <2>2 DEF RowFits
<1>6. \A p \in Offer \ {o} : RowFits(p)'
  BY <1>1, <1>2, <1>4, StaysFit DEF RowInv
<1>7. RowInv'
  BY <1>5, <1>6 DEF RowInv
<1> QED
  BY <1>2, <1>4, <1>7

\* A step of the holder of the lease that changes the question it works on.
LEMMA HolderStep ==
    ASSUME IInv, NEW w \in Worker, Moves(w), Holds(w), Phase(w)',
           question' \in [Offer -> QuestionRow],
           \A p \in Offer \ {Target(w)} : question'[p] = question[p],
           offer' \in [Offer -> OfferStatus], LedgerType, answers' \in [Offer -> Nat],
           UNCHANGED <<lease, job, closed, blocked, reading, faults>>,
           RowInv', HeldInv'
    PROVE  IInv'
<1>1. TypeOK'
  BY DEF IInv, TypeOK, Moves, LedgerType
<1>2. TicketInv' /\ PhaseInv'
  BY KeepsTickets, KeepsPhase DEF IInv
<1> QED
  BY <1>1, <1>2 DEF IInv

LEMMA StartStep == ASSUME IInv, NEW w \in Worker, Start(w)  PROVE IInv'
<1>1. TypeOK /\ TicketInv /\ RowInv /\ HeldInv /\ Busy(w) /\ Holds(w)
  BY DEF IInv, Start, At, Busy
<1>0. PICK o \in Offer : o = Target(w)
  BY <1>1, TaskFacts
<1>2. o \in Offer /\ RowFits(o) /\ question[o].status = "none"
  BY <1>0, <1>1, TaskFacts DEF RowInv, Start
<1>3. Moves(w) /\ worker'[w].pc = "started" /\ Target(w)' = o
  <2>1. Moves(w) /\ worker'[w].pc = "started"
    BY <1>0, <1>1, GoMoves DEF Start, Pc
  <2> QED
    BY <1>0, <2>1 DEF Moves, Target, Mine
<1>4. /\ question' \in [Offer -> QuestionRow]
      /\ question'[o] = [status |-> "processing", delivery |-> FALSE]
      /\ \A p \in Offer \ {o} : question'[p] = question[p]
      /\ offer' \in [Offer -> OfferStatus] /\ offer'[o] = "processing"
      /\ \A p \in Offer \ {o} : offer'[p] = offer[p]
  BY <1>0, <1>1, <1>2 DEF Start, TypeOK, QuestionRow, OfferStatus
<1>5. reservation[o] = "none" /\ o \notin charged /\ o \notin released
  BY <1>0, <1>2 DEF RowFits, Hold
<1>6. /\ HeldInv' /\ LedgerType
      /\ reservation'[o] = IF Paying THEN "pending" ELSE "none"
      /\ \A p \in Offer \ {o} : reservation'[p] = reservation[p]
      /\ charged' = charged /\ released' = released
  <2>1. CASE Paying
    <3>1. account.balance >= account.reserved + Cost /\ reserve_credits(o)
      BY <1>0, <1>5, <2>1 DEF Start, CanReserve
    <3>2. /\ HeldInv' /\ account' \in [balance : Nat, reserved : Nat]
          /\ reservation' = [reservation EXCEPT ![o] = "pending"]
          /\ charged' = charged /\ released' = released
      BY <1>0, <1>1, <1>2, <1>5, <3>1, HoldsMore
    <3> QED
      BY <1>0, <1>1, <1>2, <2>1, <3>2 DEF LedgerType, TypeOK
  <2>2. CASE ~Paying
    <3>1. UNCHANGED ledger
      BY <1>0, <2>2 DEF Start
    <3> QED
      BY <1>0, <1>1, <1>5, <2>2, <3>1 DEF LedgerType, TypeOK, ledger, HeldInv, Held
  <2> QED
    BY <1>0, <2>1, <2>2
<1>7. answers' = answers /\ UNCHANGED <<lease, job, closed, blocked, reading, faults>>
  BY DEF Start
<1>8. RowFits(o)'
  <2>1. answers'[o] = 0
    BY <1>0, <1>2, <1>7 DEF RowFits
  <2>2. offer'[o] \in OfferFor("processing") /\ Hold("processing") = "pending"
    BY <1>0, <1>4 DEF OfferFor, Hold
  <2> QED
    BY <1>0, <1>4, <1>5, <1>6, <2>1, <2>2 DEF RowFits
<1>9. \A p \in Offer \ {o} : RowFits(p)'
  BY <1>0, <1>1, <1>4, <1>6, <1>7, StaysFit DEF RowInv
<1>10. RowInv'
  BY <1>0, <1>8, <1>9 DEF RowInv
<1>11. Phase(w)'
  BY <1>0, <1>3, <1>4 DEF Phase
<1> QED
  BY <1>0, <1>1, <1>3, <1>4, <1>6, <1>7, <1>10, <1>11, HolderStep DEF TypeOK

LEMMA CheckpointStep == ASSUME IInv, NEW w \in Worker, Checkpoint(w)  PROVE IInv'
<1>1. TypeOK /\ TicketInv /\ PhaseInv /\ RowInv /\ HeldInv /\ Busy(w) /\ Holds(w)
  BY DEF IInv, Checkpoint, At, Busy
<1>0. PICK o \in Offer : o = Target(w)
  BY <1>1, TaskFacts
<1>2. o \in Offer /\ RowFits(o) /\ question[o].status = "processing"
  BY <1>0, <1>1, TaskFacts DEF RowInv, PhaseInv, Phase, UnderWay, Checkpoint, At
<1>3. Moves(w) /\ worker'[w].pc = "generate" /\ Target(w)' = o
  <2>1. Moves(w) /\ worker'[w].pc = "generate"
    BY <1>0, <1>1, GoMoves DEF Checkpoint, Pc
  <2> QED
    BY <1>0, <2>1 DEF Moves, Target, Mine
<1>4. /\ question' \in [Offer -> QuestionRow]
      /\ question'[o] = [status |-> "processing", delivery |-> TRUE]
      /\ \A p \in Offer \ {o} : question'[p] = question[p]
  BY <1>0, <1>1, <1>2 DEF Checkpoint, TypeOK, QuestionRow
<1>5. UNCHANGED <<offer, ledger, answers, lease, job, closed, blocked, reading, faults>>
  BY DEF Checkpoint
<1>6. RowFits(o)'
  BY <1>0, <1>2, <1>4, <1>5 DEF RowFits, ledger
<1>7. \A p \in Offer \ {o} : RowFits(p)'
  BY <1>0, <1>1, <1>4, <1>5, StaysFit DEF RowInv, ledger
<1>8. RowInv' /\ HeldInv' /\ LedgerType
  BY <1>0, <1>1, <1>5, <1>6, <1>7 DEF RowInv, HeldInv, Held, LedgerType, TypeOK, ledger
<1>9. Phase(w)'
  BY <1>0, <1>3, <1>4 DEF Phase
<1> QED
  BY <1>0, <1>1, <1>3, <1>4, <1>5, <1>8, <1>9, HolderStep DEF TypeOK

LEMMA PersistAnswerStep == ASSUME IInv, NEW w \in Worker, PersistAnswer(w)  PROVE IInv'
<1>1. TypeOK /\ TicketInv /\ PhaseInv /\ RowInv /\ HeldInv /\ Busy(w) /\ Holds(w)
  BY DEF IInv, PersistAnswer, At, Busy
<1>0. PICK o \in Offer : o = Target(w)
  BY <1>1, TaskFacts
<1>2. o \in Offer /\ RowFits(o) /\ question[o].status = "processing"
  BY <1>0, <1>1, TaskFacts DEF RowInv, PhaseInv, Phase, UnderWay, PersistAnswer, At
<1>3. Moves(w) /\ worker'[w].pc = "leave"
  BY <1>0, <1>1, GoMoves DEF PersistAnswer, Pc
<1>4. /\ question' \in [Offer -> QuestionRow]
      /\ question'[o] = [status |-> "answered", delivery |-> FALSE]
      /\ \A p \in Offer \ {o} : question'[p] = question[p]
      /\ offer' \in [Offer -> OfferStatus] /\ offer'[o] = "generated"
      /\ \A p \in Offer \ {o} : offer'[p] = offer[p]
      /\ answers' \in [Offer -> Nat] /\ answers'[o] = answers[o] + 1
      /\ \A p \in Offer \ {o} : answers'[p] = answers[p]
  BY <1>0, <1>1, <1>2 DEF PersistAnswer, TypeOK, QuestionRow, OfferStatus
<1>5. /\ reservation[o] = (IF Paying THEN "pending" ELSE "none") /\ answers[o] = 0
      /\ o \notin charged /\ o \notin released
  BY <1>0, <1>2 DEF RowFits, Hold
<1>6. /\ HeldInv' /\ LedgerType
      /\ reservation'[o] = IF Paying THEN "committed" ELSE "none"
      /\ \A p \in Offer \ {o} : reservation'[p] = reservation[p] /\ (p \in charged' <=> p \in charged)
      /\ (o \in charged' <=> Paying) /\ released' = released
  <2>1. CASE Paying
    <3>1. /\ HeldInv' /\ account' \in [balance : Nat, reserved : Nat]
          /\ reservation' = [reservation EXCEPT ![o] = "committed"]
          /\ charged' = charged \union {o} /\ released' = released
      BY <1>0, <1>1, <1>2, <1>5, <2>1, Charges DEF PersistAnswer
    <3> QED
      BY <1>0, <1>1, <1>2, <2>1, <3>1 DEF LedgerType, TypeOK
  <2>2. CASE ~Paying
    <3>1. UNCHANGED ledger
      BY <1>0, <2>2 DEF PersistAnswer
    <3> QED
      BY <1>0, <1>1, <1>5, <2>2, <3>1 DEF LedgerType, TypeOK, ledger, HeldInv, Held
  <2> QED
    BY <1>0, <2>1, <2>2
<1>7. UNCHANGED <<lease, job, closed, blocked, reading, faults>>
  BY DEF PersistAnswer
<1>8. RowFits(o)'
  <2>1. offer'[o] \in OfferFor("answered") /\ Hold("answered") = "committed"
    BY <1>0, <1>4 DEF OfferFor, Hold
  <2> QED
    BY <1>0, <1>4, <1>5, <1>6, <2>1 DEF RowFits
<1>9. \A p \in Offer \ {o} : RowFits(p)'
  BY <1>0, <1>1, <1>4, <1>6, <1>7, StaysFit DEF RowInv
<1>10. RowInv'
  BY <1>0, <1>8, <1>9 DEF RowInv
<1>11. Phase(w)'
  BY <1>0, <1>3 DEF Phase, UnderWay
<1> QED
  BY <1>0, <1>1, <1>3, <1>4, <1>6, <1>7, <1>10, <1>11, HolderStep

LEMMA UndoStep == ASSUME IInv, NEW w \in Worker, Undo(w)  PROVE IInv'
<1>1. TypeOK /\ TicketInv /\ PhaseInv /\ Busy(w) /\ Holds(w)
  BY DEF IInv, Undo, At, Busy
<1>0. PICK o \in Offer : o = Target(w)
  BY <1>1, TaskFacts
<1>2. o \in Offer /\ question[o].status = "processing"
  BY <1>0, <1>1, TaskFacts DEF PhaseInv, Phase, UnderWay, Undo, At
<1>3. Moves(w) /\ worker'[w].pc = "leave"
  BY <1>0, <1>1, GoMoves DEF Undo, Pc
<1>4. /\ offer' \in [Offer -> OfferStatus] /\ offer'[o] = "failed"
      /\ \A p \in Offer \ {o} : offer'[p] = offer[p]
  BY <1>0, <1>1, <1>2 DEF Undo, TypeOK, OfferStatus
<1>5. answers' = answers /\ UNCHANGED <<lease, job, closed, blocked, reading, faults>>
  BY DEF Undo
<1>6. /\ RowInv' /\ HeldInv' /\ LedgerType
      /\ question' \in [Offer -> QuestionRow] /\ question'[o].status = "failed"
      /\ \A p \in Offer \ {o} : question'[p] = question[p]
  BY <1>0, <1>2, <1>4, <1>5, GivesUp DEF Undo
<1>7. Phase(w)'
  BY <1>0, <1>3 DEF Phase, UnderWay
<1> QED
  BY <1>0, <1>1, <1>3, <1>4, <1>5, <1>6, <1>7, HolderStep DEF TypeOK

LEMMA RecoverStep == ASSUME IInv, NEW w \in Worker, Recover(w)  PROVE IInv'
<1>1. TypeOK /\ TicketInv /\ PhaseInv /\ RowInv /\ Busy(w) /\ Holds(w)
  BY DEF IInv, Recover, At, Busy
<1>0. PICK o \in Offer : o = Target(w)
  BY <1>1, TaskFacts
<1>2. o \in Offer /\ question[o].status = "processing"
  BY <1>0, <1>1, TaskFacts DEF PhaseInv, Phase, UnderWay, Recover, At
<1>3. Moves(w) /\ worker'[w].pc = "close" /\ Target(w)' = o
  <2>1. Moves(w) /\ worker'[w].pc = "close"
    BY <1>0, <1>1, GoMoves DEF Recover, Pc
  <2> QED
    BY <1>0, <2>1 DEF Moves, Target, Mine
<1>4. offer' \in [Offer -> OfferStatus] /\ offer'[o] = "processing" /\ offer' = offer
  BY <1>0, <1>1, <1>2 DEF Recover, TypeOK, RowInv, RowFits, OfferFor
<1>5. answers' = answers /\ UNCHANGED <<lease, job, closed, blocked, reading, faults>>
  BY DEF Recover
<1>6. /\ RowInv' /\ HeldInv' /\ LedgerType
      /\ question' \in [Offer -> QuestionRow] /\ question'[o].status = "failed"
      /\ \A p \in Offer \ {o} : question'[p] = question[p]
  BY <1>0, <1>2, <1>4, <1>5, GivesUp DEF Recover
<1>7. Phase(w)'
  BY <1>0, <1>3, <1>6 DEF Phase, UnderWay
<1> QED
  BY <1>0, <1>1, <1>3, <1>4, <1>5, <1>6, <1>7, HolderStep DEF TypeOK

LEMMA CloseOfferStep == ASSUME IInv, NEW w \in Worker, CloseOffer(w)  PROVE IInv'
<1>1. TypeOK /\ TicketInv /\ PhaseInv /\ RowInv /\ HeldInv /\ Busy(w) /\ Holds(w)
  BY DEF IInv, CloseOffer, At, Busy
<1>0. PICK o \in Offer : o = Target(w)
  BY <1>1, TaskFacts
<1>2. o \in Offer /\ RowFits(o) /\ question[o].status = "failed"
  BY <1>0, <1>1, TaskFacts DEF RowInv, PhaseInv, Phase, CloseOffer, At
<1>3. Moves(w) /\ worker'[w].pc = "leave"
  BY <1>0, <1>1, GoMoves DEF CloseOffer, Pc
<1>4. /\ offer' \in [Offer -> OfferStatus] /\ offer'[o] = "failed"
      /\ \A p \in Offer \ {o} : offer'[p] = offer[p]
  BY <1>0, <1>1, <1>2 DEF CloseOffer, TypeOK, OfferStatus
<1>5. UNCHANGED <<question, ledger, lease, job, closed, blocked, reading, answers, faults>>
  BY DEF CloseOffer
<1>6. RowFits(o)'
  BY <1>0, <1>2, <1>4, <1>5 DEF RowFits, ledger, OfferFor
<1>7. \A p \in Offer \ {o} : RowFits(p)'
  BY <1>0, <1>1, <1>4, <1>5, StaysFit DEF RowInv, ledger
<1>8. RowInv' /\ HeldInv' /\ LedgerType
  BY <1>0, <1>1, <1>5, <1>6, <1>7 DEF RowInv, HeldInv, Held, LedgerType, TypeOK, ledger
<1>9. Phase(w)'
  BY <1>0, <1>3 DEF Phase, UnderWay
<1> QED
  BY <1>0, <1>1, <1>3, <1>4, <1>5, <1>8, <1>9, HolderStep DEF TypeOK

-----------------------------------------------------------------------------
(* Steps of everybody else.                                                *)

\* The tasks, and the questions they hold the lease for, stay as they are; the lease may
\* be lost or left to another question.
LEMMA OutsideTasks ==
    ASSUME TypeOK, TicketInv, PhaseInv, worker' = worker,
           \A c \in Click : job'[c].attempts = job[c].attempts,
           \/ lease' = lease
           \/ lease'.click = 0
           \/ ~lease'.live /\ lease'.click = lease.click /\ lease'.ticket = lease.ticket
                           /\ lease'.for = lease.for,
           \A w \in Worker : Busy(w) /\ Holds(w) =>
               question'[Target(w)].status = question[Target(w)].status
    PROVE  TicketInv' /\ PhaseInv'
<1>1. \A w \in Worker : /\ Busy(w)' = Busy(w) /\ Mine(w)' = Mine(w) /\ Target(w)' = Target(w)
                        /\ worker'[w] = worker[w]
  BY DEF Busy, Mine, Target
<1>2. TicketInv'
  <2>1. \A w \in Worker : Busy(w) => Mine(w) \in Click
    BY TaskFacts
  <2> QED
    BY <1>1, <2>1, LeaseFacts DEF TicketInv
<1>3. \A w \in Worker : Busy(w) /\ Holds(w)' => Holds(w)
  BY <1>1, TaskFacts DEF Holds, IsOwner
<1>4. PhaseInv'
  BY <1>1, <1>3 DEF PhaseInv, Phase
<1> QED
  BY <1>2, <1>4

\* The records of the expansions stay as they are.
LEMMA SameRecords ==
    ASSUME RowInv, HeldInv, UNCHANGED <<question, offer, ledger, answers>>
    PROVE  RowInv' /\ HeldInv'
  BY DEF RowInv, RowFits, HeldInv, Held, ledger

LEMMA SourceDeliveredStep == ASSUME IInv, NEW o \in Offer, SourceDelivered(o)  PROVE IInv'
<1>1. TypeOK'
  BY DEF IInv, TypeOK, SourceDelivered, ledger
<1> QED
  BY <1>1, OutsideTasks, SameRecords DEF IInv, SourceDelivered

\* An offer whose status changes as its question allows.
LEMMA OfferStep ==
    ASSUME IInv, offer' \in [Offer -> OfferStatus],
           \A o \in Offer : offer'[o] \in OfferFor(question[o].status),
           closed' \in BOOLEAN, reading' \subseteq Offer,
           UNCHANGED <<question, ledger, lease, job, blocked, answers, worker, faults>>
    PROVE  IInv'
<1>1. TypeOK'
  BY DEF IInv, TypeOK, ledger
<1>2. TicketInv' /\ PhaseInv'
  BY OutsideTasks DEF IInv
<1>3. RowInv' /\ HeldInv'
  BY DEF IInv, RowInv, RowFits, HeldInv, Held, ledger
<1> QED
  BY <1>1, <1>2, <1>3 DEF IInv

LEMMA OfferFits ==
    ASSUME IInv, NEW o \in Offer
    PROVE  /\ offer[o] \in OfferFor(question[o].status)
           /\ offer[o] \in {"none", "offered"} => question[o].status = "none"
           /\ offer[o] = "generated" => question[o].status = "answered"
<1>1. question[o].status \in {"none", "processing", "answered", "failed"}
  BY DEF IInv, TypeOK, QuestionRow
<1>2. offer[o] \in OfferFor(question[o].status)
  BY DEF IInv, RowInv, RowFits
<1> QED
  BY <1>1, <1>2 DEF OfferFor

LEMMA offer_expansionStep == ASSUME IInv, NEW o \in Offer, offer_expansion(o)  PROVE IInv'
<1>1. TypeOK
  BY DEF IInv
<1>2. \A p \in Offer : offer'[p] = IF p = o /\ offer[o] = "none" THEN "offered" ELSE offer[p]
  BY <1>1 DEF offer_expansion, TypeOK
<1>3. offer' \in [Offer -> OfferStatus]
  BY <1>1 DEF offer_expansion, TypeOK, OfferStatus
<1>4. "offered" \in OfferFor("none")
  BY DEF OfferFor
<1>5. \A p \in Offer : offer'[p] \in OfferFor(question[p].status)
  BY <1>2, <1>4, OfferFits
<1>6. reading' \subseteq Offer
  BY <1>1 DEF offer_expansion, TypeOK
<1> QED
  BY <1>1, <1>3, <1>5, <1>6, OfferStep DEF offer_expansion, TypeOK

LEMMA ExpansionDeliveredStep == ASSUME IInv, NEW o \in Offer, ExpansionDelivered(o)  PROVE IInv'
<1>1. TypeOK
  BY DEF IInv
<1>2. \A p \in Offer : offer'[p] = IF p = o THEN "sent" ELSE offer[p]
  BY <1>1 DEF ExpansionDelivered, TypeOK
<1>3. offer' \in [Offer -> OfferStatus]
  BY <1>1 DEF ExpansionDelivered, TypeOK, OfferStatus
<1>4. "sent" \in OfferFor("answered")
  BY DEF OfferFor
<1>5. \A p \in Offer : offer'[p] \in OfferFor(question[p].status)
  BY <1>2, <1>4, OfferFits DEF ExpansionDelivered
<1> QED
  BY <1>1, <1>3, <1>5, OfferStep DEF ExpansionDelivered, TypeOK

LEMMA ForgetStep == ASSUME IInv, Forget  PROVE IInv'
<1>1. TypeOK
  BY DEF IInv
<1>2. offer' \in [Offer -> OfferStatus]
  BY <1>1 DEF Forget, TypeOK, OfferStatus
<1>3. \A p \in Offer : offer'[p] = offer[p] \/ (offer[p] = "offered" /\ offer'[p] = "invalidated")
  BY <1>1 DEF Forget, TypeOK
<1>4. "invalidated" \in OfferFor("none")
  BY DEF OfferFor
<1>5. \A p \in Offer : offer'[p] \in OfferFor(question[p].status)
  BY <1>3, <1>4, OfferFits
<1> QED
  BY <1>1, <1>2, <1>5, OfferStep DEF Forget, TypeOK

\* Nobody holds the lease for an expansion that maintenance gives up.
LEMMA RecoverOrphanStep == ASSUME IInv, NEW o \in Offer, RecoverOrphan(o)  PROVE IInv'
<1>1. TypeOK /\ TicketInv /\ PhaseInv /\ RowInv
  BY DEF IInv
<1>2. question[o].status = "processing" /\ offer[o] = "processing"
  BY <1>1 DEF RecoverOrphan, RowInv, RowFits, OfferFor
<1>3. /\ offer' \in [Offer -> OfferStatus] /\ offer'[o] = "failed"
      /\ \A p \in Offer \ {o} : offer'[p] = offer[p]
  BY <1>1, <1>2 DEF RecoverOrphan, TypeOK, OfferStatus
<1>4. UNCHANGED <<lease, job, closed, blocked, reading, answers, worker, faults>>
  BY DEF RecoverOrphan
<1>5. /\ RowInv' /\ HeldInv' /\ LedgerType
      /\ question' \in [Offer -> QuestionRow]
      /\ \A p \in Offer \ {o} : question'[p] = question[p]
  BY <1>2, <1>3, <1>4, GivesUp DEF RecoverOrphan
<1>6. \A w \in Worker : Busy(w) /\ Holds(w) => Target(w) \in Offer /\ Target(w) # o
  BY <1>1, TaskFacts, HolderLive DEF RecoverOrphan
<1>7. TicketInv' /\ PhaseInv'
  BY <1>1, <1>4, <1>5, <1>6, OutsideTasks
<1>8. TypeOK'
  BY <1>1, <1>3, <1>4, <1>5 DEF TypeOK, LedgerType
<1> QED
  BY <1>5, <1>7, <1>8 DEF IInv

LEMMA NewDialogueStep == ASSUME IInv, NewDialogue  PROVE IInv'
<1>1. TypeOK'
  BY DEF IInv, TypeOK, NewDialogue, ledger
<1> QED
  BY <1>1, OutsideTasks, SameRecords DEF IInv, NewDialogue

LEMMA BlockStep == ASSUME IInv, Block  PROVE IInv'
<1>1. TypeOK'
  BY DEF IInv, TypeOK, Block, ledger
<1> QED
  BY <1>1, OutsideTasks, SameRecords DEF IInv, Block

LEMMA OtherQuestionStep == ASSUME IInv, OtherQuestion  PROVE IInv'
<1>1. lease' \in LeaseRow /\ lease'.click = 0
  BY Kinds DEF OtherQuestion, NoLease, LeaseRow
<1>2. TypeOK'
  BY <1>1 DEF IInv, TypeOK, OtherQuestion, ledger
<1>3. TicketInv' /\ PhaseInv'
  BY <1>1, OutsideTasks DEF IInv, OtherQuestion
<1> QED
  BY <1>2, <1>3, SameRecords DEF IInv, OtherQuestion

LEMMA OtherEndsStep == ASSUME IInv, OtherEnds  PROVE IInv'
<1>1. lease' \in LeaseRow /\ lease'.click = 0
  BY Kinds DEF OtherEnds
<1>2. TypeOK'
  BY <1>1 DEF IInv, TypeOK, OtherEnds, ledger
<1>3. TicketInv' /\ PhaseInv'
  BY <1>1, OutsideTasks DEF IInv, OtherEnds
<1> QED
  BY <1>2, <1>3, SameRecords DEF IInv, OtherEnds

\* Another question pays with what is not held.
LEMMA OtherPaysStep == ASSUME IInv, OtherPays  PROVE IInv'
<1>1. TypeOK /\ HeldInv /\ RowInv
  BY DEF IInv
<1>2. lease' \in LeaseRow /\ lease'.click = 0
  BY Kinds DEF OtherPays
<1>3. account' = [account EXCEPT !.balance = account.balance - Cost]
  BY DEF OtherPays
<1>4. /\ account' \in [balance : Nat, reserved : Nat]
      /\ account'.reserved = account.reserved /\ account'.reserved <= account'.balance
  BY <1>1, <1>3, Amounts DEF OtherPays
<1>5. TypeOK'
  BY <1>1, <1>2, <1>4 DEF TypeOK, OtherPays
<1>6. TicketInv' /\ PhaseInv'
  BY <1>2, OutsideTasks DEF IInv, OtherPays
<1>7. HeldInv'
  BY <1>1, <1>4 DEF HeldInv, Held, OtherPays
<1>8. RowInv'
  BY <1>1 DEF RowInv, RowFits, OtherPays
<1> QED
  BY <1>5, <1>6, <1>7, <1>8 DEF IInv

LEMMA LeaseExpiresStep == ASSUME IInv, LeaseExpires  PROVE IInv'
<1>1. TypeOK
  BY DEF IInv
<1>2. lease' = [lease EXCEPT !.live = FALSE]
  BY DEF LeaseExpires
<1>3. /\ lease' \in LeaseRow /\ ~lease'.live /\ lease'.click = lease.click
      /\ lease'.ticket = lease.ticket /\ lease'.for = lease.for
  BY <1>1, <1>2 DEF TypeOK, LeaseRow
<1>4. faults' \in 0 .. MaxFaults
  BY <1>1, CostAssumption DEF LeaseExpires, Fault, TypeOK
<1>5. TypeOK'
  BY <1>1, <1>3, <1>4 DEF TypeOK, LeaseExpires, ledger
<1>6. TicketInv' /\ PhaseInv'
  BY <1>3, OutsideTasks DEF IInv, LeaseExpires
<1> QED
  BY <1>5, <1>6, SameRecords DEF IInv, LeaseExpires

\* A change of the queue that claims nothing.
LEMMA JobStep ==
    ASSUME IInv, job' \in [Click -> JobRow], faults' \in 0 .. MaxFaults,
           \A c \in Click : job'[c].attempts = job[c].attempts,
           UNCHANGED <<offer, question, ledger, lease, closed, blocked, reading, answers, worker>>
    PROVE  IInv'
<1>1. TypeOK'
  BY DEF IInv, TypeOK, ledger
<1> QED
  BY <1>1, OutsideTasks, SameRecords DEF IInv

LEMMA PressStep == ASSUME IInv, NEW c \in Click, Press(c)  PROVE IInv'
<1>1. job' \in [Click -> JobRow] /\ \A d \in Click : job'[d].attempts = job[d].attempts
  BY DEF Press, IInv, TypeOK, JobRow
<1> QED
  BY <1>1, JobStep DEF Press, IInv, TypeOK

LEMMA BackoffStep == ASSUME IInv, NEW c \in Click, Backoff(c)  PROVE IInv'
<1>1. job' \in [Click -> JobRow] /\ \A d \in Click : job'[d].attempts = job[d].attempts
  BY DEF Backoff, IInv, TypeOK, JobRow
<1> QED
  BY <1>1, JobStep DEF Backoff, IInv, TypeOK

LEMMA JobGoesStaleStep == ASSUME IInv, NEW c \in Click, JobGoesStale(c)  PROVE IInv'
<1>1. job' \in [Click -> JobRow] /\ \A d \in Click : job'[d].attempts = job[d].attempts
  BY DEF JobGoesStale, IInv, TypeOK, JobRow
<1>2. faults' \in 0 .. MaxFaults
  BY CostAssumption DEF JobGoesStale, Fault, IInv, TypeOK
<1> QED
  BY <1>1, <1>2, JobStep DEF JobGoesStale

LEMMA CrashStep == ASSUME IInv, NEW p \in Process, Crash(p)  PROVE IInv'
<1>1. TypeOK /\ TicketInv /\ PhaseInv
  BY DEF IInv
<1>2. \A w \in Worker : worker'[w] = Idle \/ worker'[w] = worker[w]
  BY DEF Crash
<1>3. worker' \in [Worker -> Task]
  <2>1. worker \in [Worker -> Task] /\ Idle \in Task
    BY <1>1, Kinds DEF TypeOK
  <2> QED
    BY <2>1 DEF Crash
<1>4. \A w \in Worker : Busy(w)' => worker'[w] = worker[w] /\ Busy(w) /\ Mine(w)' = Mine(w)
                                    /\ Target(w)' = Target(w)
  BY <1>2, Kinds DEF Busy, Mine, Target
<1>5. faults' \in 0 .. MaxFaults
  BY <1>1, CostAssumption DEF Crash, Fault, TypeOK
<1>6. TypeOK'
  BY <1>1, <1>3, <1>5 DEF TypeOK, Crash, ledger
<1>7. TicketInv'
  BY <1>1, <1>4 DEF TicketInv, Crash
<1>8. PhaseInv'
  BY <1>1, <1>4 DEF PhaseInv, Phase, Holds, IsOwner, Crash
<1> QED
  BY <1>6, <1>7, <1>8, SameRecords DEF IInv, Crash

-----------------------------------------------------------------------------
LEMMA InitHolds == Init => IInv
<1> SUFFICES ASSUME Init  PROVE IInv
  OBVIOUS
<1>1. TypeOK
  <2>1. /\ offer \in [Offer -> OfferStatus] /\ question \in [Offer -> QuestionRow]
        /\ reservation \in [Offer -> {"none", "pending", "committed", "released"}]
        /\ answers \in [Offer -> Nat] /\ charged \subseteq Offer /\ released \subseteq Offer
    BY DEF Init, OfferStatus, QuestionRow
  <2>2. job \in [Click -> JobRow]
    BY DEF Init, JobRow
  <2>3. /\ account \in [balance : Nat, reserved : Nat] /\ lease \in LeaseRow
        /\ worker \in [Worker -> Task] /\ faults \in 0 .. MaxFaults
    BY Kinds, CostAssumption DEF Init
  <2>4. closed \in BOOLEAN /\ blocked \in BOOLEAN /\ reading \subseteq Offer
    BY DEF Init
  <2> QED
    BY <2>1, <2>2, <2>3, <2>4 DEF TypeOK
<1>2. TicketInv
  BY Kinds DEF Init, TicketInv, Busy
<1>3. PhaseInv
  BY Kinds DEF Init, PhaseInv, Busy
<1>4. RowInv
  BY DEF Init, RowInv, RowFits, OfferFor, Hold
<1>5. HeldInv
  <2>1. Held = {}
    BY DEF Init, Held
  <2>2. account.reserved = 0 /\ account.balance = Granted /\ Granted \in Nat
    BY CostAssumption DEF Init
  <2> QED
    BY <2>1, <2>2, FS_EmptySet, CostAssumption DEF HeldInv
<1> QED
  BY <1>1, <1>2, <1>3, <1>4, <1>5 DEF IInv

LEMMA StepHolds == IInv /\ [Next]_vars => IInv'
<1> SUFFICES ASSUME IInv, [Next]_vars  PROVE IInv'
  OBVIOUS
<1>1. CASE UNCHANGED vars
  BY <1>1 DEF vars, ledger, IInv, TypeOK, TicketInv, PhaseInv, Phase, RowInv, RowFits, HeldInv,
              Held, Busy, Mine, Target, Holds, IsOwner
<1>2. ASSUME NEW w \in Worker, Step(w)  PROVE IInv'
  BY <1>2, ClaimStep, LookStep, AcquireStep, ResumeStep, ExamineStep, RefuseStep, StartStep,
     StartAgainStep, CheckpointStep, GenerateStep, ResumeGenerateStep, PersistAnswerStep, UndoStep,
     ResumeRefusedStep, RecoverStep, CloseOfferStep, LeaseLostStep, LeaveStep, SettleStep
     DEF Step
<1>3. ASSUME NEW o \in Offer, Outside(o) \/ RecoverOrphan(o)  PROVE IInv'
  BY <1>3, SourceDeliveredStep, offer_expansionStep, ExpansionDeliveredStep, RecoverOrphanStep
     DEF Outside
<1>4. ASSUME NEW c \in Click, Press(c) \/ Backoff(c) \/ JobGoesStale(c)  PROVE IInv'
  BY <1>4, PressStep, BackoffStep, JobGoesStaleStep
<1> QED
  BY <1>1, <1>2, <1>3, <1>4, RaiseStep, NewDialogueStep, ForgetStep, BlockStep, OtherQuestionStep,
     OtherPaysStep, OtherEndsStep, LeaseExpiresStep, CrashStep DEF Next

LEMMA Invariance == Spec => []IInv
BY InitHolds, StepHolds, PTL DEF Spec

-----------------------------------------------------------------------------
(* What is proved of expansions.                                           *)

LEMMA RowKinds ==
    ASSUME IInv, NEW o \in Offer
    PROVE  /\ question[o].status \in {"none", "processing", "answered", "failed"} /\ RowFits(o)
           /\ offer[o] \in OfferFor(question[o].status)
  BY DEF IInv, TypeOK, QuestionRow, RowInv, RowFits

\* The variables keep their types; an offer is "processing" as long as its question, and
\* is given up with it or right after it.
THEOREM ExpansionInvariant == Spec => []ExpansionInv
<1>1. ASSUME IInv  PROVE OfferFollows
  BY <1>1, RowKinds DEF OfferFollows, OfferFor
<1>2. IInv => ExpansionInv
  BY <1>1 DEF IInv, ExpansionInv
<1> QED
  BY <1>2, Invariance, PTL

\* However often and by however many tasks the button is served, there is one answer to it,
\* exactly when its question is answered, and then the offer is used up.
THEOREM ExpandedAtMostOnce == Spec => []ExpandedOnce
<1>1. ASSUME IInv, NEW o \in Offer
      PROVE  /\ answers[o] = IF question[o].status = "answered" THEN 1 ELSE 0
             /\ offer[o] \in {"generated", "sent"} <=> question[o].status = "answered"
  BY <1>1, RowKinds DEF RowFits, OfferFor
<1>2. IInv => ExpandedOnce
  BY <1>1 DEF ExpandedOnce
<1> QED
  BY <1>2, Invariance, PTL

\* Credits are held for an expansion exactly while it is under way, and never more than
\* the account has.
THEOREM CreditsHeldWhileUnderWay == Spec => []HeldWhileUnderWay
<1>1. ASSUME IInv, NEW o \in Offer
      PROVE  o \in Held <=> Paying /\ question[o].status = "processing"
  BY <1>1, RowKinds DEF RowFits, Hold, Held
<1>2. IInv => HeldWhileUnderWay
  BY <1>1 DEF HeldWhileUnderWay, IInv, HeldInv
<1> QED
  BY <1>2, Invariance, PTL

-----------------------------------------------------------------------------
(* What a step does to a question: nothing, or it begins, completes or     *)
(* gives up the expansion of one offer.                                    *)

Only(o) == \A p \in Offer \ {o} : /\ question'[p].status = question[p].status
                                  /\ reservation'[p] = reservation[p]

Begins(o) == /\ question[o].status = "none" /\ question'[o].status = "processing" /\ Locked(o)
             /\ Only(o)
Completes(o) == /\ question[o].status = "processing" /\ question'[o].status = "answered"
                /\ Only(o)
IsGivenUp(o) == /\ question[o].status = "processing" /\ question'[o].status = "failed"
                /\ Only(o)
Silent == \A o \in Offer : /\ question'[o].status = question[o].status
                           /\ reservation'[o] = reservation[o]

LEMMA OneReservation ==
    ASSUME TypeOK, NEW o \in Offer,
           \/ reserve_credits(o) \/ commit_credit_reservation(o)
           \/ release_credit_reservation(o) \/ UNCHANGED ledger
    PROVE  \A p \in Offer \ {o} : reservation'[p] = reservation[p]
  BY Amounts DEF reserve_credits, commit_credit_reservation, release_credit_reservation, ledger

LEMMA HolderWorks ==
    ASSUME IInv, NEW w \in Worker, Holds(w), worker[w].pc # "idle"
    PROVE  /\ Target(w) \in Offer
           /\ worker[w].pc \in UnderWay => question[Target(w)].status = "processing"
  BY TaskFacts DEF IInv, Busy, PhaseInv, Phase

LEMMA Effect ==
    ASSUME IInv, Next
    PROVE  Silent \/ \E o \in Offer : Begins(o) \/ Completes(o) \/ IsGivenUp(o)
<1>1. TypeOK /\ question \in [Offer -> QuestionRow]
  BY DEF IInv, TypeOK
<1>2. ASSUME UNCHANGED question, UNCHANGED ledger  PROVE Silent
  BY <1>2 DEF Silent, ledger
<1>3. ASSUME NEW o \in Offer, question[o].status = "processing", GiveUp(o),
             \/ release_credit_reservation(o) \/ UNCHANGED ledger
      PROVE  IsGivenUp(o)
  BY <1>1, <1>3, OneReservation DEF GiveUp, IsGivenUp, Only, QuestionRow
<1>4. ASSUME NEW w \in Worker, Start(w)  PROVE Begins(Target(w)) /\ Target(w) \in Offer
  <2>1. PICK o \in Offer : o = Target(w)
    BY <1>4, HolderWorks DEF Start, At
  <2>2. reserve_credits(o) \/ UNCHANGED ledger
    BY <1>4, <2>1 DEF Start
  <2>3. question' = [question EXCEPT ![o] = [status |-> "processing", delivery |-> FALSE]]
        /\ question[o].status = "none" /\ Locked(o)
    BY <1>4, <2>1 DEF Start, Locked
  <2>4. Begins(o)
    BY <1>1, <2>2, <2>3, OneReservation DEF Begins, Only, QuestionRow
  <2> QED
    BY <2>1, <2>4
<1>5. ASSUME NEW w \in Worker, Checkpoint(w)  PROVE Silent
  <2>1. PICK o \in Offer : o = Target(w)
    BY <1>5, HolderWorks DEF Checkpoint, At
  <2>2. question' = [question EXCEPT ![o].delivery = TRUE] /\ UNCHANGED ledger
    BY <1>5, <2>1 DEF Checkpoint
  <2>3. \A p \in Offer : question'[p].status = question[p].status
    BY <1>1, <2>2 DEF QuestionRow
  <2> QED
    BY <2>2, <2>3 DEF Silent, ledger
<1>6. ASSUME NEW w \in Worker, PersistAnswer(w)  PROVE Completes(Target(w)) /\ Target(w) \in Offer
  <2>1. PICK o \in Offer : o = Target(w) /\ question[o].status = "processing"
    BY <1>6, HolderWorks DEF PersistAnswer, At, UnderWay
  <2>2. commit_credit_reservation(o) \/ UNCHANGED ledger
    BY <1>6, <2>1 DEF PersistAnswer
  <2>3. question' = [question EXCEPT ![o] = [status |-> "answered", delivery |-> FALSE]]
    BY <1>6, <2>1 DEF PersistAnswer
  <2>4. Completes(o)
    BY <1>1, <2>1, <2>2, <2>3, OneReservation DEF Completes, Only, QuestionRow
  <2> QED
    BY <2>1, <2>4
<1>7. ASSUME NEW w \in Worker, Undo(w) \/ Recover(w)
      PROVE  IsGivenUp(Target(w)) /\ Target(w) \in Offer
  <2>1. PICK o \in Offer : o = Target(w) /\ question[o].status = "processing"
    BY <1>7, HolderWorks DEF Undo, Recover, At, UnderWay
  <2>2. GiveUp(o) /\ (release_credit_reservation(o) \/ UNCHANGED ledger)
    BY <1>7, <2>1 DEF Undo, Recover, ReleaseIfPending
  <2> QED
    BY <1>3, <2>1, <2>2
<1>8. ASSUME NEW o \in Offer, RecoverOrphan(o)  PROVE IsGivenUp(o)
  BY <1>3, <1>8 DEF RecoverOrphan, ReleaseIfPending
<1>9. ASSUME OtherPays  PROVE Silent
  BY <1>9 DEF OtherPays, Silent
<1>10. ASSUME NEW w \in Worker, Step(w)
       PROVE  Silent \/ \E o \in Offer : Begins(o) \/ Completes(o) \/ IsGivenUp(o)
  <2>1. CASE \/ \E c \in Click : Claim(w, c)
             \/ Look(w) \/ Acquire(w) \/ Resume(w) \/ Examine(w) \/ Refuse(w) \/ StartAgain(w)
             \/ Generate(w) \/ ResumeGenerate(w) \/ ResumeRefused(w) \/ CloseOffer(w) \/ LeaseLost(w)
             \/ Leave(w) \/ Settle(w)
    BY <1>2, <2>1 DEF Claim, Look, Acquire, Resume, Examine, Refuse, StartAgain, Generate,
                      ResumeGenerate, ResumeRefused, CloseOffer, LeaseLost, Leave, Settle
  <2> QED
    BY <1>4, <1>5, <1>6, <1>7, <1>10, <2>1 DEF Step
<1>11. CASE \/ \E w \in Worker : Raise(w)
            \/ \E o \in Offer : Outside(o)
            \/ \E c \in Click : Press(c) \/ Backoff(c) \/ JobGoesStale(c)
            \/ NewDialogue \/ Forget \/ Block \/ OtherQuestion \/ OtherEnds \/ LeaseExpires
            \/ \E p \in Process : Crash(p)
  BY <1>2, <1>11 DEF Raise, Outside, SourceDelivered, offer_expansion, ExpansionDelivered, Press,
                     Backoff, JobGoesStale, NewDialogue, Forget, Block, OtherQuestion,
                     OtherEnds, LeaseExpires, Crash
<1> QED
  BY <1>8, <1>9, <1>10, <1>11 DEF Next

-----------------------------------------------------------------------------
(* What is over in a closed dialogue stays over: to begin an expansion a   *)
(* task must be past its check, and in a closed dialogue nobody gets past  *)
(* it.                                                                     *)

\* A task that goes to another place than "begin".
LEMMA GoesElsewhere ==
    ASSUME TypeOK, NEW w \in Worker, NEW pc, pc # "begin",
           Go(w, pc) \/ \E outcome \in Outcomes : Ends(w, pc, outcome),
           NEW v \in Worker, worker'[v].pc = "begin"
    PROVE  worker'[v] = worker[v]
<1>1. worker \in [Worker -> Task] /\ worker[w] \in Task
  BY DEF TypeOK
<1>2. worker'[w].pc = pc
  BY <1>1 DEF Go, Ends, Task
<1>3. v # w
  BY <1>2
<1> QED
  BY <1>1, <1>3 DEF Go, Ends

LEMMA NoneBegins ==
    ASSUME IInv, Next, closed, NEW v \in Worker, worker'[v].pc = "begin"
    PROVE  worker'[v] = worker[v]
<1>1. TypeOK /\ worker \in [Worker -> Task]
  BY DEF IInv, TypeOK
<1>2. ASSUME NEW w \in Worker, Step(w) \/ Raise(w)  PROVE worker'[v] = worker[v]
  <2>1. CASE \E c \in Click : Claim(w, c)
    <3>1. PICK c \in Click : Claim(w, c)
      BY <2>1
    <3>2. worker'[w].pc = "open"
      BY <1>1, <3>1 DEF Claim, Idle
    <3> QED
      BY <1>1, <3>1, <3>2 DEF Claim
  <2>2. CASE Look(w)
    <3>1. worker[w] \in Task
      BY <1>1
    <3>2. worker'[w].pc # "begin"
      BY <1>1, <2>2, <3>1 DEF Look, Task
    <3> QED
      BY <1>1, <2>2, <3>2 DEF Look
  <2>3. CASE Examine(w)
    BY <2>3 DEF Examine
  <2>4. CASE Acquire(w)
    <3>1. Go(w, "choose") \/ Go(w, "settle")
      BY <2>4 DEF Acquire
    <3> QED
      BY <1>1, <3>1, GoesElsewhere
  <2>5. CASE Resume(w) \/ Refuse(w) \/ Start(w) \/ Checkpoint(w)
    <3>1. Go(w, "resume") \/ Go(w, "leave") \/ Go(w, "started") \/ Go(w, "generate")
      BY <2>5 DEF Resume, Refuse, Start, Checkpoint
    <3> QED
      BY <1>1, <3>1, GoesElsewhere
  <2>6. CASE Generate(w) \/ ResumeGenerate(w) \/ ResumeRefused(w)
    <3>1. \E pc \in {"persist", "undo", "recover"} : Go(w, pc)
      BY <2>6 DEF Generate, ResumeGenerate, ResumeRefused
    <3> QED
      BY <1>1, <3>1, GoesElsewhere
  <2>7. CASE PersistAnswer(w) \/ Undo(w) \/ Recover(w) \/ CloseOffer(w)
    <3>1. Go(w, "leave") \/ Go(w, "close")
      BY <2>7 DEF PersistAnswer, Undo, Recover, CloseOffer
    <3> QED
      BY <1>1, <3>1, GoesElsewhere
  <2>8. CASE StartAgain(w) \/ LeaseLost(w)
    <3>1. \E outcome \in Outcomes : Ends(w, "leave", outcome)
      BY <2>8 DEF StartAgain, LeaseLost, Outcomes
    <3> QED
      BY <1>1, <3>1, GoesElsewhere
  <2>9. CASE Leave(w)
    <3>1. worker[w].outcome \in Outcomes
      BY <1>1 DEF Task, Outcomes
    <3>2. \E outcome \in Outcomes : Ends(w, "settle", outcome)
      BY <2>9, <3>1 DEF Leave, Outcomes
    <3> QED
      BY <1>1, <3>2, GoesElsewhere
  <2>10. CASE Settle(w)
    <3>1. worker'[w] = Idle
      BY <1>1, <2>10 DEF Settle
    <3> QED
      BY <1>1, <2>10, <3>1, Kinds DEF Settle
  <2>11. CASE Raise(w)
    <3>1. PICK pc \in {"settle", "leave", "undo"} : \E outcome \in Outcomes : Ends(w, pc, outcome)
      BY <2>11 DEF Raise, Outcomes
    <3> QED
      BY <1>1, <3>1, GoesElsewhere
  <2> QED
    BY <1>2, <2>1, <2>2, <2>3, <2>4, <2>5, <2>6, <2>7, <2>8, <2>9, <2>10, <2>11 DEF Step
<1>3. ASSUME NEW p \in Process, Crash(p)  PROVE worker'[v] = worker[v]
  BY <1>3, Kinds DEF Crash
<1>4. CASE \/ \E o \in Offer : Outside(o) \/ RecoverOrphan(o)
           \/ \E c \in Click : Press(c) \/ Backoff(c) \/ JobGoesStale(c)
           \/ NewDialogue \/ Forget \/ Block \/ OtherQuestion \/ OtherPays \/ OtherEnds
           \/ LeaseExpires
  BY <1>4 DEF Outside, SourceDelivered, offer_expansion, ExpansionDelivered, RecoverOrphan,
              Press, Backoff, JobGoesStale, NewDialogue, Forget, Block, OtherQuestion,
              OtherPays, OtherEnds, LeaseExpires
<1> QED
  BY <1>2, <1>3, <1>4 DEF Next

LEMMA StaysClosed == ASSUME Next, closed  PROVE closed'
  BY DEF Next, Step, Claim, Look, Acquire, Resume, Examine, Refuse, Start, StartAgain, Checkpoint,
         Generate, ResumeGenerate, PersistAnswer, Undo, ResumeRefused, Recover, CloseOffer,
         LeaseLost, Leave, Settle, Raise, Outside, SourceDelivered, offer_expansion,
         ExpansionDelivered, RecoverOrphan, Press, Backoff, JobGoesStale, NewDialogue, Forget,
         Block, OtherQuestion, OtherPays, OtherEnds, LeaseExpires, Crash

LEMMA OverStays ==
    ASSUME IInv, Next, NEW o \in Offer, Over(o)
    PROVE  Over(o)'
<1>1. closed'
  BY StaysClosed DEF Over
<1>2. question'[o].status = "none"
  BY Effect DEF Over, Begins, Completes, IsGivenUp, Silent, Only
<1>3. ~Locked(o)'
  <2> SUFFICES ASSUME NEW v \in Worker, worker'[v].pc = "begin", Target(v)' = o  PROVE FALSE
    BY DEF Locked, At
  <2>1. worker'[v] = worker[v]
    BY NoneBegins DEF Over
  <2> QED
    BY <2>1 DEF Over, Locked, At, Target, Mine
<1> QED
  BY <1>1, <1>2, <1>3 DEF Over

\* Only /forget takes an offer back.
LEMMA OnlyForgotten ==
    ASSUME TypeOK, Next, NEW o \in Offer, offer'[o] = "invalidated", offer[o] # "invalidated"
    PROVE  Forget /\ offer[o] = "offered"
<1>1. offer \in [Offer -> OfferStatus]
  BY DEF TypeOK
<1>2. ASSUME NEW w \in Worker, Step(w) \/ Raise(w)  PROVE FALSE
  <2>1. CASE Start(w) \/ PersistAnswer(w) \/ Undo(w) \/ CloseOffer(w)
    BY <1>1, <2>1 DEF Start, PersistAnswer, Undo, CloseOffer
  <2>2. CASE \/ \E c \in Click : Claim(w, c)
             \/ Look(w) \/ Acquire(w) \/ Resume(w) \/ Examine(w) \/ Refuse(w) \/ StartAgain(w)
             \/ Checkpoint(w) \/ Generate(w) \/ ResumeGenerate(w) \/ ResumeRefused(w)
             \/ Recover(w) \/ LeaseLost(w) \/ Leave(w) \/ Settle(w) \/ Raise(w)
    BY <2>2 DEF Claim, Look, Acquire, Resume, Examine, Refuse, StartAgain, Checkpoint, Generate,
                ResumeGenerate, ResumeRefused, Recover, LeaseLost, Leave, Settle, Raise
  <2> QED
    BY <1>2, <2>1, <2>2 DEF Step
<1>3. ASSUME NEW p \in Offer, Outside(p) \/ RecoverOrphan(p)  PROVE FALSE
  BY <1>1, <1>3 DEF Outside, SourceDelivered, offer_expansion, ExpansionDelivered, RecoverOrphan
<1>4. CASE Forget
  BY <1>1, <1>4 DEF Forget
<1>5. CASE \/ \E c \in Click : Press(c) \/ Backoff(c) \/ JobGoesStale(c)
           \/ NewDialogue \/ Block \/ OtherQuestion \/ OtherPays \/ OtherEnds \/ LeaseExpires
           \/ \E p \in Process : Crash(p)
  BY <1>5 DEF Press, Backoff, JobGoesStale, NewDialogue, Block, OtherQuestion, OtherPays,
              OtherEnds, LeaseExpires, Crash
<1> QED
  BY <1>2, <1>3, <1>4, <1>5 DEF Next

TakenBack == \A o \in Offer : offer[o] = "invalidated" => Over(o)

\* What /forget took back is never begun, and in a closed dialogue no press gets past its
\* check: what nobody was about to begin then stays over.
THEOREM ForgottenStaysOver == Spec => ForgottenIsOver
<1> DEFINE Stays == \A o \in Offer : Over(o) => Over(o)'
<1>1. Init => TakenBack
  BY DEF Init, TakenBack
<1>2. ASSUME UNCHANGED vars  PROVE \A o \in Offer : Over(o)' = Over(o) /\ offer' = offer
  BY <1>2 DEF vars, Over, Locked, At, Target, Mine
<1>3. ASSUME IInv, [Next]_vars  PROVE [Stays]_vars
  BY <1>3, OverStays
<1>4. ASSUME IInv, TakenBack, [Next]_vars  PROVE TakenBack'
  <2> SUFFICES ASSUME NEW o \in Offer, offer'[o] = "invalidated"  PROVE Over(o)'
    BY DEF TakenBack
  <2>1. CASE UNCHANGED vars
    BY <1>2, <1>4, <2>1 DEF TakenBack
  <2>2. CASE Next /\ offer[o] = "invalidated"
    BY <1>4, <2>2, OverStays DEF TakenBack
  <2>3. CASE Next /\ offer[o] # "invalidated"
    <3>1. TypeOK
      BY <1>4 DEF IInv
    <3>2. Forget /\ offer[o] = "offered"
      BY <2>3, <3>1, OnlyForgotten
    <3>3. question[o].status = "none"
      BY <1>4, <3>2, OfferFits
    <3> QED
      BY <3>2, <3>3 DEF Forget, Over, Locked, At, Target, Mine
  <2> QED
    BY <1>4, <2>1, <2>2, <2>3
<1>5. Spec => []TakenBack
  BY <1>1, <1>4, Invariance, PTL DEF Spec
<1> QED
  BY <1>3, <1>5, Invariance, PTL DEF Spec, ForgottenIsOver, TakenBack

-----------------------------------------------------------------------------
(* The promise made with the button is kept.                               *)

fate == [o \in Offer |-> question[o].status]
funds == [o \in Offer |-> Funds(o)]

LEMMA Mapped ==
    ASSUME IInv, NEW o \in Offer
    PROVE  /\ fate[o] = question[o].status
           /\ funds[o] = IF ~Paying THEN "none"
                         ELSE CASE question[o].status = "none"       -> "none"
                                [] question[o].status = "processing" -> "held"
                                [] question[o].status = "answered"   -> "charged"
                                [] question[o].status = "failed"     -> "returned"
  BY RowKinds DEF fate, funds, Funds, RowFits, Hold

LEMMA MappedElsewhere ==
    ASSUME NEW o \in Offer, Only(o)
    PROVE  /\ fate' = [fate EXCEPT ![o] = fate'[o]]
           /\ funds' = [funds EXCEPT ![o] = funds'[o]]
  BY DEF Only, fate, funds, Funds

LEMMA PromiseInit == Init => Promise!Init
  BY DEF Init, Promise!Init, Funds

LEMMA PromiseStep == IInv /\ IInv' /\ [Next]_vars => [Promise!Next]_(Promise!vars)
<1> SUFFICES ASSUME IInv, IInv', [Next]_vars  PROVE [Promise!Next]_(Promise!vars)
  OBVIOUS
<1>1. ASSUME Silent  PROVE UNCHANGED Promise!vars
  BY <1>1 DEF Silent, Promise!vars, Funds
<1>2. ASSUME UNCHANGED vars  PROVE Silent
  BY <1>2 DEF vars, ledger, Silent
<1>3. \A o \in Offer :
          /\ fate'[o] = question'[o].status
          /\ funds'[o] = IF ~Paying THEN "none"
                         ELSE CASE question'[o].status = "none"       -> "none"
                                [] question'[o].status = "processing" -> "held"
                                [] question'[o].status = "answered"   -> "charged"
                                [] question'[o].status = "failed"     -> "returned"
  <2>1. ASSUME NEW o \in Offer
        PROVE  /\ question'[o].status \in {"none", "processing", "answered", "failed"}
               /\ reservation'[o] = IF Paying THEN Hold(question'[o].status) ELSE "none"
    BY DEF IInv, TypeOK, QuestionRow, RowInv, RowFits
  <2> QED
    BY <2>1 DEF fate, funds, Funds, Hold
<1>4. ASSUME NEW o \in Offer, Begins(o)  PROVE Promise!Next
  <2>1. /\ fate[o] = "none" /\ fate'[o] = "processing" /\ funds[o] = "none"
        /\ funds'[o] = IF Paying THEN "held" ELSE "none"
    BY <1>3, <1>4, Mapped DEF Begins
  <2>2. fate' = [fate EXCEPT ![o] = "processing"] /\ funds' = [funds EXCEPT ![o] = funds'[o]]
    BY <1>4, <2>1, MappedElsewhere DEF Begins
  <2>3. funds' = [funds EXCEPT ![o] = "held"] \/ funds' = funds
    BY <2>1, <2>2 DEF funds
  <2>4. Promise!Begin(o)
    BY <2>1, <2>2, <2>3 DEF Promise!Begin, fate, funds
  <2> QED
    BY <2>4 DEF Promise!Next
<1>5. ASSUME NEW o \in Offer, Completes(o)  PROVE Promise!Next
  <2>1. /\ fate[o] = "processing" /\ fate'[o] = "answered"
        /\ funds[o] = (IF Paying THEN "held" ELSE "none")
        /\ funds'[o] = IF funds[o] = "held" THEN "charged" ELSE funds[o]
    BY <1>3, <1>5, Mapped DEF Completes
  <2>2. fate' = [fate EXCEPT ![o] = "answered"] /\ funds' = [funds EXCEPT ![o] = funds'[o]]
    BY <1>5, <2>1, MappedElsewhere DEF Completes
  <2>3. Promise!Complete(o)
    BY <2>1, <2>2 DEF Promise!Complete, fate, funds
  <2> QED
    BY <2>3 DEF Promise!Next
<1>6. ASSUME NEW o \in Offer, IsGivenUp(o)  PROVE Promise!Next
  <2>1. /\ fate[o] = "processing" /\ fate'[o] = "failed"
        /\ funds[o] = (IF Paying THEN "held" ELSE "none")
        /\ funds'[o] = IF funds[o] = "held" THEN "returned" ELSE funds[o]
    BY <1>3, <1>6, Mapped DEF IsGivenUp
  <2>2. fate' = [fate EXCEPT ![o] = "failed"] /\ funds' = [funds EXCEPT ![o] = funds'[o]]
    BY <1>6, <2>1, MappedElsewhere DEF IsGivenUp
  <2>3. Promise!GiveUp(o)
    BY <2>1, <2>2 DEF Promise!GiveUp, fate, funds
  <2> QED
    BY <2>3 DEF Promise!Next
<1> QED
  BY <1>1, <1>2, <1>4, <1>5, <1>6, Effect

\* AnswerExpansion implements ExpansionPromise: whatever clicks, attempts, leases and
\* faults there are, an expansion is begun once, and paid for exactly if it is answered.
THEOREM PromiseKept == Spec => KeepsPromise
<1>1. IInv /\ IInv' /\ [Next]_vars => [Promise!Next]_(Promise!vars)
  BY PromiseStep
<1> QED
  BY <1>1, PromiseInit, Invariance, PTL DEF Spec, KeepsPromise, Promise!Spec
=============================================================================
