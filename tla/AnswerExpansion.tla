-------------------------- MODULE AnswerExpansion ---------------------------
(***************************************************************************)
(* The expansion of a quick answer (AnswerExpansionService): the button    *)
(* under an answer is an offer, each press of it an update job of the      *)
(* question lane.  Whoever gets the lease of the user expands the answer   *)
(* as a question of its own, with a reservation, a checkpoint, the expert  *)
(* and a delivery job; another press resumes what was interrupted, and     *)
(* maintenance gives up what nobody resumes.  All offers belong to one     *)
(* user, in one private dialogue, who may ask other questions meanwhile.   *)
(*                                                                         *)
(* One action is one transaction or one awaited call.  The offer is read   *)
(* before the lease is taken, and again after it with a lock; the second   *)
(* read does not refresh the object, so that the first value counts.       *)
(* That lock is kept until the expansion is committed or refused: a task   *)
(* that found the dialogue open (Examine) begins the expansion later       *)
(* (Start).  /forget, which writes the offers, waits for the lock; /new,   *)
(* which only closes the dialogue, does not.                               *)
(***************************************************************************)
EXTENDS Naturals, FiniteSets

CONSTANTS
    Offer,          \* answers that are offered for expansion
    Click,          \* presses of a button, numbered
    ClickOf,        \* the offer of a press
    Paying,         \* the user is neither admin nor unlimited
    Worker,         \* consumers of the question lane
    Process,
    ProcessOf,      \* the process a consumer belongs to
    Cost,           \* credits for an expansion, and for a question
    Granted,        \* the balance of the user
    MaxAttempts,    \* update_queue_max_attempts
    MaxFaults       \* bound on the faults of a behaviour

ASSUME ClickAssumption == Click \subseteq Nat \ {0} /\ ClickOf \in [Click -> Offer]
ASSUME OfferAssumption == "question" \notin Offer /\ "none" \notin Offer
ASSUME WorkerAssumption == ProcessOf \in [Worker -> Process]
ASSUME CostAssumption ==
    /\ Paying \in BOOLEAN /\ Cost \in Nat \ {0} /\ Granted \in Nat
    /\ MaxAttempts \in Nat \ {0} /\ MaxFaults \in Nat

VARIABLES
    offer,          \* answer_expansions: the status
    question,       \* the question of an expansion, with its checkpoint
    reservation,    \* status of its RESERVATION row
    charged,        \* offers with a CHARGE row
    released,       \* offers with a RELEASE row
    account,        \* credit_accounts
    lease,          \* user_processing_leases
    job,            \* telegram_update_jobs of the presses
    closed,         \* closed_at of the dialogue
    blocked,        \* the user is blocked
    reading,        \* offers whose on_delivery_complete found the dialogue open
    answers,        \* expanded answers stored with a delivery job (history)
    worker,         \* the local state of each consumer
    faults

ledger == <<reservation, charged, released, account>>
vars == <<offer, question, ledger, lease, job, closed, blocked, reading, answers, worker,
          faults>>

-----------------------------------------------------------------------------
OfferStatus == {"none", "offered", "processing", "generated", "sent", "failed",
                "invalidated"}
QuestionRow == [status : {"none", "processing", "answered", "failed"}, delivery : BOOLEAN]
LeaseRow == [for : Offer \union {"question", "none"}, click : Click \union {0},
             ticket : Nat, live : BOOLEAN]
JobRow == [status : {"absent", "pending", "processing", "done", "failed"},
           attempts : Nat, lease : Nat, fresh : BOOLEAN, due : BOOLEAN]

\* seen and open: the status of the offer, and whether the dialogue was open, as they were
\* first read; outcome: how the attempt ends.
Task == [pc : {"idle", "open", "acquire", "choose", "begin", "started", "generate", "persist",
               "undo", "resume", "recover", "close", "leave", "settle"},
         click : Click \union {0}, ticket : Nat, seen : OfferStatus, open : BOOLEAN,
         outcome : {"ok", "error", "cancelled"}]

Idle == [pc |-> "idle", click |-> 0, ticket |-> 0, seen |-> "none", open |-> FALSE,
         outcome |-> "ok"]
NoLease == [for |-> "none", click |-> 0, ticket |-> 0, live |-> FALSE]

TypeOK ==
    /\ offer \in [Offer -> OfferStatus]
    /\ question \in [Offer -> QuestionRow]
    /\ reservation \in [Offer -> {"none", "pending", "committed", "released"}]
    /\ charged \subseteq Offer /\ released \subseteq Offer
    /\ account \in [balance : Nat, reserved : Nat]
    /\ lease \in LeaseRow
    /\ job \in [Click -> JobRow]
    /\ closed \in BOOLEAN /\ blocked \in BOOLEAN
    /\ reading \subseteq Offer
    /\ answers \in [Offer -> Nat]
    /\ worker \in [Worker -> Task]
    /\ faults \in 0 .. MaxFaults

Init ==
    /\ offer = [o \in Offer |-> "none"]
    /\ question = [o \in Offer |-> [status |-> "none", delivery |-> FALSE]]
    /\ reservation = [o \in Offer |-> "none"]
    /\ charged = {} /\ released = {}
    /\ account = [balance |-> Granted, reserved |-> 0]
    /\ lease = NoLease
    /\ job = [c \in Click |-> [status |-> "absent", attempts |-> 0, lease |-> 0,
                               fresh |-> FALSE, due |-> TRUE]]
    /\ closed = FALSE /\ blocked = FALSE
    /\ reading = {}
    /\ answers = [o \in Offer |-> 0]
    /\ worker = [w \in Worker |-> Idle]
    /\ faults = 0

-----------------------------------------------------------------------------
Mine(w) == worker[w].click
Target(w) == ClickOf[Mine(w)]

At(w, pc) == worker[w].pc = pc
Go(w, pc) == worker' = [worker EXCEPT ![w].pc = pc]
Ends(w, pc, outcome) == worker' = [worker EXCEPT ![w].pc = pc, ![w].outcome = outcome]

IsOwner(w) == lease.click = Mine(w) /\ lease.ticket = worker[w].ticket

\* Mutant: any live lease of the user will do.
Holds_any(w) == lease.live

\* ensure_processing_lease
Holds(w) == IsOwner(w) /\ lease.live

LiveFor(o) == lease.live /\ lease.for = o

\* The row of the offer is locked by a task that is about to begin its expansion.
Locked(o) == \E w \in Worker : At(w, "begin") /\ Target(w) = o

OwnsJob(w) == job[Mine(w)].status = "processing" /\ job[Mine(w)].lease = worker[w].ticket

\* Mutant: a draft waits for a press that may never come.
Resumable_always(o) == question[o].status = "processing" /\ question[o].delivery

\* A press of the button that is not settled can still take the expansion up.
Resumable(o) == /\ question[o].status = "processing" /\ question[o].delivery
                /\ \E c \in Click : ClickOf[c] = o /\ job[c].status \in {"pending", "processing"}

Fault == faults < MaxFaults /\ faults' = faults + 1

-----------------------------------------------------------------------------
(* The ledger, within the transaction of the caller.                       *)

CanReserve(o) == reservation[o] # "none" \/ account.balance >= account.reserved + Cost

reserve_credits(o) ==
    IF reservation[o] # "none" THEN UNCHANGED ledger
    ELSE /\ account' = [account EXCEPT !.reserved = @ + Cost]
         /\ reservation' = [reservation EXCEPT ![o] = "pending"]
         /\ UNCHANGED <<charged, released>>

commit_credit_reservation(o) ==
    IF o \in charged THEN UNCHANGED ledger
    ELSE /\ account.reserved >= Cost
         /\ account' = [balance |-> account.balance - Cost, reserved |-> account.reserved - Cost]
         /\ reservation' = [reservation EXCEPT ![o] = "committed"]
         /\ charged' = charged \union {o}
         /\ UNCHANGED released

release_credit_reservation(o) ==
    IF o \in released \/ account.reserved < Cost THEN UNCHANGED ledger
    ELSE /\ account' = [account EXCEPT !.reserved = @ - Cost]
         /\ reservation' = [reservation EXCEPT ![o] = "released"]
         /\ released' = released \union {o}
         /\ UNCHANGED charged

ReleaseIfPending(o) == IF reservation[o] = "pending" THEN release_credit_reservation(o)
                       ELSE UNCHANGED ledger

-----------------------------------------------------------------------------
(* The offer, and the presses of its button.                               *)

\* on_delivery_complete of the quick answer: it looks at the dialogue ...
SourceDelivered(o) ==
    /\ offer[o] = "none" /\ ~closed
    /\ reading' = reading \union {o}
    /\ UNCHANGED <<offer, question, ledger, lease, job, closed, blocked, answers, worker, faults>>

\* ... and makes the offer, unless it was made before.
offer_expansion(o) ==
    /\ o \in reading
    /\ reading' = reading \ {o}
    /\ offer' = [offer EXCEPT ![o] = IF @ = "none" THEN "offered" ELSE @]
    /\ UNCHANGED <<question, ledger, lease, job, closed, blocked, answers, worker, faults>>

Press(c) ==
    /\ job[c].status = "absent" /\ offer[ClickOf[c]] # "none"
    /\ job' = [job EXCEPT ![c].status = "pending"]
    /\ UNCHANGED <<offer, question, ledger, lease, closed, blocked, reading, answers, worker,
                   faults>>

Claim(w, c) ==
    /\ At(w, "idle")
    /\ \/ job[c].status = "pending" /\ job[c].due
       \/ job[c].status = "processing" /\ ~job[c].fresh
    /\ job' = [job EXCEPT ![c].status = "processing", ![c].attempts = @ + 1,
                          ![c].lease = job[c].attempts + 1, ![c].fresh = TRUE]
    /\ worker' = [worker EXCEPT ![w] = [Idle EXCEPT !.pc = "open", !.click = c,
                                                    !.ticket = job[c].attempts + 1]]
    /\ UNCHANGED <<offer, question, ledger, lease, closed, blocked, reading, answers, faults>>

\* The first look, committed before the lease is asked for.
Look(w) ==
    /\ At(w, "open")
    /\ worker' = [worker EXCEPT ![w].pc = IF blocked THEN "settle" ELSE "acquire",
                                ![w].seen = offer[Target(w)], ![w].open = ~closed]
    /\ UNCHANGED <<offer, question, ledger, lease, job, closed, blocked, reading, answers, faults>>

CanAcquire == lease.for = "none" \/ ~lease.live

\* Without the lease the user is asked to wait, and the press is done with.
Acquire(w) ==
    /\ At(w, "acquire")
    /\ IF CanAcquire
       THEN /\ lease' = [for |-> Target(w), click |-> Mine(w), ticket |-> worker[w].ticket,
                         live |-> TRUE]
            /\ Go(w, "choose")
       ELSE Go(w, "settle") /\ UNCHANGED lease
    /\ UNCHANGED <<offer, question, ledger, job, closed, blocked, reading, answers, faults>>

-----------------------------------------------------------------------------
(* With the lease.                                                         *)

\* An expansion that was interrupted after its checkpoint.
Interrupted(w) == worker[w].seen = "processing" /\ question[Target(w)].delivery

Resume(w) ==
    /\ At(w, "choose") /\ ~blocked /\ ~Locked(Target(w)) /\ Interrupted(w)
    /\ Go(w, "resume")
    /\ UNCHANGED <<offer, question, ledger, lease, job, closed, blocked, reading, answers, faults>>

\* Mutant: the dialogue is not read again.
Examine_stale(w) ==
    /\ At(w, "choose") /\ ~blocked /\ ~Locked(Target(w)) /\ ~Interrupted(w)
    /\ worker[w].seen = "offered" /\ worker[w].open
    /\ Go(w, "begin")
    /\ UNCHANGED <<offer, question, ledger, lease, job, closed, blocked, reading, answers, faults>>

\* The offer is locked, and the dialogue is read again.
Examine(w) ==
    /\ At(w, "choose") /\ ~blocked /\ ~Locked(Target(w)) /\ ~Interrupted(w)
    /\ worker[w].seen = "offered" /\ ~closed
    /\ Go(w, "begin")
    /\ UNCHANGED <<offer, question, ledger, lease, job, closed, blocked, reading, answers, faults>>

\* Answered with a refusal: blocked, taken up before or the dialogue closed; later, when
\* processing is switched off, the budget or the rate exceeded, or credits are lacking.
Refuse(w) ==
    /\ \/ At(w, "choose") /\ blocked
       \/ /\ At(w, "choose") /\ ~Locked(Target(w)) /\ ~Interrupted(w)
          /\ worker[w].seen # "offered" \/ closed
       \/ At(w, "begin")
    /\ Go(w, "leave")
    /\ UNCHANGED <<offer, question, ledger, lease, job, closed, blocked, reading, answers, faults>>

\* Mutant: each expansion has a request id of its own.
Start_again(w) ==
    /\ At(w, "begin") /\ Holds(w)
    /\ Paying => CanReserve(Target(w))
    /\ IF Paying THEN reserve_credits(Target(w)) ELSE UNCHANGED ledger
    /\ question' = [question EXCEPT ![Target(w)] = [status |-> "processing", delivery |-> FALSE]]
    /\ offer' = [offer EXCEPT ![Target(w)] = "processing"]
    /\ Go(w, "started")
    /\ UNCHANGED <<lease, job, closed, blocked, reading, answers, faults>>

\* Reservation, question and offer, committed before the receipt is sent.  The dialogue
\* may have been closed, and the user blocked, since they were read.
Start(w) ==
    /\ At(w, "begin") /\ Holds(w)
    /\ Paying => CanReserve(Target(w))
    /\ question[Target(w)].status = "none"
    /\ IF Paying THEN reserve_credits(Target(w)) ELSE UNCHANGED ledger
    /\ question' = [question EXCEPT ![Target(w)] = [status |-> "processing", delivery |-> FALSE]]
    /\ offer' = [offer EXCEPT ![Target(w)] = "processing"]
    /\ Go(w, "started")
    /\ UNCHANGED <<lease, job, closed, blocked, reading, answers, faults>>

\* The request id of the offer is unique: a stale look cannot start it again.
StartAgain(w) ==
    /\ At(w, "begin") /\ (Paying => CanReserve(Target(w)))
    /\ question[Target(w)].status # "none"
    /\ Ends(w, "leave", "error")
    /\ UNCHANGED <<offer, question, ledger, lease, job, closed, blocked, reading, answers, faults>>

Checkpoint(w) ==
    /\ At(w, "started") /\ Holds(w)
    /\ question' = [question EXCEPT ![Target(w)].delivery = TRUE]
    /\ Go(w, "generate")
    /\ UNCHANGED <<offer, ledger, lease, job, closed, blocked, reading, answers, faults>>

\* The expert, who saves his progress as long as the lease is held.
Generate(w) ==
    /\ At(w, "generate") /\ Holds(w)
    /\ \E pc \in {"persist", "undo"} : Go(w, pc)
    /\ UNCHANGED <<offer, question, ledger, lease, job, closed, blocked, reading, answers, faults>>

ResumeGenerate(w) ==
    /\ At(w, "resume") /\ Holds(w) /\ worker[w].open
    /\ \E pc \in {"persist", "recover"} : Go(w, pc)
    /\ UNCHANGED <<offer, question, ledger, lease, job, closed, blocked, reading, answers, faults>>

\* Mutant: the answer is charged for by the next transaction, which may not come.
PersistAnswer_unpaid(w) ==
    /\ At(w, "persist") /\ Holds(w)
    /\ answers' = [answers EXCEPT ![Target(w)] = @ + 1]
    /\ question' = [question EXCEPT ![Target(w)] = [status |-> "answered", delivery |-> FALSE]]
    /\ offer' = [offer EXCEPT ![Target(w)] = "generated"]
    /\ Go(w, "leave")
    /\ UNCHANGED <<ledger, lease, job, closed, blocked, reading, faults>>

\* Answer, delivery job, charge and status are one transaction.
PersistAnswer(w) ==
    /\ At(w, "persist") /\ Holds(w)
    /\ IF Paying THEN commit_credit_reservation(Target(w)) ELSE UNCHANGED ledger
    /\ answers' = [answers EXCEPT ![Target(w)] = @ + 1]
    /\ question' = [question EXCEPT ![Target(w)] = [status |-> "answered", delivery |-> FALSE]]
    /\ offer' = [offer EXCEPT ![Target(w)] = "generated"]
    /\ Go(w, "leave")
    /\ UNCHANGED <<lease, job, closed, blocked, reading, faults>>

GiveUp(o) == question' = [question EXCEPT ![o] = [status |-> "failed", delivery |-> FALSE]]

\* The finally of expand: no text, or an error before the checkpoint.
Undo(w) ==
    /\ At(w, "undo") /\ Holds(w)
    /\ IF Paying THEN release_credit_reservation(Target(w)) ELSE UNCHANGED ledger
    /\ GiveUp(Target(w))
    /\ offer' = [offer EXCEPT ![Target(w)] = "failed"]
    /\ Go(w, "leave")
    /\ UNCHANGED <<lease, job, closed, blocked, reading, answers, faults>>

\* The dialogue was closed before the press; what is seen of it is the first look.
ResumeRefused(w) ==
    /\ At(w, "resume") /\ ~worker[w].open
    /\ Go(w, "recover")
    /\ UNCHANGED <<offer, question, ledger, lease, job, closed, blocked, reading, answers, faults>>

\* Mutant: the offer is closed first.
Recover_offerFirst(w) ==
    /\ At(w, "recover") /\ Holds(w)
    /\ offer' = [offer EXCEPT ![Target(w)] = "failed"]
    /\ Go(w, "close")
    /\ UNCHANGED <<question, ledger, lease, job, closed, blocked, reading, answers, faults>>

\* _recover_interrupted is committed first, the offer after it.
Recover(w) ==
    /\ At(w, "recover") /\ Holds(w)
    /\ ReleaseIfPending(Target(w))
    /\ GiveUp(Target(w))
    /\ Go(w, "close")
    /\ UNCHANGED <<offer, lease, job, closed, blocked, reading, answers, faults>>

CloseOffer(w) ==
    /\ At(w, "close") /\ Holds(w)
    /\ offer' = [offer EXCEPT ![Target(w)] = "failed"]
    /\ Go(w, "leave")
    /\ UNCHANGED <<question, ledger, lease, job, closed, blocked, reading, answers, faults>>

\* The last fence, after a normal return, and the release of the lease.
Leave(w) ==
    /\ At(w, "leave")
    /\ lease' = IF IsOwner(w) THEN NoLease ELSE lease
    /\ Ends(w, "settle", IF worker[w].outcome = "ok" /\ ~Holds(w) THEN "error"
                         ELSE worker[w].outcome)
    /\ UNCHANGED <<offer, question, ledger, job, closed, blocked, reading, answers, faults>>

CompletedJob(row) == [row EXCEPT !.status = "done", !.lease = 0]

FailedJob(row) ==
    [row EXCEPT !.status = IF row.attempts < MaxAttempts THEN "pending" ELSE "failed",
                !.lease = 0, !.due = FALSE]

Settle(w) ==
    /\ At(w, "settle")
    /\ job' = IF ~OwnsJob(w) \/ worker[w].outcome = "cancelled" THEN job
              ELSE [job EXCEPT ![Mine(w)] = IF worker[w].outcome = "ok"
                                             THEN CompletedJob(@) ELSE FailedJob(@)]
    /\ worker' = [worker EXCEPT ![w] = Idle]
    /\ UNCHANGED <<offer, question, ledger, lease, closed, blocked, reading, answers, faults>>

\* Before a commit, or by the heartbeat during a call.
LeaseLost(w) ==
    /\ worker[w].pc \in {"choose", "begin", "started", "generate", "persist", "undo",
                         "resume", "recover", "close"}
    /\ ~Holds(w)
    /\ \E outcome \in {"error", "cancelled"} : Ends(w, "leave", outcome)
    /\ UNCHANGED <<offer, question, ledger, lease, job, closed, blocked, reading, answers, faults>>

-----------------------------------------------------------------------------
(* Delivery, maintenance, the user and the administrator.                  *)

\* on_delivery_complete of the expanded answer.
ExpansionDelivered(o) ==
    /\ offer[o] = "generated" /\ answers[o] > 0 /\ ~Locked(o)
    /\ offer' = [offer EXCEPT ![o] = "sent"]
    /\ UNCHANGED <<question, ledger, lease, job, closed, blocked, reading, answers, worker, faults>>

\* recover_orphaned_questions
RecoverOrphan(o) ==
    /\ question[o].status = "processing" /\ ~LiveFor(o) /\ ~Resumable(o) /\ ~Locked(o)
    /\ ReleaseIfPending(o)
    /\ GiveUp(o)
    /\ offer' = [offer EXCEPT ![o] = IF @ = "processing" THEN "failed" ELSE @]
    /\ UNCHANGED <<lease, job, closed, blocked, reading, answers, worker, faults>>

\* /new: close_private_sessions
NewDialogue ==
    /\ ~closed /\ closed' = TRUE
    /\ UNCHANGED <<offer, question, ledger, lease, job, blocked, reading, answers, worker, faults>>

\* /forget: clear_user_memory, which writes every offer that was not taken up.
Forget ==
    /\ \A o \in Offer : offer[o] = "offered" => ~Locked(o)
    /\ closed' = TRUE
    /\ offer' = [o \in Offer |-> IF offer[o] = "offered" THEN "invalidated" ELSE offer[o]]
    /\ UNCHANGED <<question, ledger, lease, job, blocked, reading, answers, worker, faults>>

Block ==
    /\ ~blocked /\ blocked' = TRUE
    /\ UNCHANGED <<offer, question, ledger, lease, job, closed, reading, answers, worker, faults>>

\* Another question of the user takes the lease, pays and leaves.
OtherQuestion ==
    /\ CanAcquire
    /\ lease' = [NoLease EXCEPT !.for = "question", !.live = TRUE]
    /\ UNCHANGED <<offer, question, ledger, job, closed, blocked, reading, answers, worker, faults>>

OtherPays ==
    /\ LiveFor("question") /\ account.balance >= account.reserved + Cost
    /\ account' = [account EXCEPT !.balance = @ - Cost]
    /\ lease' = NoLease
    /\ UNCHANGED <<offer, question, reservation, charged, released, job, closed, blocked, reading,
                   answers, worker, faults>>

OtherEnds ==
    /\ lease.for = "question"
    /\ lease' = NoLease
    /\ UNCHANGED <<offer, question, ledger, job, closed, blocked, reading, answers, worker, faults>>

-----------------------------------------------------------------------------
(* Time and faults.                                                        *)

Backoff(c) ==
    /\ job[c].status = "pending" /\ ~job[c].due
    /\ job' = [job EXCEPT ![c].due = TRUE]
    /\ UNCHANGED <<offer, question, ledger, lease, closed, blocked, reading, answers, worker,
                   faults>>

\* An error of the database, an agent or Telegram, or a cancellation.  Only before the
\* checkpoint, and with the session intact, is the expansion undone.
Raise(w) ==
    /\ Fault
    /\ worker[w].pc \notin {"idle", "settle"}
    /\ \E outcome \in {"error", "cancelled"} :
          \/ Ends(w, IF worker[w].pc \in {"open", "acquire", "leave"} THEN "settle" ELSE "leave",
                  outcome)
          \/ At(w, "started") /\ Ends(w, "undo", outcome)
    /\ UNCHANGED <<offer, question, ledger, lease, job, closed, blocked, reading, answers>>

HeldByTask == \E w \in Worker : worker[w].pc \notin {"idle", "settle"} /\ IsOwner(w)

\* Its owner is gone, or stands still.
LeaseExpires ==
    /\ lease.live /\ lease.for \in Offer
    /\ lease' = [lease EXCEPT !.live = FALSE]
    /\ IF HeldByTask THEN Fault ELSE UNCHANGED faults
    /\ UNCHANGED <<offer, question, ledger, job, closed, blocked, reading, answers, worker>>

Works(w, c) == ~At(w, "idle") /\ Mine(w) = c /\ OwnsJob(w)

\* After half an hour, six times as long as a lease lasts.
JobGoesStale(c) ==
    /\ job[c].status = "processing" /\ job[c].fresh
    /\ ~(lease.live /\ lease.click = c)
    /\ \A w \in Worker : Works(w, c) => worker[w].pc \notin {"open", "acquire"}
    /\ job' = [job EXCEPT ![c].fresh = FALSE]
    /\ IF \E w \in Worker : Works(w, c) /\ At(w, "settle") THEN Fault ELSE UNCHANGED faults
    /\ UNCHANGED <<offer, question, ledger, lease, closed, blocked, reading, answers, worker>>

Crash(p) ==
    /\ Fault
    /\ \E w \in Worker : ProcessOf[w] = p /\ ~At(w, "idle")
    /\ worker' = [w \in Worker |-> IF ProcessOf[w] = p THEN Idle ELSE worker[w]]
    /\ UNCHANGED <<offer, question, ledger, lease, job, closed, blocked, reading, answers>>

Step(w) ==
    \/ \E c \in Click : Claim(w, c)
    \/ Look(w) \/ Acquire(w)
    \/ Resume(w) \/ Examine(w) \/ Refuse(w) \/ Start(w) \/ StartAgain(w)
    \/ Checkpoint(w) \/ Generate(w) \/ ResumeGenerate(w) \/ PersistAnswer(w) \/ Undo(w)
    \/ ResumeRefused(w) \/ Recover(w) \/ CloseOffer(w)
    \/ LeaseLost(w) \/ Leave(w) \/ Settle(w)

Outside(o) == SourceDelivered(o) \/ offer_expansion(o) \/ ExpansionDelivered(o)

Next ==
    \/ \E w \in Worker : Step(w) \/ Raise(w)
    \/ \E o \in Offer : Outside(o) \/ RecoverOrphan(o)
    \/ \E c \in Click : Press(c) \/ Backoff(c) \/ JobGoesStale(c)
    \/ NewDialogue \/ Forget \/ Block \/ OtherQuestion \/ OtherPays \/ OtherEnds \/ LeaseExpires
    \/ \E p \in Process : Crash(p)

Spec == Init /\ [][Next]_vars

\* Tasks run on, agents answer or time out, time passes and maintenance runs.
FairSpec ==
    /\ Spec
    /\ \A w \in Worker : WF_vars(Step(w))
    /\ \A o \in Offer : WF_vars(RecoverOrphan(o))
    /\ \A c \in Click : WF_vars(Backoff(c)) /\ WF_vars(JobGoesStale(c) /\ UNCHANGED faults)
    /\ WF_vars(LeaseExpires /\ UNCHANGED faults) /\ WF_vars(OtherEnds)

-----------------------------------------------------------------------------
(* Properties.                                                             *)

\* However often the button is pressed, an answer is expanded once, exactly when the
\* question of the expansion says so, and only then the offer is used up.
ExpandedOnce ==
    \A o \in Offer :
        /\ answers[o] = IF question[o].status = "answered" THEN 1 ELSE 0
        /\ offer[o] \in {"generated", "sent"} <=> question[o].status = "answered"

Held == {o \in Offer : reservation[o] = "pending"}

\* Credits are held for an expansion exactly while it is under way, whoever was
\* interrupted, and the account is never overdrawn by a question meanwhile.
HeldWhileUnderWay ==
    /\ \A o \in Offer : o \in Held <=> Paying /\ question[o].status = "processing"
    /\ account.reserved = Cost * Cardinality(Held)
    /\ account.reserved <= account.balance

\* An expansion that is not under way is no longer offered as such, except between the
\* two commits of a refused resumption.
OfferFollows ==
    \A o \in Offer :
        /\ question[o].status = "processing" => offer[o] = "processing"
        /\ question[o].status = "failed" => offer[o] \in {"processing", "failed"}

\* The types of the variables, and the two records of an expansion together.
ExpansionInv == TypeOK /\ OfferFollows

Funds(o) == CASE reservation[o] = "pending" -> "held"
              [] reservation[o] = "committed" -> "charged"
              [] reservation[o] = "released" -> "returned"
              [] OTHER -> "none"

Promise == INSTANCE ExpansionPromise WITH
               fate <- [o \in Offer |-> question[o].status],
               funds <- [o \in Offer |-> Funds(o)]

\* What is promised with the button.
KeepsPromise == Promise!Spec

\* Nobody has begun the expansion, or is past the last look before he does.
Over(o) == closed /\ question[o].status = "none" /\ ~Locked(o)

\* An offer that /forget took back is over at once, also for a press that saw it before and
\* waited for the lease or the lock; and in a dialogue closed by /new only a press that was
\* past its check by then can still begin an expansion, and no later one.
ForgottenIsOver ==
    /\ [](\A o \in Offer : offer[o] = "invalidated" => Over(o))
    /\ [][\A o \in Offer : Over(o) => Over(o)']_vars

\* An expansion that was begun is answered or given up, whether or not the button is
\* pressed again.
EventuallyExpanded ==
    \A o \in Offer : question[o].status = "processing" ~> question[o].status \in {"answered", "failed"}

=============================================================================
