---------------------------- MODULE QuestionFlow ----------------------------
(***************************************************************************)
(* A question on its way through the bot: the update job it arrives in     *)
(* (UpdateQueueWorker), the processing lease of its user, the gate, the    *)
(* row of user_questions with the checkpoint of the expert request, the    *)
(* credits held for it, the answer, and the recovery of what was           *)
(* interrupted (QuestionService, CreditService, TaskNotificationService).  *)
(*                                                                         *)
(* One action is one transaction, one reply to the user, one awaited call  *)
(* of an agent or one step of the environment.  A transaction of a task    *)
(* ends with before_external: it commits only while the task holds the     *)
(* lease of the user, and the row of the lease is locked until then.       *)
(*                                                                         *)
(* Every attempt at a job takes the lease at most once, so the attempt     *)
(* number identifies both the lease of the job and the owner of the lease  *)
(* of the user (0 is NULL).                                                *)
(***************************************************************************)
EXTENDS Naturals, FiniteSets

CONSTANTS
    Request,        \* questions, numbered in the order of their updates
    User,
    UserOf,         \* who asks
    Paid,           \* private questions of users who are neither admin nor unlimited
    Worker,         \* consumers of the question lane
    Process,
    ProcessOf,      \* the process a consumer belongs to
    Cost,           \* credits for one answer
    Granted,        \* the balance of each user
    MaxAttempts,    \* update_queue_max_attempts
    MaxFaults       \* bound on the faults of a behaviour

ASSUME RequestAssumption == Request \subseteq Nat \ {0} /\ Paid \subseteq Request
ASSUME UserAssumption == UserOf \in [Request -> User] /\ Granted \in [User -> Nat]
ASSUME ProcessAssumption == ProcessOf \in [Worker -> Process]
ASSUME BoundAssumption ==
    Cost \in Nat \ {0} /\ MaxAttempts \in Nat \ {0} /\ MaxFaults \in Nat

VARIABLES
    job,            \* telegram_update_jobs
    marked,         \* processed_updates
    lease,          \* user_processing_leases, request 0 where there is no row
    question,       \* user_questions: status and the checkpoint for delivery
    account,        \* credit_accounts
    reservation,    \* status of the RESERVATION row of a request
    charged,        \* requests with a CHARGE row
    released,       \* requests with a RELEASE row
    answers,        \* answers stored for a request, each with its delivery job (history)
    told,           \* what the user was told instead of an answer (history)
    worker,         \* the local state of each consumer
    faults          \* faults so far, at most MaxFaults

credits == <<account, reservation, charged, released>>
vars == <<job, marked, lease, question, credits, answers, told, worker, faults>>

-----------------------------------------------------------------------------
Open == {"pending", "processing"}
Final == {"answered", "rejected", "failed"}
\* "early" is the same apology as "error", for a request without a question yet.
Say == {"busy", "refused", "broke", "offtopic", "early", "error", "interrupted"}

\* Inside the try of _process_message.
Asking == {"received", "classify", "cache", "serve", "filter", "judged",
           "accepted", "generate", "persist"}
Phase == Asking \union {"idle", "acquire", "busy", "gate", "resume", "reply", "finally",
                        "handler", "recover", "leave", "settle"}

JobRow == [status : {"absent", "pending", "processing", "done", "failed"},
           attempts : Nat, lease : Nat, fresh : BOOLEAN, due : BOOLEAN]
QuestionRow == [status : {"none"} \union Open \union Final,
                delivery : {"none", "free", "paid"}]
LeaseRow == [request : Request \union {0}, owner : Nat, live : BOOLEAN]

\* pc: where the task is; reserved: reserved_credits and not credits_committed;
\* verdict: filter_result; say, scope: the reply it sends, and the code that
\* sends it; outcome: how the attempt ends.
Task ==
    {t \in [pc : Phase, job : Request \union {0}, ticket : Nat, reserved : BOOLEAN,
            verdict : {"open", "allowed", "refused", "none"}, say : Say \union {"nothing"},
            scope : {"busy", "gate", "question", "handler"},
            outcome : {"ok", "error", "cancelled"}] :
        t.pc = "idle" \/ t.job \in Request}

Idle == [pc |-> "idle", job |-> 0, ticket |-> 0, reserved |-> FALSE, verdict |-> "open",
         say |-> "nothing", scope |-> "gate", outcome |-> "ok"]

NoLease == [request |-> 0, owner |-> 0, live |-> FALSE]

TypeOK ==
    /\ job \in [Request -> JobRow]
    /\ marked \subseteq Request
    /\ lease \in [User -> LeaseRow]
    /\ question \in [Request -> QuestionRow]
    /\ account \in [User -> [balance : Nat, reserved : Nat]]
    /\ reservation \in [Request -> {"none", "pending", "committed", "released"}]
    /\ charged \subseteq Request
    /\ released \subseteq Request
    /\ answers \in [Request -> Nat]
    /\ told \in [Request -> SUBSET Say]
    /\ worker \in [Worker -> Task]
    /\ faults \in 0 .. MaxFaults

Init ==
    /\ job = [r \in Request |-> [status |-> "absent", attempts |-> 0, lease |-> 0,
                                 fresh |-> FALSE, due |-> TRUE]]
    /\ marked = {}
    /\ lease = [u \in User |-> NoLease]
    /\ question = [r \in Request |-> [status |-> "none", delivery |-> "none"]]
    /\ account = [u \in User |-> [balance |-> Granted[u], reserved |-> 0]]
    /\ reservation = [r \in Request |-> "none"]
    /\ charged = {}
    /\ released = {}
    /\ answers = [r \in Request |-> 0]
    /\ told = [r \in Request |-> {}]
    /\ worker = [w \in Worker |-> Idle]
    /\ faults = 0

-----------------------------------------------------------------------------
(* Who holds what.                                                         *)

Owner(r) == UserOf[r]
Mine(w) == worker[w].job

\* The lease of a user belongs to this attempt; nobody else took it.
IsOwner(w) == /\ lease[Owner(Mine(w))].request = Mine(w)
              /\ lease[Owner(Mine(w))].owner = worker[w].ticket

\* Mutant: the fence forgets the expiry.
Holds_expired(w) == IsOwner(w)

\* ensure_processing_lease
Holds(w) == IsOwner(w) /\ lease[Owner(Mine(w))].live

LiveFor(r) == lease[Owner(r)].live /\ lease[Owner(r)].request = r

OwnsJob(w) == job[Mine(w)].status = "processing" /\ job[Mine(w)].lease = worker[w].ticket

\* Mutant: a draft is kept for a job that will not come back.
Resumable_always(r) == question[r].status \in Open /\ question[r].delivery # "none"

\* _resumable_expert_requests: only an accepted question has a checkpoint.
Resumable(r) == /\ question[r].status \in Open
                /\ question[r].delivery # "none"
                /\ job[r].status \in {"pending", "processing"}

CanFault == faults < MaxFaults
Fault == CanFault /\ faults' = faults + 1

-----------------------------------------------------------------------------
(* The ledger, within the transaction of the caller.                       *)

\* reserve_credits succeeds; it finds the row of an earlier reservation.
CanReserve(r) == \/ reservation[r] # "none"
                 \/ account[Owner(r)].balance >= account[Owner(r)].reserved + Cost

reserve_credits(r) ==
    /\ CanReserve(r)
    /\ IF reservation[r] # "none"
         THEN UNCHANGED credits
         ELSE /\ account' = [account EXCEPT ![Owner(r)].reserved = @ + Cost]
              /\ reservation' = [reservation EXCEPT ![r] = "pending"]
              /\ UNCHANGED <<charged, released>>

\* scalar_one raises where the account holds less than the amount: CanCharge
\* says that this never happens.
CanCharge(r) == r \in charged \/ account[Owner(r)].reserved >= Cost

commit_credit_reservation(r) ==
    /\ CanCharge(r)
    /\ IF r \in charged
         THEN UNCHANGED credits
         ELSE /\ account' = [account EXCEPT ![Owner(r)] =
                               [balance |-> @.balance - Cost, reserved |-> @.reserved - Cost]]
              /\ reservation' = [reservation EXCEPT ![r] =
                                   IF @ = "none" THEN "none" ELSE "committed"]
              /\ charged' = charged \union {r}
              /\ UNCHANGED released

\* Mutant: a release is not booked.
release_credit_reservation_unbooked(r) ==
    IF account[Owner(r)].reserved < Cost
      THEN UNCHANGED credits
      ELSE /\ account' = [account EXCEPT ![Owner(r)].reserved = @ - Cost]
           /\ UNCHANGED <<reservation, charged, released>>

release_credit_reservation(r) ==
    IF r \in released \/ account[Owner(r)].reserved < Cost
      THEN UNCHANGED credits
      ELSE /\ account' = [account EXCEPT ![Owner(r)].reserved = @ - Cost]
           /\ reservation' = [reservation EXCEPT ![r] = IF @ = "none" THEN "none" ELSE "released"]
           /\ released' = released \union {r}
           /\ UNCHANGED charged

ReleaseIfPending(r) == IF reservation[r] = "pending"
                         THEN release_credit_reservation(r)
                         ELSE UNCHANGED credits

-----------------------------------------------------------------------------
(* Steps of a task.                                                        *)

At(w, pc) == worker[w].pc = pc
Go(w, pc) == worker' = [worker EXCEPT ![w].pc = pc]
Reply(w, say, scope) == worker' = [worker EXCEPT ![w].pc = "reply", ![w].say = say,
                                                 ![w].scope = scope]
Ends(w, pc, outcome) == worker' = [worker EXCEPT ![w].pc = pc, ![w].outcome = outcome]

-----------------------------------------------------------------------------
(* The queue of updates.                                                   *)

\* enqueue_update_job: once per update id; updates arrive in order.
Enqueue(r) ==
    /\ job[r].status = "absent"
    /\ \A q \in Request : q < r => job[q].status # "absent"
    /\ job' = [job EXCEPT ![r].status = "pending"]
    /\ UNCHANGED <<marked, lease, question, credits, answers, told, worker, faults>>

Backoff(r) ==
    /\ job[r].status = "pending" /\ ~job[r].due
    /\ job' = [job EXCEPT ![r].due = TRUE]
    /\ UNCHANGED <<marked, lease, question, credits, answers, told, worker, faults>>

Claimable(r) == \/ job[r].status = "pending" /\ job[r].due
                \/ job[r].status = "processing" /\ ~job[r].fresh

\* claim_update_job: the oldest one; the attempts of a stale job are not limited.
Claim(w, r) ==
    /\ At(w, "idle")
    /\ Claimable(r)
    /\ \A q \in Request : q < r => ~Claimable(q)
    /\ job' = [job EXCEPT ![r].status = "processing", ![r].attempts = @ + 1,
                          ![r].lease = job[r].attempts + 1, ![r].fresh = TRUE]
    /\ worker' = [worker EXCEPT ![w] = [Idle EXCEPT !.pc = "acquire", !.job = r,
                                                    !.ticket = job[r].attempts + 1]]
    /\ UNCHANGED <<marked, lease, question, credits, answers, told, faults>>

CompletedJob(row) == [row EXCEPT !.status = "done", !.lease = 0]

FailedJob(row) ==
    [row EXCEPT !.status = IF row.attempts < MaxAttempts THEN "pending" ELSE "failed",
                !.lease = 0, !.due = FALSE]

\* complete_update_job, fail_update_job, or nothing after a cancellation that
\* is not a shutdown; both are conditional on the lease of the job.
Settle(w) ==
    /\ At(w, "settle")
    /\ job' = IF ~OwnsJob(w) \/ worker[w].outcome = "cancelled" THEN job
              ELSE [job EXCEPT ![Mine(w)] = IF worker[w].outcome = "ok"
                                             THEN CompletedJob(@) ELSE FailedJob(@)]
    /\ worker' = [worker EXCEPT ![w] = Idle]
    /\ UNCHANGED <<marked, lease, question, credits, answers, told, faults>>

-----------------------------------------------------------------------------
(* The lease of the user.                                                  *)

\* acquire_processing_lease: a row that is not there, or has expired.
CanAcquire(u) == lease[u].request = 0 \/ ~lease[u].live

Acquire(w) ==
    /\ At(w, "acquire")
    /\ LET u == Owner(Mine(w)) IN
         IF CanAcquire(u)
           THEN /\ lease' = [lease EXCEPT ![u] = [request |-> Mine(w), owner |-> worker[w].ticket,
                                                  live |-> TRUE]]
                /\ Go(w, "gate")
           ELSE /\ Go(w, "busy")
                /\ UNCHANGED lease
    /\ UNCHANGED <<job, marked, question, credits, answers, told, faults>>

\* Not acquired: silent for a copy of this update, and for one seen before.
Busy(w) ==
    /\ At(w, "busy")
    /\ IF LiveFor(Mine(w)) \/ Mine(w) \in marked
         THEN Go(w, "settle")
         ELSE Reply(w, "busy", "busy")
    /\ marked' = IF LiveFor(Mine(w)) THEN marked ELSE marked \union {Mine(w)}
    /\ UNCHANGED <<job, lease, question, credits, answers, told, faults>>

FreeLease(w) == IF IsOwner(w) THEN [lease EXCEPT ![Owner(Mine(w))] = NoLease] ELSE lease

\* The end of processing_lease: one more fence after a normal return, then
\* release_processing_lease.
Leave(w) ==
    /\ At(w, "leave")
    /\ lease' = FreeLease(w)
    /\ Ends(w, "settle", IF worker[w].outcome = "ok" /\ ~Holds(w) THEN "error"
                                                               ELSE worker[w].outcome)
    /\ UNCHANGED <<job, marked, question, credits, answers, told, faults>>

-----------------------------------------------------------------------------
(* The gate.                                                               *)

\* A question that was accepted by an earlier attempt.
GateDuplicate(w) ==
    /\ At(w, "gate") /\ Holds(w)
    /\ Mine(w) \in marked
    /\ worker' = [worker EXCEPT ![w].scope = "gate",
                    ![w].pc = IF question[Mine(w)].status \notin Open THEN "leave"
                              ELSE IF question[Mine(w)].delivery # "none" THEN "resume"
                              ELSE "recover"]
    /\ UNCHANGED <<job, marked, lease, question, credits, answers, told, faults>>

\* Blocked, too long, too often, too expensive, a duplicate: with a word or without.
GateReject(w) ==
    /\ At(w, "gate") /\ Holds(w)
    /\ Mine(w) \notin marked
    /\ marked' = marked \union {Mine(w)}
    /\ \/ Reply(w, "refused", "gate")
       \/ Go(w, "leave")
    /\ UNCHANGED <<job, lease, question, credits, answers, told, faults>>

GateAccept(w) ==
    /\ At(w, "gate") /\ Holds(w)
    /\ Mine(w) \notin marked
    /\ marked' = marked \union {Mine(w)}
    /\ question' = [question EXCEPT ![Mine(w)] = [status |-> "pending", delivery |-> "none"]]
    /\ Go(w, "received")
    /\ UNCHANGED <<job, lease, credits, answers, told, faults>>

-----------------------------------------------------------------------------
(* Classification, cache and reservation.                                  *)

Unpaid(w) == Mine(w) \notin Paid

\* credit_service.reserve, then pc; the reply and the end of the question if
\* the credits do not suffice.  The question stays as it is.
ReserveThen(w, pc) ==
    \/ /\ CanReserve(Mine(w))
       /\ reserve_credits(Mine(w))
       /\ worker' = [worker EXCEPT ![w].pc = pc, ![w].reserved = TRUE]
    \/ /\ ~CanReserve(Mine(w))
       /\ Reply(w, "broke", "question")
       /\ UNCHANGED credits

\* Both classifiers at once, after the reservation.
ClassifyParallel(w) ==
    /\ At(w, "received") /\ Holds(w)
    /\ IF Unpaid(w) THEN Go(w, "classify") /\ UNCHANGED credits
                    ELSE ReserveThen(w, "classify")
    /\ UNCHANGED <<job, marked, lease, question, answers, told, faults>>

\* The first question of a session, or the context first because of a cached answer.
ContextFirst(w) ==
    /\ At(w, "received") /\ Holds(w)
    /\ Go(w, "cache")
    /\ UNCHANGED <<job, marked, lease, question, credits, answers, told, faults>>

Classified(w) ==
    /\ At(w, "classify") /\ Holds(w)
    /\ \E verdict \in {"allowed", "refused", "none"} :
         worker' = [worker EXCEPT ![w].pc = "cache", ![w].verdict = verdict]
    /\ UNCHANGED <<job, marked, lease, question, credits, answers, told, faults>>

\* A cached answer; it is committed as processing here if the receipt could not be
\* posted, so that notifications.start tries again.
CacheHit(w) ==
    /\ At(w, "cache") /\ Holds(w)
    /\ worker[w].verdict \in {"open", "allowed"}
    /\ question' = [question EXCEPT ![Mine(w)].status = "processing"]
    /\ Go(w, "serve")
    /\ UNCHANGED <<job, marked, lease, credits, answers, told, faults>>

\* _serve_cached_answer: an answer that is not charged for.
ServeCached(w) ==
    /\ At(w, "serve") /\ Holds(w)
    /\ answers' = [answers EXCEPT ![Mine(w)] = @ + 1]
    /\ question' = [question EXCEPT ![Mine(w)] = [status |-> "answered", delivery |-> "none"]]
    /\ Go(w, "finally")
    /\ UNCHANGED <<job, marked, lease, credits, told, faults>>

CacheMiss(w) ==
    /\ At(w, "cache") /\ Holds(w)
    /\ LET next == IF worker[w].verdict = "open" THEN "filter" ELSE "judged" IN
         IF Unpaid(w) \/ worker[w].reserved
           THEN Go(w, next) /\ UNCHANGED credits
           ELSE ReserveThen(w, next)
    /\ UNCHANGED <<job, marked, lease, question, answers, told, faults>>

Filtered(w) ==
    /\ At(w, "filter") /\ Holds(w)
    /\ \E verdict \in {"allowed", "refused", "none"} :
         worker' = [worker EXCEPT ![w].pc = "judged", ![w].verdict = verdict]
    /\ UNCHANGED <<job, marked, lease, question, credits, answers, told, faults>>

-----------------------------------------------------------------------------
(* The verdict, the expert and the answer.                                 *)

\* _fail_closed: no verdict of the filter, or no text of the expert.
FailClosed(w) ==
    /\ At(w, "judged") /\ Holds(w)
    /\ worker[w].verdict = "none"
    /\ question' = [question EXCEPT ![Mine(w)] = [status |-> "failed", delivery |-> "none"]]
    /\ Reply(w, "error", "question")
    /\ UNCHANGED <<job, marked, lease, credits, answers, told, faults>>

RejectTopic(w) ==
    /\ At(w, "judged") /\ Holds(w)
    /\ worker[w].verdict = "refused"
    /\ question' = [question EXCEPT ![Mine(w)].status = "rejected"]
    /\ Reply(w, "offtopic", "question")
    /\ UNCHANGED <<job, marked, lease, credits, answers, told, faults>>

\* As in CacheHit, processing is committed here if there is no receipt yet.
AcceptTopic(w) ==
    /\ At(w, "judged") /\ Holds(w)
    /\ worker[w].verdict = "allowed"
    /\ question' = [question EXCEPT ![Mine(w)].status = "processing"]
    /\ Go(w, "accepted")
    /\ UNCHANGED <<job, marked, lease, credits, answers, told, faults>>

\* _checkpoint_expert_request: from here on the question can be resumed.
Checkpoint(w) ==
    /\ At(w, "accepted") /\ Holds(w)
    /\ question' = [question EXCEPT ![Mine(w)].delivery =
                      IF worker[w].reserved THEN "paid" ELSE "free"]
    /\ Go(w, "generate")
    /\ UNCHANGED <<job, marked, lease, credits, answers, told, faults>>

\* main_expert.answer: a text, or none.
Generate(w) ==
    /\ At(w, "generate") /\ Holds(w)
    /\ \/ Go(w, "persist")
       \/ worker' = [worker EXCEPT ![w].pc = "judged", ![w].verdict = "none"]
    /\ UNCHANGED <<job, marked, lease, question, credits, answers, told, faults>>

\* _persist_answer: answer, delivery job, charge and status in one transaction.
StoreAnswer(r, paid) ==
    /\ answers' = [answers EXCEPT ![r] = @ + 1]
    /\ IF paid THEN commit_credit_reservation(r) ELSE UNCHANGED credits
    /\ question' = [question EXCEPT ![r] = [status |-> "answered", delivery |-> "none"]]

\* Mutant: the fence is checked before the answer is stored, not with it.
PersistAnswer_unfenced(w) ==
    /\ At(w, "persist")
    /\ StoreAnswer(Mine(w), worker[w].reserved)
    /\ worker' = [worker EXCEPT ![w].pc = "finally", ![w].reserved = FALSE]
    /\ UNCHANGED <<job, marked, lease, told, faults>>

PersistAnswer(w) ==
    /\ At(w, "persist") /\ Holds(w)
    /\ StoreAnswer(Mine(w), worker[w].reserved)
    /\ worker' = [worker EXCEPT ![w].pc = "finally", ![w].reserved = FALSE]
    /\ UNCHANGED <<job, marked, lease, told, faults>>

\* The finally of _process_message: what is still reserved is released.
Finally(w) ==
    /\ At(w, "finally") /\ Holds(w)
    /\ IF worker[w].reserved THEN release_credit_reservation(Mine(w)) ELSE UNCHANGED credits
    /\ worker' = [worker EXCEPT ![w].reserved = FALSE,
                    ![w].pc = IF worker[w].outcome = "error" THEN "handler" ELSE "leave"]
    /\ UNCHANGED <<job, marked, lease, question, answers, told, faults>>

-----------------------------------------------------------------------------
(* An interrupted question: resumed, or given up.                          *)

\* _resume_expert_answer stores the answer on the terms of the checkpoint.
ResumeAnswer(w) ==
    /\ At(w, "resume") /\ Holds(w)
    /\ StoreAnswer(Mine(w), question[Mine(w)].delivery = "paid")
    /\ Go(w, "leave")
    /\ UNCHANGED <<job, marked, lease, told, faults>>

\* _recover_interrupted
GiveUp(r) ==
    /\ ReleaseIfPending(r)
    /\ question' = [question EXCEPT ![r] = [status |-> "failed", delivery |-> "none"]]

\* No text, with an apology; or the user or the session is blocked by now.
ResumeFails(w) ==
    /\ At(w, "resume") /\ Holds(w)
    /\ GiveUp(Mine(w))
    /\ \/ Reply(w, "error", "gate")
       \/ Go(w, "leave")
    /\ UNCHANGED <<job, marked, lease, answers, told, faults>>

\* The except clause of _handle_message, after a rollback.
Handler(w) ==
    /\ At(w, "handler") /\ Holds(w)
    /\ CASE question[Mine(w)].delivery # "none" \/ question[Mine(w)].status \in Final ->
              Ends(w, "leave", "error")
         [] question[Mine(w)].status \in Open /\ question[Mine(w)].delivery = "none" ->
              worker' = [worker EXCEPT ![w].pc = "recover", ![w].scope = "handler",
                                       ![w].outcome = "error"]
         [] question[Mine(w)].status = "none" ->
              worker' = [worker EXCEPT ![w].pc = "reply", ![w].say = "early",
                                       ![w].scope = "handler", ![w].outcome = "error"]
    /\ UNCHANGED <<job, marked, lease, question, credits, answers, told, faults>>

Recover(w) ==
    /\ At(w, "recover") /\ Holds(w)
    /\ GiveUp(Mine(w))
    /\ Reply(w, "error", worker[w].scope)
    /\ UNCHANGED <<job, marked, lease, answers, told, faults>>

\* Where a reply that was sent returns to.
AfterReply(scope) == CASE scope = "busy" -> "settle"
                       [] scope = "question" -> "finally"
                       [] OTHER -> "leave"

SendReply(w) ==
    /\ At(w, "reply")
    /\ told' = [told EXCEPT ![Mine(w)] = @ \union {worker[w].say}]
    /\ Go(w, AfterReply(worker[w].scope))
    /\ UNCHANGED <<job, marked, lease, question, credits, answers, faults>>

Orphan(r) == question[r].status \in Open /\ ~LiveFor(r) /\ ~Resumable(r)

\* recover_orphaned_questions and the message of cleanup, which may get lost.
RecoverOrphan(r) ==
    /\ Orphan(r)
    /\ GiveUp(r)
    /\ told' \in {told, [told EXCEPT ![r] = @ \union {"interrupted"}]}
    /\ UNCHANGED <<job, marked, lease, answers, worker, faults>>

-----------------------------------------------------------------------------
(* Faults.                                                                 *)

\* The lease is gone: the transaction raises, and so does the handler.
LeaseLost(w) ==
    /\ worker[w].pc \in Asking \union {"gate", "resume", "finally", "handler", "recover"}
    /\ ~Holds(w)
    /\ Ends(w, "leave", "error")
    /\ UNCHANGED <<job, marked, lease, question, credits, answers, told, faults>>

Waiting == {"received", "classify", "filter"}

\* Mutant: the credits are released although the expert has started.
Raises_releasing(w, clean) ==
    IF worker[w].pc \in Waiting \union {"generate"} /\ clean THEN "finally"
    ELSE CASE worker[w].pc \in {"acquire", "busy"} -> "settle"
           [] worker[w].pc = "reply" /\ worker[w].scope = "busy" -> "settle"
           [] worker[w].pc = "reply" /\ worker[w].scope = "question" -> "finally"
           [] worker[w].pc \in Asking \union {"gate", "resume", "finally"} -> "handler"
           [] worker[w].pc \in {"recover", "reply"} /\ worker[w].scope = "gate" -> "handler"
           [] OTHER -> "leave"

\* Where an exception leads to.  Inside the try of _process_message the session
\* can still release the credits if no statement failed (Clean).
Raises(w, clean) ==
    IF worker[w].pc \in Waiting /\ clean THEN "finally"
    ELSE CASE worker[w].pc \in {"acquire", "busy"} -> "settle"
           [] worker[w].pc = "reply" /\ worker[w].scope = "busy" -> "settle"
           [] worker[w].pc = "reply" /\ worker[w].scope = "question" -> "finally"
           [] worker[w].pc \in Asking \union {"gate", "resume", "finally"} -> "handler"
           [] worker[w].pc \in {"recover", "reply"} /\ worker[w].scope = "gate" -> "handler"
           [] OTHER -> "leave"

\* A database error, an error of an agent, or of Telegram, which may have posted
\* the reply nevertheless.
Error(w) ==
    /\ Fault
    /\ worker[w].pc \notin {"idle", "leave", "settle"}
    /\ \E clean \in BOOLEAN : Ends(w, Raises(w, clean), "error")
    /\ \/ UNCHANGED told
       \/ At(w, "reply") /\ told' = [told EXCEPT ![Mine(w)] = @ \union {worker[w].say}]
    /\ UNCHANGED <<job, marked, lease, question, credits, answers>>

\* A database error in the last fence, or in the release of the lease.
LeaveFails(w) ==
    /\ Fault
    /\ At(w, "leave")
    /\ lease' \in {lease, FreeLease(w)}
    /\ Ends(w, "settle", "error")
    /\ UNCHANGED <<job, marked, question, credits, answers, told>>

\* A heartbeat fails on a database error, or the service shuts down, while the
\* task awaits an agent or Telegram.  The expert's reservation is kept.
Cancel(w) ==
    /\ Fault
    /\ worker[w].pc \in Waiting \union {"generate", "resume", "reply"}
    /\ worker[w].scope # "busy"
    /\ Ends(w, IF worker[w].pc \in Waiting \/ (At(w, "reply") /\ worker[w].scope = "question")
                 THEN "finally" ELSE "leave", "cancelled")
    /\ UNCHANGED <<job, marked, lease, question, credits, answers, told>>

Running(w) == worker[w].pc \notin {"idle", "settle"}

\* A lease expires when nobody renews it: its owner is gone, or stands still.
LeaseExpires(u) ==
    /\ lease[u].live
    /\ lease' = [lease EXCEPT ![u].live = FALSE]
    /\ IF \E w \in Worker : Running(w) /\ Mine(w) \in Request /\ Owner(Mine(w)) = u /\ IsOwner(w)
         THEN Fault ELSE UNCHANGED faults
    /\ UNCHANGED <<job, marked, question, credits, answers, told, worker>>

Works(w, r) == ~At(w, "idle") /\ Mine(w) = r /\ OwnsJob(w)

\* locked_at is older than update_queue_stale_seconds, 1800: the lease of the user, 300
\* seconds, has expired too.  The task is gone, or it lost its lease by standing
\* still; it does not stand still for so long before it has the lease.
JobGoesStale(r) ==
    /\ job[r].status = "processing" /\ job[r].fresh
    /\ ~LiveFor(r)
    /\ \A w \in Worker : Works(w, r) => worker[w].pc \notin {"acquire", "busy"}
    /\ job' = [job EXCEPT ![r].fresh = FALSE]
    /\ IF \E w \in Worker : Works(w, r) /\ At(w, "settle")
         THEN Fault ELSE UNCHANGED faults
    /\ UNCHANGED <<marked, lease, question, credits, answers, told, worker>>

\* The process dies and is started again.
Crash(p) ==
    /\ Fault
    /\ worker' = [w \in Worker |-> IF ProcessOf[w] = p THEN Idle ELSE worker[w]]
    /\ worker' # worker
    /\ UNCHANGED <<job, marked, lease, question, credits, answers, told>>

-----------------------------------------------------------------------------
Question(w) ==
    \/ ClassifyParallel(w) \/ ContextFirst(w) \/ Classified(w)
    \/ CacheHit(w) \/ ServeCached(w) \/ CacheMiss(w) \/ Filtered(w)
    \/ FailClosed(w) \/ RejectTopic(w) \/ AcceptTopic(w)
    \/ Checkpoint(w) \/ Generate(w) \/ PersistAnswer(w) \/ Finally(w)

Step(w) ==
    \/ \E r \in Request : Claim(w, r)
    \/ Acquire(w) \/ Busy(w) \/ Leave(w) \/ Settle(w)
    \/ GateDuplicate(w) \/ GateReject(w) \/ GateAccept(w)
    \/ Question(w)
    \/ ResumeAnswer(w) \/ ResumeFails(w)
    \/ Handler(w) \/ Recover(w) \/ SendReply(w) \/ LeaseLost(w)

Time == \/ \E r \in Request : Enqueue(r) \/ Backoff(r) \/ JobGoesStale(r) \/ RecoverOrphan(r)
        \/ \E u \in User : LeaseExpires(u)

Next ==
    \/ \E w \in Worker : Step(w) \/ Error(w) \/ LeaveFails(w) \/ Cancel(w)
    \/ Time
    \/ \E p \in Process : Crash(p)

Spec == Init /\ [][Next]_vars

\* Tasks run on and agents answer or time out, backoffs, leases and stale jobs
\* pass, and maintenance runs every half minute.  No fault has to happen.
Fairness ==
    /\ \A w \in Worker : WF_vars(Step(w))
    /\ \A r \in Request : /\ WF_vars(Backoff(r))
                           /\ WF_vars(JobGoesStale(r) /\ UNCHANGED faults)
                           /\ WF_vars(RecoverOrphan(r))
    /\ \A u \in User : WF_vars(LeaseExpires(u) /\ UNCHANGED faults)

FairSpec == Spec /\ Fairness

-----------------------------------------------------------------------------
(* Safety.                                                                 *)

\* A question is answered at most once, and exactly when its row says so:
\* however often its update is attempted, by whomever, and whoever loses the lease.
AnsweredOnce ==
    \A r \in Request : answers[r] = IF question[r].status = "answered" THEN 1 ELSE 0

\* Credits are taken only for a stored answer, and never given back as well.
ChargedForAnAnswer ==
    /\ \A r \in charged : answers[r] = 1
    /\ charged \cap released = {}

Pending(u) == {r \in Request : Owner(r) = u /\ reservation[r] = "pending"}
Charges(u) == {r \in charged : Owner(r) = u}

\* The account agrees with the ledger, and what is reserved is there.
LedgerAgrees ==
    \A u \in User :
        /\ account[u].reserved = Cost * Cardinality(Pending(u))
        /\ account[u].balance = Granted[u] - Cost * Cardinality(Charges(u))
        /\ account[u].reserved <= account[u].balance

\* The draft of a paid question is covered by its reservation until it is
\* delivered or given up, so that the charge cannot fail.
DraftIsCovered ==
    /\ \A r \in Request : question[r].delivery = "paid" =>
           reservation[r] = "pending" /\ r \notin charged \union released
    /\ \A w \in Worker : At(w, "persist") /\ Holds(w) /\ worker[w].reserved =>
           question[Mine(w)].delivery = "paid" /\ CanCharge(Mine(w))

\* Whoever was told that there is no answer does not get one, nor the reverse.
ToldIsFinal == \A r \in Request : told[r] \subseteq {"early"} \/ answers[r] = 0

\* A question that was answered, rejected or given up stays so.
SettledForGood ==
    [][\A r \in Request : question[r].status \in Final =>
         question'[r].status = question[r].status]_vars

-----------------------------------------------------------------------------
(* Why it is safe: an inductive invariant, for one task, for one question. *)

\* w commits for r.
Attends(w, r) == ~At(w, "idle") /\ Mine(w) = r /\ Holds(w)

\* Attempts at one job have different numbers, so that one of them at most attends
\* to it.
TicketInv ==
    /\ \A w \in Worker : ~At(w, "idle") => worker[w].ticket \in 1 .. job[Mine(w)].attempts
    /\ \A v, w \in Worker :
         v # w /\ ~At(v, "idle") /\ ~At(w, "idle") /\ Mine(v) = Mine(w) =>
           worker[v].ticket # worker[w].ticket

\* Before the checkpoint: there is no draft.
Undrafted(w) == \/ worker[w].pc \in Asking \ {"judged", "generate", "persist"}
                \/ At(w, "judged") /\ worker[w].verdict # "none"

\* Before and after a cached answer, or the filter, has taken up the question.
Undecided(w) == \/ worker[w].pc \in {"received", "classify", "cache", "filter"}
                \/ At(w, "judged") /\ worker[w].verdict # "none"

TakenUp(w) == worker[w].pc \in {"serve", "accepted", "generate", "persist"}

\* On the way to the release of what is reserved.
Owing(w) == /\ worker[w].reserved
            /\ At(w, "finally") \/ (At(w, "reply") /\ worker[w].scope = "question")

\* What the task that attends to a question may rely on.
PhaseOf(w, r) ==
    /\ worker[w].pc \in Asking \union {"resume", "recover"} =>
         r \in marked /\ question[r].status \in Open
    /\ Undecided(w) => question[r].status = "pending"
    /\ TakenUp(w) => question[r].status = "processing"
    /\ At(w, "resume") => question[r].delivery # "none"
    /\ worker[w].pc \in Asking =>
         reservation[r] = IF worker[w].reserved THEN "pending" ELSE "none"
    /\ Undrafted(w) => question[r].delivery = "none"
    /\ worker[w].pc \in {"generate", "persist"} =>
         question[r].delivery = IF worker[w].reserved THEN "paid" ELSE "free"
    /\ At(w, "recover") => worker[w].scope # "question"
    /\ Owing(w) => reservation[r] = "pending" /\ question[r].delivery = "none"

PhaseInv == \A w \in Worker, r \in Request : Attends(w, r) => PhaseOf(w, r)

\* A question that was not accepted yet has left no trace.
Untouched(r) == /\ question[r] = [status |-> "none", delivery |-> "none"]
                /\ reservation[r] = "none"
                /\ answers[r] = 0

\* Its author was told that there is no answer, or is about to be.
Excused(r) == \/ ~(told[r] \subseteq {"early"})
              \/ \E w \in Worker : At(w, "reply") /\ Mine(w) = r /\ worker[w].say # "early"

ExcuseOf(r) ==
    /\ r \in marked
    /\ answers[r] = 0
    /\ question[r].delivery = "none"
    /\ \A w \in Worker : Attends(w, r) => worker[w].pc \notin Asking \union {"resume"}

\* The ledger of a question fits its row.
FundsOf(r) ==
    /\ (r \in charged) = (reservation[r] = "committed")
    /\ (r \in released) = (reservation[r] = "released")
    /\ question[r].delivery = "paid" => reservation[r] = "pending"
    /\ question[r].delivery = "free" => reservation[r] = "none"
    /\ r \in charged => question[r].status = "answered"

RowOf(r) == /\ r \notin marked => Untouched(r)
            /\ answers[r] = IF question[r].status = "answered" THEN 1 ELSE 0
            /\ FundsOf(r)
            /\ question[r].delivery # "none" => question[r].status = "processing"
            /\ Excused(r) => ExcuseOf(r)

\* A reply has something to say, and nothing is reserved at the gate.
LocalInv == \A w \in Worker : /\ At(w, "reply") => worker[w].say # "nothing"
                              /\ worker[w].pc \in {"acquire", "gate"} => ~worker[w].reserved

\* An account is never overdrawn.
Solvent == \A u \in User : account[u].reserved <= account[u].balance

QuestionInv ==
    /\ TypeOK /\ LocalInv /\ Solvent
    /\ TicketInv
    /\ PhaseInv
    /\ \A r \in Request : RowOf(r)

-----------------------------------------------------------------------------
(* Liveness.                                                               *)

\* Every accepted question ends answered, rejected or failed.
EventuallyDecided ==
    \A r \in Request : question[r].status \in Open ~> question[r].status \in Final

\* Reserved credits are charged or released in the end.
ReservationEnds ==
    \A r \in Request : reservation[r] = "pending" ~> reservation[r] # "pending"

-----------------------------------------------------------------------------
(* Refinement.                                                             *)
Funds(r) == CASE reservation[r] = "pending" -> "held"
              [] reservation[r] = "committed" -> "charged"
              [] reservation[r] = "released" -> "returned"
              [] OTHER -> "none"

Promise == INSTANCE QuestionPromise WITH
               fate <- [r \in Request |-> question[r].status],
               funds <- [r \in Request |-> Funds(r)],
               excused <- {r \in Request : ~(told[r] \subseteq {"early"})}

\* What is promised to whoever asks.
KeepsPromise == Promise!Spec
=============================================================================
