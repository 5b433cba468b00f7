------------------------------- MODULE Access -------------------------------
(***************************************************************************)
(* One person and the bot: the request for access, the verdicts of the     *)
(* administrators, the credits they grant, and what the person asks the    *)
(* bot to remember or to forget.                                           *)
(*                                                                         *)
(* Every command is an update of the service lane, handled by a consumer   *)
(* of any process, attempted again when the attempt fails or its consumer  *)
(* vanishes, and by two at once when a slow one is taken over              *)
(* (UpdateQueue).  A handler reads the row of the person, thinks, and      *)
(* commits; the database is READ COMMITTED, and the mapper writes back     *)
(* only the columns that differ from what was READ.  A step is either such *)
(* a read or the commit, which writes under the lock of the row.           *)
(***************************************************************************)
EXTENDS Naturals, FiniteSets

CONSTANTS
    Update,             \* the updates of a behaviour
    Commands,           \* what they may ask for, each time
    Fact,               \* facts for /remember
    Consumer,
    StartingCredits,    \* starting_credits
    Amount,             \* credits given by one /admin_grant_credits
    MaxAttempts,        \* update_queue_max_attempts
    MaxFaults           \* bound on the faults of a behaviour

Verdict == {"allow", "reject", "block", "unblock"}
Personal == {"deep", "level", "forget"} \union Fact      \* a fact stands for /remember
Command == {"visit", "start", "grant"} \union Verdict \union Personal

ASSUME FactAssumption ==
    Fact \intersect ({"visit", "start", "grant", "deep", "level", "forget"} \union Verdict) = {}
ASSUME UpdateAssumption == Update \subseteq Nat \ {0} /\ IsFiniteSet(Update)
ASSUME CommandsAssumption == Commands \subseteq [Update -> Command]
ASSUME AmountAssumption == StartingCredits \in Nat \ {0} /\ Amount \in Nat \ {0}
ASSUME AttemptsAssumption == MaxAttempts \in Nat \ {0} /\ MaxFaults \in Nat

VARIABLES
    command,    \* what each update asks for
    state,      \* what has become of each update
    attempts,   \* telegram_update_jobs.attempts
    user,       \* telegram_users
    requests,   \* access_events with new_status "pending"
    ledger,     \* credit_transactions of type "grant", by request_id
    balance,    \* credit_accounts.balance
    task,       \* the handler each consumer runs
    faults

vars == <<command, state, attempts, user, requests, ledger, balance, task, faults>>

-----------------------------------------------------------------------------
Status == {"absent", "pending", "active", "rejected", "blocked"}

UserRow == [access : Status, is_blocked : BOOLEAN, approved : BOOLEAN,
            mode : {"quick", "deep"}, facts : SUBSET Fact, level : {"default", "chosen"}]

NoUser == [access |-> "absent", is_blocked |-> FALSE, approved |-> FALSE,
           mode |-> "quick", facts |-> {}, level |-> "default"]

\* The request_id of a grant; that of the starting credits is derived from the person.
Starting == 0
Key == Update \union {Starting}

Task == [pc : {"idle", "look", "select", "commit", "reply"}, update : Update \union {0},
         read : UserRow, new : BOOLEAN]

Idle == [pc |-> "idle", update |-> 0, read |-> NoUser, new |-> FALSE]

TypeOK ==
    /\ command \in [Update -> Command]
    /\ state \in [Update -> {"waiting", "done", "failed"}]
    /\ attempts \in [Update -> Nat]
    /\ user \in UserRow
    /\ requests \in Nat
    /\ ledger \in SUBSET Key
    /\ balance \in Nat
    /\ task \in [Consumer -> Task]
    /\ faults \in 0 .. MaxFaults

-----------------------------------------------------------------------------
Registered == [NoUser EXCEPT !.access = "pending"]

\* Unknown; known from the group only; admitted, with a memory.
Init ==
    /\ command \in Commands
    /\ state = [u \in Update |-> "waiting"]
    /\ attempts = [u \in Update |-> 0]
    /\ \/ user = NoUser /\ requests = 0 /\ ledger = {} /\ balance = 0
       \/ user = Registered /\ requests = 0 /\ ledger = {} /\ balance = 0
       \/ \E f \in Fact : user = [Registered EXCEPT !.access = "active", !.approved = TRUE,
                                                    !.facts = {f}]
          /\ requests = 1 /\ ledger = {Starting} /\ balance = StartingCredits
    /\ task = [c \in Consumer |-> Idle]
    /\ faults = 0

At(c, pc) == task[c].pc = pc
Asked(c) == command[task[c].update]
Fault == faults < MaxFaults /\ faults' = faults + 1

\* A claim; a second one of the same update only after it seemed abandoned.
Begin(c, u) ==
    /\ At(c, "idle") /\ state[u] = "waiting"
    /\ IF \E d \in Consumer : task[d].update = u THEN Fault ELSE UNCHANGED faults
    /\ attempts' = [attempts EXCEPT ![u] = @ + 1]
    /\ task' = [task EXCEPT ![c] = [Idle EXCEPT !.pc = "look", !.update = u]]
    /\ UNCHANGED <<command, state, user, requests, ledger, balance>>

-----------------------------------------------------------------------------
(* Reading.                                                                *)

Permitted(what, row) ==
    /\ what \in Personal => row.access = "active"
    /\ what \in Verdict \union {"grant"} => row.access # "absent"

\* /start, and any command of somebody unknown except from a button, registers.
Registers(what, row) == what = "start" \/ (what \in Fact \union {"deep"} /\ row.access = "absent")

\* get_user_by_telegram_id
Look(c) ==
    /\ At(c, "look")
    /\ task' = [task EXCEPT ![c] =
          [pc |-> IF Registers(Asked(c), user) /\ user.access # "absent" THEN "select"
                  ELSE IF Registers(Asked(c), user) \/ Permitted(Asked(c), user) THEN "commit"
                  ELSE "reply",
           update |-> @.update, read |-> user, new |-> user.access = "absent"]]
    /\ UNCHANGED <<command, state, attempts, user, requests, ledger, balance, faults>>

Ends(u) == state' = [state EXCEPT ![u] = "done"]

Fails(u) == state' = [state EXCEPT ![u] = IF @ = "waiting" /\ attempts[u] >= MaxAttempts
                                          THEN "failed" ELSE @]

\* record_access_request: scalar_one_or_none raises for two requests.
SelectRequest(c) ==
    /\ At(c, "select")
    /\ IF requests >= 2
       THEN task' = [task EXCEPT ![c] = Idle] /\ Fails(task[c].update)
       ELSE /\ task' = [task EXCEPT ![c].pc = "commit", ![c].new = requests = 0]
            /\ UNCHANGED state
    /\ UNCHANGED <<command, attempts, user, requests, ledger, balance, faults>>

-----------------------------------------------------------------------------
(* Writing.                                                                *)

\* set_user_access
Judged(row, access) == [row EXCEPT !.access = access, !.is_blocked = FALSE,
                                   !.approved = @ \/ access = "active"]

\* set_user_blocked
Blocked(row) == [row EXCEPT !.access = "blocked", !.is_blocked = TRUE]
Unblocked(row) == [row EXCEPT !.access = IF @ = "blocked" THEN "active" ELSE @,
                              !.is_blocked = FALSE]

\* What a handler makes of the row it has in hand.
Made(what, row) ==
    CASE what = "allow"   -> Judged(row, "active")
      [] what = "reject"  -> Judged(row, "rejected")
      [] what = "block"   -> Blocked(row)
      [] what = "unblock" -> Unblocked(row)
      [] what = "deep"    -> [row EXCEPT !.mode = "deep"]
      [] what = "forget"  -> [row EXCEPT !.facts = {}, !.level = "default"]
      [] what = "level"   -> [row EXCEPT !.level = "chosen"]
      [] what \in Fact    -> [row EXCEPT !.facts = @ \union {what}]
      [] OTHER            -> row

\* A column is written back if it differs from what was read.
Written(new, old, now) == IF new # old THEN new ELSE now

\* Mutant: /remember adds to the facts it read, however old.
Flushed_stale(what, read) ==
    LET new == Made(what, read)
    IN  [access |-> Written(new.access, read.access, user.access),
         is_blocked |-> Written(new.is_blocked, read.is_blocked, user.is_blocked),
         approved |-> Written(new.approved, read.approved, user.approved),
         mode |-> Written(new.mode, read.mode, user.mode),
         facts |-> Written(new.facts, read.facts, user.facts),
         level |-> Written(new.level, read.level, user.level)]

\* profile_facts, with the level, is one column; /remember and the level read it again
\* under the lock.
Flushed(what, read) ==
    LET old == IF what \in Fact \union {"level"} THEN user ELSE read
        new == Made(what, old)
        profile == new.facts # old.facts \/ new.level # old.level
    IN  [access |-> Written(new.access, old.access, user.access),
         is_blocked |-> Written(new.is_blocked, old.is_blocked, user.is_blocked),
         approved |-> Written(new.approved, old.approved, user.approved),
         mode |-> Written(new.mode, old.mode, user.mode),
         facts |-> IF profile THEN new.facts ELSE user.facts,
         level |-> IF profile THEN new.level ELSE user.level]

\* Mutant: the account grows also when the grant is in the ledger.
grant_credits_again(key, amount) ==
    ledger' = ledger \union {key} /\ balance' = balance + amount

\* The insert that conflicts with an earlier one of the same request adds nothing.
grant_credits(key, amount) ==
    /\ ledger' = ledger \union {key}
    /\ balance' = IF key \in ledger THEN balance ELSE balance + amount

\* Mutant: the starting credits are granted to somebody who was not admitted before.
Grants_newcomer(c) ==
    CASE Asked(c) = "allow" /\ task[c].read.access = "pending" ->
              grant_credits(Starting, StartingCredits)
      [] Asked(c) = "grant" -> grant_credits(task[c].update, Amount)
      [] OTHER -> UNCHANGED <<ledger, balance>>

\* approve and admin_grant_credits: the request_id is derived from the person or from
\* the update, so an attempt made again names the same grant.
Grants(c) ==
    CASE Asked(c) = "allow" -> grant_credits(Starting, StartingCredits)
      [] Asked(c) = "grant" -> grant_credits(task[c].update, Amount)
      [] OTHER -> UNCHANGED <<ledger, balance>>

\* get_or_create_user, also for a message of the group
Inserts(c) == /\ task[c].read.access = "absent"
              /\ Registers(Asked(c), task[c].read) \/ Asked(c) = "visit"

\* The row was inserted by another handler meanwhile: an integrity error.
InsertConflicts(c) ==
    /\ At(c, "commit") /\ Inserts(c) /\ user.access # "absent"
    /\ task' = [task EXCEPT ![c] = Idle]
    /\ Fails(task[c].update)
    /\ UNCHANGED <<command, attempts, user, requests, ledger, balance, faults>>

Commit(c) ==
    /\ At(c, "commit") /\ (Inserts(c) => user.access = "absent")
    /\ user' = IF Inserts(c) THEN Registered ELSE Flushed(Asked(c), task[c].read)
    /\ requests' = IF Registers(Asked(c), task[c].read) /\ task[c].new THEN requests + 1
                   ELSE requests
    /\ Grants(c)
    /\ task' = [task EXCEPT ![c].pc = "reply"]
    /\ UNCHANGED <<command, state, attempts, faults>>

Reply(c) ==
    /\ At(c, "reply")
    /\ Ends(task[c].update)
    /\ task' = [task EXCEPT ![c] = Idle]
    /\ UNCHANGED <<command, attempts, user, requests, ledger, balance, faults>>

-----------------------------------------------------------------------------
(* Faults.                                                                 *)

\* An error of the database before the commit, of Telegram before or after it.
Raise(c) ==
    /\ ~At(c, "idle") /\ Fault
    /\ task' = [task EXCEPT ![c] = Idle]
    /\ Fails(task[c].update)
    /\ UNCHANGED <<command, attempts, user, requests, ledger, balance>>

\* The process dies; a stale job is claimed again whatever its attempts.
Crash(c) ==
    /\ ~At(c, "idle") /\ Fault
    /\ task' = [task EXCEPT ![c] = Idle]
    /\ UNCHANGED <<command, state, attempts, user, requests, ledger, balance>>

Next ==
    \E c \in Consumer :
        \/ \E u \in Update : Begin(c, u)
        \/ Look(c) \/ SelectRequest(c) \/ Commit(c) \/ InsertConflicts(c) \/ Reply(c)
        \/ Raise(c) \/ Crash(c)

Spec == Init /\ [][Next]_vars

-----------------------------------------------------------------------------
(* Properties.                                                             *)

Owed == (IF Starting \in ledger THEN StartingCredits ELSE 0)
        + Amount * Cardinality(ledger \ {Starting})

\* Each grant counts once, however often and by however many handlers its command was
\* attempted: the account holds the sum of the ledger.
GrantsAddUp == balance = Owed

\* Nothing is kept for somebody the bot does not know.
UnknownHasNothing ==
    user.access = "absent" => user = NoUser /\ requests = 0 /\ ledger = {} /\ balance = 0

\* Who may not is turned away; and nobody who was known becomes unknown.
Sound(t) ==
    t.pc # "idle" =>
        /\ t.update \in Update
        /\ t.pc \in {"select", "commit"} =>
              /\ Registers(command[t.update], t.read) \/ Permitted(command[t.update], t.read)
              /\ t.read.access # "absent" => user.access # "absent"
TaskInv == \A c \in Consumer : Sound(task[c])

AccessInv == TypeOK /\ UnknownHasNothing /\ TaskInv

\* An administrator has begun such a command at least once.
Tried(what) == \E u \in Update : command[u] = what /\ attempts[u] > 0

\* Whoever is active has the starting credits from the same moment.  The one exception is
\* a person who was never approved, and was blocked and unblocked: that makes active too.
AdmissionIsPaid ==
    user.access = "active" /\ Starting \notin ledger =>
        ~user.approved /\ Tried("block") /\ Tried("unblock")

\* Facts are lost by /forget only, not to a handler that read the profile earlier.
FactsKept ==
    [][~(user.facts \subseteq user'.facts) =>
          \E c \in Consumer : At(c, "commit") /\ Asked(c) = "forget" /\ task'[c].pc = "reply"]_vars

=============================================================================
