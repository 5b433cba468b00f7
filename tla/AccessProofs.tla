----------------------------- MODULE AccessProofs ----------------------------
(***************************************************************************)
(* Access and credits of a person, for any number of commands, consumers   *)
(* and faults.  A handler works on the row it read: AccessInv says what    *)
(* the reading is still good for when it commits, and with it the account  *)
(* holds the sum of the ledger, and no fact is lost.  Whoever is active    *)
(* was approved, and has the starting credits with it, or was blocked and  *)
(* unblocked: a row is "blocked", at any time it may have been read, only  *)
(* if a /block was begun.                                                  *)
(***************************************************************************)
EXTENDS Access, FiniteSetTheorems, TLAPS

\* Who works on an update has claimed it.
Begun == \A c \in Consumer : task[c].pc # "idle" => attempts[task[c].update] > 0

\* A row is "blocked", now or when it was read, by a command.
BlockTried ==
    /\ user.access = "blocked" => Tried("block")
    /\ \A c \in Consumer : task[c].read.access = "blocked" => Tried("block")

ApprovedPaid == user.approved => Starting \in ledger

ActivePaid == user.access = "active" =>
                  Starting \in ledger \/ (Tried("block") /\ Tried("unblock"))

AdmissionInv == Begun /\ BlockTried /\ ApprovedPaid /\ ActivePaid

IInv == AccessInv /\ AdmissionInv /\ GrantsAddUp

-----------------------------------------------------------------------------
(* Rows and tasks.                                                         *)

LEMMA RowTypes == /\ NoUser \in UserRow /\ Registered \in UserRow
                  /\ Idle \in Task /\ Idle.pc = "idle" /\ Idle.read.access = "absent"
<1>1. NoUser \in UserRow
  BY DEF NoUser, UserRow, Status
<1>2. Registered \in UserRow
  BY DEF Registered, NoUser, UserRow, Status
<1>3. Idle \in Task /\ Idle.pc = "idle" /\ Idle.read.access = "absent"
  <2>1. NoUser.access = "absent"
    BY DEF NoUser
  <2> QED
    BY <1>1, <2>1 DEF Idle, Task
<1> QED
  BY <1>1, <1>2, <1>3

\* What a handler makes of a row is a row; it admits, and it forgets, only if asked to.
LEMMA MadeRow ==
    ASSUME NEW what \in Command, NEW row \in UserRow
    PROVE  /\ Made(what, row) \in UserRow
           /\ row.access # "absent" => Made(what, row).access # "absent"
           /\ what # "allow" => Made(what, row).approved = row.approved
           /\ what \notin {"allow", "reject", "block", "unblock"} =>
                 Made(what, row).access = row.access
           /\ what = "allow" => Made(what, row).access = "active"
           /\ what \in {"reject", "unblock"} => Made(what, row).access # "blocked"
           /\ what \in {"reject", "block"} => Made(what, row).access # "active"
           /\ what = "unblock" /\ row.access # "blocked" => Made(what, row).access = row.access
           /\ what # "forget" => row.facts \subseteq Made(what, row).facts
           /\ what \notin Fact \union {"level", "forget"} =>
                 Made(what, row).facts = row.facts /\ Made(what, row).level = row.level
<1>1. CASE what = "allow"
  <2>1. Made(what, row) = Judged(row, "active")
    BY <1>1, FactAssumption DEF Made, Verdict
  <2> QED
    BY <1>1, <2>1 DEF Judged, UserRow, Status
<1>2. CASE what = "reject"
  <2>1. Made(what, row) = Judged(row, "rejected")
    BY <1>2, FactAssumption DEF Made, Verdict
  <2> QED
    BY <1>2, <2>1 DEF Judged, UserRow, Status
<1>3. CASE what = "block"
  <2>1. Made(what, row) = Blocked(row)
    BY <1>3, FactAssumption DEF Made, Verdict
  <2> QED
    BY <1>3, <2>1 DEF Blocked, UserRow, Status
<1>4. CASE what = "unblock"
  <2>1. Made(what, row) = Unblocked(row)
    BY <1>4, FactAssumption DEF Made, Verdict
  <2> QED
    BY <1>4, <2>1 DEF Unblocked, UserRow, Status
<1>5. CASE what = "deep"
  BY <1>5 DEF Made, UserRow
<1>6. CASE what = "forget"
  BY <1>6 DEF Made, UserRow
<1>7. CASE what = "level"
  BY <1>7 DEF Made, UserRow
<1>8. CASE what \in Fact
  <2>1. Made(what, row) = [row EXCEPT !.facts = row.facts \union {what}]
    BY <1>8, FactAssumption DEF Made, Verdict
  <2>2. what \notin {"allow", "reject", "block", "unblock", "forget"}
    BY <1>8, FactAssumption DEF Verdict
  <2> QED
    BY <1>8, <2>1, <2>2 DEF UserRow
<1>9. CASE what \in {"visit", "start", "grant"}
  <2>1. Made(what, row) = row
    BY <1>9, FactAssumption DEF Made
  <2> QED
    BY <1>9, <2>1
<1> QED
  BY <1>1, <1>2, <1>3, <1>4, <1>5, <1>6, <1>7, <1>8, <1>9 DEF Command, Verdict, Personal

LEMMA FlushedRow ==
    ASSUME user \in UserRow, NEW what \in Command, NEW read \in UserRow
    PROVE  /\ Flushed(what, read) \in UserRow
           /\ user.access # "absent" /\ read.access # "absent" => Flushed(what, read).access # "absent"
           /\ what # "allow" => Flushed(what, read).approved = user.approved
           /\ what # "allow" /\ Flushed(what, read).access = "active" =>
                 user.access = "active" \/ (what = "unblock" /\ read.access = "blocked")
           /\ what # "block" /\ Flushed(what, read).access = "blocked" => user.access = "blocked"
           /\ what # "forget" => user.facts \subseteq Flushed(what, read).facts
<1> DEFINE old == IF what \in Fact \union {"level"} THEN user ELSE read
           new == Made(what, old)
<1>1. old \in UserRow
  OBVIOUS
<1> HIDE DEF old
<1>2. /\ new \in UserRow
      /\ old.access # "absent" => new.access # "absent"
      /\ what # "allow" => new.approved = old.approved
      /\ what \notin {"allow", "reject", "block", "unblock"} => new.access = old.access
      /\ what = "allow" => new.access = "active"
      /\ what \in {"reject", "unblock"} => new.access # "blocked"
      /\ what \in {"reject", "block"} => new.access # "active"
      /\ what = "unblock" /\ old.access # "blocked" => new.access = old.access
      /\ what # "forget" => old.facts \subseteq new.facts
      /\ what \notin Fact \union {"level", "forget"} => new.facts = old.facts /\ new.level = old.level
  BY <1>1, MadeRow
<1> HIDE DEF new
<1> DEFINE profile == new.facts # old.facts \/ new.level # old.level
           row == [access |-> Written(new.access, old.access, user.access),
                   is_blocked |-> Written(new.is_blocked, old.is_blocked, user.is_blocked),
                   approved |-> Written(new.approved, old.approved, user.approved),
                   mode |-> Written(new.mode, old.mode, user.mode),
                   facts |-> IF profile THEN new.facts ELSE user.facts,
                   level |-> IF profile THEN new.level ELSE user.level]
<1>3. Flushed(what, read) = row
  BY DEF Flushed, old, new
<1>4. /\ row.access = Written(new.access, old.access, user.access)
      /\ row.approved = Written(new.approved, old.approved, user.approved)
      /\ row.facts = IF profile THEN new.facts ELSE user.facts
  OBVIOUS
<1>5. row \in UserRow
  <2>1. /\ Written(new.access, old.access, user.access) \in Status
        /\ Written(new.mode, old.mode, user.mode) \in {"quick", "deep"}
        /\ (IF profile THEN new.facts ELSE user.facts) \in SUBSET Fact
        /\ (IF profile THEN new.level ELSE user.level) \in {"default", "chosen"}
    BY <1>2 DEF Written, UserRow
  <2>2. /\ Written(new.is_blocked, old.is_blocked, user.is_blocked) \in BOOLEAN
        /\ Written(new.approved, old.approved, user.approved) \in BOOLEAN
    <3>1. /\ new.is_blocked \in BOOLEAN /\ user.is_blocked \in BOOLEAN
          /\ new.approved \in BOOLEAN /\ user.approved \in BOOLEAN
      BY <1>2 DEF UserRow
    <3> QED
      BY <3>1 DEF Written
  <2> HIDE DEF profile
  <2> QED
    BY <2>1, <2>2 DEF UserRow
<1>6. user.access # "absent" /\ read.access # "absent" => row.access # "absent"
  BY <1>2, <1>4 DEF old, Written
<1>7. what # "allow" => row.approved = user.approved
  BY <1>2, <1>4 DEF Written
<1>8. row.access # user.access => /\ row.access = new.access /\ new.access # old.access
                                  /\ what \in {"allow", "reject", "block", "unblock"}
  BY <1>2, <1>4 DEF Written
<1>9. what \in {"allow", "reject", "block", "unblock"} => old = read
  BY FactAssumption DEF old, Verdict
<1>10. what # "allow" /\ row.access = "active" =>
          user.access = "active" \/ (what = "unblock" /\ read.access = "blocked")
  BY <1>2, <1>8, <1>9
<1>11. what # "block" /\ row.access = "blocked" => user.access = "blocked"
  BY <1>2, <1>8
<1>12. what # "forget" => user.facts \subseteq row.facts
  <2> SUFFICES ASSUME what # "forget"  PROVE user.facts \subseteq row.facts
    OBVIOUS
  <2>1. CASE what \in Fact \union {"level"}
    <3>1. old = user
      BY <2>1 DEF old
    <3> QED
      BY <1>2, <1>4, <3>1
  <2>2. CASE what \notin Fact \union {"level"}
    BY <1>2, <1>4, <2>2
  <2> QED
    BY <2>1, <2>2
<1> HIDE DEF row
<1> QED
  BY <1>3, <1>5, <1>6, <1>7, <1>10, <1>11, <1>12

LEMMA TaskType ==
    ASSUME TypeOK, TaskInv, NEW c \in Consumer
    PROVE  /\ task[c] \in Task /\ task[c].read \in UserRow /\ task[c].update \in Update \union {0}
           /\ task[c].new \in BOOLEAN /\ task[c].pc \in {"idle", "look", "select", "commit", "reply"}
           /\ task[c].pc # "idle" => task[c].update \in Update /\ Asked(c) \in Command
BY DEF TypeOK, TaskInv, Sound, Task, Asked

LEMMA FaultType == ASSUME TypeOK, Fault PROVE faults' \in 0 .. MaxFaults
BY AttemptsAssumption DEF TypeOK, Fault

LEMMA FailsType ==
    ASSUME TypeOK, NEW u, Fails(u) \/ Ends(u) \/ UNCHANGED state
    PROVE  state' \in [Update -> {"waiting", "done", "failed"}]
BY DEF TypeOK, Fails, Ends

-----------------------------------------------------------------------------
(* Every step keeps the invariant.                                         *)

LEMMA OwedNothing == ASSUME ledger = {} PROVE Owed = 0
<1>1. Cardinality({}) = 0 /\ ledger \ {Starting} = {} /\ Starting \notin ledger
  BY FS_EmptySet
<1> QED
  BY <1>1, AmountAssumption DEF Owed

LEMMA InitHolds == ASSUME Init PROVE IInv
<1>1. /\ command \in [Update -> Command] /\ state \in [Update -> {"waiting", "done", "failed"}]
      /\ attempts \in [Update -> Nat] /\ task \in [Consumer -> Task] /\ faults \in 0 .. MaxFaults
  <2>1. command \in [Update -> Command] /\ faults \in 0 .. MaxFaults
    <3>1. command \in Commands /\ faults = 0
      BY DEF Init
    <3> QED
      BY <3>1, CommandsAssumption, AttemptsAssumption
  <2>2. state \in [Update -> {"waiting", "done", "failed"}] /\ attempts \in [Update -> Nat]
    BY DEF Init
  <2>3. task \in [Consumer -> Task]
    BY RowTypes DEF Init
  <2> QED
    BY <2>1, <2>2, <2>3
<1>2. /\ TaskInv /\ Begun
      /\ user.access # "blocked" => BlockTried
  BY RowTypes DEF Init, TaskInv, Sound, Begun, BlockTried
<1>3. CASE user \in {NoUser, Registered} /\ requests = 0 /\ ledger = {} /\ balance = 0
  <2>1. user \in UserRow /\ user.approved = FALSE /\ user.access \in {"absent", "pending"}
    <3>1. NoUser.approved = FALSE /\ NoUser.access = "absent"
      BY DEF NoUser
    <3>2. Registered.approved = FALSE /\ Registered.access = "pending"
      BY DEF Registered, NoUser
    <3> QED
      BY <1>3, RowTypes, <3>1, <3>2
  <2>2. TypeOK
    BY <1>1, <1>3, <2>1 DEF TypeOK
  <2>3. UnknownHasNothing
    BY <1>3 DEF UnknownHasNothing, Registered, NoUser
  <2>4. AdmissionInv
    BY <1>2, <2>1 DEF AdmissionInv, ApprovedPaid, ActivePaid
  <2>5. GrantsAddUp
    BY <1>3, OwedNothing DEF GrantsAddUp
  <2> QED
    BY <1>2, <2>2, <2>3, <2>4, <2>5 DEF IInv, AccessInv
<1>4. CASE /\ \E f \in Fact : user = [Registered EXCEPT !.access = "active", !.approved = TRUE,
                                                        !.facts = {f}]
           /\ requests = 1 /\ ledger = {Starting} /\ balance = StartingCredits
  <2>1. user \in UserRow /\ user.access = "active"
    BY <1>4 DEF Registered, NoUser, UserRow, Status
  <2>2. TypeOK
    BY <1>1, <1>4, <2>1, AmountAssumption DEF TypeOK, Key
  <2>3. UnknownHasNothing
    BY <2>1 DEF UnknownHasNothing
  <2>4. AdmissionInv
    BY <1>2, <1>4, <2>1 DEF AdmissionInv, ApprovedPaid, ActivePaid
  <2>5. GrantsAddUp
    <3>1. ledger \ {Starting} = {} /\ Cardinality({}) = 0
      BY <1>4, FS_EmptySet
    <3> QED
      BY <1>4, <3>1, AmountAssumption DEF GrantsAddUp, Owed
  <2> QED
    BY <1>2, <2>2, <2>3, <2>4, <2>5 DEF IInv, AccessInv
<1> QED
  BY <1>3, <1>4 DEF Init

\* A step that leaves the person alone.
LEMMA PersonKept ==
    ASSUME IInv, UNCHANGED <<command, user, requests, ledger, balance>>,
           state' \in [Update -> {"waiting", "done", "failed"}], attempts' \in [Update -> Nat],
           faults' \in 0 .. MaxFaults,
           \A u \in Update : attempts'[u] >= attempts[u],
           \E c \in Consumer, t \in Task :
              /\ task' = [task EXCEPT ![c] = t] /\ Sound(t)
              /\ t.pc # "idle" => attempts'[t.update] > 0
              /\ t.read.access = "blocked" => Tried("block")
    PROVE  IInv'
<1>1. TypeOK'
  BY DEF IInv, AccessInv, TypeOK
<1>2. TaskInv'
  <2>1. PICK c \in Consumer, t \in Task : task' = [task EXCEPT ![c] = t] /\ Sound(t)
    OBVIOUS
  <2>2. \A d \in Consumer : Sound(task'[d])
    BY <2>1 DEF IInv, AccessInv, TypeOK, TaskInv
  <2> QED
    BY <2>2 DEF TaskInv, Sound, Permitted, Registers
<1>3. UnknownHasNothing' /\ GrantsAddUp'
  BY DEF IInv, AccessInv, UnknownHasNothing, GrantsAddUp, Owed
<1>4. AdmissionInv'
  <2>1. PICK c \in Consumer, t \in Task :
              /\ task' = [task EXCEPT ![c] = t] /\ Sound(t)
              /\ t.pc # "idle" => attempts'[t.update] > 0
              /\ t.read.access = "blocked" => Tried("block")
    OBVIOUS
  <2>2. TypeOK /\ TaskInv /\ AdmissionInv
    BY DEF IInv, AccessInv
  <2>3. \A d \in Consumer : task'[d] = IF d = c THEN t ELSE task[d]
    BY <2>1, <2>2 DEF TypeOK
  <2>4. \A u \in Update : attempts[u] > 0 => attempts'[u] > 0
    BY <2>2 DEF TypeOK
  <2>5. \A what : Tried(what) => Tried(what)'
    BY <2>4 DEF Tried
  <2>6. Begun'
    BY <2>1, <2>2, <2>3, <2>4 DEF AdmissionInv, Begun, TaskInv, Sound
  <2>7. BlockTried'
    BY <2>1, <2>2, <2>3, <2>5 DEF AdmissionInv, BlockTried
  <2>8. ApprovedPaid' /\ ActivePaid'
    BY <2>2, <2>5 DEF AdmissionInv, ApprovedPaid, ActivePaid
  <2> QED
    BY <2>6, <2>7, <2>8 DEF AdmissionInv
<1> QED
  BY <1>1, <1>2, <1>3, <1>4 DEF IInv, AccessInv

LEMMA BeginStep ==
    ASSUME IInv, NEW c \in Consumer, NEW u \in Update, Begin(c, u)  PROVE IInv'
<1> DEFINE t == [Idle EXCEPT !.pc = "look", !.update = u]
<1>1. /\ task' = [task EXCEPT ![c] = t] /\ attempts' = [attempts EXCEPT ![u] = @ + 1]
      /\ UNCHANGED <<command, state, user, requests, ledger, balance>>
      /\ (Fault \/ UNCHANGED faults)
  BY DEF Begin
<1>2. TypeOK
  BY DEF IInv, AccessInv
<1>3. t \in Task /\ t.pc = "look" /\ t.update = u /\ t.read.access = "absent"
  BY RowTypes DEF Idle, Task
<1> HIDE DEF t
<1>4. Sound(t)
  BY <1>3 DEF Sound
<1>5. attempts' \in [Update -> Nat] /\ faults' \in 0 .. MaxFaults
      /\ state' \in [Update -> {"waiting", "done", "failed"}]
  BY <1>1, <1>2, FaultType DEF TypeOK
<1>6. attempts'[u] > 0 /\ \A v \in Update : attempts'[v] >= attempts[v]
  BY <1>1, <1>2 DEF TypeOK
<1> QED
  BY <1>1, <1>3, <1>4, <1>5, <1>6, PersonKept

LEMMA LookStep == ASSUME IInv, NEW c \in Consumer, Look(c)  PROVE IInv'
<1> DEFINE next == IF Registers(Asked(c), user) /\ user.access # "absent" THEN "select"
                   ELSE IF Registers(Asked(c), user) \/ Permitted(Asked(c), user) THEN "commit"
                   ELSE "reply"
           t == [pc |-> next, update |-> task[c].update, read |-> user, new |-> user.access = "absent"]
<1>1. TypeOK /\ TaskInv
  BY DEF IInv, AccessInv
<1>2. task[c] \in Task /\ task[c].update \in Update
  BY <1>1, TaskType DEF Look, At
<1>3. task' = [task EXCEPT ![c] = t]
  BY DEF Look
<1>4. next \in {"select", "commit", "reply"}
  OBVIOUS
<1>5. next \in {"select", "commit"} => Registers(Asked(c), user) \/ Permitted(Asked(c), user)
  OBVIOUS
<1> HIDE DEF next
<1>6. t \in Task /\ t.pc = next /\ t.update = task[c].update /\ t.read = user
  <2>1. (user.access = "absent") \in BOOLEAN /\ user \in UserRow
    BY <1>1 DEF TypeOK
  <2> QED
    BY <1>2, <1>4, <2>1 DEF Task
<1> HIDE DEF t
<1>7. Sound(t)
  BY <1>2, <1>5, <1>6 DEF Sound, Asked
<1>8. /\ UNCHANGED <<command, state, attempts, user, requests, ledger, balance, faults>>
      /\ state' \in [Update -> {"waiting", "done", "failed"}] /\ attempts' \in [Update -> Nat]
      /\ faults' \in 0 .. MaxFaults
  BY <1>1 DEF Look, TypeOK
<1>9. /\ \A u \in Update : attempts'[u] >= attempts[u]
      /\ attempts'[t.update] > 0 /\ (t.read.access = "blocked" => Tried("block"))
  BY <1>1, <1>2, <1>6, <1>8 DEF Look, At, IInv, AdmissionInv, Begun, BlockTried, TypeOK
<1> QED
  BY <1>3, <1>6, <1>7, <1>8, <1>9, PersonKept

LEMMA SelectStep == ASSUME IInv, NEW c \in Consumer, SelectRequest(c)  PROVE IInv'
<1>1. TypeOK /\ TaskInv
  BY DEF IInv, AccessInv
<1>2. /\ task[c] \in Task /\ task[c].pc = "select" /\ task[c].update \in Update
  BY <1>1, TaskType DEF SelectRequest, At
<1> DEFINE t == [pc |-> "commit", update |-> task[c].update, read |-> task[c].read,
                 new |-> requests = 0]
<1>3. t \in Task /\ t.pc = "commit" /\ t.update = task[c].update /\ t.read = task[c].read
  <2>1. (requests = 0) \in BOOLEAN
    OBVIOUS
  <2> QED
    BY <1>2, <2>1 DEF Task
<1>4. \/ task' = [task EXCEPT ![c] = Idle]
      \/ task' = [task EXCEPT ![c] = t]
  BY <1>1, <1>2 DEF SelectRequest, TypeOK, Task
<1> HIDE DEF t
<1>5. Sound(t) /\ Sound(Idle)
  BY <1>1, <1>2, <1>3, RowTypes DEF TaskInv, Sound
<1>6. /\ UNCHANGED <<command, attempts, user, requests, ledger, balance, faults>>
      /\ \/ Fails(task[c].update)
         \/ UNCHANGED state
  BY DEF SelectRequest
<1>7. /\ state' \in [Update -> {"waiting", "done", "failed"}] /\ attempts' \in [Update -> Nat]
      /\ faults' \in 0 .. MaxFaults
  BY <1>1, <1>6, FailsType DEF TypeOK
<1>8. /\ \A u \in Update : attempts'[u] >= attempts[u]
      /\ attempts'[t.update] > 0 /\ (t.read.access = "blocked" => Tried("block"))
  BY <1>1, <1>2, <1>3, <1>6 DEF IInv, AdmissionInv, Begun, BlockTried, TypeOK
<1> QED
  BY <1>3, <1>4, <1>5, <1>6, <1>7, <1>8, RowTypes, PersonKept

LEMMA LeavesStep ==
    ASSUME IInv, NEW c \in Consumer, InsertConflicts(c) \/ Reply(c) \/ Raise(c) \/ Crash(c)
    PROVE  IInv'
<1>1. TypeOK
  BY DEF IInv, AccessInv
<1>2. /\ task' = [task EXCEPT ![c] = Idle]
      /\ UNCHANGED <<command, attempts, user, requests, ledger, balance>>
      /\ \/ Fails(task[c].update)
         \/ Ends(task[c].update)
         \/ UNCHANGED state
      /\ (Fault \/ UNCHANGED faults)
  BY DEF InsertConflicts, Reply, Raise, Crash
<1>3. Sound(Idle)
  BY RowTypes DEF Sound
<1>4. /\ state' \in [Update -> {"waiting", "done", "failed"}] /\ attempts' \in [Update -> Nat]
      /\ faults' \in 0 .. MaxFaults
  BY <1>1, <1>2, FailsType, FaultType DEF TypeOK
<1>5. \A u \in Update : attempts'[u] >= attempts[u]
  BY <1>1, <1>2 DEF TypeOK
<1> QED
  BY <1>2, <1>3, <1>4, <1>5, RowTypes, PersonKept

\* A grant enters the ledger once, and the account follows.
LEMMA GrantAdds ==
    ASSUME TypeOK, GrantsAddUp, NEW key \in Key,
           NEW amount, amount = IF key = Starting THEN StartingCredits ELSE Amount,
           grant_credits(key, amount)
    PROVE  /\ GrantsAddUp' /\ balance' \in Nat /\ ledger' \in SUBSET Key
           /\ ledger' = ledger \union {key}
<1>1. IsFiniteSet(ledger) /\ IsFiniteSet(ledger \ {Starting})
  <2>1. IsFiniteSet(Key)
    BY UpdateAssumption, FS_AddElement DEF Key
  <2> QED
    BY <2>1, FS_Subset DEF TypeOK
<1>2. /\ Cardinality(ledger \ {Starting}) \in Nat /\ StartingCredits \in Nat /\ Amount \in Nat
      /\ balance \in Nat /\ ledger \in SUBSET Key
  BY <1>1, FS_CardinalityType, AmountAssumption DEF TypeOK
<1>3. CASE key \in ledger
  <2>1. ledger' = ledger /\ balance' = balance
    BY <1>3 DEF grant_credits
  <2> QED
    BY <1>2, <1>3, <2>1 DEF GrantsAddUp, Owed
<1>4. CASE key \notin ledger /\ key = Starting
  <2>1. ledger' = ledger \union {Starting} /\ balance' = balance + StartingCredits
    BY <1>4 DEF grant_credits
  <2>2. ledger' \ {Starting} = ledger \ {Starting} /\ Starting \in ledger' /\ Starting \notin ledger
    BY <1>4, <2>1
  <2>3. balance = Amount * Cardinality(ledger \ {Starting})
    <3>1. balance = 0 + Amount * Cardinality(ledger \ {Starting})
      BY <2>2 DEF GrantsAddUp, Owed
    <3>2. Amount * Cardinality(ledger \ {Starting}) \in Nat
      BY <1>2
    <3> QED
      BY <3>1, <3>2
  <2>4. Owed' = StartingCredits + Amount * Cardinality(ledger \ {Starting})
    BY <2>2 DEF Owed
  <2>5. balance' = Owed'
    BY <1>2, <2>1, <2>3, <2>4
  <2> QED
    BY <1>2, <1>4, <2>1, <2>5 DEF GrantsAddUp
<1>5. CASE key \notin ledger /\ key # Starting
  <2>1. ledger' = ledger \union {key} /\ balance' = balance + Amount
    BY <1>5 DEF grant_credits
  <2> DEFINE n == Cardinality(ledger \ {Starting})
  <2>2. Cardinality(ledger' \ {Starting}) = n + 1
    <3>1. ledger' \ {Starting} = (ledger \ {Starting}) \union {key} /\ key \notin ledger \ {Starting}
      BY <1>5, <2>1
    <3> QED
      BY <1>1, <3>1, FS_AddElement
  <2>3. n \in Nat
    BY <1>2
  <2> HIDE DEF n
  <2>4. Amount * (n + 1) = Amount * n + Amount /\ Amount * n \in Nat
    BY <1>2, <2>3
  <2> DEFINE s == IF Starting \in ledger THEN StartingCredits ELSE 0
  <2>5. balance = s + Amount * n /\ s \in Nat
    BY <1>2 DEF GrantsAddUp, Owed, n
  <2>6. Owed' = s + Amount * (n + 1)
    BY <1>5, <2>1, <2>2 DEF Owed
  <2> HIDE DEF s
  <2>7. balance' = Owed' /\ balance' \in Nat
    BY <1>2, <2>1, <2>4, <2>5, <2>6
  <2> QED
    BY <1>2, <1>5, <2>1, <2>7 DEF GrantsAddUp
<1> QED
  BY <1>3, <1>4, <1>5

LEMMA CommitStep == ASSUME IInv, NEW c \in Consumer, Commit(c)  PROVE IInv'
<1>1. TypeOK /\ TaskInv /\ UnknownHasNothing /\ AdmissionInv /\ GrantsAddUp
  BY DEF IInv, AccessInv
<1> DEFINE what == Asked(c)
           read == task[c].read
<1>2. /\ task[c] \in Task /\ task[c].pc = "commit" /\ task[c].update \in Update
      /\ what \in Command /\ read \in UserRow
  BY <1>1, TaskType DEF Commit, At
<1>3. /\ Registers(what, read) \/ Permitted(what, read)
      /\ read.access # "absent" => user.access # "absent"
  BY <1>1, <1>2 DEF TaskInv, Sound, Asked
<1>4. /\ user' = (IF Inserts(c) THEN Registered ELSE Flushed(what, read))
      /\ requests' = IF Registers(what, read) /\ task[c].new THEN requests + 1 ELSE requests
      /\ Grants(c) /\ task' = [task EXCEPT ![c].pc = "reply"]
      /\ UNCHANGED <<command, state, attempts, faults>>
      /\ (Inserts(c) => user.access = "absent")
  BY DEF Commit
<1>5. user \in UserRow
  BY <1>1 DEF TypeOK
\* Who is unknown may only register.
<1>6. read.access = "absent" => Inserts(c) /\ what \notin {"allow", "grant", "forget"}
  <2> SUFFICES ASSUME read.access = "absent"
               PROVE  Inserts(c) /\ what \notin {"allow", "grant", "forget"}
    OBVIOUS
  <2>1. what \in {"start", "visit", "deep"} \union Fact
    BY <1>2, <1>3 DEF Registers, Permitted, Command
  <2>2. what \notin {"allow", "grant", "forget"}
    BY <2>1, FactAssumption DEF Verdict
  <2> QED
    BY <1>2, <2>1, <2>2 DEF Inserts, Registers
<1>7. /\ user' \in UserRow /\ user'.access # "absent"
      /\ what # "allow" /\ user'.approved => user.approved
      /\ what # "allow" /\ user'.access = "active" =>
            user.access = "active" \/ (what = "unblock" /\ read.access = "blocked")
      /\ what # "block" /\ user'.access = "blocked" => user.access = "blocked"
  <2>1. CASE Inserts(c)
    BY <1>4, <2>1, RowTypes DEF Registered, NoUser
  <2>2. CASE ~Inserts(c)
    <3>1. user' = Flushed(what, read) /\ read.access # "absent" /\ user.access # "absent"
      BY <1>3, <1>4, <1>6, <2>2
    <3> QED
      BY <1>2, <1>5, <3>1, FlushedRow
  <2> QED
    BY <2>1, <2>2
<1>8. /\ GrantsAddUp' /\ balance' \in Nat /\ ledger' \in SUBSET Key /\ ledger \subseteq ledger'
      /\ what = "allow" => Starting \in ledger'
  <2>1. CASE what = "allow"
    <3>1. grant_credits(Starting, StartingCredits) /\ Starting \in Key
      BY <1>4, <2>1 DEF Grants, Key
    <3> QED
      BY <1>1, <3>1, GrantAdds
  <2>2. CASE what = "grant"
    <3>1. /\ grant_credits(task[c].update, Amount) /\ task[c].update \in Key
          /\ task[c].update # Starting
      BY <1>2, <1>4, <2>2, UpdateAssumption DEF Grants, Key, Starting
    <3> QED
      BY <1>1, <2>2, <3>1, GrantAdds
  <2>3. CASE what # "allow" /\ what # "grant"
    <3>1. ledger' = ledger /\ balance' = balance
      BY <1>4, <2>3 DEF Grants
    <3> QED
      BY <1>1, <2>3, <3>1 DEF GrantsAddUp, Owed, TypeOK
  <2> QED
    BY <2>1, <2>2, <2>3
<1> DEFINE t == [task[c] EXCEPT !.pc = "reply"]
<1>9. t \in Task /\ t.pc = "reply" /\ t.update = task[c].update
  BY <1>2 DEF Task
<1>10. task' = [task EXCEPT ![c] = t]
  BY <1>4
<1> HIDE DEF t
<1>11. task' \in [Consumer -> Task] /\ task'[c] = t /\ \A d \in Consumer : d # c => task'[d] = task[d]
  BY <1>1, <1>9, <1>10 DEF TypeOK
<1>12. requests' \in Nat
  BY <1>1, <1>4 DEF TypeOK
<1>13. TypeOK'
  BY <1>1, <1>4, <1>7, <1>8, <1>11, <1>12 DEF TypeOK
<1>14. TaskInv'
  <2> SUFFICES ASSUME NEW d \in Consumer  PROVE Sound(task[d])'
    BY DEF TaskInv
  <2>1. CASE d = c
    BY <1>2, <1>9, <1>11, <2>1 DEF Sound
  <2>2. CASE d # c
    BY <1>1, <1>4, <1>7, <1>11, <2>2 DEF TaskInv, Sound, Registers, Permitted
  <2> QED
    BY <2>1, <2>2
<1>15. UnknownHasNothing'
  BY <1>7 DEF UnknownHasNothing
<1>16. AdmissionInv'
  <2>1. Tried(what)
    BY <1>1, <1>2 DEF AdmissionInv, Begun, Tried, Asked
  <2>2. Tried("block")' = Tried("block") /\ Tried("unblock")' = Tried("unblock")
    BY <1>4 DEF Tried
  <2>3. t.read = read
    BY <1>2 DEF t, Task
  <2>4. Begun'
    BY <1>1, <1>2, <1>4, <1>9, <1>11 DEF AdmissionInv, Begun
  <2>5. BlockTried'
    BY <1>1, <1>7, <1>11, <2>1, <2>2, <2>3 DEF AdmissionInv, BlockTried
  <2>6. ApprovedPaid'
    BY <1>1, <1>7, <1>8 DEF AdmissionInv, ApprovedPaid
  <2>7. ActivePaid'
    BY <1>1, <1>7, <1>8, <2>1, <2>2 DEF AdmissionInv, ActivePaid, BlockTried
  <2> QED
    BY <2>4, <2>5, <2>6, <2>7 DEF AdmissionInv
<1> QED
  BY <1>8, <1>13, <1>14, <1>15, <1>16 DEF IInv, AccessInv

LEMMA StepHolds == ASSUME IInv, [Next]_vars PROVE IInv'
<1>1. CASE Next
  BY <1>1, BeginStep, LookStep, SelectStep, CommitStep, LeavesStep DEF Next
<1>2. CASE UNCHANGED vars
  BY <1>2 DEF vars, IInv, AccessInv, TypeOK, TaskInv, Sound, Registers, Permitted,
     UnknownHasNothing, AdmissionInv, Begun, BlockTried, ApprovedPaid, ActivePaid, Tried,
     GrantsAddUp, Owed
<1> QED
  BY <1>1, <1>2

LEMMA Invariance == Spec => []IInv
BY InitHolds, StepHolds, PTL DEF Spec

-----------------------------------------------------------------------------
(* What is proved of access and credits.                                   *)

\* A handler commits for a person it may serve, and the bot keeps nothing for somebody it
\* does not know.
THEOREM AccessInvariant == Spec => []AccessInv
<1>1. IInv => AccessInv
  BY DEF IInv
<1> QED
  BY <1>1, Invariance, PTL

\* The account holds the sum of the grants in the ledger, and each command granted once,
\* however often it was attempted and by however many handlers.
THEOREM EveryGrantCountsOnce == Spec => []GrantsAddUp
<1>1. IInv => GrantsAddUp
  BY DEF IInv
<1> QED
  BY <1>1, Invariance, PTL

\* Nobody is active without the starting credits, but who was never approved and was
\* blocked and unblocked.
THEOREM ActiveArePaid == Spec => []AdmissionIsPaid
<1>1. IInv => AdmissionIsPaid
  BY DEF IInv, AdmissionInv, ApprovedPaid, ActivePaid, AdmissionIsPaid
<1> QED
  BY <1>1, Invariance, PTL

\* A fact the person asked the bot to remember is lost by /forget only.
THEOREM FactsStay == Spec => FactsKept
<1> DEFINE Kept == ~(user.facts \subseteq user'.facts) =>
                      \E c \in Consumer : At(c, "commit") /\ Asked(c) = "forget" /\ task'[c].pc = "reply"
<1>1. ASSUME IInv, [Next]_vars  PROVE [Kept]_vars
  <2> SUFFICES ASSUME ~(user.facts \subseteq user'.facts)
               PROVE  \E c \in Consumer : /\ At(c, "commit") /\ Asked(c) = "forget"
                                          /\ task'[c].pc = "reply"
    OBVIOUS
  <2>1. PICK c \in Consumer : Commit(c)
    BY <1>1 DEF Next, vars, Begin, Look, SelectRequest, InsertConflicts, Reply, Raise, Crash
  <2>2. TypeOK /\ TaskInv /\ UnknownHasNothing
    BY <1>1 DEF IInv, AccessInv
  <2>3. task[c].pc = "commit" /\ task'[c].pc = "reply" /\ Asked(c) \in Command
        /\ task[c].read \in UserRow /\ user \in UserRow
    BY <2>1, <2>2, TaskType DEF Commit, At, TypeOK, Task
  <2>4. ~Inserts(c)
    <3>1. ASSUME Inserts(c)  PROVE user.facts = {}
      BY <2>1, <2>2, <3>1 DEF Commit, UnknownHasNothing, NoUser
    <3> QED
      BY <3>1
  <2>5. user' = Flushed(Asked(c), task[c].read)
    BY <2>1, <2>4 DEF Commit
  <2>6. Asked(c) = "forget"
    BY <2>3, <2>5, FlushedRow
  <2> QED
    BY <2>3, <2>6 DEF At
<1> QED
  BY <1>1, Invariance, PTL DEF Spec, FactsKept
=============================================================================
