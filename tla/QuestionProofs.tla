---------------------------- MODULE QuestionProofs ----------------------------
(***************************************************************************)
(* Theorems about QuestionFlow.  QuestionInv is inductive; that answers,   *)
(* charges and apologies agree follows from it, and so does the refinement *)
(* of QuestionPromise.  LedgerAgrees counts reservations, which needs      *)
(* QuestionInv and facts about finite sets.                                *)
(*                                                                         *)
(* A step of a task touches the question it works on and nothing else      *)
(* (Frame), so one lemma takes care of all other questions and tasks       *)
(* (Elsewhere), and each action is left with its own task and row.         *)
(***************************************************************************)
EXTENDS QuestionFlow, FiniteSetTheorems, TLAPS

\* Task w goes on with the same job; the other tasks stand still.
Moves(w) ==
    /\ worker' \in [Worker -> Task]
    /\ \A v \in Worker \ {w} : worker'[v] = worker[v]
    /\ worker'[w].pc # "idle"
    /\ worker'[w].job = worker[w].job
    /\ worker'[w].ticket = worker[w].ticket
    /\ worker'[w].pc = "reply" => worker'[w].say # "nothing"
    /\ worker'[w].pc \in {"acquire", "gate"} => ~worker'[w].reserved

\* Where a task can be after the gate, but for a reply.
Later == Phase \ {"idle", "acquire", "gate", "reply"}

RowTypes == /\ question \in [Request -> QuestionRow]
            /\ account \in [User -> [balance : Nat, reserved : Nat]]
            /\ reservation \in [Request -> {"none", "pending", "committed", "released"}]
            /\ charged \subseteq Request
            /\ released \subseteq Request
            /\ answers \in [Request -> Nat]
            /\ told \in [Request -> SUBSET Say]

SameFunds(r) == /\ reservation'[r] = reservation[r]
                /\ (r \in charged') = (r \in charged)
                /\ (r \in released') = (r \in released)

SameRow(r) == /\ question'[r] = question[r]
              /\ answers'[r] = answers[r]
              /\ SameFunds(r)

\* What a step of w on its question r leaves alone.
Frame(w, r) ==
    /\ Moves(w)
    /\ RowTypes' /\ Solvent'
    /\ lease' \in {lease, FreeLease(w)}
    /\ job' = job
    /\ marked' \in {marked, marked \union {r}}
    /\ \A q \in Request \ {r} : SameRow(q) /\ told'[q] = told[q]
    /\ ~SameRow(r) => Holds(w)
    /\ faults' \in 0 .. MaxFaults

\* What is left to show for the task and its question.
Here(w, r) == (Attends(w, r) => PhaseOf(w, r)) /\ RowOf(r)

-----------------------------------------------------------------------------
(* Who attends to what.                                                    *)

\* One task at most may commit for a question.
LEMMA Alone ==
    ASSUME TypeOK, TicketInv, NEW v \in Worker, NEW w \in Worker, NEW r \in Request,
           Attends(v, r), Attends(w, r)
    PROVE  v = w
  BY DEF TicketInv, Attends, Holds, IsOwner, Mine, At

\* No step of w lets another task attend to a question.
LEMMA NoNewcomer ==
    ASSUME TypeOK, NEW w \in Worker, Mine(w) \in Request, Moves(w),
           lease' \in {lease, FreeLease(w)},
           NEW v \in Worker, NEW r \in Request, Attends(v, r)'
    PROVE  /\ v # w \/ ~At(w, "idle") => Attends(v, r)
           /\ Owner(r) \in User
  <1>1. Owner(r) \in User /\ Owner(Mine(w)) \in User /\ r # 0
    BY UserAssumption, RequestAssumption DEF Owner
  <1>2. worker'[v].job = r /\ worker'[v].pc # "idle"
        /\ lease'[Owner(r)].request = r /\ lease'[Owner(r)].owner = worker'[v].ticket
        /\ lease'[Owner(r)].live
    BY DEF Attends, Holds, IsOwner, Mine, At
  <1>3. lease'[Owner(r)] = lease[Owner(r)]
    <2>1. CASE lease' = lease
      BY <2>1
    <2>2. CASE lease' = [lease EXCEPT ![Owner(Mine(w))] = NoLease]
      BY <2>2, <1>1, <1>2 DEF TypeOK, NoLease
    <2>3. QED BY <2>1, <2>2 DEF FreeLease
  <1>4. worker'[v].job = worker[v].job /\ worker'[v].ticket = worker[v].ticket
    BY DEF Moves
  <1>5. v # w => worker'[v] = worker[v]
    BY DEF Moves
  <1>6. QED BY <1>1, <1>2, <1>3, <1>4, <1>5 DEF Attends, Holds, IsOwner, Mine, At

LEMMA FreeLeaseType ==
    ASSUME TypeOK, NEW w \in Worker, Mine(w) \in Request
    PROVE  FreeLease(w) \in [User -> LeaseRow]
  <1>1. Owner(Mine(w)) \in User
    BY UserAssumption DEF Owner
  <1>2. NoLease \in LeaseRow
    BY DEF NoLease, LeaseRow
  <1>3. QED BY <1>1, <1>2 DEF FreeLease, TypeOK

LEMMA JobOfTask ==
    ASSUME TypeOK, NEW w \in Worker, ~At(w, "idle")
    PROVE  Mine(w) \in Request /\ Owner(Mine(w)) \in User
  BY UserAssumption DEF TypeOK, Task, At, Mine, Owner

\* A task and its question in order: so is everything else.
LEMMA Elsewhere ==
    ASSUME QuestionInv, NEW w \in Worker, NEW r \in Request, r = Mine(w), ~At(w, "idle"),
           Frame(w, r), Here(w, r)'
    PROVE  QuestionInv'
  <1>0. TypeOK /\ TicketInv /\ Mine(w) \in Request /\ Moves(w)
        /\ lease' \in {lease, FreeLease(w)}
    BY DEF QuestionInv, Frame
  <1>1. TypeOK'
    <2>1. lease' \in [User -> LeaseRow]
      BY <1>0, FreeLeaseType DEF TypeOK
    <2>2. job' \in [Request -> JobRow] /\ marked' \subseteq Request
      BY <1>0 DEF TypeOK, Frame
    <2>3. QED BY <2>1, <2>2 DEF TypeOK, Frame, RowTypes, Moves
  <1>2. LocalInv'
    BY DEF QuestionInv, LocalInv, Frame, Moves, At
  <1>3. TicketInv'
    <2>1. \A v \in Worker : /\ Mine(v)' = Mine(v) /\ worker'[v].ticket = worker[v].ticket
                            /\ ~At(v, "idle")' => ~At(v, "idle")
      BY DEF Frame, Moves, Mine, At
    <2>2. QED BY <2>1, <1>0 DEF TicketInv, Frame
  <1>4. ASSUME NEW v \in Worker, NEW q \in Request, v # w, Attends(v, q)'
        PROVE  Attends(v, q) /\ worker'[v] = worker[v]
    BY <1>0, <1>4, NoNewcomer DEF Moves
  <1>5. ASSUME NEW q \in Request, q # r
        PROVE  SameRow(q) /\ told'[q] = told[q] /\ (q \in marked' <=> q \in marked)
    BY <1>5 DEF Frame
  <1>6. r = Mine(w)'
    BY <1>0 DEF Moves, Mine
  <1>7. ASSUME NEW v \in Worker, NEW q \in Request, Attends(v, q)'
        PROVE  PhaseOf(v, q)'
    <2>1. CASE v = w
      BY <2>1, <1>6, <1>7 DEF Here, Attends
    <2>2. CASE v # w
      <3>1. Attends(v, q) /\ worker'[v] = worker[v] /\ PhaseOf(v, q)
        BY <1>4, <1>7, <2>2 DEF QuestionInv, PhaseInv
      <3>2. SameRow(q)
        <4>1. CASE q # r
          BY <1>5, <4>1
        <4>2. CASE q = r /\ ~SameRow(q)
          <5>1. Attends(w, r)
            BY <4>2 DEF Attends, Frame
          <5>2. QED BY <1>0, <2>2, <3>1, <4>2, <5>1, Alone
        <4>3. QED BY <4>1, <4>2
      <3>3. q \in marked => q \in marked'
        BY DEF Frame
      <3>4. QED BY <3>1, <3>2, <3>3 DEF PhaseOf, SameRow, SameFunds, Undrafted, Undecided, TakenUp, Owing, At
    <2>3. QED BY <2>1, <2>2
  <1>8. ASSUME NEW q \in Request PROVE RowOf(q)'
    <2>1. CASE q = r
      BY <2>1 DEF Here
    <2>2. CASE q # r
      <3>1. SameRow(q) /\ told'[q] = told[q] /\ (q \in marked' <=> q \in marked) /\ RowOf(q)
        BY <1>5, <2>2 DEF QuestionInv
      <3>2. ASSUME Excused(q)' PROVE Excused(q)
        <4>1. CASE ~(told'[q] \subseteq {"early"})
          BY <3>1, <4>1 DEF Excused
        <4>2. ASSUME NEW v \in Worker, At(v, "reply")', Mine(v)' = q,
                     worker'[v].say # "early"
              PROVE  Excused(q)
          <5>1. v # w
            BY <1>6, <2>2, <4>2
          <5>2. worker'[v] = worker[v]
            BY <1>0, <5>1 DEF Moves
          <5>3. QED BY <4>2, <5>2 DEF Excused, At, Mine
        <4>3. QED BY <3>2, <4>1, <4>2 DEF Excused
      <3>3. ASSUME ExcuseOf(q) PROVE ExcuseOf(q)'
        <4>1. ASSUME NEW v \in Worker, Attends(v, q)'
              PROVE  ~At(v, "resume")' /\ worker'[v].pc \notin Asking \union {"resume"}
          <5>1. v # w
            BY <1>6, <2>2, <4>1 DEF Attends
          <5>2. Attends(v, q) /\ worker'[v] = worker[v]
            BY <1>4, <4>1, <5>1
          <5>3. QED BY <3>3, <5>2 DEF ExcuseOf, At
        <4>2. QED BY <3>1, <3>3, <4>1 DEF ExcuseOf, SameRow
      <3>4. QED BY <3>1, <3>2, <3>3 DEF RowOf, Untouched, FundsOf, SameRow, SameFunds
    <2>3. QED BY <2>1, <2>2
  <1>9. Solvent' BY DEF Frame
  <1>10. PhaseInv' BY <1>7 DEF PhaseInv
  <1>11. QED BY <1>1, <1>2, <1>3, <1>8, <1>9, <1>10 DEF QuestionInv

-----------------------------------------------------------------------------
(* A task that moves on.                                                   *)

LEMMA MoveTo ==
    ASSUME TypeOK, NEW w \in Worker, ~At(w, "idle"), NEW t \in Task,
           t.pc \notin {"idle", "acquire", "gate"}, t.pc = "reply" => t.say # "nothing",
           t.job = worker[w].job, t.ticket = worker[w].ticket,
           worker' = [worker EXCEPT ![w] = t]
    PROVE  Moves(w) /\ worker'[w] = t
  BY DEF TypeOK, Moves

LEMMA PcMoves ==
    ASSUME TypeOK, NEW w \in Worker, ~At(w, "idle"), NEW pc \in Later,
           worker' = [worker EXCEPT ![w].pc = pc]
    PROVE  /\ Moves(w)
           /\ worker'[w].pc = pc /\ worker'[w].reserved = worker[w].reserved
           /\ worker'[w].verdict = worker[w].verdict /\ worker'[w].say = worker[w].say
           /\ worker'[w].scope = worker[w].scope
  <1> DEFINE t == [worker[w] EXCEPT !.pc = pc]
  <1>0. pc \in Phase /\ pc \notin {"idle", "acquire", "gate", "reply"}
    BY DEF Later
  <1>1. worker[w] \in Task /\ worker[w].job \in Request
    BY DEF TypeOK, Task, At
  <1>2. t \in Task
    BY <1>0, <1>1 DEF Task
  <1>3. /\ t.job = worker[w].job /\ t.ticket = worker[w].ticket
        /\ t.pc = pc /\ t.reserved = worker[w].reserved
        /\ t.verdict = worker[w].verdict /\ t.say = worker[w].say
        /\ t.scope = worker[w].scope
    BY <1>1 DEF Task
  <1>4. worker' = [worker EXCEPT ![w] = t]
    BY DEF TypeOK
  <1> HIDE DEF t
  <1>5. QED BY <1>0, <1>2, <1>3, <1>4, MoveTo

LEMMA OutcomeMoves ==
    ASSUME TypeOK, NEW w \in Worker, ~At(w, "idle"), NEW pc \in Later,
           NEW outcome \in {"ok", "error", "cancelled"},
           worker' = [worker EXCEPT ![w].pc = pc, ![w].outcome = outcome]
    PROVE  /\ Moves(w)
           /\ worker'[w].pc = pc /\ worker'[w].reserved = worker[w].reserved
           /\ worker'[w].verdict = worker[w].verdict /\ worker'[w].say = worker[w].say
           /\ worker'[w].scope = worker[w].scope
  <1> DEFINE t == [worker[w] EXCEPT !.pc = pc, !.outcome = outcome]
  <1>0. pc \in Phase /\ pc \notin {"idle", "acquire", "gate", "reply"}
    BY DEF Later
  <1>1. worker[w] \in Task /\ worker[w].job \in Request
    BY DEF TypeOK, Task, At
  <1>2. t \in Task
    BY <1>0, <1>1 DEF Task
  <1>3. /\ t.job = worker[w].job /\ t.ticket = worker[w].ticket
        /\ t.pc = pc /\ t.reserved = worker[w].reserved
        /\ t.verdict = worker[w].verdict /\ t.say = worker[w].say
        /\ t.scope = worker[w].scope
    BY <1>1 DEF Task
  <1>4. worker' = [worker EXCEPT ![w] = t]
    BY DEF TypeOK
  <1> HIDE DEF t
  <1>5. QED BY <1>0, <1>2, <1>3, <1>4, MoveTo

LEMMA ReplyMoves ==
    ASSUME TypeOK, NEW w \in Worker, ~At(w, "idle"), NEW say \in Say,
           NEW scope \in {"busy", "gate", "question", "handler"},
           worker' = [worker EXCEPT ![w].pc = "reply", ![w].say = say, ![w].scope = scope]
    PROVE  /\ Moves(w)
           /\ worker'[w].pc = "reply" /\ worker'[w].reserved = worker[w].reserved
           /\ worker'[w].verdict = worker[w].verdict /\ worker'[w].say = say
           /\ worker'[w].scope = scope
  <1> DEFINE t == [worker[w] EXCEPT !.pc = "reply", !.say = say, !.scope = scope]
  <1>0. "reply" \in Phase /\ say # "nothing"
    BY DEF Phase, Say
  <1>1. worker[w] \in Task /\ worker[w].job \in Request
    BY DEF TypeOK, Task, At
  <1>2. t \in Task
    BY <1>0, <1>1 DEF Task
  <1>3. /\ t.job = worker[w].job /\ t.ticket = worker[w].ticket
        /\ t.pc = "reply" /\ t.reserved = worker[w].reserved
        /\ t.verdict = worker[w].verdict /\ t.say = say
        /\ t.scope = scope
    BY <1>1 DEF Task
  <1>4. worker' = [worker EXCEPT ![w] = t]
    BY DEF TypeOK
  <1> HIDE DEF t
  <1>5. QED BY <1>0, <1>2, <1>3, <1>4, MoveTo

LEMMA ScopeMoves ==
    ASSUME TypeOK, NEW w \in Worker, ~At(w, "idle"), NEW pc \in Later,
           NEW scope \in {"busy", "gate", "question", "handler"},
           worker' = [worker EXCEPT ![w].scope = scope, ![w].pc = pc]
    PROVE  /\ Moves(w)
           /\ worker'[w].pc = pc /\ worker'[w].reserved = worker[w].reserved
           /\ worker'[w].verdict = worker[w].verdict /\ worker'[w].say = worker[w].say
           /\ worker'[w].scope = scope
  <1> DEFINE t == [worker[w] EXCEPT !.scope = scope, !.pc = pc]
  <1>0. pc \in Phase /\ pc \notin {"idle", "acquire", "gate", "reply"}
    BY DEF Later
  <1>1. worker[w] \in Task /\ worker[w].job \in Request
    BY DEF TypeOK, Task, At
  <1>2. t \in Task
    BY <1>0, <1>1 DEF Task
  <1>3. /\ t.job = worker[w].job /\ t.ticket = worker[w].ticket
        /\ t.pc = pc /\ t.reserved = worker[w].reserved
        /\ t.verdict = worker[w].verdict /\ t.say = worker[w].say
        /\ t.scope = scope
    BY <1>1 DEF Task
  <1>4. worker' = [worker EXCEPT ![w] = t]
    BY DEF TypeOK
  <1> HIDE DEF t
  <1>5. QED BY <1>0, <1>2, <1>3, <1>4, MoveTo

LEMMA VerdictMoves ==
    ASSUME TypeOK, NEW w \in Worker, ~At(w, "idle"), NEW pc \in Later,
           NEW verdict \in {"open", "allowed", "refused", "none"},
           worker' = [worker EXCEPT ![w].pc = pc, ![w].verdict = verdict]
    PROVE  /\ Moves(w)
           /\ worker'[w].pc = pc /\ worker'[w].reserved = worker[w].reserved
           /\ worker'[w].verdict = verdict /\ worker'[w].say = worker[w].say
           /\ worker'[w].scope = worker[w].scope
  <1> DEFINE t == [worker[w] EXCEPT !.pc = pc, !.verdict = verdict]
  <1>0. pc \in Phase /\ pc \notin {"idle", "acquire", "gate", "reply"}
    BY DEF Later
  <1>1. worker[w] \in Task /\ worker[w].job \in Request
    BY DEF TypeOK, Task, At
  <1>2. t \in Task
    BY <1>0, <1>1 DEF Task
  <1>3. /\ t.job = worker[w].job /\ t.ticket = worker[w].ticket
        /\ t.pc = pc /\ t.reserved = worker[w].reserved
        /\ t.verdict = verdict /\ t.say = worker[w].say
        /\ t.scope = worker[w].scope
    BY <1>1 DEF Task
  <1>4. worker' = [worker EXCEPT ![w] = t]
    BY DEF TypeOK
  <1> HIDE DEF t
  <1>5. QED BY <1>0, <1>2, <1>3, <1>4, MoveTo

LEMMA ReservedMoves ==
    ASSUME TypeOK, NEW w \in Worker, ~At(w, "idle"), NEW pc \in Later, NEW reserved \in BOOLEAN,
           worker' = [worker EXCEPT ![w].pc = pc, ![w].reserved = reserved]
    PROVE  /\ Moves(w)
           /\ worker'[w].pc = pc /\ worker'[w].reserved = reserved
           /\ worker'[w].verdict = worker[w].verdict /\ worker'[w].say = worker[w].say
           /\ worker'[w].scope = worker[w].scope
  <1> DEFINE t == [worker[w] EXCEPT !.pc = pc, !.reserved = reserved]
  <1>0. pc \in Phase /\ pc \notin {"idle", "acquire", "gate", "reply"}
    BY DEF Later
  <1>1. worker[w] \in Task /\ worker[w].job \in Request
    BY DEF TypeOK, Task, At
  <1>2. t \in Task
    BY <1>0, <1>1 DEF Task
  <1>3. /\ t.job = worker[w].job /\ t.ticket = worker[w].ticket
        /\ t.pc = pc /\ t.reserved = reserved
        /\ t.verdict = worker[w].verdict /\ t.say = worker[w].say
        /\ t.scope = worker[w].scope
    BY <1>1 DEF Task
  <1>4. worker' = [worker EXCEPT ![w] = t]
    BY DEF TypeOK
  <1> HIDE DEF t
  <1>5. QED BY <1>0, <1>2, <1>3, <1>4, MoveTo

LEMMA ReleasedMoves ==
    ASSUME TypeOK, NEW w \in Worker, ~At(w, "idle"), NEW pc \in Later, NEW reserved \in BOOLEAN,
           worker' = [worker EXCEPT ![w].reserved = reserved, ![w].pc = pc]
    PROVE  /\ Moves(w)
           /\ worker'[w].pc = pc /\ worker'[w].reserved = reserved
           /\ worker'[w].verdict = worker[w].verdict /\ worker'[w].say = worker[w].say
           /\ worker'[w].scope = worker[w].scope
  <1> DEFINE t == [worker[w] EXCEPT !.reserved = reserved, !.pc = pc]
  <1>0. pc \in Phase /\ pc \notin {"idle", "acquire", "gate", "reply"}
    BY DEF Later
  <1>1. worker[w] \in Task /\ worker[w].job \in Request
    BY DEF TypeOK, Task, At
  <1>2. t \in Task
    BY <1>0, <1>1 DEF Task
  <1>3. /\ t.job = worker[w].job /\ t.ticket = worker[w].ticket
        /\ t.pc = pc /\ t.reserved = reserved
        /\ t.verdict = worker[w].verdict /\ t.say = worker[w].say
        /\ t.scope = worker[w].scope
    BY <1>1 DEF Task
  <1>4. worker' = [worker EXCEPT ![w] = t]
    BY DEF TypeOK
  <1> HIDE DEF t
  <1>5. QED BY <1>0, <1>2, <1>3, <1>4, MoveTo

LEMMA RecoverMoves ==
    ASSUME TypeOK, NEW w \in Worker, ~At(w, "idle"), NEW pc \in Later,
           NEW scope \in {"busy", "gate", "question", "handler"},
           NEW outcome \in {"ok", "error", "cancelled"},
           worker' = [worker EXCEPT ![w].pc = pc, ![w].scope = scope, ![w].outcome = outcome]
    PROVE  /\ Moves(w)
           /\ worker'[w].pc = pc /\ worker'[w].reserved = worker[w].reserved
           /\ worker'[w].verdict = worker[w].verdict /\ worker'[w].say = worker[w].say
           /\ worker'[w].scope = scope
  <1> DEFINE t == [worker[w] EXCEPT !.pc = pc, !.scope = scope, !.outcome = outcome]
  <1>0. pc \in Phase /\ pc \notin {"idle", "acquire", "gate", "reply"}
    BY DEF Later
  <1>1. worker[w] \in Task /\ worker[w].job \in Request
    BY DEF TypeOK, Task, At
  <1>2. t \in Task
    BY <1>0, <1>1 DEF Task
  <1>3. /\ t.job = worker[w].job /\ t.ticket = worker[w].ticket
        /\ t.pc = pc /\ t.reserved = worker[w].reserved
        /\ t.verdict = worker[w].verdict /\ t.say = worker[w].say
        /\ t.scope = scope
    BY <1>1 DEF Task
  <1>4. worker' = [worker EXCEPT ![w] = t]
    BY DEF TypeOK
  <1> HIDE DEF t
  <1>5. QED BY <1>0, <1>2, <1>3, <1>4, MoveTo

LEMMA ApologyMoves ==
    ASSUME TypeOK, NEW w \in Worker, ~At(w, "idle"), NEW say \in Say,
           NEW scope \in {"busy", "gate", "question", "handler"},
           NEW outcome \in {"ok", "error", "cancelled"},
           worker' = [worker EXCEPT ![w].pc = "reply", ![w].say = say, ![w].scope = scope, ![w].outcome = outcome]
    PROVE  /\ Moves(w)
           /\ worker'[w].pc = "reply" /\ worker'[w].reserved = worker[w].reserved
           /\ worker'[w].verdict = worker[w].verdict /\ worker'[w].say = say
           /\ worker'[w].scope = scope
  <1> DEFINE t == [worker[w] EXCEPT !.pc = "reply", !.say = say, !.scope = scope, !.outcome = outcome]
  <1>0. "reply" \in Phase /\ say # "nothing"
    BY DEF Phase, Say
  <1>1. worker[w] \in Task /\ worker[w].job \in Request
    BY DEF TypeOK, Task, At
  <1>2. t \in Task
    BY <1>0, <1>1 DEF Task
  <1>3. /\ t.job = worker[w].job /\ t.ticket = worker[w].ticket
        /\ t.pc = "reply" /\ t.reserved = worker[w].reserved
        /\ t.verdict = worker[w].verdict /\ t.say = say
        /\ t.scope = scope
    BY <1>1 DEF Task
  <1>4. worker' = [worker EXCEPT ![w] = t]
    BY DEF TypeOK
  <1> HIDE DEF t
  <1>5. QED BY <1>0, <1>2, <1>3, <1>4, MoveTo

-----------------------------------------------------------------------------
(* What its author was told.                                               *)

LEMMA ExcuseBack ==
    ASSUME TypeOK, NEW w \in Worker, NEW r \in Request, r = Mine(w), Moves(w),
           told'[r] = told[r] \/ told'[r] = told[r] \union {"early"},
           worker'[w].pc = "reply" => worker'[w].say = "early",
           Excused(r)'
    PROVE  Excused(r)
  <1>1. CASE ~(told'[r] \subseteq {"early"})
    BY <1>1 DEF Excused
  <1>2. ASSUME NEW v \in Worker, At(v, "reply")', Mine(v)' = r, worker'[v].say # "early"
        PROVE  Excused(r)
    <2>1. v # w
      BY <1>2 DEF At
    <2>2. worker'[v] = worker[v]
      BY <2>1 DEF Moves
    <2>3. QED BY <1>2, <2>2 DEF Excused, At, Mine
  <1>3. QED BY <1>1, <1>2 DEF Excused

\* The only task that could have answered gives up.
LEMMA ExcuseHere ==
    ASSUME TypeOK, TicketInv, NEW w \in Worker, NEW r \in Request, r = Mine(w),
           Attends(w, r), Moves(w), lease' \in {lease, FreeLease(w)},
           r \in marked', answers'[r] = 0, question'[r].delivery = "none",
           worker'[w].pc \notin Asking \union {"resume"}
    PROVE  ExcuseOf(r)'
  <1>1. ASSUME NEW v \in Worker, Attends(v, r)', v # w PROVE FALSE
    <2>1. Attends(v, r)
      BY <1>1, NoNewcomer
    <2>2. QED BY <1>1, <2>1, Alone
  <1>2. QED BY <1>1 DEF ExcuseOf

LEMMA NotExcused ==
    ASSUME QuestionInv, NEW w \in Worker, NEW r \in Request, Attends(w, r),
           worker[w].pc \in Asking \union {"resume"}
    PROVE  ~Excused(r)
  BY DEF QuestionInv, RowOf, ExcuseOf

-----------------------------------------------------------------------------
(* Steps that leave the rows of the question alone.                        *)

Still(w) == /\ UNCHANGED <<job, question, credits, answers>>
            /\ lease' \in {lease, FreeLease(w)}
            /\ faults' \in 0 .. MaxFaults

\* What a task at a reply has sent, or may have sent.
MaySay(w, r) ==
    \/ told' = told
    \/ At(w, "reply") /\ told' = [told EXCEPT ![r] = told[r] \union {worker[w].say}]

LEMMA StillFrame ==
    ASSUME QuestionInv, NEW w \in Worker, NEW r \in Request, r = Mine(w), ~At(w, "idle"),
           Moves(w), Still(w), MaySay(w, r), marked' \in {marked, marked \union {r}}
    PROVE  Frame(w, r) /\ SameRow(r)
  <1>1. TypeOK /\ LocalInv /\ Solvent
    BY DEF QuestionInv
  <1>2. At(w, "reply") => worker[w].say \in Say
    BY <1>1 DEF TypeOK, LocalInv, Task
  <1>3. told' \in [Request -> SUBSET Say] /\ \A q \in Request \ {r} : told'[q] = told[q]
    <2>1. CASE told' = told
      BY <1>1, <2>1 DEF TypeOK
    <2>2. CASE At(w, "reply") /\ told' = [told EXCEPT ![r] = told[r] \union {worker[w].say}]
      BY <1>1, <1>2, <2>2 DEF TypeOK
    <2>3. QED BY <2>1, <2>2 DEF MaySay
  <1>4. RowTypes' /\ Solvent' /\ job' = job
    BY <1>1, <1>3 DEF Still, RowTypes, TypeOK, credits, Solvent
  <1>5. \A q \in Request : SameRow(q)
    BY DEF Still, SameRow, SameFunds, credits
  <1>6. QED BY <1>3, <1>4, <1>5 DEF Frame, Still

LEMMA Local ==
    ASSUME QuestionInv, NEW w \in Worker, NEW r \in Request, r = Mine(w), ~At(w, "idle"),
           Moves(w), Still(w), MaySay(w, r), marked' = marked,
           Attends(w, r) => PhaseOf(w, r)',
           worker'[w].pc \in Asking \union {"resume"} =>
               worker[w].pc \in Asking \union {"resume"} \/ ~Excused(r),
           worker'[w].pc = "reply" => worker'[w].say = "early"
    PROVE  QuestionInv'
  <1>1. TypeOK /\ LocalInv /\ RowOf(r) /\ Frame(w, r) /\ SameRow(r)
    BY StillFrame DEF QuestionInv
  <1>2. ASSUME NEW v \in Worker, Attends(v, r)'
        PROVE  Attends(v, r) /\ (v # w => worker'[v] = worker[v])
    BY <1>1, <1>2, NoNewcomer DEF Moves, Still
  <1>3. Attends(w, r)' => PhaseOf(w, r)'
    BY <1>2
  <1>4. Excused(r)' => Excused(r)
    <2>1. CASE told' = told
      BY <1>1, <2>1, ExcuseBack
    <2>2. CASE At(w, "reply") /\ told' = [told EXCEPT ![r] = told[r] \union {worker[w].say}]
      <3>1. told'[r] = told[r] \union {worker[w].say}
        BY <1>1, <2>2 DEF TypeOK
      <3>2. CASE worker[w].say = "early"
        BY <1>1, <3>1, <3>2, ExcuseBack
      <3>3. CASE worker[w].say # "early"
        BY <2>2, <3>3 DEF Excused
      <3>4. QED BY <3>2, <3>3
    <2>3. QED BY <2>1, <2>2 DEF MaySay
  <1>5. ASSUME Excused(r), ExcuseOf(r) PROVE ExcuseOf(r)'
    <2>1. ASSUME NEW v \in Worker, Attends(v, r)'
          PROVE  worker'[v].pc \notin Asking \union {"resume"}
      <3>1. worker[v].pc \notin Asking \union {"resume"}
        BY <1>2, <1>5, <2>1 DEF ExcuseOf
      <3>2. QED BY <1>2, <1>5, <2>1, <3>1
    <2>2. QED BY <1>1, <1>5, <2>1 DEF ExcuseOf, SameRow
  <1>6. RowOf(r)'
    BY <1>1, <1>4, <1>5 DEF RowOf, Untouched, FundsOf, SameRow, SameFunds
  <1>7. QED BY <1>1, <1>3, <1>6, Elsewhere DEF Here

\* A request that is refused leaves nothing but its mark.
LEMMA Refused ==
    ASSUME QuestionInv, NEW w \in Worker, NEW r \in Request, r = Mine(w), ~At(w, "idle"),
           Moves(w), Still(w), told' = told, r \notin marked, marked' = marked \union {r},
           worker'[w].pc \in {"reply", "settle", "leave"},
           worker'[w].pc = "reply" => worker'[w].scope # "question"
    PROVE  QuestionInv'
  <1>1. TypeOK /\ RowOf(r) /\ Untouched(r) /\ Frame(w, r) /\ SameRow(r)
    BY StillFrame DEF QuestionInv, RowOf, MaySay
  <1>2. PhaseOf(w, r)'
    BY DEF PhaseOf, Undrafted, Undecided, TakenUp, Owing, Asking, At
  <1>3. ExcuseOf(r)'
    <2>1. ASSUME NEW v \in Worker, v # w, Attends(v, r)'
          PROVE  worker'[v].pc \notin Asking \union {"resume"}
      <3>1. Attends(v, r) /\ worker'[v] = worker[v]
        BY <1>1, <2>1, NoNewcomer DEF Moves, Still
      <3>2. PhaseOf(v, r)
        BY <3>1 DEF QuestionInv, PhaseInv
      <3>3. QED BY <3>1, <3>2 DEF PhaseOf
    <2>2. QED BY <1>1, <2>1 DEF ExcuseOf, SameRow, Untouched, Asking
  <1>4. RowOf(r)'
    BY <1>1, <1>3 DEF RowOf, FundsOf, SameRow, SameFunds
  <1>5. QED BY <1>1, <1>2, <1>4, Elsewhere DEF Here

LEMMA Base ==
    ASSUME QuestionInv, NEW w \in Worker, ~At(w, "idle")
    PROVE  /\ TypeOK /\ TicketInv /\ Mine(w) \in Request /\ Owner(Mine(w)) \in User
           /\ Holds(w) <=> Attends(w, Mine(w))
           /\ Holds(w) => PhaseOf(w, Mine(w))
           /\ RowOf(Mine(w))
           /\ worker[w] \in Task
           /\ faults \in 0 .. MaxFaults
  BY JobOfTask DEF QuestionInv, PhaseInv, Attends, TypeOK

LEMMA OneMoreFault ==
    ASSUME QuestionInv, Fault
    PROVE  faults' \in 0 .. MaxFaults
  BY BoundAssumption DEF QuestionInv, TypeOK, Fault, CanFault

LEMMA LeaveStep ==
    ASSUME QuestionInv, NEW w \in Worker, Leave(w) \/ LeaveFails(w)
    PROVE  QuestionInv'
  <1>1. ~At(w, "idle")
    BY DEF Leave, LeaveFails, At
  <1>2. faults' \in 0 .. MaxFaults
    BY <1>1, Base, OneMoreFault DEF Leave, LeaveFails
  <1>3. Still(w) /\ told' = told /\ marked' = marked
    BY <1>2 DEF Leave, LeaveFails, Still, credits
  <1>4. PICK outcome \in {"ok", "error", "cancelled"} :
          worker' = [worker EXCEPT ![w].pc = "settle", ![w].outcome = outcome]
    BY <1>1, Base DEF Leave, LeaveFails, Task, Ends
  <1>5. "settle" \in Later
    BY DEF Later, Phase
  <1>6. Moves(w) /\ worker'[w].pc = "settle"
    BY <1>1, <1>4, <1>5, Base, OutcomeMoves
  <1>7. PICK r \in Request : r = Mine(w)
    BY <1>1, Base
  <1>8. PhaseOf(w, r)'
    BY <1>6 DEF PhaseOf, Undrafted, Undecided, TakenUp, Owing, Asking, At
  <1>9. QED BY <1>1, <1>3, <1>6, <1>7, <1>8, Local DEF Asking, MaySay

LEMMA GateDuplicateStep ==
    ASSUME QuestionInv, NEW w \in Worker, GateDuplicate(w)
    PROVE  QuestionInv'
  <1>1. ~At(w, "idle") /\ Holds(w)
    BY DEF GateDuplicate, At
  <1>2. Still(w) /\ told' = told /\ marked' = marked
    BY <1>1, Base DEF GateDuplicate, Still, credits
  <1>3. PICK r \in Request : r = Mine(w)
    BY <1>1, Base
  <1>4. PICK pc \in {"leave", "resume", "recover"} :
          /\ pc = IF question[r].status \notin Open THEN "leave"
                  ELSE IF question[r].delivery # "none" THEN "resume" ELSE "recover"
          /\ worker' = [worker EXCEPT ![w].scope = "gate", ![w].pc = pc]
    BY <1>3 DEF GateDuplicate
  <1>5. pc \in Later /\ pc \notin Asking
    BY DEF Later, Phase, Asking
  <1>6. Moves(w) /\ worker'[w].pc = pc /\ worker'[w].scope = "gate"
    <2>1. worker' = [worker EXCEPT ![w].scope = "gate", ![w].pc = pc] /\ TypeOK
      BY <1>1, <1>4, Base
    <2>2. QED BY <1>1, <1>5, <2>1, ScopeMoves
  <1>7. question' = question /\ r \in marked
    BY <1>2, <1>3 DEF Still, GateDuplicate
  <1>8. PhaseOf(w, r)'
    BY <1>2, <1>4, <1>6, <1>7 DEF PhaseOf, Undrafted, Undecided, TakenUp, Owing, Asking, At
  <1>9. pc = "resume" => ~Excused(r)
    BY <1>1, <1>3, <1>4, Base DEF RowOf, ExcuseOf
  <1>10. QED BY <1>1, <1>2, <1>3, <1>4, <1>5, <1>6, <1>8, <1>9, Local DEF MaySay

LEMMA AskingStep ==
    ASSUME QuestionInv, NEW w \in Worker, ContextFirst(w) \/ Classified(w) \/ Generate(w)
    PROVE  QuestionInv'
  <1>1. ~At(w, "idle") /\ Holds(w) /\ worker[w].pc \in {"received", "classify", "generate"}
    BY DEF ContextFirst, Classified, Generate, At
  <1>2. Still(w) /\ told' = told /\ marked' = marked
    BY <1>1, Base DEF ContextFirst, Classified, Generate, Still, credits
  <1>3. PICK r \in Request : r = Mine(w)
    BY <1>1, Base
  <1>4. PhaseOf(w, r) /\ question' = question /\ reservation' = reservation
    BY <1>1, <1>2, <1>3, Base DEF Still, credits
  <1>5. {"cache", "persist", "judged"} \subseteq Later
        /\ worker[w].pc \in Asking
    BY <1>1 DEF Later, Phase, Asking
  <1>6. CASE Classified(w)
    <2>1. PICK verdict \in {"open", "allowed", "refused", "none"} :
            worker' = [worker EXCEPT ![w].pc = "cache", ![w].verdict = verdict]
      BY <1>6 DEF Classified
    <2>2. Moves(w) /\ worker'[w].pc = "cache" /\ worker'[w].reserved = worker[w].reserved
      BY <1>1, <1>5, <2>1, Base, VerdictMoves
    <2>3. PhaseOf(w, r)'
      BY <1>2, <1>4, <1>6, <2>2 DEF PhaseOf, Undrafted, Undecided, TakenUp, Owing, Asking, At, Classified
    <2>4. QED BY <1>1, <1>2, <1>3, <1>5, <2>2, <2>3, Local DEF MaySay
  <1>7. CASE ContextFirst(w)
    <2>1. Moves(w) /\ worker'[w].pc = "cache" /\ worker'[w].reserved = worker[w].reserved
      BY <1>1, <1>5, <1>7, Base, PcMoves DEF ContextFirst, Go
    <2>2. PhaseOf(w, r)'
      BY <1>2, <1>4, <1>7, <2>1 DEF PhaseOf, Undrafted, Undecided, TakenUp, Owing, Asking, At, ContextFirst
    <2>3. QED BY <1>1, <1>2, <1>3, <1>5, <2>1, <2>2, Local DEF MaySay
  <1>8. CASE Generate(w) /\ Go(w, "persist")
    <2>1. Moves(w) /\ worker'[w].pc = "persist" /\ worker'[w].reserved = worker[w].reserved
      BY <1>1, <1>5, <1>8, Base, PcMoves DEF Go
    <2>2. PhaseOf(w, r)'
      BY <1>2, <1>4, <1>8, <2>1 DEF PhaseOf, Undrafted, Undecided, TakenUp, Owing, Asking, At, Generate
    <2>3. QED BY <1>1, <1>2, <1>3, <1>5, <2>1, <2>2, Local DEF MaySay
  <1>9. CASE Generate(w)
             /\ worker' = [worker EXCEPT ![w].pc = "judged", ![w].verdict = "none"]
    <2>1. Moves(w) /\ worker'[w].pc = "judged" /\ worker'[w].verdict = "none"
          /\ worker'[w].reserved = worker[w].reserved
      BY <1>1, <1>5, <1>9, Base, VerdictMoves
    <2>2. PhaseOf(w, r)'
      BY <1>2, <1>4, <1>9, <2>1 DEF PhaseOf, Undrafted, Undecided, TakenUp, Owing, Asking, At, Generate
    <2>3. QED BY <1>1, <1>2, <1>3, <1>5, <2>1, <2>2, Local DEF MaySay
  <1>10. QED BY <1>6, <1>7, <1>8, <1>9 DEF Generate

LEMMA HandlerStep ==
    ASSUME QuestionInv, NEW w \in Worker, Handler(w)
    PROVE  QuestionInv'
  <1>1. ~At(w, "idle") /\ Holds(w) /\ worker[w].pc = "handler"
    BY DEF Handler, At
  <1>2. Still(w) /\ told' = told /\ marked' = marked
    BY <1>1, Base DEF Handler, Still, credits
  <1>3. PICK r \in Request : r = Mine(w)
    BY <1>1, Base
  <1>4. TypeOK /\ RowOf(r) /\ question' = question /\ reservation' = reservation
        /\ question[r] \in QuestionRow
    BY <1>1, <1>2, <1>3, Base DEF Still, credits, TypeOK
  <1>5. {"leave", "recover"} \subseteq Later
        /\ {"leave", "recover", "reply"} \intersect (Asking \union {"resume"}) = {}
        /\ "early" \in Say
    BY DEF Later, Phase, Asking, Say
  <1>6. CASE Ends(w, "leave", "error")
    <2>1. Moves(w) /\ worker'[w].pc = "leave"
      BY <1>1, <1>4, <1>5, <1>6, OutcomeMoves DEF Ends
    <2>2. PhaseOf(w, r)'
      BY <2>1 DEF PhaseOf, Undrafted, Undecided, TakenUp, Owing, Asking, At
    <2>3. QED BY <1>1, <1>2, <1>3, <1>5, <2>1, <2>2, Local DEF MaySay
  <1>7. CASE /\ question[r].status \in Open
             /\ worker' = [worker EXCEPT ![w].pc = "recover", ![w].scope = "handler",
                                         ![w].outcome = "error"]
    <2>1. Moves(w) /\ worker'[w].pc = "recover" /\ worker'[w].scope = "handler"
      BY <1>1, <1>4, <1>5, <1>7, RecoverMoves
    <2>2. r \in marked
      BY <1>4, <1>7 DEF RowOf, Untouched, Open
    <2>3. PhaseOf(w, r)'
      BY <1>2, <1>4, <1>7, <2>1, <2>2 DEF PhaseOf, Undrafted, Undecided, TakenUp, Owing, Asking, At
    <2>4. QED BY <1>1, <1>2, <1>3, <1>5, <2>1, <2>3, Local DEF MaySay
  <1>8. CASE worker' = [worker EXCEPT ![w].pc = "reply", ![w].say = "early",
                                      ![w].scope = "handler", ![w].outcome = "error"]
    <2>1. Moves(w) /\ worker'[w].pc = "reply" /\ worker'[w].say = "early"
          /\ worker'[w].scope = "handler"
      BY <1>1, <1>4, <1>5, <1>8, ApologyMoves
    <2>2. PhaseOf(w, r)'
      BY <2>1 DEF PhaseOf, Undrafted, Undecided, TakenUp, Owing, Asking, At
    <2>3. QED BY <1>1, <1>2, <1>3, <1>5, <2>1, <2>2, Local DEF MaySay
  <1>9. \/ question[r].delivery # "none" \/ question[r].status \in Final
        \/ question[r].status \in Open /\ question[r].delivery = "none"
        \/ question[r].status = "none"
    BY <1>4 DEF QuestionRow
  <1>10. QED BY <1>3, <1>6, <1>7, <1>8, <1>9 DEF Handler, Final, Open

\* Where an exception, a cancellation or a reply that was sent leads to.
LEMMA EndsStep ==
    ASSUME QuestionInv, NEW w \in Worker, ~At(w, "idle"), NEW r \in Request, r = Mine(w),
           NEW pc \in {"settle", "finally", "handler", "leave"},
           Moves(w), worker'[w].pc = pc, worker'[w].reserved = worker[w].reserved,
           worker'[w].scope = worker[w].scope,
           pc = "finally" => \/ worker[w].pc \in Waiting
                             \/ At(w, "reply") /\ worker[w].scope = "question",
           Still(w), MaySay(w, r), marked' = marked
    PROVE  QuestionInv'
  <1>1. ASSUME Attends(w, r), pc = "finally"
        PROVE  PhaseOf(w, r)'
    <2>1. PhaseOf(w, r) /\ question' = question /\ reservation' = reservation
      BY <1>1, Base DEF Attends, Still, credits
    <2>2. QED BY <1>1, <2>1 DEF PhaseOf, Undrafted, Undecided, TakenUp, Owing, Asking, Waiting, At
  <1>2. ASSUME pc # "finally" PROVE PhaseOf(w, r)'
    BY <1>2 DEF PhaseOf, Undrafted, Undecided, TakenUp, Owing, Asking, At
  <1>3. pc \notin Asking \union {"resume"} /\ pc # "reply"
    BY DEF Asking
  <1>4. QED BY <1>1, <1>2, <1>3, Local

LEMMA LeaseLostStep ==
    ASSUME QuestionInv, NEW w \in Worker, LeaseLost(w)
    PROVE  QuestionInv'
  <1>1. ~At(w, "idle")
    BY DEF LeaseLost, Asking, At
  <1>2. Still(w) /\ told' = told /\ marked' = marked
    BY <1>1, Base DEF LeaseLost, Still, credits
  <1>3. PICK r \in Request : r = Mine(w)
    BY <1>1, Base
  <1>4. "leave" \in Later
    BY DEF Later, Phase
  <1>5. worker' = [worker EXCEPT ![w].pc = "leave", ![w].outcome = "error"] /\ TypeOK
    BY <1>1, Base DEF LeaseLost, Ends
  <1>6. Moves(w) /\ worker'[w].pc = "leave" /\ worker'[w].reserved = worker[w].reserved
        /\ worker'[w].scope = worker[w].scope
    BY <1>1, <1>4, <1>5, OutcomeMoves
  <1>7. QED BY <1>1, <1>2, <1>3, <1>6, EndsStep DEF MaySay

LEMMA CancelStep ==
    ASSUME QuestionInv, NEW w \in Worker, Cancel(w)
    PROVE  QuestionInv'
  <1>1. ~At(w, "idle") /\ TypeOK
    BY DEF Cancel, Waiting, At, QuestionInv
  <1>2. Still(w) /\ told' = told /\ marked' = marked
    BY <1>1, OneMoreFault DEF Cancel, Still, credits
  <1>3. PICK r \in Request : r = Mine(w)
    BY <1>1, Base
  <1>4. PICK pc \in {"finally", "leave"} :
          /\ worker' = [worker EXCEPT ![w].pc = pc, ![w].outcome = "cancelled"]
          /\ pc = "finally" => \/ worker[w].pc \in Waiting
                               \/ At(w, "reply") /\ worker[w].scope = "question"
    BY DEF Cancel, Ends
  <1>5. pc \in Later
    BY DEF Later, Phase
  <1>6. Moves(w) /\ worker'[w].pc = pc /\ worker'[w].reserved = worker[w].reserved
        /\ worker'[w].scope = worker[w].scope
    <2>1. "cancelled" \in {"ok", "error", "cancelled"}
      OBVIOUS
    <2>2. QED BY <1>1, <1>4, <1>5, <2>1, OutcomeMoves
  <1>7. QED BY <1>1, <1>2, <1>3, <1>4, <1>6, EndsStep DEF MaySay

LEMMA ErrorStep ==
    ASSUME QuestionInv, NEW w \in Worker, Error(w)
    PROVE  QuestionInv'
  <1>1. ~At(w, "idle") /\ TypeOK
    BY DEF Error, At, QuestionInv
  <1>2. Still(w) /\ marked' = marked
    BY <1>1, OneMoreFault DEF Error, Still, credits
  <1>3. PICK r \in Request : r = Mine(w)
    BY <1>1, Base
  <1>4. MaySay(w, r)
    BY <1>3 DEF Error, MaySay
  <1>5. PICK pc \in {"settle", "finally", "handler", "leave"} :
          /\ worker' = [worker EXCEPT ![w].pc = pc, ![w].outcome = "error"]
          /\ pc = "finally" => \/ worker[w].pc \in Waiting
                               \/ At(w, "reply") /\ worker[w].scope = "question"
    <2>1. PICK clean \in BOOLEAN : Ends(w, Raises(w, clean), "error")
      BY DEF Error
    <2>2. Raises(w, clean) \in {"settle", "finally", "handler", "leave"}
          /\ (Raises(w, clean) = "finally" => \/ worker[w].pc \in Waiting
                                              \/ At(w, "reply") /\ worker[w].scope = "question")
      BY DEF Raises, At
    <2>3. QED BY <2>1, <2>2 DEF Ends
  <1>6. pc \in Later
    BY DEF Later, Phase
  <1>7. Moves(w) /\ worker'[w].pc = pc /\ worker'[w].reserved = worker[w].reserved
        /\ worker'[w].scope = worker[w].scope
    <2>1. "error" \in {"ok", "error", "cancelled"}
      OBVIOUS
    <2>2. QED BY <1>1, <1>5, <1>6, <2>1, OutcomeMoves
  <1>8. QED BY <1>1, <1>2, <1>3, <1>4, <1>5, <1>7, EndsStep

LEMMA SendReplyStep ==
    ASSUME QuestionInv, NEW w \in Worker, SendReply(w)
    PROVE  QuestionInv'
  <1>1. ~At(w, "idle") /\ TypeOK /\ At(w, "reply")
    BY DEF SendReply, At, QuestionInv
  <1>2. Still(w) /\ marked' = marked
    BY <1>1, Base DEF SendReply, Still, credits
  <1>3. PICK r \in Request : r = Mine(w)
    BY <1>1, Base
  <1>4. MaySay(w, r)
    BY <1>1, <1>3 DEF SendReply, MaySay
  <1>5. PICK pc \in {"settle", "finally", "leave"} :
          /\ worker' = [worker EXCEPT ![w].pc = pc]
          /\ pc = "finally" => worker[w].scope = "question"
    <2>1. AfterReply(worker[w].scope) \in {"settle", "finally", "leave"}
          /\ (AfterReply(worker[w].scope) = "finally" => worker[w].scope = "question")
      BY DEF AfterReply
    <2>2. QED BY <2>1 DEF SendReply, Go
  <1>6. pc \in Later
    BY DEF Later, Phase
  <1>7. Moves(w) /\ worker'[w].pc = pc /\ worker'[w].reserved = worker[w].reserved
        /\ worker'[w].scope = worker[w].scope
    BY <1>1, <1>5, <1>6, PcMoves
  <1>8. QED BY <1>1, <1>2, <1>3, <1>4, <1>5, <1>7, EndsStep

LEMMA BusyStep ==
    ASSUME QuestionInv, NEW w \in Worker, Busy(w)
    PROVE  QuestionInv'
  <1>1. ~At(w, "idle") /\ TypeOK /\ At(w, "busy")
    BY DEF Busy, At, QuestionInv
  <1>2. Still(w) /\ told' = told
    BY <1>1, Base DEF Busy, Still, credits
  <1>3. PICK r \in Request : r = Mine(w)
    BY <1>1, Base
  <1>4. {"settle"} \subseteq Later
    BY DEF Later, Phase
  <1>5. "busy" \in Say
    BY DEF Say
  <1>6. CASE Go(w, "settle")
    <2>1. Moves(w) /\ worker'[w].pc = "settle" /\ worker'[w].reserved = worker[w].reserved
          /\ worker'[w].scope = worker[w].scope
      BY <1>1, <1>4, <1>6, PcMoves DEF Go
    <2>2. CASE marked' = marked
      BY <1>1, <1>2, <1>3, <2>1, <2>2, EndsStep DEF MaySay
    <2>3. CASE r \notin marked /\ marked' = marked \union {r}
      BY <1>1, <1>2, <1>3, <2>1, <2>3, Refused
    <2>4. QED BY <1>3, <2>2, <2>3 DEF Busy
  <1>7. CASE r \notin marked /\ marked' = marked \union {r} /\ Reply(w, "busy", "busy")
    <2>1. Moves(w) /\ worker'[w].pc = "reply" /\ worker'[w].scope = "busy"
      BY <1>1, <1>5, <1>7, ReplyMoves DEF Reply
    <2>2. QED BY <1>1, <1>2, <1>3, <1>7, <2>1, Refused
  <1>8. QED BY <1>3, <1>6, <1>7 DEF Busy

LEMMA GateRejectStep ==
    ASSUME QuestionInv, NEW w \in Worker, GateReject(w)
    PROVE  QuestionInv'
  <1>1. ~At(w, "idle") /\ TypeOK
    BY DEF GateReject, At, QuestionInv
  <1>2. Still(w) /\ told' = told
    BY <1>1, Base DEF GateReject, Still, credits
  <1>3. PICK r \in Request : r = Mine(w)
    BY <1>1, Base
  <1>4. r \notin marked /\ marked' = marked \union {r}
    BY <1>3 DEF GateReject
  <1>5. {"leave"} \subseteq Later /\ "refused" \in Say
    BY DEF Later, Phase, Say
  <1>6. CASE Go(w, "leave")
    <2>1. Moves(w) /\ worker'[w].pc = "leave"
      BY <1>1, <1>5, <1>6, PcMoves DEF Go
    <2>2. QED BY <1>1, <1>2, <1>3, <1>4, <2>1, Refused
  <1>7. CASE Reply(w, "refused", "gate")
    <2>1. Moves(w) /\ worker'[w].pc = "reply" /\ worker'[w].scope = "gate"
      BY <1>1, <1>5, <1>7, ReplyMoves DEF Reply
    <2>2. QED BY <1>1, <1>2, <1>3, <1>4, <2>1, Refused
  <1>8. QED BY <1>6, <1>7 DEF GateReject

-----------------------------------------------------------------------------
(* Entries of the ledger.                                                  *)

FundsStep(r) ==
    /\ account' \in [User -> [balance : Nat, reserved : Nat]]
    /\ reservation' \in [Request -> {"none", "pending", "committed", "released"}]
    /\ charged' \subseteq Request
    /\ released' \subseteq Request
    /\ Solvent'
    /\ \A q \in Request \ {r} : SameFunds(q)

LEMMA NoEntry ==
    ASSUME TypeOK, Solvent, UNCHANGED credits, NEW r \in Request
    PROVE  FundsStep(r) /\ SameFunds(r)
  BY DEF TypeOK, Solvent, credits, FundsStep, SameFunds

\* The amounts of an account after an entry.
LEMMA Amounts ==
    ASSUME TypeOK, Solvent, NEW u \in User, NEW a \in [balance : Nat, reserved : Nat],
           a.reserved <= a.balance, account' = [account EXCEPT ![u] = a]
    PROVE  account' \in [User -> [balance : Nat, reserved : Nat]] /\ Solvent'
  <1>1. account' \in [User -> [balance : Nat, reserved : Nat]]
    BY DEF TypeOK
  <1>2. ASSUME NEW x \in User PROVE account'[x].reserved <= account'[x].balance
    BY <1>2 DEF TypeOK, Solvent
  <1>3. QED BY <1>1, <1>2 DEF Solvent

\* Only the reserved amount changes.
LEMMA ReservedAmount ==
    ASSUME TypeOK, Solvent, NEW u \in User, NEW n \in Nat, n <= account[u].balance,
           account' = [account EXCEPT ![u].reserved = n]
    PROVE  account' \in [User -> [balance : Nat, reserved : Nat]] /\ Solvent'
  <1> DEFINE a == [account[u] EXCEPT !.reserved = n]
  <1>1. account[u] \in [balance : Nat, reserved : Nat]
    BY DEF TypeOK
  <1>2. a \in [balance : Nat, reserved : Nat]
    BY <1>1
  <1>3. a.reserved = n /\ a.balance = account[u].balance
    BY <1>1
  <1>4. account' = [account EXCEPT ![u] = a]
    BY DEF TypeOK
  <1> HIDE DEF a
  <1>5. QED BY <1>2, <1>3, <1>4, Amounts

LEMMA Reserve ==
    ASSUME TypeOK, Solvent, NEW r \in Request, reserve_credits(r), reservation[r] = "none",
           FundsOf(r)
    PROVE  /\ FundsStep(r)
           /\ reservation'[r] = "pending" /\ r \notin charged' /\ r \notin released'
  <1>1. Owner(r) \in User /\ Cost \in Nat
    BY UserAssumption, BoundAssumption DEF Owner
  <1>2. /\ account' = [account EXCEPT ![Owner(r)].reserved = account[Owner(r)].reserved + Cost]
        /\ reservation' = [reservation EXCEPT ![r] = "pending"]
        /\ charged' = charged /\ released' = released
        /\ account[Owner(r)].reserved + Cost <= account[Owner(r)].balance
    BY <1>1 DEF reserve_credits, CanReserve, TypeOK
  <1>3. account[Owner(r)] \in [balance : Nat, reserved : Nat]
    BY <1>1 DEF TypeOK
  <1>4. account[Owner(r)].reserved + Cost \in Nat
    BY <1>1, <1>3
  <1>5. account' \in [User -> [balance : Nat, reserved : Nat]] /\ Solvent'
    BY <1>1, <1>2, <1>4, ReservedAmount
  <1>6. QED BY <1>2, <1>5 DEF FundsStep, SameFunds, TypeOK, FundsOf

LEMMA Charge ==
    ASSUME TypeOK, Solvent, NEW r \in Request, commit_credit_reservation(r),
           reservation[r] = "pending", FundsOf(r)
    PROVE  /\ FundsStep(r)
           /\ reservation'[r] = "committed" /\ r \in charged' /\ r \notin released'
  <1>1. Owner(r) \in User /\ Cost \in Nat
    BY UserAssumption, BoundAssumption DEF Owner
  <1>2. r \notin charged /\ r \notin released
    BY DEF FundsOf
  <1>3. /\ account' = [account EXCEPT ![Owner(r)] =
                         [balance |-> account[Owner(r)].balance - Cost,
                          reserved |-> account[Owner(r)].reserved - Cost]]
        /\ reservation' = [reservation EXCEPT ![r] = "committed"]
        /\ charged' = charged \union {r} /\ released' = released
        /\ account[Owner(r)].reserved >= Cost
    BY <1>1, <1>2 DEF commit_credit_reservation, CanCharge, TypeOK
  <1>4. account[Owner(r)] \in [balance : Nat, reserved : Nat]
        /\ account[Owner(r)].reserved <= account[Owner(r)].balance
    BY <1>1 DEF TypeOK, Solvent
  <1>5. account' \in [User -> [balance : Nat, reserved : Nat]] /\ Solvent'
    <2> DEFINE a == [balance |-> account[Owner(r)].balance - Cost,
                     reserved |-> account[Owner(r)].reserved - Cost]
    <2>1. a \in [balance : Nat, reserved : Nat] /\ a.reserved <= a.balance
      BY <1>1, <1>3, <1>4
    <2>2. account' = [account EXCEPT ![Owner(r)] = a]
      BY <1>3
    <2> HIDE DEF a
    <2>3. QED BY <1>1, <2>1, <2>2, Amounts
  <1>6. QED BY <1>2, <1>3, <1>5 DEF FundsStep, SameFunds, TypeOK

LEMMA Release ==
    ASSUME TypeOK, Solvent, NEW r \in Request, release_credit_reservation(r),
           reservation[r] = "pending", FundsOf(r)
    PROVE  /\ FundsStep(r)
           /\ \/ SameFunds(r)
              \/ reservation'[r] = "released" /\ r \notin charged' /\ r \in released'
  <1>1. Owner(r) \in User /\ Cost \in Nat
    BY UserAssumption, BoundAssumption DEF Owner
  <1>2. r \notin charged /\ r \notin released
    BY DEF FundsOf
  <1>3. CASE UNCHANGED credits
    BY <1>3, NoEntry
  <1>4. CASE ~(account[Owner(r)].reserved < Cost)
    <2>1. /\ account' = [account EXCEPT ![Owner(r)].reserved = account[Owner(r)].reserved - Cost]
          /\ reservation' = [reservation EXCEPT ![r] = "released"]
          /\ charged' = charged /\ released' = released \union {r}
      BY <1>1, <1>2, <1>4 DEF release_credit_reservation, TypeOK
    <2>2. account[Owner(r)] \in [balance : Nat, reserved : Nat]
          /\ account[Owner(r)].reserved <= account[Owner(r)].balance
      BY <1>1 DEF TypeOK, Solvent
    <2>3. account[Owner(r)].reserved - Cost \in Nat
          /\ account[Owner(r)].reserved - Cost <= account[Owner(r)].balance
      BY <1>1, <1>4, <2>2
    <2>4. account' \in [User -> [balance : Nat, reserved : Nat]] /\ Solvent'
      BY <1>1, <2>1, <2>3, ReservedAmount
    <2>5. QED BY <1>2, <2>1, <2>4 DEF FundsStep, SameFunds, TypeOK
  <1>5. QED BY <1>3, <1>4 DEF release_credit_reservation

LEMMA ReleasePending ==
    ASSUME TypeOK, Solvent, NEW r \in Request, ReleaseIfPending(r), FundsOf(r)
    PROVE  /\ FundsStep(r)
           /\ \/ SameFunds(r)
              \/ /\ reservation[r] = "pending" /\ reservation'[r] = "released"
                 /\ r \notin charged' /\ r \in released'
  BY Release, NoEntry DEF ReleaseIfPending

-----------------------------------------------------------------------------
(* Steps that change the rows of a question.                               *)

\* A step of the task that attends to r.
RowStep(w, r) ==
    /\ Attends(w, r) /\ Moves(w)
    /\ question' \in [Request -> QuestionRow] /\ answers' \in [Request -> Nat]
    /\ \A q \in Request \ {r} : question'[q] = question[q] /\ answers'[q] = answers[q]
    /\ FundsStep(r)
    /\ UNCHANGED <<job, lease, told, faults>>
    /\ marked' \in {marked, marked \union {r}} /\ r \in marked'

LEMMA RowFrame ==
    ASSUME QuestionInv, NEW w \in Worker, NEW r \in Request, r = Mine(w), RowStep(w, r)
    PROVE  Frame(w, r)
  <1>1. TypeOK /\ Holds(w)
    BY DEF QuestionInv, RowStep, Attends
  <1>2. RowTypes' /\ Solvent'
    BY <1>1 DEF RowStep, RowTypes, FundsStep, TypeOK
  <1>3. \A q \in Request \ {r} : SameRow(q) /\ told'[q] = told[q]
    BY DEF RowStep, SameRow, FundsStep
  <1>4. QED BY <1>1, <1>2, <1>3 DEF RowStep, Frame, TypeOK

LEMMA Goes ==
    ASSUME QuestionInv, NEW w \in Worker, NEW r \in Request, r = Mine(w), RowStep(w, r),
           PhaseOf(w, r)', FundsOf(r)',
           answers'[r] = IF question'[r].status = "answered" THEN 1 ELSE 0,
           question'[r].delivery # "none" => question'[r].status = "processing",
           worker'[w].pc # "reply", ~Excused(r)
    PROVE  QuestionInv'
  <1>1. TypeOK /\ ~At(w, "idle") /\ Frame(w, r)
    BY RowFrame DEF QuestionInv, RowStep, Attends
  <1>2. ~Excused(r)'
    BY <1>1, ExcuseBack DEF RowStep
  <1>3. RowOf(r)'
    BY <1>2 DEF RowOf, RowStep
  <1>4. QED BY <1>1, <1>3, Elsewhere DEF Here

LEMMA Excuses ==
    ASSUME QuestionInv, NEW w \in Worker, NEW r \in Request, r = Mine(w), RowStep(w, r),
           PhaseOf(w, r)', FundsOf(r)',
           answers'[r] = 0, question'[r].status # "answered", question'[r].delivery = "none",
           worker'[w].pc \notin Asking \union {"resume"}
    PROVE  QuestionInv'
  <1>1. TypeOK /\ TicketInv /\ ~At(w, "idle") /\ Frame(w, r)
    BY RowFrame DEF QuestionInv, RowStep, Attends
  <1>2. ExcuseOf(r)'
    BY <1>1, ExcuseHere DEF RowStep
  <1>3. RowOf(r)'
    BY <1>2 DEF RowOf, RowStep
  <1>4. QED BY <1>1, <1>3, Elsewhere DEF Here

\* What the task that attends to a question knows of it.
LEMMA Asks ==
    ASSUME QuestionInv, NEW w \in Worker, Holds(w),
           worker[w].pc \in Asking \union {"resume", "recover"},
           NEW r \in Request, r = Mine(w)
    PROVE  /\ TypeOK /\ Solvent /\ ~At(w, "idle") /\ Attends(w, r) /\ PhaseOf(w, r) /\ FundsOf(r)
           /\ r \in marked /\ question[r].status \in Open /\ r \notin charged
           /\ answers[r] = 0
           /\ worker[w].pc # "recover" => ~Excused(r)
           /\ worker[w] \in Task /\ question[r] \in QuestionRow
  <1>1. ~At(w, "idle")
    BY DEF At, Asking
  <1>2. TypeOK /\ Solvent /\ Attends(w, r) /\ PhaseOf(w, r) /\ RowOf(r) /\ worker[w] \in Task
    BY <1>1, Base DEF QuestionInv
  <1>3. r \in marked /\ question[r].status \in Open
    BY <1>2 DEF PhaseOf
  <1>4. answers[r] = 0 /\ r \notin charged /\ FundsOf(r)
    BY <1>2, <1>3 DEF RowOf, FundsOf, Open
  <1>5. worker[w].pc # "recover" => ~Excused(r)
    BY <1>2, NotExcused
  <1>6. QED BY <1>1, <1>2, <1>3, <1>4, <1>5 DEF TypeOK

LEMMA GateAcceptStep ==
    ASSUME QuestionInv, NEW w \in Worker, GateAccept(w)
    PROVE  QuestionInv'
  <1>1. ~At(w, "idle") /\ Holds(w)
    BY DEF GateAccept, At
  <1>2. PICK r \in Request : r = Mine(w)
    BY <1>1, Base
  <1>3. TypeOK /\ Solvent /\ Attends(w, r) /\ RowOf(r) /\ r \notin marked
    BY <1>1, <1>2, Base DEF QuestionInv, GateAccept
  <1>4. Moves(w) /\ worker'[w].pc = "received" /\ worker'[w].reserved = worker[w].reserved
    <2>1. "received" \in Later
      BY DEF Later, Phase, Asking
    <2>2. QED BY <1>1, <1>3, <2>1, PcMoves DEF GateAccept, Go
  <1>5. worker[w].reserved = FALSE
    BY DEF QuestionInv, LocalInv, GateAccept, At
  <1>6. /\ question' = [question EXCEPT ![r] = [status |-> "pending", delivery |-> "none"]]
        /\ UNCHANGED <<job, lease, credits, answers, told, faults>>
        /\ marked' = marked \union {r} /\ Untouched(r)
    BY <1>2, <1>3 DEF GateAccept, RowOf
  <1>7. FundsStep(r) /\ SameFunds(r)
    BY <1>3, <1>6, NoEntry
  <1>8. [status |-> "pending", delivery |-> "none"] \in QuestionRow
    BY DEF QuestionRow, Open
  <1>9. RowStep(w, r) /\ question'[r].status = "pending" /\ question'[r].delivery = "none"
    BY <1>3, <1>4, <1>6, <1>7, <1>8 DEF RowStep, TypeOK
  <1>10. PhaseOf(w, r)'
    BY <1>4, <1>5, <1>6, <1>7, <1>9
       DEF PhaseOf, Undrafted, Undecided, TakenUp, Owing, Asking, At, Open, SameFunds, Untouched
  <1>11. FundsOf(r)'
    BY <1>3, <1>7, <1>9 DEF FundsOf, SameFunds, RowOf, Untouched
  <1>12. ~Excused(r)
    BY <1>3 DEF RowOf, ExcuseOf
  <1>13. answers'[r] = 0
    BY <1>6 DEF Untouched
  <1>14. QED BY <1>2, <1>4, <1>9, <1>10, <1>11, <1>12, <1>13, Goes

\* The question gets row, nothing is booked.
LEMMA NewRow ==
    ASSUME QuestionInv, NEW w \in Worker, NEW r \in Request, r = Mine(w), Attends(w, r),
           r \in marked, Moves(w), NEW row \in QuestionRow,
           question' = [question EXCEPT ![r] = row],
           answers' = answers, FundsStep(r), UNCHANGED <<job, marked, lease, told, faults>>
    PROVE  RowStep(w, r) /\ question'[r] = row
  BY DEF RowStep, QuestionInv, TypeOK

\* The question changes its status and keeps its checkpoint.
LEMMA NewStatus ==
    ASSUME QuestionInv, NEW w \in Worker, NEW r \in Request, r = Mine(w), Attends(w, r),
           r \in marked, Moves(w), NEW status \in Open \union Final,
           question' = [question EXCEPT ![r].status = status],
           answers' = answers, FundsStep(r), UNCHANGED <<job, marked, lease, told, faults>>
    PROVE  /\ RowStep(w, r)
           /\ question'[r].status = status /\ question'[r].delivery = question[r].delivery
  <1> DEFINE row == [question[r] EXCEPT !.status = status]
  <1>1. question[r] \in QuestionRow
    BY DEF QuestionInv, TypeOK
  <1>2. row \in QuestionRow /\ row.status = status /\ row.delivery = question[r].delivery
    BY <1>1 DEF QuestionRow
  <1>3. question' = [question EXCEPT ![r] = row]
    BY DEF QuestionInv, TypeOK
  <1> HIDE DEF row
  <1>4. QED BY <1>2, <1>3, NewRow

LEMMA NewDelivery ==
    ASSUME QuestionInv, NEW w \in Worker, NEW r \in Request, r = Mine(w), Attends(w, r),
           r \in marked, Moves(w), NEW delivery \in {"none", "free", "paid"},
           question' = [question EXCEPT ![r].delivery = delivery],
           answers' = answers, FundsStep(r), UNCHANGED <<job, marked, lease, told, faults>>
    PROVE  /\ RowStep(w, r)
           /\ question'[r].status = question[r].status /\ question'[r].delivery = delivery
  <1> DEFINE row == [question[r] EXCEPT !.delivery = delivery]
  <1>1. question[r] \in QuestionRow
    BY DEF QuestionInv, TypeOK
  <1>2. row \in QuestionRow /\ row.status = question[r].status /\ row.delivery = delivery
    BY <1>1 DEF QuestionRow
  <1>3. question' = [question EXCEPT ![r] = row]
    BY DEF QuestionInv, TypeOK
  <1> HIDE DEF row
  <1>4. QED BY <1>2, <1>3, NewRow

\* A question in processing: a cached answer, or an accepted topic.
LEMMA ProcessingStep ==
    ASSUME QuestionInv, NEW w \in Worker, CacheHit(w) \/ AcceptTopic(w)
    PROVE  QuestionInv'
  <1>1. Holds(w) /\ worker[w].pc \in Asking /\ Undrafted(w)
    BY DEF CacheHit, AcceptTopic, At, Asking, Undrafted
  <1>2. ~At(w, "idle")
    BY <1>1 DEF At, Asking
  <1>3. PICK r \in Request : r = Mine(w)
    BY <1>2, Base
  <1>4. /\ TypeOK /\ Solvent /\ Attends(w, r) /\ PhaseOf(w, r) /\ FundsOf(r)
        /\ r \in marked /\ r \notin charged /\ answers[r] = 0 /\ ~Excused(r)
    BY <1>1, <1>3, Asks DEF Asking
  <1>5. PICK pc \in {"serve", "accepted"} : worker' = [worker EXCEPT ![w].pc = pc]
    BY DEF CacheHit, AcceptTopic, Go
  <1>6. pc \in Later
    BY DEF Later, Phase, Asking
  <1>7. Moves(w) /\ worker'[w].pc = pc /\ worker'[w].reserved = worker[w].reserved
    BY <1>2, <1>4, <1>5, <1>6, PcMoves
  <1>8. /\ question' = [question EXCEPT ![r].status = "processing"] /\ answers' = answers
        /\ UNCHANGED credits /\ UNCHANGED <<job, marked, lease, told, faults>>
    BY <1>3 DEF CacheHit, AcceptTopic
  <1>9. FundsStep(r) /\ SameFunds(r)
    BY <1>4, <1>8, NoEntry
  <1>10. RowStep(w, r) /\ question'[r].status = "processing" /\ question'[r].delivery = "none"
    <2>1. "processing" \in Open \union Final
      BY DEF Open
    <2>2. QED BY <1>1, <1>3, <1>4, <1>7, <1>8, <1>9, <2>1, NewStatus DEF PhaseOf
  <1>11. PhaseOf(w, r)'
    BY <1>1, <1>4, <1>7, <1>8, <1>9, <1>10
       DEF PhaseOf, Undrafted, Undecided, TakenUp, Owing, Asking, At, Open, SameFunds
  <1>12. FundsOf(r)'
    BY <1>4, <1>9, <1>10 DEF FundsOf, SameFunds
  <1>13. QED BY <1>3, <1>4, <1>7, <1>8, <1>10, <1>11, <1>12, Goes

\* A question that is refused or failed, with a reply.
LEMMA DeclineStep ==
    ASSUME QuestionInv, NEW w \in Worker, FailClosed(w) \/ RejectTopic(w)
    PROVE  QuestionInv'
  <1>1. Holds(w) /\ worker[w].pc = "judged" /\ worker[w].pc \in Asking
    BY DEF FailClosed, RejectTopic, At, Asking
  <1>2. ~At(w, "idle")
    BY <1>1 DEF At
  <1>3. PICK r \in Request : r = Mine(w)
    BY <1>2, Base
  <1>4. /\ TypeOK /\ Solvent /\ Attends(w, r) /\ PhaseOf(w, r) /\ FundsOf(r)
        /\ r \in marked /\ r \notin charged /\ answers[r] = 0
    BY <1>1, <1>3, Asks
  <1>5. PICK say \in {"error", "offtopic"} : Reply(w, say, "question")
    BY DEF FailClosed, RejectTopic
  <1>6. Moves(w) /\ worker'[w].pc = "reply" /\ worker'[w].reserved = worker[w].reserved
    <2>1. say \in Say /\ "question" \in {"busy", "gate", "question", "handler"}
      BY DEF Say
    <2>2. worker' = [worker EXCEPT ![w].pc = "reply", ![w].say = say, ![w].scope = "question"]
      BY <1>5 DEF Reply
    <2>3. QED BY <1>2, <1>4, <2>1, <2>2, ReplyMoves
  <1>7. answers' = answers /\ UNCHANGED credits /\ UNCHANGED <<job, marked, lease, told, faults>>
    BY DEF FailClosed, RejectTopic
  <1>8. FundsStep(r) /\ SameFunds(r)
    BY <1>4, <1>7, NoEntry
  <1>9. /\ RowStep(w, r)
        /\ question'[r].status \in {"failed", "rejected"} /\ question'[r].delivery = "none"
    <2>1. CASE FailClosed(w)
      <3>1. PICK row \in QuestionRow :
              /\ row.status = "failed" /\ row.delivery = "none"
              /\ question' = [question EXCEPT ![r] = row]
        BY <1>3, <2>1 DEF FailClosed, QuestionRow, Final
      <3>2. QED BY <1>3, <1>4, <1>6, <1>7, <1>8, <3>1, NewRow
    <2>2. CASE RejectTopic(w)
      <3>1. "rejected" \in Open \union Final
        BY DEF Final
      <3>2. question' = [question EXCEPT ![r].status = "rejected"]
        BY <1>3, <2>2 DEF RejectTopic
      <3>3. question[r].delivery = "none"
        BY <1>4, <2>2 DEF PhaseOf, Undrafted, RejectTopic, At
      <3>4. QED BY <1>3, <1>4, <1>6, <1>7, <1>8, <3>1, <3>2, <3>3, NewStatus
    <2>3. QED BY <2>1, <2>2
  <1>10. PhaseOf(w, r)'
    BY <1>1, <1>4, <1>6, <1>8, <1>9 DEF PhaseOf, Undrafted, Undecided, TakenUp, Owing, Asking, At, SameFunds
  <1>11. FundsOf(r)'
    BY <1>4, <1>8, <1>9 DEF FundsOf, SameFunds
  <1>12. worker'[w].pc \notin Asking \union {"resume"}
    BY <1>6 DEF Asking
  <1>13. QED BY <1>3, <1>4, <1>7, <1>9, <1>10, <1>11, <1>12, Excuses

\* After the checkpoint the question can be resumed, on the terms of its reservation.
LEMMA CheckpointStep ==
    ASSUME QuestionInv, NEW w \in Worker, Checkpoint(w)
    PROVE  QuestionInv'
  <1>1. Holds(w) /\ worker[w].pc = "accepted" /\ worker[w].pc \in Asking
    BY DEF Checkpoint, At, Asking
  <1>2. ~At(w, "idle")
    BY <1>1 DEF At
  <1>3. PICK r \in Request : r = Mine(w)
    BY <1>2, Base
  <1>4. /\ TypeOK /\ Solvent /\ Attends(w, r) /\ PhaseOf(w, r) /\ FundsOf(r) /\ ~Excused(r)
        /\ r \in marked /\ r \notin charged /\ answers[r] = 0 /\ question[r].status \in Open
    BY <1>1, <1>3, Asks
  <1>5. "generate" \in Later
    BY DEF Later, Phase, Asking
  <1>6. Moves(w) /\ worker'[w].pc = "generate" /\ worker'[w].reserved = worker[w].reserved
    BY <1>2, <1>4, <1>5, PcMoves DEF Checkpoint, Go
  <1>7. PICK delivery \in {"none", "free", "paid"} :
          /\ delivery = IF worker[w].reserved THEN "paid" ELSE "free"
          /\ question' = [question EXCEPT ![r].delivery = delivery]
    BY <1>3 DEF Checkpoint
  <1>8. answers' = answers /\ UNCHANGED credits /\ UNCHANGED <<job, marked, lease, told, faults>>
    BY DEF Checkpoint
  <1>9. FundsStep(r) /\ SameFunds(r)
    BY <1>4, <1>8, NoEntry
  <1>10. /\ RowStep(w, r)
         /\ question'[r].status = question[r].status /\ question'[r].delivery = delivery
    BY <1>3, <1>4, <1>6, <1>7, <1>8, <1>9, NewDelivery
  <1>11. PhaseOf(w, r)'
    BY <1>1, <1>4, <1>6, <1>7, <1>8, <1>9, <1>10
       DEF PhaseOf, Undrafted, Undecided, TakenUp, Owing, Asking, At, SameFunds
  <1>12. FundsOf(r)'
    BY <1>1, <1>4, <1>7, <1>9, <1>10 DEF FundsOf, SameFunds, PhaseOf
  <1>13. question'[r].status # "answered"
    BY <1>4, <1>10 DEF Open
  <1>14. question[r].status = "processing"
    BY <1>1, <1>4 DEF PhaseOf, TakenUp
  <1>15. QED BY <1>3, <1>4, <1>6, <1>8, <1>10, <1>11, <1>12, <1>13, <1>14, Goes

LEMMA FilteredStep ==
    ASSUME QuestionInv, NEW w \in Worker, Filtered(w)
    PROVE  QuestionInv'
  <1>1. Holds(w) /\ worker[w].pc = "filter" /\ worker[w].pc \in Asking
    BY DEF Filtered, At, Asking
  <1>2. ~At(w, "idle") /\ "judged" \in Later
    BY <1>1 DEF At, Later, Phase, Asking
  <1>3. PICK r \in Request : r = Mine(w)
    BY <1>2, Base
  <1>4. TypeOK /\ PhaseOf(w, r)
    BY <1>1, <1>3, Asks
  <1>5. PICK verdict \in {"open", "allowed", "refused", "none"} :
          worker' = [worker EXCEPT ![w].pc = "judged", ![w].verdict = verdict]
    BY DEF Filtered
  <1>6. Moves(w) /\ worker'[w].pc = "judged" /\ worker'[w].reserved = worker[w].reserved
    BY <1>2, <1>4, <1>5, VerdictMoves
  <1>7. Still(w) /\ told' = told /\ marked' = marked
    BY <1>2, Base DEF Filtered, Still, credits
  <1>8. PhaseOf(w, r)'
    BY <1>1, <1>4, <1>6, <1>7 DEF PhaseOf, Undrafted, Undecided, TakenUp, Owing, Asking, At, Still, credits
  <1>9. QED BY <1>1, <1>2, <1>3, <1>6, <1>7, <1>8, Local DEF MaySay

\* The reservation of a question, or the end of it for lack of credits.
LEMMA ReserveThenStep ==
    ASSUME QuestionInv, NEW w \in Worker, Holds(w), worker[w].pc \in {"received", "cache"},
           NEW pc \in {"classify", "filter", "judged"},
           ReserveThen(w, pc), UNCHANGED <<job, marked, lease, question, answers, told, faults>>
    PROVE  QuestionInv'
  <1>1. worker[w].pc \in Asking /\ ~At(w, "idle") /\ Undrafted(w)
    BY DEF Asking, At, Undrafted
  <1>2. PICK r \in Request : r = Mine(w)
    BY <1>1, Base
  <1>3. /\ TypeOK /\ Solvent /\ Attends(w, r) /\ PhaseOf(w, r) /\ FundsOf(r) /\ ~Excused(r)
        /\ r \in marked /\ r \notin charged /\ answers[r] = 0 /\ question[r].status \in Open
    BY <1>1, <1>2, Asks DEF Asking
  <1>4. reservation[r] \in {"none", "pending"} /\ question[r].delivery = "none"
    BY <1>1, <1>3 DEF PhaseOf
  <1>5. pc \in Later /\ pc \in Asking
    BY DEF Later, Phase, Asking
  <1>6. CASE /\ reserve_credits(Mine(w))
             /\ worker' = [worker EXCEPT ![w].pc = pc, ![w].reserved = TRUE]
    <2>1. Moves(w) /\ worker'[w].pc = pc /\ worker'[w].reserved = TRUE
          /\ worker'[w].verdict = worker[w].verdict
      BY <1>1, <1>3, <1>5, <1>6, ReservedMoves
    <2>2. FundsStep(r) /\ reservation'[r] = "pending" /\ r \notin charged' /\ r \notin released'
      <3>1. CASE reservation[r] = "none"
        BY <1>2, <1>3, <1>6, <3>1, Reserve
      <3>2. CASE reservation[r] = "pending"
        <4>1. UNCHANGED credits
          BY <1>2, <1>6, <3>2 DEF reserve_credits
        <4>2. QED BY <1>3, <3>2, <4>1, NoEntry DEF SameFunds, FundsOf
      <3>3. QED BY <1>4, <3>1, <3>2
    <2>3. RowStep(w, r)
      BY <1>3, <2>1, <2>2 DEF RowStep, TypeOK
    <2>4. PhaseOf(w, r)'
      BY <1>3, <1>4, <1>5, <2>1, <2>2 DEF PhaseOf, Undrafted, Undecided, TakenUp, Owing, Asking, At
    <2>5. FundsOf(r)'
      BY <1>4, <2>2 DEF FundsOf
    <2>6. worker'[w].pc # "reply" /\ question'[r].status # "answered"
      BY <1>3, <2>1 DEF Open
    <2>7. question'[r].delivery = "none"
      BY <1>4
    <2>8. QED BY <1>2, <1>3, <2>3, <2>4, <2>5, <2>6, <2>7, Goes
  <1>7. CASE Reply(w, "broke", "question") /\ UNCHANGED credits
    <2>1. Moves(w) /\ worker'[w].pc = "reply" /\ worker'[w].reserved = worker[w].reserved
      <3>1. "broke" \in Say /\ "question" \in {"busy", "gate", "question", "handler"}
        BY DEF Say
      <3>2. worker' = [worker EXCEPT ![w].pc = "reply", ![w].say = "broke", ![w].scope = "question"]
        BY <1>7 DEF Reply
      <3>3. QED BY <1>1, <1>3, <3>1, <3>2, ReplyMoves
    <2>2. FundsStep(r) /\ SameFunds(r)
      BY <1>3, <1>7, NoEntry
    <2>3. RowStep(w, r)
      BY <1>3, <2>1, <2>2 DEF RowStep, TypeOK
    <2>4. PhaseOf(w, r)'
      BY <1>1, <1>3, <1>4, <2>1, <2>2 DEF PhaseOf, Undrafted, Undecided, TakenUp, Owing, Asking, At, SameFunds
    <2>5. FundsOf(r)'
      BY <1>3, <2>2 DEF FundsOf, SameFunds
    <2>6. worker'[w].pc \notin Asking \union {"resume"} /\ question'[r].status # "answered"
      BY <1>3, <2>1 DEF Open, Asking
    <2>7. QED BY <1>2, <1>3, <1>4, <2>3, <2>4, <2>5, <2>6, Excuses
  <1>8. QED BY <1>6, <1>7 DEF ReserveThen

\* On to the next phase, without a reservation to be made.
LEMMA PassStep ==
    ASSUME QuestionInv, NEW w \in Worker, Holds(w), worker[w].pc \in {"received", "cache"},
           NEW pc \in {"classify", "filter", "judged"}, Go(w, pc),
           UNCHANGED <<job, marked, lease, question, credits, answers, told, faults>>
    PROVE  QuestionInv'
  <1>1. worker[w].pc \in Asking /\ ~At(w, "idle") /\ Undrafted(w) /\ pc \in Later /\ pc \in Asking
    BY DEF Asking, At, Undrafted, Later, Phase
  <1>2. PICK r \in Request : r = Mine(w)
    BY <1>1, Base
  <1>3. TypeOK /\ PhaseOf(w, r)
    BY <1>1, <1>2, Asks DEF Asking
  <1>4. Moves(w) /\ worker'[w].pc = pc /\ worker'[w].reserved = worker[w].reserved
    BY <1>1, <1>3, PcMoves DEF Go
  <1>5. Still(w) /\ told' = told /\ marked' = marked
    BY <1>1, Base DEF Still, credits
  <1>6. PhaseOf(w, r)'
    BY <1>1, <1>3, <1>4, <1>5 DEF PhaseOf, Undrafted, Undecided, TakenUp, Owing, Asking, At, Still, credits
  <1>7. QED BY <1>1, <1>2, <1>4, <1>5, <1>6, Local DEF MaySay

LEMMA ClassifyParallelStep ==
    ASSUME QuestionInv, NEW w \in Worker, ClassifyParallel(w)
    PROVE  QuestionInv'
  <1>1. Holds(w) /\ worker[w].pc = "received"
    BY DEF ClassifyParallel, At
  <1>2. CASE Go(w, "classify") /\ UNCHANGED credits
    BY <1>1, <1>2, PassStep DEF ClassifyParallel
  <1>3. CASE ReserveThen(w, "classify")
    BY <1>1, <1>3, ReserveThenStep DEF ClassifyParallel
  <1>4. QED BY <1>2, <1>3 DEF ClassifyParallel

LEMMA CacheMissStep ==
    ASSUME QuestionInv, NEW w \in Worker, CacheMiss(w)
    PROVE  QuestionInv'
  <1>1. Holds(w) /\ worker[w].pc = "cache"
    BY DEF CacheMiss, At
  <1>2. PICK pc \in {"classify", "filter", "judged"} :
          \/ Go(w, pc) /\ UNCHANGED credits
          \/ ReserveThen(w, pc)
    BY DEF CacheMiss
  <1>3. UNCHANGED <<job, marked, lease, question, answers, told, faults>>
    BY DEF CacheMiss
  <1>4. CASE Go(w, pc) /\ UNCHANGED credits
    BY <1>1, <1>3, <1>4, PassStep
  <1>5. CASE ReserveThen(w, pc)
    BY <1>1, <1>3, <1>5, ReserveThenStep
  <1>6. QED BY <1>2, <1>4, <1>5

-----------------------------------------------------------------------------
(* Answers, and the end of a question.                                     *)

\* The row of an answered question.
LEMMA AnsweredRow ==
    ASSUME QuestionInv, NEW w \in Worker, NEW r \in Request, r = Mine(w), Attends(w, r),
           r \in marked, Moves(w), worker'[w].pc \in {"finally", "leave"},
           worker'[w].pc = "finally" /\ worker'[w].reserved => reservation'[r] = "pending",
           answers[r] = 0, ~Excused(r),
           question' = [question EXCEPT ![r] = [status |-> "answered", delivery |-> "none"]],
           answers' = [answers EXCEPT ![r] = @ + 1],
           FundsStep(r), FundsOf(r)', UNCHANGED <<job, marked, lease, told, faults>>
    PROVE  QuestionInv'
  <1>1. [status |-> "answered", delivery |-> "none"] \in QuestionRow
    BY DEF QuestionRow, Final
  <1>2. question'[r].status = "answered" /\ question'[r].delivery = "none"
        /\ question' \in [Request -> QuestionRow]
        /\ \A q \in Request \ {r} : question'[q] = question[q]
    BY <1>1 DEF QuestionInv, TypeOK
  <1>3. answers'[r] = 1 /\ answers' \in [Request -> Nat]
        /\ \A q \in Request \ {r} : answers'[q] = answers[q]
    BY DEF QuestionInv, TypeOK
  <1>4. RowStep(w, r)
    BY <1>2, <1>3 DEF RowStep
  <1>5. PhaseOf(w, r)'
    BY <1>2 DEF PhaseOf, Undrafted, Undecided, TakenUp, Owing, Asking, At
  <1>6. QED BY <1>2, <1>3, <1>4, <1>5, Goes

LEMMA ServeCachedStep ==
    ASSUME QuestionInv, NEW w \in Worker, ServeCached(w)
    PROVE  QuestionInv'
  <1>1. Holds(w) /\ worker[w].pc = "serve" /\ worker[w].pc \in Asking
    BY DEF ServeCached, At, Asking
  <1>2. ~At(w, "idle") /\ "finally" \in Later
    BY <1>1 DEF At, Later, Phase
  <1>3. PICK r \in Request : r = Mine(w)
    BY <1>2, Base
  <1>4. /\ TypeOK /\ Solvent /\ Attends(w, r) /\ PhaseOf(w, r) /\ FundsOf(r) /\ ~Excused(r)
        /\ r \in marked /\ r \notin charged /\ answers[r] = 0
    BY <1>1, <1>3, Asks
  <1>5. Moves(w) /\ worker'[w].pc = "finally" /\ worker'[w].reserved = worker[w].reserved
    BY <1>2, <1>4, PcMoves DEF ServeCached, Go
  <1>6. FundsStep(r) /\ SameFunds(r)
    BY <1>4, NoEntry DEF ServeCached
  <1>7. worker[w].reserved => reservation'[r] = "pending"
    BY <1>1, <1>4, <1>6 DEF PhaseOf, SameFunds
  <1>8. question' = [question EXCEPT ![r] = [status |-> "answered", delivery |-> "none"]]
        /\ answers' = [answers EXCEPT ![r] = @ + 1]
        /\ UNCHANGED <<job, marked, lease, told, faults>>
    BY <1>3 DEF ServeCached
  <1>9. FundsOf(r)'
    BY <1>4, <1>6, <1>8 DEF FundsOf, SameFunds, TypeOK
  <1>10. QED BY <1>3, <1>4, <1>5, <1>6, <1>7, <1>8, <1>9, AnsweredRow

\* An answer is charged for out of its reservation, or is free.
LEMMA Stored ==
    ASSUME TypeOK, Solvent, NEW r \in Request, NEW paid \in BOOLEAN, FundsOf(r), r \notin charged,
           paid => reservation[r] = "pending", StoreAnswer(r, paid)
    PROVE  FundsStep(r) /\ FundsOf(r)'
  <1>1. question'[r].status = "answered" /\ question'[r].delivery = "none"
    BY DEF StoreAnswer, TypeOK
  <1>2. CASE paid
    <2>1. FundsStep(r) /\ reservation'[r] = "committed" /\ r \in charged' /\ r \notin released'
      BY <1>2, Charge DEF StoreAnswer
    <2>2. QED BY <1>1, <2>1 DEF FundsOf
  <1>3. CASE ~paid
    <2>1. FundsStep(r) /\ SameFunds(r)
      BY <1>3, NoEntry DEF StoreAnswer
    <2>2. QED BY <1>1, <2>1 DEF FundsOf, SameFunds
  <1>4. QED BY <1>2, <1>3

LEMMA PersistAnswerStep ==
    ASSUME QuestionInv, NEW w \in Worker, PersistAnswer(w)
    PROVE  QuestionInv'
  <1>1. Holds(w) /\ worker[w].pc = "persist" /\ worker[w].pc \in Asking
    BY DEF PersistAnswer, At, Asking
  <1>2. ~At(w, "idle") /\ "finally" \in Later
    BY <1>1 DEF At, Later, Phase
  <1>3. PICK r \in Request : r = Mine(w)
    BY <1>2, Base
  <1>4. /\ TypeOK /\ Solvent /\ Attends(w, r) /\ PhaseOf(w, r) /\ FundsOf(r) /\ ~Excused(r)
        /\ r \in marked /\ r \notin charged /\ answers[r] = 0 /\ worker[w] \in Task
    BY <1>1, <1>3, Asks
  <1>5. Moves(w) /\ worker'[w].pc = "finally" /\ worker'[w].reserved = FALSE
    BY <1>2, <1>4, ReservedMoves DEF PersistAnswer
  <1>6. StoreAnswer(r, worker[w].reserved) /\ UNCHANGED <<job, marked, lease, told, faults>>
    BY <1>3 DEF PersistAnswer
  <1>7. worker[w].reserved \in BOOLEAN /\ (worker[w].reserved => reservation[r] = "pending")
    BY <1>1, <1>4 DEF PhaseOf, Task
  <1>8. FundsStep(r) /\ FundsOf(r)'
    BY <1>4, <1>6, <1>7, Stored
  <1>9. question' = [question EXCEPT ![r] = [status |-> "answered", delivery |-> "none"]]
        /\ answers' = [answers EXCEPT ![r] = @ + 1]
    BY <1>6 DEF StoreAnswer
  <1>10. QED BY <1>3, <1>4, <1>5, <1>6, <1>8, <1>9, AnsweredRow

LEMMA ResumeAnswerStep ==
    ASSUME QuestionInv, NEW w \in Worker, ResumeAnswer(w)
    PROVE  QuestionInv'
  <1>1. Holds(w) /\ worker[w].pc = "resume"
    BY DEF ResumeAnswer, At
  <1>2. ~At(w, "idle") /\ "leave" \in Later
    BY <1>1 DEF At, Later, Phase
  <1>3. PICK r \in Request : r = Mine(w)
    BY <1>2, Base
  <1>4. /\ TypeOK /\ Solvent /\ Attends(w, r) /\ FundsOf(r) /\ ~Excused(r)
        /\ r \in marked /\ r \notin charged /\ answers[r] = 0
    BY <1>1, <1>3, Asks
  <1>5. Moves(w) /\ worker'[w].pc = "leave"
    BY <1>2, <1>4, PcMoves DEF ResumeAnswer, Go
  <1>6. StoreAnswer(r, question[r].delivery = "paid")
        /\ UNCHANGED <<job, marked, lease, told, faults>>
    BY <1>3 DEF ResumeAnswer
  <1>7. (question[r].delivery = "paid") \in BOOLEAN
        /\ (question[r].delivery = "paid" => reservation[r] = "pending")
    BY <1>4 DEF FundsOf
  <1>8. FundsStep(r) /\ FundsOf(r)'
    BY <1>4, <1>6, <1>7, Stored
  <1>9. question' = [question EXCEPT ![r] = [status |-> "answered", delivery |-> "none"]]
        /\ answers' = [answers EXCEPT ![r] = @ + 1]
    BY <1>6 DEF StoreAnswer
  <1>10. QED BY <1>3, <1>4, <1>5, <1>6, <1>8, <1>9, AnsweredRow

\* An open question is given up: it fails, and what is reserved is released.
LEMMA GivenUp ==
    ASSUME TypeOK, Solvent, NEW r \in Request, FundsOf(r), r \notin charged, GiveUp(r)
    PROVE  /\ FundsStep(r) /\ FundsOf(r)'
           /\ question'[r].status = "failed" /\ question'[r].delivery = "none"
           /\ question' \in [Request -> QuestionRow]
           /\ \A q \in Request \ {r} : question'[q] = question[q]
  <1>1. PICK row \in QuestionRow :
          /\ row.status = "failed" /\ row.delivery = "none"
          /\ question' = [question EXCEPT ![r] = row]
    BY DEF GiveUp, QuestionRow, Final
  <1>2. /\ question'[r].status = "failed" /\ question'[r].delivery = "none"
        /\ question' \in [Request -> QuestionRow]
        /\ \A q \in Request \ {r} : question'[q] = question[q]
    BY <1>1 DEF TypeOK
  <1>3. /\ FundsStep(r)
        /\ \/ SameFunds(r)
           \/ reservation'[r] = "released" /\ r \notin charged' /\ r \in released'
    BY ReleasePending DEF GiveUp
  <1>4. FundsOf(r)'
    BY <1>2, <1>3 DEF FundsOf, SameFunds
  <1>5. QED BY <1>2, <1>3, <1>4

LEMMA GiveUpStep ==
    ASSUME QuestionInv, NEW w \in Worker, ResumeFails(w) \/ Recover(w)
    PROVE  QuestionInv'
  <1>1. Holds(w) /\ worker[w].pc \in {"resume", "recover"}
    BY DEF ResumeFails, Recover, At
  <1>2. ~At(w, "idle") /\ "leave" \in Later /\ "error" \in Say
    BY <1>1 DEF At, Later, Phase, Say
  <1>3. PICK r \in Request : r = Mine(w)
    BY <1>2, Base
  <1>4. /\ TypeOK /\ Solvent /\ Attends(w, r) /\ PhaseOf(w, r) /\ FundsOf(r)
        /\ worker[w] \in Task /\ r \in marked /\ r \notin charged /\ answers[r] = 0
    BY <1>1, <1>3, Asks
  <1>5. Moves(w) /\ \/ worker'[w].pc = "leave"
                    \/ worker'[w].pc = "reply" /\ worker'[w].scope # "question"
    <2>1. CASE Go(w, "leave")
      BY <1>2, <1>4, <2>1, PcMoves DEF Go
    <2>2. ASSUME NEW scope \in {"busy", "gate", "question", "handler"},
                 Reply(w, "error", scope), scope # "question"
          PROVE  Moves(w) /\ worker'[w].pc = "reply" /\ worker'[w].scope # "question"
      <3>1. worker' = [worker EXCEPT ![w].pc = "reply", ![w].say = "error", ![w].scope = scope]
        BY <2>2 DEF Reply
      <3>2. QED BY <1>2, <1>4, <2>2, <3>1, ReplyMoves
    <2>3. CASE Recover(w)
      <3>1. worker[w].scope \in {"busy", "gate", "question", "handler"}
            /\ worker[w].scope # "question" /\ Reply(w, "error", worker[w].scope)
        BY <1>4, <2>3 DEF Task, PhaseOf, Recover, At
      <3>2. QED BY <2>2, <3>1
    <2>4. CASE ResumeFails(w) /\ Reply(w, "error", "gate")
      BY <2>2, <2>4
    <2>5. QED BY <2>1, <2>3, <2>4 DEF ResumeFails
  <1>6. GiveUp(r) /\ answers' = answers /\ UNCHANGED <<job, marked, lease, told, faults>>
    BY <1>3 DEF ResumeFails, Recover
  <1>7. /\ FundsStep(r) /\ FundsOf(r)'
        /\ question'[r].status = "failed" /\ question'[r].delivery = "none"
        /\ question' \in [Request -> QuestionRow]
        /\ \A q \in Request \ {r} : question'[q] = question[q]
    BY <1>4, <1>6, GivenUp
  <1>8. RowStep(w, r)
    BY <1>4, <1>5, <1>6, <1>7 DEF RowStep, TypeOK
  <1>9. PhaseOf(w, r)' /\ worker'[w].pc \notin Asking \union {"resume"}
    BY <1>5 DEF PhaseOf, Undrafted, Undecided, TakenUp, Owing, Asking, At
  <1>10. QED BY <1>3, <1>4, <1>6, <1>7, <1>8, <1>9, Excuses

LEMMA FinallyStep ==
    ASSUME QuestionInv, NEW w \in Worker, Finally(w)
    PROVE  QuestionInv'
  <1>1. Holds(w) /\ worker[w].pc = "finally"
    BY DEF Finally, At
  <1>2. ~At(w, "idle") /\ {"leave", "handler"} \subseteq Later
    BY <1>1 DEF At, Later, Phase
  <1>3. PICK r \in Request : r = Mine(w)
    BY <1>2, Base
  <1>4. TypeOK /\ Solvent /\ Attends(w, r) /\ PhaseOf(w, r) /\ RowOf(r) /\ FundsOf(r)
    BY <1>1, <1>2, <1>3, Base DEF QuestionInv, RowOf
  <1>5. PICK pc \in {"leave", "handler"} :
          worker' = [worker EXCEPT ![w].reserved = FALSE, ![w].pc = pc]
    BY DEF Finally
  <1>6. Moves(w) /\ worker'[w].pc = pc
    BY <1>2, <1>4, <1>5, ReleasedMoves
  <1>7. PhaseOf(w, r)' /\ worker'[w].pc \notin Asking \union {"resume", "reply"}
    BY <1>6 DEF PhaseOf, Undrafted, Undecided, TakenUp, Owing, Asking, At
  <1>8. UNCHANGED <<job, marked, lease, question, answers, told, faults>>
    BY DEF Finally
  <1>9. CASE ~worker[w].reserved
    <2>1. Still(w)
      BY <1>2, <1>8, <1>9, Base DEF Finally, Still, credits
    <2>2. QED BY <1>2, <1>3, <1>6, <1>7, <1>8, <2>1, Local DEF MaySay
  <1>10. CASE worker[w].reserved
    <2>1. reservation[r] = "pending" /\ question[r].delivery = "none"
      BY <1>1, <1>4, <1>10 DEF PhaseOf, Owing, At
    <2>2. release_credit_reservation(r)
      BY <1>3, <1>10 DEF Finally
    <2>3. /\ FundsStep(r)
          /\ \/ SameFunds(r)
             \/ reservation'[r] = "released" /\ r \notin charged' /\ r \in released'
      BY <1>4, <2>1, <2>2, Release
    <2>4. r \notin charged /\ r \in marked
      BY <1>4, <2>1 DEF FundsOf, RowOf, Untouched
    <2>5. FundsOf(r)'
      BY <1>4, <1>8, <2>1, <2>3 DEF FundsOf, SameFunds
    <2>6. RowStep(w, r)
      BY <1>4, <1>6, <1>8, <2>3, <2>4 DEF RowStep, TypeOK
    <2>7. answers'[r] = IF question'[r].status = "answered" THEN 1 ELSE 0
      BY <1>4, <1>8 DEF RowOf
    <2>8. CASE ~Excused(r)
      BY <1>3, <1>4, <1>7, <1>8, <2>1, <2>5, <2>6, <2>7, <2>8, Goes
    <2>9. CASE Excused(r)
      <3>1. answers'[r] = 0
        BY <1>4, <1>8, <2>9 DEF RowOf, ExcuseOf
      <3>2. question'[r].status # "answered"
        BY <2>7, <3>1
      <3>3. question'[r].delivery = "none"
        BY <1>8, <2>1
      <3>4. QED BY <1>3, <1>7, <2>5, <2>6, <3>1, <3>2, <3>3, Excuses
    <2>10. QED BY <2>8, <2>9
  <1>11. QED BY <1>4, <1>9, <1>10 DEF TypeOK


-----------------------------------------------------------------------------
(* Steps of the queue, of the lease and of time.                           *)

\* Nobody new gets beyond the gate, and no row of a question changes.
LEMMA Quiet ==
    ASSUME QuestionInv, TypeOK', LocalInv', TicketInv',
           UNCHANGED <<marked, question, credits, answers, told>>,
           \A v \in Worker : \/ worker'[v] = worker[v]
                             \/ worker'[v].pc \in {"idle", "acquire", "busy", "gate"},
           \A v \in Worker, q \in Request : Attends(v, q)' =>
               worker'[v].pc \in {"idle", "acquire", "busy", "gate"} \/ Attends(v, q)
    PROVE  QuestionInv'
  <1>1. ASSUME NEW v \in Worker, NEW q \in Request, Attends(v, q)'
        PROVE  PhaseOf(v, q)' /\ \/ worker'[v].pc \notin Asking \union {"resume"}
                                 \/ worker'[v] = worker[v] /\ Attends(v, q)
    <2>1. CASE worker'[v].pc \in {"idle", "acquire", "busy", "gate"}
      BY <2>1 DEF PhaseOf, Undrafted, Undecided, TakenUp, Owing, Asking, At
    <2>2. CASE worker'[v] = worker[v] /\ Attends(v, q)
      <3>1. PhaseOf(v, q)
        BY <2>2 DEF QuestionInv, PhaseInv
      <3>2. QED BY <2>2, <3>1 DEF PhaseOf, Undrafted, Undecided, TakenUp, Owing, At, credits
    <2>3. QED BY <1>1, <2>1, <2>2
  <1>2. ASSUME NEW q \in Request PROVE RowOf(q)'
    <2>1. RowOf(q)
      BY DEF QuestionInv
    <2>2. Excused(q)' => Excused(q)
      <3>1. CASE ~(told'[q] \subseteq {"early"})
        BY <3>1 DEF Excused
      <3>2. ASSUME NEW v \in Worker, At(v, "reply")', Mine(v)' = q, worker'[v].say # "early"
            PROVE  Excused(q)
        <4>1. worker'[v] = worker[v]
          BY <3>2 DEF At
        <4>2. QED BY <3>2, <4>1 DEF Excused, At, Mine
      <3>3. QED BY <3>1, <3>2 DEF Excused
    <2>3. ExcuseOf(q) => ExcuseOf(q)'
      BY <1>1 DEF ExcuseOf
    <2>4. QED BY <2>1, <2>2, <2>3 DEF RowOf, Untouched, FundsOf, credits
  <1>3. Solvent'
    BY DEF QuestionInv, Solvent, credits
  <1>4. QED BY <1>1, <1>2, <1>3 DEF QuestionInv, PhaseInv

\* No attempt begins.
LEMMA KeepTickets ==
    ASSUME TicketInv, TypeOK, \A r \in Request : job'[r].attempts = job[r].attempts,
           \A v \in Worker : ~At(v, "idle")' =>
               ~At(v, "idle") /\ Mine(v)' = Mine(v) /\ worker'[v].ticket = worker[v].ticket
    PROVE  TicketInv'
  <1>1. \A v \in Worker : ~At(v, "idle") => Mine(v) \in Request
    BY JobOfTask
  <1>2. QED BY <1>1 DEF TicketInv

LEMMA IdleType == Idle \in Task
  BY RequestAssumption DEF Idle, Task, Phase

\* A row of the queue changes, and the tasks stand still.
LEMMA RowOfQueue ==
    ASSUME QuestionInv, NEW r \in Request, NEW row \in JobRow, row.attempts = job[r].attempts,
           job' = [job EXCEPT ![r] = row], faults' \in 0 .. MaxFaults,
           UNCHANGED <<marked, lease, question, credits, answers, told, worker>>
    PROVE  QuestionInv'
  <1>1. TypeOK /\ LocalInv /\ TicketInv
    BY DEF QuestionInv
  <1>2. TypeOK' /\ LocalInv'
    BY <1>1 DEF TypeOK, LocalInv, credits, At
  <1>3. \A q \in Request : job'[q].attempts = job[q].attempts
    BY <1>1 DEF TypeOK
  <1>4. TicketInv'
    BY <1>1, <1>3, KeepTickets DEF At, Mine
  <1>5. \A v \in Worker, q \in Request : Attends(v, q)' => Attends(v, q)
    BY DEF Attends, Holds, IsOwner, Mine, At
  <1>6. QED BY <1>2, <1>4, <1>5, Quiet

LEMMA EnqueueStep ==
    ASSUME QuestionInv, NEW r \in Request, Enqueue(r)
    PROVE  QuestionInv'
  <1>1. job[r] \in JobRow /\ job \in [Request -> JobRow] /\ faults \in 0 .. MaxFaults
    BY DEF QuestionInv, TypeOK
  <1>2. PICK row \in JobRow : /\ row.attempts = job[r].attempts
                              /\ job' = [job EXCEPT ![r] = row]
    <2> DEFINE row == [job[r] EXCEPT !.status = "pending"]
    <2>1. row \in JobRow /\ row.attempts = job[r].attempts
      BY <1>1 DEF JobRow
    <2>2. job' = [job EXCEPT ![r] = row]
      BY <1>1 DEF Enqueue
    <2>3. QED BY <2>1, <2>2
  <1>3. QED BY <1>1, <1>2, RowOfQueue DEF Enqueue

LEMMA BackoffStep ==
    ASSUME QuestionInv, NEW r \in Request, Backoff(r)
    PROVE  QuestionInv'
  <1>1. job[r] \in JobRow /\ job \in [Request -> JobRow] /\ faults \in 0 .. MaxFaults
    BY DEF QuestionInv, TypeOK
  <1>2. PICK row \in JobRow : /\ row.attempts = job[r].attempts
                              /\ job' = [job EXCEPT ![r] = row]
    <2> DEFINE row == [job[r] EXCEPT !.due = TRUE]
    <2>1. row \in JobRow /\ row.attempts = job[r].attempts
      BY <1>1 DEF JobRow
    <2>2. job' = [job EXCEPT ![r] = row]
      BY <1>1 DEF Backoff
    <2>3. QED BY <2>1, <2>2
  <1>3. QED BY <1>1, <1>2, RowOfQueue DEF Backoff

LEMMA JobGoesStaleStep ==
    ASSUME QuestionInv, NEW r \in Request, JobGoesStale(r)
    PROVE  QuestionInv'
  <1>1. job[r] \in JobRow /\ job \in [Request -> JobRow] /\ faults \in 0 .. MaxFaults
    BY DEF QuestionInv, TypeOK
  <1>2. PICK row \in JobRow : /\ row.attempts = job[r].attempts
                              /\ job' = [job EXCEPT ![r] = row]
    <2> DEFINE row == [job[r] EXCEPT !.fresh = FALSE]
    <2>1. row \in JobRow /\ row.attempts = job[r].attempts
      BY <1>1 DEF JobRow
    <2>2. job' = [job EXCEPT ![r] = row]
      BY <1>1 DEF JobGoesStale
    <2>3. QED BY <2>1, <2>2
  <1>3. faults' \in 0 .. MaxFaults
    <2>1. Fault \/ faults' = faults
      BY DEF JobGoesStale
    <2>2. QED BY <1>1, <2>1, OneMoreFault
  <1>4. UNCHANGED <<marked, lease, question, credits, answers, told, worker>>
    BY DEF JobGoesStale
  <1>5. QED BY <1>2, <1>3, <1>4, RowOfQueue

LEMMA LeaseExpiresStep ==
    ASSUME QuestionInv, NEW u \in User, LeaseExpires(u)
    PROVE  QuestionInv'
  <1>1. TypeOK /\ LocalInv /\ TicketInv /\ lease[u] \in LeaseRow
    BY DEF QuestionInv, TypeOK
  <1>2. faults' \in 0 .. MaxFaults
    <2>1. Fault \/ faults' = faults
      BY DEF LeaseExpires
    <2>2. QED BY <1>1, <2>1, OneMoreFault DEF TypeOK
  <1>3. PICK row \in LeaseRow : ~row.live /\ lease' = [lease EXCEPT ![u] = row]
    <2> DEFINE row == [lease[u] EXCEPT !.live = FALSE]
    <2>1. row \in LeaseRow /\ ~row.live
      BY <1>1 DEF LeaseRow
    <2>2. lease' = [lease EXCEPT ![u] = row]
      BY <1>1 DEF LeaseExpires, TypeOK
    <2>3. QED BY <2>1, <2>2
  <1>4. UNCHANGED <<job, marked, question, credits, answers, told, worker>>
    BY DEF LeaseExpires
  <1>5. TypeOK' /\ LocalInv' /\ TicketInv'
    BY <1>1, <1>2, <1>3, <1>4 DEF TypeOK, LocalInv, TicketInv, credits, At, Mine
  <1>6. ASSUME NEW v \in Worker, NEW q \in Request, Attends(v, q)' PROVE Attends(v, q)
    <2>1. Owner(q) \in User
      BY UserAssumption DEF Owner
    <2>2. worker'[v].job = q /\ lease'[Owner(q)].live
      BY <1>6 DEF Attends, Holds, Mine
    <2>3. lease'[Owner(q)] = lease[Owner(q)]
      BY <1>1, <1>3, <2>1, <2>2 DEF TypeOK
    <2>4. QED BY <1>4, <1>6, <2>2, <2>3 DEF Attends, Holds, IsOwner, Mine, At
  <1>7. QED BY <1>4, <1>5, <1>6, Quiet

LEMMA CrashStep ==
    ASSUME QuestionInv, NEW p \in Process, Crash(p)
    PROVE  QuestionInv'
  <1>1. TypeOK /\ LocalInv /\ TicketInv
    BY DEF QuestionInv
  <1>2. faults' \in 0 .. MaxFaults
    BY OneMoreFault DEF Crash
  <1>3. UNCHANGED <<job, marked, lease, question, credits, answers, told>>
    BY DEF Crash
  <1>4. \A v \in Worker : worker'[v] = worker[v] \/ worker'[v] = Idle
    BY DEF Crash
  <1>5. worker' \in [Worker -> Task]
    BY <1>1, IdleType DEF Crash, TypeOK
  <1>6. \A v \in Worker : worker'[v] = worker[v] \/ worker'[v].pc = "idle"
    BY <1>4 DEF Idle
  <1>7. TypeOK' /\ LocalInv'
    BY <1>1, <1>2, <1>3, <1>5, <1>6 DEF TypeOK, LocalInv, credits, At
  <1>8. TicketInv'
    BY <1>1, <1>3, <1>6, KeepTickets DEF At, Mine
  <1>9. \A v \in Worker, q \in Request : Attends(v, q)' => Attends(v, q)
    BY <1>3, <1>6 DEF Attends, Holds, IsOwner, Mine, At
  <1>10. QED BY <1>3, <1>6, <1>7, <1>8, <1>9, Quiet

LEMMA SettleStep ==
    ASSUME QuestionInv, NEW w \in Worker, Settle(w)
    PROVE  QuestionInv'
  <1>1. TypeOK /\ LocalInv /\ TicketInv /\ Mine(w) \in Request /\ job[Mine(w)] \in JobRow
    <2>1. ~At(w, "idle")
      BY DEF Settle, At
    <2>2. QED BY <2>1, Base DEF QuestionInv, TypeOK
  <1>2. UNCHANGED <<marked, lease, question, credits, answers, told, faults>>
    BY DEF Settle
  <1>3. PICK row \in JobRow : /\ row.attempts = job[Mine(w)].attempts
                              /\ job' = [job EXCEPT ![Mine(w)] = row]
    <2>1. CASE job' = job
      BY <1>1, <2>1 DEF TypeOK
    <2>2. CASE job' = [job EXCEPT ![Mine(w)] = CompletedJob(job[Mine(w)])]
      <3>1. CompletedJob(job[Mine(w)]) \in JobRow
            /\ CompletedJob(job[Mine(w)]).attempts = job[Mine(w)].attempts
        BY <1>1 DEF CompletedJob, JobRow
      <3>2. QED BY <2>2, <3>1
    <2>3. CASE job' = [job EXCEPT ![Mine(w)] = FailedJob(job[Mine(w)])]
      <3>1. FailedJob(job[Mine(w)]) \in JobRow
            /\ FailedJob(job[Mine(w)]).attempts = job[Mine(w)].attempts
        BY <1>1 DEF FailedJob, JobRow
      <3>2. QED BY <2>3, <3>1
    <2>4. QED BY <1>1, <2>1, <2>2, <2>3 DEF Settle, TypeOK
  <1>4. worker' = [worker EXCEPT ![w] = Idle] /\ worker \in [Worker -> Task]
    BY <1>1 DEF Settle, TypeOK
  <1>5. worker' \in [Worker -> Task] /\ \A v \in Worker : worker'[v] = worker[v]
                                                           \/ worker'[v] = Idle
    BY <1>4, IdleType
  <1>6. \A v \in Worker : worker'[v] = worker[v] \/ worker'[v].pc = "idle"
    BY <1>5 DEF Idle
  <1>7. job' \in [Request -> JobRow] /\ \A q \in Request : job'[q].attempts = job[q].attempts
    BY <1>1, <1>3 DEF TypeOK
  <1>8. TypeOK' /\ LocalInv'
    BY <1>1, <1>2, <1>5, <1>6, <1>7 DEF TypeOK, LocalInv, credits, At
  <1>9. TicketInv'
    BY <1>1, <1>6, <1>7, KeepTickets DEF At, Mine
  <1>10. \A v \in Worker, q \in Request : Attends(v, q)' => Attends(v, q)
    BY <1>2, <1>6 DEF Attends, Holds, IsOwner, Mine, At
  <1>11. QED BY <1>2, <1>6, <1>8, <1>9, <1>10, Quiet

\* A new attempt has a number of its own.
LEMMA ClaimStep ==
    ASSUME QuestionInv, NEW w \in Worker, NEW r \in Request, Claim(w, r)
    PROVE  QuestionInv'
  <1>1. TypeOK /\ LocalInv /\ TicketInv /\ job[r] \in JobRow /\ job \in [Request -> JobRow]
        /\ worker \in [Worker -> Task]
    BY DEF QuestionInv, TypeOK
  <1>2. UNCHANGED <<marked, lease, question, credits, answers, told, faults>>
    BY DEF Claim
  <1>3. job[r].attempts + 1 \in Nat
    BY <1>1 DEF JobRow
  <1>4. PICK row \in JobRow : /\ row.attempts = job[r].attempts + 1
                              /\ job' = [job EXCEPT ![r] = row]
    <2> DEFINE row == [job[r] EXCEPT !.status = "processing", !.attempts = job[r].attempts + 1,
                                     !.lease = job[r].attempts + 1, !.fresh = TRUE]
    <2>1. row \in JobRow /\ row.attempts = job[r].attempts + 1
      BY <1>1, <1>3 DEF JobRow
    <2>2. job' = [job EXCEPT ![r] = row]
      BY <1>1 DEF Claim
    <2>3. QED BY <2>1, <2>2
  <1>5. PICK t \in Task : /\ t.pc = "acquire" /\ t.job = r /\ t.ticket = job[r].attempts + 1
                          /\ t.reserved = FALSE
                          /\ worker' = [worker EXCEPT ![w] = t]
    <2> DEFINE t == [Idle EXCEPT !.pc = "acquire", !.job = r, !.ticket = job[r].attempts + 1]
    <2>1. t \in Task /\ t.pc = "acquire" /\ t.job = r /\ t.ticket = job[r].attempts + 1
          /\ t.reserved = FALSE
      BY <1>3, RequestAssumption DEF Idle, Task, Phase
    <2>2. worker' = [worker EXCEPT ![w] = t]
      BY DEF Claim
    <2>3. QED BY <2>1, <2>2
  <1>6. /\ worker' \in [Worker -> Task] /\ worker'[w] = t
        /\ \A v \in Worker \ {w} : worker'[v] = worker[v]
        /\ job' \in [Request -> JobRow] /\ job'[r] = row
        /\ \A q \in Request \ {r} : job'[q] = job[q]
    BY <1>1, <1>4, <1>5
  <1>7. TypeOK' /\ LocalInv'
    BY <1>1, <1>2, <1>5, <1>6 DEF TypeOK, LocalInv, credits, At
  <1>8. TicketInv'
    <2>1. ASSUME NEW v \in Worker, v # w, ~At(v, "idle")'
          PROVE  /\ worker[v].job \in Request /\ worker'[v] = worker[v]
                 /\ worker[v].ticket \in 1 .. job[worker[v].job].attempts
                 /\ ~At(v, "idle")
      <3>1. worker'[v] = worker[v] /\ ~At(v, "idle")
        BY <1>6, <2>1 DEF At
      <3>2. QED BY <1>1, <3>1, JobOfTask DEF TicketInv, Mine
    <2>2. \A q \in Request : job[q].attempts \in Nat /\ job'[q].attempts \in Nat
                             /\ job'[q].attempts >= job[q].attempts
      BY <1>3, <1>4, <1>6, <1>1 DEF JobRow
    <2>3. ASSUME NEW v \in Worker, ~At(v, "idle")'
          PROVE  worker'[v].ticket \in 1 .. job'[worker'[v].job].attempts
      <3>1. CASE v = w
        BY <1>3, <1>4, <1>5, <1>6, <3>1, <1>1 DEF JobRow
      <3>2. CASE v # w
        BY <2>1, <2>2, <2>3, <3>2
      <3>3. QED BY <3>1, <3>2
    <2>4. ASSUME NEW v \in Worker, v # w, ~At(v, "idle")', worker'[v].job = r
          PROVE  worker'[v].ticket # worker'[w].ticket
      BY <2>1, <2>2, <2>4, <1>5, <1>6
    <2>5. ASSUME NEW v \in Worker, NEW x \in Worker, v # x, ~At(v, "idle")', ~At(x, "idle")',
                 worker'[v].job = worker'[x].job
          PROVE  worker'[v].ticket # worker'[x].ticket
      <3>1. CASE v = w
        BY <1>5, <1>6, <2>4, <2>5, <3>1
      <3>2. CASE x = w
        BY <1>5, <1>6, <2>4, <2>5, <3>2
      <3>3. CASE v # w /\ x # w
        BY <1>1, <2>1, <2>5, <3>3 DEF TicketInv, Mine
      <3>4. QED BY <3>1, <3>2, <3>3
    <2>6. QED BY <2>3, <2>5 DEF TicketInv, Mine, At
  <1>9. \A v \in Worker, q \in Request : Attends(v, q)' =>
           worker'[v].pc \in {"idle", "acquire", "busy", "gate"} \/ Attends(v, q)
    BY <1>2, <1>5, <1>6 DEF Attends, Holds, IsOwner, Mine, At
  <1>10. \A v \in Worker : \/ worker'[v] = worker[v]
                           \/ worker'[v].pc \in {"idle", "acquire", "busy", "gate"}
    BY <1>5, <1>6
  <1>11. QED BY <1>2, <1>7, <1>8, <1>9, <1>10, Quiet

\* The lease passes to the task that acquires it, and from whoever had it.
LEMMA AcquireStep ==
    ASSUME QuestionInv, NEW w \in Worker, Acquire(w)
    PROVE  QuestionInv'
  <1>1. ~At(w, "idle") /\ worker[w].pc = "acquire"
    BY DEF Acquire, At
  <1>2. TypeOK /\ LocalInv /\ TicketInv /\ worker[w] \in Task /\ worker \in [Worker -> Task]
        /\ Mine(w) \in Request /\ Owner(Mine(w)) \in User /\ ~worker[w].reserved
    BY <1>1, Base DEF QuestionInv, TypeOK, LocalInv
  <1>3. UNCHANGED <<job, marked, question, credits, answers, told, faults>>
    BY DEF Acquire
  <1>4. PICK pc \in {"gate", "busy"} : worker' = [worker EXCEPT ![w].pc = pc]
    BY DEF Acquire, Go
  <1>5. PICK t \in Task : /\ t.pc = pc /\ t.job = worker[w].job /\ t.ticket = worker[w].ticket
                          /\ ~t.reserved
                          /\ worker' = [worker EXCEPT ![w] = t]
    <2> DEFINE t == [worker[w] EXCEPT !.pc = pc]
    <2>1. t \in Task /\ t.pc = pc /\ t.job = worker[w].job /\ t.ticket = worker[w].ticket
          /\ ~t.reserved
      BY <1>1, <1>2 DEF Task, Phase
    <2>2. worker' = [worker EXCEPT ![w] = t]
      BY <1>2, <1>4
    <2>3. QED BY <2>1, <2>2
  <1>6. /\ worker' \in [Worker -> Task] /\ worker'[w] = t
        /\ \A v \in Worker \ {w} : worker'[v] = worker[v]
    BY <1>2, <1>5
  <1>7. PICK row \in LeaseRow :
          \/ lease' = lease
          \/ /\ lease' = [lease EXCEPT ![Owner(Mine(w))] = row]
             /\ row.request = Mine(w) /\ row.owner = worker[w].ticket
    <2> DEFINE row == [request |-> Mine(w), owner |-> worker[w].ticket, live |-> TRUE]
    <2>1. row \in LeaseRow /\ row.request = Mine(w) /\ row.owner = worker[w].ticket
      BY <1>2 DEF LeaseRow, Task
    <2>2. lease' = lease \/ lease' = [lease EXCEPT ![Owner(Mine(w))] = row]
      BY DEF Acquire
    <2>3. QED BY <2>1, <2>2
  <1>8. TypeOK' /\ LocalInv'
    BY <1>2, <1>3, <1>4, <1>5, <1>6, <1>7 DEF TypeOK, LocalInv, credits, At
  <1>9. TicketInv'
    <2>1. \A v \in Worker : ~At(v, "idle")' =>
             ~At(v, "idle") /\ Mine(v)' = Mine(v) /\ worker'[v].ticket = worker[v].ticket
      BY <1>1, <1>5, <1>6 DEF At, Mine
    <2>2. QED BY <1>2, <1>3, <2>1, KeepTickets
  <1>10. ASSUME NEW v \in Worker, NEW q \in Request, Attends(v, q)', v # w
         PROVE  Attends(v, q)
    <2>1. worker'[v] = worker[v] /\ ~At(v, "idle") /\ Mine(v) = q
      BY <1>6, <1>10 DEF Attends, At, Mine
    <2>2. /\ lease'[Owner(q)].request = q /\ lease'[Owner(q)].owner = worker[v].ticket
          /\ lease'[Owner(q)].live /\ Owner(q) \in User
      BY <1>10, <2>1, UserAssumption DEF Attends, Holds, IsOwner, Mine, Owner
    <2>3. lease'[Owner(q)] = lease[Owner(q)]
      <3>1. CASE lease' = lease
        BY <3>1
      <3>2. CASE /\ lease' = [lease EXCEPT ![Owner(Mine(w))] = row]
                 /\ row.request = Mine(w) /\ row.owner = worker[w].ticket
        <4>1. CASE Owner(q) = Owner(Mine(w))
          <5>1. q = Mine(w) /\ worker[v].ticket = worker[w].ticket
            BY <1>2, <2>2, <3>2, <4>1 DEF TypeOK
          <5>2. QED BY <1>1, <1>2, <1>10, <2>1, <5>1 DEF TicketInv
        <4>2. CASE Owner(q) # Owner(Mine(w))
          BY <1>2, <2>2, <3>2, <4>2 DEF TypeOK
        <4>3. QED BY <4>1, <4>2
      <3>3. QED BY <1>7, <3>1, <3>2
    <2>4. QED BY <2>1, <2>2, <2>3 DEF Attends, Holds, IsOwner
  <1>11. \A v \in Worker, q \in Request : Attends(v, q)' =>
            worker'[v].pc \in {"idle", "acquire", "busy", "gate"} \/ Attends(v, q)
    BY <1>4, <1>5, <1>6, <1>10
  <1>12. \A v \in Worker : \/ worker'[v] = worker[v]
                           \/ worker'[v].pc \in {"idle", "acquire", "busy", "gate"}
    BY <1>4, <1>5, <1>6
  <1>13. QED BY <1>3, <1>8, <1>9, <1>11, <1>12, Quiet

\* Maintenance gives up a question that no task attends to.
LEMMA RecoverOrphanStep ==
    ASSUME QuestionInv, NEW r \in Request, RecoverOrphan(r)
    PROVE  QuestionInv'
  <1>1. TypeOK /\ Solvent /\ LocalInv /\ TicketInv /\ RowOf(r) /\ FundsOf(r)
    BY DEF QuestionInv, RowOf
  <1>2. question[r].status \in Open /\ ~LiveFor(r) /\ GiveUp(r)
    BY DEF RecoverOrphan, Orphan
  <1>3. UNCHANGED <<job, marked, lease, answers, worker, faults>>
    BY DEF RecoverOrphan
  <1>4. r \in marked /\ r \notin charged /\ answers[r] = 0
    BY <1>1, <1>2 DEF RowOf, FundsOf, Untouched, Open
  <1>5. /\ FundsStep(r) /\ FundsOf(r)'
        /\ question'[r].status = "failed" /\ question'[r].delivery = "none"
        /\ question' \in [Request -> QuestionRow]
        /\ \A q \in Request \ {r} : question'[q] = question[q]
    BY <1>1, <1>2, <1>4, GivenUp
  <1>6. told' \in [Request -> SUBSET Say] /\ \A q \in Request \ {r} : told'[q] = told[q]
    <2>1. CASE told' = told
      BY <1>1, <2>1 DEF TypeOK
    <2>2. CASE told' = [told EXCEPT ![r] = @ \union {"interrupted"}]
      BY <1>1, <2>2 DEF TypeOK, Say
    <2>3. QED BY <2>1, <2>2 DEF RecoverOrphan
  <1>7. TypeOK' /\ LocalInv' /\ TicketInv' /\ Solvent'
    BY <1>1, <1>3, <1>5, <1>6 DEF TypeOK, LocalInv, TicketInv, FundsStep, At, Mine
  <1>8. ASSUME NEW v \in Worker, NEW q \in Request, Attends(v, q)'
        PROVE  Attends(v, q) /\ q # r
    <2>1. Attends(v, q)
      BY <1>3, <1>8 DEF Attends, Holds, IsOwner, Mine, At
    <2>2. QED BY <1>2, <2>1 DEF Attends, Holds, IsOwner, LiveFor
  <1>9. PhaseInv'
    <2>1. SUFFICES ASSUME NEW v \in Worker, NEW q \in Request, Attends(v, q)'
                   PROVE  PhaseOf(v, q)'
      BY DEF PhaseInv
    <2>2. PhaseOf(v, q) /\ q # r
      BY <1>8, <2>1 DEF QuestionInv, PhaseInv
    <2>3. question'[q] = question[q] /\ SameFunds(q)
      BY <1>5, <2>2 DEF FundsStep
    <2>4. QED BY <1>3, <2>2, <2>3 DEF PhaseOf, SameFunds, Undrafted, Undecided, TakenUp, Owing, At
  <1>10. RowOf(r)'
    <2>1. ExcuseOf(r)'
      BY <1>3, <1>4, <1>5, <1>8 DEF ExcuseOf
    <2>2. QED BY <1>3, <1>4, <1>5, <2>1 DEF RowOf
  <1>11. ASSUME NEW q \in Request, q # r PROVE RowOf(q)'
    <2>1. RowOf(q) /\ question'[q] = question[q] /\ SameFunds(q) /\ told'[q] = told[q]
      BY <1>5, <1>6, <1>11 DEF QuestionInv, FundsStep
    <2>2. Excused(q)' => Excused(q)
      BY <1>3, <2>1 DEF Excused, At, Mine
    <2>3. ExcuseOf(q) => ExcuseOf(q)'
      BY <1>3, <1>8, <2>1 DEF ExcuseOf
    <2>4. QED BY <1>3, <2>1, <2>2, <2>3 DEF RowOf, Untouched, FundsOf, SameFunds
  <1>12. QED BY <1>7, <1>9, <1>10, <1>11 DEF QuestionInv

-----------------------------------------------------------------------------
(* All steps.                                                              *)

LEMMA InitInv == Init => QuestionInv
  <1> SUFFICES ASSUME Init PROVE QuestionInv
    OBVIOUS
  <1>1. Idle \in Task /\ Idle.pc = "idle" /\ Idle.say = "nothing"
    BY IdleType DEF Idle
  <1>2. \A w \in Worker : worker[w] = Idle /\ worker[w].pc = "idle"
    BY <1>1 DEF Init
  <1>3. TypeOK
    <2>1. job \in [Request -> JobRow] /\ question \in [Request -> QuestionRow]
      BY DEF Init, JobRow, QuestionRow
    <2>2. lease \in [User -> LeaseRow]
      BY DEF Init, LeaseRow, NoLease
    <2>3. account \in [User -> [balance : Nat, reserved : Nat]]
      BY UserAssumption DEF Init
    <2>4. QED BY <1>1, <2>1, <2>2, <2>3, BoundAssumption DEF Init, TypeOK
  <1>4. LocalInv /\ TicketInv /\ PhaseInv
    BY <1>2 DEF LocalInv, TicketInv, PhaseInv, Attends, At
  <1>5. Solvent
    BY UserAssumption DEF Init, Solvent
  <1>6. ASSUME NEW r \in Request PROVE RowOf(r)
    <2>1. /\ marked = {} /\ charged = {} /\ released = {} /\ reservation[r] = "none"
          /\ answers[r] = 0 /\ told[r] = {}
          /\ question[r] = [status |-> "none", delivery |-> "none"]
      BY DEF Init
    <2>2. ~Excused(r)
      BY <1>2, <2>1 DEF Excused, At
    <2>3. QED BY <2>1, <2>2 DEF RowOf, Untouched, FundsOf
  <1>7. QED BY <1>3, <1>4, <1>5, <1>6 DEF QuestionInv

LEMMA StutterInv ==
    ASSUME QuestionInv, UNCHANGED vars
    PROVE  QuestionInv'
  <1>1. UNCHANGED <<job, marked, lease, question, account, reservation, charged, released,
                    answers, told, worker, faults>>
    BY DEF vars, credits
  <1>2. TypeOK' /\ LocalInv' /\ TicketInv'
    BY <1>1 DEF QuestionInv, TypeOK, LocalInv, TicketInv, At, Mine
  <1>3. \A v \in Worker, q \in Request : Attends(v, q)' => Attends(v, q)
    BY <1>1 DEF Attends, Holds, IsOwner, Mine, At
  <1>4. QED BY <1>1, <1>2, <1>3, Quiet DEF credits

LEMMA NextInv ==
    ASSUME QuestionInv, Next
    PROVE  QuestionInv'
  <1>1. ASSUME NEW w \in Worker, Question(w) PROVE QuestionInv'
    BY <1>1, ClassifyParallelStep, AskingStep, ProcessingStep, ServeCachedStep, CacheMissStep,
       FilteredStep, DeclineStep, CheckpointStep, PersistAnswerStep, FinallyStep
       DEF Question
  <1>2. ASSUME NEW w \in Worker, Step(w) PROVE QuestionInv'
    <2>1. CASE Question(w)
      BY <1>1, <2>1
    <2>2. CASE \E r \in Request : Claim(w, r)
      BY <2>2, ClaimStep
    <2>3. CASE Acquire(w) \/ Busy(w) \/ Leave(w) \/ Settle(w)
      BY <2>3, AcquireStep, BusyStep, LeaveStep, SettleStep
    <2>4. CASE GateDuplicate(w) \/ GateReject(w) \/ GateAccept(w)
      BY <2>4, GateDuplicateStep, GateRejectStep, GateAcceptStep
    <2>5. CASE ResumeAnswer(w) \/ ResumeFails(w) \/ Recover(w)
      BY <2>5, ResumeAnswerStep, GiveUpStep
    <2>6. CASE Handler(w) \/ SendReply(w) \/ LeaseLost(w)
      BY <2>6, HandlerStep, SendReplyStep, LeaseLostStep
    <2>7. QED BY <1>2, <2>1, <2>2, <2>3, <2>4, <2>5, <2>6 DEF Step
  <1>3. CASE Time
    BY <1>3, EnqueueStep, BackoffStep, JobGoesStaleStep, RecoverOrphanStep, LeaseExpiresStep
       DEF Time
  <1>4. QED BY <1>2, <1>3, ErrorStep, LeaveStep, CancelStep, CrashStep DEF Next

-----------------------------------------------------------------------------
(* Theorems.                                                               *)

\* Whatever the numbers of questions, users, consumers and faults, the tasks and
\* the rows fit together: only the holder of the lease of a user changes the rows of
\* a question, and it finds them as its phase needs them.
THEOREM QuestionInvariant == Spec => []QuestionInv
  <1>1. QuestionInv /\ [Next]_vars => QuestionInv'
    BY NextInv, StutterInv
  <1>2. QED BY <1>1, InitInv, PTL DEF Spec

\* Every variable keeps its type; in particular no account goes below zero.
THEOREM TypeCorrect == Spec => []TypeOK
  <1>1. QuestionInv => TypeOK
    BY DEF QuestionInv
  <1>2. QED BY <1>1, QuestionInvariant, PTL

\* _persist_answer, _serve_cached_answer and _resume_expert_answer store one answer for
\* a question between them, and its row says whether they have.
THEOREM AnsweredAtMostOnce == Spec => []AnsweredOnce
  <1>1. QuestionInv => AnsweredOnce
    BY DEF QuestionInv, RowOf, AnsweredOnce
  <1>2. QED BY <1>1, QuestionInvariant, PTL

\* commit_credit_reservation is paired with a stored answer, and no later
\* release_credit_reservation gives the credits back.
THEOREM ChargedOnlyForAnAnswer == Spec => []ChargedForAnAnswer
  <1>1. QuestionInv => ChargedForAnAnswer
    <2>1. SUFFICES ASSUME QuestionInv PROVE ChargedForAnAnswer
      OBVIOUS
    <2>2. charged \subseteq Request /\ \A r \in Request : FundsOf(r)
      BY <2>1 DEF QuestionInv, TypeOK, RowOf
    <2>3. ASSUME NEW r \in charged PROVE answers[r] = 1 /\ r \notin released
      <3>1. r \in Request /\ RowOf(r) /\ FundsOf(r)
        BY <2>1, <2>2 DEF QuestionInv
      <3>2. QED BY <3>1 DEF RowOf, FundsOf
    <2>4. QED BY <2>3 DEF ChargedForAnAnswer
  <1>2. QED BY <1>1, QuestionInvariant, PTL

\* Once the user has read that there is no answer, no attempt, resumption or
\* recovery stores one.
THEOREM ToldForGood == Spec => []ToldIsFinal
  <1>1. QuestionInv => ToldIsFinal
    BY DEF QuestionInv, RowOf, Excused, ExcuseOf, ToldIsFinal
  <1>2. QED BY <1>1, QuestionInvariant, PTL

-----------------------------------------------------------------------------
(* The ledger.                                                             *)

\* Credits of the owner of r are reserved, charged, or given back.
Held(r) ==
    /\ reservation[r] = "none"
    /\ account' = [account EXCEPT ![Owner(r)].reserved = account[Owner(r)].reserved + Cost]
    /\ reservation' = [reservation EXCEPT ![r] = "pending"]
    /\ UNCHANGED <<charged, released>>

Taken(r) ==
    /\ reservation[r] = "pending" /\ r \notin charged
    /\ account' = [account EXCEPT ![Owner(r)] = [balance |-> account[Owner(r)].balance - Cost,
                                                 reserved |-> account[Owner(r)].reserved - Cost]]
    /\ reservation' = [reservation EXCEPT ![r] = "committed"]
    /\ charged' = charged \union {r}
    /\ UNCHANGED released

Returned(r) ==
    /\ reservation[r] = "pending"
    /\ account' = [account EXCEPT ![Owner(r)].reserved = account[Owner(r)].reserved - Cost]
    /\ reservation' = [reservation EXCEPT ![r] = "released"]
    /\ UNCHANGED charged

Entry(r) == UNCHANGED credits \/ Held(r) \/ Taken(r) \/ Returned(r)

LEMMA ReserveEntry ==
    ASSUME TypeOK, NEW r \in Request, reserve_credits(r)
    PROVE  Entry(r)
  BY DEF reserve_credits, Entry, Held, TypeOK

LEMMA ReleaseEntry ==
    ASSUME TypeOK, NEW r \in Request, reservation[r] = "pending", release_credit_reservation(r)
    PROVE  Entry(r)
  BY DEF release_credit_reservation, Entry, Returned, TypeOK

LEMMA ChargeEntry ==
    ASSUME TypeOK, NEW r \in Request, reservation[r] = "pending", commit_credit_reservation(r)
    PROVE  Entry(r)
  BY DEF commit_credit_reservation, Entry, Taken, TypeOK

LEMMA GiveUpEntry ==
    ASSUME TypeOK, NEW r \in Request, GiveUp(r)
    PROVE  Entry(r)
  BY ReleaseEntry DEF GiveUp, ReleaseIfPending, Entry

\* A step makes one entry at most, and never charges or releases twice.
LEMMA NextEntry ==
    ASSUME QuestionInv, Next
    PROVE  UNCHANGED credits \/ \E r \in Request : Entry(r)
  <1>1. TypeOK
    BY DEF QuestionInv
  <1>2. ASSUME NEW w \in Worker, Question(w)
        PROVE  Mine(w) \in Request /\ (UNCHANGED credits \/ Entry(Mine(w)))
    <2>1. Mine(w) \in Request
      <3>1. ~At(w, "idle")
        BY <1>2 DEF Question, ClassifyParallel, ContextFirst, Classified, CacheHit, ServeCached,
           CacheMiss, Filtered, FailClosed, RejectTopic, AcceptTopic, Checkpoint, Generate,
           PersistAnswer, Finally, At
      <3>2. QED BY <1>1, <3>1, JobOfTask
    <2>2. CASE ClassifyParallel(w) \/ CacheMiss(w)
      <3>1. UNCHANGED credits \/ reserve_credits(Mine(w))
        BY <2>2 DEF ClassifyParallel, CacheMiss, ReserveThen
      <3>2. QED BY <1>1, <2>1, <3>1, ReserveEntry
    <2>3. CASE PersistAnswer(w)
      <3>1. PhaseOf(w, Mine(w)) /\ worker[w].pc \in Asking
        <4>1. Holds(w) /\ worker[w].pc \in Asking
          BY <2>3 DEF PersistAnswer, At, Asking
        <4>2. QED BY <2>1, <4>1, Asks
      <3>2. \/ UNCHANGED credits
            \/ worker[w].reserved /\ commit_credit_reservation(Mine(w))
        BY <2>3 DEF PersistAnswer, StoreAnswer
      <3>3. QED BY <1>1, <2>1, <3>1, <3>2, ChargeEntry DEF PhaseOf
    <2>4. CASE Finally(w)
      <3>1. worker[w].reserved => reservation[Mine(w)] = "pending"
        <4>1. ~At(w, "idle") /\ Holds(w) /\ At(w, "finally")
          BY <2>4 DEF Finally, At
        <4>2. PhaseOf(w, Mine(w))
          BY <4>1, Base
        <4>3. QED BY <4>1, <4>2 DEF PhaseOf, Owing
      <3>2. \/ UNCHANGED credits
            \/ worker[w].reserved /\ release_credit_reservation(Mine(w))
        <4>1. CASE worker[w].reserved
          BY <2>4, <4>1 DEF Finally
        <4>2. CASE ~worker[w].reserved
          BY <2>4, <4>2 DEF Finally
        <4>3. QED BY <4>1, <4>2
      <3>3. QED BY <1>1, <2>1, <3>1, <3>2, ReleaseEntry
    <2>5. CASE ContextFirst(w) \/ Classified(w) \/ CacheHit(w) \/ ServeCached(w) \/ Filtered(w)
      BY <2>1, <2>5 DEF ContextFirst, Classified, CacheHit, ServeCached, Filtered
    <2>6. CASE FailClosed(w) \/ RejectTopic(w) \/ AcceptTopic(w) \/ Checkpoint(w) \/ Generate(w)
      BY <2>1, <2>6 DEF FailClosed, RejectTopic, AcceptTopic, Checkpoint, Generate
    <2>7. QED BY <1>2, <2>2, <2>3, <2>4, <2>5, <2>6 DEF Question
  <1>3. ASSUME NEW w \in Worker, ResumeAnswer(w)
        PROVE  Mine(w) \in Request /\ (UNCHANGED credits \/ Entry(Mine(w)))
    <2>1. Holds(w) /\ worker[w].pc = "resume" /\ ~At(w, "idle")
      BY <1>3 DEF ResumeAnswer, At
    <2>2. Mine(w) \in Request
      BY <1>1, <2>1, JobOfTask
    <2>3. FundsOf(Mine(w))
      BY <2>1, <2>2, Asks
    <2>4. \/ UNCHANGED credits
          \/ question[Mine(w)].delivery = "paid" /\ commit_credit_reservation(Mine(w))
      BY <1>3 DEF ResumeAnswer, StoreAnswer
    <2>5. QED BY <1>1, <2>2, <2>3, <2>4, ChargeEntry DEF FundsOf
  <1>4. ASSUME NEW w \in Worker, ResumeFails(w) \/ Recover(w)
        PROVE  Mine(w) \in Request /\ Entry(Mine(w))
    <2>1. ~At(w, "idle") /\ GiveUp(Mine(w))
      BY <1>4 DEF ResumeFails, Recover, At
    <2>2. QED BY <1>1, <2>1, JobOfTask, GiveUpEntry
  <1>5. ASSUME NEW r \in Request, RecoverOrphan(r) PROVE Entry(r)
    BY <1>1, <1>5, GiveUpEntry DEF RecoverOrphan
  <1>6. ASSUME NEW w \in Worker, Step(w)
        PROVE  UNCHANGED credits \/ \E r \in Request : Entry(r)
    <2>1. CASE Question(w) \/ ResumeAnswer(w) \/ ResumeFails(w) \/ Recover(w)
      BY <1>2, <1>3, <1>4, <2>1
    <2>2. CASE ~(Question(w) \/ ResumeAnswer(w) \/ ResumeFails(w) \/ Recover(w))
      BY <1>6, <2>2 DEF Step, Claim, Acquire, Busy, Leave, Settle, GateDuplicate, GateReject,
         GateAccept, Handler, SendReply, LeaseLost
    <2>3. QED BY <2>1, <2>2
  <1>7. CASE Time
    BY <1>5, <1>7 DEF Time, Enqueue, Backoff, JobGoesStale, LeaseExpires
  <1>8. QED BY <1>6, <1>7 DEF Next, Error, LeaveFails, Cancel, Crash

Finite == \A u \in User : IsFiniteSet(Pending(u)) /\ IsFiniteSet(Charges(u))

LEMMA LedgerStep ==
    ASSUME TypeOK, Finite, LedgerAgrees, Solvent', NEW r \in Request, Entry(r)
    PROVE  Finite' /\ LedgerAgrees'
  <1>1. Owner(r) \in User /\ Cost \in Nat
    BY UserAssumption, BoundAssumption DEF Owner
  <1>2. ASSUME NEW u \in User
        PROVE  /\ Cardinality(Pending(u)) \in Nat /\ Cardinality(Charges(u)) \in Nat
               /\ account[u] \in [balance : Nat, reserved : Nat] /\ Granted[u] \in Nat
               /\ account[u].reserved = Cost * Cardinality(Pending(u))
               /\ account[u].balance = Granted[u] - Cost * Cardinality(Charges(u))
    BY FS_CardinalityType, UserAssumption DEF Finite, LedgerAgrees, TypeOK
  <1>3. ASSUME NEW u \in User, Pending(u)' = Pending(u), Charges(u)' = Charges(u),
               account'[u] = account[u]
        PROVE  /\ IsFiniteSet(Pending(u))' /\ IsFiniteSet(Charges(u))'
               /\ (account[u].reserved = Cost * Cardinality(Pending(u)))'
               /\ (account[u].balance = Granted[u] - Cost * Cardinality(Charges(u)))'
    BY <1>2, <1>3 DEF Finite
  <1>4. SUFFICES ASSUME NEW u \in User
                 PROVE  /\ IsFiniteSet(Pending(u))' /\ IsFiniteSet(Charges(u))'
                        /\ (account[u].reserved = Cost * Cardinality(Pending(u)))'
                        /\ (account[u].balance = Granted[u] - Cost * Cardinality(Charges(u)))'
    BY DEF Finite, LedgerAgrees, Solvent
  <1>5. CASE UNCHANGED credits
    BY <1>3, <1>5 DEF credits, Pending, Charges
  <1>6. CASE u # Owner(r) /\ (Held(r) \/ Taken(r) \/ Returned(r))
    <2>1. account'[u] = account[u]
      BY <1>6 DEF Held, Taken, Returned, TypeOK
    <2>2. \A q \in Request : Owner(q) = u => reservation'[q] = reservation[q]
                                              /\ (q \in charged' <=> q \in charged)
      BY <1>6 DEF Held, Taken, Returned, TypeOK
    <2>3. Pending(u)' = Pending(u)
      BY <2>2 DEF Pending
    <2>4. Charges(u)' = Charges(u)
      <3>1. charged \subseteq Request /\ charged' \subseteq Request
        BY <1>6 DEF Held, Taken, Returned, TypeOK
      <3>2. QED BY <2>2, <3>1 DEF Charges
    <2>5. QED BY <1>3, <2>1, <2>3, <2>4
  <1>7. CASE u = Owner(r) /\ Held(r)
    <2>1. Pending(u)' = Pending(u) \union {r} /\ r \notin Pending(u)
      BY <1>7 DEF Held, Pending, TypeOK
    <2>2. Charges(u)' = Charges(u)
      BY <1>7 DEF Held, Charges
    <2>3. IsFiniteSet(Pending(u)') /\ Cardinality(Pending(u)') = Cardinality(Pending(u)) + 1
      BY <2>1, FS_AddElement DEF Finite
    <2>4. account'[u].reserved = account[u].reserved + Cost
          /\ account'[u].balance = account[u].balance
      BY <1>2, <1>7 DEF Held, TypeOK
    <2>5. Cost * (Cardinality(Pending(u)) + 1) = Cost * Cardinality(Pending(u)) + Cost
      BY <1>1, <1>2
    <2>6. QED BY <1>2, <2>2, <2>3, <2>4, <2>5 DEF Finite
  <1>8. ASSUME u = Owner(r), reservation[r] = "pending",
               \E s \in {"committed", "released"} : reservation' = [reservation EXCEPT ![r] = s],
               account'[u].reserved = account[u].reserved - Cost
        PROVE  IsFiniteSet(Pending(u))' /\ (account[u].reserved = Cost * Cardinality(Pending(u)))'
    <2>1. Pending(u)' = Pending(u) \ {r} /\ r \in Pending(u)
      BY <1>8 DEF Pending, TypeOK
    <2>2. IsFiniteSet(Pending(u)') /\ Cardinality(Pending(u)') = Cardinality(Pending(u)) - 1
      BY <2>1, FS_RemoveElement DEF Finite
    <2>3. Cost * (Cardinality(Pending(u)) - 1) = Cost * Cardinality(Pending(u)) - Cost
      BY <1>1, <1>2
    <2>4. QED BY <1>2, <1>8, <2>2, <2>3
  <1>9. CASE u = Owner(r) /\ Taken(r)
    <2>1. account'[u].reserved = account[u].reserved - Cost
          /\ account'[u].balance = account[u].balance - Cost
      BY <1>9 DEF Taken, TypeOK
    <2>2. IsFiniteSet(Pending(u))' /\ (account[u].reserved = Cost * Cardinality(Pending(u)))'
      BY <1>8, <1>9, <2>1 DEF Taken
    <2>3. Charges(u)' = Charges(u) \union {r} /\ r \notin Charges(u)
      BY <1>9 DEF Taken, Charges
    <2>4. IsFiniteSet(Charges(u)') /\ Cardinality(Charges(u)') = Cardinality(Charges(u)) + 1
      BY <2>3, FS_AddElement DEF Finite
    <2>5. Cost * (Cardinality(Charges(u)) + 1) = Cost * Cardinality(Charges(u)) + Cost
      BY <1>1, <1>2
    <2>6. /\ Cost * Cardinality(Charges(u)) \in Nat
          /\ account[u].balance \in Nat /\ Granted[u] \in Nat
      BY <1>1, <1>2
    <2>7. account'[u].balance = Granted[u] - Cost * Cardinality(Charges(u)')
      BY <1>1, <1>2, <2>1, <2>4, <2>5, <2>6
    <2>8. QED BY <2>2, <2>4, <2>7
  <1>10. CASE u = Owner(r) /\ Returned(r)
    <2>1. account'[u].reserved = account[u].reserved - Cost
          /\ account'[u].balance = account[u].balance
      BY <1>2, <1>10 DEF Returned, TypeOK
    <2>2. IsFiniteSet(Pending(u))' /\ (account[u].reserved = Cost * Cardinality(Pending(u)))'
      BY <1>8, <1>10, <2>1 DEF Returned
    <2>3. Charges(u)' = Charges(u)
      BY <1>10 DEF Returned, Charges
    <2>4. QED BY <1>2, <2>1, <2>2, <2>3 DEF Finite
  <1>11. QED BY <1>5, <1>6, <1>7, <1>9, <1>10 DEF Entry

\* The amounts of every account are the sums of its ledger: what reserve, commit and
\* release_credit_reservation have booked, and never more than the balance.
THEOREM LedgerAddsUp == Spec => [](LedgerAgrees /\ Finite)
  <1>1. Init => LedgerAgrees /\ Finite
    <2>1. SUFFICES ASSUME Init, NEW u \in User
                   PROVE  /\ Pending(u) = {} /\ Charges(u) = {}
                          /\ account[u].reserved = Cost * 0
                          /\ account[u].balance = Granted[u] - Cost * 0
                          /\ account[u].reserved <= account[u].balance
      BY FS_EmptySet DEF LedgerAgrees, Finite
    <2>2. Granted[u] \in Nat /\ Cost * 0 = 0
      BY UserAssumption, BoundAssumption
    <2>3. QED BY <2>1, <2>2 DEF Init, Pending, Charges
  <1>2. QuestionInv /\ QuestionInv' /\ LedgerAgrees /\ Finite /\ [Next]_vars
          => (LedgerAgrees /\ Finite)'
    <2>1. SUFFICES ASSUME QuestionInv, QuestionInv', LedgerAgrees, Finite, [Next]_vars
                   PROVE  (LedgerAgrees /\ Finite)'
      OBVIOUS
    <2>2. UNCHANGED credits \/ \E r \in Request : Entry(r)
      BY <2>1, NextEntry DEF vars
    <2>3. CASE UNCHANGED credits
      BY <2>1, <2>3 DEF credits, LedgerAgrees, Finite, Pending, Charges
    <2>4. CASE \E r \in Request : Entry(r)
      BY <2>1, <2>4, LedgerStep DEF QuestionInv
    <2>5. QED BY <2>2, <2>3, <2>4
  <1>3. QED BY <1>1, <1>2, QuestionInvariant, PTL DEF Spec

\* The checkpoint of a paid question always has its reservation behind it, so that
\* commit_credit_reservation does not fail when the answer is stored.
THEOREM DraftCovered == Spec => []DraftIsCovered
  <1>1. QuestionInv /\ LedgerAgrees /\ Finite => DraftIsCovered
    <2>1. SUFFICES ASSUME QuestionInv, LedgerAgrees, Finite PROVE DraftIsCovered
      OBVIOUS
    <2>2. ASSUME NEW r \in Request, question[r].delivery = "paid"
          PROVE  reservation[r] = "pending" /\ r \notin charged \union released
      BY <2>1, <2>2 DEF QuestionInv, RowOf, FundsOf
    <2>3. ASSUME NEW w \in Worker, At(w, "persist"), Holds(w), worker[w].reserved
          PROVE  question[Mine(w)].delivery = "paid" /\ CanCharge(Mine(w))
      <3>1. worker[w].pc \in Asking /\ ~At(w, "idle")
        BY <2>3 DEF At, Asking
      <3>2. PICK r \in Request : r = Mine(w)
        BY <2>1, <3>1, Base
      <3>3. question[r].delivery = "paid" /\ reservation[r] = "pending"
        BY <2>1, <2>2, <2>3, <3>1, <3>2, Asks DEF PhaseOf, At
      <3>4. PICK u \in User : u = Owner(r)
        BY UserAssumption DEF Owner
      <3>5. /\ Cardinality(Pending(u)) \in Nat /\ Cardinality(Pending(u)) # 0
            /\ account[u].reserved = Cost * Cardinality(Pending(u))
        <4>1. r \in Pending(u)
          BY <3>3, <3>4 DEF Pending
        <4>2. IsFiniteSet(Pending(u))
          BY <2>1 DEF Finite
        <4>3. QED BY <2>1, <4>1, <4>2, FS_CardinalityType, FS_EmptySet DEF LedgerAgrees
      <3>6. Cost * Cardinality(Pending(u)) >= Cost
        <4>1. PICK n \in Nat : Cardinality(Pending(u)) = n + 1
          <5>1. Cardinality(Pending(u)) - 1 \in Nat
            BY <3>5
          <5>2. QED BY <3>5, <5>1
        <4>2. Cost \in Nat /\ Cost * n \in Nat /\ Cost * (n + 1) = Cost * n + Cost
          BY BoundAssumption
        <4>3. QED BY <4>1, <4>2
      <3>7. QED BY <3>2, <3>3, <3>4, <3>5, <3>6 DEF CanCharge
    <2>4. QED BY <2>2, <2>3 DEF DraftIsCovered
  <1>2. QED BY <1>1, QuestionInvariant, LedgerAddsUp, PTL

-----------------------------------------------------------------------------
(* What is decided stays.                                                  *)

LEMMA Decided ==
    ASSUME QuestionInv, Next, NEW r \in Request, question[r].status \in Final
    PROVE  question'[r] = question[r]
  <1>1. TypeOK
    BY DEF QuestionInv
  <1>2. ASSUME NEW w \in Worker, Holds(w),
               worker[w].pc \in Asking \union {"resume", "recover"}
        PROVE  Mine(w) # r
    BY <1>2, Asks DEF Open, Final
  <1>3. ASSUME NEW w \in Worker, Question(w) PROVE question'[r] = question[r]
    <2>1. CASE CacheHit(w) \/ ServeCached(w)
      <3>1. Mine(w) # r
        BY <1>2, <2>1 DEF CacheHit, ServeCached, At, Asking
      <3>2. QED BY <1>1, <2>1, <3>1 DEF CacheHit, ServeCached, TypeOK
    <2>2. CASE FailClosed(w) \/ RejectTopic(w) \/ AcceptTopic(w)
      <3>1. Mine(w) # r
        BY <1>2, <2>2 DEF FailClosed, RejectTopic, AcceptTopic, At, Asking
      <3>2. QED BY <1>1, <2>2, <3>1 DEF FailClosed, RejectTopic, AcceptTopic, TypeOK
    <2>3. CASE Checkpoint(w) \/ PersistAnswer(w)
      <3>1. Mine(w) # r
        BY <1>2, <2>3 DEF Checkpoint, PersistAnswer, At, Asking
      <3>2. QED BY <1>1, <2>3, <3>1 DEF Checkpoint, PersistAnswer, StoreAnswer, TypeOK
    <2>4. CASE \/ ClassifyParallel(w) \/ ContextFirst(w) \/ Classified(w)
               \/ CacheMiss(w) \/ Filtered(w) \/ Generate(w) \/ Finally(w)
      BY <2>4 DEF ClassifyParallel, ContextFirst, Classified, CacheMiss, Filtered, Generate,
         Finally
    <2>5. QED BY <1>3, <2>1, <2>2, <2>3, <2>4 DEF Question
  <1>4. ASSUME NEW w \in Worker, GateAccept(w) PROVE question'[r] = question[r]
    <2>1. Mine(w) # r
      <3>1. Mine(w) \notin marked
        BY <1>4 DEF GateAccept
      <3>2. r \in marked
        BY DEF QuestionInv, RowOf, Untouched, Final
      <3>3. QED BY <3>1, <3>2
    <2>2. QED BY <1>1, <1>4, <2>1 DEF GateAccept, TypeOK
  <1>5. ASSUME NEW w \in Worker, ResumeAnswer(w) \/ ResumeFails(w) \/ Recover(w)
        PROVE  question'[r] = question[r]
    <2>1. Mine(w) # r
      BY <1>2, <1>5 DEF ResumeAnswer, ResumeFails, Recover, At
    <2>2. QED BY <1>1, <1>5, <2>1 DEF ResumeAnswer, ResumeFails, Recover, StoreAnswer, GiveUp,
              TypeOK
  <1>6. ASSUME NEW q \in Request, RecoverOrphan(q) PROVE question'[r] = question[r]
    <2>1. q # r
      BY <1>6 DEF RecoverOrphan, Orphan, Open, Final
    <2>2. QED BY <1>1, <1>6, <2>1 DEF RecoverOrphan, GiveUp, TypeOK
  <1>7. ASSUME NEW w \in Worker, Step(w) PROVE question'[r] = question[r]
    <2>1. CASE \/ (\E q \in Request : Claim(w, q)) \/ Acquire(w) \/ Busy(w) \/ Leave(w)
               \/ Settle(w) \/ GateDuplicate(w) \/ GateReject(w) \/ Handler(w)
               \/ SendReply(w) \/ LeaseLost(w)
      BY <2>1 DEF Claim, Acquire, Busy, Leave, Settle, GateDuplicate, GateReject, Handler,
         SendReply, LeaseLost
    <2>2. QED BY <1>3, <1>4, <1>5, <1>7, <2>1 DEF Step
  <1>8. CASE Time
    BY <1>6, <1>8 DEF Time, Enqueue, Backoff, JobGoesStale, LeaseExpires
  <1>9. QED BY <1>7, <1>8 DEF Next, Error, LeaveFails, Cancel, Crash

\* A question that was answered, rejected or given up is not touched again: neither
\* by the attempt that finds it, nor by one that lost its lease, nor by maintenance.
THEOREM SettledStays == Spec => SettledForGood
  <1>1. QuestionInv /\ [Next]_vars =>
          [\A r \in Request : question[r].status \in Final =>
              question'[r].status = question[r].status]_vars
    BY Decided
  <1>2. QED BY <1>1, QuestionInvariant, PTL DEF Spec, SettledForGood
-----------------------------------------------------------------------------
(* QuestionFlow keeps QuestionPromise: with the rows, the ledger and what  *)
(* users were told mapped as in Promise, the initial state of the bot is   *)
(* the initial state of the promise, and each of its steps is a step of    *)
(* the promise for one question, or none.  A step depends on the question  *)
(* in its row and in its ledger as QuestionInv describes them.             *)

\* The variables of the promise.
fate == [r \in Request |-> question[r].status]
funds == [r \in Request |-> Funds(r)]
excused == {r \in Request : ~(told[r] \subseteq {"early"})}

\* Nothing that the promise is about changes.
Silent == /\ \A q \in Request : question'[q].status = question[q].status
          /\ \A q \in Request : reservation'[q] = reservation[q]
          /\ \A q \in Request : told'[q] \subseteq {"early"} <=> told[q] \subseteq {"early"}

\* Nothing but r.
Only(r) == /\ \A q \in Request \ {r} : question'[q].status = question[q].status
           /\ \A q \in Request \ {r} : reservation'[q] = reservation[q]
           /\ \A q \in Request \ {r} : told'[q] = told[q]

Heard(r) == ~(told[r] \subseteq {"early"})

LEMMA SilentStep ==
    ASSUME Silent
    PROVE  UNCHANGED Promise!vars
  BY DEF Silent, Promise!vars, Funds

LEMMA View ==
    ASSUME NEW r \in Request, Only(r)
    PROVE  /\ fate' = [fate EXCEPT ![r] = question'[r].status]
           /\ fate[r] = question[r].status
           /\ funds' = [funds EXCEPT ![r] = Funds(r)']
           /\ funds[r] = Funds(r)
           /\ excused' = IF Heard(r)' THEN excused \union {r} ELSE excused \ {r}
           /\ r \in excused <=> Heard(r)
  BY DEF Only, fate, funds, excused, Funds, Heard

LEMMA FundsValue ==
    ASSUME NEW r \in Request
    PROVE  /\ reservation[r] = "none" => Funds(r) = "none"
           /\ reservation[r] = "pending" => Funds(r) = "held"
           /\ reservation[r] = "committed" => Funds(r) = "charged"
           /\ reservation[r] = "released" => Funds(r) = "returned"
  BY DEF Funds

LEMMA FundsNext ==
    ASSUME NEW r \in Request
    PROVE  /\ reservation'[r] = "none" => Funds(r)' = "none"
           /\ reservation'[r] = "pending" => Funds(r)' = "held"
           /\ reservation'[r] = "committed" => Funds(r)' = "charged"
           /\ reservation'[r] = "released" => Funds(r)' = "returned"
           /\ reservation'[r] = reservation[r] => Funds(r)' = Funds(r)
  BY DEF Funds

-----------------------------------------------------------------------------
(* Steps of the promise, seen from the row and the ledger of the question. *)

LEMMA Accepts ==
    ASSUME NEW r \in Request, Only(r), ~Heard(r), told'[r] = told[r],
           question[r].status = "none", question'[r].status = "pending",
           reservation'[r] = reservation[r]
    PROVE  Promise!Next
  <1>1. Promise!Accept(r)
    <2>1. /\ fate[r] = "none" /\ r \notin excused
          /\ fate' = [fate EXCEPT ![r] = "pending"]
          /\ funds' = funds /\ excused' = excused
      BY View, FundsNext DEF Heard, funds
    <2>2. QED BY <2>1 DEF Promise!Accept, fate, funds, excused
  <1>2. QED BY <1>1 DEF Promise!Next

LEMMA Holding ==
    ASSUME NEW r \in Request, Only(r), ~Heard(r), told'[r] = told[r],
           question[r].status = "pending", question'[r].status = question[r].status,
           reservation[r] = "none", reservation'[r] = "pending"
    PROVE  Promise!Next
  <1>1. Promise!Hold(r)
    <2>1. /\ fate[r] = "pending" /\ funds[r] = "none" /\ r \notin excused
          /\ funds' = [funds EXCEPT ![r] = "held"]
          /\ fate' = fate /\ excused' = excused
      BY View, FundsValue, FundsNext DEF Heard, fate
    <2>2. QED BY <2>1 DEF Promise!Hold, fate, funds, excused
  <1>2. QED BY <1>1 DEF Promise!Next

LEMMA Progresses ==
    ASSUME NEW r \in Request, Only(r), ~Heard(r), told'[r] = told[r],
           question[r].status = "pending", question'[r].status = "processing",
           reservation'[r] = reservation[r]
    PROVE  Promise!Next
  <1>1. Promise!Progress(r)
    <2>1. /\ fate[r] = "pending" /\ r \notin excused
          /\ fate' = [fate EXCEPT ![r] = "processing"]
          /\ funds' = funds /\ excused' = excused
      BY View, FundsNext DEF Heard, funds
    <2>2. QED BY <2>1 DEF Promise!Progress, fate, funds, excused
  <1>2. QED BY <1>1 DEF Promise!Next

LEMMA Answers ==
    ASSUME NEW r \in Request, Only(r), ~Heard(r), told'[r] = told[r],
           question[r].status = "processing", question'[r].status = "answered",
           \/ reservation[r] = "pending" /\ reservation'[r] \in {"pending", "committed"}
           \/ reservation[r] = "none" /\ reservation'[r] = reservation[r]
    PROVE  Promise!Next
  <1>1. Promise!Answer(r)
    <2>1. /\ fate[r] = "processing" /\ r \notin excused /\ funds[r] # "returned"
          /\ fate' = [fate EXCEPT ![r] = "answered"]
          /\ \/ funds[r] = "held" /\ funds' = [funds EXCEPT ![r] = "charged"]
             \/ funds' = funds
          /\ excused' = excused
      BY View, FundsValue, FundsNext DEF Heard, funds
    <2>2. QED BY <2>1 DEF Promise!Answer, fate, funds, excused
  <1>2. QED BY <1>1 DEF Promise!Next

LEMMA Declines ==
    ASSUME NEW r \in Request, Only(r), question[r].status \in Open,
           question'[r].status \in {"rejected", "failed"},
           \/ reservation[r] = "pending" /\ reservation'[r] = "released"
           \/ reservation'[r] = reservation[r],
           told[r] \subseteq told'[r]
    PROVE  Promise!Next
  <1>1. Promise!Decline(r)
    <2>1. /\ fate[r] \in Open
          /\ fate' \in {[fate EXCEPT ![r] = "rejected"], [fate EXCEPT ![r] = "failed"]}
          /\ \/ funds[r] = "held" /\ funds' = [funds EXCEPT ![r] = "returned"]
             \/ funds' = funds
          /\ excused' \in {excused, excused \union {r}}
      BY View, FundsValue, FundsNext DEF Heard, funds
    <2>2. QED BY <2>1 DEF Promise!Decline, Promise!Open, Open, fate, funds, excused
  <1>2. QED BY <1>1 DEF Promise!Next

LEMMA Returns ==
    ASSUME NEW r \in Request, Only(r), question'[r].status = question[r].status,
           reservation[r] = "pending", reservation'[r] = "released", told'[r] = told[r]
    PROVE  Promise!Next
  <1>1. Promise!Return(r)
    <2>1. funds[r] = "held" /\ funds' = [funds EXCEPT ![r] = "returned"]
      BY View, FundsValue, FundsNext
    <2>2. fate' = fate
      BY DEF Only, fate
    <2>3. excused' = excused
      BY DEF Only, excused
    <2>4. QED BY <2>1, <2>2, <2>3 DEF Promise!Return, fate, funds, excused
  <1>2. QED BY <1>1 DEF Promise!Next

LEMMA Excusing ==
    ASSUME NEW r \in Request, Only(r), question'[r].status = question[r].status,
           question[r].status # "answered", reservation'[r] = reservation[r], Heard(r)'
    PROVE  Promise!Next
  <1>1. Promise!Excuse(r)
    <2>1. /\ fate[r] # "answered" /\ excused' = excused \union {r}
          /\ fate' = fate /\ funds' = funds
      BY View, FundsNext DEF fate, funds
    <2>2. QED BY <2>1 DEF Promise!Excuse, fate, funds, excused
  <1>2. QED BY <1>1 DEF Promise!Next

-----------------------------------------------------------------------------
(* Steps of the bot.                                                       *)

\* What a task that may answer knows of its question.
LEMMA Known ==
    ASSUME QuestionInv, NEW w \in Worker, Holds(w), worker[w].pc \in Asking \union {"resume"}
    PROVE  \E r \in Request :
               /\ r = Mine(w) /\ TypeOK /\ PhaseOf(w, r) /\ RowOf(r) /\ FundsOf(r) /\ ~Heard(r)
               /\ question[r].status \in Open /\ question[r] \in QuestionRow
               /\ worker[w] \in Task
  <1>1. ~At(w, "idle") /\ worker[w].pc # "recover"
    BY DEF At, Asking
  <1>2. PICK r \in Request : r = Mine(w)
    BY <1>1, Base
  <1>3. /\ TypeOK /\ PhaseOf(w, r) /\ FundsOf(r) /\ question[r].status \in Open
        /\ ~Excused(r) /\ question[r] \in QuestionRow /\ worker[w] \in Task
    BY <1>1, <1>2, Asks
  <1>4. ~Heard(r) /\ RowOf(r)
    BY <1>3 DEF QuestionInv, Excused, Heard
  <1>5. QED BY <1>2, <1>3, <1>4

LEMMA GateAcceptPromise ==
    ASSUME QuestionInv, NEW w \in Worker, GateAccept(w)
    PROVE  Promise!Next
  <1>1. ~At(w, "idle") /\ TypeOK
    BY DEF GateAccept, At, QuestionInv
  <1>2. PICK r \in Request : r = Mine(w)
    BY <1>1, Base
  <1>3. r \notin marked /\ RowOf(r)
    BY <1>2 DEF GateAccept, QuestionInv
  <1>4. ~Heard(r) /\ question[r].status = "none"
    BY <1>3 DEF RowOf, Untouched, Excused, ExcuseOf, Heard
  <1>5. question' = [question EXCEPT ![r] = [status |-> "pending", delivery |-> "none"]]
        /\ UNCHANGED credits /\ told' = told
    BY <1>2 DEF GateAccept
  <1>6. question'[r].status = "pending" /\ Only(r) /\ reservation' = reservation
    BY <1>1, <1>5 DEF TypeOK, Only, credits
  <1>7. QED BY <1>4, <1>5, <1>6, Accepts

LEMMA ReservePromise ==
    ASSUME QuestionInv, NEW w \in Worker, ClassifyParallel(w) \/ CacheMiss(w)
    PROVE  Promise!Next \/ Silent
  <1>1. Holds(w) /\ worker[w].pc \in {"received", "cache"}
    BY DEF ClassifyParallel, CacheMiss, At
  <1>2. worker[w].pc \in Asking /\ Undecided(w)
    BY <1>1 DEF Asking, Undecided
  <1>3. PICK r \in Request : r = Mine(w) /\ TypeOK /\ PhaseOf(w, r) /\ ~Heard(r)
    BY <1>1, <1>2, Known
  <1>4. question' = question /\ told' = told /\ question[r].status = "pending"
    BY <1>2, <1>3 DEF ClassifyParallel, CacheMiss, PhaseOf
  <1>5. CASE UNCHANGED credits
    BY <1>4, <1>5 DEF Silent, credits
  <1>6. CASE reserve_credits(r) /\ ~UNCHANGED credits
    <2>1. reservation[r] = "none" /\ reservation' = [reservation EXCEPT ![r] = "pending"]
      BY <1>6 DEF reserve_credits
    <2>2. reservation'[r] = "pending" /\ Only(r)
      BY <1>3, <1>4, <2>1 DEF TypeOK, Only
    <2>3. QED BY <1>3, <1>4, <2>1, <2>2, Holding
  <1>7. UNCHANGED credits \/ reserve_credits(r)
    BY <1>3 DEF ClassifyParallel, CacheMiss, ReserveThen
  <1>8. QED BY <1>5, <1>6, <1>7

LEMMA TakeUpPromise ==
    ASSUME QuestionInv, NEW w \in Worker, CacheHit(w) \/ AcceptTopic(w)
    PROVE  Promise!Next
  <1>1. Holds(w) /\ worker[w].pc \in Asking /\ Undecided(w)
    BY DEF CacheHit, AcceptTopic, At, Asking, Undecided
  <1>2. PICK r \in Request : /\ r = Mine(w) /\ TypeOK /\ PhaseOf(w, r) /\ ~Heard(r)
                             /\ question[r] \in QuestionRow
    BY <1>1, Known
  <1>3. question' = [question EXCEPT ![r].status = "processing"]
        /\ UNCHANGED credits /\ told' = told
    BY <1>2 DEF CacheHit, AcceptTopic
  <1>4. question[r].status = "pending"
    BY <1>1, <1>2 DEF PhaseOf
  <1>5. question'[r].status = "processing" /\ Only(r) /\ reservation' = reservation
    BY <1>2, <1>3 DEF TypeOK, QuestionRow, Only, credits
  <1>6. QED BY <1>2, <1>3, <1>4, <1>5, Progresses

LEMMA StoredPromise ==
    ASSUME TypeOK, NEW r \in Request, NEW paid \in BOOLEAN, StoreAnswer(r, paid), told' = told,
           question[r].status = "processing", ~Heard(r), FundsOf(r),
           reservation[r] = IF paid THEN "pending" ELSE "none"
    PROVE  Promise!Next
  <1>1. question'[r].status = "answered"
        /\ \A q \in Request \ {r} : question'[q].status = question[q].status
    BY DEF StoreAnswer, TypeOK
  <1>2. CASE paid
    <2>1. r \notin charged
      BY <1>2 DEF FundsOf
    <2>2. reservation' = [reservation EXCEPT ![r] = "committed"]
      BY <1>2, <2>1 DEF StoreAnswer, commit_credit_reservation, TypeOK
    <2>3. reservation'[r] = "committed" /\ Only(r)
      BY <1>1, <2>2 DEF TypeOK, Only
    <2>4. QED BY <1>1, <1>2, <2>3, Answers
  <1>3. CASE ~paid
    <2>1. reservation' = reservation
      BY <1>3 DEF StoreAnswer, credits
    <2>2. Only(r)
      BY <1>1, <2>1 DEF Only
    <2>3. QED BY <1>1, <1>3, <2>1, <2>2, Answers
  <1>4. QED BY <1>2, <1>3

LEMMA AnswerPromise ==
    ASSUME QuestionInv, NEW w \in Worker, ServeCached(w) \/ PersistAnswer(w) \/ ResumeAnswer(w)
    PROVE  Promise!Next
  <1>1. Holds(w) /\ worker[w].pc \in Asking \union {"resume"}
        /\ worker[w].pc \in {"serve", "persist", "resume"}
    BY DEF ServeCached, PersistAnswer, ResumeAnswer, At, Asking
  <1>2. PICK r \in Request : /\ r = Mine(w) /\ TypeOK /\ PhaseOf(w, r) /\ ~Heard(r)
                             /\ RowOf(r) /\ FundsOf(r) /\ question[r] \in QuestionRow
                             /\ worker[w] \in Task
    BY <1>1, Known
  <1>3. question[r].status = "processing" /\ told' = told
    <2>1. CASE worker[w].pc = "resume"
      BY <1>2, <2>1 DEF PhaseOf, RowOf, At, ServeCached, PersistAnswer, ResumeAnswer
    <2>2. CASE worker[w].pc \in {"serve", "persist"}
      BY <1>2, <2>2 DEF PhaseOf, TakenUp, At, ServeCached, PersistAnswer, ResumeAnswer
    <2>3. QED BY <1>1, <2>1, <2>2
  <1>4. worker[w].pc \in Asking =>
           reservation[r] = IF worker[w].reserved THEN "pending" ELSE "none"
    BY <1>2 DEF PhaseOf
  <1>5. worker[w].reserved \in BOOLEAN
    BY <1>2 DEF Task
  <1>6. CASE ServeCached(w)
    <2>1. question' = [question EXCEPT ![r] = [status |-> "answered", delivery |-> "none"]]
          /\ UNCHANGED credits
      BY <1>2, <1>6 DEF ServeCached
    <2>2. question'[r].status = "answered" /\ Only(r) /\ reservation' = reservation
      BY <1>2, <1>3, <2>1 DEF TypeOK, Only, credits
    <2>3. reservation[r] \in {"pending", "none"}
      BY <1>4, <1>6 DEF ServeCached, At, Asking
    <2>4. QED BY <1>2, <1>3, <2>2, <2>3, Answers
  <1>7. CASE PersistAnswer(w)
    <2>1. StoreAnswer(r, worker[w].reserved) /\ worker[w].pc \in Asking
      BY <1>2, <1>7 DEF PersistAnswer, At, Asking
    <2>2. QED BY <1>2, <1>3, <1>4, <1>5, <2>1, StoredPromise
  <1>8. CASE ResumeAnswer(w)
    <2>1. StoreAnswer(r, question[r].delivery = "paid") /\ question[r].delivery # "none"
      BY <1>2, <1>8 DEF ResumeAnswer, PhaseOf
    <2>2. question[r].delivery \in {"free", "paid"}
      BY <1>2, <2>1 DEF QuestionRow
    <2>3. reservation[r] = IF question[r].delivery = "paid" THEN "pending" ELSE "none"
      BY <1>2, <2>2 DEF FundsOf
    <2>4. (question[r].delivery = "paid") \in BOOLEAN
      OBVIOUS
    <2>5. QED BY <1>2, <1>3, <2>1, <2>3, <2>4, StoredPromise
  <1>9. QED BY <1>6, <1>7, <1>8

LEMMA DeclinePromise ==
    ASSUME QuestionInv, NEW w \in Worker, FailClosed(w) \/ RejectTopic(w)
    PROVE  Promise!Next
  <1>1. Holds(w) /\ worker[w].pc \in Asking
    BY DEF FailClosed, RejectTopic, At, Asking
  <1>2. PICK r \in Request : /\ r = Mine(w) /\ TypeOK /\ question[r].status \in Open
                             /\ question[r] \in QuestionRow
    BY <1>1, Known
  <1>3. \/ question' = [question EXCEPT ![r] = [status |-> "failed", delivery |-> "none"]]
        \/ question' = [question EXCEPT ![r].status = "rejected"]
    BY <1>2 DEF FailClosed, RejectTopic
  <1>4. question'[r].status \in {"rejected", "failed"}
        /\ \A q \in Request \ {r} : question'[q].status = question[q].status
    BY <1>2, <1>3 DEF TypeOK, QuestionRow
  <1>5. reservation' = reservation /\ told' = told
    BY DEF FailClosed, RejectTopic, credits
  <1>6. Only(r)
    BY <1>4, <1>5 DEF Only
  <1>7. QED BY <1>2, <1>4, <1>5, <1>6, Declines

LEMMA GiveUpPromise ==
    ASSUME TypeOK, NEW r \in Request, question[r].status \in Open, FundsOf(r), GiveUp(r),
           told' \in {told, [told EXCEPT ![r] = @ \union {"interrupted"}]}
    PROVE  Promise!Next
  <1>1. question'[r].status = "failed"
        /\ \A q \in Request \ {r} : question'[q].status = question[q].status
    BY DEF GiveUp, TypeOK
  <1>2. told[r] \subseteq told'[r] /\ \A q \in Request \ {r} : told'[q] = told[q]
    BY DEF TypeOK
  <1>3. \/ reservation' = reservation
        \/ reservation[r] = "pending" /\ reservation' = [reservation EXCEPT ![r] = "released"]
    BY DEF GiveUp, ReleaseIfPending, release_credit_reservation, credits, TypeOK
  <1>4. \/ reservation[r] = "pending" /\ reservation'[r] = "released"
        \/ reservation'[r] = reservation[r]
    BY <1>3 DEF TypeOK
  <1>5. Only(r)
    BY <1>1, <1>2, <1>3 DEF Only, TypeOK
  <1>6. QED BY <1>1, <1>2, <1>4, <1>5, Declines

LEMMA RecoverPromise ==
    ASSUME QuestionInv, NEW w \in Worker, ResumeFails(w) \/ Recover(w)
    PROVE  Promise!Next
  <1>1. Holds(w) /\ worker[w].pc \in {"resume", "recover"} /\ ~At(w, "idle")
    BY DEF ResumeFails, Recover, At
  <1>2. PICK r \in Request : r = Mine(w)
    BY <1>1, Base
  <1>3. TypeOK /\ FundsOf(r) /\ question[r].status \in Open
    BY <1>1, <1>2, Asks
  <1>4. GiveUp(r) /\ told' = told
    BY <1>2 DEF ResumeFails, Recover
  <1>5. QED BY <1>3, <1>4, GiveUpPromise

LEMMA OrphanPromise ==
    ASSUME QuestionInv, NEW r \in Request, RecoverOrphan(r)
    PROVE  Promise!Next
  BY GiveUpPromise DEF RecoverOrphan, Orphan, QuestionInv, RowOf

LEMMA FinallyPromise ==
    ASSUME QuestionInv, NEW w \in Worker, Finally(w)
    PROVE  Promise!Next \/ Silent
  <1>1. Holds(w) /\ At(w, "finally") /\ ~At(w, "idle")
    BY DEF Finally, At
  <1>2. PICK r \in Request : r = Mine(w) /\ TypeOK /\ PhaseOf(w, r)
    BY <1>1, Base
  <1>3. question' = question /\ told' = told
    BY DEF Finally
  <1>4. CASE UNCHANGED credits
    BY <1>3, <1>4 DEF Silent, credits
  <1>5. CASE worker[w].reserved /\ release_credit_reservation(r) /\ ~UNCHANGED credits
    <2>1. reservation[r] = "pending"
      BY <1>1, <1>2, <1>5 DEF PhaseOf, Owing
    <2>2. reservation' = [reservation EXCEPT ![r] = "released"]
      BY <1>2, <1>5, <2>1 DEF release_credit_reservation, TypeOK
    <2>3. reservation'[r] = "released" /\ Only(r)
      BY <1>2, <1>3, <2>2 DEF TypeOK, Only
    <2>4. QED BY <1>3, <2>1, <2>3, Returns
  <1>6. UNCHANGED credits \/ (worker[w].reserved /\ release_credit_reservation(r))
    <2>1. CASE worker[w].reserved
      BY <1>2, <2>1 DEF Finally
    <2>2. CASE ~worker[w].reserved
      BY <2>2 DEF Finally
    <2>3. QED BY <2>1, <2>2
  <1>7. QED BY <1>4, <1>5, <1>6

\* What a task sends, or may have sent, although it failed.
LEMMA TellPromise ==
    ASSUME QuestionInv, NEW w \in Worker, SendReply(w) \/ Error(w)
    PROVE  Promise!Next \/ Silent
  <1>1. ~At(w, "idle") /\ question' = question /\ reservation' = reservation
    BY DEF SendReply, Error, At, credits
  <1>2. PICK r \in Request : r = Mine(w) /\ TypeOK /\ RowOf(r)
    BY <1>1, Base
  <1>3. CASE told' = told
    BY <1>1, <1>3 DEF Silent
  <1>4. CASE At(w, "reply") /\ told' = [told EXCEPT ![r] = told[r] \union {worker[w].say}]
    <2>1. told'[r] = told[r] \union {worker[w].say} /\ \A q \in Request \ {r} : told'[q] = told[q]
      BY <1>2, <1>4 DEF TypeOK
    <2>2. CASE worker[w].say = "early"
      BY <1>1, <2>1, <2>2 DEF Silent
    <2>3. CASE worker[w].say # "early"
      <3>1. question[r].status # "answered"
        BY <1>2, <1>4, <2>3 DEF RowOf, Excused, ExcuseOf
      <3>2. Heard(r)' /\ Only(r)
        BY <1>1, <2>1, <2>3 DEF Heard, Only
      <3>3. QED BY <1>1, <3>1, <3>2, Excusing
    <2>4. QED BY <2>2, <2>3
  <1>5. \/ told' = told
        \/ At(w, "reply") /\ told' = [told EXCEPT ![r] = told[r] \union {worker[w].say}]
    BY <1>2 DEF SendReply, Error
  <1>6. QED BY <1>3, <1>4, <1>5

LEMMA CheckpointSilent ==
    ASSUME QuestionInv, NEW w \in Worker, Checkpoint(w)
    PROVE  Silent
  <1>1. Holds(w) /\ worker[w].pc \in Asking
    BY DEF Checkpoint, At, Asking
  <1>2. PICK r \in Request : r = Mine(w) /\ TypeOK /\ question[r] \in QuestionRow
    BY <1>1, Known
  <1>3. PICK delivery \in {"free", "paid"} :
          question' = [question EXCEPT ![r].delivery = delivery]
    BY <1>2 DEF Checkpoint
  <1>4. \A q \in Request : question'[q].status = question[q].status
    BY <1>2, <1>3 DEF TypeOK, QuestionRow
  <1>5. reservation' = reservation /\ told' = told
    BY DEF Checkpoint, credits
  <1>6. QED BY <1>4, <1>5 DEF Silent

\* Every step of the bot is a step of the promise, or none.
LEMMA NextPromise ==
    ASSUME QuestionInv, [Next]_vars
    PROVE  [Promise!Next]_(Promise!vars)
  <1> DEFINE Kept == Promise!Next \/ Silent
  <1>1. ASSUME question' = question, reservation' = reservation, told' = told PROVE Kept
    BY <1>1 DEF Silent
  <1>2. ASSUME NEW w \in Worker, Question(w) PROVE Kept
    <2>1. CASE ContextFirst(w) \/ Classified(w) \/ Filtered(w) \/ Generate(w)
      BY <1>1, <2>1 DEF ContextFirst, Classified, Filtered, Generate, credits
    <2>2. QED BY <1>2, <2>1, ReservePromise, TakeUpPromise, AnswerPromise, DeclinePromise,
              FinallyPromise, CheckpointSilent DEF Question
  <1>3. ASSUME NEW w \in Worker, Step(w) PROVE Kept
    <2>1. CASE \/ (\E r \in Request : Claim(w, r)) \/ Acquire(w) \/ Busy(w) \/ Leave(w)
               \/ Settle(w) \/ GateDuplicate(w) \/ GateReject(w) \/ Handler(w) \/ LeaseLost(w)
      <3>1. question' = question /\ told' = told
        BY <2>1 DEF Claim, Acquire, Busy, Leave, Settle, GateDuplicate, GateReject, Handler,
           LeaseLost
      <3>2. reservation' = reservation
        BY <2>1 DEF Claim, Acquire, Busy, Leave, Settle, GateDuplicate, GateReject, Handler,
           LeaseLost, credits
      <3>3. QED BY <1>1, <3>1, <3>2
    <2>2. QED BY <1>2, <1>3, <2>1, GateAcceptPromise, AnswerPromise, RecoverPromise, TellPromise
              DEF Step
  <1>4. ASSUME Time PROVE Kept
    <2>1. CASE \/ \E r \in Request : Enqueue(r) \/ Backoff(r) \/ JobGoesStale(r)
               \/ \E u \in User : LeaseExpires(u)
      BY <1>1, <2>1 DEF Enqueue, Backoff, JobGoesStale, LeaseExpires, credits
    <2>2. QED BY <1>4, <2>1, OrphanPromise DEF Time
  <1>5. ASSUME \/ \E w \in Worker : LeaveFails(w) \/ Cancel(w)
               \/ \E p \in Process : Crash(p)
        PROVE  Kept
    BY <1>1, <1>5 DEF LeaveFails, Cancel, Crash, credits
  <1>6. ASSUME UNCHANGED vars PROVE Kept
    BY <1>1, <1>6 DEF vars, credits
  <1>7. Kept
    BY <1>3, <1>4, <1>5, <1>6, TellPromise DEF Next
  <1>8. QED BY <1>7, SilentStep

LEMMA InitPromise == Init => Promise!Init
  BY DEF Init, Promise!Init, Funds

\* However often a question is attempted, resumed or recovered, its author sees what
\* QuestionPromise allows: it is decided once, charged only with its answer and out of
\* what was held for it, and answered only if no apology was sent.
THEOREM PromiseKept == Spec => KeepsPromise
  <1>1. Init => Promise!Init
    BY InitPromise
  <1>2. QuestionInv /\ [Next]_vars => [Promise!Next]_(Promise!vars)
    BY NextPromise
  <1>3. QED BY <1>1, <1>2, QuestionInvariant, PTL DEF Spec, KeepsPromise, Promise!Spec
=============================================================================
