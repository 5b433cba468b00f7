---------------------------- MODULE ExpertProofs -----------------------------
(***************************************************************************)
(* The generation of an answer, for any number of questions, tasks,        *)
(* processes, configurations and faults.  Only the holder of the lease     *)
(* commits, and what it knows is what is saved: hence a call is begun only *)
(* if none is open, none was lost and no end was found (Barred).           *)
(***************************************************************************)
EXTENDS ExpertGeneration, SequenceTheorems, FiniteSetTheorems, TLAPS

LOCAL INSTANCE SequencesExt

\* What the proof needs of a call: how many requests it sent, and how it ended.
IsRow(r) ==
    /\ r = [pc |-> r.pc, order |-> r.order, at |-> r.at, try |-> r.try, count |-> r.count,
            preferred |-> r.preferred, outcome |-> r.outcome]
    /\ r.count \in Nat

CallShape == call = [w \in Caller |-> call[w]] /\ \A w \in Caller : IsRow(call[w])

IInv == GenerationInv /\ CallShape

-----------------------------------------------------------------------------
(* Steps of a call.                                                        *)

\* A step of a call, whatever it comes to, does not take back a request, and "unknown" is
\* the outcome of a call that is over.
After(x, y) == /\ IsRow(y)
               /\ y.count >= x.count
               /\ y.outcome = "unknown" => y.pc = "done"

LEMMA SendRow ==
    ASSUME NEW x, IsRow(x), x.outcome # "unknown"
    PROVE  After(x, Send(x))
<1>1. CASE x.count >= MaxHttp
  <2> DEFINE y == [x EXCEPT !.pc = "done"]
  <2>1. y = [pc |-> "done", order |-> x.order, at |-> x.at, try |-> x.try, count |-> x.count,
             preferred |-> x.preferred, outcome |-> x.outcome]
    BY DEF IsRow
  <2>2. Send(x) = y
    BY <1>1 DEF Send
  <2> HIDE DEF y
  <2> QED
    BY <2>1, <2>2 DEF After, IsRow
<1>2. CASE ~(x.count >= MaxHttp)
  <2> DEFINE sent == [x EXCEPT !.pc = "waiting"]
             y == [sent EXCEPT !.count = x.count + 1]
  <2>1. Send(x) = y
    BY <1>2 DEF Send
  <2>2. sent = [pc |-> "waiting", order |-> x.order, at |-> x.at, try |-> x.try,
                count |-> x.count, preferred |-> x.preferred, outcome |-> x.outcome]
    BY DEF IsRow
  <2> HIDE DEF sent
  <2>3. y = [pc |-> "waiting", order |-> x.order, at |-> x.at, try |-> x.try,
             count |-> x.count + 1, preferred |-> x.preferred, outcome |-> x.outcome]
    BY <2>2
  <2> HIDE DEF y
  <2> QED
    BY <2>1, <2>3 DEF After, IsRow
<1> QED
  BY <1>1, <1>2

\* A call that starts or goes on becomes a row that follows the one it was.
LEMMA StartRow ==
    ASSUME CallShape, NEW w \in Caller, StartCall(w)
    PROVE  \E x : call' = [call EXCEPT ![w] = x] /\ After(NoCall, x)
<1> DEFINE order == IF MyPreference(w).fresh THEN PreferredFirst(MyPreference(w).variant)
                         ELSE RequestVariants
           preferred == MyPreference(w).variant
           first == [NoCall EXCEPT !.order = order]
           y == [first EXCEPT !.preferred = preferred]
<1>1. call' = [call EXCEPT ![w] = Send(y)]
  BY DEF StartCall, Becomes
<1> HIDE DEF order, preferred
<1>2. first = [pc |-> "none", order |-> order, at |-> 1, try |-> 1, count |-> 0,
               preferred |-> "none", outcome |-> "none"]
  BY DEF NoCall
<1> HIDE DEF first
<1>3. y = [pc |-> "none", order |-> order, at |-> 1, try |-> 1, count |-> 0,
           preferred |-> preferred, outcome |-> "none"]
  BY <1>2
<1> HIDE DEF y
<1>4. IsRow(y)
  BY <1>3 DEF IsRow
<1>5. y.outcome # "unknown" /\ y.count = 0 /\ NoCall.count = 0
  BY <1>3 DEF NoCall
<1>6. After(y, Send(y))
  BY <1>4, <1>5, SendRow
<1> QED
  BY <1>1, <1>5, <1>6 DEF After

LEMMA StepRow ==
    ASSUME CallShape, CallInv, NEW w \in Caller, CallStep(w)
    PROVE  /\ call[w].pc \notin {"none", "done"}
           /\ \E x : call' = [call EXCEPT ![w] = x] /\ After(call[w], x)
<1>1. IsRow(call[w]) /\ call[w].count \in Nat
  BY DEF CallShape, IsRow
<1>2. ASSUME NEW o, Becomes(w, [call[w] EXCEPT !.pc = "done", !.outcome = o])
      PROVE  \E x : call' = [call EXCEPT ![w] = x] /\ After(call[w], x)
  <2> DEFINE over == [call[w] EXCEPT !.pc = "done"]
             y == [over EXCEPT !.outcome = o]
  <2>1. call' = [call EXCEPT ![w] = y]
    BY <1>2 DEF Becomes
  <2>2. over = [pc |-> "done", order |-> call[w].order, at |-> call[w].at, try |-> call[w].try,
                count |-> call[w].count, preferred |-> call[w].preferred,
                outcome |-> call[w].outcome]
    BY <1>1 DEF IsRow
  <2> HIDE DEF over
  <2>3. y = [pc |-> "done", order |-> call[w].order, at |-> call[w].at, try |-> call[w].try,
             count |-> call[w].count, preferred |-> call[w].preferred, outcome |-> o]
    BY <2>2
  <2> HIDE DEF y
  <2>4. After(call[w], y)
    BY <1>1, <2>3 DEF After, IsRow
  <2> QED
    BY <2>1, <2>4
<1>3. CASE Answered(w)
  BY <1>2, <1>3 DEF Answered
<1>4. CASE \E reply \in Reply : Refused(w, reply)
  BY <1>2, <1>4 DEF Refused
<1>5. CASE Deadline(w)
  BY <1>2, <1>5 DEF Deadline
<1>6. CASE Busy(w)
  <2> DEFINE later == [call[w] EXCEPT !.pc = "backoff"]
             y == [later EXCEPT !.outcome = "busy"]
  <2>1. call' = [call EXCEPT ![w] = y] /\ call[w].pc = "waiting"
    BY <1>6 DEF Busy, Becomes
  <2>2. later = [pc |-> "backoff", order |-> call[w].order, at |-> call[w].at,
                 try |-> call[w].try, count |-> call[w].count,
                 preferred |-> call[w].preferred, outcome |-> call[w].outcome]
    BY <1>1 DEF IsRow
  <2> HIDE DEF later
  <2>3. y = [pc |-> "backoff", order |-> call[w].order, at |-> call[w].at, try |-> call[w].try,
             count |-> call[w].count, preferred |-> call[w].preferred, outcome |-> "busy"]
    BY <2>2
  <2> HIDE DEF y
  <2>4. After(call[w], y)
    BY <1>1, <2>3 DEF After, IsRow
  <2> QED
    BY <2>1, <2>4
<1>7. CASE Retry(w)
  <2> DEFINE y == [call[w] EXCEPT !.try = @ + 1]
  <2>1. call' = [call EXCEPT ![w] = Send(y)] /\ call[w].pc = "backoff"
    BY <1>7 DEF Retry, Becomes
  <2>2. call[w].outcome # "unknown"
    <3>1. call[w].outcome = "unknown" => call[w].pc = "done"
      BY Zenon DEF CallInv
    <3> QED
      BY <2>1, <3>1
  <2>3. y = [pc |-> call[w].pc, order |-> call[w].order, at |-> call[w].at,
             try |-> call[w].try + 1, count |-> call[w].count,
             preferred |-> call[w].preferred, outcome |-> call[w].outcome]
    BY <1>1 DEF IsRow
  <2> HIDE DEF y
  <2>4. IsRow(y) /\ y.outcome # "unknown" /\ y.count = call[w].count
    BY <1>1, <2>2, <2>3 DEF IsRow
  <2>5. After(call[w], Send(y))
    BY <2>4, SendRow DEF After
  <2> QED
    BY <2>1, <2>5
<1>8. CASE Unsupported(w)
  <2>1. call[w].pc = "waiting"
    BY <1>8 DEF Unsupported
  <2>2. CASE call[w].at = Len(call[w].order)
    BY <1>2, <1>8, <2>2 DEF Unsupported
  <2>3. CASE call[w].at # Len(call[w].order)
    <3> DEFINE second == [call[w] EXCEPT !.at = @ + 1]
               fresh == [second EXCEPT !.try = 1]
               y == [fresh EXCEPT !.outcome = "unsupported"]
    <3>1. call' = [call EXCEPT ![w] = Send(y)]
      BY <1>8, <2>3 DEF Unsupported, Becomes
    <3>2. second = [pc |-> call[w].pc, order |-> call[w].order, at |-> call[w].at + 1,
                    try |-> call[w].try, count |-> call[w].count,
                    preferred |-> call[w].preferred, outcome |-> call[w].outcome]
      BY <1>1 DEF IsRow
    <3> HIDE DEF second
    <3>3. fresh = [pc |-> call[w].pc, order |-> call[w].order, at |-> call[w].at + 1,
                   try |-> 1, count |-> call[w].count,
                   preferred |-> call[w].preferred, outcome |-> call[w].outcome]
      BY <3>2
    <3> HIDE DEF fresh
    <3>4. y = [pc |-> call[w].pc, order |-> call[w].order, at |-> call[w].at + 1,
               try |-> 1, count |-> call[w].count,
               preferred |-> call[w].preferred, outcome |-> "unsupported"]
      BY <3>3
    <3> HIDE DEF y
    <3>5. IsRow(y) /\ y.outcome # "unknown" /\ y.count = call[w].count
      BY <1>1, <3>4 DEF IsRow
    <3>6. After(call[w], Send(y))
      BY <3>5, SendRow DEF After
    <3> QED
      BY <2>1, <3>1, <3>6
  <2> QED
    BY <2>1, <2>2, <2>3
<1>9. call[w].pc \notin {"none", "done"}
  BY DEF CallStep, Answered, Refused, Unsupported, Busy, Retry, Deadline
<1> QED
  BY <1>3, <1>4, <1>5, <1>6, <1>7, <1>8, <1>9 DEF CallStep

-----------------------------------------------------------------------------
(* Progress.                                                               *)

LEMMA ProgressFields ==
    ASSUME NEW p \in Progress
    PROVE  /\ p.agent \in Agent \union {"none"} /\ p.more \in 0 .. MaxMore
           /\ p.draft \in Seq([text : Nat, reason : Reason]) /\ p.attempts \in Nat
           /\ p.inFlight \in BOOLEAN /\ p.terminal \in Terminal
BY DEF Progress

LEMMA NoProgressType == NoProgress \in Progress
<1>1. <<>> \in Seq([text : Nat, reason : Reason])
  OBVIOUS
<1>2. 0 \in 0 .. MaxMore /\ 0 \in Nat
  BY GenerationAssumption
<1>3. "none" \in Agent \union {"none"} /\ "none" \in Terminal /\ FALSE \in BOOLEAN
  BY DEF Terminal
<1> QED
  BY <1>1, <1>2, <1>3 DEF NoProgress, Progress

LEMMA IdleType == Idle \in Task /\ Idle.pc = "idle"
BY NoProgressType DEF Idle, Task

\* A new state differs from none at all in what the configuration says.
LEMMA FreshProgress ==
    ASSUME NEW c \in Settings
    PROVE  /\ Fresh(c) \in Progress /\ Fresh(c).agent \in Agent
           /\ Fresh(c).draft = NoProgress.draft /\ Fresh(c).attempts = NoProgress.attempts
           /\ Fresh(c).inFlight = NoProgress.inFlight
           /\ Fresh(c).terminal = NoProgress.terminal
<1>1. c.agent \in Agent /\ c.more \in 0 .. MaxMore
  BY GenerationAssumption
<1> DEFINE first == [NoProgress EXCEPT !.agent = c.agent]
           f == [first EXCEPT !.more = c.more]
<1>2. first \in Progress /\ first.agent = c.agent /\ first.draft = NoProgress.draft
      /\ first.attempts = NoProgress.attempts /\ first.inFlight = NoProgress.inFlight
      /\ first.terminal = NoProgress.terminal
  BY <1>1, NoProgressType DEF Progress
<1>3. Fresh(c) = f
  BY DEF Fresh
<1> HIDE DEF first
<1>4. f \in Progress /\ f.agent = c.agent /\ f.draft = first.draft
      /\ f.attempts = first.attempts /\ f.inFlight = first.inFlight
      /\ f.terminal = first.terminal
  BY <1>1, <1>2 DEF Progress
<1> HIDE DEF f
<1> QED
  BY <1>1, <1>2, <1>3, <1>4

\* A state whose end is found, and one with a call marked or unmarked.
LEMMA EndedProgress ==
    ASSUME NEW p \in Progress, NEW t \in Terminal
    PROVE  LET r == [p EXCEPT !.terminal = t]
           IN  /\ r \in Progress /\ r.terminal = t
               /\ r.agent = p.agent /\ r.draft = p.draft /\ r.attempts = p.attempts
               /\ r.inFlight = p.inFlight /\ r.more = p.more
BY DEF Progress

LEMMA UnmarkedProgress ==
    ASSUME NEW p \in Progress, NEW t \in Terminal
    PROVE  LET r == [p EXCEPT !.inFlight = FALSE, !.terminal = t]
           IN  /\ r \in Progress /\ r.terminal = t /\ ~r.inFlight /\ r.more = p.more
               /\ r.agent = p.agent /\ r.draft = p.draft /\ r.attempts = p.attempts
<1> DEFINE first == [p EXCEPT !.inFlight = FALSE]
           r == [first EXCEPT !.terminal = t]
<1>1. first \in Progress /\ first.agent = p.agent /\ first.draft = p.draft
      /\ first.attempts = p.attempts /\ first.more = p.more
  BY DEF Progress
<1>2. first.inFlight = FALSE
  BY DEF Progress
<1>3. r = [p EXCEPT !.inFlight = FALSE, !.terminal = t]
  OBVIOUS
<1> HIDE DEF first
<1>4. r \in Progress /\ r.terminal = t /\ r.inFlight = first.inFlight
      /\ r.agent = first.agent /\ r.draft = first.draft /\ r.attempts = first.attempts
      /\ r.more = first.more
  BY <1>1 DEF Progress
<1> HIDE DEF r
<1> QED
  BY <1>1, <1>2, <1>3, <1>4

LEMMA MarkedProgress ==
    ASSUME NEW p \in Progress
    PROVE  LET r == [p EXCEPT !.inFlight = TRUE, !.attempts = @ + 1]
           IN  /\ r \in Progress /\ r.inFlight /\ r.attempts = p.attempts + 1 /\ r.more = p.more
               /\ r.agent = p.agent /\ r.draft = p.draft /\ r.terminal = p.terminal
<1> DEFINE first == [p EXCEPT !.inFlight = TRUE]
           r == [first EXCEPT !.attempts = p.attempts + 1]
<1>1. first \in Progress /\ first.agent = p.agent /\ first.draft = p.draft
      /\ first.terminal = p.terminal /\ first.more = p.more /\ p.attempts \in Nat
  BY DEF Progress
<1>2. first.inFlight = TRUE
  BY DEF Progress
<1>3. r = [p EXCEPT !.inFlight = TRUE, !.attempts = @ + 1]
  OBVIOUS
<1> HIDE DEF first
<1>4. r \in Progress /\ r.attempts = p.attempts + 1 /\ r.inFlight = first.inFlight
      /\ r.agent = first.agent /\ r.draft = first.draft /\ r.terminal = first.terminal
      /\ r.more = first.more
  BY <1>1 DEF Progress
<1> HIDE DEF r
<1> QED
  BY <1>1, <1>2, <1>3, <1>4

\* An answer unmarks the call and lengthens the draft.
LEMMA AppendedProgress ==
    ASSUME NEW p \in Progress, NEW new \in {0, 1}, NEW reason \in Reason
    PROVE  LET r == Append1(p, new, reason)
           IN  /\ r \in Progress /\ ~r.inFlight
               /\ r.agent = p.agent /\ r.attempts = p.attempts /\ r.more = p.more
               /\ r.draft # <<>>
               /\ \E piece : r.draft = Append(p.draft, piece)
<1> DEFINE piece == [text |-> Previous(p) + new, reason |-> reason]
           t == IF new = 0 THEN "no_progress" ELSE p.terminal
           first == [p EXCEPT !.draft = Append(p.draft, piece)]
           second == [first EXCEPT !.inFlight = FALSE]
           r == [second EXCEPT !.terminal = t]
<1>1. p.draft \in Seq([text : Nat, reason : Reason])
  BY ProgressFields
<1>2. Previous(p) \in Nat
  <2>1. CASE p.draft = <<>>
    BY <2>1 DEF Previous
  <2>2. CASE p.draft # <<>>
    <3>1. Len(p.draft) \in 1 .. Len(p.draft)
      BY <1>1, <2>2, EmptySeq, LenProperties
    <3>2. p.draft[Len(p.draft)] \in [text : Nat, reason : Reason]
      BY <1>1, <3>1, ElementOfSeq
    <3> QED
      BY <2>2, <3>2 DEF Previous
  <2> QED
    BY <2>1, <2>2
<1>3. piece \in [text : Nat, reason : Reason]
  BY <1>2
<1>4. t \in Terminal
  BY ProgressFields DEF Terminal
<1>5. Append1(p, new, reason) = r
  BY DEF Append1
<1> HIDE DEF piece, t
<1>6. Append(p.draft, piece) \in Seq([text : Nat, reason : Reason])
      /\ Append(p.draft, piece) # <<>>
  BY <1>1, <1>3, AppendProperties
<1>7. first \in Progress /\ first.agent = p.agent /\ first.attempts = p.attempts
      /\ first.more = p.more /\ first.draft = Append(p.draft, piece)
  BY <1>6 DEF Progress
<1> HIDE DEF first
<1>8. second \in Progress /\ second.agent = first.agent /\ second.attempts = first.attempts
      /\ second.more = first.more /\ second.draft = first.draft
  BY <1>7 DEF Progress
<1>9. second.inFlight = FALSE
  BY <1>7 DEF Progress
<1> HIDE DEF second
<1>10. r \in Progress /\ r.agent = second.agent /\ r.attempts = second.attempts
       /\ r.draft = second.draft /\ r.inFlight = second.inFlight /\ r.more = second.more
  BY <1>4, <1>8 DEF Progress
<1> HIDE DEF r
<1> QED
  BY <1>5, <1>6, <1>7, <1>8, <1>9, <1>10

-----------------------------------------------------------------------------
(* What keeps the invariant, whichever action does it.                     *)

\* The facts of a task that is at work.
LEMMA AtWork ==
    ASSUME StateOK, PhaseInv, NEW w \in Caller, task[w].pc # "idle"
    PROVE  /\ Mine(w) \in Question /\ Local(w) \in Progress /\ Local(w).agent \in Agent
           /\ task[w] \in Task /\ saved[Mine(w)] \in Progress
BY DEF StateOK, PhaseInv, Task, Mine, Local

\* A task goes on: the others stand where they stood.
LEMMA Moved ==
    ASSUME StateOK, PhaseInv, NEW w \in Caller, task[w].pc # "idle",
           NEW pc \in {"idle", "enter", "agent", "decide", "begun", "calling", "finish", "persist"},
           NEW p \in Progress, Goes(w, pc, p)
    PROVE  /\ task' \in [Caller -> Task]
           /\ task'[w].pc = pc /\ task'[w].question = Mine(w) /\ task'[w].local = p
           /\ \A v \in Caller : v # w => task'[v] = task[v]
<1> DEFINE t == [pc |-> pc, question |-> Mine(w), local |-> p]
<1>1. t \in Task /\ t.pc = pc /\ t.question = Mine(w) /\ t.local = p
  BY AtWork DEF Task
<1>2. task' = [task EXCEPT ![w] = t] /\ task \in [Caller -> Task]
  BY DEF Goes, StateOK
<1> HIDE DEF t
<1> QED
  BY <1>1, <1>2

\* Tasks end, and leases are given up or taken away.
LEMMA EndsKeep ==
    ASSUME IInv, NEW D \in SUBSET Caller,
           task' = [w \in Caller |-> IF w \in D THEN Idle ELSE task[w]],
           call' = [w \in Caller |-> IF w \in D THEN NoCall ELSE call[w]],
           unknown' = unknown \union {Mine(w) : w \in {v \in D : Open(v)}},
           lease' \in [Question -> Caller \union {"none"}],
           \A q \in Question : lease'[q] \in {lease[q], "none"},
           config' \in [Process -> Settings], faults' \in 0 .. MaxFaults,
           UNCHANGED <<saved, usage, outcome, asked, posts>>
    PROVE  IInv'
<1>1. StateOK /\ HolderInv /\ PhaseInv /\ OpenInv /\ CallInv /\ AgentInv /\ AccountedOnce /\ CallShape
  BY DEF IInv, GenerationInv
<1>2. \A v \in Caller : /\ v \notin D => task'[v] = task[v] /\ call'[v] = call[v]
                        /\ v \in D => task'[v] = Idle /\ call'[v] = NoCall
  OBVIOUS
<1>3. Idle.pc = "idle" /\ Idle \in Task /\ NoCall.outcome = "none" /\ IsRow(NoCall)
  BY IdleType DEF NoCall, IsRow
<1>4. StateOK'
  <2>1. task' \in [Caller -> Task]
    BY <1>1, <1>3 DEF StateOK
  <2>2. unknown' \subseteq Question
    BY <1>1, AtWork DEF Open, StateOK
  <2> QED
    BY <1>1, <2>1, <2>2 DEF StateOK
<1>5. HolderInv'
  <2>1. \A v \in Caller : task'[v].pc # "idle" /\ Holds(v)' =>
          task'[v] = task[v] /\ Mine(v)' = Mine(v) /\ task[v].pc # "idle" /\ Holds(v)
    <3> SUFFICES ASSUME NEW v \in Caller, task'[v].pc # "idle", Holds(v)'
                 PROVE  task'[v] = task[v] /\ Mine(v)' = Mine(v) /\ task[v].pc # "idle" /\ Holds(v)
      OBVIOUS
    <3>1. task'[v] = task[v] /\ task[v].pc # "idle" /\ Mine(v)' = Mine(v)
      BY <1>2, <1>3 DEF Mine
    <3>2. Mine(v) \in Question /\ lease'[Mine(v)] = v
      BY <1>1, <3>1, AtWork DEF Holds
    <3> QED
      BY <3>1, <3>2, GenerationAssumption DEF Holds
  <2> QED
    BY <1>1, <2>1 DEF HolderInv, Local
<1>6. PhaseInv'
  BY <1>1, <1>2, <1>3 DEF PhaseInv, Mine, Local, Open
<1>7. OpenInv'
  <2>1. \A v \in Caller : Open(v)' => v \notin D /\ Open(v) /\ Mine(v)' = Mine(v)
    BY <1>2, <1>3 DEF Open, Mine
  <2>2. \A q : Barred(q)' <=> Barred(q)
    BY DEF Barred
  <2>3. \A v \in Caller : Open(v)' => Barred(Mine(v))'
    BY <1>1, <2>1, <2>2 DEF OpenInv, Barred
  <2>4. \A v, w \in Caller : Open(v)' /\ Open(w)' /\ Mine(v)' = Mine(w)' => v = w
    BY <1>1, <2>1 DEF OpenInv
  <2>5. \A q \in unknown' : Barred(q)'
    BY <1>1, <2>2 DEF OpenInv
  <2>6. \A w \in Caller : Open(w)' /\ Mine(w)' \in unknown' =>
          task'[w].pc = "calling" /\ call'[w].pc = "done" /\ call'[w].outcome = "unknown"
    <3> SUFFICES ASSUME NEW w \in Caller, Open(w)', Mine(w)' \in unknown'
                 PROVE  task'[w].pc = "calling" /\ call'[w].pc = "done" /\ call'[w].outcome = "unknown"
      OBVIOUS
    <3>1. w \notin D /\ Open(w) /\ Mine(w)' = Mine(w)
      BY <2>1
    <3>2. Mine(w) \in unknown
      BY <1>1, <3>1 DEF OpenInv
    <3> QED
      BY <1>1, <1>2, <3>1, <3>2 DEF OpenInv
  <2> QED
    BY <2>3, <2>4, <2>5, <2>6 DEF OpenInv
<1>8. CallInv'
  BY <1>1, <1>2, <1>3 DEF CallInv
<1>9. AgentInv'
  BY <1>1, <1>2, <1>3 DEF AgentInv, Open, Mine, Local
<1>10. AccountedOnce'
  BY <1>1 DEF AccountedOnce
<1>11. CallShape'
  BY <1>1, <1>2, <1>3 DEF CallShape
<1> QED
  BY <1>4, <1>5, <1>6, <1>7, <1>8, <1>9, <1>10, <1>11 DEF IInv, GenerationInv

\* A task goes on in its own memory; only the end it found is new.
LEMMA MoveKeeps ==
    ASSUME IInv, NEW w \in Caller, task[w].pc \in {"enter", "agent", "decide"},
           NEW pc \in {"agent", "decide", "finish"}, NEW p \in Progress, Goes(w, pc, p),
           p.agent = Local(w).agent, p.draft = Local(w).draft, p.attempts = Local(w).attempts,
           p.inFlight = Local(w).inFlight, ~p.inFlight,
           pc = "finish" => p.terminal # "none",
           pc # "finish" => p.terminal = Local(w).terminal,
           UNCHANGED <<CallIdle, saved, usage, Checkpointed, history>>
    PROVE  IInv'
<1>1. StateOK /\ HolderInv /\ PhaseInv /\ OpenInv /\ CallInv /\ AgentInv /\ AccountedOnce /\ CallShape
  BY DEF IInv, GenerationInv
<1>2. /\ task' \in [Caller -> Task]
      /\ task'[w].pc = pc /\ task'[w].question = Mine(w) /\ task'[w].local = p
      /\ \A v \in Caller : v # w => task'[v] = task[v]
  BY <1>1, Moved
<1>3. Mine(w) \in Question /\ Local(w).agent \in Agent
  BY <1>1, AtWork
<1>4. UNCHANGED <<config, saved, usage, lease, outcome, asked, posts, unknown, faults, call>>
  BY DEF CallIdle, Checkpointed, history
<1>5. StateOK'
  BY <1>1, <1>2, <1>4 DEF StateOK
<1>6. HolderInv'
  BY <1>1, <1>2, <1>4 DEF HolderInv, Holds, Mine, Local
<1>7. PhaseInv'
  BY <1>1, <1>2, <1>3 DEF PhaseInv, Mine, Local, Open
<1>8. \A v \in Caller : (Open(v)' <=> Open(v)) /\ (Open(v) => v # w) /\ (v # w => Mine(v)' = Mine(v) /\ Local(v)' = Local(v))
  BY <1>2 DEF Open, Mine, Local
<1>9. OpenInv'
  BY <1>1, <1>2, <1>4, <1>8 DEF OpenInv, Barred
<1>10. AgentInv'
  BY <1>1, <1>4, <1>8 DEF AgentInv
<1>11. CallInv' /\ AccountedOnce' /\ CallShape'
  BY <1>1, <1>2, <1>4 DEF CallInv, AccountedOnce, CallShape
<1> QED
  BY <1>5, <1>6, <1>7, <1>9, <1>10, <1>11 DEF IInv, GenerationInv

\* Nobody has a call open for the question, and none was lost, unless it is the task's own.
Alone(w) == /\ Mine(w) \notin unknown
            /\ \A v \in Caller : Open(v) /\ Mine(v) = Mine(w) => v = w

Value(b) == IF b THEN 1 ELSE 0

\* The holder of the lease commits its progress.
LEMMA CommitKeeps ==
    ASSUME IInv, NEW w \in Caller, task[w].pc # "idle",
           NEW pc \in {"agent", "decide", "begun", "finish", "persist"},
           NEW p \in Progress, NEW events \in Nat, Commit(w, pc, p, events),
           p.agent = Local(w).agent,
           p.attempts - Value(p.inFlight) =
              Local(w).attempts - Value(Local(w).inFlight) + events,
           pc # "begun" => ~p.inFlight, pc = "begun" => p.inFlight,
           pc \in {"finish", "persist"} => p.terminal # "none",
           Alone(w) \/ (pc # "begun" /\ p.terminal # "none"),
           \/ task[w].pc # "calling" /\ call' = call
           \/ call' = [call EXCEPT ![w] = NoCall],
           UNCHANGED <<config, lease, outcome, faults, asked, posts, unknown>>
    PROVE  IInv'
<1>1. StateOK /\ HolderInv /\ PhaseInv /\ OpenInv /\ CallInv /\ AgentInv /\ AccountedOnce /\ CallShape
  BY DEF IInv, GenerationInv
<1>2. /\ task' \in [Caller -> Task]
      /\ task'[w].pc = pc /\ task'[w].question = Mine(w) /\ task'[w].local = p
      /\ \A v \in Caller : v # w => task'[v] = task[v]
  BY <1>1, Moved DEF Commit
<1>3. Mine(w) \in Question /\ Local(w).agent \in Agent /\ Local(w) \in Progress
      /\ saved[Mine(w)] \in Progress
  BY <1>1, AtWork
<1>4. /\ Holds(w)
      /\ saved' = [saved EXCEPT ![Mine(w)] = p]
      /\ usage' = [usage EXCEPT ![Mine(w)] = @ + events]
  BY DEF Commit
<1>5. /\ saved' \in [Question -> Progress] /\ saved'[Mine(w)] = p
      /\ \A q \in Question : q # Mine(w) => saved'[q] = saved[q]
  BY <1>1, <1>3, <1>4 DEF StateOK
<1>6. /\ usage' \in [Question -> Nat] /\ usage'[Mine(w)] = usage[Mine(w)] + events
      /\ \A q \in Question : q # Mine(w) => usage'[q] = usage[q]
  BY <1>1, <1>3, <1>4 DEF StateOK
<1>7. \A v \in Caller : v # w => /\ Mine(v)' = Mine(v) /\ Local(v)' = Local(v)
                                 /\ (Holds(v)' <=> Holds(v)) /\ (Open(v)' <=> Open(v))
                                 /\ call'[v] = call[v]
  BY <1>1, <1>2 DEF Mine, Local, Holds, Open, CallShape
<1>8. Mine(w)' = Mine(w) /\ Local(w)' = p /\ Holds(w)' /\ (Open(w)' <=> pc = "begun")
  BY <1>2, <1>4 DEF Mine, Local, Holds, Open
<1>9. outcome[Mine(w)] = "open" /\ Local(w).attempts = saved[Mine(w)].attempts
      /\ Local(w).inFlight = saved[Mine(w)].inFlight
      /\ (Local(w).agent = saved[Mine(w)].agent \/ saved[Mine(w)] = NoProgress)
  BY <1>1, <1>4 DEF HolderInv
<1>10. StateOK'
  BY <1>1, <1>2, <1>5, <1>6 DEF StateOK
<1>11. HolderInv'
  <2> SUFFICES ASSUME NEW v \in Caller, task'[v].pc # "idle", Holds(v)'
               PROVE  /\ outcome'[Mine(v)'] = "open"
                      /\ Local(v)'.draft = saved'[Mine(v)'].draft
                      /\ Local(v)'.attempts = saved'[Mine(v)'].attempts
                      /\ Local(v)'.inFlight = saved'[Mine(v)'].inFlight
                      /\ task'[v].pc # "finish" => Local(v)'.terminal = saved'[Mine(v)'].terminal
                      /\ Local(v)'.agent = saved'[Mine(v)'].agent \/ saved'[Mine(v)'] = NoProgress
    BY DEF HolderInv
  <2>1. CASE v = w
    BY <1>5, <1>8, <1>9, <2>1
  <2>2. CASE v # w
    <3>1. Holds(v) /\ task[v].pc # "idle" /\ task'[v] = task[v] /\ Mine(v)' = Mine(v)
          /\ Local(v)' = Local(v)
      BY <1>2, <1>7, <2>2
    <3>2. Mine(v) # Mine(w) /\ Mine(v) \in Question
      BY <1>1, <1>4, <2>2, <3>1, AtWork DEF Holds
    <3> QED
      BY <1>1, <1>5, <3>1, <3>2 DEF HolderInv
  <2> QED
    BY <2>1, <2>2
<1>12. PhaseInv'
  BY <1>1, <1>2, <1>3, <1>7, <1>8 DEF PhaseInv, Open
<1>13. \A q \in Question : q # Mine(w) => (Barred(q)' <=> Barred(q))
  BY <1>5 DEF Barred
<1>14. \/ Alone(w)
       \/ \A q : q = Mine(w) => Barred(q)'
  BY <1>5 DEF Barred
<1>15. pc = "begun" => Alone(w) /\ \A q : q = Mine(w) => Barred(q)'
  BY <1>5 DEF Barred
<1>16. OpenInv'
  <2>1. \A v \in Caller : Open(v)' => Barred(Mine(v))'
    <3> SUFFICES ASSUME NEW v \in Caller, Open(v)'  PROVE Barred(Mine(v))'
      OBVIOUS
    <3>1. CASE v = w
      BY <1>8, <1>15, <3>1 DEF Barred
    <3>2. CASE v # w
      <4>1. Open(v) /\ Mine(v)' = Mine(v) /\ Mine(v) \in Question
        BY <1>1, <1>7, <3>2, AtWork DEF Open
      <4>2. Barred(Mine(v))
        BY <1>1, <4>1 DEF OpenInv
      <4>3. \A q : q = Mine(v) => Barred(q)'
        BY <1>13, <1>14, <3>2, <4>1, <4>2 DEF Alone
      <4> QED
        BY <4>1, <4>3 DEF Barred
    <3> QED
      BY <3>1, <3>2
  <2>2. \A v, u \in Caller : Open(v)' /\ Open(u)' /\ Mine(v)' = Mine(u)' => v = u
    BY <1>1, <1>7, <1>8, <1>15 DEF OpenInv, Alone
  <2>3. \A q \in unknown' : Barred(q)'
    <3> SUFFICES ASSUME NEW q \in unknown'  PROVE Barred(q)'
      OBVIOUS
    <3>1. q \in unknown /\ q \in Question /\ Barred(q)
      BY <1>1 DEF OpenInv, StateOK
    <3> QED
      BY <1>13, <1>14, <3>1 DEF Alone
  <2>4. \A v \in Caller : Open(v)' /\ Mine(v)' \in unknown' =>
          task'[v].pc = "calling" /\ call'[v].pc = "done" /\ call'[v].outcome = "unknown"
    BY <1>1, <1>2, <1>7, <1>8, <1>15 DEF OpenInv, Alone
  <2> QED
    BY <2>1, <2>2, <2>3, <2>4 DEF OpenInv
<1>17. CallInv' /\ CallShape'
  <2>1. NoCall.outcome = "none" /\ IsRow(NoCall)
    BY DEF NoCall, IsRow
  <2>2. CASE task[w].pc # "calling" /\ call' = call
    BY <1>1, <1>2, <2>2 DEF CallInv, CallShape
  <2>3. CASE call' = [call EXCEPT ![w] = NoCall]
    BY <1>1, <1>2, <2>1, <2>3 DEF CallInv, CallShape
  <2> QED
    BY <2>2, <2>3
<1>18. AgentInv'
  <2>1. \A a \in asked[Mine(w)] : a = p.agent
    <3>1. \A a \in asked[Mine(w)] : a = saved[Mine(w)].agent /\ a # "none"
      BY <1>1, <1>3, <1>9, GenerationAssumption DEF AgentInv, StateOK
    <3>2. NoProgress.agent = "none"
      BY DEF NoProgress
    <3> QED
      BY <1>9, <3>1, <3>2
  <2>2. \A q \in Question : saved'[q] = NoProgress \/ saved'[q].agent \in Agent
    BY <1>1, <1>3, <1>5 DEF AgentInv
  <2>3. \A q \in Question : outcome'[q] = "open" => \A a \in asked'[q] : a = saved'[q].agent
    BY <1>1, <1>5, <2>1 DEF AgentInv
  <2>4. \A v \in Caller : Open(v)' =>
          /\ \A a \in asked'[Mine(v)'] : a = Local(v)'.agent
          /\ outcome'[Mine(v)'] = "open" => saved'[Mine(v)'].agent = Local(v)'.agent
    <3> SUFFICES ASSUME NEW v \in Caller, Open(v)'
                 PROVE  /\ \A a \in asked'[Mine(v)'] : a = Local(v)'.agent
                        /\ outcome'[Mine(v)'] = "open" => saved'[Mine(v)'].agent = Local(v)'.agent
      OBVIOUS
    <3>1. CASE v = w
      BY <1>5, <1>8, <2>1, <3>1
    <3>2. CASE v # w
      <4>1. Open(v) /\ Mine(v)' = Mine(v) /\ Local(v)' = Local(v) /\ Mine(v) \in Question
            /\ Local(v).agent \in Agent
        BY <1>1, <1>7, <3>2, AtWork DEF Open
      <4>2. /\ \A a \in asked[Mine(v)] : a = Local(v).agent
            /\ outcome[Mine(v)] = "open" => saved[Mine(v)].agent = Local(v).agent
        BY <1>1, <4>1 DEF AgentInv
      <4>3. CASE Mine(v) # Mine(w)
        BY <1>5, <4>1, <4>2, <4>3
      <4>4. CASE Mine(v) = Mine(w)
        <5>1. saved[Mine(w)].agent = Local(v).agent
          BY <1>9, <4>2, <4>4
        <5>2. NoProgress.agent = "none" /\ "none" \notin Agent
          BY GenerationAssumption DEF NoProgress
        <5>3. p.agent = Local(v).agent
          BY <1>9, <4>1, <5>1, <5>2
        <5> QED
          BY <1>5, <4>1, <4>2, <4>4, <5>3
      <4> QED
        BY <4>3, <4>4
    <3> QED
      BY <3>1, <3>2
  <2> QED
    BY <1>1, <2>2, <2>3, <2>4 DEF AgentInv
<1>19. AccountedOnce'
  <2> SUFFICES ASSUME NEW q \in Question, outcome'[q] = "open"
               PROVE  usage'[q] = saved'[q].attempts - Value(saved'[q].inFlight)
    BY DEF AccountedOnce, Value
  <2>1. usage[q] = saved[q].attempts - Value(saved[q].inFlight)
    BY <1>1 DEF AccountedOnce, Value
  <2>2. CASE q # Mine(w)
    BY <1>5, <1>6, <2>1, <2>2
  <2>3. CASE q = Mine(w)
    BY <1>5, <1>6, <1>9, <2>1, <2>3
  <2> QED
    BY <2>2, <2>3
<1> QED
  BY <1>10, <1>11, <1>12, <1>16, <1>17, <1>18, <1>19 DEF IInv, GenerationInv

-----------------------------------------------------------------------------
(* The actions.                                                            *)

\* Nobody else has a call open for a question that is not barred.
LEMMA UnbarredIsAlone ==
    ASSUME IInv, NEW w \in Caller, ~Barred(Mine(w))
    PROVE  Alone(w)
BY DEF IInv, GenerationInv, OpenInv, Alone

LEMMA InitHolds == Init => IInv
<1> SUFFICES ASSUME Init PROVE IInv
  OBVIOUS
<1>1. Idle.pc = "idle" /\ Idle \in Task /\ NoProgress \in Progress
  BY IdleType, NoProgressType
<1>2. NoCall.outcome = "none" /\ IsRow(NoCall)
  BY DEF NoCall, IsRow
<1>3. NoProgress.attempts = 0 /\ NoProgress.inFlight = FALSE
  BY DEF NoProgress
<1>4. StateOK
  BY <1>1, GenerationAssumption DEF Init, StateOK
<1>5. HolderInv /\ PhaseInv
  BY <1>1 DEF Init, HolderInv, PhaseInv
<1>6. OpenInv
  BY <1>1 DEF Init, OpenInv, Open
<1>7. CallInv /\ CallShape
  BY <1>2 DEF Init, CallInit, CallInv, CallShape
<1>8. AgentInv
  BY <1>1 DEF Init, AgentInv, Open
<1>9. AccountedOnce
  BY <1>3 DEF Init, AccountedOnce
<1> QED
  BY <1>4, <1>5, <1>6, <1>7, <1>8, <1>9 DEF IInv, GenerationInv

LEMMA TakeStep ==
    ASSUME IInv, NEW w \in Caller, NEW q \in Question, Take(w, q)
    PROVE  IInv'
<1>1. StateOK /\ HolderInv /\ PhaseInv /\ OpenInv /\ CallInv /\ AgentInv /\ AccountedOnce /\ CallShape
  BY DEF IInv, GenerationInv
<1> DEFINE p == IF saved[q] = NoProgress THEN Fresh(config[ProcessOf[w]]) ELSE saved[q]
           t == [pc |-> "enter", question |-> q, local |-> p]
<1>2. saved[q] \in Progress /\ config[ProcessOf[w]] \in Settings
  BY <1>1, CallerAssumption DEF StateOK
<1>3. /\ p \in Progress /\ p.agent \in Agent
      /\ p.draft = saved[q].draft /\ p.attempts = saved[q].attempts
      /\ p.inFlight = saved[q].inFlight /\ p.terminal = saved[q].terminal
      /\ p.agent = saved[q].agent \/ saved[q] = NoProgress
  <2>1. CASE saved[q] = NoProgress
    BY <1>2, <2>1, FreshProgress
  <2>2. CASE saved[q] # NoProgress
    BY <1>1, <1>2, <2>2 DEF AgentInv
  <2> QED
    BY <2>1, <2>2
<1> HIDE DEF p
<1>4. t \in Task /\ t.pc = "enter" /\ t.question = q /\ t.local = p
  BY <1>3 DEF Task
<1>5. task' = [task EXCEPT ![w] = t] /\ lease' = [lease EXCEPT ![q] = w]
  BY DEF Take, p
<1> HIDE DEF t
<1>6. /\ task' \in [Caller -> Task] /\ lease' \in [Question -> Caller \union {"none"}]
      /\ task'[w] = t /\ \A v \in Caller : v # w => task'[v] = task[v]
      /\ lease'[q] = w /\ \A r \in Question : r # q => lease'[r] = lease[r]
  BY <1>1, <1>4, <1>5 DEF StateOK
<1>7. UNCHANGED <<call, config, saved, usage, outcome, asked, posts, unknown, faults>>
  BY DEF Take, CallIdle, history
<1>8. outcome[q] = "open" /\ lease[q] = "none" /\ task[w].pc = "idle"
  BY DEF Take
<1>9. StateOK'
  BY <1>1, <1>6, <1>7 DEF StateOK
<1>10. HolderInv'
  <2> SUFFICES ASSUME NEW v \in Caller, task'[v].pc # "idle", Holds(v)'
               PROVE  /\ outcome'[Mine(v)'] = "open"
                      /\ Local(v)'.draft = saved'[Mine(v)'].draft
                      /\ Local(v)'.attempts = saved'[Mine(v)'].attempts
                      /\ Local(v)'.inFlight = saved'[Mine(v)'].inFlight
                      /\ task'[v].pc # "finish" => Local(v)'.terminal = saved'[Mine(v)'].terminal
                      /\ Local(v)'.agent = saved'[Mine(v)'].agent \/ saved'[Mine(v)'] = NoProgress
    BY DEF HolderInv
  <2>1. CASE v = w
    BY <1>3, <1>4, <1>6, <1>7, <1>8, <2>1 DEF Mine, Local
  <2>2. CASE v # w
    <3>1. task'[v] = task[v] /\ Mine(v)' = Mine(v) /\ Local(v)' = Local(v) /\ task[v].pc # "idle"
      BY <1>6, <2>2 DEF Mine, Local
    <3>2. Mine(v) \in Question /\ lease'[Mine(v)] = v
      BY <1>1, <3>1, AtWork DEF Holds
    <3>3. Holds(v)
      BY <1>6, <2>2, <3>2 DEF Holds
    <3> QED
      BY <1>1, <1>7, <3>1, <3>3 DEF HolderInv
  <2> QED
    BY <2>1, <2>2
<1>11. PhaseInv'
  BY <1>1, <1>3, <1>4, <1>6 DEF PhaseInv, Mine, Local, Open
<1>12. \A v \in Caller : Open(v)' => Open(v) /\ v # w /\ Mine(v)' = Mine(v) /\ Local(v)' = Local(v)
                                   /\ task'[v] = task[v]
  BY <1>4, <1>6 DEF Open, Mine, Local
<1>13. OpenInv'
  BY <1>1, <1>7, <1>12 DEF OpenInv, Barred
<1>14. AgentInv'
  BY <1>1, <1>7, <1>12 DEF AgentInv
<1>15. CallInv' /\ AccountedOnce' /\ CallShape'
  BY <1>1, <1>4, <1>6, <1>7, <1>8 DEF CallInv, AccountedOnce, CallShape
<1> QED
  BY <1>9, <1>10, <1>11, <1>13, <1>14, <1>15 DEF IInv, GenerationInv

LEMMA EnterStep ==
    ASSUME IInv, NEW w \in Caller, Enter(w)
    PROVE  IInv'
<1>1. StateOK /\ PhaseInv /\ task[w].pc = "enter"
  BY DEF IInv, GenerationInv, Enter
<1>2. Local(w) \in Progress /\ "outcome_unknown" \in Terminal
  BY <1>1, AtWork DEF Terminal
<1>3. CASE Local(w).inFlight
  <2> DEFINE p == [Local(w) EXCEPT !.inFlight = FALSE, !.terminal = "outcome_unknown"]
  <2>1. Commit(w, "agent", p, 1)
        /\ UNCHANGED <<call, config, lease, outcome, faults, asked, posts, unknown>>
    BY <1>3 DEF Enter, CallIdle, Checkpointed, history
  <2>2. /\ p \in Progress /\ p.terminal = "outcome_unknown" /\ ~p.inFlight
        /\ p.agent = Local(w).agent /\ p.attempts = Local(w).attempts
    BY <1>2, UnmarkedProgress
  <2> HIDE DEF p
  <2>3. Local(w).attempts \in Nat
    BY <1>2, ProgressFields
  <2>4. p.attempts - Value(p.inFlight) = Local(w).attempts - Value(Local(w).inFlight) + 1
    BY <1>3, <2>2, <2>3 DEF Value
  <2> QED
    BY <1>1, <2>1, <2>2, <2>4, CommitKeeps
<1>4. CASE ~Local(w).inFlight
  <2>1. Goes(w, "agent", Local(w))
        /\ UNCHANGED <<CallIdle, saved, usage, Checkpointed, history>>
    BY <1>4 DEF Enter
  <2> QED
    BY <1>1, <1>2, <1>4, <2>1, MoveKeeps
<1> QED
  BY <1>3, <1>4

LEMMA CheckAgentStep ==
    ASSUME IInv, NEW w \in Caller, CheckAgent(w)
    PROVE  IInv'
<1>1. StateOK /\ PhaseInv /\ task[w].pc = "agent"
  BY DEF IInv, GenerationInv, CheckAgent
<1>2. Local(w) \in Progress /\ "agent_changed" \in Terminal /\ ~Local(w).inFlight
  BY <1>1, AtWork DEF Terminal, PhaseInv
<1>3. CASE Local(w).agent # config[ProcessOf[w]].agent
  <2> DEFINE p == [Local(w) EXCEPT !.terminal = "agent_changed"]
  <2>1. Commit(w, "decide", p, 0)
        /\ UNCHANGED <<call, config, lease, outcome, faults, asked, posts, unknown>>
    BY <1>3 DEF CheckAgent, CallIdle, Checkpointed, history
  <2>2. /\ p \in Progress /\ p.terminal = "agent_changed" /\ p.inFlight = Local(w).inFlight
        /\ p.agent = Local(w).agent /\ p.attempts = Local(w).attempts
    BY <1>2, EndedProgress
  <2> HIDE DEF p
  <2>3. Local(w).attempts \in Nat
    BY <1>2, ProgressFields
  <2>4. p.attempts - Value(p.inFlight) = Local(w).attempts - Value(Local(w).inFlight) + 0
    BY <1>2, <2>2, <2>3 DEF Value
  <2> QED
    BY <1>1, <1>2, <2>1, <2>2, <2>4, CommitKeeps
<1>4. CASE ~(Local(w).agent # config[ProcessOf[w]].agent)
  <2>1. Goes(w, "decide", Local(w))
        /\ UNCHANGED <<CallIdle, saved, usage, Checkpointed, history>>
    BY <1>4 DEF CheckAgent
  <2> QED
    BY <1>1, <1>2, <2>1, MoveKeeps
<1> QED
  BY <1>3, <1>4

LEMMA EndingsType ==
    ASSUME NEW p
    PROVE  Endings(p) \subseteq Terminal
BY DEF Endings, Terminal

LEMMA ConcludeStep ==
    ASSUME IInv, NEW w \in Caller, Conclude(w)
    PROVE  IInv'
<1>1. StateOK /\ PhaseInv /\ task[w].pc = "decide"
  BY DEF IInv, GenerationInv, Conclude
<1>2. Local(w) \in Progress /\ ~Local(w).inFlight
  BY <1>1, AtWork DEF PhaseInv
<1>3. UNCHANGED <<CallIdle, saved, usage, Checkpointed, history>>
  BY DEF Conclude
<1>4. CASE Local(w).terminal # "none" /\ Goes(w, "finish", Local(w))
  BY <1>1, <1>2, <1>3, <1>4, MoveKeeps
<1>5. ASSUME NEW end \in Endings(Local(w)) \ {"none"},
             Goes(w, "finish", [Local(w) EXCEPT !.terminal = end])
      PROVE  IInv'
  <2> DEFINE p == [Local(w) EXCEPT !.terminal = end]
  <2>1. Goes(w, "finish", p) /\ end \in Terminal /\ end # "none"
    BY <1>5, EndingsType
  <2>2. /\ p \in Progress /\ p.terminal = end /\ p.inFlight = Local(w).inFlight
        /\ p.agent = Local(w).agent /\ p.attempts = Local(w).attempts
        /\ p.draft = Local(w).draft
    BY <1>2, <2>1, EndedProgress
  <2> HIDE DEF p
  <2> QED
    BY <1>1, <1>2, <1>3, <2>1, <2>2, MoveKeeps
<1> QED
  BY <1>4, <1>5 DEF Conclude

LEMMA BeginStep ==
    ASSUME IInv, NEW w \in Caller, Begin(w)
    PROVE  IInv'
<1>1. StateOK /\ PhaseInv /\ HolderInv /\ task[w].pc = "decide" /\ Holds(w)
      /\ Local(w).terminal = "none"
  BY DEF IInv, GenerationInv, Begin, Commit
<1>2. Local(w) \in Progress /\ ~Local(w).inFlight
  BY <1>1, AtWork DEF PhaseInv
<1> DEFINE p == [Local(w) EXCEPT !.inFlight = TRUE, !.attempts = @ + 1]
<1>3. Commit(w, "begun", p, 0)
      /\ UNCHANGED <<call, config, lease, outcome, faults, asked, posts, unknown>>
  BY DEF Begin, CallIdle, Checkpointed, history
<1>4. /\ p \in Progress /\ p.inFlight /\ p.attempts = Local(w).attempts + 1
      /\ p.agent = Local(w).agent
  BY <1>2, MarkedProgress
<1> HIDE DEF p
<1>5. Local(w).attempts \in Nat
  BY <1>2, ProgressFields
<1>6. p.attempts - Value(p.inFlight) = Local(w).attempts - Value(Local(w).inFlight) + 0
  BY <1>2, <1>4, <1>5 DEF Value
<1>7. ~Barred(Mine(w))
  BY <1>1, <1>2 DEF HolderInv, Barred
<1>8. Alone(w)
  BY <1>7, UnbarredIsAlone
<1> QED
  BY <1>1, <1>3, <1>4, <1>6, <1>8, CommitKeeps

\* The result of the call of a task that is answered is not lost.
LEMMA AnsweredIsAlone ==
    ASSUME IInv, NEW w \in Caller, task[w].pc = "calling", call[w].outcome # "unknown"
    PROVE  Alone(w)
BY DEF IInv, GenerationInv, OpenInv, Alone, Open

LEMMA ReceiveStep ==
    ASSUME IInv, NEW w \in Caller, Receive(w)
    PROVE  IInv'
<1>1. StateOK /\ PhaseInv /\ task[w].pc = "calling" /\ call[w].outcome = "answered"
  BY DEF IInv, GenerationInv, Receive
<1>2. Local(w) \in Progress /\ Local(w).inFlight
  BY <1>1, AtWork DEF PhaseInv, Open
<1>3. Alone(w)
  BY <1>1, AnsweredIsAlone
<1>4. PICK new \in {0, 1}, reason \in Reason : Commit(w, "decide", Append1(Local(w), new, reason), 1)
  BY DEF Receive
<1> DEFINE p == Append1(Local(w), new, reason)
<1>5. p \in Progress /\ ~p.inFlight /\ p.agent = Local(w).agent /\ p.attempts = Local(w).attempts
  BY <1>2, AppendedProgress
<1>6. Commit(w, "decide", p, 1)
  BY <1>4
<1> HIDE DEF p
<1>7. Local(w).attempts \in Nat
  BY <1>2, ProgressFields
<1>8. p.attempts - Value(p.inFlight) = Local(w).attempts - Value(Local(w).inFlight) + 1
  BY <1>2, <1>5, <1>7 DEF Value
<1>9. call' = [call EXCEPT ![w] = NoCall]
      /\ UNCHANGED <<config, lease, outcome, faults, asked, posts, unknown>>
  BY DEF Receive, Checkpointed, history
<1> QED
  BY <1>1, <1>3, <1>5, <1>6, <1>8, <1>9, CommitKeeps

LEMMA FailStep ==
    ASSUME IInv, NEW w \in Caller, Fail(w)
    PROVE  IInv'
<1>1. StateOK /\ PhaseInv /\ task[w].pc = "calling"
  BY DEF IInv, GenerationInv, Fail
<1>2. Local(w) \in Progress /\ Local(w).inFlight /\ "provider_error" \in Terminal
  BY <1>1, AtWork DEF PhaseInv, Open, Terminal
<1> DEFINE p == [Local(w) EXCEPT !.inFlight = FALSE, !.terminal = "provider_error"]
<1>3. p \in Progress /\ ~p.inFlight /\ p.agent = Local(w).agent /\ p.attempts = Local(w).attempts
      /\ p.terminal = "provider_error"
  BY <1>2, UnmarkedProgress
<1>4. Commit(w, "finish", p, 1) /\ call' = [call EXCEPT ![w] = NoCall]
      /\ UNCHANGED <<config, lease, outcome, faults, asked, posts, unknown>>
  BY DEF Fail, Checkpointed, history
<1> HIDE DEF p
<1>5. Local(w).attempts \in Nat
  BY <1>2, ProgressFields
<1>6. p.attempts - Value(p.inFlight) = Local(w).attempts - Value(Local(w).inFlight) + 1
  BY <1>2, <1>3, <1>5 DEF Value
<1> QED
  BY <1>1, <1>3, <1>4, <1>6, CommitKeeps

LEMMA FinishStep ==
    ASSUME IInv, NEW w \in Caller, Finish(w)
    PROVE  IInv'
<1>1. StateOK /\ PhaseInv /\ task[w].pc = "finish" /\ Commit(w, "persist", Local(w), 0)
  BY DEF IInv, GenerationInv, Finish
<1>2. Local(w) \in Progress /\ ~Local(w).inFlight /\ Local(w).terminal # "none"
  BY <1>1, AtWork DEF PhaseInv
<1>3. UNCHANGED <<call, config, lease, outcome, faults, asked, posts, unknown>>
  BY DEF Finish, CallIdle, Checkpointed, history
<1>4. Local(w).attempts \in Nat
  BY <1>2, ProgressFields
<1>5. Local(w).attempts - Value(Local(w).inFlight)
        = Local(w).attempts - Value(Local(w).inFlight) + 0
  BY <1>2, <1>4 DEF Value
<1> QED
  BY <1>1, <1>2, <1>3, <1>5, CommitKeeps

LEMMA PersistStep ==
    ASSUME IInv, NEW w \in Caller, Persist(w)
    PROVE  IInv'
<1>1. StateOK /\ HolderInv /\ PhaseInv /\ OpenInv /\ CallInv /\ AgentInv /\ AccountedOnce /\ CallShape
  BY DEF IInv, GenerationInv
<1> DEFINE o == OutcomeOf(Local(w))
           q == Mine(w)
<1>2. o \in {"failed", "complete", "partial"}
  BY DEF OutcomeOf
<1>3. /\ task[w].pc = "persist" /\ lease[q] = w
      /\ outcome' = [outcome EXCEPT ![q] = o] /\ saved' = [saved EXCEPT ![q] = NoProgress]
      /\ lease' = [lease EXCEPT ![q] = "none"] /\ task' = [task EXCEPT ![w] = Idle]
      /\ UNCHANGED <<call, config, usage, asked, posts, unknown, faults>>
  BY DEF Persist, Holds, CallIdle, history
<1>4. q \in Question
  BY <1>1, <1>3, AtWork
<1> HIDE DEF o, q
<1>5. /\ outcome' \in [Question -> {"open", "complete", "partial", "failed"}]
      /\ saved' \in [Question -> Progress] /\ task' \in [Caller -> Task]
      /\ lease' \in [Question -> Caller \union {"none"}]
  BY <1>1, <1>2, <1>3, NoProgressType, IdleType DEF StateOK
<1>6. /\ outcome'[q] # "open" /\ saved'[q] = NoProgress /\ lease'[q] = "none" /\ task'[w] = Idle
      /\ \A r \in Question : r # q => /\ outcome'[r] = outcome[r] /\ saved'[r] = saved[r]
                                      /\ lease'[r] = lease[r]
      /\ \A v \in Caller : v # w => task'[v] = task[v]
  BY <1>1, <1>2, <1>3, <1>4 DEF StateOK
<1>7. StateOK'
  BY <1>1, <1>3, <1>5 DEF StateOK
<1>8. HolderInv'
  <2>1. \A v \in Caller : task'[v].pc # "idle" /\ Holds(v)' =>
          /\ task'[v] = task[v] /\ Mine(v)' = Mine(v) /\ task[v].pc # "idle" /\ Holds(v)
          /\ Mine(v) # q /\ Mine(v) \in Question
    <3> SUFFICES ASSUME NEW v \in Caller, task'[v].pc # "idle", Holds(v)'
                 PROVE  /\ task'[v] = task[v] /\ Mine(v)' = Mine(v) /\ task[v].pc # "idle"
                        /\ Holds(v) /\ Mine(v) # q /\ Mine(v) \in Question
      OBVIOUS
    <3>1. v # w /\ task'[v] = task[v] /\ task[v].pc # "idle" /\ Mine(v)' = Mine(v)
      BY <1>6, IdleType DEF Mine
    <3>2. Mine(v) \in Question /\ lease'[Mine(v)] = v
      BY <1>1, <3>1, AtWork DEF Holds
    <3> QED
      BY <1>6, <3>1, <3>2, GenerationAssumption DEF Holds
  <2> QED
    BY <1>1, <1>6, <2>1 DEF HolderInv, Local
<1>9. PhaseInv'
  BY <1>1, <1>6, IdleType DEF PhaseInv, Mine, Local, Open
<1>10. \A v \in Caller : Open(v)' => Open(v) /\ v # w /\ Mine(v)' = Mine(v) /\ Local(v)' = Local(v)
                                   /\ task'[v] = task[v] /\ Mine(v) \in Question
  <2> SUFFICES ASSUME NEW v \in Caller, Open(v)'
               PROVE  Open(v) /\ v # w /\ Mine(v)' = Mine(v) /\ Local(v)' = Local(v)
                      /\ task'[v] = task[v] /\ Mine(v) \in Question
    OBVIOUS
  <2>1. v # w /\ task'[v] = task[v]
    BY <1>6, IdleType DEF Open
  <2> QED
    BY <1>1, <2>1, AtWork DEF Open, Mine, Local
<1>11. \A r \in Question : Barred(r) => Barred(r)'
  BY <1>6 DEF Barred
<1>12. OpenInv'
  <2>1. \A v \in Caller : Open(v)' => Barred(Mine(v))'
    <3> SUFFICES ASSUME NEW v \in Caller, Open(v)'  PROVE Barred(Mine(v))'
      OBVIOUS
    <3>1. Open(v) /\ Mine(v)' = Mine(v) /\ Mine(v) \in Question /\ Barred(Mine(v))
      BY <1>1, <1>10 DEF OpenInv
    <3> QED
      BY <1>11, <3>1 DEF Barred
  <2>2. \A r \in unknown' : Barred(r)'
    BY <1>1, <1>3, <1>11 DEF OpenInv, StateOK
  <2> QED
    BY <1>1, <1>3, <1>10, <2>1, <2>2 DEF OpenInv
<1>13. AgentInv'
  BY <1>1, <1>3, <1>6, <1>10 DEF AgentInv
<1>14. AccountedOnce'
  BY <1>1, <1>3, <1>6 DEF AccountedOnce
<1>15. CallInv' /\ CallShape'
  BY <1>1, <1>3, <1>6 DEF CallInv, CallShape
<1> QED
  BY <1>7, <1>8, <1>9, <1>12, <1>13, <1>14, <1>15 DEF IInv, GenerationInv

\* The requests of a question stay a number.
LEMMA SendsType ==
    ASSUME IInv, NEW w \in Caller, task[w].pc # "idle", NEW x, call' = [call EXCEPT ![w] = x],
           After(call[w], x) \/ (call[w].pc \in {"none", "done"} /\ IsRow(x)), Sends(w)
    PROVE  posts' \in [Question -> Nat] /\ \A q \in Question : q # Mine(w) => posts'[q] = posts[q]
<1>1. StateOK /\ PhaseInv /\ CallShape /\ Mine(w) \in Question
  BY AtWork DEF IInv, GenerationInv
<1>2. call'[w] = x /\ call[w].count \in Nat /\ x.count \in Nat
  BY <1>1 DEF CallShape, IsRow, After
<1> DEFINE more == IF call[w].pc \in {"none", "done"} THEN call'[w].count
                   ELSE call'[w].count - call[w].count
<1>3. more \in Nat
  <2>1. CASE call[w].pc \in {"none", "done"}
    BY <1>2, <2>1
  <2>2. CASE call[w].pc \notin {"none", "done"}
    BY <1>2, <2>2 DEF After
  <2> QED
    BY <2>1, <2>2
<1>4. posts' = [posts EXCEPT ![Mine(w)] = @ + more] /\ posts \in [Question -> Nat]
  BY <1>1 DEF Sends, StateOK
<1> HIDE DEF more
<1> QED
  BY <1>1, <1>3, <1>4

LEMMA CallKeeps ==
    ASSUME IInv, NEW w \in Caller, Call(w)
    PROVE  IInv'
<1>1. StateOK /\ HolderInv /\ PhaseInv /\ OpenInv /\ CallInv /\ AgentInv /\ AccountedOnce /\ CallShape
  BY DEF IInv, GenerationInv
<1>2. task[w].pc = "begun" /\ StartCall(w) /\ Sends(w) /\ Goes(w, "calling", Local(w))
      /\ asked' = [asked EXCEPT ![Mine(w)] = @ \union {Local(w).agent}]
      /\ UNCHANGED <<saved, usage, config, lease, outcome, faults, unknown>>
  BY DEF Call, Checkpointed
<1>3. Mine(w) \in Question /\ Local(w).agent \in Agent /\ Local(w) \in Progress /\ Open(w)
  BY <1>1, <1>2, AtWork DEF Open
<1>4. PICK x : call' = [call EXCEPT ![w] = x] /\ After(NoCall, x)
  BY <1>1, <1>2, StartRow
<1>5. /\ task' \in [Caller -> Task]
      /\ task'[w].pc = "calling" /\ task'[w].question = Mine(w) /\ task'[w].local = Local(w)
      /\ \A v \in Caller : v # w => task'[v] = task[v]
  BY <1>1, <1>2, <1>3, Moved
<1>6. Mine(w) \notin unknown
  BY <1>1, <1>2, <1>3 DEF OpenInv
<1>7. call' = [v \in Caller |-> IF v = w THEN x ELSE call[v]]
  BY <1>1, <1>4 DEF CallShape
<1>8. posts' \in [Question -> Nat]
  <2>1. call[w].pc = "none"
    <3>1. call[w] = NoCall
      BY <1>1, <1>2 DEF CallInv
    <3> QED
      BY <3>1 DEF NoCall
  <2> QED
    BY <1>2, <1>4, <2>1, SendsType DEF After
<1>9. asked' \in [Question -> SUBSET Agent] /\ asked'[Mine(w)] = asked[Mine(w)] \union {Local(w).agent}
      /\ \A q \in Question : q # Mine(w) => asked'[q] = asked[q]
  BY <1>1, <1>2, <1>3 DEF StateOK
<1>10. StateOK'
  BY <1>1, <1>2, <1>5, <1>8, <1>9 DEF StateOK
<1>11. \A v \in Caller : /\ Mine(v)' = Mine(v) /\ Local(v)' = Local(v) /\ (Open(v)' <=> Open(v))
                         /\ (Holds(v)' <=> Holds(v))
                         /\ v # w => task'[v] = task[v] /\ call'[v] = call[v]
  BY <1>2, <1>3, <1>5, <1>7 DEF Mine, Local, Open, Holds
<1>12. HolderInv'
  BY <1>1, <1>2, <1>5, <1>11 DEF HolderInv
<1>13. PhaseInv'
  BY <1>1, <1>2, <1>5, <1>11 DEF PhaseInv, Open
<1>14. OpenInv'
  BY <1>1, <1>2, <1>6, <1>11 DEF OpenInv, Barred
<1>15. CallInv' /\ CallShape'
  BY <1>1, <1>4, <1>5, <1>7 DEF CallInv, CallShape, After
<1>16. AgentInv'
  <2>1. \A a \in asked'[Mine(w)] : a = Local(w).agent
    BY <1>1, <1>3, <1>9 DEF AgentInv
  <2>2. \A q \in Question : outcome'[q] = "open" => \A a \in asked'[q] : a = saved'[q].agent
    BY <1>1, <1>2, <1>3, <1>9, <2>1 DEF AgentInv
  <2>3. \A v \in Caller : Open(v)' => v = w \/ Mine(v) # Mine(w)
    BY <1>1, <1>3, <1>11 DEF OpenInv
  <2>4. \A v \in Caller : Open(v)' => Mine(v) \in Question
    BY <1>1, <1>11, AtWork DEF Open
  <2>5. \A v \in Caller : Open(v)' =>
          /\ \A a \in asked'[Mine(v)'] : a = Local(v)'.agent
          /\ outcome'[Mine(v)'] = "open" => saved'[Mine(v)'].agent = Local(v)'.agent
    <3> SUFFICES ASSUME NEW v \in Caller, Open(v)'
                 PROVE  /\ \A a \in asked'[Mine(v)'] : a = Local(v)'.agent
                        /\ outcome'[Mine(v)'] = "open" => saved'[Mine(v)'].agent = Local(v)'.agent
      OBVIOUS
    <3>1. Open(v) /\ Mine(v)' = Mine(v) /\ Local(v)' = Local(v)
      BY <1>11
    <3>2. \A a \in asked'[Mine(v)] : a = Local(v).agent
      BY <1>1, <1>9, <2>1, <2>3, <2>4, <3>1 DEF AgentInv
    <3> QED
      BY <1>1, <1>2, <3>1, <3>2 DEF AgentInv
  <2>6. \A q \in Question : \A a, b \in asked'[q] : a = b
    BY <1>1, <1>9, <2>1 DEF AgentInv
  <2>7. \A q \in Question : saved'[q] = NoProgress \/ saved'[q].agent \in Agent
    BY <1>1, <1>2 DEF AgentInv
  <2> QED
    BY <2>2, <2>5, <2>6, <2>7 DEF AgentInv
<1>17. AccountedOnce'
  BY <1>1, <1>2 DEF AccountedOnce
<1> QED
  BY <1>10, <1>12, <1>13, <1>14, <1>15, <1>16, <1>17 DEF IInv, GenerationInv

LEMMA AwaitStep ==
    ASSUME IInv, NEW w \in Caller, Await(w)
    PROVE  IInv'
<1>1. StateOK /\ HolderInv /\ PhaseInv /\ OpenInv /\ CallInv /\ AgentInv /\ AccountedOnce /\ CallShape
  BY DEF IInv, GenerationInv
<1>2. /\ task[w].pc = "calling" /\ CallStep(w) /\ Sends(w)
      /\ unknown' = IF call'[w].outcome = "unknown" THEN unknown \union {Mine(w)} ELSE unknown
      /\ UNCHANGED <<saved, usage, task, config, lease, outcome, faults, asked>>
  BY DEF Await, Checkpointed
<1>3. Mine(w) \in Question /\ Open(w)
  BY <1>1, <1>2, AtWork DEF Open
<1>4. call[w].pc \notin {"none", "done"} /\ \E x : call' = [call EXCEPT ![w] = x] /\ After(call[w], x)
  BY <1>1, <1>2, StepRow
<1>5. PICK x : call' = [call EXCEPT ![w] = x] /\ After(call[w], x)
  BY <1>4
<1>6. Mine(w) \notin unknown
  BY <1>1, <1>3, <1>4 DEF OpenInv
<1>7. call' = [v \in Caller |-> IF v = w THEN x ELSE call[v]]
  BY <1>1, <1>5 DEF CallShape
<1>8. posts' \in [Question -> Nat]
  BY <1>2, <1>5, SendsType
<1>9. StateOK'
  BY <1>1, <1>2, <1>3, <1>8 DEF StateOK
<1>10. \A v \in Caller : /\ Mine(v)' = Mine(v) /\ Local(v)' = Local(v) /\ (Open(v)' <=> Open(v))
                         /\ (Holds(v)' <=> Holds(v))
                         /\ task'[v] = task[v] /\ (v # w => call'[v] = call[v])
  BY <1>2, <1>7 DEF Mine, Local, Open, Holds
<1>11. HolderInv' /\ PhaseInv'
  BY <1>1, <1>2, <1>10 DEF HolderInv, PhaseInv
<1>12. \A q : Barred(q)' <=> Barred(q)
  BY <1>2 DEF Barred
<1>13. OpenInv'
  <2>1. \A v \in Caller : Open(v)' => Barred(Mine(v))'
    BY <1>1, <1>2, <1>10 DEF OpenInv, Barred
  <2>2. \A v, u \in Caller : Open(v)' /\ Open(u)' /\ Mine(v)' = Mine(u)' => v = u
    BY <1>1, <1>10 DEF OpenInv
  <2>3. \A q \in unknown' : Barred(q)'
    BY <1>1, <1>2, <1>3, <1>12 DEF OpenInv
  <2>4. \A v \in Caller : Open(v)' /\ Mine(v)' \in unknown' =>
          task'[v].pc = "calling" /\ call'[v].pc = "done" /\ call'[v].outcome = "unknown"
    <3> SUFFICES ASSUME NEW v \in Caller, Open(v)', Mine(v)' \in unknown'
                 PROVE  task'[v].pc = "calling" /\ call'[v].pc = "done" /\ call'[v].outcome = "unknown"
      OBVIOUS
    <3>1. CASE v = w
      <4>1. call'[w] = x /\ x.outcome = "unknown"
        BY <1>2, <1>6, <1>7, <1>10, <3>1
      <4> QED
        BY <1>2, <1>5, <3>1, <4>1 DEF After
    <3>2. CASE v # w
      <4>1. Open(v) /\ Mine(v) # Mine(w)
        BY <1>1, <1>3, <1>10, <3>2 DEF OpenInv
      <4>2. Mine(v) \in unknown
        BY <1>2, <1>10, <4>1
      <4> QED
        BY <1>1, <1>10, <3>2, <4>1, <4>2 DEF OpenInv
    <3> QED
      BY <3>1, <3>2
  <2> QED
    BY <2>1, <2>2, <2>3, <2>4 DEF OpenInv
<1>14. CallInv' /\ CallShape'
  BY <1>1, <1>2, <1>5, <1>7 DEF CallInv, CallShape, After
<1>15. AgentInv'
  BY <1>1, <1>2, <1>10 DEF AgentInv
<1>16. AccountedOnce'
  BY <1>1, <1>2 DEF AccountedOnce
<1> QED
  BY <1>9, <1>11, <1>13, <1>14, <1>15, <1>16 DEF IInv, GenerationInv

LEMMA LeaseLostStep ==
    ASSUME IInv, NEW w \in Caller, LeaseLost(w)
    PROVE  IInv'
<1>1. StateOK /\ CallShape
  BY DEF IInv, GenerationInv
<1>2. task' = [v \in Caller |-> IF v \in {w} THEN Idle ELSE task[v]]
  BY <1>1 DEF LeaseLost, Ends, StateOK
<1>3. call' = [v \in Caller |-> IF v \in {w} THEN NoCall ELSE call[v]]
  BY <1>1 DEF LeaseLost, Ends, CallShape
<1>4. unknown' = unknown \union {Mine(v) : v \in {u \in {w} : Open(u)}}
  BY DEF LeaseLost, Ends
<1>5. /\ UNCHANGED <<saved, usage, outcome, asked, posts>>
      /\ lease' = lease /\ config' = config /\ faults' = faults
  BY DEF LeaseLost
<1>6. /\ lease' \in [Question -> Caller \union {"none"}]
      /\ \A q \in Question : lease'[q] \in {lease[q], "none"}
      /\ config' \in [Process -> Settings] /\ faults' \in 0 .. MaxFaults
  BY <1>1, <1>5 DEF StateOK
<1> QED
  BY <1>2, <1>3, <1>4, <1>5, <1>6, EndsKeep

LEMMA RaiseStep ==
    ASSUME IInv, NEW w \in Caller, Raise(w)
    PROVE  IInv'
<1>1. StateOK /\ CallShape /\ PhaseInv
  BY DEF IInv, GenerationInv
<1>2. task' = [v \in Caller |-> IF v \in {w} THEN Idle ELSE task[v]]
  BY <1>1 DEF Raise, Ends, StateOK
<1>3. call' = [v \in Caller |-> IF v \in {w} THEN NoCall ELSE call[v]]
  BY <1>1 DEF Raise, Ends, CallShape
<1>4. unknown' = unknown \union {Mine(v) : v \in {u \in {w} : Open(u)}}
  BY DEF Raise, Ends
<1>5. UNCHANGED <<saved, usage, outcome, asked, posts>> /\ config' = config
  BY DEF Raise
<1>6. faults' \in 0 .. MaxFaults /\ config' \in [Process -> Settings]
  BY <1>1, <1>5, GenerationAssumption DEF Raise, StateOK
<1>7. /\ lease' \in [Question -> Caller \union {"none"}]
      /\ \A q \in Question : lease'[q] \in {lease[q], "none"}
  <2>1. CASE Holds(w)
    BY <1>1, <2>1 DEF Raise, StateOK
  <2>2. CASE ~Holds(w)
    BY <1>1, <2>2 DEF Raise, StateOK
  <2> QED
    BY <2>1, <2>2
<1> QED
  BY <1>2, <1>3, <1>4, <1>5, <1>6, <1>7, EndsKeep

LEMMA CrashStep ==
    ASSUME IInv, NEW p \in Process, Crash(p)
    PROVE  IInv'
<1>1. StateOK
  BY DEF IInv, GenerationInv
<1>2. In(p) \in SUBSET Caller
  BY DEF In
<1>3. faults' \in 0 .. MaxFaults
  BY <1>1, GenerationAssumption DEF Crash, StateOK
<1>4. config' \in [Process -> Settings]
  BY <1>1 DEF Crash, StateOK
<1>5. /\ task' = [w \in Caller |-> IF w \in In(p) THEN Idle ELSE task[w]]
      /\ call' = [w \in Caller |-> IF w \in In(p) THEN NoCall ELSE call[w]]
      /\ unknown' = unknown \union {Mine(w) : w \in {v \in In(p) : Open(v)}}
      /\ UNCHANGED <<saved, usage, lease, outcome, asked, posts>>
  BY DEF Crash
<1> QED
  BY <1>1, <1>2, <1>3, <1>4, <1>5, EndsKeep DEF StateOK

\* A lease that ends by itself, a preference that is forgotten, or nothing.
LEMMA NobodyEnds ==
    ASSUME IInv, lease' \in [Question -> Caller \union {"none"}],
           \A q \in Question : lease'[q] \in {lease[q], "none"}, faults' \in 0 .. MaxFaults,
           UNCHANGED <<config, call, task, unknown, saved, usage, outcome, asked, posts>>
    PROVE  IInv'
<1>1. StateOK /\ CallShape /\ config' \in [Process -> Settings]
  BY DEF IInv, GenerationInv, StateOK
<1> PICK D \in SUBSET Caller : D = {}
  OBVIOUS
<1>2. task' = [v \in Caller |-> IF v \in D THEN Idle ELSE task[v]]
  BY <1>1 DEF StateOK
<1>3. call' = [v \in Caller |-> IF v \in D THEN NoCall ELSE call[v]]
  BY <1>1 DEF CallShape
<1>4. unknown' = unknown \union {Mine(v) : v \in {u \in D : Open(u)}}
  OBVIOUS
<1>5. UNCHANGED <<saved, usage, outcome, asked, posts>>
  OBVIOUS
<1> QED
  BY <1>1, <1>2, <1>3, <1>4, <1>5, EndsKeep

LEMMA LeaseStep ==
    ASSUME IInv, NEW q \in Question, LeaseExpires(q) \/ Stall(q)
    PROVE  IInv'
<1>1. StateOK
  BY DEF IInv, GenerationInv
<1>2. faults' \in 0 .. MaxFaults
  BY <1>1, GenerationAssumption DEF LeaseExpires, Stall, StateOK
<1>3. lease' = [lease EXCEPT ![q] = "none"]
      /\ UNCHANGED <<config, call, task, unknown, saved, usage, outcome, asked, posts>>
  BY DEF LeaseExpires, Stall, CallIdle, history
<1> QED
  BY <1>1, <1>2, <1>3, NobodyEnds DEF StateOK

LEMMA ForgetStep ==
    ASSUME IInv, NEW p \in Process, Forget(p)
    PROVE  IInv'
<1>1. StateOK
  BY DEF IInv, GenerationInv
<1> QED
  BY <1>1, NobodyEnds DEF Forget, PreferenceExpires, StateOK, history

LEMMA StepHolds == IInv /\ [Next]_vars => IInv'
<1> SUFFICES ASSUME IInv, [Next]_vars  PROVE IInv'
  OBVIOUS
<1>1. CASE \E w \in Caller, q \in Question : Take(w, q)
  BY <1>1, TakeStep
<1>2. CASE \E w \in Caller : Work(w)
  BY <1>2, EnterStep, CheckAgentStep, ConcludeStep, BeginStep, CallKeeps, AwaitStep,
     ReceiveStep, FailStep, FinishStep, PersistStep, LeaseLostStep DEF Work
<1>3. CASE \E w \in Caller : Raise(w)
  BY <1>3, RaiseStep
<1>4. CASE \E p \in Process : Crash(p) \/ Forget(p)
  BY <1>4, CrashStep, ForgetStep
<1>5. CASE \E q \in Question : LeaseExpires(q) \/ Stall(q)
  BY <1>5, LeaseStep
<1>6. CASE UNCHANGED vars
  <2>1. StateOK
    BY DEF IInv, GenerationInv
  <2> QED
    BY <1>6, <2>1, NobodyEnds DEF vars, StateOK
<1> QED
  BY <1>1, <1>2, <1>3, <1>4, <1>5, <1>6 DEF Next

LEMMA Invariance == Spec => []IInv
BY InitHolds, StepHolds, PTL DEF Spec

-----------------------------------------------------------------------------
(* What is proved of the generation.                                       *)

\* What the holder of the lease knows is saved, and at most one call of a question is open.
THEOREM GenerationInvariant == Spec => []GenerationInv
<1>1. IInv => GenerationInv
  BY DEF IInv
<1> QED
  BY <1>1, Invariance, PTL

\* Each call of the agent is accounted for exactly once, whatever fails.
THEOREM EveryCallCountsOnce == Spec => []AccountedOnce
<1>1. IInv => AccountedOnce
  BY DEF IInv, GenerationInv
<1> QED
  BY <1>1, Invariance, PTL

\* An answer comes from one agent, whatever the configurations of the processes.
THEOREM AnswerOfOneAgent == Spec => []OneAgent
<1>1. ASSUME IInv  PROVE OneAgent
  <2> SUFFICES ASSUME NEW q \in Question  PROVE Cardinality(asked[q]) <= 1
    BY DEF OneAgent
  <2>1. \A a, b \in asked[q] : a = b
    BY <1>1 DEF IInv, GenerationInv, AgentInv
  <2>2. CASE asked[q] = {}
    BY <2>2, FS_EmptySet
  <2>3. CASE asked[q] # {}
    <3>1. PICK a \in asked[q] : TRUE
      BY <2>3
    <3>2. asked[q] = {a}
      BY <2>1, <3>1
    <3>3. Cardinality({a}) = 1
      BY FS_Singleton
    <3> QED
      BY <3>2, <3>3
  <2> QED
    BY <2>2, <2>3
<1> QED
  BY <1>1, Invariance, PTL

\* No request follows a call whose result may have been lost.
THEOREM LostIsNotRepeated == Spec => NoReplay
<1>1. ASSUME IInv, [Next]_vars  PROVE [\A q \in unknown : posts'[q] = posts[q]]_vars
  <2> SUFFICES ASSUME NEW q \in unknown, posts'[q] # posts[q]  PROVE FALSE
    OBVIOUS
  <2>1. StateOK /\ PhaseInv /\ OpenInv /\ CallInv /\ CallShape
    BY <1>1 DEF IInv, GenerationInv
  <2>2. q \in Question
    BY <2>1 DEF StateOK
  <2>3. PICK w \in Caller : Call(w) \/ Await(w)
    BY <1>1 DEF Next, vars, Take, Work, Enter, CheckAgent, Conclude, Begin, Receive, Fail, Finish,
       Persist, LeaseLost, Raise, Crash, Forget, LeaseExpires, Stall, history
  <2>4. Open(w) /\ Mine(w) \in Question
    BY <2>1, <2>3, AtWork DEF Call, Await, Open
  <2>5. Mine(w) = q
    <3>1. Sends(w)
      BY <2>3 DEF Call, Await
    <3> QED
      BY <2>1, <2>2, <2>4, <3>1 DEF Sends, StateOK
  <2>6. task[w].pc = "calling" /\ call[w].pc = "done"
    BY <2>1, <2>4, <2>5 DEF OpenInv
  <2>7. Await(w)
    BY <2>3, <2>6 DEF Call
  <2> QED
    BY <2>1, <2>6, <2>7, StepRow DEF Await
<1> QED
  BY <1>1, Invariance, PTL DEF Spec, NoReplay

LEMMA PrefixOfAppend ==
    ASSUME NEW S, NEW d \in Seq(S), NEW piece
    PROVE  IsPrefix(d, d) /\ IsPrefix(d, Append(d, piece))
<1>1. d \in Seq(S \union {piece}) /\ piece \in S \union {piece}
  BY SeqMonotonic
<1>2. Len(Append(d, piece)) = Len(d) + 1 /\ Len(d) \in Nat
      /\ \A i \in 1 .. Len(d) : Append(d, piece)[i] = d[i]
  BY <1>1, AppendProperties, LenProperties
<1>3. SubSeq(Append(d, piece), 1, Len(d)) = SubSeq(d, 1, Len(d))
  BY <1>1, <1>2, AppendProperties, SubSeqProperties
<1> QED
  BY <1>2, <1>3 DEF IsPrefix

\* A saved draft only grows until the answer is stored.
THEOREM NothingIsTakenBack == Spec => DraftGrows
<1>1. ASSUME IInv, [Next]_vars
      PROVE  [\A q \in Question : \/ IsPrefix(saved[q].draft, saved'[q].draft)
                                  \/ outcome'[q] # "open"]_vars
  <2> SUFFICES ASSUME NEW q \in Question, outcome'[q] = "open"
               PROVE  IsPrefix(saved[q].draft, saved'[q].draft)
    OBVIOUS
  <2>1. StateOK /\ HolderInv /\ PhaseInv
    BY <1>1 DEF IInv, GenerationInv
  <2>2. saved[q].draft \in Seq([text : Nat, reason : Reason])
    BY <2>1, ProgressFields DEF StateOK
  <2>3. CASE saved'[q] = saved[q]
    BY <2>2, <2>3, PrefixOfAppend
  <2>4. CASE saved'[q] # saved[q]
    <3>1. PICK w \in Caller : Enter(w) \/ CheckAgent(w) \/ Begin(w) \/ Receive(w) \/ Fail(w)
                              \/ Finish(w) \/ Persist(w)
      BY <1>1, <2>4 DEF Next, vars, Take, Work, Conclude, Call, Await,
         LeaseLost, Raise, Crash, Forget, LeaseExpires, Stall
    <3>2. task[w].pc # "idle" /\ Local(w) \in Progress /\ Mine(w) \in Question
      BY <2>1, <3>1, AtWork DEF Enter, CheckAgent, Begin, Receive, Fail, Finish, Persist
    <3>3. ~Persist(w)
      <4>1. ASSUME Persist(w)  PROVE saved' = [saved EXCEPT ![Mine(w)] = NoProgress]
                                     /\ outcome' = [outcome EXCEPT ![Mine(w)] = OutcomeOf(Local(w))]
        BY <4>1 DEF Persist
      <4>2. OutcomeOf(Local(w)) # "open"
        BY DEF OutcomeOf
      <4> QED
        BY <2>1, <2>4, <3>2, <4>1, <4>2 DEF StateOK
    <3>4. PICK p : /\ \E pc, events : Commit(w, pc, p, events)
                   /\ p.draft = Local(w).draft \/ \E piece : p.draft = Append(Local(w).draft, piece)
      <4>1. CASE Enter(w)
        <5>1. Local(w).inFlight
          BY <2>4, <4>1 DEF Enter
        <5> DEFINE p == [Local(w) EXCEPT !.inFlight = FALSE, !.terminal = "outcome_unknown"]
        <5>2. p.draft = Local(w).draft
          BY <3>2, UnmarkedProgress DEF Terminal
        <5>3. Commit(w, "agent", p, 1)
          BY <4>1, <5>1 DEF Enter
        <5> HIDE DEF p
        <5> QED
          BY <5>2, <5>3
      <4>2. CASE CheckAgent(w)
        <5>1. Local(w).agent # config[ProcessOf[w]].agent
          BY <2>4, <4>2 DEF CheckAgent
        <5> DEFINE p == [Local(w) EXCEPT !.terminal = "agent_changed"]
        <5>2. p.draft = Local(w).draft
          BY <3>2, EndedProgress DEF Terminal
        <5>3. Commit(w, "decide", p, 0)
          BY <4>2, <5>1 DEF CheckAgent
        <5> HIDE DEF p
        <5> QED
          BY <5>2, <5>3
      <4>3. CASE Begin(w)
        BY <3>2, <4>3, MarkedProgress DEF Begin
      <4>4. CASE Receive(w)
        <5>1. PICK new \in {0, 1}, reason \in Reason :
                Commit(w, "decide", Append1(Local(w), new, reason), 1)
          BY <4>4 DEF Receive
        <5>2. \E piece : Append1(Local(w), new, reason).draft = Append(Local(w).draft, piece)
          BY <3>2, AppendedProgress
        <5> QED
          BY <5>1, <5>2
      <4>5. CASE Fail(w)
        <5> DEFINE p == [Local(w) EXCEPT !.inFlight = FALSE, !.terminal = "provider_error"]
        <5>1. p.draft = Local(w).draft
          BY <3>2, UnmarkedProgress DEF Terminal
        <5>2. Commit(w, "finish", p, 1)
          BY <4>5 DEF Fail
        <5> HIDE DEF p
        <5> QED
          BY <5>1, <5>2
      <4>6. CASE Finish(w)
        BY <4>6 DEF Finish
      <4> QED
        BY <3>1, <3>3, <4>1, <4>2, <4>3, <4>4, <4>5, <4>6
    <3>5. Holds(w) /\ saved' = [saved EXCEPT ![Mine(w)] = p]
      BY <3>4 DEF Commit
    <3>6. Mine(w) = q /\ saved'[q] = p
      BY <2>1, <2>4, <3>2, <3>5 DEF StateOK
    <3>7. Local(w).draft = saved[q].draft
      BY <2>1, <3>2, <3>5, <3>6 DEF HolderInv
    <3> QED
      BY <2>2, <3>4, <3>6, <3>7, PrefixOfAppend
  <2> QED
    BY <2>3, <2>4
<1> QED
  BY <1>1, Invariance, PTL DEF Spec, DraftGrows

-----------------------------------------------------------------------------
(* The calls of an answer are bounded: the rows of the calls.              *)

\* The variants are known ones, and there is one.
LEMMA OfferedVariants ==
    /\ RequestVariants \in Seq(Offered) /\ Len(RequestVariants) >= 1
    /\ Offered \subseteq Variant
<1> DEFINE modern == <<"chat_completions_no_reasoning", "responses">>
           last == <<"responses_plain">>
           front == IF PreferOpenAi THEN modern \o NativeUrls ELSE NativeUrls \o modern
<1>1. modern \in Seq(Variant) /\ last \in Seq(Variant) /\ NativeUrls \in Seq(Variant)
  <2>1. NativeUrls \in Seq({"native", "native_default"})
    BY ClientAssumption
  <2>2. {"native", "native_default"} \subseteq Variant
    BY DEF Variant
  <2>3. NativeUrls \in Seq(Variant)
    BY <2>1, <2>2, SeqMonotonic
  <2>4. modern \in Seq(Variant) /\ last \in Seq(Variant)
    BY DEF Variant
  <2> QED
    BY <2>3, <2>4
<1>2. Len(last) = 1
  OBVIOUS
<1>3. RequestVariants = front \o last
  BY DEF RequestVariants
<1> HIDE DEF modern, last
<1>4. front \in Seq(Variant)
  BY <1>1
<1> HIDE DEF front
<1>5. RequestVariants \in Seq(Variant) /\ Len(RequestVariants) = Len(front) + 1
  <2>1. front \o last \in Seq(Variant) /\ Len(front \o last) = Len(front) + Len(last)
    BY <1>1, <1>4
  <2> QED
    BY <1>2, <1>3, <2>1
<1>6. Len(front) \in Nat
  BY <1>4
<1>7. \A i \in DOMAIN RequestVariants : RequestVariants[i] \in Variant
  BY <1>5
<1>8. RequestVariants \in Seq(Offered)
  BY <1>5, IsASeq DEF Offered
<1> QED
  BY <1>5, <1>6, <1>7, <1>8 DEF Offered

LEMMA OrderedVariants ==
    ASSUME NEW v
    PROVE  PreferredFirst(v) \in Seq(Offered) /\ Len(PreferredFirst(v)) >= 1
<1>1. CASE v \notin Offered
  BY <1>1, OfferedVariants DEF PreferredFirst
<1>2. CASE v \in Offered
  <2> DEFINE at == CHOOSE i \in DOMAIN RequestVariants : RequestVariants[i] = v
             before == SubSeq(RequestVariants, 1, at - 1)
             behind == SubSeq(RequestVariants, at + 1, Len(RequestVariants))
  <2>1. at \in DOMAIN RequestVariants
    BY <1>2 DEF Offered
  <2>2. PreferredFirst(v) = <<v>> \o (before \o behind)
    BY <1>2 DEF PreferredFirst, RemoveAt
  <2> HIDE DEF at
  <2>3. at \in 1 .. Len(RequestVariants) /\ Len(RequestVariants) \in Nat
    BY <2>1, OfferedVariants
  <2>4. before \in Seq(Offered) /\ behind \in Seq(Offered)
    BY <2>3, OfferedVariants, SubSeqProperties
  <2> HIDE DEF before, behind
  <2>5. before \o behind \in Seq(Offered) /\ Len(before \o behind) \in Nat
    BY <2>4
  <2>6. <<v>> \in Seq(Offered) /\ Len(<<v>>) = 1
    BY <1>2
  <2> QED
    BY <2>2, <2>5, <2>6, ConcatProperties
<1> QED
  BY <1>1, <1>2

\* A row of a call that stands where it may stand.
Placed(x) == x.order \in Seq(Offered) /\ x.at \in DOMAIN x.order

Good(x) == /\ x \in CallRow
           /\ x.pc \in {"waiting", "backoff"} => Placed(x)
           /\ x.pc = "backoff" => x.try < TriesPerVariant

LEMMA RowFields ==
    ASSUME NEW x \in CallRow
    PROVE  /\ x = [pc |-> x.pc, order |-> x.order, at |-> x.at, try |-> x.try,
                   count |-> x.count, preferred |-> x.preferred, outcome |-> x.outcome]
           /\ x.pc \in {"none", "waiting", "backoff", "done"} /\ x.order \in Seq(Variant)
           /\ x.at \in Nat /\ x.try \in 1 .. TriesPerVariant /\ x.count \in 0 .. MaxHttp
           /\ x.preferred \in Variant \union {"none"} /\ x.outcome \in Reply \union {"none"}
BY DEF CallRow

LEMMA RowOf ==
    ASSUME NEW pc \in {"none", "waiting", "backoff", "done"}, NEW order \in Seq(Variant),
           NEW at \in Nat, NEW try \in 1 .. TriesPerVariant, NEW count \in 0 .. MaxHttp,
           NEW preferred \in Variant \union {"none"}, NEW o \in Reply \union {"none"}
    PROVE  LET r == [pc |-> pc, order |-> order, at |-> at, try |-> try, count |-> count,
                     preferred |-> preferred, outcome |-> o]
           IN  /\ r \in CallRow /\ r.pc = pc /\ r.order = order /\ r.at = at /\ r.try = try
               /\ r.count = count /\ r.preferred = preferred /\ r.outcome = o
BY DEF CallRow

LEMMA NoCallIsGood == Good(NoCall)
<1>1. <<>> \in Seq(Variant) /\ 1 \in Nat /\ 1 \in 1 .. TriesPerVariant /\ 0 \in 0 .. MaxHttp
  BY ClientAssumption
<1>2. NoCall \in CallRow
  BY <1>1, RowOf DEF NoCall
<1> QED
  BY <1>2 DEF Good, NoCall

LEMMA SendIsGood ==
    ASSUME NEW x \in CallRow, Placed(x)
    PROVE  Good(Send(x))
<1>1. /\ x.order \in Seq(Variant) /\ x.at \in Nat /\ x.try \in 1 .. TriesPerVariant
      /\ x.count \in 0 .. MaxHttp /\ x.preferred \in Variant \union {"none"}
      /\ x.outcome \in Reply \union {"none"}
  BY RowFields
<1>2. CASE x.count >= MaxHttp
  <2> DEFINE y == [x EXCEPT !.pc = "done"]
  <2>1. y = [pc |-> "done", order |-> x.order, at |-> x.at, try |-> x.try, count |-> x.count,
             preferred |-> x.preferred, outcome |-> x.outcome]
    BY RowFields
  <2>2. Send(x) = y
    BY <1>2 DEF Send
  <2> HIDE DEF y
  <2>3. y \in CallRow /\ y.pc = "done"
    BY <1>1, <2>1, RowOf
  <2> QED
    BY <2>2, <2>3 DEF Good
<1>3. CASE ~(x.count >= MaxHttp)
  <2> DEFINE sent == [x EXCEPT !.pc = "waiting"]
             y == [sent EXCEPT !.count = x.count + 1]
  <2>1. Send(x) = y
    BY <1>3 DEF Send
  <2>2. sent = [pc |-> "waiting", order |-> x.order, at |-> x.at, try |-> x.try,
                count |-> x.count, preferred |-> x.preferred, outcome |-> x.outcome]
    BY RowFields
  <2> HIDE DEF sent
  <2>3. y = [pc |-> "waiting", order |-> x.order, at |-> x.at, try |-> x.try,
             count |-> x.count + 1, preferred |-> x.preferred, outcome |-> x.outcome]
    BY <2>2
  <2> HIDE DEF y
  <2>4. x.count + 1 \in 0 .. MaxHttp
    BY <1>1, <1>3, ClientAssumption
  <2>5. y \in CallRow /\ y.pc = "waiting" /\ y.order = x.order /\ y.at = x.at
    BY <1>1, <2>3, <2>4, RowOf
  <2> QED
    BY <2>1, <2>5 DEF Good, Placed
<1> QED
  BY <1>2, <1>3

\* The calls and the preferences, as far as they matter here.
CallsGood == CallTypeOK /\ CallPlaceInv

LEMMA CallsAreGood ==
    CallsGood <=> /\ preference \in [Process -> Preference]
                  /\ \A p \in Process : preference[p].fresh => preference[p].variant \in Offered
                  /\ call = [c \in Caller |-> call[c]]
                  /\ \A c \in Caller : Good(call[c])
BY DEF CallsGood, CallTypeOK, CallPlaceInv, Good, Placed

\* A call becomes another good one, and a preference what it may be.
LEMMA BecomesGood ==
    ASSUME CallsGood, NEW w \in Caller, NEW x, Good(x), call' = [call EXCEPT ![w] = x],
           \/ UNCHANGED preference
           \/ preference' = [preference EXCEPT ![ProcessOf[w]] = NoPreference]
           \/ \E v \in Offered : preference' = [preference EXCEPT
                                    ![ProcessOf[w]] = [variant |-> v, fresh |-> TRUE]]
    PROVE  CallsGood'
<1>1. /\ preference \in [Process -> Preference]
      /\ \A p \in Process : preference[p].fresh => preference[p].variant \in Offered
      /\ call = [c \in Caller |-> call[c]] /\ \A c \in Caller : Good(call[c])
  BY CallsAreGood
<1>2. ProcessOf[w] \in Process
  BY CallerAssumption
<1>3. NoPreference \in Preference /\ ~NoPreference.fresh
  BY DEF NoPreference, Preference
<1>4. \A v \in Offered : /\ [variant |-> v, fresh |-> TRUE] \in Preference
                         /\ [variant |-> v, fresh |-> TRUE].variant = v
  BY OfferedVariants DEF Preference
<1>5. /\ preference' \in [Process -> Preference]
      /\ \A p \in Process : preference'[p].fresh => preference'[p].variant \in Offered
  <2>1. CASE UNCHANGED preference
    BY <1>1, <2>1
  <2>2. CASE preference' = [preference EXCEPT ![ProcessOf[w]] = NoPreference]
    BY <1>1, <1>2, <1>3, <2>2
  <2>3. ASSUME NEW v \in Offered, preference' = [preference EXCEPT
                                    ![ProcessOf[w]] = [variant |-> v, fresh |-> TRUE]]
        PROVE  /\ preference' \in [Process -> Preference]
               /\ \A p \in Process : preference'[p].fresh => preference'[p].variant \in Offered
    <3> DEFINE new == [variant |-> v, fresh |-> TRUE]
    <3>1. new \in Preference /\ new.variant \in Offered
      BY <1>4, <2>3
    <3>2. preference' = [preference EXCEPT ![ProcessOf[w]] = new]
      BY <2>3
    <3> HIDE DEF new
    <3> QED
      BY <1>1, <1>2, <3>1, <3>2
  <2> QED
    BY <2>1, <2>2, <2>3
<1>6. call' = [c \in Caller |-> IF c = w THEN x ELSE call[c]]
  BY <1>1
<1>7. call' = [c \in Caller |-> call'[c]] /\ \A c \in Caller : Good(call'[c])
  BY <1>1, <1>6
<1>8. CallsGood' <=> /\ preference' \in [Process -> Preference]
                     /\ \A p \in Process : preference'[p].fresh => preference'[p].variant \in Offered
                     /\ call' = [c \in Caller |-> call'[c]]
                     /\ \A c \in Caller : Good(call'[c])
  BY DEF CallsGood, CallTypeOK, CallPlaceInv, Good, Placed
<1> QED
  BY <1>5, <1>7, <1>8

LEMMA StartIsGood ==
    ASSUME CallsGood, NEW w \in Caller, StartCall(w)
    PROVE  CallsGood'
<1> DEFINE order == IF MyPreference(w).fresh THEN PreferredFirst(MyPreference(w).variant)
                    ELSE RequestVariants
           preferred == MyPreference(w).variant
           first == [NoCall EXCEPT !.order = order]
           y == [first EXCEPT !.preferred = preferred]
<1>1. /\ call' = [call EXCEPT ![w] = Send(y)]
      /\ \/ UNCHANGED preference
         \/ preference' = [preference EXCEPT ![ProcessOf[w]] = NoPreference]
  BY DEF StartCall, Becomes
<1>2. order \in Seq(Offered) /\ Len(order) >= 1
  BY OfferedVariants, OrderedVariants
<1>3. preferred \in Variant \union {"none"}
  BY CallsAreGood, CallerAssumption DEF MyPreference, Preference
<1> HIDE DEF order, preferred
<1>4. first = [pc |-> "none", order |-> order, at |-> 1, try |-> 1, count |-> 0,
               preferred |-> "none", outcome |-> "none"]
  BY DEF NoCall
<1> HIDE DEF first
<1>5. y = [pc |-> "none", order |-> order, at |-> 1, try |-> 1, count |-> 0,
           preferred |-> preferred, outcome |-> "none"]
  BY <1>4
<1> HIDE DEF y
<1>6. order \in Seq(Variant) /\ 1 \in DOMAIN order
  BY <1>2, OfferedVariants, SeqMonotonic
<1>7. 1 \in Nat /\ 1 \in 1 .. TriesPerVariant /\ 0 \in 0 .. MaxHttp
  BY ClientAssumption
<1>8. y \in CallRow /\ y.order = order /\ y.at = 1
  BY <1>3, <1>5, <1>6, <1>7, RowOf
<1>9. Good(Send(y))
  BY <1>2, <1>6, <1>8, SendIsGood DEF Placed
<1> QED
  BY <1>1, <1>9, BecomesGood

LEMMA OverIsGood ==
    ASSUME NEW x \in CallRow, NEW o \in Reply
    PROVE  Good([x EXCEPT !.pc = "done", !.outcome = o])
<1> DEFINE over == [x EXCEPT !.pc = "done"]
           y == [over EXCEPT !.outcome = o]
<1>1. over = [pc |-> "done", order |-> x.order, at |-> x.at, try |-> x.try, count |-> x.count,
              preferred |-> x.preferred, outcome |-> x.outcome]
  BY RowFields
<1> HIDE DEF over
<1>2. y = [pc |-> "done", order |-> x.order, at |-> x.at, try |-> x.try, count |-> x.count,
           preferred |-> x.preferred, outcome |-> o]
  BY <1>1
<1>3. [x EXCEPT !.pc = "done", !.outcome = o] = y
  BY DEF over
<1> HIDE DEF y
<1>4. y \in CallRow /\ y.pc = "done"
  BY <1>2, RowFields, RowOf
<1> QED
  BY <1>3, <1>4 DEF Good

LEMMA StepIsGood ==
    ASSUME CallsGood, NEW w \in Caller, CallStep(w)
    PROVE  CallsGood'
<1> DEFINE x == call[w]
<1>1. Good(x) /\ x \in CallRow
  BY CallsAreGood DEF Good
<1>2. /\ x.order \in Seq(Variant) /\ x.at \in Nat /\ x.try \in 1 .. TriesPerVariant
      /\ x.count \in 0 .. MaxHttp /\ x.preferred \in Variant \union {"none"}
      /\ x.outcome \in Reply \union {"none"}
      /\ x = [pc |-> x.pc, order |-> x.order, at |-> x.at, try |-> x.try,
              count |-> x.count, preferred |-> x.preferred, outcome |-> x.outcome]
  BY <1>1, RowFields
<1>3. CASE Answered(w)
  <2>1. /\ call' = [call EXCEPT ![w] = [x EXCEPT !.pc = "done", !.outcome = "answered"]]
        /\ preference' = [preference EXCEPT
                            ![ProcessOf[w]] = [variant |-> Using(w), fresh |-> TRUE]]
        /\ x.pc = "waiting"
    BY <1>3 DEF Answered, Becomes
  <2>2. Using(w) \in Offered
    BY <1>1, <2>1 DEF Good, Placed, Using
  <2>3. Good([x EXCEPT !.pc = "done", !.outcome = "answered"])
    BY <1>1, OverIsGood DEF Reply
  <2> HIDE DEF x
  <2> QED
    BY <2>1, <2>2, <2>3, BecomesGood
<1>4. ASSUME NEW reply \in Reply, Refused(w, reply)  PROVE CallsGood'
  <2>1. /\ call' = [call EXCEPT ![w] = [x EXCEPT !.pc = "done", !.outcome = reply]]
        /\ UNCHANGED preference
    BY <1>4 DEF Refused, Becomes
  <2>2. Good([x EXCEPT !.pc = "done", !.outcome = reply])
    BY <1>1, <1>4, OverIsGood
  <2> HIDE DEF x
  <2> QED
    BY <2>1, <2>2, BecomesGood
<1>5. CASE Deadline(w)
  <2>1. /\ call' = [call EXCEPT ![w] = [x EXCEPT !.pc = "done", !.outcome = "unknown"]]
        /\ UNCHANGED preference
    BY <1>5 DEF Deadline, Becomes
  <2>2. Good([x EXCEPT !.pc = "done", !.outcome = "unknown"])
    BY <1>1, OverIsGood DEF Reply
  <2> HIDE DEF x
  <2> QED
    BY <2>1, <2>2, BecomesGood
<1>6. CASE Busy(w)
  <2> DEFINE later == [x EXCEPT !.pc = "backoff"]
             y == [later EXCEPT !.outcome = "busy"]
  <2>1. /\ call' = [call EXCEPT ![w] = y] /\ x.pc = "waiting" /\ x.try < TriesPerVariant
        /\ UNCHANGED preference
    BY <1>6 DEF Busy, Becomes
  <2> HIDE DEF x
  <2>2. later = [pc |-> "backoff", order |-> x.order, at |-> x.at,
                 try |-> x.try, count |-> x.count,
                 preferred |-> x.preferred, outcome |-> x.outcome]
    BY <1>2
  <2> HIDE DEF later
  <2>3. y = [pc |-> "backoff", order |-> x.order, at |-> x.at, try |-> x.try,
             count |-> x.count, preferred |-> x.preferred, outcome |-> "busy"]
    BY <2>2
  <2> HIDE DEF y
  <2>4. "busy" \in Reply \union {"none"}
    BY DEF Reply
  <2>5. y \in CallRow /\ y.order = x.order /\ y.at = x.at /\ y.try = x.try
    BY <1>2, <2>3, <2>4, RowOf
  <2>6. Good(y)
    BY <1>1, <2>1, <2>5 DEF Good, Placed
  <2> QED
    BY <2>1, <2>6, BecomesGood
<1>7. CASE Retry(w)
  <2> DEFINE y == [x EXCEPT !.try = x.try + 1]
  <2>1. call' = [call EXCEPT ![w] = Send(y)] /\ x.pc = "backoff" /\ UNCHANGED preference
    BY <1>7 DEF Retry, Becomes
  <2> HIDE DEF x
  <2>2. y = [pc |-> x.pc, order |-> x.order, at |-> x.at, try |-> x.try + 1,
             count |-> x.count, preferred |-> x.preferred, outcome |-> x.outcome]
    BY <1>2
  <2> HIDE DEF y
  <2>3. x.try + 1 \in 1 .. TriesPerVariant
    BY <1>1, <1>2, <2>1, ClientAssumption DEF Good
  <2>4. y \in CallRow /\ y.order = x.order /\ y.at = x.at
    <3>1. x.pc \in {"none", "waiting", "backoff", "done"}
      BY <2>1
    <3> QED
      BY <1>2, <2>2, <2>3, <3>1, RowOf
  <2>5. Good(Send(y))
    BY <1>1, <2>1, <2>4, SendIsGood DEF Good, Placed
  <2> QED
    BY <2>1, <2>5, BecomesGood
<1>8. CASE Unsupported(w)
  <2>1. /\ x.pc = "waiting" /\ Placed(x)
        /\ \/ UNCHANGED preference
           \/ preference' = [preference EXCEPT ![ProcessOf[w]] = NoPreference]
    BY <1>1, <1>8 DEF Unsupported, Good
  <2>2. CASE x.at = Len(x.order)
    <3>1. call' = [call EXCEPT ![w] = [x EXCEPT !.pc = "done", !.outcome = "unsupported"]]
      BY <1>8, <2>2 DEF Unsupported, Becomes
    <3>2. Good([x EXCEPT !.pc = "done", !.outcome = "unsupported"])
      BY <1>1, OverIsGood DEF Reply
    <3> HIDE DEF x
    <3> QED
      BY <2>1, <3>1, <3>2, BecomesGood
  <2>3. CASE x.at # Len(x.order)
    <3> DEFINE second == [x EXCEPT !.at = x.at + 1]
               fresh == [second EXCEPT !.try = 1]
               y == [fresh EXCEPT !.outcome = "unsupported"]
    <3>1. call' = [call EXCEPT ![w] = Send(y)]
      BY <1>8, <2>3 DEF Unsupported, Becomes
    <3> HIDE DEF x
    <3>2. second = [pc |-> x.pc, order |-> x.order, at |-> x.at + 1, try |-> x.try,
                    count |-> x.count, preferred |-> x.preferred, outcome |-> x.outcome]
      BY <1>2
    <3> HIDE DEF second
    <3>3. fresh = [pc |-> x.pc, order |-> x.order, at |-> x.at + 1, try |-> 1,
                   count |-> x.count, preferred |-> x.preferred, outcome |-> x.outcome]
      BY <3>2
    <3> HIDE DEF fresh
    <3>4. y = [pc |-> x.pc, order |-> x.order, at |-> x.at + 1, try |-> 1,
               count |-> x.count, preferred |-> x.preferred, outcome |-> "unsupported"]
      BY <3>3
    <3> HIDE DEF y
    <3>5. x.at + 1 \in Nat /\ x.at + 1 \in DOMAIN x.order
      BY <1>2, <2>1, <2>3 DEF Placed
    <3>6. 1 \in 1 .. TriesPerVariant /\ "unsupported" \in Reply \union {"none"}
          /\ x.pc \in {"none", "waiting", "backoff", "done"}
      BY <2>1, ClientAssumption DEF Reply
    <3>7. y \in CallRow /\ y.order = x.order /\ y.at = x.at + 1
      BY <1>2, <3>4, <3>5, <3>6, RowOf
    <3>8. Good(Send(y))
      BY <2>1, <3>5, <3>7, SendIsGood DEF Placed
    <3> QED
      BY <2>1, <3>1, <3>8, BecomesGood
  <2> QED
    BY <2>2, <2>3
<1> QED
  BY <1>3, <1>4, <1>5, <1>6, <1>7, <1>8 DEF CallStep

-----------------------------------------------------------------------------
(* The calls of an answer are bounded: attempts and requests.              *)

LEMMA Times ==
    ASSUME NEW a \in Nat, NEW b \in Nat, NEW m \in Nat, a <= b
    PROVE  a * m \in Nat /\ a * m <= b * m /\ (a + 1) * m = a * m + m
<1>1. PICK d \in Nat : b = a + d
  <2>1. b - a \in Nat /\ b = a + (b - a)
    OBVIOUS
  <2> QED
    BY <2>1
<1>2. b * m = a * m + d * m /\ d * m >= 0
  BY <1>1
<1> QED
  BY <1>2

\* What a state has earned stays earned if an end is found or a piece is added.
LEMMA EarnedKeeps ==
    ASSUME NEW p \in Progress, Earned(p), NEW r, r.attempts = p.attempts, r.more = p.more,
           \/ r.terminal # "none"
           \/ r.draft # <<>>
    PROVE  Earned(r)
BY DEF Earned

LEMMA NoProgressIsEarned == Earned(NoProgress)
BY GenerationAssumption DEF Earned, NoProgress

LEMMA FreshIsEarned ==
    ASSUME NEW c \in Settings
    PROVE  Earned(Fresh(c))
<1>1. Fresh(c) \in Progress /\ Fresh(c).attempts = 0
  BY FreshProgress DEF NoProgress
<1>2. Fresh(c).more \in Nat
  BY <1>1, ProgressFields, GenerationAssumption
<1> QED
  BY <1>1, <1>2 DEF Earned

\* More is asked for only if a continuation is left.
LEMMA MoreIsLeft ==
    ASSUME NEW p \in Progress, Earned(p), ~p.inFlight, p.terminal = "none",
           "none" \in Endings(p)
    PROVE  p.attempts + 1 <= 1 + p.more
<1>1. p.attempts \in Nat /\ p.more \in Nat
  BY ProgressFields, GenerationAssumption
<1>2. CASE p.draft = <<>>
  BY <1>1, <1>2 DEF Earned
<1>3. CASE p.draft # <<>>
  <2>1. ~(p.attempts >= 1 + p.more)
    BY <1>3 DEF Endings
  <2> QED
    BY <1>1, <2>1
<1> QED
  BY <1>2, <1>3

LEMMA MarkedIsEarned ==
    ASSUME NEW p \in Progress, Earned(p), ~p.inFlight, p.terminal = "none",
           "none" \in Endings(p), NEW r, r.inFlight, r.attempts = p.attempts + 1,
           r.more = p.more
    PROVE  Earned(r)
BY MoreIsLeft DEF Earned

\* The invariant, with the bounds.
BoundedInv == IInv /\ CallsGood /\ BudgetInv

\* The facts that the steps below need.
LEMMA BoundedFacts ==
    ASSUME BoundedInv
    PROVE  /\ StateOK /\ HolderInv /\ PhaseInv /\ OpenInv /\ CallInv /\ CallShape
           /\ \A q \in Question : /\ posts[q] \in Nat /\ saved[q] \in Progress
                                  /\ saved[q].attempts \in Nat
           /\ \A w \in Caller : call[w] \in CallRow /\ call[w].count \in 0 .. MaxHttp
           /\ \A w \in Caller : task[w].pc # "calling" => call[w].count = 0
           /\ \A w \in Caller : task[w].pc # "idle" =>
                 /\ Mine(w) \in Question /\ Local(w) \in Progress
                 /\ Local(w).attempts \in Nat /\ Local(w).more \in 0 .. MaxMore
           /\ MaxHttp \in Nat /\ MaxMore \in Nat
<1>1. StateOK /\ HolderInv /\ PhaseInv /\ OpenInv /\ CallInv /\ CallShape /\ CallsGood
  BY DEF BoundedInv, IInv, GenerationInv
<1>2. MaxHttp \in Nat /\ MaxMore \in Nat
  BY ClientAssumption, GenerationAssumption
<1>3. \A w \in Caller : call[w] \in CallRow
  BY <1>1, CallsAreGood DEF Good
<1>4. \A w \in Caller : call[w].count \in 0 .. MaxHttp
  BY <1>3, RowFields
<1>5. \A w \in Caller : task[w].pc # "calling" => call[w].count = 0
  <2>1. NoCall.count = 0
    BY DEF NoCall
  <2>2. \A w \in Caller : task[w].pc # "calling" => call[w] = NoCall
    BY <1>1 DEF CallInv
  <2> QED
    BY <2>1, <2>2
<1>6. \A q \in Question : posts[q] \in Nat /\ saved[q] \in Progress
  BY <1>1 DEF StateOK
<1>7. \A q \in Question : saved[q].attempts \in Nat
  BY <1>6, ProgressFields
<1>8. \A w \in Caller : task[w].pc # "idle" => Mine(w) \in Question /\ Local(w) \in Progress
  BY <1>1, AtWork
<1>9. \A w \in Caller : task[w].pc # "idle" =>
         Local(w).attempts \in Nat /\ Local(w).more \in 0 .. MaxMore
  BY <1>8, ProgressFields
<1> QED
  BY <1>1, <1>2, <1>3, <1>4, <1>5, <1>6, <1>7, <1>8, <1>9

\* Tasks end; the others, their calls and what is saved stay as they are.
LEMMA EndsKeepBudget ==
    ASSUME BoundedInv, NEW D \in SUBSET Caller,
           task' = [w \in Caller |-> IF w \in D THEN Idle ELSE task[w]],
           call' = [w \in Caller |-> IF w \in D THEN NoCall ELSE call[w]],
           UNCHANGED <<saved, outcome, posts>>
    PROVE  BudgetInv'
<1>1. BudgetInv
  BY DEF BoundedInv
<1>2. Idle.pc = "idle"
  BY IdleType
<1>3. \A v \in Caller : task'[v].pc # "idle" =>
         /\ task'[v] = task[v] /\ call'[v] = call[v]
         /\ Mine(v)' = Mine(v) /\ Local(v)' = Local(v) /\ (Open(v)' <=> Open(v))
  BY <1>2 DEF Mine, Local, Open
<1>4. \A v \in Caller : Open(v)' => task'[v].pc # "idle"
  BY DEF Open
<1> QED
  BY <1>1, <1>3, <1>4 DEF BudgetInv

\* A task takes a question, or goes on in its own memory.
LEMMA MoveKeepsBudget ==
    ASSUME BoundedInv, NEW w \in Caller, ~Open(w), ~Open(w)', Earned(Local(w)'),
           \A v \in Caller : v # w => task'[v] = task[v],
           UNCHANGED <<call, saved, outcome, posts>>
    PROVE  BudgetInv'
<1>1. BudgetInv
  BY DEF BoundedInv
<1>2. \A v \in Caller : v # w => /\ task'[v] = task[v] /\ Mine(v)' = Mine(v)
                                 /\ Local(v)' = Local(v) /\ (Open(v)' <=> Open(v))
  BY DEF Mine, Local, Open
<1> QED
  BY <1>1, <1>2 DEF BudgetInv

\* The holder of the lease commits: a call that is begun is one attempt more.
LEMMA CommitKeepsBudget ==
    ASSUME BoundedInv, NEW w \in Caller, task[w].pc # "idle",
           NEW pc \in {"agent", "decide", "begun", "finish", "persist"},
           NEW p \in Progress, NEW events, Commit(w, pc, p, events), Earned(p),
           p.attempts = Local(w).attempts + Value(pc = "begun"),
           pc = "begun" => Alone(w),
           \/ task[w].pc # "calling" /\ call' = call
           \/ call' = [call EXCEPT ![w] = NoCall],
           UNCHANGED <<outcome, posts>>
    PROVE  BudgetInv'
<1>1. BudgetInv
  BY DEF BoundedInv
<1>2. StateOK /\ PhaseInv /\ HolderInv /\ CallShape /\ CallInv
  BY BoundedFacts
<1>3. /\ task' \in [Caller -> Task]
      /\ task'[w].pc = pc /\ task'[w].question = Mine(w) /\ task'[w].local = p
      /\ \A v \in Caller : v # w => task'[v] = task[v]
  BY <1>2, Moved DEF Commit
<1>4. Mine(w) \in Question /\ p.attempts \in Nat /\ saved[Mine(w)].attempts \in Nat
      /\ posts[Mine(w)] \in Nat /\ MaxHttp \in Nat /\ Local(w).attempts \in Nat
  BY BoundedFacts, ProgressFields
<1>5. Holds(w) /\ saved' = [saved EXCEPT ![Mine(w)] = p]
  BY DEF Commit
<1>6. /\ saved'[Mine(w)] = p
      /\ \A q \in Question : q # Mine(w) => saved'[q] = saved[q]
  BY <1>2, <1>4, <1>5 DEF StateOK
<1>7. outcome[Mine(w)] = "open" /\ Local(w).attempts = saved[Mine(w)].attempts
  BY <1>2, <1>5 DEF HolderInv
<1>8. \A v \in Caller : v # w => /\ Mine(v)' = Mine(v) /\ Local(v)' = Local(v)
                                 /\ (Open(v)' <=> Open(v)) /\ call'[v] = call[v]
  BY <1>2, <1>3 DEF Mine, Local, Open, CallShape
<1>9. Mine(w)' = Mine(w) /\ Local(w)' = p /\ (Open(w)' <=> pc = "begun")
  BY <1>3 DEF Mine, Local, Open
<1>10. call'[w].count = 0
  <2>1. NoCall.count = 0
    BY DEF NoCall
  <2>2. CASE task[w].pc # "calling" /\ call' = call
    BY <1>2, <2>1, <2>2 DEF CallInv
  <2>3. CASE call' = [call EXCEPT ![w] = NoCall]
    BY <1>2, <2>1, <2>3 DEF CallShape
  <2> QED
    BY <2>2, <2>3
<1>11. posts[Mine(w)] <= saved[Mine(w)].attempts * MaxHttp
  BY <1>1, <1>4, <1>7 DEF BudgetInv
<1>12. posts[Mine(w)] <= p.attempts * MaxHttp
       /\ (pc = "begun" => posts[Mine(w)] + MaxHttp <= p.attempts * MaxHttp)
  <2>1. CASE pc = "begun"
    <3>1. p.attempts = saved[Mine(w)].attempts + 1
      BY <1>7, <2>1 DEF Value
    <3>2. p.attempts * MaxHttp = saved[Mine(w)].attempts * MaxHttp + MaxHttp
          /\ saved[Mine(w)].attempts * MaxHttp \in Nat
      BY <1>4, <3>1, Times
    <3> QED
      BY <1>4, <1>11, <3>2
  <2>2. CASE pc # "begun"
    <3>1. p.attempts = saved[Mine(w)].attempts
      BY <1>4, <1>7, <2>2 DEF Value
    <3> QED
      BY <1>11, <2>2, <3>1
  <2> QED
    BY <2>1, <2>2
<1>13. \A q \in Question : Earned(saved'[q])
  BY <1>1, <1>6 DEF BudgetInv
<1>14. \A v \in Caller : task'[v].pc # "idle" => Earned(Local(v)')
  BY <1>1, <1>3, <1>8, <1>9 DEF BudgetInv
<1>15. \A v \in Caller : Open(v)' =>
          /\ posts'[Mine(v)'] + (MaxHttp - call'[v].count) <= Local(v)'.attempts * MaxHttp
          /\ outcome'[Mine(v)'] = "open" => saved'[Mine(v)'].attempts = Local(v)'.attempts
  <2> SUFFICES ASSUME NEW v \in Caller, Open(v)'
               PROVE  /\ posts'[Mine(v)'] + (MaxHttp - call'[v].count) <= Local(v)'.attempts * MaxHttp
                      /\ outcome'[Mine(v)'] = "open" => saved'[Mine(v)'].attempts = Local(v)'.attempts
    OBVIOUS
  <2>1. CASE v = w
    <3>1. posts'[Mine(w)] + (MaxHttp - call'[w].count) = posts[Mine(w)] + MaxHttp
      BY <1>4, <1>10
    <3>2. posts'[Mine(w)] + (MaxHttp - call'[w].count) <= p.attempts * MaxHttp
      BY <1>9, <1>12, <2>1, <3>1
    <3> QED
      BY <1>6, <1>9, <2>1, <3>2
  <2>2. CASE v # w
    <3>1. Open(v) /\ Mine(v)' = Mine(v) /\ Local(v)' = Local(v) /\ call'[v] = call[v]
      BY <1>8, <2>2
    <3>2. /\ posts[Mine(v)] + (MaxHttp - call[v].count) <= Local(v).attempts * MaxHttp
          /\ outcome[Mine(v)] = "open" => saved[Mine(v)].attempts = Local(v).attempts
      BY <1>1, <3>1 DEF BudgetInv
    <3>3. Mine(v) \in Question
      BY <3>1, BoundedFacts DEF Open
    <3>4. saved'[Mine(v)].attempts = saved[Mine(v)].attempts
      <4>1. CASE Mine(v) # Mine(w)
        BY <1>6, <3>3, <4>1
      <4>2. CASE Mine(v) = Mine(w)
        <5>1. pc # "begun"
          BY <2>2, <3>1, <4>2 DEF Alone
        <5> QED
          BY <1>4, <1>6, <1>7, <4>2, <5>1 DEF Value
      <4> QED
        BY <4>1, <4>2
    <3> QED
      BY <3>1, <3>2, <3>4
  <2> QED
    BY <2>1, <2>2
<1>16. \A q \in Question : outcome'[q] = "open" => posts'[q] <= saved'[q].attempts * MaxHttp
  BY <1>1, <1>6, <1>12 DEF BudgetInv
<1>17. \A q \in Question : posts'[q] <= (1 + MaxMore) * MaxHttp
  BY <1>1 DEF BudgetInv
<1> QED
  BY <1>13, <1>14, <1>15, <1>16, <1>17 DEF BudgetInv

\* A step of a call sends what it takes from what the call may still send.
LEMMA SendsKeepBudget ==
    ASSUME BoundedInv, NEW w \in Caller, Open(w), Open(w)', Sends(w),
           NEW x, call' = [call EXCEPT ![w] = x], x.count \in 0 .. MaxHttp,
           call[w].pc \in {"none", "done"} => call[w].count = 0,
           Mine(w)' = Mine(w), Local(w)' = Local(w),
           \A v \in Caller : v # w => task'[v] = task[v],
           UNCHANGED <<saved, outcome>>
    PROVE  BudgetInv'
<1>1. BudgetInv
  BY DEF BoundedInv
<1>2. StateOK /\ PhaseInv /\ OpenInv /\ CallShape
  BY BoundedFacts
<1>3. /\ Mine(w) \in Question /\ posts[Mine(w)] \in Nat /\ MaxHttp \in Nat /\ MaxMore \in Nat
      /\ call[w].count \in 0 .. MaxHttp /\ Local(w).attempts \in Nat
      /\ Local(w).more \in 0 .. MaxMore /\ task[w].pc # "idle"
      /\ saved[Mine(w)].attempts \in Nat
  BY BoundedFacts DEF Open
<1>4. call'[w] = x /\ \A v \in Caller : v # w => call'[v] = call[v]
  BY <1>2 DEF CallShape
<1> DEFINE more == IF call[w].pc \in {"none", "done"} THEN call'[w].count
                   ELSE call'[w].count - call[w].count
<1>5. more = x.count - call[w].count
  BY <1>3, <1>4
<1>6. posts' = [posts EXCEPT ![Mine(w)] = @ + more]
  BY DEF Sends
<1> HIDE DEF more
<1>7. /\ posts'[Mine(w)] = posts[Mine(w)] + (x.count - call[w].count)
      /\ \A q \in Question : q # Mine(w) => posts'[q] = posts[q]
  BY <1>2, <1>3, <1>5, <1>6 DEF StateOK
<1>8. posts[Mine(w)] + (MaxHttp - call[w].count) <= Local(w).attempts * MaxHttp
      /\ (outcome[Mine(w)] = "open" => saved[Mine(w)].attempts = Local(w).attempts)
      /\ Earned(Local(w))
  BY <1>1, <1>3 DEF BudgetInv
<1>9. Local(w).attempts * MaxHttp \in Nat
      /\ Local(w).attempts * MaxHttp <= (1 + MaxMore) * MaxHttp
      /\ (1 + MaxMore) * MaxHttp \in Nat
  <2>1. Local(w).attempts <= 1 + MaxMore /\ 1 + MaxMore \in Nat
    BY <1>3, <1>8 DEF Earned
  <2> HIDE DEF Local
  <2> QED
    BY <1>3, <2>1, Times
<1> DEFINE covered == Local(w).attempts * MaxHttp
           most == (1 + MaxMore) * MaxHttp
<1>10. covered \in Nat /\ most \in Nat /\ covered <= most
       /\ posts[Mine(w)] + (MaxHttp - call[w].count) <= covered
  BY <1>8, <1>9
<1> HIDE DEF covered, most
<1>11. posts'[Mine(w)] + (MaxHttp - x.count) <= covered
       /\ posts'[Mine(w)] <= covered /\ posts'[Mine(w)] <= most
  BY <1>3, <1>7, <1>10
<1>12. \A v \in Caller : v # w => /\ Mine(v)' = Mine(v) /\ Local(v)' = Local(v)
                                  /\ (Open(v)' <=> Open(v)) /\ task'[v] = task[v]
  BY DEF Mine, Local, Open
<1>13. \A v \in Caller : task'[v].pc # "idle" => Earned(Local(v)')
  BY <1>1, <1>8, <1>12 DEF BudgetInv
<1>14. \A v \in Caller : Open(v)' =>
          /\ posts'[Mine(v)'] + (MaxHttp - call'[v].count) <= Local(v)'.attempts * MaxHttp
          /\ outcome'[Mine(v)'] = "open" => saved'[Mine(v)'].attempts = Local(v)'.attempts
  <2> SUFFICES ASSUME NEW v \in Caller, Open(v)'
               PROVE  /\ posts'[Mine(v)'] + (MaxHttp - call'[v].count) <= Local(v)'.attempts * MaxHttp
                      /\ outcome'[Mine(v)'] = "open" => saved'[Mine(v)'].attempts = Local(v)'.attempts
    OBVIOUS
  <2>1. CASE v = w
    BY <1>4, <1>8, <1>11, <2>1 DEF covered
  <2>2. CASE v # w
    <3>1. Open(v) /\ Mine(v)' = Mine(v) /\ Local(v)' = Local(v) /\ call'[v] = call[v]
      BY <1>4, <1>12, <2>2
    <3>2. Mine(v) # Mine(w) /\ Mine(v) \in Question
      BY <1>2, <2>2, <3>1, BoundedFacts DEF OpenInv, Open
    <3>3. posts'[Mine(v)] = posts[Mine(v)]
      BY <1>7, <3>2
    <3> QED
      BY <1>1, <3>1, <3>3 DEF BudgetInv
  <2> QED
    BY <2>1, <2>2
<1>15. \A q \in Question : outcome'[q] = "open" => posts'[q] <= saved'[q].attempts * MaxHttp
  BY <1>1, <1>7, <1>8, <1>11 DEF BudgetInv, covered
<1>16. \A q \in Question : posts'[q] <= (1 + MaxMore) * MaxHttp
  BY <1>1, <1>7, <1>11 DEF BudgetInv, most
<1> QED
  BY <1>1, <1>13, <1>14, <1>15, <1>16 DEF BudgetInv

LEMMA TakeKeepsBudget ==
    ASSUME BoundedInv, NEW w \in Caller, NEW q \in Question, Take(w, q)
    PROVE  BudgetInv'
<1>1. StateOK /\ BudgetInv
  BY BoundedFacts DEF BoundedInv
<1> DEFINE p == IF saved[q] = NoProgress THEN Fresh(config[ProcessOf[w]]) ELSE saved[q]
           t == [pc |-> "enter", question |-> q, local |-> p]
<1>2. Earned(p)
  <2>1. config[ProcessOf[w]] \in Settings
    BY <1>1, CallerAssumption DEF StateOK
  <2> QED
    BY <1>1, <2>1, FreshIsEarned DEF BudgetInv
<1> HIDE DEF p
<1>3. t.pc = "enter" /\ t.local = p
  OBVIOUS
<1>4. task[w].pc = "idle" /\ task' = [task EXCEPT ![w] = t] /\ task \in [Caller -> Task]
      /\ UNCHANGED <<call, saved, outcome, posts>>
  BY <1>1 DEF Take, p, StateOK, CallIdle, history
<1> HIDE DEF t
<1>5. task'[w] = t /\ \A v \in Caller : v # w => task'[v] = task[v]
  BY <1>4
<1>6. ~Open(w) /\ ~Open(w)' /\ Local(w)' = p
  BY <1>3, <1>4, <1>5 DEF Open, Local
<1>7. Earned(Local(w)')
  BY <1>2, <1>6
<1> QED
  BY <1>4, <1>5, <1>6, <1>7, MoveKeepsBudget

\* A task that goes on in its own memory, with a state that is earned.
LEMMA GoesKeepsBudget ==
    ASSUME BoundedInv, NEW w \in Caller, task[w].pc \in {"enter", "agent", "decide"},
           NEW pc \in {"agent", "decide", "finish"}, NEW p \in Progress, Goes(w, pc, p),
           Earned(p), UNCHANGED <<call, saved, outcome, posts>>
    PROVE  BudgetInv'
<1>1. StateOK /\ PhaseInv
  BY BoundedFacts
<1>2. /\ task'[w].pc = pc /\ task'[w].local = p
      /\ \A v \in Caller : v # w => task'[v] = task[v]
  BY <1>1, Moved
<1>3. ~Open(w) /\ ~Open(w)' /\ Local(w)' = p
  BY <1>2 DEF Open, Local
<1>4. Earned(Local(w)')
  BY <1>3
<1> QED
  BY <1>2, <1>3, <1>4, MoveKeepsBudget

LEMMA EnterKeepsBudget ==
    ASSUME BoundedInv, NEW w \in Caller, Enter(w)
    PROVE  BudgetInv'
<1>1. task[w].pc = "enter" /\ Local(w) \in Progress /\ Earned(Local(w))
      /\ Local(w).attempts \in Nat
  BY BoundedFacts DEF Enter, BoundedInv, BudgetInv
<1>2. CASE Local(w).inFlight
  <2> DEFINE p == [Local(w) EXCEPT !.inFlight = FALSE, !.terminal = "outcome_unknown"]
  <2>1. Commit(w, "agent", p, 1) /\ UNCHANGED <<call, outcome, posts>>
    BY <1>2 DEF Enter, CallIdle, Checkpointed, history
  <2>2. /\ p \in Progress /\ p.terminal = "outcome_unknown"
        /\ p.attempts = Local(w).attempts /\ p.more = Local(w).more
    BY <1>1, UnmarkedProgress DEF Terminal
  <2> HIDE DEF p
  <2>3. Earned(p)
    BY <1>1, <2>2, EarnedKeeps
  <2>4. p.attempts = Local(w).attempts + Value("agent" = "begun")
    BY <1>1, <2>2 DEF Value
  <2> QED
    BY <1>1, <2>1, <2>2, <2>3, <2>4, CommitKeepsBudget
<1>3. CASE ~Local(w).inFlight
  <2>1. Goes(w, "agent", Local(w)) /\ UNCHANGED <<call, saved, outcome, posts>>
    BY <1>3 DEF Enter, CallIdle, Checkpointed, history
  <2> QED
    BY <1>1, <2>1, GoesKeepsBudget
<1> QED
  BY <1>2, <1>3

LEMMA CheckAgentKeepsBudget ==
    ASSUME BoundedInv, NEW w \in Caller, CheckAgent(w)
    PROVE  BudgetInv'
<1>1. task[w].pc = "agent" /\ Local(w) \in Progress /\ Earned(Local(w))
      /\ Local(w).attempts \in Nat
  BY BoundedFacts DEF CheckAgent, BoundedInv, BudgetInv
<1>2. CASE Local(w).agent # config[ProcessOf[w]].agent
  <2> DEFINE p == [Local(w) EXCEPT !.terminal = "agent_changed"]
  <2>1. Commit(w, "decide", p, 0) /\ UNCHANGED <<call, outcome, posts>>
    BY <1>2 DEF CheckAgent, CallIdle, Checkpointed, history
  <2>2. /\ p \in Progress /\ p.terminal = "agent_changed"
        /\ p.attempts = Local(w).attempts /\ p.more = Local(w).more
    BY <1>1, EndedProgress DEF Terminal
  <2> HIDE DEF p
  <2>3. Earned(p)
    BY <1>1, <2>2, EarnedKeeps
  <2>4. p.attempts = Local(w).attempts + Value("decide" = "begun")
    BY <1>1, <2>2 DEF Value
  <2> QED
    BY <1>1, <2>1, <2>2, <2>3, <2>4, CommitKeepsBudget
<1>3. CASE ~(Local(w).agent # config[ProcessOf[w]].agent)
  <2>1. Goes(w, "decide", Local(w)) /\ UNCHANGED <<call, saved, outcome, posts>>
    BY <1>3 DEF CheckAgent, CallIdle, Checkpointed, history
  <2> QED
    BY <1>1, <2>1, GoesKeepsBudget
<1> QED
  BY <1>2, <1>3

LEMMA ConcludeKeepsBudget ==
    ASSUME BoundedInv, NEW w \in Caller, Conclude(w)
    PROVE  BudgetInv'
<1>1. task[w].pc = "decide" /\ Local(w) \in Progress /\ Earned(Local(w))
      /\ UNCHANGED <<call, saved, outcome, posts>>
  BY BoundedFacts DEF Conclude, BoundedInv, BudgetInv, CallIdle, Checkpointed, history
<1>2. CASE Goes(w, "finish", Local(w))
  BY <1>1, <1>2, GoesKeepsBudget
<1>3. ASSUME NEW end \in Endings(Local(w)) \ {"none"},
             Goes(w, "finish", [Local(w) EXCEPT !.terminal = end])
      PROVE  BudgetInv'
  <2> DEFINE p == [Local(w) EXCEPT !.terminal = end]
  <2>1. Goes(w, "finish", p) /\ end \in Terminal /\ end # "none"
    BY <1>3, EndingsType
  <2>2. /\ p \in Progress /\ p.terminal = end
        /\ p.attempts = Local(w).attempts /\ p.more = Local(w).more
    BY <1>1, <2>1, EndedProgress
  <2> HIDE DEF p
  <2>3. Earned(p)
    BY <1>1, <2>1, <2>2, EarnedKeeps
  <2> QED
    BY <1>1, <2>1, <2>2, <2>3, GoesKeepsBudget
<1> QED
  BY <1>2, <1>3 DEF Conclude

LEMMA BeginKeepsBudget ==
    ASSUME BoundedInv, NEW w \in Caller, Begin(w)
    PROVE  BudgetInv'
<1>1. /\ task[w].pc = "decide" /\ Local(w) \in Progress /\ Earned(Local(w))
      /\ Local(w).attempts \in Nat /\ Local(w).terminal = "none"
      /\ "none" \in Endings(Local(w)) /\ Holds(w) /\ HolderInv /\ PhaseInv
  BY BoundedFacts DEF Begin, Commit, BoundedInv, BudgetInv
<1>2. ~Local(w).inFlight
  BY <1>1 DEF PhaseInv
<1> DEFINE p == [Local(w) EXCEPT !.inFlight = TRUE, !.attempts = @ + 1]
<1>3. Commit(w, "begun", p, 0) /\ UNCHANGED <<call, outcome, posts>>
  BY DEF Begin, CallIdle, Checkpointed, history
<1>4. /\ p \in Progress /\ p.inFlight
      /\ p.attempts = Local(w).attempts + 1 /\ p.more = Local(w).more
  BY <1>1, MarkedProgress
<1> HIDE DEF p
<1>5. Earned(p)
  BY <1>1, <1>2, <1>4, MarkedIsEarned
<1>6. p.attempts = Local(w).attempts + Value("begun" = "begun")
  BY <1>4 DEF Value
<1>7. ~Barred(Mine(w))
  BY <1>1, <1>2 DEF HolderInv, Barred
<1>8. Alone(w)
  BY <1>7, UnbarredIsAlone DEF BoundedInv
<1> QED
  BY <1>1, <1>3, <1>4, <1>5, <1>6, <1>8, CommitKeepsBudget

LEMMA ReceiveKeepsBudget ==
    ASSUME BoundedInv, NEW w \in Caller, Receive(w)
    PROVE  BudgetInv'
<1>1. task[w].pc = "calling" /\ Local(w) \in Progress /\ Earned(Local(w))
      /\ Local(w).attempts \in Nat
  BY BoundedFacts DEF Receive, BoundedInv, BudgetInv
<1>2. PICK new \in {0, 1}, reason \in Reason : Commit(w, "decide", Append1(Local(w), new, reason), 1)
  BY DEF Receive
<1> DEFINE p == Append1(Local(w), new, reason)
<1>3. /\ p \in Progress /\ p.draft # <<>>
      /\ p.attempts = Local(w).attempts /\ p.more = Local(w).more
  BY <1>1, AppendedProgress
<1>4. Commit(w, "decide", p, 1)
  BY <1>2
<1> HIDE DEF p
<1>5. Earned(p)
  BY <1>1, <1>3, EarnedKeeps
<1>6. p.attempts = Local(w).attempts + Value("decide" = "begun")
  BY <1>1, <1>3 DEF Value
<1>7. call' = [call EXCEPT ![w] = NoCall] /\ UNCHANGED <<outcome, posts>>
  BY DEF Receive, Checkpointed, history
<1> QED
  BY <1>1, <1>3, <1>4, <1>5, <1>6, <1>7, CommitKeepsBudget

LEMMA FailKeepsBudget ==
    ASSUME BoundedInv, NEW w \in Caller, Fail(w)
    PROVE  BudgetInv'
<1>1. task[w].pc = "calling" /\ Local(w) \in Progress /\ Earned(Local(w))
      /\ Local(w).attempts \in Nat
  BY BoundedFacts DEF Fail, BoundedInv, BudgetInv
<1> DEFINE p == [Local(w) EXCEPT !.inFlight = FALSE, !.terminal = "provider_error"]
<1>2. /\ p \in Progress /\ p.terminal = "provider_error"
      /\ p.attempts = Local(w).attempts /\ p.more = Local(w).more
  BY <1>1, UnmarkedProgress DEF Terminal
<1>3. Commit(w, "finish", p, 1) /\ call' = [call EXCEPT ![w] = NoCall]
      /\ UNCHANGED <<outcome, posts>>
  BY DEF Fail, Checkpointed, history
<1> HIDE DEF p
<1>4. Earned(p)
  BY <1>1, <1>2, EarnedKeeps
<1>5. p.attempts = Local(w).attempts + Value("finish" = "begun")
  BY <1>1, <1>2 DEF Value
<1> QED
  BY <1>1, <1>2, <1>3, <1>4, <1>5, CommitKeepsBudget

LEMMA FinishKeepsBudget ==
    ASSUME BoundedInv, NEW w \in Caller, Finish(w)
    PROVE  BudgetInv'
<1>1. task[w].pc = "finish" /\ Local(w) \in Progress /\ Earned(Local(w))
      /\ Local(w).attempts \in Nat
  BY BoundedFacts DEF Finish, BoundedInv, BudgetInv
<1>2. Commit(w, "persist", Local(w), 0) /\ UNCHANGED <<call, outcome, posts>>
  BY DEF Finish, CallIdle, Checkpointed, history
<1>3. Local(w).attempts = Local(w).attempts + Value("persist" = "begun")
  BY <1>1 DEF Value
<1> QED
  BY <1>1, <1>2, <1>3, CommitKeepsBudget

LEMMA PersistKeepsBudget ==
    ASSUME BoundedInv, NEW w \in Caller, Persist(w)
    PROVE  BudgetInv'
<1>1. StateOK /\ BudgetInv /\ Mine(w) \in Question
  BY BoundedFacts DEF Persist, BoundedInv
<1> DEFINE q == Mine(w)
           o == OutcomeOf(Local(w))
<1>2. o # "open"
  BY DEF OutcomeOf
<1>3. /\ outcome' = [outcome EXCEPT ![q] = o] /\ saved' = [saved EXCEPT ![q] = NoProgress]
      /\ task' = [task EXCEPT ![w] = Idle] /\ UNCHANGED <<call, posts>>
  BY DEF Persist, CallIdle, history
<1> HIDE DEF q, o
<1>4. /\ q \in Question => outcome'[q] # "open" /\ saved'[q] = NoProgress
      /\ \A r \in Question : r # q => outcome'[r] = outcome[r] /\ saved'[r] = saved[r]
      /\ task'[w] = Idle /\ \A v \in Caller : v # w => task'[v] = task[v]
  BY <1>1, <1>2, <1>3 DEF StateOK
<1>5. \A v \in Caller : task'[v].pc # "idle" =>
         /\ task'[v] = task[v]
         /\ Mine(v)' = Mine(v) /\ Local(v)' = Local(v) /\ (Open(v)' <=> Open(v))
  BY <1>4, IdleType DEF Mine, Local, Open
<1>6. \A v \in Caller : Open(v)' => task'[v].pc # "idle" /\ task[v].pc # "idle"
  BY <1>5 DEF Open
<1>7. \A r \in Question : Earned(saved'[r])
  BY <1>1, <1>4, NoProgressIsEarned DEF BudgetInv
<1>8. \A v \in Caller : task'[v].pc # "idle" => Earned(Local(v)')
  BY <1>1, <1>5 DEF BudgetInv
<1>9. \A v \in Caller : Open(v)' =>
          /\ posts'[Mine(v)'] + (MaxHttp - call'[v].count) <= Local(v)'.attempts * MaxHttp
          /\ outcome'[Mine(v)'] = "open" => saved'[Mine(v)'].attempts = Local(v)'.attempts
  <2> SUFFICES ASSUME NEW v \in Caller, Open(v)'
               PROVE  /\ posts'[Mine(v)'] + (MaxHttp - call'[v].count) <= Local(v)'.attempts * MaxHttp
                      /\ outcome'[Mine(v)'] = "open" => saved'[Mine(v)'].attempts = Local(v)'.attempts
    OBVIOUS
  <2>1. Open(v) /\ Mine(v)' = Mine(v) /\ Local(v)' = Local(v) /\ Mine(v) \in Question
    BY <1>5, <1>6, BoundedFacts
  <2>2. /\ posts[Mine(v)] + (MaxHttp - call[v].count) <= Local(v).attempts * MaxHttp
        /\ outcome[Mine(v)] = "open" => saved[Mine(v)].attempts = Local(v).attempts
    BY <1>1, <2>1 DEF BudgetInv
  <2>3. outcome'[Mine(v)] = "open" => Mine(v) # q
    BY <1>4, <2>1
  <2> QED
    BY <1>3, <1>4, <2>1, <2>2, <2>3
<1>10. \A r \in Question : outcome'[r] = "open" => posts'[r] <= saved'[r].attempts * MaxHttp
  BY <1>1, <1>3, <1>4 DEF BudgetInv
<1>11. \A r \in Question : posts'[r] <= (1 + MaxMore) * MaxHttp
  BY <1>1, <1>3 DEF BudgetInv
<1> QED
  BY <1>7, <1>8, <1>9, <1>10, <1>11 DEF BudgetInv

LEMMA CallKeepsBounds ==
    ASSUME BoundedInv, NEW w \in Caller, Call(w)
    PROVE  CallsGood' /\ BudgetInv'
<1>1. CallsGood'
  BY StartIsGood DEF Call, BoundedInv
<1>2. PICK x : call' = [call EXCEPT ![w] = x]
  BY DEF Call, StartCall, Becomes
<1>3. StateOK /\ PhaseInv /\ CallShape /\ task[w].pc = "begun" /\ Local(w) \in Progress
      /\ call[w].count = 0
  BY BoundedFacts DEF Call
<1>4. x \in CallRow /\ x.count \in 0 .. MaxHttp
  <2>1. call'[w] = x
    BY <1>2, <1>3 DEF CallShape
  <2>2. call'[w] \in CallRow
    BY <1>1 DEF CallsGood, CallTypeOK
  <2> QED
    BY <2>1, <2>2, RowFields
<1>5. /\ task'[w].pc = "calling" /\ task'[w].question = Mine(w) /\ task'[w].local = Local(w)
      /\ \A v \in Caller : v # w => task'[v] = task[v]
  BY <1>3, Moved DEF Call
<1>6. Open(w) /\ Open(w)' /\ Mine(w)' = Mine(w) /\ Local(w)' = Local(w)
  BY <1>3, <1>5 DEF Open, Mine, Local
<1>7. Sends(w) /\ UNCHANGED <<saved, outcome>>
  BY DEF Call, Checkpointed
<1>8. BudgetInv'
  BY <1>2, <1>3, <1>4, <1>5, <1>6, <1>7, SendsKeepBudget
<1> QED
  BY <1>1, <1>8

LEMMA AwaitKeepsBounds ==
    ASSUME BoundedInv, NEW w \in Caller, Await(w)
    PROVE  CallsGood' /\ BudgetInv'
<1>1. CallsGood'
  BY StepIsGood DEF Await, BoundedInv
<1>2. StateOK /\ PhaseInv /\ CallInv /\ CallShape /\ task[w].pc = "calling"
  BY BoundedFacts DEF Await
<1>3. call[w].pc \notin {"none", "done"} /\ \E x : call' = [call EXCEPT ![w] = x] /\ After(call[w], x)
  BY <1>2, StepRow DEF Await
<1>4. PICK x : call' = [call EXCEPT ![w] = x] /\ After(call[w], x)
  BY <1>3
<1>5. x.count \in 0 .. MaxHttp
  <2>1. call'[w] = x
    BY <1>2, <1>4 DEF CallShape
  <2>2. call'[w] \in CallRow
    BY <1>1 DEF CallsGood, CallTypeOK
  <2> QED
    BY <2>1, <2>2, RowFields
<1>6. Sends(w) /\ UNCHANGED <<saved, outcome, task>>
  BY DEF Await, Checkpointed
<1>7. Open(w) /\ Open(w)' /\ Mine(w)' = Mine(w) /\ Local(w)' = Local(w)
      /\ \A v \in Caller : task'[v] = task[v]
  BY <1>2, <1>6 DEF Open, Mine, Local
<1>8. BudgetInv'
  BY <1>3, <1>4, <1>5, <1>6, <1>7, SendsKeepBudget
<1> QED
  BY <1>1, <1>8

-----------------------------------------------------------------------------
(* The calls that end.                                                     *)

LEMMA EndsKeepBounds ==
    ASSUME BoundedInv, NEW D \in SUBSET Caller,
           task' = [w \in Caller |-> IF w \in D THEN Idle ELSE task[w]],
           call' = [w \in Caller |-> IF w \in D THEN NoCall ELSE call[w]],
           \/ UNCHANGED preference
           \/ \E p \in Process : preference' = [preference EXCEPT ![p] = NoPreference],
           UNCHANGED <<saved, outcome, posts>>
    PROVE  CallsGood' /\ BudgetInv'
<1>1. /\ preference \in [Process -> Preference]
      /\ \A p \in Process : preference[p].fresh => preference[p].variant \in Offered
      /\ \A c \in Caller : Good(call[c])
  BY CallsAreGood DEF BoundedInv
<1>2. NoPreference \in Preference /\ ~NoPreference.fresh
  BY DEF NoPreference, Preference
<1>3. /\ preference' \in [Process -> Preference]
      /\ \A p \in Process : preference'[p].fresh => preference'[p].variant \in Offered
  BY <1>1, <1>2
<1>4. call' = [c \in Caller |-> call'[c]] /\ \A c \in Caller : Good(call'[c])
  BY <1>1, NoCallIsGood
<1>5. CallsGood'
  BY <1>3, <1>4 DEF CallsGood, CallTypeOK, CallPlaceInv, Good, Placed
<1>6. BudgetInv'
  BY EndsKeepBudget
<1> QED
  BY <1>5, <1>6

LEMMA NobodyEndsBounds ==
    ASSUME BoundedInv, \/ UNCHANGED preference
                       \/ \E p \in Process : PreferenceExpires(p),
           UNCHANGED <<call, task, saved, outcome, posts>>
    PROVE  CallsGood' /\ BudgetInv'
<1>1. StateOK /\ CallShape
  BY BoundedFacts
<1> PICK D \in SUBSET Caller : D = {}
  OBVIOUS
<1>2. task' = [v \in Caller |-> IF v \in D THEN Idle ELSE task[v]]
  BY <1>1 DEF StateOK
<1>3. call' = [v \in Caller |-> IF v \in D THEN NoCall ELSE call[v]]
  BY <1>1 DEF CallShape
<1>4. BudgetInv'
  BY <1>2, <1>3, EndsKeepBudget
<1>5. /\ preference \in [Process -> Preference]
      /\ \A p \in Process : preference[p].fresh => preference[p].variant \in Offered
  BY CallsAreGood DEF BoundedInv
<1>6. /\ preference' \in [Process -> Preference]
      /\ \A p \in Process : preference'[p].fresh => preference'[p].variant \in Offered
  <2>1. CASE UNCHANGED preference
    BY <1>5, <2>1
  <2>2. ASSUME NEW p \in Process, PreferenceExpires(p)
        PROVE  /\ preference' \in [Process -> Preference]
               /\ \A r \in Process : preference'[r].fresh => preference'[r].variant \in Offered
    <3> DEFINE old == [preference[p] EXCEPT !.fresh = FALSE]
    <3>1. old \in Preference /\ ~old.fresh
      BY <1>5, <2>2 DEF Preference
    <3>2. preference' = [preference EXCEPT ![p] = old]
      BY <1>5, <2>2 DEF PreferenceExpires
    <3> HIDE DEF old
    <3> QED
      BY <1>5, <2>2, <3>1, <3>2
  <2> QED
    BY <2>1, <2>2
<1>7. CallsGood'
  BY <1>6 DEF BoundedInv, CallsGood, CallTypeOK, CallPlaceInv
<1> QED
  BY <1>4, <1>7

LEMMA CommitKeepsCalls ==
    ASSUME BoundedInv, NEW w \in Caller, UNCHANGED preference,
           UNCHANGED call \/ call' = [call EXCEPT ![w] = NoCall]
    PROVE  CallsGood'
<1>1. CASE UNCHANGED call
  BY <1>1 DEF BoundedInv, CallsGood, CallTypeOK, CallPlaceInv
<1>2. CASE call' = [call EXCEPT ![w] = NoCall]
  BY <1>2, NoCallIsGood, BecomesGood DEF BoundedInv
<1> QED
  BY <1>1, <1>2

LEMMA BoundedStep == BoundedInv /\ [Next]_vars => BoundedInv'
<1> SUFFICES ASSUME BoundedInv, [Next]_vars  PROVE CallsGood' /\ BudgetInv'
  BY StepHolds DEF BoundedInv
<1>1. StateOK /\ CallShape
  BY BoundedFacts
<1>2. ASSUME NEW w \in Caller, NEW q \in Question, Take(w, q)
      PROVE  CallsGood' /\ BudgetInv'
  BY <1>2, TakeKeepsBudget, CommitKeepsCalls DEF Take, CallIdle
<1>3. ASSUME NEW w \in Caller, Work(w)
      PROVE  CallsGood' /\ BudgetInv'
  <2>1. CASE Enter(w)
    BY <2>1, EnterKeepsBudget, CommitKeepsCalls DEF Enter, CallIdle
  <2>2. CASE CheckAgent(w)
    BY <2>2, CheckAgentKeepsBudget, CommitKeepsCalls DEF CheckAgent, CallIdle
  <2>3. CASE Conclude(w)
    BY <2>3, ConcludeKeepsBudget, CommitKeepsCalls DEF Conclude, CallIdle
  <2>4. CASE Begin(w)
    BY <2>4, BeginKeepsBudget, CommitKeepsCalls DEF Begin, CallIdle
  <2>5. CASE Call(w)
    BY <2>5, CallKeepsBounds
  <2>6. CASE Await(w)
    BY <2>6, AwaitKeepsBounds
  <2>7. CASE Receive(w)
    BY <2>7, ReceiveKeepsBudget, CommitKeepsCalls DEF Receive
  <2>8. CASE Fail(w)
    BY <2>8, FailKeepsBudget, CommitKeepsCalls DEF Fail
  <2>9. CASE Finish(w)
    BY <2>9, FinishKeepsBudget, CommitKeepsCalls DEF Finish, CallIdle
  <2>10. CASE Persist(w)
    BY <2>10, PersistKeepsBudget, CommitKeepsCalls DEF Persist, CallIdle
  <2>11. CASE LeaseLost(w)
    <3>1. task' = [v \in Caller |-> IF v \in {w} THEN Idle ELSE task[v]]
      BY <1>1, <2>11 DEF LeaseLost, Ends, StateOK
    <3>2. call' = [v \in Caller |-> IF v \in {w} THEN NoCall ELSE call[v]]
      BY <1>1, <2>11 DEF LeaseLost, Ends, CallShape
    <3>3. UNCHANGED <<preference, saved, outcome, posts>>
      BY <2>11 DEF LeaseLost
    <3> QED
      BY <1>3, <3>1, <3>2, <3>3, EndsKeepBounds
  <2> QED
    BY <1>3, <2>1, <2>2, <2>3, <2>4, <2>5, <2>6, <2>7, <2>8, <2>9, <2>10, <2>11 DEF Work
<1>4. ASSUME NEW w \in Caller, Raise(w)
      PROVE  CallsGood' /\ BudgetInv'
  <2>1. task' = [v \in Caller |-> IF v \in {w} THEN Idle ELSE task[v]]
    BY <1>1, <1>4 DEF Raise, Ends, StateOK
  <2>2. call' = [v \in Caller |-> IF v \in {w} THEN NoCall ELSE call[v]]
    BY <1>1, <1>4 DEF Raise, Ends, CallShape
  <2>3. UNCHANGED <<preference, saved, outcome, posts>>
    BY <1>4 DEF Raise
  <2> QED
    BY <1>4, <2>1, <2>2, <2>3, EndsKeepBounds
<1>5. ASSUME NEW p \in Process, Crash(p)
      PROVE  CallsGood' /\ BudgetInv'
  <2>1. In(p) \in SUBSET Caller
    BY DEF In
  <2> QED
    BY <1>5, <2>1, EndsKeepBounds DEF Crash
<1>6. ASSUME NEW p \in Process, Forget(p)
      PROVE  CallsGood' /\ BudgetInv'
  BY <1>6, NobodyEndsBounds DEF Forget, history, PreferenceExpires
<1>7. ASSUME NEW q \in Question, LeaseExpires(q) \/ Stall(q)
      PROVE  CallsGood' /\ BudgetInv'
  BY <1>7, NobodyEndsBounds DEF LeaseExpires, Stall, CallIdle, history
<1>8. CASE UNCHANGED vars
  BY <1>8, NobodyEndsBounds DEF vars
<1> QED
  BY <1>2, <1>3, <1>4, <1>5, <1>6, <1>7, <1>8 DEF Next

LEMMA BoundedInit == Init => BoundedInv
<1> SUFFICES ASSUME Init  PROVE CallsGood /\ BudgetInv
  BY InitHolds DEF BoundedInv
<1>1. NoPreference \in Preference /\ ~NoPreference.fresh
  BY DEF NoPreference, Preference
<1>2. CallsGood
  BY <1>1, NoCallIsGood, CallsAreGood DEF Init, CallInit
<1>3. \A w \in Caller : ~Open(w) /\ task[w].pc = "idle"
  BY IdleType DEF Init, Open
<1>4. NoProgress.attempts = 0 /\ 0 * MaxHttp = 0 /\ 0 <= (1 + MaxMore) * MaxHttp
  <2>1. MaxHttp \in Nat /\ 1 + MaxMore \in Nat
    BY ClientAssumption, GenerationAssumption
  <2>2. 0 * MaxHttp = 0 /\ 0 <= (1 + MaxMore) * MaxHttp
    BY <2>1
  <2> QED
    BY <2>2 DEF NoProgress
<1>5. BudgetInv
  BY <1>3, <1>4, NoProgressIsEarned DEF Init, BudgetInv
<1> QED
  BY <1>2, <1>5

\* The calls of an answer, and the requests of them, are bounded over all attempts: by the
\* number of continuations and by timeweb_max_http_requests, whoever was overtaken.
THEOREM CallsStayBounded == Spec => []CallsBounded
<1>1. BoundedInv => CallsBounded
  BY DEF BoundedInv, CallsGood, BudgetInv, Earned, CallsBounded
<1> QED
  BY <1>1, BoundedInit, BoundedStep, PTL DEF Spec

=============================================================================
