-------------------------- MODULE ExpertGeneration --------------------------
(***************************************************************************)
(* The generation of an answer by the main expert: a first call of the     *)
(* agent and, in deep mode, continuations while the token limit cuts the   *)
(* answer off (MainExpertAgent._generate).  The progress is saved in       *)
(* user_questions.generation_state before and after each call, so that     *)
(* another attempt, in another process and with another configuration,     *)
(* can go on.  The calls themselves are those of AgentCall.                *)
(*                                                                         *)
(* One action is one transaction or one step of a call.  A transaction     *)
(* commits only while the task holds the lease of the user (Holds).        *)
(***************************************************************************)
EXTENDS AgentCall

LOCAL INSTANCE SequencesExt

CONSTANTS
    Question,
    Agent,          \* possible values of timeweb_agent_3_id
    MaxMore,        \* the largest deep_max_continuations; 0 is quick mode
    Settings,       \* the configurations that are deployed
    MaxFaults       \* bound on the faults of a behaviour

ASSUME GenerationAssumption ==
    /\ MaxMore \in Nat /\ MaxFaults \in Nat
    /\ "none" \notin Agent /\ "none" \notin Caller
    /\ Settings \subseteq [agent : Agent, more : 0 .. MaxMore]

VARIABLES
    config,         \* the settings of a process: agent and number of continuations
    saved,          \* generation_state["progress"] of a question
    usage,          \* AIUsageEvent rows of a question
    lease,          \* the lease of the user for the question: who holds it, if anybody
    task,           \* the local state of each task
    outcome,        \* how the question ended: complete, partial, failed, or open
    asked,          \* agents called for a question (history)
    posts,          \* HTTP requests sent for a question (history)
    unknown,        \* questions with a call whose result nobody saved (history)
    faults

vars == <<preference, call, config, saved, usage, lease, task, outcome, asked, posts,
          unknown, faults>>
history == <<asked, posts, unknown>>

-----------------------------------------------------------------------------
\* stop and completed; the four token limits; incomplete, error, content_filter
\* and failed; and none at all.
Reason == {"stop", "limit", "incomplete", "unstated"}
Terminal == {"none", "complete", "completion_unconfirmed", "provider_incomplete",
             "continuation_limit", "budget_limit", "no_progress", "provider_error",
             "outcome_unknown", "agent_changed"}

\* text: how many pieces the assembled draft has.
Progress == [agent : Agent \union {"none"}, more : 0 .. MaxMore,
             draft : Seq([text : Nat, reason : Reason]), attempts : Nat,
             inFlight : BOOLEAN, terminal : Terminal]

NoProgress == [agent |-> "none", more |-> 0, draft |-> <<>>, attempts |-> 0,
               inFlight |-> FALSE, terminal |-> "none"]

Fresh(c) == [NoProgress EXCEPT !.agent = c.agent, !.more = c.more]

Task == [pc : {"idle", "enter", "agent", "decide", "begun", "calling", "finish", "persist"},
         question : Question \union {"none"}, local : Progress]

Idle == [pc |-> "idle", question |-> "none", local |-> NoProgress]

StateOK ==
    /\ config \in [Process -> Settings]
    /\ saved \in [Question -> Progress]
    /\ usage \in [Question -> Nat]
    /\ lease \in [Question -> Caller \union {"none"}]
    /\ task \in [Caller -> Task]
    /\ outcome \in [Question -> {"open", "complete", "partial", "failed"}]
    /\ asked \in [Question -> SUBSET Agent]
    /\ posts \in [Question -> Nat]
    /\ unknown \subseteq Question
    /\ faults \in 0 .. MaxFaults

Init ==
    /\ CallInit
    /\ config \in [Process -> Settings]
    /\ saved = [q \in Question |-> NoProgress]
    /\ usage = [q \in Question |-> 0]
    /\ lease = [q \in Question |-> "none"]
    /\ task = [w \in Caller |-> Idle]
    /\ outcome = [q \in Question |-> "open"]
    /\ asked = [q \in Question |-> {}]
    /\ posts = [q \in Question |-> 0]
    /\ unknown = {}
    /\ faults = 0

-----------------------------------------------------------------------------
Mine(w) == task[w].question
Local(w) == task[w].local

\* ensure_processing_lease
Holds(w) == lease[Mine(w)] = w

Goes(w, pc, progress) ==
    task' = [task EXCEPT ![w] = [pc |-> pc, question |-> Mine(w), local |-> progress]]

\* Mutant: the commit is not fenced.
Commit_unfenced(w, pc, progress, events) ==
    /\ saved' = [saved EXCEPT ![Mine(w)] = progress]
    /\ usage' = [usage EXCEPT ![Mine(w)] = @ + events]
    /\ Goes(w, pc, progress)

\* checkpoint(), with the usage events of the transaction.
Commit(w, pc, progress, events) ==
    /\ Holds(w)
    /\ saved' = [saved EXCEPT ![Mine(w)] = progress]
    /\ usage' = [usage EXCEPT ![Mine(w)] = @ + events]
    /\ Goes(w, pc, progress)

Checkpointed == <<config, lease, outcome, faults>>
CallIdle == <<preference, call>>

\* A task takes the lease and reads the state.
Take(w, q) ==
    /\ task[w].pc = "idle" /\ outcome[q] = "open" /\ lease[q] = "none"
    /\ lease' = [lease EXCEPT ![q] = w]
    /\ task' = [task EXCEPT ![w] =
                  [pc |-> "enter", question |-> q,
                   local |-> IF saved[q] = NoProgress THEN Fresh(config[ProcessOf[w]])
                             ELSE saved[q]]]
    /\ UNCHANGED <<CallIdle, config, saved, usage, outcome, history, faults>>

\* A call of an earlier attempt may have been billed: it is not made again.
Enter(w) ==
    /\ task[w].pc = "enter"
    /\ IF Local(w).inFlight
       THEN Commit(w, "agent", [Local(w) EXCEPT !.inFlight = FALSE,
                                                !.terminal = "outcome_unknown"], 1)
       ELSE Goes(w, "agent", Local(w)) /\ UNCHANGED <<saved, usage>>
    /\ UNCHANGED <<CallIdle, Checkpointed, history>>

\* Mutant: the draft goes on with the agent of the day.
CheckAgent_ignored(w) ==
    /\ task[w].pc = "agent"
    /\ Goes(w, "decide", [Local(w) EXCEPT !.agent = config[ProcessOf[w]].agent])
    /\ UNCHANGED <<CallIdle, saved, usage, Checkpointed, history>>

\* The draft of another agent is not continued.
CheckAgent(w) ==
    /\ task[w].pc = "agent"
    /\ IF Local(w).agent # config[ProcessOf[w]].agent
       THEN Commit(w, "decide", [Local(w) EXCEPT !.terminal = "agent_changed"], 0)
       ELSE Goes(w, "decide", Local(w)) /\ UNCHANGED <<saved, usage>>
    /\ UNCHANGED <<CallIdle, Checkpointed, history>>

\* What the draft makes of the generation; "none" asks for more.  The budget of the
\* day is spent by all users: it may be exceeded now and not the next time.
Endings(p) ==
    LET reason == p.draft[Len(p.draft)].reason
    IN  IF p.draft = <<>> THEN {"none"}
        ELSE CASE reason = "stop" -> {"complete"}
               [] reason = "unstated" -> {"completion_unconfirmed"}
               [] reason = "incomplete" -> {"provider_incomplete"}
               [] OTHER -> IF p.attempts >= 1 + p.more THEN {"continuation_limit"}
                           ELSE {"none", "budget_limit"}

\* Out of the loop: the end found is saved by the last checkpoint only.
Conclude(w) ==
    /\ task[w].pc = "decide"
    /\ \/ /\ Local(w).terminal # "none"
          /\ Goes(w, "finish", Local(w))
       \/ /\ Local(w).terminal = "none"
          /\ \E end \in Endings(Local(w)) \ {"none"} :
                Goes(w, "finish", [Local(w) EXCEPT !.terminal = end])
    /\ UNCHANGED <<CallIdle, saved, usage, Checkpointed, history>>

\* Mutant: the call is marked in memory only.
Begin_unmarked(w) ==
    /\ task[w].pc = "decide" /\ Holds(w)
    /\ Local(w).terminal = "none" /\ "none" \in Endings(Local(w))
    /\ Goes(w, "begun", [Local(w) EXCEPT !.inFlight = TRUE, !.attempts = @ + 1])
    /\ UNCHANGED <<CallIdle, saved, usage, Checkpointed, history>>

\* The marker of the call is committed before the call.
Begin(w) ==
    /\ task[w].pc = "decide"
    /\ Local(w).terminal = "none" /\ "none" \in Endings(Local(w))
    /\ Commit(w, "begun", [Local(w) EXCEPT !.inFlight = TRUE, !.attempts = @ + 1], 0)
    /\ UNCHANGED <<CallIdle, Checkpointed, history>>

\* posts: what a step of a call adds to the requests sent.
Sends(w) ==
    posts' = [posts EXCEPT ![Mine(w)] =
                @ + IF call[w].pc \in {"none", "done"} THEN call'[w].count
                    ELSE call'[w].count - call[w].count]

Call(w) ==
    /\ task[w].pc = "begun"
    /\ StartCall(w)
    /\ Goes(w, "calling", Local(w))
    /\ asked' = [asked EXCEPT ![Mine(w)] = @ \union {Local(w).agent}]
    /\ Sends(w)
    /\ UNCHANGED <<saved, usage, Checkpointed, unknown>>

\* A step of call_agent.
Await(w) ==
    /\ task[w].pc = "calling"
    /\ CallStep(w)
    /\ Sends(w)
    /\ unknown' = IF call'[w].outcome = "unknown" THEN unknown \union {Mine(w)}
                  ELSE unknown
    /\ UNCHANGED <<saved, usage, task, Checkpointed, asked>>

Previous(p) == IF p.draft = <<>> THEN 0 ELSE p.draft[Len(p.draft)].text

\* The answer adds a piece to the draft or, if it repeats what is there, nothing.
Append1(p, new, reason) ==
    [p EXCEPT !.draft = Append(@, [text |-> Previous(p) + new, reason |-> reason]),
              !.inFlight = FALSE,
              !.terminal = IF new = 0 THEN "no_progress" ELSE @]

\* The usage and the fragment are committed together.
Receive(w) ==
    /\ task[w].pc = "calling"
    /\ call[w].pc = "done" /\ call[w].outcome = "answered"
    /\ \E new \in {0, 1}, reason \in Reason :
          /\ new = 1 \/ Local(w).draft # <<>>
          /\ Commit(w, "decide", Append1(Local(w), new, reason), 1)
    /\ call' = [call EXCEPT ![w] = NoCall]
    /\ UNCHANGED <<preference, Checkpointed, history>>

\* TimewebClientError
Fail(w) ==
    /\ task[w].pc = "calling"
    /\ call[w].pc = "done" /\ call[w].outcome # "answered"
    /\ Commit(w, "finish", [Local(w) EXCEPT !.inFlight = FALSE,
                                            !.terminal = "provider_error"], 1)
    /\ call' = [call EXCEPT ![w] = NoCall]
    /\ UNCHANGED <<preference, Checkpointed, history>>

\* The checkpoint after the loop.
Finish(w) ==
    /\ task[w].pc = "finish"
    /\ Commit(w, "persist", Local(w), 0)
    /\ UNCHANGED <<CallIdle, Checkpointed, history>>

OutcomeOf(p) == IF p.draft = <<>> THEN "failed"
                ELSE IF p.terminal = "complete" THEN "complete" ELSE "partial"

\* The answer, or the failure, is stored and the state cleared: one transaction.
Persist(w) ==
    /\ task[w].pc = "persist" /\ Holds(w)
    /\ outcome' = [outcome EXCEPT ![Mine(w)] = OutcomeOf(Local(w))]
    /\ saved' = [saved EXCEPT ![Mine(w)] = NoProgress]
    /\ lease' = [lease EXCEPT ![Mine(w)] = "none"]
    /\ task' = [task EXCEPT ![w] = Idle]
    /\ UNCHANGED <<CallIdle, config, usage, history, faults>>

-----------------------------------------------------------------------------
(* Ends of an attempt, and the environment.                                *)

\* A call of the task that was begun and whose result is not saved.
Open(w) == task[w].pc \in {"begun", "calling"}

Ends(w) ==
    /\ task' = [task EXCEPT ![w] = Idle]
    /\ call' = [call EXCEPT ![w] = NoCall]
    /\ unknown' = IF Open(w) THEN unknown \union {Mine(w)} ELSE unknown

\* LeaseLost, wherever the task would commit.
LeaseLost(w) ==
    /\ task[w].pc \in {"enter", "agent", "decide", "calling", "finish", "persist"}
    /\ task[w].pc = "calling" => call[w].pc = "done"
    /\ ~Holds(w)
    /\ Ends(w)
    /\ UNCHANGED <<preference, config, saved, usage, lease, outcome, asked, posts, faults>>

\* An error of the database, or a cancellation, at any await.  The lease is released.
Raise(w) ==
    /\ task[w].pc # "idle" /\ faults < MaxFaults
    /\ faults' = faults + 1
    /\ lease' = IF Holds(w) THEN [lease EXCEPT ![Mine(w)] = "none"] ELSE lease
    /\ Ends(w)
    /\ UNCHANGED <<preference, config, saved, usage, outcome, asked, posts>>

In(p) == {w \in Caller : ProcessOf[w] = p}

\* The process dies and is started again, perhaps with another configuration.
Crash(p) ==
    /\ faults < MaxFaults
    /\ \E w \in In(p) : task[w].pc # "idle"
    /\ faults' = faults + 1
    /\ \E c \in Settings : config' = [config EXCEPT ![p] = c]
    /\ task' = [w \in Caller |-> IF w \in In(p) THEN Idle ELSE task[w]]
    /\ call' = [w \in Caller |-> IF w \in In(p) THEN NoCall ELSE call[w]]
    /\ preference' = [preference EXCEPT ![p] = NoPreference]
    /\ unknown' = unknown \union {Mine(w) : w \in {v \in In(p) : Open(v)}}
    /\ UNCHANGED <<saved, usage, lease, outcome, asked, posts>>

\* Mutant: a lease is freed by its holder only.
Gone_never(q) == q \notin Question

Gone(q) == \A w \in Caller : Mine(w) = q => lease[q] # w

\* The lease of a task that is gone runs out.
LeaseExpires(q) ==
    /\ lease[q] # "none" /\ Gone(q)
    /\ lease' = [lease EXCEPT ![q] = "none"]
    /\ UNCHANGED <<CallIdle, config, saved, usage, task, outcome, history, faults>>

\* A task stands still and does not renew its lease.
Stall(q) ==
    /\ lease[q] # "none" /\ ~Gone(q) /\ faults < MaxFaults
    /\ faults' = faults + 1
    /\ lease' = [lease EXCEPT ![q] = "none"]
    /\ UNCHANGED <<CallIdle, config, saved, usage, task, outcome, history>>

Forget(p) ==
    /\ PreferenceExpires(p)
    /\ UNCHANGED <<config, saved, usage, lease, task, outcome, history, faults>>

Work(w) ==
    \/ Enter(w) \/ CheckAgent(w) \/ Conclude(w) \/ Begin(w) \/ Call(w) \/ Await(w)
    \/ Receive(w) \/ Fail(w) \/ Finish(w) \/ Persist(w) \/ LeaseLost(w)

Next ==
    \/ \E w \in Caller, q \in Question : Take(w, q)
    \/ \E w \in Caller : Work(w) \/ Raise(w)
    \/ \E p \in Process : Crash(p) \/ Forget(p)
    \/ \E q \in Question : LeaseExpires(q) \/ Stall(q)

Spec == Init /\ [][Next]_vars

\* Tasks run on, agents answer or time out, questions are attempted again, and the
\* leases of tasks that are gone expire.
FairSpec ==
    /\ Spec
    /\ \A w \in Caller : WF_vars(Work(w))
    /\ \A q \in Question : WF_vars(\E w \in Caller : Take(w, q))
    /\ \A q \in Question : WF_vars(LeaseExpires(q))

-----------------------------------------------------------------------------
(* Properties.                                                             *)

\* Once the result of a call of the agent may have been lost, no request is sent for
\* the question any more, by whichever attempt, process or configuration.
NoReplay == [][\A q \in unknown : posts'[q] = posts[q]]_vars

\* Each call is accounted for exactly once, as soon as its marker is gone: neither
\* a crash nor a successor loses or doubles a usage event.
AccountedOnce ==
    \A q \in Question : outcome[q] = "open" =>
        usage[q] = saved[q].attempts - (IF saved[q].inFlight THEN 1 ELSE 0)

\* The calls of an answer are bounded over all attempts, and so are their requests: those
\* of one call by its type.
CallsBounded ==
    /\ CallTypeOK
    /\ \A q \in Question : /\ saved[q].attempts <= 1 + saved[q].more
                           /\ posts[q] <= (1 + MaxMore) * MaxHttp

\* An answer comes from one agent, also if the configuration changes halfway.
OneAgent == \A q \in Question : Cardinality(asked[q]) <= 1

\* A saved draft only grows until the answer is stored: no attempt that was overtaken
\* puts an older one in its place.
DraftGrows ==
    [][\A q \in Question : \/ IsPrefix(saved[q].draft, saved'[q].draft)
                           \/ outcome'[q] # "open"]_vars

\* Each question gets an answer, whole or in part, or is given up.
EventuallyGenerated == \A q \in Question : <>(outcome[q] # "open")

-----------------------------------------------------------------------------
(* Why it is so: an inductive invariant.                                   *)

\* What a task that holds the lease knows is what is saved; only the end it found may be
\* still to be saved.
HolderInv ==
    \A w \in Caller : task[w].pc # "idle" /\ Holds(w) =>
        LET mine == Local(w)
            kept == saved[Mine(w)]
        IN  /\ outcome[Mine(w)] = "open"
            /\ mine.draft = kept.draft /\ mine.attempts = kept.attempts
            /\ mine.inFlight = kept.inFlight
            /\ task[w].pc # "finish" => mine.terminal = kept.terminal
            /\ mine.agent = kept.agent \/ kept = NoProgress

\* Where a task stands says whether its call is marked, and whether it found an end.
PhaseInv ==
    \A w \in Caller : task[w].pc # "idle" =>
        /\ Mine(w) \in Question /\ Local(w).agent \in Agent
        /\ task[w].pc \in {"agent", "decide", "finish", "persist"} => ~Local(w).inFlight
        /\ Open(w) => Local(w).inFlight
        /\ task[w].pc \in {"finish", "persist"} => Local(w).terminal # "none"

\* No further call is begun for a question.
Barred(q) == outcome[q] # "open" \/ saved[q].inFlight \/ saved[q].terminal # "none"

\* At most one call of a question is open, by whichever task, and while it is, or when its
\* result was lost, no other is begun.
OpenInv ==
    /\ \A w \in Caller : Open(w) => Barred(Mine(w))
    /\ \A v, w \in Caller : Open(v) /\ Open(w) /\ Mine(v) = Mine(w) => v = w
    /\ \A q \in unknown : Barred(q)
    /\ \A w \in Caller : Open(w) /\ Mine(w) \in unknown =>
          task[w].pc = "calling" /\ call[w].pc = "done" /\ call[w].outcome = "unknown"

\* A call lasts as long as its task waits for it.
CallInv ==
    \A w \in Caller : /\ call[w].outcome = "unknown" => call[w].pc = "done"
                      /\ task[w].pc # "calling" => call[w] = NoCall

\* The agent that was asked first is the agent of the draft, and of the call that is open.
AgentInv ==
    /\ \A q \in Question : saved[q] = NoProgress \/ saved[q].agent \in Agent
    /\ \A q \in Question : outcome[q] = "open" => \A a \in asked[q] : a = saved[q].agent
    /\ \A w \in Caller : Open(w) =>
          /\ \A a \in asked[Mine(w)] : a = Local(w).agent
          /\ outcome[Mine(w)] = "open" => saved[Mine(w)].agent = Local(w).agent
    /\ \A q \in Question : \A a, b \in asked[q] : a = b

\* Each continuation has been earned by a call before it: a draft without an end and without
\* a piece is one of which no call was made.
Earned(p) ==
    /\ p.attempts <= 1 + p.more
    /\ p.draft = <<>> /\ ~p.inFlight /\ p.terminal = "none" => p.attempts = 0

\* The requests of a question, with those that its open call may still send, are covered by
\* the attempts that are saved: also those of a task whose lease was taken over.
BudgetInv ==
    /\ \A q \in Question : Earned(saved[q])
    /\ \A w \in Caller : task[w].pc # "idle" => Earned(Local(w))
    /\ \A w \in Caller : Open(w) =>
          /\ posts[Mine(w)] + (MaxHttp - call[w].count) <= Local(w).attempts * MaxHttp
          /\ outcome[Mine(w)] = "open" => saved[Mine(w)].attempts = Local(w).attempts
    /\ \A q \in Question : outcome[q] = "open" => posts[q] <= saved[q].attempts * MaxHttp
    /\ \A q \in Question : posts[q] <= (1 + MaxMore) * MaxHttp

GenerationInv ==
    StateOK /\ HolderInv /\ PhaseInv /\ OpenInv /\ CallInv /\ AgentInv /\ AccountedOnce
=============================================================================
