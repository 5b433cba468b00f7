------------------------------ MODULE Dialogue ------------------------------
(***************************************************************************)
(* What a question is answered from.  The questions of one person are kept *)
(* in sessions; a follow-up is answered with earlier exchanges of its      *)
(* topic; /new and /forget close the sessions of the private chat; an      *)
(* administrator blocks and unblocks sessions; an answer that owes nothing *)
(* to a conversation goes to the cache that everybody shares.              *)
(*                                                                         *)
(* The questions of a person are handled one after the other, under the    *)
(* processing lease (QuestionFlow shows what happens when it is lost, and  *)
(* AnswerExpansion how an expansion starts), so one task stands for them.  *)
(* Service commands and administrators come between any two of its         *)
(* transactions.  Questions are numbered in the order of created_at, and   *)
(* stand for their answers too.                                            *)
(***************************************************************************)
EXTENDS Naturals, Sequences, FiniteSetsExt

CONSTANTS
    MaxQuestions,       \* bound on the questions of a behaviour
    MaxSessions,        \* bound on its sessions
    MaxCommands,        \* bound on commands and refused messages
    Turns,              \* private_context_turns
    PauseAt, BlockAt    \* session_junk_score_pause and _block

ASSUME BoundsAssumption == MaxQuestions \in Nat /\ MaxSessions \in Nat /\ MaxCommands \in Nat
ASSUME SettingsAssumption == Turns \in Nat \ {0} /\ PauseAt \in Nat /\ BlockAt \in Nat

VARIABLES
    session,    \* chat_sessions of the person
    question,   \* user_questions with bot_responses, by created_at
    facts,      \* whether the profile holds confirmed facts
    cache,      \* answer_cache: the questions whose answers it holds
    task,       \* the handler of the question under way
    closings,   \* how many times /forget or /new was committed (history)
    commands    \* how many commands there were

vars == <<session, question, facts, cache, task, closings, commands>>

-----------------------------------------------------------------------------
SessionRow == [is_private : BOOLEAN, status : {"active", "paused", "blocked"},
               closed : BOOLEAN, junk : 0 .. BlockAt, summary : SUBSET (1 .. MaxQuestions)]

NewSession(private) == [is_private |-> private, status |-> "active", closed |-> FALSE,
                        junk |-> 0, summary |-> {}]

\* context, summary: what the expert was given, and context_snapshot.summary_after;
\* after: the questions whose content they hold.  judged: the question it was compared
\* with; began, created: the closings before it was received and before its commit.
QuestionRow ==
    [session : 1 .. MaxSessions, status : {"pending", "processing", "answered", "truncated",
                                           "rejected", "failed"},
     relation : {"none", "standalone", "ambiguous", "related", "expansion"},
     context : SUBSET (1 .. MaxQuestions), summary : SUBSET (1 .. MaxQuestions),
     root : 0 .. MaxQuestions, judged : 0 .. MaxQuestions, source : 0 .. MaxQuestions,
     personal : BOOLEAN, began : 0 .. MaxCommands, created : 0 .. MaxCommands]

NewQuestion(s, began) ==
    [session |-> s, status |-> "pending", relation |-> "none", context |-> {}, summary |-> {},
     root |-> 0, judged |-> 0, source |-> 0, personal |-> FALSE, began |-> began,
     created |-> closings]

Task == [pc : {"idle", "accept", "relate", "admit", "answer"}, private : BOOLEAN,
         session : 0 .. MaxSessions, relation : {"none", "standalone", "ambiguous", "related"},
         include : BOOLEAN, previous : 0 .. MaxQuestions, summary : SUBSET (1 .. MaxQuestions),
         facts : BOOLEAN, began : 0 .. MaxCommands]

Idle == [pc |-> "idle", private |-> FALSE, session |-> 0, relation |-> "none",
         include |-> FALSE, previous |-> 0, summary |-> {}, facts |-> FALSE, began |-> 0]

Asked == DOMAIN question
Last == Len(question)

TypeOK ==
    /\ session \in Seq(SessionRow) /\ Len(session) <= MaxSessions
    /\ question \in Seq(QuestionRow) /\ Len(question) <= MaxQuestions
    /\ facts \in BOOLEAN
    /\ cache \subseteq Asked
    /\ task \in Task
    /\ commands \in 0 .. MaxCommands /\ closings \in 0 .. commands

Init ==
    /\ session = << >> /\ question = << >> /\ facts = FALSE /\ cache = {}
    /\ task = Idle /\ closings = 0 /\ commands = 0

-----------------------------------------------------------------------------
(* What the repository reads.                                              *)

Latest(S) == IF S = {} THEN 0 ELSE Max(S)
In(s) == {q \in Asked : question[q].session = s}

\* _topic_boundary: the question that opened the current topic, also if it failed later.
Boundary(s) == Latest({q \in In(s) : question[q].relation \in {"standalone", "ambiguous"}})

\* Mutant: an expansion belongs to the topic in which it was asked for.
Scope_expansions(s) == {q \in In(s) : Boundary(s) = 0 \/ q >= Boundary(s)}

\* _topic_scope: an expansion belongs to the topic of its source.
Scope(s) ==
    {q \in In(s) :
        \/ Boundary(s) = 0
        \/ q >= Boundary(s) /\ (question[q].relation = "expansion" =>
                                   question[q].root = Boundary(s))}

AnsweredIn(s) == {q \in Scope(s) : question[q].status = "answered"}

\* get_previous_qa_for_session
Previous(s) == Latest({q \in AnsweredIn(s) : question[q].relation # "expansion"})

\* get_recent_qa_for_session
Recent(s, limit) == {q \in AnsweredIn(s) : Cardinality({r \in AnsweredIn(s) : r > q}) < limit}

\* Mutant: a session is open when nobody paused or blocked it.
Open_byStatus(s) == session[s].is_private /\ session[s].status = "active"

Open(s) == session[s].is_private /\ session[s].status = "active" /\ ~session[s].closed

-----------------------------------------------------------------------------
(* The gate, and where a question belongs.                                 *)

\* increment_session_junk_score and the thresholds
Spoiled(row, delta) ==
    LET junk == Min({row.junk + delta, BlockAt}) IN
    [row EXCEPT !.junk = junk,
                !.status = IF junk >= BlockAt THEN "blocked"
                           ELSE IF junk >= PauseAt THEN "paused" ELSE @]

\* get_active_private_session: the one that was touched last, if there are several.
ActivePrivate(s) ==
    IF s = 0 THEN \A t \in DOMAIN session : ~Open(t) ELSE s \in DOMAIN session /\ Open(s)

\* In the group, the session of the answer it replies to; 0 for another person's.
Replied(s) == s # 0 => s \in DOMAIN session /\ ~session[s].is_private
                       /\ \E q \in In(s) : question[q].status \in {"answered", "truncated"}

Ask(private, s) ==
    /\ task.pc = "idle" /\ Last < MaxQuestions
    /\ IF private THEN ActivePrivate(s) ELSE Replied(s)
    /\ ~private /\ s # 0 => session[s].status = "active"
    /\ s = 0 => Len(session) < MaxSessions
    /\ task' = [Idle EXCEPT !.pc = "accept", !.private = private, !.session = s,
                            !.facts = facts, !.began = closings]
    /\ UNCHANGED <<session, question, facts, cache, closings, commands>>

Counted == commands < MaxCommands /\ commands' = commands + 1

\* Refused by the gate: a reply without a question, or a repeated one, spoils the session.
Refuse(s) ==
    /\ task.pc = "idle" /\ Replied(s) /\ session[s].status = "active" /\ Counted
    /\ \E delta \in {1, 2} : session' = [session EXCEPT ![s] = Spoiled(@, delta)]
    /\ UNCHANGED <<question, facts, cache, task, closings>>

Home == IF task.session = 0 THEN Len(session) + 1 ELSE task.session

Accept ==
    /\ task.pc = "accept"
    /\ session' = IF task.session = 0 THEN Append(session, NewSession(task.private)) ELSE session
    /\ question' = Append(question, NewQuestion(Home, task.began))
    /\ task' = [task EXCEPT !.pc = "relate", !.session = Home]
    /\ UNCHANGED <<facts, cache, closings, commands>>

-----------------------------------------------------------------------------
(* Classification.                                                         *)

\* The first question of a topic is not compared with anything, in the group it is
\* "standalone".  What continues nothing starts a session of its own in the group.
Relate ==
    /\ task.pc = "relate"
    /\ LET previous == Previous(task.session) IN
       \E relation \in IF previous # 0 THEN {"standalone", "ambiguous", "related"}
                       ELSE IF task.private \/ Cardinality(In(task.session)) = 1 THEN {"none"}
                       ELSE {"standalone"}, include \in BOOLEAN :
          LET leaves == ~task.private /\ previous # 0 /\ relation # "related" IN
          /\ include => relation = "related"
          /\ leaves => Len(session) < MaxSessions
          /\ session' = IF leaves THEN Append(session, NewSession(FALSE)) ELSE session
          /\ question' = [question EXCEPT ![Last].session = IF leaves THEN Len(session) + 1 ELSE @]
          /\ task' = [task EXCEPT !.pc = "admit", !.session = question'[Last].session,
                                  !.relation = relation, !.include = include,
                                  !.previous = previous]
    /\ UNCHANGED <<facts, cache, closings, commands>>

Contextual == task.relation = "related" /\ task.include

\* Mutant: what counts is whether there are facts now.
CacheAllowed_now ==
    task.relation \in {"none", "standalone"} /\ (task.private => ~facts)

\* The user was read when the question was received.
CacheAllowed ==
    task.relation \in {"none", "standalone"} /\ (task.private => ~task.facts)

Recorded == IF task.relation = "none" THEN "standalone" ELSE task.relation

\* What a follow-up is answered from.
Summary == IF Contextual /\ task.private THEN question[task.previous].summary ELSE {}

History ==
    IF ~Contextual THEN {}
    ELSE IF task.private THEN Recent(task.session, IF Summary = {} THEN Turns ELSE Min({Turns, 3}))
    ELSE {Previous(task.session)} \ {0}

\* The relation is written after the history was read, and with it the topic.
Admit ==
    /\ task.pc = "admit"
    /\ question' = [question EXCEPT
          ![Last].status = "processing", ![Last].relation = Recorded,
          ![Last].judged = task.previous,
          ![Last].context = History \union Summary,
          ![Last].personal = task.private /\ (IF Contextual THEN facts ELSE task.facts),
          ![Last].root = IF Contextual THEN Boundary(task.session) ELSE Last]
    /\ task' = [task EXCEPT !.pc = "answer", !.summary = Summary]
    /\ UNCHANGED <<session, facts, cache, closings, commands>>

\* Off topic; a hostile one counts threefold.
Reject ==
    /\ task.pc = "admit"
    /\ question' = [question EXCEPT ![Last].status = "rejected"]
    /\ \E delta \in {1, 3} : session' = [session EXCEPT ![task.session] = Spoiled(@, delta)]
    /\ task' = Idle
    /\ UNCHANGED <<facts, cache, closings, commands>>

\* No credits: the question stays "pending".
CannotPay ==
    /\ task.pc = "admit" /\ task.private
    /\ task' = Idle
    /\ UNCHANGED <<session, question, facts, cache, closings, commands>>

-----------------------------------------------------------------------------
(* Answers.                                                                *)

\* Mutant: the summary is that of the exchanges before.
SummaryAfter_before(q) == task.summary

\* _updated_private_summary; an earlier line may be cut off, the last one never is.
SummaryAfter(q) == task.summary \union {q}

\* Mutant: the summary is written to whatever session the question was asked in.
Summarised_always(s) ==
    [session EXCEPT ![s].summary = IF task.private THEN SummaryAfter(Last) ELSE @]

\* update_session_summary
Summarised(s) ==
    [session EXCEPT ![s].summary =
        IF task.private /\ ~session[s].closed /\ question[Last].relation # "expansion"
        THEN SummaryAfter(Last) ELSE @]

\* _persist_answer, and what is stored for everybody.
Answer(status) ==
    /\ task.pc = "answer"
    /\ question' = [question EXCEPT ![Last].status = status,
                                    ![Last].summary = IF task.private THEN SummaryAfter(Last) ELSE {}]
    /\ session' = Summarised(question[Last].session)
    /\ cache' = IF question[Last].relation # "expansion" /\ CacheAllowed /\ status = "answered"
                THEN cache \union {Last} ELSE cache
    /\ task' = Idle
    /\ UNCHANGED <<facts, closings, commands>>

\* _serve_cached_answer
ServeCached ==
    /\ task.pc = "admit" /\ CacheAllowed /\ cache # {}
    /\ question' = [question EXCEPT
          ![Last].status = "answered", ![Last].relation = Recorded, ![Last].root = Last,
          ![Last].judged = task.previous,
          ![Last].summary = IF task.private THEN {Last} ELSE {}]
    /\ session' = Summarised(question[Last].session)
    /\ task' = Idle
    /\ UNCHANGED <<facts, cache, closings, commands>>

\* _fail_closed, or an interrupted attempt that is given up.
Fail ==
    /\ task.pc \in {"relate", "admit", "answer"}
    /\ question' = [question EXCEPT ![Last].status = "failed"]
    /\ task' = Idle
    /\ UNCHANGED <<session, facts, cache, closings, commands>>

\* An expansion starts: asked for once, while the session of its source is not closed.
Expand(q) ==
    /\ task.pc = "idle" /\ Last < MaxQuestions
    /\ question[q].status = "answered" /\ question[q].relation # "expansion"
    /\ session[question[q].session].is_private /\ ~session[question[q].session].closed
    /\ \A r \in Asked : question[r].source # q
    /\ question' = Append(question,
          [NewQuestion(question[q].session, closings) EXCEPT
              !.status = "processing", !.relation = "expansion", !.source = q,
              !.root = question[q].root, !.context = question[q].context \union {q},
              !.personal = question[q].personal])
    /\ task' = [Idle EXCEPT !.pc = "answer", !.private = TRUE, !.session = question[q].session,
                            !.summary = question[q].context, !.facts = facts, !.began = closings]
    /\ UNCHANGED <<session, facts, cache, closings, commands>>

-----------------------------------------------------------------------------
(* Commands.                                                               *)

Remember ==
    /\ ~facts /\ Counted
    /\ facts' = TRUE
    /\ UNCHANGED <<session, question, cache, task, closings>>

\* close_private_sessions
Closed == [s \in DOMAIN session |->
              IF session[s].is_private /\ ~session[s].closed
              THEN [session[s] EXCEPT !.status = "paused", !.closed = TRUE] ELSE session[s]]

\* /new; and /forget, which clears the profile as well.
Close(forget) ==
    /\ Counted /\ closings' = closings + 1
    /\ session' = Closed
    /\ facts' = (facts /\ ~forget)
    /\ UNCHANGED <<question, cache, task>>

\* set_session_blocked
SetBlocked(s, blocked) ==
    /\ Counted
    /\ session' = [session EXCEPT ![s].status = IF blocked THEN "blocked" ELSE "active"]
    /\ UNCHANGED <<question, facts, cache, task, closings>>

Next ==
    \/ \E private \in BOOLEAN, s \in 0 .. MaxSessions : Ask(private, s)
    \/ \E s \in DOMAIN session : Refuse(s)
    \/ Accept \/ Relate \/ Admit \/ Reject \/ CannotPay
    \/ \E status \in {"answered", "truncated"} : Answer(status)
    \/ ServeCached \/ Fail
    \/ \E q \in Asked : Expand(q)
    \/ Remember
    \/ \E forget \in BOOLEAN : Close(forget)
    \/ \E s \in DOMAIN session, blocked \in BOOLEAN : SetBlocked(s, blocked)

Spec == Init /\ [][Next]_vars

-----------------------------------------------------------------------------
(* Properties.                                                             *)

\* The question under way is the last one, and the handler knows its session.
TaskInv ==
    /\ task.pc \in {"relate", "admit", "answer"} =>
          Last > 0 /\ question[Last].session = task.session /\ task.session \in DOMAIN session
    /\ \A q \in Asked : question[q].status = "processing" => q = Last /\ task.pc = "answer"

\* The topic of a question: that of the exchange it was found to continue, that of the
\* answer it expands, or one of its own.
topic[q \in Asked] ==
    CASE question[q].relation = "related"   -> topic[question[q].judged]
      [] question[q].relation = "expansion" -> topic[question[q].source]
      [] OTHER                              -> q

\* Nothing of another topic reaches the expert, whatever was expanded, rejected or
\* failed in between (PROMPT_SYNC_VALIDATION.md on topic_root_question_id).
TopicIsolated == \A q \in Asked : \A r \in question[q].context : topic[r] = topic[q]

\* The types of the variables, what the handler relies on, and the topics.
DialogueInv == TypeOK /\ TaskInv /\ TopicIsolated

\* A follow-up is answered with the exchange it follows.
FollowUpHasContext ==
    \A q \in Asked : question[q].context # {} /\ question[q].relation = "related" =>
        question[q].judged \in question[q].context

\* A private question received after /new or /forget is answered without anything that
\* was asked before, also if a question was under way or a session was unblocked.
ForgottenForGood ==
    \A q \in Asked : session[question[q].session].is_private =>
        \A r \in question[q].context : question[r].created >= question[q].began

\* The cache holds no answer that was made from a conversation or from personal facts
\* (ARCHITECTURE.md: such answers "are excluded from the shared FAQ cache").
CacheIsImpersonal == \A q \in cache : question[q].context = {} /\ ~question[q].personal

\* An answer that comes late changes nothing in a closed session (ARCHITECTURE.md:
\* /forget "cannot be undone by a delayed generation").
ClosedIsClosed ==
    [][\A s \in DOMAIN session : session[s].closed =>
          session'[s].closed /\ session'[s].summary = session[s].summary]_vars
=============================================================================
