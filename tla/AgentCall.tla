----------------------------- MODULE AgentCall ------------------------------
(***************************************************************************)
(* A call of an AI agent as TimewebClient makes it: the variants of the    *)
(* request are tried in turn, each a few times, until one is answered.     *)
(* The client of a process remembers for ten minutes which variant was     *)
(* answered last; all its calls share that preference.                     *)
(*                                                                         *)
(* A request is sent in the step that decides on it: the code does not     *)
(* wait between the two.  The provider (external) may answer anything.     *)
(***************************************************************************)
EXTENDS Naturals, Sequences, FiniteSets

LOCAL INSTANCE SequencesExt

CONSTANTS
    Process,
    Caller,             \* who calls: a task, at most one call at a time
    ProcessOf,          \* the process a caller runs in
    NativeUrls,         \* the native variants: one URL, or that of the base and the usual one
    PreferOpenAi,       \* timeweb_preferred_transport = "openai"
    TriesPerVariant,    \* timeweb_max_attempts
    MaxHttp             \* timeweb_max_http_requests

ASSUME CallerAssumption == ProcessOf \in [Caller -> Process]
ASSUME ClientAssumption ==
    /\ NativeUrls \in Seq({"native", "native_default"}) /\ NativeUrls # <<>>
    /\ PreferOpenAi \in BOOLEAN
    /\ TriesPerVariant \in Nat \ {0} /\ MaxHttp \in Nat \ {0}

VARIABLES
    preference,     \* _transport_preferences of a process for this agent
    call            \* the local state of _call_bounded for each caller

-----------------------------------------------------------------------------
Variant == {"chat_completions_no_reasoning", "responses", "responses_plain",
            "native", "native_default"}

\* What a request can come to: an answer; 400, 404, 405, 422; 401 to 403 or the
\* token limit; 429 or 5xx; another status or an empty answer; no usable answer.
Reply == {"answered", "unsupported", "denied", "busy", "odd", "unknown"}

NoPreference == [variant |-> "none", fresh |-> FALSE]
Preference == [variant : Variant \union {"none"}, fresh : BOOLEAN]

CallRow == [pc : {"none", "waiting", "backoff", "done"}, order : Seq(Variant),
            at : Nat, try : 1 .. TriesPerVariant, count : 0 .. MaxHttp, preferred : Variant \union {"none"},
            outcome : Reply \union {"none"}]

NoCall == [pc |-> "none", order |-> <<>>, at |-> 1, try |-> 1, count |-> 0,
           preferred |-> "none", outcome |-> "none"]

CallTypeOK == /\ preference \in [Process -> Preference]
              /\ call \in [Caller -> CallRow]

CallInit == /\ preference = [p \in Process |-> NoPreference]
            /\ call = [c \in Caller |-> NoCall]

-----------------------------------------------------------------------------
(* Steps of a call.                                                        *)

RequestVariants ==
    LET modern == <<"chat_completions_no_reasoning", "responses">>
    IN  (IF PreferOpenAi THEN modern \o NativeUrls ELSE NativeUrls \o modern)
            \o <<"responses_plain">>

Offered == {RequestVariants[i] : i \in DOMAIN RequestVariants}

\* The sort is stable: the preferred variant first, the others as they were.
PreferredFirst(v) ==
    LET at == CHOOSE i \in DOMAIN RequestVariants : RequestVariants[i] = v
    IN  IF v \in Offered THEN <<v>> \o RemoveAt(RequestVariants, at)
        ELSE RequestVariants

MyPreference(c) == preference[ProcessOf[c]]
Using(c) == call[c].order[call[c].at]

\* Mutant: each variant has a budget of its own.
Send_own_budget(x) ==
    IF x.try > MaxHttp THEN [x EXCEPT !.pc = "done"]
    ELSE [x EXCEPT !.pc = "waiting", !.count = @ + 1]

\* The next request, or the last error once the requests are used up.
Send(x) == IF x.count >= MaxHttp THEN [x EXCEPT !.pc = "done"]
           ELSE [x EXCEPT !.pc = "waiting", !.count = @ + 1]

Becomes(c, x) == call' = [call EXCEPT ![c] = x]

\* An old preference is forgotten, but still known to this call as `preferred`.
StartCall(c) ==
    LET known == MyPreference(c)
    IN  /\ Becomes(c, Send([NoCall EXCEPT
               !.order = IF known.fresh THEN PreferredFirst(known.variant)
                         ELSE RequestVariants,
               !.preferred = known.variant]))
        /\ preference' = IF known.fresh THEN preference
                         ELSE [preference EXCEPT ![ProcessOf[c]] = NoPreference]

Answered(c) ==
    /\ call[c].pc = "waiting"
    /\ Becomes(c, [call[c] EXCEPT !.pc = "done", !.outcome = "answered"])
    /\ preference' = [preference EXCEPT
                        ![ProcessOf[c]] = [variant |-> Using(c), fresh |-> TRUE]]

\* Errors that end the call.  Without an answer the provider may have done the work.
Refused(c, reply) ==
    /\ call[c].pc = "waiting"
    /\ \/ reply \in {"denied", "odd", "unknown"}
       \/ reply = "busy" /\ call[c].try = TriesPerVariant
    /\ Becomes(c, [call[c] EXCEPT !.pc = "done", !.outcome = reply])
    /\ UNCHANGED preference

\* The next variant.  Another call may have stored a preference meanwhile: it is lost.
Unsupported(c) ==
    LET x == call[c]
        next == [x EXCEPT !.at = @ + 1, !.try = 1, !.outcome = "unsupported"]
    IN  /\ x.pc = "waiting"
        /\ Becomes(c, IF x.at = Len(x.order) THEN [x EXCEPT !.pc = "done",
                                                           !.outcome = "unsupported"]
                      ELSE Send(next))
        /\ preference' = IF x.preferred = Using(c)
                         THEN [preference EXCEPT ![ProcessOf[c]] = NoPreference]
                         ELSE preference

Busy(c) ==
    /\ call[c].pc = "waiting" /\ call[c].try < TriesPerVariant
    /\ Becomes(c, [call[c] EXCEPT !.pc = "backoff", !.outcome = "busy"])
    /\ UNCHANGED preference

Retry(c) ==
    /\ call[c].pc = "backoff"
    /\ Becomes(c, Send([call[c] EXCEPT !.try = @ + 1]))
    /\ UNCHANGED preference

\* timeweb_deadline_seconds pass, while a request is out or before the next.
Deadline(c) ==
    /\ call[c].pc \in {"waiting", "backoff"}
    /\ Becomes(c, [call[c] EXCEPT !.pc = "done", !.outcome = "unknown"])
    /\ UNCHANGED preference

CallStep(c) ==
    \/ Answered(c)
    \/ \E reply \in Reply : Refused(c, reply)
    \/ Unsupported(c)
    \/ Busy(c)
    \/ Retry(c)
    \/ Deadline(c)

\* Ten minutes have passed since the answer.
PreferenceExpires(p) ==
    /\ preference[p].fresh
    /\ preference' = [preference EXCEPT ![p].fresh = FALSE]
    /\ UNCHANGED call

-----------------------------------------------------------------------------
\* A call under way has a variant to use and, where it waits to try again, a try left; a
\* preference that counts is one of the variants.
CallPlaceInv ==
    /\ \A p \in Process : preference[p].fresh => preference[p].variant \in Offered
    /\ \A c \in Caller : /\ call[c].pc \in {"waiting", "backoff"} =>
                               /\ call[c].order \in Seq(Offered)
                               /\ call[c].at \in DOMAIN call[c].order
                         /\ call[c].pc = "backoff" => call[c].try < TriesPerVariant
=============================================================================
