----------------------------- MODULE DialogueProofs -----------------------------
(***************************************************************************)
(* Proofs about Dialogue, for any number of questions, sessions, commands  *)
(* and turns: types; what the handler relies on; that an answer is made    *)
(* from its own topic, and from nothing that was forgotten; that the cache *)
(* is impersonal and that a closed session stays as it is.                 *)
(*                                                                         *)
(* A step writes to the last question or appends one, so what holds of the *)
(* questions before it is left alone (OldRow), and each action is left     *)
(* with the row that it writes.  The topic of a question is a recursive    *)
(* function of the questions before it.  Subject says without recursion    *)
(* what it is: the invariant makes Subject satisfy the equation of topic,  *)
(* and as every question refers to earlier ones only, nothing else does.   *)
(***************************************************************************)
EXTENDS Dialogue, WellFoundedInduction, TLAPS

-----------------------------------------------------------------------------
(* Numbers and sequences.                                                  *)

LEMMA SmallestExists ==
  ASSUME NEW T, T \subseteq Nat, T # {}
  PROVE  \E x \in T : \A y \in T : x <= y
<1>1. \E x \in T : \A y \in T : ~ (<<y, x>> \in OpToRel(<, Nat))
  BY NatLessThanWellFounded, WFMin
<1>2. PICK x \in T : \A y \in T : ~ (<<y, x>> \in OpToRel(<, Nat))
  BY <1>1
<1>3. ASSUME NEW y \in T PROVE x <= y
  <2>1. ~ (<<y, x>> \in OpToRel(<, Nat))
    BY <1>2
  <2>2. x \in Nat /\ y \in Nat
    OBVIOUS
  <2>3. ~(y < x)
    BY <2>1, <2>2 DEF OpToRel
  <2> QED
    BY <2>2, <2>3
<1> QED
  BY <1>3

LEMMA LargestExists ==
  ASSUME NEW n \in Nat, NEW S, S \subseteq 1 .. n, S # {}
  PROVE  \E x \in S : \A y \in S : y <= x
<1> DEFINE T == {n - x : x \in S}
<1>1. T \subseteq Nat /\ T # {}
  <2>1. \A x \in S : x \in 1 .. n /\ n - x \in Nat
    OBVIOUS
  <2> QED
    BY <2>1
<1>2. PICK t \in T : \A u \in T : t <= u
  BY <1>1, SmallestExists
<1>3. PICK x \in S : t = n - x
  BY <1>2
<1>4. ASSUME NEW y \in S PROVE y <= x
  <2>1. n - x <= n - y
    BY <1>2, <1>3
  <2> QED
    BY <2>1
<1> QED
  BY <1>4

LEMMA LatestFacts ==
  ASSUME NEW n \in Nat, NEW S, S \subseteq 1 .. n
  PROVE  /\ Latest(S) \in 0 .. n
         /\ S = {} => Latest(S) = 0
         /\ S # {} => Latest(S) \in S /\ Latest(S) > 0
         /\ \A x \in S : x <= Latest(S)
<1>1. CASE S = {}
  BY <1>1 DEF Latest
<1>2. CASE S # {}
  <2>1. \E x \in S : \A y \in S : x >= y
    <3>1. PICK x \in S : \A y \in S : y <= x
      BY <1>2, LargestExists
    <3>2. \A y \in S : x >= y
      BY <3>1
    <3> QED
      BY <3>2
  <2>2. Max(S) \in S /\ \A y \in S : Max(S) >= y
    BY <2>1 DEF Max
  <2>3. Latest(S) = Max(S)
    BY <1>2 DEF Latest
  <2>4. Max(S) \in 1 .. n /\ \A y \in S : y \in 1 .. n
    BY <2>2
  <2>5. \A y \in S : y <= Max(S)
    BY <2>2, <2>4
  <2> QED
    BY <1>2, <2>2, <2>3, <2>4, <2>5
<1> QED
  BY <1>1, <1>2

\* The largest of a set is determined by what it is.
LEMMA LatestIs ==
  ASSUME NEW n \in Nat, NEW S, S \subseteq 1 .. n, NEW x \in S, \A y \in S : y <= x
  PROVE  Latest(S) = x
<1>1. Latest(S) \in S /\ x <= Latest(S)
  BY LatestFacts
<1>2. \A y \in S : y \in Nat /\ y <= x
  OBVIOUS
<1>3. ASSUME NEW y \in S, x <= y PROVE y = x
  <2>1. y \in Nat /\ y <= x /\ x \in Nat
    BY <1>2, <1>3
  <2> QED
    BY <1>3, <2>1
<1> QED
  BY <1>1, <1>3

LEMMA MinOfTwo ==
  ASSUME NEW a \in Nat, NEW b \in Nat
  PROVE  Min({a, b}) \in Nat /\ Min({a, b}) <= b
<1>1. \E x \in {a, b} : \A y \in {a, b} : x =< y
  <2>1. CASE a <= b
    BY <2>1
  <2>2. CASE ~(a <= b)
    BY <2>2
  <2> QED
    BY <2>1, <2>2
<1>2. Min({a, b}) \in {a, b} /\ \A y \in {a, b} : Min({a, b}) =< y
  BY <1>1 DEF Min
<1> QED
  BY <1>2

LEMMA AppendFacts ==
  ASSUME NEW S, NEW s \in Seq(S), NEW x \in S
  PROVE  /\ Append(s, x) \in Seq(S)
         /\ Len(Append(s, x)) = Len(s) + 1
         /\ DOMAIN Append(s, x) = 1 .. Len(s) + 1
         /\ \A i \in 1 .. Len(s) : Append(s, x)[i] = s[i]
         /\ Append(s, x)[Len(s) + 1] = x
OBVIOUS

LEMMA ReplaceFacts ==
  ASSUME NEW S, NEW s \in Seq(S), NEW i \in 1 .. Len(s), NEW x \in S
  PROVE  /\ [s EXCEPT ![i] = x] \in Seq(S)
         /\ Len([s EXCEPT ![i] = x]) = Len(s)
         /\ \A k \in 1 .. Len(s) : [s EXCEPT ![i] = x][k] = IF k = i THEN x ELSE s[k]
OBVIOUS


-----------------------------------------------------------------------------
(* Records: what the handler keeps, and the rows of questions.             *)

LEMMA IdleType == Idle \in Task /\ Idle.pc = "idle"
BY BoundsAssumption DEF Idle, Task

LEMMA TaskField ==
  ASSUME NEW t \in Task
  PROVE  /\ \A x \in {"idle", "accept", "relate", "admit", "answer"} : [t EXCEPT !.pc = x] \in Task
         /\ \A x \in BOOLEAN : [t EXCEPT !.private = x] \in Task
         /\ \A x \in 0 .. MaxSessions : [t EXCEPT !.session = x] \in Task
         /\ \A x \in {"none", "standalone", "ambiguous", "related"} :
               [t EXCEPT !.relation = x] \in Task
         /\ \A x \in BOOLEAN : [t EXCEPT !.include = x] \in Task
         /\ \A x \in 0 .. MaxQuestions : [t EXCEPT !.previous = x] \in Task
         /\ \A x \in SUBSET (1 .. MaxQuestions) : [t EXCEPT !.summary = x] \in Task
         /\ \A x \in BOOLEAN : [t EXCEPT !.facts = x] \in Task
         /\ \A x \in 0 .. MaxCommands : [t EXCEPT !.began = x] \in Task
<1>1. \A x \in {"idle", "accept", "relate", "admit", "answer"} : [t EXCEPT !.pc = x] \in Task
  BY DEF Task
<1>2. \A x \in BOOLEAN : [t EXCEPT !.private = x] \in Task
  BY DEF Task
<1>3. \A x \in 0 .. MaxSessions : [t EXCEPT !.session = x] \in Task
  BY DEF Task
<1>4. \A x \in {"none", "standalone", "ambiguous", "related"} :
               [t EXCEPT !.relation = x] \in Task
  BY DEF Task
<1>5. \A x \in BOOLEAN : [t EXCEPT !.include = x] \in Task
  BY DEF Task
<1>6. \A x \in 0 .. MaxQuestions : [t EXCEPT !.previous = x] \in Task
  BY DEF Task
<1>7. \A x \in SUBSET (1 .. MaxQuestions) : [t EXCEPT !.summary = x] \in Task
  BY DEF Task
<1>8. \A x \in BOOLEAN : [t EXCEPT !.facts = x] \in Task
  BY DEF Task
<1>9. \A x \in 0 .. MaxCommands : [t EXCEPT !.began = x] \in Task
  BY DEF Task
<1> QED
  BY <1>1, <1>2, <1>3, <1>4, <1>5, <1>6, <1>7, <1>8, <1>9

\* What each step makes of them.
LEMMA AskTask ==
  ASSUME NEW p \in BOOLEAN, NEW s \in 0 .. MaxSessions, NEW f \in BOOLEAN,
         NEW k \in 0 .. MaxCommands,
         NEW u, u = [Idle EXCEPT !.pc = "accept", !.private = p, !.session = s,
                 !.facts = f, !.began = k]
  PROVE  u \in Task
<1>1. PICK u1 \in Task : u1 = [Idle EXCEPT !.pc = "accept"]
  BY TaskField, IdleType
<1>2. PICK u2 \in Task : u2 = [u1 EXCEPT !.private = p]
  BY TaskField
<1>3. PICK u3 \in Task : u3 = [u2 EXCEPT !.session = s]
  BY TaskField
<1>4. PICK u4 \in Task : u4 = [u3 EXCEPT !.facts = f]
  BY TaskField
<1>5. PICK u5 \in Task : u5 = [u4 EXCEPT !.began = k]
  BY TaskField
<1>6. u = u5
  BY <1>1, <1>2, <1>3, <1>4, <1>5
<1> QED
  BY <1>6

LEMMA ExpandTask ==
  ASSUME NEW s \in 0 .. MaxSessions, NEW m \in SUBSET (1 .. MaxQuestions),
         NEW f \in BOOLEAN, NEW k \in 0 .. MaxCommands,
         NEW u, u = [Idle EXCEPT !.pc = "answer", !.private = TRUE, !.session = s,
                 !.summary = m, !.facts = f, !.began = k]
  PROVE  u \in Task
<1>1. PICK u1 \in Task : u1 = [Idle EXCEPT !.pc = "answer"]
  BY TaskField, IdleType
<1>2. PICK u2 \in Task : u2 = [u1 EXCEPT !.private = TRUE]
  BY TaskField
<1>3. PICK u3 \in Task : u3 = [u2 EXCEPT !.session = s]
  BY TaskField
<1>4. PICK u4 \in Task : u4 = [u3 EXCEPT !.summary = m]
  BY TaskField
<1>5. PICK u5 \in Task : u5 = [u4 EXCEPT !.facts = f]
  BY TaskField
<1>6. PICK u6 \in Task : u6 = [u5 EXCEPT !.began = k]
  BY TaskField
<1>7. u = u6
  BY <1>1, <1>2, <1>3, <1>4, <1>5, <1>6
<1> QED
  BY <1>7

LEMMA HomeTask ==
  ASSUME NEW t \in Task, NEW s \in 0 .. MaxSessions,
         NEW u, u = [t EXCEPT !.pc = "relate", !.session = s]
  PROVE  u \in Task
<1>1. PICK u1 \in Task : u1 = [t EXCEPT !.pc = "relate"]
  BY TaskField
<1>2. PICK u2 \in Task : u2 = [u1 EXCEPT !.session = s]
  BY TaskField
<1>3. u = u2
  BY <1>1, <1>2
<1> QED
  BY <1>3

LEMMA RelateTask ==
  ASSUME NEW t \in Task, NEW s \in 0 .. MaxSessions,
         NEW x \in {"none", "standalone", "ambiguous", "related"},
         NEW i \in BOOLEAN, NEW j \in 0 .. MaxQuestions,
         NEW u, u = [t EXCEPT !.pc = "admit", !.session = s, !.relation = x,
                 !.include = i, !.previous = j]
  PROVE  u \in Task
<1>1. PICK u1 \in Task : u1 = [t EXCEPT !.pc = "admit"]
  BY TaskField
<1>2. PICK u2 \in Task : u2 = [u1 EXCEPT !.session = s]
  BY TaskField
<1>3. PICK u3 \in Task : u3 = [u2 EXCEPT !.relation = x]
  BY TaskField
<1>4. PICK u4 \in Task : u4 = [u3 EXCEPT !.include = i]
  BY TaskField
<1>5. PICK u5 \in Task : u5 = [u4 EXCEPT !.previous = j]
  BY TaskField
<1>6. u = u5
  BY <1>1, <1>2, <1>3, <1>4, <1>5
<1> QED
  BY <1>6

LEMMA AdmitTask ==
  ASSUME NEW t \in Task, NEW m \in SUBSET (1 .. MaxQuestions),
         NEW u, u = [t EXCEPT !.pc = "answer", !.summary = m]
  PROVE  u \in Task
<1>1. PICK u1 \in Task : u1 = [t EXCEPT !.pc = "answer"]
  BY TaskField
<1>2. PICK u2 \in Task : u2 = [u1 EXCEPT !.summary = m]
  BY TaskField
<1>3. u = u2
  BY <1>1, <1>2
<1> QED
  BY <1>3

LEMMA RowField ==
  ASSUME NEW r \in QuestionRow
  PROVE  /\ \A x \in {"pending", "processing", "answered", "truncated", "rejected", "failed"} :
               [r EXCEPT !.status = x] \in QuestionRow
         /\ \A x \in 1 .. MaxSessions : [r EXCEPT !.session = x] \in QuestionRow
         /\ \A x \in {"none", "standalone", "ambiguous", "related", "expansion"} :
               [r EXCEPT !.relation = x] \in QuestionRow
         /\ \A x \in SUBSET (1 .. MaxQuestions) : [r EXCEPT !.context = x] \in QuestionRow
         /\ \A x \in SUBSET (1 .. MaxQuestions) : [r EXCEPT !.summary = x] \in QuestionRow
         /\ \A x \in 0 .. MaxQuestions : [r EXCEPT !.root = x] \in QuestionRow
         /\ \A x \in 0 .. MaxQuestions : [r EXCEPT !.judged = x] \in QuestionRow
         /\ \A x \in 0 .. MaxQuestions : [r EXCEPT !.source = x] \in QuestionRow
         /\ \A x \in BOOLEAN : [r EXCEPT !.personal = x] \in QuestionRow
<1>1. \A x \in {"pending", "processing", "answered", "truncated", "rejected", "failed"} :
         [r EXCEPT !.status = x] \in QuestionRow
  BY DEF QuestionRow
<1>2. \A x \in 1 .. MaxSessions : [r EXCEPT !.session = x] \in QuestionRow
  BY DEF QuestionRow
<1>3. \A x \in {"none", "standalone", "ambiguous", "related", "expansion"} :
         [r EXCEPT !.relation = x] \in QuestionRow
  BY DEF QuestionRow
<1>4. \A x \in SUBSET (1 .. MaxQuestions) : [r EXCEPT !.context = x] \in QuestionRow
  BY DEF QuestionRow
<1>5. \A x \in SUBSET (1 .. MaxQuestions) : [r EXCEPT !.summary = x] \in QuestionRow
  BY DEF QuestionRow
<1>6. \A x \in 0 .. MaxQuestions : [r EXCEPT !.root = x] \in QuestionRow
  BY DEF QuestionRow
<1>7. \A x \in 0 .. MaxQuestions : [r EXCEPT !.judged = x] \in QuestionRow
  BY DEF QuestionRow
<1>8. \A x \in 0 .. MaxQuestions : [r EXCEPT !.source = x] \in QuestionRow
  BY DEF QuestionRow
<1>9. \A x \in BOOLEAN : [r EXCEPT !.personal = x] \in QuestionRow
  BY DEF QuestionRow
<1> QED
  BY <1>1, <1>2, <1>3, <1>4, <1>5, <1>6, <1>7, <1>8, <1>9

LEMMA AdmitRow ==
  ASSUME NEW r \in QuestionRow,
         NEW x \in {"none", "standalone", "ambiguous", "related", "expansion"},
         NEW j \in 0 .. MaxQuestions, NEW c \in SUBSET (1 .. MaxQuestions),
         NEW p \in BOOLEAN, NEW o \in 0 .. MaxQuestions,
         NEW u, u = [r EXCEPT !.status = "processing", !.relation = x,
                 !.judged = j, !.context = c, !.personal = p, !.root = o]
  PROVE  u \in QuestionRow
<1>1. PICK u1 \in QuestionRow : u1 = [r EXCEPT !.status = "processing"]
  BY RowField
<1>2. PICK u2 \in QuestionRow : u2 = [u1 EXCEPT !.relation = x]
  BY RowField
<1>3. PICK u3 \in QuestionRow : u3 = [u2 EXCEPT !.judged = j]
  BY RowField
<1>4. PICK u4 \in QuestionRow : u4 = [u3 EXCEPT !.context = c]
  BY RowField
<1>5. PICK u5 \in QuestionRow : u5 = [u4 EXCEPT !.personal = p]
  BY RowField
<1>6. PICK u6 \in QuestionRow : u6 = [u5 EXCEPT !.root = o]
  BY RowField
<1>7. u = u6
  BY <1>1, <1>2, <1>3, <1>4, <1>5, <1>6
<1> QED
  BY <1>7

LEMMA ServeRow ==
  ASSUME NEW r \in QuestionRow,
         NEW x \in {"none", "standalone", "ambiguous", "related", "expansion"},
         NEW o \in 0 .. MaxQuestions, NEW j \in 0 .. MaxQuestions,
         NEW m \in SUBSET (1 .. MaxQuestions),
         NEW u, u = [r EXCEPT !.status = "answered", !.relation = x, !.root = o,
                 !.judged = j, !.summary = m]
  PROVE  u \in QuestionRow
<1>1. PICK u1 \in QuestionRow : u1 = [r EXCEPT !.status = "answered"]
  BY RowField
<1>2. PICK u2 \in QuestionRow : u2 = [u1 EXCEPT !.relation = x]
  BY RowField
<1>3. PICK u3 \in QuestionRow : u3 = [u2 EXCEPT !.root = o]
  BY RowField
<1>4. PICK u4 \in QuestionRow : u4 = [u3 EXCEPT !.judged = j]
  BY RowField
<1>5. PICK u5 \in QuestionRow : u5 = [u4 EXCEPT !.summary = m]
  BY RowField
<1>6. u = u5
  BY <1>1, <1>2, <1>3, <1>4, <1>5
<1> QED
  BY <1>6

LEMMA AnswerRow ==
  ASSUME NEW r \in QuestionRow,
         NEW v \in {"pending", "processing", "answered", "truncated", "rejected", "failed"},
         NEW m \in SUBSET (1 .. MaxQuestions),
         NEW u, u = [r EXCEPT !.status = v, !.summary = m]
  PROVE  u \in QuestionRow
<1>1. PICK u1 \in QuestionRow : u1 = [r EXCEPT !.status = v]
  BY RowField
<1>2. PICK u2 \in QuestionRow : u2 = [u1 EXCEPT !.summary = m]
  BY RowField
<1>3. u = u2
  BY <1>1, <1>2
<1> QED
  BY <1>3

LEMMA StatusRow ==
  ASSUME NEW r \in QuestionRow,
         NEW v \in {"pending", "processing", "answered", "truncated", "rejected", "failed"},
         NEW u, u = [r EXCEPT !.status = v]
  PROVE  u \in QuestionRow
<1>1. PICK u1 \in QuestionRow : u1 = [r EXCEPT !.status = v]
  BY RowField
<1>2. u = u1
  BY <1>1
<1> QED
  BY <1>2

LEMMA HomeRow ==
  ASSUME NEW r \in QuestionRow, NEW s \in 1 .. MaxSessions,
         NEW u, u = [r EXCEPT !.session = s]
  PROVE  u \in QuestionRow
<1>1. PICK u1 \in QuestionRow : u1 = [r EXCEPT !.session = s]
  BY RowField
<1>2. u = u1
  BY <1>1
<1> QED
  BY <1>2

LEMMA ExpandRow ==
  ASSUME NEW r \in QuestionRow, NEW q \in 0 .. MaxQuestions,
         NEW o \in 0 .. MaxQuestions, NEW c \in SUBSET (1 .. MaxQuestions),
         NEW p \in BOOLEAN,
         NEW u, u = [r EXCEPT !.status = "processing", !.relation = "expansion",
                 !.source = q, !.root = o, !.context = c, !.personal = p]
  PROVE  u \in QuestionRow
<1>1. PICK u1 \in QuestionRow : u1 = [r EXCEPT !.status = "processing"]
  BY RowField
<1>2. PICK u2 \in QuestionRow : u2 = [u1 EXCEPT !.relation = "expansion"]
  BY RowField
<1>3. PICK u3 \in QuestionRow : u3 = [u2 EXCEPT !.source = q]
  BY RowField
<1>4. PICK u4 \in QuestionRow : u4 = [u3 EXCEPT !.root = o]
  BY RowField
<1>5. PICK u5 \in QuestionRow : u5 = [u4 EXCEPT !.context = c]
  BY RowField
<1>6. PICK u6 \in QuestionRow : u6 = [u5 EXCEPT !.personal = p]
  BY RowField
<1>7. u = u6
  BY <1>1, <1>2, <1>3, <1>4, <1>5, <1>6
<1> QED
  BY <1>7

-----------------------------------------------------------------------------
(* Rows and sessions.                                                      *)

Busy == task.pc \in {"relate", "admit", "answer"}

\* What the handler knows of its question and its session.
PlaceInv ==
    /\ task.pc # "idle" => task.session \in 0 .. Len(session) /\ task.began <= closings
    /\ task.pc # "idle" /\ task.session # 0 => task.private = session[task.session].is_private
    /\ task.pc = "accept" =>
          Last < MaxQuestions /\ (task.session = 0 => Len(session) < MaxSessions)
    /\ Busy => /\ Last > 0 /\ task.session > 0
               /\ question[Last].session = task.session /\ question[Last].began = task.began
    /\ task.pc \in {"relate", "admit"} =>
          /\ question[Last].status = "pending" /\ question[Last].relation = "none"
          /\ question[Last].context = {} /\ question[Last].summary = {}
          /\ ~question[Last].personal
    /\ task.pc = "admit" /\ task.include => task.relation = "related"
    /\ task.pc = "admit" /\ task.relation = "related" =>
          task.previous # 0 /\ task.previous = Previous(task.session)
    /\ task.pc = "answer" => question[Last].status = "processing"

RowsPlace ==
    \A q \in Asked : /\ question[q].session \in DOMAIN session
                     /\ question[q].created <= closings
                     /\ question[q].status = "processing" => q = Last /\ task.pc = "answer"

LEMMA Sizes ==
  ASSUME TypeOK
  PROVE  /\ Last \in Nat /\ Asked = 1 .. Last /\ Last <= MaxQuestions /\ MaxQuestions \in Nat
         /\ Len(session) \in Nat /\ DOMAIN session = 1 .. Len(session)
         /\ Len(session) <= MaxSessions /\ MaxSessions \in Nat
         /\ commands \in Nat /\ closings \in Nat /\ closings <= commands
         /\ commands <= MaxCommands /\ MaxCommands \in Nat
         /\ \A q \in Asked : question[q] \in QuestionRow
         /\ \A s \in DOMAIN session : session[s] \in SessionRow
         /\ Asked \subseteq 1 .. MaxQuestions
BY BoundsAssumption DEF TypeOK, Asked, Last

\* The rows after a step that writes to the last one, or adds one.
Written(r) ==
    /\ question' \in Seq(QuestionRow) /\ Last' = Last /\ Asked' = Asked
    /\ Len(question') = Len(question)
    /\ question'[Last] = r /\ \A q \in 1 .. Last - 1 : question'[q] = question[q]

Added(r) ==
    /\ question' \in Seq(QuestionRow) /\ Last' = Last + 1 /\ Asked' = 1 .. Last + 1
    /\ Len(question') = Len(question) + 1
    /\ question'[Last + 1] = r /\ \A q \in 1 .. Last : question'[q] = question[q]

LEMMA Write ==
  ASSUME TypeOK, Last > 0, NEW r \in QuestionRow, question' = [question EXCEPT ![Last] = r]
  PROVE  Written(r)
<1>1. question \in Seq(QuestionRow) /\ Last \in 1 .. Len(question)
  BY Sizes DEF TypeOK, Last
<1>2. /\ question' \in Seq(QuestionRow) /\ Len(question') = Len(question)
      /\ \A k \in 1 .. Len(question) : question'[k] = IF k = Last THEN r ELSE question[k]
  BY <1>1, ReplaceFacts
<1>3. Last' = Last /\ Asked' = Asked
  BY <1>1, <1>2 DEF Last, Asked
<1>4. question'[Last] = r
  BY <1>1, <1>2
<1>5. ASSUME NEW q \in 1 .. Last - 1 PROVE question'[q] = question[q]
  <2>1. q \in 1 .. Len(question) /\ q # Last
    BY <1>1, <1>5 DEF Last
  <2> QED
    BY <1>2, <2>1
<1> QED
  BY <1>2, <1>3, <1>4, <1>5 DEF Written

LEMMA Add ==
  ASSUME TypeOK, NEW r \in QuestionRow, question' = Append(question, r)
  PROVE  Added(r)
<1>1. question \in Seq(QuestionRow)
  BY DEF TypeOK
<1>2. /\ question' \in Seq(QuestionRow) /\ Len(question') = Len(question) + 1
      /\ DOMAIN question' = 1 .. Len(question) + 1
      /\ \A i \in 1 .. Len(question) : question'[i] = question[i]
      /\ question'[Len(question) + 1] = r
  BY <1>1, AppendFacts
<1> QED
  BY <1>2 DEF Added, Last, Asked

\* Sessions stay, in their kind; a closed one stays as it is.
SessionsStay ==
    /\ session' \in Seq(SessionRow)
    /\ Len(session') \in {Len(session), Len(session) + 1}
    /\ \A s \in DOMAIN session :
          /\ session'[s].is_private = session[s].is_private
          /\ session[s].closed => session'[s].closed /\ session'[s].summary = session[s].summary

LEMMA SessionsKept ==
  ASSUME TypeOK, session' = session
  PROVE  SessionsStay
BY Sizes DEF TypeOK, SessionsStay

LEMMA NewSessionType == \A private \in BOOLEAN : NewSession(private) \in SessionRow
BY SettingsAssumption DEF NewSession, SessionRow

LEMMA SessionAdded ==
  ASSUME TypeOK, NEW private \in BOOLEAN, session' = Append(session, NewSession(private))
  PROVE  /\ SessionsStay /\ Len(session') = Len(session) + 1
         /\ session'[Len(session) + 1] = NewSession(private)
         /\ \A s \in DOMAIN session : session'[s] = session[s]
<1>1. session \in Seq(SessionRow) /\ NewSession(private) \in SessionRow
  BY NewSessionType DEF TypeOK
<1>2. /\ session' \in Seq(SessionRow) /\ Len(session') = Len(session) + 1
      /\ \A s \in 1 .. Len(session) : session'[s] = session[s]
      /\ session'[Len(session) + 1] = NewSession(private)
  BY <1>1, AppendFacts
<1> QED
  BY <1>2, Sizes DEF SessionsStay

LEMMA SessionWritten ==
  ASSUME TypeOK, NEW s \in DOMAIN session, NEW x \in SessionRow,
         session' = [session EXCEPT ![s] = x], x.is_private = session[s].is_private,
         x.closed = session[s].closed, x.closed => x.summary = session[s].summary
  PROVE  /\ SessionsStay /\ Len(session') = Len(session)
         /\ \A t \in DOMAIN session : /\ session'[t].closed = session[t].closed
                                      /\ session'[t].is_private = session[t].is_private
<1>1. session \in Seq(SessionRow) /\ s \in 1 .. Len(session)
  BY Sizes DEF TypeOK
<1>2. /\ session' \in Seq(SessionRow) /\ Len(session') = Len(session)
      /\ \A k \in 1 .. Len(session) : session'[k] = IF k = s THEN x ELSE session[k]
  BY <1>1, ReplaceFacts
<1> QED
  BY <1>2, Sizes DEF SessionsStay

LEMMA SpoiledType ==
  ASSUME NEW x \in SessionRow, NEW delta \in Nat
  PROVE  /\ Spoiled(x, delta) \in SessionRow
         /\ Spoiled(x, delta).is_private = x.is_private
         /\ Spoiled(x, delta).closed = x.closed
         /\ Spoiled(x, delta).summary = x.summary
<1>1. x.junk + delta \in Nat /\ BlockAt \in Nat
  BY SettingsAssumption DEF SessionRow
<1>2. Min({x.junk + delta, BlockAt}) \in 0 .. BlockAt
  BY <1>1, MinOfTwo
<1> QED
  BY <1>2 DEF Spoiled, SessionRow

\* What the repository returns.
LEMMA InFacts ==
  ASSUME TypeOK, NEW s
  PROVE  In(s) \subseteq 1 .. Last /\ Last \in Nat
BY Sizes DEF In

LEMMA BoundaryType ==
  ASSUME TypeOK, NEW s
  PROVE  Boundary(s) \in 0 .. Last
<1> DEFINE S == {q \in In(s) : question[q].relation \in {"standalone", "ambiguous"}}
<1>1. S \subseteq 1 .. Last /\ Last \in Nat
  BY InFacts
<1> HIDE DEF S
<1>2. Latest(S) \in 0 .. Last
  BY <1>1, LatestFacts
<1> QED
  BY <1>2 DEF Boundary, S

LEMMA PreviousFacts ==
  ASSUME TypeOK, NEW s
  PROVE  /\ Previous(s) \in 0 .. Last
         /\ Previous(s) # 0 => /\ Previous(s) \in AnsweredIn(s)
                               /\ question[Previous(s)].relation # "expansion"
<1> DEFINE S == {q \in AnsweredIn(s) : question[q].relation # "expansion"}
<1>1. S \subseteq 1 .. Last /\ Last \in Nat
  BY InFacts DEF AnsweredIn, Scope
<1>2. S \subseteq AnsweredIn(s) /\ \A q \in S : question[q].relation # "expansion"
  OBVIOUS
<1> HIDE DEF S
<1>3. Latest(S) \in 0 .. Last /\ (Latest(S) # 0 => Latest(S) \in S)
  BY <1>1, LatestFacts
<1> QED
  BY <1>2, <1>3 DEF Previous, S

\* What a follow-up is answered from was answered in its session, or is the summary
\* that the exchange before it left.
LEMMA HistoryFacts ==
  ASSUME TypeOK, task.session # 0
  PROVE  /\ History \subseteq AnsweredIn(task.session)
         /\ History \subseteq 1 .. Last
         /\ ~Contextual => History = {} /\ Summary = {}
         /\ Contextual /\ ~task.private => History = {Previous(task.session)} \ {0}
<1>1. \A n : Recent(task.session, n) \subseteq AnsweredIn(task.session)
  BY DEF Recent
<1>2. {Previous(task.session)} \ {0} \subseteq AnsweredIn(task.session)
  BY PreviousFacts
<1>3. AnsweredIn(task.session) \subseteq 1 .. Last
  BY InFacts DEF AnsweredIn, Scope
<1>4. CASE ~Contextual
  <2>1. History = {} /\ Summary = {}
    BY <1>4 DEF History, Summary
  <2> QED
    BY <1>4, <2>1
<1>5. CASE Contextual /\ task.private
  <2> DEFINE n == IF Summary = {} THEN Turns ELSE Min({Turns, 3})
  <2>1. History = Recent(task.session, n)
    BY <1>5 DEF History
  <2> HIDE DEF n
  <2> QED
    BY <1>1, <1>3, <1>5, <2>1
<1>6. CASE Contextual /\ ~task.private
  <2>1. History = {Previous(task.session)} \ {0}
    BY <1>6 DEF History
  <2> QED
    BY <1>2, <1>3, <1>6, <2>1
<1> QED
  BY <1>4, <1>5, <1>6

-----------------------------------------------------------------------------
(* Types, and where the handler is.                                        *)

Placed == TypeOK /\ PlaceInv /\ RowsPlace

\* The clocks of a step.
Ticks ==
    /\ commands' \in 0 .. MaxCommands /\ closings' \in 0 .. commands' /\ closings <= closings'
    /\ facts' \in BOOLEAN

LEMMA SameTicks ==
  ASSUME TypeOK, UNCHANGED <<facts, closings, commands>>
  PROVE  Ticks
BY Sizes DEF TypeOK, Ticks

LEMMA PreviousSame ==
  ASSUME question' = question
  PROVE  \A s : Previous(s)' = Previous(s)
BY DEF Previous, AnsweredIn, Scope, Boundary, In, Asked

LEMMA SessionsType ==
  ASSUME TypeOK, SessionsStay, Len(session') <= MaxSessions
  PROVE  /\ session' \in Seq(SessionRow) /\ Len(session') <= MaxSessions
         /\ DOMAIN session' = 1 .. Len(session') /\ DOMAIN session \subseteq DOMAIN session'
         /\ Len(session') \in Nat /\ Len(session) <= Len(session')
BY Sizes DEF SessionsStay

\* Commands, and what the gate refuses.
LEMMA CommandPlace ==
  ASSUME Placed, UNCHANGED <<question, cache, task>>, Ticks,
         SessionsStay, Len(session') <= MaxSessions, Len(session') = Len(session)
  PROVE  Placed'
<1>1. TypeOK /\ PlaceInv /\ RowsPlace
  BY DEF Placed
<1>2. TypeOK'
  BY <1>1, SessionsType DEF TypeOK, Ticks, Asked
<1>3. RowsPlace'
  <2>1. Asked' = Asked /\ Last' = Last
    BY DEF Asked, Last
  <2>2. ASSUME NEW q \in Asked
        PROVE  question[q].session \in DOMAIN session' /\ question[q].created <= closings'
    <3>1. question[q].created \in Nat /\ closings \in Nat /\ closings' \in Nat
      BY <1>1, <1>2, <2>2, Sizes DEF QuestionRow, TypeOK
    <3>2. question[q].session \in DOMAIN session /\ question[q].created <= closings
      BY <1>1, <2>2 DEF RowsPlace
    <3> QED
      BY <1>1, <3>1, <3>2, SessionsType DEF Ticks
  <2> QED
    BY <1>1, <2>1, <2>2 DEF RowsPlace
<1>4. PlaceInv'
  <2>1. \A s : Previous(s)' = Previous(s)
    BY PreviousSame
  <2>2. Previous(task.session)' = Previous(task.session)
    BY <2>1
  <2>3. task.began \in Nat /\ task.session \in Nat /\ closings \in Nat /\ closings' \in Nat
    BY <1>1, <1>2 DEF TypeOK, Task
  <2>4. task.pc # "idle" => task.session \in 0 .. Len(session) /\ task.began <= closings
    BY <1>1 DEF PlaceInv
  <2>5. task'.pc # "idle" =>
          task'.session \in 0 .. Len(session') /\ task'.began <= closings'
    BY <2>3, <2>4 DEF Ticks
  <2>6. task'.pc # "idle" /\ task'.session # 0 =>
          task'.private = session'[task'.session].is_private
    BY <1>1, <2>4, Sizes DEF PlaceInv, SessionsStay
  <2> QED
    BY <1>1, <2>2, <2>5, <2>6 DEF PlaceInv, Busy, Last
<1> QED
  BY <1>2, <1>3, <1>4 DEF Placed

\* The rows after a write, and after another one was added.
LEMMA WrittenPlace ==
  ASSUME Placed, Ticks, SessionsStay, Len(session') <= MaxSessions, Last > 0,
         NEW r \in QuestionRow, Written(r), task' \in Task, cache' \subseteq Asked,
         r.session \in DOMAIN session', r.created <= closings',
         r.status = "processing" => task'.pc = "answer"
  PROVE  TypeOK' /\ RowsPlace'
<1>1. TypeOK /\ PlaceInv /\ RowsPlace
  BY DEF Placed
<1>2. TypeOK'
  BY <1>1, SessionsType, Sizes DEF TypeOK, Ticks, Written, Last
<1>3. ASSUME NEW q \in Asked'
      PROVE  /\ question'[q].session \in DOMAIN session'
             /\ question'[q].created <= closings'
             /\ question'[q].status = "processing" => q = Last' /\ task'.pc = "answer"
  <2>1. q \in 1 .. Last /\ Last' = Last /\ Last \in Nat
    BY <1>1, <1>3, Sizes DEF Written
  <2>2. CASE q = Last
    BY <2>1, <2>2 DEF Written
  <2>3. CASE q # Last
    <3>1. q \in 1 .. Last - 1 /\ q \in Asked /\ question'[q] = question[q]
      BY <1>1, <2>1, <2>3, Sizes DEF Written
    <3>2. question[q].created \in Nat /\ closings \in Nat /\ closings' \in Nat
      BY <1>1, <1>2, <3>1, Sizes DEF QuestionRow, TypeOK
    <3>3. /\ question[q].session \in DOMAIN session /\ question[q].created <= closings
          /\ question[q].status = "processing" => q = Last
      BY <1>1, <3>1 DEF RowsPlace
    <3> QED
      BY <1>1, <2>3, <3>1, <3>2, <3>3, SessionsType DEF Ticks
  <2> QED
    BY <2>2, <2>3
<1> QED
  BY <1>2, <1>3 DEF RowsPlace

LEMMA AddedPlace ==
  ASSUME Placed, Ticks, SessionsStay, Len(session') <= MaxSessions, Last < MaxQuestions,
         NEW r \in QuestionRow, Added(r), task' \in Task, cache' \subseteq Asked,
         r.session \in DOMAIN session', r.created <= closings',
         r.status = "processing" => task'.pc = "answer", task.pc # "answer"
  PROVE  TypeOK' /\ RowsPlace'
<1>1. TypeOK /\ PlaceInv /\ RowsPlace
  BY DEF Placed
<1>2. TypeOK'
  BY <1>1, SessionsType, Sizes DEF TypeOK, Ticks, Added, Last
<1>3. ASSUME NEW q \in Asked'
      PROVE  /\ question'[q].session \in DOMAIN session'
             /\ question'[q].created <= closings'
             /\ question'[q].status = "processing" => q = Last' /\ task'.pc = "answer"
  <2>1. q \in 1 .. Last + 1 /\ Last' = Last + 1 /\ Last \in Nat
    BY <1>1, <1>3, Sizes DEF Added
  <2>2. CASE q = Last + 1
    BY <2>1, <2>2 DEF Added
  <2>3. CASE q # Last + 1
    <3>1. q \in 1 .. Last /\ q \in Asked /\ question'[q] = question[q]
      BY <1>1, <2>1, <2>3, Sizes DEF Added
    <3>2. question[q].created \in Nat /\ closings \in Nat /\ closings' \in Nat
      BY <1>1, <1>2, <3>1, Sizes DEF QuestionRow, TypeOK
    <3>3. /\ question[q].session \in DOMAIN session /\ question[q].created <= closings
          /\ question[q].status # "processing"
      BY <1>1, <3>1 DEF RowsPlace
    <3> QED
      BY <1>1, <3>1, <3>2, <3>3, SessionsType DEF Ticks
  <2> QED
    BY <2>2, <2>3
<1> QED
  BY <1>2, <1>3 DEF RowsPlace

\* Each action.
LEMMA AskPlace ==
  ASSUME Placed, NEW private \in BOOLEAN, NEW s \in 0 .. MaxSessions, Ask(private, s)
  PROVE  Placed'
<1>1. TypeOK /\ PlaceInv /\ RowsPlace
  BY DEF Placed
<1>2. /\ task.pc = "idle" /\ Last < MaxQuestions /\ (s = 0 => Len(session) < MaxSessions)
      /\ task' = [Idle EXCEPT !.pc = "accept", !.private = private, !.session = s,
                              !.facts = facts, !.began = closings]
      /\ UNCHANGED <<session, question, facts, cache, closings, commands>>
  BY DEF Ask
<1>3. s # 0 => s \in DOMAIN session /\ session[s].is_private = private
  BY <1>1, Sizes DEF Ask, ActivePrivate, Open, Replied, SessionRow
<1>4. /\ task'.pc = "accept" /\ task'.private = private /\ task'.session = s
      /\ task'.began = closings /\ task' \in Task
  <2>1. closings \in 0 .. MaxCommands /\ facts \in BOOLEAN
    BY <1>1, Sizes DEF TypeOK
  <2>2. task' \in Task
    BY <1>2, <2>1, AskTask, Zenon
  <2> QED
    BY <1>2, <2>2 DEF Idle
<1>5. TypeOK'
  BY <1>1, <1>2, <1>4 DEF TypeOK, Asked
<1>6. RowsPlace'
  BY <1>1, <1>2, <1>4 DEF RowsPlace, Asked, Last
<1>7. PlaceInv'
  BY <1>1, <1>2, <1>3, <1>4, Sizes DEF PlaceInv, Busy, Last
<1> QED
  BY <1>5, <1>6, <1>7 DEF Placed

LEMMA RefusePlace ==
  ASSUME Placed, NEW s \in DOMAIN session, Refuse(s)
  PROVE  Placed'
<1>1. TypeOK
  BY DEF Placed
<1>2. PICK delta \in {1, 2} : session' = [session EXCEPT ![s] = Spoiled(@, delta)]
  BY DEF Refuse
<1>3. /\ Spoiled(session[s], delta) \in SessionRow
      /\ Spoiled(session[s], delta).is_private = session[s].is_private
      /\ Spoiled(session[s], delta).closed = session[s].closed
      /\ Spoiled(session[s], delta).summary = session[s].summary
  <2>1. session[s] \in SessionRow /\ delta \in Nat
    BY <1>1, Sizes
  <2> QED
    BY <2>1, SpoiledType
<1>4. SessionsStay /\ Len(session') = Len(session)
  BY <1>1, <1>2, <1>3, SessionWritten
<1>5. Ticks
  BY <1>1, Sizes DEF Refuse, Counted, Ticks, TypeOK
<1> QED
  BY <1>1, <1>4, <1>5, CommandPlace, Sizes DEF Refuse

LEMMA RememberPlace ==
  ASSUME Placed, Remember
  PROVE  Placed'
<1>1. TypeOK
  BY DEF Placed
<1>2. Ticks
  BY <1>1, Sizes DEF Remember, Counted, Ticks, TypeOK
<1>3. SessionsStay /\ Len(session') = Len(session)
  BY <1>1, SessionsKept DEF Remember
<1> QED
  BY <1>1, <1>2, <1>3, CommandPlace, Sizes DEF Remember

LEMMA ClosedFacts ==
  ASSUME TypeOK, session' = Closed
  PROVE  /\ SessionsStay /\ Len(session') = Len(session)
         /\ \A s \in DOMAIN session : session[s].is_private => session'[s].closed
<1>1. session \in Seq(SessionRow) /\ DOMAIN session = 1 .. Len(session) /\ Len(session) \in Nat
  BY Sizes DEF TypeOK
<1>2. ASSUME NEW s \in DOMAIN session
      PROVE  /\ Closed[s] \in SessionRow /\ Closed[s].is_private = session[s].is_private
             /\ session[s].closed => Closed[s] = session[s]
             /\ session[s].is_private => Closed[s].closed
  <2>1. session[s] \in SessionRow
    BY <1>1
  <2> QED
    BY <2>1 DEF Closed, SessionRow
<1>3. Closed = [s \in 1 .. Len(session) |-> Closed[s]]
  BY <1>1 DEF Closed
<1>4. Closed \in Seq(SessionRow) /\ Len(Closed) = Len(session)
  BY <1>1, <1>2, <1>3
<1> QED
  BY <1>2, <1>4 DEF SessionsStay

LEMMA ClosePlace ==
  ASSUME Placed, NEW forget \in BOOLEAN, Close(forget)
  PROVE  Placed'
<1>1. TypeOK
  BY DEF Placed
<1>2. Ticks
  BY <1>1, Sizes DEF Close, Counted, Ticks, TypeOK
<1>3. SessionsStay /\ Len(session') = Len(session)
  BY <1>1, ClosedFacts DEF Close
<1> QED
  BY <1>1, <1>2, <1>3, CommandPlace, Sizes DEF Close

LEMMA SetBlockedFacts ==
  ASSUME TypeOK, NEW s \in DOMAIN session, NEW blocked \in BOOLEAN, SetBlocked(s, blocked)
  PROVE  /\ SessionsStay /\ Len(session') = Len(session)
         /\ \A t \in DOMAIN session : /\ session'[t].closed = session[t].closed
                                      /\ session'[t].is_private = session[t].is_private
<1> DEFINE x == [session[s] EXCEPT !.status = IF blocked THEN "blocked" ELSE "active"]
<1>1. session[s] \in SessionRow
  BY Sizes
<1>2. /\ x \in SessionRow /\ x.is_private = session[s].is_private
      /\ x.closed = session[s].closed /\ x.summary = session[s].summary
  BY <1>1 DEF SessionRow
<1>3. session' = [session EXCEPT ![s] = x]
  BY DEF SetBlocked
<1> HIDE DEF x
<1> QED
  BY <1>2, <1>3, SessionWritten

LEMMA SetBlockedPlace ==
  ASSUME Placed, NEW s \in DOMAIN session, NEW blocked \in BOOLEAN, SetBlocked(s, blocked)
  PROVE  Placed'
<1>1. TypeOK
  BY DEF Placed
<1>2. Ticks
  BY <1>1, Sizes DEF SetBlocked, Counted, Ticks, TypeOK
<1> QED
  BY <1>1, <1>2, SetBlockedFacts, CommandPlace, Sizes DEF SetBlocked

LEMMA CannotPayPlace ==
  ASSUME Placed, CannotPay
  PROVE  Placed'
<1>1. TypeOK /\ PlaceInv /\ RowsPlace
  BY DEF Placed
<1>2. /\ task.pc = "admit" /\ task' = Idle /\ task' \in Task
      /\ UNCHANGED <<session, question, facts, cache, closings, commands>>
  BY IdleType DEF CannotPay
<1>3. TypeOK'
  BY <1>1, <1>2 DEF TypeOK, Asked
<1>4. RowsPlace'
  BY <1>1, <1>2 DEF RowsPlace, Asked, Last
<1>5. PlaceInv'
  BY <1>2 DEF PlaceInv, Idle, Busy
<1> QED
  BY <1>3, <1>4, <1>5 DEF Placed

LEMMA HomeFacts ==
  ASSUME Placed, Accept
  PROVE  /\ SessionsStay /\ Len(session') <= MaxSessions
         /\ Home \in DOMAIN session' /\ Home \in 1 .. MaxSessions
         /\ task.private = session'[Home].is_private
         /\ task.session # 0 => session' = session /\ Home = task.session
         /\ task.session = 0 => /\ Home = Len(session) + 1 /\ Len(session') = Len(session) + 1
                                /\ session'[Home] = NewSession(task.private)
                                /\ \A s \in DOMAIN session : session'[s] = session[s]
<1>1. TypeOK /\ PlaceInv
  BY DEF Placed
<1>2. /\ task.session \in 0 .. Len(session) /\ (task.session = 0 => Len(session) < MaxSessions)
      /\ task.private \in BOOLEAN
      /\ (task.session # 0 => task.private = session[task.session].is_private)
  BY <1>1 DEF Accept, PlaceInv, TypeOK, Task
<1>3. CASE task.session # 0
  <2>1. session' = session /\ Home = task.session
    BY <1>3 DEF Accept, Home
  <2>2. SessionsStay /\ Len(session') = Len(session)
    BY <1>1, <2>1, SessionsKept
  <2>3. task.session \in 1 .. Len(session)
    BY <1>1, <1>2, <1>3, Sizes
  <2>4. task.private = session'[Home].is_private
    BY <1>2, <1>3, <2>1
  <2>5. Len(session') <= MaxSessions /\ Home \in DOMAIN session' /\ Home \in 1 .. MaxSessions
    BY <1>1, <2>1, <2>3, Sizes
  <2> QED
    BY <1>3, <2>1, <2>2, <2>4, <2>5
<1>4. CASE task.session = 0
  <2>1. session' = Append(session, NewSession(task.private)) /\ Home = Len(session) + 1
    BY <1>4 DEF Accept, Home
  <2>2. /\ SessionsStay /\ Len(session') = Len(session) + 1
        /\ session'[Len(session) + 1] = NewSession(task.private)
        /\ \A s \in DOMAIN session : session'[s] = session[s]
    BY <1>1, <1>2, <2>1, SessionAdded
  <2>3. DOMAIN session' = 1 .. Len(session') /\ Len(session') <= MaxSessions
    <3>1. Len(session') <= MaxSessions
      BY <1>1, <1>2, <1>4, <2>2, Sizes
    <3> QED
      BY <1>1, <2>2, <3>1, SessionsType
  <2>4. NewSession(task.private).is_private = task.private
    BY DEF NewSession
  <2> QED
    BY <1>1, <1>2, <1>4, <2>1, <2>2, <2>3, <2>4, Sizes
<1> QED
  BY <1>3, <1>4

LEMMA AcceptFacts ==
  ASSUME Placed, Accept
  PROVE  /\ Added(NewQuestion(Home, task.began)) /\ NewQuestion(Home, task.began) \in QuestionRow
         /\ Last < MaxQuestions
         /\ task' = [task EXCEPT !.pc = "relate", !.session = Home]
         /\ task' \in Task /\ task.pc = "accept" /\ task'.pc = "relate" /\ task'.session = Home
         /\ task'.private = task.private /\ task'.began = task.began
         /\ UNCHANGED <<facts, cache, closings, commands>>
<1>1. TypeOK /\ PlaceInv
  BY DEF Placed
<1>2. /\ task.pc = "accept" /\ question' = Append(question, NewQuestion(Home, task.began))
      /\ task' = [task EXCEPT !.pc = "relate", !.session = Home]
      /\ UNCHANGED <<facts, cache, closings, commands>>
  BY DEF Accept
<1>3. Home \in 1 .. MaxSessions /\ task \in Task /\ closings \in 0 .. MaxCommands
  BY <1>1, HomeFacts, Sizes DEF TypeOK
<1>4. NewQuestion(Home, task.began) \in QuestionRow
  BY <1>3, BoundsAssumption DEF NewQuestion, QuestionRow, Task
<1>5. task' \in Task /\ task'.pc = "relate" /\ task'.session = Home
      /\ task'.private = task.private /\ task'.began = task.began
  <2>1. Home \in 0 .. MaxSessions
    BY <1>1, <1>3, Sizes
  <2>2. task' \in Task
    BY <1>2, <1>3, <2>1, HomeTask, Zenon
  <2> QED
    BY <1>2, <1>3, <2>2 DEF Task
<1>6. Added(NewQuestion(Home, task.began))
  BY <1>1, <1>2, <1>4, Add
<1>7. Last < MaxQuestions
  BY <1>1, <1>2 DEF PlaceInv
<1> QED
  BY <1>2, <1>4, <1>5, <1>6, <1>7

LEMMA AcceptPlace ==
  ASSUME Placed, Accept
  PROVE  Placed'
<1>1. TypeOK /\ PlaceInv
  BY DEF Placed
<1> DEFINE r == NewQuestion(Home, task.began)
<1>2. /\ r.session = Home /\ r.status = "pending" /\ r.relation = "none" /\ r.context = {}
      /\ r.summary = {} /\ ~r.personal /\ r.created = closings /\ r.began = task.began
  BY DEF NewQuestion
<1>3. /\ Added(r) /\ r \in QuestionRow /\ Last < MaxQuestions /\ task' \in Task
      /\ task.pc = "accept" /\ task'.pc = "relate" /\ task'.session = Home
      /\ task'.private = task.private /\ task'.began = task.began
      /\ UNCHANGED <<facts, cache, closings, commands>>
  BY AcceptFacts
<1> HIDE DEF r
<1>4. Ticks /\ cache' \subseteq Asked /\ closings' \in Nat
  BY <1>1, <1>3, SameTicks, Sizes DEF TypeOK
<1>5. TypeOK' /\ RowsPlace'
  BY <1>1, <1>2, <1>3, <1>4, HomeFacts, AddedPlace
<1>6. Last \in Nat /\ Last' = Last + 1 /\ question'[Last + 1] = r
  BY <1>1, <1>3, Sizes DEF Added
<1>7. Len(session') \in Nat /\ DOMAIN session' = 1 .. Len(session')
  BY <1>1, HomeFacts, SessionsType
<1>8. task.began <= closings
  BY <1>1, <1>3 DEF PlaceInv
<1>9. PlaceInv'
  <2>1. /\ Home \in 1 .. Len(session') /\ Home > 0 /\ Last + 1 > 0 /\ Home \in 0 .. Len(session')
    <3>1. Home \in 1 .. Len(session')
      BY <1>7, HomeFacts
    <3> QED
      BY <1>6, <1>7, <3>1
  <2>2. task.private = session'[Home].is_private
    BY HomeFacts
  <2> QED
    BY <1>2, <1>3, <1>6, <1>8, <2>1, <2>2 DEF PlaceInv, Busy
<1> QED
  BY <1>5, <1>9 DEF Placed

LEMMA RelateFacts ==
  ASSUME Placed, Relate
  PROVE  \E relation \in {"none", "standalone", "ambiguous", "related"}, include \in BOOLEAN,
            home \in 1 .. MaxSessions, r \in QuestionRow :
         /\ SessionsStay /\ Len(session') <= MaxSessions
         /\ Written(r) /\ r = [question[Last] EXCEPT !.session = home]
         /\ home \in DOMAIN session' /\ task.private = session'[home].is_private
         /\ \/ home = task.session /\ session' = session /\ question' = question
            \/ /\ ~task.private /\ home = Len(session) + 1 /\ Len(session') = Len(session) + 1
               /\ session'[home] = NewSession(FALSE) /\ relation # "related"
               /\ \A s \in DOMAIN session : session'[s] = session[s]
         /\ include => relation = "related"
         /\ relation = "related" => Previous(task.session) # 0
         /\ task' = [task EXCEPT !.pc = "admit", !.session = home, !.relation = relation,
                                 !.include = include, !.previous = Previous(task.session)]
         /\ task' \in Task
         /\ UNCHANGED <<facts, cache, closings, commands>>
<1>1. TypeOK /\ PlaceInv /\ RowsPlace
  BY DEF Placed
<1> DEFINE previous == Previous(task.session)
<1>2. PICK relation \in {"none", "standalone", "ambiguous", "related"}, include \in BOOLEAN :
        LET leaves == ~task.private /\ previous # 0 /\ relation # "related" IN
        /\ relation = "related" => previous # 0
        /\ include => relation = "related"
        /\ leaves => Len(session) < MaxSessions
        /\ session' = IF leaves THEN Append(session, NewSession(FALSE)) ELSE session
        /\ question' = [question EXCEPT ![Last].session = IF leaves THEN Len(session) + 1 ELSE @]
        /\ task' = [task EXCEPT !.pc = "admit", !.session = question'[Last].session,
                                !.relation = relation, !.include = include,
                                !.previous = previous]
  BY DEF Relate
<1> DEFINE leaves == ~task.private /\ previous # 0 /\ relation # "related"
           home == IF leaves THEN Len(session) + 1 ELSE task.session
           r == [question[Last] EXCEPT !.session = home]
<1>3. /\ Last > 0 /\ Last \in Asked /\ question[Last].session = task.session
      /\ question[Last] \in QuestionRow
      /\ task.session \in DOMAIN session /\ task.private = session[task.session].is_private
  <2>1. Last > 0 /\ question[Last].session = task.session /\ task.session > 0
        /\ task.session \in 0 .. Len(session) /\ task.private = session[task.session].is_private
    BY <1>1 DEF Relate, PlaceInv, Busy
  <2> QED
    BY <1>1, <2>1, Sizes
<1>4. CASE leaves
  <2>1. /\ Len(session) < MaxSessions /\ session' = Append(session, NewSession(FALSE))
        /\ home = Len(session) + 1
    BY <1>2, <1>4
  <2>2. /\ SessionsStay /\ Len(session') = Len(session) + 1
        /\ session'[Len(session) + 1] = NewSession(FALSE)
        /\ \A s \in DOMAIN session : session'[s] = session[s]
    BY <1>1, <2>1, SessionAdded
  <2>3. Len(session') <= MaxSessions /\ home \in 1 .. MaxSessions
    BY <1>1, <2>1, <2>2, Sizes
  <2>4. DOMAIN session' = 1 .. Len(session')
    BY <1>1, <2>2, <2>3, SessionsType
  <2>5. home \in DOMAIN session' /\ NewSession(FALSE).is_private = FALSE
    BY <1>1, <2>1, <2>2, <2>4, Sizes DEF NewSession
  <2>6. r \in QuestionRow /\ question' = [question EXCEPT ![Last] = r]
    BY <1>2, <1>3, <1>4, <2>3 DEF QuestionRow
  <2> HIDE DEF r
  <2>7. Written(r) /\ question'[Last] = r
    BY <1>1, <1>3, <2>6, Write DEF Written
  <2>8. question'[Last].session = home
    BY <1>3, <2>7 DEF r, QuestionRow
  <2>9. /\ task' = [task EXCEPT !.pc = "admit", !.session = home, !.relation = relation,
                                !.include = include, !.previous = previous]
    BY <1>2, <2>8
  <2>10. task' \in Task
    <3>1. previous \in 0 .. MaxQuestions
      BY <1>1, PreviousFacts, Sizes
    <3>2. task \in Task /\ home \in 0 .. MaxSessions
      BY <1>1, <2>3, Sizes DEF TypeOK
    <3> HIDE DEF previous, home
    <3> QED
      BY <2>9, <3>1, <3>2, RelateTask, Zenon
  <2>11. UNCHANGED <<facts, cache, closings, commands>>
    BY DEF Relate
  <2>12. ~task.private /\ relation # "related"
    BY <1>4
  <2> QED
    <3>1. r = [question[Last] EXCEPT !.session = home]
      BY DEF r
    <3>2. /\ home \in DOMAIN session' /\ task.private = session'[home].is_private
          /\ session'[home] = NewSession(FALSE)
      <4>1. task.private = FALSE
        BY <1>1, <2>12 DEF TypeOK, Task
      <4>2. session'[home] = NewSession(FALSE)
        BY <2>1, <2>2
      <4> QED
        BY <2>5, <4>1, <4>2
    <3>3. \/ home = task.session /\ session' = session /\ question' = question
          \/ /\ ~task.private /\ home = Len(session) + 1 /\ Len(session') = Len(session) + 1
             /\ session'[home] = NewSession(FALSE) /\ relation # "related"
             /\ \A s \in DOMAIN session : session'[s] = session[s]
      BY <2>1, <2>2, <2>12, <3>2
    <3> HIDE DEF home, previous
    <3> QED
      BY <1>2, <2>2, <2>3, <2>6, <2>7, <2>9, <2>10, <2>11, <3>1, <3>2, <3>3
         DEF previous
<1>5. CASE ~leaves
  <2>1. session' = session /\ home = task.session
    BY <1>2, <1>5
  <2>2. r = question[Last]
    BY <1>3, <2>1 DEF QuestionRow
  <2>3. question' = question
    <3>1. question \in Seq(QuestionRow)
      BY <1>1 DEF TypeOK
    <3>2. question' = [question EXCEPT ![Last].session = @]
      BY <1>2, <1>5
    <3>3. question' = [question EXCEPT ![Last] = question[Last]]
      BY <1>3, <3>2 DEF QuestionRow
    <3> QED
      BY <1>3, <3>1, <3>3
  <2>4. r \in QuestionRow /\ Written(r)
    <3>1. Last' = Last /\ Asked' = Asked /\ Len(question') = Len(question)
      BY <2>3 DEF Last, Asked
    <3> QED
      BY <1>1, <1>3, <2>2, <2>3, <3>1 DEF Written, TypeOK
  <2>5. SessionsStay /\ Len(session') <= MaxSessions /\ home \in 1 .. MaxSessions
    BY <1>1, <1>3, <2>1, SessionsKept, Sizes
  <2>6. /\ task' = [task EXCEPT !.pc = "admit", !.session = home, !.relation = relation,
                                !.include = include, !.previous = previous]
    BY <1>2, <1>3, <2>1, <2>3
  <2>7. task' \in Task
    <3>1. previous \in 0 .. MaxQuestions
      BY <1>1, PreviousFacts, Sizes
    <3>2. task \in Task /\ home \in 0 .. MaxSessions
      BY <1>1, <2>5, Sizes DEF TypeOK
    <3> HIDE DEF previous, home
    <3> QED
      BY <2>6, <3>1, <3>2, RelateTask, Zenon
  <2>8. UNCHANGED <<facts, cache, closings, commands>>
    BY DEF Relate
  <2> QED
    <3>1. r = [question[Last] EXCEPT !.session = home]
      BY DEF r
    <3> HIDE DEF home, r, previous
    <3> QED
      BY <1>2, <1>3, <2>1, <2>3, <2>4, <2>5, <2>6, <2>7, <2>8, <3>1 DEF previous
<1> QED
  BY <1>4, <1>5

LEMMA RelatePlace ==
  ASSUME Placed, Relate
  PROVE  Placed'
<1>1. TypeOK /\ PlaceInv /\ RowsPlace
  BY DEF Placed
<1>2. PICK relation \in {"none", "standalone", "ambiguous", "related"}, include \in BOOLEAN,
            home \in 1 .. MaxSessions, r \in QuestionRow :
         /\ SessionsStay /\ Len(session') <= MaxSessions
         /\ Written(r) /\ r = [question[Last] EXCEPT !.session = home]
         /\ home \in DOMAIN session' /\ task.private = session'[home].is_private
         /\ \/ home = task.session /\ session' = session /\ question' = question
            \/ /\ ~task.private /\ home = Len(session) + 1 /\ Len(session') = Len(session) + 1
               /\ session'[home] = NewSession(FALSE) /\ relation # "related"
               /\ \A s \in DOMAIN session : session'[s] = session[s]
         /\ include => relation = "related"
         /\ relation = "related" => Previous(task.session) # 0
         /\ task' = [task EXCEPT !.pc = "admit", !.session = home, !.relation = relation,
                                 !.include = include, !.previous = Previous(task.session)]
         /\ task' \in Task
         /\ UNCHANGED <<facts, cache, closings, commands>>
  BY RelateFacts
<1>3. /\ Last > 0 /\ Last \in Asked /\ question[Last].session = task.session
      /\ question[Last].began = task.began /\ question[Last] \in QuestionRow
      /\ question[Last].status = "pending" /\ question[Last].relation = "none"
      /\ question[Last].context = {} /\ question[Last].summary = {} /\ ~question[Last].personal
      /\ question[Last].created <= closings /\ task.began <= closings
  BY <1>1, Sizes DEF Relate, PlaceInv, RowsPlace, Busy
<1>4. /\ r.status = "pending" /\ r.relation = "none" /\ r.context = {} /\ r.summary = {}
      /\ ~r.personal /\ r.session = home /\ r.created <= closings /\ r.began = task.began
  BY <1>2, <1>3 DEF QuestionRow
<1>5. /\ task'.pc = "admit" /\ task'.session = home /\ task'.relation = relation
      /\ task'.include = include /\ task'.previous = Previous(task.session)
      /\ task'.private = task.private /\ task'.began = task.began
  BY <1>1, <1>2 DEF TypeOK, Task
<1>6. Ticks
  BY <1>1, <1>2, SameTicks
<1>7. TypeOK' /\ RowsPlace'
  <2>1. cache' \subseteq Asked /\ closings' = closings
    BY <1>1, <1>2 DEF TypeOK
  <2> QED
    BY <1>2, <1>3, <1>4, <1>6, <2>1, WrittenPlace
<1>8. relation = "related" => Previous(home)' = Previous(task.session)
  BY <1>2, PreviousSame
<1>9. Previous(task.session)' = Previous(home)'
  BY <1>5 DEF Previous, AnsweredIn, Scope, Boundary, In
<1>10. /\ Last' = Last /\ question'[Last] = r /\ home > 0 /\ home \in 0 .. Len(session')
       /\ closings' = closings
  <2>1. DOMAIN session' = 1 .. Len(session') /\ Len(session') \in Nat
    BY <1>1, <1>2, SessionsType
  <2>2. home \in 1 .. Len(session')
    BY <1>2, <2>1
  <2>3. home > 0 /\ home \in 0 .. Len(session')
    BY <2>1, <2>2
  <2> QED
    BY <1>2, <2>3 DEF Written
<1>11. PlaceInv'
  BY <1>2, <1>3, <1>4, <1>5, <1>8, <1>9, <1>10 DEF PlaceInv, Busy
<1> QED
  BY <1>7, <1>11 DEF Placed

\* The question and the session of a handler that has them.
LEMMA BusyFacts ==
  ASSUME Placed, Busy
  PROVE  /\ Last > 0 /\ Last \in Asked /\ Last \in Nat /\ Asked = 1 .. Last
         /\ question[Last] \in QuestionRow
         /\ question[Last].session = task.session /\ question[Last].began = task.began
         /\ question[Last].created <= closings /\ task.began <= closings
         /\ task.session \in DOMAIN session /\ task.session # 0
         /\ session[task.session] \in SessionRow
         /\ task.private = session[task.session].is_private /\ task.private \in BOOLEAN
<1>1. TypeOK /\ PlaceInv /\ RowsPlace
  BY DEF Placed
<1>2. Last > 0 /\ question[Last].session = task.session /\ question[Last].began = task.began
      /\ task.session > 0 /\ task.session \in 0 .. Len(session) /\ task.began <= closings
      /\ task.pc # "idle"
  BY <1>1 DEF PlaceInv, Busy
<1>3. Last \in Asked /\ Asked = 1 .. Last /\ Last \in Nat /\ task.session \in DOMAIN session
      /\ task.session # 0
  BY <1>1, <1>2, Sizes
<1> QED
  BY <1>1, <1>2, <1>3, Sizes DEF PlaceInv, RowsPlace, TypeOK, Task

\* The handler lets go of its question.
LEMMA LeavesPlace ==
  ASSUME Placed, Busy, Ticks, SessionsStay, Len(session') = Len(session), task' = Idle,
         NEW r \in QuestionRow, Written(r), r.session = question[Last].session,
         r.created = question[Last].created, r.status # "processing", cache' \subseteq Asked
  PROVE  Placed'
<1>1. TypeOK /\ PlaceInv /\ RowsPlace
  BY DEF Placed
<1>2. /\ Last > 0 /\ question[Last].session \in DOMAIN session
      /\ question[Last].created <= closings /\ question[Last] \in QuestionRow
  BY BusyFacts
<1>3. Len(session') <= MaxSessions /\ DOMAIN session' = DOMAIN session
  BY <1>1, Sizes, SessionsType
<1>4. r.created <= closings'
  <2>1. /\ question[Last].created \in Nat /\ closings \in Nat /\ closings' \in Nat
        /\ closings <= closings'
    BY <1>1, <1>2, Sizes DEF Ticks, QuestionRow
  <2> QED
    BY <1>2, <2>1
<1>5. TypeOK' /\ RowsPlace'
  BY <1>1, <1>2, <1>3, <1>4, IdleType, WrittenPlace
<1>6. PlaceInv'
  BY IdleType DEF PlaceInv, Busy
<1> QED
  BY <1>5, <1>6 DEF Placed

LEMMA AdmitsFrom ==
  ASSUME Placed, task.pc = "admit"
  PROVE  /\ Busy /\ task.relation \in {"none", "standalone", "ambiguous", "related"}
         /\ Recorded \in {"standalone", "ambiguous", "related"}
         /\ task.previous \in 0 .. MaxQuestions
         /\ question[Last].status = "pending" /\ question[Last].relation = "none"
         /\ question[Last].context = {} /\ question[Last].summary = {} /\ ~question[Last].personal
         /\ Contextual => /\ task.previous # 0 /\ task.previous = Previous(task.session)
                          /\ task.previous \in Asked /\ task.previous \in AnsweredIn(task.session)
                          /\ question[task.previous].relation # "expansion"
                          /\ Recorded = "related"
         /\ task.relation = "related" =>
               task.previous # 0 /\ task.previous = Previous(task.session)
         /\ Summary \subseteq 1 .. MaxQuestions /\ History \subseteq 1 .. MaxQuestions
<1>1. TypeOK /\ PlaceInv
  BY DEF Placed
<1>2. Busy /\ task.relation \in {"none", "standalone", "ambiguous", "related"}
      /\ task.previous \in 0 .. MaxQuestions
  BY <1>1 DEF Busy, TypeOK, Task
<1>3. Recorded \in {"standalone", "ambiguous", "related"}
  BY <1>2 DEF Recorded
<1>4. task.relation = "related" => task.previous # 0 /\ task.previous = Previous(task.session)
  BY <1>1 DEF PlaceInv
<1>5. Contextual => /\ task.previous # 0 /\ task.previous = Previous(task.session)
                    /\ task.previous \in Asked /\ task.previous \in AnsweredIn(task.session)
                    /\ question[task.previous].relation # "expansion"
  <2>1. AnsweredIn(task.session) \subseteq Asked
    BY DEF AnsweredIn, Scope, In
  <2> QED
    BY <1>1, <1>4, <2>1, PreviousFacts DEF Contextual
<1>6. Summary \subseteq 1 .. MaxQuestions
  <2>1. CASE Contextual /\ task.private
    <3>1. question[task.previous] \in QuestionRow
      BY <1>1, <1>5, <2>1, Sizes
    <3>2. question[task.previous].summary \subseteq 1 .. MaxQuestions
      BY <3>1 DEF QuestionRow
    <3> QED
      BY <2>1, <3>2 DEF Summary
  <2>2. CASE ~(Contextual /\ task.private)
    <3>1. Summary = {}
      BY <2>2 DEF Summary
    <3> QED
      BY <3>1
  <2> QED
    BY <2>1, <2>2
<1>7. History \subseteq 1 .. MaxQuestions
  <2>1. task.session # 0
    BY <1>2, BusyFacts
  <2> QED
    BY <1>1, <2>1, HistoryFacts, Sizes
<1> QED
  BY <1>1, <1>2, <1>3, <1>4, <1>5, <1>6, <1>7 DEF PlaceInv, Contextual, Recorded

LEMMA AdmitFacts ==
  ASSUME Placed, Admit
  PROVE  \E r \in QuestionRow :
         /\ Written(r) /\ r.status = "processing" /\ r.relation = Recorded
         /\ r.judged = task.previous /\ r.context = History \union Summary
         /\ r.personal = (task.private /\ (IF Contextual THEN facts ELSE task.facts))
         /\ r.root = (IF Contextual THEN Boundary(task.session) ELSE Last)
         /\ r.session = question[Last].session /\ r.summary = question[Last].summary
         /\ r.began = question[Last].began /\ r.created = question[Last].created
         /\ task' \in Task /\ task.pc = "admit" /\ task'.pc = "answer" /\ task'.summary = Summary
         /\ task'.private = task.private /\ task'.session = task.session
         /\ task'.began = task.began /\ task'.facts = task.facts
         /\ task'.relation = task.relation
         /\ UNCHANGED <<session, facts, cache, closings, commands>>
<1>1. TypeOK /\ PlaceInv
  BY DEF Placed
<1>2. /\ task.pc = "admit"
      /\ question' = [question EXCEPT
            ![Last].status = "processing", ![Last].relation = Recorded,
            ![Last].judged = task.previous,
            ![Last].context = History \union Summary,
            ![Last].personal = task.private /\ (IF Contextual THEN facts ELSE task.facts),
            ![Last].root = IF Contextual THEN Boundary(task.session) ELSE Last]
      /\ task' = [task EXCEPT !.pc = "answer", !.summary = Summary]
      /\ UNCHANGED <<session, facts, cache, closings, commands>>
  BY DEF Admit
<1> DEFINE p == task.private /\ (IF Contextual THEN facts ELSE task.facts)
           o == IF Contextual THEN Boundary(task.session) ELSE Last
           c == History \union Summary
           x == Recorded
           r == [question[Last] EXCEPT !.status = "processing", !.relation = x,
                    !.judged = task.previous, !.context = c, !.personal = p, !.root = o]
<1>3. p \in BOOLEAN
  OBVIOUS
<1>4. o \in 0 .. MaxQuestions
  BY <1>1, BoundaryType, Sizes
<1>5. c \in SUBSET (1 .. MaxQuestions) /\ task.previous \in 0 .. MaxQuestions
      /\ x \in {"none", "standalone", "ambiguous", "related", "expansion"}
  BY <1>2, AdmitsFrom
<1>6. Last > 0 /\ Last \in Asked /\ question[Last] \in QuestionRow
  BY <1>2, BusyFacts DEF Busy
<1>7. question' = [question EXCEPT ![Last] = r]
  BY <1>2, <1>6
<1> HIDE DEF p, o, c, x
<1>8. r \in QuestionRow
  BY <1>3, <1>4, <1>5, <1>6, AdmitRow, Zenon
<1>9. /\ r.status = "processing" /\ r.relation = x
      /\ r.judged = task.previous /\ r.context = c /\ r.personal = p /\ r.root = o
      /\ r.session = question[Last].session /\ r.summary = question[Last].summary
      /\ r.began = question[Last].began /\ r.created = question[Last].created
  BY <1>6 DEF QuestionRow
<1> HIDE DEF r
<1>10. Written(r)
  BY <1>1, <1>6, <1>7, <1>8, Write
<1>11. task' \in Task
  <2>1. task \in Task /\ Summary \in SUBSET (1 .. MaxQuestions)
    BY <1>1, <1>2, AdmitsFrom DEF TypeOK
  <2> QED
    BY <1>2, <2>1, AdmitTask, Zenon
<1>12. /\ task'.pc = "answer" /\ task'.summary = Summary
       /\ task'.private = task.private /\ task'.session = task.session
       /\ task'.began = task.began /\ task'.facts = task.facts
       /\ task'.relation = task.relation
  BY <1>1, <1>2 DEF TypeOK, Task
<1> QED
  BY <1>2, <1>8, <1>9, <1>10, <1>11, <1>12 DEF p, o, c, x

LEMMA AdmitPlace ==
  ASSUME Placed, Admit
  PROVE  Placed'
<1>1. TypeOK /\ PlaceInv /\ RowsPlace
  BY DEF Placed
<1>2. PICK r \in QuestionRow :
         /\ Written(r) /\ r.status = "processing"
         /\ r.session = question[Last].session
         /\ r.began = question[Last].began /\ r.created = question[Last].created
         /\ task' \in Task /\ task.pc = "admit" /\ task'.pc = "answer"
         /\ task'.private = task.private /\ task'.session = task.session
         /\ task'.began = task.began
         /\ UNCHANGED <<session, facts, cache, closings, commands>>
  BY AdmitFacts
<1>3. /\ Last > 0 /\ question[Last].session = task.session /\ question[Last].began = task.began
      /\ question[Last].created <= closings /\ task.session \in DOMAIN session
      /\ task.session # 0 /\ task.private = session[task.session].is_private
      /\ task.began <= closings
  BY <1>2, BusyFacts DEF Busy
<1>4. Ticks /\ SessionsStay /\ Len(session') <= MaxSessions /\ cache' \subseteq Asked
  BY <1>1, <1>2, SameTicks, SessionsKept, Sizes DEF TypeOK
<1>5. TypeOK' /\ RowsPlace'
  BY <1>1, <1>2, <1>3, <1>4, WrittenPlace
<1>6. PlaceInv'
  <2>1. Last' = Last /\ question'[Last] = r
    BY <1>2 DEF Written
  <2>2. task.session > 0 /\ task.session \in 0 .. Len(session)
    BY <1>1, <1>3, Sizes
  <2> QED
    BY <1>2, <1>3, <2>1, <2>2 DEF PlaceInv, Busy
<1> QED
  BY <1>5, <1>6 DEF Placed

LEMMA RejectFacts ==
  ASSUME Placed, Reject
  PROVE  \E r \in QuestionRow :
         /\ r = [question[Last] EXCEPT !.status = "rejected"] /\ Written(r)
         /\ SessionsStay /\ Len(session') = Len(session)
         /\ \A t \in DOMAIN session : /\ session'[t].closed = session[t].closed
                                      /\ session'[t].is_private = session[t].is_private
         /\ Busy /\ task.pc = "admit" /\ task' = Idle
         /\ UNCHANGED <<facts, cache, closings, commands>>
<1>1. TypeOK
  BY DEF Placed
<1>2. Busy /\ task.pc = "admit" /\ task' = Idle /\ UNCHANGED <<facts, cache, closings, commands>>
  BY DEF Reject, Busy
<1>3. /\ Last > 0 /\ Last \in Asked /\ question[Last] \in QuestionRow
      /\ task.session \in DOMAIN session /\ session[task.session] \in SessionRow
  BY <1>2, BusyFacts
<1> DEFINE r == [question[Last] EXCEPT !.status = "rejected"]
<1>4. r \in QuestionRow
  BY <1>3, RowField
<1>5. question' = [question EXCEPT ![Last] = r]
  BY <1>3 DEF Reject
<1>6. Written(r)
  <2> HIDE DEF r
  <2> QED
    BY <1>1, <1>3, <1>4, <1>5, Write
<1>7. PICK delta \in {1, 3} : session' = [session EXCEPT ![task.session] = Spoiled(@, delta)]
  BY DEF Reject
<1> DEFINE x == Spoiled(session[task.session], delta)
<1>8. /\ x \in SessionRow /\ x.is_private = session[task.session].is_private
      /\ x.closed = session[task.session].closed /\ x.summary = session[task.session].summary
  <2>1. delta \in Nat
    OBVIOUS
  <2> QED
    BY <1>3, <2>1, SpoiledType
<1>9. session' = [session EXCEPT ![task.session] = x]
  BY <1>7
<1> HIDE DEF x
<1>10. /\ SessionsStay /\ Len(session') = Len(session)
       /\ \A t \in DOMAIN session : /\ session'[t].closed = session[t].closed
                                    /\ session'[t].is_private = session[t].is_private
  BY <1>1, <1>3, <1>8, <1>9, SessionWritten
<1> HIDE DEF r
<1>11. r = [question[Last] EXCEPT !.status = "rejected"]
  BY DEF r
<1> QED
  BY <1>2, <1>4, <1>6, <1>10, <1>11

LEMMA RejectPlace ==
  ASSUME Placed, Reject
  PROVE  Placed'
<1>1. PICK r \in QuestionRow :
         /\ r = [question[Last] EXCEPT !.status = "rejected"] /\ Written(r)
         /\ SessionsStay /\ Len(session') = Len(session)
         /\ Busy /\ task' = Idle
         /\ UNCHANGED <<facts, cache, closings, commands>>
  BY RejectFacts
<1>2. TypeOK /\ question[Last] \in QuestionRow
  BY <1>1, BusyFacts DEF Placed
<1>3. r.session = question[Last].session /\ r.created = question[Last].created
      /\ r.status # "processing"
  BY <1>1, <1>2 DEF QuestionRow
<1>4. Ticks /\ cache' \subseteq Asked
  BY <1>1, <1>2, SameTicks DEF TypeOK
<1> QED
  BY <1>1, <1>3, <1>4, LeavesPlace

LEMMA FailFacts ==
  ASSUME Placed, Fail
  PROVE  \E r \in QuestionRow :
         /\ r = [question[Last] EXCEPT !.status = "failed"] /\ Written(r)
         /\ Busy /\ task' = Idle
         /\ UNCHANGED <<session, facts, cache, closings, commands>>
<1>1. TypeOK
  BY DEF Placed
<1>2. Busy /\ task' = Idle /\ UNCHANGED <<session, facts, cache, closings, commands>>
  BY DEF Fail, Busy
<1>3. Last > 0 /\ Last \in Asked /\ question[Last] \in QuestionRow
  BY <1>2, BusyFacts
<1> DEFINE r == [question[Last] EXCEPT !.status = "failed"]
<1>4. r \in QuestionRow
  BY <1>3, RowField
<1>5. question' = [question EXCEPT ![Last] = r]
  BY <1>3 DEF Fail
<1>6. Written(r)
  <2> HIDE DEF r
  <2> QED
    BY <1>1, <1>3, <1>4, <1>5, Write
<1>7. r = [question[Last] EXCEPT !.status = "failed"]
  OBVIOUS
<1> HIDE DEF r
<1> QED
  BY <1>2, <1>4, <1>6, <1>7

LEMMA FailPlace ==
  ASSUME Placed, Fail
  PROVE  Placed'
<1>1. PICK r \in QuestionRow :
         /\ r = [question[Last] EXCEPT !.status = "failed"] /\ Written(r)
         /\ Busy /\ task' = Idle
         /\ UNCHANGED <<session, facts, cache, closings, commands>>
  BY FailFacts
<1>2. TypeOK /\ question[Last] \in QuestionRow
  BY <1>1, BusyFacts DEF Placed
<1>3. r.session = question[Last].session /\ r.created = question[Last].created
      /\ r.status # "processing"
  BY <1>1, <1>2 DEF QuestionRow
<1>4. Ticks /\ cache' \subseteq Asked /\ SessionsStay /\ Len(session') = Len(session)
  BY <1>1, <1>2, SameTicks, SessionsKept DEF TypeOK
<1> QED
  BY <1>1, <1>3, <1>4, LeavesPlace

\* The summary of a session is written, unless the session is closed.
LEMMA SummarisedFacts ==
  ASSUME TypeOK, NEW s \in DOMAIN session, session' = Summarised(s), Last \in 1 .. MaxQuestions
  PROVE  /\ SessionsStay /\ Len(session') = Len(session)
         /\ \A t \in DOMAIN session : /\ session'[t].closed = session[t].closed
                                      /\ session'[t].is_private = session[t].is_private
<1> DEFINE m == IF task.private /\ ~session[s].closed /\ question[Last].relation # "expansion"
                THEN SummaryAfter(Last) ELSE session[s].summary
           x == [session[s] EXCEPT !.summary = m]
<1>1. session[s] \in SessionRow
  BY Sizes
<1>2. m \in SUBSET (1 .. MaxQuestions)
  BY <1>1 DEF SummaryAfter, TypeOK, Task, SessionRow
<1>3. session[s].closed => m = session[s].summary
  OBVIOUS
<1>4. session' = [session EXCEPT ![s] = x]
  BY DEF Summarised
<1> HIDE DEF m
<1>5. /\ x \in SessionRow /\ x.is_private = session[s].is_private
      /\ x.closed = session[s].closed /\ x.summary = m
  BY <1>1, <1>2 DEF SessionRow
<1> HIDE DEF x
<1> QED
  BY <1>3, <1>4, <1>5, SessionWritten

LEMMA AnswerFacts ==
  ASSUME Placed, NEW status \in {"answered", "truncated"}, Answer(status)
  PROVE  \E r \in QuestionRow :
         /\ r = [question[Last] EXCEPT !.status = status,
                     !.summary = IF task.private THEN SummaryAfter(Last) ELSE {}]
         /\ Written(r)
         /\ SessionsStay /\ Len(session') = Len(session)
         /\ \A t \in DOMAIN session : /\ session'[t].closed = session[t].closed
                                      /\ session'[t].is_private = session[t].is_private
         /\ Busy /\ task.pc = "answer" /\ task' = Idle
         /\ cache' = IF question[Last].relation # "expansion" /\ CacheAllowed
                        /\ status = "answered"
                     THEN cache \union {Last} ELSE cache
         /\ UNCHANGED <<facts, closings, commands>>
<1>1. TypeOK
  BY DEF Placed
<1>2. /\ Busy /\ task.pc = "answer" /\ task' = Idle /\ UNCHANGED <<facts, closings, commands>>
      /\ question' = [question EXCEPT ![Last].status = status,
                        ![Last].summary = IF task.private THEN SummaryAfter(Last) ELSE {}]
      /\ session' = Summarised(question[Last].session)
      /\ cache' = IF question[Last].relation # "expansion" /\ CacheAllowed
                     /\ status = "answered"
                  THEN cache \union {Last} ELSE cache
  BY DEF Answer, Busy
<1>3. /\ Last > 0 /\ Last \in Asked /\ question[Last] \in QuestionRow
      /\ question[Last].session \in DOMAIN session /\ Last \in 1 .. MaxQuestions
  BY <1>1, <1>2, BusyFacts, Sizes
<1> DEFINE m == IF task.private THEN SummaryAfter(Last) ELSE {}
           r == [question[Last] EXCEPT !.status = status, !.summary = m]
<1>4. m \in SUBSET (1 .. MaxQuestions)
  BY <1>1, <1>3 DEF SummaryAfter, TypeOK, Task
<1>5. question' = [question EXCEPT ![Last] = r]
  BY <1>2, <1>3
<1>6. r \in QuestionRow
  <2>1. status \in {"pending", "processing", "answered", "truncated", "rejected", "failed"}
    OBVIOUS
  <2> HIDE DEF m
  <2> QED
    BY <1>3, <1>4, <2>1, AnswerRow, Zenon
<1>7. Written(r)
  <2> HIDE DEF r
  <2> QED
    BY <1>1, <1>3, <1>5, <1>6, Write
<1>8. /\ SessionsStay /\ Len(session') = Len(session)
      /\ \A t \in DOMAIN session : /\ session'[t].closed = session[t].closed
                                   /\ session'[t].is_private = session[t].is_private
  BY <1>1, <1>2, <1>3, SummarisedFacts
<1>9. r = [question[Last] EXCEPT !.status = status,
               !.summary = IF task.private THEN SummaryAfter(Last) ELSE {}]
  OBVIOUS
<1> HIDE DEF r
<1> QED
  BY <1>2, <1>6, <1>7, <1>8, <1>9

LEMMA AnswerPlace ==
  ASSUME Placed, NEW status \in {"answered", "truncated"}, Answer(status)
  PROVE  Placed'
<1>1. PICK r \in QuestionRow :
         /\ r = [question[Last] EXCEPT !.status = status,
                     !.summary = IF task.private THEN SummaryAfter(Last) ELSE {}]
         /\ Written(r)
         /\ SessionsStay /\ Len(session') = Len(session)
         /\ Busy /\ task' = Idle
         /\ cache' = IF question[Last].relation # "expansion" /\ CacheAllowed
                        /\ status = "answered"
                     THEN cache \union {Last} ELSE cache
         /\ UNCHANGED <<facts, closings, commands>>
  BY AnswerFacts
<1>2. TypeOK /\ question[Last] \in QuestionRow /\ Last \in Asked
  BY <1>1, BusyFacts DEF Placed
<1>3. r.session = question[Last].session /\ r.created = question[Last].created
      /\ r.status = status
  BY <1>1, <1>2 DEF QuestionRow
<1>4. Ticks /\ cache' \subseteq Asked
  BY <1>1, <1>2, SameTicks DEF TypeOK
<1>5. r.status # "processing"
  BY <1>3
<1> QED
  BY <1>1, <1>3, <1>4, <1>5, LeavesPlace

LEMMA ServeFacts ==
  ASSUME Placed, ServeCached
  PROVE  \E r \in QuestionRow :
         /\ Written(r) /\ r.status = "answered" /\ r.relation = "standalone" /\ r.root = Last
         /\ r.summary = IF task.private THEN {Last} ELSE {}
         /\ r.session = question[Last].session /\ r.context = question[Last].context
         /\ r.personal = question[Last].personal
         /\ r.began = question[Last].began /\ r.created = question[Last].created
         /\ SessionsStay /\ Len(session') = Len(session)
         /\ \A t \in DOMAIN session : /\ session'[t].closed = session[t].closed
                                      /\ session'[t].is_private = session[t].is_private
         /\ Busy /\ task.pc = "admit" /\ task' = Idle
         /\ UNCHANGED <<facts, cache, closings, commands>>
<1>1. TypeOK
  BY DEF Placed
<1>2. /\ task.pc = "admit" /\ CacheAllowed /\ task' = Idle
      /\ UNCHANGED <<facts, cache, closings, commands>>
      /\ question' = [question EXCEPT
            ![Last].status = "answered", ![Last].relation = Recorded, ![Last].root = Last,
            ![Last].judged = task.previous,
            ![Last].summary = IF task.private THEN {Last} ELSE {}]
      /\ session' = Summarised(question[Last].session)
  BY DEF ServeCached
<1>3. /\ Last > 0 /\ Last \in Asked /\ question[Last] \in QuestionRow /\ Busy
      /\ question[Last].session \in DOMAIN session /\ Last \in 1 .. MaxQuestions
  BY <1>1, <1>2, BusyFacts, Sizes DEF Busy
<1>4. Recorded = "standalone"
  BY <1>2 DEF Recorded, CacheAllowed
<1> DEFINE m == IF task.private THEN {Last} ELSE {}
           r == [question[Last] EXCEPT !.status = "answered", !.relation = "standalone",
                    !.root = Last, !.judged = task.previous, !.summary = m]
<1>5. m \in SUBSET (1 .. MaxQuestions) /\ task.previous \in 0 .. MaxQuestions
      /\ Last \in 0 .. MaxQuestions
  BY <1>2, <1>3, AdmitsFrom
<1>6. question' = [question EXCEPT ![Last] = r]
  BY <1>2, <1>3, <1>4
<1> HIDE DEF m
<1>7. r \in QuestionRow
  <2>1. "standalone" \in {"none", "standalone", "ambiguous", "related", "expansion"}
    OBVIOUS
  <2> QED
    BY <1>3, <1>5, <2>1, ServeRow, Zenon
<1>8. /\ r.status = "answered" /\ r.relation = "standalone" /\ r.root = Last /\ r.summary = m
      /\ r.session = question[Last].session /\ r.context = question[Last].context
      /\ r.personal = question[Last].personal
      /\ r.began = question[Last].began /\ r.created = question[Last].created
  BY <1>3 DEF QuestionRow
<1> HIDE DEF r
<1>9. Written(r)
  BY <1>1, <1>3, <1>6, <1>7, Write
<1>10. /\ SessionsStay /\ Len(session') = Len(session)
       /\ \A t \in DOMAIN session : /\ session'[t].closed = session[t].closed
                                    /\ session'[t].is_private = session[t].is_private
  BY <1>1, <1>2, <1>3, SummarisedFacts
<1> QED
  BY <1>2, <1>3, <1>7, <1>8, <1>9, <1>10 DEF m

LEMMA ServePlace ==
  ASSUME Placed, ServeCached
  PROVE  Placed'
<1>1. PICK r \in QuestionRow :
         /\ Written(r) /\ r.status = "answered"
         /\ r.session = question[Last].session /\ r.created = question[Last].created
         /\ SessionsStay /\ Len(session') = Len(session)
         /\ Busy /\ task' = Idle
         /\ UNCHANGED <<facts, cache, closings, commands>>
  BY ServeFacts
<1>2. TypeOK
  BY DEF Placed
<1>3. Ticks /\ cache' \subseteq Asked /\ r.status # "processing"
  BY <1>1, <1>2, SameTicks DEF TypeOK
<1> QED
  BY <1>1, <1>3, LeavesPlace

LEMMA ExpandFacts ==
  ASSUME Placed, NEW q \in Asked, Expand(q)
  PROVE  /\ question[q] \in QuestionRow /\ question[q].session \in DOMAIN session
         /\ question[q].status = "answered" /\ question[q].relation # "expansion"
         /\ session[question[q].session].is_private /\ ~session[question[q].session].closed
         /\ task.pc = "idle" /\ Last < MaxQuestions
         /\ task' \in Task /\ task'.pc = "answer" /\ task'.private = TRUE
         /\ task'.session = question[q].session /\ task'.summary = question[q].context
         /\ task'.began = closings /\ UNCHANGED <<session, facts, cache, closings, commands>>
         /\ \E r \in QuestionRow :
               /\ Added(r) /\ r.session = question[q].session /\ r.status = "processing"
               /\ r.relation = "expansion" /\ r.source = q /\ r.root = question[q].root
               /\ r.context = question[q].context \union {q} /\ r.summary = {}
               /\ r.began = closings /\ r.created = closings
<1>1. TypeOK /\ RowsPlace
  BY DEF Placed
<1>2. /\ question[q].status = "answered" /\ question[q].relation # "expansion"
      /\ session[question[q].session].is_private /\ ~session[question[q].session].closed
      /\ task.pc = "idle" /\ Last < MaxQuestions
      /\ task' = [Idle EXCEPT !.pc = "answer", !.private = TRUE, !.session = question[q].session,
                              !.summary = question[q].context, !.facts = facts,
                              !.began = closings]
      /\ UNCHANGED <<session, facts, cache, closings, commands>>
  BY DEF Expand
<1> DEFINE n == NewQuestion(question[q].session, closings)
           c == question[q].context \union {q}
           r == [n EXCEPT !.status = "processing", !.relation = "expansion", !.source = q,
                          !.root = question[q].root, !.context = c,
                          !.personal = question[q].personal]
<1>3. question' = Append(question, r)
  BY DEF Expand
<1>4. question[q] \in QuestionRow /\ question[q].session \in DOMAIN session
  BY <1>1, Sizes DEF RowsPlace
<1>5. /\ question[q].session \in 1 .. MaxSessions /\ question[q].session \in 0 .. MaxSessions
      /\ question[q].context \in SUBSET (1 .. MaxQuestions)
      /\ question[q].root \in 0 .. MaxQuestions /\ question[q].personal \in BOOLEAN
      /\ q \in 0 .. MaxQuestions /\ q \in 1 .. MaxQuestions
      /\ closings \in 0 .. MaxCommands /\ facts \in BOOLEAN
  <2>1. /\ question[q].session \in 1 .. MaxSessions /\ question[q].root \in 0 .. MaxQuestions
        /\ question[q].context \in SUBSET (1 .. MaxQuestions) /\ question[q].personal \in BOOLEAN
    BY <1>4 DEF QuestionRow
  <2>2. q \in 1 .. MaxQuestions /\ closings \in 0 .. MaxCommands
    BY <1>1, Sizes
  <2>3. question[q].session \in 0 .. MaxSessions /\ q \in 0 .. MaxQuestions
    BY <2>1, <2>2, BoundsAssumption
  <2> QED
    BY <1>1, <2>1, <2>2, <2>3 DEF TypeOK
<1>6. c \in SUBSET (1 .. MaxQuestions)
  BY <1>5
<1>7. n \in QuestionRow
  BY <1>5, BoundsAssumption DEF NewQuestion, QuestionRow
<1>8. /\ n.session = question[q].session /\ n.summary = {} /\ n.began = closings
      /\ n.created = closings
  BY DEF NewQuestion
<1> HIDE DEF n, c
<1>9. r \in QuestionRow
  BY <1>5, <1>6, <1>7, ExpandRow, Zenon
<1>10. /\ r.session = n.session /\ r.status = "processing"
       /\ r.relation = "expansion" /\ r.source = q /\ r.root = question[q].root
       /\ r.context = c /\ r.summary = n.summary
       /\ r.began = n.began /\ r.created = n.created
  BY <1>7 DEF QuestionRow
<1> HIDE DEF r
<1>11. Added(r)
  BY <1>1, <1>3, <1>9, Add
<1>12. task' \in Task
  BY <1>2, <1>5, ExpandTask, Zenon
<1>13. /\ task'.pc = "answer" /\ task'.private = TRUE
       /\ task'.session = question[q].session /\ task'.summary = question[q].context
       /\ task'.began = closings
  BY <1>2 DEF Idle
<1> QED
  BY <1>2, <1>4, <1>8, <1>9, <1>10, <1>11, <1>12, <1>13 DEF c

LEMMA ExpandPlace ==
  ASSUME Placed, NEW q \in Asked, Expand(q)
  PROVE  Placed'
<1>1. TypeOK /\ PlaceInv /\ RowsPlace
  BY DEF Placed
<1>2. PICK r \in QuestionRow :
         /\ Added(r) /\ r.session = question[q].session /\ r.status = "processing"
         /\ r.began = closings /\ r.created = closings
  BY ExpandFacts
<1>3. /\ question[q].session \in DOMAIN session
      /\ session[question[q].session].is_private
      /\ task.pc = "idle" /\ Last < MaxQuestions
      /\ task' \in Task /\ task'.pc = "answer" /\ task'.private = TRUE
      /\ task'.session = question[q].session
      /\ task'.began = closings /\ UNCHANGED <<session, facts, cache, closings, commands>>
  BY ExpandFacts
<1>4. /\ Ticks /\ SessionsStay /\ Len(session') <= MaxSessions /\ cache' \subseteq Asked
      /\ closings \in Nat /\ Last \in Nat /\ Last' = Last + 1 /\ question'[Last + 1] = r
  BY <1>1, <1>2, <1>3, SameTicks, SessionsKept, Sizes DEF TypeOK, Added
<1>5. TypeOK' /\ RowsPlace'
  <2>1. task.pc # "answer" /\ r.session \in DOMAIN session' /\ r.created <= closings'
    BY <1>2, <1>3, <1>4
  <2> QED
    BY <1>1, <1>2, <1>3, <1>4, <2>1, AddedPlace
<1>6. session[question[q].session].is_private = TRUE
  BY <1>1, <1>3, Sizes DEF SessionRow
<1>7. question[q].session > 0 /\ question[q].session \in 0 .. Len(session) /\ Last + 1 > 0
  BY <1>1, <1>3, <1>4, Sizes
<1>8. PlaceInv'
  <2>1. task'.private = session'[task'.session].is_private
    BY <1>3, <1>6
  <2>2. question'[Last'].session = task'.session /\ question'[Last'].began = task'.began
        /\ question'[Last'].status = "processing" /\ Last' > 0
    BY <1>2, <1>3, <1>4, <1>7
  <2>3. task'.session \in 0 .. Len(session') /\ task'.began <= closings' /\ task'.session > 0
    BY <1>3, <1>4, <1>7
  <2> QED
    BY <1>3, <2>1, <2>2, <2>3 DEF PlaceInv, Busy
<1> QED
  BY <1>5, <1>8 DEF Placed

LEMMA InitPlaced ==
  ASSUME Init
  PROVE  Placed
<1>1. Last = 0 /\ Asked = {} /\ Len(session) = 0
  BY DEF Init, Last, Asked
<1>2. task = Idle /\ task \in Task /\ task.pc = "idle" /\ commands = 0 /\ closings = 0
      /\ session = << >> /\ question = << >> /\ cache = {} /\ facts = FALSE
  BY IdleType DEF Init
<1>3. TypeOK
  <2>1. session \in Seq(SessionRow) /\ question \in Seq(QuestionRow) /\ facts \in BOOLEAN
        /\ cache \subseteq Asked
    <3>1. << >> \in Seq(SessionRow) /\ << >> \in Seq(QuestionRow)
      OBVIOUS
    <3> QED
      BY <1>2, <3>1
  <2>2. Len(session) <= MaxSessions /\ Len(question) <= MaxQuestions
        /\ commands \in 0 .. MaxCommands /\ closings \in 0 .. commands
    BY <1>1, <1>2, BoundsAssumption DEF Last
  <2> QED
    BY <1>2, <2>1, <2>2 DEF TypeOK
<1>4. PlaceInv /\ RowsPlace
  BY <1>1, <1>2 DEF PlaceInv, RowsPlace, Busy
<1> QED
  BY <1>3, <1>4 DEF Placed

LEMMA StutterPlaced ==
  ASSUME Placed, UNCHANGED vars
  PROVE  Placed'
<1>1. TypeOK
  BY DEF Placed
<1>2. Ticks /\ SessionsStay /\ Len(session') <= MaxSessions /\ Len(session') = Len(session)
  BY <1>1, SameTicks, SessionsKept, Sizes DEF vars
<1> QED
  BY <1>2, CommandPlace DEF vars

LEMMA StepPlaced ==
  ASSUME Placed, [Next]_vars
  PROVE  Placed'
<1>1. CASE UNCHANGED vars
  BY <1>1, StutterPlaced
<1>2. ASSUME NEW private \in BOOLEAN, NEW s \in 0 .. MaxSessions, Ask(private, s)
      PROVE  Placed'
  BY <1>2, AskPlace
<1>3. ASSUME NEW s \in DOMAIN session, Refuse(s) PROVE Placed'
  BY <1>3, RefusePlace
<1>4. CASE Accept
  BY <1>4, AcceptPlace
<1>5. CASE Relate
  BY <1>5, RelatePlace
<1>6. CASE Admit
  BY <1>6, AdmitPlace
<1>7. CASE Reject
  BY <1>7, RejectPlace
<1>8. CASE CannotPay
  BY <1>8, CannotPayPlace
<1>9. ASSUME NEW status \in {"answered", "truncated"}, Answer(status) PROVE Placed'
  BY <1>9, AnswerPlace
<1>10. CASE ServeCached
  BY <1>10, ServePlace
<1>11. CASE Fail
  BY <1>11, FailPlace
<1>12. ASSUME NEW q \in Asked, Expand(q) PROVE Placed'
  BY <1>12, ExpandPlace
<1>13. CASE Remember
  BY <1>13, RememberPlace
<1>14. ASSUME NEW forget \in BOOLEAN, Close(forget) PROVE Placed'
  BY <1>14, ClosePlace
<1>15. ASSUME NEW s \in DOMAIN session, NEW blocked \in BOOLEAN, SetBlocked(s, blocked)
       PROVE  Placed'
  BY <1>15, SetBlockedPlace
<1> QED
  BY <1>1, <1>2, <1>3, <1>4, <1>5, <1>6, <1>7, <1>8, <1>9, <1>10, <1>11, <1>12, <1>13, <1>14,
     <1>15 DEF Next

\* The question under way is the last one, and the handler knows its session.
LEMMA PlacedHandler ==
  ASSUME Placed
  PROVE  TypeOK /\ TaskInv
<1>1. TypeOK /\ PlaceInv /\ RowsPlace
  BY DEF Placed
<1>2. ASSUME task.pc \in {"relate", "admit", "answer"}
      PROVE  Last > 0 /\ question[Last].session = task.session
             /\ task.session \in DOMAIN session
  BY <1>2, BusyFacts DEF Busy
<1> QED
  BY <1>1, <1>2 DEF TaskInv, RowsPlace

-----------------------------------------------------------------------------
(* What no step does to a closed session.                                  *)

LEMMA StepStays ==
  ASSUME Placed, Next
  PROVE  SessionsStay
<1>1. TypeOK
  BY DEF Placed
<1>2. ASSUME session' = session PROVE SessionsStay
  BY <1>1, <1>2, SessionsKept
<1>3. ASSUME NEW s \in DOMAIN session, Refuse(s) PROVE SessionsStay
  <2>1. PICK delta \in {1, 2} : session' = [session EXCEPT ![s] = Spoiled(@, delta)]
    BY <1>3 DEF Refuse
  <2>2. session[s] \in SessionRow /\ delta \in Nat
    BY <1>1, Sizes
  <2>3. /\ Spoiled(session[s], delta) \in SessionRow
        /\ Spoiled(session[s], delta).is_private = session[s].is_private
        /\ Spoiled(session[s], delta).closed = session[s].closed
        /\ Spoiled(session[s], delta).summary = session[s].summary
    BY <2>2, SpoiledType
  <2> QED
    BY <1>1, <2>1, <2>3, SessionWritten
<1>4. CASE Accept
  BY <1>4, HomeFacts
<1>5. CASE Relate
  BY <1>5, RelateFacts
<1>6. CASE Reject
  BY <1>6, RejectFacts
<1>7. ASSUME NEW status \in {"answered", "truncated"}, Answer(status) PROVE SessionsStay
  BY <1>7, AnswerFacts
<1>8. CASE ServeCached
  BY <1>8, ServeFacts
<1>9. ASSUME NEW forget \in BOOLEAN, Close(forget) PROVE SessionsStay
  BY <1>1, <1>9, ClosedFacts DEF Close
<1>10. ASSUME NEW s \in DOMAIN session, NEW blocked \in BOOLEAN, SetBlocked(s, blocked)
       PROVE  SessionsStay
  BY <1>1, <1>10, SetBlockedFacts
<1>11. ASSUME \/ \E private \in BOOLEAN, s \in 0 .. MaxSessions : Ask(private, s)
              \/ Admit \/ CannotPay \/ Fail \/ Remember
              \/ \E q \in Asked : Expand(q)
       PROVE  SessionsStay
  <2>1. session' = session
    BY <1>11 DEF Ask, Admit, CannotPay, Fail, Remember, Expand
  <2> QED
    BY <1>2, <2>1
<1> QED
  BY <1>3, <1>4, <1>5, <1>6, <1>7, <1>8, <1>9, <1>10, <1>11 DEF Next

-----------------------------------------------------------------------------
(* Topics without recursion, in any sequence Q of questions.               *)

Topical == {"standalone", "ambiguous", "related"}

\* The question that opened the topic of question q, of those in its session up to it.
OpeningOf(Q, q) ==
    Latest({p \in 1 .. q : Q[p].session = Q[q].session
                           /\ Q[p].relation \in {"standalone", "ambiguous"}})

SubjectOf(Q, q) ==
    IF Q[q].relation = "related" THEN OpeningOf(Q, q)
    ELSE IF Q[q].relation = "expansion" THEN OpeningOf(Q, Q[q].source) ELSE q

\* What holds of question q in Q, with the sessions S.
KnownRow(Q, S, q) ==
    /\ Q[q].relation = "none" => Q[q].status \notin {"answered", "truncated", "processing"}
    /\ Q[q].status = "answered" /\ S[Q[q].session].is_private => q \in Q[q].summary

RelatedRow(Q, q) ==
    Q[q].relation = "related" =>
        /\ Q[q].judged \in 1 .. q - 1 /\ Q[Q[q].judged].relation \in Topical
        /\ OpeningOf(Q, Q[q].judged) = OpeningOf(Q, q)
        /\ Q[q].context # {} => Q[q].judged \in Q[q].context

ExpansionRow(Q, q) ==
    Q[q].relation = "expansion" =>
        /\ Q[q].source \in 1 .. q - 1 /\ Q[Q[q].source].relation \in Topical
        /\ Q[q].root = Q[Q[q].source].root

RootRow(Q, q) ==
    Q[q].relation \in Topical => Q[q].root \in {q, OpeningOf(Q, q)} /\ OpeningOf(Q, q) # 0

ContextRow(Q, q) ==
    /\ Q[q].context \subseteq 1 .. q - 1
    /\ \A c \in Q[q].context : SubjectOf(Q, c) = SubjectOf(Q, q)

SummaryRow(Q, q) ==
    /\ Q[q].summary \subseteq 1 .. q
    /\ \A c \in Q[q].summary : SubjectOf(Q, c) = SubjectOf(Q, q)

PrivateRow(Q, S, q) ==
    S[Q[q].session].is_private =>
        /\ \A c \in Q[q].context \union Q[q].summary : Q[c].session = Q[q].session
        /\ \A c \in Q[q].context : Q[c].created >= Q[q].began

RowOK(Q, S, q) ==
    /\ KnownRow(Q, S, q) /\ RelatedRow(Q, q) /\ ExpansionRow(Q, q) /\ RootRow(Q, q)
    /\ ContextRow(Q, q) /\ SummaryRow(Q, q) /\ PrivateRow(Q, S, q)

RowsInv == \A q \in Asked : RowOK(question, session, q)

\* Openings and subjects depend on the questions before only.
LEMMA OpeningAgrees ==
  ASSUME NEW Q, NEW R, NEW n \in Nat, NEW q \in 1 .. n,
         \A p \in 1 .. n : R[p].session = Q[p].session /\ R[p].relation = Q[p].relation
  PROVE  OpeningOf(R, q) = OpeningOf(Q, q)
<1>1. \A p \in 1 .. q : p \in 1 .. n
  OBVIOUS
<1>2. {p \in 1 .. q : R[p].session = R[q].session
                      /\ R[p].relation \in {"standalone", "ambiguous"}}
      = {p \in 1 .. q : Q[p].session = Q[q].session
                        /\ Q[p].relation \in {"standalone", "ambiguous"}}
  BY <1>1
<1> QED
  BY <1>2 DEF OpeningOf

LEMMA SubjectAgrees ==
  ASSUME NEW Q, NEW R, NEW n \in Nat, NEW q \in 1 .. n,
         \A p \in 1 .. n : /\ R[p].session = Q[p].session /\ R[p].relation = Q[p].relation
                           /\ R[p].source = Q[p].source,
         Q[q].relation = "expansion" => Q[q].source \in 1 .. n
  PROVE  SubjectOf(R, q) = SubjectOf(Q, q)
<1>1. OpeningOf(R, q) = OpeningOf(Q, q)
  BY OpeningAgrees
<1>2. Q[q].relation = "expansion" => OpeningOf(R, Q[q].source) = OpeningOf(Q, Q[q].source)
  <2>1. ASSUME Q[q].relation = "expansion"
        PROVE  OpeningOf(R, Q[q].source) = OpeningOf(Q, Q[q].source)
    <3>1. PICK s \in 1 .. n : s = Q[q].source
      BY <2>1
    <3>2. OpeningOf(R, s) = OpeningOf(Q, s)
      BY OpeningAgrees
    <3> QED
      BY <3>1, <3>2
  <2> QED
    BY <2>1
<1>3. R[q].relation = Q[q].relation /\ R[q].source = Q[q].source
  OBVIOUS
<1> QED
  BY <1>1, <1>2, <1>3 DEF SubjectOf

LEMMA OpeningFacts ==
  ASSUME NEW Q, NEW q \in Nat
  PROVE  /\ OpeningOf(Q, q) \in 0 .. q
         /\ OpeningOf(Q, q) # 0 =>
               /\ OpeningOf(Q, q) \in 1 .. q
               /\ Q[OpeningOf(Q, q)].session = Q[q].session
               /\ Q[OpeningOf(Q, q)].relation \in {"standalone", "ambiguous"}
<1> DEFINE S == {p \in 1 .. q : Q[p].session = Q[q].session
                                /\ Q[p].relation \in {"standalone", "ambiguous"}}
<1>1. S \subseteq 1 .. q
  OBVIOUS
<1>2. \A p \in S : Q[p].session = Q[q].session /\ Q[p].relation \in {"standalone", "ambiguous"}
  OBVIOUS
<1>3. OpeningOf(Q, q) = Latest(S)
  BY DEF OpeningOf
<1> HIDE DEF S
<1>4. Latest(S) \in 0 .. q /\ (Latest(S) # 0 => Latest(S) \in S)
  BY <1>1, LatestFacts
<1> QED
  BY <1>1, <1>2, <1>3, <1>4

\* A question that opens a topic is its opening.
LEMMA OwnOpening ==
  ASSUME NEW Q, NEW q \in Nat \ {0}, Q[q].relation \in {"standalone", "ambiguous"}
  PROVE  OpeningOf(Q, q) = q /\ SubjectOf(Q, q) = q
<1> DEFINE S == {p \in 1 .. q : Q[p].session = Q[q].session
                                /\ Q[p].relation \in {"standalone", "ambiguous"}}
<1>1. S \subseteq 1 .. q /\ q \in S /\ (\A y \in S : y <= q)
  OBVIOUS
<1>2. OpeningOf(Q, q) = Latest(S)
  BY DEF OpeningOf
<1> HIDE DEF S
<1>3. Latest(S) = q
  BY <1>1, LatestIs
<1>4. Q[q].relation # "related" /\ Q[q].relation # "expansion"
  OBVIOUS
<1> QED
  BY <1>2, <1>3, <1>4 DEF SubjectOf

\* The topic of an answer that is not an expansion is its opening.
LEMMA TopicalSubject ==
  ASSUME NEW Q, NEW q \in Nat \ {0}, Q[q].relation \in Topical
  PROVE  SubjectOf(Q, q) = OpeningOf(Q, q)
<1>1. CASE Q[q].relation = "related"
  BY <1>1 DEF SubjectOf
<1>2. CASE Q[q].relation # "related"
  <2>1. Q[q].relation \in {"standalone", "ambiguous"}
    BY <1>2 DEF Topical
  <2> QED
    BY <2>1, OwnOpening
<1> QED
  BY <1>1, <1>2

\* What was true of a question stays true when later ones are written.
LEMMA OldRow ==
  ASSUME NEW Q, NEW R, NEW S, NEW T, NEW n \in Nat, NEW q \in 1 .. n,
         \A p \in 1 .. n : R[p] = Q[p],
         \A p \in 1 .. n : Q[p].relation = "expansion" => Q[p].source \in 1 .. n,
         T[Q[q].session].is_private = S[Q[q].session].is_private,
         RowOK(Q, S, q)
  PROVE  RowOK(R, T, q)
<1>1. R[q] = Q[q] /\ q \in Nat
  OBVIOUS
<1>2. \A p \in 1 .. n : OpeningOf(R, p) = OpeningOf(Q, p)
  <2> TAKE p \in 1 .. n
  <2> QED
    BY OpeningAgrees
<1>3. \A p \in 1 .. n : SubjectOf(R, p) = SubjectOf(Q, p)
  <2> TAKE p \in 1 .. n
  <2> QED
    BY SubjectAgrees
<1>4. \A p \in 1 .. q - 1 : p \in 1 .. n
  OBVIOUS
<1>5. \A p \in 1 .. q : p \in 1 .. n
  OBVIOUS
<1>6. KnownRow(R, T, q)
  BY <1>1 DEF RowOK, KnownRow
<1>7. RelatedRow(R, q)
  BY <1>1, <1>2, <1>4 DEF RowOK, RelatedRow
<1>8. ExpansionRow(R, q)
  BY <1>1, <1>4 DEF RowOK, ExpansionRow
<1>9. RootRow(R, q)
  BY <1>1, <1>2 DEF RowOK, RootRow
<1>10. ContextRow(R, q)
  <2>1. Q[q].context \subseteq 1 .. q - 1
        /\ \A c \in Q[q].context : SubjectOf(Q, c) = SubjectOf(Q, q)
    BY DEF RowOK, ContextRow
  <2> QED
    BY <1>1, <1>3, <1>4, <2>1 DEF ContextRow
<1>11. SummaryRow(R, q)
  <2>1. Q[q].summary \subseteq 1 .. q
        /\ \A c \in Q[q].summary : SubjectOf(Q, c) = SubjectOf(Q, q)
    BY DEF RowOK, SummaryRow
  <2> QED
    BY <1>1, <1>3, <1>5, <2>1 DEF SummaryRow
<1>12. PrivateRow(R, T, q)
  <2>1. \A c \in Q[q].context \union Q[q].summary : R[c] = Q[c]
    <3>1. Q[q].context \subseteq 1 .. q - 1 /\ Q[q].summary \subseteq 1 .. q
      BY DEF RowOK, ContextRow, SummaryRow
    <3> QED
      BY <1>4, <1>5, <3>1
  <2> QED
    BY <1>1, <2>1 DEF RowOK, PrivateRow
<1> QED
  BY <1>6, <1>7, <1>8, <1>9, <1>10, <1>11, <1>12 DEF RowOK

\* A question without an answer refers to nothing.
LEMMA FreshRow ==
  ASSUME NEW Q, NEW S, NEW q, Q[q].relation = "none",
         Q[q].status \in {"pending", "rejected", "failed"},
         Q[q].context = {}, Q[q].summary = {}
  PROVE  RowOK(Q, S, q)
<1>1. KnownRow(Q, S, q)
  BY DEF KnownRow
<1>2. RelatedRow(Q, q) /\ ExpansionRow(Q, q) /\ RootRow(Q, q)
  BY DEF RelatedRow, ExpansionRow, RootRow, Topical
<1>3. ContextRow(Q, q) /\ SummaryRow(Q, q) /\ PrivateRow(Q, S, q)
  BY DEF ContextRow, SummaryRow, PrivateRow
<1> QED
  BY <1>1, <1>2, <1>3 DEF RowOK

\* A status and a summary are written.
LEMMA ChangedRow ==
  ASSUME NEW Q, NEW R, NEW S, NEW T, NEW q \in Nat \ {0},
         RowOK(Q, S, q),
         \A p \in 1 .. q - 1 : R[p] = Q[p],
         \A p \in 1 .. q - 1 : Q[p].relation = "expansion" => Q[p].source \in 1 .. p - 1,
         R[q].session = Q[q].session, R[q].relation = Q[q].relation,
         R[q].context = Q[q].context, R[q].root = Q[q].root, R[q].judged = Q[q].judged,
         R[q].source = Q[q].source, R[q].began = Q[q].began, R[q].created = Q[q].created,
         T[Q[q].session].is_private = S[Q[q].session].is_private,
         KnownRow(R, T, q),
         R[q].summary \subseteq 1 .. q,
         \A c \in R[q].summary : SubjectOf(Q, c) = SubjectOf(Q, q),
         S[Q[q].session].is_private => \A c \in R[q].summary : Q[c].session = Q[q].session
  PROVE  RowOK(R, T, q)
<1>1. \A p \in 1 .. q : /\ R[p].session = Q[p].session /\ R[p].relation = Q[p].relation
                        /\ R[p].source = Q[p].source /\ R[p].created = Q[p].created
                        /\ R[p].root = Q[p].root
  <2> TAKE p \in 1 .. q
  <2>1. p = q \/ p \in 1 .. q - 1
    OBVIOUS
  <2> QED
    BY <2>1
<1>2. q \in 1 .. q /\ q \in Nat /\ \A p \in 1 .. q - 1 : p \in 1 .. q
  OBVIOUS
<1>3. \A p \in 1 .. q : OpeningOf(R, p) = OpeningOf(Q, p)
  <2> TAKE p \in 1 .. q
  <2> QED
    BY <1>1, <1>2, OpeningAgrees
<1>4. \A p \in 1 .. q : SubjectOf(R, p) = SubjectOf(Q, p)
  <2> TAKE p \in 1 .. q
  <2>1. Q[p].relation = "expansion" => Q[p].source \in 1 .. q
    <3>1. CASE p = q
      BY <1>2, <3>1 DEF RowOK, ExpansionRow
    <3>2. CASE p # q
      <4>1. p \in 1 .. q - 1 /\ \A s \in 1 .. p - 1 : s \in 1 .. q
        BY <3>2
      <4> QED
        BY <4>1
    <3> QED
      BY <3>1, <3>2
  <2> QED
    BY <1>1, <1>2, <2>1, SubjectAgrees
<1>5. RelatedRow(R, q)
  BY <1>1, <1>2, <1>3 DEF RowOK, RelatedRow
<1>6. ExpansionRow(R, q)
  BY <1>1, <1>2 DEF RowOK, ExpansionRow
<1>7. RootRow(R, q)
  BY <1>2, <1>3 DEF RowOK, RootRow
<1>8. ContextRow(R, q)
  <2>1. Q[q].context \subseteq 1 .. q - 1
        /\ \A c \in Q[q].context : SubjectOf(Q, c) = SubjectOf(Q, q)
    BY DEF RowOK, ContextRow
  <2> QED
    BY <1>2, <1>4, <2>1 DEF ContextRow
<1>9. SummaryRow(R, q)
  BY <1>2, <1>4 DEF SummaryRow
<1>10. PrivateRow(R, T, q)
  <2>1. ASSUME S[Q[q].session].is_private
        PROVE  /\ \A c \in R[q].context \union R[q].summary : R[c].session = R[q].session
               /\ \A c \in R[q].context : R[c].created >= R[q].began
    <3>1. /\ \A c \in Q[q].context : Q[c].session = Q[q].session /\ Q[c].created >= Q[q].began
          /\ \A c \in R[q].summary : Q[c].session = Q[q].session
      BY <2>1 DEF RowOK, PrivateRow
    <3>2. \A c \in R[q].context \union R[q].summary : c \in 1 .. q
      BY <1>2 DEF RowOK, ContextRow
    <3> QED
      BY <1>1, <3>1, <3>2
  <2> QED
    BY <2>1 DEF PrivateRow
<1> QED
  BY <1>5, <1>6, <1>7, <1>8, <1>9, <1>10 DEF RowOK

\* References go back.
LEMMA Sources ==
  ASSUME TypeOK, RowsInv
  PROVE  \A p \in 1 .. Last : question[p].relation = "expansion" => question[p].source \in 1 .. p - 1
BY Sizes DEF RowsInv, RowOK, ExpansionRow

LEMMA SourcesWithin ==
  ASSUME TypeOK, RowsInv, NEW n \in 0 .. Last
  PROVE  \A p \in 1 .. n : question[p].relation = "expansion" => question[p].source \in 1 .. n
<1> TAKE p \in 1 .. n
<1>1. p \in 1 .. Last /\ \A s \in 1 .. p - 1 : s \in 1 .. n
  BY Sizes
<1> QED
  BY <1>1, Sources

\* What is left to show of a step.
LEMMA RowsWritten ==
  ASSUME Placed, RowsInv, Last > 0, NEW r, Written(r), SessionsStay,
         RowOK(question', session', Last)
  PROVE  RowsInv'
<1>1. TypeOK /\ RowsPlace
  BY DEF Placed
<1>2. ASSUME NEW q \in Asked' PROVE RowOK(question', session', q)
  <2>1. q \in 1 .. Last /\ Last \in Nat /\ Asked = 1 .. Last
    BY <1>1, <1>2, Sizes DEF Written
  <2>2. CASE q = Last
    BY <2>2
  <2>3. CASE q # Last
    <3> DEFINE n == Last - 1
    <3>1. n \in Nat /\ q \in 1 .. n /\ n \in 0 .. Last
      BY <2>1, <2>3
    <3>2. \A p \in 1 .. n : question'[p] = question[p]
      BY DEF Written
    <3>3. \A p \in 1 .. n : question[p].relation = "expansion" => question[p].source \in 1 .. n
      BY <1>1, <3>1, SourcesWithin
    <3>4. question[q].session \in DOMAIN session
      BY <1>1, <2>1 DEF RowsPlace
    <3>5. session'[question[q].session].is_private = session[question[q].session].is_private
      BY <3>4 DEF SessionsStay
    <3>6. RowOK(question, session, q)
      BY <2>1 DEF RowsInv
    <3> HIDE DEF n
    <3> QED
      BY <3>1, <3>2, <3>3, <3>5, <3>6, OldRow
  <2> QED
    BY <2>2, <2>3
<1> QED
  BY <1>2 DEF RowsInv

LEMMA RowsAdded ==
  ASSUME Placed, RowsInv, NEW r, Added(r), SessionsStay,
         RowOK(question', session', Last + 1)
  PROVE  RowsInv'
<1>1. TypeOK /\ RowsPlace
  BY DEF Placed
<1>2. ASSUME NEW q \in Asked' PROVE RowOK(question', session', q)
  <2>1. q \in 1 .. Last + 1 /\ Last \in Nat /\ Asked = 1 .. Last
    BY <1>1, <1>2, Sizes DEF Added
  <2>2. CASE q = Last + 1
    BY <2>2
  <2>3. CASE q # Last + 1
    <3>1. q \in 1 .. Last /\ Last \in 0 .. Last
      BY <2>1, <2>3
    <3>2. \A p \in 1 .. Last : question'[p] = question[p]
      BY DEF Added
    <3>3. \A p \in 1 .. Last : question[p].relation = "expansion" =>
                                  question[p].source \in 1 .. Last
      BY <1>1, <3>1, SourcesWithin
    <3>4. question[q].session \in DOMAIN session
      BY <1>1, <2>1, <3>1 DEF RowsPlace
    <3>5. session'[question[q].session].is_private = session[question[q].session].is_private
      BY <3>4 DEF SessionsStay
    <3>6. RowOK(question, session, q)
      BY <2>1, <3>1 DEF RowsInv
    <3> QED
      BY <2>1, <3>1, <3>2, <3>3, <3>5, <3>6, OldRow
  <2> QED
    BY <2>2, <2>3
<1> QED
  BY <1>2 DEF RowsInv

LEMMA RowsSame ==
  ASSUME Placed, RowsInv, question' = question, SessionsStay
  PROVE  RowsInv'
<1>1. TypeOK /\ RowsPlace /\ Asked = 1 .. Last /\ Last \in Nat /\ Last \in 0 .. Last
  BY Sizes DEF Placed
<1>2. Asked' = Asked
  BY DEF Asked
<1>3. ASSUME NEW q \in Asked PROVE RowOK(question', session', q)
  <2>1. \A p \in 1 .. Last : question[p].relation = "expansion" =>
                                question[p].source \in 1 .. Last
    BY <1>1, SourcesWithin
  <2>2. question[q].session \in DOMAIN session
    BY <1>1, <1>3 DEF RowsPlace
  <2>3. session'[question[q].session].is_private = session[question[q].session].is_private
    BY <2>2 DEF SessionsStay
  <2>4. RowOK(question, session, q) /\ q \in 1 .. Last
    BY <1>1, <1>3 DEF RowsInv
  <2>5. \A p \in 1 .. Last : question'[p] = question[p]
    OBVIOUS
  <2> QED
    BY <1>1, <2>1, <2>3, <2>4, <2>5, OldRow
<1> QED
  BY <1>2, <1>3 DEF RowsInv

-----------------------------------------------------------------------------
(* The topic under way in a session.                                       *)

LEMMA BoundaryFacts ==
  ASSUME TypeOK, NEW s
  PROVE  /\ Boundary(s) \in 0 .. Last
         /\ Boundary(s) # 0 => /\ Boundary(s) \in In(s) /\ Boundary(s) \in 1 .. Last
                               /\ question[Boundary(s)].relation \in {"standalone", "ambiguous"}
         /\ \A q \in In(s) : question[q].relation \in {"standalone", "ambiguous"} =>
                                q <= Boundary(s) /\ Boundary(s) # 0
<1> DEFINE S == {q \in In(s) : question[q].relation \in {"standalone", "ambiguous"}}
<1>1. S \subseteq 1 .. Last /\ Last \in Nat
  BY InFacts
<1>2. /\ \A q \in S : q \in In(s) /\ question[q].relation \in {"standalone", "ambiguous"}
      /\ \A q \in In(s) : question[q].relation \in {"standalone", "ambiguous"} => q \in S
  OBVIOUS
<1>3. Boundary(s) = Latest(S)
  BY DEF Boundary
<1> HIDE DEF S
<1>4. /\ Latest(S) \in 0 .. Last
      /\ (S # {} => Latest(S) \in S /\ Latest(S) > 0) /\ (S = {} => Latest(S) = 0)
      /\ \A x \in S : x <= Latest(S)
  BY <1>1, LatestFacts
<1>5. ASSUME NEW q \in S PROVE q <= Latest(S) /\ Latest(S) # 0
  BY <1>4, <1>5
<1>6. Latest(S) # 0 => Latest(S) \in S
  BY <1>4
<1> QED
  BY <1>1, <1>2, <1>3, <1>4, <1>5, <1>6

\* From the boundary on, every question of the session has the same opening.
LEMMA OpeningSince ==
  ASSUME TypeOK, NEW s, Boundary(s) # 0, NEW q \in In(s), q >= Boundary(s)
  PROVE  OpeningOf(question, q) = Boundary(s)
<1> DEFINE b == Boundary(s)
           S == {p \in 1 .. q : question[p].session = question[q].session
                                /\ question[p].relation \in {"standalone", "ambiguous"}}
<1>1. /\ b \in In(s) /\ b \in 1 .. Last /\ Last \in Nat
      /\ question[b].relation \in {"standalone", "ambiguous"}
      /\ \A p \in In(s) : question[p].relation \in {"standalone", "ambiguous"} => p <= b
  BY BoundaryFacts, InFacts
<1>2. q \in 1 .. Last /\ question[q].session = s /\ question[b].session = s
  BY <1>1, InFacts DEF In
<1>3. S \subseteq In(s)
  BY <1>1, <1>2, Sizes DEF In
<1>4. S \subseteq 1 .. q /\ q \in Nat /\ b \in 1 .. q
  BY <1>1, <1>2
<1>5. b \in S /\ \A p \in S : p <= b
  BY <1>1, <1>2, <1>3, <1>4
<1>6. OpeningOf(question, q) = Latest(S)
  BY DEF OpeningOf
<1> HIDE DEF b, S
<1>7. Latest(S) = b
  BY <1>4, <1>5, LatestIs
<1> QED
  BY <1>6, <1>7 DEF b

\* The answers that the repository returns are about the topic under way.
LEMMA AnsweredSubject ==
  ASSUME TypeOK, RowsInv, NEW s, Boundary(s) # 0, NEW q \in AnsweredIn(s)
  PROVE  SubjectOf(question, q) = Boundary(s)
<1>1. /\ q \in In(s) /\ q \in Asked /\ q \in 1 .. Last /\ Last \in Nat /\ q \in Nat \ {0}
      /\ question[q].status = "answered" /\ q >= Boundary(s)
      /\ question[q].relation = "expansion" => question[q].root = Boundary(s)
  BY InFacts, Sizes DEF AnsweredIn, Scope, In
<1>2. RowOK(question, session, q) /\ question[q] \in QuestionRow
  BY <1>1, Sizes DEF RowsInv
<1>3. question[q].relation \in Topical \union {"expansion"}
  BY <1>1, <1>2 DEF RowOK, KnownRow, QuestionRow, Topical
<1>4. CASE question[q].relation \in Topical
  BY <1>1, <1>4, OpeningSince, TopicalSubject
<1>5. CASE question[q].relation = "expansion"
  <2>1. PICK p \in 1 .. q - 1 : /\ p = question[q].source /\ question[p].relation \in Topical
                                /\ question[p].root = Boundary(s)
    BY <1>1, <1>2, <1>5 DEF RowOK, ExpansionRow
  <2>2. p \in Asked /\ p \in Nat \ {0}
    BY <1>1, <2>1, Sizes
  <2>3. question[p].root \in {p, OpeningOf(question, p)}
    BY <2>1, <2>2 DEF RowsInv, RowOK, RootRow
  <2>4. CASE question[p].root = OpeningOf(question, p)
    BY <1>5, <2>1, <2>4 DEF SubjectOf
  <2>5. CASE question[p].root = p
    <3>1. p = Boundary(s) /\ question[p].relation \in {"standalone", "ambiguous"}
      BY <2>1, <2>5, BoundaryFacts
    <3>2. OpeningOf(question, p) = p
      BY <2>2, <3>1, OwnOpening
    <3> QED
      BY <1>5, <2>1, <3>1, <3>2 DEF SubjectOf
  <2> QED
    BY <2>3, <2>4, <2>5
<1> QED
  BY <1>3, <1>4, <1>5

LEMMA PreviousTopic ==
  ASSUME TypeOK, RowsInv, NEW s, Previous(s) # 0
  PROVE  /\ Boundary(s) # 0 /\ question[Previous(s)].relation \in Topical
         /\ OpeningOf(question, Previous(s)) = Boundary(s)
         /\ SubjectOf(question, Previous(s)) = Boundary(s)
         /\ Previous(s) \in AnsweredIn(s) /\ Previous(s) \in Asked
<1> DEFINE q == Previous(s)
<1>1. q \in AnsweredIn(s) /\ question[q].relation # "expansion"
  BY PreviousFacts
<1> HIDE DEF q
<1>2. /\ q \in In(s) /\ q \in Asked /\ q \in 1 .. Last /\ Last \in Nat /\ q \in Nat \ {0}
      /\ question[q].status = "answered" /\ question[q].session = s
  BY <1>1, InFacts, Sizes DEF AnsweredIn, Scope, In
<1>3. RowOK(question, session, q) /\ question[q] \in QuestionRow
  BY <1>2, Sizes DEF RowsInv
<1>4. question[q].relation \in Topical
  BY <1>1, <1>2, <1>3 DEF RowOK, KnownRow, QuestionRow, Topical
<1>5. OpeningOf(question, q) # 0
  BY <1>3, <1>4 DEF RowOK, RootRow
<1>6. Boundary(s) # 0
  <2>1. PICK p \in 1 .. q : /\ question[p].session = s
                            /\ question[p].relation \in {"standalone", "ambiguous"}
    BY <1>2, <1>5, OpeningFacts
  <2>2. p \in In(s)
    BY <1>2, <2>1, Sizes DEF In
  <2> QED
    BY <2>1, <2>2, BoundaryFacts
<1>7. SubjectOf(question, q) = Boundary(s)
  BY <1>1, <1>6, AnsweredSubject
<1>8. OpeningOf(question, q) = Boundary(s)
  BY <1>2, <1>4, <1>7, TopicalSubject
<1> QED
  BY <1>1, <1>2, <1>4, <1>6, <1>7, <1>8 DEF q

-----------------------------------------------------------------------------
(* The row that each action writes.                                        *)

\* What the handler takes from the conversation to the answer.
CarryInv ==
    task.pc = "answer" =>
        \A c \in task.summary :
            /\ c \in 1 .. Last - 1
            /\ SubjectOf(question, c) = SubjectOf(question, Last)
            /\ task.private => question[c].session = task.session

\* What is in the session of a question was asked after it began.
BeganInv ==
    task.pc # "idle" /\ task.private /\ task.session # 0 =>
        \A q \in Asked : question[q].session = task.session => question[q].created >= task.began

LEMMA AcceptRows ==
  ASSUME Placed, RowsInv, Accept
  PROVE  RowsInv'
<1> DEFINE r == NewQuestion(Home, task.began)
<1>1. Added(r) /\ SessionsStay
  BY AcceptFacts, HomeFacts
<1>2. r.relation = "none" /\ r.status = "pending" /\ r.context = {} /\ r.summary = {}
  BY DEF NewQuestion
<1> HIDE DEF r
<1>3. question'[Last + 1] = r
  BY <1>1 DEF Added
<1>4. RowOK(question', session', Last + 1)
  BY <1>2, <1>3, FreshRow
<1> QED
  BY <1>1, <1>4, RowsAdded

LEMMA RelateRows ==
  ASSUME Placed, RowsInv, Relate
  PROVE  RowsInv'
<1>1. PICK home \in 1 .. MaxSessions, r \in QuestionRow :
        SessionsStay /\ Written(r) /\ r = [question[Last] EXCEPT !.session = home]
  BY RelateFacts
<1>2. /\ Last > 0 /\ question[Last].status = "pending" /\ question[Last].relation = "none"
      /\ question[Last].context = {} /\ question[Last].summary = {}
      /\ question[Last] \in QuestionRow
  BY BusyFacts DEF Relate, Placed, PlaceInv, Busy
<1>3. r.relation = "none" /\ r.status = "pending" /\ r.context = {} /\ r.summary = {}
  BY <1>1, <1>2 DEF QuestionRow
<1>4. question'[Last] = r
  BY <1>1 DEF Written
<1>5. RowOK(question', session', Last)
  BY <1>3, <1>4, FreshRow
<1> QED
  BY <1>1, <1>2, <1>5, RowsWritten

LEMMA RejectRows ==
  ASSUME Placed, RowsInv, Reject
  PROVE  RowsInv'
<1>1. PICK r \in QuestionRow :
         /\ r = [question[Last] EXCEPT !.status = "rejected"] /\ Written(r)
         /\ SessionsStay /\ Busy /\ task.pc = "admit"
  BY RejectFacts
<1>2. /\ Last > 0 /\ question[Last].relation = "none"
      /\ question[Last].context = {} /\ question[Last].summary = {}
      /\ question[Last] \in QuestionRow
  BY <1>1, BusyFacts DEF Placed, PlaceInv
<1>3. r.relation = "none" /\ r.status = "rejected" /\ r.context = {} /\ r.summary = {}
  BY <1>1, <1>2 DEF QuestionRow
<1>4. question'[Last] = r
  BY <1>1 DEF Written
<1>5. RowOK(question', session', Last)
  BY <1>3, <1>4, FreshRow
<1> QED
  BY <1>1, <1>2, <1>5, RowsWritten

\* What a written row leaves below it.
LEMMA Below ==
  ASSUME Placed, RowsInv, Busy, NEW r, Written(r), SessionsStay
  PROVE  /\ Last \in Nat \ {0} /\ Last \in Asked /\ RowOK(question, session, Last)
         /\ question'[Last] = r /\ question[Last] \in QuestionRow
         /\ \A p \in 1 .. Last - 1 : question'[p] = question[p]
         /\ \A p \in 1 .. Last - 1 :
               question[p].relation = "expansion" => question[p].source \in 1 .. p - 1
         /\ question[Last].session = task.session /\ task.session \in DOMAIN session
         /\ session[task.session].is_private = task.private /\ task.private \in BOOLEAN
         /\ session'[question[Last].session].is_private
               = session[question[Last].session].is_private
<1>1. TypeOK /\ Last > 0 /\ Last \in Asked /\ Last \in Nat /\ question[Last] \in QuestionRow
      /\ question[Last].session = task.session /\ task.session \in DOMAIN session
      /\ session[task.session].is_private = task.private /\ task.private \in BOOLEAN
  BY BusyFacts DEF Placed
<1>2. \A p \in 1 .. Last - 1 :
               question[p].relation = "expansion" => question[p].source \in 1 .. p - 1
  <2>1. \A p \in 1 .. Last - 1 : p \in 1 .. Last
    BY <1>1
  <2> QED
    BY <1>1, <2>1, Sources
<1> QED
  BY <1>1, <1>2 DEF Written, SessionsStay, RowsInv

LEMMA FailRows ==
  ASSUME Placed, RowsInv, Fail
  PROVE  RowsInv'
<1>1. PICK r \in QuestionRow :
         /\ r = [question[Last] EXCEPT !.status = "failed"] /\ Written(r) /\ Busy
         /\ session' = session
  BY FailFacts
<1>2. SessionsStay
  BY <1>1, SessionsKept DEF Placed
<1>3. /\ Last \in Nat \ {0} /\ RowOK(question, session, Last)
      /\ question'[Last] = r /\ question[Last] \in QuestionRow
      /\ \A p \in 1 .. Last - 1 : question'[p] = question[p]
      /\ \A p \in 1 .. Last - 1 :
               question[p].relation = "expansion" => question[p].source \in 1 .. p - 1
  BY <1>1, <1>2, Below
<1>4. /\ r.session = question[Last].session /\ r.relation = question[Last].relation
      /\ r.context = question[Last].context /\ r.root = question[Last].root
      /\ r.judged = question[Last].judged /\ r.source = question[Last].source
      /\ r.began = question[Last].began /\ r.created = question[Last].created
      /\ r.summary = question[Last].summary /\ r.status = "failed"
  BY <1>1, <1>3 DEF QuestionRow
<1>5. /\ r.summary \subseteq 1 .. Last
      /\ \A c \in r.summary : SubjectOf(question, c) = SubjectOf(question, Last)
      /\ session[question[Last].session].is_private =>
            \A c \in r.summary : question[c].session = question[Last].session
  BY <1>3, <1>4 DEF RowOK, SummaryRow, PrivateRow
<1>6. KnownRow(question', session', Last)
  BY <1>3, <1>4 DEF KnownRow
<1>7. RowOK(question', session', Last)
  BY <1>1, <1>3, <1>4, <1>5, <1>6, ChangedRow
<1>8. Last > 0
  BY <1>3
<1> QED
  BY <1>1, <1>2, <1>7, <1>8, RowsWritten

LEMMA AnswerRows ==
  ASSUME Placed, RowsInv, CarryInv, NEW status \in {"answered", "truncated"}, Answer(status)
  PROVE  RowsInv'
<1>1. PICK r \in QuestionRow :
         /\ r = [question[Last] EXCEPT !.status = status,
                     !.summary = IF task.private THEN SummaryAfter(Last) ELSE {}]
         /\ Written(r) /\ SessionsStay /\ Busy /\ task.pc = "answer"
  BY AnswerFacts
<1>2. /\ Last \in Nat \ {0} /\ RowOK(question, session, Last)
      /\ question'[Last] = r /\ question[Last] \in QuestionRow
      /\ \A p \in 1 .. Last - 1 : question'[p] = question[p]
      /\ \A p \in 1 .. Last - 1 :
               question[p].relation = "expansion" => question[p].source \in 1 .. p - 1
      /\ question[Last].session = task.session
      /\ session[task.session].is_private = task.private
      /\ session'[question[Last].session].is_private
               = session[question[Last].session].is_private
  BY <1>1, Below
<1>3. /\ r.session = question[Last].session /\ r.relation = question[Last].relation
      /\ r.context = question[Last].context /\ r.root = question[Last].root
      /\ r.judged = question[Last].judged /\ r.source = question[Last].source
      /\ r.began = question[Last].began /\ r.created = question[Last].created
      /\ r.summary = (IF task.private THEN task.summary \union {Last} ELSE {})
      /\ r.status = status
  BY <1>1, <1>2 DEF QuestionRow, SummaryAfter
<1>4. \A c \in r.summary :
            /\ c \in 1 .. Last /\ SubjectOf(question, c) = SubjectOf(question, Last)
            /\ question[c].session = question[Last].session
  <2> TAKE c \in r.summary
  <2>1. task.private /\ (c \in task.summary \/ c = Last)
    BY <1>3
  <2>2. CASE c = Last
    BY <1>2, <2>2
  <2>3. CASE c \in task.summary
    <3>1. /\ c \in 1 .. Last - 1 /\ SubjectOf(question, c) = SubjectOf(question, Last)
          /\ question[c].session = task.session
      BY <1>1, <2>1, <2>3 DEF CarryInv
    <3> QED
      BY <1>2, <3>1
  <2> QED
    BY <2>1, <2>2, <2>3
<1>5. KnownRow(question', session', Last)
  <2>1. question[Last].relation # "none"
    <3>1. question[Last].status = "processing"
      BY <1>1 DEF Placed, PlaceInv
    <3> QED
      BY <1>2, <3>1 DEF RowOK, KnownRow
  <2>2. session'[r.session].is_private => Last \in r.summary
    BY <1>2, <1>3
  <2> QED
    BY <1>2, <1>3, <2>1, <2>2 DEF KnownRow
<1>6. r.summary \subseteq 1 .. Last
  BY <1>4
<1>7. RowOK(question', session', Last)
  BY <1>2, <1>3, <1>4, <1>5, <1>6, ChangedRow
<1>8. Last > 0
  BY <1>2
<1> QED
  BY <1>1, <1>7, <1>8, RowsWritten

LEMMA ServeRows ==
  ASSUME Placed, RowsInv, ServeCached
  PROVE  RowsInv'
<1>1. PICK r \in QuestionRow :
         /\ Written(r) /\ r.status = "answered" /\ r.relation = "standalone" /\ r.root = Last
         /\ r.summary = IF task.private THEN {Last} ELSE {}
         /\ r.session = question[Last].session /\ r.context = question[Last].context
         /\ SessionsStay /\ Busy /\ task.pc = "admit"
  BY ServeFacts
<1>2. /\ Last \in Nat \ {0} /\ question'[Last] = r /\ question[Last].session = task.session
      /\ session[task.session].is_private = task.private
      /\ session'[question[Last].session].is_private
               = session[question[Last].session].is_private
  BY <1>1, Below
<1>3. r.context = {} /\ (r.summary \subseteq {Last})
  BY <1>1 DEF Placed, PlaceInv
<1>4. OpeningOf(question', Last) = Last /\ SubjectOf(question', Last) = Last
  BY <1>1, <1>2, OwnOpening
<1>5. KnownRow(question', session', Last)
  BY <1>1, <1>2 DEF KnownRow
<1>6. RelatedRow(question', Last) /\ ExpansionRow(question', Last)
  BY <1>1, <1>2 DEF RelatedRow, ExpansionRow
<1>7. RootRow(question', Last)
  BY <1>1, <1>2, <1>4 DEF RootRow
<1>8. ContextRow(question', Last)
  BY <1>2, <1>3 DEF ContextRow
<1>9. SummaryRow(question', Last)
  BY <1>2, <1>3 DEF SummaryRow
<1>10. PrivateRow(question', session', Last)
  BY <1>2, <1>3 DEF PrivateRow
<1>11. RowOK(question', session', Last)
  BY <1>5, <1>6, <1>7, <1>8, <1>9, <1>10 DEF RowOK
<1>12. Last > 0
  BY <1>2
<1> QED
  BY <1>1, <1>11, <1>12, RowsWritten

\* The openings of a follow-up, once it is one.
LEMMA FollowUpOpening ==
  ASSUME Placed, RowsInv, Busy, NEW r, Written(r), SessionsStay, task.pc = "admit",
         r.relation = "related", r.session = question[Last].session,
         Previous(task.session) # 0
  PROVE  /\ OpeningOf(question', Last) = Boundary(task.session)
         /\ Previous(task.session) \in 1 .. Last - 1
         /\ OpeningOf(question', Previous(task.session)) = Boundary(task.session)
         /\ question'[Previous(task.session)].relation \in Topical
<1> DEFINE s == task.session
<1>1. /\ TypeOK /\ Last \in Nat \ {0} /\ Last \in Asked /\ question'[Last] = r
      /\ \A p \in 1 .. Last - 1 : question'[p] = question[p]
      /\ question[Last].session = s
  BY Below DEF Placed
<1>2. question[Last].relation = "none" /\ question[Last].status = "pending"
  BY DEF Placed, PlaceInv
<1>3. OpeningOf(question', Last) = Boundary(s)
  <2>1. Asked = 1 .. Last
    BY <1>1, Sizes
  <2>2. \A p \in 1 .. Last : (p = Last \/ p \in 1 .. Last - 1)
    BY <1>1
  <2>3. {p \in 1 .. Last : question'[p].session = question'[Last].session
                           /\ question'[p].relation \in {"standalone", "ambiguous"}}
        = {q \in In(s) : question[q].relation \in {"standalone", "ambiguous"}}
    BY <1>1, <1>2, <2>1, <2>2 DEF In
  <2> QED
    BY <2>3 DEF OpeningOf, Boundary
<1>4. /\ question[Previous(s)].relation \in Topical
      /\ OpeningOf(question, Previous(s)) = Boundary(s)
      /\ Previous(s) \in AnsweredIn(s) /\ Previous(s) \in Asked
  BY <1>1, PreviousTopic
<1>5. Previous(s) \in 1 .. Last - 1
  <2>1. Previous(s) # Last
    BY <1>2, <1>4 DEF AnsweredIn
  <2> QED
    BY <1>1, <1>4, <2>1, Sizes
<1>6. OpeningOf(question', Previous(s)) = OpeningOf(question, Previous(s))
  <2> DEFINE n == Last - 1
  <2>1. n \in Nat /\ Previous(s) \in 1 .. n
    BY <1>1, <1>5
  <2>2. \A p \in 1 .. n : /\ question'[p].session = question[p].session
                          /\ question'[p].relation = question[p].relation
    BY <1>1
  <2> HIDE DEF n, s
  <2> QED
    BY <2>1, <2>2, OpeningAgrees
<1> QED
  BY <1>1, <1>3, <1>4, <1>5, <1>6

\* What a follow-up is given: what was answered in its session, in its topic.
LEMMA GivenFacts ==
  ASSUME Placed, RowsInv, task.pc = "admit", Contextual
  PROVE  /\ \A c \in History \union Summary :
               /\ c \in 1 .. Last - 1
               /\ SubjectOf(question, c) = Boundary(task.session)
               /\ task.private => question[c].session = task.session
         /\ Previous(task.session) \in History \union Summary
<1> DEFINE s == task.session
           q == Previous(s)
<1>1. /\ TypeOK /\ Last \in Nat \ {0} /\ Asked = 1 .. Last /\ s \in DOMAIN session /\ s # 0
      /\ session[s].is_private = task.private /\ task.private \in BOOLEAN
      /\ task.previous = q /\ q # 0 /\ question[Last].status = "pending"
  BY AdmitsFrom, BusyFacts DEF Placed
<1>2. /\ Boundary(s) # 0 /\ SubjectOf(question, q) = Boundary(s)
      /\ q \in AnsweredIn(s) /\ q \in Asked
  BY <1>1, PreviousTopic
<1>3. \A c \in AnsweredIn(s) : /\ c \in 1 .. Last - 1 /\ question[c].session = s
                               /\ question[c].status = "answered"
                               /\ SubjectOf(question, c) = Boundary(s)
  <2> TAKE c \in AnsweredIn(s)
  <2>1. c \in Asked /\ question[c].session = s /\ question[c].status = "answered"
    BY DEF AnsweredIn, Scope, In
  <2>2. c # Last
    BY <1>1, <2>1
  <2>3. SubjectOf(question, c) = Boundary(s)
    BY <1>1, <1>2, AnsweredSubject
  <2> QED
    BY <1>1, <2>1, <2>2, <2>3
<1>4. History \subseteq AnsweredIn(s)
  BY <1>1, HistoryFacts
<1>5. CASE task.private
  <2>1. Summary = question[q].summary
    BY <1>1, <1>5 DEF Summary
  <2>2. RowOK(question, session, q) /\ session[question[q].session].is_private
    BY <1>1, <1>2, <1>3, <1>5 DEF RowsInv
  <2>3. /\ question[q].summary \subseteq 1 .. q /\ q \in question[q].summary
        /\ \A c \in question[q].summary : /\ SubjectOf(question, c) = SubjectOf(question, q)
                                          /\ question[c].session = s
    BY <1>2, <1>3, <2>2 DEF RowOK, SummaryRow, PrivateRow, KnownRow
  <2>4. \A c \in 1 .. q : c \in 1 .. Last - 1
    <3>1. q \in 1 .. Last - 1
      BY <1>2, <1>3
    <3> QED
      BY <1>1, <3>1
  <2> HIDE DEF q
  <2> QED
    BY <1>2, <1>3, <1>4, <2>1, <2>3, <2>4 DEF q
<1>6. CASE ~task.private
  <2>1. Summary = {} /\ History = {q}
    BY <1>1, <1>6, HistoryFacts DEF Summary
  <2> HIDE DEF q
  <2> QED
    BY <1>3, <1>4, <1>6, <2>1 DEF q
<1> QED
  BY <1>5, <1>6

LEMMA AdmitRows ==
  ASSUME Placed, RowsInv, BeganInv, Admit
  PROVE  RowsInv' /\ RowOK(question', session', Last)
<1>1. PICK r \in QuestionRow :
         /\ Written(r) /\ r.status = "processing" /\ r.relation = Recorded
         /\ r.judged = task.previous /\ r.context = History \union Summary
         /\ r.root = (IF Contextual THEN Boundary(task.session) ELSE Last)
         /\ r.session = question[Last].session /\ r.summary = question[Last].summary
         /\ r.began = question[Last].began
         /\ task.pc = "admit" /\ session' = session
  BY AdmitFacts
<1>2. SessionsStay /\ Busy
  BY <1>1, SessionsKept DEF Placed, Busy
<1>3. /\ TypeOK /\ Last \in Nat \ {0} /\ Asked = 1 .. Last /\ question'[Last] = r
      /\ \A p \in 1 .. Last - 1 : question'[p] = question[p]
      /\ question[Last].session = task.session /\ question[Last].began = task.began
      /\ session[task.session].is_private = task.private
  BY <1>1, <1>2, Below, BusyFacts DEF Placed
<1>4. r.summary = {} /\ r.relation \in {"standalone", "ambiguous", "related"}
  BY <1>1, AdmitsFrom
<1>5. /\ ~Contextual => r.context = {} /\ r.root = Last
      /\ Contextual => r.relation = "related" /\ r.root = Boundary(task.session)
  <2>1. task.session # 0
    BY <1>2, BusyFacts
  <2> QED
    BY <1>1, <1>3, <2>1, HistoryFacts, AdmitsFrom
<1>6. r.relation = "related" =>
         /\ r.judged = Previous(task.session) /\ r.judged \in 1 .. Last - 1
         /\ question'[r.judged].relation \in Topical
         /\ OpeningOf(question', r.judged) = Boundary(task.session)
         /\ OpeningOf(question', Last) = Boundary(task.session)
         /\ Boundary(task.session) # 0
  <2>1. ASSUME r.relation = "related"
        PROVE  /\ r.judged = Previous(task.session) /\ Previous(task.session) # 0
    <3>1. task.relation = "related"
      BY <1>1, <2>1 DEF Recorded
    <3> QED
      BY <1>1, <3>1, AdmitsFrom
  <2> QED
    BY <1>1, <1>2, <1>3, <2>1, FollowUpOpening, PreviousTopic
<1>7. r.relation # "related" => OpeningOf(question', Last) = Last
  BY <1>3, <1>4, OwnOpening
<1>8. KnownRow(question', session', Last)
  BY <1>1, <1>3, <1>4 DEF KnownRow
<1>9. RelatedRow(question', Last)
  <2>1. ASSUME r.relation = "related", r.context # {} PROVE r.judged \in r.context
    BY <1>1, <1>5, <1>6, <2>1, GivenFacts
  <2> QED
    BY <1>3, <1>6, <2>1 DEF RelatedRow
<1>10. ExpansionRow(question', Last)
  BY <1>3, <1>4 DEF ExpansionRow
<1>11. RootRow(question', Last)
  BY <1>3, <1>5, <1>6, <1>7 DEF RootRow
<1>12. \A c \in r.context :
          /\ c \in 1 .. Last - 1 /\ SubjectOf(question', c) = SubjectOf(question', Last)
          /\ task.private => question[c].session = task.session
  <2> TAKE c \in r.context
  <2>1. Contextual
    BY <1>5
  <2>2. /\ c \in 1 .. Last - 1 /\ SubjectOf(question, c) = Boundary(task.session)
        /\ task.private => question[c].session = task.session
    BY <1>1, <2>1, GivenFacts
  <2>3. SubjectOf(question', c) = SubjectOf(question, c)
    <3> DEFINE n == Last - 1
    <3>1. n \in Nat /\ c \in 1 .. n /\ n \in 0 .. Last
      BY <1>3, <2>2
    <3>2. \A p \in 1 .. n : /\ question'[p].session = question[p].session
                            /\ question'[p].relation = question[p].relation
                            /\ question'[p].source = question[p].source
      BY <1>3
    <3>3. question[c].relation = "expansion" => question[c].source \in 1 .. n
      BY <1>3, <3>1, SourcesWithin
    <3> HIDE DEF n
    <3> QED
      BY <3>1, <3>2, <3>3, SubjectAgrees
  <2>4. SubjectOf(question', Last) = Boundary(task.session)
    BY <1>3, <1>5, <1>6, <2>1 DEF SubjectOf
  <2> QED
    BY <2>2, <2>3, <2>4
<1>13. ContextRow(question', Last)
  BY <1>3, <1>12 DEF ContextRow
<1>14. SummaryRow(question', Last)
  BY <1>3, <1>4 DEF SummaryRow
<1>15. PrivateRow(question', session', Last)
  <2>1. ASSUME task.private, NEW c \in r.context
        PROVE  question'[c].session = r.session /\ question'[c].created >= r.began
    <3>1. c \in 1 .. Last - 1 /\ question[c].session = task.session
      BY <1>12, <2>1
    <3>2. c \in Asked /\ question'[c] = question[c]
      BY <1>3, <3>1
    <3>3. task.session # 0 /\ task.pc # "idle"
      BY <1>1, <1>2, BusyFacts
    <3>4. question[c].created >= task.began
      BY <2>1, <3>1, <3>2, <3>3 DEF BeganInv
    <3> QED
      BY <1>1, <1>3, <3>1, <3>2, <3>4
  <2> QED
    BY <1>1, <1>3, <1>4, <2>1 DEF PrivateRow
<1>16. RowOK(question', session', Last)
  BY <1>8, <1>9, <1>10, <1>11, <1>13, <1>14, <1>15 DEF RowOK
<1>17. Last > 0
  BY <1>3
<1> QED
  BY <1>1, <1>2, <1>16, <1>17, RowsWritten

\* In a session that is open nothing is older than the last /new or /forget.
OpenInv ==
    \A q \in Asked :
        session[question[q].session].is_private /\ ~session[question[q].session].closed =>
            question[q].created >= closings

LEMMA ExpandRows ==
  ASSUME Placed, RowsInv, OpenInv, NEW q \in Asked, Expand(q)
  PROVE  RowsInv' /\ RowOK(question', session', Last + 1)
<1>1. PICK r \in QuestionRow :
         /\ Added(r) /\ r.session = question[q].session /\ r.status = "processing"
         /\ r.relation = "expansion" /\ r.source = q /\ r.root = question[q].root
         /\ r.context = question[q].context \union {q} /\ r.summary = {}
         /\ r.began = closings
  BY ExpandFacts
<1>2. /\ question[q] \in QuestionRow /\ question[q].session \in DOMAIN session
      /\ question[q].status = "answered" /\ question[q].relation # "expansion"
      /\ session[question[q].session].is_private /\ ~session[question[q].session].closed
      /\ session' = session
  BY ExpandFacts
<1>3. TypeOK /\ SessionsStay /\ Asked = 1 .. Last /\ Last \in Nat /\ q \in 1 .. Last
      /\ Last \in 0 .. Last /\ q \in Nat \ {0}
  BY <1>2, SessionsKept, Sizes DEF Placed
<1>4. /\ question'[Last + 1] = r /\ \A p \in 1 .. Last : question'[p] = question[p]
  BY <1>1 DEF Added
<1>5. RowOK(question, session, q)
  BY DEF RowsInv
<1>6. question[q].relation \in Topical
  BY <1>2, <1>5 DEF RowOK, KnownRow, QuestionRow, Topical
<1>7. SubjectOf(question', Last + 1) = SubjectOf(question, q)
  <2>1. OpeningOf(question', q) = OpeningOf(question, q)
    <3>1. \A p \in 1 .. Last : /\ question'[p].session = question[p].session
                               /\ question'[p].relation = question[p].relation
      BY <1>4
    <3> QED
      BY <1>3, <3>1, OpeningAgrees
  <2>2. SubjectOf(question, q) = OpeningOf(question, q)
    BY <1>3, <1>6, TopicalSubject
  <2>3. r.relation # "related"
    BY <1>1
  <2> QED
    BY <1>1, <1>4, <2>1, <2>2, <2>3 DEF SubjectOf
<1>8. \A c \in r.context :
         /\ c \in 1 .. Last /\ SubjectOf(question', c) = SubjectOf(question, q)
         /\ question[c].session = question[q].session
  <2> TAKE c \in r.context
  <2>1. /\ c \in 1 .. Last /\ SubjectOf(question, c) = SubjectOf(question, q)
        /\ question[c].session = question[q].session
    <3>1. CASE c = q
      BY <1>3, <3>1
    <3>2. CASE c # q
      <4>1. c \in question[q].context
        BY <1>1, <3>2
      <4>2. c \in 1 .. q - 1
        BY <1>5, <4>1 DEF RowOK, ContextRow
      <4> QED
        BY <1>2, <1>3, <1>5, <4>1, <4>2 DEF RowOK, ContextRow, PrivateRow
    <3> QED
      BY <3>1, <3>2
  <2>2. \A p \in 1 .. Last : /\ question'[p].session = question[p].session
                             /\ question'[p].relation = question[p].relation
                             /\ question'[p].source = question[p].source
    BY <1>4
  <2>3. question[c].relation = "expansion" => question[c].source \in 1 .. Last
    BY <1>3, <2>1, SourcesWithin
  <2>4. SubjectOf(question', c) = SubjectOf(question, c)
    BY <1>3, <2>1, <2>2, <2>3, SubjectAgrees
  <2> QED
    BY <2>1, <2>4
<1>9. KnownRow(question', session', Last + 1)
  BY <1>1, <1>4 DEF KnownRow
<1>10. RelatedRow(question', Last + 1) /\ RootRow(question', Last + 1)
  BY <1>1, <1>4 DEF RelatedRow, RootRow, Topical
<1>11. ExpansionRow(question', Last + 1)
  <2>1. q \in 1 .. (Last + 1) - 1
    BY <1>3
  <2> QED
    BY <1>1, <1>3, <1>4, <1>6, <2>1 DEF ExpansionRow
<1>12. ContextRow(question', Last + 1)
  <2>1. 1 .. (Last + 1) - 1 = 1 .. Last
    BY <1>3
  <2> QED
    BY <1>4, <1>7, <1>8, <2>1 DEF ContextRow
<1>13. SummaryRow(question', Last + 1)
  BY <1>1, <1>4 DEF SummaryRow
<1>14. PrivateRow(question', session', Last + 1)
  <2>1. ASSUME NEW c \in r.context
        PROVE  question'[c].session = r.session /\ question'[c].created >= r.began
    <3>1. c \in 1 .. Last /\ question[c].session = question[q].session
      BY <1>8, <2>1
    <3>2. question'[c] = question[c] /\ c \in Asked
      BY <1>3, <1>4, <3>1
    <3>3. question[c].created >= closings
      BY <1>2, <3>1, <3>2 DEF OpenInv
    <3> QED
      BY <1>1, <3>1, <3>2, <3>3
  <2> QED
    BY <1>1, <1>4, <2>1 DEF PrivateRow
<1>15. RowOK(question', session', Last + 1)
  BY <1>9, <1>10, <1>11, <1>12, <1>13, <1>14 DEF RowOK
<1> QED
  BY <1>1, <1>3, <1>15, RowsAdded

-----------------------------------------------------------------------------
(* What is carried from the conversation to the answer.                    *)

LEMMA CarryFrom ==
  ASSUME RowOK(question', session', Last'), task'.summary \subseteq question'[Last'].context,
         question'[Last'].session = task'.session,
         task'.private = session'[task'.session].is_private
  PROVE  CarryInv'
<1>1. ASSUME NEW c \in task'.summary
      PROVE  /\ c \in 1 .. Last' - 1
             /\ SubjectOf(question', c) = SubjectOf(question', Last')
             /\ task'.private => question'[c].session = task'.session
  <2>1. c \in question'[Last'].context
    BY <1>1
  <2> QED
    BY <2>1 DEF RowOK, ContextRow, PrivateRow
<1> QED
  BY <1>1 DEF CarryInv

LEMMA StepCarry ==
  ASSUME Placed, RowsInv, OpenInv, BeganInv, CarryInv, [Next]_vars
  PROVE  CarryInv'
<1>1. CASE UNCHANGED <<question, task>>
  BY <1>1 DEF CarryInv, Last
<1>2. CASE task'.pc # "answer"
  BY <1>2 DEF CarryInv
<1>3. CASE Admit
  <2>1. RowOK(question', session', Last)
    BY <1>3, AdmitRows
  <2>2. PICK r \in QuestionRow :
         /\ Written(r) /\ r.context = History \union Summary
         /\ r.session = question[Last].session /\ task.pc = "admit"
         /\ task'.summary = Summary /\ task'.private = task.private
         /\ task'.session = task.session /\ session' = session
    BY <1>3, AdmitFacts
  <2>3. question[Last].session = task.session
        /\ task.private = session[task.session].is_private
    BY <2>2, BusyFacts DEF Busy
  <2>4. Last' = Last /\ question'[Last] = r
    BY <2>2 DEF Written
  <2> QED
    BY <2>1, <2>2, <2>3, <2>4, CarryFrom
<1>4. ASSUME NEW q \in Asked, Expand(q) PROVE CarryInv'
  <2>1. RowOK(question', session', Last + 1)
    BY <1>4, ExpandRows
  <2>2. PICK r \in QuestionRow :
         /\ Added(r) /\ r.session = question[q].session
         /\ r.context = question[q].context \union {q}
    BY <1>4, ExpandFacts
  <2>3. /\ question[q].session \in DOMAIN session /\ session[question[q].session].is_private
        /\ task'.private = TRUE /\ task'.session = question[q].session
        /\ task'.summary = question[q].context /\ session' = session
    BY <1>4, ExpandFacts
  <2>4. Last' = Last + 1 /\ question'[Last + 1] = r
    BY <2>2 DEF Added
  <2>5. session[question[q].session].is_private = TRUE
    BY <2>3, Sizes DEF SessionRow, Placed
  <2> QED
    BY <2>1, <2>2, <2>3, <2>4, <2>5, CarryFrom
<1>5. ASSUME \/ \E private \in BOOLEAN, s \in 0 .. MaxSessions : Ask(private, s)
             \/ Accept \/ Relate \/ Reject \/ CannotPay \/ ServeCached \/ Fail
             \/ \E status \in {"answered", "truncated"} : Answer(status)
      PROVE  task'.pc # "answer"
  <2>1. ASSUME \/ Reject \/ CannotPay \/ ServeCached \/ Fail
               \/ \E status \in {"answered", "truncated"} : Answer(status)
        PROVE  task' = Idle
    BY <2>1 DEF Reject, CannotPay, ServeCached, Fail, Answer
  <2>2. CASE Accept
    BY <2>2, AcceptFacts
  <2>3. CASE Relate
    BY <2>3, RelatePlace DEF Relate, Placed, TypeOK, Task
  <2>4. ASSUME \E private \in BOOLEAN, s \in 0 .. MaxSessions : Ask(private, s)
        PROVE  task'.pc = "accept"
    BY <2>4 DEF Ask, Idle
  <2> QED
    BY <1>5, <2>1, <2>2, <2>3, <2>4, IdleType
<1>6. ASSUME \/ \E s \in DOMAIN session : Refuse(s)
             \/ Remember \/ \E forget \in BOOLEAN : Close(forget)
             \/ \E s \in DOMAIN session, blocked \in BOOLEAN : SetBlocked(s, blocked)
             \/ UNCHANGED vars
      PROVE  UNCHANGED <<question, task>>
  BY <1>6 DEF Refuse, Remember, Close, SetBlocked, vars
<1> QED
  BY <1>1, <1>2, <1>3, <1>4, <1>5, <1>6 DEF Next

-----------------------------------------------------------------------------
(* What /new and /forget close.                                            *)

\* Sessions are not reopened, and what is added to an open one is new.
LEMMA OpenKept ==
  ASSUME Placed, OpenInv, closings' = closings, SessionsStay,
         \A q \in Asked' :
            \/ q \in Asked /\ question'[q].session = question[q].session
                           /\ question'[q].created = question[q].created
            \/ question'[q].created >= closings
            \/ ~session'[question'[q].session].is_private
  PROVE  OpenInv'
<1>1. ASSUME NEW q \in Asked', session'[question'[q].session].is_private,
             ~session'[question'[q].session].closed
      PROVE  question'[q].created >= closings'
  <2>1. CASE q \in Asked /\ question'[q].session = question[q].session
                         /\ question'[q].created = question[q].created
    <3>1. question[q].session \in DOMAIN session
      BY <2>1 DEF Placed, RowsPlace
    <3>2. /\ session[question[q].session].is_private
          /\ ~session[question[q].session].closed
      BY <1>1, <2>1, <3>1 DEF SessionsStay
    <3> QED
      BY <2>1, <3>2 DEF OpenInv
  <2>2. CASE question'[q].created >= closings
    BY <2>2
  <2> QED
    BY <1>1, <2>1, <2>2
<1> QED
  BY <1>1 DEF OpenInv

\* The rows of a step that writes to the last one, in its session.
LEMMA SameSession ==
  ASSUME Placed, Last > 0, NEW r, Written(r), r.session = question[Last].session,
         r.created = question[Last].created
  PROVE  /\ \A q \in Asked' : /\ q \in Asked /\ question'[q].session = question[q].session
                              /\ question'[q].created = question[q].created
         /\ Asked' = Asked
<1>1. Asked = 1 .. Last /\ Last \in Nat /\ Asked' = Asked
  BY Sizes DEF Written, Placed
<1>2. ASSUME NEW q \in Asked
      PROVE  /\ question'[q].session = question[q].session
             /\ question'[q].created = question[q].created
  <2>1. q = Last \/ q \in 1 .. Last - 1
    BY <1>1, <1>2
  <2> QED
    BY <2>1 DEF Written
<1> QED
  BY <1>1, <1>2

LEMMA LeavesOpen ==
  ASSUME Placed, OpenInv, closings' = closings, SessionsStay, Last > 0, task' = Idle,
         NEW r, Written(r), r.session = question[Last].session,
         r.created = question[Last].created
  PROVE  OpenInv' /\ BeganInv'
<1>1. OpenInv'
  BY OpenKept, SameSession
<1>2. BeganInv'
  BY IdleType DEF BeganInv
<1> QED
  BY <1>1, <1>2

LEMMA SameOpen ==
  ASSUME Placed, OpenInv, BeganInv, closings' = closings, SessionsStay, question' = question,
         \/ task' = task
         \/ task' = Idle
  PROVE  OpenInv' /\ BeganInv'
<1>1. Asked' = Asked
  BY DEF Asked
<1>2. OpenInv'
  <2>1. \A q \in Asked' : q \in Asked /\ question'[q].session = question[q].session
                          /\ question'[q].created = question[q].created
    BY <1>1
  <2> QED
    BY <2>1, OpenKept
<1>3. BeganInv'
  BY <1>1, IdleType DEF BeganInv
<1> QED
  BY <1>2, <1>3

LEMMA AskOpen ==
  ASSUME Placed, OpenInv, NEW private \in BOOLEAN, NEW s \in 0 .. MaxSessions, Ask(private, s)
  PROVE  OpenInv' /\ BeganInv'
<1>1. /\ task' = [Idle EXCEPT !.pc = "accept", !.private = private, !.session = s,
                              !.facts = facts, !.began = closings]
      /\ UNCHANGED <<session, question, facts, cache, closings, commands>>
      /\ private /\ s # 0 => session[s].is_private /\ ~session[s].closed
  BY DEF Ask, ActivePrivate, Open
<1>2. task'.private = private /\ task'.session = s /\ task'.began = closings
  BY <1>1 DEF Idle
<1>3. OpenInv'
  BY <1>1 DEF OpenInv, Asked
<1>4. BeganInv'
  BY <1>1, <1>2 DEF OpenInv, BeganInv, Asked
<1> QED
  BY <1>3, <1>4

LEMMA AcceptOpen ==
  ASSUME Placed, OpenInv, BeganInv, Accept
  PROVE  OpenInv' /\ BeganInv'
<1> DEFINE r == NewQuestion(Home, task.began)
<1>1. /\ Added(r) /\ task.pc = "accept" /\ task'.session = Home
      /\ task'.private = task.private /\ task'.began = task.began /\ closings' = closings
  BY AcceptFacts
<1>2. r.session = Home /\ r.created = closings
  BY DEF NewQuestion
<1> HIDE DEF r
<1>3. /\ SessionsStay
      /\ task.session # 0 => Home = task.session
      /\ task.session = 0 => Home = Len(session) + 1
  BY HomeFacts
<1>4. /\ TypeOK /\ Last \in Nat /\ Asked = 1 .. Last /\ Asked' = 1 .. Last + 1
      /\ closings \in Nat /\ task.began <= closings
      /\ DOMAIN session = 1 .. Len(session) /\ Len(session) \in Nat
  BY <1>1, Sizes DEF Added, Placed, PlaceInv
<1>5. \A q \in Asked' : \/ q = Last + 1 /\ question'[q] = r
                        \/ q \in Asked /\ question'[q] = question[q]
  <2> TAKE q \in Asked'
  <2>1. q = Last + 1 \/ q \in 1 .. Last
    BY <1>4
  <2> QED
    BY <1>1, <1>4, <2>1 DEF Added
<1>6. OpenInv'
  <2>1. closings >= closings
    BY <1>4
  <2> QED
    BY <1>1, <1>2, <1>3, <1>5, <2>1, OpenKept
<1>7. ASSUME task.private, NEW q \in Asked', question'[q].session = Home
      PROVE  question'[q].created >= task.began
  <2>1. CASE question'[q] = r
    <3>1. task.began \in Nat
      BY <1>4 DEF TypeOK, Task
    <3> QED
      BY <1>2, <1>4, <2>1, <3>1
  <2>2. CASE q \in Asked /\ question'[q] = question[q]
    <3>1. question[q].session \in DOMAIN session
      BY <2>2 DEF Placed, RowsPlace
    <3>2. task.session # 0 /\ question[q].session = task.session
      BY <1>3, <1>4, <1>7, <2>2, <3>1
    <3> QED
      BY <1>1, <1>7, <2>2, <3>2 DEF BeganInv
  <2> QED
    BY <1>5, <1>7, <2>1, <2>2
<1> QED
  BY <1>1, <1>6, <1>7 DEF BeganInv

LEMMA RelateOpen ==
  ASSUME Placed, OpenInv, BeganInv, Relate
  PROVE  OpenInv' /\ BeganInv'
<1>1. PICK relation \in {"none", "standalone", "ambiguous", "related"}, include \in BOOLEAN,
            home \in 1 .. MaxSessions, r \in QuestionRow :
         /\ SessionsStay /\ Written(r) /\ r = [question[Last] EXCEPT !.session = home]
         /\ \/ home = task.session /\ session' = session /\ question' = question
            \/ ~task.private /\ session'[home] = NewSession(FALSE)
         /\ task' = [task EXCEPT !.pc = "admit", !.session = home, !.relation = relation,
                                 !.include = include, !.previous = Previous(task.session)]
         /\ closings' = closings
  BY RelateFacts
<1>2. /\ TypeOK /\ task.pc = "relate" /\ task'.session = home /\ task'.private = task.private
      /\ task'.began = task.began
  BY <1>1 DEF Relate, Placed, TypeOK, Task
<1>3. CASE home = task.session /\ session' = session /\ question' = question
  <2>1. Asked' = Asked
    BY <1>3 DEF Asked
  <2>2. OpenInv'
    BY <1>1, <1>3, <2>1 DEF OpenInv
  <2>3. BeganInv'
    BY <1>2, <1>3, <2>1 DEF BeganInv
  <2> QED
    BY <2>2, <2>3
<1>4. CASE ~task.private /\ session'[home] = NewSession(FALSE)
  <2>1. Last > 0 /\ question[Last] \in QuestionRow /\ Last \in Nat /\ Asked = 1 .. Last
        /\ Asked' = Asked
    BY <1>1, <1>2, BusyFacts DEF Busy, Written
  <2>2. r.session = home /\ ~NewSession(FALSE).is_private
    BY <1>1, <2>1 DEF QuestionRow, NewSession
  <2>3. \A q \in Asked' :
            \/ q \in Asked /\ question'[q].session = question[q].session
                           /\ question'[q].created = question[q].created
            \/ ~session'[question'[q].session].is_private
    <3> TAKE q \in Asked'
    <3>1. q \in Asked /\ (q = Last \/ q \in 1 .. Last - 1)
      BY <2>1
    <3>2. CASE q = Last
      BY <1>1, <1>4, <2>2, <3>2 DEF Written
    <3>3. CASE q \in 1 .. Last - 1
      BY <1>1, <3>1, <3>3 DEF Written
    <3> QED
      BY <3>1, <3>2, <3>3
  <2>4. OpenInv'
    BY <1>1, <2>3, OpenKept
  <2>5. BeganInv'
    BY <1>2, <1>4 DEF BeganInv
  <2> QED
    BY <2>4, <2>5
<1> QED
  BY <1>1, <1>3, <1>4

LEMMA AdmitOpen ==
  ASSUME Placed, OpenInv, BeganInv, Admit
  PROVE  OpenInv' /\ BeganInv'
<1>1. PICK r \in QuestionRow :
         /\ Written(r) /\ r.session = question[Last].session
         /\ r.created = question[Last].created /\ task.pc = "admit"
         /\ task'.private = task.private /\ task'.session = task.session
         /\ task'.began = task.began /\ session' = session /\ closings' = closings
  BY AdmitFacts
<1>2. Last > 0
  BY <1>1, BusyFacts DEF Busy
<1>3. /\ \A q \in Asked' : /\ q \in Asked /\ question'[q].session = question[q].session
                           /\ question'[q].created = question[q].created
      /\ Asked' = Asked
  BY <1>1, <1>2, SameSession
<1>4. OpenInv'
  BY <1>1, <1>3 DEF OpenInv
<1>5. BeganInv'
  BY <1>1, <1>3 DEF BeganInv
<1> QED
  BY <1>4, <1>5

LEMMA ExpandOpen ==
  ASSUME Placed, OpenInv, NEW s \in Asked, Expand(s)
  PROVE  OpenInv' /\ BeganInv'
<1>1. PICK r \in QuestionRow :
         /\ Added(r) /\ r.session = question[s].session /\ r.created = closings
  BY ExpandFacts
<1>2. /\ session[question[s].session].is_private /\ ~session[question[s].session].closed
      /\ task'.private = TRUE /\ task'.session = question[s].session /\ task'.began = closings
      /\ session' = session /\ closings' = closings
  BY ExpandFacts
<1>3. /\ Last \in Nat /\ Asked = 1 .. Last /\ Asked' = 1 .. Last + 1 /\ closings \in Nat
      /\ SessionsStay
  BY <1>1, <1>2, Sizes, SessionsKept DEF Added, Placed
<1>4. \A q \in Asked' : \/ q = Last + 1 /\ question'[q] = r
                        \/ q \in Asked /\ question'[q] = question[q]
  <2> TAKE q \in Asked'
  <2>1. q = Last + 1 \/ q \in 1 .. Last
    BY <1>3
  <2> QED
    BY <1>1, <1>3, <2>1 DEF Added
<1>5. closings >= closings
  BY <1>3
<1>6. OpenInv'
  BY <1>1, <1>2, <1>3, <1>4, <1>5, OpenKept
<1>7. ASSUME NEW q \in Asked', question'[q].session = question[s].session
      PROVE  question'[q].created >= closings
  <2>1. CASE question'[q] = r
    BY <1>1, <1>5, <2>1
  <2>2. CASE q \in Asked /\ question'[q] = question[q]
    BY <1>2, <1>7, <2>2 DEF OpenInv
  <2> QED
    BY <1>4, <1>7, <2>1, <2>2
<1> QED
  BY <1>2, <1>6, <1>7 DEF BeganInv

LEMMA CloseOpen ==
  ASSUME Placed, OpenInv, BeganInv, NEW forget \in BOOLEAN, Close(forget)
  PROVE  OpenInv' /\ BeganInv'
<1>1. session' = Closed /\ UNCHANGED <<question, cache, task>>
  BY DEF Close
<1>2. /\ SessionsStay /\ \A s \in DOMAIN session : session[s].is_private => session'[s].closed
      /\ Asked' = Asked
  BY <1>1, ClosedFacts DEF Placed, Asked
<1>3. OpenInv'
  <2>1. ASSUME NEW q \in Asked, session'[question[q].session].is_private
        PROVE  session'[question[q].session].closed
    <3>1. question[q].session \in DOMAIN session
      BY DEF Placed, RowsPlace
    <3> QED
      BY <1>2, <2>1, <3>1 DEF SessionsStay
  <2> QED
    BY <1>1, <1>2, <2>1 DEF OpenInv
<1>4. BeganInv'
  BY <1>1, <1>2 DEF BeganInv
<1> QED
  BY <1>3, <1>4

LEMMA StepOpen ==
  ASSUME Placed, OpenInv, BeganInv, [Next]_vars
  PROVE  OpenInv' /\ BeganInv'
<1>1. ASSUME NEW private \in BOOLEAN, NEW s \in 0 .. MaxSessions, Ask(private, s)
      PROVE  OpenInv' /\ BeganInv'
  BY <1>1, AskOpen
<1>2. CASE Accept
  BY <1>2, AcceptOpen
<1>3. CASE Relate
  BY <1>3, RelateOpen
<1>4. CASE Admit
  BY <1>4, AdmitOpen
<1>5. ASSUME NEW q \in Asked, Expand(q) PROVE OpenInv' /\ BeganInv'
  BY <1>5, ExpandOpen
<1>6. ASSUME NEW forget \in BOOLEAN, Close(forget) PROVE OpenInv' /\ BeganInv'
  BY <1>6, CloseOpen
<1>7. CASE Reject
  <2>1. PICK r \in QuestionRow :
         /\ r = [question[Last] EXCEPT !.status = "rejected"] /\ Written(r)
         /\ SessionsStay /\ Busy /\ task' = Idle /\ closings' = closings
    BY <1>7, RejectFacts
  <2>2. Last > 0 /\ question[Last] \in QuestionRow
    BY <2>1, BusyFacts
  <2>3. r.session = question[Last].session /\ r.created = question[Last].created
    BY <2>1, <2>2 DEF QuestionRow
  <2> QED
    BY <2>1, <2>2, <2>3, LeavesOpen
<1>8. CASE Fail
  <2>1. PICK r \in QuestionRow :
         /\ r = [question[Last] EXCEPT !.status = "failed"] /\ Written(r)
         /\ session' = session /\ Busy /\ task' = Idle /\ closings' = closings
    BY <1>8, FailFacts
  <2>2. Last > 0 /\ question[Last] \in QuestionRow /\ SessionsStay
    BY <2>1, BusyFacts, SessionsKept DEF Placed
  <2>3. r.session = question[Last].session /\ r.created = question[Last].created
    BY <2>1, <2>2 DEF QuestionRow
  <2> QED
    BY <2>1, <2>2, <2>3, LeavesOpen
<1>9. ASSUME NEW status \in {"answered", "truncated"}, Answer(status)
      PROVE  OpenInv' /\ BeganInv'
  <2>1. PICK r \in QuestionRow :
         /\ r = [question[Last] EXCEPT !.status = status,
                     !.summary = IF task.private THEN SummaryAfter(Last) ELSE {}]
         /\ Written(r) /\ SessionsStay /\ Busy /\ task' = Idle /\ closings' = closings
    BY <1>9, AnswerFacts
  <2>2. Last > 0 /\ question[Last] \in QuestionRow
    BY <2>1, BusyFacts
  <2>3. r.session = question[Last].session /\ r.created = question[Last].created
    BY <2>1, <2>2 DEF QuestionRow
  <2> QED
    BY <2>1, <2>2, <2>3, LeavesOpen
<1>10. CASE ServeCached
  <2>1. PICK r \in QuestionRow :
         /\ Written(r) /\ r.session = question[Last].session
         /\ r.created = question[Last].created
         /\ SessionsStay /\ Busy /\ task' = Idle /\ closings' = closings
    BY <1>10, ServeFacts
  <2>2. Last > 0
    BY <2>1, BusyFacts
  <2> QED
    BY <2>1, <2>2, LeavesOpen
<1>11. ASSUME \/ \E s \in DOMAIN session : Refuse(s)
              \/ Remember \/ CannotPay \/ UNCHANGED vars
              \/ \E s \in DOMAIN session, blocked \in BOOLEAN : SetBlocked(s, blocked)
       PROVE  OpenInv' /\ BeganInv'
  <2>1. closings' = closings /\ question' = question
    BY <1>11 DEF Refuse, Remember, CannotPay, vars, SetBlocked
  <2>2. task' = task \/ task' = Idle
    BY <1>11 DEF Refuse, Remember, CannotPay, vars, SetBlocked
  <2>3. SessionsStay
    <3>1. CASE UNCHANGED vars
      BY <3>1, SessionsKept DEF vars, Placed
    <3>2. CASE ~UNCHANGED vars
      BY <1>11, <3>2, StepStays DEF Next
    <3> QED
      BY <3>1, <3>2
  <2> QED
    BY <2>1, <2>2, <2>3, SameOpen
<1> QED
  BY <1>1, <1>2, <1>3, <1>4, <1>5, <1>6, <1>7, <1>8, <1>9, <1>10, <1>11 DEF Next

-----------------------------------------------------------------------------
(* The cache.                                                              *)

\* The question under way is not in the cache, and what would go there is impersonal.
PendingCache ==
    /\ Busy => Last \notin cache
    /\ task.pc = "answer" /\ question[Last].relation # "expansion" /\ CacheAllowed =>
          question[Last].context = {} /\ ~question[Last].personal

CacheInv == CacheIsImpersonal /\ PendingCache

LEMMA CacheKept ==
  ASSUME CacheInv, cache' = cache, \A q \in cache : question'[q] = question[q]
  PROVE  CacheIsImpersonal'
BY DEF CacheInv, CacheIsImpersonal

\* The last question is not in the cache, so a write to it changes nothing there.
LEMMA CacheWritten ==
  ASSUME Placed, Busy, CacheInv, cache' = cache, NEW r, Written(r)
  PROVE  CacheIsImpersonal' /\ Last' \notin cache'
<1>1. Asked = 1 .. Last /\ Last \in Nat /\ cache \subseteq Asked /\ Last \notin cache
  BY Sizes DEF Placed, TypeOK, CacheInv, PendingCache
<1>2. ASSUME NEW q \in cache PROVE question'[q] = question[q]
  <2>1. q \in 1 .. Last - 1
    BY <1>1, <1>2
  <2> QED
    BY <2>1 DEF Written
<1> QED
  BY <1>1, <1>2, CacheKept DEF Written

LEMMA CacheAdded ==
  ASSUME Placed, CacheInv, cache' = cache, NEW r, Added(r)
  PROVE  CacheIsImpersonal' /\ Last' \notin cache'
<1>1. Asked = 1 .. Last /\ Last \in Nat /\ cache \subseteq Asked
  BY Sizes DEF Placed, TypeOK
<1>2. \A q \in cache : question'[q] = question[q] /\ q # Last + 1
  BY <1>1 DEF Added
<1> QED
  BY <1>2, CacheKept DEF Added

LEMMA StepCache ==
  ASSUME Placed, CacheInv, [Next]_vars
  PROVE  CacheInv'
<1>1. CASE UNCHANGED <<question, cache, task>>
  BY <1>1 DEF CacheInv, CacheIsImpersonal, PendingCache, Busy, Last, CacheAllowed
<1>2. CASE UNCHANGED <<question, cache>> /\ task'.pc \in {"idle", "accept"}
  BY <1>2 DEF CacheInv, CacheIsImpersonal, PendingCache, Busy
<1>3. CASE Accept
  <2>1. /\ Added(NewQuestion(Home, task.began)) /\ cache' = cache /\ task'.pc = "relate"
    BY <1>3, AcceptFacts
  <2> QED
    BY <2>1, CacheAdded DEF CacheInv, PendingCache
<1>4. CASE Relate
  <2>1. PICK relation \in {"none", "standalone", "ambiguous", "related"}, include \in BOOLEAN,
            home \in 1 .. MaxSessions, r \in QuestionRow :
         /\ Written(r)
         /\ task' = [task EXCEPT !.pc = "admit", !.session = home, !.relation = relation,
                                 !.include = include, !.previous = Previous(task.session)]
         /\ cache' = cache
    BY <1>4, RelateFacts
  <2>2. task'.pc = "admit" /\ Busy
    BY <1>4, <2>1 DEF Relate, Busy, Placed, TypeOK, Task
  <2> QED
    BY <2>1, <2>2, CacheWritten DEF CacheInv, PendingCache
<1>5. CASE Admit
  <2>1. PICK r \in QuestionRow :
         /\ Written(r) /\ r.context = History \union Summary
         /\ r.personal = (task.private /\ (IF Contextual THEN facts ELSE task.facts))
         /\ task.pc = "admit" /\ task'.private = task.private /\ task'.facts = task.facts
         /\ task'.relation = task.relation /\ cache' = cache
    BY <1>5, AdmitFacts
  <2>2. Busy
    BY <2>1 DEF Busy
  <2>3. question'[Last'] = r
    BY <2>1 DEF Written
  <2>4. ASSUME CacheAllowed' PROVE question'[Last'].context = {} /\ ~question'[Last'].personal
    <3>1. task.relation \in {"none", "standalone"} /\ (task.private => ~task.facts)
      BY <2>1, <2>4 DEF CacheAllowed
    <3>2. ~Contextual
      BY <3>1 DEF Contextual
    <3>3. History = {} /\ Summary = {}
      BY <2>2, <3>2, HistoryFacts, BusyFacts DEF Placed
    <3> QED
      BY <2>1, <2>3, <3>1, <3>2, <3>3
  <2> QED
    BY <2>1, <2>2, <2>4, CacheWritten DEF CacheInv, PendingCache
<1>6. CASE Reject
  <2>1. PICK r \in QuestionRow : Written(r) /\ Busy /\ task' = Idle /\ cache' = cache
    BY <1>6, RejectFacts
  <2> QED
    BY <2>1, CacheWritten, IdleType DEF CacheInv, PendingCache, Busy
<1>7. CASE Fail
  <2>1. PICK r \in QuestionRow : Written(r) /\ Busy /\ task' = Idle /\ cache' = cache
    BY <1>7, FailFacts
  <2> QED
    BY <2>1, CacheWritten, IdleType DEF CacheInv, PendingCache, Busy
<1>8. CASE ServeCached
  <2>1. PICK r \in QuestionRow : Written(r) /\ Busy /\ task' = Idle /\ cache' = cache
    BY <1>8, ServeFacts
  <2> QED
    BY <2>1, CacheWritten, IdleType DEF CacheInv, PendingCache, Busy
<1>9. ASSUME NEW status \in {"answered", "truncated"}, Answer(status) PROVE CacheInv'
  <2>1. PICK r \in QuestionRow :
         /\ r = [question[Last] EXCEPT !.status = status,
                     !.summary = IF task.private THEN SummaryAfter(Last) ELSE {}]
         /\ Written(r) /\ Busy /\ task.pc = "answer" /\ task' = Idle
         /\ cache' = IF question[Last].relation # "expansion" /\ CacheAllowed
                        /\ status = "answered"
                     THEN cache \union {Last} ELSE cache
    BY <1>9, AnswerFacts
  <2>2. question[Last] \in QuestionRow /\ Asked = 1 .. Last /\ Last \in Nat
    BY <2>1, BusyFacts
  <2>3. r.context = question[Last].context /\ r.personal = question[Last].personal
    BY <2>1, <2>2 DEF QuestionRow
  <2>4. ASSUME NEW q \in cache' PROVE question'[q].context = {} /\ ~question'[q].personal
    <3>1. CASE q \in cache
      <4>1. q \in 1 .. Last /\ q # Last
        BY <2>1, <2>2, <3>1 DEF CacheInv, PendingCache, Placed, TypeOK
      <4>2. question'[q] = question[q]
        BY <2>1, <2>2, <4>1 DEF Written
      <4> QED
        BY <3>1, <4>2 DEF CacheInv, CacheIsImpersonal
    <3>2. CASE q \notin cache
      <4>1. q = Last /\ question[Last].relation # "expansion" /\ CacheAllowed
        BY <2>1, <2>4, <3>2
      <4>2. question'[q] = r
        BY <2>1, <4>1 DEF Written
      <4> QED
        BY <2>1, <2>3, <4>1, <4>2 DEF CacheInv, PendingCache
    <3> QED
      BY <3>1, <3>2
  <2> QED
    BY <2>1, <2>4, IdleType DEF CacheInv, CacheIsImpersonal, PendingCache, Busy
<1>10. ASSUME NEW q \in Asked, Expand(q) PROVE CacheInv'
  <2>1. PICK r \in QuestionRow : Added(r) /\ r.relation = "expansion"
    BY <1>10, ExpandFacts
  <2>2. cache' = cache /\ question'[Last'] = r
    BY <1>10, <2>1, ExpandFacts DEF Added
  <2> QED
    BY <2>1, <2>2, CacheAdded DEF CacheInv, PendingCache
<1>11. ASSUME \E private \in BOOLEAN, s \in 0 .. MaxSessions : Ask(private, s)
       PROVE  UNCHANGED <<question, cache>> /\ task'.pc \in {"idle", "accept"}
  BY <1>11 DEF Ask, Idle
<1>12. CASE CannotPay
  BY <1>2, <1>12, IdleType DEF CannotPay
<1>13. ASSUME \/ \E s \in DOMAIN session : Refuse(s)
              \/ Remember \/ \E forget \in BOOLEAN : Close(forget)
              \/ \E s \in DOMAIN session, blocked \in BOOLEAN : SetBlocked(s, blocked)
              \/ UNCHANGED vars
       PROVE  UNCHANGED <<question, cache, task>>
  BY <1>13 DEF Refuse, Remember, Close, SetBlocked, vars
<1> QED
  BY <1>1, <1>2, <1>3, <1>4, <1>5, <1>6, <1>7, <1>8, <1>9, <1>10, <1>11, <1>12, <1>13 DEF Next

-----------------------------------------------------------------------------
(* Topics.                                                                 *)

\* Subjects satisfy the equation of topic; so topic does.
LEMMA SubjectEquation ==
  ASSUME TypeOK, RowsInv, NEW q \in Asked
  PROVE  /\ question[q].relation = "related" =>
               /\ question[q].judged \in Asked /\ question[q].judged < q
               /\ SubjectOf(question, q) = SubjectOf(question, question[q].judged)
         /\ question[q].relation = "expansion" =>
               /\ question[q].source \in Asked /\ question[q].source < q
               /\ SubjectOf(question, q) = SubjectOf(question, question[q].source)
         /\ question[q].relation \notin {"related", "expansion"} =>
               SubjectOf(question, q) = q
<1>1. RowOK(question, session, q) /\ Asked = 1 .. Last /\ Last \in Nat
  BY Sizes DEF RowsInv
<1>2. \A p \in 1 .. q - 1 : p \in Asked /\ p < q /\ p \in Nat \ {0}
  BY <1>1
<1>3. ASSUME question[q].relation = "related"
      PROVE  /\ question[q].judged \in Asked /\ question[q].judged < q
             /\ SubjectOf(question, q) = SubjectOf(question, question[q].judged)
  <2>1. PICK p \in 1 .. q - 1 : /\ p = question[q].judged /\ question[p].relation \in Topical
                                /\ OpeningOf(question, p) = OpeningOf(question, q)
    BY <1>1, <1>3 DEF RowOK, RelatedRow
  <2>2. SubjectOf(question, p) = OpeningOf(question, p)
    BY <1>2, <2>1, TopicalSubject
  <2> QED
    BY <1>2, <1>3, <2>1, <2>2 DEF SubjectOf
<1>4. ASSUME question[q].relation = "expansion"
      PROVE  /\ question[q].source \in Asked /\ question[q].source < q
             /\ SubjectOf(question, q) = SubjectOf(question, question[q].source)
  <2>1. PICK p \in 1 .. q - 1 : p = question[q].source /\ question[p].relation \in Topical
    BY <1>1, <1>4 DEF RowOK, ExpansionRow
  <2>2. SubjectOf(question, p) = OpeningOf(question, p)
    BY <1>2, <2>1, TopicalSubject
  <2>3. SubjectOf(question, q) = OpeningOf(question, p)
    BY <1>4, <2>1 DEF SubjectOf
  <2> QED
    BY <1>2, <2>1, <2>2, <2>3
<1> QED
  BY <1>3, <1>4 DEF SubjectOf

LEMMA TopicEquation ==
  ASSUME TypeOK, RowsInv
  PROVE  topic = [q \in Asked |->
                    CASE question[q].relation = "related"   -> topic[question[q].judged]
                      [] question[q].relation = "expansion" -> topic[question[q].source]
                      [] OTHER                              -> q]
<1> DEFINE f == [q \in Asked |-> SubjectOf(question, q)]
           g == [q \in Asked |->
                    CASE question[q].relation = "related"   -> f[question[q].judged]
                      [] question[q].relation = "expansion" -> f[question[q].source]
                      [] OTHER                              -> q]
<1>1. ASSUME NEW q \in Asked PROVE f[q] = g[q]
  <2>1. CASE question[q].relation = "related"
    <3>1. g[q] = f[question[q].judged]
      BY <2>1, Zenon
    <3> QED
      BY <1>1, <2>1, <3>1, SubjectEquation
  <2>2. CASE question[q].relation = "expansion"
    <3>1. g[q] = f[question[q].source]
      BY <2>2, Zenon
    <3> QED
      BY <1>1, <2>2, <3>1, SubjectEquation
  <2>3. CASE question[q].relation \notin {"related", "expansion"}
    <3>1. question[q].relation # "related" /\ question[q].relation # "expansion"
      BY <2>3
    <3>2. g[q] = q
      BY <3>1, Zenon
    <3> QED
      BY <1>1, <2>3, <3>2, SubjectEquation
  <2> QED
    BY <2>1, <2>2, <2>3
<1>2. f = [q \in Asked |-> f[q]] /\ g = [q \in Asked |-> g[q]]
  OBVIOUS
<1>3. f = g
  <2> HIDE DEF f, g
  <2> QED
    BY <1>1, <1>2
<1>4. f = [q \in Asked |->
             CASE question[q].relation = "related"   -> f[question[q].judged]
               [] question[q].relation = "expansion" -> f[question[q].source]
               [] OTHER                              -> q]
  <2> HIDE DEF f
  <2> QED
    BY <1>3, Zenon DEF g
<1> HIDE DEF f, g
<1> QED
  BY <1>4, Zenon DEF topic

LEMMA TopicIsSubject ==
  ASSUME TypeOK, RowsInv
  PROVE  \A q \in Asked : topic[q] = SubjectOf(question, q)
<1>1. Asked = 1 .. Last /\ Last \in Nat
  BY Sizes
<1>2. ASSUME NEW q \in Asked
      PROVE  /\ question[q].relation = "related" => topic[q] = topic[question[q].judged]
             /\ question[q].relation = "expansion" => topic[q] = topic[question[q].source]
             /\ question[q].relation \notin {"related", "expansion"} => topic[q] = q
  <2>1. topic[q] = CASE question[q].relation = "related"   -> topic[question[q].judged]
                     [] question[q].relation = "expansion" -> topic[question[q].source]
                     [] OTHER                              -> q
    BY <1>2, TopicEquation, Zenon
  <2>2. CASE question[q].relation = "related"
    <3>1. topic[q] = topic[question[q].judged]
      BY <2>1, <2>2, Zenon
    <3> QED
      BY <2>2, <3>1
  <2>3. CASE question[q].relation = "expansion"
    <3>1. topic[q] = topic[question[q].source]
      BY <2>1, <2>3, Zenon
    <3> QED
      BY <2>3, <3>1
  <2>4. CASE question[q].relation \notin {"related", "expansion"}
    <3>1. question[q].relation # "related" /\ question[q].relation # "expansion"
      BY <2>4
    <3>2. topic[q] = q
      BY <2>1, <3>1, Zenon
    <3> QED
      BY <2>4, <3>2
  <2> QED
    BY <2>2, <2>3, <2>4
<1> DEFINE T == {q \in Asked : topic[q] # SubjectOf(question, q)}
<1>3. ASSUME T # {} PROVE FALSE
  <2>1. T \subseteq Nat
    BY <1>1
  <2>2. PICK q \in T : \A p \in T : q <= p
    <3> HIDE DEF T
    <3> QED
      BY <1>3, <2>1, SmallestExists
  <2>3. \A p \in Asked : p < q => topic[p] = SubjectOf(question, p)
    <3> TAKE p \in Asked
    <3>1. p \in T => q <= p
      BY <2>2
    <3>2. p \in Nat /\ q \in Nat
      BY <1>1, <2>2
    <3> QED
      BY <3>1, <3>2
  <2>4. q \in Asked /\ topic[q] # SubjectOf(question, q)
    OBVIOUS
  <2>5. topic[q] = SubjectOf(question, q)
    BY <1>2, <2>3, <2>4, SubjectEquation
  <2> QED
    BY <2>4, <2>5
<1> QED
  BY <1>3

LEMMA RowsIsolate ==
  ASSUME TypeOK, RowsInv
  PROVE  TopicIsolated
<1>1. ASSUME NEW q \in Asked, NEW r \in question[q].context PROVE topic[r] = topic[q]
  <2>1. RowOK(question, session, q) /\ Asked = 1 .. Last /\ Last \in Nat
    BY Sizes DEF RowsInv
  <2>2. r \in 1 .. q - 1 /\ SubjectOf(question, r) = SubjectOf(question, q)
    BY <1>1, <2>1 DEF RowOK, ContextRow
  <2>3. r \in Asked
    BY <2>1, <2>2
  <2> QED
    BY <2>2, <2>3, TopicIsSubject
<1> QED
  BY <1>1 DEF TopicIsolated

-----------------------------------------------------------------------------
(* The theorems.                                                           *)

IInv == Placed /\ RowsInv /\ OpenInv /\ BeganInv /\ CarryInv /\ CacheInv

LEMMA InitInv ==
  ASSUME Init
  PROVE  IInv
<1>1. Placed
  BY InitPlaced
<1>2. Asked = {} /\ cache = {} /\ task.pc = "idle"
  BY IdleType DEF Init, Asked
<1>3. RowsInv /\ OpenInv /\ BeganInv /\ CarryInv /\ CacheInv
  BY <1>2 DEF RowsInv, OpenInv, BeganInv, CarryInv, CacheInv, CacheIsImpersonal, PendingCache,
              Busy
<1> QED
  BY <1>1, <1>3 DEF IInv

LEMMA StepRows ==
  ASSUME IInv, [Next]_vars
  PROVE  RowsInv'
<1>1. Placed /\ RowsInv /\ OpenInv /\ BeganInv /\ CarryInv
  BY DEF IInv
<1>2. CASE Accept
  BY <1>1, <1>2, AcceptRows
<1>3. CASE Relate
  BY <1>1, <1>3, RelateRows
<1>4. CASE Admit
  BY <1>1, <1>4, AdmitRows
<1>5. CASE Reject
  BY <1>1, <1>5, RejectRows
<1>6. CASE Fail
  BY <1>1, <1>6, FailRows
<1>7. CASE ServeCached
  BY <1>1, <1>7, ServeRows
<1>8. ASSUME NEW status \in {"answered", "truncated"}, Answer(status) PROVE RowsInv'
  BY <1>1, <1>8, AnswerRows
<1>9. ASSUME NEW q \in Asked, Expand(q) PROVE RowsInv'
  BY <1>1, <1>9, ExpandRows
<1>10. ASSUME \/ \E private \in BOOLEAN, s \in 0 .. MaxSessions : Ask(private, s)
              \/ \E s \in DOMAIN session : Refuse(s)
              \/ Remember \/ CannotPay \/ UNCHANGED vars
              \/ \E forget \in BOOLEAN : Close(forget)
              \/ \E s \in DOMAIN session, blocked \in BOOLEAN : SetBlocked(s, blocked)
       PROVE  RowsInv'
  <2>1. question' = question
    BY <1>10 DEF Ask, Refuse, Remember, CannotPay, vars, Close, SetBlocked
  <2>2. SessionsStay
    <3>1. CASE UNCHANGED vars
      BY <1>1, <3>1, SessionsKept DEF vars, Placed
    <3>2. CASE ~UNCHANGED vars
      BY <1>1, <1>10, <3>2, StepStays DEF Next
    <3> QED
      BY <3>1, <3>2
  <2> QED
    BY <1>1, <2>1, <2>2, RowsSame
<1> QED
  BY <1>2, <1>3, <1>4, <1>5, <1>6, <1>7, <1>8, <1>9, <1>10 DEF Next

LEMMA StepInv ==
  ASSUME IInv, [Next]_vars
  PROVE  IInv'
BY StepPlaced, StepRows, StepOpen, StepCarry, StepCache DEF IInv

\* The invariant of the proofs: where the handler is, what every question refers to, what
\* an open session holds, what is carried to an answer, and what the cache may get.
THEOREM DialogueInvariant == Spec => []IInv
<1>1. Init => IInv
  BY InitInv
<1>2. IInv /\ [Next]_vars => IInv'
  BY StepInv
<1> QED
  BY <1>1, <1>2, PTL DEF Spec

\* The types, what the handler relies on, and that no answer is made from a question of
\* another topic, whatever was expanded, rejected or failed in between.
THEOREM TopicsStayApart == Spec => []DialogueInv
<1>1. IInv => DialogueInv
  BY PlacedHandler, RowsIsolate DEF IInv, DialogueInv
<1> QED
  BY <1>1, DialogueInvariant, PTL

\* A follow-up that is given something is given the exchange it follows.
THEOREM FollowUpsHaveContext == Spec => []FollowUpHasContext
<1>1. IInv => FollowUpHasContext
  BY DEF IInv, RowsInv, RowOK, RelatedRow, FollowUpHasContext
<1> QED
  BY <1>1, DialogueInvariant, PTL

\* A private question is answered from nothing that /new or /forget had closed before it.
THEOREM ForgottenStaysForgotten == Spec => []ForgottenForGood
<1>1. IInv => ForgottenForGood
  BY DEF IInv, RowsInv, RowOK, PrivateRow, ForgottenForGood
<1> QED
  BY <1>1, DialogueInvariant, PTL

\* The cache that everybody shares holds nothing of a conversation or of a profile.
THEOREM CacheStaysImpersonal == Spec => []CacheIsImpersonal
<1>1. IInv => CacheIsImpersonal
  BY DEF IInv, CacheInv
<1> QED
  BY <1>1, DialogueInvariant, PTL

\* A closed session stays closed and keeps its summary, whenever an answer comes.
THEOREM ClosedStaysClosed == Spec => ClosedIsClosed
<1>1. IInv /\ [Next]_vars =>
         [\A s \in DOMAIN session : session[s].closed =>
             session'[s].closed /\ session'[s].summary = session[s].summary]_vars
  BY StepStays DEF IInv, SessionsStay
<1> QED
  BY <1>1, DialogueInvariant, PTL DEF Spec, ClosedIsClosed

=============================================================================
