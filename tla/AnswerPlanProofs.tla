-------------------------- MODULE AnswerPlanProofs --------------------------
(***************************************************************************)
(* Every message of a plan fits Telegram's limit, whatever the answer.     *)
(* PartsFit is inductive once the lengths of the tags that are open are    *)
(* known to add up (StackInv): a message is closed with the tags it was    *)
(* cut inside of, and the next one starts with them.                       *)
(***************************************************************************)
EXTENDS AnswerPlan, SequenceTheorems, FiniteSetTheorems, WellFoundedInduction, TLAPS

IInv == PlanInv /\ PartsFit

-----------------------------------------------------------------------------
(* Sequences.                                                              *)

LEMMA AppendElement ==
    ASSUME NEW s, s \in Seq(Elements(s)), NEW x
    PROVE  /\ Append(s, x) \in Seq(Elements(Append(s, x)))
           /\ Elements(Append(s, x)) = Elements(s) \union {x}
<1> DEFINE T == Elements(s) \union {x}
<1>1. s \in Seq(T)
  BY SeqMonotonic DEF T
<1>2. /\ Append(s, x) \in Seq(T) /\ Len(Append(s, x)) = Len(s) + 1 /\ Len(s) \in Nat
      /\ \A i \in 1 .. Len(s) : Append(s, x)[i] = s[i]
      /\ Append(s, x)[Len(s) + 1] = x /\ DOMAIN s = 1 .. Len(s)
      /\ DOMAIN Append(s, x) = 1 .. Len(s) + 1
  BY <1>1 DEF T
<1>3. Elements(Append(s, x)) = T
  BY <1>2 DEF T, Elements
<1> QED
  BY <1>2, <1>3 DEF T

LEMMA EmptyElements == <<>> \in Seq(Elements(<<>>)) /\ Elements(<<>>) = {}
BY EmptySeq DEF Elements

LEMMA OneElement == ASSUME NEW S, NEW x \in S PROVE <<x>> \in Seq(S)
OBVIOUS

LEMMA HtmlType ==
    ASSUME document \in Documents, NEW b \in -1 .. Len(document.blocks)
    PROVE  Html(b) \in Seq(Token)
<1>1. document.blocks \in Seq(Block) /\ document.source \in Seq(Token)
  BY DocumentsAssumption DEF Document
<1>2. EmptyLine \in Token
  <2>1. <<1, 1>> \in Seq({1, 2}) /\ <<1, 1>> # <<>> /\ Len(<<1, 1>>) = 2
    OBVIOUS
  <2>2. EmptyLine \in [kind : {"open", "close", "unit"}, tag : HtmlTag, width : Nat,
                       chars : Seq({1, 2})]
    BY <2>1 DEF EmptyLine, HtmlTag
  <2>3. EmptyLine.kind = "unit" /\ EmptyLine.chars = <<1, 1>> /\ EmptyLine.width = 2
    BY DEF EmptyLine
  <2>4. /\ EmptyLine.kind = "unit" => EmptyLine.chars # <<>> /\ EmptyLine.width >= Len(EmptyLine.chars)
        /\ EmptyLine.kind # "unit" => EmptyLine.chars = <<>>
        /\ EmptyLine.kind = "close" => EmptyLine.width = EndWidth(EmptyLine.tag)
    BY <2>1, <2>3
  <2> QED
    BY <2>2, <2>4 DEF Token
<1>3. CASE b = -1
  BY <1>2, <1>3 DEF Html
<1>4. CASE b = 0
  BY <1>1, <1>4 DEF Html
<1>5. CASE b \in 1 .. Len(document.blocks)
  <2>1. document.blocks[b] \in Block
    BY <1>1, <1>5
  <2> QED
    BY <2>1, <1>5 DEF Html, Block
<1> QED
  BY <1>3, <1>4, <1>5

LEMMA PlacesType ==
    ASSUME document \in Documents, NEW b \in -1 .. Len(document.blocks)
    PROVE  /\ Places(b) \in Seq(Place)
           /\ \A i \in DOMAIN Places(b) : /\ Places(b)[i].token \in DOMAIN Html(Places(b)[i].block)
                                         /\ Places(b)[i].char = 1
<1>1. Html(b) \in Seq(Token)
  BY HtmlType
<1>2. DOMAIN Html(b) = 1 .. Len(Html(b)) /\ Len(Html(b)) \in Nat
  BY <1>1
<1> QED
  BY <1>2 DEF Places, Place

\* Blocks that follow each other.
LEMMA IntervalType ==
    ASSUME NEW n \in Nat, NEW first \in 1 .. n + 1, NEW last \in Nat, last <= n
    PROVE  Interval(first, last) \in Seq(1 .. n)
BY DEF Interval

LEMMA WholeType ==
    ASSUME NEW d \in Documents
    PROVE  /\ Whole(d) \in Seq(DOMAIN d.blocks)
           /\ <<Whole(d)>> \in Seq(Seq(DOMAIN d.blocks))
<1>1. d.blocks \in Seq(Block)
  BY DocumentsAssumption DEF Document
<1>2. Len(d.blocks) \in Nat /\ DOMAIN d.blocks = 1 .. Len(d.blocks)
  BY <1>1
<1>3. Whole(d) \in Seq(DOMAIN d.blocks)
  BY <1>2 DEF Whole, Interval
<1> QED
  BY <1>3, OneElement

-----------------------------------------------------------------------------
(* What is known of a state.                                               *)

LEMMA BlocksOf ==
    ASSUME document \in Documents
    PROVE  /\ document.blocks \in Seq(Block) /\ Len(document.blocks) \in Nat
           /\ DOMAIN document.blocks = 1 .. Len(document.blocks)
           /\ \A b \in DOMAIN document.blocks : Width(b) \in Nat
<1>1. document.blocks \in Seq(Block)
  BY DocumentsAssumption DEF Document
<1>2. Len(document.blocks) \in Nat /\ DOMAIN document.blocks = 1 .. Len(document.blocks)
  BY <1>1
<1>3. ASSUME NEW b \in DOMAIN document.blocks  PROVE Width(b) \in Nat
  <2>1. document.blocks[b] \in Block
    BY <1>1, <1>2
  <2> QED
    BY <2>1 DEF Width, Block
<1> QED
  BY <1>1, <1>2, <1>3

LEMMA Lengths ==
    ASSUME TypeOK
    PROVE  Opening \in Nat /\ Closing \in Nat /\ MaxPart \in Nat /\ MaxPart >= 2
<1>1. stack # <<>> => Last(stack) \in [tag : HtmlTag, opening : Nat, closing : Nat]
  <2>1. stack \in Seq([tag : HtmlTag, opening : Nat, closing : Nat])
    BY DEF TypeOK
  <2>2. stack # <<>> => Len(stack) \in 1 .. Len(stack)
    BY <2>1
  <2> QED
    BY <2>1, <2>2, ElementOfSeq DEF Last
<1> QED
  BY <1>1, BudgetAssumption DEF Opening, Closing

LEMMA Rooms ==
    ASSUME TypeOK, StackInv, ~deep
    PROVE  Opening + Closing + 2 <= MaxPart
<1>1. CASE stack = <<>>
  BY <1>1, BudgetAssumption DEF Opening, Closing
<1>2. CASE stack # <<>>
  <2>1. Len(stack) \in DOMAIN stack
    BY <1>2 DEF TypeOK
  <2> QED
    BY <1>2, <2>1 DEF StackInv, Opening, Closing, Last
<1> QED
  BY <1>1, <1>2

LEMMA TokenType ==
    ASSUME TypeOK, tokens # <<>>
    PROVE  /\ TokenAt(tokens[1]) \in Token /\ tokens[1] \in Place
           /\ tokens[1].char = 1 \/ tokens[1].char \in DOMAIN TokenAt(tokens[1]).chars
           /\ Tail(tokens) \in Seq(Place)
           /\ \A i \in DOMAIN Tail(tokens) :
                 /\ Tail(tokens)[i].token \in DOMAIN Html(Tail(tokens)[i].block)
                 /\ \/ Tail(tokens)[i].char = 1
                    \/ Tail(tokens)[i].char \in DOMAIN TokenAt(Tail(tokens)[i]).chars
<1>1. tokens \in Seq(Place) /\ Len(tokens) \in Nat /\ 1 \in DOMAIN tokens
  BY DEF TypeOK
<1>2. tokens[1] \in Place /\ tokens[1].token \in DOMAIN Html(tokens[1].block)
  BY <1>1 DEF TypeOK
<1>3. Html(tokens[1].block) \in Seq(Token)
  BY <1>2, HtmlType DEF Place, TypeOK
<1>4. TokenAt(tokens[1]) \in Token
  BY <1>2, <1>3 DEF TokenAt
<1>5. /\ Tail(tokens) \in Seq(Place) /\ Len(Tail(tokens)) = Len(tokens) - 1
      /\ \A i \in 1 .. Len(Tail(tokens)) : Tail(tokens)[i] = tokens[i + 1]
  BY <1>1, HeadTailProperties
<1>6. \A i \in DOMAIN Tail(tokens) : i + 1 \in DOMAIN tokens /\ Tail(tokens)[i] = tokens[i + 1]
  BY <1>1, <1>5
<1>7. \A i \in DOMAIN tokens : /\ tokens[i].token \in DOMAIN Html(tokens[i].block)
                               /\ \/ tokens[i].char = 1
                                  \/ tokens[i].char \in DOMAIN TokenAt(tokens[i]).chars
  BY DEF TypeOK
<1> QED
  BY <1>1, <1>2, <1>4, <1>5, <1>6, <1>7

-----------------------------------------------------------------------------
(* What a message is made of.                                              *)

LEMMA MessageSizes ==
    /\ Empty.size = 0
    /\ Reopened.size = Opening
    /\ \A part : Closed(part).size = part.size + Closing
    /\ \A part, width, text, tags : Added(part, width, text, tags).size = part.size + width
BY DEF Empty, Reopened, Closed, Added

\* A message that is complete joins the others; the limit holds for it as for them.
LEMMA FlushedFits ==
    ASSUME TypeOK, PartsFit
    PROVE  /\ Flushed \in Seq(Elements(Flushed))
           /\ \A part \in Elements(Flushed) : part.size \in Nat
           /\ ~deep => \A part \in Elements(Flushed) : part.size <= MaxPart
<1>1. /\ parts \in Seq(Elements(parts)) /\ current.size \in Nat
      /\ \A part \in Elements(parts) : part.size \in Nat
      /\ ~deep => \A part \in Elements(parts) : part.size <= MaxPart
      /\ ~deep => current.size + Closing <= MaxPart
  BY DEF TypeOK, PartsFit, AllParts
<1>2. Closed(current).size = current.size + Closing /\ Closing \in Nat
  BY MessageSizes, Lengths
<1>3. CASE current.size > 0
  <2>1. Flushed = Append(parts, Closed(current))
    BY <1>3 DEF Flushed
  <2>2. /\ Append(parts, Closed(current)) \in Seq(Elements(Append(parts, Closed(current))))
        /\ Elements(Append(parts, Closed(current))) = Elements(parts) \union {Closed(current)}
    BY <1>1, AppendElement
  <2> QED
    BY <1>1, <1>2, <2>1, <2>2
<1>4. CASE ~(current.size > 0)
  BY <1>1, <1>4 DEF Flushed
<1> QED
  BY <1>3, <1>4

LEMMA MadeFits ==
    ASSUME TypeOK, StackInv, PartsFit, pc # "split"
    PROVE  ~deep => \A part \in Elements(Made) : part.size <= MaxPart
<1>1. stack = <<>> /\ Closing = 0
  BY DEF StackInv, Closing
<1>2. /\ parts \in Seq(Elements(parts)) /\ current.size \in Nat
      /\ ~deep => \A part \in Elements(parts) : part.size <= MaxPart
      /\ ~deep => current.size <= MaxPart
  BY <1>1 DEF TypeOK, PartsFit, AllParts
<1>3. CASE current.size > 0
  <2>1. Elements(Append(parts, current)) = Elements(parts) \union {current}
    BY <1>2, AppendElement
  <2>2. Made = Append(parts, current)
    BY <1>3 DEF Made
  <2> QED
    BY <1>2, <2>1, <2>2
<1>4. CASE ~(current.size > 0)
  BY <1>2, <1>4 DEF Made
<1> QED
  BY <1>3, <1>4

\* What the limit says of the next state, given its parts.
LEMMA FitsAgain ==
    ASSUME ~deep' => /\ \A part \in Elements(parts') : part.size <= MaxPart
                     /\ current'.size + Closing' <= MaxPart,
           ~deep' => \A group \in Elements(plan') : \A part \in Elements(group.parts) :
                         part.size <= MaxPart
    PROVE  PartsFit'
BY DEF PartsFit, AllParts

LEMMA PlanFits ==
    ASSUME PartsFit
    PROVE  ~deep => \A group \in Elements(plan) : \A part \in Elements(group.parts) :
                        part.size <= MaxPart
BY DEF PartsFit, AllParts

-----------------------------------------------------------------------------
(* Every step keeps the invariant.                                         *)

LEMMA InitHolds == ASSUME Init PROVE IInv
<1> DEFINE n == Len(document.blocks)
<1>1. document \in Documents /\ stack = <<>> /\ parts = <<>> /\ plan = <<>> /\ current = Empty
      /\ deep = FALSE /\ mode \in Rendering /\ pc \in {"pack", "place", "split"}
  BY DEF Init
<1>2. document.blocks \in Seq(Block) /\ n \in Nat /\ DOMAIN document.blocks = 1 .. n
  BY <1>1, BlocksOf
<1>3. /\ tokens \in Seq(Place)
      /\ \A i \in DOMAIN tokens : /\ tokens[i].token \in DOMAIN Html(tokens[i].block)
                                 /\ tokens[i].char = 1
      /\ pc # "split" => tokens = <<>>
  <2>1. /\ Places(0) \in Seq(Place)
        /\ \A i \in DOMAIN Places(0) : /\ Places(0)[i].token \in DOMAIN Html(Places(0)[i].block)
                                      /\ Places(0)[i].char = 1
    <3>1. 0 \in -1 .. n
      BY <1>2
    <3> QED
      BY <1>1, <3>1, PlacesType
  <2>2. CASE tokens = Places(0) /\ pc = "split"
    BY <2>1, <2>2
  <2>3. CASE tokens = <<>>
    BY <2>3
  <2> QED
    BY <2>2, <2>3 DEF Init
<1>4. /\ groups \in IF mode = "source" THEN {<<>>, <<<<0>>>>} ELSE Seq(Seq(DOMAIN document.blocks))
      /\ blocks \in Seq(DOMAIN document.blocks)
      /\ groups = <<>> => blocks = <<>> /\ pc # "split"
      /\ pc = "pack" => mode = "rich" /\ blocks = <<>> /\ groups = <<>>
      /\ pc # "cut"
  <2>1. Whole(document) \in Seq(DOMAIN document.blocks)
        /\ <<Whole(document)>> \in Seq(Seq(DOMAIN document.blocks))
    BY <1>1, WholeType
  <2>2. <<Whole(document)>> # <<>> /\ <<<<0>>>> # <<>>
    OBVIOUS
  <2>3. <<>> \in Seq(DOMAIN document.blocks) /\ <<>> \in Seq(Seq(DOMAIN document.blocks))
    BY EmptySeq
  <2> QED
    BY <2>1, <2>2, <2>3 DEF Init
<1>5. current.size = 0 /\ Closing = 0 /\ Made = <<>>
  BY <1>1, MessageSizes DEF Closing, Made
<1>6. /\ start = n /\ DOMAIN best = {n + 1} /\ best[n + 1] \in Packed
  BY <1>2 DEF Init, Packed
<1>7. start \in Nat /\ best \in [DOMAIN best -> Packed]
  <2>1. best = [s \in {n + 1} |-> [messages |-> 0, penalty |-> 0, end |-> n]]
    BY <1>6 DEF Init
  <2> QED
    BY <1>2, <1>6, <2>1 DEF Packed
<1>8. TypeOK
  <2>1. parts \in Seq(Elements(parts)) /\ plan \in Seq(Elements(plan))
        /\ \A part \in Elements(parts) : part.size \in Nat
    BY <1>1, EmptyElements
  <2>2. stack \in Seq([tag : HtmlTag, opening : Nat, closing : Nat])
    BY <1>1, EmptySeq
  <2>3. \A i \in DOMAIN tokens : tokens[i].char = 1 \/ tokens[i].char \in DOMAIN TokenAt(tokens[i]).chars
    BY <1>3
  <2>4. pc \in {"pack", "cut", "place", "split", "done"}
    BY <1>1
  <2>5. deep \in BOOLEAN
    BY <1>1
  <2>6. current.size \in Nat
    BY <1>5
  <2> QED
    BY ONLY <1>1, <1>3, <1>4, <1>7, <2>1, <2>2, <2>3, <2>4, <2>5, <2>6 DEF TypeOK
<1>9. StackInv
  BY <1>1, <1>3, <1>4, <1>5 DEF StackInv
<1>10. PackInv
  <2>1. n + 1 .. n + 1 = {n + 1} /\ ~(n + 1 <= n)
    BY <1>2
  <2> QED
    BY <1>1, <1>2, <1>4, <1>6, <2>1 DEF PackInv, Packing
<1>11. PartsFit
  BY <1>1, <1>5, EmptyElements, BudgetAssumption DEF PartsFit, AllParts
<1> QED
  BY <1>8, <1>9, <1>10, <1>11 DEF IInv, PlanInv

\* Outside of the packing nothing changes of it.
LEMMA PackNext ==
    ASSUME PackInv, ~Packing', UNCHANGED <<document, start, best>>
    PROVE  PackInv'
BY DEF PackInv, Packing

LEMMA PlaceBlockStep == ASSUME IInv, PlaceBlock PROVE IInv'
<1>1. TypeOK /\ StackInv /\ PackInv /\ PartsFit
  BY DEF IInv, PlanInv
<1>2. /\ document \in Documents /\ blocks \in Seq(DOMAIN document.blocks) /\ blocks # <<>>
      /\ stack = <<>> /\ tokens = <<>> /\ pc = "place"
      /\ UNCHANGED <<document, mode, start, best, groups, stack, plan, deep>>
  BY <1>1 DEF PlaceBlock, TypeOK, StackInv
<1>3. blocks[1] \in DOMAIN document.blocks /\ Len(blocks) \in Nat
      /\ (Len(blocks) > 1 => blocks[2] \in DOMAIN document.blocks)
  BY <1>2
<1>4. Tail(blocks) \in Seq(DOMAIN document.blocks)
      /\ (Len(blocks) > 1 => Tail(Tail(blocks)) \in Seq(DOMAIN document.blocks))
  <2>1. Tail(blocks) \in Seq(DOMAIN document.blocks) /\ Len(Tail(blocks)) = Len(blocks) - 1
    BY <1>2, HeadTailProperties
  <2>2. ASSUME Len(blocks) > 1  PROVE Tail(Tail(blocks)) \in Seq(DOMAIN document.blocks)
    <3> DEFINE rest == Tail(blocks)
    <3>1. rest \in Seq(DOMAIN document.blocks) /\ Len(rest) > 0
      BY <1>3, <2>1, <2>2
    <3> HIDE DEF rest
    <3>2. rest # <<>>
      BY <3>1
    <3>3. Tail(rest) \in Seq(DOMAIN document.blocks)
      BY <3>1, <3>2, HeadTailProperties
    <3> QED
      BY <3>3 DEF rest
  <2> QED
    BY <2>1, <2>2
<1>5. blocks' \in Seq(DOMAIN document.blocks)
  BY <1>4 DEF PlaceBlock, Glued
<1>6. DOMAIN document.blocks = 1 .. Len(document.blocks) /\ Len(document.blocks) \in Nat
      /\ \A b \in DOMAIN document.blocks : Width(b) \in Nat
  BY <1>2, BlocksOf
<1> DEFINE width == IF Glued THEN Width(blocks[1]) + 2 + Width(blocks[2]) ELSE Width(blocks[1])
           line == IF current.size > 0 THEN 2 ELSE 0
<1>7. width \in Nat /\ line \in Nat /\ current.size \in Nat /\ MaxPart \in Nat
  <2>1. Width(blocks[1]) \in Nat /\ (Len(blocks) > 1 => Width(blocks[2]) \in Nat)
    BY <1>3, <1>6
  <2>2. width \in Nat
    BY <2>1 DEF Glued
  <2> QED
    BY <1>1, <2>2, BudgetAssumption DEF TypeOK
<1>8. Opening = 0 /\ Closing = 0 /\ Closing' = 0
  BY <1>2 DEF Opening, Closing
<1>9. /\ parts \in Seq(Elements(parts)) /\ \A part \in Elements(parts) : part.size \in Nat
      /\ ~deep => /\ \A part \in Elements(parts) : part.size <= MaxPart
                  /\ current.size + Closing <= MaxPart
  BY <1>1 DEF TypeOK, PartsFit, AllParts
<1>10. /\ current'.size \in Nat /\ parts' \in Seq(Elements(parts'))
       /\ \A part \in Elements(parts') : part.size \in Nat
       /\ ~deep => /\ \A part \in Elements(parts') : part.size <= MaxPart
                   /\ current'.size + Closing' <= MaxPart
  <2>1. CASE UNCHANGED <<parts, current>>
    BY <1>7, <1>8, <1>9, <2>1
  <2>2. CASE \E text, tags : /\ current' = Added(current, line + width, text, tags)
                            /\ current.size + line + width <= MaxPart /\ UNCHANGED parts
    <3>1. current'.size = current.size + (line + width)
      BY <2>2, MessageSizes
    <3> QED
      BY <1>7, <1>8, <1>9, <2>2, <3>1
  <2>3. CASE parts' = Flushed /\ current' = Empty
    BY <1>1, <1>8, <2>3, FlushedFits, MessageSizes, BudgetAssumption
  <2> QED
    BY <2>1, <2>2, <2>3 DEF PlaceBlock
<1>11. /\ tokens' \in Seq(Place) /\ pc' \in {"place", "split"}
       /\ \A i \in DOMAIN tokens' : /\ tokens'[i].token \in DOMAIN Html(tokens'[i].block)
                                   /\ tokens'[i].char = 1
       /\ pc' # "split" => tokens' = <<>>
  <2> DEFINE Good(ts) == /\ ts \in Seq(Place)
                         /\ \A i \in DOMAIN ts : /\ ts[i].token \in DOMAIN Html(ts[i].block)
                                                /\ ts[i].char = 1
  <2>1. \A b \in -1 .. Len(document.blocks) : Good(Places(b))
    BY <1>2, PlacesType
  <2>2. ASSUME NEW s, NEW t, Good(s), Good(t)  PROVE Good(s \o t)
    <3>1. /\ s \o t \in Seq(Place) /\ Len(s) \in Nat /\ Len(t) \in Nat
          /\ DOMAIN s = 1 .. Len(s) /\ DOMAIN t = 1 .. Len(t)
          /\ DOMAIN (s \o t) = 1 .. Len(s) + Len(t)
          /\ \A i \in 1 .. Len(s) + Len(t) :
                (s \o t)[i] = IF i <= Len(s) THEN s[i] ELSE t[i - Len(s)]
      BY <2>2, ConcatProperties
    <3>2. \A i \in 1 .. Len(s) + Len(t) : \/ i \in DOMAIN s /\ (s \o t)[i] = s[i]
                                          \/ i - Len(s) \in DOMAIN t /\ (s \o t)[i] = t[i - Len(s)]
      BY <3>1
    <3> QED
      BY <2>2, <3>1, <3>2
  <2>3. Good(Places(blocks[1])) /\ (Len(blocks) > 1 => Good(Places(blocks[2]))) /\ Good(Places(-1))
    BY <1>3, <1>6, <2>1
  <2>4. Len(blocks) > 1 => Good(Places(blocks[1]) \o Places(-1) \o Places(blocks[2]))
    <3> HIDE DEF Good
    <3> QED
      BY <2>2, <2>3
  <2>5. CASE UNCHANGED <<tokens, pc>>
    BY <1>2, <2>5
  <2>6. CASE /\ pc' = "split"
             /\ tokens' = IF Glued THEN Places(blocks[1]) \o Places(-1) \o Places(blocks[2])
                          ELSE Places(blocks[1])
    BY <2>3, <2>4, <2>6 DEF Glued
  <2> QED
    BY <2>5, <2>6 DEF PlaceBlock
<1>12. TypeOK'
  BY <1>1, <1>2, <1>5, <1>10, <1>11 DEF TypeOK, Place, Html, TokenAt
<1>15. PackInv'
  BY <1>1, <1>2, <1>11, PackNext DEF Packing
<1>13. StackInv'
  <2>1. groups # <<>>
    BY <1>1, <1>2 DEF StackInv
  <2> QED
    BY <1>2, <1>11, <2>1 DEF StackInv
<1>14. PartsFit'
  BY <1>1, <1>2, <1>10, PlanFits, FitsAgain
<1> QED
  BY <1>12, <1>13, <1>14, <1>15 DEF IInv, PlanInv

\* The groups of an answer whose source is sent.
SourceOnly == <<<<0>>>>
SourceGroups == {<<>>, SourceOnly}

\* What the type invariant says of the next state.
LEMMA TypeNext ==
    ASSUME TypeOK, document' = document, start' \in Nat, best' \in [DOMAIN best' -> Packed],
           mode' \in Rendering, pc' \in {"pack", "cut", "place", "split", "done"}, deep' \in BOOLEAN,
           groups' \in IF mode' = "source" THEN SourceGroups ELSE Seq(Seq(DOMAIN document.blocks)),
           blocks' \in Seq(DOMAIN document.blocks), tokens' \in Seq(Place),
           \A i \in DOMAIN tokens' :
               /\ tokens'[i].token \in DOMAIN Html(tokens'[i].block)
               /\ tokens'[i].char = 1 \/ tokens'[i].char \in DOMAIN TokenAt(tokens'[i]).chars,
           stack' \in Seq([tag : HtmlTag, opening : Nat, closing : Nat]),
           current'.size \in Nat, parts' \in Seq(Elements(parts')),
           \A part \in Elements(parts') : part.size \in Nat, plan' \in Seq(Elements(plan'))
    PROVE  TypeOK'
BY DEF TypeOK, Place, Html, TokenAt, SourceGroups, SourceOnly

\* While a value is cut, a step leaves the groups and the plan alone.
LEMMA SplitNext ==
    ASSUME IInv, pc = "split", UNCHANGED Rest, deep' \in BOOLEAN, tokens' \in Seq(Place),
           \A i \in DOMAIN tokens' :
               /\ tokens'[i].token \in DOMAIN Html(tokens'[i].block)
               /\ tokens'[i].char = 1 \/ tokens'[i].char \in DOMAIN TokenAt(tokens'[i]).chars,
           stack' \in Seq([tag : HtmlTag, opening : Nat, closing : Nat]),
           current'.size \in Nat, parts' \in Seq(Elements(parts')),
           \A part \in Elements(parts') : part.size \in Nat,
           \A i \in DOMAIN stack' : i > 1 => stack'[i - 1].opening <= stack'[i].opening
                                            /\ stack'[i - 1].closing <= stack'[i].closing,
           ~deep' => \A i \in DOMAIN stack' : stack'[i].opening + stack'[i].closing + 2 <= MaxPart,
           ~deep' => /\ ~deep
                     /\ \A part \in Elements(parts') : part.size <= MaxPart
                     /\ current'.size + Closing' <= MaxPart
    PROVE  IInv'
<1>1. TypeOK /\ StackInv /\ PackInv /\ PartsFit /\ groups # <<>>
  BY DEF IInv, PlanInv, StackInv
<1>2. /\ document' = document /\ mode' = mode /\ groups' = groups /\ blocks' = blocks
      /\ plan' = plan /\ pc' = pc /\ start' = start /\ best' = best
  BY DEF Rest
<1>3. TypeOK'
  <2>1. /\ mode \in Rendering /\ pc \in {"pack", "cut", "place", "split", "done"}
        /\ plan \in Seq(Elements(plan)) /\ start \in Nat /\ best \in [DOMAIN best -> Packed]
        /\ groups \in IF mode = "source" THEN {<<>>, <<<<0>>>>} ELSE Seq(Seq(DOMAIN document.blocks))
        /\ blocks \in Seq(DOMAIN document.blocks)
    BY <1>1 DEF TypeOK
  <2> QED
    BY <1>1, <1>2, <2>1, TypeNext DEF SourceGroups, SourceOnly
<1>4. StackInv'
  BY <1>1, <1>2 DEF StackInv
<1>5. PartsFit'
  BY <1>1, <1>2, PlanFits, FitsAgain
<1>6. PackInv'
  BY <1>1, <1>2, PackNext DEF Packing
<1> QED
  BY <1>3, <1>4, <1>5, <1>6 DEF IInv, PlanInv

\* A message being filled, before and after a step that leaves the open tags alone.
LEMMA SameStack ==
    ASSUME IInv
    PROVE  /\ \A i \in DOMAIN stack : i > 1 => stack[i - 1].opening <= stack[i].opening
                                             /\ stack[i - 1].closing <= stack[i].closing
           /\ ~deep => \A i \in DOMAIN stack : stack[i].opening + stack[i].closing + 2 <= MaxPart
           /\ stack \in Seq([tag : HtmlTag, opening : Nat, closing : Nat]) /\ deep \in BOOLEAN
BY DEF IInv, PlanInv, StackInv, TypeOK

LEMMA SamePart ==
    ASSUME IInv
    PROVE  /\ parts \in Seq(Elements(parts)) /\ current.size \in Nat
           /\ \A part \in Elements(parts) : part.size \in Nat
           /\ ~deep => /\ \A part \in Elements(parts) : part.size <= MaxPart
                       /\ current.size + Closing <= MaxPart
BY DEF IInv, PlanInv, TypeOK, PartsFit, AllParts

LEMMA UnitStep == ASSUME IInv, Unit PROVE IInv'
<1>1. TypeOK /\ StackInv /\ PackInv /\ PartsFit
  BY DEF IInv, PlanInv
<1>2. /\ pc = "split" /\ tokens # <<>> /\ tokens' = Tail(tokens)
      /\ UNCHANGED Rest /\ stack' = stack /\ deep' = deep
  BY DEF Unit, Reads
<1> DEFINE token == TokenAt(tokens[1])
           text == CharsFrom(tokens[1])
<1>3. token.width \in Nat
  BY <1>1, <1>2, TokenType DEF Token
<1>4. Opening \in Nat /\ Closing \in Nat /\ MaxPart \in Nat /\ Closing' = Closing
  BY <1>1, <1>2, Lengths DEF Closing
<1>5. /\ current'.size \in Nat /\ parts' \in Seq(Elements(parts'))
      /\ \A part \in Elements(parts') : part.size \in Nat
      /\ ~deep => /\ \A part \in Elements(parts') : part.size <= MaxPart
                  /\ current'.size + Closing <= MaxPart
  <2>1. CASE FitsHere(token) /\ current' = Added(current, token.width, text, <<>>) /\ parts' = parts
    <3>1. current'.size = current.size + token.width
      BY <2>1, MessageSizes
    <3> HIDE DEF token
    <3>2. current.size + token.width + Closing <= MaxPart
      BY <2>1 DEF FitsHere
    <3> QED
      BY <1>3, <1>4, <2>1, <3>1, <3>2, SamePart
  <2>2. CASE FitsNext(token) /\ current' = Added(Reopened, token.width, text, <<>>) /\ parts' = Flushed
    <3>1. current'.size = Opening + token.width
      BY <2>2, MessageSizes
    <3> HIDE DEF token
    <3>2. Opening + token.width + Closing <= MaxPart
      BY <2>2 DEF FitsNext
    <3> QED
      BY <1>1, <1>3, <1>4, <2>2, <3>1, <3>2, FlushedFits
  <2> QED
    BY <2>1, <2>2 DEF Unit
<1> QED
  BY <1>1, <1>2, <1>4, <1>5, TokenType, SameStack, SplitNext

LEMMA CharacterStep == ASSUME IInv, Character PROVE IInv'
<1>1. TypeOK /\ StackInv /\ PackInv /\ PartsFit
  BY DEF IInv, PlanInv
<1> DEFINE place == tokens[1]
           token == TokenAt(tokens[1])
           width == token.chars[place.char]
           full == current.size + width + Closing > MaxPart
<1>2. /\ pc = "split" /\ tokens # <<>> /\ token.kind = "unit"
      /\ tokens' = IF place.char = Len(token.chars) THEN Tail(tokens)
                   ELSE [tokens EXCEPT ![1].char = @ + 1]
      /\ parts' = IF full THEN Flushed ELSE parts
      /\ current' = Added(IF full THEN Reopened ELSE current, width, CharAt(place), <<>>)
      /\ UNCHANGED Rest /\ stack' = stack /\ deep' = deep
  BY DEF Character, Reads
<1>3. token \in Token /\ place \in Place /\ place.char \in DOMAIN token.chars
  <2>1. token \in Token /\ place \in Place /\ (place.char = 1 \/ place.char \in DOMAIN token.chars)
    BY <1>1, <1>2, TokenType
  <2>2. token.chars \in Seq({1, 2}) /\ token.chars # <<>>
    BY <1>2, <2>1 DEF Token
  <2>3. 1 \in DOMAIN token.chars
    BY <2>2
  <2> QED
    BY <2>1, <2>3
<1>4. width \in {1, 2}
  BY <1>3 DEF Token
<1>5. Opening \in Nat /\ Closing \in Nat /\ MaxPart \in Nat /\ Closing' = Closing
  BY <1>1, <1>2, Lengths DEF Closing
<1>6. /\ current'.size \in Nat /\ parts' \in Seq(Elements(parts'))
      /\ \A part \in Elements(parts') : part.size \in Nat
      /\ ~deep => /\ \A part \in Elements(parts') : part.size <= MaxPart
                  /\ current'.size + Closing <= MaxPart
  <2>1. CASE full
    <3>1. current'.size = Opening + width /\ parts' = Flushed
      BY <1>2, <2>1, MessageSizes
    <3>2. ~deep => Opening + Closing + 2 <= MaxPart
      BY <1>1, Rooms
    <3> HIDE DEF width
    <3> QED
      BY <1>1, <1>4, <1>5, <3>1, <3>2, FlushedFits
  <2>2. CASE ~full
    <3>1. current'.size = current.size + width /\ parts' = parts
      BY <1>2, <2>2, MessageSizes
    <3>2. current.size \in Nat
      BY <1>1 DEF TypeOK
    <3>3. current.size + width + Closing <= MaxPart
      <4> HIDE DEF width
      <4> QED
        BY <1>4, <1>5, <2>2, <3>2
    <3> HIDE DEF width
    <3> QED
      BY <1>4, <1>5, <3>1, <3>3, SamePart
  <2> QED
    BY <2>1, <2>2
<1>7. /\ tokens' \in Seq(Place)
      /\ \A i \in DOMAIN tokens' :
            /\ tokens'[i].token \in DOMAIN Html(tokens'[i].block)
            /\ tokens'[i].char = 1 \/ tokens'[i].char \in DOMAIN TokenAt(tokens'[i]).chars
  <2>1. CASE place.char = Len(token.chars)
    BY <1>1, <1>2, <2>1, TokenType
  <2>2. CASE place.char # Len(token.chars)
    <3> DEFINE next == [place EXCEPT !.char = @ + 1]
    <3>1. /\ next \in Place /\ next.token = place.token /\ next.block = place.block
          /\ next.char = place.char + 1 /\ next.char \in DOMAIN token.chars
      BY <1>3, <2>2 DEF Place, Token
    <3>2. TokenAt(next) = token /\ next.token \in DOMAIN Html(next.block)
      BY <1>1, <1>2, <3>1 DEF TokenAt, TypeOK
    <3> HIDE DEF next
    <3>3. tokens' = [tokens EXCEPT ![1] = next] /\ tokens \in Seq(Place)
      BY <1>1, <1>2, <2>2 DEF next, TypeOK
    <3>4. /\ tokens' \in Seq(Place) /\ DOMAIN tokens' = DOMAIN tokens /\ tokens'[1] = next
          /\ \A i \in DOMAIN tokens : i # 1 => tokens'[i] = tokens[i]
      BY <1>2, <3>1, <3>3
    <3>5. \A i \in DOMAIN tokens : /\ tokens[i].token \in DOMAIN Html(tokens[i].block)
                                    /\ \/ tokens[i].char = 1
                                       \/ tokens[i].char \in DOMAIN TokenAt(tokens[i]).chars
      BY <1>1 DEF TypeOK
    <3> QED
      BY <3>1, <3>2, <3>4, <3>5
  <2> QED
    BY <2>1, <2>2
<1> QED
  BY <1>1, <1>2, <1>5, <1>6, <1>7, SameStack, SplitNext

LEMMA OpenTagStep == ASSUME IInv, OpenTag PROVE IInv'
<1>1. TypeOK /\ StackInv /\ PackInv /\ PartsFit
  BY DEF IInv, PlanInv
<1> DEFINE token == TokenAt(tokens[1])
           full == current.size + token.width + Closing + EndWidth(token.tag) > MaxPart
           S == [tag : HtmlTag, opening : Nat, closing : Nat]
           new == [tag |-> token.tag, opening |-> Opening + token.width,
                   closing |-> Closing + EndWidth(token.tag)]
<1>2. pc = "split" /\ tokens # <<>> /\ tokens' = Tail(tokens) /\ UNCHANGED Rest
  BY DEF OpenTag, Reads
<1>3. token.width \in Nat /\ EndWidth(token.tag) \in Nat /\ token.tag \in HtmlTag
  BY <1>1, <1>2, TokenType DEF Token, EndWidth
<1>4. Opening \in Nat /\ Closing \in Nat /\ MaxPart \in Nat
  BY <1>1, Lengths
<1>5. CASE UNCHANGED <<stack, parts, current, deep>>
  <2>1. Closing' = Closing
    BY <1>5 DEF Closing
  <2> QED
    BY <1>1, <1>2, <1>5, <2>1, TokenType, SameStack, SamePart, SplitNext
<1>6. CASE /\ parts' = IF full THEN Flushed ELSE parts
           /\ current' = Added(IF full THEN Reopened ELSE current, token.width, <<>>, <<Tag(token)>>)
           /\ stack' = Append(stack, new)
           /\ deep' = (deep \/ Opening + token.width + Closing + EndWidth(token.tag) + 2 > MaxPart)
  <2>1. new \in S /\ stack \in Seq(S)
    BY <1>1, <1>3, <1>4 DEF TypeOK
  <2>2. /\ stack' \in Seq(S) /\ Len(stack) \in Nat /\ Len(stack') = Len(stack) + 1
        /\ DOMAIN stack' = 1 .. Len(stack) + 1 /\ DOMAIN stack = 1 .. Len(stack)
        /\ \A i \in 1 .. Len(stack) : stack'[i] = stack[i]
        /\ stack'[Len(stack) + 1] = new
    <3> HIDE DEF new, S
    <3> QED
      BY <1>6, <2>1, AppendProperties
  <2>3. new.opening = Opening + token.width /\ new.closing = Closing + EndWidth(token.tag)
    OBVIOUS
  <2>4. stack' # <<>> /\ Closing' = Closing + EndWidth(token.tag)
    <3>1. stack' # <<>>
      BY <2>2
    <3>2. Closing' = stack'[Len(stack) + 1].closing
      BY <2>2, <3>1 DEF Closing, Last
    <3> QED
      BY <2>2, <2>3, <3>1, <3>2
  <2>5. \A i \in DOMAIN stack' : i > 1 => stack'[i - 1].opening <= stack'[i].opening
                                         /\ stack'[i - 1].closing <= stack'[i].closing
    <3> SUFFICES ASSUME NEW i \in DOMAIN stack', i > 1
                 PROVE  stack'[i - 1].opening <= stack'[i].opening
                        /\ stack'[i - 1].closing <= stack'[i].closing
      OBVIOUS
    <3>1. CASE i \in DOMAIN stack
      <4>1. i - 1 \in DOMAIN stack /\ stack'[i] = stack[i] /\ stack'[i - 1] = stack[i - 1]
        BY <2>2, <3>1
      <4> QED
        BY <1>1, <3>1, <4>1 DEF StackInv
    <3>2. CASE i = Len(stack) + 1
      <4>1. stack # <<>> /\ stack'[i - 1] = stack[Len(stack)] /\ stack'[i] = new
        BY <2>2, <3>2
      <4>2. stack[Len(stack)].opening = Opening /\ stack[Len(stack)].closing = Closing
        BY <4>1 DEF Opening, Closing, Last
      <4> HIDE DEF new
      <4> QED
        BY <1>3, <1>4, <2>3, <4>1, <4>2
    <3> QED
      BY <2>2, <3>1, <3>2
  <2>6. ~deep' => ~deep /\ Opening + token.width + Closing + EndWidth(token.tag) + 2 <= MaxPart
    <3>1. ~deep' => ~deep /\ ~(Opening + token.width + Closing + EndWidth(token.tag) + 2 > MaxPart)
      BY <1>6
    <3> QED
      BY <1>3, <1>4, <3>1
  <2>7. ~deep' => \A i \in DOMAIN stack' : stack'[i].opening + stack'[i].closing + 2 <= MaxPart
    <3> SUFFICES ASSUME ~deep', NEW i \in DOMAIN stack'
                 PROVE  stack'[i].opening + stack'[i].closing + 2 <= MaxPart
      OBVIOUS
    <3>1. CASE i \in DOMAIN stack
      BY <1>1, <2>2, <2>6, <3>1 DEF StackInv
    <3>2. CASE i = Len(stack) + 1
      <4>1. stack'[i].opening = Opening + token.width /\ stack'[i].closing = Closing + EndWidth(token.tag)
        BY <2>2, <2>3, <3>2
      <4> HIDE DEF token, new
      <4> QED
        BY <1>3, <1>4, <2>6, <4>1
    <3> QED
      BY <2>2, <3>1, <3>2
  <2>8. /\ current'.size \in Nat /\ parts' \in Seq(Elements(parts'))
        /\ \A part \in Elements(parts') : part.size \in Nat
        /\ ~deep' => /\ \A part \in Elements(parts') : part.size <= MaxPart
                     /\ current'.size + Closing' <= MaxPart
    <3>1. CASE full
      <4>1. current'.size = Opening + token.width /\ parts' = Flushed
        BY <1>6, <3>1, MessageSizes
      <4>2. /\ Flushed \in Seq(Elements(Flushed)) /\ \A part \in Elements(Flushed) : part.size \in Nat
            /\ ~deep => \A part \in Elements(Flushed) : part.size <= MaxPart
        BY <1>1, FlushedFits
      <4> HIDE DEF token, full, new
      <4>3. current'.size \in Nat /\ (~deep' => current'.size + Closing' <= MaxPart)
        BY <1>3, <1>4, <2>4, <2>6, <4>1
      <4> QED
        BY <2>6, <4>1, <4>2, <4>3
    <3>2. CASE ~full
      <4>1. current'.size = current.size + token.width /\ parts' = parts
        BY <1>6, <3>2, MessageSizes
      <4> HIDE DEF token
      <4> QED
        BY <1>3, <1>4, <2>4, <2>6, <3>2, <4>1, SamePart
    <3> QED
      BY <3>1, <3>2
  <2>9. deep' \in BOOLEAN
    BY <1>6
  <2> HIDE DEF token, full, new
  <2> QED
    BY <1>1, <1>2, <2>2, <2>5, <2>6, <2>7, <2>8, <2>9, TokenType, SplitNext
<1> QED
  BY <1>5, <1>6 DEF OpenTag

LEMMA CloseTagStep == ASSUME IInv, CloseTag PROVE IInv'
<1>1. TypeOK /\ StackInv /\ PackInv /\ PartsFit
  BY DEF IInv, PlanInv
<1> DEFINE token == TokenAt(tokens[1])
           S == [tag : HtmlTag, opening : Nat, closing : Nat]
           outer == IF Len(stack) > 1 THEN stack[Len(stack) - 1].closing ELSE 0
           ends == Closing - outer
<1>2. /\ pc = "split" /\ tokens # <<>> /\ tokens' = Tail(tokens)
      /\ UNCHANGED Rest /\ parts' = parts /\ deep' = deep
  BY DEF CloseTag, Reads
<1>3. Opening \in Nat /\ Closing \in Nat /\ MaxPart \in Nat /\ stack \in Seq(S)
  BY <1>1, Lengths DEF TypeOK
<1>4. CASE UNCHANGED <<stack, current>>
  <2>1. Closing' = Closing
    BY <1>4 DEF Closing
  <2> QED
    BY <1>1, <1>2, <1>4, <2>1, TokenType, SameStack, SamePart, SplitNext
<1>5. CASE /\ stack # <<>> /\ stack' = Front(stack)
           /\ current' = Added(current, ends, <<>>, <<Tag(token)>>)
  <2>1. /\ stack' \in Seq(S) /\ Len(stack) \in Nat \ {0} /\ Len(stack') = Len(stack) - 1
        /\ DOMAIN stack' = 1 .. Len(stack) - 1 /\ DOMAIN stack = 1 .. Len(stack)
        /\ \A i \in 1 .. Len(stack) - 1 : stack'[i] = stack[i]
    <3> HIDE DEF S
    <3>1. /\ Front(stack) \in Seq(S) /\ Len(Front(stack)) = Len(stack) - 1
          /\ \A i \in 1 .. Len(stack) - 1 : Front(stack)[i] = stack[i]
      BY <1>3, <1>5, SubSeqProperties DEF Front
    <3> QED
      BY <1>3, <1>5, <3>1
  <2>2. Closing' = outer /\ outer \in Nat /\ outer <= Closing
    <3>1. CASE Len(stack) > 1
      <4>1. stack' # <<>> /\ Last(stack') = stack[Len(stack) - 1]
        BY <2>1, <3>1 DEF Last
      <4>2. stack[Len(stack) - 1] \in S /\ stack[Len(stack)] \in S
        <5> HIDE DEF S
        <5> QED
          BY <1>3, <2>1, <3>1, ElementOfSeq
      <4>3. stack[Len(stack) - 1].closing <= stack[Len(stack)].closing
        BY <1>1, <2>1, <3>1 DEF StackInv
      <4>4. Closing = stack[Len(stack)].closing /\ Closing' = stack[Len(stack) - 1].closing
        BY <1>5, <4>1 DEF Closing, Last
      <4> QED
        BY <3>1, <4>2, <4>3, <4>4
    <3>2. CASE ~(Len(stack) > 1)
      <4>1. stack' = <<>>
        BY <2>1, <3>2
      <4> QED
        BY <1>3, <3>2, <4>1 DEF Closing
    <3> QED
      BY <3>1, <3>2
  <2>3. current'.size = current.size + ends /\ current.size \in Nat
    BY <1>1, <1>5, MessageSizes DEF TypeOK
  <2> HIDE DEF outer
  <2>4. current'.size \in Nat /\ current'.size + Closing' = current.size + Closing
    BY <1>3, <2>2, <2>3
  <2>5. /\ \A i \in DOMAIN stack' : i > 1 => stack'[i - 1].opening <= stack'[i].opening
                                            /\ stack'[i - 1].closing <= stack'[i].closing
        /\ ~deep => \A i \in DOMAIN stack' : stack'[i].opening + stack'[i].closing + 2 <= MaxPart
    <3>1. \A i \in DOMAIN stack' : /\ i \in DOMAIN stack /\ stack'[i] = stack[i]
                                   /\ i > 1 => stack'[i - 1] = stack[i - 1]
      BY <2>1
    <3> QED
      BY <1>1, <3>1 DEF StackInv
  <2> HIDE DEF ends, token
  <2> QED
    BY <1>1, <1>2, <2>1, <2>4, <2>5, TokenType, SameStack, SamePart, SplitNext
<1> QED
  BY <1>4, <1>5 DEF CloseTag

LEMMA EndSplitStep == ASSUME IInv, EndSplit PROVE IInv'
<1>1. TypeOK /\ StackInv /\ PackInv /\ PartsFit
  BY DEF IInv, PlanInv
<1>2. /\ pc = "split" /\ tokens = <<>> /\ current' = Closed(current) /\ stack' = <<>>
      /\ pc' = "place" /\ UNCHANGED <<document, mode, start, best, groups, blocks, tokens, parts, plan, deep>>
  BY DEF EndSplit
<1>3. Closing \in Nat /\ Closing' = 0 /\ current'.size = current.size + Closing
  BY <1>1, <1>2, Lengths, MessageSizes DEF Closing
<1>4. current'.size \in Nat /\ current'.size + Closing' = current.size + Closing
  BY <1>3, SamePart
<1>5. TypeOK'
  <2>1. stack' \in Seq([tag : HtmlTag, opening : Nat, closing : Nat])
    BY <1>2, EmptySeq
  <2>2. /\ mode \in Rendering /\ deep \in BOOLEAN /\ plan \in Seq(Elements(plan))
        /\ start \in Nat /\ best \in [DOMAIN best -> Packed]
        /\ groups \in IF mode = "source" THEN {<<>>, <<<<0>>>>} ELSE Seq(Seq(DOMAIN document.blocks))
        /\ blocks \in Seq(DOMAIN document.blocks) /\ tokens \in Seq(Place)
        /\ \A i \in DOMAIN tokens :
              /\ tokens[i].token \in DOMAIN Html(tokens[i].block)
              /\ tokens[i].char = 1 \/ tokens[i].char \in DOMAIN TokenAt(tokens[i]).chars
    BY <1>1 DEF TypeOK
  <2> QED
    BY <1>1, <1>2, <1>4, <2>1, <2>2, SamePart, TypeNext DEF SourceGroups, SourceOnly
<1>6. StackInv'
  BY <1>1, <1>2 DEF StackInv
<1>7. PartsFit'
  BY <1>1, <1>2, <1>4, SamePart, PlanFits, FitsAgain
<1>8. PackInv'
  BY <1>1, <1>2, PackNext DEF Packing
<1> QED
  BY <1>5, <1>6, <1>7, <1>8 DEF IInv, PlanInv

\* What a step that starts a group, or ends the last, has to show.
LEMMA GroupNext ==
    ASSUME IInv, pc # "split", document' = document, stack' = stack, deep' = deep,
           start' \in Nat, best' \in [DOMAIN best' -> Packed], PackInv',
           mode' \in Rendering, pc' \in {"pack", "cut", "place", "split", "done"},
           groups' \in IF mode' = "source" THEN SourceGroups ELSE Seq(Seq(DOMAIN document.blocks)),
           blocks' \in Seq(DOMAIN document.blocks), tokens' \in Seq(Place),
           \A i \in DOMAIN tokens' :
               /\ tokens'[i].token \in DOMAIN Html(tokens'[i].block)
               /\ tokens'[i].char = 1 \/ tokens'[i].char \in DOMAIN TokenAt(tokens'[i]).chars,
           pc' # "split" => tokens' = <<>>,
           groups' = <<>> => pc' # "split" /\ Made' = <<>> /\ blocks' = <<>>,
           \/ parts' = <<>> /\ current' = Empty
           \/ UNCHANGED <<parts, current>>,
           plan' \in Seq(Elements(plan')),
           ~deep => \A group \in Elements(plan') : \A part \in Elements(group.parts) :
                       part.size <= MaxPart
    PROVE  IInv'
<1>1. TypeOK /\ StackInv /\ PackInv /\ PartsFit /\ stack = <<>>
  BY DEF IInv, PlanInv, StackInv
<1>2. Closing' = 0 /\ Closing = 0
  BY <1>1 DEF Closing
<1>3. /\ current'.size \in Nat /\ parts' \in Seq(Elements(parts'))
      /\ \A part \in Elements(parts') : part.size \in Nat
      /\ ~deep => /\ \A part \in Elements(parts') : part.size <= MaxPart
                  /\ current'.size + Closing' <= MaxPart
  <2>1. CASE parts' = <<>> /\ current' = Empty
    BY <1>2, <2>1, EmptyElements, MessageSizes, BudgetAssumption
  <2>2. CASE UNCHANGED <<parts, current>>
    BY <1>2, <2>2, SamePart
  <2> QED
    BY <2>1, <2>2
<1>4. TypeOK'
  <2>1. deep \in BOOLEAN /\ stack \in Seq([tag : HtmlTag, opening : Nat, closing : Nat])
    BY <1>1 DEF TypeOK
  <2> QED
    BY <1>1, <1>3, <2>1, TypeNext
<1>5. StackInv'
  BY <1>1 DEF StackInv
<1>6. PartsFit'
  BY <1>3, FitsAgain
<1> QED
  BY <1>4, <1>5, <1>6 DEF IInv, PlanInv

\* What is known while the blocks are packed.
LEMMA PackingFacts ==
    ASSUME IInv, Packing
    PROVE  /\ document.blocks \in Seq(Block) /\ Len(document.blocks) \in Nat
           /\ DOMAIN document.blocks = 1 .. Len(document.blocks)
           /\ mode = "rich" /\ blocks = <<>> /\ tokens = <<>> /\ parts = <<>> /\ current = Empty
           /\ plan = <<>> /\ Made = <<>> /\ start \in Nat /\ best \in [DOMAIN best -> Packed]
           /\ groups \in Seq(Seq(DOMAIN document.blocks)) /\ document \in Documents
<1>1. TypeOK /\ StackInv /\ PackInv
  BY DEF IInv, PlanInv
<1>2. blocks = <<>> /\ parts = <<>> /\ current = Empty /\ plan = <<>> /\ mode = "rich"
  BY <1>1 DEF PackInv
<1>3. Made = <<>>
  BY <1>2, MessageSizes DEF Made
<1>4. tokens = <<>>
  BY <1>1 DEF StackInv, Packing
<1> QED
  BY <1>1, <1>2, <1>3, <1>4, BlocksOf DEF TypeOK

\* What a step of the packing has to show.
LEMMA PackingNext ==
    ASSUME IInv, Packing, UNCHANGED Placing, start' \in Nat, best' \in [DOMAIN best' -> Packed],
           PackInv', pc' \in {"pack", "cut", "place"},
           groups' \in Seq(Seq(DOMAIN document.blocks)), blocks' \in Seq(DOMAIN document.blocks),
           groups' = <<>> => blocks' = <<>>
    PROVE  IInv'
<1>1. /\ document' = document /\ mode' = mode /\ tokens' = tokens /\ stack' = stack
      /\ parts' = parts /\ current' = current /\ plan' = plan /\ deep' = deep
  BY DEF Placing
<1>2. mode = "rich" /\ tokens = <<>> /\ Made' = Made /\ Made = <<>> /\ plan = <<>>
  BY <1>1, PackingFacts DEF Made
<1>3. tokens' \in Seq(Place) /\ DOMAIN tokens' = {}
  BY <1>1, <1>2, EmptySeq
<1>4. ~deep => \A group \in Elements(plan') : \A part \in Elements(group.parts) : part.size <= MaxPart
  BY <1>1, PlanFits DEF IInv
<1>5. plan' \in Seq(Elements(plan'))
  BY <1>1, <1>2, EmptyElements
<1>6. mode' \in Rendering /\ mode' # "source" /\ pc # "split" /\ pc' # "split"
  BY <1>1, <1>2 DEF Rendering, Packing
<1> QED
  BY <1>1, <1>2, <1>3, <1>4, <1>5, <1>6, GroupNext

LEMMA PackAllStep == ASSUME IInv, PackAll PROVE IInv'
<1>1. /\ Packing /\ groups' = <<Whole(document)>> /\ blocks' = Whole(document) /\ pc' = "place"
      /\ UNCHANGED Placing /\ start' = start /\ best' = best /\ document' = document
  BY DEF PackAll, Packing, Placing
<1>2. Whole(document) \in Seq(DOMAIN document.blocks)
      /\ <<Whole(document)>> \in Seq(Seq(DOMAIN document.blocks)) /\ <<Whole(document)>> # <<>>
  BY <1>1, PackingFacts, WholeType
<1>3. PackInv'
  BY <1>1, PackNext DEF IInv, PlanInv, Packing
<1> QED
  BY <1>1, <1>2, <1>3, PackingFacts, PackingNext

LEMMA AllPackedStep == ASSUME IInv, AllPacked PROVE IInv'
<1>1. /\ pc = "pack" /\ start = 0 /\ start' = 1 /\ pc' = "cut" /\ UNCHANGED Placing
      /\ best' = best /\ groups' = groups /\ blocks' = blocks
  BY DEF AllPacked
<1>2. Packing /\ Len(document.blocks) \in Nat /\ groups = <<>> /\ blocks = <<>>
  BY <1>1, PackingFacts DEF IInv, PlanInv, PackInv, Packing
<1>3. PackInv'
  <2>1. PackInv
    BY DEF IInv, PlanInv
  <2> QED
    BY <1>1, <1>2, <2>1 DEF PackInv, Packing, Placing
<1> QED
  BY <1>1, <1>2, <1>3, EmptySeq, PackingFacts, PackingNext

LEMMA PenaltyType == ASSUME NEW d, NEW end PROVE Penalty(d, end) \in Nat
BY DEF Penalty, Cut

LEMMA PackStep == ASSUME IInv, Pack PROVE IInv'
<1> DEFINE d == document.blocks
           n == Len(document.blocks)
<1>1. /\ pc = "pack" /\ start > 0 /\ start' = start - 1 /\ UNCHANGED Placing
      /\ groups' = groups /\ blocks' = blocks /\ pc' = pc
  BY DEF Pack
<1>2. PICK chosen \in Candidates(document.blocks) :
          best' = [s \in start .. Len(document.blocks) + 1 |-> IF s = start THEN chosen ELSE best[s]]
  BY DEF Pack
<1>3. Packing /\ n \in Nat /\ start \in Nat /\ groups = <<>> /\ blocks = <<>>
      /\ best \in [DOMAIN best -> Packed] /\ PackInv
  BY <1>1, PackingFacts DEF IInv, PlanInv, PackInv, Packing
<1>4. start \in 1 .. n /\ DOMAIN best = start + 1 .. n + 1
  BY <1>1, <1>3 DEF PackInv
<1>5. chosen \in Packed /\ chosen.end \in start .. n /\ Fits(d, start, chosen.end)
  <2>1. PICK end \in start .. n : /\ Fits(d, start, end)
             /\ chosen = [messages |-> 1 + best[end + 1].messages,
                          penalty |-> (IF end = n THEN 0 ELSE Penalty(d, end)) + best[end + 1].penalty,
                          end |-> end]
    BY <1>2 DEF Candidates
  <2>2. end + 1 \in DOMAIN best /\ end \in Nat
    BY <1>3, <1>4
  <2>3. best[end + 1] \in Packed
    BY <1>3, <2>2
  <2>4. Penalty(d, end) \in Nat
    BY PenaltyType
  <2> QED
    BY <2>1, <2>2, <2>3, <2>4 DEF Packed
<1>6. /\ DOMAIN best' = start .. n + 1 /\ best'[start] = chosen
      /\ \A s \in start + 1 .. n + 1 : best'[s] = best[s]
  BY <1>2, <1>3, <1>4
<1>7. best' \in [DOMAIN best' -> Packed]
  BY <1>2, <1>3, <1>4, <1>5
<1>8. document' = document /\ mode' = mode /\ parts' = parts /\ current' = current /\ plan' = plan
  BY <1>1 DEF Placing
<1>9. \A s \in DOMAIN best' : s <= n => best'[s].end \in s .. n /\ Fits(d, s, best'[s].end)
  <2>1. \A s \in DOMAIN best : s <= n => best[s].end \in s .. n /\ Fits(d, s, best[s].end)
    BY <1>3 DEF PackInv
  <2>2. \A s \in DOMAIN best' : s = start \/ (s \in start + 1 .. n + 1 /\ s \in DOMAIN best)
    BY <1>3, <1>4, <1>6
  <2> QED
    BY <1>5, <1>6, <2>1, <2>2
<1>10. PackInv'
  <2>1. start' <= n /\ DOMAIN best' = start' + 1 .. n + 1
    BY <1>1, <1>3, <1>4, <1>6
  <2> QED
    BY <1>1, <1>3, <1>8, <1>9, <2>1 DEF PackInv, Packing
<1>11. start' \in Nat
  BY <1>1, <1>3
<1> QED
  BY <1>1, <1>3, <1>7, <1>10, <1>11, EmptySeq, PackingFacts, PackingNext

LEMMA CutGroupStep == ASSUME IInv, CutGroup PROVE IInv'
<1> DEFINE n == Len(document.blocks)
           D == DOMAIN document.blocks
           group == Interval(start, best[start].end)
<1>1. /\ pc = "cut" /\ start <= n /\ groups' = Append(groups, group)
      /\ start' = best[start].end + 1 /\ UNCHANGED Placing
      /\ best' = best /\ blocks' = blocks /\ pc' = pc
  BY DEF CutGroup
<1>2. /\ Packing /\ PackInv /\ n \in Nat /\ D = 1 .. n /\ groups \in Seq(Seq(D)) /\ blocks = <<>>
      /\ start \in 1 .. n + 1 /\ DOMAIN best = 1 .. n + 1 /\ best \in [DOMAIN best -> Packed]
  BY <1>1, PackingFacts DEF IInv, PlanInv, PackInv, Packing
<1>3. best[start].end \in start .. n
  BY <1>1, <1>2 DEF PackInv
<1>4. group \in Seq(D)
  <2>1. best[start].end \in Nat /\ best[start].end <= n
    BY <1>2, <1>3
  <2>2. group \in Seq(1 .. n)
    BY <1>2, <2>1, IntervalType
  <2> QED
    BY <1>2, <2>2
<1> HIDE DEF group, D
<1>5. groups' \in Seq(Seq(D)) /\ groups' # <<>>
  BY <1>1, <1>2, <1>4
<1>6. start' \in 1 .. n + 1
  BY <1>1, <1>2, <1>3
<1>7. PackInv'
  BY <1>1, <1>2, <1>6 DEF PackInv, Packing, Placing
<1> QED
  BY <1>1, <1>2, <1>5, <1>6, <1>7, EmptySeq, PackingNext DEF D

LEMMA AllCutStep == ASSUME IInv, AllCut PROVE IInv'
<1>1. /\ pc = "cut" /\ pc' = "place" /\ UNCHANGED Placing
      /\ blocks' = (IF groups = <<>> THEN <<>> ELSE Head(groups))
      /\ start' = start /\ best' = best /\ groups' = groups /\ document' = document
  BY DEF AllCut, Placing
<1>2. Packing /\ PackInv /\ groups \in Seq(Seq(DOMAIN document.blocks))
      /\ start \in Nat /\ best \in [DOMAIN best -> Packed]
  BY <1>1, PackingFacts DEF IInv, PlanInv, Packing
<1>3. blocks' \in Seq(DOMAIN document.blocks)
  <2>1. groups # <<>> => Head(groups) \in Seq(DOMAIN document.blocks)
    BY <1>2, HeadTailProperties
  <2> QED
    BY <1>1, <2>1, EmptySeq
<1>4. PackInv'
  BY <1>1, <1>2, PackNext DEF Packing
<1> QED
  BY <1>1, <1>2, <1>3, <1>4, PackingNext

LEMMA SendSourceStep == ASSUME IInv, SendSource PROVE IInv'
<1>1. /\ pc = "place" /\ blocks = <<>> /\ mode' = "source" /\ groups' = <<<<0>>>>
      /\ tokens' = Places(0) /\ pc' = "split"
      /\ UNCHANGED <<document, start, best, blocks, stack, parts, current, plan, deep>>
  BY DEF SendSource
<1>2. TypeOK /\ PackInv /\ PartsFit
  BY DEF IInv, PlanInv
<1>3. /\ tokens' \in Seq(Place)
      /\ \A i \in DOMAIN tokens' : /\ tokens'[i].token \in DOMAIN Html(tokens'[i].block)
                                  /\ tokens'[i].char = 1
  <2>1. document \in Documents /\ 0 \in -1 .. Len(document.blocks)
    BY <1>2, BlocksOf DEF TypeOK
  <2> QED
    BY <1>1, <2>1, PlacesType
<1>4. groups' # <<>> /\ blocks' \in Seq(DOMAIN document.blocks) /\ plan' \in Seq(Elements(plan'))
      /\ start' \in Nat /\ best' \in [DOMAIN best' -> Packed]
  BY <1>1, <1>2 DEF TypeOK
<1>5. PackInv'
  BY <1>1, <1>2, PackNext DEF Packing
<1> QED
  BY <1>1, <1>2, <1>3, <1>4, <1>5, PlanFits, GroupNext DEF Rendering, SourceGroups, SourceOnly

LEMMA GiveUpRichStep == ASSUME IInv, GiveUpRich PROVE IInv'
<1>1. /\ pc = "place" /\ blocks = <<>> /\ mode' = "html" /\ plan' = <<>>
      /\ groups' = <<Whole(document)>> /\ blocks' = Whole(document)
      /\ UNCHANGED <<document, start, best, tokens, stack, parts, current, pc, deep>>
  BY DEF GiveUpRich
<1>2. TypeOK /\ StackInv /\ PackInv
  BY DEF IInv, PlanInv
<1>3. /\ document \in Documents /\ tokens = <<>>
      /\ start' \in Nat /\ best' \in [DOMAIN best' -> Packed]
  BY <1>1, <1>2 DEF TypeOK, StackInv
<1>4. PackInv'
  BY <1>1, <1>2, PackNext DEF Packing
<1>5. /\ groups' \in Seq(Seq(DOMAIN document.blocks)) /\ groups' # <<>>
      /\ blocks' \in Seq(DOMAIN document.blocks)
  <2>1. Whole(document) \in Seq(DOMAIN document.blocks)
        /\ <<Whole(document)>> \in Seq(Seq(DOMAIN document.blocks))
    BY <1>3, WholeType
  <2>2. <<Whole(document)>> # <<>>
    OBVIOUS
  <2> QED
    BY <1>1, <2>1, <2>2
<1>6. tokens' \in Seq(Place) /\ DOMAIN tokens' = {}
  BY <1>1, <1>3, EmptySeq
<1> QED
  BY <1>1, <1>3, <1>4, <1>5, <1>6, EmptyElements, GroupNext DEF Rendering, SourceGroups, SourceOnly

LEMMA EndGroupStep == ASSUME IInv, EndGroup PROVE IInv'
<1> DEFINE planned == [blocks |-> Head(groups), parts |-> Made]
           D == DOMAIN document.blocks
<1>1. /\ pc = "place" /\ blocks = <<>> /\ Made # <<>>
      /\ plan' = Append(plan, planned) /\ groups' = Tail(groups)
      /\ blocks' = IF Len(groups) > 1 THEN groups[2] ELSE <<>>
      /\ pc' = IF Len(groups) > 1 THEN "place" ELSE "done"
      /\ parts' = <<>> /\ current' = Empty
      /\ UNCHANGED <<document, mode, start, best, tokens, stack, deep>>
  BY DEF EndGroup
<1>2. TypeOK /\ StackInv /\ PackInv /\ PartsFit
  BY DEF IInv, PlanInv
<1>3. groups # <<>> /\ tokens = <<>> /\ mode \in Rendering
  BY <1>1, <1>2 DEF StackInv, TypeOK
<1>4. /\ plan' \in Seq(Elements(plan')) /\ Elements(plan') = Elements(plan) \union {planned}
  <2> HIDE DEF planned
  <2> QED
    BY <1>1, <1>2, AppendElement DEF TypeOK
<1>5. ~deep => \A group \in Elements(plan') : \A part \in Elements(group.parts) : part.size <= MaxPart
  <2>1. planned.parts = Made
    OBVIOUS
  <2> HIDE DEF planned
  <2> QED
    BY <1>1, <1>2, <1>4, <2>1, MadeFits, PlanFits
<1>6. /\ groups' \in IF mode' = "source" THEN {<<>>, <<<<0>>>>} ELSE Seq(Seq(D))
      /\ blocks' \in Seq(D)
      /\ groups' = <<>> => blocks' = <<>>
  <2>1. CASE mode = "source"
    <3>1. groups = <<<<0>>>>
      BY <1>2, <1>3, <2>1 DEF TypeOK
    <3>2. Len(groups) = 1 /\ Tail(groups) = <<>>
      BY <3>1
    <3> QED
      BY <1>1, <2>1, <3>2, EmptySeq
  <2>2. CASE mode # "source"
    <3>1. groups \in Seq(Seq(D))
      BY <1>2, <2>2 DEF TypeOK
    <3> HIDE DEF D
    <3>2. Tail(groups) \in Seq(Seq(D)) /\ Len(Tail(groups)) = Len(groups) - 1
      BY <1>3, <3>1, HeadTailProperties
    <3>3. Len(groups) > 1 => groups[2] \in Seq(D)
      BY <3>1
    <3>4. ASSUME groups' = <<>>  PROVE ~(Len(groups) > 1)
      <4> DEFINE rest == Tail(groups)
      <4>1. /\ rest = <<>> /\ rest \in Seq(Seq(D)) /\ Len(rest) = Len(groups) - 1
            /\ Len(groups) \in Nat
        BY <1>1, <3>1, <3>2, <3>4, LenProperties
      <4> HIDE DEF rest
      <4>2. Len(rest) = 0
        BY <4>1
      <4> QED
        BY <4>1, <4>2
    <3> QED
      BY <1>1, <2>2, <3>2, <3>3, <3>4, EmptySeq
  <2> QED
    BY <2>1, <2>2
<1>7. Made' = <<>>
  BY <1>1, MessageSizes DEF Made
<1>8. tokens' \in Seq(Place) /\ DOMAIN tokens' = {} /\ tokens' = <<>>
  BY <1>1, <1>3, EmptySeq
<1>9. pc' \in {"place", "done"} /\ pc' # "split"
  BY <1>1
<1> HIDE DEF planned
<1>10. /\ document' = document /\ stack' = stack /\ deep' = deep /\ mode' \in Rendering
       /\ parts' = <<>> /\ current' = Empty
       /\ start' \in Nat /\ best' \in [DOMAIN best' -> Packed] /\ PackInv'
  <2>1. start \in Nat /\ best \in [DOMAIN best -> Packed]
    BY <1>2 DEF TypeOK
  <2>2. PackInv'
    <3>1. ~Packing'
      BY <1>9 DEF Packing
    <3>2. document' = document /\ start' = start /\ best' = best
      BY <1>1
    <3> QED
      BY ONLY <1>2, <3>1, <3>2, PackNext
  <2> QED
    BY <1>1, <1>3, <2>1, <2>2
<1>11. groups' = <<>> => pc' # "split" /\ Made' = <<>> /\ blocks' = <<>>
  BY <1>6, <1>7, <1>9
<1>12. plan' \in Seq(Elements(plan')) /\ pc = "place"
  BY <1>1, <1>4
<1> QED
  BY <1>5, <1>6, <1>8, <1>9, <1>10, <1>11, <1>12, GroupNext DEF SourceGroups, SourceOnly

LEMMA StepHolds == ASSUME IInv, [Next]_vars PROVE IInv'
<1>1. CASE Next
  BY <1>1, PackAllStep, PackStep, AllPackedStep, CutGroupStep, AllCutStep,
     PlaceBlockStep, OpenTagStep, CloseTagStep, UnitStep, CharacterStep, EndSplitStep,
     EndGroupStep, GiveUpRichStep, SendSourceStep DEF Next
<1>2. CASE UNCHANGED vars
  BY <1>2 DEF IInv, PlanInv, TypeOK, StackInv, PackInv, Packing, PartsFit, AllParts, Closing, Opening, Made, Html,
     TokenAt, Place, vars
<1> QED
  BY <1>1, <1>2

-----------------------------------------------------------------------------
(* What is proved of a plan.                                               *)

LEMMA Invariance == Spec => []IInv
BY InitHolds, StepHolds, PTL DEF Spec

\* The state of build_plan stays well formed whatever the answer, and the lengths of the tags
\* that are open add up as long as they leave room for a character.
THEOREM PlanInvariant == Spec => []PlanInv
<1>1. IInv => PlanInv
  BY DEF IInv
<1> QED
  BY <1>1, Invariance, PTL

\* No message of a plan is longer than MAX_PART_LENGTH, of any answer and at any limit, unless
\* nested open tags alone take one up (RESPONSE_SPEED_AND_LAYOUT.md:72).
THEOREM EveryMessageFits == Spec => []PartsFit
<1>1. IInv => PartsFit
  BY DEF IInv
<1> QED
  BY <1>1, Invariance, PTL
-----------------------------------------------------------------------------
(* Induction on numbers, and what is computed along them.                  *)

LEMMA SmallestExists ==
    ASSUME NEW T, T \subseteq Nat, T # {}
    PROVE  \E x \in T : \A y \in T : x <= y
<1>1. PICK x \in T : \A y \in T : ~ (<<y, x>> \in OpToRel(<, Nat))
  BY NatLessThanWellFounded, WFMin
<1>2. ASSUME NEW y \in T PROVE x <= y
  <2>1. ~ (<<y, x>> \in OpToRel(<, Nat))
    BY <1>1
  <2>2. x \in Nat /\ y \in Nat
    OBVIOUS
  <2>3. ~(y < x)
    BY <2>1, <2>2 DEF OpToRel
  <2> QED
    BY <2>2, <2>3
<1> QED
  BY <1>2

\* A set that holds the first of some numbers, and after each of them the next, holds them all.
LEMMA Induction ==
    ASSUME NEW m \in Nat, NEW n \in Nat, NEW T, m \in T,
           \A i \in m .. n : i \in T /\ i < n => i + 1 \in T
    PROVE  m .. n \subseteq T
<1> SUFFICES ASSUME ~(m .. n \subseteq T) PROVE FALSE
  OBVIOUS
<1> DEFINE out == {i \in m .. n : i \notin T}
<1>1. out \subseteq Nat /\ out # {}
  OBVIOUS
<1>2. PICK i \in out : \A j \in out : i <= j
  BY <1>1, SmallestExists
<1>3. i \in m .. n /\ i # m
  OBVIOUS
<1>4. i - 1 \in m .. n /\ i - 1 < n /\ ~(i <= i - 1)
  BY <1>3
<1>5. i - 1 \in T
  BY <1>2, <1>4
<1> QED
  BY <1>3, <1>4, <1>5

\* The functions that a first value and a step define on an interval: there is one.
RunsOf(n, S, first, step) ==
    {f \in [0 .. n -> S] : f[0] = first /\ \A i \in 1 .. n : f[i] = step[<<i, f[i - 1]>>]}

LEMMA RunExists ==
    ASSUME NEW n \in Nat, NEW S, NEW first \in S, NEW step \in [(1 .. n) \X S -> S]
    PROVE  RunsOf(n, S, first, step) # {}
<1> DEFINE Runs(f, k) == f[0] = first /\ \A i \in 1 .. k : f[i] = step[<<i, f[i - 1]>>]
           T == {k \in 0 .. n : \E f \in [0 .. k -> S] : Runs(f, k)}
<1>1. 0 \in T
  <2> DEFINE f == [i \in 0 .. 0 |-> first]
  <2>1. f \in [0 .. 0 -> S] /\ f[0] = first /\ \A i \in 1 .. 0 : FALSE
    OBVIOUS
  <2>2. Runs(f, 0)
    <3> HIDE DEF f
    <3> QED
      BY <2>1
  <2> HIDE DEF f, Runs
  <2> QED
    BY <2>1, <2>2
<1>2. ASSUME NEW k \in 0 .. n, k \in T, k < n  PROVE k + 1 \in T
  <2>1. PICK f \in [0 .. k -> S] : Runs(f, k)
    BY <1>2
  <2> DEFINE next == step[<<k + 1, f[k]>>]
             g == [i \in 0 .. k + 1 |-> IF i = k + 1 THEN next ELSE f[i]]
  <2>2. f[k] \in S /\ k + 1 \in 1 .. n /\ f[0] = first
    BY <2>1, <1>2
  <2>3. next \in S
    BY <2>2
  <2> HIDE DEF next
  <2>4. g \in [0 .. k + 1 -> S] /\ (\A i \in 0 .. k : g[i] = f[i]) /\ g[k + 1] = next
    BY <1>2, <2>1, <2>3
  <2> HIDE DEF g
  <2>5. g[0] = first /\ g[k] = f[k]
    BY <1>2, <2>2, <2>4
  <2>6. ASSUME NEW i \in 1 .. k + 1  PROVE g[i] = step[<<i, g[i - 1]>>]
    <3>1. CASE i = k + 1
      <4>1. i - 1 = k
        BY <1>2, <3>1
      <4> QED
        BY <2>4, <2>5, <3>1, <4>1 DEF next
    <3>2. CASE i # k + 1
      <4>1. i \in 1 .. k /\ i \in 0 .. k /\ i - 1 \in 0 .. k
        BY <1>2, <3>2
      <4>2. f[i] = step[<<i, f[i - 1]>>]
        BY <2>1, <4>1
      <4> QED
        BY <2>4, <4>1, <4>2
    <3> QED
      BY <3>1, <3>2
  <2>7. Runs(g, k + 1)
    BY <2>5, <2>6
  <2>8. k + 1 \in 0 .. n
    BY <1>2
  <2> HIDE DEF Runs
  <2> QED
    BY <2>4, <2>7, <2>8
<1>3. 0 .. n \subseteq T
  <2> HIDE DEF T
  <2> QED
    BY <1>1, <1>2, Induction
<1>4. n \in T
  BY <1>3
<1>5. PICK f \in [0 .. n -> S] : Runs(f, n)
  BY <1>4
<1> QED
  BY <1>5 DEF RunsOf

-----------------------------------------------------------------------------
(* Sequences.  The concatenation of two is given a name, for the provers.  *)

Cat(s, t) == s \o t

LEMMA CatFacts ==
    ASSUME NEW S, NEW s \in Seq(S), NEW t \in Seq(S)
    PROVE  /\ Cat(s, t) \in Seq(S)
           /\ Len(Cat(s, t)) = Len(s) + Len(t)
           /\ \A i \in 1 .. Len(s) + Len(t) : Cat(s, t)[i] = IF i <= Len(s) THEN s[i] ELSE t[i - Len(s)]
BY ConcatProperties DEF Cat

LEMMA CatEmpty == ASSUME NEW S, NEW s \in Seq(S) PROVE Cat(s, <<>>) = s /\ Cat(<<>>, s) = s
BY ConcatEmptySeq DEF Cat

LEMMA CatAssociative ==
    ASSUME NEW S, NEW s \in Seq(S), NEW t \in Seq(S), NEW u \in Seq(S)
    PROVE  Cat(Cat(s, t), u) = Cat(s, Cat(t, u))
BY ConcatAssociative DEF Cat

LEMMA CatAppend == ASSUME NEW S, NEW s \in Seq(S), NEW x \in S PROVE Append(s, x) = Cat(s, <<x>>)
BY AppendIsConcat DEF Cat

LEMMA EmptyOf == ASSUME NEW s, NEW S, s \in Seq(S), Len(s) = 0 PROVE s = <<>>
OBVIOUS

\* The sequence that FlattenSeq makes, an element at a time.
LEMMA FlattenRun ==
    ASSUME NEW S, NEW s \in Seq(Seq(S))
    PROVE  \E f \in [0 .. Len(s) -> Seq(S)] :
              /\ f[0] = <<>> /\ f[Len(s)] = FlattenSeq(s)
              /\ \A i \in 1 .. Len(s) : f[i] = Cat(f[i - 1], s[i])
<1> DEFINE n == Len(s)
           Q == Seq(S)
           step == [p \in (1 .. n) \X Q |-> Cat(p[2], s[p[1]])]
<1>1. n \in Nat /\ (\A i \in 1 .. n : s[i] \in Q) /\ <<>> \in Q
  BY EmptySeq
<1>2. \A i \in 1 .. n, q \in Q : Cat(q, s[i]) \in Q
  <2> SUFFICES ASSUME NEW i \in 1 .. n, NEW q \in Q  PROVE Cat(q, s[i]) \in Q
    OBVIOUS
  <2>1. q \in Seq(S) /\ s[i] \in Seq(S)
    BY <1>1
  <2> QED
    BY <2>1, CatFacts
<1> HIDE DEF Q
<1>3. /\ step \in [(1 .. n) \X Q -> Q]
      /\ \A i \in 1 .. n, q \in Q : step[<<i, q>>] = Cat(q, s[i])
  <2>1. \A p \in (1 .. n) \X Q : p[1] \in 1 .. n /\ p[2] \in Q
    OBVIOUS
  <2> QED
    BY <1>2, <2>1
<1> HIDE DEF step, n
<1>4. PICK f \in [0 .. n -> Q] : f[0] = <<>> /\ \A i \in 1 .. n : f[i] = step[<<i, f[i - 1]>>]
  <2> DEFINE first == <<>>
  <2>1. first \in Q
    BY <1>1
  <2> HIDE DEF first
  <2>2. RunsOf(n, Q, first, step) # {}
    BY <1>1, <1>3, <2>1, RunExists
  <2> QED
    BY <2>2 DEF first, RunsOf
<1>5. \A i \in 1 .. n : f[i] = Cat(f[i - 1], s[i]) /\ f[i - 1] \in Q
  <2>1. \A i \in 1 .. n : i - 1 \in 0 .. n
    BY <1>1
  <2>2. \A i \in 1 .. n : f[i - 1] \in Q
    BY <1>4, <2>1
  <2> QED
    BY <1>3, <1>4, <2>2
<1>6. CASE n = 0
  <2>1. FlattenSeq(s) = s /\ s = <<>>
    BY <1>6 DEF FlattenSeq, n
  <2> QED
    BY <1>4, <1>5, <1>6, <2>1 DEF Q, n
<1>7. CASE n > 0
  <2> DEFINE g == [i \in 1 .. n |-> f[i]]
             flatten == CHOOSE h : h = [i \in 1 .. n |-> IF i = 1 THEN s[i] ELSE Cat(h[i - 1], s[i])]
  <2>1. f[1] = s[1]
    <3>1. f[1] = Cat(<<>>, s[1]) /\ s[1] \in Seq(S)
      <4>1. 1 \in 1 .. n /\ 1 - 1 = 0
        BY <1>1, <1>7
      <4> QED
        BY <1>1, <1>4, <1>5, <4>1 DEF Q
    <3> QED
      BY <3>1, CatEmpty
  <2>2. g = [i \in 1 .. n |-> IF i = 1 THEN s[i] ELSE Cat(g[i - 1], s[i])]
    <3>1. \A i \in 1 .. n : g[i] = IF i = 1 THEN s[i] ELSE Cat(g[i - 1], s[i])
      <4>1. \A i \in 1 .. n : i = 1 \/ i - 1 \in 1 .. n
        BY <1>1
      <4> QED
        BY <1>5, <2>1, <4>1
    <3> QED
      BY <3>1
  <2>3. flatten = [i \in 1 .. n |-> IF i = 1 THEN s[i] ELSE Cat(flatten[i - 1], s[i])]
    <3> HIDE DEF g
    <3> QED
      BY <2>2
  <2>4. FlattenSeq(s) = flatten[n]
    <3>1. Len(s) # 0
      BY <1>7 DEF n
    <3> QED
      BY <3>1 DEF FlattenSeq, Cat, n
  <2> HIDE DEF flatten
  <2> DEFINE T == {i \in 1 .. n : flatten[i] = f[i]}
  <2>5. 1 .. n \subseteq T
    <3>1. \A i \in 1 .. n : flatten[i] = IF i = 1 THEN s[i] ELSE Cat(flatten[i - 1], s[i])
      BY <2>3
    <3>2. 1 \in T
      BY <1>1, <1>7, <2>1, <3>1
    <3>3. ASSUME NEW i \in 1 .. n, i \in T, i < n  PROVE i + 1 \in T
      <4>1. i + 1 \in 1 .. n /\ i + 1 - 1 = i /\ i + 1 # 1
        BY <1>1, <3>3
      <4>2. flatten[i + 1] = Cat(flatten[i], s[i + 1])
        BY <3>1, <4>1
      <4>3. f[i + 1] = Cat(f[i], s[i + 1])
        BY <1>5, <4>1
      <4> QED
        BY <3>3, <4>1, <4>2, <4>3
    <3> HIDE DEF T
    <3> QED
      BY <1>1, <3>2, <3>3, Induction
  <2>6. f[n] = FlattenSeq(s)
    BY <1>1, <1>7, <2>4, <2>5
  <2> QED
    BY <1>4, <1>5, <2>6 DEF Q, n
<1>8. n = 0 \/ n > 0
  BY <1>1
<1> QED
  BY <1>6, <1>7, <1>8

LEMMA FlattenType == ASSUME NEW S, NEW s \in Seq(Seq(S)) PROVE FlattenSeq(s) \in Seq(S)
<1>1. PICK f \in [0 .. Len(s) -> Seq(S)] : f[Len(s)] = FlattenSeq(s)
  BY FlattenRun
<1>2. Len(s) \in 0 .. Len(s)
  BY LenProperties
<1> QED
  BY <1>1, <1>2

LEMMA FlattenEmpty == FlattenSeq(<<>>) = <<>>
BY DEF FlattenSeq

\* Sequences that are put together are flattened one after the other.
LEMMA FlattenConcat ==
    ASSUME NEW S, NEW s \in Seq(Seq(S)), NEW t \in Seq(Seq(S))
    PROVE  FlattenSeq(Cat(s, t)) = Cat(FlattenSeq(s), FlattenSeq(t))
<1> DEFINE n == Len(s)
           k == Len(t)
           u == Cat(s, t)
<1>1. /\ n \in Nat /\ k \in Nat /\ u \in Seq(Seq(S)) /\ Len(u) = n + k
      /\ \A i \in 1 .. n : u[i] = s[i] /\ s[i] \in Seq(S)
      /\ \A i \in 1 .. k : u[n + i] = t[i] /\ t[i] \in Seq(S)
  <2>0. n \in Nat /\ k \in Nat
    OBVIOUS
  <2>1. /\ n \in Nat /\ k \in Nat /\ u \in Seq(Seq(S)) /\ Len(u) = n + k
        /\ \A i \in 1 .. n + k : u[i] = IF i <= n THEN s[i] ELSE t[i - n]
    BY <2>0, CatFacts, Zenon
  <2>2. (\A i \in 1 .. n : s[i] \in Seq(S)) /\ (\A i \in 1 .. k : t[i] \in Seq(S))
    OBVIOUS
  <2> HIDE DEF n, k, u
  <2>3. \A i \in 1 .. k : n + i \in 1 .. n + k /\ ~(n + i <= n) /\ n + i - n = i
    BY <2>1
  <2>4. \A i \in 1 .. n : i \in 1 .. n + k /\ i <= n
    BY <2>1
  <2> QED
    BY <2>1, <2>2, <2>3, <2>4
<1>2. PICK f \in [0 .. n -> Seq(S)] :
              /\ f[0] = <<>> /\ f[n] = FlattenSeq(s)
              /\ \A i \in 1 .. n : f[i] = Cat(f[i - 1], s[i])
  BY FlattenRun
<1>3. PICK g \in [0 .. k -> Seq(S)] :
              /\ g[0] = <<>> /\ g[k] = FlattenSeq(t)
              /\ \A i \in 1 .. k : g[i] = Cat(g[i - 1], t[i])
  BY FlattenRun
<1> HIDE DEF u
<1>4. PICK h \in [0 .. Len(u) -> Seq(S)] :
              /\ h[0] = <<>> /\ h[Len(u)] = FlattenSeq(u)
              /\ \A i \in 1 .. Len(u) : h[i] = Cat(h[i - 1], u[i])
  BY <1>1, FlattenRun
<1> HIDE DEF n, k
<1> DEFINE T == {i \in 0 .. n : h[i] = f[i]}
           V == {i \in 0 .. k : h[n + i] = Cat(f[n], g[i])}
<1>5. 0 .. n \subseteq T
  <2>1. 0 \in T
    BY <1>1, <1>2, <1>4
  <2>2. ASSUME NEW i \in 0 .. n, i \in T, i < n  PROVE i + 1 \in T
    <3>1. i + 1 \in 1 .. n /\ i + 1 \in 1 .. Len(u) /\ i + 1 - 1 = i
      BY <1>1, <2>2
    <3>2. h[i + 1] = Cat(h[i], s[i + 1])
      BY <1>1, <1>4, <3>1
    <3>3. f[i + 1] = Cat(f[i], s[i + 1])
      BY <1>2, <3>1
    <3>4. i + 1 \in 0 .. n
      BY <3>1
    <3> QED
      BY <2>2, <3>2, <3>3, <3>4
  <2> HIDE DEF T
  <2> QED
    BY <1>1, <2>1, <2>2, Induction
<1>6. 0 .. k \subseteq V
  <2>0. f[n] \in Seq(S) /\ h[n] = f[n]
    <3>1. n \in 0 .. n
      BY <1>1
    <3> QED
      BY <1>2, <1>5, <3>1
  <2>1. 0 \in V
    <3>1. Cat(f[n], <<>>) = f[n]
      BY <2>0, CatEmpty
    <3> QED
      BY <1>1, <1>3, <2>0, <3>1
  <2>2. ASSUME NEW i \in 0 .. k, i \in V, i < k  PROVE i + 1 \in V
    <3>0. i \in Nat /\ i < k /\ n \in Nat /\ k \in Nat /\ Len(u) = n + k
      BY <1>1, <2>2
    <3>1. i + 1 \in 1 .. k /\ n + i + 1 \in 1 .. Len(u) /\ i + 1 - 1 = i /\ n + i + 1 - 1 = n + i
          /\ n + (i + 1) = n + i + 1
      BY <3>0
    <3>2. h[n + i + 1] = Cat(h[n + i], t[i + 1]) /\ g[i + 1] = Cat(g[i], t[i + 1])
      <4>1. u[n + i + 1] = t[i + 1]
        BY <1>1, <3>1
      <4>2. h[n + i + 1] = Cat(h[n + i], u[n + i + 1])
        <5> DEFINE j == n + i + 1
        <5>1. j \in 1 .. Len(u) /\ j - 1 = n + i
          BY <3>0, <3>1
        <5> HIDE DEF j
        <5>2. h[j] = Cat(h[j - 1], u[j])
          BY <1>4, <5>1
        <5> QED
          BY <5>1, <5>2 DEF j
      <4>3. g[i + 1] = Cat(g[i], t[i + 1])
        BY <1>3, <3>1
      <4> QED
        BY <4>1, <4>2, <4>3
    <3>3. h[n + i] = Cat(f[n], g[i]) /\ g[i] \in Seq(S) /\ t[i + 1] \in Seq(S)
      BY <1>1, <1>3, <2>2, <3>1
    <3>4. Cat(Cat(f[n], g[i]), t[i + 1]) = Cat(f[n], Cat(g[i], t[i + 1]))
      BY <2>0, <3>3, CatAssociative
    <3> QED
      BY <3>1, <3>2, <3>3, <3>4
  <2> HIDE DEF V
  <2> QED
    BY <1>1, <2>1, <2>2, Induction
<1>7. h[n + k] = Cat(f[n], g[k])
  BY <1>1, <1>6
<1> QED
  BY <1>1, <1>2, <1>3, <1>4, <1>7 DEF u, n, k

LEMMA FlattenOne == ASSUME NEW S, NEW x \in Seq(S) PROVE FlattenSeq(<<x>>) = x
<1>1. <<x>> \in Seq(Seq(S)) /\ Len(<<x>>) = 1 /\ <<x>>[1] = x
  OBVIOUS
<1>2. PICK f \in [0 .. Len(<<x>>) -> Seq(S)] :
              /\ f[0] = <<>> /\ f[Len(<<x>>)] = FlattenSeq(<<x>>)
              /\ \A i \in 1 .. Len(<<x>>) : f[i] = Cat(f[i - 1], <<x>>[i])
  BY <1>1, FlattenRun
<1>3. FlattenSeq(<<x>>) = Cat(<<>>, x)
  BY <1>1, <1>2
<1> QED
  BY <1>3, CatEmpty

LEMMA FlattenAppend ==
    ASSUME NEW S, NEW s \in Seq(Seq(S)), NEW x \in Seq(S)
    PROVE  FlattenSeq(Append(s, x)) = Cat(FlattenSeq(s), x)
<1>1. Append(s, x) = Cat(s, <<x>>)
  BY CatAppend
<1>2. <<x>> \in Seq(Seq(S))
  OBVIOUS
<1>3. FlattenSeq(Cat(s, <<x>>)) = Cat(FlattenSeq(s), FlattenSeq(<<x>>))
  BY <1>2, FlattenConcat
<1>4. FlattenSeq(<<x>>) = x
  BY FlattenOne
<1> QED
  BY <1>1, <1>3, <1>4

\* A sequence is its first element and the others.
LEMMA HeadCat ==
    ASSUME NEW S, NEW s \in Seq(S), s # <<>>
    PROVE  s[1] \in S /\ Tail(s) \in Seq(S) /\ s = Cat(<<s[1]>>, Tail(s))
<1> DEFINE t == Tail(s)
           x == s[1]
           u == Cat(<<x>>, t)
<1>1. /\ x \in S /\ t \in Seq(S) /\ Len(t) = Len(s) - 1 /\ Len(s) \in Nat /\ Len(s) >= 1
      /\ \A i \in 1 .. Len(t) : t[i] = s[i + 1]
  BY HeadTailProperties
<1>2. <<x>> \in Seq(S) /\ Len(<<x>>) = 1 /\ <<x>>[1] = x
  BY <1>1
<1> HIDE DEF t
<1>3. /\ u \in Seq(S) /\ Len(u) = 1 + Len(t)
      /\ \A i \in 1 .. 1 + Len(t) : u[i] = IF i <= 1 THEN <<x>>[i] ELSE t[i - 1]
  <2> DEFINE one == <<x>>
  <2>1. one \in Seq(S) /\ Len(one) = 1
    BY <1>2
  <2> HIDE DEF one
  <2>2. /\ Cat(one, t) \in Seq(S) /\ Len(Cat(one, t)) = Len(one) + Len(t)
        /\ \A i \in 1 .. Len(one) + Len(t) : Cat(one, t)[i] = IF i <= Len(one) THEN one[i] ELSE t[i - Len(one)]
    <3>1. t \in Seq(S)
      BY <1>1
    <3> QED
      BY ONLY <2>1, <3>1, CatFacts
  <2> QED
    BY <2>1, <2>2 DEF one
<1> HIDE DEF u
<1>4. ASSUME NEW i \in 1 .. Len(s)  PROVE u[i] = s[i]
  <2>1. i \in 1 .. 1 + Len(t)
    BY <1>1
  <2>2. CASE i = 1
    <3>1. u[1] = <<x>>[1]
      BY <1>3, <2>1, <2>2
    <3> QED
      BY <1>2, <2>2, <3>1
  <2>3. CASE i > 1
    <3>1. i - 1 \in 1 .. Len(t) /\ i - 1 + 1 = i /\ ~(i <= 1)
      BY <1>1, <2>3
    <3>2. u[i] = t[i - 1]
      BY <1>3, <2>1, <3>1
    <3>3. t[i - 1] = s[i]
      BY <1>1, <3>1
    <3> QED
      BY <3>2, <3>3
  <2> QED
    BY <2>2, <2>3
<1>5. Len(u) = Len(s)
  BY <1>1, <1>3
<1>6. u = s
  BY ONLY <1>3, <1>4, <1>5, SeqEqual, s \in Seq(S)
<1> QED
  BY <1>1, <1>6 DEF u, t

\* The elements after the first are flattened after it.
LEMMA FlattenTail ==
    ASSUME NEW S, NEW s \in Seq(Seq(S)), s # <<>>
    PROVE  /\ Tail(s) \in Seq(Seq(S)) /\ s[1] \in Seq(S)
           /\ FlattenSeq(s) = Cat(s[1], FlattenSeq(Tail(s)))
<1>1. s[1] \in Seq(S) /\ Tail(s) \in Seq(Seq(S)) /\ s = Cat(<<s[1]>>, Tail(s))
  BY HeadCat
<1> DEFINE one == <<s[1]>>
           rest == Tail(s)
<1>2. one \in Seq(Seq(S)) /\ FlattenSeq(one) = s[1] /\ rest \in Seq(Seq(S)) /\ s = Cat(one, rest)
  BY <1>1, FlattenOne
<1> HIDE DEF one, rest
<1>3. FlattenSeq(Cat(one, rest)) = Cat(FlattenSeq(one), FlattenSeq(rest))
  BY <1>2, FlattenConcat
<1>4. FlattenSeq(s) = Cat(s[1], FlattenSeq(rest))
  BY <1>2, <1>3
<1> QED
  BY <1>1, <1>4 DEF rest

-----------------------------------------------------------------------------
(* The tags that a sequence of pieces leaves open.                         *)

Mark == [tag : HtmlTag, kind : {"open", "close", "unit"}]
Opens == Seq(HtmlTag \union {"unmatched"})

LEMMA OpensEnd ==
    ASSUME NEW s \in Opens, NEW x \in HtmlTag \union {"unmatched"}
    PROVE  /\ Append(s, x) \in Opens /\ Append(s, x) # <<>>
           /\ Last(Append(s, x)) = x /\ Front(Append(s, x)) = s
           /\ s # <<>> => Front(s) \in Opens
<1> DEFINE T == HtmlTag \union {"unmatched"}
<1>1. s \in Seq(T) /\ x \in T
  BY DEF Opens
<1> HIDE DEF T
<1>2. /\ Append(s, x) \in Seq(T) /\ Len(Append(s, x)) = Len(s) + 1 /\ Append(s, x)[Len(s) + 1] = x
      /\ \A i \in 1 .. Len(s) : Append(s, x)[i] = s[i]
  BY <1>1, AppendProperties
<1>3. Append(s, x) # <<>> /\ Last(Append(s, x)) = x
  BY <1>1, <1>2 DEF Last
<1>4. Front(Append(s, x)) = s
  <2> DEFINE u == Append(s, x)
  <2>1. u \in Seq(T) /\ Len(u) = Len(s) + 1 /\ Len(s) \in Nat /\ Len(u) - 1 = Len(s)
    BY <1>1, <1>2
  <2> HIDE DEF u
  <2>2. /\ SubSeq(u, 1, Len(s)) \in Seq(T) /\ Len(SubSeq(u, 1, Len(s))) = Len(s)
        /\ \A i \in 1 .. Len(s) : SubSeq(u, 1, Len(s))[i] = u[i]
    BY <2>1, SubSeqProperties
  <2>3. \A i \in 1 .. Len(s) : SubSeq(u, 1, Len(s))[i] = s[i]
    BY <1>2, <2>2 DEF u
  <2>4. SubSeq(u, 1, Len(s)) = s
    BY <1>1, <2>2, <2>3, SeqEqual
  <2> QED
    BY <2>1, <2>4 DEF Front, u
<1>5. s # <<>> => Front(s) \in Seq(T)
  BY <1>1, SubSeqProperties DEF Front
<1> QED
  BY <1>2, <1>3, <1>4, <1>5 DEF Opens, T

LEMMA AfterType ==
    ASSUME NEW open \in Opens, NEW t \in Mark
    PROVE  After(open, t) \in Opens
<1>1. t.tag \in HtmlTag
  BY DEF Mark
<1>2. Append(open, t.tag) \in Opens /\ Append(open, "unmatched") \in Opens
      /\ (open # <<>> => Front(open) \in Opens)
  BY <1>1, OpensEnd
<1> QED
  BY <1>2 DEF After

\* The tags open after each piece.
LEMMA OpenedRun ==
    ASSUME NEW tags \in Seq(Mark)
    PROVE  \E f \in [0 .. Len(tags) -> Opens] :
              /\ f[0] = <<>> /\ f[Len(tags)] = Opened(tags)
              /\ \A i \in 1 .. Len(tags) : f[i] = After(f[i - 1], tags[i])
<1> DEFINE n == Len(tags)
           step == [p \in (1 .. n) \X Opens |-> After(p[2], tags[p[1]])]
           first == <<>>
<1>1. n \in Nat /\ (\A i \in 1 .. n : tags[i] \in Mark) /\ first \in Opens
  BY EmptySeq DEF Opens
<1>2. \A i \in 1 .. n, q \in Opens : After(q, tags[i]) \in Opens
  BY <1>1, AfterType
<1>3. /\ step \in [(1 .. n) \X Opens -> Opens]
      /\ \A i \in 1 .. n, q \in Opens : step[<<i, q>>] = After(q, tags[i])
  <2>1. \A p \in (1 .. n) \X Opens : p[1] \in 1 .. n /\ p[2] \in Opens
    OBVIOUS
  <2> QED
    BY <1>2, <2>1
<1> HIDE DEF step, n, first
<1>4. RunsOf(n, Opens, first, step) # {}
  BY <1>1, <1>3, RunExists
<1>5. PICK f \in [0 .. n -> Opens] : f[0] = first /\ \A i \in 1 .. n : f[i] = step[<<i, f[i - 1]>>]
  BY <1>4 DEF RunsOf
<1>6. \A i \in 1 .. n : f[i] = After(f[i - 1], tags[i])
  <2>1. \A i \in 1 .. n : i - 1 \in 0 .. n
    BY <1>1
  <2>2. \A i \in 1 .. n : f[i - 1] \in Opens
    BY <1>5, <2>1
  <2> QED
    BY <1>3, <1>5, <2>2
<1> DEFINE open == CHOOSE h : h = [i \in 0 .. n |-> IF i = 0 THEN first ELSE After(h[i - 1], tags[i])]
<1>7. f = [i \in 0 .. n |-> IF i = 0 THEN first ELSE After(f[i - 1], tags[i])]
  <2>1. \A i \in 0 .. n : f[i] = IF i = 0 THEN first ELSE After(f[i - 1], tags[i])
    <3>1. \A i \in 0 .. n : i = 0 \/ i \in 1 .. n
      BY <1>1
    <3> QED
      BY <1>5, <1>6, <3>1
  <2> QED
    BY <1>5, <2>1
<1>8. open = [i \in 0 .. n |-> IF i = 0 THEN first ELSE After(open[i - 1], tags[i])]
  BY <1>7
<1>9. Opened(tags) = open[n]
  BY DEF Opened, n, first
<1> HIDE DEF open
<1> DEFINE T == {i \in 0 .. n : open[i] = f[i]}
<1>10. 0 .. n \subseteq T
  <2>1. \A i \in 0 .. n : open[i] = IF i = 0 THEN first ELSE After(open[i - 1], tags[i])
    BY <1>8
  <2>2. 0 \in T
    BY <1>1, <1>5, <2>1
  <2>3. ASSUME NEW i \in 0 .. n, i \in T, i < n  PROVE i + 1 \in T
    <3>1. i + 1 \in 1 .. n /\ i + 1 \in 0 .. n /\ i + 1 - 1 = i /\ i + 1 # 0
      BY <1>1, <2>3
    <3>2. open[i + 1] = After(open[i], tags[i + 1])
      BY <2>1, <3>1
    <3>3. f[i + 1] = After(f[i], tags[i + 1])
      BY <1>6, <3>1
    <3> QED
      BY <2>3, <3>1, <3>2, <3>3
  <2> HIDE DEF T
  <2> QED
    BY <1>1, <2>2, <2>3, Induction
<1>11. f[n] = Opened(tags)
  BY <1>1, <1>9, <1>10
<1> QED
  BY <1>5, <1>6, <1>11 DEF n, first

\* Two runs of the same pieces are the same.
LEMMA SameRun ==
    ASSUME NEW tags \in Seq(Mark), NEW f, NEW g, f[0] = g[0],
           \A i \in 1 .. Len(tags) : f[i] = After(f[i - 1], tags[i]),
           \A i \in 1 .. Len(tags) : g[i] = After(g[i - 1], tags[i])
    PROVE  f[Len(tags)] = g[Len(tags)]
<1> DEFINE n == Len(tags)
<1>0. n \in Nat
  OBVIOUS
<1> DEFINE T == {i \in 0 .. n : f[i] = g[i]}
<1>1. 0 \in T
  BY <1>0
<1>2. ASSUME NEW i \in 0 .. n, i \in T, i < n  PROVE i + 1 \in T
  <2>1. i + 1 \in 1 .. n /\ i + 1 \in 0 .. n /\ i + 1 - 1 = i
    BY <1>0, <1>2
  <2>2. f[i + 1] = After(f[i], tags[i + 1])
    BY <2>1
  <2>3. g[i + 1] = After(g[i], tags[i + 1])
    BY <2>1
  <2> QED
    BY <1>2, <2>1, <2>2, <2>3
<1>3. 0 .. n \subseteq T
  <2> HIDE DEF T
  <2> QED
    BY <1>0, <1>1, <1>2, Induction
<1> QED
  BY <1>0, <1>3

\* The tags open after some pieces, and after more of them.
LEMMA OpenedCat ==
    ASSUME NEW a \in Seq(Mark), NEW b \in Seq(Mark)
    PROVE  \E f \in [0 .. Len(b) -> Opens] :
              /\ f[0] = Opened(a) /\ f[Len(b)] = Opened(Cat(a, b))
              /\ \A i \in 1 .. Len(b) : f[i] = After(f[i - 1], b[i])
<1> DEFINE n == Len(a)
           k == Len(b)
           c == Cat(a, b)
<1>0. n \in Nat /\ k \in Nat
  OBVIOUS
<1>1. /\ c \in Seq(Mark) /\ Len(c) = n + k
      /\ \A i \in 1 .. n + k : c[i] = IF i <= n THEN a[i] ELSE b[i - n]
  BY CatFacts
<1>2. PICK g \in [0 .. n -> Opens] :
              /\ g[0] = <<>> /\ g[n] = Opened(a)
              /\ \A i \in 1 .. n : g[i] = After(g[i - 1], a[i])
  BY OpenedRun
<1> HIDE DEF c
<1>3. PICK h \in [0 .. Len(c) -> Opens] :
              /\ h[0] = <<>> /\ h[Len(c)] = Opened(c)
              /\ \A i \in 1 .. Len(c) : h[i] = After(h[i - 1], c[i])
  BY <1>1, OpenedRun
<1> HIDE DEF n, k
<1>4. h[n] = g[n]
  <2>1. \A i \in 1 .. n : i \in 1 .. n + k /\ i <= n
    BY <1>0
  <2>2. \A i \in 1 .. n : h[i] = After(h[i - 1], a[i])
    BY <1>1, <1>3, <2>1
  <2>3. \A i \in 1 .. n : g[i] = After(g[i - 1], a[i])
    BY <1>2
  <2>4. h[0] = g[0]
    BY <1>2, <1>3
  <2> QED
    BY ONLY <2>2, <2>3, <2>4, a \in Seq(Mark), SameRun DEF n
<1> DEFINE f == [i \in 0 .. k |-> h[n + i]]
<1>5. f \in [0 .. k -> Opens]
  <2>1. \A i \in 0 .. k : n + i \in 0 .. Len(c)
    BY <1>0, <1>1
  <2> QED
    BY <1>3, <2>1
<1>6. f[0] = Opened(a) /\ f[k] = Opened(c)
  <2>1. 0 \in 0 .. k /\ k \in 0 .. k /\ n + 0 = n
    BY <1>0
  <2> QED
    BY <1>1, <1>2, <1>3, <1>4, <2>1
<1>7. ASSUME NEW i \in 1 .. k  PROVE f[i] = After(f[i - 1], b[i])
  <2> DEFINE j == n + i
  <2>1. j \in 1 .. n + k /\ ~(j <= n) /\ j - n = i /\ j - 1 = n + (i - 1) /\ i \in 0 .. k /\ i - 1 \in 0 .. k
    BY <1>0
  <2>2. f[i] = h[j] /\ f[i - 1] = h[j - 1]
    BY <2>1
  <2> HIDE DEF j
  <2>3. h[j] = After(h[j - 1], c[j]) /\ c[j] = b[i]
    BY <1>1, <1>3, <2>1
  <2> QED
    BY <2>2, <2>3
<1> HIDE DEF f
<1> QED
  BY <1>5, <1>6, <1>7 DEF k, c

LEMMA OpenedEmpty == Opened(<<>>) = <<>>
<1>1. <<>> \in Seq(Mark) /\ Len(<<>>) = 0
  BY EmptySeq
<1> QED
  BY <1>1, OpenedRun

\* Pieces that close what they open leave nothing open.
LEMMA OpenedBalanced ==
    ASSUME NEW a \in Seq(Mark), NEW b \in Seq(Mark), Opened(a) = <<>>, Opened(b) = <<>>
    PROVE  Opened(Cat(a, b)) = <<>>
<1>1. PICK f \in [0 .. Len(b) -> Opens] :
              /\ f[0] = Opened(a) /\ f[Len(b)] = Opened(Cat(a, b))
              /\ \A i \in 1 .. Len(b) : f[i] = After(f[i - 1], b[i])
  BY OpenedCat
<1>2. PICK g \in [0 .. Len(b) -> Opens] :
              /\ g[0] = <<>> /\ g[Len(b)] = Opened(b)
              /\ \A i \in 1 .. Len(b) : g[i] = After(g[i - 1], b[i])
  BY OpenedRun
<1>3. f[Len(b)] = g[Len(b)]
  <2>1. Len(b) \in Nat /\ f[0] = g[0]
    BY <1>1, <1>2
  <2> QED
    BY <1>1, <1>2, <2>1, SameRun
<1> QED
  BY <1>1, <1>2, <1>3

\* One more piece.
LEMMA OpenedOne ==
    ASSUME NEW a \in Seq(Mark), NEW t \in Mark
    PROVE  Opened(Cat(a, <<t>>)) = After(Opened(a), t)
<1> DEFINE b == <<t>>
<1>1. b \in Seq(Mark) /\ Len(b) = 1 /\ b[1] = t
  OBVIOUS
<1> HIDE DEF b
<1>2. PICK f \in [0 .. Len(b) -> Opens] :
              /\ f[0] = Opened(a) /\ f[Len(b)] = Opened(Cat(a, b))
              /\ \A i \in 1 .. Len(b) : f[i] = After(f[i - 1], b[i])
  BY <1>1, OpenedCat
<1>3. f[1] = After(f[0], b[1])
  <2>1. 1 \in 1 .. Len(b) /\ 1 - 1 = 0
    BY <1>1
  <2> QED
    BY <1>2, <2>1
<1> QED
  BY <1>1, <1>2, <1>3 DEF b

\* The open tags, from the outermost in.
Frame == [tag : HtmlTag, opening : Nat, closing : Nat]
Names(s) == [i \in DOMAIN s |-> s[i].tag]

\* The first of some names.
LEMMA Prefix ==
    ASSUME NEW names \in Seq(HtmlTag), NEW j \in 0 .. Len(names)
    PROVE  /\ SubSeq(names, 1, j) \in Opens /\ Len(SubSeq(names, 1, j)) = j
           /\ \A k \in 1 .. j : SubSeq(names, 1, j)[k] = names[k]
<1> DEFINE U == HtmlTag \union {"unmatched"}
           n == Len(names)
           up == SubSeq(names, 1, j)
<1>1. names \in Seq(U) /\ n \in Nat
  BY SeqMonotonic
<1> HIDE DEF U
<1>2. 1 \in 1 .. n + 1 /\ j \in 1 - 1 .. n /\ j - 1 + 1 = j
  BY <1>1
<1>3. /\ up \in Seq(U)
      /\ Len(up) = IF 1 <= j THEN j - 1 + 1 ELSE 0
      /\ \A k \in 1 .. j - 1 + 1 : up[k] = names[1 + k - 1]
  BY <1>1, <1>2, SubSeqProperties
<1>4. j \in Nat /\ (~(1 <= j) => j = 0) /\ \A k \in 1 .. j : 1 + k - 1 = k /\ k \in 1 .. j - 1 + 1
  BY <1>1
<1> HIDE DEF up
<1>5. up \in Opens /\ Len(up) = j /\ \A k \in 1 .. j : up[k] = names[k]
  BY <1>3, <1>4 DEF Opens, U
<1> QED
  BY <1>5 DEF up

LEMMA PrefixEnds ==
    ASSUME NEW names \in Seq(HtmlTag)
    PROVE  SubSeq(names, 1, 0) = <<>> /\ SubSeq(names, 1, Len(names)) = names
<1> DEFINE U == HtmlTag \union {"unmatched"}
           n == Len(names)
           none == SubSeq(names, 1, 0)
           all == SubSeq(names, 1, n)
<1>1. names \in Seq(U) /\ n \in Nat /\ 0 \in 0 .. n /\ n \in 0 .. n
  BY SeqMonotonic
<1>2. none \in Seq(U) /\ Len(none) = 0
  BY <1>1, Prefix DEF Opens
<1>3. all \in Seq(U) /\ Len(all) = n /\ \A k \in 1 .. n : all[k] = names[k]
  BY <1>1, Prefix DEF Opens
<1> HIDE DEF U, none, all
<1>4. none = <<>>
  BY <1>2, EmptySeq
<1>5. all = names
  BY <1>1, <1>3, SeqEqual
<1> QED
  BY <1>4, <1>5 DEF none, all

\* The first names, with one more or one less.
LEMMA PrefixStep ==
    ASSUME NEW names \in Seq(HtmlTag), NEW i \in 1 .. Len(names)
    PROVE  /\ Append(SubSeq(names, 1, i - 1), names[i]) = SubSeq(names, 1, i)
           /\ SubSeq(names, 1, i) # <<>> /\ Last(SubSeq(names, 1, i)) = names[i]
           /\ Front(SubSeq(names, 1, i)) = SubSeq(names, 1, i - 1)
<1> DEFINE U == HtmlTag \union {"unmatched"}
           u == SubSeq(names, 1, i - 1)
           w == SubSeq(names, 1, i)
           x == names[i]
<1>1. i - 1 \in 0 .. Len(names) /\ i \in 0 .. Len(names) /\ x \in HtmlTag /\ i \in Nat /\ i > 0
  OBVIOUS
<1>2. u \in Opens /\ Len(u) = i - 1 /\ \A k \in 1 .. i - 1 : u[k] = names[k]
  BY <1>1, Prefix
<1>3. w \in Opens /\ Len(w) = i /\ \A k \in 1 .. i : w[k] = names[k]
  BY <1>1, Prefix
<1>4. w[i] = x
  BY <1>1, <1>3
<1> HIDE DEF u, w, x
<1>5. /\ Append(u, x) \in Opens /\ Append(u, x) # <<>>
      /\ Last(Append(u, x)) = x /\ Front(Append(u, x)) = u
  BY <1>1, <1>2, OpensEnd
<1>6. u \in Seq(U) /\ w \in Seq(U) /\ Append(u, x) \in Seq(U) /\ x \in U
  BY <1>1, <1>2, <1>3, <1>5 DEF Opens
<1> HIDE DEF U
<1>7. /\ Len(Append(u, x)) = Len(u) + 1
      /\ \A k \in 1 .. Len(u) : Append(u, x)[k] = u[k]
      /\ Append(u, x)[Len(u) + 1] = x
  BY <1>6, AppendProperties
<1>8. \A k \in 1 .. i : Append(u, x)[k] = w[k]
  <2>1. \A k \in 1 .. i : k \in 1 .. i - 1 \/ k = i
    BY <1>1
  <2>2. i - 1 + 1 = i
    BY <1>1
  <2> QED
    BY <1>2, <1>3, <1>4, <1>7, <2>1, <2>2
<1>9. Append(u, x) = w
  <2>1. Len(Append(u, x)) = Len(w)
    BY <1>1, <1>2, <1>3, <1>7
  <2> QED
    BY <1>3, <1>6, <1>8, <2>1, SeqEqual
<1> QED
  BY <1>5, <1>9 DEF u, w, x

\* Tags that open leave themselves open; tags that close them, from the innermost out, leave
\* nothing open.
LEMMA OpenedAgain ==
    ASSUME NEW s \in Seq(Frame), NEW tags, tags = [i \in DOMAIN s |-> [tag |-> s[i].tag, kind |-> "open"]]
    PROVE  tags \in Seq(Mark) /\ Opened(tags) = Names(s)
<1> DEFINE n == Len(s)
           names == Names(s)
           up(j) == SubSeq(names, 1, j)
<1>1. /\ n \in Nat /\ names \in Seq(HtmlTag) /\ Len(names) = n /\ tags \in Seq(Mark) /\ Len(tags) = n
      /\ \A i \in 1 .. n : tags[i] = [tag |-> names[i], kind |-> "open"]
  <2>1. n \in Nat /\ DOMAIN s = 1 .. n /\ \A i \in 1 .. n : s[i].tag \in HtmlTag
    <3>1. n \in Nat /\ DOMAIN s = 1 .. n
      OBVIOUS
    <3>2. ASSUME NEW i \in 1 .. n  PROVE s[i].tag \in HtmlTag
      <4>1. s[i] \in Frame
        OBVIOUS
      <4> QED
        BY <4>1 DEF Frame
    <3> QED
      BY <3>1, <3>2
  <2>2. names = [i \in 1 .. n |-> s[i].tag] /\ tags = [i \in 1 .. n |-> [tag |-> s[i].tag, kind |-> "open"]]
    BY <2>1 DEF Names
  <2> HIDE DEF n, names
  <2>3. names \in Seq(HtmlTag) /\ Len(names) = n /\ \A i \in 1 .. n : names[i] = s[i].tag
    BY <2>1, <2>2
  <2>4. tags \in [1 .. n -> Mark] /\ \A i \in 1 .. n : tags[i] = [tag |-> names[i], kind |-> "open"]
    BY <2>1, <2>2, <2>3 DEF Mark
  <2>5. tags \in Seq(Mark) /\ Len(tags) = n
    BY ONLY <2>1, <2>4
  <2> QED
    BY ONLY <2>1, <2>3, <2>4, <2>5
<1>2. PICK f \in [0 .. Len(tags) -> Opens] :
              /\ f[0] = <<>> /\ f[Len(tags)] = Opened(tags)
              /\ \A i \in 1 .. Len(tags) : f[i] = After(f[i - 1], tags[i])
  BY <1>1, OpenedRun
<1> HIDE DEF n, names
<1>3. \A i \in 1 .. n : Append(up(i - 1), names[i]) = up(i)
  <2> SUFFICES ASSUME NEW i \in 1 .. n  PROVE Append(up(i - 1), names[i]) = up(i)
    OBVIOUS
  <2>1. i \in 1 .. Len(names)
    BY <1>1
  <2> QED
    BY <1>1, <2>1, PrefixStep
<1>4. up(0) = <<>> /\ up(n) = names
  <2>1. SubSeq(names, 1, 0) = <<>> /\ SubSeq(names, 1, Len(names)) = names
    BY <1>1, PrefixEnds
  <2> QED
    BY <1>1, <2>1
<1> HIDE DEF up
<1> DEFINE T == {i \in 0 .. n : f[i] = up(i)}
<1>5. 0 \in T
  BY <1>1, <1>2, <1>4
<1>6. ASSUME NEW i \in 0 .. n, i \in T, i < n  PROVE i + 1 \in T
  <2>1. i + 1 \in 1 .. n /\ i + 1 \in 0 .. n /\ i + 1 - 1 = i
    BY <1>1, <1>6
  <2>2. f[i + 1] = After(up(i), tags[i + 1])
    BY <1>1, <1>2, <1>6, <2>1
  <2>3. After(up(i), tags[i + 1]) = Append(up(i), names[i + 1])
    <3>0. tags[i + 1] = [tag |-> names[i + 1], kind |-> "open"]
      BY <1>1, <2>1
    <3>1. tags[i + 1].kind = "open" /\ tags[i + 1].tag = names[i + 1]
      BY <3>0
    <3> QED
      BY <3>1 DEF After
  <2>4. Append(up(i), names[i + 1]) = up(i + 1)
    BY <1>3, <2>1
  <2> QED
    BY <2>1, <2>2, <2>3, <2>4
<1>7. 0 .. n \subseteq T
  <2> HIDE DEF T
  <2> QED
    BY <1>1, <1>5, <1>6, Induction
<1>8. f[n] = up(n)
  BY <1>1, <1>7
<1> QED
  BY <1>1, <1>2, <1>4, <1>8 DEF names

LEMMA ClosedAgain ==
    ASSUME NEW s \in Seq(Frame), NEW a \in Seq(Mark), Opened(a) = Names(s), NEW tags,
           tags = [i \in DOMAIN s |-> [tag |-> s[Len(s) + 1 - i].tag, kind |-> "close"]]
    PROVE  tags \in Seq(Mark) /\ Opened(Cat(a, tags)) = <<>>
<1> DEFINE n == Len(s)
           names == Names(s)
           up(j) == SubSeq(names, 1, j)
<1>1. /\ n \in Nat /\ names \in Seq(HtmlTag) /\ Len(names) = n
      /\ \A i \in 1 .. n : names[i] = s[i].tag /\ s[i].tag \in HtmlTag
  <2>1. n \in Nat /\ DOMAIN s = 1 .. n /\ \A i \in 1 .. n : s[i].tag \in HtmlTag
    <3>1. n \in Nat /\ DOMAIN s = 1 .. n
      OBVIOUS
    <3>2. ASSUME NEW i \in 1 .. n  PROVE s[i].tag \in HtmlTag
      <4>1. s[i] \in Frame
        OBVIOUS
      <4> QED
        BY <4>1 DEF Frame
    <3> QED
      BY <3>1, <3>2
  <2>2. names = [i \in 1 .. n |-> s[i].tag]
    BY <2>1 DEF Names
  <2> HIDE DEF n, names
  <2> QED
    BY <2>1, <2>2
<1>2. /\ tags \in Seq(Mark) /\ Len(tags) = n
      /\ \A i \in 1 .. n : tags[i] = [tag |-> names[n + 1 - i], kind |-> "close"]
  <2>1. \A i \in 1 .. n : n + 1 - i \in 1 .. n
    BY <1>1
  <2>2. tags = [i \in 1 .. n |-> [tag |-> s[n + 1 - i].tag, kind |-> "close"]]
    BY <1>1
  <2> HIDE DEF n, names
  <2>3. ASSUME NEW i \in 1 .. n
        PROVE  /\ tags[i] = [tag |-> names[n + 1 - i], kind |-> "close"]
               /\ [tag |-> s[n + 1 - i].tag, kind |-> "close"] \in Mark
    <3>1. n + 1 - i \in 1 .. n
      BY <2>1
    <3>2. names[n + 1 - i] = s[n + 1 - i].tag /\ s[n + 1 - i].tag \in HtmlTag
      BY <1>1, <3>1
    <3>3. tags[i] = [tag |-> s[n + 1 - i].tag, kind |-> "close"]
      BY <2>2
    <3> QED
      BY <3>2, <3>3 DEF Mark
  <2>4. tags \in [1 .. n -> Mark]
    BY <2>2, <2>3
  <2>5. tags \in Seq(Mark) /\ Len(tags) = n
    BY ONLY <1>1, <2>4
  <2> QED
    BY ONLY <2>3, <2>5
<1>3. PICK f \in [0 .. Len(tags) -> Opens] :
              /\ f[0] = Opened(a) /\ f[Len(tags)] = Opened(Cat(a, tags))
              /\ \A i \in 1 .. Len(tags) : f[i] = After(f[i - 1], tags[i])
  BY <1>2, OpenedCat
<1> HIDE DEF n, names
<1>4. \A j \in 1 .. n : up(j) # <<>> /\ Last(up(j)) = names[j] /\ Front(up(j)) = up(j - 1)
  <2> SUFFICES ASSUME NEW j \in 1 .. n
               PROVE  up(j) # <<>> /\ Last(up(j)) = names[j] /\ Front(up(j)) = up(j - 1)
    OBVIOUS
  <2>1. j \in 1 .. Len(names)
    BY <1>1
  <2> QED
    BY <1>1, <2>1, PrefixStep
<1>5. up(0) = <<>> /\ up(n) = names
  <2>1. SubSeq(names, 1, 0) = <<>> /\ SubSeq(names, 1, Len(names)) = names
    BY <1>1, PrefixEnds
  <2> QED
    BY <1>1, <2>1
<1> HIDE DEF up
<1> DEFINE T == {i \in 0 .. n : f[i] = up(n - i)}
<1>6. 0 \in T
  <2>1. n - 0 = n /\ 0 \in 0 .. n
    BY <1>1
  <2> QED
    BY <1>3, <1>5, <2>1 DEF names
<1>7. ASSUME NEW i \in 0 .. n, i \in T, i < n  PROVE i + 1 \in T
  <2>1. /\ i + 1 \in 1 .. n /\ i + 1 \in 0 .. n /\ i + 1 - 1 = i
        /\ n - i \in 1 .. n /\ n + 1 - (i + 1) = n - i /\ n - i - 1 = n - (i + 1)
    BY <1>1, <1>7
  <2> DEFINE j == n - i
  <2>2. f[i + 1] = After(up(j), tags[i + 1])
    BY <1>2, <1>3, <1>7, <2>1
  <2>3. tags[i + 1].kind = "close" /\ tags[i + 1].tag = names[j]
    <3>1. tags[i + 1] = [tag |-> names[j], kind |-> "close"]
      BY <1>2, <2>1
    <3> QED
      BY <3>1
  <2>4. up(j) # <<>> /\ Last(up(j)) = names[j] /\ Front(up(j)) = up(j - 1) /\ j - 1 = n - (i + 1)
    BY <1>4, <2>1
  <2> HIDE DEF j
  <2>5. After(up(j), tags[i + 1]) = up(j - 1)
    BY <2>3, <2>4 DEF After
  <2> QED
    BY <2>1, <2>2, <2>4, <2>5
<1>8. 0 .. n \subseteq T
  <2> HIDE DEF T
  <2> QED
    BY <1>1, <1>6, <1>7, Induction
<1>9. f[n] = up(0)
  <2>1. n \in 0 .. n /\ n - n = 0
    BY <1>1
  <2>2. n \in T
    BY <1>8, <2>1
  <2> QED
    BY <2>1, <2>2
<1> QED
  BY <1>2, <1>3, <1>5, <1>9
-----------------------------------------------------------------------------
(* Sequences that are put together from those of their elements.           *)

Maps(S, T) == [S -> Seq(T)]
Map(f, s) == [i \in DOMAIN s |-> f[s[i]]]
FlatMap(f, s) == FlattenSeq(Map(f, s))

LEMMA MapType ==
    ASSUME NEW S, NEW T, NEW f \in Maps(S, T), NEW s \in Seq(S)
    PROVE  /\ Map(f, s) \in Seq(Seq(T)) /\ Len(Map(f, s)) = Len(s)
           /\ \A i \in 1 .. Len(s) : Map(f, s)[i] = f[s[i]]
<1> DEFINE Q == Seq(T)
<1>1. f \in [S -> Q] /\ Len(s) \in Nat /\ DOMAIN s = 1 .. Len(s)
  BY DEF Maps
<1> HIDE DEF Q
<1>2. Map(f, s) \in Seq(Q) /\ Len(Map(f, s)) = Len(s) /\ \A i \in 1 .. Len(s) : Map(f, s)[i] = f[s[i]]
  BY <1>1 DEF Map
<1> QED
  BY <1>2 DEF Q

LEMMA MapCat ==
    ASSUME NEW S, NEW T, NEW f \in Maps(S, T), NEW p \in Seq(S), NEW q \in Seq(S)
    PROVE  Map(f, Cat(p, q)) = Cat(Map(f, p), Map(f, q))
<1> DEFINE u == Cat(p, q)
           mp == Map(f, p)
           mq == Map(f, q)
           mu == Map(f, u)
           m == Len(p)
           n == Len(q)
           Q == Seq(T)
<1>1. /\ u \in Seq(S) /\ Len(u) = m + n /\ m \in Nat /\ n \in Nat
      /\ \A i \in 1 .. m + n : u[i] = IF i <= m THEN p[i] ELSE q[i - m]
  <2>1. m \in Nat /\ n \in Nat
    OBVIOUS
  <2> QED
    BY <2>1, CatFacts, Zenon
<1> HIDE DEF u
<1>2. mp \in Seq(Q) /\ Len(mp) = m /\ \A i \in 1 .. m : mp[i] = f[p[i]]
  BY MapType
<1>3. mq \in Seq(Q) /\ Len(mq) = n /\ \A i \in 1 .. n : mq[i] = f[q[i]]
  BY MapType
<1>4. mu \in Seq(Q) /\ Len(mu) = m + n /\ \A i \in 1 .. m + n : mu[i] = f[u[i]]
  BY <1>1, MapType
<1> HIDE DEF mp, mq, mu, m, n, Q
<1>5. /\ Cat(mp, mq) \in Seq(Q) /\ Len(Cat(mp, mq)) = m + n
      /\ \A i \in 1 .. m + n : Cat(mp, mq)[i] = IF i <= m THEN mp[i] ELSE mq[i - m]
  BY <1>2, <1>3, CatFacts
<1>6. ASSUME NEW i \in 1 .. Len(mu)  PROVE mu[i] = Cat(mp, mq)[i]
  <2>1. i \in 1 .. m + n /\ mu[i] = f[u[i]]
    BY <1>4
  <2>2. CASE i <= m
    <3>1. i \in 1 .. m /\ u[i] = p[i] /\ Cat(mp, mq)[i] = mp[i]
      BY <1>1, <1>5, <2>1, <2>2
    <3> QED
      BY <1>2, <2>1, <3>1
  <2>3. CASE ~(i <= m)
    <3>1. i - m \in 1 .. n /\ u[i] = q[i - m] /\ Cat(mp, mq)[i] = mq[i - m]
      BY <1>1, <1>5, <2>1, <2>3
    <3> QED
      BY <1>3, <2>1, <3>1
  <2> QED
    BY <2>2, <2>3
<1>7. mu = Cat(mp, mq)
  BY <1>4, <1>5, <1>6, SeqEqual
<1> QED
  BY <1>7 DEF mp, mq, mu, u

LEMMA FlatMapType ==
    ASSUME NEW S, NEW T, NEW f \in Maps(S, T), NEW s \in Seq(S)
    PROVE  FlatMap(f, s) \in Seq(T)
<1>1. Map(f, s) \in Seq(Seq(T))
  BY MapType
<1> QED
  BY <1>1, FlattenType DEF FlatMap

LEMMA FlatMapEmpty == ASSUME NEW f PROVE FlatMap(f, <<>>) = <<>>
<1>1. Map(f, <<>>) = <<>>
  BY DEF Map
<1> QED
  BY <1>1, FlattenEmpty DEF FlatMap

LEMMA FlatMapCat ==
    ASSUME NEW S, NEW T, NEW f \in Maps(S, T), NEW p \in Seq(S), NEW q \in Seq(S)
    PROVE  FlatMap(f, Cat(p, q)) = Cat(FlatMap(f, p), FlatMap(f, q))
<1> DEFINE mp == Map(f, p)
           mq == Map(f, q)
<1>1. mp \in Seq(Seq(T)) /\ mq \in Seq(Seq(T)) /\ Map(f, Cat(p, q)) = Cat(mp, mq)
  BY MapType, MapCat
<1> HIDE DEF mp, mq
<1>2. FlattenSeq(Cat(mp, mq)) = Cat(FlattenSeq(mp), FlattenSeq(mq))
  BY <1>1, FlattenConcat
<1> QED
  BY <1>1, <1>2 DEF FlatMap, mp, mq

LEMMA FlatMapOne ==
    ASSUME NEW S, NEW T, NEW f \in Maps(S, T), NEW x \in S
    PROVE  FlatMap(f, <<x>>) = f[x]
<1>1. Map(f, <<x>>) = <<f[x]>> /\ f[x] \in Seq(T)
  BY DEF Maps, Map
<1> QED
  BY <1>1, FlattenOne DEF FlatMap

LEMMA FlatMapAppend ==
    ASSUME NEW S, NEW T, NEW f \in Maps(S, T), NEW s \in Seq(S), NEW x \in S
    PROVE  FlatMap(f, Append(s, x)) = Cat(FlatMap(f, s), f[x])
<1> DEFINE one == <<x>>
<1>1. Append(s, x) = Cat(s, one) /\ one \in Seq(S) /\ FlatMap(f, one) = f[x]
  BY CatAppend, FlatMapOne
<1> HIDE DEF one
<1>2. FlatMap(f, Cat(s, one)) = Cat(FlatMap(f, s), FlatMap(f, one))
  BY <1>1, FlatMapCat
<1> QED
  BY <1>1, <1>2

LEMMA FlatMapTail ==
    ASSUME NEW S, NEW T, NEW f \in Maps(S, T), NEW s \in Seq(S), s # <<>>
    PROVE  /\ s[1] \in S /\ Tail(s) \in Seq(S)
           /\ FlatMap(f, s) = Cat(f[s[1]], FlatMap(f, Tail(s)))
<1> DEFINE x == s[1]
           t == Tail(s)
           one == <<s[1]>>
<1>1. x \in S /\ t \in Seq(S) /\ s = Cat(one, t)
  BY HeadCat
<1>2. one \in Seq(S) /\ FlatMap(f, one) = f[x]
  BY <1>1, FlatMapOne
<1> HIDE DEF x, t, one
<1>3. FlatMap(f, Cat(one, t)) = Cat(FlatMap(f, one), FlatMap(f, t))
  BY <1>1, <1>2, FlatMapCat
<1> QED
  BY <1>1, <1>2, <1>3 DEF x, t

-----------------------------------------------------------------------------
(* The text and the tags of blocks, places and messages.                   *)

BlockNo == -1 .. Len(document.blocks)
RealPlace == {p \in Place : p.token \in DOMAIN Html(p.block)}

Chars == [p \in RealPlace |-> CharsFrom(p)]
TextIn == [b \in BlockNo |-> TextOf(Places(b))]
MarksIn == [b \in BlockNo |-> TagsIn(Html(b))]

LEMMA CharsType ==
    ASSUME document \in Documents, NEW p \in RealPlace
    PROVE  CharsFrom(p) \in Seq(Place) /\ TokenAt(p) \in Token
<1>1. /\ p \in [block : BlockNo, token : Nat, char : Nat \ {0}]
      /\ p.block \in BlockNo /\ p.char \in Nat \ {0} /\ p.token \in DOMAIN Html(p.block)
  BY DEF RealPlace, Place, BlockNo
<1>2. Html(p.block) \in Seq(Token)
  BY <1>1, HtmlType DEF BlockNo
<1>3. TokenAt(p) \in Token
  BY <1>1, <1>2 DEF TokenAt
<1>4. Len(TokenAt(p).chars) \in Nat
  BY <1>3 DEF Token
<1> DEFINE n == Len(TokenAt(p).chars) + 1 - p.char
<1>5. n \in Int
  BY <1>1, <1>4
<1>6. \A i \in 1 .. n : [p EXCEPT !.char = p.char + i - 1] \in Place
  BY <1>1, <1>5 DEF Place, BlockNo
<1>7. CASE p.block = -1
  BY <1>3, <1>7, EmptySeq DEF CharsFrom
<1>8. CASE p.block # -1
  <2>1. CharsFrom(p) = [i \in 1 .. n |-> [p EXCEPT !.char = p.char + i - 1]]
    BY <1>8 DEF CharsFrom
  <2> HIDE DEF n
  <2>2. [i \in 1 .. n |-> [p EXCEPT !.char = p.char + i - 1]] \in Seq(Place)
    <3>1. CASE n \in Nat
      BY <1>6, <3>1
    <3>2. CASE n < 0
      <4>1. 1 .. n = {}
        BY <1>5, <3>2
      <4>2. [i \in 1 .. n |-> [p EXCEPT !.char = p.char + i - 1]] = <<>>
        BY <4>1
      <4> QED
        BY <4>2, EmptySeq
    <3> QED
      BY <1>5, <3>1, <3>2
  <2> QED
    BY <1>3, <2>1, <2>2
<1> QED
  BY <1>7, <1>8

LEMMA CharsMaps == ASSUME document \in Documents PROVE Chars \in Maps(RealPlace, Place)
BY CharsType DEF Chars, Maps

LEMMA TextOfMap ==
    ASSUME NEW ps \in Seq(RealPlace)
    PROVE  TextOf(ps) = FlatMap(Chars, ps)
<1>1. \A i \in DOMAIN ps : ps[i] \in RealPlace
  OBVIOUS
<1>2. [i \in DOMAIN ps |-> CharsFrom(ps[i])] = Map(Chars, ps)
  BY <1>1 DEF Map, Chars
<1> QED
  BY <1>2 DEF TextOf, FlatMap

LEMMA TextType ==
    ASSUME document \in Documents, NEW ps \in Seq(RealPlace)
    PROVE  TextOf(ps) \in Seq(Place)
BY CharsMaps, TextOfMap, FlatMapType

LEMMA TextCat ==
    ASSUME document \in Documents, NEW ps \in Seq(RealPlace), NEW qs \in Seq(RealPlace)
    PROVE  Cat(ps, qs) \in Seq(RealPlace) /\ TextOf(Cat(ps, qs)) = Cat(TextOf(ps), TextOf(qs))
<1>1. Cat(ps, qs) \in Seq(RealPlace)
  BY CatFacts
<1>2. FlatMap(Chars, Cat(ps, qs)) = Cat(FlatMap(Chars, ps), FlatMap(Chars, qs))
  BY CharsMaps, FlatMapCat
<1> QED
  BY <1>1, <1>2, TextOfMap

LEMMA TextEmpty == TextOf(<<>>) = <<>>
<1>1. <<>> \in Seq(RealPlace)
  BY EmptySeq
<1> QED
  BY <1>1, TextOfMap, FlatMapEmpty

LEMMA TextTail ==
    ASSUME document \in Documents, NEW ps \in Seq(RealPlace), ps # <<>>
    PROVE  /\ ps[1] \in RealPlace /\ Tail(ps) \in Seq(RealPlace)
           /\ TextOf(ps) = Cat(CharsFrom(ps[1]), TextOf(Tail(ps)))
<1>1. /\ ps[1] \in RealPlace /\ Tail(ps) \in Seq(RealPlace)
      /\ FlatMap(Chars, ps) = Cat(Chars[ps[1]], FlatMap(Chars, Tail(ps)))
  BY CharsMaps, FlatMapTail
<1>2. Chars[ps[1]] = CharsFrom(ps[1])
  BY <1>1 DEF Chars
<1> QED
  BY <1>1, <1>2, TextOfMap

LEMMA PlacesReal ==
    ASSUME document \in Documents, NEW b \in BlockNo
    PROVE  /\ Places(b) \in Seq(RealPlace) /\ TextOf(Places(b)) \in Seq(Place)
           /\ Len(Places(b)) = Len(Html(b)) /\ Html(b) \in Seq(Token)
           /\ \A t \in 1 .. Len(Html(b)) : Places(b)[t] = [block |-> b, token |-> t, char |-> 1]
<1>1. Html(b) \in Seq(Token)
  BY HtmlType DEF BlockNo
<1>2. Len(Html(b)) \in Nat /\ DOMAIN Html(b) = 1 .. Len(Html(b))
  BY <1>1
<1>3. \A t \in DOMAIN Html(b) : [block |-> b, token |-> t, char |-> 1] \in RealPlace
  BY <1>2 DEF RealPlace, Place, BlockNo
<1>4. /\ Places(b) \in Seq(RealPlace) /\ Len(Places(b)) = Len(Html(b))
      /\ \A t \in 1 .. Len(Html(b)) : Places(b)[t] = [block |-> b, token |-> t, char |-> 1]
  BY <1>2, <1>3 DEF Places
<1> QED
  BY <1>1, <1>4, TextType

LEMMA TextInMaps == ASSUME document \in Documents PROVE TextIn \in Maps(BlockNo, Place)
BY PlacesReal DEF TextIn, Maps

LEMMA BlocksTextMap ==
    ASSUME NEW bs \in Seq(BlockNo)
    PROVE  BlocksText(bs) = FlatMap(TextIn, bs)
<1>1. \A i \in DOMAIN bs : bs[i] \in BlockNo
  OBVIOUS
<1>2. [i \in DOMAIN bs |-> TextOf(Places(bs[i]))] = Map(TextIn, bs)
  BY <1>1 DEF Map, TextIn
<1> QED
  BY <1>2 DEF BlocksText, FlatMap

LEMMA BlocksTextFacts ==
    ASSUME document \in Documents
    PROVE  /\ BlocksText(<<>>) = <<>>
           /\ \A bs \in Seq(BlockNo) : BlocksText(bs) \in Seq(Place)
           /\ \A b \in BlockNo : BlocksText(<<b>>) = TextOf(Places(b))
           /\ \A bs \in Seq(BlockNo) : bs # <<>> =>
                 /\ bs[1] \in BlockNo /\ Tail(bs) \in Seq(BlockNo)
                 /\ BlocksText(bs) = Cat(TextOf(Places(bs[1])), BlocksText(Tail(bs)))
<1>1. BlocksText(<<>>) = <<>>
  <2>1. <<>> \in Seq(BlockNo)
    BY EmptySeq
  <2> QED
    BY <2>1, BlocksTextMap, FlatMapEmpty
<1>2. ASSUME NEW bs \in Seq(BlockNo)  PROVE BlocksText(bs) \in Seq(Place)
  BY TextInMaps, BlocksTextMap, FlatMapType
<1>3. ASSUME NEW b \in BlockNo  PROVE BlocksText(<<b>>) = TextOf(Places(b))
  <2>1. <<b>> \in Seq(BlockNo) /\ FlatMap(TextIn, <<b>>) = TextIn[b]
    BY TextInMaps, FlatMapOne
  <2> QED
    BY <2>1, BlocksTextMap DEF TextIn
<1>4. ASSUME NEW bs \in Seq(BlockNo), bs # <<>>
      PROVE  /\ bs[1] \in BlockNo /\ Tail(bs) \in Seq(BlockNo)
             /\ BlocksText(bs) = Cat(TextOf(Places(bs[1])), BlocksText(Tail(bs)))
  <2>1. /\ bs[1] \in BlockNo /\ Tail(bs) \in Seq(BlockNo)
        /\ FlatMap(TextIn, bs) = Cat(TextIn[bs[1]], FlatMap(TextIn, Tail(bs)))
    BY <1>4, TextInMaps, FlatMapTail
  <2>2. TextIn[bs[1]] = TextOf(Places(bs[1]))
    BY <2>1 DEF TextIn
  <2> QED
    BY <2>1, <2>2, BlocksTextMap
<1> QED
  BY <1>1, <1>2, <1>3, <1>4

\* Whole blocks close the tags they open.
LEMMA MarksType ==
    ASSUME document \in Documents, NEW b \in BlockNo
    PROVE  TagsIn(Html(b)) \in Seq(Mark) /\ (b # 0 => Opened(TagsIn(Html(b))) = <<>>)
<1>1. Html(b) \in Seq(Token)
  BY PlacesReal
<1>2. \A i \in DOMAIN Html(b) : Tag(Html(b)[i]) \in Mark
  <2> SUFFICES ASSUME NEW i \in DOMAIN Html(b)  PROVE Tag(Html(b)[i]) \in Mark
    OBVIOUS
  <2>1. Html(b)[i] \in Token
    BY <1>1
  <2> QED
    BY <2>1 DEF Tag, Mark, Token
<1>3. TagsIn(Html(b)) \in Seq(Mark)
  <2>1. DOMAIN Html(b) = 1 .. Len(Html(b)) /\ Len(Html(b)) \in Nat
    BY <1>1
  <2> QED
    BY <1>2, <2>1 DEF TagsIn
<1>4. CASE b = -1
  <2>1. TagsIn(Html(b)) = <<[tag |-> "none", kind |-> "unit"]>>
    BY <1>4 DEF Html, EmptyLine, TagsIn, Tag
  <2>2. [tag |-> "none", kind |-> "unit"] \in Mark /\ <<>> \in Seq(Mark)
    BY EmptySeq DEF Mark, HtmlTag
  <2>3. Opened(Cat(<<>>, <<[tag |-> "none", kind |-> "unit"]>>)) = <<>>
    <3>1. After(<<>>, [tag |-> "none", kind |-> "unit"]) = <<>>
      BY DEF After
    <3> QED
      BY <2>2, <3>1, OpenedOne, OpenedEmpty
  <2> QED
    BY <1>3, <2>1, <2>2, <2>3, CatEmpty
<1>5. CASE b \in 1 .. Len(document.blocks)
  <2>1. b \in DOMAIN document.blocks /\ Html(b) = document.blocks[b].html
    BY <1>5, BlocksOf DEF Html
  <2> QED
    BY <1>3, <2>1, BalanceAssumption
<1>6. b = -1 \/ b = 0 \/ b \in 1 .. Len(document.blocks)
  BY BlocksOf DEF BlockNo
<1> QED
  BY <1>3, <1>4, <1>5, <1>6

LEMMA MarksMaps == ASSUME document \in Documents PROVE MarksIn \in Maps(BlockNo, Mark)
BY MarksType DEF MarksIn, Maps

LEMMA BlocksTagsMap ==
    ASSUME NEW bs \in Seq(BlockNo)
    PROVE  BlocksTags(bs) = FlatMap(MarksIn, bs)
<1>1. \A i \in DOMAIN bs : bs[i] \in BlockNo
  OBVIOUS
<1>2. [i \in DOMAIN bs |-> TagsIn(Html(bs[i]))] = Map(MarksIn, bs)
  BY <1>1 DEF Map, MarksIn
<1> QED
  BY <1>2 DEF BlocksTags, FlatMap

LEMMA BlocksTagsOne ==
    ASSUME document \in Documents, NEW b \in BlockNo, b # 0
    PROVE  /\ BlocksTags(<<b>>) \in Seq(Mark) /\ Opened(BlocksTags(<<b>>)) = <<>>
           /\ BlocksTags(<<b>>) = TagsIn(Html(b)) /\ <<b>> \in Seq(BlockNo)
<1>1. <<b>> \in Seq(BlockNo) /\ FlatMap(MarksIn, <<b>>) = MarksIn[b]
  BY MarksMaps, FlatMapOne
<1> QED
  BY <1>1, BlocksTagsMap, MarksType DEF MarksIn

LEMMA BlocksTagsAppend ==
    ASSUME document \in Documents, NEW bs \in Seq(BlockNo), NEW b \in BlockNo, b # 0,
           BlocksTags(bs) \in Seq(Mark), Opened(BlocksTags(bs)) = <<>>
    PROVE  /\ Append(bs, b) \in Seq(BlockNo)
           /\ BlocksTags(Append(bs, b)) \in Seq(Mark) /\ Opened(BlocksTags(Append(bs, b))) = <<>>
<1>1. Append(bs, b) \in Seq(BlockNo)
  OBVIOUS
<1>2. FlatMap(MarksIn, Append(bs, b)) = Cat(FlatMap(MarksIn, bs), MarksIn[b])
  BY MarksMaps, FlatMapAppend
<1>3. MarksIn[b] \in Seq(Mark) /\ Opened(MarksIn[b]) = <<>>
  BY MarksType DEF MarksIn
<1>4. Cat(BlocksTags(bs), MarksIn[b]) \in Seq(Mark) /\ Opened(Cat(BlocksTags(bs), MarksIn[b])) = <<>>
  BY <1>3, CatFacts, OpenedBalanced
<1> QED
  BY <1>1, <1>2, <1>4, BlocksTagsMap

-----------------------------------------------------------------------------
(* Messages.                                                               *)

Message == [size : Nat, text : Seq(Place), tags : Seq(Mark), around : Nat]
Shut == {m \in Message : Opened(m.tags) = <<>>}

LEMMA SameDocument ==
    ASSUME document' = document
    PROVE  Message' = Message /\ Shut' = Shut /\ RealPlace' = RealPlace /\ BlockNo' = BlockNo
<1>1. BlockNo' = BlockNo
  BY DEF BlockNo
<1>2. Place' = Place
  BY DEF Place
<1>3. Message' = Message
  BY <1>2 DEF Message
<1>4. Shut' = Shut
  BY <1>3 DEF Shut
<1>5. RealPlace' = RealPlace
  BY <1>2 DEF RealPlace, Html
<1> QED
  BY <1>1, <1>3, <1>4, <1>5

LEMMA RealTokens == ASSUME TypeOK PROVE tokens \in Seq(RealPlace)
<1>1. tokens \in Seq(Place) /\ \A i \in DOMAIN tokens : tokens[i].token \in DOMAIN Html(tokens[i].block)
  BY DEF TypeOK
<1>2. \A i \in 1 .. Len(tokens) : tokens[i] \in RealPlace
  BY <1>1 DEF RealPlace
<1> QED
  BY <1>1, <1>2

LEMMA MessageFields ==
    ASSUME NEW m \in Message
    PROVE  m.size \in Nat /\ m.text \in Seq(Place) /\ m.tags \in Seq(Mark) /\ m.around \in Nat
BY DEF Message

LEMMA AddedIs ==
    ASSUME NEW part \in Message, NEW width \in Int, NEW text \in Seq(Place), NEW tags \in Seq(Mark),
           part.size + width \in Nat
    PROVE  /\ Added(part, width, text, tags) \in Message
           /\ Added(part, width, text, tags).size = part.size + width
           /\ Added(part, width, text, tags).around = part.around
           /\ Added(part, width, text, tags).text = Cat(part.text, text)
           /\ Added(part, width, text, tags).tags = Cat(part.tags, tags)
<1> DEFINE m == Added(part, width, text, tags)
<1>1. m = [size |-> part.size + width, text |-> Cat(part.text, text), tags |-> Cat(part.tags, tags),
           around |-> part.around]
  BY Zenon DEF Added, Cat
<1>2. part.size \in Nat /\ part.text \in Seq(Place) /\ part.tags \in Seq(Mark) /\ part.around \in Nat
  BY MessageFields
<1>3. Cat(part.text, text) \in Seq(Place) /\ Cat(part.tags, tags) \in Seq(Mark)
  BY <1>2, CatFacts
<1> HIDE DEF m
<1>4. /\ m \in Message /\ m.size = part.size + width /\ m.around = part.around
      /\ m.text = Cat(part.text, text) /\ m.tags = Cat(part.tags, tags)
  BY <1>1, <1>2, <1>3 DEF Message
<1> QED
  BY <1>4 DEF m

LEMMA EmptyIs ==
    /\ Empty \in Message /\ Empty.size = 0 /\ Empty.text = <<>> /\ Empty.tags = <<>>
    /\ Empty \in Shut
<1>1. <<>> \in Seq(Place) /\ <<>> \in Seq(Mark)
  BY EmptySeq
<1>2. Empty \in Message /\ Empty.size = 0 /\ Empty.text = <<>> /\ Empty.tags = <<>>
  BY <1>1 DEF Empty, Message
<1> QED
  BY <1>2, OpenedEmpty DEF Shut

LEMMA StackType == ASSUME TypeOK PROVE stack \in Seq(Frame) /\ (stack = <<>> => Names(stack) = <<>>)
<1>1. stack \in Seq(Frame)
  BY DEF TypeOK, Frame
<1>2. stack = <<>> => Names(stack) = <<>>
  BY DEF Names
<1> QED
  BY <1>1, <1>2

\* A message that starts inside of the open tags opens them again.
LEMMA ReopenedIs ==
    ASSUME TypeOK
    PROVE  /\ Reopened \in Message /\ Opened(Reopened.tags) = Names(stack)
           /\ Reopened.text = <<>> /\ Reopened.size = Opening /\ Reopened.around = Opening + Closing
<1> DEFINE tags == [i \in DOMAIN stack |-> [tag |-> stack[i].tag, kind |-> "open"]]
<1>1. stack \in Seq(Frame) /\ Opening \in Nat /\ Closing \in Nat
  BY StackType, Lengths
<1>2. tags \in Seq(Mark) /\ Opened(tags) = Names(stack)
  BY <1>1, OpenedAgain
<1>3. Reopened = [size |-> Opening, text |-> <<>>, around |-> Opening + Closing, tags |-> tags]
  BY DEF Reopened
<1> HIDE DEF tags
<1>4. <<>> \in Seq(Place)
  BY EmptySeq
<1> QED
  BY <1>1, <1>2, <1>3, <1>4 DEF Message

\* A message that ends inside of the open tags closes them.
LEMMA ClosedIs ==
    ASSUME TypeOK, NEW part \in Message, Opened(part.tags) = Names(stack)
    PROVE  /\ Closed(part) \in Shut /\ Closed(part).text = part.text
           /\ Closed(part).size = part.size + Closing /\ Closed(part).around = part.around
<1> DEFINE tags == [i \in DOMAIN stack |-> [tag |-> stack[Len(stack) + 1 - i].tag, kind |-> "close"]]
<1>1. stack \in Seq(Frame) /\ Closing \in Nat
  BY StackType, Lengths
<1>2. part.size \in Nat /\ part.text \in Seq(Place) /\ part.tags \in Seq(Mark) /\ part.around \in Nat
  BY MessageFields
<1>3. tags \in Seq(Mark) /\ Opened(Cat(part.tags, tags)) = <<>>
  BY <1>1, <1>2, ClosedAgain
<1>4. Closed(part) = [size |-> part.size + Closing, text |-> part.text, around |-> part.around,
                      tags |-> Cat(part.tags, tags)]
  BY Zenon DEF Closed, Cat
<1> HIDE DEF tags
<1>5. Cat(part.tags, tags) \in Seq(Mark)
  BY <1>2, <1>3, CatFacts
<1> QED
  BY <1>1, <1>2, <1>3, <1>4, <1>5 DEF Message, Shut

Texts == [m \in Message |-> m.text]

LEMMA TextsMaps == Texts \in Maps(Message, Place)
BY MessageFields DEF Texts, Maps

LEMMA ShutMessages == ASSUME NEW ps \in Seq(Shut) PROVE ps \in Seq(Message)
BY SeqMonotonic DEF Shut

LEMMA TextMap == ASSUME NEW ps \in Seq(Message) PROVE Text(ps) = FlatMap(Texts, ps)
<1>1. \A i \in DOMAIN ps : ps[i] \in Message
  OBVIOUS
<1>2. [i \in DOMAIN ps |-> ps[i].text] = Map(Texts, ps)
  BY <1>1 DEF Map, Texts
<1> QED
  BY <1>2 DEF Text, FlatMap

LEMMA TextAppend ==
    ASSUME NEW ps \in Seq(Message), NEW m \in Message
    PROVE  /\ Append(ps, m) \in Seq(Message) /\ Text(ps) \in Seq(Place)
           /\ Text(Append(ps, m)) = Cat(Text(ps), m.text)
<1>1. Append(ps, m) \in Seq(Message) /\ Texts[m] = m.text
  BY DEF Texts
<1>2. FlatMap(Texts, Append(ps, m)) = Cat(FlatMap(Texts, ps), Texts[m])
  BY TextsMaps, FlatMapAppend
<1>3. FlatMap(Texts, ps) \in Seq(Place)
  BY TextsMaps, FlatMapType
<1> QED
  BY <1>1, <1>2, <1>3, TextMap

LEMMA NoText == Text(<<>>) = <<>>
<1>1. <<>> \in Seq(Message)
  BY EmptySeq
<1> QED
  BY <1>1, TextMap, FlatMapEmpty

-----------------------------------------------------------------------------
(* Messages close the tags they open.                                      *)

\* The message being filled has open the tags that are open; the others have none.
MarkInv ==
    /\ current \in Message /\ Opened(current.tags) = Names(stack)
    /\ current.size = 0 => current.text = <<>>
    /\ parts \in Seq(Shut)
    /\ \A group \in Elements(plan) : group.parts \in Seq(Shut)

LEMMA MarkNext ==
    ASSUME document' = document, current' \in Message, Opened(current'.tags) = Names(stack'),
           current'.size = 0 => current'.text = <<>>, parts' \in Seq(Shut),
           \A group \in Elements(plan') : group.parts \in Seq(Shut)
    PROVE  MarkInv'
BY SameDocument DEF MarkInv

\* A message that is complete loses nothing and closes its tags.
LEMMA FlushedIs ==
    ASSUME TypeOK, MarkInv
    PROVE  Flushed \in Seq(Shut) /\ Text(Flushed) = Cat(Text(parts), current.text)
<1>1. /\ Closed(current) \in Shut /\ Closed(current).text = current.text
      /\ current \in Message /\ parts \in Seq(Shut) /\ parts \in Seq(Message) /\ current.size \in Nat
  BY ClosedIs, ShutMessages, MessageFields DEF MarkInv
<1>2. Closed(current) \in Message
  BY <1>1 DEF Shut
<1>3. CASE current.size > 0
  <2>1. Append(parts, Closed(current)) \in Seq(Shut)
    BY <1>1
  <2>2. Text(Append(parts, Closed(current))) = Cat(Text(parts), current.text)
    BY <1>1, <1>2, TextAppend
  <2> QED
    BY <1>3, <2>1, <2>2 DEF Flushed
<1>4. CASE ~(current.size > 0)
  <2>1. current.text = <<>> /\ Text(parts) \in Seq(Place)
    BY <1>1, <1>4, TextAppend DEF MarkInv
  <2> QED
    BY <1>1, <1>4, <2>1, CatEmpty DEF Flushed
<1> QED
  BY <1>3, <1>4

LEMMA MadeIs ==
    ASSUME TypeOK, MarkInv, stack = <<>>
    PROVE  Made \in Seq(Shut) /\ Text(Made) = Cat(Text(parts), current.text)
<1>1. /\ current \in Message /\ parts \in Seq(Shut) /\ parts \in Seq(Message) /\ current.size \in Nat
      /\ Opened(current.tags) = <<>>
  BY ShutMessages, MessageFields, StackType DEF MarkInv
<1>2. current \in Shut
  BY <1>1 DEF Shut
<1>3. CASE current.size > 0
  <2>1. Append(parts, current) \in Seq(Shut)
    BY <1>1, <1>2
  <2>2. Text(Append(parts, current)) = Cat(Text(parts), current.text)
    BY <1>1, TextAppend
  <2> QED
    BY <1>3, <2>1, <2>2 DEF Made
<1>4. CASE ~(current.size > 0)
  <2>1. current.text = <<>> /\ Text(parts) \in Seq(Place)
    BY <1>1, <1>4, TextAppend DEF MarkInv
  <2> QED
    BY <1>1, <1>4, <2>1, CatEmpty DEF Made
<1> QED
  BY <1>3, <1>4

\* The open tags, with one more and with one less.
LEMMA NamesPush ==
    ASSUME NEW s \in Seq(Frame), NEW x \in Frame
    PROVE  Names(Append(s, x)) = Append(Names(s), x.tag) /\ Names(s) \in Seq(HtmlTag)
<1> DEFINE n == Len(s)
<1>1. /\ Append(s, x) \in Seq(Frame) /\ Len(Append(s, x)) = n + 1 /\ n \in Nat /\ DOMAIN s = 1 .. n
      /\ \A i \in 1 .. n : Append(s, x)[i] = s[i]
      /\ Append(s, x)[n + 1] = x
  BY AppendProperties
<1>2. DOMAIN Append(s, x) = 1 .. n + 1
  BY <1>1
<1>3. x.tag \in HtmlTag /\ \A i \in 1 .. n : s[i].tag \in HtmlTag
  <2>1. x.tag \in HtmlTag
    BY DEF Frame
  <2>2. ASSUME NEW i \in 1 .. n  PROVE s[i].tag \in HtmlTag
    <3>1. s[i] \in Frame
      BY <1>1
    <3> QED
      BY <3>1 DEF Frame
  <2> QED
    BY <2>1, <2>2
<1> HIDE DEF n
<1>4. Names(s) \in Seq(HtmlTag) /\ Len(Names(s)) = n /\ \A i \in 1 .. n : Names(s)[i] = s[i].tag
  BY <1>1, <1>3 DEF Names
<1> DEFINE u == Append(s, x)
<1> HIDE DEF u
<1>5. DOMAIN u = 1 .. n + 1 /\ u[n + 1] = x /\ \A i \in 1 .. n : u[i] = s[i]
  BY <1>1, <1>2 DEF u
<1>6. \A i \in 1 .. n + 1 : u[i].tag \in HtmlTag /\ (i \in 1 .. n \/ i = n + 1)
  BY <1>1, <1>3, <1>5
<1>7. Names(u) \in Seq(HtmlTag) /\ Len(Names(u)) = n + 1 /\ \A i \in 1 .. n + 1 : Names(u)[i] = u[i].tag
  BY <1>1, <1>5, <1>6 DEF Names
<1>8. /\ Append(Names(s), x.tag) \in Seq(HtmlTag) /\ Len(Append(Names(s), x.tag)) = n + 1
      /\ \A i \in 1 .. n : Append(Names(s), x.tag)[i] = Names(s)[i]
      /\ Append(Names(s), x.tag)[n + 1] = x.tag
  BY <1>3, <1>4, AppendProperties
<1>9. \A i \in 1 .. n + 1 : Names(u)[i] = Append(Names(s), x.tag)[i]
  BY <1>4, <1>5, <1>6, <1>7, <1>8
<1>10. Names(u) = Append(Names(s), x.tag)
  BY <1>7, <1>8, <1>9, SeqEqual
<1> QED
  BY <1>4, <1>10 DEF u

LEMMA NamesPop ==
    ASSUME NEW s \in Seq(Frame), s # <<>>
    PROVE  /\ Names(s) \in Opens /\ Names(s) # <<>> /\ Last(Names(s)) = Last(s).tag
           /\ Front(Names(s)) = Names(Front(s)) /\ Front(s) \in Seq(Frame)
<1> DEFINE f == Front(s)
           x == Last(s)
<1>1. /\ f \in Seq(Frame) /\ x \in Frame /\ s = Append(f, x)
  <2> DEFINE n == Len(s)
  <2>1. n \in Nat /\ n > 0 /\ n - 1 \in Nat /\ \A i \in 1 .. n : s[i] \in Frame
    OBVIOUS
  <2>2. /\ SubSeq(s, 1, n - 1) \in Seq(Frame) /\ Len(SubSeq(s, 1, n - 1)) = n - 1
        /\ \A i \in 1 .. n - 1 : SubSeq(s, 1, n - 1)[i] = s[i]
    <3> DEFINE j == n - 1
               u == SubSeq(s, 1, j)
    <3>1. s \in Seq(Frame) /\ 1 \in 1 .. n + 1 /\ j \in 1 - 1 .. n /\ j - 1 + 1 = j
      BY <2>1
    <3>2. /\ u \in Seq(Frame)
          /\ Len(u) = IF 1 <= j THEN j - 1 + 1 ELSE 0
          /\ \A k \in 1 .. j - 1 + 1 : u[k] = s[1 + k - 1]
      <4> HIDE DEF j
      <4> QED
        BY <3>1, SubSeqProperties
    <3>3. j \in Nat /\ (~(1 <= j) => j = 0) /\ \A k \in 1 .. j : 1 + k - 1 = k /\ k \in 1 .. j - 1 + 1
      <4>1. j \in Nat
        BY <2>1
      <4> HIDE DEF j
      <4> QED
        BY <4>1
    <3> HIDE DEF u
    <3>4. u \in Seq(Frame) /\ Len(u) = j /\ \A k \in 1 .. j : u[k] = s[k]
      BY <3>2, <3>3
    <3> QED
      BY <3>4 DEF u
  <2>3. f \in Seq(Frame) /\ Len(f) = n - 1 /\ \A i \in 1 .. n - 1 : f[i] = s[i]
    BY <2>2 DEF Front
  <2>4. x = s[n] /\ x \in Frame
    BY <2>1 DEF Last
  <2> HIDE DEF f, x
  <2>5. /\ Append(f, x) \in Seq(Frame) /\ Len(Append(f, x)) = n
        /\ \A i \in 1 .. n - 1 : Append(f, x)[i] = f[i]
        /\ Append(f, x)[n] = x
    <3>1. /\ Append(f, x) \in Seq(Frame) /\ Len(Append(f, x)) = Len(f) + 1
          /\ \A i \in 1 .. Len(f) : Append(f, x)[i] = f[i]
          /\ Append(f, x)[Len(f) + 1] = x
      BY <2>3, <2>4, AppendProperties
    <3> QED
      BY <2>1, <2>3, <3>1
  <2>6. \A i \in 1 .. n : s[i] = Append(f, x)[i]
    <3>1. \A i \in 1 .. n : i \in 1 .. n - 1 \/ i = n
      BY <2>1
    <3> QED
      BY <2>3, <2>4, <2>5, <3>1
  <2> QED
    BY <2>3, <2>4, <2>5, <2>6, SeqEqual
<1> HIDE DEF f, x
<1>2. Names(s) = Append(Names(f), x.tag) /\ Names(f) \in Seq(HtmlTag) /\ x.tag \in HtmlTag
  BY <1>1, NamesPush DEF Frame
<1>3. Names(f) \in Opens
  BY <1>2, SeqMonotonic DEF Opens
<1>4. /\ Append(Names(f), x.tag) \in Opens /\ Append(Names(f), x.tag) # <<>>
      /\ Last(Append(Names(f), x.tag)) = x.tag /\ Front(Append(Names(f), x.tag)) = Names(f)
  BY <1>2, <1>3, OpensEnd
<1> QED
  BY <1>1, <1>2, <1>4 DEF f, x

LEMMA TagType ==
    ASSUME TypeOK, tokens # <<>>
    PROVE  /\ Tag(TokenAt(tokens[1])) \in Mark
           /\ Tag(TokenAt(tokens[1])).tag = TokenAt(tokens[1]).tag
           /\ Tag(TokenAt(tokens[1])).kind = TokenAt(tokens[1]).kind
           /\ TokenAt(tokens[1]).tag \in HtmlTag
<1>1. TokenAt(tokens[1]) \in Token
  BY TokenType
<1> QED
  BY <1>1 DEF Tag, Mark, Token

LEMMA NewPart ==
    ASSUME IInv, MarkInv, NEW full, NEW part, part = IF full THEN Reopened ELSE current
    PROVE  part \in Message /\ Opened(part.tags) = Names(stack)
           /\ (IF full THEN Flushed ELSE parts) \in Seq(Shut)
<1>1. TypeOK
  BY DEF IInv, PlanInv
<1> QED
  BY <1>1, ReopenedIs, FlushedIs DEF MarkInv

LEMMA OpenTagMarks == ASSUME IInv, MarkInv, OpenTag, IInv' PROVE MarkInv'
<1> DEFINE token == TokenAt(tokens[1])
           full == current.size + token.width + Closing + EndWidth(token.tag) > MaxPart
           part == IF full THEN Reopened ELSE current
           new == [tag |-> token.tag, opening |-> Opening + token.width,
                   closing |-> Closing + EndWidth(token.tag)]
<1>1. TypeOK /\ TypeOK' /\ current'.size \in Nat
  BY DEF IInv, PlanInv, TypeOK
<1>2. tokens # <<>> /\ document' = document /\ plan' = plan /\ token.kind = "open"
  BY DEF OpenTag, Rest, Reads
<1>3. token \in Token /\ Opening \in Nat /\ Closing \in Nat
  BY <1>1, <1>2, TokenType, Lengths
<1>4. token.width \in Nat /\ token.tag \in HtmlTag /\ EndWidth(token.tag) \in Nat
  BY <1>3 DEF Token, EndWidth
<1>5. CASE UNCHANGED <<stack, parts, current>>
  BY <1>2, <1>5, MarkNext DEF MarkInv
<1>6. CASE /\ parts' = IF full THEN Flushed ELSE parts
           /\ current' = Added(part, token.width, <<>>, <<Tag(token)>>)
           /\ stack' = Append(stack, new)
  <2>1. /\ part \in Message /\ Opened(part.tags) = Names(stack) /\ parts' \in Seq(Shut)
    <3> HIDE DEF full
    <3>1. part \in Message /\ Opened(part.tags) = Names(stack) /\ (IF full THEN Flushed ELSE parts) \in Seq(Shut)
      BY NewPart
    <3> QED
      BY <1>6, <3>1
  <2> HIDE DEF full, part
  <2>2. /\ Tag(token) \in Mark /\ Tag(token).tag = token.tag /\ Tag(token).kind = "open"
        /\ stack \in Seq(Frame)
    BY <1>1, <1>2, TagType, StackType
  <2> HIDE DEF token
  <2>3. part.size \in Nat /\ part.text \in Seq(Place) /\ part.tags \in Seq(Mark)
    BY <2>1, MessageFields
  <2> DEFINE t == Tag(token)
  <2>4. <<>> \in Seq(Place) /\ <<t>> \in Seq(Mark) /\ t \in Mark
    BY <2>2, EmptySeq
  <2> HIDE DEF t
  <2>5. part.size + token.width \in Nat /\ token.width \in Int
    BY <1>4, <2>3
  <2>6. /\ current' \in Message /\ current'.tags = Cat(part.tags, <<t>>)
        /\ current'.text = Cat(part.text, <<>>) /\ current'.size = part.size + token.width
    BY <1>6, <2>1, <2>4, <2>5, AddedIs DEF t
  <2>7. Opened(current'.tags) = After(Names(stack), t)
    BY <2>1, <2>3, <2>4, <2>6, OpenedOne
  <2>8. After(Names(stack), t) = Append(Names(stack), token.tag)
    BY <2>2 DEF After, t
  <2>9. new \in Frame /\ new.tag = token.tag
    BY <1>3, <1>4 DEF Frame
  <2> HIDE DEF new
  <2>10. Names(stack') = Append(Names(stack), token.tag)
    BY <1>6, <2>2, <2>9, NamesPush
  <2>11. current'.size = 0 => current'.text = <<>>
    <3>1. current'.text = part.text /\ (current'.size = 0 => part.size = 0)
      BY <1>4, <2>3, <2>6, CatEmpty
    <3>2. part.size = 0 => part.text = <<>>
      BY <1>1, ReopenedIs DEF part, MarkInv
    <3> QED
      BY <3>1, <3>2
  <2> QED
    BY <1>2, <2>1, <2>6, <2>7, <2>8, <2>10, <2>11, MarkNext DEF MarkInv
<1> QED
  BY <1>5, <1>6 DEF OpenTag

\* What closes a tag is as long as what will.
LEMMA EndsNat ==
    ASSUME TypeOK, StackInv, stack # <<>>
    PROVE  Closing - (IF Len(stack) > 1 THEN stack[Len(stack) - 1].closing ELSE 0) \in Nat
<1>1. /\ stack \in Seq(Frame) /\ Len(stack) \in Nat /\ Len(stack) > 0
      /\ \A i \in DOMAIN stack : i > 1 => stack[i - 1].closing <= stack[i].closing
  BY StackType DEF StackInv
<1>2. Closing = stack[Len(stack)].closing /\ Closing \in Nat
  BY Lengths DEF Closing, Last
<1>3. CASE Len(stack) > 1
  <2>1. Len(stack) \in DOMAIN stack /\ Len(stack) - 1 \in DOMAIN stack
    BY <1>1, <1>3
  <2>2. stack[Len(stack) - 1] \in Frame
    BY <1>1, <2>1
  <2>3. stack[Len(stack) - 1].closing <= stack[Len(stack)].closing
    BY <1>1, <1>3, <2>1
  <2> QED
    BY <1>2, <1>3, <2>2, <2>3 DEF Frame
<1>4. CASE ~(Len(stack) > 1)
  BY <1>2, <1>4
<1> QED
  BY <1>3, <1>4

LEMMA CloseTagMarks == ASSUME IInv, MarkInv, CloseTag, IInv' PROVE MarkInv'
<1> DEFINE token == TokenAt(tokens[1])
           mine == stack # <<>> /\ Last(stack).tag = token.tag
           ends == Closing - (IF Len(stack) > 1 THEN stack[Len(stack) - 1].closing ELSE 0)
<1>1. TypeOK /\ StackInv /\ current'.size \in Nat
  BY DEF IInv, PlanInv, TypeOK
<1>2. /\ tokens # <<>> /\ document' = document /\ plan' = plan /\ parts' = parts /\ token.kind = "close"
  BY DEF CloseTag, Rest, Reads
<1>3. CASE UNCHANGED <<stack, current>>
  BY <1>2, <1>3, MarkNext DEF MarkInv
<1>4. CASE /\ mine /\ stack' = Front(stack)
           /\ current' = Added(current, ends, <<>>, <<Tag(token)>>)
  <2>1. ends \in Nat /\ stack # <<>> /\ Last(stack).tag = token.tag
    BY <1>1, <1>4, EndsNat
  <2>2. /\ Tag(token) \in Mark /\ Tag(token).tag = token.tag /\ Tag(token).kind = "close"
        /\ stack \in Seq(Frame)
    BY <1>1, <1>2, TagType, StackType
  <2> HIDE DEF token, ends
  <2> DEFINE t == Tag(token)
  <2>3. <<>> \in Seq(Place) /\ <<t>> \in Seq(Mark) /\ t \in Mark
    BY <2>2, EmptySeq
  <2>4. /\ current \in Message /\ Opened(current.tags) = Names(stack) /\ current.size \in Nat
        /\ current.text \in Seq(Place) /\ current.tags \in Seq(Mark)
    BY MessageFields DEF MarkInv
  <2> HIDE DEF t
  <2>5. current.size + ends \in Nat /\ ends \in Int
    BY <2>1, <2>4
  <2>6. /\ current' \in Message /\ current'.tags = Cat(current.tags, <<t>>)
        /\ current'.text = Cat(current.text, <<>>) /\ current'.size = current.size + ends
    BY <1>4, <2>3, <2>4, <2>5, AddedIs DEF t
  <2>7. Opened(current'.tags) = After(Names(stack), t)
    BY <2>3, <2>4, <2>6, OpenedOne
  <2>8. After(Names(stack), t) = Names(stack')
    <3>1. Names(stack) # <<>> /\ Last(Names(stack)) = token.tag /\ Front(Names(stack)) = Names(Front(stack))
      BY <2>1, <2>2, NamesPop
    <3> QED
      BY <1>4, <2>2, <3>1 DEF After, t
  <2>9. current'.size = 0 => current'.text = <<>>
    <3>1. current'.text = current.text /\ (current'.size = 0 => current.size = 0)
      BY <2>1, <2>4, <2>6, CatEmpty
    <3> QED
      BY <3>1 DEF MarkInv
  <2> QED
    BY <1>2, <2>6, <2>7, <2>8, <2>9, MarkNext DEF MarkInv
<1> QED
  BY <1>3, <1>4 DEF CloseTag

\* Text that is added leaves the tags alone.
LEMMA TextAdded ==
    ASSUME IInv, MarkInv, IInv', UNCHANGED <<document, plan, stack>>,
           NEW full, NEW width \in Nat, NEW text \in Seq(Place), width > 0 \/ text = <<>>,
           parts' = IF full THEN Flushed ELSE parts,
           current' = Added(IF full THEN Reopened ELSE current, width, text, <<>>)
    PROVE  /\ MarkInv'
           /\ current'.text = Cat((IF full THEN <<>> ELSE current.text), text)
           /\ current'.around = IF full THEN Opening + Closing ELSE current.around
<1> DEFINE part == IF full THEN Reopened ELSE current
<1>1. TypeOK
  BY DEF IInv, PlanInv
<1>2. part \in Message /\ Opened(part.tags) = Names(stack) /\ parts' \in Seq(Shut)
  <2>1. part \in Message /\ Opened(part.tags) = Names(stack) /\ (IF full THEN Flushed ELSE parts) \in Seq(Shut)
    BY NewPart
  <2> QED
    BY <2>1
<1>3. /\ part.text = (IF full THEN <<>> ELSE current.text)
      /\ part.around = (IF full THEN Opening + Closing ELSE current.around)
      /\ part.size = 0 => part.text = <<>>
  BY <1>1, ReopenedIs DEF MarkInv
<1> HIDE DEF part
<1>4. part.size \in Nat /\ part.tags \in Seq(Mark) /\ part.text \in Seq(Place)
      /\ <<>> \in Seq(Mark) /\ width \in Int /\ part.size + width \in Nat
  BY <1>2, MessageFields, EmptySeq
<1>5. /\ current' \in Message /\ current'.size = part.size + width /\ current'.around = part.around
      /\ current'.text = Cat(part.text, text) /\ current'.tags = Cat(part.tags, <<>>)
  BY <1>2, <1>4, AddedIs DEF part
<1>6. current'.tags = part.tags
  BY <1>4, <1>5, CatEmpty
<1>7. current'.size = 0 => current'.text = <<>>
  <2> SUFFICES ASSUME current'.size = 0  PROVE current'.text = <<>>
    OBVIOUS
  <2>1. part.size = 0 /\ text = <<>>
    BY <1>4, <1>5
  <2> QED
    BY <1>3, <1>4, <1>5, <2>1, CatEmpty
<1>8. MarkInv'
  BY <1>2, <1>5, <1>6, <1>7, MarkNext DEF MarkInv
<1> QED
  BY <1>3, <1>5, <1>8

LEMMA UnitMarks == ASSUME IInv, MarkInv, Unit, IInv' PROVE MarkInv'
<1> DEFINE token == TokenAt(tokens[1])
           text == CharsFrom(tokens[1])
           width == token.width
<1>1. TypeOK
  BY DEF IInv, PlanInv
<1>2. /\ tokens # <<>> /\ UNCHANGED <<document, plan, stack>> /\ token.kind = "unit"
  BY DEF Unit, Rest, Reads
<1>3. tokens[1] \in RealPlace /\ text \in Seq(Place) /\ token \in Token
  BY <1>1, <1>2, RealTokens, CharsType, TextTail DEF TypeOK
<1>4. width \in Nat /\ width > 0
  BY <1>2, <1>3 DEF Token
<1> HIDE DEF text, width
<1>5. CASE current' = Added(current, width, text, <<>>) /\ parts' = parts
  <2> DEFINE full == FALSE
  <2>1. current' = Added(IF full THEN Reopened ELSE current, width, text, <<>>)
        /\ parts' = IF full THEN Flushed ELSE parts
    BY <1>5
  <2> HIDE DEF full
  <2> QED
    BY <1>2, <1>3, <1>4, <2>1, TextAdded
<1>6. CASE current' = Added(Reopened, width, text, <<>>) /\ parts' = Flushed
  <2> DEFINE full == TRUE
  <2>1. current' = Added(IF full THEN Reopened ELSE current, width, text, <<>>)
        /\ parts' = IF full THEN Flushed ELSE parts
    BY <1>6
  <2> HIDE DEF full
  <2> QED
    BY <1>2, <1>3, <1>4, <2>1, TextAdded
<1> QED
  BY <1>5, <1>6 DEF Unit, text, width

LEMMA CharacterIs ==
    ASSUME IInv, Character
    PROVE  /\ tokens # <<>> /\ UNCHANGED <<document, plan, stack>>
           /\ tokens[1] \in RealPlace /\ TokenAt(tokens[1]) \in Token /\ TokenAt(tokens[1]).kind = "unit"
           /\ tokens[1].char \in DOMAIN TokenAt(tokens[1]).chars
           /\ TokenAt(tokens[1]).chars[tokens[1].char] \in {1, 2}
           /\ CharAt(tokens[1]) \in Seq(Place)
<1>1. TypeOK
  BY DEF IInv, PlanInv
<1>2. tokens # <<>> /\ UNCHANGED <<document, plan, stack>> /\ TokenAt(tokens[1]).kind = "unit"
  BY DEF Character, Rest, Reads
<1>3. tokens[1] \in RealPlace /\ TokenAt(tokens[1]) \in Token
  BY <1>1, <1>2, RealTokens, CharsType, TextTail DEF TypeOK
<1>4. tokens[1] \in Place /\ (tokens[1].char = 1 \/ tokens[1].char \in DOMAIN TokenAt(tokens[1]).chars)
  BY <1>1, <1>2, TokenType
<1>5. TokenAt(tokens[1]).chars \in Seq({1, 2}) /\ TokenAt(tokens[1]).chars # <<>>
  BY <1>2, <1>3 DEF Token
<1>6. tokens[1].char \in DOMAIN TokenAt(tokens[1]).chars
  BY <1>4, <1>5
<1>7. TokenAt(tokens[1]).chars[tokens[1].char] \in {1, 2}
  BY <1>5, <1>6
<1>8. CharAt(tokens[1]) \in Seq(Place)
  BY <1>4, EmptySeq DEF CharAt
<1> QED
  BY <1>2, <1>3, <1>6, <1>7, <1>8

LEMMA CharacterMarks == ASSUME IInv, MarkInv, Character, IInv' PROVE MarkInv'
<1> DEFINE width == TokenAt(tokens[1]).chars[tokens[1].char]
           full == current.size + width + Closing > MaxPart
           text == CharAt(tokens[1])
<1>1. /\ UNCHANGED <<document, plan, stack>> /\ width \in {1, 2} /\ text \in Seq(Place)
  BY CharacterIs
<1>2. /\ parts' = IF full THEN Flushed ELSE parts
      /\ current' = Added(IF full THEN Reopened ELSE current, width, text, <<>>)
  BY DEF Character
<1> HIDE DEF width, full, text
<1>3. width \in Nat /\ width > 0
  BY <1>1
<1> QED
  BY <1>1, <1>2, <1>3, TextAdded

LEMMA EndSplitMarks == ASSUME IInv, MarkInv, EndSplit, IInv' PROVE MarkInv'
<1>1. TypeOK /\ TypeOK' /\ current \in Message /\ Opened(current.tags) = Names(stack) /\ current.size \in Nat
  BY MessageFields DEF IInv, PlanInv, MarkInv
<1>2. /\ document' = document /\ plan' = plan /\ parts' = parts /\ stack' = <<>> /\ current' = Closed(current)
  BY DEF EndSplit
<1>3. /\ Closed(current) \in Shut /\ Closed(current).text = current.text
      /\ Closed(current).size = current.size + Closing /\ Closing \in Nat
  BY <1>1, ClosedIs, Lengths
<1>4. /\ current' \in Message /\ Opened(current'.tags) = <<>> /\ Names(stack') = <<>>
      /\ current'.size = 0 => current'.text = <<>>
  BY <1>1, <1>2, <1>3 DEF Shut, MarkInv, Names
<1> QED
  BY <1>2, <1>4, MarkNext DEF MarkInv

\* The blocks that are placed together, and the others.
LEMMA PlacedBlocks ==
    ASSUME IInv, pc = "place", blocks # <<>>
    PROVE  /\ document \in Documents /\ blocks \in Seq(1 .. Len(document.blocks))
           /\ blocks \in Seq(BlockNo) /\ Len(document.blocks) \in Nat
           /\ blocks[1] \in 1 .. Len(document.blocks) /\ blocks[1] \in BlockNo /\ -1 \in BlockNo
           /\ Glued => /\ Len(blocks) > 1 /\ Tail(blocks) # <<>> /\ Tail(blocks)[1] = blocks[2]
                       /\ blocks[2] \in 1 .. Len(document.blocks) /\ blocks[2] \in BlockNo
           /\ Tail(blocks) \in Seq(BlockNo)
           /\ stack = <<>> /\ tokens = <<>>
<1>1. TypeOK /\ StackInv
  BY DEF IInv, PlanInv
<1>2. document \in Documents /\ blocks \in Seq(DOMAIN document.blocks) /\ stack = <<>> /\ tokens = <<>>
  BY <1>1 DEF TypeOK, StackInv
<1>3. DOMAIN document.blocks = 1 .. Len(document.blocks) /\ Len(document.blocks) \in Nat
  BY <1>2, BlocksOf
<1>4. 1 .. Len(document.blocks) \subseteq BlockNo /\ -1 \in BlockNo
  BY <1>3 DEF BlockNo
<1>5. blocks \in Seq(1 .. Len(document.blocks)) /\ blocks \in Seq(BlockNo)
  BY <1>2, <1>3, <1>4, SeqMonotonic
<1>6. blocks[1] \in 1 .. Len(document.blocks) /\ Tail(blocks) \in Seq(BlockNo)
      /\ Len(Tail(blocks)) = Len(blocks) - 1 /\ Len(blocks) \in Nat
      /\ \A i \in 1 .. Len(Tail(blocks)) : Tail(blocks)[i] = blocks[i + 1]
  BY <1>5, HeadTailProperties
<1>7. ASSUME Glued
      PROVE  /\ Len(blocks) > 1 /\ Tail(blocks) # <<>> /\ Tail(blocks)[1] = blocks[2]
             /\ blocks[2] \in 1 .. Len(document.blocks)
  <2>1. Len(blocks) > 1
    BY <1>7 DEF Glued
  <2>2. 1 \in 1 .. Len(Tail(blocks)) /\ 2 \in 1 .. Len(blocks)
    BY <1>6, <2>1
  <2>3. Tail(blocks) # <<>>
    <3> DEFINE rest == Tail(blocks)
    <3> HIDE DEF rest
    <3>1. rest \in Seq(BlockNo) /\ 1 \in 1 .. Len(rest)
      BY <1>6, <2>2 DEF rest
    <3> QED
      BY <3>1 DEF rest
  <2>4. Tail(blocks)[1] = blocks[2]
    BY <1>6, <2>2
  <2>5. blocks[2] \in 1 .. Len(document.blocks)
    BY <1>5, <2>2
  <2> QED
    BY <2>1, <2>3, <2>4, <2>5
<1> QED
  BY <1>2, <1>3, <1>4, <1>5, <1>6, <1>7

Value == IF Glued THEN <<blocks[1], -1, blocks[2]>> ELSE <<blocks[1]>>

LEMMA ValueTags ==
    ASSUME IInv, pc = "place", blocks # <<>>
    PROVE  /\ Value \in Seq(BlockNo) /\ BlocksText(Value) \in Seq(Place)
           /\ BlocksTags(Value) \in Seq(Mark) /\ Opened(BlocksTags(Value)) = <<>>
<1> DEFINE b == blocks[1]
           c == blocks[2]
           n == Len(document.blocks)
           one == <<b>>
           two == Append(one, -1)
           three == Append(two, c)
<1>1. /\ document \in Documents /\ b \in 1 .. n /\ b \in BlockNo /\ -1 \in BlockNo /\ n \in Nat
      /\ Glued => c \in 1 .. n /\ c \in BlockNo
  BY PlacedBlocks
<1>2. b # 0 /\ -1 # 0 /\ (Glued => c # 0)
  BY <1>1
<1>3. one \in Seq(BlockNo) /\ BlocksTags(one) \in Seq(Mark) /\ Opened(BlocksTags(one)) = <<>>
  BY <1>1, <1>2, BlocksTagsOne
<1>4. Value = IF Glued THEN three ELSE one
  <2>1. ASSUME NEW x, NEW y, NEW z  PROVE Append(Append(<<x>>, y), z) = <<x, y, z>>
    <3> DEFINE S == {x, y, z}
               s == <<x>>
               t == Append(s, y)
               u == Append(t, z)
               v == <<x, y, z>>
    <3>1. s \in Seq(S) /\ Len(s) = 1 /\ s[1] = x /\ y \in S /\ z \in S
      OBVIOUS
    <3>2. v \in Seq(S) /\ Len(v) = 3 /\ v[1] = x /\ v[2] = y /\ v[3] = z
      OBVIOUS
    <3> HIDE DEF S, s, v
    <3>3. t \in Seq(S) /\ Len(t) = 2 /\ t[1] = x /\ t[2] = y
      <4>1. /\ Append(s, y) \in Seq(S) /\ Len(Append(s, y)) = Len(s) + 1 /\ Append(s, y)[Len(s) + 1] = y
            /\ \A i \in 1 .. Len(s) : Append(s, y)[i] = s[i]
        BY <3>1, AppendProperties
      <4>2. 1 \in 1 .. Len(s)
        BY <3>1
      <4> QED
        BY <3>1, <4>1, <4>2
    <3> HIDE DEF t
    <3>4. u \in Seq(S) /\ Len(u) = 3 /\ u[1] = x /\ u[2] = y /\ u[3] = z
      <4>1. /\ Append(t, z) \in Seq(S) /\ Len(Append(t, z)) = Len(t) + 1 /\ Append(t, z)[Len(t) + 1] = z
            /\ \A i \in 1 .. Len(t) : Append(t, z)[i] = t[i]
        <5>1. t \in Seq(S) /\ z \in S
          BY <3>1, <3>3
        <5> QED
          BY ONLY <5>1, AppendProperties
      <4>2. 1 \in 1 .. Len(t) /\ 2 \in 1 .. Len(t)
        BY <3>3
      <4> QED
        BY <3>3, <4>1, <4>2
    <3> HIDE DEF u
    <3>5. \A i \in 1 .. 3 : u[i] = v[i]
      <4>1. \A i \in 1 .. 3 : i = 1 \/ i = 2 \/ i = 3
        OBVIOUS
      <4> QED
        BY <3>2, <3>4, <4>1
    <3>6. u = v
      BY <3>2, <3>4, <3>5, SeqEqual
    <3> QED
      BY <3>6 DEF u, t, s, v
  <2> QED
    BY <2>1 DEF Value
<1> HIDE DEF b, c, n, one
<1>5. two \in Seq(BlockNo) /\ BlocksTags(two) \in Seq(Mark) /\ Opened(BlocksTags(two)) = <<>>
  BY <1>1, <1>2, <1>3, BlocksTagsAppend
<1> HIDE DEF two
<1>6. Glued => three \in Seq(BlockNo) /\ BlocksTags(three) \in Seq(Mark) /\ Opened(BlocksTags(three)) = <<>>
  BY <1>1, <1>2, <1>5, BlocksTagsAppend
<1> HIDE DEF three
<1>7. Value \in Seq(BlockNo) /\ BlocksTags(Value) \in Seq(Mark) /\ Opened(BlocksTags(Value)) = <<>>
  BY <1>3, <1>4, <1>6
<1> QED
  BY <1>1, <1>7, BlocksTextFacts

\* What is added to a message whole.
LEMMA PlacedAdded ==
    ASSUME IInv, MarkInv, PlaceBlock, pc' = pc, tokens' = tokens
    PROVE  \/ UNCHANGED <<parts, current>> /\ ~Glued /\ Width(blocks[1]) = 0
           \/ \E width \in Nat : /\ width > 0 /\ parts' = parts
                                 /\ current' = Added(current, width, BlocksText(Value), BlocksTags(Value))
<1> DEFINE width == IF Glued THEN Width(blocks[1]) + 2 + Width(blocks[2]) ELSE Width(blocks[1])
           line == IF current.size > 0 THEN 2 ELSE 0
<1>1. pc = "place" /\ blocks # <<>>
  BY DEF PlaceBlock
<1>2. /\ document \in Documents /\ blocks[1] \in 1 .. Len(document.blocks)
      /\ (Glued => blocks[2] \in 1 .. Len(document.blocks))
  BY <1>1, PlacedBlocks
<1>3. DOMAIN document.blocks = 1 .. Len(document.blocks)
      /\ \A b \in DOMAIN document.blocks : Width(b) \in Nat
  BY <1>2, BlocksOf
<1>4. width \in Nat /\ line \in Nat /\ (width = 0 => ~Glued /\ Width(blocks[1]) = 0)
  BY <1>2, <1>3
<1>5. \/ width = 0 /\ UNCHANGED <<parts, current>>
      \/ /\ width > 0 /\ parts' = parts
         /\ current' = Added(current, line + width, BlocksText(Value), BlocksTags(Value))
  BY <1>1 DEF PlaceBlock, Value
<1> HIDE DEF width, line
<1> QED
  BY <1>4, <1>5

LEMMA PlaceBlockMarks == ASSUME IInv, MarkInv, PlaceBlock, IInv' PROVE MarkInv'
<1>1. /\ TypeOK /\ pc = "place" /\ blocks # <<>> /\ UNCHANGED <<document, plan, stack>>
  BY DEF PlaceBlock, IInv, PlanInv
<1>2. stack = <<>> /\ Names(stack) = <<>> /\ Names(stack') = <<>>
  BY <1>1, PlacedBlocks, StackType DEF Names
<1>3. /\ current \in Message /\ Opened(current.tags) = <<>> /\ current.size \in Nat
      /\ current.text \in Seq(Place) /\ current.tags \in Seq(Mark)
  BY <1>2, MessageFields DEF MarkInv
<1>4. CASE pc' = pc /\ tokens' = tokens
  <2>1. CASE UNCHANGED <<parts, current>>
    BY <1>1, <2>1, MarkNext DEF MarkInv
  <2>2. ASSUME NEW width \in Nat, width > 0, parts' = parts,
               current' = Added(current, width, BlocksText(Value), BlocksTags(Value))
        PROVE  MarkInv'
    <3> DEFINE text == BlocksText(Value)
               tags == BlocksTags(Value)
    <3>1. text \in Seq(Place) /\ tags \in Seq(Mark) /\ Opened(tags) = <<>>
      BY <1>1, ValueTags
    <3> HIDE DEF text, tags
    <3>2. current.size + width \in Nat /\ width \in Int /\ current.size + width # 0
      BY <1>3, <2>2
    <3>3. /\ current' \in Message /\ current'.size = current.size + width
          /\ current'.tags = Cat(current.tags, tags)
      BY <1>3, <2>2, <3>1, <3>2, AddedIs DEF text, tags
    <3>4. Opened(current'.tags) = <<>>
      BY <1>3, <3>1, <3>3, OpenedBalanced
    <3> QED
      BY <1>1, <1>2, <2>2, <3>2, <3>3, <3>4, MarkNext DEF MarkInv
  <2> QED
    BY <1>4, <2>1, <2>2, PlacedAdded
<1>5. CASE parts' = Flushed /\ current' = Empty
  BY <1>1, <1>2, <1>5, FlushedIs, EmptyIs, OpenedEmpty, MarkNext DEF MarkInv
<1> QED
  BY <1>1, <1>4, <1>5 DEF PlaceBlock

LEMMA EndGroupMarks == ASSUME IInv, MarkInv, EndGroup, IInv' PROVE MarkInv'
<1> DEFINE planned == [blocks |-> Head(groups), parts |-> Made]
<1>1. /\ TypeOK /\ pc = "place" /\ UNCHANGED <<document, stack>> /\ parts' = <<>> /\ current' = Empty
      /\ plan' = Append(plan, planned)
  BY DEF EndGroup, IInv, PlanInv
<1>2. stack = <<>> /\ Names(stack') = <<>>
  BY <1>1 DEF IInv, PlanInv, StackInv, Names
<1>3. Made \in Seq(Shut) /\ planned.parts = Made
  BY <1>1, <1>2, MadeIs
<1>4. plan \in Seq(Elements(plan)) /\ \A group \in Elements(plan) : group.parts \in Seq(Shut)
  BY <1>1 DEF TypeOK, MarkInv
<1> HIDE DEF planned
<1>5. Elements(plan') = Elements(plan) \union {planned}
  BY <1>1, <1>4, AppendElement
<1>6. \A group \in Elements(plan') : group.parts \in Seq(Shut)
  BY <1>3, <1>4, <1>5
<1>7. <<>> \in Seq(Shut)
  BY EmptySeq
<1> QED
  BY <1>1, <1>2, <1>6, <1>7, EmptyIs, OpenedEmpty, MarkNext

LEMMA InitMarks == ASSUME Init PROVE MarkInv
<1>1. stack = <<>> /\ parts = <<>> /\ current = Empty /\ plan = <<>>
  BY DEF Init
<1>2. Names(stack) = <<>> /\ <<>> \in Seq(Shut) /\ Elements(plan) = {}
  BY <1>1, EmptySeq, EmptyElements DEF Names
<1> QED
  BY <1>1, <1>2, EmptyIs, OpenedEmpty DEF MarkInv

LEMMA OtherMarks ==
    ASSUME MarkInv, document' = document, stack' = stack, parts' = parts, current' = current,
           plan' = plan \/ plan' = <<>>
    PROVE  MarkInv'
<1>1. Elements(<<>>) = {}
  BY EmptyElements
<1> QED
  BY <1>1, MarkNext DEF MarkInv

LEMMA StepMarks == ASSUME IInv, MarkInv, [Next]_vars, IInv' PROVE MarkInv'
<1>1. CASE PackAll \/ Pack \/ AllPacked \/ CutGroup \/ AllCut
  BY <1>1, OtherMarks DEF PackAll, Pack, AllPacked, CutGroup, AllCut, Placing
<1>2. CASE GiveUpRich \/ SendSource \/ UNCHANGED vars
  BY <1>2, OtherMarks DEF GiveUpRich, SendSource, vars
<1> QED
  BY <1>1, <1>2, PlaceBlockMarks, OpenTagMarks, CloseTagMarks, UnitMarks, CharacterMarks,
     EndSplitMarks, EndGroupMarks DEF Next

LEMMA MarksInvariance == Spec => [](IInv /\ MarkInv)
<1>1. Init => IInv /\ MarkInv
  BY InitHolds, InitMarks
<1>2. IInv /\ MarkInv /\ [Next]_vars => IInv' /\ MarkInv'
  BY StepHolds, StepMarks
<1> QED
  BY <1>1, <1>2, PTL DEF Spec

LEMMA MarksBalance == MarkInv => Balanced
<1> SUFFICES ASSUME MarkInv, NEW part \in AllParts  PROVE Opened(part.tags) = <<>>
  BY DEF Balanced
<1>1. CASE part \in Elements(parts)
  <2>1. parts \in Seq(Shut)
    BY DEF MarkInv
  <2>2. part \in Shut
    BY <1>1, <2>1 DEF Elements
  <2> QED
    BY <2>2 DEF Shut
<1>2. ASSUME NEW group \in Elements(plan), part \in Elements(group.parts)  PROVE Opened(part.tags) = <<>>
  <2>1. group.parts \in Seq(Shut)
    BY DEF MarkInv
  <2>2. part \in Shut
    BY <1>2, <2>1 DEF Elements
  <2> QED
    BY <2>2 DEF Shut
<1> QED
  BY <1>1, <1>2 DEF AllParts

\* Every message of a plan closes the tags it opens, in their order, and no other, wherever
\* it is cut (split_html_message closes the open tags and opens them again).
THEOREM EveryMessageIsBalanced == Spec => []Balanced
<1>1. IInv /\ MarkInv => Balanced
  BY MarksBalance
<1> QED
  BY <1>1, MarksInvariance, PTL

-----------------------------------------------------------------------------
(* The messages of a group hold its text.                                  *)

Said == Cat(Text(parts), current.text)
Unplaced == Cat(TextOf(tokens), BlocksText(blocks))

\* What is in messages and what is still to be placed is the text of the group.
TextInv ==
    /\ groups # <<>> /\ ~Packing => Cat(Said, Unplaced) = BlocksText(Head(groups))
    /\ \A group \in Elements(plan) : Text(group.parts) = BlocksText(group.blocks) /\ group.parts # <<>>
    /\ pc = "done" => plan # <<>>

LEMMA SameText ==
    ASSUME document' = document
    PROVE  /\ \A ps : TextOf(ps)' = TextOf(ps)
           /\ \A bs : BlocksText(bs)' = BlocksText(bs)
<1>1. ASSUME NEW p  PROVE CharsFrom(p)' = CharsFrom(p)
  BY DEF CharsFrom, TokenAt, Html
<1>2. ASSUME NEW ps  PROVE TextOf(ps)' = TextOf(ps)
  BY <1>1 DEF TextOf
<1>3. ASSUME NEW b  PROVE Places(b)' = Places(b)
  BY DEF Places, Html
<1>4. ASSUME NEW b  PROVE TextOf(Places(b))' = TextOf(Places(b))
  BY <1>2, <1>3
<1>5. ASSUME NEW bs  PROVE BlocksText(bs)' = BlocksText(bs)
  BY <1>4 DEF BlocksText
<1> QED
  BY <1>2, <1>5

LEMMA TextTypes ==
    ASSUME IInv, MarkInv
    PROVE  /\ Said \in Seq(Place) /\ Text(parts) \in Seq(Place) /\ current.text \in Seq(Place)
           /\ TextOf(tokens) \in Seq(Place) /\ BlocksText(blocks) \in Seq(Place)
           /\ Unplaced \in Seq(Place) /\ tokens \in Seq(RealPlace) /\ blocks \in Seq(BlockNo)
           /\ document \in Documents
<1>1. TypeOK /\ document \in Documents /\ blocks \in Seq(DOMAIN document.blocks)
  BY DEF IInv, PlanInv, TypeOK
<1>2. tokens \in Seq(RealPlace) /\ current \in Message /\ parts \in Seq(Message)
  BY <1>1, RealTokens, ShutMessages DEF MarkInv
<1>3. blocks \in Seq(BlockNo)
  <2>1. DOMAIN document.blocks = 1 .. Len(document.blocks) /\ Len(document.blocks) \in Nat
    BY <1>1, BlocksOf
  <2>2. DOMAIN document.blocks \subseteq BlockNo
    BY <2>1 DEF BlockNo
  <2> QED
    BY <1>1, <2>2, SeqMonotonic
<1>4. /\ Text(parts) \in Seq(Place) /\ current.text \in Seq(Place) /\ TextOf(tokens) \in Seq(Place)
      /\ BlocksText(blocks) \in Seq(Place)
  BY <1>1, <1>2, <1>3, TextAppend, MessageFields, TextType, BlocksTextFacts
<1> QED
  BY <1>1, <1>2, <1>3, <1>4, CatFacts DEF Said, Unplaced

LEMMA NextTypes ==
    IInv' /\ MarkInv' => (document \in Documents /\ tokens \in Seq(RealPlace) /\ blocks \in Seq(BlockNo))'
<1>1. IInv /\ MarkInv => document \in Documents /\ tokens \in Seq(RealPlace) /\ blocks \in Seq(BlockNo)
  BY TextTypes
<1> QED
  BY <1>1, PTL

LEMMA TypesNext ==
    ASSUME IInv', MarkInv', document' = document
    PROVE  /\ document' \in Documents /\ tokens' \in Seq(RealPlace) /\ blocks' \in Seq(BlockNo)
           /\ TextOf(tokens') \in Seq(Place) /\ BlocksText(blocks') \in Seq(Place)
<1>1. document' \in Documents /\ tokens' \in Seq(RealPlace') /\ blocks' \in Seq(BlockNo')
  BY NextTypes
<1>2. document \in Documents /\ tokens' \in Seq(RealPlace) /\ blocks' \in Seq(BlockNo)
  BY <1>1, SameDocument
<1> QED
  BY <1>1, <1>2, TextType, BlocksTextFacts

\* What the invariant says of the next state, when some text is added to the messages.
LEMMA TextNext ==
    ASSUME IInv, MarkInv, TextInv, ~Packing, ~Packing', pc' # "done", IInv', MarkInv', groups # <<>>,
           UNCHANGED <<document, groups, plan>>,
           NEW text \in Seq(Place), Said' = Cat(Said, text),
           Unplaced = Cat(text, Cat(TextOf(tokens'), BlocksText(blocks')))
    PROVE  TextInv'
<1> DEFINE T == TextOf(tokens')
           B == BlocksText(blocks')
<1>2. T \in Seq(Place) /\ B \in Seq(Place) /\ Said \in Seq(Place)
  BY TypesNext, TextTypes
<1>3. Unplaced' = Cat(T, B)
  BY SameText DEF Unplaced
<1> HIDE DEF T, B
<1>4. Cat(T, B) \in Seq(Place)
  BY <1>2, CatFacts
<1>5. Cat(Said', Unplaced') = Cat(Said, Unplaced)
  <2>1. Cat(Cat(Said, text), Cat(T, B)) = Cat(Said, Cat(text, Cat(T, B)))
    BY <1>2, <1>4, CatAssociative
  <2> QED
    BY <1>3, <2>1 DEF T, B
<1>6. BlocksText(Head(groups))' = BlocksText(Head(groups))
  BY SameText
<1>7. \A group \in Elements(plan') : /\ Text(group.parts)' = BlocksText(group.blocks)' /\ group.parts # <<>>
  BY SameText DEF TextInv, Text
<1>8. Cat(Said, Unplaced) = BlocksText(Head(groups))
  BY DEF TextInv
<1> QED
  BY <1>5, <1>6, <1>7, <1>8 DEF TextInv

\* While a value is cut, the text of a token goes from the value to the messages.
LEMMA SplitText ==
    ASSUME IInv, MarkInv, TextInv, pc = "split", UNCHANGED Rest, IInv', MarkInv',
           NEW text \in Seq(Place), NEW base \in Seq(Place), Cat(Text(parts'), base) = Said,
           current'.text = Cat(base, text), TextOf(tokens) = Cat(text, TextOf(tokens'))
    PROVE  TextInv'
<1>1. /\ pc' = pc /\ groups' = groups /\ document' = document /\ plan' = plan /\ blocks' = blocks
      /\ groups # <<>> /\ ~Packing /\ ~Packing' /\ pc' # "done"
  BY DEF Rest, IInv, PlanInv, StackInv, Packing
<1>2. Text(parts') \in Seq(Place)
  <2>1. parts' \in Seq(Shut)
    BY <1>1, SameDocument DEF MarkInv
  <2>2. parts' \in Seq(Message)
    BY <2>1, ShutMessages
  <2> QED
    BY <2>2, TextMap, TextsMaps, FlatMapType
<1>3. Said' = Cat(Said, text)
  <2>1. Said' = Cat(Text(parts'), current'.text)
    BY DEF Said, Text
  <2>2. Cat(Text(parts'), Cat(base, text)) = Cat(Cat(Text(parts'), base), text)
    BY <1>2, CatAssociative
  <2> QED
    BY <2>1, <2>2
<1>4. Unplaced = Cat(text, Cat(TextOf(tokens'), BlocksText(blocks')))
  <2> DEFINE T == TextOf(tokens')
             B == BlocksText(blocks)
  <2>1. T \in Seq(Place) /\ B \in Seq(Place)
    BY <1>1, TypesNext, TextTypes
  <2> HIDE DEF T, B
  <2>2. Cat(Cat(text, T), B) = Cat(text, Cat(T, B))
    BY <2>1, CatAssociative
  <2>3. Unplaced = Cat(Cat(text, T), B)
    BY DEF Unplaced, T, B
  <2> QED
    BY <1>1, <2>2, <2>3 DEF T, B
<1> QED
  BY <1>1, <1>3, <1>4, TextNext

-----------------------------------------------------------------------------
(* Lengths, and what FlattenSeq is made of.                                *)

\* The sums that Total makes.
LEMMA TotalRun ==
    ASSUME NEW ns \in Seq(Nat)
    PROVE  \E f \in [0 .. Len(ns) -> Nat] :
              /\ f[0] = 0 /\ f[Len(ns)] = Total(ns)
              /\ \A i \in 1 .. Len(ns) : f[i] = f[i - 1] + ns[i]
<1> DEFINE n == Len(ns)
           step == [p \in (1 .. n) \X Nat |-> p[2] + ns[p[1]]]
<1>1. n \in Nat /\ (\A i \in 1 .. n : ns[i] \in Nat) /\ 0 \in Nat
  OBVIOUS
<1>2. /\ step \in [(1 .. n) \X Nat -> Nat]
      /\ \A i \in 1 .. n, q \in Nat : step[<<i, q>>] = q + ns[i]
  <2>1. \A p \in (1 .. n) \X Nat : p[1] \in 1 .. n /\ p[2] \in Nat
    OBVIOUS
  <2> QED
    BY <1>1, <2>1
<1> HIDE DEF step, n
<1>3. RunsOf(n, Nat, 0, step) # {}
  BY <1>1, <1>2, RunExists
<1>4. PICK f \in [0 .. n -> Nat] : f[0] = 0 /\ \A i \in 1 .. n : f[i] = step[<<i, f[i - 1]>>]
  BY <1>3 DEF RunsOf
<1>5. \A i \in 1 .. n : f[i] = f[i - 1] + ns[i]
  <2>1. \A i \in 1 .. n : i - 1 \in 0 .. n
    BY <1>1
  <2>2. \A i \in 1 .. n : f[i - 1] \in Nat
    BY <1>4, <2>1
  <2> QED
    BY <1>2, <1>4, <2>2
<1> DEFINE sum == CHOOSE h : h = [i \in 0 .. n |-> IF i = 0 THEN 0 ELSE h[i - 1] + ns[i]]
<1>6. f = [i \in 0 .. n |-> IF i = 0 THEN 0 ELSE f[i - 1] + ns[i]]
  <2>1. \A i \in 0 .. n : f[i] = IF i = 0 THEN 0 ELSE f[i - 1] + ns[i]
    <3>1. \A i \in 0 .. n : i = 0 \/ i \in 1 .. n
      BY <1>1
    <3> QED
      BY <1>4, <1>5, <3>1
  <2> QED
    BY <1>4, <2>1
<1>7. sum = [i \in 0 .. n |-> IF i = 0 THEN 0 ELSE sum[i - 1] + ns[i]]
  BY <1>6
<1>8. Total(ns) = sum[n]
  BY DEF Total, n
<1> HIDE DEF sum
<1> DEFINE T == {i \in 0 .. n : sum[i] = f[i]}
<1>9. 0 .. n \subseteq T
  <2>1. \A i \in 0 .. n : sum[i] = IF i = 0 THEN 0 ELSE sum[i - 1] + ns[i]
    BY <1>7
  <2>2. 0 \in T
    BY <1>1, <1>4, <2>1
  <2>3. ASSUME NEW i \in 0 .. n, i \in T, i < n  PROVE i + 1 \in T
    <3>1. i + 1 \in 1 .. n /\ i + 1 \in 0 .. n /\ i + 1 - 1 = i /\ i + 1 # 0
      BY <1>1, <2>3
    <3>2. sum[i + 1] = sum[i] + ns[i + 1]
      BY <2>1, <3>1
    <3>3. f[i + 1] = f[i] + ns[i + 1]
      BY <1>5, <3>1
    <3> QED
      BY <2>3, <3>1, <3>2, <3>3
  <2> HIDE DEF T
  <2> QED
    BY <1>1, <2>2, <2>3, Induction
<1>10. f[n] = Total(ns)
  BY <1>1, <1>8, <1>9
<1> QED
  BY <1>4, <1>5, <1>10 DEF n

LEMMA TotalZero ==
    ASSUME NEW ns \in Seq(Nat), Total(ns) = 0
    PROVE  \A i \in 1 .. Len(ns) : ns[i] = 0
<1> DEFINE n == Len(ns)
<1>1. PICK f \in [0 .. n -> Nat] :
              /\ f[0] = 0 /\ f[n] = Total(ns)
              /\ \A i \in 1 .. n : f[i] = f[i - 1] + ns[i]
  BY TotalRun
<1>2. n \in Nat /\ \A i \in 1 .. n : ns[i] \in Nat
  OBVIOUS
<1> HIDE DEF n
<1> DEFINE T == {k \in 0 .. n : f[n - k] = 0}
<1>3. 0 \in T
  BY <1>1, <1>2
<1>4. ASSUME NEW k \in 0 .. n, k \in T, k < n  PROVE k + 1 \in T
  <2>1. n - k \in 1 .. n /\ n - k - 1 = n - (k + 1) /\ k + 1 \in 0 .. n /\ n - (k + 1) \in 0 .. n
    BY <1>2, <1>4
  <2>2. f[n - k] = f[n - (k + 1)] + ns[n - k] /\ f[n - k] = 0
    BY <1>1, <1>4, <2>1
  <2>3. f[n - (k + 1)] \in Nat /\ ns[n - k] \in Nat
    BY <1>1, <1>2, <2>1
  <2>4. f[n - (k + 1)] = 0
    BY <2>2, <2>3
  <2> QED
    BY <2>1, <2>4
<1>5. 0 .. n \subseteq T
  <2> HIDE DEF T
  <2>1. n \in Nat /\ \A i \in 0 .. n : i \in T /\ i < n => i + 1 \in T
    BY <1>2, <1>4
  <2> QED
    BY ONLY <1>3, <2>1, Induction
<1>6. \A i \in 0 .. n : f[i] = 0
  <2> SUFFICES ASSUME NEW i \in 0 .. n  PROVE f[i] = 0
    OBVIOUS
  <2>1. n - i \in 0 .. n /\ n - (n - i) = i
    BY <1>2
  <2>2. f[n - (n - i)] = 0
    BY <1>5, <2>1
  <2> QED
    BY <2>1, <2>2
<1>7. \A i \in 1 .. n : ns[i] = 0
  <2> SUFFICES ASSUME NEW i \in 1 .. n  PROVE ns[i] = 0
    OBVIOUS
  <2>1. i \in 0 .. n /\ i - 1 \in 0 .. n /\ ns[i] \in Nat
    BY <1>2
  <2>2. f[i] = 0 /\ f[i - 1] = 0 /\ f[i] = f[i - 1] + ns[i]
    BY <1>1, <1>6, <2>1
  <2> QED
    BY <2>1, <2>2
<1> QED
  BY <1>7 DEF n

\* Every element is one of the sequences that are put together; the first is the first of one.
LEMMA FlattenElements ==
    ASSUME NEW S, NEW s \in Seq(Seq(S))
    PROVE  /\ \A k \in 1 .. Len(FlattenSeq(s)) : \E i \in 1 .. Len(s) : \E j \in 1 .. Len(s[i]) :
                  FlattenSeq(s)[k] = s[i][j]
           /\ FlattenSeq(s) # <<>> => \E i \in 1 .. Len(s) : 1 \in 1 .. Len(s[i]) /\ FlattenSeq(s)[1] = s[i][1]
<1> DEFINE n == Len(s)
           Good(q, m) == /\ \A k \in 1 .. Len(q) : \E i \in 1 .. m : \E j \in 1 .. Len(s[i]) : q[k] = s[i][j]
                         /\ q # <<>> => \E i \in 1 .. m : 1 \in 1 .. Len(s[i]) /\ q[1] = s[i][1]
<1>1. PICK f \in [0 .. n -> Seq(S)] :
              /\ f[0] = <<>> /\ f[n] = FlattenSeq(s)
              /\ \A i \in 1 .. n : f[i] = Cat(f[i - 1], s[i])
  BY FlattenRun
<1>2. n \in Nat /\ \A i \in 1 .. n : s[i] \in Seq(S)
  OBVIOUS
<1> HIDE DEF n
<1> DEFINE T == {m \in 0 .. n : Good(f[m], m)}
<1>3. 0 \in T
  BY <1>1, <1>2
<1>4. ASSUME NEW m \in 0 .. n, m \in T, m < n  PROVE m + 1 \in T
  <2> DEFINE p == f[m]
             t == s[m + 1]
             q == f[m + 1]
  <2>1. /\ m + 1 \in 1 .. n /\ m + 1 \in 0 .. n /\ m + 1 - 1 = m /\ m \in Nat
        /\ p \in Seq(S) /\ t \in Seq(S) /\ Good(p, m)
    BY <1>1, <1>2, <1>4
  <2>2. q = Cat(p, t)
    BY <1>1, <2>1
  <2> HIDE DEF p, t, q, Good
  <2>3. /\ q \in Seq(S) /\ Len(q) = Len(p) + Len(t) /\ Len(p) \in Nat /\ Len(t) \in Nat
        /\ \A k \in 1 .. Len(p) + Len(t) : q[k] = IF k <= Len(p) THEN p[k] ELSE t[k - Len(p)]
    <3>1. Len(p) \in Nat /\ Len(t) \in Nat
      BY <2>1
    <3> QED
      BY <2>1, <2>2, <3>1, CatFacts
  <2>4. ASSUME NEW k \in 1 .. Len(q)  PROVE \E i \in 1 .. m + 1 : \E j \in 1 .. Len(s[i]) : q[k] = s[i][j]
    <3>1. CASE k <= Len(p)
      <4>1. k \in 1 .. Len(p) /\ q[k] = p[k]
        BY <2>3, <3>1
      <4>2. PICK i \in 1 .. m : \E j \in 1 .. Len(s[i]) : p[k] = s[i][j]
        BY <2>1, <4>1 DEF Good
      <4>3. i \in 1 .. m + 1
        BY <2>1
      <4> QED
        BY <4>1, <4>2, <4>3
    <3>2. CASE ~(k <= Len(p))
      <4>1. k - Len(p) \in 1 .. Len(t) /\ q[k] = t[k - Len(p)]
        BY <2>3, <3>2
      <4>2. m + 1 \in 1 .. m + 1
        BY <2>1
      <4> QED
        BY <4>1, <4>2 DEF t
    <3> QED
      BY <3>1, <3>2
  <2>5. ASSUME q # <<>>  PROVE \E i \in 1 .. m + 1 : 1 \in 1 .. Len(s[i]) /\ q[1] = s[i][1]
    <3>1. CASE p = <<>>
      <4>1. q = t
        BY <2>1, <2>2, <3>1, CatEmpty
      <4>2. 1 \in 1 .. Len(t)
        BY <2>1, <2>5, <4>1
      <4>3. m + 1 \in 1 .. m + 1
        BY <2>1
      <4> QED
        BY <4>1, <4>2, <4>3 DEF t
    <3>2. CASE p # <<>>
      <4>1. PICK i \in 1 .. m : 1 \in 1 .. Len(s[i]) /\ p[1] = s[i][1]
        BY <2>1, <3>2 DEF Good
      <4>2. i \in 1 .. m + 1
        BY <2>1
      <4>3. q[1] = p[1]
        <5>1. Len(p) # 0
          BY <2>1, <3>2, EmptyOf
        <5> QED
          BY <2>3, <5>1
      <4> QED
        BY <4>1, <4>2, <4>3
    <3> QED
      BY <3>1, <3>2
  <2>6. Good(q, m + 1)
    BY <2>4, <2>5 DEF Good
  <2> QED
    BY <2>1, <2>6 DEF q
<1>5. 0 .. n \subseteq T
  <2> HIDE DEF T
  <2> QED
    BY <1>2, <1>3, <1>4, Induction
<1>6. Good(FlattenSeq(s), n)
  <2> HIDE DEF Good
  <2>1. n \in 0 .. n
    BY <1>2
  <2>2. n \in T
    BY <1>5, <2>1
  <2> QED
    BY <1>1, <2>2
<1> QED
  BY <1>6 DEF n

LEMMA FlatMapElements ==
    ASSUME NEW S, NEW T, NEW f \in Maps(S, T), NEW s \in Seq(S)
    PROVE  /\ \A k \in 1 .. Len(FlatMap(f, s)) : \E i \in 1 .. Len(s) : \E j \in 1 .. Len(f[s[i]]) :
                  FlatMap(f, s)[k] = f[s[i]][j]
           /\ FlatMap(f, s) # <<>> => \E i \in 1 .. Len(s) : 1 \in 1 .. Len(f[s[i]]) /\ FlatMap(f, s)[1] = f[s[i]][1]
<1> DEFINE m == Map(f, s)
<1>1. m \in Seq(Seq(T)) /\ Len(m) = Len(s) /\ \A i \in 1 .. Len(s) : m[i] = f[s[i]]
  BY MapType
<1> HIDE DEF m
<1>2. /\ \A k \in 1 .. Len(FlattenSeq(m)) : \E i \in 1 .. Len(m) : \E j \in 1 .. Len(m[i]) :
             FlattenSeq(m)[k] = m[i][j]
      /\ FlattenSeq(m) # <<>> => \E i \in 1 .. Len(m) : 1 \in 1 .. Len(m[i]) /\ FlattenSeq(m)[1] = m[i][1]
  BY <1>1, FlattenElements
<1>3. FlatMap(f, s) = FlattenSeq(m)
  BY DEF FlatMap, m
<1>4. ASSUME NEW k \in 1 .. Len(FlattenSeq(m))
      PROVE  \E i \in 1 .. Len(s) : \E j \in 1 .. Len(f[s[i]]) : FlattenSeq(m)[k] = f[s[i]][j]
  <2>1. PICK i \in 1 .. Len(m) : \E j \in 1 .. Len(m[i]) : FlattenSeq(m)[k] = m[i][j]
    BY <1>2
  <2>2. i \in 1 .. Len(s) /\ m[i] = f[s[i]]
    BY <1>1
  <2> QED
    BY <2>1, <2>2
<1>5. ASSUME FlattenSeq(m) # <<>>
      PROVE  \E i \in 1 .. Len(s) : 1 \in 1 .. Len(f[s[i]]) /\ FlattenSeq(m)[1] = f[s[i]][1]
  <2>1. PICK i \in 1 .. Len(m) : 1 \in 1 .. Len(m[i]) /\ FlattenSeq(m)[1] = m[i][1]
    BY <1>2, <1>5
  <2>2. i \in 1 .. Len(s) /\ m[i] = f[s[i]]
    BY <1>1
  <2> QED
    BY <2>1, <2>2
<1> QED
  BY <1>3, <1>4, <1>5

LEMMA AddedText ==
    ASSUME NEW part, NEW width, NEW text, NEW tags
    PROVE  /\ Added(part, width, text, tags).text = Cat(part.text, text)
           /\ Added(part, width, text, tags).around = part.around
<1>1. Added(part, width, text, tags)
         = [size |-> part.size + width, text |-> Cat(part.text, text), tags |-> Cat(part.tags, tags),
            around |-> part.around]
  BY Zenon DEF Added, Cat
<1> QED
  BY <1>1

\* A block of no length has no text; nor has a tag.
LEMMA NoWidth ==
    ASSUME document \in Documents, NEW b \in 1 .. Len(document.blocks), Width(b) = 0
    PROVE  TextOf(Places(b)) = <<>>
<1> DEFINE html == document.blocks[b].html
           ns == [i \in DOMAIN html |-> html[i].width]
           ps == Places(b)
<1>1. b \in DOMAIN document.blocks /\ document.blocks[b] \in Block /\ b \in BlockNo /\ Html(b) = html
  BY BlocksOf DEF BlockNo, Html
<1>2. html \in Seq(Token) /\ Len(html) \in Nat /\ DOMAIN html = 1 .. Len(html)
  BY <1>1 DEF Block
<1>3. WidthOf(html) = 0
  BY <1>1, WidthsAssumption DEF Width
<1>4. /\ ps \in Seq(RealPlace) /\ Len(ps) = Len(html)
      /\ \A t \in 1 .. Len(html) : ps[t] = [block |-> b, token |-> t, char |-> 1]
  BY <1>1, PlacesReal
<1> HIDE DEF html, ps
<1>5. \A i \in 1 .. Len(html) : html[i] \in Token
  BY <1>2
<1>6. ns \in Seq(Nat) /\ Len(ns) = Len(html) /\ \A i \in 1 .. Len(html) : ns[i] = html[i].width
  <2>1. \A i \in 1 .. Len(html) : html[i].width \in Nat
    BY <1>5 DEF Token
  <2> QED
    BY <1>2, <2>1
<1>7. Total(ns) = 0
  BY <1>3 DEF WidthOf
<1> HIDE DEF ns
<1>8. ASSUME NEW i \in 1 .. Len(html)  PROVE Chars[ps[i]] = <<>>
  <2>1. html[i] \in Token /\ html[i].width = 0
    BY <1>5, <1>6, <1>7, TotalZero
  <2>2. html[i].chars = <<>>
    <3>1. html[i].kind = "unit" => html[i].chars # <<>> /\ html[i].width >= Len(html[i].chars)
          /\ html[i].chars \in Seq({1, 2})
      BY <2>1 DEF Token
    <3>2. html[i].kind # "unit"
      BY <2>1, <3>1
    <3> QED
      BY <2>1, <3>2 DEF Token
  <2>3. /\ ps[i] \in RealPlace /\ ps[i].block = b /\ ps[i].token = i /\ ps[i].char = 1
    <3>1. ps[i] = [block |-> b, token |-> i, char |-> 1] /\ i \in 1 .. Len(ps)
      BY <1>4
    <3>2. ps[i] \in RealPlace
      BY <1>4, <3>1
    <3> QED
      BY <3>1, <3>2
  <2>4. TokenAt(ps[i]) = html[i]
    BY <1>1, <2>3 DEF TokenAt
  <2>5. CharsFrom(ps[i]) = <<>>
    <3>1. 1 .. Len(TokenAt(ps[i]).chars) + 1 - ps[i].char = {}
      BY <2>2, <2>3, <2>4
    <3> QED
      BY <3>1 DEF CharsFrom
  <2> QED
    BY <2>3, <2>5 DEF Chars
<1>9. FlatMap(Chars, ps) = <<>>
  <2>1. FlatMap(Chars, ps) # <<>> => \E i \in 1 .. Len(ps) : 1 \in 1 .. Len(Chars[ps[i]])
    BY <1>4, CharsMaps, FlatMapElements
  <2>2. ASSUME NEW i \in 1 .. Len(ps)  PROVE ~(1 \in 1 .. Len(Chars[ps[i]]))
    <3>1. Chars[ps[i]] = <<>>
      BY <1>4, <1>8
    <3> QED
      BY <3>1
  <2> QED
    BY <2>1, <2>2
<1> QED
  BY <1>4, <1>9, TextOfMap DEF ps

LEMMA TagText ==
    ASSUME TypeOK, tokens # <<>>, TokenAt(tokens[1]).kind # "unit"
    PROVE  CharsFrom(tokens[1]) = <<>>
<1>1. TokenAt(tokens[1]) \in Token
      /\ (tokens[1].char = 1 \/ tokens[1].char \in DOMAIN TokenAt(tokens[1]).chars)
  BY TokenType
<1>2. TokenAt(tokens[1]).chars = <<>>
  BY <1>1 DEF Token
<1>3. tokens[1].char = 1
  BY <1>1, <1>2
<1>4. 1 .. Len(TokenAt(tokens[1]).chars) + 1 - tokens[1].char = {}
  BY <1>2, <1>3
<1> QED
  BY <1>4 DEF CharsFrom

\* A tag is passed: the text stays as it is.
LEMMA TagPassed ==
    ASSUME IInv, MarkInv, TextInv, IInv', MarkInv', pc = "split", UNCHANGED Rest,
           tokens # <<>>, TokenAt(tokens[1]).kind # "unit", tokens' = Tail(tokens),
           \/ parts' = parts /\ current'.text = current.text
           \/ parts' = Flushed /\ current'.text = <<>>
    PROVE  TextInv'
<1>1. TypeOK /\ document \in Documents /\ tokens \in Seq(RealPlace) /\ current.text \in Seq(Place)
      /\ Text(parts) \in Seq(Place) /\ <<>> \in Seq(Place) /\ Said \in Seq(Place)
  BY TextTypes, EmptySeq DEF IInv, PlanInv
<1>2. TextOf(tokens) = Cat(<<>>, TextOf(tokens'))
  BY <1>1, TagText, TextTail
<1> DEFINE none == <<>>
           base == IF parts' = parts /\ current'.text = current.text THEN current.text ELSE <<>>
<1>3. base \in Seq(Place) /\ none \in Seq(Place) /\ TextOf(tokens) = Cat(none, TextOf(tokens'))
  BY <1>1, <1>2
<1>4. Cat(Text(parts'), base) = Said /\ current'.text = Cat(base, none)
  <2>1. CASE parts' = parts /\ current'.text = current.text
    BY <1>1, <2>1, CatEmpty DEF Said
  <2>2. CASE ~(parts' = parts /\ current'.text = current.text)
    <3>1. parts' = Flushed /\ current'.text = <<>>
      BY <2>2
    <3>2. Text(Flushed) = Said
      BY <1>1, FlushedIs DEF Said
    <3> QED
      BY <1>1, <2>2, <3>1, <3>2, CatEmpty
  <2> QED
    BY <2>1, <2>2
<1> HIDE DEF base, none
<1> QED
  BY <1>3, <1>4, SplitText

LEMMA OpenTagText == ASSUME IInv, MarkInv, TextInv, OpenTag, IInv', MarkInv' PROVE TextInv'
<1> DEFINE token == TokenAt(tokens[1])
           full == current.size + token.width + Closing + EndWidth(token.tag) > MaxPart
           part == IF full THEN Reopened ELSE current
<1>1. /\ TypeOK /\ pc = "split" /\ UNCHANGED Rest /\ tokens # <<>> /\ tokens' = Tail(tokens)
      /\ token.kind # "unit"
  BY DEF OpenTag, Reads, IInv, PlanInv
<1>2. CASE UNCHANGED <<stack, parts, current, deep>>
  BY <1>1, <1>2, TagPassed
<1>3. CASE /\ parts' = IF full THEN Flushed ELSE parts
           /\ current' = Added(part, token.width, <<>>, <<Tag(token)>>)
  <2>1. part.text = (IF full THEN <<>> ELSE current.text) /\ part.text \in Seq(Place)
    BY <1>1, ReopenedIs, TextTypes, EmptySeq
  <2>2. current'.text = Cat(part.text, <<>>)
    BY <1>3, AddedText
  <2>3. current'.text = part.text
    BY <2>1, <2>2, CatEmpty
  <2> QED
    BY <1>1, <1>3, <2>1, <2>3, TagPassed
<1> QED
  BY <1>2, <1>3 DEF OpenTag

LEMMA CloseTagText == ASSUME IInv, MarkInv, TextInv, CloseTag, IInv', MarkInv' PROVE TextInv'
<1> DEFINE token == TokenAt(tokens[1])
           ends == Closing - (IF Len(stack) > 1 THEN stack[Len(stack) - 1].closing ELSE 0)
<1>1. /\ pc = "split" /\ UNCHANGED Rest /\ tokens # <<>> /\ tokens' = Tail(tokens)
      /\ token.kind # "unit" /\ parts' = parts
  BY DEF CloseTag, Reads
<1>2. CASE current' = current
  BY <1>1, <1>2, TagPassed
<1>3. CASE current' = Added(current, ends, <<>>, <<Tag(token)>>)
  <2>1. current'.text = Cat(current.text, <<>>) /\ current.text \in Seq(Place)
    BY <1>3, AddedText, TextTypes
  <2>2. current'.text = current.text
    BY <2>1, CatEmpty
  <2> QED
    BY <1>1, <2>2, TagPassed
<1> QED
  BY <1>2, <1>3 DEF CloseTag

\* Text goes from the value to the message being filled, or to a new one.
LEMMA TextPassed ==
    ASSUME IInv, MarkInv, TextInv, IInv', MarkInv', pc = "split", UNCHANGED Rest,
           NEW text \in Seq(Place), TextOf(tokens) = Cat(text, TextOf(tokens')), NEW full, NEW width,
           parts' = IF full THEN Flushed ELSE parts,
           current' = Added(IF full THEN Reopened ELSE current, width, text, <<>>)
    PROVE  TextInv'
<1> DEFINE part == IF full THEN Reopened ELSE current
           base == IF full THEN <<>> ELSE current.text
<1>1. TypeOK /\ current.text \in Seq(Place) /\ Text(parts) \in Seq(Place) /\ <<>> \in Seq(Place)
      /\ Said \in Seq(Place)
  BY TextTypes, EmptySeq DEF IInv, PlanInv
<1>2. base \in Seq(Place) /\ part.text = base
  BY <1>1, ReopenedIs
<1>3. current'.text = Cat(base, text)
  <2> HIDE DEF base
  <2> QED
    BY <1>2, AddedText
<1>4. Cat(Text(parts'), base) = Said
  <2>1. CASE full
    <3>1. Text(Flushed) = Said
      BY <1>1, FlushedIs DEF Said
    <3> QED
      BY <1>1, <2>1, <3>1, CatEmpty
  <2>2. CASE ~full
    BY <2>2 DEF Said
  <2> QED
    BY <2>1, <2>2
<1> HIDE DEF base, part
<1> QED
  BY <1>2, <1>3, <1>4, SplitText

LEMMA UnitText == ASSUME IInv, MarkInv, TextInv, Unit, IInv', MarkInv' PROVE TextInv'
<1> DEFINE token == TokenAt(tokens[1])
           text == CharsFrom(tokens[1])
           width == token.width
<1>1. /\ TypeOK /\ pc = "split" /\ UNCHANGED Rest /\ tokens # <<>> /\ tokens' = Tail(tokens)
  BY DEF Unit, Reads, IInv, PlanInv
<1>2. text \in Seq(Place) /\ TextOf(tokens) = Cat(text, TextOf(tokens'))
  BY <1>1, TextTypes, TextTail, CharsType
<1> HIDE DEF text, width
<1>3. CASE current' = Added(current, width, text, <<>>) /\ parts' = parts
  <2> DEFINE full == FALSE
  <2>1. current' = Added(IF full THEN Reopened ELSE current, width, text, <<>>)
        /\ parts' = IF full THEN Flushed ELSE parts
    BY <1>3
  <2> HIDE DEF full
  <2> QED
    BY <1>1, <1>2, <2>1, TextPassed
<1>4. CASE current' = Added(Reopened, width, text, <<>>) /\ parts' = Flushed
  <2> DEFINE full == TRUE
  <2>1. current' = Added(IF full THEN Reopened ELSE current, width, text, <<>>)
        /\ parts' = IF full THEN Flushed ELSE parts
    BY <1>4
  <2> HIDE DEF full
  <2> QED
    BY <1>1, <1>2, <2>1, TextPassed
<1> QED
  BY <1>3, <1>4 DEF Unit, text, width

\* The characters of a unit from a place on are the one there and those from the next on.
LEMMA OneCharacter ==
    ASSUME IInv, Character
    PROVE  TextOf(tokens) = Cat(CharAt(tokens[1]), TextOf(tokens'))
<1> DEFINE place == tokens[1]
           token == TokenAt(tokens[1])
           n == Len(token.chars)
           next == [place EXCEPT !.char = @ + 1]
           rest == Tail(tokens)
<1>1. /\ TypeOK /\ document \in Documents /\ tokens \in Seq(RealPlace) /\ tokens # <<>>
      /\ place \in RealPlace /\ token \in Token /\ place.char \in DOMAIN token.chars
      /\ CharAt(place) \in Seq(Place)
  BY CharacterIs, RealTokens DEF IInv, PlanInv, TypeOK
<1>2. n \in Nat /\ place.char \in 1 .. n
  BY <1>1 DEF Token
<1>3. place \in [block : BlockNo, token : Nat, char : Nat \ {0}] /\ place.token \in DOMAIN Html(place.block)
  BY <1>1 DEF RealPlace, Place, BlockNo
<1>4. rest \in Seq(RealPlace) /\ TextOf(tokens) = Cat(CharsFrom(place), TextOf(rest))
  BY <1>1, TextTail
<1>5. tokens' = IF place.char = n THEN rest ELSE [tokens EXCEPT ![1].char = @ + 1]
  BY DEF Character
<1> HIDE DEF n
<1>6. CASE place.char = n
  <2>1. CharsFrom(place) = CharAt(place)
    <3>1. CASE place.block = -1
      BY <3>1 DEF CharsFrom, CharAt
    <3>2. CASE place.block # -1
      <4>1. Len(token.chars) + 1 - place.char = 1
        BY <1>2, <1>6 DEF n
      <4>2. CharsFrom(place) = [i \in 1 .. 1 |-> [place EXCEPT !.char = place.char + i - 1]]
        BY <3>2, <4>1 DEF CharsFrom
      <4>3. [place EXCEPT !.char = place.char + 1 - 1] = place
        BY <1>2, <1>3
      <4>4. [i \in 1 .. 1 |-> [place EXCEPT !.char = place.char + i - 1]] = <<place>>
        BY <4>3
      <4> QED
        BY <3>2, <4>2, <4>4 DEF CharAt
    <3> QED
      BY <3>1, <3>2
  <2> QED
    BY <1>4, <1>5, <1>6, <2>1
<1>7. CASE place.char # n
  <2>1. /\ next \in RealPlace /\ next.block = place.block /\ next.token = place.token
        /\ next.char = place.char + 1
    BY <1>3 DEF RealPlace, Place, BlockNo
  <2>2. TokenAt(next) = token
    BY <2>1 DEF TokenAt
  <2> HIDE DEF next
  <2>3. tokens' = [tokens EXCEPT ![1] = next]
    BY <1>5, <1>7 DEF next
  <2>4. tokens' \in Seq(RealPlace) /\ tokens' # <<>> /\ tokens'[1] = next /\ Tail(tokens') = rest
    <3>1. /\ tokens' \in Seq(RealPlace) /\ Len(tokens') = Len(tokens) /\ tokens'[1] = next
          /\ \A i \in 1 .. Len(tokens) : i # 1 => tokens'[i] = tokens[i]
      BY <1>1, <2>1, <2>3
    <3>2. tokens' # <<>> /\ Len(tokens) \in Nat /\ Len(tokens) > 0
      BY <1>1, <3>1
    <3>3. /\ Tail(tokens') \in Seq(RealPlace) /\ Len(Tail(tokens')) = Len(tokens) - 1
          /\ \A i \in 1 .. Len(tokens) - 1 : Tail(tokens')[i] = tokens'[i + 1]
      BY <3>1, <3>2, HeadTailProperties
    <3>4. /\ rest \in Seq(RealPlace) /\ Len(rest) = Len(tokens) - 1
          /\ \A i \in 1 .. Len(tokens) - 1 : rest[i] = tokens[i + 1]
      BY <1>1, HeadTailProperties
    <3> HIDE DEF rest
    <3>5. \A i \in 1 .. Len(tokens) - 1 : Tail(tokens')[i] = rest[i]
      <4>1. \A i \in 1 .. Len(tokens) - 1 : i + 1 \in 1 .. Len(tokens) /\ i + 1 # 1
        BY <3>2
      <4> QED
        BY <3>1, <3>3, <3>4, <4>1
    <3>6. Tail(tokens') = rest
      BY <3>3, <3>4, <3>5, SeqEqual
    <3> QED
      BY <3>1, <3>2, <3>6
  <2>5. TextOf(tokens') = Cat(CharsFrom(next), TextOf(rest))
    BY <1>1, <2>4, TextTail
  <2>6. CharsFrom(next) \in Seq(Place) /\ TextOf(rest) \in Seq(Place) /\ CharsFrom(place) \in Seq(Place)
    BY <1>1, <1>4, <2>1, CharsType, TextType
  <2>7. CharsFrom(place) = Cat(CharAt(place), CharsFrom(next))
    <3>1. CASE place.block = -1
      <4>1. CharAt(place) = <<>> /\ CharsFrom(place) = <<>> /\ CharsFrom(next) = <<>>
        BY <2>1, <3>1 DEF CharAt, CharsFrom
      <4> QED
        BY <2>6, <4>1, CatEmpty
    <3>2. CASE place.block # -1
      <4> DEFINE k == n + 1 - place.char
      <4>1. k \in Nat /\ k > 1 /\ n + 1 - next.char = k - 1
        BY <1>2, <1>7, <2>1
      <4>2. CharsFrom(place) = [i \in 1 .. k |-> [place EXCEPT !.char = place.char + i - 1]]
        BY <3>2 DEF CharsFrom, n
      <4>3. CharsFrom(next) = [i \in 1 .. k - 1 |-> [next EXCEPT !.char = next.char + i - 1]]
        BY <2>1, <2>2, <3>2, <4>1 DEF CharsFrom, n
      <4>4. CharAt(place) = <<place>> /\ <<place>> \in Seq(Place) /\ Len(<<place>>) = 1
        BY <1>1, <3>2 DEF CharAt, RealPlace
      <4> HIDE DEF k
      <4>5. /\ Len(CharsFrom(place)) = k /\ Len(CharsFrom(next)) = k - 1
            /\ \A i \in 1 .. k : CharsFrom(place)[i] = [place EXCEPT !.char = place.char + i - 1]
            /\ \A i \in 1 .. k - 1 : CharsFrom(next)[i] = [next EXCEPT !.char = next.char + i - 1]
        BY <4>1, <4>2, <4>3
      <4>6. \A i \in 1 .. k - 1 : [next EXCEPT !.char = next.char + i - 1]
                                    = [place EXCEPT !.char = place.char + (i + 1) - 1]
        <5> SUFFICES ASSUME NEW i \in 1 .. k - 1
                     PROVE  [next EXCEPT !.char = next.char + i - 1]
                               = [place EXCEPT !.char = place.char + (i + 1) - 1]
          OBVIOUS
        <5>1. next = [block |-> place.block, token |-> place.token, char |-> place.char + 1]
          BY <1>3 DEF next
        <5>2. place = [block |-> place.block, token |-> place.token, char |-> place.char]
          BY <1>3
        <5>3. place.char + 1 + i - 1 = place.char + (i + 1) - 1
          BY <1>2, <4>1
        <5>4. [next EXCEPT !.char = next.char + i - 1]
                 = [block |-> place.block, token |-> place.token, char |-> place.char + 1 + i - 1]
          BY <5>1
        <5>5. [place EXCEPT !.char = place.char + (i + 1) - 1]
                 = [block |-> place.block, token |-> place.token, char |-> place.char + (i + 1) - 1]
          BY <5>2
        <5> QED
          BY <5>3, <5>4, <5>5
      <4>7. [place EXCEPT !.char = place.char + 1 - 1] = place
        BY <1>2, <1>3
      <4> DEFINE u == Cat(CharAt(place), CharsFrom(next))
      <4>8. /\ u \in Seq(Place) /\ Len(u) = k
            /\ u[1] = place /\ \A i \in 1 .. k : i # 1 => u[i] = CharsFrom(next)[i - 1]
        <5> DEFINE a == CharAt(place)
                   c == CharsFrom(next)
        <5>1. a \in Seq(Place) /\ c \in Seq(Place) /\ Len(a) = 1 /\ Len(c) = k - 1 /\ a[1] = place
          BY <2>6, <4>4, <4>5
        <5> HIDE DEF a, c
        <5>2. /\ Cat(a, c) \in Seq(Place) /\ Len(Cat(a, c)) = Len(a) + Len(c)
              /\ \A i \in 1 .. Len(a) + Len(c) : Cat(a, c)[i] = IF i <= Len(a) THEN a[i] ELSE c[i - Len(a)]
          BY <5>1, CatFacts
        <5>3. Len(a) + Len(c) = k /\ \A i \in 1 .. k : (i <= 1 <=> i = 1)
          BY <4>1, <5>1
        <5>4. 1 \in 1 .. k
          BY <4>1
        <5> QED
          BY <5>1, <5>2, <5>3, <5>4 DEF a, c
      <4> HIDE DEF u
      <4>9. \A i \in 1 .. k : CharsFrom(place)[i] = u[i]
        <5> SUFFICES ASSUME NEW i \in 1 .. k  PROVE CharsFrom(place)[i] = u[i]
          OBVIOUS
        <5>1. CASE i = 1
          BY <4>5, <4>7, <4>8, <5>1
        <5>2. CASE i # 1
          <6>1. i - 1 \in 1 .. k - 1 /\ i - 1 + 1 = i
            BY <4>1, <5>2
          <6>2. u[i] = [next EXCEPT !.char = next.char + (i - 1) - 1]
            BY <4>5, <4>8, <5>2, <6>1
          <6>3. [next EXCEPT !.char = next.char + (i - 1) - 1] = [place EXCEPT !.char = place.char + i - 1]
            BY <4>6, <6>1
          <6> QED
            BY <4>5, <6>2, <6>3
        <5> QED
          BY <5>1, <5>2
      <4>10. CharsFrom(place) = u
        BY <2>6, <4>5, <4>8, <4>9, SeqEqual
      <4> QED
        BY <4>10 DEF u
    <3> QED
      BY <3>1, <3>2
  <2>8. Cat(Cat(CharAt(place), CharsFrom(next)), TextOf(rest)) = Cat(CharAt(place), Cat(CharsFrom(next), TextOf(rest)))
    <3> DEFINE a == CharAt(place)
               b == CharsFrom(next)
               c == TextOf(rest)
    <3>1. a \in Seq(Place) /\ b \in Seq(Place) /\ c \in Seq(Place)
      BY <1>1, <2>6
    <3> HIDE DEF a, b, c
    <3>2. Cat(Cat(a, b), c) = Cat(a, Cat(b, c))
      BY <3>1, CatAssociative
    <3> QED
      BY <3>2 DEF a, b, c
  <2> QED
    BY <1>4, <2>5, <2>7, <2>8
<1> QED
  BY <1>6, <1>7

LEMMA CharacterText == ASSUME IInv, MarkInv, TextInv, Character, IInv', MarkInv' PROVE TextInv'
<1> DEFINE width == TokenAt(tokens[1]).chars[tokens[1].char]
           full == current.size + width + Closing > MaxPart
           text == CharAt(tokens[1])
<1>1. text \in Seq(Place) /\ TextOf(tokens) = Cat(text, TextOf(tokens')) /\ pc = "split" /\ UNCHANGED Rest
  BY CharacterIs, OneCharacter DEF Character, Reads
<1>2. /\ parts' = IF full THEN Flushed ELSE parts
      /\ current' = Added(IF full THEN Reopened ELSE current, width, text, <<>>)
  BY DEF Character
<1> HIDE DEF width, full, text
<1> QED
  BY <1>1, <1>2, TextPassed

LEMMA EndSplitText == ASSUME IInv, MarkInv, TextInv, EndSplit, IInv', MarkInv' PROVE TextInv'
<1>1. /\ pc = "split" /\ pc' = "place" /\ current' = Closed(current) /\ tokens = <<>>
      /\ UNCHANGED <<document, groups, blocks, tokens, parts, plan>>
  BY DEF EndSplit
<1>2. TypeOK /\ StackInv /\ groups # <<>> /\ ~Packing /\ ~Packing'
  BY <1>1 DEF IInv, PlanInv, StackInv, Packing
<1>3. current'.text = current.text
  BY <1>1, <1>2, ClosedIs DEF MarkInv
<1>4. Said' = Said /\ Unplaced' = Unplaced
  BY <1>1, <1>3, SameText DEF Said, Unplaced, Text
<1>5. BlocksText(Head(groups))' = BlocksText(Head(groups))
  BY <1>1, SameText
<1>6. \A group \in Elements(plan') : Text(group.parts)' = BlocksText(group.blocks)' /\ group.parts # <<>>
  BY <1>1, SameText DEF TextInv, Text
<1> QED
  BY <1>1, <1>2, <1>4, <1>5, <1>6 DEF TextInv

\* The text of the value that is placed goes first.
LEMMA ValueText ==
    ASSUME IInv, pc = "place", blocks # <<>>
    PROVE  LET rest == IF Glued THEN Tail(Tail(blocks)) ELSE Tail(blocks)
               places == IF Glued THEN Places(blocks[1]) \o Places(-1) \o Places(blocks[2])
                         ELSE Places(blocks[1])
           IN  /\ BlocksText(blocks) = Cat(BlocksText(Value), BlocksText(rest))
               /\ TextOf(places) = BlocksText(Value)
               /\ BlocksText(Value) \in Seq(Place) /\ BlocksText(rest) \in Seq(Place)
<1> DEFINE b == blocks[1]
           c == blocks[2]
           B == TextOf(Places(b))
           C == TextOf(Places(c))
           t == Tail(blocks)
           u == Tail(t)
<1>1. /\ document \in Documents /\ blocks \in Seq(BlockNo) /\ b \in BlockNo /\ -1 \in BlockNo
      /\ t \in Seq(BlockNo) /\ (Glued => t # <<>> /\ t[1] = c /\ c \in BlockNo)
  BY PlacedBlocks
<1>2. B \in Seq(Place) /\ BlocksText(t) \in Seq(Place) /\ BlocksText(blocks) = Cat(B, BlocksText(t))
  BY <1>1, PlacesReal, BlocksTextFacts
<1>3. TextOf(Places(-1)) = <<>>
  <2>1. Places(-1) \in Seq(RealPlace) /\ Len(Places(-1)) = Len(Html(-1))
        /\ \A i \in 1 .. Len(Html(-1)) : Places(-1)[i] = [block |-> -1, token |-> i, char |-> 1]
    BY <1>1, PlacesReal
  <2> DEFINE ps == Places(-1)
  <2> HIDE DEF ps
  <2>2. FlatMap(Chars, ps) # <<>> => \E i \in 1 .. Len(ps) : 1 \in 1 .. Len(Chars[ps[i]])
    BY <1>1, <2>1, CharsMaps, FlatMapElements DEF ps
  <2>3. ASSUME NEW i \in 1 .. Len(ps)  PROVE ~(1 \in 1 .. Len(Chars[ps[i]]))
    <3>1. ps[i] \in RealPlace /\ ps[i] = [block |-> -1, token |-> i, char |-> 1]
      BY <2>1 DEF ps
    <3>2. Chars[ps[i]] = <<>>
      BY <3>1 DEF Chars, CharsFrom
    <3> QED
      BY <3>2
  <2>4. TextOf(ps) = FlatMap(Chars, ps)
    BY <2>1, TextOfMap DEF ps
  <2> QED
    BY <2>2, <2>3, <2>4 DEF ps
<1>4. CASE ~Glued
  <2>1. Value = <<b>> /\ BlocksText(<<b>>) = B
    BY <1>1, <1>4, BlocksTextFacts DEF Value
  <2> QED
    BY <1>2, <1>4, <2>1
<1>5. CASE Glued
  <2>1. /\ u \in Seq(BlockNo) /\ BlocksText(t) = Cat(C, BlocksText(u))
        /\ C \in Seq(Place) /\ BlocksText(u) \in Seq(Place)
    <3> HIDE DEF t
    <3>1. u \in Seq(BlockNo) /\ BlocksText(t) = Cat(TextOf(Places(t[1])), BlocksText(u))
      BY <1>1, <1>5, BlocksTextFacts
    <3> QED
      BY <1>1, <1>5, <3>1, PlacesReal, BlocksTextFacts
  <2>2. BlocksText(Value) = Cat(B, C)
    <3> DEFINE v == <<b, -1, c>>
               w == <<-1, c>>
    <3>1. v \in Seq(BlockNo) /\ v # <<>> /\ v[1] = b /\ Tail(v) = w
      BY <1>1, <1>5
    <3>2. w \in Seq(BlockNo) /\ w # <<>> /\ w[1] = -1 /\ Tail(w) = <<c>>
      BY <1>1, <1>5
    <3>3. Value = v
      BY <1>5 DEF Value
    <3> HIDE DEF v, w
    <3>4. BlocksText(v) = Cat(B, BlocksText(w)) /\ BlocksText(w) = Cat(TextOf(Places(-1)), BlocksText(<<c>>))
      BY <1>1, <3>1, <3>2, BlocksTextFacts
    <3>5. BlocksText(<<c>>) = C
      BY <1>1, <1>5, BlocksTextFacts
    <3> QED
      BY <1>3, <2>1, <3>3, <3>4, <3>5, CatEmpty
  <2>3. BlocksText(blocks) = Cat(Cat(B, C), BlocksText(u))
    <3> HIDE DEF B, C, t, u
    <3>1. Cat(Cat(B, C), BlocksText(u)) = Cat(B, Cat(C, BlocksText(u)))
      BY <1>2, <2>1, CatAssociative
    <3> QED
      BY <1>2, <2>1, <3>1
  <2>4. TextOf(Places(b) \o Places(-1) \o Places(c)) = Cat(B, C)
    <3> DEFINE p == Places(b)
               q == Places(-1)
               r == Places(c)
    <3>1. p \in Seq(RealPlace) /\ q \in Seq(RealPlace) /\ r \in Seq(RealPlace)
      BY <1>1, <1>5, PlacesReal
    <3>2. p \o q \o r = Cat(Cat(p, q), r)
      BY Zenon DEF Cat
    <3> HIDE DEF p, q, r
    <3>3. /\ Cat(p, q) \in Seq(RealPlace) /\ TextOf(Cat(p, q)) = Cat(TextOf(p), TextOf(q))
      BY <1>1, <3>1, TextCat
    <3>4. TextOf(Cat(Cat(p, q), r)) = Cat(TextOf(Cat(p, q)), TextOf(r))
      BY <1>1, <3>1, <3>3, TextCat
    <3>5. TextOf(q) = <<>> /\ TextOf(p) = B /\ TextOf(r) = C
      BY <1>3 DEF p, q, r
    <3>6. TextOf(Cat(Cat(p, q), r)) = Cat(B, C)
      <4> HIDE DEF B, C
      <4> QED
        BY <1>2, <3>3, <3>4, <3>5, CatEmpty
    <3> QED
      BY <3>2, <3>6, Zenon DEF p, q, r
  <2>5. Cat(B, C) \in Seq(Place)
    BY <1>2, <2>1, CatFacts
  <2> HIDE DEF B, C
  <2>6. /\ BlocksText(Value) = Cat(B, C) /\ BlocksText(Value) \in Seq(Place) /\ BlocksText(u) \in Seq(Place)
        /\ BlocksText(blocks) = Cat(BlocksText(Value), BlocksText(u))
        /\ TextOf(Places(b) \o Places(-1) \o Places(c)) = BlocksText(Value)
    BY <2>1, <2>2, <2>3, <2>4, <2>5, Zenon
  <2> HIDE DEF b, c
  <2> QED
    BY <1>5, <2>6, Zenon DEF b, c, t, u
<1> QED
  BY <1>4, <1>5

LEMMA PlaceBlockText == ASSUME IInv, MarkInv, TextInv, PlaceBlock, IInv', MarkInv' PROVE TextInv'
<1> DEFINE rest == IF Glued THEN Tail(Tail(blocks)) ELSE Tail(blocks)
           places == IF Glued THEN Places(blocks[1]) \o Places(-1) \o Places(blocks[2])
                     ELSE Places(blocks[1])
           V == BlocksText(Value)
           R == BlocksText(rest)
<1>1. /\ TypeOK /\ pc = "place" /\ blocks # <<>> /\ blocks' = rest /\ UNCHANGED <<document, groups, plan, stack>>
  BY DEF PlaceBlock, IInv, PlanInv
<1>2. tokens = <<>> /\ groups # <<>> /\ ~Packing /\ document \in Documents
  BY <1>1 DEF IInv, PlanInv, StackInv, TypeOK, Packing
<1>3. /\ BlocksText(blocks) = Cat(V, R) /\ TextOf(places) = V /\ V \in Seq(Place) /\ R \in Seq(Place)
  BY <1>1, ValueText
<1>4. /\ Said \in Seq(Place) /\ Text(parts) \in Seq(Place) /\ current.text \in Seq(Place)
      /\ <<>> \in Seq(Place) /\ TextOf(<<>>) = <<>>
  BY TextTypes, TextEmpty, EmptySeq
<1>5. \/ pc' = pc /\ tokens' = tokens
      \/ pc' = "split" /\ parts' = Flushed /\ current' = Empty /\ tokens' = places
  BY DEF PlaceBlock
<1>6. ~(Glued) => blocks[1] \in 1 .. Len(document.blocks)
  BY <1>1, PlacedBlocks
<1>7. BlocksText(blocks') = R
  BY <1>1
<1> HIDE DEF rest, places, V, R
<1>8. Unplaced = Cat(V, R) /\ Cat(V, R) \in Seq(Place)
  BY <1>2, <1>3, <1>4, CatEmpty, CatFacts DEF Unplaced
<1>9. CASE pc' = pc /\ tokens' = tokens
  <2>1. Cat(TextOf(tokens'), BlocksText(blocks')) = R
    BY <1>2, <1>3, <1>4, <1>7, <1>9, CatEmpty
  <2>2. CASE UNCHANGED <<parts, current>> /\ ~Glued /\ Width(blocks[1]) = 0
    <3> DEFINE none == <<>>
    <3>1. V = none /\ none \in Seq(Place)
      <4>1. Value = <<blocks[1]>> /\ blocks[1] \in BlockNo /\ TextOf(Places(blocks[1])) = <<>>
        BY <1>1, <1>2, <1>6, <2>2, PlacedBlocks, NoWidth DEF Value
      <4> QED
        BY <1>2, <1>4, <4>1, BlocksTextFacts DEF V
    <3>2. Said' = Cat(Said, none)
      BY <1>4, <2>2, CatEmpty DEF Said, Text
    <3>3. Unplaced = Cat(none, Cat(TextOf(tokens'), BlocksText(blocks')))
      BY <1>8, <2>1, <3>1
    <3> HIDE DEF none
    <3> QED
      BY <1>1, <1>2, <1>9, <3>1, <3>2, <3>3, TextNext DEF Packing
  <2>3. ASSUME NEW width \in Nat, parts' = parts,
               current' = Added(current, width, BlocksText(Value), BlocksTags(Value))
        PROVE  TextInv'
    <3>1. current'.text = Cat(current.text, V)
      BY <2>3, AddedText DEF V
    <3>2. Said' = Cat(Said, V)
      <4>1. Said' = Cat(Text(parts), Cat(current.text, V))
        BY <2>3, <3>1 DEF Said, Text
      <4>2. Cat(Cat(Text(parts), current.text), V) = Cat(Text(parts), Cat(current.text, V))
        BY <1>3, <1>4, CatAssociative
      <4> QED
        BY <4>1, <4>2 DEF Said
    <3>3. Unplaced = Cat(V, Cat(TextOf(tokens'), BlocksText(blocks')))
      BY <1>8, <2>1
    <3> QED
      BY <1>1, <1>2, <1>3, <1>9, <3>2, <3>3, TextNext DEF Packing
  <2> QED
    BY <1>9, <2>2, <2>3, PlacedAdded
<1>10. CASE pc' = "split" /\ parts' = Flushed /\ current' = Empty /\ tokens' = places
  <2> DEFINE none == <<>>
  <2>1. none \in Seq(Place) /\ Said' = Cat(Said, none)
    <3>1. Text(Flushed) = Said /\ current'.text = <<>>
      BY <1>1, <1>10, FlushedIs, EmptyIs DEF Said
    <3>2. Said' = Cat(Text(Flushed), <<>>)
      BY <1>10, <3>1 DEF Said, Text
    <3> QED
      BY <1>4, <3>1, <3>2
  <2>2. Unplaced = Cat(none, Cat(TextOf(tokens'), BlocksText(blocks')))
    <3>1. Cat(TextOf(tokens'), BlocksText(blocks')) = Cat(V, R)
      BY <1>3, <1>7, <1>10
    <3> QED
      BY <1>8, <3>1, CatEmpty
  <2> HIDE DEF none
  <2> QED
    BY <1>1, <1>2, <1>10, <2>1, <2>2, TextNext DEF Packing
<1> QED
  BY <1>5, <1>9, <1>10

\* A group is begun: none of its text is in messages yet.
LEMMA FreshText ==
    ASSUME IInv', MarkInv', document' = document, parts' = <<>>, current'.text = <<>>,
           \/ tokens' = <<>> /\ (groups' # <<>> => blocks' = Head(groups'))
           \/ tokens' = Places(0) /\ blocks' = <<>> /\ groups' = SourceOnly,
           \A group \in Elements(plan') : Text(group.parts) = BlocksText(group.blocks) /\ group.parts # <<>>,
           pc' = "done" => plan' # <<>>
    PROVE  TextInv'
<1>1. /\ document' \in Documents /\ TextOf(tokens') \in Seq(Place) /\ BlocksText(blocks') \in Seq(Place)
      /\ <<>> \in Seq(Place)
  BY TypesNext, EmptySeq
<1>2. Said' = <<>>
  <2>1. Said' = Cat(Text(<<>>), <<>>)
    BY DEF Said, Text
  <2> QED
    BY <1>1, <2>1, NoText, CatEmpty
<1>3. Unplaced' = Cat(TextOf(tokens'), BlocksText(blocks'))
  BY SameText DEF Unplaced
<1>4. Cat(TextOf(tokens'), BlocksText(blocks')) \in Seq(Place)
  BY <1>1, CatFacts
<1>5. groups' # <<>> => Cat(Said', Unplaced') = BlocksText(Head(groups'))
  <2>1. Cat(Said', Unplaced') = Cat(TextOf(tokens'), BlocksText(blocks'))
    BY <1>2, <1>3, <1>4, CatEmpty
  <2>2. CASE tokens' = <<>> /\ (groups' # <<>> => blocks' = Head(groups'))
    BY <1>1, <2>1, <2>2, TextEmpty, CatEmpty
  <2>3. CASE tokens' = Places(0) /\ blocks' = <<>> /\ groups' = SourceOnly
    <3>1. 0 \in BlockNo /\ document \in Documents
      BY <1>1, BlocksOf DEF BlockNo
    <3>2. BlocksText(<<0>>) = TextOf(Places(0)) /\ BlocksText(<<>>) = <<>>
      BY <3>1, BlocksTextFacts
    <3>3. Head(groups') = <<0>>
      BY <2>3 DEF SourceOnly
    <3> QED
      BY <1>1, <2>1, <2>3, <3>2, <3>3, CatEmpty
  <2> QED
    BY <2>2, <2>3
<1>6. groups' # <<>> => Cat(Said, Unplaced)' = BlocksText(Head(groups))'
  BY <1>5, SameText
<1>7. \A group \in Elements(plan') : Text(group.parts)' = BlocksText(group.blocks)' /\ group.parts # <<>>
  BY SameText DEF Text
<1> QED
  BY <1>6, <1>7 DEF TextInv

LEMMA EndGroupText == ASSUME IInv, MarkInv, TextInv, EndGroup, IInv', MarkInv' PROVE TextInv'
<1> DEFINE planned == [blocks |-> Head(groups), parts |-> Made]
<1>1. /\ TypeOK /\ pc = "place" /\ document' = document /\ parts' = <<>> /\ current' = Empty
      /\ plan' = Append(plan, planned) /\ Made # <<>> /\ blocks = <<>> /\ tokens' = tokens
      /\ groups' = Tail(groups) /\ blocks' = IF Len(groups) > 1 THEN groups[2] ELSE <<>>
      /\ pc' = IF Len(groups) > 1 THEN "place" ELSE "done"
  BY DEF EndGroup, IInv, PlanInv
<1>2. stack = <<>> /\ tokens = <<>> /\ groups # <<>> /\ ~Packing
  BY <1>1 DEF IInv, PlanInv, StackInv, Packing
<1>3. Text(Made) = BlocksText(Head(groups))
  <2>1. Text(Made) = Said /\ Said \in Seq(Place) /\ document \in Documents /\ <<>> \in Seq(Place)
    BY <1>1, <1>2, MadeIs, TextTypes, EmptySeq DEF Said
  <2>2. Unplaced = <<>>
    BY <1>1, <1>2, <2>1, TextEmpty, BlocksTextFacts, CatEmpty DEF Unplaced
  <2>3. Cat(Said, Unplaced) = BlocksText(Head(groups))
    BY <1>2 DEF TextInv
  <2> QED
    BY <2>1, <2>2, <2>3, CatEmpty
<1>4. \A group \in Elements(plan') : Text(group.parts) = BlocksText(group.blocks) /\ group.parts # <<>>
  <2>1. planned.parts = Made /\ planned.blocks = Head(groups) /\ plan \in Seq(Elements(plan))
    BY <1>1 DEF TypeOK
  <2> HIDE DEF planned
  <2>2. Elements(plan') = Elements(plan) \union {planned}
    BY <1>1, <2>1, AppendElement
  <2> QED
    BY <1>1, <1>3, <2>1, <2>2 DEF TextInv
<1>5. plan' # <<>>
  <2>1. plan \in Seq(Elements(plan))
    BY <1>1 DEF TypeOK
  <2> HIDE DEF planned
  <2>2. Elements(plan') = Elements(plan) \union {planned}
    BY <1>1, <2>1, AppendElement
  <2> QED
    BY <2>2, EmptyElements
<1>6. groups' # <<>> => blocks' = Head(groups')
  <2>1. \E S : groups \in Seq(S)
    <3>1. <<<<0>>>> \in Seq({<<0>>}) /\ <<>> \in Seq({<<0>>})
      BY EmptySeq
    <3>2. groups \in Seq({<<0>>}) \/ groups \in Seq(Seq(DOMAIN document.blocks))
      BY <1>1, <3>1 DEF TypeOK
    <3> QED
      BY <3>2
  <2>2. PICK S : groups \in Seq(S)
    BY <2>1
  <2>3. /\ Tail(groups) \in Seq(S) /\ Len(Tail(groups)) = Len(groups) - 1 /\ Len(groups) \in Nat
        /\ \A i \in 1 .. Len(Tail(groups)) : Tail(groups)[i] = groups[i + 1]
    BY <1>2, <2>2, HeadTailProperties
  <2> SUFFICES ASSUME groups' # <<>>  PROVE blocks' = Head(groups')
    OBVIOUS
  <2>4. Len(Tail(groups)) # 0
    BY <1>1, <2>3, EmptyOf
  <2>5. Len(groups) > 1 /\ Tail(groups)[1] = groups[2]
    BY <2>3, <2>4
  <2>6. Head(groups') = groups'[1]
    BY <1>1, <2>3
  <2> QED
    BY <1>1, <2>5, <2>6
<1> QED
  BY <1>1, <1>2, <1>4, <1>5, <1>6, FreshText, EmptyIs

\* A step that leaves the messages and the plan alone, before anything is placed.
LEMMA PackingText ==
    ASSUME IInv, MarkInv, TextInv, IInv', MarkInv', Packing, UNCHANGED Placing, pc' # "done",
           \/ Packing'
           \/ groups' # <<>> => blocks' = Head(groups')
    PROVE  TextInv'
<1>1. tokens' = <<>> /\ parts' = <<>> /\ current' = Empty /\ plan' = <<>> /\ document' = document
  BY PackingFacts DEF Placing
<1>2. Elements(plan') = {} /\ current'.text = <<>>
  BY <1>1, EmptyElements, EmptyIs
<1>3. CASE Packing'
  BY <1>1, <1>2, <1>3 DEF TextInv
<1>4. CASE groups' # <<>> => blocks' = Head(groups')
  BY <1>1, <1>2, <1>4, FreshText
<1> QED
  BY <1>3, <1>4

LEMMA OneGroup == ASSUME NEW g PROVE Head(<<g>>) = g
OBVIOUS

LEMMA PackText ==
    ASSUME IInv, MarkInv, TextInv, IInv', MarkInv', PackAll \/ Pack \/ AllPacked \/ CutGroup \/ AllCut
    PROVE  TextInv'
<1>1. CASE PackAll
  <2>1. groups' = <<Whole(document)>> /\ blocks' = Whole(document) /\ pc' = "place" /\ Packing
        /\ UNCHANGED Placing
    BY <1>1 DEF PackAll, Packing, Placing
  <2> QED
    BY <2>1, OneGroup, PackingText
<1>2. CASE Pack \/ AllPacked \/ CutGroup
  <2>1. Packing /\ Packing' /\ UNCHANGED Placing /\ pc' # "done"
    BY <1>2 DEF Pack, AllPacked, CutGroup, Packing, Placing
  <2> QED
    BY <2>1, PackingText
<1>3. CASE AllCut
  <2>1. /\ Packing /\ UNCHANGED Placing /\ pc' = "place" /\ groups' = groups
        /\ blocks' = IF groups = <<>> THEN <<>> ELSE Head(groups)
    BY <1>3 DEF AllCut, Packing, Placing
  <2> QED
    BY <2>1, PackingText
<1> QED
  BY <1>1, <1>2, <1>3

LEMMA GiveUpText == ASSUME IInv, MarkInv, TextInv, GiveUpRich, IInv', MarkInv' PROVE TextInv'
<1>1. /\ TypeOK /\ StackInv /\ pc = "place" /\ Made = <<>> /\ plan' = <<>>
      /\ groups' = <<Whole(document)>> /\ blocks' = Whole(document)
      /\ UNCHANGED <<document, tokens, parts, current, pc>>
  BY DEF GiveUpRich, IInv, PlanInv
<1>2. tokens = <<>> /\ parts = <<>> /\ current.text = <<>>
  <2>1. tokens = <<>> /\ stack = <<>>
    BY <1>1 DEF StackInv
  <2>2. current.size \in Nat /\ parts \in Seq(Elements(parts)) /\ current.size = 0 => current.text = <<>>
    BY <1>1 DEF TypeOK, MarkInv
  <2>3. ~(current.size > 0) /\ parts = <<>>
    <3>1. current.size > 0 => Elements(Append(parts, current)) = Elements(parts) \union {current}
      BY <1>1, AppendElement DEF TypeOK
    <3>2. current.size > 0 => Made = Append(parts, current)
      BY DEF Made
    <3>3. ~(current.size > 0)
      BY <1>1, <3>1, <3>2, EmptyElements
    <3> QED
      BY <1>1, <3>3 DEF Made
  <2>4. current.size = 0
    BY <1>1, <2>3 DEF TypeOK
  <2> QED
    BY <2>1, <2>3, <2>4 DEF MarkInv
<1>3. Elements(plan') = {}
  BY <1>1, EmptyElements
<1> QED
  BY <1>1, <1>2, <1>3, OneGroup, FreshText

LEMMA NoMessages ==
    ASSUME TypeOK, MarkInv, Made = <<>>
    PROVE  parts = <<>> /\ current.text = <<>>
<1>1. current.size > 0 => Elements(Append(parts, current)) = Elements(parts) \union {current}
  BY AppendElement DEF TypeOK
<1>2. current.size > 0 => Made = Append(parts, current)
  BY DEF Made
<1>3. ~(current.size > 0)
  BY <1>1, <1>2, EmptyElements
<1>4. parts = <<>> /\ current.size = 0
  BY <1>3 DEF Made, TypeOK
<1> QED
  BY <1>4 DEF MarkInv

LEMMA SendSourceText == ASSUME IInv, MarkInv, TextInv, SendSource, IInv', MarkInv' PROVE TextInv'
<1>1. /\ TypeOK /\ pc' = "split" /\ Made = <<>> /\ groups' = <<<<0>>>> /\ tokens' = Places(0)
      /\ blocks = <<>> /\ UNCHANGED <<document, blocks, parts, current, plan>>
  BY DEF SendSource, Unsaid, IInv, PlanInv
<1>2. parts = <<>> /\ current.text = <<>>
  BY <1>1, NoMessages
<1>3. \A group \in Elements(plan') : Text(group.parts) = BlocksText(group.blocks) /\ group.parts # <<>>
  BY <1>1 DEF TextInv
<1> QED
  BY <1>1, <1>2, <1>3, FreshText DEF SourceOnly

LEMMA InitText == ASSUME Init, IInv, MarkInv PROVE TextInv
<1>1. parts = <<>> /\ current = Empty /\ plan = <<>> /\ document \in Documents /\ pc # "done"
  BY DEF Init
<1>2. Elements(plan) = {} /\ current.text = <<>> /\ Text(<<>>) = <<>> /\ <<>> \in Seq(Place)
  BY <1>1, EmptyElements, EmptyIs, NoText, EmptySeq
<1>3. Said = <<>> /\ TextOf(tokens) \in Seq(Place) /\ BlocksText(blocks) \in Seq(Place) /\ Unplaced \in Seq(Place)
  BY <1>1, <1>2, CatEmpty, TextTypes DEF Said
<1>4. Cat(Said, Unplaced) = Unplaced
  BY <1>3, CatEmpty
<1>5. groups # <<>> => Unplaced = BlocksText(Head(groups))
  <2>1. CASE groups = <<>>
    BY <2>1
  <2>2. CASE tokens = <<>> /\ groups = <<Whole(document)>> /\ blocks = Whole(document)
    <3>1. Unplaced = BlocksText(blocks)
      BY <1>3, <2>2, TextEmpty, CatEmpty DEF Unplaced
    <3> QED
      BY <2>2, <3>1, OneGroup
  <2>3. CASE tokens = Places(0) /\ groups = <<<<0>>>> /\ blocks = <<>>
    <3>1. 0 \in BlockNo
      BY <1>1, BlocksOf DEF BlockNo
    <3>2. BlocksText(<<0>>) = TextOf(Places(0)) /\ BlocksText(<<>>) = <<>>
      BY <1>1, <3>1, BlocksTextFacts
    <3>3. Unplaced = TextOf(Places(0))
      BY <1>3, <2>3, <3>2, CatEmpty DEF Unplaced
    <3> QED
      BY <2>3, <3>2, <3>3, OneGroup
  <2> QED
    BY <2>1, <2>2, <2>3 DEF Init
<1> QED
  BY <1>1, <1>2, <1>4, <1>5 DEF TextInv

LEMMA StillText == ASSUME TextInv, UNCHANGED vars PROVE TextInv'
<1>1. /\ document' = document /\ groups' = groups /\ blocks' = blocks /\ tokens' = tokens
      /\ parts' = parts /\ current' = current /\ plan' = plan /\ pc' = pc
  BY DEF vars
<1>2. Said' = Said /\ Unplaced' = Unplaced
  BY <1>1, SameText DEF Said, Unplaced, Text
<1>3. BlocksText(Head(groups))' = BlocksText(Head(groups))
  BY <1>1, SameText
<1>4. \A group \in Elements(plan') : Text(group.parts)' = BlocksText(group.blocks)' /\ group.parts # <<>>
  BY <1>1, SameText DEF TextInv, Text
<1> QED
  BY <1>1, <1>2, <1>3, <1>4 DEF TextInv, Packing

LEMMA StepText == ASSUME IInv, MarkInv, TextInv, [Next]_vars, IInv', MarkInv' PROVE TextInv'
BY PackText, PlaceBlockText, OpenTagText, CloseTagText, UnitText, CharacterText, EndSplitText,
   EndGroupText, GiveUpText, SendSourceText, StillText DEF Next

-----------------------------------------------------------------------------
(* The groups are the blocks of the answer.                                *)

GroupBlocks(p) == [i \in DOMAIN p |-> p[i].blocks]
Grouped == Cat(FlattenSeq(GroupBlocks(plan)), FlattenSeq(groups))

GroupInv ==
    /\ GroupBlocks(plan) \in Seq(Seq(Nat))
    /\ mode # "source" /\ ~Packing => Grouped = Whole(document)
    /\ pc = "cut" => FlattenSeq(groups) = Interval(1, start - 1)

LEMMA IntervalCat ==
    ASSUME NEW s \in Nat \ {0}, NEW e \in Nat, s <= e
    PROVE  Cat(Interval(1, s - 1), Interval(s, e)) = Interval(1, e)
<1> DEFINE a == Interval(1, s - 1)
           b == Interval(s, e)
           c == Interval(1, e)
<1>1. a \in Seq(Nat) /\ Len(a) = s - 1 /\ \A i \in 1 .. s - 1 : a[i] = i
  BY DEF Interval
<1>2. b \in Seq(Nat) /\ Len(b) = e - s + 1 /\ \A i \in 1 .. e - s + 1 : b[i] = s + i - 1
  BY DEF Interval
<1>3. c \in Seq(Nat) /\ Len(c) = e /\ \A i \in 1 .. e : c[i] = i
  BY DEF Interval
<1> HIDE DEF a, b, c
<1>4. /\ Cat(a, b) \in Seq(Nat) /\ Len(Cat(a, b)) = Len(a) + Len(b)
      /\ \A i \in 1 .. Len(a) + Len(b) : Cat(a, b)[i] = IF i <= Len(a) THEN a[i] ELSE b[i - Len(a)]
  BY <1>1, <1>2, CatFacts
<1>5. Len(Cat(a, b)) = Len(c)
  BY <1>1, <1>2, <1>3, <1>4
<1>6. ASSUME NEW i \in 1 .. Len(c)  PROVE Cat(a, b)[i] = c[i]
  <2>1. i \in 1 .. e /\ c[i] = i /\ i \in 1 .. Len(a) + Len(b)
    BY <1>1, <1>2, <1>3
  <2>2. CASE i <= s - 1
    <3>1. i \in 1 .. s - 1 /\ i <= Len(a)
      BY <1>1, <2>1, <2>2
    <3> QED
      BY <1>1, <1>4, <2>1, <3>1
  <2>3. CASE ~(i <= s - 1)
    <3>1. i - (s - 1) \in 1 .. e - s + 1 /\ ~(i <= Len(a)) /\ s + (i - (s - 1)) - 1 = i
      BY <1>1, <2>1, <2>3
    <3>2. Cat(a, b)[i] = b[i - (s - 1)]
      BY <1>1, <1>4, <2>1, <3>1
    <3>3. b[i - (s - 1)] = s + (i - (s - 1)) - 1
      BY <1>2, <3>1
    <3> QED
      BY <2>1, <3>1, <3>2, <3>3
  <2> QED
    BY <2>2, <2>3
<1>7. Cat(a, b) = c
  BY ONLY <1>3, <1>4, <1>5, <1>6, SeqEqual
<1> QED
  BY <1>7 DEF a, b, c

LEMMA IntervalNone == Interval(1, 0) = <<>>
BY DEF Interval

LEMMA GroupTypes ==
    ASSUME IInv, mode # "source"
    PROVE  /\ groups \in Seq(Seq(Nat)) /\ FlattenSeq(groups) \in Seq(Nat)
           /\ document \in Documents /\ Whole(document) \in Seq(Nat)
<1>1. TypeOK
  BY DEF IInv, PlanInv
<1>2. document \in Documents /\ DOMAIN document.blocks \subseteq Nat
  <2>1. DOMAIN document.blocks = 1 .. Len(document.blocks) /\ Len(document.blocks) \in Nat
    BY <1>1, BlocksOf DEF TypeOK
  <2> QED
    BY <1>1, <2>1 DEF TypeOK
<1>3. groups \in Seq(Seq(DOMAIN document.blocks)) /\ Whole(document) \in Seq(DOMAIN document.blocks)
  BY <1>1, <1>2, WholeType DEF TypeOK
<1>4. Seq(DOMAIN document.blocks) \subseteq Seq(Nat)
  BY <1>2, SeqMonotonic
<1>5. groups \in Seq(Seq(Nat))
  BY <1>3, <1>4, SeqMonotonic
<1> QED
  BY <1>2, <1>3, <1>4, <1>5, FlattenType

LEMMA NoGroups == GroupBlocks(<<>>) = <<>> /\ FlattenSeq(<<>>) = <<>> /\ <<>> \in Seq(Seq(Nat)) /\ <<>> \in Seq(Nat)
BY FlattenEmpty, EmptySeq DEF GroupBlocks

\* Nothing is planned, and all the blocks are one group.
LEMMA OneWhole ==
    ASSUME document \in Documents, plan = <<>>, groups = <<Whole(document)>>, pc # "cut"
    PROVE  GroupInv
<1>1. Whole(document) \in Seq(Nat)
  <2>1. DOMAIN document.blocks = 1 .. Len(document.blocks) /\ Len(document.blocks) \in Nat
    BY BlocksOf
  <2>2. DOMAIN document.blocks \subseteq Nat
    BY <2>1
  <2> QED
    BY <2>2, WholeType, SeqMonotonic
<1>2. FlattenSeq(groups) = Whole(document)
  BY <1>1, FlattenOne
<1> QED
  BY <1>1, <1>2, NoGroups, CatEmpty DEF GroupInv, Grouped

LEMMA OneWholeNext ==
    (document \in Documents /\ plan = <<>> /\ groups = <<Whole(document)>> /\ pc # "cut")' => GroupInv'
<1>1. document \in Documents /\ plan = <<>> /\ groups = <<Whole(document)>> /\ pc # "cut" => GroupInv
  BY OneWhole
<1> QED
  BY <1>1, PTL

LEMMA InitGroups == ASSUME Init, IInv PROVE GroupInv
<1>1. document \in Documents /\ plan = <<>> /\ pc # "cut"
  BY DEF Init
<1>2. CASE groups = <<Whole(document)>>
  BY <1>1, <1>2, OneWhole
<1>3. CASE mode = "source" \/ Packing
  BY <1>1, <1>3, NoGroups DEF GroupInv
<1> QED
  BY <1>2, <1>3 DEF Init, Packing

LEMMA PackGroups ==
    ASSUME IInv, GroupInv, IInv', PackAll \/ Pack \/ AllPacked \/ CutGroup \/ AllCut
    PROVE  GroupInv'
<1>1. Packing /\ plan = <<>> /\ plan' = <<>> /\ document' = document /\ document \in Documents
      /\ mode # "source" /\ PackInv
  <2>1. Packing /\ UNCHANGED Placing
    BY DEF PackAll, Pack, AllPacked, CutGroup, AllCut, Packing, Placing
  <2> QED
    BY <2>1, PackingFacts DEF Placing, IInv, PlanInv
<1>2. CASE PackAll
  <2>1. groups' = <<Whole(document)>> /\ pc' = "place"
    BY <1>2 DEF PackAll
  <2> QED
    BY <1>1, <2>1, OneWholeNext
<1>3. CASE Pack
  <2>1. pc' = "pack"
    BY <1>3 DEF Pack
  <2> QED
    BY <1>1, <2>1, NoGroups DEF GroupInv, Packing
<1>4. CASE AllPacked
  <2>1. groups' = <<>> /\ start' = 1 /\ pc' = "cut"
    BY <1>1, <1>4 DEF AllPacked, PackInv
  <2> QED
    BY <1>1, <2>1, NoGroups, IntervalNone DEF GroupInv, Packing
<1>5. CASE CutGroup
  <2> DEFINE e == best[start].end
             group == Interval(start, e)
  <2>1. pc = "cut" /\ pc' = "cut" /\ groups' = Append(groups, group) /\ start' = e + 1
        /\ start <= Len(document.blocks)
    BY <1>5 DEF CutGroup
  <2>2. Len(document.blocks) \in Nat /\ start \in 1 .. Len(document.blocks)
        /\ e \in start .. Len(document.blocks)
    BY <1>1, <2>1, BlocksOf DEF PackInv
  <2>3. start \in Nat \ {0} /\ e \in Nat /\ start <= e
    BY <2>2
  <2>4. group \in Seq(Nat)
    BY <2>3 DEF Interval
  <2>5. groups \in Seq(Seq(Nat)) /\ FlattenSeq(groups) = Interval(1, start - 1)
    BY <1>1, <2>1, GroupTypes DEF GroupInv
  <2> HIDE DEF group
  <2>6. FlattenSeq(Append(groups, group)) = Cat(FlattenSeq(groups), group)
    BY <2>4, <2>5, FlattenAppend
  <2>7. FlattenSeq(groups') = Interval(1, e)
    BY <2>1, <2>3, <2>5, <2>6, IntervalCat DEF group
  <2>8. start' - 1 = e
    BY <2>1, <2>3
  <2> QED
    BY <1>1, <2>1, <2>7, <2>8, NoGroups DEF GroupInv, Packing
<1>6. CASE AllCut
  <2>1. pc = "cut" /\ pc' = "place" /\ groups' = groups /\ start > Len(document.blocks)
    BY <1>6 DEF AllCut
  <2>2. start - 1 = Len(document.blocks)
    BY <1>1, <2>1, BlocksOf DEF PackInv
  <2>3. FlattenSeq(groups) = Whole(document) /\ FlattenSeq(groups) \in Seq(Nat)
    BY <1>1, <2>1, <2>2, GroupTypes DEF GroupInv, Whole
  <2> QED
    BY <1>1, <2>1, <2>3, NoGroups, CatEmpty DEF GroupInv, Grouped
<1> QED
  BY <1>2, <1>3, <1>4, <1>5, <1>6

LEMMA EndGroupGroups == ASSUME IInv, GroupInv, EndGroup PROVE GroupInv'
<1> DEFINE planned == [blocks |-> Head(groups), parts |-> Made]
           B == GroupBlocks(plan)
<1>1. /\ TypeOK /\ pc = "place" /\ document' = document /\ mode' = mode
      /\ plan' = Append(plan, planned) /\ Made # <<>> /\ groups' = Tail(groups)
      /\ pc' \in {"place", "done"} /\ groups # <<>> /\ ~Packing /\ pc' # "cut"
  BY DEF EndGroup, IInv, PlanInv, StackInv, Packing
<1>2. Head(groups) \in Seq(Nat)
  <2>1. CASE mode = "source"
    <3>1. groups = <<<<0>>>>
      BY <1>1, <2>1 DEF TypeOK
    <3> QED
      BY <3>1
  <2>2. CASE mode # "source"
    BY <1>1, <2>2, GroupTypes, FlattenTail
  <2> QED
    BY <2>1, <2>2
<1>3. GroupBlocks(plan') = Append(B, Head(groups)) /\ B \in Seq(Seq(Nat))
  <2>1. planned.blocks = Head(groups) /\ plan \in Seq(Elements(plan)) /\ B \in Seq(Seq(Nat))
    BY <1>1 DEF TypeOK, GroupInv
  <2> HIDE DEF planned
  <2>2. /\ Len(plan) \in Nat /\ DOMAIN plan = 1 .. Len(plan) /\ DOMAIN plan' = 1 .. Len(plan) + 1
        /\ \A i \in 1 .. Len(plan) + 1 : plan'[i] = IF i <= Len(plan) THEN plan[i] ELSE planned
    <3>1. plan \in Seq(Elements(plan) \union {planned}) /\ planned \in Elements(plan) \union {planned}
      BY <2>1, SeqMonotonic
    <3>2. /\ Append(plan, planned) \in Seq(Elements(plan) \union {planned})
          /\ Len(Append(plan, planned)) = Len(plan) + 1 /\ Len(plan) \in Nat
          /\ \A i \in 1 .. Len(plan) + 1 :
                Append(plan, planned)[i] = IF i <= Len(plan) THEN plan[i] ELSE planned
      BY <3>1, AppendProperties
    <3> QED
      BY <1>1, <3>1, <3>2
  <2>3. Len(B) = Len(plan) /\ \A i \in 1 .. Len(plan) : B[i] = plan[i].blocks
    BY <2>1, <2>2 DEF GroupBlocks
  <2> DEFINE C == GroupBlocks(plan')
  <2>4. DOMAIN C = 1 .. Len(plan) + 1 /\ C = [i \in DOMAIN C |-> C[i]]
        /\ \A i \in DOMAIN C : C[i] = plan'[i].blocks
    BY <2>2 DEF GroupBlocks
  <2> HIDE DEF B, C
  <2>5. \A i \in 1 .. Len(plan) + 1 : C[i] = IF i <= Len(plan) THEN B[i] ELSE Head(groups)
    <3> SUFFICES ASSUME NEW i \in 1 .. Len(plan) + 1
                 PROVE  C[i] = IF i <= Len(plan) THEN B[i] ELSE Head(groups)
      OBVIOUS
    <3>1. C[i] = plan'[i].blocks /\ i \in Nat
      BY <2>2, <2>4
    <3>2. CASE i <= Len(plan)
      <4>1. i \in 1 .. Len(plan)
        BY <2>2, <3>1, <3>2
      <4> QED
        BY <2>2, <2>3, <3>1, <3>2, <4>1
    <3>3. CASE ~(i <= Len(plan))
      <4>1. plan'[i] = planned
        BY <2>2, <3>3
      <4> QED
        BY <2>1, <3>1, <3>3, <4>1
    <3> QED
      BY <3>2, <3>3
  <2>6. /\ Append(B, Head(groups)) \in Seq(Seq(Nat)) /\ Len(Append(B, Head(groups))) = Len(plan) + 1
        /\ \A i \in 1 .. Len(plan) + 1 :
               Append(B, Head(groups))[i] = IF i <= Len(plan) THEN B[i] ELSE Head(groups)
    BY <1>2, <2>1, <2>2, <2>3, AppendProperties
  <2>7. C \in Seq(Seq(Nat)) /\ Len(C) = Len(plan) + 1
    <3>1. \A i \in 1 .. Len(plan) + 1 : C[i] \in Seq(Nat)
      <4>1. \A i \in 1 .. Len(plan) + 1 : Append(B, Head(groups))[i] \in Seq(Nat)
        BY <2>2, <2>6, ElementOfSeq
      <4> QED
        BY <2>5, <2>6, <4>1
    <3> QED
      BY <2>2, <2>4, <3>1
  <2>8. C = Append(B, Head(groups))
    BY <2>5, <2>6, <2>7, SeqEqual
  <2> QED
    BY <2>1, <2>8 DEF B, C
<1>4. GroupBlocks(plan') \in Seq(Seq(Nat))
  <2> HIDE DEF B, planned
  <2> QED
    BY <1>2, <1>3
<1>5. mode # "source" => Grouped' = Whole(document)
  <2> SUFFICES ASSUME mode # "source"  PROVE Grouped' = Whole(document)
    OBVIOUS
  <2> HIDE DEF planned, B
  <2>1. /\ groups \in Seq(Seq(Nat)) /\ groups[1] = Head(groups)
        /\ Tail(groups) \in Seq(Seq(Nat)) /\ FlattenSeq(groups) = Cat(groups[1], FlattenSeq(Tail(groups)))
    BY <1>1, GroupTypes, FlattenTail
  <2>2. FlattenSeq(GroupBlocks(plan')) = Cat(FlattenSeq(B), Head(groups))
    BY <1>2, <1>3, FlattenAppend
  <2>3. FlattenSeq(B) \in Seq(Nat) /\ FlattenSeq(Tail(groups)) \in Seq(Nat)
    BY <1>3, <2>1, FlattenType
  <2>4. Cat(Cat(FlattenSeq(B), Head(groups)), FlattenSeq(Tail(groups)))
           = Cat(FlattenSeq(B), Cat(Head(groups), FlattenSeq(Tail(groups))))
    BY <1>2, <2>3, CatAssociative
  <2>5. Grouped' = Cat(FlattenSeq(GroupBlocks(plan')), FlattenSeq(Tail(groups)))
    BY <1>1 DEF Grouped, GroupBlocks
  <2>6. Grouped = Cat(FlattenSeq(B), FlattenSeq(groups)) /\ Grouped = Whole(document)
    BY <1>1 DEF Grouped, B, GroupInv
  <2> QED
    BY <2>1, <2>2, <2>4, <2>5, <2>6
<1> QED
  BY <1>1, <1>4, <1>5 DEF GroupInv, GroupBlocks, Whole, Interval

LEMMA GiveUpGroups == ASSUME IInv, GroupInv, GiveUpRich PROVE GroupInv'
<1>1. document \in Documents /\ document' = document /\ plan' = <<>>
      /\ groups' = <<Whole(document)>> /\ pc' # "cut"
  BY DEF GiveUpRich, IInv, PlanInv, TypeOK
<1> QED
  BY <1>1, OneWholeNext

LEMMA OtherGroups ==
    ASSUME IInv, GroupInv,
           \/ PlaceBlock \/ OpenTag \/ CloseTag \/ Unit \/ Character \/ EndSplit \/ SendSource
           \/ UNCHANGED vars
    PROVE  GroupInv'
<1>1. CASE PlaceBlock \/ OpenTag \/ CloseTag \/ Unit \/ Character \/ EndSplit
  <2>1. document' = document /\ mode' = mode /\ groups' = groups /\ plan' = plan
        /\ ~Packing /\ pc' # "cut"
    BY <1>1 DEF PlaceBlock, OpenTag, CloseTag, Unit, Character, EndSplit, Rest, Reads, Packing
  <2> QED
    BY <2>1 DEF GroupInv, Grouped, GroupBlocks, Whole
<1>2. CASE SendSource
  <2>1. mode' = "source" /\ plan' = plan /\ pc' = "split"
    BY <1>2 DEF SendSource
  <2> QED
    BY <2>1 DEF GroupInv, GroupBlocks
<1>3. CASE UNCHANGED vars
  BY <1>3 DEF GroupInv, Grouped, GroupBlocks, Whole, Packing, vars
<1> QED
  BY <1>1, <1>2, <1>3

LEMMA StepGroups == ASSUME IInv, GroupInv, [Next]_vars, IInv' PROVE GroupInv'
BY PackGroups, EndGroupGroups, GiveUpGroups, OtherGroups DEF Next

LEMMA TextsInvariance == Spec => [](IInv /\ MarkInv /\ TextInv /\ GroupInv)
<1>1. Init => IInv /\ MarkInv /\ TextInv /\ GroupInv
  BY InitHolds, InitMarks, InitText, InitGroups
<1>2. IInv /\ MarkInv /\ TextInv /\ GroupInv /\ [Next]_vars => IInv' /\ MarkInv' /\ TextInv' /\ GroupInv'
  BY StepHolds, StepMarks, StepText, StepGroups
<1> QED
  BY <1>1, <1>2, PTL DEF Spec

LEMMA TextsSaid == IInv /\ MarkInv /\ TextInv /\ GroupInv => NothingLost
<1> SUFFICES ASSUME IInv, MarkInv, TextInv, GroupInv  PROVE NothingLost
  OBVIOUS
<1>1. \A i \in DOMAIN plan : Text(plan[i].parts) = BlocksText(plan[i].blocks) /\ plan[i].parts # <<>>
  BY DEF TextInv, Elements
<1>2. groups # <<>> /\ ~Packing =>
          Text(Append(parts, current)) \o TextOf(tokens) \o BlocksText(blocks) = BlocksText(Head(groups))
  <2> SUFFICES ASSUME groups # <<>>, ~Packing
               PROVE  Cat(Cat(Text(Append(parts, current)), TextOf(tokens)), BlocksText(blocks))
                         = BlocksText(Head(groups))
    BY Zenon DEF Cat
  <2>1. Text(Append(parts, current)) = Said
    <3>1. parts \in Seq(Message) /\ current \in Message
      BY ShutMessages DEF MarkInv
    <3> QED
      BY <3>1, TextAppend DEF Said
  <2>2. Said \in Seq(Place) /\ TextOf(tokens) \in Seq(Place) /\ BlocksText(blocks) \in Seq(Place)
    BY TextTypes
  <2>3. Cat(Cat(Said, TextOf(tokens)), BlocksText(blocks)) = Cat(Said, Cat(TextOf(tokens), BlocksText(blocks)))
    BY <2>2, CatAssociative
  <2> QED
    BY <2>1, <2>3 DEF TextInv, Unplaced
<1>3. mode # "source" /\ ~Packing => FlattenSeq([i \in DOMAIN plan |-> plan[i].blocks])
                            \o FlattenSeq(groups) = Whole(document)
  BY Zenon DEF GroupInv, Grouped, GroupBlocks, Cat
<1>4. pc = "done" => plan # <<>>
  BY DEF TextInv
<1> QED
  BY ONLY <1>1, <1>2, <1>3, <1>4, Zenon DEF NothingLost

\* The messages of every group of blocks hold its text, in its order, nothing twice and
\* nothing left out, and the groups are the blocks of the answer, in every state of the plan,
\* for every answer and every budget (html_plan, split_html_message, semantic_split).
THEOREM NothingIsLost == Spec => []NothingLost
<1>1. IInv /\ MarkInv /\ TextInv /\ GroupInv => NothingLost
  BY TextsSaid
<1> QED
  BY <1>1, TextsInvariance, PTL

-----------------------------------------------------------------------------
(* Words lie in one message.                                               *)

Same(p, q) == p.block = q.block /\ p.token = q.token
Distinct(ps) == \A i, j \in DOMAIN ps : Same(ps[i], ps[j]) => i = j
NoTwice(bs) == \A i, j \in DOMAIN bs : bs[i] = bs[j] => i = j

\* A message begins inside of a unit only if that does not fit one; and one that begins with
\* a unit does not follow another part of it.
Wrapped(m) == m.text # <<>> /\ m.text[1].char > 1 => TokenAt(m.text[1]).width + m.around > MaxPart
Apart(m, k) == m.text # <<>> /\ k.text # <<>> /\ k.text[1].char = 1 => ~Same(m.text[Len(m.text)], k.text[1])

Written == Elements(current.text) \union UNION {Elements(m.text) : m \in Elements(parts)}

CutInv ==
    /\ \A m \in Elements(parts) : Wrapped(m)
    /\ Wrapped(current)
    /\ \A i \in DOMAIN parts : i + 1 \in DOMAIN parts => Apart(parts[i], parts[i + 1])
    /\ parts # <<>> => Apart(parts[Len(parts)], current)

\* What is still to be placed is not in a message yet, but for the rest of a unit.
AheadInv ==
    /\ Distinct(tokens)
    /\ \A i \in DOMAIN tokens : (i > 1 => tokens[i].char = 1) /\ tokens[i].block \notin Elements(blocks)
    /\ \A p \in Written : /\ p.block # -1 /\ p.block \notin Elements(blocks)
                          /\ \A j \in DOMAIN tokens : Same(p, tokens[j]) => j = 1 /\ tokens[1].char > 1
    /\ tokens # <<>> /\ tokens[1].char > 1 =>
          ~FitsNext(TokenAt(tokens[1])) /\ (tokens[1].block = -1 \/ current.text # <<>>)
    /\ NoTwice(blocks) /\ \A group \in Elements(groups) : NoTwice(group)

LEMMA CatElements ==
    ASSUME NEW S, NEW s \in Seq(S), NEW t \in Seq(S)
    PROVE  /\ Elements(Cat(s, t)) \subseteq Elements(s) \union Elements(t)
           /\ s # <<>> => Cat(s, t) # <<>> /\ Cat(s, t)[1] = s[1]
<1>1. /\ Cat(s, t) \in Seq(S) /\ Len(Cat(s, t)) = Len(s) + Len(t) /\ Len(s) \in Nat /\ Len(t) \in Nat
      /\ \A i \in 1 .. Len(s) + Len(t) : Cat(s, t)[i] = IF i <= Len(s) THEN s[i] ELSE t[i - Len(s)]
  BY CatFacts, LenProperties
<1> DEFINE u == Cat(s, t)
<1>2. /\ DOMAIN u = 1 .. Len(s) + Len(t) /\ DOMAIN s = 1 .. Len(s) /\ DOMAIN t = 1 .. Len(t)
      /\ u \in Seq(S) /\ Len(u) = Len(s) + Len(t)
      /\ \A i \in 1 .. Len(s) + Len(t) : u[i] = IF i <= Len(s) THEN s[i] ELSE t[i - Len(s)]
  BY <1>1
<1> HIDE DEF u
<1>3. ASSUME NEW i \in DOMAIN u  PROVE u[i] \in Elements(s) \union Elements(t)
  <2>1. i \in 1 .. Len(s) + Len(t) /\ i \in Nat
    BY <1>1, <1>2, <1>3
  <2>2. CASE i <= Len(s)
    <3>1. i \in DOMAIN s /\ u[i] = s[i]
      BY <1>1, <1>2, <2>1, <2>2
    <3> QED
      BY <3>1 DEF Elements
  <2>3. CASE ~(i <= Len(s))
    <3>1. i - Len(s) \in DOMAIN t /\ u[i] = t[i - Len(s)]
      BY <1>1, <1>2, <2>1, <2>3
    <3> QED
      BY <3>1 DEF Elements
  <2> QED
    BY <2>2, <2>3
<1>4. ASSUME s # <<>>  PROVE u # <<>> /\ u[1] = s[1]
  <2>1. Len(s) >= 1 /\ 1 \in 1 .. Len(s) + Len(t)
    BY <1>1, <1>4
  <2> QED
    BY <1>1, <1>2, <2>1
<1> QED
  BY <1>3, <1>4 DEF u, Elements

LEMMA TailElements ==
    ASSUME NEW S, NEW s \in Seq(S), s # <<>>
    PROVE  /\ Elements(Tail(s)) \subseteq Elements(s) /\ s[1] \in Elements(s) /\ Tail(s) \in Seq(S)
           /\ NoTwice(s) => NoTwice(Tail(s)) /\ s[1] \notin Elements(Tail(s))
           /\ \A i \in DOMAIN Tail(s) : i + 1 \in DOMAIN s /\ i \in Nat \ {0} /\ Tail(s)[i] = s[i + 1]
<1>1. /\ Tail(s) \in Seq(S) /\ Len(Tail(s)) = Len(s) - 1 /\ Len(s) \in Nat /\ Len(s) >= 1
      /\ \A i \in 1 .. Len(Tail(s)) : Tail(s)[i] = s[i + 1]
  BY HeadTailProperties
<1> DEFINE t == Tail(s)
<1>2. /\ t \in Seq(S) /\ Len(t) = Len(s) - 1 /\ DOMAIN t = 1 .. Len(t) /\ DOMAIN s = 1 .. Len(s)
      /\ \A i \in 1 .. Len(t) : t[i] = s[i + 1]
  BY <1>1
<1> HIDE DEF t
<1>3. \A i \in DOMAIN t : i + 1 \in DOMAIN s /\ i \in Nat \ {0} /\ t[i] = s[i + 1]
  BY <1>1, <1>2
<1>4. 1 \in DOMAIN s
  BY <1>1, <1>2
<1>5. Elements(t) \subseteq Elements(s) /\ s[1] \in Elements(s)
  BY <1>3, <1>4 DEF Elements
<1>6. ASSUME NoTwice(s)  PROVE NoTwice(t) /\ s[1] \notin Elements(t)
  <2>1. ASSUME NEW i \in DOMAIN t, NEW j \in DOMAIN t, t[i] = t[j]  PROVE i = j
    <3>1. i + 1 \in DOMAIN s /\ j + 1 \in DOMAIN s /\ s[i + 1] = s[j + 1] /\ i \in Nat /\ j \in Nat
      BY <1>3, <2>1
    <3>2. i + 1 = j + 1
      BY <1>6, <3>1 DEF NoTwice
    <3> QED
      BY <3>1, <3>2
  <2>2. ASSUME NEW i \in DOMAIN t, t[i] = s[1]  PROVE FALSE
    <3>1. i + 1 \in DOMAIN s /\ s[i + 1] = s[1] /\ i \in Nat \ {0}
      BY <1>3, <2>2
    <3>2. i + 1 = 1
      BY <1>4, <1>6, <3>1 DEF NoTwice
    <3> QED
      BY <3>1, <3>2
  <2> QED
    BY <2>1, <2>2 DEF NoTwice, Elements
<1> QED
  BY <1>2, <1>3, <1>5, <1>6 DEF t

LEMMA LastElement ==
    ASSUME NEW S, NEW s \in Seq(S), s # <<>>
    PROVE  s[Len(s)] \in Elements(s) /\ Len(s) \in DOMAIN s
<1>1. Len(s) \in DOMAIN s
  OBVIOUS
<1> QED
  BY <1>1 DEF Elements

\* The characters of a piece, and the text of blocks, are those of its pieces.
LEMMA CharsOf ==
    ASSUME document \in Documents, NEW p \in RealPlace
    PROVE  /\ \A q \in Elements(CharsFrom(p)) : Same(q, p) /\ q.block # -1
           /\ CharsFrom(p) # <<>> => CharsFrom(p)[1].char = p.char
<1>1. p \in Place /\ p.char \in Nat \ {0} /\ TokenAt(p) \in Token
  BY CharsType DEF RealPlace, Place
<1>2. CASE p.block = -1
  <2>1. CharsFrom(p) = <<>>
    BY <1>2 DEF CharsFrom
  <2> QED
    BY <2>1, EmptyElements
<1>3. CASE p.block # -1
  <2> DEFINE n == Len(TokenAt(p).chars) + 1 - p.char
  <2>1. CharsFrom(p) = [i \in 1 .. n |-> [p EXCEPT !.char = p.char + i - 1]]
    BY <1>3 DEF CharsFrom
  <2>2. n \in Int
    BY <1>1 DEF Token
  <2> HIDE DEF n
  <2>3. ASSUME NEW i \in 1 .. n
        PROVE  LET q == [p EXCEPT !.char = p.char + i - 1]
               IN  Same(q, p) /\ q.block # -1 /\ q.char = p.char + i - 1
    BY <1>1, <1>3 DEF Same, Place
  <2>4. CASE 1 \in 1 .. n
    <3>1. CharsFrom(p)[1].char = p.char + 1 - 1
      BY <2>1, <2>3, <2>4
    <3>2. ASSUME NEW q \in Elements(CharsFrom(p))  PROVE Same(q, p) /\ q.block # -1
      <4>1. PICK i \in 1 .. n : q = [p EXCEPT !.char = p.char + i - 1]
        BY <2>1, <3>2 DEF Elements
      <4> QED
        BY <2>3, <4>1
    <3> QED
      BY <1>1, <3>1, <3>2
  <2>5. CASE 1 \notin 1 .. n
    <3>1. 1 .. n = {}
      BY <2>2, <2>5
    <3>2. CharsFrom(p) = <<>>
      BY <2>1, <3>1
    <3> QED
      BY <3>2, EmptyElements
  <2> QED
    BY <2>4, <2>5
<1> QED
  BY <1>2, <1>3

LEMMA TextInOf ==
    ASSUME document \in Documents, NEW b \in BlockNo
    PROVE  /\ \A k \in 1 .. Len(TextOf(Places(b))) : TextOf(Places(b))[k].block = b /\ b # -1
           /\ TextOf(Places(b)) # <<>> => TextOf(Places(b))[1].char = 1
<1> DEFINE ps == Places(b)
           text == FlatMap(Chars, ps)
<1>1. /\ ps \in Seq(RealPlace) /\ Len(ps) = Len(Html(b)) /\ TextOf(ps) \in Seq(Place)
      /\ \A t \in 1 .. Len(Html(b)) : ps[t] = [block |-> b, token |-> t, char |-> 1]
  BY PlacesReal
<1> HIDE DEF ps
<1>2. TextOf(ps) = text /\ Chars \in Maps(RealPlace, Place)
  BY <1>1, TextOfMap, CharsMaps
<1>3. /\ \A k \in 1 .. Len(text) : \E i \in 1 .. Len(ps) : \E j \in 1 .. Len(Chars[ps[i]]) :
             text[k] = Chars[ps[i]][j]
      /\ text # <<>> => \E i \in 1 .. Len(ps) : 1 \in 1 .. Len(Chars[ps[i]]) /\ text[1] = Chars[ps[i]][1]
  <2>1. Chars \in Maps(RealPlace, Place) /\ ps \in Seq(RealPlace)
    BY <1>1, <1>2
  <2> QED
    BY ONLY <2>1, FlatMapElements
<1>4. ASSUME NEW i \in 1 .. Len(ps), NEW j \in 1 .. Len(Chars[ps[i]])
      PROVE  Chars[ps[i]][j].block = b /\ b # -1 /\ (j = 1 => Chars[ps[i]][j].char = 1)
  <2>1. ps[i] \in RealPlace /\ ps[i].block = b /\ ps[i].char = 1
    <3>1. i \in 1 .. Len(Html(b)) /\ i \in DOMAIN ps
      BY <1>1, <1>4
    <3>2. ps[i] = [block |-> b, token |-> i, char |-> 1]
      BY <1>1, <3>1
    <3>3. ps[i] \in RealPlace
      BY <1>1, <3>1, ElementOfSeq
    <3> QED
      BY <3>2, <3>3
  <2>2. Chars[ps[i]] = CharsFrom(ps[i]) /\ CharsFrom(ps[i]) \in Seq(Place)
    BY <2>1, CharsType DEF Chars
  <2>3. j \in DOMAIN CharsFrom(ps[i]) /\ CharsFrom(ps[i]) # <<>>
    BY <2>2
  <2>4. CharsFrom(ps[i])[j] \in Elements(CharsFrom(ps[i]))
    BY <2>3 DEF Elements
  <2>5. Same(CharsFrom(ps[i])[j], ps[i]) /\ CharsFrom(ps[i])[j].block # -1 /\ CharsFrom(ps[i])[1].char = ps[i].char
    BY <2>1, <2>3, <2>4, CharsOf
  <2> QED
    BY <2>1, <2>2, <2>5 DEF Same
<1> HIDE DEF text
<1>5. ASSUME NEW k \in 1 .. Len(text)  PROVE text[k].block = b /\ b # -1
  <2>1. PICK i \in 1 .. Len(ps) : \E j \in 1 .. Len(Chars[ps[i]]) : text[k] = Chars[ps[i]][j]
    BY <1>3
  <2>2. PICK j \in 1 .. Len(Chars[ps[i]]) : text[k] = Chars[ps[i]][j]
    BY <2>1
  <2> QED
    BY <1>4, <2>2
<1>6. ASSUME text # <<>>  PROVE text[1].char = 1
  <2>1. PICK i \in 1 .. Len(ps) : 1 \in 1 .. Len(Chars[ps[i]]) /\ text[1] = Chars[ps[i]][1]
    BY <1>3, <1>6
  <2> QED
    BY <1>4, <2>1
<1> QED
  BY <1>2, <1>5, <1>6 DEF ps

LEMMA BlocksTextOf ==
    ASSUME document \in Documents, NEW bs \in Seq(BlockNo)
    PROVE  /\ \A q \in Elements(BlocksText(bs)) : q.block # -1 /\ q.block \in Elements(bs)
           /\ BlocksText(bs) # <<>> => BlocksText(bs)[1].char = 1
<1> DEFINE text == FlatMap(TextIn, bs)
<1>1. BlocksText(bs) = text /\ TextIn \in Maps(BlockNo, Place)
  BY BlocksTextMap, TextInMaps
<1>2. /\ \A k \in 1 .. Len(text) : \E i \in 1 .. Len(bs) : \E j \in 1 .. Len(TextIn[bs[i]]) :
             text[k] = TextIn[bs[i]][j]
      /\ text # <<>> => \E i \in 1 .. Len(bs) : 1 \in 1 .. Len(TextIn[bs[i]]) /\ text[1] = TextIn[bs[i]][1]
  <2> DEFINE f == TextIn
             S == BlockNo
             T == Place
  <2>1. f \in Maps(S, T) /\ bs \in Seq(S)
    BY <1>1
  <2> HIDE DEF f, S, T
  <2>2. \A k \in 1 .. Len(FlatMap(f, bs)) : \E i \in 1 .. Len(bs) : \E j \in 1 .. Len(f[bs[i]]) :
             FlatMap(f, bs)[k] = f[bs[i]][j]
    BY <2>1, FlatMapElements
  <2>3. FlatMap(f, bs) # <<>> =>
             \E i \in 1 .. Len(bs) : 1 \in 1 .. Len(f[bs[i]]) /\ FlatMap(f, bs)[1] = f[bs[i]][1]
    BY <2>1, FlatMapElements
  <2> QED
    BY <2>2, <2>3 DEF f
<1>3. ASSUME NEW i \in 1 .. Len(bs), NEW j \in 1 .. Len(TextIn[bs[i]])
      PROVE  /\ TextIn[bs[i]][j].block # -1 /\ TextIn[bs[i]][j].block \in Elements(bs)
             /\ j = 1 => TextIn[bs[i]][j].char = 1
  <2>1. bs[i] \in BlockNo /\ bs[i] \in Elements(bs)
    BY DEF Elements
  <2>2. TextIn[bs[i]] = TextOf(Places(bs[i])) /\ TextOf(Places(bs[i])) \in Seq(Place)
    BY <2>1, PlacesReal DEF TextIn
  <2>3. TextOf(Places(bs[i])) # <<>>
    BY <2>2
  <2> QED
    BY <2>1, <2>2, <2>3, TextInOf
<1>4. text \in Seq(Place)
  BY <1>1, FlatMapType
<1> HIDE DEF text
<1>5. ASSUME NEW k \in DOMAIN text  PROVE text[k].block # -1 /\ text[k].block \in Elements(bs)
  <2>0. k \in 1 .. Len(text)
    BY <1>4, <1>5
  <2>1. PICK i \in 1 .. Len(bs) : \E j \in 1 .. Len(TextIn[bs[i]]) : text[k] = TextIn[bs[i]][j]
    BY <1>2, <2>0
  <2>2. PICK j \in 1 .. Len(TextIn[bs[i]]) : text[k] = TextIn[bs[i]][j]
    BY <2>1
  <2> QED
    BY <1>3, <2>2
<1>6. ASSUME text # <<>>  PROVE text[1].char = 1
  <2>1. PICK i \in 1 .. Len(bs) : 1 \in 1 .. Len(TextIn[bs[i]]) /\ text[1] = TextIn[bs[i]][1]
    BY <1>2, <1>6
  <2> QED
    BY <1>3, <2>1
<1> QED
  BY <1>1, <1>5, <1>6 DEF Elements

LEMMA SameWord == ASSUME document' = document PROVE \A m : Wrapped(m)' <=> Wrapped(m)
<1>1. \A p : TokenAt(p)' = TokenAt(p)
  BY DEF TokenAt, Html
<1> QED
  BY <1>1 DEF Wrapped

LEMMA CutNext ==
    ASSUME document' = document, \A m \in Elements(parts') : Wrapped(m), Wrapped(current'),
           \A i \in DOMAIN parts' : i + 1 \in DOMAIN parts' => Apart(parts'[i], parts'[i + 1]),
           parts' # <<>> => Apart(parts'[Len(parts')], current')
    PROVE  CutInv'
BY SameWord DEF CutInv, Apart, Same

LEMMA WrittenType ==
    ASSUME MarkInv
    PROVE  /\ current \in Message /\ parts \in Seq(Message) /\ Written \subseteq Place
           /\ \A m \in Elements(parts) : m \in Message /\ Elements(m.text) \subseteq Written
           /\ \A m \in Elements(parts) \union {current} : m.text # <<>> => m.text[Len(m.text)] \in Written
<1>1. current \in Message /\ parts \in Seq(Message)
  BY ShutMessages DEF MarkInv
<1>2. \A m \in Elements(parts) : m \in Message /\ Elements(m.text) \subseteq Written
  BY <1>1 DEF Elements, Written
<1>3. \A m \in Elements(parts) \union {current} : m \in Message /\ Elements(m.text) \subseteq Written
  BY <1>1, <1>2 DEF Written
<1>4. ASSUME NEW m \in Elements(parts) \union {current}, m.text # <<>>
      PROVE  m.text[Len(m.text)] \in Written
  <2>1. m.text \in Seq(Place) /\ Elements(m.text) \subseteq Written
    BY <1>3, <1>4, MessageFields
  <2> QED
    BY <1>4, <2>1, LastElement
<1>5. \A m \in Elements(parts) \union {current} : Elements(m.text) \subseteq Place
  <2> SUFFICES ASSUME NEW m \in Elements(parts) \union {current}  PROVE Elements(m.text) \subseteq Place
    OBVIOUS
  <2>1. m.text \in Seq(Place)
    BY <1>3, MessageFields
  <2> QED
    BY <2>1 DEF Elements
<1>6. Written \subseteq Place
  BY <1>5 DEF Written
<1> QED
  BY <1>1, <1>2, <1>4, <1>6

\* Text is added to the message being filled.
LEMMA CutExtended ==
    ASSUME MarkInv, CutInv, document' = document, parts' = parts, NEW text \in Seq(Place),
           current'.text = Cat(current.text, text), current'.around = current.around,
           text # <<>> /\ text[1].char = 1 => \A p \in Written : ~Same(p, text[1]),
           text # <<>> /\ text[1].char > 1 => current.text # <<>>
    PROVE  CutInv' /\ Written' \subseteq Written \union Elements(text)
<1>1. current \in Message /\ parts \in Seq(Message) /\ current.text \in Seq(Place)
  BY WrittenType, MessageFields
<1>2. /\ Elements(current'.text) \subseteq Elements(current.text) \union Elements(text)
      /\ current.text # <<>> => current'.text # <<>> /\ current'.text[1] = current.text[1]
      /\ current.text = <<>> => current'.text = text
  <2>1. current.text = <<>> => Cat(current.text, text) = text
    BY CatEmpty
  <2> QED
    BY <1>1, <2>1, CatElements
<1>3. Wrapped(current')
  <2>1. CASE current.text = <<>>
    BY <1>2, <2>1 DEF Wrapped
  <2>2. CASE current.text # <<>>
    <3>1. Wrapped(current)
      BY DEF CutInv
    <3> QED
      BY <1>2, <2>2, <3>1 DEF Wrapped
  <2> QED
    BY <2>1, <2>2
<1>4. ASSUME parts # <<>>  PROVE Apart(parts[Len(parts)], current')
  <2> DEFINE m == parts[Len(parts)]
  <2>1. m \in Elements(parts) /\ Apart(m, current)
    BY <1>1, <1>4, LastElement DEF CutInv
  <2>2. m.text # <<>> => m.text[Len(m.text)] \in Written
    BY <2>1, WrittenType
  <2> HIDE DEF m
  <2>3. CASE current.text = <<>>
    <3>1. current'.text = text
      BY <1>2, <2>3
    <3>2. m.text # <<>> /\ text # <<>> /\ text[1].char = 1 => ~Same(m.text[Len(m.text)], text[1])
      BY <2>2
    <3> QED
      BY <3>1, <3>2 DEF Apart, m
  <2>4. CASE current.text # <<>>
    <3>1. current'.text # <<>> /\ current'.text[1] = current.text[1]
      BY <1>2, <2>4
    <3>2. m.text # <<>> /\ current.text[1].char = 1 => ~Same(m.text[Len(m.text)], current.text[1])
      BY <2>1, <2>4 DEF Apart
    <3> QED
      BY <3>1, <3>2 DEF Apart, m
  <2> QED
    BY <2>3, <2>4 DEF m
<1>5. Written' \subseteq Written \union Elements(text)
  BY <1>2 DEF Written, Elements
<1>6. /\ \A m \in Elements(parts) : Wrapped(m)
      /\ \A i \in DOMAIN parts : i + 1 \in DOMAIN parts => Apart(parts[i], parts[i + 1])
  BY DEF CutInv
<1> QED
  BY <1>3, <1>4, <1>5, <1>6, CutNext

\* A message is begun.
LEMMA CutBegun ==
    ASSUME TypeOK, MarkInv, CutInv, document' = document, parts' = Flushed, NEW text \in Seq(Place),
           current'.text = text,
           text # <<>> /\ text[1].char = 1 => \A p \in Written : ~Same(p, text[1]),
           text # <<>> /\ text[1].char > 1 => TokenAt(text[1]).width + current'.around > MaxPart
    PROVE  CutInv' /\ Written' \subseteq Written \union Elements(text)
<1>1. current \in Message /\ parts \in Seq(Message) /\ current.text \in Seq(Place) /\ current.size \in Nat
  BY WrittenType, MessageFields
<1>2. Wrapped(current')
  BY DEF Wrapped
<1>3. ASSUME NEW m \in Elements(parts) \union {current}, NEW k, k.text = m.text
      PROVE  Apart(k, current')
  <2>1. m.text # <<>> => m.text[Len(m.text)] \in Written
    BY <1>3, WrittenType
  <2> QED
    BY <1>3, <2>1 DEF Apart
<1>4. /\ \A m \in Elements(parts) : Wrapped(m)
      /\ \A i \in DOMAIN parts : i + 1 \in DOMAIN parts => Apart(parts[i], parts[i + 1])
      /\ parts # <<>> => Apart(parts[Len(parts)], current) /\ parts[Len(parts)] \in Elements(parts)
      /\ Wrapped(current)
  BY <1>1, LastElement DEF CutInv
<1>5. CASE current.size > 0
  <2> DEFINE closed == Closed(current)
  <2>1. closed.text = current.text /\ closed.around = current.around /\ closed \in Message
    BY <1>1, ClosedIs DEF MarkInv, Shut
  <2>2. parts' = Append(parts, closed)
    BY <1>5 DEF Flushed
  <2> HIDE DEF closed
  <2>3. /\ Len(parts) \in Nat /\ DOMAIN parts = 1 .. Len(parts) /\ DOMAIN parts' = 1 .. Len(parts) + 1
        /\ Len(parts') = Len(parts) + 1
        /\ \A i \in 1 .. Len(parts) : parts'[i] = parts[i]
        /\ parts'[Len(parts')] = closed
    BY <1>1, <2>1, <2>2
  <2>4. parts \in Seq(Elements(parts))
    BY <1>1 DEF Elements
  <2>5. Elements(parts') = Elements(parts) \union {closed}
    BY <2>2, <2>4, AppendElement
  <2>6. Wrapped(closed)
    BY <1>4, <2>1 DEF Wrapped
  <2>7. \A m \in Elements(parts') : Wrapped(m)
    BY <1>4, <2>5, <2>6
  <2>8. ASSUME NEW i \in DOMAIN parts', i + 1 \in DOMAIN parts'
        PROVE  Apart(parts'[i], parts'[i + 1])
    <3>1. i \in DOMAIN parts /\ i \in Nat /\ parts'[i] = parts[i]
      BY <2>3, <2>8
    <3>2. CASE i + 1 \in DOMAIN parts
      <4>1. parts'[i + 1] = parts[i + 1]
        BY <2>3, <3>2
      <4> QED
        BY <1>4, <3>1, <3>2, <4>1
    <3>3. CASE i + 1 \notin DOMAIN parts
      <4>1. i = Len(parts) /\ i + 1 = Len(parts') /\ parts # <<>>
        BY <2>3, <2>8, <3>1, <3>3
      <4>2. Apart(parts[i], current)
        BY <1>4, <4>1
      <4>3. parts'[i + 1] = closed
        BY <2>3, <4>1
      <4> QED
        BY <2>1, <3>1, <4>2, <4>3 DEF Apart
    <3> QED
      BY <3>2, <3>3
  <2>9. Apart(parts'[Len(parts')], current')
    BY <1>3, <2>1, <2>3
  <2>10. Written' \subseteq Written \union Elements(text)
    BY <2>1, <2>5 DEF Written
  <2> QED
    BY <1>2, <2>7, <2>8, <2>9, <2>10, CutNext
<1>6. CASE ~(current.size > 0)
  <2>1. parts' = parts
    BY <1>6 DEF Flushed
  <2>2. parts # <<>> => Apart(parts[Len(parts)], current')
    BY <1>3, <1>4
  <2>3. Written' \subseteq Written \union Elements(text)
    BY <2>1 DEF Written
  <2> QED
    BY <1>2, <1>4, <2>1, <2>2, <2>3, CutNext
<1> QED
  BY <1>5, <1>6

\* No text is in messages.
LEMMA CutNothing ==
    ASSUME document' = document, parts' = <<>>, current'.text = <<>>
    PROVE  CutInv' /\ Written' = {}
<1>1. Elements(<<>>) = {} /\ DOMAIN parts' = {}
  BY EmptyElements
<1>2. Wrapped(current')
  BY DEF Wrapped
<1>3. Written' = {}
  BY <1>1 DEF Written
<1> QED
  BY <1>1, <1>2, <1>3, CutNext

\* Text of the piece that is read goes to the message being filled, or to a new one.
LEMMA CutPassed ==
    ASSUME IInv, MarkInv, CutInv, AheadInv, document' = document, tokens # <<>>, NEW text \in Seq(Place),
           \A p \in Elements(text) : Same(p, tokens[1]) /\ p.block # -1,
           text # <<>> => text[1].char = tokens[1].char,
           \/ /\ parts' = parts /\ current'.text = Cat(current.text, text)
              /\ current'.around = current.around
              /\ text # <<>> /\ text[1].char > 1 => current.text # <<>>
           \/ /\ parts' = Flushed /\ current'.text = text
              /\ text # <<>> /\ text[1].char > 1 => TokenAt(text[1]).width + current'.around > MaxPart
    PROVE  CutInv' /\ Written' \subseteq Written \union Elements(text)
<1>1. TypeOK /\ tokens \in Seq(RealPlace) /\ 1 \in DOMAIN tokens
  <2>1. TypeOK /\ tokens \in Seq(RealPlace)
    BY TextTypes DEF IInv, PlanInv
  <2> QED
    BY <2>1
<1>2. ASSUME text # <<>>, text[1].char = 1, NEW p \in Written  PROVE ~Same(p, text[1])
  <2>1. text[1] \in Elements(text)
    BY <1>2 DEF Elements
  <2>2. Same(text[1], tokens[1]) /\ tokens[1].char = 1
    BY <1>2, <2>1
  <2>3. Same(p, tokens[1]) => tokens[1].char > 1
    BY <1>1, <1>2 DEF AheadInv
  <2> QED
    BY <2>2, <2>3 DEF Same
<1>3. text # <<>> /\ text[1].char = 1 => \A p \in Written : ~Same(p, text[1])
  BY <1>2
<1> QED
  BY <1>1, <1>3, CutExtended, CutBegun

\* The piece is finished.
LEMMA AheadTail ==
    ASSUME IInv, MarkInv, AheadInv, tokens # <<>>, tokens' = Tail(tokens), blocks' = blocks, groups' = groups,
           NEW text, Written' \subseteq Written \union Elements(text),
           \A p \in Elements(text) : Same(p, tokens[1]) /\ p.block # -1
    PROVE  AheadInv'
<1>1. tokens \in Seq(RealPlace)
  BY TextTypes
<1>2. /\ \A i \in DOMAIN tokens' : i + 1 \in DOMAIN tokens /\ i \in Nat \ {0} /\ tokens'[i] = tokens[i + 1]
      /\ tokens' \in Seq(RealPlace) /\ 1 \in DOMAIN tokens
  BY <1>1, TailElements
<1>3. /\ \A i, j \in DOMAIN tokens : Same(tokens[i], tokens[j]) => i = j
      /\ \A i \in DOMAIN tokens : (i > 1 => tokens[i].char = 1) /\ tokens[i].block \notin Elements(blocks)
  BY DEF AheadInv, Distinct
<1>4. ASSUME NEW i \in DOMAIN tokens', NEW j \in DOMAIN tokens', Same(tokens'[i], tokens'[j])  PROVE i = j
  <2>1. i + 1 \in DOMAIN tokens /\ j + 1 \in DOMAIN tokens /\ i \in Nat /\ j \in Nat
        /\ Same(tokens[i + 1], tokens[j + 1])
    BY <1>2, <1>4
  <2>2. i + 1 = j + 1
    BY <1>3, <2>1
  <2> QED
    BY <2>1, <2>2
<1>5. ASSUME NEW i \in DOMAIN tokens'  PROVE tokens'[i].char = 1 /\ tokens'[i].block \notin Elements(blocks)
  <2>1. i + 1 \in DOMAIN tokens /\ i + 1 > 1 /\ tokens'[i] = tokens[i + 1]
    BY <1>2, <1>5
  <2> QED
    BY <1>3, <2>1
<1>6. ASSUME NEW p \in Written'
      PROVE  p.block # -1 /\ p.block \notin Elements(blocks) /\ \A j \in DOMAIN tokens' : ~Same(p, tokens'[j])
  <2>1. CASE p \in Written
    <3>1. p.block # -1 /\ p.block \notin Elements(blocks)
      BY <2>1 DEF AheadInv
    <3>2. ASSUME NEW j \in DOMAIN tokens', Same(p, tokens'[j])  PROVE FALSE
      <4>1. j + 1 \in DOMAIN tokens /\ j \in Nat \ {0} /\ Same(p, tokens[j + 1])
        BY <1>2, <3>2
      <4>2. j + 1 = 1
        BY <2>1, <4>1 DEF AheadInv
      <4> QED
        BY <4>1, <4>2
    <3> QED
      BY <3>1, <3>2
  <2>2. CASE p \in Elements(text)
    <3>1. Same(p, tokens[1]) /\ p.block # -1 /\ p.block \notin Elements(blocks)
      BY <1>2, <1>3, <2>2 DEF Same
    <3>2. ASSUME NEW j \in DOMAIN tokens', Same(p, tokens'[j])  PROVE FALSE
      <4>1. j + 1 \in DOMAIN tokens /\ j \in Nat \ {0} /\ Same(tokens[1], tokens[j + 1])
        BY <1>2, <3>1, <3>2 DEF Same
      <4>2. 1 = j + 1
        BY <1>2, <1>3, <4>1
      <4> QED
        BY <4>1, <4>2
    <3> QED
      BY <3>1, <3>2
  <2> QED
    BY <1>6, <2>1, <2>2
<1>7. tokens' # <<>> => tokens'[1].char = 1
  <2>1. tokens' # <<>> => 1 \in DOMAIN tokens'
    BY <1>2
  <2> QED
    BY <1>5, <2>1
<1>8. NoTwice(blocks) /\ \A group \in Elements(groups) : NoTwice(group)
  BY DEF AheadInv
<1>9. ~(tokens' # <<>> /\ tokens'[1].char > 1)
  BY <1>7
<1>10. Distinct(tokens')
  BY <1>4 DEF Distinct
<1> QED
  BY <1>5, <1>6, <1>8, <1>9, <1>10 DEF AheadInv, NoTwice, Distinct, Same

WordInv == CutInv /\ AheadInv

LEMMA TagWords ==
    ASSUME IInv, MarkInv, WordInv, UNCHANGED Rest, tokens # <<>>, tokens' = Tail(tokens),
           \/ parts' = parts /\ current'.text = current.text /\ current'.around = current.around
           \/ parts' = Flushed /\ current'.text = <<>>
    PROVE  WordInv'
<1>1. document' = document /\ blocks' = blocks /\ groups' = groups
  BY DEF Rest
<1>2. <<>> \in Seq(Place) /\ Elements(<<>>) = {} /\ Cat(current.text, <<>>) = current.text
  BY TextTypes, EmptySeq, EmptyElements, CatEmpty
<1> DEFINE none == <<>>
<1>3. none \in Seq(Place) /\ Elements(none) = {} /\ none = <<>> /\ Cat(current.text, none) = current.text
  BY <1>2
<1> HIDE DEF none
<1>4. CutInv' /\ Written' \subseteq Written \union Elements(none)
  BY <1>1, <1>3, CutPassed DEF WordInv
<1> QED
  BY <1>1, <1>3, <1>4, AheadTail DEF WordInv

LEMMA OpenTagWords == ASSUME IInv, MarkInv, WordInv, OpenTag PROVE WordInv'
<1> DEFINE token == TokenAt(tokens[1])
           full == current.size + token.width + Closing + EndWidth(token.tag) > MaxPart
           part == IF full THEN Reopened ELSE current
<1>1. /\ TypeOK /\ UNCHANGED Rest /\ tokens # <<>> /\ tokens' = Tail(tokens)
  BY DEF OpenTag, Reads, IInv, PlanInv
<1>2. CASE UNCHANGED <<stack, parts, current, deep>>
  BY <1>1, <1>2, TagWords
<1>3. CASE /\ parts' = IF full THEN Flushed ELSE parts
           /\ current' = Added(part, token.width, <<>>, <<Tag(token)>>)
  <2>1. part.text = (IF full THEN <<>> ELSE current.text) /\ part.text \in Seq(Place)
    BY <1>1, ReopenedIs, TextTypes, EmptySeq
  <2>2. current'.text = Cat(part.text, <<>>) /\ current'.around = part.around
    BY <1>3, AddedText
  <2>3. current'.text = part.text
    BY <2>1, <2>2, CatEmpty
  <2> QED
    BY <1>1, <1>3, <2>1, <2>2, <2>3, TagWords
<1> QED
  BY <1>2, <1>3 DEF OpenTag

LEMMA CloseTagWords == ASSUME IInv, MarkInv, WordInv, CloseTag PROVE WordInv'
<1> DEFINE token == TokenAt(tokens[1])
           ends == Closing - (IF Len(stack) > 1 THEN stack[Len(stack) - 1].closing ELSE 0)
<1>1. UNCHANGED Rest /\ tokens # <<>> /\ tokens' = Tail(tokens) /\ parts' = parts
  BY DEF CloseTag, Reads
<1>2. CASE current' = current
  BY <1>1, <1>2, TagWords
<1>3. CASE current' = Added(current, ends, <<>>, <<Tag(token)>>)
  <2>1. current'.text = Cat(current.text, <<>>) /\ current.text \in Seq(Place)
        /\ current'.around = current.around
    BY <1>3, AddedText, TextTypes
  <2>2. current'.text = current.text
    BY <2>1, CatEmpty
  <2> QED
    BY <1>1, <2>1, <2>2, TagWords
<1> QED
  BY <1>2, <1>3 DEF CloseTag

LEMMA UnitWords == ASSUME IInv, MarkInv, WordInv, Unit PROVE WordInv'
<1> DEFINE token == TokenAt(tokens[1])
           text == CharsFrom(tokens[1])
           width == token.width
<1>1. /\ TypeOK /\ document' = document /\ blocks' = blocks /\ groups' = groups
      /\ tokens # <<>> /\ tokens' = Tail(tokens) /\ tokens[1].char = 1
  BY DEF Unit, Reads, Rest, IInv, PlanInv
<1>2. text \in Seq(Place) /\ tokens[1] \in RealPlace /\ document \in Documents
  BY <1>1, TextTypes, TextTail, CharsType
<1>3. /\ \A p \in Elements(text) : Same(p, tokens[1]) /\ p.block # -1
      /\ text # <<>> => text[1].char = tokens[1].char
  BY <1>2, CharsOf
<1> HIDE DEF text, width
<1>4. ~(text # <<>> /\ text[1].char > 1)
  BY <1>1, <1>3
<1>5. \/ parts' = parts /\ current'.text = Cat(current.text, text) /\ current'.around = current.around
      \/ parts' = Flushed /\ current'.text = text
  <2>1. CASE parts' = parts /\ current' = Added(current, width, text, <<>>)
    BY <2>1, AddedText
  <2>2. CASE parts' = Flushed /\ current' = Added(Reopened, width, text, <<>>)
    BY <1>1, <1>2, <2>2, AddedText, ReopenedIs, CatEmpty
  <2> QED
    BY <2>1, <2>2 DEF Unit, text, width
<1>6. CutInv' /\ Written' \subseteq Written \union Elements(text)
  BY <1>1, <1>2, <1>3, <1>4, <1>5, CutPassed DEF WordInv
<1> QED
  BY <1>1, <1>3, <1>6, AheadTail DEF WordInv

LEMMA NextChar ==
    ASSUME NEW p \in Place
    PROVE  LET q == [p EXCEPT !.char = p.char + 1]
           IN  q.block = p.block /\ q.token = p.token /\ q.char = p.char + 1 /\ p.char \in Nat \ {0}
BY DEF Place

LEMMA SameToken == ASSUME document' = document PROVE \A p : TokenAt(p)' = TokenAt(p)
BY DEF TokenAt, Html

LEMMA CharacterWords == ASSUME IInv, MarkInv, WordInv, Character, IInv' PROVE WordInv'
<1> DEFINE place == tokens[1]
           token == TokenAt(place)
           width == token.chars[place.char]
           full == current.size + width + Closing > MaxPart
           text == CharAt(place)
<1>1. /\ TypeOK /\ document' = document /\ blocks' = blocks /\ groups' = groups /\ stack' = stack
      /\ tokens # <<>> /\ tokens \in Seq(RealPlace) /\ place \in RealPlace /\ place \in Place
      /\ token \in Token /\ text \in Seq(Place) /\ place.char \in Nat \ {0}
      /\ place.char > 1 \/ ~FitsNext(token)
      /\ parts' = IF full THEN Flushed ELSE parts
      /\ current' = Added(IF full THEN Reopened ELSE current, width, text, <<>>)
      /\ tokens' = IF place.char = Len(token.chars) THEN Tail(tokens)
                   ELSE [tokens EXCEPT ![1].char = @ + 1]
  <2>1. TypeOK /\ UNCHANGED <<document, stack, blocks, groups>> /\ tokens \in Seq(RealPlace)
    BY TextTypes DEF Character, Rest, IInv, PlanInv
  <2>2. tokens # <<>> /\ place \in RealPlace /\ token \in Token /\ text \in Seq(Place)
    BY CharacterIs
  <2>3. place \in Place /\ place.char \in Nat \ {0}
    BY <2>2 DEF RealPlace, Place
  <2>4. place.char > 1 \/ ~FitsNext(token)
    BY DEF Character
  <2> QED
    BY <2>1, <2>2, <2>3, <2>4 DEF Character
<1>2. text = IF place.block = -1 THEN <<>> ELSE <<place>>
  BY DEF CharAt
<1>3. ~FitsNext(token)
  <2>1. place.char > 1 => ~FitsNext(token)
    BY <1>1 DEF WordInv, AheadInv
  <2> QED
    BY <1>1, <2>1
<1>4. place.char > 1 => place.block = -1 \/ current.text # <<>>
  BY <1>1 DEF WordInv, AheadInv
<1>5. token.width + (Opening + Closing) > MaxPart
  <2>1. Opening \in Nat /\ Closing \in Nat /\ MaxPart \in Nat /\ token.width \in Nat
    BY <1>1, Lengths DEF Token
  <2> QED
    BY <1>3, <2>1 DEF FitsNext
<1>6. Reopened.text = <<>> /\ Reopened.around = Opening + Closing /\ current.text \in Seq(Place)
  BY <1>1, ReopenedIs, TextTypes
<1> DEFINE wide == width
<1> HIDE DEF full, wide
<1>7. /\ current'.text = Cat(IF full THEN <<>> ELSE current.text, text)
      /\ current'.around = IF full THEN Opening + Closing ELSE current.around
  <2>1. current' = Added(IF full THEN Reopened ELSE current, wide, text, <<>>)
    BY <1>1 DEF wide
  <2> QED
    BY <1>6, <2>1, AddedText
<1>8. /\ \A p \in Elements(text) : Same(p, place) /\ p.block # -1
      /\ text # <<>> => text[1] = place /\ place.block # -1
  <2>1. CASE place.block = -1
    BY <1>2, <2>1, EmptyElements
  <2>2. CASE place.block # -1
    <3>1. text = <<place>> /\ Elements(<<place>>) = {place}
      BY <1>2, <2>2 DEF Elements
    <3> QED
      BY <2>2, <3>1 DEF Same
  <2> QED
    BY <2>1, <2>2
<1> HIDE DEF text
<1>9. \/ /\ parts' = parts /\ current'.text = Cat(current.text, text)
         /\ current'.around = current.around
         /\ text # <<>> /\ text[1].char > 1 => current.text # <<>>
      \/ /\ parts' = Flushed /\ current'.text = text
         /\ text # <<>> /\ text[1].char > 1 => TokenAt(text[1]).width + current'.around > MaxPart
  <2>1. CASE full
    <3>1. parts' = Flushed /\ current'.text = text /\ current'.around = Opening + Closing
      BY <1>1, <1>7, <2>1, CatEmpty
    <3>2. text # <<>> => TokenAt(text[1]) = token
      BY <1>8
    <3> QED
      BY <1>5, <3>1, <3>2
  <2>2. CASE ~full
    BY <1>1, <1>4, <1>7, <1>8, <2>2
  <2> QED
    BY <2>1, <2>2
<1>10. CutInv' /\ Written' \subseteq Written \union Elements(text)
  <2>1. text # <<>> => text[1].char = tokens[1].char
    BY <1>8
  <2> QED
    BY <1>1, <1>8, <1>9, <2>1, CutPassed DEF WordInv
<1>11. CASE place.char = Len(token.chars)
  <2>1. tokens' = Tail(tokens)
    BY <1>1, <1>11
  <2> QED
    BY <1>1, <1>8, <1>10, <2>1, AheadTail DEF WordInv
<1>12. CASE place.char # Len(token.chars)
  <2>1. tokens' = [tokens EXCEPT ![1].char = @ + 1]
    BY <1>1, <1>12
  <2>2. 1 \in DOMAIN tokens /\ DOMAIN tokens' = DOMAIN tokens
    BY <1>1, <2>1
  <2>3. tokens'[1] = [place EXCEPT !.char = place.char + 1]
    BY <2>1, <2>2
  <2>4. tokens'[1].block = place.block /\ tokens'[1].token = place.token /\ tokens'[1].char > 1
    <3>1. place \in Place
      BY <1>1
    <3>2. LET q == [place EXCEPT !.char = place.char + 1]
          IN  q.block = place.block /\ q.token = place.token /\ q.char = place.char + 1 /\ place.char \in Nat \ {0}
      BY <3>1, NextChar, Zenon
    <3>3. /\ tokens'[1].block = place.block /\ tokens'[1].token = place.token
          /\ tokens'[1].char = place.char + 1 /\ place.char \in Nat \ {0}
      BY <2>3, <3>2, Zenon
    <3> QED
      BY <3>3
  <2>5. \A i \in DOMAIN tokens : /\ Same(tokens'[i], tokens[i]) /\ (i > 1 => tokens'[i] = tokens[i])
    <3> SUFFICES ASSUME NEW i \in DOMAIN tokens
                 PROVE  Same(tokens'[i], tokens[i]) /\ (i > 1 => tokens'[i] = tokens[i])
      OBVIOUS
    <3>1. CASE i = 1
      BY <2>4, <3>1 DEF Same
    <3>2. CASE i # 1
      <4>1. tokens'[i] = tokens[i]
        BY <2>1, <3>2
      <4> QED
        BY <4>1 DEF Same
    <3> QED
      BY <3>1, <3>2
  <2>6. Distinct(tokens')
    <3> SUFFICES ASSUME NEW i \in DOMAIN tokens, NEW j \in DOMAIN tokens, Same(tokens'[i], tokens'[j])
                 PROVE  i = j
      BY <2>2 DEF Distinct
    <3>1. Same(tokens[i], tokens[j])
      BY <2>5 DEF Same
    <3> QED
      BY <3>1 DEF WordInv, AheadInv, Distinct
  <2>7. \A i \in DOMAIN tokens' : (i > 1 => tokens'[i].char = 1) /\ tokens'[i].block \notin Elements(blocks)
    <3> SUFFICES ASSUME NEW i \in DOMAIN tokens
                 PROVE  (i > 1 => tokens'[i].char = 1) /\ tokens'[i].block \notin Elements(blocks)
      BY <2>2
    <3>1. (i > 1 => tokens[i].char = 1) /\ tokens[i].block \notin Elements(blocks)
      BY DEF WordInv, AheadInv
    <3>2. Same(tokens'[i], tokens[i]) /\ (i > 1 => tokens'[i] = tokens[i])
      BY <2>5
    <3> QED
      BY <3>1, <3>2 DEF Same
  <2>8. ASSUME NEW p \in Written'
        PROVE  /\ p.block # -1 /\ p.block \notin Elements(blocks)
               /\ \A j \in DOMAIN tokens' : Same(p, tokens'[j]) => j = 1 /\ tokens'[1].char > 1
    <3>1. CASE p \in Written
      <4>1. p.block # -1 /\ p.block \notin Elements(blocks)
            /\ \A j \in DOMAIN tokens : Same(p, tokens[j]) => j = 1
        BY <3>1 DEF WordInv, AheadInv
      <4>2. \A j \in DOMAIN tokens : Same(p, tokens'[j]) => Same(p, tokens[j])
        BY <2>5 DEF Same
      <4> QED
        BY <2>2, <2>4, <4>1, <4>2
    <3>2. CASE p \in Elements(text)
      <4>1. Same(p, tokens[1]) /\ p.block # -1 /\ tokens[1].block \notin Elements(blocks)
        BY <1>8, <2>2, <3>2 DEF WordInv, AheadInv
      <4>2. \A j \in DOMAIN tokens : Same(p, tokens'[j]) => Same(tokens[1], tokens[j])
        BY <2>5, <4>1 DEF Same
      <4>3. \A j \in DOMAIN tokens : Same(tokens[1], tokens[j]) => j = 1
        BY <2>2 DEF WordInv, AheadInv, Distinct
      <4> QED
        BY <2>2, <2>4, <4>1, <4>2, <4>3 DEF Same
    <3> QED
      BY <1>10, <2>8, <3>1, <3>2
  <2>9. ~FitsNext(TokenAt(tokens[1]))'
    <3>1. TokenAt(tokens[1])' = token
      <4>1. TokenAt(tokens'[1]) = token
        BY <2>4 DEF TokenAt
      <4> QED
        BY <1>1, <4>1, SameToken
    <3> QED
      BY <1>1, <1>3, <3>1 DEF FitsNext, Opening, Closing
  <2>10. tokens'[1].block = -1 \/ current'.text # <<>>
    <3> SUFFICES ASSUME place.block # -1  PROVE current'.text # <<>>
      BY <2>4
    <3>1. text # <<>>
      BY <1>2 DEF text
    <3>2. CASE full
      BY <1>1, <1>7, <3>1, <3>2, CatEmpty
    <3>3. CASE ~full
      <4>1. current'.text = Cat(current.text, text)
        BY <1>7, <3>3
      <4>2. current.text = <<>> => Cat(current.text, text) = text
        BY <1>1, CatEmpty
      <4> QED
        BY <1>1, <1>6, <3>1, <4>1, <4>2, CatElements
    <3> QED
      BY <3>2, <3>3
  <2>11. NoTwice(blocks') /\ \A group \in Elements(groups') : NoTwice(group)
    BY <1>1 DEF WordInv, AheadInv
  <2>12. \A p \in Written' : /\ p.block # -1 /\ p.block \notin Elements(blocks')
               /\ \A j \in DOMAIN tokens' : Same(p, tokens'[j]) => j = 1 /\ tokens'[1].char > 1
    BY <1>1, <2>8
  <2> QED
    BY <1>1, <1>10, <2>6, <2>7, <2>9, <2>10, <2>11, <2>12 DEF WordInv, AheadInv, Distinct, NoTwice, Same
<1> QED
  BY <1>11, <1>12

LEMMA EndSplitWords == ASSUME IInv, MarkInv, WordInv, EndSplit PROVE WordInv'
<1>1. /\ TypeOK /\ current' = Closed(current) /\ tokens = <<>>
      /\ document' = document /\ groups' = groups /\ blocks' = blocks /\ tokens' = tokens /\ parts' = parts
  BY DEF EndSplit, IInv, PlanInv
<1>2. current'.text = current.text /\ current'.around = current.around
  BY <1>1, ClosedIs DEF MarkInv
<1> DEFINE none == <<>>
<1>3. none \in Seq(Place) /\ none = <<>> /\ current'.text = Cat(current.text, none)
  BY <1>2, TextTypes, CatEmpty, EmptySeq
<1> HIDE DEF none
<1>4. CutInv'
  BY <1>1, <1>2, <1>3, CutExtended DEF WordInv
<1>5. Written' = Written /\ Written = Written
  BY <1>1, <1>2 DEF Written
<1>6. AheadInv'
  BY <1>1, <1>5 DEF WordInv, AheadInv, Distinct, NoTwice, Same
<1> QED
  BY <1>4, <1>6 DEF WordInv

\* The pieces of blocks that are put together, from their first characters.
Starts(B) == {p \in RealPlace : p.char = 1 /\ p.block \in B}

LEMMA PlacesStart ==
    ASSUME document \in Documents, NEW b \in BlockNo
    PROVE  Places(b) \in Seq(Starts({b})) /\ Distinct(Places(b))
<1> DEFINE ps == Places(b)
<1>1. /\ ps \in Seq(RealPlace) /\ Len(ps) = Len(Html(b)) /\ DOMAIN ps = 1 .. Len(Html(b))
      /\ \A t \in 1 .. Len(Html(b)) : ps[t] = [block |-> b, token |-> t, char |-> 1]
  BY PlacesReal
<1> HIDE DEF ps
<1>2. \A t \in DOMAIN ps : ps[t].block = b /\ ps[t].token = t /\ ps[t].char = 1
  BY <1>1
<1>3. \A t \in DOMAIN ps : ps[t] \in Starts({b})
  BY <1>1, <1>2 DEF Starts
<1>4. ps \in Seq(Starts({b}))
  <2> DEFINE B == Starts({b})
  <2>1. ps \in Seq(RealPlace) /\ \A t \in DOMAIN ps : ps[t] \in B
    BY <1>1, <1>3
  <2> HIDE DEF B
  <2>2. ps \in Seq(B)
    BY <2>1
  <2> QED
    BY <2>2 DEF B
<1>5. Distinct(ps)
  BY <1>2 DEF Distinct, Same
<1> QED
  BY <1>4, <1>5 DEF ps

LEMMA StartsCat ==
    ASSUME NEW B, NEW C, NEW s \in Seq(Starts(B)), NEW t \in Seq(Starts(C)), Distinct(s), Distinct(t),
           B \intersect C = {}
    PROVE  Cat(s, t) \in Seq(Starts(B \union C)) /\ Distinct(Cat(s, t))
<1> DEFINE S == Starts(B \union C)
           u == Cat(s, t)
<1>1. Starts(B) \subseteq S /\ Starts(C) \subseteq S
  BY DEF Starts
<1>2. s \in Seq(S) /\ t \in Seq(S)
  BY <1>1, SeqMonotonic
<1> HIDE DEF S
<1>3. /\ u \in Seq(S) /\ Len(u) = Len(s) + Len(t)
      /\ \A i \in 1 .. Len(s) + Len(t) : u[i] = IF i <= Len(s) THEN s[i] ELSE t[i - Len(s)]
  BY <1>2, CatFacts
<1>4. Len(s) \in Nat /\ Len(t) \in Nat /\ DOMAIN s = 1 .. Len(s) /\ DOMAIN t = 1 .. Len(t)
  OBVIOUS
<1> HIDE DEF u
<1>5. DOMAIN u = 1 .. Len(s) + Len(t)
  BY <1>3, <1>4
<1>6. ASSUME NEW i \in DOMAIN u
      PROVE  \/ i \in DOMAIN s /\ u[i] = s[i] /\ u[i].block \in B
             \/ i - Len(s) \in DOMAIN t /\ u[i] = t[i - Len(s)] /\ u[i].block \in C /\ i > Len(s)
  <2>1. i \in 1 .. Len(s) + Len(t) /\ i \in Nat
    BY <1>4, <1>5, <1>6
  <2>2. CASE i <= Len(s)
    <3>1. i \in DOMAIN s /\ u[i] = s[i]
      BY <1>3, <1>4, <2>1, <2>2
    <3>2. s[i] \in Starts(B)
      BY <1>4, <3>1, ElementOfSeq
    <3> QED
      BY <3>1, <3>2 DEF Starts
  <2>3. CASE ~(i <= Len(s))
    <3>1. i - Len(s) \in DOMAIN t /\ u[i] = t[i - Len(s)] /\ i > Len(s)
      BY <1>3, <1>4, <2>1, <2>3
    <3>2. t[i - Len(s)] \in Starts(C)
      BY <1>4, <3>1, ElementOfSeq
    <3> QED
      BY <3>1, <3>2 DEF Starts
  <2> QED
    BY <2>2, <2>3
<1>7. ASSUME NEW i \in DOMAIN u, NEW j \in DOMAIN u, Same(u[i], u[j])  PROVE i = j
  <2>1. u[i].block = u[j].block /\ i \in Int /\ j \in Int
    BY <1>4, <1>5, <1>7 DEF Same
  <2>2. CASE u[i].block \in B
    <3>1. u[j].block \in B /\ u[i].block \notin C /\ u[j].block \notin C
      BY <2>1, <2>2
    <3>2. i \in DOMAIN s /\ u[i] = s[i] /\ j \in DOMAIN s /\ u[j] = s[j]
      BY <1>6, <1>7, <3>1
    <3> QED
      BY <1>7, <3>2 DEF Distinct
  <2>3. CASE u[i].block \notin B
    <3>1. u[j].block \notin B
      BY <2>1, <2>3
    <3>2. /\ i - Len(s) \in DOMAIN t /\ u[i] = t[i - Len(s)]
          /\ j - Len(s) \in DOMAIN t /\ u[j] = t[j - Len(s)]
      BY <1>6, <1>7, <2>3, <3>1
    <3>3. i - Len(s) = j - Len(s)
      BY <1>7, <3>2 DEF Distinct
    <3> QED
      BY <1>4, <2>1, <3>3
  <2> QED
    BY <2>2, <2>3
<1>8. Distinct(u)
  BY <1>7 DEF Distinct
<1> QED
  BY <1>3, <1>8 DEF S, u

\* The pieces of a value, and the blocks that it leaves.
LEMMA ValuePlaces ==
    ASSUME IInv, pc = "place", blocks # <<>>, NoTwice(blocks)
    PROVE  LET rest == IF Glued THEN Tail(Tail(blocks)) ELSE Tail(blocks)
               places == IF Glued THEN Places(blocks[1]) \o Places(-1) \o Places(blocks[2])
                         ELSE Places(blocks[1])
               value == IF Glued THEN {blocks[1], -1, blocks[2]} ELSE {blocks[1]}
           IN  /\ places \in Seq(Starts(value)) /\ Distinct(places)
               /\ NoTwice(rest) /\ Elements(rest) \subseteq Elements(blocks)
               /\ value \intersect Elements(rest) = {}
               /\ value \subseteq Elements(blocks) \union {-1}
               /\ Value \in Seq(BlockNo) /\ Elements(Value) \subseteq value
<1> DEFINE b == blocks[1]
           c == blocks[2]
           t == Tail(blocks)
           u == Tail(t)
<1>1. /\ document \in Documents /\ blocks \in Seq(1 .. Len(document.blocks))
      /\ b \in 1 .. Len(document.blocks) /\ b \in BlockNo /\ -1 \in BlockNo
      /\ Glued => t # <<>> /\ t[1] = c /\ c \in BlockNo /\ c \in 1 .. Len(document.blocks)
  BY PlacedBlocks
<1>2. /\ t \in Seq(1 .. Len(document.blocks)) /\ NoTwice(t) /\ b \notin Elements(t)
      /\ Elements(t) \subseteq Elements(blocks) /\ b \in Elements(blocks)
  BY <1>1, TailElements
<1>3. Elements(blocks) \subseteq 1 .. Len(document.blocks)
  BY <1>1 DEF Elements
<1>4. -1 \notin Elements(blocks)
  BY <1>3
<1>5. Places(b) \in Seq(Starts({b})) /\ Distinct(Places(b))
  BY <1>1, PlacesStart
<1>6. CASE ~Glued
  <2>1. Value = <<b>> /\ <<b>> \in Seq(BlockNo) /\ Elements(<<b>>) \subseteq {b}
    BY <1>1, <1>6 DEF Value, Elements
  <2>2. Elements(Value) \subseteq {b} /\ Value \in Seq(BlockNo)
    BY <2>1
  <2>3. {b} \intersect Elements(t) = {} /\ {b} \subseteq Elements(blocks) \union {-1}
    BY <1>2
  <2> QED
    BY <1>2, <1>5, <1>6, <2>2, <2>3
<1>7. CASE Glued
  <2>1. /\ NoTwice(u) /\ c \notin Elements(u) /\ c \in Elements(t) /\ Elements(u) \subseteq Elements(t)
    <3> HIDE DEF t, c
    <3>1. t # <<>> /\ t[1] = c
      BY <1>1, <1>7
    <3> QED
      BY <1>2, <3>1, TailElements
  <2>2. Value \in Seq(BlockNo) /\ Elements(Value) \subseteq {b, -1, c}
    <3>1. Value = <<b, -1, c>> /\ <<b, -1, c>> \in Seq(BlockNo)
      BY <1>1, <1>7 DEF Value
    <3>2. Elements(<<b, -1, c>>) \subseteq {b, -1, c}
      BY DEF Elements
    <3> QED
      BY <3>1, <3>2
  <2> DEFINE p == Places(b)
             q == Places(-1)
             r == Places(c)
  <2>3. /\ p \in Seq(Starts({b})) /\ q \in Seq(Starts({-1})) /\ r \in Seq(Starts({c}))
        /\ Distinct(p) /\ Distinct(q) /\ Distinct(r)
    BY <1>1, <1>7, PlacesStart
  <2>4. p \o q \o r = Cat(Cat(p, q), r)
    BY Zenon DEF Cat
  <2>5. b # -1 /\ c # -1 /\ b # c
    BY <1>1, <1>2, <1>4, <1>7, <2>1
  <2> HIDE DEF p, q, r, b, c, t, u
  <2>6. {b} \intersect {-1} = {} /\ ({b} \union {-1}) \intersect {c} = {}
    BY <2>5
  <2>7. Cat(p, q) \in Seq(Starts({b} \union {-1})) /\ Distinct(Cat(p, q))
    BY <2>3, <2>6, StartsCat
  <2>8. Cat(Cat(p, q), r) \in Seq(Starts(({b} \union {-1}) \union {c})) /\ Distinct(Cat(Cat(p, q), r))
    BY <2>3, <2>6, <2>7, StartsCat
  <2>9. ({b} \union {-1}) \union {c} = {b, -1, c}
    OBVIOUS
  <2>10. p \o q \o r \in Seq(Starts({b, -1, c})) /\ Distinct(p \o q \o r)
    BY <2>4, <2>8, <2>9, Zenon
  <2>11. {b, -1, c} \intersect Elements(u) = {} /\ {b, -1, c} \subseteq Elements(blocks) \union {-1}
         /\ Elements(u) \subseteq Elements(blocks)
    BY <1>2, <1>4, <2>1
  <2> QED
    BY <1>7, <2>1, <2>2, <2>10, <2>11, Zenon DEF b, c, t, u, p, q, r
<1> QED
  BY <1>6, <1>7

\* What is still to be placed, when nothing is being cut.
LEMMA AheadBetween ==
    ASSUME tokens' = <<>>, NoTwice(blocks'), \A group \in Elements(groups') : NoTwice(group),
           \A p \in Written' : p.block # -1 /\ p.block \notin Elements(blocks')
    PROVE  AheadInv'
<1>1. DOMAIN tokens' = {}
  OBVIOUS
<1> QED
  BY <1>1 DEF AheadInv, Distinct, NoTwice, Same

\* The pieces of a value are still to be placed.
LEMMA AheadValue ==
    ASSUME NEW B, tokens' \in Seq(Starts(B)), Distinct(tokens'), NoTwice(blocks'),
           \A group \in Elements(groups') : NoTwice(group), B \intersect Elements(blocks') = {},
           \A p \in Written' : p.block # -1 /\ p.block \notin Elements(blocks') /\ p.block \notin B
    PROVE  AheadInv'
<1>1. \A i \in DOMAIN tokens' : tokens'[i].char = 1 /\ tokens'[i].block \in B
  <2>1. \A i \in DOMAIN tokens' : tokens'[i] \in Starts(B)
    OBVIOUS
  <2> QED
    BY <2>1 DEF Starts
<1>2. \A i \in DOMAIN tokens' : tokens'[i].block \notin Elements(blocks')
  BY <1>1
<1>3. \A p \in Written' : \A j \in DOMAIN tokens' : ~Same(p, tokens'[j])
  BY <1>1 DEF Same
<1>4. ~(tokens' # <<>> /\ tokens'[1].char > 1)
  <2>1. tokens' # <<>> => 1 \in DOMAIN tokens'
    OBVIOUS
  <2> QED
    BY <1>1, <2>1
<1> QED
  BY <1>1, <1>2, <1>3, <1>4 DEF AheadInv, Distinct, NoTwice, Same

LEMMA PlaceBlockWords == ASSUME IInv, MarkInv, WordInv, PlaceBlock PROVE WordInv'
<1> DEFINE rest == IF Glued THEN Tail(Tail(blocks)) ELSE Tail(blocks)
           places == IF Glued THEN Places(blocks[1]) \o Places(-1) \o Places(blocks[2])
                     ELSE Places(blocks[1])
           value == IF Glued THEN {blocks[1], -1, blocks[2]} ELSE {blocks[1]}
           text == BlocksText(Value)
           none == <<>>
<1>1. /\ TypeOK /\ pc = "place" /\ blocks # <<>> /\ blocks' = rest /\ document' = document /\ groups' = groups
  BY DEF PlaceBlock, IInv, PlanInv
<1>2. tokens = <<>> /\ document \in Documents /\ current.text \in Seq(Place)
  BY <1>1, TextTypes DEF IInv, PlanInv, StackInv
<1>3. /\ NoTwice(blocks) /\ \A group \in Elements(groups) : NoTwice(group)
      /\ \A p \in Written : p.block # -1 /\ p.block \notin Elements(blocks)
  BY DEF WordInv, AheadInv
<1>4. /\ places \in Seq(Starts(value)) /\ Distinct(places)
      /\ NoTwice(rest) /\ Elements(rest) \subseteq Elements(blocks)
      /\ value \intersect Elements(rest) = {}
      /\ value \subseteq Elements(blocks) \union {-1}
      /\ Value \in Seq(BlockNo) /\ Elements(Value) \subseteq value
  BY <1>1, <1>3, ValuePlaces
<1>5. none \in Seq(Place) /\ Elements(none) = {} /\ none = <<>>
      /\ Cat(current.text, none) = current.text
  BY <1>2, EmptySeq, EmptyElements, CatEmpty
<1> HIDE DEF rest, places, value, none
<1>6. /\ text \in Seq(Place) /\ \A q \in Elements(text) : q.block # -1 /\ q.block \in value
      /\ text # <<>> => text[1].char = 1
  BY <1>2, <1>4, BlocksTextFacts, BlocksTextOf
<1>7. CASE tokens' = tokens /\ parts' = parts /\ current' = current
  <2>1. CutInv' /\ Written' \subseteq Written \union Elements(none)
    <3>1. current'.text = Cat(current.text, none) /\ current'.around = current.around
      BY <1>5, <1>7
    <3> QED
      BY <1>1, <1>5, <1>7, <3>1, CutExtended DEF WordInv
  <2>2. \A p \in Written' : p.block # -1 /\ p.block \notin Elements(rest)
    BY <1>3, <1>4, <1>5, <2>1
  <2> QED
    BY <1>1, <1>2, <1>3, <1>4, <1>7, <2>1, <2>2, AheadBetween DEF WordInv
<1>8. ASSUME NEW width, tokens' = tokens, parts' = parts,
             current' = Added(current, width, text, BlocksTags(Value))
      PROVE  WordInv'
  <2>1. current'.text = Cat(current.text, text) /\ current'.around = current.around
    BY <1>8, AddedText
  <2>2. ASSUME text # <<>>, NEW p \in Written  PROVE ~Same(p, text[1])
    <3>1. text[1] \in Elements(text)
      BY <1>6, <2>2 DEF Elements
    <3>2. text[1].block # -1 /\ text[1].block \in Elements(blocks)
      BY <1>4, <1>6, <3>1
    <3> QED
      BY <1>3, <2>2, <3>2 DEF Same
  <2>3. ~(text # <<>> /\ text[1].char > 1)
    BY <1>6
  <2> HIDE DEF text
  <2>4. CutInv' /\ Written' \subseteq Written \union Elements(text)
    BY <1>1, <1>6, <1>8, <2>1, <2>2, <2>3, CutExtended DEF WordInv
  <2>5. \A p \in Written' : p.block # -1 /\ p.block \notin Elements(rest)
    BY <1>3, <1>4, <1>6, <2>4
  <2> QED
    BY <1>1, <1>2, <1>3, <1>4, <1>8, <2>4, <2>5, AheadBetween DEF WordInv
<1>9. CASE parts' = Flushed /\ current' = Empty /\ tokens' = places
  <2>1. current'.text = none /\ ~(none # <<>>)
    BY <1>5, <1>9, EmptyIs
  <2>2. CutInv' /\ Written' \subseteq Written \union Elements(none)
    BY <1>1, <1>5, <1>9, <2>1, CutBegun DEF WordInv
  <2>3. \A p \in Written' : p.block # -1 /\ p.block \notin Elements(rest) /\ p.block \notin value
    BY <1>3, <1>4, <1>5, <2>2
  <2> QED
    BY <1>1, <1>3, <1>4, <1>9, <2>2, <2>3, AheadValue DEF WordInv
<1> QED
  BY <1>7, <1>8, <1>9 DEF PlaceBlock, Value, places

\* No message is begun.
LEMMA WordsFresh ==
    ASSUME document' = document, parts' = <<>>, current'.text = <<>>, NoTwice(blocks'),
           \A group \in Elements(groups') : NoTwice(group),
           \/ tokens' = <<>>
           \/ tokens' \in Seq(Starts({0})) /\ Distinct(tokens') /\ blocks' = <<>>
    PROVE  WordInv'
<1>1. CutInv' /\ Written' = {}
  BY CutNothing
<1>2. CASE tokens' = <<>>
  BY <1>1, <1>2, AheadBetween DEF WordInv
<1>3. CASE tokens' \in Seq(Starts({0})) /\ Distinct(tokens') /\ blocks' = <<>>
  <2>1. {0} \intersect Elements(blocks') = {}
    BY <1>3, EmptyElements
  <2> QED
    BY <1>1, <1>3, <2>1, AheadValue DEF WordInv
<1> QED
  BY <1>2, <1>3

LEMMA IntervalTwice ==
    /\ \A first, last \in Nat : NoTwice(Interval(first, last))
    /\ NoTwice(<<>>) /\ NoTwice(<<0>>)
    /\ \A g : NoTwice(g) => \A group \in Elements(<<g>>) : NoTwice(group)
<1>1. ASSUME NEW first \in Nat, NEW last \in Nat  PROVE NoTwice(Interval(first, last))
  <2>1. \A i \in DOMAIN Interval(first, last) : i \in Int /\ Interval(first, last)[i] = first + i - 1
    BY <1>1 DEF Interval
  <2> QED
    BY <1>1, <2>1 DEF NoTwice
<1>2. NoTwice(<<>>) /\ NoTwice(<<0>>)
  BY DEF NoTwice
<1>3. ASSUME NEW g, NoTwice(g)  PROVE \A group \in Elements(<<g>>) : NoTwice(group)
  BY <1>3 DEF Elements
<1> QED
  BY <1>1, <1>2, <1>3

LEMMA WholeTwice == ASSUME document \in Documents PROVE NoTwice(Whole(document))
BY BlocksOf, IntervalTwice DEF Whole

LEMMA SourcePlaces ==
    ASSUME document \in Documents
    PROVE  Places(0) \in Seq(Starts({0})) /\ Distinct(Places(0))
<1>1. 0 \in BlockNo
  BY BlocksOf DEF BlockNo
<1> QED
  BY <1>1, PlacesStart

LEMMA InitWords == ASSUME Init, IInv PROVE WordInv
<1>1. document \in Documents /\ parts = <<>> /\ current = Empty
  BY DEF Init
<1>2. current.text = <<>> /\ Elements(<<>>) = {} /\ Written = {}
  BY <1>1, EmptyIs, EmptyElements DEF Written
<1>3. CutInv
  BY <1>1, <1>2 DEF CutInv, Wrapped
<1>4. NoTwice(blocks) /\ \A group \in Elements(groups) : NoTwice(group)
  <2>1. NoTwice(Whole(document))
    BY <1>1, WholeTwice
  <2>2. CASE groups = <<>> /\ blocks = <<>>
    BY <1>2, <2>2, IntervalTwice
  <2>3. CASE groups = <<Whole(document)>> /\ blocks = Whole(document)
    BY <2>1, <2>3, IntervalTwice
  <2>4. CASE groups = <<<<0>>>> /\ blocks = <<>>
    BY <2>4, IntervalTwice
  <2> QED
    BY <2>2, <2>3, <2>4 DEF Init
<1>5. CASE tokens = <<>>
  <2>1. DOMAIN tokens = {}
    BY <1>5
  <2> QED
    BY <1>2, <1>3, <1>4, <1>5, <2>1 DEF WordInv, AheadInv, Distinct
<1>6. CASE tokens = Places(0) /\ blocks = <<>>
  <2>1. \A i \in DOMAIN tokens : tokens[i].char = 1
    <3>1. tokens \in Seq(Starts({0}))
      BY <1>1, <1>6, SourcePlaces
    <3>2. \A i \in DOMAIN tokens : tokens[i] \in Starts({0})
      BY <3>1
    <3> QED
      BY <3>2 DEF Starts
  <2>2. Distinct(tokens) /\ Elements(blocks) = {} /\ (tokens # <<>> => 1 \in DOMAIN tokens)
    <3>1. tokens \in Seq(Starts({0}))
      BY <1>1, <1>6, SourcePlaces
    <3> QED
      BY <1>1, <1>2, <1>6, <3>1, SourcePlaces
  <2>3. ~(tokens # <<>> /\ tokens[1].char > 1)
    BY <2>1, <2>2
  <2>4. \A i \in DOMAIN tokens : (i > 1 => tokens[i].char = 1) /\ tokens[i].block \notin Elements(blocks)
    BY <2>1, <2>2
  <2> QED
    BY <1>2, <1>3, <1>4, <2>2, <2>3, <2>4 DEF WordInv, AheadInv
<1> QED
  BY <1>5, <1>6 DEF Init

LEMMA PackWords ==
    ASSUME IInv, WordInv, PackAll \/ Pack \/ AllPacked \/ CutGroup \/ AllCut
    PROVE  WordInv'
<1>1. Packing /\ UNCHANGED Placing
  BY DEF PackAll, Pack, AllPacked, CutGroup, AllCut, Packing, Placing
<1>2. document' = document /\ document \in Documents /\ tokens' = <<>> /\ parts' = <<>> /\ current'.text = <<>>
      /\ groups \in Seq(Seq(DOMAIN document.blocks)) /\ blocks = <<>>
  BY <1>1, PackingFacts, EmptyIs DEF Placing
<1>3. NoTwice(blocks) /\ \A group \in Elements(groups) : NoTwice(group)
  BY DEF WordInv, AheadInv
<1>4. NoTwice(blocks') /\ \A group \in Elements(groups') : NoTwice(group)
  <2>1. CASE PackAll
    <3>1. groups' = <<Whole(document)>> /\ blocks' = Whole(document)
      BY <2>1 DEF PackAll
    <3> QED
      BY <1>2, <3>1, WholeTwice, IntervalTwice
  <2>2. CASE Pack \/ AllPacked
    BY <1>3, <2>2 DEF Pack, AllPacked
  <2>3. CASE CutGroup
    <3> DEFINE group == Interval(start, best[start].end)
    <3>1. groups' = Append(groups, group) /\ blocks' = blocks /\ pc = "cut" /\ start <= Len(document.blocks)
      BY <2>3 DEF CutGroup
    <3>2. start \in Nat /\ best[start].end \in Nat
      <4>1. PackInv /\ Len(document.blocks) \in Nat /\ start \in 1 .. Len(document.blocks) + 1
            /\ DOMAIN best = 1 .. Len(document.blocks) + 1
        BY <1>2, <3>1, BlocksOf DEF IInv, PlanInv, PackInv
      <4>2. start \in DOMAIN best
        BY <4>1
      <4>3. best[start].end \in start .. Len(document.blocks)
        BY <3>1, <4>1, <4>2 DEF PackInv
      <4> QED
        BY <4>1, <4>3
    <3>3. NoTwice(group)
      BY <3>2, IntervalTwice
    <3>4. groups \in Seq(Elements(groups))
      BY <1>2 DEF Elements
    <3> HIDE DEF group
    <3>5. Elements(groups') = Elements(groups) \union {group}
      BY <3>1, <3>4, AppendElement
    <3> QED
      BY <1>3, <3>1, <3>3, <3>5
  <2>4. CASE AllCut
    <3>1. groups' = groups /\ blocks' = IF groups = <<>> THEN <<>> ELSE Head(groups)
      BY <2>4 DEF AllCut
    <3>2. groups # <<>> => Head(groups) \in Elements(groups)
      BY <1>2, HeadTailProperties, TailElements
    <3> QED
      BY <1>3, <3>1, <3>2, IntervalTwice
  <2> QED
    BY <2>1, <2>2, <2>3, <2>4
<1> QED
  BY <1>2, <1>4, WordsFresh

LEMMA EndGroupWords == ASSUME IInv, WordInv, EndGroup PROVE WordInv'
<1>1. /\ TypeOK /\ pc = "place" /\ document' = document /\ parts' = <<>> /\ current' = Empty
      /\ tokens' = tokens /\ groups' = Tail(groups) /\ groups # <<>> /\ tokens = <<>>
      /\ blocks' = IF Len(groups) > 1 THEN groups[2] ELSE <<>>
  BY DEF EndGroup, IInv, PlanInv, StackInv
<1>2. \A group \in Elements(groups) : NoTwice(group)
  BY DEF WordInv, AheadInv
<1>3. \E S : groups \in Seq(S)
  <2>1. <<<<0>>>> \in Seq({<<0>>}) /\ <<>> \in Seq({<<0>>})
    BY EmptySeq
  <2>2. groups \in Seq({<<0>>}) \/ groups \in Seq(Seq(DOMAIN document.blocks))
    BY <1>1, <2>1 DEF TypeOK
  <2> QED
    BY <2>2
<1>4. PICK S : groups \in Seq(S)
  BY <1>3
<1>5. Elements(groups') \subseteq Elements(groups)
  BY <1>1, <1>4, TailElements
<1>6. Len(groups) > 1 => groups[2] \in Elements(groups)
  BY <1>4 DEF Elements
<1> QED
  BY <1>1, <1>2, <1>5, <1>6, IntervalTwice, EmptyIs, WordsFresh

LEMMA OtherWords ==
    ASSUME IInv, MarkInv, WordInv, GiveUpRich \/ SendSource \/ UNCHANGED vars
    PROVE  WordInv'
<1>1. CASE GiveUpRich
  <2>1. /\ TypeOK /\ StackInv /\ pc = "place" /\ Made = <<>> /\ document \in Documents
        /\ groups' = <<Whole(document)>> /\ blocks' = Whole(document)
        /\ UNCHANGED <<document, tokens, parts, current>>
    BY <1>1 DEF GiveUpRich, IInv, PlanInv, TypeOK
  <2>2. parts' = <<>> /\ current'.text = <<>> /\ tokens' = <<>>
    BY <2>1, NoMessages DEF StackInv
  <2> QED
    BY <2>1, <2>2, WholeTwice, IntervalTwice, WordsFresh
<1>2. CASE SendSource
  <2>1. /\ TypeOK /\ Made = <<>> /\ groups' = <<<<0>>>> /\ tokens' = Places(0) /\ document \in Documents
        /\ blocks' = <<>> /\ UNCHANGED <<document, parts, current>>
    BY <1>2 DEF SendSource, Unsaid, IInv, PlanInv, TypeOK
  <2>2. parts' = <<>> /\ current'.text = <<>>
    BY <2>1, NoMessages
  <2>3. tokens' \in Seq(Starts({0})) /\ Distinct(tokens')
    BY <2>1, SourcePlaces
  <2>4. \A group \in Elements(groups') : NoTwice(group)
    BY <2>1, IntervalTwice
  <2> QED
    BY <2>1, <2>2, <2>3, <2>4, IntervalTwice, WordsFresh
<1>3. CASE UNCHANGED vars
  <2>1. /\ document' = document /\ groups' = groups /\ blocks' = blocks /\ tokens' = tokens
        /\ parts' = parts /\ current' = current /\ stack' = stack
    BY <1>3 DEF vars
  <2>2. CutInv'
    BY <2>1, CutNext DEF WordInv, CutInv
  <2>3. Written' = Written
    BY <2>1 DEF Written
  <2>4. FitsNext(TokenAt(tokens[1]))' <=> FitsNext(TokenAt(tokens[1]))
    BY <2>1, SameToken DEF FitsNext, Opening, Closing
  <2>5. AheadInv'
    BY <2>1, <2>3, <2>4 DEF WordInv, AheadInv, Distinct, NoTwice, Same
  <2> QED
    BY <2>2, <2>5 DEF WordInv
<1> QED
  BY <1>1, <1>2, <1>3

LEMMA StepWords == ASSUME IInv, MarkInv, WordInv, [Next]_vars, IInv' PROVE WordInv'
BY PackWords, PlaceBlockWords, OpenTagWords, CloseTagWords, UnitWords, CharacterWords, EndSplitWords,
   EndGroupWords, OtherWords DEF Next

LEMMA WordsInvariance == Spec => [](IInv /\ MarkInv /\ WordInv)
<1>1. Init => IInv /\ MarkInv /\ WordInv
  BY InitHolds, InitMarks, InitWords
<1>2. IInv /\ MarkInv /\ WordInv /\ [Next]_vars => IInv' /\ MarkInv' /\ WordInv'
  BY StepHolds, StepMarks, StepWords
<1> QED
  BY <1>1, <1>2, PTL DEF Spec

LEMMA WordsWhole == MarkInv /\ WordInv => WholeWords
<1> DEFINE ps == Append(parts, current)
<1> SUFFICES ASSUME MarkInv, WordInv, NEW i \in Neighbours(ps),
                    Last(ps[i].text).block = ps[i + 1].text[1].block,
                    Last(ps[i].text).token = ps[i + 1].text[1].token
             PROVE  TokenAt(ps[i + 1].text[1]).width + ps[i + 1].around > MaxPart
  BY DEF WholeWords
<1>1. current \in Message /\ parts \in Seq(Message)
  BY WrittenType
<1>2. /\ Len(parts) \in Nat /\ DOMAIN parts = 1 .. Len(parts) /\ DOMAIN ps = 1 .. Len(parts) + 1
      /\ ps[Len(parts) + 1] = current /\ \A j \in 1 .. Len(parts) : ps[j] = parts[j]
      /\ ps \in Seq(Message)
  BY <1>1
<1> HIDE DEF ps
<1>3. i \in DOMAIN ps /\ i + 1 \in DOMAIN ps /\ ps[i].text # <<>> /\ ps[i + 1].text # <<>>
  BY DEF Neighbours
<1>4. i \in 1 .. Len(parts) /\ ps[i] = parts[i]
  BY <1>2, <1>3
<1>5. Wrapped(ps[i + 1]) /\ Apart(ps[i], ps[i + 1])
  <2>1. CASE i + 1 \in DOMAIN parts
    <3>1. ps[i + 1] = parts[i + 1] /\ parts[i + 1] \in Elements(parts)
      BY <1>2, <2>1 DEF Elements
    <3> QED
      BY <1>2, <1>4, <2>1, <3>1 DEF WordInv, CutInv
  <2>2. CASE i + 1 \notin DOMAIN parts
    <3>1. i = Len(parts) /\ i + 1 = Len(parts) + 1 /\ parts # <<>>
      BY <1>2, <1>3, <1>4, <2>2
    <3>2. ps[i + 1] = current
      BY <1>2, <3>1
    <3> QED
      BY <1>4, <3>1, <3>2 DEF WordInv, CutInv
  <2> QED
    BY <2>1, <2>2
<1>6. Same(ps[i].text[Len(ps[i].text)], ps[i + 1].text[1])
  BY DEF Same, Last
<1>7. ps[i + 1].text[1].char # 1
  BY <1>3, <1>5, <1>6 DEF Apart
<1>8. ps[i + 1].text[1].char \in Nat \ {0}
  <2>1. ps[i + 1] \in Message
    BY <1>2, <1>3
  <2>2. ps[i + 1].text \in Seq(Place)
    BY <2>1, MessageFields
  <2>3. ps[i + 1].text[1] \in Place
    BY <1>3, <2>2
  <2> QED
    BY <2>3 DEF Place
<1>9. ps[i + 1].text[1].char > 1
  BY <1>7, <1>8
<1> QED
  BY <1>3, <1>5, <1>9 DEF Wrapped

\* A word, or an entity, lies in two messages only if none has room for it, wherever the text
\* of a block is cut (split_html_message, telegram_html.py:187).
THEOREM WordsStayWhole == Spec => []WholeWords
<1>1. IInv /\ MarkInv /\ WordInv => WholeWords
  BY WordsWhole
<1> QED
  BY <1>1, WordsInvariance, PTL

-----------------------------------------------------------------------------
(* Ways to cut the blocks into messages.                                   *)

LEMMA PackingType ==
    ASSUME NEW d, Len(d) \in Nat, NEW first \in Nat \ {0}, NEW ends \in Packings(d, first)
    PROVE  /\ ends \subseteq first .. Len(d) /\ ends \subseteq Nat /\ Len(d) \in ends
           /\ IsFiniteSet(ends) /\ Cardinality(ends) \in Nat /\ Cardinality(ends) >= 1
<1>1. ends \in SUBSET (first .. Len(d)) /\ Len(d) \in ends
  BY DEF Packings
<1>2. IsFiniteSet(first .. Len(d))
  BY FS_Interval
<1>3. IsFiniteSet(ends)
  BY <1>1, <1>2, FS_Subset
<1>4. Cardinality(ends) \in Nat
  BY <1>3, FS_CardinalityType
<1>5. Cardinality(ends) # 0
  BY <1>1, <1>3, FS_EmptySet
<1> QED
  BY <1>1, <1>3, <1>4, <1>5

LEMMA PackingIs ==
    ASSUME NEW d, NEW first, NEW ends, ends \in SUBSET (first .. Len(d)), Len(d) \in ends,
           \A i \in ends \union {first - 1}, j \in ends : Adjacent(ends, i, j) => Fits(d, i + 1, j)
    PROVE  ends \in Packings(d, first)
BY DEF Packings

\* The first message of a packing, and the packing of the blocks after it.
LEMMA FirstMessage ==
    ASSUME NEW d, Len(d) \in Nat, NEW first \in Nat \ {0}, NEW ends \in Packings(d, first)
    PROVE  \E e \in ends : /\ e \in first .. Len(d) /\ Fits(d, first, e)
                           /\ e = Len(d) => ends = {e}
                           /\ e < Len(d) => ends \ {e} \in Packings(d, e + 1)
<1>1. ends \subseteq first .. Len(d) /\ ends \subseteq Nat /\ Len(d) \in ends /\ ends # {}
  BY PackingType
<1>2. PICK e \in ends : \A y \in ends : e <= y
  BY <1>1, SmallestExists
<1>3. e \in first .. Len(d) /\ e \in Nat
  BY <1>1
<1>4. \A i \in ends \union {first - 1}, j \in ends : Adjacent(ends, i, j) => Fits(d, i + 1, j)
  BY DEF Packings
<1>5. Fits(d, first, e)
  <2>1. first - 1 < e /\ \A k \in ends : ~(k < e)
    BY <1>1, <1>2, <1>3
  <2>2. Adjacent(ends, first - 1, e)
    BY <2>1 DEF Adjacent
  <2>3. first - 1 + 1 = first
    OBVIOUS
  <2> QED
    BY <1>4, <2>2, <2>3
<1>6. ASSUME e = Len(d) PROVE ends = {e}
  <2>1. \A y \in ends : y = e
    BY <1>1, <1>2, <1>3, <1>6
  <2> QED
    BY <2>1
<1>7. ASSUME e < Len(d) PROVE ends \ {e} \in Packings(d, e + 1)
  <2> DEFINE rest == ends \ {e}
             next == e + 1
  <2>1. /\ Len(d) \in rest /\ rest \in SUBSET (next .. Len(d)) /\ next - 1 = e
        /\ \A i \in rest : i \in ends /\ i \in Nat /\ e <= i
        /\ \A k : k \in ends => k \in rest \/ k = e
    BY <1>1, <1>2, <1>3, <1>7
  <2> HIDE DEF rest, next
  <2>2. ASSUME NEW i \in rest \union {next - 1}, NEW j \in rest, Adjacent(rest, i, j)
        PROVE  Fits(d, i + 1, j)
    <3>1. i \in ends /\ i \in Nat /\ j \in ends /\ ~(i < e)
      BY <1>3, <2>1, <2>2
    <3>2. i < j /\ ~\E k \in rest : i < k /\ k < j
      BY <2>2 DEF Adjacent
    <3>3. Adjacent(ends, i, j)
      BY <2>1, <3>1, <3>2 DEF Adjacent
    <3> QED
      BY <1>4, <3>1, <3>3
  <2>3. rest \in Packings(d, next)
    BY ONLY <2>1, <2>2, PackingIs
  <2> QED
    BY <2>3 DEF rest, next
<1> QED
  BY <1>3, <1>5, <1>6, <1>7

\* The headings that end a message, with and without one message more.
LEMMA HeadingsOne ==
    ASSUME NEW d, NEW ends, IsFiniteSet(ends), NEW e, e \notin ends
    PROVE  /\ Headings(d, ends) \in Nat
           /\ Headings(d, ends \union {e}) =
                 Headings(d, ends) + (IF e # Len(d) /\ IsHeading(d[e]) THEN 1 ELSE 0)
<1> DEFINE H(s) == {x \in s \ {Len(d)} : IsHeading(d[x])}
<1>1. IsFiniteSet(H(ends)) /\ e \notin H(ends)
  <2>1. H(ends) \in SUBSET ends
    OBVIOUS
  <2> QED
    BY <2>1, FS_Subset
<1>2. Cardinality(H(ends)) \in Nat
  BY <1>1, FS_CardinalityType
<1>3. Headings(d, ends) = Cardinality(H(ends)) /\ Headings(d, ends \union {e}) = Cardinality(H(ends \union {e}))
  BY DEF Headings
<1>4. CASE e # Len(d) /\ IsHeading(d[e])
  <2>1. H(ends \union {e}) = H(ends) \union {e}
    BY <1>4
  <2>2. Cardinality(H(ends) \union {e}) = Cardinality(H(ends)) + 1
    BY <1>1, FS_AddElement
  <2> QED
    BY <1>2, <1>3, <1>4, <2>1, <2>2
<1>5. CASE ~(e # Len(d) /\ IsHeading(d[e]))
  <2>1. H(ends \union {e}) = H(ends)
    BY <1>5
  <2>2. Headings(d, ends \union {e}) = Headings(d, ends) /\ Headings(d, ends) \in Nat
    BY <1>2, <1>3, <2>1
  <2> QED
    BY ONLY <1>5, <2>2
<1> QED
  BY <1>2, <1>3, <1>4, <1>5

LEMMA HeadingsLast == ASSUME NEW d PROVE Headings(d, {Len(d)}) = 0 /\ Headings(d, {}) = 0
BY FS_EmptySet DEF Headings

LEMMA PenaltyOne ==
    ASSUME NEW d, NEW e
    PROVE  /\ Penalty(d, e) \in Nat
           /\ IsHeading(d[e]) => Penalty(d, e) = 100
           /\ ~IsHeading(d[e]) => Penalty(d, e) <= 3
BY DEF Penalty, Cut

\* Steps between the ways to pack: a first message before a packing, and one after those cut.
Sums(d, packings, s) ==
    LET e == packings[s].end
    IN  /\ packings[s].messages = 1 + packings[e + 1].messages
        /\ packings[s].penalty = (IF e = Len(d) THEN 0 ELSE Penalty(d, e)) + packings[e + 1].penalty

AtMost(d, packed, ends) ==
    /\ packed.messages <= Cardinality(ends)
    /\ packed.messages = Cardinality(ends) =>
          packed.penalty <= 97 * Headings(d, ends) + 3 * (Cardinality(ends) - 1)

Begun(d, ends, s, rest, all) ==
    /\ ends \subseteq 1 .. s - 1 /\ (s > 1 => s - 1 \in ends)
    /\ \A i \in ends \union {0}, j \in ends : Adjacent(ends, i, j) => Fits(d, i + 1, j)
    /\ Cardinality(ends) + rest.messages = all.messages
    /\ 100 * Headings(d, ends) + rest.penalty <= all.penalty

LEMMA ChosenAtMost ==
    ASSUME NEW d, Len(d) \in Nat, NEW s \in 1 .. Len(d), NEW ends \in Packings(d, s),
           NEW packings, \A x \in s + 1 .. Len(d) + 1 : packings[x] \in Packed,
           packings[Len(d) + 1].messages = 0 /\ packings[Len(d) + 1].penalty = 0,
           \A x \in s + 1 .. Len(d) : \A other \in Packings(d, x) : AtMost(d, packings[x], other),
           NEW chosen \in Packed,
           \A e \in s .. Len(d) : Fits(d, s, e) =>
              LET messages == 1 + packings[e + 1].messages
                  penalty == (IF e = Len(d) THEN 0 ELSE Penalty(d, e)) + packings[e + 1].penalty
              IN  \/ chosen.messages < messages
                  \/ chosen.messages = messages /\ chosen.penalty <= penalty
    PROVE  AtMost(d, chosen, ends)
<1>1. PICK e \in ends : /\ e \in s .. Len(d) /\ Fits(d, s, e)
                        /\ e = Len(d) => ends = {e}
                        /\ e < Len(d) => ends \ {e} \in Packings(d, e + 1)
  <2>1. s \in Nat \ {0}
    OBVIOUS
  <2> QED
    BY <2>1, FirstMessage
<1> DEFINE rest == packings[e + 1]
<1>2. rest \in Packed /\ rest.messages \in Nat /\ rest.penalty \in Nat
      /\ chosen.messages \in Nat /\ chosen.penalty \in Nat /\ e \in Nat
  <2>1. e + 1 \in s + 1 .. Len(d) + 1
    BY <1>1
  <2> QED
    BY <1>1, <2>1 DEF Packed
<1>3. \/ chosen.messages < 1 + rest.messages
      \/ /\ chosen.messages = 1 + rest.messages
         /\ chosen.penalty <= (IF e = Len(d) THEN 0 ELSE Penalty(d, e)) + rest.penalty
  BY <1>1
<1>4. CASE e = Len(d)
  <2>1. rest.messages = 0 /\ rest.penalty = 0
    BY <1>4
  <2>2. Cardinality(ends) = 1 /\ Headings(d, ends) = 0
    BY <1>1, <1>4, FS_Singleton, HeadingsLast
  <2> HIDE DEF rest
  <2>3. chosen.messages <= 1 /\ (chosen.messages = 1 => chosen.penalty <= 0)
    BY <1>2, <1>3, <1>4, <2>1
  <2> QED
    BY <1>2, <2>2, <2>3 DEF AtMost
<1>5. CASE e < Len(d)
  <2> DEFINE others == ends \ {e}
  <2>1. others \in Packings(d, e + 1) /\ e + 1 \in s + 1 .. Len(d)
    BY <1>1, <1>5
  <2>2. AtMost(d, rest, others)
    BY <2>1
  <2>3. IsFiniteSet(others) /\ Cardinality(others) \in Nat
    <3>1. e + 1 \in Nat \ {0}
      BY <1>2
    <3> QED
      BY <2>1, <3>1, PackingType
  <2>4. ends = others \union {e} /\ e \notin others /\ e # Len(d)
    BY <1>1, <1>2, <1>5
  <2> HIDE DEF others, rest
  <2>5. Cardinality(ends) = Cardinality(others) + 1
    BY <2>3, <2>4, FS_AddElement
  <2>6. /\ Headings(d, others) \in Nat
        /\ Headings(d, ends) = Headings(d, others) + (IF IsHeading(d[e]) THEN 1 ELSE 0)
    BY <2>3, <2>4, HeadingsOne
  <2>7. Penalty(d, e) \in Nat /\ Penalty(d, e) <= 3 + 97 * (IF IsHeading(d[e]) THEN 1 ELSE 0)
    BY PenaltyOne
  <2> DEFINE c == Cardinality(others)
             h == Headings(d, others)
             k == IF IsHeading(d[e]) THEN 1 ELSE 0
             p == Penalty(d, e)
  <2>8. /\ rest.messages <= c
        /\ rest.messages = c => rest.penalty <= 97 * h + 3 * (c - 1)
    BY <2>2 DEF AtMost
  <2>9. /\ Cardinality(ends) = c + 1 /\ Headings(d, ends) = h + k /\ p <= 3 + 97 * k
        /\ c \in Nat /\ h \in Nat /\ k \in Nat /\ p \in Nat
    BY <2>3, <2>5, <2>6, <2>7
  <2>10. \/ chosen.messages < 1 + rest.messages
         \/ chosen.messages = 1 + rest.messages /\ chosen.penalty <= p + rest.penalty
    BY <1>3, <2>4
  <2> HIDE DEF c, h, k, p
  <2>11. chosen.messages <= c + 1
    BY <1>2, <2>8, <2>9, <2>10
  <2>12. chosen.messages = c + 1 => chosen.penalty <= 97 * (h + k) + 3 * (c + 1 - 1)
    BY <1>2, <2>8, <2>9, <2>10
  <2> QED
    BY <2>9, <2>11, <2>12 DEF AtMost
<1> QED
  BY <1>1, <1>2, <1>4, <1>5

LEMMA BegunNext ==
    ASSUME NEW d, Len(d) \in Nat, NEW s \in 1 .. Len(d), NEW ends, NEW rest \in Packed,
           NEW all \in Packed, NEW next \in Packed, Begun(d, ends, s, rest, all),
           NEW e \in s .. Len(d), Fits(d, s, e),
           rest.messages = 1 + next.messages,
           rest.penalty = (IF e = Len(d) THEN 0 ELSE Penalty(d, e)) + next.penalty
    PROVE  Begun(d, ends \union {e}, e + 1, next, all)
<1> DEFINE more == ends \union {e}
<1>1. /\ ends \subseteq 1 .. s - 1 /\ (s > 1 => s - 1 \in ends)
      /\ \A i \in ends \union {0}, j \in ends : Adjacent(ends, i, j) => Fits(d, i + 1, j)
      /\ Cardinality(ends) + rest.messages = all.messages
      /\ 100 * Headings(d, ends) + rest.penalty <= all.penalty
  BY DEF Begun
<1>2. /\ rest.messages \in Nat /\ rest.penalty \in Nat /\ next.messages \in Nat /\ next.penalty \in Nat
      /\ all.messages \in Nat /\ all.penalty \in Nat /\ e \in Nat /\ s \in Nat
  BY DEF Packed
<1>3. e \notin ends /\ IsFiniteSet(ends)
  <2>1. IsFiniteSet(1 .. s - 1)
    BY <1>2, FS_Interval
  <2>2. ends \in SUBSET (1 .. s - 1)
    BY <1>1
  <2>3. e \notin ends
    BY <1>1, <1>2
  <2> QED
    BY <2>1, <2>2, <2>3, FS_Subset
<1>4. Cardinality(more) = Cardinality(ends) + 1 /\ Cardinality(ends) \in Nat
  BY <1>3, FS_AddElement, FS_CardinalityType
<1>5. /\ Headings(d, ends) \in Nat
      /\ Headings(d, more) = Headings(d, ends) + (IF e # Len(d) /\ IsHeading(d[e]) THEN 1 ELSE 0)
  BY <1>3, HeadingsOne
<1>6. Penalty(d, e) \in Nat /\ (IsHeading(d[e]) => Penalty(d, e) = 100)
  BY PenaltyOne
<1>7. more \subseteq 1 .. e + 1 - 1 /\ e + 1 - 1 \in more
  BY <1>1, <1>2
<1>8. ASSUME NEW i \in more \union {0}, NEW j \in more, Adjacent(more, i, j)
      PROVE  Fits(d, i + 1, j)
  <2>1. i < j /\ \A k \in more : ~(i < k /\ k < j)
    BY <1>8 DEF Adjacent
  <2>2. i \in Nat /\ j \in Nat /\ i <= e /\ j <= e /\ (j # e => j \in ends) /\ (i # e => i \in ends \union {0})
    BY <1>1, <1>2, <1>8
  <2>3. i \in ends \union {0}
    BY <1>2, <2>1, <2>2
  <2>4. CASE j = e
    <3>1. i = s - 1
      <4>1. CASE s = 1
        BY <1>1, <2>3, <4>1
      <4>2. CASE s > 1
        <5>1. s - 1 \in more /\ s - 1 < e /\ i <= s - 1
          BY <1>1, <1>2, <2>3, <4>2
        <5> QED
          BY <1>2, <2>1, <2>2, <2>4, <5>1
      <4> QED
        BY <1>2, <4>1, <4>2
    <3> QED
      BY <1>2, <2>4, <3>1
  <2>5. CASE j # e
    <3>1. j \in ends /\ Adjacent(ends, i, j)
      BY <2>1, <2>2, <2>5 DEF Adjacent
    <3> QED
      BY <1>1, <2>3, <3>1
  <2> QED
    BY <2>4, <2>5
<1> HIDE DEF more
<1>9. Cardinality(more) + next.messages = all.messages
  BY <1>1, <1>2, <1>4
<1>10. 100 * Headings(d, more) + next.penalty <= all.penalty
  <2> DEFINE k == IF e # Len(d) /\ IsHeading(d[e]) THEN 1 ELSE 0
             p == IF e = Len(d) THEN 0 ELSE Penalty(d, e)
             h == Headings(d, ends)
             m == Headings(d, more)
  <2>1. 100 * k <= p /\ k \in Nat /\ p \in Nat /\ h \in Nat /\ m = h + k
        /\ rest.penalty = p + next.penalty /\ 100 * h + rest.penalty <= all.penalty
    BY <1>1, <1>5, <1>6
  <2> HIDE DEF k, p, h, m
  <2>2. 100 * m + next.penalty <= all.penalty
    BY <1>2, <2>1
  <2> QED
    BY <2>2 DEF m
<1> QED
  <2>1. Begun(d, more, e + 1, next, all)
    BY <1>7, <1>8, <1>9, <1>10 DEF Begun
  <2> QED
    BY <2>1 DEF more

\* What the packings say of the messages cut from them.
LEMMA BegunBest ==
    ASSUME NEW d, Len(d) \in Nat \ {0}, NEW ends, NEW all \in Packed, NEW rest \in Packed,
           Begun(d, ends, Len(d) + 1, rest, all), rest.messages = 0,
           \A other \in Packings(d, 1) : AtMost(d, all, other)
    PROVE  /\ ends \in Packings(d, 1)
           /\ \A other \in Packings(d, 1) :
                 /\ Cardinality(ends) <= Cardinality(other)
                 /\ Cardinality(ends) = Cardinality(other) /\ 3 * (Cardinality(ends) - 1) < 100
                       => Headings(d, ends) <= Headings(d, other)
<1>1. /\ ends \subseteq 1 .. Len(d) /\ Len(d) \in ends
      /\ \A i \in ends \union {1 - 1}, j \in ends : Adjacent(ends, i, j) => Fits(d, i + 1, j)
      /\ Cardinality(ends) + rest.messages = all.messages
      /\ 100 * Headings(d, ends) + rest.penalty <= all.penalty
  BY DEF Begun
<1>2. ends \in Packings(d, 1)
  <2>1. ends \in SUBSET (1 .. Len(d))
    BY <1>1
  <2> QED
    BY <1>1, <2>1 DEF Packings
<1>3. \A other \in Packings(d, 1) : /\ Cardinality(other) \in Nat /\ Headings(d, other) \in Nat
                                    /\ other \subseteq Nat
  <2>1. ASSUME NEW other \in Packings(d, 1)
        PROVE  Cardinality(other) \in Nat /\ Headings(d, other) \in Nat /\ other \subseteq Nat
    <3>1. IsFiniteSet(other) /\ Cardinality(other) \in Nat /\ other \subseteq Nat
      BY PackingType
    <3>2. -1 \notin other
      BY <3>1
    <3> QED
      BY <3>1, <3>2, HeadingsOne
  <2> QED
    BY <2>1
<1>4. /\ all.messages \in Nat /\ all.penalty \in Nat /\ rest.penalty \in Nat
      /\ Cardinality(ends) \in Nat /\ Headings(d, ends) \in Nat
  BY <1>2, <1>3 DEF Packed
<1>5. ASSUME NEW other \in Packings(d, 1)
      PROVE  /\ Cardinality(ends) <= Cardinality(other)
             /\ Cardinality(ends) = Cardinality(other) /\ 3 * (Cardinality(ends) - 1) < 100
                   => Headings(d, ends) <= Headings(d, other)
  <2> DEFINE c == Cardinality(ends)
             o == Cardinality(other)
             h == Headings(d, ends)
             g == Headings(d, other)
  <2>1. /\ all.messages <= o
        /\ all.messages = o => all.penalty <= 97 * g + 3 * (o - 1)
    BY <1>5 DEF AtMost
  <2>2. c = all.messages /\ 100 * h <= all.penalty /\ o \in Nat /\ g \in Nat /\ c \in Nat /\ h \in Nat
    BY <1>1, <1>3, <1>4, <1>5
  <2> HIDE DEF c, o, h, g
  <2>3. c <= o /\ (c = o /\ 3 * (c - 1) < 100 => h <= g)
    BY <1>4, <2>1, <2>2
  <2> QED
    BY <2>3 DEF c, o, h, g
<1> QED
  BY <1>2, <1>5

-----------------------------------------------------------------------------
(* The packing that is chosen is the best there is.                        *)

Ends == {Last(groups[i]) : i \in DOMAIN groups}

BestInv ==
    LET d == document.blocks
    IN  /\ Packing => best[Len(d) + 1].messages = 0 /\ best[Len(d) + 1].penalty = 0
        /\ Packing => \A s \in DOMAIN best : s <= Len(d) =>
              /\ Sums(d, best, s)
              /\ \A ends \in Packings(d, s) : AtMost(d, best[s], ends)
        /\ pc = "cut" => Begun(d, Ends, start, best[start], best[1])
        /\ PackedBest

LEMMA InitBest == ASSUME Init PROVE BestInv
<1> DEFINE d == document.blocks
<1>1. Len(d) \in Nat
  <2>1. d \in Seq(Block)
    BY DocumentsAssumption DEF Init, Document
  <2> QED
    BY <2>1
<1>2. DOMAIN best = {Len(d) + 1} /\ best[Len(d) + 1] = [messages |-> 0, penalty |-> 0, end |-> Len(d)]
  BY DEF Init
<1>3. \A s \in DOMAIN best : ~(s <= Len(d))
  BY <1>1, <1>2
<1>4. pc # "cut" /\ PackedBest
  BY DEF Init, PackedBest, Packing
<1> QED
  BY <1>2, <1>3, <1>4 DEF BestInv

\* Once the messages are cut, their packing stays what it is.
LEMMA SameBest ==
    ASSUME BestInv, ~Packing, ~Packing', document' = document,
           (mode' = "rich" /\ plan' = <<>>) => (mode = "rich" /\ plan = <<>> /\ groups' = groups)
    PROVE  BestInv'
<1>1. PackedBest'
  <2>1. PackedBest
    BY DEF BestInv
  <2> QED
    BY <2>1 DEF PackedBest
<1> QED
  BY <1>1 DEF BestInv, Packing

LEMMA PackBest == ASSUME IInv, BestInv, Pack, IInv' PROVE BestInv'
<1> DEFINE d == document.blocks
           n == Len(document.blocks)
<1>1. /\ pc = "pack" /\ start > 0 /\ start' = start - 1 /\ pc' = pc /\ document' = document
  BY DEF Pack, Placing
<1>2. PICK chosen \in Candidates(document.blocks) :
          /\ \A other \in Candidates(document.blocks) \ {chosen} : Better(chosen, other)
          /\ best' = [s \in start .. Len(document.blocks) + 1 |-> IF s = start THEN chosen ELSE best[s]]
  BY DEF Pack
<1>3. /\ Packing /\ PackInv /\ n \in Nat /\ start \in 1 .. n /\ best \in [DOMAIN best -> Packed]
      /\ DOMAIN best = start + 1 .. n + 1
  BY <1>1, PackingFacts DEF IInv, PlanInv, PackInv, Packing
<1>4. /\ DOMAIN best' = start .. n + 1 /\ best'[start] = chosen
      /\ \A s \in start + 1 .. n + 1 : best'[s] = best[s]
  BY <1>2, <1>3
<1>5. PICK end \in start .. n :
          /\ Fits(d, start, end)
          /\ chosen = [messages |-> 1 + best[end + 1].messages,
                       penalty |-> (IF end = n THEN 0 ELSE Penalty(d, end)) + best[end + 1].penalty,
                       end |-> end]
  BY <1>2 DEF Candidates
<1>6. \A s \in start + 1 .. n + 1 : best[s] \in Packed
  BY <1>3
<1>7. \A e \in start .. n : (IF e = n THEN 0 ELSE Penalty(d, e)) \in Nat
  BY PenaltyOne
<1>8. chosen \in Packed
  <2>1. best[end + 1] \in Packed /\ end \in Nat
    BY <1>3, <1>6
  <2> QED
    BY <1>5, <1>7, <2>1 DEF Packed
<1>9. ASSUME NEW e \in start .. n, Fits(d, start, e)
      PROVE  LET messages == 1 + best[e + 1].messages
                 penalty == (IF e = n THEN 0 ELSE Penalty(d, e)) + best[e + 1].penalty
             IN  \/ chosen.messages < messages
                 \/ chosen.messages = messages /\ chosen.penalty <= penalty
  <2> DEFINE messages == 1 + best[e + 1].messages
             penalty == (IF e = n THEN 0 ELSE Penalty(d, e)) + best[e + 1].penalty
             other == [messages |-> messages, penalty |-> penalty, end |-> e]
  <2>1. other \in Candidates(d)
    BY <1>9 DEF Candidates
  <2>2. other = chosen \/ Better(chosen, other)
    BY <1>2, <2>1
  <2>3. other.messages = messages /\ other.penalty = penalty
    OBVIOUS
  <2>4. messages \in Nat /\ penalty \in Nat /\ chosen.messages \in Nat /\ chosen.penalty \in Nat
    <3>1. best[e + 1] \in Packed
      BY <1>3, <1>6, <1>9
    <3> QED
      BY <1>7, <1>8, <1>9, <3>1 DEF Packed
  <2> HIDE DEF messages, penalty, other
  <2>5. \/ chosen.messages < messages
        \/ chosen.messages = messages /\ chosen.penalty <= penalty
    BY <2>2, <2>3, <2>4 DEF Better
  <2> QED
    BY <2>5 DEF messages, penalty
<1>10. best[n + 1].messages = 0 /\ best[n + 1].penalty = 0
  BY <1>3 DEF BestInv
<1>11. \A s \in start + 1 .. n : Sums(d, best, s) /\ \A ends \in Packings(d, s) : AtMost(d, best[s], ends)
  BY <1>3 DEF BestInv
<1>12. \A ends \in Packings(d, start) : AtMost(d, chosen, ends)
  BY <1>3, <1>6, <1>8, <1>9, <1>10, <1>11, ChosenAtMost
<1>13. ASSUME NEW s \in start .. n  PROVE Sums(d, best', s)
  <2>1. CASE s = start
    <3>1. chosen.end = end /\ chosen.messages = 1 + best[end + 1].messages
          /\ chosen.penalty = (IF end = n THEN 0 ELSE Penalty(d, end)) + best[end + 1].penalty
      BY <1>5
    <3>2. best'[end + 1] = best[end + 1] /\ best'[s] = chosen
      BY <1>3, <1>4, <2>1
    <3> QED
      BY <3>1, <3>2 DEF Sums
  <2>2. CASE s # start
    <3>1. s \in start + 1 .. n /\ s \in DOMAIN best /\ s <= n
      BY <1>3, <1>13, <2>2
    <3>2. best[s].end \in s .. n
      BY <1>3, <3>1 DEF PackInv
    <3>3. best'[s] = best[s] /\ best'[best[s].end + 1] = best[best[s].end + 1]
      BY <1>3, <1>4, <3>1, <3>2
    <3> QED
      BY <1>11, <3>1, <3>3 DEF Sums
  <2> QED
    BY <2>1, <2>2
<1>14. \A s \in start .. n : \A ends \in Packings(d, s) : AtMost(d, best'[s], ends)
  <2>1. \A s \in start .. n : s = start \/ s \in start + 1 .. n
    BY <1>3
  <2>2. \A s \in start + 1 .. n : best'[s] = best[s]
    BY <1>3, <1>4
  <2> QED
    BY <1>4, <1>11, <1>12, <2>1, <2>2
<1>15. best'[n + 1].messages = 0 /\ best'[n + 1].penalty = 0
  BY <1>3, <1>4, <1>10
<1>16. \A s \in DOMAIN best' : s <= n => s \in start .. n
  BY <1>3, <1>4
<1>17. pc' # "cut" /\ PackedBest'
  BY <1>1 DEF PackedBest, Packing
<1> QED
  BY <1>1, <1>13, <1>14, <1>15, <1>16, <1>17 DEF BestInv

LEMMA AllPackedBest == ASSUME IInv, BestInv, AllPacked, IInv' PROVE BestInv'
<1> DEFINE d == document.blocks
           n == Len(document.blocks)
<1>1. /\ pc = "pack" /\ start = 0 /\ start' = 1 /\ pc' = "cut" /\ document' = document
      /\ best' = best /\ groups' = groups
  BY DEF AllPacked, Placing
<1>2. /\ Packing /\ n \in Nat /\ groups = <<>> /\ DOMAIN best = 1 .. n + 1
      /\ best \in [DOMAIN best -> Packed]
  BY <1>1, PackingFacts DEF IInv, PlanInv, PackInv, Packing
<1>3. best[1] \in Packed /\ best[1].messages \in Nat /\ best[1].penalty \in Nat
  <2>1. best[1] \in Packed
    BY <1>2
  <2> QED
    BY <2>1 DEF Packed
<1>4. Ends = {}
  BY <1>2 DEF Ends
<1>5. Begun(d, {}, 1, best[1], best[1])
  <2>1. Cardinality({}) = 0 /\ Headings(d, {}) = 0
    BY FS_EmptySet, HeadingsLast
  <2> QED
    BY <1>3, <2>1 DEF Begun
<1>6. Begun(d, Ends', start', best'[start'], best'[1])
  <2>1. Ends' = {}
    BY <1>1, <1>2 DEF Ends
  <2> QED
    BY <1>1, <1>5, <2>1
<1>7. PackedBest'
  BY <1>1 DEF PackedBest, Packing
<1> QED
  BY <1>1, <1>2, <1>6, <1>7 DEF BestInv, Packing

LEMMA CutGroupBest == ASSUME IInv, BestInv, CutGroup, IInv' PROVE BestInv'
<1> DEFINE d == document.blocks
           n == Len(document.blocks)
           e == best[start].end
           group == Interval(start, best[start].end)
<1>1. /\ pc = "cut" /\ pc' = pc /\ start <= n /\ groups' = Append(groups, group) /\ start' = e + 1
      /\ best' = best /\ document' = document
  BY DEF CutGroup, Placing
<1>2. /\ Packing /\ PackInv /\ n \in Nat /\ groups \in Seq(Seq(DOMAIN d))
      /\ start \in 1 .. n /\ DOMAIN best = 1 .. n + 1 /\ best \in [DOMAIN best -> Packed]
  BY <1>1, PackingFacts DEF IInv, PlanInv, PackInv, Packing
<1>3. e \in start .. n /\ Fits(d, start, e) /\ start \in DOMAIN best /\ start <= n
  BY <1>2 DEF PackInv
<1>4. Sums(d, best, start) /\ Begun(d, Ends, start, best[start], best[1])
  BY <1>1, <1>2, <1>3 DEF BestInv
<1>5. best[start] \in Packed /\ best[e + 1] \in Packed /\ best[1] \in Packed
  <2>1. start \in DOMAIN best /\ e + 1 \in DOMAIN best /\ 1 \in DOMAIN best
    BY <1>2, <1>3
  <2> HIDE DEF e
  <2> QED
    BY <1>2, <2>1
<1>6. /\ best[start].messages = 1 + best[e + 1].messages
      /\ best[start].penalty = (IF e = n THEN 0 ELSE Penalty(d, e)) + best[e + 1].penalty
  BY <1>4 DEF Sums
<1>7. Last(group) = e
  <2>1. Len(group) = e - start + 1 /\ group[e - start + 1] = e
    <3> HIDE DEF e
    <3>1. e - start + 1 \in 1 .. e - start + 1 /\ start + (e - start + 1) - 1 = e
      BY <1>2, <1>3
    <3>2. Interval(start, e)[e - start + 1] = e /\ Len(Interval(start, e)) = e - start + 1
      BY <1>2, <1>3, <3>1 DEF Interval
    <3> QED
      BY <3>2 DEF e
  <2> QED
    BY <2>1 DEF Last
<1> HIDE DEF group
<1>8. Ends' = Ends \union {e}
  <2>1. /\ DOMAIN groups = 1 .. Len(groups) /\ Len(groups) \in Nat
        /\ DOMAIN groups' = 1 .. Len(groups) + 1 /\ groups'[Len(groups) + 1] = group
        /\ \A i \in 1 .. Len(groups) : groups'[i] = groups[i]
    <3> DEFINE T == Seq(DOMAIN d) \union {group}
    <3>1. groups \in Seq(T) /\ group \in T
      BY <1>2, SeqMonotonic
    <3> HIDE DEF T
    <3> QED
      BY <1>1, <3>1
  <2>2. \A x : x \in Ends' <=> x \in Ends \union {e}
    BY <1>7, <2>1 DEF Ends
  <2> QED
    BY <2>2
<1> HIDE DEF e
<1>9. Begun(d, Ends \union {e}, e + 1, best[e + 1], best[1])
  BY <1>2, <1>3, <1>4, <1>5, <1>6, BegunNext
<1>10. Begun(d, Ends', start', best'[start'], best'[1])
  BY <1>1, <1>8, <1>9
<1>11. PackedBest'
  BY <1>1 DEF PackedBest, Packing
<1> QED
  BY <1>1, <1>2, <1>10, <1>11 DEF BestInv, Packing

LEMMA AllCutBest == ASSUME IInv, BestInv, AllCut, IInv' PROVE BestInv'
<1> DEFINE d == document.blocks
           n == Len(document.blocks)
<1>1. /\ pc = "cut" /\ pc' = "place" /\ start > n /\ groups' = groups /\ document' = document
  BY DEF AllCut, Placing
<1>2. /\ Packing /\ PackInv /\ n \in Nat /\ start = n + 1 /\ DOMAIN best = 1 .. n + 1
      /\ best \in [DOMAIN best -> Packed]
  BY <1>1, PackingFacts DEF IInv, PlanInv, PackInv, Packing
<1>3. /\ Begun(d, Ends, n + 1, best[n + 1], best[1]) /\ best[n + 1].messages = 0
      /\ best[1] \in Packed /\ best[n + 1] \in Packed
  BY <1>1, <1>2 DEF BestInv
<1>4. groups # <<>> => n # 0
  <2>1. Ends \subseteq 1 .. n + 1 - 1
    BY <1>3 DEF Begun
  <2>2. groups \in Seq(Seq(DOMAIN d))
    BY <1>2, PackingFacts
  <2>3. groups # <<>> => 1 \in DOMAIN groups
    BY <2>2
  <2>4. groups # <<>> => Last(groups[1]) \in Ends
    BY <2>3 DEF Ends
  <2> QED
    BY <1>2, <2>1, <2>4
<1>5. ASSUME n # 0
      PROVE  /\ Ends \in Packings(d, 1)
             /\ \A other \in Packings(d, 1) :
                   /\ Cardinality(Ends) <= Cardinality(other)
                   /\ Cardinality(Ends) = Cardinality(other) /\ 3 * (Cardinality(Ends) - 1) < 100
                         => Headings(d, Ends) <= Headings(d, other)
  <2>1. 1 \in DOMAIN best /\ 1 <= n
    BY <1>2, <1>5
  <2>2. \A other \in Packings(d, 1) : AtMost(d, best[1], other)
    BY <1>2, <2>1 DEF BestInv
  <2>3. Len(d) \in Nat \ {0}
    BY <1>2, <1>5
  <2> QED
    BY <1>3, <2>2, <2>3, BegunBest
<1>6. PackedBest'
  BY <1>1, <1>4, <1>5 DEF PackedBest, Ends
<1> QED
  BY <1>1, <1>6 DEF BestInv, Packing

LEMMA PackAllBest == ASSUME IInv, BestInv, PackAll, IInv' PROVE BestInv'
<1> DEFINE d == document.blocks
           n == Len(document.blocks)
           mine == {n}
<1>1. /\ pc = "pack" /\ pc' = "place" /\ groups' = <<Whole(document)>> /\ document' = document
      /\ d # <<>> /\ Fits(d, 1, n)
  BY DEF PackAll, AllFit, Placing
<1>2. n \in Nat \ {0}
  <2>1. d \in Seq(Block)
    BY <1>1, PackingFacts DEF Packing
  <2> QED
    BY <1>1, <2>1
<1>3. {Last(groups'[i]) : i \in DOMAIN groups'} = mine
  <2>1. Len(Whole(document)) = n /\ Whole(document)[n] = n
    BY <1>2 DEF Whole, Interval
  <2>2. Last(Whole(document)) = n
    BY <2>1 DEF Last
  <2> QED
    BY <1>1, <2>2
<1>4. mine \in Packings(d, 1)
  <2>1. mine \in SUBSET (1 .. n) /\ n \in mine
    BY <1>2
  <2>2. ASSUME NEW i \in mine \union {1 - 1}, NEW j \in mine, Adjacent(mine, i, j)
        PROVE  Fits(d, i + 1, j)
    <3>1. i = 0 /\ j = n
      BY <1>2, <2>2 DEF Adjacent
    <3> QED
      BY <1>1, <3>1
  <2> HIDE DEF mine
  <2> QED
    BY <2>1, <2>2, PackingIs
<1>5. Cardinality(mine) = 1 /\ Headings(d, mine) = 0
  BY FS_Singleton, HeadingsLast
<1>6. ASSUME NEW other \in Packings(d, 1)
      PROVE  Cardinality(mine) <= Cardinality(other) /\ Headings(d, mine) <= Headings(d, other)
  <2>1. IsFiniteSet(other) /\ Cardinality(other) \in Nat /\ Cardinality(other) >= 1 /\ other \subseteq Nat
    BY <1>2, PackingType
  <2>2. -1 \notin other
    BY <2>1
  <2>3. Headings(d, other) \in Nat
    BY <2>1, <2>2, HeadingsOne
  <2> HIDE DEF mine
  <2> QED
    BY <1>5, <2>1, <2>3
<1>7. PackedBest'
  BY <1>1, <1>3, <1>4, <1>6 DEF PackedBest
<1> QED
  BY <1>1, <1>7 DEF BestInv, Packing

LEMMA StepBest == ASSUME IInv, BestInv, [Next]_vars, IInv' PROVE BestInv'
<1>1. CASE PlaceBlock
  BY <1>1, SameBest DEF PlaceBlock, Packing
<1>2. CASE OpenTag
  BY <1>2, SameBest DEF OpenTag, Reads, Rest, Packing
<1>3. CASE CloseTag
  BY <1>3, SameBest DEF CloseTag, Reads, Rest, Packing
<1>4. CASE Unit
  BY <1>4, SameBest DEF Unit, Reads, Rest, Packing
<1>5. CASE Character
  BY <1>5, SameBest DEF Character, Reads, Rest, Packing
<1>6. CASE EndSplit
  BY <1>6, SameBest DEF EndSplit, Packing
<1>7. CASE EndGroup
  <2>1. pc = "place" /\ pc' \in {"place", "done"} /\ document' = document
    BY <1>7 DEF EndGroup
  <2>2. plan' # <<>>
    <3> DEFINE x == [blocks |-> Head(groups), parts |-> Made]
    <3>1. plan' = Append(plan, x) /\ plan \in Seq(Elements(plan))
      BY <1>7 DEF EndGroup, IInv, PlanInv, TypeOK
    <3> HIDE DEF x
    <3>2. plan' \in Seq(Elements(plan) \union {x}) /\ Len(plan') = Len(plan) + 1 /\ Len(plan) \in Nat
      BY <3>1, AppendElement, SeqMonotonic
    <3> QED
      BY <3>2
  <2> QED
    BY <2>1, <2>2, SameBest DEF Packing
<1>8. CASE GiveUpRich
  BY <1>8, SameBest DEF GiveUpRich, Packing
<1>9. CASE SendSource
  BY <1>9, SameBest DEF SendSource, Packing
<1>10. CASE UNCHANGED vars
  BY <1>10 DEF vars, BestInv, PackedBest, Packing, Ends
<1> QED
  BY <1>1, <1>2, <1>3, <1>4, <1>5, <1>6, <1>7, <1>8, <1>9, <1>10,
     PackAllBest, PackBest, AllPackedBest, CutGroupBest, AllCutBest DEF Next

\* No other way to pack an answer into rich messages needs fewer of them; nor as many with fewer
\* headings at their ends, as long as the lesser penalties do not add up to that of a heading
\* (semantic_split, splitter.py).
THEOREM PackingIsBest == Spec => []PackedBest
<1>1. Init => IInv /\ BestInv
  BY InitHolds, InitBest
<1>2. IInv /\ BestInv /\ [Next]_vars => IInv' /\ BestInv'
  BY StepHolds, StepBest
<1>3. BestInv => PackedBest
  BY DEF BestInv
<1> QED
  BY <1>1, <1>2, <1>3, PTL DEF Spec

-----------------------------------------------------------------------------
(* The room that the tags of a value need.                                 *)

LEMMA FrontIs ==
    ASSUME NEW S, NEW s \in Seq(S), s # <<>>
    PROVE  /\ Len(s) \in Nat \ {0} /\ Front(s) \in Seq(S) /\ Len(Front(s)) = Len(s) - 1
           /\ \A i \in 1 .. Len(s) - 1 : Front(s)[i] = s[i]
           /\ Last(s) = s[Len(s)] /\ Last(s) \in S
<1> DEFINE n == Len(s)
           j == n - 1
           u == SubSeq(s, 1, j)
<1>1. n \in Nat \ {0} /\ \A i \in 1 .. n : s[i] \in S
  OBVIOUS
<1>2. s \in Seq(S) /\ 1 \in 1 .. n + 1 /\ j \in 1 - 1 .. n /\ j - 1 + 1 = j /\ j \in Nat /\ j = n - 1
  BY <1>1
<1>3. Front(s) = u
  BY DEF Front
<1>4. Last(s) = s[n] /\ s[n] \in S
  BY <1>1 DEF Last
<1> HIDE DEF j
<1>5. /\ u \in Seq(S)
      /\ Len(u) = IF 1 <= j THEN j - 1 + 1 ELSE 0
      /\ \A k \in 1 .. j - 1 + 1 : u[k] = s[1 + k - 1]
  BY <1>2, SubSeqProperties
<1>6. (~(1 <= j) => j = 0) /\ \A k \in 1 .. j : 1 + k - 1 = k /\ k \in 1 .. j - 1 + 1
  BY <1>2
<1> HIDE DEF u
<1>7. u \in Seq(S) /\ Len(u) = j /\ \A k \in 1 .. j : u[k] = s[k]
  BY <1>2, <1>5, <1>6
<1> HIDE DEF n
<1> QED
  BY <1>1, <1>2, <1>3, <1>4, <1>7 DEF n

\* The lengths of the tags that close the first j of those that are open, and all of them.
Upto(open, j) == Total([i \in 1 .. j |-> EndWidth(open[i])])
Shutting(open) == Upto(open, Len(open))

LEMMA UptoRun ==
    ASSUME NEW open, NEW j \in Nat
    PROVE  \E f \in [0 .. j -> Nat] :
              /\ f[0] = 0 /\ f[j] = Upto(open, j)
              /\ \A i \in 1 .. j : f[i] = f[i - 1] + EndWidth(open[i])
<1> DEFINE ns == [i \in 1 .. j |-> EndWidth(open[i])]
<1>1. \A i \in 1 .. j : EndWidth(open[i]) \in Nat
  BY DEF EndWidth
<1>2. ns \in Seq(Nat) /\ Len(ns) = j /\ \A i \in 1 .. j : ns[i] = EndWidth(open[i])
  BY <1>1
<1>3. Upto(open, j) = Total(ns)
  BY DEF Upto
<1> HIDE DEF ns
<1>4. PICK f \in [0 .. Len(ns) -> Nat] :
              /\ f[0] = 0 /\ f[Len(ns)] = Total(ns)
              /\ \A i \in 1 .. Len(ns) : f[i] = f[i - 1] + ns[i]
  BY <1>2, TotalRun
<1> QED
  BY <1>2, <1>3, <1>4

LEMMA UptoStep ==
    ASSUME NEW open, NEW j \in Nat
    PROVE  /\ Upto(open, j) \in Nat /\ Upto(open, 0) = 0
           /\ Upto(open, j + 1) = Upto(open, j) + EndWidth(open[j + 1])
<1>1. PICK f \in [0 .. j -> Nat] :
              /\ f[0] = 0 /\ f[j] = Upto(open, j)
              /\ \A i \in 1 .. j : f[i] = f[i - 1] + EndWidth(open[i])
  BY UptoRun
<1>2. j + 1 \in Nat /\ 0 \in Nat
  OBVIOUS
<1>3. PICK g \in [0 .. j + 1 -> Nat] :
              /\ g[0] = 0 /\ g[j + 1] = Upto(open, j + 1)
              /\ \A i \in 1 .. j + 1 : g[i] = g[i - 1] + EndWidth(open[i])
  BY <1>2, UptoRun
<1>4. PICK h \in [0 .. 0 -> Nat] :
              /\ h[0] = 0 /\ h[0] = Upto(open, 0)
              /\ \A i \in 1 .. 0 : h[i] = h[i - 1] + EndWidth(open[i])
  BY <1>2, UptoRun
<1> DEFINE T == {i \in 0 .. j : f[i] = g[i]}
<1>5. f[j] = g[j]
  <2>1. 0 \in T
    BY <1>1, <1>3
  <2>2. ASSUME NEW i \in 0 .. j, i \in T, i < j  PROVE i + 1 \in T
    <3>1. i + 1 \in 1 .. j /\ i + 1 \in 1 .. j + 1 /\ i + 1 \in 0 .. j /\ i + 1 - 1 = i
      BY <2>2
    <3>2. f[i + 1] = f[i] + EndWidth(open[i + 1]) /\ g[i + 1] = g[i] + EndWidth(open[i + 1])
      BY <1>1, <1>3, <3>1
    <3> QED
      BY <2>2, <3>1, <3>2
  <2>3. 0 .. j \subseteq T
    <3> HIDE DEF T
    <3> QED
      BY <1>2, <2>1, <2>2, Induction
  <2> QED
    BY <2>3
<1>6. g[j + 1] = g[j] + EndWidth(open[j + 1])
  <2>1. j + 1 \in 1 .. j + 1 /\ j + 1 - 1 = j
    OBVIOUS
  <2> QED
    BY <1>3, <2>1
<1> QED
  BY <1>1, <1>3, <1>4, <1>5, <1>6

LEMMA UptoGrows ==
    ASSUME NEW open, NEW i \in Nat, NEW j \in Nat, i <= j
    PROVE  Upto(open, i) <= Upto(open, j)
<1> DEFINE T == {k \in i .. j : Upto(open, i) <= Upto(open, k)}
<1>1. i \in T
  BY UptoStep
<1>2. ASSUME NEW k \in i .. j, k \in T, k < j  PROVE k + 1 \in T
  <2>1. k \in Nat /\ k + 1 \in i .. j
    BY <1>2
  <2>2. /\ Upto(open, i) \in Nat /\ Upto(open, k) \in Nat /\ EndWidth(open[k + 1]) \in Nat
        /\ Upto(open, k + 1) = Upto(open, k) + EndWidth(open[k + 1])
    BY <2>1, UptoStep DEF EndWidth
  <2>3. Upto(open, i) <= Upto(open, k)
    BY <1>2
  <2>4. Upto(open, i) <= Upto(open, k + 1)
    BY <2>2, <2>3
  <2> QED
    BY <2>1, <2>4
<1>3. i .. j \subseteq T
  <2> HIDE DEF T
  <2> QED
    BY <1>1, <1>2, Induction
<1> QED
  BY <1>3

LEMMA UptoSame ==
    ASSUME NEW open, NEW other, NEW j \in Nat, \A i \in 1 .. j : open[i] = other[i]
    PROVE  Upto(open, j) = Upto(other, j)
<1>1. [i \in 1 .. j |-> EndWidth(open[i])] = [i \in 1 .. j |-> EndWidth(other[i])]
  OBVIOUS
<1> QED
  BY <1>1 DEF Upto

LEMMA ShuttingNat == ASSUME NEW open \in Opens PROVE Shutting(open) \in Nat /\ Len(open) \in Nat
<1>1. Len(open) \in Nat
  BY DEF Opens
<1> QED
  BY <1>1, UptoStep DEF Shutting

\* A tag that opens, or closes no other, adds the length of what closes it; one that closes
\* the last of the open ones gives back no more than its own length.
LEMMA ShuttingAppend ==
    ASSUME NEW open \in Opens, NEW x \in HtmlTag \union {"unmatched"}
    PROVE  /\ Shutting(open) \in Nat
           /\ Shutting(Append(open, x)) = Shutting(open) + EndWidth(x)
           /\ \A j \in 0 .. Len(open) : Upto(Append(open, x), j) = Upto(open, j)
<1> DEFINE more == Append(open, x)
           n == Len(open)
<1>1. /\ n \in Nat /\ Len(more) = n + 1 /\ more[n + 1] = x
      /\ \A i \in 1 .. n : more[i] = open[i]
  BY DEF Opens
<1> HIDE DEF more, n
<1>2. \A j \in 0 .. n : Upto(more, j) = Upto(open, j)
  <2> SUFFICES ASSUME NEW j \in 0 .. n  PROVE Upto(more, j) = Upto(open, j)
    OBVIOUS
  <2>1. j \in Nat /\ \A i \in 1 .. j : more[i] = open[i]
    BY <1>1
  <2> QED
    BY <2>1, UptoSame
<1>3. Upto(more, n + 1) = Upto(more, n) + EndWidth(x) /\ Upto(open, n) \in Nat
  BY <1>1, UptoStep
<1>4. Upto(more, n) = Upto(open, n)
  BY <1>1, <1>2
<1> QED
  BY <1>1, <1>2, <1>3, <1>4 DEF Shutting, more, n

LEMMA ShuttingFront ==
    ASSUME NEW open \in Opens, open # <<>>
    PROVE  /\ Shutting(open) = Shutting(Front(open)) + EndWidth(Last(open))
           /\ \A j \in 0 .. Len(open) - 1 : Upto(Front(open), j) = Upto(open, j)
           /\ Len(Front(open)) = Len(open) - 1 /\ Front(open) \in Opens
           /\ \A i \in 1 .. Len(open) - 1 : Front(open)[i] = open[i]
           /\ Len(open) \in Nat \ {0}
<1> DEFINE less == Front(open)
           n == Len(open)
<1>1. /\ n \in Nat \ {0} /\ Len(less) = n - 1 /\ less \in Opens
      /\ \A i \in 1 .. n - 1 : less[i] = open[i]
  BY FrontIs DEF Opens
<1> HIDE DEF less
<1>2. \A j \in 0 .. n - 1 : Upto(less, j) = Upto(open, j)
  <2> SUFFICES ASSUME NEW j \in 0 .. n - 1  PROVE Upto(less, j) = Upto(open, j)
    OBVIOUS
  <2>1. j \in Nat /\ \A i \in 1 .. j : less[i] = open[i]
    BY <1>1
  <2> QED
    BY <2>1, UptoSame
<1>3. Upto(open, n) = Upto(open, n - 1) + EndWidth(open[n])
  <2>1. n - 1 \in Nat /\ n - 1 + 1 = n
    BY <1>1
  <2> QED
    BY <2>1, UptoStep
<1>4. Upto(less, n - 1) = Upto(open, n - 1)
  BY <1>1, <1>2
<1> QED
  BY <1>1, <1>2, <1>3, <1>4 DEF Shutting, Last, less

LEMMA ShuttingAfter ==
    ASSUME NEW open \in Opens, NEW t \in Mark, NEW width \in Nat,
           t.kind = "close" => width = EndWidth(t.tag)
    PROVE  /\ Shutting(open) \in Nat /\ Shutting(After(open, t)) \in Nat
           /\ Shutting(open) <= Shutting(After(open, t)) + width
<1>1. t.tag \in HtmlTag /\ t.kind \in {"open", "close", "unit"} /\ EndWidth(t.tag) \in Nat
  BY DEF Mark, EndWidth
<1>2. Shutting(open) \in Nat
  BY ShuttingAppend
<1>3. CASE t.kind = "unit"
  BY <1>2, <1>3 DEF After
<1>4. CASE t.kind = "open"
  <2>1. After(open, t) = Append(open, t.tag)
    BY <1>4 DEF After
  <2>2. Shutting(Append(open, t.tag)) = Shutting(open) + EndWidth(t.tag)
    BY <1>1, ShuttingAppend
  <2> QED
    BY <1>1, <1>2, <2>1, <2>2
<1>5. CASE t.kind = "close" /\ open # <<>> /\ Last(open) = t.tag
  <2>1. After(open, t) = Front(open)
    BY <1>5 DEF After
  <2>2. Shutting(open) = Shutting(Front(open)) + EndWidth(t.tag) /\ Front(open) \in Opens
    BY <1>5, ShuttingFront
  <2>3. Shutting(Front(open)) \in Nat
    BY <2>2, ShuttingAppend
  <2> QED
    BY <1>1, <1>2, <1>5, <2>1, <2>2, <2>3
<1>6. CASE t.kind = "close" /\ ~(open # <<>> /\ Last(open) = t.tag)
  <2>1. After(open, t) = Append(open, "unmatched")
    BY <1>6 DEF After
  <2>2. Shutting(Append(open, "unmatched")) = Shutting(open) + EndWidth("unmatched")
    BY ShuttingAppend
  <2>3. EndWidth("unmatched") \in Nat
    BY DEF EndWidth
  <2> QED
    BY <1>2, <2>1, <2>2, <2>3
<1> QED
  BY <1>1, <1>3, <1>4, <1>5, <1>6

\* The tags of s are among those open, in their order, and none needs more to be closed than
\* those open up to it: h says which they are.
Threads(h, s, open) ==
    /\ \A i \in 1 .. Len(s) : /\ h[i] \in 1 .. Len(open) /\ s[i].tag = open[h[i]]
                              /\ s[i].closing <= Upto(open, h[i])
    /\ \A i, j \in 1 .. Len(s) : i < j => h[i] < h[j]
Under(s, open) == \E h \in [1 .. Len(s) -> Nat] : Threads(h, s, open)
ClosingOf(s) == IF s = <<>> THEN 0 ELSE Last(s).closing

LEMMA UnderShuts ==
    ASSUME NEW s \in Seq(Frame), NEW open \in Opens, Under(s, open)
    PROVE  ClosingOf(s) \in Nat /\ Shutting(open) \in Nat /\ ClosingOf(s) <= Shutting(open)
<1>1. Shutting(open) \in Nat /\ Len(open) \in Nat
  BY ShuttingNat
<1>2. CASE s = <<>>
  BY <1>1, <1>2 DEF ClosingOf
<1>3. CASE s # <<>>
  <2>1. Len(s) \in Nat \ {0} /\ Last(s) = s[Len(s)] /\ Last(s) \in Frame
    BY <1>3, FrontIs
  <2>2. Last(s).closing \in Nat /\ ClosingOf(s) = Last(s).closing
    BY <1>3, <2>1 DEF Frame, ClosingOf
  <2>3. PICK h \in [1 .. Len(s) -> Nat] : Threads(h, s, open)
    BY DEF Under
  <2> DEFINE k == h[Len(s)]
  <2>4. k \in 1 .. Len(open) /\ s[Len(s)].closing <= Upto(open, k)
    BY <2>1, <2>3 DEF Threads
  <2> HIDE DEF k
  <2>5. k \in Nat /\ k <= Len(open)
    BY <1>1, <2>4
  <2>6. Upto(open, k) <= Upto(open, Len(open))
    BY <1>1, <2>5, UptoGrows
  <2>7. Upto(open, k) \in Nat
    BY <2>5, UptoStep
  <2> QED
    BY <1>1, <2>1, <2>2, <2>4, <2>6, <2>7 DEF Shutting
<1> QED
  BY <1>2, <1>3

\* More tags are open.
LEMMA UnderSkip ==
    ASSUME NEW s \in Seq(Frame), NEW open \in Opens, Under(s, open),
           NEW x \in HtmlTag \union {"unmatched"}
    PROVE  Under(s, Append(open, x))
<1> DEFINE more == Append(open, x)
           n == Len(open)
<1>1. n \in Nat /\ Len(more) = n + 1 /\ \A i \in 1 .. n : more[i] = open[i]
  BY DEF Opens
<1>2. \A j \in 0 .. n : Upto(more, j) = Upto(open, j)
  BY ShuttingAppend
<1>3. PICK h \in [1 .. Len(s) -> Nat] : Threads(h, s, open)
  BY DEF Under
<1> HIDE DEF more
<1>4. ASSUME NEW i \in 1 .. Len(s)
      PROVE  h[i] \in 1 .. Len(more) /\ s[i].tag = more[h[i]] /\ s[i].closing <= Upto(more, h[i])
  <2>1. h[i] \in 1 .. n /\ s[i].tag = open[h[i]] /\ s[i].closing <= Upto(open, h[i])
    BY <1>3 DEF Threads
  <2>2. h[i] \in 0 .. n /\ h[i] \in 1 .. n + 1
    BY <1>1, <2>1
  <2> QED
    BY <1>1, <1>2, <2>1, <2>2
<1>5. Threads(h, s, more)
  BY <1>3, <1>4 DEF Threads
<1> QED
  BY <1>5 DEF Under, more

\* The last of those open is closed, and is none of s.
LEMMA ThreadsFront ==
    ASSUME NEW s \in Seq(Frame), NEW open \in Opens, open # <<>>, NEW h \in [1 .. Len(s) -> Nat],
           Threads(h, s, open), \A i \in 1 .. Len(s) : h[i] # Len(open)
    PROVE  Threads(h, s, Front(open))
<1> DEFINE less == Front(open)
           n == Len(open)
<1>1. /\ Len(less) = n - 1 /\ n \in Nat \ {0}
      /\ \A i \in 1 .. n - 1 : less[i] = open[i]
      /\ \A j \in 0 .. n - 1 : Upto(less, j) = Upto(open, j)
  BY ShuttingFront
<1> HIDE DEF less
<1>4. ASSUME NEW i \in 1 .. Len(s)
      PROVE  h[i] \in 1 .. Len(less) /\ s[i].tag = less[h[i]] /\ s[i].closing <= Upto(less, h[i])
  <2>1. h[i] \in 1 .. n /\ s[i].tag = open[h[i]] /\ s[i].closing <= Upto(open, h[i]) /\ h[i] # n
    BY DEF Threads
  <2>2. h[i] \in 0 .. n - 1 /\ h[i] \in 1 .. n - 1
    BY <1>1, <2>1
  <2> QED
    BY <1>1, <2>1, <2>2
<1> QED
  BY <1>4 DEF Threads, less

LEMMA UnderFront ==
    ASSUME NEW s \in Seq(Frame), NEW open \in Opens, open # <<>>, Under(s, open),
           s # <<>> => Last(s).tag # Last(open)
    PROVE  Under(s, Front(open))
<1>1. PICK h \in [1 .. Len(s) -> Nat] : Threads(h, s, open)
  BY DEF Under
<1>2. Len(open) \in Nat \ {0} /\ Last(open) = open[Len(open)] /\ Len(s) \in Nat
  <2>1. open \in Seq(HtmlTag \union {"unmatched"})
    BY DEF Opens
  <2>2. Len(open) \in Nat \ {0} /\ Last(open) = open[Len(open)]
    BY <2>1, FrontIs
  <2> QED
    BY <2>2
<1>3. ASSUME NEW i \in 1 .. Len(s)  PROVE h[i] # Len(open)
  <2> DEFINE n == Len(s)
  <2>1. s # <<>> /\ n \in 1 .. n
    BY <1>2, <1>3
  <2>2. Last(s) = s[n]
    BY <2>1, FrontIs
  <2>3. h[n] \in 1 .. Len(open) /\ s[n].tag = open[h[n]]
    BY <1>1, <2>1 DEF Threads
  <2>4. h[n] # Len(open)
    BY <1>2, <2>1, <2>2, <2>3
  <2>5. i < n => h[i] < h[n]
    BY <1>1, <1>3, <2>1 DEF Threads
  <2>6. h[i] \in Nat /\ h[n] \in Nat /\ (i = n \/ i < n)
    BY <1>2, <1>3, <2>1
  <2>7. h[n] <= Len(open)
    BY <1>2, <2>3
  <2>8. CASE i = n
    BY <2>4, <2>8
  <2>9. CASE i < n
    <3>1. h[i] < h[n]
      BY <2>5, <2>9
    <3> HIDE DEF n
    <3> QED
      BY <1>2, <2>6, <2>7, <3>1
  <2> QED
    BY <2>6, <2>8, <2>9
<1>4. Threads(h, s, Front(open))
  BY <1>1, <1>3, ThreadsFront
<1> QED
  BY <1>4 DEF Under

\* The last of s is closed: it was not before the others.
LEMMA UnderPop ==
    ASSUME NEW s \in Seq(Frame), NEW open \in Opens, s # <<>>, Under(s, open)
    PROVE  /\ Front(s) \in Seq(Frame) /\ Under(Front(s), open)
           /\ open # <<>> /\ Under(Front(s), Front(open))
<1> DEFINE n == Len(s)
           u == Front(s)
<1>1. /\ n \in Nat \ {0} /\ u \in Seq(Frame) /\ Len(u) = n - 1
      /\ \A i \in 1 .. n - 1 : u[i] = s[i]
  BY FrontIs
<1>2. PICK h \in [1 .. n -> Nat] : Threads(h, s, open)
  BY DEF Under
<1> DEFINE k == [i \in 1 .. n - 1 |-> h[i]]
<1> HIDE DEF u
<1>3. k \in [1 .. Len(u) -> Nat] /\ \A i \in 1 .. n - 1 : k[i] = h[i]
  BY <1>1
<1>4. Len(open) \in Nat
  BY DEF Opens
<1>5. \A i \in 1 .. n : /\ h[i] \in 1 .. Len(open) /\ s[i].tag = open[h[i]]
                        /\ s[i].closing <= Upto(open, h[i])
  BY <1>2 DEF Threads
<1>6. \A i, j \in 1 .. n : i < j => h[i] < h[j]
  BY <1>2 DEF Threads
<1> HIDE DEF n, k
<1>7. \A i \in 1 .. n - 1 : i \in 1 .. n /\ i < n /\ n \in 1 .. n
  BY <1>1
<1>8. Threads(k, u, open)
  BY <1>1, <1>3, <1>5, <1>6, <1>7 DEF Threads
<1>9. \A i \in 1 .. Len(u) : k[i] # Len(open)
  BY <1>1, <1>3, <1>4, <1>5, <1>6, <1>7
<1>10. open # <<>>
  BY <1>1, <1>4, <1>5
<1>11. Threads(k, u, Front(open))
  BY <1>1, <1>3, <1>8, <1>9, <1>10, ThreadsFront
<1> QED
  BY <1>1, <1>3, <1>8, <1>10, <1>11 DEF Under, u

\* A tag is opened, and is one more of both.
LEMMA UnderPush ==
    ASSUME NEW s \in Seq(Frame), NEW open \in Opens, Under(s, open), NEW x \in Frame,
           x.closing = ClosingOf(s) + EndWidth(x.tag)
    PROVE  Under(Append(s, x), Append(open, x.tag))
<1> DEFINE more == Append(open, x.tag)
           n == Len(open)
           u == Append(s, x)
           m == Len(s)
<1>1. /\ n \in Nat /\ Len(more) = n + 1 /\ more[n + 1] = x.tag
      /\ \A i \in 1 .. n : more[i] = open[i]
  BY DEF Opens
<1>2. x.tag \in HtmlTag \union {"unmatched"} /\ EndWidth(x.tag) \in Nat
  BY DEF Frame, EndWidth
<1>3. \A j \in 0 .. n : Upto(more, j) = Upto(open, j)
  BY <1>2, ShuttingAppend
<1>4. Shutting(more) = Shutting(open) + EndWidth(x.tag)
  BY <1>2, ShuttingAppend
<1>5. m \in Nat /\ Len(u) = m + 1 /\ u[m + 1] = x /\ \A i \in 1 .. m : u[i] = s[i]
  OBVIOUS
<1>6. PICK h \in [1 .. m -> Nat] : Threads(h, s, open)
  BY DEF Under
<1>7. ClosingOf(s) \in Nat /\ Shutting(open) \in Nat /\ ClosingOf(s) <= Shutting(open)
  BY UnderShuts
<1>8. /\ \A i \in 1 .. m : /\ h[i] \in 1 .. n /\ s[i].tag = open[h[i]] /\ s[i].closing <= Upto(open, h[i])
      /\ \A i, j \in 1 .. m : i < j => h[i] < h[j]
  BY <1>6 DEF Threads
<1> DEFINE k == [i \in 1 .. m + 1 |-> IF i = m + 1 THEN n + 1 ELSE h[i]]
<1>9. /\ k \in [1 .. m + 1 -> Nat] /\ k[m + 1] = n + 1 /\ \A i \in 1 .. m : k[i] = h[i]
  BY <1>1, <1>5
<1> HIDE DEF k, u, m, n, more
<1>10. Upto(more, n + 1) = Shutting(open) + EndWidth(x.tag)
  BY <1>1, <1>4 DEF Shutting
<1>11. ASSUME NEW i \in 1 .. m + 1
       PROVE  k[i] \in 1 .. n + 1 /\ u[i].tag = more[k[i]] /\ u[i].closing <= Upto(more, k[i])
  <2>1. CASE i = m + 1
    <3>1. x.closing <= Upto(more, n + 1)
      BY <1>2, <1>7, <1>10
    <3> QED
      BY <1>1, <1>5, <1>9, <2>1, <3>1
  <2>2. CASE i # m + 1
    <3>1. i \in 1 .. m
      BY <1>5, <1>11, <2>2
    <3>2. k[i] = h[i] /\ u[i] = s[i] /\ h[i] \in 1 .. n
      BY <1>5, <1>8, <1>9, <3>1
    <3>3. h[i] \in 0 .. n /\ h[i] \in 1 .. n + 1
      BY <1>1, <3>2
    <3> QED
      BY <1>1, <1>3, <1>8, <3>1, <3>2, <3>3
  <2> QED
    BY <2>1, <2>2
<1>12. ASSUME NEW i \in 1 .. m + 1, NEW j \in 1 .. m + 1, i < j  PROVE k[i] < k[j]
  <2>1. i \in 1 .. m /\ k[i] = h[i] /\ h[i] \in 1 .. n
    BY <1>5, <1>8, <1>9, <1>12
  <2>2. CASE j = m + 1
    BY <1>1, <1>9, <2>1, <2>2
  <2>3. CASE j # m + 1
    <3>1. j \in 1 .. m
      BY <1>5, <1>12, <2>3
    <3> QED
      BY <1>8, <1>9, <1>12, <2>1, <3>1
  <2> QED
    BY <2>2, <2>3
<1>13. Threads(k, u, more)
  BY <1>1, <1>5, <1>11, <1>12 DEF Threads
<1> QED
  BY <1>5, <1>9, <1>13 DEF Under, u, more

\* A piece that closes a tag, closes the last of s or leaves it alone.
LEMMA UnderClose ==
    ASSUME NEW s \in Seq(Frame), NEW open \in Opens, Under(s, open), NEW t \in Mark, t.kind = "close",
           NEW u, u = IF s # <<>> /\ Last(s).tag = t.tag THEN Front(s) ELSE s
    PROVE  Under(u, After(open, t))
<1>1. CASE open # <<>> /\ Last(open) = t.tag
  <2>1. After(open, t) = Front(open)
    BY <1>1 DEF After
  <2>2. CASE s # <<>> /\ Last(s).tag = t.tag
    BY <2>1, <2>2, UnderPop
  <2>3. CASE ~(s # <<>> /\ Last(s).tag = t.tag)
    BY <1>1, <2>1, <2>3, UnderFront
  <2> QED
    BY <2>2, <2>3
<1>2. CASE ~(open # <<>> /\ Last(open) = t.tag)
  <2>1. After(open, t) = Append(open, "unmatched") /\ "unmatched" \in HtmlTag \union {"unmatched"}
    BY <1>2 DEF After
  <2>2. u \in Seq(Frame) /\ Under(u, open)
    BY UnderPop
  <2> QED
    BY <2>1, <2>2, UnderSkip
<1> QED
  BY <1>1, <1>2

LEMMA TotalCat ==
    ASSUME NEW a \in Seq(Nat), NEW b \in Seq(Nat)
    PROVE  Cat(a, b) \in Seq(Nat) /\ Total(Cat(a, b)) = Total(a) + Total(b)
<1> DEFINE n == Len(a)
           k == Len(b)
           c == Cat(a, b)
<1>1. n \in Nat /\ k \in Nat
  OBVIOUS
<1>2. /\ c \in Seq(Nat) /\ Len(c) = n + k
      /\ \A i \in 1 .. n + k : c[i] = IF i <= n THEN a[i] ELSE b[i - n]
  BY CatFacts
<1>3. PICK f \in [0 .. n -> Nat] :
              /\ f[0] = 0 /\ f[n] = Total(a)
              /\ \A i \in 1 .. n : f[i] = f[i - 1] + a[i]
  BY TotalRun
<1>4. PICK g \in [0 .. k -> Nat] :
              /\ g[0] = 0 /\ g[k] = Total(b)
              /\ \A i \in 1 .. k : g[i] = g[i - 1] + b[i]
  BY TotalRun
<1> HIDE DEF c
<1>5. PICK h \in [0 .. Len(c) -> Nat] :
              /\ h[0] = 0 /\ h[Len(c)] = Total(c)
              /\ \A i \in 1 .. Len(c) : h[i] = h[i - 1] + c[i]
  BY <1>2, TotalRun
<1> DEFINE S == {i \in 0 .. n : h[i] = f[i]}
           T == {i \in 0 .. k : h[n + i] = f[n] + g[i]}
<1> HIDE DEF n, k
<1>6. 0 .. n \subseteq S
  <2>1. 0 \in S
    BY <1>1, <1>3, <1>5
  <2>2. ASSUME NEW i \in 0 .. n, i \in S, i < n  PROVE i + 1 \in S
    <3>1. i + 1 \in 1 .. n /\ i + 1 \in 1 .. n + k /\ i + 1 \in 0 .. n /\ i + 1 - 1 = i /\ i + 1 <= n
      BY <1>1, <2>2
    <3>2. f[i + 1] = f[i] + a[i + 1] /\ h[i + 1] = h[i] + a[i + 1]
      BY <1>2, <1>3, <1>5, <3>1
    <3> QED
      BY <2>2, <3>1, <3>2
  <2> HIDE DEF S
  <2> QED
    BY <1>1, <2>1, <2>2, Induction
<1>7. h[n] = f[n]
  <2>1. n \in 0 .. n
    BY <1>1
  <2> QED
    BY <1>6, <2>1
<1>8. 0 .. k \subseteq T
  <2>1. 0 \in T
    <3>1. 0 \in 0 .. k /\ n + 0 = n /\ f[n] \in Nat
      BY <1>1, <1>3
    <3> QED
      BY <1>4, <1>7, <3>1
  <2>2. ASSUME NEW i \in 0 .. k, i \in T, i < k  PROVE i + 1 \in T
    <3> DEFINE j == n + (i + 1)
    <3>1. /\ i + 1 \in 1 .. k /\ j \in 1 .. n + k /\ i + 1 \in 0 .. k /\ i + 1 - 1 = i
          /\ ~(j <= n) /\ j - n = i + 1 /\ j - 1 = n + i
      BY <1>1, <2>2
    <3> HIDE DEF j
    <3>2. g[i + 1] = g[i] + b[i + 1] /\ h[j] = h[n + i] + b[i + 1]
      BY <1>2, <1>4, <1>5, <3>1
    <3>3. g[i] \in Nat /\ f[n] \in Nat /\ b[i + 1] \in Nat /\ h[n + i] = f[n] + g[i]
      <4>1. b[i + 1] \in Nat
        BY <3>1 DEF k
      <4>2. n \in 0 .. n
        BY <1>1
      <4> QED
        BY <1>3, <1>4, <2>2, <4>1, <4>2
    <3>4. h[j] = f[n] + g[i + 1]
      BY <3>2, <3>3
    <3> QED
      BY <3>1, <3>4 DEF j
  <2> HIDE DEF T
  <2> QED
    BY <1>1, <2>1, <2>2, Induction
<1>9. h[n + k] = f[n] + g[k]
  <2>1. k \in 0 .. k
    BY <1>1
  <2> QED
    BY <1>8, <2>1
<1> QED
  BY <1>2, <1>3, <1>4, <1>5, <1>9 DEF c

\* The tags and the lengths of the pieces at a sequence of places.
Spells(ps, tags, ns) ==
    /\ Len(tags) = Len(ps) /\ Len(ns) = Len(ps)
    /\ \A i \in 1 .. Len(ps) : tags[i] = Tag(TokenAt(ps[i])) /\ ns[i] = TokenAt(ps[i]).width

LEMMA SpellsCat ==
    ASSUME NEW p \in Seq(RealPlace), NEW q \in Seq(RealPlace), NEW tags \in Seq(Mark), NEW more \in Seq(Mark),
           NEW ns \in Seq(Nat), NEW ms \in Seq(Nat), Spells(p, tags, ns), Spells(q, more, ms)
    PROVE  Spells(Cat(p, q), Cat(tags, more), Cat(ns, ms))
<1> DEFINE n == Len(p)
           k == Len(q)
           c == Cat(p, q)
           d == Cat(tags, more)
           e == Cat(ns, ms)
<1>1. n \in Nat /\ k \in Nat
  OBVIOUS
<1>2. /\ Len(tags) = n /\ Len(ns) = n /\ Len(more) = k /\ Len(ms) = k
      /\ \A i \in 1 .. n : tags[i] = Tag(TokenAt(p[i])) /\ ns[i] = TokenAt(p[i]).width
      /\ \A i \in 1 .. k : more[i] = Tag(TokenAt(q[i])) /\ ms[i] = TokenAt(q[i]).width
  BY DEF Spells
<1>3. Len(c) = n + k /\ \A i \in 1 .. n + k : c[i] = IF i <= n THEN p[i] ELSE q[i - n]
  BY CatFacts
<1>4. Len(d) = n + k /\ \A i \in 1 .. n + k : d[i] = IF i <= n THEN tags[i] ELSE more[i - n]
  <2>1. /\ Len(d) = Len(tags) + Len(more)
        /\ \A i \in 1 .. Len(tags) + Len(more) :
              d[i] = IF i <= Len(tags) THEN tags[i] ELSE more[i - Len(tags)]
    BY CatFacts
  <2>2. Len(tags) = n /\ Len(more) = k
    BY <1>2
  <2> HIDE DEF d, n, k
  <2> QED
    BY <2>1, <2>2
<1>5. Len(e) = n + k /\ \A i \in 1 .. n + k : e[i] = IF i <= n THEN ns[i] ELSE ms[i - n]
  <2>1. /\ Len(e) = Len(ns) + Len(ms)
        /\ \A i \in 1 .. Len(ns) + Len(ms) :
              e[i] = IF i <= Len(ns) THEN ns[i] ELSE ms[i - Len(ns)]
    BY CatFacts
  <2>2. Len(ns) = n /\ Len(ms) = k
    BY <1>2
  <2> HIDE DEF e, n, k
  <2> QED
    BY <2>1, <2>2
<1> HIDE DEF c, d, e, n, k
<1>6. ASSUME NEW i \in 1 .. n + k
      PROVE  d[i] = Tag(TokenAt(c[i])) /\ e[i] = TokenAt(c[i]).width
  <2>1. CASE i <= n
    <3>1. i \in 1 .. n
      BY <1>1, <2>1
    <3> QED
      BY <1>2, <1>3, <1>4, <1>5, <2>1, <3>1
  <2>2. CASE ~(i <= n)
    <3>1. i - n \in 1 .. k
      BY <1>1, <2>2
    <3> QED
      BY <1>2, <1>3, <1>4, <1>5, <2>2, <3>1
  <2> QED
    BY <2>1, <2>2
<1>7. Spells(c, d, e)
  BY <1>3, <1>4, <1>5, <1>6 DEF Spells
<1> QED
  BY <1>7 DEF c, d, e

\* The lengths of the pieces of a block.
Widths(b) == [i \in DOMAIN Html(b) |-> Html(b)[i].width]

LEMMA SpellsBlock ==
    ASSUME document \in Documents, NEW b \in BlockNo
    PROVE  /\ Spells(Places(b), TagsIn(Html(b)), Widths(b)) /\ Widths(b) \in Seq(Nat)
           /\ b > 0 => Total(Widths(b)) = Width(b)
           /\ b = -1 => Total(Widths(b)) = 2
<1> DEFINE html == Html(b)
           ps == Places(b)
           tags == TagsIn(html)
           ns == Widths(b)
<1>1. /\ ps \in Seq(RealPlace) /\ Len(ps) = Len(html) /\ html \in Seq(Token)
      /\ \A t \in 1 .. Len(html) : ps[t] = [block |-> b, token |-> t, char |-> 1]
  BY PlacesReal
<1>2. Len(html) \in Nat /\ DOMAIN html = 1 .. Len(html) /\ \A i \in 1 .. Len(html) : html[i] \in Token
  BY <1>1
<1>3. /\ Len(tags) = Len(html) /\ \A i \in 1 .. Len(html) : tags[i] = Tag(html[i])
  BY <1>2 DEF TagsIn
<1>4. /\ ns \in Seq(Nat) /\ Len(ns) = Len(html) /\ \A i \in 1 .. Len(html) : ns[i] = html[i].width
  <2>1. \A i \in 1 .. Len(html) : html[i].width \in Nat
    BY <1>2 DEF Token
  <2> QED
    BY <1>2, <2>1 DEF Widths
<1>5. ASSUME NEW i \in 1 .. Len(html)  PROVE TokenAt(ps[i]) = html[i]
  <2> HIDE DEF ps
  <2>1. ps[i] = [block |-> b, token |-> i, char |-> 1]
    BY <1>1
  <2>2. ps[i].block = b /\ ps[i].token = i
    BY <2>1
  <2> QED
    BY <2>2 DEF TokenAt
<1>6. ASSUME b > 0  PROVE Total(ns) = Width(b)
  <2>1. b \in DOMAIN document.blocks /\ Html(b) = document.blocks[b].html
    BY <1>6, BlocksOf DEF BlockNo, Html
  <2>2. document.blocks[b].width = WidthOf(document.blocks[b].html)
    BY <2>1, WidthsAssumption
  <2> QED
    BY <2>1, <2>2 DEF Width, WidthOf, Widths
<1>7. ASSUME b = -1  PROVE Total(ns) = 2
  <2>1. html = <<EmptyLine>> /\ EmptyLine.width = 2
    BY <1>7 DEF Html, EmptyLine
  <2>2. Len(html) = 1 /\ html[1].width = 2
    BY <2>1
  <2> HIDE DEF html, ns
  <2>3. PICK f \in [0 .. Len(ns) -> Nat] :
              /\ f[0] = 0 /\ f[Len(ns)] = Total(ns)
              /\ \A i \in 1 .. Len(ns) : f[i] = f[i - 1] + ns[i]
    BY <1>4, TotalRun
  <2>4. Len(ns) = 1 /\ ns[1] = 2 /\ 1 - 1 = 0
    BY <1>4, <2>2
  <2>5. f[1] = f[0] + ns[1]
    BY <2>3, <2>4
  <2> QED
    BY <2>3, <2>4, <2>5
<1> HIDE DEF html, ps, tags, ns
<1>8. Spells(ps, tags, ns)
  BY <1>1, <1>3, <1>4, <1>5 DEF Spells
<1> QED
  BY <1>4, <1>6, <1>7, <1>8 DEF html, ps, tags, ns

\* There is room for the pieces ps in a message that is filled up to size, inside of the tags
\* of s: f are the tags open, and g the length reached, after every piece, if none is left out.
Room(ps, size, s) ==
    \E f \in [0 .. Len(ps) -> Opens], g \in [0 .. Len(ps) -> Nat] :
        /\ \A i \in 1 .. Len(ps) : /\ f[i] = After(f[i - 1], Tag(TokenAt(ps[i])))
                                   /\ g[i] = g[i - 1] + TokenAt(ps[i]).width
        /\ \A i \in 0 .. Len(ps) : g[i] + Shutting(f[i]) <= MaxPart
        /\ size <= g[0] /\ Under(s, f[0])

LEMMA SameRoom ==
    ASSUME document' = document
    PROVE  \A ps, size, s : Room(ps, size, s)' <=> Room(ps, size, s)
BY DEF Room, TokenAt, Html

\* Of what the pieces need, each leaves room for what follows it and for what closes the tags.
LEMMA RoomTail ==
    ASSUME document \in Documents, NEW ps \in Seq(RealPlace), ps # <<>>, NEW size, NEW s, Room(ps, size, s)
    PROVE  \E open \in Opens, n \in Nat :
              /\ size <= n /\ Under(s, open)
              /\ n + TokenAt(ps[1]).width + Shutting(After(open, Tag(TokenAt(ps[1])))) <= MaxPart
              /\ \A m, u : /\ m <= n + TokenAt(ps[1]).width
                           /\ Under(u, After(open, Tag(TokenAt(ps[1]))))
                           => Room(Tail(ps), m, u)
<1>1. PICK f \in [0 .. Len(ps) -> Opens], g \in [0 .. Len(ps) -> Nat] :
        /\ \A i \in 1 .. Len(ps) : /\ f[i] = After(f[i - 1], Tag(TokenAt(ps[i])))
                                   /\ g[i] = g[i - 1] + TokenAt(ps[i]).width
        /\ \A i \in 0 .. Len(ps) : g[i] + Shutting(f[i]) <= MaxPart
        /\ size <= g[0] /\ Under(s, f[0])
  BY DEF Room
<1> DEFINE k == Len(ps) - 1
           rest == Tail(ps)
           t == TokenAt(ps[1])
<1>2. /\ k \in Nat /\ Len(ps) = k + 1 /\ Len(rest) = k /\ \A i \in 1 .. k : rest[i] = ps[i + 1]
  OBVIOUS
<1>3. f[0] \in Opens /\ g[0] \in Nat /\ f[1] = After(f[0], Tag(t)) /\ g[1] = g[0] + t.width
      /\ g[1] + Shutting(f[1]) <= MaxPart
  <2>1. 0 \in 0 .. Len(ps) /\ 1 \in 0 .. Len(ps) /\ 1 \in 1 .. Len(ps) /\ 1 - 1 = 0
    BY <1>2
  <2> QED
    BY <1>1, <2>1
<1> DEFINE e == [i \in 0 .. k |-> f[i + 1]]
           h == [i \in 0 .. k |-> g[i + 1]]
<1>4. \A i \in 0 .. k : i + 1 \in 0 .. Len(ps)
  BY <1>2
<1>5. e \in [0 .. k -> Opens] /\ h \in [0 .. k -> Nat] /\ e[0] = f[1] /\ h[0] = g[1]
      /\ \A i \in 0 .. k : e[i] = f[i + 1] /\ h[i] = g[i + 1]
  BY <1>2, <1>4
<1> HIDE DEF k, rest, e, h
<1>6. ASSUME NEW i \in 1 .. k
      PROVE  e[i] = After(e[i - 1], Tag(TokenAt(rest[i]))) /\ h[i] = h[i - 1] + TokenAt(rest[i]).width
  <2> DEFINE j == i + 1
  <2>1. j \in 1 .. Len(ps) /\ j - 1 = i /\ i \in 0 .. k /\ i - 1 \in 0 .. k /\ i - 1 + 1 = i
    BY <1>2
  <2>2. rest[i] = ps[j] /\ e[i] = f[j] /\ e[i - 1] = f[i] /\ h[i] = g[j] /\ h[i - 1] = g[i]
    BY <1>2, <1>5, <2>1
  <2> HIDE DEF j
  <2>3. f[j] = After(f[i], Tag(TokenAt(ps[j]))) /\ g[j] = g[i] + TokenAt(ps[j]).width
    BY <1>1, <2>1
  <2> QED
    BY <2>2, <2>3
<1>7. \A i \in 0 .. k : h[i] + Shutting(e[i]) <= MaxPart
  BY <1>1, <1>4, <1>5
<1>8. ASSUME NEW m, NEW u, m <= g[0] + t.width, Under(u, After(f[0], Tag(t)))
      PROVE  Room(rest, m, u)
  <2>1. m <= h[0] /\ Under(u, e[0])
    BY <1>3, <1>5, <1>8
  <2> QED
    BY <1>2, <1>5, <1>6, <1>7, <2>1 DEF Room
<1>9. g[0] + t.width + Shutting(After(f[0], Tag(t))) <= MaxPart
  BY <1>3
<1> HIDE DEF t
<1>10. f[0] \in Opens /\ g[0] \in Nat /\ size <= g[0] /\ Under(s, f[0])
  BY <1>1, <1>3
<1> QED
  BY <1>8, <1>9, <1>10 DEF t, rest

LEMMA UnderNone == ASSUME NEW open PROVE Under(<<>>, open)
<1> DEFINE h == [i \in 1 .. Len(<<>>) |-> 0]
<1>1. Len(<<>>) = 0 /\ 1 .. 0 = {}
  OBVIOUS
<1>2. h \in [1 .. Len(<<>>) -> Nat]
  OBVIOUS
<1> HIDE DEF h
<1>3. Threads(h, <<>>, open)
  BY <1>1 DEF Threads
<1> QED
  BY <1>2, <1>3 DEF Under

\* What closes everything it opens, and is no longer than a message, has room in an empty one.
LEMMA RoomOf ==
    ASSUME document \in Documents, NEW ps \in Seq(RealPlace), NEW tags \in Seq(Mark), NEW ns \in Seq(Nat),
           Spells(ps, tags, ns), Opened(tags) = <<>>, Total(ns) <= MaxPart
    PROVE  Room(ps, 0, <<>>)
<1> DEFINE n == Len(ps)
<1>1. n \in Nat /\ Len(tags) = n /\ Len(ns) = n
      /\ \A i \in 1 .. n : tags[i] = Tag(TokenAt(ps[i])) /\ ns[i] = TokenAt(ps[i]).width
  BY DEF Spells
<1>2. PICK f \in [0 .. Len(tags) -> Opens] :
                 /\ f[0] = <<>> /\ f[Len(tags)] = Opened(tags)
                 /\ \A i \in 1 .. Len(tags) : f[i] = After(f[i - 1], tags[i])
  BY OpenedRun
<1>3. PICK g \in [0 .. Len(ns) -> Nat] :
                 /\ g[0] = 0 /\ g[Len(ns)] = Total(ns)
                 /\ \A i \in 1 .. Len(ns) : g[i] = g[i - 1] + ns[i]
  BY TotalRun
<1>4. ASSUME NEW i \in 1 .. n
      PROVE  /\ tags[i] \in Mark /\ ns[i] \in Nat
             /\ tags[i].kind = "close" => ns[i] = EndWidth(tags[i].tag)
  <2>1. TokenAt(ps[i]) \in Token
    BY CharsType
  <2>2. tags[i] \in Mark /\ ns[i] \in Nat
    BY <1>1
  <2> DEFINE token == TokenAt(ps[i])
  <2>3. tags[i].kind = token.kind /\ tags[i].tag = token.tag
    <3>1. tags[i] = Tag(token)
      BY <1>1
    <3> HIDE DEF token
    <3>2. tags[i] = [tag |-> token.tag, kind |-> token.kind]
      BY <3>1 DEF Tag
    <3> QED
      BY <3>2
  <2>4. TokenAt(ps[i]).kind = "close" => TokenAt(ps[i]).width = EndWidth(TokenAt(ps[i]).tag)
    BY <2>1 DEF Token
  <2> QED
    BY <1>1, <2>2, <2>3, <2>4
<1> HIDE DEF n
<1> DEFINE T == {i \in 0 .. n : g[n - i] + Shutting(f[n - i]) <= MaxPart}
<1>5. 0 .. n \subseteq T
  <2>1. 0 \in T
    <3>1. 0 \in 0 .. n /\ n - 0 = n /\ g[n] = Total(ns) /\ f[n] = <<>> /\ g[n] \in Nat
      BY <1>1, <1>2, <1>3
    <3>2. Shutting(<<>>) = 0
      BY UptoStep DEF Shutting
    <3> QED
      BY <3>1, <3>2
  <2>2. ASSUME NEW i \in 0 .. n, i \in T, i < n  PROVE i + 1 \in T
    <3> DEFINE j == n - i
    <3>1. j \in 1 .. n /\ i + 1 \in 0 .. n /\ n - (i + 1) = j - 1 /\ j - 1 \in 0 .. n /\ j \in 0 .. n
      BY <1>1, <2>2
    <3>2. g[j] + Shutting(f[j]) <= MaxPart
      BY <2>2
    <3> HIDE DEF j
    <3>3. f[j] = After(f[j - 1], tags[j]) /\ g[j] = g[j - 1] + ns[j] /\ f[j - 1] \in Opens /\ g[j - 1] \in Nat
      BY <1>1, <1>2, <1>3, <3>1
    <3>4. tags[j] \in Mark /\ ns[j] \in Nat /\ (tags[j].kind = "close" => ns[j] = EndWidth(tags[j].tag))
      BY <1>4, <3>1
    <3>5. /\ Shutting(f[j - 1]) \in Nat /\ Shutting(f[j]) \in Nat
          /\ Shutting(f[j - 1]) <= Shutting(f[j]) + ns[j]
      BY <3>3, <3>4, ShuttingAfter
    <3>6. g[j - 1] + Shutting(f[j - 1]) <= MaxPart
      BY <3>2, <3>3, <3>4, <3>5, BudgetAssumption
    <3> QED
      BY <3>1, <3>6
  <2> HIDE DEF T
  <2> QED
    BY <1>1, <2>1, <2>2, Induction
<1>6. ASSUME NEW i \in 0 .. n  PROVE g[i] + Shutting(f[i]) <= MaxPart
  <2>1. n - i \in 0 .. n /\ n - (n - i) = i
    BY <1>1
  <2>2. n - i \in T
    BY <1>5, <2>1
  <2> QED
    BY <2>1, <2>2
<1>7. Under(<<>>, f[0]) /\ 0 <= g[0]
  BY <1>3, UnderNone
<1>8. \A i \in 1 .. n : /\ f[i] = After(f[i - 1], Tag(TokenAt(ps[i])))
                        /\ g[i] = g[i - 1] + TokenAt(ps[i]).width
  BY <1>1, <1>2, <1>3
<1> QED
  BY <1>1, <1>2, <1>3, <1>6, <1>7, <1>8 DEF Room, n

\* A heading and the block it is kept with have room in an empty message.
LEMMA RoomGlued ==
    ASSUME document \in Documents, NEW b \in 1 .. Len(document.blocks), NEW c \in 1 .. Len(document.blocks),
           Width(b) + 2 + Width(c) <= MaxPart
    PROVE  Room(Places(b) \o Places(-1) \o Places(c), 0, <<>>)
<1> DEFINE p == Places(b)
           q == Places(-1)
           r == Places(c)
           i == TagsIn(Html(b))
           j == TagsIn(Html(-1))
           k == TagsIn(Html(c))
           l == Widths(b)
           m == Widths(-1)
           n == Widths(c)
<1>1. b \in BlockNo /\ c \in BlockNo /\ -1 \in BlockNo /\ b # 0 /\ c # 0 /\ b > 0 /\ c > 0 /\ -1 # 0
  BY BlocksOf DEF BlockNo
<1>2. p \in Seq(RealPlace) /\ q \in Seq(RealPlace) /\ r \in Seq(RealPlace)
  BY <1>1, PlacesReal
<1>3. /\ i \in Seq(Mark) /\ j \in Seq(Mark) /\ k \in Seq(Mark)
      /\ Opened(i) = <<>> /\ Opened(j) = <<>> /\ Opened(k) = <<>>
  BY <1>1, MarksType
<1>4. /\ Spells(p, i, l) /\ Spells(q, j, m) /\ Spells(r, k, n)
      /\ l \in Seq(Nat) /\ m \in Seq(Nat) /\ n \in Seq(Nat)
      /\ Total(l) = Width(b) /\ Total(m) = 2 /\ Total(n) = Width(c)
  BY <1>1, SpellsBlock
<1>5. p \o q \o r = Cat(Cat(p, q), r)
  BY Zenon DEF Cat
<1>6. Width(b) \in Nat /\ Width(c) \in Nat
  BY BlocksOf
<1> HIDE DEF p, q, r, i, j, k, l, m, n
<1>7. Cat(p, q) \in Seq(RealPlace) /\ Cat(Cat(p, q), r) \in Seq(RealPlace)
  BY <1>2, TextCat
<1>8. Cat(i, j) \in Seq(Mark) /\ Opened(Cat(i, j)) = <<>>
  BY <1>3, CatFacts, OpenedBalanced
<1>9. Cat(Cat(i, j), k) \in Seq(Mark) /\ Opened(Cat(Cat(i, j), k)) = <<>>
  BY <1>3, <1>8, CatFacts, OpenedBalanced
<1>10. Cat(l, m) \in Seq(Nat) /\ Total(Cat(l, m)) = Width(b) + 2
  BY <1>4, TotalCat
<1>11. Cat(Cat(l, m), n) \in Seq(Nat) /\ Total(Cat(Cat(l, m), n)) = Width(b) + 2 + Width(c)
  BY <1>4, <1>10, TotalCat
<1>12. Spells(Cat(p, q), Cat(i, j), Cat(l, m))
  BY <1>2, <1>3, <1>4, SpellsCat
<1>13. Spells(Cat(Cat(p, q), r), Cat(Cat(i, j), k), Cat(Cat(l, m), n))
  BY <1>2, <1>3, <1>4, <1>7, <1>8, <1>10, <1>12, SpellsCat
<1>14. Room(Cat(Cat(p, q), r), 0, <<>>)
  BY <1>7, <1>9, <1>11, <1>13, RoomOf
<1> QED
  BY <1>5, <1>14, Zenon DEF p, q, r

-----------------------------------------------------------------------------
(* A heading is not left at the end of a message.                          *)

\* Block b of a group has to be kept with the next one.
Lead(g, b) ==
    /\ b \in 1 .. Len(document.blocks) /\ b + 1 \in 1 .. Len(document.blocks)
    /\ IsHeading(document.blocks[b]) /\ Width(b) + 2 + Width(b + 1) <= MaxPart
    /\ ~(b - 1 \in Elements(g) /\ IsHeading(document.blocks[b - 1]))

\* A message does not part such a block from the next one, nor do those of a sequence.
Kept(g, m, k) ==
    m.text # <<>> /\ k.text # <<>> /\ k.text[1].block = m.text[Len(m.text)].block + 1
        => ~Lead(g, m.text[Len(m.text)].block)
KeptParts(g, ps) == \A i \in DOMAIN ps : i + 1 \in DOMAIN ps => Kept(g, ps[i], ps[i + 1])

KeptInv ==
    /\ \A group \in Elements(plan) : KeptParts(group.blocks, group.parts)
    /\ KeptParts(Head(groups), parts)
    /\ parts # <<>> => Kept(Head(groups), parts[Len(parts)], current)

Sent == UNION {Elements(m.text) : m \in Elements(parts)}
Runs(bs) == \A i \in DOMAIN bs : i + 1 \in DOMAIN bs => bs[i + 1] = bs[i] + 1
\* What closes the tags of s adds up.
Summed(s) ==
    \A i \in DOMAIN s : s[i].closing = (IF i > 1 THEN s[i - 1].closing ELSE 0) + EndWidth(s[i].tag)
\* Text of block b may begin a message after that of Q.
Free(g, Q, b) == \A q \in Q : q.block + 1 = b => ~Lead(g, q.block)

\* The value being cut is one block, or two that have room in the message being filled.
OneBlock == \E b : (\A i \in DOMAIN tokens : tokens[i].block = b) /\ Free(Head(groups), Written, b)
TwoBlocks ==
    \E b \in 1 .. Len(document.blocks) :
        /\ \A i \in DOMAIN tokens : tokens[i].char = 1 /\ tokens[i].block \in {b, -1, b + 1}
        /\ Free(Head(groups), Sent, b) /\ \A q \in Sent : q.block # b
        /\ Room(tokens, current.size, stack)

PairInv ==
    /\ Runs(blocks) /\ \A group \in Elements(groups) : Runs(group)
    /\ ~Packing /\ blocks # <<>> =>
          /\ Elements(blocks) \subseteq Elements(Head(groups))
          /\ Written = {} \/ ~Lead(Head(groups), blocks[1] - 1)
          /\ pc = "split" => ~Lead(Head(groups), blocks[1] - 1)
    /\ Summed(stack)
    /\ pc = "split" => OneBlock \/ TwoBlocks

LeadInv == KeptInv /\ PairInv

LEMMA SameLead ==
    ASSUME document' = document
    PROVE  /\ \A g, b : Lead(g, b)' <=> Lead(g, b)
           /\ \A g, m, k : Kept(g, m, k)' <=> Kept(g, m, k)
           /\ \A g, ps : KeptParts(g, ps)' <=> KeptParts(g, ps)
           /\ \A g, Q, b : Free(g, Q, b)' <=> Free(g, Q, b)
<1>1. \A g, b : Lead(g, b)' <=> Lead(g, b)
  BY DEF Lead, Width
<1>2. \A g, m, k : Kept(g, m, k)' <=> Kept(g, m, k)
  BY <1>1 DEF Kept
<1>3. \A g, ps : KeptParts(g, ps)' <=> KeptParts(g, ps)
  BY <1>2 DEF KeptParts
<1>4. \A g, Q, b : Free(g, Q, b)' <=> Free(g, Q, b)
  BY <1>1 DEF Free
<1> QED
  BY <1>1, <1>2, <1>3, <1>4

LEMMA SentType ==
    ASSUME MarkInv
    PROVE  /\ Sent \subseteq Written /\ Sent \subseteq Place /\ Written = Sent \union Elements(current.text)
           /\ \A m \in Elements(parts) : m.text # <<>> => m.text[Len(m.text)] \in Sent
<1>1. Written = Sent \union Elements(current.text)
  BY DEF Written, Sent
<1>2. parts \in Seq(Message) /\ Written \subseteq Place
  BY WrittenType
<1>3. ASSUME NEW m \in Elements(parts), m.text # <<>>  PROVE m.text[Len(m.text)] \in Sent
  <2>1. m \in Message
    BY <1>2, <1>3 DEF Elements
  <2>2. m.text \in Seq(Place)
    BY <2>1, MessageFields
  <2>3. m.text[Len(m.text)] \in Elements(m.text)
    BY <1>3, <2>2, LastElement
  <2> QED
    BY <1>3, <2>3 DEF Sent
<1> QED
  BY <1>1, <1>2, <1>3

\* What does not change the groups.
LEMMA KeptNext ==
    ASSUME document' = document, plan' = plan, groups' = groups, KeptInv,
           KeptParts(Head(groups), parts'),
           parts' # <<>> => Kept(Head(groups), parts'[Len(parts')], current')
    PROVE  KeptInv'
<1>1. \A group \in Elements(plan') : KeptParts(group.blocks, group.parts)'
  BY SameLead DEF KeptInv
<1>2. KeptParts(Head(groups), parts)'
  BY SameLead
<1>3. parts' # <<>> => Kept(Head(groups), parts[Len(parts)], current)'
  BY SameLead
<1> QED
  BY <1>1, <1>2, <1>3 DEF KeptInv

\* Text is added to the message being filled.
LEMMA KeptExtended ==
    ASSUME MarkInv, KeptInv, document' = document, plan' = plan, groups' = groups, parts' = parts,
           NEW text \in Seq(Place), current'.text = Cat(current.text, text),
           text # <<>> => Free(Head(groups), Sent, text[1].block)
    PROVE  KeptInv' /\ Sent' = Sent /\ Written' \subseteq Written \union Elements(text)
<1>1. current \in Message /\ parts \in Seq(Message) /\ current.text \in Seq(Place)
  BY WrittenType, MessageFields
<1>2. /\ Elements(current'.text) \subseteq Elements(current.text) \union Elements(text)
      /\ current.text # <<>> => current'.text # <<>> /\ current'.text[1] = current.text[1]
      /\ current.text = <<>> => current'.text = text
  <2>1. current.text = <<>> => Cat(current.text, text) = text
    BY CatEmpty
  <2> QED
    BY <1>1, <2>1, CatElements
<1>3. ASSUME parts # <<>>  PROVE Kept(Head(groups), parts[Len(parts)], current')
  <2> DEFINE m == parts[Len(parts)]
             g == Head(groups)
  <2>1. m \in Elements(parts) /\ Kept(g, m, current)
    BY <1>1, <1>3, LastElement DEF KeptInv
  <2>2. m.text # <<>> => m.text[Len(m.text)] \in Sent
    BY <2>1, SentType
  <2>3. text # <<>> => Free(g, Sent, text[1].block)
    OBVIOUS
  <2> HIDE DEF m, g
  <2>4. CASE current.text = <<>>
    <3>1. current'.text = text
      BY <1>2, <2>4
    <3>2. ASSUME m.text # <<>>, text # <<>>, text[1].block = m.text[Len(m.text)].block + 1
          PROVE  ~Lead(g, m.text[Len(m.text)].block)
      BY <2>2, <2>3, <3>2 DEF Free
    <3> QED
      BY <3>1, <3>2 DEF Kept, m, g
  <2>5. CASE current.text # <<>>
    <3>1. current'.text # <<>> /\ current'.text[1] = current.text[1]
      BY <1>2, <2>5
    <3> QED
      BY <2>1, <2>5, <3>1 DEF Kept, m, g
  <2> QED
    BY <2>4, <2>5
<1>4. Sent' = Sent /\ Written' \subseteq Written \union Elements(text)
  BY <1>2 DEF Written, Sent
<1>5. KeptParts(Head(groups), parts')
  BY DEF KeptInv
<1> QED
  BY <1>3, <1>4, <1>5, KeptNext

LEMMA KeptAppend ==
    ASSUME NEW g, NEW ps \in Seq(Message), NEW m \in Message, KeptParts(g, ps),
           ps # <<>> => Kept(g, ps[Len(ps)], m)
    PROVE  KeptParts(g, Append(ps, m))
<1> DEFINE qs == Append(ps, m)
           n == Len(ps)
<1>1. /\ n \in Nat /\ DOMAIN ps = 1 .. n /\ DOMAIN qs = 1 .. n + 1
      /\ \A i \in 1 .. n : qs[i] = ps[i]
      /\ qs[n + 1] = m
  OBVIOUS
<1> HIDE DEF qs
<1>2. ASSUME NEW i \in DOMAIN qs, i + 1 \in DOMAIN qs
      PROVE  Kept(g, qs[i], qs[i + 1])
  <2>1. i \in DOMAIN ps /\ i \in Nat /\ qs[i] = ps[i]
    BY <1>1, <1>2
  <2>2. CASE i + 1 \in DOMAIN ps
    <3>1. qs[i + 1] = ps[i + 1]
      BY <1>1, <2>2
    <3> QED
      BY <2>1, <2>2, <3>1 DEF KeptParts
  <2>3. CASE i + 1 \notin DOMAIN ps
    <3>1. i = n /\ ps # <<>>
      BY <1>1, <1>2, <2>1, <2>3
    <3>2. qs[i + 1] = m
      BY <1>1, <3>1
    <3> QED
      BY <2>1, <3>1, <3>2
  <2> QED
    BY <2>2, <2>3
<1> QED
  BY <1>2 DEF KeptParts, qs

\* A message is begun.
LEMMA KeptBegun ==
    ASSUME TypeOK, MarkInv, KeptInv, document' = document, plan' = plan, groups' = groups,
           parts' = Flushed, NEW text \in Seq(Place), current'.text = text,
           text # <<>> => Free(Head(groups), Written, text[1].block)
    PROVE  /\ KeptInv' /\ Sent' \subseteq Written /\ Written' \subseteq Written \union Elements(text)
<1> DEFINE g == Head(groups)
<1>1. current \in Message /\ parts \in Seq(Message) /\ current.text \in Seq(Place) /\ current.size \in Nat
  BY WrittenType, MessageFields
<1>2. text # <<>> => Free(g, Written, text[1].block)
  OBVIOUS
<1>3. KeptParts(g, parts) /\ (parts # <<>> => Kept(g, parts[Len(parts)], current))
  BY DEF KeptInv
<1> HIDE DEF g
<1>4. ASSUME NEW m \in Elements(parts) \union {current}, NEW k, k.text = m.text
      PROVE  Kept(g, k, current')
  <2>1. m.text # <<>> => m.text[Len(m.text)] \in Written
    BY <1>4, WrittenType
  <2> QED
    BY <1>2, <1>4, <2>1 DEF Kept, Free
<1>5. CASE current.size > 0
  <2> DEFINE closed == Closed(current)
  <2>1. closed.text = current.text /\ closed \in Message
    BY <1>1, ClosedIs DEF MarkInv, Shut
  <2>2. parts' = Append(parts, closed)
    BY <1>5 DEF Flushed
  <2> HIDE DEF closed
  <2>3. /\ parts' # <<>> /\ parts'[Len(parts')] = closed
    BY <1>1, <2>1, <2>2
  <2>4. parts \in Seq(Elements(parts))
    BY <1>1 DEF Elements
  <2>5. Elements(parts') = Elements(parts) \union {closed}
    BY <2>2, <2>4, AppendElement
  <2>6. parts # <<>> => Kept(g, parts[Len(parts)], closed)
    BY <1>3, <2>1 DEF Kept
  <2>7. KeptParts(g, parts')
    BY <1>1, <1>3, <2>1, <2>2, <2>6, KeptAppend
  <2>8. Kept(g, parts'[Len(parts')], current')
    BY <1>4, <2>1, <2>3
  <2>9. Sent' = Sent \union Elements(current.text)
    BY <2>1, <2>5 DEF Sent
  <2>10. Sent' = Written /\ Written' = Sent' \union Elements(text)
    BY <2>9, SentType DEF Sent, Written
  <2> QED
    BY <2>7, <2>8, <2>10, KeptNext DEF g
<1>6. CASE ~(current.size > 0)
  <2>1. parts' = parts
    BY <1>6 DEF Flushed
  <2>2. parts # <<>> => Kept(g, parts[Len(parts)], current')
    BY <1>1, <1>4, LastElement
  <2>3. Sent' = Sent /\ Written' = Sent' \union Elements(text)
    BY <2>1 DEF Sent, Written
  <2>4. KeptInv'
    BY <1>3, <2>1, <2>2, KeptNext DEF g
  <2> QED
    BY <2>3, <2>4, SentType
<1> QED
  BY <1>5, <1>6

\* No text is in messages.
LEMMA KeptNothing ==
    ASSUME document' = document, parts' = <<>>, current'.text = <<>>,
           \A group \in Elements(plan') : KeptParts(group.blocks, group.parts)
    PROVE  KeptInv' /\ Written' = {}
<1>1. Elements(<<>>) = {} /\ DOMAIN parts' = {}
  BY EmptyElements
<1>2. \A group \in Elements(plan') : KeptParts(group.blocks, group.parts)'
  BY SameLead
<1>3. Written' = {}
  BY <1>1 DEF Written
<1>4. KeptParts(Head(groups'), parts')
  BY <1>1 DEF KeptParts
<1>5. KeptParts(Head(groups), parts)'
  BY <1>4, SameLead
<1> QED
  BY <1>2, <1>3, <1>5 DEF KeptInv

LEMMA SummedEnds ==
    ASSUME NEW s \in Seq(Frame), Summed(s)
    PROVE  /\ s # <<>> => /\ Summed(Front(s)) /\ Len(s) \in Nat \ {0}
                          /\ Last(s).closing - (IF Len(s) > 1 THEN s[Len(s) - 1].closing ELSE 0)
                                = EndWidth(Last(s).tag)
           /\ \A x \in Frame : x.closing = ClosingOf(s) + EndWidth(x.tag) => Summed(Append(s, x))
<1> DEFINE n == Len(s)
<1>1. /\ n \in Nat /\ DOMAIN s = 1 .. n
      /\ \A i \in 1 .. n : s[i] \in Frame /\ s[i].closing \in Nat
  <2>1. n \in Nat /\ DOMAIN s = 1 .. n /\ \A i \in 1 .. n : s[i] \in Frame
    OBVIOUS
  <2>2. \A x \in Frame : x.closing \in Nat
    BY DEF Frame
  <2> QED
    BY <2>1, <2>2
<1>2. \A i \in 1 .. n : s[i].closing = (IF i > 1 THEN s[i - 1].closing ELSE 0) + EndWidth(s[i].tag)
  BY <1>1 DEF Summed
<1>3. \A tag : EndWidth(tag) \in Nat
  BY DEF EndWidth
<1>4. ASSUME s # <<>>
      PROVE  /\ Summed(Front(s)) /\ n \in Nat \ {0}
             /\ Last(s).closing - (IF n > 1 THEN s[n - 1].closing ELSE 0) = EndWidth(Last(s).tag)
  <2> DEFINE u == Front(s)
  <2>1. /\ n \in Nat \ {0} /\ u \in Seq(Frame) /\ Len(u) = n - 1 /\ Last(s) = s[n]
        /\ \A i \in 1 .. n - 1 : u[i] = s[i]
    BY <1>4, FrontIs
  <2> HIDE DEF u
  <2>2. DOMAIN u = 1 .. n - 1
    BY <2>1
  <2>3. ASSUME NEW i \in DOMAIN u
        PROVE  u[i].closing = (IF i > 1 THEN u[i - 1].closing ELSE 0) + EndWidth(u[i].tag)
    <3>1. i \in 1 .. n - 1 /\ i \in 1 .. n /\ u[i] = s[i] /\ (i > 1 => u[i - 1] = s[i - 1])
      BY <1>1, <2>1, <2>2
    <3> QED
      BY <1>2, <3>1
  <2>4. s[n].closing = (IF n > 1 THEN s[n - 1].closing ELSE 0) + EndWidth(s[n].tag)
    BY <1>2, <2>1
  <2>5. (IF n > 1 THEN s[n - 1].closing ELSE 0) \in Nat /\ EndWidth(s[n].tag) \in Nat
    BY <1>1, <1>3, <2>1
  <2> HIDE DEF n
  <2>6. Last(s).closing - (IF n > 1 THEN s[n - 1].closing ELSE 0) = EndWidth(Last(s).tag)
    BY <2>1, <2>4, <2>5
  <2> QED
    BY <2>1, <2>3, <2>6 DEF Summed, u
<1>5. ASSUME NEW x \in Frame, x.closing = ClosingOf(s) + EndWidth(x.tag)  PROVE Summed(Append(s, x))
  <2> DEFINE u == Append(s, x)
  <2>1. /\ DOMAIN u = 1 .. n + 1 /\ u[n + 1] = x /\ \A i \in 1 .. n : u[i] = s[i]
    BY <1>1
  <2>2. ClosingOf(s) = IF n + 1 > 1 THEN s[n].closing ELSE 0
    BY <1>1 DEF ClosingOf, Last
  <2> HIDE DEF u, n
  <2>3. ASSUME NEW i \in DOMAIN u
        PROVE  u[i].closing = (IF i > 1 THEN u[i - 1].closing ELSE 0) + EndWidth(u[i].tag)
    <3>1. CASE i \in 1 .. n
      <4>1. u[i] = s[i] /\ (i > 1 => u[i - 1] = s[i - 1])
        BY <1>1, <2>1, <3>1
      <4> QED
        BY <1>2, <3>1, <4>1
    <3>2. CASE i \notin 1 .. n
      <4>1. i = n + 1 /\ u[i] = x /\ (i > 1 => n \in 1 .. n /\ i - 1 = n /\ u[i - 1] = s[n])
        BY <1>1, <2>1, <2>3, <3>2
      <4> QED
        BY <1>5, <2>2, <4>1
    <3> QED
      BY <3>1, <3>2
  <2> QED
    BY <2>3 DEF Summed, u
<1> QED
  BY <1>4, <1>5

\* The types of what is read.
LEMMA ReadTypes ==
    ASSUME IInv, MarkInv, tokens # <<>>
    PROVE  /\ document \in Documents /\ tokens \in Seq(RealPlace) /\ tokens[1] \in RealPlace
           /\ TokenAt(tokens[1]) \in Token /\ TokenAt(tokens[1]).width \in Nat
           /\ TokenAt(tokens[1]).tag \in HtmlTag
           /\ TokenAt(tokens[1]).kind = "close" =>
                 TokenAt(tokens[1]).width = EndWidth(TokenAt(tokens[1]).tag)
           /\ EndWidth(TokenAt(tokens[1]).tag) \in Nat
           /\ Tag(TokenAt(tokens[1])) \in Mark
           /\ Tag(TokenAt(tokens[1])).tag = TokenAt(tokens[1]).tag
           /\ Tag(TokenAt(tokens[1])).kind = TokenAt(tokens[1]).kind
           /\ current.size \in Nat /\ Closing \in Nat /\ Opening \in Nat /\ stack \in Seq(Frame)
           /\ Closing = ClosingOf(stack) /\ MaxPart \in Nat
<1>1. TypeOK /\ document \in Documents /\ tokens \in Seq(RealPlace)
  BY TextTypes DEF IInv, PlanInv
<1>2. tokens[1] \in RealPlace
  BY <1>1
<1>3. TokenAt(tokens[1]) \in Token
  BY <1>1, <1>2, CharsType
<1>4. Opening \in Nat /\ Closing \in Nat /\ MaxPart \in Nat /\ stack \in Seq(Frame) /\ current.size \in Nat
  BY <1>1, Lengths, StackType DEF TypeOK
<1>5. Closing = ClosingOf(stack)
  BY DEF Closing, ClosingOf
<1> DEFINE token == TokenAt(tokens[1])
<1>6. token \in Token
  BY <1>3
<1> HIDE DEF token
<1>7. /\ token.width \in Nat /\ token.tag \in HtmlTag /\ EndWidth(token.tag) \in Nat
      /\ token.kind = "close" => token.width = EndWidth(token.tag)
  BY <1>6 DEF Token, EndWidth
<1>8. Tag(TokenAt(tokens[1])) \in Mark /\ Tag(TokenAt(tokens[1])).tag = TokenAt(tokens[1]).tag
      /\ Tag(TokenAt(tokens[1])).kind = TokenAt(tokens[1]).kind
  BY <1>1, TagType
<1> QED
  BY <1>1, <1>2, <1>3, <1>4, <1>5, <1>7, <1>8 DEF token

LEMMA AddedSize ==
    ASSUME NEW part, NEW width, NEW text, NEW tags
    PROVE  Added(part, width, text, tags).size = part.size + width
BY DEF Added

LEMMA OpenTagRoom ==
    ASSUME IInv, MarkInv, OpenTag, Room(tokens, current.size, stack)
    PROVE  parts' = parts /\ current'.text = current.text /\ Room(Tail(tokens), current'.size, stack')
<1> DEFINE token == TokenAt(tokens[1])
           ends == EndWidth(token.tag)
           full == current.size + token.width + Closing + ends > MaxPart
           part == IF full THEN Reopened ELSE current
           frame == [tag |-> token.tag, opening |-> Opening + token.width, closing |-> Closing + ends]
<1>1. tokens # <<>> /\ token.kind = "open"
  BY DEF OpenTag, Reads
<1>2. /\ document \in Documents /\ tokens \in Seq(RealPlace) /\ token \in Token /\ token.width \in Nat
      /\ token.tag \in HtmlTag /\ ends \in Nat /\ Tag(token).tag = token.tag /\ Tag(token).kind = token.kind
      /\ current.size \in Nat /\ Closing \in Nat /\ Opening \in Nat /\ stack \in Seq(Frame)
      /\ Closing = ClosingOf(stack) /\ MaxPart \in Nat
  BY <1>1, ReadTypes
<1>3. PICK open \in Opens, n \in Nat :
              /\ current.size <= n /\ Under(stack, open)
              /\ n + token.width + Shutting(After(open, Tag(token))) <= MaxPart
              /\ \A m, u : /\ m <= n + token.width
                           /\ Under(u, After(open, Tag(token)))
                           => Room(Tail(tokens), m, u)
  BY <1>1, <1>2, RoomTail
<1>4. After(open, Tag(token)) = Append(open, token.tag)
  BY <1>1, <1>2 DEF After
<1>5. Shutting(After(open, Tag(token))) = Shutting(open) + ends /\ Shutting(open) \in Nat
  BY <1>2, <1>4, ShuttingAppend
<1>6. Closing <= Shutting(open)
  BY <1>2, <1>3, UnderShuts
<1> HIDE DEF token, ends
<1>7. ~full
  BY <1>2, <1>3, <1>5, <1>6
<1>8. CASE TooWide(token) /\ UNCHANGED <<stack, parts, current, deep>>
  <2>1. Under(stack, After(open, Tag(token)))
    BY <1>2, <1>3, <1>4, UnderSkip
  <2>2. current.size <= n + token.width
    BY <1>2, <1>3
  <2> QED
    BY <1>3, <1>8, <2>1, <2>2
<1>9. CASE /\ parts' = IF full THEN Flushed ELSE parts
           /\ current' = Added(part, token.width, <<>>, <<Tag(token)>>)
           /\ stack' = Append(stack, frame)
  <2>1. parts' = parts /\ current' = Added(current, token.width, <<>>, <<Tag(token)>>)
    BY <1>7, <1>9
  <2>2. current'.size = current.size + token.width /\ current'.text = Cat(current.text, <<>>)
    BY <2>1, AddedSize, AddedText
  <2>3. current'.text = current.text
    BY <2>2, TextTypes, CatEmpty
  <2>4. frame \in Frame /\ frame.tag = token.tag /\ frame.closing = ClosingOf(stack) + EndWidth(frame.tag)
    BY <1>2 DEF Frame, ends
  <2> HIDE DEF frame
  <2>5. Under(stack', Append(open, token.tag))
    BY <1>2, <1>3, <1>9, <2>4, UnderPush
  <2>6. current'.size <= n + token.width
    BY <1>2, <1>3, <2>2
  <2> QED
    BY <1>3, <1>4, <2>1, <2>3, <2>5, <2>6
<1> QED
  BY <1>8, <1>9 DEF OpenTag, token, ends

LEMMA CloseTagRoom ==
    ASSUME IInv, MarkInv, CloseTag, Summed(stack), Room(tokens, current.size, stack)
    PROVE  Room(Tail(tokens), current'.size, stack')
<1> DEFINE token == TokenAt(tokens[1])
           mine == stack # <<>> /\ Last(stack).tag = token.tag
           ends == Closing - (IF Len(stack) > 1 THEN stack[Len(stack) - 1].closing ELSE 0)
<1>1. tokens # <<>> /\ token.kind = "close"
  BY DEF CloseTag, Reads
<1>2. /\ document \in Documents /\ tokens \in Seq(RealPlace) /\ token.width \in Nat
      /\ token.tag \in HtmlTag /\ Tag(token) \in Mark /\ Tag(token).tag = token.tag /\ Tag(token).kind = token.kind
      /\ token.width = EndWidth(token.tag) /\ current.size \in Nat /\ stack \in Seq(Frame)
  BY <1>1, ReadTypes
<1>3. PICK open \in Opens, n \in Nat :
              /\ current.size <= n /\ Under(stack, open)
              /\ n + token.width + Shutting(After(open, Tag(token))) <= MaxPart
              /\ \A m, u : /\ m <= n + token.width
                           /\ Under(u, After(open, Tag(token)))
                           => Room(Tail(tokens), m, u)
  BY <1>1, <1>2, RoomTail
<1>4. stack' = IF mine THEN Front(stack) ELSE stack
  BY DEF CloseTag
<1>5. current'.size <= n + token.width
  <2>1. CASE mine
    <3>1. ends = token.width
      <4>1. Last(stack).closing - (IF Len(stack) > 1 THEN stack[Len(stack) - 1].closing ELSE 0)
                = EndWidth(Last(stack).tag)
        BY <1>2, <2>1, SummedEnds
      <4> QED
        BY <1>2, <2>1, <4>1 DEF Closing
    <3>2. current' = Added(current, ends, <<>>, <<Tag(token)>>)
      BY <2>1 DEF CloseTag
    <3> HIDE DEF ends, token
    <3>3. current'.size = current.size + ends
      BY <3>2, AddedSize
    <3> QED
      BY <1>2, <1>3, <3>1, <3>3
  <2>2. CASE ~mine
    <3>1. current' = current
      BY <2>2 DEF CloseTag
    <3> QED
      BY <1>2, <1>3, <3>1
  <2> QED
    BY <2>1, <2>2
<1> HIDE DEF token, ends
<1>6. stack' = IF stack # <<>> /\ Last(stack).tag = Tag(token).tag THEN Front(stack) ELSE stack
  BY <1>2, <1>4
<1>7. Under(stack', After(open, Tag(token)))
  BY <1>1, <1>2, <1>3, <1>6, UnderClose
<1> QED
  BY <1>3, <1>5, <1>7

LEMMA UnitRoom ==
    ASSUME IInv, MarkInv, Reads("unit"), Room(tokens, current.size, stack)
    PROVE  /\ FitsHere(TokenAt(tokens[1]))
           /\ Room(Tail(tokens), current.size + TokenAt(tokens[1]).width, stack)
<1> DEFINE token == TokenAt(tokens[1])
<1>1. tokens # <<>> /\ token.kind = "unit"
  BY DEF Reads
<1>2. /\ document \in Documents /\ tokens \in Seq(RealPlace) /\ token.width \in Nat
      /\ Tag(token).kind = token.kind
      /\ current.size \in Nat /\ Closing \in Nat /\ stack \in Seq(Frame)
      /\ Closing = ClosingOf(stack) /\ MaxPart \in Nat
  BY <1>1, ReadTypes
<1>3. PICK open \in Opens, n \in Nat :
              /\ current.size <= n /\ Under(stack, open)
              /\ n + token.width + Shutting(After(open, Tag(token))) <= MaxPart
              /\ \A m, u : /\ m <= n + token.width
                           /\ Under(u, After(open, Tag(token)))
                           => Room(Tail(tokens), m, u)
  BY <1>1, <1>2, RoomTail
<1>4. After(open, Tag(token)) = open
  BY <1>1, <1>2 DEF After
<1>5. Closing <= Shutting(open) /\ Shutting(open) \in Nat
  BY <1>2, <1>3, UnderShuts
<1> HIDE DEF token
<1>6. current.size + token.width <= n + token.width /\ current.size + token.width + Closing <= MaxPart
  BY <1>2, <1>3, <1>4, <1>5
<1> QED
  BY <1>3, <1>4, <1>6 DEF FitsHere, token

\* Text of the piece that is read goes to the message being filled, or to a new one.
LEMMA KeptPassed ==
    ASSUME IInv, MarkInv, KeptInv, UNCHANGED Rest, tokens # <<>>, NEW text \in Seq(Place),
           \A p \in Elements(text) : p.block = tokens[1].block /\ p.block # -1,
           \/ /\ parts' = parts /\ current'.text = Cat(current.text, text)
              /\ OneBlock \/ TwoBlocks
           \/ parts' = Flushed /\ current'.text = text /\ OneBlock
    PROVE  KeptInv' /\ Written' \subseteq Written \union Elements(text) /\ (parts' = parts => Sent' = Sent)
<1>1. TypeOK /\ document' = document /\ plan' = plan /\ groups' = groups
  BY DEF Rest, IInv, PlanInv
<1>2. 1 \in DOMAIN tokens
  <2>1. tokens \in Seq(RealPlace)
    BY TextTypes
  <2> QED
    BY <2>1
<1>3. text # <<>> => text[1].block = tokens[1].block /\ text[1].block # -1
  <2>1. text # <<>> => text[1] \in Elements(text)
    BY DEF Elements
  <2> QED
    BY <2>1
<1>4. OneBlock => Free(Head(groups), Written, tokens[1].block) /\ Free(Head(groups), Sent, tokens[1].block)
  <2>1. OneBlock => Free(Head(groups), Written, tokens[1].block)
    BY <1>2 DEF OneBlock
  <2> QED
    BY <2>1, SentType DEF Free
<1>5. ASSUME TwoBlocks, tokens[1].block # -1  PROVE Free(Head(groups), Sent, tokens[1].block)
  <2>1. PICK b \in 1 .. Len(document.blocks) :
        /\ \A i \in DOMAIN tokens : tokens[i].char = 1 /\ tokens[i].block \in {b, -1, b + 1}
        /\ Free(Head(groups), Sent, b) /\ \A q \in Sent : q.block # b
    BY <1>5 DEF TwoBlocks
  <2>2. CASE tokens[1].block = b
    BY <2>1, <2>2
  <2>3. CASE tokens[1].block = b + 1
    <3>1. \A q \in Sent : q.block \in Int /\ q.block # b
      BY <2>1, SentType DEF Place
    <3>2. b \in Int
      OBVIOUS
    <3> QED
      BY <2>3, <3>1, <3>2 DEF Free
  <2> QED
    BY <1>2, <1>5, <2>1, <2>2, <2>3
<1>6. Sent = Sent /\ (parts' = parts => Sent' = Sent)
  BY DEF Sent
<1>7. CASE parts' = parts /\ current'.text = Cat(current.text, text) /\ (OneBlock \/ TwoBlocks)
  <2>1. text # <<>> => Free(Head(groups), Sent, text[1].block)
    BY <1>3, <1>4, <1>5, <1>7
  <2> QED
    BY <1>1, <1>6, <1>7, <2>1, KeptExtended
<1>8. CASE parts' = Flushed /\ current'.text = text /\ OneBlock
  <2>1. text # <<>> => Free(Head(groups), Written, text[1].block)
    BY <1>3, <1>4, <1>8
  <2> QED
    BY <1>1, <1>6, <1>8, <2>1, KeptBegun
<1> QED
  BY <1>7, <1>8

\* A piece of one block, or of two, is read, as far as it is said by text.
LEMMA OneBlockNext ==
    ASSUME MarkInv, UNCHANGED Rest, tokens # <<>>, tokens \in Seq(RealPlace), OneBlock,
           NEW text, \A p \in Elements(text) : p.block = tokens[1].block,
           Written' \subseteq Written \union Elements(text),
           \A i \in DOMAIN tokens' : \E j \in DOMAIN tokens : tokens'[i].block = tokens[j].block
    PROVE  OneBlock'
<1>1. PICK b : (\A i \in DOMAIN tokens : tokens[i].block = b) /\ Free(Head(groups), Written, b)
  BY DEF OneBlock
<1>2. \A i \in DOMAIN tokens' : tokens'[i].block = b
  BY <1>1
<1>3. 1 \in DOMAIN tokens /\ tokens[1].block = b /\ b \in Int
  <2>1. 1 \in DOMAIN tokens /\ tokens[1] \in RealPlace
    OBVIOUS
  <2> QED
    BY <1>1, <2>1 DEF RealPlace, Place
<1>4. Free(Head(groups), Written', b)
  BY <1>1, <1>3 DEF Free
<1>5. document' = document /\ groups' = groups
  BY DEF Rest
<1>6. Free(Head(groups), Written, b)'
  BY <1>4, <1>5, SameLead
<1> QED
  BY <1>2, <1>6 DEF OneBlock

LEMMA TwoBlocksNext ==
    ASSUME UNCHANGED Rest, tokens # <<>>, tokens \in Seq(RealPlace), TwoBlocks, tokens' = Tail(tokens),
           Sent' = Sent, Room(Tail(tokens), current'.size, stack')
    PROVE  TwoBlocks'
<1>1. PICK b \in 1 .. Len(document.blocks) :
        /\ \A i \in DOMAIN tokens : tokens[i].char = 1 /\ tokens[i].block \in {b, -1, b + 1}
        /\ Free(Head(groups), Sent, b) /\ \A q \in Sent : q.block # b
  BY DEF TwoBlocks
<1>2. \A i \in DOMAIN tokens' : tokens'[i].char = 1 /\ tokens'[i].block \in {b, -1, b + 1}
  <2>1. \A i \in DOMAIN tokens' : i + 1 \in DOMAIN tokens /\ tokens'[i] = tokens[i + 1]
    BY TailElements
  <2> QED
    BY <1>1, <2>1
<1>3. document' = document /\ groups' = groups
  BY DEF Rest
<1>4. Free(Head(groups), Sent, b)'
  BY <1>1, <1>3, SameLead
<1>5. Room(tokens, current.size, stack)'
  BY <1>3, SameRoom
<1> QED
  BY <1>1, <1>2, <1>3, <1>4, <1>5 DEF TwoBlocks

\* What is being cut goes on.
LEMMA PairPassed ==
    ASSUME PairInv, pc = "split", UNCHANGED Rest, Summed(stack)', (OneBlock \/ TwoBlocks)'
    PROVE  PairInv'
<1>1. document' = document /\ groups' = groups /\ blocks' = blocks /\ pc' = pc /\ pc = "split"
  BY DEF Rest
<1>2. blocks # <<>> => /\ Elements(blocks) \subseteq Elements(Head(groups))
                       /\ ~Lead(Head(groups), blocks[1] - 1)
  BY DEF PairInv, Packing
<1>3. blocks' # <<>> => ~Lead(Head(groups), blocks[1] - 1)'
  BY <1>1, <1>2, SameLead
<1>4. blocks' # <<>> => Elements(blocks') \subseteq Elements(Head(groups'))
  BY <1>1, <1>2
<1>5. Runs(blocks') /\ \A group \in Elements(groups') : Runs(group)
  BY <1>1 DEF PairInv
<1> QED
  BY <1>1, <1>3, <1>4, <1>5 DEF PairInv, Runs

LEMMA TagLeads ==
    ASSUME IInv, MarkInv, LeadInv, UNCHANGED Rest, pc = "split", tokens # <<>>, tokens' = Tail(tokens),
           Summed(stack)',
           \/ parts' = parts /\ current'.text = current.text
           \/ parts' = Flushed /\ current'.text = <<>>,
           Room(tokens, current.size, stack) =>
               parts' = parts /\ current'.text = current.text /\ Room(Tail(tokens), current'.size, stack')
    PROVE  LeadInv'
<1> DEFINE none == <<>>
<1>1. none \in Seq(Place) /\ Elements(none) = {} /\ none = <<>> /\ Cat(current.text, none) = current.text
      /\ tokens \in Seq(RealPlace)
  BY TextTypes, EmptySeq, EmptyElements, CatEmpty
<1>2. \A i \in DOMAIN tokens' : \E j \in DOMAIN tokens : tokens'[i].block = tokens[j].block
  <2>1. \A i \in DOMAIN tokens' : i + 1 \in DOMAIN tokens /\ tokens'[i] = tokens[i + 1]
    BY <1>1, TailElements
  <2> QED
    BY <2>1
<1>3. OneBlock \/ TwoBlocks
  BY DEF LeadInv, PairInv
<1> HIDE DEF none
<1>4. CASE OneBlock
  <2>1. KeptInv' /\ Written' \subseteq Written \union Elements(none)
    BY <1>1, <1>4, KeptPassed DEF LeadInv
  <2>2. OneBlock'
    BY <1>1, <1>2, <1>4, <2>1, OneBlockNext
  <2> QED
    BY <2>1, <2>2, PairPassed DEF LeadInv
<1>5. CASE TwoBlocks
  <2>1. parts' = parts /\ current'.text = current.text /\ Room(Tail(tokens), current'.size, stack')
    BY <1>5 DEF TwoBlocks
  <2>2. KeptInv' /\ Sent' = Sent
    BY <1>1, <1>5, <2>1, KeptPassed DEF LeadInv
  <2>3. TwoBlocks'
    BY <1>1, <1>5, <2>1, <2>2, TwoBlocksNext
  <2> QED
    BY <2>2, <2>3, PairPassed DEF LeadInv
<1> QED
  BY <1>3, <1>4, <1>5

LEMMA OpenTagLeads == ASSUME IInv, MarkInv, LeadInv, OpenTag PROVE LeadInv'
<1> DEFINE token == TokenAt(tokens[1])
           ends == EndWidth(token.tag)
           full == current.size + token.width + Closing + ends > MaxPart
           part == IF full THEN Reopened ELSE current
           frame == [tag |-> token.tag, opening |-> Opening + token.width, closing |-> Closing + ends]
<1>1. /\ TypeOK /\ UNCHANGED Rest /\ tokens # <<>> /\ tokens' = Tail(tokens) /\ pc = "split"
  BY DEF OpenTag, Reads, IInv, PlanInv
<1>2. /\ token.width \in Nat /\ token.tag \in HtmlTag /\ ends \in Nat /\ Closing \in Nat /\ Opening \in Nat
      /\ stack \in Seq(Frame) /\ Closing = ClosingOf(stack)
  BY <1>1, ReadTypes
<1>3. Summed(stack) /\ (stack' = stack => Summed(stack'))
  BY DEF LeadInv, PairInv
<1>4. Room(tokens, current.size, stack) =>
               parts' = parts /\ current'.text = current.text /\ Room(Tail(tokens), current'.size, stack')
  BY OpenTagRoom
<1>5. CASE UNCHANGED <<stack, parts, current, deep>>
  <2>1. Summed(stack)'
    BY <1>3, <1>5
  <2> QED
    BY <1>1, <1>4, <1>5, <2>1, TagLeads
<1>6. CASE /\ parts' = IF full THEN Flushed ELSE parts
           /\ current' = Added(part, token.width, <<>>, <<Tag(token)>>)
           /\ stack' = Append(stack, frame)
  <2>1. part.text = (IF full THEN <<>> ELSE current.text) /\ part.text \in Seq(Place)
    BY <1>1, ReopenedIs, TextTypes, EmptySeq
  <2>2. current'.text = Cat(part.text, <<>>)
    BY <1>6, AddedText
  <2>3. current'.text = part.text
    BY <2>1, <2>2, CatEmpty
  <2>4. frame \in Frame /\ frame.closing = ClosingOf(stack) + EndWidth(frame.tag)
    BY <1>2 DEF Frame
  <2> HIDE DEF frame
  <2>5. Summed(Append(stack, frame))
    BY <1>2, <1>3, <2>4, SummedEnds
  <2>6. Summed(stack)'
    BY <1>6, <2>5 DEF Summed
  <2> QED
    BY <1>1, <1>4, <1>6, <2>1, <2>3, <2>6, TagLeads
<1> QED
  BY <1>5, <1>6 DEF OpenTag

LEMMA CloseTagLeads == ASSUME IInv, MarkInv, LeadInv, CloseTag PROVE LeadInv'
<1> DEFINE token == TokenAt(tokens[1])
           mine == stack # <<>> /\ Last(stack).tag = token.tag
           ends == Closing - (IF Len(stack) > 1 THEN stack[Len(stack) - 1].closing ELSE 0)
<1>1. UNCHANGED Rest /\ tokens # <<>> /\ tokens' = Tail(tokens) /\ parts' = parts /\ pc = "split"
  BY DEF CloseTag, Reads
<1>2. stack \in Seq(Frame) /\ Summed(stack)
  BY <1>1, ReadTypes DEF LeadInv, PairInv
<1>3. stack' = (IF mine THEN Front(stack) ELSE stack)
  BY DEF CloseTag
<1>4. Summed(stack)'
  <2>1. Summed(stack')
    BY <1>2, <1>3, SummedEnds
  <2> QED
    BY <2>1 DEF Summed
<1>5. current'.text = current.text
  <2>1. CASE mine
    <3>1. current' = Added(current, ends, <<>>, <<Tag(token)>>)
      BY <2>1 DEF CloseTag
    <3>2. current'.text = Cat(current.text, <<>>) /\ current.text \in Seq(Place)
      BY <3>1, AddedText, TextTypes
    <3> QED
      BY <3>2, CatEmpty
  <2>2. CASE ~mine
    BY <2>2 DEF CloseTag
  <2> QED
    BY <2>1, <2>2
<1>6. Room(tokens, current.size, stack) => Room(Tail(tokens), current'.size, stack')
  BY <1>2, CloseTagRoom
<1> QED
  BY <1>1, <1>4, <1>5, <1>6, TagLeads

LEMMA UnitLeads == ASSUME IInv, MarkInv, LeadInv, Unit PROVE LeadInv'
<1> DEFINE token == TokenAt(tokens[1])
           text == CharsFrom(tokens[1])
           width == token.width
<1>1. /\ TypeOK /\ UNCHANGED Rest /\ pc = "split" /\ stack' = stack
      /\ tokens # <<>> /\ tokens' = Tail(tokens) /\ tokens[1].char = 1 /\ Reads("unit")
  BY DEF Unit, Reads, IInv, PlanInv
<1>2. text \in Seq(Place) /\ tokens[1] \in RealPlace /\ document \in Documents /\ tokens \in Seq(RealPlace)
  BY <1>1, TextTypes, TextTail, CharsType
<1>3. \A p \in Elements(text) : p.block = tokens[1].block /\ p.block # -1
  BY <1>2, CharsOf DEF Same
<1>4. \A i \in DOMAIN tokens' : \E j \in DOMAIN tokens : tokens'[i].block = tokens[j].block
  <2>1. \A i \in DOMAIN tokens' : i + 1 \in DOMAIN tokens /\ tokens'[i] = tokens[i + 1]
    BY <1>1, <1>2, TailElements
  <2> QED
    BY <2>1
<1>5. OneBlock \/ TwoBlocks
  BY <1>1 DEF LeadInv, PairInv
<1>6. Summed(stack)'
  BY <1>1 DEF LeadInv, PairInv, Summed
<1> HIDE DEF text, width
<1>7. ASSUME parts' = parts, current' = Added(current, width, text, <<>>)
      PROVE  current'.text = Cat(current.text, text) /\ current'.size = current.size + width
  BY <1>7, AddedText, AddedSize
<1>8. ASSUME parts' = Flushed, current' = Added(Reopened, width, text, <<>>)
      PROVE  current'.text = text
  BY <1>1, <1>2, <1>8, AddedText, ReopenedIs, CatEmpty
<1>9. CASE OneBlock
  <2>1. \/ parts' = parts /\ current'.text = Cat(current.text, text)
        \/ parts' = Flushed /\ current'.text = text
    BY <1>7, <1>8 DEF Unit, text, width
  <2>2. KeptInv' /\ Written' \subseteq Written \union Elements(text)
    BY <1>1, <1>2, <1>3, <1>9, <2>1, KeptPassed DEF LeadInv
  <2>3. OneBlock'
    BY <1>1, <1>2, <1>3, <1>4, <1>9, <2>2, OneBlockNext
  <2> QED
    BY <1>1, <1>6, <2>2, <2>3, PairPassed DEF LeadInv
<1>10. CASE TwoBlocks
  <2>1. FitsHere(token) /\ Room(Tail(tokens), current.size + token.width, stack)
    BY <1>1, <1>10, UnitRoom DEF TwoBlocks
  <2>2. parts' = parts /\ current' = Added(current, width, text, <<>>)
    BY <2>1 DEF Unit, text, width
  <2>3. current'.text = Cat(current.text, text) /\ current'.size = current.size + width
    BY <1>7, <2>2
  <2>4. KeptInv' /\ Sent' = Sent
    BY <1>1, <1>2, <1>3, <1>10, <2>2, <2>3, KeptPassed DEF LeadInv
  <2>5. Room(Tail(tokens), current'.size, stack')
    BY <1>1, <2>1, <2>3 DEF width
  <2>6. TwoBlocks'
    BY <1>1, <1>2, <1>10, <2>4, <2>5, TwoBlocksNext
  <2> QED
    BY <1>1, <1>6, <2>4, <2>6, PairPassed DEF LeadInv
<1> QED
  BY <1>5, <1>9, <1>10

LEMMA CharacterLeads == ASSUME IInv, MarkInv, LeadInv, Character PROVE LeadInv'
<1> DEFINE place == tokens[1]
           token == TokenAt(place)
           width == token.chars[place.char]
           full == current.size + width + Closing > MaxPart
           text == CharAt(place)
<1>1. /\ TypeOK /\ UNCHANGED Rest /\ pc = "split" /\ stack' = stack /\ Reads("unit")
      /\ tokens # <<>> /\ tokens \in Seq(RealPlace) /\ place \in Place /\ text \in Seq(Place)
      /\ place.char > 1 \/ ~FitsHere(token)
      /\ parts' = IF full THEN Flushed ELSE parts
      /\ current' = Added(IF full THEN Reopened ELSE current, width, text, <<>>)
      /\ tokens' = IF place.char = Len(token.chars) THEN Tail(tokens)
                   ELSE [tokens EXCEPT ![1].char = @ + 1]
  <2>1. TypeOK /\ UNCHANGED Rest /\ pc = "split" /\ stack' = stack /\ tokens \in Seq(RealPlace)
        /\ Reads("unit")
    BY TextTypes DEF Character, Reads, IInv, PlanInv
  <2>2. tokens # <<>> /\ place \in RealPlace /\ text \in Seq(Place)
    BY CharacterIs
  <2>3. place \in Place
    BY <2>2 DEF RealPlace
  <2>4. place.char > 1 \/ ~FitsHere(token)
    BY DEF Character
  <2> QED
    BY <2>1, <2>2, <2>3, <2>4 DEF Character
<1>2. ~TwoBlocks
  <2>1. ASSUME TwoBlocks  PROVE FALSE
    <3>1. FitsHere(token)
      BY <1>1, <2>1, UnitRoom DEF TwoBlocks
    <3>2. place.char = 1
      <4>1. 1 \in DOMAIN tokens
        BY <1>1
      <4> QED
        BY <2>1, <4>1 DEF TwoBlocks
    <3> QED
      BY <1>1, <3>1, <3>2
  <2> QED
    BY <2>1
<1>3. OneBlock
  BY <1>1, <1>2 DEF LeadInv, PairInv
<1>4. \A p \in Elements(text) : p.block = place.block /\ p.block # -1
  <2>1. text = IF place.block = -1 THEN <<>> ELSE <<place>>
    BY DEF CharAt
  <2>2. CASE place.block = -1
    BY <2>1, <2>2, EmptyElements
  <2>3. CASE place.block # -1
    <3>1. Elements(<<place>>) = {place}
      BY DEF Elements
    <3> QED
      BY <2>1, <2>3, <3>1
  <2> QED
    BY <2>2, <2>3
<1>5. \A i \in DOMAIN tokens' : \E j \in DOMAIN tokens : tokens'[i].block = tokens[j].block
  <2>1. CASE tokens' = Tail(tokens)
    <3>1. \A i \in DOMAIN tokens' : i + 1 \in DOMAIN tokens /\ tokens'[i] = tokens[i + 1]
      BY <1>1, <2>1, TailElements
    <3> QED
      BY <3>1
  <2>2. CASE tokens' = [tokens EXCEPT ![1].char = @ + 1]
    <3> DEFINE q == [place EXCEPT !.char = place.char + 1]
    <3>1. tokens' = [tokens EXCEPT ![1] = q]
      BY <2>2
    <3>2. q.block = place.block
      BY <1>1, NextChar
    <3> HIDE DEF q
    <3>3. DOMAIN tokens' = DOMAIN tokens /\ \A i \in DOMAIN tokens : tokens'[i] = IF i = 1 THEN q ELSE tokens[i]
      BY <3>1
    <3> QED
      BY <3>2, <3>3
  <2> QED
    BY <1>1, <2>1, <2>2
<1>6. Summed(stack)'
  BY <1>1 DEF LeadInv, PairInv, Summed
<1> DEFINE wide == width
<1> HIDE DEF text, wide, full
<1>7. \/ parts' = parts /\ current'.text = Cat(current.text, text)
      \/ parts' = Flushed /\ current'.text = text
  <2>1. current' = Added(IF full THEN Reopened ELSE current, wide, text, <<>>)
    BY <1>1 DEF wide
  <2>2. current'.text = Cat((IF full THEN Reopened ELSE current).text, text)
    BY <2>1, AddedText
  <2> QED
    BY <1>1, <2>2, ReopenedIs, CatEmpty
<1>8. KeptInv' /\ Written' \subseteq Written \union Elements(text)
  BY <1>1, <1>3, <1>4, <1>7, KeptPassed DEF LeadInv
<1>9. OneBlock'
  BY <1>1, <1>3, <1>4, <1>5, <1>8, OneBlockNext
<1> QED
  BY <1>1, <1>6, <1>8, <1>9, PairPassed DEF LeadInv

LEMMA RunsTail ==
    ASSUME NEW s \in Seq(Int), s # <<>>, Runs(s)
    PROVE  /\ Tail(s) \in Seq(Int) /\ Runs(Tail(s)) /\ Elements(Tail(s)) \subseteq Elements(s)
           /\ Tail(s) # <<>> => Tail(s)[1] = s[1] + 1 /\ Tail(s)[1] = s[2] /\ Len(s) > 1
           /\ Len(s) > 1 => s[2] = s[1] + 1
<1> DEFINE t == Tail(s)
           n == Len(s)
<1>1. /\ t \in Seq(Int) /\ Len(t) = n - 1 /\ n \in Nat \ {0} /\ Elements(t) \subseteq Elements(s)
      /\ \A i \in 1 .. n - 1 : t[i] = s[i + 1]
  <2>1. t \in Seq(Int) /\ Len(t) = n - 1 /\ n \in Nat \ {0} /\ \A i \in 1 .. n - 1 : t[i] = s[i + 1]
    BY HeadTailProperties
  <2> QED
    BY <2>1, TailElements
<1>2. DOMAIN s = 1 .. n
  OBVIOUS
<1> HIDE DEF t, n
<1>3. DOMAIN t = 1 .. n - 1
  BY <1>1
<1>4. \A i \in 1 .. n : i + 1 \in 1 .. n => s[i + 1] = s[i] + 1
  BY <1>2 DEF Runs
<1>5. ASSUME NEW i \in DOMAIN t, i + 1 \in DOMAIN t  PROVE t[i + 1] = t[i] + 1
  <2>1. i \in 1 .. n - 1 /\ i + 1 \in 1 .. n - 1 /\ i + 1 \in 1 .. n /\ i + 1 + 1 \in 1 .. n
    BY <1>1, <1>3, <1>5
  <2> QED
    BY <1>1, <1>4, <2>1
<1>6. n > 1 => 1 \in 1 .. n /\ 1 + 1 \in 1 .. n /\ 1 + 1 = 2 /\ 1 \in 1 .. n - 1
  BY <1>1
<1>7. n > 1 => s[2] = s[1] + 1 /\ t[1] = s[2]
  BY <1>1, <1>4, <1>6
<1>8. t # <<>> => n > 1
  <2>1. t # <<>> => Len(t) # 0
    BY <1>1, EmptyOf
  <2> QED
    BY <1>1, <2>1
<1> QED
  BY <1>1, <1>5, <1>7, <1>8 DEF Runs, t, n

\* What is left when a value is taken, and what may begin a message.
LEMMA ValueLeads ==
    ASSUME IInv, MarkInv, WordInv, PairInv, pc = "place", blocks # <<>>
    PROVE  LET rest == IF Glued THEN Tail(Tail(blocks)) ELSE Tail(blocks)
               value == IF Glued THEN {blocks[1], -1, blocks[2]} ELSE {blocks[1]}
           IN  /\ Runs(rest) /\ Elements(rest) \subseteq Elements(Head(groups))
               /\ rest # <<>> => ~Lead(Head(groups), rest[1] - 1)
               /\ Glued => blocks[2] = blocks[1] + 1
               /\ \A x \in value \ {-1} : Free(Head(groups), Written, x)
               /\ \A p \in Written : p.block # blocks[1]
<1> DEFINE g == Head(groups)
           b == blocks[1]
           t == Tail(blocks)
           u == Tail(t)
<1>1. /\ document \in Documents /\ blocks \in Seq(1 .. Len(document.blocks))
      /\ b \in 1 .. Len(document.blocks) /\ Len(document.blocks) \in Nat
      /\ Glued => Len(blocks) > 1 /\ t # <<>>
  BY PlacedBlocks
<1>2. blocks \in Seq(Int) /\ b \in Int /\ b \in Elements(blocks)
  BY <1>1, TailElements
<1>3. /\ Runs(blocks) /\ Elements(blocks) \subseteq Elements(g)
      /\ Written = {} \/ ~Lead(g, b - 1)
  BY DEF PairInv, Packing
<1>4. /\ t \in Seq(Int) /\ Runs(t) /\ Elements(t) \subseteq Elements(blocks)
      /\ t # <<>> => t[1] = b + 1 /\ t[1] = blocks[2] /\ Len(blocks) > 1
      /\ Len(blocks) > 1 => blocks[2] = b + 1
  BY <1>2, <1>3, RunsTail
<1>5. \A p \in Written : p.block # b
  BY <1>2 DEF WordInv, AheadInv
<1>6. Free(g, Written, b)
  <2>1. ASSUME NEW q \in Written, q.block + 1 = b  PROVE ~Lead(g, q.block)
    <3>1. q.block \in Int
      <4>1. Written \subseteq Place
        BY WrittenType
      <4> QED
        BY <4>1 DEF Place
    <3>2. q.block = b - 1
      BY <1>2, <2>1, <3>1
    <3> QED
      BY <1>3, <3>2
  <2> QED
    BY <2>1 DEF Free
<1>7. CASE ~Glued
  <2>1. ASSUME t # <<>>  PROVE ~Lead(g, t[1] - 1)
    <3>1. Len(blocks) > 1 /\ blocks[2] = b + 1 /\ t[1] - 1 = b
      BY <1>2, <1>4, <2>1
    <3>2. ~(IsHeading(document.blocks[b]) /\ Width(b) + 2 + Width(b + 1) <= MaxPart)
      BY <1>7, <3>1 DEF Glued
    <3> QED
      BY <3>1, <3>2 DEF Lead
  <2>2. Elements(t) \subseteq Elements(g)
    BY <1>3, <1>4
  <2> HIDE DEF t, g, b
  <2>3. \A x \in {b} \ {-1} : Free(g, Written, x)
    BY <1>6
  <2> QED
    BY <1>4, <1>5, <1>7, <2>1, <2>2, <2>3 DEF t, g, b
<1>8. CASE Glued
  <2> DEFINE c == blocks[2]
  <2>1. c = b + 1 /\ t # <<>> /\ t[1] = c
    BY <1>1, <1>4, <1>8
  <2>2. IsHeading(document.blocks[b])
    BY <1>8 DEF Glued
  <2> HIDE DEF t, c
  <2>3. /\ Runs(u) /\ Elements(u) \subseteq Elements(t)
        /\ u # <<>> => u[1] = c + 1
    BY <1>4, <2>1, RunsTail
  <2>4. b \in Elements(g)
    BY <1>2, <1>3
  <2>5. u # <<>> => u[1] - 1 = c /\ c - 1 = b
    BY <1>2, <2>1, <2>3
  <2>6. ~Lead(g, c)
    BY <2>2, <2>4, <1>2, <2>1 DEF Lead
  <2>7. Free(g, Written, c)
    <3>1. ASSUME NEW q \in Written, q.block + 1 = c  PROVE FALSE
      <4>1. Written \subseteq Place
        BY WrittenType
      <4>2. q.block \in Int /\ q.block # b
        BY <1>5, <3>1, <4>1 DEF Place
      <4> QED
        BY <1>2, <2>1, <3>1, <4>2
    <3> QED
      BY <3>1 DEF Free
  <2>8. Elements(u) \subseteq Elements(g)
    BY <1>3, <1>4, <2>3
  <2>9. u # <<>> => ~Lead(g, u[1] - 1)
    BY <2>5, <2>6
  <2> HIDE DEF g, b, u
  <2>10. \A x \in {b, -1, c} \ {-1} : Free(g, Written, x)
    BY <1>6, <2>7
  <2> QED
    BY <1>5, <1>8, <2>1, <2>3, <2>8, <2>9, <2>10 DEF t, g, b, c, u
<1> QED
  BY <1>7, <1>8

\* Nothing is being cut.
LEMMA PairBetween ==
    ASSUME stack' = <<>>, pc' # "split", document' = document,
           Runs(blocks'), \A group \in Elements(groups') : Runs(group),
           ~Packing' /\ blocks' # <<>> =>
               /\ Elements(blocks') \subseteq Elements(Head(groups'))
               /\ Written' = {} \/ ~Lead(Head(groups'), blocks'[1] - 1)
    PROVE  PairInv'
<1>1. Summed(stack)'
  BY DEF Summed
<1>2. ~Lead(Head(groups'), blocks'[1] - 1) => (~Lead(Head(groups), blocks[1] - 1))'
  BY SameLead
<1> QED
  BY <1>1, <1>2 DEF PairInv, Runs

LEMMA EndSplitLeads == ASSUME IInv, MarkInv, LeadInv, EndSplit PROVE LeadInv'
<1>1. /\ TypeOK /\ current' = Closed(current) /\ tokens = <<>> /\ pc = "split" /\ pc' = "place" /\ stack' = <<>>
      /\ UNCHANGED <<document, groups, blocks, tokens, parts, plan>>
  BY DEF EndSplit, IInv, PlanInv
<1>2. current'.text = current.text
  BY <1>1, ClosedIs DEF MarkInv
<1>3. KeptInv'
  <2>1. KeptParts(Head(groups), parts') /\ (parts' # <<>> => Kept(Head(groups), parts'[Len(parts')], current'))
    BY <1>1, <1>2 DEF LeadInv, KeptInv, Kept
  <2> QED
    BY <1>1, <2>1, KeptNext DEF LeadInv
<1>4. /\ Runs(blocks) /\ \A group \in Elements(groups) : Runs(group)
      /\ blocks # <<>> => /\ Elements(blocks) \subseteq Elements(Head(groups))
                          /\ ~Lead(Head(groups), blocks[1] - 1)
  BY <1>1 DEF LeadInv, PairInv, Packing
<1>5. PairInv'
  BY <1>1, <1>4, PairBetween
<1> QED
  BY <1>3, <1>5 DEF LeadInv

LEMMA PlaceBlockLeads == ASSUME IInv, MarkInv, WordInv, LeadInv, PlaceBlock PROVE LeadInv'
<1> DEFINE rest == IF Glued THEN Tail(Tail(blocks)) ELSE Tail(blocks)
           places == IF Glued THEN Places(blocks[1]) \o Places(-1) \o Places(blocks[2])
                     ELSE Places(blocks[1])
           value == IF Glued THEN {blocks[1], -1, blocks[2]} ELSE {blocks[1]}
           text == BlocksText(Value)
           none == <<>>
           g == Head(groups)
<1>1. /\ TypeOK /\ pc = "place" /\ blocks # <<>> /\ blocks' = rest /\ document' = document /\ groups' = groups
      /\ plan' = plan /\ stack' = stack
  BY DEF PlaceBlock, IInv, PlanInv
<1>2. /\ stack = <<>> /\ document \in Documents /\ current.text \in Seq(Place)
      /\ blocks[1] \in 1 .. Len(document.blocks)
      /\ Glued => blocks[2] \in 1 .. Len(document.blocks)
  BY <1>1, TextTypes, PlacedBlocks
<1>3. /\ Runs(rest) /\ Elements(rest) \subseteq Elements(g)
      /\ rest # <<>> => ~Lead(g, rest[1] - 1)
      /\ Glued => blocks[2] = blocks[1] + 1
      /\ \A x \in value \ {-1} : Free(g, Written, x)
      /\ \A p \in Written : p.block # blocks[1]
  BY <1>1, ValueLeads DEF LeadInv
<1>4. /\ places \in Seq(Starts(value))
      /\ Value \in Seq(BlockNo) /\ Elements(Value) \subseteq value
  BY <1>1, ValuePlaces DEF WordInv, AheadInv
<1>5. none \in Seq(Place) /\ Elements(none) = {} /\ none = <<>>
      /\ Cat(current.text, none) = current.text
  BY <1>2, EmptySeq, EmptyElements, CatEmpty
<1>6. /\ text \in Seq(Place)
      /\ text # <<>> => text[1].block \in value /\ text[1].block # -1
  <2>1. text \in Seq(Place) /\ \A q \in Elements(text) : q.block # -1 /\ q.block \in value
    BY <1>2, <1>4, BlocksTextFacts, BlocksTextOf
  <2>2. text # <<>> => text[1] \in Elements(text)
    BY <2>1 DEF Elements
  <2> QED
    BY <2>1, <2>2
<1>7. KeptInv /\ \A group \in Elements(groups) : Runs(group)
  BY DEF LeadInv, PairInv
<1> HIDE DEF rest, places, value, none, text, g
<1>8. ASSUME pc' = pc  PROVE PairInv'
  <2>1. Elements(blocks') \subseteq Elements(Head(groups')) /\ pc' # "split"
    BY <1>1, <1>3, <1>8 DEF g
  <2>2. blocks' # <<>> => ~Lead(Head(groups'), blocks'[1] - 1)
    BY <1>1, <1>3 DEF g
  <2> QED
    BY <1>1, <1>2, <1>3, <1>7, <2>1, <2>2, PairBetween
<1>9. CASE parts' = parts /\ current' = current /\ pc' = pc
  <2>1. KeptParts(g, parts') /\ (parts' # <<>> => Kept(g, parts'[Len(parts')], current'))
    BY <1>7, <1>9 DEF KeptInv, g
  <2>2. KeptInv'
    BY <1>1, <1>7, <2>1, KeptNext DEF g
  <2> QED
    BY <1>8, <1>9, <2>2 DEF LeadInv
<1>10. ASSUME NEW width, parts' = parts, pc' = pc, current' = Added(current, width, text, BlocksTags(Value))
       PROVE  LeadInv'
  <2>1. current'.text = Cat(current.text, text)
    BY <1>10, AddedText
  <2>2. text # <<>> => Free(g, Sent, text[1].block)
    <3>1. text # <<>> => Free(g, Written, text[1].block)
      BY <1>3, <1>6
    <3>2. Sent \subseteq Written
      BY SentType
    <3> QED
      BY <3>1, <3>2 DEF Free
  <2>3. KeptInv'
    BY <1>1, <1>6, <1>7, <1>10, <2>1, <2>2, KeptExtended DEF g
  <2> QED
    BY <1>8, <1>10, <2>3 DEF LeadInv
<1>11. CASE parts' = Flushed /\ current' = Empty /\ tokens' = places /\ pc' = "split"
  <2>1. current'.text = none /\ ~(none # <<>>) /\ current'.size = 0
    BY <1>5, <1>11, EmptyIs
  <2>2. KeptInv' /\ Sent' \subseteq Written /\ Written' \subseteq Written \union Elements(none)
    BY <1>1, <1>5, <1>7, <1>11, <2>1, KeptBegun
  <2>3. Written' \subseteq Written /\ Sent' \subseteq Written
    BY <1>5, <2>2
  <2>4. \A i \in DOMAIN tokens' : tokens'[i].char = 1 /\ tokens'[i].block \in value
    <3>1. \A i \in DOMAIN places : places[i] \in Starts(value)
      BY <1>4
    <3> QED
      BY <1>11, <3>1 DEF Starts
  <2>5. blocks[1] \in value \ {-1}
    BY <1>2 DEF value
  <2>6. Free(g, Written', blocks[1]) /\ Free(g, Sent', blocks[1])
    BY <1>3, <2>3, <2>5 DEF Free
  <2>7. PICK b \in 1 .. Len(document.blocks) : b = blocks[1]
    BY <1>2
  <2>8. Free(Head(groups), Written, b)' /\ Free(Head(groups), Sent, b)'
    <3>1. Free(g, Written', b) /\ Free(g, Sent', b)
      BY <2>6, <2>7
    <3> QED
      BY <1>1, <3>1, SameLead DEF g
  <2>9. ASSUME ~Glued  PROVE OneBlock'
    <3>1. \A i \in DOMAIN tokens' : tokens'[i].block = b
      BY <2>4, <2>9, <2>7 DEF value
    <3> QED
      BY <2>8, <3>1 DEF OneBlock
  <2>10. ASSUME Glued  PROVE TwoBlocks'
    <3>1. b \in 1 .. Len(document'.blocks) /\ blocks[2] = b + 1
      BY <1>1, <1>3, <2>10, <2>7
    <3>2. \A i \in DOMAIN tokens' : tokens'[i].char = 1 /\ tokens'[i].block \in {b, -1, b + 1}
      BY <2>4, <2>10, <2>7, <3>1 DEF value
    <3>3. \A q \in Sent' : q.block # b
      BY <1>3, <2>3, <2>7
    <3>4. Room(places, 0, <<>>)
      <4>1. Width(blocks[1]) + 2 + Width(blocks[2]) <= MaxPart
        BY <2>10 DEF Glued
      <4>2. Room(Places(blocks[1]) \o Places(-1) \o Places(blocks[2]), 0, <<>>)
        BY <1>2, <2>10, <4>1, RoomGlued
      <4> QED
        BY <2>10, <4>2 DEF places
    <3>5. Room(tokens', current'.size, stack')
      BY <1>1, <1>2, <1>11, <2>1, <3>4
    <3>6. Room(tokens, current.size, stack)'
      BY <1>1, <3>5, SameRoom
    <3> QED
      BY <2>8, <3>1, <3>2, <3>3, <3>6 DEF TwoBlocks
  <2>11. OneBlock' \/ TwoBlocks'
    BY <2>9, <2>10
  <2>12. Summed(stack)'
    BY <1>1, <1>2 DEF Summed
  <2>13. rest # <<>> => (~Lead(Head(groups), blocks[1] - 1))'
    BY <1>1, <1>3, SameLead DEF g
  <2>14. PairInv'
    BY <1>1, <1>3, <1>7, <2>11, <2>12, <2>13 DEF PairInv, Runs, g
  <2> QED
    BY <2>2, <2>14 DEF LeadInv
<1> QED
  BY <1>9, <1>10, <1>11 DEF PlaceBlock, Value, places, text

\* No message is begun.
Fresh ==
    /\ parts = <<>> /\ current.text = <<>> /\ stack = <<>>
    /\ \A group \in Elements(plan) : KeptParts(group.blocks, group.parts)
    /\ Runs(blocks) /\ \A group \in Elements(groups) : Runs(group)
    /\ blocks # <<>> => blocks = Head(groups)
    /\ pc = "split" => tokens \in Seq(Starts({0})) /\ blocks = <<>>

LEMMA FreshLeads == Fresh => LeadInv
<1> SUFFICES ASSUME Fresh  PROVE LeadInv
  OBVIOUS
<1>1. Elements(<<>>) = {} /\ DOMAIN parts = {} /\ DOMAIN stack = {}
  BY EmptyElements DEF Fresh
<1>2. Written = {}
  BY <1>1 DEF Written, Fresh
<1>3. KeptInv
  BY <1>1 DEF KeptInv, Fresh, KeptParts
<1>4. ASSUME pc = "split"  PROVE OneBlock
  <2>1. tokens \in Seq(Starts({0}))
    BY <1>4 DEF Fresh
  <2>2. \A i \in DOMAIN tokens : tokens[i] \in Starts({0})
    BY <2>1
  <2>3. \A i \in DOMAIN tokens : tokens[i].block = 0
    BY <2>2 DEF Starts
  <2>4. Free(Head(groups), Written, 0)
    BY <1>2 DEF Free
  <2> QED
    BY <2>3, <2>4 DEF OneBlock
<1>5. Summed(stack)
  BY <1>1 DEF Summed
<1>6. blocks # <<>> => Elements(blocks) \subseteq Elements(Head(groups)) /\ pc # "split"
  BY DEF Fresh
<1>7. PairInv
  BY <1>2, <1>4, <1>5, <1>6 DEF PairInv, Fresh
<1> QED
  BY <1>3, <1>7 DEF LeadInv

LEMMA FreshNext == Fresh' => LeadInv'
<1>1. Fresh => LeadInv
  BY FreshLeads
<1> QED
  BY <1>1, PTL

LEMMA IntervalRuns ==
    /\ \A first, last \in Nat : Runs(Interval(first, last))
    /\ Runs(<<>>) /\ Runs(<<0>>)
    /\ \A g : Runs(g) => \A group \in Elements(<<g>>) : Runs(group)
<1>1. ASSUME NEW first \in Nat, NEW last \in Nat  PROVE Runs(Interval(first, last))
  <2>1. \A i \in DOMAIN Interval(first, last) : i \in Int /\ Interval(first, last)[i] = first + i - 1
    BY <1>1 DEF Interval
  <2> QED
    BY <1>1, <2>1 DEF Runs
<1>2. Runs(<<>>) /\ Runs(<<0>>)
  BY DEF Runs
<1>3. ASSUME NEW g, Runs(g)  PROVE \A group \in Elements(<<g>>) : Runs(group)
  BY <1>3 DEF Elements
<1> QED
  BY <1>1, <1>2, <1>3

LEMMA WholeRuns == ASSUME document \in Documents PROVE Runs(Whole(document))
BY BlocksOf, IntervalRuns DEF Whole

LEMMA InitLeads == ASSUME Init PROVE LeadInv
<1>1. document \in Documents /\ parts = <<>> /\ current = Empty /\ stack = <<>> /\ plan = <<>>
  BY DEF Init
<1>2. current.text = <<>> /\ Elements(plan) = {}
  BY <1>1, EmptyIs, EmptyElements
<1>3. Runs(Whole(document)) /\ Places(0) \in Seq(Starts({0})) /\ Elements(<<>>) = {}
  BY <1>1, WholeRuns, SourcePlaces, EmptyElements
<1>4. CASE pc = "pack" /\ groups = <<>> /\ blocks = <<>>
  BY <1>1, <1>2, <1>3, <1>4, IntervalRuns, FreshLeads DEF Fresh
<1>5. CASE pc = "place" /\ groups = <<Whole(document)>> /\ blocks = Whole(document)
  <2>1. Head(groups) = Whole(document) /\ \A group \in Elements(groups) : Runs(group)
    BY <1>3, <1>5, IntervalRuns, OneGroup
  <2> QED
    BY <1>1, <1>2, <1>3, <1>5, <2>1, FreshLeads DEF Fresh
<1>6. CASE pc = "split" /\ tokens = Places(0) /\ groups = <<<<0>>>> /\ blocks = <<>>
  <2>1. \A group \in Elements(groups) : Runs(group)
    BY <1>6, IntervalRuns
  <2> QED
    BY <1>1, <1>2, <1>3, <1>6, <2>1, IntervalRuns, FreshLeads DEF Fresh
<1> QED
  BY <1>4, <1>5, <1>6 DEF Init

LEMMA PackLeads ==
    ASSUME IInv, LeadInv, PackAll \/ Pack \/ AllPacked \/ CutGroup \/ AllCut
    PROVE  LeadInv'
<1>1. Packing /\ UNCHANGED Placing /\ (pc' # "split")
  BY DEF PackAll, Pack, AllPacked, CutGroup, AllCut, Packing, Placing
<1>2. /\ document' = document /\ document \in Documents /\ parts' = <<>> /\ current'.text = <<>>
      /\ plan' = <<>> /\ stack' = <<>> /\ blocks = <<>>
      /\ groups \in Seq(Seq(DOMAIN document.blocks))
  <2>1. stack = <<>>
    BY <1>1 DEF IInv, PlanInv, StackInv, Packing
  <2> QED
    BY <1>1, <2>1, PackingFacts, EmptyIs DEF Placing
<1>3. Runs(blocks) /\ \A group \in Elements(groups) : Runs(group)
  BY DEF LeadInv, PairInv
<1>4. /\ Runs(blocks') /\ \A group \in Elements(groups') : Runs(group)
      /\ blocks' # <<>> => blocks' = Head(groups')
  <2>1. CASE PackAll
    <3>1. groups' = <<Whole(document)>> /\ blocks' = Whole(document)
      BY <2>1 DEF PackAll
    <3> QED
      BY <1>2, <3>1, WholeRuns, IntervalRuns, OneGroup
  <2>2. CASE Pack \/ AllPacked
    BY <1>2, <1>3, <2>2 DEF Pack, AllPacked
  <2>3. CASE CutGroup
    <3> DEFINE group == Interval(start, best[start].end)
    <3>1. groups' = Append(groups, group) /\ blocks' = blocks /\ pc = "cut" /\ start <= Len(document.blocks)
      BY <2>3 DEF CutGroup
    <3>2. start \in Nat /\ best[start].end \in Nat
      <4>1. PackInv /\ Len(document.blocks) \in Nat /\ start \in 1 .. Len(document.blocks) + 1
            /\ DOMAIN best = 1 .. Len(document.blocks) + 1
        BY <1>2, <3>1, BlocksOf DEF IInv, PlanInv, PackInv
      <4>2. start \in DOMAIN best
        BY <4>1
      <4>3. best[start].end \in start .. Len(document.blocks)
        BY <3>1, <4>1, <4>2 DEF PackInv
      <4> QED
        BY <4>1, <4>3
    <3>3. Runs(group)
      BY <3>2, IntervalRuns
    <3>4. groups \in Seq(Elements(groups))
      BY <1>2 DEF Elements
    <3> HIDE DEF group
    <3>5. Elements(groups') = Elements(groups) \union {group}
      BY <3>1, <3>4, AppendElement
    <3> QED
      BY <1>2, <1>3, <3>1, <3>3, <3>5
  <2>4. CASE AllCut
    <3>1. groups' = groups /\ blocks' = IF groups = <<>> THEN <<>> ELSE Head(groups)
      BY <2>4 DEF AllCut
    <3>2. groups # <<>> => Head(groups) \in Elements(groups)
      BY <1>2, HeadTailProperties, TailElements
    <3> QED
      BY <1>3, <3>1, <3>2, IntervalRuns
  <2> QED
    BY <2>1, <2>2, <2>3, <2>4
<1>5. Elements(plan') = {}
  BY <1>2, EmptyElements
<1>6. Fresh'
  BY <1>1, <1>2, <1>4, <1>5 DEF Fresh, Runs
<1> QED
  BY <1>6, FreshNext

LEMMA EndGroupLeads == ASSUME IInv, MarkInv, LeadInv, EndGroup PROVE LeadInv'
<1> DEFINE planned == [blocks |-> Head(groups), parts |-> Made]
<1>1. /\ TypeOK /\ pc = "place" /\ document' = document /\ parts' = <<>> /\ current' = Empty
      /\ plan' = Append(plan, planned) /\ groups # <<>> /\ stack' = <<>> /\ pc' # "split"
      /\ groups' = Tail(groups) /\ blocks' = IF Len(groups) > 1 THEN groups[2] ELSE <<>>
  BY DEF EndGroup, IInv, PlanInv, StackInv
<1>2. KeptParts(Head(groups), Made)
  <2>1. /\ parts \in Seq(Message) /\ current \in Message /\ KeptParts(Head(groups), parts)
        /\ parts # <<>> => Kept(Head(groups), parts[Len(parts)], current)
    BY WrittenType DEF LeadInv, KeptInv
  <2> DEFINE g == Head(groups)
             ps == parts
             m == current
  <2>2. KeptParts(g, ps) /\ ps \in Seq(Message) /\ m \in Message /\ (ps # <<>> => Kept(g, ps[Len(ps)], m))
    BY <2>1
  <2> HIDE DEF g, ps, m
  <2>3. KeptParts(g, Append(ps, m))
    BY <2>2, KeptAppend
  <2> QED
    BY <2>2, <2>3 DEF Made, g, ps, m
<1>3. \A group \in Elements(plan') : KeptParts(group.blocks, group.parts)
  <2>1. planned.parts = Made /\ planned.blocks = Head(groups) /\ plan \in Seq(Elements(plan))
    BY <1>1 DEF TypeOK
  <2> HIDE DEF planned
  <2>2. Elements(plan') = Elements(plan) \union {planned}
    BY <1>1, <2>1, AppendElement
  <2> QED
    BY <1>2, <2>1, <2>2 DEF LeadInv, KeptInv
<1>4. \A group \in Elements(plan') : KeptParts(group.blocks, group.parts)'
  BY <1>1, <1>3, SameLead
<1>5. PICK S : groups \in Seq(S)
  <2>1. <<<<0>>>> \in Seq({<<0>>}) /\ <<>> \in Seq({<<0>>})
    BY EmptySeq
  <2>2. groups \in Seq({<<0>>}) \/ groups \in Seq(Seq(DOMAIN document.blocks))
    BY <1>1, <2>1 DEF TypeOK
  <2> QED
    BY <2>2
<1>6. /\ Tail(groups) \in Seq(S) /\ Len(Tail(groups)) = Len(groups) - 1 /\ Len(groups) \in Nat
      /\ \A i \in 1 .. Len(Tail(groups)) : Tail(groups)[i] = groups[i + 1]
  BY <1>1, <1>5, HeadTailProperties
<1>7. \A group \in Elements(groups) : Runs(group)
  BY DEF LeadInv, PairInv
<1>8. \A group \in Elements(groups') : Runs(group)
  BY <1>1, <1>5, <1>7, TailElements
<1>9. Len(groups) > 1 => /\ groups[2] \in Elements(groups)
                         /\ Head(groups') = groups[2]
  <2>1. Len(groups) > 1 => groups[2] \in Elements(groups)
    BY <1>5 DEF Elements
  <2>2. Len(groups) > 1 => Tail(groups)[1] = groups[2]
    BY <1>6
  <2>3. Len(groups) > 1 => Head(groups') = groups'[1]
    <3>1. Len(groups) > 1 => Len(Tail(groups)) # 0
      BY <1>6
    <3>2. Len(groups) > 1 => Tail(groups) # <<>>
      BY <3>1
    <3> QED
      BY <1>1, <1>6, <3>2
  <2> QED
    BY <1>1, <2>1, <2>2, <2>3
<1>10. Runs(blocks') /\ (blocks' # <<>> => blocks' = Head(groups'))
  BY <1>1, <1>7, <1>9, IntervalRuns
<1>11. Fresh'
  BY <1>1, <1>4, <1>8, <1>10, EmptyIs DEF Fresh, Runs
<1> QED
  BY <1>11, FreshNext

LEMMA OtherLeads ==
    ASSUME IInv, MarkInv, LeadInv, GiveUpRich \/ SendSource \/ UNCHANGED vars
    PROVE  LeadInv'
<1>1. CASE GiveUpRich
  <2>1. /\ TypeOK /\ StackInv /\ pc = "place" /\ Made = <<>> /\ document \in Documents
        /\ groups' = <<Whole(document)>> /\ blocks' = Whole(document) /\ plan' = <<>>
        /\ UNCHANGED <<document, stack, parts, current, pc>>
    BY <1>1 DEF GiveUpRich, IInv, PlanInv, TypeOK
  <2>2. parts' = <<>> /\ current'.text = <<>> /\ stack' = <<>> /\ Elements(plan') = {}
    BY <2>1, NoMessages, EmptyElements DEF StackInv
  <2>3. Runs(blocks') /\ blocks' = Head(groups') /\ \A group \in Elements(groups') : Runs(group)
    BY <2>1, WholeRuns, IntervalRuns, OneGroup
  <2>4. Fresh'
    BY <2>1, <2>2, <2>3 DEF Fresh, Runs
  <2> QED
    BY <2>4, FreshNext
<1>2. CASE SendSource
  <2>1. /\ TypeOK /\ StackInv /\ pc = "place" /\ Made = <<>> /\ groups' = <<<<0>>>> /\ tokens' = Places(0)
        /\ document \in Documents /\ blocks = <<>>
        /\ UNCHANGED <<document, blocks, parts, current, stack, plan>>
    BY <1>2 DEF SendSource, Unsaid, IInv, PlanInv, TypeOK
  <2>2. parts' = <<>> /\ current'.text = <<>> /\ stack' = <<>> /\ blocks' = <<>>
    BY <2>1, NoMessages DEF StackInv
  <2>3. (tokens \in Seq(Starts({0})))'
    <3>1. tokens' \in Seq(Starts({0}))
      BY <2>1, SourcePlaces
    <3>2. Starts({0})' = Starts({0})
      BY <2>1 DEF Starts, RealPlace, Place, Html
    <3> QED
      BY <3>1, <3>2
  <2>4. Runs(blocks') /\ \A group \in Elements(groups') : Runs(group)
    BY <2>1, <2>2, IntervalRuns
  <2>5. \A group \in Elements(plan') : KeptParts(group.blocks, group.parts)'
    BY <2>1, SameLead DEF LeadInv, KeptInv
  <2>6. Fresh'
    BY <2>2, <2>3, <2>4, <2>5 DEF Fresh, Runs
  <2> QED
    BY <2>6, FreshNext
<1>3. CASE UNCHANGED vars
  <2>1. /\ document' = document /\ groups' = groups /\ blocks' = blocks /\ tokens' = tokens
        /\ parts' = parts /\ current' = current /\ stack' = stack /\ plan' = plan /\ pc' = pc
    BY <1>3 DEF vars
  <2>2. KeptInv'
    BY <2>1, KeptNext DEF LeadInv, KeptInv
  <2>3. Written' = Written /\ Sent' = Sent
    BY <2>1 DEF Written, Sent
  <2>4. Room(tokens, current.size, stack)' <=> Room(tokens, current.size, stack)
    BY <2>1, SameRoom
  <2>5. OneBlock => OneBlock'
    BY <2>1, <2>3, SameLead DEF OneBlock
  <2>6. TwoBlocks => TwoBlocks'
    BY <2>1, <2>3, <2>4, SameLead DEF TwoBlocks
  <2>7. Lead(Head(groups), blocks[1] - 1)' <=> Lead(Head(groups), blocks[1] - 1)
    BY <2>1, SameLead
  <2>8. PairInv'
    BY <2>1, <2>3, <2>5, <2>6, <2>7 DEF LeadInv, PairInv, Runs, Summed, Packing
  <2> QED
    BY <2>2, <2>8 DEF LeadInv
<1> QED
  BY <1>1, <1>2, <1>3

LEMMA StepLeads == ASSUME IInv, MarkInv, WordInv, LeadInv, [Next]_vars PROVE LeadInv'
BY PackLeads, PlaceBlockLeads, OpenTagLeads, CloseTagLeads, UnitLeads, CharacterLeads, EndSplitLeads,
   EndGroupLeads, OtherLeads DEF Next

LEMMA LeadsInvariance == Spec => [](IInv /\ MarkInv /\ WordInv /\ LeadInv)
<1>1. Init => LeadInv
  BY InitLeads
<1>2. IInv /\ MarkInv /\ WordInv /\ LeadInv /\ [Next]_vars => LeadInv'
  BY StepLeads
<1> QED
  BY <1>1, <1>2, WordsInvariance, PTL DEF Spec

LEMMA LeadsLead == IInv /\ MarkInv /\ LeadInv => HeadingLeads
<1> SUFFICES ASSUME IInv, MarkInv, LeadInv, NEW g \in DOMAIN plan, NEW i \in Neighbours(plan[g].parts)
             PROVE  LET b == Last(plan[g].parts[i].text).block
                        c == plan[g].parts[i + 1].text[1].block
                        d == document.blocks
                    IN  (b > 0 /\ c = b + 1 /\ IsHeading(d[b])) =>
                            \/ Width(b) + 2 + Width(c) > MaxPart
                            \/ b - 1 \in Range(plan[g].blocks) /\ IsHeading(d[b - 1])
  BY DEF HeadingLeads
<1> DEFINE group == plan[g]
           ps == group.parts
           b == ps[i].text[Len(ps[i].text)].block
           c == ps[i + 1].text[1].block
           d == document.blocks
<1>1. group \in Elements(plan)
  BY DEF Elements
<1>2. ps \in Seq(Message) /\ KeptParts(group.blocks, ps)
  BY <1>1, ShutMessages DEF MarkInv, LeadInv, KeptInv
<1>3. i \in DOMAIN ps /\ i + 1 \in DOMAIN ps /\ ps[i].text # <<>> /\ ps[i + 1].text # <<>>
  BY DEF Neighbours
<1>4. ps[i].text \in Seq(Place) /\ ps[i + 1].text \in Seq(Place)
  BY <1>2, <1>3, MessageFields
<1>5. b \in -1 .. Len(document.blocks) /\ c \in -1 .. Len(document.blocks)
  <2>1. ps[i].text[Len(ps[i].text)] \in Place /\ ps[i + 1].text[1] \in Place
    BY <1>3, <1>4
  <2> QED
    BY <2>1 DEF Place
<1>6. Kept(group.blocks, ps[i], ps[i + 1])
  BY <1>2, <1>3 DEF KeptParts
<1>7. c = b + 1 => ~Lead(group.blocks, b)
  BY <1>3, <1>6 DEF Kept
<1>8. Range(group.blocks) = Elements(group.blocks)
  BY DEF Range, Elements
<1>9. Last(ps[i].text) = ps[i].text[Len(ps[i].text)]
  BY DEF Last
<1> HIDE DEF b, c, ps, group
<1>10. ASSUME b > 0, c = b + 1, IsHeading(d[b])
       PROVE  \/ Width(b) + 2 + Width(c) > MaxPart
              \/ b - 1 \in Elements(group.blocks) /\ IsHeading(d[b - 1])
  <2>1. b \in 1 .. Len(document.blocks) /\ b + 1 \in 1 .. Len(document.blocks)
    BY <1>5, <1>10
  <2>2. ~(Width(b) + 2 + Width(c) <= MaxPart) \/ (b - 1 \in Elements(group.blocks) /\ IsHeading(d[b - 1]))
    BY <1>7, <1>10, <2>1 DEF Lead
  <2>3. Width(b) \in Nat /\ Width(b + 1) \in Nat /\ MaxPart \in Nat
    BY <2>1, TextTypes, BlocksOf, BudgetAssumption
  <2> QED
    BY <1>10, <2>2, <2>3
<1> QED
  BY <1>8, <1>9, <1>10 DEF b, c, ps, group

\* A heading ends a message only if it does not fit one with what follows it, or if the block
\* before it in its group is a heading too, however the blocks are placed and cut (html_plan).
THEOREM HeadingsLead == Spec => []HeadingLeads
<1>1. IInv /\ MarkInv /\ LeadInv => HeadingLeads
  BY LeadsLead
<1> QED
  BY <1>1, LeadsInvariance, PTL
=============================================================================
