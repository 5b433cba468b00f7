----------------------------- MODULE AnswerPlan -----------------------------
(***************************************************************************)
(* How the text of an answer becomes the messages the outbox delivers      *)
(* (build_plan): the blocks of the parsed answer are grouped into rich     *)
(* messages (semantic_split, a block a step), every rich message gets a    *)
(* reserve of ordinary HTML messages (html_plan), and a block longer than  *)
(* a message is cut between words (split_html_message).  When rich         *)
(* messages are switched off, or one of them has no reserve, the whole     *)
(* answer becomes HTML; when nothing is left of it, or it cannot be        *)
(* parsed, its source is cut as plain text.                                *)
(*                                                                         *)
(* Lengths are numbers of UTF-16 units.  The size of a block in a rich     *)
(* message is one number that adds up, as text, blocks and payload bytes   *)
(* do; every block fits a rich message of its own, as split_block sees to. *)
(***************************************************************************)
EXTENDS Integers, FiniteSetsExt, SequencesExt

CONSTANTS
    Documents,      \* the parsed answers of a behaviour
    MaxPart,        \* MAX_PART_LENGTH
    MaxRich         \* Limits

Rendering == {"rich", "html", "source"}

HtmlTag == {"b", "i", "u", "s", "code", "pre", "a", "blockquote", "tg-spoiler", "none"}

\* The length of a tag that closes another.
EndWidth(tag) == IF tag = "pre" THEN 6 ELSE IF tag = "code" THEN 7
                 ELSE IF tag \in {"blockquote", "tg-spoiler"} THEN 13 ELSE 4

\* A piece of the HTML of a block: a tag that opens or closes, or an indivisible unit, with
\* the lengths of its characters.
Token == {token \in [kind : {"open", "close", "unit"}, tag : HtmlTag, width : Nat,
                     chars : Seq({1, 2})] :
             /\ token.kind = "unit" => token.chars # <<>> /\ token.width >= Len(token.chars)
             /\ token.kind # "unit" => token.chars = <<>>
             /\ token.kind = "close" => token.width = EndWidth(token.tag)}

\* A title is a heading of level 1 or 2; width is the length of html.
Block == [kind : {"title", "heading", "paragraph", "other"}, rich : 1 .. MaxRich,
          width : Nat, html : Seq(Token)]

Document == [blocks : Seq(Block), source : Seq(Token) \ {<<>>}]

Total(ns) == LET sum[i \in 0 .. Len(ns)] == IF i = 0 THEN 0 ELSE sum[i - 1] + ns[i]
             IN  sum[Len(ns)]
WidthOf(html) == Total([i \in DOMAIN html |-> html[i].width])

\* The tags open after one more piece, and after a sequence of pieces, in their order.
Tag(token) == [tag |-> token.tag, kind |-> token.kind]
After(open, t) == IF t.kind = "unit" THEN open
                  ELSE IF t.kind = "open" THEN Append(open, t.tag)
                  ELSE IF open # <<>> /\ Last(open) = t.tag THEN Front(open)
                  ELSE Append(open, "unmatched")
Opened(tags) == LET open[i \in 0 .. Len(tags)] == IF i = 0 THEN <<>>
                                                  ELSE After(open[i - 1], tags[i])
                IN  open[Len(tags)]
TagsIn(html) == [i \in DOMAIN html |-> Tag(html[i])]

ASSUME BudgetAssumption == MaxPart \in Nat \ {0, 1} /\ MaxRich \in Nat \ {0}
ASSUME DocumentsAssumption == Documents \subseteq Document
ASSUME WidthsAssumption ==
    \A d \in Documents : \A b \in DOMAIN d.blocks : d.blocks[b].width = WidthOf(d.blocks[b].html)
\* html_block and html_inline write a tag together with the one that closes it.
ASSUME BalanceAssumption ==
    \A d \in Documents : \A b \in DOMAIN d.blocks : Opened(TagsIn(d.blocks[b].html)) = <<>>

VARIABLES
    document,   \* the answer
    mode,       \* how it is being rendered
    start,      \* the block that a rich message is made from next
    best,       \* the best way to pack the blocks from each one on
    groups,     \* the groups of blocks still to be planned, by their numbers
    blocks,     \* the blocks of the first group that are not placed yet
    tokens,     \* what is left of the value being cut
    stack,      \* the tags open in it
    parts,      \* the HTML messages of the first group that are complete
    current,    \* the one being filled
    plan,       \* the groups planned, with their HTML messages
    pc,
    deep        \* whether open tags ever took up a whole message (history)

vars == <<document, mode, start, best, groups, blocks, tokens, stack, parts, current, plan, pc, deep>>

-----------------------------------------------------------------------------
(* Rich messages: semantic_split.                                          *)

Size(d, first, last) == Total([i \in 1 .. last + 1 - first |-> d[first + i - 1].rich])
Fits(d, first, last) == Size(d, first, last) <= MaxRich

IsHeading(block) == block.kind \in {"title", "heading"}

\* What it costs to cut a message after block end, by what follows.
Cut(d, end) ==
    IF d[end + 1].kind = "title" THEN 0
    ELSE IF d[end + 1].kind = "heading" THEN 1
    ELSE IF d[end].kind = "paragraph" THEN 2
    ELSE 3

\* Mutant: a heading ends a message like any other block.
Penalty_heading(d, end) == Cut(d, end)

\* What it costs to end a message with block end; nothing, if it is the last of all.
Penalty(d, end) == IF IsHeading(d[end]) THEN 100 ELSE Cut(d, end)

\* A way to pack the last blocks: fewest messages, then least penalty, then the longest
\* first message.
Packed == [messages : Nat, penalty : Nat, end : Nat]
Better(a, b) ==
    \/ a.messages < b.messages
    \/ /\ a.messages = b.messages
       /\ a.penalty < b.penalty \/ (a.penalty = b.penalty /\ b.end < a.end)

\* The ways to pack the blocks from start on, by the end of the first message.
Candidates(d) ==
    {[messages |-> 1 + best[end + 1].messages,
      penalty |-> (IF end = Len(d) THEN 0 ELSE Penalty(d, end)) + best[end + 1].penalty,
      end |-> end] : end \in {e \in start .. Len(d) : Fits(d, start, e)}}

Interval(first, last) == [i \in 1 .. last - first + 1 |-> first + i - 1]
Whole(d) == Interval(1, Len(d.blocks))

-----------------------------------------------------------------------------
(* Text and tags.                                                          *)

\* Block 0 is the source, block -1 the empty line between a heading and what follows it.
EmptyLine == [kind |-> "unit", tag |-> "none", width |-> 2, chars |-> <<1, 1>>]
Html(b) == IF b = -1 THEN <<EmptyLine>>
           ELSE IF b = 0 THEN document.source
           ELSE document.blocks[b].html
Width(b) == document.blocks[b].width

Place == [block : -1 .. Len(document.blocks), token : Nat, char : Nat \ {0}]

Places(b) == [t \in DOMAIN Html(b) |-> [block |-> b, token |-> t, char |-> 1]]
TokenAt(place) == Html(place.block)[place.token]

\* The characters of a token from a place on, and those of a sequence of places; an empty
\* line is no text.
CharsFrom(place) ==
    IF place.block = -1 THEN <<>>
    ELSE [i \in 1 .. Len(TokenAt(place).chars) + 1 - place.char |->
             [place EXCEPT !.char = place.char + i - 1]]
CharAt(place) == IF place.block = -1 THEN <<>> ELSE <<place>>
TextOf(places) == FlattenSeq([i \in DOMAIN places |-> CharsFrom(places[i])])
BlocksText(bs) == FlattenSeq([i \in DOMAIN bs |-> TextOf(Places(bs[i]))])
BlocksTags(bs) == FlattenSeq([i \in DOMAIN bs |-> TagsIn(Html(bs[i]))])

\* A message: its length, text and tags, and the length of the tags it started inside of.
Empty == [size |-> 0, text |-> <<>>, tags |-> <<>>, around |-> 0]

\* The lengths of the open tags, and of those that will close them.
Opening == IF stack = <<>> THEN 0 ELSE Last(stack).opening
Closing == IF stack = <<>> THEN 0 ELSE Last(stack).closing

Closed(part) ==
    [size |-> part.size + Closing, text |-> part.text, around |-> part.around,
     tags |-> part.tags \o [i \in DOMAIN stack |->
                  [tag |-> stack[Len(stack) + 1 - i].tag, kind |-> "close"]]]

Reopened ==
    [size |-> Opening, text |-> <<>>, around |-> Opening + Closing,
     tags |-> [i \in DOMAIN stack |-> [tag |-> stack[i].tag, kind |-> "open"]]]

\* Mutant: a message that is full keeps its tags open.
Flushed_open == IF current.size > 0 THEN Append(parts, current) ELSE parts

Flushed == IF current.size > 0 THEN Append(parts, Closed(current)) ELSE parts

Added(part, width, text, tags) ==
    [size |-> part.size + width, text |-> part.text \o text, tags |-> part.tags \o tags,
     around |-> part.around]

-----------------------------------------------------------------------------
Elements(s) == {s[i] : i \in DOMAIN s}

Packing == pc \in {"pack", "cut"}

TypeOK ==
    /\ document \in Documents /\ mode \in Rendering
    /\ pc \in {"pack", "cut", "place", "split", "done"} /\ deep \in BOOLEAN
    /\ start \in Nat /\ best \in [DOMAIN best -> Packed]
    /\ groups \in IF mode = "source" THEN {<<>>, <<<<0>>>>}
                 ELSE Seq(Seq(DOMAIN document.blocks))
    /\ blocks \in Seq(DOMAIN document.blocks)
    /\ tokens \in Seq(Place)
    /\ \A i \in DOMAIN tokens : tokens[i].token \in DOMAIN Html(tokens[i].block)
    /\ \A i \in DOMAIN tokens : tokens[i].char = 1 \/ tokens[i].char \in DOMAIN TokenAt(tokens[i]).chars
    /\ stack \in Seq([tag : HtmlTag, opening : Nat, closing : Nat])
    /\ current.size \in Nat /\ parts \in Seq(Elements(parts))
    /\ \A part \in Elements(parts) : part.size \in Nat
    /\ plan \in Seq(Elements(plan))

\* Rich messages are switched on or off; an answer that cannot be parsed is cut as it is.
Init ==
    /\ document \in Documents /\ mode \in Rendering
    /\ start = Len(document.blocks)
    /\ best = [s \in {start + 1} |-> [messages |-> 0, penalty |-> 0, end |-> start]]
    /\ \/ mode = "rich" /\ pc = "pack" /\ groups = <<>> /\ blocks = <<>> /\ tokens = <<>>
       \/ /\ mode = "html" /\ pc = "place" /\ tokens = <<>>
          /\ groups = <<Whole(document)>> /\ blocks = Whole(document)
       \/ /\ mode = "source" /\ pc = "split" /\ tokens = Places(0)
          /\ groups = <<<<0>>>> /\ blocks = <<>>
    /\ stack = <<>> /\ parts = <<>> /\ current = Empty
    /\ plan = <<>> /\ deep = FALSE

-----------------------------------------------------------------------------
(* semantic_split, a block a step: all in one message if they fit; else    *)
(* the best packing from each block on, from the last one back, which says *)
(* where every message ends.                                               *)

AllFit == document.blocks # <<>> /\ Fits(document.blocks, 1, Len(document.blocks))
Placing == <<document, mode, tokens, stack, parts, current, plan, deep>>

PackAll ==
    /\ pc = "pack" /\ AllFit
    /\ groups' = <<Whole(document)>> /\ blocks' = Whole(document) /\ pc' = "place"
    /\ UNCHANGED <<Placing, start, best>>

Pack ==
    /\ pc = "pack" /\ ~AllFit /\ start > 0
    /\ \E chosen \in Candidates(document.blocks) :
          /\ \A other \in Candidates(document.blocks) \ {chosen} : Better(chosen, other)
          /\ best' = [s \in start .. Len(document.blocks) + 1 |->
                         IF s = start THEN chosen ELSE best[s]]
    /\ start' = start - 1
    /\ UNCHANGED <<Placing, groups, blocks, pc>>

AllPacked ==
    /\ pc = "pack" /\ ~AllFit /\ start = 0
    /\ start' = 1 /\ pc' = "cut"
    /\ UNCHANGED <<Placing, best, groups, blocks>>

CutGroup ==
    /\ pc = "cut" /\ start <= Len(document.blocks)
    /\ groups' = Append(groups, Interval(start, best[start].end))
    /\ start' = best[start].end + 1
    /\ UNCHANGED <<Placing, best, blocks, pc>>

AllCut ==
    /\ pc = "cut" /\ start > Len(document.blocks)
    /\ blocks' = (IF groups = <<>> THEN <<>> ELSE Head(groups)) /\ pc' = "place"
    /\ UNCHANGED <<Placing, start, best, groups>>

-----------------------------------------------------------------------------
(* One round of html_plan: a block, or a heading with what follows it.     *)

\* Mutant: a heading is placed like any other block.
Glued_never == FALSE

Glued == /\ IsHeading(document.blocks[blocks[1]]) /\ Len(blocks) > 1
         /\ Width(blocks[1]) + 2 + Width(blocks[2]) <= MaxPart

PlaceBlock ==
    /\ pc = "place" /\ blocks # <<>>
    /\ LET value == IF Glued THEN <<blocks[1], -1, blocks[2]>> ELSE <<blocks[1]>>
           width == IF Glued THEN Width(blocks[1]) + 2 + Width(blocks[2]) ELSE Width(blocks[1])
           line == IF current.size > 0 THEN 2 ELSE 0
       IN  /\ blocks' = IF Glued THEN Tail(Tail(blocks)) ELSE Tail(blocks)
           /\ \/ width = 0 /\ UNCHANGED <<tokens, parts, current, pc>>
              \/ /\ width > 0 /\ current.size + line + width <= MaxPart
                 /\ current' = Added(current, line + width, BlocksText(value), BlocksTags(value))
                 /\ UNCHANGED <<tokens, parts, pc>>
              \/ /\ width > 0 /\ current.size + line + width > MaxPart
                 /\ parts' = Flushed /\ current' = Empty /\ pc' = "split"
                 /\ tokens' = IF Glued THEN Places(blocks[1]) \o Places(-1) \o Places(blocks[2])
                              ELSE Places(blocks[1])
    /\ UNCHANGED <<document, mode, start, best, groups, stack, plan, deep>>

-----------------------------------------------------------------------------
(* split_html_message, a token at a time.                                  *)

Reads(kind) == pc = "split" /\ tokens # <<>> /\ TokenAt(tokens[1]).kind = kind
Rest == <<document, mode, start, best, groups, blocks, plan, pc>>

\* A tag that would leave less than half of a message to its content is left out.
TooWide(token) == token.width + Closing + EndWidth(token.tag) > MaxPart \div 2

OpenTag ==
    /\ Reads("open") /\ tokens' = Tail(tokens)
    /\ LET token == TokenAt(tokens[1])
           full == current.size + token.width + Closing + EndWidth(token.tag) > MaxPart
           part == IF full THEN Reopened ELSE current
       IN  \/ TooWide(token) /\ UNCHANGED <<stack, parts, current, deep>>
           \/ /\ ~TooWide(token)
              /\ parts' = IF full THEN Flushed ELSE parts
              /\ current' = Added(part, token.width, <<>>, <<Tag(token)>>)
              /\ stack' = Append(stack, [tag |-> token.tag, opening |-> Opening + token.width,
                                        closing |-> Closing + EndWidth(token.tag)])
              /\ deep' = (deep \/ Opening + token.width + Closing + EndWidth(token.tag) + 2 > MaxPart)
    /\ UNCHANGED Rest

CloseTag ==
    /\ Reads("close") /\ tokens' = Tail(tokens)
    /\ LET token == TokenAt(tokens[1])
           mine == stack # <<>> /\ Last(stack).tag = token.tag
           ends == Closing - (IF Len(stack) > 1 THEN stack[Len(stack) - 1].closing ELSE 0)
       IN  \/ /\ mine /\ stack' = Front(stack)
              /\ current' = Added(current, ends, <<>>, <<Tag(token)>>)
           \/ ~mine /\ UNCHANGED <<stack, current>>
    /\ UNCHANGED <<Rest, parts, deep>>

\* Mutant: the tags that will have to be closed are forgotten.
FitsHere_text(token) == current.size + token.width <= MaxPart

FitsHere(token) == current.size + token.width + Closing <= MaxPart

\* Mutant: a word that does not fit is broken, even if the next message has room for it.
FitsNext_never(token) == FALSE

FitsNext(token) == Opening + token.width + Closing <= MaxPart

Unit ==
    /\ Reads("unit") /\ tokens[1].char = 1
    /\ LET token == TokenAt(tokens[1])
           text == CharsFrom(tokens[1])
       IN  \/ /\ FitsHere(token)
              /\ current' = Added(current, token.width, text, <<>>)
              /\ UNCHANGED parts
           \/ /\ ~FitsHere(token) /\ FitsNext(token)
              /\ parts' = Flushed
              /\ current' = Added(Reopened, token.width, text, <<>>)
    /\ tokens' = Tail(tokens)
    /\ UNCHANGED <<Rest, stack, deep>>

\* A character of a unit longer than a message.
Character ==
    /\ Reads("unit")
    /\ LET place == tokens[1]
           token == TokenAt(place)
           width == token.chars[place.char]
           full == current.size + width + Closing > MaxPart
       IN  /\ place.char > 1 \/ ~(FitsHere(token) \/ FitsNext(token))
           /\ parts' = IF full THEN Flushed ELSE parts
           /\ current' = Added(IF full THEN Reopened ELSE current, width, CharAt(place), <<>>)
           /\ tokens' = IF place.char = Len(token.chars) THEN Tail(tokens)
                        ELSE [tokens EXCEPT ![1].char = @ + 1]
    /\ UNCHANGED <<Rest, stack, deep>>

EndSplit ==
    /\ pc = "split" /\ tokens = <<>>
    /\ current' = Closed(current) /\ stack' = <<>> /\ pc' = "place"
    /\ UNCHANGED <<document, mode, start, best, groups, blocks, tokens, parts, plan, deep>>

-----------------------------------------------------------------------------
\* Mutant: the message being filled is forgotten.
Made_complete == parts

Made == IF current.size > 0 THEN Append(parts, current) ELSE parts

\* A group is planned.
EndGroup ==
    /\ pc = "place" /\ blocks = <<>> /\ Made # <<>>
    /\ plan' = Append(plan, [blocks |-> Head(groups), parts |-> Made])
    /\ groups' = Tail(groups)
    /\ blocks' = IF Len(groups) > 1 THEN groups[2] ELSE <<>>
    /\ pc' = IF Len(groups) > 1 THEN "place" ELSE "done"
    /\ parts' = <<>> /\ current' = Empty
    /\ UNCHANGED <<document, mode, start, best, tokens, stack, deep>>

\* "No meaningful HTML reserve": the plan made so far is dropped.
GiveUpRich ==
    /\ mode = "rich" /\ pc = "place" /\ blocks = <<>> /\ Made = <<>>
    /\ mode' = "html" /\ plan' = <<>>
    /\ groups' = <<Whole(document)>> /\ blocks' = Whole(document)
    /\ UNCHANGED <<document, start, best, tokens, stack, parts, current, pc, deep>>

Unsaid == mode = "html" /\ Made = <<>>

\* Nothing is left of the answer: its source is sent.
SendSource ==
    /\ pc = "place" /\ blocks = <<>> /\ Unsaid
    /\ mode' = "source" /\ groups' = <<<<0>>>>
    /\ tokens' = Places(0) /\ pc' = "split"
    /\ UNCHANGED <<document, start, best, blocks, stack, parts, current, plan, deep>>

Next ==
    \/ PackAll \/ Pack \/ AllPacked \/ CutGroup \/ AllCut
    \/ PlaceBlock \/ OpenTag \/ CloseTag \/ Unit \/ Character \/ EndSplit
    \/ EndGroup \/ GiveUpRich \/ SendSource

Spec == Init /\ [][Next]_vars

-----------------------------------------------------------------------------
(* Properties.                                                             *)

\* Tags are open only while a value is cut, and leave room for a character in every message;
\* when every group is planned, nothing is left over.
StackInv ==
    /\ pc # "split" => stack = <<>> /\ tokens = <<>>
    /\ groups = <<>> => pc # "split" /\ Made = <<>> /\ blocks = <<>>
    /\ \A i \in DOMAIN stack : i > 1 => stack[i - 1].opening <= stack[i].opening
                                       /\ stack[i - 1].closing <= stack[i].closing
    /\ ~deep => \A i \in DOMAIN stack : stack[i].opening + stack[i].closing + 2 <= MaxPart

\* The packings found so far: of the blocks from each one on, a first message that holds them
\* up to its end.
PackInv ==
    LET d == document.blocks
    IN  /\ pc = "pack" => start <= Len(d) /\ DOMAIN best = start + 1 .. Len(d) + 1
        /\ pc = "cut" => start \in 1 .. Len(d) + 1 /\ DOMAIN best = 1 .. Len(d) + 1
        /\ Packing => mode = "rich" /\ blocks = <<>> /\ parts = <<>> /\ current = Empty /\ plan = <<>>
        /\ pc = "pack" => groups = <<>>
        /\ \A s \in DOMAIN best : s <= Len(d) => best[s].end \in s .. Len(d) /\ Fits(d, s, best[s].end)

\* The types of the variables, and what holds of the open tags and of the packings.
PlanInv == TypeOK /\ StackInv /\ PackInv

AllParts == Elements(parts) \union UNION {Elements(group.parts) : group \in Elements(plan)}

\* Every message fits Telegram (RESPONSE_SPEED_AND_LAYOUT.md:72), the one being filled
\* together with the tags it has to close, unless the open tags alone take it up.
PartsFit ==
    ~deep => /\ \A part \in AllParts : part.size <= MaxPart
             /\ current.size + Closing <= MaxPart

\* Every message closes the tags it opens, in their order, and no other.
Balanced == \A part \in AllParts : Opened(part.tags) = <<>>

Text(ps) == FlattenSeq([i \in DOMAIN ps |-> ps[i].text])

\* The messages of every group hold its text, in its order, nothing twice and nothing left
\* out: what the outbox sends in the place of a rich message that Telegram rejects says the
\* same; the groups are the blocks of the answer; and there is always something to send.
NothingLost ==
    /\ \A i \in DOMAIN plan : Text(plan[i].parts) = BlocksText(plan[i].blocks)
    /\ groups # <<>> /\ ~Packing =>
          Text(Append(parts, current)) \o TextOf(tokens) \o BlocksText(blocks) = BlocksText(Head(groups))
    /\ mode # "source" /\ ~Packing => FlattenSeq([i \in DOMAIN plan |-> plan[i].blocks])
                            \o FlattenSeq(groups) = Whole(document)
    /\ pc = "done" => plan # <<>> /\ \A i \in DOMAIN plan : plan[i].parts # <<>>

Neighbours(ps) == {i \in DOMAIN ps : i + 1 \in DOMAIN ps /\ ps[i].text # <<>> /\ ps[i + 1].text # <<>>}

\* A word, or an entity, lies in two messages only if none has room for it
\* (telegram_html.py:187; RESPONSE_SPEED_AND_LAYOUT.md:72).
WholeWords ==
    LET ps == Append(parts, current)
    IN  \A i \in Neighbours(ps) :
            LET last == Last(ps[i].text)
                first == ps[i + 1].text[1]
            IN  (last.block = first.block /\ last.token = first.token)
                    => TokenAt(first).width + ps[i + 1].around > MaxPart

\* A heading ends a message only if it does not fit one with what follows it, or if the block
\* before it in its group is a heading too.
HeadingLeads ==
    \A g \in DOMAIN plan : \A i \in Neighbours(plan[g].parts) :
        LET b == Last(plan[g].parts[i].text).block
            c == plan[g].parts[i + 1].text[1].block
            d == document.blocks
        IN  (b > 0 /\ c = b + 1 /\ IsHeading(d[b])) =>
                \/ Width(b) + 2 + Width(c) > MaxPart
                \/ b - 1 \in Range(plan[g].blocks) /\ IsHeading(d[b - 1])

\* A way to cut the blocks from first on into messages is the set of those that end one.
Adjacent(ends, i, j) == i < j /\ ~\E k \in ends : i < k /\ k < j
Packings(d, first) ==
    {ends \in SUBSET (first .. Len(d)) :
        /\ Len(d) \in ends
        /\ \A i \in ends \union {first - 1}, j \in ends :
              Adjacent(ends, i, j) => Fits(d, i + 1, j)}
Headings(d, ends) == Cardinality({e \in ends \ {Len(d)} : IsHeading(d[e])})

\* No other way to pack an answer into rich messages needs fewer of them, or as many and
\* leaves fewer headings at their ends, as long as the other penalties do not add up to that
\* of a heading.
PackedBest ==
    (mode = "rich" /\ ~Packing /\ plan = <<>> /\ groups # <<>>) =>
        LET d == document.blocks
            mine == {Last(groups[i]) : i \in DOMAIN groups}
        IN  /\ mine \in Packings(d, 1)
            /\ \A other \in Packings(d, 1) :
                  /\ Cardinality(mine) <= Cardinality(other)
                  /\ Cardinality(mine) = Cardinality(other) /\ 3 * (Cardinality(mine) - 1) < 100
                        => Headings(d, mine) <= Headings(d, other)
=============================================================================
