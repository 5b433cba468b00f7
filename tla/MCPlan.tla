------------------------------- MODULE MCPlan -------------------------------
(* Answers for TLC: one block of a few tokens, or a few blocks.            *)
EXTENDS AnswerPlan

Ones(n) == [i \in 1 .. n |-> 1]
Twos(n) == [i \in 1 .. n |-> 2]
WordOf(n) == [kind |-> "unit", tag |-> "none", width |-> n, chars |-> Ones(n)]
Emoji == [kind |-> "unit", tag |-> "none", width |-> 28, chars |-> Twos(14)]
Bold == [kind |-> "open", tag |-> "b", width |-> 3, chars |-> <<>>]
EndBold == [kind |-> "close", tag |-> "b", width |-> 4, chars |-> <<>>]
Link == [kind |-> "open", tag |-> "a", width |-> 7, chars |-> <<>>]
EndLink == [kind |-> "close", tag |-> "a", width |-> 4, chars |-> <<>>]

Units(n) == UNION {[1 .. k -> {WordOf(5), WordOf(14), Emoji}] : k \in 0 .. n}

\* Text, some of it inside up to two tags.
Wraps == {<<<<>>, <<>>>>, <<<<Bold>>, <<EndBold>>>>, <<<<Link>>, <<EndLink>>>>,
          <<<<Bold, Link>>, <<EndLink, EndBold>>>>, <<<<Link, Bold>>, <<EndBold, EndLink>>>>,
          <<<<Bold, Bold>>, <<EndBold, EndBold>>>>}
Htmls == {before \o wrap[1] \o inside \o wrap[2] \o after :
             before \in Units(1), inside \in Units(2), after \in Units(1), wrap \in Wraps}

BlockOf(kind, rich, html) == [kind |-> kind, rich |-> rich, width |-> WidthOf(html), html |-> html]
Source == <<WordOf(6), WordOf(1), WordOf(33)>>

OneBlock == {[blocks |-> <<BlockOf("paragraph", 2, html)>>, source |-> Source] :
                html \in Htmls}

Bolded(n) == <<Bold, WordOf(n), EndBold>>
Menu == {BlockOf("title", 1, Bolded(2)), BlockOf("heading", 1, Bolded(6)),
         BlockOf("paragraph", 2, <<WordOf(9)>>),
         BlockOf("paragraph", 4, <<WordOf(10), WordOf(1), WordOf(8), WordOf(1), WordOf(14)>>),
         BlockOf("other", 3, <<Link, WordOf(12), EndLink>>), BlockOf("other", 1, <<>>)}
FewBlocks == {[blocks |-> bs, source |-> Source] : bs \in UNION {[1 .. n -> Menu] : n \in 0 .. 5}}

Answers == OneBlock \union FewBlocks
=============================================================================
