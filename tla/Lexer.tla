-------------------------------- MODULE Lexer --------------------------------
(***************************************************************************)
(* The token interface of src/source/lexer.cpp: a queue of tokens that were *)
(* peeked at, the last token that was delivered, two modes that change what *)
(* the text is taken for, and sections of the text that are left out.       *)
(*                                                                         *)
(* The text is a sequence of words with blanks between them.  A word stands *)
(* for a token of that type, but for                                       *)
(*   a word of Keys, reserved in a meta tag, an identifier outside of it    *)
(*   ">>"            one token, or two tokens ">" in template arguments     *)
(*   "begin", "end"  the marks around a section to leave out                *)
(***************************************************************************)
EXTENDS Naturals, Sequences, FiniteSets

CONSTANTS Words,     \* the words of the texts
          Keys,      \* those that are reserved in a meta tag only
          MaxText,   \* bound: the length of a text
          MaxQueue,  \* bound: the length of the queue
          Offsets    \* the offsets the client calls PeekToken with

ASSUME LexerAssumption ==
    /\ Keys \subseteq Words \ {">>", ">", "begin", "end"}
    /\ MaxText \in Nat /\ MaxQueue \in Nat /\ Offsets \subseteq Nat

VARIABLES
    text,         \* what the stream delivers
    rest,         \* what is left of it: mCurrProcessedText and the stream
    queue,        \* mTokensQueue
    token,        \* mLastScannedToken
    templateMode, \* mIsTemplateArgsParsingModeEnabled
    metaMode,     \* mIsMetaTagParsingModeEnabled
    answer,       \* the token the last call returned
    \* history
    delivered,    \* the tokens GetNextToken has returned
    promised      \* what PeekToken() said of the next one, if its queue was short

vars == <<text, rest, queue, token, templateMode, metaMode, answer, delivered,
          promised>>

\* A token knows the word it comes from, by its position in the text.
Types == Words \cup {"id", ">"}
Tokens == [type : Types, at : Nat]

\* TToken(), which the parser would take for the end of the text.
Invalid == [type |-> "invalid", at |-> 0]
Eof == [type |-> "eof", at |-> 0]

TypeOK ==
    /\ text \in Seq(Words)
    /\ rest \in Seq(Words \cup {">"}) /\ Len(rest) <= Len(text)
    /\ queue \in Seq(Tokens \cup {Eof})
    /\ token \in Tokens \cup {Eof, Invalid}
    /\ answer \in Tokens \cup {Eof, Invalid}
    /\ promised \in Tokens \cup {Eof, Invalid}
    /\ templateMode \in BOOLEAN /\ metaMode \in BOOLEAN
    /\ delivered \in Seq(Tokens)

-----------------------------------------------------------------------------
(* Scanning *)

Position(words) == Len(text) - Len(words) + 1

TypeOf(word) == CASE word \in Keys -> IF metaMode THEN word ELSE "id"
                  [] word = ">>" -> IF templateMode THEN ">" ELSE ">>"
                  [] OTHER -> word

\* _scanToken: the token at the beginning of words.
ScannedToken(words) ==
    IF words = <<>> THEN Eof
    ELSE [type |-> TypeOf(Head(words)), at |-> Position(words)]

\* Variant: one of the two > is taken, and the two stay.
KeepsTheShift(words) ==
    IF words = <<>> THEN <<>>
    ELSE IF Head(words) = ">>" /\ templateMode THEN <<">">> \o words
    ELSE Tail(words)

\* What it leaves: in the template mode the second > of >>.
AfterToken(words) ==
    IF words = <<>> THEN <<>>
    ELSE IF Head(words) = ">>" /\ templateMode THEN <<">">> \o Tail(words)
    ELSE Tail(words)

\* _skipIgnoredTokensSection up to the mark or to the end of the text.
AfterSection(words) ==
    LET ends == {k \in 1..Len(words) : words[k] = "end"}
    IN  IF ends = {} THEN <<>>
        ELSE SubSeq(words, (CHOOSE k \in ends : \A j \in ends : k <= j) + 1, Len(words))

\* Variant: the text goes on at the mark that ends the section.
DeliversTheMark(words) ==
    IF words # <<>> /\ Head(words) = "begin" /\ AfterSection(words) # <<>>
    THEN SubSeq(words, Len(words) - Len(AfterSection(words)), Len(words))
    ELSE words

\* Where _getNextTokenImpl finds its token: behind a section, if one begins here.
Unignored(words) ==
    IF words # <<>> /\ Head(words) = "begin" THEN AfterSection(words) ELSE words

NextToken(words) == ScannedToken(Unignored(words))
AfterNext(words) == AfterToken(Unignored(words))

-----------------------------------------------------------------------------
Init == /\ text \in UNION {[1..n -> Words] : n \in 0..MaxText}
        /\ rest = text
        /\ queue = <<>> /\ token = Invalid
        /\ templateMode = FALSE /\ metaMode = FALSE
        /\ answer = Invalid
        /\ delivered = <<>> /\ promised = Invalid

\* Variant: the next token is scanned although the queue holds it.
ScansPastQueue ==
    /\ token' = NextToken(rest) /\ rest' = AfterNext(rest)
    /\ UNCHANGED queue

\* The next token becomes the last scanned one.
Advance ==
    IF queue # <<>>
    THEN /\ token' = Head(queue) /\ queue' = Tail(queue)
         /\ UNCHANGED rest
    ELSE /\ token' = NextToken(rest) /\ rest' = AfterNext(rest)
         /\ UNCHANGED queue

Delivers ==
    /\ Advance
    /\ answer' = token'
    /\ delivered' = IF token' = Eof THEN delivered ELSE Append(delivered, token')
    /\ promised' = Invalid
    /\ UNCHANGED <<text, templateMode, metaMode>>

GetNextToken == Delivers

GetCurrToken ==
    IF queue = <<>> /\ token = Invalid THEN Delivers
    ELSE /\ answer' = token
         /\ UNCHANGED <<text, rest, queue, token, templateMode, metaMode,
                        delivered, promised>>

\* Appends n more tokens to the queue.
Fetch[n \in Nat] ==
    IF n = 0 THEN <<queue, rest>>
    ELSE LET before == Fetch[n - 1]
         IN  <<Append(before[1], NextToken(before[2])), AfterNext(before[2])>>

\* The queue after PeekToken(offset) and what is left of the text.
Peeked(offset) ==
    IF offset = 0 THEN Fetch[1]
    ELSE IF offset <= Len(queue) THEN <<queue, rest>>
    ELSE Fetch[offset - Len(queue)]

\* The element of the queue q that PeekToken(offset) returns.
Place(offset, q) == IF offset = 0 THEN 1
                    ELSE IF offset < Len(queue) THEN offset + 1
                    ELSE Len(q)

\* The client has asked for the current token before: after a peek at a fresh
\* lexer GetCurrToken would return the invalid token.
PeekToken(offset) ==
    /\ token # Invalid
    /\ queue' = Peeked(offset)[1] /\ rest' = Peeked(offset)[2]
    /\ Len(queue') <= MaxQueue
    /\ answer' = queue'[Place(offset, queue')]
    /\ promised' = IF offset = 1 /\ Len(queue) <= 1 THEN answer' ELSE promised
    /\ UNCHANGED <<text, token, templateMode, metaMode, delivered>>

SetTemplateArgsParsingMode(state) ==
    /\ templateMode' = state
    /\ UNCHANGED <<text, rest, queue, token, metaMode, answer, delivered, promised>>

SetMetaTagParsingMode(state) ==
    /\ metaMode' = state
    /\ UNCHANGED <<text, rest, queue, token, templateMode, answer, delivered, promised>>

Next == \/ GetNextToken \/ GetCurrToken
        \/ \E offset \in Offsets : PeekToken(offset)
        \/ \E state \in BOOLEAN : SetTemplateArgsParsingMode(state)
                                  \/ SetMetaTagParsingMode(state)

Spec == Init /\ [][Next]_vars

-----------------------------------------------------------------------------
(* Properties *)

\* The words of the ignored sections, marks included: a section goes from its
\* first mark to the next "end", or to the end of the text.
SectionOf(k) == {b \in 1..k : text[b] = "begin" /\ \A j \in b..(k - 1) : text[j] # "end"}
Ignored == {k \in 1..Len(text) : SectionOf(k) # {}}

Scanned == delivered \o queue
Passed == 1..(Len(text) - Len(rest))

\* What the parser has read of the text and what it has peeked at is the text,
\* in order and without a gap, but for the ignored sections: neither the queue
\* nor a switch of the mode loses a token, repeats one or splits half of one off.
ScannedIsText ==
    /\ \A i, j \in 1..Len(Scanned) :
          i < j /\ Scanned[j] # Eof => Scanned[i].at <= Scanned[j].at /\ Scanned[i] # Eof
    /\ \A k \in Passed \ Ignored :
          Cardinality({i \in 1..Len(Scanned) : Scanned[i].at = k}) =
              IF /\ text[k] = ">>"
                 /\ \E i \in 1..Len(Scanned) : Scanned[i] = [type |-> ">", at |-> k]
              THEN 2 ELSE 1

\* The word the parser sees with PeekToken() is the one GetNextToken() gives it
\* next, also if it peeks again or switches the mode in between.
PeekIsKept == [][GetNextToken => promised \in {Invalid, token'}]_vars

\* Words of an ignored section come through only if its mark is the first word
\* behind another section, which lexer.cpp:148 does not look at, although
\* lexer.cpp:156 has a section "skip range of tokens between two keywords".
OnlyAdjacentSectionsLeak ==
    \A i \in 1..Len(delivered) : delivered[i].at \in Ignored =>
        \E b \in SectionOf(delivered[i].at) : b - 1 \in Ignored /\ text[b - 1] = "end"
=============================================================================
