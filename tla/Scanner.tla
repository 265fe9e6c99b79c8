------------------------------- MODULE Scanner -------------------------------
(***************************************************************************)
(* How src/source/lexer.cpp finds the next token, character by character:   *)
(* blanks, comments and directives are passed over, a token is read, and    *)
(* the words between the marks of an ignored section are thrown away.       *)
(*                                                                         *)
(* The text is a sequence of characters of which only the ones the scanner  *)
(* looks at are told apart: "nl", "cr" and " ", "bs" (a backslash), "eof"   *)
(* behind the end; every letter stands for a letter, a digit behind one or  *)
(* an underscore.                                                          *)
(* Positions in lines, which no later stage reads, are left out, and so are *)
(* literals, which the scanner takes for single unknown characters.         *)
(***************************************************************************)
EXTENDS Naturals, Sequences, FiniteSets, FiniteSetsExt

CONSTANTS Texts,    \* the texts, sequences of characters
          Moded,    \* bound: those the client switches the modes in
          Letters,  \* the characters of identifiers
          Reserved, \* a function from strings of characters to token types
          Keys      \* the types that are reserved in a meta tag only

ASSUME ScannerAssumption ==
    /\ Moded \subseteq Texts
    /\ \A chars \in DOMAIN Reserved : Len(chars) > 0
    /\ Keys \subseteq {Reserved[chars] : chars \in DOMAIN Reserved}
    /\ Reserved[<<">">>] = ">" /\ Reserved[<<">", ">">>] = ">>"

VARIABLES
    text,         \* the characters of the header
    at,           \* the current character, mCurrProcessedText.front()
    place,        \* where in _scanToken and the functions it calls
    depth,        \* the comments /* that are open
    back,         \* where _skipComments was called outside of a comment
    escapes,      \* depth of _skipMacroDefinitions
    skipping,     \* "no", "in" or "behind" a section to ignore
    templateMode, \* mIsTemplateArgsParsingModeEnabled
    metaMode,     \* mIsMetaTagParsingModeEnabled
    token,        \* mLastScannedToken
    \* history
    delivered,    \* the tokens returned
    done,         \* the last character of the last token returned
    items         \* what a C++ compiler makes of the text

scan == <<at, place, depth, back, escapes, skipping>>
modes == <<templateMode, metaMode>>
results == <<token, delivered, done>>
vars == <<text, scan, modes, results, items>>

Blanks == {" ", "nl", "cr"}
EndOfText == Len(text) + 1
Char(i) == IF i \in 1..Len(text) THEN text[i] ELSE "eof"

\* _getNextChar, n times: the end is never passed.
Later(i, n) == Min({i + n, EndOfText})

-----------------------------------------------------------------------------
(* What a compiler makes of a text t: blanks, comments, directives, words   *)

\* The first position of t from i on that is in where, or the last one.
First(t, i, where) == Min({j \in where : j >= i} \cup {Len(t)})

OpensIn(t, i) == i < Len(t) /\ t[i] = "/" /\ t[i + 1] \in {"/", "*"}

LineEnds(t) == {j \in 1..Len(t) : t[j] = "nl"}
BlockEnds(t) == {j \in 2..Len(t) : t[j] = "/" /\ t[j - 1] = "*"}
DirectiveEnds(t) == {j \in 2..Len(t) : t[j] \in {"nl", "cr"} /\ t[j - 1] # "bs"}
WordEnds(t) == {j \in 1..(Len(t) - 1) : t[j + 1] \notin Letters}

TypeOfWord(chars) == IF chars \in DOMAIN Reserved THEN Reserved[chars]
                     ELSE IF chars[1] \in Letters THEN "id" ELSE "unknown"

ItemAt(t, i) ==
    LET Item(type, to) == [type |-> type, from |-> i, to |-> to]
        Word(to) == Item(TypeOfWord(SubSeq(t, i, to)), to)
    IN  CASE t[i] \in Blanks -> Item("blank", i)
          [] OpensIn(t, i) /\ t[i + 1] = "/" -> Item("comment", First(t, i, LineEnds(t)))
          [] OpensIn(t, i) /\ t[i + 1] = "*" -> Item("comment", First(t, i + 3, BlockEnds(t)))
          [] t[i] = "#" -> Item("directive", First(t, i + 1, DirectiveEnds(t)))
          [] t[i] \in Letters -> Word(First(t, i, WordEnds(t)))
          [] OTHER -> IF i < Len(t) /\ <<t[i], t[i + 1]>> \in DOMAIN Reserved
                      THEN Word(i + 1) ELSE Word(i)

ItemsOf(t) ==
    LET From[i \in 1..(Len(t) + 1)] ==
            IF i > Len(t) THEN <<>>
            ELSE <<ItemAt(t, i)>> \o From[ItemAt(t, i).to + 1]
    IN  From[1]

IsWord(item) == item.type \notin {"blank", "comment", "directive"}
words == SelectSeq(items, IsWord)

-----------------------------------------------------------------------------
Init == /\ text \in Texts
        /\ at = 0
        /\ place = "idle" /\ depth = 0 /\ back = "start" /\ escapes = 0
        /\ skipping = "no"
        /\ templateMode = FALSE /\ metaMode = FALSE
        /\ token = [type |-> "invalid", from |-> 0]
        /\ delivered = <<>> /\ done = 0
        /\ items = ItemsOf(text)

(* Tokens *)

\* The characters i..to(i) make the token at i.
EndOfWord(i) == First(text, i, WordEnds(text))

\* The pair of characters is tried first; ">>" is none in template arguments.
IsPair(i) == /\ i < Len(text) /\ <<text[i], text[i + 1]>> \in DOMAIN Reserved
             /\ templateMode => Reserved[<<text[i], text[i + 1]>>] # ">>"

EndOfToken(i) == IF Char(i) = "eof" THEN i
                 ELSE IF text[i] \in Letters THEN EndOfWord(i)
                 ELSE IF IsPair(i) THEN i + 1 ELSE i

\* A key of a meta tag is an identifier outside of one.
TypeOfToken(i) ==
    LET type == TypeOfWord(SubSeq(text, i, EndOfToken(i)))
    IN  IF Char(i) = "eof" THEN "eof"
        ELSE IF type \in Keys /\ ~metaMode THEN "id" ELSE type

\* What becomes of a token: it begins or ends a section, is ignored in one, or
\* is returned ("no") - behind a section without a second look.
Section(type) ==
    CASE skipping = "no" -> IF type = "begin" THEN "in" ELSE "no"
      [] skipping = "in" -> IF type \in {"end", "eof"} THEN "behind" ELSE "in"
      [] skipping = "behind" -> "no"

\* The token at i is complete.
Scanned(i) ==
    LET type == TypeOfToken(i)
        read == [type |-> type, from |-> i]
    IN  /\ at' = EndOfToken(i)
        /\ skipping' = Section(type)
        /\ IF Section(type) = "no"
           THEN /\ place' = "idle"
                /\ token' = read /\ done' = EndOfToken(i)
                /\ delivered' = IF type = "eof" THEN delivered ELSE Append(delivered, read)
           ELSE place' = "next" /\ UNCHANGED results
        /\ UNCHANGED <<text, depth, back, escapes, modes, items>>

-----------------------------------------------------------------------------
(* Steps of the scanner *)

\* i is the current character and the scanner goes on at p.
Goes(i, p) == /\ at' = i /\ place' = p
              /\ UNCHANGED <<text, skipping, modes, results, items>>

SameNesting == UNCHANGED <<depth, back, escapes>>

\* The loop of _scanToken.
NextChar ==
    /\ place = "next"
    /\ IF Later(at, 1) = EndOfText THEN Scanned(EndOfText)
       ELSE Goes(at + 1, "start") /\ SameNesting

\* Variant: a comment opens in front of a blank, too.
OpensBeforeBlank(i) == Char(i) = "/" /\ Char(i + 1) \in {"/", "*"} \cup Blanks

Opens(i) == Char(i) = "/" /\ Char(i + 1) \in {"/", "*"}

\* _skipComments at the beginning, behind blanks and inside of a comment: two
\* characters are taken, and the loops below take another before they look.
EnterComment ==
    /\ place \in {"start", "blanks", "inside"} /\ Opens(at)
    /\ LET block == Char(at + 1) = "*"
       IN  /\ Goes(Later(at, 2), IF block THEN "block" ELSE "line")
           /\ depth' = IF block THEN depth + 1 ELSE depth
    /\ back' = IF place = "inside" THEN back ELSE place
    /\ UNCHANGED escapes

NoComment ==
    /\ place \in {"start", "blanks", "inside"} /\ ~Opens(at)
    /\ place = "blanks" => Char(at) \notin Blanks
    /\ Goes(at, IF place = "inside" THEN "block" ELSE "spaces") /\ SameNesting

\* A comment ends at i and open comments are left; behind blanks a character is
\* taken before _skipWhitespaces looks for more blanks.
LeaveComment(i, open) ==
    /\ depth' = open
    /\ IF open > 0 THEN Goes(i, "block")
       ELSE IF back = "start" THEN Goes(i, "next")
       ELSE Goes(Later(i, 1), "spaces")
    /\ UNCHANGED <<back, escapes>>

SkipSingleLineComment ==
    /\ place = "line"
    /\ IF Char(Later(at, 1)) \in {"nl", "eof"} THEN LeaveComment(Later(at, 1), depth)
       ELSE Goes(at + 1, "line") /\ SameNesting

SkipMultiLineComment ==
    /\ place = "block"
    /\ IF Char(Later(at, 1)) = "eof" THEN LeaveComment(EndOfText, depth - 1)
       ELSE IF Char(at + 1) = "*" /\ Char(at + 2) = "/" THEN LeaveComment(at + 2, depth - 1)
       ELSE Goes(at + 1, "inside") /\ SameNesting

SkipBlank ==
    /\ place \in {"spaces", "blanks"} /\ Char(at) \in Blanks
    /\ Goes(Later(at, 1), "blanks") /\ SameNesting

EnterDirective ==
    /\ place = "spaces" /\ Char(at) = "#"
    /\ Goes(at, "directive")
    /\ escapes' = 1 /\ UNCHANGED <<depth, back>>

\* Variant: only the end of a line ends a directive.
NeedsNewLine(char) == IF char = "bs" THEN escapes + 1
                      ELSE IF char \in {"nl", "cr"} THEN escapes - 1 ELSE escapes

\* Every backslash, wherever it is, needs one more end of a line.
Escapes(char) == IF char = "bs" THEN escapes + 1
                 ELSE IF char \in {"nl", "cr", "eof"} THEN escapes - 1 ELSE escapes

SkipMacroDefinition ==
    /\ place = "directive"
    /\ escapes' = Escapes(Char(Later(at, 1)))
    /\ Goes(Later(at, 1), IF escapes' = 0 THEN "next" ELSE "directive")
    /\ UNCHANGED <<depth, back>>

ReadToken ==
    /\ place = "spaces" /\ Char(at) \notin Blanks \cup {"#"}
    /\ Scanned(at)

Scan == \/ NextChar \/ EnterComment \/ NoComment
        \/ SkipSingleLineComment \/ SkipMultiLineComment \/ SkipBlank
        \/ EnterDirective \/ SkipMacroDefinition \/ ReadToken

-----------------------------------------------------------------------------
(* The client *)

Idle == place = "idle" /\ UNCHANGED <<text, depth, back, escapes, skipping, results, items>>

GetNextToken == Idle /\ place' = "next" /\ UNCHANGED <<at, modes>>

SetTemplateArgsParsingMode(state) ==
    Idle /\ text \in Moded /\ templateMode' = state /\ UNCHANGED <<at, place, metaMode>>

SetMetaTagParsingMode(state) ==
    Idle /\ text \in Moded /\ metaMode' = state /\ UNCHANGED <<at, place, templateMode>>

Client == \/ GetNextToken
          \/ \E state \in BOOLEAN : SetTemplateArgsParsingMode(state)
                                    \/ SetMetaTagParsingMode(state)

Next == Scan \/ Client

Spec == Init /\ [][Next]_vars

\* A call runs on the thread that made it and waits for nothing.
FairSpec == Spec /\ WF_vars(Scan)

-----------------------------------------------------------------------------
(* Properties *)

\* The texts the scanner reads as a compiler does.  They have
\*   - no "//" directly in front of the end of the line, and no "/**/",
\*   - no "/*" or "//" inside of a comment /* */,
\*   - no two comments back to back, the first behind a blank,
\*   - a backslash in a directive only at the very end of the line,
\*   - no ">" directly behind ">>".
IsRead(i) ==
    LET item == items[i]
        Is(k, type) == k \in 1..Len(items) /\ items[k].type = type
    IN  CASE item.type = "comment" ->
               /\ text[item.from + 1] = "/" => Char(item.from + 2) # "nl"
               /\ text[item.from + 1] = "*" =>
                      /\ item.to = item.from + 3 => item.to \notin BlockEnds(text)
                      /\ \A k \in (item.from + 3)..(item.to - 2) : ~OpensIn(text, k)
               /\ ~(Is(i - 1, "blank") /\ Is(i + 1, "comment"))
          [] item.type = "directive" ->
               \A k \in item.from..item.to :
                   text[k] = "bs" => Char(k + 1) \in {"nl", "eof"}
          [] item.type = ">>" -> Char(item.to + 1) # ">"
          [] OTHER -> TRUE

IsClean == \A i \in 1..Len(items) : IsRead(i)

\* The words and tokens of this module as those of Lexer.
TypesOf(seq) == [k \in 1..Len(seq) |-> seq[k].type]
WordAt(i) == CHOOSE k \in 1..Len(words) : i \in words[k].from..words[k].to
AsToken(t) == [type |-> t.type,
               at |-> IF t.type \in {"invalid", "eof"} THEN 0 ELSE WordAt(t.from)]

IsAhead(item) == item.from > done
IsSplit == \E k \in 1..Len(words) : words[k].from <= done /\ done < words[k].to
Ahead == (IF IsSplit THEN <<">">> ELSE <<>>) \o TypesOf(SelectSeq(words, IsAhead))

L == INSTANCE Lexer WITH
        Words <- {"id", "unknown"} \cup {Reserved[chars] : chars \in DOMAIN Reserved},
        MaxText <- 0, MaxQueue <- 0, Offsets <- {},
        text <- TypesOf(words), rest <- Ahead, queue <- <<>>,
        token <- AsToken(token), answer <- AsToken(token),
        delivered <- [i \in 1..Len(delivered) |-> AsToken(delivered[i])],
        promised <- [type |-> "invalid", at |-> 0]

\* In every text with none of these forms the scanner delivers the words of the
\* text as module Lexer says it: characters of a comment, a directive or a
\* section never become a token, no word is lost, joined or split but for ">>",
\* whichever mode the parser switches to between two tokens.
ImplementsLexer == [][IsClean => [L!Next]_(L!vars)]_vars

\* A call returns whatever the text is: an open comment, a directive or a section
\* that is never closed, a continuation on the last line.
EachCallReturns == place # "idle" ~> place = "idle"

\* lexer.cpp:256-262: while not at the end of the text "skip whitespaces, skip
\* comments, read literals, read identifiers and keywords".
TokensAreThoseOfTheText ==
    /\ Len(delivered) <= Len(words)
    /\ \A i \in 1..Len(delivered) : delivered[i].from = words[i].from
    /\ token.type = "eof" => Len(delivered) = Len(words)
=============================================================================
