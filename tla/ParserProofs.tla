---------------------------- MODULE ParserProofs ----------------------------
(***************************************************************************)
(* What the parser keeps for every header, whatever its words are.          *)
(***************************************************************************)
EXTENDS Parser, InductionLemmas

-----------------------------------------------------------------------------
(* The lexer's part *)

Tokens == L!Tokens

\* A token is of a word of the text; an identifier is of a name or of a key.
IsOfText(t) ==
    /\ t \in Tokens /\ t.at \in 1..Len(text)
    /\ t.type \in Names \cup {"id"} => text[t.at] \in Names \cup Keys

TextOK == text \in Seq(Words)

\* What is left is the end of the text, but for the half of a >>.
RestOK == /\ rest \in Seq(Words) /\ Len(rest) <= Len(text)
          /\ \A k \in 1..Len(rest) : rest[k] = text[Len(text) - Len(rest) + k]
                                     \/ (k = 1 /\ rest[k] = ">")

\* At most one token is read ahead.
QueueOK == \/ queue = <<>>
           \/ \E t : queue = <<t>> /\ (IsOfText(t) \/ (t = L!Eof /\ rest = <<>>))

\* The end of the text is the last token there is.
TokenOK == \/ token = L!Invalid /\ queue = <<>> /\ stack # <<>> /\ Top.at = "start"
           \/ IsOfText(token)
           \/ token = L!Eof /\ rest = <<>> /\ (queue = <<>> \/ queue = <<L!Eof>>)

AnswersOK == /\ answer \in Tokens \cup {L!Eof, L!Invalid}
             /\ promised \in Tokens \cup {L!Eof, L!Invalid}
             /\ delivered \in Seq(Tokens)
             /\ templateMode \in BOOLEAN /\ metaMode \in BOOLEAN

LexerOK == TextOK /\ RestOK /\ QueueOK /\ TokenOK /\ AnswersOK

\* What a call to the lexer leaves: the end of the text stays the end.
Reads == /\ TextOK' /\ RestOK' /\ QueueOK' /\ AnswersOK'
         /\ IsOfText(token)' \/ (token' = L!Eof /\ rest' = <<>>
                                 /\ (queue' = <<>> \/ queue' = <<L!Eof>>))
         /\ token = L!Eof => token' = L!Eof

-----------------------------------------------------------------------------

LEMMA WordsAreTokens ==
    /\ ">" \in Words /\ ">>" \in Words /\ "begin" \notin Words /\ "id" \notin Words
    /\ "eof" \notin Words /\ "invalid" \notin Words
    /\ L!Types = Words \cup {"id"}
    /\ Keys \subseteq Words /\ Names \subseteq Words
    /\ Names \cap Keys = {} /\ ">" \notin Names /\ ">>" \notin Names /\ "id" \notin Names
    /\ ">" \notin Keys /\ ">>" \notin Keys
  BY ParserAssumption DEF Words, Keys, Punctuation, Keywords, L!Types

\* No word begins an ignored section.
LEMMA NothingIsIgnored ==
    ASSUME NEW words \in Seq(Words)
    PROVE  L!Unignored(words) = words
  <1>1. words # <<>> => Head(words) \in Words
    BY HeadTailProperties
  <1>2. QED
    BY <1>1, WordsAreTokens DEF L!Unignored

LEMMA WordIsToken ==
    ASSUME TextOK, RestOK, AnswersOK, rest # <<>>
    PROVE  IsOfText(L!NextToken(rest))
  <1> DEFINE at == Len(text) - Len(rest) + 1
             word == Head(rest)
  <1>1. /\ Len(text) \in Nat /\ Len(rest) \in Nat /\ Len(rest) >= 1 /\ Len(rest) <= Len(text)
        /\ rest \in Seq(Words) /\ text \in Seq(Words)
    BY LenProperties, EmptySeq DEF TextOK, RestOK
  <1>2. word = rest[1] /\ word \in Words
    BY <1>1, HeadTailProperties
  <1>3. at \in 1..Len(text)
    BY <1>1
  <1>4. word = text[at] \/ word = ">"
    BY <1>1, <1>2 DEF RestOK
  <1>5. L!NextToken(rest) = [type |-> L!TypeOf(word), at |-> at]
    BY <1>1, NothingIsIgnored DEF L!NextToken, L!ScannedToken, L!Position
  <1> HIDE DEF word, at
  <1>6. /\ L!TypeOf(word) \in L!Types
        /\ L!TypeOf(word) \in Names => word \in Names
        /\ L!TypeOf(word) = "id" => word \in Keys
    BY <1>2, WordsAreTokens DEF L!TypeOf, AnswersOK
  <1>7. word \in Names \cup Keys => text[at] = word
    BY <1>4, WordsAreTokens
  <1>8. at \in Nat
    BY <1>1, <1>3
  <1>9. QED
    BY <1>3, <1>5, <1>6, <1>7, <1>8 DEF IsOfText, Tokens, L!Tokens

\* What is left behind a token is again the end of the text.
LEMMA RestIsRead ==
    ASSUME TextOK, RestOK, rest # <<>>
    PROVE  LET r == L!AfterNext(rest)
           IN  /\ r \in Seq(Words) /\ Len(r) <= Len(text)
               /\ \A k \in 1..Len(r) : r[k] = text[Len(text) - Len(r) + k] \/ (k = 1 /\ r[k] = ">")
  <1> DEFINE tail == Tail(rest)
             half == <<">">> \o tail
  <1>1. /\ Len(text) \in Nat /\ Len(rest) \in Nat /\ Len(rest) >= 1 /\ Len(rest) <= Len(text)
        /\ rest \in Seq(Words) /\ text \in Seq(Words)
    BY LenProperties, EmptySeq DEF TextOK, RestOK
  <1>2. /\ tail \in Seq(Words) /\ Len(tail) = Len(rest) - 1
        /\ \A k \in 1..(Len(rest) - 1) : tail[k] = rest[k + 1]
    BY <1>1, HeadTailProperties
  <1>3. \A k \in 1..(Len(rest) - 1) : rest[k + 1] = text[Len(text) - Len(rest) + (k + 1)]
    BY <1>1 DEF RestOK
  <1>4. \A k \in 1..Len(tail) : tail[k] = text[Len(text) - Len(tail) + k]
    BY <1>1, <1>2, <1>3
  <1>5. /\ half \in Seq(Words) /\ Len(half) = Len(rest) /\ half[1] = ">"
        /\ \A k \in 2..Len(rest) : half[k] = tail[k - 1]
    <2>1. <<">">> \in Seq(Words) /\ Len(<<">">>) = 1 /\ <<">">>[1] = ">"
      BY WordsAreTokens
    <2> HIDE DEF tail
    <2>2. QED
      BY <1>1, <1>2, <2>1, ConcatProperties
  <1>6. \A k \in 2..Len(rest) : half[k] = text[Len(text) - Len(half) + k]
    BY <1>1, <1>2, <1>4, <1>5, SMTT(20)
  <1>7. L!AfterNext(rest) \in {tail, half}
    BY <1>1, NothingIsIgnored DEF L!AfterNext, L!AfterToken
  <1> HIDE DEF tail, half
  <1>8. CASE L!AfterNext(rest) = tail
    BY <1>1, <1>2, <1>4, <1>8
  <1>9. CASE L!AfterNext(rest) = half
    BY <1>1, <1>5, <1>6, <1>9, SMTT(30)
  <1>10. QED
    BY <1>7, <1>8, <1>9

LEMMA EndIsRead ==
    /\ L!NextToken(<<>>) = L!Eof /\ L!AfterNext(<<>>) = <<>>
  BY DEF L!NextToken, L!AfterNext, L!Unignored, L!ScannedToken, L!AfterToken

-----------------------------------------------------------------------------
(* The calls to the lexer *)

LEMMA InvalidIsNoToken ==
    /\ L!Invalid # L!Eof
    /\ \A t : IsOfText(t) => t # L!Invalid /\ t # L!Eof
    /\ \A t : IsOfText(t)' => t # L!Invalid /\ t # L!Eof
  <1>1. \A t \in Tokens : t.type # "invalid" /\ t.type # "eof"
    BY WordsAreTokens DEF Tokens, L!Tokens
  <1>2. L!Invalid.type = "invalid" /\ L!Eof.type = "eof"
    BY DEF L!Invalid, L!Eof
  <1>3. \A t : IsOfText(t) => t # L!Invalid /\ t # L!Eof
    BY <1>1, <1>2 DEF IsOfText
  <1>4. \A t : IsOfText(t)' => t # L!Invalid /\ t # L!Eof
    BY <1>1, <1>2 DEF IsOfText, Tokens, L!Tokens, L!Types
  <1>5. L!Invalid # L!Eof
    BY <1>2
  <1>6. QED
    BY <1>3, <1>4, <1>5

\* What a token is does not change, as the text does not.
LEMMA TokensAreKept ==
    ASSUME text' = text
    PROVE  \A t : IsOfText(t)' <=> IsOfText(t)
  BY DEF IsOfText, Tokens, L!Tokens, L!Types

LEMMA QuietStep ==
    ASSUME LexerOK, token # L!Invalid, UNCHANGED lexerVars
    PROVE  Reads
  <1>1. /\ text' = text /\ rest' = rest /\ queue' = queue /\ token' = token
        /\ templateMode' = templateMode /\ metaMode' = metaMode /\ answer' = answer
        /\ delivered' = delivered /\ promised' = promised
    BY DEF lexerVars
  <1>2. \A t : IsOfText(t)' <=> IsOfText(t)
    BY <1>1, TokensAreKept
  <1>3. TextOK' /\ RestOK' /\ AnswersOK'
    BY <1>1 DEF LexerOK, TextOK, RestOK, AnswersOK
  <1>4. QueueOK'
    BY <1>1, <1>2 DEF LexerOK, QueueOK
  <1>5. IsOfText(token)' <=> IsOfText(token)
    BY <1>1 DEF IsOfText
  <1>6. QED
    BY <1>1, <1>3, <1>4, <1>5 DEF LexerOK, TokenOK, Reads

LEMMA ModeStep ==
    ASSUME LexerOK, token # L!Invalid, NEW state \in BOOLEAN,
           L!SetTemplateArgsParsingMode(state) \/ L!SetMetaTagParsingMode(state)
    PROVE  Reads /\ queue' = queue
  <1>1. /\ text' = text /\ rest' = rest /\ queue' = queue /\ token' = token
        /\ templateMode' \in BOOLEAN /\ metaMode' \in BOOLEAN /\ answer' = answer
        /\ delivered' = delivered /\ promised' = promised
    BY DEF L!SetTemplateArgsParsingMode, L!SetMetaTagParsingMode, LexerOK, AnswersOK
  <1>2. \A t : IsOfText(t)' <=> IsOfText(t)
    BY <1>1, TokensAreKept
  <1>3. TextOK' /\ RestOK' /\ AnswersOK'
    BY <1>1 DEF LexerOK, TextOK, RestOK, AnswersOK
  <1>4. QueueOK'
    BY <1>1, <1>2 DEF LexerOK, QueueOK
  <1>5. IsOfText(token)' <=> IsOfText(token)
    BY <1>1 DEF IsOfText
  <1>6. QED
    BY <1>1, <1>3, <1>4, <1>5 DEF LexerOK, TokenOK, Reads

\* The next token comes out of the queue or of the text.
LEMMA DeliverStep ==
    ASSUME LexerOK, L!Delivers
    PROVE  Reads /\ queue' = <<>>
  <1>1. /\ text' = text /\ templateMode' = templateMode /\ metaMode' = metaMode
        /\ answer' = token' /\ promised' = L!Invalid
        /\ delivered' = IF token' = L!Eof THEN delivered ELSE Append(delivered, token')
    BY DEF L!Delivers
  <1>2. \A t : IsOfText(t)' <=> IsOfText(t)
    BY <1>1, TokensAreKept
  <1>3. /\ queue' = <<>>
        /\ IsOfText(token') \/ (token' = L!Eof /\ rest' = <<>>)
        /\ token = L!Eof => token' = L!Eof
        /\ RestOK'
    <2>1. CASE queue # <<>>
      <3>1. PICK t : queue = <<t>> /\ (IsOfText(t) \/ (t = L!Eof /\ rest = <<>>))
        BY <2>1 DEF LexerOK, QueueOK
      <3>2. token' = t /\ queue' = <<>> /\ rest' = rest
        BY <2>1, <3>1 DEF L!Delivers, L!Advance
      <3>3. token = L!Eof => t = L!Eof
        BY <2>1, <3>1, InvalidIsNoToken DEF LexerOK, TokenOK
      <3>4. RestOK'
        BY <1>1, <3>2 DEF LexerOK, RestOK
      <3>5. QED
        BY <3>1, <3>2, <3>3, <3>4
    <2>2. CASE queue = <<>> /\ rest # <<>>
      <3>1. token' = L!NextToken(rest) /\ queue' = <<>> /\ rest' = L!AfterNext(rest)
        BY <2>2 DEF L!Delivers, L!Advance
      <3>2. IsOfText(token')
        BY <2>2, <3>1, WordIsToken DEF LexerOK
      <3>3. token # L!Eof
        BY <2>2, InvalidIsNoToken DEF LexerOK, TokenOK
      <3>4. RestOK'
        BY <1>1, <2>2, <3>1, RestIsRead DEF LexerOK, RestOK
      <3>5. QED
        BY <3>1, <3>2, <3>3, <3>4
    <2>3. CASE queue = <<>> /\ rest = <<>>
      <3>1. token' = L!Eof /\ queue' = <<>> /\ rest' = <<>>
        BY <2>3, EndIsRead DEF L!Delivers, L!Advance
      <3>2. RestOK'
        BY <1>1, <2>3, <3>1 DEF LexerOK, RestOK
      <3>3. QED
        BY <3>1, <3>2
    <2>4. QED
      BY <2>1, <2>2, <2>3
  <1>4. AnswersOK'
    <2>1. token' \in Tokens \cup {L!Eof}
      BY <1>3 DEF IsOfText
    <2>2. delivered' \in Seq(Tokens)
      BY <1>1, <2>1, AppendProperties DEF LexerOK, AnswersOK
    <2>3. QED
      BY <1>1, <2>1, <2>2 DEF LexerOK, AnswersOK, Tokens, L!Tokens, L!Types
  <1>5. TextOK' /\ QueueOK'
    BY <1>1, <1>3 DEF LexerOK, TextOK, QueueOK
  <1>6. IsOfText(token)' <=> IsOfText(token')
    BY <1>1 DEF IsOfText, Tokens, L!Tokens, L!Types
  <1>7. QED
    BY <1>3, <1>4, <1>5, <1>6 DEF Reads

LEMMA GetStep ==
    ASSUME LexerOK, L!GetNextToken
    PROVE  Reads /\ queue' = <<>>
  BY DeliverStep DEF L!GetNextToken

LEMMA FirstStep ==
    ASSUME LexerOK, L!GetCurrToken
    PROVE  Reads /\ (queue = <<>> => queue' = <<>>)
  <1>1. CASE queue = <<>> /\ token = L!Invalid
    BY <1>1, DeliverStep DEF L!GetCurrToken
  <1>2. CASE ~(queue = <<>> /\ token = L!Invalid)
    <2>1. token # L!Invalid
      BY <1>2, InvalidIsNoToken DEF LexerOK, TokenOK
    <2>2. /\ text' = text /\ rest' = rest /\ queue' = queue /\ token' = token
          /\ templateMode' = templateMode /\ metaMode' = metaMode /\ answer' = token
          /\ delivered' = delivered /\ promised' = promised
      BY <1>2 DEF L!GetCurrToken
    <2>3. \A t : IsOfText(t)' <=> IsOfText(t)
      BY <2>2, TokensAreKept
    <2>4. token \in Tokens \cup {L!Eof}
      BY <2>1 DEF LexerOK, TokenOK, IsOfText
    <2>5. TextOK' /\ RestOK' /\ AnswersOK'
      BY <2>2, <2>4 DEF LexerOK, TextOK, RestOK, AnswersOK
    <2>6. QueueOK'
      BY <2>2, <2>3 DEF LexerOK, QueueOK
    <2>7. IsOfText(token)' <=> IsOfText(token)
      BY <2>2 DEF IsOfText
    <2>8. QED
      BY <2>1, <2>2, <2>5, <2>6, <2>7 DEF LexerOK, TokenOK, Reads
  <1>3. QED
    BY <1>1, <1>2

\* Fetch appends the next token of the text to the queue.
LEMMA FetchesOne ==
    ASSUME LexerOK, queue = <<>>
    PROVE  L!Fetch[1] = <<<<L!NextToken(rest)>>, L!AfterNext(rest)>>
  <1> DEFINE All == [type : L!Types, at : Int] \cup {L!Eof}
             State == Seq(All) \X Seq(Words)
             Further(found) == <<Append(found[1], L!NextToken(found[2])), L!AfterNext(found[2])>>
             next == [found \in State |-> Further(found)]
             first == <<queue, rest>>
             Equation(f) == f = [n \in Nat |-> IF n = 0 THEN <<queue, rest>>
                                               ELSE Further(f[n - 1])]
  <1>1. first \in State
    <2>1. queue \in Seq(All) /\ rest \in Seq(Words)
      <3> HIDE DEF All
      <3>1. QED
        BY EmptySeq DEF LexerOK, RestOK
    <2> HIDE DEF All
    <2>2. QED
      BY <2>1
  <1>2. ASSUME NEW r \in Seq(Words) PROVE L!NextToken(r) \in All /\ L!AfterNext(r) \in Seq(Words)
    <2>1. CASE r = <<>>
      BY <2>1, EndIsRead
    <2>2. CASE r # <<>>
      <3>1. Head(r) \in Words /\ Tail(r) \in Seq(Words)
        BY <2>2, HeadTailProperties
      <3>2. L!NextToken(r) = [type |-> L!TypeOf(Head(r)), at |-> L!Position(r)]
        BY <2>2, NothingIsIgnored DEF L!NextToken, L!ScannedToken
      <3>3. L!TypeOf(Head(r)) \in L!Types
        BY <3>1, WordsAreTokens DEF L!TypeOf
      <3>4. L!Position(r) \in Int
        BY LenProperties DEF L!Position, LexerOK, TextOK
      <3>5. <<">">> \o Tail(r) \in Seq(Words)
        <4>1. <<">">> \in Seq(Words)
          BY WordsAreTokens
        <4>2. QED
          BY <3>1, <4>1, ConcatProperties
      <3>6. L!AfterNext(r) \in {Tail(r), <<">">> \o Tail(r)}
        BY <2>2, NothingIsIgnored DEF L!AfterNext, L!AfterToken
      <3>7. [type |-> L!TypeOf(Head(r)), at |-> L!Position(r)] \in All
        BY <3>3, <3>4
      <3> HIDE DEF All
      <3>8. QED
        BY <3>1, <3>2, <3>5, <3>6, <3>7
    <2>3. QED
      BY <2>1, <2>2
  <1>3. next \in [State -> State]
    <2>1. ASSUME NEW found \in State PROVE Further(found) \in State
      <3>1. found[1] \in Seq(All) /\ found[2] \in Seq(Words)
        OBVIOUS
      <3>2. L!NextToken(found[2]) \in All /\ L!AfterNext(found[2]) \in Seq(Words)
        BY <1>2, <3>1
      <3> HIDE DEF All
      <3>3. Append(found[1], L!NextToken(found[2])) \in Seq(All)
        BY <3>1, <3>2, AppendProperties
      <3>4. QED
        BY <3>2, <3>3
    <2> HIDE DEF State, Further
    <2>2. QED
      BY <2>1
  <1>4. PICK f \in [Nat -> State] : f[0] = first /\ \A n \in Nat : f[n + 1] = next[f[n]]
    <2>1. \E f \in [Nat -> State] : f[0] = first /\ \A n \in Nat : f[n + 1] = next[f[n]]
      <3> HIDE DEF next, State, first
      <3>1. QED
        BY ONLY <1>1, <1>3, FunctionByRecursion
    <2>2. QED
      BY <2>1
  <1>5. Equation(f)
    <2>1. \A n \in Nat : n # 0 => n - 1 \in Nat /\ (n - 1) + 1 = n
      OBVIOUS
    <2>2. \A n \in Nat : n # 0 => f[n] = Further(f[n - 1])
      <3>1. \A n \in Nat : f[n] \in State /\ f[n + 1] = next[f[n]]
        BY <1>4
      <3> HIDE DEF State, Further
      <3>2. QED
        BY <2>1, <3>1
    <2>3. \A n \in Nat : f[n] = IF n = 0 THEN <<queue, rest>> ELSE Further(f[n - 1])
      BY <1>4, <2>2
    <2>4. QED
      BY <1>4, <2>3
  <1>6. L!Fetch = CHOOSE g : Equation(g)
    BY DEF L!Fetch
  <1>7. Equation(L!Fetch)
    <2> HIDE DEF Equation
    <2>1. QED
      BY <1>5, <1>6
  <1>8. L!Fetch[0] = <<queue, rest>>
    BY <1>7
  <1>9. L!Fetch[1] = Further(L!Fetch[0])
    <2>1. 1 \in Nat /\ 1 # 0 /\ 1 - 1 = 0
      OBVIOUS
    <2> HIDE DEF Further
    <2>2. QED
      BY <1>7, <2>1
  <1>10. QED
    BY <1>8, <1>9

LEMMA PeekStep ==
    ASSUME LexerOK, L!PeekToken(1)
    PROVE  Reads /\ token' = token /\ queue' # <<>>
  <1>1. /\ text' = text /\ token' = token /\ templateMode' = templateMode
        /\ metaMode' = metaMode /\ delivered' = delivered /\ token # L!Invalid
        /\ queue' = L!Peeked(1)[1] /\ rest' = L!Peeked(1)[2]
        /\ answer' = queue'[L!Place(1, queue')]
        /\ promised' = answer' \/ promised' = promised
    BY DEF L!PeekToken
  <1>2. \A t : IsOfText(t)' <=> IsOfText(t)
    BY <1>1, TokensAreKept
  <1>3. /\ \E t : /\ queue' = <<t>>
                  /\ IsOfText(t) \/ (t = L!Eof /\ rest' = <<>>)
                  /\ token = L!Eof => t = L!Eof /\ rest' = <<>>
        /\ RestOK'
    <2>1. CASE queue # <<>>
      <3>1. PICK t : queue = <<t>> /\ (IsOfText(t) \/ (t = L!Eof /\ rest = <<>>))
        BY <2>1 DEF LexerOK, QueueOK
      <3>2. queue' = <<t>> /\ rest' = rest
        BY <1>1, <3>1 DEF L!Peeked
      <3>3. token = L!Eof => t = L!Eof /\ rest = <<>>
        BY <2>1, <3>1, InvalidIsNoToken DEF LexerOK, TokenOK
      <3>4. RestOK'
        BY <1>1, <3>2 DEF LexerOK, RestOK
      <3>5. QED
        BY <3>1, <3>2, <3>3, <3>4
    <2>2. CASE queue = <<>>
      <3>1. queue' = <<L!NextToken(rest)>> /\ rest' = L!AfterNext(rest)
        BY <1>1, <2>2, FetchesOne DEF L!Peeked
      <3>2. CASE rest = <<>>
        <4>1. RestOK'
          BY <1>1, <3>1, <3>2, EndIsRead DEF LexerOK, RestOK
        <4>2. QED
          BY <3>1, <3>2, <4>1, EndIsRead
      <3>3. CASE rest # <<>>
        <4>1. IsOfText(L!NextToken(rest))
          BY <3>3, WordIsToken DEF LexerOK
        <4>2. token # L!Eof
          BY <3>3, InvalidIsNoToken DEF LexerOK, TokenOK
        <4>3. RestOK'
          BY <1>1, <3>1, <3>3, RestIsRead DEF LexerOK, RestOK
        <4>4. QED
          BY <3>1, <4>1, <4>2, <4>3
      <3>4. QED
        BY <3>2, <3>3
    <2>3. QED
      BY <2>1, <2>2
  <1>4. PICK t : /\ queue' = <<t>>
                 /\ IsOfText(t) \/ (t = L!Eof /\ rest' = <<>>)
                 /\ token = L!Eof => t = L!Eof /\ rest' = <<>>
    BY <1>3
  <1>5. answer' = t
    <2>1. L!Place(1, queue') = 1
      <3>1. Len(queue) \in {0, 1} /\ Len(queue') = 1
        BY <1>4 DEF LexerOK, QueueOK
      <3>2. QED
        BY <3>1 DEF L!Place
    <2>2. QED
      BY <1>1, <1>4, <2>1
  <1>6. AnswersOK'
    <2>1. t \in Tokens \cup {L!Eof}
      BY <1>4 DEF IsOfText
    <2>2. QED
      BY <1>1, <1>5, <2>1 DEF LexerOK, AnswersOK, Tokens, L!Tokens, L!Types
  <1>7. TextOK' /\ QueueOK'
    BY <1>1, <1>2, <1>4 DEF LexerOK, TextOK, QueueOK
  <1>8. IsOfText(token)' <=> IsOfText(token)
    BY <1>1 DEF IsOfText, Tokens, L!Tokens, L!Types
  <1>9. QED
    BY <1>1, <1>3, <1>4, <1>6, <1>7, <1>8 DEF LexerOK, TokenOK, Reads

-----------------------------------------------------------------------------
(* The symbol table's part: no scope of a parser is anonymous, and no walk gets *)
(* to a place other than -1. *)

Paths == Seq(ScopeNames)

TreeOK == /\ scopes \in SUBSET Paths /\ <<>> \in scopes
          /\ \A s \in scopes : s # <<>> => T!Parent(s) \in scopes
          /\ index \in [scopes -> {-1}] /\ symbols \in [scopes -> {{}}]
          /\ curr \in scopes

WalkOK == /\ last = -1 /\ prev = -1
          /\ where \in Paths
          /\ entered \in Seq(BOOLEAN) /\ Len(entered) = Len(where) + 1
          /\ visited \in Seq({-1}) /\ Len(visited) = Len(where) + 1
          /\ reading \in BOOLEAN /\ mixed \in BOOLEAN /\ strayed \in BOOLEAN
          /\ calls \in 0..MaxCalls

TableOK == TreeOK /\ WalkOK

LEMMA LongerPath ==
    ASSUME NEW s \in Paths, NEW name \in ScopeNames
    PROVE  /\ Append(s, name) \in Paths /\ Append(s, name) # <<>>
           /\ T!Parent(Append(s, name)) = s
           /\ Len(Append(s, name)) = Len(s) + 1
           /\ T!Key(Append(s, name)) = name
  <1> DEFINE t == Append(s, name)
             top == Len(t) - 1
  <1>1. /\ t \in Paths /\ Len(t) = Len(s) + 1 /\ t[Len(t)] = name
        /\ \A i \in 1..Len(s) : t[i] = s[i]
    BY AppendProperties DEF Paths
  <1>2. Len(s) \in Nat /\ s = [i \in 1..Len(s) |-> s[i]]
    BY LenProperties DEF Paths
  <1>3. SubSeq(t, 1, Len(t) - 1) = s
    BY <1>1, <1>2
  <1>4. t # <<>>
    <2>1. t \in Seq(ScopeNames)
      BY <1>1 DEF Paths
    <2>2. Len(t) # 0
      BY <1>1, <1>2
    <2> HIDE DEF t
    <2>3. QED
      BY <2>1, <2>2, EmptySeq
  <1>5. QED
    BY <1>1, <1>3, <1>4 DEF T!Parent, T!Key

LEMMA ShorterPath ==
    ASSUME NEW s \in Paths, s # <<>>
    PROVE  /\ T!Parent(s) \in Paths /\ Len(T!Parent(s)) = Len(s) - 1
           /\ T!Key(s) \in ScopeNames
           /\ s = Append(T!Parent(s), T!Key(s))
  <1>1. Len(s) \in Nat /\ Len(s) >= 1
    BY LenProperties, EmptySeq DEF Paths
  <1>2. \A i \in 1..Len(s) : s[i] \in ScopeNames
    BY ElementOfSeq DEF Paths
  <1>3. s = [i \in 1..Len(s) |-> s[i]]
    BY LenProperties DEF Paths
  <1>4. SubSeq(s, 1, Len(s) - 1) \in Paths /\ Len(SubSeq(s, 1, Len(s) - 1)) = Len(s) - 1
    <2> DEFINE top == Len(s) - 1
    <2>1. top \in Nat /\ 1 \in Int /\ \A i \in 1..top : s[i] \in ScopeNames
      BY <1>1, <1>2
    <2> HIDE DEF top
    <2>2. SubSeq(s, 1, top) \in Seq(ScopeNames) /\ Len(SubSeq(s, 1, top)) = top
      BY <2>1, SubSeqProperties
    <2>3. QED
      BY <2>2 DEF top, Paths
  <1>5. s = Append(SubSeq(s, 1, Len(s) - 1), s[Len(s)])
    BY <1>1, <1>2, <1>3
  <1>6. QED
    BY <1>1, <1>2, <1>4, <1>5 DEF T!Parent, T!Key

LEMMA CallIsCounted ==
    ASSUME WalkOK, T!Call
    PROVE  calls' \in 0..MaxCalls
  BY ParserAssumption DEF T!Call, WalkOK

LEMMA CreateStep ==
    ASSUME TableOK, NEW name \in ScopeNames, T!CreateNamedScope(name)
    PROVE  /\ TableOK' /\ scopes \subseteq scopes' /\ Append(curr, name) \in scopes'
           /\ curr' = IF Append(curr, name) \in scopes THEN curr ELSE Append(curr, name)
  <1> DEFINE s == Append(curr, name)
  <1>1. curr \in Paths /\ curr \in scopes
    BY DEF TableOK, TreeOK
  <1>2. s \in Paths /\ s # <<>> /\ T!Parent(s) = curr
    BY <1>1, LongerPath
  <1>3. /\ last' = -1 /\ prev' = -1 /\ reading' = FALSE /\ calls' \in 0..MaxCalls
        /\ mixed' \in BOOLEAN
    <2>1. calls' \in 0..MaxCalls
      BY CallIsCounted DEF T!CreateNamedScope, TableOK
    <2>2. mixed' = (mixed \/ \E n \in 2..Len(entered) : entered[n] # FALSE)
      BY DEF T!CreateNamedScope, T!Mixes
    <2>3. QED
      BY <2>1, <2>2 DEF T!CreateNamedScope, TableOK, WalkOK
  <1>4. CASE s \in scopes
    <2>1. /\ scopes' = scopes /\ index' = index /\ symbols' = symbols /\ curr' = curr
          /\ where' = where /\ entered' = entered /\ visited' = visited
          /\ strayed' = strayed
      BY <1>4 DEF T!CreateNamedScope, T!tree
    <2>2. TreeOK' /\ WalkOK'
      BY <1>3, <2>1 DEF TableOK, TreeOK, WalkOK
    <2>3. QED
      BY <1>4, <2>1, <2>2 DEF TableOK
  <1>5. CASE s \notin scopes
    <2>1. /\ scopes' = scopes \cup {s} /\ index' = T!Extended(index, s, -1)
          /\ symbols' = T!Extended(symbols, s, {}) /\ curr' = s
          /\ where' = Append(where, name) /\ entered' = Append(entered, FALSE)
          /\ visited' = Append(visited, -1) /\ strayed' = strayed
      BY <1>5 DEF T!CreateNamedScope, T!NewScope, T!GoesTo
    <2>2. TreeOK'
      <3>1. index' \in [scopes' -> {-1}] /\ symbols' \in [scopes' -> {{}}]
        BY <2>1 DEF T!Extended, TableOK, TreeOK
      <3>2. \A r \in scopes' : r # <<>> => T!Parent(r) \in scopes'
        BY <1>1, <1>2, <2>1 DEF TableOK, TreeOK
      <3>3. QED
        BY <1>2, <2>1, <3>1, <3>2 DEF TableOK, TreeOK, T!Parent
    <2>3. WalkOK'
      <3>1. /\ where' \in Paths /\ Len(where') = Len(where) + 1
        BY <2>1, AppendProperties DEF TableOK, WalkOK, Paths
      <3>2. /\ entered' \in Seq(BOOLEAN) /\ Len(entered') = Len(entered) + 1
        <4>1. FALSE \in BOOLEAN /\ entered \in Seq(BOOLEAN)
          BY DEF TableOK, WalkOK
        <4>2. QED
          BY <2>1, <4>1, AppendProperties
      <3>3. /\ visited' \in Seq({-1}) /\ Len(visited') = Len(visited) + 1
        BY <2>1, AppendProperties DEF TableOK, WalkOK
      <3>4. QED
        BY <1>3, <2>1, <3>1, <3>2, <3>3 DEF TableOK, WalkOK
    <2>4. QED
      BY <1>5, <2>1, <2>2, <2>3 DEF TableOK
  <1>6. QED
    BY <1>4, <1>5

\* The scope is there: EnterScope goes into it.
LEMMA EnterStep ==
    ASSUME TableOK, NEW name \in ScopeNames, Append(curr, name) \in scopes,
           T!EnterNamedScope(name)
    PROVE  TableOK' /\ scopes' = scopes /\ curr' = Append(curr, name)
  <1>1. /\ curr' = Append(curr, name) /\ scopes' = scopes /\ index' = index
        /\ symbols' = symbols /\ last' = -1 /\ reading' = TRUE
        /\ where' = Append(where, name) /\ entered' = Append(entered, TRUE)
        /\ visited' = Append(visited, -1)
    BY DEF T!EnterNamedScope, T!GoesTo, T!tree
  <1>6. calls' \in 0..MaxCalls /\ mixed' \in BOOLEAN /\ strayed' \in BOOLEAN
    <2>1. calls' \in 0..MaxCalls
      BY CallIsCounted DEF T!EnterNamedScope, TableOK
    <2>2. mixed' = (mixed \/ \E n \in 2..Len(entered) : entered[n] # TRUE)
      BY DEF T!EnterNamedScope, T!Mixes
    <2>3. strayed' = (strayed \/ (T!Anonymous(where) /\ T!Waiting # {}))
      BY DEF T!EnterNamedScope
    <2>4. QED
      BY <2>1, <2>2, <2>3 DEF TableOK, WalkOK
  <1>2. prev' = -1
    BY DEF T!EnterNamedScope, TableOK, WalkOK
  <1>3. TreeOK'
    BY <1>1 DEF TableOK, TreeOK
  <1>4. WalkOK'
    <2>1. /\ where' \in Paths /\ Len(where') = Len(where) + 1
      BY <1>1, AppendProperties DEF TableOK, WalkOK, Paths
    <2>2. /\ entered' \in Seq(BOOLEAN) /\ Len(entered') = Len(entered) + 1
      <3>1. TRUE \in BOOLEAN /\ entered \in Seq(BOOLEAN)
        BY DEF TableOK, WalkOK
      <3>2. QED
        BY <1>1, <3>1, AppendProperties
    <2>3. /\ visited' \in Seq({-1}) /\ Len(visited') = Len(visited) + 1
      BY <1>1, AppendProperties DEF TableOK, WalkOK
    <2>4. QED
      BY <1>1, <1>2, <1>6, <2>1, <2>2, <2>3 DEF TableOK, WalkOK
  <1>5. QED
    BY <1>1, <1>3, <1>4 DEF TableOK

LEMMA ExitStep ==
    ASSUME TableOK, T!ExitScope
    PROVE  TableOK' /\ scopes' = scopes /\ curr # <<>> /\ curr' = T!Parent(curr)
  <1>1. /\ curr # <<>> /\ where # <<>> /\ curr' = T!Parent(curr) /\ scopes' = scopes
        /\ index' = index /\ symbols' = symbols /\ reading' = reading
        /\ mixed' = mixed /\ where' = T!Parent(where)
        /\ entered' = SubSeq(entered, 1, Len(entered) - 1)
    BY DEF T!ExitScope, T!ComesBack, T!Global, T!tree
  <1>10. calls' \in 0..MaxCalls /\ strayed' \in BOOLEAN
    <2>1. calls' \in 0..MaxCalls
      BY CallIsCounted DEF T!ExitScope, TableOK
    <2>2. strayed' = (strayed \/ (/\ entered[Len(entered)] /\ T!Key(where) \in ScopeNames
                                 /\ ~T!Anonymous(T!Parent(where))))
      BY DEF T!ExitScope, T!ComesBack
    <2>3. QED
      BY <2>1, <2>2 DEF TableOK, WalkOK
  <1>2. last' = -1 /\ prev' = -1
    <2>1. index[curr] = -1
      BY DEF TableOK, TreeOK
    <2>2. QED
      BY <2>1 DEF T!ExitScope, T!RestoreCursor, TableOK, WalkOK
  <1>3. TreeOK'
    BY <1>1 DEF TableOK, TreeOK
  <1>4. where \in Paths /\ T!Key(where) \in ScopeNames /\ where' \in Paths
        /\ Len(where') = Len(where) - 1 /\ Len(where) \in Nat /\ Len(where) >= 1
    BY <1>1, ShorterPath, LenProperties, EmptySeq DEF TableOK, WalkOK, Paths
  <1>5. visited' = SubSeq(visited, 1, Len(visited) - 1)
    BY <1>4 DEF T!ExitScope, T!ComesBack
  <1>6. /\ entered' \in Seq(BOOLEAN) /\ Len(entered') = Len(entered) - 1
    <2>1. entered \in Seq(BOOLEAN) /\ Len(entered) = Len(where) + 1
      BY DEF TableOK, WalkOK
    <2>2. \A i \in 1..Len(entered) : entered[i] \in BOOLEAN
      BY <2>1, ElementOfSeq
    <2>3. QED
      BY <1>1, <1>4, <2>1, <2>2
  <1>7. /\ visited' \in Seq({-1}) /\ Len(visited') = Len(visited) - 1
    <2>1. visited \in Seq({-1}) /\ Len(visited) = Len(where) + 1
      BY DEF TableOK, WalkOK
    <2>2. \A i \in 1..Len(visited) : visited[i] \in {-1}
      BY <2>1, ElementOfSeq
    <2>3. QED
      BY <1>4, <1>5, <2>1, <2>2
  <1>8. WalkOK'
    BY <1>1, <1>2, <1>4, <1>6, <1>7, <1>10 DEF TableOK, WalkOK
  <1>9. QED
    BY <1>1, <1>3, <1>8 DEF TableOK

-----------------------------------------------------------------------------
(* The open calls, by the labels of their frames *)

\* A frame has the name of a scope it has opened here, and only here.
Scoped == {"namespace_brace", "namespace_end", "enum_base", "underlying_type",
           "enumerators", "enumerator", "enumerator_value", "class_head", "class_bases",
           "base", "base_end", "class_body", "body_skipped", "members", "access",
           "member_end", "member_declared"}

\* Here the scope of that name will be looked up, or its type is set.
Looking == {"namespace_brace", "enum_base", "underlying_type", "enumerators", "enumerator",
            "enumerator_value", "class_head", "class_bases", "base", "base_end", "class_body"}

\* A sequence of declarations, a tag, a name of a class, balanced tokens.
Declaring == {"declarations", "declared", "enum_declared", "class_declared", "class_tagged",
              "enum_tagged", "identifier", "function_body", "type_defined"}
Tagging == {"tag", "tag_open", "tag_key", "section_equals", "section_id", "tag_flags",
            "flags_equals", "flag", "flag_next", "tag_next", "tag_end"}
Naming == {"class_name", "name_colon", "name_next", "name", "name_peeked"}
Balancing == {"balanced", "matching"}

\* Behind a body or a tag, which has not failed.
Passing == {"namespace_end", "anonymous_end", "class_tagged", "enum_tagged"}

\* In a template a list of balanced tokens comes back here.
Templating == {"template_arguments", "template_function"}

\* No token is read ahead here.
Clean == Tagging \cup Balancing \cup Templating \cup
         {"class_name", "name_next", "name", "template", "template_of",
          "template_function_name", "class", "base", "field_tag"}

\* What stands on the stack above a call that is at a.
Above(a, b) ==
    /\ a \in {"namespace_end", "anonymous_end"} => b \in Declaring
    /\ a \in {"class_tagged", "enum_tagged"} => b \in Tagging
    /\ a \in {"class_scope", "base_end"} <=> b \in Naming
    /\ a \in Templating => b \in Balancing
    /\ a \in {"method", "method_body"} => b \in Balancing
    /\ a \notin {"members", "member"}
    /\ a \in Looking => a = "base_end"
    /\ a \in Clean => a \in Templating
    /\ a \notin Naming

Sections == Names \cup Keys \cup {None}

Frames == {f \in [at : Labels, name : ScopeNames, id : ScopeNames, n : Int, ok : BOOLEAN,
                  exits : BOOLEAN, enumTag : BOOLEAN, classTag : BOOLEAN,
                  section : Sections, members : Seq(Words)] :
             f.name # <<>> <=> f.at \in Scoped}

Stacked(calling) ==
    /\ calling \in Seq(Frames)
    /\ \A k \in 1..(Len(calling) - 1) : Above(calling[k].at, calling[k + 1].at)
    /\ calling # <<>> => calling[1].at \in Declaring \cup {"start"}
StackOK == Stacked(stack)

\* A scope of that name is found from s.
IsNear(name, s, among) == \E around \in T!Enclosing(s) : Append(around, name) \in among

LookingOK == \A k \in 1..Len(stack) :
                stack[k].at \in Looking => IsNear(stack[k].name, curr, scopes)

\* Every scope that is found has a type record, whatever it is of.
IsType(r) ==
    /\ DOMAIN r = {"kind", "forward", "tagged", "section", "members", "name"}
    /\ r.kind \in Kinds /\ r.forward \in BOOLEAN /\ r.tagged \in BOOLEAN
    /\ r.section \in Sections
TypesOK == DOMAIN types \subseteq scopes /\ \A s \in DOMAIN types : IsType(types[s])

MarksOK == /\ ret \in {"done", "failed", "forward", "method"}
           /\ lost \in BOOLEAN /\ taggedOnly \in BOOLEAN
           /\ reported \in BOOLEAN /\ asserted \in BOOLEAN

Untroubled == ~reported /\ ~asserted /\ ~AtEnd

\* A body or a tag does not fail without a report, but at the end of the text.
NothingFails == Untroubled /\ At(Passing) => ret # "failed"

\* A token is read ahead of a colon, an identifier or what may be part of the
\* type of a member, or behind the end.
AheadOK == stack # <<>> /\ queue # <<>> =>
              /\ ~At(Clean)
              /\ AtEnd \/ IsId \/ Is(":") \/ At({"member_peeked"})

IInv == /\ LexerOK /\ TableOK /\ StackOK /\ LookingOK /\ TypesOK /\ MarksOK
        /\ CursorFollowsBlocks /\ NothingFails /\ AheadOK

-----------------------------------------------------------------------------
(* Stacks *)

LEMMA GoesOn ==
    ASSUME NEW f \in Frames, NEW b \in Labels, f.at \in Scoped <=> b \in Scoped
    PROVE  /\ [f EXCEPT !.at = b] \in Frames
           /\ [f EXCEPT !.at = b].at = b
           /\ [f EXCEPT !.at = b].name = f.name
  BY DEF Frames

\* A frame that goes on with something else than it had.
Counted(f, n) == [f EXCEPT !.n = n]
RereadHere(f, id, n) == [f EXCEPT !.id = id, !.n = n]
Reread(f, b, id) == [f EXCEPT !.at = b, !.id = id]
Restarted(f, b, id, n) == [f EXCEPT !.at = b, !.id = id, !.n = n]
Recounted(f, b, n) == [f EXCEPT !.at = b, !.n = n]
Enumerating(f, b, m) == [f EXCEPT !.at = b, !.members = m]
Judged(f, b, x) == [f EXCEPT !.at = b, !.ok = x]
JudgedEnum(f, b, x, y) == [f EXCEPT !.at = b, !.ok = x, !.enumTag = y]
Retagged(f, b, x) == [f EXCEPT !.at = b, !.classTag = x]
RetaggedBoth(f, b, x, y) == [f EXCEPT !.at = b, !.classTag = x, !.enumTag = y]

LEMMA CountedFrame ==
    ASSUME NEW f \in Frames,
           NEW n \in Int
    PROVE  /\ Counted(f, n) \in Frames
           /\ Counted(f, n).at = f.at
           /\ Counted(f, n).name = f.name
  BY DEF Frames, Counted

LEMMA RereadHereFrame ==
    ASSUME NEW f \in Frames,
           NEW id \in ScopeNames, NEW n \in Int
    PROVE  /\ RereadHere(f, id, n) \in Frames
           /\ RereadHere(f, id, n).at = f.at
           /\ RereadHere(f, id, n).name = f.name
  BY DEF Frames, RereadHere

LEMMA RereadFrame ==
    ASSUME NEW f \in Frames, NEW b \in Labels, f.at \in Scoped <=> b \in Scoped,
           NEW id \in ScopeNames
    PROVE  /\ Reread(f, b, id) \in Frames
           /\ Reread(f, b, id).at = b
           /\ Reread(f, b, id).name = f.name
  BY DEF Frames, Reread

LEMMA RestartedFrame ==
    ASSUME NEW f \in Frames, NEW b \in Labels, f.at \in Scoped <=> b \in Scoped,
           NEW id \in ScopeNames, NEW n \in Int
    PROVE  /\ Restarted(f, b, id, n) \in Frames
           /\ Restarted(f, b, id, n).at = b
           /\ Restarted(f, b, id, n).name = f.name
  BY DEF Frames, Restarted

LEMMA RecountedFrame ==
    ASSUME NEW f \in Frames, NEW b \in Labels, f.at \in Scoped <=> b \in Scoped,
           NEW n \in Int
    PROVE  /\ Recounted(f, b, n) \in Frames
           /\ Recounted(f, b, n).at = b
           /\ Recounted(f, b, n).name = f.name
  BY DEF Frames, Recounted

LEMMA EnumeratingFrame ==
    ASSUME NEW f \in Frames, NEW b \in Labels, f.at \in Scoped <=> b \in Scoped,
           NEW m \in Seq(Words)
    PROVE  /\ Enumerating(f, b, m) \in Frames
           /\ Enumerating(f, b, m).at = b
           /\ Enumerating(f, b, m).name = f.name
  BY DEF Frames, Enumerating

LEMMA JudgedFrame ==
    ASSUME NEW f \in Frames, NEW b \in Labels, f.at \in Scoped <=> b \in Scoped,
           NEW x \in BOOLEAN
    PROVE  /\ Judged(f, b, x) \in Frames
           /\ Judged(f, b, x).at = b
           /\ Judged(f, b, x).name = f.name
  BY DEF Frames, Judged

LEMMA JudgedEnumFrame ==
    ASSUME NEW f \in Frames, NEW b \in Labels, f.at \in Scoped <=> b \in Scoped,
           NEW x \in BOOLEAN, NEW y \in BOOLEAN
    PROVE  /\ JudgedEnum(f, b, x, y) \in Frames
           /\ JudgedEnum(f, b, x, y).at = b
           /\ JudgedEnum(f, b, x, y).name = f.name
  BY DEF Frames, JudgedEnum

LEMMA RetaggedFrame ==
    ASSUME NEW f \in Frames, NEW b \in Labels, f.at \in Scoped <=> b \in Scoped,
           NEW x \in BOOLEAN
    PROVE  /\ Retagged(f, b, x) \in Frames
           /\ Retagged(f, b, x).at = b
           /\ Retagged(f, b, x).name = f.name
  BY DEF Frames, Retagged

LEMMA RetaggedBothFrame ==
    ASSUME NEW f \in Frames, NEW b \in Labels, f.at \in Scoped <=> b \in Scoped,
           NEW x \in BOOLEAN, NEW y \in BOOLEAN
    PROVE  /\ RetaggedBoth(f, b, x, y) \in Frames
           /\ RetaggedBoth(f, b, x, y).at = b
           /\ RetaggedBoth(f, b, x, y).name = f.name
  BY DEF Frames, RetaggedBoth

LEMMA TopOfStack ==
    ASSUME NEW u \in Seq(Frames), NEW f \in Frames
    PROVE  /\ Append(u, f) \in Seq(Frames) /\ Append(u, f) # <<>>
           /\ Len(u) \in Nat /\ Len(Append(u, f)) = Len(u) + 1
           /\ Append(u, f)[Len(u) + 1] = f
           /\ \A k \in 1..Len(u) : Append(u, f)[k] = u[k] /\ u[k] \in Frames
           /\ SubSeq(Append(u, f), 1, Len(u)) = u
  <1> DEFINE s == Append(u, f)
  <1>1. s \in Seq(Frames) /\ Len(s) = Len(u) + 1 /\ s[Len(u) + 1] = f
        /\ \A k \in 1..Len(u) : s[k] = u[k]
    BY AppendProperties
  <1>2. Len(u) \in Nat /\ u = [k \in 1..Len(u) |-> u[k]] /\ \A k \in 1..Len(u) : u[k] \in Frames
    BY LenProperties, ElementOfSeq
  <1> HIDE DEF s
  <1>3. s # <<>>
    BY <1>1, <1>2, EmptySeq
  <1>4. SubSeq(s, 1, Len(u)) = u
    <2>1. SubSeq(s, 1, Len(u)) = [k \in 1..Len(u) |-> s[k]]
      BY <1>1, <1>2
    <2>2. QED
      BY <1>1, <1>2, <2>1
  <1>5. QED
    BY <1>1, <1>2, <1>3, <1>4 DEF s

LEMMA StackSplits ==
    ASSUME NEW s \in Seq(Frames), s # <<>>
    PROVE  /\ Len(s) \in Nat /\ Len(s) >= 1
           /\ SubSeq(s, 1, Len(s) - 1) \in Seq(Frames)
           /\ Len(SubSeq(s, 1, Len(s) - 1)) = Len(s) - 1
           /\ s[Len(s)] \in Frames
           /\ s = Append(SubSeq(s, 1, Len(s) - 1), s[Len(s)])
  <1>1. Len(s) \in Nat /\ Len(s) >= 1
    BY LenProperties, EmptySeq
  <1>2. \A i \in 1..Len(s) : s[i] \in Frames
    BY ElementOfSeq
  <1>3. s = [i \in 1..Len(s) |-> s[i]]
    BY LenProperties
  <1> DEFINE top == Len(s) - 1
             under == SubSeq(s, 1, top)
  <1>4. under \in Seq(Frames) /\ Len(under) = top /\ \A i \in 1..top : under[i] = s[i]
    <2>1. top \in Nat /\ 1 \in Int /\ \A i \in 1..top : s[i] \in Frames
      BY <1>1, <1>2
    <2> HIDE DEF top
    <2>2. QED
      BY <2>1, SubSeqProperties
  <1>5. s = Append(under, s[Len(s)])
    <2> DEFINE t == Append(under, s[Len(s)])
    <2>1. t \in Seq(Frames) /\ Len(t) = top + 1 /\ t[top + 1] = s[Len(s)]
          /\ \A i \in 1..top : t[i] = s[i]
      <3> HIDE DEF under
      <3>1. s[Len(s)] \in Frames
        BY <1>1, <1>2
      <3>2. QED
        BY <1>4, <3>1, AppendProperties
    <2> HIDE DEF t, under
    <2>2. Len(t) = Len(s) /\ \A i \in 1..Len(s) : t[i] = s[i]
      BY <1>1, <2>1
    <2>3. QED
      BY <2>1, <2>2, SeqEqual DEF t
  <1>6. QED
    BY <1>1, <1>2, <1>4, <1>5

\* A call at b may stand on the calls of u.
Rests(u, b) == IF u = <<>> THEN b \in Declaring \cup {"start"} ELSE Above(u[Len(u)].at, b)

LEMMA StackGrows ==
    ASSUME NEW u \in Seq(Frames), NEW f \in Frames
    PROVE  Stacked(Append(u, f)) <=> Stacked(u) /\ Rests(u, f.at)
  <1> DEFINE s == Append(u, f)
             n == Len(u)
  <1>1. s \in Seq(Frames) /\ s # <<>> /\ n \in Nat /\ Len(s) = n + 1 /\ s[n + 1] = f
        /\ \A k \in 1..n : s[k] = u[k]
    BY TopOfStack
  <1>2. u = <<>> <=> n = 0
    BY EmptySeq
  <1> HIDE DEF s, n
  <1>3. ASSUME Stacked(s) PROVE Stacked(u) /\ Rests(u, f.at)
    <2>1. \A k \in 1..n : Above(s[k].at, s[k + 1].at)
      BY <1>1, <1>3 DEF Stacked
    <2>2. s[1].at \in Declaring \cup {"start"}
      BY <1>1, <1>3 DEF Stacked
    <2>3. \A k \in 1..(n - 1) : Above(u[k].at, u[k + 1].at)
      BY <1>1, <2>1
    <2>4. u # <<>> => u[1].at \in Declaring \cup {"start"}
      BY <1>1, <1>2, <2>2
    <2>5. Rests(u, f.at)
      <3>1. CASE n = 0
        BY <1>1, <1>2, <2>2, <3>1 DEF Rests
      <3>2. CASE n # 0
        <4>1. Above(u[n].at, f.at)
          BY <1>1, <2>1, <3>2
        <4>2. QED
          BY <1>2, <3>2, <4>1 DEF Rests, n
      <3>3. QED
        BY <3>1, <3>2
    <2>6. QED
      BY <2>3, <2>4, <2>5 DEF Stacked, n
  <1>4. ASSUME Stacked(u), Rests(u, f.at) PROVE Stacked(s)
    <2>1. \A k \in 1..n : Above(s[k].at, s[k + 1].at)
      <3>1. \A k \in 1..(n - 1) : Above(s[k].at, s[k + 1].at)
        BY <1>1, <1>4 DEF Stacked, n
      <3>2. n # 0 => Above(s[n].at, s[n + 1].at)
        BY <1>1, <1>2, <1>4 DEF Rests, n
      <3>3. \A k \in 1..n : k \in 1..(n - 1) \/ k = n
        BY <1>1
      <3>4. QED
        BY <1>1, <3>1, <3>2, <3>3
    <2>2. s[1].at \in Declaring \cup {"start"}
      <3>1. CASE n = 0
        BY <1>1, <1>2, <1>4, <3>1 DEF Rests
      <3>2. CASE n # 0
        BY <1>1, <1>2, <1>4, <3>2 DEF Stacked
      <3>3. QED
        BY <3>1, <3>2
    <2>3. QED
      BY <1>1, <2>1, <2>2 DEF Stacked
  <1>5. QED
    BY <1>3, <1>4 DEF s

\* What the frames of a stack have opened.
LEMMA PathGrows ==
    ASSUME NEW u \in Seq(Frames), NEW f \in Frames
    PROVE  /\ PathOf(u) \in Paths
           /\ PathOf(Append(u, f)) = IF f.at \in Scoped THEN Append(PathOf(u), f.name)
                                     ELSE PathOf(u)
  <1> DEFINE s == Append(u, f)
             Of(frames) == [k \in 1..Len(frames) |-> frames[k].name]
             Kept == ScopeNames \ {<<>>}
  <1>1. /\ s \in Seq(Frames) /\ Len(u) \in Nat /\ Len(s) = Len(u) + 1 /\ s[Len(u) + 1] = f
        /\ \A k \in 1..Len(u) : s[k] = u[k] /\ u[k] \in Frames
    BY TopOfStack
  <1>2. \A g \in Frames : g.name \in ScopeNames /\ (g.name \in Kept <=> g.at \in Scoped)
    BY DEF Frames
  <1> HIDE DEF s, Kept
  <1>3. Of(u) \in Seq(ScopeNames) /\ Len(Of(u)) = Len(u)
    <2>1. \A k \in 1..Len(u) : u[k].name \in ScopeNames
      BY <1>1, <1>2
    <2>2. QED
      BY <1>1, <2>1
  <1>4. Of(s) = Append(Of(u), f.name)
    <2>1. Of(s) \in Seq(ScopeNames) /\ Len(Of(s)) = Len(u) + 1
      <3>1. \A k \in 1..Len(s) : s[k] \in Frames
        BY <1>1, ElementOfSeq
      <3>2. \A k \in 1..Len(s) : s[k].name \in ScopeNames
        BY <1>2, <3>1
      <3>3. QED
        BY <1>1, <3>2
    <2>2. /\ Append(Of(u), f.name) \in Seq(ScopeNames)
          /\ Len(Append(Of(u), f.name)) = Len(u) + 1
          /\ Append(Of(u), f.name)[Len(u) + 1] = f.name
          /\ \A k \in 1..Len(u) : Append(Of(u), f.name)[k] = Of(u)[k]
      <3>1. f.name \in ScopeNames
        BY <1>2
      <3> HIDE DEF Of
      <3>2. QED
        BY <1>3, <3>1, AppendProperties
    <2> DEFINE right == Append(Of(u), f.name)
    <2>3. \A k \in 1..(Len(u) + 1) : Of(s)[k] = right[k]
      <3>1. \A k \in 1..Len(u) : Of(s)[k] = u[k].name /\ Of(u)[k] = u[k].name
        BY <1>1
      <3>2. Of(s)[Len(u) + 1] = f.name
        BY <1>1
      <3>3. \A k \in 1..(Len(u) + 1) : k \in 1..Len(u) \/ k = Len(u) + 1
        <4>1. Len(u) \in Nat
          BY <1>1
        <4> DEFINE m == Len(u)
        <4> HIDE DEF m
        <4>2. m \in Nat => \A k \in 1..(m + 1) : k \in 1..m \/ k = m + 1
          OBVIOUS
        <4>3. QED
          BY <4>1, <4>2 DEF m
      <3> HIDE DEF Of
      <3>4. QED
        BY <2>2, <3>1, <3>2, <3>3
    <2> HIDE DEF Of, right
    <2>4. QED
      BY <2>1, <2>2, <2>3, SeqEqual DEF right
  <1>5. f.name \in ScopeNames
    BY <1>2
  <1> HIDE DEF Of
  <1>6. Selected(Append(Of(u), f.name), Kept)
           = IF f.name \in Kept THEN Append(Selected(Of(u), Kept), f.name)
             ELSE Selected(Of(u), Kept)
    <2> DEFINE names == Of(u)
               name == f.name
    <2>1. names \in Seq(ScopeNames) /\ name \in ScopeNames
      BY <1>3, <1>5
    <2> HIDE DEF names, name
    <2>2. Selected(Append(names, name), Kept)
             = IF name \in Kept THEN Append(Selected(names, Kept), name)
               ELSE Selected(names, Kept)
      BY ONLY <2>1, SelectedOfAppend
    <2>3. QED
      BY <2>2 DEF names, name
  <1>7. Selected(Of(u), Kept) \in Seq(ScopeNames)
    BY <1>3, SelectedProperties
  <1>8. PathOf(u) = Selected(Of(u), Kept) /\ PathOf(s) = Selected(Of(s), Kept)
    BY DEF PathOf, Of, Kept
  <1>9. QED
    BY <1>2, <1>4, <1>6, <1>7, <1>8 DEF Paths, s

LEMMA NothingIsOpen == PathOf(<<>>) = <<>>
  <1>1. [k \in 1..Len(<<>>) |-> <<>>[k].name] = <<>>
    OBVIOUS
  <1>2. QED
    BY <1>1, NothingSelected DEF PathOf

\* Below a call other than that of a name no scope is going to be looked up.
LEMMA OthersWait ==
    ASSUME NEW u \in Seq(Frames), NEW b, b \notin Naming, Rests(u, b),
           Stacked(u), NEW k \in 1..Len(u)
    PROVE  u[k].at \notin Looking
  <1>1. Len(u) \in Nat /\ (u # <<>> => Len(u) >= 1)
    BY LenProperties, EmptySeq
  <1>2. CASE k = Len(u)
    BY <1>1, <1>2 DEF Rests, Above
  <1>3. CASE k # Len(u)
    <2>1. k \in 1..(Len(u) - 1) /\ k + 1 \in 1..Len(u)
      BY <1>1, <1>3
    <2>2. Above(u[k].at, u[k + 1].at)
      BY <2>1 DEF Stacked
    <2>3. u[k + 1].at \notin Naming
      <3>1. CASE k + 1 = Len(u)
        BY <1>1, <3>1 DEF Rests, Above
      <3>2. CASE k + 1 # Len(u)
        BY <1>1, <2>1, <3>2 DEF Stacked, Above
      <3>3. QED
        BY <3>1, <3>2
    <2>4. QED
      BY <2>2, <2>3 DEF Above
  <1>4. QED
    BY <1>2, <1>3

LEMMA OpenCalls ==
    ASSUME StackOK, stack # <<>>
    PROVE  /\ Under \in Seq(Frames) /\ Top \in Frames /\ stack = Append(Under, Top)
           /\ Stacked(Under) /\ Rests(Under, Top.at)
           /\ Len(stack) = Len(Under) + 1 /\ Len(Under) \in Nat
           /\ \A k \in 1..Len(Under) : stack[k] = Under[k]
           /\ PathOf(stack) = IF Top.at \in Scoped THEN Append(PathOf(Under), Top.name)
                              ELSE PathOf(Under)
           /\ PathOf(Under) \in Paths
  <1>1. stack \in Seq(Frames)
    BY DEF StackOK, Stacked
  <1>2. /\ Under \in Seq(Frames) /\ Top \in Frames /\ stack = Append(Under, Top)
        /\ Len(stack) \in Nat /\ Len(Under) = Len(stack) - 1
    BY <1>1, StackSplits DEF Under, Top
  <1>3. /\ Len(Under) \in Nat /\ Len(stack) = Len(Under) + 1
        /\ \A k \in 1..Len(Under) : stack[k] = Under[k]
    BY <1>2, TopOfStack
  <1>4. Stacked(Under) /\ Rests(Under, Top.at)
    BY <1>2, StackGrows DEF StackOK
  <1>5. /\ PathOf(stack) = IF Top.at \in Scoped THEN Append(PathOf(Under), Top.name)
                           ELSE PathOf(Under)
        /\ PathOf(Under) \in Paths
    BY <1>2, PathGrows
  <1>6. QED
    BY <1>2, <1>3, <1>4, <1>5

-----------------------------------------------------------------------------
(* Steps of the stack *)

\* The lexer, the marks and the types of every step.
Goes == /\ Reads /\ TypesOK' /\ MarksOK'
        /\ reported => reported'
        /\ asserted => asserted'

SameScopes == UNCHANGED scopeVars /\ lost' = lost

\* A frame at a goes on at b.
Follows(a, b) ==
    /\ a \in Scoped <=> b \in Scoped
    /\ a \in Declaring \cup {"start"} => b \in Declaring
    /\ a \in Tagging => b \in Tagging
    /\ a \in Naming <=> b \in Naming
    /\ a \in Balancing => b \in Balancing
    /\ b \in Looking => a \in Looking
    /\ b \notin Passing

\* A frame at a calls one at c and goes on at b when that returns.
CallsFor(a, b, c) ==
    /\ a \in Scoped <=> b \in Scoped
    /\ a \in Declaring => b \in Declaring
    /\ a \notin Tagging \cup Naming \cup Balancing \cup {"start"}
    /\ b \notin Naming
    /\ b \in Looking => a \in Looking
    /\ c \notin Scoped /\ c \notin Passing
    /\ Above(b, c)

\* What may be read ahead when the call on top is at b.
Ahead(b) == queue' # <<>> =>
               /\ b \notin Clean
               /\ AtEnd' \/ IsId' \/ Is(":")' \/ b = "member_peeked"

LEMMA TroubleStays ==
    ASSUME Goes
    PROVE  /\ Untroubled' => Untroubled
           /\ LexerOK'
  BY DEF Goes, Reads, Untroubled, AtEnd, LexerOK, TokenOK

LEMMA TableStays ==
    ASSUME TableOK, SameScopes
    PROVE  TableOK' /\ curr' = curr /\ scopes' = scopes
  BY DEF TableOK, TreeOK, WalkOK, SameScopes, scopeVars, T!Parent

\* The call on top goes on.
LEMMA TurnStep ==
    ASSUME IInv, stack # <<>>, NEW f \in Frames, stack' = Append(Under, f),
           f.name = Top.name, Follows(Top.at, f.at), Goes, SameScopes, Ahead(f.at)
    PROVE  IInv'
  <1>1. /\ Under \in Seq(Frames) /\ Top \in Frames /\ Stacked(Under) /\ Rests(Under, Top.at)
        /\ Len(stack) = Len(Under) + 1 /\ Len(Under) \in Nat
        /\ \A k \in 1..Len(Under) : stack[k] = Under[k]
        /\ PathOf(stack) = IF Top.at \in Scoped THEN Append(PathOf(Under), Top.name)
                           ELSE PathOf(Under)
    BY OpenCalls DEF IInv
  <1>2. /\ stack' # <<>> /\ Len(stack') = Len(Under) + 1 /\ stack'[Len(Under) + 1] = f
        /\ \A k \in 1..Len(Under) : stack'[k] = Under[k]
    BY <1>1, TopOfStack
  <1>3. Top' = f
    BY <1>2 DEF Top
  <1>4. StackOK'
    <2>1. Rests(Under, f.at)
      <3>1. CASE Under = <<>>
        <4>1. Top.at \in Declaring \cup {"start"}
          BY <1>1, <3>1 DEF Rests
        <4>2. QED
          BY <3>1, <4>1 DEF Rests, Follows
      <3>2. CASE Under # <<>>
        BY <1>1, <3>2 DEF Rests, Follows, Above
      <3>3. QED
        BY <3>1, <3>2
    <2>2. Stacked(stack')
      BY <1>1, <2>1, StackGrows
    <2>3. QED
      BY <2>2 DEF StackOK
  <1>5. TableOK' /\ curr' = curr /\ scopes' = scopes
    BY TableStays DEF IInv
  <1>6. LookingOK'
    <2>1. ASSUME NEW k \in 1..(Len(Under) + 1), stack'[k].at \in Looking
          PROVE  IsNear(stack'[k].name, curr, scopes)
      <3>1. CASE k \in 1..Len(Under)
        BY <1>1, <1>2, <2>1, <3>1 DEF IInv, LookingOK
      <3>2. CASE k = Len(Under) + 1
        <4>1. Top = stack[Len(Under) + 1] /\ f.at \in Looking
          BY <1>1, <1>2, <2>1, <3>2 DEF Top
        <4>2. stack[k].at \in Looking /\ k \in 1..Len(stack)
          BY <1>1, <3>2, <4>1 DEF Follows
        <4>3. IsNear(stack[k].name, curr, scopes)
          BY <4>2 DEF IInv, LookingOK
        <4>4. QED
          BY <1>2, <3>2, <4>1, <4>3
      <3>3. QED
        BY <1>1, <3>1, <3>2
    <2>2. QED
      BY <1>2, <1>5, <2>1 DEF LookingOK
  <1>7. CursorFollowsBlocks'
    <2>1. PathOf(stack') = PathOf(stack)
      BY <1>1, PathGrows DEF Follows
    <2>2. QED
      BY <1>5, <2>1, TroubleStays DEF IInv, CursorFollowsBlocks, Untroubled, SameScopes, AtEnd
  <1>8. NothingFails' /\ AheadOK'
    BY <1>3 DEF NothingFails, AheadOK, At, Follows, Ahead
  <1>9. QED
    BY <1>4, <1>5, <1>6, <1>7, <1>8, TroubleStays DEF IInv, Goes

\* The call on top makes another.
LEMMA CallStep ==
    ASSUME IInv, stack # <<>>, NEW f \in Frames, NEW g \in Frames,
           stack' = Under \o <<f, g>>, f.name = Top.name,
           CallsFor(Top.at, f.at, g.at), Goes, SameScopes, Ahead(g.at)
    PROVE  IInv'
  <1>1. /\ Under \in Seq(Frames) /\ Top \in Frames /\ Stacked(Under) /\ Rests(Under, Top.at)
        /\ Len(stack) = Len(Under) + 1 /\ Len(Under) \in Nat
        /\ \A k \in 1..Len(Under) : stack[k] = Under[k]
        /\ PathOf(stack) = IF Top.at \in Scoped THEN Append(PathOf(Under), Top.name)
                           ELSE PathOf(Under)
    BY OpenCalls DEF IInv
  <1> DEFINE u == Append(Under, f)
  <1>2. /\ u \in Seq(Frames) /\ u # <<>> /\ Len(u) = Len(Under) + 1 /\ u[Len(Under) + 1] = f
        /\ \A k \in 1..Len(Under) : u[k] = Under[k]
    BY <1>1, TopOfStack
  <1>3. stack' = Append(u, g)
    <2>1. Under \o <<f, g>> = Append(Append(Under, f), g)
      <3>1. Under \in Seq(Frames)
        BY <1>1
      <3>2. QED
        BY ONLY <3>1, f \in Frames, g \in Frames
    <2>2. QED
      BY <2>1
  <1> HIDE DEF u
  <1>4. /\ stack' # <<>> /\ Len(stack') = Len(u) + 1 /\ stack'[Len(u) + 1] = g
        /\ \A k \in 1..Len(u) : stack'[k] = u[k]
    BY <1>2, <1>3, TopOfStack
  <1>5. Top' = g
    BY <1>4 DEF Top
  <1>6. StackOK'
    <2>1. Rests(Under, f.at)
      <3>1. CASE Under = <<>>
        <4>1. Top.at \in Declaring \cup {"start"}
          BY <1>1, <3>1 DEF Rests
        <4>2. QED
          BY <3>1, <4>1 DEF Rests, CallsFor
      <3>2. CASE Under # <<>>
        BY <1>1, <3>2 DEF Rests, CallsFor, Above
      <3>3. QED
        BY <3>1, <3>2
    <2>2. Stacked(u)
      BY <1>1, <2>1, StackGrows DEF u
    <2>3. Rests(u, g.at)
      BY <1>2 DEF Rests, CallsFor
    <2>4. Stacked(stack')
      BY <1>2, <1>3, <2>2, <2>3, StackGrows
    <2>5. QED
      BY <2>4 DEF StackOK
  <1>7. TableOK' /\ curr' = curr /\ scopes' = scopes
    BY TableStays DEF IInv
  <1>8. LookingOK'
    <2>1. ASSUME NEW k \in 1..(Len(u) + 1), stack'[k].at \in Looking
          PROVE  IsNear(stack'[k].name, curr, scopes)
      <3>1. CASE k \in 1..Len(Under)
        <4>1. stack'[k] = stack[k] /\ k \in 1..Len(stack)
          BY <1>1, <1>2, <1>4, <3>1
        <4>2. QED
          BY <2>1, <4>1 DEF IInv, LookingOK
      <3>2. CASE k = Len(Under) + 1
        <4>1. Top = stack[k] /\ stack'[k] = f /\ f.at \in Looking /\ k \in 1..Len(stack)
          BY <1>1, <1>2, <1>4, <2>1, <3>2 DEF Top
        <4>2. IsNear(stack[k].name, curr, scopes)
          BY <4>1 DEF IInv, LookingOK, CallsFor
        <4>3. QED
          BY <4>1, <4>2
      <3>3. CASE k = Len(u) + 1
        <4>1. g.at \in Looking
          BY <1>4, <2>1, <3>3
        <4>2. QED
          BY <4>1 DEF CallsFor, Looking, Scoped
      <3>4. QED
        BY <1>1, <1>2, <3>1, <3>2, <3>3
    <2>2. QED
      BY <1>4, <1>7, <2>1 DEF LookingOK
  <1>9. CursorFollowsBlocks'
    <2>0. g.at \notin Scoped
      BY DEF CallsFor
    <2>1. PathOf(stack') = PathOf(u)
      <3>1. PathOf(Append(u, g)) = PathOf(u)
        BY <1>2, <2>0, PathGrows
      <3>2. QED
        BY <1>3, <3>1
    <2>2. PathOf(u) = PathOf(stack)
      BY <1>1, PathGrows DEF CallsFor, u
    <2>3. QED
      BY <1>7, <2>1, <2>2, TroubleStays
         DEF IInv, CursorFollowsBlocks, Untroubled, SameScopes, AtEnd
  <1>10. NothingFails' /\ AheadOK'
    BY <1>5 DEF NothingFails, AheadOK, At, CallsFor, Ahead
  <1>11. QED
    BY <1>6, <1>7, <1>8, <1>9, <1>10, TroubleStays DEF IInv, Goes

\* What may be read ahead when the call on top returns.
AheadBack == queue' # <<>> => queue # <<>> /\ (AtEnd' \/ IsId' \/ Is(":")')

\* A sequence of declarations or a tag reports its failure, or the end of the text.
FailsLoudly(a) == a \in Declaring \cup Tagging /\ ret' = "failed" => ~Untroubled'

\* The call on top is gone.
LEMMA BackStep ==
    ASSUME IInv, stack # <<>>, stack' = Under, Top.at \notin Naming, AheadBack,
           FailsLoudly(Top.at), Untroubled' => Untroubled
    PROVE  StackOK' /\ LookingOK' /\ NothingFails' /\ AheadOK'
  <1>1. /\ Under \in Seq(Frames) /\ Top \in Frames /\ Stacked(Under) /\ Rests(Under, Top.at)
    BY OpenCalls DEF IInv
  <1>2. StackOK'
    BY <1>1 DEF StackOK
  <1>3. LookingOK'
    <2>1. \A k \in 1..Len(Under) : Under[k].at \notin Looking
      BY <1>1, OthersWait
    <2>2. QED
      BY <2>1 DEF LookingOK
  <1>4. stack' # <<>> => Above(Top'.at, Top.at)
    BY <1>1 DEF Rests, Top
  <1>5. NothingFails'
    BY <1>4 DEF NothingFails, At, Passing, Above, FailsLoudly
  <1>6. AheadOK'
    <2>1. stack' # <<>> /\ Top'.at \in Clean => Top.at \in Clean
      BY <1>4 DEF Above, Clean
    <2>2. queue # <<>> => Top.at \notin Clean
      BY DEF IInv, AheadOK, At
    <2>3. QED
      BY <2>1, <2>2 DEF AheadOK, AheadBack, At
  <1>7. QED
    BY <1>2, <1>3, <1>5, <1>6

\* It has opened no scope.
LEMMA ReturnStep ==
    ASSUME IInv, stack # <<>>, stack' = Under, Top.at \notin Naming \cup Scoped, AheadBack,
           FailsLoudly(Top.at), Goes, SameScopes
    PROVE  IInv'
  <1>1. StackOK' /\ LookingOK' /\ NothingFails' /\ AheadOK'
    BY BackStep, TroubleStays
  <1>2. TableOK' /\ curr' = curr /\ scopes' = scopes
    BY TableStays DEF IInv
  <1>3. CursorFollowsBlocks'
    <2>1. PathOf(stack') = PathOf(stack)
      BY OpenCalls DEF IInv
    <2>2. QED
      BY <1>2, <2>1, TroubleStays DEF IInv, CursorFollowsBlocks, Untroubled, SameScopes, AtEnd
  <1>4. QED
    BY <1>1, <1>2, <1>3, TroubleStays DEF IInv, Goes

\* It leaves the scope it has opened.
LEMMA LeaveStep ==
    ASSUME IInv, stack # <<>>, stack' = Under, Top.at \in Scoped \ Naming, AheadBack,
           FailsLoudly(Top.at), Goes, ExitScope
    PROVE  IInv'
  <1>1. StackOK' /\ LookingOK' /\ NothingFails' /\ AheadOK'
    BY BackStep, TroubleStays
  <1>2. TableOK'
    <2>1. CASE curr = T!Global
      <3>1. SameScopes \/ UNCHANGED scopeVars
        BY <2>1 DEF ExitScope
      <3>2. QED
        BY <3>1 DEF IInv, TableOK, TreeOK, WalkOK, scopeVars, SameScopes, T!Parent
    <2>2. CASE curr # T!Global
      BY <2>2, ExitStep DEF IInv, ExitScope
    <2>3. QED
      BY <2>1, <2>2
  <1>3. CursorFollowsBlocks'
    <2> SUFFICES ASSUME Untroubled' PROVE ~lost' /\ curr' = PathOf(stack')
      BY DEF CursorFollowsBlocks, Untroubled, AtEnd
    <2>1. ~lost /\ curr = PathOf(stack)
      BY TroubleStays DEF IInv, CursorFollowsBlocks, Untroubled
    <2>2. /\ curr = Append(PathOf(Under), Top.name)
          /\ PathOf(Under) \in Paths /\ Top.name \in ScopeNames
      BY <2>1, OpenCalls DEF IInv, Frames
    <2>3. curr # <<>> /\ T!Parent(curr) = PathOf(Under)
      BY <2>2, LongerPath
    <2>4. T!ExitScope /\ lost' = lost
      BY <2>3 DEF ExitScope, T!Global
    <2>5. curr' = T!Parent(curr)
      BY <2>4, ExitStep DEF IInv
    <2>6. QED
      BY <2>1, <2>3, <2>4, <2>5
  <1>4. QED
    BY <1>1, <1>2, <1>3, TroubleStays DEF IInv, Goes

\* It reports an error and stays in its scope.
LEMMA FailStep ==
    ASSUME IInv, stack # <<>>, stack' = Under, Top.at \notin Naming, AheadBack,
           ~Untroubled', Goes, TableOK'
    PROVE  IInv'
  <1>1. CursorFollowsBlocks'
    BY DEF Untroubled, CursorFollowsBlocks
  <1>2. StackOK' /\ LookingOK' /\ NothingFails' /\ AheadOK'
    BY BackStep DEF FailsLoudly
  <1>3. QED
    BY <1>1, <1>2, TroubleStays DEF IInv, Goes

\* The call on top opens the scope of its new name, or notes that it was there.
LEMMA OpenStep ==
    ASSUME IInv, stack # <<>>, NEW f \in Frames, stack' = Append(Under, f),
           Top.at \notin Scoped \cup Declaring \cup Tagging \cup Naming
                         \cup Balancing \cup {"start"},
           f.at \in Scoped, f.at \notin Passing, Goes, Ahead(f.at),
           TableOK', scopes \subseteq scopes', IsNear(f.name, curr', scopes'),
           Untroubled' => curr' = Append(curr, f.name) /\ lost' = lost
    PROVE  IInv'
  <1>1. /\ Under \in Seq(Frames) /\ Top \in Frames /\ Stacked(Under) /\ Rests(Under, Top.at)
        /\ Len(stack) = Len(Under) + 1 /\ Len(Under) \in Nat
        /\ \A k \in 1..Len(Under) : stack[k] = Under[k]
        /\ PathOf(stack) = PathOf(Under)
    BY OpenCalls DEF IInv
  <1>2. /\ stack' # <<>> /\ Len(stack') = Len(Under) + 1 /\ stack'[Len(Under) + 1] = f
        /\ \A k \in 1..Len(Under) : stack'[k] = Under[k]
    BY <1>1, TopOfStack
  <1>3. Top' = f
    BY <1>2 DEF Top
  <1>4. StackOK'
    <2>1. Rests(Under, f.at)
      <3>1. CASE Under = <<>>
        BY <1>1, <3>1 DEF Rests
      <3>2. CASE Under # <<>>
        <4>1. f.at \notin Naming
          BY DEF Scoped, Naming
        <4>2. QED
          BY <1>1, <3>2, <4>1 DEF Rests, Above
      <3>3. QED
        BY <3>1, <3>2
    <2>2. Stacked(stack')
      BY <1>1, <2>1, StackGrows
    <2>3. QED
      BY <2>2 DEF StackOK
  <1>5. LookingOK'
    <2>1. ASSUME NEW k \in 1..(Len(Under) + 1), stack'[k].at \in Looking
          PROVE  IsNear(stack'[k].name, curr', scopes')
      <3>1. CASE k \in 1..Len(Under)
        BY <1>1, <1>2, <2>1, <3>1, OthersWait
      <3>2. CASE k = Len(Under) + 1
        BY <1>2, <3>2
      <3>3. QED
        BY <1>1, <3>1, <3>2
    <2>2. QED
      BY <1>2, <2>1 DEF LookingOK
  <1>6. CursorFollowsBlocks'
    <2>1. PathOf(stack') = Append(PathOf(stack), f.name)
      BY <1>1, PathGrows
    <2>2. QED
      BY <2>1, TroubleStays DEF IInv, CursorFollowsBlocks, Untroubled, AtEnd
  <1>7. NothingFails' /\ AheadOK'
    BY <1>3 DEF NothingFails, AheadOK, At, Ahead
  <1>8. QED
    BY <1>4, <1>5, <1>6, <1>7, TroubleStays DEF IInv, Goes

LEMMA TopChanges ==
    ASSUME NEW s \in Seq(Frames), s # <<>>, NEW g \in Frames
    PROVE  [s EXCEPT ![Len(s)] = g] = Append(SubSeq(s, 1, Len(s) - 1), g)
  <1> DEFINE u == SubSeq(s, 1, Len(s) - 1)
             left == [s EXCEPT ![Len(s)] = g]
             right == Append(u, g)
  <1>1. /\ Len(s) \in Nat /\ Len(s) >= 1 /\ u \in Seq(Frames) /\ Len(u) = Len(s) - 1
        /\ s = Append(u, s[Len(s)]) /\ s[Len(s)] \in Frames
    BY StackSplits
  <1>2. \A k \in 1..(Len(s) - 1) : s[k] = u[k]
    <2> HIDE DEF u
    <2>1. \A k \in 1..Len(u) : Append(u, s[Len(s)])[k] = u[k]
      BY <1>1, TopOfStack
    <2>2. QED
      BY <1>1, <2>1
  <1>3. /\ right \in Seq(Frames) /\ Len(right) = Len(s) /\ right[Len(s)] = g
        /\ \A k \in 1..(Len(s) - 1) : right[k] = u[k]
    <2> HIDE DEF u
    <2>1. QED
      BY <1>1, TopOfStack
  <1> HIDE DEF u
  <1>4. s \in [1..Len(s) -> Frames] /\ 1..Len(s) = DOMAIN s
    BY LenProperties
  <1>5. left \in [1..Len(s) -> Frames] /\ left[Len(s)] = g
        /\ \A k \in 1..(Len(s) - 1) : left[k] = s[k]
    BY <1>1, <1>4
  <1>6. left \in Seq(Frames) /\ Len(left) = Len(s)
    <2> HIDE DEF left
    <2>1. left \in Seq(Frames)
      BY <1>1, <1>5
    <2>2. QED
      BY <1>1, <1>5, <2>1
  <1> HIDE DEF left, right
  <1>7. \A k \in 1..Len(s) : left[k] = right[k]
    BY <1>1, <1>2, <1>3, <1>5
  <1>8. left = right
    BY <1>3, <1>6, <1>7, SeqEqual
  <1>9. QED
    BY <1>8 DEF left, right, u

\* A name is given to the call below.
LEMMA GiveStep ==
    ASSUME IInv, stack # <<>>, GiveName, Top.at \in Naming, Goes, SameScopes,
           queue' # <<>> => AtEnd' \/ IsId' \/ Is(":")'
    PROVE  IInv'
  <1>1. /\ Under \in Seq(Frames) /\ Top \in Frames /\ Stacked(Under) /\ Rests(Under, Top.at)
        /\ Len(stack) = Len(Under) + 1 /\ Len(Under) \in Nat
        /\ \A k \in 1..Len(Under) : stack[k] = Under[k]
        /\ PathOf(stack) = PathOf(Under)
    BY OpenCalls DEF IInv, Naming, Scoped
  <1>2. Under # <<>>
    BY <1>1 DEF Rests, Naming, Declaring
  <1> DEFINE v == SubSeq(Under, 1, Len(Under) - 1)
             a == Under[Len(Under)]
             b == [a EXCEPT !.id = Top.id]
  <1>3. /\ v \in Seq(Frames) /\ a \in Frames /\ Under = Append(v, a)
        /\ Len(v) = Len(Under) - 1
    BY <1>1, <1>2, StackSplits
  <1>4. b \in Frames /\ b.at = a.at /\ b.name = a.name
    <2>1. Top.id \in ScopeNames
      BY <1>1 DEF Frames
    <2> HIDE DEF a
    <2>2. QED
      BY <1>3, <2>1 DEF Frames
  <1>5. stack' = Append(v, b)
    <2>1. stack' = [Under EXCEPT ![Len(Under)] = b]
      BY <1>1 DEF GiveName
    <2> HIDE DEF b
    <2>2. QED
      BY <1>1, <1>2, <1>4, <2>1, TopChanges
  <1> HIDE DEF v, a, b
  <1>6. /\ stack' # <<>> /\ Len(stack') = Len(v) + 1 /\ stack'[Len(v) + 1] = b
        /\ \A k \in 1..Len(v) : stack'[k] = v[k]
        /\ \A k \in 1..Len(v) : Under[k] = v[k]
        /\ Under[Len(v) + 1] = a
    BY <1>3, <1>4, <1>5, TopOfStack
  <1>7. Top' = b
    BY <1>6 DEF Top
  <1>8. StackOK'
    <2>1. Stacked(v) /\ Rests(v, a.at)
      BY <1>1, <1>3, StackGrows
    <2>2. Stacked(stack')
      BY <1>3, <1>4, <1>5, <2>1, StackGrows
    <2>3. QED
      BY <2>2 DEF StackOK
  <1>9. TableOK' /\ curr' = curr /\ scopes' = scopes
    BY TableStays DEF IInv
  <1>10. LookingOK'
    <2>1. ASSUME NEW k \in 1..(Len(v) + 1), stack'[k].at \in Looking
          PROVE  IsNear(stack'[k].name, curr, scopes)
      <3>1. stack'[k].at = Under[k].at /\ stack'[k].name = Under[k].name
        <4>1. CASE k \in 1..Len(v)
          BY <1>6, <4>1
        <4>2. CASE k = Len(v) + 1
          BY <1>4, <1>6, <4>2
        <4>3. QED
          BY <1>1, <1>3, <4>1, <4>2
      <3>2. k \in 1..Len(stack) /\ k \in 1..Len(Under)
        BY <1>1, <1>3
      <3>3. stack[k] = Under[k]
        BY <1>1, <3>2
      <3>4. QED
        BY <2>1, <3>1, <3>2, <3>3 DEF IInv, LookingOK
    <2>2. QED
      BY <1>6, <1>9, <2>1 DEF LookingOK
  <1>11. CursorFollowsBlocks'
    <2>1. PathOf(stack') = PathOf(Under)
      BY <1>3, <1>4, <1>5, PathGrows
    <2>2. QED
      BY <1>1, <1>9, <2>1, TroubleStays
         DEF IInv, CursorFollowsBlocks, Untroubled, SameScopes, AtEnd
  <1>12. NothingFails' /\ AheadOK'
    <2>1. Above(a.at, Top.at)
      BY <1>1, <1>2 DEF Rests, a
    <2>2. b.at \notin Passing \cup Clean
      BY <1>4, <2>1 DEF Above, Naming, Passing, Declaring, Tagging, Templating, Balancing
    <2>3. QED
      BY <1>7, <2>2 DEF NothingFails, AheadOK, At
  <1>13. QED
    BY <1>8, <1>9, <1>10, <1>11, <1>12, TroubleStays DEF IInv, Goes

\* A tag gives its section to the sequence of declarations below.
LEMMA SectionStep ==
    ASSUME IInv, stack # <<>>, Top.at \in Tagging, NEW name \in Sections, SetSection(name),
           Goes, SameScopes, queue' = <<>>
    PROVE  IInv'
  <1>1. /\ Under \in Seq(Frames) /\ Top \in Frames /\ Stacked(Under) /\ Rests(Under, Top.at)
        /\ stack = Append(Under, Top)
        /\ Len(stack) = Len(Under) + 1 /\ Len(Under) \in Nat
        /\ \A k \in 1..Len(Under) : stack[k] = Under[k]
        /\ PathOf(stack) = PathOf(Under)
    BY OpenCalls DEF IInv, Tagging, Scoped
  <1>2. Under # <<>>
    BY <1>1 DEF Rests, Tagging, Declaring
  <1> DEFINE v == SubSeq(Under, 1, Len(Under) - 1)
             a == Under[Len(Under)]
             b == [a EXCEPT !.section = name]
             f == [Top EXCEPT !.at = "tag_flags"]
             u == Append(v, b)
  <1>3. /\ v \in Seq(Frames) /\ a \in Frames /\ Under = Append(v, a)
        /\ Len(v) = Len(Under) - 1 /\ Len(Under) >= 1
    BY <1>1, <1>2, StackSplits
  <1>4. b \in Frames /\ b.at = a.at /\ b.name = a.name
    <2> HIDE DEF a
    <2>2. QED
      BY <1>3 DEF Frames
  <1>5. f \in Frames /\ f.at = "tag_flags"
    <2>1. Top.at \notin Scoped /\ "tag_flags" \notin Scoped
      BY DEF Tagging, Scoped
    <2>2. "tag_flags" \in Labels
      BY DEF Labels
    <2>3. QED
      BY <1>1, <2>1, <2>2, GoesOn
  <1>6. u \in Seq(Frames) /\ Len(u) = Len(Under)
        /\ \A k \in 1..Len(v) : u[k] = v[k] /\ Under[k] = v[k]
    <2>1. Len(u) = Len(v) + 1 /\ u \in Seq(Frames) /\ \A k \in 1..Len(v) : u[k] = v[k]
      <3> HIDE DEF b, v
      <3>1. QED
        BY <1>3, <1>4, TopOfStack
    <2>2. \A k \in 1..Len(v) : Under[k] = v[k]
      <3> HIDE DEF a, v
      <3>1. QED
        BY <1>3, TopOfStack
    <2> HIDE DEF u, v
    <2>3. QED
      BY <1>3, <2>1, <2>2, <1>1
  <1>7. u[Len(Under)] = b /\ Under[Len(Under)] = a
    <2>1. u[Len(v) + 1] = b
      <3> HIDE DEF b, v
      <3>1. QED
        BY <1>3, <1>4, TopOfStack
    <2> HIDE DEF u, v
    <2>2. QED
      BY <1>1, <1>3, <2>1
  <1>8. stack' = Append(u, f)
    <2>1. stack' = [stack EXCEPT ![Len(Under)].section = name, ![Len(stack)].at = "tag_flags"]
      <3>1. Len(stack) - 1 = Len(Under)
        BY <1>1
      <3>2. QED
        BY <3>1 DEF SetSection
    <2> DEFINE s == [stack EXCEPT ![Len(Under)].section = name, ![Len(stack)].at = "tag_flags"]
               right == Append(u, f)
    <2>2. /\ right \in Seq(Frames) /\ Len(right) = Len(Under) + 1 /\ right[Len(Under) + 1] = f
          /\ \A k \in 1..Len(Under) : right[k] = u[k]
      <3> HIDE DEF u, f
      <3>1. QED
        BY <1>5, <1>6, TopOfStack
    <2>3. /\ stack \in [1..(Len(Under) + 1) -> Frames]
          /\ stack[Len(Under)] = a /\ stack[Len(Under) + 1] = Top
          /\ Len(Under) >= 1
      <3>1. stack \in Seq(Frames)
        BY DEF IInv, StackOK, Stacked
      <3>2. stack \in [1..Len(stack) -> Frames]
        BY <3>1, LenProperties
      <3>3. Len(Under) \in 1..Len(Under)
        BY <1>3, <1>1
      <3>4. QED
        BY <1>1, <1>3, <3>2, <3>3 DEF Top
    <2>4. /\ DOMAIN s = 1..(Len(Under) + 1)
          /\ s[Len(Under)] = b /\ s[Len(Under) + 1] = f
          /\ \A k \in 1..(Len(Under) - 1) : s[k] = stack[k]
      <3> DEFINE m == Len(Under)
      <3>1. m \in Nat /\ m >= 1 /\ Len(stack) = m + 1
        BY <1>1, <2>3
      <3>2. stack \in [1..(m + 1) -> Frames] /\ stack[m] = a /\ stack[m + 1] = Top
        BY <2>3
      <3>3. DOMAIN s = 1..(m + 1)
        BY <3>2
      <3>4. \A k \in 1..(m - 1) : s[k] = stack[k]
        <4>1. \A k \in 1..(m - 1) : k # m /\ k # Len(stack) /\ k \in DOMAIN stack
          BY <3>1, <3>2
        <4>2. QED
          BY <4>1
      <3>5. s[m] = [stack[m] EXCEPT !.section = name]
        <4>1. m # Len(stack) /\ m \in DOMAIN stack
          BY <3>1, <3>2
        <4>2. QED
          BY <4>1
      <3>6. s[m + 1] = [stack[m + 1] EXCEPT !.at = "tag_flags"]
        <4>1. Len(stack) # m /\ Len(stack) \in DOMAIN stack
          BY <3>1, <3>2
        <4>2. s[Len(stack)] = [stack[Len(stack)] EXCEPT !.at = "tag_flags"]
          BY <4>1
        <4>3. QED
          BY <3>1, <4>2
      <3>7. QED
        BY <3>2, <3>3, <3>4, <3>5, <3>6
    <2> HIDE DEF s, b, f, v, a, u
    <2>5. \A k \in 1..(Len(Under) + 1) : s[k] = right[k] /\ right[k] \in Frames
      <3>1. \A k \in 1..(Len(Under) - 1) : stack[k] = u[k]
        BY <1>1, <1>3, <1>6
      <3>2. \A k \in 1..(Len(Under) + 1) :
               k \in 1..(Len(Under) - 1) \/ k = Len(Under) \/ k = Len(Under) + 1
        BY <1>1
      <3>3. \A k \in 1..Len(right) : right[k] \in Frames
        BY <2>2, ElementOfSeq
      <3> HIDE DEF right
      <3>4. QED
        BY <1>1, <1>7, <2>2, <2>3, <2>4, <3>1, <3>2, <3>3
    <2>6. s = [k \in 1..(Len(Under) + 1) |-> s[k]]
      BY <2>4 DEF s
    <2>7. right = [k \in 1..(Len(Under) + 1) |-> right[k]]
      <3> HIDE DEF right
      <3>1. QED
        BY <2>2, LenProperties
    <2> HIDE DEF right
    <2>8. s = right
      BY <2>5, <2>6, <2>7
    <2>9. QED
      BY <2>1, <2>8 DEF s, right
  <1> HIDE DEF v, a, b, f, u
  <1>9. /\ stack' # <<>> /\ Len(stack') = Len(u) + 1 /\ stack'[Len(u) + 1] = f
        /\ \A k \in 1..Len(u) : stack'[k] = u[k]
    BY <1>5, <1>6, <1>8, TopOfStack
  <1>10. Top' = f
    BY <1>9 DEF Top
  <1>11. Above(a.at, Top.at)
    BY <1>1, <1>2, <1>7 DEF Rests
  <1>12. StackOK'
    <2>1. Stacked(v) /\ Rests(v, a.at)
      BY <1>1, <1>3, StackGrows
    <2>2. Stacked(u)
      BY <1>3, <1>4, <2>1, StackGrows DEF u
    <2>3. Above(a.at, f.at)
      BY <1>5, <1>11 DEF Above, Tagging, Declaring, Naming, Balancing
    <2>4. Rests(u, f.at)
      <3>1. u # <<>>
        BY <1>2, <1>1, <1>6, EmptySeq
      <3>2. QED
        BY <1>4, <1>6, <1>7, <2>3, <3>1 DEF Rests
    <2>5. Stacked(stack')
      BY <1>5, <1>6, <1>8, <2>2, <2>4, StackGrows
    <2>6. QED
      BY <2>5 DEF StackOK
  <1>13. TableOK' /\ curr' = curr /\ scopes' = scopes
    BY TableStays DEF IInv
  <1>14. LookingOK'
    <2>1. ASSUME NEW k \in 1..Len(u)
         PROVE  stack'[k].at = stack[k].at /\ stack'[k].name = stack[k].name
      <3>1. CASE k \in 1..Len(v)
        BY <1>1, <1>3, <1>6, <1>9, <3>1
      <3>2. CASE k = Len(Under)
        BY <1>1, <1>3, <1>4, <1>6, <1>7, <1>9, <3>2
      <3>3. QED
        BY <1>1, <1>3, <1>6, <3>1, <3>2
    <2>2. f.at \notin Looking
      BY <1>5 DEF Looking
    <2>3. ASSUME NEW k \in 1..(Len(u) + 1), stack'[k].at \in Looking
          PROVE  IsNear(stack'[k].name, curr, scopes)
      <3>1. k \in 1..Len(u)
        BY <1>1, <1>6, <1>9, <2>2, <2>3
      <3>2. k \in 1..Len(stack)
        BY <1>1, <1>6, <3>1
      <3>3. QED
        BY <2>1, <2>3, <3>1, <3>2 DEF IInv, LookingOK
    <2>4. QED
      BY <1>9, <1>13, <2>3 DEF LookingOK
  <1>15. CursorFollowsBlocks'
    <2>1. PathOf(stack') = PathOf(u)
      BY <1>5, <1>6, <1>8, PathGrows DEF Scoped
    <2>2. PathOf(u) = PathOf(Under)
      BY <1>3, <1>4, PathGrows DEF u
    <2>3. QED
      BY <1>1, <1>13, <2>1, <2>2, TroubleStays
         DEF IInv, CursorFollowsBlocks, Untroubled, SameScopes, AtEnd
  <1>16. NothingFails' /\ AheadOK'
    BY <1>5, <1>10 DEF NothingFails, AheadOK, At, Passing
  <1>17. QED
    BY <1>12, <1>13, <1>14, <1>15, <1>16, TroubleStays DEF IInv, Goes

-----------------------------------------------------------------------------
(* Steps of the lexer, while the table stays *)

Results == {"done", "failed", "forward", "method"}

LEMMA WordIsId ==
    ASSUME LexerOK
    PROVE  /\ IsId => Word \in Names \cup Keys /\ Word \in Words /\ token # L!Invalid /\ ~AtEnd
           /\ token # L!Invalid /\ ~AtEnd => Word \in Words
  <1>1. L!Invalid.type = "invalid" /\ L!Eof.type = "eof" /\ "invalid" \notin Names
        /\ "eof" \notin Names /\ text \in Seq(Words)
    BY ParserAssumption DEF L!Invalid, L!Eof, LexerOK, TextOK
  <1>2. IsId => token # L!Invalid /\ ~AtEnd
    BY <1>1 DEF IsId, AtEnd
  <1>3. token # L!Invalid /\ ~AtEnd => IsOfText(token)
    BY DEF LexerOK, TokenOK, AtEnd
  <1>4. IsOfText(token) => Word \in Words
    BY <1>1, ElementOfSeq DEF IsOfText, Word
  <1>5. IsOfText(token) /\ IsId => Word \in Names \cup Keys
    BY DEF IsOfText, IsId, Word
  <1>6. QED
    BY <1>2, <1>3, <1>4, <1>5

LEMMA NotInvalid ==
    ASSUME LexerOK, stack # <<>>, Top.at # "start"
    PROVE  token # L!Invalid
  BY InvalidIsNoToken DEF LexerOK, TokenOK

\* Reading goes on while the table and the marks stay.
LEMMA TableGoes ==
    ASSUME IInv, Reads, NoTable, ret' \in Results
    PROVE  Goes /\ SameScopes /\ TableOK'
  <1>1. SameScopes /\ types' = types /\ taggedOnly' = taggedOnly /\ reported' = reported
        /\ asserted' = asserted
    BY DEF NoTable, tableVars, marks, SameScopes
  <1>2. TableOK' /\ scopes' = scopes
    BY <1>1, TableStays DEF IInv
  <1>3. TypesOK'
    BY <1>1, <1>2 DEF IInv, TypesOK, IsType, Sections
  <1>4. MarksOK'
    BY <1>1 DEF IInv, MarksOK, SameScopes, Results
  <1>5. QED
    BY <1>1, <1>2, <1>3, <1>4 DEF Goes

LEMMA EatGoes ==
    ASSUME IInv, Eat, ret' \in Results
    PROVE  /\ Goes /\ SameScopes /\ queue' = <<>> /\ AheadBack
           /\ \A b : Ahead(b)
  <1>1. Reads /\ queue' = <<>>
    BY GetStep DEF IInv, Eat
  <1>2. Goes /\ SameScopes
    BY <1>1, TableGoes DEF Eat
  <1>3. QED
    BY <1>1, <1>2 DEF Ahead, AheadBack

LEMMA AheadStays ==
    ASSUME IInv, stack # <<>>, Top.at # "member_peeked", token' = token, queue' = queue
    PROVE  /\ AheadBack
           /\ \A b : (b \in Clean => Top.at \in Clean) => Ahead(b)
  BY DEF IInv, AheadOK, At, AheadBack, Ahead, AtEnd, IsId, Is

LEMMA QuietGoes ==
    ASSUME IInv, stack # <<>>, Top.at # "start", Quiet, ret' \in Results
    PROVE  Goes /\ SameScopes /\ token' = token /\ queue' = queue
  <1>1. Reads
    BY QuietStep, NotInvalid DEF IInv, Quiet, Silent
  <1>2. QED
    BY <1>1, TableGoes DEF Quiet, Silent, lexerVars

LEMMA ModeGoes ==
    ASSUME IInv, stack # <<>>, Top.at # "start", NEW state \in BOOLEAN, NoTable,
           L!SetTemplateArgsParsingMode(state) \/ L!SetMetaTagParsingMode(state),
           ret' \in Results
    PROVE  Goes /\ SameScopes /\ token' = token /\ queue' = queue
  <1>1. Reads /\ queue' = queue
    BY ModeStep, NotInvalid DEF IInv
  <1>2. token' = token
    BY DEF L!SetTemplateArgsParsingMode, L!SetMetaTagParsingMode
  <1>3. QED
    BY <1>1, <1>2, TableGoes

LEMMA PeekGoes ==
    ASSUME IInv, L!PeekToken(1), NoTable, ret' \in Results
    PROVE  Goes /\ SameScopes /\ token' = token
  <1>1. Reads /\ token' = token
    BY PeekStep DEF IInv
  <1>2. QED
    BY <1>1, TableGoes

LEMMA ResultStays == ASSUME IInv, ret' = ret PROVE ret' \in Results
  BY DEF IInv, MarksOK, Results

\* What the token is, when none is read ahead.
LEMMA NothingAhead ==
    ASSUME IInv, stack # <<>>, Top.at # "member_peeked",
           ~AtEnd, ~IsId, ~Is(":")
    PROVE  queue = <<>>
  BY DEF IInv, AheadOK, At

-----------------------------------------------------------------------------
(* Steps of the stack, with the steps of the lexer *)

LEMMA TopIsFrame ==
    ASSUME IInv, stack # <<>>
    PROVE  /\ Top \in Frames /\ Top.at \in Labels /\ Top.name \in ScopeNames
           /\ Top.id \in ScopeNames /\ Top.n \in Int /\ Top.section \in Sections
           /\ Top.members \in Seq(Words)
           /\ Top.enumTag \in BOOLEAN /\ Top.classTag \in BOOLEAN
           /\ Top.name # <<>> <=> Top.at \in Scoped
  <1>1. Top \in Frames
    BY OpenCalls DEF IInv
  <1>2. QED
    BY <1>1 DEF Frames

LEMMA NewFrame ==
    ASSUME NEW b \in Labels \ Scoped
    PROVE  Frame(b) \in Frames /\ Frame(b).at = b /\ Frame(b).name = <<>>
  <1>1. <<>> \in ScopeNames /\ <<>> \in Seq(Words)
    BY DEF ScopeNames
  <1>2. QED
    BY <1>1 DEF Frame, Frames, Sections

LEMMA GotoStep ==
    ASSUME IInv, stack # <<>>, NEW b \in Labels, Goto(b), Follows(Top.at, b),
           Goes, SameScopes, Ahead(b)
    PROVE  IInv'
  <1> DEFINE f == [Top EXCEPT !.at = b]
  <1>1. f \in Frames /\ f.at = b /\ f.name = Top.name
    BY TopIsFrame, GoesOn DEF Follows
  <1>2. stack' = Append(Under, f)
    BY DEF Goto, Becomes
  <1> HIDE DEF f
  <1>3. QED
    BY <1>1, <1>2, TurnStep

LEMMA EatGoto ==
    ASSUME IInv, stack # <<>>, NEW b \in Labels, Eat, Goto(b), Follows(Top.at, b)
    PROVE  IInv'
  <1>1. ret' \in Results
    BY ResultStays DEF Goto, Becomes
  <1>2. QED
    BY <1>1, EatGoes, GotoStep

LEMMA QuietGoto ==
    ASSUME IInv, stack # <<>>, NEW b \in Labels, Quiet, Goto(b), Follows(Top.at, b),
           Top.at \notin {"start", "member_peeked"}, b \in Clean => Top.at \in Clean
    PROVE  IInv'
  <1>1. ret' \in Results
    BY ResultStays DEF Goto, Becomes
  <1>2. Goes /\ SameScopes /\ token' = token /\ queue' = queue
    BY <1>1, QuietGoes
  <1>3. QED
    BY <1>2, AheadStays, GotoStep

LEMMA CallsStep ==
    ASSUME IInv, stack # <<>>, NEW b \in Labels, NEW g \in Frames, Call(g, b),
           CallsFor(Top.at, b, g.at), Goes, SameScopes, Ahead(g.at)
    PROVE  IInv'
  <1> DEFINE f == [Top EXCEPT !.at = b]
  <1>1. f \in Frames /\ f.at = b /\ f.name = Top.name
    BY TopIsFrame, GoesOn DEF CallsFor
  <1>2. stack' = Under \o <<f, g>>
    BY DEF Call
  <1> HIDE DEF f
  <1>3. QED
    BY <1>1, <1>2, CallStep

LEMMA EatCall ==
    ASSUME IInv, stack # <<>>, NEW b \in Labels, NEW g \in Frames, Eat, Call(g, b),
           CallsFor(Top.at, b, g.at)
    PROVE  IInv'
  <1>1. ret' \in Results
    BY ResultStays DEF Call
  <1>2. QED
    BY <1>1, EatGoes, CallsStep

LEMMA QuietCall ==
    ASSUME IInv, stack # <<>>, NEW b \in Labels, NEW g \in Frames, Quiet, Call(g, b),
           CallsFor(Top.at, b, g.at), Top.at \notin {"start", "member_peeked"},
           g.at \in Clean => Top.at \in Clean \/ queue = <<>>
    PROVE  IInv'
  <1>1. ret' \in Results
    BY ResultStays DEF Call
  <1>2. Goes /\ SameScopes /\ token' = token /\ queue' = queue
    BY <1>1, QuietGoes
  <1>3. Ahead(g.at)
    <2>1. CASE queue = <<>>
      BY <1>2, <2>1 DEF Ahead
    <2>2. CASE queue # <<>>
      BY <1>2, <2>2, AheadStays
    <2>3. QED
      BY <2>1, <2>2
  <1>4. QED
    BY <1>2, <1>3, CallsStep

LEMMA EatReturn ==
    ASSUME IInv, stack # <<>>, NEW value \in Results, Eat, Return(value),
           Top.at \notin Naming \cup Scoped,
           value = "failed" => Top.at \notin Declaring \cup Tagging
    PROVE  IInv'
  <1>1. ret' \in Results /\ FailsLoudly(Top.at)
    BY DEF Return, FailsLoudly
  <1>2. QED
    BY <1>1, EatGoes, ReturnStep DEF Return

LEMMA QuietReturn ==
    ASSUME IInv, stack # <<>>, NEW value \in Results, Quiet, Return(value),
           Top.at \notin Naming \cup Scoped \cup {"start", "member_peeked"},
           value = "failed" => Top.at \notin Declaring \cup Tagging \/ ~Untroubled
    PROVE  IInv'
  <1>1. ret' \in Results
    BY DEF Return
  <1>2. Goes /\ SameScopes /\ token' = token /\ queue' = queue
    BY <1>1, QuietGoes
  <1>3. FailsLoudly(Top.at)
    BY <1>2, TroubleStays DEF Return, FailsLoudly
  <1>4. QED
    BY <1>2, <1>3, AheadStays, ReturnStep DEF Return

LEMMA Failing ==
    ASSUME IInv, stack # <<>>, Fails, Top.at \notin Naming \cup {"start", "member_peeked"}
    PROVE  IInv'
  <1>1. Reads /\ token' = token /\ queue' = queue
    BY QuietStep, NotInvalid DEF IInv, Fails, Silent, lexerVars
  <1>2. SameScopes /\ types' = types
    BY DEF Fails, tableVars, SameScopes
  <1>3. TableOK' /\ scopes' = scopes
    BY <1>2, TableStays DEF IInv
  <1>4. Goes
    <2>1. TypesOK'
      BY <1>2, <1>3 DEF IInv, TypesOK, IsType, Sections
    <2>2. MarksOK' /\ reported' /\ (asserted => asserted')
      BY <1>2 DEF IInv, MarksOK, Fails, Return, Reports, SameScopes
    <2>3. QED
      BY <1>1, <2>1, <2>2 DEF Goes
  <1>5. ~Untroubled'
    BY DEF Untroubled, Fails, Reports
  <1>6. QED
    BY <1>1, <1>3, <1>4, <1>5, AheadStays, FailStep DEF Fails, Return

-----------------------------------------------------------------------------
(* The productions.  A mark or a keyword is no identifier and not the end. *)

LEMMA WordTypes ==
    /\ Names \cap (Keys \cup Punctuation \cup Keywords) = {} /\ "id" \notin Names
    /\ L!Eof.type = "eof" /\ L!Invalid.type = "invalid"
    /\ "eof" \notin Names /\ "invalid" \notin Names
    /\ \A w \in Keys \cup Punctuation \cup Keywords : w \notin Names \cup {"id"}
  BY ParserAssumption DEF L!Eof, L!Invalid, Keys, Punctuation, Keywords

LEMMA WordIsAlone ==
    ASSUME IInv, stack # <<>>, Top.at # "member_peeked",
           token.type \in (Keys \cup Punctuation \cup Keywords) \ {":"}
    PROVE  queue = <<>> /\ ~AtEnd /\ ~IsId
  <1>1. ~AtEnd /\ ~IsId
    BY WordTypes, ParserAssumption DEF AtEnd, IsId, Keys, Punctuation, Keywords
  <1>2. ~Is(":")
    BY DEF Is
  <1>3. QED
    BY <1>1, <1>2, NothingAhead

LEMMA ParseStep ==
    ASSUME IInv, Parse
    PROVE  IInv'
  <1>1. stack # <<>> /\ Top.at = "start"
    BY DEF Parse, At
  <1>2. ret' \in Results
    BY ResultStays DEF Parse, Goto, Becomes
  <1>3. Reads
    BY FirstStep DEF IInv, Parse
  <1>4. Goes /\ SameScopes
    BY <1>2, <1>3, TableGoes DEF Parse
  <1>5. Follows(Top.at, "declarations") /\ "declarations" \in Labels
    BY <1>1 DEF Labels, Follows, Scoped, Declaring, Tagging, Naming, Balancing, Looking, Passing
  <1>6. Ahead("declarations")
    <2>1. CASE queue = <<>>
      BY <1>3, <2>1, FirstStep DEF IInv, Parse, Ahead
    <2>2. CASE queue # <<>>
      <3>1. Top.at # "member_peeked"
        BY <1>1
      <3>2. token # L!Invalid
        BY <2>2 , InvalidIsNoToken DEF IInv, LexerOK, TokenOK
      <3>3. token' = token /\ queue' = queue
        BY <2>2, <3>2 DEF Parse, L!GetCurrToken
      <3>4. "declarations" \notin Clean
        BY DEF Clean, Tagging, Balancing, Templating
      <3>5. QED
        BY <1>1, <3>1, <3>3, <3>4, AheadStays
    <2>3. QED
      BY <2>1, <2>2
  <1>7. QED
    BY <1>1, <1>4, <1>5, <1>6, GotoStep DEF Parse

LEMMA BalancedStep ==
    ASSUME IInv, BalancedTokens
    PROVE  IInv'
  <1>1. CASE At({"balanced"}) /\ token.type \in DOMAIN Closing /\ Eat
          /\ Becomes([Top EXCEPT !.at = "matching", !.id = <<token.type>>, !.n = 1])
    <2> DEFINE f == Restarted(Top, "matching", <<token.type>>, 1)
    <2>1. stack # <<>> /\ Top.at = "balanced" /\ ret' \in Results
      BY <1>1, ResultStays DEF At, Becomes
    <2>2. <<token.type>> \in ScopeNames
      <3>1. token.type \in {"{", "(", "<"}
        BY <1>1 DEF Closing
      <3>2. token.type \in Words \cup {"::"}
        BY <3>1 DEF Words, Punctuation
      <3>3. QED
        BY <3>2 DEF ScopeNames
    <2>3. "matching" \in Labels /\ "matching" \notin Scoped /\ Top.at \notin Scoped
      BY <2>1 DEF Labels, Scoped
    <2>4. f \in Frames /\ f.at = "matching" /\ f.name = Top.name
      BY <2>1, <2>2, <2>3, TopIsFrame, RestartedFrame
    <2>5. Follows(Top.at, "matching")
      BY <2>1 DEF Labels, Follows, Scoped, Declaring, Tagging, Naming, Balancing, Looking, Passing
    <2> HIDE DEF f
    <2>6. QED
      BY <1>1, <2>1, <2>4, <2>5, EatGoes, TurnStep DEF Becomes, f, Restarted
  <1>2. CASE At({"balanced"}) /\ Quiet /\ Return("done")
    <2>1. stack # <<>> /\ Top.at \in {"balanced"}
      BY <1>2 DEF At
    <2>2. "done" \in Results /\ Top.at \notin Naming \cup Scoped \cup {"start", "member_peeked"}
      BY <2>1 DEF Results, Naming, Scoped
    <2>3. QED
      BY <1>2, <2>1, <2>2, QuietReturn
  <1>3. CASE At({"matching"}) /\ Eat /\ Return("done")
    <2>1. stack # <<>> /\ Top.at \in {"matching"}
      BY <1>3 DEF At
    <2>2. "done" \in Results /\ Top.at \notin Naming \cup Scoped
      BY <2>1 DEF Results, Naming, Scoped
    <2>3. QED
      BY <1>3, <2>1, <2>2, EatReturn
  <1>4. ASSUME At({"matching"}), Eat, NEW n \in Int, Becomes([Top EXCEPT !.n = n])
        PROVE  IInv'
    <2> DEFINE f == [Top EXCEPT !.n = n]
    <2>1. stack # <<>> /\ Top.at = "matching" /\ ret' \in Results
      BY <1>4, ResultStays DEF At, Becomes
    <2>2. f \in Frames /\ f.at = "matching" /\ f.name = Top.name
      BY <2>1, OpenCalls DEF Frames, IInv
    <2>3. Follows(Top.at, "matching")
      BY <2>1 DEF Labels, Follows, Scoped, Declaring, Tagging, Naming, Balancing, Looking, Passing
    <2> HIDE DEF f
    <2>4. QED
      BY <1>4, <2>1, <2>2, <2>3, EatGoes, TurnStep DEF Becomes, f
  <1>5. CASE At({"matching"})
    <2> DEFINE open == Top.id[1]
               n == IF Is(Closing[open]) THEN Top.n - 1 ELSE IF Is(open) THEN Top.n + 1 ELSE Top.n
    <2>1. Top.n \in Int
      BY <1>5, TopIsFrame DEF At
    <2>2. n \in Int
      BY <2>1
    <2>3. Eat /\ (Return("done") \/ Becomes([Top EXCEPT !.n = n]))
      BY <1>5 DEF BalancedTokens, At
    <2> HIDE DEF n
    <2>4. QED
      BY <1>3, <1>4, <1>5, <2>2, <2>3, SMTT(20)
  <1>6. QED
    BY <1>1, <1>2, <1>5 DEF BalancedTokens

\* The frames of enumerations and classes take the tags of the sequence.
EnumFrame(s, x) == [[Frame("enum") EXCEPT !.section = s] EXCEPT !.enumTag = x]
ClassFrame(s, x) == [[Frame("class") EXCEPT !.section = s] EXCEPT !.classTag = x]

LEMMA TagsAreTaken ==
    ASSUME NEW s \in Sections, NEW x \in BOOLEAN
    PROVE  /\ EnumFrame(s, x) \in Frames /\ EnumFrame(s, x).at = "enum"
           /\ ClassFrame(s, x) \in Frames /\ ClassFrame(s, x).at = "class"
  <1>1. ASSUME NEW f \in Frames
        PROVE  /\ [[f EXCEPT !.section = s] EXCEPT !.enumTag = x] \in Frames
               /\ [[f EXCEPT !.section = s] EXCEPT !.enumTag = x].at = f.at
               /\ [[f EXCEPT !.section = s] EXCEPT !.classTag = x] \in Frames
               /\ [[f EXCEPT !.section = s] EXCEPT !.classTag = x].at = f.at
    BY DEF Frames
  <1>2. Frame("enum") \in Frames /\ Frame("enum").at = "enum"
    BY NewFrame DEF Labels, Scoped
  <1>3. Frame("class") \in Frames /\ Frame("class").at = "class"
    BY NewFrame DEF Labels, Scoped
  <1>4. QED
    BY <1>1, <1>2, <1>3 DEF EnumFrame, ClassFrame

LEMMA DeclarationStep ==
    ASSUME IInv, Declaration
    PROVE  IInv'
  <1>1. CASE At({"declarations"}) /\ AtEnd /\ Quiet /\ Return(Result(Top.ok))
    <2>1. stack # <<>> /\ Top.at \in {"declarations"}
      BY <1>1 DEF At
    <2>2. Result(Top.ok) \in Results /\ ~Untroubled
      BY <1>1 DEF Result, Results, Untroubled
    <2>3. Top.at \notin Naming \cup Scoped \cup {"start", "member_peeked"}
      BY <2>1 DEF Naming, Scoped
    <2>4. QED
      BY <1>1, <2>1, <2>2, <2>3, QuietReturn
  <1>2. CASE At({"declarations"}) /\ Is("}") /\ Quiet /\ Return("done")
    <2>1. stack # <<>> /\ Top.at \in {"declarations"}
      BY <1>2 DEF At
    <2>2. "done" \in Results /\ Top.at \notin Naming \cup Scoped \cup {"start", "member_peeked"}
      BY <2>1 DEF Results, Naming, Scoped
    <2>3. QED
      BY <1>2, <2>1, <2>2, QuietReturn
  <1>3. CASE At({"declarations"}) /\ Is("{") /\ Quiet /\ Call(Frame("balanced"), "declared")
    <2>1. stack # <<>> /\ Top.at \in {"declarations"}
      BY <1>3 DEF At
    <2>2. Frame("balanced") \in Frames /\ Frame("balanced").at = "balanced"
      BY NewFrame DEF Labels, Scoped
    <2>3. CallsFor(Top.at, "declared", "balanced") /\ "declared" \in Labels
      BY <2>1 DEF Labels, CallsFor, Above, Scoped, Declaring, Tagging, Naming, Balancing, Looking,
             Passing, Templating, Clean
    <2>4. Top.at \notin {"start", "member_peeked"}
      BY <2>1
    <2>5. token.type \in (Keys \cup Punctuation \cup Keywords) \ {":"}
      BY <1>3 DEF Is, Punctuation
    <2>6. queue = <<>>
      BY <2>1, <2>5, WordIsAlone
    <2>7. QED
      BY <1>3, <2>1, <2>2, <2>3, <2>4, <2>5, <2>6, QuietCall
  <1>4. CASE At({"declarations"}) /\ Eat /\ Call(Frame("namespace"), "declared")
    <2>1. stack # <<>> /\ Top.at \in {"declarations"}
      BY <1>4 DEF At
    <2>2. Frame("namespace") \in Frames /\ Frame("namespace").at = "namespace"
      BY NewFrame DEF Labels, Scoped
    <2>3. CallsFor(Top.at, "declared", "namespace") /\ "declared" \in Labels
      BY <2>1 DEF Labels, CallsFor, Above, Scoped, Declaring, Tagging, Naming, Balancing, Looking,
             Passing, Templating, Clean
    <2>4. QED
      BY <1>4, <2>1, <2>2, <2>3, EatCall
  <1>5. CASE At({"declarations"}) /\ Eat /\ Call(Frame("template"), "declared")
    <2>1. stack # <<>> /\ Top.at \in {"declarations"}
      BY <1>5 DEF At
    <2>2. Frame("template") \in Frames /\ Frame("template").at = "template"
      BY NewFrame DEF Labels, Scoped
    <2>3. CallsFor(Top.at, "declared", "template") /\ "declared" \in Labels
      BY <2>1 DEF Labels, CallsFor, Above, Scoped, Declaring, Tagging, Naming, Balancing, Looking,
             Passing, Templating, Clean
    <2>4. QED
      BY <1>5, <2>1, <2>2, <2>3, EatCall
  <1>6. CASE /\ At({"declarations"})
             /\ Eat
             /\ Call([TagsFrame("enum") EXCEPT !.enumTag = Top.enumTag], "enum_declared")
    <2>1. stack # <<>> /\ Top.at \in {"declarations"}
      BY <1>6 DEF At
    <2>2. EnumFrame(Top.section, Top.enumTag) \in Frames
         /\ EnumFrame(Top.section, Top.enumTag).at = "enum"
      BY <2>1, TopIsFrame, TagsAreTaken
    <2>3. Call(EnumFrame(Top.section, Top.enumTag), "enum_declared")
      BY <1>6 DEF EnumFrame, TagsFrame
    <2>4. CallsFor(Top.at, "enum_declared", "enum") /\ "enum_declared" \in Labels
      BY <2>1 DEF Labels, CallsFor, Above, Scoped, Declaring, Tagging, Naming, Balancing, Looking,
             Passing, Templating, Clean
    <2>5. QED
      BY <1>6, <2>1, <2>2, <2>3, <2>4, EatCall
  <1>7. CASE /\ At({"declarations"})
             /\ Eat
             /\ Call([TagsFrame("class") EXCEPT !.classTag = Top.classTag], "class_declared")
    <2>1. stack # <<>> /\ Top.at \in {"declarations"}
      BY <1>7 DEF At
    <2>2. ClassFrame(Top.section, Top.classTag) \in Frames
         /\ ClassFrame(Top.section, Top.classTag).at = "class"
      BY <2>1, TopIsFrame, TagsAreTaken
    <2>3. Call(ClassFrame(Top.section, Top.classTag), "class_declared")
      BY <1>7 DEF ClassFrame, TagsFrame
    <2>4. CallsFor(Top.at, "class_declared", "class") /\ "class_declared" \in Labels
      BY <2>1 DEF Labels, CallsFor, Above, Scoped, Declaring, Tagging, Naming, Balancing, Looking,
             Passing, Templating, Clean
    <2>5. QED
      BY <1>7, <2>1, <2>2, <2>3, <2>4, EatCall
  <1>8. CASE At({"declarations"}) /\ Eat /\ Call(Frame("typedef"), "type_defined")
    <2>1. stack # <<>> /\ Top.at \in {"declarations"}
      BY <1>8 DEF At
    <2>2. Frame("typedef") \in Frames /\ Frame("typedef").at = "typedef"
      BY NewFrame DEF Labels, Scoped
    <2>3. CallsFor(Top.at, "type_defined", "typedef") /\ "type_defined" \in Labels
      BY <2>1 DEF Labels, CallsFor, Above, Scoped, Declaring, Tagging, Naming, Balancing, Looking,
             Passing, Templating, Clean
    <2>4. QED
      BY <1>8, <2>1, <2>2, <2>3, EatCall
  <1>9. ASSUME At({"declarations"}), token.type \in {"CLASS_META", "ENUM_META"},
               L!SetMetaTagParsingMode(TRUE), NoTable,
               NEW b \in {"class_tagged", "enum_tagged"}, Call(Frame("tag"), b)
        PROVE  IInv'
    <2>1. stack # <<>> /\ Top.at = "declarations" /\ ret' \in Results
      BY <1>9, ResultStays DEF At, Call
    <2>2. Frame("tag") \in Frames /\ Frame("tag").at = "tag"
      BY NewFrame DEF Labels, Scoped
    <2>3. CallsFor(Top.at, b, "tag") /\ b \in Labels
      <3>1. CASE b = "class_tagged"
        BY <2>1, <3>1 DEF Labels, CallsFor, Above, Scoped, Declaring, Tagging, Naming, Balancing,
           Looking,
             Passing, Templating, Clean
      <3>2. CASE b = "enum_tagged"
        BY <2>1, <3>2 DEF Labels, CallsFor, Above, Scoped, Declaring, Tagging, Naming, Balancing,
           Looking,
             Passing, Templating, Clean
      <3>3. QED
        BY <3>1, <3>2
    <2>4. queue = <<>>
      <3>1. token.type \in (Keys \cup Punctuation \cup Keywords) \ {":"}
        BY <1>9 DEF Keywords
      <3>2. QED
        BY <2>1, <3>1, WordIsAlone
    <2>5. Goes /\ SameScopes /\ token' = token /\ queue' = queue
      BY <1>9, <2>1, ModeGoes
    <2>6. Ahead("tag")
      BY <2>4, <2>5 DEF Ahead
    <2>7. QED
      BY <1>9, <2>1, <2>2, <2>3, <2>5, <2>6, CallsStep
  <1>10. CASE At({"declarations"}) /\ IsId /\ L!PeekToken(1) /\ NoTable /\ Goto("identifier")
    <2>1. stack # <<>> /\ Top.at = "declarations" /\ ret' \in Results
      BY <1>10, ResultStays DEF At, Goto, Becomes
    <2>2. Follows(Top.at, "identifier") /\ "identifier" \in Labels
      BY <2>1 DEF Labels, Follows, Scoped, Declaring, Tagging, Naming, Balancing, Looking, Passing
    <2>3. Goes /\ SameScopes /\ token' = token
      BY <1>10, <2>1, PeekGoes
    <2>4. Ahead("identifier")
      <3>1. "identifier" \notin Clean
        BY DEF Clean, Tagging, Balancing, Templating
      <3>2. QED
        BY <1>10, <2>3, <3>1 DEF Ahead, IsId
    <2>5. QED
      BY <1>10, <2>1, <2>2, <2>3, <2>4, GotoStep
  <1>11. CASE At({"declarations"}) /\ Eat /\ Goto("declarations")
    <2>1. stack # <<>> /\ Top.at \in {"declarations"}
      BY <1>11 DEF At
    <2>2. Follows(Top.at, "declarations") /\ "declarations" \in Labels
      BY <2>1 DEF Labels, Follows, Scoped, Declaring, Tagging, Naming, Balancing, Looking, Passing
    <2>3. QED
      BY <1>11, <2>1, <2>2, EatGoto
  <1>12. QED
    BY <1>1, <1>2, <1>3, <1>4, <1>5, <1>6, <1>7, <1>8, <1>9, <1>10, <1>11 DEF Declaration, SkipToken

LEMMA EatTurn ==
    ASSUME IInv, stack # <<>>, NEW f \in Frames, Eat, Becomes(f), f.name = Top.name,
           Follows(Top.at, f.at)
    PROVE  IInv'
  <1>1. ret' \in Results
    BY ResultStays DEF Becomes
  <1>2. QED
    BY <1>1, EatGoes, TurnStep DEF Becomes

LEMMA QuietTurn ==
    ASSUME IInv, stack # <<>>, NEW f \in Frames, Quiet, Becomes(f), f.name = Top.name,
           Follows(Top.at, f.at), Top.at \notin {"start", "member_peeked"},
           f.at \in Clean => Top.at \in Clean
    PROVE  IInv'
  <1>1. ret' \in Results
    BY ResultStays DEF Becomes
  <1>2. Goes /\ SameScopes /\ token' = token /\ queue' = queue
    BY <1>1, QuietGoes
  <1>3. QED
    BY <1>2, AheadStays, TurnStep DEF Becomes

LEMMA SilentGoes ==
    ASSUME IInv, stack # <<>>, Top.at # "start", Silent, UNCHANGED tableVars,
           taggedOnly' = taggedOnly, reported' \in BOOLEAN, asserted' \in BOOLEAN,
           reported => reported', asserted => asserted', ret' \in Results
    PROVE  Goes /\ SameScopes /\ token' = token /\ queue' = queue /\ TableOK'
  <1>1. Reads /\ token' = token /\ queue' = queue
    BY QuietStep, NotInvalid DEF IInv, Silent, lexerVars
  <1>2. SameScopes /\ types' = types
    BY DEF tableVars, SameScopes
  <1>3. TableOK' /\ scopes' = scopes
    BY <1>2, TableStays DEF IInv
  <1>4. TypesOK'
    BY <1>2, <1>3 DEF IInv, TypesOK, IsType, Sections
  <1>5. MarksOK'
    BY <1>2 DEF IInv, MarksOK, SameScopes, Results
  <1>6. QED
    BY <1>1, <1>2, <1>3, <1>4, <1>5 DEF Goes

LEMMA BodyFrame == Body \in Frames /\ Body.at = "declarations" /\ Body.name = <<>>
  <1>1. ASSUME NEW f \in Frames
        PROVE  /\ [f EXCEPT !.exits = TRUE] \in Frames
               /\ [f EXCEPT !.exits = TRUE].at = f.at
               /\ [f EXCEPT !.exits = TRUE].name = f.name
    BY DEF Frames
  <1>2. /\ Frame("declarations") \in Frames /\ Frame("declarations").at = "declarations"
        /\ Frame("declarations").name = <<>>
    BY NewFrame DEF Labels, Scoped
  <1>3. QED
    BY <1>1, <1>2 DEF Body

LEMMA DeclaredStep ==
    ASSUME IInv, Declared
    PROVE  IInv'
  <1>1. CASE At({"declared"}) /\ Quiet
          /\ Becomes([Top EXCEPT !.at = "declarations", !.ok = ret # "failed"])
    <2>1. stack # <<>> /\ Top.at \in {"declared"}
      BY <1>1 DEF At
    <2>2. Follows(Top.at, "declarations") /\ "declarations" \in Labels
      BY <2>1 DEF Labels, Follows, Scoped, Declaring, Tagging, Naming, Balancing, Looking, Passing
    <2>3. (ret # "failed") \in BOOLEAN
      OBVIOUS
    <2>4. Judged(Top, "declarations", ret # "failed") \in Frames
          /\ Judged(Top, "declarations", ret # "failed").at = "declarations"
          /\ Judged(Top, "declarations", ret # "failed").name = Top.name
      BY <2>1, <2>2, <2>3, TopIsFrame, JudgedFrame DEF Follows
    <2>5. Becomes(Judged(Top, "declarations", ret # "failed"))
      BY <1>1 DEF Judged
    <2>6. Top.at \notin {"start", "member_peeked"} /\ ("declarations" \in Clean => Top.at \in Clean)
      BY <2>1 DEF Clean, Tagging, Balancing, Templating
    <2>7. QED
      BY <1>1, <2>1, <2>2, <2>3, <2>4, <2>5, <2>6, QuietTurn
  <1>2. QED
    BY <1>1 DEF Declared

LEMMA EnumDeclaredStep ==
    ASSUME IInv, EnumDeclared
    PROVE  IInv'
  <1>1. CASE At({"enum_declared"}) /\ Eat
          /\ Becomes([Top EXCEPT !.at = "declarations", !.ok = ret # "failed", !.enumTag = FALSE])
    <2>1. stack # <<>> /\ Top.at \in {"enum_declared"}
      BY <1>1 DEF At
    <2>2. Follows(Top.at, "declarations") /\ "declarations" \in Labels
      BY <2>1 DEF Labels, Follows, Scoped, Declaring, Tagging, Naming, Balancing, Looking, Passing
    <2>3. (ret # "failed") \in BOOLEAN /\ FALSE \in BOOLEAN
      OBVIOUS
    <2>4. JudgedEnum(Top, "declarations", ret # "failed", FALSE) \in Frames
          /\ JudgedEnum(Top, "declarations", ret # "failed", FALSE).at = "declarations"
          /\ JudgedEnum(Top, "declarations", ret # "failed", FALSE).name = Top.name
      BY <2>1, <2>2, <2>3, TopIsFrame, JudgedEnumFrame DEF Follows
    <2>5. Becomes(JudgedEnum(Top, "declarations", ret # "failed", FALSE))
      BY <1>1 DEF JudgedEnum
    <2>6. QED
      BY <1>1, <2>1, <2>2, <2>3, <2>4, <2>5, EatTurn
  <1>2. CASE At({"enum_declared"}) /\ Fails
    <2>1. stack # <<>> /\ Top.at \in {"enum_declared"}
      BY <1>2 DEF At
    <2>2. Top.at \notin Naming \cup {"start", "member_peeked"}
      BY <2>1 DEF Naming
    <2>3. QED
      BY <1>2, <2>1, <2>2, Failing
  <1>3. QED
    BY <1>1, <1>2 DEF EnumDeclared

LEMMA ClassDeclaredStep ==
    ASSUME IInv, ClassDeclared
    PROVE  IInv'
  <1>1. CASE At({"class_declared"}) /\ Eat
          /\ Becomes([Top EXCEPT !.at = "declarations", !.classTag = FALSE])
    <2>1. stack # <<>> /\ Top.at \in {"class_declared"}
      BY <1>1 DEF At
    <2>2. Follows(Top.at, "declarations") /\ "declarations" \in Labels
      BY <2>1 DEF Labels, Follows, Scoped, Declaring, Tagging, Naming, Balancing, Looking, Passing
    <2>3. FALSE \in BOOLEAN
      OBVIOUS
    <2>4. Retagged(Top, "declarations", FALSE) \in Frames
          /\ Retagged(Top, "declarations", FALSE).at = "declarations"
          /\ Retagged(Top, "declarations", FALSE).name = Top.name
      BY <2>1, <2>2, <2>3, TopIsFrame, RetaggedFrame DEF Follows
    <2>5. Becomes(Retagged(Top, "declarations", FALSE))
      BY <1>1 DEF Retagged
    <2>6. QED
      BY <1>1, <2>1, <2>2, <2>3, <2>4, <2>5, EatTurn
  <1>2. CASE At({"class_declared"}) /\ Eat /\ Goto("class_declared")
    <2>1. stack # <<>> /\ Top.at \in {"class_declared"}
      BY <1>2 DEF At
    <2>2. Follows(Top.at, "class_declared") /\ "class_declared" \in Labels
      BY <2>1 DEF Labels, Follows, Scoped, Declaring, Tagging, Naming, Balancing, Looking, Passing
    <2>3. QED
      BY <1>2, <2>1, <2>2, EatGoto
  <1>3. CASE At({"class_declared"}) /\ Fails
    <2>1. stack # <<>> /\ Top.at \in {"class_declared"}
      BY <1>3 DEF At
    <2>2. Top.at \notin Naming \cup {"start", "member_peeked"}
      BY <2>1 DEF Naming
    <2>3. QED
      BY <1>3, <2>1, <2>2, Failing
  <1>4. QED
    BY <1>1, <1>2, <1>3 DEF ClassDeclared

\* A tag that has failed has reported it.
LEMMA TaggedStep ==
    ASSUME IInv, Tagged
    PROVE  IInv'
  <1>1. CASE At({"class_tagged", "enum_tagged"}) /\ ret = "failed" /\ Quiet /\ Return("failed")
    <2>1. stack # <<>> /\ Top.at \in {"class_tagged", "enum_tagged"}
      BY <1>1 DEF At
    <2>2. "failed" \in Results /\ Top.at \notin Naming \cup Scoped \cup {"start", "member_peeked"}
      BY <2>1 DEF Results, Naming, Scoped
    <2>3. ~Untroubled
      BY <1>1, <2>1 DEF IInv, NothingFails, At, Passing
    <2>4. QED
      BY <1>1, <2>1, <2>2, <2>3, QuietReturn
  <1>2. CASE At({"class_tagged", "enum_tagged"}) /\ Quiet
          /\ Becomes([Top EXCEPT !.at = "declarations",
                                 !.classTag = @ \/ Top.at = "class_tagged",
                                 !.enumTag = @ \/ Top.at = "enum_tagged"])
    <2>1. stack # <<>> /\ Top.at \in {"class_tagged", "enum_tagged"}
      BY <1>2 DEF At
    <2>2. Follows(Top.at, "declarations") /\ "declarations" \in Labels
      BY <2>1 DEF Labels, Follows, Scoped, Declaring, Tagging, Naming, Balancing, Looking, Passing
    <2> DEFINE x == Top.classTag \/ Top.at = "class_tagged"
               y == Top.enumTag \/ Top.at = "enum_tagged"
               f == RetaggedBoth(Top, "declarations", x, y)
    <2>3. x \in BOOLEAN /\ y \in BOOLEAN
      OBVIOUS
    <2>4. Becomes(f)
      BY <1>2 DEF RetaggedBoth
    <2> HIDE DEF x, y
    <2>5. f \in Frames /\ f.at = "declarations" /\ f.name = Top.name
      BY <2>1, <2>2, <2>3, TopIsFrame, RetaggedBothFrame DEF Follows
    <2> HIDE DEF f
    <2>6. Top.at \notin {"start", "member_peeked"} /\ ("declarations" \in Clean => Top.at \in Clean)
      BY <2>1 DEF Clean, Tagging, Balancing, Templating
    <2>7. QED
      BY <1>2, <2>1, <2>2, <2>4, <2>5, <2>6, QuietTurn
  <1>3. QED
    BY <1>1, <1>2 DEF Tagged

LEMMA FunctionStep ==
    ASSUME IInv, Function
    PROVE  IInv'
  <1>1. CASE At({"identifier"}) /\ Eat /\ Call(Frame("balanced"), "function_body")
    <2>1. stack # <<>> /\ Top.at \in {"identifier"}
      BY <1>1 DEF At
    <2>2. Frame("balanced") \in Frames /\ Frame("balanced").at = "balanced"
      BY NewFrame DEF Labels, Scoped
    <2>3. CallsFor(Top.at, "function_body", "balanced") /\ "function_body" \in Labels
      BY <2>1 DEF Labels, CallsFor, Above, Scoped, Declaring, Tagging, Naming, Balancing, Looking,
             Passing, Templating, Clean
    <2>4. QED
      BY <1>1, <2>1, <2>2, <2>3, EatCall
  <1>2. CASE At({"identifier"}) /\ Eat /\ Goto("declarations")
    <2>1. stack # <<>> /\ Top.at \in {"identifier"}
      BY <1>2 DEF At
    <2>2. Follows(Top.at, "declarations") /\ "declarations" \in Labels
      BY <2>1 DEF Labels, Follows, Scoped, Declaring, Tagging, Naming, Balancing, Looking, Passing
    <2>3. QED
      BY <1>2, <2>1, <2>2, EatGoto
  <1>3. CASE At({"function_body"}) /\ Is("{") /\ Quiet /\ Call(Frame("balanced"), "declarations")
    <2>1. stack # <<>> /\ Top.at \in {"function_body"}
      BY <1>3 DEF At
    <2>2. Frame("balanced") \in Frames /\ Frame("balanced").at = "balanced"
      BY NewFrame DEF Labels, Scoped
    <2>3. CallsFor(Top.at, "declarations", "balanced") /\ "declarations" \in Labels
      BY <2>1 DEF Labels, CallsFor, Above, Scoped, Declaring, Tagging, Naming, Balancing, Looking,
             Passing, Templating, Clean
    <2>4. Top.at \notin {"start", "member_peeked"}
      BY <2>1
    <2>5. token.type \in (Keys \cup Punctuation \cup Keywords) \ {":"}
      BY <1>3 DEF Is, Punctuation
    <2>6. queue = <<>>
      BY <2>1, <2>5, WordIsAlone
    <2>7. QED
      BY <1>3, <2>1, <2>2, <2>3, <2>4, <2>5, <2>6, QuietCall
  <1>4. CASE At({"function_body"}) /\ Eat /\ Goto("declarations")
    <2>1. stack # <<>> /\ Top.at \in {"function_body"}
      BY <1>4 DEF At
    <2>2. Follows(Top.at, "declarations") /\ "declarations" \in Labels
      BY <2>1 DEF Labels, Follows, Scoped, Declaring, Tagging, Naming, Balancing, Looking, Passing
    <2>3. QED
      BY <1>4, <2>1, <2>2, EatGoto
  <1>5. CASE At({"function_body"}) /\ Quiet /\ Goto("declarations")
    <2>1. stack # <<>> /\ Top.at \in {"function_body"}
      BY <1>5 DEF At
    <2>2. Follows(Top.at, "declarations") /\ "declarations" \in Labels
      BY <2>1 DEF Labels, Follows, Scoped, Declaring, Tagging, Naming, Balancing, Looking, Passing
    <2>3. Top.at \notin {"start", "member_peeked"} /\ ("declarations" \in Clean => Top.at \in Clean)
      BY <2>1 DEF Clean, Tagging, Balancing, Templating
    <2>4. QED
      BY <1>5, <2>1, <2>2, <2>3, QuietGoto
  <1>6. QED
    BY <1>1, <1>2, <1>3, <1>4, <1>5 DEF Function

LEMMA TypedefStep ==
    ASSUME IInv, Typedef
    PROVE  IInv'
  <1>1. CASE At({"typedef"}) /\ Eat /\ Call(Frame("template"), "declarators")
    <2>1. stack # <<>> /\ Top.at \in {"typedef"}
      BY <1>1 DEF At
    <2>2. Frame("template") \in Frames /\ Frame("template").at = "template"
      BY NewFrame DEF Labels, Scoped
    <2>3. CallsFor(Top.at, "declarators", "template") /\ "declarators" \in Labels
      BY <2>1 DEF Labels, CallsFor, Above, Scoped, Declaring, Tagging, Naming, Balancing, Looking,
             Passing, Templating, Clean
    <2>4. QED
      BY <1>1, <2>1, <2>2, <2>3, EatCall
  <1>2. CASE At({"typedef"}) /\ Eat /\ Call(Frame("enum"), "declarators")
    <2>1. stack # <<>> /\ Top.at \in {"typedef"}
      BY <1>2 DEF At
    <2>2. Frame("enum") \in Frames /\ Frame("enum").at = "enum"
      BY NewFrame DEF Labels, Scoped
    <2>3. CallsFor(Top.at, "declarators", "enum") /\ "declarators" \in Labels
      BY <2>1 DEF Labels, CallsFor, Above, Scoped, Declaring, Tagging, Naming, Balancing, Looking,
             Passing, Templating, Clean
    <2>4. QED
      BY <1>2, <2>1, <2>2, <2>3, EatCall
  <1>3. CASE At({"typedef"}) /\ Eat /\ Call(Frame("class"), "declarators")
    <2>1. stack # <<>> /\ Top.at \in {"typedef"}
      BY <1>3 DEF At
    <2>2. Frame("class") \in Frames /\ Frame("class").at = "class"
      BY NewFrame DEF Labels, Scoped
    <2>3. CallsFor(Top.at, "declarators", "class") /\ "declarators" \in Labels
      BY <2>1 DEF Labels, CallsFor, Above, Scoped, Declaring, Tagging, Naming, Balancing, Looking,
             Passing, Templating, Clean
    <2>4. QED
      BY <1>3, <2>1, <2>2, <2>3, EatCall
  <1>4. CASE At({"typedef"}) /\ Quiet /\ Goto("declarators")
    <2>1. stack # <<>> /\ Top.at \in {"typedef"}
      BY <1>4 DEF At
    <2>2. Follows(Top.at, "declarators") /\ "declarators" \in Labels
      BY <2>1 DEF Labels, Follows, Scoped, Declaring, Tagging, Naming, Balancing, Looking, Passing
    <2>3. Top.at \notin {"start", "member_peeked"} /\ ("declarators" \in Clean => Top.at \in Clean)
      BY <2>1 DEF Clean, Tagging, Balancing, Templating
    <2>4. QED
      BY <1>4, <2>1, <2>2, <2>3, QuietGoto
  <1>5. CASE At({"declarators"}) /\ Quiet /\ Return("done")
    <2>1. stack # <<>> /\ Top.at \in {"declarators"}
      BY <1>5 DEF At
    <2>2. "done" \in Results /\ Top.at \notin Naming \cup Scoped \cup {"start", "member_peeked"}
      BY <2>1 DEF Results, Naming, Scoped
    <2>3. QED
      BY <1>5, <2>1, <2>2, QuietReturn
  <1>6. CASE At({"declarators"}) /\ Eat /\ Goto("declarators")
    <2>1. stack # <<>> /\ Top.at \in {"declarators"}
      BY <1>6 DEF At
    <2>2. Follows(Top.at, "declarators") /\ "declarators" \in Labels
      BY <2>1 DEF Labels, Follows, Scoped, Declaring, Tagging, Naming, Balancing, Looking, Passing
    <2>3. QED
      BY <1>6, <2>1, <2>2, EatGoto
  <1>7. CASE At({"type_defined"}) /\ Eat /\ Goto("declarations")
    <2>1. stack # <<>> /\ Top.at \in {"type_defined"}
      BY <1>7 DEF At
    <2>2. Follows(Top.at, "declarations") /\ "declarations" \in Labels
      BY <2>1 DEF Labels, Follows, Scoped, Declaring, Tagging, Naming, Balancing, Looking, Passing
    <2>3. QED
      BY <1>7, <2>1, <2>2, EatGoto
  <1>8. QED
    BY <1>1, <1>2, <1>3, <1>4, <1>5, <1>6, <1>7 DEF Typedef

LEMMA AnonymusStep ==
    ASSUME IInv, AnonymusNamespace
    PROVE  IInv'
  <1>1. CASE At({"namespace"}) /\ Eat /\ Call(Body, "anonymous_end")
    <2>1. stack # <<>> /\ Top.at \in {"namespace"}
      BY <1>1 DEF At
    <2>2. CallsFor(Top.at, "anonymous_end", "declarations") /\ "anonymous_end" \in Labels
      BY <2>1 DEF Labels, CallsFor, Above, Scoped, Declaring, Tagging, Naming, Balancing, Looking,
             Passing, Templating, Clean
    <2>3. QED
      BY <1>1, <2>1, <2>2, BodyFrame, EatCall
  <1>2. CASE At({"anonymous_end"}) /\ Eat /\ Return("done")
    <2>1. stack # <<>> /\ Top.at \in {"anonymous_end"}
      BY <1>2 DEF At
    <2>2. "done" \in Results /\ Top.at \notin Naming \cup Scoped
      BY <2>1 DEF Results, Naming, Scoped
    <2>3. QED
      BY <1>2, <2>1, <2>2, EatReturn
  <1>3. CASE /\ At({"anonymous_end"})
             /\ Silent /\ UNCHANGED tableVars /\ Goto("namespace_name")
             /\ reported' = (reported \/ ret # "failed")
             /\ UNCHANGED <<taggedOnly, header, asserted>>
    <2>1. stack # <<>> /\ Top.at = "anonymous_end" /\ ret' \in Results
      BY <1>3, ResultStays DEF At, Goto, Becomes
    <2>2. Follows(Top.at, "namespace_name") /\ "namespace_name" \in Labels
          /\ "namespace_name" \notin Clean
      BY <2>1 DEF Labels, Follows, Scoped, Declaring, Tagging, Naming, Balancing, Looking, Passing,
         Clean, Templating
    <2>3. reported' \in BOOLEAN /\ asserted' \in BOOLEAN /\ taggedOnly' = taggedOnly
          /\ (reported => reported') /\ (asserted => asserted')
      BY <1>3 DEF IInv, MarksOK
    <2>4. Goes /\ SameScopes /\ token' = token /\ queue' = queue
      BY <1>3, <2>1, <2>3, SilentGoes
    <2>5. QED
      BY <1>3, <2>1, <2>2, <2>4, AheadStays, GotoStep
  <1>4. QED
    BY <1>1, <1>2, <1>3 DEF AnonymusNamespace

-----------------------------------------------------------------------------
(* Actions that set a type, open a scope or leave it *)

\* A look up finds a scope, if there is one of that name near the current one.
LEMMA LookUpFinds ==
    ASSUME TableOK, NEW name \in ScopeNames, IsNear(name, curr, scopes)
    PROVE  LookUpNamedScope(name) \in scopes
  <1> DEFINE having == {s \in T!Enclosing(curr) : Append(s, name) \in scopes}
             lengths == {Len(s) : s \in having}
  <1>1. Len(curr) \in Nat /\ \A n \in 0..Len(curr) : Len(SubSeq(curr, 1, n)) = n
    <2>1. curr \in Paths
      BY DEF TableOK, TreeOK
    <2>2. QED
      BY <2>1 DEF Paths
  <1>2. having # {}
    BY DEF IsNear
  <1>3. \A s \in having : Len(s) \in 0..Len(curr)
    BY <1>1 DEF T!Enclosing
  <1>4. lengths \in SUBSET (0..Len(curr)) /\ lengths # {}
    BY <1>2, <1>3
  <1>5. PICK m \in lengths : \A k \in lengths : k <= m
    <2> HIDE DEF lengths
    <2>1. QED
      BY <1>1, <1>4, LargestNumber
  <1>6. \E s \in having : \A t \in having : Len(t) <= Len(s)
    BY <1>5
  <1>7. T!Innermost(having) \in having
    BY <1>6 DEF T!Innermost
  <1>8. QED
    BY <1>7 DEF LookUpNamedScope

LEMMA TypeIsType ==
    ASSUME IInv, stack # <<>>, NEW kind \in Kinds, NEW tagged \in BOOLEAN, NEW members
    PROVE  IsType(Type(kind, tagged, members))
  BY TopIsFrame DEF Type, IsType

LEMMA SettingKeepsTypes ==
    ASSUME TypesOK, NEW s \in scopes', NEW r, IsType(r), SetType(s, r), scopes \subseteq scopes'
    PROVE  TypesOK'
  <1>1. DOMAIN types' = DOMAIN types \cup {s}
        /\ \A t \in DOMAIN types' : types'[t] = IF t = s THEN r ELSE types[t]
    BY DEF SetType, T!Extended
  <1>2. \A t \in DOMAIN types' : IsType(types'[t])
    BY <1>1 DEF TypesOK
  <1>3. QED
    BY <1>1, <1>2 DEF TypesOK, IsType, Sections

LEMMA TypesStay ==
    ASSUME TypesOK, types' = types, scopes \subseteq scopes'
    PROVE  TypesOK'
  BY DEF TypesOK, IsType, Sections

\* A declaration that is only announced, and a field that is found.
LEMMA FieldsKeepTypes ==
    ASSUME TypesOK, scopes' = scopes, NEW s, NEW value,
           \/ types' = [types EXCEPT ![s].forward = TRUE]
           \/ types' = [types EXCEPT ![s].members = value]
    PROVE  TypesOK'
  <1>1. ASSUME NEW r, IsType(r)
        PROVE  IsType([r EXCEPT !.forward = TRUE]) /\ IsType([r EXCEPT !.members = value])
    BY <1>1 DEF IsType
  <1>2. DOMAIN types' = DOMAIN types
    OBVIOUS
  <1>3. ASSUME NEW t \in DOMAIN types
        PROVE  IsType(types'[t])
    <2>1. IsType(types[t])
      BY DEF TypesOK
    <2>2. \/ types'[t] = types[t]
          \/ types'[t] = [types[t] EXCEPT !.forward = TRUE]
          \/ types'[t] = [types[t] EXCEPT !.members = value]
      OBVIOUS
    <2>3. QED
      BY <1>1, <2>1, <2>2
  <1>4. QED
    BY <1>2, <1>3 DEF TypesOK, IsType, Sections

\* What is read meanwhile.
LEMMA EatReads ==
    ASSUME IInv, L!GetNextToken
    PROVE  Reads /\ queue' = <<>> /\ AheadBack /\ \A b : Ahead(b)
  BY GetStep DEF IInv, AheadBack, Ahead

LEMMA SilentReads ==
    ASSUME IInv, stack # <<>>, Top.at \notin {"start", "member_peeked"}, Silent
    PROVE  /\ Reads /\ token' = token /\ queue' = queue /\ AheadBack
           /\ \A b : (b \in Clean => Top.at \in Clean) => Ahead(b)
  <1>1. Reads /\ token' = token /\ queue' = queue
    BY QuietStep, NotInvalid DEF IInv, Silent, lexerVars
  <1>2. QED
    BY <1>1, AheadStays

LEMMA ModeReads ==
    ASSUME IInv, stack # <<>>, Top.at \notin {"start", "member_peeked"}, NEW state \in BOOLEAN,
           L!SetTemplateArgsParsingMode(state) \/ L!SetMetaTagParsingMode(state)
    PROVE  /\ Reads /\ token' = token /\ queue' = queue /\ AheadBack
           /\ \A b : (b \in Clean => Top.at \in Clean) => Ahead(b)
  <1>1. Reads /\ queue' = queue
    BY ModeStep, NotInvalid DEF IInv
  <1>2. token' = token
    BY DEF L!SetTemplateArgsParsingMode, L!SetMetaTagParsingMode
  <1>3. QED
    BY <1>1, <1>2, AheadStays

LEMMA MarksStay ==
    ASSUME MarksOK, Reads, TypesOK', taggedOnly' = taggedOnly, lost' \in BOOLEAN,
           reported' \in BOOLEAN, asserted' \in BOOLEAN, reported => reported',
           asserted => asserted', ret' \in Results
    PROVE  Goes
  BY DEF MarksOK, Goes, Results

LEMMA ScopesStay ==
    ASSUME TableOK, UNCHANGED scopeVars
    PROVE  TableOK' /\ curr' = curr /\ scopes' = scopes
  BY SMTT(30) DEF TableOK, TreeOK, WalkOK, scopeVars, T!Parent

LEMMA CurrIsAround ==
    ASSUME NEW s \in Paths, NEW name \in ScopeNames
    PROVE  s \in T!Enclosing(s) /\ s \in T!Enclosing(Append(s, name))
  <1>1. Len(s) \in Nat /\ SubSeq(s, 1, Len(s)) = s
    BY SMTT(30) DEF Paths
  <1>2. s \in T!Enclosing(s)
    <2>1. Len(s) \in 0..Len(s)
      BY <1>1
    <2>2. QED
      BY <1>1, <2>1 DEF T!Enclosing
  <1>3. SubSeq(Append(s, name), 1, Len(Append(s, name)) - 1) = s
        /\ Len(Append(s, name)) = Len(s) + 1
    BY LongerPath DEF T!Parent
  <1>4. Len(Append(s, name)) - 1 \in 0..Len(Append(s, name))
    BY <1>1, <1>3, SMTT(30)
  <1>5. s \in T!Enclosing(Append(s, name))
    BY <1>3, <1>4 DEF T!Enclosing
  <1>6. QED
    BY <1>2, <1>5

LEMMA CreatingKeepsTable ==
    ASSUME IInv, NEW name \in ScopeNames, CreateScope(name)
    PROVE  /\ TableOK' /\ scopes \subseteq scopes' /\ lost' = lost
           /\ curr' = IF Append(curr, name) \in scopes THEN curr ELSE Append(curr, name)
           /\ IsNear(name, curr', scopes')
  <1>1. /\ TableOK' /\ scopes \subseteq scopes' /\ Append(curr, name) \in scopes'
        /\ curr' = IF Append(curr, name) \in scopes THEN curr ELSE Append(curr, name)
    BY CreateStep DEF IInv, CreateScope
  <1>2. curr \in T!Enclosing(curr')
    BY <1>1, CurrIsAround DEF IInv, TableOK, TreeOK
  <1>3. QED
    BY <1>1, <1>2 DEF IsNear, CreateScope

LEMMA LeavingKeepsTable ==
    ASSUME IInv, ExitScope
    PROVE  TableOK' /\ scopes' = scopes /\ lost' \in BOOLEAN
  <1>1. CASE UNCHANGED scopeVars /\ lost' = TRUE
    <2>1. QED
      BY <1>1, ScopesStay DEF IInv
  <1>2. CASE T!ExitScope /\ lost' = lost
    BY <1>2, ExitStep DEF IInv, MarksOK
  <1>3. QED
    BY <1>1, <1>2 DEF ExitScope

\* The call on top is behind the opening of the scope of this name.
Opened(f, b, name) == [f EXCEPT !.at = b, !.name = name]

LEMMA OpenedFrame ==
    ASSUME NEW f \in Frames, NEW b \in Labels, b \in Scoped,
           NEW name \in ScopeNames, name # <<>>
    PROVE  /\ Opened(f, b, name) \in Frames
           /\ Opened(f, b, name).at = b
           /\ Opened(f, b, name).name = name
  BY DEF Frames, Opened

LEMMA Opening ==
    ASSUME IInv, stack # <<>>, NEW b \in Labels, b \in Scoped \ Passing,
           NEW name \in ScopeNames, name # <<>>,
           Top.at \notin Scoped \cup Declaring \cup Tagging \cup Naming
                         \cup Balancing \cup {"start"},
           Becomes(Opened(Top, b, name)), Reads, Ahead(b), types' = types,
           taggedOnly' = taggedOnly, reported' = reported, asserted' \in BOOLEAN,
           asserted => asserted', lost' = lost,
           TableOK', scopes \subseteq scopes', IsNear(name, curr', scopes'),
           ~asserted' => curr' = Append(curr, name)
    PROVE  IInv'
  <1> DEFINE f == Opened(Top, b, name)
  <1>1. f \in Frames /\ f.at = b /\ f.name = name
    BY TopIsFrame, OpenedFrame
  <1>2. TypesOK'
    BY TypesStay DEF IInv
  <1>3. ret' \in Results /\ lost' \in BOOLEAN /\ reported' \in BOOLEAN
    BY ResultStays DEF Becomes, IInv, MarksOK
  <1>4. Goes
    BY <1>2, <1>3, MarksStay DEF IInv
  <1>5. stack' = Append(Under, f)
    BY DEF Becomes
  <1>6. Untroubled' => curr' = Append(curr, f.name) /\ lost' = lost
    BY <1>1 DEF Untroubled
  <1> HIDE DEF f
  <1>7. QED
    BY <1>1, <1>4, <1>5, <1>6, OpenStep

\* The call on top leaves its scope and returns.
LEMMA Leaving ==
    ASSUME IInv, stack # <<>>, Top.at \in Scoped, AheadBack, Reads, ExitScope, TypesOK',
           stack' = Under, ret' \in Results, taggedOnly' = taggedOnly, asserted' = asserted,
           reported' \in BOOLEAN, reported => reported'
    PROVE  IInv'
  <1>1. Top.at \in Scoped \ Naming /\ FailsLoudly(Top.at)
    BY DEF Scoped, Naming, Declaring, Tagging, FailsLoudly
  <1>2. lost' \in BOOLEAN
    BY LeavingKeepsTable
  <1>3. asserted' \in BOOLEAN
    BY DEF IInv, MarksOK
  <1>4. Goes
    BY <1>2, <1>3, MarksStay DEF IInv
  <1>5. QED
    BY <1>1, <1>4, LeaveStep

LEMMA TopIsNear ==
    ASSUME IInv, stack # <<>>, Top.at \in Looking
    PROVE  LookUpNamedScope(Top.name) \in scopes
  <1>1. Len(stack) \in 1..Len(stack)
    BY OpenCalls DEF IInv
  <1>2. IsNear(Top.name, curr, scopes)
    BY <1>1 DEF IInv, LookingOK, Top
  <1>3. QED
    BY <1>2, TopIsFrame, LookUpFinds DEF IInv

LEMMA SettingType ==
    ASSUME IInv, stack # <<>>, Top.at \in Looking, NEW r, IsType(r),
           SetType(LookUpNamedScope(Top.name), r), scopes' = scopes
    PROVE  TypesOK'
  BY TopIsNear, SettingKeepsTypes DEF IInv

LEMMA NameOfWord ==
    ASSUME IInv, IsId
    PROVE  <<Word>> \in ScopeNames /\ <<Word>> # <<>>
  <1>1. Word \in Words
    BY WordIsId DEF IInv
  <1>2. QED
    BY <1>1 DEF ScopeNames

LEMMA OpenNamespaceStep ==
    ASSUME IInv, OpenNamespace
    PROVE  IInv'
  <1>1. CASE At({"namespace", "namespace_name"}) /\ Fails
    <2>1. stack # <<>> /\ Top.at \in {"namespace", "namespace_name"}
      BY <1>1 DEF At
    <2>2. Top.at \notin Naming \cup {"start", "member_peeked"}
      BY <2>1 DEF Naming
    <2>3. QED
      BY <1>1, <2>1, <2>2, Failing
  <1>2. CASE /\ At({"namespace", "namespace_name"})
             /\ IsId /\ CreateScope(<<Word>>) /\ UNCHANGED types
             /\ Silent /\ Return("failed") /\ Asserts
    <2>1. stack # <<>> /\ Top.at \in {"namespace", "namespace_name"}
      BY <1>2 DEF At
    <2>2. Top.at \notin Naming \cup {"start", "member_peeked"}
      BY <2>1 DEF Naming
    <2>3. TableOK' /\ scopes \subseteq scopes' /\ lost' = lost
      BY <1>2, NameOfWord, CreatingKeepsTable
    <2>4. TypesOK'
      BY <1>2, <2>3, TypesStay DEF IInv
    <2>5. Reads /\ AheadBack
      BY <1>2, <2>1, <2>2, SilentReads
    <2>6. /\ lost' \in BOOLEAN /\ reported' \in BOOLEAN /\ asserted' \in BOOLEAN /\ asserted'
          /\ taggedOnly' = taggedOnly /\ reported' = reported
      BY <1>2, <2>3 DEF IInv, MarksOK, Asserts
    <2>7. ret' \in Results /\ stack' = Under
      BY <1>2 DEF Return, Results
    <2>8. Goes
      BY <2>4, <2>5, <2>6, <2>7, MarksStay DEF IInv
    <2>9. ~Untroubled'
      BY <2>6 DEF Untroubled
    <2>10. QED
      BY <2>1, <2>2, <2>3, <2>5, <2>7, <2>8, <2>9, FailStep
  <1>3. CASE /\ At({"namespace", "namespace_name"})
             /\ IsId /\ Append(curr, <<Word>>) \notin scopes
             /\ CreateScope(<<Word>>) /\ UNCHANGED types
             /\ L!GetNextToken /\ UNCHANGED marks
             /\ Becomes([Top EXCEPT !.at = "namespace_brace", !.name = <<Word>>])
    <2>1. stack # <<>> /\ Top.at \in {"namespace", "namespace_name"}
      BY <1>3 DEF At
    <2>2. Top.at \notin Scoped \cup Declaring \cup Tagging \cup Naming \cup Balancing \cup {"start"}
      BY <2>1 DEF Scoped, Declaring, Tagging, Naming, Balancing
    <2>3. "namespace_brace" \in Labels /\ "namespace_brace" \in Scoped \ Passing
      BY DEF Labels, Scoped, Passing
    <2>4. <<Word>> \in ScopeNames /\ <<Word>> # <<>>
      BY <1>3, NameOfWord
    <2>5. /\ TableOK' /\ scopes \subseteq scopes' /\ lost' = lost /\ curr' = Append(curr, <<Word>>)
          /\ IsNear(<<Word>>, curr', scopes')
      BY <1>3, <2>4, CreatingKeepsTable
    <2>6. Reads /\ Ahead("namespace_brace")
      BY <1>3, EatReads
    <2>7. /\ asserted' \in BOOLEAN /\ asserted' = asserted /\ reported' = reported
          /\ taggedOnly' = taggedOnly /\ types' = types
      BY <1>3 DEF IInv, MarksOK, marks
    <2>8. Becomes(Opened(Top, "namespace_brace", <<Word>>))
      BY <1>3 DEF Opened
    <2>9. QED
      BY <2>1, <2>2, <2>3, <2>4, <2>5, <2>6, <2>7, <2>8, Opening
  <1>4. QED
    BY <1>1, <1>2, <1>3 DEF OpenNamespace

LEMMA NamespaceStep ==
    ASSUME IInv, NamedNamespace
    PROVE  IInv'
  <1>1. CASE OpenNamespace
    BY <1>1, OpenNamespaceStep
  <1>2. CASE At({"namespace_brace"}) /\ Fails
    <2>1. stack # <<>> /\ Top.at \in {"namespace_brace"}
      BY <1>2 DEF At
    <2>2. Top.at \notin Naming \cup {"start", "member_peeked"}
      BY <2>1 DEF Naming
    <2>3. QED
      BY <1>2, <2>1, <2>2, Failing
  <1>3. CASE /\ At({"namespace_brace"})
             /\ L!GetNextToken /\ UNCHANGED <<scopeVars, lost, marks>>
             /\ SetType(LookUpNamedScope(Top.name), Type("namespace", FALSE, <<>>))
             /\ Call(Body, "namespace_end")
    <2>1. stack # <<>> /\ Top.at \in {"namespace_brace"}
      BY <1>3 DEF At
    <2>2. CallsFor(Top.at, "namespace_end", "declarations") /\ "namespace_end" \in Labels
      BY <2>1 DEF Labels, CallsFor, Above, Scoped, Declaring, Tagging, Naming, Balancing, Looking,
             Passing, Templating, Clean
    <2>3. Reads /\ Ahead("declarations")
      BY <1>3, EatReads
    <2>4. SameScopes /\ scopes' = scopes
      BY <1>3 DEF SameScopes, scopeVars
    <2>5. TypesOK'
      <3>1. IsType(Type("namespace", FALSE, <<>>)) /\ Top.at \in Looking
        BY <2>1, TypeIsType DEF Kinds, Looking
      <3>2. QED
        BY <1>3, <2>1, <2>4, <3>1, SettingType
    <2>6. Goes
      <3>1. ret' \in Results
        BY <1>3, ResultStays DEF Call
      <3>2. /\ asserted' \in BOOLEAN /\ asserted' = asserted /\ reported' = reported
            /\ taggedOnly' = taggedOnly /\ reported' \in BOOLEAN /\ lost' \in BOOLEAN
        BY <1>3 DEF IInv, MarksOK, marks
      <3>3. QED
        BY <2>3, <2>5, <3>1, <3>2, MarksStay DEF IInv
    <2>7. QED
      BY <1>3, <2>1, <2>2, <2>3, <2>4, <2>6, BodyFrame, CallsStep
  <1>4. CASE At({"namespace_end"}) /\ ret = "failed" /\ Quiet /\ Return("failed")
    <2>1. stack # <<>> /\ Top.at \in {"namespace_end"}
      BY <1>4 DEF At
    <2>2. Top.at \notin Naming \cup {"start", "member_peeked"}
      BY <2>1 DEF Naming
    <2>3. ret' \in Results /\ stack' = Under
      BY <1>4 DEF Return, Results
    <2>4. Goes /\ SameScopes /\ token' = token /\ queue' = queue
      BY <1>4, <2>1, <2>2, <2>3, QuietGoes
    <2>5. ~Untroubled'
      <3>1. ~Untroubled
        BY <1>4, <2>1 DEF IInv, NothingFails, At, Passing
      <3>2. QED
        BY <2>4, <3>1, TroubleStays
    <2>6. TableOK' /\ AheadBack
      BY <2>1, <2>2, <2>4, TableStays, AheadStays DEF IInv
    <2>7. QED
      BY <2>1, <2>2, <2>3, <2>4, <2>5, <2>6, FailStep
  <1>5. CASE At({"namespace_end"}) /\ Fails
    <2>1. stack # <<>> /\ Top.at \in {"namespace_end"}
      BY <1>5 DEF At
    <2>2. Top.at \notin Naming \cup {"start", "member_peeked"}
      BY <2>1 DEF Naming
    <2>3. QED
      BY <1>5, <2>1, <2>2, Failing
  <1>6. CASE /\ At({"namespace_end"})
             /\ L!GetNextToken /\ ExitScope /\ UNCHANGED <<types, marks>>
             /\ Return("done")
    <2>1. stack # <<>> /\ Top.at \in {"namespace_end"}
      BY <1>6 DEF At
    <2>2. Top.at \in Scoped
      BY <2>1 DEF Scoped
    <2>3. Reads /\ AheadBack
      BY <1>6, EatReads
    <2>4. TypesOK'
      BY <1>6, LeavingKeepsTable, TypesStay DEF IInv
    <2>5. ret' \in Results /\ stack' = Under
      BY <1>6 DEF Return, Results
    <2>6. /\ taggedOnly' = taggedOnly /\ asserted' = asserted /\ reported' = reported
          /\ reported' \in BOOLEAN
      BY <1>6 DEF IInv, MarksOK, marks
    <2>7. QED
      BY <1>6, <2>1, <2>2, <2>3, <2>4, <2>5, <2>6, Leaving
  <1>7. QED
    BY <1>1, <1>2, <1>3, <1>4, <1>5, <1>6 DEF NamedNamespace

LEMMA TemplateArgumentsStep ==
    ASSUME IInv, TemplateArguments
    PROVE  IInv'
  <1>1. CASE /\ At({"template"})
             /\ L!SetTemplateArgsParsingMode(TRUE) /\ NoTable
             /\ Call(Frame("balanced"), "template_arguments")
    <2>1. stack # <<>> /\ Top.at \in {"template"}
      BY <1>1 DEF At
    <2>2. CallsFor(Top.at, "template_arguments", "balanced") /\ "template_arguments" \in Labels
      BY <2>1 DEF Labels, CallsFor, Above, Scoped, Declaring, Tagging, Naming, Balancing, Looking,
             Passing, Templating, Clean
    <2>3. Frame("balanced") \in Frames /\ Frame("balanced").at = "balanced"
      BY NewFrame DEF Labels, Scoped
    <2>4. Top.at \notin {"start", "member_peeked"} /\ Top.at \in Clean
      BY <2>1 DEF Clean
    <2>5. Ahead("balanced")
      BY <1>1, <2>1, <2>4, ModeReads
    <2>6. Goes /\ SameScopes
      BY <1>1, <2>1, <2>4, ResultStays, ModeGoes DEF Call
    <2>7. QED
      BY <1>1, <2>1, <2>2, <2>3, <2>5, <2>6, CallsStep
  <1>2. CASE /\ At({"template_arguments"})
             /\ L!SetTemplateArgsParsingMode(FALSE) /\ NoTable
             /\ Goto("template_of")
    <2>1. stack # <<>> /\ Top.at \in {"template_arguments"}
      BY <1>2 DEF At
    <2>2. Follows(Top.at, "template_of") /\ "template_of" \in Labels
      BY <2>1 DEF Labels, Follows, Scoped, Declaring, Tagging, Naming, Balancing, Looking, Passing
    <2>3. Top.at \notin {"start", "member_peeked"} /\ Top.at \in Clean
      BY <2>1 DEF Clean, Templating
    <2>4. Ahead("template_of")
      BY <1>2, <2>1, <2>3, ModeReads
    <2>5. Goes /\ SameScopes
      BY <1>2, <2>1, <2>3, ResultStays, ModeGoes DEF Goto, Becomes
    <2>6. QED
      BY <1>2, <2>1, <2>2, <2>4, <2>5, GotoStep
  <1>3. QED
    BY <1>1, <1>2 DEF TemplateArguments

LEMMA TemplateStep ==
    ASSUME IInv, TemplateDeclaration
    PROVE  IInv'
  <1>1. CASE At({"template_of"}) /\ Eat /\ Becomes(Frame("class"))
    <2>1. stack # <<>> /\ Top.at \in {"template_of"}
      BY <1>1 DEF At
    <2>2. Frame("class") \in Frames /\ Frame("class").at = "class" /\ Frame("class").name = <<>>
      BY NewFrame DEF Labels, Scoped
    <2>3. Follows(Top.at, "class") /\ Top.at \notin Scoped
      BY <2>1 DEF Labels, Follows, Scoped, Declaring, Tagging, Naming, Balancing, Looking, Passing
    <2>4. Top.name = <<>>
      BY <2>1, <2>3, TopIsFrame
    <2>5. QED
      BY <1>1, <2>1, <2>2, <2>3, <2>4, EatTurn
  <1>2. CASE At({"template_of", "alias"}) /\ Eat /\ Return("done")
    <2>1. stack # <<>> /\ Top.at \in {"template_of", "alias"}
      BY <1>2 DEF At
    <2>2. "done" \in Results /\ Top.at \notin Naming \cup Scoped
      BY <2>1 DEF Results, Naming, Scoped
    <2>3. QED
      BY <1>2, <2>1, <2>2, EatReturn
  <1>3. CASE At({"template_of", "alias"}) /\ Eat /\ Return("failed")
    <2>1. stack # <<>> /\ Top.at \in {"template_of", "alias"}
      BY <1>3 DEF At
    <2>2. "failed" \in Results /\ Top.at \notin Naming \cup Scoped
      BY <2>1 DEF Results, Naming, Scoped
    <2>3. Top.at \notin Declaring \cup Tagging
      BY <2>1 DEF Declaring, Tagging
    <2>4. QED
      BY <1>3, <2>1, <2>2, <2>3, EatReturn
  <1>4. CASE At({"template_of", "alias"}) /\ Eat /\ Goto("alias")
    <2>1. stack # <<>> /\ Top.at \in {"template_of", "alias"}
      BY <1>4 DEF At
    <2>2. Follows(Top.at, "alias") /\ "alias" \in Labels
      BY <2>1 DEF Labels, Follows, Scoped, Declaring, Tagging, Naming, Balancing, Looking, Passing
    <2>3. QED
      BY <1>4, <2>1, <2>2, EatGoto
  <1>5. CASE At({"template_of", "template_function_name"}) /\ Quiet
          /\ Call(Frame("balanced"), "template_function")
    <2>1. stack # <<>> /\ Top.at \in {"template_of", "template_function_name"}
      BY <1>5 DEF At
    <2>2. Frame("balanced") \in Frames /\ Frame("balanced").at = "balanced"
      BY NewFrame DEF Labels, Scoped
    <2>3. CallsFor(Top.at, "template_function", "balanced") /\ "template_function" \in Labels
      BY <2>1 DEF Labels, CallsFor, Above, Scoped, Declaring, Tagging, Naming, Balancing, Looking,
             Passing, Templating, Clean
    <2>4. Top.at \notin {"start", "member_peeked"}
      BY <2>1
    <2>5. Top.at \in Clean
      BY <2>1 DEF Clean, Tagging, Balancing, Templating
    <2>6. QED
      BY <1>5, <2>1, <2>2, <2>3, <2>4, <2>5, QuietCall
  <1>6. CASE At({"template_of", "template_function_name"}) /\ Eat /\ Goto("template_function_name")
    <2>1. stack # <<>> /\ Top.at \in {"template_of", "template_function_name"}
      BY <1>6 DEF At
    <2>2. Follows(Top.at, "template_function_name") /\ "template_function_name" \in Labels
      BY <2>1 DEF Labels, Follows, Scoped, Declaring, Tagging, Naming, Balancing, Looking, Passing
    <2>3. QED
      BY <1>6, <2>1, <2>2, EatGoto
  <1>7. CASE At({"template_function"}) /\ Eat /\ Return("done")
    <2>1. stack # <<>> /\ Top.at \in {"template_function"}
      BY <1>7 DEF At
    <2>2. "done" \in Results /\ Top.at \notin Naming \cup Scoped
      BY <2>1 DEF Results, Naming, Scoped
    <2>3. QED
      BY <1>7, <2>1, <2>2, EatReturn
  <1>8. CASE At({"template_function"}) /\ Quiet
          /\ Call(Frame("balanced"), "template_function_body")
    <2>1. stack # <<>> /\ Top.at \in {"template_function"}
      BY <1>8 DEF At
    <2>2. Frame("balanced") \in Frames /\ Frame("balanced").at = "balanced"
      BY NewFrame DEF Labels, Scoped
    <2>3. CallsFor(Top.at, "template_function_body", "balanced")
          /\ "template_function_body" \in Labels
      BY <2>1 DEF Labels, CallsFor, Above, Scoped, Declaring, Tagging, Naming, Balancing, Looking,
             Passing, Templating, Clean
    <2>4. Top.at \notin {"start", "member_peeked"}
      BY <2>1
    <2>5. Top.at \in Clean
      BY <2>1 DEF Clean, Tagging, Balancing, Templating
    <2>6. QED
      BY <1>8, <2>1, <2>2, <2>3, <2>4, <2>5, QuietCall
  <1>9. CASE At({"template_function_body"}) /\ Quiet /\ Return("done")
    <2>1. stack # <<>> /\ Top.at \in {"template_function_body"}
      BY <1>9 DEF At
    <2>2. "done" \in Results /\ Top.at \notin Naming \cup Scoped \cup {"start", "member_peeked"}
      BY <2>1 DEF Results, Naming, Scoped
    <2>3. QED
      BY <1>9, <2>1, <2>2, QuietReturn
  <1>10. CASE At({"template_function_body"}) /\ Quiet /\ Return("failed")
    <2>1. stack # <<>> /\ Top.at \in {"template_function_body"}
      BY <1>10 DEF At
    <2>2. "failed" \in Results /\ Top.at \notin Naming \cup Scoped \cup {"start", "member_peeked"}
      BY <2>1 DEF Results, Naming, Scoped
    <2>3. Top.at \notin Declaring \cup Tagging
      BY <2>1 DEF Declaring, Tagging
    <2>4. QED
      BY <1>10, <2>1, <2>2, <2>3, QuietReturn
  <1>11. QED
    BY <1>1, <1>2, <1>3, <1>4, <1>5, <1>6, <1>7, <1>8, <1>9, <1>10 DEF TemplateDeclaration,
       ReturnAnything, At

LEMMA ForwardIsType ==
    ASSUME NEW r, IsType(r), NEW b \in BOOLEAN
    PROVE  IsType([r EXCEPT !.forward = b])
  BY DEF IsType

\* The type behind the enumerators.
LEMMA ClosingEnum ==
    ASSUME IInv, stack # <<>>, Top.at \in Looking \cap Scoped, NEW forward \in BOOLEAN,
           CloseEnum(forward), Reads, AheadBack
    PROVE  IInv'
  <1> DEFINE r == [Type("enum", Top.enumTag, Top.members) EXCEPT !.forward = forward]
  <1>1. Top.enumTag \in BOOLEAN
    BY TopIsFrame
  <1>2. IsType(Type("enum", Top.enumTag, Top.members))
    BY <1>1, TypeIsType DEF Kinds
  <1>3. IsType(r)
    BY <1>2, ForwardIsType
  <1>4. SetType(LookUpNamedScope(Top.name), r) /\ ExitScope
    BY DEF CloseEnum
  <1> HIDE DEF r
  <1>5. scopes' = scopes
    BY <1>4, LeavingKeepsTable
  <1>6. TypesOK'
    BY <1>3, <1>4, <1>5, SettingType
  <1>7. ret' \in Results /\ stack' = Under
    BY DEF CloseEnum, Return, Results
  <1>8. /\ taggedOnly' = taggedOnly /\ asserted' = asserted /\ reported' = reported
        /\ reported' \in BOOLEAN
    BY DEF CloseEnum, IInv, MarksOK, marks
  <1>9. QED
    BY <1>4, <1>6, <1>7, <1>8, Leaving

LEMMA OpenEnumStep ==
    ASSUME IInv, OpenEnum
    PROVE  IInv'
  <1>1. CASE At({"enum"}) /\ Eat /\ Goto("enum_name")
    <2>1. stack # <<>> /\ Top.at \in {"enum"}
      BY <1>1 DEF At
    <2>2. Follows(Top.at, "enum_name") /\ "enum_name" \in Labels
      BY <2>1 DEF Labels, Follows, Scoped, Declaring, Tagging, Naming, Balancing, Looking, Passing
    <2>3. QED
      BY <1>1, <2>1, <2>2, EatGoto
  <1>2. CASE At({"enum", "enum_name"}) /\ Fails
    <2>1. stack # <<>> /\ Top.at \in {"enum", "enum_name"}
      BY <1>2 DEF At
    <2>2. Top.at \notin Naming \cup {"start", "member_peeked"}
      BY <2>1 DEF Naming
    <2>3. QED
      BY <1>2, <2>1, <2>2, Failing
  <1>3. CASE /\ At({"enum", "enum_name"})
             /\ IsId
             /\ CreateScope(<<Word>>) /\ UNCHANGED types
             /\ L!GetNextToken
             /\ Becomes([Top EXCEPT !.at = "enum_base", !.name = <<Word>>])
             /\ asserted' = (asserted \/ Append(curr, <<Word>>) \in scopes)
             /\ UNCHANGED <<taggedOnly, header, reported>>
    <2>1. stack # <<>> /\ Top.at \in {"enum", "enum_name"}
      BY <1>3 DEF At
    <2>2. Top.at \notin Scoped \cup Declaring \cup Tagging \cup Naming \cup Balancing \cup {"start"}
      BY <2>1 DEF Scoped, Declaring, Tagging, Naming, Balancing
    <2>3. "enum_base" \in Labels /\ "enum_base" \in Scoped \ Passing
      BY DEF Labels, Scoped, Passing
    <2>4. <<Word>> \in ScopeNames /\ <<Word>> # <<>>
      BY <1>3, NameOfWord
    <2>5. /\ TableOK' /\ scopes \subseteq scopes' /\ lost' = lost
          /\ curr' = IF Append(curr, <<Word>>) \in scopes THEN curr ELSE Append(curr, <<Word>>)
          /\ IsNear(<<Word>>, curr', scopes')
      BY <1>3, <2>4, CreatingKeepsTable
    <2>6. Reads /\ Ahead("enum_base")
      BY <1>3, EatReads
    <2>7. /\ asserted' \in BOOLEAN /\ (asserted => asserted') /\ reported' = reported
          /\ taggedOnly' = taggedOnly /\ types' = types
      BY <1>3 DEF IInv, MarksOK
    <2>8. ~asserted' => curr' = Append(curr, <<Word>>)
      BY <1>3, <2>5
    <2>9. Becomes(Opened(Top, "enum_base", <<Word>>))
      BY <1>3 DEF Opened
    <2>10. QED
      BY <2>1, <2>2, <2>3, <2>4, <2>5, <2>6, <2>7, <2>8, <2>9, Opening
  <1>4. QED
    BY <1>1, <1>2, <1>3 DEF OpenEnum

LEMMA EnumBaseStep ==
    ASSUME IInv, EnumBase
    PROVE  IInv'
  <1>1. CASE At({"enum_base", "underlying_type"}) /\ Eat /\ Goto("underlying_type")
    <2>1. stack # <<>> /\ Top.at \in {"enum_base", "underlying_type"}
      BY <1>1 DEF At
    <2>2. Follows(Top.at, "underlying_type") /\ "underlying_type" \in Labels
      BY <2>1 DEF Labels, Follows, Scoped, Declaring, Tagging, Naming, Balancing, Looking, Passing
    <2>3. QED
      BY <1>1, <2>1, <2>2, EatGoto
  <1>2. CASE At({"enum_base", "underlying_type"}) /\ Eat /\ Goto("enumerators")
    <2>1. stack # <<>> /\ Top.at \in {"enum_base", "underlying_type"}
      BY <1>2 DEF At
    <2>2. Follows(Top.at, "enumerators") /\ "enumerators" \in Labels
      BY <2>1 DEF Labels, Follows, Scoped, Declaring, Tagging, Naming, Balancing, Looking, Passing
    <2>3. QED
      BY <1>2, <2>1, <2>2, EatGoto
  <1>3. CASE At({"enum_base", "underlying_type"}) /\ Silent /\ CloseEnum(Is(";"))
    <2>1. stack # <<>> /\ Top.at \in {"enum_base", "underlying_type"}
      BY <1>3 DEF At
    <2>2. Top.at \in Looking \cap Scoped /\ Top.at \notin {"start", "member_peeked"}
      BY <2>1 DEF Looking, Scoped
    <2>3. Reads /\ AheadBack
      BY <1>3, <2>1, <2>2, SilentReads
    <2>4. Is(";") \in BOOLEAN
      BY DEF Is
    <2>5. QED
      BY <1>3, <2>1, <2>2, <2>3, <2>4, ClosingEnum
  <1>4. QED
    BY <1>1, <1>2, <1>3 DEF EnumBase, At

LEMMA EnumBodyStep ==
    ASSUME IInv, EnumBody
    PROVE  IInv'
  <1>1. CASE /\ At({"enumerators"}) /\ IsId
             /\ Eat
             /\ Becomes([Top EXCEPT !.at = "enumerator", !.members = Append(@, Word)])
    <2> DEFINE m == Append(Top.members, Word)
    <2>1. stack # <<>> /\ Top.at \in {"enumerators"}
      BY <1>1 DEF At
    <2>2. Follows(Top.at, "enumerator") /\ "enumerator" \in Labels
      BY <2>1 DEF Labels, Follows, Scoped, Declaring, Tagging, Naming, Balancing, Looking, Passing
    <2>3. m \in Seq(Words)
      BY <1>1, <2>1, TopIsFrame, WordIsId DEF IInv
    <2>4. Becomes(Enumerating(Top, "enumerator", m))
      BY <1>1 DEF Enumerating
    <2> HIDE DEF m
    <2>5. /\ Enumerating(Top, "enumerator", m) \in Frames
          /\ Enumerating(Top, "enumerator", m).at = "enumerator"
          /\ Enumerating(Top, "enumerator", m).name = Top.name
      BY <2>1, <2>2, <2>3, TopIsFrame, EnumeratingFrame DEF Follows
    <2>6. QED
      BY <1>1, <2>1, <2>2, <2>4, <2>5, EatTurn
  <1>2. CASE At({"enumerator", "enumerator_value"}) /\ Eat /\ Goto("enumerator_value")
    <2>1. stack # <<>> /\ Top.at \in {"enumerator", "enumerator_value"}
      BY <1>2 DEF At
    <2>2. Follows(Top.at, "enumerator_value") /\ "enumerator_value" \in Labels
      BY <2>1 DEF Labels, Follows, Scoped, Declaring, Tagging, Naming, Balancing, Looking, Passing
    <2>3. QED
      BY <1>2, <2>1, <2>2, EatGoto
  <1>3. CASE At({"enumerator", "enumerator_value"}) /\ Eat /\ Goto("enumerators")
    <2>1. stack # <<>> /\ Top.at \in {"enumerator", "enumerator_value"}
      BY <1>3 DEF At
    <2>2. Follows(Top.at, "enumerators") /\ "enumerators" \in Labels
      BY <2>1 DEF Labels, Follows, Scoped, Declaring, Tagging, Naming, Balancing, Looking, Passing
    <2>3. QED
      BY <1>3, <2>1, <2>2, EatGoto
  <1>4. QED
    BY <1>1, <1>2, <1>3 DEF EnumBody, At

LEMMA EndEnumStep ==
    ASSUME IInv, EndEnum
    PROVE  IInv'
  <1>1. CASE /\ At({"enumerators", "enumerator", "enumerator_value"})
             /\ L!GetNextToken
             /\ CloseEnum(FALSE)
    <2>1. stack # <<>> /\ Top.at \in {"enumerators", "enumerator", "enumerator_value"}
      BY <1>1 DEF At
    <2>2. Top.at \in Looking \cap Scoped
      BY <2>1 DEF Looking, Scoped
    <2>3. Reads /\ AheadBack
      BY <1>1, EatReads
    <2>4. QED
      BY <1>1, <2>1, <2>2, <2>3, ClosingEnum
  <1>2. CASE At({"enumerators", "enumerator", "enumerator_value"}) /\ Fails
    <2>1. stack # <<>> /\ Top.at \in {"enumerators", "enumerator", "enumerator_value"}
      BY <1>2 DEF At
    <2>2. Top.at \notin Naming \cup {"start", "member_peeked"}
      BY <2>1 DEF Naming
    <2>3. QED
      BY <1>2, <2>1, <2>2, Failing
  <1>3. QED
    BY <1>1, <1>2 DEF EndEnum, At

-----------------------------------------------------------------------------
(* Names and classes *)

LEMMA ReadsInto ==
    ASSUME IInv, stack # <<>>, NEW b \in Labels, NEW w \in Words \cup {"::"}, Eat,
           ReadInto(b, w), Follows(Top.at, b)
    PROVE  IInv'
  <1> DEFINE id == Append(Top.id, w)
  <1>1. id \in ScopeNames
    BY TopIsFrame DEF ScopeNames
  <1>2. Becomes(Reread(Top, b, id))
    BY DEF ReadInto, Reread
  <1> HIDE DEF id
  <1>3. /\ Reread(Top, b, id) \in Frames /\ Reread(Top, b, id).at = b
        /\ Reread(Top, b, id).name = Top.name
    BY <1>1, TopIsFrame, RereadFrame DEF Follows
  <1>4. QED
    BY <1>2, <1>3, EatTurn

LEMMA Gives ==
    ASSUME IInv, stack # <<>>, Top.at \in Naming, GiveName, Goes, SameScopes,
           token' = token, queue' = queue
    PROVE  IInv'
  <1>1. Top.at \notin {"member_peeked"}
    BY DEF Naming
  <1>2. queue' # <<>> => AtEnd' \/ IsId' \/ Is(":")'
    BY <1>1, AheadStays DEF AheadBack
  <1>3. QED
    BY <1>2, GiveStep

\* Two colons are looked for.
LEMMA PeeksAtColon ==
    ASSUME IInv, stack # <<>>, Is(":"), L!PeekToken(1), NoTable, NEW b \in Labels \ Clean, Goto(b),
           Follows(Top.at, b)
    PROVE  IInv'
  <1>1. Goes /\ SameScopes /\ token' = token
    BY ResultStays, PeekGoes DEF Goto, Becomes
  <1>2. Ahead(b)
    BY <1>1 DEF Ahead, Is
  <1>3. QED
    BY <1>1, <1>2, GotoStep

LEMMA ClassIdentifierStep ==
    ASSUME IInv, ClassIdentifier
    PROVE  IInv'
  <1>1. CASE At({"class_name"}) /\ IsId /\ Eat /\ ReadInto("name", Word)
    <2>1. stack # <<>> /\ Top.at \in {"class_name"}
      BY <1>1 DEF At
    <2>2. Follows(Top.at, "name") /\ "name" \in Labels
      BY <2>1 DEF Labels, Follows, Scoped, Declaring, Tagging, Naming, Balancing, Looking, Passing
    <2>3. Word \in Words \cup {"::"}
      BY <1>1, WordIsId DEF IInv
    <2>4. QED
      BY <1>1, <2>1, <2>2, <2>3, ReadsInto
  <1>2. CASE At({"class_name"}) /\ Is(":") /\ L!PeekToken(1) /\ NoTable /\ Goto("name_colon")
    <2>1. stack # <<>> /\ Top.at \in {"class_name"}
      BY <1>2 DEF At
    <2>2. Follows(Top.at, "name_colon") /\ "name_colon" \in Labels \ Clean
      BY <2>1 DEF Clean, Templating, Labels, Follows, Scoped, Declaring, Tagging, Naming,
         Balancing, Looking, Passing
    <2>3. QED
      BY <1>2, <2>1, <2>2, PeeksAtColon
  <1>3. CASE /\ At({"class_name", "name_colon"})
             /\ L!SetTemplateArgsParsingMode(FALSE)
             /\ NoTable
             /\ GiveName
    <2>1. stack # <<>> /\ Top.at \in {"class_name", "name_colon"}
      BY <1>3 DEF At
    <2>2. Top.at \in Naming /\ Top.at # "start"
      BY <2>1 DEF Naming
    <2>3. Goes /\ SameScopes /\ token' = token /\ queue' = queue
      BY <1>3, <2>1, <2>2, ResultStays, ModeGoes DEF GiveName
    <2>4. QED
      BY <1>3, <2>1, <2>2, <2>3, Gives
  <1>4. CASE At({"name_colon"}) /\ Eat /\ ReadInto("name_next", "::")
    <2>1. stack # <<>> /\ Top.at \in {"name_colon"}
      BY <1>4 DEF At
    <2>2. Follows(Top.at, "name_next") /\ "name_next" \in Labels
      BY <2>1 DEF Labels, Follows, Scoped, Declaring, Tagging, Naming, Balancing, Looking, Passing
    <2>3. "::" \in Words \cup {"::"}
      OBVIOUS
    <2>4. QED
      BY <1>4, <2>1, <2>2, <2>3, ReadsInto
  <1>5. CASE At({"name_next"}) /\ Eat /\ Goto("name")
    <2>1. stack # <<>> /\ Top.at \in {"name_next"}
      BY <1>5 DEF At
    <2>2. Follows(Top.at, "name") /\ "name" \in Labels
      BY <2>1 DEF Labels, Follows, Scoped, Declaring, Tagging, Naming, Balancing, Looking, Passing
    <2>3. QED
      BY <1>5, <2>1, <2>2, EatGoto
  <1>6. QED
    BY <1>1, <1>2, <1>3, <1>4, <1>5 DEF ClassIdentifier, At

LEMMA QualifiedNameStep ==
    ASSUME IInv, QualifiedName
    PROVE  IInv'
  <1>1. CASE /\ At({"name"})
             /\ L!SetTemplateArgsParsingMode(TRUE) /\ NoTable
             /\ Becomes([Top EXCEPT !.at = "name_next", !.id = Append(@, "<"), !.n = @ + 1])
    <2> DEFINE id == Append(Top.id, "<")
               n == Top.n + 1
               f == Restarted(Top, "name_next", id, n)
    <2>1. stack # <<>> /\ Top.at \in {"name"}
      BY <1>1 DEF At
    <2>2. Follows(Top.at, "name_next") /\ "name_next" \in Labels
      BY <2>1 DEF Labels, Follows, Scoped, Declaring, Tagging, Naming, Balancing, Looking, Passing
    <2>3. id \in ScopeNames /\ n \in Int
      <3>1. Top.id \in ScopeNames /\ Top.n \in Int
        BY <2>1, TopIsFrame
      <3>2. "<" \in Words /\ ">" \in Words
        BY DEF Words, Punctuation
      <3>3. QED
        BY <3>1, <3>2 DEF ScopeNames
    <2>4. Becomes(f)
      BY <1>1 DEF Restarted
    <2> HIDE DEF id, n
    <2>5. f \in Frames /\ f.at = "name_next" /\ f.name = Top.name
      BY <2>1, <2>2, <2>3, TopIsFrame, RestartedFrame DEF Follows
    <2> HIDE DEF f
    <2>6. Top.at \notin {"start", "member_peeked"} /\ Top.at \in Clean
      BY <2>1 DEF Clean
    <2>7. Ahead(f.at)
      BY <1>1, <2>1, <2>6, ModeReads
    <2>8. Goes /\ SameScopes
      BY <1>1, <2>1, <2>6, ResultStays, ModeGoes DEF Becomes
    <2>9. stack' = Append(Under, f)
      BY <2>4 DEF Becomes
    <2>10. QED
      BY <2>1, <2>2, <2>5, <2>7, <2>8, <2>9, TurnStep
  <1>2. CASE /\ At({"name"}) /\ Eat
             /\ Becomes([Top EXCEPT !.id = Append(@, ">"), !.n = @ - 1])
    <2> DEFINE id == Append(Top.id, ">")
               n == Top.n - 1
               f == RereadHere(Top, id, n)
    <2>1. stack # <<>> /\ Top.at \in {"name"}
      BY <1>2 DEF At
    <2>2. Follows(Top.at, Top.at)
      BY <2>1 DEF Labels, Follows, Scoped, Declaring, Tagging, Naming, Balancing, Looking, Passing
    <2>3. id \in ScopeNames /\ n \in Int
      <3>1. Top.id \in ScopeNames /\ Top.n \in Int
        BY <2>1, TopIsFrame
      <3>2. "<" \in Words /\ ">" \in Words
        BY DEF Words, Punctuation
      <3>3. QED
        BY <3>1, <3>2 DEF ScopeNames
    <2>4. Becomes(f)
      BY <1>2 DEF RereadHere
    <2> HIDE DEF id, n
    <2>5. f \in Frames /\ f.at = Top.at /\ f.name = Top.name
      BY <2>1, <2>2, <2>3, TopIsFrame, RereadHereFrame
    <2> HIDE DEF f
    <2>6. QED
      BY <1>2, <2>1, <2>2, <2>4, <2>5, EatTurn
  <1>3. CASE At({"name"}) /\ Is(":") /\ L!PeekToken(1) /\ NoTable /\ Goto("name_peeked")
    <2>1. stack # <<>> /\ Top.at \in {"name"}
      BY <1>3 DEF At
    <2>2. Follows(Top.at, "name_peeked") /\ "name_peeked" \in Labels \ Clean
      BY <2>1 DEF Clean, Templating, Labels, Follows, Scoped, Declaring, Tagging, Naming,
         Balancing, Looking, Passing
    <2>3. QED
      BY <1>3, <2>1, <2>2, PeeksAtColon
  <1>4. CASE At({"name"}) /\ Eat /\ Goto("name")
    <2>1. stack # <<>> /\ Top.at \in {"name"}
      BY <1>4 DEF At
    <2>2. Follows(Top.at, "name") /\ "name" \in Labels
      BY <2>1 DEF Labels, Follows, Scoped, Declaring, Tagging, Naming, Balancing, Looking, Passing
    <2>3. QED
      BY <1>4, <2>1, <2>2, EatGoto
  <1>5. CASE At({"name"}) /\ ~AtEnd /\ Eat /\ ReadInto("name", Word)
    <2>1. stack # <<>> /\ Top.at \in {"name"}
      BY <1>5 DEF At
    <2>2. Follows(Top.at, "name") /\ "name" \in Labels
      BY <2>1 DEF Labels, Follows, Scoped, Declaring, Tagging, Naming, Balancing, Looking, Passing
    <2>3. Word \in Words \cup {"::"}
      BY <1>5, <2>1, NotInvalid, WordIsId DEF IInv
    <2>4. QED
      BY <1>5, <2>1, <2>2, <2>3, ReadsInto
  <1>6. CASE At({"name", "name_peeked"}) /\ Quiet /\ GiveName
    <2>1. stack # <<>> /\ Top.at \in {"name", "name_peeked"}
      BY <1>6 DEF At
    <2>2. Top.at \in Naming /\ Top.at # "start"
      BY <2>1 DEF Naming
    <2>3. Goes /\ SameScopes /\ token' = token /\ queue' = queue
      BY <1>6, <2>1, <2>2, ResultStays, QuietGoes DEF GiveName
    <2>4. QED
      BY <1>6, <2>1, <2>2, <2>3, Gives
  <1>7. CASE At({"name_peeked"}) /\ Eat /\ ReadInto("name_next", "::")
    <2>1. stack # <<>> /\ Top.at \in {"name_peeked"}
      BY <1>7 DEF At
    <2>2. Follows(Top.at, "name_next") /\ "name_next" \in Labels
      BY <2>1 DEF Labels, Follows, Scoped, Declaring, Tagging, Naming, Balancing, Looking, Passing
    <2>3. "::" \in Words \cup {"::"}
      OBVIOUS
    <2>4. QED
      BY <1>7, <2>1, <2>2, <2>3, ReadsInto
  <1>8. CASE At({"name_peeked"}) /\ Eat /\ ReadInto("name", ":")
    <2>1. stack # <<>> /\ Top.at \in {"name_peeked"}
      BY <1>8 DEF At
    <2>2. Follows(Top.at, "name") /\ "name" \in Labels
      BY <2>1 DEF Labels, Follows, Scoped, Declaring, Tagging, Naming, Balancing, Looking, Passing
    <2>3. ":" \in Words \cup {"::"}
      BY DEF Words, Punctuation
    <2>4. QED
      BY <1>8, <2>1, <2>2, <2>3, ReadsInto
  <1>9. QED
    BY <1>1, <1>2, <1>3, <1>4, <1>5, <1>6, <1>7, <1>8 DEF QualifiedName, At

LEMMA OpenClassStep ==
    ASSUME IInv, OpenClass
    PROVE  IInv'
  <1>1. CASE At({"class"}) /\ Quiet /\ Call(Frame("class_name"), "class_scope")
    <2>1. stack # <<>> /\ Top.at \in {"class"}
      BY <1>1 DEF At
    <2>2. Frame("class_name") \in Frames /\ Frame("class_name").at = "class_name"
      BY NewFrame DEF Labels, Scoped
    <2>3. CallsFor(Top.at, "class_scope", "class_name") /\ "class_scope" \in Labels
      BY <2>1 DEF Labels, CallsFor, Above, Scoped, Declaring, Tagging, Naming, Balancing, Looking,
             Passing, Templating, Clean
    <2>4. Top.at \notin {"start", "member_peeked"}
      BY <2>1
    <2>5. Top.at \in Clean
      BY <2>1 DEF Clean, Tagging, Balancing, Templating
    <2>6. QED
      BY <1>1, <2>1, <2>2, <2>3, <2>4, <2>5, QuietCall
  <1>2. CASE At({"class_scope"}) /\ Fails
    <2>1. stack # <<>> /\ Top.at \in {"class_scope"}
      BY <1>2 DEF At
    <2>2. Top.at \notin Naming \cup {"start", "member_peeked"}
      BY <2>1 DEF Naming
    <2>3. QED
      BY <1>2, <2>1, <2>2, Failing
  <1>3. CASE /\ At({"class_scope"})
             /\ Top.id # <<>> /\ ~lost
             /\ Silent
             /\ IF Append(curr, Top.id) \in scopes
                THEN T!EnterNamedScope(Top.id) ELSE T!CreateNamedScope(Top.id)
             /\ UNCHANGED <<types, lost, marks>>
             /\ Becomes([Top EXCEPT !.at = "class_head", !.name = Top.id])
    <2>1. stack # <<>> /\ Top.at \in {"class_scope"}
      BY <1>3 DEF At
    <2>2. Top.at \notin Scoped \cup Declaring \cup Tagging \cup Naming \cup Balancing \cup {"start"}
      BY <2>1 DEF Scoped, Declaring, Tagging, Naming, Balancing
    <2>3. "class_head" \in Labels /\ "class_head" \in Scoped \ Passing /\ "class_head" \notin Clean
      BY DEF Labels, Scoped, Passing, Clean, Tagging, Balancing, Templating
    <2>4. Top.id \in ScopeNames /\ Top.id # <<>>
      BY <1>3, <2>1, TopIsFrame
    <2>5. /\ TableOK' /\ scopes \subseteq scopes' /\ curr' = Append(curr, Top.id)
          /\ Append(curr, Top.id) \in scopes'
      <3>1. CASE Append(curr, Top.id) \in scopes
        BY <1>3, <2>4, <3>1, EnterStep DEF IInv
      <3>2. CASE Append(curr, Top.id) \notin scopes
        BY <1>3, <2>4, <3>2, CreateStep DEF IInv
      <3>3. QED
        BY <3>1, <3>2
    <2>6. IsNear(Top.id, curr', scopes')
      BY <2>4, <2>5, CurrIsAround DEF IInv, TableOK, TreeOK, IsNear
    <2>7. Reads /\ Ahead("class_head")
      BY <1>3, <2>1, <2>3, SilentReads
    <2>8. /\ asserted' \in BOOLEAN /\ asserted' = asserted /\ reported' = reported
          /\ taggedOnly' = taggedOnly /\ types' = types /\ lost' = lost
      BY <1>3 DEF IInv, MarksOK, marks
    <2>9. Becomes(Opened(Top, "class_head", Top.id))
      BY <1>3 DEF Opened
    <2>10. QED
      BY <2>1, <2>2, <2>3, <2>4, <2>5, <2>6, <2>7, <2>8, <2>9, Opening
  <1>4. QED
    BY <1>1, <1>2, <1>3 DEF OpenClass

LEMMA ClassTyped ==
    ASSUME IInv, stack # <<>>, Top.at \in Looking, SetClassType, scopes' = scopes
    PROVE  TypesOK'
  <1>1. IsType(Type("class", Top.classTag, <<>>))
    BY TopIsFrame, TypeIsType DEF Kinds
  <1>2. QED
    BY <1>1, SettingType DEF SetClassType

LEMMA ClassFailing ==
    ASSUME IInv, stack # <<>>, Top.at \in Scoped, Top.at \notin {"start", "member_peeked"},
           ClassFails, TypesOK'
    PROVE  IInv'
  <1>1. ExitScope /\ stack' = Under /\ ret' \in Results
    BY DEF ClassFails, ReturnClass, Return, Results
  <1>2. taggedOnly' = taggedOnly /\ asserted' = asserted /\ reported'
        /\ reported' \in BOOLEAN
    BY DEF ClassFails, Reports
  <1>3. Reads /\ AheadBack
    BY SilentReads DEF ClassFails
  <1>4. QED
    BY <1>1, <1>2, <1>3, Leaving

LEMMA ClassHeaderStep ==
    ASSUME IInv, ClassHeader
    PROVE  IInv'
  <1>1. CASE At({"class_head"}) /\ Eat /\ Goto("class_bases")
    <2>1. stack # <<>> /\ Top.at \in {"class_head"}
      BY <1>1 DEF At
    <2>2. Follows(Top.at, "class_bases") /\ "class_bases" \in Labels
      BY <2>1 DEF Labels, Follows, Scoped, Declaring, Tagging, Naming, Balancing, Looking, Passing
    <2>3. QED
      BY <1>1, <2>1, <2>2, EatGoto
  <1>2. CASE At({"class_head", "class_bases", "base_end"}) /\ Eat
          /\ Becomes([Top EXCEPT !.at = "base", !.n = 0])
    <2>1. stack # <<>> /\ Top.at \in {"class_head", "class_bases", "base_end"}
      BY <1>2 DEF At
    <2>2. Follows(Top.at, "base") /\ "base" \in Labels
      BY <2>1 DEF Labels, Follows, Scoped, Declaring, Tagging, Naming, Balancing, Looking, Passing
    <2>3. 0 \in Int
      OBVIOUS
    <2>4. Recounted(Top, "base", 0) \in Frames /\ Recounted(Top, "base", 0).at = "base"
          /\ Recounted(Top, "base", 0).name = Top.name
      BY <2>1, <2>2, <2>3, TopIsFrame, RecountedFrame DEF Follows
    <2>5. Becomes(Recounted(Top, "base", 0))
      BY <1>2 DEF Recounted
    <2>6. QED
      BY <1>2, <2>1, <2>2, <2>3, <2>4, <2>5, EatTurn
  <1>3. CASE /\ At({"class_head", "class_bases", "base_end"})
             /\ Silent /\ SetClassType /\ UNCHANGED <<scopeVars, lost, marks>>
             /\ Goto("class_body")
    <2>1. stack # <<>> /\ Top.at \in {"class_head", "class_bases", "base_end"}
      BY <1>3 DEF At
    <2>2. Follows(Top.at, "class_body") /\ "class_body" \in Labels /\ "class_body" \notin Clean
      BY <2>1 DEF Labels, Follows, Scoped, Declaring, Tagging, Naming, Balancing, Looking, Passing,
             Clean, Templating
    <2>3. Top.at \in Looking /\ Top.at \notin {"start", "member_peeked"}
      BY <2>1 DEF Looking
    <2>4. Reads /\ Ahead("class_body")
      BY <1>3, <2>1, <2>2, <2>3, SilentReads
    <2>5. SameScopes /\ scopes' = scopes
      BY <1>3 DEF SameScopes, scopeVars
    <2>6. TypesOK'
      BY <1>3, <2>1, <2>3, <2>5, ClassTyped
    <2>7. ret' \in Results
      BY <1>3, ResultStays DEF Goto, Becomes
    <2>8. /\ asserted' \in BOOLEAN /\ asserted' = asserted /\ reported' = reported
          /\ taggedOnly' = taggedOnly /\ reported' \in BOOLEAN /\ lost' \in BOOLEAN
      BY <1>3 DEF IInv, MarksOK, marks
    <2>9. Goes
      BY <2>4, <2>6, <2>7, <2>8, MarksStay DEF IInv
    <2>10. QED
      BY <1>3, <2>1, <2>2, <2>4, <2>5, <2>9, GotoStep
  <1>4. CASE At({"base"}) /\ Eat /\ Becomes([Top EXCEPT !.n = @ + 1])
    <2> DEFINE n == Top.n + 1
               f == Counted(Top, n)
    <2>1. stack # <<>> /\ Top.at \in {"base"}
      BY <1>4 DEF At
    <2>2. Follows(Top.at, Top.at)
      BY <2>1 DEF Labels, Follows, Scoped, Declaring, Tagging, Naming, Balancing, Looking, Passing
    <2>3. n \in Int
      BY <2>1, TopIsFrame
    <2>4. Becomes(f)
      BY <1>4 DEF Counted
    <2> HIDE DEF n
    <2>5. f \in Frames /\ f.at = Top.at /\ f.name = Top.name
      BY <2>1, <2>3, TopIsFrame, CountedFrame
    <2> HIDE DEF f
    <2>6. QED
      BY <1>4, <2>1, <2>2, <2>4, <2>5, EatTurn
  <1>5. CASE At({"base"}) /\ Quiet /\ Call(Frame("class_name"), "base_end")
    <2>1. stack # <<>> /\ Top.at \in {"base"}
      BY <1>5 DEF At
    <2>2. Frame("class_name") \in Frames /\ Frame("class_name").at = "class_name"
      BY NewFrame DEF Labels, Scoped
    <2>3. CallsFor(Top.at, "base_end", "class_name") /\ "base_end" \in Labels
      BY <2>1 DEF Labels, CallsFor, Above, Scoped, Declaring, Tagging, Naming, Balancing, Looking,
             Passing, Templating, Clean
    <2>4. Top.at \notin {"start", "member_peeked"}
      BY <2>1
    <2>5. Top.at \in Clean
      BY <2>1 DEF Clean, Tagging, Balancing, Templating
    <2>6. QED
      BY <1>5, <2>1, <2>2, <2>3, <2>4, <2>5, QuietCall
  <1>6. CASE At({"base_end"}) /\ SetClassType /\ ClassFails
    <2>1. stack # <<>> /\ Top.at \in {"base_end"}
      BY <1>6 DEF At
    <2>2. Top.at \in Scoped \cap Looking /\ Top.at \notin {"start", "member_peeked"}
      BY <2>1 DEF Looking, Scoped
    <2>3. ExitScope
      BY <1>6 DEF ClassFails, ReturnClass
    <2>4. TypesOK'
      BY <1>6, <2>1, <2>2, <2>3, LeavingKeepsTable, ClassTyped
    <2>5. QED
      BY <1>6, <2>1, <2>2, <2>4, ClassFailing
  <1>7. QED
    BY <1>1, <1>2, <1>3, <1>4, <1>5, <1>6 DEF ClassHeader, At

\* The call on top returns from its class, whose type is there.
LEMMA ClassDone ==
    ASSUME IInv, stack # <<>>, Top.at \in Scoped, NEW type, ReturnClass(ForwardOrDone(type)),
           Reads, AheadBack, TypesOK', UNCHANGED marks
    PROVE  IInv'
  <1>1. ExitScope /\ stack' = Under /\ ret' \in Results
    BY DEF ReturnClass, Return, ForwardOrDone, Results
  <1>2. taggedOnly' = taggedOnly /\ asserted' = asserted /\ reported' = reported
        /\ reported' \in BOOLEAN
    BY DEF marks, IInv, MarksOK
  <1>3. QED
    BY <1>1, <1>2, Leaving

LEMMA ClassBodyStep ==
    ASSUME IInv, ClassBody
    PROVE  IInv'
  <1>1. CASE /\ At({"class_body"})
             /\ Silent /\ UNCHANGED marks
             /\ types' = [types EXCEPT ![LookUpNamedScope(Top.name)].forward = TRUE]
             /\ ReturnClass(ForwardOrDone(types'[curr]))
    <2>1. stack # <<>> /\ Top.at \in {"class_body"}
      BY <1>1 DEF At
    <2>2. Top.at \in Scoped /\ Top.at \notin {"start", "member_peeked"}
      BY <2>1 DEF Scoped
    <2>3. scopes' = scopes
      BY <1>1, LeavingKeepsTable DEF ReturnClass
    <2>4. TypesOK'
      BY <1>1, <2>3, FieldsKeepTypes DEF IInv
    <2>5. Reads /\ AheadBack
      BY <1>1, <2>1, <2>2, SilentReads
    <2>6. QED
      BY <1>1, <2>1, <2>2, <2>4, <2>5, ClassDone
  <1>2. CASE At({"class_body"}) /\ Is("{") /\ Quiet /\ Call(Frame("balanced"), "body_skipped")
    <2>1. stack # <<>> /\ Top.at \in {"class_body"}
      BY <1>2 DEF At
    <2>2. Frame("balanced") \in Frames /\ Frame("balanced").at = "balanced"
      BY NewFrame DEF Labels, Scoped
    <2>3. CallsFor(Top.at, "body_skipped", "balanced") /\ "body_skipped" \in Labels
      BY <2>1 DEF Labels, CallsFor, Above, Scoped, Declaring, Tagging, Naming, Balancing, Looking,
             Passing, Templating, Clean
    <2>4. Top.at \notin {"start", "member_peeked"}
      BY <2>1
    <2>5. token.type \in (Keys \cup Punctuation \cup Keywords) \ {":"}
      BY <1>2 DEF Is, Punctuation
    <2>6. queue = <<>>
      BY <2>1, <2>5, WordIsAlone
    <2>7. QED
      BY <1>2, <2>1, <2>2, <2>3, <2>4, <2>5, <2>6, QuietCall
  <1>3. CASE At({"class_body"}) /\ Eat /\ Becomes([Top EXCEPT !.at = "members", !.n = 1])
    <2>1. stack # <<>> /\ Top.at \in {"class_body"}
      BY <1>3 DEF At
    <2>2. Follows(Top.at, "members") /\ "members" \in Labels
      BY <2>1 DEF Labels, Follows, Scoped, Declaring, Tagging, Naming, Balancing, Looking, Passing
    <2>3. 1 \in Int
      OBVIOUS
    <2>4. Recounted(Top, "members", 1) \in Frames /\ Recounted(Top, "members", 1).at = "members"
          /\ Recounted(Top, "members", 1).name = Top.name
      BY <2>1, <2>2, <2>3, TopIsFrame, RecountedFrame DEF Follows
    <2>5. Becomes(Recounted(Top, "members", 1))
      BY <1>3 DEF Recounted
    <2>6. QED
      BY <1>3, <2>1, <2>2, <2>3, <2>4, <2>5, EatTurn
  <1>4. QED
    BY <1>1, <1>2, <1>3 DEF ClassBody

LEMMA SkippedBodyStep ==
    ASSUME IInv, SkippedBody
    PROVE  IInv'
  <1>1. CASE /\ At({"body_skipped"})
             /\ Silent /\ UNCHANGED <<types, marks>>
             /\ ReturnClass(ForwardOrDone(types[curr]))
    <2>1. stack # <<>> /\ Top.at \in {"body_skipped"}
      BY <1>1 DEF At
    <2>2. Top.at \in Scoped /\ Top.at \notin {"start", "member_peeked"}
      BY <2>1 DEF Scoped
    <2>3. scopes' = scopes
      BY <1>1, LeavingKeepsTable DEF ReturnClass
    <2>4. TypesOK'
      BY <1>1, <2>3, TypesStay DEF IInv
    <2>5. Reads /\ AheadBack
      BY <1>1, <2>1, <2>2, SilentReads
    <2>6. QED
      BY <1>1, <2>1, <2>2, <2>4, <2>5, ClassDone
  <1>2. CASE At({"body_skipped"}) /\ Eat /\ Goto("body_skipped")
    <2>1. stack # <<>> /\ Top.at \in {"body_skipped"}
      BY <1>2 DEF At
    <2>2. Follows(Top.at, "body_skipped") /\ "body_skipped" \in Labels
      BY <2>1 DEF Labels, Follows, Scoped, Declaring, Tagging, Naming, Balancing, Looking, Passing
    <2>3. QED
      BY <1>2, <2>1, <2>2, EatGoto
  <1>3. QED
    BY <1>1, <1>2 DEF SkippedBody

LEMMA MembersStep ==
    ASSUME IInv, Members
    PROVE  IInv'
  <1>1. CASE At({"members"}) /\ Eat /\ Goto("access")
    <2>1. stack # <<>> /\ Top.at \in {"members"}
      BY <1>1 DEF At
    <2>2. Follows(Top.at, "access") /\ "access" \in Labels
      BY <2>1 DEF Labels, Follows, Scoped, Declaring, Tagging, Naming, Balancing, Looking, Passing
    <2>3. QED
      BY <1>1, <2>1, <2>2, EatGoto
  <1>2. CASE /\ At({"members"})
             /\ L!GetNextToken /\ UNCHANGED <<types, marks>>
             /\ ReturnClass(ForwardOrDone(types[curr]))
    <2>1. stack # <<>> /\ Top.at \in {"members"}
      BY <1>2 DEF At
    <2>2. Top.at \in Scoped /\ Top.at \notin {"start", "member_peeked"}
      BY <2>1 DEF Scoped
    <2>3. scopes' = scopes
      BY <1>2, LeavingKeepsTable DEF ReturnClass
    <2>4. TypesOK'
      BY <1>2, <2>3, TypesStay DEF IInv
    <2>5. Reads /\ AheadBack
      BY <1>2, <2>1, <2>2, EatReads
    <2>6. QED
      BY <1>2, <2>1, <2>2, <2>4, <2>5, ClassDone
  <1>3. CASE At({"members"}) /\ Eat /\ Goto("members")
    <2>1. stack # <<>> /\ Top.at \in {"members"}
      BY <1>3 DEF At
    <2>2. Follows(Top.at, "members") /\ "members" \in Labels
      BY <2>1 DEF Labels, Follows, Scoped, Declaring, Tagging, Naming, Balancing, Looking, Passing
    <2>3. QED
      BY <1>3, <2>1, <2>2, EatGoto
  <1>4. CASE At({"members"}) /\ Eat /\ Call(Frame("enum"), "member_end")
    <2>1. stack # <<>> /\ Top.at \in {"members"}
      BY <1>4 DEF At
    <2>2. Frame("enum") \in Frames /\ Frame("enum").at = "enum"
      BY NewFrame DEF Labels, Scoped
    <2>3. CallsFor(Top.at, "member_end", "enum") /\ "member_end" \in Labels
      BY <2>1 DEF Labels, CallsFor, Above, Scoped, Declaring, Tagging, Naming, Balancing, Looking,
             Passing, Templating, Clean
    <2>4. QED
      BY <1>4, <2>1, <2>2, <2>3, EatCall
  <1>5. CASE At({"members"}) /\ Eat /\ Call(Frame("template"), "member_end")
    <2>1. stack # <<>> /\ Top.at \in {"members"}
      BY <1>5 DEF At
    <2>2. Frame("template") \in Frames /\ Frame("template").at = "template"
      BY NewFrame DEF Labels, Scoped
    <2>3. CallsFor(Top.at, "member_end", "template") /\ "member_end" \in Labels
      BY <2>1 DEF Labels, CallsFor, Above, Scoped, Declaring, Tagging, Naming, Balancing, Looking,
             Passing, Templating, Clean
    <2>4. QED
      BY <1>5, <2>1, <2>2, <2>3, EatCall
  <1>6. CASE At({"members"}) /\ Eat /\ Call(Frame("class"), "member_end")
    <2>1. stack # <<>> /\ Top.at \in {"members"}
      BY <1>6 DEF At
    <2>2. Frame("class") \in Frames /\ Frame("class").at = "class"
      BY NewFrame DEF Labels, Scoped
    <2>3. CallsFor(Top.at, "member_end", "class") /\ "member_end" \in Labels
      BY <2>1 DEF Labels, CallsFor, Above, Scoped, Declaring, Tagging, Naming, Balancing, Looking,
             Passing, Templating, Clean
    <2>4. QED
      BY <1>6, <2>1, <2>2, <2>3, EatCall
  <1>7. CASE At({"members"}) /\ Eat /\ Call(Frame("typedef"), "member_end")
    <2>1. stack # <<>> /\ Top.at \in {"members"}
      BY <1>7 DEF At
    <2>2. Frame("typedef") \in Frames /\ Frame("typedef").at = "typedef"
      BY NewFrame DEF Labels, Scoped
    <2>3. CallsFor(Top.at, "member_end", "typedef") /\ "member_end" \in Labels
      BY <2>1 DEF Labels, CallsFor, Above, Scoped, Declaring, Tagging, Naming, Balancing, Looking,
             Passing, Templating, Clean
    <2>4. QED
      BY <1>7, <2>1, <2>2, <2>3, EatCall
  <1>8. CASE /\ At({"members"})
             /\ Quiet
             /\ LET depth == Top.n + (IF Is("{") THEN 1 ELSE IF Is("}") THEN -1 ELSE 0)
                IN  stack' = Under \o <<[Top EXCEPT !.at = "member_declared", !.n = depth],
                                        Frame("member")>> /\ UNCHANGED ret
    <2> DEFINE depth == Top.n + (IF Is("{") THEN 1 ELSE IF Is("}") THEN -1 ELSE 0)
               f == Recounted(Top, "member_declared", depth)
    <2>1. stack # <<>> /\ Top.at \in {"members"}
      BY <1>8 DEF At
    <2>2. Frame("member") \in Frames /\ Frame("member").at = "member"
      BY NewFrame DEF Labels, Scoped
    <2>3. CallsFor(Top.at, "member_declared", "member") /\ "member_declared" \in Labels
          /\ (Top.at \in Scoped <=> "member_declared" \in Scoped)
      BY <2>1 DEF Labels, CallsFor, Above, Scoped, Declaring, Tagging, Naming, Balancing, Looking,
             Passing, Templating, Clean
    <2>4. Top.at \notin {"start", "member_peeked"} /\ "member" \notin Clean
      BY <2>1 DEF Clean, Tagging, Balancing, Templating
    <2>5. depth \in Int
      <3> DEFINE change == IF Is("{") THEN 1 ELSE IF Is("}") THEN -1 ELSE 0
      <3>1. Top.n \in Int
        BY <2>1, TopIsFrame
      <3>2. change \in Int /\ depth = Top.n + change
        OBVIOUS
      <3> HIDE DEF change, depth
      <3>3. QED
        BY <3>1, <3>2
    <2>6. stack' = Under \o <<f, Frame("member")>>
      BY <1>8 DEF Recounted
    <2> HIDE DEF depth
    <2>7. f \in Frames /\ f.at = "member_declared" /\ f.name = Top.name
      BY <2>1, <2>3, <2>5, TopIsFrame, RecountedFrame
    <2> HIDE DEF f
    <2>8. Goes /\ SameScopes /\ token' = token /\ queue' = queue
      BY <1>8, <2>1, <2>4, ResultStays, QuietGoes
    <2>9. Ahead("member")
      BY <2>1, <2>4, <2>8, AheadStays
    <2>10. QED
      BY <2>1, <2>2, <2>3, <2>6, <2>7, <2>8, <2>9, CallStep
  <1>9. QED
    BY <1>1, <1>2, <1>3, <1>4, <1>5, <1>6, <1>7, <1>8 DEF Members

LEMMA EndMemberStep ==
    ASSUME IInv, EndMember
    PROVE  IInv'
  <1>1. CASE At({"access", "member_end", "member_declared"}) /\ Eat /\ Goto("members")
    <2>1. stack # <<>> /\ Top.at \in {"access", "member_end", "member_declared"}
      BY <1>1 DEF At
    <2>2. Follows(Top.at, "members") /\ "members" \in Labels
      BY <2>1 DEF Labels, Follows, Scoped, Declaring, Tagging, Naming, Balancing, Looking, Passing
    <2>3. QED
      BY <1>1, <2>1, <2>2, EatGoto
  <1>2. CASE At({"member_declared"}) /\ Quiet /\ Goto("members")
    <2>1. stack # <<>> /\ Top.at \in {"member_declared"}
      BY <1>2 DEF At
    <2>2. Follows(Top.at, "members") /\ "members" \in Labels
      BY <2>1 DEF Labels, Follows, Scoped, Declaring, Tagging, Naming, Balancing, Looking, Passing
    <2>3. Top.at \notin {"start", "member_peeked"} /\ ("members" \in Clean => Top.at \in Clean)
      BY <2>1 DEF Clean, Tagging, Balancing, Templating
    <2>4. QED
      BY <1>2, <2>1, <2>2, <2>3, QuietGoto
  <1>3. CASE /\ At({"access", "member_end", "member_declared"})
             /\ UNCHANGED types /\ ClassFails
    <2>1. stack # <<>> /\ Top.at \in {"access", "member_end", "member_declared"}
      BY <1>3 DEF At
    <2>2. Top.at \in Scoped /\ Top.at \notin {"start", "member_peeked"}
      BY <2>1 DEF Scoped
    <2>3. scopes' = scopes
      BY <1>3, LeavingKeepsTable DEF ClassFails, ReturnClass
    <2>4. TypesOK'
      BY <1>3, <2>3, TypesStay DEF IInv
    <2>5. QED
      BY <1>3, <2>1, <2>2, <2>4, ClassFailing
  <1>4. QED
    BY <1>1, <1>2, <1>3 DEF EndMember, At

-----------------------------------------------------------------------------
(* Members *)

\* The word behind the current one is looked at.
LEMMA PeeksAtMember ==
    ASSUME IInv, stack # <<>>, L!PeekToken(1), NoTable, NEW b \in Labels, Goto(b),
           b = "member_peeked" \/ (b = "member_found" /\ AtEnd), Follows(Top.at, b)
    PROVE  IInv'
  <1>1. Goes /\ SameScopes /\ token' = token
    BY ResultStays, PeekGoes DEF Goto, Becomes
  <1>2. b \notin Clean
    BY DEF Clean, Tagging, Balancing, Templating
  <1>3. Ahead(b)
    BY <1>1, <1>2 DEF Ahead, AtEnd
  <1>4. QED
    BY <1>1, <1>3, GotoStep

LEMMA SeekMemberStep ==
    ASSUME IInv, SeekMember
    PROVE  IInv'
  <1>1. CASE /\ At({"member"}) /\ Is("FIELD_META")
             /\ L!SetMetaTagParsingMode(TRUE) /\ NoTable
             /\ Call([Frame("field_tag") EXCEPT !.n = 1], "member_tagged")
    <2>1. stack # <<>> /\ Top.at \in {"member"}
      BY <1>1 DEF At
    <2>2. CallsFor(Top.at, "member_tagged", "field_tag") /\ "member_tagged" \in Labels
      BY <2>1 DEF Labels, CallsFor, Above, Scoped, Declaring, Tagging, Naming, Balancing, Looking,
             Passing, Templating, Clean
    <2>3. Frame("field_tag") \in Frames /\ Frame("field_tag").at = "field_tag"
      BY NewFrame DEF Labels, Scoped
    <2>4. /\ Counted(Frame("field_tag"), 1) \in Frames
          /\ Counted(Frame("field_tag"), 1).at = "field_tag"
      BY <2>3, CountedFrame
    <2>5. Call(Counted(Frame("field_tag"), 1), "member_tagged")
      BY <1>1 DEF Counted
    <2>6. Top.at \notin {"start", "member_peeked"}
      BY <2>1
    <2>7. token.type \in (Keys \cup Punctuation \cup Keywords) \ {":"}
      BY <1>1 DEF Is, Keywords
    <2>8. queue = <<>>
      BY <2>1, <2>7, WordIsAlone
    <2>9. Goes /\ SameScopes /\ queue' = queue
      BY <1>1, <2>1, <2>6, ResultStays, ModeGoes DEF Call
    <2>10. Ahead("field_tag")
      BY <2>8, <2>9 DEF Ahead
    <2>11. QED
      BY <2>1, <2>2, <2>4, <2>5, <2>9, <2>10, CallsStep
  <1>2. CASE At({"member"}) /\ AtEnd /\ L!PeekToken(1) /\ NoTable /\ Goto("member_found")
    <2>1. stack # <<>> /\ Top.at \in {"member"}
      BY <1>2 DEF At
    <2>2. Follows(Top.at, "member_found") /\ "member_found" \in Labels
      BY <2>1 DEF Labels, Follows, Scoped, Declaring, Tagging, Naming, Balancing, Looking, Passing
    <2>3. QED
      BY <1>2, <2>1, <2>2, PeeksAtMember
  <1>3. CASE At({"member"}) /\ L!PeekToken(1) /\ NoTable /\ Goto("member_peeked")
    <2>1. stack # <<>> /\ Top.at \in {"member"}
      BY <1>3 DEF At
    <2>2. Follows(Top.at, "member_peeked") /\ "member_peeked" \in Labels
      BY <2>1 DEF Labels, Follows, Scoped, Declaring, Tagging, Naming, Balancing, Looking, Passing
    <2>3. QED
      BY <1>3, <2>1, <2>2, PeeksAtMember
  <1>4. QED
    BY <1>1, <1>2, <1>3 DEF SeekMember

LEMMA TaggedMemberStep ==
    ASSUME IInv, TaggedMember
    PROVE  IInv'
  <1>1. CASE At({"member_tagged"}) /\ Quiet /\ Return("failed")
    <2>1. stack # <<>> /\ Top.at \in {"member_tagged"}
      BY <1>1 DEF At
    <2>2. "failed" \in Results /\ Top.at \notin Naming \cup Scoped \cup {"start", "member_peeked"}
      BY <2>1 DEF Results, Naming, Scoped
    <2>3. Top.at \notin Declaring \cup Tagging
      BY <2>1 DEF Declaring, Tagging
    <2>4. QED
      BY <1>1, <2>1, <2>2, <2>3, QuietReturn
  <1>2. CASE At({"member_tagged"}) /\ L!PeekToken(1) /\ NoTable /\ Goto("member_peeked")
    <2>1. stack # <<>> /\ Top.at \in {"member_tagged"}
      BY <1>2 DEF At
    <2>2. Follows(Top.at, "member_peeked") /\ "member_peeked" \in Labels
      BY <2>1 DEF Labels, Follows, Scoped, Declaring, Tagging, Naming, Balancing, Looking, Passing
    <2>3. QED
      BY <1>2, <2>1, <2>2, PeeksAtMember
  <1>3. QED
    BY <1>1, <1>2 DEF TaggedMember

LEMMA FindMemberStep ==
    ASSUME IInv, FindMember
    PROVE  IInv'
  <1>1. CASE At({"member_peeked"}) /\ Eat /\ Goto("member")
    <2>1. stack # <<>> /\ Top.at \in {"member_peeked"}
      BY <1>1 DEF At
    <2>2. Follows(Top.at, "member") /\ "member" \in Labels
      BY <2>1 DEF Labels, Follows, Scoped, Declaring, Tagging, Naming, Balancing, Looking, Passing
    <2>3. QED
      BY <1>1, <2>1, <2>2, EatGoto
  <1>2. CASE At({"member_peeked", "member_found"}) /\ Eat
          /\ Call(Frame("balanced"), "method")
    <2>1. stack # <<>> /\ Top.at \in {"member_peeked", "member_found"}
      BY <1>2 DEF At
    <2>2. Frame("balanced") \in Frames /\ Frame("balanced").at = "balanced"
      BY NewFrame DEF Labels, Scoped
    <2>3. CallsFor(Top.at, "method", "balanced") /\ "method" \in Labels
      BY <2>1 DEF Labels, CallsFor, Above, Scoped, Declaring, Tagging, Naming, Balancing, Looking,
             Passing, Templating, Clean
    <2>4. QED
      BY <1>2, <2>1, <2>2, <2>3, EatCall
  <1>3. CASE At({"member_found"}) /\ Quiet /\ Goto("fields")
    <2>1. stack # <<>> /\ Top.at \in {"member_found"}
      BY <1>3 DEF At
    <2>2. Follows(Top.at, "fields") /\ "fields" \in Labels
      BY <2>1 DEF Labels, Follows, Scoped, Declaring, Tagging, Naming, Balancing, Looking, Passing
    <2>3. Top.at \notin {"start", "member_peeked"} /\ ("fields" \in Clean => Top.at \in Clean)
      BY <2>1 DEF Clean, Tagging, Balancing, Templating
    <2>4. QED
      BY <1>3, <2>1, <2>2, <2>3, QuietGoto
  <1>4. CASE At({"member_peeked"}) /\ IsMemberName /\ Quiet /\ Goto("fields")
    <2>1. stack # <<>> /\ Top.at \in {"member_peeked"}
      BY <1>4 DEF At
    <2>2. Follows(Top.at, "fields") /\ "fields" \in Labels /\ "fields" \notin Clean
      BY <2>1 DEF Labels, Follows, Scoped, Declaring, Tagging, Naming, Balancing, Looking, Passing,
             Clean, Templating
    <2>3. Goes /\ SameScopes /\ token' = token /\ queue' = queue
      BY <1>4, <2>1, ResultStays, QuietGoes DEF Goto, Becomes
    <2>4. Ahead("fields")
      BY <1>4, <2>2, <2>3 DEF Ahead, IsMemberName, IsId
    <2>5. QED
      BY <1>4, <2>1, <2>2, <2>3, <2>4, GotoStep
  <1>5. QED
    BY <1>1, <1>2, <1>3, <1>4 DEF FindMember, At

LEMMA MethodStep ==
    ASSUME IInv, Method
    PROVE  IInv'
  <1>1. CASE At({"method", "method_body"}) /\ Quiet /\ Return("method")
    <2>1. stack # <<>> /\ Top.at \in {"method", "method_body"}
      BY <1>1 DEF At
    <2>2. "method" \in Results /\ Top.at \notin Naming \cup Scoped \cup {"start", "member_peeked"}
      BY <2>1 DEF Results, Naming, Scoped
    <2>3. QED
      BY <1>1, <2>1, <2>2, QuietReturn
  <1>2. CASE At({"method"}) /\ Is("{") /\ Quiet /\ Call(Frame("balanced"), "method_body")
    <2>1. stack # <<>> /\ Top.at \in {"method"}
      BY <1>2 DEF At
    <2>2. Frame("balanced") \in Frames /\ Frame("balanced").at = "balanced"
      BY NewFrame DEF Labels, Scoped
    <2>3. CallsFor(Top.at, "method_body", "balanced") /\ "method_body" \in Labels
      BY <2>1 DEF Labels, CallsFor, Above, Scoped, Declaring, Tagging, Naming, Balancing, Looking,
             Passing, Templating, Clean
    <2>4. Top.at \notin {"start", "member_peeked"}
      BY <2>1
    <2>5. token.type \in (Keys \cup Punctuation \cup Keywords) \ {":"}
      BY <1>2 DEF Is, Punctuation
    <2>6. queue = <<>>
      BY <2>1, <2>5, WordIsAlone
    <2>7. QED
      BY <1>2, <2>1, <2>2, <2>3, <2>4, <2>5, <2>6, QuietCall
  <1>3. CASE At({"method"}) /\ Eat /\ Goto("method")
    <2>1. stack # <<>> /\ Top.at \in {"method"}
      BY <1>3 DEF At
    <2>2. Follows(Top.at, "method") /\ "method" \in Labels
      BY <2>1 DEF Labels, Follows, Scoped, Declaring, Tagging, Naming, Balancing, Looking, Passing
    <2>3. QED
      BY <1>3, <2>1, <2>2, EatGoto
  <1>4. QED
    BY <1>1, <1>2, <1>3 DEF Method, At

LEMMA FieldsStep ==
    ASSUME IInv, Fields
    PROVE  IInv'
  <1>0. /\ asserted' \in BOOLEAN /\ (asserted => asserted') /\ taggedOnly' = taggedOnly
        /\ SameScopes /\ scopes' = scopes /\ lost' \in BOOLEAN
        /\ stack # <<>> /\ Top.at = "fields" /\ Top.at \notin {"start", "member_peeked"}
    BY DEF Fields, IInv, MarksOK, SameScopes, scopeVars, At
  <1>1. CASE /\ Silent /\ Return("done") /\ UNCHANGED types
             /\ (reported' = TRUE \/ reported' = reported)
    <2>1. Reads /\ AheadBack
      BY <1>1, <1>0, SilentReads
    <2>2. TypesOK' /\ reported' \in BOOLEAN /\ (reported => reported')
      <3>1. TypesOK'
        BY <1>1, <1>0, TypesStay DEF IInv
      <3>2. reported' \in BOOLEAN /\ (reported => reported')
        <4>1. reported \in BOOLEAN
          BY DEF IInv, MarksOK
        <4>2. reported' = TRUE \/ reported' = reported
          BY <1>1
        <4>3. QED
          BY <4>1, <4>2
      <3>3. QED
        BY <3>1, <3>2
    <2>3. ret' \in Results /\ stack' = Under
      BY <1>1 DEF Return, Results
    <2>4. Goes
      BY <1>0, <2>1, <2>2, <2>3, MarksStay DEF IInv
    <2>5. Top.at \notin Naming \cup Scoped /\ FailsLoudly(Top.at)
      BY <1>0 DEF Naming, Scoped, FailsLoudly, Declaring, Tagging
    <2>6. QED
      BY <1>0, <2>1, <2>3, <2>4, <2>5, ReturnStep
  <1>2. CASE /\ Silent /\ Return("failed") /\ UNCHANGED types
             /\ (reported' = TRUE \/ reported' = reported)
    <2>1. Reads /\ AheadBack
      BY <1>2, <1>0, SilentReads
    <2>2. TypesOK' /\ reported' \in BOOLEAN /\ (reported => reported')
      <3>1. TypesOK'
        BY <1>2, <1>0, TypesStay DEF IInv
      <3>2. reported' \in BOOLEAN /\ (reported => reported')
        <4>1. reported \in BOOLEAN
          BY DEF IInv, MarksOK
        <4>2. reported' = TRUE \/ reported' = reported
          BY <1>2
        <4>3. QED
          BY <4>1, <4>2
      <3>3. QED
        BY <3>1, <3>2
    <2>3. ret' \in Results /\ stack' = Under
      BY <1>2 DEF Return, Results
    <2>4. Goes
      BY <1>0, <2>1, <2>2, <2>3, MarksStay DEF IInv
    <2>5. Top.at \notin Naming \cup Scoped /\ FailsLoudly(Top.at)
      BY <1>0 DEF Naming, Scoped, FailsLoudly, Declaring, Tagging
    <2>6. QED
      BY <1>0, <2>1, <2>3, <2>4, <2>5, ReturnStep
  <1>3. CASE /\ L!GetNextToken
             /\ types' = [types EXCEPT ![curr].members = Append(@, Word)]
             /\ Goto("field_end") /\ UNCHANGED reported
    <2>1. Reads /\ Ahead("field_end")
      BY <1>3, EatReads
    <2>2. \/ types' = [types EXCEPT ![curr].members = Append(types[curr].members, Word)]
      BY <1>3
    <2>3. TypesOK'
      BY <1>0, <2>2, FieldsKeepTypes DEF IInv
    <2>4. ret' \in Results
      BY <1>3, ResultStays DEF Goto, Becomes
    <2>5. reported' \in BOOLEAN /\ (reported => reported')
      BY <1>3 DEF IInv, MarksOK
    <2>6. Goes
      BY <1>0, <2>1, <2>3, <2>4, <2>5, MarksStay DEF IInv
    <2>7. Follows(Top.at, "field_end") /\ "field_end" \in Labels
      BY <1>0 DEF Labels, Follows, Scoped, Declaring, Tagging, Naming, Balancing, Looking, Passing
    <2>8. QED
      BY <1>3, <1>0, <2>1, <2>6, <2>7, GotoStep
  <1>4. CASE Silent /\ Goto("crashed") /\ UNCHANGED <<types, reported>>
    <2>1. Follows(Top.at, "crashed") /\ "crashed" \in Labels /\ "crashed" \notin Clean
      BY <1>0 DEF Labels, Follows, Scoped, Declaring, Tagging, Naming, Balancing, Looking, Passing,
             Clean, Templating
    <2>2. Reads /\ Ahead("crashed")
      BY <1>4, <1>0, <2>1, SilentReads
    <2>3. TypesOK' /\ reported' \in BOOLEAN /\ (reported => reported')
      BY <1>4, <1>0, TypesStay DEF IInv, MarksOK
    <2>4. ret' \in Results
      BY <1>4, ResultStays DEF Goto, Becomes
    <2>5. Goes
      BY <1>0, <2>2, <2>3, <2>4, MarksStay DEF IInv
    <2>6. QED
      BY <1>4, <1>0, <2>1, <2>2, <2>5, GotoStep
  <1>5. QED
    BY <1>1, <1>2, <1>3, <1>4 DEF Fields

LEMMA FieldEndStep ==
    ASSUME IInv, FieldEnd
    PROVE  IInv'
  <1>1. CASE At({"field_end"}) /\ Eat /\ Goto("fields")
    <2>1. stack # <<>> /\ Top.at \in {"field_end"}
      BY <1>1 DEF At
    <2>2. Follows(Top.at, "fields") /\ "fields" \in Labels
      BY <2>1 DEF Labels, Follows, Scoped, Declaring, Tagging, Naming, Balancing, Looking, Passing
    <2>3. QED
      BY <1>1, <2>1, <2>2, EatGoto
  <1>2. CASE At({"field_end", "field_value"}) /\ Quiet /\ Goto("field_value")
    <2>1. stack # <<>> /\ Top.at \in {"field_end", "field_value"}
      BY <1>2 DEF At
    <2>2. Follows(Top.at, "field_value") /\ "field_value" \in Labels
      BY <2>1 DEF Labels, Follows, Scoped, Declaring, Tagging, Naming, Balancing, Looking, Passing
    <2>3. Top.at \notin {"start", "member_peeked"} /\ ("field_value" \in Clean => Top.at \in Clean)
      BY <2>1 DEF Clean, Tagging, Balancing, Templating
    <2>4. QED
      BY <1>2, <2>1, <2>2, <2>3, QuietGoto
  <1>3. CASE At({"field_end", "field_value"}) /\ Quiet /\ Goto("fields")
    <2>1. stack # <<>> /\ Top.at \in {"field_end", "field_value"}
      BY <1>3 DEF At
    <2>2. Follows(Top.at, "fields") /\ "fields" \in Labels
      BY <2>1 DEF Labels, Follows, Scoped, Declaring, Tagging, Naming, Balancing, Looking, Passing
    <2>3. Top.at \notin {"start", "member_peeked"} /\ ("fields" \in Clean => Top.at \in Clean)
      BY <2>1 DEF Clean, Tagging, Balancing, Templating
    <2>4. QED
      BY <1>3, <2>1, <2>2, <2>3, QuietGoto
  <1>4. CASE At({"field_value"}) /\ Eat /\ Goto("field_value")
    <2>1. stack # <<>> /\ Top.at \in {"field_value"}
      BY <1>4 DEF At
    <2>2. Follows(Top.at, "field_value") /\ "field_value" \in Labels
      BY <2>1 DEF Labels, Follows, Scoped, Declaring, Tagging, Naming, Balancing, Looking, Passing
    <2>3. QED
      BY <1>4, <2>1, <2>2, EatGoto
  <1>5. QED
    BY <1>1, <1>2, <1>3, <1>4 DEF FieldEnd, At

-----------------------------------------------------------------------------
(* Meta tags *)

LEMMA BadParameterStep ==
    ASSUME IInv, stack # <<>>, Top.at \in Tagging, BadParameter
    PROVE  IInv'
  <1>1. Follows(Top.at, "tag_next") /\ "tag_next" \in Labels
    BY DEF Labels, Follows, Scoped, Declaring, Tagging, Naming, Balancing, Looking, Passing
  <1>2. Top.at \notin {"start", "member_peeked"} /\ Top.at \in Clean
    BY DEF Clean, Tagging, Balancing, Templating
  <1>3. /\ Silent /\ UNCHANGED tableVars /\ reported' \in BOOLEAN /\ asserted' \in BOOLEAN
        /\ taggedOnly' = taggedOnly /\ (reported => reported') /\ (asserted => asserted')
    BY DEF BadParameter, Reports, IInv, MarksOK
  <1>4. ret' \in Results
    BY ResultStays DEF BadParameter, Goto, Becomes
  <1>5. Goes /\ SameScopes /\ token' = token /\ queue' = queue
    BY <1>2, <1>3, <1>4, SilentGoes
  <1>6. Ahead("tag_next")
    BY <1>2, <1>5, AheadStays
  <1>7. QED
    BY <1>1, <1>5, <1>6, GotoStep DEF BadParameter

LEMMA TagFailing ==
    ASSUME IInv, stack # <<>>, Top.at \in Tagging \cup {"field_tag"}, TagFails
    PROVE  IInv'
  <1>1. Top.at \notin Naming \cup {"start", "member_peeked"}
    BY DEF Tagging, Naming
  <1>2. Reads /\ AheadBack
    BY <1>1, ModeReads DEF TagFails, EndTag
  <1>3. UNCHANGED scopeVars /\ types' = types /\ lost' = lost
    BY DEF TagFails, EndTag, tableVars
  <1>4. TableOK' /\ scopes' = scopes
    BY <1>3, ScopesStay DEF IInv
  <1>5. TypesOK'
    BY <1>3, <1>4, TypesStay DEF IInv
  <1>6. /\ lost' \in BOOLEAN /\ reported' \in BOOLEAN /\ asserted' \in BOOLEAN /\ reported'
        /\ taggedOnly' = taggedOnly /\ asserted' = asserted
    BY <1>3 DEF IInv, MarksOK, TagFails, Reports
  <1>7. ret' \in Results /\ stack' = Under
    BY DEF TagFails, EndTag, Return, Results
  <1>8. Goes
    BY <1>2, <1>5, <1>6, <1>7, MarksStay DEF IInv
  <1>9. ~Untroubled'
    BY <1>6 DEF Untroubled
  <1>10. QED
    BY <1>1, <1>2, <1>4, <1>7, <1>8, <1>9, FailStep

LEMMA MetaTagParamStep ==
    ASSUME IInv, MetaTagParam
    PROVE  IInv'
  <1>1. CASE At({"tag_key"}) /\ Eat /\ Goto("section_equals")
    <2>1. stack # <<>> /\ Top.at \in {"tag_key"}
      BY <1>1 DEF At
    <2>2. Follows(Top.at, "section_equals") /\ "section_equals" \in Labels
      BY <2>1 DEF Labels, Follows, Scoped, Declaring, Tagging, Naming, Balancing, Looking, Passing
    <2>3. QED
      BY <1>1, <2>1, <2>2, EatGoto
  <1>2. CASE At({"section_equals"}) /\ Eat /\ Goto("section_id")
    <2>1. stack # <<>> /\ Top.at \in {"section_equals"}
      BY <1>2 DEF At
    <2>2. Follows(Top.at, "section_id") /\ "section_id" \in Labels
      BY <2>1 DEF Labels, Follows, Scoped, Declaring, Tagging, Naming, Balancing, Looking, Passing
    <2>3. QED
      BY <1>2, <2>1, <2>2, EatGoto
  <1>3. CASE At({"section_equals", "section_id", "flags_equals"}) /\ BadParameter
    <2>1. stack # <<>> /\ Top.at \in {"section_equals", "section_id", "flags_equals"}
      BY <1>3 DEF At
    <2>2. Top.at \in Tagging
      BY <2>1 DEF Tagging
    <2>3. QED
      BY <1>3, <2>1, <2>2, BadParameterStep
  <1>4. CASE At({"section_id"}) /\ IsId /\ Eat /\ SetSection(Word)
    <2>1. stack # <<>> /\ Top.at \in {"section_id"}
      BY <1>4 DEF At
    <2>2. Top.at \in Tagging
      BY <2>1 DEF Tagging
    <2>3. Word \in Sections
      BY <1>4, WordIsId DEF IInv, Sections
    <2>4. ret' \in Results
      BY <1>4, ResultStays DEF SetSection
    <2>5. Goes /\ SameScopes /\ queue' = <<>>
      BY <1>4, <2>4, EatGoes
    <2>6. QED
      BY <1>4, <2>1, <2>2, <2>3, <2>5, SectionStep
  <1>5. CASE At({"tag_key", "tag_flags"}) /\ Eat /\ Goto("flags_equals")
    <2>1. stack # <<>> /\ Top.at \in {"tag_key", "tag_flags"}
      BY <1>5 DEF At
    <2>2. Follows(Top.at, "flags_equals") /\ "flags_equals" \in Labels
      BY <2>1 DEF Labels, Follows, Scoped, Declaring, Tagging, Naming, Balancing, Looking, Passing
    <2>3. QED
      BY <1>5, <2>1, <2>2, EatGoto
  <1>6. CASE At({"flags_equals"}) /\ Eat /\ Goto("flag")
    <2>1. stack # <<>> /\ Top.at \in {"flags_equals"}
      BY <1>6 DEF At
    <2>2. Follows(Top.at, "flag") /\ "flag" \in Labels
      BY <2>1 DEF Labels, Follows, Scoped, Declaring, Tagging, Naming, Balancing, Looking, Passing
    <2>3. QED
      BY <1>6, <2>1, <2>2, EatGoto
  <1>7. CASE At({"flag"}) /\ Eat /\ Goto("flag_next")
    <2>1. stack # <<>> /\ Top.at \in {"flag"}
      BY <1>7 DEF At
    <2>2. Follows(Top.at, "flag_next") /\ "flag_next" \in Labels
      BY <2>1 DEF Labels, Follows, Scoped, Declaring, Tagging, Naming, Balancing, Looking, Passing
    <2>3. QED
      BY <1>7, <2>1, <2>2, EatGoto
  <1>8. CASE At({"flag"}) /\ Quiet /\ Goto("tag_next")
    <2>1. stack # <<>> /\ Top.at \in {"flag"}
      BY <1>8 DEF At
    <2>2. Follows(Top.at, "tag_next") /\ "tag_next" \in Labels
      BY <2>1 DEF Labels, Follows, Scoped, Declaring, Tagging, Naming, Balancing, Looking, Passing
    <2>3. Top.at \notin {"start", "member_peeked"} /\ ("tag_next" \in Clean => Top.at \in Clean)
      BY <2>1 DEF Clean, Tagging, Balancing, Templating
    <2>4. QED
      BY <1>8, <2>1, <2>2, <2>3, QuietGoto
  <1>9. CASE At({"flag_next"}) /\ Eat /\ Goto("flag")
    <2>1. stack # <<>> /\ Top.at \in {"flag_next"}
      BY <1>9 DEF At
    <2>2. Follows(Top.at, "flag") /\ "flag" \in Labels
      BY <2>1 DEF Labels, Follows, Scoped, Declaring, Tagging, Naming, Balancing, Looking, Passing
    <2>3. QED
      BY <1>9, <2>1, <2>2, EatGoto
  <1>10. QED
    BY <1>1, <1>2, <1>3, <1>4, <1>5, <1>6, <1>7, <1>8, <1>9 DEF MetaTagParam, At

LEMMA MetaTagStep ==
    ASSUME IInv, MetaTag
    PROVE  IInv'
  <1>1. CASE At({"tag"}) /\ Eat /\ Goto("tag_open")
    <2>1. stack # <<>> /\ Top.at \in {"tag"}
      BY <1>1 DEF At
    <2>2. Follows(Top.at, "tag_open") /\ "tag_open" \in Labels
      BY <2>1 DEF Labels, Follows, Scoped, Declaring, Tagging, Naming, Balancing, Looking, Passing
    <2>3. QED
      BY <1>1, <2>1, <2>2, EatGoto
  <1>2. CASE At({"tag_open", "tag_next", "tag_flags", "tag_key", "flag_next"})
          /\ Eat /\ Goto("tag_key")
    <2>1. stack # <<>> /\ Top.at \in {"tag_open", "tag_next", "tag_flags", "tag_key", "flag_next"}
      BY <1>2 DEF At
    <2>2. Follows(Top.at, "tag_key") /\ "tag_key" \in Labels
      BY <2>1 DEF Labels, Follows, Scoped, Declaring, Tagging, Naming, Balancing, Looking, Passing
    <2>3. QED
      BY <1>2, <2>1, <2>2, EatGoto
  <1>3. CASE At({"tag_open", "tag_next", "tag_flags", "tag_key", "flag_next"})
          /\ Eat /\ Goto("tag_end")
    <2>1. stack # <<>> /\ Top.at \in {"tag_open", "tag_next", "tag_flags", "tag_key", "flag_next"}
      BY <1>3 DEF At
    <2>2. Follows(Top.at, "tag_end") /\ "tag_end" \in Labels
      BY <2>1 DEF Labels, Follows, Scoped, Declaring, Tagging, Naming, Balancing, Looking, Passing
    <2>3. QED
      BY <1>3, <2>1, <2>2, EatGoto
  <1>4. CASE At({"tag_open", "tag_next", "tag_flags", "tag_key", "flag_next"}) /\ TagFails
    <2>1. stack # <<>> /\ Top.at \in {"tag_open", "tag_next", "tag_flags", "tag_key", "flag_next"}
      BY <1>4 DEF At
    <2>2. Top.at \in Tagging
      BY <2>1 DEF Tagging
    <2>3. QED
      BY <1>4, <2>1, <2>2, TagFailing
  <1>5. CASE At({"tag_end"}) /\ EndTag("done") /\ UNCHANGED marks
    <2>1. stack # <<>> /\ Top.at \in {"tag_end"}
      BY <1>5 DEF At
    <2>2. Top.at \notin {"start", "member_peeked"} /\ Top.at \notin Naming \cup Scoped
      BY <2>1 DEF Naming, Scoped
    <2>3. ret' \in Results /\ stack' = Under /\ ret' = "done" /\ NoTable
      BY <1>5 DEF EndTag, Return, Results, NoTable
    <2>4. Goes /\ SameScopes
      BY <1>5, <2>1, <2>2, <2>3, ModeGoes DEF EndTag
    <2>5. AheadBack
      BY <1>5, <2>1, <2>2, ModeReads DEF EndTag
    <2>6. FailsLoudly(Top.at)
      BY <2>3 DEF FailsLoudly
    <2>7. QED
      BY <2>1, <2>2, <2>3, <2>4, <2>5, <2>6, ReturnStep
  <1>6. QED
    BY <1>1, <1>2, <1>3, <1>4, <1>5 DEF MetaTag, At

LEMMA FieldMetaTagStep ==
    ASSUME IInv, FieldMetaTag
    PROVE  IInv'
  <1>1. CASE /\ At({"field_tag"})
             /\ Eat
             /\ Becomes([Top EXCEPT !.at = IF Top.n = 6 THEN "tag_end" ELSE @, !.n = @ + 1])
    <2> DEFINE n == Top.n + 1
               b == IF Top.n = 6 THEN "tag_end" ELSE Top.at
               f == Recounted(Top, b, n)
    <2>1. stack # <<>> /\ Top.at \in {"field_tag"}
      BY <1>1 DEF At
    <2>2. b \in {"tag_end", "field_tag"}
      BY <2>1
    <2>3. n \in Int
      BY <2>1, TopIsFrame
    <2>4. Becomes(f)
      BY <1>1 DEF Recounted
    <2> HIDE DEF n, b
    <2>5. Follows(Top.at, b) /\ b \in Labels
      BY <2>1, <2>2 DEF Labels, Follows, Scoped, Declaring, Tagging, Naming, Balancing, Looking,
         Passing
    <2>6. f \in Frames /\ f.at = b /\ f.name = Top.name
      BY <2>1, <2>3, <2>5, TopIsFrame, RecountedFrame DEF Follows
    <2> HIDE DEF f
    <2>7. QED
      BY <1>1, <2>1, <2>4, <2>5, <2>6, EatTurn
  <1>2. CASE At({"field_tag"}) /\ TagFails
    <2>1. stack # <<>> /\ Top.at \in Tagging \cup {"field_tag"}
      BY <1>2 DEF At
    <2>2. QED
      BY <1>2, <2>1, TagFailing
  <1>3. QED
    BY <1>1, <1>2 DEF FieldMetaTag

-----------------------------------------------------------------------------
(* The specification *)

LEMMA Initially ==
    ASSUME Init
    PROVE  IInv
  <1>1. text \in Seq(Words) /\ rest = text
    BY ParserAssumption DEF Init
  <1>2. stack = <<Frame("start")>> /\ stack = Append(<<>>, Frame("start"))
    BY DEF Init
  <1>3. Frame("start") \in Frames /\ Frame("start").at = "start"
    BY NewFrame DEF Labels, Scoped
  <1>4. <<>> \in Seq(Frames)
    OBVIOUS
  <1>5. /\ stack \in Seq(Frames) /\ Len(stack) = 1 /\ stack[1] = Frame("start")
    BY <1>2, <1>3
  <1>6. Top = Frame("start")
    BY <1>5 DEF Top
  <1>7. LexerOK
    <2>1. TextOK
      BY <1>1 DEF TextOK
    <2>2. RestOK
      BY <1>1 DEF RestOK
    <2>3. QueueOK /\ TokenOK
      BY <1>2, <1>3, <1>6 DEF Init, QueueOK, TokenOK
    <2>4. AnswersOK
      <3>1. <<>> \in Seq(Tokens)
        OBVIOUS
      <3>2. answer = L!Invalid /\ promised = L!Invalid /\ delivered = <<>>
            /\ templateMode = FALSE /\ metaMode = FALSE
        BY DEF Init
      <3>3. QED
        BY <3>1, <3>2 DEF AnswersOK
    <2>5. QED
      BY <2>1, <2>2, <2>3, <2>4 DEF LexerOK
  <1>8. TableOK
    <2>1. <<>> \in Paths
      BY DEF Paths
    <2>2. TreeOK
      BY <2>1 DEF Init, T!Init, T!Global, TreeOK
    <2>3. WalkOK
      <3>1. /\ last = -1 /\ prev = -1 /\ where = <<>> /\ entered = <<FALSE>> /\ visited = <<-1>>
            /\ reading = FALSE /\ mixed = FALSE /\ strayed = FALSE /\ calls = 0
        BY DEF Init, T!Init, T!Global
      <3>2. /\ <<FALSE>> \in Seq(BOOLEAN) /\ Len(<<FALSE>>) = 1
            /\ <<-1>> \in Seq({-1}) /\ Len(<<-1>>) = 1
        OBVIOUS
      <3>3. Len(where) = 0 /\ calls \in 0..MaxCalls
        BY <3>1, ParserAssumption
      <3>4. Len(entered) = Len(where) + 1 /\ Len(visited) = Len(where) + 1
        BY <3>1, <3>2, <3>3
      <3>5. where \in Paths /\ entered \in Seq(BOOLEAN) /\ visited \in Seq({-1})
        BY <2>1, <3>1, <3>2
      <3>6. QED
        BY <3>1, <3>3, <3>4, <3>5 DEF WalkOK
    <2>4. QED
      BY <2>2, <2>3 DEF TableOK
  <1>9. StackOK
    BY <1>3, <1>5 DEF StackOK, Stacked
  <1>10. LookingOK
    BY <1>3, <1>5 DEF LookingOK, Looking
  <1>11. TypesOK /\ MarksOK
    BY DEF Init, TypesOK, MarksOK
  <1>12. CursorFollowsBlocks
    <2>1. PathOf(stack) = PathOf(<<>>)
      BY <1>2, <1>3, <1>4, PathGrows DEF Scoped
    <2>2. QED
      BY <2>1, NothingIsOpen DEF Init, T!Init, T!Global, CursorFollowsBlocks
  <1>13. NothingFails
    BY DEF Init, NothingFails
  <1>14. AheadOK
    BY DEF Init, AheadOK
  <1>15. QED
    BY <1>7, <1>8, <1>9, <1>10, <1>11, <1>12, <1>13, <1>14 DEF IInv

LEMMA SequenceStep ==
    ASSUME IInv, DeclarationSequence
    PROVE  IInv'
  BY DeclarationStep, DeclaredStep, EnumDeclaredStep, ClassDeclaredStep, TaggedStep
     DEF DeclarationSequence

LEMMA Preserved ==
    ASSUME IInv, Next
    PROVE  IInv'
  <1>1. CASE Parse \/ DeclarationSequence \/ Function \/ Typedef \/ BalancedTokens
    BY <1>1, ParseStep, SequenceStep, FunctionStep, TypedefStep, BalancedStep
  <1>2. CASE \/ AnonymusNamespace \/ NamedNamespace \/ TemplateArguments \/ TemplateDeclaration
             \/ OpenEnum \/ EnumBase \/ EnumBody \/ EndEnum
    BY <1>2, AnonymusStep, NamespaceStep, TemplateArgumentsStep, TemplateStep, OpenEnumStep,
       EnumBaseStep, EnumBodyStep, EndEnumStep
  <1>3. CASE \/ ClassIdentifier \/ QualifiedName \/ OpenClass \/ ClassHeader \/ ClassBody
             \/ SkippedBody \/ Members \/ EndMember
    BY <1>3, ClassIdentifierStep, QualifiedNameStep, OpenClassStep, ClassHeaderStep,
       ClassBodyStep, SkippedBodyStep, MembersStep, EndMemberStep
  <1>4. CASE \/ SeekMember \/ TaggedMember \/ FindMember \/ Method \/ Fields \/ FieldEnd
             \/ MetaTagParam \/ MetaTag \/ FieldMetaTag
    BY <1>4, SeekMemberStep, TaggedMemberStep, FindMemberStep, MethodStep, FieldsStep,
       FieldEndStep, MetaTagParamStep, MetaTagStep, FieldMetaTagStep
  <1>5. QED
    BY <1>1, <1>2, <1>3, <1>4 DEF Next

LEMMA NothingChanges ==
    ASSUME IInv, UNCHANGED vars
    PROVE  IInv'
  <1>1. /\ UNCHANGED lexerVars /\ UNCHANGED scopeVars /\ types' = types /\ lost' = lost
        /\ stack' = stack /\ ret' = ret /\ taggedOnly' = taggedOnly /\ header' = header
        /\ reported' = reported /\ asserted' = asserted
    BY DEF vars, tableVars, marks
  <1>2. Top' = Top /\ (AtEnd' <=> AtEnd) /\ (IsId' <=> IsId) /\ (Is(":")' <=> Is(":"))
    BY <1>1 DEF Top, AtEnd, IsId, Is, lexerVars
  <1>3. LexerOK'
    BY <1>1, <1>2 DEF IInv, LexerOK, TextOK, RestOK, QueueOK, TokenOK, AnswersOK, IsOfText,
          lexerVars
  <1>4. TableOK' /\ curr' = curr /\ scopes' = scopes
    BY <1>1, ScopesStay DEF IInv
  <1>5. StackOK' /\ LookingOK' /\ TypesOK' /\ MarksOK'
    BY <1>1, <1>4 DEF IInv, StackOK, LookingOK, TypesOK, MarksOK, IsType, Sections
  <1>6. CursorFollowsBlocks'
    BY <1>1, <1>2, <1>4 DEF IInv, CursorFollowsBlocks
  <1>7. NothingFails'
    BY <1>1, <1>2 DEF IInv, NothingFails, Untroubled, At
  <1>8. AheadOK'
    BY <1>1, <1>2 DEF IInv, AheadOK, At, lexerVars
  <1>9. QED
    BY <1>3, <1>4, <1>5, <1>6, <1>7, <1>8 DEF IInv

LEMMA TypesFollow ==
    ASSUME IInv
    PROVE  TypeOK
  <1>1. L!TypeOK
    <2>1. rest \in Seq(Words \cup {">"}) /\ text \in Seq(Words) /\ Len(rest) <= Len(text)
      BY DEF IInv, LexerOK, TextOK, RestOK, Words, Punctuation
    <2>2. queue \in Seq(L!Tokens \cup {L!Eof})
      <3>1. CASE queue = <<>>
        BY <3>1
      <3>2. ASSUME NEW t, queue = <<t>>, IsOfText(t) \/ t = L!Eof
            PROVE  queue \in Seq(L!Tokens \cup {L!Eof})
        <4>1. t \in L!Tokens \cup {L!Eof}
          BY <3>2 DEF IsOfText, Tokens
        <4>2. QED
          BY <3>2, <4>1
      <3>3. QED
        BY <3>1, <3>2 DEF IInv, LexerOK, QueueOK
    <2>3. token \in L!Tokens \cup {L!Eof, L!Invalid}
      BY DEF IInv, LexerOK, TokenOK, IsOfText, Tokens
    <2>4. QED
      BY <2>1, <2>2, <2>3 DEF IInv, LexerOK, AnswersOK, Tokens, L!TypeOK
  <1>2. T!TypeOK
    <2>1. /\ scopes \in SUBSET Paths /\ <<>> \in scopes /\ curr \in scopes
          /\ \A s \in scopes : s # <<>> => T!Parent(s) \in scopes
          /\ index \in [scopes -> {-1}] /\ symbols \in [scopes -> {{}}]
      BY DEF IInv, TableOK, TreeOK
    <2>2. \A s \in scopes \ {<<>>} : T!Parent(s) \in scopes /\ T!Key(s) \in ScopeNames
      BY <2>1, ShorterPath
    <2>3. index \in [scopes -> -1..0] /\ symbols \in [scopes -> SUBSET {}]
      BY <2>1
    <2>4. where \in Seq(ScopeNames \cup Nat) /\ visited \in Seq(-1..0)
          /\ last \in -1..0 /\ prev \in -1..0 /\ reading \in BOOLEAN
          /\ mixed \in BOOLEAN /\ strayed \in BOOLEAN /\ calls \in 0..MaxCalls
          /\ entered \in Seq(BOOLEAN) /\ Len(entered) = Len(where) + 1
          /\ Len(visited) = Len(where) + 1
      BY DEF IInv, TableOK, WalkOK, Paths
    <2>5. QED
      BY <2>1, <2>2, <2>3, <2>4 DEF T!TypeOK, T!Global
  <1>3. /\ DOMAIN types \subseteq scopes
        /\ \A s \in DOMAIN types :
              /\ types[s].kind \in Kinds
              /\ types[s].forward \in BOOLEAN /\ types[s].tagged \in BOOLEAN
              /\ types[s].section \in Names \cup Keys \cup {None}
    BY DEF IInv, TypesOK, IsType, Sections
  <1>4. \A n \in 1..Len(stack) : stack[n].at \in Labels /\ stack[n].n \in Int
    BY DEF IInv, StackOK, Stacked, Frames
  <1>5. QED
    BY <1>1, <1>2, <1>3, <1>4 DEF IInv, MarksOK, TypeOK

LEMMA Invariance == Spec => []IInv
  BY Initially, Preserved, NothingChanges, PTL DEF Spec

\* The tokens, the scopes, the types and the calls that are open are what their
\* names say.
THEOREM TypeCorrect == Spec => []TypeOK
  BY Invariance, TypesFollow, PTL

\* Every production of parser.cpp leaves the scope that it has entered, whichever
\* of its ways out it takes, in every header: up to the first error, a type is
\* filed under the blocks that are open around it.
THEOREM BlocksAreFollowed == Spec => []CursorFollowsBlocks
  <1>1. IInv => CursorFollowsBlocks
    BY DEF IInv
  <1>2. QED
    BY <1>1, Invariance, PTL

-----------------------------------------------------------------------------
(* The lexer's modes *)

modes == <<templateMode, metaMode>>
Moded == queue = <<>> \/ At({"name_colon"}) \/ UNCHANGED modes

LEMMA ModesStay ==
    ASSUME Silent \/ L!GetNextToken \/ L!GetCurrToken \/ L!PeekToken(1)
    PROVE  UNCHANGED modes
  BY DEF modes, Silent, lexerVars, L!GetNextToken, L!GetCurrToken, L!PeekToken, L!Delivers

LEMMA CleanIsAlone ==
    ASSUME IInv, At(Clean)
    PROVE  queue = <<>>
  BY DEF IInv, AheadOK, At

LEMMA MarkIsAlone ==
    ASSUME IInv, At({"declarations", "member"}),
           token.type \in {"CLASS_META", "ENUM_META", "FIELD_META"}
    PROVE  queue = <<>>
  <1>1. stack # <<>> /\ Top.at # "member_peeked"
    BY DEF At
  <1>2. token.type \in (Keys \cup Punctuation \cup Keywords) \ {":"}
    BY DEF Keywords
  <1>3. QED
    BY <1>1, <1>2, WordIsAlone

LEMMA ModesOfDeclarations ==
    ASSUME IInv, \/ Parse \/ DeclarationSequence \/ Function \/ Typedef \/ BalancedTokens
                 \/ AnonymusNamespace \/ NamedNamespace
    PROVE  Moded
  <1>1. CASE Parse \/ Function \/ Typedef \/ BalancedTokens
    BY <1>1, ModesStay DEF Moded, Parse, Function, Typedef, BalancedTokens, Eat, Quiet
  <1>2. CASE Declaration
    <2>1. CASE Silent \/ L!GetNextToken \/ L!PeekToken(1)
      BY <2>1, ModesStay DEF Moded
    <2>2. CASE At({"declarations"}) /\ token.type \in {"CLASS_META", "ENUM_META"}
      <3>1. At({"declarations", "member"})
        BY <2>2 DEF At
      <3>2. QED
        BY <2>2, <3>1, MarkIsAlone DEF Moded
    <2>3. QED
      BY <1>2, <2>1, <2>2 DEF Declaration, Eat, Quiet, SkipToken
  <1>3. CASE Declared \/ EnumDeclared \/ ClassDeclared \/ Tagged
    BY <1>3, ModesStay DEF Moded, Declared, EnumDeclared, ClassDeclared, Tagged, Eat, Quiet,
       Fails
  <1>4. CASE AnonymusNamespace \/ NamedNamespace
    BY <1>4, ModesStay DEF Moded, AnonymusNamespace, NamedNamespace, OpenNamespace, Eat, Quiet,
       Fails
  <1>5. QED
    BY <1>1, <1>2, <1>3, <1>4 DEF DeclarationSequence

LEMMA ModesOfTemplates ==
    ASSUME IInv, \/ TemplateArguments \/ TemplateDeclaration
                 \/ OpenEnum \/ EnumBase \/ EnumBody \/ EndEnum
    PROVE  Moded
  <1>1. CASE TemplateArguments
    <2>1. At(Clean)
      BY <1>1 DEF TemplateArguments, At, Clean, Templating
    <2>2. QED
      BY <2>1, CleanIsAlone DEF Moded
  <1>2. CASE TemplateDeclaration
    BY <1>2, ModesStay DEF Moded, TemplateDeclaration, Eat, Quiet
  <1>3. CASE OpenEnum \/ EnumBase \/ EnumBody \/ EndEnum
    BY <1>3, ModesStay DEF Moded, OpenEnum, EnumBase, EnumBody, EndEnum, Eat, Quiet, Fails
  <1>4. QED
    BY <1>1, <1>2, <1>3

LEMMA ModesOfClasses ==
    ASSUME IInv, \/ ClassIdentifier \/ QualifiedName \/ OpenClass \/ ClassHeader
                 \/ ClassBody \/ SkippedBody \/ Members \/ EndMember
    PROVE  Moded
  <1>1. CASE ClassIdentifier
    <2>1. CASE At({"class_name"})
      <3>1. At(Clean)
        BY <2>1 DEF At, Clean
      <3>2. QED
        BY <3>1, CleanIsAlone DEF Moded
    <2>2. CASE At({"name_colon"})
      BY <2>2 DEF Moded
    <2>3. CASE At({"name_next"}) /\ Eat
      BY <2>3, ModesStay DEF Moded, Eat
    <2>4. QED
      BY <1>1, <2>1, <2>2, <2>3 DEF ClassIdentifier
  <1>2. CASE QualifiedName
    <2>1. CASE At({"name"})
      <3>1. At(Clean)
        BY <2>1 DEF At, Clean
      <3>2. QED
        BY <3>1, CleanIsAlone DEF Moded
    <2>2. CASE Eat \/ Quiet
      BY <2>2, ModesStay DEF Moded, Eat, Quiet
    <2>3. QED
      BY <1>2, <2>1, <2>2 DEF QualifiedName
  <1>3. CASE OpenClass \/ ClassHeader \/ ClassBody \/ SkippedBody \/ Members \/ EndMember
    BY <1>3, ModesStay DEF Moded, OpenClass, ClassHeader, ClassBody, SkippedBody, Members,
       EndMember, ClassFails, Eat, Quiet, Fails
  <1>4. QED
    BY <1>1, <1>2, <1>3

LEMMA ModesOfMembers ==
    ASSUME IInv, \/ SeekMember \/ TaggedMember \/ FindMember \/ Method \/ Fields \/ FieldEnd
                 \/ MetaTagParam \/ MetaTag \/ FieldMetaTag
    PROVE  Moded
  <1>1. CASE SeekMember
    <2>1. CASE At({"member"}) /\ Is("FIELD_META")
      <3>1. At({"declarations", "member"}) /\ token.type = "FIELD_META"
        BY <2>1 DEF At, Is
      <3>2. QED
        BY <3>1, MarkIsAlone DEF Moded
    <2>2. CASE L!PeekToken(1)
      BY <2>2, ModesStay DEF Moded
    <2>3. QED
      BY <1>1, <2>1, <2>2 DEF SeekMember
  <1>2. CASE TaggedMember \/ FindMember \/ Method \/ Fields \/ FieldEnd
    BY <1>2, ModesStay DEF Moded, TaggedMember, FindMember, Method, Fields, FieldEnd, Eat, Quiet
  <1>3. CASE MetaTagParam
    BY <1>3, ModesStay DEF Moded, MetaTagParam, BadParameter, Eat, Quiet
  <1>4. CASE MetaTag \/ FieldMetaTag
    <2>1. At({"tag", "tag_open", "tag_next", "tag_flags", "tag_key", "flag_next", "tag_end",
              "field_tag"})
      BY <1>4 DEF MetaTag, FieldMetaTag, At
    <2>2. At(Clean)
      BY <2>1 DEF At, Clean, Tagging
    <2>3. QED
      BY <2>2, CleanIsAlone DEF Moded
  <1>5. QED
    BY <1>1, <1>2, <1>3, <1>4

\* The parser turns a mode of the lexer on or off when no token is read ahead, so
\* that every token is scanned under the mode that its place calls for; except
\* behind a colon that is no part of a name.
THEOREM NoTokenIsOfAnotherMode == Spec => ModesChangeBetweenTokens
  <1>1. IInv /\ [Next]_vars =>
            [modes' # modes => queue = <<>> \/ At({"name_colon"})]_vars
    <2> SUFFICES ASSUME IInv, Next PROVE Moded
      BY DEF Moded
    <2>1. QED
      BY ModesOfDeclarations, ModesOfTemplates, ModesOfClasses, ModesOfMembers DEF Next
  <1>2. QED
    BY <1>1, Invariance, PTL DEF Spec, ModesChangeBetweenTokens, modes

-----------------------------------------------------------------------------
(* The parser as a client of the lexer and of the table *)

CallsLexer == \/ Silent \/ L!GetNextToken \/ L!GetCurrToken \/ L!PeekToken(1)
              \/ \E state \in BOOLEAN : \/ L!SetTemplateArgsParsingMode(state)
                                        \/ L!SetMetaTagParsingMode(state)
CallsTable == \/ UNCHANGED scopeVars \/ T!ExitScope
              \/ \E name \in ScopeNames : T!CreateNamedScope(name) \/ T!EnterNamedScope(name)

LEMMA LexerIsCalled ==
    ASSUME Next
    PROVE  CallsLexer
  <1>1. CASE \/ Parse \/ Declaration \/ Declared \/ EnumDeclared \/ ClassDeclared \/ Tagged
             \/ Function \/ Typedef \/ BalancedTokens
    BY <1>1 DEF CallsLexer, Parse, Declaration, Declared, EnumDeclared, ClassDeclared, Tagged,
       Function, Typedef, BalancedTokens, SkipToken, Eat, Quiet, Fails
  <1>2. CASE AnonymusNamespace \/ NamedNamespace \/ TemplateArguments \/ TemplateDeclaration
    BY <1>2 DEF CallsLexer, AnonymusNamespace, NamedNamespace, OpenNamespace, TemplateArguments,
       TemplateDeclaration, Eat, Quiet, Fails
  <1>3. CASE OpenEnum \/ EnumBase \/ EnumBody \/ EndEnum
    BY <1>3 DEF CallsLexer, OpenEnum, EnumBase, EnumBody, EndEnum, Eat, Quiet, Fails
  <1>4. CASE ClassIdentifier \/ QualifiedName
    BY <1>4 DEF CallsLexer, ClassIdentifier, QualifiedName, Eat, Quiet
  <1>5. CASE OpenClass \/ ClassHeader \/ ClassBody \/ SkippedBody \/ Members \/ EndMember
    BY <1>5 DEF CallsLexer, OpenClass, ClassHeader, ClassBody, SkippedBody, Members, EndMember,
       ClassFails, Eat, Quiet, Fails
  <1>6. CASE SeekMember \/ TaggedMember \/ FindMember \/ Method \/ Fields \/ FieldEnd
    BY <1>6 DEF CallsLexer, SeekMember, TaggedMember, FindMember, Method, Fields, FieldEnd,
       Eat, Quiet
  <1>7. CASE MetaTagParam \/ MetaTag \/ FieldMetaTag
    BY <1>7 DEF CallsLexer, MetaTagParam, MetaTag, FieldMetaTag, BadParameter, TagFails, EndTag,
       Eat, Quiet
  <1>8. QED
    BY <1>1, <1>2, <1>3, <1>4, <1>5, <1>6, <1>7 DEF Next, DeclarationSequence

LEMMA CreatingCalls ==
    ASSUME NEW name \in ScopeNames, CreateScope(name)
    PROVE  CallsTable
  BY DEF CallsTable, CreateScope

LEMMA LeavingCalls ==
    ASSUME ExitScope
    PROVE  CallsTable
  BY DEF CallsTable, ExitScope

LEMMA TableIsCalled ==
    ASSUME IInv, Next
    PROVE  CallsTable
  <1>0. NoTable \/ UNCHANGED tableVars \/ UNCHANGED <<scopeVars, lost>> => CallsTable
    BY DEF NoTable, tableVars, CallsTable
  <1>1. CASE \/ Parse \/ Declaration \/ Declared \/ EnumDeclared \/ ClassDeclared \/ Tagged
             \/ Function \/ Typedef \/ BalancedTokens \/ AnonymusNamespace
    BY <1>0, <1>1 DEF Parse, Declaration, Declared, EnumDeclared, ClassDeclared, Tagged,
       Function, Typedef, BalancedTokens, AnonymusNamespace, SkipToken, Eat, Quiet, Fails
  <1>2. CASE NamedNamespace
    <2>1. CASE IsId /\ CreateScope(<<Word>>)
      BY <2>1, NameOfWord, CreatingCalls
    <2>2. CASE UNCHANGED <<scopeVars, lost, marks>>
      BY <2>2 DEF CallsTable
    <2>3. QED
      BY <1>0, <1>2, <2>1, <2>2, LeavingCalls DEF NamedNamespace, OpenNamespace, Eat, Quiet, Fails
  <1>3. CASE TemplateArguments \/ TemplateDeclaration \/ ClassIdentifier \/ QualifiedName
    BY <1>0, <1>3 DEF TemplateArguments, TemplateDeclaration, ClassIdentifier, QualifiedName,
       Eat, Quiet
  <1>4. CASE OpenEnum \/ EnumBase \/ EnumBody \/ EndEnum
    <2>1. CASE IsId /\ CreateScope(<<Word>>)
      BY <2>1, NameOfWord, CreatingCalls
    <2>2. ASSUME NEW forward, CloseEnum(forward)
          PROVE  CallsTable
      BY <2>2, LeavingCalls DEF CloseEnum
    <2>3. QED
      BY <1>0, <1>4, <2>1, <2>2 DEF OpenEnum, EnumBase, EnumBody, EndEnum, Eat, Quiet, Fails
  <1>5. CASE OpenClass
    <2>1. CASE At({"class_scope"}) /\ (T!EnterNamedScope(Top.id) \/ T!CreateNamedScope(Top.id))
      <3>1. Top.id \in ScopeNames
        BY <2>1, TopIsFrame DEF At
      <3>2. QED
        BY <2>1, <3>1 DEF CallsTable
    <2>2. QED
      BY <1>0, <1>5, <2>1 DEF OpenClass, Eat, Quiet, Fails
  <1>6. CASE ClassHeader \/ ClassBody \/ SkippedBody \/ Members \/ EndMember
    <2>1. CASE UNCHANGED <<scopeVars, lost, marks>>
      BY <2>1 DEF CallsTable
    <2>2. ASSUME NEW value, ReturnClass(value)
          PROVE  CallsTable
      BY <2>2, LeavingCalls DEF ReturnClass
    <2>3. QED
      BY <1>0, <1>6, <2>1, <2>2 DEF ClassHeader, ClassBody, SkippedBody, Members, EndMember,
         ClassFails, Eat, Quiet
  <1>7. CASE SeekMember \/ TaggedMember \/ FindMember \/ Method \/ Fields \/ FieldEnd
    <2>1. CASE UNCHANGED <<taggedOnly, header, scopeVars, lost>>
      BY <2>1 DEF CallsTable
    <2>2. QED
      BY <1>0, <1>7, <2>1 DEF SeekMember, TaggedMember, FindMember, Method, Fields, FieldEnd,
         Eat, Quiet
  <1>8. CASE MetaTagParam \/ MetaTag \/ FieldMetaTag
    BY <1>0, <1>8 DEF MetaTagParam, MetaTag, FieldMetaTag, BadParameter, TagFails, EndTag,
       Eat, Quiet
  <1>9. QED
    BY <1>1, <1>2, <1>3, <1>4, <1>5, <1>6, <1>7, <1>8 DEF Next, DeclarationSequence

\* The parser uses its parts as their specifications say they are used: a step makes
\* at most one call to the lexer and one to the table, and changes nothing of
\* either by itself.
THEOREM PartsAreCalled == Spec => T!Spec /\ [][L!Next]_(L!vars)
  <1>1. Init => T!Init
    BY DEF Init
  <1>2. IInv /\ [Next]_vars => [T!Next]_(T!vars)
    <2>1. UNCHANGED scopeVars => UNCHANGED T!vars
      BY DEF scopeVars, T!vars, T!tree, T!cursor, T!count
    <2>2. UNCHANGED vars => UNCHANGED scopeVars
      BY DEF vars, tableVars
    <2>3. CallsTable => [T!Next]_(T!vars)
      BY <2>1 DEF CallsTable, T!Next
    <2>4. QED
      BY <2>1, <2>2, <2>3, TableIsCalled
  <1>3. [Next]_vars => [L!Next]_(L!vars)
    <2>1. UNCHANGED lexerVars => UNCHANGED L!vars
      BY DEF lexerVars, L!vars
    <2>2. UNCHANGED vars => UNCHANGED lexerVars
      BY DEF vars
    <2>3. CallsLexer => [L!Next]_(L!vars)
      BY <2>1 DEF CallsLexer, L!Next, Silent
    <2>4. QED
      BY <2>1, <2>2, <2>3, LexerIsCalled
  <1>4. QED
    BY <1>1, <1>2, <1>3, Invariance, PTL DEF Spec, T!Spec

-----------------------------------------------------------------------------
(* What is proved of a lexer holds of the lexer of a parser. *)

P == INSTANCE LexerProofs WITH MaxText <- 0, MaxQueue <- 1, Offsets <- {1}

LEMMA KeysAreWords == Keys \subseteq Words \ {">>", ">", "begin", "end"}
  BY ParserAssumption DEF Words, Keys, Punctuation, Keywords

LEMMA SameTokens ==
    L!Tokens = P!Tokens /\ L!Eof = P!Eof /\ L!Invalid = P!Invalid /\ L!vars = P!vars
  BY DEF L!Tokens, P!Tokens, L!Eof, P!Eof, L!Invalid, P!Invalid, L!Types, P!Types, L!vars, P!vars

LEMMA SameScanning ==
    /\ \A r : L!ScannedToken(r) = P!ScannedToken(r)
    /\ \A r : L!AfterToken(r) = P!AfterToken(r)
    /\ \A r : L!Unignored(r) = P!Unignored(r)
  BY DEF L!ScannedToken, P!ScannedToken, L!AfterToken, P!AfterToken, L!Unignored, P!Unignored,
     L!TypeOf, P!TypeOf, L!Position, P!Position, L!AfterSection, P!AfterSection, L!Eof, P!Eof

LEMMA SameFetching == L!Fetch = P!Fetch
  BY DEF L!Fetch, P!Fetch, L!NextToken, P!NextToken, L!AfterNext, P!AfterNext,
     L!ScannedToken, P!ScannedToken, L!AfterToken, P!AfterToken, L!Unignored, P!Unignored,
     L!TypeOf, P!TypeOf, L!Position, P!Position, L!AfterSection, P!AfterSection, L!Eof, P!Eof

LEMMA SameCalls ==
    /\ L!Delivers => P!Delivers
    /\ L!GetNextToken <=> P!GetNextToken
    /\ L!GetCurrToken => P!GetCurrToken
    /\ L!PeekToken(1) => P!PeekToken(1)
    /\ \A state \in BOOLEAN :
          /\ L!SetTemplateArgsParsingMode(state) => P!SetTemplateArgsParsingMode(state)
          /\ L!SetMetaTagParsingMode(state) => P!SetMetaTagParsingMode(state)
  <1>1. L!Delivers <=> P!Delivers
    BY SameTokens, SameScanning DEF L!Delivers, P!Delivers, L!Advance, P!Advance, L!NextToken,
       P!NextToken, L!AfterNext, P!AfterNext
  <1>2. L!GetNextToken <=> P!GetNextToken
    BY <1>1 DEF L!GetNextToken, P!GetNextToken
  <1>3. L!GetCurrToken => P!GetCurrToken
    BY <1>1, SameTokens DEF L!GetCurrToken, P!GetCurrToken
  <1>4. L!PeekToken(1) => P!PeekToken(1)
    BY SameTokens, SameFetching DEF L!PeekToken, P!PeekToken, L!Peeked, P!Peeked, L!Place, P!Place
  <1>5. \A state \in BOOLEAN :
          /\ L!SetTemplateArgsParsingMode(state) => P!SetTemplateArgsParsingMode(state)
          /\ L!SetMetaTagParsingMode(state) => P!SetMetaTagParsingMode(state)
    BY DEF L!SetTemplateArgsParsingMode, P!SetTemplateArgsParsingMode,
       L!SetMetaTagParsingMode, P!SetMetaTagParsingMode
  <1>6. QED
    BY <1>1, <1>2, <1>3, <1>4, <1>5

LEMMA LexerStep == [Next]_vars => [P!Next]_(P!vars)
  <1>1. UNCHANGED lexerVars => UNCHANGED P!vars
    BY DEF lexerVars, P!vars
  <1>2. UNCHANGED vars => UNCHANGED lexerVars
    BY DEF vars
  <1>3. CallsLexer => P!Next \/ UNCHANGED lexerVars
    BY SameCalls DEF CallsLexer, P!Next, Silent
  <1>4. QED
    BY <1>1, <1>2, <1>3, LexerIsCalled

LEMMA LexerBegins ==
    ASSUME Init
    PROVE  P!IInv
  <1>1. text \in Seq(Words) /\ rest = text
    BY ParserAssumption DEF Init
  <1>2. P!Begins
    BY SameTokens DEF Init, P!Begins
  <1>3. QED
    BY <1>1, <1>2, KeysAreWords, P!NothingIsScanned

\* Each instance has its own instance of FiniteSets.
LEMMA SameCounting == \A S : L!Cardinality(S) = P!Cardinality(S)
  BY DEF L!Cardinality, P!Cardinality

LEMMA SameReading ==
    ASSUME P!ScannedIsText
    PROVE  L!ScannedIsText
  <1>1. L!Scanned = P!Scanned /\ L!Passed = P!Passed
    BY DEF L!Scanned, P!Scanned, L!Passed, P!Passed
  <1>2. L!Ignored = P!Ignored
    BY DEF L!Ignored, P!Ignored, L!SectionOf, P!SectionOf
  <1>3. \A i, j \in 1..Len(L!Scanned) :
           i < j /\ L!Scanned[j] # L!Eof =>
               L!Scanned[i].at <= L!Scanned[j].at /\ L!Scanned[i] # L!Eof
    BY <1>1, SameTokens DEF P!ScannedIsText
  <1>4. ASSUME NEW k \in L!Passed \ L!Ignored
        PROVE  L!Cardinality({i \in 1..Len(L!Scanned) : L!Scanned[i].at = k}) =
                   IF /\ text[k] = ">>"
                      /\ \E i \in 1..Len(L!Scanned) : L!Scanned[i] = [type |-> ">", at |-> k]
                   THEN 2 ELSE 1
    <2> DEFINE TokensOf(s) == {i \in 1..Len(s) : s[i].at = k}
    <2>1. P!Cardinality(TokensOf(P!Scanned)) =
              IF /\ text[k] = ">>"
                 /\ \E i \in 1..Len(P!Scanned) : P!Scanned[i] = [type |-> ">", at |-> k]
              THEN 2 ELSE 1
      BY <1>1, <1>2, <1>4 DEF P!ScannedIsText
    <2>2. TokensOf(L!Scanned) = TokensOf(P!Scanned)
      BY <1>1
    <2>3. QED
      BY <1>1, <2>1, <2>2, SameCounting
  <1>5. QED
    BY <1>3, <1>4 DEF L!ScannedIsText

\* Whatever the parser peeks at, skips and switches, in every header of any length: the
\* tokens it has had are the words of the header up to where it is, in order and each
\* once, and the token of a peek is the next one it gets.
THEOREM HeaderIsReadInOrder == Spec => []L!ScannedIsText /\ L!PeekIsKept
  <1>1. Init => P!IInv
    BY LexerBegins
  <1>2. P!IInv /\ [Next]_vars => P!IInv'
    BY LexerStep, KeysAreWords, P!IInvStep
  <1>3. P!IInv => L!ScannedIsText
    BY SameReading, KeysAreWords, P!TokensAreTheWords
  <1>4. P!IInv /\ [Next]_vars => [L!GetNextToken => promised \in {L!Invalid, token'}]_(L!vars)
    BY LexerStep, KeysAreWords, SameTokens, SameCalls, P!NextTokenIsPromised
  <1>5. QED
    BY <1>1, <1>2, <1>3, <1>4, PTL DEF Spec, L!PeekIsKept


-----------------------------------------------------------------------------
(* Progress: no step before the end of the text leaves the parser where it was. *)
(* This is the part of ParsingEnds that needs no fairness.                      *)

\* At most two tokens for a word, since a >> may be taken in halves, and one for
\* the half that is left.
Left(r) == 2 * Len(r) - (IF r # <<>> /\ r[1] = ">" THEN 1 ELSE 0)

\* What GetNextToken has still to give, the end of the text included.
TokensLeft == Left(rest) + (IF queue = <<>> \/ queue = <<L!Eof>> THEN 0 ELSE 1)
                         + (IF AtEnd THEN 0 ELSE 1)

\* How far a production may get from a label without taking a token.  What
\* takes one at once is at 0.
Height(at) ==
    CASE at \in {"identifier", "type_defined", "tag", "name_next", "matching", "crashed"} -> 0
      [] at \in {"anonymous_end", "typedef", "name_colon", "name_peeked", "member_peeked",
                 "member_found", "field_value", "section_equals", "section_id",
                 "flags_equals", "flag"} -> 4
      [] at \in {"name", "field_end", "member_tagged"} -> 5
      [] at \in {"class_name", "field_tag"} -> 6
      [] at \in {"declarations", "class_body", "template_of", "template_function_name"} -> 11
      [] at \in {"start", "declared", "class_tagged", "enum_tagged", "function_body",
                 "class_head", "class_bases", "base_end", "template_arguments"} -> 12
      [] at = "class_scope" -> 13
      [] at \in {"template", "template_function"} -> 14
      [] at \in {"class", "base", "member"} -> 17
      [] at \in {"method", "method_body"} -> 20
      [] at = "members" -> 28
      [] OTHER -> 3

\* Balanced tokens are taken if the token opens some; behind a method the members
\* go on at once.
Rank(s, type, value) ==
    IF s = <<>> THEN 0
    ELSE IF s[Len(s)].at = "balanced"
    THEN IF type \in DOMAIN Closing THEN 0
         ELSE IF Len(s) > 1 /\ s[Len(s) - 1].at \in {"template_arguments",
                                                     "template_function_body"} THEN 3
         ELSE 11
    ELSE IF s[Len(s)].at = "member_declared" /\ value = "method" THEN 29
    ELSE Height(s[Len(s)].at)

\* A call that is open costs more than what returns from it may gain.
Depth(s, type, value) == 10 * Len(s) + Rank(s, type, value)

Fuel == 40 * TokensLeft + Depth(stack, token.type, ret)

Takes == L!GetNextToken \/ (L!GetCurrToken /\ token = L!Invalid)
Keeps == token' = token /\ (L!PeekToken(1) \/ (rest' = rest /\ queue' = queue))

\* A step takes a token, or comes nearer to where one is taken.
Advances ==
    \/ Takes /\ Len(stack') \in Nat /\ Len(stack') <= Len(stack) + 1
    \/ Keeps /\ Depth(stack', token.type, ret') \in Nat
             /\ Depth(stack', token.type, ret') < Depth(stack, token.type, ret)

-----------------------------------------------------------------------------
(* The tokens that are left *)

LEMMA LeftIsNat ==
    ASSUME NEW r \in Seq(Words)
    PROVE  Left(r) \in Nat /\ (r = <<>> => Left(r) = 0)
  <1>1. Len(r) \in Nat /\ (r # <<>> => Len(r) >= 1) /\ (r = <<>> => Len(r) = 0)
    BY LenProperties, EmptySeq
  <1>2. QED
    BY <1>1 DEF Left

LEMMA OneIsTaken ==
    ASSUME NEW r \in Seq(Words), r # <<>>
    PROVE  L!AfterNext(r) \in Seq(Words) /\ Left(L!AfterNext(r)) + 1 <= Left(r)
  <1> DEFINE tail == Tail(r)
             half == <<">">> \o tail
  <1>1. Len(r) \in Nat /\ Len(r) >= 1
    BY LenProperties, EmptySeq
  <1>2. /\ tail \in Seq(Words) /\ Len(tail) = Len(r) - 1 /\ Head(r) = r[1]
    BY HeadTailProperties
  <1>3. /\ half \in Seq(Words) /\ Len(half) = Len(r) /\ half[1] = ">"
    <2>1. <<">">> \in Seq(Words) /\ Len(<<">">>) = 1 /\ <<">">>[1] = ">"
      BY WordsAreTokens
    <2> HIDE DEF tail
    <2>2. QED
      BY <1>1, <1>2, <2>1, ConcatProperties
  <1>4. L!AfterNext(r) = IF r[1] = ">>" /\ templateMode THEN half ELSE tail
    BY <1>2, NothingIsIgnored DEF L!AfterNext, L!AfterToken
  <1> HIDE DEF tail, half
  <1>5. half # <<>>
    BY <1>1, <1>3, EmptySeq
  <1>6. CASE r[1] = ">>" /\ templateMode
    BY <1>1, <1>3, <1>4, <1>5, <1>6 DEF Left
  <1>7. CASE ~(r[1] = ">>" /\ templateMode)
    <2>1. Left(tail) <= 2 * Len(tail)
      BY <1>1, <1>2 DEF Left
    <2>2. 2 * Len(r) - 1 <= Left(r) /\ Left(r) \in Nat /\ Left(tail) \in Nat
      BY <1>1, <1>2, LeftIsNat DEF Left
    <2>3. Left(tail) + 1 <= Left(r)
      BY <1>1, <1>2, <2>1, <2>2
    <2>4. QED
      BY <1>2, <1>4, <1>7, <2>3
  <1>8. QED
    BY <1>6, <1>7

LEMMA TokensAreNat ==
    ASSUME LexerOK
    PROVE  TokensLeft \in Nat
  <1>1. Left(rest) \in Nat
    BY LeftIsNat DEF LexerOK, RestOK
  <1>2. QED
    BY <1>1 DEF TokensLeft

\* A token that is taken is one less.
LEMMA TakingUses ==
    ASSUME LexerOK, Takes, ~AtEnd
    PROVE  TokensLeft' \in Nat /\ TokensLeft' + 1 <= TokensLeft
  <1>1. L!Delivers
    <2>1. CASE L!GetNextToken
      BY <2>1 DEF L!GetNextToken
    <2>2. CASE L!GetCurrToken /\ token = L!Invalid
      <3>1. queue = <<>>
        BY <2>2, InvalidIsNoToken DEF LexerOK, TokenOK
      <3>2. QED
        BY <2>2, <3>1 DEF L!GetCurrToken
    <2>3. QED
      BY <2>1, <2>2 DEF Takes
  <1>2. rest \in Seq(Words) /\ Left(rest) \in Nat
    BY LeftIsNat DEF LexerOK, RestOK
  <1>3. queue' = <<>>
    BY <1>1, DeliverStep
  <1>4. TokensLeft' = Left(rest') + (IF token' = L!Eof THEN 0 ELSE 1) /\ Left(rest') \in Nat
    <2>1. TokensLeft' = Left(rest') + 0 + (IF token' = L!Eof THEN 0 ELSE 1)
      BY <1>3 DEF TokensLeft, AtEnd, Left
    <2>2. Left(rest') \in Nat
      BY <1>1, DeliverStep, LeftIsNat DEF Reads, RestOK
    <2>3. QED
      BY <2>1, <2>2
  <1>5. TokensLeft = Left(rest) + (IF queue = <<>> \/ queue = <<L!Eof>> THEN 0 ELSE 1) + 1
    BY DEF TokensLeft
  <1>6. ASSUME queue # <<>> PROVE TokensLeft' + 1 <= TokensLeft
    <2>1. PICK t : queue = <<t>> /\ (IsOfText(t) \/ (t = L!Eof /\ rest = <<>>))
      BY <1>6 DEF LexerOK, QueueOK
    <2>2. token' = t /\ rest' = rest
      BY <1>1, <1>6, <2>1 DEF L!Delivers, L!Advance
    <2>3. CASE t = L!Eof
      BY <1>2, <1>4, <1>5, <2>1, <2>2, <2>3
    <2>4. CASE t # L!Eof
      <3>1. queue # <<L!Eof>>
        BY <2>1, <2>4
      <3>2. QED
        BY <1>2, <1>4, <1>5, <1>6, <2>2, <2>4, <3>1
    <2>5. QED
      BY <2>3, <2>4
  <1>7. ASSUME queue = <<>>, rest # <<>> PROVE TokensLeft' + 1 <= TokensLeft
    <2>1. rest' = L!AfterNext(rest)
      BY <1>1, <1>7 DEF L!Delivers, L!Advance
    <2>2. Left(rest') \in Nat /\ Left(rest') + 1 <= Left(rest)
      BY <1>2, <1>7, <2>1, OneIsTaken, LeftIsNat
    <2>3. QED
      BY <1>2, <1>4, <1>5, <1>7, <2>2
  <1>8. ASSUME queue = <<>>, rest = <<>> PROVE TokensLeft' + 1 <= TokensLeft
    <2>1. token' = L!Eof /\ rest' = <<>>
      BY <1>1, <1>8, EndIsRead DEF L!Delivers, L!Advance
    <2>2. QED
      BY <1>2, <1>4, <1>5, <1>8, <2>1
  <1>9. TokensLeft' \in Nat
    BY <1>4
  <1>10. QED
    BY <1>6, <1>7, <1>8, <1>9

\* One that is peeked at still counts.
LEMMA KeepingKeeps ==
    ASSUME LexerOK, Keeps
    PROVE  TokensLeft' \in Nat /\ TokensLeft' <= TokensLeft
  <1>1. rest \in Seq(Words) /\ Left(rest) \in Nat
    BY LeftIsNat DEF LexerOK, RestOK
  <1>2. token' = token
    BY DEF Keeps
  <1>3. TokensLeft' = Left(rest') + (IF queue' = <<>> \/ queue' = <<L!Eof>> THEN 0 ELSE 1)
                                  + (IF AtEnd THEN 0 ELSE 1)
    BY <1>2 DEF TokensLeft, AtEnd, Left
  <1>4. CASE rest' = rest /\ queue' = queue
    BY <1>1, <1>3, <1>4 DEF TokensLeft
  <1>5. CASE L!PeekToken(1)
    <2>1. queue' = L!Peeked(1)[1] /\ rest' = L!Peeked(1)[2]
      BY <1>5 DEF L!PeekToken
    <2>2. CASE queue # <<>>
      <3>1. queue' = queue /\ rest' = rest
        BY <2>1, <2>2 DEF L!Peeked, LexerOK, QueueOK
      <3>2. QED
        BY <1>4, <3>1
    <2>3. CASE queue = <<>>
      <3>1. queue' = <<L!NextToken(rest)>> /\ rest' = L!AfterNext(rest)
        BY <2>1, <2>3, FetchesOne DEF L!Peeked
      <3>2. CASE rest = <<>>
        BY <1>1, <1>3, <2>3, <3>1, <3>2, EndIsRead DEF TokensLeft
      <3>3. CASE rest # <<>>
        <4>1. /\ Left(L!AfterNext(rest)) \in Nat
              /\ Left(L!AfterNext(rest)) + 1 <= Left(rest)
          BY <1>1, <3>3, OneIsTaken, LeftIsNat
        <4>2. TokensLeft = Left(rest) + 0 + (IF AtEnd THEN 0 ELSE 1)
          BY <2>3 DEF TokensLeft
        <4>3. QED
          BY <1>1, <1>3, <3>1, <4>1, <4>2
      <3>4. QED
        BY <3>2, <3>3
    <2>4. QED
      BY <2>2, <2>3
  <1>6. QED
    BY <1>4, <1>5 DEF Keeps


-----------------------------------------------------------------------------
(* The labels that are left *)

LEMMA Heights ==
    /\ \A b : Height(b) \in 0..28
    /\ \A b \in {"identifier", "type_defined", "tag", "name_next", "matching", "crashed"} :
          Height(b) = 0
    /\ \A b \in {"anonymous_end", "typedef", "name_colon", "name_peeked", "member_peeked",
                 "member_found", "field_value", "section_equals", "section_id",
                 "flags_equals", "flag"} : Height(b) = 4
    /\ \A b \in {"name", "field_end", "member_tagged"} : Height(b) = 5
    /\ \A b \in {"class_name", "field_tag"} : Height(b) = 6
    /\ \A b \in {"declarations", "class_body", "template_of", "template_function_name"} :
          Height(b) = 11
    /\ \A b \in {"start", "declared", "class_tagged", "enum_tagged", "function_body",
                 "class_head", "class_bases", "base_end", "template_arguments"} :
          Height(b) = 12
    /\ Height("class_scope") = 13
    /\ \A b \in {"template", "template_function"} : Height(b) = 14
    /\ \A b \in {"class", "base", "member"} : Height(b) = 17
    /\ \A b \in {"method", "method_body"} : Height(b) = 20
    /\ Height("members") = 28
  BY DEF Height

\* The others fail, or return at once.
LEMMA OtherHeights ==
    \A b \in {"namespace", "namespace_name", "namespace_brace", "namespace_end",
              "enum_declared", "class_declared", "declarators", "template_function_body",
              "enum", "enum_name", "enum_base", "underlying_type", "enumerators",
              "enumerator", "enumerator_value", "body_skipped", "access", "member_end",
              "member_declared", "fields", "tag_open", "tag_key", "tag_flags", "flag_next",
              "tag_next", "tag_end"} : Height(b) = 3
  BY DEF Height

\* What may stand below a call.
LEMMA LowBelow ==
    /\ \A b : b \notin Clean \cup {"class_scope", "method", "method_body", "members",
                                   "member", "template_function"}
                 => Height(b) <= 12
    /\ \A b : b \notin Clean \cup {"members", "member"} \/ b \in Templating
                 => Height(b) <= 20
  BY DEF Height, Clean, Templating

\* A stack by its last two frames.
LEMMA RankOfTop ==
    ASSUME NEW S, NEW u \in Seq(S), NEW f, NEW type, NEW value
    PROVE  LET s == Append(u, f)
           IN  /\ Len(s) = Len(u) + 1 /\ Len(u) \in Nat
               /\ Depth(s, type, value) = 10 * (Len(u) + 1) + Rank(s, type, value)
               /\ Rank(s, type, value) \in 0..29
               /\ f.at \notin {"balanced", "member_declared"}
                     => Rank(s, type, value) = Height(f.at)
               /\ f.at = "member_declared"
                     => Rank(s, type, value) = IF value = "method" THEN 29 ELSE 3
               /\ f.at = "balanced" /\ type \in DOMAIN Closing => Rank(s, type, value) = 0
               /\ f.at = "balanced" /\ type \notin DOMAIN Closing
                     => Rank(s, type, value) =
                           IF u # <<>> /\ u[Len(u)].at \in {"template_arguments",
                                                            "template_function_body"}
                           THEN 3 ELSE 11
  <1> DEFINE s == Append(u, f)
  <1>1. u \in Seq(S \cup {f})
    OBVIOUS
  <1>2. Len(u) \in Nat /\ Len(s) = Len(u) + 1 /\ s[Len(u) + 1] = f
        /\ \A k \in 1..Len(u) : s[k] = u[k]
        /\ s # <<>>
    BY <1>1, LenProperties, AppendProperties
  <1>3. u # <<>> <=> Len(u) > 0
    BY <1>2, EmptySeq
  <1> HIDE DEF s
  <1>4. s[Len(s)] = f /\ Len(s) - 1 = Len(u) /\ (Len(s) > 1 <=> Len(u) > 0)
    BY <1>2
  <1>5. Len(u) > 0 => s[Len(s) - 1] = u[Len(u)]
    BY <1>2, <1>4
  <1>6. Height(f.at) \in 0..28 /\ Height("member_declared") = 3
    BY Heights, OtherHeights
  <1>7. Rank(s, type, value) =
          IF f.at = "balanced"
          THEN IF type \in DOMAIN Closing THEN 0
               ELSE IF u # <<>> /\ u[Len(u)].at \in {"template_arguments",
                                                     "template_function_body"} THEN 3
               ELSE 11
          ELSE IF f.at = "member_declared" /\ value = "method" THEN 29 ELSE Height(f.at)
    BY <1>2, <1>3, <1>4, <1>5 DEF Rank
  <1>8. Depth(s, type, value) = 10 * (Len(u) + 1) + Rank(s, type, value)
    BY <1>2 DEF Depth
  <1>9. Rank(s, type, value) \in 0..29
    BY <1>6, <1>7
  <1>10. QED
    BY <1>2, <1>6, <1>7, <1>8, <1>9 DEF s

LEMMA DepthIsNat ==
    ASSUME NEW s, Len(s) \in Nat, NEW type, NEW value
    PROVE  /\ Rank(s, type, value) \in 0..29
           /\ Depth(s, type, value) \in Nat
  <1> DEFINE h == Height(s[Len(s)].at)
             r == Rank(s, type, value)
  <1>1. h \in 0..28
    BY Heights
  <1>2. r = 0 \/ r = 3 \/ r = 11 \/ r = 29 \/ r = h
    BY DEF Rank
  <1>3. r \in 0..29
    <2> HIDE DEF r, h
    <2>1. QED
      BY ONLY <1>1, <1>2
  <1>4. Depth(s, type, value) = 10 * Len(s) + r
    BY DEF Depth
  <1>5. QED
    <2>1. \A n \in Nat, m \in 0..29 : 10 * n + m \in Nat
      OBVIOUS
    <2> HIDE DEF r
    <2>2. QED
      BY <1>3, <1>4, <2>1 DEF r

LEMMA StackIsOpen ==
    ASSUME IInv, stack # <<>>
    PROVE  /\ Under \in Seq(Frames) /\ Top \in Frames /\ stack = Append(Under, Top)
           /\ Len(stack) = Len(Under) + 1 /\ Len(Under) \in Nat
           /\ Under # <<>> => Above(Under[Len(Under)].at, Top.at)
  <1>1. /\ Under \in Seq(Frames) /\ Top \in Frames /\ Rests(Under, Top.at)
        /\ Len(stack) = Len(Under) + 1 /\ Len(Under) \in Nat
    BY OpenCalls DEF IInv
  <1>2. stack = Append(Under, Top)
    BY StackSplits DEF IInv, StackOK, Stacked, Under, Top
  <1>3. QED
    BY <1>1, <1>2 DEF Rests


-----------------------------------------------------------------------------
(* Steps that take a token, and steps that do not *)

\* No step opens more than one call.
Opens == Len(stack') \in Nat /\ Len(stack') <= Len(stack) + 1

LEMMA StepsOpenOne ==
    ASSUME IInv, stack # <<>>
    PROVE  /\ \A f : Becomes(f) => Opens
           /\ \A b : Goto(b) => Opens
           /\ \A f, b : Call(f, b) => Opens
           /\ \A value : Return(value) => Opens
           /\ \A b, word : ReadInto(b, word) => Opens
           /\ \A name : SetSection(name) => Opens
           /\ \A f, g : stack' = Under \o <<f, g>> => Opens
           /\ GiveName => Opens
  <1>1. Under \in Seq(Frames) /\ Len(stack) = Len(Under) + 1 /\ Len(Under) \in Nat
        /\ stack \in Seq(Frames)
    BY StackIsOpen DEF IInv, StackOK, Stacked
  <1>2. ASSUME NEW f, Becomes(f) PROVE Opens
    BY <1>1, <1>2, RankOfTop DEF Becomes, Opens
  <1>3. ASSUME NEW f, NEW g, stack' = Under \o <<f, g>> PROVE Opens
    <2>1. Under \in Seq(Frames \cup {f, g}) /\ <<f, g>> \in Seq(Frames \cup {f, g})
          /\ Len(<<f, g>>) = 2
      BY <1>1
    <2>2. Len(stack') = Len(Under) + 2
      BY <1>3, <2>1, ConcatProperties
    <2>3. QED
      BY <1>1, <2>2 DEF Opens
  <1>4. ASSUME NEW value, Return(value) PROVE Opens
    BY <1>1, <1>4 DEF Return, Opens
  <1>5. ASSUME NEW name, SetSection(name) PROVE Opens
    <2>1. Len(stack') = Len(stack)
      BY <1>1, <1>5 DEF SetSection
    <2>2. QED
      BY <1>1, <2>1 DEF Opens
  <1>6. ASSUME GiveName PROVE Opens
    <2>1. Len(stack') = Len(Under)
      BY <1>1, <1>6 DEF GiveName
    <2>2. QED
      BY <1>1, <2>1 DEF Opens
  <1>7. \A f, b : Call(f, b) => Opens
    BY <1>3 DEF Call
  <1>8. QED
    BY <1>2, <1>3, <1>4, <1>5, <1>6, <1>7 DEF Goto, ReadInto

LEMMA TakingAdvances ==
    ASSUME Takes, Opens
    PROVE  Advances
  BY DEF Advances, Opens

LEMMA QuietKeeps ==
    /\ Silent => Keeps
    /\ Quiet => Keeps
    /\ L!PeekToken(1) => Keeps
    /\ \A state : L!SetTemplateArgsParsingMode(state) => Keeps
    /\ \A state : L!SetMetaTagParsingMode(state) => Keeps
  BY DEF Keeps, Silent, Quiet, lexerVars, L!PeekToken, L!SetTemplateArgsParsingMode,
     L!SetMetaTagParsingMode

\* The rank of the call on top.
LEMMA RankHere ==
    ASSUME IInv, stack # <<>>
    PROVE  /\ Depth(stack, token.type, ret) =
                 10 * (Len(Under) + 1) + Rank(stack, token.type, ret)
           /\ Rank(stack, token.type, ret) \in 0..29
           /\ Top.at \notin {"balanced", "member_declared"}
                 => Rank(stack, token.type, ret) = Height(Top.at)
           /\ Top.at # "balanced" => Height(Top.at) <= Rank(stack, token.type, ret)
           /\ Top.at = "balanced" /\ token.type \notin DOMAIN Closing
                 => Rank(stack, token.type, ret) =
                       IF Under # <<>> /\ Under[Len(Under)].at \in {"template_arguments",
                                                                    "template_function_body"}
                       THEN 3 ELSE 11
           /\ Top.at = "member_declared" /\ ret = "method"
                 => Rank(stack, token.type, ret) = 29
  <1>1. Under \in Seq(Frames) /\ stack = Append(Under, Top)
    BY StackIsOpen
  <1> DEFINE r == Rank(stack, token.type, ret)
  <1>2. /\ Depth(stack, token.type, ret) = 10 * (Len(Under) + 1) + r
        /\ r \in 0..29
        /\ Top.at \notin {"balanced", "member_declared"} => r = Height(Top.at)
        /\ Top.at = "member_declared" => r = IF ret = "method" THEN 29 ELSE 3
        /\ Top.at = "balanced" /\ token.type \notin DOMAIN Closing
                 => r = IF Under # <<>> /\ Under[Len(Under)].at \in {"template_arguments",
                                                                    "template_function_body"}
                       THEN 3 ELSE 11
    BY <1>1, RankOfTop
  <1> HIDE DEF r
  <1>3. Height("member_declared") = 3
    BY OtherHeights
  <1>4. Height(Top.at) \in 0..28
    BY Heights
  <1>5. Top.at # "balanced" => Height(Top.at) <= r
    BY <1>2, <1>3, <1>4
  <1>6. QED
    BY <1>2, <1>5 DEF r

LEMMA LessDeep ==
    \A n, r, q \in Nat :
        /\ r < q => 10 * (n + 1) + r \in Nat /\ 10 * (n + 1) + r < 10 * (n + 1) + q
        /\ r + 10 < q => 10 * (n + 2) + r \in Nat /\ 10 * (n + 2) + r < 10 * (n + 1) + q
        /\ r < q + 10 => 10 * n + r \in Nat /\ 10 * n + r < 10 * (n + 1) + q
  OBVIOUS

\* The call on top goes on nearer to a token.
LEMMA TurnAdvances ==
    ASSUME IInv, stack # <<>>, Keeps, NEW f, Becomes(f),
           f.at \notin {"balanced", "member_declared"}, Top.at # "balanced",
           Height(f.at) < Height(Top.at)
    PROVE  Advances
  <1>1. Under \in Seq(Frames) /\ Len(Under) \in Nat
    BY StackIsOpen
  <1>2. stack' = Append(Under, f)
    BY DEF Becomes
  <1> DEFINE r == Rank(stack', token.type, ret')
             q == Rank(stack, token.type, ret)
             h == Height(Top.at)
  <1>3. Depth(stack', token.type, ret') = 10 * (Len(Under) + 1) + r
    BY <1>1, <1>2, RankOfTop
  <1>4. Depth(stack, token.type, ret) = 10 * (Len(Under) + 1) + q /\ h <= q /\ q \in 0..29
    BY RankHere
  <1>5. r \in 0..28 /\ h \in 0..28 /\ r < h
    <2>1. r = Height(f.at)
      BY <1>1, <1>2, RankOfTop
    <2>2. QED
      BY <2>1, Heights
  <1> HIDE DEF r, q, h
  <1>6. r \in Nat /\ q \in Nat /\ r < q
    BY ONLY <1>4, <1>5
  <1>7. QED
    BY <1>1, <1>3, <1>4, <1>6, LessDeep DEF Advances

LEMMA GotoAdvances ==
    ASSUME IInv, stack # <<>>, Keeps, NEW b, Goto(b), b \notin {"balanced", "member_declared"},
           Top.at # "balanced", Height(b) < Height(Top.at)
    PROVE  Advances
  <1> DEFINE f == [Top EXCEPT !.at = b]
  <1>1. f.at = b
    BY TopIsFrame DEF Frames
  <1>2. Becomes(f)
    BY DEF Goto
  <1> HIDE DEF f
  <1>3. QED
    BY <1>1, <1>2, TurnAdvances

\* It calls another.
LEMMA CallAdvances ==
    ASSUME IInv, stack # <<>>, Keeps, NEW f, NEW g, stack' = Under \o <<f, g>>,
           Top.at \notin {"balanced", "member_declared"}, g.at # "member_declared",
           \/ g.at # "balanced" /\ Height(g.at) + 10 < Height(Top.at)
           \/ g.at = "balanced" /\ token.type \in DOMAIN Closing /\ 10 < Height(Top.at)
           \/ /\ g.at = "balanced" /\ 13 < Height(Top.at)
              /\ f.at \in {"template_arguments", "template_function_body"}
    PROVE  Advances
  <1>1. Under \in Seq(Frames) /\ Len(Under) \in Nat
    BY StackIsOpen
  <1> DEFINE u == Append(Under, f)
             r == Rank(stack', token.type, ret')
             q == Rank(stack, token.type, ret)
  <1>2. stack' = Append(u, g) /\ u \in Seq(Frames \cup {f}) /\ Len(u) = Len(Under) + 1
        /\ u # <<>> /\ u[Len(u)] = f
    <2>1. Under \in Seq(Frames \cup {f, g})
      BY <1>1
    <2>2. u \in Seq(Frames \cup {f}) /\ Len(u) = Len(Under) + 1 /\ u[Len(Under) + 1] = f
      <3>1. Under \in Seq(Frames \cup {f})
        BY <1>1
      <3>2. QED
        BY <3>1, AppendProperties
    <2>3. Under \o <<f, g>> = Append(Append(Under, f), g)
      BY ONLY <2>1
    <2> HIDE DEF u
    <2>4. u # <<>>
      BY <1>1, <2>2, EmptySeq
    <2>5. u[Len(u)] = f
      BY <2>2
    <2>6. stack' = Append(u, g)
      BY <2>3 DEF u
    <2>7. QED
      BY <2>2, <2>4, <2>5, <2>6
  <1>3. Depth(stack, token.type, ret) = 10 * (Len(Under) + 1) + q /\ q = Height(Top.at)
        /\ q \in 0..29
    BY RankHere
  <1> HIDE DEF u
  <1>4. /\ Depth(stack', token.type, ret') = 10 * (Len(u) + 1) + r
        /\ r \in 0..29
        /\ g.at # "balanced" => r = Height(g.at)
        /\ g.at = "balanced" /\ token.type \in DOMAIN Closing => r = 0
        /\ g.at = "balanced" /\ token.type \notin DOMAIN Closing
              => r = IF u # <<>> /\ u[Len(u)].at \in {"template_arguments",
                                                      "template_function_body"}
                     THEN 3 ELSE 11
    <2> DEFINE S == Frames \cup {f}
    <2>1. u \in Seq(S) /\ stack' = Append(u, g)
      BY <1>2
    <2> HIDE DEF S
    <2>2. Depth(stack', token.type, ret') = 10 * (Len(u) + 1) + r
      BY ONLY <2>1, RankOfTop
    <2>3. r \in 0..29
      BY ONLY <2>1, RankOfTop
    <2>4. g.at # "balanced" => r = Height(g.at)
      BY ONLY <2>1, RankOfTop, g.at # "member_declared"
    <2>5. g.at = "balanced" /\ token.type \in DOMAIN Closing => r = 0
      BY ONLY <2>1, RankOfTop
    <2>6. g.at = "balanced" /\ token.type \notin DOMAIN Closing
              => r = IF u # <<>> /\ u[Len(u)].at \in {"template_arguments",
                                                      "template_function_body"}
                     THEN 3 ELSE 11
      BY ONLY <2>1, RankOfTop
    <2>7. QED
      BY <2>2, <2>3, <2>4, <2>5, <2>6
  <1>5. r + 10 < q
    <2>1. CASE g.at # "balanced" /\ Height(g.at) + 10 < Height(Top.at)
      <3>1. r = Height(g.at)
        BY <1>4, <2>1
      <3>2. QED
        BY <1>3, <2>1, <3>1
    <2>2. CASE g.at = "balanced" /\ token.type \in DOMAIN Closing /\ 10 < Height(Top.at)
      BY <1>3, <1>4, <2>2
    <2>3. CASE /\ g.at = "balanced" /\ 13 < Height(Top.at)
               /\ f.at \in {"template_arguments", "template_function_body"}
      <3>1. r = 0 \/ r = 3
        BY <1>2, <1>4, <2>3
      <3>2. 13 < q /\ q \in 0..29
        BY <1>3, <2>3
      <3> HIDE DEF r, q
      <3>3. QED
        BY ONLY <3>1, <3>2
    <2>4. QED
      BY <2>1, <2>2, <2>3
  <1> HIDE DEF r, q
  <1>6. r \in Nat /\ q \in Nat /\ 10 * (Len(u) + 1) = 10 * (Len(Under) + 2)
    BY <1>1, <1>2, <1>3, <1>4
  <1>7. QED
    BY <1>1, <1>3, <1>4, <1>5, <1>6, LessDeep DEF Advances

\* It returns.
LEMMA BackAdvances ==
    ASSUME IInv, stack # <<>>, Keeps, NEW q \in Nat,
           Depth(stack, token.type, ret) = 10 * (Len(Under) + 1) + q,
           Len(stack') = Len(Under), NEW r \in Nat,
           Depth(stack', token.type, ret') = 10 * Len(Under) + r, r < q + 10
    PROVE  Advances
  <1>1. Len(Under) \in Nat
    BY StackIsOpen
  <1>2. QED
    BY <1>1, LessDeep DEF Advances


\* What the rank is below the call on top.
LEMMA RankBelow ==
    ASSUME IInv, stack # <<>>, NEW value
    PROVE  /\ Depth(Under, token.type, value) = 10 * Len(Under)
                                                + Rank(Under, token.type, value)
           /\ Rank(Under, token.type, value) \in 0..29
           /\ value # "method" /\ Top.at \notin Naming \cup Balancing
                 => Rank(Under, token.type, value) <= 12
           /\ value # "method" /\ Top.at = "balanced"
                 => Rank(Under, token.type, value) <= 20
           /\ /\ Under # <<>> /\ Under[Len(Under)].at \in {"template_arguments",
                                                           "template_function_body"}
              => Rank(Under, token.type, value) <= 12
  <1> DEFINE r == Rank(Under, token.type, value)
  <1>1. Under \in Seq(Frames) /\ Len(Under) \in Nat
    BY StackIsOpen
  <1>2. Depth(Under, token.type, value) = 10 * Len(Under) + r
    BY DEF Depth
  <1>3. r \in 0..29
    BY <1>1, DepthIsNat
  <1>4. CASE Under = <<>>
    <2>1. r = 0
      BY <1>4 DEF Rank
    <2> HIDE DEF r
    <2>2. r <= 12 /\ r <= 20
      BY <2>1
    <2>3. QED
      BY <1>2, <1>3, <2>2 DEF r
  <1>5. CASE Under # <<>>
    <2> DEFINE v == SubSeq(Under, 1, Len(Under) - 1)
               a == Under[Len(Under)]
    <2>1. v \in Seq(Frames) /\ a \in Frames /\ Under = Append(v, a)
      BY <1>1, <1>5, StackSplits
    <2>2. Above(a.at, Top.at)
      BY <1>5, StackIsOpen
    <2> HIDE DEF v, a
    <2>3. /\ a.at \notin {"balanced", "member_declared"} => r = Height(a.at)
          /\ a.at = "member_declared" /\ value # "method" => r = 3
      BY <2>1, RankOfTop
    <2>4. a.at # "balanced"
      BY <2>2 DEF Above, Clean, Templating, Balancing
    <2>5. ASSUME value # "method", Top.at \notin Naming \cup Balancing
          PROVE  r <= 12
      <3>1. a.at \notin Clean \cup {"class_scope", "method", "method_body", "members",
                                    "member", "template_function"}
        BY <2>2, <2>5 DEF Above, Templating
      <3>2. Height(a.at) <= 12
        BY <3>1, LowBelow
      <3> HIDE DEF r
      <3>3. r = Height(a.at) \/ r = 3
        BY <2>3, <2>4, <2>5
      <3>4. QED
        BY <3>2, <3>3
    <2>6. ASSUME value # "method" PROVE Top.at = "balanced" => r <= 20
      <3>1. a.at \notin Clean \cup {"members", "member"} \/ a.at \in Templating
        BY <2>2 DEF Above
      <3>2. Height(a.at) <= 20
        BY <3>1, LowBelow
      <3> HIDE DEF r
      <3>3. r = Height(a.at) \/ r = 3
        BY <2>3, <2>4, <2>6
      <3>4. QED
        BY <3>2, <3>3
    <2>7. ASSUME a.at \in {"template_arguments", "template_function_body"}
          PROVE  r <= 12
      <3>1. a.at # "member_declared" /\ (Height(a.at) = 12 \/ Height(a.at) = 3)
        BY <2>7, Heights, OtherHeights
      <3> HIDE DEF r
      <3>2. r = Height(a.at)
        BY <2>3, <2>4, <3>1
      <3>3. QED
        BY <3>1, <3>2
    <2>8. QED
      BY <1>2, <1>3, <2>5, <2>6, <2>7 DEF a
  <1>6. QED
    BY <1>4, <1>5

LEMMA ReturnAdvances ==
    ASSUME IInv, stack # <<>>, Keeps, NEW value, Return(value), Top.at # "balanced",
           \/ Top.at \notin Naming \cup Balancing /\ value # "method" /\ 3 <= Height(Top.at)
           \/ 20 <= Height(Top.at)
    PROVE  Advances
  <1> DEFINE q == Rank(stack, token.type, ret)
             r == Rank(stack', token.type, ret')
             h == Height(Top.at)
  <1>1. stack' = Under /\ ret' = value
    BY DEF Return
  <1>2. /\ Depth(stack, token.type, ret) = 10 * (Len(Under) + 1) + q
        /\ q \in 0..29 /\ h <= q
    BY RankHere
  <1>3. /\ Depth(stack', token.type, ret') = 10 * Len(Under) + r
        /\ r \in 0..29
        /\ value # "method" /\ Top.at \notin Naming \cup Balancing => r <= 12
    BY <1>1, RankBelow
  <1>4. h \in 0..28
    BY Heights
  <1>5. \/ r <= 12 /\ 3 <= h
        \/ 20 <= h
    BY <1>3
  <1> HIDE DEF q, r, h
  <1>6. r < q + 10 /\ r \in Nat /\ q \in Nat
    BY ONLY <1>2, <1>3, <1>4, <1>5
  <1>7. QED
    BY <1>1, <1>2, <1>3, <1>6, BackAdvances

\* Balanced tokens that are none.
LEMMA NoneAdvances ==
    ASSUME IInv, stack # <<>>, Keeps, Return("done"), Top.at = "balanced",
           token.type \notin DOMAIN Closing
    PROVE  Advances
  <1> DEFINE q == Rank(stack, token.type, ret)
             r == Rank(stack', token.type, ret')
             Short == Under # <<>> /\ Under[Len(Under)].at \in {"template_arguments",
                                                                "template_function_body"}
  <1>1. stack' = Under /\ ret' = "done"
    BY DEF Return
  <1>2. /\ Depth(stack, token.type, ret) = 10 * (Len(Under) + 1) + q
        /\ q = IF Short THEN 3 ELSE 11
    BY RankHere
  <1>3. /\ Depth(stack', token.type, ret') = 10 * Len(Under) + r
        /\ r \in 0..29
        /\ r <= 20
        /\ Short => r <= 12
    BY <1>1, RankBelow
  <1> HIDE DEF q, r, Short
  <1>4. r < q + 10 /\ r \in Nat /\ q \in Nat
    BY ONLY <1>2, <1>3
  <1>5. QED
    BY <1>1, <1>2, <1>3, <1>4, BackAdvances

\* A name goes to a class or a list of bases.
LEMMA GiveAdvances ==
    ASSUME IInv, stack # <<>>, Keeps, GiveName, Top.at \in Naming, 4 <= Height(Top.at)
    PROVE  Advances
  <1> DEFINE v == SubSeq(Under, 1, Len(Under) - 1)
             a == Under[Len(Under)]
             b == [a EXCEPT !.id = Top.id]
             q == Rank(stack, token.type, ret)
             r == Rank(stack', token.type, ret')
             h == Height(Top.at)
  <1>1. /\ Under \in Seq(Frames) /\ Len(Under) \in Nat /\ Rests(Under, Top.at)
    BY OpenCalls, StackIsOpen DEF IInv
  <1>2. Under # <<>>
    BY <1>1 DEF Rests, Naming, Declaring
  <1>3. /\ v \in Seq(Frames) /\ a \in Frames /\ Under = Append(v, a)
        /\ Len(v) = Len(Under) - 1
    BY <1>1, <1>2, StackSplits
  <1>4. b.at = a.at
    <2> HIDE DEF a
    <2>1. QED
      BY <1>3 DEF Frames
  <1>5. stack' = Append(v, b)
    <2>1. stack' = [Under EXCEPT ![Len(Under)] = b]
      BY <1>1 DEF GiveName
    <2>2. b \in Frames
      <3>1. Top.id \in ScopeNames
        BY TopIsFrame
      <3> HIDE DEF a
      <3>2. QED
        BY <1>3, <3>1 DEF Frames
    <2> HIDE DEF b
    <2>3. QED
      BY <1>1, <1>2, <2>1, <2>2, TopChanges
  <1>6. a.at \in {"class_scope", "base_end"}
    BY <1>1, <1>2 DEF Rests, Above
  <1>7. Len(stack') = Len(Under)
    BY <1>1, <1>5 DEF GiveName
  <1>8. Top.at # "balanced"
    BY DEF Naming
  <1>9. /\ Depth(stack, token.type, ret) = 10 * (Len(Under) + 1) + q
        /\ q \in 0..29 /\ h <= q /\ h \in 0..28
    BY <1>8, RankHere, Heights
  <1>10. r = Height(b.at) /\ b.at \in {"class_scope", "base_end"}
    <2>1. b.at \in {"class_scope", "base_end"}
      BY <1>4, <1>6
    <2> HIDE DEF v, b
    <2>2. b.at \notin {"balanced", "member_declared"}
      BY <2>1
    <2>3. QED
      BY <1>3, <1>5, <2>1, <2>2, RankOfTop
  <1>11. r = 12 \/ r = 13
    BY <1>10, Heights
  <1>12. Depth(stack', token.type, ret') = 10 * Len(Under) + r
    BY <1>7 DEF Depth
  <1>13. 4 <= h
    OBVIOUS
  <1> HIDE DEF v, a, b, q, r, h
  <1>14. r < q + 10 /\ r \in Nat /\ q \in Nat
    BY ONLY <1>9, <1>11, <1>13
  <1>15. QED
    BY <1>7, <1>9, <1>12, <1>14, BackAdvances


LEMMA CallsAdvance ==
    ASSUME IInv, stack # <<>>, Keeps, NEW b, NEW c, Call(Frame(c), b),
           Top.at \notin {"balanced", "member_declared"}, c # "member_declared",
           \/ c # "balanced" /\ Height(c) + 10 < Height(Top.at)
           \/ c = "balanced" /\ token.type \in DOMAIN Closing /\ 10 < Height(Top.at)
           \/ /\ c = "balanced" /\ 13 < Height(Top.at)
              /\ b \in {"template_arguments", "template_function_body"}
    PROVE  Advances
  <1> DEFINE f == [Top EXCEPT !.at = b]
             g == Frame(c)
  <1>1. f.at = b
    BY TopIsFrame DEF Frames
  <1>2. g.at = c
    BY DEF Frame
  <1>3. stack' = Under \o <<f, g>>
    BY DEF Call
  <1> HIDE DEF f, g
  <1>4. QED
    BY <1>1, <1>2, <1>3, CallAdvances

\* The tops of stacks that are written out.
LEMMA LabelIsSet ==
    ASSUME IInv, stack # <<>>, NEW b, NEW x, NEW y
    PROVE  /\ [Top EXCEPT !.at = b, !.ok = x].at = b
           /\ [Top EXCEPT !.at = b, !.id = x, !.n = y].at = b
           /\ [Top EXCEPT !.at = b, !.name = x].at = b
           /\ [Top EXCEPT !.at = b, !.n = x].at = b
           /\ [Top EXCEPT !.at = b, !.classTag = x, !.enumTag = y].at = b
  BY TopIsFrame DEF Frames

\* A call for balanced tokens, where the first of them is the token.
LEMMA BlockAdvances ==
    ASSUME IInv, stack # <<>>, Quiet, Is("{") \/ Is("("), NEW b, Call(Frame("balanced"), b),
           Top.at \in {"declarations", "function_body", "class_body", "method", "template_of",
                      "template_function_name"}
    PROVE  Advances
  <1>1. Keeps
    BY QuietKeeps
  <1>2. token.type \in DOMAIN Closing
    BY DEF Is, Closing
  <1>3. 10 < Height(Top.at)
    <2>1. CASE Top.at \in {"declarations", "class_body", "template_of",
                           "template_function_name"}
      <3>1. Height(Top.at) = 11
        BY <2>1, Heights
      <3>2. QED
        BY ONLY <3>1
    <2>2. CASE Top.at = "function_body"
      <3>1. Height(Top.at) = 12
        BY <2>2, Heights
      <3>2. QED
        BY ONLY <3>1
    <2>3. CASE Top.at = "method"
      <3>1. Height(Top.at) = 20
        BY <2>3, Heights
      <3>2. QED
        BY ONLY <3>1
    <2>4. QED
      BY <2>1, <2>2, <2>3
  <1>4. Top.at \notin {"balanced", "member_declared"}
    OBVIOUS
  <1>5. QED
    BY ONLY IInv, stack # <<>>, Call(Frame("balanced"), b), <1>1, <1>2, <1>3, <1>4, CallsAdvance

-----------------------------------------------------------------------------
(* Every production advances *)

LEMMA ParseAdvances ==
    ASSUME IInv, Parse
    PROVE  Advances
  <1>1. stack # <<>> /\ Top.at = "start"
    BY DEF Parse, At
  <1>2. CASE token = L!Invalid
    BY <1>1, <1>2, StepsOpenOne, TakingAdvances DEF Parse, Takes
  <1>3. CASE token # L!Invalid
    <2>1. Keeps
      BY <1>3 DEF Parse, L!GetCurrToken, Keeps
    <2>2. Height("declarations") < Height(Top.at)
      BY <1>1, Heights
    <2>3. QED
      BY <1>1, <2>1, <2>2, GotoAdvances DEF Parse
  <1>4. QED
    BY <1>2, <1>3

LEMMA DeclarationAdvances ==
    ASSUME IInv, Declaration, ~AtEnd
    PROVE  Advances
  <1>1. stack # <<>> /\ Top.at = "declarations" /\ Height(Top.at) = 11
    BY Heights DEF Declaration, At
  <1>2. CASE L!GetNextToken
    <2>1. Opens
      BY <1>1, StepsOpenOne DEF Declaration, SkipToken
    <2>2. QED
      BY <1>2, <2>1, TakingAdvances DEF Takes
  <1>3. CASE Quiet /\ Return("done")
    <2>1. Top.at \notin Naming \cup Balancing /\ Top.at # "balanced"
      BY <1>1 DEF Naming, Balancing
    <2>2. QED
      BY <1>1, <1>3, <2>1, QuietKeeps, ReturnAdvances
  <1>4. CASE Is("{") /\ Quiet /\ Call(Frame("balanced"), "declared")
    BY <1>1, <1>4, BlockAdvances
  <1>5. CASE /\ L!SetMetaTagParsingMode(TRUE)
             /\ Call(Frame("tag"), IF Is("CLASS_META") THEN "class_tagged" ELSE "enum_tagged")
    <2>1. Keeps /\ Height("tag") = 0
      BY <1>5, QuietKeeps, Heights
    <2>2. QED
      BY <1>1, <1>5, <2>1, CallsAdvance
  <1>6. CASE L!PeekToken(1) /\ Goto("identifier")
    <2>1. Keeps /\ Height("identifier") = 0
      BY <1>6, QuietKeeps, Heights
    <2>2. QED
      BY <1>1, <1>6, <2>1, GotoAdvances
  <1>7. QED
    BY <1>2, <1>3, <1>4, <1>5, <1>6 DEF Declaration, Eat, SkipToken

\* What reports an error is done with its production.
LEMMA FailureAdvances ==
    ASSUME IInv, stack # <<>>, Silent, Return("failed"), Top.at \notin Naming \cup Balancing,
           3 <= Height(Top.at)
    PROVE  Advances
  <1>1. Top.at # "balanced"
    BY DEF Balancing
  <1>2. QED
    BY <1>1, QuietKeeps, ReturnAdvances

LEMMA SequenceAdvances ==
    ASSUME IInv, Declared \/ EnumDeclared \/ ClassDeclared \/ Tagged
    PROVE  Advances
  <1>1. stack # <<>> /\ Top.at \in {"declared", "enum_declared", "class_declared",
                                    "class_tagged", "enum_tagged"}
    BY DEF Declared, EnumDeclared, ClassDeclared, Tagged, At
  <1>2. Top.at \notin Naming \cup Balancing /\ Top.at # "balanced" /\ 3 <= Height(Top.at)
    BY <1>1, Heights, OtherHeights DEF Naming, Balancing
  <1>3. CASE L!GetNextToken
    <2>1. Opens
      BY <1>1, StepsOpenOne DEF Declared, EnumDeclared, ClassDeclared, Tagged, Fails
    <2>2. QED
      BY <1>3, <2>1, TakingAdvances DEF Takes
  <1>4. CASE Fails
    BY <1>1, <1>2, <1>4, FailureAdvances DEF Fails
  <1>5. CASE Quiet /\ Return("failed")
    BY <1>1, <1>2, <1>5, FailureAdvances DEF Quiet
  <1>6. ASSUME Quiet, Top.at \in {"declared", "class_tagged", "enum_tagged"},
               NEW f, Becomes(f), f.at = "declarations"
        PROVE  Advances
    <2>1. Height(f.at) < Height(Top.at)
      BY <1>6, Heights
    <2>2. QED
      BY <1>1, <1>2, <1>6, <2>1, QuietKeeps, TurnAdvances
  <1>7. CASE Declared
    <2> DEFINE f == [Top EXCEPT !.at = "declarations", !.ok = ret # "failed"]
    <2>1. f.at = "declarations"
      BY <1>1, LabelIsSet
    <2>2. Quiet /\ Top.at = "declared" /\ Becomes(f)
      BY <1>7 DEF Declared, At
    <2> HIDE DEF f
    <2>3. QED
      BY <1>6, <2>1, <2>2
  <1>8. CASE Tagged
    <2> DEFINE f == [Top EXCEPT !.at = "declarations",
                                !.classTag = @ \/ Top.at = "class_tagged",
                                !.enumTag = @ \/ Top.at = "enum_tagged"]
    <2>1. f.at = "declarations"
      BY <1>1, LabelIsSet
    <2>2. Quiet /\ Top.at \in {"class_tagged", "enum_tagged"}
          /\ (Return("failed") \/ Becomes(f))
      BY <1>8 DEF Tagged, At
    <2> HIDE DEF f
    <2>3. QED
      BY <1>5, <1>6, <2>1, <2>2
  <1>9. QED
    BY <1>3, <1>4, <1>7, <1>8 DEF EnumDeclared, ClassDeclared, Eat

LEMMA BalancedAdvances ==
    ASSUME IInv, BalancedTokens
    PROVE  Advances
  <1>1. stack # <<>>
    BY DEF BalancedTokens, At
  <1>2. CASE L!GetNextToken
    <2>1. Opens
      BY <1>1, StepsOpenOne DEF BalancedTokens
    <2>2. QED
      BY <1>2, <2>1, TakingAdvances DEF Takes
  <1>3. CASE At({"balanced"}) /\ token.type \notin DOMAIN Closing /\ Quiet /\ Return("done")
    BY <1>1, <1>3, QuietKeeps, NoneAdvances DEF At
  <1>4. QED
    BY <1>2, <1>3 DEF BalancedTokens, Eat

LEMMA FunctionAdvances ==
    ASSUME IInv, Function
    PROVE  Advances
  <1>1. stack # <<>> /\ Top.at \in {"identifier", "function_body"}
    BY DEF Function, At
  <1>2. CASE L!GetNextToken
    <2>1. Opens
      BY <1>1, StepsOpenOne DEF Function
    <2>2. QED
      BY <1>2, <2>1, TakingAdvances DEF Takes
  <1>3. CASE At({"function_body"}) /\ Is("{") /\ Quiet /\ Call(Frame("balanced"), "declarations")
    BY <1>1, <1>3, BlockAdvances DEF At
  <1>4. CASE At({"function_body"}) /\ Quiet /\ Goto("declarations")
    <2>1. Top.at = "function_body" /\ Height("declarations") < Height(Top.at)
      BY <1>4, Heights DEF At
    <2>2. QED
      BY <1>1, <1>4, <2>1, QuietKeeps, GotoAdvances
  <1>5. QED
    BY <1>2, <1>3, <1>4 DEF Function, Eat

LEMMA TypedefAdvances ==
    ASSUME IInv, Typedef
    PROVE  Advances
  <1>1. stack # <<>> /\ Top.at \in {"typedef", "declarators", "type_defined"}
    BY DEF Typedef, At
  <1>2. CASE L!GetNextToken
    <2>1. Opens
      BY <1>1, StepsOpenOne DEF Typedef
    <2>2. QED
      BY <1>2, <2>1, TakingAdvances DEF Takes
  <1>3. CASE At({"typedef"}) /\ Quiet /\ Goto("declarators")
    <2>1. Top.at = "typedef" /\ Height("declarators") < Height(Top.at)
      BY <1>3, Heights, OtherHeights DEF At
    <2>2. QED
      BY <1>1, <1>3, <2>1, QuietKeeps, GotoAdvances
  <1>4. CASE At({"declarators"}) /\ Quiet /\ Return("done")
    <2>1. Top.at = "declarators" /\ 3 <= Height(Top.at) /\ Top.at \notin Naming \cup Balancing
      BY <1>4, OtherHeights DEF At, Naming, Balancing
    <2>2. QED
      BY <1>1, <1>4, <2>1, QuietKeeps, ReturnAdvances
  <1>5. QED
    BY <1>2, <1>3, <1>4 DEF Typedef, Eat


LEMMA NamespaceAdvances ==
    ASSUME IInv, AnonymusNamespace \/ NamedNamespace
    PROVE  Advances
  <1>1. stack # <<>> /\ Top.at \in {"namespace", "anonymous_end", "namespace_name",
                                    "namespace_brace", "namespace_end"}
    BY DEF AnonymusNamespace, NamedNamespace, OpenNamespace, At
  <1>2. Top.at \notin Naming \cup Balancing /\ Top.at # "balanced" /\ 3 <= Height(Top.at)
    BY <1>1, Heights, OtherHeights DEF Naming, Balancing
  <1>3. CASE L!GetNextToken
    <2>1. Opens
      BY <1>1, StepsOpenOne DEF AnonymusNamespace, NamedNamespace, OpenNamespace, Fails
    <2>2. QED
      BY <1>3, <2>1, TakingAdvances DEF Takes
  <1>4. CASE Silent /\ Return("failed")
    BY <1>1, <1>2, <1>4, FailureAdvances
  <1>5. CASE At({"anonymous_end"}) /\ Silent /\ Goto("namespace_name")
    <2>1. Top.at = "anonymous_end" /\ Height("namespace_name") = 3 /\ Height(Top.at) = 4
      BY <1>5, Heights, OtherHeights DEF At
    <2>2. QED
      BY <1>1, <1>5, <2>1, QuietKeeps, GotoAdvances
  <1>6. QED
    BY <1>3, <1>4, <1>5
       DEF AnonymusNamespace, NamedNamespace, OpenNamespace, Fails, Eat, Quiet

LEMMA TemplateAdvances ==
    ASSUME IInv, TemplateArguments \/ TemplateDeclaration, ~AtEnd
    PROVE  Advances
  <1>1. stack # <<>> /\ Top.at \in {"template", "template_arguments", "template_of", "alias",
                                    "template_function_name", "template_function",
                                    "template_function_body"}
    BY DEF TemplateArguments, TemplateDeclaration, At
  <1>2. CASE L!GetNextToken
    <2>1. Opens
      BY <1>1, StepsOpenOne DEF TemplateArguments, TemplateDeclaration, ReturnAnything
    <2>2. QED
      BY <1>2, <2>1, TakingAdvances DEF Takes
  <1>3. ASSUME Top.at \in {"template", "template_function"}, Keeps,
               NEW b \in {"template_arguments", "template_function_body"},
               Call(Frame("balanced"), b)
        PROVE  Advances
    <2>1. Height(Top.at) = 14
      BY <1>3, Heights
    <2>2. QED
      BY <1>1, <1>3, <2>1, CallsAdvance
  <1>4. CASE TemplateArguments
    <2>1. Keeps
      BY <1>4, QuietKeeps DEF TemplateArguments
    <2>2. CASE At({"template"}) /\ Call(Frame("balanced"), "template_arguments")
      BY <1>3, <2>1, <2>2 DEF At
    <2>3. CASE At({"template_arguments"}) /\ Goto("template_of")
      <3>1. Top.at = "template_arguments" /\ Height("template_of") = 11 /\ Height(Top.at) = 12
        BY <2>3, Heights DEF At
      <3>2. QED
        BY <1>1, <2>1, <2>3, <3>1, GotoAdvances
    <2>4. QED
      BY <1>4, <2>2, <2>3 DEF TemplateArguments
  <1>5. CASE /\ At({"template_of", "template_function_name"}) /\ Is("(")
             /\ Quiet /\ Call(Frame("balanced"), "template_function")
    BY <1>1, <1>5, BlockAdvances DEF At
  <1>6. CASE /\ At({"template_function"})
             /\ Quiet /\ Call(Frame("balanced"), "template_function_body")
    BY <1>3, <1>6, QuietKeeps DEF At
  <1>7. CASE At({"template_function_body"}) /\ Quiet /\ ReturnAnything
    <2>1. Top.at = "template_function_body" /\ 3 <= Height(Top.at)
          /\ Top.at \notin Naming \cup Balancing
      BY <1>7, OtherHeights DEF At, Naming, Balancing
    <2>2. PICK value \in {"done", "failed"} : Return(value)
      BY <1>7 DEF ReturnAnything
    <2>3. QED
      BY <1>1, <1>7, <2>1, <2>2, QuietKeeps, ReturnAdvances
  <1>8. CASE TemplateDeclaration
    BY <1>2, <1>5, <1>6, <1>7, <1>8 DEF TemplateDeclaration, Eat, At
  <1>9. QED
    BY <1>4, <1>8

LEMMA EnumAdvances ==
    ASSUME IInv, OpenEnum \/ EnumBase \/ EnumBody \/ EndEnum
    PROVE  Advances
  <1>1. stack # <<>> /\ Top.at \in {"enum", "enum_name", "enum_base", "underlying_type",
                                    "enumerators", "enumerator", "enumerator_value"}
    BY DEF OpenEnum, EnumBase, EnumBody, EndEnum, At
  <1>2. Top.at \notin Naming \cup Balancing /\ Top.at # "balanced" /\ 3 <= Height(Top.at)
    BY <1>1, OtherHeights DEF Naming, Balancing
  <1>3. CASE L!GetNextToken
    <2>1. Opens
      BY <1>1, StepsOpenOne DEF OpenEnum, EnumBase, EnumBody, EndEnum, CloseEnum, Fails
    <2>2. QED
      BY <1>3, <2>1, TakingAdvances DEF Takes
  <1>4. CASE Fails
    BY <1>1, <1>2, <1>4, FailureAdvances DEF Fails
  <1>5. CASE Silent /\ Return("done")
    BY <1>1, <1>2, <1>5, QuietKeeps, ReturnAdvances
  <1>6. QED
    BY <1>3, <1>4, <1>5 DEF OpenEnum, EnumBase, EnumBody, EndEnum, CloseEnum, Eat

LEMMA NameAdvances ==
    ASSUME IInv, ClassIdentifier \/ QualifiedName
    PROVE  Advances
  <1>1. stack # <<>> /\ Top.at \in Naming
    BY DEF ClassIdentifier, QualifiedName, At, Naming
  <1>2. CASE L!GetNextToken
    <2>1. Opens
      BY <1>1, StepsOpenOne DEF ClassIdentifier, QualifiedName
    <2>2. QED
      BY <1>2, <2>1, TakingAdvances DEF Takes
  <1>3. CASE At({"class_name", "name_colon", "name", "name_peeked"}) /\ Keeps /\ GiveName
    <2>1. Height(Top.at) = 4 \/ Height(Top.at) = 5 \/ Height(Top.at) = 6
      BY <1>3, Heights DEF At
    <2>2. 4 <= Height(Top.at)
      BY <2>1
    <2>3. QED
      BY <1>1, <1>3, <2>2, GiveAdvances
  <1>4. CASE At({"class_name"}) /\ Keeps /\ Goto("name_colon")
    <2>1. Top.at = "class_name" /\ Height("name_colon") = 4 /\ Height(Top.at) = 6
      BY <1>4, Heights DEF At
    <2>2. QED
      BY <1>1, <1>4, <2>1, GotoAdvances
  <1>5. CASE At({"name"}) /\ Keeps /\ Goto("name_peeked")
    <2>1. Top.at = "name" /\ Height("name_peeked") = 4 /\ Height(Top.at) = 5
      BY <1>5, Heights DEF At
    <2>2. QED
      BY <1>1, <1>5, <2>1, GotoAdvances
  <1>6. CASE /\ At({"name"}) /\ Keeps
             /\ Becomes([Top EXCEPT !.at = "name_next", !.id = Append(@, "<"), !.n = @ + 1])
    <2> DEFINE f == [Top EXCEPT !.at = "name_next", !.id = Append(@, "<"), !.n = @ + 1]
    <2>1. f.at = "name_next" /\ Becomes(f)
      BY <1>1, <1>6, LabelIsSet
    <2> HIDE DEF f
    <2>2. Top.at = "name" /\ Height(f.at) = 0 /\ Height(Top.at) = 5
      BY <1>6, <2>1, Heights DEF At
    <2>3. QED
      BY <1>1, <1>6, <2>1, <2>2, TurnAdvances
  <1>7. CASE ClassIdentifier
    BY <1>2, <1>3, <1>4, <1>7, QuietKeeps DEF ClassIdentifier, Eat, At
  <1>8. CASE QualifiedName
    BY <1>2, <1>3, <1>5, <1>6, <1>8, QuietKeeps DEF QualifiedName, Eat, At
  <1>9. QED
    BY <1>7, <1>8


LEMMA ClassAdvances ==
    ASSUME IInv, OpenClass \/ ClassHeader
    PROVE  Advances
  <1>1. stack # <<>> /\ Top.at \in {"class", "class_scope", "class_head", "class_bases",
                                    "base", "base_end"}
    BY DEF OpenClass, ClassHeader, At
  <1>2. Top.at \notin Naming \cup Balancing /\ Top.at # "balanced" /\ 3 <= Height(Top.at)
    BY <1>1, Heights DEF Naming, Balancing
  <1>3. CASE L!GetNextToken
    <2>1. Opens
      BY <1>1, StepsOpenOne DEF OpenClass, ClassHeader, Fails, ClassFails, ReturnClass
    <2>2. QED
      BY <1>3, <2>1, TakingAdvances DEF Takes
  <1>4. CASE Silent /\ Return("failed")
    BY <1>1, <1>2, <1>4, FailureAdvances
  <1>5. ASSUME Top.at \in {"class", "base"}, Quiet, NEW b, Call(Frame("class_name"), b)
        PROVE  Advances
    <2>1. Height("class_name") = 6 /\ Height(Top.at) = 17 /\ Keeps
      BY <1>5, Heights, QuietKeeps
    <2>2. QED
      BY <1>1, <1>2, <1>5, <2>1, CallsAdvance
  <1>6. CASE /\ At({"class_scope"}) /\ Silent
             /\ Becomes([Top EXCEPT !.at = "class_head", !.name = Top.id])
    <2> DEFINE f == [Top EXCEPT !.at = "class_head", !.name = Top.id]
    <2>1. f.at = "class_head" /\ Becomes(f)
      BY <1>1, <1>6, LabelIsSet
    <2> HIDE DEF f
    <2>2. Top.at = "class_scope" /\ Height(f.at) = 12 /\ Height(Top.at) = 13
      BY <1>6, <2>1, Heights DEF At
    <2>3. QED
      BY <1>1, <1>6, <2>1, <2>2, QuietKeeps, TurnAdvances
  <1>7. CASE At({"class_head", "class_bases", "base_end"}) /\ Silent /\ Goto("class_body")
    <2>1. Height("class_body") = 11 /\ Height(Top.at) = 12
      BY <1>7, Heights DEF At
    <2>2. QED
      BY <1>1, <1>2, <1>7, <2>1, QuietKeeps, GotoAdvances
  <1>8. CASE OpenClass
    BY <1>4, <1>5, <1>6, <1>8 DEF OpenClass, Fails, At
  <1>9. CASE ClassHeader
    BY <1>3, <1>4, <1>5, <1>7, <1>9 DEF ClassHeader, ClassFails, ReturnClass, Eat, At
  <1>10. QED
    BY <1>8, <1>9

LEMMA BodyAdvances ==
    ASSUME IInv, ClassBody \/ SkippedBody
    PROVE  Advances
  <1>1. stack # <<>> /\ Top.at \in {"class_body", "body_skipped"}
    BY DEF ClassBody, SkippedBody, At
  <1>2. Top.at \notin Naming \cup Balancing /\ Top.at # "balanced" /\ 3 <= Height(Top.at)
    BY <1>1, Heights, OtherHeights DEF Naming, Balancing
  <1>3. CASE L!GetNextToken
    <2>1. Opens
      BY <1>1, StepsOpenOne DEF ClassBody, SkippedBody, ReturnClass
    <2>2. QED
      BY <1>3, <2>1, TakingAdvances DEF Takes
  <1>4. ASSUME Silent, NEW type, ReturnClass(ForwardOrDone(type)) PROVE Advances
    <2>1. ForwardOrDone(type) # "method"
      BY DEF ForwardOrDone
    <2>2. Return(ForwardOrDone(type))
      BY <1>4 DEF ReturnClass
    <2> DEFINE value == ForwardOrDone(type)
    <2> HIDE DEF value
    <2>3. Return(value) /\ value # "method"
      BY <2>1, <2>2 DEF value
    <2>4. QED
      BY <1>1, <1>2, <1>4, <2>3, QuietKeeps, ReturnAdvances
  <1>5. CASE At({"class_body"}) /\ Is("{") /\ Quiet /\ Call(Frame("balanced"), "body_skipped")
    BY <1>1, <1>5, BlockAdvances DEF At
  <1>6. QED
    BY <1>3, <1>4, <1>5 DEF ClassBody, SkippedBody, Eat

LEMMA MembersAdvance ==
    ASSUME IInv, Members
    PROVE  Advances
  <1>1. stack # <<>> /\ Top.at = "members" /\ Height(Top.at) = 28
    BY Heights DEF Members, At
  <1>2. CASE L!GetNextToken
    <2>1. Opens
      BY <1>1, StepsOpenOne DEF Members, ReturnClass
    <2>2. QED
      BY <1>2, <2>1, TakingAdvances DEF Takes
  <1>3. ASSUME NEW depth, Quiet,
               stack' = Under \o <<[Top EXCEPT !.at = "member_declared", !.n = depth],
                                   Frame("member")>>
        PROVE  Advances
    <2> DEFINE f == [Top EXCEPT !.at = "member_declared", !.n = depth]
               g == Frame("member")
    <2>1. g.at = "member" /\ Height("member") = 17
      BY Heights DEF Frame
    <2>2. stack' = Under \o <<f, g>>
      BY <1>3
    <2> HIDE DEF f, g
    <2>3. g.at # "balanced" /\ Height(g.at) + 10 < Height(Top.at)
          /\ Top.at \notin {"balanced", "member_declared"} /\ g.at # "member_declared"
      BY <1>1, <2>1
    <2>4. Keeps
      BY <1>3, QuietKeeps
    <2>5. QED
      BY <1>1, <2>2, <2>3, <2>4, CallAdvances
  <1>4. QED
    BY <1>2, <1>3 DEF Members, Eat

\* Behind a method the members go on where they are.
LEMMA MethodAdvances ==
    ASSUME IInv, stack # <<>>, Top.at = "member_declared", ret = "method", Quiet,
           Goto("members")
    PROVE  Advances
  <1> DEFINE f == [Top EXCEPT !.at = "members"]
             r == Rank(stack', token.type, ret')
             q == Rank(stack, token.type, ret)
  <1>1. Under \in Seq(Frames) /\ Len(Under) \in Nat
    BY StackIsOpen
  <1>2. f.at = "members" /\ stack' = Append(Under, f)
    BY TopIsFrame DEF Frames, Goto, Becomes
  <1> HIDE DEF f
  <1>3. Depth(stack', token.type, ret') = 10 * (Len(Under) + 1) + r
    BY <1>1, <1>2, RankOfTop
  <1>4. r = 28
    <2>1. f.at \notin {"balanced", "member_declared"}
      BY <1>2
    <2>2. r = Height(f.at)
      BY <1>1, <1>2, <2>1, RankOfTop
    <2>3. QED
      BY <1>2, <2>2, Heights
  <1>5. Depth(stack, token.type, ret) = 10 * (Len(Under) + 1) + q /\ q = 29
    BY RankHere
  <1> HIDE DEF r, q
  <1>6. r \in Nat /\ q \in Nat /\ r < q
    BY ONLY <1>4, <1>5
  <1>7. QED
    BY <1>1, <1>3, <1>5, <1>6, QuietKeeps, LessDeep DEF Advances

LEMMA EndMemberAdvances ==
    ASSUME IInv, EndMember
    PROVE  Advances
  <1>1. stack # <<>> /\ Top.at \in {"access", "member_end", "member_declared"}
    BY DEF EndMember, At
  <1>2. Top.at \notin Naming \cup Balancing /\ Top.at # "balanced" /\ 3 <= Height(Top.at)
    BY <1>1, OtherHeights DEF Naming, Balancing
  <1>3. CASE L!GetNextToken
    <2>1. Opens
      BY <1>1, StepsOpenOne DEF EndMember, ClassFails, ReturnClass
    <2>2. QED
      BY <1>3, <2>1, TakingAdvances DEF Takes
  <1>4. CASE ClassFails
    BY <1>1, <1>2, <1>4, FailureAdvances DEF ClassFails, ReturnClass
  <1>5. CASE At({"member_declared"}) /\ ret = "method" /\ Quiet /\ Goto("members")
    BY <1>1, <1>5, MethodAdvances DEF At
  <1>6. QED
    BY <1>3, <1>4, <1>5 DEF EndMember, Eat


LEMMA MemberAdvances ==
    ASSUME IInv, SeekMember \/ TaggedMember \/ FindMember, ~AtEnd
    PROVE  Advances
  <1>1. stack # <<>> /\ Top.at \in {"member", "member_tagged", "member_peeked", "member_found"}
    BY DEF SeekMember, TaggedMember, FindMember, At
  <1>2. Top.at \notin Naming \cup Balancing /\ Top.at \notin {"balanced", "member_declared"}
        /\ 3 <= Height(Top.at)
    BY <1>1, Heights DEF Naming, Balancing
  <1>3. CASE L!GetNextToken
    <2>1. Opens
      BY <1>1, StepsOpenOne DEF SeekMember, TaggedMember, FindMember
    <2>2. QED
      BY <1>3, <2>1, TakingAdvances DEF Takes
  <1>4. CASE At({"member", "member_tagged"}) /\ Keeps /\ Goto("member_peeked")
    <2>1. CASE Top.at = "member"
      <3>1. Height("member_peeked") = 4 /\ Height(Top.at) = 17
        BY <2>1, Heights
      <3>2. QED
        BY <1>1, <1>2, <1>4, <3>1, GotoAdvances
    <2>2. CASE Top.at = "member_tagged"
      <3>1. Height("member_peeked") = 4 /\ Height(Top.at) = 5
        BY <2>2, Heights
      <3>2. QED
        BY <1>1, <1>2, <1>4, <3>1, GotoAdvances
    <2>3. QED
      BY <1>4, <2>1, <2>2 DEF At
  <1>5. CASE /\ At({"member"}) /\ Keeps
             /\ Call([Frame("field_tag") EXCEPT !.n = 1], "member_tagged")
    <2> DEFINE f == [Top EXCEPT !.at = "member_tagged"]
               g == [Frame("field_tag") EXCEPT !.n = 1]
    <2>1. g.at = "field_tag" /\ Height("field_tag") = 6
      BY Heights DEF Frame
    <2>2. stack' = Under \o <<f, g>>
      BY <1>5 DEF Call
    <2>3. Height(Top.at) = 17
      BY <1>5, Heights DEF At
    <2> HIDE DEF f, g
    <2>4. g.at # "balanced" /\ Height(g.at) + 10 < Height(Top.at) /\ g.at # "member_declared"
      BY <2>1, <2>3
    <2>5. QED
      BY <1>1, <1>2, <1>5, <2>2, <2>4, CallAdvances
  <1>6. CASE At({"member_tagged"}) /\ Quiet /\ Return("failed")
    BY <1>1, <1>2, <1>6, FailureAdvances DEF Quiet
  <1>7. CASE At({"member_peeked", "member_found"}) /\ Quiet /\ Goto("fields")
    <2>1. Height("fields") = 3 /\ Height(Top.at) = 4
      BY <1>7, Heights, OtherHeights DEF At
    <2>2. QED
      BY <1>1, <1>2, <1>7, <2>1, QuietKeeps, GotoAdvances
  <1>8. CASE SeekMember
    BY <1>4, <1>5, <1>8, QuietKeeps DEF SeekMember, At
  <1>9. CASE TaggedMember
    BY <1>4, <1>6, <1>9, QuietKeeps DEF TaggedMember, At
  <1>10. CASE FindMember
    BY <1>3, <1>7, <1>10 DEF FindMember, At, Eat
  <1>11. QED
    BY <1>8, <1>9, <1>10

LEMMA MethodsAdvance ==
    ASSUME IInv, Method
    PROVE  Advances
  <1>1. stack # <<>> /\ Top.at \in {"method", "method_body"} /\ Height(Top.at) = 20
        /\ Top.at # "balanced"
    BY Heights DEF Method, At
  <1>2. CASE L!GetNextToken
    <2>1. Opens
      BY <1>1, StepsOpenOne DEF Method
    <2>2. QED
      BY <1>2, <2>1, TakingAdvances DEF Takes
  <1>3. CASE Quiet /\ Return("method")
    <2>1. 20 <= Height(Top.at)
      BY <1>1
    <2>2. QED
      BY <1>1, <1>3, <2>1, QuietKeeps, ReturnAdvances
  <1>4. CASE At({"method"}) /\ Is("{") /\ Quiet /\ Call(Frame("balanced"), "method_body")
    BY <1>1, <1>4, BlockAdvances DEF At
  <1>5. QED
    BY <1>2, <1>3, <1>4 DEF Method, Eat

LEMMA FieldsAdvance ==
    ASSUME IInv, Fields \/ FieldEnd
    PROVE  Advances
  <1>1. stack # <<>> /\ Top.at \in {"fields", "field_end", "field_value"}
    BY DEF Fields, FieldEnd, At
  <1>2. Top.at \notin Naming \cup Balancing /\ Top.at # "balanced" /\ 3 <= Height(Top.at)
    BY <1>1, Heights, OtherHeights DEF Naming, Balancing
  <1>3. CASE L!GetNextToken
    <2>1. Opens
      BY <1>1, StepsOpenOne DEF Fields, FieldEnd
    <2>2. QED
      BY <1>3, <2>1, TakingAdvances DEF Takes
  <1>4. CASE Silent /\ \E value \in {"done", "failed"} : Return(value)
    <2>1. PICK value \in {"done", "failed"} : Return(value)
      BY <1>4
    <2>2. QED
      BY <1>1, <1>2, <1>4, <2>1, QuietKeeps, ReturnAdvances
  <1>5. CASE At({"fields"}) /\ Silent /\ Goto("crashed")
    <2>1. Height("crashed") = 0 /\ Height(Top.at) = 3
      BY <1>5, Heights, OtherHeights DEF At
    <2>2. QED
      BY <1>1, <1>2, <1>5, <2>1, QuietKeeps, GotoAdvances
  <1>6. ASSUME At({"field_end"}), Quiet, NEW b \in {"fields", "field_value"}, Goto(b)
        PROVE  Advances
    <2>1. Height(Top.at) = 5 /\ Height("fields") = 3 /\ Height("field_value") = 4
      BY <1>6, Heights, OtherHeights DEF At
    <2>2. Height(b) < Height(Top.at) /\ b \notin {"balanced", "member_declared"}
      BY <1>6, <2>1
    <2>3. QED
      BY <1>1, <1>2, <1>6, <2>2, QuietKeeps, GotoAdvances
  <1>7. CASE At({"field_value"}) /\ Quiet /\ Goto("fields")
    <2>1. Height("fields") = 3 /\ Height(Top.at) = 4
      BY <1>7, Heights, OtherHeights DEF At
    <2>2. QED
      BY <1>1, <1>2, <1>7, <2>1, QuietKeeps, GotoAdvances
  <1>8. CASE Fields
    BY <1>3, <1>4, <1>5, <1>8 DEF Fields
  <1>9. CASE FieldEnd
    BY <1>3, <1>6, <1>7, <1>9 DEF FieldEnd, Eat
  <1>10. QED
    BY <1>8, <1>9

LEMMA TagAdvances ==
    ASSUME IInv, MetaTagParam \/ MetaTag \/ FieldMetaTag
    PROVE  Advances
  <1>1. stack # <<>> /\ Top.at \in {"tag_key", "section_equals", "section_id", "tag_flags",
                                    "flags_equals", "flag", "flag_next", "tag", "tag_open",
                                    "tag_next", "tag_end", "field_tag"}
    BY DEF MetaTagParam, MetaTag, FieldMetaTag, At
  <1>2. Top.at \notin Naming \cup Balancing /\ Top.at # "balanced"
    BY <1>1 DEF Naming, Balancing
  <1>3. CASE L!GetNextToken
    <2>1. Opens
      BY <1>1, StepsOpenOne
         DEF MetaTagParam, MetaTag, FieldMetaTag, BadParameter, TagFails, EndTag
    <2>2. QED
      BY <1>3, <2>1, TakingAdvances DEF Takes
  <1>4. CASE At({"section_equals", "section_id", "flags_equals", "flag"})
             /\ Silent /\ Goto("tag_next")
    <2>1. Height("tag_next") = 3 /\ Height(Top.at) = 4
      BY <1>4, Heights, OtherHeights DEF At
    <2>2. QED
      BY <1>1, <1>2, <1>4, <2>1, QuietKeeps, GotoAdvances
  <1>5. ASSUME At({"tag_open", "tag_next", "tag_flags", "tag_key", "flag_next", "tag_end",
                   "field_tag"}),
               NEW value \in {"done", "failed"}, EndTag(value)
        PROVE  Advances
    <2>1. 3 <= Height(Top.at)
      BY <1>5, Heights, OtherHeights DEF At
    <2>2. Keeps /\ Return(value)
      BY <1>5, QuietKeeps DEF EndTag
    <2>3. QED
      BY <1>1, <1>2, <1>5, <2>1, <2>2, ReturnAdvances
  <1>6. CASE MetaTagParam
    BY <1>3, <1>4, <1>6 DEF MetaTagParam, BadParameter, Eat, Quiet, At
  <1>7. CASE MetaTag
    <2>1. CASE At({"tag_open", "tag_next", "tag_flags", "tag_key", "flag_next"}) /\ TagFails
      BY <1>5, <2>1 DEF TagFails, At
    <2>2. CASE At({"tag_end"}) /\ EndTag("done")
      BY <1>5, <2>2 DEF At
    <2>3. QED
      BY <1>3, <1>7, <2>1, <2>2 DEF MetaTag, Eat, At
  <1>8. CASE FieldMetaTag
    BY <1>3, <1>5, <1>8 DEF FieldMetaTag, TagFails, Eat, At
  <1>9. QED
    BY <1>6, <1>7, <1>8

LEMMA StepAdvances ==
    ASSUME IInv, Next, ~AtEnd
    PROVE  Advances
  <1>1. Parse \/ Declaration => Advances
    BY ParseAdvances, DeclarationAdvances
  <1>2. Declared \/ EnumDeclared \/ ClassDeclared \/ Tagged => Advances
    BY SequenceAdvances
  <1>3. BalancedTokens \/ Function \/ Typedef => Advances
    BY BalancedAdvances, FunctionAdvances, TypedefAdvances
  <1>4. AnonymusNamespace \/ NamedNamespace \/ TemplateArguments \/ TemplateDeclaration
           => Advances
    BY NamespaceAdvances, TemplateAdvances
  <1>5. OpenEnum \/ EnumBase \/ EnumBody \/ EndEnum => Advances
    BY EnumAdvances
  <1>6. ClassIdentifier \/ QualifiedName => Advances
    BY NameAdvances
  <1>7. OpenClass \/ ClassHeader \/ ClassBody \/ SkippedBody \/ Members \/ EndMember
           => Advances
    BY ClassAdvances, BodyAdvances, MembersAdvance, EndMemberAdvances
  <1>8. SeekMember \/ TaggedMember \/ FindMember \/ Method \/ Fields \/ FieldEnd => Advances
    BY MemberAdvances, MethodsAdvance, FieldsAdvance
  <1>9. MetaTagParam \/ MetaTag \/ FieldMetaTag => Advances
    BY TagAdvances
  <1>10. QED
    BY <1>1, <1>2, <1>3, <1>4, <1>5, <1>6, <1>7, <1>8, <1>9 DEF Next, DeclarationSequence

LEMMA FuelFalls ==
    ASSUME IInv, Advances, ~AtEnd
    PROVE  Fuel' < Fuel
  <1> DEFINE k == TokensLeft
             D == Depth(stack, token.type, ret)
             U == TokensLeft'
             E == Depth(stack, token.type, ret)'
             n == Len(stack)
             m == Len(stack')
             q == Rank(stack, token.type, ret)
             r == Rank(stack, token.type, ret)'
  <1>1. Fuel = 40 * k + D /\ Fuel' = 40 * U + E
    BY DEF Fuel
  <1>2. n \in Nat /\ LexerOK
    BY DEF IInv, StackOK, Stacked
  <1>3. k \in Nat /\ D \in Nat /\ D = 10 * n + q /\ q \in 0..29
    BY <1>2, TokensAreNat, DepthIsNat DEF Depth
  <1>4. CASE Takes /\ Len(stack') \in Nat /\ Len(stack') <= Len(stack) + 1
    <2>1. U \in Nat /\ U + 1 <= k
      BY <1>2, <1>4, TakingUses
    <2>2. E = 10 * m + r /\ r \in 0..29 /\ m \in Nat /\ m <= n + 1
      BY <1>4, DepthIsNat DEF Depth
    <2> HIDE DEF k, D, U, E, n, m, q, r
    <2>3. QED
      BY ONLY <1>1, <1>2, <1>3, <2>1, <2>2
  <1>5. CASE Keeps /\ Depth(stack', token.type, ret') \in Nat
                   /\ Depth(stack', token.type, ret') < Depth(stack, token.type, ret)
    <2>1. U \in Nat /\ U <= k
      BY <1>2, <1>5, KeepingKeeps
    <2>2. token' = token
      BY <1>5 DEF Keeps
    <2>3. E = Depth(stack', token.type, ret')
      BY <2>2 DEF Depth, Rank
    <2>4. E \in Nat /\ E < D
      BY <1>5, <2>3
    <2> HIDE DEF k, D, U, E, n, m, q, r
    <2>5. QED
      BY ONLY <1>1, <1>3, <2>1, <2>4
  <1>6. QED
    BY <1>4, <1>5 DEF Advances

\* Before the end of the text every step uses up some of what is left of it: of
\* the tokens, or of what the open calls may do before they take the next.
TokensAreUsedUp == [][~AtEnd => Fuel' < Fuel]_vars

\* No header can keep the parser going for ever in front of the end of its text:
\* whatever it contains, every turn of a loop of parser.cpp and every call of one
\* production by another has a token between it and the last one like it, but
\* for a close brace at file level, which Parse() looks at for ever and where the
\* specification has no step.  Fuel is a natural number that every step makes
\* smaller: it bounds how many steps there are, by the length of the text.
THEOREM ParsingGoesOn == Spec => [](Fuel \in Nat) /\ TokensAreUsedUp
  <1>1. IInv => Fuel \in Nat
    <2> SUFFICES ASSUME IInv PROVE Fuel \in Nat
      OBVIOUS
    <2>1. Len(stack) \in Nat /\ LexerOK
      BY DEF IInv, StackOK, Stacked
    <2> DEFINE k == TokensLeft
               D == Depth(stack, token.type, ret)
    <2>2. k \in Nat /\ D \in Nat
      BY <2>1, TokensAreNat, DepthIsNat
    <2>3. Fuel = 40 * k + D
      BY DEF Fuel
    <2> HIDE DEF k, D
    <2>4. QED
      BY <2>2, <2>3
  <1>2. IInv /\ [Next]_vars => [~AtEnd => Fuel' < Fuel]_vars
    BY StepAdvances, FuelFalls
  <1>3. QED
    BY <1>1, <1>2, Invariance, PTL DEF TokensAreUsedUp, Spec

=============================================================================
