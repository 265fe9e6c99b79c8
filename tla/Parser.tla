------------------------------- MODULE Parser -------------------------------
(***************************************************************************)
(* Parser of src/source/parser.cpp: recursive descent over the tokens of a  *)
(* Lexer into the scopes of a SymTable.  A call of a production is a frame  *)
(* on a stack, with a label for the place in it; a step makes at most one   *)
(* call to the lexer, except that a call that moves the modes has a step of *)
(* its own.  Release build: a failed assertion is noted and passed.         *)
(*                                                                         *)
(* A header is a text with the types it declares, if it is legal and of a   *)
(* form the parser knows, which is what the properties compare with.        *)
(***************************************************************************)
EXTENDS Integers, Sequences, FiniteSets, Selections

CONSTANTS Names,      \* the identifiers
          Headers,    \* records: words, known, declares
          None,       \* no type, no section
          MaxDepth,   \* bound: the scopes in each other
          MaxCalls    \* bound: the calls to the table

Keys == {"SECTION", "FLAGS", "NAME", "ALL_FIELDS", "MARKED_ONLY"}
Punctuation == {"{", "}", "(", ")", "<", ">", ">>", ";", ":", ",", "=", "|"}
Keywords == {"namespace", "template", "enum", "class", "typedef", "using", "final",
             "public", "virtual", "CLASS_META", "ENUM_META", "FIELD_META"}
Words == Names \cup Keys \cup Punctuation \cup Keywords

\* The name of a scope, which may be qualified or have template arguments.
ScopeNames == Seq(Words \cup {"::"})

\* The other types of tokens and the marks of ignored sections are no identifiers.
ASSUME ParserAssumption ==
    /\ Names \cap (Keys \cup Punctuation \cup Keywords) = {}
    /\ Names \cap {"id", "eof", "invalid", "begin", "end"} = {}
    /\ \A h \in Headers : h.words \in Seq(Words) /\ h.known \in BOOLEAN
    /\ MaxDepth \in Nat /\ MaxCalls \in Nat

VARIABLES
    text, rest, queue, token, templateMode, metaMode, answer, delivered, promised,
               \* the Lexer's
    scopes, index, symbols, curr, reading, last, prev, where, entered, visited,
    mixed, strayed, calls,
               \* the SymTable's
    types,     \* types[s]: mpType of the scope s
    lost,      \* the table has left its global scope: mpCurrScope is null
    stack,     \* the calls that are open, the outermost first
    ret,       \* what the last call returned
    taggedOnly, \* mOptions.mIstaggedOnlyModeEnabled
    \* history
    header,    \* the header that is parsed
    reported,  \* the error callback was called
    asserted   \* an assertion failed

L == INSTANCE Lexer WITH MaxText <- 0, MaxQueue <- 1, Offsets <- {1}
T == INSTANCE SymTable WITH Names <- ScopeNames, Symbols <- {},
                            Uninitialised <- {-1}, MaxNested <- 0

lexerVars == <<text, rest, queue, token, templateMode, metaMode, answer, delivered,
               promised>>
scopeVars == <<scopes, index, symbols, curr, reading, last, prev, where, entered,
               visited, mixed, strayed, calls>>
tableVars == <<scopeVars, types, lost>>
marks == <<taggedOnly, header, reported, asserted>>
vars == <<lexerVars, tableVars, stack, ret, marks>>

-----------------------------------------------------------------------------
(* Frames *)

Labels ==
    {"start", "declarations", "declared", "enum_declared", "class_declared", "class_tagged",
     "enum_tagged", "identifier", "function_body", "type_defined", "typedef", "declarators",
     "balanced", "matching", "namespace", "anonymous_end", "namespace_name",
     "namespace_brace", "namespace_end", "template", "template_arguments", "template_of",
     "alias", "template_function_name", "template_function", "template_function_body",
     "enum", "enum_name", "enum_base", "underlying_type", "enumerators", "enumerator",
     "enumerator_value", "class_name", "name_colon", "name_next", "name", "name_peeked",
     "class", "class_scope", "class_head", "class_bases", "base", "base_end", "class_body",
     "body_skipped", "members", "access", "member_end", "member_declared", "member",
     "member_tagged", "member_peeked", "member_found", "method", "method_body", "fields",
     "field_end", "field_value", "crashed", "tag", "tag_open", "tag_key", "section_equals",
     "section_id", "tag_flags", "flags_equals", "flag", "flag_next", "tag_next", "tag_end",
     "field_tag"}

\* at: the label; name: the name of the scope the production has opened;
\* id: the identifier it has read; n: a counter or a depth; ok: the result of a
\* declaration sequence so far; exits: it ends at a close brace; enumTag,
\* classTag: the tags it met; section: mSectionId of the tags; members: what an
\* enumeration has of them.
Frame(at) ==
    [at |-> at, name |-> <<>>, id |-> <<>>, n |-> 0, ok |-> TRUE, exits |-> FALSE,
     enumTag |-> FALSE, classTag |-> FALSE, section |-> None, members |-> <<>>]

Top == stack[Len(stack)]
Under == SubSeq(stack, 1, Len(stack) - 1)
At(labels) == stack # <<>> /\ Top.at \in labels

Becomes(frame) == stack' = Append(Under, frame) /\ UNCHANGED ret
Goto(at) == Becomes([Top EXCEPT !.at = at])
Call(frame, back) ==
    stack' = Under \o <<[Top EXCEPT !.at = back], frame>> /\ UNCHANGED ret
Return(value) == stack' = Under /\ ret' = value

Is(type) == token.type = type
IsId == token.type \in Names \cup {"id"}
Word == text[token.at]
AtEnd == token = L!Eof

NoTable == UNCHANGED <<tableVars, marks>>
Silent == UNCHANGED lexerVars
Eat == L!GetNextToken /\ NoTable
Quiet == Silent /\ NoTable

\* _expect calls the error callback.
Reports == reported' = TRUE /\ UNCHANGED <<taggedOnly, header, asserted>>
Asserts == asserted' = TRUE /\ UNCHANGED <<taggedOnly, header, reported>>
Fails == Silent /\ Return("failed") /\ Reports /\ UNCHANGED tableVars

-----------------------------------------------------------------------------
(* The symbol table, as the parser uses it *)

\* Variant: the scopes around the current one are not searched.
LookUpHere(name) == Append(curr, name)

\* The child of that name of the innermost scope that has one.
LookUpNamedScope(name) ==
    LET having == {s \in T!Enclosing(curr) : Append(s, name) \in scopes}
    IN  Append(T!Innermost(having), name)

\* The names of the scopes around the one found, of those that have a type already,
\* and its own.  No scope of a parser is anonymous.
GetMangledNameForNamedScope(name) ==
    LET found == LookUpNamedScope(name)
        HasType(n) == SubSeq(found, 1, n) \in DOMAIN types
        around == SelectSeq([n \in 1..(Len(found) - 1) |-> n], HasType)
    IN  [k \in 1..Len(around) |-> found[around[k]]] \o <<name>>

Type(kind, tagged, members) ==
    [kind |-> kind, forward |-> FALSE, tagged |-> tagged, section |-> Top.section,
     members |-> members,
     name |-> IF kind = "namespace" THEN <<>> ELSE GetMangledNameForNamedScope(Top.name)]

\* Variant: only the first declaration gives a scope its type.
KeepsType(s, type) ==
    types' = IF s \in DOMAIN types THEN types ELSE T!Extended(types, s, type)

SetType(s, type) == types' = T!Extended(types, s, type)

KindOf(s) == IF s \in DOMAIN types THEN types[s].kind ELSE None

\* When mpCurrScope is null the next call dereferences it, and no step follows.
CreateScope(name) ==
    /\ ~lost
    /\ T!CreateNamedScope(name)
    /\ UNCHANGED lost

\* Variant: the scope is not left.
StaysInside == UNCHANGED <<scopeVars, lost>>

\* ExitScope; of the global scope it makes the current scope null.
ExitScope ==
    /\ ~lost
    /\ IF curr = T!Global THEN lost' = TRUE /\ UNCHANGED scopeVars
       ELSE T!ExitScope /\ UNCHANGED lost

-----------------------------------------------------------------------------
(* Balanced tokens *)

Closing == [open \in {"{", "(", "<"} |->
              CASE open = "{" -> "}" [] open = "(" -> ")" [] open = "<" -> ">"]

\* _consumeBalancedTokens, of one kind of tokens; there is no way out at the
\* end of the text.
BalancedTokens ==
    \/ /\ At({"balanced"})
       /\ IF token.type \in DOMAIN Closing
          THEN Eat /\ Becomes([Top EXCEPT !.at = "matching", !.id = <<token.type>>, !.n = 1])
          ELSE Quiet /\ Return("done")
    \/ /\ At({"matching"})
       /\ Eat
       /\ LET open == Top.id[1]
          IN  IF Is(Closing[open]) /\ Top.n = 1 THEN Return("done")
              ELSE Becomes([Top EXCEPT !.n = IF Is(Closing[open]) THEN @ - 1
                                             ELSE IF Is(open) THEN @ + 1 ELSE @])

-----------------------------------------------------------------------------
(* Sequences of declarations *)

Result(ok) == IF ok THEN "done" ELSE "failed"

\* Variant: the token is looked at again.
StaysAtToken == Quiet /\ Goto("declarations")

\* The default case: an unknown token is skipped.
SkipToken == Eat /\ Goto("declarations")

TagsFrame(tag) == [Frame(tag) EXCEPT !.section = Top.section]

\* The switch over the current token.  A close brace that ends no sequence is
\* looked at forever.
Declaration ==
    /\ At({"declarations"})
    /\ \/ AtEnd /\ Quiet /\ Return(Result(Top.ok))
       \/ Is("}") /\ Top.exits /\ Quiet /\ Return("done")
       \/ Is("{") /\ Quiet /\ Call(Frame("balanced"), "declared")
       \/ Is("namespace") /\ Eat /\ Call(Frame("namespace"), "declared")
       \/ Is("template") /\ Eat /\ Call(Frame("template"), "declared")
       \/ /\ Is("enum") /\ Eat
          /\ Call([TagsFrame("enum") EXCEPT !.enumTag = Top.enumTag], "enum_declared")
       \/ /\ Is("class") /\ Eat
          /\ Call([TagsFrame("class") EXCEPT !.classTag = Top.classTag], "class_declared")
       \/ Is("typedef") /\ Eat /\ Call(Frame("typedef"), "type_defined")
       \/ /\ token.type \in {"CLASS_META", "ENUM_META"}
          /\ L!SetMetaTagParsingMode(TRUE) /\ NoTable
          /\ Call(Frame("tag"), IF Is("CLASS_META") THEN "class_tagged" ELSE "enum_tagged")
       \/ IsId /\ L!PeekToken(1) /\ NoTable /\ Goto("identifier")
       \/ /\ ~AtEnd /\ ~IsId
          /\ token.type \notin {"}", "{", "namespace", "template", "enum", "class",
                                "typedef", "CLASS_META", "ENUM_META"}
          /\ SkipToken

\* Behind a production that needs no semicolon.
Declared ==
    /\ At({"declared"})
    /\ Quiet /\ Becomes([Top EXCEPT !.at = "declarations", !.ok = ret # "failed"])

EnumDeclared ==
    /\ At({"enum_declared"})
    /\ IF Is(";")
       THEN Eat /\ Becomes([Top EXCEPT !.at = "declarations", !.ok = ret # "failed",
                                       !.enumTag = FALSE])
       ELSE Fails

\* What stands between a forward declaration and its semicolon is skipped.
ClassDeclared ==
    /\ At({"class_declared"})
    /\ IF Is(";")
       THEN Eat /\ Becomes([Top EXCEPT !.at = "declarations", !.classTag = FALSE])
       ELSE IF ret = "forward" /\ ~AtEnd THEN Eat /\ Goto("class_declared")
       ELSE Fails

Tagged ==
    /\ At({"class_tagged", "enum_tagged"})
    /\ Quiet
    /\ IF ret = "failed" THEN Return("failed")
       ELSE Becomes([Top EXCEPT !.at = "declarations",
                                !.classTag = @ \/ Top.at = "class_tagged",
                                !.enumTag = @ \/ Top.at = "enum_tagged"])

\* An identifier before a parenthesis is a function, which is skipped.
Function ==
    \/ /\ At({"identifier"})
       /\ Eat
       /\ IF answer.type = "(" THEN Call(Frame("balanced"), "function_body")
          ELSE Goto("declarations")
    \/ /\ At({"function_body"})
       /\ IF Is("{") THEN Quiet /\ Call(Frame("balanced"), "declarations")
          ELSE IF Is(";") THEN Eat /\ Goto("declarations")
          ELSE Quiet /\ Goto("declarations")

\* _parseTypeSpecifier and the declarators behind it, up to the semicolon.
Typedef ==
    \/ /\ At({"typedef"})
       /\ IF token.type \in {"template", "enum", "class"}
          THEN Eat /\ Call(Frame(token.type), "declarators")
          ELSE Quiet /\ Goto("declarators")
    \/ /\ At({"declarators"})
       /\ IF Is(";") THEN Quiet /\ Return("done") ELSE Eat /\ Goto("declarators")
    \/ At({"type_defined"}) /\ Eat /\ Goto("declarations")

DeclarationSequence == Declaration \/ Declared \/ EnumDeclared \/ ClassDeclared \/ Tagged

-----------------------------------------------------------------------------
(* Namespaces *)

Body == [Frame("declarations") EXCEPT !.exits = TRUE]

\* A named namespace is tried when an anonymous one fails, too.
AnonymusNamespace ==
    \/ /\ At({"namespace"}) /\ Is("{")
       /\ Eat /\ Call(Body, "anonymous_end")
    \/ /\ At({"anonymous_end"})
       /\ IF ret # "failed" /\ Is("}") THEN Eat /\ Return("done")
          ELSE /\ Silent /\ UNCHANGED tableVars /\ Goto("namespace_name")
               /\ reported' = (reported \/ ret # "failed")
               /\ UNCHANGED <<taggedOnly, header, asserted>>

OpenNamespace ==
    /\ At({"namespace", "namespace_name"}) /\ ~(At({"namespace"}) /\ Is("{"))
    /\ \/ ~IsId /\ Fails
       \/ /\ IsId /\ Append(curr, <<Word>>) \in scopes
          /\ CreateScope(<<Word>>) /\ UNCHANGED types
          /\ Silent /\ Return("failed") /\ Asserts
       \/ /\ IsId /\ Append(curr, <<Word>>) \notin scopes
          /\ CreateScope(<<Word>>) /\ UNCHANGED types
          /\ L!GetNextToken /\ UNCHANGED marks
          /\ Becomes([Top EXCEPT !.at = "namespace_brace", !.name = <<Word>>])

\* The scope is left only behind its close brace: not if the name is that of an
\* alias or of a nested namespace, nor if the body fails.
NamedNamespace ==
    \/ OpenNamespace
    \/ /\ At({"namespace_brace"})
       /\ IF Is("{")
          THEN /\ L!GetNextToken /\ UNCHANGED <<scopeVars, lost, marks>>
               /\ SetType(LookUpNamedScope(Top.name), Type("namespace", FALSE, <<>>))
               /\ Call(Body, "namespace_end")
          ELSE Fails
    \/ /\ At({"namespace_end"})
       /\ IF ret = "failed" THEN Quiet /\ Return("failed")
          ELSE IF ~Is("}") THEN Fails
          ELSE /\ L!GetNextToken /\ ExitScope /\ UNCHANGED <<types, marks>>
               /\ Return("done")

-----------------------------------------------------------------------------
(* Templates *)

TemplateArguments ==
    \/ /\ At({"template"})
       /\ L!SetTemplateArgsParsingMode(TRUE) /\ NoTable
       /\ Call(Frame("balanced"), "template_arguments")
    \/ /\ At({"template_arguments"})
       /\ L!SetTemplateArgsParsingMode(FALSE) /\ NoTable
       /\ Goto("template_of")

\* What the function returns where it has no return statement.
ReturnAnything == \E value \in {"done", "failed"} : Return(value)

TemplateDeclaration ==
    \/ At({"template_of"}) /\ Is("class") /\ Eat /\ Becomes(Frame("class"))
    \/ /\ (At({"template_of"}) /\ Is("using")) \/ At({"alias"})
       /\ Eat
       /\ IF Is(";") \/ AtEnd THEN ReturnAnything ELSE Goto("alias")
    \/ /\ At({"template_of"}) /\ token.type \notin {"class", "using"}
       /\ IF Is("(") \/ AtEnd
          THEN Quiet /\ Call(Frame("balanced"), "template_function")
          ELSE Eat /\ Goto("template_function_name")
    \/ /\ At({"template_function_name"})
       /\ IF Is("(") \/ AtEnd
          THEN Quiet /\ Call(Frame("balanced"), "template_function")
          ELSE Eat /\ Goto("template_function_name")
    \/ /\ At({"template_function"})
       /\ IF Is(";") THEN Eat /\ Return("done")
          ELSE Quiet /\ Call(Frame("balanced"), "template_function_body")
    \/ At({"template_function_body"}) /\ Quiet /\ ReturnAnything

-----------------------------------------------------------------------------
(* Enumerations *)

OpenEnum ==
    \/ At({"enum"}) /\ Is("class") /\ Eat /\ Goto("enum_name")
    \/ /\ At({"enum", "enum_name"}) /\ ~(At({"enum"}) /\ Is("class"))
       /\ \/ ~IsId /\ Fails
          \/ /\ IsId
             /\ CreateScope(<<Word>>) /\ UNCHANGED types
             /\ L!GetNextToken
             /\ Becomes([Top EXCEPT !.at = "enum_base", !.name = <<Word>>])
             /\ asserted' = (asserted \/ Append(curr, <<Word>>) \in scopes)
             /\ UNCHANGED <<taggedOnly, header, reported>>

\* The scope found before the enumerators gets the type behind them, and is
\* left, whether or not it was entered.
CloseEnum(forward) ==
    /\ SetType(LookUpNamedScope(Top.name),
               [Type("enum", Top.enumTag, Top.members) EXCEPT !.forward = forward])
    /\ ExitScope
    /\ UNCHANGED marks
    /\ Return("done")

\* The underlying type goes up to the semicolon or the body.
EnumBase ==
    \/ At({"enum_base"}) /\ Is(":") /\ Eat /\ Goto("underlying_type")
    \/ /\ At({"underlying_type"}) /\ token.type \notin {";", "{"}
       /\ Eat /\ Goto("underlying_type")
    \/ /\ (At({"enum_base"}) /\ ~Is(":")) \/ (At({"underlying_type"}) /\ token.type \in {";", "{"})
       /\ IF Is("{") THEN Eat /\ Goto("enumerators")
          ELSE Silent /\ CloseEnum(Is(";"))

\* A value is skipped up to the comma or the brace.
EnumBody ==
    \/ /\ At({"enumerators"}) /\ IsId
       /\ Eat
       /\ Becomes([Top EXCEPT !.at = "enumerator", !.members = Append(@, Word)])
    \/ At({"enumerator"}) /\ Is("=") /\ Eat /\ Goto("enumerator_value")
    \/ /\ At({"enumerator_value"}) /\ token.type \notin {",", "}"} /\ ~AtEnd
       /\ Eat /\ Goto("enumerator_value")
    \/ At({"enumerator", "enumerator_value"}) /\ Is(",") /\ Eat /\ Goto("enumerators")

EndEnum ==
    /\ \/ At({"enumerators"}) /\ ~IsId
       \/ At({"enumerator"}) /\ token.type \notin {"=", ","}
       \/ At({"enumerator_value"}) /\ (Is("}") \/ AtEnd)
    /\ IF Is("}") THEN L!GetNextToken /\ CloseEnum(FALSE) ELSE Fails

-----------------------------------------------------------------------------
(* Names of classes *)

\* The caller gets the name that was read.
GiveName ==
    /\ stack' = [Under EXCEPT ![Len(Under)].id = Top.id]
    /\ UNCHANGED ret

ReadInto(at, word) == Becomes([Top EXCEPT !.at = at, !.id = Append(@, word)])

\* Two colons need a peek; < turns the template mode on, and a name does not
\* turn it off again.
ClassIdentifier ==
    \/ /\ At({"class_name"})
       /\ \/ IsId /\ Eat /\ ReadInto("name", Word)
          \/ Is(":") /\ L!PeekToken(1) /\ NoTable /\ Goto("name_colon")
          \/ /\ ~IsId /\ ~Is(":")
             /\ L!SetTemplateArgsParsingMode(FALSE) /\ NoTable /\ GiveName
    \/ /\ At({"name_colon"})
       /\ IF answer.type = ":" THEN Eat /\ ReadInto("name_next", "::")
          ELSE L!SetTemplateArgsParsingMode(FALSE) /\ NoTable /\ GiveName
    \/ At({"name_next"}) /\ Eat /\ Goto("name")

QualifiedName ==
    \/ /\ At({"name"})
       /\ \/ /\ Is("<")
             /\ L!SetTemplateArgsParsingMode(TRUE) /\ NoTable
             /\ Becomes([Top EXCEPT !.at = "name_next", !.id = Append(@, "<"), !.n = @ + 1])
          \/ /\ Is(">") /\ Eat
             /\ Becomes([Top EXCEPT !.id = Append(@, ">"), !.n = @ - 1])
          \/ Is(":") /\ L!PeekToken(1) /\ NoTable /\ Goto("name_peeked")
          \/ /\ (IsId \/ Top.n > 0) /\ token.type \notin {"<", ">", ":"}
             /\ Eat
             /\ IF AtEnd THEN Goto("name") ELSE ReadInto("name", Word)
          \/ /\ ~IsId /\ Top.n <= 0 /\ token.type \notin {"<", ">", ":"}
             /\ Quiet /\ GiveName
    \/ /\ At({"name_peeked"})
       /\ IF answer.type = ":" THEN Eat /\ ReadInto("name_next", "::")
          ELSE IF Top.n > 0 THEN Eat /\ ReadInto("name", ":")
          ELSE Quiet /\ GiveName

-----------------------------------------------------------------------------
(* Classes *)

ForwardOrDone(type) == IF type.forward THEN "forward" ELSE "done"

\* The scope is left wherever the function returns.
ReturnClass(value) == ExitScope /\ Return(value)

ClassFails == Silent /\ ReturnClass("failed") /\ Reports

\* The scope of a class that was declared before is entered again.
OpenClass ==
    \/ At({"class"}) /\ Quiet /\ Call(Frame("class_name"), "class_scope")
    \/ /\ At({"class_scope"})
       /\ \/ Top.id = <<>> /\ Fails
          \/ /\ Top.id # <<>> /\ ~lost
             /\ Silent
             /\ IF Append(curr, Top.id) \in scopes
                THEN T!EnterNamedScope(Top.id) ELSE T!CreateNamedScope(Top.id)
             /\ UNCHANGED <<types, lost, marks>>
             /\ Becomes([Top EXCEPT !.at = "class_head", !.name = Top.id])

\* The new type replaces what the scope had; it has no members yet.
SetClassType ==
    SetType(LookUpNamedScope(Top.name), Type("class", Top.classTag, <<>>))

ClassHeader ==
    \/ At({"class_head"}) /\ Is("final") /\ Eat /\ Goto("class_bases")
    \/ /\ At({"class_head", "class_bases"}) /\ ~(At({"class_head"}) /\ Is("final"))
       /\ IF Is(":") THEN Eat /\ Becomes([Top EXCEPT !.at = "base", !.n = 0])
          ELSE /\ Silent /\ SetClassType /\ UNCHANGED <<scopeVars, lost, marks>>
               /\ Goto("class_body")
    \/ /\ At({"base"})
       /\ IF token.type \in {"public", "virtual"} /\ Top.n < 2
          THEN Eat /\ Becomes([Top EXCEPT !.n = @ + 1])
          ELSE Quiet /\ Call(Frame("class_name"), "base_end")
    \/ /\ At({"base_end"})
       /\ \/ Is(",") /\ Eat /\ Becomes([Top EXCEPT !.at = "base", !.n = 0])
          \/ /\ Is("{")
             /\ Silent /\ SetClassType /\ UNCHANGED <<scopeVars, lost, marks>>
             /\ Goto("class_body")
          \/ token.type \notin {",", "{"} /\ SetClassType /\ ClassFails

\* The members are passed over in a run for tagged types only.
ClassBody ==
    /\ At({"class_body"})
    /\ \/ /\ ~Is("{")
          /\ Silent /\ UNCHANGED marks
          /\ types' = [types EXCEPT ![LookUpNamedScope(Top.name)].forward = TRUE]
          /\ ReturnClass(ForwardOrDone(types'[curr]))
       \/ /\ Is("{") /\ taggedOnly /\ ~Top.classTag
          /\ Quiet /\ Call(Frame("balanced"), "body_skipped")
       \/ /\ Is("{") /\ (Top.classTag \/ ~taggedOnly)
          /\ Eat /\ Becomes([Top EXCEPT !.at = "members", !.n = 1])

SkippedBody ==
    /\ At({"body_skipped"})
    /\ IF Is(";") THEN /\ Silent /\ UNCHANGED <<types, marks>>
                       /\ ReturnClass(ForwardOrDone(types[curr]))
       ELSE Eat /\ Goto("body_skipped")

\* n is the depth of braces in front of the token.
Members ==
    /\ At({"members"})
    /\ \/ Is("public") /\ Eat /\ Goto("access")
       \/ /\ Is("}") /\ Top.n = 1
          /\ L!GetNextToken /\ UNCHANGED <<types, marks>>
          /\ ReturnClass(ForwardOrDone(types[curr]))
       \/ Is(";") /\ Eat /\ Goto("members")
       \/ /\ token.type \in {"enum", "template", "class", "typedef"}
          /\ Eat /\ Call(Frame(token.type), "member_end")
       \/ /\ token.type \notin {"public", ";", "enum", "template", "class", "typedef"}
          /\ ~(Is("}") /\ Top.n = 1)
          /\ Quiet
          /\ LET depth == Top.n + (IF Is("{") THEN 1 ELSE IF Is("}") THEN -1 ELSE 0)
             IN  stack' = Under \o <<[Top EXCEPT !.at = "member_declared", !.n = depth],
                                     Frame("member")>> /\ UNCHANGED ret

\* A method needs no semicolon behind it.
EndMember ==
    \/ /\ At({"access"})
       /\ IF Is(":") THEN Eat /\ Goto("members") ELSE UNCHANGED types /\ ClassFails
    \/ At({"member_declared"}) /\ ret = "method" /\ Quiet /\ Goto("members")
    \/ /\ At({"member_end", "member_declared"}) /\ ~(At({"member_declared"}) /\ ret = "method")
       /\ IF Is(";") THEN Eat /\ Goto("members") ELSE UNCHANGED types /\ ClassFails

-----------------------------------------------------------------------------
(* Members *)

\* Variant: the next token is peeked at before the tag is looked for.
PeeksBeforeTag ==
    /\ At({"member"})
    /\ IF queue = <<>> THEN L!PeekToken(1) /\ NoTable /\ Goto("member")
       ELSE IF Is("FIELD_META")
       THEN /\ L!SetMetaTagParsingMode(TRUE) /\ NoTable
            /\ Call([Frame("field_tag") EXCEPT !.n = 1], "member_tagged")
       ELSE Quiet /\ Goto(IF AtEnd THEN "member_found" ELSE "member_peeked")

\* The end of the text counts as the name of a member.
SeekMember ==
    /\ At({"member"})
    /\ IF Is("FIELD_META")
       THEN /\ L!SetMetaTagParsingMode(TRUE) /\ NoTable
            /\ Call([Frame("field_tag") EXCEPT !.n = 1], "member_tagged")
       ELSE /\ L!PeekToken(1) /\ NoTable
            /\ Goto(IF AtEnd THEN "member_found" ELSE "member_peeked")

TaggedMember ==
    /\ At({"member_tagged"})
    /\ IF ret = "failed" THEN Quiet /\ Return("failed")
       ELSE L!PeekToken(1) /\ NoTable /\ Goto("member_peeked")

IsMemberName == IsId /\ answer.type \in {",", ";", "=", "("}

\* The type is skipped up to the name; a parenthesis behind it makes a method.
FindMember ==
    /\ At({"member_peeked", "member_found"})
    /\ IF At({"member_peeked"}) /\ ~IsMemberName THEN Eat /\ Goto("member")
       ELSE IF answer.type = "(" THEN Eat /\ Call(Frame("balanced"), "method")
       ELSE Quiet /\ Goto("fields")

Method ==
    \/ /\ At({"method"})
       /\ IF Is(";") THEN Quiet /\ Return("method")
          ELSE IF Is("{") THEN Quiet /\ Call(Frame("balanced"), "method_body")
          ELSE Eat /\ Goto("method")
    \/ At({"method_body"}) /\ Quiet /\ Return("method")

\* The fields are those of the current scope, which is to be a class.
Fields ==
    /\ At({"fields"})
    /\ asserted' = (asserted \/ KindOf(curr) # "class")
    /\ UNCHANGED <<taggedOnly, header, scopeVars, lost>>
    /\ \/ /\ Is(";")
          /\ Silent /\ Return("done") /\ UNCHANGED <<types, reported>>
       \/ /\ ~Is(";") /\ ~IsId
          /\ Silent /\ Return("failed") /\ reported' = TRUE /\ UNCHANGED types
       \/ /\ IsId /\ KindOf(curr) = "class"
          /\ L!GetNextToken
          /\ types' = [types EXCEPT ![curr].members = Append(@, Word)]
          /\ Goto("field_end") /\ UNCHANGED reported
       \/ /\ IsId /\ KindOf(curr) # "class"
          /\ Silent /\ Goto("crashed") /\ UNCHANGED <<types, reported>>

\* An initializer is skipped.
FieldEnd ==
    \/ /\ At({"field_end"})
       /\ IF Is(",") THEN Eat /\ Goto("fields")
          ELSE Quiet /\ Goto(IF Is("=") THEN "field_value" ELSE "fields")
    \/ /\ At({"field_value"})
       /\ IF Is(";") \/ AtEnd THEN Quiet /\ Goto("fields") ELSE Eat /\ Goto("field_value")

-----------------------------------------------------------------------------
(* Meta tags *)

EndTag(value) ==
    /\ L!SetMetaTagParsingMode(FALSE)
    /\ Return(value)
    /\ UNCHANGED tableVars

TagFails == EndTag("failed") /\ Reports

\* The section is an attribute of the sequence of declarations.
SetSection(name) ==
    /\ stack' = [stack EXCEPT ![Len(stack) - 1].section = name,
                              ![Len(stack)].at = "tag_flags"]
    /\ UNCHANGED ret

\* A parameter that is not complete is reported, and the tag goes on behind it.
BadParameter == Silent /\ Goto("tag_next") /\ Reports /\ UNCHANGED tableVars

Flags == {"ALL_FIELDS", "MARKED_ONLY"}

MetaTagParam ==
    \/ At({"tag_key"}) /\ Is("SECTION") /\ Eat /\ Goto("section_equals")
    \/ /\ At({"section_equals"})
       /\ IF Is("=") THEN Eat /\ Goto("section_id") ELSE BadParameter
    \/ /\ At({"section_id"})
       /\ IF IsId THEN Eat /\ SetSection(Word) ELSE BadParameter
    \/ At({"tag_key", "tag_flags"}) /\ Is("FLAGS") /\ Eat /\ Goto("flags_equals")
    \/ /\ At({"flags_equals"})
       /\ IF Is("=") THEN Eat /\ Goto("flag") ELSE BadParameter
    \/ /\ At({"flag"})
       /\ IF token.type \in Flags THEN Eat /\ Goto("flag_next") ELSE Quiet /\ Goto("tag_next")
    \/ At({"flag_next"}) /\ Is("|") /\ Eat /\ Goto("flag")

MetaTag ==
    \/ At({"tag"}) /\ Eat /\ Goto("tag_open")
    \/ /\ At({"tag_open"})
       /\ IF Is("(") THEN Eat /\ Goto("tag_key") ELSE TagFails
    \/ /\ \/ At({"tag_next"})
          \/ At({"tag_flags"}) /\ ~Is("FLAGS")
          \/ At({"tag_key"}) /\ token.type \notin {"SECTION", "FLAGS"}
          \/ At({"flag_next"}) /\ ~Is("|")
       /\ IF Is(",") THEN Eat /\ Goto("tag_key")
          ELSE IF Is(")") THEN Eat /\ Goto("tag_end")
          ELSE TagFails
    \/ At({"tag_end"}) /\ EndTag("done") /\ UNCHANGED marks

\* FIELD_META(NAME=id)
FieldTagTypes == <<{"FIELD_META"}, {"("}, {"NAME"}, {"="}, Names \cup {"id"}, {")"}>>

FieldMetaTag ==
    /\ At({"field_tag"})
    /\ IF token.type \in FieldTagTypes[Top.n]
       THEN Eat /\ Becomes([Top EXCEPT !.at = IF Top.n = 6 THEN "tag_end" ELSE @,
                                       !.n = @ + 1])
       ELSE TagFails

-----------------------------------------------------------------------------
Init == /\ header \in Headers
        /\ text = header.words /\ rest = text
        /\ queue = <<>> /\ token = L!Invalid
        /\ templateMode = FALSE /\ metaMode = FALSE
        /\ answer = L!Invalid /\ delivered = <<>> /\ promised = L!Invalid
        /\ T!Init
        /\ types = [s \in {} |-> None] /\ lost = FALSE
        /\ stack = <<Frame("start")>> /\ ret = "done"
        /\ taggedOnly \in BOOLEAN
        /\ reported = FALSE /\ asserted = FALSE

Parse == At({"start"}) /\ L!GetCurrToken /\ NoTable /\ Goto("declarations")

Next ==
    \/ Parse \/ DeclarationSequence \/ Function \/ Typedef \/ BalancedTokens
    \/ AnonymusNamespace \/ NamedNamespace
    \/ TemplateArguments \/ TemplateDeclaration
    \/ OpenEnum \/ EnumBase \/ EnumBody \/ EndEnum
    \/ ClassIdentifier \/ QualifiedName
    \/ OpenClass \/ ClassHeader \/ ClassBody \/ SkippedBody \/ Members \/ EndMember
    \/ SeekMember \/ TaggedMember \/ FindMember \/ Method \/ Fields \/ FieldEnd
    \/ MetaTagParam \/ MetaTag \/ FieldMetaTag

Spec == Init /\ [][Next]_vars

\* parseHeaderFile calls Parse() and waits for it.
FairSpec == Spec /\ WF_vars(Next)

-----------------------------------------------------------------------------
(* Properties *)

Kinds == {"namespace", "enum", "class"}

TypeOK ==
    /\ L!TypeOK /\ T!TypeOK
    /\ DOMAIN types \subseteq scopes
    /\ \A s \in DOMAIN types :
          /\ types[s].kind \in Kinds
          /\ types[s].forward \in BOOLEAN /\ types[s].tagged \in BOOLEAN
          /\ types[s].section \in Names \cup Keys \cup {None}
    /\ \A n \in 1..Len(stack) : stack[n].at \in Labels /\ stack[n].n \in Int
    /\ ret \in {"done", "failed", "forward", "method"}
    /\ lost \in BOOLEAN /\ taggedOnly \in BOOLEAN
    /\ reported \in BOOLEAN /\ asserted \in BOOLEAN

\* The scopes the open productions have entered.
PathOf(frames) ==
    Selected([n \in 1..Len(frames) |-> frames[n].name], ScopeNames \ {<<>>})

\* Up to the first error, a type is filed under the namespaces and classes that
\* are being parsed around it: every production leaves the scope it entered,
\* whichever of its ways out it takes.
CursorFollowsBlocks ==
    ~reported /\ ~asserted /\ ~AtEnd => ~lost /\ curr = PathOf(stack)

Found ==
    {[path |-> s, kind |-> types[s].kind, forward |-> types[s].forward,
      tagged |-> types[s].tagged, members |-> types[s].members,
      section |-> IF types[s].tagged THEN types[s].section ELSE None] :
        s \in {t \in DOMAIN types : types[t].kind # "namespace"}}

\* A run for tagged types does not look into the other classes.
PassedOver(r) == taggedOnly /\ r.kind = "class" /\ ~r.tagged
Expected ==
    {IF PassedOver(r) THEN [r EXCEPT !.members = <<>>] ELSE r :
       r \in {d \in header.declares :
                \A c \in header.declares :
                   c.path \in {SubSeq(d.path, 1, n) : n \in 1..(Len(d.path) - 1)}
                      => ~PassedOver(c)}}

\* Of a header whose forms the parser knows it finds every type, in its place and
\* under its full name, from which the name in metadata.h is made, with its tag
\* and its members, and nothing else, and has nothing to report.  A
\* class that is declared again behind its definition is left as declared, and a
\* tag without a section goes with that of the tag before.
KnownHeaderIsUnderstood ==
    stack = <<>> /\ header.known =>
        /\ Found = Expected
        /\ \A s \in DOMAIN types : types[s].kind # "namespace" => types[s].name = s
        /\ ~reported /\ ~asserted
        /\ curr = T!Global

\* A close brace at file level: the loop of Parse() looks at it forever.
StrayBrace == Is("}") /\ Len(stack) = 1 /\ At({"declarations"})

\* The parser comes to the end of every text, but for a stray brace; of a header
\* it knows it also notices the end, which other texts may hide from the loops
\* that wait for a certain token.
ParsingEnds ==
    <>(\/ stack = <<>>
       \/ ~header.known /\ (AtEnd \/ StrayBrace \/ lost \/ At({"crashed"})))

\* The lexer's modes change between two tokens: no token was read ahead under
\* the other mode, except by a name that turns out to be none.
ModesChangeBetweenTokens ==
    [][<<templateMode, metaMode>>' # <<templateMode, metaMode>> =>
          queue = <<>> \/ At({"name_colon"})]_vars

\* No assertion of the parser fails: parser.cpp:264, "assert(false)", where a
\* namespace cannot be created, and parser.cpp:419, "assert(result)", where an
\* enumeration cannot.
AssertionsHold == ~asserted

=============================================================================
