----------------------------- MODULE TreeDisplay ----------------------------
(* The Display implementations of the parse tree                             *)
(* (solang-parser/src/helpers/fmt.rs): a tree printed on one line, as        *)
(* lexemes and spaces, and how the lexer reads the text again.               *)
EXTENDS FormatBuffer, SourceTree

RECURSIVE Display(_)

(* write_separated                                                           *)
Separated(ns, sep) ==
    Concat([i \in 1..Len(ns) |-> (IF i = 1 THEN <<>> ELSE sep) \o Display(ns[i])])
CommaSpace == <<",", SP>>
Listed(open, ns, close) == <<open>> \o Separated(ns, CommaSpace) \o <<close>>
(* write_opt!                                                                *)
Opt(before, ns) == IF ns = <<>> THEN <<>> ELSE before \o Display(ns[1])
SpacedMutant(ns) == Separated(ns, <<SP>>)
Spaced(ns) == IF ns = <<>> THEN <<>> ELSE <<SP>> \o Separated(ns, <<SP>>)
Optional(n, k) == IF Has(n, k) THEN <<Kid(n, k)>> ELSE <<>>
Statements_(ns) == <<"{">> \o Separated(ns, <<SP>>) \o <<"}">>
(* What lies between two words, the words left out                           *)
Between(n, t1, t2) ==
    LET at(t, none) == IF HasWord(n, t)
                       THEN Min({j \in 1..Len(n.p) : n.p[j].k = "word" /\ n.p[j].t = t}) ELSE none
    IN  SelectSeq(SubSeq(n.p, at(t1, 0) + 1, at(t2, Len(n.p) + 1) - 1), LAMBDA m : m.k # "word")

-----------------------------------------------------------------------------
(* Display for pt::Type, and for the literals among the expressions          *)
DisplayType(n) ==
    LET kids == Kids(n)
    IN  IF n.k = "mapping"
        THEN <<"mapping", "(">> \o Separated(Between(n, "(", "=>"), <<SP>>) \o <<SP, "=>", SP>>
             \o Separated(Between(n, "=>", ")"), <<SP>>) \o <<")">>
        ELSE <<"function", SP>> \o Listed("(", KidsOf(n, "params"), ")") \o Spaced(KidsOf(n, "attrs"))
             \o (IF KidsOf(n, "returns") = <<>> THEN <<>>
                 ELSE <<SP, "returns", SP>> \o Listed("(", KidsOf(n, "returns"), ")"))

(* Display for pt::Expression: everything but the operators                  *)
DisplayExpression(n) ==
    LET kids == Kids(n)
    IN  CASE n.k \in {"new", "delete"} -> <<n.k, SP>> \o Display(kids[1])
          [] n.k = "array" -> Listed("[", kids, "]")
          [] n.k = "subscript" -> Display(kids[1]) \o <<"[">> \o Opt(<<>>, Tail(kids)) \o <<"]">>
          [] n.k = "slice" ->
                Display(kids[1]) \o <<"[">> \o Opt(<<>>, Between(n, "[", ":")) \o <<":">>
                \o Opt(<<>>, Between(n, ":", "]")) \o <<"]">>
          [] n.k = "member" -> Display(kids[1]) \o <<".">> \o Display(kids[2])
          [] n.k = "paren" -> <<"(">> \o Display(kids[1]) \o <<")">>
          [] n.k = "tuple" -> Listed("(", kids, ")")
          [] n.k = "strings" -> Separated(kids, <<SP>>)
          [] n.k = "numunit" -> <<n.p[1].t, SP>> \o Display(kids[1])
          [] n.k = "call" -> Display(kids[1]) \o Listed("(", Tail(kids), ")")
          [] n.k = "callblock" -> Display(kids[1]) \o Listed("{", Kids(kids[2]), "}")
          [] n.k = "namedcall" ->
                Display(kids[1]) \o <<"(">> \o Listed("{", Tail(kids), "}") \o <<")">>
          [] n.k = "namedarg" -> Display(kids[1]) \o <<":", SP>> \o Display(kids[2])
          [] n.k = "ternary" ->
                Display(kids[1]) \o <<SP, "?", SP>> \o Display(kids[2]) \o <<SP, ":", SP>> \o Display(kids[3])

(* The operators: components, has_space_around and operator                  *)
DisplayOperator(n) ==
    LET kids == Kids(n)
    IN  CASE n.k = "pre" -> <<n.p[1].t>> \o Display(kids[1])
          [] n.k = "postop" -> Display(kids[1]) \o <<n.p[2].t>>
          [] OTHER -> Display(kids[1]) \o <<SP, n.p[2].t, SP>> \o Display(kids[2])

DisplayCatch(n) ==
    <<"catch", SP>> \o Opt(<<>>, Optional(n, "ident"))
    \o (IF Has(n, "param") THEN <<"(">> \o Display(Kid(n, "param")) \o <<")", SP>> ELSE <<>>)
    \o Display(Kid(n, "block"))

DisplayFor(n) ==
    LET init == n.p[3]
        body == Last(n.p)
    IN  <<"for", SP, "(">>
        \o (CASE init.k = "word" -> <<";">>
              [] init.k = "vardef" -> Display(init)
              [] OTHER -> Display(init) \o <<";">>)
        \o Opt(<<SP>>, Kids(Kid(n, "cond"))) \o <<";">> \o Opt(<<SP>>, Kids(Kid(n, "step"))) \o <<")", SP>>
        \o (IF body.k = "word" THEN <<";">> ELSE Display(body))

(* Display for pt::Statement                                                 *)
DisplayStatement(n) ==
    LET kids == Kids(n)
        returned == KidsOf(n, "returned")
    IN  CASE n.k = "block" -> Statements_(kids)
          [] n.k = "unchecked" -> <<"unchecked", SP>> \o Statements_(kids)
          [] n.k = "assembly" ->
                <<"assembly", SP>> \o (IF Has(n, "string") THEN Display(Kid(n, "string")) \o <<SP>> ELSE <<>>)
                \o (IF KidsOf(n, "flags") = <<>> THEN <<>> ELSE Listed("(", KidsOf(n, "flags"), ")") \o <<SP>>)
                \o Display(Last(n.p))
          [] n.k = "if" ->
                <<"if", SP, "(">> \o Display(kids[1]) \o <<")", SP>> \o Display(kids[2])
                \o Opt(<<SP, "else", SP>>, SubSeq(kids, 3, Len(kids)))
          [] n.k = "while" -> <<"while", SP, "(">> \o Display(kids[1]) \o <<")", SP>> \o Display(kids[2])
          [] n.k = "expr" -> Display(kids[1]) \o <<";">>
          [] n.k = "vardef" -> Display(kids[1]) \o Opt(<<SP, "=", SP>>, Tail(kids)) \o <<";">>
          [] n.k = "for" -> DisplayFor(n)
          [] n.k = "do" ->
                <<"do", SP>> \o Display(kids[1]) \o <<SP, "while", SP, "(">> \o Display(kids[2]) \o <<")", ";">>
          [] n.k \in {"break", "continue"} -> <<n.k, ";">>
          [] n.k = "return" -> <<"return">> \o Opt(<<SP>>, kids) \o <<";">>
          [] n.k = "revert" ->
                <<"revert">> \o Opt(<<SP>>, Optional(n, "path")) \o Listed("(", Between(n, "(", ")"), ")") \o <<";">>
          [] n.k = "revertnamed" ->
                LET args == Between(n, "{", "}")
                IN  <<"revert">> \o Opt(<<SP>>, Optional(n, "path")) \o <<"(">>
                    \o (IF args = <<>> THEN <<>> ELSE Listed("{", args, "}")) \o <<")", ";">>
          [] n.k = "emit" -> <<"emit", SP>> \o Display(kids[1]) \o <<";">>
          [] n.k = "try" ->
                <<"try", SP>> \o Display(kids[1])
                \o (IF Has(n, "returned")
                    THEN <<SP, "returns", SP>> \o Listed("(", returned, ")") \o <<SP>> \o Display(Kid(n, "block"))
                    ELSE <<>>)
                \o Spaced(SelectSeq(kids, LAMBDA m : m.k = "catch"))

-----------------------------------------------------------------------------
DisplayContract(n) ==
    Display(n.p[1]) \o <<SP>> \o Display(Kid(n, "ident")) \o <<SP>>
    \o (IF Has(n, "bases") THEN Separated(KidsOf(n, "bases"), <<SP>>) \o <<SP>> ELSE <<>>)
    \o Statements_(KidsOf(n, "parts"))

DisplayFunction(n) ==
    Display(n.p[1]) \o Opt(<<SP>>, Optional(n, "ident")) \o Listed("(", KidsOf(n, "params"), ")")
    \o Spaced(KidsOf(n, "attrs"))
    \o (IF KidsOf(n, "returns") = <<>> THEN <<>> ELSE <<SP, "returns", SP>> \o Listed("(", KidsOf(n, "returns"), ")"))
    \o (IF Has(n, "block") THEN <<SP>> \o Display(Kid(n, "block")) ELSE <<";">>)

DisplayStruct(n) ==
    LET fields == SelectSeq(n.p, LAMBDA m : m.k = "decl")
    IN  <<"struct", SP>> \o Display(Kid(n, "ident")) \o <<SP, "{">> \o Separated(fields, <<";", SP>>)
        \o (IF fields = <<>> THEN <<>> ELSE <<";">>) \o <<"}">>

DisplayEvent(n) ==
    (IF n.k = "event" THEN <<"event">> ELSE Display(n.p[1])) \o <<SP>> \o Display(Kid(n, "ident"))
    \o Listed("(", KidsOf(n, "fields"), ")")
    \o (IF HasWord(n, "anonymous") THEN <<SP, "anonymous">> ELSE <<>>) \o <<";">>

DisplayVariable(n) ==
    LET kids == Kids(n)
    IN  Display(kids[1]) \o Spaced(Kids(kids[2])) \o <<SP>> \o Display(kids[3])
        \o Opt(<<SP, "=", SP>>, SubSeq(kids, 4, Len(kids))) \o <<";">>

(* Display for pt::Parameter, pt::EventParameter and pt::VariableDeclaration *)
DisplayParameter(n) == Separated(n.p, <<SP>>)

DisplayUsing(n) ==
    <<"using", SP>>
    \o (IF Has(n, "path") THEN Display(Kid(n, "path")) ELSE Listed("{", KidsOf(n, "usinglist"), "}"))
    \o <<SP, "for", SP>>
    \o (IF HasWord(n, "*") THEN <<"*">> \o Opt(<<SP>>, Between(n, "*", ";"))
        ELSE Separated(Between(n, "for", ";"), <<SP>>)) \o <<";">>

DisplayImport(n) ==
    LET path == Display(Kid(n, "string"))
        renamed(r) == Display(r.p[1]) \o (IF Len(r.p) = 1 THEN <<>> ELSE <<SP, "as", SP>> \o Display(r.p[3]))
        renames == KidsOf(n, "renames")
    IN  <<"import", SP>>
        \o (CASE n.k = "import" -> path
              [] n.k \in {"importas", "importstar"} -> path \o <<SP, "as", SP>> \o Display(Kid(n, "ident"))
              [] OTHER -> <<"{">> \o Concat([i \in 1..Len(renames) |->
                                (IF i = 1 THEN <<>> ELSE CommaSpace) \o renamed(renames[i])])
                          \o <<"}", SP, "from", SP>> \o path) \o <<";">>

DisplayEnum(n) ==
    <<"enum", SP>> \o Display(Kid(n, "ident")) \o <<SP>>
    \o Listed("{", SelectSeq(n.p, LAMBDA m : m.k = "value"), "}")

DisplayBase(n) ==
    Display(n.p[1]) \o (IF Has(n, "baseargs") THEN Listed("(", KidsOf(n, "baseargs"), ")") ELSE <<>>)

DisplayPragma(n) == <<"pragma", SP>> \o Separated(Kids(n), <<SP>>) \o <<";">>
(* Display for pt::VersionComparator                                         *)
DisplayVersion(n) == Separated(n.p, IF n.k = "versionop" THEN <<>> ELSE <<SP>>)

DisplayTypeDef(n) == <<"type", SP>> \o Display(Kids(n)[1]) \o <<SP, "is", SP>> \o Display(Kids(n)[2]) \o <<";">>
DisplayPath(n) == Separated(Kids(n), <<".">>)
DisplayOverride(n) == <<"override">> \o (IF Kids(n) = <<>> THEN <<>> ELSE Listed("(", Kids(n), ")"))
DisplayUsingFunction(n) ==
    Display(n.p[1]) \o (IF Len(n.p) = 1 THEN <<>> ELSE <<SP, "as", SP>> \o Display(n.p[3]))
DisplayAnnotation(n) == Display(n.p[1]) \o <<"(">> \o Display(Kids(n)[2]) \o <<")">>
DisplayUnit(n) == Separated(n.p, <<NL>>)

(* Display for pt::SourceUnitPart and pt::ContractPart                       *)
DisplayDefinition(n) ==
    CASE n.k = "unit" -> DisplayUnit(n)
      [] n.k = "contract" -> DisplayContract(n)
      [] n.k = "function" -> DisplayFunction(n)
      [] n.k = "struct" -> DisplayStruct(n)
      [] n.k \in {"event", "error"} -> DisplayEvent(n)
      [] n.k = "enum" -> DisplayEnum(n)
      [] n.k = "typedef" -> DisplayTypeDef(n)
      [] n.k = "statevar" -> DisplayVariable(n)
      [] n.k \in {"param", "eventparam", "decl"} -> DisplayParameter(n)
      [] n.k = "path" -> DisplayPath(n)
      [] n.k = "base" -> DisplayBase(n)
      [] n.k = "override" -> DisplayOverride(n)
      [] n.k = "using" -> DisplayUsing(n)
      [] n.k = "usingfn" -> DisplayUsingFunction(n)
      [] n.k \in {"pragma", "pragmaversion"} -> DisplayPragma(n)
      [] n.k \in {"versionop", "versionor", "versionrange"} -> DisplayVersion(n)
      [] n.k = "annotation" -> DisplayAnnotation(n)
      [] n.k = "catch" -> DisplayCatch(n)
      [] OTHER -> DisplayImport(n)

-----------------------------------------------------------------------------
(* Display for pt::YulExpression and pt::YulTypedIdentifier                  *)
DisplayYulTyped(n) == Display(n.p[1]) \o (IF Len(n.p) = 1 THEN <<>> ELSE <<":", SP>> \o Display(n.p[3]))
DisplayYulCall(n) == Display(n.p[1]) \o Listed("(", Tail(Kids(n)), ")")
DisplayYulExpression(n) ==
    CASE n.k = "ytyped" -> DisplayYulTyped(n)
      [] n.k = "ymember" -> Display(n.p[1]) \o <<".">> \o Display(n.p[3])
      [] n.k = "ycall" -> DisplayYulCall(n)

DisplayYulFor(n) == <<"for", SP>> \o Separated(Kids(n), <<SP>>)
DisplayYulSwitch(n) == <<"switch", SP>> \o Separated(Kids(n), <<SP>>)
(* Display for pt::YulSwitchOptions                                          *)
DisplayYulCase(n) ==
    IF n.k = "ycase" THEN <<"case", SP>> \o Separated(Kids(n), <<SP>>)
    ELSE <<"default", SP>> \o Display(Kids(n)[1])

DisplayYulFunction(n) ==
    <<"function", SP>> \o Display(n.p[2]) \o Listed("(", KidsOf(n, "params"), ")") \o <<SP>>
    \o (IF KidsOf(n, "returns") = <<>> THEN <<>>
        ELSE <<"->", SP>> \o Listed("(", KidsOf(n, "returns"), ")") \o <<SP>>)
    \o Display(Last(n.p))

(* Display for pt::YulStatement and its parts                                *)
DisplayYul(n) ==
    LET kids == Kids(n)
        vars == KidsOf(n, "yvars")
    IN  CASE n.k = "yblock" -> Statements_(kids)
          [] n.k \in {"ytyped", "ymember", "ycall"} -> DisplayYulExpression(n)
          [] n.k = "ylet" -> <<"let", SP>> \o Separated(vars, CommaSpace) \o Opt(<<SP, ":=", SP>>, Tail(kids))
          [] n.k = "yassign" -> Separated(vars, CommaSpace) \o <<SP, ":=", SP>> \o Display(kids[2])
          [] n.k = "yif" -> <<"if", SP>> \o Separated(kids, <<SP>>)
          [] n.k = "yfor" -> DisplayYulFor(n)
          [] n.k = "yswitch" -> DisplayYulSwitch(n)
          [] n.k \in {"ycase", "ydefault"} -> DisplayYulCase(n)
          [] n.k = "yfun" -> DisplayYulFunction(n)

ExpressionKinds == {"new", "delete", "array", "subscript", "slice", "member", "paren", "tuple", "strings",
                    "numunit", "call", "callblock", "namedcall", "namedarg", "ternary"}
StatementKinds == {"block", "unchecked", "assembly", "if", "while", "expr", "vardef", "for", "do", "break",
                   "continue", "return", "revert", "revertnamed", "emit", "try"}

Display(n) ==
    CASE n.p = <<>> /\ n.k # "unit" -> <<n.t>>
      [] n.k \in {"mapping", "functype"} -> DisplayType(n)
      [] n.k \in ExpressionKinds -> DisplayExpression(n)
      [] n.k \in {"pre", "postop", "binary", "assign"} -> DisplayOperator(n)
      [] n.k \in StatementKinds -> DisplayStatement(n)
      [] n.k \in {"yblock", "ytyped", "ymember", "ycall", "ylet", "yassign", "yif", "yfor", "yswitch",
                  "ycase", "ydefault", "yfun"} -> DisplayYul(n)
      [] OTHER -> DisplayDefinition(n)

-----------------------------------------------------------------------------
(* The lexer (lexer.rs).  It takes the longest sign that it can: Continued   *)
(* are the characters that it takes into a sign.  Two words with nothing     *)
(* between them are one word; a number and a string are treated as words.    *)
Continued(sign) ==
    CASE sign \in {"+", "&", "|", "<", ">", "*"} -> {"=", sign}
      [] sign = "-" -> {"=", "-", ">"}
      [] sign = "=" -> {"=", ">"}
      [] sign = "/" -> {"=", "/", "*"}
      [] sign \in {"!", "^", "%", ":", "<<", ">>"} -> {"="}
      [] OTHER -> {}
(* The signs that begin with a character                                     *)
SignsFrom(ch) ==
    CASE ch = "=" -> {"=", "==", "=>"}
      [] ch = "+" -> {"+", "++", "+="}
      [] ch = "-" -> {"-", "--", "-=", "->"}
      [] ch = "*" -> {"*", "**", "*="}
      [] ch = "/" -> {"/", "/="}
      [] ch = "&" -> {"&", "&&", "&="}
      [] ch = "|" -> {"|", "||", "|="}
      [] ch = "<" -> {"<", "<=", "<<", "<<="}
      [] ch = ">" -> {">", ">=", ">>", ">>="}
      [] ch = ":" -> {":", ":="}
      [] ch = "!" -> {"!", "!="}
      [] ch = "^" -> {"^", "^="}
      [] ch = "%" -> {"%", "%="}
      [] OTHER -> {ch}
SingleSigns == {"(", ")", "{", "}", "[", "]", ";", ",", ".", "?", "~"}
Signs == UNION {SignsFrom(ch) : ch \in SingleSigns \cup {"=", "+", "-", "*", "/", "&", "|", "<", ">", ":", "!", "^", "%"}}
Glued(l, r) ==
    \/ l \notin Signs /\ r \notin Signs
    \/ \E ch \in Continued(l) : r \in SignsFrom(ch)
(* A comment separates lexemes, and a line comment hides the rest of its     *)
(* line.                                                                     *)
Read(t) ==
    FoldLeft(LAMBDA s, l :
        IF s.hidden /\ l # NL THEN s
        ELSE IF l \in {SP, NL} \cup CommentTexts
        THEN [s EXCEPT !.apart = TRUE, !.hidden = l \in LineComments]
        ELSE IF ~s.apart /\ s.ws # <<>> /\ Glued(Last(s.ws), l)
        THEN [s EXCEPT !.ws = Append(Front(@), "glued")]
        ELSE [ws |-> Append(s.ws, l), apart |-> FALSE, hidden |-> FALSE],
        [ws |-> <<>>, apart |-> FALSE, hidden |-> FALSE], t).ws
=============================================================================
