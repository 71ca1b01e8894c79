------------------------------ MODULE Formatter -----------------------------
(* The visitors of the formatter (fmt/src/formatter.rs): the operations of   *)
(* FormatBuffer that each node of a source is written with.                  *)
EXTENDS FormatBuffer, SourceTree

CONSTANT
    MultilineFuncHeader,   \* config.multiline_func_header
    SingleLineBlocks       \* config.single_line_statement_blocks

ASSUME StyleAssumption ==
    /\ MultilineFuncHeader \in {"AttributesFirst", "ParamsFirst", "All"}
    /\ SingleLineBlocks \in {"Single", "Multi", "Preserve"}

RECURSIVE Ops(_)
RECURSIVE IfOps(_, _)

Identity(ns) == [i \in 1..Len(ns) |-> i]
Reversed(ns) == [i \in 1..Len(ns) |-> Len(ns) + 1 - i]
TryHeld(n, sep) == <<Try(<<Held(1, n, sep, "one")>>, <<Held(1, n, sep, "many")>>), Drop>>

Semicolon == T(<<";">>)
(* items_to_chunks takes the items at their starts.                          *)
Items(ns) == Eager([i \in 1..Len(ns) |-> Item(ns[i].s, Ops(ns[i]))])
First(ns, none) == IF ns = <<>> THEN none ELSE ns[1].s
EmptyBrackets == CText(IF BracketSpacing THEN <<"{", SP, "}">> ELSE <<"{", "}">>)

(* visit_list                                                                *)
ListOps(ns, start, end) ==
    LET first == C(start, First(ns, Nowhere), <<>>)
        last == C(0, end, <<")">>)
        inside == <<CAt(IF end = Nowhere THEN 0 ELSE end, <<>>)>>
    IN  <<T(<<"(">>),
          IF ns = <<>> THEN Surround(first, last, inside, inside)
          ELSE Surround(first, last, <<Chunks(Items(ns), end, <<",">>, <<>>, "one")>>,
                                     <<Chunks(Items(ns), end, <<",">>, <<>>, "fit")>>)>>

BlockOpsMutant(n, stmts, single, omit) ==
    IF ~(single /\ stmts # <<>>) THEN <<CText(<<"{">>), Lines(n.e, [i \in 1..Len(stmts) |->
                        [at |-> stmts[i].s, body |-> Ops(stmts[i]), space |-> FALSE]]), CAt(n.e, <<"}">>), Answer(FALSE)>>
    ELSE <<Try(Ops(stmts[1]), <<>>)>>

(* visit_block: on one line if asked for and possible, with or without       *)
(* braces; answers whether it was.                                           *)
BlockOps(n, stmts, single, omit) ==
    LET many == <<CText(<<"{">>)>>
                \o If(stmts # <<>>, <<Sep(TRUE), Post(First(stmts, 0))>>)
                \o <<Lines(n.e, [i \in 1..Len(stmts) |->
                        [at |-> stmts[i].s, body |-> Ops(stmts[i]), space |-> FALSE]])>>
                \o If(stmts # <<>>, <<Sep(TRUE)>>)
                \o <<CAt(n.e, <<"}">>), Answer(FALSE)>>
    IN  IF ~(single /\ Len(stmts) = 1) THEN many
        ELSE <<Try(If(~omit, <<T(<<"{", SP>>)>>) \o Ops(stmts[1])
                   \o If(~omit, <<T(<<SP, "}">>)>>), many)>>

(* visit_stmt_as_block                                                       *)
AsBlock(n, single) ==
    BlockOps(n, IF n.k \in {"block", "unchecked"} THEN Kids(n) ELSE <<n>>, single, TRUE)

(* should_attempt_block_single_line, when more lines follow: no line end     *)
(* between the condition and the first statement of the branch.              *)
AttemptSingleLine(n) ==
    CASE SingleLineBlocks = "Single" -> TRUE
      [] SingleLineBlocks = "Multi" -> FALSE
      [] OTHER -> /\ ~n.fresh
                  /\ n.k \in {"block", "unchecked"} /\ Kids(n) # <<>> => ~Kids(n)[1].fresh

-----------------------------------------------------------------------------
(* Statements                                                                *)

(* write_if_stmt, when the statement may only be written with its branches   *)
(* on single lines (wide) and when it may not.                               *)
IfOps(n, wide) ==
    LET cond == Kids(n)[1]
        then == Kids(n)[2]
        body == Ops(cond) \o <<Post(then.s)>>
        single == wide /\ AttemptSingleLine(then)
        elseOps(one) ==
            IF Len(Kids(n)) < 3 THEN <<>>
            ELSE LET else == Kids(n)[3]
                 IN  <<Post(else.s)>> \o If(one, <<T(<<NL>>)>>) \o <<CAt(else.s, <<"else">>)>>
                     \o (IF else.k = "if" THEN <<Wide(IfOps(else, TRUE), IfOps(else, FALSE))>>
                         ELSE <<Case(AsBlock(else, one), <<>>, If(wide, <<Bail>>))>>)
    IN  <<Surround(C(n.s, cond.s, <<"if", SP, "(">>),
                   C(0, then.s, <<")">>), body, body),
          Case(AsBlock(then, single), elseOps(TRUE), If(wide, <<Bail>>) \o elseOps(FALSE))>>

(* visit_if of the first of a chain                                          *)
FirstIfOps(n) ==
    <<Context(TRUE), Attempt(IfOps(n, TRUE), <<Context(FALSE)>> \o IfOps(n, FALSE)), Context(FALSE)>>

WhileOps(n) ==
    LET cond == Kids(n)[1]
        body == Kids(n)[2]
        in == Ops(cond) \o <<Post(body.s)>>
    IN  <<Surround(C(n.s, Nowhere, <<"while", SP, "(">>),
                   C(0, cond.e, <<")">>), in, in)>>
        \o AsBlock(body, AttemptSingleLine(body))

DoOps(n) ==
    LET body == Kids(n)[1]
        cond == Kids(n)[2]
    IN  <<CAt(n.s, <<"do", SP>>)>> \o AsBlock(body, FALSE)
        \o <<Surround(C(cond.s, Nowhere, <<"while", SP, "(">>),
                      C(0, n.e, <<")", ";">>), Ops(cond), Ops(cond))>>

ForOps(n) ==
    LET init == n.p[3]
        cond == Kids(Kid(n, "cond"))
        step == Kids(Kid(n, "step"))
        body == Last(n.p)
        header(multiline) ==
            (IF init.k = "word" THEN <<Semicolon>> ELSE Ops(init))
            \o If(multiline, <<Sep(TRUE)>>)
            \o (IF cond = <<>> THEN <<>> ELSE Ops(cond[1])) \o <<Semicolon>>
            \o If(multiline, <<Sep(TRUE)>>)
            \o (IF step = <<>> THEN <<>> ELSE Ops(step[1]))
        in == <<Try(header(FALSE), header(TRUE))>>
    IN  <<Surround(C(n.s, Nowhere, <<"for", SP, "(">>),
                   C(0, IF step = <<>> THEN Nowhere ELSE step[1].e, <<")">>), in, in)>>
        \o (IF body.k = "word" THEN <<EmptyBrackets>> ELSE AsBlock(body, FALSE))

(* visit_return                                                              *)
ReturnOps(n) ==
    LET value == Kids(n)[1]
        start == <<CAt(n.s, <<"return">>), Post(value.s)>>
        expr == Ops(value)
    IN  <<Post(n.s), Pre(n.s)>>
        \o (IF Kids(n) = <<>> THEN <<CAt(n.e, <<"return", ";">>)>>
            ELSE <<Try(start \o expr,
                       <<Commit(start \o <<Sep(TRUE), Try(expr, <<>>)>>, start \o expr)>>),
                   CAt(n.e, <<";">>)>>)

(* visit_args                                                                *)
ArgsOps(args, end) ==
    LET arg(a) == Item(a.s, <<CAt(a.s, <<Kids(a)[1].t, ":", SP>>)>> \o Ops(Kids(a)[2]))
    IN  <<T(<<"{">>),
          Chunks([i \in 1..Len(args) |-> arg(args[i])], end, <<",">>, <<"}">>, "fit"),
          Closing(Last(args).e, <<"}">>)>>

RevertOps(n) ==
    LET named == n.k = "revertnamed"
        path == Kid(n, "path")
        args == SelectSeq(Kids(n), LAMBDA m : m.k # "path")
    IN  <<CAt(n.s, <<"revert">>)>>
        \o If(Has(n, "path"), IF named THEN <<Try(Ops(path), Ops(path))>> ELSE Ops(path))
        \o (IF ~named THEN ListOps(args, 0, n.e) \o <<Semicolon>>
            ELSE IF args = <<>> THEN <<T(<<"(", "{", "}", ")", ";">>)>>
            ELSE <<T(<<"(">>)>> \o ArgsOps(args, n.e) \o <<T(<<")">>), Semicolon>>)

EmitOps(n) == <<CAt(n.s, <<"emit">>)>> \o Ops(Kids(n)[1]) \o <<Semicolon>>
(* visit_break and visit_continue                                            *)
JumpOps(n) == <<C(n.s, n.e, <<n.k, ";">>)>>

(* visit_assembly                                                            *)
AssemblyOps(n) ==
    LET block == Last(n.p)
        flags == KidsOf(n, "flags")
        items == [i \in 1..Len(flags) |-> Item(flags[i].s, <<T(<<flags[i].t>>)>>)]
        inside == <<Chunks(items, Nowhere, <<",">>, <<>>, "one")>>
    IN  <<CAt(n.s, <<"assembly">>)>>
        \o (IF Has(n, "string") THEN <<C(n.p[2].s, n.p[2].e, <<n.p[2].t>>)>> ELSE <<>>)
        \o If(flags # <<>>, <<Surround(CAt(First(flags, 0), <<"(">>), C(0, block.s, <<")">>), inside, inside)>>)
        \o Ops(block)

(* visit_try: what comes before the clauses, and one clause                  *)
TryOps(n) ==
    LET expr == Kids(n)[1]
        returned == KidsOf(n, "returned")
        block == Kid(n, "block")
        clauses == SelectSeq(n.p, LAMBDA m : m.k = "catch")
        params == <<Chunks(Items(returned), block.s, <<",">>, <<")">>, "fit")>>
        start == <<C(n.s, expr.s, <<"try">>)>> \o Ops(expr)
                 \o If(Has(n, "returned"),
                       <<Surround(CAt(First(returned, block.s), <<"returns", SP, "(">>),
                                  C(0, IF returned = <<>> THEN Nowhere ELSE Last(returned).e, <<")">>),
                                  params, params)>> \o Ops(block))
        clause(c) ==
            LET name == Kid(c, "ident")
                param == Kid(c, "param")
            IN  <<CText(<<"catch">>)>>
                \o If(Has(c, "ident"),
                      <<Post(IF Has(c, "param") THEN param.s ELSE name.e), CAt(name.s, <<name.t>>)>>)
                \o If(Has(c, "param"),
                      <<CSpaced(param.s, Nowhere, IF Has(c, "ident") THEN "no" ELSE "yes", <<"(">>),
                        Surround(CAt(param.s, <<>>), C(0, Kid(c, "block").s, <<")">>),
                                 Ops(param), Ops(param))>>)
                \o Ops(Kid(c, "block"))
    IN  <<Clauses(<<Item(n.s, start)>>
                      \o [i \in 1..Len(clauses) |-> Item(clauses[i].s, clause(clauses[i]))],
                  <<First(clauses, Nowhere)>>
                      \o [i \in 1..Len(clauses) |-> Kid(clauses[i], "block").s])>>

-----------------------------------------------------------------------------
(* Expressions                                                               *)

(* visit_source                                                              *)
RECURSIVE Leaves(_)
Leaves(n) == IF n.p # <<>> THEN Concat([i \in 1..Len(n.p) |-> Leaves(n.p[i])])
             ELSE IF n.t = "" THEN <<>> ELSE <<n>>
SourceOps(n) == <<Copied(n.s, n.e, Leaves(n))>>

(* visit_assignment                                                          *)
AssignmentOps(value) ==
    LET expr == Ops(value)
    IN  <<Try(expr, <<Post(value.s), Pre(value.s),
                      Try(expr, <<Commit(<<T(<<NL>>), Try(expr, <<>>)>>, expr)>>)>>)>>

(* visit_member_access: the members are taken from the outside in, before    *)
(* what they are members of is written.                                      *)
RECURSIVE Members(_, _)
Members(n, k) == IF n.k = k THEN <<Last(n.p)>> \o Members(n.p[1], k) ELSE <<>>
RECURSIVE Inmost(_, _)
Inmost(n, k) == IF n.k = k THEN Inmost(n.p[1], k) ELSE n
MemberOps(n) ==
    LET members == Members(n, n.k)
        items == [i \in 1..Len(members) |->
                    Around(members[i].s, <<CAt(members[i].e, <<members[i].t>>)>>, <<".">>, <<>>, "auto")]
    IN  <<Hold(items, [i \in 1..Len(members) |-> 0], Reversed(members))>> \o Ops(Inmost(n, n.k)) \o TryHeld(Len(members), <<>>)

MappingOps(n) ==
    LET key == n.p[3]
        a == Min({j \in 1..Len(n.p) : n.p[j].k = "word" /\ n.p[j].t = "=>"})
        arrow == n.p[a].s
        close == Last(n.p).s
        keyName == SubSeq(n.p, 4, a - 1)
        valueName == SubSeq(n.p, a + 2, Len(n.p) - 1)
        rest == <<T(<<"=>", SP>>)>> \o Ops(n.p[a + 1])
                \o (IF valueName = <<>> THEN <<>> ELSE <<CAt(valueName[1].s, <<SP, valueName[1].t>>)>>)
        inside(separator) ==
            Ops(key)
            \o (IF keyName = <<>> THEN <<Post(arrow)>> ELSE <<C(keyName[1].s, arrow, <<SP, keyName[1].t>>)>>)
            \o separator \o rest \o <<Post(close), Pre(close)>>
    IN  <<Surround(C(n.s, key.s, <<"mapping", "(">>), CSpaced(close, n.e, "no", <<")">>),
                   inside(<<Sep(FALSE)>>),
                   inside(<<Case(<<Fits(rest, FALSE)>>, <<Sep(FALSE)>>, <<Sep(TRUE)>>)>>))>>

SliceOps(n) ==
    LET colon == Min({j \in 1..Len(n.p) : n.p[j].k = "word" /\ n.p[j].t = ":"})
        from == SelectSeq(SubSeq(n.p, 3, colon - 1), LAMBDA m : m.k # "word")
        to == SelectSeq(SubSeq(n.p, colon + 1, Len(n.p)), LAMBDA m : m.k # "word")
        slice == (IF from = <<>> THEN <<>> ELSE Ops(from[1])) \o <<T(<<":">>)>>
                 \o (IF to = <<>> THEN <<>>
                     ELSE <<VisitItem(Around(to[1].s, Ops(to[1]), <<>>, <<>>,
                                             IF from = <<>> THEN "first" ELSE "tight"), n.e)>>)
    IN  Ops(n.p[1]) \o <<T(<<"[">>), Try(slice, <<Sep(TRUE)>> \o slice \o <<Sep(TRUE)>>), T(<<"]">>)>>

TupleOps(n) ==
    LET items == Kids(n)
        inside == <<Hold(Items(items), Nexts(Items(items), n.e), Identity(items))>> \o TryHeld(Len(items), <<",">>)
    IN  <<Surround(C(n.s, First(items, Nowhere), <<"(">>), C(0, n.e, <<")">>), inside, inside)>>

ArrayOps(n) ==
    <<CAt(n.s, <<"[">>),
      Case(<<Chunks(Items(Kids(n)), n.e, <<",">>, <<"]">>, "fit")>>,
           <<Post(n.e), Pre(n.e), Sep(TRUE)>>, <<>>),
      CAt(n.e, <<"]">>)>>

TernaryOps(n) ==
    LET yes == Kids(n)[2]
        no == Kids(n)[3]
    IN  Ops(Kids(n)[1])
        \o <<Hold(<<Item(yes.s, <<CText(<<"?">>)>> \o Ops(yes)),
                    Item(no.s, <<CText(<<":">>)>> \o Ops(no))>>, <<no.s, n.e>>, <<1, 2>>)>>
        \o TryHeld(2, <<>>)

CallOps(n) ==
    LET args == Tail(Kids(n))
    IN  Ops(n.p[1])
        \o CASE n.k = "call" -> ListOps(args, n.p[1].e, n.e)
             [] n.k = "namedcall" -> <<T(<<"(">>)>> \o ArgsOps(args, n.e) \o <<T(<<")">>)>>
             [] OTHER -> ArgsOps(Kids(args[1]), args[1].e)

(* literals, names and elementary types                                      *)
LiteralOps(n) ==
    CASE n.k = "ident" -> <<CAt(n.e, <<n.t>>)>>
      [] n.k = "type" -> <<CAt(n.s, <<n.t>>)>>
      [] n.k = "numunit" -> <<C(n.s, n.e, <<n.p[1].t>>), C(n.p[2].s, n.p[2].e, <<n.p[2].t>>)>>
      [] n.k = "strings" -> Concat([i \in 1..Len(n.p) |-> Ops(n.p[i])])
      [] OTHER -> <<C(n.s, n.e, <<n.t>>)>>

(* visit_expr                                                                *)
ExprOps(n) ==
    LET kids == Kids(n)
    IN  CASE n.k \in {"ident", "type", "num", "bool", "string", "numunit", "strings"} -> LiteralOps(n)
          [] n.k = "mapping" -> MappingOps(n)
          [] n.k \in {"functype", "delete"} -> SourceOps(n)
          [] n.k = "paren" ->
                LET expr == Ops(kids[1])
                IN  <<Surround(CAt(n.s, <<"(">>), C(0, n.e, <<")">>), expr, expr)>>
          [] n.k = "tuple" -> TupleOps(n)
          [] n.k = "array" -> ArrayOps(n)
          [] n.k = "subscript" ->
                Ops(kids[1]) \o <<T(<<"[">>)>> \o (IF Len(kids) = 1 THEN <<>> ELSE Ops(kids[2]))
                \o <<T(<<"]">>)>>
          [] n.k = "slice" -> SliceOps(n)
          [] n.k = "member" -> MemberOps(n)
          [] n.k \in {"call", "namedcall", "callblock"} -> CallOps(n)
          [] n.k = "new" -> <<CText(<<"new", SP>>)>> \o Ops(kids[1])
          [] n.k = "pre" ->
                LET right == kids[1]
                IN  <<CAt(right.s, <<n.p[1].t>>),
                      VisitItem(Around(right.e, Ops(right), <<>>, <<>>, "no"), n.e)>>
          [] n.k = "postop" -> Ops(kids[1]) \o <<CSpaced(n.e, Nowhere, "no", <<n.p[2].t>>)>>
          [] n.k = "binary" ->
                LET right == kids[2]
                IN  Ops(kids[1]) \o <<Visit(right.s, n.e, <<CAt(right.s, <<n.p[2].t>>)>> \o Ops(right))>>
          [] n.k = "assign" -> Ops(kids[1]) \o <<CText(<<n.p[2].t>>)>> \o AssignmentOps(kids[2])
          [] n.k = "ternary" -> TernaryOps(n)

-----------------------------------------------------------------------------
(* Definitions                                                               *)

(* The order of attributes (helpers/ord.rs): a stable sort by kind.          *)
Rank(attr) ==
    CASE attr.k = "base" -> 5
      [] attr.k = "override" \/ attr.t = "override" -> 4
      [] attr.t \in {"external", "public", "internal", "private"} -> 0
      [] attr.t \in {"pure", "view", "payable", "constant"} -> 1
      [] attr.t \in {"virtual"} -> 2
      [] attr.t \in {"immutable"} -> 3
      [] OTHER -> 6
SortedOrder(attrs) ==
    LET place(i) == Cardinality({j \in 1..Len(attrs) :
                        \/ Rank(attrs[j]) < Rank(attrs[i])
                        \/ Rank(attrs[j]) = Rank(attrs[i]) /\ j <= i})
    IN  [p \in 1..Len(attrs) |-> CHOOSE i \in 1..Len(attrs) : place(i) = p]

PathOps(n) ==
    LET ids == Kids(n)
    IN  <<Chunks([i \in 1..Len(ids) |->
                    Around(ids[i].s, Ops(ids[i]), IF i = 1 THEN <<>> ELSE <<".">>, <<>>, "auto")],
                 n.e, <<>>, <<>>, "fit")>>

(* visit_base, with the parentheses a function's attribute gets              *)
BaseOps(n, parens) ==
    LET name == Kid(n, "path")
        args == KidsOf(n, "baseargs")
        chunks(how) == <<Chunks(Items(args), n.e, <<",">>, <<>>, how)>>
    IN  IF args = <<>> THEN <<VisitItem(Around(name.s, Ops(name), <<>>, parens, "auto"), name.e)>>
        ELSE <<SurroundNamed(Around(name.s, Ops(name), <<>>, <<"(">>, "auto"), name.e, args[1].s,
                             C(0, n.e, <<")">>),
                             <<Case(<<>>, chunks("fit"), chunks("many"))>>, chunks("many"))>>

(* visit_function_attribute: a base of the contract keeps its parentheses, a *)
(* constructor's other attributes do unless they start with a small letter.  *)
AttrOps(n, bases, constructor) ==
    CASE n.k = "override" -> <<CAt(n.s, <<"override">>)>> \o ListOps(Kids(n), 0, n.e)
      [] n.k = "base" ->
            LET name == Kid(n, "path").p[1].t
                kept == name \in bases \/ (constructor /\ name \in Capitalised)
                base == BaseOps(n, IF kept THEN <<"(", ")">> ELSE <<>>)
            IN  IF name \in bases THEN base ELSE <<Visit(n.s, n.e, base)>>
      [] n.t = "override" -> <<CAt(n.s, <<n.t>>)>>
      [] OTHER -> <<CAt(n.e, <<n.t>>)>>

VarAttrOps(n) ==
    IF n.k = "override" THEN <<CAt(n.s, <<"override">>)>> \o ListOps(Kids(n), n.s, n.e)
    ELSE <<C(n.s, n.e, <<n.t>>)>>

(* visit_parameter, visit_error_parameter and visit_var_declaration write    *)
(* the type, the storage location and the name; an annotation is not among   *)
(* them.                                                                     *)
ParamOps(n) ==
    LET parts == SelectSeq(n.p, LAMBDA m : m.k # "at")
    IN  Ops(parts[1])
        \o [i \in 1..Len(parts) - 1 |->
                CAt(IF n.k = "eventparam" /\ parts[i + 1].k = "word" THEN n.s ELSE parts[i + 1].e,
                    <<parts[i + 1].t>>)]

(* write_function_header; answers whether the attributes are on one line     *)
HeaderOps(n, bases, many) ==
    LET name == <<n.p[1].t>> \o (IF Has(n, "ident") THEN <<SP, Kid(n, "ident").t>> ELSE <<>>)
        params == KidsOf(n, "params")
        attrs == KidsOf(n, "attrs")
        returns == KidsOf(n, "returns")
        bodyStart == IF Has(n, "block") THEN Kid(n, "block").s ELSE Nowhere
        attrsEnd == First(returns, bodyStart)
        paramsNext == First(attrs, attrsEnd)
        brace == IF Has(n, "block") THEN <<SP, "{">> ELSE <<";">>
        after == <<")">> \o (IF attrs = <<>> /\ returns = <<>> THEN brace ELSE <<>>)
        paramsFirst == many /\ MultilineFuncHeader \in {"ParamsFirst", "All"}
        paramOps(how) == <<Chunks(Items(params), paramsNext, <<",">>, after, how)>>
        attrItems == [i \in 1..Len(attrs) |->
                        Item(attrs[i].s, AttrOps(attrs[i], bases, n.p[1].t = "constructor"))]
        returnsOps == <<Held(1, Len(returns), <<",">>, "one")>>
        rest(multiline) ==
            If(attrs # <<>>,
               <<Post(First(attrs, 0)), Sep(multiline), Hold(attrItems, Nexts(attrItems, attrsEnd), SortedOrder(attrs)),
                 Held(1, Len(attrs), <<>>, IF multiline THEN "many" ELSE "one"), Drop>>)
            \o If(returns # <<>>,
                  <<Hold(Items(returns), Nexts(Items(returns), bodyStart), Identity(returns)), Post(First(returns, 0)),
                    Sep(multiline),
                    Surround(CAt(First(returns, 0), <<"returns", SP, "(">>), C(0, bodyStart, <<")">>),
                             returnsOps, <<Held(1, Len(returns), <<",">>, "many")>>), Drop>>)
        several == rest(TRUE) \o <<Answer(FALSE)>>
        oneOrSeveral == <<Try(rest(FALSE) \o <<Fit(brace)>>, several)>>
        attributes(first) == IF many /\ MultilineFuncHeader = first THEN several ELSE oneOrSeveral
    IN  <<Case(<<Surround(C(n.s, First(params, Kid(n, "params").e), name \o <<"(">>),
                          C(0, paramsNext, <<")">>),
                          paramOps(IF paramsFirst THEN "many" ELSE "fit"), paramOps("many"))>>,
               attributes("All"), attributes("AttributesFirst"))>>

(* visit_function                                                            *)
FunctionOps(n, bases) ==
    LET body == Kid(n, "block")
        more == KidsOf(n, "attrs") # <<>> \/ KidsOf(n, "returns") # <<>>
        bodyOps(multiline) == <<Hold(<<Item(body.s, Ops(body))>>, <<body.e>>, <<1>>), Sep(multiline),
                                Held(1, 1, <<>>, "each"), Drop>>
    IN  <<Post(n.s), Pre(n.s)>>
        \o (IF Has(n, "block")
            THEN <<Case(<<Try(HeaderOps(n, bases, FALSE), HeaderOps(n, bases, TRUE))>>,
                        bodyOps(FALSE), bodyOps(more))>>
            ELSE <<Try(HeaderOps(n, bases, FALSE), HeaderOps(n, bases, TRUE)), Semicolon>>)

(* The empty lines visit_contract and visit_source_unit put between parts    *)
EmptyFunction(n) == ~Has(n, "block") \/ Kids(Kid(n, "block")) = <<>>
Category(n) ==
    CASE n.k \in {"importas", "importstar", "importnames"} -> "import"
      [] n.k = "pragmaversion" -> "pragma"
      [] OTHER -> n.k
SpaceBetween(a, b, sameKind) ==
    CASE a.k = "annotation" -> FALSE
      [] Category(a) \in sameKind -> Category(b) # Category(a)
      [] a.k = "function" /\ "event" \in sameKind ->
            ~(EmptyFunction(a) /\ b.k = "function" /\ EmptyFunction(b))
      [] OTHER -> TRUE
PartKinds == {"error", "event", "statevar", "typedef", "enum", "using"}
UnitKinds == {"pragma", "import", "error", "using", "statevar"}
LineItems(ns, body, kinds) ==
    [i \in 1..Len(ns) |->
        [at |-> ns[i].s, body |-> body[i],
         space |-> i < Len(ns) /\ SpaceBetween(ns[i], ns[i + 1], kinds)]]

StructOps(n) ==
    LET name == Kid(n, "ident")
        fields == SelectSeq(n.p, LAMBDA m : m.k = "decl")
        items == [i \in 1..Len(fields) |->
                    Around(fields[i].s, Ops(fields[i]), <<>>, <<";">>, "auto")]
        inside == <<Hold(items, Nexts(items, n.e), Identity(fields))>>
                  \o Concat([i \in 1..Len(fields) |-> <<Held(i, i, <<>>, "each"), Sep(TRUE)>>])
                  \o <<Drop>>
    IN  <<CAt(name.s, <<"struct">>)>> \o Ops(name)
        \o (IF fields = <<>> THEN <<EmptyBrackets>>
            ELSE <<T(<<SP, "{">>), Surround(CAt(name.e, <<>>), C(0, n.e, <<"}">>), inside, inside)>>)

EnumOps(n) ==
    LET name == Kid(n, "ident")
        values == SelectSeq(n.p, LAMBDA m : m.k = "value")
        start(after) == VisitItem(Around(name.s, Ops(name), <<"enum", SP>>, after, "auto"), name.e)
    IN  IF values = <<>> THEN <<start(<<SP>>), EmptyBrackets>>
        ELSE <<start(<<SP, "{">>), Chunks(Items(values), n.e, <<",">>, <<>>, "many"),
               T(<<NL>>), CText(<<"}">>)>>

EventOps(n) ==
    LET name == Kid(n, "ident")
        fields == KidsOf(n, "fields")
        end == <<")">> \o (IF HasWord(n, "anonymous") THEN <<SP, "anonymous">> ELSE <<>>) \o <<";">>
        start(after) == Around(name.s, Ops(name), <<"event", SP>>, after, "auto")
        chunks(how) == <<Chunks(Items(fields), Nowhere, <<",">>, <<>>, how)>>
    IN  IF fields = <<>> THEN <<VisitItem(start(<<"(">> \o end), n.e)>>
        ELSE <<SurroundNamed(start(<<"(">>), n.e, fields[1].s, C(0, n.e, end), chunks("one"), chunks("fit"))>>

ErrorOps(n) ==
    LET name == Kid(n, "ident")
        fields == KidsOf(n, "fields")
    IN  <<Stringed(Around(name.s, Ops(name), <<"error", SP>>, <<>>, "auto"), Nowhere)>>
        \o ListOps(fields, First(fields, 0), n.e) \o <<Semicolon>>

TypeDefOps(n) ==
    LET name == Kids(n)[1]
        ty == Kids(n)[2]
    IN  <<C(n.s, name.s, <<"type">>)>> \o Ops(name) \o <<C(name.e, ty.s, <<"is">>)>>
        \o Ops(ty) \o <<Semicolon>>

(* visit_var_definition                                                      *)
StateVarOps(n) ==
    LET attrs == KidsOf(n, "attrs")
        name == Kids(n)[3]
        value == SubSeq(Kids(n), 4, Len(Kids(n)))
        items == [i \in 1..Len(attrs) |-> Item(attrs[i].s, VarAttrOps(attrs[i]))]
    IN  Ops(n.p[1]) \o <<Hold(items, Nexts(items, name.s), SortedOrder(attrs))>> \o TryHeld(Len(attrs), <<>>)
        \o <<VisitItem(Around(name.s, Ops(name), <<>>, IF value = <<>> THEN <<>> ELSE <<SP, "=">>, "auto"),
                       name.e)>>
        \o (IF value = <<>> THEN <<>> ELSE AssignmentOps(value[1])) \o <<Semicolon>>

(* visit_var_definition_stmt                                                 *)
VarDefOps(n) ==
    LET decl == Kids(n)[1]
    IN  <<Visit(decl.s, Nowhere, Ops(decl))>>
        \o (IF Len(Kids(n)) = 1 THEN <<>> ELSE <<T(<<SP, "=">>)>> \o AssignmentOps(Kids(n)[2]))
        \o <<Semicolon>>

(* visit_using: the list, `for`, the type and `global` are all taken first.  *)
UsingOps(n) ==
    LET library == Has(n, "path")
        list == IF library THEN <<Kid(n, "path")>> ELSE KidsOf(n, "usinglist")
        f == Min({j \in 1..Len(n.p) : n.p[j].k = "word" /\ n.p[j].t = "for"})
        ty == n.p[f + 1]
        rest == SelectSeq(SubSeq(n.p, f + 2, Len(n.p)), LAMBDA m : m.k # "word")
        next == IF rest = <<>> THEN n.e ELSE rest[1].s
        k == Len(list)
        last == k + 2 + Len(rest)
        listed(u) == IF library THEN Item(u.s, Ops(u))
                     ELSE Item(u.s, Ops(Kids(u)[1])
                               \o (IF Len(u.p) = 1 THEN <<>> ELSE <<T(<<SP, "as", SP, Last(u.p).t>>)>>))
        tyAt == IF ty.k = "word" THEN next ELSE ty.s
        items == [i \in 1..k |-> listed(list[i])]
                 \o <<Item(n.s, <<CText(<<"for">>)>>),
                      IF ty.k = "word" THEN Item(n.s, <<CText(<<ty.t>>)>>) ELSE Item(ty.s, Ops(ty))>>
                 \o [i \in 1..Len(rest) |-> Item(rest[i].s, Ops(rest[i]))]
        nexts == [i \in 1..k |-> IF i < k THEN list[i + 1].s ELSE Nowhere]
                 \o <<tyAt, next>> \o [i \in 1..Len(rest) |-> n.e]
        one == Held(1, k, <<",">>, "one")
        forDef == Held(k + 1, last, <<>>, "each")
        inside == <<Case(<<Fits(<<one, T(<<SP, "}">>), forDef, Semicolon>>, TRUE)>>,
                         <<one>>, <<Held(1, k, <<",">>, "many")>>)>>
    IN  <<CAt(n.s, <<"using">>), Hold(items, nexts, Identity(items))>>
        \o (IF library
            THEN <<Case(<<Fits(<<one, forDef, Semicolon>>, FALSE)>>, <<one>>, <<Sep(TRUE), one, Sep(TRUE)>>)>>
            ELSE <<Surround(CAt(n.s, <<"{">>), C(0, tyAt, <<"}">>), inside, inside)>>)
        \o <<forDef, Drop, Semicolon>>

(* visit_import_plain, visit_import_global and visit_import_renames          *)
ImportOps(n) ==
    LET path == Kid(n, "string")
        alias == Kid(n, "ident")
        renames == KidsOf(n, "renames")
        start == First(renames, 0)
        rename(r) == Item(r.s, Ops(r.p[1])
                     \o (IF Len(r.p) = 1 THEN <<>>
                         ELSE <<C(r.p[1].e, Last(r.p).s, <<"as">>)>> \o Ops(Last(r.p))))
        chunks == <<Chunks([i \in 1..Len(renames) |-> rename(renames[i])], Nowhere, <<",">>,
                           <<SP, "}", SP, "from", SP, path.t, ";">>, "fit")>>
        from(at) == <<C(at, path.s, <<"from">>), C(path.s, path.e, <<path.t>>)>>
    IN  (CASE n.k = "import" -> <<C(n.s, path.s, <<"import">>), C(path.s, path.e, <<path.t>>)>>
           [] n.k \in {"importas", "importstar"} ->
                <<C(n.s, path.s, <<"import">>), C(path.s, path.e, <<path.t>>),
                  C(n.s, alias.s, <<"as">>)>> \o Ops(alias)
           [] renames = <<>> -> <<CAt(n.s, <<"import">>), EmptyBrackets>> \o from(n.s)
           [] OTHER -> <<C(n.s, start, <<"import">>),
                         Surround(CAt(start, <<"{">>), C(0, path.s, <<"}">>), chunks, chunks)>> \o from(start))
        \o <<Semicolon>>

(* visit_version                                                             *)
RECURSIVE VersionOps(_)
VersionOps(n) ==
    CASE n.k = "version" -> <<C(n.s, n.e, <<n.t>>)>>
      [] n.k = "versionop" -> <<C(n.s, n.e, Words(n))>>
      [] n.k = "versionor" -> VersionOps(n.p[1]) \o <<C(n.s, n.e, <<SP, "||", SP>>)>> \o VersionOps(n.p[3])
      [] n.k = "versionrange" -> <<C(n.s, n.e, <<n.p[1].t, SP, "-", SP, n.p[3].t>>)>>

(* visit_pragma                                                              *)
PragmaOps(n) ==
    IF n.k = "pragma" THEN <<CAt(n.p[3].e, <<"pragma", SP, n.p[2].t, SP, n.p[3].t, ";">>)>>
    ELSE <<CAt(n.p[2].e, <<"pragma", SP, n.p[2].t>>)>>
         \o Concat([i \in 1..Len(Kids(n)) - 1 |->
                <<CAt(Kids(n)[i + 1].e, <<SP>>)>> \o VersionOps(Kids(n)[i + 1])])
         \o <<Semicolon>>

AnnotationOps(n) == <<T(<<n.p[1].t, "(">>)>> \o Ops(Kids(n)[2]) \o <<T(<<")">>)>>

(* visit_contract                                                            *)
ContractOps(n) ==
    LET name == Kid(n, "ident")
        bases == KidsOf(n, "bases")
        parts == KidsOf(n, "parts")
        names == {bases[i].p[1].p[1].t : i \in 1..Len(bases)}
        body == [i \in 1..Len(parts) |->
                    IF parts[i].k = "function" THEN FunctionOps(parts[i], names) ELSE Ops(parts[i])]
    IN  <<CAt(n.s, <<n.p[1].t>>), CAt(name.e, <<name.t>>)>>
        \o If(bases # <<>>,
              <<C(name.e, First(bases, 0), <<"is">>),
                Case(<<Chunks(Items(bases), First(parts, Nowhere), <<",">>, <<>>, "fit")>>,
                     <<Sep(TRUE)>>, <<Sep(FALSE)>>)>>)
        \o <<CText(<<"{">>)>>
        \o If(parts # <<>>,
              <<Post(First(parts, 0)), Sep(TRUE), Lines(n.e, LineItems(parts, body, PartKinds)),
                Sep(TRUE)>>)
        \o <<CAt(n.e, <<"}">>)>>

(* visit_source_unit                                                         *)
UnitOps(n, end) ==
    <<Lines(end, LineItems(n.p, [i \in 1..Len(n.p) |-> Ops(n.p[i])], UnitKinds)), [op |-> "eof"]>>

-----------------------------------------------------------------------------
(* Yul                                                                       *)
YulBlockOps(n, single) == BlockOps(n, Kids(n), single, FALSE)

(* visit_yul_assignment                                                      *)
YulAssignOps(n) ==
    LET vars == KidsOf(n, "yvars")
        value == Last(n.p)
        item == Item(value.s, Ops(value))
    IN  <<Chunks(Items(vars), Nowhere, <<",">>, <<SP, ":=", SP>>, "fit")>>
        \o (IF value.k = "yvars" THEN <<>>
            ELSE <<CAt(value.s, <<":=">>), Hold(<<item>>, <<n.e>>, <<1>>),
                   Case(<<Fits(<<Held(1, 1, <<>>, "each")>>, FALSE)>>, <<>>, <<Sep(TRUE)>>),
                   Held(1, 1, <<>>, "each"), Drop>>)

YulLetOps(n) == <<CAt(n.s, <<"let">>)>> \o YulAssignOps(n)
YulIfOps(n) == <<CAt(n.s, <<"if">>)>> \o Ops(Kids(n)[1]) \o YulBlockOps(Kids(n)[2], TRUE)

YulForOps(n) ==
    LET kids == Kids(n)
    IN  <<CAt(n.s, <<"for">>)>> \o YulBlockOps(kids[1], TRUE) \o Ops(kids[2])
        \o YulBlockOps(kids[3], TRUE) \o YulBlockOps(kids[4], TRUE)

YulSwitchOps(n) ==
    LET cases == Tail(Kids(n))
        case(c) == IF c.k = "ydefault" THEN <<CAt(c.s, <<"default">>)>> \o YulBlockOps(Kids(c)[1], TRUE)
                   ELSE <<CAt(c.s, <<"case">>)>> \o Ops(Kids(c)[1]) \o YulBlockOps(Kids(c)[2], TRUE)
    IN  <<CAt(n.s, <<"switch">>)>> \o Ops(Kids(n)[1]) \o <<CText(<<NL>>)>>
        \o Concat([i \in 1..Len(cases) |->
                case(cases[i]) \o If(i < Len(cases), <<CText(<<NL>>)>>)])

YulFunOps(n) ==
    LET returns == KidsOf(n, "returns")
        body == Last(n.p)
    IN  <<CAt(n.s, <<"function", SP, n.p[2].t>>)>> \o ListOps(KidsOf(n, "params"), 0, Nowhere)
        \o If(returns # <<>>,
              <<CText(<<"->">>),
                Case(<<Chunks(Items(returns), body.s, <<",">>, <<>>, "fit")>>, <<Sep(TRUE)>>, <<>>)>>)
        \o YulBlockOps(body, FALSE)

YulOps(n) ==
    LET kids == Kids(n)
    IN  CASE n.k \in {"yident", "ylit", "yword"} -> <<C(n.s, n.e, <<n.t>>)>>
          [] n.k = "ytyped" -> <<C(n.s, n.e, Words(n))>>
          [] n.k = "ymember" -> MemberOps(n)
          [] n.k = "ycall" -> <<CAt(n.s, <<n.p[1].t>>)>> \o ListOps(Tail(kids), 0, n.e)
          [] n.k = "yblock" -> YulBlockOps(n, FALSE)
          [] n.k = "ylet" -> YulLetOps(n)
          [] n.k = "yassign" -> YulAssignOps(n)
          [] n.k = "yif" -> YulIfOps(n)
          [] n.k = "yfor" -> YulForOps(n)
          [] n.k = "yswitch" -> YulSwitchOps(n)
          [] n.k = "yfun" -> YulFunOps(n)

YulKinds == {"yident", "ylit", "yword", "ytyped", "ymember", "ycall", "yblock", "ylet", "yassign",
             "yif", "yfor", "yswitch", "yfun"}

(* Visitable::visit of statements and definitions                            *)
Ops(n) ==
    LET kids == Kids(n)
    IN  CASE n.k \in YulKinds -> YulOps(n)
          [] n.k = "block" -> BlockOps(n, kids, FALSE, FALSE)
          [] n.k = "unchecked" -> <<CAt(n.s, <<"unchecked", SP>>)>> \o BlockOps(n, kids, FALSE, FALSE)
          [] n.k = "if" -> FirstIfOps(n)
          [] n.k = "while" -> WhileOps(n)
          [] n.k = "do" -> DoOps(n)
          [] n.k = "for" -> ForOps(n)
          [] n.k = "expr" -> Ops(kids[1]) \o <<Semicolon>>
          [] n.k = "vardef" -> VarDefOps(n)
          [] n.k = "return" -> ReturnOps(n)
          [] n.k \in {"revert", "revertnamed"} -> RevertOps(n)
          [] n.k = "emit" -> EmitOps(n)
          [] n.k \in {"break", "continue"} -> JumpOps(n)
          [] n.k = "try" -> TryOps(n)
          [] n.k = "assembly" -> AssemblyOps(n)
          [] n.k \in {"param", "decl", "eventparam"} -> ParamOps(n)
          [] n.k = "path" -> PathOps(n)
          [] n.k = "base" -> BaseOps(n, <<>>)
          [] n.k = "value" -> <<CAt(n.e, <<n.t>>)>>
          [] n.k = "contract" -> ContractOps(n)
          [] n.k = "function" -> FunctionOps(n, {})
          [] n.k = "struct" -> StructOps(n)
          [] n.k = "enum" -> EnumOps(n)
          [] n.k = "event" -> EventOps(n)
          [] n.k = "error" -> ErrorOps(n)
          [] n.k = "typedef" -> TypeDefOps(n)
          [] n.k = "statevar" -> StateVarOps(n)
          [] n.k = "using" -> UsingOps(n)
          [] n.k \in {"pragma", "pragmaversion"} -> PragmaOps(n)
          [] n.k \in {"import", "importas", "importstar", "importnames"} -> ImportOps(n)
          [] n.k = "annotation" -> AnnotationOps(n)
          [] OTHER -> ExprOps(n)
=============================================================================
