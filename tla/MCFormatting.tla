---------------------------- MODULE MCFormatting ----------------------------
(* Sources for Formatting: one small file per construct of the language.     *)
EXTENDS Formatting

a == Id("a")
b == Id("b")
x == Id("x")
u == TypeName("uint")
Ca == Call(Id("g"), <<a>>)
Cab == Call(Id("g"), <<a, b>>)
S(t) == ExprStmt(Call(Id(t), <<>>))
Fn(ss) == SourceUnit(<<Function("function", Some(Id("f")), <<>>, <<>>, <<>>, <<Block(ss)>>)>>)
In(e) == Fn(<<ExprStmt(Assign(x, "=", e))>>)

Expressions == {
    In(BinOp(a, "+", Paren(BinOp(b, "*", Num("1"))))),
    In(Tuple(<<a, b>>)),
    In(Array(<<a, b>>)),
    In(Subscript(a, <<BinOp(b, "-", Num("1"))>>)),
    In(Slice(a, <<b>>, <<x>>)), In(Slice(a, <<>>, <<x>>)), In(Slice(a, <<b>>, <<>>)),
    In(Member(Member(Call(Member(a, "p"), <<b>>), "q"), "r")),
    In(NamedCall(Id("g"), <<NamedArg("p", a), NamedArg("q", b)>>)),
    In(Call(CallBlock(Member(a, "g"), Args(<<NamedArg("p", b)>>)), <<x>>)),
    In(Call(New(Id("C")), <<a>>)),
    In(PreOp("-", PostOp(a, "++"))),
    In(PreOp("-", PreOp("!", a))),
    In(Ternary(a, b, Num("1"))),
    In(Assign(b, "+=", Strings(<<"s", "t">>))),
    In(NumUnit("1", "days")), In(Bool("true")),
    Fn(<<ExprStmt(Delete(Subscript(a, <<b>>)))>>)
}

Dec == VarDecl(u, None, "x")
Pm(t) == Param(u, None, Some(Id(t)))
Statements == {
    Fn(<<IfThen(a, S("g")), S("h")>>),
    Fn(<<IfElse(a, Block(<<S("g")>>), Block(<<S("h"), S("k")>>))>>),
    Fn(<<IfElse(a, S("g"), IfElse(b, Block(<<>>), Return(Some(x))))>>),
    Fn(<<IfElse(Ca, Block(<<IfElse(b, S("g"), S("h"))>>), S("k"))>>),
    Fn(<<While(a, Block(<<S("g")>>)), DoWhile(S("h"), b)>>),
    Fn(<<While(a, IfThen(b, Break))>>),
    Fn(<<For(<<SimpleVarDef(Dec, Initial(Num("0")))>>, <<a>>, <<PostOp(x, "++")>>, Block(<<Continue>>))>>),
    Fn(<<For(None, None, None, S("g")), For(<<SimpleExpr(PreOp("++", x))>>, None, None, S("g"))>>),
    Fn(<<VarDef(VarDecl(TypeName("bytes"), Some(W("memory")), "x"), Initial(Cab)), VarDef(Dec, None)>>),
    Fn(<<Return(None)>>), Fn(<<Return(Some(BinOp(a, "+", Cab)))>>),
    Fn(<<Revert(None, <<Strings(<<"s">>)>>)>>), Fn(<<Revert(Some(Path(<<"p", "q">>)), <<a, b>>)>>),
    Fn(<<RevertNamed(Some(Path(<<"p">>)), <<NamedArg("q", a)>>)>>),
    Fn(<<RevertNamed(Some(Path(<<"p">>)), <<>>), Emit(Cab)>>),
    Fn(<<TryStmt(Ca, TryReturns(<<Pm("x")>>, Block(<<S("h")>>)),
                 <<Catch(<<Id("Error"), W("("), Pm("b"), W(")")>>, Block(<<S("k")>>)),
                   Catch(<<>>, Block(<<>>))>>)>>),
    Fn(<<TryStmt(Ca, None, <<Catch(<<W("("), Pm("b"), W(")")>>, Block(<<S("k")>>))>>)>>),
    Fn(<<Unchecked(<<S("g")>>), Block(<<S("h")>>)>>)
}

Fdef(ps, attrs, rs, body) == Function("function", Some(Id("f")), ps, attrs, rs, body)
Empty == <<Block(<<>>)>>
Definitions == {
    SourceUnit(<<Fdef(<<Pm("a"), Pm("b")>>, <<Attr("view"), Base(Path(<<"m">>), None), Attr("public")>>, <<Pm("x")>>, Empty)>>),
    SourceUnit(<<Fdef(<<Pm("a")>>, <<>>, <<Pm("x"), Pm("b")>>, Bodyless), Fdef(<<>>, <<Attr("pure")>>, <<>>, Bodyless)>>),
    SourceUnit(<<Contract("contract", "C", <<Base(Path(<<"A">>), None), Base(Path(<<"B">>), BaseArgs(<<a>>))>>,
        <<Function("constructor", None, <<Pm("a")>>, <<Attr("public"), Base(Path(<<"A">>), None), Base(Path(<<"m">>), BaseArgs(<<a>>))>>, <<>>, Empty),
          Function("receive", None, <<>>, <<Attr("payable"), Attr("external"), Override(<<Path(<<"p", "q">>)>>)>>, <<>>, Empty)>>)>>),
    SourceUnit(<<Contract("interface", "C", <<>>, <<>>)>>),
    SourceUnit(<<Contract("contract", "C", <<>>, <<Struct("s", <<Dec, VarDecl(Mapping(u, Some(Id("p")), TypeName("bool"), Some(Id("q"))), None, "y")>>), Struct("t", <<>>),
        Enum("e", <<"p", "q">>), Enum("d", <<>>),
        Event("v", <<EventParam(u, Some(W("indexed")), Some(Id("a"))), EventParam(u, None, None)>>, Some(W("anonymous"))),
        Event("w", <<>>, None), ErrorDef("r", <<Pm("a")>>), ErrorDef("r", <<>>)>>)>>),
    SourceUnit(<<Contract("contract", "C", <<>>, <<
        StateVar(u, <<Attr("constant"), Attr("public")>>, "x", Initial(Num("1"))), StateVar(Mapping(u, None, u, None), <<>>, "y", None),
        StateVar(u, <<Override(<<Path(<<"p">>)>>), Attr("private")>>, "z", None),
        TypeDef("t", u), UsingPath(Path(<<"A", "B">>), u, None),
        UsingFunctions(<<UsingFunction(Path(<<"g">>), None), UsingFunction(Path(<<"h">>), <<W("as"), W("+")>>)>>, u, Some(Id("global"))),
        UsingPath(Path(<<"A">>), W("*"), None)>>)>>),
    SourceUnit(<<PragmaVersion("solidity", <<VersionOp("^", "0.8")>>), Pragma("abicoder", "s"), Import("s"), ImportAs("s", "x"), ImportStar("s", "y"),
                 ImportNames(<<Rename("p", None), Rename("q", <<W("as"), Id("r")>>)>>, "s"),
                 Annotation("@program_id", Strings(<<"s">>)), Contract("contract", "C", <<>>, <<>>)>>),
    SourceUnit(<<PragmaVersion("solidity", <<VersionOp(">=", "0.4"), VersionOp("<", "0.9")>>),
                 PragmaVersion("solidity", <<VersionOr(Version("0.5"), VersionRange("0.7", "0.8"))>>)>>),
    SourceUnit(<<StateVar(FunctionType(<<u>>, <<Attr("external")>>, <<u>>), <<>>, "x", None)>>)
}

Ya == YulId("a")
Asm(ss) == Fn(<<Assembly(None, None, YulBlock(ss))>>)
YulSources == {
    Fn(<<Assembly(Some(Leaf("string", "s")), Some(AssemblyFlags(<<"t">>)), YulBlock(<<>>)),
         Assembly(None, Some(AssemblyFlags(<<"s", "t">>)), YulBlock(<<YulLeaf("leave")>>))>>),
    Asm(<<YulLet(<<YulTyped("a", None)>>, YulValue(YulCall("add", <<YulLit("1"), Ya>>)))>>),
    Asm(<<YulLet(<<YulTyped("a", <<W(":"), W("u256")>>), YulTyped("b", None)>>, None)>>),
    Asm(<<YulAssign(<<Ya>>, YulMember(YulId("x"), "slot")), YulIf(Ya, YulBlock(<<YulLeaf("leave")>>))>>),
    Asm(<<YulFor(YulBlock(<<>>), Ya, YulBlock(<<YulCall("f", <<>>)>>), YulBlock(<<YulLeaf("break")>>))>>),
    Asm(<<YulSwitch(Ya, <<YulCase(YulLit("1"), YulBlock(<<>>)), YulDefault(YulBlock(<<YulLeaf("leave")>>))>>)>>),
    Asm(<<YulFunction("g", <<YulTyped("p", None)>>, <<YulTyped("q", None), YulTyped("r", None)>>, YulBlock(<<YulLeaf("leave")>>))>>)
}

Files == Expressions \cup Definitions \cup YulSources \cup Statements


Ends(t) == {i \in 1..Len(Words(t)) : Words(t)[i] \in {";", "{", "}"}}
Styles(t) == {{}, Ends(t), 1..Len(Words(t))}
Comment(name, gap, own, deep) ==
    [text |-> name, gap |-> gap, own |-> own, blank |-> own /\ ~deep, deep |-> deep]
One(t, texts, owns) ==
    {<<Comment(c, g, o, FALSE)>> : c \in texts, o \in owns, g \in 0..Len(Words(t))}
(* A comment behind code and another one on the next line                    *)
Two(t) ==
    UNION {{<<Comment("//1", g, FALSE, FALSE), Comment(c, h, TRUE, d)>> :
                c \in {"//2", "/**2*/"}, h \in {g, g + 3} \cap 0..Len(Words(t)), d \in BOOLEAN}
           : g \in 0..Len(Words(t))}
Family(t, nls, comments, widths) == [tree |-> t, nls |-> nls, comments |-> comments, widths |-> widths]

Paired == {
    Fn(<<IfElse(a, Block(<<S("g")>>), S("h"))>>),
    SourceUnit(<<Contract("contract", "C", <<Base(Path(<<"A">>), None)>>,
        <<StateVar(u, <<Attr("public")>>, "x", Initial(Num("1"))),
          Function("constructor", None, <<Pm("a")>>, <<Attr("public"), Base(Path(<<"A">>), BaseArgs(<<a>>))>>, <<>>, Empty)>>)>>),
    In(Ternary(a, b, Member(Ca, "q")))
}
MCFamilies ==
    {Family(t, Styles(t), {<<>>}, {4, 12, 40}) : t \in Files}
    \cup {Family(t, {{}, Ends(t)}, One(t, {"//1"}, {FALSE}) \cup One(t, {"/*1*/"}, {TRUE}), {40}) : t \in Files}
    \cup {Family(t, {{}}, One(t, {"/*1*/"}, {FALSE}) \cup One(t, {"///1"}, {TRUE}), {8}) : t \in Statements \cup Definitions}
    \cup {Family(t, {{}}, Two(t), {40}) : t \in Paired}
=============================================================================
