----------------------------- MODULE SourceTree -----------------------------
(* Solidity sources as the parser hands them to the formatter: the parse     *)
(* tree of solang-parser/src/pt.rs with the locations that the productions   *)
(* of solidity.lalrpop give its nodes.                                       *)
(*                                                                           *)
(* A node keeps its concrete syntax: k is the kind of the node, p its parts, *)
(* words and nodes in the order of the source, and x the number of words at  *)
(* its end that the production leaves out of the location (the semicolon     *)
(* behind a statement).  Locate lays the words of a tree out, one word every *)
(* Stride positions, and gives each node its start s and its end e; the      *)
(* positions between two words are where comments are.                       *)
EXTENDS Naturals, Sequences, SequencesExt

Stride == 8
WordWidth == 2

Node(k, p) == [k |-> k, t |-> "", p |-> p, x |-> 0]
Stmt(k, p) == [k |-> k, t |-> "", p |-> p \o <<[k |-> "word", t |-> ";", p |-> <<>>, x |-> 0]>>, x |-> 1]
Leaf(k, t) == [k |-> k, t |-> t, p |-> <<>>, x |-> 0]
W(t) == Leaf("word", t)

(* A sequence with its elements evaluated, and FlattenSeq of it              *)
Eager(s) == CHOOSE v \in {s \o <<>>} : TRUE
Concat(s) == CHOOSE t \in {FlattenSeq(v) : v \in {s \o <<>>}} : TRUE

RECURSIVE Words(_)
Words(n) == IF n.p = <<>> THEN IF n.t = "" THEN <<>> ELSE <<n.t>>
            ELSE Concat([i \in 1..Len(n.p) |-> Words(n.p[i])])

(* A node at word i of a source with line ends behind the words in nls; it   *)
(* is fresh if it starts a line.  The location of an expression in           *)
(* parentheses is that of the expression.                                    *)
RECURSIVE Locate(_, _, _)
Locate(n, i, nls) ==
    LET count(j) == Len(Words(n.p[j]))
        before[j \in 0..Len(n.p)] == IF j = 0 THEN 0 ELSE before[j - 1] + count(j)
        first == IF n.k = "paren" THEN i + 1 ELSE i
        last == i + Len(Words(n)) - 1 - n.x
    IN  [k |-> n.k, t |-> n.t, s |-> Stride * first, e |-> Stride * last + WordWidth,
         fresh |-> i - 1 \in nls,
         p |-> Eager([j \in 1..Len(n.p) |-> Locate(n.p[j], i + before[j - 1], nls)])]

(* The nodes among the parts, the words left out.                            *)
Kids(n) == SelectSeq(n.p, LAMBDA m : m.k # "word")
Has(n, k) == \E j \in 1..Len(n.p) : n.p[j].k = k
Kid(n, k) == n.p[Min({j \in 1..Len(n.p) : n.p[j].k = k})]
KidsOf(n, k) == IF Has(n, k) THEN Kids(Kid(n, k)) ELSE <<>>
HasWord(n, t) == \E j \in 1..Len(n.p) : n.p[j].k = "word" /\ n.p[j].t = t

Comma(xs) == Concat([i \in 1..Len(xs) |-> IF i = 1 THEN <<xs[i]>> ELSE <<W(","), xs[i]>>])
None == <<>>                    \* an absent optional part
Some(x) == <<x>>

-----------------------------------------------------------------------------
(* Expressions                                                               *)
Id(t) == Leaf("ident", t)
Num(t) == Leaf("num", t)
NumUnit(t, u) == Node("numunit", <<W(t), Id(u)>>)
Bool(t) == Leaf("bool", t)
Strings(ts) == Node("strings", [i \in 1..Len(ts) |-> Leaf("string", ts[i])])
TypeName(t) == Leaf("type", t)
Mapping(key, keyName, value, valueName) ==
    Node("mapping", <<W("mapping"), W("("), key>> \o keyName \o <<W("=>"), value>> \o valueName \o <<W(")")>>)
Paren(e) == [Node("paren", <<W("("), e, W(")")>>) EXCEPT !.x = 1]
Tuple(es) == Node("tuple", <<W("(")>> \o Comma(es) \o <<W(")")>>)
Array(es) == Node("array", <<W("[")>> \o Comma(es) \o <<W("]")>>)
Subscript(e, i) == Node("subscript", <<e, W("[")>> \o i \o <<W("]")>>)
Slice(e, l, r) == Node("slice", <<e, W("[")>> \o l \o <<W(":")>> \o r \o <<W("]")>>)
Member(e, t) == Node("member", <<e, W("."), Id(t)>>)
Call(f, es) == Node("call", <<f, W("(")>> \o Comma(es) \o <<W(")")>>)
NamedArg(t, e) == Node("namedarg", <<Id(t), W(":"), e>>)
NamedCall(f, as) == Node("namedcall", <<f, W("("), W("{")>> \o Comma(as) \o <<W("}"), W(")")>>)
Args(as) == Node("args", <<W("{")>> \o Comma(as) \o <<W("}")>>)
CallBlock(f, args) == Node("callblock", <<f, args>>)
New(e) == Node("new", <<W("new"), e>>)
Delete(e) == Node("delete", <<W("delete"), e>>)
PreOp(o, e) == Node("pre", <<W(o), e>>)
PostOp(e, o) == Node("postop", <<e, W(o)>>)
BinOp(l, o, r) == Node("binary", <<l, W(o), r>>)
Assign(l, o, r) == Node("assign", <<l, W(o), r>>)
Ternary(c, l, r) == Node("ternary", <<c, W("?"), l, W(":"), r>>)

-----------------------------------------------------------------------------
(* Statements                                                                *)
Block(ss) == Node("block", <<W("{")>> \o ss \o <<W("}")>>)
Unchecked(ss) == Node("unchecked", <<W("unchecked"), W("{")>> \o ss \o <<W("}")>>)
IfThen(c, s) == Node("if", <<W("if"), W("("), c, W(")"), s>>)
IfElse(c, s, t) == Node("if", <<W("if"), W("("), c, W(")"), s, W("else"), t>>)
While(c, s) == Node("while", <<W("while"), W("("), c, W(")"), s>>)
DoWhile(s, c) == Stmt("do", <<W("do"), s, W("while"), W("("), c, W(")")>>)
For(i, c, n, s) ==
    Node("for", <<W("for"), W("(")>> \o i \o <<W(";"), Node("cond", c), W(";"), Node("step", n), W(")"), s>>)
ExprStmt(e) == Stmt("expr", <<e>>)
SimpleExpr(e) == Node("expr", <<e>>)
VarDecl(ty, loc, t) == Node("decl", <<ty>> \o loc \o <<Id(t)>>)
VarDef(d, e) == Stmt("vardef", <<d>> \o e)
SimpleVarDef(d, e) == Node("vardef", <<d>> \o e)
Initial(e) == <<W("="), e>>
Return(e) == Stmt("return", <<W("return")>> \o e)
Revert(path, es) == Stmt("revert", <<W("revert")>> \o path \o <<W("(")>> \o Comma(es) \o <<W(")")>>)
RevertNamed(path, as) ==
    Stmt("revertnamed", <<W("revert")>> \o path \o <<W("("), W("{")>> \o Comma(as) \o <<W("}"), W(")")>>)
Emit(e) == Stmt("emit", <<W("emit"), e>>)
Break == Stmt("break", <<W("break")>>)
Continue == Stmt("continue", <<W("continue")>>)
Param(ty, loc, t) == Node("param", <<ty>> \o loc \o t)
AnnotatedParam(a, ty, t) == Node("param", <<Leaf("at", a), ty, Id(t)>>)
Params(k, ps) == Node(k, <<W("(")>> \o Comma(ps) \o <<W(")")>>)
Catch(ps, b) == Node("catch", <<W("catch")>> \o ps \o <<b>>)
TryReturns(ps, b) == <<W("returns"), Params("returned", ps), b>>
TryStmt(e, rs, cs) == Node("try", <<W("try"), e>> \o rs \o cs)
AssemblyFlags(ts) ==
    Node("flags", <<W("(")>> \o Comma([i \in 1..Len(ts) |-> Leaf("string", ts[i])]) \o <<W(")")>>)
Assembly(dialect, flags, b) == Node("assembly", <<W("assembly")>> \o dialect \o flags \o <<b>>)

-----------------------------------------------------------------------------
(* Definitions                                                               *)
Path(ts) == Node("path", Concat([i \in 1..Len(ts) |->
                IF i = 1 THEN <<Id(ts[i])>> ELSE <<W("."), Id(ts[i])>>]))
Base(path, es) == Node("base", <<path>> \o es)
BaseArgs(es) == <<Params("baseargs", es)>>
Contract(ty, t, bases, parts) ==
    Node("contract", <<Leaf("ty", ty), Id(t)>>
        \o (IF bases = <<>> THEN <<>> ELSE <<W("is"), Node("bases", Comma(bases))>>)
        \o <<W("{"), Node("parts", parts), W("}")>>)
Struct(t, ds) ==
    Node("struct", <<W("struct"), Id(t), W("{")>>
        \o Concat([i \in 1..Len(ds) |-> <<ds[i], W(";")>>]) \o <<W("}")>>)
Enum(t, ts) == Node("enum", <<W("enum"), Id(t), W("{")>>
                    \o Comma([i \in 1..Len(ts) |-> Leaf("value", ts[i])]) \o <<W("}")>>)
EventParam(ty, indexed, t) == Node("eventparam", <<ty>> \o indexed \o t)
Event(t, ps, anonymous) ==
    Stmt("event", <<W("event"), Id(t), Params("fields", ps)>> \o anonymous)
ErrorDef(t, ps) == Stmt("error", <<Leaf("keyword", "error"), Id(t), Params("fields", ps)>>)
TypeDef(t, ty) == Stmt("typedef", <<W("type"), Id(t), W("is"), ty>>)
Attr(t) == Leaf("attr", t)
Override(ps) == Node("override", <<W("override"), W("(")>> \o Comma(ps) \o <<W(")")>>)
StateVar(ty, attrs, t, e) == Stmt("statevar", <<ty, Node("attrs", attrs), Id(t)>> \o e)
Function(ty, t, ps, attrs, rs, body) ==
    Node("function", <<Leaf("ty", ty)>> \o t \o <<Params("params", ps), Node("attrs", attrs)>>
        \o (IF rs = <<>> THEN <<>> ELSE <<W("returns"), Params("returns", rs)>>) \o body)
Capitalised == {"A", "B", "C"}  \* the names with a first letter that is not a small one
Bodyless == <<W(";")>>
FunctionType(ps, attrs, rs) ==
    Node("functype", <<W("function"), Params("params", ps), Node("attrs", attrs)>>
        \o (IF rs = <<>> THEN <<>> ELSE <<W("returns"), Params("returns", rs)>>))
Annotation(t, e) == Node("annotation", <<Leaf("at", t), W("("), e, W(")")>>)
UsingPath(path, ty, global) == Stmt("using", <<W("using"), path, W("for"), ty>> \o global)
UsingFunction(path, oper) == Node("usingfn", <<path>> \o oper)
UsingFunctions(fs, ty, global) ==
    Stmt("using", <<W("using"), Node("usinglist", <<W("{")>> \o Comma(fs) \o <<W("}")>>),
                    W("for"), ty>> \o global)
Pragma(t, u) == Stmt("pragma", <<W("pragma"), Id(t), Leaf("string", u)>>)
(* The numbers of a version and the points between them are one lexeme.      *)
Version(v) == Leaf("version", v)
VersionOp(o, v) == Node("versionop", <<W(o), Version(v)>>)
VersionOr(l, r) == Node("versionor", <<l, W("||"), r>>)
VersionRange(from, to) == Node("versionrange", <<Version(from), W("-"), Version(to)>>)
PragmaVersion(t, vs) == Stmt("pragmaversion", <<W("pragma"), Id(t)>> \o vs)
Import(t) == Stmt("import", <<W("import"), Leaf("string", t)>>)
ImportAs(t, u) == Stmt("importas", <<W("import"), Leaf("string", t), W("as"), Id(u)>>)
ImportStar(t, u) ==
    Stmt("importstar", <<W("import"), W("*"), W("as"), Id(u), W("from"), Leaf("string", t)>>)
Rename(t, u) == Node("rename", <<Id(t)>> \o u)
ImportNames(rs, t) ==
    Stmt("importnames", <<W("import"), W("{"), Node("renames", Comma(rs)), W("}"), W("from"),
                          Leaf("string", t)>>)
SourceUnit(parts) == Node("unit", parts)

-----------------------------------------------------------------------------
(* Yul                                                                       *)
YulBlock(ss) == Node("yblock", <<W("{")>> \o ss \o <<W("}")>>)
YulId(t) == Leaf("yident", t)
YulTyped(t, ty) == Node("ytyped", <<YulId(t)>> \o ty)
YulLit(t) == Leaf("ylit", t)
YulMember(e, t) == Node("ymember", <<e, W("."), YulId(t)>>)
YulCall(t, es) == Node("ycall", <<YulId(t), W("(")>> \o Comma(es) \o <<W(")")>>)
YulLet(vs, e) == Node("ylet", <<W("let"), Node("yvars", Comma(vs))>> \o e)
YulValue(e) == <<W(":="), e>>
YulAssign(vs, e) == Node("yassign", <<Node("yvars", Comma(vs)), W(":="), e>>)
YulIf(c, b) == Node("yif", <<W("if"), c, b>>)
YulFor(i, c, n, b) == Node("yfor", <<W("for"), i, c, n, b>>)
YulCase(e, b) == Node("ycase", <<W("case"), e, b>>)
YulDefault(b) == Node("ydefault", <<W("default"), b>>)
YulSwitch(c, cs) == Node("yswitch", <<W("switch"), c>> \o cs)
YulFunction(t, ps, rs, b) ==
    Node("yfun", <<W("function"), YulId(t), Params("params", ps)>>
        \o (IF rs = <<>> THEN <<>> ELSE <<W("->"), Node("returns", Comma(rs))>>) \o <<b>>)
YulLeaf(t) == Leaf("yword", t)      \* leave, break, continue
=============================================================================
