----------------------------- MODULE MCCodegen -----------------------------
(***************************************************************************)
(* Families of function bodies for Codegen.  The parameters are p and q,   *)
(* the named return variable is r, x and y are local variables, a and b    *)
(* memory arrays.                                                          *)
(***************************************************************************)
EXTENDS Codegen

p == 1
q == 2
r == 3
x == 4
y == 5
a == 6
b == 7

Lists(ss) == {<<s>> : s \in ss}
Pairs(ss, ts) == {<<s, t>> : s \in ss, t \in ts}

IncX == Expr(PostInc(x))
IncR == Expr(PreInc(r))
SetR == Expr(Assign(r, Var(x)))
SetX == Expr(Assign(x, Var(p)))

Less2 == Less(Var(x), Num(2))
LessP == Less(Var(x), Var(p))
IsOne == Equal(Var(x), Num(1))

(* Loops of every kind whose body changes variables on some of its paths,  *)
(* leaves the loop or starts the next iteration early.                     *)
Branches == {If(IsOne, t) : t \in Lists({IncR, SetX, Break, Continue, Ret(Var(x))})}
                \cup {IfElse(IsOne, t, f) : t \in Lists({IncR, Break, Continue}),
                                            f \in Lists({SetR, Continue, Ret(Var(r))})}

LoopBodies == Pairs(Branches, {IncX}) \cup Pairs({IncX}, Branches)

Loops(bodies) ==
    {While(LessP, l) : l \in bodies} \cup {DoWhile(l, LessP) : l \in bodies}
        \cup {For(<<>>, <<LessP>>, <<PostInc(r)>>, l) : l \in bodies}

LoopFamily == {<<DeclInit(x, Num(0)), l, SetR>> : l \in Loops(LoopBodies)}

(* Loops without a condition: the body ends in a statement that continues. *)
EverFamily ==
    {<<DeclInit(x, Num(0)), For(i, <<>>, n, <<If(c, <<j>>), IncR, t>>)>> :
        i \in {<<>>, <<SetX>>}, n \in {<<>>, <<PostInc(x)>>}, c \in {LessP, IsOne},
        j \in {Break, Ret(Var(x))}, t \in {IncX, IfElse(Less2, <<IncX>>, <<Break>>)}}

(* A loop in a loop; the inner one is not a do-while.                      *)
InnerFor(t) == For(<<>>, <<Less(Var(y), Num(2))>>, <<PostInc(y)>>, <<If(IsOne, <<t>>)>>)
InnerWhile(t) == While(Less(Var(y), Var(x)), <<Expr(PostInc(y)), If(IsOne, <<t>>)>>)
NestedFamily ==
    {<<DeclInit(x, Num(0)), DeclInit(y, Num(0)), outer>> :
        outer \in {DoWhile(<<IncX, InnerFor(Break), IncR>>, LessP),
                   While(LessP, <<IncX, InnerFor(Continue), IncR>>),
                   While(LessP, <<IncX, InnerWhile(Continue), IncR>>)}}

(* Operators that branch, with effects in the operands, in an expression.  *)
Tests == {Less(PostInc(x), Num(2)), Equal(Assign(x, Var(q)), Num(1)),
          Less(Var(p), Num(1)), Bool(1)}
OperatorFamily ==
    {<<DeclInit(x, Var(p)), DeclInit(y, e), IfElse(Equal(Var(y), Num(1)), <<SetR>>, <<IncR>>),
       Ret(Add(Var(r), Var(x)))>> :
        e \in UNION {{Or(l, t), And(l, t), Cond(l, PostDec(x), PreInc(x)), Cond(l, PreDec(x), t)} :
                        l \in Tests, t \in Tests}}

(* Definitions that meet: folding replaces a variable only when they agree.*)
Consts == {Num(1), Num(2), Add(Num(1), Num(1)), Sub(Var(x), Num(1)), Mul(Num(3), Num(3))}
FoldFamily ==
    {<<DeclInit(x, e), Decl(y),
       IfElse(Less(Var(p), Num(1)), <<Expr(Assign(y, f))>>, <<Expr(Assign(y, h))>>),
       If(Equal(Var(q), Num(0)), <<Expr(Assign(x, Var(y)))>>), Ret(Add(Var(x), Var(y)))>> :
        e \in {Num(1), Var(q)}, f \in Consts, h \in Consts}

(* A variable declared without a value.                                    *)
UndefinedFamily ==
    {<<Decl(x), s, t, Ret(e)>> :
        s \in {If(Less(Var(p), Num(1)), <<Expr(Assign(x, Num(1)))>>),
               IfElse(Less(Var(p), Num(1)), <<Expr(Assign(x, Num(1)))>>, <<SetX>>),
               IfElse(Less(Var(p), Num(1)), <<Expr(Assign(x, Num(1)))>>, <<Ret(Num(3))>>),
               While(Less(Var(r), Var(p)), <<Expr(Assign(x, Num(2))), IncR>>)},
        t \in {IncR, If(Equal(Var(q), Num(1)), <<Expr(Assign(x, Num(0)))>>),
               If(Equal(Var(q), Num(1)), <<SetR>>)},
        e \in {Var(x), Var(r)}}

(* Memory arrays, which grow and shrink on some of the paths.              *)
ArrayFamily ==
    {<<DeclInit(a, New(n)), s, t, Ret(Add(At(a, i), Var(p)))>> :
        n \in {Num(1), Var(p)},
        s \in {Expr(Push(a)), Expr(Pop(a)), If(Less(Var(p), Num(2)), <<Expr(Push(a))>>),
               While(Less(Var(r), Var(q)), <<Expr(Push(a)), IncR>>)},
        t \in {IncR, Expr(Push(a)), Expr(Pop(a)), DeclInit(b, Var(a))},
        i \in {Num(0), Num(1), Var(r), ArrayLength(Var(a))}}

(* Expressions computed again: in a line, after branches and in loops that *)
(* do or do not change an operand.                                         *)
Sum == Add(Var(p), Var(q))
Test == Less(Var(p), Var(q))
Computing == {Expr(Assign(x, Sum)), Expr(Assign(r, Add(Add(Var(q), Var(p)), Num(1)))),
              Expr(Assign(x, Num(2)))}
Changing == {Expr(Assign(p, Num(1))), Expr(Assign(q, Sub(Var(q), Var(p))))}
Total == Ret(Add(Var(r), Add(Var(x), Var(y))))

CommonFamily ==
    {<<DeclInit(x, Num(0)), DeclInit(y, Sum), s, t, u, Total>> :
        s \in Computing, t \in Computing \cup Changing, u \in Computing \cup Changing}
    \cup
    {<<DeclInit(x, Num(0)), DeclInit(y, Sum), IfElse(Test, <<s>>, <<t>>), u, Total>> :
        s \in Computing \cup Changing, t \in Computing, u \in Computing}
    \cup
    {<<DeclInit(x, Sum), DeclInit(y, Num(0)),
       While(Less(Var(y), Num(2)), <<s, t, Expr(PostInc(y))>>), u, Total>> :
        s \in Computing, t \in Computing \cup Changing, u \in Computing}

(* A condition that is evaluated in branches and moves to where they part. *)
HoistFamily ==
    {<<DeclInit(x, Var(p)), If(Less(Var(q), Num(2)), <<If(Test, <<s>>), If(Test, <<IncX>>)>>), t,
       If(Less(Var(q), Num(1)), <<If(Test, <<SetR>>)>>), Ret(Add(Var(r), Var(x)))>> :
        s \in {IncR, Expr(Assign(p, Num(0)))}, t \in {IncX, Expr(Assign(q, Num(0)))}}

Opts(o, f, c) == [optimize |-> o, fold |-> f, cse |-> c]

Compile(bodies, opts) == {[body |-> d, opt |-> o] : d \in bodies, o \in opts}

MCSources ==
    Compile(LoopFamily \cup EverFamily \cup NestedFamily \cup OperatorFamily \cup FoldFamily
                \cup UndefinedFamily \cup ArrayFamily,
            {Opts(FALSE, FALSE, FALSE), Opts(TRUE, TRUE, FALSE)})
    \cup
    Compile(CommonFamily \cup HoistFamily, {Opts(TRUE, FALSE, TRUE), Opts(TRUE, TRUE, TRUE)})

MCCalls == {<<0, 1>>, <<1, 0>>, <<2, 1>>, <<3, 3>>}
=============================================================================
