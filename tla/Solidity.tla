------------------------------ MODULE Solidity ------------------------------
(***************************************************************************)
(* The part of the source language the code generator is checked on: the   *)
(* resolved syntax tree (src/src/sema/ast.rs), what semantic analysis      *)
(* records in it (reachability, the variables that are read), and the      *)
(* meaning of a function body as the language documentation describes it   *)
(* (src/docs/language/statements.rst), which the generated code is         *)
(* compared with.  A list of statements stands for a braced block.         *)
(*                                                                         *)
(* The function under test has the parameters, a named return variable,    *)
(* local variables and memory arrays; bodies declare a variable before     *)
(* they use it and never use a variable twice in one expression where one  *)
(* of the uses changes it, so the order of evaluation is settled.          *)
(***************************************************************************)
EXTENDS Cfg

CONSTANTS Params,     \* the number of parameters: variables 1 .. Params
          ReturnVar,  \* the named return variable
          ArrayVars,  \* the variables that are memory arrays
          NumVars     \* the declared variables are 1 .. NumVars

ASSUME VarsAssumption ==
    /\ Params \in Nat /\ NumVars \in Nat
    /\ ReturnVar = Params + 1 /\ ReturnVar <= NumVars
    /\ ArrayVars \subseteq (ReturnVar + 1)..NumVars

-----------------------------------------------------------------------------
(* Expressions with effects, and the operators that branch.                *)

Assign(v, e)  == [k |-> "assign", v |-> v, e |-> e]
PreInc(v)     == [k |-> "preinc", v |-> v]
PreDec(v)     == [k |-> "predec", v |-> v]
PostInc(v)    == [k |-> "postinc", v |-> v]
PostDec(v)    == [k |-> "postdec", v |-> v]
Or(l, r)      == [k |-> "or", l |-> l, r |-> r]
And(l, r)     == [k |-> "and", l |-> l, r |-> r]
Cond(c, l, r) == [k |-> "cond", c |-> c, l |-> l, r |-> r]
New(e)        == [k |-> "new", e |-> e]
Push(a)       == [k |-> "push", v |-> a]
Pop(a)        == [k |-> "pop", v |-> a]
At(a, e)      == [k |-> "at", v |-> a, e |-> e]

IncDecs == {"preinc", "predec", "postinc", "postdec"}

(* Statements.                                                             *)
Decl(v)           == [s |-> "decl", v |-> v, init |-> <<>>]
DeclInit(v, e)    == [s |-> "decl", v |-> v, init |-> <<e>>]
Expr(e)           == [s |-> "expr", e |-> e]
Ret(e)            == [s |-> "ret", e |-> e]
If(c, t)          == [s |-> "if", c |-> c, t |-> t, f |-> <<>>]
IfElse(c, t, f)   == [s |-> "if", c |-> c, t |-> t, f |-> f]
While(c, b)       == [s |-> "while", c |-> c, b |-> b]
DoWhile(b, c)     == [s |-> "dowhile", b |-> b, c |-> c]
For(i, c, n, b)   == [s |-> "for", init |-> i, cond |-> c, next |-> n, b |-> b]
Break             == [s |-> "break"]
Continue          == [s |-> "continue"]

-----------------------------------------------------------------------------
(* What semantic analysis records.                                         *)

RECURSIVE Jumps(_, _)
(* The number of breaks (continues) of a list that belong to its own loop. *)
Jumps(list, jump) ==
    LET Count(st) == CASE st.s = jump -> 1
                       [] st.s = "if" -> Jumps(st.t, jump) + Jumps(st.f, jump)
                       [] OTHER       -> 0
    IN  IF list = <<>> THEN 0 ELSE Count(Head(list)) + Jumps(Tail(list), jump)

(* The value sema::statements::statement returns: for a block, that of its *)
(* last statement.                                                         *)
RECURSIVE SemaReachable(_)
SemaReachable(list) ==
    \/ list = <<>>
    \/ LET st == Last(list)
       IN  CASE st.s \in {"ret", "break", "continue"} -> FALSE
             [] st.s = "if"  -> st.f = <<>> \/ SemaReachable(st.t) \/ SemaReachable(st.f)
             [] st.s = "for" -> st.cond # <<>> \/ Jumps(st.b, "break") > 0
             [] OTHER        -> TRUE

(* Statement::reachable of the tree: for a block, that of all statements.  *)
StmtReachable(st) == SemaReachable(<<st>>)
ListReachable(list) == \A i \in DOMAIN list : StmtReachable(list[i])

(* sema drops the next expression of a for loop with a condition when no   *)
(* path reaches it.                                                        *)
NextOf(st) ==
    IF st.cond # <<>> /\ ~SemaReachable(st.b) /\ Jumps(st.b, "continue") = 0
    THEN <<>> ELSE st.next

(* Variables marked as read: every use, an increment or decrement          *)
(* included; not the target of an assignment, a push or a pop.             *)
RECURSIVE ReadsExpr(_)
ReadsExpr(e) ==
    CASE e.k \in BinOps \cup {"or", "and"} -> ReadsExpr(e.l) \cup ReadsExpr(e.r)
      [] e.k = "var" \/ e.k \in IncDecs     -> {e.v}
      [] e.k \in {"assign", "new"}          -> ReadsExpr(e.e)
      [] e.k = "cond" -> ReadsExpr(e.c) \cup ReadsExpr(e.l) \cup ReadsExpr(e.r)
      [] e.k = "at"   -> {e.v} \cup ReadsExpr(e.e)
      [] e.k = "length" -> ReadsExpr(e.e)
      [] OTHER        -> {}

RECURSIVE ReadsList(_)
ReadsList(list) ==
    LET Opt(o) == UNION {ReadsExpr(o[i]) : i \in DOMAIN o}
        Reads(st) ==
            CASE st.s = "decl"   -> Opt(st.init)
              [] st.s \in {"expr", "ret"} -> ReadsExpr(st.e)
              [] st.s = "if"     -> ReadsExpr(st.c) \cup ReadsList(st.t) \cup ReadsList(st.f)
              [] st.s \in {"while", "dowhile"} -> ReadsExpr(st.c) \cup ReadsList(st.b)
              [] st.s = "for"    -> ReadsList(st.init) \cup Opt(st.cond)
                                        \cup Opt(st.next) \cup ReadsList(st.b)
              [] OTHER           -> {}
    IN  UNION {Reads(list[i]) : i \in DOMAIN list}

-----------------------------------------------------------------------------
(* The meaning of a body.  Evaluation gives a value and the environment    *)
(* after it; a negative value is the outcome that ends the program.        *)

UndefinedRead == -4

Apply(op, x, y) ==
    CASE op = "add" -> IF x + y > MaxUint THEN Panic ELSE x + y
      [] op = "sub" -> IF x < y THEN Panic ELSE x - y
      [] op = "mul" -> IF x * y > MaxUint THEN Panic ELSE x * y
      [] op = "wadd" -> (x + y) % (MaxUint + 1)
      [] op = "wsub" -> (x - y) % (MaxUint + 1)
      [] op = "less" -> IF x < y THEN 1 ELSE 0
      [] op = "moreEqual" -> IF x >= y THEN 1 ELSE 0
      [] op = "equal" -> IF x = y THEN 1 ELSE 0

Val(v, env) == [v |-> v, env |-> env]

RECURSIVE Eval(_, _)
Eval(e, env) ==
    CASE e.k \in {"num", "bool"} -> Val(e.n, env)
      [] e.k = "var" -> Val(env[e.v], env)
      [] e.k \in BinOps ->
            LET l == Eval(e.l, env) IN
            IF l.v < 0 THEN l ELSE
            LET r == Eval(e.r, l.env) IN
            IF r.v < 0 THEN r ELSE Val(Apply(e.k, l.v, r.v), r.env)
      [] e.k = "assign" ->
            LET r == Eval(e.e, env) IN
            IF r.v < 0 THEN r ELSE Val(r.v, [r.env EXCEPT ![e.v] = r.v])
      [] e.k \in IncDecs ->
            LET old == env[e.v]
                new == Apply(IF e.k \in {"preinc", "postinc"} THEN "add" ELSE "sub", old, 1)
            IN  IF old < 0 THEN Val(old, env)
                ELSE IF new < 0 THEN Val(new, env)
                ELSE Val(IF e.k \in {"preinc", "predec"} THEN new ELSE old,
                         [env EXCEPT ![e.v] = new])
      [] e.k \in {"or", "and"} ->
            LET l == Eval(e.l, env) IN
            IF l.v < 0 \/ l.v = (IF e.k = "or" THEN 1 ELSE 0) THEN l ELSE Eval(e.r, l.env)
      [] e.k = "cond" ->
            LET c == Eval(e.c, env) IN
            IF c.v < 0 THEN c ELSE Eval(IF c.v = 1 THEN e.l ELSE e.r, c.env)
      [] e.k = "new" -> Eval(e.e, env)
      [] e.k = "push" -> Val(0, [env EXCEPT ![e.v] = @ + 1])
      [] e.k = "pop" -> IF env[e.v] = 0 THEN Val(Panic, env)
                        ELSE Val(0, [env EXCEPT ![e.v] = @ - 1])
      [] e.k = "at" ->
            LET i == Eval(e.e, env) IN
            IF i.v < 0 THEN i
            ELSE Val(IF i.v < i.env[e.v] THEN 0 ELSE Panic, i.env)
      [] e.k = "length" -> Eval(e.e, env)

(* Execution of a list: `ctl' says how it ended ("next", "break",          *)
(* "continue", "return", "stop"), `fuel' bounds the iterations of loops.   *)
Ctl(c, v, env, fuel) == [ctl |-> c, v |-> v, env |-> env, fuel |-> fuel]

RECURSIVE Exec(_, _, _)
RECURSIVE Loop(_, _, _, _, _)

ExecStmt(st, env, fuel) ==
    CASE st.s = "decl" ->
            IF st.init = <<>>
            THEN Ctl("next", 0, [env EXCEPT ![st.v] = IF st.v \in ArrayVars THEN 0
                                                      ELSE UndefinedRead], fuel)
            ELSE LET r == Eval(st.init[1], env)
                 IN  IF r.v < 0 THEN Ctl("stop", r.v, r.env, fuel)
                     ELSE Ctl("next", 0, [r.env EXCEPT ![st.v] = r.v], fuel)
      [] st.s = "expr" ->
            LET r == Eval(st.e, env)
            IN  Ctl(IF r.v < 0 THEN "stop" ELSE "next", r.v, r.env, fuel)
      [] st.s = "ret" ->
            LET r == Eval(st.e, env)
            IN  Ctl(IF r.v < 0 THEN "stop" ELSE "return", r.v, r.env, fuel)
      [] st.s = "if" ->
            LET r == Eval(st.c, env)
            IN  IF r.v < 0 THEN Ctl("stop", r.v, r.env, fuel)
                ELSE Exec(IF r.v = 1 THEN st.t ELSE st.f, r.env, fuel)
      [] st.s = "while" -> Loop(<<st.c>>, <<>>, st.b, TRUE, Ctl("next", 0, env, fuel))
      [] st.s = "dowhile" -> Loop(<<st.c>>, <<>>, st.b, FALSE, Ctl("next", 0, env, fuel))
      [] st.s = "for" ->
            LET i == Exec(st.init, env, fuel)
            IN  IF i.ctl # "next" THEN i ELSE Loop(st.cond, st.next, st.b, TRUE, i)
      [] OTHER -> Ctl(st.s, 0, env, fuel)

Exec(list, env, fuel) ==
    IF list = <<>> THEN Ctl("next", 0, env, fuel)
    ELSE LET r == ExecStmt(Head(list), env, fuel)
         IN  IF r.ctl = "next" THEN Exec(Tail(list), r.env, r.fuel) ELSE r

(* One iteration: the condition (unless this is the first of a do-while),  *)
(* the body, then the next expression, which continue does not skip.       *)
Loop(cond, next, body, test, from) ==
    LET EvalOpt(o, env) == IF o = <<>> THEN Val(1, env) ELSE Eval(o[1], env)
        c == IF test THEN EvalOpt(cond, from.env) ELSE Val(1, from.env)
    IN  IF c.v < 0 THEN Ctl("stop", c.v, c.env, from.fuel)
        ELSE IF c.v = 0 THEN Ctl("next", 0, c.env, from.fuel)
        ELSE IF from.fuel = 0 THEN Ctl("fuel", 0, c.env, 0)
        ELSE LET r == Exec(body, c.env, from.fuel - 1)
             IN  IF r.ctl = "break" THEN [r EXCEPT !.ctl = "next"]
                 ELSE IF r.ctl \notin {"next", "continue"} THEN r
                 ELSE LET n == EvalOpt(next, r.env)
                      IN  IF n.v < 0 THEN Ctl("stop", n.v, n.env, r.fuel)
                          ELSE Loop(cond, next, body, TRUE, Ctl("next", 0, n.env, r.fuel))

InitEnv(args) ==
    [v \in 1..NumVars |-> IF v <= Params THEN args[v] ELSE 0]

(* The outcome of a call: a value, or the negative outcome; running out of *)
(* fuel is the outcome NoEnd.                                              *)
NoEnd == -5

Outcome(body, args, fuel) ==
    LET r == Exec(body, InitEnv(args), fuel)
    IN  CASE r.ctl = "next" -> r.env[ReturnVar]
          [] r.ctl = "fuel" -> NoEnd
          [] OTHER          -> r.v
=============================================================================
