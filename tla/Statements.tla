----------------------------- MODULE Statements -----------------------------
(***************************************************************************)
(* The translation of a function body to a control flow graph              *)
(* (src/src/codegen/statements/mod.rs, expression.rs, array_boundary.rs,   *)
(* unused_variable.rs and function_cfg in cfg.rs).  Every operator threads *)
(* the graph under construction; translating an expression also gives the  *)
(* expression that stands for its value, which is evaluated only where an  *)
(* instruction uses it.                                                    *)
(***************************************************************************)
EXTENDS Solidity

Gen(g, e) == [g |-> g, e |-> e]

(* Binds the value of an expression once.                                  *)
Let(F(_), x) == CHOOSE y \in {F(z) : z \in {x}} : TRUE

NumBlocks(g) == Len(g.blocks)

(* assign_single for a variable.                                           *)
AssignSingle(r, v) == Gen(AddInstr(r.g, Set(v, r.e)), Var(v))

(* handle_array_assign, and the same steps of a declaration: a new array   *)
(* gets a length temporary, a copy shares the one of its source, and any   *)
(* other right side leaves what the map says of the variable.              *)
HandleArrayAssign(r, v) ==
    LET t == r.g.next_id
    IN  CASE r.e.k = "alloc" ->
                LET h == AddInstr(Temp(r.g), Set(t, r.e.e))
                IN  Gen([h EXCEPT !.lens = (v :> t) @@ @], Alloc(Var(t)))
          [] r.e.k = "var" ->
                Gen([r.g EXCEPT !.lens =
                        IF r.e.v \in DOMAIN @ THEN (v :> @[r.e.v]) @@ @
                        ELSE [x \in DOMAIN @ \ {v} |-> @[x]]], r.e)
          [] OTHER -> r

(* A declaration does not forget the temporary of the variable when the    *)
(* right side has none.                                                    *)
HandleArrayDecl(r, v) ==
    IF r.e.k = "var" /\ r.e.v \notin DOMAIN r.g.lens THEN r ELSE HandleArrayAssign(r, v)

(* should_remove_variable: a local variable that is never read is removed  *)
(* when optimising, unless it is an array declared as a reference to       *)
(* another one.                                                            *)
RECURSIVE Aliases(_)
Aliases(list) ==
    LET Of(st) == CASE st.s = "decl" -> IF st.init # <<>> /\ st.init[1].k # "new"
                                        THEN {st.v} \cap ArrayVars ELSE {}
                    [] st.s = "if" -> Aliases(st.t) \cup Aliases(st.f)
                    [] st.s \in {"while", "dowhile"} -> Aliases(st.b)
                    [] st.s = "for" -> Aliases(st.init) \cup Aliases(st.b)
                    [] OTHER -> {}
    IN  UNION {Of(list[i]) : i \in DOMAIN list}

Removed(body, opt) ==
    IF opt THEN ((ReturnVar + 1)..NumVars) \ (ReadsList(body) \cup Aliases(body)) ELSE {}

-----------------------------------------------------------------------------
RECURSIVE Expression(_, _, _)

(* post_incdec and pre_incdec of a variable.                               *)
IncDec(e, g) ==
    LET t  == g.next_id
        op == IF e.k \in {"preinc", "postinc"} THEN "add" ELSE "sub"
    IN  IF e.k \in {"postinc", "postdec"}
        THEN Gen(AddInstr(AddInstr(Temp(g), Set(t, Var(e.v))),
                          Set(e.v, Bin(op, Var(t), Num(1)))), Var(t))
        ELSE Gen(AddInstr(AddInstr(Temp(g), Set(t, Bin(op, Var(e.v), Num(1)))),
                          Set(e.v, Var(t))), Var(t))

(* expr_or and and: the result is a temporary with a phi where the two     *)
(* paths meet; its tracker is opened after the temporary is made.          *)
ShortCircuit(e, g, gone) ==
    LET OnLeft(l) ==
            LET pos   == l.g.next_id
                right == NumBlocks(l.g) + 1
                end   == right + 1
                isOr  == e.k = "or"
                g1 == NewBasicBlocks(NewDirtyTracker(Temp(l.g)), 2)
                g2 == AddInstr(g1, Set(pos, Bool(IF isOr THEN 1 ELSE 0)))
                g3 == AddInstr(g2, IF isOr THEN BranchCond(l.e, end, right)
                                           ELSE BranchCond(l.e, right, end))
                OnRight(r) ==
                    LET g4 == AddInstr(AddInstr(r.g, Set(pos, r.e)), Branch(end))
                    IN  Gen(SetBasicBlock(SetPhis(PopDirtyTracker(g4), end, TopDirty(g4)), end),
                            Var(pos))
            IN  Let(OnRight, Expression(e.r, SetBasicBlock(g3, right), gone))
    IN  Let(OnLeft, Expression(e.l, g, gone))

ConditionalOperator(e, g, gone) ==
    LET OnCond(c) ==
            LET pos   == c.g.next_id
                left  == NumBlocks(c.g) + 1
                right == left + 1
                done  == left + 2
                g1 == NewBasicBlocks(NewDirtyTracker(Temp(c.g)), 3)
                g2 == AddInstr(g1, BranchCond(c.e, left, right))
                SetPos(r) == AddInstr(AddInstr(r.g, Set(pos, r.e)), Branch(done))
                g3 == SetPos(Expression(e.l, SetBasicBlock(g2, left), gone))
                g4 == SetPos(Expression(e.r, SetBasicBlock(g3, right), gone))
                Finish(h) == SetPhis(PopDirtyTracker(SetBasicBlock(h, done)), done, TopDirty(h))
            IN  Gen(Let(Finish, g4), Var(pos))
    IN  Let(OnCond, Expression(e.c, g, gone))

(* memory_array_push and the pop of a memory array: the array variable is  *)
(* marked dirty, as the instruction replaces the pointer.                  *)
PushPop(e, g) ==
    LET t == g.next_id
        h == SetDirty(Temp(g), e.v)
        i == IF e.k = "push" THEN PushMemory(t, e.v) ELSE PopMemory(t, e.v)
    IN  Gen(ModifyTempArrayLength(AddInstr(h, i), e.k = "pop", e.v), Var(t))

(* array_subscript of a dynamic memory array: the bound is the length      *)
(* temporary where the map has one.                                        *)
ArraySubscript(e, g, gone) ==
    LET OnIndex(i) ==
            LET length == IF e.v \in DOMAIN i.g.lens THEN Var(i.g.lens[e.v])
                          ELSE ArrayLength(Var(e.v))
                pos == i.g.next_id
                out == NumBlocks(i.g) + 1
                in  == out + 1
                g1 == NewBasicBlocks(AddInstr(Temp(i.g), Set(pos, i.e)), 2)
                g2 == AddInstr(g1, BranchCond(MoreEqual(Var(pos), length), out, in))
                g3 == AddInstr(SetBasicBlock(g2, out), AssertFailure)
            IN  Gen(SetBasicBlock(g3, in), Subscript(Var(e.v), Var(pos)))
    IN  Let(OnIndex, Expression(e.e, g, gone))

Expression(e, g, gone) ==
    CASE e.k \in {"num", "bool", "var"} -> Gen(g, e)
      [] e.k \in BinOps ->
            LET OnLeft(l) ==
                    LET OnRight(r) == Gen(r.g, Bin(e.k, l.e, r.e))
                    IN  Let(OnRight, Expression(e.r, l.g, gone))
            IN  Let(OnLeft, Expression(e.l, g, gone))
      [] e.k = "assign" ->
            IF e.v \in gone THEN Expression(e.e, g, gone)
            ELSE LET Finish(r) ==
                        AssignSingle(IF e.v \in ArrayVars THEN HandleArrayAssign(r, e.v) ELSE r,
                                     e.v)
                 IN  Let(Finish, Expression(e.e, g, gone))
      [] e.k \in IncDecs -> IncDec(e, g)
      [] e.k \in {"or", "and"} -> ShortCircuit(e, g, gone)
      [] e.k = "cond" -> ConditionalOperator(e, g, gone)
      [] e.k = "new" ->
            LET Finish(r) == Gen(r.g, Alloc(r.e))
            IN  Let(Finish, Expression(e.e, g, gone))
      [] e.k \in {"push", "pop"} -> PushPop(e, g)
      [] e.k = "at" -> ArraySubscript(e, g, gone)
      [] e.k = "length" -> Gen(g, e)

-----------------------------------------------------------------------------
(* Statements.                                                             *)

(* The expressions with effects of a right side whose variable is removed: *)
(* assignments, pushes and pops are kept, and nothing under them is looked *)
(* at again.                                                               *)
RECURSIVE SideEffects(_, _, _)
SideEffects(e, g, gone) ==
    CASE e.k \in {"assign", "push", "pop"} -> Expression(e, g, gone).g
      [] e.k \in BinOps \cup {"or", "and"} ->
            SideEffects(e.r, SideEffects(e.l, g, gone), gone)
      [] e.k = "cond" ->
            SideEffects(e.r, SideEffects(e.l, SideEffects(e.c, g, gone), gone),
                        gone)
      [] e.k \in {"new", "at"} -> SideEffects(e.e, g, gone)
      [] OTHER -> g

VariableDecl(st, g, gone) ==
    IF st.v \in gone
    THEN IF st.init = <<>> THEN g ELSE SideEffects(st.init[1], g, gone)
    ELSE IF st.init = <<>>
    THEN LET h == AddInstr(g, Set(st.v, Undefined))
             t == h.next_id
         IN  IF st.v \notin ArrayVars THEN h
             ELSE [AddInstr(Temp(h), Set(t, Num(0))) EXCEPT !.lens = (st.v :> t) @@ @]
    ELSE LET Finish(r) ==
                AssignSingle(IF st.v \in ArrayVars THEN HandleArrayDecl(r, st.v) ELSE r, st.v).g
         IN  Let(Finish, Expression(st.init[1], g, gone))

(* A returned conditional expression becomes two returns.                  *)
RECURSIVE Returns(_, _, _)
Returns(e, g, gone) ==
    IF e.k = "cond"
    THEN LET OnCond(c) ==
                LET left == NumBlocks(c.g) + 1
                    g1 == AddInstr(NewBasicBlocks(c.g, 2), BranchCond(c.e, left, left + 1))
                    g2 == Returns(e.l, SetBasicBlock(NewDirtyTracker(g1), left), gone)
                IN  Returns(e.r, SetBasicBlock(g2, left + 1), gone)
         IN  Let(OnCond, Expression(e.c, g, gone))
    ELSE LET Finish(r) == AddInstr(r.g, Return(r.e))
         IN  Let(Finish, Expression(e, g, gone))

RECURSIVE StatementList(_, _, _)

(* Mutant: the jump is added in any case.                                  *)
(* The body of a branch or a loop, then a jump to `to' when its end can be *)
(* reached.                                                                *)
Body(list, g, to, gone) ==
    LET h == StatementList(list, g, gone)
    IN  IF ListReachable(list) THEN AddInstr(h, Branch(to)) ELSE h

IfThen(st, g, gone) ==
    LET OnCond(c) ==
            LET then == NumBlocks(c.g) + 1
                endif == then + 1
                g1 == AddInstr(NewBasicBlocks(c.g, 2), BranchCond(c.e, then, endif))
                Finish(h) ==
                    SetBasicBlock(SetPhis(PopDirtyTracker(h), endif, TopDirty(h)), endif)
            IN  Let(Finish, Body(st.t, NewDirtyTracker(SetBasicBlock(g1, then)), endif, gone))
    IN  Let(OnCond, Expression(st.c, g, gone))

IfThenElse(st, g, gone) ==
    LET OnCond(c) ==
            LET then  == NumBlocks(c.g) + 1
                else  == then + 1
                endif == then + 2
                g1 == AddInstr(NewBasicBlocks(c.g, 3), BranchCond(c.e, then, else))
                OnThen(h) == Body(st.f, SetBasicBlock(h, else), endif, gone)
                Finish(h) ==
                    SetBasicBlock(SetPhis(PopDirtyTracker(h), endif, TopDirty(h)), endif)
            IN  Let(Finish, Let(OnThen, Body(st.t, NewDirtyTracker(SetBasicBlock(g1, then)),
                                             endif, gone)))
    IN  Let(OnCond, Expression(st.c, g, gone))

(* The scope of the loop is entered and never left.                        *)
DoWhileStmt(st, g, gone) ==
    LET body == NumBlocks(g) + 1
        cond == body + 1
        end  == body + 2
        g1 == SetBasicBlock(AddInstr(NewBasicBlocks(g, 3), Branch(body)), body)
        g2 == EnterScope(NewDirtyTracker(g1), end, cond)
        OnBody(h) == Expression(st.c, SetBasicBlock(h, cond), gone)
        Finish(r) ==
            LET h == AddInstr(r.g, BranchCond(r.e, body, end))
            IN  SetBasicBlock(SetPhisAll(PopDirtyTracker(h), {end, body, cond}, TopDirty(h)), end)
    IN  Let(Finish, Let(OnBody, Body(st.b, g2, cond, gone)))

(* The condition is translated before the tracker is opened.               *)
WhileStmt(st, g, gone) ==
    LET cond == NumBlocks(g) + 1
        body == cond + 1
        end  == cond + 2
        g1 == SetBasicBlock(AddInstr(NewBasicBlocks(g, 3), Branch(cond)), cond)
        OnCond(c) ==
            LET g2 == AddInstr(c.g, BranchCond(c.e, body, end))
                g3 == EnterScope(NewDirtyTracker(SetBasicBlock(g2, body)), end, cond)
            IN  Body(st.b, g3, cond, gone)
        Finish(h) ==
            SetBasicBlock(SetPhisAll(PopDirtyTracker(LeaveScope(h)), {end, cond}, TopDirty(h)), end)
    IN  Let(Finish, Let(OnCond, Expression(st.c, g1, gone)))

NextExpr(next, g, gone) ==
    IF next = <<>> THEN g ELSE Expression(next[1], g, gone).g

ForEver(st, g, gone) ==
    LET body == NumBlocks(g) + 1
        next == body + 1
        end  == body + 2
        g1 == AddInstr(StatementList(st.init, NewBasicBlocks(g, 3), gone), Branch(body))
        g2 == NewDirtyTracker(EnterScope(SetBasicBlock(g1, body), end,
                                         IF st.next = <<>> THEN body ELSE next))
        OnBody(b) ==
            LET h == LeaveScope(b)
            IN  IF ~ListReachable(st.b) THEN h
                ELSE AddInstr(NextExpr(st.next, SetBasicBlock(h, next), gone), Branch(body))
        Finish(h) ==
            SetBasicBlock(SetPhisAll(PopDirtyTracker(h), {next, body, end}, TopDirty(h)), end)
    IN  Let(Finish, Let(OnBody, Body(st.b, g2, next, gone)))

(* As for while: the condition comes before the tracker.                   *)
ForCond(st, g, gone) ==
    LET body == NumBlocks(g) + 1
        cond == body + 1
        next == body + 2
        end  == body + 3
        g1 == AddInstr(StatementList(st.init, NewBasicBlocks(g, 4), gone), Branch(cond))
        OnCond(c) ==
            LET g2 == SetBasicBlock(AddInstr(c.g, BranchCond(c.e, body, end)), body)
            IN  Body(st.b, NewDirtyTracker(EnterScope(g2, end, next)), next, gone)
        OnBody(b) ==
            AddInstr(NextExpr(NextOf(st), SetBasicBlock(LeaveScope(b), next), gone),
                     Branch(cond))
        Finish(h) ==
            SetBasicBlock(SetPhisAll(PopDirtyTracker(h), {next, end, cond}, TopDirty(h)), end)
    IN  Let(Finish, Let(OnBody, Let(OnCond, Expression(st.cond[1], SetBasicBlock(g1, cond), gone))))

Statement(st, g, gone) ==
    CASE st.s = "decl" -> VariableDecl(st, g, gone)
      [] st.s = "expr" ->
            IF st.e.k = "assign" /\ st.e.v \in gone THEN SideEffects(st.e.e, g, gone)
            ELSE IF st.e.k \in {"push", "pop"} /\ st.e.v \in gone THEN g
            ELSE Expression(st.e, g, gone).g
      [] st.s = "ret" -> Returns(st.e, g, gone)
      [] st.s = "break" -> AddInstr(g, Branch(TopLoop(g).break_bb))
      [] st.s = "continue" -> AddInstr(g, Branch(TopLoop(g).continue_bb))
      [] st.s = "if" -> IF st.f = <<>> THEN IfThen(st, g, gone)
                        ELSE IfThenElse(st, g, gone)
      [] st.s = "dowhile" -> DoWhileStmt(st, g, gone)
      [] st.s = "while" -> WhileStmt(st, g, gone)
      [] st.s = "for" -> IF st.cond = <<>> THEN ForEver(st, g, gone)
                         ELSE ForCond(st, g, gone)

(* A block stops at its first statement that does not continue.            *)
StatementList(list, g, gone) ==
    IF list = <<>> THEN g
    ELSE LET OnFirst(h) == IF StmtReachable(Head(list))
                           THEN StatementList(Tail(list), h, gone) ELSE h
         IN  Let(OnFirst, Statement(Head(list), g, gone))

(* function_cfg: the arguments, the return variable, the body, and a       *)
(* return where the end of the body can be reached.                        *)
RECURSIVE PopulateArguments(_, _)
PopulateArguments(g, i) ==
    IF i > Params THEN g
    ELSE PopulateArguments(AddInstr(g, Set(i, FunctionArg(i))), i + 1)

FunctionCfg(body, opt) ==
    LET g == AddInstr(PopulateArguments(NewCfg(NumVars + 1), 1), Set(ReturnVar, Num(0)))
        h == StatementList(body, g, Removed(body, opt))
    IN  IF ListReachable(body) THEN AddInstr(h, Return(Var(ReturnVar))) ELSE h
=============================================================================
