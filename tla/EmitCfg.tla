------------------------------ MODULE EmitCfg ------------------------------
(***************************************************************************)
(* From the control flow graph to single assignment form                   *)
(* (src/src/emit/cfg.rs and instructions.rs) and the execution of the      *)
(* result.  While a block is emitted every variable stands for one LLVM    *)
(* value.  A block starts with the values of the predecessor that created  *)
(* it, except for the variables of its phis; so a variable that differs    *)
(* between predecessors and has no phi keeps the value of the first.       *)
(*                                                                         *)
(* LLVM values are <<"const", n, 0>>, the phi of a variable in a block,    *)
(* the value an instruction defines, or its second result.                 *)
(***************************************************************************)
EXTENDS Statements

ConstVal(n) == <<"const", n, 0>>
PhiVal(b, v) == <<"phi", b, v>>
InsVal(b, i) == <<"ins", b, i>>
ResVal(b, i) == <<"res", b, i>>

(* The LLVM value of an expression: a literal and a variable need no       *)
(* instruction.                                                            *)
ExprVal(e, vars, b, i) ==
    CASE e.k \in {"num", "bool"} -> ConstVal(e.n)
      [] e.k = "var" -> vars[e.v]
      [] e.k = "undef" -> ConstVal(0)
      [] OTHER -> InsVal(b, i)

(* The values of the variables after instruction i of block b.             *)
AfterInstr(ins, vars, b, i) ==
    CASE ins.op = "Set" -> [vars EXCEPT ![ins.res] = ExprVal(ins.expr, vars, b, i)]
      [] ins.op \in {"PushMemory", "PopMemory"} ->
            [vars EXCEPT ![ins.array] = InsVal(b, i), ![ins.res] = ResVal(b, i)]
      [] OTHER -> vars

RECURSIVE VarsAt(_, _, _, _)
(* The values before instruction i, given those at the start of the block. *)
VarsAt(block, vars, b, i) ==
    IF i = 1 THEN vars
    ELSE AfterInstr(block.instr[i - 1], VarsAt(block, vars, b, i - 1), b, i - 1)

VarsAtEnd(block, vars, b) == VarsAt(block, vars, b, Len(block.instr) + 1)

WithPhis(block, vars, b) ==
    [v \in DOMAIN vars |-> IF v \in block.phis THEN PhiVal(b, v) ELSE vars[v]]

(* The work queue: a branch creates its target the first time it is seen,  *)
(* with the values of the variables at the branch.  `entry' maps every     *)
(* created block to the values it starts with.                             *)
RECURSIVE EmitBlocks(_, _, _)
EmitBlocks(blocks, work, entry) ==
    IF work = <<>> THEN entry
    ELSE LET b    == Head(work)
             vars == VarsAtEnd(blocks[b], entry[b], b)
             succ == Successors(blocks[b])
             new  == SelectSeq(succ, LAMBDA s : s \notin DOMAIN entry)
             once == IF Len(new) = 2 /\ new[1] = new[2] THEN <<new[1]>> ELSE new
             more == [s \in {once[i] : i \in DOMAIN once} |-> WithPhis(blocks[s], vars, s)]
         IN  EmitBlocks(blocks, Tail(work) \o once, entry @@ more)

(* All variables start as zero or as a null pointer.                       *)
Emit(g) ==
    EmitBlocks(g.blocks, <<1>>,
        1 :> WithPhis(g.blocks[1], [v \in 1..(g.next_id - 1) |-> ConstVal(0)], 1))

-----------------------------------------------------------------------------
(* Execution.  `vals' holds the LLVM values computed so far; the value of  *)
(* one that was never computed on this path is poison.                     *)

ValueOf(x, vals) ==
    IF x[1] = "const" THEN x[2] ELSE IF x \in DOMAIN vals THEN vals[x] ELSE Poison

RECURSIVE Compute(_, _, _, _)
Compute(e, vars, vals, args) ==
    CASE e.k \in {"num", "bool"} -> e.n
      [] e.k = "var" -> ValueOf(vars[e.v], vals)
      [] e.k = "arg" -> args[e.n]
      [] e.k = "undef" -> 0
      [] e.k \in {"alloc", "length"} -> Compute(e.e, vars, vals, args)
      [] OTHER ->
            LET l == Compute(e.l, vars, vals, args)
                r == Compute(e.r, vars, vals, args)
            IN  IF l < 0 THEN l ELSE IF r < 0 THEN r
                ELSE IF e.k = "subscript" THEN (IF r < l THEN 0 ELSE OutOfBnds)
                ELSE Apply(e.k, l, r)

(* The instructions of a block from the i-th: where it goes and what it    *)
(* has computed, or the outcome.                                           *)
Goto(b, vals) == [next |-> b, vals |-> vals, out |-> 0]
Stop(out)     == [next |-> 0, vals |-> <<>>, out |-> out]

RECURSIVE RunFrom(_, _, _, _, _, _)
RunFrom(block, b, i, vars, vals, args) ==
    LET ins == block.instr[i]
        Next(new) == RunFrom(block, b, i + 1, AfterInstr(ins, vars, b, i), new, args)
    IN  IF i > Len(block.instr) THEN Stop(Poison)
        ELSE
        CASE ins.op = "Set" ->
                LET x == Compute(ins.expr, vars, vals, args)
                IN  IF x < 0 /\ x # Poison THEN Stop(x)
                    ELSE Next((InsVal(b, i) :> x) @@ vals)
          [] ins.op = "PushMemory" ->
                Next((InsVal(b, i) :> Compute(Var(ins.array), vars, vals, args) + 1)
                        @@ (ResVal(b, i) :> 0) @@ vals)
          [] ins.op = "PopMemory" ->
                LET n == Compute(Var(ins.array), vars, vals, args)
                IN  IF n < 0 THEN Stop(n) ELSE IF n = 0 THEN Stop(Panic)
                    ELSE Next((InsVal(b, i) :> n - 1) @@ (ResVal(b, i) :> 0) @@ vals)
          [] ins.op = "Branch" -> Goto(ins.block, vals)
          [] ins.op = "BranchCond" ->
                LET c == Compute(ins.cond, vars, vals, args)
                IN  IF c < 0 THEN Stop(c)
                    ELSE Goto(IF c = 1 THEN ins.true_block ELSE ins.false_block, vals)
          [] ins.op = "Return" -> Stop(Compute(ins.value, vars, vals, args))
          [] ins.op = "AssertFailure" -> Stop(Panic)

(* A whole block, then the phis of the block it goes to, all at once.      *)
RunBlock(g, entry, b, vals, args) ==
    LET r == RunFrom(g.blocks[b], b, 1, entry[b], vals, args)
        vars == VarsAtEnd(g.blocks[b], entry[b], b)
    IN  IF r.next = 0 THEN r
        ELSE [r EXCEPT !.vals =
                [x \in {PhiVal(r.next, v) : v \in g.blocks[r.next].phis} |->
                    ValueOf(vars[x[3]], r.vals)] @@ @]
=============================================================================
