-------------------------------- MODULE Cfg --------------------------------
(***************************************************************************)
(* The intermediate representation of the compiler (src/src/codegen/cfg.rs *)
(* and vartable.rs): expressions, instructions, basic blocks with phis,    *)
(* the table of dirty trackers, and the assertions every pass relies on.   *)
(*                                                                         *)
(* Blocks are numbered from 1 (the source starts at 0).  A variable is a   *)
(* number; the temporaries of a function follow its declared variables.    *)
(* Values are integers: an unsigned word of 0..MaxUint, a Boolean as 0 or  *)
(* 1, an array as its length (the elements are not modelled and read as    *)
(* zero).  A negative value is the outcome of an expression that does not  *)
(* produce one.                                                            *)
(***************************************************************************)
EXTENDS Integers, SequencesExt

CONSTANT MaxUint    \* the largest value of the unsigned type

ASSUME MaxUintAssumption == MaxUint \in Nat \ {0}

\* The outcomes that are not values: a panic the program raises, a value LLVM
\* does not define, a memory access outside an array.
Panic     == -1
Poison    == -2
OutOfBnds == -3

-----------------------------------------------------------------------------
(* Expressions shared by the source language and the representation.       *)

Num(n)       == [k |-> "num", n |-> n]
Bool(n)      == [k |-> "bool", n |-> n]
Var(v)       == [k |-> "var", v |-> v]
Bin(op, l, r) == [k |-> op, l |-> l, r |-> r]

Add(l, r)      == Bin("add", l, r)
Sub(l, r)      == Bin("sub", l, r)
Mul(l, r)      == Bin("mul", l, r)
Less(l, r)     == Bin("less", l, r)
MoreEqual(l, r) == Bin("moreEqual", l, r)
Equal(l, r)    == Bin("equal", l, r)

BinOps == {"add", "sub", "mul", "less", "moreEqual", "equal", "wadd", "wsub"}

(* Expressions of the representation only.                                 *)
FunctionArg(i) == [k |-> "arg", n |-> i]
Undefined      == [k |-> "undef"]
Alloc(e)       == [k |-> "alloc", e |-> e]
Subscript(a, i) == [k |-> "subscript", l |-> a, r |-> i]
ArrayLength(a) == [k |-> "length", e |-> a]

(* Instructions.                                                           *)
Set(v, e)            == [op |-> "Set", res |-> v, expr |-> e]
Branch(b)            == [op |-> "Branch", block |-> b]
BranchCond(c, t, f)  == [op |-> "BranchCond", cond |-> c, true_block |-> t,
                         false_block |-> f]
Return(e)            == [op |-> "Return", value |-> e]
AssertFailure        == [op |-> "AssertFailure"]
PushMemory(res, a)   == [op |-> "PushMemory", res |-> res, array |-> a]
PopMemory(res, a)    == [op |-> "PopMemory", res |-> res, array |-> a]


(* Operands in the order the passes visit them.                            *)
Operands(e) ==
    IF e.k \in BinOps \cup {"subscript"} THEN <<e.l, e.r>>
    ELSE IF e.k \in {"alloc", "length"} THEN <<e.e>>
    ELSE <<>>

(* The expressions of an instruction.                                      *)
ExprsOf(ins) ==
    CASE ins.op = "Set"        -> {ins.expr}
      [] ins.op = "BranchCond" -> {ins.cond}
      [] ins.op = "Return"     -> {ins.value}
      [] OTHER                 -> {}

-----------------------------------------------------------------------------
(* The graph under construction.  `dirty' is the stack of dirty trackers,  *)
(* `loops' the stack of loop scopes, `lens' the temporary that holds the   *)
(* length of an array variable (array_lengths_temps).                      *)

EmptyBlock == [instr |-> <<>>, phis |-> {}]

NewCfg(next) ==
    [blocks |-> <<EmptyBlock>>, current |-> 1, next_id |-> next,
     dirty |-> <<>>, loops |-> <<>>, lens |-> <<>>]

NewBasicBlocks(g, n) ==
    [g EXCEPT !.blocks = @ \o [i \in 1..n |-> EmptyBlock]]

SetBasicBlock(g, b) == [g EXCEPT !.current = b]

SetDirty(g, v) ==
    [g EXCEPT !.dirty =
        [i \in DOMAIN @ |-> IF v < @[i].lim THEN [@[i] EXCEPT !.set = @ \cup {v}]
                                            ELSE @[i]]]

AddInstr(g, ins) ==
    LET h == IF ins.op = "Set" THEN SetDirty(g, ins.res) ELSE g
    IN  [h EXCEPT !.blocks[g.current].instr = Append(@, ins)]

NewDirtyTracker(g) ==
    [g EXCEPT !.dirty = Append(@, [lim |-> g.next_id, set |-> {}])]

TopDirty(g) == g.dirty[Len(g.dirty)].set

PopDirtyTracker(g) == [g EXCEPT !.dirty = SubSeq(@, 1, Len(@) - 1)]

(* Mutant: the block where branches meet gets no phis.                     *)
SetPhis_None(g, b, vs) == g

(* An empty set leaves the phis of the block as they are.                  *)
SetPhis(g, b, vs) ==
    IF vs = {} THEN g ELSE [g EXCEPT !.blocks[b].phis = vs]

SetPhisAll(g, bs, vs) ==
    [g EXCEPT !.blocks =
        [b \in DOMAIN @ |-> IF b \in bs /\ vs # {} THEN [@[b] EXCEPT !.phis = vs]
                                                   ELSE @[b]]]

(* A new temporary: its number is g.next_id.                               *)
Temp(g) == [g EXCEPT !.next_id = @ + 1]

EnterScope(g, brk, cont) ==
    [g EXCEPT !.loops = Append(@, [break_bb |-> brk, continue_bb |-> cont])]

LeaveScope(g) == [g EXCEPT !.loops = SubSeq(@, 1, Len(@) - 1)]

TopLoop(g) == g.loops[Len(g.loops)]

(* After a push or a pop the length temporary of the array, if it has one, *)
(* is adjusted by a wrapping add or subtract.                              *)
ModifyTempArrayLength(g, minus, a) ==
    IF a \notin DOMAIN g.lens THEN g
    ELSE LET t == g.lens[a]
         IN  AddInstr(g, Set(t, Bin(IF minus THEN "wsub" ELSE "wadd", Var(t), Num(1))))

-----------------------------------------------------------------------------
(* The blocks a block can continue with.                                   *)

Successors(block) ==
    IF block.instr = <<>> THEN <<>>
    ELSE LET t == Last(block.instr)
         IN  CASE t.op = "Branch"     -> <<t.block>>
               [] t.op = "BranchCond" -> <<t.true_block, t.false_block>>
               [] OTHER               -> <<>>

=============================================================================
