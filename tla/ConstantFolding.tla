-------------------------- MODULE ConstantFolding --------------------------
(***************************************************************************)
(* The constant folding pass (src/src/codegen/constant_folding.rs).  A     *)
(* variable is replaced by the value of its definitions when they all      *)
(* fold, without looking at variables, to the same pure value; operators   *)
(* on two literals are computed, and a result that does not fit its type   *)
(* is an error of the compilation.                                         *)
(***************************************************************************)
EXTENDS ReachingDefs

Folded(e, pure, err) == [e |-> e, pure |-> pure, err |-> err]

Wrap(n) == n % (MaxUint + 1)

(* The value of an operator on two literals, and whether it overflows.     *)
BigInt(op, x, y) ==
    CASE op \in {"add", "wadd"} -> x + y
      [] op \in {"sub", "wsub"} -> x - y
      [] op = "mul" -> x * y

ArithOps == {"add", "sub", "mul", "wadd", "wsub"}

BigIntToExpression(op, n) ==
    Folded(Num(Wrap(n)), TRUE, op \in {"add", "sub", "mul"} /\ n \notin 0..MaxUint)

ConstantsEqual(l, r) == l.k = "num" /\ r.k = "num" /\ l.n = r.n

RECURSIVE Fold(_, _, _, _)

(* reference_variable: `use' says whether the definitions may be used.     *)
ReferenceVariable(e, defs, use, blocks) ==
    LET known == use /\ e.v \in DOMAIN defs
        Def(d) == blocks[d[1]].instr[d[2]]
        all   == {Fold(Def(d).expr, NoDefs, FALSE, blocks) :
                    d \in {d \in DOMAIN defs[e.v] : Def(d).op = "Set"}}
        some  == CHOOSE f \in all : TRUE
    IN  IF /\ known
           /\ DOMAIN defs[e.v] # {}
           /\ \A d \in DOMAIN defs[e.v] : Def(d).op = "Set"
           /\ \A f \in all : f.pure
           /\ \/ Cardinality(DOMAIN defs[e.v]) = 1
              \/ \A f, h \in all : ConstantsEqual(f.e, h.e)
        THEN Folded(some.e, TRUE, some.err)
        ELSE Folded(e, FALSE, FALSE)

Fold(e, defs, use, blocks) ==
    CASE e.k \in ArithOps ->
            LET l == Fold(e.l, defs, use, blocks)
                r == Fold(e.r, defs, use, blocks)
                f == BigIntToExpression(e.k, BigInt(e.k, l.e.n, r.e.n))
            IN  IF l.e.k = "num" /\ r.e.k = "num"
                THEN [f EXCEPT !.err = @ \/ l.err \/ r.err]
                ELSE Folded(Bin(e.k, l.e, r.e), l.pure /\ r.pure, l.err \/ r.err)
      [] e.k \in BinOps \ ArithOps \/ e.k = "subscript" ->
            LET l == Fold(e.l, defs, use, blocks)
                r == Fold(e.r, defs, use, blocks)
            IN  Folded(Bin(e.k, l.e, r.e), FALSE, l.err \/ r.err)
      [] e.k \in {"alloc", "length"} ->
            LET f == Fold(e.e, defs, use, blocks)
            IN  Folded([k |-> e.k, e |-> f.e], FALSE, f.err)
      [] e.k = "var" -> ReferenceVariable(e, defs, use, blocks)
      [] e.k \in {"num", "bool", "arg"} -> Folded(e, TRUE, FALSE)
      [] e.k = "undef" -> Folded(e, FALSE, FALSE)

(* One instruction.  A condition that is a Boolean literal becomes a jump; *)
(* a comparison is never one, so only the literal itself is.               *)
FoldInstr(ins, defs, blocks) ==
    LET Of(e) == Fold(e, defs, TRUE, blocks)
    IN  CASE ins.op = "Set" ->
                LET f == Of(ins.expr)
                IN  [ins |-> [ins EXCEPT !.expr = f.e], err |-> f.err]
          [] ins.op = "Return" ->
                LET f == Of(ins.value)
                IN  [ins |-> [ins EXCEPT !.value = f.e], err |-> f.err]
          [] ins.op = "BranchCond" ->
                LET f == Of(ins.cond)
                IN  [ins |-> IF f.e.k = "bool"
                             THEN Branch(IF f.e.n = 1 THEN ins.true_block ELSE ins.false_block)
                             ELSE [ins EXCEPT !.cond = f.e],
                     err |-> f.err]
          [] OTHER -> [ins |-> ins, err |-> FALSE]

(* The pass: instruction by instruction, each one seeing the earlier ones  *)
(* folded; the transfers stay those of the graph before the pass.          *)
RECURSIVE FoldFrom(_, _, _, _, _, _)
FoldFrom(old, new, defs, b, i, err) ==
    IF b > Len(old) THEN [blocks |-> new, err |-> err]
    ELSE IF i > Len(old[b].instr)
    THEN FoldFrom(old, new, IF b < Len(old) THEN [at |-> defs.start[b + 1], start |-> defs.start]
                            ELSE defs, b + 1, 1, err)
    ELSE LET On(f) ==
                FoldFrom(old, [new EXCEPT ![b].instr[i] = f.ins],
                         [defs EXCEPT !.at = Transfer(old[b].instr[i], @, <<b, i>>)],
                         b, i + 1, err \/ f.err)
         IN  Let(On, FoldInstr(new[b].instr[i], defs.at, new))

FoldConstants(blocks, defs) ==
    FoldFrom(blocks, blocks, [at |-> defs[1], start |-> defs], 1, 1, FALSE)
=============================================================================
