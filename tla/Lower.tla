-------------------------------- MODULE Lower -------------------------------
(* Code generation for typed expressions: codegen/expression.rs turns        *)
(* whatever has an effect, or is not always evaluated, into instructions and *)
(* leaves an expression without effects.  A variable number stands for the   *)
(* local variable, storage slot or memory cell of a source variable; the     *)
(* numbers from a given one on are free for temporaries.                     *)
EXTENDS Resolve

Instr(op, res, e, then, else) == [op |-> op, res |-> res, e |-> e, then |-> then, else |-> else]
Set(res, e) == Instr("set", res, e, <<>>, <<>>)
LoadStorage(res, slot) == Instr("loadstorage", res, slot, <<>>, <<>>)
SetStorage(slot, e) == Instr("setstorage", slot.v, e, <<>>, <<>>)
Store(cell, e) == Instr("store", cell.v, e, <<>>, <<>>)
BranchCond(cond, then, else) == Instr("branch", 0, cond, then, else)
AssertFailure == Instr("panic", 0, Err, <<>>, <<>>)

Lowered(code, e, next) == [code |-> code, e |-> e, next |-> next]
Local(ty, i) == Expr("var", ty, i, <<>>)

(* Operators whose signed and unsigned forms differ                          *)
SignedForm == [div |-> "sdiv", mod |-> "smod", shr |-> "sshr", less |-> "sless",
               lessequal |-> "slessequal", more |-> "smore", moreequal |-> "smoreequal"]
UnsignedForm == [div |-> "udiv", mod |-> "umod", shr |-> "ushr", less |-> "uless",
                 lessequal |-> "ulessequal", more |-> "umore", moreequal |-> "umoreequal"]
FormFor(op, ty) ==
    IF op \notin DOMAIN SignedForm THEN op ELSE IF is_signed_int(ty) THEN SignedForm[op] ELSE UnsignedForm[op]

load_storage(slot, ty, next) == Lowered(<<LoadStorage(next, slot)>>, Local(ty, next), next + 1)

(* The current value of an assignable expression                             *)
Loaded(var, next) ==
    CASE var.ty.at = "ref" -> Lowered(<<>>, Convert("load", deref_any(var.ty), var), next)
      [] var.ty.at = "storage" -> load_storage(var, deref_any(var.ty), next)
      [] OTHER -> Lowered(<<>>, var, next)
Written(var, e) ==
    CASE var.ty.at = "ref" -> Store(var, e)
      [] var.ty.at = "storage" -> SetStorage(var, e)
      [] OTHER -> Set(var.v, e)

(* With temporary next for the result                                        *)
OneMore(e, v) ==
    [Expr(IF e.op \in {"preinc", "postinc"} THEN "add" ELSE "sub", e.ty, 0, <<v, NumberLiteral(e.ty, 1)>>)
        EXCEPT !.unchecked = e.unchecked]
pre_incdec(e, v, next) ==
    Lowered(v.code \o <<Set(next, OneMore(e, v.e)), Written(e.args[1], Local(e.ty, next))>>,
            Local(e.ty, next), v.next)

(* The second temporary shadows the first where the variable is not local,   *)
(* in its own block: the value is the one from before.                       *)
post_incdec(e, v, next) ==
    Lowered(v.code \o <<Set(next, v.e)>>
                \o (IF e.args[1].ty.at = "value"
                    THEN <<Set(e.args[1].v, OneMore(e, Local(e.ty, next)))>>
                    ELSE <<Set(v.next, OneMore(e, Local(e.ty, next))), Written(e.args[1], Local(e.ty, v.next))>>),
            Local(e.ty, next), v.next + 1)

(* The temporary is one variable, set before the branch and in it.           *)
expr_or(l, r) ==
    Lowered(l.code \o <<Set(l.next, BoolLiteral(1)),
                        BranchCond(l.e, <<>>, r.code \o <<Set(l.next, r.e)>>)>>,
            Local(Bool, l.next), r.next)
expr_and(l, r) ==
    Lowered(l.code \o <<Set(l.next, BoolLiteral(0)),
                        BranchCond(l.e, r.code \o <<Set(l.next, r.e)>>, <<>>)>>,
            Local(Bool, l.next), r.next)
conditional_operator(ty, c, l, r) ==
    Lowered(c.code \o <<BranchCond(c.e, l.code \o <<Set(c.next, l.e)>>, r.code \o <<Set(c.next, r.e)>>)>>,
            Local(ty, c.next), r.next)

checking_trunc(from, to, pos, v) ==
    Lowered(v.code \o <<Set(pos, v.e),
                BranchCond(Expr("umoreequal", Bool, 0, <<Local(from, pos), NumberLiteral(from, 2^bits(to))>>),
                           <<AssertFailure>>, <<>>)>>,
            Trunc(to, Local(from, pos)), v.next)

(* An assignment in an expression.  Assignments to variables that nothing    *)
(* reads are left out by the code; the variables here are read.              *)
CodegenAssign(var, ty, r) ==
    IF var.ty.at = "value" THEN Lowered(Append(r.code, Set(var.v, r.e)), var, r.next)
    ELSE Lowered(r.code \o <<Set(r.next, r.e), Written(var, Local(ty, r.next))>>, Local(ty, r.next), r.next + 1)

AddOrSubtract(e, l, r) == Lowered(l.code \o r.code, [e EXCEPT !.args = <<l.e, r.e>>], r.next)
BinaryCode(e, l, r) ==
    Lowered(l.code \o r.code,
        [e EXCEPT !.op = FormFor(e.op, IF e.ty = Bool THEN deref_any(l.e.ty) ELSE e.ty), !.args = <<l.e, r.e>>], r.next)
UnaryCode(e, v) == Lowered(v.code, [e EXCEPT !.args = <<v.e>>], v.next)

(* expression(): whatever is constant becomes a literal first.               *)
RECURSIVE Generate(_, _)
Both(e, l) ==
    IF e.op \in {"add", "sub"} THEN AddOrSubtract(e, l, Generate(e.args[2], l.next))
    ELSE BinaryCode(e, l, Generate(e.args[2], l.next))
ShortCircuit(e, l) ==
    IF e.op = "orelse" THEN expr_or(l, Generate(e.args[2], l.next + 1)) ELSE expr_and(l, Generate(e.args[2], l.next + 1))
ChooseRight(e, c, l) == conditional_operator(e.ty, c, l, Generate(e.args[3], l.next))
ChooseLeft(e, c) == ChooseRight(e, c, Generate(e.args[2], c.next + 1))
AddressConstant(e) == e.op = "cast" /\ IsAddress(e.ty) /\ eval_const_number(e.args[1]).ok
GenerateTerm(e, next) ==
    CASE e.op \in {"number", "truth", "bytes", "var"} -> Lowered(<<>>, e, next)
      [] e.op = "storageload" -> load_storage(e.args[1], e.ty, next)
      [] AddressConstant(e) -> Lowered(<<>>, NumberLiteral(e.ty, eval_const_number(e.args[1]).v), next)
      [] e.op \in {"preinc", "predec"} -> pre_incdec(e, Loaded(e.args[1], next + 1), next)
      [] e.op \in {"postinc", "postdec"} -> post_incdec(e, Loaded(e.args[1], next + 1), next)
      [] e.op = "assign" -> CodegenAssign(e.args[1], e.ty, Generate(e.args[2], next))
      [] e.op = "checkingtrunc" -> checking_trunc(e.args[1].ty, e.ty, next, Generate(e.args[1], next + 1))
      [] e.op = "cond" -> ChooseLeft(e, Generate(e.args[1], next))
      [] e.op \in {"orelse", "andalso"} -> ShortCircuit(e, Generate(e.args[1], next))
      [] Len(e.args) = 2 /\ e.op \notin {"assign", "orelse", "andalso"} -> Both(e, Generate(e.args[1], next))
      [] e.op \in {"not", "bitnot", "negate", "zext", "sext", "trunc", "load"}
            \/ (e.op = "cast" /\ ~AddressConstant(e)) -> UnaryCode(e, Generate(e.args[1], next))
Generate(e, next) ==
    IF eval_constants_in_expression(e).ok
    THEN Lowered(<<>>, NumberLiteral(e.ty, eval_constants_in_expression(e).v), next)
    ELSE GenerateTerm(e, next)
=============================================================================
