-------------------------------- MODULE Fold --------------------------------
(* Constant folding of generated code: codegen/constant_folding.rs.  What is *)
(* folded is the expression, whether it is pure, and whether an error was    *)
(* reported.  The definitions of a variable that reach an instruction are a  *)
(* set of [at |-> where, e |-> expression, set |-> it is a Set].             *)
EXTENDS Lower

Folded(e, pure, bad) == [e |-> e, pure |-> pure, bad |-> bad]

(* The number is cut to the type, with an error unless that is wanted.       *)
Wrapped(v, ty) == IF is_signed_int(ty) THEN Signed(v % 2^ty.n, ty.n) ELSE v % 2^ty.n
folded_number(ty, v, overflowing) ==
    Folded(NumberLiteral(ty, Wrapped(v, ty)), TRUE, ~overflowing /\ overflow_diagnostic(v, ty))

Unfolded(e, l, r) ==
    Folded([e EXCEPT !.args = <<l.e, r.e>>], l.pure /\ r.pure, l.bad \/ r.bad)
Numbers(l, r) == l.e.op = "number" /\ r.e.op = "number"
Impure(f) == [f EXCEPT !.pure = FALSE]
Reported(f) == [f EXCEPT !.bad = TRUE]
WithErrors(f, l, r) == [f EXCEPT !.bad = f.bad \/ l.bad \/ r.bad]

FoldArithmetic(e, l, r, overflowing) ==
    IF Numbers(l, r)
    THEN WithErrors(folded_number(e.ty, Calculate(e.op, l.e.v, r.e.v), overflowing), l, r)
    ELSE Unfolded(e, l, r)
FoldBits(e, l, r) == FoldArithmetic(e, l, r, TRUE)
FoldShift(e, l, r) ==
    IF ~Numbers(l, r) THEN Unfolded(e, l, r)
    ELSE IF r.e.v < 0 \/ r.e.v >= bits(e.args[1].ty) THEN Reported(Unfolded(e, l, r))
    ELSE WithErrors(folded_number(e.ty, Calculate(IF e.op = "shl" THEN "shl" ELSE "shr", l.e.v, r.e.v), TRUE), l, r)
FoldPower(e, l, r) ==
    IF Numbers(l, r) /\ r.e.v < 0 THEN Reported(Unfolded(e, l, r)) ELSE FoldArithmetic(e, l, r, e.unchecked)
FoldDivision(e, l, r) ==
    IF r.e.op = "number" /\ r.e.v = 0 THEN Reported(Unfolded(e, l, r))
    ELSE IF Numbers(l, r)
    THEN WithErrors(folded_number(e.ty,
             Calculate(IF e.op \in {"sdiv", "udiv"} THEN "div" ELSE "mod", l.e.v, r.e.v), FALSE), l, r)
    ELSE Unfolded(e, l, r)

(* Equal strings of bytes are the one comparison that is folded.             *)
FoldEqual(e, l, r) ==
    IF l.e.op = "bytes" /\ r.e.op = "bytes"
    THEN Folded(BoolLiteral(IF (l.e.v = r.e.v) = (e.op = "equal") THEN 1 ELSE 0), TRUE, l.bad \/ r.bad)
    ELSE Impure(Unfolded(e, l, r))

FoldOrder(e, l, r) == Impure(Unfolded(e, l, r))

FoldBinary(e, l, r) ==
    CASE e.op \in {"add", "sub", "mul"} -> FoldArithmetic(e, l, r, e.unchecked)
      [] e.op \in {"and", "or", "xor"} -> FoldBits(e, l, r)
      [] e.op \in {"shl", "sshr", "ushr"} -> FoldShift(e, l, r)
      [] e.op = "power" -> FoldPower(e, l, r)
      [] e.op \in {"sdiv", "udiv", "smod", "umod"} -> FoldDivision(e, l, r)
      [] e.op \in {"equal", "notequal"} -> FoldEqual(e, l, r)
      [] e.op \in {"sless", "uless", "slessequal", "ulessequal", "smore", "umore", "smoreequal", "umoreequal"} -> FoldOrder(e, l, r)

(* An extended literal keeps its value.                                      *)
FoldExtended(e, x) == Folded(NumberLiteral(e.ty, x.e.v), TRUE, x.bad)
FoldTrunc(e, x) == WithErrors(folded_number(e.ty, x.e.v, TRUE), x, x)
FoldBitNot(e, x) == WithErrors(folded_number(e.ty, -x.e.v - 1, TRUE), x, x)
FoldNegate(e, x) == WithErrors(folded_number(e.ty, -x.e.v, e.unchecked), x, x)
FoldNot(e, x) == Folded([e EXCEPT !.args = <<x.e>>], x.pure, x.bad)
FoldLoad(e, x) == Impure(Folded([e EXCEPT !.args = <<x.e>>], x.pure, x.bad))
FoldUnary(e, x) ==
    CASE e.op \in {"cast", "load"} -> FoldLoad(e, x)
      [] e.op = "not" \/ (x.e.op # "number" /\ e.op \notin {"cast", "load"}) -> FoldNot(e, x)
      [] x.e.op = "number" /\ e.op \in {"zext", "sext"} -> FoldExtended(e, x)
      [] x.e.op = "number" /\ e.op = "trunc" -> FoldTrunc(e, x)
      [] x.e.op = "number" /\ e.op = "bitnot" -> FoldBitNot(e, x)
      [] x.e.op = "number" /\ e.op = "negate" -> FoldNegate(e, x)

constants_equal(l, r) ==
    (l.op = "number" /\ r.op = "number" /\ l.v = r.v) \/ (l.op = "bytes" /\ r.op = "bytes" /\ l.v = r.v)

(* Every definition that reaches must be pure, and all of them equal.        *)
NoDefs == {}
RECURSIVE FoldExpression(_, _)
FoldedDefs(defs) == {[at |-> d.at, f |-> FoldExpression(d.e, <<>>)] : d \in defs}
AllEqualMutant(ds) == \A d \in ds : d.f.pure
AllEqual(ds) ==
    /\ \A d \in ds : d.f.pure
    /\ \A d, c \in ds : d.at # c.at => constants_equal(d.f.e, c.f.e)
Propagated(e, ds) == IF AllEqual(ds) THEN (CHOOSE d \in ds : TRUE).f ELSE Folded(e, FALSE, FALSE)
reference_variable(e, vars) ==
    IF e.ty.at = "value" /\ e.v \in DOMAIN vars /\ vars[e.v] # NoDefs /\ \A d \in vars[e.v] : d.set
    THEN Propagated(e, FoldedDefs(vars[e.v]))
    ELSE Folded(e, FALSE, FALSE)
FoldExpression(e, vars) ==
    CASE e.op \in {"number", "truth", "bytes", "arg"} -> Folded(e, TRUE, FALSE)
      [] e.op = "var" -> reference_variable(e, vars)
      [] Len(e.args) = 2 -> FoldBinary(e, FoldExpression(e.args[1], vars), FoldExpression(e.args[2], vars))
      [] Len(e.args) = 1 -> FoldUnary(e, FoldExpression(e.args[1], vars))

-----------------------------------------------------------------------------
(* constant_folding: one instruction after the other, with the definitions   *)
(* that reach it.  A branch on a literal leaves one side.  The code folds    *)
(* block after block, which is the order of the text as long as no branch is *)
(* inside a branch.                                                          *)
Defined(vars, i, at, e, set) ==
    [j \in DOMAIN vars \cup {i} |-> IF j = i THEN {[at |-> at, e |-> e, set |-> set]} ELSE vars[j]]
Merged(a, b) ==
    [j \in DOMAIN a \cup DOMAIN b |-> (IF j \in DOMAIN a THEN a[j] ELSE {}) \cup (IF j \in DOMAIN b THEN b[j] ELSE {})]
Pass(code, vars, bad) == [code |-> code, vars |-> vars, bad |-> bad]

FoldSet(at, i, f, vars) == Pass(<<[i EXCEPT !.e = f.e]>>, Defined(vars, i.res, at, f.e, TRUE), f.bad)
RECURSIVE FoldCode(_, _, _, _)
FoldBranch(at, i, f, vars) ==
    LET then == FoldCode(i.then, Append(at, 1), 1, vars)
        else == FoldCode(i.else, Append(at, 2), 1, vars)
    IN  Pass(IF f.e.op = "truth" THEN (IF f.e.v = 1 THEN then.code ELSE else.code)
             ELSE <<[i EXCEPT !.e = f.e, !.then = then.code, !.else = else.code]>>,
             Merged(then.vars, else.vars), f.bad \/ then.bad \/ else.bad)
FoldInstruction(at, i, vars) ==
    CASE i.op = "set" -> FoldSet(at, i, FoldExpression(i.e, vars), vars)
      [] i.op = "branch" -> FoldBranch(at, i, FoldExpression(i.e, vars), vars)
      [] i.op = "loadstorage" -> Pass(<<i>>, Defined(vars, i.res, at, i.e, FALSE), FALSE)
      [] i.op \in {"store", "setstorage"} ->
            Pass(<<[i EXCEPT !.e = FoldExpression(i.e, vars).e]>>, vars, FoldExpression(i.e, vars).bad)
      [] i.op = "panic" -> Pass(<<i>>, vars, FALSE)
Then(p, q) == Pass(p.code \o q.code, q.vars, p.bad \/ q.bad)
FoldRest(p, code, at, n) == Then(p, FoldCode(code, at, n + 1, p.vars))
FoldCode(code, at, n, vars) ==
    IF n > Len(code) THEN Pass(<<>>, vars, FALSE)
    ELSE FoldRest(FoldInstruction(Append(at, n), code[n], vars), code, at, n)
=============================================================================
