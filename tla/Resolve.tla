------------------------------ MODULE Resolve -------------------------------
(* Semantic analysis of expressions: resolve_expression.rs, arithmetic.rs,   *)
(* assign.rs and eval.rs give every operator one type and convert its        *)
(* operands to it.  resolve_to is the type that is looked for, AnyType or    *)
(* AnyInteger; a context has the types of the variables and whether the code *)
(* is unchecked.                                                             *)
EXTENDS Types

(* Source expressions, pt::Expression                                        *)
Source(k, v, ty, args) == [k |-> k, v |-> v, ty |-> ty, args |-> args]
Num(v) == Source("num", v, NoType, <<>>)
Str(n, v) == Source("str", v, Bytes(n), <<>>)
Truth(b) == Source("truth", b, NoType, <<>>)
Var(i) == Source("var", i, NoType, <<>>)
Un(k, e) == Source(k, 0, NoType, <<e>>)
Bin(k, l, r) == Source(k, 0, NoType, <<l, r>>)
Cond(c, l, r) == Source("cond", 0, NoType, <<c, l, r>>)
CastTo(ty, e) == Source("call", 0, ty, <<e>>)
Assign(i, e) == Source("assign", i, NoType, <<e>>)
AssignOp(k, i, e) == Source("assignop", i, NoType, <<Bin(k, Var(i), e)>>)
IncDec(k, i) == Source(k, i, NoType, <<>>)

-----------------------------------------------------------------------------
(* eval.rs: the literals of an expression are folded to find the operations  *)
(* whose result has no place in its type.                                    *)
SignedBytes(v) == (BitLength[IF v < 0 THEN -v - 1 ELSE v] \div Byte) + 1
overflow_diagnostic(v, ty) ==
    \/ ty.k = "uint" /\ (v < 0 \/ BigBits(v) > ty.n)
    \/ ty.k = "int" /\ SignedBytes(v) * Byte > ty.n

FoldedOps == {"add", "sub", "mul", "div", "mod", "power", "shl", "shr", "and", "or", "xor"}
MathError == [ok |-> FALSE, v |-> 1]
ConstantSum(op, l, r) ==
    IF MathError \in {l, r} THEN MathError
    ELSE IF ~l.ok \/ ~r.ok THEN NotConstant
    ELSE Constant(Calculate(op, l.v, r.v))
ConstantQuotient(op, l, r) == IF l.ok /\ r.ok /\ r.v = 0 THEN MathError ELSE ConstantSum(op, l, r)
ConstantShift(op, l, r) == IF l.ok /\ r.ok /\ r.v < 0 THEN MathError ELSE ConstantSum(op, l, r)
ConstantBits(op, l, r) == ConstantSum(op, l, r)
FoldConstants(op, l, r) ==
    CASE op \in {"add", "sub", "mul"} -> ConstantSum(op, l, r)
      [] op \in {"div", "mod"} -> ConstantQuotient(op, l, r)
      [] op \in {"power", "shl", "shr"} -> ConstantShift(op, l, r)
      [] op \in {"and", "or", "xor"} -> ConstantBits(op, l, r)
RECURSIVE eval_constants_in_expression(_)
eval_constants_in_expression(e) ==
    CASE e.op \in FoldedOps ->
            FoldConstants(e.op, eval_constants_in_expression(e.args[1]), eval_constants_in_expression(e.args[2]))
      [] e.op \in {"zext", "sext"} -> eval_constants_in_expression(e.args[1])
      [] e.op = "number" -> Constant(e.v)
      [] OTHER -> NotConstant

check_term_for_constant_overflow(e, c) == c = MathError \/ (c.ok /\ overflow_diagnostic(c.v, e.ty))
RECURSIVE check_constant_overflow(_)
check_constant_overflow(e) ==
    IF e.op \in FoldedOps \cup {"number"} /\ eval_constants_in_expression(e) # NotConstant
    THEN check_term_for_constant_overflow(e, eval_constants_in_expression(e))
    ELSE \E i \in DOMAIN e.args : check_constant_overflow(e.args[i])

-----------------------------------------------------------------------------
(* arithmetic.rs, on operands that are resolved                              *)
Operation(op, ty, l, r, unchecked) ==
    IF IsErr(l) \/ IsErr(r) THEN Err ELSE [Expr(op, ty, 0, <<l, r>>) EXCEPT !.unchecked = unchecked]
Arithmetic(op, l, r, ty, unchecked) ==
    IF ty = NoType THEN Err ELSE Operation(op, ty, cast(l, ty, TRUE), cast(r, ty, TRUE), unchecked)
NumberType(l, r) == coerce_number(l.ty, r.ty, FALSE, FALSE)
BitsType(l, r) == coerce_number(l.ty, r.ty, TRUE, FALSE)

subtract(l, r, cx) == Arithmetic("sub", l, r, NumberType(l, r), cx.unchecked)
addition(l, r, cx) ==
    IF l.ty.k = "bytes" /\ r.ty.k = "bytes" THEN Err ELSE Arithmetic("add", l, r, NumberType(l, r), cx.unchecked)
divide(l, r) == Arithmetic("div", l, r, NumberType(l, r), FALSE)
modulo(l, r) == Arithmetic("mod", l, r, NumberType(l, r), FALSE)
bitwise_or(l, r) == Arithmetic("or", l, r, BitsType(l, r), FALSE)
bitwise_and(l, r) == Arithmetic("and", l, r, BitsType(l, r), FALSE)
bitwise_xor(l, r) == Arithmetic("xor", l, r, BitsType(l, r), FALSE)

(* The amount of a shift is made as wide as the left operand.                *)
cast_shift_arg(e, width, ty) ==
    CASE width = bits(ty) -> e
      [] width < bits(ty) /\ is_signed_int(ty) -> SignExt(ty, e)
      [] width < bits(ty) /\ ~is_signed_int(ty) -> ZeroExt(ty, e)
      [] OTHER -> Trunc(ty, e)
Shifted(op, l, r, ty) ==
    Operation(op, ty, cast(l, ty, TRUE),
              cast_shift_arg(cast(r, deref_any(r.ty), TRUE), bits(deref_any(r.ty)), ty), FALSE)
shift_left(l, r) ==
    IF ~HasBits(l.ty, TRUE) \/ ~HasBits(r.ty, FALSE) THEN Err ELSE Shifted("shl", l, r, deref_any(l.ty))
shift_right(l, r) ==
    IF ~HasBits(l.ty, TRUE) \/ ~HasBits(r.ty, FALSE) THEN Err ELSE Shifted("shr", l, r, deref_any(l.ty))

(* If the type of the result is not known, make any possible result fit.     *)
TwiceAsWide(ty) == Ty(IF is_signed_int(ty) THEN "int" ELSE "uint", Least(MaxBits, bits(ty) * 2))
multiply(l, r, cx) == Arithmetic("mul", l, r, NumberType(l, r), cx.unchecked)
Widest(ty) == Ty(IF is_signed_int(ty) THEN "int" ELSE "uint", MaxBits)
power(base, exp, cx) ==
    IF is_signed_int(base.ty) \/ is_signed_int(exp.ty) THEN Err
    ELSE Arithmetic("power", base, exp, NumberType(base, exp), cx.unchecked)

Comparison(op, l, r, ty) ==
    IF ty = NoType THEN Err ELSE Operation(op, Bool, cast(l, ty, TRUE), cast(r, ty, TRUE), FALSE)
CompareType(l, r) == coerce_number(l.ty, r.ty, TRUE, TRUE)
equal(l, r, ty) == Comparison("equal", l, r, ty)
not_equal(l, r, ty) == Comparison("notequal", l, r, ty)
less(l, r, ty) == Comparison("less", l, r, ty)
less_equal(l, r, ty) == Comparison("lessequal", l, r, ty)
more(l, r, ty) == Comparison("more", l, r, ty)
more_equal(l, r, ty) == Comparison("moreequal", l, r, ty)
CompareBy(k, l, r, ty) ==
    CASE k = "equal" -> equal(l, r, ty)
      [] k = "notequal" -> not_equal(l, r, ty)
      [] k = "less" -> less(l, r, ty)
      [] k = "lessequal" -> less_equal(l, r, ty)
      [] k = "more" -> more(l, r, ty)
      [] k = "moreequal" -> more_equal(l, r, ty)
EqualOps == {"equal", "notequal"}
OrderOps == {"less", "lessequal", "more", "moreequal"}

(* The amount of `x <<= e` is extended by its own sign.                      *)
ShiftAmount(e, ty) ==
    LET left == type_bits_and_sign(ty)
        right == type_bits_and_sign(e.ty)
        shorter == right[1] < left[1] \/ (right[1] = left[1] /\ ~right[2] /\ left[2])
    IN  CASE left = right -> e
          [] shorter /\ is_signed_int(e.ty) -> SignExt(ty, e)
          [] shorter /\ ~is_signed_int(e.ty) -> ZeroExt(ty, e)
          [] OTHER -> Trunc(ty, e)
assign_operation(op, var, e, ty, cx) ==
    IF op \in {"shl", "shr"}
    THEN IF ~HasBits(e.ty, FALSE) THEN Err ELSE Operation(op, ty, var, ShiftAmount(e, ty), FALSE)
    ELSE Operation(op, ty, var, cast(e, ty, TRUE), cx.unchecked /\ op \in {"add", "sub", "mul"})

(* Assignments and increments keep the variable as the first operand.        *)
Stored(op, var, ty, e) == IF IsErr(e) THEN Err ELSE Expr(op, ty, var.v, <<var, e>>)
incr_decr(k, var, cx) ==
    IF var.ty.k \notin {"int", "uint"} THEN Err
    ELSE [Expr(k, deref_any(var.ty), var.v, <<var>>) EXCEPT !.unchecked = cx.unchecked]
assign_single(var, e) ==
    IF IsErr(e) \/ check_constant_overflow(e) THEN Err
    ELSE Stored("assign", var, deref_any(var.ty), cast(e, deref_any(var.ty), TRUE))
Refused(e) == IF check_constant_overflow(e) THEN Err ELSE e
assign_expr(op, var, e, cx) ==
    IF IsErr(e) \/ var.ty.k \notin {"bytes", "int", "uint"} THEN Err
    ELSE Refused(Stored("assign", var, deref_any(var.ty),
             assign_operation(op, cast(var, deref_any(var.ty), TRUE), e, deref_any(var.ty), cx)))

bitwise_not(e) == IF ~HasBits(e.ty, TRUE) THEN Err ELSE Convert("bitnot", e.ty, e)
negate(e, resolve_to, cx) ==
    IF e.op = "number" THEN bigint_to_expression(-e.v, resolve_to)
    ELSE IF ~HasBits(e.ty, FALSE) \/ ~is_signed_int(e.ty) THEN Err
    ELSE [Convert("negate", e.ty, e) EXCEPT !.unchecked = cx.unchecked]
NotOf(e) == IF IsErr(cast(e, Bool, TRUE)) THEN Err ELSE Convert("not", Bool, cast(e, Bool, TRUE))
Connective(op, l, r) == Operation(op, Bool, cast(l, Bool, TRUE), cast(r, Bool, TRUE), FALSE)
ConditionalOperator(c, l, r, ty) ==
    IF ty = NoType \/ \E e \in {cast(c, Bool, TRUE), cast(l, ty, TRUE), cast(r, ty, TRUE)} : IsErr(e) THEN Err
    ELSE Expr("cond", ty, 0, <<cast(c, Bool, TRUE), cast(l, ty, TRUE), cast(r, ty, TRUE)>>)

-----------------------------------------------------------------------------
BinaryOps == {"add", "sub", "mul", "div", "mod", "power", "and", "or", "xor", "shl", "shr"}
Binary(k, l, r, cx) ==
    IF IsErr(l) \/ IsErr(r) THEN Err ELSE
    CASE k = "add" -> addition(l, r, cx)
      [] k = "sub" -> subtract(l, r, cx)
      [] k = "mul" -> multiply(l, r, cx)
      [] k = "div" -> divide(l, r)
      [] k = "mod" -> modulo(l, r)
      [] k = "power" -> power(l, r, cx)
      [] k = "or" -> bitwise_or(l, r)
      [] k = "and" -> bitwise_and(l, r)
      [] k = "xor" -> bitwise_xor(l, r)
      [] k = "shl" -> shift_left(l, r)
      [] k = "shr" -> shift_right(l, r)
Unary(k, e, resolve_to, cx) ==
    IF IsErr(e) THEN Err ELSE
    CASE k = "bitnot" -> bitwise_not(e)
      [] k = "negate" -> negate(e, resolve_to, cx)
      [] k = "not" -> NotOf(e)
variable(i, cx) == Expr("var", cx.types[i], i, <<>>)

(* expression.  The operands of a product of unknown type are resolved again *)
(* with twice the bits, the operands of a comparison with their common type. *)
RECURSIVE expression(_, _, _)
Operands(e, resolve_to, cx) == <<expression(e.args[1], resolve_to, cx), expression(e.args[2], resolve_to, cx)>>
Product(e, lr, resolve_to, cx) ==
    IF IsErr(lr[1]) \/ IsErr(lr[2]) \/ NumberType(lr[1], lr[2]) = NoType THEN Err
    ELSE IF resolve_to # AnyType THEN multiply(lr[1], lr[2], cx)
    ELSE expression(e, TwiceAsWide(NumberType(lr[1], lr[2])), cx)
PowerOf(base, e, resolve_to, cx) ==
    Binary("power", IF resolve_to = AnyType THEN expression(e.args[1], Widest(base.ty), cx) ELSE base,
           expression(e.args[2], resolve_to, cx), cx)
Compared(e, lr, cx) ==
    IF IsErr(lr[1]) \/ IsErr(lr[2]) THEN Err
    ELSE LET ty == IF e.k \in EqualOps THEN coerce(lr[1].ty, lr[2].ty) ELSE CompareType(lr[1], lr[2])
         IN  IF ty = NoType THEN Err
             ELSE CompareBy(e.k, expression(e.args[1], ty, cx), expression(e.args[2], ty, cx), ty)
Choice(l, r, c) ==
    IF \E e \in {l, r, c} : IsErr(e) THEN Err ELSE ConditionalOperator(c, l, r, coerce(l.ty, r.ty))
call_expr(e, to) == IF IsErr(e) THEN Err ELSE cast(e, to, FALSE)

expression(e, resolve_to, cx) ==
    CASE e.k = "num" -> bigint_to_expression(e.v, resolve_to)
      [] e.k = "str" -> BytesLiteral(e.ty.n, e.v)
      [] e.k = "truth" -> BoolLiteral(e.v)
      [] e.k = "var" -> variable(e.v, cx)
      [] e.k = "mul" -> Product(e, Operands(e, resolve_to, cx), resolve_to, cx)
      [] e.k = "power" -> PowerOf(expression(e.args[1], resolve_to, cx), e, resolve_to, cx)
      [] e.k \in {"shl", "shr"} ->
            Binary(e.k, expression(e.args[1], resolve_to, cx), expression(e.args[2], AnyType, cx), cx)
      [] e.k \in BinaryOps \ {"mul", "power", "shl", "shr"} ->
            Binary(e.k, expression(e.args[1], resolve_to, cx), expression(e.args[2], resolve_to, cx), cx)
      [] e.k \in EqualOps \cup OrderOps -> Compared(e, Operands(e, AnyInteger, cx), cx)
      [] e.k \in {"andalso", "orelse"} -> Connective(e.k, expression(e.args[1], Bool, cx), expression(e.args[2], Bool, cx))
      [] e.k \in {"bitnot", "negate", "not"} ->
            IF e.k = "negate" /\ e.args[1].k = "num" THEN bigint_to_expression(-e.args[1].v, resolve_to)
            ELSE Unary(e.k, expression(e.args[1], resolve_to, cx), resolve_to, cx)
      [] e.k = "cond" -> Choice(expression(e.args[2], resolve_to, cx), expression(e.args[3], resolve_to, cx),
                                expression(e.args[1], resolve_to, cx))
      [] e.k = "call" -> call_expr(expression(e.args[1], AnyType, cx), e.ty)
      [] e.k = "assign" -> assign_single(variable(e.v, cx), expression(e.args[1], deref_any(cx.types[e.v]), cx))
      [] e.k = "assignop" ->
            assign_expr(e.args[1].k, variable(e.v, cx),
                expression(e.args[1].args[2],
                           IF e.args[1].k \in {"shl", "shr"} THEN AnyType ELSE deref_any(cx.types[e.v]), cx), cx)
      [] e.k \in {"preinc", "predec", "postinc", "postdec"} -> incr_decr(e.k, variable(e.v, cx), cx)

(* `T v = e;`, statements.rs                                                 *)
Declared(e, ty) == IF IsErr(e) \/ check_constant_overflow(e) THEN Err ELSE cast(e, ty, TRUE)
Declaration(e, ty, cx) == Declared(expression(e, ty, cx), ty)
=============================================================================
