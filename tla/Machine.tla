------------------------------- MODULE Machine ------------------------------
(* What the emitted code computes, on bit patterns: emit/expression.rs,      *)
(* emit/math.rs and the library's bigint.c.  LLVM's own operations (with     *)
(* overflow flags up to Limb bits for products, divisions up to Native bits) *)
(* are external.  A result is a pattern or a revert.                         *)
EXTENDS Fold

CONSTANTS
    Limb,     \* 32, the bits of a limb of a product; a limb times a limb has twice as many
    Native,   \* 64, the widest division the machine has
    Half      \* 128, the narrower of the two library divisions
ASSUME MachineAssumption == Limb \in Nat \ {0} /\ Native \in Nat \ {0} /\ Native <= Half /\ Half <= MaxBits

Ok(p) == [ok |-> TRUE, p |-> p]
Reverted == [ok |-> FALSE, p |-> 0]
IsNegative(p, width) == p >= 2^(width - 1)
Negated(p, width) == (2^width - p) % 2^width
Absolute(p, width) == IF IsNegative(p, width) THEN Negated(p, width) ELSE p
SignExtended(p, from, to) == IF IsNegative(p, from) THEN p + 2^to - 2^from ELSE p
NumberIn(p, width, signed) == IF signed /\ IsNegative(p, width) THEN p - 2^width ELSE p

-----------------------------------------------------------------------------
(* Products of more than one limb.  Column l adds the products of the limbs  *)
(* whose numbers add up to l; the accumulator has two limbs, and its         *)
(* overflow is kept for the next column.                                     *)
LimbOf(p, i) == (p \div 2^(Limb * i)) % 2^Limb
Limbs(p, len) == IF \A i \in 0..len - 1 : LimbOf(p, i) = 0 THEN 0
                 ELSE 1 + CHOOSE i \in 0..len - 1 : LimbOf(p, i) # 0 /\ \A j \in i + 1..len - 1 : LimbOf(p, j) = 0

MulState(val1, carry, out, overflow) == [val1 |-> val1, carry |-> carry, out |-> out, overflow |-> overflow]
AddProduct(st, m) ==
    [st EXCEPT !.val1 = (st.val1 + m) % 2^(2 * Limb),
               !.carry = IF st.val1 + m >= 2^(2 * Limb) THEN st.carry + 2^Limb ELSE st.carry]
RECURSIVE Column(_, _, _, _, _, _)
Column(st, left, right, i, r, right_start) ==
    IF r < right_start THEN st
    ELSE Column(AddProduct(st, LimbOf(left, i) * LimbOf(right, r)), left, right, i + 1, r - 1, right_start)

(* The first column that left_len or right_len ends                          *)
Started(l, len) == IF l < len THEN 0 ELSE l - len + 1
EndOfColumnMutant(st, l, len) ==
    IF l < len
    THEN MulState(st.val1 \div 2^Limb, 0, st.out + (st.val1 % 2^Limb) * 2^(Limb * l), FALSE)
    ELSE MulState(st.val1 \div 2^Limb, 0, st.out, st.overflow \/ st.val1 > 0)
EndOfColumn(st, l, len) ==
    IF l < len
    THEN MulState((st.val1 \div 2^Limb) + st.carry, 0, st.out + (st.val1 % 2^Limb) * 2^(Limb * l), FALSE)
    ELSE MulState((st.val1 \div 2^Limb) + st.carry, 0, st.out, st.overflow \/ st.val1 > 0)
RECURSIVE Columns(_, _, _, _, _, _)
OneColumn(st, left, right, l, left_len, right_len) ==
    Column(st, left, right, Started(l, right_len), Least(l + 1, right_len) - 1, Started(l, left_len))
Columns(st, left, right, l, len, last) ==
    IF l > last \/ st.overflow THEN st
    ELSE Columns(EndOfColumn(OneColumn(st, left, right, l, Limbs(left, len), Limbs(right, len)), l, len),
                 left, right, l + 1, len, last)
mul32(left, right, len) == Columns(MulState(0, 0, 0, FALSE), left, right, 0, len, len - 1)
mul32_with_builtin_ovf(left, right, len) == Columns(MulState(0, 0, 0, FALSE), left, right, 0, len, 2 * len - 1)

(* The product is one of the absolute values; its sign must be right.        *)
RoundedUp(width) == ((width + Limb - 1) \div Limb) * Limb
Excess(out, width) == out \div 2^width # 0
SignRightMutant(left, right, width, res) ==
    (IsNegative(left, width) # IsNegative(right, width)) = IsNegative(res, width)
SignRight(left, right, width, res) ==
    \/ left = 0 \/ right = 0
    \/ (IsNegative(left, width) # IsNegative(right, width)) = IsNegative(res, width)
NegatedIf(b, p, width) == IF b THEN Negated(p, width) ELSE p
SignedProduct(left, right, width, m) ==
    LET res == NegatedIf(IsNegative(left, width) # IsNegative(right, width), m.out % 2^width, width)
    IN  IF ~m.overflow /\ ~Excess(m.out, width) /\ SignRight(left, right, width, res) THEN Ok(res) ELSE Reverted
signed_ovf_detect(left, right, width) ==
    SignedProduct(left, right, width,
        mul32_with_builtin_ovf(Absolute(left, width), Absolute(right, width), RoundedUp(width) \div Limb))
UnsignedProduct(m, width) == IF m.overflow \/ Excess(m.out, width) THEN Reverted ELSE Ok(m.out)

(* build_binary_op_with_overflow_check: LLVM's operations that report it     *)
WithOverflowCheck(op, left, right, width, signed) ==
    LET v == Calculate(op, NumberIn(left, width, signed), NumberIn(right, width, signed))
    IN  IF NumberIn(v % 2^width, width, signed) = v THEN Ok(v % 2^width) ELSE Reverted
Overflowing(op, left, right, width) == Ok(Calculate(op, left, right) % 2^width)
AddSub(op, left, right, width, signed, unchecked) ==
    IF unchecked THEN Overflowing(op, left, right, width) ELSE WithOverflowCheck(op, left, right, width, signed)

EmitMultiply(left, right, width, signed, unchecked) ==
    CASE width <= Limb -> AddSub("mul", left, right, width, signed, unchecked)
      [] width > Limb /\ unchecked -> Ok(mul32(left, right, RoundedUp(width) \div Limb).out % 2^width)
      [] width > Limb /\ ~unchecked /\ signed -> signed_ovf_detect(left, right, width)
      [] width > Limb /\ ~unchecked /\ ~signed ->
            UnsignedProduct(mul32_with_builtin_ovf(left, right, RoundedUp(width) \div Limb), width)

(* Square and multiply: the base is squared only while bits are left.        *)
RECURSIVE PowerLoop(_, _, _, _, _, _)
PowerSquare(result, base, exp, width, signed, unchecked) ==
    CASE ~result.ok -> Reverted
      [] result.ok /\ exp = 0 -> result
      [] result.ok /\ exp # 0 ->
            PowerLoop(result, EmitMultiply(base, base, width, signed, unchecked), exp, width, signed, unchecked)
PowerLoop(result, base, exp, width, signed, unchecked) ==
    IF ~base.ok THEN Reverted
    ELSE PowerSquare(IF exp % 2 = 1 THEN EmitMultiply(result.p, base.p, width, signed, unchecked) ELSE result,
                     base.p, exp \div 2, width, signed, unchecked)
EmitPower(base, exp, width, signed, unchecked) == PowerLoop(Ok(1), Ok(base), exp, width, signed, unchecked)

-----------------------------------------------------------------------------
(* bigint.c: quotient and remainder.  The narrow one shifts the dividend in  *)
(* bit by bit, the wide one takes the shifted divisor away.                  *)
Divided(q, r) == [q |-> q, r |-> r]
HighestBit(p) == BitLength[p] - 1
ShiftIn(d, dividend, x) == ((d.r * 2) + ((dividend \div 2^(x - 1)) % 2)) % 2^Half
RECURSIVE DivideBits(_, _, _, _)
TakeAway(q, r, divisor) == IF r >= divisor THEN Divided(q + 1, r - divisor) ELSE Divided(q, r)
DivideBits(d, dividend, divisor, x) ==
    IF x = 0 THEN d
    ELSE DivideBits(TakeAway((d.q * 2) % 2^Half, ShiftIn(d, dividend, x), divisor), dividend, divisor, x - 1)

RECURSIVE DivideShifted(_, _, _, _)
DivideShifted(d, divisor, copyd, adder) ==
    IF d.r < divisor THEN d
    ELSE DivideShifted(IF d.r >= copyd THEN Divided(d.q + adder, d.r - copyd) ELSE d,
                       divisor, copyd \div 2, adder \div 2)
FromTop(dividend, divisor, copyd, adder) ==
    IF copyd > dividend THEN DivideShifted(Divided(0, dividend), divisor, copyd \div 2, adder \div 2)
    ELSE DivideShifted(Divided(0, dividend), divisor, copyd, adder)

(* The simple cases are the same in both; a zero divisor was ruled out.      *)
SimpleDivision(dividend, divisor) == divisor = 1 \/ divisor = dividend \/ dividend < divisor
Simply(dividend, divisor) ==
    CASE divisor = 1 -> Divided(dividend, 0)
      [] divisor # 1 /\ divisor = dividend -> Divided(1, 0)
      [] divisor # 1 /\ dividend < divisor -> Divided(0, dividend)
udivmod128(dividend, divisor) ==
    IF SimpleDivision(dividend, divisor) THEN Simply(dividend, divisor)
    ELSE DivideBits(Divided(0, 0), dividend, divisor, HighestBit(dividend) + 1)
udivmod256(dividend, divisor) ==
    IF SimpleDivision(dividend, divisor) THEN Simply(dividend, divisor)
    ELSE FromTop(dividend, divisor, (divisor * 2^(HighestBit(dividend) - HighestBit(divisor))) % 2^MaxBits,
                 2^(HighestBit(dividend) - HighestBit(divisor)))
udivmod(dividend, divisor, width) ==
    IF width = Half THEN udivmod128(dividend, divisor) ELSE udivmod256(dividend, divisor)

(* Divide the absolute values and put the signs back.                        *)
Resigned(d, dividend, divisor, width) ==
    Divided(NegatedIf(IsNegative(dividend, width) # IsNegative(divisor, width), d.q, width),
            NegatedIf(IsNegative(dividend, width), d.r, width))
sdivmod(dividend, divisor, width) ==
    Resigned(udivmod(Absolute(dividend, width), Absolute(divisor, width), width), dividend, divisor, width)

(* The machine's own division: it traps on zero, and where an integer fills  *)
(* a register on the one signed quotient that does not fit.                  *)
NativeUnsigned(left, right) == Divided(left \div right, left % right)
NativeSigned(left, right, width) ==
    Divided(Quotient(Signed(left, width), Signed(right, width)) % 2^width,
            Remainder(Signed(left, width), Signed(right, width)) % 2^width)
Traps(left, right, width) == width = Native /\ left = 2^(width - 1) /\ right = 2^width - 1

(* Without a signed division, on Solana, the same is done in line.           *)
SolanaSigned(left, right, width) ==
    Resigned(NativeUnsigned(Absolute(left, width), Absolute(right, width)), left, right, width)

DivisionWidth(width) == IF width <= Half THEN Half ELSE MaxBits
EmitUnsignedDivision(left, right, width) ==
    IF width <= Native THEN NativeUnsigned(left, right) ELSE udivmod(left, right, DivisionWidth(width))
WideSigned(left, right, width, wide) ==
    sdivmod(SignExtended(left, width, wide), SignExtended(right, width, wide), wide)
EmitSignedDivision(left, right, width, target) ==
    CASE width > Native -> WideSigned(left, right, width, DivisionWidth(width))
      [] width <= Native /\ target = "solana" -> SolanaSigned(left, right, width)
      [] width <= Native /\ target # "solana" -> NativeSigned(left, right, width)
UnsignedDivide(left, right, width) == Ok(EmitUnsignedDivision(left, right, width).q)
UnsignedModulo(left, right, width) == Ok(EmitUnsignedDivision(left, right, width).r)
SignedDivide(left, right, width, target) ==
    IF width <= Native /\ target # "solana" /\ Traps(left, right, width) THEN Reverted
    ELSE Ok(EmitSignedDivision(left, right, width, target).q % 2^width)
SignedModulo(left, right, width, target) == Ok(EmitSignedDivision(left, right, width, target).r % 2^width)
EmitDivision(op, left, right, width, target) ==
    CASE right = 0 -> Reverted
      [] right # 0 /\ op = "udiv" -> UnsignedDivide(left, right, width)
      [] right # 0 /\ op = "umod" -> UnsignedModulo(left, right, width)
      [] right # 0 /\ op = "sdiv" -> SignedDivide(left, right, width, target)
      [] right # 0 /\ op = "smod" -> SignedModulo(left, right, width, target)

-----------------------------------------------------------------------------
(* emit/expression.rs.  The amounts of shifts are less than the width here:  *)
(* others are undefined in LLVM.                                             *)
Truth01(b) == Ok(IF b THEN 1 ELSE 0)
EmitEqual(op, l, r) == (l = r) = (op = "equal")
EmitOrder(op, l, r, width) ==
    CASE op = "uless" -> l < r
      [] op = "ulessequal" -> l <= r
      [] op = "umore" -> l > r
      [] op = "umoreequal" -> l >= r
      [] op = "sless" -> Signed(l, width) < Signed(r, width)
      [] op = "slessequal" -> Signed(l, width) <= Signed(r, width)
      [] op = "smore" -> Signed(l, width) > Signed(r, width)
      [] op = "smoreequal" -> Signed(l, width) >= Signed(r, width)
EmitShift(op, l, by, width) ==
    CASE op = "shl" -> Ok((l * 2^by) % 2^width)
      [] op = "ushr" -> Ok(l \div 2^by)
      [] op = "sshr" -> Ok((Signed(l, width) \div 2^by) % 2^width)
EmitBits(op, l, r) == Ok(BitwiseOf(op, l, r))
EmitBinary(e, l, r, width, target) ==
    CASE e.op \in {"add", "sub"} -> AddSub(e.op, l, r, width, is_signed_int(e.ty), e.unchecked)
      [] e.op = "mul" -> EmitMultiply(l, r, width, is_signed_int(e.ty), e.unchecked)
      [] e.op = "power" -> EmitPower(l, r, width, is_signed_int(e.ty), e.unchecked)
      [] e.op \in {"udiv", "umod", "sdiv", "smod"} -> EmitDivision(e.op, l, r, width, target)
      [] e.op \in {"shl", "ushr", "sshr"} -> EmitShift(e.op, l, r, width)
      [] e.op \in {"and", "or", "xor"} -> EmitBits(e.op, l, r)
      [] e.op \in {"equal", "notequal"} -> Truth01(EmitEqual(e.op, l, r))
      [] e.ty = Bool /\ e.op \notin {"and", "or", "xor", "equal", "notequal"} -> Truth01(EmitOrder(e.op, l, r, width))
EmitNegate(e, p, width) ==
    IF e.unchecked THEN Ok(Negated(p, width)) ELSE WithOverflowCheck("sub", 0, p, width, TRUE)

(* An address is a number whose first byte is the highest: its bytes are     *)
(* turned round on the way to and from an integer.                           *)
runtime_cast(p) == Ok(p)
EmitNot(op, p, width) == IF op = "not" THEN Truth01(p = 0) ELSE Ok(2^width - 1 - p)
EmitUnary(e, p, from) ==
    CASE e.op \in {"zext", "load"} -> Ok(p)
      [] e.op = "sext" -> Ok(SignExtended(p, from, bits(e.ty)))
      [] e.op = "trunc" -> Ok(p % 2^bits(e.ty))
      [] e.op = "cast" -> runtime_cast(p)
      [] e.op \in {"not", "bitnot"} -> EmitNot(e.op, p, from)
      [] e.op = "negate" -> EmitNegate(e, p, from)
RECURSIVE Evaluate(_, _, _)
EvaluateBinary(e, l, r, target) ==
    IF l.ok /\ r.ok THEN EmitBinary(e, l.p, r.p, bits(e.args[1].ty), target) ELSE Reverted
EvaluateUnary(e, x) == IF x.ok THEN EmitUnary(e, x.p, bits(e.args[1].ty)) ELSE Reverted
Evaluate(e, vals, target) ==
    CASE e.op \in {"number", "bytes", "truth"} -> Ok(Pattern(e.v, bits(e.ty)))
      [] e.op = "var" -> Ok(vals[e.v])
      [] e.op = "arg" -> Ok(vals[-e.v])
      [] Len(e.args) = 1 -> EvaluateUnary(e, Evaluate(e.args[1], vals, target))
      [] Len(e.args) = 2 -> EvaluateBinary(e, Evaluate(e.args[1], vals, target), Evaluate(e.args[2], vals, target), target)

(* emit_cfg runs the instructions in order.  The arguments of the function   *)
(* have negative numbers.                                                    *)
Running(ok, vals) == [ok |-> ok, vals |-> vals]
Assigned(vals, i, x) ==
    IF ~x.ok THEN Running(FALSE, vals)
    ELSE Running(TRUE, [j \in DOMAIN vals \cup {i} |-> IF j = i THEN x.p ELSE vals[j]])
RECURSIVE Execute(_, _, _, _)
Chosen(i, x, vals, target) ==
    IF ~x.ok THEN Running(FALSE, vals) ELSE Execute(IF x.p = 1 THEN i.then ELSE i.else, 1, vals, target)
Step(i, vals, target) ==
    CASE i.op \in {"set", "store", "setstorage", "loadstorage"} -> Assigned(vals, i.res, Evaluate(i.e, vals, target))
      [] i.op = "branch" -> Chosen(i, Evaluate(i.e, vals, target), vals, target)
      [] i.op = "panic" -> Running(FALSE, vals)
Continue(s, code, n, target) == IF s.ok THEN Execute(code, n + 1, s.vals, target) ELSE s
Execute(code, n, vals, target) ==
    IF n > Len(code) THEN Running(TRUE, vals) ELSE Continue(Step(code[n], vals, target), code, n, target)
=============================================================================
