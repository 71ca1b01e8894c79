------------------------------- MODULE Types --------------------------------
(* The types of values and the conversions between them: sema/types.rs,      *)
(* sema/expression/mod.rs (cast, cast_types) and integers.rs.  A byte has    *)
(* Byte bits here and the widest integer, the code's 256, MaxBits.           *)
EXTENDS Integers, Bitwise, Sequences, FiniteSets

CONSTANTS
    Byte,             \* 8
    MaxBits,          \* 256
    AddressLength,    \* bytes of an address
    ValueLength,      \* bytes of a balance
    EnumSize,         \* values of the enum
    LargestBits       \* no number of a run has more bits

ASSUME WidthsAssumption ==
    /\ Byte \in Nat \ {0} /\ MaxBits % Byte = 0
    /\ AddressLength \in 1..MaxBits \div Byte /\ ValueLength \in 1..MaxBits \div Byte
    /\ EnumSize \in 1..2^Byte

(* Whole numbers of any size, as num_bigint has them, and their bits.        *)
Magnitude(v) == IF v < 0 THEN -v ELSE v
BitLength[m \in Nat] == IF m = 0 THEN 0 ELSE 1 + BitLength[m \div 2]
BigBits(v) == BitLength[Magnitude(v)]

(* Division that rounds towards zero, as Rust's and LLVM's                   *)
Quotient(a, b) ==
    IF (a < 0) = (b < 0) THEN Magnitude(a) \div Magnitude(b) ELSE -(Magnitude(a) \div Magnitude(b))
Remainder(a, b) == a - b * Quotient(a, b)

(* Two's complement with width bits                                          *)
Pattern(v, width) == v % 2^width
Signed(p, width) == IF p >= 2^(width - 1) THEN p - 2^width ELSE p

BitwiseOf(op, p, q) ==
    CASE op = "and" -> p & q
      [] op = "or" -> p | q
      [] op = "xor" -> p ^^ q
Bitwise(op, a, b) ==
    Signed(BitwiseOf(op, Pattern(a, LargestBits), Pattern(b, LargestBits)), LargestBits)

Calculate(op, a, b) ==
    CASE op = "add" -> a + b
      [] op = "sub" -> a - b
      [] op = "mul" -> a * b
      [] op = "div" -> Quotient(a, b)
      [] op = "mod" -> Remainder(a, b)
      [] op = "power" -> IF b = 0 THEN 1 ELSE a^b
      [] op = "shl" -> a * 2^b
      [] op = "shr" -> a \div 2^b
      [] OTHER -> Bitwise(op, a, b)

(* A type is its kind, its bits (bytes for "bytes") and where the value is:  *)
(* a value, behind a pointer (Type::Ref) or in storage (Type::StorageRef).   *)
Ty(k, n) == [k |-> k, n |-> n, at |-> "value"]
Uint(n) == Ty("uint", n)
Sint(n) == Ty("int", n)
Bytes(n) == Ty("bytes", n)
Bool == Ty("bool", 1)
Address(payable) == Ty(IF payable THEN "payable" ELSE "address", 0)
Value == Ty("value", 0)
Enum == Ty("enum", 0)
Ref(t) == [t EXCEPT !.at = "ref"]
StorageRef(t) == [t EXCEPT !.at = "storage"]
deref_any(t) == [t EXCEPT !.at = "value"]

Sizes == {Byte * i : i \in 1..MaxBits \div Byte}
IsAddress(t) == t.k \in {"address", "payable"}
is_signed_int(t) == t.k = "int"
is_integer(t) == t.k \in {"uint", "int", "value"} \/ (t.k = "bytes" /\ t.n = 1)
is_primitive(t) == t.k \in {"bool", "address", "payable", "int", "uint", "bytes", "value"}

bytes(t) ==
    CASE IsAddress(t) -> AddressLength
      [] t.k \in {"bool", "enum"} -> 1
      [] t.k = "value" -> ValueLength
      [] t.k = "bytes" -> t.n
      [] OTHER -> (t.n + Byte - 1) \div Byte
bits(t) == IF t.k = "bool" THEN 1 ELSE bytes(t) * Byte

(* The number that the bits of a value of type t stand for, and back.        *)
NumberOf(t, p) == IF is_signed_int(t) /\ p >= 2^(bits(t) - 1) THEN p - 2^bits(t) ELSE p
InRange(t, v) ==
    IF is_signed_int(t) THEN -(2^(bits(t) - 1)) <= v /\ v < 2^(bits(t) - 1) ELSE 0 <= v /\ v < 2^bits(t)

-----------------------------------------------------------------------------
(* Typed expressions, ast::Expression: an operator, its type, a number (the  *)
(* value of a literal, the number of a variable) and the operands.           *)
Expr(op, ty, v, args) == [op |-> op, ty |-> ty, v |-> v, args |-> args, unchecked |-> FALSE]
Err == Expr("error", Bool, 0, <<>>)
IsErr(e) == e.op = "error"
NumberLiteral(ty, v) == Expr("number", ty, v, <<>>)
BoolLiteral(b) == Expr("truth", Bool, b, <<>>)      \* 0 or 1
BytesLiteral(n, v) == Expr("bytes", Bytes(n), v, <<>>)
Convert(op, to, e) == Expr(op, to, 0, <<e>>)
ZeroExt(to, e) == Convert("zext", to, e)
SignExt(to, e) == Convert("sext", to, e)
Trunc(to, e) == Convert("trunc", to, e)
AsType(to, e) == Convert("cast", to, e)

(* By the order of two widths                                                *)
Resized(from, to, narrower, wider, same) ==
    IF from > to THEN narrower ELSE IF from < to THEN wider ELSE same

(* cast: literals, whose sign can change if the value fits                   *)
LiteralToUint(e, to, implicit) ==
    IF e.v < 0
    THEN IF implicit THEN Err ELSE NumberLiteral(to, e.v % 2^to.n)
    ELSE IF BigBits(e.v) >= to.n THEN Err ELSE NumberLiteral(to, e.v)
LiteralToInt(e, to) ==
    IF BigBits(e.v) >= to.n THEN Err ELSE NumberLiteral(to, e.v)
LiteralToBytes(e, to) ==
    IF e.v < 0 \/ (e.v > 0 /\ bytes(e.ty) # to.n) THEN Err ELSE NumberLiteral(to, e.v)
LiteralToAddress(e, to, implicit) ==
    IF implicit \/ BigBits(e.v) > AddressLength * Byte THEN Err ELSE NumberLiteral(to, e.v)

(* A string literal is cut, or lengthened with zeros at its end.             *)
StringToBytes(e, to, implicit) ==
    IF e.ty.n > to.n
    THEN IF implicit THEN Err ELSE BytesLiteral(to.n, e.v \div 2^(Byte * (e.ty.n - to.n)))
    ELSE BytesLiteral(to.n, e.v * 2^(Byte * (to.n - e.ty.n)))

(* eval_const_number: the number a constant expression stands for.           *)
NotConstant == [ok |-> FALSE, v |-> 0]
Constant(v) == [ok |-> TRUE, v |-> v]
ConstBinary(op, l, r) ==
    IF ~l.ok \/ ~r.ok \/ (op \in {"div", "mod"} /\ r.v = 0) \/ (op \in {"power", "shl", "shr"} /\ r.v < 0)
    THEN NotConstant ELSE Constant(Calculate(op, l.v, r.v))
ConstUnary(op, e) ==
    IF ~e.ok THEN NotConstant ELSE
    CASE op = "bitnot" -> Constant(-e.v - 1)
      [] op = "negate" -> Constant(-e.v)
      [] OTHER -> e
RECURSIVE eval_const_number(_)
eval_const_number(e) ==
    CASE e.op = "number" -> Constant(e.v)
      [] e.op \in {"add", "sub", "mul", "div", "mod", "and", "or", "xor", "power", "shl", "shr"} ->
            ConstBinary(e.op, eval_const_number(e.args[1]), eval_const_number(e.args[2]))
      [] e.op \in {"zext", "sext", "cast", "bitnot", "negate"} -> ConstUnary(e.op, eval_const_number(e.args[1]))
      [] OTHER -> NotConstant

-----------------------------------------------------------------------------
(* cast_types, by the kinds of the two types                                 *)
IntToEnum(e, to, width, implicit) ==
    IF implicit THEN Err
    ELSE IF eval_const_number(e).ok /\ eval_const_number(e).v \in 0..EnumSize - 1
    THEN NumberLiteral(to, eval_const_number(e).v)
    ELSE Resized(width, bits(to), Trunc(to, e), ZeroExt(to, e), AsType(to, e))
EnumToInt(e, to, implicit) ==
    IF implicit THEN Err
    ELSE Resized(bits(Enum), to.n, Trunc(to, e), ZeroExt(to, e), AsType(to, e))
UintToUint(e, from, to, implicit) ==
    Resized(from.n, to.n, IF implicit THEN Err ELSE Trunc(to, e), ZeroExt(to, e), AsType(to, e))
IntToInt(e, from, to, implicit) ==
    Resized(from.n, to.n, IF implicit THEN Err ELSE Trunc(to, e), SignExt(to, e), AsType(to, e))
IntToUint(e, from, to, implicit) ==
    IF implicit THEN Err
    ELSE Resized(from.n, to.n, Trunc(to, e), SignExt(to, e), AsType(to, e))
UintToInt(e, from, to, implicit) ==
    IF implicit /\ to.n <= from.n THEN Err
    ELSE Resized(from.n, to.n, Trunc(to, e), ZeroExt(to, e), AsType(to, e))
ValueToUint(e, to, implicit) ==
    Resized(bits(Value), to.n, IF implicit THEN Err ELSE Trunc(to, e), SignExt(to, e), AsType(to, e))
ValueToInt(e, to, implicit) ==
    IF implicit THEN Err
    ELSE Resized(bits(Value), to.n, Trunc(to, e), ZeroExt(to, e), AsType(to, e))
UintToValue(e, from, to) ==
    Resized(from.n, bits(Value), Convert("checkingtrunc", to, e), SignExt(to, e), AsType(to, e))

(* By way of an integer as wide as an address                                *)
AddressInt(signed) == Ty(IF signed THEN "int" ELSE "uint", AddressLength * Byte)
IntToAddress(e, from, to, implicit) ==
    LET whole == AddressInt(is_signed_int(from))
    IN  IF implicit THEN Err
        ELSE AsType(to, Resized(from.n, whole.n, Trunc(whole, e),
                 IF is_signed_int(from) THEN ZeroExt(whole, e) ELSE SignExt(whole, e), e))
AddressToInt(e, to, implicit) ==
    LET whole == AddressInt(is_signed_int(to))
        int == AsType(whole, e)
    IN  IF implicit THEN Err
        ELSE Resized(whole.n, to.n, Trunc(to, int),
                 IF is_signed_int(to) THEN ZeroExt(to, int) ELSE SignExt(to, int), int)

(* Bytes stay at the front.                                                  *)
Shift(op, ty, e, by) == Expr(op, ty, 0, <<e, NumberLiteral(Uint(bits(ty)), by)>>)
BytesToBytes(e, from, to, implicit) ==
    IF to.n > from.n THEN Shift("shl", to, ZeroExt(to, e), (to.n - from.n) * Byte)
    ELSE IF implicit THEN Err
    ELSE Trunc(to, Shift("shr", from, e, (from.n - to.n) * Byte))

SameSize(e, from, to, implicit) ==
    IF implicit \/ bits(from) # bits(to) THEN Err ELSE AsType(to, e)
AddressToAddress(e, to, implicit) ==
    IF implicit /\ to = Address(TRUE) THEN Err ELSE AsType(to, e)

cast_types(e, from, to, implicit) ==
    IF {from, to} = {Bytes(1), Uint(Byte)} THEN e ELSE
    CASE from = Bytes(1) /\ to.k = "enum" /\ ~implicit -> IntToEnum(e, to, Byte, FALSE)
      [] from.k \in {"uint", "int"} /\ to.k = "enum" -> IntToEnum(e, to, from.n, implicit)
      [] from.k = "enum" /\ to.k \in {"uint", "int"} -> EnumToInt(e, to, implicit)
      [] from.k = "uint" /\ to.k = "uint" -> UintToUint(e, from, to, implicit)
      [] from.k = "int" /\ to.k = "int" -> IntToInt(e, from, to, implicit)
      [] from.k = "int" /\ to.k = "uint" -> IntToUint(e, from, to, implicit)
      [] from.k = "uint" /\ to.k = "int" -> UintToInt(e, from, to, implicit)
      [] from.k = "value" /\ to.k = "uint" -> ValueToUint(e, to, implicit)
      [] from.k = "value" /\ to.k = "int" -> ValueToInt(e, to, implicit)
      [] from.k = "uint" /\ to.k = "value" -> UintToValue(e, from, to)
      [] from.k \in {"uint", "int"} /\ IsAddress(to) -> IntToAddress(e, from, to, implicit)
      [] IsAddress(from) /\ to.k \in {"uint", "int"} -> AddressToInt(e, to, implicit)
      [] from.k = "bytes" /\ to.k = "bytes" -> BytesToBytes(e, from, to, implicit)
      [] from.k = "bytes" /\ to.k \in {"uint", "int"} -> SameSize(e, from, to, implicit)
      [] from.k \in {"uint", "int"} /\ to.k = "bytes" -> SameSize(e, from, to, implicit)
      [] from.k = "bytes" /\ IsAddress(to) -> SameSize(e, from, to, implicit)
      [] IsAddress(from) /\ to.k = "bytes" -> SameSize(e, from, to, implicit)
      [] IsAddress(from) /\ IsAddress(to) -> AddressToAddress(e, to, implicit)
      [] OTHER -> Err

(* Expression::cast, after the value is loaded                               *)
CastValue(e, to, implicit) ==
    IF IsErr(e) \/ e.ty = to THEN e ELSE
    CASE e.op = "number" /\ to.k = "uint" /\ is_primitive(e.ty) -> LiteralToUint(e, to, implicit)
      [] e.op = "number" /\ to.k = "int" /\ is_primitive(e.ty) -> LiteralToInt(e, to)
      [] e.op = "number" /\ to.k = "bytes" /\ is_primitive(e.ty) -> LiteralToBytes(e, to)
      [] e.op = "number" /\ IsAddress(to) /\ is_primitive(e.ty) -> LiteralToAddress(e, to, implicit)
      [] e.op = "bytes" /\ to.k = "bytes" -> StringToBytes(e, to, implicit)
      [] OTHER -> cast_types(e, e.ty, to, implicit)
cast(e, to, implicit) ==
    IF e.ty = to THEN e ELSE
    CASE e.ty.at = "ref" -> CastValue(Convert("load", deref_any(e.ty), e), to, implicit)
      [] e.ty.at = "storage" -> CastValue(Convert("storageload", deref_any(e.ty), e), to, implicit)
      [] OTHER -> CastValue(e, to, implicit)

-----------------------------------------------------------------------------
(* integers.rs.  A type that is not allowed is NoType.                       *)
NoType == Ty("none", 0)

HasBits(t, allow_bytes) == t.k \in {"uint", "int", "value"} \/ (allow_bytes /\ t.k = "bytes")
type_bits_and_sign(t) == <<bits(t), is_signed_int(t)>>

Least(a, b) == IF a < b THEN a ELSE b
Most(a, b) == IF a > b THEN a ELSE b

(* uint8 fits into int16                                                     *)
CommonInt(l, r) ==
    CASE is_signed_int(l) /\ is_signed_int(r) -> Sint(Most(bits(l), bits(r)))
      [] ~is_signed_int(l) /\ ~is_signed_int(r) -> Uint(Most(bits(l), bits(r)))
      [] is_signed_int(l) /\ ~is_signed_int(r) -> Sint(Least(Most(bits(l), bits(r) + Byte), MaxBits))
      [] OTHER -> Sint(Least(Most(bits(l) + Byte, bits(r)), MaxBits))

coerce_number(lref, rref, allow_bytes, for_compare) ==
    LET l == deref_any(lref)
        r == deref_any(rref)
    IN  CASE l = r /\ IsAddress(l) /\ for_compare -> l
          [] l.k = "bytes" /\ r.k = "bytes" /\ allow_bytes -> Bytes(Most(l.n, r.n))
          [] l.k = "bytes" /\ r.k # "bytes" /\ allow_bytes -> l
          [] r.k = "bytes" /\ l.k # "bytes" /\ allow_bytes -> r
          [] l.k = "bool" /\ r.k \in {"int", "uint"} -> r
          [] r.k = "bool" /\ l.k \in {"int", "uint"} -> l
          [] OTHER -> IF HasBits(l, FALSE) /\ HasBits(r, FALSE) THEN CommonInt(l, r) ELSE NoType

coerce(lref, rref) ==
    LET l == deref_any(lref)
        r == deref_any(rref)
    IN  CASE l = r -> l
          [] {l, r} = {Address(FALSE), Address(TRUE)} -> Address(FALSE)
          [] OTHER -> coerce_number(l, r, TRUE, FALSE)

(* The literal of a number: of the type that is looked for, or else of the   *)
(* smallest type.                                                            *)
AnyType == Ty("any", 0)      \* ResolveTo::Unknown
AnyInteger == Ty("integer", 0)      \* ResolveTo::Integer
IntSize(n) == IF n < Byte - 1 THEN Byte ELSE ((n + Byte - 1) \div Byte) * Byte
SmallestLiteral(v, n) ==
    IF v < 0
    THEN IF n > MaxBits - 1 THEN Err ELSE NumberLiteral(Sint(IntSize(n)), v)
    ELSE IF n > MaxBits THEN Err ELSE NumberLiteral(Uint(IntSize(n)), v)
bigint_to_expression(v, resolve_to) ==
    IF resolve_to \notin {AnyType, AnyInteger}
    THEN IF is_integer(resolve_to) \/ (resolve_to.k = "bytes" /\ v = 0) THEN NumberLiteral(resolve_to, v) ELSE Err
    ELSE SmallestLiteral(v, BigBits(IF v < 0 THEN v + 1 ELSE v))
=============================================================================
