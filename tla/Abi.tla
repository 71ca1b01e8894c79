-------------------------------- MODULE Abi --------------------------------
(***************************************************************************)
(* What the code emitted for abi.encode and abi.decode does to a buffer:   *)
(* codegen/encoding/mod.rs with the Borsh scheme (Solana) and the SCALE    *)
(* scheme (Polkadot), and the BufferValidator that merges bounds checks.   *)
(*                                                                         *)
(* A byte is a digit 0 .. Base-1.  All widths are those of the code in     *)
(* bytes, so a u32 is a number below Base^4: with a small Base the limits  *)
(* of the arithmetic and of the three compact length formats are reached   *)
(* by short buffers.  A value is a sequence of digits (integers little     *)
(* endian), or a sequence of values for a struct, an array (outer          *)
(* dimension first) or an external function (selector, address).           *)
(*                                                                         *)
(* The validator is state of the compiler: a check is emitted once for the *)
(* code of a loop body, whatever the number of iterations.                 *)
(***************************************************************************)
EXTENDS Integers, Sequences, SequencesExt, FiniteSetsExt

CONSTANTS
  Base,           \* number of values of a byte
  AddressLength   \* ns.address_length

ASSUME AbiAssumption ==
  /\ Base \in {4, 8, 16, 256}      \* a compact length keeps its mode in two bits
  /\ AddressLength \in Nat \ {0}

Targets == {"solana", "polkadot"}
U32     == Base * Base * Base * Base
Undef   == -1     \* a byte that nothing has been written to
None    == -1
Dynamic == 0      \* ArrayLength::Dynamic

\* Types.  Sizes are in bytes; dims[1] is the inner dimension.
Uint(w)          == [k |-> "int", w |-> w, signed |-> FALSE]
Sint(w)          == [k |-> "int", w |-> w, signed |-> TRUE]
BytesN(n)        == [k |-> "bytes", n |-> n]
Address          == [k |-> "address"]
Enum             == [k |-> "enum"]
String           == [k |-> "string"]     \* and DynamicBytes
Struct(fields)   == [k |-> "struct", fields |-> fields]
Array(elem, dims) == [k |-> "array", elem |-> elem, dims |-> dims]
ExternalFunction == [k |-> "extfn"]

SelectorLength(t) == IF t = "solana" THEN 8 ELSE 4
PtrSize(t)        == IF t = "solana" THEN 8 ELSE 4
NextPow2(n)       == Min({p \in {1, 2, 4, 8, 16, 32} : p >= n})
SumOf(s)          == LET sum[i \in 0 .. Len(s)] == IF i = 0 THEN 0 ELSE sum[i - 1] + s[i]
                     IN  sum[Len(s)]
ProductOf(s)      == LET prod[i \in 0 .. Len(s)] == IF i = 0 THEN 1 ELSE prod[i - 1] * s[i]
                     IN  prod[Len(s)]
Outer(dims)       == dims[Len(dims)]
-----------------------------------------------------------------------------
(* What the compiler knows of a type: sema/types.rs and the helpers at the *)
(* end of encoding/mod.rs.                                                 *)

IsPrimitive(ty) == ty.k \in {"int", "bytes", "address"}

RECURSIVE IsDynamic(_)
IsDynamic(ty) ==
  CASE ty.k = "string" -> TRUE
    [] ty.k = "array"  -> (\E i \in DOMAIN ty.dims : ty.dims[i] = Dynamic) \/ IsDynamic(ty.elem)
    [] ty.k = "struct" -> \E i \in DOMAIN ty.fields : IsDynamic(ty.fields[i])
    [] OTHER -> FALSE

RECURSIVE MemorySizeOf(_, _)
MemorySizeOf(t, ty) ==
  CASE ty.k = "int"     -> ty.w
    [] ty.k = "bytes"   -> ty.n
    [] ty.k = "address" -> AddressLength
    [] ty.k = "enum"    -> 1
    [] ty.k = "string"  -> PtrSize(t)
    [] ty.k = "extfn"   -> AddressLength + 4
    [] ty.k = "struct"  -> SumOf([i \in DOMAIN ty.fields |-> MemorySizeOf(t, ty.fields[i])])
    [] ty.k = "array"   ->
         IF ty.dims[1] = Dynamic THEN PtrSize(t)
         ELSE MemorySizeOf(t, ty.elem)
              * ProductOf([i \in DOMAIN ty.dims |->
                             IF ty.dims[i] = Dynamic THEN PtrSize(t) ELSE ty.dims[i]])

RECURSIVE StructElemAlignment(_, _)
StructElemAlignment(t, ty) ==
  CASE ty.k \in {"address", "enum", "extfn"} -> 1
    [] ty.k = "int"    -> ty.w
    [] ty.k = "bytes"  -> NextPow2(ty.n)
    [] ty.k = "string" -> PtrSize(t)
    [] ty.k = "struct" -> Max({StructElemAlignment(t, ty.fields[i]) : i \in DOMAIN ty.fields})
    [] ty.k = "array"  ->
         IF \E i \in DOMAIN ty.dims : ty.dims[i] = Dynamic THEN PtrSize(t)
         ELSE StructElemAlignment(t, ty.elem)

AlignUp(n, a) == ((n + a - 1) \div a) * a

\* calculate_struct_non_padded_size: None when a field has no fixed encoding
RECURSIVE NonPaddedSize(_, _)
NonPaddedSize(t, fields) ==
  LET sizes == [i \in DOMAIN fields |->
                  IF IsPrimitive(fields[i]) THEN MemorySizeOf(t, fields[i])
                  ELSE IF fields[i].k = "struct" THEN NonPaddedSize(t, fields[i].fields)
                  ELSE None]
  IN  IF \E i \in DOMAIN sizes : sizes[i] = None THEN None ELSE SumOf(sizes)

StructPaddedSize(t, fields) ==
  FoldLeft(LAMBDA total, f : AlignUp(total, StructElemAlignment(t, f)) + MemorySizeOf(t, f),
           0, fields)

RECURSIVE AllowMemcpy(_, _)

\* Mutant: the padding at the end of a struct is not considered.
AllowMemcpy_EndPadding(t, ty) ==
  CASE ty.k = "struct" ->
         /\ NonPaddedSize(t, ty.fields) # None
         /\ NonPaddedSize(t, ty.fields) = StructPaddedSize(t, ty.fields)
         /\ \A i \in DOMAIN ty.fields : AllowMemcpy(t, ty.fields[i])
    [] ty.k = "bytes" -> ty.n < 2
    [] ty.k = "array" -> (IsDynamic(ty) => Len(ty.dims) = 1) /\ AllowMemcpy(t, ty.elem)
    [] OTHER -> IsPrimitive(ty)

AllowMemcpy(t, ty) ==
  CASE ty.k = "struct" ->
         /\ NonPaddedSize(t, ty.fields) # None
         /\ NonPaddedSize(t, ty.fields) = StructPaddedSize(t, ty.fields)
         /\ StructPaddedSize(t, ty.fields) % StructElemAlignment(t, ty) = 0
         /\ \A i \in DOMAIN ty.fields : AllowMemcpy(t, ty.fields[i])
    [] ty.k = "bytes" -> ty.n < 2
    [] ty.k = "array" -> (IsDynamic(ty) => Len(ty.dims) = 1) /\ AllowMemcpy(t, ty.elem)
    [] OTHER -> IsPrimitive(ty)
-----------------------------------------------------------------------------
(* The layout that LLVM gives a value in memory, which is what a MemCopy   *)
(* copies: an integer takes the next power of two of its bytes and aligns  *)
(* with it, bytesN is an integer, a struct is padded to its alignment.     *)

RECURSIVE AlignOf(_)
AlignOf(ty) ==
  CASE ty.k = "int"    -> NextPow2(ty.w)
    [] ty.k = "bytes"  -> NextPow2(ty.n)
    [] ty.k = "struct" -> Max({AlignOf(ty.fields[i]) : i \in DOMAIN ty.fields})
    [] ty.k = "array"  -> AlignOf(ty.elem)
    [] OTHER -> 1

RECURSIVE AllocSize(_)
AllocSize(ty) ==
  CASE ty.k = "struct" ->
         AlignUp(FoldLeft(LAMBDA o, f : AlignUp(o, AlignOf(f)) + AllocSize(f), 0, ty.fields),
                 AlignOf(ty))
    [] ty.k = "array"   -> ProductOf(ty.dims) * AllocSize(ty.elem)
    [] ty.k = "address" -> AddressLength
    [] OTHER -> AlignOf(ty)

FieldOffset(ty, i) ==
  AlignUp(FoldLeft(LAMBDA o, f : AlignUp(o, AlignOf(f)) + AllocSize(f), 0,
                   SubSeq(ty.fields, 1, i - 1)), AlignOf(ty.fields[i]))

PadTo(s, n) == s \o [i \in 1 .. n - Len(s) |-> Undef]

\* an array without its outer dimension
ElemOf(ty) == IF Len(ty.dims) = 1 THEN ty.elem
              ELSE Array(ty.elem, SubSeq(ty.dims, 1, Len(ty.dims) - 1))

RECURSIVE Image(_, _)
Image(ty, v) ==
  CASE ty.k = "bytes" -> PadTo(Reverse(v), AllocSize(ty))
    [] ty.k = "array" -> FlattenSeq([i \in DOMAIN v |-> Image(ElemOf(ty), v[i])])
    [] ty.k = "struct" ->
         PadTo(FoldLeft(LAMBDA s, i : PadTo(s, FieldOffset(ty, i)) \o Image(ty.fields[i], v[i]),
                        <<>>, [i \in DOMAIN v |-> i]), AllocSize(ty))
    [] OTHER -> PadTo(v, AllocSize(ty))

RECURSIVE FromImage(_, _, _)
FromImage(ty, count, img) ==
  LET part(from, elem) == SubSeq(img, from + 1, from + AllocSize(elem))
      length(elem) == IF elem.k = "array" THEN Outer(elem.dims) ELSE 0
  IN CASE ty.k = "bytes"  -> Reverse(SubSeq(img, 1, ty.n))
       [] ty.k = "int"    -> SubSeq(img, 1, ty.w)
       [] ty.k = "array"  ->
            [i \in 1 .. count |-> FromImage(ElemOf(ty), length(ElemOf(ty)),
                                            part((i - 1) * AllocSize(ElemOf(ty)), ElemOf(ty)))]
       [] ty.k = "struct" ->
            [i \in DOMAIN ty.fields |-> FromImage(ty.fields[i], length(ty.fields[i]),
                                                  part(FieldOffset(ty, i), ty.fields[i]))]
       [] OTHER -> img
-----------------------------------------------------------------------------
(* Lengths: a u32 in Borsh, a compact integer in SCALE.                    *)

LE(n, w) == [i \in 1 .. w |-> (n \div Base^(i - 1)) % Base]
FromLE(s) == FoldRight(LAMBDA d, n : n * Base + d, s, 0)

\* encode_compact.  A length of U32 \div 4 or more fails; the bounds keep
\* every array below it.
CompactWidth(n) == IF n < Base \div 4 THEN 1 ELSE IF n < (Base * Base) \div 4 THEN 2 ELSE 4
EncodeCompact(n) ==
  CASE CompactWidth(n) = 1 -> LE(4 * n, 1)
    [] CompactWidth(n) = 2 -> LE(4 * n + 1, 2)
    [] OTHER               -> LE(4 * n + 2, 4)

\* Mutant: every length is taken to need four bytes.
SizeWidth_Four(e, n) == 4

SizeWidth(e, n)  == IF e.t = "solana" THEN 4 ELSE CompactWidth(n)
EncodeSize(e, n) == IF e.packed THEN <<>>
                    ELSE IF e.t = "solana" THEN LE(n, 4) ELSE EncodeCompact(n)
-----------------------------------------------------------------------------
(* Encoding.  e is the encoder: its target and whether it is packed.  An   *)
(* operator takes the offset and the buffer, and returns the new buffer    *)
(* and the number of bytes the code advances by.                           *)

Put(buf, off, s) ==
  [i \in DOMAIN buf |-> IF i - off \in DOMAIN s THEN s[i - off] ELSE buf[i]]
Written(buf, off, s) == [buf |-> Put(buf, off, s), adv |-> Len(s)]

EncodeInt(ty, v, off, buf) ==
  LET fill == IF ty.signed /\ 2 * v[ty.w] >= Base THEN Base - 1 ELSE 0
  IN  Written(buf, off, v \o [i \in 1 .. NextPow2(ty.w) - ty.w |-> fill])

EncodeBytes(e, v, off, buf) == Written(buf, off, EncodeSize(e, Len(v)) \o v)

\* Mutant: both schemes write the selector first.
EncodeExternalFunction_SelectorFirst(e, v, off, buf) == Written(buf, off, v[1] \o v[2])

EncodeExternalFunction(e, v, off, buf) ==
  Written(buf, off, IF e.t = "solana" THEN v[1] \o v[2] ELSE v[2] \o v[1])

RECURSIVE Encode(_, _, _, _, _)

EncodeFields(e, tys, vs, off, buf) ==
  FoldLeft(LAMBDA r, i : LET w == Encode(e, tys[i], vs[i], off + r.adv, r.buf)
                         IN  [buf |-> w.buf, adv |-> r.adv + w.adv],
           [buf |-> buf, adv |-> 0], [i \in DOMAIN tys |-> i])

EncodeStruct(e, ty, v, off, buf) ==
  LET size == NonPaddedSize(e.t, ty.fields)
      all  == EncodeFields(e, ty.fields, v, off, buf)
  IN  IF size # None /\ size = StructPaddedSize(e.t, ty.fields) /\ AllowMemcpy(e.t, ty)
      THEN Written(buf, off, SubSeq(Image(ty, v), 1, size))
      ELSE [all EXCEPT !.adv = IF size # None THEN size ELSE all.adv]

RECURSIVE EncodeComplexArray(_, _, _, _, _, _)
EncodeComplexArray(e, ty, v, dimension, off, buf) ==
  LET size == IF ty.dims[dimension] = Dynamic THEN EncodeSize(e, Len(v)) ELSE <<>>
      elem(x, o, b) == IF dimension = 1 THEN Encode(e, ty.elem, x, o, b)
                       ELSE EncodeComplexArray(e, ty, x, dimension - 1, o, b)
  IN  FoldLeft(LAMBDA r, x : LET w == elem(x, off + r.adv, r.buf)
                             IN  [buf |-> w.buf, adv |-> r.adv + w.adv],
               Written(buf, off, size), v)

EncodeArray(e, ty, v, off, buf) ==
  LET size  == IF Outer(ty.dims) = Dynamic THEN EncodeSize(e, Len(v)) ELSE <<>>
      bytes == MemorySizeOf(e.t, ty.elem)
               * (IF Outer(ty.dims) = Dynamic THEN Len(v) ELSE ProductOf(ty.dims))
  IN  IF AllowMemcpy(e.t, ty)
      THEN Written(buf, off, size \o SubSeq(Image(ty, v), 1, bytes))
      ELSE EncodeComplexArray(e, ty, v, Len(ty.dims), off, buf)

Encode(e, ty, v, off, buf) ==
  CASE ty.k = "int"    -> EncodeInt(ty, v, off, buf)
    [] ty.k = "string" -> EncodeBytes(e, v, off, buf)
    [] ty.k = "struct" -> EncodeStruct(e, ty, v, off, buf)
    [] ty.k = "array"  -> EncodeArray(e, ty, v, off, buf)
    [] ty.k = "extfn"  -> EncodeExternalFunction(e, v, off, buf)
    [] OTHER           -> Written(buf, off, v)     \* encode_directly
-----------------------------------------------------------------------------
(* The size that is allocated before anything is written.                  *)

RECURSIVE GetExprSize(_, _, _)

CalculateStructSize(e, ty, v) ==
  IF NonPaddedSize(e.t, ty.fields) # None THEN NonPaddedSize(e.t, ty.fields)
  ELSE SumOf([i \in DOMAIN ty.fields |-> GetExprSize(e, ty.fields[i], v[i])])

RECURSIVE ComplexArraySize(_, _, _, _)
ComplexArraySize(e, ty, v, dimension) ==
  (IF ty.dims[dimension] = Dynamic /\ ~e.packed THEN SizeWidth(e, Len(v)) ELSE 0)
  + SumOf([i \in DOMAIN v |-> IF dimension = 1 THEN GetExprSize(e, ty.elem, v[i])
                              ELSE ComplexArraySize(e, ty, v[i], dimension - 1)])

CalculateArraySize(e, ty, v) ==
  LET inner  == SubSeq(ty.dims, 1, Len(ty.dims) - 1)
      direct == \A i \in DOMAIN inner : inner[i] # Dynamic
      fixed  == IF ~direct THEN None
                ELSE IF IsPrimitive(ty.elem) THEN MemorySizeOf(e.t, ty.elem)
                ELSE IF ty.elem.k = "struct" THEN NonPaddedSize(e.t, ty.elem.fields)
                ELSE None
      elems  == Len(v) * ProductOf(inner)
  IN  IF fixed = None THEN ComplexArraySize(e, ty, v, Len(ty.dims))
      ELSE IF e.packed \/ Outer(ty.dims) # Dynamic THEN elems * fixed
      ELSE elems * fixed + SizeWidth(e, elems)

CalculateStringSize(e, v) == Len(v) + (IF e.packed THEN 0 ELSE SizeWidth(e, Len(v)))

GetExprSize(e, ty, v) ==
  CASE ty.k = "int"    -> NextPow2(ty.w)
    [] ty.k = "string" -> CalculateStringSize(e, v)
    [] ty.k = "struct" -> CalculateStructSize(e, ty, v)
    [] ty.k = "array"  -> CalculateArraySize(e, ty, v)
    [] ty.k = "extfn"  -> AddressLength + SelectorLength(e.t)
    [] OTHER           -> MemorySizeOf(e.t, ty)

CalculateSizeArgs(e, tys, vs) == SumOf([i \in DOMAIN tys |-> GetExprSize(e, tys[i], vs[i])])

\* abi_encode: the allocated size, and memory from the start of the buffer to
\* `slack` bytes past its end once everything is written
AbiEncode(e, tys, vs, slack) ==
  LET size == CalculateSizeArgs(e, tys, vs)
      new  == [i \in 1 .. size + slack |-> Undef]
  IN  [size |-> size, mem |-> EncodeFields(e, tys, vs, 0, new).buf]
=============================================================================
