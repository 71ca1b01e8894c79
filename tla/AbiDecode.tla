----------------------------- MODULE AbiDecode -----------------------------
(***************************************************************************)
(* What the code emitted for abi.decode does with a buffer that may be     *)
(* anything: the reads of codegen/encoding/mod.rs, and the BufferValidator *)
(* that decides which of them are preceded by a bounds check.              *)
(*                                                                         *)
(* d is what is decoded: the target, the buffer and the byte found in the  *)
(* memory past its end.  A read that is not checked returns such bytes.    *)
(* Sums and products are u32 and checked: U32 stands for one that has      *)
(* overflowed, which ends the call wherever it is used.                    *)
(***************************************************************************)
EXTENDS Abi

\* Mutant: a sum wraps instead of failing.
Add32_Wraps(a, b) == (a + b) % U32

Add32(a, b) == IF a + b >= U32 THEN U32 ELSE a + b
Mul32(a, b) == IF a * b >= U32 THEN U32 ELSE a * b

Read(d, off, n) == [i \in 1 .. n |-> IF off + i \in DOMAIN d.buf THEN d.buf[off + i] ELSE d.past]

\* Mutant: the last byte of the buffer is not to be read.
InBounds_Strict(d, off) == off < Len(d.buf)

InBounds(d, off) == off <= Len(d.buf)

\* What has been read.  ok: no check has failed; v: the value; adv: the bytes
\* advanced by, last: by the last part; val: the validator; hi: one past the
\* last byte that v depends on
Result(v, adv, val, hi) == [ok |-> TRUE, v |-> v, adv |-> adv, last |-> adv, val |-> val, hi |-> hi]
Failed(val) == [Result(<<>>, 0, val, 0) EXCEPT !.ok = FALSE]
Then(acc, part) ==
  IF ~part.ok THEN Failed(part.val)
  ELSE [ok |-> TRUE, v |-> Append(acc.v, part.v), adv |-> Add32(acc.adv, part.adv),
        last |-> part.adv, val |-> part.val, hi |-> IF part.hi > acc.hi THEN part.hi ELSE acc.hi]
-----------------------------------------------------------------------------
(* BufferValidator.  Arguments are numbered from 1; until = 0 is None.     *)

NewValidator(types) == [types |-> types, until |-> 0, cur |-> 1]
ValidationNecessary(val) == val.cur > val.until
ValidateArray(val) == [val EXCEPT !.until = val.cur]

SubValidator(val, types) ==
  IF ValidationNecessary(val) THEN NewValidator(types)
  ELSE [types |-> types, until |-> Len(types) + 1, cur |-> Len(types) + 1]

\* _verify_buffer: the check for the run of fixed size arguments that starts
\* at the current one, when it has more than one
VerifyBuffer(d, off, val) ==
  LET run == {i \in val.cur .. Len(val.types) :
                \A j \in val.cur .. i : ~IsDynamic(val.types[j])}
      max == Max(run \cup {val.cur})
      advance == SumOf([i \in 1 .. max - val.cur + 1 |->
                          MemorySizeOf(d.t, val.types[val.cur + i - 1])])
  IN  IF max = val.cur THEN [ok |-> TRUE, val |-> val]
      ELSE [ok |-> InBounds(d, Add32(off, advance)), val |-> [val EXCEPT !.until = max]]

InitializeValidation(d, off, val) == VerifyBuffer(d, off, [val EXCEPT !.until = 0])

ValidateBuffer(d, off, val) ==
  IF ValidationNecessary(val) THEN VerifyBuffer(d, off, val) ELSE [ok |-> TRUE, val |-> val]

OffsetPlusSizeOk(d, off, size, val) ==
  ValidationNecessary(val) => InBounds(d, Add32(off, size))
-----------------------------------------------------------------------------
(* Lengths.  Both schemes read before they check.                          *)

\* the mode of a compact length is in its two lowest bits
DecodeCompact(d, off, mode) ==
  LET w == IF mode = 3 THEN 4 ELSE 2^mode
  IN  [ok |-> mode # 3, n |-> FromLE(Read(d, off, w)) \div 4, w |-> w]

RetrieveArrayLength(d, off) ==
  IF d.t = "solana" THEN [ok |-> TRUE, n |-> FromLE(Read(d, off, 4)), w |-> 4]
  ELSE DecodeCompact(d, off, Read(d, off, 1)[1] % 4)

\* the length of a dimension: one that is fixed is not in the buffer
LengthOf(d, off, dim) ==
  IF dim = Dynamic THEN RetrieveArrayLength(d, off) ELSE [ok |-> TRUE, n |-> dim, w |-> 0]

\* the length was read from within the buffer
LengthOk(d, off, l) == l.w = 0 \/ (l.ok /\ InBounds(d, Add32(off, l.w)))
-----------------------------------------------------------------------------
(* read_from_buffer and what it calls.                                     *)

ReadFixed(d, off, n, size, val) ==
  IF ~OffsetPlusSizeOk(d, off, size, val) THEN Failed(val)
  ELSE Result(Read(d, off, n), size, val, off + n)

ReadString(d, off, val, l) ==
  IF ~LengthOk(d, off, l) \/ ~InBounds(d, Add32(off, Add32(l.n, l.w))) THEN Failed(val)
  ELSE Result(Read(d, off + l.w, l.n), l.n + l.w, val, off + l.n + l.w)

SplitExternalFunction(d, r) ==
  LET first == IF d.t = "solana" THEN SelectorLength(d.t) ELSE AddressLength
      two   == <<SubSeq(r.v, 1, first), SubSeq(r.v, first + 1, Len(r.v))>>
  IN  IF ~r.ok THEN r ELSE [r EXCEPT !.v = IF d.t = "solana" THEN two ELSE Reverse(two)]
DecodeExternalFunction(d, off, size, val) ==
  SplitExternalFunction(d, ReadFixed(d, off, size, size, val))

RECURSIVE ReadFromBuffer(_, _, _, _)
RECURSIVE DecodeComplexArray(_, _, _, _, _)

\* the loop over one dimension; its body is compiled once, with validator val
RECURSIVE DecodeLoop(_, _, _, _, _, _)
DecodeLoop(d, off, ty, dimension, count, acc) ==
  IF count = 0 \/ ~acc.ok THEN acc
  ELSE DecodeLoop(d, off, ty, dimension, count - 1,
         [Then(acc, IF dimension = 1 THEN ReadFromBuffer(d, Add32(off, acc.adv), ty.elem, acc.val)
                    ELSE DecodeComplexArray(d, Add32(off, acc.adv), ty, dimension - 1, acc.val))
          EXCEPT !.val = acc.val])

\* the dimensions up to this one, and their elements, have a fixed size
Verifiable(ty, dimension) ==
  (\A i \in 1 .. dimension : ty.dims[i] # Dynamic) /\ ~IsDynamic(ty.elem)
FixedBytes(d, ty, dimension) ==
  ProductOf(SubSeq(ty.dims, 1, dimension)) * MemorySizeOf(d.t, ty.elem)

\* a dimension of length l, which is validated beforehand if that is possible
DecodeDimension(d, off, ty, dimension, val, l, verify) ==
  IF \/ verify /\ ~OffsetPlusSizeOk(d, off, FixedBytes(d, ty, dimension), val)
     \/ ~LengthOk(d, off, l)
  THEN Failed(val)
  ELSE DecodeLoop(d, off, ty, dimension, l.n,
                  Result(<<>>, l.w, IF verify THEN ValidateArray(val) ELSE val, off + l.w))

DecodeComplexArray(d, off, ty, dimension, val) ==
  [DecodeDimension(d, off, ty, dimension, val, LengthOf(d, off, ty.dims[dimension]),
                   ValidationNecessary(val) /\ Verifiable(ty, dimension))
   EXCEPT !.val = IF ValidationNecessary(val) /\ Verifiable(ty, 1) THEN ValidateArray(val) ELSE val]

\* an array that is copied as a block, of length l and so many bytes
CopyArray(d, off, ty, val, l, bytes) ==
  IF ~LengthOk(d, off, l) \/ ~OffsetPlusSizeOk(d, Add32(off, l.w), bytes, val) THEN Failed(val)
  ELSE Result(FromImage(ty, l.n, PadTo(Read(d, off + l.w, bytes), l.n * AllocSize(ElemOf(ty)))),
              bytes + l.w, val, off + l.w + bytes)
CopyArrayOf(d, off, ty, val, l) ==
  CopyArray(d, off, ty, val, l,
            Mul32(IF l.w = 0 THEN ProductOf(ty.dims) ELSE l.n, MemorySizeOf(d.t, ty.elem)))

DecodeArray(d, off, ty, val) ==
  IF AllowMemcpy(d.t, ty) THEN CopyArrayOf(d, off, ty, val, LengthOf(d, off, Outer(ty.dims)))
  ELSE DecodeComplexArray(d, off, ty, Len(ty.dims), val)

\* one field or argument, once the check made for it has not failed
AfterCheck(d, off, ty, check) ==
  IF ~check.ok THEN Failed(check.val) ELSE ReadFromBuffer(d, off, ty, check.val)

\* the fields of a struct from field i on.  The check for field i is made at
\* the offset of the field before it
RECURSIVE DecodeFields(_, _, _, _)
DecodeFields(d, off, i, acc) ==
  IF i > Len(acc.val.types) \/ ~acc.ok THEN acc
  ELSE DecodeFields(d, off, i + 1,
         Then(acc, AfterCheck(d, Add32(off, acc.adv), acc.val.types[i],
                     IF i = 1 THEN [ok |-> TRUE, val |-> acc.val]
                     ELSE ValidateBuffer(d, Add32(off, acc.adv - acc.last),
                                         [acc.val EXCEPT !.cur = i]))))

\* a struct that is copied as a block
CopyStruct(ty, r) == IF ~r.ok THEN r ELSE [r EXCEPT !.v = FromImage(ty, 0, PadTo(@, AllocSize(ty)))]

\* a struct that is read field by field, after the first check
ReadFields(d, off, size, val, init) ==
  IF ~init.ok THEN Failed(val)
  ELSE [DecodeFields(d, off, 1, Result(<<>>, 0, init.val, 0))
        EXCEPT !.val = val, !.adv = IF size # None THEN size ELSE @]

StructOf(d, off, ty, val, size, sval) ==
  IF size # None /\ size = StructPaddedSize(d.t, ty.fields) /\ AllowMemcpy(d.t, ty)
  THEN CopyStruct(ty, ReadFixed(d, off, size, size, val))
  ELSE ReadFields(d, off, size, val,
                  IF ValidationNecessary(val) THEN InitializeValidation(d, off, sval)
                  ELSE [ok |-> TRUE, val |-> sval])
DecodeStruct(d, off, ty, val) ==
  StructOf(d, off, ty, val, NonPaddedSize(d.t, ty.fields), SubValidator(val, ty.fields))

ReadFromBuffer(d, off, ty, val) ==
  CASE ty.k = "int"    -> ReadFixed(d, off, ty.w, NextPow2(ty.w), val)
    [] ty.k = "string" -> ReadString(d, off, val, RetrieveArrayLength(d, off))
    [] ty.k = "array"  -> DecodeArray(d, off, ty, val)
    [] ty.k = "struct" -> DecodeStruct(d, off, ty, val)
    [] ty.k = "extfn"  -> DecodeExternalFunction(d, off, SelectorLength(d.t) + AddressLength, val)
    [] OTHER -> ReadFixed(d, off, MemorySizeOf(d.t, ty), MemorySizeOf(d.t, ty), val)

\* abi_decode: the arguments from number i on
RECURSIVE DecodeArgs(_, _, _)
DecodeArgs(d, i, acc) ==
  IF i > Len(acc.val.types) \/ ~acc.ok THEN acc
  ELSE DecodeArgs(d, i + 1,
         Then(acc, AfterCheck(d, acc.adv, acc.val.types[i],
                              ValidateBuffer(d, acc.adv, [acc.val EXCEPT !.cur = i]))))

AllBytesRead(d, r) == IF r.adv # U32 /\ r.adv >= Len(d.buf) THEN r ELSE Failed(r.val)
AfterInit(d, init) ==
  IF ~init.ok THEN Failed(init.val) ELSE DecodeArgs(d, 1, Result(<<>>, 0, init.val, 0))
AbiDecodeArgs(d, types) ==
  AllBytesRead(d, AfterInit(d, InitializeValidation(d, 0, NewValidator(types))))
-----------------------------------------------------------------------------
(* The reference: the byte strings that stand for a value in the format.   *)
(* SCALE allows a length in any of its three widths, and the decoders look *)
(* at no more than the bytes of an integer that its type has.              *)

Joined(A, B) == {a \o b : a \in A, b \in B}

LengthForms(t, n) ==
  IF t = "solana" THEN {LE(n, 4)}
  ELSE {LE(4 * n + m, 2^m) : m \in {k \in 0 .. 2 : 4 * n + k < Base^(2^k)}}

RECURSIVE Forms(_, _, _)
FormsOfAll(t, tys, vs) ==
  FoldLeft(LAMBDA S, i : Joined(S, Forms(t, tys[i], vs[i])), {<<>>}, [i \in DOMAIN tys |-> i])
Forms(t, ty, v) ==
  CASE ty.k = "int"    -> Joined({v}, [1 .. NextPow2(ty.w) - ty.w -> 0 .. Base - 1])
    [] ty.k = "string" -> Joined(LengthForms(t, Len(v)), {v})
    [] ty.k = "struct" -> FormsOfAll(t, ty.fields, v)
    [] ty.k = "array"  ->
         Joined(IF Outer(ty.dims) = Dynamic THEN LengthForms(t, Len(v)) ELSE {<<>>},
                FormsOfAll(t, [i \in DOMAIN v |-> ElemOf(ty)], v))
    [] ty.k = "extfn"  -> {IF t = "solana" THEN v[1] \o v[2] ELSE v[2] \o v[1]}
    [] OTHER -> {v}
=============================================================================
