------------------------------ MODULE Soroban ------------------------------
(***************************************************************************)
(* What a Soroban contract exchanges with its host: the 64 bit Vals that   *)
(* codegen/encoding/soroban_encoding.rs makes and reads, the contract data *)
(* that emit/soroban/target.rs keeps its variables in, and the entry with  *)
(* which a contract authorises a call it is about to make.                 *)
(*                                                                         *)
(* A word is a sequence of bytes, least significant first.  A Val is a     *)
(* word of eight whose first byte is its tag, or, for an object of the     *)
(* host, its tag and the object: objects never change, and nothing in the  *)
(* code looks at a handle.  Addresses and strings are Vals in the contract *)
(* as well; an integer is a word of its width.                             *)
(***************************************************************************)
EXTENDS Abi

Bool      == [k |-> "bool"]
Trap      == <<>>      \* the host ends the call: there is no such Val
ValBytes  == 8

Zeros(n)  == [i \in 1 .. n |-> 0]
IsZero(w) == w = Zeros(Len(w))
Negative(w) == 2 * w[Len(w)] >= Base
Fill(w, signed) == IF signed /\ Negative(w) THEN Base - 1 ELSE 0

\* Trunc, ZeroExt and SignExt, and shifts by n bytes
Trunc(w, n) == SubSeq(w, 1, n)
Extend(w, n, signed) == w \o [i \in 1 .. n - Len(w) |-> Fill(w, signed)]
ShiftLeft(w, n) == Zeros(n) \o SubSeq(w, 1, Len(w) - n)
ShiftRight(w, n, signed) == SubSeq(w, n + 1, Len(w)) \o [i \in 1 .. n |-> Fill(w, signed)]
-----------------------------------------------------------------------------
(* The host: values, vectors, maps and symbols.                            *)

U128Object    == 68
I128Object    == 69
U256Object    == 70
I256Object    == 71
StringObject  == 73
SymbolObject  == 74
VecObject     == 75
MapObject     == 76
AddressObject == 77

Object(tag, content) == <<tag, content>>
ObjFrom128Pieces(ty, hi, lo) == Object(IF ty.signed THEN I128Object ELSE U128Object, lo \o hi)
ObjFrom256Pieces(ty, hiHi, hiLo, loHi, loLo) ==
  Object(IF ty.signed THEN I256Object ELSE U256Object, loLo \o loHi \o hiLo \o hiHi)

\* ObjTo..: a word of the object.  The host takes an object of the type only.
WideTag(ty) == CASE ty.w = 16 -> IF ty.signed THEN I128Object ELSE U128Object
                 [] ty.w = 32 -> IF ty.signed THEN I256Object ELSE U256Object
                 [] OTHER -> 0
ObjToWord(ty, val, i) == SubSeq(val[2], 8 * i + 1, 8 * i + 8)

VecPushBack(vec, val) == Object(VecObject, Append(vec[2], val))
MapPut(map, key, val) ==
  Object(MapObject, [k \in DOMAIN map[2] \cup {key} |-> IF k = key THEN val ELSE map[2][k]])
EmptyVec == Object(VecObject, <<>>)
EmptyMap == Object(MapObject, <<>>)
\* soroban_encode_arg of a string literal: the pointer and the length of its bytes
\* go to symbol_new_from_linear_memory
SymbolVal(name) == Object(SymbolObject, name)

\* the Vals of a client of the host: an integer that fits is in the Val, and
\* extended when it is read
Fits(ty, x) == x = Extend(Trunc(x, 7), ty.w, ty.signed)
-----------------------------------------------------------------------------
(* soroban_encode_arg.                                                     *)

\* get_soroban_int_width, on the widths that a program declares
RoundedWidth(w) == CASE w <= 4 -> 4 [] w \in 5 .. 8 -> 8 [] w \in 9 .. 16 -> 16 [] OTHER -> 32
Rounded(ty) == IF ty.k = "int" THEN [ty EXCEPT !.w = RoundedWidth(@)] ELSE ty

Tag(ty) ==
  CASE ty.w = 4  -> IF ty.signed THEN 5 ELSE 4
    [] ty.w = 8  -> IF ty.signed THEN 7 ELSE 6
    [] ty.w = 16 -> IF ty.signed THEN 11 ELSE 10
    [] ty.w = 32 -> IF ty.signed THEN 13 ELSE 12
\* the low byte of w is zero after a shift, so that adding a tag puts it there
AddTag(w, tag) == <<tag>> \o Tail(w)
U32Val(n) == AddTag(ShiftLeft(LE(n, ValBytes), 4), 4)
Void == AddTag(Zeros(ValBytes), 2)

EncodeBool(x) == AddTag(Zeros(ValBytes), x[1])
EncodeInt32(ty, x) == AddTag(ShiftLeft(Extend(x, ValBytes, ty.signed), 4), Tag(ty))
EncodeInt64(ty, x) == AddTag(ShiftLeft(x, 1), Tag(ty))
\* encode_i128: only the low word tells where the value goes
EncodeI128(ty, lo, hi) ==
  IF IsZero(SubSeq(lo, 8, 8)) THEN AddTag(ShiftLeft(lo, 1), Tag(ty))
  ELSE ObjFrom128Pieces(ty, hi, lo)
EncodeInt128(ty, x) == EncodeI128(ty, Trunc(x, 8), Trunc(ShiftRight(x, 8, FALSE), 8))
EncodeInt256(ty, x) ==
  ObjFrom256Pieces(ty, Trunc(ShiftRight(x, 24, ty.signed), 8), Trunc(ShiftRight(x, 16, ty.signed), 8),
                   Trunc(ShiftRight(x, 8, ty.signed), 8), Trunc(x, 8))

SorobanEncodeArg(ty, x) ==
  CASE ty.k = "bool" -> EncodeBool(x)
    [] ty.k = "int"  -> (CASE ty.w = 4 -> EncodeInt32(ty, x)   [] ty.w = 8 -> EncodeInt64(ty, x)
                           [] ty.w = 16 -> EncodeInt128(ty, x) [] ty.w = 32 -> EncodeInt256(ty, x))
    [] ty.k \in {"address", "string"} -> x

\* soroban_encode: a Val for every argument, one after the other
SorobanEncode(tys, xs) == [i \in DOMAIN tys |-> SorobanEncodeArg(tys[i], xs[i])]
\* encode_struct.  A string field is no variable: soroban_encode_arg takes it for
\* a literal and panics, so that no contract stores such a struct as a whole.
EncodePanics(ty) == ty.k = "struct" /\ \E i \in DOMAIN ty.fields : ty.fields[i].k = "string"
EncodeStructFields(ty, x) == SorobanEncode(ty.fields, x)
-----------------------------------------------------------------------------
(* soroban_decode_arg.                                                     *)

ExtractTag(val) == val[1]

\* the words of an object, put together
HostI128(ty, val) ==
  IF ExtractTag(val) # WideTag(ty) THEN Trap ELSE ObjToWord(ty, val, 0) \o ObjToWord(ty, val, 1)
Combined(words) == words[4] \o words[3] \o words[2] \o words[1]

DecodeI128(ty, val) ==
  IF ExtractTag(val) = Tag(ty) THEN Extend(ShiftRight(val, 1, FALSE), 16, FALSE) ELSE HostI128(ty, val)
DecodeI256(ty, val) ==
  IF ExtractTag(val) # WideTag(ty) THEN Trap
  ELSE Combined(<<ObjToWord(ty, val, 3), ObjToWord(ty, val, 2), ObjToWord(ty, val, 1), ObjToWord(ty, val, 0)>>)

SorobanDecodeArg(ty, val) ==
  CASE ty.k = "bool" -> IF val = Zeros(ValBytes) THEN <<0>> ELSE <<1>>
    [] ty.k = "int"  -> (CASE ty.w = 4 -> Trunc(ShiftRight(val, 4, ty.signed), 4)
                           [] ty.w = 8 -> ShiftRight(val, 1, ty.signed)
                           [] ty.w = 16 -> DecodeI128(ty, val)
                           [] ty.w = 32 -> DecodeI256(ty, val))
    [] ty.k \in {"address", "string"} -> val

\* decode_struct, from the Vals of the fields.  They are loaded as uint64, a type
\* that decode_i128 and decode_i256 panic at: no contract loads a struct with a
\* wider field as a whole.
DecodePanics(ty) ==
  ty.k = "struct" /\ \E i \in DOMAIN ty.fields : ty.fields[i].k = "int" /\ ty.fields[i].w > ValBytes
DecodeStructFields(ty, vals) ==
  LET xs == [i \in DOMAIN ty.fields |-> SorobanDecodeArg(ty.fields[i], vals[i])]
  IN  IF \E i \in DOMAIN xs : xs[i] = Trap THEN Trap ELSE xs

\* The client's side.  Not every value survives: see Carried.
ClientVal(ty, x) ==
  IF ty.k = "int" /\ ty.w > 4
  THEN IF Fits(ty, x) THEN <<Tag(ty)>> \o Trunc(x, 7) ELSE Object(WideTag(ty), x)
  ELSE SorobanEncodeArg(ty, x)
ClientValue(ty, val) ==
  CASE ty.k = "bool" -> SubSeq(val, 1, 1)
    [] ty.k = "int" -> IF val[1] = WideTag(ty) THEN val[2]
                       ELSE IF ty.w = 4 THEN SubSeq(val, 5, 8)
                       ELSE Extend(Tail(val), ty.w, ty.signed)
    [] ty.k \in {"address", "string"} -> val
-----------------------------------------------------------------------------
(* Contract data.  A place is a storage variable, an entry of a mapping or *)
(* a member of a struct in a mapping; data: key and storage type -> Val.   *)

Temporary  == 0
Persistent == 1
Instance   == 2

\* storage_type: only a variable has one, everything else is persistent
StorageType(p) == IF p.index = None THEN p.storage ELSE Persistent

\* storage_subscript, and StructMember in codegen/expression.rs for a struct
\* whose fields take one slot each
Subscript(slot, index) == VecPushBack(VecPushBack(EmptyVec, U32Val(slot)), index)
StructMember(key, field) == VecPushBack(key, U32Val(field - 1))
Slot(slot) == <<slot>> \o Zeros(ValBytes - 1)     \* the number of the slot as it is

\* the key of a place, when the arguments of the function are xs
Key(p, xs) ==
  IF p.index = None THEN Slot(p.slot)
  ELSE IF p.field = None THEN Subscript(p.slot, xs[p.index])
  ELSE StructMember(Subscript(p.slot, xs[p.index]), p.field)

PutContractData(data, key, st, val) ==
  [k \in DOMAIN data \cup {<<key, st>>} |-> IF k = <<key, st>> THEN val ELSE data[k]]
HasContractData(data, key, st) == <<key, st>> \in DOMAIN data
GetContractData(data, key, st) == data[<<key, st>>]

\* type_to_tagged_zero_val
TaggedZero(ty) ==
  AddTag(Zeros(ValBytes), CASE ty.k = "bool" -> 0 [] ty.k = "int" -> Tag(ty)
                            [] ty.k = "string" -> StringObject [] ty.k = "address" -> AddressObject)

PutFieldsFromValBuffer(data, key, st, vals) ==
  FoldLeft(LAMBDA d, i : PutContractData(d, VecPushBack(key, U32Val(i - 1)), st, vals[i]),
           data, [i \in DOMAIN vals |-> i])
GetFieldsToValBuffer(data, key, st, count) ==
  [i \in 1 .. count |->
     IF HasContractData(data, VecPushBack(key, U32Val(i - 1)), st)
     THEN GetContractData(data, VecPushBack(key, U32Val(i - 1)), st)
     ELSE Zeros(ValBytes)]

\* an assignment to a place: SetStorage and storage_store
StorageStore(data, p, xs, x) ==
  IF p.ty.k = "struct"
  THEN PutFieldsFromValBuffer(data, Key(p, xs), StorageType(p), EncodeStructFields(p.ty, x))
  ELSE PutContractData(data, Key(p, xs), StorageType(p), SorobanEncodeArg(p.ty, x))

\* storage_load
StorageLoad(data, ty, key, st) ==
  IF HasContractData(data, key, st) THEN GetContractData(data, key, st) ELSE TaggedZero(ty)

\* a use of a place: load_storage
LoadStorage(data, p, xs) ==
  IF p.ty.k = "struct"
  THEN DecodeStructFields(p.ty, GetFieldsToValBuffer(data, Key(p, xs), StorageType(p), Len(p.ty.fields)))
  ELSE SorobanDecodeArg(p.ty, StorageLoad(data, p.ty, Key(p, xs), StorageType(p)))
-----------------------------------------------------------------------------
(* auth.authAsCurrContract(contract, "function", arguments..)              *)

\* the context: what is going to be called
ContextMap(contract, function, vals) ==
  MapPut(MapPut(MapPut(EmptyMap, "contract", contract), "fn_name", SymbolVal(function)),
         "args", Object(VecObject, vals))
\* it and the calls that the callee may make in turn: none
SubInvocation(context) ==
  MapPut(MapPut(EmptyMap, "context", context), "sub_invocations", EmptyVec)
\* InvokerContractAuthEntry::Contract, in a vector of its own
AuthEntries(invocation) ==
  VecPushBack(EmptyVec, VecPushBack(VecPushBack(EmptyVec, SymbolVal("Contract")), invocation))
AuthAsCurrContract(contract, function, tys, xs) ==
  AuthEntries(SubInvocation(ContextMap(contract, function, SorobanEncode(tys, xs))))

\* the entry with which the host lets a call pass
Authorises(entries, contract, function, vals) ==
  \E i \in DOMAIN entries[2] :
    LET entry == entries[2][i][2]
        context == entry[2][2]["context"][2]
    IN  /\ entry[1] = SymbolVal("Contract")
        /\ context["contract"] = contract /\ context["fn_name"] = SymbolVal(function)
        /\ context["args"] = Object(VecObject, vals)
=============================================================================
