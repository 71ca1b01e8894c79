----------------------------- MODULE MCDispatch -----------------------------
(***************************************************************************)
(* A contract per target whose functions take the types that the encoders  *)
(* treat differently, small values of them, and calls and replies with one *)
(* byte or word changed.                                                   *)
(***************************************************************************)
EXTENDS Dispatch

\* The last two digits of a selector tell functions apart, so that noise turns
\* one selector into another.
Sel(t, n) == [i \in 1 .. SelectorLength(t) - 2 |-> 0] \o <<n \div 4, n % 4>>

Fn(ty, sel, params, args, returns, rets) ==
  [ty |-> ty, public |-> TRUE, selector |-> sel, params |-> params, args |-> args,
   returns |-> returns, rets |-> rets, nonpayable |-> FALSE, data |-> FALSE]
Layout(programId, payer, space, len) ==
  [programId |-> programId, payer |-> payer, space |-> space, len |-> len]

Pair   == Struct(<<Uint(1), Uint(1)>>)             \* copied as a block
Padded == Struct(<<Uint(2), Uint(1)>>)             \* padded at its end
Gapped == Struct(<<Uint(1), Uint(2)>>)             \* padded inside
Inner  == Struct(<<Uint(1), Uint(2), Uint(1)>>)    \* both
Nested == Struct(<<Pair, Uint(1), String>>)
Ended  == Struct(<<String, Uint(1)>>)              \* a fixed field after a dynamic one
Bytes3 == BytesN(3)
Dyn(ty)   == Array(ty, <<Dynamic>>)
Dyn2(ty)  == Array(ty, <<Dynamic, Dynamic>>)
DynOf(ty, n) == Array(ty, <<n, Dynamic>>)
FixOf(ty, n) == Array(ty, <<Dynamic, n>>)
Fix(ty, n)   == Array(ty, <<n>>)
Grid(ty)     == Array(ty, <<2, 1>>)

\* signatures and the argument tuples tried
Sig(params, args) == [params |-> params, args |-> args]

Scalars(t) == <<
  Sig(<<Uint(1), Sint(2), Address>>, {<< <<2>>, <<1, 3>>, <<1, 2>> >>}),
  Sig(<<Sint(3)>>, {<< <<1, 0, 3>> >>, << <<1, 2, 0>> >>}),
  Sig(<<Bytes3, Enum>>, {<< <<1, 2, 3>>, <<2>> >>}),
  Sig(<<Dyn(Enum), Dyn(Address)>>, {<< << <<3>>, <<1>> >>, << <<1, 2>> >> >>}),
  Sig(<<ExternalFunction>>, {<< <<Sel(t, 1), <<3, 1>> >> >>}) >>

Strings == <<
  Sig(<<String>>, {<< <<>> >>, << <<2, 1>> >>}),
  Sig(<<Uint(1), String, Uint(2), Uint(1)>>, {<< <<2>>, <<1>>, <<1, 2>>, <<3>> >>, << <<1>>, <<1, 2, 3, 0>>, <<2, 0>>, <<2>> >>}),
  Sig(<<Dyn(String)>>, {<< <<>> >>, << << <<1>>, <<>> >> >>}) >>

Arrays == <<
  Sig(<<Dyn(Uint(2)), Uint(1)>>, {<< <<>>, <<2>> >>, << << <<1, 2>>, <<2, 3>> >>, <<1>> >>}),
  Sig(<<Dyn2(Uint(1)), Uint(1)>>, {<< << << <<1>>, <<2>> >>, <<>> >>, <<3>> >>}),
  Sig(<<Dyn(Bytes3), Fix(Bytes3, 2)>>, {<< << <<1, 2, 3>> >>, << <<1, 2, 0>>, <<2, 3, 1>> >> >>}) >>

Arrays2 == <<
  Sig(<<DynOf(Uint(2), 2), Grid(Uint(1))>>,
      {<< << << <<1, 2>>, <<2, 0>> >> >>, << << <<1>>, <<2>> >> >> >>}),
  Sig(<<FixOf(Uint(1), 2), Uint(2)>>, {<< << << <<3>> >>, <<>> >>, <<1, 3>> >>}),
  Sig(<<Dyn(Uint(4)), Uint(1)>>, {<< <<>>, <<2>> >>, << << <<1, 2, 0, 1>> >>, <<1>> >>}) >>

Structs == <<
  Sig(<<Pair, Uint(1)>>, {<< << <<1>>, <<2>> >>, <<3>> >>}),
  Sig(<<Padded, Fix(Padded, 2)>>,
      {<< << <<1, 2>>, <<3>> >>, << << <<1, 0>>, <<1>> >>, << <<2, 0>>, <<2>> >> >> >>}),
  Sig(<<Gapped, Dyn(Gapped)>>, {<< << <<1>>, <<2, 3>> >>, << << <<1>>, <<1, 0>> >> >> >>}) >>

Structs2 == <<
  Sig(<<Inner, Struct(<<Inner, Uint(1)>>)>>,
      {<< << <<1>>, <<2, 3>>, <<1>> >>, << << <<2>>, <<1, 3>>, <<3>> >>, <<2>> >> >>}),
  Sig(<<Dyn(Pair)>>, {<< << << <<1>>, <<2>> >>, << <<0>>, <<3>> >> >> >>}),
  Sig(<<Nested, Uint(1)>>, {<< << << <<1>>, <<2>> >>, <<3>>, <<1>> >>, <<2>> >>}),
  Sig(<<Dyn(Ended)>>, {<< << << <<2>>, <<1>> >> >> >>}) >>

\* every signature as a function that takes it and one that returns it
Signatures(t, sigs) ==
  FlattenSeq([i \in DOMAIN sigs |->
    <<Fn("function", Sel(t, 2 * i), sigs[i].params, sigs[i].args, <<>>, {<<>>}),
      Fn("function", Sel(t, 2 * i + 1), <<>>, {<<>>}, sigs[i].params, sigs[i].args)>>])

Contract(t, l, functions) == [target |-> t, layout |-> l, functions |-> functions]
Plain == Layout(TRUE, TRUE, None, 0)

Encodings(t) ==
  LET families == <<Scalars(t), Strings, Arrays, Arrays2, Structs, Structs2>>
  IN  [i \in DOMAIN families |->
         Contract(t, Plain, <<Fn("constructor", Sel(t, 0), <<>>, {<<>>}, <<>>, {<<>>})>>
                            \o Signatures(t, families[i]))]

\* entry points of every kind
Entries(t) == <<
  Fn("constructor", Sel(t, 0), <<Uint(1)>>, {<< <<2>> >>}, <<>>, {<<>>}),
  [Fn("constructor", Sel(t, 1), <<>>, {<<>>}, <<>>, {<<>>}) EXCEPT !.nonpayable = TRUE],
  [Fn("function", Sel(t, 2), <<>>, {<<>>}, <<>>, {<<>>}) EXCEPT !.data = TRUE],
  [Fn("function", Sel(t, 3), <<Uint(1)>>, {<< <<1>> >>}, <<>>, {<<>>}) EXCEPT !.nonpayable = TRUE],
  [Fn("function", Sel(t, 4), <<>>, {<<>>}, <<>>, {<<>>}) EXCEPT !.public = FALSE] >>
Fallback == [Fn("fallback", <<>>, <<>>, {<<>>}, <<>>, {<<>>}) EXCEPT !.data = TRUE]
Receive_ == Fn("receive", <<>>, <<>>, {<<>>}, <<>>, {<<>>})

SolanaLayouts ==
  FoldSet(LAMBDA l, ls : Append(ls, l), <<>>,
          [programId : {TRUE}, payer : BOOLEAN, space : {None, 2, 4}, len : {0, 2, 3}])
  \o <<Layout(FALSE, TRUE, None, 3)>>
Deployments ==
  FlattenSeq([i \in DOMAIN SolanaLayouts |->
    <<Contract("solana", SolanaLayouts[i], Entries("solana")),
      Contract("solana", SolanaLayouts[i], Append(Entries("solana"), Fallback))>>])
  \o <<Contract("polkadot", Plain, Entries("polkadot")),
       Contract("polkadot", Plain, Append(Entries("polkadot"), Fallback)),
       Contract("polkadot", Plain, Append(Entries("polkadot"), Receive_)),
       Contract("polkadot", Plain, Entries("polkadot") \o <<Fallback, Receive_>>)>>

\* Soroban: a function of each type, and the places of a contract
Word(w, bytes) == bytes \o [i \in 1 .. w - Len(bytes) |-> 0]
Full(w)        == [i \in 1 .. w |-> 3]                        \* -1, or the largest
Top7(w)        == Word(w, [i \in 1 .. 7 |-> 3])               \* 2^56 - 1
Low(w)         == Word(w, <<0, 1, 0, 0, 0, 0, 0, 3, 1>>)       \* more than a word
Most7          == <<3, 3, 3, 3, 3, 3, 1, 0>>                   \* 2^55 - 1
Least7         == <<0, 0, 0, 0, 0, 0, 2, 3>>                   \* -2^55
Least(w)       == [i \in 1 .. w - 1 |-> 0] \o <<2>>
Sparse         == [i \in 1 .. 32 |-> IF i % 8 = 1 THEN i \div 8 ELSE 0]
Holder(n)      == Object(AddressObject, <<n>>)

Body(op, from, to) == [op |-> op, from |-> from, to |-> to]
Variable(slot, storage, ty) ==
  [slot |-> slot, storage |-> storage, index |-> None, field |-> None, ty |-> Rounded(ty)]
Entry_(slot, arg, ty) ==
  [slot |-> slot, storage |-> Persistent, index |-> arg, field |-> None, ty |-> ty]
Member(slot, arg, field, ty) == [Entry_(slot, arg, ty) EXCEPT !.field = field]

\* the types as they are declared
Exported(name, params, args, returns, rets, body) ==
  LET round(tys) == [i \in DOMAIN tys |-> Rounded(tys[i])]
  IN  Fn("function", <<>>, round(params), args, round(returns), rets)
      @@ [name |-> name, body |-> body]
Constructor(params, args, body) ==
  [Exported("__constructor", params, args, <<>>, {<<>>}, body) EXCEPT !.ty = "constructor"]
Nop == Body("none", None, None)
Echo(name, ty, values) == Exported(name, <<ty>>, {<<v>> : v \in values}, <<ty>>, {<<v>> : v \in values}, Nop)
Take(name, ty, values) == Exported(name, <<ty>>, {<<v>> : v \in values}, <<>>, {<<>>}, Nop)

Integers32(n) == {Word(n, <<2>>), Full(n)}
SorobanTypes == <<
  Constructor(<<>>, {<<>>}, Nop),
  Echo("bool", Bool, {<<0>>, <<1>>}),
  Echo("uint24", Uint(3), Integers32(4)), Echo("int32", Sint(4), Integers32(4)),
  Echo("uint56", Uint(7), {Word(8, <<2>>), Top7(8)}), Echo("int64", Sint(8), {Most7, Full(8), Least7}),
  Echo("uint128", Uint(16), {Word(16, <<1>>), Top7(16), Low(16), Full(16)}),
  Echo("int128", Sint(16), {Word(16, <<1>>), Low(16)}),
  Take("i128", Sint(16), {Full(16), Low(16)}),
  Echo("uint256", Uint(32), {Sparse, Full(32)}), Take("int256", Sint(32), {Word(32, <<1>>), Full(32), Least(32)}),
  Echo("address", Address, {Holder(1)}), Echo("string", String, {Object(StringObject, <<>>)}),
  Exported("two", <<Uint(8), Address>>, {<<Word(8, <<1>>), Holder(1)>>}, <<>>, {<<>>}, Nop) >>

Setter(name, p, params, args) == Exported(name, params, args, <<>>, {<<>>}, Body("store", None, p))
Getter(name, p, params, args) == Exported(name, params, args, <<p.ty>>, {}, Body("load", p, None))
Holders == {<<Holder(1)>>, <<Holder(2)>>}
Given_(keys, values) == {k \o v : k \in keys, v \in values}

Counter == Variable(0, Instance, Uint(8))
Limit   == Variable(1, Temporary, Uint(16))
Owner   == Variable(2, Persistent, Address)
Total   == Variable(3, Persistent, Sint(32))
Small   == Word(8, <<1>>)
Variables == <<
  Constructor(<<Uint(8)>>, {<<Small>>}, Body("store", None, Counter)),
  Setter("setCounter", Counter, <<Uint(8)>>, {<<Top7(8)>>}), Getter("counter", Counter, <<>>, {<<>>}),
  Setter("setLimit", Limit, <<Uint(16)>>, {<<Low(16)>>, <<Word(16, <<1>>)>>}), Getter("limit", Limit, <<>>, {<<>>}),
  Setter("setOwner", Owner, <<Address>>, Holders), Getter("owner", Owner, <<>>, {<<>>}),
  Setter("setTotal", Total, <<Sint(32)>>, {<<Full(32)>>}), Getter("total", Total, <<>>, {<<>>}) >>

\* a struct that is copied as a whole, and one that only its members are read of,
\* since one of them is wider than a word
Lock    == Struct(<<Uint(8), Address, Sint(4)>>)
Locks   == Entry_(1, 1, Lock)
Vault   == Struct(<<Address, Uint(16)>>)
Vaults  == Entry_(2, 1, Vault)
Balance == Entry_(0, 1, Uint(16))
Mappings == <<
  Constructor(<<>>, {<<>>}, Nop),
  Setter("setBalance", Balance, <<Address, Uint(16)>>, Given_(Holders, {<<Low(16)>>})),
  Getter("balance", Balance, <<Address>>, Holders),
  Setter("lock", Locks, <<Address, Uint(8), Address, Sint(4)>>,
         Given_(Holders, {<<Small, Holder(1), Full(4)>>})),
  Setter("setTime", Member(1, 1, 1, Uint(8)), <<Address, Uint(8)>>, Given_({<<Holder(1)>>}, {<<Top7(8)>>})),
  Setter("setDelta", Member(1, 1, 3, Sint(4)), <<Address, Sint(4)>>, Given_({<<Holder(2)>>}, {<<Word(4, <<2>>)>>})),
  Getter("time", Member(1, 1, 1, Uint(8)), <<Address>>, Holders),
  Getter("beneficiary", Member(1, 1, 2, Address), <<Address>>, Holders),
  Getter("delta", Member(1, 1, 3, Sint(4)), <<Address>>, Holders),
  Exported("move", <<Address, Address>>, {<<Holder(1), Holder(2)>>, <<Holder(2), Holder(1)>>}, <<>>, {<<>>},
           Body("copy", Locks, Entry_(1, 2, Lock))) >>
Wide == <<
  Constructor(<<>>, {<<>>}, Nop),
  Setter("open", Vaults, <<Address, Address, Uint(16)>>, Given_(Holders, {<<Holder(1), Top7(16)>>})),
  Setter("setAmount", Member(2, 1, 2, Uint(16)), <<Address, Uint(16)>>, Given_({<<Holder(2)>>}, {<<Low(16)>>})),
  Getter("owner", Member(2, 1, 1, Address), <<Address>>, Holders),
  Getter("amount", Member(2, 1, 2, Uint(16)), <<Address>>, Holders) >>

OnSoroban(inits, functions) ==
  Contract("soroban", [address |-> Holder(3), inits |-> inits, len |-> 0], functions)
Soroban_ == <<
  OnSoroban(<<>>, SorobanTypes),
  OnSoroban(<<[place |-> Total, value |-> Sparse]>>, Variables),
  OnSoroban(<<>>, Mappings),
  OnSoroban(<<>>, Wide) >>

MCContracts == Encodings("solana") \o Encodings("polkadot") \o Deployments \o Soroban_
=============================================================================
