----------------------------- MODULE Dispatch ------------------------------
(***************************************************************************)
(* One contract calls another: the caller encodes a selector and           *)
(* arguments, the dispatcher that is generated for the callee decodes      *)
(* them, runs a function and encodes what it returns, and the caller       *)
(* decodes that.  Both the call and the reply may come from a program that *)
(* Solang has not compiled, so a few bytes may differ from what was sent.  *)
(*                                                                         *)
(* codegen/dispatch/solana.rs with codegen/solana_deploy.rs,               *)
(* codegen/dispatch/polkadot.rs, and codegen/dispatch/soroban.rs with the  *)
(* contract data of emit/soroban/target.rs.  A call of a Soroban contract  *)
(* is a name and Vals, which the host hands over unchanged.                *)
(***************************************************************************)
EXTENDS AbiDecode, Soroban

CONSTANTS
  Contracts,        \* the callees: target, account and functions
  TryPacked,        \* whether arguments are also encoded with abi.encodePacked
  Noise,            \* digits that a tampered byte may become
  Pasts,            \* bytes found past the end of a buffer
  FixedLayoutSize   \* Solana: contract.fixed_layout_size

VARIABLES
  callee,   \* one of Contracts
  acct,     \* its account: length, and whether it holds the magic; on Soroban
            \* its data, and what the program has put there
  phase,
  call,     \* what the caller means: function, arguments, value; on Soroban
            \* who calls, and what it has authorised
  enc,      \* the buffer encoded last: allocated size and memory
  wire,     \* the bytes that arrive
  intact,   \* nothing has been changed on the way
  past,     \* the byte in the memory past the end of wire
  work,     \* what the callee does: function, arguments, account if it succeeds
  hi,       \* one past the last byte of wire that a decoded value depends on
  got       \* what the caller decodes from the reply

vars == <<callee, acct, phase, call, enc, wire, intact, past, work, hi, got>>

\* A contract has a target; on Solana, whether its @program_id is the one it
\* runs under, the annotations of its constructor (@payer given, @space or
\* None) and the length of its data account; on Soroban its address and the
\* initial values of its variables; and its functions in the order of all_cfg.
target    == callee.target
layout    == callee.layout
Functions == callee.functions
Slack     == 4     \* memory observed past the end of an encoded buffer
Nothing   == [f |-> 0, args |-> <<>>, acct |-> acct]
NoCall    == [f |-> 0, args |-> <<>>, value |-> 0, by |-> "contract", auth |-> EmptyVec]
NoBuffer  == [size |-> 0, mem |-> <<>>]
Encoder(packed) == [t |-> target, packed |-> packed]

\* the bytes of the vector that was allocated
Bytes(e) == SubSeq(e.mem, 1, e.size)

\* the compiler gets through the bodies of a Soroban contract
Compiles(contract) ==
  contract.target = "soroban" =>
    \A f \in DOMAIN contract.functions :
      LET body == contract.functions[f].body
      IN  /\ body.op \in {"load", "copy"} => ~DecodePanics(body.from.ty)
          /\ body.op \in {"store", "copy"} => ~EncodePanics(body.to.ty)

Init ==
  /\ \E i \in DOMAIN Contracts : callee = Contracts[i] /\ Compiles(Contracts[i])
  /\ acct = [len |-> layout.len, magic |-> FALSE, data |-> <<>>, want |-> <<>>]
  /\ phase = "idle" /\ call = NoCall /\ enc = NoBuffer /\ wire = <<>> /\ intact = TRUE
  /\ past \in Pasts /\ work = Nothing /\ hi = 0 /\ got = <<>>
-----------------------------------------------------------------------------
(* The caller.                                                             *)

\* the pallet, or the host, runs deploy once, and call afterwards
Callable(f) ==
  /\ Functions[f].public
  /\ Functions[f].ty \in {"constructor", "function"}
  /\ target # "solana" => (Functions[f].ty = "constructor" <=> ~acct.magic)

Payload(f, args) ==
  AbiEncode(Encoder(FALSE), <<BytesN(SelectorLength(target))>> \o Functions[f].params,
            <<Functions[f].selector>> \o args, Slack)

Send(f, args, value) ==
  /\ phase = "idle" /\ target # "soroban" /\ Callable(f)
  /\ call' = [NoCall EXCEPT !.f = f, !.args = args, !.value = value]
  /\ enc' = Payload(f, args)
  /\ wire' = Bytes(enc')
  /\ phase' = "sent" /\ intact' = TRUE
  /\ UNCHANGED <<callee, acct, past, work, hi, got>>

EncodePacked(f, args) ==
  /\ phase = "idle" /\ target # "soroban" /\ TryPacked
  /\ enc' = AbiEncode(Encoder(TRUE), Functions[f].params, args, Slack)
  /\ phase' = "packed"
  /\ UNCHANGED <<callee, acct, call, wire, intact, past, work, hi, got>>

\* what may arrive instead of b: it is cut short, a byte is added, or a byte or
\* a word of four is changed
Variants(b) ==
  {SubSeq(b, 1, n) : n \in 0 .. Len(b) - 1}
  \cup {Append(b, x) : x \in Noise}
  \cup {[j \in DOMAIN b |-> IF j \in i .. i + w - 1 THEN x ELSE b[j]] :
          i \in DOMAIN b, w \in {1, 4}, x \in Noise}

Tamper ==
  /\ phase \in {"sent", "replied"} /\ intact /\ target # "soroban"
  /\ wire' \in Variants(wire) \ {wire}
  /\ intact' = FALSE
  /\ UNCHANGED <<callee, acct, phase, call, enc, past, work, hi, got>>

\* Soroban.  Values that the Vals do not carry are left out: a 64 bit integer
\* of more than 56 bits, a 128 bit one whose low word alone looks small, and,
\* from a client, a small one that is negative.  A small one of 256 bits ends
\* the call.
Carried(by, ty, x) ==
  ty.k = "int" =>
    CASE ty.w = 4  -> TRUE
      [] ty.w = 8  -> Fits(ty, x)
      [] ty.w = 16 -> /\ x[8] = 0 => IsZero(SubSeq(x, 8, 16))
                      /\ by = "client" /\ Fits(ty, x) => ~(ty.signed /\ Negative(x))
      [] ty.w = 32 -> TRUE

\* addr.call(abi.encode("name", arguments..)), or a client's invocation
SorobanPayload(f, args, by) ==
  <<SymbolVal(Functions[f].name)>>
  \o (IF by = "contract" THEN SorobanEncode(Functions[f].params, args)
      ELSE [i \in DOMAIN args |-> ClientVal(Functions[f].params[i], args[i])])

\* a contract authorises its call first; abi.decode can only read a uint64
SorobanSend(f, args, by) ==
  /\ phase = "idle" /\ target = "soroban" /\ Callable(f)
  /\ \A i \in DOMAIN args : Carried(by, Functions[f].params[i], args[i])
  /\ by = "contract" => Functions[f].returns \in {<<>>, <<Uint(8)>>}
  /\ call' = [f |-> f, args |-> args, value |-> 0, by |-> by,
              auth |-> IF by = "client" THEN EmptyVec
                       ELSE AuthAsCurrContract(layout.address, Functions[f].name,
                                               Functions[f].params, args)]
  /\ wire' = SorobanPayload(f, args, by)
  /\ phase' = "sent" /\ intact' = TRUE
  /\ UNCHANGED <<callee, acct, enc, past, work, hi, got>>
-----------------------------------------------------------------------------
(* The dispatcher.                                                         *)

Entry(ty)  == {f \in DOMAIN Functions : Functions[f].public /\ Functions[f].ty = ty}
Selected(S) ==
  {f \in S : Len(wire) >= SelectorLength(target)
             /\ SubSeq(wire, 1, SelectorLength(target)) = Functions[f].selector}
Arguments == [t |-> target, past |-> past,
              buf |-> SubSeq(wire, SelectorLength(target) + 1, Len(wire))]

Run(f, args, a, h) ==
  /\ work' = [f |-> f, args |-> args, acct |-> a] /\ hi' = h
  /\ phase' = "running"
Refuse == phase' = "refused" /\ UNCHANGED <<work, hi>>

\* the decoded arguments of f, if decoding succeeds
WithArguments(f, a) ==
  LET d == AbiDecodeArgs(Arguments, Functions[f].params)
  IN  IF d.ok THEN Run(f, d.v, a, d.hi) ELSE Refuse

\* check_magic
MagicIs(magic) == acct.magic = magic

SolanaFunction(f) ==
  IF Functions[f].data /\ ~MagicIs(TRUE) THEN Refuse ELSE WithArguments(f, acct)

\* solana_deploy: the length that the account has afterwards, or None
SolanaDeploy ==
  CASE ~layout.programId -> None
    [] layout.programId /\ acct.len # 0 -> IF acct.len >= FixedLayoutSize THEN acct.len ELSE None
    [] layout.programId /\ acct.len = 0 ->
         IF ~layout.payer THEN None
         ELSE IF layout.space = None THEN FixedLayoutSize
         ELSE IF layout.space >= FixedLayoutSize THEN layout.space ELSE None

SolanaConstructor(f) ==
  LET deployed == [acct EXCEPT !.len = SolanaDeploy, !.magic = TRUE]
      params == Functions[f].params
  IN  IF ~MagicIs(FALSE) THEN Refuse
      ELSE IF params # <<>> /\ ~AbiDecodeArgs(Arguments, params).ok THEN Refuse
      ELSE IF SolanaDeploy = None THEN Refuse
      ELSE IF params = <<>> THEN Run(f, <<>>, deployed, 0)
      ELSE LET d == AbiDecodeArgs(Arguments, params) IN Run(f, d.v, deployed, d.hi)

SolanaFallback ==
  IF Entry("fallback") = {} THEN Refuse
  ELSE LET f == Min(Entry("fallback"))
       IN  IF Functions[f].data /\ ~MagicIs(TRUE) THEN Refuse ELSE Run(f, <<>>, acct, 0)

SolanaDispatch ==
  /\ phase = "sent" /\ target = "solana"
  /\ LET S == Selected(Entry("function") \cup Entry("constructor"))
     IN  IF S = {} THEN SolanaFallback
         ELSE LET f == Min(S) IN IF Functions[f].ty = "function" THEN SolanaFunction(f)
                                 ELSE SolanaConstructor(f)
  /\ UNCHANGED <<callee, acct, call, enc, wire, intact, past, got>>

\* dispatch_case
PolkadotCase(f) ==
  IF Functions[f].nonpayable /\ call.value > 0 THEN Refuse
  ELSE IF Functions[f].params = <<>> THEN Run(f, <<>>, [acct EXCEPT !.magic = TRUE], 0)
  ELSE WithArguments(f, [acct EXCEPT !.magic = TRUE])

FallbackOrReceive(ty) ==
  LET S == Entry(IF call.value > 0 THEN "receive" ELSE "fallback")
  IN  IF ty = "constructor" \/ S = {} THEN Refuse
      ELSE Run(Max(S), <<>>, acct, 0)

\* the pallet calls deploy for a constructor and call for a function
PolkadotDispatch ==
  /\ phase = "sent" /\ target = "polkadot"
  /\ LET ty == Functions[call.f].ty
         S  == Selected(Entry(ty))
     IN  IF S = {} THEN FallbackOrReceive(ty) ELSE PolkadotCase(Min(S))
  /\ UNCHANGED <<callee, acct, call, enc, wire, intact, past, got>>

\* what the program has put in a place: in every field of it, for a struct
PlacesOf(p, xs) ==
  LET index == IF p.index = None THEN <<>> ELSE xs[p.index]
  IN  IF p.ty.k = "struct" THEN [i \in DOMAIN p.ty.fields |-> <<p.slot, index, i>>]
      ELSE <<<<p.slot, index, p.field>>>>
TypesOf(p) == IF p.ty.k = "struct" THEN p.ty.fields ELSE <<p.ty>>
Noted(want, places, parts) ==
  [k \in DOMAIN want \cup Range(places) |->
     IF k \in Range(places) THEN parts[CHOOSE i \in DOMAIN places : places[i] = k] ELSE want[k]]
Zero(ty) == CASE ty.k = "bool" -> <<0>> [] ty.k = "int" -> Zeros(ty.w) [] OTHER -> Zeros(ValBytes)
Wanted(want, p, xs) ==
  LET places == PlacesOf(p, xs)
  IN  [i \in DOMAIN places |->
         IF places[i] \in DOMAIN want THEN want[places[i]] ELSE Zero(TypesOf(p)[i])]

\* x is stored at p; the program means the parts
Assign(a, p, xs, x, parts) ==
  [a EXCEPT !.data = StorageStore(@, p, xs, x), !.want = Noted(@, PlacesOf(p, xs), parts)]

\* storage_initializer
Initialised(a) ==
  FoldLeft(LAMBDA b, init : Assign(b, init.place, <<>>, init.value, <<init.value>>),
           [a EXCEPT !.magic = TRUE], layout.inits)

\* the function that is exported for f
SorobanWrapper(f) ==
  LET vals == Tail(wire)
      xs   == [i \in DOMAIN vals |-> SorobanDecodeArg(Functions[f].params[i], vals[i])]
  IN  IF \E i \in DOMAIN xs : xs[i] = Trap THEN Refuse
      ELSE Run(f, xs, IF Functions[f].ty = "constructor" THEN Initialised(acct) ELSE acct, 0)

SorobanDispatch ==
  /\ phase = "sent" /\ target = "soroban"
  /\ \E f \in DOMAIN Functions :
       Functions[f].public /\ SymbolVal(Functions[f].name) = wire[1] /\ SorobanWrapper(f)
  /\ UNCHANGED <<callee, acct, call, enc, wire, intact, past, got>>

\* the body of a Soroban function loads a place and returns it or stores it
\* elsewhere, or stores its last arguments; the wrapper returns a value or Void
Given(p) == SubSeq(work.args, Len(work.args) - Len(TypesOf(p)) + 1, Len(work.args))
Effect(body) ==
  LET a == work.acct
      xs == work.args
  IN  CASE body.op \in {"none", "load"} -> a
        [] body.op = "store" ->
             Assign(a, body.to, xs, IF body.to.ty.k = "struct" THEN Given(body.to) ELSE Given(body.to)[1],
                    Given(body.to))
        [] body.op = "copy" ->
             Assign(a, body.to, xs, LoadStorage(a.data, body.from, xs), Wanted(a.want, body.from, xs))
EncodeReturn(f, rets) ==
  IF Len(rets) = 1 THEN <<SorobanEncodeArg(Functions[f].returns[1], rets[1])>> ELSE <<Void>>

SorobanReturn(rets) ==
  LET body == Functions[work.f].body IN
  /\ phase = "running" /\ target = "soroban"
  /\ body.op \in {"load", "copy"} => LoadStorage(work.acct.data, body.from, work.args) # Trap
  /\ acct' = Effect(body)
  /\ wire' = EncodeReturn(work.f, rets) /\ got' = rets /\ phase' = "replied"
  /\ UNCHANGED <<callee, call, enc, intact, past, work, hi>>

SorobanReceive ==
  /\ phase = "replied" /\ target = "soroban"
  /\ LET tys == Functions[call.f].returns
         read(ty) == IF call.by = "client" THEN ClientValue(ty, wire[1])
                     ELSE SorobanDecodeArg(Uint(8), wire[1])
     IN  /\ work' = [work EXCEPT !.args = [i \in DOMAIN tys |-> read(tys[i])]]
         /\ phase' = "received"
  /\ UNCHANGED <<callee, acct, call, enc, wire, intact, past, hi, got>>

\* the body returns, and the dispatcher encodes what it returns; the host keeps
\* what the call has done
Return(rets) ==
  /\ phase = "running" /\ target # "soroban"
  /\ enc' = AbiEncode(Encoder(FALSE), Functions[work.f].returns, rets, Slack)
  /\ wire' = Bytes(enc') /\ intact' = TRUE
  /\ acct' = work.acct
  /\ got' = rets
  /\ phase' = "replied"
  /\ UNCHANGED <<callee, call, past, work, hi>>

\* the body reverts: the host discards everything the call has done
Abort ==
  /\ phase = "running"
  /\ phase' = "aborted"
  /\ UNCHANGED <<callee, acct, call, enc, wire, intact, past, work, hi, got>>

\* the caller decodes the reply as the types that it knows of the function it
\* meant to call; `got` becomes what it reads
Receive ==
  /\ phase = "replied" /\ target # "soroban"
  /\ LET tys == Functions[call.f].returns
         d == AbiDecodeArgs([t |-> target, past |-> past, buf |-> wire], tys)
     IN  /\ phase' = IF tys = <<>> \/ d.ok THEN "received" ELSE "failed"
         /\ hi' = d.hi
         /\ work' = [work EXCEPT !.args = d.v]
  /\ UNCHANGED <<callee, acct, call, enc, wire, intact, past, got>>

Finish ==
  /\ phase \in {"packed", "refused", "aborted", "received", "failed"}
  /\ phase' = "idle" /\ call' = NoCall /\ enc' = NoBuffer /\ wire' = <<>> /\ intact' = TRUE
  /\ work' = Nothing /\ hi' = 0 /\ got' = <<>>
  /\ UNCHANGED <<callee, acct, past>>

\* what the body of a Soroban function may return
Results ==
  IF work.f = 0 \/ target # "soroban" THEN {}
  ELSE IF Functions[work.f].body.op # "load" THEN Functions[work.f].rets
  ELSE {<<LoadStorage(work.acct.data, Functions[work.f].body.from, work.args)>>}

Next ==
  \/ \E f \in DOMAIN Functions : \E args \in Functions[f].args :
       \/ \E value \in IF target = "solana" THEN {0} ELSE {0, 1} : Send(f, args, value)
       \/ EncodePacked(f, args)
       \/ \E by \in {"client", "contract"} : SorobanSend(f, args, by)
  \/ Tamper
  \/ SolanaDispatch
  \/ PolkadotDispatch
  \/ SorobanDispatch
  \/ \E rets \in IF work.f = 0 THEN {} ELSE Functions[work.f].rets : Return(rets)
  \/ \E rets \in Results : SorobanReturn(rets)
  \/ SorobanReceive
  \/ Abort
  \/ Receive
  \/ Finish

Spec == Init /\ [][Next]_vars
-----------------------------------------------------------------------------
(* Properties.                                                             *)

\* abi_encode allocates what calculate_size_args computes and then writes
\* without any check: every byte of the buffer is written, none past its end.
SizeExact == \A i \in DOMAIN enc.mem : i <= enc.size <=> enc.mem[i] # Undef

\* No value that decoding accepts holds a byte from past the end of its
\* buffer, although BufferValidator leaves out the checks that an earlier one
\* makes unnecessary.
InsideBuffer ==
  /\ phase = "running" /\ target # "soroban" => hi <= Max({0, Len(wire) - SelectorLength(target)})
  /\ phase = "received" => hi <= Len(wire)

\* The dispatchers of Polkadot, and of a Solana constructor, decode nothing
\* for a function without parameters, and accept any bytes after its selector.
IgnoresRest(f) ==
  /\ Functions[f].params = <<>>
  /\ target = "polkadot" \/ Functions[f].ty = "constructor"

\* the bytes on the wire mean a call of f with these arguments
Means(f, args) ==
  /\ Functions[f].public /\ Functions[f].ty \in {"constructor", "function"}
  /\ target = "polkadot" => Functions[f].ty = Functions[call.f].ty
  /\ IsPrefix(Functions[f].selector, wire)
  /\ ~IgnoresRest(f) =>
       wire \in Joined({Functions[f].selector}, FormsOfAll(target, Functions[f].params, args))

\* what may keep the callee from running f, bytes apart
Allowed(f) ==
  CASE target = "polkadot" -> call.value > 0 => ~Functions[f].nonpayable
    [] Functions[f].ty = "function" -> Functions[f].data => acct.magic
    [] OTHER -> /\ ~acct.magic /\ layout.programId
                /\ \/ acct.len >= FixedLayoutSize
                   \/ /\ acct.len = 0 /\ layout.payer
                      /\ layout.space = None \/ layout.space >= FixedLayoutSize

\* A function only runs with arguments that the bytes of the call mean and on
\* an account that is ready for it (a constructor on one that has not been
\* initialised, which it leaves with room for the fixed layout), fallback and
\* receive only when the bytes begin with no selector.
RunsWhatIsMeant ==
  phase = "running" /\ target # "soroban" =>
    IF Functions[work.f].ty \in {"fallback", "receive"}
    THEN \A f \in DOMAIN Functions :
           Functions[f].public /\ Functions[f].ty = Functions[call.f].ty
             => ~IsPrefix(Functions[f].selector, wire)
    ELSE /\ Means(work.f, work.args) /\ Allowed(work.f)
         /\ target = "solana" /\ (Functions[work.f].data \/ Functions[work.f].ty = "constructor")
              => work.acct.magic /\ work.acct.len >= FixedLayoutSize

\* No call is lost: one that the callee refuses means nothing that it allows.
\* A Soroban contract reads every Val that it is given, except a 256 bit integer
\* that a client has put in the Val itself.
RefusedMeansNothing ==
  phase = "refused" =>
    IF target = "soroban"
    THEN \E i \in DOMAIN Functions[call.f].params :
           LET ty == Functions[call.f].params[i]
           IN  call.by = "client" /\ ty.k = "int" /\ ty.w = 32 /\ Fits(ty, call.args[i])
    ELSE \A f \in DOMAIN Functions : Callable(f) /\ Allowed(f) =>
           \A args \in Functions[f].args : ~Means(f, args)

\* What one side encodes the other decodes to the same values: the arguments
\* on the way there, the returned values on the way back, and, on Soroban, what
\* one call stores under the keys of the host a later one loads: from a
\* variable, an entry of a mapping, or a struct as a whole and by its members.
\* A contract authorises the very call that it then makes.
EndToEnd ==
  /\ phase = "sent" /\ call.by = "contract" /\ target = "soroban" =>
       Authorises(call.auth, layout.address, Functions[call.f].name, Tail(wire))
  /\ phase = "replied" /\ target = "soroban" /\ Functions[work.f].body.op = "load" =>
       LET p == Functions[work.f].body.from
       IN  \/ p.ty.k \in {"address", "string"} /\ PlacesOf(p, work.args)[1] \notin DOMAIN acct.want
           \/ got = Wanted(acct.want, p, work.args)
  /\ phase = "running" /\ intact => work.f = call.f /\ work.args = call.args
  /\ phase \in {"received", "failed"} /\ intact /\ work.f = call.f =>
       phase = "received" /\ work.args = got
=============================================================================
