--------------------------- MODULE SolanaAccounts ---------------------------
(***************************************************************************)
(* The accounts of Solana functions.  A transaction on Solana names every  *)
(* account it touches, so the compiler works out for every function which  *)
(* accounts it needs and writes them, in order, to the IDL that clients    *)
(* build transactions from.  Semantic analysis gives a function the        *)
(* accounts it declares and, if its own body touches storage, the data     *)
(* account.  After code generation a work list adds, contract by contract, *)
(* the accounts of builtins and of everything a function calls, until      *)
(* nothing new is added.  Calls to other contracts without an accounts     *)
(* argument are then given an array that picks the callee's accounts out   *)
(* of the caller's.  At run time storage is the first account.             *)
(*                                                                         *)
(* Contracts have no bases here, so a function has one graph and one       *)
(* number.  A body is the sequence of its instructions in the order of the *)
(* breadth-first walk over the blocks.                                     *)
(***************************************************************************)
EXTENDS Integers, Sequences

CONSTANTS Programs,  \* sequences of functions: see Functions
          Idents     \* the names that accounts are declared with

(* account_declaration refuses the names of BuiltinAccounts.               *)
ASSUME IdentsNotReserved ==
  Idents \intersect {"dataAccount", "systemProgram", "clock", "SysvarInstruction"} = {}

VARIABLES prog,      \* the functions, numbered over all contracts
          accounts,  \* for every function its accounts, in the order of the IDL
          stage,     \* how far the compilation is: start, visit, manage, done
          contract,  \* the contract at hand
          visiting,  \* the functions of this pass, in order
          pos,       \* the next of them
          work,      \* what a pass has gathered: [accounts, next, added, errors]
          old,       \* the number of accounts added before this pass
          metas      \* for every function, the accounts its calls pass on

vars == <<prog, accounts, stage, contract, visiting, pos, work, old, metas>>

-----------------------------------------------------------------------------
(* Accounts.  A name is a pair: the account "dataAccount" is the contract's *)
(* own with 0 and that of contract c with c.                                *)
DataAccount   == <<"dataAccount", 0>>
DataOf(c)     == <<"dataAccount", c>>
ProgramId(c)  == <<"programId", c>>
SystemAccount == <<"systemProgram", 0>>
ClockAccount  == <<"clock", 0>>
InstructionAccount == <<"SysvarInstruction", 0>>

Codegen == <<0, 0>>  \* the location of what has none in the source

SolanaAccount(name, signer, writer, generated, loc) ==
  [name |-> name, signer |-> signer, writer |-> writer, generated |-> generated, loc |-> loc]

Generated(name) == SolanaAccount(name, FALSE, FALSE, TRUE, Codegen)

(* IndexMap: insert replaces the value of a key in its place.              *)
IndexOf(list, name) == IF \E i \in DOMAIN list : list[i].name = name
                       THEN CHOOSE i \in DOMAIN list : list[i].name = name
                       ELSE 0

Insert(list, account) == LET i == IndexOf(list, account.name)
                         IN  IF i = 0 THEN Append(list, account)
                             ELSE [list EXCEPT ![i] = account]

MoveToFront(list, i) ==
  [j \in DOMAIN list |-> IF j = 1 THEN list[i] ELSE IF j <= i THEN list[j - 1] ELSE list[j]]

(* IndexSet.                                                               *)
Elements(s) == {s[i] : i \in DOMAIN s}

Enqueue(queue, f) == IF f \in Elements(queue) THEN queue ELSE Append(queue, f)

-----------------------------------------------------------------------------
(* A function: [contract, kind, declared, payer, seed, body]; declared is  *)
(* a sequence of [name, signer, writer], payer tells whether one of them   *)
(* is a @payer.  The instructions that matter:                             *)
(*   load, store           storage of the contract, or tx.accounts.dataAccount *)
(*   clock, signature, hash, address    builtins                           *)
(*   account               tx.accounts.name, for a declared name           *)
(*   internal(f)           a call of a function of the contract            *)
(*   call(f), new(c, f)    a call or construction of another contract, with *)
(*                         its accounts argument absent, present or none;  *)
(*                         literal when the address is a @program_id, f = 0 *)
(*                         for a default constructor                       *)
DeclaredNames == Idents \X {0}

Instructions(p) ==
  LET given == {"absent", "present", "none"}
  IN  [op : {"load", "store", "clock", "signature", "hash", "address"}]
        \union [op : {"account"}, name : DeclaredNames]
        \union [op : {"internal"}, f : DOMAIN p]
        \union [op : {"call"}, f : DOMAIN p, accounts : given, literal : BOOLEAN]
        \union [op : {"new"}, c : Nat \ {0}, f : {0} \union DOMAIN p, accounts : given, literal : BOOLEAN]

Functions(p) ==
  [contract : Nat \ {0}, kind : {"constructor", "external", "public", "fallback", "internal"},
   declared : Seq([name : DeclaredNames, signer : BOOLEAN, writer : BOOLEAN]),
   payer : BOOLEAN, seed : BOOLEAN, body : Seq(Instructions(p))]

(* What semantic analysis lets through: a call stays in the contract or    *)
(* names the callee's, a constructor is not called like a function, a      *)
(* @payer is declared, and so is every account that is used.               *)
WellFormed(p) ==
  /\ p \in Seq(Functions(p)) /\ p # <<>>
  /\ \A f \in DOMAIN p :
       /\ p[f].payer => p[f].declared # <<>>
       /\ \A i \in DOMAIN p[f].body :
            LET ins == p[f].body[i]
            IN  /\ ins.op = "internal" => /\ p[ins.f].contract = p[f].contract
                                          /\ p[ins.f].kind # "constructor"
                /\ ins.op = "new" /\ ins.f # 0 => p[ins.f].contract = ins.c
                /\ ins.op = "account" => \E d \in DOMAIN p[f].declared : p[f].declared[d].name = ins.name

ASSUME ProgramsWellFormed == \A p \in Programs : WellFormed(p)

Public(f)      == f.kind \in {"constructor", "external", "public", "fallback"}
Instr(op)      == [op |-> op]
FunctionsOf(p, c) ==
  LET first[n \in 0 .. Len(p)] ==
        IF n = 0 THEN <<>>
        ELSE IF p[n].contract = c THEN Append(first[n - 1], n) ELSE first[n - 1]
  IN  first[Len(p)]
NumContracts(p) == CHOOSE n \in {p[i].contract : i \in DOMAIN p} :
                     \A i \in DOMAIN p : p[i].contract <= n

Uses(f, ops) == \E i \in DOMAIN f.body : f.body[i].op \in ops

(* account_declaration and the end of check_mutability.                    *)
Declared(p, f) ==
  [i \in DOMAIN p[f].declared |->
     LET d == p[f].declared[i] IN SolanaAccount(d.name, d.signer, d.writer, FALSE, <<f, -i>>)]

WithDataAccount(f, list) ==
  IF Uses(f, {"load", "store"})
  THEN Insert(list, SolanaAccount(DataAccount, FALSE, Uses(f, {"store"}), TRUE, Codegen))
  ELSE list

(* check_mutability returns at once for a function declared `virtual`,     *)
(* whose use of storage is then not seen: there are none in these programs.*)
SemaAccounts(p, f) ==
  LET list == WithDataAccount(p[f], Declared(p, f))
  IN  IF p[f].kind = "constructor"
      THEN Insert(list, SolanaAccount(DataAccount, p[f].payer /\ ~p[f].seed, TRUE, TRUE, Codegen))
      ELSE list

-----------------------------------------------------------------------------
(* RecurseData::add_account: the flags add up, and only a name that is new *)
(* counts.                                                                 *)
AddAccount(w, f, a) ==
  LET i == IndexOf(w.accounts[f], a.name)
      was == IF i = 0 THEN Generated(a.name) ELSE w.accounts[f][i]
  IN  [w EXCEPT !.accounts[f] = Insert(@, SolanaAccount(a.name, a.signer \/ was.signer,
                                                        a.writer \/ was.writer, TRUE, a.loc)),
                !.added = @ + (IF i = 0 THEN 1 ELSE 0)]

(* transfer_accounts: an account that a callee in contract c needs.        *)
TransferAccount(w, f, c, loc, a) ==
  LET data == a.name = DataAccount
      name == IF data THEN DataOf(c) ELSE a.name
      i    == IndexOf(w.accounts[f], name)
  IN  IF data /\ i # 0
      THEN [w EXCEPT !.errors = @ \/ w.accounts[f][i].loc # loc]
      ELSE [AddAccount(w, f, SolanaAccount(name, a.signer, a.writer, TRUE, IF data THEN loc ELSE a.loc))
              EXCEPT !.errors = @ \/ (i # 0 /\ ~w.accounts[f][i].generated)]

(* check_instruction, with check_expression for the builtins: the accounts *)
(* an instruction adds, from = 0, or transfers from a contract, and the    *)
(* functions to visit again.                                               *)
BuiltinAccount == [clock |-> ClockAccount, signature |-> InstructionAccount,
                   hash |-> SystemAccount, address |-> SystemAccount]

Adds(list)         == [i \in DOMAIN list |-> [from |-> 0, a |-> list[i]]]
Transfers(c, list) == [i \in DOMAIN list |-> [from |-> c, a |-> list[i]]]
AddsNamed(name)    == Adds(<<Generated(name)>>)

CallAccounts(p, lists, ins) ==
  LET c == p[ins.f].contract
  IN  AddsNamed(SystemAccount)
        \o (IF ins.literal THEN AddsNamed(ProgramId(c)) ELSE <<>>)
        \o (IF ins.accounts = "absent" THEN Transfers(c, lists[ins.f]) ELSE <<>>)

ConstructorAccounts(lists, ins, loc) ==
  (IF ins.literal THEN AddsNamed(ProgramId(ins.c)) ELSE <<>>)
    \o (CASE ins.accounts = "present" -> <<>>
          [] ins.accounts # "present" /\ ins.f # 0 -> Transfers(ins.c, lists[ins.f])
          [] OTHER -> Adds(<<SolanaAccount(DataOf(ins.c), FALSE, TRUE, TRUE, loc)>>))
    \o AddsNamed(SystemAccount)

AccountsOf(p, lists, ins, loc) ==
  CASE ins.op \in DOMAIN BuiltinAccount -> AddsNamed(BuiltinAccount[ins.op])
    [] ins.op = "internal" -> Adds(lists[ins.f])
    [] ins.op = "call"     -> CallAccounts(p, lists, ins)
    [] ins.op = "new"      -> ConstructorAccounts(lists, ins, loc)
    [] OTHER -> <<>>

Revisits(ins) ==
  \/ ins.op = "internal"
  \/ ins.op = "call" /\ ins.accounts = "absent"
  \/ ins.op = "new" /\ ins.f # 0 /\ ins.accounts # "present"

(* The element of a set of one: what is written {Op(v) : v \in {x}} is *)
(* Op(x), with x evaluated once.                                           *)
Only(S) == CHOOSE x \in S : TRUE

AddOne(w, f, loc, x) ==
  IF x.from = 0 THEN AddAccount(w, f, x.a) ELSE TransferAccount(w, f, x.from, loc, x.a)

Queued(w, f, ins) ==
  IF Revisits(ins) THEN [w EXCEPT !.next = Enqueue(Enqueue(@, ins.f), f)] ELSE w

AddAll(w, f, loc, list) ==
  LET first[n \in 0 .. Len(list)] ==
        IF n = 0 THEN w ELSE Only({AddOne(v, f, loc, list[n]) : v \in {first[n - 1]}})
  IN  first[Len(list)]

CheckInstruction(p, w, f, i) ==
  LET ins == p[f].body[i]
  IN  Only({AddAll(Queued(w, f, ins), f, <<f, i>>, list) :
              list \in {AccountsOf(p, w.accounts, ins, <<f, i>>)}})

CheckFunction(p, w, f) ==
  LET first[n \in 0 .. Len(p[f].body)] ==
        IF n = 0 THEN w ELSE Only({CheckInstruction(p, v, f, n) : v \in {first[n - 1]}})
  IN  first[Len(p[f].body)]

-----------------------------------------------------------------------------
\* Mutant: the data account stays where it was.
DataFirst_Last(f, list) ==
  IF f.kind = "constructor" /\ f.payer THEN Insert(list, Generated(SystemAccount)) ELSE list

(* collect_accounts_from_contract.                                         *)
DataFirst(f, list) ==
  LET i == IndexOf(list, DataAccount)
      front == IF Public(f) /\ f.kind # "fallback" /\ i # 0 THEN MoveToFront(list, i) ELSE list
  IN  IF f.kind = "constructor" /\ f.payer THEN Insert(front, Generated(SystemAccount)) ELSE front

\* Mutant: the accounts added are not looked at.
Converged_Queue == Len(visiting) = Len(work.next)

Converged == old = work.added /\ Len(visiting) = Len(work.next)

StartContract ==
  /\ stage = "start"
  /\ LET mine == FunctionsOf(prog, contract)
         lists == [f \in DOMAIN prog |->
                     IF f \in Elements(mine) THEN DataFirst(prog[f], accounts[f]) ELSE accounts[f]]
     IN  /\ visiting' = mine
         /\ work' = [accounts |-> lists, next |-> <<>>, added |-> 0, errors |-> work.errors]
  /\ stage' = "visit" /\ pos' = 1 /\ old' = 0
  /\ UNCHANGED <<prog, accounts, contract, metas>>

VisitFunction ==
  /\ stage = "visit" /\ pos <= Len(visiting)
  /\ work' = CheckFunction(prog, work, visiting[pos])
  /\ pos' = pos + 1
  /\ UNCHANGED <<prog, accounts, stage, contract, visiting, old, metas>>

\* Mutant: the queues are swapped and the next one is not cleared.
NextPass_NoClear ==
  /\ stage = "visit" /\ pos > Len(visiting) /\ ~Converged
  /\ visiting' = work.next /\ old' = work.added /\ pos' = 1
  /\ work' = [work EXCEPT !.next = visiting]
  /\ UNCHANGED <<prog, accounts, stage, contract, metas>>

NextPass ==
  /\ stage = "visit" /\ pos > Len(visiting) /\ ~Converged
  /\ visiting' = work.next /\ old' = work.added /\ pos' = 1
  /\ work' = [work EXCEPT !.next = <<>>]
  /\ UNCHANGED <<prog, accounts, stage, contract, metas>>

(* The work list of the contract is done: go on to the next contract, and  *)
(* after the last one to the calls.                                        *)
EndContract ==
  /\ stage = "visit" /\ pos > Len(visiting) /\ Converged
  /\ accounts' = work.accounts
  /\ visiting' = <<>> /\ pos' = 1 /\ old' = 0
  /\ work' = [work EXCEPT !.accounts = <<>>, !.next = <<>>, !.added = 0]
  /\ IF contract < NumContracts(prog)
     THEN stage' = "start" /\ contract' = contract + 1
     ELSE stage' = "manage" /\ contract' = 1
  /\ UNCHANGED <<prog, metas>>

-----------------------------------------------------------------------------
(* process_instruction: an account meta is the place of the account among  *)
(* the accounts of the function, with the flags the callee has for it. The *)
(* place 0 is an unwrap that fails.                                        *)
Meta(f, name, signer, writer) ==
  [index |-> IndexOf(accounts[f], name), name |-> name, signer |-> signer, writer |-> writer]

\* Mutant: the data account of the callee is looked up under its own name.
MetasOf_NoRename(f, c, callee) ==
  [i \in DOMAIN accounts[callee] |->
     LET a == accounts[callee][i] IN Meta(f, a.name, a.signer, a.writer)]

MetasOf(f, c, callee) ==
  [i \in DOMAIN accounts[callee] |->
     LET a == accounts[callee][i]
     IN  Meta(f, IF a.name = DataAccount THEN DataOf(c) ELSE a.name, a.signer, a.writer)]

ProcessInstruction(f, ins) ==
  CASE ins.op = "call" /\ ins.accounts = "absent" -> MetasOf(f, prog[ins.f].contract, ins.f)
    [] ins.op = "new" /\ ins.f # 0 /\ ins.accounts = "absent" -> MetasOf(f, ins.c, ins.f)
    [] ins.op = "new" /\ ins.f = 0 -> <<Meta(f, DataOf(ins.c), FALSE, TRUE)>>
    [] ins.op = "account" -> <<Meta(f, ins.name, FALSE, FALSE)>>
    [] OTHER -> <<>>

(* The instruction of the dispatcher that creates the data account.        *)
DeployMetas(f) ==
  IF prog[f].kind = "constructor" /\ prog[f].payer
  THEN <<Meta(f, prog[f].declared[1].name, TRUE, TRUE), Meta(f, DataAccount, TRUE, TRUE)>>
  ELSE <<>>

ManageContract ==
  /\ stage = "manage"
  /\ metas' = [f \in DOMAIN prog |->
                 IF prog[f].contract # contract THEN metas[f]
                 ELSE Append([i \in DOMAIN prog[f].body |-> ProcessInstruction(f, prog[f].body[i])],
                             DeployMetas(f))]
  /\ IF contract < NumContracts(prog)
     THEN contract' = contract + 1 /\ UNCHANGED stage
     ELSE stage' = "done" /\ UNCHANGED contract
  /\ UNCHANGED <<prog, accounts, visiting, pos, work, old>>

Finished == stage = "done" /\ UNCHANGED vars

Init ==
  /\ prog \in Programs
  /\ accounts = [f \in DOMAIN prog |-> SemaAccounts(prog, f)]
  /\ stage = "start" /\ contract = 1
  /\ visiting = <<>> /\ pos = 1 /\ old = 0
  /\ work = [accounts |-> <<>>, next |-> <<>>, added |-> 0, errors |-> FALSE]
  /\ metas = [f \in DOMAIN prog |-> <<>>]

Next == StartContract \/ VisitFunction \/ NextPass \/ EndContract \/ ManageContract \/ Finished

Spec == Init /\ [][Next]_vars /\ WF_vars(Next)

-----------------------------------------------------------------------------
(* What a function needs, from the calls alone: the accounts of its own    *)
(* instructions and of the functions of its contract that it reaches, and  *)
(* what the functions of other contracts that these call need.             *)
Need(name, signer, writer) == [name |-> name, signer |-> signer, writer |-> writer]

OwnNeeds(p, f) ==
  LET body == Elements(p[f].body)
      Ops(ops) == {ins \in body : ins.op \in ops}
  IN  {Need(d.name, d.signer, d.writer) : d \in Elements(p[f].declared)}
        \union {Need(DataAccount, FALSE, ins.op = "store") : ins \in Ops({"load", "store"})}
        \union {Need(BuiltinAccount[ins.op], FALSE, FALSE) : ins \in Ops(DOMAIN BuiltinAccount)}
        \union {Need(SystemAccount, FALSE, FALSE) : ins \in Ops({"call", "new"})}
        \union {Need(ProgramId(p[ins.f].contract), FALSE, FALSE) : ins \in {i \in Ops({"call"}) : i.literal}}
        \union {Need(ProgramId(ins.c), FALSE, FALSE) : ins \in {i \in Ops({"new"}) : i.literal}}
        \union {Need(DataOf(ins.c), FALSE, TRUE) :
                  ins \in {i \in Ops({"new"}) : i.f = 0 /\ i.accounts # "present"}}
        \union (IF p[f].kind # "constructor" THEN {}
                ELSE {Need(DataAccount, p[f].payer /\ ~p[f].seed, TRUE)}
                       \union (IF p[f].payer THEN {Need(SystemAccount, FALSE, FALSE)} ELSE {}))

InternalCallees(p, f) == {ins.f : ins \in {i \in Elements(p[f].body) : i.op = "internal"}}

ExternalCallees(p, f) ==
  {ins.f : ins \in {i \in Elements(p[f].body) :
                      \/ i.op = "call" /\ i.accounts = "absent"
                      \/ i.op = "new" /\ i.f # 0 /\ i.accounts # "present"}}

(* Whatever is linked through a chain of links, or is the same: first[k]   *)
(* are the pairs with a chain whose inner links are among the first k.     *)
Chains(n, links) ==
  LET first[k \in 0 .. n] ==
        IF k = 0 THEN {<<x, x>> : x \in 1 .. n} \union links
        ELSE UNION {known \union {e \in (1 .. n) \X (1 .. n) : {<<e[1], k>>, <<k, e[2]>>} \subseteq known} :
                      known \in {first[k - 1]}}
  IN  first[n]

InternalCalls(p) == {e \in (DOMAIN p) \X (DOMAIN p) : e[2] \in InternalCallees(p, e[1])}
ExternalCalls(p) == {e \in (DOMAIN p) \X (DOMAIN p) : e[2] \in ExternalCallees(p, e[1])}
Within(p)        == Chains(Len(p), InternalCalls(p))
Reaches(p)       == Chains(Len(p), InternalCalls(p) \union ExternalCalls(p))

Renamed(n, c) == IF n.name = DataAccount THEN [n EXCEPT !.name = DataOf(c)] ELSE n

OwnNeedsAbroad(p, f) == {Renamed(n, p[f].contract) : n \in OwnNeeds(p, f)}

NeedsOf(p, within, reaches, f) ==
  (UNION {OwnNeeds(p, g) : g \in {h \in DOMAIN p : <<f, h>> \in within}})
    \union (UNION {OwnNeedsAbroad(p, g) :
                     g \in {h \in DOMAIN p : \E e \in ExternalCalls(p) :
                                               <<f, e[1]>> \in reaches /\ <<e[2], h>> \in within}})

Needs(p) ==
  LET within == Within(p)
      reaches == Reaches(p)
  IN  [f \in DOMAIN p |-> NeedsOf(p, within, reaches, f)]

Justified(needs, a) ==
  /\ \E n \in needs : n.name = a.name
  /\ a.writer => \E n \in needs : n.name = a.name /\ n.writer
  /\ a.signer => \E n \in needs : n.name = a.name /\ n.signer

Compiled == stage = "done" /\ ~work.errors

InIdl(f) == Public(prog[f]) /\ prog[f].kind # "fallback"

-----------------------------------------------------------------------------
(* When the program is accepted, the accounts of every function name all   *)
(* that it needs, however far down its calls: collect_accounts_from_contract *)
(* has stopped at a fixpoint for every contract and not before.  No more   *)
(* is asked of a client than is needed: an account is listed, is to be     *)
(* writable and is to sign only because something that the function        *)
(* reaches needs it to (add_account only adds flags up).                   *)
AccountsExact ==
  Compiled =>
    LET all == Needs(prog)
    IN  \A f \in DOMAIN prog :
          /\ \A n \in all[f] : IndexOf(accounts[f], n.name) # 0
          /\ \A i \in DOMAIN accounts[f] : Justified(all[f], accounts[f][i])

(* manage_contract_accounts finds every account it looks for: the unwrap   *)
(* of get_index_of never fails, not even when errors were reported.        *)
IndexesFound ==
  stage = "done" => \A f \in DOMAIN prog : \A i \in DOMAIN metas[f] :
                      \A j \in DOMAIN metas[f][i] : metas[f][i][j].index # 0

(* Storage is the first account at run time: wherever a function of the   *)
(* IDL lists the data account, it lists it first.                          *)
DataAccountFirst ==
  \A f \in DOMAIN prog : InIdl(f) => IndexOf(accounts[f], DataAccount) \in {0, 1}

(* What a function of the IDL writes, or has written by what it calls, is  *)
(* listed as writable.                                                     *)
WritesAllowed ==
  LET needs == Needs(prog)
  IN  \A f \in DOMAIN prog : InIdl(f) =>
        \A n \in needs[f] :
          LET i == IndexOf(accounts[f], n.name)
          IN  n.writer /\ i # 0 => accounts[f][i].writer

(* A client that builds its transaction from the IDL can make the call.    *)
CallableFromIdl == Compiled => DataAccountFirst /\ WritesAllowed

(* The work list of every contract runs dry, recursion and calls in a      *)
(* circle included.                                                        *)
Converges == <>(stage = "done")
=============================================================================
