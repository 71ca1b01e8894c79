------------------------ MODULE SolanaAccountsProofs ------------------------
(***************************************************************************)
(* The accounts that the compiler collects are exactly those a function    *)
(* needs, manage_contract_accounts finds each one it looks for, and storage *)
(* is the first account where the code takes it to be: for every program,  *)
(* whatever the number of contracts, functions and calls.                  *)
(***************************************************************************)
EXTENDS SolanaAccounts, TLAPS, FiniteSetTheorems, WellFoundedInduction

AccountNames == {"dataAccount", "programId", "systemProgram", "clock", "SysvarInstruction"} \X Nat
                  \union DeclaredNames

Account == [name : AccountNames, signer : BOOLEAN, writer : BOOLEAN, generated : BOOLEAN, loc : Int \X Int]

Lists(p) == [DOMAIN p -> Seq(Account)]

Works(p) == [accounts : Lists(p), next : Seq(DOMAIN p), added : Nat, errors : BOOLEAN]

Names(list) == {list[i].name : i \in DOMAIN list}

\* The name of a callee's account in the caller, with the callee in contract c.
NameIn(n, c) == IF n = DataAccount THEN DataOf(c) ELSE n

\* The names that an instruction adds.
AddedByCall(p, lists, ins) ==
  {SystemAccount} \union (IF ins.literal THEN {ProgramId(p[ins.f].contract)} ELSE {})
    \union (IF ins.accounts = "absent" THEN {NameIn(n, p[ins.f].contract) : n \in Names(lists[ins.f])} ELSE {})

AddedByNew(lists, ins) ==
  {SystemAccount} \union (IF ins.literal THEN {ProgramId(ins.c)} ELSE {})
    \union (IF ins.accounts = "present" THEN {}
            ELSE IF ins.f = 0 THEN {DataOf(ins.c)} ELSE {NameIn(n, ins.c) : n \in Names(lists[ins.f])})

AddedBy(p, lists, ins) ==
  CASE ins.op \in DOMAIN BuiltinAccount -> {BuiltinAccount[ins.op]}
    [] ins.op = "internal" -> Names(lists[ins.f])
    [] ins.op = "call" -> AddedByCall(p, lists, ins)
    [] ins.op = "new" -> AddedByNew(lists, ins)
    [] OTHER -> {}

\* Another visit of f adds no name.
Closed(p, lists, f) ==
  \A i \in DOMAIN p[f].body : AddedBy(p, lists, p[f].body[i]) \subseteq Names(lists[f])

\* The functions that a visit of f puts in the queue.
Calls(p, f) == InternalCallees(p, f) \union ExternalCallees(p, f)

Queues(p, f) == IF Calls(p, f) = {} THEN {} ELSE {f} \union Calls(p, f)

\* The functions of D need no further visit, whatever the others get.
Settled(p, lists, D) ==
  /\ D \subseteq DOMAIN p
  /\ \A f \in D : Closed(p, lists, f) /\ Calls(p, f) \subseteq D

\* No instruction of f has been looked at, if it calls another contract.
Fresh(p, lists, f) == ExternalCallees(p, f) # {} => SystemAccount \notin Names(lists[f])

\* An IndexSet has no element twice.
Distinct(s) == \A i, j \in DOMAIN s : s[i] = s[j] => i = j

Of(p, c)     == {f \in DOMAIN p : p[f].contract = c}
Before(p, c) == {f \in DOMAIN p : p[f].contract < c}

Visited == {visiting[j] : j \in 1 .. pos - 1}

\* A pass over the functions in visiting.
Pass ==
  /\ pos \in 1 .. Len(visiting) + 1
  /\ Distinct(visiting) /\ Distinct(work.next)
  /\ Elements(work.next) = UNION {Queues(prog, f) : f \in Visited}
  /\ old <= work.added
  /\ work.added = old => \A f \in Visited : Closed(prog, work.accounts, f)

\* The first pass visits the functions of the contract.
FirstPass(D) ==
  /\ old = 0 /\ Elements(visiting) = Of(prog, contract)
  /\ \A f \in DOMAIN prog \ (D \union Visited) : Fresh(prog, work.accounts, f)
  /\ \A f \in Visited : Calls(prog, f) = {} => Closed(prog, work.accounts, f)
  /\ (\E f \in Visited \ D : ExternalCallees(prog, f) # {}) => work.added > 0

\* Each later one visits no fewer than the one before.
LaterPass(D) ==
  /\ Elements(visiting) \subseteq UNION {Queues(prog, f) : f \in Elements(visiting)}
  /\ \A f \in DOMAIN prog \ (D \union Of(prog, contract) \union Elements(visiting)) :
       Fresh(prog, work.accounts, f)
  /\ \A f \in Of(prog, contract) \ Elements(visiting) :
       Calls(prog, f) = {} /\ Closed(prog, work.accounts, f)

Current == IF stage = "visit" THEN work.accounts ELSE accounts

\* The accounts that semantic analysis and StartContract give a function.
Given(p, lists, f) == Names(SemaAccounts(p, f)) \subseteq Names(lists[f])

\* The functions that have got the system account for their @payer.
PayerSeen(f) ==
  /\ prog[f].kind = "constructor" /\ prog[f].payer
  /\ \/ stage \in {"manage", "done"} \/ prog[f].contract < contract
     \/ stage = "visit" /\ prog[f].contract = contract

GivenSystem == \A f \in DOMAIN prog : PayerSeen(f) => SystemAccount \in Names(Current[f])

TypeOK ==
  /\ prog \in Programs
  /\ accounts \in Lists(prog)
  /\ stage \in {"start", "visit", "manage", "done"}
  /\ contract \in Nat \ {0}
  /\ visiting \in Seq(DOMAIN prog)
  /\ pos \in Nat \ {0} /\ old \in Nat
  /\ work.errors \in BOOLEAN
  /\ stage = "visit" => work \in Works(prog)
  /\ stage \in {"start", "visit"} => contract <= NumContracts(prog)

AllJustified ==
  \A f \in DOMAIN prog : \A i \in DOMAIN Current[f] : Justified(Needs(prog)[f], Current[f][i])

AllGiven == \A f \in DOMAIN prog : Given(prog, Current, f)

\* A constructor with a @payer, whose system account is not new to it, has no
\* account of another contract to collect.
PayersCallNoOther(p) ==
  \A f \in DOMAIN p : p[f].kind = "constructor" /\ p[f].payer => ExternalCallees(p, f) = {}

\* What is known of the work list.
Collecting ==
  CASE stage = "start" ->
         \E D \in SUBSET DOMAIN prog :
           /\ Settled(prog, accounts, D) /\ Before(prog, contract) \subseteq D
           /\ \A f \in DOMAIN prog \ D : Fresh(prog, accounts, f)
    [] stage = "visit" ->
         /\ Pass
         /\ \E D \in SUBSET DOMAIN prog :
              /\ Settled(prog, work.accounts, D) /\ Before(prog, contract) \subseteq D
              /\ FirstPass(D) \/ LaterPass(D)
    [] OTHER -> Settled(prog, accounts, DOMAIN prog)

\* A default constructor is not called with an accounts argument.
DefaultsCollect(p) ==
  \A f \in DOMAIN p : \A i \in DOMAIN p[f].body :
    p[f].body[i].op = "new" /\ p[f].body[i].f = 0 => p[f].body[i].accounts # "present"

MetasFound ==
  \A f \in DOMAIN prog : \A i \in DOMAIN metas[f] :
    \A j \in DOMAIN metas[f][i] : metas[f][i][j].index # 0
-----------------------------------------------------------------------------
(* Induction and recursion                                                 *)

\* A set of natural numbers has a least element.
LEMMA Smallest ==
  ASSUME NEW T, T \subseteq Nat, T # {}
  PROVE  \E n \in T : \A k \in T : n <= k
<1> DEFINE R == OpToRel(<, Nat)
<1>1. IsWellFoundedOn(R, Nat)
  BY NatLessThanWellFounded
<1>2. \A x, y \in Nat : x < y => <<x, y>> \in R
  BY DEF OpToRel
<1> HIDE DEF R
<1>3. PICK n \in T : \A k \in T : ~(<<k, n>> \in R)
  BY <1>1, WFMin
<1>4. \A k \in T : ~(k < n)
  BY <1>2, <1>3
<1> QED BY <1>4

\* Induction up to k over the set G of numbers that a statement is true for.
LEMMA UpTo ==
  ASSUME NEW k \in Nat, NEW G, 0 \in G, \A n \in 1 .. k : n - 1 \in G => n \in G
  PROVE  0 .. k \subseteq G
<1> DEFINE Bad == {n \in 0 .. k : n \notin G}
<1> SUFFICES ASSUME Bad # {} PROVE FALSE
  OBVIOUS
<1>1. Bad \subseteq Nat
  OBVIOUS
<1>2. PICK n \in Bad : \A m \in Bad : n <= m
  BY <1>1, Smallest
<1>3. n \in 1 .. k /\ n - 1 \in 0 .. k /\ ~(n <= n - 1)
  BY <1>2
<1>4. n - 1 \in G
  BY <1>2, <1>3
<1> QED BY <1>2, <1>3, <1>4

\* The function r on 0 .. k with values in V is defined by recursion.
Recursive(r, k, V, base, step) ==
  /\ r \in [0 .. k -> V] /\ r[0] = base
  /\ \A n \in 1 .. k : r[n] = step[<<n, r[n - 1]>>]

\* There is one for every base and every step.
LEMMA Recursion ==
  ASSUME NEW k \in Nat, NEW V, NEW base \in V, NEW step \in [(1 .. k) \X V -> V]
  PROVE  \E r : Recursive(r, k, V, base, step)
<1> DEFINE Is(m, r) == /\ r \in [0 .. m -> V] /\ r[0] = base
                       /\ \A n \in 1 .. m : r[n] = step[<<n, r[n - 1]>>]
           G == {m \in 0 .. k : \E r : Is(m, r)}
<1>1. 0 \in G
  <2> DEFINE r == [n \in 0 .. 0 |-> base]
  <2>1. Is(0, r)
    OBVIOUS
  <2> HIDE DEF Is
  <2> QED BY <2>1
<1>2. \A m \in 1 .. k : m - 1 \in G => m \in G
  <2> SUFFICES ASSUME NEW m \in 1 .. k, m - 1 \in G PROVE m \in G
    OBVIOUS
  <2>1. PICK r : Is(m - 1, r)
    OBVIOUS
  <2> DEFINE s == [n \in 0 .. m |-> IF n = m THEN step[<<m, r[m - 1]>>] ELSE r[n]]
  <2>2. r[m - 1] \in V
    BY <2>1
  <2>3. step[<<m, r[m - 1]>>] \in V
    BY <2>2
  <2>4. s \in [0 .. m -> V]
    BY <2>1, <2>3
  <2>5. s[0] = base
    BY <2>1
  <2>6. ASSUME NEW n \in 1 .. m PROVE s[n] = step[<<n, s[n - 1]>>]
    <3>1. n - 1 \in 0 .. m /\ n - 1 # m /\ n \in 0 .. m
      OBVIOUS
    <3>2. s[n - 1] = r[n - 1]
      BY <3>1
    <3>3. CASE n = m
      BY <3>1, <3>2, <3>3
    <3>4. CASE n # m
      <4>1. n \in 1 .. m - 1 /\ s[n] = r[n]
        BY <3>1, <3>4
      <4> QED BY <2>1, <3>2, <4>1
    <3> QED BY <3>3, <3>4
  <2>7. Is(m, s)
    BY <2>4, <2>5, <2>6
  <2> HIDE DEF Is, s
  <2> QED BY <2>7
<1> HIDE DEF G
<1>3. k \in G
  BY <1>1, <1>2, UpTo
<1> QED BY <1>3 DEF G, Recursive

\* The element of a set of one.
LEMMA OnlyOne == \A x : Only({x}) = x
BY DEF Only

-----------------------------------------------------------------------------
(* Names and lists of accounts                                             *)

\* The names of the builtin accounts and of the generated ones.
LEMMA NameFacts ==
  /\ DataAccount \in AccountNames /\ SystemAccount \in AccountNames
  /\ ClockAccount \in AccountNames /\ InstructionAccount \in AccountNames
  /\ SystemAccount # DataAccount
  /\ \A c \in Nat \ {0} : /\ DataOf(c) \in AccountNames /\ ProgramId(c) \in AccountNames
                          /\ DataOf(c) # DataAccount
  /\ \A n \in DeclaredNames : n \in AccountNames /\ n # DataAccount /\ n # SystemAccount
<1>1. /\ DataAccount \in AccountNames /\ SystemAccount \in AccountNames
      /\ ClockAccount \in AccountNames /\ InstructionAccount \in AccountNames
  BY DEF AccountNames, DataAccount, SystemAccount, ClockAccount, InstructionAccount
<1>2. SystemAccount # DataAccount
  <2>1. SystemAccount[1] = "systemProgram" /\ DataAccount[1] = "dataAccount"
    BY DEF SystemAccount, DataAccount
  <2>2. "systemProgram" # "dataAccount"
    OBVIOUS
  <2> QED BY <2>1, <2>2
<1>3. ASSUME NEW c \in Nat \ {0}
      PROVE  DataOf(c) \in AccountNames /\ ProgramId(c) \in AccountNames /\ DataOf(c) # DataAccount
  <2>1. DataOf(c) \in AccountNames /\ ProgramId(c) \in AccountNames
    BY DEF AccountNames, DataOf, ProgramId
  <2>2. DataOf(c)[2] = c /\ DataAccount[2] = 0
    BY DEF DataOf, DataAccount
  <2> QED BY <2>1, <2>2
<1>4. ASSUME NEW n \in DeclaredNames PROVE n \in AccountNames /\ n # DataAccount /\ n # SystemAccount
  <2>1. n[1] \in Idents
    BY DEF DeclaredNames
  <2>2. DataAccount[1] \notin Idents /\ SystemAccount[1] \notin Idents
    BY IdentsNotReserved DEF DataAccount, SystemAccount
  <2> QED BY <2>1, <2>2 DEF AccountNames
<1> QED BY <1>1, <1>2, <1>3, <1>4

\* What a callee's account is called in the caller.
LEMMA NameInFacts ==
  ASSUME NEW n \in AccountNames, NEW c \in Nat \ {0}
  PROVE  NameIn(n, c) \in AccountNames /\ NameIn(n, c) # DataAccount
BY NameFacts DEF NameIn

\* get_index_of finds the names of the list.
LEMMA IndexFacts ==
  ASSUME NEW list \in Seq(Account), NEW n
  PROVE  /\ IndexOf(list, n) # 0 <=> n \in Names(list)
         /\ IndexOf(list, n) # 0 => IndexOf(list, n) \in DOMAIN list /\ list[IndexOf(list, n)].name = n
<1>1. CASE \E i \in DOMAIN list : list[i].name = n
  <2>1. IndexOf(list, n) = CHOOSE i \in DOMAIN list : list[i].name = n
    BY <1>1 DEF IndexOf
  <2>2. IndexOf(list, n) \in DOMAIN list /\ list[IndexOf(list, n)].name = n
    BY <1>1, <2>1
  <2>3. IndexOf(list, n) # 0
    BY <2>2
  <2> QED BY <1>1, <2>2, <2>3 DEF Names
<1>2. CASE ~\E i \in DOMAIN list : list[i].name = n
  BY <1>2 DEF IndexOf, Names
<1> QED BY <1>1, <1>2

\* insert puts the account in the list and leaves the others.
LEMMA InsertFacts ==
  ASSUME NEW list \in Seq(Account), NEW a \in Account
  PROVE  /\ Insert(list, a) \in Seq(Account)
         /\ Names(Insert(list, a)) = Names(list) \union {a.name}
         /\ \A i \in DOMAIN Insert(list, a) :
              Insert(list, a)[i] = a \/ \E j \in DOMAIN list : Insert(list, a)[i] = list[j]
<1> DEFINE i == IndexOf(list, a.name)
           new == Insert(list, a)
<1>1. CASE i = 0
  <2>1. new = Append(list, a)
    BY <1>1 DEF Insert
  <2>2. new \in Seq(Account) /\ Len(new) = Len(list) + 1
    BY <2>1
  <2>3. \A j \in DOMAIN new : new[j] = IF j = Len(list) + 1 THEN a ELSE list[j]
    BY <2>1
  <2>4. DOMAIN new = DOMAIN list \union {Len(list) + 1}
    BY <2>2
  <2>5. \A j \in DOMAIN list : j # Len(list) + 1
    OBVIOUS
  <2> HIDE DEF new
  <2>6. Names(new) = Names(list) \union {a.name}
    BY <2>3, <2>4, <2>5 DEF Names
  <2> QED BY <2>2, <2>3, <2>4, <2>6 DEF new
<1>2. CASE i # 0
  <2>1. new = [list EXCEPT ![i] = a]
    BY <1>2 DEF Insert
  <2>2. i \in DOMAIN list /\ list[i].name = a.name
    BY <1>2, IndexFacts
  <2> HIDE DEF i
  <2>3. new \in Seq(Account) /\ DOMAIN new = DOMAIN list
    BY <2>1, <2>2
  <2>4. \A j \in DOMAIN list : new[j] = IF j = i THEN a ELSE list[j]
    BY <2>1, <2>2
  <2> HIDE DEF new
  <2>5. Names(new) = Names(list) \union {a.name}
    BY <2>2, <2>3, <2>4 DEF Names
  <2> QED BY <2>3, <2>4, <2>5 DEF new
<1> QED BY <1>1, <1>2

\* move_index leaves the accounts of the list.
LEMMA FrontFacts ==
  ASSUME NEW list \in Seq(Account), NEW i \in DOMAIN list
  PROVE  /\ MoveToFront(list, i) \in Seq(Account)
         /\ Names(MoveToFront(list, i)) = Names(list)
         /\ \A j \in DOMAIN MoveToFront(list, i) : \E k \in DOMAIN list : MoveToFront(list, i)[j] = list[k]
         /\ \A k \in DOMAIN list : \E j \in DOMAIN MoveToFront(list, i) : MoveToFront(list, i)[j] = list[k]
<1> DEFINE new == MoveToFront(list, i)
<1>1. DOMAIN list = 1 .. Len(list) /\ Len(list) \in Nat
  OBVIOUS
<1>2. DOMAIN new = 1 .. Len(list)
  BY <1>1 DEF MoveToFront
<1>3. \A j \in 1 .. Len(list) : new[j] = IF j = 1 THEN list[i] ELSE IF j <= i THEN list[j - 1] ELSE list[j]
  BY <1>1 DEF MoveToFront
<1>4. \A j \in 1 .. Len(list) : \E k \in 1 .. Len(list) : new[j] = list[k]
  <2> SUFFICES ASSUME NEW j \in 1 .. Len(list) PROVE \E k \in 1 .. Len(list) : new[j] = list[k]
    OBVIOUS
  <2> HIDE DEF new
  <2>1. CASE j = 1
    BY <1>1, <1>3, <2>1
  <2>2. CASE j # 1 /\ j <= i
    <3>1. j - 1 \in 1 .. Len(list) /\ new[j] = list[j - 1]
      BY <1>1, <1>3, <2>2
    <3> QED BY <3>1
  <2>3. CASE ~(j <= i)
    BY <1>1, <1>3, <2>3
  <2> QED BY <2>1, <2>2, <2>3
<1>5. \A k \in 1 .. Len(list) : \E j \in 1 .. Len(list) : new[j] = list[k]
  <2> SUFFICES ASSUME NEW k \in 1 .. Len(list) PROVE \E j \in 1 .. Len(list) : new[j] = list[k]
    OBVIOUS
  <2> HIDE DEF new
  <2>1. CASE k = i
    BY <1>1, <1>3, <2>1
  <2>2. CASE k < i
    <3>1. k + 1 \in 1 .. Len(list) /\ k + 1 # 1 /\ k + 1 <= i /\ (k + 1) - 1 = k
      BY <1>1, <2>2
    <3>2. new[k + 1] = list[k]
      BY <1>3, <3>1
    <3> QED BY <3>1, <3>2
  <2>3. CASE k > i
    <3>1. k # 1 /\ ~(k <= i)
      BY <1>1, <2>3
    <3> QED BY <1>3, <3>1
  <2> QED BY <1>1, <2>1, <2>2, <2>3
<1>6. \A j \in 1 .. Len(list) : list[j] \in Account
  OBVIOUS
<1>7. new = [j \in 1 .. Len(list) |-> new[j]]
  BY <1>1 DEF MoveToFront
<1> HIDE DEF new
<1>8. new \in Seq(Account)
  BY <1>1, <1>2, <1>4, <1>6, <1>7
<1>9. Names(new) = Names(list)
  <2>1. ASSUME NEW n \in Names(new) PROVE n \in Names(list)
    <3>1. PICK j \in 1 .. Len(list) : n = new[j].name
      BY <1>2 DEF Names
    <3>2. PICK k \in 1 .. Len(list) : new[j] = list[k]
      BY <1>4
    <3> QED BY <1>1, <3>1, <3>2 DEF Names
  <2>2. ASSUME NEW n \in Names(list) PROVE n \in Names(new)
    <3>1. PICK k \in 1 .. Len(list) : n = list[k].name
      BY <1>1 DEF Names
    <3>2. PICK j \in 1 .. Len(list) : new[j] = list[k]
      BY <1>5
    <3> QED BY <1>2, <3>1, <3>2 DEF Names
  <2> QED BY <2>1, <2>2
<1> QED BY <1>1, <1>2, <1>4, <1>5, <1>8, <1>9 DEF new
-----------------------------------------------------------------------------
(* Adding accounts to a function                                           *)

\* The work goes from w to w2 by adding accounts with the names N to f: only
\* the list of f changes, and the accounts are counted if one is new.
Grown(p, f, w, w2, N) ==
  /\ w2 \in Works(p) /\ w2.next = w.next
  /\ \A g \in DOMAIN p \ {f} : w2.accounts[g] = w.accounts[g]
  /\ Names(w2.accounts[f]) = Names(w.accounts[f]) \union N
  /\ w2.added >= w.added
  /\ w2.added = w.added <=> N \subseteq Names(w.accounts[f])

JustList(needs, list) == \A i \in DOMAIN list : Justified(needs, list[i])

\* One addition after the other.
LEMMA GrownTwice ==
  ASSUME NEW p, NEW f \in DOMAIN p, NEW w \in Works(p), NEW w1, NEW w2, NEW N1, NEW N2,
         Grown(p, f, w, w1, N1), Grown(p, f, w1, w2, N2)
  PROVE  Grown(p, f, w, w2, N1 \union N2)
<1>1. w.added \in Nat /\ w1.added \in Nat /\ w2.added \in Nat
  BY DEF Grown, Works
<1>2. Names(w2.accounts[f]) = Names(w.accounts[f]) \union (N1 \union N2)
  BY DEF Grown
<1>3. w2.added >= w.added /\ (w2.added = w.added <=> w2.added = w1.added /\ w1.added = w.added)
  BY <1>1 DEF Grown
<1>4. N1 \union N2 \subseteq Names(w.accounts[f])
        <=> N2 \subseteq Names(w1.accounts[f]) /\ N1 \subseteq Names(w.accounts[f])
  BY DEF Grown
<1>5. w2 \in Works(p) /\ w2.next = w.next /\ \A g \in DOMAIN p \ {f} : w2.accounts[g] = w.accounts[g]
  BY DEF Grown
<1>6. w2.added = w.added <=> N1 \union N2 \subseteq Names(w.accounts[f])
  BY <1>3, <1>4 DEF Grown
<1> QED BY <1>2, <1>3, <1>5, <1>6 DEF Grown

\* Adding nothing.
LEMMA GrownNot ==
  ASSUME NEW p, NEW f \in DOMAIN p, NEW w \in Works(p)
  PROVE  Grown(p, f, w, w, {})
BY DEF Grown, Works

\* Generated makes an account without flags.
LEMMA GeneratedFacts ==
  ASSUME NEW n \in AccountNames
  PROVE  Generated(n) \in Account /\ Generated(n).name = n /\ ~Generated(n).signer /\ ~Generated(n).writer
BY DEF Generated, SolanaAccount, Account, Codegen

\* The account that add_account inserts.
Merged(w, f, a) ==
  LET i == IndexOf(w.accounts[f], a.name)
      was == IF i = 0 THEN Generated(a.name) ELSE w.accounts[f][i]
  IN  SolanaAccount(a.name, a.signer \/ was.signer, a.writer \/ was.writer, TRUE, a.loc)

\* It has the flags of the new account and of the one with this name.
LEMMA MergedFacts ==
  ASSUME NEW p, NEW f \in DOMAIN p, NEW w \in Works(p), NEW a \in Account
  PROVE  /\ Merged(w, f, a) \in Account /\ Merged(w, f, a).name = a.name
         /\ \/ /\ Merged(w, f, a).writer => a.writer
               /\ Merged(w, f, a).signer => a.signer
            \/ \E i \in DOMAIN w.accounts[f] :
                 /\ w.accounts[f][i].name = a.name
                 /\ Merged(w, f, a).writer => a.writer \/ w.accounts[f][i].writer
                 /\ Merged(w, f, a).signer => a.signer \/ w.accounts[f][i].signer
<1> DEFINE list == w.accounts[f]
           i == IndexOf(list, a.name)
           was == IF i = 0 THEN Generated(a.name) ELSE list[i]
<1>1. list \in Seq(Account) /\ a.name \in AccountNames /\ a.signer \in BOOLEAN /\ a.writer \in BOOLEAN
      /\ a.loc \in Int \X Int
  BY DEF Works, Lists, Account
<1>2. was \in Account
  <2>1. i # 0 => i \in DOMAIN list
    BY <1>1, IndexFacts
  <2>2. Generated(a.name) \in Account
    BY <1>1, GeneratedFacts
  <2> QED BY <1>1, <2>1, <2>2
<1> DEFINE s == a.signer \/ was.signer
           v == a.writer \/ was.writer
<1>3. s \in BOOLEAN /\ v \in BOOLEAN
  OBVIOUS
<1>4. Merged(w, f, a) = SolanaAccount(a.name, s, v, TRUE, a.loc)
  BY DEF Merged
<1> HIDE DEF s, v
<1>6. /\ Merged(w, f, a) \in Account /\ Merged(w, f, a).name = a.name
      /\ (Merged(w, f, a).signer <=> s) /\ (Merged(w, f, a).writer <=> v)
  BY <1>1, <1>3, <1>4 DEF SolanaAccount, Account
<1>7. CASE i = 0
  <2>1. ~was.signer /\ ~was.writer
    BY <1>1, <1>7, GeneratedFacts
  <2> QED BY <1>6, <2>1 DEF s, v
<1>8. CASE i # 0
  <2>1. i \in DOMAIN list /\ list[i].name = a.name /\ was = list[i]
    BY <1>1, <1>8, IndexFacts
  <2> HIDE DEF was, i
  <2> QED BY <1>6, <2>1 DEF s, v
<1> QED BY <1>7, <1>8

\* add_account adds the name.
LEMMA AddAccountFacts ==
  ASSUME NEW p, NEW f \in DOMAIN p, NEW w \in Works(p), NEW a \in Account
  PROVE  /\ Grown(p, f, w, AddAccount(w, f, a), {a.name})
         /\ AddAccount(w, f, a).accounts[f] = Insert(w.accounts[f], Merged(w, f, a))
         /\ AddAccount(w, f, a).errors = w.errors
<1> DEFINE list == w.accounts[f]
           i == IndexOf(list, a.name)
           new == Insert(list, Merged(w, f, a))
           w2 == AddAccount(w, f, a)
<1>1. list \in Seq(Account) /\ w.accounts \in Lists(p) /\ w.added \in Nat
  BY DEF Works, Lists
<1>2. Merged(w, f, a) \in Account /\ Merged(w, f, a).name = a.name
  BY MergedFacts
<1>3. new \in Seq(Account) /\ Names(new) = Names(list) \union {a.name}
  BY <1>1, <1>2, InsertFacts
<1>4. i # 0 <=> a.name \in Names(list)
  BY <1>1, IndexFacts
<1>5. w2 = [w EXCEPT !.accounts[f] = new, !.added = @ + (IF i = 0 THEN 1 ELSE 0)]
  BY DEF AddAccount, Merged
<1> HIDE DEF i, new, w2
<1>6. /\ w2.accounts = [w.accounts EXCEPT ![f] = new] /\ w2.added = w.added + (IF i = 0 THEN 1 ELSE 0)
      /\ w2.next = w.next /\ w2.errors = w.errors
  BY <1>5 DEF Works
<1>7. w2.accounts \in Lists(p) /\ w2.accounts[f] = new /\ \A g \in DOMAIN p \ {f} : w2.accounts[g] = w.accounts[g]
  BY <1>1, <1>3, <1>6 DEF Lists
<1>8. w2 \in Works(p)
  <2>1. w2.added \in Nat /\ w2.next \in Seq(DOMAIN p) /\ w2.errors \in BOOLEAN
    BY <1>1, <1>6 DEF Works
  <2>2. w2 = [accounts |-> w2.accounts, next |-> w2.next, added |-> w2.added, errors |-> w2.errors]
    BY <1>5 DEF Works
  <2> HIDE DEF list
  <2> QED BY <1>7, <2>1, <2>2 DEF Works
<1>9. w2.added >= w.added /\ (w2.added = w.added <=> {a.name} \subseteq Names(list))
  BY <1>1, <1>4, <1>6
<1> QED BY <1>3, <1>6, <1>7, <1>8, <1>9 DEF Grown, new, w2

\* A justified account stays so with the flags of another of its name.
LEMMA JustifiedMerge ==
  ASSUME NEW needs, NEW a, NEW b, NEW c, Justified(needs, a), Justified(needs, b),
         b.name = a.name, c.name = a.name,
         c.writer => a.writer \/ b.writer, c.signer => a.signer \/ b.signer
  PROVE  Justified(needs, c)
BY DEF Justified

\* add_account of a justified account.
LEMMA AddAccountJust ==
  ASSUME NEW p, NEW f \in DOMAIN p, NEW w \in Works(p), NEW a \in Account,
         NEW needs, JustList(needs, w.accounts[f]), Justified(needs, a)
  PROVE  JustList(needs, AddAccount(w, f, a).accounts[f])
<1> DEFINE b == Merged(w, f, a)
           list == w.accounts[f]
           new == Insert(list, b)
<1>1. list \in Seq(Account)
  BY DEF Works, Lists
<1>2. b \in Account /\ b.name = a.name
  BY MergedFacts
<1>3. Justified(needs, b)
  <2>1. \/ (b.writer => a.writer) /\ (b.signer => a.signer)
        \/ \E i \in DOMAIN list : /\ list[i].name = a.name
                                  /\ b.writer => a.writer \/ list[i].writer
                                  /\ b.signer => a.signer \/ list[i].signer
    BY MergedFacts
  <2> HIDE DEF b, list
  <2>2. CASE (b.writer => a.writer) /\ (b.signer => a.signer)
    BY <1>2, <2>2 DEF Justified
  <2>3. CASE \E i \in DOMAIN list : /\ list[i].name = a.name
                                    /\ b.writer => a.writer \/ list[i].writer
                                    /\ b.signer => a.signer \/ list[i].signer
    <3>1. PICK i \in DOMAIN list : /\ list[i].name = a.name
                                   /\ b.writer => a.writer \/ list[i].writer
                                   /\ b.signer => a.signer \/ list[i].signer
      BY <2>3
    <3>2. Justified(needs, list[i])
      BY DEF JustList, list
    <3> QED BY <1>2, <3>1, <3>2, JustifiedMerge
  <2> QED BY <2>1, <2>2, <2>3
<1>4. AddAccount(w, f, a).accounts[f] = new
  BY AddAccountFacts
<1> HIDE DEF b
<1>5. \A i \in DOMAIN new : new[i] = b \/ \E j \in DOMAIN list : new[i] = list[j]
  BY <1>1, <1>2, InsertFacts
<1> HIDE DEF new
<1> QED BY <1>3, <1>4, <1>5 DEF JustList

\* The name that an entry of AccountsOf adds, and whether it is needed.
EntryName(x) == IF x.from = 0 THEN x.a.name ELSE NameIn(x.a.name, x.from)

EntryJust(needs, x) ==
  Justified(needs, [name |-> EntryName(x), writer |-> x.a.writer, signer |-> x.a.signer])

\* An entry: an account of the function itself or of a contract.
Entries == [from : Nat, a : Account]

\* transfer_accounts adds the account under its name in the caller.
LEMMA TransferFacts ==
  ASSUME NEW p, NEW f \in DOMAIN p, NEW w \in Works(p), NEW c \in Nat \ {0}, NEW loc \in Int \X Int,
         NEW a \in Account
  PROVE  /\ Grown(p, f, w, TransferAccount(w, f, c, loc, a), {NameIn(a.name, c)})
         /\ \A needs : /\ JustList(needs, w.accounts[f])
                       /\ Justified(needs, [name |-> NameIn(a.name, c), writer |-> a.writer, signer |-> a.signer])
                       => JustList(needs, TransferAccount(w, f, c, loc, a).accounts[f])
<1> DEFINE data == a.name = DataAccount
           name == NameIn(a.name, c)
           i    == IndexOf(w.accounts[f], name)
           b    == SolanaAccount(name, a.signer, a.writer, TRUE, IF data THEN loc ELSE a.loc)
           w1   == AddAccount(w, f, b)
           w2   == TransferAccount(w, f, c, loc, a)
<1>1. a.name \in AccountNames /\ a.signer \in BOOLEAN /\ a.writer \in BOOLEAN /\ a.loc \in Int \X Int
  BY DEF Account
<1>2. name \in AccountNames
  BY <1>1, NameInFacts
<1>3. w.accounts[f] \in Seq(Account) /\ w.errors \in BOOLEAN
  BY DEF Works, Lists
<1>4. i # 0 <=> name \in Names(w.accounts[f])
  BY <1>3, IndexFacts
<1>5. CASE data /\ i # 0
  <2>1. w2 = [w EXCEPT !.errors = @ \/ w.accounts[f][i].loc # loc]
    BY <1>5 DEF TransferAccount, NameIn
  <2> HIDE DEF i, name, w2
  <2>2. w2 \in Works(p) /\ w2.accounts = w.accounts /\ w2.next = w.next /\ w2.added = w.added
    BY <2>1 DEF Works
  <2>3. w.added \in Nat
    BY DEF Works
  <2>4. Grown(p, f, w, w2, {name})
    BY <1>4, <1>5, <2>2, <2>3 DEF Grown
  <2> QED BY <2>2, <2>4 DEF w2, name
<1>6. CASE ~(data /\ i # 0)
  <2>1. w2 = [w1 EXCEPT !.errors = @ \/ (i # 0 /\ ~w.accounts[f][i].generated)]
    BY <1>6 DEF TransferAccount, NameIn
  <2>2. (IF data THEN loc ELSE a.loc) \in Int \X Int
    BY <1>1
  <2>3. b \in Account /\ b.name = name /\ (b.signer <=> a.signer) /\ (b.writer <=> a.writer)
    BY <1>1, <1>2, <2>2 DEF SolanaAccount, Account
  <2> HIDE DEF b, name
  <2>4. Grown(p, f, w, w1, {name})
    BY <2>3, AddAccountFacts
  <2>5. \A needs : JustList(needs, w.accounts[f]) /\ Justified(needs, b) => JustList(needs, w1.accounts[f])
    BY <2>3, AddAccountJust
  <2>6. w1 \in Works(p)
    BY <2>4 DEF Grown
  <2> HIDE DEF w1, i, w2
  <2>7. w2 \in Works(p) /\ w2.accounts = w1.accounts /\ w2.next = w1.next /\ w2.added = w1.added
    BY <2>1, <2>6 DEF Works
  <2>8. Grown(p, f, w, w2, {name})
    BY <2>4, <2>7 DEF Grown
  <2>9. \A needs : Justified(needs, [name |-> name, writer |-> a.writer, signer |-> a.signer]) => Justified(needs, b)
    BY <2>3 DEF Justified
  <2> QED BY <2>5, <2>7, <2>8, <2>9 DEF w2, name
<1> QED BY <1>5, <1>6

\* Adding one entry.
LEMMA AddOneFacts ==
  ASSUME NEW p, NEW f \in DOMAIN p, NEW w \in Works(p), NEW loc \in Int \X Int, NEW x \in Entries
  PROVE  /\ Grown(p, f, w, AddOne(w, f, loc, x), {EntryName(x)})
         /\ \A needs : JustList(needs, w.accounts[f]) /\ EntryJust(needs, x)
                         => JustList(needs, AddOne(w, f, loc, x).accounts[f])
<1>1. x.a \in Account /\ x.from \in Nat
  BY DEF Entries
<1>2. CASE x.from = 0
  <2>1. AddOne(w, f, loc, x) = AddAccount(w, f, x.a) /\ EntryName(x) = x.a.name
    BY <1>2 DEF AddOne, EntryName
  <2>2. Grown(p, f, w, AddAccount(w, f, x.a), {x.a.name})
    BY <1>1, AddAccountFacts
  <2>3. \A needs : EntryJust(needs, x) => Justified(needs, x.a)
    BY <2>1 DEF EntryJust, Justified
  <2>4. \A needs : JustList(needs, w.accounts[f]) /\ Justified(needs, x.a)
                     => JustList(needs, AddAccount(w, f, x.a).accounts[f])
    BY <1>1, AddAccountJust
  <2> QED BY <2>1, <2>2, <2>3, <2>4
<1>3. CASE x.from # 0
  <2>1. AddOne(w, f, loc, x) = TransferAccount(w, f, x.from, loc, x.a) /\ EntryName(x) = NameIn(x.a.name, x.from)
    BY <1>3 DEF AddOne, EntryName
  <2>2. x.from \in Nat \ {0}
    BY <1>1, <1>3
  <2>3. \A needs : EntryJust(needs, x) =>
          Justified(needs, [name |-> NameIn(x.a.name, x.from), writer |-> x.a.writer, signer |-> x.a.signer])
    BY <2>1 DEF EntryJust
  <2>4. Grown(p, f, w, TransferAccount(w, f, x.from, loc, x.a), {NameIn(x.a.name, x.from)})
    BY <1>1, <2>2, TransferFacts
  <2>5. \A needs : /\ JustList(needs, w.accounts[f])
                   /\ Justified(needs, [name |-> NameIn(x.a.name, x.from), writer |-> x.a.writer, signer |-> x.a.signer])
                   => JustList(needs, TransferAccount(w, f, x.from, loc, x.a).accounts[f])
    BY <1>1, <2>2, TransferFacts
  <2> QED BY <2>1, <2>3, <2>4, <2>5
<1> QED BY <1>2, <1>3

\* The names that a list of entries adds, and whether they are needed.
EntryNames(list) == {EntryName(list[n]) : n \in DOMAIN list}

JustEntries(needs, list) == \A n \in DOMAIN list : EntryJust(needs, list[n])

\* AddAll is the last of a sequence of additions.
LEMMA AddAllDef ==
  ASSUME NEW p, NEW f \in DOMAIN p, NEW w \in Works(p), NEW loc \in Int \X Int, NEW list \in Seq(Entries)
  PROVE  \E r \in [0 .. Len(list) -> Works(p)] :
           /\ r[0] = w /\ \A n \in 1 .. Len(list) : r[n] = AddOne(r[n - 1], f, loc, list[n])
           /\ AddAll(w, f, loc, list) = r[Len(list)]
<1> DEFINE k == Len(list)
           V == Works(p)
           step == [e \in (1 .. k) \X V |-> AddOne(e[2], f, loc, list[e[1]])]
           Is(r) == r = [n \in 0 .. k |-> IF n = 0 THEN w ELSE Only({AddOne(v, f, loc, list[n]) : v \in {r[n - 1]}})]
<1>1. k \in Nat /\ \A n \in 1 .. k : list[n] \in Entries
  OBVIOUS
<1>2. \A n \in 1 .. k : \A v \in V : AddOne(v, f, loc, list[n]) \in V
  <2> SUFFICES ASSUME NEW n \in 1 .. k, NEW v \in V PROVE AddOne(v, f, loc, list[n]) \in V
    OBVIOUS
  <2>1. Grown(p, f, v, AddOne(v, f, loc, list[n]), {EntryName(list[n])})
    BY <1>1, AddOneFacts
  <2> QED BY <2>1 DEF Grown
<1> HIDE DEF k, V
<1>3. step \in [(1 .. k) \X V -> V]
  BY <1>2
<1>4. w \in V
  BY DEF V
<1>5. \A n \in 1 .. k : \A v \in V : step[<<n, v>>] = AddOne(v, f, loc, list[n])
  OBVIOUS
<1> HIDE DEF step
<1>6. PICK r \in [0 .. k -> V] : r[0] = w /\ \A n \in 1 .. k : r[n] = step[<<n, r[n - 1]>>]
  <2>1. PICK r : Recursive(r, k, V, w, step)
    BY <1>1, <1>3, <1>4, Recursion
  <2> QED BY <2>1 DEF Recursive
<1>7. \A n \in 1 .. k : r[n] = AddOne(r[n - 1], f, loc, list[n])
  <2> SUFFICES ASSUME NEW n \in 1 .. k PROVE r[n] = AddOne(r[n - 1], f, loc, list[n])
    OBVIOUS
  <2>1. n - 1 \in 0 .. k
    BY <1>1
  <2>2. r[n - 1] \in V
    BY <2>1
  <2> QED BY <1>5, <1>6, <2>2
<1>8. \A r1 : \A n : Only({AddOne(v, f, loc, list[n]) : v \in {r1[n - 1]}}) = AddOne(r1[n - 1], f, loc, list[n])
  <2> SUFFICES ASSUME NEW r1, NEW n
               PROVE  Only({AddOne(v, f, loc, list[n]) : v \in {r1[n - 1]}}) = AddOne(r1[n - 1], f, loc, list[n])
    OBVIOUS
  <2>1. {AddOne(v, f, loc, list[n]) : v \in {r1[n - 1]}} = {AddOne(r1[n - 1], f, loc, list[n])}
    OBVIOUS
  <2> QED BY <2>1, OnlyOne
<1>9. Is(r)
  <2>1. \A n \in 0 .. k : n = 0 \/ n \in 1 .. k
    BY <1>1
  <2>2. \A n \in 0 .. k :
          r[n] = IF n = 0 THEN w ELSE Only({AddOne(v, f, loc, list[n]) : v \in {r[n - 1]}})
    BY <1>6, <1>7, <1>8, <2>1
  <2> QED BY <2>2
<1>10. AddAll(w, f, loc, list) = (CHOOSE r1 : Is(r1))[k]
  BY DEF AddAll, k
<1> DEFINE z == CHOOSE r1 : Is(r1)
<1>11. Is(z)
  <2> HIDE DEF Is
  <2> QED BY <1>9
<1> HIDE DEF z
<1>12. z = r
  <2> DEFINE G == {n \in 0 .. k : z[n] = r[n]}
  <2>1. \A n \in 0 .. k : z[n] = IF n = 0 THEN w ELSE AddOne(z[n - 1], f, loc, list[n])
    <3>1. \A n \in 0 .. k : z[n] = IF n = 0 THEN w ELSE Only({AddOne(v, f, loc, list[n]) : v \in {z[n - 1]}})
      BY <1>11
    <3> QED BY <1>8, <3>1
  <2>2. 0 \in G
    BY <1>1, <1>6, <2>1
  <2>3. \A n \in 1 .. k : n - 1 \in G => n \in G
    BY <1>1, <1>7, <2>1
  <2>4. 0 .. k \subseteq G
    BY <1>1, <2>2, <2>3, UpTo
  <2>5. DOMAIN z = 0 .. k /\ z = [n \in 0 .. k |-> z[n]]
    BY <1>11
  <2>6. r = [n \in 0 .. k |-> r[n]]
    BY <1>6
  <2>7. \A n \in 0 .. k : z[n] = r[n]
    BY <2>4
  <2> HIDE DEF G
  <2> QED BY <2>5, <2>6, <2>7
<1> QED BY <1>6, <1>7, <1>10, <1>12 DEF z, k, V

\* The loops over accounts add the names of the entries, and only what is
\* needed if the entries are.
LEMMA AddAllFacts ==
  ASSUME NEW p, NEW f \in DOMAIN p, NEW w \in Works(p), NEW loc \in Int \X Int, NEW list \in Seq(Entries)
  PROVE  /\ Grown(p, f, w, AddAll(w, f, loc, list), EntryNames(list))
         /\ \A needs : JustList(needs, w.accounts[f]) /\ JustEntries(needs, list)
                         => JustList(needs, AddAll(w, f, loc, list).accounts[f])
<1>1. PICK r \in [0 .. Len(list) -> Works(p)] :
        /\ r[0] = w /\ \A n \in 1 .. Len(list) : r[n] = AddOne(r[n - 1], f, loc, list[n])
        /\ AddAll(w, f, loc, list) = r[Len(list)]
  BY AddAllDef
<1> DEFINE N(n) == {EntryName(list[m]) : m \in 1 .. n}
           Good(n) == /\ Grown(p, f, w, r[n], N(n))
                      /\ \A needs : JustList(needs, w.accounts[f]) /\ JustEntries(needs, list)
                                      => JustList(needs, r[n].accounts[f])
           G == {n \in 0 .. Len(list) : Good(n)}
<1>2. 0 \in G
  <2>1. N(0) = {}
    OBVIOUS
  <2>2. Grown(p, f, w, r[0], N(0))
    BY <1>1, <2>1, GrownNot
  <2> QED BY <1>1, <2>2
<1>3. ASSUME NEW n \in 1 .. Len(list), n - 1 \in G PROVE n \in G
  <2>1. n - 1 \in 0 .. Len(list) /\ list[n] \in Entries
    OBVIOUS
  <2>2. r[n - 1] \in Works(p) /\ r[n] = AddOne(r[n - 1], f, loc, list[n])
    BY <1>1, <2>1
  <2>3. Grown(p, f, r[n - 1], r[n], {EntryName(list[n])})
    BY <2>1, <2>2, AddOneFacts
  <2>4. \A needs : JustList(needs, r[n - 1].accounts[f]) /\ EntryJust(needs, list[n])
                     => JustList(needs, r[n].accounts[f])
    BY <2>1, <2>2, AddOneFacts
  <2>5. Grown(p, f, w, r[n - 1], N(n - 1))
    BY <1>3
  <2>6. N(n) = N(n - 1) \union {EntryName(list[n])}
    <3>1. 1 .. n = (1 .. n - 1) \union {n}
      OBVIOUS
    <3> QED BY <3>1
  <2> HIDE DEF N
  <2>7. Grown(p, f, w, r[n], N(n))
    BY <2>3, <2>5, <2>6, GrownTwice
  <2>8. \A needs : JustEntries(needs, list) => EntryJust(needs, list[n])
    BY DEF JustEntries
  <2>9. Good(n)
    BY <1>3, <2>4, <2>7, <2>8
  <2> QED BY <2>1, <2>9
<1> HIDE DEF Good
<1>4. Len(list) \in Nat
  OBVIOUS
<1> HIDE DEF G
<1>5. 0 .. Len(list) \subseteq G
  BY <1>2, <1>3, <1>4, UpTo
<1>6. Good(Len(list))
  BY <1>4, <1>5 DEF G
<1>7. N(Len(list)) = EntryNames(list)
  BY DEF EntryNames
<1> HIDE DEF N
<1> QED BY <1>1, <1>6, <1>7 DEF Good

-----------------------------------------------------------------------------
(* Programs                                                                *)

\* The functions of a program.
LEMMA FunctionFacts ==
  ASSUME NEW p, WellFormed(p)
  PROVE  /\ Len(p) \in Nat \ {0} /\ DOMAIN p = 1 .. Len(p)
         /\ \A f \in DOMAIN p :
              /\ p[f].contract \in Nat \ {0} /\ p[f].payer \in BOOLEAN /\ p[f].seed \in BOOLEAN
              /\ p[f].declared \in Seq([name : DeclaredNames, signer : BOOLEAN, writer : BOOLEAN])
              /\ p[f].body \in Seq(Instructions(p))
              /\ p[f].payer => p[f].declared # <<>>
<1>1. p \in Seq(Functions(p)) /\ p # <<>>
  BY DEF WellFormed
<1>2. Len(p) \in Nat \ {0} /\ DOMAIN p = 1 .. Len(p) /\ \A f \in DOMAIN p : p[f] \in Functions(p)
  BY <1>1
<1>3. \A f \in DOMAIN p :
              /\ p[f].contract \in Nat \ {0} /\ p[f].payer \in BOOLEAN /\ p[f].seed \in BOOLEAN
              /\ p[f].declared \in Seq([name : DeclaredNames, signer : BOOLEAN, writer : BOOLEAN])
              /\ p[f].body \in Seq(Instructions(p))
  BY <1>2 DEF Functions
<1> QED BY <1>2, <1>3 DEF WellFormed

\* What is known of an instruction of function f.
InstructionOK(p, f, ins) ==
  /\ ins.op \in {"load", "store", "clock", "signature", "hash", "address", "account", "internal", "call", "new"}
  /\ ins.op = "internal" => /\ ins.f \in DOMAIN p /\ p[ins.f].contract = p[f].contract
                            /\ p[ins.f].kind # "constructor"
  /\ ins.op = "call" => ins.f \in DOMAIN p /\ p[ins.f].contract \in Nat \ {0}
  /\ ins.op = "new" => /\ ins.c \in Nat \ {0} /\ ins.f \in {0} \union DOMAIN p
                       /\ ins.f # 0 => ins.f \in DOMAIN p /\ p[ins.f].contract = ins.c
  /\ ins.op = "account" => \E d \in DOMAIN p[f].declared : p[f].declared[d].name = ins.name

\* The instructions of a program.
LEMMA InstructionFacts ==
  ASSUME NEW p, WellFormed(p), NEW f \in DOMAIN p, NEW i \in DOMAIN p[f].body
  PROVE  InstructionOK(p, f, p[f].body[i])
<1> DEFINE ins == p[f].body[i]
<1>1. ins \in Instructions(p)
  BY FunctionFacts
<1>2. /\ ins.op = "internal" => /\ p[ins.f].contract = p[f].contract
                                /\ p[ins.f].kind # "constructor"
      /\ ins.op = "new" /\ ins.f # 0 => p[ins.f].contract = ins.c
      /\ ins.op = "account" => \E d \in DOMAIN p[f].declared : p[f].declared[d].name = ins.name
  BY DEF WellFormed
<1> HIDE DEF ins
<1>3. /\ ins.op \in {"load", "store", "clock", "signature", "hash", "address", "account", "internal", "call", "new"}
      /\ ins.op = "internal" => ins.f \in DOMAIN p
      /\ ins.op = "call" => ins.f \in DOMAIN p
      /\ ins.op = "new" => ins.c \in Nat \ {0} /\ ins.f \in {0} \union DOMAIN p
  BY <1>1 DEF Instructions
<1>4. \A g \in DOMAIN p : p[g].contract \in Nat \ {0}
  BY FunctionFacts
<1>5. ins.op = "new" => (ins.f # 0 => ins.f \in DOMAIN p)
  BY <1>3
<1>6. InstructionOK(p, f, ins)
  BY <1>2, <1>3, <1>4, <1>5 DEF InstructionOK
<1> QED BY <1>6 DEF ins

-----------------------------------------------------------------------------
(* The entries of an instruction                                           *)

\* Entries one list after the other.
LEMMA EntriesConcat ==
  ASSUME NEW s \in Seq(Entries), NEW t \in Seq(Entries)
  PROVE  /\ s \o t \in Seq(Entries) /\ EntryNames(s \o t) = EntryNames(s) \union EntryNames(t)
         /\ \A needs : JustEntries(needs, s) /\ JustEntries(needs, t) => JustEntries(needs, s \o t)
<1> DEFINE u == s \o t
<1>1. u \in Seq(Entries) /\ Len(u) = Len(s) + Len(t) /\ Len(s) \in Nat /\ Len(t) \in Nat
      /\ DOMAIN s = 1 .. Len(s) /\ DOMAIN t = 1 .. Len(t) /\ DOMAIN u = 1 .. Len(u)
  OBVIOUS
<1>2. \A n \in 1 .. Len(s) + Len(t) : u[n] = IF n <= Len(s) THEN s[n] ELSE t[n - Len(s)]
  OBVIOUS
<1> HIDE DEF u
<1>3. \A n \in DOMAIN u : (\E m \in DOMAIN s : u[n] = s[m]) \/ (\E m \in DOMAIN t : u[n] = t[m])
  <2> SUFFICES ASSUME NEW n \in DOMAIN u
               PROVE  (\E m \in DOMAIN s : u[n] = s[m]) \/ (\E m \in DOMAIN t : u[n] = t[m])
    OBVIOUS
  <2>1. CASE n <= Len(s)
    BY <1>1, <1>2, <2>1
  <2>2. CASE ~(n <= Len(s))
    <3>1. n - Len(s) \in 1 .. Len(t)
      BY <1>1, <2>2
    <3> QED BY <1>1, <1>2, <2>2, <3>1
  <2> QED BY <2>1, <2>2
<1>4. \A m \in DOMAIN s : \E n \in DOMAIN u : u[n] = s[m]
  <2> SUFFICES ASSUME NEW m \in DOMAIN s PROVE \E n \in DOMAIN u : u[n] = s[m]
    OBVIOUS
  <2>1. m \in 1 .. Len(s) + Len(t) /\ m <= Len(s)
    BY <1>1
  <2> QED BY <1>1, <1>2, <2>1
<1>5. \A m \in DOMAIN t : \E n \in DOMAIN u : u[n] = t[m]
  <2> SUFFICES ASSUME NEW m \in DOMAIN t PROVE \E n \in DOMAIN u : u[n] = t[m]
    OBVIOUS
  <2>1. m + Len(s) \in 1 .. Len(s) + Len(t) /\ ~(m + Len(s) <= Len(s)) /\ (m + Len(s)) - Len(s) = m
    BY <1>1
  <2>2. u[m + Len(s)] = t[m]
    BY <1>2, <2>1
  <2> QED BY <1>1, <2>1, <2>2
<1>6. EntryNames(u) \subseteq EntryNames(s) \union EntryNames(t)
  BY <1>3 DEF EntryNames
<1>7. EntryNames(s) \subseteq EntryNames(u)
  BY <1>4 DEF EntryNames
<1>8. EntryNames(t) \subseteq EntryNames(u)
  BY <1>5 DEF EntryNames
<1>9. \A needs : JustEntries(needs, s) /\ JustEntries(needs, t) => JustEntries(needs, u)
  BY <1>3 DEF JustEntries
<1>10. EntryNames(u) = EntryNames(s) \union EntryNames(t)
  BY <1>6, <1>7, <1>8
<1> QED BY <1>1, <1>9, <1>10 DEF u

\* No entries.
LEMMA EntriesNone ==
  /\ <<>> \in Seq(Entries) /\ EntryNames(<<>>) = {} /\ \A needs : JustEntries(needs, <<>>)
BY DEF EntryNames, JustEntries

\* The accounts of a list, as they are.
LEMMA AddsFacts ==
  ASSUME NEW list \in Seq(Account)
  PROVE  /\ Adds(list) \in Seq(Entries) /\ EntryNames(Adds(list)) = Names(list)
         /\ \A needs : JustList(needs, list) => JustEntries(needs, Adds(list))
<1> DEFINE t == Adds(list)
<1>1. /\ list \in Seq(Account) /\ Len(list) \in Nat /\ DOMAIN list = 1 .. Len(list)
      /\ \A n \in 1 .. Len(list) : list[n] \in Account
  OBVIOUS
<1>2. t = [n \in 1 .. Len(list) |-> [from |-> 0, a |-> list[n]]]
  BY <1>1 DEF Adds
<1>3. DOMAIN t = DOMAIN list /\ \A n \in DOMAIN list : t[n] = [from |-> 0, a |-> list[n]]
  BY <1>1, <1>2
<1>4. \A n \in 1 .. Len(list) : [from |-> 0, a |-> list[n]] \in Entries
  BY <1>1 DEF Entries
<1>5. t \in Seq(Entries)
  BY <1>1, <1>2, <1>4
<1> HIDE DEF t
<1>6. \A n \in DOMAIN list : EntryName(t[n]) = list[n].name
  BY <1>3 DEF EntryName
<1>7. EntryNames(t) = Names(list)
  BY <1>3, <1>6 DEF EntryNames, Names
<1>8. \A n \in DOMAIN list : \A needs : Justified(needs, list[n]) => EntryJust(needs, t[n])
  <2> SUFFICES ASSUME NEW n \in DOMAIN list, NEW needs, Justified(needs, list[n]) PROVE EntryJust(needs, t[n])
    OBVIOUS
  <2>1. t[n].a = list[n]
    BY <1>3
  <2> QED BY <1>6, <2>1 DEF EntryJust, Justified
<1>9. \A needs : JustList(needs, list) => JustEntries(needs, t)
  BY <1>3, <1>8 DEF JustList, JustEntries
<1> QED BY <1>5, <1>7, <1>9 DEF t

\* What functions need.
Needed == [name : AccountNames, signer : BOOLEAN, writer : BOOLEAN]

\* What a callee in contract c needs, in its caller.
LEMMA RenamedFacts ==
  ASSUME NEW n \in Needed, NEW c \in Nat \ {0}
  PROVE  /\ Renamed(n, c) \in Needed /\ Renamed(n, c).name = NameIn(n.name, c)
         /\ (Renamed(n, c).writer <=> n.writer) /\ (Renamed(n, c).signer <=> n.signer)
         /\ \A d : Renamed(Renamed(n, c), d) = Renamed(n, c)
<1>1. n.name \in AccountNames /\ NameIn(n.name, c) \in AccountNames /\ NameIn(n.name, c) # DataAccount
  BY NameInFacts DEF Needed
<1>2. CASE n.name = DataAccount
  <2>1. Renamed(n, c) = [n EXCEPT !.name = DataOf(c)] /\ NameIn(n.name, c) = DataOf(c)
    BY <1>2 DEF Renamed, NameIn
  <2> DEFINE m == [n EXCEPT !.name = DataOf(c)]
  <2>2. m \in Needed /\ m.name = DataOf(c) /\ m.writer = n.writer /\ m.signer = n.signer
    BY <1>1, <2>1 DEF Needed
  <2> HIDE DEF m
  <2>3. \A d : Renamed(m, d) = m
    BY <1>1, <2>1, <2>2 DEF Renamed
  <2> QED BY <2>1, <2>2, <2>3 DEF m
<1>3. CASE n.name # DataAccount
  BY <1>3 DEF Renamed, NameIn
<1> QED BY <1>2, <1>3

\* The accounts of a callee in contract c; up holds what the caller needs when
\* down is what the callee needs.
LEMMA TransfersFacts ==
  ASSUME NEW list \in Seq(Account), NEW c \in Nat \ {0}
  PROVE  /\ Transfers(c, list) \in Seq(Entries)
         /\ EntryNames(Transfers(c, list)) = {NameIn(n, c) : n \in Names(list)}
         /\ \A up, down : /\ JustList(down, list) /\ down \subseteq Needed
                          /\ \A n \in down : Renamed(n, c) \in up
                          => JustEntries(up, Transfers(c, list))
<1> DEFINE t == Transfers(c, list)
<1>1. /\ list \in Seq(Account) /\ Len(list) \in Nat /\ DOMAIN list = 1 .. Len(list)
      /\ \A n \in 1 .. Len(list) : list[n] \in Account
  OBVIOUS
<1>2. t = [n \in 1 .. Len(list) |-> [from |-> c, a |-> list[n]]]
  BY <1>1 DEF Transfers
<1>3. DOMAIN t = DOMAIN list /\ \A n \in DOMAIN list : t[n] = [from |-> c, a |-> list[n]]
  BY <1>1, <1>2
<1>4. \A n \in 1 .. Len(list) : [from |-> c, a |-> list[n]] \in Entries
  BY <1>1 DEF Entries
<1>5. t \in Seq(Entries)
  BY <1>1, <1>2, <1>4
<1> HIDE DEF t
<1>6. \A n \in DOMAIN list : EntryName(t[n]) = NameIn(list[n].name, c)
  BY <1>3 DEF EntryName
<1>7. EntryNames(t) = {NameIn(n, c) : n \in Names(list)}
  BY <1>3, <1>6 DEF EntryNames, Names
<1>8. ASSUME NEW up, NEW down, JustList(down, list), down \subseteq Needed, \A n \in down : Renamed(n, c) \in up
      PROVE  JustEntries(up, t)
  <2> SUFFICES ASSUME NEW n \in DOMAIN list PROVE EntryJust(up, t[n])
    BY <1>3 DEF JustEntries
  <2>1. t[n].a = list[n] /\ Justified(down, list[n])
    BY <1>3, <1>8 DEF JustList
  <2>2. \A x \in down : /\ Renamed(x, c).name = NameIn(x.name, c)
                        /\ (Renamed(x, c).writer <=> x.writer) /\ (Renamed(x, c).signer <=> x.signer)
    BY <1>8, RenamedFacts
  <2> QED BY <1>6, <1>8, <2>1, <2>2 DEF EntryJust, Justified
<1> QED BY <1>5, <1>7, <1>8 DEF t

\* A generated account.
LEMMA AddsNamedFacts ==
  ASSUME NEW n \in AccountNames
  PROVE  /\ AddsNamed(n) \in Seq(Entries) /\ EntryNames(AddsNamed(n)) = {n}
         /\ \A needs : (\E x \in needs : x.name = n) => JustEntries(needs, AddsNamed(n))
<1> DEFINE list == <<Generated(n)>>
<1>1. /\ Generated(n) \in Account /\ Generated(n).name = n /\ ~Generated(n).signer /\ ~Generated(n).writer
  BY GeneratedFacts
<1>2. list \in Seq(Account) /\ DOMAIN list = {1} /\ list[1] = Generated(n)
  BY <1>1
<1> HIDE DEF list
<1>3. Names(list) = {n}
  BY <1>1, <1>2 DEF Names
<1>4. \A needs : (\E x \in needs : x.name = n) => JustList(needs, list)
  BY <1>1, <1>2 DEF JustList, Justified
<1>5. AddsNamed(n) = Adds(list)
  BY DEF AddsNamed, list
<1> QED BY <1>2, <1>3, <1>4, <1>5, AddsFacts

-----------------------------------------------------------------------------
(* Chains of calls                                                         *)

\* One link more may be inside the chains.
Through(n, known, k) ==
  known \union {e \in (1 .. n) \X (1 .. n) : {<<e[1], k>>, <<k, e[2]>>} \subseteq known}

\* Chains is the last of a sequence of relations.
LEMMA ChainsDef ==
  ASSUME NEW n \in Nat, NEW links, links \subseteq (1 .. n) \X (1 .. n)
  PROVE  \E r \in [0 .. n -> SUBSET ((1 .. n) \X (1 .. n))] :
           /\ r[0] = {<<x, x>> : x \in 1 .. n} \union links
           /\ \A k \in 1 .. n : r[k] = Through(n, r[k - 1], k)
           /\ Chains(n, links) = r[n]
<1> DEFINE V == SUBSET ((1 .. n) \X (1 .. n))
           base == {<<x, x>> : x \in 1 .. n} \union links
           step == [e \in (1 .. n) \X V |-> Through(n, e[2], e[1])]
           Is(r) == r = [k \in 0 .. n |-> IF k = 0 THEN base
                          ELSE UNION {known \union {e \in (1 .. n) \X (1 .. n) : {<<e[1], k>>, <<k, e[2]>>} \subseteq known} :
                                        known \in {r[k - 1]}}]
<1>1. \A k \in 1 .. n : \A v \in V : Through(n, v, k) \in V
  BY DEF Through
<1>2. base \in V
  OBVIOUS
<1> HIDE DEF V, base
<1>3. step \in [(1 .. n) \X V -> V]
  BY <1>1
<1>5. \A k \in 1 .. n : \A v \in V : step[<<k, v>>] = Through(n, v, k)
  OBVIOUS
<1> HIDE DEF step
<1>6. PICK r \in [0 .. n -> V] : r[0] = base /\ \A k \in 1 .. n : r[k] = step[<<k, r[k - 1]>>]
  <2>1. PICK r : Recursive(r, n, V, base, step)
    BY <1>2, <1>3, Recursion
  <2> QED BY <2>1 DEF Recursive
<1>7. \A k \in 1 .. n : r[k] = Through(n, r[k - 1], k)
  <2> SUFFICES ASSUME NEW k \in 1 .. n PROVE r[k] = Through(n, r[k - 1], k)
    OBVIOUS
  <2>1. k - 1 \in 0 .. n
    OBVIOUS
  <2>2. r[k - 1] \in V
    BY <2>1
  <2> QED BY <1>5, <1>6, <2>2
<1>8. \A r1 : \A k :
        UNION {known \union {e \in (1 .. n) \X (1 .. n) : {<<e[1], k>>, <<k, e[2]>>} \subseteq known} : known \in {r1[k - 1]}}
          = Through(n, r1[k - 1], k)
  <2> SUFFICES ASSUME NEW r1, NEW k
               PROVE  UNION {known \union {e \in (1 .. n) \X (1 .. n) : {<<e[1], k>>, <<k, e[2]>>} \subseteq known} : known \in {r1[k - 1]}}
                        = Through(n, r1[k - 1], k)
    OBVIOUS
  <2>1. UNION {Through(n, known, k) : known \in {r1[k - 1]}} = Through(n, r1[k - 1], k)
    OBVIOUS
  <2> QED BY <2>1 DEF Through
<1>9. Is(r)
  <2>1. \A k \in 0 .. n : k = 0 \/ k \in 1 .. n
    OBVIOUS
  <2>2. \A k \in 0 .. n :
          r[k] = IF k = 0 THEN base
                 ELSE UNION {known \union {e \in (1 .. n) \X (1 .. n) : {<<e[1], k>>, <<k, e[2]>>} \subseteq known} :
                               known \in {r[k - 1]}}
    BY <1>6, <1>7, <1>8, <2>1
  <2> QED BY <2>2
<1>10. Chains(n, links) = (CHOOSE r1 : Is(r1))[n]
  BY DEF Chains, base
<1> DEFINE z == CHOOSE r1 : Is(r1)
<1>11. Is(z)
  <2> HIDE DEF Is
  <2> QED BY <1>9
<1> HIDE DEF z
<1>12. z = r
  <2> DEFINE G == {k \in 0 .. n : z[k] = r[k]}
  <2>1. \A k \in 0 .. n : z[k] = IF k = 0 THEN base ELSE Through(n, z[k - 1], k)
    <3>1. \A k \in 0 .. n : z[k] = IF k = 0 THEN base
            ELSE UNION {known \union {e \in (1 .. n) \X (1 .. n) : {<<e[1], k>>, <<k, e[2]>>} \subseteq known} :
                          known \in {z[k - 1]}}
      BY <1>11
    <3> QED BY <1>8, <3>1
  <2>2. 0 \in G
    BY <1>6, <2>1
  <2>3. \A k \in 1 .. n : k - 1 \in G => k \in G
    BY <1>7, <2>1
  <2>4. 0 .. n \subseteq G
    BY <2>2, <2>3, UpTo
  <2>5. DOMAIN z = 0 .. n /\ z = [k \in 0 .. n |-> z[k]]
    BY <1>11
  <2>6. r = [k \in 0 .. n |-> r[k]]
    BY <1>6
  <2>7. \A k \in 0 .. n : z[k] = r[k]
    BY <2>4
  <2> HIDE DEF G
  <2> QED BY <2>5, <2>6, <2>7
<1> QED BY <1>6, <1>7, <1>10, <1>12 DEF z, base, V

Transitive(R) == \A x, y, z : <<x, y>> \in R /\ <<y, z>> \in R => <<x, z>> \in R

\* Chains is the least reflexive and transitive relation with the links.
LEMMA ChainsFacts ==
  ASSUME NEW n \in Nat, NEW links, links \subseteq (1 .. n) \X (1 .. n)
  PROVE  /\ Chains(n, links) \subseteq (1 .. n) \X (1 .. n)
         /\ \A x \in 1 .. n : <<x, x>> \in Chains(n, links)
         /\ links \subseteq Chains(n, links)
         /\ Transitive(Chains(n, links))
         /\ \A R : Transitive(R) /\ (\A x \in 1 .. n : <<x, x>> \in R) /\ links \subseteq R
                     => Chains(n, links) \subseteq R
<1>1. PICK r \in [0 .. n -> SUBSET ((1 .. n) \X (1 .. n))] :
           /\ r[0] = {<<x, x>> : x \in 1 .. n} \union links
           /\ \A k \in 1 .. n : r[k] = Through(n, r[k - 1], k)
           /\ Chains(n, links) = r[n]
  BY ChainsDef
<1>2. \A k \in 0 .. n : r[k] \subseteq (1 .. n) \X (1 .. n)
  BY <1>1
<1>3. ASSUME NEW k \in 1 .. n
      PROVE  /\ r[k - 1] \subseteq r[k]
             /\ \A x, y \in 1 .. n : <<x, y>> \in r[k] <=>
                  \/ <<x, y>> \in r[k - 1]
                  \/ <<x, k>> \in r[k - 1] /\ <<k, y>> \in r[k - 1]
  <2>1. r[k] = Through(n, r[k - 1], k)
    BY <1>1
  <2>2. \A x, y \in 1 .. n : <<x, y>> \in (1 .. n) \X (1 .. n) /\ <<x, y>>[1] = x /\ <<x, y>>[2] = y
    OBVIOUS
  <2>3. ASSUME NEW x \in 1 .. n, NEW y \in 1 .. n
        PROVE  <<x, y>> \in Through(n, r[k - 1], k) <=>
                 <<x, y>> \in r[k - 1] \/ {<<x, k>>, <<k, y>>} \subseteq r[k - 1]
    BY <2>2 DEF Through
  <2>4. r[k - 1] \subseteq Through(n, r[k - 1], k)
    BY DEF Through
  <2> QED BY <2>1, <2>3, <2>4
<1> DEFINE Base(k) == r[0] \subseteq r[k]
           G == {k \in 0 .. n : Base(k)}
<1>4. 0 .. n \subseteq G
  <2>1. 0 \in G
    OBVIOUS
  <2>2. \A k \in 1 .. n : k - 1 \in G => k \in G
    BY <1>3
  <2> HIDE DEF G
  <2> QED BY <2>1, <2>2, UpTo
<1>5. r[0] \subseteq r[n]
  BY <1>4
<1> DEFINE Joins(k) == \A m \in 1 .. k : \A x, y \in 1 .. n : <<x, m>> \in r[k] /\ <<m, y>> \in r[k] => <<x, y>> \in r[k]
           H == {k \in 0 .. n : Joins(k)}
<1>6. 0 .. n \subseteq H
  <2>1. 0 \in H
    OBVIOUS
  <2>2. ASSUME NEW k \in 1 .. n, k - 1 \in H PROVE k \in H
    <3> SUFFICES ASSUME NEW m \in 1 .. k, NEW x \in 1 .. n, NEW y \in 1 .. n, <<x, m>> \in r[k], <<m, y>> \in r[k]
                 PROVE  <<x, y>> \in r[k]
      OBVIOUS
    <3> HIDE DEF G
    <3>1. m \in 1 .. n
      OBVIOUS
    <3>2. <<x, m>> \in r[k - 1] \/ (<<x, k>> \in r[k - 1] /\ <<k, m>> \in r[k - 1])
      BY <1>3, <3>1
    <3>3. <<m, y>> \in r[k - 1] \/ (<<m, k>> \in r[k - 1] /\ <<k, y>> \in r[k - 1])
      BY <1>3, <3>1
    <3>4. CASE m = k
      BY <1>3, <3>2, <3>3, <3>4
    <3>5. CASE m # k
      <4>1. m \in 1 .. k - 1
        BY <3>5
      <4>2. \A u, v \in 1 .. n : <<u, m>> \in r[k - 1] /\ <<m, v>> \in r[k - 1] => <<u, v>> \in r[k - 1]
        BY <2>2, <4>1
      <4>3. CASE <<x, k>> \in r[k - 1] /\ <<k, y>> \in r[k - 1]
        BY <1>3, <4>3
      <4>4. CASE <<x, m>> \in r[k - 1] /\ <<m, y>> \in r[k - 1]
        BY <1>3, <4>2, <4>4
      <4>5. CASE <<x, m>> \in r[k - 1] /\ <<m, k>> \in r[k - 1] /\ <<k, y>> \in r[k - 1]
        <5>1. <<x, k>> \in r[k - 1]
          BY <4>2, <4>5
        <5> QED BY <4>3, <4>5, <5>1
      <4>6. CASE <<x, k>> \in r[k - 1] /\ <<k, m>> \in r[k - 1] /\ <<m, y>> \in r[k - 1]
        <5>1. <<k, y>> \in r[k - 1]
          BY <4>2, <4>6
        <5> QED BY <4>3, <4>6, <5>1
      <4> QED BY <3>2, <3>3, <4>3, <4>4, <4>5, <4>6
    <3> QED BY <3>4, <3>5
  <2> HIDE DEF H
  <2> QED BY <2>1, <2>2, UpTo
<1>7. Joins(n)
  BY <1>6
<1> HIDE DEF G, H
<1>8. Transitive(r[n])
  <2> SUFFICES ASSUME NEW x, NEW y, NEW z, <<x, y>> \in r[n], <<y, z>> \in r[n] PROVE <<x, z>> \in r[n]
    BY DEF Transitive
  <2>1. x \in 1 .. n /\ y \in 1 .. n /\ z \in 1 .. n
    BY <1>2
  <2> QED BY <1>7, <2>1
<1>9. ASSUME NEW R, Transitive(R), \A x \in 1 .. n : <<x, x>> \in R, links \subseteq R
      PROVE  r[n] \subseteq R
  <2> DEFINE K == {k \in 0 .. n : r[k] \subseteq R}
  <2>1. 0 \in K
    BY <1>1, <1>9
  <2>2. ASSUME NEW k \in 1 .. n, k - 1 \in K PROVE k \in K
    <3> SUFFICES ASSUME NEW e \in r[k] PROVE e \in R
      OBVIOUS
    <3>1. e \in (1 .. n) \X (1 .. n)
      BY <1>2
    <3>2. PICK x \in 1 .. n, y \in 1 .. n : e = <<x, y>>
      BY <3>1
    <3>3. <<x, y>> \in r[k - 1] \/ (<<x, k>> \in r[k - 1] /\ <<k, y>> \in r[k - 1])
      BY <1>3, <3>2
    <3>4. r[k - 1] \subseteq R
      BY <2>2
    <3> QED BY <1>9, <3>2, <3>3, <3>4 DEF Transitive
  <2> HIDE DEF K
  <2>3. 0 .. n \subseteq K
    BY <2>1, <2>2, UpTo
  <2> QED BY <2>3 DEF K
<1>10. (\A x \in 1 .. n : <<x, x>> \in r[n]) /\ links \subseteq r[n]
  BY <1>1, <1>5
<1>11. r[n] \subseteq (1 .. n) \X (1 .. n)
  BY <1>2
<1> QED BY <1>1, <1>8, <1>9, <1>10, <1>11

-----------------------------------------------------------------------------
(* What a function needs                                                   *)

\* The functions that a function calls.
LEMMA CalleeFacts ==
  ASSUME NEW p, WellFormed(p), NEW f \in DOMAIN p
  PROVE  /\ \A g \in InternalCallees(p, f) : g \in DOMAIN p /\ p[g].contract = p[f].contract /\ p[g].kind # "constructor"
         /\ \A g \in ExternalCallees(p, f) : g \in DOMAIN p
<1>1. \A ins \in Elements(p[f].body) : InstructionOK(p, f, ins)
  BY InstructionFacts DEF Elements
<1> QED BY <1>1 DEF InternalCallees, ExternalCallees, InstructionOK

\* The relations between functions.
LEMMA RelationFacts ==
  ASSUME NEW p, WellFormed(p)
  PROVE  /\ Transitive(Within(p)) /\ Transitive(Reaches(p))
         /\ \A f \in DOMAIN p : <<f, f>> \in Within(p) /\ <<f, f>> \in Reaches(p)
         /\ \A f \in DOMAIN p : \A g \in InternalCallees(p, f) : <<f, g>> \in Within(p) /\ <<f, g>> \in Reaches(p)
         /\ \A f \in DOMAIN p : \A g \in ExternalCallees(p, f) : <<f, g>> \in ExternalCalls(p) /\ <<f, g>> \in Reaches(p)
         /\ \A f, g : <<f, g>> \in Within(p) => f \in DOMAIN p /\ g \in DOMAIN p /\ p[f].contract = p[g].contract
         /\ \A f, g : <<f, g>> \in ExternalCalls(p) => f \in DOMAIN p /\ g \in ExternalCallees(p, f)
<1> DEFINE n == Len(p)
           sq == (1 .. n) \X (1 .. n)
<1>1. n \in Nat /\ DOMAIN p = 1 .. n
  BY FunctionFacts
<1>2. InternalCalls(p) = {e \in sq : e[2] \in InternalCallees(p, e[1])} /\ InternalCalls(p) \subseteq sq
  BY <1>1 DEF InternalCalls
<1>3. ExternalCalls(p) = {e \in sq : e[2] \in ExternalCallees(p, e[1])} /\ ExternalCalls(p) \subseteq sq
  BY <1>1 DEF ExternalCalls
<1>4. InternalCalls(p) \union ExternalCalls(p) \subseteq sq
  BY <1>2, <1>3
<1>5. Within(p) = Chains(n, InternalCalls(p)) /\ Reaches(p) = Chains(n, InternalCalls(p) \union ExternalCalls(p))
  BY DEF Within, Reaches
<1> HIDE DEF n
<1>6. /\ Transitive(Within(p)) /\ \A x \in 1 .. n : <<x, x>> \in Within(p)
      /\ InternalCalls(p) \subseteq Within(p) /\ Within(p) \subseteq sq
  BY <1>1, <1>2, <1>5, ChainsFacts
<1>7. /\ Transitive(Reaches(p)) /\ \A x \in 1 .. n : <<x, x>> \in Reaches(p)
      /\ InternalCalls(p) \union ExternalCalls(p) \subseteq Reaches(p)
  BY <1>1, <1>4, <1>5, ChainsFacts
<1>8. \A f \in DOMAIN p : \A g \in InternalCallees(p, f) : <<f, g>> \in InternalCalls(p)
  <2> SUFFICES ASSUME NEW f \in DOMAIN p, NEW g \in InternalCallees(p, f) PROVE <<f, g>> \in InternalCalls(p)
    OBVIOUS
  <2>1. g \in DOMAIN p
    BY CalleeFacts
  <2> QED BY <1>1, <1>2, <2>1
<1>9. \A f \in DOMAIN p : \A g \in ExternalCallees(p, f) : <<f, g>> \in ExternalCalls(p)
  <2> SUFFICES ASSUME NEW f \in DOMAIN p, NEW g \in ExternalCallees(p, f) PROVE <<f, g>> \in ExternalCalls(p)
    OBVIOUS
  <2>1. g \in DOMAIN p
    BY CalleeFacts
  <2> QED BY <1>1, <1>3, <2>1
<1> DEFINE R == {e \in sq : p[e[1]].contract = p[e[2]].contract}
<1>10. Transitive(R)
  <2> SUFFICES ASSUME NEW x, NEW y, NEW z, <<x, y>> \in R, <<y, z>> \in R PROVE <<x, z>> \in R
    BY DEF Transitive
  <2>1. x \in 1 .. n /\ y \in 1 .. n /\ z \in 1 .. n /\ p[x].contract = p[y].contract /\ p[y].contract = p[z].contract
    OBVIOUS
  <2> QED BY <2>1
<1>11. \A x \in 1 .. n : <<x, x>> \in R
  OBVIOUS
<1>12. InternalCalls(p) \subseteq R
  <2> SUFFICES ASSUME NEW e \in InternalCalls(p) PROVE e \in R
    OBVIOUS
  <2>1. e \in sq /\ e[1] \in DOMAIN p /\ e[2] \in InternalCallees(p, e[1])
    BY <1>1, <1>2
  <2>2. p[e[2]].contract = p[e[1]].contract
    BY <2>1, CalleeFacts
  <2> QED BY <2>1, <2>2
<1>13. \A f, g : <<f, g>> \in R => f \in 1 .. n /\ g \in 1 .. n /\ p[f].contract = p[g].contract
  OBVIOUS
<1> HIDE DEF R
<1>14. Within(p) \subseteq R
  BY <1>1, <1>2, <1>5, <1>10, <1>11, <1>12, ChainsFacts
<1>15. \A f, g : <<f, g>> \in ExternalCalls(p) => f \in DOMAIN p /\ g \in ExternalCallees(p, f)
  BY <1>1, <1>3
<1>16. \A f, g : <<f, g>> \in Within(p) => f \in DOMAIN p /\ g \in DOMAIN p /\ p[f].contract = p[g].contract
  BY <1>1, <1>13, <1>14
<1> QED BY <1>1, <1>6, <1>7, <1>8, <1>9, <1>15, <1>16

\* The needs of the instructions are needs.
LEMMA OwnNeedsType ==
  ASSUME NEW p, WellFormed(p), NEW f \in DOMAIN p
  PROVE  OwnNeeds(p, f) \subseteq Needed
<1>1. \A ins \in Elements(p[f].body) : InstructionOK(p, f, ins)
  BY InstructionFacts DEF Elements
<1>2. \A d \in Elements(p[f].declared) : d \in [name : DeclaredNames, signer : BOOLEAN, writer : BOOLEAN]
  <2> DEFINE S == [name : DeclaredNames, signer : BOOLEAN, writer : BOOLEAN]
  <2>1. p[f].declared \in Seq(S)
    BY FunctionFacts
  <2> HIDE DEF S
  <2>2. \A i \in DOMAIN p[f].declared : p[f].declared[i] \in S
    BY <2>1
  <2> QED BY <2>2 DEF Elements, S
<1>3. p[f].payer \in BOOLEAN /\ p[f].seed \in BOOLEAN
  BY FunctionFacts
<1>4. \A n \in AccountNames : \A s, v \in BOOLEAN : Need(n, s, v) \in Needed
  BY DEF Need, Needed
<1> SUFFICES ASSUME NEW x \in OwnNeeds(p, f) PROVE x \in Needed
  OBVIOUS
<1>5. \E n \in AccountNames : \E s, v \in BOOLEAN : x = Need(n, s, v)
  <2>1. \A ins : ins.op \in DOMAIN BuiltinAccount => BuiltinAccount[ins.op] \in AccountNames
    BY NameFacts DEF BuiltinAccount
  <2>2. DataAccount \in AccountNames /\ SystemAccount \in AccountNames
    BY NameFacts
  <2>3. CASE \E d \in Elements(p[f].declared) : x = Need(d.name, d.signer, d.writer)
    BY <1>2, <2>3, NameFacts
  <2>4. CASE \E ins \in Elements(p[f].body) : x = Need(DataAccount, FALSE, ins.op = "store")
    <3>1. PICK ins \in Elements(p[f].body) : x = Need(DataAccount, FALSE, ins.op = "store")
      BY <2>4
    <3>2. x = Need(DataAccount, FALSE, TRUE) \/ x = Need(DataAccount, FALSE, FALSE)
      BY <3>1 DEF Need
    <3> QED BY <2>2, <3>2
  <2>5. CASE \E ins \in Elements(p[f].body) : ins.op \in DOMAIN BuiltinAccount /\ x = Need(BuiltinAccount[ins.op], FALSE, FALSE)
    BY <2>1, <2>5
  <2>6. CASE x = Need(SystemAccount, FALSE, FALSE)
    BY <2>2, <2>6
  <2>7. CASE \E ins \in Elements(p[f].body) : ins.op = "call" /\ x = Need(ProgramId(p[ins.f].contract), FALSE, FALSE)
    BY <1>1, <2>7, NameFacts DEF InstructionOK
  <2>8. CASE \E ins \in Elements(p[f].body) : ins.op = "new" /\ (x = Need(ProgramId(ins.c), FALSE, FALSE) \/ x = Need(DataOf(ins.c), FALSE, TRUE))
    BY <1>1, <2>8, NameFacts DEF InstructionOK
  <2>9. CASE x = Need(DataAccount, p[f].payer /\ ~p[f].seed, TRUE)
    <3>1. x = Need(DataAccount, TRUE, TRUE) \/ x = Need(DataAccount, FALSE, TRUE)
      BY <2>9 DEF Need
    <3> QED BY <2>2, <3>1
  <2> QED BY <2>3, <2>4, <2>5, <2>6, <2>7, <2>8, <2>9 DEF OwnNeeds
<1> QED BY <1>4, <1>5

\* Function f needs x within its contract, or for a call of another one.
NeedsHere(p, f, x) == \E g \in DOMAIN p : <<f, g>> \in Within(p) /\ x \in OwnNeeds(p, g)

NeedsAcross(p, f, x) ==
  \E g \in DOMAIN p : \E e \in ExternalCalls(p) :
    /\ <<f, e[1]>> \in Reaches(p) /\ <<e[2], g>> \in Within(p)
    /\ \E y \in OwnNeeds(p, g) : x = Renamed(y, p[g].contract)

\* A function needs what its instructions and, through them, its callees need.
LEMMA NeedsDef ==
  ASSUME NEW p, NEW f \in DOMAIN p, NEW x
  PROVE  x \in Needs(p)[f] <=> NeedsHere(p, f, x) \/ NeedsAcross(p, f, x)
<1> DEFINE A(h) == UNION {OwnNeeds(p, g) : g \in {k \in DOMAIN p : <<h, k>> \in Within(p)}}
           H(h) == {k \in DOMAIN p : \E e \in ExternalCalls(p) : <<h, e[1]>> \in Reaches(p) /\ <<e[2], k>> \in Within(p)}
           B(h) == UNION {OwnNeedsAbroad(p, g) : g \in H(h)}
<1>0. Needs(p) = [h \in DOMAIN p |-> NeedsOf(p, Within(p), Reaches(p), h)]
  BY DEF Needs
<1>1. Needs(p)[f] = NeedsOf(p, Within(p), Reaches(p), f)
  BY <1>0
<1>2. x \in A(f) <=> NeedsHere(p, f, x)
  BY DEF NeedsHere
<1>3. \A g : x \in OwnNeedsAbroad(p, g) <=> \E y \in OwnNeeds(p, g) : x = Renamed(y, p[g].contract)
  BY DEF OwnNeedsAbroad
<1>4. x \in B(f) <=> NeedsAcross(p, f, x)
  <2>1. x \in B(f) <=> \E g \in H(f) : x \in OwnNeedsAbroad(p, g)
    OBVIOUS
  <2> HIDE DEF B
  <2> QED BY <1>3, <2>1 DEF NeedsAcross
<1>5. x \in NeedsOf(p, Within(p), Reaches(p), f) <=> x \in A(f) \/ x \in B(f)
  BY DEF NeedsOf
<1> HIDE DEF A, B
<1> QED BY <1>1, <1>2, <1>4, <1>5

\* The needs of the callees are needs of the caller.
LEMMA NeedsFacts ==
  ASSUME NEW p, WellFormed(p), NEW f \in DOMAIN p
  PROVE  /\ OwnNeeds(p, f) \subseteq Needs(p)[f]
         /\ Needs(p)[f] \subseteq Needed
         /\ \A g \in InternalCallees(p, f) : Needs(p)[g] \subseteq Needs(p)[f]
         /\ \A g \in ExternalCallees(p, f) : \A n \in Needs(p)[g] : Renamed(n, p[g].contract) \in Needs(p)[f]
<1>1. OwnNeeds(p, f) \subseteq Needs(p)[f]
  <2>1. <<f, f>> \in Within(p)
    BY RelationFacts
  <2>2. \A x \in OwnNeeds(p, f) : NeedsHere(p, f, x)
    BY <2>1 DEF NeedsHere
  <2> QED BY <2>2, NeedsDef
<1>2. \A g \in DOMAIN p : p[g].contract \in Nat \ {0}
  BY FunctionFacts
<1>3. Needs(p)[f] \subseteq Needed
  <2> SUFFICES ASSUME NEW x \in Needs(p)[f] PROVE x \in Needed
    OBVIOUS
  <2>1. CASE NeedsHere(p, f, x)
    BY <2>1, OwnNeedsType DEF NeedsHere
  <2>2. CASE NeedsAcross(p, f, x)
    <3>0. PICK g \in DOMAIN p : \E y \in OwnNeeds(p, g) : x = Renamed(y, p[g].contract)
      BY <2>2 DEF NeedsAcross
    <3>1. PICK y \in OwnNeeds(p, g) : x = Renamed(y, p[g].contract)
      BY <3>0
    <3>2. y \in Needed
      BY OwnNeedsType
    <3> QED BY <1>2, <3>1, <3>2, RenamedFacts
  <2> QED BY <2>1, <2>2, NeedsDef
<1>4. ASSUME NEW g \in InternalCallees(p, f), NEW x \in Needs(p)[g] PROVE x \in Needs(p)[f]
  <2>1. g \in DOMAIN p /\ <<f, g>> \in Within(p) /\ <<f, g>> \in Reaches(p)
    BY CalleeFacts, RelationFacts
  <2>2. Transitive(Within(p)) /\ Transitive(Reaches(p))
    BY RelationFacts
  <2>3. CASE NeedsHere(p, g, x)
    <3>1. PICK h \in DOMAIN p : <<g, h>> \in Within(p) /\ x \in OwnNeeds(p, h)
      BY <2>3 DEF NeedsHere
    <3>2. <<f, h>> \in Within(p)
      BY <2>1, <2>2, <3>1 DEF Transitive
    <3>3. NeedsHere(p, f, x)
      BY <3>1, <3>2 DEF NeedsHere
    <3> QED BY <3>3, NeedsDef
  <2>4. CASE NeedsAcross(p, g, x)
    <3>1. PICK h \in DOMAIN p, e \in ExternalCalls(p) :
               /\ <<g, e[1]>> \in Reaches(p) /\ <<e[2], h>> \in Within(p)
               /\ \E y \in OwnNeeds(p, h) : x = Renamed(y, p[h].contract)
      BY <2>4 DEF NeedsAcross
    <3>2. <<f, e[1]>> \in Reaches(p)
      BY <2>1, <2>2, <3>1 DEF Transitive
    <3>3. NeedsAcross(p, f, x)
      BY <3>1, <3>2 DEF NeedsAcross
    <3> QED BY <3>3, NeedsDef
  <2> QED BY <2>1, <2>3, <2>4, NeedsDef
<1>5. ASSUME NEW g \in ExternalCallees(p, f), NEW x \in Needs(p)[g] PROVE Renamed(x, p[g].contract) \in Needs(p)[f]
  <2>1. g \in DOMAIN p /\ <<f, g>> \in ExternalCalls(p) /\ <<f, g>> \in Reaches(p) /\ <<f, f>> \in Reaches(p)
    BY CalleeFacts, RelationFacts
  <2>2. Transitive(Within(p)) /\ Transitive(Reaches(p))
    BY RelationFacts
  <2>3. CASE NeedsHere(p, g, x)
    <3>1. PICK h \in DOMAIN p : <<g, h>> \in Within(p) /\ x \in OwnNeeds(p, h)
      BY <2>3 DEF NeedsHere
    <3>2. p[g].contract = p[h].contract
      BY <3>1, RelationFacts
    <3> DEFINE e == <<f, g>>
    <3>3. e \in ExternalCalls(p) /\ <<f, e[1]>> \in Reaches(p) /\ <<e[2], h>> \in Within(p)
      BY <2>1, <3>1
    <3> HIDE DEF e
    <3>4. NeedsAcross(p, f, Renamed(x, p[g].contract))
      BY <3>1, <3>2, <3>3 DEF NeedsAcross
    <3> QED BY <3>4, NeedsDef
  <2>4. CASE NeedsAcross(p, g, x)
    <3>1. PICK h \in DOMAIN p, e \in ExternalCalls(p) :
               /\ <<g, e[1]>> \in Reaches(p) /\ <<e[2], h>> \in Within(p)
               /\ \E y \in OwnNeeds(p, h) : x = Renamed(y, p[h].contract)
      BY <2>4 DEF NeedsAcross
    <3>2. <<f, e[1]>> \in Reaches(p)
      BY <2>1, <2>2, <3>1 DEF Transitive
    <3>3. PICK y \in OwnNeeds(p, h) : x = Renamed(y, p[h].contract)
      BY <3>1
    <3>4. y \in Needed
      BY OwnNeedsType
    <3>5. Renamed(x, p[g].contract) = x
      BY <1>2, <3>3, <3>4, RenamedFacts
    <3>6. NeedsAcross(p, f, x)
      BY <3>1, <3>2 DEF NeedsAcross
    <3> QED BY <3>5, <3>6, NeedsDef
  <2> QED BY <2>1, <2>3, <2>4, NeedsDef
<1> QED BY <1>1, <1>3, <1>4, <1>5

\* Lists in which another visit of no function adds a name have all that is
\* needed.
LEMMA ClosedHasNeeds ==
  ASSUME NEW p, WellFormed(p), NEW lists \in Lists(p),
         \A f \in DOMAIN p : \A n \in OwnNeeds(p, f) : n.name \in Names(lists[f]),
         \A f \in DOMAIN p : \A g \in InternalCallees(p, f) : Names(lists[g]) \subseteq Names(lists[f]),
         \A f \in DOMAIN p : \A g \in ExternalCallees(p, f) :
           \A n \in Names(lists[g]) : NameIn(n, p[g].contract) \in Names(lists[f])
  PROVE  \A f \in DOMAIN p : \A n \in Needs(p)[f] : n.name \in Names(lists[f])
<1> DEFINE k == Len(p)
           sq == (1 .. k) \X (1 .. k)
           R == {e \in sq : Names(lists[e[2]]) \subseteq Names(lists[e[1]])}
           S == {e \in sq : Names(lists[e[2]]) \ {DataAccount} \subseteq Names(lists[e[1]])}
<1>1. k \in Nat /\ DOMAIN p = 1 .. k /\ \A f \in DOMAIN p : p[f].contract \in Nat \ {0}
  BY FunctionFacts
<1> HIDE DEF k
<1>2. \A x, y : <<x, y>> \in R <=> x \in 1 .. k /\ y \in 1 .. k /\ Names(lists[y]) \subseteq Names(lists[x])
  OBVIOUS
<1>3. \A x, y : <<x, y>> \in S <=> x \in 1 .. k /\ y \in 1 .. k /\ Names(lists[y]) \ {DataAccount} \subseteq Names(lists[x])
  OBVIOUS
<1>4. InternalCalls(p) \subseteq sq /\ ExternalCalls(p) \subseteq sq
  BY <1>1 DEF InternalCalls, ExternalCalls
<1>5. \A e \in InternalCalls(p) : e \in R /\ e \in S
  <2> SUFFICES ASSUME NEW e \in InternalCalls(p) PROVE e \in R /\ e \in S
    OBVIOUS
  <2>1. e \in sq /\ e[1] \in DOMAIN p /\ e[2] \in InternalCallees(p, e[1])
    BY <1>1 DEF InternalCalls
  <2>2. Names(lists[e[2]]) \subseteq Names(lists[e[1]])
    BY <2>1
  <2> QED BY <2>1, <2>2
<1>6. \A e \in ExternalCalls(p) : e \in S
  <2> SUFFICES ASSUME NEW e \in ExternalCalls(p) PROVE e \in S
    OBVIOUS
  <2>1. e \in sq /\ e[1] \in DOMAIN p /\ e[2] \in ExternalCallees(p, e[1])
    BY <1>1 DEF ExternalCalls
  <2>2. \A n \in Names(lists[e[2]]) : NameIn(n, p[e[2]].contract) \in Names(lists[e[1]])
    BY <2>1
  <2>3. Names(lists[e[2]]) \ {DataAccount} \subseteq Names(lists[e[1]])
    BY <2>2 DEF NameIn
  <2> QED BY <2>1, <2>3
<1> HIDE DEF R, S
<1>7. Within(p) \subseteq R
  <2>1. Transitive(R)
    BY <1>2 DEF Transitive
  <2>2. \A x \in 1 .. k : <<x, x>> \in R
    BY <1>2
  <2>3. InternalCalls(p) \subseteq R
    BY <1>5
  <2>4. Within(p) = Chains(k, InternalCalls(p))
    BY DEF Within, k
  <2> QED BY <1>1, <1>4, <2>1, <2>2, <2>3, <2>4, ChainsFacts
<1>8. Reaches(p) \subseteq S
  <2>1. Transitive(S)
    <3> SUFFICES ASSUME NEW x, NEW y, NEW z, <<x, y>> \in S, <<y, z>> \in S PROVE <<x, z>> \in S
      BY DEF Transitive
    <3>1. Names(lists[z]) \ {DataAccount} \subseteq Names(lists[x])
      BY <1>3
    <3> QED BY <1>3, <3>1
  <2>2. \A x \in 1 .. k : <<x, x>> \in S
    BY <1>3
  <2>3. InternalCalls(p) \union ExternalCalls(p) \subseteq S /\ InternalCalls(p) \union ExternalCalls(p) \subseteq sq
    BY <1>4, <1>5, <1>6
  <2>4. Reaches(p) = Chains(k, InternalCalls(p) \union ExternalCalls(p))
    BY DEF Reaches, k
  <2> QED BY <1>1, <2>1, <2>2, <2>3, <2>4, ChainsFacts
<1> SUFFICES ASSUME NEW f \in DOMAIN p, NEW n \in Needs(p)[f] PROVE n.name \in Names(lists[f])
  OBVIOUS
<1>9. CASE NeedsHere(p, f, n)
  BY <1>2, <1>7, <1>9 DEF NeedsHere
<1>10. CASE NeedsAcross(p, f, n)
  <2>1. PICK g \in DOMAIN p, e \in ExternalCalls(p) :
               /\ <<f, e[1]>> \in Reaches(p) /\ <<e[2], g>> \in Within(p)
               /\ \E y \in OwnNeeds(p, g) : n = Renamed(y, p[g].contract)
    BY <1>10 DEF NeedsAcross
  <2>2. PICK y \in OwnNeeds(p, g) : n = Renamed(y, p[g].contract)
    BY <2>1
  <2>3. y \in Needed
    BY OwnNeedsType
  <2>4. n.name = NameIn(y.name, p[g].contract) /\ n.name # DataAccount
    <3>1. y.name \in AccountNames
      BY <2>3 DEF Needed
    <3> QED BY <1>1, <2>2, <2>3, <3>1, RenamedFacts, NameInFacts
  <2>5. y.name \in Names(lists[e[2]])
    BY <1>2, <1>7, <2>1
  <2>6. p[e[2]].contract = p[g].contract /\ e[1] \in DOMAIN p /\ e[2] \in ExternalCallees(p, e[1])
    <3>1. e[1] \in DOMAIN p /\ e[2] \in ExternalCallees(p, e[1])
      BY DEF ExternalCalls
    <3> QED BY <2>1, <3>1, RelationFacts
  <2>7. n.name \in Names(lists[e[1]])
    BY <2>4, <2>5, <2>6
  <2> QED BY <1>3, <1>8, <2>1, <2>4, <2>7
<1> QED BY <1>9, <1>10, NeedsDef

-----------------------------------------------------------------------------
(* Visiting a function                                                     *)

\* The needs of one instruction.
LEMMA OwnNeedsHas ==
  ASSUME NEW p, NEW f \in DOMAIN p, NEW i \in DOMAIN p[f].body
  PROVE  LET ins == p[f].body[i]
         IN  /\ ins.op \in DOMAIN BuiltinAccount => Need(BuiltinAccount[ins.op], FALSE, FALSE) \in OwnNeeds(p, f)
             /\ ins.op \in {"call", "new"} => Need(SystemAccount, FALSE, FALSE) \in OwnNeeds(p, f)
             /\ ins.op = "call" /\ ins.literal => Need(ProgramId(p[ins.f].contract), FALSE, FALSE) \in OwnNeeds(p, f)
             /\ ins.op = "new" /\ ins.literal => Need(ProgramId(ins.c), FALSE, FALSE) \in OwnNeeds(p, f)
             /\ ins.op = "new" /\ ins.f = 0 /\ ins.accounts # "present" => Need(DataOf(ins.c), FALSE, TRUE) \in OwnNeeds(p, f)
<1> DEFINE ins == p[f].body[i]
<1>1. ins \in Elements(p[f].body)
  BY DEF Elements
<1> HIDE DEF ins
<1>2. ins.op \in DOMAIN BuiltinAccount => Need(BuiltinAccount[ins.op], FALSE, FALSE) \in OwnNeeds(p, f)
  BY <1>1 DEF OwnNeeds
<1>3. ins.op \in {"call", "new"} => Need(SystemAccount, FALSE, FALSE) \in OwnNeeds(p, f)
  BY <1>1 DEF OwnNeeds
<1>4. ins.op = "call" /\ ins.literal => Need(ProgramId(p[ins.f].contract), FALSE, FALSE) \in OwnNeeds(p, f)
  BY <1>1 DEF OwnNeeds
<1>5. ins.op = "new" /\ ins.literal => Need(ProgramId(ins.c), FALSE, FALSE) \in OwnNeeds(p, f)
  BY <1>1 DEF OwnNeeds
<1>6. ins.op = "new" /\ ins.f = 0 /\ ins.accounts # "present" => Need(DataOf(ins.c), FALSE, TRUE) \in OwnNeeds(p, f)
  BY <1>1 DEF OwnNeeds
<1> QED BY <1>2, <1>3, <1>4, <1>5, <1>6 DEF ins

\* Every list names only what its function needs.
AllJust(p, lists) == \A g \in DOMAIN p : JustList(Needs(p)[g], lists[g])

\* The entries add the names N to f, and are needed if the lists are.
Collects(p, lists, f, list, N) ==
  /\ list \in Seq(Entries) /\ EntryNames(list) = N
  /\ AllJust(p, lists) => JustEntries(Needs(p)[f], list)

\* Two lists of entries.
LEMMA CollectsConcat ==
  ASSUME NEW p, NEW lists, NEW f, NEW s, NEW t, NEW M, NEW N, Collects(p, lists, f, s, M), Collects(p, lists, f, t, N)
  PROVE  Collects(p, lists, f, s \o t, M \union N)
<1>1. s \in Seq(Entries) /\ t \in Seq(Entries) /\ EntryNames(s) = M /\ EntryNames(t) = N
  BY DEF Collects
<1>2. s \o t \in Seq(Entries) /\ EntryNames(s \o t) = M \union N
  BY <1>1, EntriesConcat
<1>3. AllJust(p, lists) => JustEntries(Needs(p)[f], s \o t)
  BY <1>1, EntriesConcat DEF Collects
<1> QED BY <1>2, <1>3 DEF Collects

\* Nothing to add.
LEMMA CollectsNone ==
  ASSUME NEW p, NEW lists, NEW f
  PROVE  Collects(p, lists, f, <<>>, {})
BY EntriesNone DEF Collects

\* A generated account that f needs.
LEMMA CollectsNamed ==
  ASSUME NEW p, WellFormed(p), NEW lists, NEW f \in DOMAIN p, NEW n \in AccountNames,
         \E x \in OwnNeeds(p, f) : x.name = n
  PROVE  Collects(p, lists, f, AddsNamed(n), {n})
<1>1. \E x \in Needs(p)[f] : x.name = n
  BY NeedsFacts
<1>2. JustEntries(Needs(p)[f], AddsNamed(n))
  BY <1>1, AddsNamedFacts
<1> QED BY <1>2, AddsNamedFacts DEF Collects

\* The accounts of a function of the contract.
LEMMA CollectsInternal ==
  ASSUME NEW p, WellFormed(p), NEW lists \in Lists(p), NEW f \in DOMAIN p, NEW g \in InternalCallees(p, f)
  PROVE  Collects(p, lists, f, Adds(lists[g]), Names(lists[g]))
<1>1. g \in DOMAIN p /\ Needs(p)[g] \subseteq Needs(p)[f]
  BY CalleeFacts, NeedsFacts
<1>2. lists[g] \in Seq(Account)
  BY <1>1 DEF Lists
<1>3. AllJust(p, lists) => JustList(Needs(p)[f], lists[g])
  BY <1>1 DEF AllJust, JustList, Justified
<1> QED BY <1>2, <1>3, AddsFacts DEF Collects

\* The accounts of a function of another contract.
LEMMA CollectsExternal ==
  ASSUME NEW p, WellFormed(p), NEW lists \in Lists(p), NEW f \in DOMAIN p, NEW g \in ExternalCallees(p, f)
  PROVE  Collects(p, lists, f, Transfers(p[g].contract, lists[g]), {NameIn(n, p[g].contract) : n \in Names(lists[g])})
<1> DEFINE c == p[g].contract
<1>1. g \in DOMAIN p /\ \A n \in Needs(p)[g] : Renamed(n, c) \in Needs(p)[f]
  BY CalleeFacts, NeedsFacts
<1>2. lists[g] \in Seq(Account) /\ c \in Nat \ {0}
  BY <1>1, FunctionFacts DEF Lists
<1>3. Needs(p)[g] \subseteq Needed
  BY <1>1, NeedsFacts
<1> HIDE DEF c
<1>4. AllJust(p, lists) => JustEntries(Needs(p)[f], Transfers(c, lists[g]))
  <2> SUFFICES ASSUME AllJust(p, lists) PROVE JustEntries(Needs(p)[f], Transfers(c, lists[g]))
    OBVIOUS
  <2>1. JustList(Needs(p)[g], lists[g])
    BY <1>1 DEF AllJust
  <2> QED BY <1>1, <1>2, <1>3, <2>1, TransfersFacts
<1>5. Transfers(c, lists[g]) \in Seq(Entries) /\ EntryNames(Transfers(c, lists[g])) = {NameIn(n, c) : n \in Names(lists[g])}
  BY <1>2, TransfersFacts
<1>6. Collects(p, lists, f, Transfers(c, lists[g]), {NameIn(n, c) : n \in Names(lists[g])})
  BY <1>4, <1>5 DEF Collects
<1> QED BY <1>6 DEF c

\* check_instruction adds what AddedBy says.
LEMMA AccountsOfFacts ==
  ASSUME NEW p, WellFormed(p), NEW lists \in Lists(p), NEW f \in DOMAIN p, NEW i \in DOMAIN p[f].body,
         NEW loc \in Int \X Int
  PROVE  Collects(p, lists, f, AccountsOf(p, lists, p[f].body[i], loc), AddedBy(p, lists, p[f].body[i]))
<1> DEFINE ins == p[f].body[i]
           c == p[ins.f].contract
<1>1. InstructionOK(p, f, ins)
  BY InstructionFacts
<1>2. ins \in Elements(p[f].body)
  BY DEF Elements
<1>3. /\ ins.op \in DOMAIN BuiltinAccount => Need(BuiltinAccount[ins.op], FALSE, FALSE) \in OwnNeeds(p, f)
      /\ ins.op \in {"call", "new"} => Need(SystemAccount, FALSE, FALSE) \in OwnNeeds(p, f)
      /\ ins.op = "call" /\ ins.literal => Need(ProgramId(p[ins.f].contract), FALSE, FALSE) \in OwnNeeds(p, f)
      /\ ins.op = "new" /\ ins.literal => Need(ProgramId(ins.c), FALSE, FALSE) \in OwnNeeds(p, f)
      /\ ins.op = "new" /\ ins.f = 0 /\ ins.accounts # "present" => Need(DataOf(ins.c), FALSE, TRUE) \in OwnNeeds(p, f)
  BY OwnNeedsHas
<1> HIDE DEF ins
<1>4. \A n : Need(n, FALSE, FALSE).name = n /\ Need(n, FALSE, TRUE).name = n
  BY DEF Need
<1>5. CASE ins.op \in DOMAIN BuiltinAccount
  <2>0. ins.op # "internal" /\ ins.op # "call" /\ ins.op # "new"
    BY <1>5 DEF BuiltinAccount
  <2>1. BuiltinAccount[ins.op] \in AccountNames
    BY <1>5, NameFacts DEF BuiltinAccount
  <2>2. AccountsOf(p, lists, ins, loc) = AddsNamed(BuiltinAccount[ins.op])
    BY <1>5, <2>0 DEF AccountsOf
  <2>3. AddedBy(p, lists, ins) = {BuiltinAccount[ins.op]}
    BY <1>5, <2>0 DEF AddedBy
  <2>4. \E x \in OwnNeeds(p, f) : x.name = BuiltinAccount[ins.op]
    BY <1>3, <1>4, <1>5
  <2>5. Collects(p, lists, f, AddsNamed(BuiltinAccount[ins.op]), {BuiltinAccount[ins.op]})
    BY <2>1, <2>4, CollectsNamed
  <2> QED BY <2>2, <2>3, <2>5 DEF ins
<1>6. CASE ins.op = "internal"
  <2>1. AccountsOf(p, lists, ins, loc) = Adds(lists[ins.f]) /\ AddedBy(p, lists, ins) = Names(lists[ins.f])
    BY <1>6 DEF AccountsOf, AddedBy, BuiltinAccount
  <2>2. ins.f \in InternalCallees(p, f)
    BY <1>2, <1>6 DEF InternalCallees
  <2> QED BY <2>1, <2>2, CollectsInternal DEF ins
<1>7. ASSUME ins.op \in {"call", "new"}
      PROVE  Collects(p, lists, f, AddsNamed(SystemAccount), {SystemAccount})
  <2>1. \E x \in OwnNeeds(p, f) : x.name = SystemAccount
    BY <1>3, <1>4, <1>7
  <2> QED BY <2>1, NameFacts, CollectsNamed
<1>8. CASE ins.op = "call"
  <2> DEFINE s1 == AddsNamed(SystemAccount)
             s2 == IF ins.literal THEN AddsNamed(ProgramId(c)) ELSE <<>>
             s3 == IF ins.accounts = "absent" THEN Transfers(c, lists[ins.f]) ELSE <<>>
             N2 == IF ins.literal THEN {ProgramId(c)} ELSE {}
             N3 == IF ins.accounts = "absent" THEN {NameIn(n, c) : n \in Names(lists[ins.f])} ELSE {}
  <2>1. AccountsOf(p, lists, ins, loc) = s1 \o s2 \o s3
    BY <1>8 DEF AccountsOf, CallAccounts, BuiltinAccount
  <2>2. AddedBy(p, lists, ins) = {SystemAccount} \union N2 \union N3
    BY <1>8 DEF AddedBy, AddedByCall, BuiltinAccount
  <2>3. Collects(p, lists, f, s1, {SystemAccount})
    BY <1>7, <1>8
  <2>4. Collects(p, lists, f, s2, N2)
    <3>1. CASE ins.literal
      <4>1. \E x \in OwnNeeds(p, f) : x.name = ProgramId(c)
        BY <1>3, <1>4, <1>8, <3>1
      <4>2. ProgramId(c) \in AccountNames
        BY <1>1, <1>8, NameFacts DEF InstructionOK
      <4>3. Collects(p, lists, f, AddsNamed(ProgramId(c)), {ProgramId(c)})
        BY <4>1, <4>2, CollectsNamed
      <4> QED BY <3>1, <4>3
    <3>2. CASE ~ins.literal
      BY <3>2, CollectsNone
    <3> QED BY <3>1, <3>2
  <2>5. Collects(p, lists, f, s3, N3)
    <3>1. CASE ins.accounts = "absent"
      <4>1. ins.f \in ExternalCallees(p, f)
        BY <1>2, <1>8, <3>1 DEF ExternalCallees
      <4>2. Collects(p, lists, f, Transfers(c, lists[ins.f]), {NameIn(n, c) : n \in Names(lists[ins.f])})
        BY <4>1, CollectsExternal
      <4> QED BY <3>1, <4>2
    <3>2. CASE ins.accounts # "absent"
      BY <3>2, CollectsNone
    <3> QED BY <3>1, <3>2
  <2> HIDE DEF s1, s2, s3, N2, N3
  <2>6. Collects(p, lists, f, s1 \o s2, {SystemAccount} \union N2)
    BY <2>3, <2>4, CollectsConcat
  <2>7. Collects(p, lists, f, (s1 \o s2) \o s3, ({SystemAccount} \union N2) \union N3)
    BY <2>5, <2>6, CollectsConcat
  <2> QED BY <2>1, <2>2, <2>7 DEF ins
<1>9. CASE ins.op = "new"
  <2> DEFINE s1 == IF ins.literal THEN AddsNamed(ProgramId(ins.c)) ELSE <<>>
             s2 == CASE ins.accounts = "present" -> <<>>
                     [] ins.accounts # "present" /\ ins.f # 0 -> Transfers(ins.c, lists[ins.f])
                     [] OTHER -> Adds(<<SolanaAccount(DataOf(ins.c), FALSE, TRUE, TRUE, loc)>>)
             s3 == AddsNamed(SystemAccount)
             N1 == IF ins.literal THEN {ProgramId(ins.c)} ELSE {}
             N2 == IF ins.accounts = "present" THEN {}
                   ELSE IF ins.f = 0 THEN {DataOf(ins.c)} ELSE {NameIn(n, ins.c) : n \in Names(lists[ins.f])}
  <2>1. AccountsOf(p, lists, ins, loc) = s1 \o s2 \o s3
    BY <1>9 DEF AccountsOf, ConstructorAccounts, BuiltinAccount
  <2>2. AddedBy(p, lists, ins) = {SystemAccount} \union N1 \union N2
    BY <1>9 DEF AddedBy, AddedByNew, BuiltinAccount
  <2>3. Collects(p, lists, f, s3, {SystemAccount})
    BY <1>7, <1>9
  <2>4. Collects(p, lists, f, s1, N1)
    <3>1. CASE ins.literal
      <4>1. \E x \in OwnNeeds(p, f) : x.name = ProgramId(ins.c)
        BY <1>3, <1>4, <1>9, <3>1
      <4>2. ProgramId(ins.c) \in AccountNames
        BY <1>1, <1>9, NameFacts DEF InstructionOK
      <4>3. Collects(p, lists, f, AddsNamed(ProgramId(ins.c)), {ProgramId(ins.c)})
        BY <4>1, <4>2, CollectsNamed
      <4> QED BY <3>1, <4>3
    <3>2. CASE ~ins.literal
      BY <3>2, CollectsNone
    <3> QED BY <3>1, <3>2
  <2>5. Collects(p, lists, f, s2, N2)
    <3>1. CASE ins.accounts = "present"
      <4>1. s2 = <<>> /\ N2 = {}
        BY <3>1
      <4> QED BY <4>1, CollectsNone
    <3>2. CASE ins.accounts # "present" /\ ins.f # 0
      <4>1. ins.f \in ExternalCallees(p, f)
        BY <1>2, <1>9, <3>2 DEF ExternalCallees
      <4>2. c = ins.c
        BY <1>1, <1>9, <3>2 DEF InstructionOK
      <4>3. Collects(p, lists, f, Transfers(c, lists[ins.f]), {NameIn(n, c) : n \in Names(lists[ins.f])})
        BY <4>1, CollectsExternal
      <4>4. s2 = Transfers(ins.c, lists[ins.f]) /\ N2 = {NameIn(n, ins.c) : n \in Names(lists[ins.f])}
        BY <3>2
      <4> QED BY <4>2, <4>3, <4>4
    <3>3. CASE ins.accounts # "present" /\ ins.f = 0
      <4> DEFINE a == SolanaAccount(DataOf(ins.c), FALSE, TRUE, TRUE, loc)
                 list == <<a>>
      <4>1. DataOf(ins.c) \in AccountNames
        BY <1>1, <1>9, NameFacts DEF InstructionOK
      <4>2. a \in Account /\ a.name = DataOf(ins.c) /\ ~a.signer
        BY <4>1 DEF SolanaAccount, Account
      <4>3. s2 = Adds(list) /\ N2 = {DataOf(ins.c)}
        BY <3>3
      <4>4. Need(DataOf(ins.c), FALSE, TRUE) \in Needs(p)[f]
        BY <1>3, <1>9, <3>3, NeedsFacts
      <4>5. Need(DataOf(ins.c), FALSE, TRUE).name = DataOf(ins.c) /\ Need(DataOf(ins.c), FALSE, TRUE).writer
        BY DEF Need
      <4> HIDE DEF a
      <4>6. Justified(Needs(p)[f], a)
        BY <4>2, <4>4, <4>5 DEF Justified
      <4>7. list \in Seq(Account) /\ DOMAIN list = {1} /\ list[1] = a
        BY <4>2
      <4> HIDE DEF list
      <4>8. Names(list) = {DataOf(ins.c)} /\ JustList(Needs(p)[f], list)
        BY <4>2, <4>6, <4>7 DEF Names, JustList
      <4>9. Collects(p, lists, f, Adds(list), {DataOf(ins.c)})
        BY <4>7, <4>8, AddsFacts DEF Collects
      <4> QED BY <4>3, <4>9
    <3> QED BY <3>1, <3>2, <3>3
  <2> HIDE DEF s1, s2, s3, N1, N2
  <2>6. Collects(p, lists, f, s1 \o s2, N1 \union N2)
    BY <2>4, <2>5, CollectsConcat
  <2>7. Collects(p, lists, f, (s1 \o s2) \o s3, (N1 \union N2) \union {SystemAccount})
    BY <2>3, <2>6, CollectsConcat
  <2>8. {SystemAccount} \union N1 \union N2 = (N1 \union N2) \union {SystemAccount}
    OBVIOUS
  <2> QED BY <2>1, <2>2, <2>7, <2>8 DEF ins
<1>10. CASE ins.op \notin DOMAIN BuiltinAccount /\ ins.op \notin {"internal", "call", "new"}
  <2>1. AccountsOf(p, lists, ins, loc) = <<>> /\ AddedBy(p, lists, ins) = {}
    BY <1>10 DEF AccountsOf, AddedBy
  <2> QED BY <2>1, CollectsNone DEF ins
<1> QED BY <1>5, <1>6, <1>8, <1>9, <1>10

\* Functions call functions of the program.
LEMMA CallsFacts ==
  ASSUME NEW p, WellFormed(p), NEW f \in DOMAIN p
  PROVE  Calls(p, f) \subseteq DOMAIN p
BY CalleeFacts DEF Calls

\* What an instruction adds only depends on the names in the callees' lists.
LEMMA AddedByMonotone ==
  ASSUME NEW p, NEW f \in DOMAIN p, NEW i \in DOMAIN p[f].body, NEW l1, NEW l2,
         \A g \in Calls(p, f) : Names(l1[g]) \subseteq Names(l2[g])
  PROVE  AddedBy(p, l1, p[f].body[i]) \subseteq AddedBy(p, l2, p[f].body[i])
<1> DEFINE ins == p[f].body[i]
<1>1. ins \in Elements(p[f].body)
  BY DEF Elements
<1> HIDE DEF ins
<1>2. CASE ins.op = "internal"
  <2>1. ins.f \in Calls(p, f)
    BY <1>1, <1>2 DEF Calls, InternalCallees
  <2> QED BY <1>2, <2>1 DEF AddedBy, BuiltinAccount, ins
<1>3. CASE ins.op = "call"
  <2>1. ins.accounts = "absent" => ins.f \in Calls(p, f)
    BY <1>1, <1>3 DEF Calls, ExternalCallees
  <2>2. AddedByCall(p, l1, ins) \subseteq AddedByCall(p, l2, ins)
    BY <2>1 DEF AddedByCall
  <2> QED BY <1>3, <2>2 DEF AddedBy, BuiltinAccount, ins
<1>4. CASE ins.op = "new"
  <2>1. ins.f # 0 /\ ins.accounts # "present" => ins.f \in Calls(p, f)
    BY <1>1, <1>4 DEF Calls, ExternalCallees
  <2>2. AddedByNew(l1, ins) \subseteq AddedByNew(l2, ins)
    BY <2>1 DEF AddedByNew
  <2> QED BY <1>4, <2>2 DEF AddedBy, BuiltinAccount, ins
<1>5. CASE ins.op \notin {"internal", "call", "new"}
  BY <1>5 DEF AddedBy, BuiltinAccount, ins
<1> QED BY <1>2, <1>3, <1>4, <1>5

\* The functions that one instruction puts in the queue.
QueuedBy(f, ins) == IF Revisits(ins) THEN {ins.f, f} ELSE {}

\* IndexSet's insert.
LEMMA EnqueueFacts ==
  ASSUME NEW S, NEW q \in Seq(S), NEW f \in S
  PROVE  /\ Enqueue(q, f) \in Seq(S) /\ Elements(Enqueue(q, f)) = Elements(q) \union {f}
         /\ Distinct(q) => Distinct(Enqueue(q, f))
<1>1. CASE f \in Elements(q)
  BY <1>1 DEF Enqueue
<1>2. CASE f \notin Elements(q)
  <2> DEFINE r == Append(q, f)
  <2>1. Enqueue(q, f) = r
    BY <1>2 DEF Enqueue
  <2>2. /\ r \in Seq(S) /\ DOMAIN q = 1 .. Len(q) /\ Len(q) \in Nat /\ DOMAIN r = (1 .. Len(q)) \union {Len(q) + 1}
        /\ r[Len(q) + 1] = f /\ \A n \in 1 .. Len(q) : r[n] = q[n] /\ n # Len(q) + 1
    OBVIOUS
  <2> HIDE DEF r
  <2>3. Elements(r) = Elements(q) \union {f}
    BY <2>2 DEF Elements
  <2>4. Distinct(q) => Distinct(r)
    BY <1>2, <2>2 DEF Distinct, Elements
  <2> QED BY <2>1, <2>2, <2>3, <2>4
<1> QED BY <1>1, <1>2

\* The queue gets the functions Q.
Queuing(w, w2, Q) ==
  /\ Elements(w2.next) = Elements(w.next) \union Q
  /\ Distinct(w.next) => Distinct(w2.next)

\* From w to w2 the list of f gets the names N and the queue the functions Q.
Visits(p, f, w, w2, N, Q) ==
  /\ w2 \in Works(p) /\ Queuing(w, w2, Q)
  /\ \A g \in DOMAIN p \ {f} : w2.accounts[g] = w.accounts[g]
  /\ Names(w2.accounts[f]) = Names(w.accounts[f]) \union N
  /\ w2.added >= w.added
  /\ w2.added = w.added <=> N \subseteq Names(w.accounts[f])
  /\ AllJust(p, w.accounts) => AllJust(p, w2.accounts)

\* check_instruction.
LEMMA CheckInstructionFacts ==
  ASSUME NEW p, WellFormed(p), NEW w \in Works(p), NEW f \in DOMAIN p, NEW i \in DOMAIN p[f].body
  PROVE  Visits(p, f, w, CheckInstruction(p, w, f, i), AddedBy(p, w.accounts, p[f].body[i]), QueuedBy(f, p[f].body[i]))
<1> DEFINE ins == p[f].body[i]
           list == AccountsOf(p, w.accounts, ins, <<f, i>>)
           w1 == Queued(w, f, ins)
           w2 == AddAll(w1, f, <<f, i>>, list)
           N == AddedBy(p, w.accounts, ins)
<1>1. w.accounts \in Lists(p) /\ w.next \in Seq(DOMAIN p) /\ w.added \in Nat
  BY DEF Works
<1>2. <<f, i>> \in Int \X Int
  <2>1. DOMAIN p = 1 .. Len(p) /\ p[f].body \in Seq(Instructions(p)) /\ Len(p) \in Nat
    BY FunctionFacts
  <2>2. DOMAIN p[f].body = 1 .. Len(p[f].body)
    BY <2>1
  <2> QED BY <2>1, <2>2
<1>3. Collects(p, w.accounts, f, list, N)
  BY <1>1, <1>2, AccountsOfFacts
<1>4. InstructionOK(p, f, ins)
  BY InstructionFacts
<1>5. Revisits(ins) => ins.f \in DOMAIN p
  BY <1>4 DEF Revisits, InstructionOK
<1>6. CheckInstruction(p, w, f, i) = w2
  <2>1. CheckInstruction(p, w, f, i) = Only({AddAll(w1, f, <<f, i>>, l) : l \in {list}})
    BY DEF CheckInstruction
  <2>2. {AddAll(w1, f, <<f, i>>, l) : l \in {list}} = {w2}
    OBVIOUS
  <2> HIDE DEF w2
  <2> QED BY <2>1, <2>2, OnlyOne
<1> HIDE DEF ins, list
<1>7. /\ w1 \in Works(p) /\ w1.accounts = w.accounts /\ w1.added = w.added
      /\ Queuing(w, w1, QueuedBy(f, ins))
  <2>1. CASE Revisits(ins)
    <3> DEFINE q1 == Enqueue(w.next, ins.f)
               q2 == Enqueue(q1, f)
    <3>1. q1 \in Seq(DOMAIN p) /\ Elements(q1) = Elements(w.next) \union {ins.f} /\ (Distinct(w.next) => Distinct(q1))
      BY <1>1, <1>5, <2>1, EnqueueFacts
    <3> HIDE DEF q1
    <3>2. q2 \in Seq(DOMAIN p) /\ Elements(q2) = Elements(q1) \union {f} /\ (Distinct(q1) => Distinct(q2))
      BY <3>1, EnqueueFacts
    <3>3. w1 = [w EXCEPT !.next = q2]
      BY <2>1 DEF Queued, q1
    <3> HIDE DEF q2, w1
    <3>4. w1 \in Works(p) /\ w1.next = q2 /\ w1.accounts = w.accounts /\ w1.added = w.added
      BY <3>2, <3>3 DEF Works
    <3>5. QueuedBy(f, ins) = {ins.f, f}
      BY <2>1 DEF QueuedBy
    <3>6. Elements(q2) = Elements(w.next) \union {ins.f, f}
      BY <3>1, <3>2
    <3> QED BY <3>1, <3>2, <3>4, <3>5, <3>6 DEF Queuing
  <2>2. CASE ~Revisits(ins)
    BY <2>2 DEF Queued, QueuedBy, Queuing
  <2> QED BY <2>1, <2>2
<1> HIDE DEF w1
<1>8. list \in Seq(Entries) /\ EntryNames(list) = N
  BY <1>3 DEF Collects
<1> HIDE DEF N
<1>9. Grown(p, f, w1, w2, N)
  BY <1>2, <1>7, <1>8, AddAllFacts
<1>10. AllJust(p, w.accounts) => JustList(Needs(p)[f], w2.accounts[f])
  <2> SUFFICES ASSUME AllJust(p, w.accounts) PROVE JustList(Needs(p)[f], w2.accounts[f])
    OBVIOUS
  <2>1. JustList(Needs(p)[f], w1.accounts[f])
    BY <1>7 DEF AllJust
  <2>2. JustEntries(Needs(p)[f], list)
    BY <1>3 DEF Collects
  <2> QED BY <1>2, <1>7, <1>8, <2>1, <2>2, AddAllFacts
<1> HIDE DEF w2
<1>11. \A g \in DOMAIN p \ {f} : w2.accounts[g] = w.accounts[g]
  BY <1>7, <1>9 DEF Grown
<1>12. AllJust(p, w.accounts) => AllJust(p, w2.accounts)
  BY <1>10, <1>11 DEF AllJust
<1>13. Visits(p, f, w, w2, N, QueuedBy(f, ins))
  BY <1>7, <1>9, <1>11, <1>12 DEF Visits, Grown, Queuing
<1> QED BY <1>6, <1>13 DEF ins, N

\* One visit after the other.
LEMMA VisitsTwice ==
  ASSUME NEW p, NEW f \in DOMAIN p, NEW w \in Works(p), NEW w1, NEW w2, NEW N1, NEW N2, NEW Q1, NEW Q2,
         Visits(p, f, w, w1, N1, Q1), Visits(p, f, w1, w2, N2, Q2)
  PROVE  Visits(p, f, w, w2, N1 \union N2, Q1 \union Q2)
<1>1. w.added \in Nat /\ w1.added \in Nat /\ w2.added \in Nat
  BY DEF Visits, Works
<1>2. Names(w2.accounts[f]) = Names(w.accounts[f]) \union (N1 \union N2)
  BY DEF Visits
<1>3. w2.added >= w.added /\ (w2.added = w.added <=> w2.added = w1.added /\ w1.added = w.added)
  BY <1>1 DEF Visits
<1>4. N1 \union N2 \subseteq Names(w.accounts[f])
        <=> N2 \subseteq Names(w1.accounts[f]) /\ N1 \subseteq Names(w.accounts[f])
  BY DEF Visits
<1>5. w2 \in Works(p) /\ \A g \in DOMAIN p \ {f} : w2.accounts[g] = w.accounts[g]
  BY DEF Visits
<1>6. w2.added = w.added <=> N1 \union N2 \subseteq Names(w.accounts[f])
  BY <1>3, <1>4 DEF Visits
<1>7. Queuing(w, w1, Q1) /\ Queuing(w1, w2, Q2)
  BY DEF Visits
<1>8. Queuing(w, w2, Q1 \union Q2)
  BY <1>7 DEF Queuing
<1>9. AllJust(p, w.accounts) => AllJust(p, w2.accounts)
  BY DEF Visits
<1> QED BY <1>2, <1>3, <1>5, <1>6, <1>8, <1>9 DEF Visits

\* No visit.
LEMMA VisitsNot ==
  ASSUME NEW p, NEW f \in DOMAIN p, NEW w \in Works(p)
  PROVE  Visits(p, f, w, w, {}, {})
<1>1. w.added \in Nat
  BY DEF Works
<1> QED BY <1>1 DEF Visits, Queuing

\* What a visit of f queues, from the instructions.
LEMMA QueuesFacts ==
  ASSUME NEW p, NEW f \in DOMAIN p
  PROVE  UNION {QueuedBy(f, p[f].body[i]) : i \in DOMAIN p[f].body} = Queues(p, f)
<1> DEFINE U == UNION {QueuedBy(f, p[f].body[i]) : i \in DOMAIN p[f].body}
<1>1. \A x : x \in Calls(p, f) <=> \E i \in DOMAIN p[f].body : Revisits(p[f].body[i]) /\ x = p[f].body[i].f
  BY DEF Calls, InternalCallees, ExternalCallees, Elements, Revisits
<1>2. \A x : x \in U <=> \E i \in DOMAIN p[f].body : Revisits(p[f].body[i]) /\ (x = p[f].body[i].f \/ x = f)
  BY DEF QueuedBy
<1> HIDE DEF U
<1>3. \A x : x \in U <=> x \in Queues(p, f)
  <2> SUFFICES ASSUME NEW x PROVE x \in U <=> x \in Queues(p, f)
    OBVIOUS
  <2>1. CASE \E i \in DOMAIN p[f].body : Revisits(p[f].body[i])
    <3>1. Calls(p, f) # {}
      BY <1>1, <2>1
    <3>2. x \in Queues(p, f) <=> x = f \/ x \in Calls(p, f)
      BY <3>1 DEF Queues
    <3> QED BY <1>1, <1>2, <2>1, <3>2
  <2>2. CASE ~\E i \in DOMAIN p[f].body : Revisits(p[f].body[i])
    <3>1. Calls(p, f) = {}
      BY <1>1, <2>2
    <3> QED BY <1>2, <2>2, <3>1 DEF Queues
  <2> QED BY <2>1, <2>2
<1> QED BY <1>3 DEF U

\* CheckFunction is the last of a sequence of instructions.
LEMMA CheckFunctionDef ==
  ASSUME NEW p, WellFormed(p), NEW w \in Works(p), NEW f \in DOMAIN p
  PROVE  \E r \in [0 .. Len(p[f].body) -> Works(p)] :
           /\ r[0] = w /\ \A n \in 1 .. Len(p[f].body) : r[n] = CheckInstruction(p, r[n - 1], f, n)
           /\ CheckFunction(p, w, f) = r[Len(p[f].body)]
<1> DEFINE k == Len(p[f].body)
           V == Works(p)
           step == [e \in (1 .. k) \X V |-> CheckInstruction(p, e[2], f, e[1])]
           Is(r) == r = [n \in 0 .. k |-> IF n = 0 THEN w ELSE Only({CheckInstruction(p, v, f, n) : v \in {r[n - 1]}})]
<1>1. k \in Nat /\ DOMAIN p[f].body = 1 .. k
  <2>1. p[f].body \in Seq(Instructions(p))
    BY FunctionFacts
  <2> QED BY <2>1
<1>2. \A n \in 1 .. k : \A v \in V : CheckInstruction(p, v, f, n) \in V
  <2> SUFFICES ASSUME NEW n \in 1 .. k, NEW v \in V PROVE CheckInstruction(p, v, f, n) \in V
    OBVIOUS
  <2>1. Visits(p, f, v, CheckInstruction(p, v, f, n), AddedBy(p, v.accounts, p[f].body[n]), QueuedBy(f, p[f].body[n]))
    BY <1>1, CheckInstructionFacts
  <2> QED BY <2>1 DEF Visits
<1> HIDE DEF k, V
<1>3. step \in [(1 .. k) \X V -> V]
  BY <1>2
<1>4. w \in V
  BY DEF V
<1>5. \A n \in 1 .. k : \A v \in V : step[<<n, v>>] = CheckInstruction(p, v, f, n)
  OBVIOUS
<1> HIDE DEF step
<1>6. PICK r \in [0 .. k -> V] : r[0] = w /\ \A n \in 1 .. k : r[n] = step[<<n, r[n - 1]>>]
  <2>1. PICK r : Recursive(r, k, V, w, step)
    BY <1>1, <1>3, <1>4, Recursion
  <2> QED BY <2>1 DEF Recursive
<1>7. \A n \in 1 .. k : r[n] = CheckInstruction(p, r[n - 1], f, n)
  <2> SUFFICES ASSUME NEW n \in 1 .. k PROVE r[n] = CheckInstruction(p, r[n - 1], f, n)
    OBVIOUS
  <2>1. n - 1 \in 0 .. k
    BY <1>1
  <2>2. r[n - 1] \in V
    BY <2>1
  <2> QED BY <1>5, <1>6, <2>2
<1>8. \A r1 : \A n : Only({CheckInstruction(p, v, f, n) : v \in {r1[n - 1]}}) = CheckInstruction(p, r1[n - 1], f, n)
  <2> SUFFICES ASSUME NEW r1, NEW n
               PROVE  Only({CheckInstruction(p, v, f, n) : v \in {r1[n - 1]}}) = CheckInstruction(p, r1[n - 1], f, n)
    OBVIOUS
  <2>1. {CheckInstruction(p, v, f, n) : v \in {r1[n - 1]}} = {CheckInstruction(p, r1[n - 1], f, n)}
    OBVIOUS
  <2> QED BY <2>1, OnlyOne
<1>9. Is(r)
  <2>1. \A n \in 0 .. k : n = 0 \/ n \in 1 .. k
    BY <1>1
  <2>2. \A n \in 0 .. k :
          r[n] = IF n = 0 THEN w ELSE Only({CheckInstruction(p, v, f, n) : v \in {r[n - 1]}})
    BY <1>6, <1>7, <1>8, <2>1
  <2> QED BY <2>2
<1>10. CheckFunction(p, w, f) = (CHOOSE r1 : Is(r1))[k]
  BY DEF CheckFunction, k
<1> DEFINE z == CHOOSE r1 : Is(r1)
<1>11. Is(z)
  <2> HIDE DEF Is
  <2> QED BY <1>9
<1> HIDE DEF z
<1>12. z = r
  <2> DEFINE G == {n \in 0 .. k : z[n] = r[n]}
  <2>1. \A n \in 0 .. k : z[n] = IF n = 0 THEN w ELSE CheckInstruction(p, z[n - 1], f, n)
    <3>1. \A n \in 0 .. k : z[n] = IF n = 0 THEN w ELSE Only({CheckInstruction(p, v, f, n) : v \in {z[n - 1]}})
      BY <1>11
    <3> QED BY <1>8, <3>1
  <2>2. 0 \in G
    BY <1>1, <1>6, <2>1
  <2>3. \A n \in 1 .. k : n - 1 \in G => n \in G
    BY <1>1, <1>7, <2>1
  <2>4. 0 .. k \subseteq G
    BY <1>1, <2>2, <2>3, UpTo
  <2>5. DOMAIN z = 0 .. k /\ z = [n \in 0 .. k |-> z[n]]
    BY <1>11
  <2>6. r = [n \in 0 .. k |-> r[n]]
    BY <1>6
  <2>7. \A n \in 0 .. k : z[n] = r[n]
    BY <2>4
  <2> HIDE DEF G
  <2> QED BY <2>5, <2>6, <2>7
<1> QED BY <1>6, <1>7, <1>10, <1>12 DEF z, k, V

\* check_function: the list of f has what its instructions add, and a visit
\* of a function that is closed adds nothing.
LEMMA CheckFunctionFacts ==
  ASSUME NEW p, WellFormed(p), NEW w \in Works(p), NEW f \in DOMAIN p
  PROVE  LET w2 == CheckFunction(p, w, f)
         IN  \E N : /\ Visits(p, f, w, w2, N, Queues(p, f))
                    /\ \A i \in DOMAIN p[f].body : AddedBy(p, w.accounts, p[f].body[i]) \subseteq Names(w2.accounts[f])
                    /\ Closed(p, w.accounts, f) => N \subseteq Names(w.accounts[f])
<1> DEFINE k == Len(p[f].body)
<1>1. k \in Nat /\ DOMAIN p[f].body = 1 .. k
  <2>1. p[f].body \in Seq(Instructions(p))
    BY FunctionFacts
  <2> QED BY <2>1
<1>2. PICK r \in [0 .. k -> Works(p)] :
           /\ r[0] = w /\ \A n \in 1 .. k : r[n] = CheckInstruction(p, r[n - 1], f, n)
           /\ CheckFunction(p, w, f) = r[k]
  BY CheckFunctionDef
<1> HIDE DEF k
<1> DEFINE Q(n) == UNION {QueuedBy(f, p[f].body[m]) : m \in 1 .. n}
           Has(n) == \A m \in 1 .. n : AddedBy(p, w.accounts, p[f].body[m]) \subseteq Names(r[n].accounts[f])
           Good(n) == \E N : /\ Visits(p, f, w, r[n], N, Q(n)) /\ Has(n)
                             /\ Closed(p, w.accounts, f) => N \subseteq Names(w.accounts[f])
           G == {n \in 0 .. k : Good(n)}
<1>3. 0 \in G
  <2>1. Q(0) = {} /\ Has(0)
    OBVIOUS
  <2>2. Visits(p, f, w, w, {}, {})
    BY VisitsNot
  <2> HIDE DEF Q, Has
  <2>3. Good(0)
    BY <1>2, <2>1, <2>2
  <2> HIDE DEF Good
  <2> QED BY <1>1, <2>3
<1>4. ASSUME NEW n \in 1 .. k, n - 1 \in G PROVE n \in G
  <2>1. n - 1 \in 0 .. k /\ n \in 0 .. k
    BY <1>1
  <2>2. PICK N : /\ Visits(p, f, w, r[n - 1], N, Q(n - 1)) /\ Has(n - 1)
                 /\ Closed(p, w.accounts, f) => N \subseteq Names(w.accounts[f])
    BY <1>4
  <2> DEFINE M == AddedBy(p, r[n - 1].accounts, p[f].body[n])
             A == AddedBy(p, w.accounts, p[f].body[n])
  <2>3. r[n - 1] \in Works(p) /\ r[n] = CheckInstruction(p, r[n - 1], f, n)
    BY <1>2, <2>1
  <2>4. Visits(p, f, r[n - 1], r[n], M, QueuedBy(f, p[f].body[n]))
    BY <1>1, <2>3, CheckInstructionFacts
  <2>5. Q(n) = Q(n - 1) \union QueuedBy(f, p[f].body[n])
    <3>1. 1 .. n = (1 .. n - 1) \union {n}
      BY <1>1
    <3> QED BY <3>1
  <2>6. \A g \in Calls(p, f) : Names(w.accounts[g]) \subseteq Names(r[n - 1].accounts[g])
    BY <2>2, CallsFacts DEF Visits
  <2>7. A \subseteq M
    <3>1. n \in DOMAIN p[f].body
      BY <1>1
    <3> DEFINE l1 == w.accounts
               l2 == r[n - 1].accounts
    <3>2. \A g \in Calls(p, f) : Names(l1[g]) \subseteq Names(l2[g])
      BY <2>6
    <3> HIDE DEF l1, l2
    <3>3. AddedBy(p, l1, p[f].body[n]) \subseteq AddedBy(p, l2, p[f].body[n])
      BY <3>1, <3>2, AddedByMonotone
    <3> QED BY <3>3 DEF l1, l2
  <2>8. Names(r[n].accounts[f]) = Names(r[n - 1].accounts[f]) \union M
    BY <2>4 DEF Visits
  <2>9. Closed(p, w.accounts, f) => M \subseteq Names(w.accounts[f])
    <3> SUFFICES ASSUME Closed(p, w.accounts, f) PROVE M \subseteq Names(w.accounts[f])
      OBVIOUS
    <3>1. \A g \in Calls(p, f) : Names(r[n - 1].accounts[g]) \subseteq Names(w.accounts[g])
      BY <2>2, CallsFacts DEF Visits
    <3>2. M \subseteq A
      BY <1>1, <3>1, AddedByMonotone
    <3>3. A \subseteq Names(w.accounts[f])
      BY <1>1 DEF Closed
    <3> QED BY <3>2, <3>3
  <2>10. Has(n)
    <3> SUFFICES ASSUME NEW m \in 1 .. n PROVE AddedBy(p, w.accounts, p[f].body[m]) \subseteq Names(r[n].accounts[f])
      OBVIOUS
    <3> HIDE DEF M
    <3>1. CASE m = n
      BY <2>7, <2>8, <3>1
    <3>2. CASE m # n
      <4>1. m \in 1 .. n - 1
        BY <1>1, <3>2
      <4>2. AddedBy(p, w.accounts, p[f].body[m]) \subseteq Names(r[n - 1].accounts[f])
        BY <2>2, <4>1
      <4> QED BY <2>8, <4>2
    <3> QED BY <3>1, <3>2
  <2> HIDE DEF M, Q, Has
  <2>11. Visits(p, f, w, r[n], N \union M, Q(n))
    BY <2>2, <2>4, <2>5, VisitsTwice
  <2>12. Closed(p, w.accounts, f) => N \union M \subseteq Names(w.accounts[f])
    BY <2>2, <2>9
  <2>13. Good(n)
    BY <2>10, <2>11, <2>12
  <2> HIDE DEF Good
  <2> QED BY <2>1, <2>13
<1> HIDE DEF G
<1>5. k \in G
  BY <1>1, <1>3, <1>4, UpTo
<1>6. PICK N : /\ Visits(p, f, w, r[k], N, Q(k)) /\ Has(k)
               /\ Closed(p, w.accounts, f) => N \subseteq Names(w.accounts[f])
  BY <1>5 DEF G
<1>7. Q(k) = Queues(p, f)
  BY <1>1, QueuesFacts
<1> HIDE DEF Q
<1> QED BY <1>1, <1>2, <1>6, <1>7

\* A function stays closed while no name is added to its callees.
LEMMA ClosedStays ==
  ASSUME NEW p, NEW f \in DOMAIN p, NEW l1, NEW l2, Closed(p, l1, f),
         Names(l1[f]) \subseteq Names(l2[f]), \A g \in Calls(p, f) : Names(l2[g]) \subseteq Names(l1[g])
  PROVE  Closed(p, l2, f)
BY AddedByMonotone DEF Closed


-----------------------------------------------------------------------------
(* The contracts and what semantic analysis gives the functions            *)

\* The functions of a contract, each once.
LEMMA FunctionsOfFacts ==
  ASSUME NEW p, WellFormed(p), NEW c \in Nat
  PROVE  /\ FunctionsOf(p, c) \in Seq(DOMAIN p) /\ Elements(FunctionsOf(p, c)) = Of(p, c)
         /\ Distinct(FunctionsOf(p, c))
<1> DEFINE k == Len(p)
           V == Seq(DOMAIN p)
           Is(r) == r = [n \in 0 .. k |-> IF n = 0 THEN <<>>
                                          ELSE IF p[n].contract = c THEN Append(r[n - 1], n) ELSE r[n - 1]]
           step == [x \in (1 .. k) \X V |-> IF p[x[1]].contract = c THEN Append(x[2], x[1]) ELSE x[2]]
<1>1. k \in Nat /\ DOMAIN p = 1 .. k
  BY FunctionFacts
<1>2. <<>> \in V
  OBVIOUS
<1>3. step \in [(1 .. k) \X V -> V]
  <2>1. \A n \in 1 .. k : \A s \in V : Append(s, n) \in V
    BY <1>1
  <2> QED BY <2>1
<1>4. \A n \in 1 .. k : \A s \in V :
        step[<<n, s>>] = IF p[n].contract = c THEN Append(s, n) ELSE s
  OBVIOUS
<1> HIDE DEF k, V, step
<1>5. PICK r : Recursive(r, k, V, <<>>, step)
  BY <1>1, <1>2, <1>3, Recursion
<1>6. Is(r)
  <2>1. r \in [0 .. k -> V] /\ r[0] = <<>> /\ \A n \in 1 .. k : r[n] = step[<<n, r[n - 1]>>]
    BY <1>5 DEF Recursive
  <2>2. \A n \in 0 .. k : n = 0 \/ (n \in 1 .. k /\ n - 1 \in 0 .. k)
    BY <1>1
  <2>3. \A n \in 0 .. k : r[n] = IF n = 0 THEN <<>>
                                 ELSE IF p[n].contract = c THEN Append(r[n - 1], n) ELSE r[n - 1]
    <3> SUFFICES ASSUME NEW n \in 0 .. k
                 PROVE  r[n] = IF n = 0 THEN <<>>
                               ELSE IF p[n].contract = c THEN Append(r[n - 1], n) ELSE r[n - 1]
      OBVIOUS
    <3>1. CASE n = 0
      BY <2>1, <3>1
    <3>2. CASE n # 0
      <4>1. n \in 1 .. k /\ r[n - 1] \in V
        BY <2>1, <2>2, <3>2
      <4>2. r[n] = step[<<n, r[n - 1]>>]
        BY <2>1, <4>1
      <4>3. step[<<n, r[n - 1]>>] = IF p[n].contract = c THEN Append(r[n - 1], n) ELSE r[n - 1]
        BY <1>4, <4>1
      <4> QED BY <3>2, <4>2, <4>3
    <3> QED BY <3>1, <3>2
  <2> QED BY <2>1, <2>3
<1>7. FunctionsOf(p, c) = (CHOOSE r1 : Is(r1))[k]
  BY DEF FunctionsOf, k
<1> DEFINE z == CHOOSE r1 : Is(r1)
<1>8. Is(z)
  <2> HIDE DEF Is
  <2> QED BY <1>6
<1> HIDE DEF z
<1> DEFINE First(n) == {f \in 1 .. n : p[f].contract = c}
           Good(n) == z[n] \in V /\ Elements(z[n]) = First(n) /\ Distinct(z[n])
           G == {n \in 0 .. k : Good(n)}
<1>9. 0 \in G
  <2>1. z[0] = <<>> /\ 0 \in 0 .. k
    BY <1>1, <1>8
  <2>2. Elements(<<>>) = {} /\ Distinct(<<>>)
    BY DEF Elements, Distinct
  <2>3. First(0) = {}
    OBVIOUS
  <2> QED BY <1>2, <2>1, <2>2, <2>3
<1>10. ASSUME NEW n \in 1 .. k, n - 1 \in G PROVE n \in G
  <2>1. n \in 0 .. k /\ n # 0 /\ n \in DOMAIN p /\ n \in Nat
    BY <1>1
  <2>2. z[n] = IF p[n].contract = c THEN Append(z[n - 1], n) ELSE z[n - 1]
    BY <1>8, <2>1
  <2>3. Good(n - 1)
    BY <1>10
  <2>4. 1 .. n = (1 .. n - 1) \union {n} /\ n \notin 1 .. n - 1
    BY <2>1
  <2>5. CASE p[n].contract = c
    <3>1. First(n) = First(n - 1) \union {n} /\ n \notin First(n - 1)
      BY <2>4, <2>5
    <3>2. z[n] = Enqueue(z[n - 1], n)
      BY <2>2, <2>3, <2>5, <3>1 DEF Enqueue
    <3> HIDE DEF First
    <3>3. z[n] \in Seq(DOMAIN p) /\ Elements(z[n]) = Elements(z[n - 1]) \union {n} /\ Distinct(z[n])
      BY <2>1, <2>3, <3>2, EnqueueFacts DEF V
    <3> QED BY <2>1, <2>3, <3>1, <3>3 DEF V
  <2>6. CASE p[n].contract # c
    <3>1. First(n) = First(n - 1)
      BY <2>4, <2>6
    <3> QED BY <2>1, <2>2, <2>3, <2>6, <3>1
  <2> QED BY <2>5, <2>6
<1> HIDE DEF G
<1>11. k \in G
  BY <1>1, <1>9, <1>10, UpTo
<1>12. Good(k)
  BY <1>11 DEF G
<1>13. First(k) = Of(p, c)
  BY <1>1 DEF Of
<1> QED BY <1>7, <1>12, <1>13 DEF z, V

\* The last contract.
LEMMA NumContractsFacts ==
  ASSUME NEW p, WellFormed(p)
  PROVE  NumContracts(p) \in Nat \ {0} /\ \A f \in DOMAIN p : p[f].contract <= NumContracts(p)
<1> DEFINE k == Len(p)
           C(f) == p[f].contract
           Good(n) == n = 0 \/ \E m \in 1 .. k : \A f \in 1 .. n : C(f) <= C(m)
           G == {n \in 0 .. k : Good(n)}
<1>1. k \in Nat \ {0} /\ DOMAIN p = 1 .. k /\ \A f \in 1 .. k : C(f) \in Nat \ {0}
  BY FunctionFacts
<1> HIDE DEF k, C
<1>2. 0 \in G
  BY <1>1
<1>3. ASSUME NEW n \in 1 .. k, n - 1 \in G PROVE n \in G
  <2>1. n \in 0 .. k /\ \A f \in 1 .. n : f = n \/ f \in 1 .. n - 1
    BY <1>1
  <2>2. \A f \in 1 .. n : f \in 1 .. k
    BY <1>1
  <2>3. CASE n = 1
    <3>1. \A f \in 1 .. n : C(f) <= C(n)
      <4>1. \A f \in 1 .. n : f = n
        BY <2>3
      <4> QED BY <1>1, <4>1
    <3> QED BY <2>1, <3>1
  <2>4. CASE n # 1
    <3>1. PICK m \in 1 .. k : \A f \in 1 .. n - 1 : C(f) <= C(m)
      BY <1>1, <1>3, <2>4
    <3>2. CASE C(n) <= C(m)
      BY <2>1, <3>1, <3>2
    <3>3. CASE ~(C(n) <= C(m))
      <4>1. \A f \in 1 .. n : C(f) <= C(n)
        <5> SUFFICES ASSUME NEW f \in 1 .. n PROVE C(f) <= C(n)
          OBVIOUS
        <5>1. C(f) \in Nat /\ C(n) \in Nat /\ C(m) \in Nat
          BY <1>1, <2>2
        <5>2. f = n \/ C(f) <= C(m)
          BY <2>1, <3>1
        <5> QED BY <3>3, <5>1, <5>2
      <4> QED BY <2>1, <4>1
    <3> QED BY <3>2, <3>3
  <2> QED BY <2>3, <2>4
<1> HIDE DEF G
<1>4. k \in G
  <2>1. k \in Nat
    BY <1>1
  <2>2. 0 .. k \subseteq G
    BY <1>2, <1>3, <2>1, UpTo
  <2> QED BY <2>1, <2>2
<1>5. PICK m \in 1 .. k : \A f \in 1 .. k : C(f) <= C(m)
  BY <1>1, <1>4 DEF G
<1> DEFINE S == {p[i].contract : i \in DOMAIN p}
           Last(n) == \A i \in DOMAIN p : p[i].contract <= n
<1>6. C(m) \in S /\ Last(C(m))
  BY <1>1, <1>5 DEF C
<1>7. NumContracts(p) = CHOOSE n \in S : Last(n)
  BY DEF NumContracts
<1> HIDE DEF Last
<1>8. NumContracts(p) \in S /\ Last(NumContracts(p))
  <2> HIDE DEF S
  <2> QED BY <1>6, <1>7
<1>9. \A x \in S : x \in Nat \ {0}
  BY <1>1 DEF C
<1> QED BY <1>8, <1>9 DEF Last

\* Distinct sequences of one length, one inside the other.
LEMMA SameElements ==
  ASSUME NEW S, NEW s \in Seq(S), NEW t \in Seq(S), Distinct(s), Distinct(t),
         Len(s) = Len(t), Elements(s) \subseteq Elements(t)
  PROVE  Elements(t) = Elements(s)
<1>1. ASSUME NEW u \in Seq(S), Distinct(u)
      PROVE  IsFiniteSet(Elements(u)) /\ Cardinality(Elements(u)) = Len(u)
  <2>1. Len(u) \in Nat /\ DOMAIN u = 1 .. Len(u)
    OBVIOUS
  <2>2. u \in [1 .. Len(u) -> Elements(u)]
    <3>1. \A i \in 1 .. Len(u) : u[i] \in Elements(u)
      BY <2>1 DEF Elements
    <3> QED BY <2>1, <3>1
  <2>3. \A x \in Elements(u) : \E i \in 1 .. Len(u) : u[i] = x
    BY <2>1 DEF Elements
  <2>4. \A i, j \in 1 .. Len(u) : u[i] = u[j] => i = j
    BY <1>1, <2>1 DEF Distinct
  <2>5. u \in Bijection(1 .. Len(u), Elements(u))
    BY <2>2, <2>3, <2>4 DEF Bijection, Injection, Surjection, IsInjective
  <2>6. ExistsBijection(1 .. Len(u), Elements(u))
    BY <2>5 DEF ExistsBijection
  <2>7. Cardinality(Elements(u)) = Len(u)
    BY <2>1, <2>6, FS_CountingElements
  <2>8. IsFiniteSet(Elements(u))
    BY <2>1, <2>6, FS_NatBijection
  <2> QED BY <2>7, <2>8
<1>2. /\ IsFiniteSet(Elements(t)) /\ Cardinality(Elements(t)) = Len(t)
      /\ Cardinality(Elements(s)) = Len(s)
  BY <1>1
<1> QED BY <1>2, FS_Subset

\* An account with the name and flags of a need.
LEMMA JustifiedBy ==
  ASSUME NEW needs, NEW n \in needs, NEW a, n.name = a.name, a.writer => n.writer, a.signer => n.signer
  PROVE  Justified(needs, a)
BY DEF Justified

\* The needs that a function has from its declaration and from storage.
LEMMA OwnNeedsGiven ==
  ASSUME NEW p, WellFormed(p), NEW f \in DOMAIN p
  PROVE  /\ \A d \in DOMAIN p[f].declared :
              Need(p[f].declared[d].name, p[f].declared[d].signer, p[f].declared[d].writer) \in OwnNeeds(p, f)
         /\ Uses(p[f], {"store"}) => Need(DataAccount, FALSE, TRUE) \in OwnNeeds(p, f)
         /\ Uses(p[f], {"load", "store"}) => \E n \in OwnNeeds(p, f) : n.name = DataAccount
         /\ p[f].kind = "constructor" => Need(DataAccount, p[f].payer /\ ~p[f].seed, TRUE) \in OwnNeeds(p, f)
         /\ p[f].kind = "constructor" /\ p[f].payer => Need(SystemAccount, FALSE, FALSE) \in OwnNeeds(p, f)
<1>1. ASSUME NEW d \in DOMAIN p[f].declared
      PROVE  Need(p[f].declared[d].name, p[f].declared[d].signer, p[f].declared[d].writer) \in OwnNeeds(p, f)
  <2> DEFINE x == p[f].declared[d]
  <2>1. x \in Elements(p[f].declared)
    BY DEF Elements
  <2> HIDE DEF x
  <2>2. Need(x.name, x.signer, x.writer) \in OwnNeeds(p, f)
    BY <2>1 DEF OwnNeeds
  <2> QED BY <2>2 DEF x
<1>2. ASSUME NEW i \in DOMAIN p[f].body, p[f].body[i].op \in {"load", "store"}
      PROVE  Need(DataAccount, FALSE, p[f].body[i].op = "store") \in OwnNeeds(p, f)
  <2> DEFINE ins == p[f].body[i]
  <2>1. ins \in Elements(p[f].body) /\ ins.op \in {"load", "store"}
    BY <1>2 DEF Elements
  <2> HIDE DEF ins
  <2>2. Need(DataAccount, FALSE, ins.op = "store") \in OwnNeeds(p, f)
    BY <2>1 DEF OwnNeeds
  <2> QED BY <2>2 DEF ins
<1>3. ASSUME Uses(p[f], {"store"}) PROVE Need(DataAccount, FALSE, TRUE) \in OwnNeeds(p, f)
  <2>1. PICK i \in DOMAIN p[f].body : p[f].body[i].op = "store"
    BY <1>3 DEF Uses
  <2>2. Need(DataAccount, FALSE, p[f].body[i].op = "store") \in OwnNeeds(p, f)
    BY <1>2, <2>1
  <2>3. Need(DataAccount, FALSE, p[f].body[i].op = "store") = Need(DataAccount, FALSE, TRUE)
    BY <2>1 DEF Need
  <2> QED BY <2>2, <2>3
<1>4. ASSUME Uses(p[f], {"load", "store"}) PROVE \E n \in OwnNeeds(p, f) : n.name = DataAccount
  <2>1. PICK i \in DOMAIN p[f].body : p[f].body[i].op \in {"load", "store"}
    BY <1>4 DEF Uses
  <2>2. Need(DataAccount, FALSE, p[f].body[i].op = "store") \in OwnNeeds(p, f)
    BY <1>2, <2>1
  <2>3. Need(DataAccount, FALSE, p[f].body[i].op = "store").name = DataAccount
    BY DEF Need
  <2> QED BY <2>2, <2>3
<1>5. ASSUME p[f].kind = "constructor" PROVE Need(DataAccount, p[f].payer /\ ~p[f].seed, TRUE) \in OwnNeeds(p, f)
  BY <1>5 DEF OwnNeeds
<1>6. ASSUME p[f].kind = "constructor", p[f].payer PROVE Need(SystemAccount, FALSE, FALSE) \in OwnNeeds(p, f)
  BY <1>6 DEF OwnNeeds
<1> QED BY <1>1, <1>3, <1>4, <1>5, <1>6

\* A list with one account more.
LEMMA InsertJust ==
  ASSUME NEW list \in Seq(Account), NEW a \in Account, NEW needs, JustList(needs, list), Justified(needs, a)
  PROVE  JustList(needs, Insert(list, a))
BY InsertFacts DEF JustList

\* What account_declaration makes of the declared accounts.
LEMMA DeclaredFacts ==
  ASSUME NEW p, WellFormed(p), NEW f \in DOMAIN p
  PROVE  /\ Declared(p, f) \in Seq(Account)
         /\ Names(Declared(p, f)) = {p[f].declared[d].name : d \in DOMAIN p[f].declared}
         /\ SystemAccount \notin Names(Declared(p, f))
         /\ JustList(OwnNeeds(p, f), Declared(p, f))
<1> DEFINE S == [name : DeclaredNames, signer : BOOLEAN, writer : BOOLEAN]
           s == p[f].declared
           A(i) == SolanaAccount(s[i].name, s[i].signer, s[i].writer, FALSE, <<f, -i>>)
<1>1. s \in Seq(S) /\ f \in Nat
  <2>1. Len(p) \in Nat /\ DOMAIN p = 1 .. Len(p)
    BY FunctionFacts
  <2>2. f \in Nat
    BY <2>1
  <2>3. s \in Seq(S)
    BY FunctionFacts
  <2> QED BY <2>2, <2>3
<1>2. Declared(p, f) = [i \in DOMAIN s |-> A(i)]
  BY DEF Declared
<1> HIDE DEF s
<1>3. DOMAIN s = 1 .. Len(s) /\ Len(s) \in Nat /\ \A i \in DOMAIN s : s[i] \in S
  <2> HIDE DEF S
  <2> QED BY <1>1
<1>4. \A i \in DOMAIN s : A(i) \in Account /\ A(i).name = s[i].name
  <2> SUFFICES ASSUME NEW i \in DOMAIN s PROVE A(i) \in Account /\ A(i).name = s[i].name
    OBVIOUS
  <2>1. s[i].name \in AccountNames /\ s[i].signer \in BOOLEAN /\ s[i].writer \in BOOLEAN
    BY <1>3, NameFacts
  <2>2. <<f, -i>> \in Int \X Int
    BY <1>1, <1>3
  <2> QED BY <2>1, <2>2 DEF SolanaAccount, Account
<1>5. \A i \in DOMAIN s : /\ A(i).name = Need(s[i].name, s[i].signer, s[i].writer).name
                          /\ A(i).writer = Need(s[i].name, s[i].signer, s[i].writer).writer
                          /\ A(i).signer = Need(s[i].name, s[i].signer, s[i].writer).signer
  BY DEF SolanaAccount, Need
<1>6. \A i \in DOMAIN s : s[i].name # SystemAccount
  BY <1>3, NameFacts
<1> HIDE DEF A
<1>7. Declared(p, f) \in Seq(Account) /\ DOMAIN Declared(p, f) = DOMAIN s
      /\ \A i \in DOMAIN s : Declared(p, f)[i] = A(i)
  BY <1>2, <1>3, <1>4
<1>8. Names(Declared(p, f)) = {s[d].name : d \in DOMAIN s}
  BY <1>4, <1>7 DEF Names
<1>9. JustList(OwnNeeds(p, f), Declared(p, f))
  <2>1. \A i \in DOMAIN s : Justified(OwnNeeds(p, f), A(i))
    <3> SUFFICES ASSUME NEW i \in DOMAIN s PROVE Justified(OwnNeeds(p, f), A(i))
      OBVIOUS
    <3> DEFINE n == Need(s[i].name, s[i].signer, s[i].writer)
    <3>1. n \in OwnNeeds(p, f)
      BY OwnNeedsGiven DEF s
    <3>2. n.name = A(i).name /\ (A(i).writer => n.writer) /\ (A(i).signer => n.signer)
      BY <1>5
    <3> HIDE DEF n
    <3> QED BY <3>1, <3>2, JustifiedBy
  <2> QED BY <1>7, <2>1 DEF JustList
<1> QED BY <1>6, <1>7, <1>8, <1>9 DEF s

\* What semantic analysis gives a function: its declared accounts and, for
\* storage and for a constructor, the data account.
LEMMA SemaFacts ==
  ASSUME NEW p, WellFormed(p), NEW f \in DOMAIN p
  PROVE  /\ SemaAccounts(p, f) \in Seq(Account)
         /\ \A d \in DOMAIN p[f].declared : p[f].declared[d].name \in Names(SemaAccounts(p, f))
         /\ Uses(p[f], {"load", "store"}) \/ p[f].kind = "constructor" => DataAccount \in Names(SemaAccounts(p, f))
         /\ SystemAccount \notin Names(SemaAccounts(p, f))
         /\ JustList(OwnNeeds(p, f), SemaAccounts(p, f))
<1> DEFINE A1 == SolanaAccount(DataAccount, FALSE, Uses(p[f], {"store"}), TRUE, Codegen)
           A2 == SolanaAccount(DataAccount, p[f].payer /\ ~p[f].seed, TRUE, TRUE, Codegen)
           d0 == Declared(p, f)
           d1 == WithDataAccount(p[f], d0)
           d2 == SemaAccounts(p, f)
           own == OwnNeeds(p, f)
<1>1. d0 \in Seq(Account) /\ SystemAccount \notin Names(d0) /\ JustList(own, d0)
      /\ \A d \in DOMAIN p[f].declared : p[f].declared[d].name \in Names(d0)
  BY DeclaredFacts
<1>2. A1 \in Account /\ A1.name = DataAccount /\ A2 \in Account /\ A2.name = DataAccount
  <2>1. DataAccount \in AccountNames /\ Codegen \in Int \X Int
    BY NameFacts DEF Codegen
  <2>2. Uses(p[f], {"store"}) \in BOOLEAN /\ (p[f].payer /\ ~p[f].seed) \in BOOLEAN
    BY DEF Uses
  <2> QED BY <2>1, <2>2 DEF SolanaAccount, Account
<1>3. Uses(p[f], {"load", "store"}) => Justified(own, A1)
  <2> SUFFICES ASSUME Uses(p[f], {"load", "store"}) PROVE Justified(own, A1)
    OBVIOUS
  <2>1. (A1.writer <=> Uses(p[f], {"store"})) /\ ~A1.signer /\ A1.name = DataAccount
    BY DEF SolanaAccount
  <2>2. CASE Uses(p[f], {"store"})
    <3> DEFINE n == Need(DataAccount, FALSE, TRUE)
    <3>1. n \in own /\ n.name = DataAccount /\ n.writer
      BY <2>2, OwnNeedsGiven DEF Need
    <3> HIDE DEF n, A1, own
    <3> QED BY <2>1, <3>1, JustifiedBy
  <2>3. CASE ~Uses(p[f], {"store"})
    <3>1. PICK n \in own : n.name = DataAccount
      BY OwnNeedsGiven
    <3> HIDE DEF A1, own
    <3> QED BY <2>1, <2>3, <3>1, JustifiedBy
  <2> QED BY <2>2, <2>3
<1>4. p[f].kind = "constructor" => Justified(own, A2)
  <2> SUFFICES ASSUME p[f].kind = "constructor" PROVE Justified(own, A2)
    OBVIOUS
  <2> DEFINE n == Need(DataAccount, p[f].payer /\ ~p[f].seed, TRUE)
  <2>1. n \in own
    BY OwnNeedsGiven
  <2>2. n.name = A2.name /\ n.writer = A2.writer /\ n.signer = A2.signer
    BY DEF Need, SolanaAccount
  <2> HIDE DEF n, A2, own
  <2> QED BY <2>1, <2>2, JustifiedBy
<1>5. d1 = IF Uses(p[f], {"load", "store"}) THEN Insert(d0, A1) ELSE d0
  BY DEF WithDataAccount
<1>6. d2 = IF p[f].kind = "constructor" THEN Insert(d1, A2) ELSE d1
  BY DEF SemaAccounts
<1>7. SystemAccount # DataAccount
  BY NameFacts
<1> HIDE DEF A1, A2, d0, d1, d2, own
<1>8. /\ d1 \in Seq(Account) /\ SystemAccount \notin Names(d1) /\ JustList(own, d1)
      /\ Names(d0) \subseteq Names(d1)
      /\ Uses(p[f], {"load", "store"}) => DataAccount \in Names(d1)
  <2>1. CASE Uses(p[f], {"load", "store"})
    <3>1. d1 = Insert(d0, A1)
      BY <1>5, <2>1
    <3>2. d1 \in Seq(Account) /\ Names(d1) = Names(d0) \union {DataAccount}
      BY <1>1, <1>2, <3>1, InsertFacts
    <3>3. JustList(own, d1)
      BY <1>1, <1>2, <1>3, <2>1, <3>1, InsertJust
    <3> QED BY <1>1, <1>7, <3>2, <3>3
  <2>2. CASE ~Uses(p[f], {"load", "store"})
    BY <1>1, <1>5, <2>2
  <2> QED BY <2>1, <2>2
<1>9. /\ d2 \in Seq(Account) /\ SystemAccount \notin Names(d2) /\ JustList(own, d2)
      /\ Names(d1) \subseteq Names(d2)
      /\ p[f].kind = "constructor" => DataAccount \in Names(d2)
  <2>1. CASE p[f].kind = "constructor"
    <3>1. d2 = Insert(d1, A2)
      BY <1>6, <2>1
    <3>2. d2 \in Seq(Account) /\ Names(d2) = Names(d1) \union {DataAccount}
      BY <1>2, <1>8, <3>1, InsertFacts
    <3>3. JustList(own, d2)
      BY <1>2, <1>4, <1>8, <2>1, <3>1, InsertJust
    <3> QED BY <1>7, <1>8, <3>2, <3>3
  <2>2. CASE p[f].kind # "constructor"
    BY <1>6, <1>8, <2>2
  <2> QED BY <2>1, <2>2
<1>10. /\ \A d \in DOMAIN p[f].declared : p[f].declared[d].name \in Names(d2)
       /\ Uses(p[f], {"load", "store"}) \/ p[f].kind = "constructor" => DataAccount \in Names(d2)
  BY <1>1, <1>8, <1>9
<1> QED BY <1>9, <1>10 DEF d2, own

\* collect_accounts_from_contract adds the system account to a constructor
\* with a @payer, and moves the data account.
LEMMA DataFirstFacts ==
  ASSUME NEW p, WellFormed(p), NEW f \in DOMAIN p, NEW list \in Seq(Account)
  PROVE  /\ DataFirst(p[f], list) \in Seq(Account)
         /\ Names(DataFirst(p[f], list)) =
              Names(list) \union (IF p[f].kind = "constructor" /\ p[f].payer THEN {SystemAccount} ELSE {})
         /\ JustList(Needs(p)[f], list) => JustList(Needs(p)[f], DataFirst(p[f], list))
<1> DEFINE i == IndexOf(list, DataAccount)
           front == IF Public(p[f]) /\ p[f].kind # "fallback" /\ i # 0 THEN MoveToFront(list, i) ELSE list
           new == DataFirst(p[f], list)
           all == Needs(p)[f]
           A == Generated(SystemAccount)
           payer == p[f].kind = "constructor" /\ p[f].payer
<1>1. new = IF payer THEN Insert(front, A) ELSE front
  BY DEF DataFirst
<1>2. i # 0 => i \in DOMAIN list
  BY IndexFacts
<1>3. A \in Account /\ A.name = SystemAccount /\ ~A.signer /\ ~A.writer
  BY NameFacts, GeneratedFacts
<1>4. payer => Justified(all, A)
  <2> SUFFICES ASSUME payer PROVE Justified(all, A)
    OBVIOUS
  <2> DEFINE n == Need(SystemAccount, FALSE, FALSE)
  <2>1. n \in all
    BY OwnNeedsGiven, NeedsFacts
  <2>2. n.name = SystemAccount
    BY DEF Need
  <2> HIDE DEF n, A, all
  <2> QED BY <1>3, <2>1, <2>2, JustifiedBy
<1> HIDE DEF i
<1>5. front \in Seq(Account) /\ Names(front) = Names(list) /\ (JustList(all, list) => JustList(all, front))
  <2>1. CASE front = list
    BY <2>1
  <2>2. CASE front = MoveToFront(list, i) /\ i # 0
    <3> HIDE DEF all, front
    <3> QED BY <1>2, <2>2, FrontFacts DEF JustList
  <2> QED BY <2>1, <2>2
<1> HIDE DEF front, A, all, new
<1>6. CASE payer
  <2>1. new = Insert(front, A)
    BY <1>1, <1>6
  <2>2. new \in Seq(Account) /\ Names(new) = Names(list) \union {SystemAccount}
    BY <1>3, <1>5, <2>1, InsertFacts
  <2>3. JustList(all, list) => JustList(all, new)
    BY <1>3, <1>4, <1>5, <1>6, <2>1, InsertJust
  <2> QED BY <1>6, <2>2, <2>3 DEF new, all
<1>7. CASE ~payer
  BY <1>1, <1>5, <1>7 DEF new, all
<1> QED BY <1>6, <1>7

-----------------------------------------------------------------------------
(* The steps of the work list                                              *)

\* The program at hand.
LEMMA ProgramFacts ==
  ASSUME TypeOK
  PROVE  /\ WellFormed(prog) /\ DOMAIN prog = 1 .. Len(prog) /\ Len(prog) \in Nat \ {0}
         /\ \A f \in DOMAIN prog : prog[f].contract \in Nat \ {0} /\ prog[f].contract <= NumContracts(prog)
         /\ NumContracts(prog) \in Nat \ {0}
<1>1. WellFormed(prog)
  BY ProgramsWellFormed DEF TypeOK
<1> QED BY <1>1, FunctionFacts, NumContractsFacts

\* Before a contract is looked at its constructors get the system account if
\* they have a @payer.
GivenAtStart(f) ==
  IF prog[f].contract = contract /\ prog[f].kind = "constructor" /\ prog[f].payer THEN {SystemAccount} ELSE {}

\* The start of a contract.
LEMMA StartFacts ==
  ASSUME TypeOK, StartContract
  PROVE  /\ work' \in Works(prog) /\ work'.next = <<>> /\ work'.added = 0
         /\ visiting' \in Seq(DOMAIN prog) /\ Distinct(visiting')
         /\ Elements(visiting') = Of(prog, contract)
         /\ \A f \in DOMAIN prog : Names(work'.accounts[f]) = Names(accounts[f]) \union GivenAtStart(f)
         /\ AllJust(prog, accounts) => AllJust(prog, work'.accounts)
<1> DEFINE mine == FunctionsOf(prog, contract)
           L(f) == IF f \in Elements(mine) THEN DataFirst(prog[f], accounts[f]) ELSE accounts[f]
           lists == [f \in DOMAIN prog |-> L(f)]
<1>1. WellFormed(prog) /\ contract \in Nat /\ accounts \in Lists(prog) /\ work.errors \in BOOLEAN
  BY ProgramFacts DEF TypeOK
<1>2. visiting' = mine /\ work' = [accounts |-> lists, next |-> <<>>, added |-> 0, errors |-> work.errors]
  BY DEF StartContract
<1>3. mine \in Seq(DOMAIN prog) /\ Elements(mine) = Of(prog, contract) /\ Distinct(mine)
  BY <1>1, FunctionsOfFacts
<1> HIDE DEF mine
<1>4. \A f \in DOMAIN prog : accounts[f] \in Seq(Account)
  BY <1>1 DEF Lists
<1>5. \A f \in DOMAIN prog : f \in Elements(mine) <=> prog[f].contract = contract
  BY <1>3 DEF Of
<1>6. ASSUME NEW f \in DOMAIN prog
      PROVE  /\ L(f) \in Seq(Account) /\ Names(L(f)) = Names(accounts[f]) \union GivenAtStart(f)
             /\ JustList(Needs(prog)[f], accounts[f]) => JustList(Needs(prog)[f], L(f))
  <2>1. CASE f \in Elements(mine)
    <3>1. L(f) = DataFirst(prog[f], accounts[f])
      BY <2>1
    <3>2. /\ DataFirst(prog[f], accounts[f]) \in Seq(Account)
          /\ Names(DataFirst(prog[f], accounts[f])) =
              Names(accounts[f]) \union (IF prog[f].kind = "constructor" /\ prog[f].payer THEN {SystemAccount} ELSE {})
          /\ JustList(Needs(prog)[f], accounts[f]) => JustList(Needs(prog)[f], DataFirst(prog[f], accounts[f]))
      BY <1>1, <1>4, DataFirstFacts
    <3>3. GivenAtStart(f) = IF prog[f].kind = "constructor" /\ prog[f].payer THEN {SystemAccount} ELSE {}
      BY <1>5, <2>1 DEF GivenAtStart
    <3> HIDE DEF L
    <3> QED BY <3>1, <3>2, <3>3
  <2>2. CASE f \notin Elements(mine)
    <3>1. L(f) = accounts[f]
      BY <2>2
    <3>2. GivenAtStart(f) = {}
      BY <1>5, <2>2 DEF GivenAtStart
    <3> HIDE DEF L
    <3> QED BY <1>4, <3>1, <3>2
  <2> QED BY <2>1, <2>2
<1> HIDE DEF L
<1>7. lists \in Lists(prog) /\ \A f \in DOMAIN prog : lists[f] = L(f)
  BY <1>6 DEF Lists
<1> HIDE DEF lists
<1>8. work' \in Works(prog) /\ work'.next = <<>> /\ work'.added = 0 /\ work'.accounts = lists
  BY <1>1, <1>2, <1>7 DEF Works
<1>9. AllJust(prog, accounts) => AllJust(prog, lists)
  BY <1>6, <1>7 DEF AllJust
<1> QED BY <1>2, <1>3, <1>6, <1>7, <1>8, <1>9

\* A visit of f, with what it adds.
VisitOf(p, f, w, w2) ==
  \E N : /\ Visits(p, f, w, w2, N, Queues(p, f))
         /\ \A i \in DOMAIN p[f].body : AddedBy(p, w.accounts, p[f].body[i]) \subseteq Names(w2.accounts[f])
         /\ Closed(p, w.accounts, f) => N \subseteq Names(w.accounts[f])

\* The visit of the next function.
LEMMA VisitFacts ==
  ASSUME TypeOK, VisitFunction
  PROVE  /\ pos \in DOMAIN visiting /\ visiting[pos] \in DOMAIN prog
         /\ VisitOf(prog, visiting[pos], work, work')
<1>1. WellFormed(prog) /\ work \in Works(prog) /\ visiting \in Seq(DOMAIN prog) /\ pos \in Nat \ {0}
  BY ProgramFacts DEF TypeOK, VisitFunction
<1>2. pos \in DOMAIN visiting /\ visiting[pos] \in DOMAIN prog
  BY <1>1 DEF VisitFunction
<1>3. VisitOf(prog, visiting[pos], work, CheckFunction(prog, work, visiting[pos]))
  BY <1>1, <1>2, CheckFunctionFacts DEF VisitOf
<1> QED BY <1>2, <1>3 DEF VisitFunction

\* What a visit leaves and adds.
LEMMA VisitOfFacts ==
  ASSUME NEW p, NEW f \in DOMAIN p, NEW w \in Works(p), NEW w2, VisitOf(p, f, w, w2)
  PROVE  /\ w2 \in Works(p) /\ Queuing(w, w2, Queues(p, f))
         /\ \A g \in DOMAIN p \ {f} : w2.accounts[g] = w.accounts[g]
         /\ \A g \in DOMAIN p : Names(w.accounts[g]) \subseteq Names(w2.accounts[g])
         /\ w2.added >= w.added
         /\ w2.added = w.added \/ Closed(p, w.accounts, f) =>
              \A g \in DOMAIN p : Names(w2.accounts[g]) = Names(w.accounts[g])
         /\ \A i \in DOMAIN p[f].body : AddedBy(p, w.accounts, p[f].body[i]) \subseteq Names(w2.accounts[f])
         /\ AllJust(p, w.accounts) => AllJust(p, w2.accounts)
<1>1. PICK N : /\ Visits(p, f, w, w2, N, Queues(p, f))
               /\ \A i \in DOMAIN p[f].body : AddedBy(p, w.accounts, p[f].body[i]) \subseteq Names(w2.accounts[f])
               /\ Closed(p, w.accounts, f) => N \subseteq Names(w.accounts[f])
  BY DEF VisitOf
<1>2. /\ w2 \in Works(p) /\ Queuing(w, w2, Queues(p, f))
      /\ \A g \in DOMAIN p \ {f} : w2.accounts[g] = w.accounts[g]
      /\ Names(w2.accounts[f]) = Names(w.accounts[f]) \union N
      /\ w2.added >= w.added
      /\ w2.added = w.added <=> N \subseteq Names(w.accounts[f])
      /\ AllJust(p, w.accounts) => AllJust(p, w2.accounts)
  BY <1>1 DEF Visits
<1>3. \A g \in DOMAIN p : Names(w.accounts[g]) \subseteq Names(w2.accounts[g])
  BY <1>2
<1>4. ASSUME w2.added = w.added \/ Closed(p, w.accounts, f), NEW g \in DOMAIN p
      PROVE  Names(w2.accounts[g]) = Names(w.accounts[g])
  <2>1. N \subseteq Names(w.accounts[f])
    BY <1>1, <1>2, <1>4
  <2>2. CASE g = f
    BY <1>2, <2>1, <2>2
  <2>3. CASE g # f
    BY <1>2, <2>3
  <2> QED BY <2>2, <2>3
<1> QED BY <1>1, <1>2, <1>3, <1>4

\* A visit that counts nothing adds no name.
LEMMA VisitSame ==
  ASSUME NEW p, NEW f \in DOMAIN p, NEW w \in Works(p), NEW w2, VisitOf(p, f, w, w2), w2.added = w.added
  PROVE  \A g \in DOMAIN p : Names(w2.accounts[g]) = Names(w.accounts[g])
<1>1. PICK N : Visits(p, f, w, w2, N, Queues(p, f))
  BY DEF VisitOf
<1>2. /\ \A g \in DOMAIN p \ {f} : w2.accounts[g] = w.accounts[g]
      /\ Names(w2.accounts[f]) = Names(w.accounts[f]) \union N
      /\ w2.added = w.added <=> N \subseteq Names(w.accounts[f])
  BY <1>1 DEF Visits
<1>3. Names(w2.accounts[f]) = Names(w.accounts[f])
  BY <1>2
<1> QED BY <1>2, <1>3

\* A visit only counts up.
LEMMA VisitCounts ==
  ASSUME NEW p, NEW f \in DOMAIN p, NEW w \in Works(p), NEW w2, VisitOf(p, f, w, w2)
  PROVE  /\ w2 \in Works(p) /\ w2.added >= w.added
         /\ \A g \in DOMAIN p \ {f} : w2.accounts[g] = w.accounts[g]
<1>1. PICK N : Visits(p, f, w, w2, N, Queues(p, f))
  BY DEF VisitOf
<1> QED BY <1>1 DEF Visits

\* Initially the types are right.
LEMMA TypeInit == Init => TypeOK
<1> SUFFICES ASSUME Init PROVE TypeOK
  OBVIOUS
<1>1. prog \in Programs /\ WellFormed(prog)
  BY ProgramsWellFormed DEF Init
<1>2. accounts \in Lists(prog)
  <2>1. \A f \in DOMAIN prog : SemaAccounts(prog, f) \in Seq(Account)
    BY <1>1, SemaFacts
  <2> QED BY <2>1 DEF Init, Lists
<1>3. contract \in Nat \ {0} /\ contract <= NumContracts(prog)
  BY <1>1, NumContractsFacts DEF Init
<1>4. /\ stage = "start" /\ visiting \in Seq(DOMAIN prog) /\ pos \in Nat \ {0} /\ old \in Nat
      /\ work.errors \in BOOLEAN
  BY DEF Init
<1> QED BY <1>1, <1>2, <1>3, <1>4 DEF TypeOK

\* Every step keeps the types right.
LEMMA TypeNext == TypeOK /\ [Next]_vars => TypeOK'
<1> SUFFICES ASSUME TypeOK, [Next]_vars PROVE TypeOK'
  OBVIOUS
<1>1. CASE StartContract
  <2>1. work' \in Works(prog) /\ visiting' \in Seq(DOMAIN prog)
    BY <1>1, StartFacts
  <2>2. work'.errors \in BOOLEAN
    BY <2>1 DEF Works
  <2>3. /\ prog' = prog /\ accounts' = accounts /\ contract' = contract /\ stage' = "visit"
        /\ stage = "start" /\ pos' = 1 /\ old' = 0
    BY <1>1 DEF StartContract
  <2> QED BY <2>1, <2>2, <2>3 DEF TypeOK
<1>2. CASE VisitFunction
  <2>1. work \in Works(prog)
    BY <1>2 DEF VisitFunction, TypeOK
  <2>2. work' \in Works(prog)
    BY <1>2, <2>1, VisitFacts, VisitOfFacts
  <2>3. work'.errors \in BOOLEAN
    BY <2>2 DEF Works
  <2>4. /\ prog' = prog /\ accounts' = accounts /\ contract' = contract /\ stage' = stage
        /\ stage = "visit" /\ pos' = pos + 1 /\ old' = old /\ visiting' = visiting
    BY <1>2 DEF VisitFunction
  <2>5. pos' \in Nat \ {0}
    BY <2>4 DEF TypeOK
  <2> QED BY <2>2, <2>3, <2>4, <2>5 DEF TypeOK
<1>3. CASE NextPass
  <2>1. work \in Works(prog)
    BY <1>3 DEF NextPass, TypeOK
  <2>2. work.next \in Seq(DOMAIN prog) /\ work.added \in Nat
    BY <2>1 DEF Works
  <2>3. <<>> \in Seq(DOMAIN prog)
    OBVIOUS
  <2>4. work' \in Works(prog)
    BY <1>3, <2>1, <2>3 DEF NextPass, Works
  <2>5. work'.errors \in BOOLEAN
    BY <2>4 DEF Works
  <2>6. /\ prog' = prog /\ accounts' = accounts /\ contract' = contract /\ stage' = stage
        /\ stage = "visit" /\ pos' = 1 /\ old' = work.added /\ visiting' = work.next
    BY <1>3 DEF NextPass
  <2> QED BY <2>2, <2>4, <2>5, <2>6 DEF TypeOK
<1>4. CASE EndContract
  <2>1. work \in Works(prog)
    BY <1>4 DEF EndContract, TypeOK
  <2>2. accounts' \in Lists(prog) /\ work'.errors \in BOOLEAN
    BY <1>4, <2>1 DEF EndContract, Works
  <2>3. /\ prog' = prog /\ stage = "visit" /\ pos' = 1 /\ old' = 0 /\ visiting' = <<>>
        /\ \/ contract < NumContracts(prog) /\ stage' = "start" /\ contract' = contract + 1
           \/ stage' = "manage" /\ contract' = 1
    BY <1>4 DEF EndContract
  <2>4. /\ contract' \in Nat \ {0} /\ stage' \in {"start", "manage"}
        /\ stage' = "start" => contract' <= NumContracts(prog)
    <3>1. NumContracts(prog) \in Nat /\ contract \in Nat \ {0}
      BY ProgramFacts DEF TypeOK
    <3> HIDE DEF NumContracts
    <3> QED BY <2>3, <3>1
  <2>5. visiting' \in Seq(DOMAIN prog)
    BY <2>3
  <2> QED BY <2>2, <2>3, <2>4, <2>5 DEF TypeOK
<1>5. CASE ManageContract
  <2>1. /\ prog' = prog /\ accounts' = accounts /\ stage = "manage" /\ pos' = pos /\ old' = old
        /\ visiting' = visiting /\ work' = work
        /\ \/ stage' = stage /\ contract' = contract + 1
           \/ stage' = "done" /\ contract' = contract
    BY <1>5 DEF ManageContract
  <2>2. contract' \in Nat \ {0} /\ stage' \in {"manage", "done"}
    BY <2>1 DEF TypeOK
  <2> QED BY <2>1, <2>2 DEF TypeOK
<1>6. CASE UNCHANGED vars
  BY <1>6 DEF TypeOK, vars
<1> QED BY <1>1, <1>2, <1>3, <1>4, <1>5, <1>6 DEF Next, Finished

\* Every step keeps the program and the names that a function has, and adds
\* only what is needed.
LEMMA StepFacts ==
  ASSUME TypeOK, [Next]_vars
  PROVE  /\ prog' = prog
         /\ \A f \in DOMAIN prog : Names(Current[f]) \subseteq Names(Current'[f])
         /\ AllJust(prog, Current) => AllJust(prog, Current')
<1>1. CASE StartContract
  <2>1. Current = accounts /\ Current' = work'.accounts /\ prog' = prog
    BY <1>1 DEF StartContract, Current
  <2> QED BY <1>1, <2>1, StartFacts
<1>2. CASE VisitFunction
  <2>1. Current = work.accounts /\ Current' = work'.accounts /\ prog' = prog
    BY <1>2 DEF VisitFunction, Current
  <2>2. work \in Works(prog)
    BY <1>2 DEF VisitFunction, TypeOK
  <2> QED BY <1>2, <2>1, <2>2, VisitFacts, VisitOfFacts
<1>3. CASE NextPass
  <2>1. work \in Works(prog)
    BY <1>3 DEF NextPass, TypeOK
  <2>2. Current = work.accounts /\ Current' = work'.accounts /\ prog' = prog
    BY <1>3 DEF NextPass, Current
  <2>3. work'.accounts = work.accounts
    BY <1>3, <2>1 DEF NextPass, Works
  <2> QED BY <2>2, <2>3
<1>4. CASE EndContract
  <2>1. Current = work.accounts /\ prog' = prog /\ accounts' = work.accounts /\ stage' # "visit"
    BY <1>4 DEF EndContract, Current
  <2>2. Current' = accounts'
    BY <2>1 DEF Current
  <2> QED BY <2>1, <2>2
<1>5. CASE ManageContract
  <2>1. Current = accounts /\ Current' = accounts' /\ accounts' = accounts /\ prog' = prog
    BY <1>5 DEF ManageContract, Current
  <2> QED BY <2>1
<1>6. CASE UNCHANGED vars
  BY <1>6 DEF Current, vars
<1> QED BY <1>1, <1>2, <1>3, <1>4, <1>5, <1>6 DEF Next, Finished

-----------------------------------------------------------------------------
(* Nothing superfluous                                                     *)

\* The state of the compilation has its types: every account list names
\* accounts, and the work list holds functions of the program.
THEOREM TypeCorrect == Spec => []TypeOK
BY TypeInit, TypeNext, PTL DEF Spec

\* Initially the accounts are needed.
LEMMA JustifiedInit == Init => AllJustified
<1> SUFFICES ASSUME Init PROVE AllJustified
  OBVIOUS
<1>1. WellFormed(prog) /\ Current = accounts /\ \A f \in DOMAIN prog : accounts[f] = SemaAccounts(prog, f)
  BY ProgramsWellFormed DEF Init, Current
<1>2. ASSUME NEW f \in DOMAIN prog PROVE JustList(Needs(prog)[f], accounts[f])
  <2>1. JustList(OwnNeeds(prog, f), accounts[f])
    BY <1>1, SemaFacts
  <2>2. OwnNeeds(prog, f) \subseteq Needs(prog)[f]
    BY <1>1, NeedsFacts
  <2>3. \A a : Justified(OwnNeeds(prog, f), a) => Justified(Needs(prog)[f], a)
    BY <2>2 DEF Justified
  <2> QED BY <2>1, <2>3 DEF JustList
<1> QED BY <1>1, <1>2 DEF AllJustified, JustList

\* At every moment of the collection, for every program: a function lists an
\* account, and has it writable or signing, only because something that the
\* function reaches needs it to (add_account, transfer_accounts and
\* check_instruction ask nothing superfluous of a client).
THEOREM NothingSuperfluous == Spec => []AllJustified
<1>1. AllJustified <=> AllJust(prog, Current)
  BY DEF AllJustified, AllJust, JustList
<1>2. AllJustified' <=> AllJust(prog', Current')
  BY DEF AllJustified, AllJust, JustList
<1>3. AllJustified /\ TypeOK /\ [Next]_vars => AllJustified'
  BY <1>1, <1>2, StepFacts
<1> QED BY <1>3, JustifiedInit, TypeCorrect, PTL DEF Spec

\* Initially the functions have what semantic analysis gives them, and none
\* has been given the system account yet.
LEMMA GivenInit == Init => AllGiven /\ GivenSystem
<1> SUFFICES ASSUME Init PROVE AllGiven /\ GivenSystem
  OBVIOUS
<1>1. /\ WellFormed(prog) /\ Current = accounts /\ stage = "start" /\ contract = 1
      /\ \A f \in DOMAIN prog : accounts[f] = SemaAccounts(prog, f)
  BY ProgramsWellFormed DEF Init, Current
<1>2. AllGiven
  BY <1>1 DEF AllGiven, Given
<1>3. \A f \in DOMAIN prog : prog[f].contract \in Nat \ {0}
  BY <1>1, FunctionFacts
<1>4. GivenSystem
  BY <1>1, <1>3 DEF GivenSystem, PayerSeen
<1> QED BY <1>2, <1>4

\* One step.
LEMMA GivenNext == TypeOK /\ AllGiven /\ GivenSystem /\ [Next]_vars => AllGiven' /\ GivenSystem'
<1> SUFFICES ASSUME TypeOK, AllGiven, GivenSystem, [Next]_vars PROVE AllGiven' /\ GivenSystem'
  OBVIOUS
<1>1. prog' = prog /\ \A f \in DOMAIN prog : Names(Current[f]) \subseteq Names(Current'[f])
  BY StepFacts
<1>2. AllGiven'
  <2>1. AllGiven' <=> \A f \in DOMAIN prog' : Names(SemaAccounts(prog', f)) \subseteq Names(Current'[f])
    BY DEF AllGiven, Given
  <2>2. \A f \in DOMAIN prog : Names(SemaAccounts(prog, f)) \subseteq Names(Current[f])
    BY DEF AllGiven, Given
  <2>3. \A f \in DOMAIN prog' : Names(SemaAccounts(prog', f)) \subseteq Names(Current'[f])
    BY <1>1, <2>2
  <2> QED BY <2>1, <2>3
<1>3. ASSUME NEW f \in DOMAIN prog, PayerSeen(f)' PROVE SystemAccount \in Names(Current'[f])
  <2>1. PayerSeen(f) => SystemAccount \in Names(Current'[f])
    BY <1>1 DEF GivenSystem, PayerSeen
  <2>2. prog[f].kind = "constructor" /\ prog[f].payer
    BY <1>1, <1>3 DEF PayerSeen
  <2>3. contract \in Nat \ {0} /\ prog[f].contract \in Nat \ {0} /\ prog[f].contract <= NumContracts(prog)
    BY ProgramFacts DEF TypeOK
  <2>4. CASE StartContract
    <3>1. /\ contract' = contract /\ stage' = "visit" /\ stage = "start"
          /\ Current' = work'.accounts /\ Current = accounts
      BY <2>4 DEF StartContract, Current
    <3>2. CASE prog[f].contract = contract
      <4>1. GivenAtStart(f) = {SystemAccount}
        BY <2>2, <3>2 DEF GivenAtStart
      <4> QED BY <2>4, <3>1, <4>1, StartFacts
    <3>3. CASE prog[f].contract # contract
      <4>1. prog[f].contract < contract
        BY <1>1, <1>3, <3>1, <3>3 DEF PayerSeen
      <4> QED BY <2>1, <2>2, <4>1 DEF PayerSeen
    <3> QED BY <3>2, <3>3
  <2>5. CASE VisitFunction \/ NextPass
    <3>1. contract' = contract /\ stage' = stage
      BY <2>5 DEF VisitFunction, NextPass
    <3>2. PayerSeen(f)
      BY <1>1, <1>3, <3>1 DEF PayerSeen
    <3> QED BY <2>1, <3>2
  <2>6. CASE EndContract
    <3>1. /\ stage = "visit"
          /\ \/ stage' = "start" /\ contract' = contract + 1
             \/ stage' = "manage" /\ ~(contract < NumContracts(prog))
      BY <2>6 DEF EndContract
    <3>2. contract <= NumContracts(prog) /\ NumContracts(prog) \in Nat
      BY <3>1, ProgramFacts DEF TypeOK
    <3>3. prog[f].contract <= contract
      <4>1. CASE stage' = "start" /\ contract' = contract + 1
        <5>1. prog[f].contract < contract + 1
          BY <1>1, <1>3, <4>1 DEF PayerSeen
        <5> QED BY <2>3, <5>1
      <4>2. CASE ~(contract < NumContracts(prog))
        BY <2>3, <3>2, <4>2
      <4> QED BY <3>1, <4>1, <4>2
    <3>4. prog[f].contract < contract \/ prog[f].contract = contract
      BY <2>3, <3>3
    <3>5. PayerSeen(f)
      BY <2>2, <3>1, <3>4 DEF PayerSeen
    <3> QED BY <2>1, <3>5
  <2>7. CASE ManageContract
    <3>1. PayerSeen(f)
      BY <2>2, <2>7 DEF PayerSeen, ManageContract
    <3> QED BY <2>1, <3>1
  <2>8. CASE UNCHANGED vars
    <3>1. PayerSeen(f)
      BY <1>3, <2>8 DEF PayerSeen, vars
    <3> QED BY <2>1, <3>1
  <2> QED BY <2>4, <2>5, <2>6, <2>7, <2>8 DEF Next, Finished
<1>4. GivenSystem'
  <2>1. GivenSystem' <=> \A f \in DOMAIN prog' : PayerSeen(f)' => SystemAccount \in Names(Current'[f])
    BY DEF GivenSystem, PayerSeen
  <2> QED BY <1>1, <1>3, <2>1
<1> QED BY <1>2, <1>4

-----------------------------------------------------------------------------
(* The work list stops at a fixpoint                                       *)

\* The system account of a constructor adds nothing to what calls it.
LEMMA SystemAdded ==
  ASSUME NEW p, WellFormed(p), NEW f \in DOMAIN p, NEW i \in DOMAIN p[f].body, NEW l1, NEW l2,
         \A g \in DOMAIN p : Names(l2[g]) \subseteq Names(l1[g]) \union {SystemAccount},
         \A g \in DOMAIN p : p[g].kind # "constructor" => Names(l2[g]) \subseteq Names(l1[g])
  PROVE  AddedBy(p, l2, p[f].body[i]) \subseteq AddedBy(p, l1, p[f].body[i])
<1> DEFINE ins == p[f].body[i]
<1>1. InstructionOK(p, f, ins)
  BY InstructionFacts
<1>2. \A c : NameIn(SystemAccount, c) = SystemAccount
  BY NameFacts DEF NameIn
<1> HIDE DEF ins
<1>3. CASE ins.op = "internal"
  <2>1. ins.f \in DOMAIN p /\ p[ins.f].kind # "constructor"
    BY <1>1, <1>3 DEF InstructionOK
  <2> QED BY <1>3, <2>1 DEF AddedBy, BuiltinAccount, ins
<1>4. CASE ins.op = "call"
  <2>1. ins.f \in DOMAIN p
    BY <1>1, <1>4 DEF InstructionOK
  <2>2. AddedByCall(p, l2, ins) \subseteq AddedByCall(p, l1, ins)
    BY <1>2, <2>1 DEF AddedByCall
  <2> QED BY <1>4, <2>2 DEF AddedBy, BuiltinAccount, ins
<1>5. CASE ins.op = "new"
  <2>1. ins.f # 0 => ins.f \in DOMAIN p
    BY <1>1, <1>5 DEF InstructionOK
  <2>2. AddedByNew(l2, ins) \subseteq AddedByNew(l1, ins)
    BY <1>2, <2>1 DEF AddedByNew
  <2> QED BY <1>5, <2>2 DEF AddedBy, BuiltinAccount, ins
<1>6. CASE ins.op \notin {"internal", "call", "new"}
  BY <1>6 DEF AddedBy, BuiltinAccount, ins
<1> QED BY <1>3, <1>4, <1>5, <1>6

\* A call of another contract adds the system account.
LEMMA ExternalAddsSystem ==
  ASSUME NEW p, NEW f \in DOMAIN p, ExternalCallees(p, f) # {}
  PROVE  \E i \in DOMAIN p[f].body : \A lists : SystemAccount \in AddedBy(p, lists, p[f].body[i])
<1>1. PICK ins \in Elements(p[f].body) : ins.op \in {"call", "new"}
  BY DEF ExternalCallees
<1>2. PICK i \in DOMAIN p[f].body : ins = p[f].body[i]
  BY <1>1 DEF Elements
<1>3. \A lists : SystemAccount \in AddedBy(p, lists, ins)
  BY <1>1 DEF AddedBy, AddedByCall, AddedByNew, BuiltinAccount
<1> QED BY <1>2, <1>3

\* The start of a contract, when D has settled.
LEMMA StartCollects ==
  ASSUME TypeOK, PayersCallNoOther(prog), StartContract, NEW D \in SUBSET DOMAIN prog,
         Settled(prog, accounts, D), \A f \in DOMAIN prog \ D : Fresh(prog, accounts, f)
  PROVE  Pass' /\ Settled(prog, work'.accounts, D) /\ FirstPass(D)'
<1> DEFINE l1 == accounts
           l2 == work'.accounts
<1>1. WellFormed(prog) /\ prog' = prog /\ contract' = contract /\ pos' = 1 /\ old' = 0
  BY ProgramFacts DEF StartContract
<1>2. /\ work'.next = <<>> /\ work'.added = 0 /\ visiting' \in Seq(DOMAIN prog) /\ Distinct(visiting')
      /\ Elements(visiting') = Of(prog, contract)
      /\ \A f \in DOMAIN prog : Names(l2[f]) = Names(l1[f]) \union GivenAtStart(f)
  BY StartFacts
<1>3. Visited' = {}
  BY <1>1 DEF Visited
<1>4. Settled(prog, l2, D)
  <2>1. \A g \in DOMAIN prog : Names(l2[g]) \subseteq Names(l1[g]) \union {SystemAccount}
    BY <1>2 DEF GivenAtStart
  <2>2. \A g \in DOMAIN prog : prog[g].kind # "constructor" => Names(l2[g]) \subseteq Names(l1[g])
    BY <1>2 DEF GivenAtStart
  <2>3. \A g \in DOMAIN prog : Names(l1[g]) \subseteq Names(l2[g])
    BY <1>2
  <2>4. \A f \in D : Closed(prog, l1, f) /\ Calls(prog, f) \subseteq D
    BY DEF Settled
  <2> HIDE DEF l1, l2
  <2>5. ASSUME NEW f \in D PROVE Closed(prog, l2, f)
    <3>1. \A i \in DOMAIN prog[f].body :
            AddedBy(prog, l2, prog[f].body[i]) \subseteq AddedBy(prog, l1, prog[f].body[i])
      BY <1>1, <2>1, <2>2, SystemAdded
    <3>2. \A i \in DOMAIN prog[f].body : AddedBy(prog, l1, prog[f].body[i]) \subseteq Names(l1[f])
      BY <2>4 DEF Closed
    <3> QED BY <2>3, <3>1, <3>2 DEF Closed
  <2> QED BY <2>4, <2>5 DEF Settled
<1>5. ASSUME NEW f \in DOMAIN prog \ D PROVE Fresh(prog, l2, f)
  <2>1. ExternalCallees(prog, f) # {} => GivenAtStart(f) = {}
    BY DEF GivenAtStart, PayersCallNoOther
  <2>2. ExternalCallees(prog, f) # {} => SystemAccount \notin Names(l1[f])
    BY DEF Fresh
  <2> QED BY <1>2, <2>1, <2>2 DEF Fresh
<1>6. Pass'
  <2>1. Len(visiting') \in Nat /\ Distinct(<<>>) /\ Elements(<<>>) = {}
    BY <1>2 DEF Distinct, Elements
  <2>2. pos' \in 1 .. Len(visiting') + 1
    BY <1>1, <2>1
  <2>3. UNION {Queues(prog', f) : f \in Visited'} = {}
    BY <1>3
  <2> QED BY <1>1, <1>2, <1>3, <2>1, <2>2, <2>3 DEF Pass
<1>7. FirstPass(D)'
  BY <1>1, <1>2, <1>3, <1>5 DEF FirstPass
<1> QED BY <1>4, <1>6, <1>7

\* A visit during a pass.
VisitStep ==
  /\ TypeOK /\ VisitFunction /\ Pass /\ work \in Works(prog)
  /\ visiting[pos] \in DOMAIN prog /\ pos \in DOMAIN visiting
  /\ VisitOf(prog, visiting[pos], work, work')

\* The functions visited so far.
LEMMA VisitedNext ==
  ASSUME VisitStep
  PROVE  /\ Visited' = Visited \union {visiting[pos]} /\ Visited \subseteq DOMAIN prog
         /\ visiting[pos] \notin Visited /\ visiting[pos] \in Elements(visiting)
         /\ Visited \subseteq Elements(visiting)
<1>1. pos \in Nat \ {0} /\ visiting \in Seq(DOMAIN prog) /\ pos \in DOMAIN visiting /\ pos' = pos + 1
      /\ visiting' = visiting /\ Distinct(visiting)
  BY DEF VisitStep, TypeOK, VisitFunction, Pass
<1>2. 1 .. pos' - 1 = (1 .. pos - 1) \union {pos} /\ 1 .. pos - 1 \subseteq DOMAIN visiting /\ pos \notin 1 .. pos - 1
  BY <1>1
<1>3. Visited' = {visiting[j] : j \in 1 .. pos' - 1}
  BY <1>1 DEF Visited
<1>4. Visited' = Visited \union {visiting[pos]}
  BY <1>2, <1>3 DEF Visited
<1>5. \A j \in DOMAIN visiting : visiting[j] \in DOMAIN prog
  BY <1>1
<1>6. visiting[pos] \notin Visited
  BY <1>1, <1>2 DEF Distinct, Visited
<1>7. visiting[pos] \in Elements(visiting) /\ Visited \subseteq Elements(visiting)
  BY <1>1, <1>2 DEF Visited, Elements
<1> QED BY <1>2, <1>4, <1>5, <1>6, <1>7 DEF Visited

\* A visit keeps what is known of the pass.
LEMMA VisitPass ==
  ASSUME VisitStep
  PROVE  Pass'
<1> DEFINE f == visiting[pos]
           l1 == work.accounts
           l2 == work'.accounts
<1>1. /\ WellFormed(prog) /\ prog' = prog /\ visiting' = visiting /\ old' = old /\ pos' = pos + 1
      /\ pos \in DOMAIN visiting /\ visiting \in Seq(DOMAIN prog) /\ f \in DOMAIN prog
      /\ work \in Works(prog) /\ VisitOf(prog, f, work, work')
  BY ProgramFacts DEF VisitStep, VisitFunction, TypeOK
<1>2. /\ Distinct(visiting) /\ Distinct(work.next)
      /\ Elements(work.next) = UNION {Queues(prog, g) : g \in Visited}
      /\ old <= work.added
      /\ work.added = old => \A g \in Visited : Closed(prog, l1, g)
  BY DEF VisitStep, Pass
<1>3. Visited' = Visited \union {f} /\ Visited \subseteq DOMAIN prog
  BY VisitedNext
<1> HIDE DEF f
<1>4. /\ Queuing(work, work', Queues(prog, f)) /\ work'.added >= work.added /\ work' \in Works(prog)
      /\ work'.added = work.added => \A g \in DOMAIN prog : Names(l2[g]) = Names(l1[g])
      /\ \A i \in DOMAIN prog[f].body : AddedBy(prog, l1, prog[f].body[i]) \subseteq Names(l2[f])
  <2>1. Queuing(work, work', Queues(prog, f)) /\ work'.added >= work.added /\ work' \in Works(prog)
    BY <1>1, VisitOfFacts
  <2>2. work'.added = work.added => \A g \in DOMAIN prog : Names(l2[g]) = Names(l1[g])
    BY <1>1, VisitSame
  <2>3. \A i \in DOMAIN prog[f].body : AddedBy(prog, l1, prog[f].body[i]) \subseteq Names(l2[f])
    BY <1>1, VisitOfFacts
  <2> QED BY <2>1, <2>2, <2>3
<1>5. work.added \in Nat /\ work'.added \in Nat /\ old \in Nat
  BY <1>1, <1>4 DEF Works, VisitStep, TypeOK
<1>6. pos' \in 1 .. Len(visiting') + 1
  BY <1>1
<1>7. Distinct(work'.next)
  BY <1>2, <1>4 DEF Queuing
<1>8. Elements(work'.next) = UNION {Queues(prog, g) : g \in Visited'}
  <2>1. Elements(work'.next) = Elements(work.next) \union Queues(prog, f)
    BY <1>4 DEF Queuing
  <2> QED BY <1>2, <1>3, <2>1
<1>9. old <= work'.added
  BY <1>2, <1>4, <1>5
<1>10. ASSUME work'.added = old, NEW g \in Visited' PROVE Closed(prog, l2, g)
  <2>1. work.added = old /\ work'.added = work.added
    BY <1>2, <1>4, <1>5, <1>10
  <2>2. \A h \in DOMAIN prog : Names(l2[h]) = Names(l1[h])
    BY <1>4, <2>1
  <2>3. g \in DOMAIN prog
    BY <1>1, <1>3
  <2>4. Closed(prog, l1, g)
    <3>1. CASE g = f
      BY <1>1, <1>4, <2>2, <3>1 DEF Closed
    <3>2. CASE g # f
      BY <1>2, <1>3, <2>1, <3>2
    <3> QED BY <3>1, <3>2
  <2>5. Names(l1[g]) \subseteq Names(l2[g]) /\ \A h \in Calls(prog, g) : Names(l2[h]) \subseteq Names(l1[h])
    BY <1>1, <2>2, <2>3, CallsFacts
  <2> HIDE DEF l1, l2
  <2> QED BY <2>3, <2>4, <2>5, ClosedStays
<1> QED BY <1>1, <1>2, <1>6, <1>7, <1>8, <1>9, <1>10 DEF Pass

\* What has settled stays so.
LEMMA VisitSettled ==
  ASSUME VisitStep, NEW D \in SUBSET DOMAIN prog, Settled(prog, work.accounts, D)
  PROVE  Settled(prog, work'.accounts, D)
<1> DEFINE f == visiting[pos]
           l1 == work.accounts
           l2 == work'.accounts
<1>1. /\ WellFormed(prog) /\ f \in DOMAIN prog
      /\ work \in Works(prog) /\ VisitOf(prog, f, work, work')
  BY ProgramFacts DEF VisitStep
<1> HIDE DEF f
<1>2. /\ \A g \in DOMAIN prog \ {f} : l2[g] = l1[g]
      /\ \A g \in DOMAIN prog : Names(l1[g]) \subseteq Names(l2[g])
      /\ Closed(prog, l1, f) => \A g \in DOMAIN prog : Names(l2[g]) = Names(l1[g])
  BY <1>1, VisitOfFacts
<1>3. \A g \in D : Closed(prog, l1, g) /\ Calls(prog, g) \subseteq D
  BY DEF Settled
<1>4. \A g \in D : Names(l2[g]) = Names(l1[g])
  <2>1. CASE f \in D
    BY <1>2, <1>3, <2>1
  <2>2. CASE f \notin D
    BY <1>2, <2>2
  <2> QED BY <2>1, <2>2
<1> HIDE DEF l1, l2
<1>5. ASSUME NEW g \in D PROVE Closed(prog, l2, g)
  <2>1. g \in DOMAIN prog /\ Closed(prog, l1, g)
    BY <1>3
  <2>2. Names(l1[g]) \subseteq Names(l2[g]) /\ \A h \in Calls(prog, g) : Names(l2[h]) \subseteq Names(l1[h])
    BY <1>3, <1>4
  <2> QED BY <2>1, <2>2, ClosedStays
<1>6. Settled(prog, l2, D)
  BY <1>3, <1>5 DEF Settled
<1> QED BY <1>6 DEF l2

\* A function that calls none stays closed, and is closed by its visit.
LEMMA LeafClosed ==
  ASSUME VisitStep, NEW g \in DOMAIN prog, Calls(prog, g) = {}, g = visiting[pos] \/ Closed(prog, work.accounts, g)
  PROVE  Closed(prog, work'.accounts, g)
<1> DEFINE f == visiting[pos]
           l1 == work.accounts
           l2 == work'.accounts
<1>1. /\ f \in DOMAIN prog
      /\ work \in Works(prog) /\ VisitOf(prog, f, work, work')
  BY DEF VisitStep
<1>2. g = f \/ Closed(prog, l1, g)
  OBVIOUS
<1> HIDE DEF f
<1>3. /\ \A h \in DOMAIN prog : Names(l1[h]) \subseteq Names(l2[h])
      /\ \A i \in DOMAIN prog[f].body : AddedBy(prog, l1, prog[f].body[i]) \subseteq Names(l2[f])
  BY <1>1, VisitOfFacts
<1> HIDE DEF l1, l2
<1>4. \A i \in DOMAIN prog[g].body : AddedBy(prog, l2, prog[g].body[i]) \subseteq AddedBy(prog, l1, prog[g].body[i])
  BY AddedByMonotone
<1>5. \A i \in DOMAIN prog[g].body : AddedBy(prog, l1, prog[g].body[i]) \subseteq Names(l2[g])
  BY <1>2, <1>3 DEF Closed
<1>6. Closed(prog, l2, g)
  BY <1>4, <1>5 DEF Closed
<1> QED BY <1>6 DEF l2

\* A visit in the first pass.
LEMMA VisitFirst ==
  ASSUME VisitStep, NEW D \in SUBSET DOMAIN prog, FirstPass(D)
  PROVE  FirstPass(D)'
<1> DEFINE f == visiting[pos]
           l1 == work.accounts
           l2 == work'.accounts
<1>1. /\ prog' = prog /\ visiting' = visiting /\ old' = old /\ contract' = contract
      /\ f \in DOMAIN prog /\ work \in Works(prog) /\ VisitOf(prog, f, work, work')
  BY DEF VisitStep, VisitFunction
<1>2. /\ old = 0 /\ Elements(visiting) = Of(prog, contract)
      /\ \A g \in DOMAIN prog \ (D \union Visited) : Fresh(prog, l1, g)
      /\ \A g \in Visited : Calls(prog, g) = {} => Closed(prog, l1, g)
      /\ (\E g \in Visited \ D : ExternalCallees(prog, g) # {}) => work.added > 0
  BY DEF FirstPass
<1>3. Visited' = Visited \union {f} /\ Visited \subseteq DOMAIN prog /\ f \notin Visited
  BY VisitedNext
<1>4. ASSUME NEW g \in Visited', Calls(prog, g) = {} PROVE Closed(prog, l2, g)
  <2>1. g \in DOMAIN prog
    BY <1>1, <1>3
  <2>2. g = f \/ Closed(prog, l1, g)
    BY <1>2, <1>3, <1>4
  <2> QED BY <1>4, <2>1, <2>2, LeafClosed
<1> HIDE DEF f
<1>5. /\ \A g \in DOMAIN prog \ {f} : l2[g] = l1[g]
      /\ work'.added >= work.added /\ work' \in Works(prog)
      /\ work'.added = work.added => \A g \in DOMAIN prog : Names(l2[g]) = Names(l1[g])
      /\ \A i \in DOMAIN prog[f].body : AddedBy(prog, l1, prog[f].body[i]) \subseteq Names(l2[f])
  <2>1. work'.added >= work.added /\ work' \in Works(prog) /\ \A g \in DOMAIN prog \ {f} : l2[g] = l1[g]
    BY <1>1, VisitCounts
  <2>2. work'.added = work.added => \A g \in DOMAIN prog : Names(l2[g]) = Names(l1[g])
    BY <1>1, VisitSame
  <2>3. \A i \in DOMAIN prog[f].body : AddedBy(prog, l1, prog[f].body[i]) \subseteq Names(l2[f])
    BY <1>1, VisitOfFacts
  <2> QED BY <2>1, <2>2, <2>3
<1>6. work.added \in Nat /\ work'.added \in Nat
  BY <1>1, <1>5 DEF Works
<1>7. ASSUME NEW g \in DOMAIN prog \ (D \union Visited') PROVE Fresh(prog, l2, g)
  <2>1. g # f /\ g \in DOMAIN prog \ (D \union Visited)
    BY <1>3
  <2>2. l2[g] = l1[g] /\ Fresh(prog, l1, g)
    BY <1>2, <1>5, <2>1
  <2> QED BY <2>2 DEF Fresh
<1>8. ASSUME NEW g \in Visited' \ D, ExternalCallees(prog, g) # {} PROVE work'.added > 0
  <2>1. CASE g # f
    <3>1. work.added > 0
      BY <1>2, <1>3, <1>8, <2>1
    <3> QED BY <1>5, <1>6, <3>1
  <2>2. CASE g = f
    <3>1. SystemAccount \notin Names(l1[f])
      BY <1>1, <1>2, <1>3, <1>8, <2>2 DEF Fresh
    <3>2. SystemAccount \in Names(l2[f])
      <4>1. PICK i \in DOMAIN prog[f].body : \A lists : SystemAccount \in AddedBy(prog, lists, prog[f].body[i])
        BY <1>1, <1>8, <2>2, ExternalAddsSystem
      <4> QED BY <1>5, <4>1
    <3>3. work'.added # work.added
      BY <1>1, <1>5, <3>1, <3>2
    <3> QED BY <1>5, <1>6, <3>3
  <2> QED BY <2>1, <2>2
<1> QED BY <1>1, <1>2, <1>4, <1>7, <1>8 DEF FirstPass

\* A visit in a later pass.
LEMMA VisitLater ==
  ASSUME VisitStep, NEW D \in SUBSET DOMAIN prog, LaterPass(D)
  PROVE  LaterPass(D)'
<1> DEFINE f == visiting[pos]
           l1 == work.accounts
           l2 == work'.accounts
<1>1. /\ prog' = prog /\ visiting' = visiting /\ contract' = contract
      /\ f \in DOMAIN prog /\ work \in Works(prog) /\ VisitOf(prog, f, work, work')
  BY DEF VisitStep, VisitFunction
<1>2. /\ Elements(visiting) \subseteq UNION {Queues(prog, g) : g \in Elements(visiting)}
      /\ \A g \in DOMAIN prog \ (D \union Of(prog, contract) \union Elements(visiting)) : Fresh(prog, l1, g)
      /\ \A g \in Of(prog, contract) \ Elements(visiting) : Calls(prog, g) = {} /\ Closed(prog, l1, g)
  BY DEF LaterPass
<1>3. f \in Elements(visiting)
  BY VisitedNext
<1>4. ASSUME NEW g \in Of(prog, contract) \ Elements(visiting) PROVE Closed(prog, l2, g)
  <2>1. g \in DOMAIN prog /\ Calls(prog, g) = {} /\ Closed(prog, l1, g)
    BY <1>2 DEF Of
  <2> QED BY <2>1, LeafClosed
<1> HIDE DEF f
<1>5. \A g \in DOMAIN prog \ {f} : l2[g] = l1[g]
  BY <1>1, VisitOfFacts
<1>6. ASSUME NEW g \in DOMAIN prog \ (D \union Of(prog, contract) \union Elements(visiting)) PROVE Fresh(prog, l2, g)
  <2>1. l2[g] = l1[g] /\ Fresh(prog, l1, g)
    BY <1>2, <1>3, <1>5
  <2> QED BY <2>1 DEF Fresh
<1> QED BY <1>1, <1>2, <1>4, <1>6 DEF LaterPass

\* Every function of the pass has been visited.
LEMMA PassOver ==
  ASSUME TypeOK, Pass, stage = "visit", pos > Len(visiting)
  PROVE  Visited = Elements(visiting)
<1>1. visiting \in Seq(DOMAIN prog) /\ pos \in 1 .. Len(visiting) + 1
  BY DEF TypeOK, Pass
<1>2. 1 .. pos - 1 = DOMAIN visiting
  BY <1>1
<1> QED BY <1>2 DEF Visited, Elements

\* What a function queues, and that it queues itself then.
LEMMA QueuesItself ==
  ASSUME NEW p, NEW S, NEW T, T = UNION {Queues(p, f) : f \in S}
  PROVE  /\ \A f \in S : Calls(p, f) # {} => f \in T
         /\ \A f \in S : Calls(p, f) \subseteq T
         /\ T \subseteq UNION {Queues(p, f) : f \in T}
<1>1. \A f \in S : Calls(p, f) # {} => f \in T
  BY DEF Queues
<1>2. \A f \in S : Calls(p, f) \subseteq T
  BY DEF Queues
<1>3. ASSUME NEW x \in T PROVE x \in UNION {Queues(p, f) : f \in T}
  <2>1. PICK f \in S : x \in Queues(p, f)
    OBVIOUS
  <2>2. Calls(p, f) # {}
    BY <2>1 DEF Queues
  <2>3. f \in T
    BY <1>1, <2>2
  <2> QED BY <2>1, <2>3
<1> QED BY <1>1, <1>2, <1>3

\* The next pass.
LEMMA NextCollects ==
  ASSUME TypeOK, Pass, NextPass, NEW D \in SUBSET DOMAIN prog, Settled(prog, work.accounts, D),
         FirstPass(D) \/ LaterPass(D)
  PROVE  Pass' /\ Settled(prog, work'.accounts, D) /\ LaterPass(D)'
<1> DEFINE T == Elements(work.next)
           V == Elements(visiting)
           O == Of(prog, contract)
<1>1. /\ work \in Works(prog) /\ prog' = prog /\ contract' = contract /\ pos' = 1 /\ old' = work.added
      /\ visiting' = work.next /\ work' = [work EXCEPT !.next = <<>>]
  BY DEF NextPass, TypeOK
<1>2. work'.accounts = work.accounts /\ work'.next = <<>> /\ work'.added = work.added
  BY <1>1 DEF Works
<1>3. work.next \in Seq(DOMAIN prog) /\ work.added \in Nat
  BY <1>1 DEF Works
<1>4. Visited = V
  BY PassOver DEF NextPass
<1>5. Distinct(work.next) /\ T = UNION {Queues(prog, f) : f \in V}
  BY <1>4 DEF Pass
<1> HIDE DEF T, V
<1>6. /\ \A f \in V : Calls(prog, f) # {} => f \in T
      /\ T \subseteq UNION {Queues(prog, f) : f \in T}
  <2>1. T = UNION {Queues(prog, f) : f \in V}
    BY <1>5
  <2>2. \A f \in V : Calls(prog, f) # {} => f \in T
    BY <2>1, QueuesItself
  <2>3. T \subseteq UNION {Queues(prog, f) : f \in T}
    BY <2>1, QueuesItself
  <2> QED BY <2>2, <2>3
<1>7. Pass'
  <2>1. Visited' = {}
    BY <1>1 DEF Visited
  <2>2. Distinct(<<>>) /\ Elements(<<>>) = {}
    BY DEF Distinct, Elements
  <2>3. pos' \in 1 .. Len(visiting') + 1
    BY <1>1, <1>3
  <2>4. UNION {Queues(prog', f) : f \in Visited'} = {}
    BY <2>1
  <2>5. old' <= work'.added
    BY <1>1, <1>2, <1>3
  <2> QED BY <1>1, <1>2, <1>5, <2>1, <2>2, <2>3, <2>4, <2>5 DEF Pass
<1>8. ASSUME NEW f \in DOMAIN prog \ (D \union O \union T) PROVE Fresh(prog, work.accounts, f)
  <2>1. CASE FirstPass(D)
    <3>1. V = O
      BY <2>1 DEF FirstPass, V
    <3> QED BY <1>4, <2>1, <3>1 DEF FirstPass
  <2>2. CASE LaterPass(D)
    <3>1. V \subseteq T
      BY <1>5, <2>2 DEF LaterPass, V
    <3> QED BY <2>2, <3>1 DEF LaterPass, V
  <2> QED BY <2>1, <2>2
<1>9. ASSUME NEW f \in O \ T PROVE Calls(prog, f) = {} /\ Closed(prog, work.accounts, f)
  <2>1. CASE FirstPass(D)
    <3>1. V = O
      BY <2>1 DEF FirstPass, V
    <3>2. Calls(prog, f) = {}
      BY <1>6, <3>1
    <3> QED BY <1>4, <2>1, <3>1, <3>2 DEF FirstPass
  <2>2. CASE LaterPass(D)
    <3>1. V \subseteq T
      BY <1>5, <2>2 DEF LaterPass, V
    <3> QED BY <2>2, <3>1 DEF LaterPass, V
  <2> QED BY <2>1, <2>2
<1>10. Elements(visiting') = T /\ Of(prog', contract') = O
  BY <1>1 DEF T
<1>11. LaterPass(D)'
  BY <1>1, <1>2, <1>6, <1>8, <1>9, <1>10 DEF LaterPass
<1> QED BY <1>2, <1>7, <1>11

\* When a contract is done its functions have settled, and so has every
\* function of another contract that was visited on their behalf.
LEMMA EndCollects ==
  ASSUME TypeOK, Pass, EndContract, NEW D \in SUBSET DOMAIN prog, Settled(prog, work.accounts, D),
         FirstPass(D) \/ LaterPass(D)
  PROVE  \E E \in SUBSET DOMAIN prog :
           /\ D \subseteq E /\ Of(prog, contract) \subseteq E /\ Settled(prog, work.accounts, E)
           /\ \A f \in DOMAIN prog \ E : Fresh(prog, work.accounts, f)
<1> DEFINE l == work.accounts
           T == Elements(work.next)
           V == Elements(visiting)
           O == Of(prog, contract)
<1>1. /\ WellFormed(prog) /\ work \in Works(prog) /\ visiting \in Seq(DOMAIN prog)
      /\ work.next \in Seq(DOMAIN prog) /\ old = work.added /\ Len(visiting) = Len(work.next)
  BY ProgramFacts DEF EndContract, Converged, TypeOK, Works
<1>2. Visited = V
  BY PassOver DEF EndContract
<1>3. Distinct(visiting) /\ Distinct(work.next) /\ T = UNION {Queues(prog, f) : f \in V}
  BY <1>2 DEF Pass
<1>4. \A f \in V : Closed(prog, l, f)
  BY <1>1, <1>2 DEF Pass
<1>5. \A f \in D : Closed(prog, l, f) /\ Calls(prog, f) \subseteq D
  BY DEF Settled
<1>6. V \subseteq DOMAIN prog /\ O \subseteq DOMAIN prog
  BY <1>1 DEF Elements, Of
<1>7. CASE FirstPass(D)
  <2> DEFINE E == D \union O
  <2>1. V = O /\ old = 0
    BY <1>7 DEF FirstPass
  <2>2. \A f \in O \ D : ExternalCallees(prog, f) = {}
    BY <1>1, <1>2, <1>7, <2>1 DEF FirstPass
  <2>3. \A f \in O : InternalCallees(prog, f) \subseteq O
    BY <1>1, <1>6, CalleeFacts DEF Of
  <2>4. \A f \in E : Closed(prog, l, f) /\ Calls(prog, f) \subseteq E
    BY <1>4, <1>5, <2>1, <2>2, <2>3 DEF Calls
  <2>5. \A f \in DOMAIN prog \ E : Fresh(prog, l, f)
    BY <1>2, <1>7, <2>1 DEF FirstPass
  <2>6. E \in SUBSET DOMAIN prog /\ D \subseteq E /\ O \subseteq E
    BY <1>6
  <2> HIDE DEF E
  <2>7. Settled(prog, l, E)
    BY <2>4, <2>6 DEF Settled
  <2> QED BY <2>5, <2>6, <2>7
<1>8. CASE LaterPass(D)
  <2> DEFINE E == D \union O \union V
  <2>1. V \subseteq T
    BY <1>3, <1>8 DEF LaterPass
  <2>2. T = V
    BY <1>1, <1>3, <2>1, SameElements
  <2>3. \A f \in V : Calls(prog, f) \subseteq V
    BY <1>3, <2>2, QueuesItself
  <2>4. \A f \in O \ V : Closed(prog, l, f) /\ Calls(prog, f) = {}
    BY <1>8 DEF LaterPass
  <2>5. \A f \in E : Closed(prog, l, f) /\ Calls(prog, f) \subseteq E
    BY <1>4, <1>5, <2>3, <2>4
  <2>6. \A f \in DOMAIN prog \ E : Fresh(prog, l, f)
    BY <1>8 DEF LaterPass
  <2>7. E \in SUBSET DOMAIN prog /\ D \subseteq E /\ O \subseteq E
    BY <1>6
  <2> HIDE DEF E
  <2>8. Settled(prog, l, E)
    BY <2>5, <2>7 DEF Settled
  <2> QED BY <2>6, <2>7, <2>8
<1> QED BY <1>7, <1>8

\* Initially nothing is settled.
LEMMA CollectingInit == Init => Collecting
<1> SUFFICES ASSUME Init PROVE Collecting
  OBVIOUS
<1>1. /\ WellFormed(prog) /\ stage = "start" /\ contract = 1
      /\ \A f \in DOMAIN prog : accounts[f] = SemaAccounts(prog, f)
  BY ProgramsWellFormed DEF Init
<1>2. Settled(prog, accounts, {})
  BY DEF Settled
<1>3. Before(prog, contract) = {}
  <2>1. \A f \in DOMAIN prog : prog[f].contract \in Nat \ {0}
    BY <1>1, FunctionFacts
  <2> QED BY <1>1, <2>1 DEF Before
<1>4. \A f \in DOMAIN prog : Fresh(prog, accounts, f)
  BY <1>1, SemaFacts DEF Fresh
<1> QED BY <1>1, <1>2, <1>3, <1>4 DEF Collecting

\* One step.
LEMMA CollectingNext ==
  ASSUME TypeOK, PayersCallNoOther(prog), Collecting, [Next]_vars
  PROVE  Collecting'
<1>1. CASE StartContract
  <2>1. /\ prog' = prog /\ stage = "start" /\ stage' = "visit" /\ contract' = contract
    BY <1>1 DEF StartContract
  <2>2. PICK D \in SUBSET DOMAIN prog :
           /\ Settled(prog, accounts, D) /\ Before(prog, contract) \subseteq D
           /\ \A f \in DOMAIN prog \ D : Fresh(prog, accounts, f)
    BY <2>1 DEF Collecting
  <2>3. Pass' /\ Settled(prog, work'.accounts, D) /\ FirstPass(D)'
    BY <1>1, <2>2, StartCollects
  <2> QED BY <2>1, <2>2, <2>3 DEF Collecting
<1>2. CASE VisitFunction
  <2>1. prog' = prog /\ stage = "visit" /\ stage' = "visit" /\ contract' = contract
    BY <1>2 DEF VisitFunction
  <2>2. Pass
    BY <2>1 DEF Collecting
  <2>3. PICK D \in SUBSET DOMAIN prog :
              /\ Settled(prog, work.accounts, D) /\ Before(prog, contract) \subseteq D
              /\ FirstPass(D) \/ LaterPass(D)
    BY <2>1 DEF Collecting
  <2>4. work \in Works(prog)
    BY <2>1 DEF TypeOK
  <2>5. VisitStep
    BY <1>2, <2>2, <2>4, VisitFacts DEF VisitStep
  <2>6. Pass' /\ Settled(prog, work'.accounts, D) /\ (FirstPass(D)' \/ LaterPass(D)')
    BY <2>3, <2>5, VisitPass, VisitSettled, VisitFirst, VisitLater
  <2> QED BY <2>1, <2>3, <2>6 DEF Collecting
<1>3. CASE NextPass
  <2>1. prog' = prog /\ stage = "visit" /\ stage' = "visit" /\ contract' = contract
    BY <1>3 DEF NextPass
  <2>2. Pass
    BY <2>1 DEF Collecting
  <2>3. PICK D \in SUBSET DOMAIN prog :
              /\ Settled(prog, work.accounts, D) /\ Before(prog, contract) \subseteq D
              /\ FirstPass(D) \/ LaterPass(D)
    BY <2>1 DEF Collecting
  <2>4. Pass' /\ Settled(prog, work'.accounts, D) /\ LaterPass(D)'
    BY <1>3, <2>2, <2>3, NextCollects
  <2> QED BY <2>1, <2>3, <2>4 DEF Collecting
<1>4. CASE EndContract
  <2>1. prog' = prog /\ stage = "visit" /\ accounts' = work.accounts
    BY <1>4 DEF EndContract
  <2>2. Pass
    BY <2>1 DEF Collecting
  <2>3. PICK D \in SUBSET DOMAIN prog :
              /\ Settled(prog, work.accounts, D) /\ Before(prog, contract) \subseteq D
              /\ FirstPass(D) \/ LaterPass(D)
    BY <2>1 DEF Collecting
  <2>4. PICK E \in SUBSET DOMAIN prog :
           /\ D \subseteq E /\ Of(prog, contract) \subseteq E /\ Settled(prog, work.accounts, E)
           /\ \A f \in DOMAIN prog \ E : Fresh(prog, work.accounts, f)
    BY <1>4, <2>2, <2>3, EndCollects
  <2>5. \A f \in DOMAIN prog : prog[f].contract \in Nat /\ prog[f].contract <= NumContracts(prog)
    BY ProgramFacts
  <2>6. contract \in Nat /\ contract <= NumContracts(prog) /\ NumContracts(prog) \in Nat
    BY <2>1, ProgramFacts DEF TypeOK
  <2>7. CASE contract < NumContracts(prog)
    <3>1. stage' = "start" /\ contract' = contract + 1
      BY <1>4, <2>7 DEF EndContract
    <3>2. Before(prog, contract + 1) \subseteq Before(prog, contract) \union Of(prog, contract)
      BY <2>5, <2>6 DEF Before, Of
    <3>3. Before(prog, contract + 1) \subseteq E
      BY <2>3, <2>4, <3>2
    <3> QED BY <2>1, <2>4, <3>1, <3>3 DEF Collecting
  <2>8. CASE ~(contract < NumContracts(prog))
    <3>1. stage' = "manage"
      BY <1>4, <2>8 DEF EndContract
    <3>2. DOMAIN prog \subseteq Before(prog, contract) \union Of(prog, contract)
      BY <2>5, <2>6, <2>8 DEF Before, Of
    <3>3. E = DOMAIN prog
      BY <2>3, <2>4, <3>2
    <3> QED BY <2>1, <2>4, <3>1, <3>3 DEF Collecting
  <2> QED BY <2>7, <2>8
<1>5. CASE ManageContract
  <2>1. /\ prog' = prog /\ accounts' = accounts /\ stage = "manage"
        /\ stage' \in {"manage", "done"}
    BY <1>5 DEF ManageContract
  <2>2. Settled(prog, accounts, DOMAIN prog)
    BY <2>1 DEF Collecting
  <2> QED BY <2>1, <2>2 DEF Collecting
<1>6. CASE UNCHANGED vars
  BY <1>6 DEF Collecting, Pass, FirstPass, LaterPass, Visited, vars
<1> QED BY <1>1, <1>2, <1>3, <1>4, <1>5, <1>6 DEF Next, Finished

-----------------------------------------------------------------------------
(* All that is needed, and all that is looked for                          *)

\* The work list stops at a fixpoint in every contract, whatever the calls
\* (collect_accounts_from_contract), if no constructor with a @payer has the
\* accounts of another contract to collect.
THEOREM Fixpoint == Spec => [](PayersCallNoOther(prog) => Collecting)
<1> DEFINE Inv == PayersCallNoOther(prog) => Collecting
<1>1. Init => Inv
  BY CollectingInit
<1>2. TypeOK /\ Inv /\ [Next]_vars => Inv'
  <2> SUFFICES ASSUME TypeOK, Inv, [Next]_vars, PayersCallNoOther(prog)' PROVE Collecting'
    OBVIOUS
  <2>1. PayersCallNoOther(prog)
    BY StepFacts
  <2>2. Collecting
    BY <2>1
  <2> HIDE DEF Inv
  <2> QED BY <2>1, <2>2, CollectingNext
<1> HIDE DEF Inv
<1>3. Spec => []Inv
  BY <1>1, <1>2, TypeCorrect, PTL DEF Spec
<1> QED BY <1>3 DEF Inv

\* The functions keep what they are given.
LEMMA GivenAlways == Spec => [](AllGiven /\ GivenSystem)
BY GivenInit, GivenNext, TypeCorrect, PTL DEF Spec

\* Once everything has settled a function has what its callees have.
LEMMA SettledCallees ==
  ASSUME NEW p, NEW lists, Settled(p, lists, DOMAIN p), NEW f \in DOMAIN p, WellFormed(p)
  PROVE  /\ \A g \in InternalCallees(p, f) : Names(lists[g]) \subseteq Names(lists[f])
         /\ \A g \in ExternalCallees(p, f) :
              \A n \in Names(lists[g]) : NameIn(n, p[g].contract) \in Names(lists[f])
<1>1. \A i \in DOMAIN p[f].body : AddedBy(p, lists, p[f].body[i]) \subseteq Names(lists[f])
  BY DEF Settled, Closed
<1>2. \A ins \in Elements(p[f].body) : InstructionOK(p, f, ins) /\ AddedBy(p, lists, ins) \subseteq Names(lists[f])
  BY <1>1, InstructionFacts DEF Elements
<1>3. ASSUME NEW g \in InternalCallees(p, f) PROVE Names(lists[g]) \subseteq Names(lists[f])
  <2>1. PICK ins \in Elements(p[f].body) : ins.op = "internal" /\ ins.f = g
    BY DEF InternalCallees
  <2>2. AddedBy(p, lists, ins) = Names(lists[g])
    BY <2>1 DEF AddedBy, BuiltinAccount
  <2> QED BY <1>2, <2>2
<1>4. ASSUME NEW g \in ExternalCallees(p, f), NEW n \in Names(lists[g])
      PROVE  NameIn(n, p[g].contract) \in Names(lists[f])
  <2>1. PICK ins \in Elements(p[f].body) :
          /\ ins.f = g
          /\ \/ ins.op = "call" /\ ins.accounts = "absent"
             \/ ins.op = "new" /\ ins.f # 0 /\ ins.accounts # "present"
    BY DEF ExternalCallees
  <2>2. CASE ins.op = "call" /\ ins.accounts = "absent"
    <3>1. NameIn(n, p[g].contract) \in AddedBy(p, lists, ins)
      BY <2>1, <2>2 DEF AddedBy, AddedByCall, BuiltinAccount
    <3> QED BY <1>2, <3>1
  <2>3. CASE ins.op = "new" /\ ins.f # 0 /\ ins.accounts # "present"
    <3>1. p[g].contract = ins.c
      BY <1>2, <2>1, <2>3 DEF InstructionOK
    <3>2. NameIn(n, ins.c) \in AddedBy(p, lists, ins)
      BY <2>1, <2>3 DEF AddedBy, AddedByNew, BuiltinAccount
    <3> QED BY <1>2, <3>1, <3>2
  <2> QED BY <2>1, <2>2, <2>3
<1> QED BY <1>3, <1>4

\* A function that has settled has what its own instructions need.
LEMMA SettledOwn ==
  ASSUME NEW p, NEW lists, Settled(p, lists, DOMAIN p), NEW f \in DOMAIN p, WellFormed(p),
         Given(p, lists, f), p[f].kind = "constructor" /\ p[f].payer => SystemAccount \in Names(lists[f]),
         NEW x \in OwnNeeds(p, f)
  PROVE  x.name \in Names(lists[f])
<1>1. \A i \in DOMAIN p[f].body : AddedBy(p, lists, p[f].body[i]) \subseteq Names(lists[f])
  BY DEF Settled, Closed
<1>2. \A ins \in Elements(p[f].body) : AddedBy(p, lists, ins) \subseteq Names(lists[f])
  BY <1>1 DEF Elements
<1>3. /\ \A d \in DOMAIN p[f].declared : p[f].declared[d].name \in Names(lists[f])
      /\ Uses(p[f], {"load", "store"}) \/ p[f].kind = "constructor" => DataAccount \in Names(lists[f])
  BY SemaFacts DEF Given
<1>4. \A n, s, w : Need(n, s, w).name = n
  BY DEF Need
<1>5. CASE \E d \in Elements(p[f].declared) : x = Need(d.name, d.signer, d.writer)
  BY <1>3, <1>4, <1>5 DEF Elements
<1>6. CASE \E ins \in Elements(p[f].body) : ins.op \in {"load", "store"} /\ x.name = DataAccount
  <2>1. Uses(p[f], {"load", "store"})
    BY <1>6 DEF Elements, Uses
  <2> QED BY <1>3, <1>6, <2>1
<1>7. CASE \E ins \in Elements(p[f].body) : ins.op \in DOMAIN BuiltinAccount /\ x = Need(BuiltinAccount[ins.op], FALSE, FALSE)
  <2>1. PICK ins \in Elements(p[f].body) : ins.op \in DOMAIN BuiltinAccount /\ x = Need(BuiltinAccount[ins.op], FALSE, FALSE)
    BY <1>7
  <2>2. BuiltinAccount[ins.op] \in AddedBy(p, lists, ins)
    <3>1. DOMAIN BuiltinAccount = {"clock", "signature", "hash", "address"}
      BY DEF BuiltinAccount
    <3>2. ins.op \notin {"internal", "call", "new"}
      BY <2>1, <3>1
    <3> QED BY <2>1, <3>2 DEF AddedBy
  <2>3. x.name = BuiltinAccount[ins.op]
    BY <2>1 DEF Need
  <2> QED BY <1>2, <2>1, <2>2, <2>3
<1>8. CASE \E ins \in Elements(p[f].body) : ins.op \in {"call", "new"} /\ x = Need(SystemAccount, FALSE, FALSE)
  <2>1. PICK ins \in Elements(p[f].body) : ins.op \in {"call", "new"} /\ x = Need(SystemAccount, FALSE, FALSE)
    BY <1>8
  <2>2. SystemAccount \in AddedBy(p, lists, ins)
    BY <2>1 DEF AddedBy, AddedByCall, AddedByNew, BuiltinAccount
  <2>3. x.name = SystemAccount
    BY <2>1 DEF Need
  <2> QED BY <1>2, <2>1, <2>2, <2>3
<1>9. CASE \E ins \in Elements(p[f].body) : ins.op = "call" /\ ins.literal /\ x = Need(ProgramId(p[ins.f].contract), FALSE, FALSE)
  <2>1. PICK ins \in Elements(p[f].body) : ins.op = "call" /\ ins.literal /\ x = Need(ProgramId(p[ins.f].contract), FALSE, FALSE)
    BY <1>9
  <2>2. ProgramId(p[ins.f].contract) \in AddedBy(p, lists, ins)
    BY <2>1 DEF AddedBy, AddedByCall, BuiltinAccount
  <2>3. x.name = ProgramId(p[ins.f].contract)
    BY <2>1 DEF Need
  <2> QED BY <1>2, <2>1, <2>2, <2>3
<1>10. CASE \E ins \in Elements(p[f].body) : ins.op = "new" /\ ins.literal /\ x = Need(ProgramId(ins.c), FALSE, FALSE)
  <2>1. PICK ins \in Elements(p[f].body) : ins.op = "new" /\ ins.literal /\ x = Need(ProgramId(ins.c), FALSE, FALSE)
    BY <1>10
  <2>2. ProgramId(ins.c) \in AddedBy(p, lists, ins)
    BY <2>1 DEF AddedBy, AddedByNew, BuiltinAccount
  <2>3. x.name = ProgramId(ins.c)
    BY <2>1 DEF Need
  <2> QED BY <1>2, <2>1, <2>2, <2>3
<1>11. CASE \E ins \in Elements(p[f].body) : ins.op = "new" /\ ins.f = 0 /\ ins.accounts # "present" /\ x = Need(DataOf(ins.c), FALSE, TRUE)
  <2>1. PICK ins \in Elements(p[f].body) : ins.op = "new" /\ ins.f = 0 /\ ins.accounts # "present" /\ x = Need(DataOf(ins.c), FALSE, TRUE)
    BY <1>11
  <2>2. DataOf(ins.c) \in AddedBy(p, lists, ins)
    BY <2>1 DEF AddedBy, AddedByNew, BuiltinAccount
  <2>3. x.name = DataOf(ins.c)
    BY <2>1 DEF Need
  <2> QED BY <1>2, <2>1, <2>2, <2>3
<1>12. CASE p[f].kind = "constructor" /\ x.name = DataAccount
  BY <1>3, <1>12
<1>13. CASE p[f].kind = "constructor" /\ p[f].payer /\ x = Need(SystemAccount, FALSE, FALSE)
  BY <1>4, <1>13
<1>14. (\E ins \in Elements(p[f].body) : ins.op \in {"load", "store"} /\ x = Need(DataAccount, FALSE, ins.op = "store"))
         => \E ins \in Elements(p[f].body) : ins.op \in {"load", "store"} /\ x.name = DataAccount
  BY DEF Need
<1>15. x = Need(DataAccount, p[f].payer /\ ~p[f].seed, TRUE) => x.name = DataAccount
  BY DEF Need
<1> QED BY <1>5, <1>6, <1>7, <1>8, <1>9, <1>10, <1>11, <1>12, <1>13, <1>14, <1>15 DEF OwnNeeds

\* When the collection is over and has settled, nothing is missing.
LEMMA NothingMissing ==
  ASSUME TypeOK, AllGiven, GivenSystem, stage \in {"manage", "done"}, Settled(prog, accounts, DOMAIN prog)
  PROVE  \A f \in DOMAIN prog : \A n \in Needs(prog)[f] : n.name \in Names(accounts[f])
<1>1. WellFormed(prog) /\ accounts \in Lists(prog) /\ Current = accounts
  BY ProgramFacts DEF TypeOK, Current
<1>2. ASSUME NEW f \in DOMAIN prog, NEW x \in OwnNeeds(prog, f) PROVE x.name \in Names(accounts[f])
  <2>1. Given(prog, accounts, f)
    BY <1>1 DEF AllGiven
  <2>2. prog[f].kind = "constructor" /\ prog[f].payer => SystemAccount \in Names(accounts[f])
    BY <1>1 DEF GivenSystem, PayerSeen
  <2> QED BY <1>1, <2>1, <2>2, SettledOwn
<1>3. \A f \in DOMAIN prog : \A g \in InternalCallees(prog, f) : Names(accounts[g]) \subseteq Names(accounts[f])
  BY <1>1, SettledCallees
<1>4. \A f \in DOMAIN prog : \A g \in ExternalCallees(prog, f) :
        \A n \in Names(accounts[g]) : NameIn(n, prog[g].contract) \in Names(accounts[f])
  BY <1>1, SettledCallees
<1> QED BY <1>1, <1>2, <1>3, <1>4, ClosedHasNeeds

\* The accounts in the IDL are exactly the needed ones: when the collection
\* is over, every function lists all that it needs, however far down its calls
\* and around whatever recursion, and nothing else
\* (collect_accounts_from_contract with check_function).
THEOREM ExactAccounts == Spec => [](PayersCallNoOther(prog) => AccountsExact)
<1>1. ASSUME TypeOK, AllGiven, GivenSystem, AllJustified, PayersCallNoOther(prog) => Collecting,
             PayersCallNoOther(prog)
      PROVE  AccountsExact
  <2> SUFFICES ASSUME Compiled, NEW f \in DOMAIN prog
               PROVE  /\ \A n \in Needs(prog)[f] : IndexOf(accounts[f], n.name) # 0
                      /\ \A i \in DOMAIN accounts[f] : Justified(Needs(prog)[f], accounts[f][i])
    BY DEF AccountsExact
  <2>1. stage = "done" /\ Current = accounts
    BY DEF Compiled, Current
  <2>2. Settled(prog, accounts, DOMAIN prog)
    BY <1>1, <2>1 DEF Collecting
  <2>3. \A n \in Needs(prog)[f] : n.name \in Names(accounts[f])
    BY <1>1, <2>1, <2>2, NothingMissing
  <2>4. accounts[f] \in Seq(Account)
    BY <1>1 DEF TypeOK, Lists
  <2>5. \A n \in Needs(prog)[f] : IndexOf(accounts[f], n.name) # 0
    BY <2>3, <2>4, IndexFacts
  <2>6. \A i \in DOMAIN accounts[f] : Justified(Needs(prog)[f], accounts[f][i])
    BY <1>1, <2>1 DEF AllJustified
  <2> QED BY <2>5, <2>6
<1>2. TypeOK /\ AllGiven /\ GivenSystem /\ AllJustified /\ (PayersCallNoOther(prog) => Collecting)
        => (PayersCallNoOther(prog) => AccountsExact)
  BY <1>1
<1> QED BY <1>2, TypeCorrect, GivenAlways, NothingSuperfluous, Fixpoint, PTL

-----------------------------------------------------------------------------
(* The accounts that calls pass on                                         *)

\* The account metas in a sequence were all found.
Found(list) == \A j \in DOMAIN list : list[j].index # 0

\* get_index_of finds the account of a meta.
LEMMA MetaFound ==
  ASSUME TypeOK, NEW f \in DOMAIN prog, NEW n \in Names(accounts[f]), NEW s, NEW w
  PROVE  Meta(f, n, s, w).index # 0
<1>1. accounts[f] \in Seq(Account)
  BY DEF TypeOK, Lists
<1>2. IndexOf(accounts[f], n) # 0
  BY <1>1, IndexFacts
<1> QED BY <1>2 DEF Meta

\* The accounts of a callee.
LEMMA MetasOfFound ==
  ASSUME TypeOK, NEW f \in DOMAIN prog, NEW g \in DOMAIN prog, NEW c,
         \A n \in Names(accounts[g]) : NameIn(n, c) \in Names(accounts[f])
  PROVE  Found(MetasOf(f, c, g))
<1> SUFFICES ASSUME NEW j \in DOMAIN accounts[g] PROVE MetasOf(f, c, g)[j].index # 0
  BY DEF Found, MetasOf
<1> DEFINE a == accounts[g][j]
           n == NameIn(a.name, c)
<1>1. n \in Names(accounts[f])
  BY DEF Names
<1>2. MetasOf(f, c, g)[j] = Meta(f, n, a.signer, a.writer)
  BY DEF MetasOf, NameIn
<1> HIDE DEF n, a
<1> QED BY <1>1, <1>2, MetaFound

\* manage_contract_accounts finds what an instruction passes on.
LEMMA InstructionFound ==
  ASSUME TypeOK, AllGiven, stage = "manage", Settled(prog, accounts, DOMAIN prog), DefaultsCollect(prog),
         NEW f \in DOMAIN prog, NEW i \in DOMAIN prog[f].body
  PROVE  Found(ProcessInstruction(f, prog[f].body[i]))
<1> DEFINE ins == prog[f].body[i]
<1>1. WellFormed(prog) /\ Current = accounts
  BY ProgramFacts DEF Current
<1>2. InstructionOK(prog, f, ins) /\ AddedBy(prog, accounts, ins) \subseteq Names(accounts[f]) /\ ins \in Elements(prog[f].body)
  BY <1>1, InstructionFacts DEF Settled, Closed, Elements
<1>3. ins.op = "new" /\ ins.f = 0 => ins.accounts # "present"
  BY DEF DefaultsCollect
<1> HIDE DEF ins
<1>4. CASE ins.op = "call" /\ ins.accounts = "absent"
  <2>1. ins.f \in ExternalCallees(prog, f) /\ ins.f \in DOMAIN prog
    BY <1>2, <1>4 DEF ExternalCallees, InstructionOK
  <2>2. \A n \in Names(accounts[ins.f]) : NameIn(n, prog[ins.f].contract) \in Names(accounts[f])
    BY <1>1, <2>1, SettledCallees
  <2>3. ProcessInstruction(f, ins) = MetasOf(f, prog[ins.f].contract, ins.f)
    BY <1>4 DEF ProcessInstruction
  <2> QED BY <2>1, <2>2, <2>3, MetasOfFound DEF ins
<1>5. CASE ins.op = "new" /\ ins.f # 0 /\ ins.accounts = "absent"
  <2>1. ins.f \in ExternalCallees(prog, f) /\ ins.f \in DOMAIN prog /\ prog[ins.f].contract = ins.c
    BY <1>2, <1>5 DEF ExternalCallees, InstructionOK
  <2>2. \A n \in Names(accounts[ins.f]) : NameIn(n, ins.c) \in Names(accounts[f])
    BY <1>1, <2>1, SettledCallees
  <2>3. ProcessInstruction(f, ins) = MetasOf(f, ins.c, ins.f)
    BY <1>5 DEF ProcessInstruction
  <2> QED BY <2>1, <2>2, <2>3, MetasOfFound DEF ins
<1>6. CASE ins.op = "new" /\ ins.f = 0
  <2>1. DataOf(ins.c) \in AddedBy(prog, accounts, ins)
    BY <1>3, <1>6 DEF AddedBy, AddedByNew, BuiltinAccount
  <2>2. Meta(f, DataOf(ins.c), FALSE, TRUE).index # 0
    BY <1>2, <2>1, MetaFound
  <2> DEFINE m == Meta(f, DataOf(ins.c), FALSE, TRUE)
  <2>3. ProcessInstruction(f, ins) = <<m>> /\ m.index # 0
    BY <1>6, <2>2 DEF ProcessInstruction
  <2> HIDE DEF m
  <2>4. Found(ProcessInstruction(f, ins))
    BY <2>3 DEF Found
  <2> QED BY <2>4 DEF ins
<1>7. CASE ins.op = "account"
  <2>1. PICK d \in DOMAIN prog[f].declared : prog[f].declared[d].name = ins.name
    BY <1>2, <1>7 DEF InstructionOK
  <2>2. ins.name \in Names(accounts[f])
    BY <1>1, <2>1, SemaFacts DEF AllGiven, Given
  <2>3. Meta(f, ins.name, FALSE, FALSE).index # 0
    BY <2>2, MetaFound
  <2> DEFINE m == Meta(f, ins.name, FALSE, FALSE)
  <2>4. ProcessInstruction(f, ins) = <<m>> /\ m.index # 0
    BY <1>7, <2>3 DEF ProcessInstruction
  <2> HIDE DEF m
  <2>5. Found(ProcessInstruction(f, ins))
    BY <2>4 DEF Found
  <2> QED BY <2>5 DEF ins
<1>8. CASE /\ ~(ins.op = "call" /\ ins.accounts = "absent") /\ ~(ins.op = "new" /\ ins.f # 0 /\ ins.accounts = "absent")
           /\ ~(ins.op = "new" /\ ins.f = 0) /\ ins.op # "account"
  <2>1. ProcessInstruction(f, ins) = <<>>
    BY <1>8 DEF ProcessInstruction
  <2> QED BY <2>1 DEF Found, ins
<1> QED BY <1>4, <1>5, <1>6, <1>7, <1>8

\* The dispatcher finds the payer and the data account.
LEMMA DeployFound ==
  ASSUME TypeOK, AllGiven, stage = "manage", NEW f \in DOMAIN prog
  PROVE  Found(DeployMetas(f))
<1>1. WellFormed(prog) /\ Current = accounts
  BY ProgramFacts DEF Current
<1>2. CASE prog[f].kind = "constructor" /\ prog[f].payer
  <2> DEFINE n == prog[f].declared[1].name
  <2>1. 1 \in DOMAIN prog[f].declared
    <3> DEFINE S == [name : DeclaredNames, signer : BOOLEAN, writer : BOOLEAN]
    <3>1. prog[f].declared \in Seq(S) /\ prog[f].declared # <<>>
      BY <1>1, <1>2, FunctionFacts
    <3> HIDE DEF S
    <3> QED BY <3>1
  <2>2. n \in Names(accounts[f]) /\ DataAccount \in Names(accounts[f])
    BY <1>1, <1>2, <2>1, SemaFacts DEF AllGiven, Given
  <2>3. Meta(f, n, TRUE, TRUE).index # 0 /\ Meta(f, DataAccount, TRUE, TRUE).index # 0
    BY <2>2, MetaFound
  <2>4. DeployMetas(f) = <<Meta(f, n, TRUE, TRUE), Meta(f, DataAccount, TRUE, TRUE)>>
    BY <1>2 DEF DeployMetas
  <2> HIDE DEF n
  <2> DEFINE x == Meta(f, n, TRUE, TRUE)
             y == Meta(f, DataAccount, TRUE, TRUE)
  <2>5. DeployMetas(f) = <<x, y>> /\ x.index # 0 /\ y.index # 0
    BY <2>3, <2>4
  <2> HIDE DEF x, y
  <2> QED BY <2>5 DEF Found
<1>3. CASE ~(prog[f].kind = "constructor" /\ prog[f].payer)
  BY <1>3 DEF DeployMetas, Found
<1> QED BY <1>2, <1>3

\* One step.
LEMMA MetasNext ==
  ASSUME TypeOK, AllGiven, Collecting, DefaultsCollect(prog), MetasFound, [Next]_vars
  PROVE  MetasFound'
<1>1. MetasFound <=> \A f \in DOMAIN prog : \A i \in DOMAIN metas[f] : Found(metas[f][i])
  BY DEF MetasFound, Found
<1>2. MetasFound' <=> \A f \in DOMAIN prog' : \A i \in DOMAIN metas'[f] : Found(metas'[f][i])
  BY DEF MetasFound, Found
<1>3. prog' = prog
  BY StepFacts
<1>4. CASE ManageContract
  <2> SUFFICES ASSUME NEW f \in DOMAIN prog, NEW i \in DOMAIN metas'[f] PROVE Found(metas'[f][i])
    BY <1>2, <1>3
  <2>1. stage = "manage"
    BY <1>4 DEF ManageContract
  <2>2. Settled(prog, accounts, DOMAIN prog)
    BY <2>1 DEF Collecting
  <2> DEFINE b == prog[f].body
             S == {ProcessInstruction(f, b[j]) : j \in DOMAIN b}
             s == [j \in DOMAIN b |-> ProcessInstruction(f, b[j])]
             d == DeployMetas(f)
  <2>3. metas'[f] = IF prog[f].contract # contract THEN metas[f] ELSE Append(s, d)
    BY <1>4 DEF ManageContract
  <2>4. CASE prog[f].contract # contract
    BY <1>1, <2>3, <2>4
  <2>5. CASE prog[f].contract = contract
    <3>1. b \in Seq(Instructions(prog))
      BY ProgramFacts, FunctionFacts
    <3>2. \A j \in DOMAIN b : Found(ProcessInstruction(f, b[j]))
      BY <2>1, <2>2, InstructionFound
    <3>3. Found(d)
      BY <2>1, DeployFound
    <3>4. DOMAIN b = 1 .. Len(b) /\ Len(b) \in Nat
      BY <3>1
    <3> HIDE DEF b, d
    <3>5. s \in Seq(S) /\ Len(s) = Len(b) /\ \A j \in 1 .. Len(b) : s[j] = ProcessInstruction(f, b[j])
      BY <3>4
    <3> HIDE DEF s, S
    <3>6. metas'[f] = Append(s, d)
      BY <2>3, <2>5
    <3>7. DOMAIN metas'[f] = 1 .. Len(b) + 1
      BY <3>5, <3>6
    <3>8. metas'[f][i] = IF i = Len(b) + 1 THEN d ELSE s[i]
      BY <3>5, <3>6, <3>7
    <3>9. CASE i = Len(b) + 1
      BY <3>3, <3>8, <3>9
    <3>10. CASE i # Len(b) + 1
      <4>1. i \in 1 .. Len(b)
        BY <3>4, <3>7, <3>10
      <4>2. metas'[f][i] = ProcessInstruction(f, b[i])
        BY <3>5, <3>8, <3>10, <4>1
      <4> QED BY <3>2, <3>4, <4>1, <4>2
    <3> QED BY <3>9, <3>10
  <2> QED BY <2>4, <2>5
<1>5. CASE metas' = metas
  BY <1>1, <1>2, <1>3, <1>5
<1> QED BY <1>4, <1>5 DEF Next, StartContract, VisitFunction, NextPass, EndContract, Finished, vars

\* The unwrap of get_index_of in manage_contract_accounts never fails: every
\* account that a call passes on is among the caller's accounts.
THEOREM MetasAlwaysFound ==
  Spec => [](PayersCallNoOther(prog) /\ DefaultsCollect(prog) => IndexesFound)
<1> DEFINE H == PayersCallNoOther(prog) /\ DefaultsCollect(prog)
           C == PayersCallNoOther(prog) => Collecting
           Inv == H => MetasFound
<1>1. Init => Inv
  BY DEF Init, MetasFound
<1>2. TypeOK /\ AllGiven /\ C /\ Inv /\ [Next]_vars => Inv'
  <2> SUFFICES ASSUME TypeOK, AllGiven, C, Inv, [Next]_vars, H' PROVE MetasFound'
    OBVIOUS
  <2>1. prog' = prog
    BY StepFacts
  <2>2. H
    BY <2>1
  <2>3. Collecting /\ MetasFound /\ DefaultsCollect(prog)
    BY <2>2
  <2> HIDE DEF Inv, H, C
  <2> QED BY <2>3, MetasNext
<1>3. Inv => (H => IndexesFound)
  BY DEF IndexesFound, MetasFound
<1> HIDE DEF Inv, H, C
<1>4. Spec => []C
  BY Fixpoint DEF C
<1>5. Spec => [](H => IndexesFound)
  BY <1>1, <1>2, <1>3, <1>4, TypeCorrect, GivenAlways, PTL DEF Spec
<1> QED BY <1>5 DEF H

-----------------------------------------------------------------------------
(* Storage is the first account                                            *)

\* The data account is at place i of the list and nowhere else.
DataAt(list, i) == i \in DOMAIN list /\ \A j \in DOMAIN list : list[j].name = DataAccount <=> j = i

\* An account of l1 is in l2 with all its flags.  The system account has none.
KeepsFlags(l1, l2) ==
  \A i \in DOMAIN l1 : l1[i].name # SystemAccount =>
    \E j \in DOMAIN l2 : /\ l2[j].name = l1[i].name
                         /\ l1[i].writer => l2[j].writer
                         /\ l1[i].signer => l2[j].signer

\* A list keeps its data account where it is, and its flags.
Keeps(l1, l2) == (\A i : DataAt(l1, i) => DataAt(l2, i)) /\ KeepsFlags(l1, l2)

\* Semantic analysis gives the function the data account.
TouchesStorage(p, f) == Uses(p[f], {"load", "store"}) \/ p[f].kind = "constructor"

\* A function of the IDL that reaches storage within its contract touches it
\* itself.
StorageAtHand(p) ==
  \A f, g \in DOMAIN p :
    Public(p[f]) /\ p[f].kind # "fallback" /\ <<f, g>> \in Within(p) /\ TouchesStorage(p, g)
      => TouchesStorage(p, f)

\* collect_accounts_from_contract has moved the function's data account.
Started(f) ==
  \/ stage \in {"manage", "done"} \/ prog[f].contract < contract
  \/ stage = "visit" /\ prog[f].contract = contract

StoragePlaced ==
  \A f \in DOMAIN prog : TouchesStorage(prog, f) =>
    \E i \in DOMAIN Current[f] : DataAt(Current[f], i) /\ (Started(f) /\ InIdl(f) => i = 1)

\* What semantic analysis lets a function write or asks to be signed stays so.
Granted == \A f \in DOMAIN prog : KeepsFlags(SemaAccounts(prog, f), Current[f])

\* One after the other.
LEMMA FlagsTwice ==
  ASSUME NEW l1, NEW l2, NEW l3, KeepsFlags(l1, l2), KeepsFlags(l2, l3)
  PROVE  KeepsFlags(l1, l3)
<1> SUFFICES ASSUME NEW i \in DOMAIN l1, l1[i].name # SystemAccount
             PROVE  \E j \in DOMAIN l3 : /\ l3[j].name = l1[i].name
                                         /\ l1[i].writer => l3[j].writer
                                         /\ l1[i].signer => l3[j].signer
  BY DEF KeepsFlags
<1>1. PICK j \in DOMAIN l2 : /\ l2[j].name = l1[i].name
                             /\ l1[i].writer => l2[j].writer
                             /\ l1[i].signer => l2[j].signer
  BY DEF KeepsFlags
<1>2. PICK k \in DOMAIN l3 : /\ l3[k].name = l2[j].name
                             /\ l2[j].writer => l3[k].writer
                             /\ l2[j].signer => l3[k].signer
  BY <1>1 DEF KeepsFlags
<1> QED BY <1>1, <1>2

\* The same for the data account as well.
LEMMA KeepsTwice ==
  ASSUME NEW l1, NEW l2, NEW l3, Keeps(l1, l2), Keeps(l2, l3)
  PROVE  Keeps(l1, l3)
BY FlagsTwice DEF Keeps

\* Doing nothing.
LEMMA KeepsSame == \A list : Keeps(list, list)
BY DEF Keeps, KeepsFlags

\* insert keeps the flags of the other accounts, and of its own if the new
\* account has them.
LEMMA InsertFlags ==
  ASSUME NEW list \in Seq(Account), NEW a \in Account,
         a.name # SystemAccount /\ IndexOf(list, a.name) # 0 =>
           /\ list[IndexOf(list, a.name)].writer => a.writer
           /\ list[IndexOf(list, a.name)].signer => a.signer
  PROVE  KeepsFlags(list, Insert(list, a))
<1> DEFINE k == IndexOf(list, a.name)
           new == Insert(list, a)
<1>1. CASE k = 0
  <2>1. new = Append(list, a)
    BY <1>1 DEF Insert
  <2>2. \A i \in DOMAIN list : i \in DOMAIN new /\ new[i] = list[i]
    BY <2>1
  <2> HIDE DEF new
  <2> QED BY <2>2 DEF KeepsFlags, new
<1>2. CASE k # 0
  <2>1. new = [list EXCEPT ![k] = a]
    BY <1>2 DEF Insert
  <2>2. k \in DOMAIN list /\ list[k].name = a.name
    BY <1>2, IndexFacts
  <2>3. a.name # SystemAccount => (list[k].writer => a.writer) /\ (list[k].signer => a.signer)
    BY <1>2
  <2> HIDE DEF k
  <2>4. DOMAIN new = DOMAIN list /\ \A j \in DOMAIN list : new[j] = IF j = k THEN a ELSE list[j]
    BY <2>1, <2>2
  <2> HIDE DEF new
  <2>5. KeepsFlags(list, new)
    BY <2>2, <2>3, <2>4 DEF KeepsFlags
  <2> QED BY <2>5 DEF new
<1> QED BY <1>1, <1>2

\* insert leaves the data account where it is.
LEMMA InsertPlaces ==
  ASSUME NEW list \in Seq(Account), NEW a \in Account, NEW i, DataAt(list, i)
  PROVE  DataAt(Insert(list, a), i)
<1> DEFINE k == IndexOf(list, a.name)
           new == Insert(list, a)
<1>1. i \in DOMAIN list /\ \A j \in DOMAIN list : list[j].name = DataAccount <=> j = i
  BY DEF DataAt
<1>2. CASE k = 0
  <2>1. new = Append(list, a)
    BY <1>2 DEF Insert
  <2>2. a.name \notin Names(list)
    BY <1>2, IndexFacts
  <2>3. a.name # DataAccount
    BY <1>1, <2>2 DEF Names
  <2>4. /\ DOMAIN new = DOMAIN list \union {Len(list) + 1} /\ i # Len(list) + 1
        /\ \A j \in DOMAIN new : new[j] = IF j = Len(list) + 1 THEN a ELSE list[j]
    BY <1>1, <2>1
  <2> HIDE DEF new
  <2>5. DataAt(new, i)
    BY <1>1, <2>3, <2>4 DEF DataAt
  <2> QED BY <2>5 DEF new
<1>3. CASE k # 0
  <2>1. new = [list EXCEPT ![k] = a]
    BY <1>3 DEF Insert
  <2>2. k \in DOMAIN list /\ list[k].name = a.name
    BY <1>3, IndexFacts
  <2> HIDE DEF k
  <2>3. DOMAIN new = DOMAIN list /\ \A j \in DOMAIN list : new[j] = IF j = k THEN a ELSE list[j]
    BY <2>1, <2>2
  <2> HIDE DEF new
  <2>4. DataAt(new, i)
    BY <1>1, <2>2, <2>3 DEF DataAt
  <2> QED BY <2>4 DEF new
<1> QED BY <1>2, <1>3

\* add_account keeps the data account and the flags.
LEMMA AddAccountKeeps ==
  ASSUME NEW p, NEW f \in DOMAIN p, NEW w \in Works(p), NEW a \in Account
  PROVE  Keeps(w.accounts[f], AddAccount(w, f, a).accounts[f])
<1> DEFINE list == w.accounts[f]
           b == Merged(w, f, a)
           k == IndexOf(list, a.name)
<1>1. list \in Seq(Account)
  BY DEF Works, Lists
<1>2. b \in Account /\ b.name = a.name
  BY MergedFacts
<1>3. AddAccount(w, f, a).accounts[f] = Insert(list, b)
  BY AddAccountFacts
<1>4. k # 0 => (list[k].writer => b.writer) /\ (list[k].signer => b.signer)
  BY DEF Merged, SolanaAccount
<1> HIDE DEF list, b
<1>5. KeepsFlags(list, Insert(list, b))
  BY <1>1, <1>2, <1>4, InsertFlags
<1>6. \A i : DataAt(list, i) => DataAt(Insert(list, b), i)
  BY <1>1, <1>2, InsertPlaces
<1> QED BY <1>3, <1>5, <1>6 DEF Keeps, list

\* So does adding an entry.
LEMMA AddOneKeeps ==
  ASSUME NEW p, NEW f \in DOMAIN p, NEW w \in Works(p), NEW loc \in Int \X Int, NEW x \in Entries
  PROVE  Keeps(w.accounts[f], AddOne(w, f, loc, x).accounts[f])
<1>1. x.a \in Account /\ x.from \in Nat
  BY DEF Entries
<1>2. CASE x.from = 0
  <2>1. AddOne(w, f, loc, x) = AddAccount(w, f, x.a)
    BY <1>2 DEF AddOne
  <2> QED BY <1>1, <2>1, AddAccountKeeps
<1>3. CASE x.from # 0
  <2> DEFINE a    == x.a
             c    == x.from
             data == a.name = DataAccount
             name == NameIn(a.name, c)
             i    == IndexOf(w.accounts[f], name)
             b    == SolanaAccount(name, a.signer, a.writer, TRUE, IF data THEN loc ELSE a.loc)
             w1   == AddAccount(w, f, b)
             w2   == TransferAccount(w, f, c, loc, a)
  <2>1. AddOne(w, f, loc, x) = w2
    BY <1>3 DEF AddOne
  <2>2. CASE data /\ i # 0
    <3>1. w2 = [w EXCEPT !.errors = @ \/ w.accounts[f][i].loc # loc]
      BY <2>2 DEF TransferAccount, NameIn
    <3> HIDE DEF i, name, w2
    <3>2. w2.accounts = w.accounts
      BY <3>1 DEF Works
    <3> QED BY <2>1, <3>2, KeepsSame
  <2>3. CASE ~(data /\ i # 0)
    <3>1. w2 = [w1 EXCEPT !.errors = @ \/ (i # 0 /\ ~w.accounts[f][i].generated)]
      BY <2>3 DEF TransferAccount, NameIn
    <3>2. a.name \in AccountNames /\ a.signer \in BOOLEAN /\ a.writer \in BOOLEAN /\ a.loc \in Int \X Int
      BY <1>1 DEF Account
    <3>3. name \in AccountNames /\ (IF data THEN loc ELSE a.loc) \in Int \X Int
      BY <1>1, <1>3, <3>2, NameInFacts
    <3>4. b \in Account
      BY <3>2, <3>3 DEF SolanaAccount, Account
    <3> HIDE DEF b, name
    <3>5. Keeps(w.accounts[f], w1.accounts[f]) /\ w1 \in Works(p)
      BY <3>4, AddAccountKeeps, AddAccountFacts DEF Grown
    <3> HIDE DEF w1, i, w2
    <3>6. w2.accounts = w1.accounts
      BY <3>1, <3>5 DEF Works
    <3> QED BY <2>1, <3>5, <3>6
  <2> QED BY <2>2, <2>3
<1> QED BY <1>2, <1>3

\* So does adding a list of entries.
LEMMA AddAllKeeps ==
  ASSUME NEW p, NEW f \in DOMAIN p, NEW w \in Works(p), NEW loc \in Int \X Int, NEW list \in Seq(Entries)
  PROVE  Keeps(w.accounts[f], AddAll(w, f, loc, list).accounts[f])
<1> DEFINE k == Len(list)
<1>1. PICK r \in [0 .. k -> Works(p)] :
        /\ r[0] = w /\ \A n \in 1 .. k : r[n] = AddOne(r[n - 1], f, loc, list[n])
        /\ AddAll(w, f, loc, list) = r[k]
  BY AddAllDef
<1>2. k \in Nat /\ \A n \in 1 .. k : list[n] \in Entries
  OBVIOUS
<1> HIDE DEF k
<1> DEFINE Good(n) == Keeps(w.accounts[f], r[n].accounts[f])
           G == {n \in 0 .. k : Good(n)}
<1>3. 0 \in G
  BY <1>1, <1>2, KeepsSame
<1>4. ASSUME NEW n \in 1 .. k, n - 1 \in G PROVE n \in G
  <2>1. n - 1 \in 0 .. k /\ n \in 0 .. k
    BY <1>2
  <2>2. r[n - 1] \in Works(p) /\ r[n] = AddOne(r[n - 1], f, loc, list[n]) /\ Good(n - 1)
    BY <1>1, <1>4, <2>1
  <2>3. Keeps(r[n - 1].accounts[f], r[n].accounts[f])
    BY <1>2, <2>2, AddOneKeeps
  <2>4. Good(n)
    BY <2>2, <2>3, KeepsTwice
  <2> HIDE DEF Good
  <2> QED BY <2>1, <2>4
<1> HIDE DEF G
<1>5. k \in Nat
  BY <1>2
<1>6. 0 .. k \subseteq G
  BY <1>3, <1>4, <1>5, UpTo
<1>7. k \in G
  BY <1>5, <1>6
<1> QED BY <1>1, <1>7 DEF G, k

\* So does check_instruction.
LEMMA CheckInstructionKeeps ==
  ASSUME NEW p, WellFormed(p), NEW w \in Works(p), NEW f \in DOMAIN p, NEW i \in DOMAIN p[f].body
  PROVE  Keeps(w.accounts[f], CheckInstruction(p, w, f, i).accounts[f])
<1> DEFINE ins == p[f].body[i]
           list == AccountsOf(p, w.accounts, ins, <<f, i>>)
           w1 == Queued(w, f, ins)
           w2 == AddAll(w1, f, <<f, i>>, list)
           N == AddedBy(p, w.accounts, ins)
<1>1. w.accounts \in Lists(p) /\ w.next \in Seq(DOMAIN p)
  BY DEF Works
<1>2. <<f, i>> \in Int \X Int
  <2>1. DOMAIN p = 1 .. Len(p) /\ p[f].body \in Seq(Instructions(p)) /\ Len(p) \in Nat
    BY FunctionFacts
  <2>2. DOMAIN p[f].body = 1 .. Len(p[f].body)
    BY <2>1
  <2> QED BY <2>1, <2>2
<1>3. Collects(p, w.accounts, f, list, N)
  BY <1>1, <1>2, AccountsOfFacts
<1>4. InstructionOK(p, f, ins)
  BY InstructionFacts
<1>5. Revisits(ins) => ins.f \in DOMAIN p
  BY <1>4 DEF Revisits, InstructionOK
<1>6. CheckInstruction(p, w, f, i) = w2
  <2>1. CheckInstruction(p, w, f, i) = Only({AddAll(w1, f, <<f, i>>, l) : l \in {list}})
    BY DEF CheckInstruction
  <2>2. {AddAll(w1, f, <<f, i>>, l) : l \in {list}} = {w2}
    OBVIOUS
  <2> HIDE DEF w2
  <2> QED BY <2>1, <2>2, OnlyOne
<1> HIDE DEF ins, list
<1>7. w1 \in Works(p) /\ w1.accounts = w.accounts
  <2>1. CASE Revisits(ins)
    <3> DEFINE q1 == Enqueue(w.next, ins.f)
               q2 == Enqueue(q1, f)
    <3>1. q1 \in Seq(DOMAIN p)
      BY <1>1, <1>5, <2>1, EnqueueFacts
    <3> HIDE DEF q1
    <3>2. q2 \in Seq(DOMAIN p)
      BY <3>1, EnqueueFacts
    <3>3. w1 = [w EXCEPT !.next = q2]
      BY <2>1 DEF Queued, q1
    <3> HIDE DEF q2, w1
    <3> QED BY <3>2, <3>3 DEF Works
  <2>2. CASE ~Revisits(ins)
    BY <2>2 DEF Queued
  <2> QED BY <2>1, <2>2
<1>8. list \in Seq(Entries)
  BY <1>3 DEF Collects
<1> HIDE DEF w1
<1>9. Keeps(w1.accounts[f], w2.accounts[f])
  BY <1>2, <1>7, <1>8, AddAllKeeps
<1> HIDE DEF w2
<1> QED BY <1>6, <1>7, <1>9

\* So does check_function.
LEMMA CheckFunctionKeeps ==
  ASSUME NEW p, WellFormed(p), NEW w \in Works(p), NEW f \in DOMAIN p
  PROVE  Keeps(w.accounts[f], CheckFunction(p, w, f).accounts[f])
<1> DEFINE k == Len(p[f].body)
<1>1. k \in Nat /\ DOMAIN p[f].body = 1 .. k
  <2>1. p[f].body \in Seq(Instructions(p))
    BY FunctionFacts
  <2> QED BY <2>1
<1>2. PICK r \in [0 .. k -> Works(p)] :
           /\ r[0] = w /\ \A n \in 1 .. k : r[n] = CheckInstruction(p, r[n - 1], f, n)
           /\ CheckFunction(p, w, f) = r[k]
  BY CheckFunctionDef
<1> HIDE DEF k
<1> DEFINE Good(n) == Keeps(w.accounts[f], r[n].accounts[f])
           G == {n \in 0 .. k : Good(n)}
<1>3. 0 \in G
  BY <1>1, <1>2, KeepsSame
<1>4. ASSUME NEW n \in 1 .. k, n - 1 \in G PROVE n \in G
  <2>1. n - 1 \in 0 .. k /\ n \in 0 .. k
    BY <1>1
  <2>2. r[n - 1] \in Works(p) /\ r[n] = CheckInstruction(p, r[n - 1], f, n) /\ Good(n - 1)
    BY <1>2, <1>4, <2>1
  <2>3. Keeps(r[n - 1].accounts[f], r[n].accounts[f])
    BY <1>1, <2>2, CheckInstructionKeeps
  <2>4. Good(n)
    BY <2>2, <2>3, KeepsTwice
  <2> HIDE DEF Good
  <2> QED BY <2>1, <2>4
<1> HIDE DEF G
<1>5. k \in G
  BY <1>1, <1>3, <1>4, UpTo
<1> QED BY <1>2, <1>5 DEF G, k

\* get_index_of gives the place of the data account.
LEMMA DataAtIndex ==
  ASSUME NEW list \in Seq(Account), NEW i, DataAt(list, i)
  PROVE  IndexOf(list, DataAccount) = i
<1>1. DataAccount \in Names(list)
  BY DEF DataAt, Names
<1>2. IndexOf(list, DataAccount) # 0
  BY <1>1, IndexFacts
<1>3. IndexOf(list, DataAccount) \in DOMAIN list /\ list[IndexOf(list, DataAccount)].name = DataAccount
  BY <1>2, IndexFacts
<1> QED BY <1>3 DEF DataAt

\* Inserting a data account into a list without one.
LEMMA InsertData ==
  ASSUME NEW list \in Seq(Account), NEW a \in Account, a.name = DataAccount, DataAccount \notin Names(list)
  PROVE  \E i \in DOMAIN Insert(list, a) : DataAt(Insert(list, a), i)
<1> DEFINE new == Insert(list, a)
<1>1. IndexOf(list, a.name) = 0
  BY IndexFacts
<1>2. new = Append(list, a)
  BY <1>1 DEF Insert
<1>3. /\ Len(list) \in Nat /\ DOMAIN list = 1 .. Len(list) /\ DOMAIN new = 1 .. Len(list) + 1
      /\ \A j \in DOMAIN new : new[j] = IF j = Len(list) + 1 THEN a ELSE list[j]
  BY <1>2
<1>4. \A j \in DOMAIN list : list[j].name # DataAccount
  BY DEF Names
<1> HIDE DEF new
<1>5. Len(list) + 1 \in DOMAIN new
  BY <1>3
<1>6. ASSUME NEW j \in DOMAIN new PROVE new[j].name = DataAccount <=> j = Len(list) + 1
  <2>1. CASE j = Len(list) + 1
    BY <1>3, <2>1
  <2>2. CASE j # Len(list) + 1
    <3>1. j \in DOMAIN list /\ new[j] = list[j]
      BY <1>3, <2>2
    <3> QED BY <1>4, <2>2, <3>1
  <2> QED BY <2>1, <2>2
<1>7. DataAt(new, Len(list) + 1)
  BY <1>5, <1>6 DEF DataAt
<1> QED BY <1>5, <1>7 DEF new

\* Semantic analysis gives one data account to the functions that touch
\* storage.
LEMMA SemaPlaces ==
  ASSUME NEW p, WellFormed(p), NEW f \in DOMAIN p, TouchesStorage(p, f)
  PROVE  \E i \in DOMAIN SemaAccounts(p, f) : DataAt(SemaAccounts(p, f), i)
<1> DEFINE A1 == SolanaAccount(DataAccount, FALSE, Uses(p[f], {"store"}), TRUE, Codegen)
           A2 == SolanaAccount(DataAccount, p[f].payer /\ ~p[f].seed, TRUE, TRUE, Codegen)
           d0 == Declared(p, f)
           d1 == WithDataAccount(p[f], d0)
           d2 == SemaAccounts(p, f)
<1>1. d0 \in Seq(Account) /\ DataAccount \notin Names(d0)
  <2>1. d0 \in Seq(Account) /\ Names(d0) = {p[f].declared[d].name : d \in DOMAIN p[f].declared}
    BY DeclaredFacts
  <2>2. \A d \in DOMAIN p[f].declared : p[f].declared[d].name \in DeclaredNames
    <3> DEFINE S == [name : DeclaredNames, signer : BOOLEAN, writer : BOOLEAN]
               s == p[f].declared
    <3>1. s \in Seq(S)
      BY FunctionFacts
    <3> HIDE DEF S, s
    <3>2. \A d \in DOMAIN s : s[d] \in S
      BY <3>1
    <3> QED BY <3>2 DEF S, s
  <2>3. \A n \in DeclaredNames : n # DataAccount
    BY NameFacts
  <2> HIDE DEF d0
  <2> QED BY <2>1, <2>2, <2>3
<1>2. A1 \in Account /\ A1.name = DataAccount /\ A2 \in Account /\ A2.name = DataAccount
  <2>1. DataAccount \in AccountNames /\ Codegen \in Int \X Int
    BY NameFacts DEF Codegen
  <2>2. Uses(p[f], {"store"}) \in BOOLEAN /\ (p[f].payer /\ ~p[f].seed) \in BOOLEAN
    BY DEF Uses
  <2> QED BY <2>1, <2>2 DEF SolanaAccount, Account
<1>3. d1 = IF Uses(p[f], {"load", "store"}) THEN Insert(d0, A1) ELSE d0
  BY DEF WithDataAccount
<1>4. d2 = IF p[f].kind = "constructor" THEN Insert(d1, A2) ELSE d1
  BY DEF SemaAccounts
<1> HIDE DEF A1, A2, d0, d1, d2
<1>5. CASE Uses(p[f], {"load", "store"})
  <2>1. d1 = Insert(d0, A1)
    BY <1>3, <1>5
  <2>2. d1 \in Seq(Account)
    BY <1>1, <1>2, <2>1, InsertFacts
  <2>3. PICK i \in DOMAIN d1 : DataAt(d1, i)
    BY <1>1, <1>2, <2>1, InsertData
  <2>4. DataAt(d2, i)
    <3>1. CASE p[f].kind = "constructor"
      BY <1>2, <1>4, <2>2, <2>3, <3>1, InsertPlaces
    <3>2. CASE p[f].kind # "constructor"
      BY <1>4, <2>3, <3>2
    <3> QED BY <3>1, <3>2
  <2> QED BY <2>4 DEF DataAt, d2
<1>6. CASE ~Uses(p[f], {"load", "store"})
  <2>1. p[f].kind = "constructor"
    BY <1>6 DEF TouchesStorage
  <2>2. d2 = Insert(d0, A2)
    BY <1>3, <1>4, <1>6, <2>1
  <2> QED BY <1>1, <1>2, <2>2, InsertData DEF d2
<1> QED BY <1>5, <1>6

\* move_index puts the data account in front.
LEMMA FrontPlaces ==
  ASSUME NEW list \in Seq(Account), NEW i, DataAt(list, i)
  PROVE  DataAt(MoveToFront(list, i), 1)
<1> DEFINE new == MoveToFront(list, i)
<1>1. DOMAIN list = 1 .. Len(list) /\ Len(list) \in Nat
  OBVIOUS
<1>2. i \in 1 .. Len(list) /\ \A j \in 1 .. Len(list) : list[j].name = DataAccount <=> j = i
  BY <1>1 DEF DataAt
<1>3. DOMAIN new = 1 .. Len(list)
  BY <1>1 DEF MoveToFront
<1>4. \A j \in 1 .. Len(list) : new[j] = IF j = 1 THEN list[i] ELSE IF j <= i THEN list[j - 1] ELSE list[j]
  BY <1>1 DEF MoveToFront
<1> HIDE DEF new
<1>5. ASSUME NEW j \in 1 .. Len(list) PROVE new[j].name = DataAccount <=> j = 1
  <2>1. CASE j = 1
    BY <1>2, <1>4, <2>1
  <2>2. CASE j # 1 /\ j <= i
    <3>1. j - 1 \in 1 .. Len(list) /\ j - 1 # i /\ new[j] = list[j - 1]
      BY <1>1, <1>2, <1>4, <2>2
    <3> QED BY <1>2, <2>2, <3>1
  <2>3. CASE j # 1 /\ ~(j <= i)
    <3>1. j # i /\ new[j] = list[j]
      BY <1>1, <1>2, <1>4, <2>3
    <3> QED BY <1>2, <2>3, <3>1
  <2> QED BY <2>1, <2>2, <2>3
<1>6. 1 \in DOMAIN new
  BY <1>1, <1>2, <1>3
<1> QED BY <1>3, <1>5, <1>6 DEF DataAt, new

\* collect_accounts_from_contract does so for the functions of the IDL, and
\* leaves one data account to the others.
LEMMA DataFirstPlaces ==
  ASSUME NEW p, NEW f \in DOMAIN p, NEW list \in Seq(Account), NEW i, DataAt(list, i)
  PROVE  \E k \in DOMAIN DataFirst(p[f], list) :
           DataAt(DataFirst(p[f], list), k) /\ (Public(p[f]) /\ p[f].kind # "fallback" => k = 1)
<1> DEFINE idl == Public(p[f]) /\ p[f].kind # "fallback"
           front == IF idl /\ i # 0 THEN MoveToFront(list, i) ELSE list
           new == DataFirst(p[f], list)
           A == Generated(SystemAccount)
           payer == p[f].kind = "constructor" /\ p[f].payer
<1>1. IndexOf(list, DataAccount) = i
  BY DataAtIndex
<1>2. new = IF payer THEN Insert(front, A) ELSE front
  BY <1>1 DEF DataFirst
<1>3. i \in DOMAIN list /\ i # 0
  BY DEF DataAt
<1>4. A \in Account
  BY NameFacts, GeneratedFacts
<1> HIDE DEF A, new, payer
<1>5. PICK k : front \in Seq(Account) /\ DataAt(front, k) /\ (idl => k = 1)
  <2>1. CASE idl
    <3>1. front = MoveToFront(list, i)
      BY <1>3, <2>1
    <3> HIDE DEF front
    <3>2. front \in Seq(Account) /\ DataAt(front, 1)
      BY <1>3, <3>1, FrontFacts, FrontPlaces
    <3> QED BY <3>2
  <2>2. CASE ~idl
    BY <2>2
  <2> QED BY <2>1, <2>2
<1> HIDE DEF front, idl
<1>6. DataAt(new, k)
  <2>1. CASE payer
    BY <1>2, <1>4, <1>5, <2>1, InsertPlaces
  <2>2. CASE ~payer
    BY <1>2, <1>5, <2>2
  <2> QED BY <2>1, <2>2
<1>7. k \in DOMAIN new
  BY <1>6 DEF DataAt
<1> QED BY <1>5, <1>6, <1>7 DEF new, idl

\* It keeps all flags.
LEMMA DataFirstFlags ==
  ASSUME NEW p, NEW f \in DOMAIN p, NEW list \in Seq(Account)
  PROVE  KeepsFlags(list, DataFirst(p[f], list))
<1> DEFINE i == IndexOf(list, DataAccount)
           front == IF Public(p[f]) /\ p[f].kind # "fallback" /\ i # 0 THEN MoveToFront(list, i) ELSE list
           new == DataFirst(p[f], list)
           A == Generated(SystemAccount)
           payer == p[f].kind = "constructor" /\ p[f].payer
<1>1. new = IF payer THEN Insert(front, A) ELSE front
  BY DEF DataFirst
<1>2. A \in Account /\ A.name = SystemAccount
  BY NameFacts, GeneratedFacts
<1>3. i # 0 => i \in DOMAIN list
  BY IndexFacts
<1> HIDE DEF A, new, payer, i
<1>4. front \in Seq(Account) /\ KeepsFlags(list, front)
  <2>1. CASE front = list
    BY <2>1 DEF KeepsFlags
  <2>2. CASE front = MoveToFront(list, i) /\ i # 0
    <3> HIDE DEF front
    <3>1. front \in Seq(Account) /\ \A k \in DOMAIN list : \E j \in DOMAIN front : front[j] = list[k]
      BY <1>3, <2>2, FrontFacts
    <3> QED BY <3>1 DEF KeepsFlags
  <2> QED BY <2>1, <2>2
<1> HIDE DEF front
<1>5. CASE payer
  <2>1. KeepsFlags(front, new)
    BY <1>1, <1>2, <1>4, <1>5, InsertFlags
  <2> QED BY <1>4, <2>1, FlagsTwice DEF new
<1>6. CASE ~payer
  BY <1>1, <1>4, <1>6 DEF new
<1> QED BY <1>5, <1>6

\* Initially the functions have what semantic analysis gives them.
LEMMA PlacedInit == Init => StoragePlaced
<1> SUFFICES ASSUME Init PROVE StoragePlaced
  OBVIOUS
<1>1. /\ WellFormed(prog) /\ Current = accounts /\ stage = "start" /\ contract = 1
      /\ \A f \in DOMAIN prog : accounts[f] = SemaAccounts(prog, f)
  BY ProgramsWellFormed DEF Init, Current
<1>2. ASSUME NEW f \in DOMAIN prog PROVE ~Started(f)
  <2>1. prog[f].contract \in Nat \ {0}
    BY <1>1, FunctionFacts
  <2> QED BY <1>1, <2>1 DEF Started
<1>3. ASSUME NEW f \in DOMAIN prog, TouchesStorage(prog, f)
      PROVE  \E i \in DOMAIN Current[f] : DataAt(Current[f], i)
  BY <1>1, <1>3, SemaPlaces
<1> QED BY <1>2, <1>3 DEF StoragePlaced

\* Every step keeps the flags and, but for StartContract, leaves the data
\* account where it is.
LEMMA StepKeeps ==
  ASSUME TypeOK, [Next]_vars, NEW f \in DOMAIN prog
  PROVE  KeepsFlags(Current[f], Current'[f]) /\ (StartContract \/ Keeps(Current[f], Current'[f]))
<1>1. \A l1, l2 : Keeps(l1, l2) => KeepsFlags(l1, l2)
  BY DEF Keeps
<1>2. CASE StartContract
  <2> DEFINE mine == FunctionsOf(prog, contract)
             lists == [g \in DOMAIN prog |->
                         IF g \in Elements(mine) THEN DataFirst(prog[g], accounts[g]) ELSE accounts[g]]
  <2>1. /\ Current = accounts /\ Current' = work'.accounts
        /\ work' = [accounts |-> lists, next |-> <<>>, added |-> 0, errors |-> work.errors]
    BY <1>2 DEF StartContract, Current
  <2>2. Current'[f] = DataFirst(prog[f], accounts[f]) \/ Current'[f] = accounts[f]
    BY <2>1
  <2>3. accounts[f] \in Seq(Account)
    BY DEF TypeOK, Lists
  <2>4. KeepsFlags(accounts[f], DataFirst(prog[f], accounts[f])) /\ KeepsFlags(accounts[f], accounts[f])
    BY <1>1, <2>3, DataFirstFlags, KeepsSame
  <2> QED BY <1>2, <2>1, <2>2, <2>4
<1>3. CASE VisitFunction
  <2> DEFINE g == visiting[pos]
  <2>1. /\ Current = work.accounts /\ Current' = work'.accounts /\ work \in Works(prog)
        /\ work' = CheckFunction(prog, work, g)
    BY <1>3 DEF VisitFunction, Current, TypeOK
  <2>2. g \in DOMAIN prog /\ WellFormed(prog)
    BY <1>3, VisitFacts, ProgramFacts
  <2>3. f # g => work'.accounts[f] = work.accounts[f]
    BY <1>3, <2>1, <2>2, VisitFacts, VisitCounts
  <2> HIDE DEF g
  <2>4. Keeps(work.accounts[g], work'.accounts[g])
    BY <2>1, <2>2, CheckFunctionKeeps
  <2>5. Keeps(work.accounts[f], work'.accounts[f])
    BY <2>3, <2>4, KeepsSame
  <2> QED BY <1>1, <2>1, <2>5
<1>4. CASE Current'[f] = Current[f]
  BY <1>1, <1>4, KeepsSame
<1>5. CASE NextPass
  <2>1. /\ Current = work.accounts /\ Current' = work'.accounts /\ work \in Works(prog)
        /\ work' = [work EXCEPT !.next = <<>>]
    BY <1>5 DEF NextPass, Current, TypeOK
  <2>2. work'.accounts = work.accounts
    BY <2>1 DEF Works
  <2> QED BY <1>4, <2>1, <2>2
<1>6. CASE EndContract
  <2>1. Current = work.accounts /\ accounts' = work.accounts /\ stage' # "visit"
    BY <1>6 DEF EndContract, Current
  <2>2. Current' = accounts'
    BY <2>1 DEF Current
  <2> QED BY <1>4, <2>1, <2>2
<1>7. CASE ManageContract \/ UNCHANGED vars
  <2>1. Current' = Current
    BY <1>7 DEF ManageContract, Current, vars
  <2> QED BY <1>4, <2>1
<1> QED BY <1>2, <1>3, <1>5, <1>6, <1>7 DEF Next, Finished

\* A contract is started by StartContract only.
LEMMA StartedBefore ==
  ASSUME TypeOK, [Next]_vars, NEW f \in DOMAIN prog, Started(f)'
  PROVE  Started(f) \/ (StartContract /\ prog[f].contract = contract)
<1>1. prog' = prog
  BY StepFacts
<1>2. CASE StartContract
  <2>1. stage' = "visit" /\ contract' = contract
    BY <1>2 DEF StartContract
  <2> QED BY <1>1, <1>2, <2>1 DEF Started
<1>3. CASE EndContract
  <2>1. /\ stage = "visit"
        /\ \/ stage' = "start" /\ contract' = contract + 1
           \/ stage' = "manage" /\ ~(contract < NumContracts(prog))
    BY <1>3 DEF EndContract
  <2>2. /\ contract \in Nat \ {0} /\ NumContracts(prog) \in Nat /\ prog[f].contract \in Nat
        /\ prog[f].contract <= NumContracts(prog)
    BY ProgramFacts DEF TypeOK
  <2> DEFINE n == NumContracts(prog)
             c == prog[f].contract
  <2>3. c <= contract
    <3>1. CASE stage' = "start" /\ contract' = contract + 1
      <4>1. c < contract + 1
        BY <1>1, <3>1 DEF Started
      <4> HIDE DEF c
      <4> QED BY <2>2, <4>1 DEF c
    <3>2. CASE stage' = "manage" /\ ~(contract < n)
      <4> HIDE DEF c, n
      <4> QED BY <2>2, <3>2 DEF c, n
    <3> QED BY <2>1, <3>1, <3>2
  <2>4. c < contract \/ c = contract
    BY <2>2, <2>3
  <2> QED BY <2>1, <2>4 DEF Started
<1>4. CASE ManageContract
  BY <1>4 DEF ManageContract, Started
<1>5. CASE VisitFunction \/ NextPass \/ UNCHANGED vars
  <2>1. stage' = stage /\ contract' = contract
    BY <1>5 DEF VisitFunction, NextPass, vars
  <2> QED BY <1>1, <2>1 DEF Started
<1> QED BY <1>2, <1>3, <1>4, <1>5 DEF Next, Finished

\* One step.
LEMMA PlacedNext == TypeOK /\ StoragePlaced /\ [Next]_vars => StoragePlaced'
<1> SUFFICES ASSUME TypeOK, StoragePlaced, [Next]_vars PROVE StoragePlaced'
  OBVIOUS
<1>1. prog' = prog
  BY StepFacts
<1>2. \A f : InIdl(f)' = InIdl(f)
  BY <1>1 DEF InIdl
<1> SUFFICES ASSUME NEW f \in DOMAIN prog, TouchesStorage(prog, f)
             PROVE  \E i \in DOMAIN Current'[f] : DataAt(Current'[f], i) /\ (Started(f)' /\ InIdl(f) => i = 1)
  BY <1>1, <1>2 DEF StoragePlaced
<1>3. PICK i \in DOMAIN Current[f] : DataAt(Current[f], i) /\ (Started(f) /\ InIdl(f) => i = 1)
  BY DEF StoragePlaced
<1>4. CASE Keeps(Current[f], Current'[f]) /\ (Started(f)' => Started(f))
  <2>1. DataAt(Current'[f], i)
    BY <1>3, <1>4 DEF Keeps
  <2>2. i \in DOMAIN Current'[f]
    BY <2>1 DEF DataAt
  <2> QED BY <1>3, <1>4, <2>1, <2>2
<1>5. CASE StartContract
  <2> DEFINE mine == FunctionsOf(prog, contract)
             lists == [g \in DOMAIN prog |->
                         IF g \in Elements(mine) THEN DataFirst(prog[g], accounts[g]) ELSE accounts[g]]
  <2>1. /\ Current = accounts /\ Current' = work'.accounts
        /\ work' = [accounts |-> lists, next |-> <<>>, added |-> 0, errors |-> work.errors]
    BY <1>5 DEF StartContract, Current
  <2>2. Elements(mine) = Of(prog, contract)
    BY ProgramFacts, FunctionsOfFacts DEF TypeOK
  <2> HIDE DEF mine
  <2>3. Current'[f] = IF prog[f].contract = contract THEN DataFirst(prog[f], accounts[f]) ELSE accounts[f]
    BY <2>1, <2>2 DEF Of
  <2> HIDE DEF lists
  <2>4. CASE prog[f].contract = contract
    <3>1. Current'[f] = DataFirst(prog[f], accounts[f]) /\ accounts[f] \in Seq(Account) /\ DataAt(accounts[f], i)
      BY <1>3, <2>1, <2>3, <2>4 DEF TypeOK, Lists
    <3>2. PICK k \in DOMAIN DataFirst(prog[f], accounts[f]) :
            DataAt(DataFirst(prog[f], accounts[f]), k) /\ (Public(prog[f]) /\ prog[f].kind # "fallback" => k = 1)
      BY <3>1, DataFirstPlaces
    <3> QED BY <3>1, <3>2 DEF InIdl
  <2>5. CASE prog[f].contract # contract
    <3>1. Current'[f] = Current[f]
      BY <2>1, <2>3, <2>5
    <3>2. Started(f)' => Started(f)
      BY <2>5, StartedBefore
    <3> QED BY <1>4, <3>1, <3>2, KeepsSame
  <2> QED BY <2>4, <2>5
<1>6. CASE ~StartContract
  BY <1>4, <1>6, StepKeeps, StartedBefore
<1> QED BY <1>5, <1>6

\* What semantic analysis grants is there at first and never lost.
LEMMA GrantedAlways == Spec => []Granted
<1>1. Init => Granted
  <2> SUFFICES ASSUME Init PROVE Granted
    OBVIOUS
  <2>1. Current = accounts /\ \A f \in DOMAIN prog : accounts[f] = SemaAccounts(prog, f)
    BY DEF Init, Current
  <2> QED BY <2>1, KeepsSame DEF Keeps, Granted
<1>2. TypeOK /\ Granted /\ [Next]_vars => Granted'
  <2> SUFFICES ASSUME TypeOK, Granted, [Next]_vars PROVE Granted'
    OBVIOUS
  <2>1. prog' = prog
    BY StepFacts
  <2>2. ASSUME NEW f \in DOMAIN prog PROVE KeepsFlags(SemaAccounts(prog, f), Current'[f])
    <3>1. KeepsFlags(SemaAccounts(prog, f), Current[f])
      BY DEF Granted
    <3>2. KeepsFlags(Current[f], Current'[f])
      BY StepKeeps
    <3> QED BY <3>1, <3>2, FlagsTwice
  <2> QED BY <2>1, <2>2 DEF Granted
<1> QED BY <1>1, <1>2, TypeCorrect, PTL DEF Spec

\* The data account stays in front while the accounts of callees come in.
LEMMA PlacedAlways == Spec => []StoragePlaced
BY PlacedInit, PlacedNext, TypeCorrect, PTL DEF Spec

\* Of every function of the IDL that touches storage in its own body, and of
\* every constructor, the data account is the first account, for every program
\* and whatever accounts its callees have brought in: what
\* collect_accounts_from_contract moves to the front is not moved again.  At
\* run time storage is the first account.
THEOREM StorageIsFirst ==
  Spec => [](stage \in {"manage", "done"} =>
               \A f \in DOMAIN prog : InIdl(f) /\ TouchesStorage(prog, f) => IndexOf(accounts[f], DataAccount) = 1)
<1> DEFINE First == stage \in {"manage", "done"} =>
             \A f \in DOMAIN prog : InIdl(f) /\ TouchesStorage(prog, f) => IndexOf(accounts[f], DataAccount) = 1
<1>1. TypeOK /\ StoragePlaced => First
  <2> SUFFICES ASSUME TypeOK, StoragePlaced, stage \in {"manage", "done"}, NEW f \in DOMAIN prog,
                      InIdl(f), TouchesStorage(prog, f)
               PROVE  IndexOf(accounts[f], DataAccount) = 1
    OBVIOUS
  <2>1. Current = accounts /\ Started(f)
    BY DEF Current, Started
  <2>2. DataAt(accounts[f], 1)
    BY <2>1 DEF StoragePlaced
  <2>3. accounts[f] \in Seq(Account)
    BY DEF TypeOK, Lists
  <2> QED BY <2>2, <2>3, DataAtIndex
<1> QED BY <1>1, TypeCorrect, PlacedAlways, PTL

\* Semantic analysis lets a function that stores, and a constructor, write the
\* data account.
LEMMA SemaGrants ==
  ASSUME NEW p, WellFormed(p), NEW f \in DOMAIN p, Uses(p[f], {"store"}) \/ p[f].kind = "constructor"
  PROVE  \E i \in DOMAIN SemaAccounts(p, f) :
           SemaAccounts(p, f)[i].name = DataAccount /\ SemaAccounts(p, f)[i].writer
<1> DEFINE A1 == SolanaAccount(DataAccount, FALSE, Uses(p[f], {"store"}), TRUE, Codegen)
           A2 == SolanaAccount(DataAccount, p[f].payer /\ ~p[f].seed, TRUE, TRUE, Codegen)
           d0 == Declared(p, f)
           d1 == WithDataAccount(p[f], d0)
           d2 == SemaAccounts(p, f)
<1>1. d0 \in Seq(Account)
  BY DeclaredFacts
<1>2. /\ A1.name = DataAccount /\ (A1.writer <=> Uses(p[f], {"store"}))
      /\ A2.name = DataAccount /\ A2.writer
  BY DEF SolanaAccount
<1>3. A1 \in Account /\ A2 \in Account
  <2>1. DataAccount \in AccountNames /\ Codegen \in Int \X Int
    BY NameFacts DEF Codegen
  <2>2. Uses(p[f], {"store"}) \in BOOLEAN /\ (p[f].payer /\ ~p[f].seed) \in BOOLEAN
    BY DEF Uses
  <2> QED BY <2>1, <2>2 DEF SolanaAccount, Account
<1>4. d1 = IF Uses(p[f], {"load", "store"}) THEN Insert(d0, A1) ELSE d0
  BY DEF WithDataAccount
<1>5. d2 = IF p[f].kind = "constructor" THEN Insert(d1, A2) ELSE d1
  BY DEF SemaAccounts
<1>6. Uses(p[f], {"store"}) => Uses(p[f], {"load", "store"})
  BY DEF Uses
<1>7. ASSUME NEW list \in Seq(Account), NEW a \in Account
      PROVE  \E i \in DOMAIN Insert(list, a) : Insert(list, a)[i] = a
  <2> DEFINE k == IndexOf(list, a.name)
             new == Insert(list, a)
  <2>1. CASE k = 0
    <3>1. new = Append(list, a)
      BY <2>1 DEF Insert
    <3>2. Len(list) + 1 \in DOMAIN new /\ new[Len(list) + 1] = a
      BY <3>1
    <3> QED BY <3>2
  <2>2. CASE k # 0
    <3>1. new = [list EXCEPT ![k] = a]
      BY <2>2 DEF Insert
    <3>2. k \in DOMAIN list
      BY <2>2, IndexFacts
    <3> HIDE DEF k
    <3>3. k \in DOMAIN new /\ new[k] = a
      BY <3>1, <3>2
    <3> QED BY <3>3
  <2> QED BY <2>1, <2>2
<1> HIDE DEF A1, A2, d0, d1, d2
<1>8. d1 \in Seq(Account)
  BY <1>1, <1>3, <1>4, InsertFacts
<1>9. CASE p[f].kind = "constructor"
  <2>1. d2 = Insert(d1, A2)
    BY <1>5, <1>9
  <2>2. PICK i \in DOMAIN d2 : d2[i] = A2
    BY <1>3, <1>7, <1>8, <2>1
  <2> QED BY <1>2, <2>2 DEF d2
<1>10. CASE p[f].kind # "constructor"
  <2>1. Uses(p[f], {"store"})
    BY <1>10
  <2>2. d2 = Insert(d0, A1)
    BY <1>4, <1>5, <1>6, <1>10, <2>1
  <2>3. PICK i \in DOMAIN d2 : d2[i] = A1
    BY <1>1, <1>3, <1>7, <2>2
  <2> QED BY <1>2, <2>1, <2>3 DEF d2
<1> QED BY <1>9, <1>10

\* A client that follows the IDL can run a function that stores, and a
\* constructor: the first account is the data account and is writable, for
\* every program, whatever a callee that only reads says of the same account
\* (add_account adds flags up).
THEOREM StorageIsWritable ==
  Spec => [](stage \in {"manage", "done"} =>
               \A f \in DOMAIN prog :
                 InIdl(f) /\ (Uses(prog[f], {"store"}) \/ prog[f].kind = "constructor") =>
                   1 \in DOMAIN accounts[f] /\ accounts[f][1].name = DataAccount /\ accounts[f][1].writer)
<1>1. TypeOK /\ StoragePlaced /\ Granted =>
        (stage \in {"manage", "done"} =>
           \A f \in DOMAIN prog :
             InIdl(f) /\ (Uses(prog[f], {"store"}) \/ prog[f].kind = "constructor") =>
               1 \in DOMAIN accounts[f] /\ accounts[f][1].name = DataAccount /\ accounts[f][1].writer)
  <2> SUFFICES ASSUME TypeOK, StoragePlaced, Granted, stage \in {"manage", "done"}, NEW f \in DOMAIN prog,
                      InIdl(f), Uses(prog[f], {"store"}) \/ prog[f].kind = "constructor"
               PROVE  1 \in DOMAIN accounts[f] /\ accounts[f][1].name = DataAccount /\ accounts[f][1].writer
    OBVIOUS
  <2>1. Current = accounts /\ Started(f) /\ TouchesStorage(prog, f)
    BY DEF Current, Started, TouchesStorage, Uses
  <2>2. DataAt(accounts[f], 1)
    BY <2>1 DEF StoragePlaced
  <2> DEFINE sema == SemaAccounts(prog, f)
  <2>3. PICK i \in DOMAIN sema : sema[i].name = DataAccount /\ sema[i].writer
    BY ProgramFacts, SemaGrants
  <2>4. KeepsFlags(sema, accounts[f])
    BY <2>1 DEF Granted
  <2>5. SystemAccount # DataAccount
    BY NameFacts
  <2> HIDE DEF sema
  <2>6. PICK j \in DOMAIN accounts[f] : accounts[f][j].name = DataAccount /\ accounts[f][j].writer
    BY <2>3, <2>4, <2>5 DEF KeepsFlags
  <2> QED BY <2>2, <2>6 DEF DataAt
<1> QED BY <1>1, TypeCorrect, PlacedAlways, GrantedAlways, PTL

\* A need of the data account of a function's own.
LEMMA OwnDataNeeded ==
  ASSUME NEW p, WellFormed(p), NEW f \in DOMAIN p, NEW x \in OwnNeeds(p, f), x.name = DataAccount
  PROVE  TouchesStorage(p, f)
<1> DEFINE body == Elements(p[f].body)
<1>1. \A ins \in body : InstructionOK(p, f, ins)
  BY InstructionFacts DEF Elements
<1>2. \A d \in Elements(p[f].declared) : d.name \in DeclaredNames
  <2> DEFINE S == [name : DeclaredNames, signer : BOOLEAN, writer : BOOLEAN]
  <2>1. p[f].declared \in Seq(S)
    BY FunctionFacts
  <2> HIDE DEF S
  <2>2. \A i \in DOMAIN p[f].declared : p[f].declared[i] \in S
    BY <2>1
  <2> QED BY <2>2 DEF Elements, S
<1>3. \A n : Need(n, FALSE, FALSE).name = n /\ Need(n, FALSE, TRUE).name = n
  BY DEF Need
<1>4. CASE \E d \in Elements(p[f].declared) : x = Need(d.name, d.signer, d.writer)
  BY <1>2, <1>4, NameFacts DEF Need
<1>5. CASE \E ins \in body : ins.op \in {"load", "store"}
  BY <1>5 DEF TouchesStorage, Uses, Elements
<1>6. CASE \E ins \in body : ins.op \in DOMAIN BuiltinAccount /\ x = Need(BuiltinAccount[ins.op], FALSE, FALSE)
  <2>1. \A op \in DOMAIN BuiltinAccount : BuiltinAccount[op] # DataAccount
    BY DEF BuiltinAccount, DataAccount, ClockAccount, InstructionAccount, SystemAccount
  <2>2. PICK ins \in body : ins.op \in DOMAIN BuiltinAccount /\ x = Need(BuiltinAccount[ins.op], FALSE, FALSE)
    BY <1>6
  <2>3. x.name = BuiltinAccount[ins.op]
    BY <1>3, <2>2
  <2> QED BY <2>1, <2>2, <2>3
<1>7. CASE x = Need(SystemAccount, FALSE, FALSE)
  BY <1>3, <1>7, NameFacts
<1>8. CASE \E c : x = Need(ProgramId(c), FALSE, FALSE)
  <2>1. \A c : ProgramId(c) # DataAccount
    BY DEF ProgramId, DataAccount
  <2> QED BY <1>3, <1>8, <2>1
<1>9. CASE \E ins \in body : ins.op = "new" /\ x = Need(DataOf(ins.c), FALSE, TRUE)
  <2>1. PICK ins \in body : ins.op = "new" /\ x = Need(DataOf(ins.c), FALSE, TRUE)
    BY <1>9
  <2>2. InstructionOK(p, f, ins) /\ x.name = DataOf(ins.c)
    BY <1>1, <1>3, <2>1
  <2>3. ins.c \in Nat \ {0}
    BY <2>1, <2>2 DEF InstructionOK
  <2> QED BY <2>2, <2>3, NameFacts
<1>10. CASE p[f].kind = "constructor"
  BY <1>10 DEF TouchesStorage
<1> QED BY <1>4, <1>5, <1>6, <1>7, <1>8, <1>9, <1>10 DEF OwnNeeds

\* A function that has a need of the data account reaches, within its
\* contract, one that touches storage.
LEMMA DataNeeded ==
  ASSUME NEW p, WellFormed(p), NEW f \in DOMAIN p, NEW n \in Needs(p)[f], n.name = DataAccount
  PROVE  \E g \in DOMAIN p : <<f, g>> \in Within(p) /\ TouchesStorage(p, g)
<1>1. NeedsHere(p, f, n) \/ NeedsAcross(p, f, n)
  BY NeedsDef
<1>2. CASE NeedsAcross(p, f, n)
  <2>1. PICK g \in DOMAIN p : \E y \in OwnNeeds(p, g) : n = Renamed(y, p[g].contract)
    BY <1>2 DEF NeedsAcross
  <2>2. PICK m \in OwnNeeds(p, g) : n = Renamed(m, p[g].contract)
    BY <2>1
  <2>3. m \in Needed /\ p[g].contract \in Nat \ {0}
    BY <2>2, OwnNeedsType, FunctionFacts
  <2>4. n.name = NameIn(m.name, p[g].contract)
    BY <2>2, <2>3, RenamedFacts
  <2>5. m.name \in AccountNames
    BY <2>3 DEF Needed
  <2> QED BY <2>3, <2>4, <2>5, NameInFacts
<1>3. CASE NeedsHere(p, f, n)
  <2>1. PICK g \in DOMAIN p : <<f, g>> \in Within(p) /\ n \in OwnNeeds(p, g)
    BY <1>3 DEF NeedsHere
  <2>2. TouchesStorage(p, g)
    BY <2>1, OwnDataNeeded
  <2> QED BY <2>1, <2>2
<1> QED BY <1>1, <1>2, <1>3

\* If every function of the IDL that reaches storage touches it itself, none
\* lists the data account anywhere but first: the collection brings it to no
\* other.
THEOREM StorageNeverBehind ==
  Spec => [](StorageAtHand(prog) /\ stage = "done" => DataAccountFirst)
<1> DEFINE First == stage \in {"manage", "done"} =>
             \A f \in DOMAIN prog : InIdl(f) /\ TouchesStorage(prog, f) => IndexOf(accounts[f], DataAccount) = 1
           Goal == StorageAtHand(prog) /\ stage = "done" => DataAccountFirst
<1>1. TypeOK /\ AllJustified /\ First => Goal
  <2> SUFFICES ASSUME TypeOK, AllJustified, First, StorageAtHand(prog), stage = "done",
                      NEW f \in DOMAIN prog, InIdl(f)
               PROVE  IndexOf(accounts[f], DataAccount) \in {0, 1}
    BY DEF DataAccountFirst
  <2> DEFINE i == IndexOf(accounts[f], DataAccount)
  <2>1. CASE TouchesStorage(prog, f)
    BY <2>1
  <2>2. CASE ~TouchesStorage(prog, f)
    <3> SUFFICES ASSUME i # 0 PROVE FALSE
      OBVIOUS
    <3>1. Current = accounts /\ accounts[f] \in Seq(Account) /\ WellFormed(prog)
      BY ProgramFacts DEF Current, TypeOK, Lists
    <3>2. i \in DOMAIN accounts[f] /\ accounts[f][i].name = DataAccount
      BY <3>1, IndexFacts
    <3>3. Justified(Needs(prog)[f], accounts[f][i])
      BY <3>1, <3>2 DEF AllJustified
    <3> HIDE DEF i
    <3>4. PICK n \in Needs(prog)[f] : n.name = DataAccount
      BY <3>2, <3>3 DEF Justified
    <3>5. PICK g \in DOMAIN prog : <<f, g>> \in Within(prog) /\ TouchesStorage(prog, g)
      BY <3>1, <3>4, DataNeeded
    <3> QED BY <2>2, <3>5 DEF StorageAtHand, InIdl
  <2> QED BY <2>1, <2>2
<1>2. Spec => []First
  BY StorageIsFirst DEF First
<1> HIDE DEF First, Goal
<1>3. Spec => []Goal
  BY <1>1, <1>2, TypeCorrect, NothingSuperfluous, PTL
<1> QED BY <1>3 DEF Goal
=============================================================================
