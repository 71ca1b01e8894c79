---------------------------- MODULE Inheritance ----------------------------
(***************************************************************************)
(* Contracts and their bases: how semantic analysis resolves base          *)
(* contracts, overriding, calls, modifiers, base constructor arguments and *)
(* contract creation (src/src/sema/contracts.rs, functions.rs,             *)
(* expression/{function_call,constructor}.rs, external_functions.rs), in   *)
(* which order codegen visits the contracts (src/src/codegen/mod.rs), and  *)
(* what the generated constructors, modifiers and calls run                *)
(* (src/src/codegen/cfg.rs).                                               *)
(*                                                                         *)
(* A program is a sequence of contracts as the parser gives them.  Types   *)
(* are reduced to the number of parameters, 0 or 1; an expression is a     *)
(* literal, the parameter or the parameter plus one.  An error ends the    *)
(* phase it is found in, and the compiler with it: what comes after could  *)
(* only add other diagnostics.  Bodies are all resolved, as the contracts  *)
(* they create are recorded even where there are errors.                   *)
(***************************************************************************)
EXTENDS Integers, Sequences, FiniteSets, SequencesExt

CONSTANTS Sources,   \* pairs of a program and a target, "solana" or "polkadot"
          Names,     \* function and modifier names
          Fuel       \* the deepest nesting of calls that is followed

VARIABLES prog, target,
          phase,      \* what the compiler is doing
          pos,        \* and to which contract
          bases,      \* Contract::bases: the contract, its constructor (0: none) and arguments
          funcs,      \* Namespace::functions
          own,        \* Contract::functions
          all,        \* the keys of Contract::all_functions
          virt,       \* Contract::virtual_functions
          creates,    \* Contract::creates
          inits,      \* the resolved initializer of the contract's state variable
          done,       \* contracts_done
          trace       \* what the deployed contract ran

vars == <<prog, target, phase, pos, bases, funcs, own, all, virt, creates, inits, done, trace>>

Contracts    == DOMAIN prog
Concrete(c)  == prog[c].kind = "contract"
Interface(c) == prog[c].kind = "interface"
Library(c)   == prog[c].kind = "library"

(* The name of a constructor, a fallback or a receive is a keyword.        *)
Signatures == (Names \union {"new", "@fallback", "@receive"}) \X {0, 1}
Sig(f)     == <<f.name, f.arity>>
Public(f)  == f.vis \in {"public", "external"}

Lit(n)   == [k |-> "lit", n |-> n]
Arg      == [k |-> "arg", n |-> 0]
ArgPlus  == [k |-> "arg", n |-> 1]
Value(e, arg) == IF e.k = "lit" THEN e.n ELSE arg + e.n

Least(S) == CHOOSE x \in S : \A y \in S : x <= y
Ascending(S) == [i \in 1 .. Cardinality(S) |-> CHOOSE x \in S : Cardinality({y \in S : y <= x}) = i]
The(S) == CHOOSE x \in S : TRUE
Concat(seqs) == The({FlattenSeq(s) : s \in {seqs}})

-----------------------------------------------------------------------------
(* Base contracts.                                                         *)

RECURSIVE IsBaseIn(_, _, _)
IsBaseIn(b, d, bs) ==
  b = d \/ \E i \in DOMAIN bs[d] : bs[d][i].no = b \/ IsBaseIn(b, bs[d][i].no, bs)

is_base(b, d) == IsBaseIn(b, d, bases)

(* One clause of `contract c is ...`; acc is the lists so far and whether  *)
(* there was an error.                                                     *)
AddBase(acc, c, clause) ==
  IF \/ Library(c) \/ clause.no = c
     \/ \E i \in DOMAIN acc.bs[c] : acc.bs[c][i].no = clause.no
     \/ IsBaseIn(c, clause.no, acc.bs)
     \/ Interface(c) /\ ~Interface(clause.no)
     \/ Library(clause.no)
  THEN [acc EXCEPT !.err = TRUE]
  ELSE [acc EXCEPT !.bs[c] = Append(@, [no |-> clause.no, ctor |-> 0, args |-> <<>>])]

(* contract_bases: depth first, the last base first, a contract after its  *)
(* bases.                                                                  *)
RECURSIVE BasesBelow_PreOrder(_, _)
BasesBelow_PreOrder(order, c) ==
  FoldLeft(LAMBDA o, b : BasesBelow_PreOrder(o, b.no),
           IF c \in ToSet(order) THEN order ELSE Append(order, c), Reverse(bases[c]))

RECURSIVE BasesBelow(_, _)
BasesBelow(order, c) ==
  LET below == FoldLeft(LAMBDA o, b : The({BasesBelow(p, b.no) : p \in {o}}), order, Reverse(bases[c]))
  IN  IF c \in ToSet(below) THEN below ELSE Append(below, c)

contract_bases(c) == BasesBelow(<<>>, c)

-----------------------------------------------------------------------------
(* Declarations.                                                           *)

Virtual(c, p) == p.virt \/ Interface(c)

(* The checks of contract_function on one declaration: its attributes and  *)
(* visibility, what an interface or a library may hold, and constructors,  *)
(* fallback and receive among the functions before it, sofar.              *)
BadAttributes(c, p) ==
  \/ p.ty \notin {"constructor", "function"} /\ p.attrs # <<>>
  \/ \E i \in DOMAIN p.over : \/ ~IsInjective(p.over[i])
                              \/ \E j \in DOMAIN p.over[i] : ~is_base(p.over[i][j], c)

BadVisibility(p) ==
  \/ p.ty = "modifier" /\ p.vis # "internal"
  \/ ~Public(p) /\ p.mut = "payable"

BadForKind(c, p) ==
  \/ Interface(c) /\ (p.ty = "constructor" \/ p.body # <<>> \/ p.vis # "external")
  \/ Library(c) /\ \/ p.ty \notin {"function", "modifier"} \/ p.body = <<>>
                   \/ p.over # <<>> \/ p.mut = "payable" \/ p.virt
  \/ p.ty = "constructor" /\ p.virt
  \/ ~Virtual(c, p) /\ p.body = <<>>
  \/ p.vis = "private" /\ Virtual(c, p)

BadConstructor(p, sofar) ==
  /\ p.ty = "constructor"
  /\ \/ p.mut \in {"pure", "view"}
     \/ \E f \in sofar : /\ f.ty = "constructor"
                         /\ Sig(f) = Sig(p) \/ ((f.mut = "payable") # (p.mut = "payable"))

BadDefault(p, sofar) ==
  /\ p.ty \in {"fallback", "receive"}
  /\ \/ p.arity > 0 \/ p.vis # "external"
     \/ p.ty = "receive" /\ (target = "solana" \/ p.mut # "payable")
     \/ p.ty = "fallback" /\ p.mut = "payable"
     \/ \E f \in sofar : f.ty = p.ty

BadDeclaration(c, p, sofar) ==
  \/ BadAttributes(c, p) \/ BadVisibility(p) \/ BadForKind(c, p)
  \/ BadConstructor(p, sofar) \/ BadDefault(p, sofar)
  \/ Concrete(c) /\ p.body = <<>>

Declared(c, p) ==
  [contract |-> c, ty |-> p.ty, name |-> p.name, arity |-> p.arity, vis |-> p.vis, mut |-> p.mut,
   virt |-> Virtual(c, p), over |-> p.over, sel |-> p.sel, hasBody |-> p.body # <<>>, source |-> p,
   bases |-> <<>>, mods |-> <<>>, calls |-> <<>>, creates |-> <<>>]

Constructors(c) == SelectSeq(own[c], LAMBDA f : funcs[f].ty = "constructor")
NoArgsConstructor(c) ==
  LET ks == SelectSeq(Constructors(c), LAMBDA f : funcs[f].arity = 0)
  IN  IF ks = <<>> THEN 0 ELSE ks[1]
NeedsArguments(c) == Constructors(c) # <<>> /\ NoArgsConstructor(c) = 0

(* match_constructor_to_args: the constructor, 0 for a default one, or -1. *)
MatchConstructor(c, args) ==
  LET ks == SelectSeq(Constructors(c), LAMBDA f : funcs[f].arity = Len(args))
  IN  IF Len(ks) = 1 THEN ks[1] ELSE IF Constructors(c) = <<>> /\ args = <<>> THEN 0 ELSE -1

-----------------------------------------------------------------------------
(* check_inheritance.  The accumulator is override_needed, the tables that *)
(* are filled, and whether there was an error.                             *)

MutRank(m) == CASE m = "pure" -> 0 [] m = "view" -> 1 [] m = "nonpayable" -> 2 [] m = "payable" -> 3

(* base_function_compatible: a stricter mutability may replace a laxer one. *)
Compatible(base, f) ==
  /\ MutRank(f.mut) <= MutRank(base.mut)
  /\ (Public(f) /\ Public(base)) \/ f.vis = base.vis
  /\ f.sel = base.sel

AddFunction(acc, f) ==
  [acc EXCEPT !.all = @ \union {f},
              !.virt[Sig(funcs[f])] = IF funcs[f].over # <<>> \/ funcs[f].virt THEN Append(@, f) ELSE @]

(* A function whose signature is in override_needed.                       *)
Overrides(acc, f) ==
  LET cur     == funcs[f]
      entry   == acc.needed[Sig(cur)]
      needed  == {entry[i][1] : i \in DOMAIN entry}
      listed  == UNION {ToSet(cur.over[i]) : i \in DOMAIN cur.over}
      badList == IF listed = {} /\ Len(entry) > 1 THEN TRUE
                 ELSE (Cardinality(needed) >= 2 /\ ~(needed \subseteq listed)) \/ ~(listed \subseteq needed)
      settled == cur.over # <<>> \/ Len(entry) = 1
      bad     == \/ \E i \in DOMAIN entry : ~funcs[entry[i][2]].virt
                 \/ cur.over # <<>> /\ badList
                 \/ settled /\ \E i \in DOMAIN entry : ~Compatible(funcs[entry[i][2]], cur)
                 \/ cur.over = <<>> /\ Len(entry) = 1 /\ ~Interface(entry[1][1])
                 \/ ~settled
  IN  AddFunction([acc EXCEPT !.err = @ \/ bad, !.needed[Sig(cur)] = IF settled THEN <<>> ELSE @], f)

(* A function with a definition p in a contract before it.                 *)
Redefines_NotVirtual(acc, f, p) ==
  LET cur == funcs[f]
      bad == \/ funcs[p].contract = cur.contract \/ funcs[p].ty # cur.ty
             \/ ~Compatible(funcs[p], cur)
             \/ cur.over # <<>> /\ cur.over[1] # <<>> /\ funcs[p].contract \notin ToSet(cur.over[1])
  IN  IF bad \/ cur.over # <<>> \/ ~cur.hasBody THEN [acc EXCEPT !.err = @ \/ bad]
      ELSE [acc EXCEPT !.needed[Sig(cur)] =
              IF @ = <<>> THEN <<<<funcs[p].contract, p>>, <<cur.contract, f>>>> ELSE Append(@, <<cur.contract, f>>)]

Redefines(acc, f, p) ==
  LET cur == funcs[f]
      bad == \/ funcs[p].contract = cur.contract \/ funcs[p].ty # cur.ty
             \/ ~Compatible(funcs[p], cur)
             \/ cur.over # <<>> /\ \/ ~funcs[p].virt
                                   \/ cur.over[1] # <<>> /\ funcs[p].contract \notin ToSet(cur.over[1])
  IN  IF bad \/ cur.over # <<>> \/ ~cur.hasBody THEN [acc EXCEPT !.err = @ \/ bad]
      ELSE [acc EXCEPT !.needed[Sig(cur)] =
              IF @ = <<>> THEN <<<<funcs[p].contract, p>>, <<cur.contract, f>>>> ELSE Append(@, <<cur.contract, f>>)]

InheritFunction(acc, c, f) ==
  LET cur  == funcs[f]
      prev == {p \in acc.all : funcs[p].ty # "constructor" /\ Sig(funcs[p]) = Sig(cur)}
  IN  IF acc.needed[Sig(cur)] # <<>> THEN Overrides(acc, f)
      ELSE IF prev = {} /\ cur.over # <<>> THEN [acc EXCEPT !.err = TRUE]
      ELSE IF prev = {} /\ ~cur.hasBody /\ Concrete(c)
           THEN [acc EXCEPT !.needed[Sig(cur)] = <<<<cur.contract, f>>>>]
      ELSE AddFunction(FoldLeft(LAMBDA a, p : The({Redefines(b, f, p) : b \in {a}}), acc, Ascending(prev)), f)

Inherited(c, order) ==
  FoldLeft(LAMBDA acc, f : The({InheritFunction(a, c, f) : a \in {acc}}),
           [needed |-> [s \in Signatures |-> <<>>], all |-> {}, virt |-> [s \in Signatures |-> <<>>], err |-> FALSE],
           Concat([i \in 1 .. Len(order) |-> own[order[i]]]))

(* What is left in override_needed.                                        *)
Unsettled(c, needed) ==
  \E s \in Signatures : needed[s] # <<>> /\ ~(funcs[needed[s][1][2]].virt /\ ~Concrete(c))

(* Mangled names, selectors: explicit, or the hash of an image.            *)
Mangled(c, f, fs) ==
  LET Named(g) == funcs[g].over = <<>> /\ Public(funcs[g]) /\ funcs[g].name = funcs[f].name
  IN  Named(f) /\ \E g \in fs \ {f} : Named(g)

Selector(c, f, fs) ==
  IF funcs[f].sel # 0 THEN <<"explicit", "", funcs[f].sel>>
  ELSE IF target = "solana"
       THEN IF funcs[f].ty = "constructor" THEN <<"discriminator", "new", -1>>
            ELSE <<"discriminator", funcs[f].name, IF Mangled(c, f, fs) THEN funcs[f].arity ELSE -1>>
       ELSE <<"signature", funcs[f].name, funcs[f].arity>>

(* verify_unique_selector compares with the first holder of the selector.  *)
SelectorClash(c, fs) ==
  \E f \in fs : LET other == Least({g \in fs : Selector(c, g, fs) = Selector(c, f, fs)})
                IN  /\ Sig(funcs[other]) # Sig(funcs[f]) /\ funcs[f].ty # "constructor"
                    /\ Public(funcs[f]) /\ Public(funcs[other])

(* polkadot_requires_public_functions, unique_constructor_names.           *)
NothingToCall(c, fs) ==
  /\ target = "polkadot" /\ Concrete(c)
  /\ ~\E f \in fs : \/ funcs[f].ty = "function" /\ Public(funcs[f])
                    \/ funcs[f].ty \in {"fallback", "receive"}

SameNameTwice(c) ==
  \E f, g \in ToSet(own[c]) : f # g /\ Public(funcs[f]) /\ Public(funcs[g]) /\ Sig(funcs[f]) = Sig(funcs[g])

-----------------------------------------------------------------------------
(* Calls.                                                                  *)

(* available_functions: of a virtual function the most overridden.         *)
AvailableFunctions(name, c) ==
  Ascending({f \in all[c] : /\ funcs[f].name = name
                            /\ funcs[f].virt => Last(virt[c][Sig(funcs[f])]) = f
                            /\ funcs[f].hasBody \/ (funcs[f].virt /\ ~Concrete(c))})

(* available_super_functions: the functions of each base, from the first   *)
(* one; of virtual ones the first with a signature.  One that is not       *)
(* virtual is listed with every base that has it.                          *)
AvailableSuperFunctions(name, c) ==
  LET Named(b)  == Ascending({f \in all[b] : funcs[f].name = name /\ funcs[f].hasBody})
      order     == SelectSeq(Reverse(contract_bases(c)), LAMBDA b : b # c)
      Hidden(found, j) == \E h \in 1 .. j - 1 : funcs[found[h]].virt /\ Sig(funcs[found[h]]) = Sig(funcs[found[j]])
      Shown(found) == LET at == Ascending({i \in DOMAIN found : funcs[found[i]].virt => ~Hidden(found, i)})
                      IN  [k \in DOMAIN at |-> found[at[k]]]
  IN  The({Shown(found) : found \in {Concat([i \in DOMAIN bs |-> Named(bs[i])]) : bs \in {order}}})

(* resolve_internal_call: f may be called from contract c.                 *)
Callable(f, c) ==
  /\ funcs[f].contract = c \/ funcs[f].vis # "private"
  /\ ~(is_base(funcs[f].contract, c) /\ funcs[f].vis = "external")

NoCall == [op |-> "none", fn |-> 0, sig |-> <<>>, args |-> <<>>]

(* function_call_pos_args: exactly one candidate fits.                     *)
Resolve(candidates, ty, args, virtual, c) ==
  LET fit == SelectSeq(candidates, LAMBDA g : funcs[g].ty = ty /\ funcs[g].arity = Len(args) /\ Callable(g, c))
      f   == fit[1]
  IN  IF Len(fit) # 1 THEN NoCall
      ELSE [op |-> "call", fn |-> f, args |-> args,
            sig |-> IF virtual /\ (funcs[f].virt \/ funcs[f].over # <<>>) THEN <<Sig(funcs[f])>> ELSE <<>>]

(* try_namespace: super.f(), and C.f() for a library or a base.            *)
ThroughNamespace(st, c) ==
  IF st.op = "super" THEN Resolve(AvailableSuperFunctions(st.name, c), "function", st.args, FALSE, c)
  ELSE IF Library(st.c) THEN Resolve(AvailableFunctions(st.name, st.c), "function", st.args, TRUE, c)
  ELSE IF is_base(st.c, c) THEN Resolve(AvailableFunctions(st.name, st.c), "function", st.args, FALSE, c)
  ELSE NoCall

(* function_call_expr.                                                     *)
ResolveStatement(st, c) ==
  CASE st.op = "call"            -> Resolve(AvailableFunctions(st.name, c), "function", st.args, TRUE, c)
    [] st.op \in {"super", "at"} -> ThroughNamespace(st, c)
    [] OTHER                     -> [NoCall EXCEPT !.op = st.op]

(* circular_reference: does one contract create the other, also through    *)
(* others?  The walk does not remember where it was, so one that meets a   *)
(* cycle before the contract it looks for never ends, and the stack        *)
(* overflows: it is "endless" once it is deeper than there are contracts.  *)
RECURSIVE Creates(_, _, _, _)
Creates(from, to, cs, deeper) ==
  IF to \in ToSet(cs[from]) THEN "yes"
  ELSE IF deeper = 0 THEN "endless"
  ELSE LET below == SelectSeq([i \in DOMAIN cs[from] |-> Creates(cs[from][i], to, cs, deeper - 1)], LAMBDA r : r # "no")
       IN  IF below = <<>> THEN "no" ELSE below[1]

CircularReference_Direct(from, to, cs) == IF to \in ToSet(cs[from]) THEN "yes" ELSE "no"

CircularReference(from, to, cs) == Creates(from, to, cs, Len(prog))

Include(seq, x) == IF x \in ToSet(seq) THEN seq ELSE Append(seq, x)

NewCall(st) == [op |-> "new", fn |-> MatchConstructor(st.c, st.args), sig |-> <<>>, args |-> st.args]

(* `new C(..)`: refused before the contract is recorded.                   *)
AddNew(acc, c, st) ==
  LET circular == CircularReference(st.c, c, acc.creates)
  IN  IF ~Concrete(st.c) \/ st.c = c \/ circular = "yes" THEN [acc EXCEPT !.err = TRUE, !.stop = TRUE]
      ELSE IF circular = "endless" THEN [acc EXCEPT !.lost = TRUE, !.stop = TRUE]
      ELSE [acc EXCEPT !.calls = Append(@, NewCall(st)), !.creates[c] = Include(@, st.c),
                       !.made = Append(@, st.c), !.err = @ \/ NewCall(st).fn = -1, !.stop = NewCall(st).fn = -1]

(* solana_constructor_check records the contract whatever it finds, and    *)
(* the function does not know that it creates one.                         *)
SolanaConstructorCheck(acc, c, no) ==
  LET circular == CircularReference(no, c, acc.creates)
  IN  [acc EXCEPT !.creates[c] = Include(@, no), !.err = @ \/ ~Concrete(no) \/ circular = "yes",
                  !.lost = circular = "endless", !.stop = circular = "endless"]

(* `C.new(..)`, the way to create a contract on Solana.  Of a base, the    *)
(* contract itself included, it is a call of a function of that name,      *)
(* which there is none of, unless call arguments are given in braces.      *)
AddSolanaNew(acc, c, st) ==
  LET new     == NewCall(st)
      checked == SolanaConstructorCheck(acc, c, st.c)
  IN  IF target # "solana" \/ Library(st.c) \/ (is_base(st.c, c) /\ st.op = "C.new")
      THEN [acc EXCEPT !.err = TRUE, !.stop = TRUE]
      ELSE [checked EXCEPT !.calls = Append(@, new), !.err = @ \/ new.fn = -1, !.stop = @ \/ new.fn = -1]

(* One statement of a function; acc holds the calls, the creates, whether  *)
(* there was an error, whether the function was given up at it and whether *)
(* circular_reference did not end.                                         *)
AddStatement(acc, c, st) ==
  LET call == ResolveStatement(st, c)
  IN  CASE acc.stop -> acc
        [] ~acc.stop /\ st.op = "new" -> AddNew(acc, c, st)
        [] ~acc.stop /\ st.op \in {"C.new", "C.new{}"} -> AddSolanaNew(acc, c, st)
        [] OTHER -> [acc EXCEPT !.calls = Append(@, call), !.err = @ \/ call.op = "none", !.stop = call.op = "none"]

(* The bases named on a constructor and the modifiers of a function.       *)
ConstructorBases(f) ==
  SelectSeq([i \in DOMAIN f.source.attrs |->
               [no |-> f.source.attrs[i].no, args |-> f.source.attrs[i].args,
                ctor |-> MatchConstructor(f.source.attrs[i].no, f.source.attrs[i].args)]],
            LAMBDA b : b.ctor > 0)

BadConstructorBases(f, c) ==
  LET at == f.source.attrs
  IN  \/ \E i \in DOMAIN at : at[i].no = c \/ ~is_base(at[i].no, c) \/ MatchConstructor(at[i].no, at[i].args) = -1
      \/ \E i, j \in DOMAIN at : i # j /\ at[i].no = at[j].no
      \/ Concrete(c) /\ \E i \in DOMAIN bases[c] :
           /\ bases[c][i].ctor = 0 /\ NeedsArguments(bases[c][i].no)
           /\ ~\E j \in DOMAIN at : at[j].no = bases[c][i].no

Modifiers(f, c) ==
  [i \in DOMAIN f.source.attrs |->
     Resolve(AvailableFunctions(f.source.attrs[i].name, c), "modifier", f.source.attrs[i].args, TRUE, c)]

(* resolve_function_body.                                                  *)
ResolveBody(acc, f) ==
  LET fn   == funcs[f]
      c    == fn.contract
      mods == IF fn.ty = "function" THEN Modifiers(fn, c) ELSE <<>>
      body == FoldLeft(LAMBDA a, st : The({AddStatement(b, c, st) : b \in {a}}),
                       [calls |-> <<>>, creates |-> acc.creates, made |-> <<>>, err |-> FALSE, stop |-> FALSE,
                        lost |-> FALSE], fn.source.body[1])
      bad  == \/ fn.ty = "constructor" /\ BadConstructorBases(fn, c)
              \/ \E i \in DOMAIN mods : mods[i].op = "none"
              \/ fn.ty = "modifier" /\ ~\E i \in DOMAIN body.calls : body.calls[i].op = "_"
  IN  IF ~fn.hasBody \/ acc.lost THEN acc
      ELSE [fs      |-> [acc.fs EXCEPT ![f].calls = body.calls, ![f].mods = mods, ![f].creates = body.made,
                                       ![f].bases = IF fn.ty = "constructor" THEN ConstructorBases(fn) ELSE <<>>],
            creates |-> body.creates, err |-> acc.err \/ body.err \/ bad, lost |-> body.lost]

(* The call in the initializer of the contract's state variable.           *)
InitCall(c) ==
  IF prog[c].init.op \in {"none", "lit"} THEN [NoCall EXCEPT !.op = "lit"] ELSE ResolveStatement(prog[c].init, c)

-----------------------------------------------------------------------------
(* Base constructor arguments.                                             *)

RECURSIVE CollectBaseArgs(_, _, _)
(* collect_base_args: for each base the constructor, the arguments and the *)
(* constructor they are written on (0: on the contract).                   *)
CollectBaseArgs(acc, c, k) ==
  LET Give(a, b, by) ==
        IF a.args[b.no] # <<>> THEN [a EXCEPT !.dup = TRUE]
        ELSE CollectBaseArgs([a EXCEPT !.args[b.no] = <<[ctor |-> b.ctor, args |-> b.args, by |-> by]>>], b.no, b.ctor)
      named == IF k = 0 THEN <<>> ELSE SortSeq(funcs[k].bases, LAMBDA a, b : a.no < b.no)
      Visit(a, b) == IF b.ctor # 0 THEN Give(a, b, 0) ELSE CollectBaseArgs(a, b.no, NoArgsConstructor(b.no))
  IN  FoldLeft(LAMBDA a, b : The({Visit(x, b) : x \in {a}}),
               FoldLeft(LAMBDA a, b : The({Give(x, b, k) : x \in {a}}), acc, named), bases[c])

BaseArgs(c, k) == CollectBaseArgs([args |-> [b \in Contracts |-> <<>>], dup |-> FALSE], c, k)

TopConstructors(c) == IF Constructors(c) = <<>> THEN {0} ELSE ToSet(Constructors(c))

BadBaseArgs(c) ==
  /\ Concrete(c)
  /\ \E k \in TopConstructors(c) :
       \/ BaseArgs(c, k).dup
       \/ \E b \in ToSet(contract_bases(c)) \ {c} : NeedsArguments(b) /\ BaseArgs(c, k).args[b] = <<>>

-----------------------------------------------------------------------------
(* Functions outside the bases, creation, code generation.                 *)

CalledBy(f) == {funcs[f].calls[i].fn : i \in {j \in DOMAIN funcs[f].calls : funcs[f].calls[j].op = "call"}}

AddCalled_Once(fs, list) == fs \union list

RECURSIVE AddCalled(_, _)
AddCalled(fs, list) ==
  IF list = {} THEN fs ELSE AddCalled(fs \union list, UNION {CalledBy(f) : f \in list} \ (fs \union list))

(* add_external_functions: those called, also through others.              *)
ExternalFunctions(c) ==
  AddCalled(all[c], UNION {CalledBy(f) : f \in all[c]} \union (IF inits[c].op = "call" THEN {inits[c].fn} ELSE {}))

(* check_circular_reference: what inherited and library functions create.  *)
Creation(c, fs) ==
  LET made == Concat([i \in 1 .. Cardinality(fs) |-> funcs[Ascending(fs)[i]].creates])
      Circular(no) == CircularReference(no, c, [creates EXCEPT ![c] = <<>>])
      Add(acc, no) == CASE no = c \/ Circular(no) = "yes" -> [acc EXCEPT !.err = TRUE]
                        [] no # c /\ Circular(no) = "endless" -> [acc EXCEPT !.lost = TRUE]
                        [] no # c /\ Circular(no) = "no" -> [acc EXCEPT !.list = Include(@, no)]
  IN  FoldLeft(LAMBDA acc, no : The({Add(a, no) : a \in {acc}}), [list |-> creates[c], err |-> FALSE, lost |-> FALSE], made)

(* is_there_virtual_function: functions that get no graph.                 *)
HasGraph(c, f) ==
  /\ funcs[f].ty # "modifier" /\ funcs[f].hasBody
  /\ funcs[f].ty \in {"fallback", "receive"} /\ virt[c][Sig(funcs[f])] # <<>> => Last(virt[c][Sig(funcs[f])]) = f

(* Which function a call runs in contract c.                               *)
CallTarget(c, call) == IF call.sig # <<>> THEN Last(virt[c][call.sig[1]]) ELSE call.fn

(* function_externally_callable: functions the dispatcher leads to.        *)
ExternallyCallable(c, f) ==
  /\ funcs[f].virt => virt[c][Sig(funcs[f])] # <<>> /\ Last(virt[c][Sig(funcs[f])]) = f
  /\ ~Library(funcs[f].contract)
  /\ ~(funcs[f].ty = "constructor" /\ funcs[f].contract # c)
  /\ Public(funcs[f]) /\ funcs[f].ty # "modifier"

(* The functions called in the graphs of contract c: codegen looks them up *)
(* in all_functions, emission in the functions it declared for the graphs; *)
(* both panic when the function is not there.                              *)
Generated(c) ==
  LET graphs == {f \in all[c] : HasGraph(c, f)}
      bodies == graphs \union UNION {{CallTarget(c, funcs[f].mods[i]) : i \in DOMAIN funcs[f].mods} : f \in graphs}
      calls  == UNION {{funcs[f].calls[i] : i \in DOMAIN funcs[f].calls} : f \in bodies}
                  \union {inits[b] : b \in ToSet(contract_bases(c))}
  IN  {CallTarget(c, call) : call \in {x \in calls : x.op = "call"}}

-----------------------------------------------------------------------------
(* What a deployed contract runs: function number and argument of every    *)
(* body that is entered, in order.  With ref, callees are those the        *)
(* documentation describes instead of those the compiler chose.            *)

(* The contracts c inherits from, itself included, by the source text.     *)
RECURSIVE Ancestors(_)
Ancestors(c) == {c} \union UNION {Ancestors(prog[c].bases[i].no) : i \in DOMAIN prog[c].bases}

(* Of several definitions, the one in the first base contract.             *)
RECURSIVE FirstOf(_, _)
FirstOf(c, fs) ==
  IF \E f \in fs : funcs[f].contract = c THEN CHOOSE f \in fs : funcs[f].contract = c
  ELSE LET from == {i \in DOMAIN prog[c].bases : \E f \in fs : funcs[f].contract \in Ancestors(prog[c].bases[i].no)}
       IN  FirstOf(prog[c].bases[Least(from)].no, fs)

(* The implementation that no contract between it and c overrides.         *)
MostDerived(c, ty, sig) ==
  LET defs == {f \in DOMAIN funcs : /\ funcs[f].ty = ty /\ Sig(funcs[f]) = sig /\ funcs[f].hasBody
                                     /\ funcs[f].contract \in Ancestors(c)}
      top  == {f \in defs : \A g \in defs \ {f} : funcs[f].contract \notin Ancestors(funcs[g].contract)}
  IN  IF defs = {} THEN 0 ELSE FirstOf(c, top)

(* `super` is the first base contract that has the function.               *)
SuperOf(c, sig) ==
  LET Of(i) == MostDerived(prog[c].bases[i].no, "function", sig)
      has   == {i \in DOMAIN prog[c].bases : Of(i) # 0}
  IN  Of(Least(has))

Meant(c, f, st) ==
  LET sig   == <<st.name, Len(st.args)>>
      owner == funcs[f].contract
  IN  CASE st.op = "call"  -> MostDerived(IF Library(owner) THEN owner ELSE c, "function", sig)
        [] st.op = "super" -> SuperOf(owner, sig)
        [] st.op = "at"    -> MostDerived(st.c, "function", sig)

Callee(c, f, i, ref) ==
  IF ref THEN Meant(c, f, funcs[f].source.body[1][i]) ELSE CallTarget(c, funcs[f].calls[i])

ModifierOf(c, f, i, ref) ==
  LET m == funcs[f].source.attrs[i]
  IN  IF ref THEN MostDerived(c, "modifier", <<m.name, Len(m.args)>>) ELSE CallTarget(c, funcs[f].mods[i])

ArgOf(args, arg) == IF args = <<>> THEN 0 ELSE Value(args[1], arg)

RECURSIVE RunFunction(_, _, _, _, _, _)
(* The modifiers of f from the ith on, around its body.                    *)
RunFunction(c, f, i, arg, fuel, ref) ==
  LET inBody == i > Len(funcs[f].mods)
      Step(code, given, call, j) ==
        CASE call.op = "_"    -> RunFunction(c, f, i + 1, arg, fuel, ref)
          [] call.op = "call" -> RunFunction(c, Callee(c, code, j, ref), 1, ArgOf(call.args, given), fuel - 1, ref)
          [] OTHER            -> <<>>
      Run(code, given) ==
        <<<<code, given>>>> \o Concat([j \in DOMAIN funcs[code].calls |-> Step(code, given, funcs[code].calls[j], j)])
  IN  IF fuel = 0 THEN <<>>
      ELSE The({Run(code, given) : code \in {IF inBody THEN f ELSE ModifierOf(c, f, i, ref)},
                                   given \in {IF inBody THEN arg ELSE ArgOf(funcs[f].mods[i].args, arg)}})

(* function_cfg of the constructor k: arguments of the bases from derived  *)
(* to base, each kept in the parameter of its constructor, then the base   *)
(* constructors in the order of contract_bases, then its own body.         *)
NoValue == -10
BaseParams(c, k, arg) ==
  LET given == BaseArgs(c, k).args
      Set(env, b) == IF b = c \/ given[b] = <<>> THEN env
                     ELSE [env EXCEPT ![given[b][1].ctor] =
                             IF given[b][1].by = 0 THEN ArgOf(given[b][1].args, NoValue)
                             ELSE ArgOf(given[b][1].args, env[given[b][1].by])]
  IN  FoldLeft(LAMBDA env, b : The({Set(e, b) : e \in {env}}), [f \in DOMAIN funcs |-> IF f = k THEN arg ELSE NoValue], Reverse(contract_bases(c)))

RunConstructor(c, k, arg) ==
  LET given == BaseArgs(c, k).args
      env   == BaseParams(c, k, arg)
      Base(b) == IF b = c THEN <<>>
                 ELSE IF given[b] # <<>> THEN RunFunction(c, given[b][1].ctor, 1, env[given[b][1].ctor], Fuel, FALSE)
                 ELSE IF NoArgsConstructor(b) # 0 THEN RunFunction(c, NoArgsConstructor(b), 1, 0, Fuel, FALSE) ELSE <<>>
  IN  Concat([i \in DOMAIN contract_bases(c) |-> Base(contract_bases(c)[i])])
        \o (IF k = 0 THEN <<>> ELSE RunFunction(c, k, 1, arg, Fuel, FALSE))

(* storage_initializer sets the variables in the order of the layout.      *)
RunInitializers(c) ==
  Concat([i \in DOMAIN contract_bases(c) |->
    LET b == contract_bases(c)[i]
    IN  IF prog[b].init.op = "none" THEN <<>>
        ELSE (IF inits[b].op = "call"
              THEN RunFunction(c, CallTarget(c, inits[b]), 1, ArgOf(inits[b].args, NoValue), Fuel, FALSE)
              ELSE <<>>) \o <<<<-b, 0>>>>])

-----------------------------------------------------------------------------
(* The compiler, contract by contract.                                     *)

Init ==
  /\ \E s \in Sources : prog = s[1] /\ target = s[2]
  /\ phase = "bases" /\ pos = 1
  /\ bases = [c \in Contracts |-> <<>>] /\ funcs = <<>> /\ own = [c \in Contracts |-> <<>>]
  /\ all = [c \in Contracts |-> {}] /\ virt = [c \in Contracts |-> [s \in Signatures |-> <<>>]]
  /\ creates = [c \in Contracts |-> <<>>] /\ inits = [c \in Contracts |-> NoCall]
  /\ done = {} /\ trace = [kind |-> "none", events |-> <<>>]

(* On to the next contract, or to the first one of the next phase.         *)
Advance(next, err) ==
  /\ pos' = IF pos = Len(prog) THEN 1 ELSE pos + 1
  /\ phase' = IF err THEN "rejected" ELSE IF pos = Len(prog) THEN next ELSE phase
  /\ UNCHANGED <<prog, target, trace>>

ResolveBaseContracts ==
  /\ phase = "bases"
  /\ LET r == FoldLeft(LAMBDA acc, clause : The({AddBase(a, pos, clause) : a \in {acc}}), [bs |-> bases, err |-> FALSE], prog[pos].bases)
     IN  bases' = r.bs /\ Advance("declarations", r.err)
  /\ UNCHANGED <<funcs, own, all, virt, creates, inits, done>>

ResolveDeclarations ==
  /\ phase = "declarations"
  /\ LET parts == prog[pos].parts
         new   == [i \in DOMAIN parts |-> Declared(pos, parts[i])]
     IN  /\ funcs' = funcs \o new
         /\ own' = [own EXCEPT ![pos] = [i \in DOMAIN parts |-> Len(funcs) + i]]
         /\ Advance("arguments", \E i \in DOMAIN parts : BadDeclaration(pos, parts[i], {new[j] : j \in 1 .. i - 1}))
  /\ UNCHANGED <<bases, all, virt, creates, inits, done>>

ResolveBaseArgs ==
  /\ phase = "arguments"
  /\ LET Given(i) == IF prog[pos].bases[i].args = <<>> THEN 0
                     ELSE MatchConstructor(prog[pos].bases[i].no, prog[pos].bases[i].args[1])
     IN  /\ bases' = [bases EXCEPT ![pos] = [i \in DOMAIN @ |->
                        IF Given(i) <= 0 THEN @[i]
                        ELSE [@[i] EXCEPT !.ctor = Given(i), !.args = prog[pos].bases[i].args[1]]]]
         /\ Advance("inheritance", \E i \in DOMAIN bases[pos] : Given(i) = -1)
  /\ UNCHANGED <<funcs, own, all, virt, creates, inits, done>>

CheckInheritance ==
  /\ phase = "inheritance"
  /\ \E r \in {Inherited(pos, order) : order \in {contract_bases(pos)}} :
         /\ all' = [all EXCEPT ![pos] = r.all]
         /\ virt' = [virt EXCEPT ![pos] = r.virt]
         /\ Advance("initializers", \/ r.err \/ Unsettled(pos, r.needed)
                                    \/ SelectorClash(pos, r.all) \/ NothingToCall(pos, r.all) \/ SameNameTwice(pos))
  /\ UNCHANGED <<bases, funcs, own, creates, inits, done>>

ResolveInitializers ==
  /\ phase = "initializers"
  /\ inits' = [inits EXCEPT ![pos] = InitCall(pos)]
  /\ Advance("bodies", InitCall(pos).op = "none")
  /\ UNCHANGED <<bases, funcs, own, all, virt, creates, done>>

(* resolve_bodies goes on after an error: it was broken.                   *)
ResolveBodies ==
  /\ phase \in {"bodies", "broken bodies"}
  /\ \E r \in {FoldLeft(LAMBDA acc, f : The({ResolveBody(a, f) : a \in {acc}}),
                        [fs |-> funcs, creates |-> creates, err |-> phase = "broken bodies", lost |-> FALSE], own[pos])} :
         /\ funcs' = r.fs /\ creates' = r.creates
         /\ pos' = IF pos = Len(prog) THEN 1 ELSE pos + 1
         /\ phase' = CASE r.lost                           -> "overflow"
                       [] ~r.lost /\ pos < Len(prog)       -> IF r.err THEN "broken bodies" ELSE "bodies"
                       [] ~r.lost /\ pos = Len(prog)       -> IF r.err THEN "rejected" ELSE "base arguments"
  /\ UNCHANGED <<prog, target, trace, bases, own, all, virt, inits, done>>

CheckBaseArgs ==
  /\ phase = "base arguments"
  /\ Advance("external", BadBaseArgs(pos))
  /\ UNCHANGED <<bases, funcs, own, all, virt, creates, inits, done>>

AddExternalFunctions ==
  /\ phase = "external"
  /\ \E fs \in {ExternalFunctions(pos)} : \E r \in {Creation(pos, fs)} :
         /\ all' = [all EXCEPT ![pos] = fs]
         /\ creates' = [creates EXCEPT ![pos] = r.list]
         /\ pos' = IF pos = Len(prog) THEN 1 ELSE pos + 1
         /\ phase' = CASE r.lost            -> "overflow"
                       [] ~r.lost /\ r.err  -> "rejected"
                       [] ~r.lost /\ ~r.err -> IF pos = Len(prog) THEN "codegen" ELSE phase
  /\ UNCHANGED <<prog, target, trace, bases, funcs, own, virt, inits, done>>

(* One turn of the loop of codegen: a contract waits for those it creates. *)
Codegen ==
  /\ phase = "codegen"
  /\ LET ready == pos \notin done /\ (~Concrete(pos) \/ ToSet(creates[pos]) \subseteq done)
     IN  /\ done' = IF ready THEN done \union {pos} ELSE done
         /\ pos' = IF pos = Len(prog) THEN 1 ELSE pos + 1
         /\ phase' = IF ready /\ Concrete(pos) /\ ~(Generated(pos) \subseteq {f \in all[pos] : HasGraph(pos, f)}) THEN "panicked"
                     ELSE IF pos = Len(prog) /\ done' = Contracts THEN "compiled" ELSE phase
  /\ UNCHANGED <<prog, target, bases, funcs, own, all, virt, creates, inits, trace>>

(* The contract is deployed through one of its constructors.               *)
Deploy(c, k, arg) ==
  /\ phase = "compiled" /\ Concrete(c) /\ k \in TopConstructors(c)
  /\ phase' = "ran"
  /\ trace' = [kind |-> "deploy", c |-> c, f |-> k, arg |-> arg,
               events |-> RunInitializers(c) \o RunConstructor(c, k, arg)]
  /\ UNCHANGED <<prog, target, pos, bases, funcs, own, all, virt, creates, inits, done>>

(* A transaction calls a function.                                         *)
Call(c, f, arg) ==
  /\ phase = "compiled" /\ Concrete(c)
  /\ f \in all[c] /\ HasGraph(c, f) /\ ExternallyCallable(c, f) /\ funcs[f].ty # "constructor"
  /\ phase' = "ran"
  /\ trace' = [kind |-> "call", c |-> c, f |-> f, arg |-> arg, events |-> RunFunction(c, f, 1, arg, Fuel, FALSE)]
  /\ UNCHANGED <<prog, target, pos, bases, funcs, own, all, virt, creates, inits, done>>

Finished == phase \in {"rejected", "panicked", "overflow", "ran"} /\ UNCHANGED vars

Next ==
  \/ ResolveBaseContracts \/ ResolveDeclarations \/ ResolveBaseArgs \/ CheckInheritance
  \/ ResolveInitializers \/ ResolveBodies \/ CheckBaseArgs \/ AddExternalFunctions \/ Codegen
  \/ \E c \in Contracts, arg \in {5} : \/ \E k \in TopConstructors(c) : Deploy(c, k, arg)
                                       \/ \E f \in all[c] : Call(c, f, arg)
  \/ Finished

Spec == Init /\ [][Next]_vars /\ WF_vars(Next)

-----------------------------------------------------------------------------
(* Properties.                                                             *)

(* The loop of codegen, in which a contract waits for those it creates,    *)
(* ends, and so does every walk of circular_reference before it: creation  *)
(* through bases and libraries included, what is accepted has no cycle.    *)
CompilerEnds == <>(phase \in {"rejected", "panicked", "compiled"})

(* all_functions holds every function that the generated code calls, as    *)
(* the comment on add_external_functions says, and each has a graph, so    *)
(* neither codegen nor emission panics.                                    *)
CallsHaveCode == phase # "panicked"

(* A transaction runs what the documentation says: the overriding function *)
(* for a call, also from a base and through modifiers, that of the named   *)
(* contract or of the first base for C.f() and super.f().                  *)
RunsMostDerived ==
  trace.kind = "call" =>
    /\ trace.events = RunFunction(trace.c, trace.f, 1, trace.arg, Fuel, TRUE)
    /\ \A i \in DOMAIN trace.events : funcs[trace.events[i][1]].hasBody

(* The constructor of b that should run when c is deployed through k, and  *)
(* its argument: as written on a contract between them or on a constructor *)
(* that runs.                                                              *)
RECURSIVE MeantConstruction(_, _, _, _)
MeantConstruction(c, k, arg, b) ==
  LET On(d)  == MeantConstruction(c, k, arg, d)
      Fit(args) == CHOOSE f \in ToSet(Constructors(b)) : funcs[f].arity = Len(args)
      Derived == {d \in Ancestors(c) \ {b} : b \in Ancestors(d)}
      clauses == UNION {{prog[d].bases[i].args[1] : i \in {j \in DOMAIN prog[d].bases :
                           prog[d].bases[j].no = b /\ prog[d].bases[j].args # <<>>}} : d \in Derived}
      attrs   == UNION {LET at == IF On(d)[1] = 0 THEN <<>> ELSE funcs[On(d)[1]].source.attrs
                        IN  {<<Fit(at[i].args), ArgOf(at[i].args, On(d)[2])>> : i \in {j \in DOMAIN at : at[j].no = b}} : d \in Derived}
      given   == {<<Fit(args), ArgOf(args, NoValue)>> : args \in clauses} \union attrs
  IN  IF b = c THEN <<k, arg>>
      ELSE IF Constructors(b) = <<>> THEN <<0, 0>>
      ELSE IF given = {} THEN <<NoArgsConstructor(b), 0>> ELSE CHOOSE g \in given : TRUE

(* Deploying a contract sets each variable and runs one constructor of     *)
(* each base, with the argument written for it, after those of its own     *)
(* bases and after all variables.                                          *)
ConstructedOnce ==
  trace.kind = "deploy" =>
    LET ev == trace.events
        At(x) == {i \in DOMAIN ev : ev[i][1] = x}
        Of(b) == {i \in DOMAIN ev : ev[i][1] > 0 /\ funcs[ev[i][1]].ty = "constructor" /\ funcs[ev[i][1]].contract = b}
        Made(b) == MeantConstruction(trace.c, trace.f, trace.arg, b)
    IN  \A b \in Ancestors(trace.c) :
          /\ IF Made(b)[1] = 0 THEN Of(b) = {} ELSE Cardinality(Of(b)) = 1 /\ \A i \in Of(b) : ev[i] = Made(b)
          /\ \A a \in Ancestors(b) \ {b}, i \in DOMAIN ev, j \in DOMAIN ev : i \in Of(a) /\ j \in Of(b) => i < j
          /\ Cardinality(At(-b)) = IF prog[b].init.op = "none" THEN 0 ELSE 1
          /\ \A a \in Ancestors(trace.c), i \in At(-b), j \in DOMAIN ev : j \in Of(a) => i < j
=============================================================================
