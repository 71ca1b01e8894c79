----------------------------- MODULE DeadStorage -----------------------------
(***************************************************************************)
(* The dead storage pass, codegen/dead_storage.rs.  A worklist computes    *)
(* which definitions of variables and which storage stores reach every     *)
(* instruction; then a scan replaces a load whose value is still in a      *)
(* variable and removes the stores that nothing can read.                  *)
(*                                                                         *)
(* The pass and the program it works on are one state machine: the pass    *)
(* runs on one of Programs, and then the original and the optimized        *)
(* control flow graph execute side by side, with the same storage at the   *)
(* start and the same branches taken.                                      *)
(*                                                                         *)
(* The work set and the variables of a block are hash tables: the order in *)
(* which they are visited is any order.                                    *)
(***************************************************************************)
EXTENDS Integers, Sequences, FiniteSets, TLC

CONSTANTS
  Programs,   \* the control flow graphs the pass is run on
  Vars,       \* variables of the graph
  Args,       \* arguments of the function
  Starts,     \* what the function may be called with: arguments and storage
  Cells,      \* storage: lit(n) is state variable n, elem(n) array element n
  Values      \* what a cell or a variable can hold; indices too

VARIABLES
  orig,              \* the graph before the pass
  cfg,               \* the graph the pass works on: block -> instructions
  phase,             \* "analyse", "scan", "run" or "stopped"
  blocks_todo,       \* the worklist
  block_vars,        \* block -> instruction -> what reaches it
  at,                \* where the scan is
  redundant_stores,  \* store -> whether it still looks redundant
  pc,                \* where the two executions are
  regs,              \* the variables of both executions
  sto                \* the storage of both executions

vars == <<orig, cfg, phase, blocks_todo, block_vars, at, redundant_stores,
          pc, regs, sto>>

passVars == <<blocks_todo, block_vars, at, redundant_stores>>
runVars  == <<pc, regs, sto>>
-----------------------------------------------------------------------------
(* Instr and the storage expressions.  lit is a NumberLiteral; elem is the *)
(* slot of an array element, Add(NumberLiteral, Variable); var is a        *)
(* Variable, ext a ZeroExt of one and arg a FunctionArg.                   *)

Lit(n)  == [k |-> "lit", n |-> n]
Elem(v) == [k |-> "elem", v |-> v]
Var(v)  == [k |-> "var", v |-> v]
Ext(v)  == [k |-> "ext", v |-> v]
Arg(v)  == [k |-> "arg", v |-> v]

LoadStorage(v, e)     == [op |-> "load", res |-> v, slot |-> e]
SetStorage(e, x)      == [op |-> "store", slot |-> e, val |-> x]
Set(v, x)             == [op |-> "set", res |-> v, val |-> x]
Call                  == [op |-> "call"]
ExternalCall(success) == [op |-> "external", success |-> success]
Branch(bs)            == [op |-> "branch", to |-> bs]
Return                == [op |-> "return"]
Nop                   == [op |-> "nop"]

\* Definition::Undefined; any other definition is <<block_no, instr_no>>.
Undefined == <<0, 0>>

At(c, d) == c[d[1]][d[2]]

Successors(c, b) ==
  LET last == c[b][Len(c[b])] IN IF last.op = "branch" THEN last.to ELSE {}

\* get_storage_definition
IsLoad(c, d) == d # Undefined /\ At(c, d).op = "load"

\* get_definition: what the variable was set to, or where it was loaded from.
HasDefinition(c, d) == d # Undefined /\ At(c, d).op \in {"load", "set"}

GetDefinition(c, d) == IF At(c, d).op = "load" THEN At(c, d).slot ELSE At(c, d).val

Nothing == [vars |-> <<>>, stores |-> {}]

\* get_vars_at
VarsAt(d, bv) == IF d[1] \in DOMAIN bv THEN bv[d[1]][d[2]] ELSE Nothing

RECURSIVE Compare(_, _, _, _, _, _)

\* expression_compare on two variables.
CompareVars(v, lv, w, rv, c, bv) ==
  IF v \notin DOMAIN lv.vars \/ w \notin DOMAIN rv.vars THEN "Unknown"
  ELSE IF lv.vars[v] = rv.vars[w] THEN "Equal"
  ELSE IF Cardinality(lv.vars[v]) # 1 \/ Cardinality(rv.vars[w]) # 1 THEN "Unknown"
  ELSE LET d == CHOOSE d \in lv.vars[v] : TRUE
           e == CHOOSE e \in rv.vars[w] : TRUE
       IN IF ~HasDefinition(c, d) \/ ~HasDefinition(c, e) THEN "Unknown"
          ELSE Compare(GetDefinition(c, d), VarsAt(d, bv),
                       GetDefinition(c, e), VarsAt(e, bv), c, bv)

\* Mutant: two arguments are taken to differ.
Compare_ArgsDiffer(l, lv, r, rv, c, bv) ==
  CASE l.k = "lit" /\ r.k = "lit" -> IF l.n = r.n THEN "Equal" ELSE "NotEqual"
    [] l.k = "arg" /\ r.k = "arg" -> IF l.v = r.v THEN "Equal" ELSE "NotEqual"
    [] l.k = r.k /\ l.k \in {"elem", "var", "ext"} -> CompareVars(l.v, lv, r.v, rv, c, bv)
    [] OTHER -> "Unknown"

\* expression_compare.  Two arguments can have the same value.
Compare(l, lv, r, rv, c, bv) ==
  CASE l.k = "lit" /\ r.k = "lit" -> IF l.n = r.n THEN "Equal" ELSE "NotEqual"
    [] l.k = "arg" /\ r.k = "arg" -> IF l.v = r.v THEN "Equal" ELSE "Unknown"
    [] l.k = r.k /\ l.k \in {"elem", "var", "ext"} -> CompareVars(l.v, lv, r.v, rv, c, bv)
    [] OTHER -> "Unknown"
-----------------------------------------------------------------------------
(* The transfers of an instruction, on what reaches it.                    *)

Without(f, S) == [x \in DOMAIN f \ S |-> f[x]]

\* Kill, Copy and Gen.
VarsAfter(vs, ins, d) ==
  CASE ins.op = "load" -> (ins.res :> {d}) @@ vs
    [] ins.op = "set" /\ ins.val.k # "var" -> (ins.res :> {d}) @@ vs
    [] ins.op = "set" /\ ins.val.k = "var" ->
         IF ins.val.v \in DOMAIN vs /\ ins.val.v # ins.res
         THEN (ins.res :> vs[ins.val.v]) @@ vs
         ELSE Without(vs, {ins.res})
    [] OTHER -> vs

\* Transfer::Store without an expression: the storage may be read or changed
\* in ways the pass does not see.  An external call has it only when its
\* `success` is kept in a variable.
Flushes(ins) ==
  ins.op \in {"call", "return"} \/ (ins.op = "external" /\ ins.success)

\* The variables that hold a value loaded from what the instruction writes.
EliminatedVars(rd, ins, c, bv) ==
  {v \in DOMAIN rd.vars :
     \E d \in rd.vars[v] :
       /\ IsLoad(c, d)
       /\ \/ Flushes(ins)
          \/ Compare(ins.slot, rd, At(c, d).slot, VarsAt(d, bv), c, bv) # "NotEqual"}

\* The stores that still reach: all but the ones that are overwritten.
StoresAfter(rd, ins, d, c, bv) ==
  IF Flushes(ins) THEN {}
  ELSE {[def |-> d, slot |-> ins.slot]} \cup
       {s \in rd.stores :
          Compare(ins.slot, rd, s.slot, VarsAt(s.def, bv), c, bv) # "Equal"}

Clobber(rd, ins, d, c, bv) ==
  [rd EXCEPT !.stores = StoresAfter(rd, ins, d, c, bv)]

ApplyVars(rd, ins, d) == [rd EXCEPT !.vars = VarsAfter(@, ins, d)]

ApplyStores(rd, ins, d, c, bv) ==
  IF Flushes(ins) \/ ins.op = "store"
  THEN Clobber([rd EXCEPT !.vars = Without(@, EliminatedVars(rd, ins, c, bv))],
               ins, d, c, bv)
  ELSE rd

\* The element of a singleton.
Only(S) == CHOOSE x \in S : TRUE

\* apply_transfers' first pass, variables only: what reaches each instruction
\* of block b, and the end of the block.
FirstPass(entry, c, b) ==
  LET reach[i \in 1 .. Len(c[b]) + 1] ==
        IF i = 1 THEN entry
        ELSE Only({ApplyVars(rd, c[b][i - 1], <<b, i - 1>>) : rd \in {reach[i - 1]}})
  IN [i \in 1 .. Len(c[b]) + 1 |-> reach[i]]

\* apply_transfers' second pass, with the first one's result for block b.
SecondPass(entry, c, b, bv) ==
  LET reach[i \in 1 .. Len(c[b]) + 1] ==
        IF i = 1 THEN entry
        ELSE Only({ApplyStores(rd, c[b][i - 1], <<b, i - 1>>, c, bv) :
                     rd \in {ApplyVars(r, c[b][i - 1], <<b, i - 1>>) : r \in {reach[i - 1]}}})
  IN [i \in 1 .. Len(c[b]) + 1 |-> reach[i]]

\* Merge what arrives at a block, y, with what has arrived before.
Merge(x, y) ==
  [vars |-> [v \in DOMAIN x.vars \cup DOMAIN y.vars |->
               (IF v \in DOMAIN x.vars THEN x.vars[v] ELSE {}) \cup
               (IF v \in DOMAIN y.vars THEN y.vars[v] ELSE {})],
   stores |-> x.stores \cup y.stores]

Arrive(bv, e, out) ==
  IF e \notin DOMAIN bv THEN (e :> <<out>>) @@ bv
  ELSE [bv EXCEPT ![e][1] = Merge(@, out)]
-----------------------------------------------------------------------------
Init ==
  /\ orig \in Programs
  /\ cfg = orig
  /\ phase = "analyse"
  /\ blocks_todo = {1}
  /\ block_vars = <<>>
  /\ at = <<1, 1>>
  /\ redundant_stores = <<>>
  /\ pc = <<1, 1>>
  /\ \E st \in Starts :
       /\ regs = [g \in {"orig", "opt"} |-> st.args @@ [v \in Vars |-> 0]]
       /\ sto = [g \in {"orig", "opt"} |-> st.sto]

\* On entry all variables are undefined.
Entry(b) ==
  IF b \in DOMAIN block_vars THEN block_vars[b][1]
  ELSE [vars |-> [v \in Vars |-> {Undefined}], stores |-> {}]

Analysed(b) ==
  Only({SecondPass(Entry(b), cfg, b, bv) :
          bv \in {(b :> FirstPass(Entry(b), cfg, b)) @@ block_vars}})

\* Mutant: a block is done again whenever something else than what it has
\* arrives.
Changed_Differs(bv, out, e) == e \notin DOMAIN bv \/ bv[e][1] # out

\* Block e is to be done again: it is new, or the merge added something.
Changed(bv, out, e) == e \notin DOMAIN bv \/ Merge(bv[e][1], out) # bv[e][1]

\* The blocks after b, with what leaves b.
Spread(b, bv, out) ==
  LET es == Successors(cfg, b)
      bv2 == [e \in DOMAIN bv \cup es |->
                IF e \in es THEN Arrive(bv, e, out)[e] ELSE bv[e]]
  IN /\ block_vars' = bv2
     /\ blocks_todo' = (blocks_todo \ {b}) \cup {e \in es : Changed(bv, out, e)}

Finish(b, res) ==
  Spread(b, (b :> SubSeq(res, 1, Len(cfg[b]))) @@ block_vars, res[Len(cfg[b]) + 1])

\* One round of reaching_definitions.
Analyse(b) ==
  /\ phase = "analyse"
  /\ \E res \in {Analysed(b)} : Finish(b, res)
  /\ UNCHANGED <<orig, cfg, phase, at, redundant_stores, runVars>>

Analysis ==
  \/ \E b \in blocks_todo : Analyse(b)
  \/ /\ phase = "analyse"
     /\ blocks_todo = {}
     /\ phase' = "scan"
     /\ UNCHANGED <<orig, cfg, passVars, runVars>>

Here == block_vars[at[1]][at[2]]

Instr == At(cfg, at)

\* The stores that a load or an access at e may read.
MayRead(e) ==
  {s.def : s \in {s \in Here.stores :
     Compare(e, Here, s.slot, VarsAt(s.def, block_vars), cfg, block_vars) # "NotEqual"}}

\* The variables that are known to hold what the load would load.
Found(ins) ==
  {v \in DOMAIN Here.vars :
     \E d \in Here.vars[v] :
       /\ Here.vars[v] = {d}
       /\ IsLoad(cfg, d)
       /\ Compare(ins.slot, Here, At(cfg, d).slot, VarsAt(d, block_vars),
                  cfg, block_vars) = "Equal"
       /\ At(cfg, d).res # ins.res}

Advance ==
  IF at[2] < Len(cfg[at[1]]) THEN <<at[1], at[2] + 1>> ELSE <<at[1] + 1, 1>>

\* The stores S are not redundant, if they have been seen.
Keep(rs, S) == [d \in DOMAIN rs |-> rs[d] /\ d \notin S]

\* What a flush does: every store that reaches it is needed.
Needed(rs, S) == [d \in DOMAIN rs \cup S |-> IF d \in S THEN FALSE ELSE rs[d]]

Scanned == at[1] > Len(cfg)

ReplaceLoad ==
  /\ Instr.op = "load"
  /\ \E v \in Found(Instr) :
       cfg' = [cfg EXCEPT ![at[1]][at[2]] = Set(Instr.res, Var(v))]
  /\ UNCHANGED redundant_stores

KeepLoad ==
  /\ Instr.op = "load"
  /\ Found(Instr) = {}
  /\ redundant_stores' = Keep(redundant_stores, MayRead(Instr.slot))
  /\ UNCHANGED cfg

MeetStore ==
  /\ Instr.op = "store"
  /\ redundant_stores' = redundant_stores @@ (at :> TRUE)
  /\ UNCHANGED cfg

MeetFlush ==
  /\ Flushes(Instr)
  /\ redundant_stores' = Needed(redundant_stores, {s.def : s \in Here.stores})
  /\ UNCHANGED cfg

MeetOther ==
  /\ Instr.op \notin {"load", "store"}
  /\ ~Flushes(Instr)
  /\ UNCHANGED <<cfg, redundant_stores>>

\* One instruction of dead_storage's loop.
Scan ==
  /\ phase = "scan"
  /\ ~Scanned
  /\ \/ ReplaceLoad
     \/ KeepLoad
     \/ MeetStore
     \/ MeetFlush
     \/ MeetOther
  /\ at' = Advance
  /\ UNCHANGED <<orig, phase, blocks_todo, block_vars, runVars>>

IsRedundant(d) == d \in DOMAIN redundant_stores /\ redundant_stores[d]

\* The stores that are still marked become Nop.
Erased(c) ==
  [b \in DOMAIN c |-> [i \in DOMAIN c[b] |->
     IF IsRedundant(<<b, i>>) THEN Nop ELSE c[b][i]]]

Remove ==
  /\ phase = "scan"
  /\ Scanned
  /\ cfg' = Erased(cfg)
  /\ phase' = "run"
  /\ UNCHANGED <<orig, passVars, runVars>>
-----------------------------------------------------------------------------
(* What the emitted code of an instruction does to variables r and storage *)
(* s.                                                                      *)

Cell(e, r) == IF e.k = "lit" THEN Lit(e.n) ELSE [k |-> "elem", n |-> r[e.v]]

Value(x, r) == IF x.k = "lit" THEN x.n ELSE r[x.v]

RegsAfter(ins, r, s) ==
  CASE ins.op = "load" -> [r EXCEPT ![ins.res] = s[Cell(ins.slot, r)]]
    [] ins.op = "set"  -> [r EXCEPT ![ins.res] = Value(ins.val, r)]
    [] OTHER -> r

StoAfter(ins, r, s) ==
  IF ins.op = "store" THEN [s EXCEPT ![Cell(ins.slot, r)] = Value(ins.val, r)] ELSE s

Graph(g) == IF g = "orig" THEN orig ELSE cfg

Running == phase = "run"

Step ==
  /\ Running
  /\ At(orig, pc).op \in {"load", "store", "set"}
  /\ regs' = [g \in DOMAIN regs |-> RegsAfter(At(Graph(g), pc), regs[g], sto[g])]
  /\ sto' = [g \in DOMAIN sto |-> StoAfter(At(Graph(g), pc), regs[g], sto[g])]
  /\ pc' = <<pc[1], pc[2] + 1>>
  /\ UNCHANGED <<orig, cfg, phase, passVars>>

\* The callee, or a contract that calls us back, reads the storage and leaves
\* some other values in it.
Callee ==
  /\ Running
  /\ At(orig, pc).op \in {"call", "external"}
  /\ \E x \in Values : sto' = [g \in DOMAIN sto |-> [a \in Cells |-> x]]
  /\ pc' = <<pc[1], pc[2] + 1>>
  /\ UNCHANGED <<orig, cfg, phase, passVars, regs>>

Jump ==
  /\ Running
  /\ \E b \in Successors(orig, pc[1]) :
       At(orig, pc).op = "branch" /\ pc' = <<b, 1>>
  /\ UNCHANGED <<orig, cfg, phase, passVars, regs, sto>>

Stop ==
  /\ Running
  /\ At(orig, pc).op = "return"
  /\ phase' = "stopped"
  /\ UNCHANGED <<orig, cfg, passVars, runVars>>

Pass == Analysis \/ Scan \/ Remove

Next == Pass \/ Step \/ Callee \/ Jump \/ Stop

Spec == Init /\ [][Next]_vars

\* The pass itself runs to its end.
FairSpec == Spec /\ WF_vars(Pass)
-----------------------------------------------------------------------------
\* The optimized graph does what the original does: after every instruction its
\* variables hold the same values, and wherever somebody else can look at the
\* storage (a callee, or the caller after a return) it finds the same.
Preserved ==
  phase = "run" =>
    /\ regs["orig"] = regs["opt"]
    /\ At(orig, pc).op \in {"call", "external", "return"} => sto["orig"] = sto["opt"]

\* Whatever order the worklist is taken in, the analysis ends, and so does the
\* pass.
Terminates == <>(phase = "run")
=============================================================================
