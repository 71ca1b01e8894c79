---------------------------- MODULE ReachingDefs ----------------------------
(***************************************************************************)
(* Reaching definitions (src/src/codegen/reaching_definitions.rs) and the  *)
(* check for undefined variables built on them (undefined_variable.rs).    *)
(*                                                                         *)
(* A definition is <<block, instruction>>.  The definitions known at a     *)
(* point map a variable to its definitions, and each of those to TRUE when *)
(* the object has been modified since; a variable without an entry is one  *)
(* the analysis knows nothing about.                                       *)
(***************************************************************************)
EXTENDS EmitCfg

NoDefs == <<>>

Drop(f, x) == [y \in DOMAIN f \ {x} |-> f[y]]

Kill(defs, v) == Drop(defs, v)

Generate(defs, v, def) ==
    (v :> (def :> FALSE) @@ (IF v \in DOMAIN defs THEN defs[v] ELSE NoDefs)) @@ defs

Copy(defs, v, src) ==
    IF src \in DOMAIN defs THEN (v :> defs[src]) @@ defs ELSE defs

Modify(defs, v) ==
    IF v \in DOMAIN defs THEN [defs EXCEPT ![v] = [d \in DOMAIN @ |-> TRUE]] ELSE defs

(* instr_transfers and apply_transfers of one instruction.  The result of  *)
(* a pop is not among its transfers.                                       *)
Transfer(ins, defs, def) ==
    CASE ins.op = "Set" /\ ins.expr.k = "var" ->
            Copy(Kill(defs, ins.res), ins.res, ins.expr.v)
      [] ins.op = "Set" -> Generate(Kill(defs, ins.res), ins.res, def)
      [] ins.op = "PushMemory" ->
            Modify(Generate(Kill(defs, ins.res), ins.res, def), ins.array)
      [] ins.op = "PopMemory" -> Modify(defs, ins.array)
      [] OTHER -> defs

RECURSIVE DefsAt(_, _, _, _)
(* The definitions before instruction i of block b, from those at its      *)
(* start; the transfers are those of the graph the analysis was run on.    *)
DefsAt(block, start, b, i) ==
    IF i = 1 THEN start
    ELSE Transfer(block.instr[i - 1], DefsAt(block, start, b, i - 1), <<b, i - 1>>)

DefsAtEnd(block, start, b) == DefsAt(block, start, b, Len(block.instr) + 1)

(* Mutant: definitions of a variable that is known already are not added.  *)
MergeVar_First(old, new) == old

(* The union of what a block knows and what comes in.                      *)
MergeVar(old, new) ==
    [d \in DOMAIN old \cup DOMAIN new |->
        \/ d \in DOMAIN old /\ old[d]
        \/ d \in DOMAIN new /\ new[d]]

Merge(old, new) ==
    [v \in DOMAIN old \cup DOMAIN new |->
        IF v \notin DOMAIN new THEN old[v]
        ELSE IF v \notin DOMAIN old THEN new[v]
        ELSE MergeVar(old[v], new[v])]

(* Variables with a definition from a block that is not before b.          *)
LoopVars(defs, b) == {v \in DOMAIN defs : \E d \in DOMAIN defs[v] : d[1] >= b}

(* One visit of the work list: block b passes its definitions on to its    *)
(* successors; the ones that change are to be visited again.  A successor  *)
(* whose definitions equal the incoming ones is left alone, whether it was *)
(* ever visited or not.  The state is [defs, loop, todo].                  *)
VisitEdge(s, b, vars) ==
    IF s.defs[b] = vars THEN s
    ELSE LET merged == Merge(s.defs[b], vars)
             looped == s.loop[b] \cup LoopVars(vars, b)
         IN  [defs |-> [s.defs EXCEPT ![b] = merged],
              loop |-> [s.loop EXCEPT ![b] = looped],
              todo |-> IF merged # s.defs[b] \/ looped # s.loop[b]
                       THEN s.todo \cup {b} ELSE s.todo]

Visit(blocks, s, b) ==
    LET vars == DefsAtEnd(blocks[b], s.defs[b], b)
        succ == Successors(blocks[b])
        s0   == [s EXCEPT !.todo = @ \ {b}]
    IN  CASE Len(succ) = 0 -> s0
          [] Len(succ) = 1 -> VisitEdge(s0, succ[1], vars)
          [] Len(succ) = 2 -> VisitEdge(VisitEdge(s0, succ[1], vars), succ[2], vars)

StartDefs(blocks) ==
    [defs |-> [b \in DOMAIN blocks |-> NoDefs],
     loop |-> [b \in DOMAIN blocks |-> {}],
     todo |-> {1}]

-----------------------------------------------------------------------------
(* find_undefined_variables: a read of a declared variable that an         *)
(* unmodified undefined definition reaches.  Arrays are always defined,    *)
(* and the return variable is given a default.                             *)
RECURSIVE ReadVars(_)
ReadVars(e) ==
    IF e.k = "length" THEN {}
    ELSE IF e.k = "var" THEN {e.v}
    ELSE UNION {ReadVars(Operands(e)[i]) : i \in DOMAIN Operands(e)}

IsUndefined(blocks, def) ==
    LET ins == blocks[def[1]].instr[def[2]]
    IN  ins.op = "Set" /\ ins.expr.k = "undef"

(* Mutant: refused only when no other definition reaches the read.         *)
UndefinedVariables_All(blocks, defs) ==
    {v \in (1..NumVars) \ (ArrayVars \cup {ReturnVar}) :
        \E b \in DOMAIN blocks : \E i \in DOMAIN blocks[b].instr :
            LET known == DefsAt(blocks[b], defs[b], b, i)
            IN  /\ \E e \in ExprsOf(blocks[b].instr[i]) : v \in ReadVars(e)
                /\ v \in DOMAIN known
                /\ \A d \in DOMAIN known[v] : IsUndefined(blocks, d)}

UndefinedVariables(blocks, defs) ==
    {v \in (1..NumVars) \ (ArrayVars \cup {ReturnVar}) :
        \E b \in DOMAIN blocks : \E i \in DOMAIN blocks[b].instr :
            LET known == DefsAt(blocks[b], defs[b], b, i)
            IN  /\ \E e \in ExprsOf(blocks[b].instr[i]) : v \in ReadVars(e)
                /\ v \in DOMAIN known
                /\ \E d \in DOMAIN known[v] : ~known[v][d] /\ IsUndefined(blocks, d)}
=============================================================================
