------------------------------ MODULE Codegen ------------------------------
(***************************************************************************)
(* The compilation of one function and calls of the result.  A body is     *)
(* translated to a control flow graph; reaching definitions are computed   *)
(* by a work list that visits the blocks in the order of a hash set, so in *)
(* any order; a function that reads an undefined variable, or that folds   *)
(* to a value that does not fit, is refused; constants are folded in the   *)
(* graph if the option is on (the pass runs in any case); common           *)
(* subexpressions are eliminated if that option is on; the graph is        *)
(* emitted in single assignment form.  A call then runs it block by block, *)
(* next to the outcome the language gives the body for the same arguments. *)
(***************************************************************************)
EXTENDS Cse

CONSTANTS Sources,    \* bodies and the options to compile each with:
                      \* [body, opt], the options being [optimize, fold, cse]
          Calls,      \* the arguments of calls
          Fuel        \* iterations of loops after which a body is held not to end

VARIABLES stage,  \* source, find, checked, optimized, ready, run, done or refused
          body,   \* the function body
          opt,    \* the options it is compiled with
          g,      \* the control flow graph
          rd,     \* the state of the reaching definitions
          entry,  \* the emitted blocks: what every variable stands for at the start
          args,   \* the arguments of the call
          want,   \* the outcome the language gives
          pc,     \* the block about to run
          vals,   \* the LLVM values computed
          origin, \* the definition every variable got its value from
          steps,  \* the blocks run so far
          out     \* the outcome of the call

vars == <<stage, body, opt, g, rd, entry, args, want, pc, vals, origin, steps, out>>

compiled == <<body, opt, g, rd, entry>>
call     == <<args, want, pc, vals, origin, steps, out>>

-----------------------------------------------------------------------------
Init ==
    /\ stage = "source"
    /\ \E source \in Sources : body = source.body /\ opt = source.opt
    /\ g = <<>> /\ rd = <<>> /\ entry = <<>>
    /\ args = <<>> /\ want = 0 /\ pc = 0 /\ vals = <<>> /\ origin = <<>>
    /\ steps = 0 /\ out = 0

Translate ==
    /\ stage = "source"
    /\ stage' = "find"
    /\ g' = FunctionCfg(body, opt.optimize)
    /\ rd' = StartDefs(g'.blocks)
    /\ UNCHANGED <<body, opt, entry, call>>

(* The work list of reaching_definitions::find.                            *)
FindStep ==
    /\ stage = "find"
    /\ \E b \in rd.todo : rd' = Visit(g.blocks, rd, b)
    /\ UNCHANGED <<stage, body, opt, g, entry, call>>

(* optimize_and_check_cfg after reaching_definitions::find.                *)
CheckAndFold ==
    /\ stage = "find"
    /\ rd.todo = {}
    /\ \E refused \in {UndefinedVariables(g.blocks, rd.defs) # {}},
          f \in {FoldConstants(g.blocks, rd.defs)} :
            /\ stage' = IF refused \/ f.err THEN "refused" ELSE "checked"
            /\ g' = IF refused \/ ~opt.fold THEN g ELSE [g EXCEPT !.blocks = f.blocks]
    /\ UNCHANGED <<body, opt, rd, entry, call>>

Eliminate ==
    /\ stage = "checked"
    /\ stage' = "optimized"
    /\ g' = IF opt.cse THEN CommonSubExpressionElimination(g, rd.loop) ELSE g
    /\ UNCHANGED <<body, opt, rd, entry, call>>

Lower ==
    /\ stage = "optimized"
    /\ stage' = "ready"
    /\ entry' = Emit(g)
    /\ UNCHANGED <<body, opt, g, rd, call>>

(* A call, for arguments with which the body ends.                         *)
Call ==
    /\ stage = "ready"
    /\ stage' = "run"
    /\ args' \in Calls
    /\ want' = Outcome(body, args', Fuel)
    /\ want' # NoEnd
    /\ pc' = 1
    /\ UNCHANGED <<compiled, vals, origin, steps, out>>

(* The instructions of a block leave their results in the variables.       *)
RECURSIVE Origins(_, _, _, _)
Origins(block, from, b, i) ==
    IF i = 0 THEN from
    ELSE LET ins == block.instr[i]
             old == Origins(block, from, b, i - 1)
         IN  CASE ins.op = "Set" /\ ins.expr.k = "var" ->
                    IF ins.expr.v \in DOMAIN old THEN (ins.res :> old[ins.expr.v]) @@ old
                    ELSE old
               [] ins.op \in {"Set", "PushMemory", "PopMemory"} ->
                    (ins.res :> <<b, i>>) @@ old
               [] OTHER -> old

RunStep ==
    /\ stage = "run"
    /\ \E r \in {RunBlock(g, entry, pc, vals, args)} :
            /\ pc' = r.next
            /\ vals' = r.vals
            /\ out' = r.out
            /\ stage' = IF r.next = 0 THEN "done" ELSE "run"
    /\ origin' = IF opt.fold \/ opt.cse THEN origin
                 ELSE Origins(g.blocks[pc], origin, pc, Len(g.blocks[pc].instr))
    /\ steps' = steps + 1
    /\ UNCHANGED <<compiled, args, want>>

Next == Translate \/ FindStep \/ CheckAndFold \/ Eliminate \/ Lower \/ Call \/ RunStep

Spec == Init /\ [][Next]_vars

-----------------------------------------------------------------------------
(* The code a body is compiled to has the outcome of the body: its value   *)
(* or its panic, with and without optimisations, and it ends when the body *)
(* does.  A body that ends goes through at most Fuel iterations, and its   *)
(* code runs every block at most once in each and once outside.  At the    *)
(* heart of it are the phis: SSA construction in emit/cfg.rs gives a block the values of   *)
(* the predecessor that creates it, and is right only when the dirty       *)
(* trackers of codegen found every variable that differs between the       *)
(* predecessors.                                                           *)
SameOutcome ==
    /\ stage = "done" => out = want
    /\ stage = "run" => steps <= (Fuel + 1) * Len(g.blocks)

(* Reaching definitions are complete: where the analysis knows definitions *)
(* of a variable, the one it has its value from at run time is among them. *)
(* Folding replaces a variable on the strength of this.                    *)
DefsComplete ==
    stage = "run" /\ ~opt.fold /\ ~opt.cse =>
        \A v \in DOMAIN rd.defs[pc] \cap DOMAIN origin :
            origin[v] \in DOMAIN rd.defs[pc][v]

(* find_undefined_variables refuses a function before any call of it can   *)
(* read a variable that has no value.                                      *)
UndefinedRefused == stage \in {"run", "done"} => want # UndefinedRead
=============================================================================
