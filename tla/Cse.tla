-------------------------------- MODULE Cse --------------------------------
(***************************************************************************)
(* Common subexpression elimination                                        *)
(* (src/src/codegen/subexpression_elimination/).  The graph without its    *)
(* back edges is walked three times in topological order: backwards, to    *)
(* find for every block the expressions computed after it; forwards, to    *)
(* find the expressions that are computed again while they are available;  *)
(* and forwards once more, to replace them by variables.                   *)
(*                                                                         *)
(* A set of available expressions is [mem, map, mapped]: mem gives the     *)
(* node of a number, map the number of the node for a kind of expression,  *)
(* <<operator, node, node>> or <<"var", v, 0>> and so on, and mapped the   *)
(* node whose value a variable holds.  A node keeps the variable that      *)
(* holds it (0 for none, Invalidated), the block where it was first seen   *)
(* and the block it has to be evaluated in instead (0 for none).           *)
(***************************************************************************)
EXTENDS ConstantFolding

Invalidated == -1

EmptySet == [mem |-> <<>>, map |-> <<>>, mapped |-> <<>>]

Commutative == {"add", "wadd", "mul", "equal"}

LeafKey(e) == IF e.k = "var" THEN <<"var", e.v, 0>> ELSE <<e.k, e.n, 0>>

Leaves == {"var", "arg", "num", "bool"}

Lookup(set, key) == IF key \in DOMAIN set.map THEN set.map[key] ELSE 0

Either(m, n) == IF m # 0 THEN m ELSE n

(* The node of an expression, or 0.                                        *)
RECURSIVE FindExpression(_, _)
FindExpression(set, e) ==
    CASE e.k \in Leaves -> Lookup(set, LeafKey(e))
      [] e.k \in BinOps ->
            LET l == FindExpression(set, e.l)
                m == FindExpression(set, e.r)
            IN  IF l = 0 \/ m = 0 THEN 0
                ELSE Either(Lookup(set, <<e.k, l, m>>),
                            IF e.k \in Commutative THEN Lookup(set, <<e.k, m, l>>) ELSE 0)
      [] OTHER -> 0

-----------------------------------------------------------------------------
(* Kills.                                                                  *)

RECURSIVE Descendants(_, _)
Descendants(mem, ids) ==
    LET more == ids \cup UNION {mem[n].children : n \in ids}
    IN  IF more = ids THEN ids ELSE Descendants(mem, more)

(* The node of a variable goes with everything computed from it.           *)
KillVar(set, v) ==
    LET key == <<"var", v, 0>>
        Without(dead) ==
            [set EXCEPT
                !.mem = [n \in DOMAIN @ \ dead |-> [@[n] EXCEPT !.children = @ \ dead]],
                !.map = [k \in DOMAIN @ \ {set.mem[n].type : n \in dead} |-> @[k]]]
    IN  IF key \notin DOMAIN set.map THEN set
        ELSE Let(Without, Descendants(set.mem, {set.map[key]}))

(* A variable that is assigned no longer stands for an expression.         *)
RemoveMapped(set, v) ==
    IF v \notin DOMAIN set.mapped THEN set
    ELSE LET n == set.mapped[v]
             s == [set EXCEPT !.mapped = Drop(@, v)]
         IN  IF n \in DOMAIN set.mem /\ set.mem[n].available > 0
             THEN [s EXCEPT !.mem[n].available = 0] ELSE s

KillLoopVariables(set, vs) ==
    LET One(v, s) == KillVar(RemoveMapped(s, v), v)
    IN  FoldSet(One, set, vs)

-----------------------------------------------------------------------------
(* The graph without its back edges, and the order of the walk.            *)

(* Depth first search from a block; an edge to a block on the stack closes *)
(* a cycle.                                                                *)
RECURSIVE CfgDfs(_, _, _)
CfgDfs(blocks, b, s) ==
    LET Edge(t, d) ==
            IF d \in t.stack THEN [t EXCEPT !.cycle = @ \cup {d}]
            ELSE LET u == IF d \in t.visited THEN t ELSE CfgDfs(blocks, d, t)
                 IN  [u EXCEPT !.dag = @ \cup {<<b, d>>}]
        done == FoldLeft(Edge, [s EXCEPT !.stack = @ \cup {b}], Successors(blocks[b]))
    IN  [done EXCEPT !.stack = @ \ {b}, !.visited = @ \cup {b}]

(* A block follows the last of the blocks before it.                       *)
RECURSIVE VisitingOrder(_, _, _, _)
VisitingOrder(blocks, dag, queue, order) ==
    IF queue = <<>> THEN order
    ELSE LET b == Head(queue)
             done == {order[i] : i \in DOMAIN order} \cup {b}
             new == SelectSeq(Successors(blocks[b]),
                        LAMBDA d : <<b, d>> \in dag /\ \A e \in dag : e[2] = d => e[1] \in done)
         IN  VisitingOrder(blocks, dag, Tail(queue) \o (IF Len(new) = 2 /\ new[1] = new[2]
                                                       THEN <<new[1]>> ELSE new),
                           Append(order, b))

CfgAsDag(blocks) ==
    LET d == CfgDfs(blocks, 1, [visited |-> {}, stack |-> {}, cycle |-> {}, dag |-> {}])
    IN  [dag |-> d.dag, cycle |-> d.cycle, order |-> VisitingOrder(blocks, d.dag, <<1>>, <<>>)]

Preds(dag, b) == {e[1] : e \in {e \in dag : e[2] = b}}
Succs(dag, b) == {e[2] : e \in {e \in dag : e[1] = b}}

(* The flow that starts in a block and is divided over the edges backwards *)
(* is whole again in the blocks every path to it goes through.             *)
RECURSIVE AllFlow(_, _, _)
AllFlow(dag, d, b) ==
    \/ d = b
    \/ Preds(dag, b) # {} /\ \A c \in Preds(dag, b) : AllFlow(dag, d, c)

(* find_ancestor: the deepest block on every path to both, after which the *)
(* expression is computed somewhere; 0 if there is none.                   *)
FindParentBlock(ant, b, c, e) ==
    LET ancestors == {d \in DOMAIN ant.after : /\ AllFlow(ant.dag, d, b)
                                               /\ AllFlow(ant.dag, d, c)
                                               /\ FindExpression(ant.after[d], e) # 0}
    IN  IF b = c THEN b
        ELSE IF ancestors = {} THEN 0
        ELSE CHOOSE d \in ancestors : \A o \in ancestors : AllFlow(ant.dag, o, d)

-----------------------------------------------------------------------------
(* Meeting and uniting sets.                                               *)

(* The expressions available on both ways into a block.  One that has      *)
(* different nodes is to be evaluated where the ways part.                 *)
IntersectSets(s1, s2, ant) ==
    LET keep == {k \in DOMAIN s1.map \cap DOMAIN s2.map :
                    k[1] = "var" => s1.map[k] = s2.map[k]}
        differ == {k \in keep : s1.map[k] \notin DOMAIN s2.mem}
        maintain == {s1.map[k] : k \in differ}
        Available(m, n) ==
            IF m > 0 /\ n > 0 THEN (IF m = n THEN m ELSE Invalidated)
            ELSE IF n = Invalidated THEN Invalidated ELSE m
        Node(n) ==
            IF n \in maintain
            THEN LET node == s1.mem[n]
                     other == s2.mem[s2.map[CHOOSE k \in differ : s1.map[k] = n]]
                 IN  [node EXCEPT !.children = {},
                        !.parent = FindParentBlock(ant, node.block, other.block, node.ref),
                        !.available = Available(node.available, other.available)]
            ELSE [s1.mem[n] EXCEPT !.children = @ \cap (s2.mem[n].children \cup maintain)]
    IN  [s1 EXCEPT
            !.mem = [n \in {n \in DOMAIN @ : n \in DOMAIN s2.mem \/ n \in maintain} |-> Node(n)],
            !.map = [k \in keep |-> @[k]]]

(* The operands of a key that is new are renamed to the nodes the set has  *)
(* for them.                                                               *)
UnionSets(s1, s2) ==
    LET same == {k \in DOMAIN s2.map : k \in DOMAIN s1.map}
        Rename(n) == IF \E k \in same : s2.map[k] = n
                     THEN s1.map[CHOOSE k \in same : s2.map[k] = n] ELSE n
        NewKey(k) == IF k[1] \in BinOps THEN <<k[1], Rename(k[2]), Rename(k[3])>> ELSE k
        new == DOMAIN s2.map \ same
        added == [k \in {NewKey(j) : j \in new} |->
                    s2.map[CHOOSE j \in new : NewKey(j) = k]]
    IN  [s1 EXCEPT !.map = added @@ @, !.mem = @ @@ s2.mem]

-----------------------------------------------------------------------------
(* The walk over expressions.  Its state is [set, cst, next, block, fwd,   *)
(* ant]: the available expressions, the tracker of common subexpressions,  *)
(* the next node number, the current block, the direction, and what the    *)
(* backward walk found.  The tracker lists the common subexpressions with  *)
(* the variable that is to hold each (0 while there is none).              *)

NoCommon == [ids |-> <<>>, list |-> <<>>, mapped |-> <<>>, new |-> <<>>, up |-> <<>>]

AddNode(s, key, e, operands) ==
    LET n == s.next
        node == [type |-> key, children |-> {}, available |-> 0, block |-> s.block,
                 parent |-> 0, ref |-> e]
        mem == [m \in DOMAIN s.set.mem |->
                    IF m \in operands THEN [s.set.mem[m] EXCEPT !.children = @ \cup {n}]
                    ELSE s.set.mem[m]]
    IN  [id |-> n, s |-> [s EXCEPT !.next = n + 1,
                                   !.set.mem = (n :> node) @@ mem,
                                   !.set.map = (key :> n) @@ @]]

(* CommonSubExpressionTracker::add_expression: an expression met again.    *)
AddExpression(s, e, n) ==
    LET node == s.set.mem[n]
        i == Len(s.cst.list) + 1
    IN  IF e.k \in Leaves \ {"bool"} \/ node.type \in DOMAIN s.cst.ids THEN s
        ELSE [s EXCEPT
                !.cst.ids = (node.type :> i) @@ @,
                !.cst.mapped = IF node.available > 0 THEN (node.available :> i) @@ @ ELSE @,
                !.cst.list = Append(@, [var |-> IF node.available > 0 THEN node.available ELSE 0,
                                        instantiated |-> FALSE,
                                        in_cfg |-> node.available > 0,
                                        block |-> node.block,
                                        parent |-> node.parent])]

(* It may have to move to a block from which both places are reached; then *)
(* no existing variable can hold it.                                       *)
CheckAvailabilityOnBranches(s, key, e) ==
    IF key \notin DOMAIN s.cst.ids THEN s
    ELSE LET i == s.cst.ids[key]
             c == s.cst.list[i]
             at == Either(c.parent, c.block)
             up == FindParentBlock(s.ant, s.block, at, e)
         IN  IF up \in {0, at} THEN s
             ELSE [s EXCEPT !.cst.list[i] =
                        [c EXCEPT !.var = 0, !.in_cfg = FALSE, !.parent = up]]

RECURSIVE GenExpression(_, _)

GenBinary(e, s) ==
    LET OnLeft(l) ==
            IF l.id = 0 THEN l
            ELSE LET OnRight(m) == IF m.id = 0 THEN m
                                   ELSE AddNode(m.s, <<e.k, l.id, m.id>>, e, {l.id, m.id})
                 IN  Let(OnRight, GenExpression(e.r, l.s))
    IN  Let(OnLeft, GenExpression(e.l, s))

GenExpression(e, s) ==
    LET n == FindExpression(s.set, e)
        found == IF n # 0 THEN [id |-> n, s |-> IF s.fwd THEN AddExpression(s, e, n) ELSE s]
                 ELSE IF e.k \in Leaves THEN AddNode(s, LeafKey(e), e, {})
                 ELSE IF e.k \in BinOps THEN GenBinary(e, s)
                 ELSE [id |-> 0, s |-> s]
        Check(f) == IF f.id = 0 \/ ~s.fwd THEN f
                    ELSE [f EXCEPT !.s = CheckAvailabilityOnBranches(f.s, f.s.set.mem[f.id].type, e)]
    IN  Let(Check, found)

(* process_instruction.                                                    *)
ProcessSet(ins, s) ==
    LET v == ins.res
        s0 == [s EXCEPT !.set = RemoveMapped(IF s.fwd THEN @ ELSE KillVar(@, v), v)]
        Hold(f) ==
            LET h == IF f.id = 0 \/ f.s.set.mem[f.id].available > 0 THEN f.s
                     ELSE [f.s EXCEPT !.set.mem[f.id].available = v,
                                      !.set.mapped = (v :> f.id) @@ @]
                mapped == h.cst.mapped
                cleared == IF v \notin DOMAIN mapped THEN h
                           ELSE [h EXCEPT !.cst.mapped = Drop(@, v),
                                          !.cst.list[mapped[v]].in_cfg = FALSE,
                                          !.cst.list[mapped[v]].var = 0]
            IN  IF s.fwd THEN [cleared EXCEPT !.set = KillVar(@, v)] ELSE h
    IN  Let(Hold, GenExpression(ins.expr, s0))

ProcessInstruction(s, ins) ==
    CASE ins.op = "Set" -> ProcessSet(ins, s)
      [] ins.op = "PushMemory" -> GenExpression(Num(0), s).s
      [] ins.op = "BranchCond" -> GenExpression(ins.cond, s).s
      [] ins.op = "Return" -> GenExpression(ins.value, s).s
      [] OTHER -> s

-----------------------------------------------------------------------------
(* The backward walk: the sets of the blocks after a block are united.     *)

AnticipatedFrom(blocks, graph, loop) ==
    LET Block(w, b) ==
            LET set0 == IF b \in DOMAIN w.after THEN w.after[b] ELSE EmptySet
                set  == IF b \in graph.cycle THEN KillLoopVariables(set0, loop[b]) ELSE set0
                s0 == [set |-> set, cst |-> NoCommon, next |-> w.next, block |-> b, fwd |-> FALSE]
                Finish(s) ==
                    [next |-> s.next,
                     after |-> [c \in DOMAIN w.after \cup Preds(graph.dag, b) |->
                        IF c \notin Preds(graph.dag, b) THEN w.after[c]
                        ELSE IF c \in DOMAIN w.after THEN UnionSets(w.after[c], s.set)
                        ELSE s.set]]
            IN  Let(Finish, FoldLeft(ProcessInstruction, s0, Reverse(blocks[b].instr)))
    IN  [after |-> FoldLeft(Block, [next |-> 1, after |-> <<>>], Reverse(graph.order)).after,
         dag |-> graph.dag]

(* What a block passes on to the blocks after it.                          *)
AddNeighborBlocks(sets, set, graph, b, ant) ==
    [d \in DOMAIN sets \cup Succs(graph.dag, b) |->
        IF d \notin Succs(graph.dag, b) THEN sets[d]
        ELSE IF d \in DOMAIN sets THEN IntersectSets(sets[d], set, ant)
        ELSE set]

StartOf(w, graph, loop, b) ==
    IF b \in graph.cycle THEN KillLoopVariables(w.sets[b], loop[b]) ELSE w.sets[b]

(* The first forward walk: which expressions are common.                   *)
FindCommon(blocks, graph, loop, ant) ==
    LET Block(w, b) ==
            LET s0 == [set |-> StartOf(w, graph, loop, b), cst |-> w.cst, next |-> w.next,
                       block |-> b, fwd |-> TRUE, ant |-> ant]
                Finish(s) == [sets |-> AddNeighborBlocks(w.sets, s.set, graph, b, ant),
                              cst |-> s.cst, next |-> s.next]
            IN  Let(Finish, FoldLeft(ProcessInstruction, s0, blocks[b].instr))
    IN  FoldLeft(Block, [sets |-> 1 :> EmptySet, cst |-> NoCommon, next |-> 1], graph.order).cst

(* create_variables: a temporary for every one no variable holds.          *)
CreateVariables(cst, next_id) ==
    LET Create(w, c) ==
            IF c.var # 0 THEN [w EXCEPT !.list = Append(@, c)]
            ELSE [next |-> w.next + 1,
                  list |-> Append(w.list, [c EXCEPT !.instantiated = TRUE, !.var = w.next])]
        made == FoldLeft(Create, [next |-> next_id, list |-> <<>>], cst.list)
    IN  [cst |-> [cst EXCEPT !.list = made.list], next |-> made.next]

-----------------------------------------------------------------------------
(* The second forward walk: replacing.                                     *)

(* check_variable_available: the first evaluation of an expression that is *)
(* assigned to a variable stays; a temporary is set at its first use.      *)
(* `e' is <<>> when the expression stays.                                  *)
CheckVariableAvailable(s, key, e) ==
    IF key \notin DOMAIN s.cst.ids THEN [s |-> s, e |-> <<>>]
    ELSE LET i == s.cst.ids[key]
             c == s.cst.list[i]
             set == Set(c.var, e)
         IN  IF ~c.instantiated
             THEN [s |-> [s EXCEPT !.cst.list[i].instantiated = TRUE], e |-> <<>>]
             ELSE IF c.in_cfg THEN [s |-> s, e |-> <<Var(c.var)>>]
             ELSE [s |-> IF c.parent = 0
                         THEN [s EXCEPT !.cst.new = Append(@, set), !.cst.list[i].in_cfg = TRUE]
                         ELSE [s EXCEPT !.cst.up = Append(@, [block |-> c.parent, ins |-> set]),
                                        !.cst.list[i].in_cfg = TRUE],
                   e |-> <<Var(c.var)>>]

RECURSIVE RegenerateExpression(_, _)

rebuild_binary_expression(e, left, right) == Bin(e.k, left, right)

RegenerateBinary(e, s) ==
    LET l == RegenerateExpression(e.l, s)
        m == RegenerateExpression(e.r, l.s)
        rebuilt == rebuild_binary_expression(e, l.e, m.e)
        key1 == <<e.k, l.id, m.id>>
        key2 == <<e.k, m.id, l.id>>
        OnFirst(c) ==
            IF c.e # <<>> \/ e.k \notin Commutative THEN c
            ELSE CheckVariableAvailable(c.s, key2, rebuilt)
        Finish(c) ==
            LET n == Either(Lookup(c.s.set, key1),
                            IF e.k \in Commutative THEN Lookup(c.s.set, key2) ELSE 0)
                a == IF n # 0 THEN [id |-> n, s |-> c.s]
                     ELSE AddNode(c.s, key1, e, {l.id, m.id})
            IN  [s |-> a.s, id |-> a.id, e |-> IF c.e = <<>> THEN rebuilt ELSE c.e[1]]
    IN  IF l.id = 0 \/ m.id = 0 THEN [s |-> m.s, id |-> 0, e |-> rebuilt]
        ELSE Let(Finish, Let(OnFirst, CheckVariableAvailable(m.s, key1, rebuilt)))

RegenerateExpression(e, s) ==
    CASE e.k \in Leaves ->
            LET Leaf(f) == [s |-> f.s, id |-> f.id, e |-> e] IN Let(Leaf, GenExpression(e, s))
      [] e.k \in BinOps -> RegenerateBinary(e, s)
      [] OTHER -> [s |-> s, id |-> 0, e |-> e]

(* regenerate_instruction, with the instructions it needs before it.       *)
RegenerateInstruction(s, ins) ==
    LET Emitted(t, new) == [t EXCEPT !.cst.new = <<>>, !.instr = @ \o t.cst.new \o <<new>>]
        OnSet(f) == Emitted([f.s EXCEPT !.set = KillVar(@, ins.res)], [ins EXCEPT !.expr = f.e])
        OnCond(f) == Emitted(f.s, [ins EXCEPT !.cond = f.e])
        OnReturn(f) == Emitted(f.s, [ins EXCEPT !.value = f.e])
    IN  CASE ins.op = "Set" -> Let(OnSet, RegenerateExpression(ins.expr, s))
          [] ins.op = "BranchCond" -> Let(OnCond, RegenerateExpression(ins.cond, s))
          [] ins.op = "Return" -> Let(OnReturn, RegenerateExpression(ins.value, s))
          [] ins.op = "PushMemory" -> Emitted(GenExpression(Num(0), s).s, ins)
          [] OTHER -> Emitted(s, ins)

Replace(blocks, graph, loop, ant, cst) ==
    LET Block(w, b) ==
            LET s0 == [set |-> StartOf(w, graph, loop, b), cst |-> w.cst, next |-> w.next,
                       block |-> b, fwd |-> TRUE, ant |-> ant, instr |-> <<>>]
                Finish(s) == [sets |-> AddNeighborBlocks(w.sets, s.set, graph, b, ant),
                              cst |-> s.cst, next |-> s.next,
                              blocks |-> [w.blocks EXCEPT ![b].instr = s.instr]]
            IN  Let(Finish, FoldLeft(RegenerateInstruction, s0, blocks[b].instr))
        empty == [b \in DOMAIN blocks |-> [blocks[b] EXCEPT !.instr = <<>>]]
        start == [sets |-> 1 :> EmptySet, cst |-> cst, next |-> 1, blocks |-> empty]
    IN  FoldLeft(Block, start, graph.order)

(* add_parent_block_instructions: before the jump of the parent block.     *)
AddParentBlockInstructions(blocks, up) ==
    LET Insert(bs, u) ==
            [bs EXCEPT ![u.block].instr = Front(@) \o <<u.ins, Last(@)>>]
    IN  FoldLeft(Insert, blocks, up)

CommonSubExpressionElimination(g, loop) ==
    LET OnGraph(graph) ==
            LET OnAnt(ant) ==
                    LET OnCommon(c) ==
                            LET Done(w) ==
                                    [g EXCEPT !.next_id = c.next,
                                        !.blocks = AddParentBlockInstructions(w.blocks, w.cst.up)]
                            IN  Let(Done, Replace(g.blocks, graph, loop, ant, c.cst))
                    IN  Let(OnCommon, CreateVariables(FindCommon(g.blocks, graph, loop, ant),
                                                      g.next_id))
            IN  Let(OnAnt, AnticipatedFrom(g.blocks, graph, loop))
    IN  Let(OnGraph, CfgAsDag(g.blocks))
=============================================================================
