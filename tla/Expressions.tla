----------------------------- MODULE Expressions ----------------------------
(* A declaration `T r = e;` on its way through the compiler: semantic        *)
(* analysis, code generation, constant folding, and then what the emitted    *)
(* code does with and without the folding.                                   *)
EXTENDS Machine

CONSTANTS
    Declarations,     \* the source, the types of its variables, the type T, unchecked or not
    Boundary(_)       \* values of a type, as bit patterns

VARIABLES
    program,     \* the source, the types and values of its variables
    phase,
    typed,       \* the expression, resolved
    code,        \* the instructions
    folded,      \* the same, folded, and whether errors were reported
    outcome      \* of the code, and of the folded code
vars == <<program, phase, typed, code, folded, outcome>>

Program(e, types, values, ty, unchecked, known, target) ==
    [e |-> e, types |-> types, values |-> values, ty |-> ty, unchecked |-> unchecked,
     known |-> known, target |-> target]
Context(p) == [types |-> p.types, unchecked |-> p.unchecked]
Result(p) == Len(p.types) + 1

(* Before the declaration, a local variable was given its argument or, if it *)
(* is known, a literal.                                                      *)
Literal(ty, v) ==
    CASE ty.k = "bool" -> BoolLiteral(v)
      [] ty.k = "bytes" -> BytesLiteral(ty.n, v)
      [] ty.k \notin {"bool", "bytes"} -> NumberLiteral(ty, NumberOf(ty, v))
Initializer(p, i) ==
    IF p.known THEN Literal(p.types[i], p.values[i]) ELSE Expr("arg", p.types[i], i, <<>>)
Prelude(p) ==
    LET local == SelectSeq([i \in 1..Len(p.types) |-> i], LAMBDA i : p.types[i].at = "value")
    IN  [n \in 1..Len(local) |-> Set(local[n], Initializer(p, local[n]))]
VariableDecl(p, l) == (Prelude(p) \o l.code) \o <<Set(Result(p), l.e)>>
Memory(p) ==
    [i \in {-j : j \in DOMAIN p.types} \cup DOMAIN p.types |-> IF i < 0 THEN p.values[-i] ELSE p.values[i]]

Vectors(types) ==
    CASE Len(types) = 0 -> {<<>>}
      [] Len(types) = 1 -> {<<a>> : a \in Boundary(types[1])}
      [] Len(types) = 2 -> {<<a, b>> : a \in Boundary(types[1]), b \in Boundary(types[2])}
      [] Len(types) = 3 -> {<<a, b, c>> : a \in Boundary(types[1]), b \in Boundary(types[2]), c \in Boundary(types[3])}

(* Operands for which the code does what is stated below.  LLVM leaves a     *)
(* shift by the width or more undefined, and the amount is extended with the *)
(* sign of the left operand; folding extends a negative literal to an        *)
(* unsigned type without making it positive, and panics at one cut to an     *)
(* enum or a balance; powers stay small.                                     *)
RECURSIVE Nodes(_)
Nodes(e) == {e} \cup UNION {Nodes(e.args[i]) : i \in DOMAIN e.args}
SmallShift(e, p) ==
    e.k \in {"shl", "shr"} /\ e.args[1].k = "var" =>
        IF e.args[2].k = "num" THEN e.args[2].v < bits(p.types[e.args[1].v])
        ELSE p.values[e.args[2].v] < Least(bits(p.types[e.args[1].v]), 2^(bits(p.types[e.args[2].v]) - 1))
SmallPower(e, p) ==
    e.k = "power" /\ e.args[2].k = "var" => p.values[e.args[2].v] <= 1 \/ BitLength[p.values[1]] * p.values[e.args[2].v] <= 24
FoldedSign(e, p) ==
    p.known /\ e.k = "call" /\ e.args[1].k = "var" =>
        ~(p.types[e.args[1].v].k = "int" /\ e.ty.k = "uint" /\ bits(e.ty) > bits(p.types[e.args[1].v]))
FoldedType(p) == p.known => p.ty.k \notin {"enum", "value"}
Supported(p) ==
    FoldedType(p) /\ \A e \in Nodes(p.e) : SmallShift(e, p) /\ SmallPower(e, p) /\ FoldedSign(e, p)

Targets(e) == IF e.k \in {"div", "mod"} THEN {"solana", "polkadot"} ELSE {"solana"}
Init ==
    /\ \E d \in Declarations : \E values \in Vectors(d.types), known \in BOOLEAN, target \in Targets(d.e) :
        /\ program = Program(d.e, d.types, values, d.ty, d.unchecked, known, target)
        /\ Supported(program)
    /\ phase = "source" /\ typed = Err /\ code = <<>> /\ folded = Pass(<<>>, <<>>, FALSE)
    /\ outcome = [plain |-> Running(TRUE, <<>>), folded |-> Running(TRUE, <<>>)]

ResolveDeclaration ==
    /\ phase = "source"
    /\ typed' = Declaration(program.e, program.ty, Context(program))
    /\ phase' = IF IsErr(typed') THEN "refused" ELSE "typed"
    /\ UNCHANGED <<program, code, folded, outcome>>
GenerateCode ==
    /\ phase = "typed"
    /\ code' = VariableDecl(program, Generate(typed, Result(program) + 1))
    /\ phase' = "code"
    /\ UNCHANGED <<program, typed, folded, outcome>>
FoldConstantsInCode ==
    /\ phase = "code"
    /\ folded' = FoldCode(code, <<>>, 1, <<>>)
    /\ phase' = "folded"
    /\ UNCHANGED <<program, typed, code, outcome>>
RunCode ==
    /\ phase = "folded"
    /\ outcome' = [plain |-> Execute(code, 1, Memory(program), program.target),
                   folded |-> Execute(folded.code, 1, Memory(program), program.target)]
    /\ phase' = "done"
    /\ UNCHANGED <<program, typed, code, folded>>
Finished ==
    /\ phase \in {"refused", "done"}
    /\ UNCHANGED vars
Next == ResolveDeclaration \/ GenerateCode \/ FoldConstantsInCode \/ RunCode \/ Finished
Spec == Init /\ [][Next]_vars

-----------------------------------------------------------------------------
(* What an expression of Solidity means: whole numbers, which are cut to the *)
(* type only where the source says so.                                       *)
Cut(ty, v) == IF ty = NoType THEN v ELSE NumberOf(ty, v % 2^bits(ty))

(* The smallest integer type that holds all values of both types             *)
IntTypes == {Uint(n) : n \in Sizes} \cup {Sint(n) : n \in Sizes}
Holds(t, s) ==
    CASE is_signed_int(t) = is_signed_int(s) -> bits(t) >= bits(s)
      [] is_signed_int(t) /\ ~is_signed_int(s) -> bits(t) > bits(s)
      [] OTHER -> FALSE
HoldsBoth(c, s, t) == Holds(c, s) /\ Holds(c, t)
CommonInteger(s, t) ==
    IF \E c \in IntTypes : HoldsBoth(c, s, t)
    THEN CHOOSE c \in IntTypes : HoldsBoth(c, s, t) /\ \A d \in IntTypes : HoldsBoth(d, s, t) => bits(c) <= bits(d)
    ELSE NoType
CommonType(s, t) ==
    IF s = NoType \/ s = t THEN t
    ELSE IF t = NoType THEN s
    ELSE CASE s.k = "bytes" /\ t.k = "bytes" -> Bytes(Most(s.n, t.n))
           [] s.k \in {"uint", "int"} /\ t.k \in {"uint", "int"} -> CommonInteger(s, t)
           [] OTHER -> NoType

(* NoType for a number, which is of any type                                 *)
RECURSIVE StaticType(_, _)
StaticType(e, p) ==
    CASE e.k = "num" -> NoType
      [] e.k \in {"str", "call"} -> e.ty
      [] e.k \in EqualOps \cup OrderOps \cup {"truth", "not", "andalso", "orelse"} -> Bool
      [] e.k \in {"var", "assign", "assignop", "preinc", "predec", "postinc", "postdec"} -> deref_any(p.types[e.v])
      [] e.k \in {"negate", "bitnot", "shl", "shr"} -> StaticType(e.args[1], p)
      [] e.k = "cond" -> CommonType(StaticType(e.args[2], p), StaticType(e.args[3], p))
      [] e.k \in BinaryOps \ {"shl", "shr"} -> CommonType(StaticType(e.args[1], p), StaticType(e.args[2], p))

(* Bytes are compared and combined from the front.                           *)
Aligned(v, from, to) == IF from.k = "bytes" /\ to.k = "bytes" THEN v * 2^(Byte * (to.n - from.n)) ELSE v
Converted(v, from, to) ==
    CASE from.k = "bytes" /\ to.k = "bytes" ->
            IF to.n > from.n THEN Aligned(v, from, to) ELSE v \div 2^(Byte * (from.n - to.n))
      [] from.k # "bytes" \/ to.k # "bytes" -> Cut(to, v)
One(b) == IF b THEN 1 ELSE 0
Order(op, a, b) ==
    CASE op = "equal" -> a = b
      [] op = "notequal" -> a # b
      [] op = "less" -> a < b
      [] op = "lessequal" -> a <= b
      [] op = "more" -> a > b
      [] op = "moreequal" -> a >= b

(* The one quotient that its type has no place for                           *)
OddPair(k, a, b, ty) == k = "div" /\ b = -1 /\ is_signed_int(ty) /\ a = -2^(bits(ty) - 1)
MeaningOf(k, a, b, ty, unchecked) ==
    CASE k \in {"div", "mod"} -> IF b = 0 THEN 0 ELSE IF OddPair(k, a, b, ty) THEN a ELSE Calculate(k, a, b)
      [] k = "shl" \/ (unchecked /\ k \in {"add", "sub", "mul", "power"}) -> Cut(ty, Calculate(k, a, b))
      [] k \in EqualOps \cup OrderOps -> One(Order(k, a, b))
      [] k \in {"shr", "and", "or", "xor"} \/ (~unchecked /\ k \in {"add", "sub", "mul", "power"}) -> Calculate(k, a, b)
RECURSIVE Meaning(_, _)
Both2(e, p, s, t) ==
    MeaningOf(e.k, Aligned(Meaning(e.args[1], p), s, CommonType(s, t)), Aligned(Meaning(e.args[2], p), t, CommonType(s, t)),
              IF e.k = "shl" THEN s ELSE CommonType(s, t), p.unchecked)
NewValue(e, p) ==
    CASE e.k = "assign" -> Meaning(e.args[1], p)
      [] e.k = "assignop" -> Converted(Meaning(e.args[1], p), StaticType(e.args[1], p), StaticType(e, p))
      [] e.k \in {"preinc", "postinc"} -> MeaningOf("add", Meaning(Var(e.v), p), 1, StaticType(e, p), p.unchecked)
      [] e.k \in {"predec", "postdec"} -> MeaningOf("sub", Meaning(Var(e.v), p), 1, StaticType(e, p), p.unchecked)
Meaning(e, p) ==
    CASE e.k \in {"num", "str", "truth"} -> e.v
      [] e.k \in {"var", "postinc", "postdec"} -> NumberOf(p.types[e.v], p.values[e.v])
      [] e.k \in {"assign", "assignop", "preinc", "predec"} -> NewValue(e, p)
      [] e.k = "negate" -> MeaningOf("sub", 0, Meaning(e.args[1], p), StaticType(e, p), p.unchecked)
      [] e.k = "bitnot" -> Cut(StaticType(e, p), -Meaning(e.args[1], p) - 1)
      [] e.k = "not" -> 1 - Meaning(e.args[1], p)
      [] e.k = "andalso" -> IF Meaning(e.args[1], p) = 1 THEN Meaning(e.args[2], p) ELSE 0
      [] e.k = "orelse" -> IF Meaning(e.args[1], p) = 1 THEN 1 ELSE Meaning(e.args[2], p)
      [] e.k = "cond" -> IF Meaning(e.args[1], p) = 1 THEN Meaning(e.args[2], p) ELSE Meaning(e.args[3], p)
      [] e.k = "call" -> Converted(Meaning(e.args[1], p), StaticType(e.args[1], p), e.ty)
      [] e.k \in BinaryOps \cup EqualOps \cup OrderOps ->
            Both2(e, p, StaticType(e.args[1], p), StaticType(e.args[2], p))

(* `T r = e;` gives r, and the variable e assigns to, the value that the     *)
(* source means: no overflow, limb, sign or conversion that the types bring  *)
(* in changes it.  The other variables keep theirs.                          *)
Mutated(e) == e.k \in {"assign", "assignop", "preinc", "predec", "postinc", "postdec"}
Valued(p, vals, i) == NumberOf(p.types[i], vals[i])
KeepsMeaning ==
    phase = "done" /\ outcome.plain.ok =>
        /\ NumberOf(program.ty, outcome.plain.vals[Result(program)])
            = Converted(Meaning(program.e, program), StaticType(program.e, program), program.ty)
        /\ \A i \in DOMAIN program.types :
            Valued(program, outcome.plain.vals, i)
                = IF Mutated(program.e) /\ program.e.v = i THEN NewValue(program.e, program)
                  ELSE NumberOf(program.types[i], program.values[i])

-----------------------------------------------------------------------------
(* What the resolved expression does, by its types: a checked result that    *)
(* does not fit, a division by zero or a value too large for a balance ends  *)
(* the run.  Literals are calculated with beforehand, without a type.        *)
Fine(v) == [ok |-> TRUE, v |-> v]
Fault == [ok |-> FALSE, v |-> 0]
Fitting(e, v) == IF e.unchecked THEN Fine(Cut(e.ty, v)) ELSE IF InRange(e.ty, v) THEN Fine(v) ELSE Fault
RECURSIVE ByType(_, _)
TypedBinary(e, l, r) ==
    CASE ~l.ok \/ ~r.ok -> Fault
      [] l.ok /\ r.ok /\ e.op \in {"div", "mod"} ->
            IF r.v = 0 THEN Fault ELSE Fine(Cut(e.ty, Calculate(e.op, l.v, r.v)))
      [] l.ok /\ r.ok /\ e.op \in {"add", "sub", "mul", "power"} -> Fitting(e, Calculate(e.op, l.v, r.v))
      [] l.ok /\ r.ok /\ e.op \in {"and", "or", "xor", "shl", "shr"} -> Fine(Cut(e.ty, Calculate(e.op, l.v, r.v)))
      [] l.ok /\ r.ok /\ e.op \in EqualOps \cup OrderOps -> Fine(One(Order(e.op, l.v, r.v)))
TypedUnary(e, x) ==
    IF ~x.ok THEN Fault ELSE
    CASE e.op \in {"zext", "sext", "trunc", "cast", "load", "storageload"} -> Fine(Cut(e.ty, x.v))
      [] e.op = "checkingtrunc" -> IF InRange(e.ty, x.v) THEN x ELSE Fault
      [] e.op = "not" -> Fine(1 - x.v)
      [] e.op = "bitnot" -> Fine(Cut(e.ty, -x.v - 1))
      [] e.op = "negate" -> Fitting(e, -x.v)
      [] e.op \in {"preinc", "postinc"} -> Fitting(e, x.v + 1)
      [] e.op \in {"predec", "postdec"} -> Fitting(e, x.v - 1)
TypedShort(e, l) ==
    IF ~l.ok \/ l.v = One(e.op = "orelse") THEN l ELSE ByType(e.args[2], program)
TypedChoice(e, c) ==
    IF ~c.ok THEN Fault ELSE ByType(e.args[IF c.v = 1 THEN 2 ELSE 3], program)
TypedTerm(e, p) ==
    CASE e.op \in {"number", "truth", "bytes"} -> Fine(e.v)
      [] e.op = "var" -> Fine(NumberOf(e.ty, p.values[e.v]))
      [] e.op = "assign" -> ByType(e.args[2], p)
      [] e.op = "cond" -> TypedChoice(e, ByType(e.args[1], p))
      [] e.op \in {"andalso", "orelse"} -> TypedShort(e, ByType(e.args[1], p))
      [] Len(e.args) = 1 -> TypedUnary(e, ByType(e.args[1], p))
      [] Len(e.args) = 2 /\ e.op \notin {"assign", "andalso", "orelse"} ->
            TypedBinary(e, ByType(e.args[1], p), ByType(e.args[2], p))
ByType(e, p) ==
    IF eval_constants_in_expression(e).ok THEN Fine(eval_constants_in_expression(e).v) ELSE TypedTerm(e, p)

(* The code ends early exactly where the resolved expression says that it    *)
(* does: every overflow is found, at every width, and nothing else is taken  *)
(* for one.  (The one signed quotient that does not fit wraps or traps.)     *)
OddQuotient(p) ==
    p.e.k = "div" /\ OddPair("div", Meaning(p.e.args[1], p), Meaning(p.e.args[2], p), StaticType(p.e, p))
RevertsExactly ==
    phase = "done" =>
        \/ outcome.plain.ok = ByType(typed, program).ok
        \/ ~outcome.plain.ok /\ OddQuotient(program) /\ bits(program.ty) = Native /\ program.target # "solana"

(* Folding changes nothing the program does; where it reports an error, the  *)
(* program would have ended early, or has branches: the operand at fault may *)
(* be one that is never reached.                                             *)
HasBranch(c) == \E i \in DOMAIN c : c[i].op = "branch"
FoldingAgrees ==
    phase = "done" =>
        IF folded.bad THEN HasBranch(code) \/ ~outcome.plain.ok \/ OddQuotient(program)
        ELSE /\ outcome.folded.ok = outcome.plain.ok
             /\ outcome.plain.ok =>
                    \A i \in 1..Result(program) : outcome.folded.vals[i] = outcome.plain.vals[i]
=============================================================================
