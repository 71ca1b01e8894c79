---------------------------- MODULE MCDeadStorage ----------------------------
(***************************************************************************)
(* Families of small control flow graphs for the dead storage pass: every  *)
(* graph of a shape whose instructions are taken from a set.               *)
(***************************************************************************)
EXTENDS DeadStorage

ArrayCell(n) == [k |-> "elem", n |-> n]

AllCells == {Lit(0), Lit(1), ArrayCell(0), ArrayCell(1)}

\* The two state variables differ, and so do the two elements; the arguments,
\* which are used as indices, may be equal.
Differing ==
  {[args |-> ("a" :> 0) @@ ("b" :> j), sto |-> [c \in AllCells |-> (c.n + k) % 2]] :
     j \in {0, 1}, k \in {0, 1}}

\* All cells are the same, and so state variables used as indices are.
Same == {[args |-> ("a" :> 0) @@ ("b" :> 0), sto |-> [c \in AllCells |-> 0]]}

Calls == Differing \cup Same

Sequence(pre, Ops, n) ==
  {<<pre \o ops \o <<Return>> >> : ops \in [1 .. n -> Ops]}

Diamond(As, Bs, Cs, Ds) ==
  {<< <<a, Branch({2, 3})>>, <<b, Branch({4})>>, <<c, Branch({4})>>, <<d, Return>> >> :
     a \in As, b \in Bs, c \in Cs, d \in Ds}

Loop(As, Bs, Cs, Ds) ==
  {<< <<a, Branch({2})>>, <<b, Branch({3, 4})>>, <<c, Branch({2})>>, <<d, Return>> >> :
     a \in As, b \in Bs, c \in Cs, d \in Ds}

\* Code that reads and writes two state variables.
LitOps ==
  {LoadStorage("x", Lit(0)), LoadStorage("y", Lit(0)), LoadStorage("y", Lit(1)),
   SetStorage(Lit(0), Lit(1)), SetStorage(Lit(0), Var("x")), Set("x", Var("y")), Call}

Straight == Sequence(<<>>, LitOps, 4)

\* Code on array elements, with two arguments as indices.
ElemOps ==
  {LoadStorage("x", Elem("i")), LoadStorage("y", Elem("i")), LoadStorage("y", Elem("j")),
   SetStorage(Elem("i"), Lit(0)), SetStorage(Elem("j"), Lit(1)),
   SetStorage(Elem("j"), Var("x")), Set("i", Var("j")), Set("i", Ext("j"))}

\* The body writes arr[i], and then maybe again, before the next i.
Iterations ==
  {<< <<Set("i", Arg("a")), Branch({2})>>,
      <<SetStorage(Elem("i"), Lit(0)), Branch({3, 4})>>,
      <<SetStorage(Elem("i"), Lit(1)), Set("i", Arg("b")), Branch({2})>>,
      <<Return>> >>}

Elements == Sequence(<<Set("i", Arg("a")), Set("j", Arg("b"))>>, ElemOps, 3)
              \cup Iterations

\* Branches and loops whose storage is read after the last join only.
StoreOps ==
  {SetStorage(Lit(0), Lit(1)), SetStorage(Lit(1), Lit(1)), Call, ExternalCall(TRUE)}

Paths == Diamond(StoreOps, StoreOps, StoreOps, LitOps)
           \cup Loop(StoreOps, StoreOps, StoreOps, LitOps)

\* The graphs on which the pass is right.
Supported == Straight \cup Elements \cup Paths
=============================================================================
