--------------------------- MODULE MCInheritance ---------------------------
(***************************************************************************)
(* Small programs for Inheritance, one family for each question.           *)
(***************************************************************************)
EXTENDS Inheritance

LOCAL INSTANCE Relation

Stmt(op, c, name, args) == [op |-> op, c |-> c, name |-> name, args |-> args]
CallTo(name)     == Stmt("call", 0, name, <<>>)
SuperTo(name)    == Stmt("super", 0, name, <<>>)
AtTo(c, name)    == Stmt("at", c, name, <<>>)
NewOf(c)         == Stmt("new", c, "new", <<>>)
SolanaNew(c)     == Stmt("C.new", c, "new", <<>>)
SolanaNewIn(c)   == Stmt("C.new{}", c, "new", <<>>)
Placeholder      == Stmt("_", 0, "_", <<>>)

Part(ty, name, arity, vis, v, over, body) ==
  [ty |-> ty, name |-> name, arity |-> arity, vis |-> vis, mut |-> "nonpayable", virt |-> v,
   over |-> over, sel |-> 0, body |-> body, attrs |-> <<>>]
Fun(name, v, over, body) == Part("function", name, 0, "public", v, over, body)
Run(body)                == Fun("run", FALSE, <<>>, <<body>>)
With(p, attrs)           == [p EXCEPT !.attrs = attrs]
Attr(no, name, args)     == [no |-> no, name |-> name, args |-> args]
Ctor(arity, attrs)       == With(Part("constructor", "new", arity, "public", FALSE, <<>>, <<<<>>>>), attrs)

NoInit == Stmt("none", 0, "none", <<>>)
Zero   == Stmt("lit", 0, "lit", <<>>)
Is(no)         == [no |-> no, args |-> <<>>]
IsWith(no, a)  == [no |-> no, args |-> <<a>>]
Contract(kind, bs, parts) == [kind |-> kind, bases |-> bs, init |-> NoInit, parts |-> parts]
WithInit(k, st)           == [k EXCEPT !.init = st]

(* Overriding in a chain, with two bases and in a diamond.                 *)
First  == {<<>>} \union {<<Fun("f", v, <<>>, <<b>>)>> : v \in BOOLEAN, b \in {<<>>, <<CallTo("g")>>}}
            \union {<<Fun("f", TRUE, <<>>, <<>>)>>}
Middle(b) == {<<>>} \union {<<Fun("f", v, o, <<body>>)>> : v \in BOOLEAN, o \in {<<>>, <<<<>>>>, <<<<b>>>>},
                                                           body \in {<<>>, <<AtTo(b, "f")>>}}
               \union {<<Fun("f", TRUE, <<<<>>>>, <<<<SuperTo("f")>>>>)>>}
Final(bs) == {<<>>} \union {<<Fun("f", FALSE, o, <<<<>>>>)>> : o \in {<<>>, <<<<>>>>, <<bs>>}}
Starts    == {<<Run(<<CallTo("f")>>)>>}

Chains == {<<Contract("abstract", <<>>, a \o r), Contract("abstract", <<Is(1)>>, b), Contract("contract", <<Is(2)>>, c)>> :
             a \in First, b \in Middle(1), c \in Final(<<1, 2>>), r \in Starts}
Bodyless(part)   == part.body = <<>>
NamesBase(part)  == part.body = <<<<AtTo(1, "f")>>>>
Pairs  == {<<Contract("abstract", <<>>, a), Contract("abstract", <<>>, b),
             Contract("contract", bs, c \o <<Run(<<CallTo("f"), SuperTo("f")>>)>>)>> :
             a \in First, b \in First, c \in Final(<<2, 1>>), bs \in {<<Is(1), Is(2)>>, <<Is(2), Is(1)>>}}
Tip  == {<<>>} \union {<<Fun("f", TRUE, <<>>, b)>> : b \in {<<>>, <<<<>>>>}}
Side == {<<>>} \union {<<Fun("f", v, <<<<>>>>, <<b>>)>> : v \in BOOLEAN, b \in {<<>>, <<SuperTo("f")>>}}
Diamonds ==
  {<<Contract("abstract", <<>>, a \o r), Contract("abstract", <<Is(1)>>, b), Contract("abstract", <<Is(1)>>, c),
     Contract("contract", bs, d)>> :
     a \in Tip, b \in Side, c \in Side, d \in Final(<<1, 2, 3>>), r \in Starts,
     bs \in {<<Is(2), Is(3)>>, <<Is(3), Is(2)>>}}

(* Interfaces, visibility, overloads and selectors.                        *)
Vis(p, vis) == [p EXCEPT !.vis = vis]
One(p)      == [p EXCEPT !.arity = 1]
Sel(p, n)   == [p EXCEPT !.sel = n]
Interfaces ==
  {<<Contract("interface", <<>>, <<Vis(Fun("f", FALSE, <<>>, <<>>), "external")>>),
     Contract("abstract", <<Is(1)>>, b), Contract("contract", <<Is(2)>>, c \o <<Run(<<CallTo("g")>>)>>)>> :
     b \in {<<>>, <<Fun("f", TRUE, <<>>, <<<<>>>>)>>, <<Fun("g", TRUE, <<>>, <<>>)>>},
     c \in {<<Vis(Fun("f", FALSE, o, <<<<>>>>), v)>> \o <<Vis(Fun("g", FALSE, o, <<<<CallTo("f")>>>>), w)>> :
              o \in {<<>>, <<<<>>>>}, v \in {"public", "external", "internal"}, w \in {"public", "private", "internal"}}}
Overloads ==
  {<<Contract("abstract", <<>>, <<Sel(Fun("f", TRUE, <<>>, <<<<>>>>), s), Run(<<CallTo("f")>> \o (IF g = <<>> THEN <<>> ELSE <<Stmt("call", 0, "f", <<Lit(1)>>)>>))>> \o g),
     Contract("contract", <<Is(1)>>, <<Sel(Fun("f", FALSE, <<<<>>>>, <<<<>>>>), t), Sel(One(Fun("f", FALSE, IF g = <<>> THEN <<>> ELSE <<<<>>>>, <<<<>>>>)), u)>>)>> :
     s \in {0, 7}, t \in {0, 7}, u \in {0, 7, 8}, g \in {<<>>, <<One(Fun("f", TRUE, <<>>, <<<<>>>>))>>}}

(* Modifiers: overridden, with arguments, nested, called twice.            *)
Mod(name, arity, v, o, body) == Part("modifier", name, arity, "internal", v, o, <<body>>)
Modified ==
  {<<Contract("abstract", <<>>, <<Mod("m", 1, TRUE, <<>>, x), Mod("n", 0, v, <<>>, <<Placeholder>>),
       With([One(Fun("f", TRUE, <<>>, <<<<CallTo("g")>>>>)) EXCEPT !.vis = "public"],
            <<Attr(0, "m", <<ArgPlus>>), Attr(0, "n", <<>>)>>), Fun("g", TRUE, <<>>, <<<<>>>>)>>),
     Contract("contract", <<Is(1)>>, (IF mb = <<>> THEN <<>> ELSE <<Mod("m", 1, FALSE, <<<<>>>>, mb[1])>>)
       \o <<Fun("g", FALSE, <<<<>>>>, <<<<>>>>), With(Run(<<Stmt("call", 0, "f", <<Lit(3)>>)>>), at)>>)>> :
     x \in {<<Placeholder, CallTo("g")>>, <<CallTo("g")>>}, v \in BOOLEAN,
     mb \in {<<>>, <<<<CallTo("g"), Placeholder>>>>, <<<<Placeholder, Placeholder>>>>},
     at \in {<<>>, <<Attr(0, "n", <<>>)>>, <<Attr(0, "m", <<Lit(4)>>)>>, <<Attr(0, "g", <<>>)>>}}

(* Construction: where the arguments of the bases are written.             *)
Kids(b)  == {<<>>, <<Ctor(0, <<Attr(b, "", <<Lit(2)>>)>>)>>, <<Ctor(1, <<>>)>>,
             <<Ctor(1, <<Attr(b, "", <<ArgPlus>>)>>)>>}
Tops     == {<<>>, <<Ctor(0, <<>>), Ctor(1, <<>>)>>, <<Ctor(1, <<Attr(2, "", <<ArgPlus>>)>>)>>, <<Ctor(0, <<Attr(1, "", <<Lit(4)>>)>>)>>,
             <<Ctor(1, <<Attr(1, "", <<Arg>>), Attr(2, "", <<ArgPlus>>)>>)>>}
Clauses(b) == {Is(b), IsWith(b, <<Lit(6)>>), IsWith(b, <<>>)}
Built ==
  {<<WithInit(Contract("abstract", <<>>, a), Zero), Contract("abstract", <<k1>>, b),
     WithInit(Contract("contract", <<k2>>, t \o <<Run(<<>>)>>), Zero)>> :
     a \in {<<>>, <<Ctor(0, <<>>)>>, <<Ctor(1, <<>>)>>, <<Ctor(1, <<>>), Ctor(0, <<>>)>>},
     k1 \in Clauses(1), b \in Kids(1), k2 \in Clauses(2), t \in Tops}
BuiltDiamonds ==
  {<<WithInit(Contract("abstract", <<>>, <<Ctor(n, <<>>)>>), Zero),
     WithInit(Contract("abstract", <<k1>>, b), CallTo("f")), Contract("abstract", <<k2>>, c),
     Contract("contract", bs, t \o <<Run(<<>>)>>)>> :
     n \in {0, 1}, k1 \in {Is(1), IsWith(1, <<Lit(6)>>)}, k2 \in {Is(1), IsWith(1, <<Lit(7)>>)}, b \in {p \o <<Fun("f", TRUE, <<>>, <<<<>>>>)>> : p \in {<<>>, <<Ctor(1, <<>>)>>, <<Ctor(1, <<Attr(1, "", <<ArgPlus>>)>>)>>}},
     c \in {<<>>, <<Ctor(1, <<Attr(1, "", <<ArgPlus>>)>>)>>}, bs \in {<<Is(2), Is(3)>>, <<Is(3), Is(2)>>, <<Is(3), Is(1), Is(2)>>},
     t \in {<<>>, <<Ctor(1, <<Attr(2, "", <<ArgPlus>>), Attr(3, "", <<Arg>>)>>)>>, <<Ctor(0, <<Attr(1, "", <<Lit(4)>>)>>)>>}}

(* Which contracts create which, also through a base and a library.        *)
Made(s) == {[i \in DOMAIN q |-> NewOf(q[i])] : q \in {<<>>, s, <<s[1]>>, <<s[2]>>}}
Creating ==
  {<<Contract("contract", <<>>, <<Run(a)>>), Contract("contract", bs, <<Run(b)>>), Contract("contract", <<>>, <<Run(c)>>),
     Contract("abstract", <<>>, <<Fun("f", FALSE, <<>>, <<d>>)>>)>> :
     a \in Made(<<3, 2>>), b \in Made(<<1, 3>>), c \in {<<>>, <<NewOf(1)>>, <<NewOf(2)>>}, d \in {<<>>, <<NewOf(1)>>, <<NewOf(2)>>},
     bs \in {<<>>, <<Is(4)>>}}

(* The same with C.new(..), with and without call arguments.  What the     *)
(* compiler does not survive is left out: a contract that creates itself,  *)
(* which is accepted and never compiled, and contracts that create each    *)
(* other, which are refused, when there is one more creation to check.     *)
Chosen == {<<>>, <<SolanaNew(1)>>, <<SolanaNewIn(1)>>, <<SolanaNew(2)>>, <<SolanaNew(2), SolanaNew(3)>>,
           <<NewOf(3), SolanaNew(1)>>, <<SolanaNew(4)>>}
Creations(p) ==
  Concat([c \in DOMAIN p |->
    LET made == SelectSeq(p[c].parts[1].body[1], LAMBDA st : st # SolanaNew(c))
    IN  [i \in DOMAIN made |-> <<c, made[i].c>>]])
NoWayBack(p, edges) ==
  LET cs == DOMAIN p IN IsIrreflexive(TransitiveClosure([e \in cs \X cs |-> e \in edges], cs), cs)
SolanaCreating ==
  {p \in {<<Contract("contract", <<>>, <<Run(a)>>), Contract("contract", bs, <<Run(b)>>), Contract("contract", <<>>, <<Run(c)>>),
             Contract("abstract", <<>>, <<Fun("f", FALSE, <<>>, <<d>>)>>)>> :
             a \in Chosen, b \in Chosen, c \in Chosen, d \in {<<>>, <<SolanaNew(2)>>, <<SolanaNew(3)>>},
             bs \in {<<>>, <<Is(4)>>, <<Is(1)>>}} :
     LET es == Creations(p) IN es # <<>> => NoWayBack(p, ToSet(Front(es))) /\ Last(es)[1] # Last(es)[2]}
Libraries ==
  {<<Contract("library", <<>>, <<Fun("f", FALSE, <<>>, <<l>>), Fun("g", FALSE, <<>>, <<m>>)>>),
     Contract("abstract", <<>>, <<Fun("f", TRUE, <<>>, <<<<AtTo(1, "f")>>>>)>>),
     WithInit(Contract("contract", <<Is(2)>>, <<Run(b)>>), i), Contract("contract", <<>>, <<Run(c)>>)>> :
     l \in {<<>>, <<CallTo("g")>>, <<NewOf(4)>>}, m \in {<<>>, <<NewOf(3)>>}, b \in {<<CallTo("f")>>, <<AtTo(1, "g")>>, <<>>},
     i \in {NoInit, AtTo(1, "f"), CallTo("f")}, c \in {<<>>, <<AtTo(1, "f")>>, <<AtTo(2, "f")>>, <<NewOf(3)>>}}

(* Any bases, of any kind.                                                 *)
Single == {<<>>} \union {<<Is(i)>> : i \in 1 .. 3}
Lists  == Single \union {<<Is(i), Is(j)>> : i \in 1 .. 2, j \in 1 .. 3}
Shaped(kinds, lists) ==
  {<<Contract(kinds[1], a, <<>>), Contract(kinds[2], b, <<>>), Contract("contract", c, <<Run(<<>>)>>)>> :
     a \in Single, b \in Single, c \in lists}
Shapes == Shaped(<<"abstract", "abstract">>, Lists) \union Shaped(<<"interface", "library">>, Single)

(* Default functions, one of each at most.                                 *)
Defaults ==
  {<<Contract("abstract", <<>>, <<Part("fallback", "@fallback", 0, v, TRUE, <<>>, <<<<>>>>)>> \o r),
     Contract("contract", <<Is(1)>>, <<Part("fallback", "@fallback", n, "external", FALSE, o, <<<<CallTo("g")>>>>),
                                       Vis(Fun("g", FALSE, <<>>, <<<<>>>>), "internal")>>)>> :
     v \in {"external", "public"}, n \in {0, 1}, o \in {<<>>, <<<<>>>>},
     r \in {<<>>, <<[Part("receive", "@receive", 0, "external", FALSE, <<>>, <<<<>>>>) EXCEPT !.mut = "payable"]>>}}

(* The target matters where functions get names, selectors and entries.    *)
Supported ==
  (({p \in Chains : ~(\E i \in DOMAIN p[1].parts, j \in DOMAIN p[2].parts :
                        Bodyless(p[1].parts[i]) /\ NamesBase(p[2].parts[j]))}
     \union Pairs \union Diamonds \union Modified \union Built \union BuiltDiamonds) \X {"polkadot"})
  \union ((Interfaces \union Overloads \union Creating \union Libraries \union Shapes \union Defaults)
            \X {"solana", "polkadot"})
  \union (SolanaCreating \X {"solana"})
=============================================================================
