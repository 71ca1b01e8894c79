-------------------------- MODULE MCSolanaAccounts --------------------------
(***************************************************************************)
(* Small programs for SolanaAccounts: all programs of a few functions from *)
(* small sets of bodies, with the contracts in either order.               *)
(***************************************************************************)
EXTENDS SolanaAccounts

Fn(c, kind, body) ==
  [contract |-> c, kind |-> kind, declared |-> <<>>, payer |-> FALSE, seed |-> FALSE, body |-> body]
Declaring(f, names) ==
  [f EXCEPT !.declared = [i \in DOMAIN names |-> [name |-> <<names[i], 0>>, signer |-> FALSE, writer |-> i = 1]]]
WithPayer(f, seed) ==
  [f EXCEPT !.declared = <<[name |-> <<"payer", 0>>, signer |-> TRUE, writer |-> TRUE]>>,
            !.payer = TRUE, !.seed = seed]

In(f)             == [op |-> "internal", f |-> f]
Ext(f, acc, lit)  == [op |-> "call", f |-> f, accounts |-> acc, literal |-> lit]
New(c, f, acc, lit) == [op |-> "new", c |-> c, f |-> f, accounts |-> acc, literal |-> lit]
Acc(name)         == [op |-> "account", name |-> <<name, 0>>]

(* One contract: an external function and three internal ones that call    *)
(* each other and themselves in every way; each has an account of its own  *)
(* to pass on.                                                             *)
Bodies(own) == {<<>>, <<own>>} \union {<<In(g)>> : g \in 2 .. 4} \union {<<In(g), own>> : g \in 2 .. 4}
Internal ==
  {<<Fn(1, "external", b1), Fn(1, "internal", b2), Fn(1, "internal", b3), Fn(1, "internal", b4)>> :
     b1 \in {<<In(2)>>, <<In(3), In(2)>>},
     b2 \in Bodies(Instr("clock")), b3 \in Bodies(Instr("signature")), b4 \in Bodies(Instr("hash"))}

(* Two contracts that call each other.  Functions 1 and 2 are the external *)
(* functions of the first, 3 to 5 the constructor, an external and an      *)
(* internal function of the second.                                        *)
Firsts  == {<<Ext(4, "absent", lit), Instr("clock")>> : lit \in BOOLEAN}
             \union {<<Instr("store"), New(2, 3, acc, FALSE)>> : acc \in {"absent", "present"}}
             \union {<<Ext(4, "none", TRUE)>>, <<Ext(4, "absent", FALSE), Ext(4, "absent", FALSE)>>,
                     <<New(2, 3, "none", FALSE), Acc("x")>>}
Seconds == {<<>>, <<Instr("load")>>, <<Ext(4, "absent", FALSE)>>, <<Instr("address")>>}
Ctors   == {Fn(2, "constructor", <<>>), WithPayer(Fn(2, "constructor", <<>>), TRUE),
            WithPayer(Fn(2, "constructor", <<In(5)>>), FALSE)}
Callees == {<<>>, <<Instr("store"), In(5)>>, <<In(5)>>, <<Ext(2, "absent", FALSE)>>,
            <<Instr("load"), Ext(2, "absent", TRUE)>>}
Helpers == {<<>>, <<Instr("signature")>>, <<Instr("hash"), In(5)>>}
Mutual ==
  {<<Declaring(Fn(1, "external", a), <<"x", "y">>), Fn(1, "external", b), k,
     Declaring(Fn(2, "external", q), <<"z">>), Fn(2, "internal", r)>> :
     a \in Firsts, b \in Seconds, k \in Ctors, q \in Callees, r \in Helpers}

(* The same with the contracts, and so the collections, in the other order. *)
Swapped(p) ==
  [f \in DOMAIN p |->
     [p[f] EXCEPT !.contract = 3 - @,
                  !.body = [i \in DOMAIN @ |-> IF @[i].op = "new" THEN [@[i] EXCEPT !.c = 3 - @] ELSE @[i]]]]

(* A contract whose default constructor is called, and a fallback.         *)
Defaults ==
  {<<Fn(1, kind, <<New(2, 0, acc, lit), Instr("load")>>), Fn(2, "public", <<Instr("store")>>)>> :
     kind \in {"external", "fallback"}, acc \in {"absent", "none"}, lit \in BOOLEAN}

Supported == Internal \union Mutual \union {Swapped(p) : p \in Mutual} \union Defaults
=============================================================================
