---------------------------- MODULE MCExpressions ---------------------------
(* Expressions of one to three operators over all pairs of widths and signs  *)
(* that behave differently, on the values at the ends of the types.  A byte  *)
(* has 2 bits: 12 bits stand for 256, 3 for the 32 of a limb, 4 for the 64   *)
(* of the machine's division, and 8 for 128.                                 *)
EXTENDS Expressions

(* The values of a balance leave the sign bit alone: it is extended.         *)
MCBoundary(t) ==
    CASE t.k = "bool" -> {0, 1}
      [] t.k = "enum" -> 0..EnumSize - 1
      [] t.k = "value" -> {0, 1, 2^(bits(t) - 1) - 1}
      [] OTHER -> {v \in {0, 1, 2, 3, 5, 2^(bits(t) - 1) - 1, 2^(bits(t) - 1), 2^bits(t) - 2, 2^bits(t) - 1} :
                      v < 2^bits(t)}

Decl(e, types, ty, unchecked) == [e |-> e, types |-> types, ty |-> ty, unchecked |-> unchecked]
X == Var(1)
Y == Var(2)
Z == Var(3)
Same == {<<t, t>> : t \in IntTypes}
Mixed == {<<Uint(4), Uint(8)>>, <<Uint(8), Uint(2)>>, <<Sint(4), Uint(4)>>, <<Uint(10), Sint(4)>>,
          <<Uint(12), Sint(12)>>, <<Sint(6), Sint(10)>>, <<Sint(12), Uint(6)>>}
Checked == {"add", "sub", "mul", "power"}
Common(ts) == CommonType(ts[1], ts[2])
Arithmetics ==
    {Decl(Bin(k, X, Y), ts, Common(ts), u) : k \in Checked, ts \in Same, u \in BOOLEAN}
        \cup {Decl(Bin(k, X, Y), ts, IF Common(ts) = NoType THEN Sint(12) ELSE Common(ts), FALSE) :
                k \in BinaryOps, ts \in Same \cup Mixed}

(* Comparisons, of integers, bytes and addresses                             *)
ByteTypes == {Bytes(1), Bytes(2), Bytes(4)}
Comparisons ==
    {Decl(Bin(k, X, Y), ts, Bool, FALSE) : k \in EqualOps \cup OrderOps,
        ts \in Same \cup Mixed \cup (ByteTypes \X ByteTypes) \cup {<<Address(FALSE), Address(FALSE)>>, <<Address(TRUE), Address(TRUE)>>}}
        \cup {Decl(Bin(k, X, Num(c)), <<t>>, Bool, FALSE) :
                k \in EqualOps \cup OrderOps, c \in {-5, -2, 0, 3, 20}, t \in {Sint(4), Sint(8), Uint(4), Uint(12)}}
        \cup {Decl(Bin(k, X, Str(n, 9)), <<Bytes(2)>>, Bool, FALSE) : k \in EqualOps, n \in {2, 3}}
        \cup {Decl(Bin(k, Str(2, 9), Str(2, v)), <<>>, Bool, FALSE) : k \in EqualOps, v \in {9, 10}}

(* Literals take the type that is looked for, or the smallest.               *)
LiteralTypes == {Uint(2), Sint(4), Uint(8), Sint(10), Uint(12)}
Literals ==
    {Decl(e, <<t>>, r, FALSE) :
        e \in UNION {{Bin(k, X, Num(c)), Bin(k, Num(c), X)} : k \in {"add", "sub", "mul", "div", "mod", "and"}, c \in {-3, 0, 1, 6, 100}},
        t \in LiteralTypes, r \in {Uint(12), Sint(8), Sint(12)}}
        \cup {Decl(CastTo(Uint(12), Bin(k, X, Num(c))), <<t>>, Uint(12), FALSE) :
                k \in {"mul", "power", "add", "shl"}, c \in {1, 2, 5}, t \in {Uint(2), Uint(4)}}
        \cup {Decl(Bin(k, Num(a), Bin(j, Num(b), Num(c))), <<>>, t, FALSE) :
                k \in {"sub", "mul", "div", "xor"}, j \in {"add", "power", "shl", "shr", "mod"},
                a \in {1, 100}, b \in {0, 7}, c \in {0, 3}, t \in {Uint(4), Sint(6), Uint(10), Sint(12)}}
        \cup {Decl(Un("negate", Num(c)), <<>>, t, FALSE) : c \in {0, 2, 8, 9, 100}, t \in IntTypes}
        \cup {Decl(CastTo(t, Num(c)), <<>>, t, FALSE) : c \in {0, 2, 9}, t \in IntTypes \cup {Bytes(2), Address(FALSE)}}
        \cup {Decl(CastTo(Enum, Num(c)), <<>>, Enum, FALSE) : c \in 0..EnumSize - 1}

(* Conversions, explicit and implicit.  An address is not made a wider       *)
(* integer: the code extends its first bit.                                  *)
Addresses == {Address(FALSE), Address(TRUE)}
Scalars == IntTypes \cup ByteTypes \cup Addresses \cup {Enum, Bool}
Conversions ==
    {Decl(CastTo(t, X), <<s>>, t, FALSE) : s \in Scalars \ Addresses, t \in Scalars \ Addresses}
        \cup {Decl(CastTo(t, X), <<s>>, t, FALSE) : s \in Addresses, t \in {Uint(4), Uint(8), Sint(8), Bytes(4), Bytes(2)} \cup Addresses}
        \cup {Decl(CastTo(t, X), <<s>>, t, FALSE) : s \in {Uint(8), Bytes(4)}, t \in Addresses}
        \cup {Decl(X, <<s>>, t, FALSE) : s \in Scalars, t \in Scalars}
        \cup {Decl(CastTo(t, CastTo(s, X)), <<r>>, t, FALSE) :
                r \in {Uint(6), Sint(6)}, s \in {Uint(4), Sint(8), Uint(10)}, t \in {Uint(2), Sint(8), Sint(12)}}
        \cup {Decl(X, <<s>>, Value, FALSE) : s \in {Uint(8), Uint(10), Uint(12)}}
        \cup {Decl(CastTo(t, X), <<Value>>, t, FALSE) : t \in {Uint(4), Uint(8), Uint(12), Sint(8), Sint(12)}}

(* Two operators, so that one result feeds the next                          *)
Triples == {<<Uint(4), Uint(4), Uint(6)>>, <<Sint(4), Sint(6), Sint(4)>>, <<Uint(2), Sint(8), Uint(4)>>}
Nested ==
    {Decl(Bin(ks[1], Bin(ks[2], X, Y), Z), ts, Sint(12), FALSE) :
        ks \in {<<"add", "sub">>, <<"mul", "mod">>, <<"div", "mul">>, <<"xor", "or">>}, ts \in Triples}
        \cup {Decl(Bin(ks[1], Bin(ks[2], X, Y), Z), <<t, t, t>>, t, TRUE) :
                ks \in {<<"sub", "mul">>, <<"mul", "add">>}, t \in {Uint(4), Sint(6)}}

(* Whatever is evaluated only sometimes                                      *)
Logic ==
    {Decl(Bin(k, Bin("less", X, Y), Bin("more", Bin("div", X, Y), Num(1))), <<t, t>>, Bool, FALSE) :
        k \in {"andalso", "orelse"}, t \in {Uint(4), Sint(6)}}
        \cup {Decl(Un("not", Bin(k, X, Y)), <<Bool, Bool>>, Bool, FALSE) : k \in {"andalso", "orelse"}}
        \cup {Decl(Bin(k, X, Truth(b)), <<Bool>>, Bool, FALSE) : k \in {"andalso", "orelse"}, b \in {0, 1}}
        \cup {Decl(Cond(Bin("moreequal", X, Y), Bin("sub", X, Y), Bin("sub", Y, X)), ts, t, FALSE) :
                ts \in {<<Uint(4), Uint(8)>>, <<Sint(4), Sint(4)>>}, t \in {Uint(8), Sint(4)}}
        \cup {Decl(Cond(Truth(b), X, Num(3)), <<Uint(6)>>, Uint(6), FALSE) : b \in {0, 1}}

(* Variables in registers, memory and storage                                *)
Placed(t) == {t, Ref(t), StorageRef(t)}
Places == Placed(Uint(4)) \cup Placed(Sint(6)) \cup Placed(Uint(12))
Changes ==
    {Decl(IncDec(k, 1), <<s>>, deref_any(s), u) : k \in {"preinc", "predec", "postinc", "postdec"}, s \in Places, u \in BOOLEAN}
        \cup {Decl(AssignOp(k, 1, Y), <<s, deref_any(s)>>, deref_any(s), u) :
                k \in BinaryOps \ {"power", "shl", "shr", "div"}, s \in Places, u \in BOOLEAN}
        \cup {Decl(AssignOp(k, 1, Num(1)), <<s>>, deref_any(s), FALSE) : k \in {"shl", "shr", "add"}, s \in Places}
        \cup {Decl(Assign(1, Y), <<s, t>>, deref_any(s), FALSE) : s \in Places, t \in {Uint(2), Sint(4), Uint(10), StorageRef(Sint(4))}}
        \cup {Decl(Bin(k, X, Y), <<s, StorageRef(deref_any(s))>>, deref_any(s), FALSE) : k \in {"sub", "mul"}, s \in Places}
        \cup {Decl(Un(k, X), <<t>>, t, u) : k \in {"negate", "bitnot"}, t \in IntTypes, u \in BOOLEAN}

MCDeclarations ==
    Arithmetics \cup Comparisons \cup Literals \cup Conversions \cup Nested \cup Logic \cup Changes
=============================================================================
