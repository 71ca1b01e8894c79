----------------------------- MODULE HeapProofs -----------------------------
(***************************************************************************)
(* The memory heap keeps its list well formed for every size of heap,      *)
(* header and request, and so implements the allocator.                    *)
(***************************************************************************)
EXTENDS Heap, TLAPS

\* A heap whose headers are well typed and 8-byte aligned.
Typed(h) ==
  /\ DOMAIN h \subseteq Int
  /\ h \in [DOMAIN h -> Header]
  /\ \A c \in DOMAIN h : c % 8 = 0 /\ h[c].length % 8 = 0

\* Well-formed: typed, and the chunks partition the arena.
WF(h) == Typed(h) /\ Tiled(h)

\* Sums and differences of multiples of 8 are multiples of 8.
LEMMA Mod8 ==
  ASSUME NEW a \in Int, NEW b \in Int, a % 8 = 0, b % 8 = 0
  PROVE  (a + b) % 8 = 0 /\ (a - b) % 8 = 0
OBVIOUS

\* Rounding up gives the next multiple of 8, which a chunk whose length is a
\* multiple of 8 can hold if it can hold the size itself.
LEMMA RoundUp8Lemma ==
  ASSUME NEW n \in Nat
  PROVE  /\ RoundUp8(n) \in Nat /\ RoundUp8(n) % 8 = 0 /\ n <= RoundUp8(n)
         /\ \A l \in Nat : l % 8 = 0 /\ n <= l => RoundUp8(n) <= l
BY DEF RoundUp8

\* Setting a chunk's flag does not touch the list.
LEMMA FlagWF ==
  ASSUME NEW h, WF(h), NEW c \in DOMAIN h, NEW b \in BOOLEAN
  PROVE  /\ WF([h EXCEPT ![c].allocated = b])
         /\ DOMAIN [h EXCEPT ![c].allocated = b] = DOMAIN h
<1> DEFINE g == [h EXCEPT ![c].allocated = b]
<1>1. /\ DOMAIN g = DOMAIN h
      /\ \A a \in DOMAIN h : /\ g[a] \in Header
                             /\ g[a].next = h[a].next /\ g[a].prev = h[a].prev
                             /\ g[a].length = h[a].length
  BY DEF WF, Typed, Header
<1>2. Typed(g)
  BY <1>1 DEF WF, Typed
<1>3. Tiled(g)
  BY <1>1 DEF WF, Tiled, Linked, End
<1> QED BY <1>1, <1>2, <1>3 DEF WF

\* The chunks of h that are in S are in g as they were in h, apart from the
\* pointer to their predecessor.
Keeps(g, h, S) ==
  \A a \in S : /\ a \in DOMAIN g
               /\ g[a].length = h[a].length
               /\ g[a].next = h[a].next
               /\ g[a].allocated <=> h[a].allocated

\* g is h after chunk c has swallowed its successor n.
Merged(g, h, c, n) ==
  /\ WF(g)
  /\ DOMAIN g = DOMAIN h \ {n}
  /\ g[c].length = h[c].length + h[n].length + HdrSize
  /\ g[c].next = h[n].next
  /\ g[c].prev = h[c].prev
  /\ g[c].allocated <=> h[c].allocated
  /\ Keeps(g, h, DOMAIN h \ {c, n})

\* g is h after chunk c was cut to `size` bytes: either the same heap, or one
\* with a new free chunk between c and its old successor.
CutTo(g, h, c, size) ==
  /\ WF(g)
  /\ DOMAIN h \subseteq DOMAIN g
  /\ size <= g[c].length
  /\ g[c].allocated <=> h[c].allocated
  /\ Keeps(g, h, DOMAIN h \ {c})
  /\ \/ g = h
     \/ \E new \in DOMAIN g \ DOMAIN h :
          /\ DOMAIN g = DOMAIN h \cup {new}
          /\ g[c].next = new /\ ~g[new].allocated
          /\ g[new].next = h[c].next

\* Merging a chunk with its successor leaves a well-formed heap without the
\* successor's header.
LEMMA MergeWF ==
  ASSUME NEW h, WF(h), NEW c \in DOMAIN h, h[c].next # NULL
  PROVE  Merged(MergeNext(h, c), h, c, h[c].next)
<1> DEFINE n == h[c].next
           nn == h[n].next
           g == MergeNext(h, c)
<1>1. /\ n \in DOMAIN h /\ n = End(h, c) /\ h[n].prev = c /\ c < n /\ n # HeapStart
      /\ c \in Int /\ n \in Int
  BY HeapAssumption DEF WF, Typed, Tiled, Linked, End, Header
<1>2. /\ DOMAIN g = DOMAIN h \ {n}
      /\ g[c] = [h[c] EXCEPT !.next = nn, !.length = @ + h[n].length + HdrSize]
      /\ nn \in DOMAIN h /\ nn # c /\ nn # n => g[nn] = [h[nn] EXCEPT !.prev = c]
      /\ \A a \in DOMAIN h \ {n, c} : a # nn => g[a] = h[a]
  BY <1>1 DEF MergeNext
<1>3. nn # NULL => /\ nn \in DOMAIN h /\ nn = End(h, n) /\ h[nn].prev = n
                   /\ nn > n /\ nn # c
  BY <1>1, HeapAssumption DEF WF, Typed, Tiled, Linked, End, Header
<1>4. /\ g[c] \in Header /\ g[c].next = nn /\ g[c].prev = h[c].prev
      /\ g[c].length = h[c].length + h[n].length + HdrSize
      /\ (g[c].allocated <=> h[c].allocated)
  <2>1. h[c] \in Header /\ h[n] \in Header
    BY <1>1 DEF WF, Typed
  <2>2. /\ g[c].next = nn /\ g[c].prev = h[c].prev
        /\ g[c].length = h[c].length + h[n].length + HdrSize
        /\ (g[c].allocated <=> h[c].allocated)
    BY <2>1, <1>2 DEF Header
  <2>3. h[c].length + h[n].length + HdrSize \in Nat /\ nn \in Int \cup {NULL}
    BY <2>1, HeapAssumption DEF Header
  <2>4. g[c] \in Header
    BY <2>1, <2>3, <1>2 DEF Header
  <2> QED BY <2>2, <2>4
<1>5. \A a \in DOMAIN g \ {c} :
        /\ g[a] \in Header /\ g[a].length = h[a].length
        /\ g[a].next = h[a].next /\ (g[a].allocated <=> h[a].allocated)
        /\ a # nn => g[a].prev = h[a].prev
        /\ a = nn => g[a].prev = c
  BY <1>2 DEF WF, Typed, Header
<1>6. Typed(g)
  <2>1. \A a \in DOMAIN g : g[a] \in Header
    BY <1>4, <1>5
  <2>2. g = [a \in DOMAIN g |-> g[a]]
    BY DEF MergeNext
  <2>3. \A a \in DOMAIN g : a % 8 = 0 /\ g[a].length % 8 = 0
    <3>1. \A a \in DOMAIN g \ {c} : a % 8 = 0 /\ g[a].length % 8 = 0
      BY <1>2, <1>5 DEF WF, Typed
    <3>2. /\ h[c].length % 8 = 0 /\ h[n].length % 8 = 0 /\ HdrSize % 8 = 0
          /\ h[c].length \in Int /\ h[n].length \in Int /\ HdrSize \in Int
      BY <1>1, HeapAssumption DEF WF, Typed, Header
    <3>3. (h[c].length + h[n].length + HdrSize) % 8 = 0
      <4> DEFINE p == h[c].length
                 q == h[n].length
      <4>1. p \in Int /\ q \in Int /\ p % 8 = 0 /\ q % 8 = 0
        BY <3>2
      <4> HIDE DEF p, q
      <4>2. (p + q + HdrSize) % 8 = 0
        BY <4>1, <3>2
      <4> QED BY <4>2 DEF p, q
    <3> QED BY <3>1, <3>3, <1>4 DEF WF, Typed
  <2> QED BY <2>1, <2>2, <2>3, <1>2 DEF WF, Typed
<1>7. /\ End(g, c) = End(h, n)
      /\ \A a \in DOMAIN g \ {c} : End(g, a) = End(h, a)
  <2>1. h[c].length \in Int /\ h[n].length \in Int
    BY <1>1 DEF WF, Typed, Header
  <2>2. End(g, c) = End(h, n)
    BY <2>1, <1>1, <1>4, HeapAssumption DEF End
  <2>3. \A a \in DOMAIN g \ {c} : End(g, a) = End(h, a)
    BY <1>5 DEF End
  <2> QED BY <2>2, <2>3
<1>8. \A a, d \in DOMAIN g : a < d => End(g, a) <= d
  <2> SUFFICES ASSUME NEW a \in DOMAIN g, NEW d \in DOMAIN g, a < d
               PROVE  End(g, a) <= d
    OBVIOUS
  <2>1. CASE a = c
    <3>1. n < d
      BY <2>1, <1>1, <1>2, HeapAssumption DEF WF, Typed, Tiled, Header, End
    <3> QED BY <2>1, <3>1, <1>1, <1>2, <1>7 DEF WF, Typed, Tiled
  <2>2. CASE a # c
    BY <2>2, <1>2, <1>7 DEF WF, Typed, Tiled
  <2> QED BY <2>1, <2>2
<1>9. ASSUME NEW a \in DOMAIN g PROVE Linked(g, a)
  <2>0. a \in DOMAIN h /\ a # n /\ Linked(h, a) /\ Linked(h, n)
    BY <1>1, <1>2 DEF WF, Tiled
  <2>1. CASE a = c
    BY <2>1, <2>0, <1>1, <1>2, <1>3, <1>4, <1>5, <1>7 DEF Linked
  <2>2. CASE a # c
    <3>1. /\ h[a].next = g[a].next /\ h[a].next # n
          /\ g[a].next # NULL => g[a].next \in DOMAIN g /\ g[a].next # nn
      BY <2>0, <2>2, <1>1, <1>2, <1>3, <1>5 DEF Linked
    <3>2. g[a].next # NULL => g[g[a].next].prev = a
      BY <3>1, <2>0, <2>2, <1>4, <1>5 DEF Linked
    <3>3. CASE a = nn
      <4>1. nn # NULL /\ h[nn].prev = n /\ nn # HeapStart
        BY <3>3, <2>0, <1>1, <1>3, HeapAssumption DEF WF, Typed, Linked
      <4>2. g[a].prev = c /\ g[c].next = a /\ c \in DOMAIN g /\ c # NULL
        BY <3>3, <2>2, <1>1, <1>2, <1>4, <1>5, HeapAssumption
      <4> QED BY <4>1, <4>2, <3>1, <3>2, <3>3, <2>0, <2>2, <1>5, <1>7 DEF Linked
    <3>4. CASE a # nn
      <4>1. g[a].prev = h[a].prev /\ h[a].prev # n
        BY <3>4, <2>0, <2>2, <1>1, <1>2, <1>5 DEF Linked
      <4>2. g[a].prev # NULL => g[a].prev \in DOMAIN g /\ g[g[a].prev].next = a
        BY <4>1, <3>4, <2>0, <2>2, <1>1, <1>2, <1>4, <1>5 DEF Linked
      <4> QED BY <4>1, <4>2, <3>1, <3>2, <2>0, <2>2, <1>5, <1>7 DEF Linked
    <3> QED BY <3>3, <3>4
  <2> QED BY <2>1, <2>2
<1>10. HeapStart \in DOMAIN g
  BY <1>1, <1>2 DEF WF, Tiled
<1>11. \A a \in DOMAIN g : HeapStart <= a /\ End(g, a) <= HeapEnd
  BY <1>1, <1>2, <1>7 DEF WF, Tiled
<1>12. WF(g)
  BY <1>6, <1>8, <1>9, <1>10, <1>11 DEF WF, Tiled
<1>13. Keeps(g, h, DOMAIN h \ {c, n})
  BY <1>2, <1>5 DEF Keeps
<1> QED BY <1>2, <1>4, <1>12, <1>13 DEF Merged

\* Cutting a chunk that is large enough leaves a well-formed heap.
LEMMA ShrinkWF ==
  ASSUME NEW h, WF(h), NEW c \in DOMAIN h, NEW size \in Nat, size <= h[c].length
  PROVE  CutTo(Shrink(h, c, size), h, c, size)
<1> DEFINE g == Shrink(h, c, size)
           new == SplitAt(c, size)
           nxt == h[c].next
           R == RoundUp8(size)
           L == h[c].length
<1>1. /\ R \in Nat /\ R % 8 = 0 /\ size <= R /\ R <= L /\ L \in Nat /\ L % 8 = 0
      /\ c \in Int /\ c % 8 = 0 /\ h[c] \in Header
  BY RoundUp8Lemma DEF WF, Typed, Header
<1>2. CASE ~Splits(h, c, size)
  BY <1>2 DEF Shrink, CutTo, Keeps
<1>3. CASE Splits(h, c, size)
  <2>1. L - R >= 8 + HdrSize
    BY <1>1, <1>3 DEF Splits, USub
  <2>2. new \in Int /\ new = c + HdrSize + R /\ c < new /\ new < End(h, c)
    BY <2>1, <1>1, HeapAssumption DEF SplitAt, End
  <2>3. new \notin DOMAIN h
    <3>1. new \in DOMAIN h => End(h, c) <= new
      BY <2>2 DEF WF, Tiled
    <3>2. End(h, c) \in Int
      BY <1>1, HeapAssumption DEF End
    <3> HIDE DEF new
    <3> QED BY <3>1, <3>2, <2>2
  <2>4. nxt # NULL => /\ nxt \in DOMAIN h /\ nxt = End(h, c) /\ h[nxt].prev = c
                      /\ nxt # c /\ nxt # new
    BY <1>1, <2>2, <2>3, HeapAssumption DEF WF, Typed, Tiled, Linked, End, Header
  <2>5. /\ DOMAIN g = DOMAIN h \cup {new}
        /\ g[new] = [next |-> nxt, prev |-> c, allocated |-> FALSE,
                     length |-> L - R - HdrSize]
        /\ g[c] = [h[c] EXCEPT !.next = new, !.length = R]
        /\ nxt # NULL => g[nxt] = [h[nxt] EXCEPT !.prev = new]
        /\ \A a \in DOMAIN h \ {c} : a # nxt => g[a] = h[a]
    BY <1>3, <2>2, <2>3, <2>4 DEF Shrink
  <2>6. /\ g[new] \in Header /\ g[new].next = nxt /\ g[new].prev = c
        /\ g[new].length = L - R - HdrSize /\ ~g[new].allocated
    <3>1. L - R - HdrSize \in Nat /\ nxt \in Int \cup {NULL}
      BY <1>1, <2>1, HeapAssumption DEF Header
    <3> QED BY <3>1, <2>5, <1>1 DEF Header
  <2>7. /\ g[c] \in Header /\ g[c].next = new /\ g[c].prev = h[c].prev
        /\ g[c].length = R /\ (g[c].allocated <=> h[c].allocated)
    BY <2>5, <2>2, <1>1 DEF Header
  <2>8. \A a \in DOMAIN h \ {c} :
          /\ g[a] \in Header /\ g[a].length = h[a].length
          /\ g[a].next = h[a].next /\ (g[a].allocated <=> h[a].allocated)
          /\ a # nxt => g[a].prev = h[a].prev
          /\ a = nxt => g[a].prev = new
    <3> SUFFICES ASSUME NEW a \in DOMAIN h \ {c}
                 PROVE  /\ g[a] \in Header /\ g[a].length = h[a].length
                        /\ g[a].next = h[a].next /\ (g[a].allocated <=> h[a].allocated)
                        /\ a # nxt => g[a].prev = h[a].prev
                        /\ a = nxt => g[a].prev = new
      OBVIOUS
    <3>1. h[a] \in Header /\ a # NULL
      BY HeapAssumption DEF WF, Typed
    <3>2. CASE a = nxt
      BY <3>1, <3>2, <2>2, <2>5 DEF Header
    <3>3. CASE a # nxt
      BY <3>1, <3>3, <2>5
    <3> QED BY <3>2, <3>3
  <2>9. Typed(g)
    <3>1. \A a \in DOMAIN g : g[a] \in Header
      BY <2>5, <2>6, <2>7, <2>8
    <3>2. g = [a \in DOMAIN g |-> g[a]]
      BY <1>3 DEF Shrink
    <3>3. new % 8 = 0 /\ (L - R - HdrSize) % 8 = 0
      <4> HIDE DEF R, L
      <4> QED BY <1>1, <2>2, HeapAssumption
    <3>4. \A a \in DOMAIN g : a % 8 = 0 /\ g[a].length % 8 = 0
      <4>1. \A a \in DOMAIN h : a % 8 = 0 /\ h[a].length % 8 = 0
        BY DEF WF, Typed
      <4>2. \A a \in DOMAIN h \ {c} : a % 8 = 0 /\ g[a].length % 8 = 0
        <5> HIDE DEF g
        <5> QED BY <4>1, <2>8
      <4>3. g[new].length % 8 = 0 /\ g[c].length % 8 = 0
        BY <3>3, <1>1, <2>6, <2>7
      <4> HIDE DEF g, new
      <4> QED BY <4>2, <4>3, <3>3, <1>1, <2>5
    <3>5. DOMAIN g \subseteq Int
      BY <2>2, <2>5 DEF WF, Typed
    <3> QED BY <3>1, <3>2, <3>4, <3>5 DEF Typed
  <2>10. /\ End(g, c) = new /\ End(g, new) = End(h, c)
         /\ \A a \in DOMAIN h \ {c} : End(g, a) = End(h, a)
    BY <1>1, <2>2, <2>6, <2>7, <2>8, HeapAssumption DEF End
  <2>11. \A a, d \in DOMAIN g : a < d => End(g, a) <= d
    <3> SUFFICES ASSUME NEW a \in DOMAIN g, NEW d \in DOMAIN g, a < d
                 PROVE  End(g, a) <= d
      OBVIOUS
    <3>1. \A x, y \in DOMAIN h : x < y => End(h, x) <= y
      BY DEF WF, Tiled
    <3>2. \A x \in DOMAIN h : x \in Int /\ End(h, x) \in Int /\ x < End(h, x)
      BY HeapAssumption DEF WF, Typed, Header, End
    <3>3. CASE a = new
      BY <3>1, <3>2, <3>3, <2>2, <2>5, <2>10
    <3>4. CASE a = c
      BY <3>1, <3>2, <3>4, <2>2, <2>5, <2>10
    <3>5. CASE a # c /\ a # new
      BY <3>1, <3>2, <3>5, <2>2, <2>5, <2>10
    <3> QED BY <3>3, <3>4, <3>5
  <2>12. ASSUME NEW a \in DOMAIN g PROVE Linked(g, a)
    <3>0. \A x \in DOMAIN h : Linked(h, x)
      BY DEF WF, Tiled
    <3>1. c # NULL /\ new # NULL /\ new # HeapStart
      BY <1>1, <2>2, <2>3, HeapAssumption DEF WF, Tiled
    <3>2. CASE a = new
      BY <3>0, <3>1, <3>2, <2>4, <2>5, <2>6, <2>7, <2>8, <2>10, ZenonT(60) DEF Linked
    <3>3. CASE a = c
      <4>1. h[c].prev # c /\ h[c].prev # NULL => h[c].prev \in DOMAIN h \ {c}
        BY <3>0, <2>4 DEF Linked
      <4>2. h[c].prev # c
        BY <3>0, <2>4, <1>1, HeapAssumption DEF Linked, End
      <4> QED BY <3>0, <3>1, <3>3, <4>1, <4>2, <2>5, <2>6, <2>7, <2>8, <2>10 DEF Linked
    <3>4. CASE a # c /\ a # new
      <4>1. a \in DOMAIN h /\ Linked(h, a)
        BY <3>0, <3>4, <2>5
      <4>2. g[a].next # NULL => g[a].next # nxt /\ g[g[a].next].prev = a
        <5> SUFFICES ASSUME g[a].next # NULL
                     PROVE  g[a].next # nxt /\ g[g[a].next].prev = a
          OBVIOUS
        <5>1. /\ h[a].next = g[a].next /\ h[a].next \in DOMAIN h
              /\ h[h[a].next].prev = a
          BY <4>1, <3>4, <2>8 DEF Linked
        <5>2. g[a].next # nxt
          BY <5>1, <3>4, <2>4
        <5>3. CASE h[a].next = c
          BY <5>1, <5>2, <5>3, <2>7
        <5>4. CASE h[a].next # c
          BY <5>1, <5>2, <5>4, <2>8
        <5> QED BY <5>2, <5>3, <5>4
      <4>3. CASE a = nxt
        <5>1. nxt # NULL /\ nxt # HeapStart
          BY <4>1, <4>3, <3>1, <2>4, HeapAssumption DEF WF, Typed, Linked
        <5>2. /\ g[a].prev = new /\ g[new].next = a /\ new \in DOMAIN g
              /\ g[a].next = h[a].next /\ End(g, a) = End(h, a)
          BY <4>1, <4>3, <3>4, <2>5, <2>6, <2>8, <2>10
        <5> HIDE DEF g, new
        <5> QED BY <5>1, <5>2, <4>1, <4>2, <4>3, <3>1, <2>5 DEF Linked
      <4>4. CASE a # nxt
        <5>1. g[a].prev = h[a].prev /\ h[a].prev # c
          BY <4>1, <4>4, <3>4, <3>1, <2>8 DEF Linked
        <5> QED BY <5>1, <4>1, <4>2, <4>4, <3>4, <2>5, <2>8, <2>10 DEF Linked
      <4> QED BY <4>3, <4>4
    <3> QED BY <3>2, <3>3, <3>4
  <2>13. HeapStart \in DOMAIN g
    BY <2>5 DEF WF, Tiled
  <2>14. \A a \in DOMAIN g : HeapStart <= a /\ End(g, a) <= HeapEnd
    <3>1. \A x \in DOMAIN h : HeapStart <= x /\ End(h, x) <= HeapEnd
      BY DEF WF, Tiled
    <3>2. End(h, c) \in Int /\ HeapStart \in Int /\ HeapEnd \in Int
      BY <1>1, HeapAssumption DEF End, HeapEnd
    <3> HIDE DEF g, new
    <3> QED BY <3>1, <3>2, <2>2, <2>5, <2>10, <1>1
  <2>15. WF(g)
    BY <2>9, <2>11, <2>12, <2>13, <2>14 DEF WF, Tiled
  <2>16. Keeps(g, h, DOMAIN h \ {c})
    BY <2>5, <2>8 DEF Keeps
  <2> HIDE DEF g, new
  <2> QED BY <1>1, <2>3, <2>5, <2>6, <2>7, <2>15, <2>16 DEF CutTo, g, new
<1> QED BY <1>2, <1>3
-----------------------------------------------------------------------------
\* A list that is well formed and has no two free neighbours.
Sound(h) == WF(h) /\ NoFreeNeighbours(h)

\* The allocated chunks of h that are in S are allocated in g, as long as before.
KeepsAllocated(g, h, S) ==
  \A a \in S : a \in DOMAIN h /\ h[a].allocated =>
                 a \in DOMAIN g /\ g[a].allocated /\ g[a].length = h[a].length

\* g gives chunk c to a block of `size` bytes.
Holds(g, c, size) == c \in DOMAIN g /\ g[c].allocated /\ size <= g[c].length

\* The links of a well-formed list, in the form the lemmas below use them.
LEMMA NextIn ==
  ASSUME NEW h, WF(h), NEW a \in DOMAIN h, h[a].next # NULL
  PROVE  /\ h[a].next \in DOMAIN h /\ h[h[a].next].prev = a
         /\ a \in Int /\ h[a].next \in Int /\ a < h[a].next
<1>1. h[a].next \in DOMAIN h /\ h[h[a].next].prev = a /\ h[a].next = End(h, a)
  BY DEF WF, Tiled, Linked
<1>2. a \in Int /\ h[a].next \in Int /\ h[a].length \in Nat
  BY <1>1 DEF WF, Typed, Header
<1> QED BY <1>1, <1>2, HeapAssumption DEF End

\* The rest of a chunk that was cut is free, and it is no neighbour of a free
\* chunk if c itself was allocated or free between allocated ones.
LEMMA CutSound ==
  ASSUME NEW h, NEW g, WF(h), NEW c \in DOMAIN h, NEW size, CutTo(g, h, c, size),
         \A a \in DOMAIN h \ {c} : ~h[a].allocated => NextNotFree(h, a),
         NextNotFree(h, c)
  PROVE  \A a \in DOMAIN g \ {c} : ~g[a].allocated => NextNotFree(g, a) \/ g[a].next = c
<1> SUFFICES ASSUME NEW a \in DOMAIN g \ {c}, ~g[a].allocated, g[a].next # NULL,
                    g[a].next # c
             PROVE  g[g[a].next].allocated
  BY DEF NextNotFree
<1>1. CASE a \in DOMAIN h
  <2>0. Keeps(g, h, DOMAIN h \ {c})
    BY DEF CutTo
  <2>1. ~h[a].allocated /\ g[a].next = h[a].next
    BY <2>0, <1>1 DEF Keeps
  <2>2. h[a].next \in DOMAIN h /\ h[h[a].next].allocated
    BY <2>1, <1>1, NextIn DEF NextNotFree
  <2> QED BY <2>1, <2>2 DEF CutTo, Keeps
<1>2. CASE a \notin DOMAIN h
  <2>1. g[a].next = h[c].next
    BY <1>2 DEF CutTo
  <2>2. h[c].next \in DOMAIN h /\ h[h[c].next].allocated
    BY <2>1, NextIn DEF NextNotFree
  <2> QED BY <2>1, <2>2 DEF CutTo, Keeps
<1> QED BY <1>1, <1>2

\* What a caller of malloc relies on: a free chunk that fits is taken, its
\* rest is returned to the heap, and no other chunk changes hands.
LEMMA TakeOK ==
  ASSUME NEW h, Sound(h),
         NEW c \in DOMAIN h, NEW size \in Nat, Fits(h, c, size)
  PROVE  /\ Sound(Take(h, c, size)) /\ Holds(Take(h, c, size), c, size)
         /\ KeepsAllocated(Take(h, c, size), h, DOMAIN h)
<1> DEFINE k == Shrink(h, c, size)
           g == Take(h, c, size)
<1>1. CutTo(k, h, c, size)
  BY ShrinkWF DEF Fits, Sound
<1>2. WF(k) /\ k[c] \in Header /\ c \in DOMAIN k /\ DOMAIN h \subseteq DOMAIN k
      /\ size <= k[c].length
  BY <1>1 DEF CutTo, WF, Typed
<1>3. WF(g) /\ DOMAIN g = DOMAIN k
  BY <1>2, FlagWF DEF Take
<1>4. /\ g[c].allocated /\ g[c].length = k[c].length
      /\ \A a \in DOMAIN k \ {c} : g[a] = k[a]
  BY <1>2 DEF Take, Header
<1>5. \A a \in DOMAIN k \ {c} : ~k[a].allocated => NextNotFree(k, a) \/ k[a].next = c
  BY <1>1, CutSound DEF Sound, NoFreeNeighbours, Fits
<1> HIDE DEF k, g
<1>6. NoFreeNeighbours(g)
  <2> SUFFICES ASSUME NEW a \in DOMAIN g, ~g[a].allocated, g[a].next # NULL
               PROVE  g[g[a].next].allocated
    BY DEF NoFreeNeighbours, NextNotFree
  <2>1. a \in DOMAIN k \ {c} /\ ~k[a].allocated /\ g[a].next = k[a].next
    BY <1>3, <1>4
  <2>2. k[a].next \in DOMAIN k
    BY <2>1, <1>2, NextIn
  <2> QED BY <2>1, <2>2, <1>4, <1>5 DEF NextNotFree
<1>7. KeepsAllocated(g, h, DOMAIN h)
  <2> SUFFICES ASSUME NEW a \in DOMAIN h, h[a].allocated
               PROVE  a \in DOMAIN g /\ g[a].allocated /\ g[a].length = h[a].length
    BY DEF KeepsAllocated
  <2>1. a # c
    BY DEF Fits
  <2>2. k[a].allocated /\ k[a].length = h[a].length
    BY <2>1, <1>1 DEF CutTo, Keeps
  <2> QED BY <2>1, <2>2, <1>2, <1>3, <1>4
<1> QED BY <1>2, <1>3, <1>4, <1>6, <1>7 DEF Sound, Holds, g

\* Growing an allocated chunk into the free one that follows it: the rest is
\* returned, and no allocated chunk changes.
LEMMA GrowOK ==
  ASSUME NEW h, Sound(h), NEW c \in DOMAIN h, h[c].allocated,
         NEW size \in Nat, GrowsInPlace(h, c, size)
  PROVE  LET g == Shrink(MergeNext(h, c), c, size)
         IN /\ Sound(g) /\ Holds(g, c, size)
            /\ KeepsAllocated(g, h, DOMAIN h \ {c})
<1> DEFINE n == h[c].next
           k == MergeNext(h, c)
           g == Shrink(k, c, size)
<1>1. n # NULL /\ ~h[n].allocated /\ size <= h[c].length + h[n].length + HdrSize
  BY DEF GrowsInPlace, IsFree
<1>2. n \in DOMAIN h /\ n # c
  BY <1>1, NextIn DEF Sound
<1>3. Merged(k, h, c, n)
  BY <1>1, MergeWF DEF Sound
<1>4. WF(k) /\ c \in DOMAIN k /\ DOMAIN k = DOMAIN h \ {n} /\ k[c].next = h[n].next
  BY <1>2, <1>3 DEF Merged
<1>5. size <= k[c].length
  BY <1>1, <1>3 DEF Merged
<1>6. k[c].allocated
  BY <1>3 DEF Merged
<1>7. \A a \in DOMAIN k : NextNotFree(h, a) /\ a # c => NextNotFree(k, a)
  <2> SUFFICES ASSUME NEW a \in DOMAIN k, NextNotFree(h, a), a # c, k[a].next # NULL
               PROVE  k[k[a].next].allocated
    BY DEF NextNotFree
  <2>0. Keeps(k, h, DOMAIN h \ {c, n}) /\ a \in DOMAIN h \ {c, n}
    BY <1>3, <1>4 DEF Merged
  <2> HIDE DEF k, n
  <2>1. a \in DOMAIN h /\ k[a].next = h[a].next
    BY <2>0 DEF Keeps
  <2>2. h[a].next \in DOMAIN h /\ h[h[a].next].allocated
    BY <2>1, NextIn DEF NextNotFree, Sound
  <2>3. h[a].next # n
    BY <2>2, <1>1
  <2>4. CASE h[a].next = c
    BY <2>1, <2>4, <1>6
  <2>5. CASE h[a].next # c
    BY <2>1, <2>2, <2>3, <2>5, <1>3 DEF Merged, Keeps
  <2> QED BY <2>4, <2>5
<1>8. NextNotFree(k, c)
  <2> SUFFICES ASSUME h[n].next # NULL PROVE k[h[n].next].allocated
    BY <1>4 DEF NextNotFree
  <2>1. h[n].next \in DOMAIN h /\ h[h[n].next].allocated /\ n < h[n].next /\ c < n
        /\ c \in Int /\ n \in Int /\ h[n].next \in Int
    BY <1>1, <1>2, NextIn DEF NoFreeNeighbours, NextNotFree, Sound
  <2>2. h[n].next # n /\ h[n].next # c
    BY <2>1
  <2> QED BY <2>1, <2>2, <1>3 DEF Merged, Keeps
<1>9. \A a \in DOMAIN k \ {c} : ~k[a].allocated => NextNotFree(k, a)
  BY <1>3, <1>4, <1>7 DEF Merged, Keeps, Sound, NoFreeNeighbours
<1>10. CutTo(g, k, c, size)
  BY <1>4, <1>5, ShrinkWF
<1> HIDE DEF k, g
<1>11. WF(g) /\ Holds(g, c, size)
  BY <1>4, <1>6, <1>10 DEF CutTo, Holds
<1>12. \A a \in DOMAIN g \ {c} : ~g[a].allocated => NextNotFree(g, a) \/ g[a].next = c
  BY <1>4, <1>8, <1>9, <1>10, CutSound
<1>13. NoFreeNeighbours(g)
  BY <1>11, <1>12 DEF NoFreeNeighbours, NextNotFree, Holds
<1>14. KeepsAllocated(g, h, DOMAIN h \ {c})
  <2> SUFFICES ASSUME NEW a \in DOMAIN h \ {c}, h[a].allocated
               PROVE  a \in DOMAIN g /\ g[a].allocated /\ g[a].length = h[a].length
    BY DEF KeepsAllocated
  <2>1. a # n
    BY <1>1
  <2>2. a \in DOMAIN k /\ k[a].allocated /\ k[a].length = h[a].length
    BY <2>1, <1>3 DEF Merged, Keeps
  <2> QED BY <2>2, <1>10 DEF CutTo, Keeps
<1> QED BY <1>11, <1>13, <1>14 DEF Sound, g, k
\* __free up to the merge with the next chunk: the only free neighbours that
\* can be left are the chunk and its predecessor.
LEMMA FreedNextOK ==
  ASSUME NEW h, Sound(h), NEW c \in DOMAIN h
  PROVE  LET g == FreedNext(h, c)
         IN /\ WF(g) /\ c \in DOMAIN g /\ ~g[c].allocated /\ NextNotFree(g, c)
            /\ \A a \in DOMAIN g \ {c} :
                 ~g[a].allocated => NextNotFree(g, a) \/ g[a].next = c
            /\ KeepsAllocated(g, h, DOMAIN h \ {c})
<1> DEFINE k == [h EXCEPT ![c].allocated = FALSE]
           n == h[c].next
           g == FreedNext(h, c)
<1>1. WF(k) /\ DOMAIN k = DOMAIN h
  BY FlagWF DEF Sound
<1>2. /\ ~k[c].allocated /\ k[c].next = n
      /\ \A a \in DOMAIN h \ {c} : k[a] = h[a]
  <2>1. h[c] \in Header
    BY DEF Sound, WF, Typed
  <2> QED BY <2>1 DEF Header
<1>3. g = IF IsFree(k, n) THEN MergeNext(k, c) ELSE k
  BY <1>2 DEF FreedNext
<1> HIDE DEF k
<1>4. \A a \in DOMAIN h \ {c} :
        ~k[a].allocated => NextNotFree(k, a) \/ k[a].next = c
  <2> SUFFICES ASSUME NEW a \in DOMAIN h \ {c}, ~k[a].allocated,
                      k[a].next # NULL, k[a].next # c
               PROVE  k[k[a].next].allocated
    BY DEF NextNotFree
  <2>1. k[a] = h[a]
    BY <1>2
  <2>2. h[a].next \in DOMAIN h /\ h[h[a].next].allocated
    BY <2>1, NextIn DEF Sound, NoFreeNeighbours, NextNotFree
  <2> QED BY <2>1, <2>2, <1>2
<1>5. KeepsAllocated(k, h, DOMAIN h \ {c})
  BY <1>1, <1>2 DEF KeepsAllocated
<1>6. CASE ~IsFree(k, n)
  <2>1. g = k
    BY <1>3, <1>6
  <2>2. NextNotFree(k, c)
    BY <1>2, <1>6 DEF NextNotFree, IsFree
  <2> HIDE DEF g
  <2> QED BY <2>1, <2>2, <1>1, <1>2, <1>4, <1>5 DEF g
<1>7. CASE IsFree(k, n)
  <2>1. n # NULL /\ ~k[n].allocated /\ g = MergeNext(k, c)
    BY <1>3, <1>7 DEF IsFree
  <2>2. Merged(MergeNext(k, c), k, c, n)
    BY <2>1, <1>1, <1>2, MergeWF
  <2>3. Merged(g, k, c, n)
    BY <2>1, <2>2
  <2> HIDE DEF g
  <2>4. n \in DOMAIN k /\ n \in Int /\ c \in Int /\ c < n
    BY <2>1, <1>1, <1>2, NextIn
  <2>5. /\ WF(g) /\ DOMAIN g = DOMAIN h \ {n} /\ g[c].next = k[n].next
        /\ c \in DOMAIN g
    BY <2>3, <2>4, <1>1 DEF Merged
  <2>6. ~g[c].allocated
    BY <2>3, <1>2 DEF Merged
  <2>7. \A a \in DOMAIN g \ {c} :
          /\ g[a].length = k[a].length /\ g[a].next = k[a].next
          /\ g[a].allocated <=> k[a].allocated
    BY <2>3, <2>5, <1>1 DEF Merged, Keeps
  <2>8. NextNotFree(g, c)
    <3> SUFFICES ASSUME k[n].next # NULL PROVE g[k[n].next].allocated
      BY <2>5 DEF NextNotFree
    <3>1. /\ k[n].next \in DOMAIN k /\ n < k[n].next /\ k[n].next \in Int
      BY <2>4, <1>1, NextIn
    <3>2. k[n].next # c /\ k[n].next # n /\ n # c
      BY <3>1, <2>4
    <3>3. k[k[n].next].allocated
      BY <3>2, <2>1, <2>4, <1>1, <1>4 DEF NextNotFree
    <3> QED BY <3>1, <3>2, <3>3, <2>5, <2>7, <1>1
  <2>9. \A a \in DOMAIN g \ {c} :
          ~g[a].allocated => NextNotFree(g, a) \/ g[a].next = c
    <3> SUFFICES ASSUME NEW a \in DOMAIN g \ {c}, ~g[a].allocated,
                        g[a].next # NULL, g[a].next # c
                 PROVE  g[g[a].next].allocated
      BY DEF NextNotFree
    <3>1. ~k[a].allocated /\ g[a].next = k[a].next /\ a \in DOMAIN h \ {c}
      BY <2>5, <2>7
    <3>2. k[k[a].next].allocated /\ k[a].next \in DOMAIN k
      BY <3>1, <1>1, <1>4, NextIn DEF NextNotFree
    <3>3. k[a].next # n
      BY <3>2, <2>1
    <3> QED BY <3>1, <3>2, <3>3, <2>5, <2>7, <1>1
  <2>10. KeepsAllocated(g, h, DOMAIN h \ {c})
    <3> SUFFICES ASSUME NEW a \in DOMAIN h \ {c}, h[a].allocated
                 PROVE  a \in DOMAIN g /\ g[a].allocated /\ g[a].length = h[a].length
      BY DEF KeepsAllocated
    <3>1. k[a] = h[a] /\ a # n
      BY <2>1, <1>2
    <3> QED BY <3>1, <2>5, <2>7
  <2> QED BY <2>5, <2>6, <2>8, <2>9, <2>10 DEF g
<1> QED BY <1>6, <1>7

\* __free: the list stays well formed, free neighbours are merged, and no other
\* allocated chunk changes.
LEMMA FreedOK ==
  ASSUME NEW h, Sound(h), NEW c \in DOMAIN h
  PROVE  Sound(Freed(h, c)) /\ KeepsAllocated(Freed(h, c), h, DOMAIN h \ {c})
<1> DEFINE k == FreedNext(h, c)
           p == k[c].prev
           g == Freed(h, c)
<1>1. /\ WF(k) /\ c \in DOMAIN k /\ ~k[c].allocated /\ NextNotFree(k, c)
      /\ \A a \in DOMAIN k \ {c} :
           ~k[a].allocated => NextNotFree(k, a) \/ k[a].next = c
      /\ KeepsAllocated(k, h, DOMAIN h \ {c})
  BY FreedNextOK
<1>2. g = IF IsFree(k, p) THEN MergeNext(k, p) ELSE k
  BY DEF Freed
<1> HIDE DEF k
<1>3. p # NULL => p \in DOMAIN k /\ k[p].next = c
  BY <1>1 DEF WF, Tiled, Linked
<1>4. \A a \in DOMAIN k : k[a].next = c => a = p
  <2>1. c # NULL
    BY <1>1, HeapAssumption DEF WF, Typed
  <2> QED BY <2>1, <1>1, NextIn
<1>5. CASE ~IsFree(k, p)
  <2>1. g = k
    BY <1>2, <1>5
  <2>2. NoFreeNeighbours(k)
    <3> SUFFICES ASSUME NEW a \in DOMAIN k, ~k[a].allocated PROVE NextNotFree(k, a)
      BY DEF NoFreeNeighbours
    <3>1. CASE a = c
      BY <3>1, <1>1
    <3>2. CASE a # c
      <4>1. k[a].next # c
        BY <1>1, <1>4, <1>5, HeapAssumption DEF IsFree, WF, Typed
      <4> QED BY <3>2, <4>1, <1>1
    <3> QED BY <3>1, <3>2
  <2> HIDE DEF g
  <2> QED BY <2>1, <2>2, <1>1 DEF Sound, g
<1>6. CASE IsFree(k, p)
  <2>1. /\ p # NULL /\ ~k[p].allocated /\ g = MergeNext(k, p)
        /\ p \in DOMAIN k /\ k[p].next = c /\ c # NULL
    BY <1>1, <1>2, <1>3, <1>6, HeapAssumption DEF IsFree, WF, Typed
  <2>2. Merged(MergeNext(k, p), k, p, c)
    BY <2>1, <1>1, MergeWF
  <2>3. Merged(g, k, p, c)
    BY <2>1, <2>2
  <2> HIDE DEF g, p
  <2>4. p < c /\ p \in Int /\ c \in Int
    BY <2>1, <1>1, NextIn
  <2>5. /\ WF(g) /\ DOMAIN g = DOMAIN k \ {c} /\ g[p].next = k[c].next
        /\ p \in DOMAIN g
    BY <2>1, <2>3, <2>4 DEF Merged
  <2>6. \A a \in DOMAIN g \ {p} :
          /\ g[a].length = k[a].length /\ g[a].next = k[a].next
          /\ g[a].allocated <=> k[a].allocated
    BY <2>3, <2>5 DEF Merged, Keeps
  <2>7. ASSUME NEW a \in DOMAIN g, ~g[a].allocated PROVE NextNotFree(g, a)
    <3> SUFFICES ASSUME g[a].next # NULL PROVE g[g[a].next].allocated
      BY DEF NextNotFree
    <3>1. CASE a = p
      <4>1. /\ g[a].next = k[c].next /\ k[c].next \in DOMAIN k
            /\ c < k[c].next /\ k[c].next \in Int
        BY <3>1, <2>5, <1>1, NextIn
      <4>2. k[k[c].next].allocated
        BY <4>1, <1>1 DEF NextNotFree
      <4>3. k[c].next # c /\ k[c].next # p
        BY <4>1, <2>4
      <4> QED BY <4>1, <4>2, <4>3, <2>5, <2>6
    <3>2. CASE a # p
      <4>1. /\ a \in DOMAIN k \ {c} /\ ~k[a].allocated /\ g[a].next = k[a].next
        BY <3>2, <2>5, <2>6, <2>7
      <4>2. k[a].next # c
        BY <3>2, <4>1, <1>4 DEF p
      <4>3. k[a].next \in DOMAIN k /\ k[k[a].next].allocated
        BY <4>1, <4>2, <1>1, NextIn DEF NextNotFree
      <4>4. k[a].next # p
        BY <4>3, <2>1
      <4> QED BY <4>1, <4>2, <4>3, <4>4, <2>5, <2>6
    <3> QED BY <3>1, <3>2
  <2>8. KeepsAllocated(g, h, DOMAIN h \ {c})
    <3> SUFFICES ASSUME NEW a \in DOMAIN h \ {c}, h[a].allocated
                 PROVE  a \in DOMAIN g /\ g[a].allocated /\ g[a].length = h[a].length
      BY DEF KeepsAllocated
    <3>1. a \in DOMAIN k /\ k[a].allocated /\ k[a].length = h[a].length
      BY <1>1 DEF KeepsAllocated
    <3>2. a # p
      BY <3>1, <2>1
    <3> QED BY <3>1, <3>2, <2>5, <2>6
  <2> QED BY <2>5, <2>7, <2>8 DEF Sound, NoFreeNeighbours, g
<1> QED BY <1>5, <1>6
-----------------------------------------------------------------------------
\* The inductive invariant.  HeapTiled is not inductive alone: free must know
\* that the chunk it is given is in the list, which is what the slots own.
IInv == TypeOK /\ Sound(chunk) /\ SlotsOwnChunks

ChunkOf(s) == live[s].ptr - HdrSize

\* A step that gives slot s the chunk d and leaves the other slots' chunks
\* alone keeps every slot's chunk its own.
LEMMA Rehome ==
  ASSUME TypeOK, SlotsOwnChunks,
         NEW s \in Slots, NEW d \in Int, NEW size \in Nat,
         Holds(chunk', d, size),
         \A t \in Slots \ {s} : live[t] # NoPtr =>
            /\ ChunkOf(t) # d /\ ChunkOf(t) \in DOMAIN chunk'
            /\ chunk'[ChunkOf(t)].allocated
            /\ chunk'[ChunkOf(t)].length = chunk[ChunkOf(t)].length,
         live' = [live EXCEPT ![s] = [ptr |-> d + HdrSize, size |-> size]]
  PROVE  SlotsOwnChunks'
<1>1. /\ live'[s] = [ptr |-> d + HdrSize, size |-> size]
      /\ \A t \in Slots \ {s} : live'[t] = live[t]
  BY DEF TypeOK
<1>2. d + HdrSize \in Int /\ HdrSize \in Int /\ (d + HdrSize) - HdrSize = d
  BY HeapAssumption
<1>3. ASSUME NEW t \in Slots PROVE Owns(chunk, t)'
  <2>1. CASE t = s
    <3> HIDE DEF Holds
    <3>1. live'[t].ptr = d + HdrSize /\ live'[t].size = size
      BY <1>1, <2>1
    <3>2. live'[t].ptr \in Int /\ live'[t].ptr - HdrSize = d
      BY <3>1, <1>2
    <3> QED BY <3>1, <3>2 DEF Owns, Holds
  <2>2. CASE t # s
    <3>1. live'[t] = live[t] /\ Owns(chunk, t)
      BY <1>1, <2>2 DEF SlotsOwnChunks
    <3> QED BY <3>1, <2>2 DEF Owns, ChunkOf
  <2> QED BY <2>1, <2>2
<1>4. ASSUME NEW t \in Slots, NEW u \in Slots, t # u, live'[t] # NoPtr
      PROVE  live'[t].ptr # live'[u].ptr
  <2>1. \A v \in Slots \ {s} : live[v].ptr # d + HdrSize
    <3> SUFFICES ASSUME NEW v \in Slots \ {s}, live[v].ptr = d + HdrSize
                 PROVE  FALSE
      OBVIOUS
    <3>1. live[v] # NoPtr
      BY <1>2, HeapAssumption DEF NoPtr
    <3>2. ChunkOf(v) = d
      BY <1>2 DEF ChunkOf
    <3> QED BY <3>1, <3>2
  <2>2. live'[s].ptr = d + HdrSize
    BY <1>1
  <2> QED BY <1>1, <1>4, <2>1, <2>2 DEF SlotsOwnChunks
<1> QED BY <1>3, <1>4 DEF SlotsOwnChunks

\* Every word that memory operations write holds what they write.
LEMMA MemTyped ==
  ASSUME NEW m \in [Words -> Slots \cup {"hdr", "junk"}], NEW s \in Slots,
         NEW h, NEW c, NEW size, NEW ptr, NEW from
  PROVE  /\ ShrinkMem(m, h, c, size) \in [Words -> Slots \cup {"hdr", "junk"}]
         /\ Fill(m, s, ptr, from, size) \in [Words -> Slots \cup {"hdr", "junk"}]
BY DEF ShrinkMem, Fill

\* A live slot's chunk is in the list, allocated and large enough.
LEMMA LiveChunk ==
  ASSUME IInv, NEW s \in Slots, live[s] # NoPtr
  PROVE  /\ ChunkOf(s) \in DOMAIN chunk /\ chunk[ChunkOf(s)].allocated
         /\ live[s].ptr = ChunkOf(s) + HdrSize /\ ChunkOf(s) \in Int
         /\ live[s].size \in Nat /\ live[s].size <= chunk[ChunkOf(s)].length
         /\ \A t \in Slots \ {s} : live[t] # NoPtr => ChunkOf(t) # ChunkOf(s)
<1>1. Owns(chunk, s) /\ \A t \in Slots \ {s} : live[t] # NoPtr => Owns(chunk, t)
  BY DEF IInv, SlotsOwnChunks
<1>2. /\ live[s].ptr \in Int /\ ChunkOf(s) \in DOMAIN chunk
      /\ chunk[ChunkOf(s)].allocated /\ live[s].size <= chunk[ChunkOf(s)].length
  BY <1>1 DEF Owns, ChunkOf
<1>3. live[s].size \in Nat
  BY DEF IInv, TypeOK
<1>4. live[s].ptr = ChunkOf(s) + HdrSize /\ ChunkOf(s) \in Int
  BY <1>2, HeapAssumption DEF ChunkOf
<1>5. ASSUME NEW t \in Slots \ {s}, live[t] # NoPtr PROVE ChunkOf(t) # ChunkOf(s)
  <2>1. live[t].ptr \in Int /\ live[t].ptr # live[s].ptr
    BY <1>1, <1>5 DEF Owns, IInv, SlotsOwnChunks
  <2> QED BY <2>1, <1>2, HeapAssumption DEF ChunkOf
<1> QED BY <1>2, <1>3, <1>4, <1>5
\* __memcpy8 reads only words of the chunk it copies from.
LEMMA CopyTyped ==
  ASSUME NEW h, WF(h), NEW c \in DOMAIN h, NEW d \in DOMAIN h, NEW len \in Nat,
         len <= h[c].length, NEW m \in [Words -> Slots \cup {"hdr", "junk"}]
  PROVE  Copy8(m, d + HdrSize, c + HdrSize, (len + 7) \div 8)
           \in [Words -> Slots \cup {"hdr", "junk"}]
<1> DEFINE k == (len + 7) \div 8
           dst == d + HdrSize
           src == c + HdrSize
<1>1. /\ c \in Int /\ d \in Int /\ c % 8 = 0 /\ d % 8 = 0 /\ HeapStart <= c
      /\ h[c].length \in Nat /\ h[c].length % 8 = 0
      /\ c + HdrSize + h[c].length <= HeapEnd
  BY DEF WF, Typed, Header, Tiled, End
<1>2. k \in Nat /\ 8 * k <= h[c].length
  <2>1. RoundUp8(len) <= h[c].length
    BY <1>1, RoundUp8Lemma
  <2> QED BY <2>1, <1>1 DEF RoundUp8
<1>3. ASSUME NEW w \in WordsOf(dst, dst + 8 * k) PROVE w - dst + src \in Words
  <2> DEFINE L == h[c].length
  <2>1. w \in Int /\ w % 8 = 0 /\ dst <= w /\ w < dst + 8 * k
    BY HeapAssumption DEF WordsOf, Words, HeapEnd
  <2>2. HeapStart <= w - dst + src /\ w - dst + src < HeapEnd
        /\ w - dst + src \in Int
    <3> HIDE DEF k, L
    <3> QED BY <2>1, <1>1, <1>2, HeapAssumption DEF HeapEnd, L
  <2>3. (w - dst + src) % 8 = 0
    <3> HIDE DEF k
    <3>1. w - dst + src = (w - d) + c
      BY <2>1, <1>1, HeapAssumption
    <3>2. (w - d) % 8 = 0 /\ w - d \in Int
      <4>1. w \in Int /\ d \in Int /\ w % 8 = 0 /\ d % 8 = 0
        BY <2>1, <1>1
      <4> QED BY <4>1
    <3> QED BY <3>1, <3>2, <1>1, Mod8
  <2> QED BY <2>2, <2>3, HeapAssumption DEF Words, HeapEnd
<1> HIDE DEF k, dst, src
<1>4. Copy8(m, dst, src, k) \in [Words -> Slots \cup {"hdr", "junk"}]
  BY <1>3 DEF Copy8
<1> QED BY <1>4 DEF k, dst, src

\* IInv holds initially: __init_heap makes one free chunk of the whole arena.
LEMMA InitIInv == Init => IInv
<1> SUFFICES ASSUME Init PROVE IInv
  OBVIOUS
<1> DEFINE c == HeapStart
<1>1. /\ DOMAIN chunk = {c} /\ chunk[c].next = NULL /\ chunk[c].prev = NULL
      /\ ~chunk[c].allocated /\ chunk[c].length = HeapLen - HdrSize
      /\ chunk = [a \in {c} |-> chunk[a]]
  BY DEF Init
<1>2. chunk[c] \in Header
  BY HeapAssumption DEF Init, Header
<1>3. (HeapLen - HdrSize) % 8 = 0 /\ HeapLen - HdrSize \in Nat
  BY HeapAssumption, Mod8
<1>4. Typed(chunk)
  BY <1>1, <1>2, <1>3, HeapAssumption DEF Typed
<1>5. End(chunk, c) = HeapEnd
  BY <1>1, HeapAssumption DEF End, HeapEnd
<1>6. Tiled(chunk)
  BY <1>1, <1>5, HeapAssumption DEF Tiled, Linked, HeapEnd
<1>7. NoFreeNeighbours(chunk)
  BY <1>1 DEF NoFreeNeighbours, NextNotFree
<1>8. TypeOK
  BY <1>1, <1>2, HeapAssumption DEF Init, TypeOK, NoPtr
<1>9. SlotsOwnChunks
  BY DEF Init, SlotsOwnChunks, Owns
<1> QED BY <1>4, <1>6, <1>7, <1>8, <1>9 DEF IInv, Sound, WF
\* The heap part of TypeOK follows from Sound.
LEMMA SoundTyped ==
  ASSUME NEW h, Sound(h) PROVE DOMAIN h \subseteq Int /\ h \in [DOMAIN h -> Header]
BY DEF Sound, WF, Typed

\* malloc preserves the invariant.
LEMMA MallocIInv ==
  ASSUME IInv, NEW s \in Slots, NEW size \in Sizes, Malloc(s, size)
  PROVE  IInv'
<1>0. size \in Nat
  BY HeapAssumption
<1>1. PICK c \in DOMAIN chunk :
        /\ FirstFit(chunk, c, size) /\ chunk' = Take(chunk, c, size)
        /\ mem' = Fill(ShrinkMem(mem, chunk, c, size), s, c + HdrSize, 0, size)
        /\ live' = [live EXCEPT ![s] = [ptr |-> c + HdrSize, size |-> size]]
        /\ fault' = fault
  BY DEF Malloc
<1>2. Fits(chunk, c, size) /\ c \in Int /\ c + HdrSize \in Int
  BY <1>1, HeapAssumption DEF FirstFit, IInv, TypeOK
<1>3. /\ Sound(chunk') /\ Holds(chunk', c, size)
      /\ KeepsAllocated(chunk', chunk, DOMAIN chunk)
  BY <1>0, <1>1, <1>2, TakeOK DEF IInv
<1>4. SlotsOwnChunks'
  <2>1. ASSUME NEW t \in Slots \ {s}, live[t] # NoPtr
        PROVE  /\ ChunkOf(t) # c /\ ChunkOf(t) \in DOMAIN chunk'
               /\ chunk'[ChunkOf(t)].allocated
               /\ chunk'[ChunkOf(t)].length = chunk[ChunkOf(t)].length
    BY <2>1, <1>2, <1>3, LiveChunk DEF Fits, KeepsAllocated
  <2> QED BY <2>1, <1>0, <1>1, <1>2, <1>3, Rehome DEF IInv
<1>5. TypeOK'
  <2>1. mem' \in [Words -> Slots \cup {"hdr", "junk"}]
    BY <1>1, MemTyped DEF IInv, TypeOK
  <2>2. live' \in [Slots -> [ptr : Int \cup {NULL}, size : Nat]]
    BY <1>0, <1>1, <1>2 DEF IInv, TypeOK
  <2> QED BY <2>1, <2>2, <1>1, <1>3, SoundTyped DEF IInv, TypeOK
<1> QED BY <1>3, <1>4, <1>5 DEF IInv

\* realloc in place preserves the invariant.
LEMMA ReallocInPlaceIInv ==
  ASSUME IInv, NEW s \in Slots, NEW size \in Sizes, ReallocInPlace(s, size)
  PROVE  IInv'
<1> DEFINE c == ChunkOf(s)
<1>0. size \in Nat
  BY HeapAssumption
<1>1. /\ live[s] # NoPtr /\ GrowsInPlace(chunk, c, size)
      /\ chunk' = Shrink(MergeNext(chunk, c), c, size)
      /\ mem' = Fill(ShrinkMem(mem, MergeNext(chunk, c), c, size), s,
                     live[s].ptr, live[s].size, size)
      /\ live' = [live EXCEPT ![s] = [ptr |-> live[s].ptr, size |-> size]] /\ fault' = fault
  BY DEF ReallocInPlace, ChunkOf
<1>2. /\ c \in DOMAIN chunk /\ chunk[c].allocated /\ c \in Int
      /\ live[s].ptr = c + HdrSize
      /\ \A t \in Slots \ {s} : live[t] # NoPtr => ChunkOf(t) # c
  BY <1>1, LiveChunk
<1> HIDE DEF c
<1>3. /\ Sound(chunk') /\ Holds(chunk', c, size)
      /\ KeepsAllocated(chunk', chunk, DOMAIN chunk \ {c})
  BY <1>0, <1>1, <1>2, GrowOK DEF IInv
<1>4. live' = [live EXCEPT ![s] = [ptr |-> c + HdrSize, size |-> size]]
  BY <1>1, <1>2 DEF IInv, TypeOK
<1>5. SlotsOwnChunks'
  <2>1. ASSUME NEW t \in Slots \ {s}, live[t] # NoPtr
        PROVE  /\ ChunkOf(t) # c /\ ChunkOf(t) \in DOMAIN chunk'
               /\ chunk'[ChunkOf(t)].allocated
               /\ chunk'[ChunkOf(t)].length = chunk[ChunkOf(t)].length
    BY <2>1, <1>2, <1>3, LiveChunk DEF KeepsAllocated
  <2> QED BY <2>1, <1>0, <1>2, <1>3, <1>4, Rehome DEF IInv
<1>6. TypeOK'
  <2>1. mem' \in [Words -> Slots \cup {"hdr", "junk"}]
    BY <1>1, MemTyped DEF IInv, TypeOK
  <2>2. live' \in [Slots -> [ptr : Int \cup {NULL}, size : Nat]]
    BY <1>0, <1>1 DEF IInv, TypeOK
  <2> QED BY <2>1, <2>2, <1>1, <1>3, SoundTyped DEF IInv, TypeOK
<1> QED BY <1>3, <1>5, <1>6 DEF IInv

\* realloc by copying preserves the invariant.
LEMMA ReallocMovesIInv ==
  ASSUME IInv, NEW s \in Slots, NEW size \in Sizes, ReallocMoves(s, size)
  PROVE  IInv'
<1> DEFINE c == ChunkOf(s)
           len == KeptLen(chunk, c, size)
<1>0. size \in Nat
  BY HeapAssumption
<1>1. PICK d \in DOMAIN chunk :
        /\ live[s] # NoPtr /\ FirstFit(chunk, d, size)
        /\ chunk' = Freed(Take(chunk, d, size), c)
        /\ mem' = Fill(Copy8(ShrinkMem(mem, chunk, d, size), d + HdrSize,
                             live[s].ptr, (len + 7) \div 8),
                       s, d + HdrSize, live[s].size, size)
        /\ live' = [live EXCEPT ![s] = [ptr |-> d + HdrSize, size |-> size]]
        /\ fault' = fault
  BY DEF ReallocMoves, ChunkOf
<1>2. /\ c \in DOMAIN chunk /\ chunk[c].allocated /\ c \in Int
      /\ live[s].ptr = c + HdrSize
      /\ \A t \in Slots \ {s} : live[t] # NoPtr => ChunkOf(t) # c
  BY <1>1, LiveChunk
<1>3. /\ Fits(chunk, d, size) /\ d \in Int /\ d + HdrSize \in Int /\ d # c
  BY <1>1, <1>2, HeapAssumption DEF FirstFit, Fits, IInv, TypeOK
<1>4. len \in Nat /\ len <= chunk[c].length
  <2>1. chunk[c].length \in Nat
    BY <1>2 DEF IInv, TypeOK, Header
  <2> QED BY <2>1, <1>0 DEF KeptLen
<1> DEFINE h == Take(chunk, d, size)
<1>5. Sound(h) /\ Holds(h, d, size) /\ KeepsAllocated(h, chunk, DOMAIN chunk)
  BY <1>0, <1>3, TakeOK DEF IInv
<1>6. c \in DOMAIN h
  BY <1>2, <1>5 DEF KeepsAllocated
<1> HIDE DEF c, h, len
<1>7. Sound(chunk') /\ KeepsAllocated(chunk', h, DOMAIN h \ {c})
  BY <1>1, <1>5, <1>6, FreedOK DEF h
<1>8. Holds(chunk', d, size)
  BY <1>3, <1>5, <1>7 DEF Holds, KeepsAllocated
<1>9. SlotsOwnChunks'
  <2>1. ASSUME NEW t \in Slots \ {s}, live[t] # NoPtr
        PROVE  /\ ChunkOf(t) # d /\ ChunkOf(t) \in DOMAIN chunk'
               /\ chunk'[ChunkOf(t)].allocated
               /\ chunk'[ChunkOf(t)].length = chunk[ChunkOf(t)].length
    <3>1. /\ ChunkOf(t) \in DOMAIN chunk /\ chunk[ChunkOf(t)].allocated
          /\ ChunkOf(t) # c
      BY <2>1, <1>2, LiveChunk
    <3>2. /\ ChunkOf(t) \in DOMAIN h /\ h[ChunkOf(t)].allocated
          /\ h[ChunkOf(t)].length = chunk[ChunkOf(t)].length
      BY <3>1, <1>5 DEF KeepsAllocated
    <3> QED BY <3>1, <3>2, <1>3, <1>7 DEF KeepsAllocated, Fits
  <2> QED BY <2>1, <1>0, <1>1, <1>3, <1>8, Rehome DEF IInv
<1>10. TypeOK'
  <2>0. mem \in [Words -> Slots \cup {"hdr", "junk"}] /\ WF(chunk)
    BY DEF IInv, TypeOK, Sound
  <2>1. ShrinkMem(mem, chunk, d, size) \in [Words -> Slots \cup {"hdr", "junk"}]
    BY <2>0, MemTyped
  <2>2. Copy8(ShrinkMem(mem, chunk, d, size), d + HdrSize, live[s].ptr, (len + 7) \div 8)
          \in [Words -> Slots \cup {"hdr", "junk"}]
    BY <2>0, <2>1, <1>2, <1>4, CopyTyped
  <2>3. mem' \in [Words -> Slots \cup {"hdr", "junk"}]
    BY <2>2, <1>1, MemTyped
  <2>4. live' \in [Slots -> [ptr : Int \cup {NULL}, size : Nat]]
    BY <1>0, <1>1, <1>3 DEF IInv, TypeOK
  <2> QED BY <2>3, <2>4, <1>1, <1>7, SoundTyped DEF IInv, TypeOK
<1> QED BY <1>7, <1>9, <1>10 DEF IInv

\* Every step preserves the invariant.
LEMMA NextIInv == IInv /\ [Next]_vars => IInv'
<1> SUFFICES ASSUME IInv, [Next]_vars PROVE IInv'
  OBVIOUS
<1>1. ASSUME UNCHANGED <<chunk, mem, live>>, fault' \in {"none", "oom", "null"}
      PROVE  IInv'
  BY <1>1 DEF IInv, TypeOK, SlotsOwnChunks, Owns
<1>2. CASE UNCHANGED vars
  BY <1>1, <1>2 DEF vars, IInv, TypeOK
<1>3. ASSUME NEW s \in Slots, NEW size \in Sizes, Malloc(s, size) PROVE IInv'
  BY <1>3, MallocIInv
<1>4. ASSUME NEW s \in Slots, NEW size \in Sizes, ReallocInPlace(s, size) PROVE IInv'
  BY <1>4, ReallocInPlaceIInv
<1>5. ASSUME NEW s \in Slots, NEW size \in Sizes, ReallocMoves(s, size) PROVE IInv'
  BY <1>5, ReallocMovesIInv
<1>6. ASSUME NEW s \in Slots, NEW size \in Sizes,
             \/ MallocFails(s, size) \/ ReallocTraps(s, size) \/ ReallocFails(s, size)
      PROVE  IInv'
  BY <1>1, <1>6 DEF MallocFails, ReallocTraps, ReallocFails, OutOfMemory
<1> QED BY <1>2, <1>3, <1>4, <1>5, <1>6 DEF Next

\* The inductive invariant of heap.c, for every heap, header and request size.
THEOREM HeapInvariant == Spec => []IInv
<1>1. Init => IInv
  BY InitIInv
<1>2. IInv /\ [Next]_vars => IInv'
  BY NextIInv
<1> QED BY <1>1, <1>2, PTL DEF Spec

\* The chunks of heap.c always partition the arena and the two directions of
\* the list agree, whatever malloc, free and realloc do.
THEOREM HeapTiledThm == Spec => []HeapTiled
<1>1. IInv => HeapTiled
  BY DEF IInv, Sound, WF, HeapTiled
<1> QED BY <1>1, HeapInvariant, PTL

\* Two free chunks of heap.c are never neighbours.
THEOREM CoalescedThm == Spec => []Coalesced
<1>1. IInv => Coalesced
  BY DEF IInv, Sound, Coalesced
<1> QED BY <1>1, HeapInvariant, PTL

\* A chunk of heap.c never belongs to two vectors, nor to one and the free list.
THEOREM SlotsOwnChunksThm == Spec => []SlotsOwnChunks
<1>1. IInv => SlotsOwnChunks
  BY DEF IInv
<1> QED BY <1>1, HeapInvariant, PTL

\* The types of the heap's state, and that __memcpy8 reads inside the arena.
THEOREM HeapTypeOK == Spec => []TypeOK
<1>1. IInv => TypeOK
  BY DEF IInv
<1> QED BY <1>1, HeapInvariant, PTL
-----------------------------------------------------------------------------
\* Blocks that lie in different chunks of a well-formed heap do not overlap, and
\* every block lies in the arena.
LEMMA ChunksApart ==
  ASSUME NEW h, WF(h), NEW c \in DOMAIN h, NEW d \in DOMAIN h, c # d,
         NEW x \in Nat, NEW y \in Nat, x <= h[c].length, y <= h[d].length
  PROVE  /\ HeapStart <= c + HdrSize /\ c + HdrSize + x <= HeapEnd
         /\ ~(c + HdrSize < d + HdrSize + y /\ d + HdrSize < c + HdrSize + x)
<1>1. /\ c \in Int /\ d \in Int /\ h[c].length \in Nat /\ h[d].length \in Nat
      /\ HeapStart <= c /\ c + HdrSize + h[c].length <= HeapEnd
      /\ c < d => c + HdrSize + h[c].length <= d
      /\ d < c => d + HdrSize + h[d].length <= c
  BY DEF WF, Typed, Header, Tiled, End
<1> QED BY <1>1, HeapAssumption DEF HeapEnd

\* A step after which slot s holds a block and every other slot is as it was is
\* a step of the allocator.
LEMMA PlaceStep ==
  ASSUME IInv, IInv', NEW s \in Slots, NEW p \in Int, NEW n \in Nat,
         live' = [live EXCEPT ![s] = [ptr |-> p, size |-> n]]
  PROVE  Abstract!Place(s)
<1> DEFINE b == [lo |-> p, hi |-> p + n]
           c == p - HdrSize
<1>0. /\ live'[s] = [ptr |-> p, size |-> n] /\ live'[s] # NoPtr /\ p # NULL
      /\ \A t \in Slots \ {s} : live'[t] = live[t]
  BY HeapAssumption DEF IInv, TypeOK, NoPtr
<1>1. Blocks'[s] = b /\ \A t \in Slots \ {s} : Blocks'[t] = Blocks[t]
  BY <1>0 DEF Blocks, Block
<1>2. Blocks' = [Blocks EXCEPT ![s] = Blocks'[s]]
  BY <1>1 DEF Blocks
<1>3. b \in [lo : Int, hi : Int] /\ b.lo = p /\ b.hi = p + n
  OBVIOUS
<1>4. /\ c \in DOMAIN chunk' /\ n <= chunk'[c].length /\ WF(chunk') /\ c \in Int
      /\ p = c + HdrSize
  BY <1>0, HeapAssumption DEF IInv, Sound, SlotsOwnChunks, Owns
<1>5. HeapStart <= p /\ p <= p + n /\ p + n <= HeapEnd
  <2>1. chunk'[c].length \in Nat /\ HeapStart <= c /\ End(chunk', c) <= HeapEnd
    BY <1>4 DEF WF, Typed, Header, Tiled
  <2> QED BY <2>1, <1>4, HeapAssumption DEF End, HeapEnd
<1>6. ASSUME NEW t \in Slots \ {s}, Blocks[t] # NULL
      PROVE  ~(b.lo < Blocks[t].hi /\ Blocks[t].lo < b.hi)
  <2> DEFINE q == live[t].ptr
             m == live[t].size
             d == q - HdrSize
  <2>1. live[t] # NoPtr /\ Blocks[t] = [lo |-> q, hi |-> q + m] /\ live'[t] = live[t]
    BY <1>0, <1>6 DEF Blocks, Block
  <2>2. /\ q \in Int /\ d \in DOMAIN chunk' /\ m <= chunk'[d].length /\ m \in Nat
        /\ q # p
    BY <2>1, <1>0 DEF IInv, SlotsOwnChunks, Owns, TypeOK
  <2>3. d # c /\ q = d + HdrSize
    BY <2>2, HeapAssumption
  <2>4. Blocks[t].lo = q /\ Blocks[t].hi = q + m
    BY <2>1
  <2> HIDE DEF b, c, d, q, m
  <2>5. ~(c + HdrSize < d + HdrSize + m /\ d + HdrSize < c + HdrSize + n)
    BY <2>2, <2>3, <1>4, ChunksApart
  <2> QED BY <2>3, <2>4, <2>5, <1>3, <1>4
<1> HIDE DEF b
<1> QED BY <1>1, <1>2, <1>3, <1>5, <1>6
        DEF Abstract!Place, Abstract!Placed, Abstract!Overlap, Abstract!Block

\* heap.c implements the allocator's specification: a vector's block always lies
\* in the arena and shares no byte with another vector's.
THEOREM HeapImplementsAllocator == Spec => AllocatorSpec
<1>1. Init => Abstract!Init
  BY DEF Init, Abstract!Init, Blocks, Block
<1>2. IInv /\ IInv' /\ [Next]_vars => [Abstract!Next]_Blocks
  <2> SUFFICES ASSUME IInv, IInv', [Next]_vars PROVE [Abstract!Next]_Blocks
    OBVIOUS
  <2>1. ASSUME live' = live PROVE Blocks' = Blocks
    BY <2>1 DEF Blocks, Block
  <2>2. CASE UNCHANGED vars
    BY <2>1, <2>2 DEF vars
  <2>3. ASSUME NEW s \in Slots, NEW size \in Sizes,
               Malloc(s, size) \/ ReallocInPlace(s, size) \/ ReallocMoves(s, size)
        PROVE  Abstract!Place(s)
    <3>1. \E p \in Int : live' = [live EXCEPT ![s] = [ptr |-> p, size |-> size]]
      <4>1. ASSUME NEW a \in DOMAIN chunk PROVE a + HdrSize \in Int
        BY HeapAssumption DEF IInv, TypeOK
      <4>2. CASE Malloc(s, size)
        BY <4>1, <4>2 DEF Malloc
      <4>3. CASE ReallocInPlace(s, size)
        BY <4>3 DEF ReallocInPlace, IInv, SlotsOwnChunks, Owns
      <4>4. CASE ReallocMoves(s, size)
        BY <4>1, <4>4 DEF ReallocMoves
      <4> QED BY <2>3, <4>2, <4>3, <4>4
    <3>2. size \in Nat
      BY HeapAssumption
    <3> QED BY <3>1, <3>2, PlaceStep
  <2>4. ASSUME NEW s \in Slots, NEW size \in Sizes,
               \/ MallocFails(s, size) \/ ReallocTraps(s, size) \/ ReallocFails(s, size)
        PROVE  Blocks' = Blocks
    BY <2>1, <2>4 DEF MallocFails, ReallocTraps, ReallocFails, OutOfMemory
  <2> QED BY <2>2, <2>3, <2>4 DEF Next, Abstract!Next
<1> QED BY <1>1, <1>2, HeapInvariant, PTL DEF Spec, AllocatorSpec, Abstract!Spec
-----------------------------------------------------------------------------
(* The data of the vectors.                                                *)

\* The other vectors than slot s lie outside of lo .. hi - 1.
OthersOutside(s, lo, hi) ==
  \A t \in Slots \ {s} : live[t] # NoPtr
    => live[t].ptr + live[t].size <= lo \/ hi <= live[t].ptr

\* A step writes only there, and leaves slot s a block that is all its own.
WritesInside(lo, hi) == \A w \in Words : w < lo \/ hi <= w => mem'[w] = mem[w]

FillsBlock(s, p, size) == \A w \in WordsOf(p, p + size) : mem'[w] = s

\* A step that writes between lo and hi, where no other vector lies, and leaves
\* slot s a block that is all its own, keeps every vector's bytes.
LEMMA DataStep ==
  ASSUME IInv, DataIntact, NEW s \in Slots, NEW lo \in Int, NEW hi \in Int, NEW p, NEW size,
         live' = [live EXCEPT ![s] = [ptr |-> p, size |-> size]],
         OthersOutside(s, lo, hi), WritesInside(lo, hi), FillsBlock(s, p, size)
  PROVE  DataIntact'
<1> SUFFICES ASSUME NEW t \in Slots, live'[t] # NoPtr,
                    NEW w \in WordsOf(live'[t].ptr, live'[t].ptr + live'[t].size)
             PROVE  mem'[w] = t
  BY DEF DataIntact, WordsOf, Words, HeapEnd
<1>1. /\ live'[s] = [ptr |-> p, size |-> size]
      /\ \A u \in Slots \ {s} : live'[u] = live[u]
  BY DEF IInv, TypeOK
<1>2. CASE t = s
  BY <1>1, <1>2 DEF FillsBlock
<1>3. CASE t # s
  <2>1. live'[t] = live[t] /\ live[t] # NoPtr
    BY <1>1, <1>3
  <2>2. /\ w \in Words /\ w \in Int /\ live[t].ptr <= w /\ w < live[t].ptr + live[t].size
        /\ w \in WordsOf(live[t].ptr, live[t].ptr + live[t].size)
    BY <2>1, HeapAssumption DEF WordsOf, Words, HeapEnd
  <2>3. mem[w] = t
    BY <2>1, <2>2 DEF DataIntact
  <2>4. live[t].ptr \in Int /\ live[t].size \in Nat
    BY <2>1, LiveChunk, HeapAssumption
  <2>5. w < lo \/ hi <= w
    BY <2>1, <2>2, <2>4, <1>3 DEF OthersOutside
  <2> QED BY <2>2, <2>3, <2>5 DEF WritesInside
<1> QED BY <1>2, <1>3

\* Chunks lie one after the other.
LEMMA ChunkOrder ==
  ASSUME NEW h, WF(h), NEW c \in DOMAIN h, NEW d \in DOMAIN h, c # d
  PROVE  /\ c \in Int /\ d \in Int /\ c % 8 = 0 /\ End(h, c) \in Int /\ End(h, d) \in Int
         /\ h[c].length \in Nat /\ h[d].length \in Nat /\ h[c].length % 8 = 0
         /\ HeapStart <= c /\ End(h, c) <= HeapEnd
         /\ End(h, c) <= d \/ End(h, d) <= c
<1>1. /\ c \in Int /\ d \in Int /\ c % 8 = 0
      /\ h[c].length \in Nat /\ h[d].length \in Nat /\ h[c].length % 8 = 0
      /\ HeapStart <= c /\ End(h, c) <= HeapEnd
      /\ c < d => End(h, c) <= d
      /\ d < c => End(h, d) <= c
  BY DEF WF, Typed, Header, Tiled
<1>2. End(h, c) \in Int /\ End(h, d) \in Int
  BY <1>1, HeapAssumption DEF End
<1>3. c < d \/ d < c
  BY <1>1
<1> QED BY <1>1, <1>2, <1>3

\* A vector lies in its own chunk, outside of another one.
LEMMA LiveOutside ==
  ASSUME IInv, NEW t \in Slots, live[t] # NoPtr, NEW c \in DOMAIN chunk, ChunkOf(t) # c
  PROVE  live[t].ptr + live[t].size <= c \/ End(chunk, c) <= live[t].ptr
<1> DEFINE d == ChunkOf(t)
<1>1. /\ d \in DOMAIN chunk /\ live[t].ptr = d + HdrSize /\ d \in Int
      /\ live[t].size \in Nat /\ live[t].size <= chunk[d].length
  BY LiveChunk
<1> HIDE DEF d
<1>2. /\ c \in Int /\ End(chunk, c) \in Int /\ chunk[d].length \in Nat
      /\ End(chunk, c) <= d \/ End(chunk, d) <= c
  BY <1>1, ChunkOrder DEF IInv, Sound, d
<1> QED BY <1>1, <1>2, HeapAssumption DEF End

\* The header that shrink_chunk writes lies in the chunk, behind the block.
LEMMA ShrinkWrites ==
  ASSUME NEW h, NEW c \in Int, h[c].length \in Nat, h[c].length % 8 = 0, NEW size \in Nat,
         size <= h[c].length, NEW m, NEW w \in Words,
         w < c + HdrSize + size \/ End(h, c) <= w
  PROVE  ShrinkMem(m, h, c, size)[w] = m[w]
<1> DEFINE R == RoundUp8(size)
           L == h[c].length
           new == SplitAt(c, size)
<1>1. R \in Nat /\ size <= R /\ R <= L
  BY RoundUp8Lemma
<1>2. new = c + HdrSize + R /\ HdrSize \in Nat /\ End(h, c) = c + HdrSize + L
  BY HeapAssumption DEF SplitAt, End
<1>3. Splits(h, c, size) => R + 8 + HdrSize <= L
  <2> HIDE DEF R
  <2>1. USub(L, R) = L - R
    BY <1>1 DEF USub
  <2> HIDE DEF L
  <2>2. Splits(h, c, size) => L - R >= 8 + HdrSize
    BY <2>1 DEF Splits, L, R
  <2> QED BY <2>2, <1>1, <1>2 DEF L
<1>4. w \in Int
  BY HeapAssumption DEF Words, HeapEnd
<1>5. Splits(h, c, size) => w \notin WordsOf(new, new + HdrSize)
  <2> SUFFICES ASSUME Splits(h, c, size), new <= w, w < new + HdrSize
               PROVE  FALSE
    BY DEF WordsOf
  <2> HIDE DEF R, L, new
  <2>1. R + 8 + HdrSize <= L
    BY <1>3
  <2> QED BY <2>1, <1>1, <1>2, <1>4 DEF L
<1> QED BY <1>5 DEF ShrinkMem

\* What the program's stores change.
LEMMA FillWrites ==
  ASSUME NEW m, NEW s, NEW p \in Int, NEW from \in Nat, NEW size \in Nat, NEW w \in Words
  PROVE  /\ w < p \/ p + size <= w => Fill(m, s, p, from, size)[w] = m[w]
         /\ p + from <= w /\ w < p + size => Fill(m, s, p, from, size)[w] = s
         /\ p <= w /\ w < p + from => Fill(m, s, p, from, size)[w] = m[w]
<1>1. w \in Int
  BY HeapAssumption DEF Words, HeapEnd
<1> QED BY <1>1 DEF Fill, WordsOf

\* malloc gives a vector a block that no other one has a byte of.
LEMMA MallocData ==
  ASSUME IInv, DataIntact, NEW s \in Slots, NEW size \in Sizes, Malloc(s, size)
  PROVE  DataIntact'
<1>0. size \in Nat
  BY HeapAssumption
<1>1. PICK c \in DOMAIN chunk :
        /\ FirstFit(chunk, c, size)
        /\ mem' = Fill(ShrinkMem(mem, chunk, c, size), s, c + HdrSize, 0, size)
        /\ live' = [live EXCEPT ![s] = [ptr |-> c + HdrSize, size |-> size]]
  BY DEF Malloc
<1>2. /\ ~chunk[c].allocated /\ size <= chunk[c].length /\ c \in Int
      /\ chunk[c].length \in Nat /\ chunk[c].length % 8 = 0
  BY <1>1 DEF FirstFit, Fits, IInv, Sound, WF, Typed, Header
<1>3. c + HdrSize \in Int /\ End(chunk, c) = c + HdrSize + chunk[c].length /\ HdrSize \in Nat
      /\ End(chunk, c) \in Int
  BY <1>2, HeapAssumption DEF End
<1>4. \A t \in Slots \ {s} : live[t] # NoPtr
        => live[t].ptr + live[t].size <= c \/ End(chunk, c) <= live[t].ptr
  BY <1>2, LiveChunk, LiveOutside
<1>5. ASSUME NEW w \in Words, w < c \/ End(chunk, c) <= w
      PROVE  mem'[w] = mem[w]
  <2>1. w \in Int
    BY HeapAssumption DEF Words, HeapEnd
  <2>2. w < c + HdrSize + size \/ End(chunk, c) <= w
    BY <2>1, <1>0, <1>2, <1>3, <1>5
  <2>3. w < c + HdrSize \/ c + HdrSize + size <= w
    BY <2>1, <1>0, <1>2, <1>3, <1>5
  <2>4. ShrinkMem(mem, chunk, c, size)[w] = mem[w]
    BY <2>2, <1>0, <1>2, ShrinkWrites
  <2>5. mem'[w] = ShrinkMem(mem, chunk, c, size)[w]
    BY <2>3, <1>0, <1>1, <1>3, FillWrites
  <2> QED BY <2>4, <2>5
<1>6. ASSUME NEW w \in WordsOf(c + HdrSize, c + HdrSize + size)
      PROVE  mem'[w] = s
  <2>1. w \in Words /\ c + HdrSize + 0 <= w /\ w < c + HdrSize + size
    BY <1>3 DEF WordsOf
  <2> QED BY <2>1, <1>0, <1>1, <1>3, FillWrites
<1>7. /\ OthersOutside(s, c, End(chunk, c)) /\ WritesInside(c, End(chunk, c))
      /\ FillsBlock(s, c + HdrSize, size)
  BY <1>4, <1>5, <1>6 DEF OthersOutside, WritesInside, FillsBlock
<1> QED BY <1>1, <1>2, <1>3, <1>7, DataStep

\* realloc in place keeps the bytes that are there.
LEMMA ReallocInPlaceData ==
  ASSUME IInv, DataIntact, NEW s \in Slots, NEW size \in Sizes, ReallocInPlace(s, size)
  PROVE  DataIntact'
<1> DEFINE c == ChunkOf(s)
           n == chunk[c].next
           h == MergeNext(chunk, c)
           p == live[s].ptr
           old == live[s].size
<1>0. size \in Nat /\ HdrSize \in Nat
  BY HeapAssumption
<1>1. /\ live[s] # NoPtr /\ GrowsInPlace(chunk, c, size)
      /\ mem' = Fill(ShrinkMem(mem, h, c, size), s, p, old, size)
      /\ live' = [live EXCEPT ![s] = [ptr |-> p, size |-> size]]
  BY DEF ReallocInPlace, ChunkOf
<1>2. /\ c \in DOMAIN chunk /\ chunk[c].allocated /\ c \in Int /\ p = c + HdrSize
      /\ old \in Nat /\ old <= chunk[c].length
      /\ \A t \in Slots \ {s} : live[t] # NoPtr => ChunkOf(t) # c
  BY <1>1, LiveChunk
<1> HIDE DEF c
<1>3. /\ n # NULL /\ ~chunk[n].allocated /\ size <= chunk[c].length + chunk[n].length + HdrSize
  BY <1>1 DEF GrowsInPlace, IsFree
<1>4. /\ n \in DOMAIN chunk /\ n \in Int /\ n = End(chunk, c)
  BY <1>2, <1>3, NextIn DEF IInv, Sound, WF, Tiled, Linked
<1>5. /\ h[c].length = chunk[c].length + chunk[n].length + HdrSize
      /\ WF(h) /\ c \in DOMAIN h
  <2>1. Merged(h, chunk, c, n)
    BY <1>2, <1>3, MergeWF DEF IInv, Sound
  <2>2. c # n
    BY <1>2, <1>3
  <2> QED BY <2>1, <2>2, <1>2 DEF Merged
<1>6. /\ chunk[c].length \in Nat /\ chunk[n].length \in Nat
      /\ h[c].length \in Nat /\ h[c].length % 8 = 0
  BY <1>2, <1>4, <1>5 DEF IInv, Sound, WF, Typed, Header
<1> HIDE DEF h, n
<1>7. /\ End(h, c) = End(chunk, n) /\ End(h, c) \in Int
      /\ End(h, c) = c + HdrSize + h[c].length /\ n = c + HdrSize + chunk[c].length
  BY <1>0, <1>2, <1>4, <1>5, <1>6 DEF End
<1>8. ASSUME NEW t \in Slots \ {s}, live[t] # NoPtr
      PROVE  live[t].ptr + live[t].size <= c \/ End(h, c) <= live[t].ptr
  <2>1. ChunkOf(t) # c /\ ChunkOf(t) # n /\ live[t].ptr \in Int /\ live[t].size \in Nat
    BY <1>2, <1>3, <1>8, LiveChunk, HeapAssumption
  <2>2. live[t].ptr + live[t].size <= c \/ n <= live[t].ptr
    BY <2>1, <1>2, <1>4, <1>8, LiveOutside
  <2>3. live[t].ptr + live[t].size <= n \/ End(chunk, n) <= live[t].ptr
    BY <2>1, <1>4, <1>8, LiveOutside
  <2>4. CASE n <= live[t].ptr /\ live[t].ptr + live[t].size <= n
    <3>1. ChunkOf(t) \in DOMAIN chunk /\ live[t].ptr = ChunkOf(t) + HdrSize /\ ChunkOf(t) \in Int
      BY <1>8, LiveChunk
    <3>2. /\ End(chunk, n) <= ChunkOf(t) \/ End(chunk, ChunkOf(t)) <= n
          /\ chunk[ChunkOf(t)].length \in Nat
      BY <3>1, <2>1, <1>4, ChunkOrder DEF IInv, Sound
    <3>3. CASE End(chunk, ChunkOf(t)) <= n
      <4>1. End(chunk, ChunkOf(t)) = live[t].ptr + chunk[ChunkOf(t)].length
        BY <3>1, HeapAssumption DEF End
      <4>2. ChunkOf(t) < n
        BY <4>1, <3>1, <3>2, <3>3, <2>1, <2>4, <1>4, HeapAssumption
      <4>3. End(chunk, ChunkOf(t)) <= c \/ End(chunk, c) <= ChunkOf(t)
        BY <3>1, <2>1, <1>2, ChunkOrder DEF IInv, Sound
      <4> QED BY <4>1, <4>2, <4>3, <3>1, <3>2, <2>1, <2>4, <1>2, <1>4, <1>6, <1>7, HeapAssumption
    <3>4. CASE End(chunk, n) <= ChunkOf(t)
      BY <3>1, <3>4, <1>0, <1>7
    <3> QED BY <3>2, <3>3, <3>4
  <2> QED BY <2>1, <2>2, <2>3, <2>4, <1>7
<1>9. ASSUME NEW w \in Words, w < c \/ End(h, c) <= w
      PROVE  mem'[w] = mem[w]
  <2>1. w \in Int
    BY HeapAssumption DEF Words, HeapEnd
  <2>2. w < c + HdrSize + size \/ End(h, c) <= w
    BY <2>1, <1>0, <1>2, <1>9
  <2>3. w < p \/ p + size <= w
    BY <2>1, <1>0, <1>2, <1>3, <1>5, <1>6, <1>7, <1>9
  <2>4. ShrinkMem(mem, h, c, size)[w] = mem[w]
    BY <2>2, <1>0, <1>2, <1>3, <1>5, <1>6, ShrinkWrites
  <2>5. mem'[w] = ShrinkMem(mem, h, c, size)[w]
    <3>1. p \in Int
      BY <1>0, <1>2
    <3> QED BY <3>1, <2>3, <1>0, <1>1, <1>2, FillWrites
  <2> QED BY <2>4, <2>5
<1>10. ASSUME NEW w \in WordsOf(p, p + size)
       PROVE  mem'[w] = s
  <2>1. w \in Words /\ p <= w /\ w < p + size /\ w \in Int /\ p \in Int
    BY <1>0, <1>2, HeapAssumption DEF WordsOf, Words, HeapEnd
  <2>2. CASE p + old <= w
    BY <2>1, <2>2, <1>0, <1>1, <1>2, FillWrites
  <2>3. CASE w < p + old
    <3>1. mem'[w] = ShrinkMem(mem, h, c, size)[w]
      BY <2>1, <2>3, <1>0, <1>1, <1>2, FillWrites
    <3>2. ShrinkMem(mem, h, c, size)[w] = mem[w]
      BY <2>1, <1>0, <1>2, <1>3, <1>5, <1>6, ShrinkWrites
    <3>3. w \in WordsOf(p, p + old)
      BY <2>1, <2>3 DEF WordsOf
    <3>4. mem[w] = s
      BY <3>3, <1>1 DEF DataIntact
    <3> QED BY <3>1, <3>2, <3>4
  <2> QED BY <2>1, <2>2, <2>3, <1>2
<1>11. OthersOutside(s, c, End(h, c)) /\ WritesInside(c, End(h, c)) /\ FillsBlock(s, p, size)
  BY <1>8, <1>9, <1>10 DEF OthersOutside, WritesInside, FillsBlock
<1> QED BY <1>1, <1>2, <1>7, <1>11, DataStep

\* realloc that moves a block copies what fits of it.
LEMMA ReallocMovesData ==
  ASSUME IInv, DataIntact, NEW s \in Slots, NEW size \in Sizes, ReallocMoves(s, size)
  PROVE  DataIntact'
<1> DEFINE c == ChunkOf(s)
           p == live[s].ptr
           old == live[s].size
           len == KeptLen(chunk, c, size)
           k == (len + 7) \div 8
<1>0. size \in Nat /\ HdrSize \in Nat
  BY HeapAssumption
<1>1. PICK d \in DOMAIN chunk :
        /\ live[s] # NoPtr /\ FirstFit(chunk, d, size)
        /\ mem' = Fill(Copy8(ShrinkMem(mem, chunk, d, size), d + HdrSize, p, k),
                       s, d + HdrSize, old, size)
        /\ live' = [live EXCEPT ![s] = [ptr |-> d + HdrSize, size |-> size]]
  BY DEF ReallocMoves, ChunkOf
<1> DEFINE q == d + HdrSize
           m == ShrinkMem(mem, chunk, d, size)
           cp == Copy8(m, q, p, k)
<1>2. /\ c \in DOMAIN chunk /\ chunk[c].allocated /\ c \in Int /\ p = c + HdrSize
      /\ old \in Nat /\ old <= chunk[c].length
      /\ \A t \in Slots \ {s} : live[t] # NoPtr => ChunkOf(t) # c
  BY <1>1, LiveChunk
<1> HIDE DEF c
<1>3. /\ ~chunk[d].allocated /\ size <= chunk[d].length /\ d # c
  BY <1>1, <1>2 DEF FirstFit, Fits
<1>4. /\ d \in Int /\ c % 8 = 0 /\ d % 8 = 0 /\ HeapStart <= c /\ End(chunk, c) <= HeapEnd
      /\ chunk[c].length \in Nat /\ chunk[d].length \in Nat
      /\ chunk[c].length % 8 = 0 /\ chunk[d].length % 8 = 0
      /\ End(chunk, c) <= d \/ End(chunk, d) <= c
  BY <1>2, <1>3, ChunkOrder DEF IInv, Sound
<1>5. /\ End(chunk, d) = q + chunk[d].length /\ End(chunk, c) = p + chunk[c].length
      /\ q \in Int /\ p \in Int /\ End(chunk, d) \in Int
  BY <1>0, <1>2, <1>4 DEF End
<1>6. /\ len \in Nat /\ len <= size /\ len <= chunk[c].length
      /\ size <= len \/ chunk[c].length <= len
  BY <1>0, <1>4 DEF KeptLen
<1>7. /\ k \in Nat /\ len <= 8 * k /\ 8 * k <= chunk[c].length /\ 8 * k <= chunk[d].length
  <2> HIDE DEF len
  <2>1. RoundUp8(len) = 8 * k /\ k \in Nat
    BY <1>6 DEF RoundUp8
  <2>2. len <= chunk[d].length
    BY <1>0, <1>3, <1>4, <1>6
  <2> HIDE DEF k
  <2> QED BY <2>1, <2>2, <1>4, <1>6, RoundUp8Lemma
<1> HIDE DEF len, k
<1>8. \A t \in Slots \ {s} : live[t] # NoPtr
        => live[t].ptr + live[t].size <= d \/ End(chunk, d) <= live[t].ptr
  BY <1>1, <1>3, LiveChunk, LiveOutside
<1>9. \A w \in Words : cp[w] = IF w \in WordsOf(q, q + 8 * k) THEN m[w - q + p] ELSE m[w]
  BY DEF Copy8
<1>10. mem' = Fill(cp, s, q, old, size)
  BY <1>1
<1>11. \A w \in Words : w < d + HdrSize + size \/ End(chunk, d) <= w => m[w] = mem[w]
  BY <1>0, <1>3, <1>4, ShrinkWrites
<1> HIDE DEF cp, m
<1>12. ASSUME NEW w \in Words, w < d \/ End(chunk, d) <= w
       PROVE  mem'[w] = mem[w]
  <2>1. w \in Int
    BY HeapAssumption DEF Words, HeapEnd
  <2>2. w < q \/ q + size <= w
    BY <2>1, <1>0, <1>3, <1>4, <1>5, <1>12
  <2>3. mem'[w] = cp[w]
    BY <2>2, <1>0, <1>2, <1>5, <1>10, FillWrites
  <2>4. w \notin WordsOf(q, q + 8 * k)
    <3>1. w < q \/ q + 8 * k <= w
      BY <2>1, <1>0, <1>4, <1>5, <1>7, <1>12
    <3> QED BY <3>1, <2>1, <1>5, <1>7 DEF WordsOf
  <2>5. m[w] = mem[w]
    BY <2>1, <1>0, <1>4, <1>11, <1>12
  <2> QED BY <2>3, <2>4, <2>5, <1>9
<1>13. ASSUME NEW w \in WordsOf(q, q + size)
       PROVE  mem'[w] = s
  <2>1. w \in Words /\ q <= w /\ w < q + size /\ w \in Int /\ w % 8 = 0
    BY <1>5, HeapAssumption DEF WordsOf, Words, HeapEnd
  <2>2. CASE q + old <= w
    BY <2>1, <2>2, <1>0, <1>2, <1>5, <1>10, FillWrites
  <2>3. CASE w < q + old
    <3> DEFINE v == w - q + p
    <3>1. mem'[w] = cp[w]
      BY <2>1, <2>3, <1>0, <1>2, <1>5, <1>10, FillWrites
    <3>2. w < q + len
      BY <2>1, <2>3, <1>0, <1>2, <1>4, <1>5, <1>6
    <3>3. w \in WordsOf(q, q + 8 * k)
      BY <3>2, <2>1, <1>5, <1>6, <1>7 DEF WordsOf
    <3>4. cp[w] = m[v]
      BY <3>3, <2>1, <1>9
    <3>5. v \in Int /\ p <= v /\ v < p + old
      BY <2>1, <2>3, <1>2, <1>5
    <3>6. v % 8 = 0
      <4>1. v = (w - d) + c
        BY <2>1, <1>0, <1>2, <1>4
      <4>2. (w - d) % 8 = 0 /\ w - d \in Int
        BY <2>1, <1>4
      <4> QED BY <4>1, <4>2, <1>2, <1>4, Mod8
    <3> HIDE DEF v
    <3>7. v \in Words /\ v \in WordsOf(p, p + old)
      <4>1. HeapStart <= v /\ v < HeapEnd
        BY <3>5, <1>0, <1>2, <1>4, <1>5, HeapAssumption DEF HeapEnd
      <4> QED BY <4>1, <3>5, <3>6, HeapAssumption DEF Words, WordsOf, HeapEnd
    <3>8. mem[v] = s
      BY <3>7, <1>1 DEF DataIntact
    <3>9. v < d + HdrSize + size \/ End(chunk, d) <= v
      BY <3>5, <1>0, <1>2, <1>3, <1>4, <1>5
    <3>10. m[v] = mem[v]
      BY <3>7, <3>9, <1>11
    <3> QED BY <3>1, <3>4, <3>8, <3>10
  <2> QED BY <2>1, <2>2, <2>3, <1>2, <1>5
<1>14. /\ OthersOutside(s, d, End(chunk, d)) /\ WritesInside(d, End(chunk, d))
       /\ FillsBlock(s, q, size)
  BY <1>8, <1>12, <1>13 DEF OthersOutside, WritesInside, FillsBlock
<1> QED BY <1>1, <1>4, <1>5, <1>14, DataStep

\* No vector of the program loses a byte, whatever the heap does: no header and
\* no other vector is written over it, and __realloc copies all that is kept.
THEOREM HeapDataIntact == Spec => []DataIntact
<1>1. Init => DataIntact
  BY DEF Init, DataIntact
<1>2. IInv /\ DataIntact /\ [Next]_vars => DataIntact'
  <2> SUFFICES ASSUME IInv, DataIntact, [Next]_vars PROVE DataIntact'
    OBVIOUS
  <2>1. ASSUME UNCHANGED <<mem, live>> PROVE DataIntact'
    BY <2>1 DEF DataIntact, WordsOf, Words, HeapEnd
  <2>2. CASE UNCHANGED vars
    BY <2>1, <2>2 DEF vars
  <2>3. ASSUME NEW s \in Slots, NEW size \in Sizes, Malloc(s, size) PROVE DataIntact'
    BY <2>3, MallocData
  <2>4. ASSUME NEW s \in Slots, NEW size \in Sizes, ReallocInPlace(s, size) PROVE DataIntact'
    BY <2>4, ReallocInPlaceData
  <2>5. ASSUME NEW s \in Slots, NEW size \in Sizes, ReallocMoves(s, size) PROVE DataIntact'
    BY <2>5, ReallocMovesData
  <2>6. ASSUME NEW s \in Slots, NEW size \in Sizes,
               \/ MallocFails(s, size) \/ ReallocTraps(s, size) \/ ReallocFails(s, size)
        PROVE  DataIntact'
    BY <2>1, <2>6 DEF MallocFails, ReallocTraps, ReallocFails, OutOfMemory
  <2> QED BY <2>2, <2>3, <2>4, <2>5, <2>6 DEF Next
<1> QED BY <1>1, <1>2, HeapInvariant, PTL DEF Spec
=============================================================================
