------------------------ MODULE SolanaStorageProofs -------------------------
(***************************************************************************)
(* Solana contract storage, for every account, layout and lengths: the     *)
(* heap in the account stays as validate_heap asserts, every chunk in use  *)
(* has one owner, and the variables read back what was stored.             *)
(*                                                                         *)
(* A key stands for a place that can own a chunk: a variable is its slot,  *)
(* element i of the string[] is -i, so that an element keeps its key when  *)
(* the array moves.                                                        *)
(***************************************************************************)
EXTENDS SolanaStorage, AccountDataProofs

Base == Strings \union {IntsSlot, StrsSlot}

Keys == Base \union {k \in Int : k < 0}

\* Where the offset of key k is stored, and the offset.
SlotOf(m, k) == IF k < 0 THEN m[StrsSlot] + (-k - 1) * 4 ELSE k

Ptr(m, k) == Get(m, SlotOf(m, k))

\* The word at distance d in what key k owns.
MarkOf(k, d) ==
  IF k < 0 THEN ElemMark(-k - 1) ELSE IF k = IntsSlot THEN IntMark(d \div 8) ELSE StrMark(k)

Contents(m, k, off, len) ==
  k # StrsSlot => \A a \in Words : off <= a /\ a < off + len => m[a] = MarkOf(k, a - off)

\* Key k owns a chunk of L of the given length, or nothing when that is 0.
Holds(m, L, k, len) ==
  IF len = 0 THEN Ptr(m, k) = 0
  ELSE /\ Ptr(m, k) - 16 \in L /\ Length(m, Ptr(m, k) - 16) = len
       /\ Contents(m, k, Ptr(m, k), len)

\* The keys K own the chunks L, one each; f gives the lengths.
Own(m, L, K, f) ==
  /\ \A k \in K : k \in Keys /\ f[k] \in Nat /\ Holds(m, L, k, f[k])
  /\ \A k \in K : k < 0 => StrsSlot \in K /\ 4 * (-k) <= f[StrsSlot]
  /\ \A j, k \in K : Ptr(m, j) = Ptr(m, k) /\ Ptr(m, j) # 0 => j = k
  /\ \A c \in L : \E k \in K : Ptr(m, k) = c + 16

\* The chunk that key x owns
Old(m, K, f, x) == IF x \in K /\ f[x] # 0 THEN {Ptr(m, x) - 16} ELSE {}

\* The chunks in use are now those in M and a new one for key x.
Gains(m2, L2, M, x, len) ==
  IF len = 0 THEN Ptr(m2, x) = 0 /\ L2 = M
  ELSE \E n \in Nat : /\ n \notin M /\ L2 = M \union {n} /\ Ptr(m2, x) = n + 16
                      /\ Length(m2, n) = len /\ Contents(m2, x, n + 16, len)

\* Only key x changes, from lengths f to g.
Changes(K, f, g, x) ==
  g[x] \in Nat /\ \A k \in K \ {x} : g[k] = f[k]
-----------------------------------------------------------------------------
\* The slots of the variables lie between the account header and the heap.
LEMMA KeyFacts ==
  /\ IntsSlot \in Base /\ StrsSlot \in Base /\ Strings \subseteq Base /\ Base \subseteq Keys
  /\ IntsSlot # StrsSlot /\ IntsSlot \notin Strings /\ StrsSlot \notin Strings
  /\ \A k \in Base : k \in Words /\ k \in Nat /\ 16 <= k /\ k < HeapOffset
  /\ \A k \in Keys : k \in Int /\ (k < 0 \/ k \in Base)
<1>1. \A k \in Base : k \in Words /\ k \in Nat /\ 16 <= k /\ k < HeapOffset
  BY SolanaStorageAssumption, Sizes DEF Base
<1> QED BY <1>1, SolanaStorageAssumption DEF Base, Keys

\* The offset of a key is a natural number.
LEMMA PtrNat ==
  ASSUME NEW m \in Mem, NEW k
  PROVE  Ptr(m, k) \in Nat
BY DEF Ptr, Get, Mem

\* A key that owns something
LEMMA OwnKey ==
  ASSUME NEW m \in Mem, NEW L, NEW K, NEW f, Own(m, L, K, f), NEW k \in K
  PROVE  /\ k \in Keys /\ f[k] \in Nat /\ Ptr(m, k) \in Nat
         /\ f[k] = 0 => Ptr(m, k) = 0
         /\ f[k] # 0 => /\ Ptr(m, k) - 16 \in L /\ Length(m, Ptr(m, k) - 16) = f[k]
                        /\ Contents(m, k, Ptr(m, k), f[k])
BY PtrNat DEF Own, Holds

\* What is owned by the other keys is not what x owns.
LEMMA OwnOther ==
  ASSUME NEW m \in Mem, NEW L, NEW K, NEW f, Own(m, L, K, f), NEW x, NEW k \in K \ {x}, f[k] # 0,
         \A c \in L : c \in Nat
  PROVE  Ptr(m, k) - 16 \in L \ Old(m, K, f, x)
<1>1. Ptr(m, k) \in Nat /\ Ptr(m, k) - 16 \in L /\ Ptr(m, k) - 16 \in Nat
  BY OwnKey
<1>2. ASSUME x \in K, f[x] # 0 PROVE Ptr(m, k) - 16 # Ptr(m, x) - 16
  <2>1. Ptr(m, x) \in Nat
    BY PtrNat
  <2>2. Ptr(m, k) # 0
    BY <1>1
  <2>3. Ptr(m, k) # Ptr(m, x)
    BY <2>2, <1>2 DEF Own
  <2> QED BY <2>1, <2>3, <1>1
<1> QED BY <1>1, <1>2 DEF Old

\* One key is given something else.
LEMMA OwnStep ==
  ASSUME NEW m \in Mem, NEW m2 \in Mem, NEW L, NEW L2, NEW K, NEW f, NEW g, NEW x \in Keys,
         \A c \in L : c \in Nat,
         Own(m, L, K, f), Changes(K, f, g, x),
         x < 0 => StrsSlot \in K /\ 4 * (-x) <= f[StrsSlot],
         x = StrsSlot => \A k \in K : k < 0 => 4 * (-k) <= g[StrsSlot],
         \A k \in K \ {x} : Ptr(m2, k) = Ptr(m, k),
         \A k \in K \ {x} : f[k] # 0 => /\ Length(m2, Ptr(m, k) - 16) = f[k]
                                        /\ Contents(m2, k, Ptr(m, k), f[k]),
         Gains(m2, L2, L \ Old(m, K, f, x), x, g[x])
  PROVE  Own(m2, L2, K \union {x}, g)
<1> DEFINE M == L \ Old(m, K, f, x)
           K2 == K \union {x}
<1>1. M \subseteq L2 /\ \A c \in M : c \in Nat
  BY DEF Gains
<1>2. ASSUME NEW k \in K \ {x}
      PROVE  k \in Keys /\ g[k] \in Nat /\ Holds(m2, M, k, g[k])
  <2>1. k \in Keys /\ f[k] \in Nat /\ g[k] = f[k] /\ Ptr(m2, k) = Ptr(m, k)
    BY OwnKey DEF Changes
  <2>2. CASE f[k] = 0
    BY <2>1, <2>2, OwnKey DEF Holds
  <2>3. CASE f[k] # 0
    <3>1. Ptr(m, k) - 16 \in M
      BY <2>3, OwnOther
    <3> QED BY <2>1, <2>3, <3>1 DEF Holds
  <2> QED BY <2>1, <2>2, <2>3
<1>3. g[x] \in Nat /\ Holds(m2, L2, x, g[x])
  <2>1. g[x] \in Nat
    BY DEF Changes
  <2>2. CASE g[x] = 0
    BY <2>1, <2>2 DEF Gains, Holds
  <2>3. CASE g[x] # 0
    <3>1. PICK n \in Nat : /\ n \notin M /\ L2 = M \union {n} /\ Ptr(m2, x) = n + 16
                           /\ Length(m2, n) = g[x] /\ Contents(m2, x, n + 16, g[x])
      BY <2>3 DEF Gains
    <3> DEFINE p == Ptr(m2, x)
    <3>2. p = n + 16 /\ p - 16 = n /\ n \in L2
      BY <3>1
    <3>3. Contents(m2, x, p, g[x]) /\ Length(m2, p - 16) = g[x] /\ p - 16 \in L2
      <4> HIDE DEF M, p
      <4> QED BY <3>1, <3>2
    <3> QED BY <2>1, <2>3, <3>3 DEF Holds
  <2> QED BY <2>1, <2>2, <2>3
<1>4. \A k \in K2 : k \in Keys /\ g[k] \in Nat /\ Holds(m2, L2, k, g[k])
  BY <1>1, <1>2, <1>3 DEF Holds
<1>5. \A k \in K2 : k < 0 => StrsSlot \in K2 /\ 4 * (-k) <= g[StrsSlot]
  <2> SUFFICES ASSUME NEW k \in K2, k < 0 PROVE StrsSlot \in K2 /\ 4 * (-k) <= g[StrsSlot]
    OBVIOUS
  <2>1. StrsSlot \in K
    BY DEF Own
  <2>2. CASE x = StrsSlot
    <3>1. k # x
      BY <2>2, KeyFacts
    <3> QED BY <2>1, <2>2, <3>1
  <2>3. CASE x # StrsSlot
    BY <2>1, <2>3 DEF Own, Changes
  <2> QED BY <2>2, <2>3
<1>6. ASSUME NEW k \in K \ {x}, Ptr(m2, k) = Ptr(m2, x), Ptr(m2, x) # 0 PROVE FALSE
  <2>1. g[x] # 0
    BY <1>3, <1>6 DEF Holds
  <2>2. PICK n \in Nat : n \notin M /\ Ptr(m2, x) = n + 16
    BY <2>1 DEF Gains
  <2>3. g[k] # 0
    BY <1>2, <1>6 DEF Holds
  <2>4. Ptr(m2, k) - 16 \in M
    BY <1>2, <2>3 DEF Holds
  <2> QED BY <2>2, <2>4, <1>6
<1>7. \A j, k \in K2 : Ptr(m2, j) = Ptr(m2, k) /\ Ptr(m2, j) # 0 => j = k
  <2> SUFFICES ASSUME NEW j \in K2, NEW k \in K2, Ptr(m2, j) = Ptr(m2, k), Ptr(m2, j) # 0
               PROVE  j = k
    OBVIOUS
  <2>1. CASE j \in K \ {x} /\ k \in K \ {x}
    BY <2>1 DEF Own
  <2>2. CASE j = x \/ k = x
    BY <2>2, <1>6
  <2> QED BY <2>1, <2>2
<1>8. \A c \in L2 : \E k \in K2 : Ptr(m2, k) = c + 16
  <2> SUFFICES ASSUME NEW c \in L2 PROVE \E k \in K2 : Ptr(m2, k) = c + 16
    OBVIOUS
  <2>1. CASE c \in M
    <3>1. PICK k \in K : Ptr(m, k) = c + 16
      BY <2>1 DEF Own
    <3>2. k # x
      <4> SUFFICES ASSUME k = x PROVE FALSE
        OBVIOUS
      <4>1. c \in Nat /\ Ptr(m, x) - 16 = c /\ Ptr(m, x) # 0
        BY <2>1, <3>1, <1>1
      <4>2. f[x] # 0
        BY <4>1, <3>1, OwnKey
      <4> QED BY <4>1, <4>2, <2>1, <3>1 DEF Old
    <3> QED BY <3>1, <3>2
  <2>2. CASE c \notin M
    <3>1. Ptr(m2, x) = c + 16
      BY <2>2 DEF Gains
    <3> QED BY <3>1
  <2> QED BY <2>1, <2>2
<1> QED BY <1>4, <1>5, <1>7, <1>8 DEF Own
\* The chunks in L and all that is before the heap are the same, apart from word s.
KeptBut(m2, m, L, s) ==
  /\ \A a \in Words : a < HeapOffset /\ a # s => m2[a] = m[a]
  /\ \A d \in L : /\ Length(m2, d) = Length(m, d)
                  /\ \A a \in Words : d + 16 <= a /\ a < d + 16 + Length(m, d) /\ a # s
                                      => m2[a] = m[a]

\* A chunk in use is inside the account.
LEMMA LiveFacts ==
  ASSUME NEW m \in Mem, NEW C, Heap(m, C), NEW c \in Live(m, C)
  PROVE  /\ c \in Nat /\ c % 8 = 0 /\ HeapOffset <= c /\ Length(m, c) \in Nat /\ Length(m, c) # 0
         /\ c + 16 + Length(m, c) <= DataLen /\ c \in C
<1>1. /\ c \in C /\ c \in Nat /\ c % 8 = 0 /\ Length(m, c) \in Nat /\ Length(m, c) # 0
      /\ OffsetNext(m, c) \in Nat /\ c + 16 + Length(m, c) <= OffsetNext(m, c)
      /\ OffsetNext(m, c) + 16 <= DataLen
  BY LiveNext
<1>2. HeapOffset <= c
  BY <1>1, ChainBasic DEF Heap
<1> QED BY <1>1, <1>2, Sizes

\* The slot of a key, and where it is.
LEMMA SlotFacts ==
  ASSUME NEW m \in Mem, NEW C, Heap(m, C), NEW K, NEW f, Own(m, Live(m, C), K, f), NEW x \in Keys,
         x < 0 => StrsSlot \in K /\ 4 * (-x) <= f[StrsSlot]
  PROVE  /\ SlotOf(m, x) \in Words
         /\ ~(x < 0) => SlotOf(m, x) = x /\ x \in Base
         /\ x < 0 => /\ f[StrsSlot] # 0 /\ m[StrsSlot] \in Nat
                     /\ m[StrsSlot] - 16 \in Live(m, C) /\ HeapOffset <= SlotOf(m, x)
                     /\ SlotOf(m, x) = m[StrsSlot] + (-x - 1) * 4
                     /\ m[StrsSlot] <= SlotOf(m, x)
                     /\ SlotOf(m, x) + 4 <= m[StrsSlot] + Length(m, m[StrsSlot] - 16)
                     /\ Length(m, m[StrsSlot] - 16) = f[StrsSlot]
<1>1. x \in Int /\ (x < 0 \/ x \in Base) /\ StrsSlot \in Words /\ ~(StrsSlot < 0)
  BY KeyFacts
<1>2. CASE ~(x < 0)
  BY <1>1, <1>2, KeyFacts DEF SlotOf
<1>3. CASE x < 0
  <2> DEFINE p == m[StrsSlot]
             s == p + (-x - 1) * 4
  <2>1. Ptr(m, StrsSlot) = p /\ p \in Nat
    BY <1>1, PtrNat DEF Ptr, SlotOf, Get
  <2>2. f[StrsSlot] \in Nat /\ f[StrsSlot] # 0
    BY <1>1, <1>3, OwnKey
  <2>3. p - 16 \in Live(m, C) /\ Length(m, p - 16) = f[StrsSlot]
    BY <1>3, <2>1, <2>2, OwnKey
  <2> HIDE DEF p
  <2> DEFINE c == p - 16
  <2>4. /\ c \in Nat /\ c % 8 = 0 /\ HeapOffset <= c /\ c + 16 + f[StrsSlot] <= DataLen
    BY <2>3, LiveFacts
  <2>5. p = c + 16
    BY <2>1
  <2> HIDE DEF c
  <2>6. s \in Nat /\ s % 4 = 0 /\ p <= s /\ s + 4 <= p + f[StrsSlot]
    <3>1. c % 4 = 0
      BY <2>4
    <3> QED BY <1>1, <1>3, <2>2, <2>4, <2>5, <3>1
  <2> HIDE DEF s
  <2>7. s \in Words /\ HeapOffset <= s
    BY <2>2, <2>4, <2>5, <2>6, Sizes DEF Words
  <2>8. SlotOf(m, x) = s
    BY <1>3 DEF SlotOf, s, p
  <2> QED BY <1>3, <2>1, <2>2, <2>3, <2>6, <2>7, <2>8 DEF s, p
<1> QED BY <1>2, <1>3

\* Two keys have different slots.
LEMMA SlotsDiffer ==
  ASSUME NEW m \in Mem, NEW C, Heap(m, C), NEW K, NEW f, Own(m, Live(m, C), K, f), NEW x \in Keys,
         x < 0 => StrsSlot \in K /\ 4 * (-x) <= f[StrsSlot], NEW k \in K \ {x}
  PROVE  SlotOf(m, k) # SlotOf(m, x) /\ SlotOf(m, k) \in Words
<1>1. k \in Keys /\ (k < 0 => StrsSlot \in K /\ 4 * (-k) <= f[StrsSlot])
  BY DEF Own
<1>2. /\ SlotOf(m, k) \in Words
      /\ ~(k < 0) => SlotOf(m, k) = k /\ k \in Base
      /\ k < 0 => HeapOffset <= SlotOf(m, k) /\ SlotOf(m, k) = m[StrsSlot] + (-k - 1) * 4
                  /\ m[StrsSlot] \in Nat
  BY <1>1, SlotFacts
<1>3. /\ ~(x < 0) => SlotOf(m, x) = x /\ x \in Base
      /\ x < 0 => HeapOffset <= SlotOf(m, x) /\ SlotOf(m, x) = m[StrsSlot] + (-x - 1) * 4
  BY SlotFacts
<1>4. x \in Int /\ k \in Int /\ \A b \in Base : b \in Nat /\ b < HeapOffset
  BY <1>1, KeyFacts
<1>5. CASE x < 0 /\ k < 0
  <2>1. x # k
    OBVIOUS
  <2> QED BY <2>1, <1>2, <1>3, <1>4, <1>5
<1>6. CASE ~(x < 0) /\ ~(k < 0)
  BY <1>2, <1>3, <1>6
<1>7. CASE ~((x < 0) <=> (k < 0))
  BY <1>2, <1>3, <1>4, <1>7, Sizes
<1> QED BY <1>2, <1>5, <1>6, <1>7
\* What stays the same for a key whose slot and chunk are kept.
LEMMA ContentsKept ==
  ASSUME NEW m, NEW m2, NEW k, NEW off, NEW len, Contents(m, k, off, len),
         k # StrsSlot => Intact(m2, m, off, off + len)
  PROVE  Contents(m2, k, off, len)
BY DEF Contents, Intact

\* A variable or an element, but not the array, is given something else.
LEMMA OneKey ==
  ASSUME NEW m \in Mem, NEW m2 \in Mem, NEW C, Heap(m, C), NEW L2, NEW K, NEW f, NEW g,
         NEW x \in Keys, x # StrsSlot,
         Own(m, Live(m, C), K, f), Changes(K, f, g, x),
         x < 0 => StrsSlot \in K /\ 4 * (-x) <= f[StrsSlot],
         KeptBut(m2, m, Live(m, C) \ Old(m, K, f, x), SlotOf(m, x)),
         Gains(m2, L2, Live(m, C) \ Old(m, K, f, x), x, g[x])
  PROVE  Own(m2, L2, K \union {x}, g)
<1> DEFINE L == Live(m, C)
           M == L \ Old(m, K, f, x)
           s == SlotOf(m, x)
<1>1. \A c \in L : c \in Nat
  BY LiveFacts
<1>2. s \in Words /\ (~(x < 0) => s = x /\ x \in Base) /\ (x < 0 => HeapOffset <= s)
  BY SlotFacts
<1>3. ASSUME StrsSlot \in K PROVE m2[StrsSlot] = m[StrsSlot]
  <2>1. SlotOf(m, StrsSlot) # s /\ SlotOf(m, StrsSlot) = StrsSlot
    BY <1>3, SlotsDiffer, KeyFacts DEF SlotOf
  <2> QED BY <2>1, KeyFacts DEF KeptBut
<1>4. ASSUME NEW k \in K \ {x} PROVE Ptr(m2, k) = Ptr(m, k)
  <2>1. k \in Keys /\ (k < 0 => StrsSlot \in K /\ 4 * (-k) <= f[StrsSlot])
    BY DEF Own
  <2> DEFINE q == SlotOf(m, k)
  <2>2. q # s /\ q \in Words
    BY SlotsDiffer
  <2>3. CASE ~(k < 0)
    <3>1. q = k /\ k \in Base /\ SlotOf(m2, k) = k
      BY <2>1, <2>3, SlotFacts DEF SlotOf
    <3>2. m2[k] = m[k]
      BY <3>1, <2>2, KeyFacts DEF KeptBut
    <3> QED BY <3>1, <3>2 DEF Ptr, Get
  <2>4. CASE k < 0
    <3>1. /\ m[StrsSlot] \in Nat /\ m[StrsSlot] - 16 \in L /\ m[StrsSlot] <= q
          /\ q + 4 <= m[StrsSlot] + Length(m, m[StrsSlot] - 16) /\ f[StrsSlot] # 0
      BY <2>1, <2>4, SlotFacts
    <3>2. SlotOf(m2, k) = q
      BY <2>1, <2>4, <1>3 DEF SlotOf
    <3>3. Ptr(m, StrsSlot) = m[StrsSlot]
      BY KeyFacts DEF Ptr, SlotOf, Get
    <3>4. m[StrsSlot] - 16 \in M
      BY <3>1, <3>3, <2>1, <2>4, <1>1, OwnOther
    <3> HIDE DEF q, M, L, s
    <3> DEFINE d == m[StrsSlot] - 16
    <3>5. d \in Nat /\ d + 16 = m[StrsSlot] /\ Length(m, d) \in Nat
      BY <3>1, LiveFacts DEF L
    <3>6. d \in M /\ d + 16 <= q /\ q < d + 16 + Length(m, d)
      BY <3>1, <3>4, <3>5, <2>2, Sizes
    <3> HIDE DEF d
    <3>7. m2[q] = m[q]
      BY <3>6, <2>2 DEF KeptBut, M, L, s
    <3> QED BY <3>2, <3>7 DEF Ptr, Get, q
  <2> QED BY <2>3, <2>4
<1>5. ASSUME NEW k \in K \ {x}, f[k] # 0
      PROVE  Length(m2, Ptr(m, k) - 16) = f[k] /\ Contents(m2, k, Ptr(m, k), f[k])
  <2> DEFINE d == Ptr(m, k) - 16
  <2>1. d \in M
    BY <1>1, <1>5, OwnOther
  <2>2. Length(m, d) = f[k] /\ Contents(m, k, Ptr(m, k), f[k]) /\ d \in L /\ Ptr(m, k) \in Nat
    BY <1>5, OwnKey
  <2>3. Length(m2, d) = f[k]
    BY <2>1, <2>2 DEF KeptBut
  <2>4. d \in Nat /\ Ptr(m, k) = d + 16 /\ f[k] \in Nat /\ HeapOffset <= d /\ d \in C
    BY <2>2, LiveFacts
  <2>5. ASSUME k # StrsSlot PROVE ~(d + 16 <= s /\ s < d + 16 + f[k])
    <3>1. CASE ~(x < 0)
      BY <3>1, <1>2, <2>4, KeyFacts, Sizes
    <3>2. CASE x < 0
      <4> DEFINE e == m[StrsSlot] - 16
      <4>1. /\ m[StrsSlot] \in Nat /\ e \in L /\ m[StrsSlot] <= s
            /\ s + 4 <= m[StrsSlot] + Length(m, e)
        BY <3>2, SlotFacts
      <4>2. Ptr(m, StrsSlot) = m[StrsSlot]
        BY KeyFacts DEF Ptr, SlotOf, Get
      <4>3. Ptr(m, StrsSlot) # Ptr(m, k)
        BY <2>5, <3>2, <2>4 DEF Own
      <4>4. e \in Nat /\ m[StrsSlot] = e + 16 /\ Length(m, e) \in Nat /\ e \in C
        BY <4>1, LiveFacts
      <4>5. e # d
        BY <4>2, <4>3, <4>4, <2>4
      <4>6. e < d => e + 16 + Length(m, e) <= d
        BY <4>4, <2>4, ChainApart DEF Heap
      <4>7. d < e => d + 16 + Length(m, d) <= e
        BY <4>4, <2>4, ChainApart DEF Heap
      <4> HIDE DEF d, e, s
      <4>8. s \in Nat
        BY <1>2, Sizes
      <4> QED BY <4>1, <4>4, <4>5, <4>6, <4>7, <4>8, <2>2, <2>4
    <3> QED BY <3>1, <3>2
  <2>6. k # StrsSlot => Intact(m2, m, Ptr(m, k), Ptr(m, k) + f[k])
    <3> HAVE k # StrsSlot
    <3> SUFFICES ASSUME NEW a \in Words, d + 16 <= a, a < d + 16 + f[k] PROVE m2[a] = m[a]
      BY <2>4 DEF Intact
    <3>1. a # s
      BY <2>5
    <3> HIDE DEF d, M, s
    <3> QED BY <3>1, <2>1, <2>2 DEF KeptBut, M, s
  <2>7. Contents(m2, k, Ptr(m, k), f[k])
    BY <2>2, <2>6, ContentsKept
  <2> QED BY <2>3, <2>7
<1> QED BY <1>1, <1>4, <1>5, OwnStep

\* The array of strings is given something else; its strings stay.
LEMMA ArrayKey ==
  ASSUME NEW m \in Mem, NEW m2 \in Mem, NEW C, Heap(m, C), NEW L2, NEW K, NEW f, NEW g,
         Own(m, Live(m, C), K, f), Changes(K, f, g, StrsSlot),
         \A k \in K : k < 0 => 4 * (-k) <= g[StrsSlot] /\ Ptr(m2, k) = Ptr(m, k),
         KeptBut(m2, m, Live(m, C) \ Old(m, K, f, StrsSlot), StrsSlot),
         Gains(m2, L2, Live(m, C) \ Old(m, K, f, StrsSlot), StrsSlot, g[StrsSlot])
  PROVE  Own(m2, L2, K \union {StrsSlot}, g)
<1> DEFINE L == Live(m, C)
           M == L \ Old(m, K, f, StrsSlot)
<1>1. \A c \in L : c \in Nat
  BY LiveFacts
<1>2. ASSUME NEW k \in K \ {StrsSlot} PROVE Ptr(m2, k) = Ptr(m, k)
  <2>1. CASE k < 0
    BY <2>1
  <2>2. CASE ~(k < 0)
    <3>1. k \in Base /\ SlotOf(m, k) = k /\ SlotOf(m2, k) = k
      BY <2>2, OwnKey, KeyFacts DEF SlotOf
    <3>2. m2[k] = m[k]
      BY <3>1, KeyFacts DEF KeptBut
    <3> QED BY <3>1, <3>2 DEF Ptr, Get
  <2> QED BY <2>1, <2>2
<1>3. ASSUME NEW k \in K \ {StrsSlot}, f[k] # 0
      PROVE  Length(m2, Ptr(m, k) - 16) = f[k] /\ Contents(m2, k, Ptr(m, k), f[k])
  <2> DEFINE d == Ptr(m, k) - 16
  <2>1. d \in M
    BY <1>1, <1>3, OwnOther
  <2>2. Length(m, d) = f[k] /\ Contents(m, k, Ptr(m, k), f[k]) /\ d \in L /\ Ptr(m, k) \in Nat
    BY <1>3, OwnKey
  <2>3. Length(m2, d) = f[k]
    BY <2>1, <2>2 DEF KeptBut
  <2>4. d \in Nat /\ Ptr(m, k) = d + 16 /\ f[k] \in Nat /\ HeapOffset <= d
    BY <2>2, LiveFacts
  <2>5. Intact(m2, m, Ptr(m, k), Ptr(m, k) + f[k])
    <3> SUFFICES ASSUME NEW a \in Words, d + 16 <= a, a < d + 16 + f[k] PROVE m2[a] = m[a]
      BY <2>4 DEF Intact
    <3>1. a # StrsSlot
      BY <2>4, KeyFacts, Sizes
    <3> HIDE DEF d, M
    <3> QED BY <3>1, <2>1, <2>2 DEF KeptBut, M
  <2>6. Contents(m2, k, Ptr(m, k), f[k])
    BY <2>2, <2>5, ContentsKept
  <2> QED BY <2>3, <2>6
<1>4. StrsSlot \in Keys /\ ~(StrsSlot < 0)
  BY KeyFacts
<1> QED BY <1>1, <1>2, <1>3, <1>4, OwnStep
-----------------------------------------------------------------------------
(* What the storage operations do, on a heap of which the chunks M are kept *)

\* Word s is in the account before the heap, or in the payload of a chunk in M.
At(m, M, s) ==
  s \in Words /\ (s < HeapOffset \/ \E d \in M : d + 16 <= s /\ s < d + 16 + Length(m, d))

\* A slot stays outside the payloads that it was outside of.
LEMMA AtKept ==
  ASSUME NEW m, NEW m1, NEW M, NEW s, At(m, M, s), Kept(m1, m, M)
  PROVE  At(m1, M, s)
BY DEF At, Kept

\* A store to word s.
LEMMA PutSlot ==
  ASSUME NEW m \in Mem, NEW m1 \in Mem, NEW C, Heap(m1, C), NEW M, M \subseteq Live(m1, C),
         Kept(m1, m, M), NEW s, At(m, M, s), NEW v \in Nat, NEW m2, m2 = Put(m1, s, v)
  PROVE  /\ m2 \in Mem /\ Heap(m2, C) /\ Live(m2, C) = Live(m1, C) /\ m2[s] = v
         /\ KeptBut(m2, m, M, s) /\ \A e \in C : Same(m2, m1, e)
         /\ \A a \in Words : a # s => m2[a] = m1[a]
<1>1. s \in Words
  BY DEF At
<1>2. m2 \in Mem /\ m2[s] = v /\ \A a \in Words : a # s => m2[a] = m1[a]
  BY <1>1, PutFacts
<1>3. \E d \in C : Payload(m2, m1, d)
  <2>1. CASE s < HeapOffset
    <3>1. HeapOffset \in C
      BY DEF Heap, Chain
    <3>2. \A a \in Words : HeapOffset <= a => a # s
      BY <1>1, <2>1, Sizes
    <3> QED BY <3>1, <3>2, <1>2 DEF Payload
  <2>2. CASE ~(s < HeapOffset)
    <3>1. PICK d \in M : d + 16 <= s /\ s < d + 16 + Length(m, d)
      BY <2>2 DEF At
    <3>2. d \in C /\ Length(m1, d) = Length(m, d)
      BY <3>1 DEF Live, Kept
    <3> QED BY <3>1, <3>2, <1>2 DEF Payload
  <2> QED BY <2>1, <2>2
<1>4. PICK d \in C : Payload(m2, m1, d)
  BY <1>3
<1>5. (\A e \in C : Same(m2, m1, e)) /\ Heap(m2, C) /\ Live(m2, C) = Live(m1, C)
  BY <1>2, <1>4, PayloadFacts
<1>6. KeptBut(m2, m, M, s)
  <2>1. \A e \in M : Length(m2, e) = Length(m, e)
    BY <1>5 DEF Live, Same, Kept
  <2> QED BY <2>1, <1>2 DEF Kept, KeptBut
<1> QED BY <1>2, <1>5, <1>6

\* Stores to the payload of chunk n, which is not in M.
LEMMA FillNew ==
  ASSUME NEW m \in Mem, NEW m2 \in Mem, NEW m3 \in Mem, NEW C, Heap(m2, C), NEW M,
         M \subseteq Live(m2, C), NEW n \in Live(m2, C), n \notin M, NEW s, At(m, M, s),
         KeptBut(m2, m, M, s),
         \A a \in Words : ~(n + 16 <= a /\ a < n + 16 + Length(m2, n)) => m3[a] = m2[a]
  PROVE  /\ Heap(m3, C) /\ Live(m3, C) = Live(m2, C) /\ m3[s] = m2[s]
         /\ KeptBut(m3, m, M, s) /\ Length(m3, n) = Length(m2, n)
<1>1. n \in C /\ n \in Nat /\ HeapOffset <= n /\ Length(m2, n) \in Nat
  BY LiveFacts
<1>2. Payload(m3, m2, n)
  BY DEF Payload
<1>3. /\ \A e \in C : Same(m3, m2, e)
      /\ Heap(m3, C) /\ Live(m3, C) = Live(m2, C)
      /\ \A e \in C \ {n} : \A a \in Words :
           e + 16 <= a /\ a < e + 16 + Length(m2, e) => m3[a] = m2[a]
  BY <1>1, <1>2, PayloadFacts
<1>4. \A a \in Words : a < HeapOffset => m3[a] = m2[a]
  BY <1>1, Sizes
<1>5. \A e \in M : e \in C \ {n} /\ Length(m3, e) = Length(m, e) /\ Length(m2, e) = Length(m, e)
  BY <1>3 DEF Live, Same, KeptBut
<1>6. KeptBut(m3, m, M, s)
  BY <1>3, <1>4, <1>5 DEF KeptBut
<1>7. m3[s] = m2[s]
  <2>1. CASE s < HeapOffset
    BY <2>1, <1>4 DEF At
  <2>2. CASE ~(s < HeapOffset)
    <3>1. PICK d \in M : d + 16 <= s /\ s < d + 16 + Length(m, d)
      BY <2>2 DEF At
    <3> QED BY <3>1, <1>3, <1>5 DEF At
  <2> QED BY <2>1, <2>2
<1> QED BY <1>1, <1>3, <1>6, <1>7 DEF Same

\* The heap of m2 with the chunks in M and, for a length other than 0, a chunk
\* n whose offset is in word s.
Placed(m2, C2, m, M, s, len, n) ==
  /\ m2 \in Mem /\ Heap(m2, C2) /\ KeptBut(m2, m, M, s)
  /\ IF len = 0 THEN m2[s] = 0 /\ Live(m2, C2) = M
     ELSE /\ n \in Nat /\ n \notin M /\ Live(m2, C2) = M \union {n} /\ m2[s] = n + 16
          /\ Length(m2, n) = len

\* All words of the payload are the mark.
Filled(m2, off, len, mark) == \A a \in Words : off <= a /\ a < off + len => m2[a] = mark

\* __memcpy fills the words of the string and no other.
LEMMA FillFacts ==
  ASSUME NEW m \in Mem, NEW off, NEW len, NEW mark \in Nat, NEW m2, m2 = Fill(m, off, len, mark)
  PROVE  /\ m2 \in Mem /\ Filled(m2, off, len, mark)
         /\ \A a \in Words : ~(off <= a /\ a < off + len) => m2[a] = m[a]
BY DEF Fill, Mem, Filled

\* Nothing is filled.
LEMMA FillNone ==
  ASSUME NEW m \in Mem, NEW off \in Nat, NEW mark
  PROVE  Fill(m, off, 0, mark) = m
<1>1. \A a \in Words : ~(off <= a /\ a < off + 0)
  BY Sizes
<1> QED BY <1>1 DEF Fill, Mem

\* storage_store of a string where none was stored.
LEMMA StoreNewFacts ==
  ASSUME NEW m \in Mem, NEW m1 \in Mem, NEW C, Heap(m1, C), NEW M, Live(m1, C) = M, Kept(m1, m, M),
         NEW s, At(m, M, s), NEW len, Small(len), NEW mark \in Nat,
         NEW r, r = StoreNew(m1, s, len, mark), r.ok
  PROVE  \E C2, n : Placed(r.mem, C2, m, M, s, len, n) /\ Filled(r.mem, n + 16, len, mark)
<1> DEFINE x == Alloc(m1, len)
           m2 == Put(x.mem, s, x.res)
           m3 == Fill(m2, x.res, len, mark)
<1>1. len \in Nat
  BY RoundFacts
<1>2. r = IF x.ok THEN Done(m3, x.res) ELSE x
  BY DEF StoreNew, AndThen
<1>3. x.ok /\ r.mem = m3
  BY <1>2 DEF Done
<1>4. CASE len = 0
  <2>1. x.mem = m1 /\ x.res = 0
    BY <1>4 DEF Alloc, Done
  <2> HIDE DEF x
  <2>2. m2 = Put(m1, s, 0)
    BY <2>1
  <2> HIDE DEF m2
  <2>3. /\ m2 \in Mem /\ Heap(m2, C) /\ Live(m2, C) = Live(m1, C) /\ m2[s] = 0
        /\ KeptBut(m2, m, M, s)
    BY <2>2, PutSlot
  <2>4. m3 = m2
    BY <2>1, <2>3, <1>4, FillNone
  <2>5. Placed(m2, C, m, M, s, len, 0)
    BY <2>3, <1>4 DEF Placed
  <2>6. Filled(m2, 0 + 16, len, mark)
    <3>1. \A a \in Words : ~(16 <= a /\ a < 16 + 0)
      BY Sizes
    <3> QED BY <3>1, <1>4 DEF Filled
  <2> QED BY <2>4, <2>5, <2>6, <1>3
<1>5. CASE len # 0
  <2>1. PICK n : /\ x.res = n + 16
                 /\ \E C2 : Holding(x.mem, C2, m1, M, n, len)
    BY <1>3, <1>5, AllocFacts
  <2>2. PICK C2 : Holding(x.mem, C2, m1, M, n, len)
    BY <2>1
  <2> DEFINE ma == x.mem
  <2>3. /\ ma \in Mem /\ Heap(ma, C2) /\ n \in C2 /\ n \notin M /\ Live(ma, C2) = M \union {n}
        /\ Length(ma, n) = len /\ Kept(ma, m1, M)
    BY <2>2 DEF Holding
  <2>4. m2 = Put(ma, s, n + 16)
    BY <2>1
  <2>5. m3 = Fill(m2, n + 16, len, mark)
    BY <2>1
  <2> HIDE DEF x, ma, m2, m3
  <2>6. Kept(ma, m, M)
    BY <2>3, KeptTrans
  <2>7. n \in Live(ma, C2) /\ n \in Nat /\ M \subseteq Live(ma, C2)
    BY <2>3, LiveFacts
  <2>8. n + 16 \in Nat
    BY <2>7
  <2>9. /\ m2 \in Mem /\ Heap(m2, C2) /\ Live(m2, C2) = Live(ma, C2) /\ m2[s] = n + 16
        /\ KeptBut(m2, m, M, s) /\ \A e \in C2 : Same(m2, ma, e)
    BY <2>3, <2>4, <2>6, <2>7, <2>8, PutSlot
  <2>10. Length(m2, n) = len
    BY <2>3, <2>9 DEF Same
  <2>11. /\ m3 \in Mem /\ Filled(m3, n + 16, len, mark)
         /\ \A a \in Words : ~(n + 16 <= a /\ a < n + 16 + len) => m3[a] = m2[a]
    BY <2>5, <2>9, FillFacts
  <2>12. /\ Heap(m3, C2) /\ Live(m3, C2) = Live(m2, C2) /\ m3[s] = m2[s]
         /\ KeptBut(m3, m, M, s) /\ Length(m3, n) = Length(m2, n)
    BY <2>3, <2>7, <2>9, <2>10, <2>11, FillNew
  <2>13. Placed(m3, C2, m, M, s, len, n)
    BY <2>3, <2>7, <2>9, <2>10, <2>11, <2>12, <1>5 DEF Placed
  <2> QED BY <2>11, <2>13, <1>3
<1> QED BY <1>4, <1>5
-----------------------------------------------------------------------------
(* The operations on the storage of a contract                              *)

\* The account header
TopOK(m) == m[0] = 1 /\ m[4] = 0 /\ m[8] = 0 /\ m[12] = HeapOffset

\* The account m is in order, and its chunks C that are in use belong to the keys K.
State(m, C, K, f) ==
  m \in Mem /\ Heap(m, C) /\ Own(m, Live(m, C), K, f) /\ TopOK(m)

\* The string[] has not moved.
Stays(m2, m) == m2[StrsSlot] = m[StrsSlot]

\* A key that can be stored to.
Usable(K, f, x) == x \in Keys /\ (x < 0 => StrsSlot \in K /\ 4 * (-x) <= f[StrsSlot])

\* What is kept when x gets something else.
Rest(m, C, K, f, x) == Live(m, C) \ Old(m, K, f, x)

\* The account header lies outside everything that a call writes.
LEMMA TopKept ==
  ASSUME NEW m, NEW m2, NEW M, NEW s, TopOK(m), KeptBut(m2, m, M, s), 16 <= s, s \in Nat
  PROVE  TopOK(m2)
<1>1. 0 \in Words /\ 4 \in Words /\ 8 \in Words /\ 12 \in Words
  BY Sizes DEF Words
<1>2. 0 # s /\ 4 # s /\ 8 # s /\ 12 # s
  OBVIOUS
<1> QED BY <1>1, <1>2, Sizes DEF TopOK, KeptBut

\* A usable key is in the state.
LEMMA StateKey ==
  ASSUME NEW m, NEW C, NEW K, NEW f, State(m, C, K, f), NEW x \in K
  PROVE  /\ Usable(K, f, x) /\ f[x] \in Nat /\ Ptr(m, x) \in Nat
         /\ DataLength(m, Ptr(m, x)) = f[x] /\ (f[x] = 0 <=> Ptr(m, x) = 0)
         /\ f[x] # 0 => Ptr(m, x) - 16 \in Live(m, C) /\ Length(m, Ptr(m, x) - 16) = f[x]
                        /\ Old(m, K, f, x) = {Ptr(m, x) - 16} /\ Contents(m, x, Ptr(m, x), f[x])
         /\ f[x] = 0 => Old(m, K, f, x) = {}
<1>1. Usable(K, f, x)
  BY DEF State, Own, Usable
<1>2. /\ f[x] \in Nat /\ Ptr(m, x) \in Nat /\ (f[x] = 0 => Ptr(m, x) = 0)
      /\ f[x] # 0 => /\ Ptr(m, x) - 16 \in Live(m, C) /\ Length(m, Ptr(m, x) - 16) = f[x]
                     /\ Contents(m, x, Ptr(m, x), f[x])
  BY OwnKey DEF State
<1>3. f[x] # 0 => Ptr(m, x) # 0
  <2> HAVE f[x] # 0
  <2>1. Ptr(m, x) - 16 \in Nat
    BY <1>2, LiveFacts DEF State
  <2> QED BY <1>2, <2>1
<1>4. DataLength(m, Ptr(m, x)) = f[x]
  BY <1>2, <1>3 DEF DataLength, HdrSize
<1> QED BY <1>1, <1>2, <1>3, <1>4 DEF Old

\* The slot of a key other than the array is not in what the key owns.
LEMMA SlotAt ==
  ASSUME NEW m, NEW C, NEW K, NEW f, State(m, C, K, f), NEW x, Usable(K, f, x), x # StrsSlot
  PROVE  At(m, Rest(m, C, K, f, x), SlotOf(m, x)) /\ 16 <= SlotOf(m, x) /\ SlotOf(m, x) \in Nat
<1> DEFINE s == SlotOf(m, x)
<1>1. m \in Mem /\ Heap(m, C) /\ Own(m, Live(m, C), K, f) /\ x \in Keys
  BY DEF State, Usable
<1>2. /\ s \in Words /\ (~(x < 0) => s = x /\ x \in Base)
      /\ x < 0 => /\ f[StrsSlot] # 0 /\ m[StrsSlot] \in Nat
                  /\ m[StrsSlot] - 16 \in Live(m, C) /\ HeapOffset <= s
                  /\ m[StrsSlot] <= s /\ s + 4 <= m[StrsSlot] + Length(m, m[StrsSlot] - 16)
  BY <1>1, SlotFacts DEF Usable
<1>3. CASE ~(x < 0)
  BY <1>2, <1>3, KeyFacts DEF At
<1>4. CASE x < 0
  <2>1. s \in Nat /\ 16 <= s
    <3> HIDE DEF s
    <3>1. s \in Nat /\ HeapOffset <= s
      BY <1>2, <1>4, Sizes
    <3> QED BY <3>1, Sizes
  <2>2. Ptr(m, StrsSlot) = m[StrsSlot]
    BY KeyFacts DEF Ptr, SlotOf, Get
  <2> DEFINE d == m[StrsSlot] - 16
  <2>3. StrsSlot \in K \ {x}
    BY <1>4 DEF Usable
  <2>4. d \in Rest(m, C, K, f, x)
    BY <1>1, <1>2, <1>4, <2>2, <2>3, OwnOther, LiveFacts DEF Rest
  <2>5. d \in Nat /\ d + 16 = m[StrsSlot] /\ Length(m, d) \in Nat
    BY <1>1, <1>2, <1>4, LiveFacts
  <2> HIDE DEF d, s
  <2>6. d + 16 <= s /\ s < d + 16 + Length(m, d)
    BY <2>1, <2>5, <1>2, <1>4 DEF d
  <2> QED BY <2>1, <2>4, <2>6, <1>2 DEF At, s
<1> QED BY <1>3, <1>4

\* The slot of x stays where it is when x gets something else.
LEMMA SlotStays ==
  ASSUME NEW m, NEW C, NEW K, NEW f, State(m, C, K, f), NEW x, Usable(K, f, x), x # StrsSlot,
         NEW m2, NEW M, KeptBut(m2, m, M, SlotOf(m, x))
  PROVE  SlotOf(m2, x) = SlotOf(m, x) /\ m2[StrsSlot] = m[StrsSlot]
<1>1. /\ ~(x < 0) => SlotOf(m, x) = x
      /\ x < 0 => HeapOffset <= SlotOf(m, x)
  BY SlotFacts DEF State, Usable
<1>2. StrsSlot # SlotOf(m, x)
  BY <1>1, KeyFacts, Sizes
<1>3. m2[StrsSlot] = m[StrsSlot]
  BY <1>2, KeyFacts DEF KeptBut
<1> QED BY <1>1, <1>3 DEF SlotOf

\* What key x other than the array gets is in its slot.
LEMMA KeyPlaced ==
  ASSUME NEW m, NEW C, NEW K, NEW f, State(m, C, K, f), NEW x, Usable(K, f, x), x # StrsSlot,
         NEW g, Changes(K, f, g, x), NEW m2, NEW C2, NEW n, NEW len, g[x] = len,
         Placed(m2, C2, m, Rest(m, C, K, f, x), SlotOf(m, x), len, n),
         len # 0 => Contents(m2, x, n + 16, len)
  PROVE  State(m2, C2, K \union {x}, g) /\ m2[StrsSlot] = m[StrsSlot]
<1> DEFINE M == Rest(m, C, K, f, x)
           s == SlotOf(m, x)
<1>1. /\ m \in Mem /\ Heap(m, C) /\ Own(m, Live(m, C), K, f) /\ x \in Keys /\ TopOK(m)
      /\ (x < 0 => StrsSlot \in K /\ 4 * (-x) <= f[StrsSlot])
  BY DEF State, Usable
<1>2. m2 \in Mem /\ Heap(m2, C2) /\ KeptBut(m2, m, M, s)
  BY DEF Placed
<1>3. SlotOf(m2, x) = s /\ m2[StrsSlot] = m[StrsSlot]
  BY <1>2, SlotStays
<1>4. s \in Words /\ 16 <= s /\ s \in Nat
  BY SlotAt DEF At
<1>5. Ptr(m2, x) = m2[s]
  BY <1>3, <1>4 DEF Ptr, Get
<1>6. Gains(m2, Live(m2, C2), M, x, g[x])
  <2>1. CASE g[x] = 0
    BY <2>1, <1>5 DEF Placed, Gains
  <2>2. CASE g[x] # 0
    BY <2>2, <1>5 DEF Placed, Gains
  <2> QED BY <2>1, <2>2
<1>7. Own(m2, Live(m2, C2), K \union {x}, g)
  BY <1>1, <1>2, <1>6, OneKey DEF Rest
<1>8. TopOK(m2)
  BY <1>1, <1>2, <1>4, TopKept
<1> QED BY <1>2, <1>3, <1>7, <1>8 DEF State

\* account_data_free of what x owns
LEMMA FreeOld ==
  ASSUME NEW m, NEW C, NEW K, NEW f, State(m, C, K, f), NEW x \in K,
         NEW m1, m1 = Free(m, Ptr(m, x))
  PROVE  \E C1 : Leaving(m1, C1, m, Rest(m, C, K, f, x))
<1>1. m \in Mem /\ Heap(m, C)
  BY DEF State
<1>2. CASE f[x] = 0
  <2>1. Ptr(m, x) = 0 /\ Old(m, K, f, x) = {}
    BY <1>2, StateKey
  <2>2. m1 = m
    BY <2>1 DEF Free
  <2>3. Rest(m, C, K, f, x) = Live(m, C)
    BY <2>1 DEF Rest
  <2> QED BY <1>1, <2>2, <2>3 DEF Leaving, Kept
<1>3. CASE f[x] # 0
  <2> DEFINE c == Ptr(m, x) - 16
  <2>1. c \in Live(m, C) /\ Old(m, K, f, x) = {c} /\ Ptr(m, x) \in Nat
    BY <1>3, StateKey
  <2>2. Ptr(m, x) = c + 16
    BY <2>1
  <2>3. Rest(m, C, K, f, x) = Live(m, C) \ {c}
    BY <2>1 DEF Rest
  <2> HIDE DEF c
  <2> QED BY <1>1, <2>1, <2>2, <2>3, FreeFacts
<1> QED BY <1>2, <1>3

\* A string key: what it owns is filled with its mark.
LEMMA StringMark ==
  ASSUME NEW x \in Keys, x # StrsSlot, x # IntsSlot
  PROVE  MarkOf(x, 0) \in Nat /\ \A d : MarkOf(x, d) = MarkOf(x, 0)
<1>1. x \in Int /\ (x < 0 \/ x \in Nat)
  BY KeyFacts
<1> QED BY <1>1 DEF MarkOf, ElemMark, StrMark

\* A chunk filled with the mark of a string holds that string.
LEMMA StringContents ==
  ASSUME NEW x \in Keys, x # StrsSlot, x # IntsSlot, NEW m2, NEW off, NEW len,
         Filled(m2, off, len, MarkOf(x, 0))
  PROVE  Contents(m2, x, off, len)
BY StringMark DEF Filled, Contents

\* storage_free of a string
LEMMA FreeStringFacts ==
  ASSUME NEW m, NEW C, NEW K, NEW f, State(m, C, K, f), NEW x \in K, x # StrsSlot,
         NEW g, Changes(K, f, g, x), g[x] = 0, NEW m2, m2 = FreeString(m, SlotOf(m, x))
  PROVE  (\E C2 : State(m2, C2, K, g)) /\ m2[StrsSlot] = m[StrsSlot]
<1> DEFINE s == SlotOf(m, x)
           m1 == Free(m, Ptr(m, x))
           M == Rest(m, C, K, f, x)
<1>1. m2 = Put(m1, s, 0)
  BY DEF FreeString, Ptr
<1>2. PICK C1 : Leaving(m1, C1, m, M)
  BY FreeOld
<1> HIDE DEF m1
<1>3. m1 \in Mem /\ Heap(m1, C1) /\ Live(m1, C1) = M /\ Kept(m1, m, M)
  BY <1>2 DEF Leaving
<1>4. Usable(K, f, x)
  BY StateKey
<1>5. At(m, M, s)
  BY <1>4, SlotAt
<1>6. m \in Mem
  BY DEF State
<1>7. /\ m2 \in Mem /\ Heap(m2, C1) /\ Live(m2, C1) = Live(m1, C1) /\ m2[s] = 0
      /\ KeptBut(m2, m, M, s)
  <2> HIDE DEF M, s
  <2> QED BY <1>1, <1>3, <1>5, <1>6, PutSlot
<1>8. Placed(m2, C1, m, M, s, 0, 0)
  BY <1>3, <1>7 DEF Placed
<1>9. State(m2, C1, K \union {x}, g) /\ m2[StrsSlot] = m[StrsSlot]
  BY <1>4, <1>8, KeyPlaced
<1>10. K \union {x} = K
  OBVIOUS
<1> QED BY <1>9, <1>10
\* storage_store of a string where none was stored
LEMMA StoreNewKey ==
  ASSUME NEW m, NEW C, NEW K, NEW f, State(m, C, K, f), NEW x, Usable(K, f, x), x \notin K,
         x # StrsSlot, x # IntsSlot, NEW g, Changes(K, f, g, x), NEW len, g[x] = len, Small(len),
         NEW mark, mark = MarkOf(x, 0), NEW r, r = StoreNew(m, SlotOf(m, x), len, mark), r.ok
  PROVE  (\E C2 : State(r.mem, C2, K \union {x}, g)) /\ Stays(r.mem, m)
<1> DEFINE M == Rest(m, C, K, f, x)
           s == SlotOf(m, x)
<1>1. m \in Mem /\ Heap(m, C) /\ x \in Keys
  BY DEF State, Usable
<1>2. Live(m, C) = M /\ Kept(m, m, M)
  BY DEF Rest, Old, Kept
<1>3. At(m, M, s)
  BY SlotAt
<1>4. mark \in Nat
  BY <1>1, StringMark
<1>5. PICK C2, n : Placed(r.mem, C2, m, M, s, len, n) /\ Filled(r.mem, n + 16, len, mark)
  <2> HIDE DEF M, s
  <2>1. r = StoreNew(m, s, len, mark)
    BY DEF s
  <2> QED BY <2>1, <1>1, <1>2, <1>3, <1>4, StoreNewFacts
<1>6. Contents(r.mem, x, n + 16, len)
  BY <1>1, <1>5, StringContents
<1>7. State(r.mem, C2, K \union {x}, g) /\ Stays(r.mem, m)
  <2> DEFINE m2 == r.mem
  <2>1. Placed(m2, C2, m, Rest(m, C, K, f, x), SlotOf(m, x), len, n)
    BY <1>5
  <2>2. len # 0 => Contents(m2, x, n + 16, len)
    BY <1>6
  <2> HIDE DEF m2
  <2>3. State(m2, C2, K \union {x}, g) /\ m2[StrsSlot] = m[StrsSlot]
    BY <2>1, <2>2, KeyPlaced
  <2> QED BY <2>3 DEF m2, Stays
<1> QED BY <1>7

\* storage_store of a string to existing storage
LEMMA StoreStringKey ==
  ASSUME NEW m, NEW C, NEW K, NEW f, State(m, C, K, f), NEW x \in K,
         x # StrsSlot, x # IntsSlot, NEW g, Changes(K, f, g, x), NEW len, g[x] = len, Small(len),
         NEW mark, mark = MarkOf(x, 0), NEW r, r = StoreString(m, SlotOf(m, x), len, mark), r.ok
  PROVE  (\E C2 : State(r.mem, C2, K, g)) /\ r.mem[StrsSlot] = m[StrsSlot]
<1> DEFINE M == Rest(m, C, K, f, x)
           s == SlotOf(m, x)
           old == Ptr(m, x)
<1>1. m \in Mem /\ Heap(m, C) /\ x \in Keys /\ Usable(K, f, x)
  BY StateKey DEF State, Usable
<1>2. At(m, M, s)
  BY <1>1, SlotAt
<1>3. mark \in Nat
  BY <1>1, StringMark
<1>4. /\ f[x] \in Nat /\ old \in Nat /\ DataLength(m, old) = f[x] /\ (f[x] = 0 <=> old = 0)
      /\ f[x] # 0 => /\ old - 16 \in Live(m, C) /\ Length(m, old - 16) = f[x]
                     /\ Old(m, K, f, x) = {old - 16}
      /\ f[x] = 0 => Old(m, K, f, x) = {}
  BY StateKey
<1>5. m[s] = old
  BY <1>2 DEF At, Ptr, Get
<1>6. r = IF DataLength(m, old) = len THEN Done(Fill(m, old, len, mark), old)
          ELSE StoreNew(Free(m, old), s, len, mark)
  BY DEF StoreString, Ptr
<1>7. K \union {x} = K
  OBVIOUS
<1>8. CASE len = f[x] /\ len = 0
  <2>1. old = 0 /\ Live(m, C) = M
    BY <1>4, <1>8 DEF Rest
  <2>2. r.mem = m
    BY <2>1, <1>1, <1>4, <1>6, <1>8, FillNone DEF Done
  <2>3. KeptBut(m, m, M, s)
    BY DEF KeptBut
  <2>4. Placed(m, C, m, M, s, 0, 0)
    BY <2>1, <2>3, <1>1, <1>5 DEF Placed
  <2>5. State(m, C, K \union {x}, g)
    BY <2>4, <1>1, <1>8, KeyPlaced
  <2> QED BY <2>2, <2>5, <1>7
<1>9. CASE len = f[x] /\ len # 0
  <2> DEFINE n == old - 16
             m3 == Fill(m, old, len, mark)
  <2>1. n \in Live(m, C) /\ Length(m, n) = len /\ old = n + 16 /\ n \in Nat
    BY <1>4, <1>9, LiveFacts, <1>1
  <2>2. M = Live(m, C) \ {n}
    BY <1>4, <1>9 DEF Rest
  <2>3. r.mem = m3
    BY <1>4, <1>6, <1>9 DEF Done
  <2> HIDE DEF n, old, s, M
  <2>4. /\ m3 \in Mem /\ Filled(m3, old, len, mark)
        /\ \A a \in Words : ~(old <= a /\ a < old + len) => m3[a] = m[a]
    BY <1>1, <1>3, FillFacts
  <2> HIDE DEF m3
  <2>5. KeptBut(m, m, M, s)
    BY DEF KeptBut
  <2>6. M \subseteq Live(m, C) /\ n \notin M /\ Live(m, C) = M \union {n}
    BY <2>1, <2>2
  <2>7. \A a \in Words : ~(n + 16 <= a /\ a < n + 16 + Length(m, n)) => m3[a] = m[a]
    BY <2>1, <2>4
  <2>8. /\ Heap(m3, C) /\ Live(m3, C) = Live(m, C) /\ m3[s] = m[s]
        /\ KeptBut(m3, m, M, s) /\ Length(m3, n) = Length(m, n)
    BY <2>1, <2>4, <2>5, <2>6, <2>7, <1>1, <1>2, FillNew
  <2>9. Placed(m3, C, m, M, s, len, n)
    BY <2>1, <2>4, <2>6, <2>8, <1>5, <1>9 DEF Placed
  <2>10. Contents(m3, x, n + 16, len)
    BY <2>1, <2>4, <1>1, StringContents
  <2>11. State(m3, C, K \union {x}, g) /\ m3[StrsSlot] = m[StrsSlot]
    <3>1. Placed(m3, C, m, Rest(m, C, K, f, x), SlotOf(m, x), len, n)
      BY <2>9 DEF M, s
    <3>2. len # 0 => Contents(m3, x, n + 16, len)
      BY <2>10
    <3> QED BY <3>1, <3>2, <1>1, KeyPlaced
  <2> QED BY <2>3, <2>11, <1>7
<1>10. CASE len # f[x]
  <2> DEFINE m1 == Free(m, old)
  <2>1. r = StoreNew(m1, s, len, mark)
    BY <1>4, <1>6, <1>10
  <2>2. PICK C1 : Leaving(m1, C1, m, M)
    BY FreeOld
  <2> HIDE DEF m1
  <2>3. m1 \in Mem /\ Heap(m1, C1) /\ Live(m1, C1) = M /\ Kept(m1, m, M)
    BY <2>2 DEF Leaving
  <2>4. PICK C2, n : Placed(r.mem, C2, m, M, s, len, n) /\ Filled(r.mem, n + 16, len, mark)
    <3> HIDE DEF M, s
    <3> QED BY <2>1, <2>3, <1>1, <1>2, <1>3, StoreNewFacts
  <2>5. Contents(r.mem, x, n + 16, len)
    BY <1>1, <2>4, StringContents
  <2>6. State(r.mem, C2, K \union {x}, g) /\ r.mem[StrsSlot] = m[StrsSlot]
    <3> DEFINE m2 == r.mem
    <3>1. Placed(m2, C2, m, Rest(m, C, K, f, x), SlotOf(m, x), len, n)
      BY <2>4
    <3>2. len # 0 => Contents(m2, x, n + 16, len)
      BY <2>5
    <3>3. Usable(K, f, x)
      BY <1>1
    <3> HIDE DEF m2
    <3>4. State(m2, C2, K \union {x}, g) /\ m2[StrsSlot] = m[StrsSlot]
      BY <3>1, <3>2, <3>3, KeyPlaced
    <3> QED BY <3>4 DEF m2
  <2> QED BY <2>6, <1>7
<1> QED BY <1>8, <1>9, <1>10

\* A key that owns nothing is dropped.
LEMMA DropKey ==
  ASSUME NEW m, NEW C, NEW K, NEW f, State(m, C, K, f), NEW K2, K2 \subseteq K,
         \A k \in K \ K2 : k < 0 /\ f[k] = 0
  PROVE  State(m, C, K2, f)
<1>1. ~(StrsSlot < 0)
  BY KeyFacts
<1>2. \A c \in Live(m, C) : \E k \in K2 : Ptr(m, k) = c + 16
  <2> SUFFICES ASSUME NEW c \in Live(m, C) PROVE \E k \in K2 : Ptr(m, k) = c + 16
    OBVIOUS
  <2>1. PICK k \in K : Ptr(m, k) = c + 16
    BY DEF State, Own
  <2>2. c \in Nat
    BY LiveFacts DEF State
  <2>3. f[k] # 0
    BY <2>1, <2>2, StateKey
  <2> QED BY <2>1, <2>3
<1>3. \A k \in K2 : k < 0 => StrsSlot \in K2
  BY <1>1 DEF State, Own
<1> QED BY <1>2, <1>3 DEF State, Own

\* The lengths are only looked at for the keys there are.
LEMMA SameLengths ==
  ASSUME NEW m, NEW C, NEW K, NEW f, State(m, C, K, f), NEW g, \A k \in K : g[k] = f[k]
  PROVE  State(m, C, K, g)
<1>1. \A k \in K : k < 0 => StrsSlot \in K
  BY DEF State, Own
<1> QED BY <1>1 DEF State, Own
-----------------------------------------------------------------------------
(* Arrays                                                                   *)

\* A word of chunk c is a word of chunk n after a copy.
LEMMA CopyWord ==
  ASSUME NEW c \in Nat, c % 8 = 0, NEW n \in Nat, n % 8 = 0, NEW len \in Nat,
         n + 16 + len <= DataLen, NEW a \in Words, c + 16 <= a, a < c + 16 + len,
         NEW b, b = a - (c + 16) + (n + 16)
  PROVE  b \in Words /\ n + 16 <= b /\ b < n + 16 + len
<1>1. a \in Nat /\ a % 4 = 0 /\ c % 4 = 0 /\ n % 4 = 0
  BY Sizes
<1>2. b \in Nat /\ n + 16 <= b /\ b < n + 16 + len /\ b % 4 = 0
  BY <1>1
<1> QED BY <1>2, Sizes DEF Words

Least(a, b) == IF a <= b THEN a ELSE b

\* The offset of the new chunk is stored in a slot before the heap.
LEMMA PutPlaced ==
  ASSUME NEW m \in Mem, NEW ma, NEW C2, NEW M, NEW n, NEW size, Holding(ma, C2, m, M, n, size),
         size # 0, NEW s \in Words, s < HeapOffset, NEW m2, m2 = Put(ma, s, n + 16)
  PROVE  /\ Placed(m2, C2, m, M, s, size, n)
         /\ \A a \in Words : a # s => m2[a] = ma[a]
<1>1. /\ ma \in Mem /\ Heap(ma, C2) /\ n \in C2 /\ n \notin M /\ Live(ma, C2) = M \union {n}
      /\ Length(ma, n) = size /\ Kept(ma, m, M)
  BY DEF Holding
<1>2. n \in Nat /\ n + 16 \in Nat
  BY <1>1, LiveFacts
<1>3. At(m, M, s) /\ M \subseteq Live(ma, C2)
  BY <1>1 DEF At
<1>4. /\ m2 \in Mem /\ Heap(m2, C2) /\ Live(m2, C2) = Live(ma, C2) /\ m2[s] = n + 16
      /\ KeptBut(m2, m, M, s) /\ \A e \in C2 : Same(m2, ma, e)
      /\ \A a \in Words : a # s => m2[a] = ma[a]
  BY <1>1, <1>2, <1>3, PutSlot
<1>5. Length(m2, n) = size
  BY <1>1, <1>4 DEF Same
<1> QED BY <1>1, <1>2, <1>4, <1>5 DEF Placed

\* account_data_realloc of an array, whose slot receives the offset
LEMMA ResizeFacts ==
  ASSUME NEW m, NEW C, NEW K, NEW f, State(m, C, K, f), NEW x \in K, x \in Base,
         NEW size, Small(size), NEW r, r = Resize(m, x, size)
  PROVE  /\ r.ok => \E C2, n :
              /\ Placed(r.mem, C2, m, Rest(m, C, K, f, x), x, size, n) /\ r.res = r.mem[x]
              /\ f[x] # 0 => Copied(r.mem, n, m, m[x] - 16, Least(f[x], size))
         /\ size <= f[x] => r.ok /\ (size # 0 => r.mem[x] = m[x])
<1> DEFINE M == Rest(m, C, K, f, x)
           old == m[x]
           y == Realloc(m, old, size)
           m2 == Put(y.mem, x, y.res)
<1>1. m \in Mem /\ Heap(m, C)
  BY DEF State
<1>2. x \in Words /\ x \in Nat /\ x < HeapOffset /\ ~(x < 0)
  BY KeyFacts
<1>3. Ptr(m, x) = old /\ Get(m, x) = old
  BY <1>2 DEF Ptr, SlotOf, Get
<1>4. /\ f[x] \in Nat /\ old \in Nat /\ (f[x] = 0 <=> old = 0)
      /\ f[x] # 0 => /\ old - 16 \in Live(m, C) /\ Length(m, old - 16) = f[x]
                     /\ Old(m, K, f, x) = {old - 16}
      /\ f[x] = 0 => Old(m, K, f, x) = {}
  BY <1>3, StateKey
<1>5. r = IF y.ok THEN Done(m2, y.res) ELSE y
  BY <1>3 DEF Resize, AndThen
<1>6. /\ (r.ok <=> y.ok) /\ (y.ok => r.mem = m2 /\ r.res = y.res)
  BY <1>5 DEF Done
<1>7. size \in Nat
  BY RoundFacts
<1> HIDE DEF old
<1>8. CASE size = 0
  <2> DEFINE m1 == Free(m, old)
  <2>1. y = Done(m1, 0)
    BY <1>8 DEF Realloc
  <2>2. y.ok /\ m2 = Put(m1, x, 0) /\ y.res = 0
    BY <2>1 DEF Done
  <2>3. PICK C1 : Leaving(m1, C1, m, M)
    BY <1>3, FreeOld
  <2> HIDE DEF m1, y, m2, M
  <2>4. m1 \in Mem /\ Heap(m1, C1) /\ Live(m1, C1) = M /\ Kept(m1, m, M)
    BY <2>3 DEF Leaving
  <2>5. At(m, M, x)
    BY <1>2 DEF At
  <2>6. /\ m2 \in Mem /\ Heap(m2, C1) /\ Live(m2, C1) = Live(m1, C1) /\ m2[x] = 0
        /\ KeptBut(m2, m, M, x)
    BY <2>2, <2>4, <2>5, <1>1, PutSlot
  <2>7. Placed(m2, C1, m, M, x, size, 0)
    BY <2>4, <2>6, <1>8 DEF Placed
  <2>8. Copied(m2, 0, m, old - 16, Least(f[x], size)) \/ f[x] = 0
    <3> SUFFICES ASSUME f[x] # 0 PROVE Copied(m2, 0, m, old - 16, Least(f[x], size))
      OBVIOUS
    <3>1. Least(f[x], size) = 0
      BY <1>4, <1>8 DEF Least
    <3>2. \A a \in Words : ~(old - 16 + 16 <= a /\ a < old - 16 + 16 + 0)
      BY <1>4, Sizes
    <3> QED BY <3>1, <3>2 DEF Copied
  <2> QED BY <2>2, <2>6, <2>7, <2>8, <1>6, <1>8 DEF M, old
<1>9. CASE size # 0 /\ f[x] = 0
  <2>1. old = 0 /\ M = Live(m, C)
    BY <1>4, <1>9 DEF Rest
  <2>2. y = Alloc(m, size)
    BY <2>1, <1>9 DEF Realloc
  <2>3. ~(size <= f[x])
    BY <1>7, <1>9
  <2>4. ASSUME r.ok
        PROVE  \E C2, n : Placed(r.mem, C2, m, M, x, size, n) /\ r.res = r.mem[x]
    <3>1. PICK n : /\ y.res = n + 16
                   /\ \E C2 : Holding(y.mem, C2, m, Live(m, C), n, size)
      BY <2>2, <2>4, <1>1, <1>6, <1>9, AllocFacts
    <3>2. PICK C2 : Holding(y.mem, C2, m, M, n, size)
      BY <3>1, <2>1
    <3> DEFINE ma == y.mem
    <3>3. m2 = Put(ma, x, n + 16)
      BY <3>1
    <3> HIDE DEF ma, m2, M, y
    <3>4. Placed(m2, C2, m, M, x, size, n)
      BY <3>2, <3>3, <1>1, <1>2, <1>9, PutPlaced DEF ma
    <3>5. m2[x] = n + 16
      BY <3>4, <1>9 DEF Placed
    <3> QED BY <3>1, <3>4, <3>5, <2>4, <1>6
  <2> QED BY <2>3, <2>4, <1>9
<1>10. CASE size # 0 /\ f[x] # 0
  <2> DEFINE c == old - 16
  <2>1. c \in Live(m, C) /\ Length(m, c) = f[x] /\ M = Live(m, C) \ {c}
    BY <1>4, <1>10 DEF Rest
  <2>2. c \in Nat /\ c % 8 = 0 /\ old = c + 16
    BY <2>1, <1>1, <1>4, LiveFacts
  <2> HIDE DEF c, M
  <2>3. y = Realloc(m, c + 16, size)
    BY <2>2
  <2> HIDE DEF y
  <2>4. /\ y.ok => Resized(y, m, C, c, size)
        /\ size <= f[x] => y.ok /\ y.res = c + 16
    BY <2>1, <2>3, <1>1, <1>10, ReallocFacts
  <2>5. size <= f[x] => r.ok /\ (size # 0 => r.mem[x] = m[x])
    <3> HAVE size <= f[x]
    <3>1. y.ok /\ y.res = old
      BY <2>2, <2>4
    <3>2. r.ok /\ r.mem = m2
      BY <3>1, <1>6
    <3>3. m2 = Put(y.mem, x, old)
      BY <3>1
    <3>4. y.mem \in Mem
      BY <3>1, <2>4 DEF Resized, Holding
    <3> HIDE DEF m2
    <3>5. m2[x] = old
      BY <3>3, <3>4, <1>2, <1>4, PutFacts
    <3> QED BY <3>2, <3>5 DEF old
  <2>6. ASSUME r.ok
        PROVE  \E C2, n : /\ Placed(r.mem, C2, m, M, x, size, n) /\ r.res = r.mem[x]
                          /\ Copied(r.mem, n, m, c, Least(f[x], size))
    <3>1. y.ok /\ r.mem = m2 /\ r.res = y.res
      BY <1>6, <2>6
    <3> DEFINE ma == y.mem
    <3>2. PICK n, C2 :
            /\ y.res = n + 16 /\ Holding(ma, C2, m, M, n, size)
            /\ \A a \in Words : c + 16 <= a /\ a < c + 16 + Length(m, c) /\ a < c + 16 + size
                                => ma[a - (c + 16) + (n + 16)] = m[a]
      BY <3>1, <2>1, <2>4 DEF Resized
    <3>3. m2 = Put(ma, x, n + 16)
      BY <3>2
    <3> HIDE DEF ma, m2
    <3>4. /\ Placed(m2, C2, m, M, x, size, n)
          /\ \A a \in Words : a # x => m2[a] = ma[a]
      BY <3>2, <3>3, <1>1, <1>2, <1>10, PutPlaced
    <3>5. m2[x] = n + 16
      BY <3>4, <1>10 DEF Placed
    <3>6. Copied(m2, n, m, c, Least(f[x], size))
      <4> SUFFICES ASSUME NEW a \in Words, c + 16 <= a, a < c + 16 + Least(f[x], size)
                   PROVE  m2[a - (c + 16) + (n + 16)] = m[a]
        BY DEF Copied
      <4> DEFINE b == a - (c + 16) + (n + 16)
      <4>1. a < c + 16 + f[x] /\ a < c + 16 + size
        BY <2>2, <1>4, <1>7, Sizes DEF Least
      <4>2. n \in Live(ma, C2) /\ ma \in Mem /\ Heap(ma, C2) /\ Length(ma, n) = size
        BY <3>2 DEF Holding
      <4>3. n \in Nat /\ n % 8 = 0 /\ n + 16 + size <= DataLen /\ HeapOffset <= n
        BY <4>2, LiveFacts
      <4>4. b \in Words /\ n + 16 <= b
        BY <4>1, <4>3, <2>2, <1>7, CopyWord
      <4>5. ma[b] = m[a]
        BY <3>2, <4>1, <2>1
      <4> HIDE DEF b
      <4>6. b # x
        BY <4>3, <4>4, <1>2, Sizes
      <4>7. m2[b] = m[a]
        BY <3>4, <4>4, <4>5, <4>6
      <4> QED BY <4>7 DEF b
    <3> QED BY <3>1, <3>2, <3>4, <3>5, <3>6
  <2> QED BY <2>5, <2>6, <1>10 DEF M, c, old
<1> QED BY <1>8, <1>9, <1>10
\* Stores to the payload of the chunk that was placed
LEMMA PlacedFill ==
  ASSUME NEW m \in Mem, NEW m2, NEW C2, NEW M, NEW s, At(m, M, s), NEW len, len # 0, NEW n,
         Placed(m2, C2, m, M, s, len, n), NEW m3 \in Mem,
         \A a \in Words : ~(n + 16 <= a /\ a < n + 16 + len) => m3[a] = m2[a]
  PROVE  Placed(m3, C2, m, M, s, len, n)
<1>1. /\ m2 \in Mem /\ Heap(m2, C2) /\ KeptBut(m2, m, M, s)
      /\ n \in Nat /\ n \notin M /\ Live(m2, C2) = M \union {n} /\ m2[s] = n + 16
      /\ Length(m2, n) = len
  BY DEF Placed
<1>2. M \subseteq Live(m2, C2) /\ n \in Live(m2, C2)
  BY <1>1
<1>3. /\ Heap(m3, C2) /\ Live(m3, C2) = Live(m2, C2) /\ m3[s] = m2[s]
      /\ KeptBut(m3, m, M, s) /\ Length(m3, n) = Length(m2, n)
  BY <1>1, <1>2, FillNew
<1> QED BY <1>1, <1>3 DEF Placed

\* Where the chunk is that was placed
LEMMA PlacedAt ==
  ASSUME NEW m2, NEW C2, NEW m, NEW M, NEW s, NEW len, len # 0, NEW n,
         Placed(m2, C2, m, M, s, len, n)
  PROVE  /\ n \in Nat /\ n % 8 = 0 /\ n + 16 + len <= DataLen /\ m2[s] = n + 16 /\ m2 \in Mem
         /\ HeapOffset <= n
<1>1. /\ m2 \in Mem /\ Heap(m2, C2) /\ n \in Live(m2, C2) /\ Length(m2, n) = len /\ m2[s] = n + 16
  BY DEF Placed
<1> QED BY <1>1, LiveFacts

\* What is copied reads the same.
LEMMA CopiedContents ==
  ASSUME NEW m, NEW m2, NEW x, NEW c \in Nat, c % 8 = 0, NEW n \in Nat, n % 8 = 0, NEW len \in Nat,
         c + 16 + len <= DataLen, Copied(m2, n, m, c, len), Contents(m, x, c + 16, len)
  PROVE  Contents(m2, x, n + 16, len)
<1> SUFFICES ASSUME x # StrsSlot, NEW a \in Words, n + 16 <= a, a < n + 16 + len
             PROVE  m2[a] = MarkOf(x, a - (n + 16))
  BY DEF Contents
<1> DEFINE b == a - (n + 16) + (c + 16)
<1>1. b \in Words /\ c + 16 <= b /\ b < c + 16 + len
  BY CopyWord
<1>2. a \in Nat /\ b - (c + 16) + (n + 16) = a /\ b - (c + 16) = a - (n + 16)
  BY Sizes
<1> HIDE DEF b
<1>3. m2[a] = m[b]
  BY <1>1, <1>2 DEF Copied
<1>4. m[b] = MarkOf(x, b - (c + 16))
  BY <1>1 DEF Contents
<1> QED BY <1>2, <1>3, <1>4

\* Part of the contents
LEMMA ContentsPart ==
  ASSUME NEW m, NEW x, NEW off \in Nat, NEW len \in Nat, NEW l2 \in Nat, l2 <= len,
         Contents(m, x, off, len)
  PROVE  Contents(m, x, off, l2)
<1>1. \A a \in Words : a < off + l2 => a < off + len
  BY Sizes
<1> QED BY <1>1 DEF Contents

\* The slot of the uint64[]
LEMMA IntsFacts ==
  ASSUME NEW m, NEW C, NEW K, NEW f, State(m, C, K, f), IntsSlot \in K
  PROVE  /\ m \in Mem /\ SlotOf(m, IntsSlot) = IntsSlot /\ Get(m, IntsSlot) = m[IntsSlot]
         /\ Ptr(m, IntsSlot) = m[IntsSlot]
         /\ At(m, Rest(m, C, K, f, IntsSlot), IntsSlot) /\ Usable(K, f, IntsSlot)
         /\ DataLength(m, m[IntsSlot]) = f[IntsSlot] /\ f[IntsSlot] \in Nat /\ m[IntsSlot] \in Nat
<1>1. m \in Mem /\ IntsSlot \in Words /\ ~(IntsSlot < 0) /\ IntsSlot # StrsSlot
  BY KeyFacts DEF State
<1>2. SlotOf(m, IntsSlot) = IntsSlot /\ Get(m, IntsSlot) = m[IntsSlot]
  BY <1>1 DEF SlotOf, Get
<1>3. Ptr(m, IntsSlot) = m[IntsSlot]
  BY <1>2 DEF Ptr
<1>4. /\ Usable(K, f, IntsSlot) /\ DataLength(m, Ptr(m, IntsSlot)) = f[IntsSlot]
      /\ f[IntsSlot] \in Nat /\ Ptr(m, IntsSlot) \in Nat
  BY StateKey
<1>5. At(m, Rest(m, C, K, f, IntsSlot), IntsSlot)
  BY <1>1, <1>2, <1>4, SlotAt
<1> QED BY <1>1, <1>2, <1>3, <1>4, <1>5

\* What the uint64[] gets is in its slot.
LEMMA IntsPlaced ==
  ASSUME NEW m, NEW C, NEW K, NEW f, State(m, C, K, f), IntsSlot \in K,
         NEW g, Changes(K, f, g, IntsSlot), NEW len, g[IntsSlot] = len, NEW m2, NEW C2, NEW n,
         Placed(m2, C2, m, Rest(m, C, K, f, IntsSlot), IntsSlot, len, n),
         len # 0 => Contents(m2, IntsSlot, n + 16, len)
  PROVE  State(m2, C2, K, g) /\ m2[StrsSlot] = m[StrsSlot]
<1>1. Usable(K, f, IntsSlot) /\ IntsSlot # StrsSlot /\ SlotOf(m, IntsSlot) = IntsSlot
  BY IntsFacts, KeyFacts
<1>2. K \union {IntsSlot} = K
  OBVIOUS
<1>3. Placed(m2, C2, m, Rest(m, C, K, f, IntsSlot), SlotOf(m, IntsSlot), len, n)
  BY <1>1
<1>4. State(m2, C2, K \union {IntsSlot}, g) /\ m2[StrsSlot] = m[StrsSlot]
  BY <1>1, <1>3, KeyPlaced
<1> QED BY <1>2, <1>4

\* storage_store of a uint64[] of length num
LEMMA StoreIntsFacts ==
  ASSUME NEW m, NEW C, NEW K, NEW f, State(m, C, K, f), IntsSlot \in K, NEW num \in Nat,
         Small(num * 8), NEW g, Changes(K, f, g, IntsSlot), g[IntsSlot] = num * 8,
         NEW r, r = StoreInts(m, IntsSlot, num)
  PROVE  /\ r.ok => (\E C2 : State(r.mem, C2, K, g)) /\ r.mem[StrsSlot] = m[StrsSlot]
         /\ num * 8 <= f[IntsSlot] /\ num # 0 => r.mem[IntsSlot] = m[IntsSlot]
<1> DEFINE size == num * 8
           y == Resize(m, IntsSlot, size)
           Mark(a) == IntMark((a - y.res) \div 8)
           m3 == [a \in Words |-> IF y.res <= a /\ a < y.res + size THEN Mark(a) ELSE y.mem[a]]
           M == Rest(m, C, K, f, IntsSlot)
<1>1. r = IF y.ok THEN Done(m3, y.res) ELSE y
  BY DEF StoreInts, AndThen, IntSize
<1>2. (r.ok <=> y.ok) /\ (y.ok => r.mem = m3)
  BY <1>1 DEF Done
<1>3. /\ y.ok => \E C2, n : Placed(y.mem, C2, m, M, IntsSlot, size, n) /\ y.res = y.mem[IntsSlot]
      /\ size <= f[IntsSlot] => y.ok /\ (size # 0 => y.mem[IntsSlot] = m[IntsSlot])
  BY KeyFacts, ResizeFacts
<1>4. size \in Nat /\ m \in Mem /\ At(m, M, IntsSlot)
  BY IntsFacts
<1>5. ASSUME y.ok
      PROVE  /\ \E C2 : State(m3, C2, K, g)
             /\ m3[StrsSlot] = m[StrsSlot]
             /\ size # 0 => m3[IntsSlot] = y.mem[IntsSlot]
  <2> DEFINE m2 == y.mem
  <2>1. PICK C2, n : Placed(m2, C2, m, M, IntsSlot, size, n) /\ y.res = m2[IntsSlot]
    BY <1>3, <1>5
  <2>2. m2 \in Mem
    BY <2>1 DEF Placed
  <2>3. CASE size = 0
    <3>1. y.res = 0
      BY <2>1, <2>3 DEF Placed
    <3>2. \A a \in Words : ~(y.res <= a /\ a < y.res + size)
      BY <3>1, <2>3, Sizes
    <3>3. m3 = m2
      BY <3>2, <2>2 DEF Mem
    <3> HIDE DEF m2, m3, size, y
    <3>4. size # 0 => Contents(m2, IntsSlot, n + 16, size)
      BY <2>3
    <3>5. Placed(m2, C2, m, Rest(m, C, K, f, IntsSlot), IntsSlot, size, n) /\ g[IntsSlot] = size
      BY <2>1 DEF size
    <3>6. State(m2, C2, K, g) /\ m2[StrsSlot] = m[StrsSlot]
      BY <3>4, <3>5, IntsPlaced
    <3> QED BY <3>3, <3>6, <2>3
  <2>4. CASE size # 0
    <3>1. n \in Nat /\ y.res = n + 16
      BY <2>1, <2>4, PlacedAt
    <3>2. \A a \in Words : (a - y.res) \div 8 \in Int /\ (y.res <= a => Mark(a) \in Nat)
      BY <3>1, Sizes DEF IntMark
    <3>3. m3 \in Mem
      BY <3>2, <2>2 DEF Mem
    <3>4. \A a \in Words : ~(n + 16 <= a /\ a < n + 16 + size) => m3[a] = m2[a]
      BY <3>1
    <3>5. Contents(m3, IntsSlot, n + 16, size)
      <4> SUFFICES ASSUME NEW a \in Words, n + 16 <= a, a < n + 16 + size
                   PROVE  m3[a] = MarkOf(IntsSlot, a - (n + 16))
        BY DEF Contents
      <4>1. m3[a] = IntMark((a - (n + 16)) \div 8)
        BY <3>1
      <4> HIDE DEF m3
      <4> QED BY <4>1, KeyFacts DEF MarkOf
    <3> HIDE DEF m2, m3, size, y, M
    <3>6. Placed(m3, C2, m, M, IntsSlot, size, n)
      BY <2>1, <2>4, <3>3, <3>4, <1>4, PlacedFill
    <3>7. m3[IntsSlot] = m2[IntsSlot]
      BY <3>6, <2>1, <2>4 DEF Placed
    <3>8. size # 0 => Contents(m3, IntsSlot, n + 16, size)
      BY <3>5
    <3>9. Placed(m3, C2, m, Rest(m, C, K, f, IntsSlot), IntsSlot, size, n) /\ g[IntsSlot] = size
      BY <3>6 DEF M, size
    <3>10. State(m3, C2, K, g) /\ m3[StrsSlot] = m[StrsSlot]
      BY <3>8, <3>9, IntsPlaced
    <3> QED BY <3>7, <3>10 DEF m2
  <2> QED BY <2>3, <2>4
<1> QED BY <1>2, <1>3, <1>5
\* What was in the uint64[] before it was resized is in it after.
LEMMA IntsKept ==
  ASSUME NEW m, NEW C, NEW K, NEW f, State(m, C, K, f), IntsSlot \in K, f[IntsSlot] # 0,
         NEW m2, NEW n \in Nat, n % 8 = 0, NEW size \in Nat,
         Copied(m2, n, m, m[IntsSlot] - 16, Least(f[IntsSlot], size))
  PROVE  Contents(m2, IntsSlot, n + 16, Least(f[IntsSlot], size))
<1> DEFINE c == m[IntsSlot] - 16
           len == f[IntsSlot]
           l2 == Least(len, size)
<1>1. m \in Mem /\ Heap(m, C) /\ Ptr(m, IntsSlot) = m[IntsSlot] /\ len \in Nat /\ m[IntsSlot] \in Nat
  BY IntsFacts DEF State
<1>2. c \in Live(m, C) /\ Length(m, c) = len /\ Contents(m, IntsSlot, m[IntsSlot], len)
  BY <1>1, StateKey
<1>3. c \in Nat /\ c % 8 = 0 /\ c + 16 + len <= DataLen /\ m[IntsSlot] = c + 16
  BY <1>1, <1>2, LiveFacts
<1>4. l2 \in Nat /\ l2 <= len
  BY <1>1 DEF Least
<1> HIDE DEF c, len, l2
<1>5. Contents(m, IntsSlot, c + 16, l2)
  BY <1>1, <1>2, <1>3, <1>4, ContentsPart
<1>6. c + 16 + l2 <= DataLen
  BY <1>1, <1>3, <1>4, Sizes
<1>7. Copied(m2, n, m, c, l2)
  BY DEF c, l2, len
<1>8. Contents(m2, IntsSlot, n + 16, l2)
  BY <1>3, <1>4, <1>5, <1>6, <1>7, CopiedContents
<1> QED BY <1>8 DEF l2, len

\* The uint64[] gets shorter.
LEMMA PopIntsFacts ==
  ASSUME NEW m, NEW C, NEW K, NEW f, State(m, C, K, f), IntsSlot \in K, NEW num \in Nat, num # 0,
         f[IntsSlot] = num * 8, Small(num * 8),
         NEW g, Changes(K, f, g, IntsSlot), g[IntsSlot] = (num - 1) * 8,
         NEW r, r = Pop(m, IntsSlot, IntSize)
  PROVE  /\ \E C2 : State(r.mem, C2, K, g)
         /\ num # 1 => r.mem[IntsSlot] = m[IntsSlot]
         /\ r.mem[StrsSlot] = m[StrsSlot]
<1> DEFINE size == (num - 1) * 8
           y == Resize(m, IntsSlot, size)
           M == Rest(m, C, K, f, IntsSlot)
<1>1. size \in Nat /\ size <= f[IntsSlot] /\ size < U32 /\ Small(size) /\ (size = 0 <=> num = 1)
  BY Sizes DEF Small
<1>2. r = Done(y.mem, 0)
  <2>1. DataLength(m, Get(m, IntsSlot)) = num * 8
    BY IntsFacts
  <2>2. num * 8 - 8 = size
    OBVIOUS
  <2>3. Wrap(size) = size
    BY <1>1, WrapFacts
  <2> HIDE DEF size
  <2> QED BY <2>1, <2>2, <2>3 DEF Pop, IntSize
<1> HIDE DEF size
<1>3. /\ y.ok => \E C2, n :
           /\ Placed(y.mem, C2, m, M, IntsSlot, size, n)
           /\ f[IntsSlot] # 0 => Copied(y.mem, n, m, m[IntsSlot] - 16, Least(f[IntsSlot], size))
      /\ size <= f[IntsSlot] => y.ok /\ (size # 0 => y.mem[IntsSlot] = m[IntsSlot])
  BY <1>1, KeyFacts, ResizeFacts
<1>4. y.ok /\ (size # 0 => y.mem[IntsSlot] = m[IntsSlot]) /\ f[IntsSlot] # 0
  BY <1>1, <1>3
<1> DEFINE m2 == y.mem
<1>5. PICK C2, n : /\ Placed(m2, C2, m, M, IntsSlot, size, n)
                   /\ Copied(m2, n, m, m[IntsSlot] - 16, Least(f[IntsSlot], size))
  BY <1>3, <1>4
<1>6. Least(f[IntsSlot], size) = size
  <2>1. f[IntsSlot] \in Nat
    BY IntsFacts
  <2> QED BY <2>1, <1>1 DEF Least
<1>7. r.mem = m2
  BY <1>2 DEF Done
<1> HIDE DEF m2, M, y
<1>8. size # 0 => Contents(m2, IntsSlot, n + 16, size)
  <2> HAVE size # 0
  <2>1. n \in Nat /\ n % 8 = 0
    BY <1>5, PlacedAt
  <2>2. Contents(m2, IntsSlot, n + 16, Least(f[IntsSlot], size))
    BY <2>1, <1>1, <1>4, <1>5, IntsKept
  <2> QED BY <2>2, <1>6
<1>9. Placed(m2, C2, m, Rest(m, C, K, f, IntsSlot), IntsSlot, size, n) /\ g[IntsSlot] = size
  BY <1>5 DEF M, size
<1>10. State(m2, C2, K, g) /\ m2[StrsSlot] = m[StrsSlot]
  BY <1>8, <1>9, IntsPlaced
<1> QED BY <1>1, <1>4, <1>7, <1>10 DEF m2

\* storage_push of an integer
LEMMA PushIntsFacts ==
  ASSUME NEW m, NEW C, NEW K, NEW f, State(m, C, K, f), IntsSlot \in K, NEW num \in Nat,
         f[IntsSlot] = num * 8, Small((num + 1) * 8),
         NEW g, Changes(K, f, g, IntsSlot), g[IntsSlot] = (num + 1) * 8,
         NEW p, p = Push(m, IntsSlot, IntSize), p.ok,
         NEW m3, m3 = Fill(p.mem, p.res, IntSize, IntMark(num))
  PROVE  (\E C2 : State(m3, C2, K, g)) /\ m3[StrsSlot] = m[StrsSlot]
<1> DEFINE len == num * 8
           size == (num + 1) * 8
           y == Resize(m, IntsSlot, size)
           M == Rest(m, C, K, f, IntsSlot)
<1>1. size \in Nat /\ size # 0 /\ len \in Nat /\ size = len + 8
  OBVIOUS
<1>2. p = IF y.ok THEN Done(y.mem, y.res + len) ELSE y
  <2>1. DataLength(m, Get(m, IntsSlot)) = len
    BY IntsFacts
  <2> HIDE DEF size, len
  <2> QED BY <1>1, <2>1 DEF Push, IntSize, AndThen
<1>3. y.ok /\ p.mem = y.mem /\ p.res = y.res + len
  BY <1>2 DEF Done
<1>4. /\ y.ok => \E C2, n :
           /\ Placed(y.mem, C2, m, M, IntsSlot, size, n) /\ y.res = y.mem[IntsSlot]
           /\ f[IntsSlot] # 0 => Copied(y.mem, n, m, m[IntsSlot] - 16, Least(f[IntsSlot], size))
  BY KeyFacts, ResizeFacts
<1> DEFINE m2 == y.mem
<1>5. PICK C2, n : /\ Placed(m2, C2, m, M, IntsSlot, size, n) /\ y.res = m2[IntsSlot]
                   /\ f[IntsSlot] # 0
                      => Copied(m2, n, m, m[IntsSlot] - 16, Least(f[IntsSlot], size))
  BY <1>3, <1>4
<1>6. n \in Nat /\ n % 8 = 0 /\ m2[IntsSlot] = n + 16 /\ m2 \in Mem
  BY <1>1, <1>5, PlacedAt
<1>7. IntMark(num) \in Nat
  BY DEF IntMark
<1>8. m3 = Fill(m2, n + 16 + len, 8, IntMark(num))
  BY <1>3, <1>5, <1>6 DEF IntSize
<1> HIDE DEF m2, y, M
<1>9. /\ m3 \in Mem /\ Filled(m3, n + 16 + len, 8, IntMark(num))
      /\ \A a \in Words : ~(n + 16 + len <= a /\ a < n + 16 + len + 8) => m3[a] = m2[a]
  BY <1>6, <1>7, <1>8, FillFacts
<1>10. \A a \in Words : ~(n + 16 <= a /\ a < n + 16 + size) => m3[a] = m2[a]
  <2> SUFFICES ASSUME NEW a \in Words, ~(n + 16 <= a /\ a < n + 16 + size) PROVE m3[a] = m2[a]
    OBVIOUS
  <2>1. ~(n + 16 + len <= a /\ a < n + 16 + len + 8)
    BY <1>1, <1>6, Sizes
  <2> QED BY <2>1, <1>9
<1>11. m \in Mem /\ At(m, M, IntsSlot)
  BY IntsFacts DEF M
<1>12. Placed(m3, C2, m, M, IntsSlot, size, n)
  <2> HIDE DEF size
  <2> QED BY <1>1, <1>5, <1>9, <1>10, <1>11, PlacedFill
<1>13. Contents(m3, IntsSlot, n + 16, size)
  <2> SUFFICES ASSUME NEW a \in Words, n + 16 <= a, a < n + 16 + size
               PROVE  m3[a] = MarkOf(IntsSlot, a - (n + 16))
    BY DEF Contents
  <2>1. MarkOf(IntsSlot, a - (n + 16)) = IntMark((a - (n + 16)) \div 8)
    BY KeyFacts DEF MarkOf
  <2>2. CASE n + 16 + len <= a
    <3>1. m3[a] = IntMark(num)
      BY <2>2, <1>1, <1>6, <1>9, Sizes DEF Filled
    <3> DEFINE e == a - (n + 16)
    <3>2. e \in Nat /\ num * 8 <= e /\ e < num * 8 + 8
      BY <2>2, <1>1, <1>6, Sizes
    <3> HIDE DEF e
    <3>3. e \div 8 = num
      BY <3>2
    <3> QED BY <2>1, <3>1, <3>3 DEF e
  <2>3. CASE ~(n + 16 + len <= a)
    <3>1. a < n + 16 + len /\ len # 0 /\ a \in Nat
      BY <2>3, <1>1, <1>6, Sizes
    <3>2. m3[a] = m2[a]
      BY <2>3, <1>9
    <3>3. Least(f[IntsSlot], size) = len /\ f[IntsSlot] # 0
      BY <1>1, <3>1 DEF Least
    <3>4. Contents(m2, IntsSlot, n + 16, Least(f[IntsSlot], size))
      BY <1>1, <1>5, <1>6, <3>3, IntsKept
    <3>5. Contents(m2, IntsSlot, n + 16, len)
      BY <3>3, <3>4
    <3>6. m2[a] = MarkOf(IntsSlot, a - (n + 16))
      BY <3>1, <3>5, KeyFacts DEF Contents
    <3> QED BY <3>2, <3>6
  <2> QED BY <2>2, <2>3
<1>14. Placed(m3, C2, m, Rest(m, C, K, f, IntsSlot), IntsSlot, size, n) /\ g[IntsSlot] = size
  BY <1>12 DEF M
<1>15. size # 0 => Contents(m3, IntsSlot, n + 16, size)
  BY <1>13
<1> HIDE DEF size
<1> QED BY <1>14, <1>15, IntsPlaced

\* storage_free of a uint64[]
LEMMA FreeIntsFacts ==
  ASSUME NEW m, NEW C, NEW K, NEW f, State(m, C, K, f), IntsSlot \in K,
         NEW g, Changes(K, f, g, IntsSlot), g[IntsSlot] = 0,
         NEW m3, m3 = FreeInts(m, IntsSlot)
  PROVE  (\E C2 : State(m3, C2, K, g)) /\ m3[StrsSlot] = m[StrsSlot]
<1> DEFINE off == m[IntsSlot]
           len == f[IntsSlot]
           m1 == Fill(m, off, len, 0)
           m2 == Free(m1, off)
           M == Rest(m, C, K, f, IntsSlot)
<1>1. /\ m \in Mem /\ Heap(m, C) /\ At(m, M, IntsSlot) /\ off \in Nat /\ len \in Nat
      /\ Ptr(m, IntsSlot) = off
  BY IntsFacts DEF State
<1>2. m3 = Put(m2, IntsSlot, 0)
  <2>1. DataLength(m, off) = len /\ Get(m, IntsSlot) = off
    BY IntsFacts
  <2> QED BY <2>1 DEF FreeInts
<1>3. \E C2 : m2 \in Mem /\ Heap(m2, C2) /\ Live(m2, C2) = M /\ Kept(m2, m, M)
  <2>1. CASE len = 0
    <3>1. off = 0 /\ M = Live(m, C)
      BY <1>1, <2>1, StateKey DEF Rest
    <3>2. m1 = m
      BY <1>1, <2>1, FillNone
    <3>3. m2 = m
      BY <3>1, <3>2 DEF Free
    <3> QED BY <3>1, <3>3, <1>1 DEF Kept
  <2>2. CASE len # 0
    <3> DEFINE c == off - 16
    <3>1. c \in Live(m, C) /\ Length(m, c) = len /\ M = Live(m, C) \ {c}
      BY <1>1, <2>2, StateKey DEF Rest
    <3>2. c \in C /\ off = c + 16 /\ c \in Nat /\ HeapOffset <= c
      BY <1>1, <3>1, LiveFacts
    <3> HIDE DEF c, off, len
    <3>3. m1 \in Mem /\ \A a \in Words : ~(off <= a /\ a < off + len) => m1[a] = m[a]
      BY <1>1, FillFacts
    <3> HIDE DEF m1
    <3>4. Payload(m1, m, c)
      BY <3>1, <3>2, <3>3 DEF Payload
    <3>5. /\ \A e \in C : Same(m1, m, e)
          /\ Heap(m1, C) /\ Live(m1, C) = Live(m, C)
          /\ \A e \in C \ {c} : \A a \in Words :
               e + 16 <= a /\ a < e + 16 + Length(m, e) => m1[a] = m[a]
      BY <1>1, <3>2, <3>3, <3>4, PayloadFacts
    <3>6. \A a \in Words : a < HeapOffset => m1[a] = m[a]
      <4>1. \A a \in Words : a < HeapOffset => ~(off <= a)
        BY <3>2, Sizes
      <4> QED BY <4>1, <3>3
    <3>7. Kept(m1, m, M)
      <4>1. \A e \in M : e \in C \ {c} /\ Length(m1, e) = Length(m, e)
        BY <3>1, <3>5 DEF Live, Same
      <4> QED BY <4>1, <3>5, <3>6 DEF Kept
    <3>8. PICK C2 : Leaving(m2, C2, m1, M)
      BY <3>1, <3>2, <3>3, <3>5, FreeFacts
    <3>9. Kept(m2, m, M)
      BY <3>7, <3>8, KeptTrans DEF Leaving
    <3> QED BY <3>8, <3>9 DEF Leaving
  <2> QED BY <2>1, <2>2
<1>4. PICK C2 : m2 \in Mem /\ Heap(m2, C2) /\ Live(m2, C2) = M /\ Kept(m2, m, M)
  BY <1>3
<1> HIDE DEF m2, M
<1>5. /\ m3 \in Mem /\ Heap(m3, C2) /\ Live(m3, C2) = Live(m2, C2) /\ m3[IntsSlot] = 0
      /\ KeptBut(m3, m, M, IntsSlot)
  BY <1>1, <1>2, <1>4, PutSlot
<1>6. Placed(m3, C2, m, M, IntsSlot, 0, 0)
  BY <1>4, <1>5 DEF Placed
<1> QED BY <1>6, IntsPlaced DEF M
-----------------------------------------------------------------------------
(* The array of strings                                                     *)

\* The slot of the string[]
LEMMA StrsFacts ==
  ASSUME NEW m, NEW C, NEW K, NEW f, State(m, C, K, f), StrsSlot \in K
  PROVE  /\ m \in Mem /\ Get(m, StrsSlot) = m[StrsSlot] /\ Ptr(m, StrsSlot) = m[StrsSlot]
         /\ DataLength(m, m[StrsSlot]) = f[StrsSlot] /\ f[StrsSlot] \in Nat /\ m[StrsSlot] \in Nat
         /\ f[StrsSlot] = 0 <=> m[StrsSlot] = 0
<1>1. m \in Mem /\ StrsSlot \in Words /\ ~(StrsSlot < 0)
  BY KeyFacts DEF State
<1>2. Get(m, StrsSlot) = m[StrsSlot] /\ Ptr(m, StrsSlot) = m[StrsSlot]
  BY <1>1 DEF SlotOf, Get, Ptr
<1> QED BY <1>1, <1>2, StateKey

\* The elements keep their offsets when the array moves.
LEMMA ElemsCopied ==
  ASSUME NEW m, NEW C, NEW K, NEW f, State(m, C, K, f), NEW k \in K, k < 0, NEW size \in Nat,
         4 * (-k) <= size, NEW m2, NEW C2, NEW n,
         Placed(m2, C2, m, Rest(m, C, K, f, StrsSlot), StrsSlot, size, n),
         f[StrsSlot] # 0 => Copied(m2, n, m, m[StrsSlot] - 16, Least(f[StrsSlot], size))
  PROVE  Ptr(m2, k) = Ptr(m, k)
<1> DEFINE c == m[StrsSlot] - 16
           a == SlotOf(m, k)
           b == a - (c + 16) + (n + 16)
           len == f[StrsSlot]
<1>1. m \in Mem /\ Heap(m, C) /\ Own(m, Live(m, C), K, f) /\ k \in Int /\ Usable(K, f, k)
  BY StateKey, KeyFacts DEF State, Usable
<1>2. /\ a \in Words /\ len # 0 /\ m[StrsSlot] \in Nat /\ c \in Live(m, C)
      /\ a = m[StrsSlot] + (-k - 1) * 4 /\ m[StrsSlot] <= a
      /\ StrsSlot \in K /\ 4 * (-k) <= len
  BY <1>1, SlotFacts DEF Usable
<1>3. len \in Nat
  BY <1>2, StrsFacts
<1>4. c \in Nat /\ c % 8 = 0 /\ c + 16 = m[StrsSlot]
  BY <1>1, <1>2, LiveFacts
<1>5. size # 0
  BY <1>1
<1>6. n \in Nat /\ n % 8 = 0 /\ n + 16 + size <= DataLen /\ m2[StrsSlot] = n + 16
  BY <1>5, PlacedAt
<1>7. Copied(m2, n, m, c, Least(len, size))
  BY <1>2
<1>8. SlotOf(m2, k) = n + 16 + (-k - 1) * 4
  BY <1>6 DEF SlotOf
<1> HIDE DEF c, a, len
<1>9. a = c + 16 + (-k - 1) * 4 /\ c + 16 <= a /\ a < c + 16 + size /\ a < c + 16 + len
  BY <1>1, <1>2, <1>3, <1>4
<1>10. a < c + 16 + Least(len, size)
  BY <1>9 DEF Least
<1>11. m2[b] = m[a]
  BY <1>2, <1>7, <1>9, <1>10 DEF Copied
<1>12. b \in Words
  BY <1>2, <1>4, <1>6, <1>9, CopyWord
<1>13. b = n + 16 + (-k - 1) * 4
  BY <1>1, <1>4, <1>6, <1>9
<1> HIDE DEF b
<1>14. SlotOf(m2, k) = b
  BY <1>8, <1>13
<1>15. Ptr(m2, k) = m2[b] /\ Ptr(m, k) = m[a]
  BY <1>2, <1>12, <1>14 DEF Ptr, Get, a
<1> QED BY <1>11, <1>15

\* The elements fit in an array of the given size.
Fits(K, size) == \A k \in K : k < 0 => 4 * (-k) <= size

\* account_data_realloc of the array of strings, whose elements all fit
LEMMA StrsResize ==
  ASSUME NEW m, NEW C, NEW K, NEW f, State(m, C, K, f), StrsSlot \in K, NEW size, Small(size),
         NEW g, Changes(K, f, g, StrsSlot), g[StrsSlot] = size,
         Fits(K, size), NEW r, r = Resize(m, StrsSlot, size)
  PROVE  /\ r.ok => (\E C2 : State(r.mem, C2, K, g)) /\ r.res = r.mem[StrsSlot]
         /\ size <= f[StrsSlot] => r.ok /\ (size # 0 => r.mem[StrsSlot] = m[StrsSlot])
<1> DEFINE M == Rest(m, C, K, f, StrsSlot)
           m2 == r.mem
<1>1. /\ r.ok => \E C2, n :
              /\ Placed(m2, C2, m, M, StrsSlot, size, n) /\ r.res = m2[StrsSlot]
              /\ f[StrsSlot] # 0 => Copied(m2, n, m, m[StrsSlot] - 16, Least(f[StrsSlot], size))
      /\ size <= f[StrsSlot] => r.ok /\ (size # 0 => m2[StrsSlot] = m[StrsSlot])
  BY KeyFacts, ResizeFacts
<1>2. size \in Nat
  BY RoundFacts
<1>3. ASSUME r.ok PROVE (\E C2 : State(m2, C2, K, g)) /\ r.res = m2[StrsSlot]
  <2>1. PICK C2, n :
          /\ Placed(m2, C2, m, M, StrsSlot, size, n) /\ r.res = m2[StrsSlot]
          /\ f[StrsSlot] # 0 => Copied(m2, n, m, m[StrsSlot] - 16, Least(f[StrsSlot], size))
    BY <1>1, <1>3
  <2> HIDE DEF m2
  <2>2. \A k \in K : k < 0 => 4 * (-k) <= g[StrsSlot] /\ Ptr(m2, k) = Ptr(m, k)
    <3> SUFFICES ASSUME NEW k \in K, k < 0
                 PROVE  4 * (-k) <= g[StrsSlot] /\ Ptr(m2, k) = Ptr(m, k)
      OBVIOUS
    <3>1. 4 * (-k) <= size
      BY DEF Fits
    <3> QED BY <3>1, <2>1, <1>2, ElemsCopied
  <2>3. m2 \in Mem /\ Heap(m2, C2) /\ KeptBut(m2, m, M, StrsSlot)
    BY <2>1 DEF Placed
  <2>4. StrsSlot \in Words /\ ~(StrsSlot < 0) /\ StrsSlot \in Nat /\ 16 <= StrsSlot
    BY KeyFacts
  <2>5. Ptr(m2, StrsSlot) = m2[StrsSlot]
    BY <2>4 DEF Ptr, SlotOf, Get
  <2>6. Gains(m2, Live(m2, C2), M, StrsSlot, g[StrsSlot])
    <3>1. Contents(m2, StrsSlot, n + 16, size)
      BY DEF Contents
    <3>2. CASE size = 0
      BY <3>2, <2>1, <2>5 DEF Placed, Gains
    <3>3. CASE size # 0
      BY <3>1, <3>3, <2>1, <2>5 DEF Placed, Gains
    <3> QED BY <3>2, <3>3
  <2>7. m \in Mem /\ Heap(m, C) /\ Own(m, Live(m, C), K, f) /\ TopOK(m)
    BY DEF State
  <2>8. Own(m2, Live(m2, C2), K \union {StrsSlot}, g)
    BY <2>2, <2>3, <2>6, <2>7, ArrayKey DEF Rest
  <2>9. K \union {StrsSlot} = K
    OBVIOUS
  <2>10. TopOK(m2)
    BY <2>3, <2>4, <2>7, TopKept
  <2> QED BY <2>1, <2>3, <2>8, <2>9, <2>10 DEF State
<1> QED BY <1>1, <1>3

\* The keys K keep their lengths.
Agree(K, f, g) == \A k \in K : g[k] = f[k]

\* storage_push of a string
LEMMA PushStrFacts ==
  ASSUME NEW m, NEW C, NEW K, NEW f, State(m, C, K, f), StrsSlot \in K, NEW num \in Nat,
         f[StrsSlot] = num * 4, Small((num + 1) * 4), NEW len, Small(len),
         NEW x, x = -(num + 1),
         NEW g, Agree(K \ {StrsSlot}, f, g), g[StrsSlot] = (num + 1) * 4, g[x] = len,
         NEW p, p = Push(m, StrsSlot, PtrSize), p.ok,
         NEW r, r = StoreNew(p.mem, p.res, len, ElemMark(num)), r.ok
  PROVE  \E C2 : State(r.mem, C2, K \union {x}, g)
<1> DEFINE size == (num + 1) * 4
           y == Resize(m, StrsSlot, size)
<1>1. size \in Nat /\ x \in Int /\ x < 0 /\ -x - 1 = num /\ 4 * (-x) <= size /\ size = num * 4 + 4
      /\ 0 - x = num + 1
  OBVIOUS
<1>2. p = IF y.ok THEN Done(y.mem, y.res + num * 4) ELSE y
  <2>1. DataLength(m, Get(m, StrsSlot)) = num * 4
    BY StrsFacts
  <2> DEFINE n4 == num * 4
  <2>2. size = n4 + 4
    BY <1>1
  <2> HIDE DEF size, n4
  <2> QED BY <2>1, <2>2 DEF Push, PtrSize, AndThen, n4
<1>3. y.ok /\ p.mem = y.mem /\ p.res = y.res + num * 4
  BY <1>2 DEF Done
<1>4. \A k \in K : k \in Int /\ (k < 0 => 4 * (-k) <= num * 4)
  BY KeyFacts, StateKey DEF Usable
<1>5. Fits(K, size)
  BY <1>1, <1>4 DEF Fits
<1>6. x \notin K
  BY <1>1, <1>4
<1>7. Changes(K, f, g, StrsSlot)
  BY <1>1 DEF Changes, Agree
<1> DEFINE m1 == y.mem
<1>8. (\E C1 : State(m1, C1, K, g)) /\ y.res = m1[StrsSlot]
  <2> HIDE DEF size
  <2>1. g[StrsSlot] = size /\ Small(size)
    BY DEF size
  <2> QED BY <1>3, <1>5, <1>7, <2>1, StrsResize
<1>9. PICK C1 : State(m1, C1, K, g)
  BY <1>8
<1>10. p.res = SlotOf(m1, x)
  BY <1>1, <1>3, <1>8 DEF SlotOf
<1>11. ElemMark(num) = MarkOf(x, 0)
  BY <1>1 DEF MarkOf
<1>12. Usable(K, g, x)
  BY <1>1 DEF Usable, Keys
<1>13. Changes(K, g, g, x)
  BY RoundFacts DEF Changes
<1>14. x # StrsSlot /\ x # IntsSlot
  BY <1>1, KeyFacts
<1>15. r = StoreNew(m1, SlotOf(m1, x), len, ElemMark(num))
  BY <1>3, <1>10
<1> HIDE DEF m1
<1> QED BY <1>6, <1>9, <1>11, <1>12, <1>13, <1>14, <1>15, StoreNewKey

\* storage_pop of a string
LEMMA PopStrFacts ==
  ASSUME NEW m, NEW C, NEW K, NEW f, State(m, C, K, f), StrsSlot \in K, NEW num \in Nat, num # 0,
         f[StrsSlot] = num * 4, Small(num * 4), NEW x \in K, x = -num,
         NEW g, Agree(K \ {StrsSlot, x}, f, g), g[StrsSlot] = (num - 1) * 4,
         NEW m1, m1 = FreeString(m, LastElem(m, StrsSlot, PtrSize)),
         NEW r, r = Pop(m1, StrsSlot, PtrSize)
  PROVE  /\ \E C2 : State(r.mem, C2, K \ {x}, g)
         /\ num # 1 => Stays(r.mem, m)
<1> DEFINE size == (num - 1) * 4
           y == Resize(m1, StrsSlot, size)
           f1 == [k \in K |-> IF k = x THEN 0 ELSE f[k]]
           K2 == K \ {x}
<1>1. /\ size \in Nat /\ x \in Int /\ x < 0 /\ -x - 1 = num - 1 /\ num * 4 - 4 = size
      /\ size < U32 /\ size <= num * 4 /\ Small(size) /\ (size = 0 <=> num = 1)
  BY Sizes DEF Small
<1>2. Wrap(size) = size
  BY <1>1, WrapFacts
<1>3. x # StrsSlot /\ StrsSlot \in K2
  BY <1>1, KeyFacts
<1>4. LastElem(m, StrsSlot, PtrSize) = SlotOf(m, x)
  <2>1. DataLength(m, Get(m, StrsSlot)) = num * 4 /\ Get(m, StrsSlot) = m[StrsSlot]
    BY StrsFacts
  <2>2. LastElem(m, StrsSlot, PtrSize) = m[StrsSlot] + size
    BY <1>1, <1>2, <2>1 DEF LastElem, PtrSize
  <2>3. SlotOf(m, x) = m[StrsSlot] + size
    BY <1>1 DEF SlotOf
  <2> QED BY <2>2, <2>3
<1>5. Changes(K, f, f1, x) /\ f1[x] = 0
  BY DEF Changes
<1>6. (\E C1 : State(m1, C1, K, f1)) /\ m1[StrsSlot] = m[StrsSlot]
  <2> HIDE DEF f1
  <2> QED BY <1>3, <1>4, <1>5, FreeStringFacts
<1>7. PICK C1 : State(m1, C1, K, f1)
  BY <1>6
<1>8. State(m1, C1, K2, f1)
  BY <1>1, <1>5, <1>7, DropKey
<1>9. f1[StrsSlot] = num * 4
  BY <1>3
<1>10. r.mem = y.mem
  <2>1. DataLength(m1, Get(m1, StrsSlot)) = num * 4
    BY <1>3, <1>8, <1>9, StrsFacts
  <2>2. Wrap(num * 4 - 4) = size
    BY <1>1, <1>2
  <2> HIDE DEF size
  <2> QED BY <2>1, <2>2 DEF Pop, PtrSize, Done
<1>11. Fits(K2, size)
  <2> SUFFICES ASSUME NEW k \in K2, k < 0 PROVE 4 * (-k) <= size
    BY DEF Fits
  <2>1. k \in Int /\ 4 * (-k) <= num * 4 /\ k # x
    BY KeyFacts, StateKey DEF Usable
  <2> QED BY <2>1
<1>12. Changes(K2, f1, g, StrsSlot) /\ g[StrsSlot] = size
  BY <1>1 DEF Changes, Agree
<1> HIDE DEF f1, K2, size
<1>13. /\ y.ok => (\E C2 : State(y.mem, C2, K2, g)) /\ y.res = y.mem[StrsSlot]
       /\ size <= f1[StrsSlot] => y.ok /\ (size # 0 => y.mem[StrsSlot] = m1[StrsSlot])
  <2>1. y = Resize(m1, StrsSlot, size)
    OBVIOUS
  <2>2. Changes(K2, f1, g, StrsSlot)
    BY <1>12
  <2>3. g[StrsSlot] = size /\ Small(size) /\ StrsSlot \in K2
    BY <1>1, <1>3, <1>12
  <2> HIDE DEF y
  <2>4. State(m1, C1, K2, f1) /\ Fits(K2, size)
    BY <1>8, <1>11
  <2>5. y.ok => (\E C2 : State(y.mem, C2, K2, g)) /\ y.res = y.mem[StrsSlot]
    BY <2>1, <2>2, <2>3, <2>4, StrsResize
  <2>6. size <= f1[StrsSlot] => y.ok /\ (size # 0 => y.mem[StrsSlot] = m1[StrsSlot])
    BY <2>1, <2>2, <2>3, <2>4, StrsResize
  <2> QED BY <2>5, <2>6
<1> QED BY <1>1, <1>6, <1>9, <1>10, <1>13 DEF K2, Stays

\* The recursion that FreeElems is defined by: after[i] is the account after i strings.
LEMMA FreeElemsDef ==
  ASSUME NEW m, NEW off, NEW n \in Nat
  PROVE  \E after : /\ FreeElems(m, off, n) = after[n] /\ after[0] = m
                    /\ \A i \in 1 .. n : after[i] = FreeString(after[i - 1], off + (i - 1) * 4)
<1> DEFINE Is(k, f) == f = [i \in 0 .. k |-> IF i = 0 THEN m
                                             ELSE FreeString(f[i - 1], off + (i - 1) * 4)]
           Bad == {k \in Nat : ~\E f : Is(k, f)}
<1>1. Bad = {}
  <2> SUFFICES ASSUME Bad # {} PROVE FALSE
    OBVIOUS
  <2>1. Bad \subseteq Nat
    OBVIOUS
  <2>2. PICK k \in Bad : \A j \in Bad : k <= j
    BY <2>1, Smallest
  <2>3. CASE k = 0
    <3> DEFINE f == [i \in 0 .. 0 |-> m]
    <3>1. \A i \in 0 .. 0 : i = 0
      OBVIOUS
    <3>2. Is(0, f)
      BY <3>1
    <3> QED BY <2>2, <2>3, <3>2
  <2>4. CASE k # 0
    <3>1. k \in Nat /\ k - 1 \in Nat /\ k - 1 \notin Bad
      <4>1. k \in Nat /\ k - 1 \in Nat
        BY <2>1, <2>2, <2>4
      <4> HIDE DEF Bad
      <4> QED BY <2>2, <4>1
    <3>2. PICK f : Is(k - 1, f)
      BY <3>1
    <3> DEFINE g == [i \in 0 .. k |-> IF i = k THEN FreeString(f[k - 1], off + (k - 1) * 4)
                                      ELSE f[i]]
               h == [i \in 0 .. k |-> IF i = 0 THEN m
                                      ELSE FreeString(g[i - 1], off + (i - 1) * 4)]
    <3>3. \A i \in 0 .. k - 1 :
            f[i] = IF i = 0 THEN m ELSE FreeString(f[i - 1], off + (i - 1) * 4)
      BY <3>2
    <3>4. \A i \in 0 .. k : g[i] = h[i]
      <4> SUFFICES ASSUME NEW i \in 0 .. k PROVE g[i] = h[i]
        OBVIOUS
      <4>1. CASE i = k
        <5>1. k - 1 \in 0 .. k /\ k - 1 # k
          BY <3>1
        <5>2. g[k - 1] = f[k - 1]
          BY <5>1
        <5> QED BY <4>1, <5>2, <2>4
      <4>2. CASE i # k /\ i # 0
        <5>1. i - 1 \in 0 .. k /\ i - 1 # k /\ i \in 0 .. k - 1
          BY <4>2, <3>1
        <5>2. g[i - 1] = f[i - 1] /\ f[i] = FreeString(f[i - 1], off + (i - 1) * 4)
          BY <5>1, <4>2, <3>3
        <5> QED BY <5>2, <4>2
      <4>3. CASE i # k /\ i = 0
        <5>1. f[0] = m
          BY <3>1, <3>3
        <5> QED BY <5>1, <4>3
      <4> QED BY <4>1, <4>2, <4>3
    <3>5. g = h
      BY <3>4
    <3>6. Is(k, g)
      BY <3>5
    <3> HIDE DEF g
    <3> QED BY <3>6, <2>2
  <2> QED BY <2>3, <2>4
<1> DEFINE after == CHOOSE f : Is(n, f)
<1>2. \E f : Is(n, f)
  BY <1>1
<1>3. FreeElems(m, off, n) = after[n]
  BY DEF FreeElems, PtrSize
<1> HIDE DEF Is
<1>4. Is(n, after)
  BY <1>2
<1>5. 0 \in 0 .. n /\ \A i \in 1 .. n : i \in 0 .. n /\ i # 0
  OBVIOUS
<1> HIDE DEF after
<1>6. after[0] = m /\ \A i \in 1 .. n : after[i] = FreeString(after[i - 1], off + (i - 1) * 4)
  BY <1>4, <1>5 DEF Is
<1> QED BY <1>3, <1>6

\* The lengths when the first i strings of the array have been freed
LensLess(K, f, i) == [k \in K |-> IF k < 0 /\ -k <= i THEN 0 ELSE f[k]]

\* storage_free of the strings of a string[]
LEMMA FreeElemsFacts ==
  ASSUME NEW m, NEW C, NEW K, NEW f, State(m, C, K, f), StrsSlot \in K, NEW n \in Nat,
         \A i \in 1 .. n : -i \in K,
         NEW m2, m2 = FreeElems(m, m[StrsSlot], n)
  PROVE  (\E C2 : State(m2, C2, K, LensLess(K, f, n))) /\ m2[StrsSlot] = m[StrsSlot]
<1> DEFINE off == m[StrsSlot]
<1>1. PICK after : /\ m2 = after[n] /\ after[0] = m
                   /\ \A i \in 1 .. n : after[i] = FreeString(after[i - 1], off + (i - 1) * 4)
  BY FreeElemsDef
<1> DEFINE Good(i) == (\E C2 : State(after[i], C2, K, LensLess(K, f, i)))
                      /\ after[i][StrsSlot] = off
           Bad == {i \in 0 .. n : ~Good(i)}
<1>2. Good(0)
  <2>1. \A k \in K : k \in Int
    BY KeyFacts, StateKey DEF Usable
  <2>2. \A k \in K : LensLess(K, f, 0)[k] = f[k]
    BY <2>1 DEF LensLess
  <2>3. State(m, C, K, LensLess(K, f, 0))
    BY <2>2, SameLengths
  <2> QED BY <2>3, <1>1
<1>3. ASSUME NEW i \in 1 .. n, Good(i - 1) PROVE Good(i)
  <2> DEFINE ma == after[i - 1]
             mb == after[i]
             x == -i
             fa == LensLess(K, f, i - 1)
             fb == LensLess(K, f, i)
  <2>1. PICK Ca : State(ma, Ca, K, fa)
    BY <1>3
  <2>2. ma[StrsSlot] = off
    BY <1>3
  <2>3. mb = FreeString(ma, off + (i - 1) * 4)
    BY <1>1
  <2>4. x \in K /\ x < 0 /\ x # StrsSlot /\ -x - 1 = i - 1 /\ x \in Int
    BY KeyFacts
  <2>5. SlotOf(ma, x) = off + (i - 1) * 4
    BY <2>2, <2>4 DEF SlotOf
  <2>6. \A k \in K : k \in Int
    BY KeyFacts, StateKey DEF Usable
  <2>7. fb[x] = 0
    BY <2>4 DEF LensLess
  <2>8. \A k \in K \ {x} : fb[k] = fa[k]
    BY <2>4, <2>6 DEF LensLess
  <2>9. Changes(K, fa, fb, x)
    BY <2>7, <2>8 DEF Changes
  <2> HIDE DEF ma, mb, fa, fb, x, off
  <2>10. mb = FreeString(ma, SlotOf(ma, x))
    BY <2>3, <2>5
  <2>11. (\E C2 : State(mb, C2, K, fb)) /\ mb[StrsSlot] = ma[StrsSlot]
    BY <2>1, <2>4, <2>7, <2>9, <2>10, FreeStringFacts
  <2> QED BY <2>2, <2>11 DEF mb, fb
<1>4. Bad = {}
  <2> SUFFICES ASSUME Bad # {} PROVE FALSE
    OBVIOUS
  <2>1. Bad \subseteq Nat
    OBVIOUS
  <2>2. PICK k \in Bad : \A j \in Bad : k <= j
    BY <2>1, Smallest
  <2> HIDE DEF Good
  <2>3. k \in 0 .. n /\ k # 0
    BY <2>2, <1>2
  <2>4. k \in 1 .. n /\ k - 1 \in 0 .. n
    BY <2>3
  <2>5. k - 1 \notin Bad
    <3> HIDE DEF Bad
    <3> QED BY <2>2, <2>4
  <2> QED BY <2>2, <2>4, <2>5, <1>3
<1>5. Good(n)
  <2> HIDE DEF Good
  <2> QED BY <1>4
<1> QED BY <1>1, <1>5

\* One more string is stored in the array at off, unless a store failed.
ElemStored(r, off, len, i) ==
  IF r.ok THEN StoreNew(r.mem, off + (i - 1) * 4, len, ElemMark(i - 1)) ELSE r

\* The recursion that StoreElems is defined by: after[i] is the result of storing i strings.
LEMMA StoreElemsDef ==
  ASSUME NEW m, NEW off, NEW lens, NEW n \in Nat, n = Len(lens)
  PROVE  \E after : /\ StoreElems(m, off, lens) = after[n] /\ after[0] = Done(m, off)
                    /\ \A i \in 1 .. n : after[i] = ElemStored(after[i - 1], off, lens[i], i)
<1> DEFINE Is(k, f) == f = [i \in 0 .. k |-> IF i = 0 THEN Done(m, off)
                                             ELSE ElemStored(f[i - 1], off, lens[i], i)]
           Bad == {k \in Nat : ~\E f : Is(k, f)}
<1>1. Bad = {}
  <2> SUFFICES ASSUME Bad # {} PROVE FALSE
    OBVIOUS
  <2>1. Bad \subseteq Nat
    OBVIOUS
  <2>2. PICK k \in Bad : \A j \in Bad : k <= j
    BY <2>1, Smallest
  <2>3. CASE k = 0
    <3> DEFINE f == [i \in 0 .. 0 |-> Done(m, off)]
    <3>1. \A i \in 0 .. 0 : i = 0
      OBVIOUS
    <3>2. Is(0, f)
      BY <3>1
    <3> QED BY <2>2, <2>3, <3>2
  <2>4. CASE k # 0
    <3>1. k \in Nat /\ k - 1 \in Nat /\ k - 1 \notin Bad
      <4>1. k \in Nat /\ k - 1 \in Nat
        BY <2>1, <2>2, <2>4
      <4> HIDE DEF Bad
      <4> QED BY <2>2, <4>1
    <3>2. PICK f : Is(k - 1, f)
      BY <3>1
    <3> DEFINE g == [i \in 0 .. k |-> IF i = k THEN ElemStored(f[k - 1], off, lens[k], k)
                                      ELSE f[i]]
               h == [i \in 0 .. k |-> IF i = 0 THEN Done(m, off)
                                      ELSE ElemStored(g[i - 1], off, lens[i], i)]
    <3>3. \A i \in 0 .. k - 1 :
            f[i] = IF i = 0 THEN Done(m, off) ELSE ElemStored(f[i - 1], off, lens[i], i)
      BY <3>2
    <3>4. \A i \in 0 .. k : g[i] = h[i]
      <4> SUFFICES ASSUME NEW i \in 0 .. k PROVE g[i] = h[i]
        OBVIOUS
      <4>1. CASE i = k
        <5>1. k - 1 \in 0 .. k /\ k - 1 # k
          BY <3>1
        <5>2. g[k - 1] = f[k - 1]
          BY <5>1
        <5> QED BY <4>1, <5>2, <2>4
      <4>2. CASE i # k /\ i # 0
        <5>1. i - 1 \in 0 .. k /\ i - 1 # k /\ i \in 0 .. k - 1
          BY <4>2, <3>1
        <5>2. g[i - 1] = f[i - 1] /\ f[i] = ElemStored(f[i - 1], off, lens[i], i)
          BY <5>1, <4>2, <3>3
        <5> QED BY <5>2, <4>2
      <4>3. CASE i # k /\ i = 0
        <5>1. f[0] = Done(m, off)
          BY <3>1, <3>3
        <5> QED BY <5>1, <4>3
      <4> QED BY <4>1, <4>2, <4>3
    <3>5. g = h
      BY <3>4
    <3>6. Is(k, g)
      BY <3>5
    <3> HIDE DEF g
    <3> QED BY <3>6, <2>2
  <2> QED BY <2>3, <2>4
<1> DEFINE after == CHOOSE f : Is(n, f)
<1>2. \E f : Is(n, f)
  BY <1>1
<1>3. StoreElems(m, off, lens) = after[n]
  BY DEF StoreElems, PtrSize, AndThen, ElemStored
<1> HIDE DEF Is
<1>4. Is(n, after)
  BY <1>2
<1>5. 0 \in 0 .. n /\ \A i \in 1 .. n : i \in 0 .. n /\ i # 0
  OBVIOUS
<1> HIDE DEF after
<1>6. after[0] = Done(m, off) /\ \A i \in 1 .. n : after[i] = ElemStored(after[i - 1], off, lens[i], i)
  BY <1>4, <1>5 DEF Is
<1> QED BY <1>3, <1>6

\* The keys of the first n strings of the array
ElemKeys(n) == {k \in Int : k < 0 /\ -k <= n}

\* The lengths of the strings in the array
LensAre(g, lens, n) == \A i \in 1 .. n : Small(lens[i]) /\ g[-i] = lens[i]

\* storage_store of the strings of a string[]
LEMMA StoreElemsFacts ==
  ASSUME NEW m, NEW C, NEW K, NEW g, State(m, C, K, g), StrsSlot \in K, \A k \in K : ~(k < 0),
         NEW lens, NEW n \in Nat, n = Len(lens), g[StrsSlot] = n * 4,
         LensAre(g, lens, n), NEW r, r = StoreElems(m, m[StrsSlot], lens), r.ok
  PROVE  \E C2 : State(r.mem, C2, K \union ElemKeys(n), g)
<1> DEFINE off == m[StrsSlot]
<1>1. PICK after : /\ r = after[n] /\ after[0] = Done(m, off)
                   /\ \A i \in 1 .. n : after[i] = ElemStored(after[i - 1], off, lens[i], i)
  BY StoreElemsDef
<1> DEFINE Good(i) == after[i].ok => /\ \E C2 : State(after[i].mem, C2, K \union ElemKeys(i), g)
                                     /\ after[i].mem[StrsSlot] = off
           Bad == {i \in 0 .. n : ~Good(i)}
<1>2. Good(0)
  <2>1. K \union ElemKeys(0) = K
    BY DEF ElemKeys
  <2>2. after[0].mem = m
    BY <1>1 DEF Done
  <2> QED BY <2>1, <2>2
<1>3. ASSUME NEW i \in 1 .. n, Good(i - 1) PROVE Good(i)
  <2> SUFFICES ASSUME after[i].ok
               PROVE  /\ \E C2 : State(after[i].mem, C2, K \union ElemKeys(i), g)
                      /\ after[i].mem[StrsSlot] = off
    OBVIOUS
  <2> DEFINE ra == after[i - 1]
             ma == ra.mem
             rb == after[i]
             x == -i
             Ka == K \union ElemKeys(i - 1)
             len == lens[i]
             mark == ElemMark(i - 1)
  <2>1. rb = ElemStored(ra, off, len, i)
    BY <1>1
  <2>2. ra.ok /\ rb = StoreNew(ma, off + (i - 1) * 4, len, mark)
    BY <2>1 DEF ElemStored
  <2>3. PICK Ca : State(ma, Ca, Ka, g)
    BY <2>2, <1>3
  <2>4. ma[StrsSlot] = off
    BY <2>2, <1>3
  <2>5. x \in Int /\ x < 0 /\ x # StrsSlot /\ x # IntsSlot /\ -x - 1 = i - 1 /\ 4 * (-x) <= n * 4
    BY KeyFacts
  <2>6. SlotOf(ma, x) = off + (i - 1) * 4
    BY <2>4, <2>5 DEF SlotOf
  <2>7. x \notin Ka /\ Ka \union {x} = K \union ElemKeys(i)
    <3>1. x \notin K /\ x \notin ElemKeys(i - 1)
      BY <2>5 DEF ElemKeys
    <3>2. ElemKeys(i) = ElemKeys(i - 1) \union {x}
      BY <2>5 DEF ElemKeys
    <3> QED BY <3>1, <3>2
  <2>8. Usable(Ka, g, x)
    BY <2>5 DEF Usable, Keys
  <2>9. g[x] = len /\ Small(len)
    BY DEF LensAre
  <2>10. Changes(Ka, g, g, x)
    BY <2>9, RoundFacts DEF Changes
  <2>11. mark = MarkOf(x, 0)
    BY <2>5 DEF MarkOf
  <2> HIDE DEF ra, ma, rb, x, Ka, len, mark, off
  <2>12. rb = StoreNew(ma, SlotOf(ma, x), len, mark)
    BY <2>2, <2>6
  <2>13. rb.ok
    BY DEF rb
  <2>14. (\E C2 : State(rb.mem, C2, Ka \union {x}, g)) /\ Stays(rb.mem, ma)
    <3>1. x # StrsSlot /\ x # IntsSlot /\ x \notin Ka
      BY <2>5, <2>7
    <3> QED BY <3>1, <2>3, <2>8, <2>9, <2>10, <2>11, <2>12, <2>13, StoreNewKey
  <2> QED BY <2>4, <2>7, <2>14 DEF rb, Stays
<1>4. Bad = {}
  <2> SUFFICES ASSUME Bad # {} PROVE FALSE
    OBVIOUS
  <2>1. Bad \subseteq Nat
    OBVIOUS
  <2>2. PICK k \in Bad : \A j \in Bad : k <= j
    BY <2>1, Smallest
  <2> HIDE DEF Good
  <2>3. k \in 0 .. n /\ k # 0
    BY <2>2, <1>2
  <2>4. k \in 1 .. n /\ k - 1 \in 0 .. n
    BY <2>3
  <2>5. k - 1 \notin Bad
    <3> HIDE DEF Bad
    <3> QED BY <2>2, <2>4
  <2> QED BY <2>2, <2>4, <2>5, <1>3
<1>5. Good(n)
  <2> HIDE DEF Good
  <2> QED BY <1>4
<1> QED BY <1>1, <1>5

\* delete of a string[]
LEMMA DeleteStrsFacts ==
  ASSUME NEW m, NEW C, NEW K, NEW f, State(m, C, K, f), NEW num \in Nat,
         K = Base \union ElemKeys(num), f[StrsSlot] = num * 4,
         NEW g, Agree(Base \ {StrsSlot}, f, g), g[StrsSlot] = 0,
         NEW m2, m2 = Put(FreeStrs(m, StrsSlot), StrsSlot, 0)
  PROVE  \E C2 : State(m2, C2, Base, g)
<1> DEFINE off == m[StrsSlot]
           m1 == FreeElems(m, off, num)
           f1 == LensLess(K, f, num)
           r == Resize(m1, StrsSlot, 0)
<1>1. StrsSlot \in K /\ StrsSlot \in Base /\ ~(StrsSlot < 0)
  BY KeyFacts
<1>2. Get(m, StrsSlot) = off /\ DataLength(m, off) = num * 4
  BY <1>1, StrsFacts
<1>3. ArrayLength(m, StrsSlot, PtrSize) = num
  <2>1. (num * 4) \div 4 = num
    OBVIOUS
  <2> QED BY <1>2, <2>1 DEF ArrayLength, PtrSize
<1>4. FreeStrs(m, StrsSlot) = Free(m1, off)
  BY <1>2, <1>3 DEF FreeStrs
<1>5. \A i \in 1 .. num : -i \in K
  BY DEF ElemKeys
<1>6. (\E C1 : State(m1, C1, K, f1)) /\ m1[StrsSlot] = off
  BY <1>1, <1>5, FreeElemsFacts
<1>7. PICK C1 : State(m1, C1, K, f1)
  BY <1>6
<1>8. \A k \in K \ Base : k < 0 /\ f1[k] = 0
  BY DEF LensLess, ElemKeys
<1> HIDE DEF m1
<1>9. State(m1, C1, Base, f1)
  <2> HIDE DEF f1
  <2> QED BY <1>7, <1>8, DropKey
<1>10. Fits(Base, 0)
  BY KeyFacts DEF Fits
<1>11. Changes(Base, f1, g, StrsSlot)
  <2>1. \A k \in Base : ~(k < 0) /\ k \in K
    BY KeyFacts
  <2> QED BY <2>1 DEF LensLess, Changes, Agree
<1>12. Small(0)
  BY Sizes DEF Small
<1>13. r = Done(Put(Free(m1, off), StrsSlot, 0), 0)
  <2>1. Get(m1, StrsSlot) = off
    BY <1>6, KeyFacts DEF Get
  <2>2. Realloc(m1, off, 0) = Done(Free(m1, off), 0)
    BY DEF Realloc
  <2> HIDE DEF off
  <2> DEFINE z == Realloc(m1, off, 0)
  <2>3. r = IF z.ok THEN Done(Put(z.mem, StrsSlot, z.res), z.res) ELSE z
    BY <2>1 DEF Resize, AndThen
  <2>4. z.ok /\ z.mem = Free(m1, off) /\ z.res = 0
    BY <2>2 DEF Done
  <2> QED BY <2>3, <2>4
<1>14. r.ok /\ r.mem = m2
  BY <1>4, <1>13 DEF Done
<1> HIDE DEF f1, r
<1>15. r = Resize(m1, StrsSlot, 0)
  BY DEF r
<1>16. \E C2 : State(r.mem, C2, Base, g)
  BY <1>1, <1>9, <1>10, <1>11, <1>12, <1>14, <1>15, StrsResize
<1> QED BY <1>14, <1>16

\* storage_store of a string[] where there is none
LEMMA StoreStrsFacts ==
  ASSUME NEW m, NEW C, NEW f, State(m, C, Base, f), f[StrsSlot] = 0,
         NEW lens, NEW n \in Nat, n = Len(lens), Small(n * 4),
         NEW g, Agree(Base \ {StrsSlot}, f, g), g[StrsSlot] = n * 4, LensAre(g, lens, n),
         NEW r, r = StoreStrs(m, StrsSlot, lens), r.ok
  PROVE  \E C2 : State(r.mem, C2, Base \union ElemKeys(n), g)
<1> DEFINE size == n * 4
           y == Resize(m, StrsSlot, size)
           m1 == y.mem
<1>1. StrsSlot \in Base /\ size \in Nat /\ \A k \in Base : ~(k < 0)
  BY KeyFacts
<1>2. Get(m, StrsSlot) = 0 /\ DataLength(m, 0) = 0
  BY <1>1, StrsFacts
<1>3. FreeStrs(m, StrsSlot) = m
  <2>1. ArrayLength(m, StrsSlot, PtrSize) = 0
    BY <1>2 DEF ArrayLength, PtrSize
  <2>2. FreeElems(m, 0, 0) = m
    BY FreeElemsDef
  <2> QED BY <1>2, <2>1, <2>2 DEF FreeStrs, Free
<1>4. r = IF y.ok THEN StoreElems(m1, y.res, lens) ELSE y
  BY <1>3 DEF StoreStrs, AndThen, PtrSize
<1>5. y.ok /\ r = StoreElems(m1, y.res, lens)
  BY <1>4
<1>6. Fits(Base, size)
  BY <1>1 DEF Fits
<1>7. Changes(Base, f, g, StrsSlot)
  BY <1>1 DEF Changes, Agree
<1>8. g[StrsSlot] = size /\ Small(size)
  OBVIOUS
<1> HIDE DEF size, y
<1>9. y = Resize(m, StrsSlot, size)
  BY DEF y
<1>10. (\E C1 : State(y.mem, C1, Base, g)) /\ y.res = y.mem[StrsSlot]
  BY <1>1, <1>5, <1>6, <1>7, <1>8, <1>9, StrsResize
<1>11. PICK C1 : State(m1, C1, Base, g)
  BY <1>10
<1>12. r = StoreElems(m1, m1[StrsSlot], lens)
  BY <1>5, <1>10
<1> HIDE DEF m1
<1> QED BY <1>1, <1>11, <1>12, StoreElemsFacts
-----------------------------------------------------------------------------
(* The inductive invariant                                                  *)

WantOK(w) ==
  /\ w \in [str : [Strings -> Lens \union {0}], ints : 0 .. MaxInts, strs : Seq(Lens)]
  /\ Len(w.strs) <= MaxStrs

\* The keys of the variables and elements that w has, and the lengths of what they own.
KeysOf(w) == Base \union ElemKeys(Len(w.strs))

LenOf(w) ==
  [k \in Keys |-> IF k < 0 THEN w.strs[-k]
                  ELSE IF k = IntsSlot THEN w.ints * 8
                  ELSE IF k = StrsSlot THEN Len(w.strs) * 4
                  ELSE w.str[k]]

\* The account m holds what w says, and nothing else is in use.
Good(m, w) == WantOK(w) /\ \E C : State(m, C, KeysOf(w), LenOf(w))

Inv == Good(mem, want)

\* The bytes that each variable and element asks for.
LEMMA LenFacts ==
  ASSUME NEW w
  PROVE  /\ LenOf(w)[IntsSlot] = w.ints * 8 /\ LenOf(w)[StrsSlot] = Len(w.strs) * 4
         /\ \A s \in Strings : LenOf(w)[s] = w.str[s]
         /\ \A k \in Keys : k < 0 => LenOf(w)[k] = w.strs[-k]
<1>1. /\ \A k \in Base : ~(k < 0) /\ k \in Keys
      /\ IntsSlot \in Base /\ StrsSlot \in Base /\ \A s \in Strings : s \in Base
      /\ IntsSlot # StrsSlot /\ \A s \in Strings : s # IntsSlot /\ s # StrsSlot
  BY KeyFacts
<1> QED BY <1>1 DEF LenOf

\* A key is a variable or an element that the string[] has.
LEMMA KeysOfFacts ==
  ASSUME NEW w, WantOK(w), NEW k \in KeysOf(w)
  PROVE  /\ k \in Keys /\ Len(w.strs) \in Nat
         /\ ~(k < 0) => k \in Base
         /\ k < 0 => k \in Int /\ -k \in 1 .. Len(w.strs)
<1>1. Len(w.strs) \in Nat
  BY DEF WantOK
<1>2. k \in Base => k \in Keys /\ ~(k < 0)
  BY KeyFacts
<1>3. k \in ElemKeys(Len(w.strs)) => k \in Keys /\ k < 0 /\ k \in Int /\ -k \in 1 .. Len(w.strs)
  BY <1>1 DEF ElemKeys, Keys
<1> QED BY <1>1, <1>2, <1>3 DEF KeysOf

\* The lengths of strings and arrays do not overflow.
LEMMA SmallLens ==
  /\ \A len \in Lens \union {0} : Small(len)
  /\ \A n \in 0 .. MaxInts : Small(n * 8)
  /\ \A n \in 0 .. MaxStrs : Small(n * 4)
<1>1. /\ MaxInts \in Nat /\ MaxStrs \in Nat /\ Lens \subseteq Nat
      /\ \A len \in Lens : DataLen + len + 64 < U32
      /\ DataLen + 8 * MaxInts + 64 < U32 /\ DataLen + 4 * MaxStrs + 64 < U32
  BY SolanaStorageAssumption
<1> QED BY <1>1, Sizes DEF Small

\* A string variable has another length.
LEMMA StrChanges ==
  ASSUME NEW w, WantOK(w), NEW s \in Strings, NEW len \in Lens \union {0},
         NEW w2, w2 = [w EXCEPT !.str[s] = len]
  PROVE  /\ WantOK(w2) /\ KeysOf(w2) = KeysOf(w) /\ s \in KeysOf(w) /\ Small(len)
         /\ Changes(KeysOf(w), LenOf(w), LenOf(w2), s) /\ LenOf(w2)[s] = len
<1>1. w2.strs = w.strs /\ w2.ints = w.ints /\ w2.str = [w.str EXCEPT ![s] = len]
  BY DEF WantOK
<1>2. WantOK(w2)
  BY <1>1 DEF WantOK
<1>3. w2.str[s] = len /\ \A q \in Strings \ {s} : w2.str[q] = w.str[q]
  BY <1>1 DEF WantOK
<1>4. Small(len) /\ len \in Nat
  BY SmallLens, RoundFacts
<1>5. LenOf(w2)[s] = len
  BY <1>3, LenFacts
<1>6. ASSUME NEW k \in KeysOf(w) \ {s} PROVE LenOf(w2)[k] = LenOf(w)[k]
  <2>1. k \in Keys /\ (~(k < 0) => k \in Base)
    BY KeysOfFacts
  <2>2. CASE k < 0
    BY <2>1, <2>2, <1>1 DEF LenOf
  <2>3. CASE ~(k < 0)
    <3>1. k = IntsSlot \/ k = StrsSlot \/ k \in Strings \ {s}
      BY <2>1, <2>3 DEF Base
    <3>2. CASE k = IntsSlot \/ k = StrsSlot
      <4>1. k \notin Strings /\ ~(k < 0)
        BY <3>2, KeyFacts
      <4> QED BY <4>1, <3>2, <2>1, <1>1 DEF LenOf
    <3>3. CASE k \in Strings \ {s}
      <4>1. LenOf(w2)[k] = w2.str[k] /\ LenOf(w)[k] = w.str[k]
        BY <3>3, LenFacts
      <4> QED BY <4>1, <3>3, <1>3
    <3> QED BY <3>1, <3>2, <3>3
  <2> QED BY <2>2, <2>3
<1>7. KeysOf(w2) = KeysOf(w) /\ s \in KeysOf(w)
  BY <1>1, KeyFacts DEF KeysOf
<1> QED BY <1>2, <1>4, <1>5, <1>6, <1>7 DEF Changes

\* The uint64[] has another length.
LEMMA IntsChanges ==
  ASSUME NEW w, WantOK(w), NEW n \in 0 .. MaxInts, NEW w2, w2 = [w EXCEPT !.ints = n]
  PROVE  /\ WantOK(w2) /\ KeysOf(w2) = KeysOf(w) /\ IntsSlot \in KeysOf(w) /\ Small(n * 8)
         /\ n \in Nat /\ Changes(KeysOf(w), LenOf(w), LenOf(w2), IntsSlot)
         /\ LenOf(w2)[IntsSlot] = n * 8
<1>1. w2.strs = w.strs /\ w2.ints = n /\ w2.str = w.str
  BY DEF WantOK
<1>2. WantOK(w2)
  BY <1>1 DEF WantOK
<1>3. Small(n * 8) /\ n \in Nat
  BY SmallLens
<1>4. LenOf(w2)[IntsSlot] = n * 8
  BY <1>1, LenFacts
<1>5. ASSUME NEW k \in KeysOf(w) \ {IntsSlot} PROVE LenOf(w2)[k] = LenOf(w)[k]
  <2>1. k \in Keys
    BY KeysOfFacts
  <2> QED BY <2>1, <1>1 DEF LenOf
<1>6. KeysOf(w2) = KeysOf(w) /\ IntsSlot \in KeysOf(w)
  BY <1>1, KeyFacts DEF KeysOf
<1> QED BY <1>2, <1>3, <1>4, <1>5, <1>6 DEF Changes

\* What is stored is the same, but for the string[], which is t, of length n.
StrsUpdate(w, w2, t, n) ==
  /\ WantOK(w2) /\ KeysOf(w2) = Base \union ElemKeys(n) /\ StrsSlot \in KeysOf(w)
  /\ Small(n * 4) /\ LenOf(w2)[StrsSlot] = n * 4
  /\ Agree(Base \ {StrsSlot}, LenOf(w), LenOf(w2))
  /\ \A k \in Keys : k < 0 => LenOf(w2)[k] = t[-k]

\* What a new value of the string[] asks for.
LEMMA StrsChanges ==
  ASSUME NEW w, WantOK(w), NEW t \in Seq(Lens), NEW n, n = Len(t), n <= MaxStrs,
         NEW w2, w2 = [w EXCEPT !.strs = t]
  PROVE  StrsUpdate(w, w2, t, n)
<1>1. w2.strs = t /\ w2.ints = w.ints /\ w2.str = w.str
  BY DEF WantOK
<1>2. WantOK(w2)
  BY <1>1 DEF WantOK
<1>3. Len(t) \in Nat /\ Len(t) \in 0 .. MaxStrs
  BY SolanaStorageAssumption
<1>4. Small(Len(t) * 4)
  BY <1>3, SmallLens
<1>5. \A k \in Base \ {StrsSlot} : LenOf(w2)[k] = LenOf(w)[k]
  <2>1. \A k \in Base : k \in Keys /\ ~(k < 0)
    BY KeyFacts
  <2> QED BY <2>1, <1>1 DEF LenOf
<1>6. KeysOf(w2) = Base \union ElemKeys(Len(t)) /\ StrsSlot \in KeysOf(w)
  BY <1>1, KeyFacts DEF KeysOf
<1>7. LenOf(w2)[StrsSlot] = Len(t) * 4 /\ \A k \in Keys : k < 0 => LenOf(w2)[k] = t[-k]
  <2>1. LenOf(w2)[StrsSlot] = Len(w2.strs) * 4
    BY LenFacts
  <2>2. \A k \in Keys : k < 0 => LenOf(w2)[k] = w2.strs[-k]
    BY LenFacts
  <2> QED BY <2>1, <2>2, <1>1
<1> QED BY <1>2, <1>3, <1>4, <1>5, <1>6, <1>7 DEF StrsUpdate, Agree
-----------------------------------------------------------------------------
(* The transactions keep it                                                 *)

\* s = "..."
LEMMA AssignStringGood ==
  ASSUME NEW m, NEW w, Good(m, w), NEW s \in Strings, NEW len \in Lens,
         NEW w2, w2 = [w EXCEPT !.str[s] = len],
         NEW r, r = StoreString(m, s, len, StrMark(s)), r.ok
  PROVE  Good(r.mem, w2)
<1> DEFINE K == KeysOf(w)
           f == LenOf(w)
           g == LenOf(w2)
<1>1. PICK C : State(m, C, K, f)
  BY DEF Good
<1>2. WantOK(w) /\ len \in Lens \union {0}
  BY DEF Good
<1>3. WantOK(w2) /\ KeysOf(w2) = K /\ s \in K /\ Small(len) /\ Changes(K, f, g, s) /\ g[s] = len
  BY <1>2, StrChanges
<1>4. s # StrsSlot /\ s # IntsSlot /\ ~(s < 0)
  BY KeyFacts
<1>5. SlotOf(m, s) = s /\ StrMark(s) = MarkOf(s, 0)
  BY <1>4 DEF SlotOf, MarkOf
<1> HIDE DEF K, f, g
<1>6. r = StoreString(m, SlotOf(m, s), len, StrMark(s))
  BY <1>5
<1>7. \E C2 : State(r.mem, C2, K, g)
  BY <1>1, <1>3, <1>4, <1>5, <1>6, StoreStringKey
<1> QED BY <1>3, <1>7 DEF Good, K, g

\* delete s
LEMMA DeleteStringGood ==
  ASSUME NEW m, NEW w, Good(m, w), NEW s \in Strings, NEW w2, w2 = [w EXCEPT !.str[s] = 0],
         NEW m2, m2 = FreeString(m, s)
  PROVE  Good(m2, w2)
<1> DEFINE K == KeysOf(w)
           f == LenOf(w)
           g == LenOf(w2)
<1>1. PICK C : State(m, C, K, f)
  BY DEF Good
<1>2. WantOK(w) /\ 0 \in Lens \union {0}
  BY DEF Good
<1>3. WantOK(w2) /\ KeysOf(w2) = K /\ s \in K /\ Changes(K, f, g, s) /\ g[s] = 0
  BY <1>2, StrChanges
<1>4. s # StrsSlot /\ ~(s < 0)
  BY KeyFacts
<1>5. SlotOf(m, s) = s
  BY <1>4 DEF SlotOf
<1> HIDE DEF K, f, g
<1>6. m2 = FreeString(m, SlotOf(m, s))
  BY <1>5
<1>7. \E C2 : State(m2, C2, K, g)
  BY <1>1, <1>3, <1>4, <1>6, FreeStringFacts
<1> QED BY <1>3, <1>7 DEF Good, K, g

\* ints.push(x)
LEMMA PushIntGood ==
  ASSUME NEW m, NEW w, Good(m, w), w.ints < MaxInts, NEW w2, w2 = [w EXCEPT !.ints = w.ints + 1],
         NEW p, p = Push(m, IntsSlot, IntSize), p.ok,
         NEW m3, m3 = Fill(p.mem, p.res, IntSize, IntMark(w.ints))
  PROVE  Good(m3, w2) /\ m3[StrsSlot] = m[StrsSlot]
<1> DEFINE K == KeysOf(w)
           f == LenOf(w)
           g == LenOf(w2)
           num == w.ints
<1>1. PICK C : State(m, C, K, f)
  BY DEF Good
<1>2. WantOK(w) /\ num \in Nat /\ num + 1 \in 0 .. MaxInts
  BY SolanaStorageAssumption DEF Good, WantOK
<1>3. /\ WantOK(w2) /\ KeysOf(w2) = K /\ IntsSlot \in K /\ Changes(K, f, g, IntsSlot)
      /\ Small((num + 1) * 8) /\ g[IntsSlot] = (num + 1) * 8
  BY <1>2, IntsChanges
<1>4. f[IntsSlot] = num * 8
  BY LenFacts
<1> HIDE DEF K, f, g, num
<1>5. m3 = Fill(p.mem, p.res, IntSize, IntMark(num))
  BY DEF num
<1>6. (\E C2 : State(m3, C2, K, g)) /\ m3[StrsSlot] = m[StrsSlot]
  BY <1>1, <1>2, <1>3, <1>4, <1>5, PushIntsFacts
<1> QED BY <1>3, <1>6 DEF Good, K, g

\* ints.pop()
LEMMA PopIntGood ==
  ASSUME NEW m, NEW w, Good(m, w), w.ints # 0, NEW w2, w2 = [w EXCEPT !.ints = w.ints - 1],
         NEW r, r = Pop(m, IntsSlot, IntSize)
  PROVE  /\ Good(r.mem, w2) /\ r.mem[StrsSlot] = m[StrsSlot]
         /\ w.ints # 1 => r.mem[IntsSlot] = m[IntsSlot]
<1> DEFINE K == KeysOf(w)
           f == LenOf(w)
           g == LenOf(w2)
           num == w.ints
<1>1. PICK C : State(m, C, K, f)
  BY DEF Good
<1>2. WantOK(w) /\ num \in Nat /\ num - 1 \in 0 .. MaxInts /\ num \in 0 .. MaxInts
  BY SolanaStorageAssumption DEF Good, WantOK
<1>3. /\ WantOK(w2) /\ KeysOf(w2) = K /\ IntsSlot \in K /\ Changes(K, f, g, IntsSlot)
      /\ g[IntsSlot] = (num - 1) * 8
  BY <1>2, IntsChanges
<1>4. f[IntsSlot] = num * 8 /\ Small(num * 8)
  BY <1>2, LenFacts, SmallLens
<1>5. num # 0
  OBVIOUS
<1> DEFINE m2 == r.mem
<1> HIDE DEF K, f, g, num
<1>6. /\ \E C2 : State(m2, C2, K, g)
      /\ num # 1 => m2[IntsSlot] = m[IntsSlot]
      /\ m2[StrsSlot] = m[StrsSlot]
  BY <1>1, <1>2, <1>3, <1>4, <1>5, PopIntsFacts
<1> QED BY <1>3, <1>6 DEF Good, K, g, num

\* ints = new uint64[](n)
LEMMA AssignIntsGood ==
  ASSUME NEW m, NEW w, Good(m, w), NEW n \in 0 .. MaxInts, NEW w2, w2 = [w EXCEPT !.ints = n],
         NEW r, r = StoreInts(m, IntsSlot, n), r.ok
  PROVE  /\ Good(r.mem, w2) /\ r.mem[StrsSlot] = m[StrsSlot]
         /\ n # 0 /\ n <= w.ints => r.mem[IntsSlot] = m[IntsSlot]
<1> DEFINE K == KeysOf(w)
           f == LenOf(w)
           g == LenOf(w2)
<1>1. PICK C : State(m, C, K, f)
  BY DEF Good
<1>2. WantOK(w) /\ w.ints \in Nat
  BY SolanaStorageAssumption DEF Good, WantOK
<1>3. /\ WantOK(w2) /\ KeysOf(w2) = K /\ IntsSlot \in K /\ Changes(K, f, g, IntsSlot)
      /\ Small(n * 8) /\ g[IntsSlot] = n * 8 /\ n \in Nat
  BY <1>2, IntsChanges
<1>4. f[IntsSlot] = w.ints * 8
  BY LenFacts
<1> DEFINE m2 == r.mem
<1> HIDE DEF K, f, g
<1>5. /\ r.ok => (\E C2 : State(m2, C2, K, g)) /\ m2[StrsSlot] = m[StrsSlot]
      /\ n * 8 <= f[IntsSlot] /\ n # 0 => m2[IntsSlot] = m[IntsSlot]
  BY <1>1, <1>3, StoreIntsFacts
<1>6. n <= w.ints => n * 8 <= f[IntsSlot]
  BY <1>2, <1>3, <1>4
<1> QED BY <1>3, <1>5, <1>6 DEF Good, K, g

\* delete ints
LEMMA DeleteIntsGood ==
  ASSUME NEW m, NEW w, Good(m, w), NEW w2, w2 = [w EXCEPT !.ints = 0],
         NEW m2, m2 = FreeInts(m, IntsSlot)
  PROVE  Good(m2, w2) /\ m2[StrsSlot] = m[StrsSlot]
<1> DEFINE K == KeysOf(w)
           f == LenOf(w)
           g == LenOf(w2)
<1>1. PICK C : State(m, C, K, f)
  BY DEF Good
<1>2. WantOK(w) /\ 0 \in 0 .. MaxInts
  BY SolanaStorageAssumption DEF Good
<1>3. /\ WantOK(w2) /\ KeysOf(w2) = K /\ IntsSlot \in K /\ Changes(K, f, g, IntsSlot)
      /\ g[IntsSlot] = 0 * 8
  BY <1>2, IntsChanges
<1>4. g[IntsSlot] = 0
  BY <1>3
<1> HIDE DEF K, f, g
<1>5. (\E C2 : State(m2, C2, K, g)) /\ m2[StrsSlot] = m[StrsSlot]
  BY <1>1, <1>3, <1>4, FreeIntsFacts
<1> QED BY <1>3, <1>5 DEF Good, K, g

\* strs.push("...")
LEMMA PushStrGood ==
  ASSUME NEW m, NEW w, Good(m, w), Len(w.strs) < MaxStrs, NEW len \in Lens,
         NEW w2, w2 = [w EXCEPT !.strs = Append(w.strs, len)],
         NEW p, p = Push(m, StrsSlot, PtrSize), p.ok,
         NEW r, r = StoreNew(p.mem, p.res, len, ElemMark(Len(w.strs))), r.ok
  PROVE  Good(r.mem, w2)
<1> DEFINE K == KeysOf(w)
           f == LenOf(w)
           g == LenOf(w2)
           num == Len(w.strs)
           t == Append(w.strs, len)
           x == -(num + 1)
<1>1. PICK C : State(m, C, K, f)
  BY DEF Good
<1>2. WantOK(w) /\ num \in Nat /\ w.strs \in Seq(Lens)
  BY DEF Good, WantOK
<1>3. t \in Seq(Lens) /\ Len(t) = num + 1 /\ t[num + 1] = len /\ \A i \in 1 .. num : t[i] = w.strs[i]
  BY <1>2
<1>4. Len(t) <= MaxStrs
  BY <1>2, <1>3, SolanaStorageAssumption
<1> HIDE DEF t
<1>5. w2 = [w EXCEPT !.strs = t]
  BY DEF t
<1>6. /\ WantOK(w2) /\ KeysOf(w2) = Base \union ElemKeys(num + 1) /\ StrsSlot \in K
      /\ Small((num + 1) * 4) /\ g[StrsSlot] = (num + 1) * 4
      /\ Agree(Base \ {StrsSlot}, f, g)
      /\ \A k \in Keys : k < 0 => g[k] = t[-k]
  <2>1. StrsUpdate(w, w2, t, num + 1)
    BY <1>2, <1>3, <1>4, <1>5, StrsChanges
  <2> QED BY <2>1 DEF StrsUpdate
<1>7. f[StrsSlot] = num * 4 /\ \A k \in Keys : k < 0 => f[k] = w.strs[-k]
  BY LenFacts
<1>8. x \in Keys /\ x < 0 /\ -x = num + 1
  BY <1>2 DEF Keys
<1>9. g[x] = len
  BY <1>3, <1>6, <1>8
<1>10. Agree(K \ {StrsSlot}, f, g)
  <2> SUFFICES ASSUME NEW k \in K \ {StrsSlot} PROVE g[k] = f[k]
    BY DEF Agree
  <2>1. k \in Keys /\ (~(k < 0) => k \in Base) /\ (k < 0 => -k \in 1 .. num)
    BY <1>2, KeysOfFacts
  <2> HIDE DEF f, g, num
  <2> QED BY <2>1, <1>3, <1>6, <1>7 DEF Agree
<1>11. KeysOf(w2) = K \union {x}
  <2>1. ElemKeys(num + 1) = ElemKeys(num) \union {x}
    BY <1>2 DEF ElemKeys
  <2> QED BY <2>1, <1>6 DEF KeysOf
<1>12. Small(len)
  BY SmallLens
<1> HIDE DEF K, f, g, num, x
<1>13. x = -(num + 1) /\ r = StoreNew(p.mem, p.res, len, ElemMark(num))
  BY DEF x, num
<1>14. \E C2 : State(r.mem, C2, K \union {x}, g)
  <2>1. StrsSlot \in K /\ num \in Nat /\ f[StrsSlot] = num * 4 /\ Small((num + 1) * 4)
    BY <1>2, <1>6, <1>7
  <2>2. g[StrsSlot] = (num + 1) * 4
    BY <1>6
  <2> QED BY <2>1, <2>2, <1>1, <1>9, <1>10, <1>12, <1>13, PushStrFacts
<1> QED BY <1>6, <1>11, <1>14 DEF Good, g

\* strs.pop()
LEMMA PopStrGood ==
  ASSUME NEW m, NEW w, Good(m, w), Len(w.strs) # 0,
         NEW w2, w2 = [w EXCEPT !.strs = SubSeq(w.strs, 1, Len(w.strs) - 1)],
         NEW r, r = Pop(FreeString(m, LastElem(m, StrsSlot, PtrSize)), StrsSlot, PtrSize)
  PROVE  Good(r.mem, w2) /\ (Len(w.strs) # 1 => r.mem[StrsSlot] = m[StrsSlot])
<1> DEFINE K == KeysOf(w)
           f == LenOf(w)
           g == LenOf(w2)
           num == Len(w.strs)
           t == SubSeq(w.strs, 1, num - 1)
           x == -num
           m1 == FreeString(m, LastElem(m, StrsSlot, PtrSize))
<1>1. PICK C : State(m, C, K, f)
  BY DEF Good
<1>2. WantOK(w) /\ num \in Nat /\ num \in 0 .. MaxStrs /\ w.strs \in Seq(Lens)
  BY SolanaStorageAssumption DEF Good, WantOK
<1>3. t \in Seq(Lens) /\ Len(t) = num - 1 /\ \A i \in 1 .. num - 1 : t[i] = w.strs[i]
  BY <1>2
<1>4. Len(t) <= MaxStrs
  BY <1>2, <1>3, SolanaStorageAssumption
<1> HIDE DEF t
<1>5. w2 = [w EXCEPT !.strs = t]
  BY DEF t
<1>6. /\ WantOK(w2) /\ KeysOf(w2) = Base \union ElemKeys(num - 1) /\ StrsSlot \in K
      /\ g[StrsSlot] = (num - 1) * 4
      /\ Agree(Base \ {StrsSlot}, f, g)
      /\ \A k \in Keys : k < 0 => g[k] = t[-k]
  <2>1. StrsUpdate(w, w2, t, num - 1)
    BY <1>2, <1>3, <1>4, <1>5, StrsChanges
  <2> QED BY <2>1 DEF StrsUpdate
<1>7. f[StrsSlot] = num * 4 /\ \A k \in Keys : k < 0 => f[k] = w.strs[-k]
  BY LenFacts
<1>8. Small(num * 4)
  BY <1>2, SmallLens
<1>9. x \in K
  BY <1>2 DEF KeysOf, ElemKeys
<1>10. Agree(K \ {StrsSlot, x}, f, g)
  <2> SUFFICES ASSUME NEW k \in K \ {StrsSlot, x} PROVE g[k] = f[k]
    BY DEF Agree
  <2>1. k \in Keys /\ (~(k < 0) => k \in Base) /\ (k < 0 => k \in Int /\ -k \in 1 .. num)
    BY <1>2, KeysOfFacts
  <2>2. k < 0 => -k \in 1 .. num - 1
    BY <2>1, <1>2
  <2> HIDE DEF f, g, num
  <2> QED BY <2>1, <2>2, <1>3, <1>6, <1>7 DEF Agree
<1>11. KeysOf(w2) = K \ {x}
  <2>1. ElemKeys(num - 1) = ElemKeys(num) \ {x}
    BY <1>2 DEF ElemKeys
  <2>2. x \notin Base
    BY <1>2, KeyFacts
  <2> QED BY <2>1, <2>2, <1>6 DEF KeysOf
<1>12. num # 0
  OBVIOUS
<1> DEFINE m2 == r.mem
<1> HIDE DEF K, f, g, num, x, m1
<1>13. x = -num /\ r = Pop(m1, StrsSlot, PtrSize) /\ m1 = FreeString(m, LastElem(m, StrsSlot, PtrSize))
  BY DEF x, m1
<1>14. /\ \E C2 : State(m2, C2, K \ {x}, g)
       /\ num # 1 => Stays(m2, m)
  <2>1. StrsSlot \in K /\ num \in Nat /\ f[StrsSlot] = num * 4 /\ num # 0
    BY <1>2, <1>6, <1>7, <1>12
  <2>2. g[StrsSlot] = (num - 1) * 4
    BY <1>6
  <2> QED BY <2>1, <2>2, <1>1, <1>8, <1>9, <1>10, <1>13, PopStrFacts
<1> QED BY <1>6, <1>11, <1>14 DEF Good, g, num, Stays

\* strs[i] = "..."
LEMMA AssignElemGood ==
  ASSUME NEW m, NEW w, Good(m, w), NEW i \in DOMAIN w.strs, NEW len \in Lens,
         NEW w2, w2 = [w EXCEPT !.strs[i] = len],
         NEW r, r = StoreString(m, Get(m, StrsSlot) + (i - 1) * PtrSize, len, ElemMark(i - 1)), r.ok
  PROVE  Good(r.mem, w2)
<1> DEFINE K == KeysOf(w)
           f == LenOf(w)
           g == LenOf(w2)
           num == Len(w.strs)
           t == [w.strs EXCEPT ![i] = len]
           x == -i
           mark == ElemMark(i - 1)
<1>1. PICK C : State(m, C, K, f)
  BY DEF Good
<1>2. /\ WantOK(w) /\ num \in Nat /\ num <= MaxStrs /\ w.strs \in Seq(Lens)
      /\ i \in 1 .. num /\ i \in Nat
  BY DEF Good, WantOK
<1>3. t \in Seq(Lens) /\ Len(t) = num /\ t[i] = len /\ \A j \in 1 .. num : j # i => t[j] = w.strs[j]
  BY <1>2
<1> HIDE DEF t
<1>4. w2 = [w EXCEPT !.strs = t]
  BY <1>2 DEF t, WantOK
<1>5. /\ WantOK(w2) /\ KeysOf(w2) = K /\ StrsSlot \in K
      /\ g[StrsSlot] = num * 4
      /\ Agree(Base \ {StrsSlot}, f, g)
      /\ \A k \in Keys : k < 0 => g[k] = t[-k]
  <2>1. StrsUpdate(w, w2, t, num)
    BY <1>2, <1>3, <1>4, StrsChanges
  <2> QED BY <2>1 DEF StrsUpdate, KeysOf
<1>6. f[StrsSlot] = num * 4 /\ \A k \in Keys : k < 0 => f[k] = w.strs[-k]
  BY LenFacts
<1>7. x \in K /\ x \in Keys /\ x < 0 /\ -x = i /\ -x - 1 = i - 1
  BY <1>2 DEF KeysOf, ElemKeys, Keys
<1>8. g[x] = len /\ Small(len) /\ len \in Nat
  BY <1>3, <1>5, <1>7, SmallLens, RoundFacts
<1>9. \A k \in K \ {x} : g[k] = f[k]
  <2> SUFFICES ASSUME NEW k \in K \ {x} PROVE g[k] = f[k]
    OBVIOUS
  <2>1. k \in Keys /\ (~(k < 0) => k \in Base) /\ (k < 0 => k \in Int /\ -k \in 1 .. num)
    BY <1>2, KeysOfFacts
  <2>2. k < 0 => -k # i
    BY <2>1, <1>2
  <2> HIDE DEF f, g, num
  <2> QED BY <2>1, <2>2, <1>3, <1>5, <1>6 DEF Agree
<1>10. Changes(K, f, g, x)
  BY <1>8, <1>9 DEF Changes
<1>11. x # StrsSlot /\ x # IntsSlot
  BY <1>7, KeyFacts
<1>12. mark = MarkOf(x, 0)
  BY <1>7 DEF MarkOf
<1>13. r = StoreString(m, SlotOf(m, x), len, mark)
  <2>1. Get(m, StrsSlot) = m[StrsSlot]
    BY <1>1, <1>5, StrsFacts
  <2>2. SlotOf(m, x) = m[StrsSlot] + (i - 1) * 4
    BY <1>7 DEF SlotOf
  <2> QED BY <2>1, <2>2 DEF PtrSize
<1> HIDE DEF K, f, g, num, x, mark
<1>14. \E C2 : State(r.mem, C2, K, g)
  BY <1>1, <1>7, <1>8, <1>10, <1>11, <1>12, <1>13, StoreStringKey
<1> QED BY <1>5, <1>14 DEF Good, g, K

\* strs = [...]
LEMMA AssignStrsGood ==
  ASSUME NEW m, NEW w, Good(m, w), w.strs = <<>>, NEW n \in 0 .. MaxStrs, NEW t \in [1 .. n -> Lens],
         NEW w2, w2 = [w EXCEPT !.strs = t], NEW r, r = StoreStrs(m, StrsSlot, t), r.ok
  PROVE  Good(r.mem, w2)
<1> DEFINE f == LenOf(w)
           g == LenOf(w2)
<1>1. WantOK(w) /\ KeysOf(w) = Base
  BY DEF Good, WantOK, KeysOf, ElemKeys
<1>2. PICK C : State(m, C, Base, f)
  BY <1>1 DEF Good
<1>3. t \in Seq(Lens) /\ Len(t) = n /\ n \in Nat /\ n <= MaxStrs
  BY SolanaStorageAssumption
<1>4. /\ WantOK(w2) /\ KeysOf(w2) = Base \union ElemKeys(n) /\ g[StrsSlot] = n * 4
      /\ Agree(Base \ {StrsSlot}, f, g)
      /\ \A k \in Keys : k < 0 => g[k] = t[-k]
  <2>1. StrsUpdate(w, w2, t, n)
    BY <1>1, <1>3, StrsChanges
  <2> QED BY <2>1 DEF StrsUpdate
<1>5. f[StrsSlot] = 0
  BY LenFacts
<1>6. Small(n * 4)
  BY SmallLens
<1>7. LensAre(g, t, n)
  <2> SUFFICES ASSUME NEW i \in 1 .. n PROVE Small(t[i]) /\ g[-i] = t[i]
    BY DEF LensAre
  <2>1. -i \in Keys /\ -i < 0 /\ -(-i) = i
    BY <1>3 DEF Keys
  <2>2. t[i] \in Lens
    OBVIOUS
  <2> QED BY <2>1, <2>2, <1>4, SmallLens
<1> HIDE DEF f, g
<1>8. \E C2 : State(r.mem, C2, Base \union ElemKeys(n), g)
  BY <1>2, <1>3, <1>4, <1>5, <1>6, <1>7, StoreStrsFacts
<1> QED BY <1>4, <1>8 DEF Good, g

\* delete strs
LEMMA DeleteStrsGood ==
  ASSUME NEW m, NEW w, Good(m, w), NEW w2, w2 = [w EXCEPT !.strs = <<>>],
         NEW m2, m2 = Put(FreeStrs(m, StrsSlot), StrsSlot, 0)
  PROVE  Good(m2, w2)
<1> DEFINE K == KeysOf(w)
           f == LenOf(w)
           g == LenOf(w2)
           num == Len(w.strs)
<1>1. PICK C : State(m, C, K, f)
  BY DEF Good
<1>2. WantOK(w) /\ num \in Nat /\ K = Base \union ElemKeys(num)
  BY DEF Good, WantOK, KeysOf
<1>3. <<>> \in Seq(Lens) /\ Len(<<>>) = 0 /\ 0 <= MaxStrs
  BY SolanaStorageAssumption
<1>4. /\ WantOK(w2) /\ KeysOf(w2) = Base \union ElemKeys(0) /\ g[StrsSlot] = 0
      /\ Agree(Base \ {StrsSlot}, f, g)
  <2>1. StrsUpdate(w, w2, <<>>, 0)
    BY <1>2, <1>3, StrsChanges
  <2> QED BY <2>1 DEF StrsUpdate
<1>5. KeysOf(w2) = Base
  BY <1>4 DEF ElemKeys
<1>6. f[StrsSlot] = num * 4
  BY LenFacts
<1> HIDE DEF K, f, g, num
<1>7. \E C2 : State(m2, C2, Base, g)
  BY <1>1, <1>2, <1>4, <1>6, DeleteStrsFacts
<1> QED BY <1>4, <1>5, <1>7 DEF Good, g
-----------------------------------------------------------------------------
(* The account of a new contract                                            *)

\* A new account has its header and nothing else.
LEMMA EmptyFacts ==
  /\ EmptyAccount \in Mem /\ TopOK(EmptyAccount)
  /\ \A a \in Words : 16 <= a => EmptyAccount[a] = 0
<1> DEFINE e == EmptyAccount
<1>1. \A a \in Words : a \in Nat /\ (16 <= a => a # 0 /\ a # 12)
  BY Sizes
<1>2. 0 \in Words /\ 4 \in Words /\ 8 \in Words /\ 12 \in Words
  BY Sizes DEF Words
<1>3. e = [a \in Words |-> IF a = 0 THEN 1 ELSE IF a = 12 THEN HeapOffset ELSE 0]
  BY DEF EmptyAccount
<1> HIDE DEF e
<1>4. e \in Mem
  BY <1>3, Sizes DEF Mem
<1>5. TopOK(e)
  BY <1>2, <1>3 DEF TopOK
<1>6. \A a \in Words : 16 <= a => e[a] = 0
  BY <1>1, <1>3
<1> QED BY <1>4, <1>5, <1>6 DEF e

\* The deployed contract owns no chunk and its heap is one free chunk.
LEMMA InitGood ==
  Init => Inv
<1> SUFFICES ASSUME Init PROVE Good(mem, want)
  BY DEF Inv
<1> DEFINE C == {HeapOffset}
           K == KeysOf(want)
           f == LenOf(want)
<1>1. /\ want.strs = <<>> /\ want.ints = 0 /\ want.str = [s \in Strings |-> 0]
      /\ want \in [str : [Strings -> Lens \union {0}], ints : 0 .. MaxInts, strs : Seq(Lens)]
  BY SolanaStorageAssumption DEF Init
<1>2. WantOK(want) /\ K = Base
  BY <1>1, SolanaStorageAssumption DEF WantOK, KeysOf, ElemKeys
<1>3. mem \in Mem /\ TopOK(mem) /\ \A a \in Words : 16 <= a => mem[a] = 0
  BY EmptyFacts DEF Init
<1>4. Place(HeapOffset)
  BY Sizes DEF Place
<1>5. /\ OffsetNext(mem, HeapOffset) = 0 /\ OffsetPrev(mem, HeapOffset) = 0
      /\ Length(mem, HeapOffset) = 0 /\ ~Allocated(mem, HeapOffset)
  <2>1. /\ HeapOffset \in Words /\ HeapOffset + 4 \in Words /\ HeapOffset + 8 \in Words
        /\ HeapOffset + 12 \in Words
    BY <1>4, PlaceWords
  <2> QED BY <2>1, <1>3, Sizes DEF OffsetNext, OffsetPrev, Length, Allocated, Get
<1>6. Heap(mem, C)
  BY <1>4, <1>5, Sizes DEF Heap, Chain, NextOK, PrevOK, NoFree
<1>7. Live(mem, C) = {}
  BY <1>5 DEF Live
<1>8. \A k \in K : k \in Keys /\ f[k] = 0 /\ ~(k < 0) /\ Ptr(mem, k) = 0
  <2> SUFFICES ASSUME NEW k \in Base PROVE k \in Keys /\ f[k] = 0 /\ ~(k < 0) /\ Ptr(mem, k) = 0
    BY <1>2
  <2>1. k \in Keys /\ ~(k < 0) /\ k \in Words /\ 16 <= k
    BY KeyFacts
  <2>2. Ptr(mem, k) = 0
    BY <2>1, <1>3 DEF Ptr, SlotOf, Get
  <2>3. f[k] = 0
    <3>1. k \in Strings => want.str[k] = 0
      BY <1>1
    <3> QED BY <3>1, <2>1, <1>1 DEF LenOf, Base
  <2> QED BY <2>1, <2>2, <2>3
<1>9. Own(mem, Live(mem, C), K, f)
  <2> HIDE DEF K, f
  <2>1. \A k \in K : k \in Keys /\ f[k] \in Nat /\ Holds(mem, Live(mem, C), k, f[k])
    BY <1>8 DEF Holds
  <2>2. \A j, k \in K : Ptr(mem, j) = Ptr(mem, k) /\ Ptr(mem, j) # 0 => j = k
    BY <1>8
  <2>3. \A k \in K : ~(k < 0)
    BY <1>8
  <2> QED BY <1>7, <2>1, <2>2, <2>3 DEF Own
<1> QED BY <1>2, <1>3, <1>6, <1>9 DEF Good, State
-----------------------------------------------------------------------------
(* The steps                                                                *)

\* A transaction that changes anything has succeeded.
LEMMA Committed ==
  ASSUME NEW r, NEW w, Transaction(r, w), ~UNCHANGED vars
  PROVE  r.ok /\ mem' = r.mem /\ want' = w
BY DEF Transaction, Commit, Revert

\* account_data_len of the arrays is the bytes of their elements.
LEMMA GoodArrays ==
  ASSUME NEW m, NEW w, Good(m, w)
  PROVE  /\ DataLength(m, Get(m, IntsSlot)) = w.ints * 8 /\ w.ints \in Nat
         /\ DataLength(m, Get(m, StrsSlot)) = Len(w.strs) * 4 /\ Len(w.strs) \in Nat
<1>1. PICK C : State(m, C, KeysOf(w), LenOf(w))
  BY DEF Good
<1>2. IntsSlot \in KeysOf(w) /\ StrsSlot \in KeysOf(w)
  BY KeyFacts DEF KeysOf
<1>3. w.ints \in Nat /\ Len(w.strs) \in Nat
  BY DEF Good, WantOK
<1>4. DataLength(m, Get(m, IntsSlot)) = LenOf(w)[IntsSlot]
  BY <1>1, <1>2, IntsFacts
<1>5. DataLength(m, Get(m, StrsSlot)) = LenOf(w)[StrsSlot]
  BY <1>1, <1>2, StrsFacts
<1> QED BY <1>3, <1>4, <1>5, LenFacts

\* What a step may do to the arrays: one that gets shorter stays where it is.
Shrinks ==
  /\ want'.ints \in 1 .. want.ints - 1 => mem'[IntsSlot] = mem[IntsSlot]
  /\ Len(want'.strs) \in 1 .. Len(want.strs) - 1 => mem'[StrsSlot] = mem[StrsSlot]

\* An assignment to one variable leaves the others alone.
LEMMA WantUpdates ==
  ASSUME WantOK(want)
  PROVE  /\ \A s \in Strings, len \in Lens :
              LET w == [want EXCEPT !.str[s] = len]
              IN w.ints = want.ints /\ w.strs = want.strs
         /\ \A n : LET w == [want EXCEPT !.ints = n] IN w.ints = n /\ w.strs = want.strs
         /\ \A t : LET w == [want EXCEPT !.strs = t] IN w.ints = want.ints /\ w.strs = t
         /\ want.ints \in Nat /\ Len(want.strs) \in Nat /\ want.strs \in Seq(Lens)
BY SolanaStorageAssumption DEF WantOK

\* Every transaction keeps the invariant, and an array that gets shorter
\* stays where it is.
LEMMA StepGood ==
  ASSUME ~Reassign, Inv, Next
  PROVE  Inv' /\ Shrinks
<1>1. Good(mem, want) /\ WantOK(want)
  BY DEF Inv, Good
<1>2. SUFFICES ASSUME ~UNCHANGED vars PROVE Good(mem', want') /\ Shrinks
  <2>1. CASE UNCHANGED vars
    <3>1. mem' = mem /\ want' = want
      BY <2>1 DEF vars
    <3> QED BY <3>1, <1>1 DEF Inv, Shrinks
  <2> QED BY <2>1 DEF Inv
<1>3. want.ints \in Nat /\ Len(want.strs) \in Nat /\ want.strs \in Seq(Lens)
  BY <1>1, WantUpdates
<1>4. CASE \E s \in Strings, len \in Lens : AssignString(s, len)
  <2>1. PICK s \in Strings, len \in Lens : AssignString(s, len)
    BY <1>4
  <2> DEFINE r == StoreString(mem, s, len, StrMark(s))
  <2>2. r.ok /\ mem' = r.mem /\ want' = [want EXCEPT !.str[s] = len]
    BY <2>1, <1>2, Committed DEF AssignString
  <2>3. Good(mem', want')
    BY <2>2, <1>1, AssignStringGood
  <2>4. want'.ints = want.ints /\ want'.strs = want.strs
    BY <2>2, <1>1, WantUpdates
  <2> QED BY <2>3, <2>4, <1>3 DEF Shrinks
<1>5. CASE \E s \in Strings : DeleteString(s)
  <2>1. PICK s \in Strings : DeleteString(s)
    BY <1>5
  <2>2. mem' = FreeString(mem, s) /\ want' = [want EXCEPT !.str[s] = 0]
    BY <2>1, <1>2, Committed DEF DeleteString, Done
  <2>3. Good(mem', want')
    BY <2>2, <1>1, DeleteStringGood
  <2>4. want'.ints = want.ints /\ want'.strs = want.strs
    BY <2>2, <1>1, WantUpdates
  <2> QED BY <2>3, <2>4, <1>3 DEF Shrinks
<1>6. CASE PushInt
  <2> DEFINE p == Push(mem, IntsSlot, IntSize)
             m3 == Fill(p.mem, p.res, IntSize, IntMark(want.ints))
             r == IF p.ok THEN Done(m3, p.res) ELSE p
             w == [want EXCEPT !.ints = want.ints + 1]
  <2>1. want.ints < MaxInts /\ Transaction(r, w)
    BY <1>6 DEF PushInt, AndThen
  <2>2. r.ok /\ mem' = r.mem /\ want' = w
    BY <2>1, <1>2, Committed
  <2>3. p.ok /\ mem' = m3
    BY <2>2 DEF Done
  <2> HIDE DEF p
  <2>4. p = Push(mem, IntsSlot, IntSize)
    BY DEF p
  <2>5. Good(mem', want')
    BY <2>1, <2>2, <2>3, <2>4, <1>1, PushIntGood
  <2>6. want'.ints = want.ints + 1 /\ want'.strs = want.strs
    BY <2>2, <1>1, WantUpdates
  <2> QED BY <2>5, <2>6, <1>3 DEF Shrinks
<1>7. CASE PopInt
  <2> DEFINE r == Pop(mem, IntsSlot, IntSize)
             w == [want EXCEPT !.ints = want.ints - 1]
  <2>1. DataLength(mem, Get(mem, IntsSlot)) # 0 /\ Transaction(r, w)
    BY <1>2, <1>7 DEF PopInt
  <2>2. mem' = r.mem /\ want' = w
    BY <2>1, <1>2, Committed
  <2>3. want.ints # 0
    BY <2>1, <1>1, GoodArrays
  <2> DEFINE m2 == r.mem
  <2>4. Good(m2, w) /\ (want.ints # 1 => m2[IntsSlot] = mem[IntsSlot])
    BY <2>3, <1>1, PopIntGood
  <2>5. want'.ints = want.ints - 1 /\ want'.strs = want.strs
    BY <2>2, <1>1, WantUpdates
  <2> HIDE DEF r, w
  <2> QED BY <2>2, <2>4, <2>5, <1>3 DEF Shrinks
<1>8. CASE \E n \in 0 .. MaxInts : AssignInts(n)
  <2>1. PICK n \in 0 .. MaxInts : AssignInts(n)
    BY <1>8
  <2> DEFINE r == StoreInts(mem, IntsSlot, n)
             w == [want EXCEPT !.ints = n]
             m2 == r.mem
  <2>2. r.ok /\ mem' = m2 /\ want' = w
    BY <2>1, <1>2, Committed DEF AssignInts
  <2>3. Good(m2, w) /\ (n # 0 /\ n <= want.ints => m2[IntsSlot] = mem[IntsSlot])
    BY <2>2, <1>1, AssignIntsGood
  <2>4. want'.ints = n /\ want'.strs = want.strs
    BY <2>2, <1>1, WantUpdates
  <2> HIDE DEF m2, w
  <2> QED BY <2>2, <2>3, <2>4, <1>3 DEF Shrinks
<1>9. CASE DeleteInts
  <2>1. mem' = FreeInts(mem, IntsSlot) /\ want' = [want EXCEPT !.ints = 0]
    BY <1>9, <1>2, Committed DEF DeleteInts, Done
  <2>2. Good(mem', want')
    BY <2>1, <1>1, DeleteIntsGood
  <2>3. want'.ints = 0 /\ want'.strs = want.strs
    BY <2>1, <1>1, WantUpdates
  <2> QED BY <2>2, <2>3, <1>3 DEF Shrinks
<1>10. CASE \E len \in Lens : PushStr(len)
  <2>1. PICK len \in Lens : PushStr(len)
    BY <1>10
  <2> DEFINE p == Push(mem, StrsSlot, PtrSize)
             q == StoreNew(p.mem, p.res, len, ElemMark(Len(want.strs)))
             r == IF p.ok THEN q ELSE p
             t == Append(want.strs, len)
             w == [want EXCEPT !.strs = t]
  <2>2. Len(want.strs) < MaxStrs /\ Transaction(r, w)
    BY <2>1 DEF PushStr, AndThen
  <2>3. r.ok /\ mem' = r.mem /\ want' = w
    BY <2>2, <1>2, Committed
  <2>4. p.ok /\ q.ok /\ mem' = q.mem
    BY <2>3
  <2>5. Good(mem', want')
    BY <2>2, <2>3, <2>4, <1>1, PushStrGood
  <2>6. want'.ints = want.ints /\ want'.strs = t
    BY <2>3, <1>1, WantUpdates
  <2>7. Len(t) = Len(want.strs) + 1
    BY <1>3
  <2> QED BY <2>5, <2>6, <2>7, <1>3 DEF Shrinks
<1>11. CASE PopStr
  <2> DEFINE r == Pop(FreeString(mem, LastElem(mem, StrsSlot, PtrSize)), StrsSlot, PtrSize)
             t == SubSeq(want.strs, 1, Len(want.strs) - 1)
             w == [want EXCEPT !.strs = t]
             m2 == r.mem
  <2>1. DataLength(mem, Get(mem, StrsSlot)) # 0 /\ Transaction(r, w)
    BY <1>2, <1>11 DEF PopStr
  <2>2. mem' = m2 /\ want' = w
    BY <2>1, <1>2, Committed
  <2>3. Len(want.strs) # 0
    BY <2>1, <1>1, GoodArrays
  <2>4. Good(m2, w) /\ (Len(want.strs) # 1 => m2[StrsSlot] = mem[StrsSlot])
    BY <2>3, <1>1, PopStrGood
  <2>5. want'.ints = want.ints /\ want'.strs = t
    BY <2>2, <1>1, WantUpdates
  <2>6. Len(t) = Len(want.strs) - 1
    BY <2>3, <1>3
  <2> HIDE DEF m2, w, t
  <2>7. want'.ints \notin 1 .. want.ints - 1
    BY <2>5, <1>3
  <2>8. Len(want'.strs) \in 1 .. Len(want.strs) - 1 => Len(want.strs) # 1
    <3> DEFINE l2 == Len(want'.strs)
               l == Len(want.strs)
    <3>1. l2 = l - 1 /\ l \in Nat
      BY <2>5, <2>6, <1>3
    <3> HIDE DEF l, l2
    <3>2. l2 \in 1 .. l - 1 => l # 1
      BY <3>1
    <3> QED BY <3>2 DEF l, l2
  <2> QED BY <2>2, <2>4, <2>7, <2>8 DEF Shrinks
<1>12. CASE \E i \in DOMAIN want.strs, len \in Lens : AssignElem(i, len)
  <2>1. PICK i \in DOMAIN want.strs, len \in Lens : AssignElem(i, len)
    BY <1>12
  <2> DEFINE r == StoreString(mem, Get(mem, StrsSlot) + (i - 1) * PtrSize, len, ElemMark(i - 1))
             w == [want EXCEPT !.strs[i] = len]
  <2>2. r.ok /\ mem' = r.mem /\ want' = w
    BY <2>1, <1>2, Committed DEF AssignElem
  <2>3. Good(mem', want')
    BY <2>2, <1>1, AssignElemGood
  <2>4. w.ints = want.ints /\ Len(w.strs) = Len(want.strs)
    BY <1>1, <1>3 DEF WantOK
  <2> QED BY <2>2, <2>3, <2>4, <1>3 DEF Shrinks
<1>13. CASE \E n \in 0 .. MaxStrs : \E lens \in [1 .. n -> Lens] : AssignStrs(lens)
  <2>0. PICK n \in 0 .. MaxStrs : \E lens \in [1 .. n -> Lens] : AssignStrs(lens)
    BY <1>13
  <2>1. PICK lens \in [1 .. n -> Lens] : AssignStrs(lens)
    BY <2>0
  <2> DEFINE r == StoreStrs(mem, StrsSlot, lens)
             w == [want EXCEPT !.strs = lens]
  <2>2. want.strs = <<>> /\ Transaction(r, w)
    BY <2>1 DEF AssignStrs
  <2>3. r.ok /\ mem' = r.mem /\ want' = w
    BY <2>2, <1>2, Committed
  <2>4. Good(mem', want')
    BY <2>2, <2>3, <1>1, AssignStrsGood
  <2>5. want'.ints = want.ints
    BY <2>3, <1>1, WantUpdates
  <2>6. Len(want.strs) = 0
    BY <2>2
  <2>7. \A v : v \notin 1 .. Len(want.strs) - 1
    BY <2>6
  <2> QED BY <2>4, <2>5, <2>7, <1>3 DEF Shrinks
<1>14. CASE DeleteStrs
  <2>1. /\ mem' = Put(FreeStrs(mem, StrsSlot), StrsSlot, 0)
        /\ want' = [want EXCEPT !.strs = <<>>]
    BY <1>14, <1>2, Committed DEF DeleteStrs, Done
  <2>2. Good(mem', want')
    BY <2>1, <1>1, DeleteStrsGood
  <2>3. want'.ints = want.ints /\ want'.strs = <<>>
    BY <2>1, <1>1, WantUpdates
  <2>4. Len(want'.strs) = 0
    BY <2>3
  <2> QED BY <2>2, <2>3, <2>4, <1>3 DEF Shrinks
<1> QED BY <1>4, <1>5, <1>6, <1>7, <1>8, <1>9, <1>10, <1>11, <1>12, <1>13, <1>14 DEF Next
-----------------------------------------------------------------------------
(* What the invariant says of the account                                   *)

\* The chunks that a walk visits: those of the list, and then the header of the
\* account, which is neither in use nor in the list.
LEMMA WalkChunks ==
  ASSUME NEW C, mem \in Mem, Chain(mem, C), TopOK(mem)
  PROVE  /\ C \subseteq Chunks
         /\ \A c \in Chunks \ {0} : c \in C \/ (~Allocated(mem, c) /\ IsLast(c))
<1> DEFINE at == Walk(mem)
<1>1. PICK k \in 0 .. MaxChunks :
        /\ C = {at[n] : n \in 0 .. k}
        /\ mem[0] = 1 => \A n \in k + 1 .. MaxChunks : at[n] \in {0, 1}
  BY WalkFacts
<1>2. MaxChunks \in Nat /\ k \in Nat
  BY Sizes
<1>3. \A n \in 0 .. k : n \in 0 .. MaxChunks
  BY <1>2
<1>4. \A n \in 0 .. MaxChunks : n \in 0 .. k \/ n \in k + 1 .. MaxChunks
  BY <1>2
<1>5. C \subseteq Chunks
  BY <1>1, <1>3 DEF Chunks
<1>6. \A c \in Chunks : c \in C \/ c = 0 \/ c = 1
  BY <1>1, <1>4 DEF Chunks, TopOK
<1>7. ~Allocated(mem, 1) /\ IsLast(1)
  <2>1. 1 \notin Words /\ 13 \notin Words
    BY Sizes
  <2> QED BY <2>1 DEF Allocated, IsLast, OffsetNext, Get
<1> QED BY <1>5, <1>6, <1>7

\* The invariant implies what validate_heap asserts.
LEMMA InvWellFormed ==
  Inv => ListWellFormed
<1> SUFFICES ASSUME Inv PROVE ListWellFormed
  OBVIOUS
<1> DEFINE at == Walk(mem)
           ChunkOK(c, prev) ==
             /\ c % 8 = 0 /\ c + HdrSize <= DataLen
             /\ OffsetPrev(mem, c) = prev
             /\ IF IsLast(c) THEN Length(mem, c) = 0 /\ ~Allocated(mem, c)
                ELSE /\ Length(mem, c) # 0
                     /\ OffsetNext(mem, c) - c - HdrSize >= Length(mem, c)
<1>1. PICK C : State(mem, C, KeysOf(want), LenOf(want))
  BY DEF Inv, Good
<1>2. mem \in Mem /\ Chain(mem, C) /\ NoFree(mem, C) /\ TopOK(mem)
  BY <1>1 DEF State, Heap
<1>3. \A a \in {0, 4, 8, 12} : mem[a] = EmptyAccount[a]
  BY <1>2, EmptyFacts DEF TopOK
<1>4. PICK k \in 0 .. MaxChunks :
        /\ OffsetNext(mem, at[k]) = 0
        /\ C = {at[n] : n \in 0 .. k}
        /\ \A n \in 0 .. k : OffsetPrev(mem, at[n]) = IF n = 0 THEN 0 ELSE at[n - 1]
  BY <1>2, WalkFacts
<1>5. \A c \in C : /\ c % 8 = 0 /\ c + HdrSize <= DataLen
                   /\ IF IsLast(c) THEN Length(mem, c) = 0 /\ ~Allocated(mem, c)
                      ELSE /\ Length(mem, c) # 0
                           /\ OffsetNext(mem, c) - c - HdrSize >= Length(mem, c)
  <2> SUFFICES ASSUME NEW c \in C
               PROVE  /\ c % 8 = 0 /\ c + 16 <= DataLen
                      /\ IF IsLast(c) THEN Length(mem, c) = 0 /\ ~Allocated(mem, c)
                         ELSE /\ Length(mem, c) # 0
                              /\ OffsetNext(mem, c) - c - 16 >= Length(mem, c)
    BY DEF HdrSize
  <2>1. /\ Place(c) /\ c \in Nat /\ OffsetNext(mem, c) \in Nat /\ Length(mem, c) \in Nat
        /\ Room(mem, c, OffsetNext(mem, c))
    BY <1>2, ChainBasic
  <2>2. c % 8 = 0 /\ c + 16 <= DataLen
    BY <2>1 DEF Place
  <2>3. CASE IsLast(c)
    BY <2>1, <2>2, <2>3 DEF IsLast, Room
  <2>4. CASE ~IsLast(c)
    <3>1. Length(mem, c) # 0 /\ c + 16 + Length(mem, c) <= OffsetNext(mem, c)
      BY <2>1, <2>4 DEF IsLast, Room
    <3> QED BY <2>1, <2>2, <2>4, <3>1
  <2> QED BY <2>3, <2>4
<1>6. \A n \in 0 .. k : ChunkOK(at[n], IF n = 0 THEN 0 ELSE at[n - 1])
  BY <1>4, <1>5
<1>7. IsLast(at[k])
  BY <1>4 DEF IsLast
<1>8. NoFreeNeighbours
  <2> SUFFICES ASSUME NEW c \in Chunks \ {0}, ~Allocated(mem, c), ~IsLast(c)
               PROVE  Allocated(mem, OffsetNext(mem, c))
    BY DEF NoFreeNeighbours
  <2>1. c \in C
    BY <1>2, WalkChunks
  <2> QED BY <2>1, <1>2 DEF NoFree, IsLast
<1> QED BY <1>3, <1>6, <1>7, <1>8 DEF ListWellFormed

\* The words that hold an offset are the slots of the keys.
LEMMA RefsAreSlots ==
  ASSUME WantOK(want)
  PROVE  /\ \A k \in KeysOf(want) : SlotOf(mem, k) \in Refs
         /\ \A r \in Refs : \E k \in KeysOf(want) : r = SlotOf(mem, k)
<1> DEFINE num == Len(want.strs)
<1>1. num \in Nat /\ DOMAIN want.strs = 1 .. num
  BY DEF WantOK
<1>2. ASSUME NEW k \in KeysOf(want) PROVE SlotOf(mem, k) \in Refs
  <2>1. (~(k < 0) => k \in Base) /\ (k < 0 => k \in Int /\ -k \in 1 .. num)
    BY KeysOfFacts
  <2>2. CASE ~(k < 0)
    BY <2>1, <2>2 DEF SlotOf, Refs, Base
  <2>3. CASE k < 0
    <3> DEFINE i == -k
    <3>1. i \in DOMAIN want.strs
      BY <1>1, <2>1, <2>3
    <3>2. SlotOf(mem, k) = mem[StrsSlot] + (i - 1) * PtrSize
      BY <2>3 DEF SlotOf, PtrSize
    <3> HIDE DEF i
    <3> QED BY <3>1, <3>2 DEF Refs
  <2> QED BY <2>2, <2>3
<1>3. ASSUME NEW r \in Refs PROVE \E k \in KeysOf(want) : r = SlotOf(mem, k)
  <2>1. CASE r \in Base
    <3>1. ~(r < 0) /\ r \in KeysOf(want)
      BY <2>1, KeyFacts DEF KeysOf
    <3>2. SlotOf(mem, r) = r
      BY <3>1 DEF SlotOf
    <3> QED BY <3>1, <3>2
  <2>2. CASE r \notin Base
    <3>1. PICK i \in DOMAIN want.strs : r = mem[StrsSlot] + (i - 1) * PtrSize
      BY <2>2 DEF Refs, Base
    <3> DEFINE k == -i
    <3>2. k \in KeysOf(want) /\ k < 0 /\ -k - 1 = i - 1
      BY <1>1 DEF KeysOf, ElemKeys
    <3>3. SlotOf(mem, k) = mem[StrsSlot] + (i - 1) * 4
      BY <3>2 DEF SlotOf
    <3> HIDE DEF k
    <3> QED BY <3>1, <3>2, <3>3 DEF PtrSize
  <2> QED BY <2>1, <2>2
<1> QED BY <1>2, <1>3

\* The invariant implies that nothing leaks, dangles or is shared.
LEMMA InvOwnedOnce ==
  Inv => ChunksOwnedOnce
<1> SUFFICES ASSUME Inv PROVE ChunksOwnedOnce
  OBVIOUS
<1> DEFINE K == KeysOf(want)
           f == LenOf(want)
           used == {c \in Chunks \ {0} : Allocated(mem, c)}
           ptrs == {Get(mem, r) - HdrSize : r \in LiveRefs}
<1>1. WantOK(want) /\ \E C : State(mem, C, K, f)
  BY DEF Inv, Good
<1>2. PICK C : State(mem, C, K, f)
  BY <1>1
<1>3. /\ mem \in Mem /\ Chain(mem, C) /\ TopOK(mem) /\ Heap(mem, C) /\ Own(mem, Live(mem, C), K, f)
  BY <1>2 DEF State, Heap
<1>4. used = Live(mem, C)
  <2>1. \A c \in C : c # 0
    BY <1>3, ChainBasic
  <2> QED BY <2>1, <1>3, WalkChunks DEF Live
<1>5. \A r \in LiveRefs : \E k \in K : r = SlotOf(mem, k) /\ Get(mem, r) = Ptr(mem, k) /\ Ptr(mem, k) # 0
  BY <1>1, RefsAreSlots DEF LiveRefs, Ptr
<1>6. ASSUME NEW k \in K, Ptr(mem, k) # 0 PROVE SlotOf(mem, k) \in LiveRefs
  BY <1>1, <1>6, RefsAreSlots DEF LiveRefs, Ptr
<1> HIDE DEF K, f
<1>7. Live(mem, C) \subseteq ptrs
  <2> SUFFICES ASSUME NEW c \in Live(mem, C) PROVE c \in ptrs
    OBVIOUS
  <2>1. c \in Nat
    BY <1>3, LiveFacts
  <2>2. PICK k \in K : Ptr(mem, k) = c + 16
    BY <1>3 DEF Own
  <2>3. Ptr(mem, k) # 0 /\ Ptr(mem, k) - 16 = c
    BY <2>1, <2>2
  <2>4. SlotOf(mem, k) \in LiveRefs /\ Get(mem, SlotOf(mem, k)) - HdrSize = c
    BY <2>3, <1>6 DEF Ptr, HdrSize
  <2> QED BY <2>4
<1>8. ptrs \subseteq Live(mem, C)
  <2> SUFFICES ASSUME NEW r \in LiveRefs PROVE Get(mem, r) - HdrSize \in Live(mem, C)
    OBVIOUS
  <2>1. PICK k \in K : Get(mem, r) = Ptr(mem, k) /\ Ptr(mem, k) # 0
    BY <1>5
  <2>2. f[k] # 0
    BY <2>1, <1>2, StateKey
  <2>3. Ptr(mem, k) - 16 \in Live(mem, C)
    BY <2>2, <1>2, StateKey
  <2> QED BY <2>1, <2>3 DEF HdrSize
<1>9. \A r, q \in LiveRefs : Get(mem, r) = Get(mem, q) => r = q
  <2> SUFFICES ASSUME NEW r \in LiveRefs, NEW q \in LiveRefs, Get(mem, r) = Get(mem, q) PROVE r = q
    OBVIOUS
  <2>1. PICK j \in K : r = SlotOf(mem, j) /\ Get(mem, r) = Ptr(mem, j) /\ Ptr(mem, j) # 0
    BY <1>5
  <2>2. PICK k \in K : q = SlotOf(mem, k) /\ Get(mem, q) = Ptr(mem, k) /\ Ptr(mem, k) # 0
    BY <1>5
  <2>3. j = k
    BY <2>1, <2>2, <1>3 DEF Own
  <2> QED BY <2>1, <2>2, <2>3
<1>10. used = ptrs
  <2> HIDE DEF used, ptrs
  <2> QED BY <1>4, <1>7, <1>8
<1> QED BY <1>9, <1>10 DEF ChunksOwnedOnce

\* The length of an array is its bytes divided by the size of an element.
LEMMA TimesDiv ==
  ASSUME NEW v \in Nat
  PROVE  (v * 8) \div 8 = v /\ (v * 4) \div 4 = v
OBVIOUS


\* The invariant implies that loads return what was stored.
LEMMA InvReadsBack ==
  Inv => StorageReadsBack
<1> SUFFICES ASSUME Inv PROVE StorageReadsBack
  OBVIOUS
<1> DEFINE K == KeysOf(want)
           f == LenOf(want)
           num == Len(want.strs)
<1>1. WantOK(want) /\ Good(mem, want)
  BY DEF Inv, Good
<1>2. PICK C : State(mem, C, K, f)
  BY <1>1 DEF Good
<1>3. mem \in Mem /\ want.ints \in Nat /\ num \in Nat /\ DOMAIN want.strs = 1 .. num
  BY <1>1, <1>2 DEF State, WantOK
<1>4. Base \subseteq K /\ IntsSlot \in K /\ StrsSlot \in K
  BY KeyFacts DEF KeysOf
<1>5. ASSUME NEW x \in K, x # StrsSlot, x # IntsSlot, NEW s, s = SlotOf(mem, x), NEW len, len = f[x],
             NEW mark, mark = MarkOf(x, 0)
      PROVE  Reads(s, len, mark)
  <2> HIDE DEF K, f
  <2> DEFINE off == Get(mem, s)
  <2>1. off = Ptr(mem, x)
    BY <1>5 DEF Ptr
  <2>2. /\ DataLength(mem, off) = len /\ (len = 0 <=> off = 0) /\ off \in Nat /\ x \in Keys
        /\ len # 0 => Contents(mem, x, off, len)
    BY <2>1, <1>2, <1>5, StateKey DEF Usable
  <2> HIDE DEF off
  <2>3. \A a \in WordsOf(off, len) : mem[a] = mark
    <3> SUFFICES ASSUME NEW a \in Words, off <= a, a < off + len PROVE mem[a] = mark
      BY DEF WordsOf
    <3>1. len # 0
      BY <2>2, Sizes
    <3>2. mem[a] = MarkOf(x, a - off)
      BY <3>1, <2>2, <1>5 DEF Contents
    <3> QED BY <3>2, <2>2, <1>5, StringMark
  <2> QED BY <2>2, <2>3 DEF Reads, off
<1>6. ASSUME NEW s \in Strings PROVE Reads(s, want.str[s], StrMark(s))
  <2>1. s \in K /\ s # StrsSlot /\ s # IntsSlot /\ ~(s < 0)
    BY <1>4, KeyFacts
  <2>2. s = SlotOf(mem, s) /\ StrMark(s) = MarkOf(s, 0)
    BY <2>1 DEF SlotOf, MarkOf
  <2>3. want.str[s] = f[s]
    BY LenFacts
  <2> HIDE DEF K, f
  <2> QED BY <2>1, <2>2, <2>3, <1>5
<1>7. ASSUME NEW i \in DOMAIN want.strs
      PROVE  Reads(mem[StrsSlot] + (i - 1) * PtrSize, want.strs[i], ElemMark(i - 1))
  <2> DEFINE x == -i
  <2>1. x \in K /\ x < 0 /\ -x - 1 = i - 1 /\ -x = i /\ x \in Keys
    BY <1>3 DEF KeysOf, ElemKeys, Keys
  <2>2. x # StrsSlot /\ x # IntsSlot
    BY <2>1, KeyFacts
  <2>3. mem[StrsSlot] + (i - 1) * PtrSize = SlotOf(mem, x)
    BY <2>1 DEF SlotOf, PtrSize
  <2>4. ElemMark(i - 1) = MarkOf(x, 0)
    BY <2>1 DEF MarkOf
  <2>5. want.strs[i] = f[x]
    BY <2>1, LenFacts
  <2> HIDE DEF K, f, x
  <2> QED BY <2>1, <2>2, <2>3, <2>4, <2>5, <1>5
<1>8. ArrayLength(mem, IntsSlot, IntSize) = want.ints
  <2>1. (want.ints * 8) \div 8 = want.ints
    BY <1>3, TimesDiv
  <2> QED BY <2>1, <1>1, GoodArrays DEF ArrayLength, IntSize
<1>9. ArrayLength(mem, StrsSlot, PtrSize) = num
  <2>1. (num * 4) \div 4 = num
    <3> HIDE DEF num
    <3> QED BY <1>3, TimesDiv
  <2> QED BY <2>1, <1>1, GoodArrays DEF ArrayLength, PtrSize
<1>10. ASSUME NEW i \in 0 .. want.ints - 1, NEW a \in WordsOf(mem[IntsSlot] + i * IntSize, IntSize)
       PROVE  mem[a] = IntMark(i)
  <2> DEFINE off == mem[IntsSlot]
             d == a - off
             len == f[IntsSlot]
  <2>1. len = want.ints * 8 /\ len # 0
    BY <1>3, LenFacts
  <2>2. off = Ptr(mem, IntsSlot) /\ off \in Nat
    BY <1>2, <1>4, IntsFacts
  <2>3. Contents(mem, IntsSlot, off, len)
    BY <2>1, <2>2, <1>2, <1>4, StateKey
  <2>4. a \in Words /\ a \in Nat /\ off + i * 8 <= a /\ a < off + i * 8 + 8
    BY Sizes DEF WordsOf, IntSize
  <2> HIDE DEF len, off
  <2>5. off <= a /\ a < off + len
    BY <2>1, <2>2, <2>4, <1>3
  <2>6. mem[a] = MarkOf(IntsSlot, d)
    BY <2>3, <2>4, <2>5, KeyFacts DEF Contents
  <2>7. d \in Nat /\ i * 8 <= d /\ d < i * 8 + 8
    BY <2>2, <2>4, <2>5
  <2> HIDE DEF d
  <2>8. d \div 8 = i
    BY <2>7
  <2>9. MarkOf(IntsSlot, d) = IntMark(d \div 8)
    BY KeyFacts DEF MarkOf
  <2> QED BY <2>6, <2>8, <2>9
<1> QED BY <1>6, <1>7, <1>8, <1>9, <1>10 DEF StorageReadsBack
-----------------------------------------------------------------------------
(* The theorems                                                             *)

\* In every state the account is in order and its chunks in use belong to the
\* variables and the elements of the string[], whatever the size of the account,
\* where the slots are and what the transactions store.  The code for a string[]
\* that is not empty and assigned to is left out (Reassign).
THEOREM StorageInvariant ==
  ASSUME ~Reassign
  PROVE  Spec => []Inv
<1>1. Init => Inv
  BY InitGood
<1>2. Inv /\ [Next]_vars => Inv'
  <2> SUFFICES ASSUME Inv, [Next]_vars PROVE Inv'
    OBVIOUS
  <2>1. CASE Next
    BY <2>1, StepGood
  <2>2. CASE UNCHANGED vars
    BY <2>2 DEF Inv, vars
  <2> QED BY <2>1, <2>2
<1> QED BY <1>1, <1>2, PTL DEF Spec

\* validate_heap (stdlib/solana.c:564-623) never fails: the header of the account
\* is intact, the chunks lie one after the other, link to each other and have
\* room for their lengths, and free chunks have no free neighbours.
THEOREM HeapAlwaysWellFormed ==
  ASSUME ~Reassign
  PROVE  Spec => []ListWellFormed
BY StorageInvariant, InvWellFormed, PTL

\* No transaction leaks a chunk, frees one that is still pointed at or lets two
\* variables point at the same one.
THEOREM NoLeakNoDangling ==
  ASSUME ~Reassign
  PROVE  Spec => []ChunksOwnedOnce
BY StorageInvariant, InvOwnedOnce, PTL

\* Every string, integer and element reads as what was stored last, whatever the
\* transactions on the other variables did to the heap in between.
THEOREM StoredIsRead ==
  ASSUME ~Reassign
  PROVE  Spec => []StorageReadsBack
BY StorageInvariant, InvReadsBack, PTL

\* "we can assume pointer will stay the same after realloc to smaller size": an
\* array that gets shorter, and not empty, stays where it is.
THEOREM ShorterStays ==
  ASSUME ~Reassign
  PROVE  Spec => ShrinkStays
<1>1. Inv /\ [Next]_vars =>
        [/\ want'.ints \in 1 .. want.ints - 1 => mem'[IntsSlot] = mem[IntsSlot]
         /\ Len(want'.strs) \in 1 .. Len(want.strs) - 1 /\ ~Reassign
              => mem'[StrsSlot] = mem[StrsSlot]]_vars
  BY StepGood DEF Shrinks
<1> QED BY <1>1, StorageInvariant, PTL DEF Spec, ShrinkStays
=============================================================================
