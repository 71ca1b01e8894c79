-------------------------- MODULE AccountDataProofs --------------------------
(***************************************************************************)
(* What account_data_alloc, account_data_free and account_data_realloc do  *)
(* to the heap in an account, for every account and every heap that        *)
(* validate_heap accepts.                                                  *)
(***************************************************************************)
EXTENDS AccountData, TLAPS, WellFoundedInduction

Mem == [Words -> Nat]

\* A chunk can be at c.
Place(c) == c \in Nat /\ c % 8 = 0 /\ c + 16 <= DataLen

\* The headers at c and d do not overlap.
Apart(c, d) == c + 16 <= d \/ d + 16 <= c

\* The header at c is the same in both contents.
Same(m2, m, c) ==
  /\ OffsetNext(m2, c) = OffsetNext(m, c) /\ OffsetPrev(m2, c) = OffsetPrev(m, c)
  /\ Length(m2, c) = Length(m, c) /\ (Allocated(m2, c) <=> Allocated(m, c))

\* Only words in the headers of the chunks in T are different.
Outside(m2, m, T) ==
  \A a \in Words : (\A t \in T : a < t \/ t + 16 <= a) => m2[a] = m[a]

\* The chunk c and the one that follows it in the list of chunks C.
NextOK(m, C, c) ==
  IF OffsetNext(m, c) = 0
  THEN (\A d \in C : d <= c) /\ Length(m, c) = 0 /\ ~Allocated(m, c)
  ELSE /\ OffsetNext(m, c) \in C /\ c < OffsetNext(m, c) /\ Length(m, c) # 0
       /\ c + 16 + Length(m, c) <= OffsetNext(m, c)
       /\ OffsetPrev(m, OffsetNext(m, c)) = c
       /\ \A d \in C : d <= c \/ OffsetNext(m, c) <= d

PrevOK(m, C, c) ==
  IF c = HeapOffset THEN OffsetPrev(m, c) = 0
  ELSE OffsetPrev(m, c) \in C /\ OffsetNext(m, OffsetPrev(m, c)) = c

\* The chunks of the account are C, linked in the order of their offsets.
Chain(m, C) ==
  /\ \A c \in C : Place(c) /\ HeapOffset <= c
  /\ HeapOffset \in C
  /\ \E c \in C : OffsetNext(m, c) = 0
  /\ \A c \in C : NextOK(m, C, c)
  /\ \A c \in C : PrevOK(m, C, c)

\* Free chunks do not have free neighbours.
NoFree(m, C) ==
  \A c \in C : OffsetNext(m, c) # 0 /\ ~Allocated(m, c) => Allocated(m, OffsetNext(m, c))

\* What is left of the list without the chunks between c and nn, or after c.
Without(C, c, nn) == {d \in C : d <= c \/ (nn # 0 /\ nn <= d)}

\* Chunk nn, when there is one, has a new predecessor.
NewPrev(m2, m, nn, prev) ==
  nn # 0 => /\ OffsetNext(m2, nn) = OffsetNext(m, nn) /\ OffsetPrev(m2, nn) = prev
            /\ Length(m2, nn) = Length(m, nn) /\ (Allocated(m2, nn) <=> Allocated(m, nn))

\* The length of chunk c, which ends at chunk nn or is the last.
Room(m, c, nn) ==
  IF nn = 0 THEN Length(m, c) = 0 /\ ~Allocated(m, c)
  ELSE Length(m, c) # 0 /\ c + 16 + Length(m, c) <= nn

\* nn follows c directly now.
Joined(m2, m, c, nn) ==
  /\ Outside(m2, m, {c, nn} \ {0})
  /\ OffsetNext(m2, c) = nn /\ OffsetPrev(m2, c) = OffsetPrev(m, c)
  /\ Room(m2, c, nn) /\ NewPrev(m2, m, nn, c)

\* rest is a chunk between c and nn now.
Inserted(m2, m, c, rest, nn) ==
  /\ Place(rest) /\ c < rest
  /\ Outside(m2, m, {c, rest, nn} \ {0})
  /\ OffsetNext(m2, c) = rest /\ OffsetPrev(m2, c) = OffsetPrev(m, c) /\ Room(m2, c, rest)
  /\ OffsetNext(m2, rest) = nn /\ OffsetPrev(m2, rest) = c /\ Room(m2, rest, nn)
  /\ NewPrev(m2, m, nn, rest)

\* The chunks in use
Live(m, C) == {c \in C : Allocated(m, c)}

\* The payload of the chunks in L and all that is before the heap is the same.
Kept(m2, m, L) ==
  /\ \A a \in Words : a < HeapOffset => m2[a] = m[a]
  /\ \A d \in L : /\ Length(m2, d) = Length(m, d)
                  /\ \A a \in Words : d + 16 <= a /\ a < d + 16 + Length(m, d) => m2[a] = m[a]

\* No chunk between c and nn, or after c, is in use.
Gap(m, C, c, nn) == \A d \in C : c < d /\ (nn # 0 => d < nn) => ~Allocated(m, d)

\* A length that does not overflow.
Small(size) == size \in Nat /\ size + DataLen + 64 < U32

\* A heap that validate_heap accepts, with chunks C.
Heap(m, C) == Chain(m, C) /\ NoFree(m, C)

\* The heap of m2 is that of m with only the chunks L and a chunk c of the given length in use.
Holding(m2, C2, m, L, c, size) ==
  /\ m2 \in Mem /\ Heap(m2, C2)
  /\ c \in C2 /\ c \notin L /\ Live(m2, C2) = L \union {c} /\ Length(m2, c) = size
  /\ Kept(m2, m, L)

\* The heap of m2 is that of m with only the chunks L in use.
Leaving(m2, C2, m, L) ==
  m2 \in Mem /\ Heap(m2, C2) /\ Live(m2, C2) = L /\ Kept(m2, m, L)

\* Free chunks without free neighbours, apart from c and what is between c and nn.
NoFreeOut(m, C, c, nn) ==
  \A d \in Without(C, c, nn) \ {c} :
    OffsetNext(m, d) \notin {0, c} /\ ~Allocated(m, d) => Allocated(m, OffsetNext(m, d))
-----------------------------------------------------------------------------
\* What the constants are.
LEMMA Sizes ==
  /\ DataLen \in Nat /\ U32 \in Nat /\ 2 * DataLen + 64 < U32 /\ MaxChunks \in Nat
  /\ HeapOffset \in Nat /\ 16 <= HeapOffset /\ HeapOffset + 16 <= DataLen /\ HeapOffset % 8 = 0
  /\ Words \subseteq Nat /\ \A a \in Words : a % 4 = 0 /\ a < DataLen
  BY AccountDataAssumption DEF Words

\* A header at a place is four words of the account.
LEMMA PlaceWords ==
  ASSUME NEW c, Place(c)
  PROVE  c \in Words /\ c + 4 \in Words /\ c + 8 \in Words /\ c + 12 \in Words
<1>1. c \in Nat /\ c % 4 = 0 /\ c + 16 <= DataLen /\ DataLen \in Nat
  BY Sizes DEF Place
<1>2. (c + 4) % 4 = 0 /\ (c + 8) % 4 = 0 /\ (c + 12) % 4 = 0
  BY <1>1
<1> QED BY <1>1, <1>2 DEF Words

\* A store changes one word.
LEMMA PutFacts ==
  ASSUME NEW m \in Mem, NEW a \in Words, NEW v \in Nat
  PROVE  /\ Put(m, a, v) \in Mem /\ Put(m, a, v)[a] = v
         /\ \A b \in Words \ {a} : Put(m, a, v)[b] = m[b]
  BY DEF Put, Mem

\* The fields of a chunk are its words.
LEMMA Fields ==
  ASSUME NEW m \in Mem, NEW c, Place(c)
  PROVE  /\ OffsetNext(m, c) = m[c] /\ OffsetPrev(m, c) = m[c + 4] /\ Length(m, c) = m[c + 8]
         /\ Allocated(m, c) = (m[c + 12] # 0)
         /\ OffsetNext(m, c) \in Nat /\ OffsetPrev(m, c) \in Nat /\ Length(m, c) \in Nat
         /\ Allocated(m, c) \in BOOLEAN
<1>1. c \in Words /\ c + 4 \in Words /\ c + 8 \in Words /\ c + 12 \in Words
  BY PlaceWords
<1> QED BY <1>1 DEF OffsetNext, OffsetPrev, Length, Allocated, Get, Mem

\* What a store does to the fields of a header.
LEMMA PutFields ==
  ASSUME NEW m \in Mem, NEW a \in Words, NEW v \in Nat, NEW c, Place(c)
  PROVE  /\ OffsetNext(Put(m, a, v), c) = IF a = c THEN v ELSE OffsetNext(m, c)
         /\ OffsetPrev(Put(m, a, v), c) = IF a = c + 4 THEN v ELSE OffsetPrev(m, c)
         /\ Length(Put(m, a, v), c) = IF a = c + 8 THEN v ELSE Length(m, c)
         /\ a = c + 12 => (Allocated(Put(m, a, v), c) <=> v # 0)
         /\ a # c + 12 => (Allocated(Put(m, a, v), c) <=> Allocated(m, c))
<1>1. c \in Words /\ c + 4 \in Words /\ c + 8 \in Words /\ c + 12 \in Words
  BY PlaceWords
<1> DEFINE m2 == Put(m, a, v)
<1>2. m2 \in Mem /\ m2[a] = v /\ \A b \in Words \ {a} : m2[b] = m[b]
  BY PutFacts
<1> HIDE DEF m2
<1>3. /\ OffsetNext(m2, c) = m2[c] /\ OffsetPrev(m2, c) = m2[c + 4] /\ Length(m2, c) = m2[c + 8]
      /\ Allocated(m2, c) = (m2[c + 12] # 0)
      /\ OffsetNext(m, c) = m[c] /\ OffsetPrev(m, c) = m[c + 4] /\ Length(m, c) = m[c + 8]
      /\ Allocated(m, c) = (m[c + 12] # 0)
  BY <1>2, Fields
<1>4. /\ m2[c] = IF a = c THEN v ELSE m[c]
      /\ m2[c + 4] = IF a = c + 4 THEN v ELSE m[c + 4]
      /\ m2[c + 8] = IF a = c + 8 THEN v ELSE m[c + 8]
      /\ m2[c + 12] = IF a = c + 12 THEN v ELSE m[c + 12]
  BY <1>1, <1>2
<1>5. /\ a = c + 12 => (Allocated(m2, c) <=> v # 0)
      /\ a # c + 12 => (Allocated(m2, c) <=> Allocated(m, c))
  BY <1>3, <1>4
<1>6. /\ OffsetNext(m2, c) = IF a = c THEN v ELSE OffsetNext(m, c)
      /\ OffsetPrev(m2, c) = IF a = c + 4 THEN v ELSE OffsetPrev(m, c)
      /\ Length(m2, c) = IF a = c + 8 THEN v ELSE Length(m, c)
  BY <1>3, <1>4
<1> QED BY <1>5, <1>6 DEF m2

\* A store to a header changes nothing outside it.
LEMMA PutOutside ==
  ASSUME NEW m \in Mem, NEW c, Place(c), NEW a \in Words, c <= a, a < c + 16, NEW v \in Nat
  PROVE  Outside(Put(m, a, v), m, {c})
<1>1. c \in Nat /\ a \in Nat /\ \A b \in Words : b \in Nat
  BY Sizes DEF Place
<1>2. \A b \in Words : b < c \/ c + 16 <= b => b # a
  BY <1>1
<1> QED BY <1>2, PutFacts DEF Outside

\* One field of the chunk at c is set.
LEMMA SetNextFacts ==
  ASSUME NEW m \in Mem, NEW c, Place(c), NEW v \in Nat
  PROVE  /\ SetNext(m, c, v) \in Mem /\ Outside(SetNext(m, c, v), m, {c})
         /\ OffsetNext(SetNext(m, c, v), c) = v
         /\ OffsetPrev(SetNext(m, c, v), c) = OffsetPrev(m, c)
         /\ Length(SetNext(m, c, v), c) = Length(m, c)
         /\ Allocated(SetNext(m, c, v), c) <=> Allocated(m, c)
<1>0. c \in Nat
  BY DEF Place
<1>1. /\ c \in Words /\ c # c + 4 /\ c # c + 8 /\ c # c + 12 /\ c <= c /\ c < c + 16
  BY <1>0, PlaceWords
<1>2. SetNext(m, c, v) \in Mem /\ Outside(SetNext(m, c, v), m, {c})
  BY <1>1, PutFacts, PutOutside DEF SetNext
<1> QED BY <1>1, <1>2, PutFields DEF SetNext

\* A store to offset_prev.
LEMMA SetPrevFacts ==
  ASSUME NEW m \in Mem, NEW c, Place(c), NEW v \in Nat
  PROVE  /\ SetPrev(m, c, v) \in Mem /\ Outside(SetPrev(m, c, v), m, {c})
         /\ OffsetNext(SetPrev(m, c, v), c) = OffsetNext(m, c)
         /\ OffsetPrev(SetPrev(m, c, v), c) = v
         /\ Length(SetPrev(m, c, v), c) = Length(m, c)
         /\ Allocated(SetPrev(m, c, v), c) <=> Allocated(m, c)
<1>0. c \in Nat
  BY DEF Place
<1>1. /\ c + 4 \in Words /\ c + 4 # c /\ c + 4 # c + 8 /\ c + 4 # c + 12
      /\ c <= c + 4 /\ c + 4 < c + 16
  BY <1>0, PlaceWords
<1>2. SetPrev(m, c, v) \in Mem /\ Outside(SetPrev(m, c, v), m, {c})
  BY <1>1, PutFacts, PutOutside DEF SetPrev
<1> QED BY <1>1, <1>2, PutFields DEF SetPrev

\* A store to length.
LEMMA SetLengthFacts ==
  ASSUME NEW m \in Mem, NEW c, Place(c), NEW v \in Nat
  PROVE  /\ SetLength(m, c, v) \in Mem /\ Outside(SetLength(m, c, v), m, {c})
         /\ OffsetNext(SetLength(m, c, v), c) = OffsetNext(m, c)
         /\ OffsetPrev(SetLength(m, c, v), c) = OffsetPrev(m, c)
         /\ Length(SetLength(m, c, v), c) = v
         /\ Allocated(SetLength(m, c, v), c) <=> Allocated(m, c)
<1>0. c \in Nat
  BY DEF Place
<1>1. /\ c + 8 \in Words /\ c + 8 # c /\ c + 8 # c + 4 /\ c + 8 # c + 12
      /\ c <= c + 8 /\ c + 8 < c + 16
  BY <1>0, PlaceWords
<1>2. SetLength(m, c, v) \in Mem /\ Outside(SetLength(m, c, v), m, {c})
  BY <1>1, PutFacts, PutOutside DEF SetLength
<1> QED BY <1>1, <1>2, PutFields DEF SetLength

\* A store to allocated.
LEMMA SetFlagFacts ==
  ASSUME NEW m \in Mem, NEW c, Place(c), NEW v \in Nat
  PROVE  /\ SetFlag(m, c, v) \in Mem /\ Outside(SetFlag(m, c, v), m, {c})
         /\ OffsetNext(SetFlag(m, c, v), c) = OffsetNext(m, c)
         /\ OffsetPrev(SetFlag(m, c, v), c) = OffsetPrev(m, c)
         /\ Length(SetFlag(m, c, v), c) = Length(m, c)
         /\ Allocated(SetFlag(m, c, v), c) <=> v # 0
<1>0. c \in Nat
  BY DEF Place
<1>1. /\ c + 12 \in Words /\ c + 12 # c /\ c + 12 # c + 4 /\ c + 12 # c + 8
      /\ c <= c + 12 /\ c + 12 < c + 16
  BY <1>0, PlaceWords
<1>2. SetFlag(m, c, v) \in Mem /\ Outside(SetFlag(m, c, v), m, {c})
  BY <1>1, PutFacts, PutOutside DEF SetFlag
<1> QED BY <1>1, <1>2, PutFields DEF SetFlag

\* A header apart from those that changed.
LEMMA SameApart ==
  ASSUME NEW m \in Mem, NEW m2 \in Mem, NEW T, Outside(m2, m, T), NEW d, Place(d),
         \A t \in T : t \in Nat /\ Apart(t, d)
  PROVE  Same(m2, m, d)
<1>1. d \in Words /\ d + 4 \in Words /\ d + 8 \in Words /\ d + 12 \in Words /\ d \in Nat
  BY PlaceWords DEF Place
<1>2. \A t \in T : /\ d < t \/ t + 16 <= d
                   /\ d + 4 < t \/ t + 16 <= d + 4
                   /\ d + 8 < t \/ t + 16 <= d + 8
                   /\ d + 12 < t \/ t + 16 <= d + 12
  BY <1>1 DEF Apart
<1>3. m2[d] = m[d] /\ m2[d + 4] = m[d + 4] /\ m2[d + 8] = m[d + 8] /\ m2[d + 12] = m[d + 12]
  BY <1>1, <1>2 DEF Outside
<1> QED BY <1>3, Fields DEF Same

\* Two stores, one after the other.
LEMMA OutsideChain ==
  ASSUME NEW m, NEW m1, NEW m2, NEW T, NEW U, NEW V, T \subseteq V, U \subseteq V,
         Outside(m1, m, T), Outside(m2, m1, U)
  PROVE  Outside(m2, m, V)
  BY DEF Outside

\* A whole header is written.
LEMMA SetChunkFacts ==
  ASSUME NEW m \in Mem, NEW c, Place(c), NEW next \in Nat, NEW prev \in Nat, NEW len \in Nat,
         NEW flag \in Nat
  PROVE  /\ SetChunk(m, c, next, prev, len, flag) \in Mem
         /\ Outside(SetChunk(m, c, next, prev, len, flag), m, {c})
         /\ OffsetNext(SetChunk(m, c, next, prev, len, flag), c) = next
         /\ OffsetPrev(SetChunk(m, c, next, prev, len, flag), c) = prev
         /\ Length(SetChunk(m, c, next, prev, len, flag), c) = len
         /\ Allocated(SetChunk(m, c, next, prev, len, flag), c) <=> flag # 0
<1> DEFINE m1 == SetNext(m, c, next)
           m2 == SetPrev(m1, c, prev)
           m3 == SetLength(m2, c, len)
           m4 == SetFlag(m3, c, flag)
<1>1. m1 \in Mem /\ OffsetNext(m1, c) = next /\ Outside(m1, m, {c})
  BY SetNextFacts
<1> HIDE DEF m1
<1>2. /\ m2 \in Mem /\ OffsetNext(m2, c) = next /\ OffsetPrev(m2, c) = prev /\ Outside(m2, m1, {c})
  BY <1>1, SetPrevFacts
<1> HIDE DEF m2
<1>3. /\ m3 \in Mem /\ OffsetNext(m3, c) = next /\ OffsetPrev(m3, c) = prev /\ Length(m3, c) = len
      /\ Outside(m3, m2, {c})
  BY <1>2, SetLengthFacts
<1> HIDE DEF m3
<1>4. /\ m4 \in Mem /\ OffsetNext(m4, c) = next /\ OffsetPrev(m4, c) = prev /\ Length(m4, c) = len
      /\ Allocated(m4, c) <=> flag # 0
      /\ Outside(m4, m3, {c})
  BY <1>3, SetFlagFacts
<1> HIDE DEF m4
<1>5. Outside(m4, m, {c})
  BY <1>1, <1>2, <1>3, <1>4, OutsideChain
<1>6. SetChunk(m, c, next, prev, len, flag) = m4
  BY DEF SetChunk, m1, m2, m3, m4
<1> QED BY <1>4, <1>5, <1>6

-----------------------------------------------------------------------------
(* The list                                                                *)

\* Arithmetic inside the range of uint32_t does not wrap.
LEMMA WrapFacts ==
  ASSUME NEW n \in Nat, n < U32
  PROVE  Wrap(n) = n
<1>1. U32 \in Nat /\ U32 > 0
  BY Sizes
<1> QED BY <1>1 DEF Wrap

\* ROUND_UP of a size that is not too large.
LEMMA RoundFacts ==
  ASSUME NEW size, Small(size)
  PROVE  /\ RoundUp8(size) \in Nat /\ RoundUp8(size) % 8 = 0 /\ size \in Nat
         /\ size <= RoundUp8(size) /\ RoundUp8(size) < size + 8
         /\ size + DataLen + 64 < U32
<1>1. size \in Nat /\ size + DataLen + 64 < U32 /\ DataLen \in Nat /\ U32 \in Nat
  BY Sizes DEF Small
<1>2. Wrap(size + 7) = size + 7
  BY <1>1, WrapFacts
<1>3. RoundUp8(size) = ((size + 7) \div 8) * 8
  BY <1>2 DEF RoundUp8
<1> QED BY <1>1, <1>3


\* What is known of one chunk of the list.
LEMMA ChainBasic ==
  ASSUME NEW m \in Mem, NEW C, Chain(m, C), NEW c \in C
  PROVE  /\ Place(c) /\ c \in Nat /\ HeapOffset <= c /\ c + 16 <= DataLen /\ c # 0
         /\ OffsetNext(m, c) \in Nat /\ OffsetPrev(m, c) \in Nat /\ Length(m, c) \in Nat
         /\ Allocated(m, c) \in BOOLEAN
         /\ Room(m, c, OffsetNext(m, c))
<1>1. Place(c) /\ HeapOffset <= c /\ NextOK(m, C, c)
  BY DEF Chain
<1>2. c \in Nat /\ c + 16 <= DataLen /\ c # 0
  BY <1>1, Sizes DEF Place
<1> QED BY <1>1, <1>2, Fields DEF NextOK, Room

\* The chunks do not overlap.
LEMMA ChainApart ==
  ASSUME NEW m \in Mem, NEW C, Chain(m, C), NEW c \in C, NEW d \in C, c < d
  PROVE  /\ OffsetNext(m, c) # 0 /\ OffsetNext(m, c) \in C /\ OffsetNext(m, c) <= d
         /\ c + 16 + Length(m, c) <= d /\ c + 16 < d
<1>1. c \in Nat /\ d \in Nat /\ Length(m, c) \in Nat /\ OffsetNext(m, c) \in Nat
  BY ChainBasic
<1>2. NextOK(m, C, c)
  BY DEF Chain
<1> QED BY <1>1, <1>2 DEF NextOK

\* The headers of two chunks do not overlap.
LEMMA ChunksApart ==
  ASSUME NEW m \in Mem, NEW C, Chain(m, C), NEW c \in C, NEW d \in C, c # d
  PROVE  Apart(c, d)
<1>1. \A x \in C : x \in Nat
  BY DEF Chain, Place
<1>2. CASE c < d
  BY <1>1, <1>2, ChainApart DEF Apart
<1>3. CASE d < c
  BY <1>1, <1>3, ChainApart DEF Apart
<1> QED BY <1>1, <1>2, <1>3

\* A chunk that swallows the ones after it leaves a list.
LEMMA JoinChain ==
  ASSUME NEW m \in Mem, NEW m2 \in Mem, NEW C, Chain(m, C), NEW c \in C, NEW nn \in C \union {0},
         nn # 0 => c < nn, Joined(m2, m, c, nn)
  PROVE  /\ Chain(m2, Without(C, c, nn))
         /\ \A d \in Without(C, c, nn) \ {c, nn} : Same(m2, m, d)
<1> DEFINE D == Without(C, c, nn)
<1>1. /\ c \in Nat /\ c # 0 /\ nn \in Nat /\ D \subseteq C /\ c \in D /\ (nn # 0 => nn \in D)
      /\ \A d \in C : d \in Nat /\ Place(d)
      /\ \A d \in C : d \in D <=> d <= c \/ (nn # 0 /\ nn <= d)
  BY ChainBasic DEF Without
<1> HIDE DEF D
<1>2. \A d \in D \ {c, nn} : Same(m2, m, d)
  <2> SUFFICES ASSUME NEW d \in D \ {c, nn} PROVE Same(m2, m, d)
    OBVIOUS
  <2>1. d \in C /\ d # 0 /\ d # c /\ d # nn /\ Place(d)
    BY <1>1, ChainBasic
  <2>2. Apart(c, d)
    BY <1>1, <2>1, ChunksApart
  <2>3. nn # 0 => Apart(nn, d)
    BY <1>1, <2>1, ChunksApart
  <2>4. \A t \in {c, nn} \ {0} : t \in Nat /\ Apart(t, d)
    BY <1>1, <2>2, <2>3
  <2> QED BY <2>1, <2>4, SameApart DEF Joined
<1>3. \A d \in D : Place(d) /\ HeapOffset <= d
  BY <1>1 DEF Chain
<1>4. HeapOffset \in D
  BY <1>1, ChainBasic DEF Chain
<1>5. \A d \in D : NextOK(m2, D, d)
  <2> SUFFICES ASSUME NEW d \in D PROVE NextOK(m2, D, d)
    OBVIOUS
  <2>1. CASE d = c
    BY <2>1, <1>1 DEF NextOK, Joined, Room, NewPrev
  <2>2. CASE d = nn
    <3>1. nn # 0 /\ c < nn /\ nn \in C /\ OffsetNext(m, nn) \in Nat /\ NextOK(m, C, nn)
      BY <2>2, <1>1, ChainBasic DEF Chain
    <3>2. /\ OffsetNext(m2, nn) = OffsetNext(m, nn) /\ Length(m2, nn) = Length(m, nn)
          /\ (Allocated(m2, nn) <=> Allocated(m, nn))
      BY <3>1 DEF Joined, NewPrev
    <3>3. CASE OffsetNext(m, nn) = 0
      BY <2>2, <3>1, <3>2, <3>3, <1>1 DEF NextOK
    <3>4. CASE OffsetNext(m, nn) # 0
      <4> DEFINE e == OffsetNext(m, nn)
      <4>1. /\ e \in C /\ nn < e /\ OffsetPrev(m, e) = nn /\ e \in Nat
            /\ \A x \in C : x <= nn \/ e <= x
        BY <3>1, <3>4 DEF NextOK
      <4>2. e \in D \ {c, nn}
        BY <4>1, <3>1, <1>1
      <4>3. OffsetPrev(m2, e) = nn
        BY <4>1, <4>2, <1>2 DEF Same
      <4> QED BY <4>1, <4>2, <4>3, <2>2, <3>1, <3>2, <3>4, <1>1 DEF NextOK
    <3> QED BY <3>3, <3>4
  <2>3. CASE d # c /\ d # nn
    <3>1. Same(m2, m, d) /\ NextOK(m, C, d) /\ d \in C /\ OffsetNext(m, d) \in Nat
      BY <2>3, <1>1, <1>2, ChainBasic DEF Chain
    <3>2. CASE OffsetNext(m, d) = 0
      BY <3>1, <3>2, <1>1 DEF NextOK, Same
    <3>3. CASE OffsetNext(m, d) # 0
      <4> DEFINE e == OffsetNext(m, d)
      <4>1. /\ e \in C /\ d < e /\ OffsetPrev(m, e) = d /\ e \in Nat /\ d \in Nat
            /\ \A x \in C : x <= d \/ e <= x
        BY <3>1, <3>3, <1>1 DEF NextOK
      <4>2. e \in D /\ e # nn
        <5>1. CASE d < c
          BY <5>1, <4>1, <1>1
        <5>2. CASE c < d
          <6>1. nn # 0 /\ nn < d
            BY <5>2, <1>1, <2>3
          <6> QED BY <6>1, <4>1, <1>1
        <5> QED BY <5>1, <5>2, <2>3, <4>1, <1>1
      <4>3. OffsetPrev(m2, e) = d
        BY <4>1, <4>2, <1>2 DEF Same, Joined
      <4> QED BY <4>1, <4>2, <4>3, <3>1, <3>3, <1>1 DEF NextOK, Same
    <3> QED BY <3>2, <3>3
  <2> QED BY <2>1, <2>2, <2>3
<1>6. \A d \in D : PrevOK(m2, D, d)
  <2> SUFFICES ASSUME NEW d \in D PROVE PrevOK(m2, D, d)
    OBVIOUS
  <2>1. d \in C /\ PrevOK(m, C, d) /\ d \in Nat
    BY <1>1 DEF Chain
  <2>2. CASE d = nn /\ nn # 0
    <3>1. d # HeapOffset /\ c \in D
      BY <2>2, <1>1, ChainBasic, Sizes
    <3> QED BY <2>2, <3>1 DEF PrevOK, Joined, NewPrev
  <2>3. CASE d # nn
    <3>1. OffsetPrev(m2, d) = OffsetPrev(m, d)
      BY <2>3, <1>2 DEF Same, Joined
    <3>2. CASE d = HeapOffset
      BY <3>1, <3>2, <2>1 DEF PrevOK
    <3>3. CASE d # HeapOffset
      <4> DEFINE p == OffsetPrev(m, d)
      <4>1. p \in C /\ OffsetNext(m, p) = d /\ p \in Nat /\ d # 0
        BY <3>3, <2>1, ChainBasic DEF PrevOK
      <4>2. NextOK(m, C, p)
        BY <4>1 DEF Chain
      <4>3. p < d /\ \A x \in C : x <= p \/ d <= x
        BY <4>1, <4>2 DEF NextOK
      <4>4. p \in D /\ p # c
        <5>1. CASE d <= c
          BY <5>1, <4>1, <4>3, <1>1
        <5>2. CASE c < d
          <6>1. nn # 0 /\ nn < d
            BY <5>2, <1>1, <2>3
          <6> QED BY <6>1, <4>1, <4>3, <1>1
        <5> QED BY <5>1, <5>2, <2>1, <1>1
      <4>5. OffsetNext(m2, p) = d
        <5>1. CASE p = nn
          BY <5>1, <4>1, <1>1, ChainBasic DEF Joined, NewPrev
        <5>2. CASE p # nn
          BY <5>2, <4>1, <4>4, <1>2 DEF Same
        <5> QED BY <5>1, <5>2
      <4> QED BY <3>1, <3>3, <4>1, <4>4, <4>5 DEF PrevOK
    <3> QED BY <3>2, <3>3
  <2> QED BY <2>2, <2>3, <2>1, ChainBasic
<1>7. \E d \in D : OffsetNext(m2, d) = 0
  <2>1. PICK z \in C : OffsetNext(m, z) = 0
    BY DEF Chain
  <2>2. \A d \in C : d <= z
    BY <2>1 DEF Chain, NextOK
  <2>3. CASE nn = 0
    BY <2>3, <1>1 DEF Joined
  <2>4. CASE nn # 0
    <3>1. z \in D /\ z # c
      BY <2>2, <2>4, <1>1
    <3>2. OffsetNext(m2, z) = 0
      BY <3>1, <2>1, <2>4, <1>2 DEF Same, Joined, NewPrev
    <3> QED BY <3>1, <3>2
  <2> QED BY <2>3, <2>4
<1> QED BY <1>2, <1>3, <1>4, <1>5, <1>6, <1>7 DEF Chain, D
\* A chunk that is put between two others leaves a list.
LEMMA InsertChain ==
  ASSUME NEW m \in Mem, NEW m2 \in Mem, NEW C, Chain(m, C), NEW c \in C, NEW nn \in C \union {0},
         nn # 0 => c < nn, NEW rest, Inserted(m2, m, c, rest, nn)
  PROVE  /\ Chain(m2, Without(C, c, nn) \union {rest})
         /\ \A d \in Without(C, c, nn) \ {c, nn} : Same(m2, m, d)
         /\ rest \notin Without(C, c, nn)
<1> DEFINE D == Without(C, c, nn)
           E == D \union {rest}
<1>1. /\ c \in Nat /\ c # 0 /\ nn \in Nat /\ D \subseteq C /\ c \in D /\ (nn # 0 => nn \in D)
      /\ \A d \in C : d \in Nat /\ Place(d)
      /\ \A d \in C : d \in D <=> d <= c \/ (nn # 0 /\ nn <= d)
  BY ChainBasic DEF Without
<1>2. Place(rest) /\ rest \in Nat /\ c < rest /\ rest # 0 /\ Length(m2, c) \in Nat /\ Length(m2, rest) \in Nat
  BY <1>1, Fields DEF Inserted, Place
<1>3. /\ c + 16 + Length(m2, c) <= rest /\ Length(m2, c) # 0
      /\ nn # 0 => rest + 16 + Length(m2, rest) <= nn /\ Length(m2, rest) # 0
      /\ nn = 0 => Length(m2, rest) = 0 /\ ~Allocated(m2, rest)
  BY <1>2 DEF Inserted, Room
<1>4. c + 16 <= rest /\ (nn # 0 => rest + 16 <= nn)
  BY <1>1, <1>2, <1>3
<1> HIDE DEF D
<1>5. \A d \in D : (d <= c /\ d < rest) \/ (nn # 0 /\ nn <= d /\ rest < d)
  <2> SUFFICES ASSUME NEW d \in D
               PROVE  (d <= c /\ d < rest) \/ (nn # 0 /\ nn <= d /\ rest < d)
    OBVIOUS
  <2>1. d \in Nat /\ (d <= c \/ (nn # 0 /\ nn <= d))
    BY <1>1
  <2> QED BY <2>1, <1>1, <1>2, <1>4
<1>6. rest \notin D /\ c \in E /\ rest \in E /\ (nn # 0 => nn \in E)
      /\ \A d \in E : d \in D \/ d = rest
  BY <1>1, <1>2, <1>5
<1> HIDE DEF E
<1>7. \A d \in D \ {c, nn} : Same(m2, m, d)
  <2> SUFFICES ASSUME NEW d \in D \ {c, nn} PROVE Same(m2, m, d)
    OBVIOUS
  <2>1. d \in C /\ d # 0 /\ d # c /\ d # nn /\ Place(d) /\ d \in Nat
    BY <1>1, ChainBasic
  <2>2. Apart(c, d)
    BY <1>1, <2>1, ChunksApart
  <2>3. nn # 0 => Apart(nn, d)
    BY <1>1, <2>1, ChunksApart
  <2>4. Apart(rest, d)
    <3>1. CASE d <= c
      <4>1. d + 16 <= c
        BY <3>1, <2>1, <2>2, <1>1 DEF Apart
      <4> QED BY <4>1, <2>1, <1>1, <1>2 DEF Apart
    <3>2. CASE nn # 0 /\ nn <= d
      BY <3>2, <2>1, <1>1, <1>2, <1>4 DEF Apart
    <3> QED BY <3>1, <3>2, <1>5
  <2>5. \A t \in {c, rest, nn} \ {0} : t \in Nat /\ Apart(t, d)
    BY <1>1, <1>2, <2>2, <2>3, <2>4
  <2>6. Outside(m2, m, {c, rest, nn} \ {0})
    BY DEF Inserted
  <2> QED BY <2>1, <2>5, <2>6, SameApart
<1>8. \A d \in E : Place(d) /\ HeapOffset <= d
  <2>1. HeapOffset <= c /\ HeapOffset <= rest
    BY <1>1, <1>2, ChainBasic, Sizes
  <2> QED BY <2>1, <1>1, <1>2, <1>6 DEF Chain
<1>9. HeapOffset \in D /\ HeapOffset \in E
  BY <1>1, ChainBasic DEF Chain, E
<1>10. \A d \in E : NextOK(m2, E, d)
  <2> SUFFICES ASSUME NEW d \in E PROVE NextOK(m2, E, d)
    OBVIOUS
  <2>0. \A x \in E : x \in Nat
    BY <1>1, <1>2, <1>6
  <2>1. CASE d = c
    <3>1. OffsetNext(m2, c) = rest /\ OffsetPrev(m2, rest) = c
      BY DEF Inserted
    <3>2. \A x \in E : x <= c \/ rest <= x
      BY <1>1, <1>2, <1>5, <1>6
    <3> QED BY <2>1, <3>1, <3>2, <1>2, <1>3, <1>6 DEF NextOK
  <2>2. CASE d = rest
    <3>1. OffsetNext(m2, rest) = nn /\ (nn # 0 => OffsetPrev(m2, nn) = rest)
      BY DEF Inserted, NewPrev
    <3>2. \A x \in E : x <= rest \/ (nn # 0 /\ nn <= x)
      BY <1>1, <1>2, <1>5, <1>6
    <3>3. CASE nn = 0
      BY <2>2, <3>1, <3>2, <3>3, <1>3 DEF NextOK
    <3>4. CASE nn # 0
      <4>1. rest < nn
        BY <3>4, <1>1, <1>2, <1>4
      <4> QED BY <2>2, <3>1, <3>2, <3>4, <4>1, <1>3, <1>6 DEF NextOK
    <3> QED BY <3>3, <3>4
  <2>3. CASE d = nn
    <3>1. nn # 0 /\ c < nn /\ nn \in C /\ OffsetNext(m, nn) \in Nat /\ NextOK(m, C, nn)
      <4>1. d # 0
        BY <1>1, <1>2, <1>6, ChainBasic
      <4> QED BY <4>1, <2>3, <1>1, ChainBasic DEF Chain
    <3>2. /\ OffsetNext(m2, nn) = OffsetNext(m, nn) /\ Length(m2, nn) = Length(m, nn)
          /\ (Allocated(m2, nn) <=> Allocated(m, nn))
      BY <3>1 DEF Inserted, NewPrev
    <3>3. \A x \in E : x \in C \/ x < nn
      BY <1>1, <1>2, <1>4, <1>6, <3>1
    <3>4. CASE OffsetNext(m, nn) = 0
      <4>1. \A x \in E : x <= nn
        BY <3>1, <3>3, <3>4, <2>0, <1>1 DEF NextOK
      <4> QED BY <2>3, <3>1, <3>2, <3>4, <4>1 DEF NextOK
    <3>5. CASE OffsetNext(m, nn) # 0
      <4> DEFINE e == OffsetNext(m, nn)
      <4>1. /\ e \in C /\ nn < e /\ OffsetPrev(m, e) = nn /\ e \in Nat
            /\ \A x \in C : x <= nn \/ e <= x
            /\ Length(m, nn) # 0 /\ nn + 16 + Length(m, nn) <= e
        BY <3>1, <3>5 DEF NextOK
      <4>2. e \in D \ {c, nn} /\ e \in E
        BY <4>1, <3>1, <1>1 DEF E
      <4>3. OffsetPrev(m2, e) = nn
        BY <4>1, <4>2, <1>7 DEF Same
      <4>4. \A x \in E : x <= nn \/ e <= x
        BY <4>1, <3>3, <2>0, <1>1
      <4> HIDE DEF e
      <4> QED BY <4>1, <4>2, <4>3, <4>4, <2>3, <3>1, <3>2, <3>5 DEF NextOK, e
    <3> QED BY <3>4, <3>5
  <2>4. CASE d # c /\ d # nn /\ d # rest
    <3>1. d \in D
      BY <2>4, <1>6
    <3>2. Same(m2, m, d) /\ NextOK(m, C, d) /\ d \in C /\ OffsetNext(m, d) \in Nat /\ d \in Nat
      BY <3>1, <2>4, <1>1, <1>7, ChainBasic DEF Chain
    <3>3. CASE d < c
      <4> DEFINE e == OffsetNext(m, d)
      <4>1. /\ e \in C /\ d < e /\ OffsetPrev(m, e) = d /\ e \in Nat /\ e # 0
            /\ \A x \in C : x <= d \/ e <= x
            /\ Length(m, d) # 0 /\ d + 16 + Length(m, d) <= e
        BY <3>2, <3>3, <1>1 DEF NextOK
      <4>2. e <= c /\ e \in D /\ e \in E /\ e # nn
        BY <4>1, <3>3, <1>1 DEF E
      <4>3. OffsetPrev(m2, e) = d
        BY <4>1, <4>2, <1>7 DEF Same, Inserted
      <4>4. \A x \in E : x <= d \/ e <= x
        BY <4>1, <4>2, <1>1, <1>2, <1>6
      <4> HIDE DEF e
      <4> QED BY <4>1, <4>2, <4>3, <4>4, <3>2 DEF NextOK, Same, e
    <3>4. CASE c < d
      <4>1. nn # 0 /\ nn < d /\ rest < d
        BY <3>1, <3>2, <3>4, <2>4, <1>1, <1>5
      <4>2. CASE OffsetNext(m, d) = 0
        <5>1. \A x \in E : x <= d
          BY <4>1, <4>2, <3>2, <1>1, <1>2, <1>6 DEF NextOK
        <5> QED BY <5>1, <4>2, <3>2 DEF NextOK, Same
      <4>3. CASE OffsetNext(m, d) # 0
        <5> DEFINE e == OffsetNext(m, d)
        <5>1. /\ e \in C /\ d < e /\ OffsetPrev(m, e) = d /\ e \in Nat /\ e # 0
              /\ \A x \in C : x <= d \/ e <= x
              /\ Length(m, d) # 0 /\ d + 16 + Length(m, d) <= e
          BY <3>2, <4>3 DEF NextOK
        <5>2. e \in D /\ e \in E /\ e # nn /\ e # c
          BY <5>1, <4>1, <3>2, <3>4, <1>1 DEF E
        <5>3. OffsetPrev(m2, e) = d
          BY <5>1, <5>2, <1>7 DEF Same
        <5>4. \A x \in E : x <= d \/ e <= x
          BY <5>1, <4>1, <3>2, <1>1, <1>2, <1>6
        <5> HIDE DEF e
        <5> QED BY <5>1, <5>2, <5>3, <5>4, <3>2 DEF NextOK, Same, e
      <4> QED BY <4>2, <4>3
    <3> QED BY <3>3, <3>4, <3>2, <2>4, <1>1
  <2> QED BY <2>1, <2>2, <2>3, <2>4
<1>11. \A d \in E : PrevOK(m2, E, d)
  <2> SUFFICES ASSUME NEW d \in E PROVE PrevOK(m2, E, d)
    OBVIOUS
  <2>1. CASE d = rest
    <3>1. rest # HeapOffset
      BY <1>6, <1>9
    <3> QED BY <2>1, <3>1, <1>6 DEF PrevOK, Inserted
  <2>2. CASE d = nn
    <3>1. nn # 0 /\ nn # HeapOffset
      BY <2>2, <1>1, <1>2, <1>6, ChainBasic, Sizes
    <3>2. OffsetPrev(m2, nn) = rest /\ OffsetNext(m2, rest) = nn
      BY <3>1 DEF Inserted, NewPrev
    <3> QED BY <2>2, <3>1, <3>2, <1>6 DEF PrevOK
  <2>3. CASE d # rest /\ d # nn
    <3>0. d \in D /\ d \in C /\ PrevOK(m, C, d) /\ d \in Nat /\ d # 0
      BY <2>3, <1>1, <1>6, ChainBasic DEF Chain
    <3>1. OffsetPrev(m2, d) = OffsetPrev(m, d)
      BY <2>3, <3>0, <1>7 DEF Same, Inserted
    <3>2. CASE d = HeapOffset
      BY <3>0, <3>1, <3>2 DEF PrevOK
    <3>3. CASE d # HeapOffset
      <4> DEFINE p == OffsetPrev(m, d)
      <4>1. p \in C /\ OffsetNext(m, p) = d /\ p \in Nat /\ p # 0
        BY <3>0, <3>3, ChainBasic DEF PrevOK
      <4>2. NextOK(m, C, p)
        BY <4>1 DEF Chain
      <4>3. p < d /\ \A x \in C : x <= p \/ d <= x
        BY <4>1, <4>2, <3>0 DEF NextOK
      <4>4. p \in D /\ p # c
        <5>1. CASE d <= c
          BY <5>1, <4>1, <4>3, <1>1, <3>0
        <5>2. CASE c < d
          <6>1. nn # 0 /\ nn < d
            BY <5>2, <1>1, <2>3, <3>0
          <6> QED BY <6>1, <4>1, <4>3, <1>1, <3>0
        <5> QED BY <5>1, <5>2, <3>0, <1>1
      <4>5. OffsetNext(m2, p) = d
        <5>1. CASE p = nn
          BY <5>1, <4>1 DEF Inserted, NewPrev
        <5>2. CASE p # nn
          BY <5>2, <4>1, <4>4, <1>7 DEF Same
        <5> QED BY <5>1, <5>2
      <4>6. p \in E
        BY <4>4 DEF E
      <4> QED BY <3>1, <3>3, <4>1, <4>6, <4>5 DEF PrevOK
    <3> QED BY <3>2, <3>3
  <2> QED BY <2>1, <2>2, <2>3
<1>12. \E d \in E : OffsetNext(m2, d) = 0
  <2>1. PICK z \in C : OffsetNext(m, z) = 0
    BY DEF Chain
  <2>2. \A d \in C : d <= z
    BY <2>1 DEF Chain, NextOK
  <2>3. CASE nn = 0
    BY <2>3, <1>6 DEF Inserted
  <2>4. CASE nn # 0
    <3>1. z \in D /\ z # c /\ z \in E
      BY <2>2, <2>4, <1>1 DEF E
    <3>2. OffsetNext(m2, z) = 0
      BY <3>1, <2>1, <2>4, <1>7 DEF Same, Inserted, NewPrev
    <3> QED BY <3>1, <3>2
  <2> QED BY <2>3, <2>4
<1> QED BY <1>6, <1>7, <1>8, <1>9, <1>10, <1>11, <1>12 DEF Chain, D, E
\* Nothing is between a chunk and the next one.
LEMMA WithoutNext ==
  ASSUME NEW m \in Mem, NEW C, Chain(m, C), NEW c \in C
  PROVE  /\ Without(C, c, OffsetNext(m, c)) = C
         /\ Gap(m, C, c, OffsetNext(m, c))
         /\ OffsetNext(m, c) \in C \union {0} /\ (OffsetNext(m, c) # 0 => c < OffsetNext(m, c))
<1>1. NextOK(m, C, c) /\ c \in Nat /\ OffsetNext(m, c) \in Nat /\ \A d \in C : d \in Nat
  BY ChainBasic DEF Chain
<1>2. Without(C, c, OffsetNext(m, c)) = C
  BY <1>1 DEF NextOK, Without
<1>3. Gap(m, C, c, OffsetNext(m, c))
  BY <1>1 DEF NextOK, Gap
<1> QED BY <1>1, <1>2, <1>3 DEF NextOK

\* No chunk in use is between c and nn.
LEMMA LiveWithout ==
  ASSUME NEW m \in Mem, NEW C, Chain(m, C), NEW c \in C, NEW nn \in C \union {0},
         nn # 0 => c < nn, Gap(m, C, c, nn)
  PROVE  Live(m, C) \subseteq Without(C, c, nn) \union {c}
<1>1. c \in Nat /\ nn \in Nat /\ \A d \in C : d \in Nat
  BY ChainBasic
<1> SUFFICES ASSUME NEW d \in C, Allocated(m, d), d # c PROVE d \in Without(C, c, nn)
  BY DEF Live
<1>2. ~(c < d /\ (nn # 0 => d < nn))
  BY DEF Gap
<1>3. d <= c \/ (nn # 0 /\ nn <= d)
  BY <1>1, <1>2
<1> QED BY <1>3 DEF Without

\* Joining chunks changes no other chunk that is in use.
LEMMA JoinLive ==
  ASSUME NEW m \in Mem, NEW m2 \in Mem, NEW C, Chain(m, C), NEW c \in C, NEW nn \in C \union {0},
         nn # 0 => c < nn, Joined(m2, m, c, nn), Gap(m, C, c, nn)
  PROVE  /\ Live(m2, Without(C, c, nn)) \ {c} = Live(m, C) \ {c}
         /\ Kept(m2, m, Live(m, C) \ {c})
         /\ \A a \in Words : c + 16 <= a /\ (nn # 0 => a < nn) => m2[a] = m[a]
<1> DEFINE D == Without(C, c, nn)
           T == {c, nn} \ {0}
<1>1. /\ \A d \in C : d \in Nat /\ HeapOffset <= d /\ d # 0 /\ Length(m, d) \in Nat
      /\ D \subseteq C /\ T \subseteq C /\ nn \in Nat /\ c \in T /\ (nn # 0 => nn \in T)
      /\ \A t \in T : t = c \/ t = nn
  BY ChainBasic DEF Without
<1>2. \A d \in D \ {c} : Length(m2, d) = Length(m, d) /\ (Allocated(m2, d) <=> Allocated(m, d))
  BY <1>1, JoinChain DEF Same, Joined, NewPrev
<1>3. Live(m, C) \ {c} \subseteq D
  BY LiveWithout
<1>4. Outside(m2, m, T)
  BY DEF Joined
<1>5. Words \subseteq Nat /\ HeapOffset \in Nat
  BY Sizes
<1> HIDE DEF D, T
<1>6. Live(m2, D) \ {c} = Live(m, C) \ {c}
  BY <1>1, <1>2, <1>3 DEF Live
<1>7. \A a \in Words : a < HeapOffset => m2[a] = m[a]
  <2> SUFFICES ASSUME NEW a \in Words, a < HeapOffset PROVE m2[a] = m[a]
    OBVIOUS
  <2>1. \A t \in T : a < t
    BY <1>1, <1>5
  <2> QED BY <2>1, <1>4 DEF Outside
<1>8. ASSUME NEW d \in Live(m, C) \ {c}, NEW a \in Words, d + 16 <= a, a < d + 16 + Length(m, d)
      PROVE  m2[a] = m[a]
  <2>0. d \in C /\ d \in Nat /\ Length(m, d) \in Nat /\ a \in Nat
    BY <1>1, <1>5 DEF Live
  <2>1. \A t \in T : a < t \/ t + 16 <= a
    <3> SUFFICES ASSUME NEW t \in T PROVE a < t \/ t + 16 <= a
      OBVIOUS
    <3>1. t \in C /\ t \in Nat
      BY <1>1
    <3>2. CASE t <= d
      BY <3>1, <3>2, <2>0, <1>8
    <3>3. CASE d < t
      <4>1. d + 16 + Length(m, d) <= t
        BY <3>1, <3>3, <2>0, ChainApart
      <4> QED BY <4>1, <3>1, <2>0, <1>8
    <3> QED BY <3>1, <3>2, <3>3, <2>0
  <2> QED BY <2>1, <1>4 DEF Outside
<1>9. Kept(m2, m, Live(m, C) \ {c})
  BY <1>2, <1>3, <1>7, <1>8 DEF Kept
<1>10. ASSUME NEW a \in Words, c + 16 <= a, nn # 0 => a < nn PROVE m2[a] = m[a]
  <2>1. \A t \in T : a < t \/ t + 16 <= a
    BY <1>1, <1>5, <1>10
  <2> QED BY <2>1, <1>4 DEF Outside
<1> QED BY <1>6, <1>9, <1>10 DEF D

\* Inserting a chunk changes no other chunk that is in use.
LEMMA InsertLive ==
  ASSUME NEW m \in Mem, NEW m2 \in Mem, NEW C, Chain(m, C), NEW c \in C, NEW nn \in C \union {0},
         nn # 0 => c < nn, NEW rest, Inserted(m2, m, c, rest, nn), Gap(m, C, c, nn)
  PROVE  /\ Live(m2, Without(C, c, nn) \union {rest}) \ {c, rest} = Live(m, C) \ {c}
         /\ Kept(m2, m, Live(m, C) \ {c})
<1> DEFINE D == Without(C, c, nn)
           T == {c, rest, nn} \ {0}
<1>1. /\ \A d \in C : d \in Nat /\ HeapOffset <= d /\ d # 0 /\ Length(m, d) \in Nat
      /\ D \subseteq C /\ nn \in Nat /\ c \in Nat
      /\ \A d \in D : d <= c \/ (nn # 0 /\ nn <= d)
  BY ChainBasic DEF Without
<1>2. \A d \in D \ {c} : Length(m2, d) = Length(m, d) /\ (Allocated(m2, d) <=> Allocated(m, d))
  <2>1. \A d \in D \ {c, nn} : Same(m2, m, d)
    BY InsertChain
  <2>2. NewPrev(m2, m, nn, rest)
    BY DEF Inserted
  <2>3. nn \in D => nn # 0
    BY <1>1, ChainBasic
  <2> QED BY <2>1, <2>2, <2>3 DEF Same, NewPrev
<1>3. Live(m, C) \ {c} \subseteq D /\ rest \notin D
  BY LiveWithout, InsertChain
<1>4. Outside(m2, m, T)
  BY DEF Inserted
<1>5. Words \subseteq Nat /\ HeapOffset \in Nat
  BY Sizes
<1>6. /\ rest \in Nat /\ c < rest /\ Length(m2, rest) \in Nat
      /\ nn # 0 => rest + 16 + Length(m2, rest) <= nn
  BY Fields DEF Inserted, Place, Room
<1>7. \A t \in T : t = c \/ t = rest \/ (t = nn /\ nn # 0 /\ nn \in C)
  OBVIOUS
<1> HIDE DEF D, T
<1>8. Live(m2, D \union {rest}) \ {c, rest} = Live(m, C) \ {c}
  BY <1>1, <1>2, <1>3 DEF Live
<1>9. \A a \in Words : a < HeapOffset => m2[a] = m[a]
  <2> SUFFICES ASSUME NEW a \in Words, a < HeapOffset PROVE m2[a] = m[a]
    OBVIOUS
  <2>1. \A t \in T : a < t
    BY <1>1, <1>5, <1>6, <1>7
  <2> QED BY <2>1, <1>4 DEF Outside
<1>10. ASSUME NEW d \in Live(m, C) \ {c}, NEW a \in Words, d + 16 <= a, a < d + 16 + Length(m, d)
       PROVE  m2[a] = m[a]
  <2>0. /\ d \in C /\ d \in D /\ d \in Nat /\ Length(m, d) \in Nat /\ a \in Nat /\ d # c
        /\ d <= c \/ (nn # 0 /\ nn <= d)
    BY <1>1, <1>3, <1>5 DEF Live
  <2>1. ASSUME NEW t \in C, t \in Nat PROVE a < t \/ t + 16 <= a
    <3>2. CASE t <= d
      BY <2>1, <3>2, <2>0, <1>10
    <3>3. CASE d < t
      <4>1. d + 16 + Length(m, d) <= t
        BY <2>1, <3>3, <2>0, ChainApart
      <4> QED BY <4>1, <2>1, <2>0, <1>10
    <3> QED BY <2>1, <3>2, <3>3, <2>0
  <2>2. a < rest \/ rest + 16 <= a
    <3>1. CASE d < c
      <4>1. d + 16 + Length(m, d) <= c
        BY <3>1, <2>0, ChainApart
      <4> QED BY <4>1, <1>1, <1>6, <2>0, <1>10
    <3>2. CASE nn # 0 /\ nn <= d
      BY <3>2, <1>1, <1>6, <2>0, <1>10
    <3> QED BY <3>1, <3>2, <2>0, <1>1
  <2>3. \A t \in T : a < t \/ t + 16 <= a
    BY <2>1, <2>2, <1>1, <1>7
  <2> QED BY <2>3, <1>4 DEF Outside
<1>11. Kept(m2, m, Live(m, C) \ {c})
  BY <1>2, <1>3, <1>9, <1>10 DEF Kept
<1> QED BY <1>8, <1>11 DEF D

\* Joining chunks leaves no free neighbours.
LEMMA JoinNoFree ==
  ASSUME NEW m \in Mem, NEW m2 \in Mem, NEW C, Chain(m, C), NEW c \in C, NEW nn \in C \union {0},
         nn # 0 => c < nn, Joined(m2, m, c, nn), NoFreeOut(m, C, c, nn),
         \/ Allocated(m2, c)
         \/ /\ c = HeapOffset \/ Allocated(m, OffsetPrev(m, c))
            /\ nn = 0 \/ Allocated(m, nn)
  PROVE  NoFree(m2, Without(C, c, nn))
<1> DEFINE D == Without(C, c, nn)
<1>1. /\ \A d \in C : d # 0
      /\ D \subseteq C /\ nn \in Nat /\ c \in Nat
  BY ChainBasic DEF Without
<1>2. \A d \in D \ {c} : /\ OffsetNext(m2, d) = OffsetNext(m, d)
                        /\ (Allocated(m2, d) <=> Allocated(m, d))
  BY <1>1, JoinChain DEF Same, Joined, NewPrev
<1>3. Chain(m2, D) /\ OffsetNext(m2, c) = nn /\ OffsetPrev(m2, c) = OffsetPrev(m, c)
  BY JoinChain DEF Joined
<1>4. \A d \in D : OffsetNext(m2, d) # 0 => OffsetNext(m2, d) \in D /\ OffsetPrev(m2, OffsetNext(m2, d)) = d
  BY <1>3 DEF Chain, NextOK
<1>5. NoFreeOut(m, C, c, nn)
  OBVIOUS
<1>6. OffsetPrev(m, HeapOffset) = 0 /\ HeapOffset \in C
  BY DEF Chain, PrevOK
<1> SUFFICES ASSUME NEW d \in D, OffsetNext(m2, d) # 0, ~Allocated(m2, d)
             PROVE  Allocated(m2, OffsetNext(m2, d))
  BY DEF NoFree
<1>7. CASE d = c
  <2>1. nn # 0 /\ Allocated(m, nn) /\ nn # c
    BY <1>1, <1>3, <1>7
  <2> QED BY <2>1, <1>2, <1>3, <1>4, <1>7
<1>8. CASE d # c /\ OffsetNext(m2, d) = c
  <2>1. OffsetPrev(m, c) = d
    BY <1>3, <1>4, <1>8
  <2>2. c # HeapOffset
    BY <2>1, <1>1, <1>6
  <2> QED BY <2>1, <2>2, <1>2, <1>8
<1>9. CASE d # c /\ OffsetNext(m2, d) # c
  <2>1. Allocated(m, OffsetNext(m, d))
    BY <1>2, <1>5, <1>9 DEF NoFreeOut
  <2> QED BY <2>1, <1>2, <1>4, <1>9
<1> QED BY <1>7, <1>8, <1>9

\* Inserting a free chunk between chunks in use leaves no free neighbours.
LEMMA InsertNoFree ==
  ASSUME NEW m \in Mem, NEW m2 \in Mem, NEW C, Chain(m, C), NEW c \in C, NEW nn \in C \union {0},
         nn # 0 => c < nn, NEW rest, Inserted(m2, m, c, rest, nn), NoFreeOut(m, C, c, nn),
         Allocated(m2, c), nn = 0 \/ Allocated(m, nn)
  PROVE  NoFree(m2, Without(C, c, nn) \union {rest})
<1> DEFINE D == Without(C, c, nn)
           E == D \union {rest}
<1>1. D \subseteq C /\ c \in Nat /\ nn \in Nat /\ c \in D /\ (nn # 0 => nn \in D)
  BY ChainBasic DEF Without
<1>2. \A d \in D \ {c} : /\ OffsetNext(m2, d) = OffsetNext(m, d)
                        /\ (Allocated(m2, d) <=> Allocated(m, d))
  <2>1. \A d \in D \ {c, nn} : Same(m2, m, d)
    BY InsertChain
  <2>2. NewPrev(m2, m, nn, rest)
    BY DEF Inserted
  <2>3. nn \in D => nn # 0
    BY <1>1, ChainBasic
  <2> QED BY <2>1, <2>2, <2>3 DEF Same, NewPrev
<1>3. Chain(m2, E) /\ rest \notin D
  BY InsertChain
<1>4. OffsetNext(m2, rest) = nn /\ OffsetPrev(m2, rest) = c
  BY DEF Inserted
<1>5. \A d \in E : OffsetNext(m2, d) # 0 => OffsetNext(m2, d) \in E /\ OffsetPrev(m2, OffsetNext(m2, d)) = d
  BY <1>3 DEF Chain, NextOK
<1>6. NoFreeOut(m, C, c, nn)
  OBVIOUS
<1> SUFFICES ASSUME NEW d \in E, OffsetNext(m2, d) # 0, ~Allocated(m2, d)
             PROVE  Allocated(m2, OffsetNext(m2, d))
  BY DEF NoFree
<1>7. CASE d = rest
  <2>1. nn # 0 /\ nn \in D /\ nn # c
    BY <1>1, <1>4, <1>7
  <2> QED BY <2>1, <1>2, <1>4, <1>7
<1>8. CASE d \in D
  <2>1. d # c
    OBVIOUS
  <2>2. OffsetNext(m2, d) # rest
    BY <2>1, <1>4, <1>5
  <2>3. CASE OffsetNext(m2, d) = c
    BY <2>3
  <2>4. CASE OffsetNext(m2, d) # c
    <3>1. Allocated(m, OffsetNext(m, d))
      BY <1>2, <1>6, <1>8, <2>1, <2>4 DEF NoFreeOut
    <3> QED BY <3>1, <2>1, <2>2, <2>4, <1>2, <1>5, <1>8
  <2> QED BY <2>3, <2>4
<1> QED BY <1>7, <1>8
-----------------------------------------------------------------------------
(* account_data_alloc                                                      *)

\* Without free neighbours there are none outside c .. nn.
LEMMA NoFreeAll ==
  ASSUME NEW m, NEW C, NoFree(m, C), NEW c, NEW nn
  PROVE  NoFreeOut(m, C, c, nn)
  BY DEF NoFree, NoFreeOut, Without

\* Chunk c is in use and reaches up to nn.
LEMMA JoinStep ==
  ASSUME NEW m \in Mem, NEW m2 \in Mem, NEW C, Heap(m, C), NEW c \in C, NEW nn \in C \union {0},
         nn # 0 => c < nn, Joined(m2, m, c, nn), Gap(m, C, c, nn), Allocated(m2, c)
  PROVE  Holding(m2, Without(C, c, nn), m, Live(m, C) \ {c}, c, Length(m2, c))
<1> DEFINE D == Without(C, c, nn)
<1>1. Chain(m, C) /\ NoFree(m, C) /\ NoFreeOut(m, C, c, nn)
  BY NoFreeAll DEF Heap
<1>2. Chain(m2, D)
  BY <1>1, JoinChain
<1>3. NoFree(m2, D)
  BY <1>1, JoinNoFree
<1>4. Live(m2, D) \ {c} = Live(m, C) \ {c} /\ Kept(m2, m, Live(m, C) \ {c})
  BY <1>1, JoinLive
<1>5. c \in D
  BY <1>1, ChainBasic DEF Without
<1>6. c \in Live(m2, D)
  BY <1>5 DEF Live
<1>7. Live(m2, D) = (Live(m, C) \ {c}) \union {c}
  BY <1>4, <1>6
<1> QED BY <1>2, <1>3, <1>4, <1>5, <1>7 DEF Holding, Heap

\* Chunk c is in use and a free chunk separates it from nn.
LEMMA InsertStep ==
  ASSUME NEW m \in Mem, NEW m2 \in Mem, NEW C, Heap(m, C), NEW c \in C, NEW nn \in C \union {0},
         nn # 0 => c < nn, NEW rest, Inserted(m2, m, c, rest, nn), Gap(m, C, c, nn),
         Allocated(m2, c), ~Allocated(m2, rest), nn = 0 \/ Allocated(m, nn)
  PROVE  Holding(m2, Without(C, c, nn) \union {rest}, m, Live(m, C) \ {c}, c, Length(m2, c))
<1> DEFINE E == Without(C, c, nn) \union {rest}
<1>1. Chain(m, C) /\ NoFree(m, C) /\ NoFreeOut(m, C, c, nn)
  BY NoFreeAll DEF Heap
<1>2. Chain(m2, E)
  BY <1>1, InsertChain
<1>3. NoFree(m2, E)
  BY <1>1, InsertNoFree
<1>4. Live(m2, E) \ {c, rest} = Live(m, C) \ {c} /\ Kept(m2, m, Live(m, C) \ {c})
  BY <1>1, InsertLive
<1>5. c \in E
  BY <1>1, ChainBasic DEF Without
<1>6. c \in Live(m2, E) /\ rest \notin Live(m2, E)
  BY <1>5 DEF Live
<1>7. Live(m2, E) = (Live(m, C) \ {c}) \union {c}
  BY <1>4, <1>6
<1> QED BY <1>2, <1>3, <1>4, <1>5, <1>7 DEF Holding, Heap

\* The header of c is written.
Header(m1, m, c, next, size) ==
  /\ Outside(m1, m, {c}) /\ OffsetNext(m1, c) = next /\ OffsetPrev(m1, c) = OffsetPrev(m, c)
  /\ Length(m1, c) = size /\ Allocated(m1, c)

\* The words from lo up to hi are the same.
Intact(m2, m, lo, hi) == \A a \in Words : lo <= a /\ a < hi => m2[a] = m[a]

\* The rest of a chunk becomes a free one.
LEMMA FreeUpToFacts ==
  ASSUME NEW m \in Mem, NEW m1 \in Mem, NEW C, Heap(m, C), NEW c \in C, NEW nn \in C \union {0},
         nn # 0 => c < nn, Gap(m, C, c, nn), nn = 0 \/ Allocated(m, nn),
         NEW rest, Place(rest), NEW size \in Nat, size # 0, c + 16 + size <= rest,
         nn # 0 => rest + 16 < nn, Header(m1, m, c, rest, size),
         NEW m2, m2 = FreeUpTo(m1, rest, c, nn)
  PROVE  /\ Holding(m2, Without(C, c, nn) \union {rest}, m, Live(m, C) \ {c}, c, size)
         /\ Intact(m2, m, c + 16, rest)
<1>1. /\ Chain(m, C) /\ Place(c) /\ c \in Nat /\ c # 0 /\ nn \in Nat /\ rest \in Nat
      /\ (nn # 0 => Place(nn) /\ nn + 16 <= DataLen /\ OffsetNext(m, nn) \in Nat)
      /\ Outside(m1, m, {c})
  BY ChainBasic DEF Heap, Place, Header
<1>2. /\ c < rest /\ Apart(rest, c) /\ rest # 0
      /\ nn # 0 => Apart(c, nn) /\ Apart(rest, nn) /\ Apart(nn, c) /\ Apart(nn, rest)
  BY <1>1 DEF Apart
<1> DEFINE T == {c, rest, nn} \ {0}
<1>3. {c} \subseteq T /\ {rest} \subseteq T /\ (nn # 0 => {nn} \subseteq T)
  BY <1>1, <1>2
<1> HIDE DEF T
<1>4. /\ m2 \in Mem /\ Inserted(m2, m, c, rest, nn)
      /\ ~Allocated(m2, rest) /\ Allocated(m2, c) /\ Length(m2, c) = size
  <2>1. CASE nn = 0
    <3>1. m2 = SetChunk(m1, rest, 0, c, 0, 0)
      BY <2>1 DEF FreeUpTo
    <3>2. /\ m2 \in Mem /\ Outside(m2, m1, {rest}) /\ OffsetNext(m2, rest) = 0
          /\ OffsetPrev(m2, rest) = c /\ Length(m2, rest) = 0 /\ ~Allocated(m2, rest)
      BY <1>1, <3>1, SetChunkFacts
    <3>3. Same(m2, m1, c)
      BY <1>1, <1>2, <3>2, SameApart
    <3>4. Outside(m2, m, T)
      BY <1>1, <1>3, <3>2, OutsideChain
    <3> QED BY <1>1, <1>2, <2>1, <3>2, <3>3, <3>4 DEF Inserted, Header, Same, Room, NewPrev, T
  <2>2. CASE nn # 0
    <3> DEFINE len == nn - rest - 16
               m3 == SetChunk(m1, rest, nn, c, len, 0)
    <3>1. len \in Nat /\ len # 0 /\ len < U32 /\ rest + 16 + len <= nn
      BY <1>1, <2>2, Sizes
    <3>2. m2 = SetPrev(m3, nn, rest)
      BY <2>2, <3>1, WrapFacts DEF FreeUpTo, InsertBefore, HdrSize
    <3> HIDE DEF len
    <3>3. /\ m3 \in Mem /\ Outside(m3, m1, {rest}) /\ OffsetNext(m3, rest) = nn
          /\ OffsetPrev(m3, rest) = c /\ Length(m3, rest) = len /\ ~Allocated(m3, rest)
      BY <1>1, <3>1, SetChunkFacts
    <3> HIDE DEF m3
    <3>4. /\ m2 \in Mem /\ Outside(m2, m3, {nn}) /\ OffsetNext(m2, nn) = OffsetNext(m3, nn)
          /\ OffsetPrev(m2, nn) = rest /\ Length(m2, nn) = Length(m3, nn)
          /\ Allocated(m2, nn) <=> Allocated(m3, nn)
      BY <1>1, <2>2, <3>2, <3>3, SetPrevFacts
    <3>5. Same(m2, m3, c) /\ Same(m2, m3, rest)
      BY <1>1, <1>2, <2>2, <3>3, <3>4, SameApart
    <3>6. Same(m3, m1, c) /\ Same(m3, m1, nn)
      BY <1>1, <1>2, <2>2, <3>3, SameApart
    <3>7. Same(m1, m, nn)
      BY <1>1, <1>2, <2>2, SameApart
    <3>8. Outside(m3, m, T)
      BY <1>1, <1>3, <3>3, OutsideChain
    <3>9. Outside(m2, m, T)
      BY <1>3, <2>2, <3>4, <3>8, OutsideChain
    <3>10. NewPrev(m2, m, nn, rest)
      BY <3>4, <3>6, <3>7 DEF NewPrev, Same
    <3>11. Room(m2, rest, nn) /\ Room(m2, c, rest)
      BY <1>1, <1>2, <2>2, <3>1, <3>3, <3>5, <3>6 DEF Room, Same, Header
    <3>12. /\ OffsetNext(m2, c) = rest /\ OffsetPrev(m2, c) = OffsetPrev(m, c)
           /\ OffsetNext(m2, rest) = nn /\ OffsetPrev(m2, rest) = c
           /\ ~Allocated(m2, rest) /\ Allocated(m2, c) /\ Length(m2, c) = size
      BY <3>3, <3>5, <3>6 DEF Same, Header
    <3> QED BY <1>2, <3>4, <3>9, <3>10, <3>11, <3>12 DEF Inserted, T
  <2> QED BY <2>1, <2>2
<1>5. Holding(m2, Without(C, c, nn) \union {rest}, m, Live(m, C) \ {c}, c, Length(m2, c))
  BY <1>4, InsertStep
<1>6. Intact(m2, m, c + 16, rest)
  <2> SUFFICES ASSUME NEW a \in Words, c + 16 <= a, a < rest PROVE m2[a] = m[a]
    BY DEF Intact
  <2>1. Outside(m2, m, T)
    BY <1>4 DEF Inserted, T
  <2>2. a \in Nat
    BY Sizes
  <2>3. \A t \in T : a < t \/ t + 16 <= a
    BY <1>1, <2>2 DEF T
  <2> QED BY <2>1, <2>3 DEF Outside
<1> QED BY <1>4, <1>5, <1>6

\* account_data_alloc at the end of the list.
LEMMA AllocTailFacts ==
  ASSUME NEW m \in Mem, NEW C, Heap(m, C), NEW c \in C, NEW size, Small(size), size # 0,
         OffsetNext(m, c) = 0, AllocTail(m, c, OffsetPrev(m, c), size).ok
  PROVE  LET r == AllocTail(m, c, OffsetPrev(m, c), size)
         IN  r.res = c + 16 /\ \E C2 : Holding(r.mem, C2, m, Live(m, C) \ {c}, c, size)
<1> DEFINE rest == c + 16 + RoundUp8(size)
           m1 == SetChunk(m, c, rest, OffsetPrev(m, c), size, 1)
           m2 == SetChunk(m1, rest, 0, c, 0, 0)
<1>1. /\ Chain(m, C) /\ Place(c) /\ c \in Nat /\ c + 16 <= DataLen /\ c # 0 /\ OffsetPrev(m, c) \in Nat
      /\ c % 8 = 0
  BY ChainBasic DEF Heap, Place
<1>2. /\ RoundUp8(size) \in Nat /\ RoundUp8(size) % 8 = 0 /\ size \in Nat
      /\ size <= RoundUp8(size) /\ RoundUp8(size) < size + 8 /\ size + DataLen + 64 < U32
  BY RoundFacts
<1>3. rest \in Nat /\ rest < U32 /\ rest % 8 = 0 /\ rest # 0 /\ DataLen \in Nat
  BY <1>1, <1>2, Sizes
<1>4. Wrap(c + HdrSize + RoundUp8(size)) = rest
  BY <1>3, WrapFacts DEF HdrSize
<1>5. rest + 16 < DataLen /\ AllocTail(m, c, OffsetPrev(m, c), size) = Done(m2, c + 16)
  <2>1. AllocTail(m, c, OffsetPrev(m, c), size)
          = IF rest + 16 >= DataLen THEN Failed(m) ELSE Done(m2, c + 16)
    BY <1>4 DEF AllocTail, HdrSize
  <2>2. ~(rest + 16 >= DataLen)
    <3> SUFFICES ASSUME rest + 16 >= DataLen PROVE FALSE
      OBVIOUS
    <3> HIDE DEF rest, m2
    <3>1. AllocTail(m, c, OffsetPrev(m, c), size) = Failed(m)
      BY <2>1
    <3>2. Failed(m).ok = FALSE
      BY DEF Failed
    <3> QED BY <3>1, <3>2
  <2> QED BY <2>1, <2>2, <1>3
<1>6. Place(rest) /\ c + 16 + size <= rest
  BY <1>1, <1>2, <1>3, <1>5 DEF Place
<1>7. m2 = FreeUpTo(m1, rest, c, 0)
  BY DEF FreeUpTo
<1> HIDE DEF rest, m2
<1>a. m1 = SetChunk(m, c, rest, OffsetPrev(m, c), size, 1)
  OBVIOUS
<1> HIDE DEF m1
<1>8. /\ m1 \in Mem /\ Outside(m1, m, {c}) /\ OffsetNext(m1, c) = rest
      /\ OffsetPrev(m1, c) = OffsetPrev(m, c) /\ Length(m1, c) = size /\ Allocated(m1, c)
  BY <1>1, <1>2, <1>3, <1>a, SetChunkFacts
<1>9. Gap(m, C, c, 0) /\ Header(m1, m, c, rest, size)
  BY <1>1, <1>8, WithoutNext DEF Header
<1>10. Holding(m2, Without(C, c, 0) \union {rest}, m, Live(m, C) \ {c}, c, size)
  BY <1>2, <1>6, <1>7, <1>8, <1>9, FreeUpToFacts
<1> QED BY <1>5, <1>10 DEF Done

\* account_data_alloc takes a whole chunk.
LEMMA AllocWholeFacts ==
  ASSUME NEW m \in Mem, NEW C, Heap(m, C), NEW c \in C, NEW size, Small(size), size # 0,
         RoundUp8(size) <= Length(m, c)
  PROVE  LET r == AllocWhole(m, c, size)
         IN  r.res = c + 16 /\ \E C2 : Holding(r.mem, C2, m, Live(m, C) \ {c}, c, size)
<1> DEFINE m1 == SetFlag(m, c, 1)
           m2 == SetLength(m1, c, size)
           next == OffsetNext(m, c)
<1>1. /\ Chain(m, C) /\ Place(c) /\ c \in Nat /\ c # 0 /\ next \in Nat
      /\ Length(m, c) \in Nat /\ Room(m, c, next)
  BY ChainBasic DEF Heap
<1>2. RoundUp8(size) \in Nat /\ size \in Nat /\ size <= RoundUp8(size)
  BY RoundFacts
<1>3. next # 0 /\ c + 16 + Length(m, c) <= next
  BY <1>1, <1>2 DEF Room
<1>4. next \in C \union {0} /\ c < next /\ Gap(m, C, c, next)
  BY <1>1, <1>3, WithoutNext
<1>5. next \in C /\ Place(next) /\ Apart(c, next) /\ OffsetNext(m, next) \in Nat
  BY <1>1, <1>3, <1>4, ChainBasic DEF Apart
<1> HIDE DEF next
<1>6. /\ m1 \in Mem /\ Outside(m1, m, {c}) /\ OffsetNext(m1, c) = OffsetNext(m, c)
      /\ OffsetPrev(m1, c) = OffsetPrev(m, c) /\ Allocated(m1, c)
  BY <1>1, SetFlagFacts
<1> HIDE DEF m1
<1>7. /\ m2 \in Mem /\ Outside(m2, m1, {c}) /\ OffsetNext(m2, c) = OffsetNext(m, c)
      /\ OffsetPrev(m2, c) = OffsetPrev(m, c) /\ Allocated(m2, c) /\ Length(m2, c) = size
  BY <1>1, <1>2, <1>6, SetLengthFacts
<1>8. AllocWhole(m, c, size) = Done(m2, c + 16)
  BY DEF AllocWhole, m1, HdrSize
<1> HIDE DEF m2
<1>9. Outside(m2, m, {c})
  BY <1>6, <1>7, OutsideChain
<1>10. Same(m2, m, next)
  BY <1>1, <1>5, <1>7, <1>9, SameApart
<1>11. Outside(m2, m, {c, next} \ {0})
  BY <1>1, <1>9 DEF Outside
<1>12. OffsetPrev(m, next) = c
  BY <1>1, <1>3 DEF Chain, NextOK, next
<1>13. Joined(m2, m, c, next)
  <2>1. c + 16 + size <= next
    BY <1>1, <1>2, <1>3
  <2> QED BY <2>1, <1>1, <1>2, <1>3, <1>7, <1>10, <1>11, <1>12 DEF Joined, Same, Room, NewPrev, next
<1>14. Holding(m2, Without(C, c, next), m, Live(m, C) \ {c}, c, size)
  BY <1>4, <1>5, <1>7, <1>13, JoinStep
<1> QED BY <1>8, <1>14 DEF Done
\* account_data_alloc splits a chunk.
LEMMA AllocSplitFacts ==
  ASSUME NEW m \in Mem, NEW C, Heap(m, C), NEW c \in C, NEW size, Small(size), size # 0,
         RoundUp8(size) + 24 <= Length(m, c), ~Allocated(m, c)
  PROVE  LET r == AllocSplit(m, c, size)
         IN  r.res = c + 16 /\ \E C2 : Holding(r.mem, C2, m, Live(m, C) \ {c}, c, size)
<1> DEFINE next == OffsetNext(m, c)
           rest == c + 16 + RoundUp8(size)
           m1 == SetNext(m, c, rest)
           m2 == SetLength(m1, c, size)
           m3 == SetFlag(m2, c, 1)
           m4 == FreeUpTo(m3, rest, c, next)
<1>1. /\ Chain(m, C) /\ NoFree(m, C) /\ Place(c) /\ c \in Nat /\ c # 0 /\ next \in Nat
      /\ Length(m, c) \in Nat /\ Room(m, c, next) /\ c % 8 = 0
  BY ChainBasic DEF Heap, Place
<1>2. /\ RoundUp8(size) \in Nat /\ RoundUp8(size) % 8 = 0 /\ size \in Nat /\ size <= RoundUp8(size)
  BY RoundFacts
<1>3. next # 0 /\ c + 16 + Length(m, c) <= next
  BY <1>1, <1>2 DEF Room
<1>4. next \in C \union {0} /\ c < next /\ Gap(m, C, c, next) /\ Allocated(m, next)
  BY <1>1, <1>3, WithoutNext DEF NoFree
<1>5. next + 16 <= DataLen /\ DataLen \in Nat
  BY <1>1, <1>3, <1>4, ChainBasic, Sizes
<1>6. /\ rest \in Nat /\ rest % 8 = 0 /\ rest + 16 < next /\ c + 16 + size <= rest
      /\ rest + 16 <= DataLen
  BY <1>1, <1>2, <1>3, <1>5
<1>7. Place(rest)
  BY <1>6 DEF Place
<1>8. AllocSplit(m, c, size) = Done(m4, c + 16)
  BY <1>3 DEF AllocSplit, HdrSize, FreeUpTo, InsertBefore
<1> HIDE DEF m4, rest, next
<1>9. /\ m1 \in Mem /\ Outside(m1, m, {c}) /\ OffsetNext(m1, c) = rest
      /\ OffsetPrev(m1, c) = OffsetPrev(m, c)
  BY <1>1, <1>6, SetNextFacts
<1> HIDE DEF m1
<1>10. /\ m2 \in Mem /\ Outside(m2, m1, {c}) /\ OffsetNext(m2, c) = rest
       /\ OffsetPrev(m2, c) = OffsetPrev(m, c) /\ Length(m2, c) = size
  BY <1>1, <1>2, <1>9, SetLengthFacts
<1> HIDE DEF m2
<1>11. /\ m3 \in Mem /\ Outside(m3, m2, {c}) /\ OffsetNext(m3, c) = rest
       /\ OffsetPrev(m3, c) = OffsetPrev(m, c) /\ Length(m3, c) = size /\ Allocated(m3, c)
  BY <1>1, <1>10, SetFlagFacts
<1>12. m4 = FreeUpTo(m3, rest, c, next)
  BY DEF m4
<1> HIDE DEF m3
<1>13. Outside(m2, m, {c})
  BY <1>9, <1>10, OutsideChain
<1>14. Outside(m3, m, {c})
  BY <1>11, <1>13, OutsideChain
<1>15. Header(m3, m, c, rest, size)
  BY <1>11, <1>14 DEF Header
<1>16. Holding(m4, Without(C, c, next) \union {rest}, m, Live(m, C) \ {c}, c, size)
  BY <1>2, <1>4, <1>6, <1>7, <1>11, <1>12, <1>15, FreeUpToFacts
<1> QED BY <1>8, <1>16 DEF Done

\* account_data_alloc, at the chunk where its search stops.
LEMMA AllocAtFacts ==
  ASSUME NEW m \in Mem, NEW C, Heap(m, C), NEW c \in C, NEW size, Small(size), size # 0,
         StopsAt(m, c, size), AllocAt(m, c, OffsetPrev(m, c), size).ok
  PROVE  LET r == AllocAt(m, c, OffsetPrev(m, c), size)
         IN  r.res = c + 16 /\ \E C2 : Holding(r.mem, C2, m, Live(m, C), c, size)
<1>1. /\ Chain(m, C) /\ Length(m, c) \in Nat /\ Room(m, c, OffsetNext(m, c))
      /\ ~Allocated(m, c) /\ (Length(m, c) = 0 \/ Length(m, c) >= RoundUp8(size))
  BY ChainBasic DEF Heap, StopsAt
<1>2. RoundUp8(size) \in Nat
  BY RoundFacts
<1>3. Live(m, C) \ {c} = Live(m, C)
  BY <1>1 DEF Live
<1>4. CASE Length(m, c) = 0
  <2>1. OffsetNext(m, c) = 0
    BY <1>1, <1>4 DEF Room
  <2>2. AllocAt(m, c, OffsetPrev(m, c), size) = AllocTail(m, c, OffsetPrev(m, c), size)
    BY <1>4 DEF AllocAt
  <2> QED BY <1>3, <2>1, <2>2, AllocTailFacts
<1>5. CASE Length(m, c) # 0 /\ RoundUp8(size) + 24 > Length(m, c)
  <2>1. AllocAt(m, c, OffsetPrev(m, c), size) = AllocWhole(m, c, size)
    BY <1>1, <1>2, <1>5 DEF AllocAt, HdrSize
  <2>2. RoundUp8(size) <= Length(m, c)
    BY <1>1, <1>2, <1>5
  <2> QED BY <1>3, <2>1, <2>2, AllocWholeFacts
<1>6. CASE Length(m, c) # 0 /\ ~(RoundUp8(size) + 24 > Length(m, c))
  <2>1. AllocAt(m, c, OffsetPrev(m, c), size) = AllocSplit(m, c, size)
    BY <1>1, <1>2, <1>6 DEF AllocAt, HdrSize
  <2>2. RoundUp8(size) + 24 <= Length(m, c)
    BY <1>1, <1>2, <1>6
  <2> QED BY <1>1, <1>3, <2>1, <2>2, AllocSplitFacts
<1> QED BY <1>4, <1>5, <1>6
-----------------------------------------------------------------------------
(* The walk along the list                                                 *)

\* A set of natural numbers has a least element: with the least index that
\* a statement fails for, it is induction over the list.
LEMMA Smallest ==
  ASSUME NEW T, T \subseteq Nat, T # {}
  PROVE  \E n \in T : \A k \in T : n <= k
<1> DEFINE R == OpToRel(<, Nat)
<1>1. IsWellFoundedOn(R, Nat)
  BY NatLessThanWellFounded
<1>2. \A x, y \in Nat : x < y => <<x, y>> \in R
  BY DEF OpToRel
<1> HIDE DEF R
<1>3. PICK n \in T : \A k \in T : ~(<<k, n>> \in R)
  BY <1>1, WFMin
<1>4. \A k \in T : ~(k < n)
  BY <1>2, <1>3
<1> QED BY <1>4

\* The recursion that Walk is defined by.
LEMMA WalkDef ==
  ASSUME NEW m
  PROVE  /\ Walk(m)[0] = HeapOffset
         /\ \A n \in 1 .. MaxChunks : Walk(m)[n] = OffsetNext(m, Walk(m)[n - 1])
<1> DEFINE Is(k, f) == f = [n \in 0 .. k |-> IF n = 0 THEN HeapOffset ELSE OffsetNext(m, f[n - 1])]
           Bad == {k \in Nat : ~\E f : Is(k, f)}
<1>1. Bad = {}
  <2> SUFFICES ASSUME Bad # {} PROVE FALSE
    OBVIOUS
  <2>1. Bad \subseteq Nat
    OBVIOUS
  <2>2. PICK k \in Bad : \A j \in Bad : k <= j
    BY <2>1, Smallest
  <2>3. CASE k = 0
    <3> DEFINE f == [n \in 0 .. 0 |-> HeapOffset]
    <3>1. \A n \in 0 .. 0 : n = 0
      OBVIOUS
    <3>2. Is(0, f)
      BY <3>1
    <3> QED BY <2>2, <2>3, <3>2
  <2>4. CASE k # 0
    <3>1. k \in Nat /\ k - 1 \in Nat /\ k - 1 \notin Bad
      <4>1. k \in Nat /\ k - 1 \in Nat
        BY <2>1, <2>2, <2>4
      <4> HIDE DEF Bad
      <4> QED BY <2>2, <4>1
    <3>2. PICK f : Is(k - 1, f)
      BY <3>1
    <3> DEFINE g == [n \in 0 .. k |-> IF n = k THEN OffsetNext(m, f[k - 1]) ELSE f[n]]
               h == [n \in 0 .. k |-> IF n = 0 THEN HeapOffset ELSE OffsetNext(m, g[n - 1])]
    <3>3. \A n \in 0 .. k - 1 : f[n] = IF n = 0 THEN HeapOffset ELSE OffsetNext(m, f[n - 1])
      BY <3>2
    <3>4. \A n \in 0 .. k : g[n] = h[n]
      <4> SUFFICES ASSUME NEW n \in 0 .. k PROVE g[n] = h[n]
        OBVIOUS
      <4>1. CASE n = k
        <5>1. k - 1 \in 0 .. k /\ k - 1 # k
          BY <3>1
        <5>2. g[k - 1] = f[k - 1]
          BY <5>1
        <5> QED BY <4>1, <5>2, <2>4
      <4>2. CASE n # k /\ n # 0
        <5>1. n - 1 \in 0 .. k /\ n - 1 # k /\ n \in 0 .. k - 1
          BY <4>2, <3>1
        <5>2. g[n - 1] = f[n - 1] /\ f[n] = OffsetNext(m, f[n - 1])
          BY <5>1, <4>2, <3>3
        <5> QED BY <5>2, <4>2
      <4>3. CASE n # k /\ n = 0
        <5>1. f[0] = HeapOffset
          BY <3>1, <3>3
        <5> QED BY <5>1, <4>3
      <4> QED BY <4>1, <4>2, <4>3
    <3>5. g = h
      BY <3>4
    <3>6. Is(k, g)
      BY <3>5
    <3> HIDE DEF g
    <3> QED BY <3>6, <2>2
  <2> QED BY <2>3, <2>4
<1>2. \E f : Is(MaxChunks, f)
  BY <1>1, Sizes
<1>3. Walk(m) = CHOOSE f : Is(MaxChunks, f)
  BY DEF Walk
<1> HIDE DEF Is
<1>4. Is(MaxChunks, Walk(m))
  BY <1>2, <1>3
<1>5. 0 \in 0 .. MaxChunks /\ \A n \in 1 .. MaxChunks : n \in 0 .. MaxChunks /\ n # 0
  BY Sizes
<1> QED BY <1>4, <1>5 DEF Is
\* The walk goes through the chunks in order, and then reads the account header.
LEMMA WalkFacts ==
  ASSUME NEW m \in Mem, NEW C, Chain(m, C)
  PROVE  \E k \in 0 .. MaxChunks :
           /\ OffsetNext(m, Walk(m)[k]) = 0
           /\ C = {Walk(m)[n] : n \in 0 .. k}
           /\ \A n \in 0 .. k : OffsetPrev(m, Walk(m)[n]) = IF n = 0 THEN 0 ELSE Walk(m)[n - 1]
           /\ m[0] = 1 => \A n \in k + 1 .. MaxChunks : Walk(m)[n] \in {0, 1}
<1> DEFINE at == Walk(m)
           On(n) == \A i \in 0 .. n - 1 : OffsetNext(m, at[i]) # 0
           Bad == {n \in 0 .. MaxChunks : On(n) /\ ~(at[n] \in C /\ at[n] >= HeapOffset + 16 * n)}
           Ends == {n \in 0 .. MaxChunks : OffsetNext(m, at[n]) = 0}
<1>1. /\ MaxChunks \in Nat /\ HeapOffset \in Nat /\ DataLen \in Nat /\ MaxChunks * 16 >= DataLen
      /\ Bad \subseteq Nat /\ Ends \subseteq Nat
  BY AccountDataAssumption
<1>2. at[0] = HeapOffset /\ \A n \in 1 .. MaxChunks : at[n] = OffsetNext(m, at[n - 1])
  BY WalkDef
<1>3. /\ \A c \in C : c \in Nat /\ c + 16 <= DataLen /\ HeapOffset <= c /\ c # 0 /\ NextOK(m, C, c)
      /\ HeapOffset \in C
      /\ \A c \in C : Length(m, c) \in Nat /\ OffsetNext(m, c) \in Nat
  BY ChainBasic DEF Chain
<1> HIDE DEF at
<1>4. Bad = {}
  <2> SUFFICES ASSUME Bad # {} PROVE FALSE
    OBVIOUS
  <2>1. PICK n \in Bad : \A j \in Bad : n <= j
    BY <1>1, Smallest
  <2>2. n \in 0 .. MaxChunks /\ On(n) /\ ~(at[n] \in C /\ at[n] >= HeapOffset + 16 * n)
    BY <2>1
  <2>3. n # 0
    BY <2>2, <1>2, <1>3, <1>1
  <2>4. n - 1 \in 0 .. MaxChunks /\ n - 1 \in 0 .. n - 1 /\ n \in 1 .. MaxChunks
    BY <2>2, <2>3, <1>1
  <2>5. On(n - 1) /\ OffsetNext(m, at[n - 1]) # 0
    BY <2>2, <2>4
  <2>6. n - 1 \notin Bad
    <3> HIDE DEF Bad
    <3> QED BY <2>1, <2>4
  <2>7. at[n - 1] \in C /\ at[n - 1] >= HeapOffset + 16 * (n - 1)
    BY <2>4, <2>5, <2>6
  <2>8. at[n] = OffsetNext(m, at[n - 1])
    BY <1>2, <2>4
  <2>9. at[n] \in C /\ at[n - 1] + 16 + Length(m, at[n - 1]) <= at[n]
    BY <1>3, <2>5, <2>7, <2>8 DEF NextOK
  <2>10. /\ at[n - 1] \in Nat /\ at[n] \in Nat /\ Length(m, at[n - 1]) \in Nat /\ n \in Nat
    BY <1>3, <2>4, <2>7, <2>9
  <2>11. at[n] >= HeapOffset + 16 * n
    BY <2>7, <2>9, <2>10, <1>1
  <2> QED BY <2>2, <2>9, <2>11
<1>5. Ends # {}
  <2> SUFFICES ASSUME Ends = {} PROVE FALSE
    OBVIOUS
  <2>1. MaxChunks \in 0 .. MaxChunks /\ \A i \in 0 .. MaxChunks - 1 : i \in 0 .. MaxChunks
    BY <1>1
  <2>2. On(MaxChunks)
    BY <2>1
  <2>3. at[MaxChunks] \in C /\ at[MaxChunks] >= HeapOffset + 16 * MaxChunks
    BY <1>4, <2>1, <2>2
  <2>4. at[MaxChunks] \in Nat /\ at[MaxChunks] + 16 <= DataLen
    BY <2>3, <1>3
  <2> QED BY <2>3, <2>4, <1>1
<1>6. PICK k \in Ends : \A j \in Ends : k <= j
  BY <1>1, <1>5, Smallest
<1>7. k \in 0 .. MaxChunks /\ OffsetNext(m, at[k]) = 0 /\ k \in Nat
  BY <1>6, <1>1
<1>8. \A n \in 0 .. MaxChunks : n < k => OffsetNext(m, at[n]) # 0
  <2>1. \A n \in 0 .. MaxChunks : n < k => n \notin Ends
    <3> HIDE DEF Ends
    <3> QED BY <1>6, <1>7, <1>1
  <2> QED BY <2>1
<1>9. \A n \in 0 .. k : at[n] \in C /\ n \in 0 .. MaxChunks
  <2> SUFFICES ASSUME NEW n \in 0 .. k PROVE at[n] \in C /\ n \in 0 .. MaxChunks
    OBVIOUS
  <2>1. n \in 0 .. MaxChunks /\ \A i \in 0 .. n - 1 : i \in 0 .. MaxChunks /\ i < k
    BY <1>7, <1>1
  <2>2. On(n)
    BY <2>1, <1>8
  <2> QED BY <2>1, <2>2, <1>4
<1>10. \A n \in 0 .. k : OffsetPrev(m, at[n]) = IF n = 0 THEN 0 ELSE at[n - 1]
  <2> SUFFICES ASSUME NEW n \in 0 .. k PROVE OffsetPrev(m, at[n]) = IF n = 0 THEN 0 ELSE at[n - 1]
    OBVIOUS
  <2>1. CASE n = 0
    BY <2>1, <1>2 DEF Chain, PrevOK
  <2>2. CASE n # 0
    <3>1. n - 1 \in 0 .. k /\ n - 1 < k /\ n \in 1 .. MaxChunks /\ n - 1 \in 0 .. MaxChunks
      BY <2>2, <1>7, <1>1
    <3>2. at[n] = OffsetNext(m, at[n - 1]) /\ at[n - 1] \in C /\ OffsetNext(m, at[n - 1]) # 0
      BY <3>1, <1>2, <1>8, <1>9
    <3> QED BY <3>2, <2>2, <1>3 DEF NextOK
  <2> QED BY <2>1, <2>2
<1>11. ASSUME NEW c \in C PROVE \E n \in 0 .. k : at[n] = c
  <2> DEFINE Up == {n \in 0 .. k : c <= at[n]}
  <2>1. k \in 0 .. k /\ at[k] \in C
    BY <1>7, <1>9
  <2>2. c <= at[k]
    BY <2>1, <1>3, <1>7 DEF NextOK
  <2>3. Up \subseteq Nat /\ Up # {}
    BY <2>1, <2>2
  <2>4. PICK n \in Up : \A j \in Up : n <= j
    BY <2>3, Smallest
  <2>5. n \in 0 .. k /\ c <= at[n] /\ at[n] \in C /\ c \in Nat /\ at[n] \in Nat
    BY <2>4, <1>3, <1>9
  <2>6. CASE n = 0
    BY <2>5, <2>6, <1>2, <1>3, <1>1
  <2>7. CASE n # 0
    <3>1. n - 1 \in 0 .. k /\ n - 1 < k /\ n \in 1 .. MaxChunks /\ n - 1 \in 0 .. MaxChunks
      BY <2>5, <2>7, <1>7, <1>1
    <3>2. at[n] = OffsetNext(m, at[n - 1]) /\ at[n - 1] \in C /\ OffsetNext(m, at[n - 1]) # 0
      BY <3>1, <1>2, <1>8, <1>9
    <3>3. n - 1 \notin Up
      <4> HIDE DEF Up
      <4> QED BY <2>4, <3>1, <2>5
    <3>4. ~(c <= at[n - 1])
      BY <3>1, <3>3
    <3>5. at[n] <= c
      BY <3>2, <3>4, <1>3 DEF NextOK
    <3> QED BY <3>5, <2>5
  <2> QED BY <2>6, <2>7
<1>12. C = {at[n] : n \in 0 .. k}
  BY <1>9, <1>11
<1>13. ASSUME m[0] = 1 PROVE \A n \in k + 1 .. MaxChunks : at[n] \in {0, 1}
  <2> DEFINE Off == {n \in k + 1 .. MaxChunks : at[n] \notin {0, 1}}
  <2> SUFFICES ASSUME Off # {} PROVE FALSE
    OBVIOUS
  <2>1. Off \subseteq Nat
    BY <1>7, <1>1
  <2>2. PICK n \in Off : \A j \in Off : n <= j
    BY <2>1, Smallest
  <2>3. n \in k + 1 .. MaxChunks /\ at[n] \notin {0, 1} /\ n \in 1 .. MaxChunks /\ n \in Nat
    BY <2>2, <1>7, <1>1
  <2>4. at[n] = OffsetNext(m, at[n - 1])
    BY <2>3, <1>2
  <2>5. CASE n = k + 1
    <3>1. n - 1 = k
      BY <2>5, <1>7
    <3> QED BY <3>1, <2>3, <2>4, <1>7
  <2>6. CASE n # k + 1
    <3>1. n - 1 \in k + 1 .. MaxChunks
      BY <2>3, <2>6, <1>7, <1>1
    <3>2. n - 1 \notin Off
      <4> HIDE DEF Off
      <4> QED BY <2>2, <2>3
    <3>3. at[n - 1] \in {0, 1}
      BY <3>1, <3>2
    <3>4. 0 \in Words /\ 1 \notin Words
      BY Sizes DEF Words
    <3>5. OffsetNext(m, 0) = 1 /\ OffsetNext(m, 1) = 0
      BY <3>4, <1>13 DEF OffsetNext, Get
    <3> QED BY <2>3, <2>4, <3>3, <3>5
  <2> QED BY <2>5, <2>6
<1> QED BY <1>7, <1>10, <1>12, <1>13 DEF at

\* account_data_alloc
LEMMA AllocFacts ==
  ASSUME NEW m \in Mem, NEW C, Heap(m, C), NEW size, Small(size), size # 0, Alloc(m, size).ok
  PROVE  \E c : /\ Alloc(m, size).res = c + 16
               /\ \E C2 : Holding(Alloc(m, size).mem, C2, m, Live(m, C), c, size)
<1> DEFINE at == Walk(m)
           stops == {n \in 0 .. MaxChunks : StopsAt(m, at[n], size)}
<1>0. Chain(m, C)
  BY DEF Heap
<1>1. PICK k \in 0 .. MaxChunks :
        /\ OffsetNext(m, at[k]) = 0
        /\ C = {at[n] : n \in 0 .. k}
        /\ \A n \in 0 .. k : OffsetPrev(m, at[n]) = IF n = 0 THEN 0 ELSE at[n - 1]
  BY <1>0, WalkFacts
<1>2. k \in Nat /\ k \in 0 .. k /\ stops \subseteq Nat
  BY <1>1, Sizes
<1>3. at[k] \in C
  BY <1>1, <1>2
<1>4. StopsAt(m, at[k], size)
  BY <1>0, <1>1, <1>3 DEF Chain, NextOK, StopsAt
<1>5. k \in stops
  BY <1>4
<1> DEFINE n == CHOOSE i \in stops : \A j \in stops : i <= j
<1>6. Alloc(m, size) = AllocFrom(m, at, stops, size)
  BY DEF Alloc
<1> HIDE DEF stops
<1>7. \E i \in stops : \A j \in stops : i <= j
  BY <1>2, <1>5, Smallest
<1>8. n \in stops /\ \A j \in stops : n <= j
  BY <1>7
<1>9. Alloc(m, size) = AllocAt(m, at[n], IF n = 0 THEN 0 ELSE at[n - 1], size)
  BY <1>5, <1>6 DEF AllocFrom
<1> HIDE DEF n, at
<1>10. n \in 0 .. k /\ StopsAt(m, at[n], size)
  <2>1. n \in 0 .. MaxChunks /\ StopsAt(m, at[n], size)
    BY <1>8 DEF stops
  <2>2. n <= k
    BY <1>5, <1>8
  <2> QED BY <2>1, <2>2, <1>2
<1>11. at[n] \in C /\ Alloc(m, size) = AllocAt(m, at[n], OffsetPrev(m, at[n]), size)
  BY <1>1, <1>9, <1>10
<1> QED BY <1>10, <1>11, AllocAtFacts
-----------------------------------------------------------------------------
(* account_data_free                                                       *)

\* What two calls keep is kept.
LEMMA KeptTrans ==
  ASSUME NEW m, NEW m1, NEW m2, NEW L, NEW K, K \subseteq L, Kept(m1, m, L), Kept(m2, m1, K)
  PROVE  Kept(m2, m, K)
<1>1. \A a \in Words : a < HeapOffset => m2[a] = m[a]
  BY DEF Kept
<1>2. ASSUME NEW d \in K PROVE Length(m2, d) = Length(m, d) /\ Length(m1, d) = Length(m, d)
  BY DEF Kept
<1>3. ASSUME NEW d \in K, NEW a \in Words, d + 16 <= a, a < d + 16 + Length(m, d)
      PROVE  m2[a] = m[a]
  <2>1. a < d + 16 + Length(m1, d)
    BY <1>2, <1>3
  <2> QED BY <1>3, <2>1 DEF Kept
<1> QED BY <1>1, <1>2, <1>3 DEF Kept

\* A free chunk swallows what follows it.
LEMMA AbsorbFacts ==
  ASSUME NEW m \in Mem, NEW C, Chain(m, C), NEW c \in C, ~Allocated(m, c), NEW nn \in C \union {0},
         nn # 0 => c < nn, NEW m2, m2 = Absorb(m, c, nn)
  PROVE  m2 \in Mem /\ Joined(m2, m, c, nn) /\ ~Allocated(m2, c)
<1>1. /\ Place(c) /\ c \in Nat /\ c # 0 /\ nn \in Nat
  BY ChainBasic
<1> DEFINE m1 == SetNext(m, c, nn)
<1>2. /\ m1 \in Mem /\ Outside(m1, m, {c}) /\ OffsetNext(m1, c) = nn
      /\ OffsetPrev(m1, c) = OffsetPrev(m, c) /\ (Allocated(m1, c) <=> Allocated(m, c))
  BY <1>1, SetNextFacts
<1>3. CASE nn = 0
  <2>1. m2 = SetLength(m1, c, 0)
    BY <1>3 DEF Absorb
  <2> HIDE DEF m1
  <2>2. /\ m2 \in Mem /\ Outside(m2, m1, {c}) /\ OffsetNext(m2, c) = nn
        /\ OffsetPrev(m2, c) = OffsetPrev(m, c) /\ ~Allocated(m2, c) /\ Length(m2, c) = 0
    BY <1>1, <1>2, <2>1, SetLengthFacts
  <2>3. {c} \subseteq {c, nn} \ {0}
    BY <1>1
  <2>4. Outside(m2, m, {c, nn} \ {0})
    BY <1>2, <2>2, <2>3, OutsideChain
  <2> QED BY <2>2, <2>4, <1>3 DEF Joined, Room, NewPrev
<1>4. CASE nn # 0
  <2>0. Place(nn) /\ nn + 16 <= DataLen /\ c + 16 < nn
    BY <1>4, ChainBasic, ChainApart
  <2> DEFINE len == nn - c - 16
             m3 == SetLength(m1, c, len)
  <2>1. len \in Nat /\ len # 0 /\ len < U32 /\ c + 16 + len <= nn /\ Apart(c, nn) /\ Apart(nn, c)
    BY <1>1, <2>0, Sizes DEF Apart
  <2>2. m2 = SetPrev(m3, nn, c)
    BY <1>4, <2>1, WrapFacts DEF Absorb, HdrSize
  <2> HIDE DEF m1, len
  <2>3. /\ m3 \in Mem /\ Outside(m3, m1, {c}) /\ OffsetNext(m3, c) = nn
        /\ OffsetPrev(m3, c) = OffsetPrev(m, c) /\ ~Allocated(m3, c) /\ Length(m3, c) = len
    BY <1>1, <1>2, <2>1, SetLengthFacts
  <2> HIDE DEF m3
  <2>a. m3 \in Mem /\ Place(nn) /\ c \in Nat
    BY <1>1, <2>0, <2>3
  <2>4. /\ m2 \in Mem /\ Outside(m2, m3, {nn}) /\ OffsetNext(m2, nn) = OffsetNext(m3, nn)
        /\ OffsetPrev(m2, nn) = c /\ Length(m2, nn) = Length(m3, nn)
        /\ (Allocated(m2, nn) <=> Allocated(m3, nn))
    BY <2>a, <2>2, SetPrevFacts
  <2>5. Outside(m3, m, {c})
    BY <1>2, <2>3, OutsideChain
  <2>6. Same(m2, m3, c)
    BY <1>1, <2>1, <2>3, <2>4, SameApart
  <2>7. Same(m3, m, nn)
    BY <1>1, <2>0, <2>1, <2>3, <2>5, SameApart
  <2>8. {c} \subseteq {c, nn} \ {0} /\ {nn} \subseteq {c, nn} \ {0}
    BY <1>1, <1>4
  <2>9. Outside(m2, m, {c, nn} \ {0})
    BY <2>4, <2>5, <2>8, OutsideChain
  <2>10. NewPrev(m2, m, nn, c)
    <3>1. /\ OffsetNext(m3, nn) = OffsetNext(m, nn) /\ Length(m3, nn) = Length(m, nn)
          /\ (Allocated(m3, nn) <=> Allocated(m, nn))
      BY <2>7 DEF Same
    <3>2. (Allocated(m2, nn) <=> Allocated(m, nn))
      BY <2>4, <3>1
    <3> QED BY <2>4, <3>1, <3>2 DEF NewPrev
  <2>11. Room(m2, c, nn)
    BY <1>4, <2>1, <2>3, <2>6 DEF Room, Same
  <2>12. OffsetNext(m2, c) = nn /\ OffsetPrev(m2, c) = OffsetPrev(m, c) /\ ~Allocated(m2, c)
    BY <2>3, <2>6 DEF Same
  <2> QED BY <2>4, <2>9, <2>10, <2>11, <2>12 DEF Joined
<1> QED BY <1>3, <1>4

\* Chunk c has been freed and has no free neighbour before it.
Freed(m, C, c) ==
  /\ m \in Mem /\ Chain(m, C) /\ c \in C /\ ~Allocated(m, c)
  /\ c = HeapOffset \/ Allocated(m, OffsetPrev(m, c))
  /\ NoFreeOut(m, C, c, OffsetNext(m, c))

\* account_data_free merges with the next chunk.
LEMMA MergeNextFacts ==
  ASSUME NEW m, NEW C, NEW c, Freed(m, C, c), NEW m2, m2 = MergeNext(m, c)
  PROVE  \E C2 : Leaving(m2, C2, m, Live(m, C))
<1> DEFINE n == OffsetNext(m, c)
           nn == OffsetNext(m, n)
<1>1. /\ m \in Mem /\ Chain(m, C) /\ c \in C /\ ~Allocated(m, c) /\ NoFreeOut(m, C, c, n)
      /\ c = HeapOffset \/ Allocated(m, OffsetPrev(m, c))
  BY DEF Freed
<1>2. /\ Without(C, c, n) = C /\ n \in C \union {0} /\ (n # 0 => c < n)
      /\ \A d \in C : d <= c \/ (n # 0 /\ n <= d)
  BY <1>1, WithoutNext DEF Without
<1>3. \A d \in C : d \in Nat /\ d # 0
  BY <1>1, ChainBasic
<1>4. CASE n = 0 \/ Allocated(m, n)
  <2>1. m2 = m
    BY <1>4 DEF MergeNext
  <2>2. NoFree(m, C)
    <3> SUFFICES ASSUME NEW d \in C, OffsetNext(m, d) # 0, ~Allocated(m, d)
                 PROVE  Allocated(m, OffsetNext(m, d))
      BY DEF NoFree
    <3>1. CASE d = c
      BY <3>1, <1>4
    <3>2. CASE OffsetNext(m, d) = c
      <4>1. OffsetPrev(m, c) = d /\ d # 0
        BY <3>2, <1>1, <1>3 DEF Chain, NextOK
      <4>2. c # HeapOffset
        BY <4>1, <1>1 DEF Chain, PrevOK
      <4> QED BY <4>1, <4>2, <1>1
    <3>3. CASE d # c /\ OffsetNext(m, d) # c
      BY <3>3, <1>1, <1>2 DEF NoFreeOut
    <3> QED BY <3>1, <3>2, <3>3
  <2>3. Kept(m, m, Live(m, C))
    BY DEF Kept
  <2> QED BY <2>1, <2>2, <2>3, <1>1 DEF Leaving, Heap
<1>5. CASE n # 0 /\ ~Allocated(m, n)
  <2>1. m2 = Absorb(m, c, nn)
    BY <1>5 DEF MergeNext
  <2>2. n \in C /\ n # c /\ c < n /\ n \in Nat /\ c \in Nat
    BY <1>1, <1>2, <1>3, <1>5
  <2>3. /\ nn \in C \union {0} /\ (nn # 0 => n < nn)
        /\ \A d \in C : d <= n \/ (nn # 0 /\ nn <= d)
    BY <1>1, <2>2, WithoutNext DEF Without
  <2> HIDE DEF nn, n
  <2>4. nn # 0 => c < nn
    BY <2>2, <2>3, <1>3
  <2>5. m2 \in Mem /\ Joined(m2, m, c, nn) /\ ~Allocated(m2, c)
    BY <1>1, <2>1, <2>3, <2>4, AbsorbFacts
  <2>6. Gap(m, C, c, nn)
    <3> SUFFICES ASSUME NEW d \in C, c < d, nn # 0 => d < nn PROVE ~Allocated(m, d)
      BY DEF Gap
    <3>1. d = n
      BY <1>2, <1>3, <2>2, <2>3
    <3> QED BY <3>1, <1>5
  <2>7. nn = 0 \/ Allocated(m, nn)
    <3>1. nn # 0 => nn # c
      BY <2>2, <2>3, <2>4, <1>3
    <3> QED BY <3>1, <1>1, <1>2, <1>5, <2>2 DEF NoFreeOut, nn
  <2>8. NoFreeOut(m, C, c, nn)
    BY <1>1, <1>2 DEF NoFreeOut, Without
  <2>9. Chain(m2, Without(C, c, nn))
    BY <1>1, <2>3, <2>4, <2>5, JoinChain
  <2>10. NoFree(m2, Without(C, c, nn))
    BY <1>1, <2>3, <2>4, <2>5, <2>7, <2>8, JoinNoFree
  <2>11. /\ Live(m2, Without(C, c, nn)) \ {c} = Live(m, C) \ {c}
         /\ Kept(m2, m, Live(m, C) \ {c})
    <3>1. /\ m \in Mem /\ m2 \in Mem /\ Chain(m, C) /\ c \in C /\ nn \in C \union {0}
          /\ (nn # 0 => c < nn) /\ Joined(m2, m, c, nn) /\ Gap(m, C, c, nn)
      BY <1>1, <2>3, <2>4, <2>5, <2>6
    <3> QED BY <3>1, JoinLive
  <2>12. c \notin Live(m2, Without(C, c, nn)) /\ c \notin Live(m, C)
    BY <1>1, <2>5 DEF Live
  <2>13. Live(m2, Without(C, c, nn)) = Live(m, C) /\ Live(m, C) \ {c} = Live(m, C)
    BY <2>11, <2>12
  <2> QED BY <2>5, <2>9, <2>10, <2>11, <2>13 DEF Leaving, Heap
<1> QED BY <1>4, <1>5
\* The flag of a chunk in use is cleared.
LEMMA ClearFlag ==
  ASSUME NEW m \in Mem, NEW C, Heap(m, C), NEW c \in Live(m, C), NEW m1, m1 = SetFlag(m, c, 0)
  PROVE  /\ m1 \in Mem /\ Chain(m1, C) /\ ~Allocated(m1, c)
         /\ OffsetPrev(m1, c) = OffsetPrev(m, c) /\ OffsetNext(m1, c) = OffsetNext(m, c)
         /\ OffsetNext(m, c) # 0
         /\ \A d \in C \ {c} : Same(m1, m, d)
         /\ Live(m1, C) = Live(m, C) \ {c} /\ Kept(m1, m, Live(m, C) \ {c})
<1> DEFINE n == OffsetNext(m, c)
<1>1. /\ Chain(m, C) /\ c \in C /\ Place(c) /\ c \in Nat /\ c # 0 /\ n \in Nat /\ Allocated(m, c)
      /\ Room(m, c, n) /\ Length(m, c) \in Nat
  BY ChainBasic DEF Heap, Live
<1>2. n # 0 /\ Length(m, c) # 0 /\ c + 16 + Length(m, c) <= n
  BY <1>1 DEF Room
<1>3. n \in C /\ c < n /\ Without(C, c, n) = C /\ Gap(m, C, c, n) /\ n \in C \union {0}
  BY <1>1, <1>2, WithoutNext
<1>4. /\ m1 \in Mem /\ Outside(m1, m, {c}) /\ OffsetNext(m1, c) = n
      /\ OffsetPrev(m1, c) = OffsetPrev(m, c) /\ Length(m1, c) = Length(m, c) /\ ~Allocated(m1, c)
  BY <1>1, SetFlagFacts
<1>5. \A d \in C \ {c} : Same(m1, m, d)
  <2> SUFFICES ASSUME NEW d \in C \ {c} PROVE Same(m1, m, d)
    OBVIOUS
  <2>1. Place(d) /\ Apart(c, d)
    BY <1>1, ChunksApart, ChainBasic
  <2> QED BY <2>1, <1>1, <1>4, SameApart
<1>6. OffsetPrev(m, n) = c /\ n # c
  BY <1>1, <1>2, <1>3 DEF Chain, NextOK
<1> HIDE DEF n
<1>7. {c} \subseteq {c, n} \ {0}
  BY <1>1
<1>8. Outside(m1, m, {c, n} \ {0})
  BY <1>4, <1>7 DEF Outside
<1>9. Joined(m1, m, c, n)
  BY <1>2, <1>3, <1>4, <1>5, <1>6, <1>8 DEF Joined, Room, NewPrev, Same
<1>10. Chain(m1, C)
  BY <1>1, <1>3, <1>4, <1>9, JoinChain
<1>11. Live(m1, C) \ {c} = Live(m, C) \ {c} /\ Kept(m1, m, Live(m, C) \ {c})
  <2>1. /\ m \in Mem /\ m1 \in Mem /\ Chain(m, C) /\ c \in C /\ n \in C \union {0}
        /\ (n # 0 => c < n) /\ Joined(m1, m, c, n) /\ Gap(m, C, c, n)
    BY <1>1, <1>3, <1>4, <1>9
  <2> QED BY <2>1, <1>3, JoinLive
<1>12. c \notin Live(m1, C)
  BY <1>4 DEF Live
<1>13. Live(m1, C) = Live(m, C) \ {c}
  BY <1>11, <1>12
<1> QED BY <1>2, <1>4, <1>5, <1>10, <1>11, <1>13 DEF n

\* account_data_free merges with the previous chunk.
LEMMA MergePrevFacts ==
  ASSUME NEW m \in Mem, NEW C, Heap(m, C), NEW c \in Live(m, C), NEW m1, m1 = SetFlag(m, c, 0),
         NEW r, r = MergePrev(m1, c)
  PROVE  \E D : /\ Freed(r.mem, D, r.chunk) /\ Live(r.mem, D) = Live(m, C) \ {c}
               /\ Kept(r.mem, m, Live(m, C) \ {c})
<1> DEFINE n == OffsetNext(m, c)
           p == OffsetPrev(m, c)
<1>1. /\ m1 \in Mem /\ Chain(m1, C) /\ ~Allocated(m1, c)
      /\ OffsetPrev(m1, c) = p /\ OffsetNext(m1, c) = n /\ n # 0
      /\ \A d \in C \ {c} : Same(m1, m, d)
  BY ClearFlag
<1>2. Live(m1, C) = Live(m, C) \ {c} /\ Kept(m1, m, Live(m, C) \ {c})
  BY ClearFlag
<1>3. /\ Chain(m, C) /\ NoFree(m, C) /\ c \in C /\ c \in Nat /\ n \in Nat /\ p \in Nat
      /\ \A d \in C : d \in Nat /\ d # 0
  BY ChainBasic DEF Heap, Live
<1>4. /\ Without(C, c, n) = C /\ n \in C /\ c < n
      /\ \A d \in C : d <= c \/ n <= d
  BY <1>1, <1>3, WithoutNext DEF Without
<1>5. CASE p = 0 \/ Allocated(m1, p)
  <2>1. r = [mem |-> m1, chunk |-> c]
    BY <1>1, <1>5 DEF MergePrev
  <2>2. c = HeapOffset \/ Allocated(m1, p)
    BY <1>3, <1>5 DEF Chain, PrevOK
  <2>3. NoFreeOut(m1, C, c, n)
    <3> SUFFICES ASSUME NEW d \in C \ {c}, OffsetNext(m1, d) \notin {0, c}, ~Allocated(m1, d)
                 PROVE  Allocated(m1, OffsetNext(m1, d))
      BY <1>4 DEF NoFreeOut
    <3>1. OffsetNext(m1, d) = OffsetNext(m, d) /\ ~Allocated(m, d)
      BY <1>1 DEF Same
    <3>2. Allocated(m, OffsetNext(m, d)) /\ OffsetNext(m, d) \in C \ {c}
      BY <3>1, <1>3 DEF NoFree, Chain, NextOK
    <3> QED BY <3>1, <3>2, <1>1 DEF Same
  <2>4. Freed(m1, C, c)
    BY <1>1, <1>3, <2>2, <2>3 DEF Freed
  <2>5. r.mem = m1 /\ r.chunk = c
    BY <2>1
  <2> QED BY <2>4, <2>5, <1>2
<1>6. CASE p # 0 /\ ~Allocated(m1, p)
  <2> DEFINE m2 == Absorb(m1, p, n)
  <2>1. r = [mem |-> m2, chunk |-> p]
    BY <1>1, <1>6 DEF MergePrev
  <2>2. p \in C /\ OffsetNext(m, p) = c /\ p # c
    BY <1>3, <1>6 DEF Chain, PrevOK, NextOK
  <2>3. p < c /\ (\A d \in C : d <= p \/ c <= d) /\ p < n /\ ~Allocated(m, p)
    BY <1>1, <1>3, <1>4, <1>6, <2>2 DEF Chain, NextOK, Same
  <2> HIDE DEF p, n
  <2>4. m2 \in Mem /\ Joined(m2, m1, p, n) /\ ~Allocated(m2, p)
    BY <1>1, <1>4, <1>6, <2>2, <2>3, AbsorbFacts
  <2> HIDE DEF m2
  <2> DEFINE D == Without(C, p, n)
  <2>5. /\ D \subseteq C /\ c \notin D /\ p \in D /\ n \in D
        /\ \A d \in C : d # c => d \in D
    BY <1>3, <1>4, <2>2, <2>3 DEF Without
  <2>6. Gap(m1, C, p, n)
    BY <1>1, <1>3, <1>4, <2>3 DEF Gap
  <2>7. Chain(m2, D) /\ \A d \in D \ {p, n} : Same(m2, m1, d)
    BY <1>1, <1>4, <2>2, <2>3, <2>4, JoinChain
  <2>8. Live(m2, D) \ {p} = Live(m1, C) \ {p} /\ Kept(m2, m1, Live(m1, C) \ {p})
    <3>1. /\ m1 \in Mem /\ m2 \in Mem /\ Chain(m1, C) /\ p \in C /\ n \in C \union {0}
          /\ (n # 0 => p < n) /\ Joined(m2, m1, p, n) /\ Gap(m1, C, p, n)
      BY <1>1, <1>4, <2>2, <2>3, <2>4, <2>6
    <3> QED BY <3>1, JoinLive
  <2> HIDE DEF D
  <2>9. \A d \in D \ {p} : OffsetNext(m2, d) = OffsetNext(m, d) /\ (Allocated(m2, d) <=> Allocated(m, d))
    <3>1. \A d \in D \ {p} : OffsetNext(m2, d) = OffsetNext(m1, d) /\ (Allocated(m2, d) <=> Allocated(m1, d))
      BY <2>4, <2>7, <1>1 DEF Joined, NewPrev, Same
    <3> QED BY <3>1, <1>1, <2>5 DEF Same
  <2>10. p = HeapOffset \/ Allocated(m2, OffsetPrev(m2, p))
    <3> SUFFICES ASSUME p # HeapOffset PROVE Allocated(m2, OffsetPrev(m2, p))
      OBVIOUS
    <3>1. OffsetPrev(m, p) \in C /\ OffsetNext(m, OffsetPrev(m, p)) = p /\ p # 0
      BY <1>3, <2>2 DEF Chain, PrevOK
    <3>2. Allocated(m, OffsetPrev(m, p))
      BY <1>3, <2>3, <3>1 DEF NoFree
    <3>3. OffsetPrev(m, p) # p /\ OffsetPrev(m, p) # c
      <4>1. OffsetPrev(m, p) # p
        BY <2>3, <3>2
      <4>2. OffsetNext(m, c) # p
        BY <1>3, <1>4, <2>3 DEF n
      <4> QED BY <3>1, <4>1, <4>2
    <3>4. OffsetPrev(m2, p) = OffsetPrev(m, p)
      BY <1>1, <2>2, <2>4 DEF Joined, Same
    <3> QED BY <3>1, <3>2, <3>3, <3>4, <2>5, <2>9
  <2>11. NoFreeOut(m2, D, p, OffsetNext(m2, p))
    <3> SUFFICES ASSUME NEW d \in D \ {p}, OffsetNext(m2, d) \notin {0, p}, ~Allocated(m2, d)
                 PROVE  Allocated(m2, OffsetNext(m2, d))
      BY DEF NoFreeOut, Without
    <3>1. d \in C /\ d # c /\ OffsetNext(m2, d) = OffsetNext(m, d) /\ ~Allocated(m, d)
      BY <2>5, <2>9
    <3>2. Allocated(m, OffsetNext(m, d)) /\ OffsetNext(m, d) \in C /\ OffsetPrev(m, OffsetNext(m, d)) = d
      BY <3>1, <1>3 DEF NoFree, Chain, NextOK
    <3>3. OffsetNext(m, d) # c
      BY <3>2 DEF p
    <3> QED BY <3>1, <3>2, <3>3, <2>5, <2>9
  <2>12. Freed(m2, D, p)
    BY <2>4, <2>5, <2>7, <2>10, <2>11 DEF Freed
  <2>13. p \notin Live(m2, D) /\ p \notin Live(m1, C)
    BY <1>6, <2>4 DEF Live
  <2>14. Live(m2, D) = Live(m, C) \ {c} /\ Live(m1, C) \ {p} = Live(m, C) \ {c}
    BY <2>8, <2>13, <1>2
  <2>15. Kept(m2, m, Live(m, C) \ {c})
    BY <1>2, <2>8, <2>14, KeptTrans
  <2>16. r.mem = m2 /\ r.chunk = p
    BY <2>1
  <2> QED BY <2>12, <2>14, <2>15, <2>16
<1> QED BY <1>5, <1>6

\* account_data_free
LEMMA FreeFacts ==
  ASSUME NEW m \in Mem, NEW C, Heap(m, C), NEW c \in Live(m, C)
  PROVE  \E C2 : Leaving(Free(m, c + 16), C2, m, Live(m, C) \ {c})
<1> DEFINE L == Live(m, C) \ {c}
           m1 == SetFlag(m, c, 0)
           r == MergePrev(m1, c)
           m3 == MergeNext(r.mem, r.chunk)
<1>1. c \in Nat
  BY ChainBasic DEF Heap, Live
<1>2. Free(m, c + 16) = m3
  <2> DEFINE off == c + 16
  <2>1. off # 0 /\ off - 16 = c
    BY <1>1
  <2> HIDE DEF off
  <2>2. Free(m, off) = m3
    BY <2>1, Zenon DEF Free, HdrSize
  <2> QED BY <2>2 DEF off
<1> HIDE DEF m3, r
<1>3. PICK D : Freed(r.mem, D, r.chunk) /\ Live(r.mem, D) = L /\ Kept(r.mem, m, L)
  BY MergePrevFacts DEF r
<1>4. PICK C2 : Leaving(m3, C2, r.mem, Live(r.mem, D))
  BY <1>3, MergeNextFacts DEF m3
<1>5. Kept(m3, m, L)
  BY <1>3, <1>4, KeptTrans DEF Leaving
<1>6. Leaving(m3, C2, m, L)
  BY <1>3, <1>4, <1>5 DEF Leaving
<1> QED BY <1>2, <1>6
\* A heap whose headers are the same is the same heap.
LEMMA SameHeap ==
  ASSUME NEW m \in Mem, NEW m2 \in Mem, NEW C, Heap(m, C), \A d \in C : Same(m2, m, d)
  PROVE  Heap(m2, C) /\ Live(m2, C) = Live(m, C)
<1>1. \A d \in C : NextOK(m2, C, d) /\ PrevOK(m2, C, d)
  <2> SUFFICES ASSUME NEW d \in C PROVE NextOK(m2, C, d) /\ PrevOK(m2, C, d)
    OBVIOUS
  <2>1. NextOK(m, C, d) /\ PrevOK(m, C, d) /\ Same(m2, m, d)
    BY DEF Heap, Chain
  <2>2. NextOK(m2, C, d)
    BY <2>1 DEF NextOK, Same
  <2>3. PrevOK(m2, C, d)
    BY <2>1 DEF PrevOK, Same
  <2> QED BY <2>2, <2>3
<1>2. \E d \in C : OffsetNext(m2, d) = 0
  BY DEF Heap, Chain, Same
<1>3. Chain(m2, C)
  BY <1>1, <1>2 DEF Heap, Chain
<1>4. NoFree(m2, C)
  <2> SUFFICES ASSUME NEW d \in C, OffsetNext(m2, d) # 0, ~Allocated(m2, d)
               PROVE  Allocated(m2, OffsetNext(m2, d))
    BY DEF NoFree
  <2>1. OffsetNext(m, d) = OffsetNext(m2, d) /\ ~Allocated(m, d) /\ OffsetNext(m, d) \in C
    BY DEF Same, Heap, Chain, NextOK
  <2>2. Allocated(m, OffsetNext(m, d))
    BY <2>1 DEF Heap, NoFree
  <2> QED BY <2>1, <2>2 DEF Same
<1>5. Live(m2, C) = Live(m, C)
  BY DEF Live, Same
<1> QED BY <1>3, <1>4, <1>5 DEF Heap

\* Only words in the payload of chunk d, or before the heap, are different.
Payload(m2, m, d) ==
  \A a \in Words : HeapOffset <= a /\ ~(d + 16 <= a /\ a < d + 16 + Length(m, d)) => m2[a] = m[a]

\* A store into the payload of a chunk leaves the list and the other chunks alone.
LEMMA PayloadFacts ==
  ASSUME NEW m \in Mem, NEW m2 \in Mem, NEW C, Heap(m, C), NEW d \in C, Payload(m2, m, d)
  PROVE  /\ \A e \in C : Same(m2, m, e)
         /\ Heap(m2, C) /\ Live(m2, C) = Live(m, C)
         /\ \A e \in C \ {d} : \A a \in Words :
              e + 16 <= a /\ a < e + 16 + Length(m, e) => m2[a] = m[a]
<1>1. Chain(m, C)
  BY DEF Heap
<1>2. \A e \in C : \A a \in Words : e <= a /\ a < e + 16 => m2[a] = m[a]
  <2> SUFFICES ASSUME NEW e \in C, NEW a \in Words, e <= a, a < e + 16
               PROVE  m2[a] = m[a]
    OBVIOUS
  <2>1. d \in Nat /\ e \in Nat /\ HeapOffset \in Nat /\ HeapOffset <= e /\ a \in Nat
        /\ Length(m, d) \in Nat
    BY <1>1, ChainBasic, Sizes
  <2>2. d < e => d + 16 + Length(m, d) <= e
    BY <1>1, ChainApart
  <2>3. e < d => e + 16 < d
    BY <1>1, ChainApart
  <2>4. HeapOffset <= a /\ ~(d + 16 <= a /\ a < d + 16 + Length(m, d))
    BY <2>1, <2>2, <2>3
  <2> QED BY <2>4 DEF Payload
<1>3. \A e \in C : Same(m2, m, e)
  <2> SUFFICES ASSUME NEW e \in C PROVE Same(m2, m, e)
    OBVIOUS
  <2>1. Place(e) /\ e \in Nat
    BY <1>1, ChainBasic
  <2>2. e \in Words /\ e + 4 \in Words /\ e + 8 \in Words /\ e + 12 \in Words
    BY <2>1, PlaceWords
  <2>3. m2[e] = m[e] /\ m2[e + 4] = m[e + 4] /\ m2[e + 8] = m[e + 8] /\ m2[e + 12] = m[e + 12]
    BY <2>1, <2>2, <1>2
  <2> QED BY <2>2, <2>3 DEF Same, OffsetNext, OffsetPrev, Length, Allocated, Get
<1>4. \A e \in C \ {d} : \A a \in Words :
        e + 16 <= a /\ a < e + 16 + Length(m, e) => m2[a] = m[a]
  <2> SUFFICES ASSUME NEW e \in C \ {d}, NEW a \in Words, e + 16 <= a, a < e + 16 + Length(m, e)
               PROVE  m2[a] = m[a]
    OBVIOUS
  <2>1. d \in Nat /\ e \in Nat /\ HeapOffset \in Nat /\ HeapOffset <= e /\ a \in Nat
        /\ Length(m, d) \in Nat /\ Length(m, e) \in Nat
    BY <1>1, ChainBasic, Sizes
  <2>2. d < e => d + 16 + Length(m, d) <= e
    BY <1>1, ChainApart
  <2>3. e < d => e + 16 + Length(m, e) <= d
    BY <1>1, ChainApart
  <2>4. HeapOffset <= a /\ ~(d + 16 <= a /\ a < d + 16 + Length(m, d))
    BY <2>1, <2>2, <2>3
  <2> QED BY <2>4 DEF Payload
<1> QED BY <1>3, <1>4, SameHeap

\* What a chunk in use has behind it.
LEMMA LiveNext ==
  ASSUME NEW m \in Mem, NEW C, Heap(m, C), NEW c \in Live(m, C), NEW next, next = OffsetNext(m, c)
  PROVE  /\ c \in C /\ Place(c) /\ next \in C /\ Place(next) /\ next # 0 /\ c + 16 + Length(m, c) <= next
         /\ c \in Nat /\ next \in Nat /\ Length(m, c) \in Nat /\ Length(m, c) # 0
         /\ c % 8 = 0 /\ next % 8 = 0 /\ next + 16 <= DataLen /\ c < next
         /\ Capacity(m, c + 16) = next - (c + 16)
         /\ Gap(m, C, c, next) /\ Without(C, c, next) = C
<1>1. Chain(m, C) /\ c \in C /\ Allocated(m, c)
  BY DEF Heap, Live
<1>2. NextOK(m, C, c)
  BY <1>1 DEF Chain
<1>3. next # 0 /\ next \in C /\ Length(m, c) # 0 /\ c + 16 + Length(m, c) <= next /\ c < next
  BY <1>1, <1>2 DEF NextOK
<1>4. Place(c) /\ Place(next) /\ c \in Nat /\ next \in Nat /\ Length(m, c) \in Nat
  BY <1>1, <1>3, ChainBasic
<1>5. c % 8 = 0 /\ next % 8 = 0 /\ next + 16 <= DataLen
  BY <1>4 DEF Place
<1>6. next - (c + 16) \in Nat /\ next - (c + 16) < U32
  BY <1>3, <1>4, <1>5, Sizes
<1>7. Capacity(m, c + 16) = next - (c + 16)
  <2> DEFINE off == c + 16
  <2>1. off - 16 = c
    BY <1>4
  <2> HIDE DEF off
  <2>2. Capacity(m, off) = Wrap(next - off)
    BY <2>1, Zenon DEF Capacity, HdrSize
  <2> QED BY <2>2, <1>6, WrapFacts DEF off
<1>8. Gap(m, C, c, next) /\ Without(C, c, next) = C
  BY <1>1, WithoutNext
<1> QED BY <1>1, <1>3, <1>4, <1>5, <1>7, <1>8
\* Joining chunks leaves the words of the payload alone.
LEMMA JoinIntact ==
  ASSUME NEW m, NEW m2, NEW c \in Nat, NEW nn \in Nat, Joined(m2, m, c, nn)
  PROVE  Intact(m2, m, c + 16, nn)
<1> SUFFICES ASSUME NEW a \in Words, c + 16 <= a, a < nn PROVE m2[a] = m[a]
  BY DEF Intact
<1>1. \A t \in {c, nn} \ {0} : a < t \/ t + 16 <= a
  BY Sizes
<1> QED BY <1>1 DEF Joined, Outside

\* The chunk c has the given length now, and another one behind it.
LEMMA HeaderFacts ==
  ASSUME NEW m \in Mem, NEW c, Place(c), Allocated(m, c), NEW next \in Nat, NEW size \in Nat
  PROVE  /\ SetNext(SetLength(m, c, size), c, next) \in Mem
         /\ Header(SetNext(SetLength(m, c, size), c, next), m, c, next, size)
<1> DEFINE m1 == SetLength(m, c, size)
           m2 == SetNext(m1, c, next)
<1>1. /\ m1 \in Mem /\ Outside(m1, m, {c}) /\ OffsetPrev(m1, c) = OffsetPrev(m, c)
      /\ Length(m1, c) = size /\ Allocated(m1, c)
  BY SetLengthFacts
<1> HIDE DEF m1
<1>2. /\ m2 \in Mem /\ Outside(m2, m1, {c}) /\ OffsetNext(m2, c) = next
      /\ OffsetPrev(m2, c) = OffsetPrev(m1, c) /\ Length(m2, c) = Length(m1, c) /\ Allocated(m2, c)
  BY <1>1, SetNextFacts
<1> HIDE DEF m2
<1>3. Outside(m2, m, {c})
  BY <1>1, <1>2, OutsideChain
<1> QED BY <1>1, <1>2, <1>3 DEF Header, m2, m1

\* r is the result of a call that gives the chunk c in use another length:
\* the other chunks in use are kept, and so is what fits of its payload.
Resized(r, m, C, c, size) ==
  \E n : \E C2 :
    /\ r.res = n + 16 /\ Holding(r.mem, C2, m, Live(m, C) \ {c}, n, size)
    /\ \A a \in Words : c + 16 <= a /\ a < c + 16 + Length(m, c) /\ a < c + 16 + size
                        => r.mem[a - (c + 16) + (n + 16)] = m[a]

\* The result of a call that leaves the chunk c where it is.
LEMMA ResizedInPlace ==
  ASSUME NEW m \in Mem, NEW C, NEW c \in Nat, NEW size \in Nat, NEW C2, NEW m2,
         Holding(m2, C2, m, Live(m, C) \ {c}, c, size), Length(m, c) \in Nat,
         \A a \in Words : c + 16 <= a /\ a < c + 16 + Length(m, c) /\ a < c + 16 + size
                          => m2[a] = m[a]
  PROVE  Resized(Done(m2, c + 16), m, C, c, size)
<1> DEFINE r == Done(m2, c + 16)
<1>1. r.res = c + 16 /\ r.mem = m2
  BY DEF Done
<1> HIDE DEF r
<1>2. \A a \in Words : a - (c + 16) + (c + 16) = a
  BY Sizes
<1> QED BY <1>1, <1>2 DEF Resized, r

\* account_data_realloc, when the chunk is big enough
LEMMA ReallocShrinkFacts ==
  ASSUME NEW m \in Mem, NEW C, Heap(m, C), NEW c \in Live(m, C), NEW size, Small(size), size # 0,
         size <= Capacity(m, c + 16), NEW r, r = ReallocShrink(m, c + 16, size)
  PROVE  r.ok /\ r.res = c + 16 /\ Resized(r, m, C, c, size)
<1> DEFINE next == OffsetNext(m, c)
           off  == c + 16
           rest == off + RoundUp8(size)
           m1   == SetLength(m, c, size)
           m2   == SetNext(m1, c, rest)
<1>1. /\ c \in C /\ Place(c) /\ next \in C /\ Place(next) /\ next # 0
      /\ c + 16 + Length(m, c) <= next
      /\ c \in Nat /\ next \in Nat /\ Length(m, c) \in Nat /\ Length(m, c) # 0
      /\ c % 8 = 0 /\ next % 8 = 0 /\ next + 16 <= DataLen /\ c < next
      /\ Capacity(m, c + 16) = next - (c + 16)
      /\ Gap(m, C, c, next) /\ Without(C, c, next) = C
  BY LiveNext
<1> HIDE DEF next
<1>2. /\ RoundUp8(size) \in Nat /\ RoundUp8(size) % 8 = 0 /\ size \in Nat
      /\ size <= RoundUp8(size) /\ RoundUp8(size) < size + 8
      /\ size + DataLen + 64 < U32
  BY RoundFacts
<1> DEFINE R == RoundUp8(size)
<1>3. R <= next - (c + 16) /\ rest \in Nat /\ rest <= next /\ rest % 8 = 0
  <2> HIDE DEF R
  <2>1. R \in Nat /\ R % 8 = 0 /\ R < size + 8 /\ size <= next - (c + 16) /\ size \in Nat
    BY <1>1, <1>2 DEF R
  <2>2. (next - (c + 16)) % 8 = 0
    BY <1>1
  <2>3. R <= next - (c + 16)
    BY <2>1, <2>2, <1>1
  <2>4. rest = c + 16 + R
    BY DEF R
  <2> HIDE DEF rest
  <2> QED BY <2>1, <2>3, <2>4, <1>1
<1>4. Wrap(rest) = rest
  <2> HIDE DEF rest
  <2>1. rest < U32
    BY <1>3, <1>1, Sizes
  <2> QED BY <2>1, <1>3, WrapFacts
<1>5. off - 16 = c
  BY <1>1
<1>6. Allocated(m, c)
  BY DEF Live
<1>7. CASE Capacity(m, off) < R + 16 + 8
  <2>1. r = Done(m1, off)
    <3> HIDE DEF off, R
    <3>1. r = ReallocShrink(m, off, size) /\ R = RoundUp8(size)
      BY DEF off, R
    <3> QED BY <3>1, <1>5, <1>7 DEF ReallocShrink, HdrSize
  <2>2. /\ m1 \in Mem /\ Outside(m1, m, {c}) /\ OffsetNext(m1, c) = next
        /\ OffsetPrev(m1, c) = OffsetPrev(m, c)
        /\ Length(m1, c) = size /\ (Allocated(m1, c) <=> Allocated(m, c))
    BY <1>1, <1>2, SetLengthFacts DEF next
  <2> HIDE DEF m1
  <2>3. Apart(c, next) /\ next \in C
    BY <1>1 DEF Apart
  <2>4. Same(m1, m, next)
    BY <2>2, <2>3, <1>1, SameApart
  <2>5. OffsetPrev(m, next) = c
    BY <1>1 DEF next, Heap, Chain, NextOK
  <2>6. NewPrev(m1, m, next, c)
    BY <2>4, <2>5 DEF NewPrev, Same
  <2>7. Room(m1, c, next)
    BY <1>1, <1>2, <2>2 DEF Room
  <2>8. Outside(m1, m, {c, next} \ {0})
    <3>1. c # 0
      BY <1>1, ChainBasic DEF Heap
    <3>2. {c} \subseteq {c, next} \ {0}
      BY <3>1
    <3> QED BY <2>2, <3>2 DEF Outside
  <2>9. Joined(m1, m, c, next)
    BY <2>2, <2>6, <2>7, <2>8 DEF Joined
  <2>10. Holding(m1, Without(C, c, next), m, Live(m, C) \ {c}, c, Length(m1, c))
    BY <2>9, <2>2, <1>1, <1>6, JoinStep
  <2>11. Holding(m1, C, m, Live(m, C) \ {c}, c, size)
    BY <2>10, <2>2, <1>1
  <2>12. \A a \in Words : c + 16 <= a => m1[a] = m[a]
    BY <2>2, Sizes, <1>1 DEF Outside
  <2>13. Resized(Done(m1, c + 16), m, C, c, size)
    BY <2>11, <2>12, <1>1, <1>2, ResizedInPlace
  <2>14. r.ok /\ r.res = c + 16
    BY <2>1 DEF Done
  <2> QED BY <2>1, <2>13, <2>14
<1>8. CASE ~(Capacity(m, off) < R + 16 + 8)
  <2>1. rest + 16 < next /\ c + 16 + size <= rest /\ Place(rest)
    <3> HIDE DEF R
    <3>1. R + 24 <= next - (c + 16) /\ R \in Nat /\ size <= R
      BY <1>8, <1>1, <1>2 DEF R
    <3>2. rest = c + 16 + R
      BY DEF R
    <3> HIDE DEF rest
    <3> QED BY <3>1, <3>2, <1>1, <1>2, <1>3, Sizes DEF Place
  <2>2. m2 \in Mem /\ Header(m2, m, c, rest, size)
    BY <1>1, <1>2, <1>3, <1>6, HeaderFacts
  <2> DEFINE nn == IF ~Allocated(m, next) THEN OffsetNext(m, next) ELSE next
             m3 == FreeUpTo(m2, rest, c, nn)
  <2>3. r = Done(m3, off)
    <3>1. nn = next => FreeUpTo(m2, rest, c, nn) = InsertBefore(m2, rest, c, nn)
      BY <1>1 DEF FreeUpTo
    <3> DEFINE T == ~Allocated(m, next)
    <3>2. r = ReallocShrink(m, off, size) /\ R = RoundUp8(size)
      BY DEF off, R
    <3>3. rest = Wrap(off + RoundUp8(size)) /\ OffsetNext(m, off - 16) = next
          /\ m2 = SetNext(SetLength(m, off - 16, size), off - 16, rest) /\ c = off - 16
          /\ ~(Capacity(m, off) < RoundUp8(size) + 16 + 8)
      BY <1>4, <1>5, <1>8 DEF next
    <3> HIDE DEF off, R, rest, m2, m1
    <3>4. CASE T
      BY <3>2, <3>3, <3>4, <1>5, Zenon DEF ReallocShrink, HdrSize
    <3>5. CASE ~T
      BY <3>1, <3>2, <3>3, <3>5, <1>5, Zenon DEF ReallocShrink, HdrSize
    <3> QED BY <3>4, <3>5
  <2>4. /\ nn \in C \union {0} /\ (nn # 0 => next <= nn) /\ Gap(m, C, c, nn)
        /\ (nn = 0 \/ Allocated(m, nn))
    <3>1. CASE Allocated(m, next)
      BY <3>1, <1>1
    <3>2. CASE ~Allocated(m, next)
      <4>1. nn = OffsetNext(m, next)
        BY <3>2
      <4> HIDE DEF nn
      <4>2. /\ nn \in C \union {0} /\ (nn # 0 => next < nn) /\ Gap(m, C, next, nn)
        BY <4>1, <1>1, WithoutNext DEF Heap
      <4>3. nn = 0 \/ Allocated(m, nn)
        BY <4>1, <1>1, <3>2 DEF Heap, NoFree
      <4>4. \A d \in C : d \in Nat
        BY ChainBasic DEF Heap
      <4>5. nn \in Nat
        BY <4>2, <4>4
      <4>6. Gap(m, C, c, nn)
        <5> SUFFICES ASSUME NEW d \in C, c < d, nn # 0 => d < nn PROVE ~Allocated(m, d)
          BY DEF Gap
        <5>1. CASE d < next
          BY <5>1, <1>1 DEF Gap
        <5>2. CASE d = next
          BY <5>2, <3>2
        <5>3. CASE next < d
          BY <5>3, <4>2 DEF Gap
        <5> QED BY <5>1, <5>2, <5>3, <4>4, <1>1
      <4> QED BY <4>2, <4>3, <4>5, <4>6, <1>1
    <3> QED BY <3>1, <3>2
  <2> HIDE DEF nn, m2, rest
  <2>5. nn # 0 => c < nn /\ rest + 16 < nn
    <3>1. nn \in Nat
      BY <2>4, ChainBasic DEF Heap
    <3> QED BY <3>1, <2>4, <2>1, <1>1, <1>3
  <2>6. /\ Holding(m3, Without(C, c, nn) \union {rest}, m, Live(m, C) \ {c}, c, size)
        /\ \A a \in Words : c + 16 <= a /\ a < rest => m3[a] = m[a]
    <3>1. /\ m2 \in Mem /\ c \in C /\ nn \in C \union {0} /\ (nn # 0 => c < nn)
          /\ Gap(m, C, c, nn) /\ (nn = 0 \/ Allocated(m, nn)) /\ Place(rest) /\ size \in Nat
          /\ size # 0 /\ c + 16 + size <= rest /\ (nn # 0 => rest + 16 < nn) /\ Header(m2, m, c, rest, size)
      BY <2>1, <2>2, <2>4, <2>5, <1>1, <1>2
    <3>2. m3 = FreeUpTo(m2, rest, c, nn)
      OBVIOUS
    <3> HIDE DEF m3
    <3>3. /\ Holding(m3, Without(C, c, nn) \union {rest}, m, Live(m, C) \ {c}, c, size)
          /\ Intact(m3, m, c + 16, rest)
      BY <3>1, <3>2, FreeUpToFacts
    <3> QED BY <3>3 DEF Intact
  <2> HIDE DEF m3
  <2>7. \A a \in Words : c + 16 <= a /\ a < c + 16 + Length(m, c) /\ a < c + 16 + size
                         => m3[a] = m[a]
    <3>1. \A a \in Words : a < c + 16 + size => a < rest
      BY <2>1, <1>1, <1>2, <1>3, Sizes
    <3> QED BY <3>1, <2>6
  <2>8. Resized(Done(m3, c + 16), m, C, c, size)
    BY <2>6, <2>7, <1>1, <1>2, ResizedInPlace
  <2>9. r.ok /\ r.res = c + 16
    BY <2>3 DEF Done
  <2> QED BY <2>3, <2>8, <2>9
<1> QED BY <1>7, <1>8
\* account_data_realloc, when the next chunk is free and there is room in it
LEMMA ReallocGrowFacts ==
  ASSUME NEW m \in Mem, NEW C, Heap(m, C), NEW c \in Live(m, C), NEW size, Small(size),
         size > Capacity(m, c + 16), GrowsIntoNext(m, c + 16, size),
         NEW r, r = ReallocGrow(m, c + 16, size)
  PROVE  r.ok /\ Resized(r, m, C, c, size)
<1> DEFINE next == OffsetNext(m, c)
           nn   == OffsetNext(m, next)
           off  == c + 16
           rest == off + RoundUp8(size)
           m1   == SetLength(m, c, size)
           m2   == SetNext(m1, c, rest)
<1>1. /\ c \in C /\ Place(c) /\ next \in C /\ Place(next) /\ next # 0
      /\ c + 16 + Length(m, c) <= next
      /\ c \in Nat /\ next \in Nat /\ Length(m, c) \in Nat /\ Length(m, c) # 0
      /\ c % 8 = 0 /\ next % 8 = 0 /\ next + 16 <= DataLen /\ c < next
      /\ Capacity(m, c + 16) = next - (c + 16)
      /\ Gap(m, C, c, next) /\ Without(C, c, next) = C
  BY LiveNext
<1>2. /\ RoundUp8(size) \in Nat /\ RoundUp8(size) % 8 = 0 /\ size \in Nat
      /\ size <= RoundUp8(size) /\ RoundUp8(size) < size + 8
      /\ size + DataLen + 64 < U32
  BY RoundFacts
<1> DEFINE R == RoundUp8(size)
<1>3. off - 16 = c /\ off \in Nat
  BY <1>1
<1>4. /\ ~Allocated(m, next)
      /\ IF nn # 0 THEN size < Wrap(nn - off) ELSE Wrap(rest) + 16 < DataLen
  <2>1. GrowsIntoNext(m, off, size)
    OBVIOUS
  <2> HIDE DEF off
  <2> QED BY <2>1, <1>3 DEF GrowsIntoNext, HdrSize
<1> HIDE DEF nn
<1>5. /\ nn \in C \union {0} /\ (nn # 0 => next < nn) /\ Gap(m, C, next, nn)
  BY <1>1, WithoutNext DEF Heap, nn
<1> HIDE DEF next
<1>6. nn = 0 \/ Allocated(m, nn)
  BY <1>1, <1>4 DEF Heap, NoFree, nn
<1>7. \A d \in C : d \in Nat /\ d % 8 = 0 /\ d + 16 <= DataLen
  BY ChainBasic DEF Heap, Place
<1>8. nn \in Nat
  BY <1>5, <1>7
<1>9. Gap(m, C, c, nn)
  <2> SUFFICES ASSUME NEW d \in C, c < d, nn # 0 => d < nn PROVE ~Allocated(m, d)
    BY DEF Gap
  <2>1. CASE d < next
    BY <2>1, <1>1 DEF Gap
  <2>2. CASE d = next
    BY <2>2, <1>4
  <2>3. CASE next < d
    BY <2>3, <1>5 DEF Gap
  <2> QED BY <2>1, <2>2, <2>3, <1>7, <1>1
<1>10. /\ rest \in Nat /\ rest % 8 = 0 /\ Wrap(rest) = rest /\ next < rest
       /\ c + 16 + size <= rest /\ rest = off + R /\ R \in Nat /\ R % 8 = 0
       /\ size <= R /\ R < size + 8
  <2>1. R \in Nat /\ R % 8 = 0 /\ size <= R /\ R < size + 8 /\ rest = off + R /\ off = c + 16
    BY <1>2
  <2> HIDE DEF R, rest, off
  <2>2. rest < U32 /\ rest \in Nat /\ rest % 8 = 0
    BY <2>1, <1>1, <1>2, Sizes
  <2>3. Wrap(rest) = rest
    BY <2>2, WrapFacts
  <2>4. next - (c + 16) < size
    BY <1>1
  <2> QED BY <2>1, <2>2, <2>3, <2>4, <1>1, <1>2
<1>11. nn # 0 => Wrap(nn - off) = nn - off /\ rest <= nn /\ Wrap(nn - off - R) = nn - off - R
  <2> HAVE nn # 0
  <2>1. nn % 8 = 0 /\ nn + 16 <= DataLen /\ next < nn
    BY <1>5, <1>7
  <2>2. nn - off \in Nat /\ nn - off < U32 /\ off = c + 16
    BY <2>1, <1>1, <1>8, Sizes
  <2>3. Wrap(nn - off) = nn - off
    BY <2>2, WrapFacts
  <2>4. size < nn - off
    BY <2>3, <1>4
  <2> HIDE DEF off, R, rest
  <2>5. (nn - off) % 8 = 0
    BY <2>1, <2>2, <1>1, <1>8
  <2>6. R <= nn - off
    BY <2>2, <2>4, <2>5, <1>10, <1>2
  <2>7. nn - off - R \in Nat /\ nn - off - R < U32
    BY <2>2, <2>6, <1>3, <1>8, <1>10, Sizes
  <2>8. Wrap(nn - off - R) = nn - off - R
    BY <2>7, WrapFacts
  <2> QED BY <2>3, <2>6, <2>8, <1>3, <1>8, <1>10
<1>12. Allocated(m, c)
  BY DEF Live
<1>13. size # 0
  BY <1>1, <1>2
<1>14. nn # 0 => c < nn
  BY <1>5, <1>1, <1>8
<1> DEFINE B == nn # 0 /\ nn - off - R < 24
<1>15. CASE B
  <2> DEFINE m3 == SetNext(m1, c, nn)
             m4 == SetPrev(m3, nn, c)
  <2>1. r = Done(m4, off)
    <3>1. r = ReallocGrow(m, off, size) /\ R = RoundUp8(size)
      OBVIOUS
    <3>2. /\ OffsetNext(m, OffsetNext(m, off - 16)) = nn /\ c = off - 16
          /\ nn # 0 /\ Wrap(nn - off - RoundUp8(size)) < 8 + 16
      BY <1>3, <1>11, <1>15 DEF next, nn
    <3> HIDE DEF off, R
    <3> QED BY <3>1, <3>2, Zenon DEF ReallocGrow, HdrSize
  <2>2. m3 \in Mem /\ Header(m3, m, c, nn, size)
    BY <1>1, <1>2, <1>8, <1>12, HeaderFacts
  <2> HIDE DEF m3
  <2>3. nn \in C /\ nn # 0 /\ Place(nn) /\ c < nn
    BY <1>15, <1>5, <1>14, ChainBasic DEF Heap
  <2>4. /\ m4 \in Mem /\ Outside(m4, m3, {nn}) /\ OffsetNext(m4, nn) = OffsetNext(m3, nn)
        /\ OffsetPrev(m4, nn) = c /\ Length(m4, nn) = Length(m3, nn)
        /\ (Allocated(m4, nn) <=> Allocated(m3, nn))
    BY <2>2, <2>3, <1>1, SetPrevFacts
  <2> HIDE DEF m4
  <2>5. Apart(c, nn) /\ Apart(nn, c)
    BY <1>1, <2>3, ChunksApart DEF Heap
  <2>6. Same(m4, m3, c) /\ Same(m3, m, nn)
    BY <2>2, <2>3, <2>4, <2>5, <1>1, <1>8, SameApart DEF Header
  <2>7. Outside(m4, m, {c, nn} \ {0})
    <3>1. c # 0
      BY <1>1, ChainBasic DEF Heap
    <3>2. {c} \subseteq {c, nn} \ {0} /\ {nn} \subseteq {c, nn} \ {0}
      BY <3>1, <2>3
    <3> QED BY <3>2, <2>2, <2>4, OutsideChain DEF Header
  <2>8. Room(m4, c, nn)
    <3>1. Length(m4, c) = size
      BY <2>2, <2>6 DEF Same, Header
    <3> QED BY <3>1, <1>13, <1>10, <1>11, <1>2, <1>1, <2>3, <1>8 DEF Room
  <2>9. Joined(m4, m, c, nn)
    BY <2>2, <2>4, <2>6, <2>7, <2>8 DEF Joined, Same, Header, NewPrev
  <2>10. Allocated(m4, c) /\ Length(m4, c) = size
    BY <2>2, <2>6 DEF Same, Header
  <2>11. Holding(m4, Without(C, c, nn), m, Live(m, C) \ {c}, c, Length(m4, c))
    BY <2>9, <2>10, <2>4, <1>1, <1>5, <1>9, <1>14, JoinStep
  <2>12. \A a \in Words : c + 16 <= a /\ (nn # 0 => a < nn) => m4[a] = m[a]
    <3>1. Intact(m4, m, c + 16, nn)
      BY <2>9, <1>1, <1>8, JoinIntact
    <3> QED BY <3>1, <2>3 DEF Intact
  <2>13. \A a \in Words : c + 16 <= a /\ a < c + 16 + Length(m, c) /\ a < c + 16 + size
                          => m4[a] = m[a]
    <3>1. \A a \in Words : a < c + 16 + Length(m, c) => a < nn
      BY <1>1, <1>5, <1>8, <2>3, Sizes
    <3> QED BY <3>1, <2>12
  <2>14. Resized(Done(m4, c + 16), m, C, c, size)
    BY <2>10, <2>11, <2>13, <1>1, <1>2, ResizedInPlace
  <2>15. r.ok
    BY <2>1 DEF Done
  <2> QED BY <2>1, <2>14, <2>15
<1>16. CASE ~B
  <2> DEFINE m3 == FreeUpTo(m2, rest, c, nn)
  <2>1. r = Done(m3, off)
    <3>1. r = ReallocGrow(m, off, size) /\ R = RoundUp8(size)
      OBVIOUS
    <3>2. /\ OffsetNext(m, OffsetNext(m, off - 16)) = nn /\ c = off - 16
          /\ ~(nn # 0 /\ Wrap(nn - off - RoundUp8(size)) < 8 + 16)
          /\ Wrap(off + RoundUp8(size)) = rest
      BY <1>3, <1>11, <1>10, <1>16 DEF next, nn
    <3> HIDE DEF off, R, rest
    <3> QED BY <3>1, <3>2, Zenon DEF ReallocGrow, HdrSize
  <2>2. m2 \in Mem /\ Header(m2, m, c, rest, size)
    BY <1>1, <1>2, <1>10, <1>12, HeaderFacts
  <2>3. nn # 0 => rest + 16 < nn
    BY <1>16, <1>10, <1>3, <1>8
  <2>4. rest + 16 <= DataLen
    <3>1. CASE nn = 0
      <4>1. rest + 16 < DataLen
        BY <3>1, <1>4, <1>10
      <4> QED BY <4>1, <1>10, Sizes
    <3>2. CASE nn # 0
      BY <3>2, <2>3, <1>5, <1>7, <1>8, <1>10, Sizes
    <3> QED BY <3>1, <3>2
  <2>5. Place(rest)
    BY <2>4, <1>10 DEF Place
  <2>6. m3 = FreeUpTo(m2, rest, c, nn)
    OBVIOUS
  <2> HIDE DEF m3, m2, rest
  <2>7. /\ m2 \in Mem /\ c \in C /\ nn \in C \union {0} /\ (nn # 0 => c < nn)
        /\ Gap(m, C, c, nn) /\ (nn = 0 \/ Allocated(m, nn)) /\ Place(rest) /\ size \in Nat
        /\ size # 0 /\ c + 16 + size <= rest /\ (nn # 0 => rest + 16 < nn)
        /\ Header(m2, m, c, rest, size)
    BY <2>2, <2>3, <2>5, <1>1, <1>2, <1>5, <1>6, <1>9, <1>10, <1>13, <1>14
  <2>8. /\ Holding(m3, Without(C, c, nn) \union {rest}, m, Live(m, C) \ {c}, c, size)
        /\ Intact(m3, m, c + 16, rest)
    BY <2>6, <2>7, FreeUpToFacts
  <2>9. \A a \in Words : c + 16 <= a /\ a < c + 16 + Length(m, c) /\ a < c + 16 + size
                         => m3[a] = m[a]
    <3>1. \A a \in Words : a < c + 16 + size => a < rest
      BY <1>1, <1>2, <1>10, Sizes
    <3> QED BY <3>1, <2>8 DEF Intact
  <2>10. Resized(Done(m3, c + 16), m, C, c, size)
    BY <2>8, <2>9, <1>1, <1>2, ResizedInPlace
  <2>11. r.ok
    BY <2>1 DEF Done
  <2> QED BY <2>1, <2>10, <2>11
<1> QED BY <1>15, <1>16
\* Chunk d of m2 holds the first len bytes of chunk c of m.
Copied(m2, d, m, c, len) ==
  \A a \in Words : c + 16 <= a /\ a < c + 16 + len => m2[a - (c + 16) + (d + 16)] = m[a]

\* __memcpy of the payload of one chunk in use into another.
LEMMA CopyFacts ==
  ASSUME NEW m \in Mem, NEW C, Heap(m, C), NEW c \in Live(m, C), NEW d \in Live(m, C), c # d,
         NEW len \in Nat, len = Length(m, c), len <= Length(m, d),
         NEW m2, m2 = CopyBytes(m, d + 16, c + 16, len)
  PROVE  /\ m2 \in Mem /\ Heap(m2, C) /\ Live(m2, C) = Live(m, C) /\ Length(m2, d) = Length(m, d)
         /\ Kept(m2, m, Live(m, C) \ {d})
         /\ Copied(m2, d, m, c, len)
<1>1. Chain(m, C) /\ c \in C /\ d \in C /\ Allocated(m, c) /\ Allocated(m, d)
  BY DEF Heap, Live
<1>2. c \in Nat /\ d \in Nat /\ HeapOffset <= d /\ Length(m, d) \in Nat /\ c % 8 = 0 /\ d % 8 = 0
  BY <1>1, ChainBasic DEF Place
<1>3. m2 = [a \in Words |-> IF d + 16 <= a /\ a < d + 16 + len THEN Get(m, a - (d + 16) + (c + 16))
                                                          ELSE m[a]]
  BY DEF CopyBytes
<1>4. \A b : Get(m, b) \in Nat
  BY DEF Get, Mem
<1>5. m2 \in Mem
  BY <1>3, <1>4 DEF Mem
<1>6. \A a \in Words : ~(d + 16 <= a /\ a < d + 16 + len) => m2[a] = m[a]
  BY <1>3
<1>7. Payload(m2, m, d)
  <2> SUFFICES ASSUME NEW a \in Words, HeapOffset <= a, ~(d + 16 <= a /\ a < d + 16 + Length(m, d))
               PROVE  m2[a] = m[a]
    BY DEF Payload
  <2>1. ~(d + 16 <= a /\ a < d + 16 + len)
    BY <1>2, Sizes
  <2> QED BY <1>6, <2>1
<1>8. /\ \A e \in C : Same(m2, m, e)
      /\ Heap(m2, C) /\ Live(m2, C) = Live(m, C)
      /\ \A e \in C \ {d} : \A a \in Words :
           e + 16 <= a /\ a < e + 16 + Length(m, e) => m2[a] = m[a]
  BY <1>1, <1>5, <1>7, PayloadFacts
<1>9. Length(m2, d) = Length(m, d)
  BY <1>1, <1>8 DEF Same
<1>10. \A a \in Words : a < HeapOffset => m2[a] = m[a]
  <2> SUFFICES ASSUME NEW a \in Words, a < HeapOffset PROVE m2[a] = m[a]
    OBVIOUS
  <2>1. ~(d + 16 <= a)
    BY <1>2, Sizes
  <2> QED BY <1>6, <2>1
<1>11. Kept(m2, m, Live(m, C) \ {d})
  <2>1. \A e \in Live(m, C) \ {d} : e \in C \ {d} /\ Length(m2, e) = Length(m, e)
    BY <1>8 DEF Live, Same
  <2> QED BY <2>1, <1>8, <1>10 DEF Kept
<1>12. Copied(m2, d, m, c, len)
  <2> SUFFICES ASSUME NEW a \in Words, c + 16 <= a, a < c + 16 + len
               PROVE  m2[a - (c + 16) + (d + 16)] = m[a]
    BY DEF Copied
  <2> DEFINE b == a - (c + 16) + (d + 16)
  <2>1. b \in Nat /\ d + 16 <= b /\ b < d + 16 + len /\ b % 4 = 0 /\ b - (d + 16) + (c + 16) = a
    <3>1. a \in Nat /\ a % 4 = 0
      BY Sizes
    <3>2. c % 4 = 0 /\ d % 4 = 0
      BY <1>2
    <3> QED BY <3>1, <3>2, <1>2
  <2> HIDE DEF b
  <2>2. b < DataLen
    <3>1. NextOK(m, C, d)
      BY <1>1 DEF Chain
    <3>2. OffsetNext(m, d) \in C /\ d + 16 + Length(m, d) <= OffsetNext(m, d)
      BY <3>1, <1>1 DEF NextOK
    <3>3. OffsetNext(m, d) \in Nat /\ OffsetNext(m, d) + 16 <= DataLen
      BY <3>2, <1>1, ChainBasic
    <3> QED BY <3>2, <3>3, <2>1, <1>2, Sizes
  <2>3. b \in Words
    BY <2>1, <2>2, Sizes DEF Words
  <2>4. m2[b] = Get(m, a)
    BY <2>1, <2>3, <1>3
  <2>5. m2[b] = m[a]
    BY <2>4 DEF Get
  <2> QED BY <2>5 DEF b
<1> QED BY <1>5, <1>8, <1>9, <1>11, <1>12

\* account_data_realloc, when the payload has to move
LEMMA ReallocMoveFacts ==
  ASSUME NEW m \in Mem, NEW C, Heap(m, C), NEW c \in Live(m, C), NEW size, Small(size),
         Length(m, c) < size, NEW r, r = ReallocMove(m, c + 16, size), r.ok
  PROVE  Resized(r, m, C, c, size)
<1> DEFINE x == Alloc(m, size)
           m1 == x.mem
           off == c + 16
           len == Length(m, c)
           m2 == CopyBytes(m1, x.res, off, DataLength(m, off))
           m3 == Free(m2, off)
<1>1. c \in C /\ c \in Nat /\ len \in Nat /\ size \in Nat /\ size # 0 /\ len < size
  BY ChainBasic, RoundFacts DEF Heap, Live
<1>2. r = IF x.ok THEN Done(m3, x.res) ELSE x
  BY DEF ReallocMove, AndThen
<1>3. x.ok /\ r.mem = m3 /\ r.res = x.res
  BY <1>2 DEF Done
<1> HIDE DEF x
<1>4. off # 0 /\ off - 16 = c
  BY <1>1
<1>5. DataLength(m, off) = len
  <2> HIDE DEF off
  <2> QED BY <1>4, Zenon DEF DataLength, HdrSize
<1>6. PICK d : /\ x.res = d + 16
               /\ \E C1 : Holding(m1, C1, m, Live(m, C), d, size)
  BY <1>1, <1>3, AllocFacts DEF x
<1>7. PICK C1 : Holding(m1, C1, m, Live(m, C), d, size)
  BY <1>6
<1> HIDE DEF m1
<1>8. /\ m1 \in Mem /\ Heap(m1, C1) /\ d \in C1 /\ d \notin Live(m, C)
      /\ Live(m1, C1) = Live(m, C) \union {d} /\ Length(m1, d) = size /\ Kept(m1, m, Live(m, C))
  BY <1>7 DEF Holding
<1>9. /\ c \in Live(m1, C1) /\ d \in Live(m1, C1) /\ c # d /\ Length(m1, c) = len
      /\ len <= Length(m1, d) /\ m2 = CopyBytes(m1, d + 16, c + 16, len)
  BY <1>1, <1>5, <1>6, <1>8 DEF Kept
<1> HIDE DEF m2
<1>10. /\ m2 \in Mem /\ Heap(m2, C1) /\ Live(m2, C1) = Live(m1, C1) /\ Length(m2, d) = Length(m1, d)
       /\ Kept(m2, m1, Live(m1, C1) \ {d})
       /\ Copied(m2, d, m1, c, len)
  BY <1>1, <1>8, <1>9, CopyFacts
<1>11. PICK C2 : Leaving(m3, C2, m2, Live(m2, C1) \ {c})
  BY <1>9, <1>10, FreeFacts
<1> HIDE DEF m3
<1> DEFINE L == Live(m, C) \ {c}
<1>12. Live(m2, C1) \ {c} = L \union {d} /\ Live(m1, C1) \ {d} = Live(m, C)
  BY <1>8, <1>9, <1>10
<1>13. m3 \in Mem /\ Heap(m3, C2) /\ Live(m3, C2) = L \union {d} /\ Kept(m3, m2, L \union {d})
  BY <1>11, <1>12 DEF Leaving
<1>14. d \in C2 /\ d \notin L
  BY <1>13, <1>8 DEF Live
<1>15. Length(m3, d) = size
  BY <1>13, <1>10, <1>8 DEF Kept
<1>16. Kept(m3, m, L)
  <2>1. Kept(m2, m, Live(m, C))
    BY <1>8, <1>10, <1>12, KeptTrans
  <2>2. Kept(m3, m2, L)
    BY <1>13 DEF Kept
  <2> QED BY <2>1, <2>2, KeptTrans
<1>17. Holding(m3, C2, m, L, d, size)
  BY <1>13, <1>14, <1>15, <1>16 DEF Holding
<1>18. ASSUME NEW a \in Words, c + 16 <= a, a < c + 16 + len
       PROVE  m3[a - (c + 16) + (d + 16)] = m[a]
  <2> DEFINE b == a - (c + 16) + (d + 16)
  <2>1. m2[b] = m1[a]
    BY <1>10, <1>18 DEF Copied
  <2>2. m1[a] = m[a]
    BY <1>8, <1>18 DEF Kept
  <2>3. d \in Nat /\ d % 8 = 0 /\ d + 16 + size <= DataLen
    <3>1. Chain(m1, C1) /\ Allocated(m1, d)
      BY <1>8, <1>9 DEF Heap, Live
    <3>2. NextOK(m1, C1, d)
      BY <3>1, <1>8 DEF Chain
    <3>3. OffsetNext(m1, d) \in C1 /\ d + 16 + size <= OffsetNext(m1, d)
      BY <3>1, <3>2, <1>8 DEF NextOK
    <3>4. OffsetNext(m1, d) \in Nat /\ OffsetNext(m1, d) + 16 <= DataLen /\ Place(d)
      BY <3>1, <3>3, <1>8, ChainBasic
    <3> QED BY <3>3, <3>4, <1>1, Sizes DEF Place
  <2>4. c % 8 = 0
    BY <1>1, ChainBasic DEF Heap, Place
  <2>5. b \in Nat /\ d + 16 <= b /\ b < d + 16 + size /\ b % 4 = 0
    <3>1. a \in Nat /\ a % 4 = 0
      BY Sizes
    <3>2. c % 4 = 0 /\ d % 4 = 0
      BY <2>3, <2>4, <1>1
    <3> QED BY <3>1, <3>2, <2>3, <1>1, <1>18
  <2> HIDE DEF b
  <2>6. b \in Words
    BY <2>5, <2>3, <1>1, Sizes DEF Words
  <2>7. m3[b] = m2[b]
    BY <2>5, <2>6, <1>13, <1>15, <1>10, <1>8 DEF Kept
  <2> QED BY <2>1, <2>2, <2>7 DEF b
<1>19. r.res = d + 16 /\ r.mem = m3
  BY <1>3, <1>6
<1> QED BY <1>17, <1>18, <1>19 DEF Resized

\* account_data_realloc
LEMMA ReallocFacts ==
  ASSUME NEW m \in Mem, NEW C, Heap(m, C), NEW c \in Live(m, C), NEW size, Small(size), size # 0,
         NEW r, r = Realloc(m, c + 16, size)
  PROVE  /\ r.ok => Resized(r, m, C, c, size)
         /\ size <= Length(m, c) => r.ok /\ r.res = c + 16
<1> DEFINE off == c + 16
           next == OffsetNext(m, c)
<1>1. /\ c \in Nat /\ next \in Nat /\ Length(m, c) \in Nat /\ c + 16 + Length(m, c) <= next
      /\ Capacity(m, off) = next - off
  BY LiveNext
<1>2. size \in Nat
  BY RoundFacts
<1>3. off # 0 /\ r = Realloc(m, off, size)
  BY <1>1
<1>4. CASE size <= Capacity(m, off)
  <2>1. r = ReallocShrink(m, off, size)
    <3>1. ~(size > Capacity(m, off))
      BY <1>1, <1>2, <1>4
    <3> HIDE DEF off
    <3> QED BY <1>3, <1>4, <3>1, Zenon DEF Realloc
  <2> QED BY <2>1, <1>4, ReallocShrinkFacts
<1>5. CASE ~(size <= Capacity(m, off)) /\ GrowsIntoNext(m, off, size)
  <2>1. size > Capacity(m, off)
    BY <1>1, <1>2, <1>5
  <2>2. r = ReallocGrow(m, off, size)
    <3> HIDE DEF off
    <3> QED BY <1>3, <1>5, <2>1, Zenon DEF Realloc
  <2>3. r.ok /\ Resized(r, m, C, c, size)
    BY <2>1, <2>2, <1>5, ReallocGrowFacts
  <2>4. ~(size <= Length(m, c))
    BY <2>1, <1>1, <1>2
  <2> QED BY <2>3, <2>4
<1>6. CASE ~(size <= Capacity(m, off)) /\ ~GrowsIntoNext(m, off, size)
  <2>1. r = ReallocMove(m, off, size)
    <3> HIDE DEF off
    <3> QED BY <1>3, <1>6, Zenon DEF Realloc
  <2>2. Length(m, c) < size
    BY <1>1, <1>2, <1>6
  <2>3. r.ok => Resized(r, m, C, c, size)
    BY <2>1, <2>2, ReallocMoveFacts
  <2>4. ~(size <= Length(m, c))
    BY <2>2, <1>1, <1>2
  <2> QED BY <2>3, <2>4
<1> QED BY <1>4, <1>5, <1>6
=============================================================================
