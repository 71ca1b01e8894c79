--------------------------- MODULE SorobanProofs ----------------------------
(***************************************************************************)
(* The bump allocator of Soroban contracts keeps every array where it is,  *)
(* with what the program stored in it, for every size of memory and every  *)
(* kind of element, and so implements the allocator.                       *)
(***************************************************************************)
EXTENDS SorobanAlloc, TLAPS

\* `new` passes the number of elements where soroban_alloc_init takes bytes.
\* It asks for enough if an element is one byte, or the array is empty.
NewIsExact == \A s \in Slots : \A n \in Counts[s] : n * ElemSize[s] = n

\* The first byte behind an array of s with n elements that is at p.
EndOf(s, p, n) == Elem(s, p, n + 1)

\* At p, memory m holds an array of s with the elements w: the header of the
\* allocation has its size, the vector its length, every element its value.
Stored(m, s, p, w) ==
  /\ \A b \in p - HdrLen .. p - 1 : m[b] = EndOf(s, p, Len(w)) - p
  /\ \A b \in p .. p + VecHdr - 1 : m[b] = Len(w)
  /\ \A i \in 1 .. Len(w) : \A b \in Elem(s, p, i) .. Elem(s, p, i + 1) - 1 : m[b] = w[i]

\* It lies below hi.
Inside(s, p, n, hi) == ArenaLo <= p - HdrLen /\ EndOf(s, p, n) <= hi

Apart(s, p, n, t, q, k) == EndOf(s, p, n) <= q - HdrLen \/ EndOf(t, q, k) <= p - HdrLen

TypeOK ==
  /\ pages \in StartPages .. MaxPages
  /\ g_cursor \in Nat /\ g_limit \in Nat
  /\ mem = [b \in Bytes |-> mem[b]]
  /\ arr \in [Slots -> Nat]
  /\ want \in [Slots -> Seq(Slots \cup {0})]

\* The cursor is in the memory that has been grown.
CursorOK ==
  /\ g_limit = 0 \/ g_limit = pages * PageSize
  /\ ArenaLo <= Cursor /\ Cursor <= pages * PageSize

ArraysStored ==
  \A s \in Slots : arr[s] # Null =>
    Inside(s, arr[s], Len(want[s]), Cursor) /\ Stored(mem, s, arr[s], want[s])

ArraysApart ==
  \A s \in Slots : \A t \in Slots \ {s} : arr[s] # Null /\ arr[t] # Null =>
    Apart(s, arr[s], Len(want[s]), t, arr[t], Len(want[t]))

IInv == TypeOK /\ CursorOK /\ ArraysStored /\ ArraysApart

-----------------------------------------------------------------------------
\* Products of naturals are naturals, and grow with their factors.
LEMMA Product ==
  ASSUME NEW a \in Nat, NEW b \in Nat, NEW c \in Nat, a <= b
  PROVE  a * c \in Nat /\ a * c <= b * c
<1>1. \E d \in Nat : b = a + d
  <2>1. b - a \in Nat /\ b = a + (b - a)
    OBVIOUS
  <2> QED BY <2>1
<1>2. PICK d \in Nat : b = a + d
  BY <1>1
<1>3. b * c = a * c + d * c
  BY <1>2
<1>4. d * c \in Nat /\ a * c \in Nat
  OBVIOUS
<1> QED BY <1>3, <1>4

\* The arena, and the memory of a number of pages.
LEMMA Arena ==
  /\ PageSize \in Nat /\ PageSize > 0 /\ U32 \in Nat
  /\ ArenaLo \in Nat /\ ArenaHi \in Nat /\ 0 < ArenaLo /\ ArenaLo <= ArenaHi
  /\ \A p \in StartPages .. MaxPages :
       p * PageSize \in Nat /\ ArenaLo <= p * PageSize /\ p * PageSize <= ArenaHi
  /\ ArenaHi + 16 <= U32
  /\ \A s \in Slots : ElemSize[s] \in Nat /\ ElemSize[s] > 0
                      /\ 2 * ArenaHi - ArenaLo + ElemSize[s] + 16 <= U32
<1>1. /\ PageSize \in Nat /\ PageSize >= 8 /\ PageSize % 8 = 0 /\ U32 \in Nat /\ U32 % 8 = 0
      /\ StartPages \in Nat /\ StartPages > 0 /\ MaxPages \in Nat /\ StartPages <= MaxPages
  BY SorobanAssumption
<1>2. /\ ArenaLo \in Nat /\ ArenaHi \in Nat
      /\ \A p \in StartPages .. MaxPages :
           p * PageSize \in Nat /\ ArenaLo <= p * PageSize /\ p * PageSize <= ArenaHi
  BY <1>1, Product DEF ArenaLo, ArenaHi
<1>3. ArenaLo <= ArenaHi
  BY <1>1, Product DEF ArenaLo, ArenaHi
<1>4. 0 < ArenaLo
  <2>1. 1 * PageSize <= StartPages * PageSize
    BY <1>1, Product
  <2> QED BY <2>1, <1>1 DEF ArenaLo
<1>5. ArenaHi + PageSize < U32
  BY <1>1, SorobanAssumption DEF ArenaHi
<1>6. ArenaHi % 8 = 0
  <2>0. PageSize \div 8 \in Int /\ PageSize = 8 * (PageSize \div 8)
    BY <1>1
  <2>1. PICK k \in Int : PageSize = 8 * k
    BY <2>0
  <2>2. ArenaHi = 8 * (MaxPages * k)
    BY <2>1, <1>1 DEF ArenaHi
  <2>3. MaxPages * k \in Int
    BY <1>1
  <2> QED BY <2>2, <2>3
<1>7. ArenaHi + 16 <= U32
  BY <1>1, <1>2, <1>5, <1>6
<1>8. \A s \in Slots : ElemSize[s] \in Nat /\ ElemSize[s] > 0
                      /\ 2 * ArenaHi - ArenaLo + ElemSize[s] + 16 <= U32
  <2> SUFFICES ASSUME NEW s \in Slots
               PROVE  ElemSize[s] \in Nat /\ ElemSize[s] > 0
                      /\ 2 * ArenaHi - ArenaLo + ElemSize[s] + 16 <= U32
    OBVIOUS
  <2>1. ElemSize[s] \in Nat /\ ElemSize[s] > 0
    BY SorobanAssumption
  <2>2. (2 * MaxPages - StartPages) * PageSize = 2 * ArenaHi - ArenaLo
    BY <1>1 DEF ArenaLo, ArenaHi
  <2> QED BY <2>1, <2>2, HostMemoryAssumption
<1> QED BY <1>1, <1>2, <1>3, <1>4, <1>7, <1>8

\* The elements of an array lie one behind the other, behind the vector's fields.
LEMMA ElemFacts ==
  ASSUME NEW s \in Slots, NEW p \in Int, NEW q \in Int, NEW i \in Nat \ {0}, NEW j \in Nat, i <= j
  PROVE  /\ Elem(s, p, i) \in Int /\ Elem(s, p, i + 1) \in Int /\ Elem(s, p, j + 1) \in Int
         /\ p + VecHdr <= Elem(s, p, i)
         /\ Elem(s, p, i) < Elem(s, p, i + 1)
         /\ Elem(s, p, i + 1) <= Elem(s, p, j + 1)
         /\ i < j => Elem(s, p, i + 1) <= Elem(s, p, j)
         /\ Elem(s, q, i) = Elem(s, p, i) + (q - p)
         /\ Elem(s, q, i + 1) = Elem(s, p, i + 1) + (q - p)
<1> DEFINE e == ElemSize[s]
<1>1. e \in Nat /\ e > 0
  BY Arena
<1>2. (i - 1) * e \in Nat /\ i * e = (i - 1) * e + e
  BY <1>1
<1>3. i * e <= j * e /\ j * e \in Nat /\ i * e \in Nat
  BY <1>1, Product
<1>4. i < j => i * e <= (j - 1) * e /\ (j - 1) * e \in Nat
  BY <1>1, Product
<1>5. /\ Elem(s, p, i) = p + 8 + (i - 1) * e /\ Elem(s, q, i) = q + 8 + (i - 1) * e
      /\ Elem(s, p, i + 1) = p + 8 + i * e /\ Elem(s, q, i + 1) = q + 8 + i * e
      /\ Elem(s, p, j + 1) = p + 8 + j * e /\ Elem(s, p, j) = p + 8 + (j - 1) * e
  BY <1>1 DEF Elem, VecHdr
<1> HIDE DEF e
<1> QED BY <1>1, <1>2, <1>3, <1>4, <1>5 DEF VecHdr

\* An array ends behind its fields, and where its size says.
LEMMA EndFacts ==
  ASSUME NEW s \in Slots, NEW p \in Int, NEW n \in Nat
  PROVE  /\ n * ElemSize[s] \in Nat
         /\ EndOf(s, p, n) = p + 8 + n * ElemSize[s]
         /\ EndOf(s, p, n) \in Int /\ p + 8 <= EndOf(s, p, n)
<1> DEFINE e == ElemSize[s]
<1>1. e \in Nat
  BY Arena
<1>2. n * e \in Nat
  BY <1>1
<1>3. EndOf(s, p, n) = p + 8 + n * e
  BY <1>1 DEF EndOf, Elem, VecHdr
<1> HIDE DEF e
<1>4. EndOf(s, p, n) \in Int /\ p + 8 <= EndOf(s, p, n)
  BY <1>2, <1>3
<1> QED BY <1>2, <1>3, <1>4 DEF e

\* It moves as a whole, and an element more makes it as much longer.
LEMMA EndMoves ==
  ASSUME NEW s \in Slots, NEW p \in Int, NEW q \in Int, NEW n \in Nat
  PROVE  /\ EndOf(s, q, n) = EndOf(s, p, n) + (q - p)
         /\ EndOf(s, p, n + 1) = EndOf(s, p, n) + ElemSize[s]
<1>1. ElemSize[s] \in Nat /\ n * ElemSize[s] \in Nat
  BY Arena, EndFacts
<1>2. /\ EndOf(s, p, n) = p + 8 + n * ElemSize[s]
      /\ EndOf(s, q, n) = q + 8 + n * ElemSize[s]
  BY EndFacts
<1>3. EndOf(s, p, n + 1) = p + 8 + (n + 1) * ElemSize[s]
  BY EndFacts
<1>4. (n + 1) * ElemSize[s] = n * ElemSize[s] + ElemSize[s]
  BY <1>1
<1> QED BY <1>1, <1>2, <1>3, <1>4

\* ensure_capacity rounds up to whole pages.
LEMMA WholePages ==
  ASSUME NEW x \in Nat
  PROVE  /\ (x + PageSize - 1) \div PageSize \in Nat
         /\ x <= ((x + PageSize - 1) \div PageSize) * PageSize
<1> DEFINE P == PageSize
           y == x + P - 1
<1>1. P \in Nat /\ P > 0
  BY Arena
<1>2. y \in Nat
  BY <1>1
<1> HIDE DEF P, y
<1>3. /\ y \div P \in Int /\ y = P * (y \div P) + (y % P) /\ y % P \in 0 .. P - 1
  BY <1>1, <1>2
<1>4. y \div P \in Nat
  BY <1>1, <1>2
<1>5. (y \div P) * P = P * (y \div P)
  BY <1>1, <1>3
<1>6. y = x + P - 1
  BY DEF y, P
<1>7. x <= (y \div P) * P
  BY <1>1, <1>2, <1>3, <1>5, <1>6
<1> QED BY <1>4, <1>7 DEF y, P

-----------------------------------------------------------------------------
\* Where alloc_impl puts a block: behind the cursor, with room for the header.
LEMMA StartFacts ==
  ASSUME TypeOK, CursorOK
  PROVE  /\ Cursor \in Nat /\ Limit = pages * PageSize /\ Start \in Nat
         /\ Cursor <= Start - HdrLen /\ Start <= Cursor + 11
         /\ ArenaLo <= Start - HdrLen
<1>1. /\ pages * PageSize \in Nat /\ pages * PageSize <= ArenaHi
      /\ ArenaHi \in Nat /\ U32 \in Nat /\ ArenaHi + 16 <= U32 /\ ArenaLo \in Nat
  BY Arena DEF TypeOK
<1>2. Cursor \in Nat /\ Limit = pages * PageSize
  BY <1>1 DEF TypeOK, CursorOK, Cursor, Limit
<1>3. ArenaLo <= Cursor /\ Cursor <= pages * PageSize
  BY DEF CursorOK
<1>4. (Cursor + 4) % U32 = Cursor + 4 /\ (Cursor + 4 + 7) % U32 = Cursor + 4 + 7
  BY <1>1, <1>2, <1>3
<1>5. Start = ((Cursor + 11) \div 8) * 8
  <2>1. Start = (((Cursor + 4 + 7) % U32) \div 8) * 8
    BY <1>4 DEF Start, AlignUp8, HdrLen
  <2> QED BY <2>1, <1>2, <1>4
<1> QED BY <1>1, <1>2, <1>3, <1>5 DEF HdrLen

\* What alloc_impl does when the end of the block has an address: the cursor
\* moves to the end, and the memory has grown far enough.
LEMMA AllocFacts ==
  ASSUME TypeOK, CursorOK, NEW bytes \in Nat, Start + bytes < U32, Alloc(bytes)
  PROVE  /\ pages' \in StartPages .. MaxPages
         /\ g_cursor' = Start + bytes /\ g_limit' = pages' * PageSize
         /\ g_cursor' \in Nat /\ g_limit' \in Nat /\ g_limit' > 0
         /\ Start + bytes <= pages' * PageSize /\ Start + bytes <= ArenaHi
         /\ pages' = pages + Grow(bytes)
<1>1. /\ PageSize \in Nat /\ PageSize > 0 /\ U32 \in Nat /\ ArenaLo \in Nat /\ ArenaHi \in Nat
      /\ pages * PageSize \in Nat /\ pages * PageSize <= ArenaHi /\ ArenaHi + PageSize < U32
      /\ pages \in StartPages .. MaxPages /\ StartPages \in Nat /\ MaxPages \in Nat
  BY Arena, SorobanAssumption DEF TypeOK, ArenaHi
<1>2. /\ Cursor \in Nat /\ Limit = pages * PageSize /\ Start \in Nat /\ ArenaLo <= Start
  BY <1>1, StartFacts DEF HdrLen
<1>3. End(bytes) = Start + bytes /\ End(bytes) \in Nat
  BY <1>1, <1>2 DEF End
<1>4. /\ Grow(bytes) \in Nat
      /\ End(bytes) <= Limit + Grow(bytes) * PageSize
  <2>1. CASE End(bytes) <= Limit
    BY <2>1, <1>1, <1>2, <1>3 DEF Grow
  <2>2. CASE ~(End(bytes) <= Limit)
    <3> DEFINE x == End(bytes) - Limit
    <3>1. x \in Nat /\ x + PageSize - 1 \in Nat
      BY <2>2, <1>1, <1>2, <1>3
    <3>2. x + PageSize - 1 < U32
      <4>1. 1 * PageSize <= pages * PageSize
        BY <1>1, SorobanAssumption, Product
      <4> QED BY <4>1, <3>1, <1>1, <1>2, <1>3
    <3>3. (x + PageSize - 1) % U32 = x + PageSize - 1
      BY <3>1, <3>2, <1>1
    <3>4. Grow(bytes) = (x + PageSize - 1) \div PageSize
      BY <2>2, <3>3 DEF Grow
    <3>5. Grow(bytes) \in Nat /\ x <= Grow(bytes) * PageSize
      BY <3>1, <3>4, WholePages
    <3>6. Grow(bytes) * PageSize \in Nat
      BY <3>5, <1>1
    <3> QED BY <3>5, <3>6, <1>1, <1>2, <1>3
  <2> QED BY <2>1, <2>2
<1>5. /\ pages' = pages + Grow(bytes) /\ ~(pages + Grow(bytes) > MaxPages)
      /\ g_limit' = Limit + Grow(bytes) * PageSize /\ g_cursor' = End(bytes)
  BY DEF Alloc, Oom
<1>6. pages' \in StartPages .. MaxPages
  BY <1>1, <1>4, <1>5
<1>7. pages' * PageSize = pages * PageSize + Grow(bytes) * PageSize
  BY <1>1, <1>4, <1>5
<1>8. /\ pages' * PageSize \in Nat /\ ArenaLo <= pages' * PageSize /\ pages' * PageSize <= ArenaHi
      /\ 0 < ArenaLo
  BY <1>6, Arena
<1> QED BY <1>1, <1>2, <1>3, <1>4, <1>5, <1>6, <1>7, <1>8

-----------------------------------------------------------------------------
\* An array that has a place has an end and a size that do not wrap around, and
\* so has one with an element more.
LEMMA SizeFacts ==
  ASSUME IInv, NEW s \in Slots, arr[s] # Null, NEW n \in Nat, n <= Len(want[s]) + 1
  PROVE  /\ arr[s] \in Nat /\ Len(want[s]) \in Nat
         /\ VectorBytes(s, n) = EndOf(s, 0, n) /\ VectorBytes(s, n) \in Nat
         /\ Start + VectorBytes(s, n) < U32
<1>1. arr[s] \in Nat /\ Len(want[s]) \in Nat
  BY DEF IInv, TypeOK
<1>2. /\ ArenaLo <= arr[s] - 4 /\ EndOf(s, arr[s], Len(want[s])) <= Cursor
      /\ Cursor <= ArenaHi /\ Cursor \in Nat /\ ArenaLo \in Nat /\ ArenaHi \in Nat
      /\ Start \in Nat /\ Start <= Cursor + 11
  <2>1. Cursor <= pages * PageSize /\ pages * PageSize <= ArenaHi /\ pages * PageSize \in Nat
    BY Arena DEF IInv, TypeOK, CursorOK
  <2> QED BY <2>1, <1>1, Arena, StartFacts, SMTT(30) DEF IInv, ArraysStored, Inside, HdrLen
<1>3. /\ U32 \in Nat /\ ElemSize[s] \in Nat /\ 2 * ArenaHi - ArenaLo + ElemSize[s] + 16 <= U32
  BY Arena
<1>4. EndOf(s, 0, n) <= EndOf(s, 0, Len(want[s]) + 1) /\ EndOf(s, 0, n) \in Int /\ 8 <= EndOf(s, 0, n)
  <2>0. Len(want[s]) + 1 \in Nat /\ 0 \in Int
    BY <1>1
  <2>1. EndOf(s, 0, n) = 0 + 8 + n * ElemSize[s] /\ n * ElemSize[s] \in Nat
    BY <2>0, EndFacts
  <2>3. EndOf(s, 0, Len(want[s]) + 1) = 0 + 8 + (Len(want[s]) + 1) * ElemSize[s]
    BY <2>0, EndFacts
  <2>2. n * ElemSize[s] <= (Len(want[s]) + 1) * ElemSize[s] /\ (Len(want[s]) + 1) * ElemSize[s] \in Nat
    BY <1>1, <1>3, Product, SMTT(30)
  <2> QED BY <2>1, <2>2, <2>3
<1>5. /\ EndOf(s, 0, Len(want[s]) + 1) = EndOf(s, arr[s], Len(want[s])) - arr[s] + ElemSize[s]
      /\ EndOf(s, arr[s], Len(want[s])) \in Int
  <2> DEFINE l == Len(want[s])
  <2>1. l \in Nat /\ arr[s] \in Int /\ 0 \in Int
    BY <1>1
  <2> HIDE DEF l
  <2>2. EndOf(s, arr[s], l) \in Int /\ EndOf(s, 0, l) \in Int
    BY <2>1, EndFacts
  <2>3. EndOf(s, 0, l) = EndOf(s, arr[s], l) + (0 - arr[s])
    BY <2>1, EndMoves
  <2>4. EndOf(s, 0, l + 1) = EndOf(s, 0, l) + ElemSize[s]
    BY <2>1, EndMoves
  <2>5. EndOf(s, 0, l + 1) = EndOf(s, arr[s], l) - arr[s] + ElemSize[s]
    BY <2>1, <2>2, <2>3, <2>4, <1>3
  <2> QED BY <2>2, <2>5 DEF l
<1>6. Start + EndOf(s, 0, n) < U32 /\ EndOf(s, 0, n) < U32
  <2>1. EndOf(s, 0, Len(want[s]) + 1) \in Int
    BY <1>1, <1>3, <1>5
  <2>2. EndOf(s, 0, n) <= ArenaHi - ArenaLo - 4 + ElemSize[s]
    <3> DEFINE y == EndOf(s, 0, Len(want[s]) + 1)
               z == EndOf(s, arr[s], Len(want[s]))
               e == ElemSize[s]
    <3>1. y \in Int /\ z \in Int /\ e \in Int /\ y = z - arr[s] + e /\ z <= Cursor
      BY <2>1, <1>2, <1>3, <1>5
    <3>2. EndOf(s, 0, n) <= y /\ EndOf(s, 0, n) \in Int
      BY <1>4
    <3> HIDE DEF y, z
    <3>3. EndOf(s, 0, n) <= ArenaHi - ArenaLo - 4 + e
      BY <3>1, <3>2, <1>1, <1>2, SMTT(30)
    <3> QED BY <3>3
  <2> QED BY <2>2, <1>2, <1>3, <1>4, SMTT(30)
<1>7. VectorBytes(s, n) = EndOf(s, 0, n) % U32
  <2>1. EndOf(s, 0, n) = 0 + 8 + n * ElemSize[s] /\ n * ElemSize[s] \in Nat
    BY EndFacts
  <2>2. ElemSize[s] * n = n * ElemSize[s]
    BY <1>3
  <2>3. ElemSize[s] * n + 8 = EndOf(s, 0, n)
    BY <2>1, <2>2
  <2> QED BY <2>3 DEF VectorBytes, VecHdr
<1>8. EndOf(s, 0, n) % U32 = EndOf(s, 0, n)
  BY <1>3, <1>4, <1>6
<1> QED BY <1>1, <1>4, <1>6, <1>7, <1>8

\* Writing to memory: what is read back.
LEMMA PutFacts ==
  ASSUME NEW m, NEW lo \in Int, NEW hi \in Int, NEW v
  PROVE  /\ Put(m, lo, hi, v) = [b \in Bytes |-> Put(m, lo, hi, v)[b]]
         /\ \A b \in Bytes : lo <= b /\ b < hi => Put(m, lo, hi, v)[b] = v
         /\ \A b \in Bytes : ~(lo <= b /\ b < hi) => Put(m, lo, hi, v)[b] = m[b]
BY DEF Put

LEMMA CopyFacts ==
  ASSUME NEW m, NEW dst \in Int, NEW src \in Int, NEW n \in Int
  PROVE  /\ Copy(m, dst, src, n) = [b \in Bytes |-> Copy(m, dst, src, n)[b]]
         /\ \A b \in Bytes : dst <= b /\ b < dst + n => Copy(m, dst, src, n)[b] = m[b - dst + src]
         /\ \A b \in Bytes : ~(dst <= b /\ b < dst + n) => Copy(m, dst, src, n)[b] = m[b]
BY DEF Copy

\* An array that is stored in one memory is stored in any that agrees on it.
LEMMA StoredFrame ==
  ASSUME NEW s \in Slots, NEW p \in Int, NEW w \in Seq(Slots \cup {0}), NEW m, NEW k, Stored(m, s, p, w),
         \A b \in p - HdrLen .. EndOf(s, p, Len(w)) - 1 : k[b] = m[b]
  PROVE  Stored(k, s, p, w)
<1>1. Len(w) \in Nat /\ EndOf(s, p, Len(w)) \in Int /\ p + 8 <= EndOf(s, p, Len(w))
  BY EndFacts
<1>2. \A b \in p - HdrLen .. p - 1 : k[b] = m[b]
  BY <1>1 DEF HdrLen
<1>3. \A b \in p .. p + VecHdr - 1 : k[b] = m[b]
  BY <1>1 DEF HdrLen, VecHdr
<1>4. ASSUME NEW i \in 1 .. Len(w), NEW b \in Elem(s, p, i) .. Elem(s, p, i + 1) - 1
      PROVE  k[b] = m[b]
  <2>1. /\ Elem(s, p, i) \in Int /\ Elem(s, p, i + 1) \in Int /\ p + 8 <= Elem(s, p, i)
        /\ Elem(s, p, i + 1) <= Elem(s, p, Len(w) + 1)
    BY <1>1, ElemFacts DEF VecHdr
  <2>2. b \in p - HdrLen .. EndOf(s, p, Len(w)) - 1
    BY <2>1, <1>1 DEF EndOf, HdrLen
  <2> QED BY <2>2
<1> QED BY <1>2, <1>3, <1>4 DEF Stored

-----------------------------------------------------------------------------
\* An array that moves to the end of the used memory: everything below the old
\* cursor, and so every other array, is as it was.
LEMMA MovedIInv ==
  ASSUME IInv, NEW s \in Slots, NEW w \in Seq(Slots \cup {0}), NEW bytes \in Nat,
         Start + bytes < U32, Alloc(bytes), EndOf(s, Start, Len(w)) = Start + bytes,
         mem' = [b \in Bytes |-> mem'[b]],
         \A b \in Bytes : b < Start - HdrLen => mem'[b] = mem[b],
         Stored(mem', s, Start, w),
         arr' = [arr EXCEPT ![s] = Start], want' = [want EXCEPT ![s] = w]
  PROVE  IInv'
<1>1. /\ pages' \in StartPages .. MaxPages
      /\ g_cursor' = Start + bytes /\ g_limit' = pages' * PageSize
      /\ g_cursor' \in Nat /\ g_limit' \in Nat /\ g_limit' > 0
      /\ Start + bytes <= pages' * PageSize /\ Start + bytes <= ArenaHi
  BY AllocFacts DEF IInv
<1>2. /\ Cursor \in Nat /\ Start \in Nat /\ Cursor <= Start - HdrLen /\ ArenaLo <= Start - HdrLen
      /\ ArenaLo \in Nat /\ ArenaHi \in Nat
  BY StartFacts, Arena DEF IInv
<1>3. Cursor' = Start + bytes
  BY <1>1 DEF Cursor
<1>4. TypeOK'
  BY <1>1, <1>2 DEF IInv, TypeOK
<1>5. CursorOK'
  BY <1>1, <1>2, <1>3 DEF CursorOK, HdrLen
<1>6. ASSUME NEW t \in Slots, t # s
      PROVE  arr'[t] = arr[t] /\ want'[t] = want[t] /\ want[t] \in Seq(Slots \cup {0}) /\ arr[t] \in Nat
  BY <1>6 DEF IInv, TypeOK
<1>7. arr'[s] = Start /\ want'[s] = w
  BY DEF IInv, TypeOK
<1>8. ASSUME NEW t \in Slots, t # s, arr[t] # Null
      PROVE  /\ Inside(t, arr[t], Len(want[t]), Start - HdrLen)
             /\ Inside(t, arr[t], Len(want[t]), Cursor')
             /\ Stored(mem', t, arr[t], want[t])
  <2> DEFINE n == Len(want[t])
  <2>1. n \in Nat /\ arr[t] \in Int /\ want[t] \in Seq(Slots \cup {0})
    BY DEF IInv, TypeOK
  <2>2. EndOf(t, arr[t], n) \in Int
    BY <2>1, EndFacts
  <2>3. Inside(t, arr[t], n, Cursor) /\ Stored(mem, t, arr[t], want[t])
    BY <1>8 DEF IInv, ArraysStored
  <2>4. \A b \in arr[t] - HdrLen .. EndOf(t, arr[t], n) - 1 : mem'[b] = mem[b]
    <3> SUFFICES ASSUME NEW b \in arr[t] - HdrLen .. EndOf(t, arr[t], n) - 1
                 PROVE  mem'[b] = mem[b]
      OBVIOUS
    <3>1. b \in Int /\ ArenaLo <= b /\ b < Cursor
      BY <2>1, <2>2, <2>3, <1>2, SMTT(30) DEF Inside, HdrLen
    <3>2. b \in Bytes /\ b < Start - HdrLen
      BY <3>1, <1>1, <1>2 DEF Bytes, HdrLen
    <3> QED BY <3>2
  <2>5. Stored(mem', t, arr[t], want[t])
    BY <2>1, <2>3, <2>4, StoredFrame
  <2> QED BY <2>1, <2>2, <2>3, <2>5, <1>2, <1>3 DEF Inside, HdrLen
<1>9. ArraysStored'
  <2> SUFFICES ASSUME NEW t \in Slots, arr'[t] # Null
               PROVE  Inside(t, arr'[t], Len(want'[t]), Cursor') /\ Stored(mem', t, arr'[t], want'[t])
    BY DEF ArraysStored, Inside, Stored, EndOf, Elem
  <2>1. CASE t = s
    <3>1. Inside(s, Start, Len(w), Cursor')
      BY <1>2, <1>3 DEF Inside
    <3> QED BY <3>1, <2>1, <1>7
  <2>2. CASE t # s
    BY <2>2, <1>6, <1>8
  <2> QED BY <2>1, <2>2
<1>10. ArraysApart'
  <2> SUFFICES ASSUME NEW a \in Slots, NEW t \in Slots \ {a}, arr'[a] # Null, arr'[t] # Null
               PROVE  Apart(a, arr'[a], Len(want'[a]), t, arr'[t], Len(want'[t]))
    BY DEF ArraysApart, Apart, EndOf, Elem
  <2>1. CASE a # s /\ t # s
    BY <2>1, <1>6 DEF IInv, ArraysApart
  <2>2. CASE a = s
    <3>1. Inside(t, arr[t], Len(want[t]), Start - HdrLen)
      BY <2>2, <1>6, <1>8
    <3> QED BY <2>2, <3>1, <1>6, <1>7 DEF Apart, Inside
  <2>3. CASE t = s
    <3>1. Inside(a, arr[a], Len(want[a]), Start - HdrLen)
      BY <2>3, <1>6, <1>8
    <3> QED BY <2>3, <3>1, <1>6, <1>7 DEF Apart, Inside
  <2> QED BY <2>1, <2>2, <2>3
<1> QED BY <1>4, <1>5, <1>9, <1>10 DEF IInv

-----------------------------------------------------------------------------
\* memory.grow is never asked for fewer than no pages.
LEMMA GrowNat ==
  ASSUME TypeOK, CursorOK, NEW bytes \in Nat
  PROVE  Grow(bytes) \in Nat
<1>1. U32 \in Nat /\ U32 > 0 /\ PageSize \in Nat /\ PageSize > 0
  BY Arena
<1>2. Start \in Nat /\ Limit \in Nat
  BY StartFacts, Arena DEF TypeOK
<1>3. End(bytes) \in Nat
  BY <1>1, <1>2 DEF End
<1>4. CASE End(bytes) <= Limit
  BY <1>4 DEF Grow
<1>5. CASE ~(End(bytes) <= Limit)
  <2>1. (End(bytes) - Limit + PageSize - 1) % U32 \in Nat
    BY <1>1, <1>2, <1>3
  <2>2. ((End(bytes) - Limit + PageSize - 1) % U32) \div PageSize \in Nat
    BY <2>1, <1>1
  <2> QED BY <2>2, <1>5 DEF Grow
<1> QED BY <1>4, <1>5

\* `new`: a vector of n cleared bytes, which is all its elements.
LEMMA NewIInv ==
  ASSUME IInv, NewIsExact, NEW s \in Slots, NEW n \in Counts[s], New(s, n)
  PROVE  IInv'
<1> DEFINE bytes == NewBytes(n)
           w == [i \in 1 .. n |-> 0]
           m1 == PutHeader(mem, Start, bytes)
           m2 == PutLen(m1, Start, n)
<1>1. n \in Nat /\ U32 \in Nat /\ U32 > 0 /\ n * ElemSize[s] = n
  BY SorobanAssumption, Arena DEF NewIsExact
<1>2. bytes \in Nat
  BY <1>1 DEF NewBytes, VecHdr
<1>3. /\ Alloc(bytes) /\ ~Overruns(n)
      /\ mem' = Put(m2, Start + VecHdr, Start + VecHdr + n, 0)
      /\ arr' = [arr EXCEPT ![s] = Start] /\ want' = [want EXCEPT ![s] = w]
  BY DEF New
<1>4. /\ Start \in Nat /\ ArenaLo <= Start - HdrLen /\ ArenaLo \in Nat /\ ArenaHi \in Nat
      /\ ArenaHi + 16 <= U32
  BY StartFacts, Arena DEF IInv
<1>5. Start + 8 + n <= ArenaHi
  <2> DEFINE p == pages + Grow(bytes)
  <2>1. Grow(bytes) \in Nat
    BY <1>2, GrowNat DEF IInv
  <2>2. p \in StartPages .. MaxPages
    BY <2>1, <1>3, SorobanAssumption, SMTT(30) DEF Alloc, Oom, IInv, TypeOK
  <2>3. p * PageSize \in Nat /\ p * PageSize <= ArenaHi
    BY <2>2, Arena
  <2>4. Start + 8 + n <= p * PageSize
    <3>1. ~(Start + 8 + n > p * PageSize)
      BY <1>3 DEF Overruns, VecHdr
    <3> HIDE DEF p
    <3> QED BY <3>1, <2>3, <1>1, <1>4
  <2> HIDE DEF p
  <2> QED BY <2>3, <2>4, <1>1, <1>4
<1>6. bytes = 8 + n /\ Start + bytes < U32
  <2>1. 8 + n < U32
    BY <1>1, <1>4, <1>5
  <2>2. (8 + n) % U32 = 8 + n
    BY <2>1, <1>1
  <2> QED BY <2>1, <2>2, <1>1, <1>4, <1>5 DEF NewBytes, VecHdr
<1> HIDE DEF bytes
<1>7. w \in Seq(Slots \cup {0}) /\ Len(w) = n /\ \A i \in 1 .. n : w[i] = 0
  BY <1>1
<1>8. EndOf(s, Start, Len(w)) = Start + bytes
  <2>1. EndOf(s, Start, n) = Start + 8 + n * ElemSize[s]
    BY <1>1, <1>4, EndFacts
  <2> QED BY <2>1, <1>1, <1>4, <1>6, <1>7
<1>9. mem' = [b \in Bytes |-> mem'[b]]
  <2> HIDE DEF m2
  <2> QED BY <1>3 DEF Put
<1>10. \A b \in Bytes :
         /\ Start - 4 <= b /\ b < Start => mem'[b] = bytes
         /\ Start <= b /\ b < Start + 8 => mem'[b] = n
         /\ Start + 8 <= b /\ b < Start + 8 + n => mem'[b] = 0
         /\ b < Start - 4 => mem'[b] = mem[b]
  <2> SUFFICES ASSUME NEW b \in Bytes
               PROVE  /\ Start - 4 <= b /\ b < Start => mem'[b] = bytes
                      /\ Start <= b /\ b < Start + 8 => mem'[b] = n
                      /\ Start + 8 <= b /\ b < Start + 8 + n => mem'[b] = 0
                      /\ b < Start - 4 => mem'[b] = mem[b]
    OBVIOUS
  <2>1. b \in Int
    BY <1>4 DEF Bytes
  <2>2. mem'[b] = IF Start + 8 <= b /\ b < Start + 8 + n THEN 0 ELSE m2[b]
    BY <1>3 DEF Put, VecHdr
  <2>3. m2[b] = IF Start <= b /\ b < Start + 8 THEN n ELSE m1[b]
    BY DEF PutLen, Put, VecHdr
  <2>4. m1[b] = IF Start - 4 <= b /\ b < Start THEN bytes ELSE mem[b]
    BY DEF PutHeader, Put, HdrLen
  <2> HIDE DEF m1, m2
  <2> QED BY <2>1, <2>2, <2>3, <2>4, <1>1, <1>4
<1>11. Stored(mem', s, Start, w)
  <2>0. \A b \in Int : Start - 4 <= b /\ b < Start + 8 + n => b \in Bytes
    BY <1>1, <1>4, <1>5 DEF Bytes, HdrLen
  <2>1. \A b \in Start - HdrLen .. Start - 1 : mem'[b] = EndOf(s, Start, Len(w)) - Start
    BY <2>0, <1>1, <1>2, <1>4, <1>8, <1>10 DEF HdrLen
  <2>2. \A b \in Start .. Start + VecHdr - 1 : mem'[b] = Len(w)
    BY <2>0, <1>1, <1>4, <1>7, <1>10 DEF VecHdr
  <2>3. ASSUME NEW i \in 1 .. Len(w), NEW b \in Elem(s, Start, i) .. Elem(s, Start, i + 1) - 1
        PROVE  mem'[b] = w[i]
    <3>1. i \in Nat \ {0} /\ i <= n
      BY <1>1, <1>7
    <3>2. /\ Elem(s, Start, i) \in Int /\ Elem(s, Start, i + 1) \in Int
          /\ Start + 8 <= Elem(s, Start, i)
          /\ Elem(s, Start, i + 1) <= Elem(s, Start, n + 1)
      BY <3>1, <1>1, <1>4, ElemFacts DEF VecHdr
    <3>3. Elem(s, Start, n + 1) = Start + 8 + n
      BY <1>1, <1>4, <1>6, <1>7, <1>8 DEF EndOf
    <3>4. b \in Int /\ Start + 8 <= b /\ b < Start + 8 + n
      BY <3>2, <3>3, <1>1, <1>4
    <3>5. w[i] = 0
      BY <3>1, <1>7
    <3> HIDE DEF w
    <3> QED BY <3>4, <3>5, <2>0, <1>1, <1>4, <1>10
  <2> HIDE DEF w
  <2> QED BY <2>1, <2>2, <2>3 DEF Stored
<1>12. \A b \in Bytes : b < Start - HdrLen => mem'[b] = mem[b]
  BY <1>10 DEF HdrLen
<1> HIDE DEF w, m1, m2
<1> QED BY <1>2, <1>3, <1>6, <1>7, <1>8, <1>9, <1>11, <1>12, MovedIInv

-----------------------------------------------------------------------------
\* The bytes that soroban_realloc copies are those of the elements that stay,
\* and they are read from below the header that it has just written.
LEMMA MovedFacts ==
  ASSUME IInv, NEW s \in Slots, arr[s] # Null, NEW n \in Nat, n <= Len(want[s]) + 1,
         EndOf(s, Start, n) <= ArenaHi
  PROVE  /\ \A b \in Bytes : b < Start - 4 => Moved(s, VectorBytes(s, n))[b] = mem[b]
         /\ \A b \in Bytes : Start - 4 <= b /\ b < Start
              => Moved(s, VectorBytes(s, n))[b] = VectorBytes(s, n)
         /\ \A i \in 1 .. Len(want[s]) : i <= n =>
              \A b \in Elem(s, Start, i) .. Elem(s, Start, i + 1) - 1 :
                Moved(s, VectorBytes(s, n))[b] = want[s][i]
<1> DEFINE bytes == VectorBytes(s, n)
           p == arr[s]
           l == Len(want[s])
           k == Kept(s, bytes)
           h == PutHeader(mem, Start, bytes)
           M == Moved(s, bytes)
<1>1. p \in Nat /\ l \in Nat /\ bytes = EndOf(s, 0, n) /\ bytes \in Nat
  BY SizeFacts
<1>2. /\ Start \in Nat /\ Cursor \in Nat /\ Cursor <= Start - 4 /\ ArenaLo <= Start - 4
      /\ ArenaLo \in Nat /\ ArenaHi \in Nat
  BY StartFacts, Arena DEF IInv, HdrLen
<1>3. /\ ArenaLo <= p - 4 /\ EndOf(s, p, l) <= Cursor /\ Stored(mem, s, p, want[s])
  BY DEF IInv, ArraysStored, Inside, HdrLen
<1>4. /\ EndOf(s, p, l) \in Int /\ EndOf(s, 0, l) \in Int /\ EndOf(s, Start, n) \in Int
      /\ 8 <= EndOf(s, 0, l)
      /\ EndOf(s, p, l) = EndOf(s, 0, l) + p
      /\ EndOf(s, Start, n) = bytes + Start
  <2>0. p \in Int /\ Start \in Int /\ 0 \in Int /\ l \in Nat /\ bytes = EndOf(s, 0, n) /\ bytes \in Nat
    BY <1>1, <1>2
  <2> HIDE DEF bytes, l, p
  <2>1. EndOf(s, p, l) = p + 8 + l * ElemSize[s]
    BY <2>0, EndFacts
  <2>2. EndOf(s, 0, l) = 0 + 8 + l * ElemSize[s] /\ l * ElemSize[s] \in Nat
    BY <2>0, EndFacts
  <2>3. EndOf(s, 0, n) = 0 + 8 + n * ElemSize[s] /\ n * ElemSize[s] \in Nat
    BY <2>0, EndFacts
  <2>4. EndOf(s, Start, n) = Start + 8 + n * ElemSize[s]
    BY <2>0, EndFacts
  <2> DEFINE x == l * ElemSize[s]
             y == n * ElemSize[s]
  <2>5. /\ EndOf(s, p, l) = p + 8 + x /\ EndOf(s, 0, l) = 8 + x /\ EndOf(s, 0, n) = 8 + y
        /\ EndOf(s, Start, n) = Start + 8 + y /\ x \in Nat /\ y \in Nat
    BY <2>1, <2>2, <2>3, <2>4
  <2> HIDE DEF x, y
  <2> QED BY <2>0, <2>5
<1>5. mem[p - HdrLen] = EndOf(s, 0, l)
  <2>1. p - HdrLen \in p - HdrLen .. p - 1
    BY <1>1 DEF HdrLen
  <2>2. mem[p - HdrLen] = EndOf(s, p, l) - p
    BY <2>1, <1>3 DEF Stored
  <2> HIDE DEF l, p
  <2> QED BY <2>2, <1>1, <1>4
<1>6. k = (IF EndOf(s, 0, l) < bytes THEN EndOf(s, 0, l) ELSE bytes) /\ k \in Nat
  <2>1. k = IF EndOf(s, 0, l) < bytes THEN EndOf(s, 0, l) ELSE bytes
    BY <1>5 DEF Kept
  <2> HIDE DEF k, bytes, l
  <2> QED BY <2>1, <1>1, <1>4
<1>7. M = Copy(h, Start, p, k)
  BY DEF Moved
<1> HIDE DEF bytes, k, M, p
<1>8. ASSUME NEW b \in Bytes
      PROVE  /\ b \in Int
             /\ M[b] = (IF Start <= b /\ b < Start + k THEN h[b - Start + p] ELSE h[b])
             /\ h[b] = (IF Start - 4 <= b /\ b < Start THEN bytes ELSE mem[b])
  <2>1. b \in Int
    BY <1>2 DEF Bytes
  <2>2. M[b] = IF Start <= b /\ b < Start + k THEN h[b - Start + p] ELSE h[b]
    <3> HIDE DEF h
    <3> QED BY <1>7 DEF Copy
  <2>3. h[b] = IF Start - 4 <= b /\ b < Start THEN bytes ELSE mem[b]
    BY DEF PutHeader, Put, HdrLen
  <2> QED BY <2>1, <2>2, <2>3
<1> HIDE DEF h, l
<1>9. \A b \in Bytes : b < Start - 4 => M[b] = mem[b]
  <2> SUFFICES ASSUME NEW b \in Bytes, b < Start - 4
               PROVE  M[b] = mem[b]
    OBVIOUS
  <2> QED BY <1>2, <1>6, <1>8
<1>10. \A b \in Bytes : Start - 4 <= b /\ b < Start => M[b] = bytes
  <2> SUFFICES ASSUME NEW b \in Bytes, Start - 4 <= b, b < Start
               PROVE  M[b] = bytes
    OBVIOUS
  <2> QED BY <1>2, <1>6, <1>8
<1>11. ASSUME NEW i \in 1 .. l, i <= n, NEW b \in Elem(s, Start, i) .. Elem(s, Start, i + 1) - 1
       PROVE  M[b] = want[s][i]
  <2> DEFINE c == b - Start + p
  <2>1. i \in Nat \ {0} /\ i <= l
    BY <1>1
  <2>2. /\ Elem(s, Start, i) \in Int /\ Elem(s, Start, i + 1) \in Int
        /\ Elem(s, p, i) \in Int /\ Elem(s, p, i + 1) \in Int
        /\ Start + 8 <= Elem(s, Start, i) /\ p + 8 <= Elem(s, p, i)
        /\ Elem(s, p, i) = Elem(s, Start, i) + (p - Start)
        /\ Elem(s, p, i + 1) = Elem(s, Start, i + 1) + (p - Start)
    <3>0. p \in Int /\ Start \in Int /\ i <= i /\ i \in Nat
      BY <2>1, <1>1, <1>2
    <3> QED BY <3>0, <2>1, ElemFacts DEF VecHdr
  <2>3. Elem(s, p, i + 1) <= EndOf(s, p, l)
    <3>0. p \in Int /\ l \in Nat
      BY <1>1
    <3> QED BY <3>0, <2>1, ElemFacts DEF EndOf
  <2>4. Elem(s, Start, i + 1) <= EndOf(s, Start, n)
    BY <2>1, <1>2, <1>11, ElemFacts DEF EndOf
  <2>5. b \in Int /\ Elem(s, Start, i) <= b /\ b < Elem(s, Start, i + 1)
    BY <2>2
  <2>6. b \in Bytes
    BY <2>2, <2>4, <2>5, <1>2, <1>4 DEF Bytes
  <2>7. Start <= b /\ b < Start + k
    <3>1. b < Start + bytes
      BY <2>4, <2>5, <2>2, <1>1, <1>2, <1>4, SMTT(30)
    <3>2. b < Start + EndOf(s, 0, l)
      <4>1. b < EndOf(s, p, l) - p + Start
        <5> DEFINE x == Elem(s, p, i + 1)
                   y == Elem(s, Start, i + 1)
                   z == EndOf(s, p, l)
        <5>1. x \in Int /\ y \in Int /\ z \in Int /\ p \in Int /\ Start \in Int /\ b \in Int
          BY <2>2, <2>5, <1>1, <1>2, <1>4
        <5>2. x = y + (p - Start) /\ x <= z /\ b < y
          BY <2>2, <2>3, <2>5
        <5> HIDE DEF x, y, z
        <5>3. b < z - p + Start
          BY <5>1, <5>2
        <5> QED BY <5>3 DEF z
      <4> QED BY <4>1, <1>1, <1>2, <1>4, SMTT(30)
    <3> QED BY <3>1, <3>2, <2>2, <2>5, <1>1, <1>2, <1>4, <1>6, SMTT(30)
  <2>8. M[b] = h[c]
    BY <2>6, <2>7, <1>8
  <2>9. c \in Int /\ Elem(s, p, i) <= c /\ c < Elem(s, p, i + 1)
    BY <2>2, <2>5, <1>1, <1>2, SMTT(30)
  <2> HIDE DEF c
  <2>10. c < Start - 4 /\ ArenaLo <= c
    <3>1. EndOf(s, p, l) <= Cursor /\ ArenaLo <= p - 4
      BY <1>3 DEF p, l
    <3>2. Elem(s, p, i + 1) <= Cursor
      BY <3>1, <2>2, <2>3, <1>2, <1>4, SMTT(30)
    <3>3. c < Cursor
      BY <3>2, <2>2, <2>9, <1>2
    <3>4. p + 8 <= c /\ p \in Nat
      BY <2>2, <2>9, <1>1
    <3>5. ArenaLo <= c
      BY <3>1, <3>4, <2>9, <1>2
    <3> QED BY <3>3, <3>5, <2>9, <1>2
  <2>11. c \in Bytes
    <3>1. c < ArenaHi
      BY <2>2, <2>4, <2>5, <2>9, <2>10, <1>2, <1>4
    <3> QED BY <3>1, <2>9, <2>10, <1>2 DEF Bytes
  <2>12. h[c] = mem[c]
    BY <2>9, <2>10, <2>11, <1>2, <1>8
  <2>13. mem[c] = want[s][i]
    <3>1. c \in Elem(s, p, i) .. Elem(s, p, i + 1) - 1
      BY <2>2, <2>9
    <3> QED BY <3>1, <1>3 DEF Stored, p, l
  <2> QED BY <2>8, <2>12, <2>13
<1> QED BY <1>9, <1>10, <1>11 DEF M, bytes, l

\* soroban_realloc, and the stores of the length and of the new element, that
\* leave the array of s with the elements w.
LEMMA ResizedIInv ==
  ASSUME IInv, NEW s \in Slots, arr[s] # Null, NEW w \in Seq(Slots \cup {0}), NEW m,
         Len(w) <= Len(want[s]) + 1, Alloc(VectorBytes(s, Len(w))),
         \A i \in 1 .. Len(want[s]) : i <= Len(w) => w[i] = want[s][i],
         \A b \in Bytes : b < Elem(s, Start, Len(want[s]) + 1)
           => m[b] = Moved(s, VectorBytes(s, Len(w)))[b],
         \A b \in Elem(s, Start, Len(want[s]) + 1) .. Elem(s, Start, Len(w) + 1) - 1 :
           m[b] = w[Len(want[s]) + 1],
         mem' = PutLen(m, Start, Len(w)),
         arr' = [arr EXCEPT ![s] = Start], want' = [want EXCEPT ![s] = w]
  PROVE  IInv'
<1> DEFINE n == Len(w)
           l == Len(want[s])
           bytes == VectorBytes(s, n)
           M == Moved(s, bytes)
<1>1. n \in Nat /\ l \in Nat /\ bytes = EndOf(s, 0, n) /\ bytes \in Nat /\ Start + bytes < U32
  BY SizeFacts
<1>2. /\ Start \in Nat /\ ArenaLo <= Start - 4 /\ ArenaLo \in Nat /\ ArenaHi \in Nat
      /\ Start + bytes <= ArenaHi
  <2>1. Start \in Nat /\ ArenaLo <= Start - 4 /\ ArenaLo \in Nat /\ ArenaHi \in Nat
    BY StartFacts, Arena DEF IInv, HdrLen
  <2>2. Start + bytes <= ArenaHi
    BY <1>1, AllocFacts DEF IInv
  <2> QED BY <2>1, <2>2
<1>3. EndOf(s, Start, n) = Start + bytes /\ 8 <= bytes
  <2>0. 0 \in Int /\ Start \in Int /\ n \in Nat
    BY <1>1, <1>2
  <2>1. EndOf(s, 0, n) \in Int /\ 0 + 8 <= EndOf(s, 0, n)
    BY <2>0, EndFacts
  <2>2. EndOf(s, Start, n) = EndOf(s, 0, n) + (Start - 0)
    BY <2>0, EndMoves
  <2> QED BY <2>1, <2>2, <1>1, <1>2
<1>4. /\ \A b \in Bytes : b < Start - 4 => M[b] = mem[b]
      /\ \A b \in Bytes : Start - 4 <= b /\ b < Start => M[b] = bytes
      /\ \A i \in 1 .. l : i <= n =>
           \A b \in Elem(s, Start, i) .. Elem(s, Start, i + 1) - 1 : M[b] = want[s][i]
  <2>1. n \in Nat /\ n <= Len(want[s]) + 1 /\ EndOf(s, Start, n) <= ArenaHi
    BY <1>1, <1>2, <1>3
  <2> QED BY <2>1, MovedFacts
<1> HIDE DEF n, M, bytes
<1>5. ASSUME NEW b \in Bytes
      PROVE  b \in Int /\ mem'[b] = IF Start <= b /\ b < Start + 8 THEN n ELSE m[b]
  BY <1>2 DEF PutLen, Put, VecHdr, Bytes, n
<1>6. mem' = [b \in Bytes |-> mem'[b]]
  BY DEF PutLen, Put
<1>7. /\ Elem(s, Start, l + 1) \in Int /\ Start + 8 <= Elem(s, Start, l + 1)
  <2>1. EndOf(s, Start, l) \in Int /\ Start + 8 <= EndOf(s, Start, l)
    <3>1. Start \in Int /\ l \in Nat
      BY <1>1, <1>2
    <3> HIDE DEF l
    <3> QED BY <3>1, EndFacts
  <2> QED BY <2>1 DEF EndOf
<1>8. \A b \in Bytes : b < Elem(s, Start, l + 1) => m[b] = M[b]
  BY DEF M, bytes, n
<1>9. \A b \in Bytes : b < Start - HdrLen => mem'[b] = mem[b]
  <2> SUFFICES ASSUME NEW b \in Bytes, b < Start - 4
               PROVE  mem'[b] = mem[b]
    BY DEF HdrLen
  <2>1. mem'[b] = m[b] /\ b < Elem(s, Start, l + 1)
    BY <1>2, <1>5, <1>7
  <2> QED BY <2>1, <1>4, <1>8
<1>10. \A b \in Int : Start - 4 <= b /\ b < Start + bytes => b \in Bytes
  BY <1>1, <1>2 DEF Bytes
<1>11. Stored(mem', s, Start, w)
  <2>1. \A b \in Start - HdrLen .. Start - 1 : mem'[b] = EndOf(s, Start, Len(w)) - Start
    <3> SUFFICES ASSUME NEW b \in Start - 4 .. Start - 1
                 PROVE  mem'[b] = bytes
      BY <1>1, <1>2, <1>3 DEF HdrLen, n
    <3>1. b \in Bytes
      BY <1>1, <1>2, <1>3, <1>10
    <3>2. mem'[b] = m[b] /\ b < Elem(s, Start, l + 1)
      BY <3>1, <1>2, <1>5, <1>7
    <3>3. m[b] = M[b] /\ M[b] = bytes
      BY <3>1, <3>2, <1>2, <1>4, <1>8
    <3> QED BY <3>2, <3>3
  <2>2. \A b \in Start .. Start + VecHdr - 1 : mem'[b] = Len(w)
    <3> SUFFICES ASSUME NEW b \in Start .. Start + 7
                 PROVE  mem'[b] = n
      BY <1>2 DEF VecHdr, n
    <3>1. b \in Int /\ Start - 4 <= b /\ b < Start + bytes
      BY <1>1, <1>2, <1>3
    <3>2. b \in Bytes
      BY <3>1, <1>10
    <3> QED BY <3>1, <3>2, <1>2, <1>5
  <2>3. ASSUME NEW i \in 1 .. n, NEW b \in Elem(s, Start, i) .. Elem(s, Start, i + 1) - 1
        PROVE  mem'[b] = w[i]
    <3>1. i \in Nat \ {0} /\ i \in Nat /\ i <= n /\ Start \in Int
      BY <1>1, <1>2
    <3>2. /\ Elem(s, Start, i) \in Int /\ Elem(s, Start, i + 1) \in Int
          /\ Start + 8 <= Elem(s, Start, i)
          /\ Elem(s, Start, i + 1) <= Elem(s, Start, n + 1)
      BY <3>1, <1>1, ElemFacts DEF VecHdr
    <3>3. b \in Int /\ Elem(s, Start, i) <= b /\ b < Elem(s, Start, i + 1)
      BY <3>2
    <3>4. b \in Bytes
      <4>1. Elem(s, Start, n + 1) = Start + bytes
        BY <1>3 DEF EndOf
      <4> QED BY <4>1, <3>2, <3>3, <1>1, <1>2, <1>10
    <3>5. mem'[b] = m[b]
      BY <3>2, <3>3, <3>4, <1>2, <1>5
    <3>6. CASE i <= l
      <4>1. i \in 1 .. l
        BY <3>1, <3>6, <1>1
      <4>2. Elem(s, Start, i + 1) <= Elem(s, Start, l + 1)
        BY <3>1, <3>6, <1>1, ElemFacts
      <4>3. b < Elem(s, Start, l + 1)
        BY <4>2, <3>2, <3>3, <1>7
      <4>4. m[b] = M[b] /\ M[b] = want[s][i]
        BY <4>1, <4>3, <3>1, <3>4, <1>4, <1>8
      <4>5. w[i] = want[s][i]
        BY <4>1, <3>1 DEF n
      <4> QED BY <4>4, <4>5, <3>5
    <3>7. CASE ~(i <= l)
      <4>1. i = l + 1 /\ n = l + 1
        BY <3>1, <3>7, <1>1 DEF n
      <4>2. b \in Elem(s, Start, l + 1) .. Elem(s, Start, n + 1) - 1
        BY <4>1
      <4>3. m[b] = w[l + 1]
        BY <4>2 DEF n
      <4> QED BY <4>1, <4>3, <3>5
    <3> QED BY <3>6, <3>7
  <2> QED BY <2>1, <2>2, <2>3 DEF Stored, n
<1>12. Alloc(bytes) /\ EndOf(s, Start, Len(w)) = Start + bytes
  BY <1>3 DEF bytes, n
<1> QED BY <1>1, <1>6, <1>9, <1>11, <1>12, MovedIInv

\* PushMemory
LEMMA PushIInv ==
  ASSUME IInv, NEW s \in Slots, Push(s)
  PROVE  IInv'
<1> DEFINE w == Append(want[s], s)
           l == Len(want[s])
           M == Moved(s, VectorBytes(s, l + 1))
           m == Put(M, Elem(s, Start, l + 1), Elem(s, Start, l + 1 + 1), s)
<1>1. want[s] \in Seq(Slots \cup {0}) /\ l \in Nat /\ arr[s] # Null /\ arr[s] \in Nat
  BY DEF IInv, TypeOK, Push
<1>2. VectorLen(s) = l
  <2>1. Stored(mem, s, arr[s], want[s])
    BY <1>1 DEF IInv, ArraysStored
  <2> QED BY <2>1, <1>1 DEF Stored, VectorLen, VecHdr
<1>3. /\ Alloc(VectorBytes(s, l + 1)) /\ mem' = PutLen(m, Start, l + 1)
      /\ arr' = [arr EXCEPT ![s] = Start] /\ want' = [want EXCEPT ![s] = w]
  <2>1. want' = [want EXCEPT ![s] = w]
    BY DEF Push
  <2> QED BY <2>1, <1>2 DEF Push
<1>4. /\ w \in Seq(Slots \cup {0}) /\ Len(w) = l + 1 /\ w[l + 1] = s
      /\ \A i \in 1 .. l : w[i] = want[s][i]
  BY <1>1
<1>5. \A b \in Bytes : b < Elem(s, Start, l + 1) => m[b] = M[b]
  <2> HIDE DEF M
  <2>1. Elem(s, Start, l + 1) \in Int
    <3>1. Start \in Int
      BY StartFacts DEF IInv
    <3>2. EndOf(s, Start, l) \in Int
      BY <3>1, <1>1, EndFacts
    <3> QED BY <3>2 DEF EndOf
  <2> SUFFICES ASSUME NEW b \in Bytes, b < Elem(s, Start, l + 1)
               PROVE  m[b] = M[b]
    OBVIOUS
  <2>2. b \in Int
    BY Arena DEF Bytes
  <2>3. ~(Elem(s, Start, l + 1) <= b)
    BY <2>1, <2>2
  <2> QED BY <2>3 DEF Put
<1>6. \A b \in Elem(s, Start, l + 1) .. Elem(s, Start, l + 1 + 1) - 1 : m[b] = s
  <2> SUFFICES ASSUME NEW b \in Elem(s, Start, l + 1) .. Elem(s, Start, l + 1 + 1) - 1
               PROVE  m[b] = s
    OBVIOUS
  <2>1. l + 1 \in Nat /\ Len(w) = l + 1 /\ Start \in Nat /\ ArenaLo <= Start /\ ArenaLo \in Nat
        /\ ArenaHi \in Nat
    BY <1>1, <1>4, StartFacts, Arena, SMTT(30) DEF IInv, HdrLen
  <2>2. /\ VectorBytes(s, l + 1) = EndOf(s, 0, l + 1) /\ VectorBytes(s, l + 1) \in Nat
        /\ Start + VectorBytes(s, l + 1) < U32
    <3>1. l + 1 <= Len(want[s]) + 1
      BY <1>1
    <3> QED BY <3>1, <2>1, <1>1, SizeFacts
  <2>3. Start + VectorBytes(s, l + 1) <= ArenaHi
    BY <2>2, <1>3, AllocFacts DEF IInv
  <2> HIDE DEF l
  <2>4. EndOf(s, Start, l + 1) = EndOf(s, 0, l + 1) + (Start - 0)
    <3>1. Start \in Int /\ 0 \in Int
      BY <2>1
    <3> QED BY <3>1, <2>1, EndMoves
  <2>5. EndOf(s, Start, l + 1) <= ArenaHi /\ EndOf(s, Start, l + 1) \in Int
    BY <2>1, <2>2, <2>3, <2>4
  <2>6. /\ Elem(s, Start, l + 1) \in Int /\ Elem(s, Start, l + 1 + 1) \in Int
        /\ Start + 8 <= Elem(s, Start, l + 1) /\ Elem(s, Start, l + 1 + 1) <= ArenaHi
    <3>1. Start \in Int /\ l + 1 \in Nat \ {0} /\ l + 1 <= l + 1
      BY <2>1, <1>1
    <3> QED BY <3>1, <2>5, ElemFacts DEF EndOf, VecHdr
  <2>7. b \in Int /\ Elem(s, Start, l + 1) <= b /\ b < Elem(s, Start, l + 1 + 1)
    BY <2>6
  <2>8. b \in Bytes
    BY <2>1, <2>6, <2>7 DEF Bytes
  <2> HIDE DEF M
  <2> QED BY <2>7, <2>8 DEF Put
<1> HIDE DEF m
<1>7. /\ Len(w) <= Len(want[s]) + 1 /\ Alloc(VectorBytes(s, Len(w)))
      /\ \A i \in 1 .. Len(want[s]) : i <= Len(w) => w[i] = want[s][i]
      /\ mem' = PutLen(m, Start, Len(w))
  BY <1>1, <1>3, <1>4
<1>8. /\ \A b \in Bytes : b < Elem(s, Start, Len(want[s]) + 1)
           => m[b] = Moved(s, VectorBytes(s, Len(w)))[b]
      /\ \A b \in Elem(s, Start, Len(want[s]) + 1) .. Elem(s, Start, Len(w) + 1) - 1 :
           m[b] = w[Len(want[s]) + 1]
  BY <1>4, <1>5, <1>6
<1>9. arr[s] # Null /\ w \in Seq(Slots \cup {0})
      /\ arr' = [arr EXCEPT ![s] = Start] /\ want' = [want EXCEPT ![s] = w]
  BY <1>1, <1>3, <1>4
<1> HIDE DEF w, M, l
<1> QED BY <1>7, <1>8, <1>9, ResizedIInv, ZenonT(60)

\* PopMemory
LEMMA PopIInv ==
  ASSUME IInv, NEW s \in Slots, Pop(s)
  PROVE  IInv'
<1> DEFINE l == Len(want[s])
           w == SubSeq(want[s], 1, l - 1)
           m == Moved(s, VectorBytes(s, l - 1))
<1>1. want[s] \in Seq(Slots \cup {0}) /\ l \in Nat /\ arr[s] # Null /\ arr[s] \in Nat
  BY DEF IInv, TypeOK, Pop
<1>2. VectorLen(s) = l
  <2>1. Stored(mem, s, arr[s], want[s])
    BY <1>1 DEF IInv, ArraysStored
  <2> QED BY <2>1, <1>1 DEF Stored, VectorLen, VecHdr
<1>3. /\ l - 1 >= 0 /\ Alloc(VectorBytes(s, l - 1)) /\ mem' = PutLen(m, Start, l - 1)
      /\ arr' = [arr EXCEPT ![s] = Start] /\ want' = [want EXCEPT ![s] = w]
  <2>1. want' = [want EXCEPT ![s] = w]
    BY DEF Pop
  <2> QED BY <2>1, <1>2 DEF Pop
<1>4. /\ w \in Seq(Slots \cup {0}) /\ Len(w) = l - 1
      /\ \A i \in 1 .. l : i <= l - 1 => w[i] = want[s][i]
  BY <1>1, <1>3
<1>5. \A b \in Elem(s, Start, l + 1) .. Elem(s, Start, l - 1 + 1) - 1 : FALSE
  <2>1. Start \in Int /\ l \in Nat \ {0} /\ l \in Nat /\ l <= l
    BY <1>1, <1>3, StartFacts DEF IInv
  <2> HIDE DEF l
  <2>2. Elem(s, Start, l) \in Int /\ Elem(s, Start, l + 1) \in Int /\ Elem(s, Start, l) < Elem(s, Start, l + 1)
    BY <2>1, ElemFacts
  <2>3. l - 1 + 1 = l
    BY <2>1
  <2> QED BY <2>2, <2>3
<1> HIDE DEF m
<1>6. /\ Len(w) <= Len(want[s]) + 1 /\ Alloc(VectorBytes(s, Len(w)))
      /\ \A i \in 1 .. Len(want[s]) : i <= Len(w) => w[i] = want[s][i]
      /\ mem' = PutLen(m, Start, Len(w))
  BY <1>1, <1>3, <1>4
<1>7. /\ \A b \in Bytes : b < Elem(s, Start, Len(want[s]) + 1)
           => m[b] = Moved(s, VectorBytes(s, Len(w)))[b]
      /\ \A b \in Elem(s, Start, Len(want[s]) + 1) .. Elem(s, Start, Len(w) + 1) - 1 :
           m[b] = w[Len(want[s]) + 1]
  BY <1>4, <1>5 DEF m
<1>8. arr[s] # Null /\ w \in Seq(Slots \cup {0})
      /\ arr' = [arr EXCEPT ![s] = Start] /\ want' = [want EXCEPT ![s] = w]
  BY <1>1, <1>3, <1>4
<1> HIDE DEF w, l
<1> QED BY <1>6, <1>7, <1>8, ResizedIInv, ZenonT(60)

\* a[i] = v: the element is inside the array, and so in no other.
LEMMA AssignIInv ==
  ASSUME IInv, NEW s \in Slots, NEW i \in 1 .. Len(want[s]), Assign(s, i)
  PROVE  IInv'
<1> DEFINE p == arr[s]
           n == Len(want[s])
           w == [want[s] EXCEPT ![i] = s]
           lo == Elem(s, p, i)
           hi == Elem(s, p, i + 1)
<1>1. want[s] \in Seq(Slots \cup {0}) /\ n \in Nat /\ p # Null /\ p \in Nat
  BY DEF IInv, TypeOK, Assign
<1>2. /\ mem' = Put(mem, lo, hi, s) /\ want' = [want EXCEPT ![s] = w]
      /\ arr' = arr /\ pages' = pages /\ g_cursor' = g_cursor /\ g_limit' = g_limit
  BY DEF Assign
<1>3. /\ w \in Seq(Slots \cup {0}) /\ Len(w) = n /\ w[i] = s
      /\ \A j \in 1 .. n : j # i => w[j] = want[s][j]
  BY <1>1
<1>4. Inside(s, p, n, Cursor) /\ Stored(mem, s, p, want[s])
  BY <1>1 DEF IInv, ArraysStored
<1>5. i \in Nat \ {0} /\ i \in Nat /\ i <= n /\ p \in Int
  BY <1>1
<1> HIDE DEF p, n, w
<1>6. lo \in Int /\ hi \in Int /\ p + 8 <= lo /\ lo < hi /\ hi <= EndOf(s, p, n) /\ EndOf(s, p, n) \in Int
  BY <1>1, <1>5, ElemFacts DEF EndOf, VecHdr
<1>7. /\ Cursor \in Nat /\ ArenaLo \in Nat /\ ArenaHi \in Nat /\ Cursor <= ArenaHi
  <2>1. Cursor <= pages * PageSize /\ pages * PageSize <= ArenaHi /\ pages * PageSize \in Nat
    BY Arena DEF IInv, TypeOK, CursorOK
  <2> QED BY <2>1, Arena, StartFacts DEF IInv
<1> HIDE DEF lo, hi
<1>8. \A b \in Bytes : mem'[b] = IF lo <= b /\ b < hi THEN s ELSE mem[b]
  BY <1>2 DEF Put
<1>9. Cursor' = Cursor
  BY <1>2 DEF Cursor
<1>10. TypeOK' /\ CursorOK'
  <2>1. mem' = [b \in Bytes |-> mem'[b]]
    BY <1>2 DEF Put
  <2> QED BY <2>1, <1>2, <1>3, <1>9 DEF IInv, TypeOK, CursorOK
<1>11. want'[s] = w /\ Len(want'[s]) = n
  BY <1>2, <1>3 DEF IInv, TypeOK
<1>12. \A t \in Slots : Len(want'[t]) = Len(want[t]) /\ (t # s => want'[t] = want[t])
  BY <1>2, <1>11 DEF IInv, TypeOK, n
<1>13. Stored(mem', s, p, w)
  <2>1. \A b \in Int : ArenaLo <= b /\ b < EndOf(s, p, n) => b \in Bytes
    BY <1>4, <1>6, <1>7 DEF Bytes, Inside
  <2>2. ArenaLo <= p - 4
    BY <1>4 DEF Inside, HdrLen
  <2>3. \A b \in p - HdrLen .. p - 1 : mem'[b] = EndOf(s, p, Len(w)) - p
    <3> SUFFICES ASSUME NEW b \in p - 4 .. p - 1
                 PROVE  mem'[b] = EndOf(s, p, n) - p
      BY <1>3 DEF HdrLen
    <3>1. b \in Bytes /\ ~(lo <= b)
      BY <2>1, <2>2, <1>5, <1>6, <1>7
    <3>2. mem[b] = EndOf(s, p, n) - p
      BY <1>4 DEF Stored, HdrLen, n
    <3> QED BY <3>1, <3>2, <1>8
  <2>4. \A b \in p .. p + VecHdr - 1 : mem'[b] = Len(w)
    <3> SUFFICES ASSUME NEW b \in p .. p + 8 - 1
                 PROVE  mem'[b] = n
      BY <1>3 DEF VecHdr
    <3>1. b \in Bytes /\ ~(lo <= b)
      BY <2>1, <2>2, <1>5, <1>6, <1>7
    <3>2. mem[b] = n
      BY <1>4 DEF Stored, VecHdr, n
    <3> QED BY <3>1, <3>2, <1>8
  <2>5. ASSUME NEW j \in 1 .. n, NEW b \in Elem(s, p, j) .. Elem(s, p, j + 1) - 1
        PROVE  mem'[b] = w[j]
    <3>1. j \in Nat \ {0} /\ j \in Nat /\ j <= n
      BY <1>1
    <3>2. /\ Elem(s, p, j) \in Int /\ Elem(s, p, j + 1) \in Int /\ p + 8 <= Elem(s, p, j)
          /\ Elem(s, p, j + 1) <= EndOf(s, p, n)
      BY <3>1, <1>1, <1>5, ElemFacts DEF EndOf, VecHdr
    <3>3. b \in Int /\ Elem(s, p, j) <= b /\ b < Elem(s, p, j + 1)
      BY <3>2
    <3>4. b \in Bytes
      BY <2>1, <2>2, <3>2, <3>3, <1>5, <1>6, <1>7
    <3>5. CASE j = i
      <4>1. lo <= b /\ b < hi
        BY <3>3, <3>5 DEF lo, hi
      <4> QED BY <4>1, <3>4, <3>5, <1>3, <1>8
    <3>6. CASE j # i
      <4>1. ~(lo <= b /\ b < hi)
        <5>1. CASE j < i
          <6>1. Elem(s, p, j + 1) <= lo
            BY <5>1, <3>1, <1>5, ElemFacts DEF lo
          <6> QED BY <6>1, <3>2, <3>3, <1>6
        <5>2. CASE i < j
          <6>1. hi <= Elem(s, p, j)
            <7>1. i <= j
              BY <5>2, <3>1, <1>5
            <7>2. Elem(s, p, i + 1) <= Elem(s, p, j)
              BY <7>1, <5>2, <3>1, <1>5, ElemFacts
            <7> QED BY <7>2 DEF hi
          <6> QED BY <6>1, <3>2, <3>3, <1>6
        <5> QED BY <5>1, <5>2, <3>1, <3>6, <1>5
      <4>2. mem[b] = want[s][j]
        BY <1>4 DEF Stored, n
      <4> QED BY <4>1, <4>2, <3>4, <3>6, <1>3, <1>8
    <3> QED BY <3>5, <3>6
  <2> QED BY <2>3, <2>4, <2>5, <1>3 DEF Stored
<1>14. ASSUME NEW t \in Slots, t # s, arr[t] # Null
       PROVE  Stored(mem', t, arr[t], want[t])
  <2> DEFINE q == arr[t]
             k == Len(want[t])
  <2>1. q \in Int /\ k \in Nat /\ want[t] \in Seq(Slots \cup {0})
    BY DEF IInv, TypeOK
  <2>2. Inside(t, q, k, Cursor) /\ Stored(mem, t, q, want[t])
    BY <1>14 DEF IInv, ArraysStored
  <2>3. EndOf(s, p, n) <= q - 4 \/ EndOf(t, q, k) <= p - 4
    BY <1>1, <1>14 DEF IInv, ArraysApart, Apart, HdrLen, p, n
  <2> HIDE DEF q, k
  <2>4. EndOf(t, q, k) \in Int
    BY <2>1, EndFacts
  <2>5. \A b \in q - HdrLen .. EndOf(t, q, k) - 1 : mem'[b] = mem[b]
    <3> SUFFICES ASSUME NEW b \in q - 4 .. EndOf(t, q, k) - 1
                 PROVE  mem'[b] = mem[b]
      BY DEF HdrLen
    <3>1. b \in Int /\ q - 4 <= b /\ b < EndOf(t, q, k)
      BY <2>1, <2>4
    <3>2. b \in Bytes
      <4>1. ArenaLo <= q - 4 /\ EndOf(t, q, k) <= Cursor
        BY <2>2 DEF Inside, HdrLen
      <4> QED BY <4>1, <3>1, <2>1, <2>4, <1>7 DEF Bytes
    <3>3. ~(lo <= b /\ b < hi)
      BY <2>1, <2>3, <2>4, <3>1, <1>5, <1>6
    <3> QED BY <3>2, <3>3, <1>8
  <2>6. Stored(mem', t, q, want[t])
    BY <2>1, <2>2, <2>5, StoredFrame DEF k
  <2> QED BY <2>6 DEF q
<1>15. ArraysStored'
  <2> SUFFICES ASSUME NEW t \in Slots, arr[t] # Null
               PROVE  Inside(t, arr[t], Len(want'[t]), Cursor') /\ Stored(mem', t, arr[t], want'[t])
    BY <1>2 DEF ArraysStored, Inside, Stored, EndOf, Elem
  <2>1. Inside(t, arr[t], Len(want'[t]), Cursor')
    BY <1>9, <1>12 DEF IInv, ArraysStored
  <2>2. CASE t = s
    BY <2>1, <2>2, <1>11, <1>13 DEF p
  <2>3. CASE t # s
    BY <2>1, <2>3, <1>12, <1>14
  <2> QED BY <2>2, <2>3
<1>16. ArraysApart'
  <2> SUFFICES ASSUME NEW a \in Slots, NEW t \in Slots \ {a}, arr[a] # Null, arr[t] # Null
               PROVE  Apart(a, arr[a], Len(want'[a]), t, arr[t], Len(want'[t]))
    BY <1>2 DEF ArraysApart, Apart, EndOf, Elem
  <2> QED BY <1>12 DEF IInv, ArraysApart
<1> QED BY <1>10, <1>15, <1>16 DEF IInv

-----------------------------------------------------------------------------
LEMMA InitIInv ==
  ASSUME Init
  PROVE  IInv
<1>1. TypeOK
  BY SorobanAssumption DEF Init, TypeOK, Null
<1>2. CursorOK
  <2>1. Cursor = pages * PageSize
    BY DEF Cursor, Init
  <2> QED BY <2>1, <1>1, Arena DEF Init, CursorOK, TypeOK
<1>3. \A s \in Slots : arr[s] = Null
  BY DEF Init
<1> QED BY <1>1, <1>2, <1>3 DEF IInv, ArraysStored, ArraysApart

\* A step that only ends the call leaves the arrays alone.
LEMMA SameIInv ==
  ASSUME IInv, UNCHANGED <<pages, g_cursor, g_limit, mem, arr, want>>
  PROVE  IInv'
<1>1. Cursor' = Cursor
  BY DEF Cursor
<1>2. TypeOK' /\ CursorOK'
  BY <1>1 DEF IInv, TypeOK, CursorOK
<1>3. ArraysStored'
  <2> SUFFICES ASSUME NEW t \in Slots, arr[t] # Null
               PROVE  Inside(t, arr[t], Len(want[t]), Cursor') /\ Stored(mem, t, arr[t], want[t])
    BY DEF ArraysStored, Inside, Stored, EndOf, Elem
  <2> QED BY <1>1 DEF IInv, ArraysStored
<1>4. ArraysApart'
  <2> SUFFICES ASSUME NEW a \in Slots, NEW t \in Slots \ {a}, arr[a] # Null, arr[t] # Null
               PROVE  Apart(a, arr[a], Len(want[a]), t, arr[t], Len(want[t]))
    BY DEF ArraysApart, Apart, EndOf, Elem
  <2> QED BY DEF IInv, ArraysApart
<1> QED BY <1>2, <1>3, <1>4 DEF IInv

LEMMA NextIInv ==
  ASSUME NewIsExact, IInv, [Next]_vars
  PROVE  IInv'
<1>1. CASE UNCHANGED vars
  BY <1>1, SameIInv DEF vars
<1>2. ASSUME NEW s \in Slots, NEW n \in Counts[s], New(s, n)
      PROVE  IInv'
  BY <1>2, NewIInv
<1>3. ASSUME NEW s \in Slots, NEW n \in Counts[s], NewTraps(n) \/ NewFails(n)
      PROVE  IInv'
  BY <1>3, SameIInv DEF NewTraps, NewFails
<1>4. ASSUME NEW s \in Slots, NEW i \in 1 .. Len(want[s]), Assign(s, i)
      PROVE  IInv'
  BY <1>4, AssignIInv
<1>5. ASSUME NEW s \in Slots, Push(s) \/ Pop(s)
      PROVE  IInv'
  BY <1>5, PushIInv, PopIInv
<1>6. ASSUME NEW s \in Slots, PopEmpty(s) \/ ResizeFails(s)
      PROVE  IInv'
  BY <1>6, SameIInv DEF PopEmpty, ResizeFails
<1> QED BY <1>1, <1>2, <1>3, <1>4, <1>5, <1>6 DEF Next

\* The bump allocator: if `new` asks for enough (soroban_alloc_init is passed
\* the number of elements), the cursor stays in the grown memory, every array is
\* below it with its header, its length and its elements, and no two overlap.
THEOREM SorobanInvariant ==
  ASSUME NewIsExact
  PROVE  Spec => []IInv
<1>1. Init => IInv
  BY InitIInv
<1>2. IInv /\ [Next]_vars => IInv'
  BY NextIInv
<1> QED BY <1>1, <1>2, PTL DEF Spec

\* stdlib/soroban.c and the emitted push, pop and assignment never change what
\* another array holds, or lose an element of the array that is moved.
THEOREM SorobanDataIntact ==
  ASSUME NewIsExact
  PROVE  Spec => []DataIntact
<1>1. IInv => DataIntact
  <2> SUFFICES ASSUME IInv, NEW s \in Slots, arr[s] # Null
               PROVE  /\ VectorLen(s) = Len(want[s])
                      /\ \A i \in 1 .. Len(want[s]) :
                           \A b \in Elem(s, arr[s], i) .. Elem(s, arr[s], i + 1) - 1 :
                             mem[b] = want[s][i]
    BY DEF DataIntact
  <2>1. arr[s] \in Nat
    BY DEF IInv, TypeOK
  <2>2. Stored(mem, s, arr[s], want[s])
    BY DEF IInv, ArraysStored
  <2> QED BY <2>1, <2>2 DEF Stored, VectorLen, VecHdr
<1> QED BY <1>1, SorobanInvariant, PTL

-----------------------------------------------------------------------------
\* A step after which only the array of s may be elsewhere or longer is a step
\* of the allocator.
LEMMA PlaceStep ==
  ASSUME IInv, IInv', NEW s \in Slots, arr'[s] # Null,
         \A t \in Slots \ {s} : arr'[t] = arr[t] /\ want'[t] = want[t]
  PROVE  Abstract!Place(s)
<1> DEFINE p == arr'[s]
           n == Len(want'[s])
           b == [lo |-> p - 4, hi |-> EndOf(s, p, n)]
<1>1. p \in Int /\ n \in Nat
  BY DEF IInv, TypeOK
<1>2. Blocks'[s] = b /\ \A t \in Slots \ {s} : Blocks'[t] = Blocks[t]
  BY DEF Blocks, Block, EndOf, HdrLen, Elem
<1>3. Blocks' = [Blocks EXCEPT ![s] = Blocks'[s]]
  BY <1>2 DEF Blocks
<1>4. Inside(s, p, n, Cursor') /\ Cursor' <= pages' * PageSize /\ pages' \in StartPages .. MaxPages
      /\ Cursor' \in Int
  <2>1. Inside(s, p, n, Cursor') /\ Cursor' <= pages' * PageSize
        /\ pages' \in StartPages .. MaxPages /\ g_cursor' \in Nat
    BY DEF IInv, ArraysStored, CursorOK, TypeOK, Inside, EndOf, Elem
  <2> QED BY <2>1, Arena DEF Cursor
<1> HIDE DEF p, n
<1>5. EndOf(s, p, n) \in Int /\ p + 8 <= EndOf(s, p, n)
  BY <1>1, EndFacts
<1>6. b \in [lo : Int, hi : Int] /\ b.lo = p - 4 /\ b.hi = EndOf(s, p, n)
  BY <1>1, <1>5
<1>7. ArenaLo <= b.lo /\ b.lo <= b.hi /\ b.hi <= ArenaHi
  <2>1. pages' * PageSize \in Nat /\ pages' * PageSize <= ArenaHi /\ ArenaHi \in Nat
    BY <1>4, Arena
  <2>2. ArenaLo <= p - 4 /\ EndOf(s, p, n) <= Cursor'
    BY <1>4 DEF Inside, HdrLen
  <2> HIDE DEF b
  <2> QED BY <2>1, <2>2, <1>1, <1>4, <1>5, <1>6
<1>8. ASSUME NEW t \in Slots \ {s}, Blocks[t] # NoBlock
      PROVE  ~(b.lo < Blocks[t].hi /\ Blocks[t].lo < b.hi)
  <2> DEFINE q == arr[t]
             k == Len(want[t])
  <2>1. arr[t] # Null /\ Blocks[t] = [lo |-> q - 4, hi |-> EndOf(t, q, k)]
    BY <1>8 DEF Blocks, Block, EndOf, HdrLen
  <2>2. q \in Int /\ k \in Nat
    BY DEF IInv, TypeOK
  <2>3. EndOf(s, p, n) <= q - 4 \/ EndOf(t, q, k) <= p - 4
    BY <2>1 DEF IInv, ArraysApart, Apart, HdrLen, p, n, EndOf, Elem
  <2> HIDE DEF q, k
  <2>4. EndOf(t, q, k) \in Int
    BY <2>2, EndFacts
  <2>5. Blocks[t].lo = q - 4 /\ Blocks[t].hi = EndOf(t, q, k)
    BY <2>1
  <2> HIDE DEF b
  <2> QED BY <2>2, <2>3, <2>4, <2>5, <1>1, <1>5, <1>6
<1> HIDE DEF b
<1> QED BY <1>2, <1>3, <1>6, <1>7, <1>8
        DEF Abstract!Place, Abstract!Placed, Abstract!Overlap, Abstract!Block

\* The bump allocator implements the allocator's specification: the array of a
\* variable, with its header, lies in the arena and shares no byte with another.
THEOREM SorobanImplementsAllocator ==
  ASSUME NewIsExact
  PROVE  Spec => AllocatorSpec
<1>1. Init => Abstract!Init
  BY DEF Init, Abstract!Init, Blocks, Block
<1>2. IInv /\ IInv' /\ [Next]_vars => [Abstract!Next]_Blocks
  <2> SUFFICES ASSUME IInv, IInv', [Next]_vars PROVE [Abstract!Next]_Blocks
    OBVIOUS
  <2>0. arr \in [Slots -> Nat] /\ want \in [Slots -> Seq(Slots \cup {0})]
    BY DEF IInv, TypeOK
  <2>1. ASSUME arr' = arr, want' = want PROVE Blocks' = Blocks
    BY <2>1 DEF Blocks, Block, Elem
  <2>2. CASE UNCHANGED vars
    BY <2>1, <2>2 DEF vars
  <2>3. Start # Null
    BY StartFacts, Arena DEF IInv, HdrLen, Null
  <2>4. ASSUME NEW s \in Slots, NEW n \in Counts[s], New(s, n)
        PROVE  Abstract!Place(s)
    BY <2>0, <2>3, <2>4, PlaceStep DEF New
  <2>5. ASSUME NEW s \in Slots, NEW i \in 1 .. Len(want[s]), Assign(s, i)
        PROVE  Abstract!Place(s)
    BY <2>0, <2>5, PlaceStep DEF Assign
  <2>6. ASSUME NEW s \in Slots, Push(s) \/ Pop(s)
        PROVE  Abstract!Place(s)
    BY <2>0, <2>3, <2>6, PlaceStep DEF Push, Pop
  <2>7. ASSUME NEW s \in Slots, NEW n \in Counts[s], NewTraps(n) \/ NewFails(n)
        PROVE  Blocks' = Blocks
    BY <2>1, <2>7 DEF NewTraps, NewFails
  <2>8. ASSUME NEW s \in Slots, PopEmpty(s) \/ ResizeFails(s)
        PROVE  Blocks' = Blocks
    BY <2>1, <2>8 DEF PopEmpty, ResizeFails
  <2> QED BY <2>2, <2>4, <2>5, <2>6, <2>7, <2>8 DEF Next, Abstract!Next
<1> QED BY <1>1, <1>2, SorobanInvariant, PTL DEF Spec, AllocatorSpec, Abstract!Spec
=============================================================================
