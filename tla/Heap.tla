-------------------------------- MODULE Heap --------------------------------
(***************************************************************************)
(* The heap of a contract's memory on Polkadot and Solana, stdlib/heap.c:  *)
(* one doubly linked list of chunks, each a header followed by its         *)
(* payload.  malloc takes the first chunk that is large enough and splits  *)
(* it; free merges a chunk with its free neighbours; realloc grows into    *)
(* the next chunk when that is free, or else moves the data.               *)
(*                                                                         *)
(* The clients are the vectors of a Solidity program (slots): they are     *)
(* allocated, and then reallocated by push() and pop().  No code generator *)
(* emits a call of __free: __realloc is its only caller.                   *)
(***************************************************************************)
EXTENDS Integers, FiniteSets

CONSTANTS
  HdrSize,     \* sizeof(struct chunk): 24 on Solana, 16 on wasm
  HeapStart,   \* HEAP_START
  HeapLen,     \* bytes of the arena, headers included
  U32,         \* 2^32: lengths are uint32_t
  Slots,       \* program variables that hold a vector
  Sizes,       \* the sizes, in bytes, that the program asks for
  NULL,        \* the null pointer
  NullTraps    \* TRUE on Solana: a store through NULL aborts; FALSE on wasm

ASSUME HeapAssumption ==
  /\ HdrSize \in Nat /\ HdrSize > 0 /\ HdrSize % 8 = 0
  /\ HeapStart \in Nat /\ HeapStart > 0 /\ HeapStart % 8 = 0
  /\ HeapLen \in Nat /\ HeapLen > HdrSize /\ HeapLen % 8 = 0
  /\ U32 \in Nat /\ HeapStart + HeapLen < U32
  /\ Sizes \subseteq 1 .. U32 - 8
  /\ NULL \notin Int
  /\ NullTraps \in BOOLEAN

VARIABLES
  chunk,   \* address of a header in the list -> the header
  mem,     \* 8-byte word of the arena -> what was last stored there
  live,    \* slot -> its pointer and the size it asked for
  fault    \* why the program was aborted, if it was

vars == <<chunk, mem, live, fault>>

HeapEnd == HeapStart + HeapLen

\* struct chunk; `allocated` is a flag and `prev`, `next` may be NULL.
Header == [next : Int \cup {NULL}, prev : Int \cup {NULL},
           length : Nat, allocated : BOOLEAN]

NoPtr == [ptr |-> NULL, size |-> 0]

Words == {a \in HeapStart .. HeapEnd - 1 : a % 8 = 0}

WordsOf(lo, hi) == {a \in Words : lo <= a /\ a < hi}

\* (size + 7) & ~7
RoundUp8(n) == ((n + 7) \div 8) * 8

\* uint32_t subtraction wraps.
USub(a, b) == IF a >= b THEN a - b ELSE a - b + U32
-----------------------------------------------------------------------------
(* The list operations, on a heap h of type [address -> Header].           *)

\* Mutant: the chunk after the next keeps its back pointer.
MergeNext_StalePrev(h, c) ==
  LET n == h[c].next
  IN [a \in DOMAIN h \ {n} |->
        IF a = c THEN [h[c] EXCEPT !.next = h[n].next,
                                   !.length = @ + h[n].length + HdrSize]
        ELSE h[a]]

\* Merge chunk c with the chunk that follows it, which leaves the list.
MergeNext(h, c) ==
  LET n  == h[c].next
      nn == h[n].next
  IN [a \in DOMAIN h \ {n} |->
        IF a = c THEN [h[c] EXCEPT !.next = nn,
                                   !.length = @ + h[n].length + HdrSize]
        ELSE IF a = nn THEN [h[a] EXCEPT !.prev = c]
        ELSE h[a]]

\* Mutant: no room is kept for the new header.
Splits_NoHeader(h, c, size) == USub(h[c].length, RoundUp8(size)) >= 8

Splits(h, c, size) == USub(h[c].length, RoundUp8(size)) >= 8 + HdrSize

SplitAt(c, size) == c + HdrSize + RoundUp8(size)

\* shrink_chunk: cut the tail of chunk c off into a new free chunk.
Shrink(h, c, size) ==
  LET new == SplitAt(c, size)
      nxt == h[c].next
  IN IF ~Splits(h, c, size) THEN h
     ELSE [a \in DOMAIN h \cup {new} |->
             IF a = new THEN [next |-> nxt, prev |-> c, allocated |-> FALSE,
                              length |-> h[c].length - RoundUp8(size) - HdrSize]
             ELSE IF a = c THEN [h[c] EXCEPT !.next = new,
                                             !.length = RoundUp8(size)]
             ELSE IF a = nxt THEN [h[a] EXCEPT !.prev = new]
             ELSE h[a]]

\* The header that shrink_chunk writes lands in the arena's words.
ShrinkMem(m, h, c, size) ==
  LET new == SplitAt(c, size)
      hdr == IF Splits(h, c, size) THEN WordsOf(new, new + HdrSize) ELSE {}
  IN [w \in Words |-> IF w \in hdr THEN "hdr" ELSE m[w]]

\* Mutant: the walk does not skip chunks in use.
Fits_Allocated(h, c, size) == size <= h[c].length

Fits(h, c, size) == ~h[c].allocated /\ size <= h[c].length

\* __malloc's walk from HEAP_START stops at chunk c: the list is in address
\* order (HeapTiled), so c is the lowest chunk that fits.
FirstFit(h, c, size) ==
  /\ Fits(h, c, size)
  /\ \A d \in DOMAIN h : Fits(h, d, size) => c <= d

\* The walk reaches the end of the list.
NoFit(h, size) == \A c \in DOMAIN h : ~Fits(h, c, size)

\* The heap after __malloc(size) took chunk c.
Take(h, c, size) == [Shrink(h, c, size) EXCEPT ![c].allocated = TRUE]

IsFree(h, c) == c # NULL /\ ~h[c].allocated

\* Mutant: the next chunk is not merged.
FreedNext_NoMerge(h, c) == [h EXCEPT ![c].allocated = FALSE]

\* __free, up to the point where the next chunk has been merged.
FreedNext(h, c) ==
  LET h1 == [h EXCEPT ![c].allocated = FALSE]
  IN IF IsFree(h1, h1[c].next) THEN MergeNext(h1, c) ELSE h1

\* The merge with the previous chunk stores through `next` without a test
\* for NULL.
StoresThroughNull(h, c) ==
  LET h2 == FreedNext(h, c) IN IsFree(h2, h2[c].prev) /\ h2[c].next = NULL

Freed(h, c) ==
  LET h2 == FreedNext(h, c)
  IN IF IsFree(h2, h2[c].prev) THEN MergeNext(h2, h2[c].prev) ELSE h2

\* The program fills the words of its block from byte `from` on.
Fill(m, s, ptr, from, size) ==
  [w \in Words |-> IF w \in WordsOf(ptr, ptr + size) \ WordsOf(ptr, ptr + from)
                   THEN s ELSE m[w]]

\* Mutant: the last word is not copied.
Copy8_Short(m, dst, src, n) ==
  [w \in Words |-> IF w \in WordsOf(dst, dst + 8 * (n - 1)) THEN m[w - dst + src] ELSE m[w]]

\* __memcpy8(dst, src, n)
Copy8(m, dst, src, n) ==
  [w \in Words |-> IF w \in WordsOf(dst, dst + 8 * n) THEN m[w - dst + src] ELSE m[w]]
-----------------------------------------------------------------------------
\* __init_heap
Init ==
  /\ chunk = [a \in {HeapStart} |->
                [next |-> NULL, prev |-> NULL, allocated |-> FALSE,
                 length |-> HeapLen - HdrSize]]
  /\ mem = [w \in Words |-> IF w < HeapStart + HdrSize THEN "hdr" ELSE "junk"]
  /\ live = [s \in Slots |-> NoPtr]
  /\ fault = "none"

Malloc(s, size) ==
  \E c \in DOMAIN chunk :
    /\ fault = "none"
    /\ live[s] = NoPtr
    /\ FirstFit(chunk, c, size)
    /\ chunk' = Take(chunk, c, size)
    /\ mem' = Fill(ShrinkMem(mem, chunk, c, size), s, c + HdrSize, 0, size)
    /\ live' = [live EXCEPT ![s] = [ptr |-> c + HdrSize, size |-> size]]
    /\ UNCHANGED fault

\* "go bang"
OutOfMemory(size) ==
  /\ fault = "none"
  /\ NoFit(chunk, size)
  /\ fault' = "oom"
  /\ UNCHANGED <<chunk, mem, live>>

MallocFails(s, size) == live[s] = NoPtr /\ OutOfMemory(size)

\* Mutant: the next chunk is taken even when it is in use.
GrowsInPlace_InUse(h, c, size) ==
  LET n == h[c].next
  IN n # NULL /\ size <= h[c].length + h[n].length + HdrSize

GrowsInPlace(h, c, size) ==
  LET n == h[c].next
  IN IsFree(h, n) /\ size <= h[c].length + h[n].length + HdrSize

\* __realloc into the free chunk that follows.
ReallocInPlace(s, size) ==
  LET c == live[s].ptr - HdrSize
      h == MergeNext(chunk, c)
  IN
  /\ fault = "none"
  /\ live[s] # NoPtr
  /\ GrowsInPlace(chunk, c, size)
  /\ chunk' = Shrink(h, c, size)
  /\ mem' = Fill(ShrinkMem(mem, h, c, size), s, live[s].ptr, live[s].size, size)
  /\ live' = [live EXCEPT ![s] = [ptr |-> live[s].ptr, size |-> size]]
  /\ UNCHANGED fault

\* The bytes that __realloc keeps of a block whose chunk is c.
KeptLen(h, c, size) == IF size < h[c].length THEN size ELSE h[c].length

\* __realloc that allocates a new chunk d, copies the data and frees the old one.
ReallocMoves(s, size) ==
  \E d \in DOMAIN chunk :
    LET m  == live[s].ptr
        c  == m - HdrSize
        n  == d + HdrSize
        h  == Take(chunk, d, size)
        cp == Copy8(ShrinkMem(mem, chunk, d, size), n, m,
                    (KeptLen(chunk, c, size) + 7) \div 8)
    IN
    /\ fault = "none"
    /\ live[s] # NoPtr
    /\ ~GrowsInPlace(chunk, c, size)
    /\ FirstFit(chunk, d, size)
    /\ ~(NullTraps /\ StoresThroughNull(h, c))
    /\ chunk' = Freed(h, c)
    /\ mem' = Fill(cp, s, n, live[s].size, size)
    /\ live' = [live EXCEPT ![s] = [ptr |-> n, size |-> size]]
    /\ UNCHANGED fault

\* The same, when __free stores through NULL on a target where that traps: the
\* program is aborted and its memory is gone.
ReallocTraps(s, size) ==
  \E d \in DOMAIN chunk :
    LET c == live[s].ptr - HdrSize IN
    /\ fault = "none"
    /\ live[s] # NoPtr
    /\ ~GrowsInPlace(chunk, c, size)
    /\ FirstFit(chunk, d, size)
    /\ NullTraps /\ StoresThroughNull(Take(chunk, d, size), c)
    /\ fault' = "null"
    /\ UNCHANGED <<chunk, mem, live>>

ReallocFails(s, size) ==
  /\ live[s] # NoPtr
  /\ ~GrowsInPlace(chunk, live[s].ptr - HdrSize, size)
  /\ OutOfMemory(size)

Next ==
  \E s \in Slots, size \in Sizes :
    \/ Malloc(s, size)
    \/ MallocFails(s, size)
    \/ ReallocInPlace(s, size)
    \/ ReallocMoves(s, size)
    \/ ReallocTraps(s, size)
    \/ ReallocFails(s, size)

Spec == Init /\ [][Next]_vars
-----------------------------------------------------------------------------
TypeOK ==
  /\ DOMAIN chunk \subseteq Int
  /\ chunk \in [DOMAIN chunk -> Header]
  /\ mem \in [Words -> Slots \cup {"hdr", "junk"}]
  /\ live \in [Slots -> [ptr : Int \cup {NULL}, size : Nat]]
  /\ fault \in {"none", "oom", "null"}

End(h, c) == c + HdrSize + h[c].length

\* Chunk c starts where its predecessor ends and ends where its successor
\* starts, and the two agree that they are neighbours.
Linked(h, c) ==
  /\ h[c].next = NULL => End(h, c) = HeapEnd
  /\ h[c].next # NULL => /\ h[c].next \in DOMAIN h
                         /\ h[c].next = End(h, c)
                         /\ h[h[c].next].prev = c
  /\ h[c].prev = NULL <=> c = HeapStart
  /\ h[c].prev # NULL => /\ h[c].prev \in DOMAIN h
                         /\ h[h[c].prev].next = c

Tiled(h) ==
  /\ HeapStart \in DOMAIN h
  /\ \A c \in DOMAIN h : /\ Linked(h, c)
                          /\ HeapStart <= c /\ End(h, c) <= HeapEnd
  /\ \A c, d \in DOMAIN h : c < d => End(h, c) <= d

\* The chunks partition the arena, and the two directions of the list agree,
\* after every sequence of splits and merges.
HeapTiled == Tiled(chunk)

NextNotFree(h, c) == h[c].next # NULL => h[h[c].next].allocated

NoFreeNeighbours(h) == \A c \in DOMAIN h : ~h[c].allocated => NextNotFree(h, c)

\* "we should avoid fragmentation by neighbour merging" (heap.c:18): two free
\* chunks are never neighbours, whatever sequence of calls was made.
Coalesced == NoFreeNeighbours(chunk)

\* A vector owns an allocated chunk of its own that is large enough for it.
Owns(h, s) ==
  LET c == live[s].ptr - HdrSize
  IN live[s] # NoPtr => /\ live[s].ptr \in Int
                        /\ c \in DOMAIN h
                        /\ h[c].allocated
                        /\ live[s].size <= h[c].length

\* No chunk is handed out twice, and none that is in use is on the free list:
\* push() never hands one vector the bytes of another.
SlotsOwnChunks ==
  /\ \A s \in Slots : Owns(chunk, s)
  /\ \A s, t \in Slots : s # t /\ live[s] # NoPtr => live[s].ptr # live[t].ptr

\* A vector's bytes are what the program stored in them: no header and no
\* other vector is ever written over them, and realloc keeps them.
DataIntact ==
  \A s \in Slots : live[s] # NoPtr =>
    \A w \in WordsOf(live[s].ptr, live[s].ptr + live[s].size) : mem[w] = s

\* __free never stores through NULL.
NoNullStore == fault # "null"
-----------------------------------------------------------------------------
Block(s) == IF live[s] = NoPtr THEN NULL
            ELSE [lo |-> live[s].ptr, hi |-> live[s].ptr + live[s].size]

Blocks == [s \in Slots |-> Block(s)]

Abstract == INSTANCE Allocator WITH
  ArenaLo <- HeapStart, ArenaHi <- HeapEnd, NoBlock <- NULL, blocks <- Blocks

\* The heap implements the allocator: every block handed out lies in the arena
\* and overlaps no other.
AllocatorSpec == Abstract!Spec
-----------------------------------------------------------------------------
(* For TLC.                                                                *)

\* The slots are interchangeable.
OneToOne     == {f \in [Slots -> Slots] : \A s, t \in Slots : f[s] = f[t] => s = t}
SlotSymmetry == {[s \in Slots |-> f[s]] : f \in OneToOne}

\* Two states that differ only in bytes that no vector owns behave alike: no
\* action copies such a byte into a word that a vector owns and leaves it.
OwnedWords == UNION {WordsOf(live[s].ptr, live[s].ptr + live[s].size) :
                     s \in {t \in Slots : live[t] # NoPtr}}

LiveView == <<chunk, live, fault, [w \in OwnedWords |-> mem[w]]>>
=============================================================================
