---------------------------- MODULE AccountData ----------------------------
(***************************************************************************)
(* The heap inside a Solana data account, stdlib/solana.c: contract        *)
(* storage of variable length.  The chunks are a doubly linked list of     *)
(* 32-bit offsets from the start of the account; the last one has          *)
(* offset_next = 0 and length = 0 and stands for the rest of the account.  *)
(*                                                                         *)
(* The account is modelled as the 32-bit words it is made of, headers and  *)
(* payload alike, so that an offset that is no longer a chunk still reads  *)
(* what the account holds there.  The operators are the C functions, from  *)
(* one content of the account to the next.                                 *)
(***************************************************************************)
EXTENDS Integers

CONSTANTS
  DataLen,    \* ai->data_len
  HeapOffset, \* hdr->heap_offset, 8-byte aligned
  U32,        \* the modulus of uint32_t arithmetic
  MaxChunks   \* a walk longer than this does not end

ASSUME AccountDataAssumption ==
  /\ DataLen \in Nat /\ DataLen % 4 = 0 /\ U32 \in Nat /\ 2 * DataLen + 64 < U32
  /\ HeapOffset \in 16 .. DataLen - 16 /\ HeapOffset % 8 = 0
  /\ MaxChunks \in Nat /\ MaxChunks * 16 >= DataLen

HdrSize == 16

Words == {a \in 0 .. DataLen - 1 : a % 4 = 0}

\* struct account_data_header: magic, returndata_len, returndata_offset and
\* heap_offset.  The runtime hands out the rest of the account zeroed.
EmptyAccount == [a \in Words |-> CASE a = 0 -> 1
                                   [] a = 12 -> HeapOffset
                                   [] OTHER -> 0]

\* A word of the account; the runtime's padding after the account reads zero.
Get(m, a) == IF a \in Words THEN m[a] ELSE 0

\* Store a word; a store past the account changes the padding only.
Put(m, a, v) == IF a \in Words THEN [m EXCEPT ![a] = v] ELSE m

\* struct chunk
OffsetNext(m, c) == Get(m, c)
OffsetPrev(m, c) == Get(m, c + 4)
Length(m, c)     == Get(m, c + 8)
Allocated(m, c)  == Get(m, c + 12) # 0

SetNext(m, c, v)   == Put(m, c, v)
SetPrev(m, c, v)   == Put(m, c + 4, v)
SetLength(m, c, v) == Put(m, c + 8, v)
SetFlag(m, c, v)   == Put(m, c + 12, v)

SetChunk(m, c, next, prev, len, flag) ==
  SetFlag(SetLength(SetPrev(SetNext(m, c, next), c, prev), c, len), c, flag)

\* uint32_t arithmetic
Wrap(n) == n % U32

\* ROUND_UP(n, 8)
RoundUp8(n) == (Wrap(n + 7) \div 8) * 8

\* What a call returns: whether it succeeded, the account and *res.
Done(m, r) == [ok |-> TRUE, mem |-> m, res |-> r]
Failed(m)  == [ok |-> FALSE, mem |-> m, res |-> 0]

\* What follows a call that must succeed: F(account, *res).
AndThen(r, F(_, _)) == IF r.ok THEN F(r.mem, r.res) ELSE r
-----------------------------------------------------------------------------
\* The offset a walk from the head of the list reaches in n steps.
Walk(m) ==
  LET at[n \in 0 .. MaxChunks] == IF n = 0 THEN HeapOffset ELSE OffsetNext(m, at[n - 1])
  IN at

\* account_data_alloc stops at the first free chunk that is the last one or is
\* long enough.
StopsAt(m, c, size) ==
  ~Allocated(m, c) /\ (Length(m, c) = 0 \/ Length(m, c) >= RoundUp8(size))

\* The last chunk: the account grows into its tail.
AllocTail(m, c, prev, size) ==
  LET offset == c + HdrSize
      next   == Wrap(offset + RoundUp8(size))
  IN IF next + HdrSize >= DataLen THEN Failed(m)
     ELSE Done(SetChunk(SetChunk(m, c, next, prev, size, 1), next, 0, c, 0, 0), offset)

\* "just right"
AllocWhole(m, c, size) ==
  Done(SetLength(SetFlag(m, c, 1), c, size), c + HdrSize)

\* "too big, split"
AllocSplit(m, c, size) ==
  LET next == OffsetNext(m, c)
      rest == c + HdrSize + RoundUp8(size)
      m1   == SetFlag(SetLength(SetNext(m, c, rest), c, size), c, 1)
      m2   == SetChunk(m1, rest, next, c, Wrap(next - rest - HdrSize), 0)
  IN Done(IF next # 0 THEN SetPrev(m2, next, rest) ELSE m2, c + HdrSize)

AllocAt(m, c, prev, size) ==
  CASE Length(m, c) = 0 -> AllocTail(m, c, prev, size)
    [] Length(m, c) # 0 /\ RoundUp8(size) + HdrSize + 8 > Length(m, c) -> AllocWhole(m, c, size)
    [] OTHER -> AllocSplit(m, c, size)

\* account_data_alloc; a list whose walk does not end uses up the budget.
AllocFrom(m, at, stops, size) ==
  IF stops = {} THEN Failed(m)
  ELSE LET n == CHOOSE k \in stops : \A j \in stops : k <= j
       IN AllocAt(m, at[n], IF n = 0 THEN 0 ELSE at[n - 1], size)

Alloc(m, size) ==
  IF size = 0 THEN Done(m, 0)
  ELSE LET at == Walk(m)
       IN AllocFrom(m, at, {n \in 0 .. MaxChunks : StopsAt(m, at[n], size)}, size)

\* account_data_len
DataLength(m, off) == IF off = 0 THEN 0 ELSE Length(m, off - HdrSize)
-----------------------------------------------------------------------------
\* Chunk c swallows what follows it up to chunk `next`, or to the end.
Absorb(m, c, next) ==
  IF next # 0
  THEN SetPrev(SetLength(SetNext(m, c, next), c, Wrap(next - c - HdrSize)), next, c)
  ELSE SetLength(SetNext(m, c, 0), c, 0)

\* Merge with the previous chunk, and then with the next one.
MergePrev(m, c) ==
  LET p == OffsetPrev(m, c)
  IN IF p # 0 /\ ~Allocated(m, p)
     THEN [mem |-> Absorb(m, p, OffsetNext(m, c)), chunk |-> p]
     ELSE [mem |-> m, chunk |-> c]

MergeNext(m, c) ==
  LET n == OffsetNext(m, c)
  IN IF n # 0 /\ ~Allocated(m, n) THEN Absorb(m, c, OffsetNext(m, n)) ELSE m

\* account_data_free
Free(m, off) ==
  IF off = 0 THEN m
  ELSE LET p == MergePrev(SetFlag(m, off - HdrSize, 0), off - HdrSize)
       IN MergeNext(p.mem, p.chunk)
-----------------------------------------------------------------------------
\* A free chunk from `at` up to the chunk `nn`, which is not tested for 0.
InsertBefore(m, at, prev, nn) ==
  SetPrev(SetChunk(m, at, nn, prev, Wrap(nn - at - HdrSize), 0), nn, at)

\* A free chunk from `at` up to the chunk `nn`, or to the end if nn is 0.
FreeUpTo(m, at, prev, nn) ==
  IF nn = 0 THEN SetChunk(m, at, 0, prev, 0, 0) ELSE InsertBefore(m, at, prev, nn)

\* The bytes from `off` to the next chunk.
Capacity(m, off) == Wrap(OffsetNext(m, off - HdrSize) - off)

\* Mutant: shrinking always inserts a chunk, also before a free one.
ReallocShrink_NoMerge(m, off, size) ==
  LET c    == off - HdrSize
      next == OffsetNext(m, c)
      rest == Wrap(off + RoundUp8(size))
      m1   == SetLength(m, c, size)
  IN IF Capacity(m, off) < RoundUp8(size) + HdrSize + 8 THEN Done(m1, off)
     ELSE Done(InsertBefore(SetNext(m1, c, rest), rest, c, next), off)

\* "1. Is the existing chunk big enough"
ReallocShrink(m, off, size) ==
  LET c    == off - HdrSize
      next == OffsetNext(m, c)
      rest == Wrap(off + RoundUp8(size))
      m1   == SetLength(m, c, size)
  IN IF Capacity(m, off) < RoundUp8(size) + HdrSize + 8 THEN Done(m1, off)
     ELSE Done(IF ~Allocated(m, next)
               THEN FreeUpTo(SetNext(m1, c, rest), rest, c, OffsetNext(m, next))
               ELSE InsertBefore(SetNext(m1, c, rest), rest, c, next), off)

\* Mutant: any chunk that follows is taken for free.
GrowsIntoNext_InUse(m, off, size) ==
  LET next == OffsetNext(m, off - HdrSize)
  IN IF OffsetNext(m, next) # 0
     THEN size < Wrap(OffsetNext(m, next) - off)
     ELSE Wrap(off + RoundUp8(size)) + HdrSize < DataLen

\* "2. Can we use the next chunk to expand our chunk to fit"
GrowsIntoNext(m, off, size) ==
  LET next == OffsetNext(m, off - HdrSize)
  IN ~Allocated(m, next) /\ IF OffsetNext(m, next) # 0
                            THEN size < Wrap(OffsetNext(m, next) - off)
                            ELSE Wrap(off + RoundUp8(size)) + HdrSize < DataLen

ReallocGrow(m, off, size) ==
  LET c    == off - HdrSize
      nn   == OffsetNext(m, OffsetNext(m, c))
      rest == Wrap(off + RoundUp8(size))
      m1   == SetLength(m, c, size)
  IN IF nn # 0 /\ Wrap(nn - off - RoundUp8(size)) < 8 + HdrSize
     THEN Done(SetPrev(SetNext(m1, c, nn), nn, c), off)
     ELSE Done(FreeUpTo(SetNext(m1, c, rest), rest, c, nn), off)

\* __memcpy of the words that hold n bytes.
CopyBytes(m, dst, src, n) ==
  [a \in Words |-> IF dst <= a /\ a < dst + n THEN Get(m, a - dst + src) ELSE m[a]]

ReallocMove(m, off, size) ==
  AndThen(Alloc(m, size),
          LAMBDA m1, new : Done(Free(CopyBytes(m1, new, off, DataLength(m, off)), off), new))

\* Mutant: only a chunk of exactly the right size is kept.
Realloc_ShrinkMoves(m, off, size) ==
  CASE size = 0 -> Done(Free(m, off), 0)
    [] size # 0 /\ off = 0 -> Alloc(m, size)
    [] size # 0 /\ off # 0 ->
         AndThen(Alloc(m, size),
                 LAMBDA m1, new : Done(Free(CopyBytes(m1, new, off, size), off), new))

\* account_data_realloc
Realloc(m, off, size) ==
  CASE size = 0 -> Done(Free(m, off), 0)
    [] size # 0 /\ off = 0 -> Alloc(m, size)
    [] size # 0 /\ off # 0 ->
         CASE size <= Capacity(m, off) -> ReallocShrink(m, off, size)
           [] size > Capacity(m, off) /\ GrowsIntoNext(m, off, size) ->
                ReallocGrow(m, off, size)
           [] OTHER -> ReallocMove(m, off, size)
=============================================================================
