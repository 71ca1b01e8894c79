---------------------------- MODULE SorobanAlloc ----------------------------
(***************************************************************************)
(* The bump allocator of Soroban contracts, stdlib/soroban.c, and the      *)
(* emitted code that uses it for the dynamic arrays of a Solidity program: *)
(* `new`, element assignment, push() and pop().  Memory only ever grows;   *)
(* a realloc always moves.                                                 *)
(*                                                                         *)
(* Addresses are uint32_t (mod U32).  A byte of memory carries the whole   *)
(* value it is a part of: the four bytes of a uint32_t all hold the        *)
(* number, the bytes of an array element all hold the element.             *)
(***************************************************************************)
EXTENDS Integers, Sequences

CONSTANTS
  PageSize,    \* SOROBAN_PAGE_SIZE
  StartPages,  \* pages of the instance when the call starts
  MaxPages,    \* pages beyond which the host refuses memory.grow
  U32,         \* 2^32: addresses and sizes are uint32_t
  Slots,       \* program variables that hold an array
  Counts,      \* slot -> the lengths that its `new` is called with
  ElemSize,    \* slot -> bytes of an element of the array
  NoBlock      \* in the abstract specification: an array that is not allocated

ASSUME SorobanAssumption ==
  /\ PageSize \in Nat /\ PageSize > 0 /\ PageSize % 8 = 0
  /\ StartPages \in Nat /\ StartPages > 0
  /\ MaxPages \in Nat /\ StartPages <= MaxPages
  /\ U32 \in Nat /\ U32 % 8 = 0 /\ (MaxPages + 1) * PageSize < U32
  /\ \A s \in Slots : Counts[s] \subseteq 0 .. U32 - 1
  /\ ElemSize \in [Slots -> Nat \ {0}]
  /\ 0 \notin Slots

\* The host's limit is less than half of what a uint32_t addresses: an array as
\* large as the arena, with one element more, has an end even if it starts at
\* the end of the memory.
ASSUME HostMemoryAssumption ==
  \A s \in Slots : (2 * MaxPages - StartPages) * PageSize + ElemSize[s] + 16 <= U32

VARIABLES
  pages,      \* wasm memory size, in pages
  g_cursor,
  g_limit,
  mem,        \* byte of the arena -> the value it is a part of
  arr,        \* slot -> pointer to its struct vector, or Null
  want,       \* slot -> the elements the Solidity program has put there
  fault       \* how the call ended, if it did

vars == <<pages, g_cursor, g_limit, mem, arr, want, fault>>

Null    == 0
HdrLen  == 4    \* sizeof(soroban_hdr_t)
VecHdr  == 8    \* sizeof(struct vector): len and size

ArenaLo == StartPages * PageSize
ArenaHi == MaxPages * PageSize
Bytes   == ArenaLo .. ArenaHi - 1

\* align_up(addr, 8)
AlignUp8(a) == (((a + 7) % U32) \div 8) * 8

\* maybe_init
Cursor == IF g_limit = 0 THEN pages * PageSize ELSE g_cursor
Limit  == IF g_limit = 0 THEN pages * PageSize ELSE g_limit
-----------------------------------------------------------------------------
(* alloc_impl(bytes, 8).                                                   *)

Start == AlignUp8((Cursor + HdrLen) % U32)

End(bytes) == (Start + bytes) % U32

\* ensure_capacity: the pages that memory.grow is asked for.
Grow(bytes) ==
  IF End(bytes) <= Limit THEN 0
  ELSE ((End(bytes) - Limit + PageSize - 1) % U32) \div PageSize

\* memory.grow returns -1 and alloc_impl NULL.
Oom(bytes) == pages + Grow(bytes) > MaxPages

Alloc(bytes) ==
  /\ ~Oom(bytes)
  /\ pages' = pages + Grow(bytes)
  /\ g_limit' = Limit + Grow(bytes) * PageSize
  /\ g_cursor' = End(bytes)

\* Stores of the value v to the bytes lo .. hi - 1.
Put(m, lo, hi, v) == [b \in Bytes |-> IF lo <= b /\ b < hi THEN v ELSE m[b]]

\* The header of the allocation at p, and `len` and `size` of the vector there.
PutHeader(m, p, bytes) == Put(m, p - HdrLen, p, bytes)
PutLen(m, p, len) == Put(m, p, p + VecHdr, len)

\* mem_copy
Copy(m, dst, src, n) ==
  [b \in Bytes |-> IF dst <= b /\ b < dst + n THEN m[b - dst + src] ELSE m[b]]
-----------------------------------------------------------------------------
(* The emitted code.                                                       *)

VectorLen(s) == mem[arr[s]]

\* The address of element i of the vector of s, when that is at p.
Elem(s, p, i) == p + VecHdr + (i - 1) * ElemSize[s]

\* `new T[](n)` calls soroban_alloc_init with n: the element size is dropped.
NewBytes(n) == (VecHdr + n) % U32

\* The loop that clears the payload runs past the end of the memory.
Overruns(n) == Start + VecHdr + n > (pages + Grow(NewBytes(n))) * PageSize

New(s, n) ==
  /\ fault = "none"
  /\ Alloc(NewBytes(n))
  /\ ~Overruns(n)
  /\ mem' = Put(PutLen(PutHeader(mem, Start, NewBytes(n)), Start, n),
                Start + VecHdr, Start + VecHdr + n, 0)
  /\ arr' = [arr EXCEPT ![s] = Start]
  /\ want' = [want EXCEPT ![s] = [i \in 1 .. n |-> 0]]
  /\ UNCHANGED fault

\* Start + bytes wrapped around, so that alloc_impl saw no need to grow: the
\* call traps in the loop, and its memory is gone.
NewTraps(n) ==
  /\ fault = "none"
  /\ ~Oom(NewBytes(n))
  /\ Overruns(n)
  /\ fault' = "trap"
  /\ UNCHANGED <<pages, g_cursor, g_limit, mem, arr, want>>

\* soroban_alloc_init returns NULL, and no emitted code tests for it.
NewFails(n) ==
  /\ fault = "none"
  /\ Oom(NewBytes(n))
  /\ fault' = "oom"
  /\ UNCHANGED <<pages, g_cursor, g_limit, mem, arr, want>>

\* a[i] = v, after the bounds check.
Assign(s, i) ==
  /\ fault = "none"
  /\ arr[s] # Null
  /\ i <= VectorLen(s)
  /\ mem' = Put(mem, Elem(s, arr[s], i), Elem(s, arr[s], i + 1), s)
  /\ want' = [want EXCEPT ![s][i] = s]
  /\ UNCHANGED <<pages, g_cursor, g_limit, arr, fault>>

\* Mutant: the size that push asks for leaves out the new element.
VectorBytes_OneShort(s, n) == (ElemSize[s] * (n - 1) + VecHdr) % U32

VectorBytes(s, n) == (ElemSize[s] * n + VecHdr) % U32

\* Mutant: the vector's own fields are not counted.
Kept_NoFields(s, bytes) ==
  IF mem[arr[s] - HdrLen] < bytes THEN mem[arr[s] - HdrLen] - VecHdr ELSE bytes

\* The bytes that soroban_realloc copies: the old size is in the header.
Kept(s, bytes) ==
  IF mem[arr[s] - HdrLen] < bytes THEN mem[arr[s] - HdrLen] ELSE bytes

\* soroban_realloc(arr[s], bytes), as the memory it leaves.
Moved(s, bytes) ==
  Copy(PutHeader(mem, Start, bytes), Start, arr[s], Kept(s, bytes))

\* PushMemory
Push(s) ==
  LET n == VectorLen(s) + 1 IN
  /\ fault = "none"
  /\ arr[s] # Null
  /\ Alloc(VectorBytes(s, n))
  /\ mem' = PutLen(Put(Moved(s, VectorBytes(s, n)),
                       Elem(s, Start, n), Elem(s, Start, n + 1), s),
                   Start, n)
  /\ arr' = [arr EXCEPT ![s] = Start]
  /\ want' = [want EXCEPT ![s] = Append(@, s)]
  /\ UNCHANGED fault

\* PopMemory
Pop(s) ==
  LET n == VectorLen(s) - 1 IN
  /\ fault = "none"
  /\ arr[s] # Null
  /\ n >= 0
  /\ Alloc(VectorBytes(s, n))
  /\ mem' = PutLen(Moved(s, VectorBytes(s, n)), Start, n)
  /\ arr' = [arr EXCEPT ![s] = Start]
  /\ want' = [want EXCEPT ![s] = SubSeq(@, 1, Len(@) - 1)]
  /\ UNCHANGED fault

\* "pop from empty array"
PopEmpty(s) ==
  /\ fault = "none"
  /\ arr[s] # Null
  /\ VectorLen(s) = 0
  /\ fault' = "revert"
  /\ UNCHANGED <<pages, g_cursor, g_limit, mem, arr, want>>

\* soroban_realloc returns NULL; push and pop go on and store through it.
ResizeFails(s) ==
  /\ fault = "none"
  /\ arr[s] # Null
  /\ \E n \in {VectorLen(s) + 1, VectorLen(s) - 1} : n >= 0 /\ Oom(VectorBytes(s, n))
  /\ fault' = "null"
  /\ UNCHANGED <<pages, g_cursor, g_limit, mem, arr, want>>
-----------------------------------------------------------------------------
Init ==
  /\ pages = StartPages
  /\ g_cursor = 0
  /\ g_limit = 0
  /\ mem = [b \in Bytes |-> 0]
  /\ arr = [s \in Slots |-> Null]
  /\ want = [s \in Slots |-> <<>>]
  /\ fault = "none"

Next ==
  \/ \E s \in Slots : \/ \E n \in Counts[s] : New(s, n) \/ NewTraps(n) \/ NewFails(n)
                      \/ \E i \in 1 .. Len(want[s]) : Assign(s, i)
                      \/ Push(s)
                      \/ Pop(s)
                      \/ PopEmpty(s)
                      \/ ResizeFails(s)

Spec == Init /\ [][Next]_vars
-----------------------------------------------------------------------------
\* Every array reads back as the program left it: its length, and each element
\* with the value last stored there, whatever the other arrays did meanwhile.
DataIntact ==
  \A s \in Slots : arr[s] # Null =>
    /\ VectorLen(s) = Len(want[s])
    /\ \A i \in 1 .. Len(want[s]) :
         \A b \in Elem(s, arr[s], i) .. Elem(s, arr[s], i + 1) - 1 :
           mem[b] = want[s][i]
-----------------------------------------------------------------------------
Block(s) == IF arr[s] = Null THEN NoBlock
            ELSE [lo |-> arr[s] - HdrLen, hi |-> Elem(s, arr[s], Len(want[s]) + 1)]

Blocks == [s \in Slots |-> Block(s)]

Abstract == INSTANCE Allocator WITH blocks <- Blocks

\* The bump allocator implements the allocator: the arrays of the program, each
\* with its header, lie in the grown memory and never overlap.
AllocatorSpec == Abstract!Spec
=============================================================================
