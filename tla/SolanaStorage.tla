--------------------------- MODULE SolanaStorage ---------------------------
(***************************************************************************)
(* Solana contract storage as the compiler emits it,                       *)
(* src/emit/solana/{mod,target}.rs: the code for assigning, deleting,      *)
(* pushing and popping storage variables, on top of the account data heap. *)
(*                                                                         *)
(* The contract has string variables, a uint64[] and a string[].  Each has *)
(* a 32-bit slot between the account header and the heap that holds the    *)
(* offset of its chunk, or 0; the elements of the string[] are such slots  *)
(* in the chunk of the array.  A step is one transaction: an allocation    *)
(* that fails makes the program return an error, and the runtime reverts   *)
(* every store it made.                                                    *)
(***************************************************************************)
EXTENDS AccountData, Sequences

CONSTANTS
  Strings,   \* the slots of the string variables
  IntsSlot,  \* the slot of the uint64[]
  StrsSlot,  \* the slot of the string[]
  Lens,      \* lengths of the strings the transactions store, 0 included
  MaxInts,   \* bounds on the length of the arrays
  MaxStrs,
  Reassign   \* whether a string[] that is not empty is assigned to

ASSUME SolanaStorageAssumption ==
  /\ Strings \union {IntsSlot, StrsSlot} \subseteq {a \in Words : 16 <= a /\ a < HeapOffset}
  /\ IntsSlot # StrsSlot /\ IntsSlot \notin Strings /\ StrsSlot \notin Strings
  /\ Lens \subseteq Nat /\ MaxInts \in Nat /\ MaxStrs \in Nat /\ Reassign \in BOOLEAN
  /\ \A len \in Lens \union {8 * MaxInts, 4 * MaxStrs} : DataLen + len + 64 < U32

VARIABLES
  mem,  \* the words of the account
  want  \* what the source program stored: string lengths and array elements

vars == <<mem, want>>

IntSize == 8  \* storage_slots of a uint64
PtrSize == 4  \* storage_slots of a string

\* The words of each owner are filled with a mark of its own.
StrMark(s)  == 100 + s
IntMark(i)  == 200 + i
ElemMark(i) == 300 + i
-----------------------------------------------------------------------------
\* The words that hold the bytes off .. off + len - 1.
WordsOf(off, len) == {a \in Words : off <= a /\ a < off + len}

\* __memcpy of a string of len bytes to offset off.
Fill(m, off, len, mark) ==
  [a \in Words |-> IF off <= a /\ a < off + len THEN mark ELSE m[a]]

\* storage_store of a string where none was stored.  An allocation that fails
\* leaves the slot alone.
StoreNew(m, slot, len, mark) ==
  AndThen(Alloc(m, len), LAMBDA m1, off : Done(Fill(Put(m1, slot, off), off, len, mark), off))

\* storage_store of a string to existing storage.
StoreString(m, slot, len, mark) ==
  LET old == Get(m, slot)
  IN IF DataLength(m, old) = len THEN Done(Fill(m, old, len, mark), old)
     ELSE StoreNew(Free(m, old), slot, len, mark)

\* storage_free of a string.
FreeString(m, slot) == Put(Free(m, Get(m, slot)), slot, 0)

\* storage_array_length
ArrayLength(m, slot, size) == DataLength(m, Get(m, slot)) \div size

\* The strings at the n slots at off, one after the other.
FreeElems(m, off, n) ==
  LET freed[i \in 0 .. n] ==
        IF i = 0 THEN m ELSE FreeString(freed[i - 1], off + (i - 1) * PtrSize)
  IN freed[n]

\* Mutant: the strings of the array are not freed.
FreeStrs_NoElems(m, slot) == Free(m, Get(m, slot))

\* storage_free of a string[]: its strings and then its own chunk; the slot
\* keeps the offset.
FreeStrs(m, slot) ==
  LET off == Get(m, slot)
  IN Free(FreeElems(m, off, ArrayLength(m, slot, PtrSize)), off)

\* storage_free of a uint64[], with zero: every element is zeroed.
FreeInts(m, slot) ==
  LET off == Get(m, slot)
  IN Put(Free(Fill(m, off, DataLength(m, off), 0), off), slot, 0)

\* account_data_realloc of the array in `slot`, which receives the offset.
Resize(m, slot, size) ==
  AndThen(Realloc(m, Get(m, slot), size), LAMBDA m1, off : Done(Put(m1, slot, off), off))

\* The first part of storage_push: room for one more element; *res is where.
Push(m, slot, size) ==
  LET len == DataLength(m, Get(m, slot))
  IN AndThen(Resize(m, slot, len + size), LAMBDA m1, off : Done(m1, off + len))

\* storage_pop: the offset of the last element, and the account without it.
\* The result of the call is not looked at.
LastElem(m, slot, size) ==
  Get(m, slot) + Wrap(DataLength(m, Get(m, slot)) - size)

Pop(m, slot, size) ==
  Done(Resize(m, slot, Wrap(DataLength(m, Get(m, slot)) - size)).mem, 0)

\* storage_store of a uint64[] of length n.
StoreInts(m, slot, n) ==
  AndThen(Resize(m, slot, n * IntSize),
          LAMBDA m1, off :
            Done([a \in Words |-> IF off <= a /\ a < off + n * IntSize
                                  THEN IntMark((a - off) \div IntSize) ELSE m1[a]], off))

\* The elements of a string[], stored one after the other at off.
StoreElems(m, off, lens) ==
  LET stored[i \in 0 .. Len(lens)] ==
        IF i = 0 THEN Done(m, off)
        ELSE AndThen(stored[i - 1],
                     LAMBDA m1, prev : StoreNew(m1, off + (i - 1) * PtrSize, lens[i],
                                                ElemMark(i - 1)))
  IN stored[Len(lens)]

\* storage_store of a string[] to existing storage: what was there is freed,
\* the array is reallocated, then the strings are stored.
StoreStrs(m, slot, lens) ==
  AndThen(Resize(FreeStrs(m, slot), slot, Len(lens) * PtrSize),
          LAMBDA m1, off : StoreElems(m1, off, lens))
-----------------------------------------------------------------------------
Init ==
  /\ mem = EmptyAccount
  /\ want = [str |-> [s \in Strings |-> 0], ints |-> 0, strs |-> <<>>]

\* A transaction that ends with result r; return_code reverts a failed one.
Commit(r, w) == r.ok /\ mem' = r.mem /\ want' = w

Revert(r) == ~r.ok /\ UNCHANGED vars

Transaction(r, w) == Commit(r, w) \/ Revert(r)

\* s = "..."
AssignString(s, len) ==
  Transaction(StoreString(mem, s, len, StrMark(s)), [want EXCEPT !.str[s] = len])

\* delete s
DeleteString(s) ==
  Transaction(Done(FreeString(mem, s), 0), [want EXCEPT !.str[s] = 0])

\* ints.push(x)
PushInt ==
  /\ want.ints < MaxInts
  /\ Transaction(AndThen(Push(mem, IntsSlot, IntSize),
                         LAMBDA m, at : Done(Fill(m, at, IntSize, IntMark(want.ints)), at)),
                 [want EXCEPT !.ints = @ + 1])

\* ints.pop(); an empty array panics, which reverts.
PopInt ==
  IF DataLength(mem, Get(mem, IntsSlot)) = 0 THEN UNCHANGED vars
  ELSE Transaction(Pop(mem, IntsSlot, IntSize), [want EXCEPT !.ints = @ - 1])

\* ints = new uint64[](n)
AssignInts(n) ==
  Transaction(StoreInts(mem, IntsSlot, n), [want EXCEPT !.ints = n])

\* delete ints
DeleteInts == Transaction(Done(FreeInts(mem, IntsSlot), 0), [want EXCEPT !.ints = 0])

\* strs.push("...")
PushStr(len) ==
  /\ Len(want.strs) < MaxStrs
  /\ Transaction(AndThen(Push(mem, StrsSlot, PtrSize),
                         LAMBDA m, at : StoreNew(m, at, len, ElemMark(Len(want.strs)))),
                 [want EXCEPT !.strs = Append(@, len)])

\* strs.pop()
PopStr ==
  IF DataLength(mem, Get(mem, StrsSlot)) = 0 THEN UNCHANGED vars
  ELSE Transaction(Pop(FreeString(mem, LastElem(mem, StrsSlot, PtrSize)), StrsSlot, PtrSize),
                   [want EXCEPT !.strs = SubSeq(@, 1, Len(@) - 1)])

\* strs[i] = "..."
AssignElem(i, len) ==
  Transaction(StoreString(mem, Get(mem, StrsSlot) + (i - 1) * PtrSize, len, ElemMark(i - 1)),
              [want EXCEPT !.strs[i] = len])

\* strs = [...]
AssignStrs(lens) ==
  /\ Reassign \/ want.strs = <<>>
  /\ Transaction(StoreStrs(mem, StrsSlot, lens), [want EXCEPT !.strs = lens])

\* delete strs; the slot is zeroed at the end.
DeleteStrs ==
  Transaction(Done(Put(FreeStrs(mem, StrsSlot), StrsSlot, 0), 0), [want EXCEPT !.strs = <<>>])

Next ==
  \/ \E s \in Strings, len \in Lens : AssignString(s, len)
  \/ \E s \in Strings : DeleteString(s)
  \/ PushInt
  \/ PopInt
  \/ \E n \in 0 .. MaxInts : AssignInts(n)
  \/ DeleteInts
  \/ \E len \in Lens : PushStr(len)
  \/ PopStr
  \/ \E i \in DOMAIN want.strs, len \in Lens : AssignElem(i, len)
  \/ \E n \in 0 .. MaxStrs : \E lens \in [1 .. n -> Lens] : AssignStrs(lens)
  \/ DeleteStrs

Spec == Init /\ [][Next]_vars
-----------------------------------------------------------------------------
\* The chunks a walk of the list visits.
Chunks == {Walk(mem)[n] : n \in 0 .. MaxChunks}

IsLast(c) == OffsetNext(mem, c) = 0

\* account_data_realloc relies on it (stdlib/solana.c:482): "because we always
\* merge neighbours, free chunks do not have free neighbours".
NoFreeNeighbours ==
  \A c \in Chunks \ {0} :
    ~Allocated(mem, c) /\ ~IsLast(c) => Allocated(mem, OffsetNext(mem, c))

\* What validate_heap (stdlib/solana.c:564-623) asserts after every call, and
\* validate_account_data_heap (tests/solana.rs:1546-1601) after every
\* transaction: the account header is intact; every chunk of the list lies
\* after its predecessor, links back to it and has room for its length; the
\* one that ends the list is free, has length 0 and fits in the account; and
\* no two free chunks are neighbours.
ListWellFormed ==
  LET at == Walk(mem)
      ChunkOK(c, prev) ==
        /\ c % 8 = 0 /\ c + HdrSize <= DataLen
        /\ OffsetPrev(mem, c) = prev
        /\ IF IsLast(c) THEN Length(mem, c) = 0 /\ ~Allocated(mem, c)
           ELSE /\ Length(mem, c) # 0
                /\ OffsetNext(mem, c) - c - HdrSize >= Length(mem, c)
  IN /\ \A a \in {0, 4, 8, 12} : mem[a] = EmptyAccount[a]
     /\ \E k \in 0 .. MaxChunks :
          /\ IsLast(at[k])
          /\ \A n \in 0 .. k : ChunkOK(at[n], IF n = 0 THEN 0 ELSE at[n - 1])
     /\ NoFreeNeighbours

\* The words of the account that hold the offset of a chunk.
Refs ==
  Strings \union {IntsSlot, StrsSlot}
    \union {mem[StrsSlot] + (i - 1) * PtrSize : i \in DOMAIN want.strs}

LiveRefs == {r \in Refs : Get(mem, r) # 0}

\* No leak, no dangling and no shared offset: the chunks in use are exactly the
\* ones the variables and the elements of the string[] point at, one each.
\* validate_heap asserts as much, and the contract tests that "every thing has
\* been freed" (tests/solana_tests/arrays.rs).
ChunksOwnedOnce ==
  /\ {c \in Chunks \ {0} : Allocated(mem, c)} = {Get(mem, r) - HdrSize : r \in LiveRefs}
  /\ \A r, q \in LiveRefs : Get(mem, r) = Get(mem, q) => r = q

\* What a string of length len in `slot` must read as.
Reads(slot, len, mark) ==
  LET off == Get(mem, slot)
  IN /\ DataLength(mem, off) = len
     /\ (len = 0) => (off = 0)
     /\ \A a \in WordsOf(off, len) : mem[a] = mark

\* storage_load returns what the program stored: the length and the contents
\* of every string, integer and element, whatever the other variables did.
StorageReadsBack ==
  /\ \A s \in Strings : Reads(s, want.str[s], StrMark(s))
  /\ ArrayLength(mem, IntsSlot, IntSize) = want.ints
  /\ \A i \in 0 .. want.ints - 1 :
       \A a \in WordsOf(mem[IntsSlot] + i * IntSize, IntSize) : mem[a] = IntMark(i)
  /\ ArrayLength(mem, StrsSlot, PtrSize) = Len(want.strs)
  /\ \A i \in DOMAIN want.strs :
       Reads(mem[StrsSlot] + (i - 1) * PtrSize, want.strs[i], ElemMark(i - 1))

\* "we can assume pointer will stay the same after realloc to smaller size"
\* (src/emit/solana/target.rs): storage_pop ignores the result of the call, and
\* storage references into the array stay good.
ShrinkStays ==
  [][/\ want'.ints \in 1 .. want.ints - 1 => mem'[IntsSlot] = mem[IntsSlot]
     /\ Len(want'.strs) \in 1 .. Len(want.strs) - 1 /\ ~Reassign
          => mem'[StrsSlot] = mem[StrsSlot]]_vars

-----------------------------------------------------------------------------
\* What tells two states apart: the words that some step may read, which are
\* the account header and the slots, the headers of the chunks and the payload
\* that is owned.  A step that takes free space writes it before it is read.
LiveWords ==
  {a \in Words : a < HeapOffset}
    \union UNION {WordsOf(c, HdrSize + (IF Allocated(mem, c) THEN Length(mem, c) ELSE 0)) :
                  c \in Chunks \ {0}}

LiveView == <<want, [a \in LiveWords |-> mem[a]]>>
=============================================================================
