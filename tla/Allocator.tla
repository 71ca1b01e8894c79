------------------------------ MODULE Allocator ------------------------------
(***************************************************************************)
(* What every allocator of the runtime library promises its callers: a     *)
(* block that is handed out lies inside the arena and shares no byte with  *)
(* any other block that is in use.  The memory heap (Heap) and the Soroban *)
(* bump allocator (SorobanAlloc) are shown to implement this.              *)
(***************************************************************************)
EXTENDS Integers

CONSTANTS
  Slots,        \* the program variables that can hold a block
  ArenaLo,      \* first byte of the arena
  ArenaHi,      \* one past its last byte
  NoBlock       \* what a slot holds when it holds no block

VARIABLE blocks \* slot -> [lo, hi), the bytes it may use

Block == [lo : Int, hi : Int]

Overlap(a, b) == a.lo < b.hi /\ b.lo < a.hi

Placed(s, b, bs) ==
  /\ ArenaLo <= b.lo /\ b.lo <= b.hi /\ b.hi <= ArenaHi
  /\ \A t \in Slots \ {s} : bs[t] # NoBlock => ~Overlap(b, bs[t])

Init == blocks = [s \in Slots |-> NoBlock]

\* A slot gets a block, or moves, grows or shrinks the one it has.
Place(s) ==
  /\ blocks'[s] \in Block
  /\ Placed(s, blocks'[s], blocks)
  /\ blocks' = [blocks EXCEPT ![s] = blocks'[s]]

Release(s) ==
  /\ blocks[s] # NoBlock
  /\ blocks' = [blocks EXCEPT ![s] = NoBlock]

Next == \E s \in Slots : Place(s) \/ Release(s)

Spec == Init /\ [][Next]_blocks
=============================================================================
