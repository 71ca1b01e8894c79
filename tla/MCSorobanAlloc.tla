--------------------------- MODULE MCSorobanAlloc ---------------------------
(***************************************************************************)
(* Small instances of the Soroban bump allocator for TLC: an array of      *)
(* bytes and an array of words.                                            *)
(***************************************************************************)
EXTENDS SorobanAlloc, TLC

CONSTANTS b1, w1

WordSize == [s \in Slots |-> IF s = w1 THEN 8 ELSE 1]

\* `new` of words only makes empty arrays.
EmptyWords == [s \in Slots |-> IF s = w1 THEN {0} ELSE {0, 5, 190, 252}]

\* The bytes of an array that the program has dropped are never read again.
LiveBytes == UNION {arr[s] - HdrLen .. Elem(s, arr[s], Len(want[s]) + 1) - 1 :
                    s \in {t \in Slots : arr[t] # Null}}

LiveView == <<pages, g_cursor, g_limit, arr, want, fault,
              [b \in LiveBytes \cap Bytes |-> mem[b]]>>
=============================================================================
