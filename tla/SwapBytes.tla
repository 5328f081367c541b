----------------------------- MODULE SwapBytes ------------------------------
(***************************************************************************)
(* dz1/messenger/cutils/source/swap.c: two buffers of size bytes are       *)
(* exchanged eight bytes at a time, and the trailer by the bits of its     *)
(* length.  A step is one exchange of a run of bytes; a_move and b_move    *)
(* advance together and are the one offset move.                           *)
(***************************************************************************)
EXTENDS Integers

CONSTANTS Byte,
          MaxSize,         \* bound: the longest buffers
          data_a, data_b   \* what the buffers hold before the call

ASSUME SwapBytesAssumption ==
    /\ MaxSize \in Nat
    /\ data_a \in [0..(MaxSize - 1) -> Byte] /\ data_b \in [0..(MaxSize - 1) -> Byte]

VARIABLES size,    \* the argument
          a, b,    \* what the buffers hold
          move, i, pc

vars == <<size, a, b, move, i, pc>>

Init ==
    /\ size \in 0..MaxSize
    /\ a = data_a /\ b = data_b
    /\ move = 0 /\ i = 0 /\ pc = "eights"

\* Mutant: one full operation too few.
n_full_ops_Less == (size - 1) \div 8

n_full_ops == size \div 8
trailer == size % 8

\* Three memcpy of n bytes, and the two pointers move on.
SwapRun(n) ==
    /\ a' = [k \in DOMAIN a |-> IF k \in move..(move + n - 1) THEN b[k] ELSE a[k]]
    /\ b' = [k \in DOMAIN b |-> IF k \in move..(move + n - 1) THEN a[k] ELSE b[k]]
    /\ move' = move + n

SwapEight ==
    /\ pc = "eights" /\ i < n_full_ops
    /\ SwapRun(8) /\ i' = i + 1
    /\ UNCHANGED <<size, pc>>

EndOfEights ==
    /\ pc = "eights" /\ i >= n_full_ops
    /\ pc' = "four" /\ UNCHANGED <<size, a, b, move, i>>

\* One of the three ifs: the bit of weight n of the trailer.
BitIsSet(n) == (trailer \div n) % 2 = 1
SwapTrailer(n, from, to) ==
    /\ pc = from /\ pc' = to
    /\ IF BitIsSet(n) THEN SwapRun(n) ELSE UNCHANGED <<a, b, move>>
    /\ UNCHANGED <<size, i>>

Next == \/ SwapEight \/ EndOfEights
        \/ SwapTrailer(4, "four", "two") \/ SwapTrailer(2, "two", "one")
        \/ SwapTrailer(1, "one", "return")

Spec == Init /\ [][Next]_vars

-----------------------------------------------------------------------------
\* Where the pointers stand before each part of the function (swap.c:20-60).
MoveIsRight ==
    /\ pc = "eights" => i <= n_full_ops /\ move = 8 * i
    /\ pc = "four" => move = size - trailer
    /\ pc = "two" => move = size - (trailer % 4)
    /\ pc = "one" => move = size - (trailer % 2)
    /\ pc = "return" => move = size

TypeOK ==
    /\ size \in 0..MaxSize /\ i \in Nat /\ move \in 0..size
    /\ a \in [0..(MaxSize - 1) -> Byte] /\ b \in [0..(MaxSize - 1) -> Byte]
    /\ pc \in {"eights", "four", "two", "one", "return"}
    /\ MoveIsRight

ExchangedUpTo(n) ==
    \A k \in 0..(MaxSize - 1) :
        IF k < n THEN a[k] = data_b[k] /\ b[k] = data_a[k]
        ELSE a[k] = data_a[k] /\ b[k] = data_b[k]

\* Everything before the pointers is exchanged and nothing after them is
\* touched, the bytes past the end of the buffers included (swap.c:25-60).
ExchangedSoFar == ExchangedUpTo(move)

\* A call returns with exactly size bytes exchanged (swap.c:62).
Exchanged == pc = "return" => ExchangedUpTo(size)
=============================================================================
