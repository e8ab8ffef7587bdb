----------------------------- MODULE PlanBlocks -----------------------------
(***************************************************************************)
(* plan_blocks (src/sched.rs): cutting a file into blocks.  The loop is a  *)
(* state machine, one turn a step, over exact integers; NoOverflow says    *)
(* that no turn leaves the range of the code's u64.                        *)
(***************************************************************************)
EXTENDS Integers, Sequences

CONSTANTS
    Sizes,      \* sizes of files
    Counts,     \* numbers of streams
    Forces,     \* block sizes asked for, 0 for none
    MinBlock,   \* 8 << 20
    MaxBlock,   \* 64 << 20
    Word        \* 2^64

\* Download::run turns away a size of 0, and set_len, which comes before
\* plan_blocks, one with the top bit set: a file offset is signed.
ASSUME PlanAssumption ==
    /\ Word \in Nat
    /\ Sizes \subseteq {n \in Nat \ {0} : 2 * n <= Word}
    /\ Counts \subseteq Nat
    /\ Forces \subseteq {n \in Nat : n < Word}
    /\ MinBlock \in Nat \ {0}
    /\ MaxBlock \in Nat
    /\ MinBlock <= MaxBlock
    /\ MaxBlock < Word

VARIABLES
    size,       \* the file's size
    block,      \* the length of every block but the last
    out,        \* the blocks cut so far
    start       \* where the next one starts

vars == <<size, block, out, start>>

Clamped(n) ==
    CASE n < MinBlock -> MinBlock
      [] n > MaxBlock -> MaxBlock
      [] OTHER -> n

\* Mutant: the clamp forgotten.
BlockForUnclamped(n, streams, forced) ==
    IF forced > 0 THEN forced ELSE n \div ((IF streams > 1 THEN streams ELSE 1) * 4)

\* About four blocks a stream, unless a length was asked for.
BlockFor(n, streams, forced) ==
    IF forced > 0 THEN forced
    ELSE Clamped(n \div ((IF streams > 1 THEN streams ELSE 1) * 4))

Init ==
    \E n \in Sizes, streams \in Counts, forced \in Forces :
        /\ size = n
        /\ block = BlockFor(n, streams, forced)
        /\ out = <<>>
        /\ start = 0

\* Mutants: the end taken for exclusive, and a last block that is one too long.
CutOverlap ==
    /\ start < size
    /\ LET last == IF start + block - 1 < size - 1 THEN start + block - 1 ELSE size - 1
       IN  out' = Append(out, [start |-> start, end |-> last]) /\ start' = last
    /\ UNCHANGED <<size, block>>

CutPastEnd ==
    /\ start < size
    /\ LET last == IF start + block - 1 < size THEN start + block - 1 ELSE size
       IN  out' = Append(out, [start |-> start, end |-> last]) /\ start' = last + 1
    /\ UNCHANGED <<size, block>>

\* One turn of the loop.
Cut ==
    /\ start < size
    /\ LET last == IF start + block - 1 < size - 1 THEN start + block - 1 ELSE size - 1
       IN  /\ out' = Append(out, [start |-> start, end |-> last])
           /\ start' = last + 1
    /\ UNCHANGED <<size, block>>

\* The loop is over.
Over ==
    /\ start >= size
    /\ UNCHANGED vars

Next == Cut \/ Over

Spec == Init /\ [][Next]_vars

-----------------------------------------------------------------------------
TypeOK ==
    /\ size \in {n \in Nat \ {0} : 2 * n <= Word}
    /\ block \in Nat \ {0}
    /\ block < Word
    /\ out \in Seq([start : Nat, end : Nat])
    /\ start \in Nat

\* "Blocks cover the file exactly with no gap or overlap" (the test of that
\* name, for five sizes): the blocks cut so far are not empty, none is longer
\* than asked, and they follow one another from 0 up to where the loop stands.
Contiguous ==
    /\ \A i \in 1 .. Len(out) : /\ out[i].start <= out[i].end
                                /\ out[i].end - out[i].start < block
                                /\ out[i].start = IF i = 1 THEN 0 ELSE out[i - 1].end + 1
    /\ start = IF out = <<>> THEN 0 ELSE out[Len(out)].end + 1
    /\ start <= size

\* When the loop is over the file, of whatever size, is covered to its last byte.
Covered == size > 0 /\ start >= size => out # <<>> /\ out[Len(out)].end = size - 1

\* The additions of a turn stay below 2^64 although a block size is any u64.
NoOverflow == start < size => start + block < Word

\* Once the first block is cut, the loop stands at least one block in, or at
\* the end.
PastFirst == start = 0 \/ start >= block \/ start = size

=============================================================================
