------------------------------ MODULE MCBatch ------------------------------
(* Lists of up to four items that cost less than the budget, just fill it, *)
(* or exceed it alone.                                                     *)
EXTENDS Batch, FiniteSetsExt

ShortCosts == UNION {[1 .. n -> 1 .. 3] : n \in 0 .. 3} \cup {<<1, 1, 1, 1>>, <<1, 2, 2, 1>>}

RunningTotals(costs) ==
    [k \in 1 .. Len(costs) + 1 |-> MapThenSumSet(LAMBDA j : costs[j], 1 .. k - 1)]

ShortLists == {RunningTotals(costs) : costs \in ShortCosts}

=============================================================================
