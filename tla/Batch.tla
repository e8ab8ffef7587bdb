------------------------------- MODULE Batch -------------------------------
(***************************************************************************)
(* fetch_many (src/batch.rs): many small files over one curl each chunk.   *)
(* First the list is cut so that no command line gets too long, then each  *)
(* chunk is handed to curl, which works on it in its own order and writes  *)
(* one line a transfer, and the lines are tallied against the list.        *)
(*                                                                         *)
(* A list is given by its running totals, so that what a stretch of it     *)
(* costs is a difference.                                                  *)
(***************************************************************************)
EXTENDS Integers, Sequences, FiniteSets

CONSTANTS
    Lists,      \* the lists of items to try: t[k + 1] is what the first k items cost together
                \* on the command line
    Budget      \* ARG_BUDGET

ASSUME BatchAssumption ==
    /\ Lists \subseteq Seq(Nat)
    /\ \A t \in Lists : /\ t # <<>>
                        /\ t[1] = 0
                        /\ \A k \in 2 .. Len(t) : t[k - 1] < t[k]
    /\ Budget \in Nat

VARIABLES
    totals,     \* the list, as running totals
    pc,         \* where fetch_many is
    i,          \* chunks: the item it looks at
    start,      \* chunks: where the chunk begins
    used,       \* chunks: what the chunk costs so far
    out,        \* the chunks
    at,         \* the chunk being fetched
    arrived,    \* items whose file is there, whole
    report,     \* curl's lines: which item, and whether its exit code is 0
    ok,         \* BatchResult
    failed,
    failedIndexes

cutVars == <<i, start, used, out>>
vars == <<totals, pc, cutVars, at, arrived, report, ok, failed, failedIndexes>>

\* Items are numbered from 0.
N == Len(totals) - 1
CostOf(from, to) == totals[to + 1] - totals[from + 1]
Cost(k) == CostOf(k, k + 1)
Slice == out[at].from .. out[at].to - 1
Reported == {report[n].item : n \in DOMAIN report}

Init ==
    /\ totals \in Lists
    /\ pc = "cut"
    /\ i = 0
    /\ start = 0
    /\ used = 0
    /\ out = <<>>
    /\ at = 1
    /\ arrived = {}
    /\ report = <<>>
    /\ ok = 0
    /\ failed = 0
    /\ failedIndexes = {}

-----------------------------------------------------------------------------
(* chunks: one turn of the loop a step.                                    *)

\* Mutants: the cost of the item left out, and a chunk that may be empty.
OverfullByOne == used > Budget /\ i > start
OverfullEmpty == used + Cost(i) > Budget

Overfull == used + Cost(i) > Budget /\ i > start

Weigh ==
    /\ pc = "cut"
    /\ i < N
    /\ IF Overfull
         THEN /\ out' = Append(out, [from |-> start, to |-> i])
              /\ start' = i
              /\ used' = Cost(i)
         ELSE /\ used' = used + Cost(i)
              /\ UNCHANGED <<out, start>>
    /\ i' = i + 1
    /\ UNCHANGED <<totals, pc, at, arrived, report, ok, failed, failedIndexes>>

LastChunk ==
    /\ pc = "cut"
    /\ i = N
    /\ out' = IF start < N THEN Append(out, [from |-> start, to |-> N]) ELSE out
    /\ pc' = "next"
    /\ UNCHANGED <<totals, i, start, used, at, arrived, report, ok, failed, failedIndexes>>

-----------------------------------------------------------------------------
(* A chunk.                                                                *)

StartCurl ==
    /\ pc = "next"
    /\ at <= Len(out)
    /\ report' = <<>>
    /\ pc' = "curl"
    /\ UNCHANGED <<totals, cutVars, at, arrived, ok, failed, failedIndexes>>

\* A directory cannot be made or curl does not start: what was tallied so far
\* goes with the error.
Abandon ==
    /\ pc = "next"
    /\ at <= Len(out)
    /\ pc' = "error"
    /\ UNCHANGED <<totals, cutVars, at, arrived, report, ok, failed, failedIndexes>>

\* Curl is done with an item and writes its line: with any one of the chunk
\* next, for it always runs --parallel with --retry, and a transfer to be tried
\* again waits while others go on.
Transfer(k, good) ==
    /\ pc = "curl"
    /\ k \in Slice \ Reported
    /\ report' = Append(report, [item |-> k, good |-> good])
    /\ arrived' = IF good THEN arrived \cup {k} ELSE arrived
    /\ UNCHANGED <<totals, pc, cutVars, at, ok, failed, failedIndexes>>

\* Curl exits, done or killed.  Its lines go through a buffer, so the last ones
\* may be missing though the files are there.
CurlExits(lines) ==
    /\ pc = "curl"
    /\ report' = SubSeq(report, 1, lines)
    /\ pc' = "tally"
    /\ UNCHANGED <<totals, cutVars, at, arrived, ok, failed, failedIndexes>>

\* Mutants: lines numbered from one, and an index into the chunk.
IndexFromOne(n) == out[at].from + n
IndexInChunk(n) == n - 1

\* The item the n-th line is put down to.
Index(n) == out[at].from + n - 1

\* Mutant: an item without a line is not counted.
BadReported(good) == DOMAIN report \ good

Bad(good) == 1 .. Cardinality(Slice) \ good

\* The n-th line is taken to be about the n-th item of the chunk, and an item
\* without a line to have failed.
Tally ==
    /\ pc = "tally"
    /\ LET good == {n \in DOMAIN report : report[n].good}
           bad == Bad(good)
       IN  /\ ok' = ok + Cardinality(good)
           /\ failed' = failed + Cardinality(bad)
           /\ failedIndexes' = failedIndexes \cup {Index(n) : n \in bad}
    /\ pc' = "progress"
    /\ UNCHANGED <<totals, cutVars, at, arrived, report>>

\* progress() says whether to go on.
Progress(goOn) ==
    /\ pc = "progress"
    /\ at' = at + 1
    /\ pc' = IF goOn THEN "next" ELSE "stopped"
    /\ UNCHANGED <<totals, cutVars, arrived, report, ok, failed, failedIndexes>>

Finish ==
    /\ pc = "next"
    /\ at > Len(out)
    /\ pc' = "done"
    /\ UNCHANGED <<totals, cutVars, at, arrived, report, ok, failed, failedIndexes>>

Terminated ==
    /\ pc \in {"done", "stopped", "error"}
    /\ UNCHANGED vars

Next ==
    \/ Weigh \/ LastChunk \/ StartCurl \/ Abandon \/ Tally \/ Finish \/ Terminated
    \/ \E k \in 0 .. N - 1, good \in BOOLEAN : Transfer(k, good)
    \/ \E lines \in 0 .. Len(report) : CurlExits(lines)
    \/ \E goOn \in BOOLEAN : Progress(goOn)

Spec == Init /\ [][Next]_vars

-----------------------------------------------------------------------------
Chunk == [from : Nat, to : Nat]

TypeOK ==
    /\ totals \in Lists
    /\ pc \in {"cut", "next", "curl", "tally", "progress", "done", "stopped", "error"}
    /\ i \in 0 .. N
    /\ start \in 0 .. N
    /\ used \in Nat
    /\ out \in Seq(Chunk)
    /\ at \in 1 .. Len(out) + 1
    /\ arrived \subseteq 0 .. N - 1
    /\ report \in Seq([item : 0 .. N - 1, good : BOOLEAN])
    /\ ok \in Nat
    /\ failed \in Nat
    /\ failedIndexes \subseteq 0 .. N - 1

\* "No single command line can overflow": a chunk costs no more than the
\* budget, unless it is one item that alone costs more.
WithinBudget ==
    \A n \in DOMAIN out :
        CostOf(out[n].from, out[n].to) <= Budget \/ out[n].to = out[n].from + 1

\* The chunks follow one another, none of them empty, so no item is fetched
\* twice, and once cut they reach the end of the list, so none is left out.
Partition ==
    /\ \A n \in DOMAIN out : /\ out[n].from < out[n].to
                             /\ out[n].from = IF n = 1 THEN 0 ELSE out[n - 1].to
    /\ pc # "cut" => N = IF out = <<>> THEN 0 ELSE out[Len(out)].to

\* How far the list has been tallied.
Tallied ==
    IF pc = "progress" THEN out[at].to
    ELSE IF at = 1 THEN 0 ELSE out[at - 1].to

\* Whatever curl reports, leaves out or reports out of order, each item tallied
\* is counted once, as fetched or as failed, every failure has an index of its
\* own, and no more files are counted than arrived.
Accounted ==
    /\ ok + failed = Tallied
    /\ failed = Cardinality(failedIndexes)
    /\ ok <= Cardinality(arrived \cap 0 .. Tallied - 1)

\* The chunks that have been tallied, and the items of one.
Counted == {n \in DOMAIN out : n < at \/ (n = at /\ pc = "progress")}
Items(n) == out[n].from .. out[n].to - 1

\* "Attributable to a file" (batch.rs:113) is true of the chunk at least: the
\* items of a chunk that did not arrive, be they reported out of order or not at
\* all, are answered for by as many indexes of that same chunk.
FailuresLocal ==
    \A n \in Counted :
        Cardinality(Items(n) \ arrived) <= Cardinality(Items(n) \cap failedIndexes)

=============================================================================
