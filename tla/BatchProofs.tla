---------------------------- MODULE BatchProofs ----------------------------
(***************************************************************************)
(* fetch_many cuts any list into chunks that fit, and accounts for every   *)
(* item of it, whatever curl does.                                         *)
(***************************************************************************)
EXTENDS Batch, FiniteSetTheorems, SequenceTheorems, TLAPS

\* How many numbers there are from one up to another.
LEMMA HalfOpen ==
  ASSUME NEW a \in Int, NEW b \in Int, a <= b
  PROVE  IsFiniteSet(a .. b - 1) /\ Cardinality(a .. b - 1) = b - a
<1>1. b - 1 \in Int
  OBVIOUS
<1>2. /\ IsFiniteSet(a .. b - 1)
      /\ Cardinality(a .. b - 1) = IF a > b - 1 THEN 0 ELSE (b - 1) - a + 1
  BY <1>1, FS_Interval
<1> QED
  BY <1>2

\* The numbers up to n are finitely many, n of them.
LEMMA UpTo == ASSUME NEW n \in Nat PROVE IsFiniteSet(1 .. n) /\ Cardinality(1 .. n) = n
<1>1. IsFiniteSet(1 .. n) /\ Cardinality(1 .. n) = IF 1 > n THEN 0 ELSE n - 1 + 1
  BY FS_Interval
<1> QED
  BY <1>1

-----------------------------------------------------------------------------
(* The chunks.                                                             *)

\* Where the last chunk ends.
Reached == IF out = <<>> THEN 0 ELSE out[Len(out)].to

\* A chunk that is not empty, stays in the list, follows the one before it and
\* fits the command line.
GoodChunk(n) ==
    /\ out[n].from < out[n].to
    /\ out[n].to <= N
    /\ out[n].from = IF n = 1 THEN 0 ELSE out[n - 1].to
    /\ CostOf(out[n].from, out[n].to) <= Budget \/ out[n].to = out[n].from + 1

\* While the list is being cut the chunk at hand begins where the last one
\* ended, is empty only before the first item, and fits.
Cutting ==
    pc = "cut" =>
        /\ at = 1
        /\ start = Reached
        /\ start <= i
        /\ i > 0 => start < i
        /\ used = CostOf(start, i)
        /\ used <= Budget \/ i = start + 1

ListInv ==
    /\ TypeOK
    /\ \A n \in DOMAIN out : GoodChunk(n)
    /\ Cutting
    /\ pc # "cut" => N = Reached
    /\ pc \in {"curl", "tally", "progress"} => at <= Len(out)

\* Totals are numbers, and every item costs something.
LEMMA TotalsType ==
  ASSUME TypeOK
  PROVE  /\ N \in Nat
         /\ totals[1] = 0
         /\ \A k \in 0 .. N : totals[k + 1] \in Nat
         /\ \A k \in 0 .. N - 1 : totals[k + 1] < totals[k + 2]
<1>1. /\ totals \in Seq(Nat) /\ totals # <<>> /\ totals[1] = 0
      /\ \A k \in 2 .. Len(totals) : totals[k - 1] < totals[k]
  BY BatchAssumption DEF BatchAssumption, TypeOK
<1>2. Len(totals) \in Nat \ {0}
  BY <1>1, EmptySeq
<1>3. \A k \in 0 .. N : totals[k + 1] \in Nat
  BY <1>1, <1>2, ElementOfSeq DEF N
<1>4. ASSUME NEW k \in 0 .. N - 1 PROVE totals[k + 1] < totals[k + 2]
  <2>1. k + 2 \in 2 .. Len(totals) /\ (k + 2) - 1 = k + 1
    BY <1>2 DEF N
  <2> QED
    BY <1>1, <2>1
<1> QED
  BY <1>1, <1>2, <1>3, <1>4 DEF N

\* A chunk pushed where the last one ended keeps them all good.
LEMMA PushChunk ==
  ASSUME TypeOK, \A n \in DOMAIN out : GoodChunk(n),
         NEW e \in 0 .. N, start = Reached, start < e,
         CostOf(start, e) <= Budget \/ e = start + 1,
         totals' = totals, out' = Append(out, [from |-> start, to |-> e])
  PROVE  /\ out' \in Seq(Chunk)
         /\ Len(out') = Len(out) + 1
         /\ \A n \in DOMAIN out' : GoodChunk(n)'
         /\ Reached' = e
<1> DEFINE c == [from |-> start, to |-> e]
<1>1. out \in Seq(Chunk) /\ Len(out) \in Nat /\ DOMAIN out = 1 .. Len(out)
  BY LenProperties DEF TypeOK
<1>2. c \in Chunk
  BY TotalsType DEF Chunk, TypeOK
<1>3. /\ out' \in Seq(Chunk) /\ out' # <<>> /\ Len(out') = Len(out) + 1
      /\ DOMAIN out' = 1 .. Len(out) + 1
      /\ \A n \in 1 .. Len(out) : out'[n] = out[n]
      /\ out'[Len(out) + 1] = c
  BY <1>1, <1>2, AppendProperties, LenProperties
<1>4. N' = N /\ \A f, t : CostOf(f, t)' = CostOf(f, t)
  BY DEF N, CostOf
<1>5. ASSUME NEW n \in DOMAIN out' PROVE GoodChunk(n)'
  <2>1. CASE n \in 1 .. Len(out)
    <3>1. n = 1 \/ n - 1 \in 1 .. Len(out)
      BY <1>1, <2>1
    <3>2. GoodChunk(n)
      BY <1>1, <2>1
    <3>3. out'[n] = out[n] /\ (n # 1 => out'[n - 1] = out[n - 1])
      BY <1>3, <2>1, <3>1
    <3> QED
      BY <1>4, <3>2, <3>3 DEF GoodChunk
  <2>2. CASE n = Len(out) + 1
    <3>1. out'[n].from = start /\ out'[n].to = e
      BY <1>3, <2>2
    <3>2. start = IF n = 1 THEN 0 ELSE out'[n - 1].to
      <4>1. CASE out = <<>>
        BY <2>2, <4>1 DEF Reached
      <4>2. CASE out # <<>>
        <5>1. Len(out) \in 1 .. Len(out) /\ n # 1 /\ n - 1 = Len(out)
          BY <1>1, <2>2, <4>2, EmptySeq
        <5> QED
          BY <1>3, <4>2, <5>1 DEF Reached
      <4> QED
        BY <4>1, <4>2
    <3> QED
      BY <1>4, <3>1, <3>2 DEF GoodChunk
  <2> QED
    BY <1>1, <1>3, <2>1, <2>2
<1>6. Reached' = e
  BY <1>3 DEF Reached
<1> QED
  BY <1>3, <1>5, <1>6

\* A turn of the loop, and what follows it, leaves good chunks.
LEMMA CutKeeps == ListInv /\ (Weigh \/ LastChunk) => ListInv'
<1> SUFFICES ASSUME ListInv, Weigh \/ LastChunk PROVE ListInv'
  OBVIOUS
<1>1. /\ TypeOK /\ \A n \in DOMAIN out : GoodChunk(n)
      /\ at = 1 /\ start = Reached /\ start <= i /\ (i > 0 => start < i)
      /\ used = CostOf(start, i) /\ (used <= Budget \/ i = start + 1)
      /\ totals' = totals
  BY DEF ListInv, Cutting, Weigh, LastChunk
<1>2. /\ N \in Nat /\ N' = N /\ i \in 0 .. N /\ start \in 0 .. N /\ Budget \in Nat
      /\ \A k \in 0 .. N : totals[k + 1] \in Nat
      /\ \A k \in 0 .. N - 1 : totals[k + 1] < totals[k + 2]
  BY <1>1, TotalsType, BatchAssumption DEF TypeOK, N, BatchAssumption
<1>3. \A f, t : CostOf(f, t)' = CostOf(f, t)
  BY <1>1 DEF CostOf
<1>4. CASE Weigh
  <2>1. /\ i < N /\ pc' = pc /\ pc = "cut" /\ i' = i + 1
        /\ UNCHANGED <<totals, at, arrived, report, ok, failed, failedIndexes>>
    BY <1>4 DEF Weigh
  <2>2. /\ Cost(i) \in Nat
        /\ CostOf(start, i + 1) = CostOf(start, i) + Cost(i)
        /\ CostOf(start, i) \in Int
    <3>1. totals[i + 1] \in Nat /\ totals[i + 2] \in Nat /\ totals[i + 1] < totals[i + 2]
      <4>1. i \in 0 .. N - 1 /\ i + 1 \in 0 .. N /\ (i + 1) + 1 = i + 2
        BY <1>2, <2>1
      <4> QED
        BY <1>2, <4>1
    <3>2. totals[start + 1] \in Nat /\ (i + 1) + 1 = i + 2
      BY <1>2
    <3> QED
      BY <3>1, <3>2 DEF Cost, CostOf
  <2>3. CASE Overfull
    <3>1. /\ out' = Append(out, [from |-> start, to |-> i]) /\ start' = i /\ used' = Cost(i)
          /\ start < i
      BY <1>4, <2>3 DEF Weigh, Overfull
    <3>2. CostOf(start, i) <= Budget \/ i = start + 1
      BY <1>1
    <3>3. /\ out' \in Seq(Chunk) /\ Len(out') = Len(out) + 1
          /\ \A n \in DOMAIN out' : GoodChunk(n)'
          /\ Reached' = i
      BY <1>1, <1>2, <3>1, <3>2, PushChunk
    <3>4. TypeOK'
      <4>1. i' \in 0 .. N /\ start' \in 0 .. N /\ used' \in Nat
        BY <1>2, <2>1, <2>2, <3>1
      <4>2. at' \in 1 .. Len(out') + 1
        BY <1>1, <2>1, <3>3
      <4>3. /\ totals \in Lists /\ arrived \subseteq 0 .. N - 1
            /\ report \in Seq([item : 0 .. N - 1, good : BOOLEAN])
            /\ ok \in Nat /\ failed \in Nat /\ failedIndexes \subseteq 0 .. N - 1
        BY <1>1 DEF TypeOK
      <4> QED
        BY <1>1, <1>2, <2>1, <3>3, <4>1, <4>2, <4>3 DEF TypeOK
    <3>5. Cutting'
      BY <1>1, <1>2, <1>3, <2>1, <3>1, <3>3 DEF Cutting, Cost
    <3> QED
      BY <2>1, <3>3, <3>4, <3>5 DEF ListInv
  <2>4. CASE ~ Overfull
    <3>1. used' = used + Cost(i) /\ out' = out /\ start' = start
      BY <1>4, <2>4 DEF Weigh
    <3>2. used' <= Budget \/ i = start
      BY <1>1, <1>2, <2>2, <2>4, <3>1 DEF Overfull
    <3>3. TypeOK'
      <4>1. used' \in Nat /\ i' \in 0 .. N'
        BY <1>1, <1>2, <2>1, <2>2, <3>1 DEF TypeOK
      <4>2. out' \in Seq(Chunk) /\ at' \in 1 .. Len(out') + 1 /\ start' \in 0 .. N'
        BY <1>1, <1>2, <2>1, <3>1 DEF TypeOK
      <4> QED
        BY <1>1, <1>2, <2>1, <4>1, <4>2 DEF TypeOK
    <3>4. Cutting'
      BY <1>1, <1>2, <1>3, <2>1, <2>2, <3>1, <3>2 DEF Cutting, Reached
    <3>5. \A n \in DOMAIN out' : GoodChunk(n)'
      BY <1>1, <1>2, <1>3, <3>1 DEF GoodChunk
    <3> QED
      BY <2>1, <3>3, <3>4, <3>5 DEF ListInv
  <2> QED
    BY <2>3, <2>4
<1>5. CASE LastChunk
  <2>1. /\ i = N /\ pc' = "next"
        /\ UNCHANGED <<totals, i, start, used, at, arrived, report, ok, failed,
                       failedIndexes>>
    BY <1>5 DEF LastChunk
  <2>2. CASE start < N
    <3>1. out' = Append(out, [from |-> start, to |-> N])
      BY <1>5, <2>2 DEF LastChunk
    <3>2. CostOf(start, N) <= Budget \/ N = start + 1
      BY <1>1, <2>1
    <3>3. /\ out' \in Seq(Chunk) /\ Len(out') = Len(out) + 1
          /\ \A n \in DOMAIN out' : GoodChunk(n)'
          /\ Reached' = N
      BY <1>1, <1>2, <2>2, <3>1, <3>2, PushChunk
    <3>4. TypeOK'
      BY <1>1, <1>2, <2>1, <3>3, EmptySeq DEF TypeOK, N
    <3> QED
      BY <1>2, <2>1, <3>3, <3>4 DEF ListInv, Cutting
  <2>3. CASE ~ (start < N)
    <3>1. out' = out /\ start = N
      BY <1>2, <1>5, <2>3 DEF LastChunk
    <3>2. TypeOK'
      BY <1>1, <1>2, <2>1, <3>1 DEF TypeOK, N
    <3>3. \A n \in DOMAIN out' : GoodChunk(n)'
      BY <1>1, <1>2, <1>3, <3>1 DEF GoodChunk
    <3>4. N' = Reached'
      BY <1>1, <1>2, <3>1 DEF Reached
    <3> QED
      BY <2>1, <3>2, <3>3, <3>4 DEF ListInv, Cutting
  <2> QED
    BY <2>2, <2>3
<1> QED
  BY <1>4, <1>5

\* The steps that come after the cutting leave the chunks alone.
LEMMA ChunksRest ==
  ASSUME ListInv, UNCHANGED <<totals, cutVars>>, pc # "cut", pc' # "cut", TypeOK',
         pc' \in {"curl", "tally", "progress"} => at' <= Len(out)
  PROVE  ListInv'
<1>1. N' = N /\ Reached' = Reached
  BY DEF N, Reached, cutVars
<1>2. \A n \in DOMAIN out' : GoodChunk(n)'
  <2>1. \A f, t : CostOf(f, t)' = CostOf(f, t)
    BY DEF CostOf
  <2> QED
    BY <1>1, <2>1 DEF ListInv, GoodChunk, cutVars
<1> QED
  BY <1>1, <1>2 DEF ListInv, Cutting, cutVars

\* The chunk being fetched lies in the list.
LEMMA SliceInList ==
  ASSUME ListInv, pc \in {"curl", "tally", "progress"}
  PROVE  /\ out[at].from \in Nat /\ out[at].to \in Nat
         /\ out[at].from < out[at].to /\ out[at].to <= N
         /\ out[at].from = IF at = 1 THEN 0 ELSE out[at - 1].to
         /\ Cardinality(Slice) = out[at].to - out[at].from
         /\ at \in 1 .. Len(out)
<1>1. Len(out) \in Nat /\ DOMAIN out = 1 .. Len(out)
  BY LenProperties DEF ListInv, TypeOK
<1>2. at \in 1 .. Len(out)
  BY <1>1 DEF ListInv, TypeOK
<1>3. out[at] \in Chunk /\ GoodChunk(at)
  BY <1>1, <1>2, ElementOfSeq DEF ListInv, TypeOK
<1>4. out[at].from \in Nat /\ out[at].to \in Nat
  BY <1>3 DEF Chunk
<1>5. Cardinality(Slice) = out[at].to - out[at].from
  <2>1. out[at].from <= out[at].to
    BY <1>3, <1>4 DEF GoodChunk
  <2> QED
    BY <1>4, <2>1, HalfOpen DEF Slice
<1> QED
  BY <1>2, <1>3, <1>4, <1>5 DEF GoodChunk

\* The steps of a chunk keep the types.
LEMMA FetchTypes ==
  ASSUME ListInv, \/ StartCurl \/ Abandon \/ Tally \/ Finish
                  \/ \E k \in 0 .. N - 1, good \in BOOLEAN : Transfer(k, good)
                  \/ \E lines \in 0 .. Len(report) : CurlExits(lines)
                  \/ \E goOn \in BOOLEAN : Progress(goOn)
  PROVE  TypeOK'
<1> DEFINE Line == [item : 0 .. N - 1, good : BOOLEAN]
<1>1. TypeOK /\ N \in Nat /\ Len(out) \in Nat /\ report \in Seq(Line)
  BY TotalsType, LenProperties DEF ListInv, TypeOK
<1>2. CASE StartCurl
  <2>1. <<>> \in Seq(Line)
    BY EmptySeq
  <2> QED
    BY <1>1, <1>2, <2>1 DEF StartCurl, TypeOK, N, cutVars
<1>3. CASE Abandon \/ Finish
  BY <1>1, <1>3 DEF Abandon, Finish, TypeOK, N, cutVars
<1>4. ASSUME NEW k \in 0 .. N - 1, NEW good \in BOOLEAN, Transfer(k, good) PROVE TypeOK'
  <2>1. [item |-> k, good |-> good] \in Line
    OBVIOUS
  <2>2. report' \in Seq(Line)
    BY <1>1, <1>4, <2>1, AppendProperties DEF Transfer
  <2>3. arrived' \subseteq 0 .. N - 1
    BY <1>1, <1>4 DEF Transfer, TypeOK
  <2> HIDE DEF Line
  <2>4. N' = N /\ UNCHANGED <<totals, pc, cutVars, at, ok, failed, failedIndexes>>
    BY <1>4 DEF Transfer, N
  <2> QED
    BY <1>1, <2>2, <2>3, <2>4 DEF TypeOK, Line, cutVars
<1>5. ASSUME NEW lines \in 0 .. Len(report), CurlExits(lines) PROVE TypeOK'
  <2>1. ASSUME NEW n \in 1 .. lines PROVE report[n] \in Line
    <3>1. n \in 1 .. Len(report)
      BY <1>1, LenProperties
    <3> HIDE DEF Line
    <3> QED
      BY <1>1, <3>1, ElementOfSeq
  <2>2. report' \in Seq(Line)
    BY <1>1, <1>5, <2>1, SubSeqProperties, LenProperties DEF CurlExits
  <2> HIDE DEF Line
  <2>3. /\ N' = N /\ pc' = "tally"
        /\ UNCHANGED <<totals, cutVars, at, arrived, ok, failed, failedIndexes>>
    BY <1>5 DEF CurlExits, N
  <2> QED
    BY <1>1, <2>2, <2>3 DEF TypeOK, Line, cutVars
<1>6. CASE Tally
  <2> DEFINE hits == {n \in DOMAIN report : report[n].good}
             bad == 1 .. Cardinality(Slice) \ hits
  <2>1. /\ out[at].from \in Nat /\ out[at].to \in Nat /\ out[at].to <= N
        /\ Cardinality(Slice) = out[at].to - out[at].from
    BY <1>6, SliceInList DEF Tally
  <2>2. IsFiniteSet(hits) /\ IsFiniteSet(bad)
    <3>1. IsFiniteSet(DOMAIN report)
      BY <1>1, LenProperties, FS_Interval
    <3>2. IsFiniteSet(1 .. Cardinality(Slice))
      <4>1. Cardinality(Slice) \in Int
        BY <2>1
      <4> QED
        BY <4>1, FS_Interval
    <3> QED
      BY <3>1, <3>2, FS_Subset
  <2>3. Cardinality(hits) \in Nat /\ Cardinality(bad) \in Nat
    BY <2>2, FS_CardinalityType
  <2>4. \A n \in bad : Index(n) \in 0 .. N - 1
    <3> SUFFICES ASSUME NEW n \in bad PROVE Index(n) \in 0 .. N - 1
      OBVIOUS
    <3>1. n \in 1 .. out[at].to - out[at].from
      BY <2>1
    <3>2. N \in Nat
      BY <1>1, TotalsType
    <3> HIDE DEF bad
    <3> QED
      BY <2>1, <3>1, <3>2 DEF Index
  <2>5. /\ ok' = ok + Cardinality(hits) /\ failed' = failed + Cardinality(bad)
        /\ failedIndexes' = failedIndexes \cup {Index(n) : n \in bad}
        /\ pc' = "progress" /\ UNCHANGED <<totals, cutVars, at, arrived, report>>
    BY <1>6 DEF Tally, Bad
  <2> HIDE DEF hits, bad
  <2>6. ok' \in Nat /\ failed' \in Nat
    <3>1. ok \in Nat /\ failed \in Nat
      BY <1>1 DEF TypeOK
    <3> QED
      BY <2>3, <2>5, <3>1
  <2>7. failedIndexes' \subseteq 0 .. N - 1
    <3>1. failedIndexes \subseteq 0 .. N - 1
      BY <1>1 DEF TypeOK
    <3>2. {Index(n) : n \in bad} \subseteq 0 .. N - 1
      BY <2>4
    <3> QED
      BY <2>5, <3>1, <3>2
  <2>8. N' = N
    BY <2>5 DEF N
  <2> QED
    BY <1>1, <2>5, <2>6, <2>7, <2>8 DEF TypeOK, cutVars
<1>7. ASSUME NEW goOn \in BOOLEAN, Progress(goOn) PROVE TypeOK'
  <2>1. at \in 1 .. Len(out)
    BY <1>7, SliceInList DEF Progress
  <2>2. at' \in 1 .. Len(out) + 1 /\ pc' \in {"next", "stopped"}
    BY <1>1, <1>7, <2>1 DEF Progress
  <2> QED
    BY <1>1, <1>7, <2>2 DEF Progress, TypeOK, N, cutVars
<1> QED
  BY <1>2, <1>3, <1>4, <1>5, <1>6, <1>7

\* No step disturbs the cut of the list into chunks.
LEMMA ListStep == ListInv /\ [Next]_vars => ListInv'
<1> SUFFICES ASSUME ListInv, [Next]_vars PROVE ListInv'
  OBVIOUS
<1> DEFINE Fetch == \/ StartCurl \/ Abandon \/ Tally \/ Finish
                    \/ \E k \in 0 .. N - 1, good \in BOOLEAN : Transfer(k, good)
                    \/ \E lines \in 0 .. Len(report) : CurlExits(lines)
                    \/ \E goOn \in BOOLEAN : Progress(goOn)
<1>1. CASE Weigh \/ LastChunk
  BY <1>1, CutKeeps
<1>2. CASE Fetch
  <2>1. TypeOK'
    BY <1>2, FetchTypes
  <2>2. /\ UNCHANGED <<totals, cutVars>> /\ pc # "cut" /\ pc' # "cut"
        /\ pc' \in {"curl", "tally", "progress"} => at' <= Len(out)
    BY <1>2 DEF StartCurl, Abandon, Tally, Finish, Transfer, CurlExits, Progress, ListInv
  <2> QED
    BY <2>1, <2>2, ChunksRest
<1>3. CASE UNCHANGED vars
  <2>1. UNCHANGED <<totals, pc, i, start, used, out, at>>
    BY <1>3 DEF vars, cutVars
  <2>2. TypeOK'
    BY <1>3, <2>1 DEF vars, ListInv, TypeOK, N
  <2>3. N' = N /\ Reached' = Reached /\ \A f, t : CostOf(f, t)' = CostOf(f, t)
    BY <2>1 DEF N, Reached, CostOf
  <2> QED
    BY <2>1, <2>2, <2>3 DEF ListInv, Cutting, GoodChunk
<1> QED
  BY <1>1, <1>2, <1>3 DEF Next, Terminated

\* So it is right throughout.
LEMMA ListSafe == Spec => []ListInv
<1>1. Init => ListInv
  <2> SUFFICES ASSUME Init PROVE ListInv
    OBVIOUS
  <2>1. totals \in Seq(Nat) /\ totals # <<>> /\ totals[1] = 0
    BY BatchAssumption DEF BatchAssumption, Init
  <2>2. N \in Nat
    BY <2>1, EmptySeq DEF N
  <2>3. /\ out \in Seq(Chunk) /\ Len(out) = 0 /\ DOMAIN out = {}
        /\ report \in Seq([item : 0 .. N - 1, good : BOOLEAN])
    BY EmptySeq, LenProperties DEF Init
  <2>4. TypeOK
    BY <2>2, <2>3 DEF Init, TypeOK
  <2>5. Cutting
    BY <2>1, BatchAssumption DEF BatchAssumption, Init, Cutting, Reached, CostOf
  <2> QED
    BY <2>3, <2>4, <2>5 DEF Init, ListInv
<1> QED
  BY <1>1, ListStep, PTL DEF Spec

\* Type correctness: among the rest, every index that is reported as failed is
\* one of the list.
THEOREM BatchTypes == Spec => []TypeOK
<1>1. ListInv => TypeOK
  BY DEF ListInv
<1> QED
  BY <1>1, ListSafe, PTL

\* No command line is longer than the budget, unless one item alone is.
THEOREM LinesFit == Spec => []WithinBudget
<1>1. ListInv => WithinBudget
  BY DEF ListInv, GoodChunk, WithinBudget
<1> QED
  BY <1>1, ListSafe, PTL

\* Whatever the list, the chunks are not empty, follow one another, and reach
\* its end.
THEOREM ChunksPartition == Spec => []Partition
<1>1. ListInv => Partition
  BY DEF ListInv, GoodChunk, Partition, Reached
<1> QED
  BY <1>1, ListSafe, PTL

-----------------------------------------------------------------------------
(* The accounts.                                                           *)

\* Curl's lines are about items of the chunk, no two about the same one, and a
\* good one only about an item that arrived.
ReportInv ==
    /\ \A n \in DOMAIN report : /\ report[n].item \in Slice
                                /\ report[n].good => report[n].item \in arrived
    /\ \A m, n \in DOMAIN report : report[m].item = report[n].item => m = n

CountInv ==
    /\ Accounted
    /\ failedIndexes \subseteq 0 .. Tallied - 1
    /\ FailuresLocal
    /\ pc \in {"curl", "tally"} => ReportInv

\* There are no more lines than items.
LEMMA NoMoreLines ==
  ASSUME ListInv, ReportInv, pc = "tally"
  PROVE  Len(report) <= Cardinality(Slice)
<1>1. report \in Seq([item : 0 .. N - 1, good : BOOLEAN])
  BY DEF ListInv, TypeOK
<1>2. Len(report) \in Nat /\ DOMAIN report = 1 .. Len(report)
  BY <1>1, LenProperties
<1>3. IsFiniteSet(Slice)
  BY SliceInList, HalfOpen DEF Slice
<1> DEFINE f == [n \in 1 .. Len(report) |-> report[n].item]
<1>4. f \in Injection(1 .. Len(report), Slice)
  BY <1>2 DEF ReportInv, Injection, IsInjective
<1> HIDE DEF f
<1>5. Cardinality(1 .. Len(report)) <= Cardinality(Slice)
  BY <1>3, <1>4, FS_Injection
<1>6. Cardinality(1 .. Len(report)) = Len(report)
  BY <1>2, UpTo
<1> QED
  BY <1>5, <1>6

\* What a set has above a bound adds to what it has below.
LEMMA SplitCount ==
  ASSUME NEW S, NEW a \in Nat, NEW b \in Nat, a <= b
  PROVE  /\ Cardinality(S \cap 0 .. b - 1)
              = Cardinality(S \cap 0 .. a - 1) + Cardinality(S \cap a .. b - 1)
         /\ Cardinality(S \cap 0 .. a - 1) \in Nat
         /\ Cardinality(S \cap a .. b - 1) \in Nat
         /\ IsFiniteSet(S \cap a .. b - 1)
<1> DEFINE low == S \cap 0 .. a - 1
           high == S \cap a .. b - 1
<1>1. IsFiniteSet(0 .. a - 1) /\ IsFiniteSet(a .. b - 1)
  BY HalfOpen
<1>2. IsFiniteSet(low) /\ IsFiniteSet(high)
  BY <1>1, FS_Intersection
<1>3. Cardinality(low) \in Nat /\ Cardinality(high) \in Nat
  BY <1>2, FS_CardinalityType
<1>4. low \cap high = {} /\ S \cap 0 .. b - 1 = low \cup high
  OBVIOUS
<1> HIDE DEF low, high
<1>5. Cardinality(low \cup high) = Cardinality(low) + Cardinality(high)
  BY <1>2, <1>3, <1>4, FS_Union, FS_EmptySet
<1> QED
  BY <1>2, <1>3, <1>4, <1>5 DEF low, high

\* A chunk has finitely many items.
LEMMA ItemsFinite ==
  ASSUME ListInv, NEW n \in DOMAIN out
  PROVE  IsFiniteSet(Items(n))
<1>1. out \in Seq(Chunk) /\ DOMAIN out = 1 .. Len(out)
  BY LenProperties DEF ListInv, TypeOK
<1>2. out[n] \in Chunk
  BY <1>1, ElementOfSeq
<1>3. out[n].from \in Nat /\ out[n].to \in Nat
  BY <1>2 DEF Chunk
<1> QED
  BY <1>3, HalfOpen DEF Items

\* More files and more indexes leave a chunk that was answered for so.
LEMMA LocalGrows ==
  ASSUME ListInv, NEW n \in Counted, arrived \subseteq arrived', failedIndexes \subseteq failedIndexes',
         Cardinality(Items(n) \ arrived) <= Cardinality(Items(n) \cap failedIndexes)
  PROVE  Cardinality(Items(n) \ arrived') <= Cardinality(Items(n) \cap failedIndexes')
<1>1. IsFiniteSet(Items(n))
  BY ItemsFinite DEF Counted
<1>2. /\ IsFiniteSet(Items(n) \ arrived) /\ IsFiniteSet(Items(n) \cap failedIndexes')
      /\ IsFiniteSet(Items(n) \ arrived') /\ IsFiniteSet(Items(n) \cap failedIndexes)
  BY <1>1, FS_Subset, FS_Difference, FS_Intersection
<1>3. Cardinality(Items(n) \ arrived') <= Cardinality(Items(n) \ arrived)
  BY <1>2, FS_Subset
<1>4. Cardinality(Items(n) \cap failedIndexes) <= Cardinality(Items(n) \cap failedIndexes')
  BY <1>2, FS_Subset
<1> QED
  BY <1>2, <1>3, <1>4, FS_CardinalityType

\* Tallying a chunk counts each of its items once, and as fetched only what
\* arrived.
LEMMA TallyCounts == ListInv /\ CountInv /\ Tally => CountInv'
<1> SUFFICES ASSUME ListInv, CountInv, Tally PROVE CountInv'
  OBVIOUS
<1> DEFINE from == out[at].from
           to == out[at].to
           hits == {n \in DOMAIN report : report[n].good}
           bad == 1 .. Cardinality(Slice) \ hits
           named == {Index(n) : n \in bad}
<1>1. /\ ok' = ok + Cardinality(hits) /\ failed' = failed + Cardinality(bad)
      /\ failedIndexes' = failedIndexes \cup named
      /\ pc = "tally" /\ pc' = "progress"
      /\ UNCHANGED <<out, at, arrived>>
  BY DEF Tally, Bad, cutVars
<1>2. /\ from \in Nat /\ to \in Nat /\ from < to
      /\ Cardinality(Slice) = to - from
      /\ Tallied = from
  BY <1>1, SliceInList DEF Tallied
<1>3. Tallied' = to
  BY <1>1 DEF Tallied
<1>4. /\ ok \in Nat /\ failed \in Nat
      /\ Len(report) \in Nat /\ DOMAIN report = 1 .. Len(report)
      /\ report \in Seq([item : 0 .. N - 1, good : BOOLEAN])
  BY LenProperties DEF ListInv, TypeOK
<1>5. /\ ok + failed = from /\ failed = Cardinality(failedIndexes)
      /\ failedIndexes \subseteq 0 .. from - 1
      /\ ok <= Cardinality(arrived \cap 0 .. from - 1)
      /\ FailuresLocal
      /\ ReportInv
  BY <1>1, <1>2 DEF CountInv, Accounted
<1> HIDE DEF from, to
<1>6. hits \subseteq 1 .. Cardinality(Slice)
  <2>1. Len(report) <= Cardinality(Slice)
    BY <1>1, <1>5, NoMoreLines
  <2> QED
    BY <1>2, <1>4, <2>1
<1>7. /\ IsFiniteSet(1 .. Cardinality(Slice))
      /\ Cardinality(1 .. Cardinality(Slice)) = to - from
  <2>1. Cardinality(Slice) \in Nat
    BY <1>2
  <2> QED
    BY <1>2, <2>1, UpTo
<1>8. /\ IsFiniteSet(hits) /\ IsFiniteSet(bad)
      /\ Cardinality(hits) \in Nat /\ Cardinality(bad) \in Nat
      /\ Cardinality(hits) + Cardinality(bad) = to - from
  <2> DEFINE all == 1 .. Cardinality(Slice)
  <2>1. bad = all \ hits /\ all \cap hits = hits /\ hits \subseteq all
    BY <1>6
  <2>2. IsFiniteSet(all) /\ Cardinality(all) = to - from
    BY <1>7
  <2> HIDE DEF hits, all, bad
  <2>3. IsFiniteSet(hits) /\ IsFiniteSet(bad)
    BY <2>1, <2>2, FS_Subset, FS_Difference
  <2>4. Cardinality(hits) \in Nat /\ Cardinality(bad) \in Nat
    BY <2>3, FS_CardinalityType
  <2>5. Cardinality(bad) = Cardinality(all) - Cardinality(hits)
    <3>1. Cardinality(all \ hits) = Cardinality(all) - Cardinality(all \cap hits)
      BY <2>2, FS_Difference
    <3> QED
      BY <2>1, <3>1
  <2> QED
    BY <1>2, <2>2, <2>3, <2>4, <2>5
<1>9. /\ \A n \in bad : Index(n)' = Index(n) /\ Index(n) \in from .. to - 1
      /\ \A m, n \in bad : Index(m) = Index(n) => m = n
  BY <1>1, <1>2 DEF Index, from
<1>10. IsFiniteSet(named) /\ Cardinality(named) = Cardinality(bad)
  <2> DEFINE f == [n \in bad |-> Index(n)]
  <2> HIDE DEF bad
  <2>1. f \in Bijection(bad, named)
    BY <1>9 DEF Bijection, Injection, IsInjective, Surjection
  <2>2. ExistsBijection(bad, named)
    BY <2>1 DEF ExistsBijection
  <2> QED
    BY <1>8, <2>2, FS_Bijection
<1>11. failed' = Cardinality(failedIndexes') /\ failedIndexes' \subseteq 0 .. to - 1
  <2>1. IsFiniteSet(failedIndexes)
    <3>1. IsFiniteSet(0 .. from - 1)
      BY <1>2, HalfOpen
    <3> QED
      BY <1>5, <3>1, FS_Subset
  <2>2. failedIndexes \cap named = {} /\ named \subseteq from .. to - 1
    BY <1>2, <1>5, <1>9
  <2> HIDE DEF named, bad
  <2>3. failedIndexes' \subseteq 0 .. to - 1
    BY <1>1, <1>2, <1>5, <2>2
  <2>4. Cardinality(failedIndexes \cup named) = Cardinality(failedIndexes) + Cardinality(named) - 0
    BY <1>10, <2>1, <2>2, FS_Union, FS_EmptySet
  <2> QED
    BY <1>1, <1>4, <1>5, <1>8, <1>10, <2>3, <2>4
<1> DEFINE arrivals == arrived \cap from .. to - 1
<1>15. IsFiniteSet(arrivals) /\ Cardinality(arrivals) \in Nat /\ Cardinality(hits) <= Cardinality(arrivals)
  <2>1. IsFiniteSet(arrivals)
    <3>1. from \in Nat /\ to \in Nat /\ from <= to
      BY <1>2
    <3> QED
      BY <3>1, SplitCount, Zenon
  <2> DEFINE f == [n \in hits |-> report[n].item]
  <2>2. f \in Injection(hits, arrivals)
    BY <1>5 DEF ReportInv, Injection, IsInjective, Slice, from, to
  <2> HIDE DEF arrivals, f, hits
  <2> QED
    BY <2>1, <2>2, FS_Injection, FS_CardinalityType
<1>12. ok' <= Cardinality(arrived \cap 0 .. to - 1)
  <2>1. /\ Cardinality(arrived \cap 0 .. to - 1)
              = Cardinality(arrived \cap 0 .. from - 1) + Cardinality(arrivals)
        /\ Cardinality(arrived \cap 0 .. from - 1) \in Nat
    <3>1. from \in Nat /\ to \in Nat /\ from <= to
      BY <1>2
    <3>2. /\ Cardinality(arrived \cap 0 .. to - 1)
                = Cardinality(arrived \cap 0 .. from - 1) + Cardinality(arrived \cap from .. to - 1)
          /\ Cardinality(arrived \cap 0 .. from - 1) \in Nat
          /\ Cardinality(arrived \cap from .. to - 1) \in Nat
          /\ IsFiniteSet(arrived \cap from .. to - 1)
      BY <3>1, SplitCount, Zenon
    <3> QED
      BY <3>2
  <2> HIDE DEF arrivals, hits
  <2> QED
    BY <1>1, <1>4, <1>5, <1>8, <1>15, <2>1
<1>13. FailuresLocal'
  <2> DEFINE here == from .. to - 1
  <2>1. Cardinality(here \ arrived) <= Cardinality(here \cap failedIndexes')
    <3>1. IsFiniteSet(here) /\ Cardinality(here) = to - from
      <4>1. from \in Nat /\ to \in Nat /\ from <= to
        BY <1>2
      <4> QED
        BY <4>1, HalfOpen
    <3>2. named \subseteq here \cap failedIndexes'
      BY <1>1, <1>9
    <3>3. here \cap arrived = arrivals
      OBVIOUS
    <3> HIDE DEF here, named, bad, hits, arrivals
    <3>4. Cardinality(here \ arrived) = Cardinality(here) - Cardinality(arrivals)
      BY <3>1, <3>3, FS_Difference
    <3>5. IsFiniteSet(here \cap failedIndexes')
      BY <3>1, FS_Intersection
    <3>6. Cardinality(named) <= Cardinality(here \cap failedIndexes')
      BY <3>2, <3>5, FS_Subset
    <3>7. Cardinality(here \cap failedIndexes') \in Nat
      BY <3>5, FS_CardinalityType
    <3> QED
      BY <1>2, <1>8, <1>10, <1>15, <3>1, <3>4, <3>6, <3>7
  <2>2. ASSUME NEW n \in Counted'
        PROVE  Cardinality(Items(n)' \ arrived') <= Cardinality(Items(n)' \cap failedIndexes')
    <3>1. CASE n = at
      BY <1>1, <2>1, <3>1 DEF Items, from, to
    <3>2. CASE n # at
      <4>1. n \in Counted /\ Items(n)' = Items(n) /\ arrived' = arrived /\ failedIndexes \subseteq failedIndexes'
        BY <1>1, <3>2 DEF Counted, Items
      <4> QED
        BY <1>5, <4>1, LocalGrows DEF FailuresLocal
    <3> QED
      BY <3>1, <3>2
  <2> QED
    BY <2>2 DEF FailuresLocal
<1> HIDE DEF hits, bad, named
<1>14. ok' + failed' = to
  <2>1. /\ ok' = ok + Cardinality(hits) /\ failed' = failed + Cardinality(bad)
        /\ ok + failed = from /\ Cardinality(hits) + Cardinality(bad) = to - from
    BY <1>1, <1>5, <1>8
  <2>2. /\ ok \in Nat /\ failed \in Nat /\ from \in Nat /\ to \in Nat
        /\ Cardinality(hits) \in Nat /\ Cardinality(bad) \in Nat
    BY <1>2, <1>4, <1>8
  <2> QED
    BY <2>1, <2>2
<1> QED
  BY <1>1, <1>3, <1>11, <1>12, <1>13, <1>14
     DEF CountInv, Accounted

\* As long as neither the chunks nor the one at hand change, no chunk is counted
\* that was not.
LEMMA SameCounted ==
  ASSUME out' = out, at' = at, pc' = pc \/ pc' # "progress"
  PROVE  \A n \in Counted' : n \in Counted /\ Items(n)' = Items(n)
BY DEF Counted, Items

\* A step that tallies nothing and loses no file keeps the accounts.
LEMMA AccountsRest ==
  ASSUME ListInv, CountInv, Tallied' = Tallied, arrived \subseteq arrived', arrived' \subseteq Nat,
         UNCHANGED <<ok, failed, failedIndexes>>,
         \A n \in Counted' : n \in Counted /\ Items(n)' = Items(n),
         pc' \in {"curl", "tally"} => ReportInv'
  PROVE  CountInv'
<1> DEFINE before == 0 .. Tallied - 1
<1>1. Tallied \in Nat
  BY DEF CountInv, Accounted, ListInv, TypeOK
<1>2. IsFiniteSet(arrived' \cap before)
  <2>1. IsFiniteSet(before)
    BY <1>1, HalfOpen
  <2> QED
    BY <2>1, FS_Intersection
<1>3. /\ Cardinality(arrived \cap before) <= Cardinality(arrived' \cap before)
      /\ Cardinality(arrived \cap before) \in Nat
      /\ Cardinality(arrived' \cap before) \in Nat
  <2>1. arrived \cap before \in SUBSET (arrived' \cap before)
    OBVIOUS
  <2> QED
    BY <1>2, <2>1, FS_Subset, FS_CardinalityType
<1>4. ok \in Nat
  BY DEF ListInv, TypeOK
<1>5. ok' <= Cardinality(arrived' \cap 0 .. Tallied' - 1)
  BY <1>3, <1>4 DEF CountInv, Accounted
<1>6. FailuresLocal'
  <2> SUFFICES ASSUME NEW n \in Counted'
               PROVE  Cardinality(Items(n)' \ arrived') <= Cardinality(Items(n)' \cap failedIndexes')
    BY DEF FailuresLocal
  <2>1. n \in Counted /\ Items(n)' = Items(n)
    OBVIOUS
  <2> QED
    BY <2>1, LocalGrows DEF CountInv, FailuresLocal
<1> QED
  BY <1>5, <1>6 DEF CountInv, Accounted

\* A line more is about an item not reported yet.
LEMMA TransferReports ==
  ASSUME ListInv, CountInv, NEW k \in 0 .. N - 1, NEW good \in BOOLEAN, Transfer(k, good)
  PROVE  ReportInv'
<1> DEFINE line == [item |-> k, good |-> good]
<1>1. /\ report \in Seq([item : 0 .. N - 1, good : BOOLEAN])
      /\ line \in [item : 0 .. N - 1, good : BOOLEAN]
      /\ report' = Append(report, line)
      /\ arrived' = IF good THEN arrived \cup {k} ELSE arrived
      /\ k \in Slice /\ k \notin Reported
      /\ ReportInv
      /\ UNCHANGED <<out, at>>
  BY DEF Transfer, ListInv, TypeOK, CountInv, cutVars
<1>2. /\ Len(report) \in Nat /\ DOMAIN report = 1 .. Len(report)
      /\ DOMAIN report' = 1 .. Len(report) + 1
      /\ \A n \in 1 .. Len(report) : report'[n] = report[n]
      /\ report'[Len(report) + 1] = line
  BY <1>1, LenProperties, AppendProperties
<1>3. Slice' = Slice /\ \A n : Index(n)' = Index(n)
  BY <1>1 DEF Slice, Index
<1>4. \A n \in DOMAIN report : report[n].item # k
  BY <1>1 DEF Reported
<1>6. ASSUME NEW n \in DOMAIN report'
      PROVE  /\ report'[n].item \in Slice'
             /\ report'[n].good => report'[n].item \in arrived'
  <2>1. CASE n \in 1 .. Len(report)
    BY <1>1, <1>2, <1>3, <2>1 DEF ReportInv
  <2>2. CASE n = Len(report) + 1
    BY <1>1, <1>2, <1>3, <2>2
  <2> QED
    BY <1>2, <2>1, <2>2
<1>7. ASSUME NEW m \in DOMAIN report', NEW n \in DOMAIN report', report'[m].item = report'[n].item
      PROVE  m = n
  BY <1>1, <1>2, <1>4, <1>7 DEF ReportInv
<1> QED
  BY <1>6, <1>7 DEF ReportInv

\* No step disturbs the tally.
LEMMA CountStep == ListInv /\ CountInv /\ [Next]_vars => CountInv'
<1> SUFFICES ASSUME ListInv, CountInv, [Next]_vars PROVE CountInv'
  OBVIOUS
<1>1. arrived \subseteq Nat /\ Len(out) \in Nat /\ at \in Nat \ {0}
  BY TotalsType, LenProperties DEF ListInv, TypeOK
<1>2. CASE Weigh \/ LastChunk
  <2>1. Tallied' = Tallied
    BY <1>2 DEF Weigh, LastChunk, Tallied, ListInv, Cutting
  <2>2. Counted' = {}
    <3>1. at = 1 /\ at' = at /\ pc' \in {"cut", "next"}
      BY <1>2 DEF Weigh, LastChunk, ListInv, Cutting
    <3>2. out' \in Seq(Chunk)
      BY ListStep DEF ListInv, TypeOK
    <3>3. \A n \in DOMAIN out' : n \in Nat \ {0}
      BY <3>2, LenProperties
    <3> QED
      BY <3>1, <3>3 DEF Counted
  <2> QED
    BY <1>1, <1>2, <2>1, <2>2, AccountsRest DEF Weigh, LastChunk
<1>3. CASE StartCurl
  <2>1. Tallied' = Tallied
    BY <1>3 DEF StartCurl, Tallied, cutVars
  <2>2. ReportInv'
    <3>1. report' = <<>> /\ DOMAIN <<>> = {}
      BY <1>3 DEF StartCurl
    <3> QED
      BY <3>1 DEF ReportInv
  <2> QED
    BY <1>1, <1>3, <2>1, <2>2, AccountsRest, SameCounted DEF StartCurl, cutVars
<1>4. CASE Abandon \/ Finish
  <2>1. Tallied' = Tallied
    BY <1>4 DEF Abandon, Finish, Tallied, cutVars
  <2> QED
    BY <1>1, <1>4, <2>1, AccountsRest, SameCounted DEF Abandon, Finish, cutVars
<1>5. ASSUME NEW k \in 0 .. N - 1, NEW good \in BOOLEAN, Transfer(k, good) PROVE CountInv'
  <2>1. Tallied' = Tallied
    BY <1>5 DEF Transfer, Tallied, cutVars
  <2>2. arrived \subseteq arrived' /\ arrived' \subseteq Nat
    BY <1>1, <1>5 DEF Transfer
  <2>3. ReportInv'
    BY <1>5, TransferReports
  <2> QED
    BY <1>5, <2>1, <2>2, <2>3, AccountsRest, SameCounted DEF Transfer, cutVars
<1>6. ASSUME NEW lines \in 0 .. Len(report), CurlExits(lines) PROVE CountInv'
  <2> DEFINE Line == [item : 0 .. N - 1, good : BOOLEAN]
  <2>1. report \in Seq(Line)
    BY DEF ListInv, TypeOK
  <2> HIDE DEF Line
  <2>2. Len(report) \in Nat /\ DOMAIN report = 1 .. Len(report)
    BY <2>1, LenProperties
  <2>3. \A n \in 1 .. lines : report[n] \in Line
    <3>1. \A n \in 1 .. lines : n \in 1 .. Len(report)
      BY <2>2
    <3> QED
      BY <2>1, <3>1, ElementOfSeq
  <2>4. /\ report' \in Seq(Line)
        /\ Len(report') = IF 1 <= lines THEN lines - 1 + 1 ELSE 0
        /\ \A n \in 1 .. lines - 1 + 1 : report'[n] = report[1 + n - 1]
    <3>1. report' = SubSeq(report, 1, lines)
      BY <1>6 DEF CurlExits
    <3>2. lines \in Int /\ 1 \in Int
      OBVIOUS
    <3> QED
      BY <2>3, <3>1, <3>2, SubSeqProperties
  <2>5. DOMAIN report' = 1 .. lines /\ \A n \in 1 .. lines : report'[n] = report[n]
    <3>1. DOMAIN report' = 1 .. Len(report')
      BY <2>4, LenProperties
    <3> QED
      BY <2>2, <2>4, <3>1
  <2>6. DOMAIN report' \subseteq DOMAIN report
    BY <2>2, <2>5
  <2>7. /\ Tallied' = Tallied /\ Slice' = Slice /\ \A n : Index(n)' = Index(n)
        /\ ReportInv /\ UNCHANGED arrived
    BY <1>6 DEF CurlExits, Tallied, Slice, Index, CountInv, cutVars
  <2>8. ReportInv'
    BY <2>5, <2>6, <2>7 DEF ReportInv
  <2> QED
    BY <1>1, <1>6, <2>7, <2>8, AccountsRest, SameCounted DEF CurlExits, cutVars
<1>7. CASE Tally
  BY <1>7, TallyCounts
<1>8. ASSUME NEW goOn \in BOOLEAN, Progress(goOn) PROVE CountInv'
  <2>1. Tallied' = Tallied
    <3>1. at' # 1 /\ at' - 1 = at
      BY <1>1, <1>8 DEF Progress
    <3> QED
      BY <1>8, <3>1 DEF Progress, Tallied, cutVars
  <2>2. \A n \in Counted' : n \in Counted /\ Items(n)' = Items(n)
    <3>1. \A n \in DOMAIN out : n \in Nat
      <4>1. out \in Seq(Chunk)
        BY DEF ListInv, TypeOK
      <4> QED
        BY <4>1, LenProperties
    <3> QED
      BY <1>1, <1>8, <3>1 DEF Progress, Counted, Items, cutVars
  <2> QED
    BY <1>1, <1>8, <2>1, <2>2, AccountsRest DEF Progress
<1>9. CASE UNCHANGED vars
  <2>1. UNCHANGED <<pc, out, at, arrived, report, ok, failed, failedIndexes>>
    BY <1>9 DEF vars, cutVars
  <2>2. Tallied' = Tallied /\ (ReportInv' <=> ReportInv)
    BY <2>1 DEF Tallied, ReportInv, Slice, Index
  <2> QED
    BY <1>1, <2>1, <2>2, AccountsRest, SameCounted DEF CountInv
<1> QED
  BY <1>2, <1>3, <1>4, <1>5, <1>6, <1>7, <1>8, <1>9 DEF Next, Terminated

\* So it is right throughout.
LEMMA CountSafe == Spec => []CountInv
<1>1. Init => CountInv
  <2> SUFFICES ASSUME Init PROVE CountInv
    OBVIOUS
  <2>1. Tallied = 0 /\ 0 .. Tallied - 1 = {}
    BY DEF Init, Tallied
  <2>2. Cardinality({}) = 0 /\ arrived \cap 0 .. Tallied - 1 = {}
    BY <2>1, FS_EmptySet
  <2>3. Counted = {}
    BY DEF Init, Counted
  <2> QED
    BY <2>1, <2>2, <2>3 DEF Init, CountInv, Accounted, FailuresLocal
<1> QED
  BY <1>1, CountStep, ListSafe, PTL DEF Spec

\* Whatever curl reports, leaves out or reports out of order, every item that
\* was tallied is counted once, the failures have as many indexes, and no more
\* is counted as fetched than arrived.
THEOREM EveryItemAccounted == Spec => []Accounted
<1>1. CountInv => Accounted
  BY DEF CountInv
<1> QED
  BY <1>1, CountSafe, PTL

\* The items of a tallied chunk that did not arrive are answered for by as many
\* indexes of that chunk, in whatever order curl reports or fails to.
THEOREM FailuresStayLocal == Spec => []FailuresLocal
<1>1. CountInv => FailuresLocal
  BY DEF CountInv
<1> QED
  BY <1>1, CountSafe, PTL

=============================================================================
