-------------------------- MODULE PlanBlocksProofs --------------------------
(***************************************************************************)
(* plan_blocks cuts every file, of any size and for any number of streams, *)
(* into blocks that cover it.                                              *)
(***************************************************************************)
EXTENDS PlanBlocks, SequenceTheorems, TLAPS

\* The loop's inductive invariant.
Inv == TypeOK /\ Contiguous /\ PastFirst

\* The length of a block is positive and fits the word.
LEMMA BlockForRange ==
  ASSUME NEW n \in Nat, NEW streams \in Counts, NEW forced \in Forces
  PROVE  BlockFor(n, streams, forced) \in Nat \ {0} /\ BlockFor(n, streams, forced) < Word
<1> USE PlanAssumption DEF PlanAssumption
<1>1. n \in Nat /\ streams \in Nat /\ forced \in Nat /\ forced < Word
  OBVIOUS
<1>2. \A m \in Int : Clamped(m) \in Nat \ {0} /\ Clamped(m) < Word
  BY DEF Clamped
<1>3. n \div ((IF streams > 1 THEN streams ELSE 1) * 4) \in Int
  <2>1. CASE streams > 1
    <3>1. streams * 4 \in Nat \ {0}
      BY <1>1, <2>1
    <3> QED
      BY <1>1, <2>1, <3>1
  <2>2. CASE ~ (streams > 1)
    BY <1>1, <2>2
  <2> QED
    BY <2>1, <2>2
<1> QED
  BY <1>1, <1>2, <1>3 DEF BlockFor

\* A turn of the loop keeps the blocks contiguous and the loop inside the file.
LEMMA CutKeepsInv == Inv /\ Cut => Inv'
<1> SUFFICES ASSUME Inv, Cut PROVE Inv'
  OBVIOUS
<1> DEFINE last == IF start + block - 1 < size - 1 THEN start + block - 1 ELSE size - 1
           cut == [start |-> start, end |-> last]
<1>1. /\ size' = size /\ block' = block /\ out' = Append(out, cut) /\ start' = last + 1
      /\ start < size
  BY DEF Cut
<1>2. size \in Nat \ {0} /\ 2 * size <= Word /\ block \in Nat \ {0} /\ block < Word /\ start \in Nat
  BY DEF Inv, TypeOK
<1>3. last \in Nat /\ start <= last /\ last < size /\ last - start < block
  BY <1>1, <1>2
<1>4. last + 1 = start + block \/ last + 1 = size
  BY <1>1, <1>2
<1>5. out \in Seq([start : Nat, end : Nat]) /\ cut \in [start : Nat, end : Nat]
  BY <1>2, <1>3 DEF Inv, TypeOK
<1>6. /\ Len(out') = Len(out) + 1 /\ Len(out) \in Nat
      /\ out'[Len(out) + 1] = cut
      /\ \A i \in 1 .. Len(out) : out'[i] = out[i]
  BY <1>1, <1>5
<1> HIDE DEF last
<1>7. TypeOK'
  BY <1>1, <1>2, <1>3, <1>5, <1>6 DEF TypeOK
<1>8. PastFirst'
  BY <1>1, <1>2, <1>3, <1>4 DEF PastFirst
<1>9. ASSUME NEW i \in 1 .. Len(out')
      PROVE  /\ out'[i].start <= out'[i].end
             /\ out'[i].end - out'[i].start < block'
             /\ out'[i].start = IF i = 1 THEN 0 ELSE out'[i - 1].end + 1
  <2>1. CASE i \in 1 .. Len(out)
    <3>1. i = 1 \/ i - 1 \in 1 .. Len(out)
      BY <2>1, <1>6
    <3> QED
      BY <2>1, <3>1, <1>1, <1>6 DEF Inv, Contiguous
  <2>2. CASE i = Len(out) + 1
    <3>1. start = IF out = <<>> THEN 0 ELSE out[Len(out)].end + 1
      BY DEF Inv, Contiguous
    <3>2. out = <<>> <=> i = 1
      BY <2>2, <1>5
    <3>3. i # 1 => i - 1 = Len(out) /\ out'[i - 1] = out[i - 1]
      BY <2>2, <1>6
    <3>4. out'[i].start = start /\ out'[i].end = last
      BY <2>2, <1>6
    <3> QED
      BY <3>1, <3>2, <3>3, <3>4, <1>1, <1>3
  <2> QED
    BY <2>1, <2>2, <1>6
<1>10. out' # <<>> /\ out'[Len(out')].end = last
  BY <1>6, <1>1, <1>5
<1>11. start' = (IF out' = <<>> THEN 0 ELSE out'[Len(out')].end + 1) /\ start' <= size'
  BY <1>10, <1>1, <1>2, <1>3
<1>12. Contiguous'
  BY <1>9, <1>11 DEF Contiguous
<1> QED
  BY <1>7, <1>8, <1>12 DEF Inv

\* What the invariant says of the cut.
LEMMA InvSays == Inv => TypeOK /\ Contiguous /\ Covered /\ NoOverflow
<1> SUFFICES ASSUME Inv PROVE TypeOK /\ Contiguous /\ Covered /\ NoOverflow
  OBVIOUS
<1>1. Covered
  <2> SUFFICES ASSUME start >= size
               PROVE  out # <<>> /\ out[Len(out)].end = size - 1
    BY DEF Covered
  <2>1. size \in Nat \ {0} /\ start = size
    BY DEF Inv, TypeOK, Contiguous
  <2>2. out # <<>>
    BY <2>1 DEF Inv, Contiguous
  <2>3. out[Len(out)].end \in Nat
    <3>1. Len(out) \in 1 .. Len(out)
      BY <2>2 DEF Inv, TypeOK
    <3>2. out \in Seq([start : Nat, end : Nat])
      BY DEF Inv, TypeOK
    <3>3. out[Len(out)] \in [start : Nat, end : Nat]
      BY <3>1, <3>2, ElementOfSeq
    <3> QED
      BY <3>3
  <2> QED
    BY <2>1, <2>2, <2>3 DEF Inv, Contiguous
<1>2. NoOverflow
  BY PlanAssumption DEF PlanAssumption, Inv, TypeOK, PastFirst, NoOverflow
<1> QED
  BY <1>1, <1>2 DEF Inv

\* For every size, number of streams and block length: the blocks are not
\* empty, follow one another without gap or overlap and end at the file's last
\* byte, and no sum the loop computes leaves the word.
THEOREM CoversTheFile == Spec => [](TypeOK /\ Contiguous /\ Covered /\ NoOverflow)
<1>1. Init => Inv
  <2> SUFFICES ASSUME Init PROVE Inv
    OBVIOUS
  <2>1. PICK n \in Sizes, streams \in Counts, forced \in Forces :
            size = n /\ block = BlockFor(n, streams, forced) /\ out = <<>> /\ start = 0
    BY DEF Init
  <2>2. size \in {k \in Nat \ {0} : 2 * k <= Word} /\ block \in Nat \ {0} /\ block < Word
    <3>1. n \in Nat
      BY PlanAssumption DEF PlanAssumption
    <3> QED
      BY <2>1, <3>1, BlockForRange, PlanAssumption DEF PlanAssumption
  <2> QED
    BY <2>1, <2>2 DEF Inv, TypeOK, Contiguous, PastFirst
<1>2. Inv /\ [Next]_vars => Inv'
  <2>1. Inv /\ UNCHANGED vars => Inv'
    BY DEF Inv, TypeOK, Contiguous, PastFirst, vars
  <2> QED
    BY <2>1, CutKeepsInv DEF Next, Over
<1> QED
  BY <1>1, <1>2, InvSays, PTL DEF Spec

\* Each block begins where the one before it ends, none is empty and none is
\* longer than asked for, at every turn of the loop.
THEOREM BlocksAdjoin == Spec => []Contiguous
<1> QED
  BY CoversTheFile, PTL

\* No sum the loop computes leaves the word.
THEOREM SumsFit == Spec => []NoOverflow
<1> QED
  BY CoversTheFile, PTL

=============================================================================
