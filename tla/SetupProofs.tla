---------------------------- MODULE SetupProofs ----------------------------
(***************************************************************************)
(* How a download is set up, whatever mirrors answer and however many      *)
(* there are, whatever the routing table lists and whatever is asked for.  *)
(***************************************************************************)
EXTENDS Setup, PlanBlocksProofs, FiniteSetTheorems

-----------------------------------------------------------------------------
(* Induction.  The library states it for an operator, which the provers do *)
(* not instantiate; for a set they do.  It follows from there being no     *)
(* infinite chain of ever smaller finite sets.                             *)

\* A set of numbers that is not empty has a least one.
LEMMA LeastNumber ==
  ASSUME NEW T \in SUBSET Nat, T # {}
  PROVE  \E n \in T : \A m \in T : n <= m
<1>1. PICK top \in T : TRUE
  OBVIOUS
<1> DEFINE S == 0 .. top
           R == StrictSubsetOrdering(S)
           U == {0 .. n : n \in {m \in T : m <= top}}
<1>2. IsFiniteSet(S) /\ top \in Nat
  BY <1>1, FS_Interval
<1>3. IsWellFoundedOn(R, SUBSET S)
  BY <1>2, FS_StrictSubsetOrderingWellFounded, FS_FiniteSubsetsOfFinite
<1>4. U \subseteq SUBSET S /\ U # {}
  BY <1>1, <1>2
<1>5. \E x \in U : \A y \in U : ~ (<<y, x>> \in R)
  BY <1>3, <1>4, WFMin
<1>6. PICK n \in T : n <= top /\ \A y \in U : ~ (<<y, 0 .. n>> \in R)
  BY <1>5
<1>7. ASSUME NEW m \in T, m < n PROVE FALSE
  <2>1. 0 .. m \in U /\ 0 .. n \in U
    BY <1>1, <1>6, <1>7
  <2>2. 0 .. m \subseteq 0 .. n /\ n \in 0 .. n /\ n \notin 0 .. m
    BY <1>7
  <2>3. <<0 .. m, 0 .. n>> \in R
    BY <1>4, <2>1, <2>2 DEF StrictSubsetOrdering
  <2> QED
    BY <1>6, <2>1, <2>3
<1> QED
  BY <1>6, <1>7

\* Induction, for the set of the numbers that have a property.
LEMMA Inductive ==
  ASSUME NEW S, 0 \in S, \A n \in Nat : n \in S => n + 1 \in S
  PROVE  Nat \subseteq S
<1> SUFFICES ASSUME Nat \ S # {} PROVE FALSE
  OBVIOUS
<1>1. PICK n \in Nat \ S : \A m \in Nat \ S : n <= m
  BY LeastNumber
<1>2. n # 0 /\ n - 1 \in Nat
  BY <1>1
<1>3. n - 1 \in S
  BY <1>1, <1>2
<1> QED
  BY <1>1, <1>2, <1>3

\* The same up to a number.
LEMMA InductiveUpto ==
  ASSUME NEW n \in Nat, NEW S, 0 \in S, \A k \in 1 .. n : k - 1 \in S => k \in S
  PROVE  n \in S
<1> DEFINE Q == {k \in Nat : k <= n => k \in S}
<1>1. 0 \in Q
  OBVIOUS
<1>2. ASSUME NEW k \in Nat, k \in Q PROVE k + 1 \in Q
  <2>1. k + 1 <= n => k + 1 \in 1 .. n /\ (k + 1) - 1 = k /\ k \in S
    BY <1>2
  <2> QED
    BY <2>1
<1>3. n \in Q
  <2> HIDE DEF Q
  <2> QED
    BY <1>1, <1>2, Inductive
<1> QED
  BY <1>3

\* A set of numbers that has a bound and is not empty has a largest one.
LEMMA GreatestNumber ==
  ASSUME NEW T \in SUBSET Nat, T # {}, NEW bound \in Nat, \A n \in T : n <= bound
  PROVE  Max(T) \in T /\ \A n \in T : n <= Max(T)
<1> DEFINE B == {u \in Nat : \A n \in T : n <= u}
<1>1. B \in SUBSET Nat /\ bound \in B
  OBVIOUS
<1>2. PICK u \in B : \A v \in B : u <= v
  <2> HIDE DEF B
  <2> QED
    BY <1>1, LeastNumber
<1>3. u \in T
  <2> SUFFICES ASSUME u \notin T PROVE FALSE
    OBVIOUS
  <2>1. PICK n \in T : TRUE
    OBVIOUS
  <2>2. u \in Nat /\ \A m \in T : m \in Nat /\ m < u
    BY <1>2
  <2>3. u - 1 \in B
    BY <2>1, <2>2
  <2> QED
    BY <1>2, <2>2, <2>3
<1>4. \A m \in T : u >= m
  BY <1>2
<1>5. Max(T) \in T /\ \A m \in T : Max(T) >= m
  BY <1>3, <1>4, Zenon DEF Max
<1> QED
  BY <1>5

\* g is what a loop of n turns computes, turn by turn, from a base.
Loop(g, n, D, base, step) ==
    /\ g \in [0 .. n -> D]
    /\ g[0] = base
    /\ \A k \in 1 .. n : g[k] = step[<<g[k - 1], k>>]

\* There is such a g: what a recursive function on 0 .. n is taken for granted to be.
LEMMA Iterates ==
  ASSUME NEW n \in Nat, NEW D, NEW base \in D, NEW step \in [D \X (1 .. n) -> D]
  PROVE  \E g : Loop(g, n, D, base, step)
<1> DEFINE Upto(m) == \E g : Loop(g, m, D, base, step)
           S == {m \in 0 .. n : Upto(m)}
<1>1. 0 \in S
  <2> DEFINE g == [k \in 0 .. 0 |-> base]
  <2>1. g \in [0 .. 0 -> D] /\ g[0] = base /\ 1 .. 0 = {}
    OBVIOUS
  <2>2. Loop(g, 0, D, base, step)
    BY <2>1 DEF Loop
  <2> HIDE DEF g
  <2> QED
    BY <2>2
<1>2. ASSUME NEW k \in 1 .. n, k - 1 \in S PROVE k \in S
  <2>1. PICK g : Loop(g, k - 1, D, base, step)
    BY <1>2
  <2> DEFINE h == [i \in 0 .. k |-> IF i = k THEN step[<<g[k - 1], k>>] ELSE g[i]]
  <2>2. step[<<g[k - 1], k>>] \in D
    BY <2>1 DEF Loop
  <2>3. h \in [0 .. k -> D] /\ h[0] = base
    BY <2>1, <2>2 DEF Loop
  <2>4. ASSUME NEW i \in 1 .. k PROVE h[i] = step[<<h[i - 1], i>>]
    <3>1. CASE i = k
      <4>1. h[i] = step[<<g[k - 1], k>>] /\ h[k - 1] = g[k - 1]
        BY <3>1
      <4> QED
        BY <3>1, <4>1
    <3>2. CASE i # k
      <4>1. i \in 1 .. k - 1 /\ i - 1 \in 0 .. k - 1
        BY <3>2
      <4>2. h[i] = g[i] /\ h[i - 1] = g[i - 1]
        BY <4>1
      <4> QED
        BY <2>1, <4>1, <4>2 DEF Loop
    <3> QED
      BY <3>1, <3>2
  <2> HIDE DEF h
  <2> QED
    BY <2>3, <2>4 DEF Loop
<1>3. n \in S
  <2> HIDE DEF S
  <2> QED
    BY <1>1, <1>2, InductiveUpto
<1> QED
  BY <1>3

-----------------------------------------------------------------------------
(* What the operators of the setup compute.                                *)

\* No item comes twice.
Distinct(items) == \A i, j \in DOMAIN items : items[i] = items[j] => i = j

\* Appending an item that is not there.
LEMMA AppendDistinct ==
  ASSUME NEW T, NEW s \in Seq(T), NEW e \in T
  PROVE  /\ Append(s, e) \in Seq(T)
         /\ ToSet(Append(s, e)) = ToSet(s) \cup {e}
         /\ Distinct(s) /\ e \notin ToSet(s) => Distinct(Append(s, e))
<1>1. /\ Append(s, e) \in Seq(T) /\ Len(s) \in Nat /\ DOMAIN s = 1 .. Len(s)
      /\ DOMAIN Append(s, e) = 1 .. Len(s) + 1
      /\ \A i \in 1 .. Len(s) : Append(s, e)[i] = s[i]
      /\ Append(s, e)[Len(s) + 1] = e
  BY AppendProperties
<1>2. 1 .. Len(s) + 1 = (1 .. Len(s)) \cup {Len(s) + 1}
  BY <1>1
<1>3. ToSet(Append(s, e)) = ToSet(s) \cup {e}
  BY <1>1, <1>2 DEF ToSet
<1>4. Distinct(s) /\ e \notin ToSet(s) => Distinct(Append(s, e))
  BY <1>1, <1>2 DEF Distinct, ToSet
<1> QED
  BY <1>1, <1>3, <1>4

\* What is kept of a sequence is what it has in common with the set, and
\* nothing comes twice that did not before.
LEMMA AmongKeeps ==
  ASSUME NEW T, NEW items \in Seq(T), NEW set
  PROVE  /\ Among(items, set) \in Seq(T)
         /\ ToSet(Among(items, set)) = ToSet(items) \cap set
         /\ Distinct(items) => Distinct(Among(items, set))
<1> DEFINE n == Len(items)
           Turn(s, k) == IF items[k] \in set THEN Append(s, items[k]) ELSE s
           step == [p \in Seq(T) \X (1 .. n) |-> Turn(p[1], p[2])]
           kept == CHOOSE g : g = [k \in 0 .. n |->
                                     IF k = 0 THEN <<>>
                                     ELSE IF items[k] \in set THEN Append(g[k - 1], items[k])
                                     ELSE g[k - 1]]
<1>1. /\ n \in Nat /\ DOMAIN items = 1 .. n /\ <<>> \in Seq(T)
      /\ \A k \in 1 .. n : items[k] \in T
  OBVIOUS
<1>2. step \in [Seq(T) \X (1 .. n) -> Seq(T)]
  BY <1>1, AppendDistinct
<1>3. PICK g : Loop(g, n, Seq(T), <<>>, step)
  <2> HIDE DEF n, step
  <2> QED
    BY <1>1, <1>2, Iterates
<1>4. ASSUME NEW k \in 1 .. n PROVE g[k] = Turn(g[k - 1], k)
  <2>1. k - 1 \in 0 .. n /\ g[k - 1] \in Seq(T)
    BY <1>1, <1>3 DEF Loop
  <2>2. <<g[k - 1], k>> \in Seq(T) \X (1 .. n)
    BY <2>1
  <2> QED
    BY <1>3, <2>2 DEF Loop
<1>5. g = [k \in 0 .. n |-> IF k = 0 THEN <<>>
                            ELSE IF items[k] \in set THEN Append(g[k - 1], items[k])
                            ELSE g[k - 1]]
  <2>1. \A k \in 0 .. n : k # 0 => k \in 1 .. n
    BY <1>1
  <2>2. \A k \in 0 .. n : g[k] = IF k = 0 THEN <<>>
                                 ELSE IF items[k] \in set THEN Append(g[k - 1], items[k])
                                 ELSE g[k - 1]
    BY <1>3, <1>4, <2>1 DEF Loop
  <2> HIDE DEF n, step
  <2> QED
    BY <1>3, <2>2 DEF Loop
<1>6. kept = [k \in 0 .. n |-> IF k = 0 THEN <<>>
                              ELSE IF items[k] \in set THEN Append(kept[k - 1], items[k])
                              ELSE kept[k - 1]]
  BY <1>5
<1>7. Among(items, set) = kept[n]
  BY DEF Among
<1>8. kept[0] = <<>> /\ \A k \in 1 .. n : kept[k] = Turn(kept[k - 1], k)
  <2> HIDE DEF kept, n
  <2>1. \A k \in 0 .. n : kept[k] = IF k = 0 THEN <<>>
                                    ELSE IF items[k] \in set THEN Append(kept[k - 1], items[k])
                                    ELSE kept[k - 1]
    BY <1>6, Zenon
  <2>2. 0 \in 0 .. n /\ \A k \in 1 .. n : k \in 0 .. n /\ k # 0
    BY <1>1
  <2> QED
    BY <2>1, <2>2
<1> HIDE DEF kept, n
<1> DEFINE Seen(k) == {items[i] : i \in 1 .. k}
           P(k) == /\ kept[k] \in Seq(T)
                   /\ ToSet(kept[k]) = Seen(k) \cap set
                   /\ Distinct(items) => Distinct(kept[k])
           S == {k \in 0 .. n : P(k)}
<1>9. 0 \in S
  <2>1. Seen(0) = {} /\ ToSet(<<>>) = {} /\ Distinct(<<>>)
    BY DEF ToSet, Distinct
  <2>2. P(0)
    BY <1>1, <1>8, <2>1
  <2> HIDE DEF P
  <2> QED
    BY <1>1, <2>2
<1>10. ASSUME NEW k \in 1 .. n, k - 1 \in S PROVE k \in S
  <2> SUFFICES P(k)
    OBVIOUS
  <2>1. P(k - 1)
    BY <1>10
  <2>2. kept[k] = Turn(kept[k - 1], k) /\ items[k] \in T
    BY <1>1, <1>8
  <2>3. Seen(k) = Seen(k - 1) \cup {items[k]}
    <3>1. 1 .. k = (1 .. k - 1) \cup {k}
      OBVIOUS
    <3> QED
      BY <3>1
  <2>4. Distinct(items) => items[k] \notin Seen(k - 1)
    BY <1>1 DEF Distinct
  <2> HIDE DEF Seen
  <2>5. CASE items[k] \in set
    <3>1. /\ Append(kept[k - 1], items[k]) \in Seq(T)
          /\ ToSet(Append(kept[k - 1], items[k])) = ToSet(kept[k - 1]) \cup {items[k]}
          /\ Distinct(kept[k - 1]) /\ items[k] \notin ToSet(kept[k - 1])
                => Distinct(Append(kept[k - 1], items[k]))
      BY <2>1, <2>2, AppendDistinct
    <3> QED
      BY <2>1, <2>2, <2>3, <2>4, <2>5, <3>1
  <2>6. CASE items[k] \notin set
    BY <2>1, <2>2, <2>3, <2>6
  <2> QED
    BY <2>5, <2>6
<1>11. n \in S
  <2> HIDE DEF S
  <2> QED
    BY <1>1, <1>9, <1>10, InductiveUpto
<1>12. Seen(n) = ToSet(items)
  BY <1>1 DEF ToSet
<1> QED
  BY <1>1, <1>7, <1>11, <1>12

\* The routing table's interfaces come once each.
LEMMA RoutedOnce ==
  ASSUME NEW routes \in Seq(Interfaces)
  PROVE  Routed(routes) \in Seq(Interfaces) /\ Distinct(Routed(routes))
<1> DEFINE n == Len(routes)
           D == {s \in Seq(Interfaces) : Distinct(s)}
           step == [p \in D \X (1 .. n) |-> AddRoute(p[1], routes[p[2]])]
           found == CHOOSE g : g = [k \in 0 .. n |->
                                      IF k = 0 THEN <<>> ELSE AddRoute(g[k - 1], routes[k])]
<1>1. n \in Nat /\ <<>> \in D /\ \A k \in 1 .. n : routes[k] \in Interfaces
  BY DEF Distinct
<1>2. ASSUME NEW s \in D, NEW k \in 1 .. n PROVE AddRoute(s, routes[k]) \in D
  BY <1>1, AppendDistinct DEF AddRoute
<1>3. step \in [D \X (1 .. n) -> D]
  BY <1>2
<1>4. PICK g : Loop(g, n, D, <<>>, step)
  <2> HIDE DEF n, step, D
  <2> QED
    BY <1>1, <1>3, Iterates
<1>5. ASSUME NEW k \in 1 .. n PROVE g[k] = AddRoute(g[k - 1], routes[k])
  <2>1. k - 1 \in 0 .. n /\ g[k - 1] \in D
    BY <1>1, <1>4 DEF Loop
  <2>2. <<g[k - 1], k>> \in D \X (1 .. n)
    BY <2>1
  <2> QED
    BY <1>4, <2>2 DEF Loop
<1>6. g = [k \in 0 .. n |-> IF k = 0 THEN <<>> ELSE AddRoute(g[k - 1], routes[k])]
  <2>1. \A k \in 0 .. n : k # 0 => k \in 1 .. n
    BY <1>1
  <2>2. \A k \in 0 .. n : g[k] = IF k = 0 THEN <<>> ELSE AddRoute(g[k - 1], routes[k])
    BY <1>4, <1>5, <2>1 DEF Loop
  <2> HIDE DEF n, step, D
  <2> QED
    BY <1>4, <2>2 DEF Loop
<1>7. found = [k \in 0 .. n |-> IF k = 0 THEN <<>> ELSE AddRoute(found[k - 1], routes[k])]
  BY <1>6
<1>8. Routed(routes) = found[n]
  BY DEF Routed
<1> HIDE DEF found
<1>9. found[0] = <<>> /\ \A k \in 1 .. n : found[k] = AddRoute(found[k - 1], routes[k])
  <2> HIDE DEF n
  <2>1. \A k \in 0 .. n : found[k] = IF k = 0 THEN <<>> ELSE AddRoute(found[k - 1], routes[k])
    BY <1>7, Zenon
  <2>2. 0 \in 0 .. n /\ \A k \in 1 .. n : k \in 0 .. n /\ k # 0
    BY <1>1
  <2> QED
    BY <2>1, <2>2
<1> DEFINE S == {k \in 0 .. n : found[k] \in D}
<1>10. n \in S
  <2> HIDE DEF D, n
  <2>1. 0 \in S
    BY <1>1, <1>9
  <2>2. ASSUME NEW k \in 1 .. n, k - 1 \in S PROVE k \in S
    <3>1. found[k] \in D
      BY <1>2, <1>9, <2>2
    <3> QED
      BY <1>1, <3>1
  <2> HIDE DEF S
  <2> QED
    BY <1>1, <2>1, <2>2, InductiveUpto
<1> QED
  BY <1>8, <1>10

\* The interfaces that are usable are names, and come once each.
LEMMA UsableOnce ==
  ASSUME NEW routes \in Seq(Interfaces)
  PROVE  Usable(routes) \in Seq(Interfaces) /\ Distinct(Usable(routes))
BY RoutedOnce, AmongKeeps DEF Usable

-----------------------------------------------------------------------------
(* What a probe learns.                                                    *)

\* The lines of an answer that parse looks at, and what it makes of them.
Numbers == 0 .. Word - 1
Lines == {ContentRange(v) : v \in Numbers \cup {NoNumber}} \cup {ContentLength(v) : v \in Numbers}
Parsed == [size : Numbers, ranges : BOOLEAN]

\* A Content-Range with a total.
Ranged(line) == line.name = "content-range" /\ line.value # NoNumber

\* Only the server that has the file in ranges gives the size of it in one, and
\* one that cannot satisfy a range has nothing to send after it.
Honest(a) ==
    /\ a \in [head : Seq(Lines), serves : Numbers]
    /\ \A k \in DOMAIN a.head : Ranged(a.head[k]) =>
          /\ a.head[k].value = a.serves
          /\ a.serves = 0 => \A j \in DOMAIN a.head : j > k => a.head[j].value = 0

\* parse goes over the lines in their order.
LEMMA ParseTurns ==
  ASSUME NEW head \in Seq(Lines)
  PROVE  \E parsed : /\ parsed[0] = [size |-> 0, ranges |-> FALSE]
                     /\ \A k \in 1 .. Len(head) : parsed[k] = ParseLine(parsed[k - 1], head[k])
                     /\ \A k \in 0 .. Len(head) : parsed[k] \in Parsed
                     /\ Parse(head) = parsed[Len(head)]
<1> DEFINE n == Len(head)
           base == [size |-> 0, ranges |-> FALSE]
           step == [p \in Parsed \X (1 .. n) |-> ParseLine(p[1], head[p[2]])]
           parsed == CHOOSE g : g = [k \in 0 .. n |->
                                       IF k = 0 THEN base ELSE ParseLine(g[k - 1], head[k])]
<1>1. n \in Nat /\ \A k \in 1 .. n : head[k] \in Lines
  OBVIOUS
<1>2. base \in Parsed
  BY PlanAssumption DEF PlanAssumption, Parsed, Numbers
<1>3. ASSUME NEW p \in Parsed, NEW k \in 1 .. n PROVE ParseLine(p, head[k]) \in Parsed
  <2>1. head[k].value \in Numbers \cup {NoNumber}
    BY <1>1 DEF Lines, ContentRange, ContentLength
  <2>2. head[k].name = "content-length" => head[k].value \in Numbers
    BY <1>1 DEF Lines, ContentRange, ContentLength
  <2> QED
    BY <2>1, <2>2 DEF ParseLine, Parsed
<1>4. step \in [Parsed \X (1 .. n) -> Parsed]
  BY <1>3
<1>5. PICK g : Loop(g, n, Parsed, base, step)
  <2> HIDE DEF n, step, base
  <2> QED
    BY <1>1, <1>2, <1>4, Iterates
<1> HIDE DEF base
<1>6. ASSUME NEW k \in 1 .. n PROVE g[k] = ParseLine(g[k - 1], head[k])
  <2>1. k - 1 \in 0 .. n /\ g[k - 1] \in Parsed
    BY <1>1, <1>5 DEF Loop
  <2>2. <<g[k - 1], k>> \in Parsed \X (1 .. n)
    BY <2>1
  <2> QED
    BY <1>5, <2>2 DEF Loop
<1>7. g = [k \in 0 .. n |-> IF k = 0 THEN base ELSE ParseLine(g[k - 1], head[k])]
  <2>1. \A k \in 0 .. n : k # 0 => k \in 1 .. n
    BY <1>1
  <2>2. \A k \in 0 .. n : g[k] = IF k = 0 THEN base ELSE ParseLine(g[k - 1], head[k])
    BY <1>5, <1>6, <2>1 DEF Loop
  <2> HIDE DEF n, step
  <2> QED
    BY <1>5, <2>2 DEF Loop
<1>8. parsed = [k \in 0 .. n |-> IF k = 0 THEN base ELSE ParseLine(parsed[k - 1], head[k])]
  BY <1>7
<1>9. Parse(head) = parsed[n]
  BY DEF Parse, base
<1> HIDE DEF parsed
<1>10. parsed[0] = base /\ \A k \in 1 .. n : parsed[k] = ParseLine(parsed[k - 1], head[k])
  <2> HIDE DEF n
  <2>1. \A k \in 0 .. n : parsed[k] = IF k = 0 THEN base ELSE ParseLine(parsed[k - 1], head[k])
    BY <1>8, Zenon
  <2>2. 0 \in 0 .. n /\ \A k \in 1 .. n : k \in 0 .. n /\ k # 0
    BY <1>1
  <2> QED
    BY <2>1, <2>2
<1>11. ASSUME NEW m \in 0 .. n PROVE parsed[m] \in Parsed
  <2> DEFINE S == {k \in 0 .. n : parsed[k] \in Parsed}
  <2> HIDE DEF n
  <2>1. 0 \in S
    BY <1>1, <1>2, <1>10
  <2>2. ASSUME NEW k \in 1 .. m, k - 1 \in S PROVE k \in S
    <3>1. k \in 1 .. n /\ m \in Nat
      BY <1>1, <2>2
    <3>2. parsed[k] \in Parsed
      BY <1>3, <1>10, <2>2, <3>1
    <3> QED
      BY <1>1, <3>1, <3>2
  <2>3. m \in S
    <3>1. m \in Nat
      BY <1>1
    <3> HIDE DEF S
    <3> QED
      BY <2>1, <2>2, <3>1, InductiveUpto
  <2> QED
    BY <2>3
<1> QED
  BY <1>9, <1>10, <1>11 DEF base

\* Every answer a mirror may give is honest.
LEMMA DirectHonest == ASSUME NEW a \in Direct PROVE Honest(a)
<1>1. 0 \in Numbers /\ 1 \in Numbers /\ \A n \in Sizes \cup (Others \ {0}) : n \in Numbers /\ n # 0
  BY PlanAssumption, SetupAssumption DEF PlanAssumption, SetupAssumption, Numbers
<1>2. \A v \in Numbers \cup {NoNumber} : ContentRange(v) \in Lines
  BY DEF Lines
<1>3. \A v \in Numbers : ContentLength(v) \in Lines
  BY DEF Lines
<1>4. \A v : /\ Ranged(ContentRange(v)) <=> v # NoNumber
             /\ ~ Ranged(ContentLength(v))
             /\ ContentRange(v).value = v /\ ContentLength(v).value = v
  BY DEF Ranged, ContentRange, ContentLength
<1>5. \A v, w : /\ DOMAIN <<ContentRange(v), ContentLength(w)>> = {1, 2}
                /\ <<ContentRange(v), ContentLength(w)>>[1] = ContentRange(v)
                /\ <<ContentRange(v), ContentLength(w)>>[2] = ContentLength(w)
  OBVIOUS
<1>6. ASSUME NEW v \in Numbers \cup {NoNumber}, NEW w \in Numbers
      PROVE  <<ContentRange(v), ContentLength(w)>> \in Seq(Lines)
  BY <1>2, <1>3
<1>7. ASSUME NEW n \in Sizes \cup (Others \ {0}), a = PartOf(n) PROVE Honest(a)
  BY <1>1, <1>4, <1>5, <1>6, <1>7 DEF Honest, PartOf
<1>8. ASSUME NEW n \in Sizes \cup (Others \ {0}), a = PartOfSome(n) PROVE Honest(a)
  BY <1>1, <1>4, <1>5, <1>6, <1>8 DEF Honest, PartOfSome
<1>9. ASSUME NEW n \in Sizes \cup (Others \ {0}), a = WholeOf(n) PROVE Honest(a)
  <2>1. /\ a.head = <<ContentLength(n)>>
        /\ a \in [head : Seq(Lines), serves : Numbers]
    BY <1>1, <1>3, <1>9 DEF WholeOf
  <2>2. \A k \in DOMAIN a.head : a.head[k] = ContentLength(n)
    BY <2>1
  <2> QED
    BY <1>4, <2>1, <2>2 DEF Honest
<1>10. CASE a = NoSuchRange
  BY <1>1, <1>4, <1>5, <1>6, <1>10 DEF Honest, NoSuchRange
<1>11. CASE a = Silence
  BY <1>1, <1>11 DEF Honest, Silence
<1>12. \/ \E n \in Sizes \cup (Others \ {0}) : a \in {PartOf(n), PartOfSome(n), WholeOf(n)}
       \/ a \in {NoSuchRange, Silence}
  <2>1. CASE a \in UNION {{PartOf(n), PartOfSome(n), WholeOf(n)} : n \in Sizes \cup (Others \ {0})}
    <3>1. PICK s \in {{PartOf(n), PartOfSome(n), WholeOf(n)} : n \in Sizes \cup (Others \ {0})} : a \in s
      BY <2>1
    <3> QED
      BY <3>1
  <2> QED
    BY <2>1 DEF Direct
<1> QED
  BY <1>7, <1>8, <1>9, <1>10, <1>11, <1>12

\* What any server sends is such an answer.
LEMMA AnswersHonest == ASSUME NEW a \in Direct \cup Redirected PROVE Honest(a)
<1>1. CASE a \in Direct
  BY <1>1, DirectHonest
<1>2. CASE a \in Redirected
  <2>1. PICK d \in Direct, n \in Others : a = [d EXCEPT !.head = <<ContentLength(n)>> \o @]
    BY <1>2 DEF Redirected
  <2>2. Honest(d)
    BY DirectHonest
  <2>3. a.head = <<ContentLength(n)>> \o d.head /\ a.serves = d.serves
    <3> DEFINE h == <<ContentLength(n)>> \o d.head
    <3>1. a = [d EXCEPT !.head = h] /\ d \in [head : Seq(Lines), serves : Numbers]
      BY <2>1, <2>2 DEF Honest
    <3> HIDE DEF h
    <3>2. a.head = h /\ a.serves = d.serves
      BY <3>1
    <3> QED
      BY <3>2 DEF h
  <2>4. <<ContentLength(n)>> \in Seq(Lines) /\ Len(<<ContentLength(n)>>) = 1
    BY SetupAssumption, PlanAssumption DEF SetupAssumption, PlanAssumption, Lines, Numbers
  <2>5. /\ a \in [head : Seq(Lines), serves : Numbers] /\ d.head \in Seq(Lines)
        /\ DOMAIN a.head = 1 .. Len(d.head) + 1
        /\ a.head[1] = ContentLength(n)
        /\ \A k \in 2 .. Len(d.head) + 1 : a.head[k] = d.head[k - 1]
    <3>1. d \in [head : Seq(Lines), serves : Numbers]
      BY <2>2 DEF Honest
    <3>2. /\ a.head \in Seq(Lines)
          /\ Len(a.head) = 1 + Len(d.head)
          /\ a.head[1] = ContentLength(n)
          /\ \A k \in 2 .. Len(d.head) + 1 : a.head[k] = d.head[k - 1]
      BY <2>3, <2>4, <3>1, ConcatProperties
    <3>3. a = [head |-> a.head, serves |-> d.serves]
      BY <2>1, <3>1
    <3> QED
      BY <3>1, <3>2, <3>3
  <2>6. ~ Ranged(a.head[1])
    BY <2>5 DEF Ranged, ContentLength
  <2>7. ASSUME NEW k \in DOMAIN a.head, Ranged(a.head[k])
        PROVE  /\ a.head[k].value = a.serves
               /\ a.serves = 0 => \A j \in DOMAIN a.head : j > k => a.head[j].value = 0
    <3>1. k - 1 \in DOMAIN d.head /\ a.head[k] = d.head[k - 1]
      BY <2>5, <2>6, <2>7
    <3>2. \A j \in DOMAIN a.head : j > k => /\ j - 1 \in DOMAIN d.head /\ j - 1 > k - 1
                                            /\ a.head[j] = d.head[j - 1]
      BY <2>5, <3>1
    <3> QED
      BY <2>2, <2>3, <2>7, <3>1, <3>2 DEF Honest
  <2> QED
    BY <2>5, <2>7 DEF Honest
<1> QED
  BY <1>1, <1>2

\* A probe says a server does ranges only of the size it serves in ranges, and
\* never misses it when a server says so.
LEMMA ProbeTells ==
  ASSUME NEW a, Honest(a)
  PROVE  /\ Parse(a.head) \in Parsed
         /\ Parse(a.head).ranges => Parse(a.head).size = a.serves
         /\ (\E k \in DOMAIN a.head : Ranged(a.head[k])) => Parse(a.head).ranges
<1> DEFINE head == a.head
           n == Len(head)
           Met(k) == \E j \in 1 .. k : Ranged(head[j])
<1>1. head \in Seq(Lines) /\ n \in Nat /\ DOMAIN head = 1 .. n
  BY DEF Honest
<1>2. PICK parsed : /\ parsed[0] = [size |-> 0, ranges |-> FALSE]
                    /\ \A k \in 1 .. n : parsed[k] = ParseLine(parsed[k - 1], head[k])
                    /\ \A k \in 0 .. n : parsed[k] \in Parsed
                    /\ Parse(head) = parsed[n]
  BY <1>1, ParseTurns
<1> DEFINE P(k) == /\ parsed[k].ranges <=> Met(k)
                   /\ parsed[k].ranges => parsed[k].size = a.serves
           S == {k \in 0 .. n : P(k)}
<1>3. 0 \in S
  BY <1>1, <1>2
<1>4. ASSUME NEW k \in 1 .. n, k - 1 \in S PROVE k \in S
  <2>1. /\ P(k - 1) /\ parsed[k - 1] \in Parsed /\ head[k] \in Lines /\ k \in DOMAIN head
        /\ parsed[k] = ParseLine(parsed[k - 1], head[k])
    BY <1>1, <1>2, <1>4
  <2>2. Met(k) <=> Met(k - 1) \/ Ranged(head[k])
    <3>1. 1 .. k = (1 .. k - 1) \cup {k}
      OBVIOUS
    <3> QED
      BY <3>1
  <2>3. CASE Ranged(head[k])
    <3>1. parsed[k] = [size |-> head[k].value, ranges |-> TRUE] /\ head[k].value = a.serves
      BY <2>1, <2>3 DEF ParseLine, Ranged, Honest
    <3> QED
      BY <2>2, <2>3, <3>1
  <2>4. CASE ~ Ranged(head[k])
    <3>1. /\ parsed[k].ranges <=> parsed[k - 1].ranges
          /\ \/ parsed[k].size = parsed[k - 1].size
             \/ parsed[k - 1].size = 0 /\ parsed[k].size = head[k].value
      <4>1. CASE head[k].name = "content-length" /\ parsed[k - 1].size = 0
        <5>1. parsed[k] = [parsed[k - 1] EXCEPT !.size = head[k].value]
          BY <2>1, <2>4, <4>1 DEF ParseLine, Ranged
        <5> QED
          BY <2>1, <4>1, <5>1 DEF Parsed
      <4>2. CASE ~ (head[k].name = "content-length" /\ parsed[k - 1].size = 0)
        <5>1. parsed[k] = parsed[k - 1]
          BY <2>1, <2>4, <4>2 DEF ParseLine, Ranged
        <5> QED
          BY <5>1
      <4> QED
        BY <4>1, <4>2
    <3>2. parsed[k - 1].ranges /\ a.serves = 0 => head[k].value = 0
      <4> SUFFICES ASSUME Met(k - 1), a.serves = 0 PROVE head[k].value = 0
        BY <2>1
      <4>1. PICK j \in 1 .. k - 1 : Ranged(head[j])
        OBVIOUS
      <4>2. j \in DOMAIN head /\ k > j
        BY <1>1
      <4> QED
        BY <2>1, <4>1, <4>2 DEF Honest
    <3> QED
      BY <2>1, <2>2, <2>4, <3>1, <3>2
  <2> QED
    BY <2>3, <2>4
<1>5. n \in S
  <2> HIDE DEF S, n
  <2> QED
    BY <1>1, <1>3, <1>4, InductiveUpto
<1> QED
  BY <1>1, <1>2, <1>5

-----------------------------------------------------------------------------
(* Rounds over the lanes.                                                  *)

\* Quotient and remainder.
LEMMA Division ==
  ASSUME NEW a \in Nat, NEW l \in Nat \ {0}
  PROVE  /\ a \div l \in Nat
         /\ a % l \in 0 .. l - 1
         /\ a = l * (a \div l) + (a % l)
<1>1. a \div l \in Nat /\ l * (a \div l) <= a /\ a < l * (a \div l) + l
  OBVIOUS
<1>2. a % l \in 0 .. l - 1
  OBVIOUS
<1>3. a = l * (a \div l) + (a % l)
  OBVIOUS
<1> QED
  BY <1>1, <1>2, <1>3

\* A number is divided in one way only.
LEMMA DivisionOnce ==
  ASSUME NEW l \in Nat \ {0}, NEW q \in Nat, NEW r \in 0 .. l - 1
  PROVE  (l * q + r) \div l = q /\ (l * q + r) % l = r
<1> DEFINE a == l * q + r
           p == a \div l
           s == a % l
<1>1. a \in Nat
  <2>1. l * q \in Nat
    OBVIOUS
  <2> QED
    BY <2>1
<1>2. p \in Nat /\ s \in 0 .. l - 1 /\ a = l * p + s
  <2> HIDE DEF a
  <2> QED
    BY <1>1, Division
<1>3. l * q + r = l * p + s
  BY <1>2
<1> HIDE DEF a, p, s
<1>4. p = q
  <2>1. ASSUME NEW x \in Nat, NEW y \in Nat, NEW u \in 0 .. l - 1, NEW v \in 0 .. l - 1,
               x > y, l * x + u = l * y + v
        PROVE  FALSE
    <3>1. PICK d \in Nat : x = (y + 1) + d
      BY <2>1
    <3>2. l * x = l * y + l + l * d /\ l * d \in Nat /\ l * y \in Nat
      BY <3>1
    <3> QED
      BY <2>1, <3>2
  <2>2. ~ (p > q) /\ ~ (q > p)
    BY <1>2, <1>3, <2>1
  <2> QED
    BY <1>2, <2>2
<1>5. s = r
  <2>1. l * q \in Nat
    OBVIOUS
  <2> QED
    BY <1>2, <1>3, <1>4, <2>1
<1> QED
  BY <1>4, <1>5 DEF a, p, s

\* In n rounds of l there are fewer than n whole ones before any of them.
LEMMA QuotientBelow ==
  ASSUME NEW l \in Nat \ {0}, NEW n \in Nat, NEW a \in Nat, a < n * l
  PROVE  a \div l < n
<1> DEFINE p == a \div l
           r == a % l
<1>1. p \in Nat /\ r \in 0 .. l - 1 /\ a = l * p + r
  BY Division
<1> SUFFICES ASSUME p >= n PROVE FALSE
  BY <1>1
<1> HIDE DEF p, r
<1>2. PICK d \in Nat : p = n + d
  BY <1>1
<1>3. l * p = n * l + l * d /\ l * d \in Nat /\ n * l \in Nat
  BY <1>2
<1> DEFINE ld == l * d
           nl == n * l
<1>4. ld \in Nat /\ nl \in Nat /\ a = nl + ld + r /\ a < nl
  BY <1>1, <1>3
<1> HIDE DEF ld, nl
<1> QED
  BY <1>1, <1>4

\* The number of a pair among those of s things by m gives both back.
LEMMA PairOf ==
  ASSUME NEW s \in Nat \ {0}, NEW m \in Nat \ {0}, NEW k \in 1 .. s * m
  PROVE  /\ ((k - 1) \div m) + 1 \in 1 .. s
         /\ ((k - 1) % m) + 1 \in 1 .. m
         /\ k = m * ((k - 1) \div m) + ((k - 1) % m) + 1
<1> DEFINE a == k - 1
           q == a \div m
           r == a % m
           mq == m * q
<1>1. a \in Nat /\ a < s * m /\ k = a + 1
  <2>1. s * m \in Nat
    OBVIOUS
  <2> QED
    BY <2>1
<1> HIDE DEF a
<1>2. q \in Nat /\ r \in 0 .. m - 1 /\ a = mq + r
  BY <1>1, Division
<1>3. q < s
  BY <1>1, QuotientBelow
<1>4. mq \in Nat
  BY <1>2
<1> HIDE DEF q, r, mq
<1>5. q + 1 \in 1 .. s /\ r + 1 \in 1 .. m /\ k = mq + r + 1
  BY <1>1, <1>2, <1>3, <1>4
<1> QED
  BY <1>5 DEF a, q, r, mq

\* Things put together in pairs, every pair of places at one place.
Paired(made, src, nets, all, f, g) ==
    /\ all \in Nat \ {0}
    /\ f \in [1 .. all -> 1 .. Len(src)]
    /\ g \in [1 .. all -> 1 .. Len(nets)]
    /\ \A i, k \in 1 .. all : f[i] = f[k] /\ g[i] = g[k] => i = k
    /\ made = [k \in 1 .. all |-> [source |-> src[f[k]], net |-> nets[g[k]]]]

\* They are pairs of the right kind, and all different.
LEMMA PairUp ==
  ASSUME NEW T, NEW src \in Seq(Nat), NEW nets \in Seq(T),
         NEW made, NEW all, NEW f, NEW g, Paired(made, src, nets, all, f, g)
  PROVE  /\ made \in Seq([source : ToSet(src), net : T])
         /\ made # <<>>
         /\ Distinct(src) /\ Distinct(nets) => Distinct(made)
<1> USE DEF Paired
<1>1. /\ \A k \in 1 .. Len(nets) : nets[k] \in T
      /\ \A k \in 1 .. Len(src) : src[k] \in ToSet(src)
      /\ DOMAIN src = 1 .. Len(src) /\ DOMAIN nets = 1 .. Len(nets)
  BY DEF ToSet
<1>2. made \in [1 .. all -> [source : ToSet(src), net : T]]
  BY <1>1
<1>3. made \in Seq([source : ToSet(src), net : T]) /\ DOMAIN made = 1 .. all
  BY <1>2, IsASeq
<1>4. 1 \in DOMAIN made /\ DOMAIN <<>> = {}
  BY <1>3
<1>5. ASSUME Distinct(src), Distinct(nets), NEW i \in 1 .. all, NEW k \in 1 .. all,
             made[i] = made[k]
      PROVE  i = k
  <2>1. src[f[i]] = src[f[k]] /\ nets[g[i]] = nets[g[k]]
    BY <1>5
  <2>2. f[i] = f[k] /\ g[i] = g[k]
    BY <1>1, <1>5, <2>1 DEF Distinct
  <2> QED
    BY <2>2
<1>6. Distinct(src) /\ Distinct(nets) => Distinct(made)
  <2> SUFFICES ASSUME Distinct(src), Distinct(nets), NEW i \in DOMAIN made, NEW k \in DOMAIN made,
                      made[i] = made[k]
               PROVE  i = k
    BY DEF Distinct
  <2>1. i \in 1 .. all /\ k \in 1 .. all
    BY <1>3
  <2> QED
    BY <1>5, <2>1
<1> QED
  BY <1>3, <1>4, <1>6

\* Mirrors by interfaces.
LEMMA Pairs ==
  ASSUME NEW T, NEW src \in Seq(Nat), src # <<>>, NEW nets \in Seq(T), nets # <<>>
  PROVE  LET made == [k \in 1 .. Len(src) * Len(nets) |->
                         [source |-> src[((k - 1) \div Len(nets)) + 1],
                          net    |-> nets[((k - 1) % Len(nets)) + 1]]]
         IN  /\ made \in Seq([source : ToSet(src), net : T])
             /\ made # <<>>
             /\ Distinct(src) /\ Distinct(nets) => Distinct(made)
<1> DEFINE s == Len(src)
           m == Len(nets)
           all == s * m
           f == [k \in 1 .. all |-> ((k - 1) \div m) + 1]
           g == [k \in 1 .. all |-> ((k - 1) % m) + 1]
           made == [k \in 1 .. all |-> [source |-> src[((k - 1) \div m) + 1],
                                        net    |-> nets[((k - 1) % m) + 1]]]
<1>1. s \in Nat \ {0} /\ m \in Nat \ {0}
  OBVIOUS
<1>2. made = [k \in 1 .. all |-> [source |-> src[f[k]], net |-> nets[g[k]]]]
  OBVIOUS
<1> HIDE DEF s, m
<1>3. all \in Nat \ {0}
  BY <1>1
<1>4. f \in [1 .. all -> 1 .. s] /\ g \in [1 .. all -> 1 .. m]
  BY <1>1, PairOf
<1>5. ASSUME NEW i \in 1 .. all, NEW k \in 1 .. all, f[i] = f[k], g[i] = g[k] PROVE i = k
  <2>1. /\ ((i - 1) \div m) + 1 \in 1 .. s /\ ((k - 1) \div m) + 1 \in 1 .. s
        /\ ((i - 1) % m) + 1 \in 1 .. m /\ ((k - 1) % m) + 1 \in 1 .. m
    BY <1>1, PairOf
  <2>2. (i - 1) \div m = (k - 1) \div m /\ (i - 1) % m = (k - 1) % m
    <3> DEFINE qi == (i - 1) \div m
               qk == (k - 1) \div m
               ri == (i - 1) % m
               rk == (k - 1) % m
    <3>1. qi + 1 = qk + 1 /\ ri + 1 = rk + 1
      BY <1>5
    <3>2. qi \in Nat /\ qk \in Nat /\ ri \in Nat /\ rk \in Nat
      <4> DEFINE a == i - 1
                 b == k - 1
      <4>1. a \in Nat /\ b \in Nat
        BY <1>3
      <4> HIDE DEF a, b
      <4>2. a \div m \in Nat /\ b \div m \in Nat
        BY <1>1, <4>1, Division
      <4>3. (a % m) \in 0 .. m - 1 /\ (b % m) \in 0 .. m - 1
        BY <1>1, <4>1, Division
      <4> QED
        BY <1>1, <4>2, <4>3 DEF a, b
    <3> HIDE DEF qi, qk, ri, rk
    <3>3. qi = qk /\ ri = rk
      BY <3>1, <3>2
    <3> QED
      BY <3>3 DEF qi, qk, ri, rk
  <2>3. /\ i = m * ((i - 1) \div m) + ((i - 1) % m) + 1
        /\ k = m * ((k - 1) \div m) + ((k - 1) % m) + 1
    BY <1>1, PairOf
  <2> QED
    BY <2>2, <2>3
<1> HIDE DEF f, g, made, all
<1>6. Paired(made, src, nets, all, f, g)
  BY <1>2, <1>3, <1>4, <1>5 DEF Paired, s, m
<1>7. /\ made \in Seq([source : ToSet(src), net : T])
      /\ made # <<>>
      /\ Distinct(src) /\ Distinct(nets) => Distinct(made)
  BY <1>6, PairUp
<1> QED
  BY <1>7 DEF made, all, s, m

\* The places of a lane in rounds over n lanes, broken off at a total.
Places(k, n, most) == {j \in 1 .. most : ((j - 1) % n) + 1 = k}

\* A lane gets a stream a round at the most.
LEMMA OneARound ==
  ASSUME NEW n \in Nat \ {0}, NEW rounds \in Nat, NEW most \in Nat, most <= rounds * n, NEW k
  PROVE  /\ IsFiniteSet(Places(k, n, most))
         /\ Cardinality(Places(k, n, most)) <= rounds
<1> DEFINE S == Places(k, n, most)
           f == [j \in S |-> (j - 1) \div n]
<1>1. ASSUME NEW j \in S
      PROVE  /\ j - 1 \in Nat /\ (j - 1) \div n \in 0 .. rounds - 1
             /\ j - 1 = n * ((j - 1) \div n) + (k - 1)
  <2> DEFINE a == j - 1
  <2>1. a \in Nat /\ a < rounds * n /\ (a % n) + 1 = k
    <3>1. rounds * n \in Nat
      OBVIOUS
    <3> QED
      BY <3>1 DEF Places
  <2> HIDE DEF a
  <2>2. a \div n \in Nat /\ (a % n) \in 0 .. n - 1 /\ a = n * (a \div n) + (a % n)
    BY <2>1, Division
  <2>3. a \div n < rounds
    BY <2>1, QuotientBelow
  <2>4. k - 1 = a % n
    BY <2>1, <2>2
  <2>5. a = n * (a \div n) + (k - 1) /\ a \div n \in 0 .. rounds - 1
    BY <2>2, <2>3, <2>4
  <2> QED
    BY <2>1, <2>5 DEF a
<1>2. f \in [S -> 0 .. rounds - 1]
  <2> HIDE DEF S
  <2> QED
    BY <1>1
<1>3. ASSUME NEW i \in S, NEW j \in S, f[i] = f[j] PROVE i = j
  <2>1. (i - 1) \div n = (j - 1) \div n
    BY <1>3
  <2>2. i - 1 = j - 1
    BY <1>1, <2>1
  <2> QED
    BY <2>2 DEF Places
<1>4. f \in Injection(S, 0 .. rounds - 1)
  BY <1>2, <1>3 DEF Injection, IsInjective
<1>5. IsFiniteSet(0 .. rounds - 1) /\ Cardinality(0 .. rounds - 1) = rounds
  BY FS_Interval
<1> QED
  <2> HIDE DEF S, f
  <2>1. IsFiniteSet(S) /\ Cardinality(S) <= Cardinality(0 .. rounds - 1)
    BY <1>4, <1>5, FS_Injection
  <2> QED
    BY <1>5, <2>1 DEF S

\* A lane has at most one stream more than another: but for its first place,
\* every place of it has one of the other's before it, less than a round away.
LEMMA OneMore ==
  ASSUME NEW n \in Nat \ {0}, NEW most \in Nat, NEW k \in 1 .. n, NEW l \in 1 .. n
  PROVE  Cardinality(Places(k, n, most)) - Cardinality(Places(l, n, most)) <= 1
<1> DEFINE S == Places(k, n, most)
           T == Places(l, n, most)
           f == [j \in S \ {k} |-> (j - n) + (l - k)]
<1>1. IsFiniteSet(S) /\ IsFiniteSet(T)
  <2>1. IsFiniteSet(1 .. most) /\ S \in SUBSET (1 .. most) /\ T \in SUBSET (1 .. most)
    BY FS_Interval DEF Places
  <2> HIDE DEF S, T
  <2> QED
    BY <2>1, FS_Subset
<1>2. ASSUME NEW j \in S \ {k} PROVE (j - n) + (l - k) \in T
  <2> DEFINE a == j - 1
             q == a \div n
             r == a % n
             before == n * (q - 1)
  <2>1. j \in 1 .. most /\ a \in Nat /\ r + 1 = k /\ j # k
    BY DEF Places
  <2>2. q \in Nat /\ r \in 0 .. n - 1 /\ a = n * q + r
    <3> HIDE DEF a
    <3> QED
      BY <2>1, Division
  <2> HIDE DEF q, r
  <2>3. q # 0
    <3> SUFFICES ASSUME q = 0 PROVE FALSE
      OBVIOUS
    <3>1. n * q = 0
      OBVIOUS
    <3> QED
      BY <2>1, <2>2, <3>1
  <2>4. n * q = before + n /\ before \in Nat /\ q - 1 \in Nat
    BY <2>2, <2>3
  <2>5. (before + (l - 1)) % n = l - 1
    <3> DEFINE p == q - 1
               rest == l - 1
    <3>1. p \in Nat /\ rest \in 0 .. n - 1
      BY <2>4
    <3> HIDE DEF p, rest
    <3>2. (n * p + rest) % n = rest
      BY <3>1, DivisionOnce
    <3> QED
      BY <3>2 DEF p, rest
  <2> HIDE DEF before
  <2>6. (j - n) + (l - k) = before + (l - 1) + 1
    BY <2>1, <2>2, <2>4
  <2>7. (j - n) + (l - k) \in 1 .. most /\ ((j - n) + (l - k)) - 1 = before + (l - 1)
    BY <2>1, <2>4, <2>6
  <2> QED
    BY <2>5, <2>7 DEF Places
<1>3. f \in Injection(S \ {k}, T)
  <2>1. f \in [S \ {k} -> T]
    BY <1>2
  <2>2. ASSUME NEW i \in S \ {k}, NEW j \in S \ {k}, f[i] = f[j] PROVE i = j
    <3>1. i \in Int /\ j \in Int
      BY DEF Places
    <3> QED
      BY <2>2, <3>1
  <2> QED
    BY <2>1, <2>2 DEF Injection, IsInjective
<1> HIDE DEF S, T, f
<1>4. Cardinality(S \ {k}) <= Cardinality(T)
  BY <1>1, <1>3, FS_Injection
<1>5. IsFiniteSet(S \ {k}) /\ Cardinality(S \ {k}) \in {Cardinality(S), Cardinality(S) - 1}
  BY <1>1, FS_RemoveElement
<1>6. Cardinality(S) \in Nat /\ Cardinality(T) \in Nat
  BY <1>1, FS_CardinalityType
<1>7. Cardinality(S) - Cardinality(T) <= 1
  BY <1>4, <1>5, <1>6
<1> QED
  BY <1>7 DEF S, T

-----------------------------------------------------------------------------
(* The mirrors that count.                                                 *)

Answers == Direct \cup Redirected

\* A mirror whose answer GoodMirrorUsed is about.
Good(i) ==
    /\ Tells(i)
    /\ \A j \in DOMAIN answers : Probes[j].size <= answers[i].serves

\* What the probes are, and the largest size among them.
LEMMA LargestReported ==
  ASSUME answers \in Seq(Answers), answers # <<>>
  PROVE  /\ Largest \in Numbers
         /\ \A i \in DOMAIN answers : Probes[i].size <= Largest
         /\ \E i \in DOMAIN answers : Probes[i].size = Largest
<1> DEFINE T == {Probes[i].size : i \in DOMAIN answers}
<1>1. ASSUME NEW i \in DOMAIN answers PROVE Probes[i].size \in Numbers
  <2>1. answers[i] \in Answers /\ Probes[i] = Parse(answers[i].head)
    BY DEF Probes
  <2>2. Probes[i] \in Parsed
    BY <2>1, AnswersHonest, ProbeTells DEF Answers
  <2> QED
    BY <2>2 DEF Parsed
<1>2. 1 \in DOMAIN answers
  OBVIOUS
<1>3. Word - 1 \in Nat /\ T \in SUBSET Nat /\ T # {} /\ \A n \in T : n <= Word - 1
  <2>1. Word - 1 \in Nat
    BY PlanAssumption DEF PlanAssumption
  <2> QED
    BY <1>1, <1>2, <2>1 DEF Numbers
<1>4. Max(T) \in T /\ \A n \in T : n <= Max(T)
  <2> HIDE DEF T
  <2> QED
    BY <1>3, GreatestNumber
<1>5. Largest = Max(T)
  BY DEF Largest
<1> HIDE DEF Largest
<1> QED
  BY <1>1, <1>4, <1>5

\* A mirror that counts serves ranges of a file of the largest size, which is
\* what it reports of it.
LEMMA AgreesServes ==
  ASSUME answers \in Seq(Answers), NEW i \in DOMAIN answers, Agrees(i)
  PROVE  answers[i].serves = Largest
<1>1. answers[i] \in Answers /\ Probes[i] = Parse(answers[i].head)
  BY DEF Probes
<1>2. Probes[i].ranges => Probes[i].size = answers[i].serves
  BY <1>1, AnswersHonest, ProbeTells DEF Answers
<1> QED
  BY <1>2 DEF Agrees

\* A good mirror counts.
LEMMA GoodAgrees ==
  ASSUME answers \in Seq(Answers), NEW i \in DOMAIN answers, Good(i)
  PROVE  Agrees(i) /\ Largest # 0
<1>1. answers[i] \in Answers /\ Probes[i] = Parse(answers[i].head) /\ answers # <<>>
  BY DEF Probes
<1>2. Honest(answers[i])
  BY <1>1, AnswersHonest DEF Answers
<1>3. answers[i].serves \in Numbers /\ answers[i].serves # 0
  BY <1>2 DEF Honest, Good, Tells
<1>4. \E k \in DOMAIN answers[i].head : Ranged(answers[i].head[k])
  <2>1. PICK k \in DOMAIN answers[i].head : answers[i].head[k] = ContentRange(answers[i].serves)
    BY DEF Good, Tells, ToSet
  <2>2. Ranged(ContentRange(answers[i].serves))
    BY <1>3 DEF Ranged, ContentRange, NoNumber, Numbers
  <2> QED
    BY <2>1, <2>2
<1>5. Probes[i].ranges /\ Probes[i].size = answers[i].serves
  BY <1>1, <1>2, <1>4, ProbeTells
<1>6. Largest \in Numbers /\ Probes[i].size <= Largest /\ Largest <= answers[i].serves
  BY <1>1, LargestReported DEF Good
<1>7. Largest = answers[i].serves
  BY <1>3, <1>5, <1>6 DEF Numbers
<1> QED
  BY <1>3, <1>5, <1>7 DEF Agrees

-----------------------------------------------------------------------------
(* The setup.                                                              *)

\* Whoever names interfaces names none twice.
NamedOnce == \A named \in Named : Distinct(named)

After == {"lanes", "streams", "open", "cut"}

\* Which mirrors count, once all have answered.
MirrorsInv ==
    /\ answers \in Seq(Answers)
    /\ sources \in Seq(Nat) /\ Distinct(sources)
    /\ sources # <<>> => /\ ToSet(sources) = {i \in DOMAIN answers : Agrees(i)}
                         /\ size = Largest
    /\ pc = "probe" => sources = <<>>
    /\ pc \in After => sources # <<>> /\ size # 0
    /\ GoodMirrorUsed

\* What is made of them.
LanesInv ==
    /\ lanes \in Seq([source : ToSet(sources), net : Interfaces])
    /\ NamedOnce => Distinct(lanes)
    /\ pc \in {"probe", "lanes"} => lanes = <<>>
    /\ pc \in {"streams", "open", "cut"} => lanes # <<>>
    /\ pc \in {"open", "cut"} =>
          streams = [k \in 1 .. Min({perLane * Len(lanes), total}) |-> LaneOfStream(k)]
    /\ perLane \in 1 .. MaxStreams /\ total \in 1 .. MaxTotal
    /\ ToSet(streams) \subseteq DOMAIN lanes

\* The plan, once there is one.
CutInv ==
    /\ pc \in Steps /\ urls \in 0 .. MaxUrls /\ Len(answers) <= urls
    /\ size \in Numbers
    /\ pc # "cut" => block = 0 /\ out = <<>> /\ start = 0
    /\ pc = "cut" => Inv

SetupInv == MirrorsInv /\ LanesInv /\ CutInv

\* No step disturbs what is known of the mirrors.
LEMMA MirrorsStep == SetupInv /\ [SetupNext]_<<setupVars, vars>> => MirrorsInv'
<1> SUFFICES ASSUME SetupInv, [SetupNext]_<<setupVars, vars>> PROVE MirrorsInv'
  OBVIOUS
<1>1. MirrorsInv /\ Len(answers) <= urls /\ pc \in Steps
  BY DEF SetupInv, CutInv
\* Steps that leave the answers and what was made of them alone.
<1>2. ASSUME UNCHANGED <<answers, sources>>, size' = size, pc # "probe", pc' # "probe",
             pc' \in After => pc \in After
      PROVE  MirrorsInv'
  <2>1. Largest' = Largest /\ \A i : Agrees(i)' <=> Agrees(i)
    BY <1>2 DEF Agrees, Largest, Probes
  <2>2. GoodMirrorUsed'
    BY <1>1, <1>2 DEF MirrorsInv, GoodMirrorUsed, Tells, Probes
  <2> QED
    BY <1>1, <1>2, <2>1, <2>2 DEF MirrorsInv
\* Giving up before there are any sources.
<1>3. ASSUME Fail, pc = "probe", \A i \in DOMAIN answers : ~ Good(i) PROVE MirrorsInv'
  <2>1. UNCHANGED <<answers, sources, size>> /\ pc' = "error" /\ sources = <<>>
    BY <1>1, <1>3 DEF Fail, vars, MirrorsInv
  <2>2. GoodMirrorUsed'
    BY <1>3, <2>1 DEF GoodMirrorUsed, Good, Tells, Probes
  <2> QED
    BY <1>1, <2>1, <2>2 DEF MirrorsInv, After
<1>4. CASE NoUrl
  <2>1. answers = <<>>
    BY <1>1, <1>4 DEF NoUrl, MirrorsInv
  <2> QED
    BY <1>3, <1>4, <2>1 DEF NoUrl
<1>5. CASE NoSize
  BY <1>1, <1>3, <1>5, GoodAgrees DEF NoSize, Answered, MirrorsInv
<1>6. CASE NoRanges
  BY <1>1, <1>3, <1>6, GoodAgrees DEF NoRanges, Answered, MirrorsInv
<1>7. ASSUME NEW a \in Direct \cup Redirected, Ask(a) PROVE MirrorsInv'
  <2>1. answers' \in Seq(Answers)
    BY <1>1, <1>7 DEF Ask, MirrorsInv, Answers
  <2>2. UNCHANGED <<pc, sources>> /\ pc = "probe"
    BY <1>7 DEF Ask
  <2> QED
    BY <1>1, <2>1, <2>2 DEF MirrorsInv, GoodMirrorUsed, After
<1>8. CASE Agree
  <2> DEFINE ids == [i \in DOMAIN answers |-> i]
             agreed == {i \in DOMAIN answers : Agrees(i)}
  <2>1. /\ answers' = answers /\ size' = Largest /\ pc' = "lanes" /\ Largest # 0
        /\ sources' = Among(ids, agreed)
        /\ agreed # {}
    BY <1>8 DEF Agree
  <2>2. ids \in Seq(Nat) /\ ToSet(ids) = DOMAIN answers /\ Distinct(ids)
    <3>1. DOMAIN answers = 1 .. Len(answers) /\ Len(answers) \in Nat
      BY <1>1 DEF MirrorsInv
    <3>2. ids \in [1 .. Len(answers) -> Nat]
      BY <3>1
    <3>3. ids \in Seq(Nat)
      BY <3>1, <3>2, IsASeq
    <3> QED
      BY <3>3 DEF ToSet, Distinct
  <2>3. sources' \in Seq(Nat) /\ Distinct(sources') /\ ToSet(sources') = agreed
    <3> HIDE DEF ids
    <3>1. /\ Among(ids, agreed) \in Seq(Nat) /\ Distinct(Among(ids, agreed))
          /\ ToSet(Among(ids, agreed)) = DOMAIN answers \cap agreed
      BY <2>2, AmongKeeps
    <3> QED
      BY <2>1, <3>1
  <2>4. sources' # <<>>
    BY <2>1, <2>3 DEF ToSet
  <2>5. Largest' = Largest /\ \A i : Agrees(i)' <=> Agrees(i)
    BY <2>1 DEF Agrees, Largest, Probes
  <2>6. GoodMirrorUsed'
    <3>1. \A i \in DOMAIN answers : Good(i) => i \in agreed
      BY <1>1, GoodAgrees DEF MirrorsInv
    <3> QED
      BY <2>1, <2>3, <3>1 DEF GoodMirrorUsed, Good, Tells, Probes
  <2> QED
    BY <1>1, <2>1, <2>3, <2>4, <2>5, <2>6 DEF MirrorsInv
<1>9. CASE MakeStreams
  BY <1>2, <1>9 DEF MakeStreams, vars, After
<1>10. ASSUME NEW named \in Named, NEW routes \in Routes, NEW local \in BOOLEAN,
              MakeLanes(named, routes, local)
       PROVE  MirrorsInv'
  BY <1>2, <1>10 DEF MakeLanes, vars, After
<1>11. CASE OpenFails
  BY <1>2, <1>11 DEF OpenFails, Fail, vars, After
<1>12. ASSUME NEW forced \in Forces, OpenAndPlan(forced) PROVE MirrorsInv'
  BY <1>2, <1>12 DEF OpenAndPlan, After
<1>13. CASE CutBlock
  BY <1>2, <1>13 DEF CutBlock, Cut, setupVars
<1>14. CASE HandOver
  BY <1>2, <1>14 DEF HandOver, Over, setupVars, vars
<1>15. CASE Failed
  BY <1>2, <1>15 DEF Failed, setupVars, vars
<1>16. CASE UNCHANGED <<setupVars, vars>>
  <2>1. UNCHANGED <<answers, sources, size, pc>>
    BY <1>16 DEF setupVars, vars
  <2>2. Largest' = Largest /\ \A i : Agrees(i)' <=> Agrees(i)
    BY <2>1 DEF Agrees, Largest, Probes
  <2>3. GoodMirrorUsed'
    BY <1>1, <2>1 DEF MirrorsInv, GoodMirrorUsed, Tells, Probes
  <2> QED
    BY <1>1, <2>1, <2>2, <2>3 DEF MirrorsInv
<1> QED
  BY <1>4, <1>5, <1>6, <1>7, <1>8, <1>9, <1>10, <1>11, <1>12, <1>13, <1>14, <1>15, <1>16
     DEF SetupNext

\* The smaller of two numbers.
LEMMA MinOfTwo ==
  ASSUME NEW a \in Nat, NEW b \in Nat
  PROVE  /\ Min({a, b}) \in {a, b}
         /\ Min({a, b}) <= a
         /\ Min({a, b}) <= b
<1>1. \E x \in {a, b} : \A y \in {a, b} : x <= y
  OBVIOUS
<1>2. Min({a, b}) \in {a, b} /\ \A y \in {a, b} : Min({a, b}) <= y
  BY <1>1, Zenon DEF Min
<1> QED
  BY <1>2

\* How many streams are made: at least one, and no more than a round allows or
\* the total.
LEMMA StreamsMade ==
  ASSUME NEW per \in Nat \ {0}, NEW n \in Nat \ {0}, NEW most \in Nat \ {0}
  PROVE  /\ Min({per * n, most}) \in 1 .. most
         /\ Min({per * n, most}) <= per * n
<1> DEFINE a == per * n
<1>1. a \in Nat \ {0}
  OBVIOUS
<1> HIDE DEF a
<1>2. Min({a, most}) \in 1 .. most /\ Min({a, most}) <= a
  BY <1>1, MinOfTwo
<1> QED
  BY <1>2 DEF a

\* The interfaces lanes are made of.
LEMMA NetsAreNames ==
  ASSUME NEW named \in Named, NEW routes \in Routes, NEW local \in BOOLEAN
  PROVE  /\ Nets(named, routes, local) \in Seq(Interfaces)
         /\ Nets(named, routes, local) # <<>>
         /\ NamedOnce => Distinct(Nets(named, routes, local))
<1>1. /\ named \in Seq(Interfaces) /\ routes \in Seq(Interfaces) /\ Loopback \in Interfaces
      /\ NamedOnce => Distinct(named)
  BY SetupAssumption DEF SetupAssumption, NamedOnce
<1>2. Usable(routes) \in Seq(Interfaces) /\ Distinct(Usable(routes))
  BY <1>1, UsableOnce
<1>3. Len(Usable(routes)) > 1 => Usable(routes) # <<>>
  BY <1>2
<1>4. AnyRoute \in Seq(Interfaces) /\ AnyRoute # <<>> /\ Distinct(AnyRoute)
  BY <1>1 DEF AnyRoute, Distinct
<1> QED
  BY <1>1, <1>2, <1>3, <1>4 DEF Nets

\* No step disturbs what is known of the lanes and their streams.
LEMMA LanesStep == SetupInv /\ [SetupNext]_<<setupVars, vars>> => LanesInv'
<1> SUFFICES ASSUME SetupInv, [SetupNext]_<<setupVars, vars>> PROVE LanesInv'
  OBVIOUS
<1>1. LanesInv /\ MirrorsInv
  BY DEF SetupInv
\* Steps that make neither lanes nor streams.
<1>2. ASSUME UNCHANGED <<lanes, streams, perLane, total>>,
             sources' = sources \/ lanes = <<>>,
             pc' = pc \/ (pc = "probe" /\ pc' = "lanes") \/ pc' = "error" \/ (pc = "open" /\ pc' = "cut")
      PROVE  LanesInv'
  <2>1. lanes' \in Seq([source : ToSet(sources'), net : Interfaces])
    <3>1. CASE sources' = sources
      BY <1>1, <1>2, <3>1 DEF LanesInv
    <3>2. CASE lanes = <<>>
      <4>1. lanes' = <<>>
        BY <1>2, <3>2
      <4>2. \A S : <<>> \in Seq(S)
        OBVIOUS
      <4> QED
        BY <4>1, <4>2
    <3> QED
      BY <1>2, <3>1, <3>2
  <2>2. \A k : LaneOfStream(k)' = LaneOfStream(k)
    BY <1>2 DEF LaneOfStream
  <2> QED
    BY <1>1, <1>2, <2>1, <2>2 DEF LanesInv
<1>3. ASSUME Fail PROVE LanesInv'
  BY <1>2, <1>3 DEF Fail
<1>4. CASE NoUrl \/ NoSize \/ NoRanges \/ OpenFails
  BY <1>3, <1>4 DEF NoUrl, NoSize, NoRanges, OpenFails
<1>5. ASSUME NEW a \in Direct \cup Redirected, Ask(a) PROVE LanesInv'
  BY <1>2, <1>5 DEF Ask
<1>6. CASE Agree
  BY <1>1, <1>2, <1>6 DEF Agree, Answered, LanesInv
<1>7. ASSUME NEW named \in Named, NEW routes \in Routes, NEW local \in BOOLEAN,
             MakeLanes(named, routes, local)
      PROVE  LanesInv'
  <2> DEFINE nets == Nets(named, routes, local)
  <2>1. nets \in Seq(Interfaces) /\ nets # <<>> /\ (NamedOnce => Distinct(nets))
    BY NetsAreNames
  <2>2. sources \in Seq(Nat) /\ sources # <<>> /\ Distinct(sources) /\ lanes = <<>>
    BY <1>1, <1>7 DEF MakeLanes, MirrorsInv, LanesInv, After
  <2>3. /\ lanes' = [k \in 1 .. Len(sources) * Len(nets) |->
                       [source |-> sources[((k - 1) \div Len(nets)) + 1],
                        net    |-> nets[((k - 1) % Len(nets)) + 1]]]
        /\ pc' = "streams"
        /\ UNCHANGED <<sources, streams, perLane, total>>
    BY <1>7 DEF MakeLanes
  <2> HIDE DEF nets
  <2>4. /\ lanes' \in Seq([source : ToSet(sources), net : Interfaces])
        /\ lanes' # <<>>
        /\ Distinct(nets) => Distinct(lanes')
    BY <2>1, <2>2, <2>3, Pairs
  <2>5. ToSet(streams) = {}
    BY <1>1, <2>2 DEF LanesInv
  <2> QED
    BY <1>1, <2>1, <2>3, <2>4, <2>5 DEF LanesInv
<1>8. CASE MakeStreams
  <2> DEFINE n == Len(lanes)
             made == Min({perLane * n, total})
  <2>1. /\ streams' = [k \in 1 .. made |-> LaneOfStream(k)]
        /\ pc' = "open"
        /\ UNCHANGED <<sources, lanes, perLane, total>>
        /\ lanes # <<>>
    BY <1>1, <1>8 DEF MakeStreams, LanesInv
  <2>2. n \in Nat \ {0} /\ DOMAIN lanes = 1 .. n
    BY <1>1, <2>1 DEF LanesInv
  <2>3. ASSUME NEW k \in 1 .. made PROVE LaneOfStream(k) \in 1 .. n
    <3>1. perLane \in Nat \ {0} /\ total \in Nat \ {0}
      BY <1>1, SetupAssumption DEF LanesInv, SetupAssumption
    <3>2. made \in Nat
      <4> HIDE DEF n
      <4>1. Min({perLane * n, total}) \in 1 .. total
        BY <2>2, <3>1, StreamsMade
      <4> QED
        BY <3>1, <4>1
    <3> HIDE DEF made
    <3>3. k - 1 \in Nat
      BY <3>2
    <3> DEFINE a == k - 1
    <3> HIDE DEF a, n
    <3>4. (a % n) \in 0 .. n - 1
      BY <2>2, <3>3, Division DEF a
    <3>5. (a % n) + 1 \in 1 .. n
      BY <2>2, <3>4
    <3> QED
      BY <3>5 DEF LaneOfStream, a, n
  <2>4. ToSet(streams') \subseteq DOMAIN lanes
    <3> HIDE DEF n, made
    <3> QED
      BY <2>1, <2>2, <2>3 DEF ToSet
  <2>5. \A k : LaneOfStream(k)' = LaneOfStream(k)
    BY <2>1 DEF LaneOfStream
  <2> QED
    BY <1>1, <2>1, <2>4, <2>5 DEF LanesInv
<1>9. ASSUME NEW forced \in Forces, OpenAndPlan(forced) PROVE LanesInv'
  BY <1>2, <1>9 DEF OpenAndPlan
<1>10. CASE CutBlock \/ HandOver \/ Failed \/ UNCHANGED <<setupVars, vars>>
  BY <1>2, <1>10 DEF CutBlock, HandOver, Failed, setupVars
<1> QED
  BY <1>4, <1>5, <1>6, <1>7, <1>8, <1>9, <1>10 DEF SetupNext

\* No step disturbs what is known of the plan.
LEMMA CutStep == SetupInv /\ [SetupNext]_<<setupVars, vars>> => CutInv'
<1> SUFFICES ASSUME SetupInv, [SetupNext]_<<setupVars, vars>> PROVE CutInv'
  OBVIOUS
<1>1. MirrorsInv /\ LanesInv /\ CutInv
  BY DEF SetupInv
\* Steps before there is a plan.
<1>2. ASSUME UNCHANGED <<urls, block, out, start>>, Len(answers') <= urls, size' \in Numbers,
             pc # "cut", pc' \in Steps \ {"cut"}
      PROVE  CutInv'
  BY <1>1, <1>2 DEF CutInv
<1>3. ASSUME Fail, pc # "cut" PROVE CutInv'
  BY <1>1, <1>2, <1>3 DEF Fail, vars, CutInv, Steps
<1>4. CASE NoUrl \/ NoSize \/ NoRanges \/ OpenFails
  BY <1>3, <1>4 DEF NoUrl, NoSize, NoRanges, OpenFails, Answered
<1>5. ASSUME NEW a \in Direct \cup Redirected, Ask(a) PROVE CutInv'
  <2>1. answers \in Seq(Answers) /\ answers' = Append(answers, a) /\ Len(answers) < urls
    BY <1>1, <1>5 DEF Ask, MirrorsInv
  <2>2. Len(answers') = Len(answers) + 1 /\ Len(answers) \in Nat /\ urls \in Nat
    BY <1>1, <2>1, SetupAssumption DEF CutInv, SetupAssumption
  <2>3. Len(answers') <= urls
    BY <2>1, <2>2
  <2> QED
    BY <1>1, <1>2, <1>5, <2>3 DEF Ask, vars, CutInv, Steps
<1>6. CASE Agree
  <2>1. answers \in Seq(Answers) /\ answers # <<>>
    BY <1>1, <1>6 DEF Agree, Answered, MirrorsInv, CutInv
  <2>2. size' \in Numbers
    BY <1>6, <2>1, LargestReported DEF Agree
  <2> QED
    BY <1>1, <1>2, <1>6, <2>2 DEF Agree, Answered, CutInv, Steps
<1>7. CASE \E named \in Named, routes \in Routes, local \in BOOLEAN :
              MakeLanes(named, routes, local)
  BY <1>1, <1>2, <1>7 DEF MakeLanes, vars, CutInv, Steps
<1>8. CASE MakeStreams
  BY <1>1, <1>2, <1>8 DEF MakeStreams, vars, CutInv, Steps
<1>9. ASSUME NEW forced \in Forces, OpenAndPlan(forced) PROVE CutInv'
  <2>1. /\ pc = "open" /\ 2 * size < Word /\ block' = BlockFor(size, Len(streams), forced)
        /\ pc' = "cut" /\ UNCHANGED <<urls, answers, size, out, start>>
    BY <1>9 DEF OpenAndPlan, Sizable
  <2>2. out = <<>> /\ start = 0 /\ size \in Nat \ {0}
    BY <1>1, <2>1 DEF CutInv, MirrorsInv, After, Numbers
  <2>3. Len(streams) \in Counts
    <3> DEFINE n == Len(lanes)
               made == Min({perLane * n, total})
    <3>1. n \in Nat \ {0} /\ perLane \in Nat \ {0} /\ total \in Nat \ {0}
      BY <1>1, <2>1, SetupAssumption DEF LanesInv, SetupAssumption
    <3>2. streams = [k \in 1 .. made |-> LaneOfStream(k)]
      BY <1>1, <2>1 DEF LanesInv
    <3> HIDE DEF n
    <3>3. made \in 1 .. total
      BY <3>1, StreamsMade
    <3> HIDE DEF made
    <3>4. Len(streams) = made
      BY <3>1, <3>2, <3>3
    <3>5. made \in 1 .. MaxTotal
      BY <1>1, <3>1, <3>3, SetupAssumption DEF LanesInv, SetupAssumption
    <3> QED
      BY <3>4, <3>5, SetupAssumption DEF SetupAssumption
  <2>4. block' \in Nat \ {0} /\ block' < Word
    BY <2>1, <2>2, <2>3, BlockForRange
  <2>5. Inv'
    BY <2>1, <2>2, <2>4, PlanAssumption
       DEF PlanAssumption, Inv, TypeOK, Contiguous, PastFirst
  <2> QED
    BY <1>1, <2>1, <2>5 DEF CutInv, Steps
<1>10. CASE CutBlock
  <2>1. Inv /\ Cut /\ UNCHANGED setupVars /\ size' = size
    BY <1>1, <1>10 DEF CutBlock, CutInv, Cut
  <2>2. Inv'
    BY <2>1, CutKeepsInv
  <2> QED
    BY <1>1, <1>10, <2>1, <2>2 DEF CutBlock, CutInv, setupVars
<1>11. CASE HandOver \/ Failed \/ UNCHANGED <<setupVars, vars>>
  <2>1. UNCHANGED <<setupVars, vars>>
    BY <1>11 DEF HandOver, Over, Failed
  <2> QED
    BY <1>1, <2>1 DEF CutInv, setupVars, vars, Inv, TypeOK, Contiguous, PastFirst
<1> QED
  BY <1>4, <1>5, <1>6, <1>7, <1>8, <1>9, <1>10, <1>11 DEF SetupNext

\* The invariant holds before anything is asked.
LEMMA SetupStarts == SetupInit => SetupInv
<1> SUFFICES ASSUME SetupInit PROVE SetupInv
  OBVIOUS
<1>1. /\ pc = "probe" /\ urls \in 0 .. MaxUrls /\ answers = <<>> /\ sources = <<>>
      /\ lanes = <<>> /\ streams = <<>> /\ size = 0 /\ block = 0 /\ out = <<>> /\ start = 0
  BY DEF SetupInit
<1>2. perLane \in 1 .. MaxStreams /\ total \in 1 .. MaxTotal
  <2>1. ASSUME NEW most \in Nat \ {0}, NEW n \in Int PROVE Clamp(n, most) \in 1 .. most
    BY <2>1 DEF Clamp
  <2> QED
    BY <2>1, SetupAssumption DEF SetupInit, SetupAssumption
<1>3. MirrorsInv
  BY <1>1 DEF MirrorsInv, Distinct, After, GoodMirrorUsed
<1>4. LanesInv
  BY <1>1, <1>2 DEF LanesInv, Distinct, ToSet
<1>5. CutInv
  BY <1>1, SetupAssumption, PlanAssumption DEF CutInv, Steps, Numbers, SetupAssumption, PlanAssumption
<1> QED
  BY <1>3, <1>4, <1>5 DEF SetupInv

\* It holds throughout.
LEMMA SetupKeeps == SetupSpec => []SetupInv
<1>1. SetupInv /\ [SetupNext]_<<setupVars, vars>> => SetupInv'
  BY MirrorsStep, LanesStep, CutStep DEF SetupInv
<1> QED
  BY SetupStarts, <1>1, PTL DEF SetupSpec

\* How many streams there are, once they are made.
LEMMA HowMany ==
  ASSUME SetupInv, pc \in {"open", "cut"}
  PROVE  /\ perLane \in Nat \ {0} /\ total \in Nat \ {0}
         /\ Len(lanes) \in Nat \ {0}
         /\ DOMAIN lanes = 1 .. Len(lanes)
         /\ Len(streams) \in 1 .. total
         /\ Len(streams) <= perLane * Len(lanes)
         /\ \A j \in 1 .. Len(streams) : streams[j] = LaneOfStream(j)
         /\ DOMAIN streams = 1 .. Len(streams)
<1> DEFINE n == Len(lanes)
           made == Min({perLane * n, total})
<1>1. n \in Nat \ {0} /\ DOMAIN lanes = 1 .. n
  BY DEF SetupInv, LanesInv
<1>2. perLane \in Nat \ {0} /\ total \in Nat \ {0}
  BY SetupAssumption DEF SetupInv, LanesInv, SetupAssumption
<1>3. streams = [k \in 1 .. made |-> LaneOfStream(k)]
  BY DEF SetupInv, LanesInv
<1> HIDE DEF n
<1>4. made \in 1 .. total /\ made <= perLane * n
  BY <1>1, <1>2, StreamsMade
<1> HIDE DEF made
<1>5. Len(streams) = made /\ DOMAIN streams = 1 .. made
  BY <1>2, <1>3, <1>4
<1>6. \A j \in 1 .. made : streams[j] = LaneOfStream(j)
  BY <1>3
<1> QED
  BY <1>1, <1>2, <1>4, <1>5, <1>6 DEF n

\* Every variable has its type, and what was clamped its bounds.
THEOREM SetupTypes == SetupSpec => []SetupTypeOK
<1>1. SetupInv => SetupTypeOK
  <2> SUFFICES ASSUME SetupInv PROVE SetupTypeOK
    OBVIOUS
  <2>1. ToSet(sources) \subseteq DOMAIN answers
    BY DEF SetupInv, MirrorsInv, ToSet
  <2>2. size \in 0 .. Word - 1
    BY DEF SetupInv, CutInv, Numbers
  <2>3. Word \in Nat /\ 0 \in 0 .. Word - 1
    BY <2>2, PlanAssumption DEF PlanAssumption
  <2>4. block \in 0 .. Word - 1
    BY <2>3 DEF SetupInv, CutInv, Inv, TypeOK
  <2>5. pc = "cut" => size > 0 /\ block > 0 /\ streams # <<>>
    <3> SUFFICES ASSUME pc = "cut" PROVE size > 0 /\ block > 0 /\ streams # <<>>
      OBVIOUS
    <3>1. size > 0 /\ block > 0
      BY DEF SetupInv, CutInv, Inv, TypeOK
    <3>2. Len(streams) \in 1 .. total /\ total \in Nat
      BY HowMany
    <3>3. streams # <<>>
      BY <3>2
    <3> QED
      BY <3>1, <3>3
  <2> QED
    BY <2>1, <2>2, <2>4, <2>5 DEF SetupTypeOK, SetupInv, LanesInv, CutInv
<1> QED
  BY <1>1, SetupKeeps, PTL

\* However many mirrors answer, through whatever redirections, as long as the
\* total in a Content-Range is true of what is served: every lane's mirror serves
\* ranges, of a file of the very size the plan is made for.
THEOREM NoMixing == SetupSpec => []SourcesServe
<1>1. SetupInv => SourcesServe
  <2> SUFFICES ASSUME SetupInv, NEW k \in DOMAIN lanes
               PROVE  answers[lanes[k].source].serves = size
    BY DEF SourcesServe
  <2>1. lanes[k].source \in ToSet(sources) /\ sources # <<>>
    <3>1. lanes \in Seq([source : ToSet(sources), net : Interfaces])
      BY DEF SetupInv, LanesInv
    <3>2. lanes[k] \in [source : ToSet(sources), net : Interfaces]
      <4>1. \A T : \A s \in Seq(T) : \A i \in DOMAIN s : s[i] \in T
        OBVIOUS
      <4> QED
        BY <3>1, <4>1
    <3> QED
      BY <3>2 DEF ToSet
  <2>2. /\ lanes[k].source \in DOMAIN answers /\ Agrees(lanes[k].source)
        /\ size = Largest /\ answers \in Seq(Answers)
    BY <2>1 DEF SetupInv, MirrorsInv
  <2> QED
    BY <2>2, AgreesServes
<1> QED
  BY <1>1, SetupKeeps, PTL

\* A mirror that serves the file and says so is used, unless some answer
\* reports more than it.
THEOREM NoGoodMirrorLost == SetupSpec => []GoodMirrorUsed
<1>1. SetupInv => GoodMirrorUsed
  BY DEF SetupInv, MirrorsInv
<1> QED
  BY <1>1, SetupKeeps, PTL

\* The streams of a lane are the places it has in the rounds.
LEMMA SharePlaces ==
  ASSUME SetupInv, pc \in {"open", "cut"}, NEW k \in DOMAIN lanes
  PROVE  Share(k) = Cardinality(Places(k, Len(lanes), Len(streams)))
<1>1. {j \in DOMAIN streams : streams[j] = k} = Places(k, Len(lanes), Len(streams))
  BY HowMany DEF Places, LaneOfStream
<1> QED
  BY <1>1 DEF Share

\* What Balanced says of the numbers of streams, whatever the lanes are.
WithinLimits ==
    pc \in {"open", "cut"} =>
        /\ Len(streams) \in 1 .. total
        /\ \A j, k \in DOMAIN lanes : Share(k) <= perLane /\ Share(k) - Share(j) <= 1

\* By the places of the lanes in the rounds.
LEMMA SharesEven ==
  ASSUME SetupInv, pc \in {"open", "cut"}
  PROVE  WithinLimits
<1> DEFINE n == Len(lanes)
           most == Len(streams)
<1>1. /\ n \in Nat \ {0} /\ DOMAIN lanes = 1 .. n
      /\ most \in 1 .. total /\ most <= perLane * n
      /\ perLane \in Nat /\ total \in Nat
  BY HowMany
<1>2. \A k \in DOMAIN lanes : Share(k) = Cardinality(Places(k, n, most))
  BY SharePlaces
<1> HIDE DEF n, most
<1>3. most \in Nat
  BY <1>1
<1>4. ASSUME NEW k \in 1 .. n PROVE Cardinality(Places(k, n, most)) <= perLane
  BY <1>1, <1>3, OneARound
<1>5. ASSUME NEW k \in 1 .. n, NEW j \in 1 .. n
      PROVE  Cardinality(Places(k, n, most)) - Cardinality(Places(j, n, most)) <= 1
  BY <1>1, <1>3, OneMore
<1>6. most = Len(streams)
  BY DEF most
<1> QED
  BY <1>1, <1>2, <1>4, <1>5, <1>6 DEF WithinLimits

\* Whatever interfaces, asked for once or twice, and however many mirrors: there
\* are no more streams than allowed, in total and on a lane, and no lane has two
\* more than another.
THEOREM LimitsKept == SetupSpec => []WithinLimits
<1>1. SetupInv => WithinLimits
  BY SharesEven DEF WithinLimits
<1> QED
  BY <1>1, SetupKeeps, PTL

\* When nobody names an interface twice, the streams are spread evenly over
\* lanes that are all different.
THEOREM EvenSpread ==
  ASSUME NamedOnce
  PROVE  SetupSpec => []Balanced
<1>1. SetupInv => Balanced
  <2> SUFFICES ASSUME SetupInv, pc \in {"open", "cut"}
               PROVE  /\ Len(streams) \in 1 .. total
                      /\ \A j, k \in DOMAIN lanes : /\ Share(k) <= perLane
                                                    /\ Share(k) - Share(j) <= 1
                                                    /\ lanes[j] = lanes[k] => j = k
    BY DEF Balanced
  <2>1. \A j, k \in DOMAIN lanes : lanes[j] = lanes[k] => j = k
    BY NamedOnce DEF SetupInv, LanesInv, Distinct
  <2> QED
    BY <2>1, SharesEven DEF WithinLimits
<1> QED
  BY <1>1, SetupKeeps, PTL

\* The plan is made for a size that mirrors agreed on and the streams that the
\* lanes were given, and it is cut as plan_blocks cuts it: the blocks adjoin,
\* they end at the file's last byte, and no sum leaves the word.
THEOREM SetupCuts == SetupSpec => [](Contiguous /\ Covered /\ NoOverflow)
<1>1. SetupInv => Contiguous /\ Covered /\ NoOverflow
  <2> SUFFICES ASSUME SetupInv PROVE Contiguous /\ Covered /\ NoOverflow
    OBVIOUS
  <2>1. CASE pc = "cut"
    BY <2>1, InvSays DEF SetupInv, CutInv
  <2>2. CASE pc # "cut"
    <3>1. out = <<>> /\ start = 0 /\ block = 0 /\ size \in 0 .. Word - 1
      BY <2>2 DEF SetupInv, CutInv, Numbers
    <3> QED
      BY <3>1, PlanAssumption DEF PlanAssumption, Contiguous, Covered, NoOverflow
  <2> QED
    BY <2>1, <2>2
<1> QED
  BY <1>1, SetupKeeps, PTL

=============================================================================
