---------------------------- MODULE EngineProofs ----------------------------
(***************************************************************************)
(* What holds of Engine for every number of streams, lanes and blocks.     *)
(***************************************************************************)
EXTENDS Engine, FiniteSetTheorems, TLAPS

\* The number of streams on a lane is a number.
LEMMA StreamsOnNat == ASSUME NEW l \in Lanes PROVE StreamsOn(l) \in Nat
  <1>1. IsFiniteSet({s \in Streams : LaneOf[s] = l})
    BY FS_Subset, SchedAssumption DEF SchedAssumption
  <1> QED BY <1>1, FS_CardinalityType DEF StreamsOn

\* The initial states are well typed.
LEMMA TypeInit == Init => TypeOK
<1> USE SchedAssumption, EngineAssumption DEF SchedAssumption, EngineAssumption
<1> SUFFICES ASSUME Init PROVE TypeOK
  OBVIOUS
<1> USE DEF Init
<1>1. status \in [Blocks -> {"Pending", "Running", "Done"}] /\ got \in [Blocks -> Nat]
  BY DEF LoadedStatus, LoadedGot
<1>2. \A b \in Blocks : status[b] # "Done" => got[b] < Size[b]
  BY DEF LoadedStatus, LoadedGot
<1>3. idle \in [Lanes -> Nat]
  BY StreamsOnNat
<1>4. job \in [Streams -> Job]
  BY DEF NoJob, Job
<1>5. \A s \in Streams : ~ AtWork(s)
  BY DEF AtWork
<1> QED
  BY <1>1, <1>2, <1>3, <1>4, <1>5 DEF TypeOK

\* A transfer that goes on is one still.
LEMMA JobGrows ==
  ASSUME NEW j \in Job, NEW n \in Nat, NEW ok \in BOOLEAN
  PROVE  [j EXCEPT !.n = n, !.ok = ok] \in Job
BY Zenon DEF Job

\* What an answer may bring beyond its range is counted in units.
LEMMA SurplusNat == \A l \in Lanes : Surplus(l) \in {0, 1}
BY EngineAssumption DEF EngineAssumption, Surplus

\* What one unit that a thread receives does to the file: it is stored in one
\* block, or past the end of the last, and is either the file's own or makes
\* its block doubtful.
Stored(b, at, c, o) ==
    /\ at < Size[b] => c = b /\ o = at
    /\ o <= Size[c] /\ (o < Size[c] \/ c = NumBlocks)
    /\ landed' \in [Blocks -> SUBSET Nat]
    /\ \A d \in Blocks \ {c} : landed'[d] = landed[d]
    /\ \/ doubtful' = doubtful /\ o \in Offsets(c) /\ landed'[c] = landed[c] \cup {o}
       \/ doubtful' = doubtful \cup {c} /\ landed'[c] \subseteq landed[c] \cup {o}

\* A thread that receives a unit stores it so.
LEMMA ReceiveStores ==
  ASSUME NEW s \in Streams, Receive(s),
         job[s].block \in Blocks, job[s].from + job[s].n \in Nat,
         landed \in [Blocks -> SUBSET Nat]
  PROVE  \E c \in Blocks, o \in Nat : Stored(job[s].block, job[s].from + job[s].n, c, o)
<1> DEFINE b == job[s].block
           at == job[s].from + job[s].n
           c == Home(b, at)
           o == Place(b, at)
<1>1. /\ at < Size[b] + Surplus(LaneOf[s])
      /\ \E good \in BOOLEAN :
            /\ landed' = [landed EXCEPT ![c] = IF good \/ o = Size[c] THEN @ \cup {o} ELSE @ \ {o}]
            /\ doubtful' = IF good /\ o < Size[c] THEN doubtful ELSE doubtful \cup {c}
  BY DEF Receive
<1>2. b \in Blocks /\ at \in Nat /\ Surplus(LaneOf[s]) \in {0, 1} /\ NumBlocks \in Nat
      /\ Size \in [Blocks -> Nat \ {0}] /\ landed \in [Blocks -> SUBSET Nat]
  BY SchedAssumption, SurplusNat DEF SchedAssumption
<1>3. c \in Blocks /\ o \in Nat /\ o <= Size[c] /\ (o < Size[c] \/ c = NumBlocks)
      /\ (at < Size[b] => c = b /\ o = at)
  <2> HIDE DEF b, at
  <2>1. CASE at < Size[b]
    BY <2>1, <1>2 DEF Home, Place
  <2>2. CASE ~ (at < Size[b])
    <3>1. at = Size[b]
      BY <2>2, <1>1, <1>2
    <3>2. CASE b = NumBlocks
      BY <3>1, <3>2, <1>2 DEF Home, Place
    <3>3. CASE b # NumBlocks
      <4>1. b + 1 \in Blocks /\ b + 1 # b
        BY <3>3, <1>2 DEF Blocks
      <4> QED
        BY <3>1, <3>3, <4>1, <1>2 DEF Home, Place
    <3> QED
      BY <3>2, <3>3
  <2> QED
    BY <2>1, <2>2
<1> HIDE DEF b, at, c, o
<1>4. PICK good \in BOOLEAN :
            /\ landed' = [landed EXCEPT ![c] = IF good \/ o = Size[c] THEN @ \cup {o} ELSE @ \ {o}]
            /\ doubtful' = IF good /\ o < Size[c] THEN doubtful ELSE doubtful \cup {c}
  BY <1>1
<1>5. landed' \in [Blocks -> SUBSET Nat] /\ \A d \in Blocks \ {c} : landed'[d] = landed[d]
  BY <1>2, <1>3, <1>4
<1>6. CASE good /\ o < Size[c]
  <2>1. doubtful' = doubtful /\ landed'[c] = landed[c] \cup {o}
    BY <1>2, <1>3, <1>4, <1>6
  <2>2. o \in Offsets(c)
    BY <1>2, <1>3, <1>6 DEF Offsets
  <2>3. Stored(b, at, c, o)
    BY <1>3, <1>5, <2>1, <2>2 DEF Stored
  <2> QED
    BY <1>3, <2>3 DEF b, at
<1>7. CASE ~ (good /\ o < Size[c])
  <2>1. doubtful' = doubtful \cup {c} /\ landed'[c] \subseteq landed[c] \cup {o}
    BY <1>2, <1>3, <1>4, <1>7
  <2>2. Stored(b, at, c, o)
    BY <1>3, <1>5, <2>1 DEF Stored
  <2> QED
    BY <1>3, <2>2 DEF b, at
<1> QED
  BY <1>6, <1>7

\* Every step keeps the types.
LEMMA TypeStep == TypeOK /\ [Next]_vars => TypeOK'
<1> USE SchedAssumption, EngineAssumption DEF SchedAssumption, EngineAssumption
<1> SUFFICES ASSUME TypeOK, [Next]_vars PROVE TypeOK'
  OBVIOUS
<1> USE DEF TypeOK, planVars
<1>1. ASSUME NEW s \in Streams, Top(s) PROVE TypeOK'
  BY <1>1 DEF Top, AtWork
<1>2. ASSUME NEW s \in Streams, SeeFinished(s) PROVE TypeOK'
  BY <1>2 DEF SeeFinished, AtWork
<1>3. ASSUME NEW s \in Streams, TakeNothing(s) PROVE TypeOK'
  BY <1>3 DEF TakeNothing, AtWork
<1>4. ASSUME NEW s \in Streams, NEW b \in Blocks, TakePrimary(s, b) PROVE TypeOK'
  <2> USE <1>4 DEF TakePrimary, Begin
  <2>1. got[b] < Size[b] /\ got[b] \in Nat /\ Size[b] \in Nat
    BY DEF IsNextWaiting, Waiting
  <2>2. \A l \in Lanes : Surplus(l) \in Nat
    BY SurplusNat
  <2>3. /\ job' = [job EXCEPT ![s] = [block |-> b, from |-> got[b], hedged |-> FALSE, n |-> 0, ok |-> FALSE]]
        /\ job' \in [Streams -> Job]
    BY <2>1 DEF Job
  <2>4. \A t \in Streams : AtWork(t)' => /\ job'[t].block \in Blocks
                                         /\ job'[t].from + job'[t].n <=
                                              Size[job'[t].block] + Surplus(LaneOf[t])
    BY <2>1, <2>2, <2>3 DEF AtWork
  <2> QED
    BY <2>1, <2>3, <2>4
<1>5. ASSUME NEW s \in Streams, NEW b \in Blocks, TakeHedge(s, b) PROVE TypeOK'
  <2>1. status[b] = "Running"
    BY <1>5 DEF TakeHedge, IsNextHedge, Hedgeable
  <2> QED
    BY <1>5, <2>1, SurplusNat DEF TakeHedge, Begin, AtWork, Job
<1>6. ASSUME NEW s \in Streams, LoseRace(s) PROVE TypeOK'
  BY <1>6 DEF LoseRace, LetGo, NoJob, AtWork, Job, DoneBlocks
<1>7. ASSUME NEW s \in Streams, FinishBlock(s) PROVE TypeOK'
  BY <1>7 DEF FinishBlock, LetGo, NoJob, AtWork, Job, DoneBlocks, NewGot
<1>8. ASSUME NEW s \in Streams, ComeUpShort(s) PROVE TypeOK'
  BY <1>8 DEF ComeUpShort, LetGo, NoJob, AtWork, Job, NewGot, OthersOn
<1>9. ASSUME NEW s \in Streams, FailLate(s) PROVE TypeOK'
  BY <1>9 DEF FailLate, LetGo, NoJob, AtWork, Job
<1>10. ASSUME NEW s \in Streams, FailAttempt(s) PROVE TypeOK'
  BY <1>10 DEF FailAttempt, LetGo, NoJob, AtWork, Job, OthersOn
<1>11. ASSUME NEW s \in Streams, Halt(s) PROVE TypeOK'
  BY <1>11 DEF Halt, AtWork
<1>12. ASSUME NEW s \in Streams, SaveOpen(s) PROVE TypeOK'
  BY <1>12 DEF SaveOpen, AtWork
<1>13. ASSUME NEW s \in Streams, SaveWrite(s) PROVE TypeOK'
  BY <1>13 DEF SaveWrite, AtWork
<1>14. ASSUME NEW s \in Streams, Receive(s) PROVE TypeOK'
  <2> USE <1>14 DEF Receive
  <2>1. job[s] \in Job /\ AtWork(s) /\ job[s].block \in Blocks
    BY DEF AtWork
  <2>2. job' = [job EXCEPT ![s] = [job[s] EXCEPT !.n = @ + 1, !.ok = stop]]
    BY DEF Job
  <2>3. job' \in [Streams -> Job]
    <3>1. job[s].n + 1 \in Nat /\ stop \in BOOLEAN
      BY <2>1 DEF Job
    <3>2. [job[s] EXCEPT !.n = job[s].n + 1, !.ok = stop] \in Job
      BY <2>1, <3>1, JobGrows, Zenon
    <3> QED
      BY <2>2, <3>2
  <2>4. \A t \in Streams : AtWork(t)' => AtWork(t)
    BY <2>1 DEF AtWork
  <2>5. \A t \in Streams : AtWork(t)' => /\ job'[t].block \in Blocks
                                         /\ job'[t].from + job'[t].n <=
                                              Size[job'[t].block] + Surplus(LaneOf[t])
    <3>1. job[s].from + job[s].n < Size[job[s].block] + Surplus(LaneOf[s])
      OBVIOUS
    <3>2. Surplus(LaneOf[s]) \in Nat
      BY SurplusNat
    <3>3. job[s].from + (job[s].n + 1) <= Size[job[s].block] + Surplus(LaneOf[s])
      BY <2>1, <3>1, <3>2 DEF Job
    <3> QED
      BY <2>1, <2>2, <2>4, <3>3 DEF Job
  <2>6. speed' \in [Streams -> Nat]
    OBVIOUS
  <2>7. PICK c \in Blocks, o \in Nat : Stored(job[s].block, job[s].from + job[s].n, c, o)
    <3>1. job[s].from + job[s].n \in Nat /\ landed \in [Blocks -> SUBSET Nat]
      BY <2>1 DEF Job
    <3> QED
      BY <2>1, <3>1, ReceiveStores
  <2> HIDE <1>14 DEF Receive
  <2>10. landed' \in [Blocks -> SUBSET Nat]
         /\ \A b \in Blocks : landed'[b] \subseteq Offsets(b) \/ b = NumBlocks
    <3>1. o \in Offsets(c) \/ c = NumBlocks
      BY <2>7 DEF Stored, Offsets
    <3> QED
      BY <2>7, <3>1 DEF Stored
  <2>8. pc' \in [Streams -> {"top", "pick", "read", "settle", "halt", "save", "write", "exit"}]
    BY <1>14 DEF Receive
  <2>9. doubtful' \in SUBSET Blocks
    <3>1. doubtful' = doubtful \/ doubtful' = doubtful \cup {c}
      BY <2>7 DEF Stored
    <3> QED
      BY <3>1
  <2> QED
    BY <1>14, <2>3, <2>5, <2>6, <2>8, <2>9, <2>10 DEF Receive
<1>15. ASSUME NEW s \in Streams, NEW ok \in BOOLEAN, EndTransfer(s, ok) PROVE TypeOK'
  <2> USE <1>15 DEF EndTransfer
  <2>1. job' \in [Streams -> Job]
    <3>1. [job[s] EXCEPT !.ok = ok] \in Job
      <4>1. job[s] \in Job
        OBVIOUS
      <4> QED
        BY <4>1, Zenon DEF Job
    <3>2. job' = [job EXCEPT ![s] = [job[s] EXCEPT !.ok = ok]]
      BY DEF Job
    <3> QED
      BY <3>1, <3>2
  <2>2. \A t \in Streams : AtWork(t)' => AtWork(t)
    BY DEF AtWork
  <2>3. \A t \in Streams : /\ job'[t].block = job[t].block
                           /\ job'[t].from = job[t].from
                           /\ job'[t].n = job[t].n
    BY DEF Job
  <2> QED
    BY <2>1, <2>2, <2>3
<1>16. ASSUME NEW s \in Streams, Age(s) PROVE TypeOK'
  BY <1>16 DEF Age, AtWork
<1>17. CASE Run
  BY <1>17 DEF Run, MonitorStop, Join, Verify, ReadBackFails, AtWork
<1>18. ASSUME NEW resume \in BOOLEAN, Restart(resume) PROVE TypeOK'
  <2> USE <1>18 DEF Restart
  <2>1. status' \in [Blocks -> {"Pending", "Running", "Done"}] /\ got' \in [Blocks -> Nat]
    BY DEF LoadedStatus, LoadedGot
  <2>2. \A b \in Blocks : status'[b] # "Done" => got'[b] < Size[b]
    BY DEF LoadedStatus, LoadedGot
  <2>3. idle' \in [Lanes -> Nat]
    BY StreamsOnNat
  <2>4. job' \in [Streams -> Job]
    BY DEF NoJob, Job
  <2>5. \A s \in Streams : ~ AtWork(s)'
    BY DEF AtWork
  <2>6. /\ attempts' \in [Blocks -> SUBSET Streams]
        /\ avoid' \in [Blocks -> Lanes \cup {None}]
        /\ hedges' \in [Blocks -> Nat]
        /\ empties' \in [Blocks -> Nat]
    OBVIOUS
  <2>7. /\ speed' \in [Streams -> Nat]
        /\ aged' \in SUBSET Streams
        /\ saving' \in [Streams -> SUBSET Blocks]
        /\ doubtful' \in SUBSET Blocks
        /\ runs' \in Nat
    OBVIOUS
  <2>8. record' = record /\ stop' = FALSE /\ main' = "watch"
    OBVIOUS
  <2>10. landed' \in [Blocks -> SUBSET Nat] /\ \A b \in Blocks : landed'[b] \subseteq Offsets(b)
    OBVIOUS
  <2>9. pc' \in [Streams -> {"top", "pick", "read", "settle", "halt", "save", "write", "exit"}]
    OBVIOUS
  <2> QED
    BY <2>1, <2>2, <2>3, <2>4, <2>5, <2>6, <2>7, <2>8, <2>9, <2>10
<1>19. CASE UNCHANGED vars
  BY <1>19 DEF vars, AtWork
<1> HIDE DEF TypeOK
<1>20. ASSUME NEW s \in Streams, Local(s) PROVE TypeOK'
  BY <1>1, <1>2, <1>3, <1>4, <1>5, <1>6, <1>7, <1>8, <1>9, <1>10, <1>11, <1>12, <1>13, <1>20
     DEF Local, Settle
<1>21. ASSUME NEW s \in Streams, Transfer(s) PROVE TypeOK'
  BY <1>14, <1>15, <1>21 DEF Transfer
<1> QED
  BY <1>16, <1>17, <1>18, <1>19, <1>20, <1>21 DEF Next, Terminated

\* Type correctness: every variable keeps its type, and every thread stays
\* inside the block it fetches.
THEOREM TypeCorrect == Spec => []TypeOK
  BY TypeInit, TypeStep, PTL DEF Spec

-----------------------------------------------------------------------------
(* The attempts on a block are the threads fetching it, and never more     *)
(* than two race for it.                                                   *)

AttemptsInv == TypeOK /\ AttemptsExact /\ RaceOfTwo

\* A step that moves no thread to or from work leaves the invariant alone.
LEMMA NobodyMoves ==
  ASSUME AttemptsExact, RaceOfTwo,
         status' = status, attempts' = attempts,
         \A s \in Streams : AtWork(s)' <=> AtWork(s),
         \A s \in Streams : job'[s].block = job[s].block /\ job'[s].hedged = job[s].hedged
  PROVE  AttemptsExact' /\ RaceOfTwo'
<1>1. \A b \in Blocks : On(b)' = On(b)
  BY DEF On
<1> QED
  BY <1>1 DEF AttemptsExact, RaceOfTwo, On

\* A step in which s alone stops working: its block may become Done, and is
\* Pending exactly when nobody is left on it.
LEMMA OneLeaves ==
  ASSUME NEW s \in Streams, NEW b \in Blocks,
         AttemptsInv, AtWork(s), job[s].block = b,
         ~ AtWork(s)',
         \A t \in Streams \ {s} : (AtWork(t)' <=> AtWork(t)) /\ job'[t] = job[t],
         \A c \in Blocks \ {b} : status'[c] = status[c] /\ attempts'[c] = attempts[c],
         \/ status'[b] = "Done" /\ attempts'[b] = {}
         \/ /\ status[b] # "Done"
            /\ attempts'[b] = attempts[b] \ {s}
            /\ status'[b] = IF attempts[b] \ {s} = {} THEN "Pending" ELSE status[b]
  PROVE  AttemptsExact' /\ RaceOfTwo'
<1>1. ~ AtWork(s)' /\ \A t \in Streams \ {s} : AtWork(t)' <=> AtWork(t)
  OBVIOUS
<1>2. On(b)' = On(b) \ {s} /\ \A c \in Blocks \ {b} : On(c)' = On(c)
  BY <1>1 DEF On
<1>3. \A c \in Blocks : s \notin On(c)'
  BY <1>1 DEF On
<1>4. RaceOfTwo'
  <2> SUFFICES ASSUME NEW c \in Blocks, status'[c] # "Done"
               PROVE  /\ \A p, q, r \in On(c)' : p = q \/ q = r \/ p = r
                      /\ \A p, q \in On(c)' : p = q \/ job'[p].hedged \/ job'[q].hedged
    BY DEF RaceOfTwo
  <2>1. status[c] # "Done"
    OBVIOUS
  <2>2. \A p \in On(c)' : p \in On(c) /\ job'[p] = job[p]
    BY <1>2, <1>3 DEF On
  <2> QED
    BY <2>1, <2>2 DEF RaceOfTwo, AttemptsInv
<1>5. AttemptsExact'
  <2> SUFFICES ASSUME NEW c \in Blocks
               PROVE  IF status'[c] = "Done" THEN attempts'[c] = {}
                      ELSE attempts'[c] = On(c)' /\ (status'[c] = "Running" <=> attempts'[c] # {})
    BY DEF AttemptsExact
  <2>1. CASE c # b
    BY <2>1, <1>2 DEF AttemptsInv, AttemptsExact
  <2>2. CASE c = b
    <3>1. CASE status'[b] = "Done" /\ attempts'[b] = {}
      BY <2>2, <3>1
    <3>2. CASE /\ status[b] # "Done"
               /\ attempts'[b] = attempts[b] \ {s}
               /\ status'[b] = IF attempts[b] \ {s} = {} THEN "Pending" ELSE status[b]
      <4>1. attempts[b] = On(b) /\ s \in On(b) /\ status[b] = "Running"
        BY <3>2 DEF AttemptsInv, AttemptsExact, On
      <4> QED
        BY <2>2, <3>2, <4>1, <1>2
    <3> QED
      BY <3>1, <3>2
  <2> QED
    BY <2>1, <2>2
<1> QED
  BY <1>4, <1>5

\* The attempts recorded on an unfinished block are exactly the threads at work
\* on it, and at most two threads, of which at most one continues the block,
\* ever race for it.
THEOREM RacesBounded == Spec => [](AttemptsExact /\ RaceOfTwo)
<1>1. Init => AttemptsExact /\ RaceOfTwo
  <2> SUFFICES ASSUME Init PROVE AttemptsExact /\ RaceOfTwo
    OBVIOUS
  <2>1. \A b \in Blocks : On(b) = {} /\ attempts[b] = {} /\ status[b] = "Pending"
    BY DEF Init, On, AtWork, LoadedStatus
  <2> QED
    BY <2>1 DEF AttemptsExact, RaceOfTwo
<1>2. AttemptsInv /\ [Next]_vars => (AttemptsExact /\ RaceOfTwo)'
  <2> SUFFICES ASSUME AttemptsInv, [Next]_vars PROVE AttemptsExact' /\ RaceOfTwo'
    OBVIOUS
  <2> USE DEF planVars
  <2>1. ASSUME NEW s \in Streams, Top(s) \/ SeeFinished(s) \/ TakeNothing(s) PROVE AttemptsExact' /\ RaceOfTwo'
    <3>1. \A t \in Streams : AtWork(t)' <=> AtWork(t)
      BY <2>1 DEF Top, SeeFinished, TakeNothing, AtWork, AttemptsInv, TypeOK
    <3> QED
      BY <2>1, <3>1, NobodyMoves DEF Top, SeeFinished, TakeNothing, AttemptsInv
  <2>2. ASSUME NEW s \in Streams, NEW b \in Blocks, TakePrimary(s, b) PROVE AttemptsExact' /\ RaceOfTwo'
    <3>1. status[b] = "Pending" /\ attempts[b] = {} /\ On(b) = {}
      BY <2>2 DEF TakePrimary, IsNextWaiting, Waiting, AttemptsInv, AttemptsExact
    <3>2. ~ AtWork(s) /\ AtWork(s)' /\ \A t \in Streams \ {s} : AtWork(t)' <=> AtWork(t)
      BY <2>2 DEF TakePrimary, Begin, AtWork, AttemptsInv, TypeOK
    <3>3. job'[s].block = b /\ \A t \in Streams \ {s} : job'[t] = job[t]
      BY <2>2 DEF TakePrimary, Begin, AttemptsInv, TypeOK
    <3>4. On(b)' = {s} /\ \A c \in Blocks \ {b} : On(c)' = On(c) /\ s \notin On(c)
      BY <3>1, <3>2, <3>3 DEF On
    <3>5. /\ status'[b] = "Running" /\ attempts'[b] = {s}
          /\ \A c \in Blocks \ {b} : status'[c] = status[c] /\ attempts'[c] = attempts[c]
      BY <2>2, <3>1 DEF TakePrimary, Begin, AttemptsInv, TypeOK
    <3>6. AttemptsExact'
      BY <3>4, <3>5 DEF AttemptsExact, AttemptsInv
    <3>7. RaceOfTwo'
      BY <3>3, <3>4, <3>5 DEF RaceOfTwo, AttemptsInv, On
    <3> QED
      BY <3>6, <3>7
  <2>3. ASSUME NEW s \in Streams, NEW b \in Blocks, TakeHedge(s, b) PROVE AttemptsExact' /\ RaceOfTwo'
    <3>1. PICK h \in Streams \ {s} : attempts[b] = {h} /\ status[b] = "Running" /\ On(b) = {h}
      BY <2>3 DEF TakeHedge, IsNextHedge, Hedgeable, AttemptsInv, AttemptsExact
    <3>2. ~ AtWork(s) /\ AtWork(s)' /\ \A t \in Streams \ {s} : AtWork(t)' <=> AtWork(t)
      BY <2>3 DEF TakeHedge, Begin, AtWork, AttemptsInv, TypeOK
    <3>3. job'[s].block = b /\ job'[s].hedged /\ \A t \in Streams \ {s} : job'[t] = job[t]
      BY <2>3 DEF TakeHedge, Begin, AttemptsInv, TypeOK
    <3>4. On(b)' = {h, s} /\ \A c \in Blocks \ {b} : On(c)' = On(c) /\ s \notin On(c)
      BY <3>1, <3>2, <3>3 DEF On
    <3>5. /\ status'[b] = "Running" /\ attempts'[b] = {h, s}
          /\ \A c \in Blocks \ {b} : status'[c] = status[c] /\ attempts'[c] = attempts[c]
      BY <2>3, <3>1 DEF TakeHedge, Begin, AttemptsInv, TypeOK
    <3>6. AttemptsExact'
      BY <3>4, <3>5 DEF AttemptsExact, AttemptsInv
    <3>7. RaceOfTwo'
      BY <3>3, <3>4, <3>5 DEF RaceOfTwo, AttemptsInv, On
    <3> QED
      BY <3>6, <3>7
  <2>4. ASSUME NEW s \in Streams, Settle(s) PROVE AttemptsExact' /\ RaceOfTwo'
    <3> DEFINE b == job[s].block
    <3>1. /\ AtWork(s) /\ b \in Blocks /\ ~ AtWork(s)'
          /\ \A t \in Streams \ {s} : AtWork(t)' <=> AtWork(t)
      <4>1. AtWork(s) /\ b \in Blocks
        BY <2>4 DEF Settle, LoseRace, FinishBlock, ComeUpShort, FailLate, FailAttempt, AtWork, AttemptsInv, TypeOK
      <4>2. \E w \in {"save", "top", "halt"} : pc' = [pc EXCEPT ![s] = w]
        BY <2>4 DEF Settle, LoseRace, FinishBlock, ComeUpShort, FailLate, FailAttempt
      <4> QED
        BY <4>1, <4>2 DEF AttemptsInv, TypeOK, AtWork
    <3>2. \A t \in Streams \ {s} : job'[t] = job[t]
      BY <2>4 DEF Settle, LoseRace, FinishBlock, ComeUpShort, FailLate, FailAttempt, LetGo, AttemptsInv, TypeOK
    <3>3. \A c \in Blocks \ {b} : status'[c] = status[c] /\ attempts'[c] = attempts[c]
      BY <2>4 DEF Settle, LoseRace, FinishBlock, ComeUpShort, FailLate, FailAttempt, AttemptsInv, TypeOK
    <3>4. \/ status'[b] = "Done" /\ attempts'[b] = {}
          \/ /\ status[b] # "Done"
             /\ attempts'[b] = attempts[b] \ {s}
             /\ status'[b] = IF attempts[b] \ {s} = {} THEN "Pending" ELSE status[b]
      <4>1. CASE LoseRace(s) \/ FailLate(s)
        BY <4>1, <3>1 DEF LoseRace, FailLate, AttemptsInv, TypeOK, AttemptsExact
      <4>2. CASE FinishBlock(s)
        BY <4>2, <3>1 DEF FinishBlock, AttemptsInv, TypeOK
      <4>3. CASE ComeUpShort(s) \/ FailAttempt(s)
        BY <4>3, <3>1 DEF ComeUpShort, FailAttempt, OthersOn, AttemptsInv, TypeOK
      <4> QED
        BY <2>4, <4>1, <4>2, <4>3 DEF Settle
    <3> HIDE DEF b
    <3>5. job[s].block = b
      BY DEF b
    <3> QED
      BY <3>1, <3>2, <3>3, <3>4, <3>5, OneLeaves
  <2>5. ASSUME NEW s \in Streams, Halt(s) \/ SaveOpen(s) \/ SaveWrite(s) PROVE AttemptsExact' /\ RaceOfTwo'
    <3>1. \A t \in Streams : AtWork(t)' <=> AtWork(t)
      BY <2>5 DEF Halt, SaveOpen, SaveWrite, AtWork, AttemptsInv, TypeOK
    <3> QED
      BY <2>5, <3>1, NobodyMoves DEF Halt, SaveOpen, SaveWrite, AttemptsInv
  <2>6. ASSUME NEW s \in Streams, Transfer(s) PROVE AttemptsExact' /\ RaceOfTwo'
    <3>1. \A t \in Streams : AtWork(t)' <=> AtWork(t)
      BY <2>6 DEF Transfer, Receive, EndTransfer, AtWork, AttemptsInv, TypeOK
    <3>2. \A t \in Streams : job'[t].block = job[t].block /\ job'[t].hedged = job[t].hedged
      <4>1. CASE Receive(s)
        BY <4>1 DEF Receive, AttemptsInv, TypeOK, Job
      <4>2. ASSUME NEW ok \in BOOLEAN, EndTransfer(s, ok) PROVE \A t \in Streams : job'[t].block = job[t].block /\ job'[t].hedged = job[t].hedged
        BY <4>2 DEF EndTransfer, AttemptsInv, TypeOK, Job
      <4> QED
        BY <2>6, <4>1, <4>2 DEF Transfer
    <3> QED
      BY <2>6, <3>1, <3>2, NobodyMoves DEF Transfer, Receive, EndTransfer, AttemptsInv
  <2>7. CASE (\E s \in Streams : Age(s)) \/ Run \/ UNCHANGED vars
    <3>1. \A t \in Streams : AtWork(t)' <=> AtWork(t)
      BY <2>7 DEF Age, Run, MonitorStop, Join, Verify, ReadBackFails, vars, AtWork
    <3> QED
      BY <2>7, <3>1, NobodyMoves DEF Age, Run, MonitorStop, Join, Verify, ReadBackFails, vars, AttemptsInv
  <2>8. ASSUME NEW resume \in BOOLEAN, Restart(resume) PROVE AttemptsExact' /\ RaceOfTwo'
    <3>1. \A b \in Blocks : On(b)' = {} /\ attempts'[b] = {}
      BY <2>8 DEF Restart, On, AtWork
    <3>2. \A b \in Blocks : status'[b] # "Running"
      BY <2>8 DEF Restart, LoadedStatus
    <3> QED
      BY <3>1, <3>2 DEF AttemptsExact, RaceOfTwo
  <2> QED
    BY <2>1, <2>2, <2>3, <2>4, <2>5, <2>6, <2>7, <2>8
       DEF Next, Local, Terminated
<1> QED
  BY <1>1, <1>2, TypeCorrect, PTL DEF Spec, AttemptsInv

\* No block is left Running by a thread that went away, or taken from one that
\* is still at work on it.
THEOREM NobodyForgotten == Spec => []AttemptsExact
BY RacesBounded, PTL

-----------------------------------------------------------------------------
(* The idle count of a lane is the number of its idle streams.             *)

\* The streams of a lane that are not fetching.
IdleOn(l) == {s \in Streams : LaneOf[s] = l /\ ~ AtWork(s)}

\* There are finitely many of them.
LEMMA IdleFinite == ASSUME NEW l \in Lanes PROVE IsFiniteSet(IdleOn(l))
BY FS_Subset, SchedAssumption DEF IdleOn, SchedAssumption

\* A step that sends nobody to work and takes nobody from it leaves the count
\* exact if it leaves it alone.
LEMMA IdleUnmoved ==
  ASSUME IdleExact, idle' = idle, \A s \in Streams : AtWork(s)' <=> AtWork(s)
  PROVE  IdleExact'
<1>1. \A l \in Lanes : IdleOn(l)' = IdleOn(l)
  BY DEF IdleOn
<1> QED
  BY <1>1 DEF IdleExact, IdleOn

\* A stream that starts fetching was counted, so that the subtraction does not
\* stop at zero.
LEMMA IdleStarts ==
  ASSUME TypeOK, IdleExact, NEW s \in Streams, ~ AtWork(s), AtWork(s)',
         \A t \in Streams \ {s} : AtWork(t)' <=> AtWork(t),
         idle' = [idle EXCEPT ![LaneOf[s]] = IF @ > 0 THEN @ - 1 ELSE 0]
  PROVE  IdleExact'
<1> DEFINE here == LaneOf[s]
<1>1. here \in Lanes
  BY SchedAssumption DEF SchedAssumption
<1>2. IdleOn(here)' = IdleOn(here) \ {s} /\ \A l \in Lanes \ {here} : IdleOn(l)' = IdleOn(l)
  BY DEF IdleOn
<1>3. Cardinality(IdleOn(here)') = Cardinality(IdleOn(here)) - 1
  <2>1. s \in IdleOn(here)
    BY DEF IdleOn
  <2> QED
    BY <1>1, <1>2, <2>1, IdleFinite, FS_RemoveElement
<1>4. Cardinality(IdleOn(here)) \in Nat /\ Cardinality(IdleOn(here)') \in Nat
  <2>1. IsFiniteSet(IdleOn(here)) /\ IsFiniteSet(IdleOn(here) \ {s})
    BY <1>1, IdleFinite, FS_RemoveElement
  <2> QED
    BY <1>2, <2>1, FS_CardinalityType
<1>5. idle[here] = Cardinality(IdleOn(here))
  BY <1>1 DEF IdleExact, IdleOn
<1>6. idle'[here] = Cardinality(IdleOn(here)')
  BY <1>1, <1>3, <1>4, <1>5 DEF TypeOK
<1>7. \A l \in Lanes \ {here} : idle'[l] = Cardinality(IdleOn(l)')
  BY <1>1, <1>2 DEF IdleExact, IdleOn, TypeOK
<1> HIDE DEF here
<1>8. \A l \in Lanes : idle'[l] = Cardinality(IdleOn(l)')
  BY <1>6, <1>7
<1> QED
  BY <1>8 DEF IdleExact, IdleOn

\* A stream that lets go is counted again.
LEMMA IdleReturns ==
  ASSUME TypeOK, IdleExact, NEW s \in Streams, AtWork(s), ~ AtWork(s)',
         \A t \in Streams \ {s} : AtWork(t)' <=> AtWork(t),
         idle' = [idle EXCEPT ![LaneOf[s]] = @ + 1]
  PROVE  IdleExact'
<1> DEFINE here == LaneOf[s]
<1>1. here \in Lanes
  BY SchedAssumption DEF SchedAssumption
<1>2. IdleOn(here)' = IdleOn(here) \cup {s} /\ \A l \in Lanes \ {here} : IdleOn(l)' = IdleOn(l)
  BY DEF IdleOn
<1>3. Cardinality(IdleOn(here)') = Cardinality(IdleOn(here)) + 1
  <2>1. s \notin IdleOn(here)
    BY DEF IdleOn
  <2> QED
    BY <1>1, <1>2, <2>1, IdleFinite, FS_AddElement
<1>4. idle[here] = Cardinality(IdleOn(here))
  BY <1>1 DEF IdleExact, IdleOn
<1>5. idle'[here] = Cardinality(IdleOn(here)')
  BY <1>1, <1>3, <1>4 DEF TypeOK
<1>6. \A l \in Lanes \ {here} : idle'[l] = Cardinality(IdleOn(l)')
  BY <1>1, <1>2 DEF IdleExact, IdleOn, TypeOK
<1> HIDE DEF here
<1>7. \A l \in Lanes : idle'[l] = Cardinality(IdleOn(l)')
  BY <1>5, <1>6
<1> QED
  BY <1>7 DEF IdleExact, IdleOn

\* The count starts exact with every run.
LEMMA IdleFresh ==
  ASSUME \A s \in Streams : ~ AtWork(s), idle = [l \in Lanes |-> StreamsOn(l)]
  PROVE  IdleExact
<1>1. \A l \in Lanes : IdleOn(l) = {s \in Streams : LaneOf[s] = l}
  BY DEF IdleOn
<1> QED
  BY <1>1 DEF IdleExact, IdleOn, StreamsOn

\* The idle count every rule of the scheduler reads is the true one, although
\* it is counted down where work is taken, with a subtraction that stops at
\* zero, and up where a transfer is settled.
THEOREM IdleCounted == Spec => []IdleExact
<1>1. Init => IdleExact
  BY IdleFresh DEF Init, AtWork
<1>2. TypeOK /\ IdleExact /\ [Next]_vars => IdleExact'
  <2> SUFFICES ASSUME TypeOK, IdleExact, [Next]_vars PROVE IdleExact'
    OBVIOUS
  <2>1. ASSUME NEW s \in Streams, NEW b \in Blocks, TakePrimary(s, b) \/ TakeHedge(s, b)
        PROVE  IdleExact'
    <3>1. ~ AtWork(s) /\ AtWork(s)' /\ \A t \in Streams \ {s} : AtWork(t)' <=> AtWork(t)
      BY <2>1 DEF TakePrimary, TakeHedge, Begin, AtWork, TypeOK
    <3>2. idle' = [idle EXCEPT ![LaneOf[s]] = IF @ > 0 THEN @ - 1 ELSE 0]
      BY <2>1 DEF TakePrimary, TakeHedge, Begin
    <3> QED
      BY <3>1, <3>2, IdleStarts
  <2>2. ASSUME NEW s \in Streams, Settle(s) PROVE IdleExact'
    <3>1. \E w \in {"save", "top", "halt"} : pc' = [pc EXCEPT ![s] = w]
      BY <2>2 DEF Settle, LoseRace, FinishBlock, ComeUpShort, FailLate, FailAttempt
    <3>2. pc[s] = "settle" /\ idle' = [idle EXCEPT ![LaneOf[s]] = @ + 1]
      BY <2>2 DEF Settle, LoseRace, FinishBlock, ComeUpShort, FailLate, FailAttempt, LetGo
    <3>3. AtWork(s) /\ ~ AtWork(s)' /\ \A t \in Streams \ {s} : AtWork(t)' <=> AtWork(t)
      BY <3>1, <3>2 DEF AtWork, TypeOK
    <3> QED
      BY <3>2, <3>3, IdleReturns
  <2>3. ASSUME NEW s \in Streams, \/ Top(s) \/ SeeFinished(s) \/ TakeNothing(s) \/ Halt(s)
                                  \/ SaveOpen(s) \/ SaveWrite(s)
        PROVE  IdleExact'
    <3>1. \A t \in Streams : AtWork(t)' <=> AtWork(t)
      BY <2>3 DEF Top, SeeFinished, TakeNothing, Halt, SaveOpen, SaveWrite, AtWork, TypeOK
    <3>2. idle' = idle
      BY <2>3 DEF Top, SeeFinished, TakeNothing, Halt, SaveOpen, SaveWrite, planVars
    <3> QED
      BY <3>1, <3>2, IdleUnmoved
  <2>4. ASSUME NEW s \in Streams, Transfer(s) PROVE IdleExact'
    <3>1. (\A t \in Streams : AtWork(t)' <=> AtWork(t)) /\ idle' = idle
      BY <2>4 DEF Transfer, Receive, EndTransfer, AtWork, TypeOK, planVars
    <3> QED
      BY <3>1, IdleUnmoved
  <2>5. CASE (\E s \in Streams : Age(s)) \/ Run \/ UNCHANGED vars
    <3>1. (\A t \in Streams : AtWork(t)' <=> AtWork(t)) /\ idle' = idle
      BY <2>5 DEF Age, Run, MonitorStop, Join, Verify, ReadBackFails, AtWork, vars, planVars
    <3> QED
      BY <3>1, IdleUnmoved
  <2>6. ASSUME NEW resume \in BOOLEAN, Restart(resume) PROVE IdleExact'
    <3>1. \A l \in Lanes : IdleOn(l)' = {s \in Streams : LaneOf[s] = l}
      BY <2>6 DEF IdleOn, AtWork, Restart
    <3>2. idle' = [l \in Lanes |-> StreamsOn(l)]
      BY <2>6 DEF Restart
    <3> QED
      BY <3>1, <3>2 DEF IdleExact, IdleOn, StreamsOn
  <2> QED
    BY <2>1, <2>2, <2>3, <2>4, <2>5, <2>6 DEF Next, Local, Terminated
<1> QED
  BY <1>1, <1>2, TypeCorrect, PTL DEF Spec

-----------------------------------------------------------------------------
(* What is counted as done is in the file.                                 *)

SoundInv == AttemptsInv /\ DiskInv

\* A step that counts nothing and starts nothing keeps what is counted sound,
\* if what it records or is about to record is.
LEMMA NothingCounted ==
  ASSUME TypeOK, DiskInv, got' = got, landed' = landed, doubtful' = doubtful,
         \A b \in Blocks : status'[b] = "Done" <=> status[b] = "Done",
         \A s \in Streams : AtWork(s)' => /\ AtWork(s)
                                          /\ job'[s].block = job[s].block
                                          /\ job'[s].from = job[s].from
                                          /\ job'[s].n = job[s].n
                                          /\ job'[s].hedged = job[s].hedged,
         \A b \in record' : Sound(b),
         \A s \in Streams : \A b \in saving'[s] : Sound(b)
  PROVE  DiskInv'
<1> USE DEF DiskInv
<1>1. \A s \in Streams : AtWork(s) => job[s].block \in Blocks
  BY DEF TypeOK
<1>2. \A b : Sound(b)' <=> Sound(b)
  BY DEF Sound, Complete
<1>3. JobsLanded'
  BY DEF JobsLanded
<1>4. CountLanded'
  BY DEF CountLanded
<1>5. PrimaryContinues'
  BY <1>1 DEF PrimaryContinues
<1>6. DoneMeansLanded'
  BY <1>2 DEF DoneMeansLanded
<1>7. RecordTrusted' /\ SavingTrusted'
  BY <1>2 DEF RecordTrusted, SavingTrusted
<1>8. NothingBeyond'
  BY DEF NothingBeyond
<1> QED
  BY <1>3, <1>4, <1>5, <1>6, <1>7, <1>8

\* Starting an attempt on an unfinished block keeps what is counted sound.
LEMMA BeginSound ==
  ASSUME NEW s \in Streams, NEW b \in Blocks, NEW hedged \in BOOLEAN,
         TypeOK, DiskInv, Begin(s, b, hedged), pc[s] = "pick", status[b] # "Done"
  PROVE  DiskInv'
<1> USE DEF DiskInv, Begin
<1>1. \A t \in Streams : AtWork(t) => job[t].block \in Blocks
  BY DEF TypeOK
<1>2. \A c : Sound(c)' <=> Sound(c)
  BY DEF Sound, Complete
<1>3. \A t \in Streams \ {s} : job'[t] = job[t] /\ (AtWork(t)' <=> AtWork(t))
  BY DEF TypeOK, AtWork
<1>4. /\ job'[s].block = b /\ job'[s].hedged = hedged /\ job'[s].n = 0
      /\ job'[s].from = IF hedged THEN 0 ELSE got[b]
  BY DEF TypeOK
<1>5. \A c \in Blocks : status'[c] = "Done" <=> status[c] = "Done"
  BY DEF TypeOK
<1>6. got[b] \in Nat
  BY DEF TypeOK
<1>7. JobsLanded'
  BY <1>3, <1>4, <1>6 DEF JobsLanded
<1>8. CountLanded'
  BY <1>5 DEF CountLanded
<1>9. PrimaryContinues'
  <2> SUFFICES ASSUME NEW t \in Streams, AtWork(t)', ~ job'[t].hedged,
                      status'[job'[t].block] # "Done", job'[t].block \notin doubtful'
               PROVE  /\ got'[job'[t].block] <= job'[t].from
                      /\ 0 .. job'[t].from - 1 \subseteq landed'[job'[t].block]
    BY DEF PrimaryContinues
  <2>1. CASE t = s
    BY <2>1, <1>4, <1>6 DEF CountLanded
  <2>2. CASE t # s
    BY <2>2, <1>1, <1>3, <1>5 DEF PrimaryContinues
  <2> QED
    BY <2>1, <2>2
<1>10. DoneMeansLanded'
  BY <1>2, <1>5 DEF DoneMeansLanded
<1>11. RecordTrusted' /\ SavingTrusted'
  BY <1>2 DEF RecordTrusted, SavingTrusted
<1>12. NothingBeyond'
  BY DEF NothingBeyond
<1> QED
  BY <1>7, <1>8, <1>9, <1>10, <1>11, <1>12

\* A unit that arrives keeps what is counted sound.
LEMMA ReceiveSound ==
  ASSUME NEW s \in Streams, TypeOK, DiskInv, Receive(s)
  PROVE  DiskInv'
<1> DEFINE b == job[s].block
           at == job[s].from + job[s].n
<1> USE DEF DiskInv, Receive
<1>1. AtWork(s) /\ b \in Blocks /\ job[s] \in Job
  BY DEF TypeOK, AtWork
<1>2. \A t \in Streams : AtWork(t)' => AtWork(t)
  BY <1>1 DEF TypeOK, AtWork
<1>3. /\ job'[s].block = b /\ job'[s].hedged = job[s].hedged
      /\ job'[s].from = job[s].from /\ job'[s].n = job[s].n + 1
      /\ \A t \in Streams \ {s} : job'[t] = job[t]
  BY <1>1 DEF TypeOK, Job
<1>4. PICK c \in Blocks, o \in Nat : Stored(b, at, c, o)
  <2>1. at \in Nat /\ landed \in [Blocks -> SUBSET Nat]
    BY <1>1 DEF Job, TypeOK
  <2> QED
    BY <1>1, <2>1, ReceiveStores
<1>5. /\ doubtful \subseteq doubtful'
      /\ \A d \in Blocks : d \notin doubtful' => landed[d] \subseteq landed'[d]
      /\ at < Size[b] /\ b \notin doubtful' => landed'[b] = landed[b] \cup {at}
  BY <1>1, <1>4 DEF Stored
<1>6. \A d \in Blocks : d \in doubtful' \/ (d \notin doubtful /\ landed[d] \subseteq landed'[d])
  BY <1>5
<1>7. \A d \in Blocks : Sound(d) => Sound(d)'
  <2> HIDE DEF DiskInv, Receive
  <2>1. ASSUME NEW d \in Blocks, Complete(d), d \notin doubtful'
        PROVE  landed'[d] = Offsets(d)
    <3>1. landed[d] = Offsets(d) /\ landed[d] \subseteq landed'[d]
      BY <1>6, <2>1 DEF Complete
    <3>2. landed'[d] = landed[d] \/ \E i \in Offsets(d) : landed'[d] = landed[d] \cup {i}
      BY <1>4, <2>1 DEF Stored
    <3> QED
      BY <3>1, <3>2
  <2> QED
    BY <1>6, <2>1 DEF Sound, Complete
<1>8. \A t \in Streams : AtWork(t) => job[t].block \in Blocks
  BY DEF TypeOK
<1>9. JobsLanded'
  <2> SUFFICES ASSUME NEW t \in Streams, AtWork(t)'
               PROVE  /\ \/ job'[t].block \in doubtful'
                         \/ \A i \in Offsets(job'[t].block) :
                               i \in job'[t].from .. job'[t].from + job'[t].n - 1 =>
                                   i \in landed'[job'[t].block]
                      /\ job'[t].hedged => job'[t].from = 0
    BY DEF JobsLanded, Offsets
  <2>1. CASE t = s
    <3>1. job[s].hedged => job[s].from = 0
      BY <1>1 DEF JobsLanded
    <3>2. CASE b \in doubtful'
      BY <2>1, <1>3, <3>1, <3>2
    <3>3. CASE b \notin doubtful'
      <4>1. job[s].from \in Nat /\ job[s].n \in Nat /\ Size[b] \in Nat
        BY <1>1, SchedAssumption DEF Job, SchedAssumption
      <4>2. ASSUME NEW i \in Offsets(b), i \in job[s].from .. job[s].from + (job[s].n + 1) - 1
            PROVE  i \in landed'[b]
        <5>1. i \in Nat /\ i < Size[b]
          BY <4>1 DEF Offsets
        <5>2. CASE i = at
          BY <3>3, <5>1, <5>2, <1>5
        <5>3. CASE i # at
          <6>1. i \in job[s].from .. job[s].from + job[s].n - 1
            BY <4>1, <4>2, <5>1, <5>3
          <6>2. i \in landed[b]
            BY <3>3, <6>1, <1>1, <1>5, <4>2 DEF JobsLanded
          <6> QED
            BY <3>3, <6>2, <1>1, <1>5
        <5> QED
          BY <5>2, <5>3
      <4> QED
        BY <2>1, <1>3, <3>1, <4>2
    <3> QED
      BY <3>2, <3>3
  <2>2. CASE t # s
    BY <2>2, <1>2, <1>3, <1>6, <1>8 DEF JobsLanded
  <2> QED
    BY <2>1, <2>2
<1>10. CountLanded'
  BY <1>6 DEF CountLanded
<1>11. PrimaryContinues'
  <2>1. \A t \in Streams : /\ job'[t].block = job[t].block /\ job'[t].hedged = job[t].hedged
                           /\ job'[t].from = job[t].from
    BY <1>3
  <2>2. status' = status /\ got' = got
    OBVIOUS
  <2> SUFFICES ASSUME NEW t \in Streams, AtWork(t)', ~ job'[t].hedged,
                      status'[job'[t].block] # "Done", job'[t].block \notin doubtful'
               PROVE  /\ got'[job'[t].block] <= job'[t].from
                      /\ 0 .. job'[t].from - 1 \subseteq landed'[job'[t].block]
    BY DEF PrimaryContinues
  <2>3. /\ got[job[t].block] <= job[t].from
        /\ 0 .. job[t].from - 1 \subseteq landed[job[t].block]
    BY <2>1, <2>2, <1>2 DEF PrimaryContinues
  <2> QED
    BY <2>1, <2>2, <2>3, <1>2, <1>6, <1>8
<1>12. DoneMeansLanded'
  BY <1>7 DEF DoneMeansLanded
<1>13. RecordTrusted' /\ SavingTrusted'
  BY <1>7 DEF RecordTrusted, SavingTrusted, TypeOK
<1>14. NothingBeyond'
  BY <1>4 DEF Stored, NothingBeyond
<1> QED
  BY <1>9, <1>10, <1>11, <1>12, <1>13, <1>14

\* What a transfer that settles Ok makes its unfinished block count is in the
\* file, unless the block is exempt.
LEMMA NewGotLanded ==
  ASSUME NEW s \in Streams, TypeOK, DiskInv, AtWork(s),
         status[job[s].block] # "Done", job[s].block \notin doubtful
  PROVE  /\ NewGot(s) \in Nat
         /\ \A i \in Offsets(job[s].block) : i < NewGot(s) => i \in landed[job[s].block]
<1> DEFINE b == job[s].block
<1>0. \A i \in Offsets(b) : i \in Nat
  BY DEF Offsets
<1>1. b \in Blocks /\ job[s].from \in Nat /\ job[s].n \in Nat /\ got[b] \in Nat /\ job[s].hedged \in BOOLEAN
  BY DEF TypeOK, Job
<1>2. /\ \A i \in Offsets(b) : i \in job[s].from .. job[s].from + job[s].n - 1 => i \in landed[b]
      /\ job[s].hedged => job[s].from = 0
  BY DEF DiskInv, JobsLanded
<1>3. CASE job[s].hedged
  BY <1>0, <1>1, <1>2, <1>3 DEF NewGot
<1>4. CASE ~ job[s].hedged
  <2>1. got[b] <= job[s].from /\ 0 .. job[s].from - 1 \subseteq landed[b]
    BY <1>4 DEF DiskInv, PrimaryContinues
  <2>2. NewGot(s) = got[b] + job[s].n
    BY <1>4 DEF NewGot
  <2> HIDE DEF b
  <2>3. \A i \in Offsets(b) : i < NewGot(s) => i \in 0 .. job[s].from - 1 \/ i \in job[s].from .. job[s].from + job[s].n - 1
    BY <1>0, <1>1, <2>1, <2>2
  <2> QED
    BY <1>1, <1>2, <2>1, <2>2, <2>3 DEF b
<1> QED
  BY <1>1, <1>3, <1>4

\* Marking a block Done keeps what is counted sound.
LEMMA FinishSound ==
  ASSUME NEW s \in Streams, AttemptsInv, DiskInv, FinishBlock(s)
  PROVE  DiskInv'
<1> DEFINE b == job[s].block
<1> USE DEF FinishBlock
<1>1. AtWork(s) /\ b \in Blocks /\ TypeOK
  BY DEF AttemptsInv, TypeOK, AtWork
<1>2. ~ AtWork(s)' /\ \A t \in Streams \ {s} : job'[t] = job[t] /\ (AtWork(t)' <=> AtWork(t))
  BY <1>1 DEF LetGo, TypeOK, AtWork
<1>3. /\ status'[b] = "Done" /\ status[b] # "Done"
      /\ \A c \in Blocks \ {b} : status'[c] = status[c] /\ got'[c] = got[c]
  BY <1>1 DEF TypeOK
<1>4. \A c : Sound(c)' <=> Sound(c)
  BY DEF Sound, Complete
<1>5. Sound(b)
  <2> SUFFICES ASSUME b \notin doubtful PROVE Complete(b)
    BY DEF Sound
  <2>1. NewGot(s) \in Nat /\ \A i \in Offsets(b) : i < NewGot(s) => i \in landed[b]
    BY <1>1, <1>3, NewGotLanded
  <2>2. Size[b] \in Nat /\ NewGot(s) >= Size[b] /\ landed[b] \subseteq Offsets(b)
    BY <1>1, SchedAssumption DEF SchedAssumption, DiskInv, NothingBeyond
  <2> HIDE DEF b
  <2>3. \A i \in Offsets(b) : i < NewGot(s)
    BY <2>1, <2>2 DEF Offsets
  <2> QED
    BY <2>1, <2>2, <2>3 DEF Complete
<1>6. \A t \in Streams : AtWork(t) => job[t].block \in Blocks
  BY <1>1 DEF TypeOK
<1> HIDE DEF b
<1>7. JobsLanded'
  BY <1>2 DEF DiskInv, JobsLanded
<1>8. CountLanded'
  BY <1>3 DEF DiskInv, CountLanded
<1>9. PrimaryContinues'
  BY <1>2, <1>3, <1>6 DEF DiskInv, PrimaryContinues
<1>10. DoneMeansLanded'
  BY <1>3, <1>4, <1>5 DEF DiskInv, DoneMeansLanded
<1>11. RecordTrusted'
  BY <1>4 DEF DiskInv, RecordTrusted
<1>12. SavingTrusted'
  <2>1. saving' = [saving EXCEPT ![s] = DoneBlocks \cup {b}]
    BY DEF b
  <2> QED
    BY <2>1, <1>1, <1>4, <1>5 DEF DiskInv, SavingTrusted, DoneBlocks, DoneMeansLanded, TypeOK
<1>13. NothingBeyond'
  BY DEF DiskInv, NothingBeyond
<1> QED
  BY <1>7, <1>8, <1>9, <1>10, <1>11, <1>12, <1>13 DEF DiskInv

\* Counting what a short transfer delivered keeps what is counted sound: the
\* block is exempt from here on if a hedge moved the count under a primary.
LEMMA ShortSound ==
  ASSUME NEW s \in Streams, AttemptsInv, DiskInv, ComeUpShort(s)
  PROVE  DiskInv'
<1> DEFINE b == job[s].block
<1> USE DEF ComeUpShort
<1>1. AtWork(s) /\ b \in Blocks /\ TypeOK /\ s \in On(b)
  BY DEF AttemptsInv, TypeOK, AtWork, On
<1>2. ~ AtWork(s)' /\ \A t \in Streams \ {s} : job'[t] = job[t] /\ (AtWork(t)' <=> AtWork(t))
  BY <1>1 DEF LetGo, TypeOK, AtWork
<1>3. /\ status'[b] # "Done" /\ status[b] # "Done" /\ got'[b] = NewGot(s)
      /\ \A c \in Blocks \ {b} : status'[c] = status[c] /\ got'[c] = got[c]
  BY <1>1 DEF TypeOK
<1>4. landed' = landed /\ doubtful \subseteq doubtful'
  OBVIOUS
<1>5. \A c : Sound(c) => Sound(c)'
  BY <1>4 DEF Sound, Complete
<1>6. \A t \in Streams : AtWork(t) => job[t].block \in Blocks
  BY <1>1 DEF TypeOK
<1>7. CountLanded'
  <2> SUFFICES ASSUME NEW c \in Blocks, status'[c] # "Done", c \notin doubtful'
               PROVE  0 .. got'[c] - 1 \subseteq landed'[c]
    BY DEF CountLanded
  <2>1. CASE c = b
    <3>1. /\ NewGot(s) \in Nat /\ Size[b] \in Nat /\ NewGot(s) < Size[b]
          /\ \A i \in Offsets(b) : i < NewGot(s) => i \in landed[b]
      BY <2>1, <1>1, <1>3, <1>4, NewGotLanded, SchedAssumption DEF SchedAssumption
    <3>2. \A i \in 0 .. NewGot(s) - 1 : i \in Offsets(b) /\ i < NewGot(s)
      BY <3>1 DEF Offsets
    <3> QED
      BY <2>1, <3>1, <3>2, <1>3, <1>4
  <2>2. CASE c # b
    BY <2>2, <1>3, <1>4 DEF DiskInv, CountLanded
  <2> QED
    BY <2>1, <2>2
<1>8. PrimaryContinues'
  <2> SUFFICES ASSUME NEW t \in Streams, AtWork(t)', ~ job'[t].hedged,
                      status'[job'[t].block] # "Done", job'[t].block \notin doubtful'
               PROVE  /\ got'[job'[t].block] <= job'[t].from
                      /\ 0 .. job'[t].from - 1 \subseteq landed'[job'[t].block]
    BY DEF PrimaryContinues
  <2>1. t # s /\ AtWork(t) /\ job'[t] = job[t] /\ job[t].block \notin doubtful /\ job[t].block \in Blocks
    BY <1>2, <1>4, <1>6
  <2>2. status[job[t].block] # "Done"
    BY <2>1, <1>3
  <2>3. got[job[t].block] <= job[t].from /\ 0 .. job[t].from - 1 \subseteq landed[job[t].block]
    BY <2>1, <2>2 DEF DiskInv, PrimaryContinues
  <2>4. CASE job[t].block = b
    <3>1. t \in On(b)
      BY <2>1, <2>4 DEF On
    <3>2. job[s].hedged
      BY <3>1, <2>1, <1>1, <1>3 DEF AttemptsInv, RaceOfTwo
    <3>3. ~ Miscounts(s)
      BY <2>1, <2>4
    <3>4. ~ (job[t].from < job[s].n)
      BY <3>1, <3>2, <3>3, <2>1 DEF Miscounts
    <3>5. job[t].from \in Nat /\ job[s].n \in Nat /\ got'[b] = job[s].n
      BY <3>2, <1>1, <1>3 DEF TypeOK, Job, NewGot
    <3> QED
      BY <3>4, <3>5, <2>1, <2>3, <2>4, <1>4
  <2>5. CASE job[t].block # b
    BY <2>1, <2>3, <2>5, <1>3, <1>4
  <2> QED
    BY <2>4, <2>5
<1> HIDE DEF b
<1>9. JobsLanded'
  BY <1>2, <1>4 DEF DiskInv, JobsLanded
<1>10. DoneMeansLanded'
  BY <1>3, <1>5 DEF DiskInv, DoneMeansLanded
<1>11. RecordTrusted' /\ SavingTrusted'
  BY <1>5 DEF DiskInv, RecordTrusted, SavingTrusted
<1>12. NothingBeyond'
  BY <1>4 DEF DiskInv, NothingBeyond
<1> QED
  BY <1>7, <1>8, <1>9, <1>10, <1>11, <1>12 DEF DiskInv

\* A run that starts from the record starts sound.
LEMMA RestartSound ==
  ASSUME NEW resume \in BOOLEAN, TypeOK, DiskInv, Restart(resume)
  PROVE  DiskInv'
<1> USE DEF Restart
<1>1. /\ landed' = [b \in Blocks |-> landed[b] \cap Offsets(b)]
      /\ record' = record /\ doubtful' = doubtful \cap record
  OBVIOUS
<1>2. \A b \in record : Sound(b)'
  <2>1. record \subseteq Blocks
    BY DEF TypeOK
  <2> QED
    BY <1>1, <2>1 DEF DiskInv, RecordTrusted, Sound, Complete
<1>3. \A s \in Streams : ~ AtWork(s)' /\ saving'[s] = {}
  BY DEF AtWork
<1>4. \A b \in Blocks : /\ status'[b] = "Done" => b \in record
                        /\ status'[b] # "Done" => got'[b] = 0
  BY DEF LoadedStatus, LoadedGot
<1> HIDE DEF Restart
<1>5. CountLanded'
  <2>1. 0 .. 0 - 1 = {}
    OBVIOUS
  <2> QED
    BY <1>4, <2>1 DEF CountLanded
<1>6. JobsLanded' /\ PrimaryContinues'
  BY <1>3 DEF JobsLanded, PrimaryContinues
<1>7. DoneMeansLanded'
  BY <1>2, <1>4 DEF DoneMeansLanded
<1>8. RecordTrusted'
  BY <1>1, <1>2 DEF RecordTrusted
<1>9. SavingTrusted'
  BY <1>3 DEF SavingTrusted
<1>10. NothingBeyond'
  BY <1>1 DEF NothingBeyond
<1> QED
  BY <1>5, <1>6, <1>7, <1>8, <1>9, <1>10 DEF DiskInv

\* What is counted, being delivered or about to be recorded is in the file.
LEMMA DiskSafe == Spec => []DiskInv
<1>1. Init => DiskInv
  <2> SUFFICES ASSUME Init PROVE DiskInv
    OBVIOUS
  <2>1. \A s \in Streams : ~ AtWork(s) /\ saving[s] = {}
    BY DEF Init, AtWork
  <2>2. \A b \in Blocks : status[b] # "Done" /\ got[b] = 0
    BY DEF Init, LoadedStatus, LoadedGot
  <2>3. 0 .. 0 - 1 = {}
    OBVIOUS
  <2>4. record = {}
    BY DEF Init
  <2>5. JobsLanded /\ PrimaryContinues /\ SavingTrusted
    BY <2>1 DEF JobsLanded, PrimaryContinues, SavingTrusted
  <2>6. CountLanded /\ DoneMeansLanded /\ RecordTrusted
    BY <2>2, <2>3, <2>4 DEF CountLanded, DoneMeansLanded, RecordTrusted
  <2>7. NothingBeyond
    BY DEF Init, NothingBeyond
  <2> QED
    BY <2>5, <2>6, <2>7 DEF DiskInv
<1>2. SoundInv /\ [Next]_vars => DiskInv'
  <2> SUFFICES ASSUME AttemptsInv, DiskInv, [Next]_vars PROVE DiskInv'
    BY DEF SoundInv
  <2>1. TypeOK /\ (\A b \in record : Sound(b)) /\ (\A s \in Streams : \A b \in saving[s] : Sound(b))
    BY DEF AttemptsInv, DiskInv, RecordTrusted, SavingTrusted
  <2> USE DEF planVars
  <2>2. ASSUME NEW s \in Streams, Top(s) \/ SeeFinished(s) \/ TakeNothing(s) \/ Halt(s) PROVE DiskInv'
    <3>1. \A t \in Streams : AtWork(t)' => AtWork(t)
      BY <2>1, <2>2 DEF Top, SeeFinished, TakeNothing, Halt, TypeOK, AtWork
    <3> QED
      BY <2>1, <2>2, <3>1, NothingCounted DEF Top, SeeFinished, TakeNothing, Halt
  <2>3. ASSUME NEW s \in Streams, NEW b \in Blocks, TakePrimary(s, b) PROVE DiskInv'
    BY <2>1, <2>3, BeginSound DEF TakePrimary, IsNextWaiting, Waiting
  <2>4. ASSUME NEW s \in Streams, NEW b \in Blocks, TakeHedge(s, b) PROVE DiskInv'
    BY <2>1, <2>4, BeginSound DEF TakeHedge, IsNextHedge, Hedgeable
  <2>5. ASSUME NEW s \in Streams, LoseRace(s) PROVE DiskInv'
    <3>1. \A t \in Streams : AtWork(t)' => AtWork(t) /\ job'[t] = job[t]
      BY <2>1, <2>5 DEF LoseRace, LetGo, TypeOK, AtWork
    <3>2. \A t \in Streams : \A b \in saving'[t] : Sound(b)
      BY <2>1, <2>5 DEF LoseRace, TypeOK, DiskInv, DoneMeansLanded, DoneBlocks
    <3> QED
      BY <2>1, <2>5, <3>1, <3>2, NothingCounted DEF LoseRace
  <2>6. ASSUME NEW s \in Streams, FinishBlock(s) PROVE DiskInv'
    BY <2>6, FinishSound
  <2>7. ASSUME NEW s \in Streams, ComeUpShort(s) PROVE DiskInv'
    BY <2>7, ShortSound
  <2>8. ASSUME NEW s \in Streams, FailLate(s) \/ FailAttempt(s) PROVE DiskInv'
    <3>1. \A t \in Streams : AtWork(t)' => AtWork(t) /\ job'[t] = job[t]
      BY <2>1, <2>8 DEF FailLate, FailAttempt, LetGo, TypeOK, AtWork
    <3>2. \A b \in Blocks : status'[b] = "Done" <=> status[b] = "Done"
      BY <2>1, <2>8 DEF FailLate, FailAttempt, TypeOK
    <3> QED
      BY <2>1, <2>8, <3>1, <3>2, NothingCounted DEF FailLate, FailAttempt
  <2>9. ASSUME NEW s \in Streams, SaveOpen(s) \/ SaveWrite(s) PROVE DiskInv'
    <3>1. \A t \in Streams : AtWork(t)' => AtWork(t)
      BY <2>1, <2>9 DEF SaveOpen, SaveWrite, TypeOK, AtWork
    <3>2. (\A b \in record' : Sound(b)) /\ \A t \in Streams : \A b \in saving'[t] : Sound(b)
      BY <2>1, <2>9 DEF SaveOpen, SaveWrite, TypeOK
    <3> QED
      BY <2>1, <2>9, <3>1, <3>2, NothingCounted DEF SaveOpen, SaveWrite
  <2>10. ASSUME NEW s \in Streams, Receive(s) PROVE DiskInv'
    BY <2>1, <2>10, ReceiveSound
  <2>11. ASSUME NEW s \in Streams, NEW ok \in BOOLEAN, EndTransfer(s, ok) PROVE DiskInv'
    <3>1. \A t \in Streams : AtWork(t)' => AtWork(t)
      BY <2>1, <2>11 DEF EndTransfer, TypeOK, AtWork
    <3>2. \A t \in Streams : /\ job'[t].block = job[t].block /\ job'[t].from = job[t].from
                             /\ job'[t].n = job[t].n /\ job'[t].hedged = job[t].hedged
      BY <2>1, <2>11 DEF EndTransfer, TypeOK, Job
    <3> QED
      BY <2>1, <2>11, <3>1, <3>2, NothingCounted DEF EndTransfer
  <2>12. CASE (\E s \in Streams : Age(s)) \/ MonitorStop \/ Join \/ Verify \/ ReadBackFails \/ UNCHANGED vars
    <3>1. \A t \in Streams : AtWork(t)' => AtWork(t)
      BY <2>12 DEF Age, MonitorStop, Join, Verify, ReadBackFails, vars, AtWork
    <3>2. \A b \in record' : Sound(b)
      BY <2>1, <2>12 DEF Age, MonitorStop, Join, Verify, ReadBackFails, vars
    <3> QED
      BY <2>1, <2>12, <3>1, <3>2, NothingCounted DEF Age, MonitorStop, Join, Verify, ReadBackFails, vars
  <2>13. ASSUME NEW resume \in BOOLEAN, Restart(resume) PROVE DiskInv'
    BY <2>1, <2>13, RestartSound
  <2> QED
    BY <2>2, <2>3, <2>4, <2>5, <2>6, <2>7, <2>8, <2>9, <2>10, <2>11, <2>12, <2>13
       DEF Next, Local, Settle, Transfer, Run, Terminated
<1> QED
  BY <1>1, <1>2, TypeCorrect, RacesBounded, PTL DEF Spec, SoundInv, AttemptsInv

\* A block marked Done, and one the resume record names, has every byte in the
\* file, across any number of kills and resumptions, unless it was spoiled
\* or a hedge moved its count under a primary still at work.
THEOREM CountSound == Spec => [](DoneMeansLanded /\ RecordTrusted)
<1>1. DiskInv => DoneMeansLanded /\ RecordTrusted
  BY DEF DiskInv
<1> QED
  BY <1>1, DiskSafe, PTL

-----------------------------------------------------------------------------
(* A finished block stays finished, and Ok means a whole file.             *)

\* No step within a run unmarks a finished block.
LEMMA DoneStays ==
  ASSUME TypeOK, [Next]_vars, runs' = runs
  PROVE  DoneBlocks \subseteq DoneBlocks'
<1> SUFFICES ASSUME NEW c \in Blocks, status[c] = "Done" PROVE status'[c] = "Done"
  BY DEF DoneBlocks
<1>1. ASSUME NEW s \in Streams, NEW b \in Blocks, TakePrimary(s, b) PROVE status'[c] = "Done"
  BY <1>1 DEF TakePrimary, IsNextWaiting, Waiting, Begin, TypeOK
<1>2. ASSUME NEW s \in Streams, NEW b \in Blocks, TakeHedge(s, b) PROVE status'[c] = "Done"
  BY <1>2 DEF TakeHedge, IsNextHedge, Hedgeable, Begin, TypeOK
<1>3. ASSUME NEW s \in Streams, Settle(s) PROVE status'[c] = "Done"
  BY <1>3 DEF Settle, LoseRace, FinishBlock, ComeUpShort, FailLate, FailAttempt, TypeOK
<1>4. CASE UNCHANGED status
  BY <1>4
<1>5. ASSUME NEW resume \in BOOLEAN, Restart(resume) PROVE FALSE
  BY <1>5 DEF Restart, TypeOK
<1>6. ASSUME NEW s \in Streams, \/ Top(s) \/ SeeFinished(s) \/ TakeNothing(s) \/ Halt(s)
                                \/ SaveOpen(s) \/ SaveWrite(s) \/ Transfer(s) \/ Age(s)
      PROVE  UNCHANGED status
  BY <1>6 DEF Top, SeeFinished, TakeNothing, Halt, SaveOpen, SaveWrite, Transfer, Receive,
              EndTransfer, Age, planVars
<1>7. CASE Run \/ UNCHANGED vars
  BY <1>7 DEF Run, MonitorStop, Join, Verify, ReadBackFails, vars, planVars
<1> QED
  BY <1>1, <1>2, <1>3, <1>4, <1>5, <1>6, <1>7 DEF Next, Local, Terminated

\* Whatever the attempts that lost a race come back with, a block that is Done
\* stays Done for the rest of the run.
THEOREM NeverUndone == Spec => DoneForGood
<1>1. TypeOK /\ [Next]_vars => [runs' = runs => DoneBlocks \subseteq DoneBlocks']_vars
  BY DoneStays
<1> QED
  BY <1>1, TypeCorrect, PTL DEF Spec, DoneForGood

\* With every thread gone the file stays as it is, and only a new command
\* starts the count afresh.
LEMMA FileRests ==
  ASSUME TypeOK, [Next]_vars
  PROVE  /\ (\A s \in Streams : pc[s] = "exit") => landed' = landed \/ main' = "watch"
         /\ doubtful \subseteq doubtful' \/ main' = "watch"
         /\ runs' = runs \/ main' = "watch"
<1>1. ASSUME NEW s \in Streams, Receive(s)
      PROVE  pc[s] = "read" /\ doubtful \subseteq doubtful' /\ runs' = runs
  BY <1>1, Zenon DEF Receive
<1>2. ASSUME NEW s \in Streams, Local(s)
      PROVE  landed' = landed /\ doubtful \subseteq doubtful' /\ runs' = runs
  BY <1>2 DEF Local, Settle, Top, SeeFinished, TakeNothing, TakePrimary, TakeHedge, Begin, LoseRace,
              FinishBlock, ComeUpShort, FailLate, FailAttempt, Halt, SaveOpen, SaveWrite
<1>3. ASSUME NEW s \in Streams, (\E ok \in BOOLEAN : EndTransfer(s, ok)) \/ Age(s)
      PROVE  landed' = landed /\ doubtful' = doubtful /\ runs' = runs
  BY <1>3 DEF EndTransfer, Age
<1>4. CASE Run \/ UNCHANGED vars
  BY <1>4 DEF Run, MonitorStop, Join, Verify, ReadBackFails, vars
<1>5. ASSUME NEW resume \in BOOLEAN, Restart(resume) PROVE main' = "watch"
  BY <1>5 DEF Restart
<1> QED
  BY <1>1, <1>2, <1>3, <1>4, <1>5 DEF Next, Transfer, Terminated

\* How the thread that called run moves.
LEMMA MainMoves ==
  ASSUME [Next]_vars
  PROVE  \/ main' = main
         \/ main' \in {"watch", "join", "failed"}
         \/ main' = "verify" /\ Finished /\ status' = status
         \/ /\ main = "verify" /\ main' = "ok" /\ landed' = landed /\ doubtful' = doubtful
            /\ status' = status
            /\ Expect => \A b \in Blocks : Complete(b)
<1>1. ASSUME NEW s \in Streams, Local(s) \/ Transfer(s) \/ Age(s) PROVE main' = main
  BY <1>1 DEF Local, Settle, Top, SeeFinished, TakeNothing, TakePrimary, TakeHedge, Begin, LoseRace,
              FinishBlock, ComeUpShort, FailLate, FailAttempt, Halt, SaveOpen, SaveWrite, Transfer,
              Receive, EndTransfer, Age
<1>2. CASE MonitorStop \/ Join \/ Verify \/ ReadBackFails
  BY <1>2 DEF MonitorStop, Join, Verify, ReadBackFails, planVars
<1>3. ASSUME NEW resume \in BOOLEAN, Restart(resume) PROVE main' = "watch"
  BY <1>3 DEF Restart
<1>4. CASE UNCHANGED vars
  BY <1>4 DEF vars
<1> QED
  BY <1>1, <1>2, <1>3, <1>4 DEF Next, Run, Terminated

\* Once the threads are joined there are none.
LEMMA JoinedStays == Joined /\ [Next]_vars => Joined'
<1> SUFFICES ASSUME Joined, [Next]_vars PROVE Joined'
  OBVIOUS
<1>1. ASSUME NEW s \in Streams, Local(s) \/ Transfer(s) PROVE pc[s] # "exit" /\ main' = main
  BY <1>1 DEF Local, Settle, Top, SeeFinished, TakeNothing, TakePrimary, TakeHedge, Begin, LoseRace,
              FinishBlock, ComeUpShort, FailLate, FailAttempt, Halt, SaveOpen, SaveWrite, Transfer,
              Receive, EndTransfer
<1>2. ASSUME NEW s \in Streams, Age(s) PROVE Joined'
  BY <1>2 DEF Age, Joined
<1>3. CASE MonitorStop \/ Join \/ Verify \/ ReadBackFails
  BY <1>3 DEF MonitorStop, Join, Verify, ReadBackFails, Joined
<1>4. ASSUME NEW resume \in BOOLEAN, Restart(resume) PROVE Joined'
  BY <1>4 DEF Restart, Joined
<1>5. CASE UNCHANGED vars
  BY <1>5 DEF vars, Joined
<1> QED
  BY <1>1, <1>2, <1>3, <1>4, <1>5 DEF Next, Run, Terminated, Joined

\* Nothing touches the file any more when the hash is taken over it, or after
\* run returned.
LEMMA NothingAfterJoin == Spec => []Joined
<1>1. Init => Joined
  BY DEF Init, Joined
<1> QED
  BY <1>1, JoinedStays, PTL DEF Spec

\* Only a finished plan is verified, and only a whole file accepted.
LEMMA Accepted == Spec => [](VerifiedWhenFinished /\ ResultWhole)
<1>1. Init => VerifiedWhenFinished /\ ResultWhole
  BY DEF Init, VerifiedWhenFinished, ResultWhole
<1>2. TypeOK /\ DoneMeansLanded /\ Joined /\ VerifiedWhenFinished /\ ResultWhole /\ [Next]_vars
        => (VerifiedWhenFinished /\ ResultWhole)'
  <2> SUFFICES ASSUME TypeOK, DoneMeansLanded, Joined, VerifiedWhenFinished, ResultWhole, [Next]_vars
               PROVE  VerifiedWhenFinished' /\ ResultWhole'
    OBVIOUS
  <2>1. Finished /\ main' # "watch" => Finished'
    BY DoneStays, FileRests DEF Finished, DoneBlocks
  <2>2. main = "ok" => landed' = landed \/ main' = "watch"
    BY FileRests DEF Joined
  <2>3. CASE main' = main
    <3>1. VerifiedWhenFinished'
      BY <2>1, <2>3 DEF VerifiedWhenFinished
    <3>2. ResultWhole'
      BY <2>2, <2>3, FileRests DEF ResultWhole, Complete
    <3> QED
      BY <3>1, <3>2
  <2>4. CASE main' \in {"watch", "join", "failed"}
    BY <2>4 DEF VerifiedWhenFinished, ResultWhole
  <2>5. CASE main' = "verify" /\ Finished /\ status' = status
    BY <2>5 DEF VerifiedWhenFinished, ResultWhole, Finished
  <2>6. CASE /\ main = "verify" /\ main' = "ok" /\ landed' = landed /\ doubtful' = doubtful
             /\ status' = status
             /\ Expect => \A b \in Blocks : Complete(b)
    <3>1. Finished
      BY <2>6 DEF VerifiedWhenFinished
    <3>2. doubtful = {} => \A b \in Blocks : Complete(b)
      BY <3>1 DEF Finished, DoneMeansLanded, Sound
    <3> QED
      BY <2>6, <3>1, <3>2 DEF VerifiedWhenFinished, ResultWhole, Finished, Complete
  <2> QED
    BY <2>3, <2>4, <2>5, <2>6, MainMoves
<1> QED
  BY <1>1, <1>2, TypeCorrect, CountSound, NothingAfterJoin, PTL DEF Spec

\* run returns Ok only when the file is whole: always when a hash was given,
\* and without one unless a block was spoiled or miscounted.
THEOREM OkMeansWhole == Spec => []ResultWhole
BY Accepted, PTL

-----------------------------------------------------------------------------
(* Why a thread leaves, and why run fails.                                 *)

\* A block was tried too often.
TooOften == \E b \in Blocks : empties[b] > MaxEmpty

\* How the flags and tallies of the plan move within a run: stop is never taken
\* back, a tally never goes down, and whenever it goes up the lane that failed
\* is avoided from then on.
LEMMA TalliesMove ==
  ASSUME TypeOK, [Next]_vars, runs' = runs
  PROVE  /\ stop => stop'
         /\ \A b \in Blocks : \/ empties'[b] = empties[b] /\ avoid'[b] = avoid[b]
                              \/ empties'[b] = empties[b] + 1 /\ avoid'[b] # None
<1>1. ASSUME NEW s \in Streams, FailAttempt(s)
      PROVE  /\ stop' = stop
             /\ \A b \in Blocks : \/ empties'[b] = empties[b] /\ avoid'[b] = avoid[b]
                                  \/ empties'[b] = empties[b] + 1 /\ avoid'[b] # None
  <2>1. LaneOf[s] # None
    BY SchedAssumption DEF SchedAssumption
  <2> QED
    BY <1>1, <2>1 DEF FailAttempt, TypeOK
<1>2. ASSUME NEW s \in Streams, Local(s), ~ FailAttempt(s)
      PROVE  empties' = empties /\ avoid' = avoid /\ (stop => stop')
  BY <1>2 DEF Local, Settle, Top, SeeFinished, TakeNothing, TakePrimary, TakeHedge, Begin, LoseRace,
              FinishBlock, ComeUpShort, FailLate, Halt, SaveOpen, SaveWrite, planVars
<1>3. ASSUME NEW s \in Streams, Transfer(s) \/ Age(s)
      PROVE  empties' = empties /\ avoid' = avoid /\ stop' = stop
  BY <1>3 DEF Transfer, Receive, EndTransfer, Age, planVars
<1>4. CASE Run \/ UNCHANGED vars
  BY <1>4 DEF Run, MonitorStop, Join, Verify, ReadBackFails, vars, planVars
<1>5. ASSUME NEW resume \in BOOLEAN, Restart(resume) PROVE FALSE
  BY <1>5 DEF Restart, TypeOK
<1> QED
  BY <1>1, <1>2, <1>3, <1>4, <1>5 DEF Next, Terminated

\* Within a run a block that was tried too often stays so.
LEMMA TooOftenStays ==
  ASSUME TypeOK, [Next]_vars, runs' = runs, TooOften
  PROVE  TooOften'
<1>1. PICK b \in Blocks : empties[b] > MaxEmpty
  BY DEF TooOften
<1>2. empties[b] \in Nat /\ empties'[b] \in {empties[b], empties[b] + 1}
  BY TalliesMove DEF TypeOK
<1>3. empties'[b] > MaxEmpty
  BY <1>1, <1>2, EngineAssumption DEF EngineAssumption
<1> QED
  BY <1>3 DEF TooOften

\* A tally only counts failures some lane is avoided for; a thread is about to
\* stop the download, and stop is set, only for a block tried too often, or at
\* the end; a thread leaves, and the caller waits for the threads, only then.
ReasonInv ==
    /\ \A b \in Blocks : empties[b] > 0 => avoid[b] # None
    /\ \A s \in Streams : pc[s] = "halt" => TooOften
    /\ stop => Finished \/ TooOften
    /\ \A s \in Streams : pc[s] = "exit" => stop \/ Finished
    /\ main # "watch" => stop

\* Where a step may bring a thread.
LEMMA WhereThreadsGo ==
  ASSUME TypeOK, [Next]_vars, NEW t \in Streams
  PROVE  /\ pc'[t] = "halt" => pc[t] = "halt" \/ TooOften'
         /\ pc'[t] = "exit" => pc[t] = "exit" \/ stop' \/ Finished
<1>1. ASSUME NEW s \in Streams, FailAttempt(s)
      PROVE  pc'[t] = pc[t] \/ pc'[t] = "top" \/ (pc'[t] = "halt" /\ TooOften')
  <2>1. job[s].block \in Blocks
    BY <1>1 DEF FailAttempt, TypeOK, AtWork
  <2> QED
    BY <1>1, <2>1 DEF FailAttempt, GivesUp, TooOften, TypeOK
<1>2. ASSUME NEW s \in Streams, Top(s) \/ SeeFinished(s) \/ Halt(s)
      PROVE  pc'[t] = pc[t] \/ pc'[t] = "pick" \/ (pc'[t] = "exit" /\ (stop' \/ Finished))
  BY <1>2 DEF Top, SeeFinished, Halt, TypeOK
<1>3. ASSUME NEW s \in Streams, NEW b \in Blocks, TakePrimary(s, b) \/ TakeHedge(s, b)
      PROVE  pc'[t] \in {pc[t], "settle", "read"}
  BY <1>3 DEF TakePrimary, TakeHedge, Begin, TypeOK
<1>4. ASSUME NEW s \in Streams,
             \/ TakeNothing(s) \/ LoseRace(s) \/ FinishBlock(s) \/ ComeUpShort(s) \/ FailLate(s)
             \/ SaveOpen(s) \/ SaveWrite(s)
      PROVE  pc'[t] \in {pc[t], "top", "save", "write"}
  BY <1>4 DEF TakeNothing, LoseRace, FinishBlock, ComeUpShort, FailLate, SaveOpen, SaveWrite, TypeOK
<1>5. ASSUME NEW s \in Streams, Transfer(s) \/ Age(s) PROVE pc'[t] \in {pc[t], "settle", "read"}
  BY <1>5 DEF Transfer, Receive, EndTransfer, Age, TypeOK
<1>6. CASE Run \/ UNCHANGED vars
  BY <1>6 DEF Run, MonitorStop, Join, Verify, ReadBackFails, vars
<1>7. ASSUME NEW resume \in BOOLEAN, Restart(resume) PROVE pc'[t] = "top"
  BY <1>7 DEF Restart
<1> QED
  BY <1>1, <1>2, <1>3, <1>4, <1>5, <1>6, <1>7 DEF Next, Local, Settle, Terminated

\* Where the flag and the caller's thread may go.
LEMMA WhyStopped ==
  ASSUME [Next]_vars
  PROVE  /\ stop' => stop \/ Finished \/ (\E s \in Streams : pc[s] = "halt")
         /\ main' # "watch" => main # "watch" \/ stop'
<1>1. ASSUME NEW s \in Streams, Halt(s)
      PROVE  pc[s] = "halt" /\ main' = main
  BY <1>1 DEF Halt
<1>2. ASSUME NEW s \in Streams, Local(s), ~ Halt(s) PROVE stop' = stop /\ main' = main
  BY <1>2 DEF Local, Settle, Top, SeeFinished, TakeNothing, TakePrimary, TakeHedge, Begin, LoseRace,
              FinishBlock, ComeUpShort, FailLate, FailAttempt, SaveOpen, SaveWrite
<1>3. ASSUME NEW s \in Streams, Transfer(s) \/ Age(s) PROVE stop' = stop /\ main' = main
  BY <1>3 DEF Transfer, Receive, EndTransfer, Age
<1>4. CASE Run \/ UNCHANGED vars
  BY <1>4 DEF Run, MonitorStop, Join, Verify, ReadBackFails, vars
<1>5. ASSUME NEW resume \in BOOLEAN, Restart(resume) PROVE ~ stop' /\ main' = "watch"
  BY <1>5 DEF Restart
<1> QED
  BY <1>1, <1>2, <1>3, <1>4, <1>5 DEF Next, Terminated

\* No step takes the last reason for a failure away.
LEMMA ReasonStep == TypeOK /\ ReasonInv /\ [Next]_vars => ReasonInv'
<1> SUFFICES ASSUME TypeOK, ReasonInv, [Next]_vars PROVE ReasonInv'
  OBVIOUS
<1>1. CASE runs' = runs
  <2>1. Finished => Finished'
    BY <1>1, DoneStays DEF Finished, DoneBlocks
  <2>2. TooOften => TooOften'
    BY <1>1, TooOftenStays
  <2>3. stop => stop'
    BY <1>1, TalliesMove
  <2>4. \A b \in Blocks : empties'[b] > 0 => avoid'[b] # None
    BY <1>1, TalliesMove DEF ReasonInv
  <2>5. \A s \in Streams : pc'[s] = "halt" => TooOften'
    BY <2>2, WhereThreadsGo DEF ReasonInv
  <2>6. stop' => Finished' \/ TooOften'
    BY <2>1, <2>2, WhyStopped DEF ReasonInv
  <2>7. \A s \in Streams : pc'[s] = "exit" => stop' \/ Finished'
    BY <2>1, <2>3, WhereThreadsGo DEF ReasonInv
  <2>8. main' # "watch" => stop'
    BY <2>3, WhyStopped DEF ReasonInv
  <2> QED
    BY <2>4, <2>5, <2>6, <2>7, <2>8 DEF ReasonInv
<1>2. ASSUME NEW resume \in BOOLEAN, Restart(resume) PROVE ReasonInv'
  BY <1>2 DEF Restart, ReasonInv
<1>3. runs' = runs \/ \E resume \in BOOLEAN : Restart(resume)
  <2>1. ASSUME NEW s \in Streams, Local(s) PROVE runs' = runs
    BY <2>1 DEF Local, Settle, Top, SeeFinished, TakeNothing, TakePrimary, TakeHedge, Begin, LoseRace,
                FinishBlock, ComeUpShort, FailLate, FailAttempt, Halt, SaveOpen, SaveWrite
  <2>2. ASSUME NEW s \in Streams, Transfer(s) \/ Age(s) PROVE runs' = runs
    BY <2>2 DEF Transfer, Receive, EndTransfer, Age
  <2>3. CASE Run \/ UNCHANGED vars
    BY <2>3 DEF Run, MonitorStop, Join, Verify, ReadBackFails, vars
  <2> QED
    BY <2>1, <2>2, <2>3 DEF Next, Terminated
<1> QED
  BY <1>1, <1>2, <1>3

\* A thread stops the download only for a reason, and leaves only when it is
\* stopped or finished.
LEMMA ReasonSafe == Spec => []ReasonInv
<1>1. Init => ReasonInv
  BY DEF Init, ReasonInv
<1> QED
  BY <1>1, ReasonStep, TypeCorrect, PTL DEF Spec

\* A waiting block a lane is told to avoid "can never be stranded": the idle
\* stream of another lane that the rule counts on is a thread that will look
\* for work itself, for a thread leaves only when there is none.
THEOREM NeverStranded == Spec => []NotStranded
<1>1. TypeOK /\ IdleExact /\ ReasonInv => NotStranded
  <2> SUFFICES ASSUME TypeOK, IdleExact, ReasonInv, ~ stop,
                      \A s \in Streams : pc[s] # "halt",
                      NEW s \in Streams, pc[s] \in {"top", "pick", "save", "write"},
                      NEW b \in Blocks, status[b] = "Pending"
               PROVE  \E t \in Streams : /\ pc[t] \in {"top", "pick", "save", "write"}
                                         /\ b \in Waiting(LaneOf[t])
    BY DEF NotStranded
  <2>1. CASE b \in Waiting(LaneOf[s])
    BY <2>1
  <2>2. CASE b \notin Waiting(LaneOf[s])
    <3>1. avoid[b] = LaneOf[s] /\ FreeElsewhere(LaneOf[s])
      BY <2>2 DEF Waiting
    <3>2. PICK k \in Lanes \ {LaneOf[s]} : idle[k] > 0
      BY <3>1 DEF FreeElsewhere
    <3>3. PICK t \in Streams : LaneOf[t] = k /\ ~ AtWork(t)
      <4>1. Cardinality(IdleOn(k)) > 0
        BY <3>2 DEF IdleExact, IdleOn
      <4>2. IdleOn(k) # {}
        BY <4>1, FS_EmptySet
      <4> QED
        BY <4>2 DEF IdleOn
    <3>4. pc[t] # "exit"
      BY DEF ReasonInv, Finished
    <3>5. pc[t] \in {"top", "pick", "save", "write"}
      BY <3>3, <3>4 DEF TypeOK, AtWork
    <3>6. b \in Waiting(LaneOf[t])
      BY <3>1, <3>3 DEF Waiting
    <3> QED
      BY <3>5, <3>6
  <2> QED
    BY <2>1, <2>2
<1> QED
  BY <1>1, TypeCorrect, IdleCounted, ReasonSafe, PTL

\* What the end of a run that fails looks like.
LEMMA WhyFailed ==
  ASSUME [Next]_vars, main' = "failed", main # "failed"
  PROVE  /\ status' = status /\ empties' = empties
         /\ (main = "join" /\ ~ Finished) \/ main = "verify"
<1>1. Join \/ Verify \/ ReadBackFails
  <2>1. ASSUME NEW s \in Streams, Local(s) \/ Transfer(s) \/ Age(s) PROVE main' = main
    BY <2>1 DEF Local, Settle, Top, SeeFinished, TakeNothing, TakePrimary, TakeHedge, Begin, LoseRace,
                FinishBlock, ComeUpShort, FailLate, FailAttempt, Halt, SaveOpen, SaveWrite, Transfer,
                Receive, EndTransfer, Age
  <2>2. CASE MonitorStop \/ UNCHANGED vars
    BY <2>2 DEF MonitorStop, vars
  <2>3. ASSUME NEW resume \in BOOLEAN, Restart(resume) PROVE FALSE
    BY <2>3 DEF Restart
  <2> QED
    BY <2>1, <2>2, <2>3 DEF Next, Run, Terminated
<1> QED
  BY <1>1 DEF Join, Verify, ReadBackFails, planVars

\* A run that fails with something left to fetch fails for a reason, which is
\* still there to be seen: a block that was tried too often, each time with a
\* lane to blame.
THEOREM FailsForAReason == Spec => []FailureExplained
<1> DEFINE Inv == main = "failed" => Finished \/ TooOften
<1>1. Init => Inv
  BY DEF Init
<1>2. TypeOK /\ ReasonInv /\ VerifiedWhenFinished /\ Inv /\ [Next]_vars => Inv'
  <2> SUFFICES ASSUME TypeOK, ReasonInv, VerifiedWhenFinished, Inv, [Next]_vars,
                      main' = "failed"
               PROVE  (Finished \/ TooOften)'
    OBVIOUS
  <2>1. CASE main = "failed"
    <3>1. runs' = runs
      BY FileRests
    <3>2. TooOften => TooOften'
      BY <3>1, TooOftenStays
    <3>3. Finished => Finished'
      BY <3>1, DoneStays DEF Finished, DoneBlocks
    <3> QED
      BY <2>1, <3>2, <3>3
  <2>2. CASE main # "failed"
    <3>1. /\ status' = status /\ empties' = empties
          /\ (main = "join" /\ ~ Finished) \/ main = "verify"
      BY <2>2, WhyFailed
    <3>2. (TooOften' <=> TooOften) /\ (Finished' <=> Finished)
      BY <3>1 DEF TooOften, Finished
    <3> QED
      BY <3>1, <3>2 DEF ReasonInv, VerifiedWhenFinished
  <2> QED
    BY <2>1, <2>2
<1>3. TypeOK /\ ReasonInv /\ Inv => FailureExplained
  <2> SUFFICES ASSUME TypeOK, ReasonInv, Inv, TooOften
               PROVE  \E b \in Blocks : empties[b] > MaxEmpty /\ avoid[b] # None
    BY DEF FailureExplained
  <2>1. PICK b \in Blocks : empties[b] > MaxEmpty
    BY DEF TooOften
  <2>2. empties[b] > 0
    BY <2>1, EngineAssumption DEF EngineAssumption, TypeOK
  <2> QED
    BY <2>1, <2>2 DEF ReasonInv
<1> QED
  BY <1>1, <1>2, <1>3, TypeCorrect, ReasonSafe, Accepted, PTL DEF Spec

-----------------------------------------------------------------------------
(* The engine implements Download.                                         *)

\* While a thread is at work or about to save, run has not returned.
LEMMA NotReturned ==
  ASSUME Joined, NEW s \in Streams, pc[s] # "exit"
  PROVE  main \notin {"ok", "failed"}
BY DEF Joined

\* A unit that arrives fills the block it is stored in up or makes it doubtful.
LEMMA ReceiveKeeps ==
  ASSUME TypeOK, Joined, NEW s \in Streams, Receive(s)
  PROVE  [Promise!Next]_(Promise!vars)
<1> DEFINE whole == {d \in Blocks : Complete(d)}
<1>1. /\ job[s].block \in Blocks /\ job[s] \in Job /\ landed \in [Blocks -> SUBSET Nat]
      /\ pc[s] = "read" /\ main' = main /\ record' = record
  BY DEF Receive, TypeOK, AtWork
<1>2. main \notin {"ok", "failed"}
  BY <1>1, NotReturned
<1>3. PICK c \in Blocks, o \in Nat : Stored(job[s].block, job[s].from + job[s].n, c, o)
  <2>1. job[s].from + job[s].n \in Nat
    BY <1>1 DEF Job
  <2> QED
    BY <1>1, <2>1, ReceiveStores
<1>4. \A d \in Blocks \ {c} : Complete(d)' <=> Complete(d)
  BY <1>3 DEF Stored, Complete
<1>5. CASE doubtful' = doubtful /\ o \in Offsets(c) /\ landed'[c] = landed[c] \cup {o}
  <2>1. \A d \in Blocks : Complete(d) => Complete(d)'
    BY <1>4, <1>5 DEF Complete
  <2>2. whole' = whole \/ whole' = whole \cup {c}
    BY <1>4, <2>1
  <2> QED
    BY <1>1, <1>2, <1>5, <2>2 DEF Promise!Next, Promise!Arrive, Promise!vars
<1>6. CASE doubtful' = doubtful \cup {c}
  <2>1. whole' \in {whole, whole \ {c}, whole \cup {c}}
    BY <1>4
  <2> QED
    BY <1>1, <1>2, <1>6, <2>1 DEF Promise!Next, Promise!Spoil, Promise!vars
<1> QED
  BY <1>3, <1>5, <1>6 DEF Stored

\* What is recorded is there.
LEMMA SaveKeeps ==
  ASSUME TypeOK, Joined, SavingTrusted, NEW s \in Streams, SaveOpen(s) \/ SaveWrite(s)
  PROVE  [Promise!Next]_(Promise!vars)
<1>1. main \notin {"ok", "failed"} /\ main' = main /\ landed' = landed /\ doubtful' = doubtful
  BY NotReturned DEF SaveOpen, SaveWrite
<1>2. {b \in Blocks : Complete(b)}' = {b \in Blocks : Complete(b)}
  BY <1>1 DEF Complete
<1>3. \/ record' = record
      \/ record' \in SUBSET Blocks /\ \A b \in record' : Sound(b)
  BY DEF SaveOpen, SaveWrite, SavingTrusted, TypeOK
<1>4. CASE record' = record
  BY <1>1, <1>2, <1>4 DEF Promise!vars
<1>5. CASE record' \in SUBSET Blocks /\ \A b \in record' : Sound(b)
  BY <1>1, <1>2, <1>5 DEF Sound, Promise!Next, Promise!Note
<1> QED
  BY <1>3, <1>4, <1>5

\* A short hedge makes at most its block doubtful; the other steps of a thread
\* are not seen.
LEMMA LocalKeeps ==
  ASSUME TypeOK, Joined, SavingTrusted, NEW s \in Streams,
         Local(s) \/ (\E ok \in BOOLEAN : EndTransfer(s, ok)) \/ Age(s)
  PROVE  [Promise!Next]_(Promise!vars)
<1>1. CASE SaveOpen(s) \/ SaveWrite(s)
  BY <1>1, SaveKeeps
<1>2. CASE ComeUpShort(s)
  <2>1. /\ main \notin {"ok", "failed"} /\ job[s].block \in Blocks
        /\ main' = main /\ landed' = landed /\ record' = record
        /\ doubtful' \in {doubtful, doubtful \cup {job[s].block}}
    BY <1>2, NotReturned DEF ComeUpShort, TypeOK, AtWork
  <2>2. {b \in Blocks : Complete(b)}' = {b \in Blocks : Complete(b)}
    BY <2>1 DEF Complete
  <2> QED
    BY <2>1, <2>2 DEF Promise!Next, Promise!Spoil, Promise!vars
<1>3. CASE landed' = landed /\ record' = record /\ doubtful' = doubtful /\ main' = main
  <2>1. {b \in Blocks : Complete(b)}' = {b \in Blocks : Complete(b)}
    BY <1>3 DEF Complete
  <2> QED
    BY <1>3, <2>1 DEF Promise!vars
<1> QED
  BY <1>1, <1>2, <1>3 DEF Local, Settle, Top, SeeFinished, TakeNothing, TakePrimary, TakeHedge, Begin,
     LoseRace, FinishBlock, FailLate, FailAttempt, Halt, EndTransfer, Age

\* Only a whole file is accepted, unless there is no hash and a doubt.
LEMMA RunKeeps ==
  ASSUME TypeOK, DoneMeansLanded, VerifiedWhenFinished, Run
  PROVE  [Promise!Next]_(Promise!vars)
<1> DEFINE whole == {b \in Blocks : Complete(b)}
<1>1. landed' = landed /\ doubtful' = doubtful
  BY DEF Run, MonitorStop, Join, Verify, ReadBackFails
<1>2. whole' = whole
  BY <1>1 DEF Complete
<1>3. CASE record' = record /\ main \notin {"ok", "failed"} /\ main' # "ok"
  BY <1>1, <1>2, <1>3 DEF Promise!Next, Promise!GiveUp, Promise!vars
<1>4. CASE main = "verify" /\ main' = "ok" /\ record' = {} /\ (Expect => \A b \in Blocks : Complete(b))
  <2>1. Finished
    BY <1>4 DEF VerifiedWhenFinished
  <2>2. whole = Blocks \/ (~ Expect /\ doubtful # {})
    BY <1>4, <2>1 DEF Finished, DoneMeansLanded, Sound
  <2> QED
    BY <1>1, <1>2, <1>4, <2>2 DEF Promise!Next, Promise!Accept
<1> QED
  BY <1>3, <1>4 DEF Run, MonitorStop, Join, Verify, ReadBackFails

\* Every step of the engine is one that Download allows, or none.
LEMMA StepKeeps ==
  ASSUME TypeOK, DiskInv, Joined, VerifiedWhenFinished, [Next]_vars
  PROVE  [Promise!Next]_(Promise!vars)
<1>1. ASSUME NEW s \in Streams, Local(s) \/ Transfer(s) \/ Age(s)
      PROVE  [Promise!Next]_(Promise!vars)
  BY <1>1, ReceiveKeeps, LocalKeeps DEF Transfer, DiskInv
<1>2. CASE Run
  BY <1>2, RunKeeps DEF DiskInv
<1>3. ASSUME NEW resume \in BOOLEAN, Restart(resume) PROVE [Promise!Next]_(Promise!vars)
  <2> DEFINE whole == {b \in Blocks : Complete(b)}
  <2>1. /\ main' = "watch" /\ record' = record /\ doubtful' = doubtful \cap record
        /\ \A b \in Blocks : landed'[b] = landed[b] \cap Offsets(b)
    BY <1>3 DEF Restart
  <2>2. \A b \in Blocks : Complete(b) => Complete(b)'
    BY <2>1 DEF Complete
  <2>3. \A b \in Blocks \ doubtful : Complete(b)' => Complete(b)
    BY <2>1 DEF Complete, DiskInv, NothingBeyond
  <2>4. whole' = whole \cup (whole' \ whole) /\ whole' \ whole \in SUBSET doubtful
    BY <2>2, <2>3
  <2> HIDE DEF whole
  <2>5. \E healed \in SUBSET doubtful : whole' = whole \cup healed
    BY <2>4
  <2> QED
    BY <2>1, <2>5 DEF Promise!Next, Promise!Again, whole
<1>4. CASE UNCHANGED vars
  <2>1. {b \in Blocks : Complete(b)}' = {b \in Blocks : Complete(b)}
    BY <1>4 DEF vars, Complete
  <2> QED
    BY <1>4, <2>1 DEF vars, Promise!vars
<1> QED
  BY <1>1, <1>2, <1>3, <1>4 DEF Next, Terminated

\* The engine implements what the caller of run is promised.
THEOREM EngineKeepsPromise == Spec => KeepsPromise
<1>1. Init => Promise!Init
  <2> SUFFICES ASSUME Init PROVE Promise!Init
    OBVIOUS
  <2>1. ASSUME NEW b \in Blocks PROVE ~ Complete(b)
    <3>1. Size[b] \in Nat \ {0} /\ landed[b] = {}
      BY SchedAssumption DEF Init
    <3>2. 0 \in Offsets(b)
      BY <3>1 DEF Offsets
    <3> QED
      BY <3>1, <3>2 DEF Complete
  <2> QED
    BY <2>1 DEF Init, Promise!Init
<1> QED
  BY <1>1, StepKeeps, TypeCorrect, DiskSafe, NothingAfterJoin, Accepted, PTL
     DEF Spec, KeepsPromise, Promise!Spec

=============================================================================
