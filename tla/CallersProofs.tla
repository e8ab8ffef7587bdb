--------------------------- MODULE CallersProofs ---------------------------
(***************************************************************************)
(* What calls that share a destination may count on, for any number of     *)
(* callers of any kind, parts of the file and chunks of a batch.           *)
(***************************************************************************)
EXTENDS Callers, TLAPS

\* What a call takes for done is whole blocks of its cut.
WholeBlocks(x) == \A p, q \in Parts : x.cut[p] = x.cut[q] /\ p \in x.done => q \in x.done

\* A batch is at chunks, a download at blocks, and at the first before the hash.
InPhase(c) ==
    /\ WholeBlocks(call[c])
    /\ call[c].pc \in {"chunk", "told"} => c \notin Fetchers
    /\ call[c].pc \in {"fetch", "open", "write", "hash"} => c \in Fetchers
    /\ call[c].pc \in {"fetch", "open", "write"} => call[c].at = 0 /\ call[c].clean

\* A file is hashed when all is done, and what the hash has seen of it so far
\* is what the file has, unless it was changed behind its back.
HashTrue(c) ==
    call[c].pc = "hash" =>
        /\ call[c].done = Parts
        /\ call[c].expect /\ disturbed[c] # "hashing" =>
             (call[c].clean <=> \A p \in Places : p <= call[c].at => file[p] = "right")

\* What a call with the hash of the file stored all by itself is the file's, and
\* nothing is past its end.
OwnRight(c) ==
    c \notin Junk /\ call[c].expect /\ ~ call[c].trusting /\ disturbed[c] = "no" =>
        file[Past] = "right" /\ \A p \in call[c].done : file[p] = "right"

Inv ==
    /\ TypeOK
    /\ RecordHonest
    /\ CleanAfterOk
    /\ \A c \in Callers : InPhase(c) /\ HashTrue(c) /\ OwnRight(c)

\* Numbers of parts and places, and the cut that stands for any.
LEMMA Numbers ==
    /\ NumParts \in Nat /\ Past \in Nat /\ Past \in Places /\ Past \notin Parts
    /\ Parts \subseteq Places /\ Places \subseteq Nat
    /\ SomeCut \in Cuts
    /\ NoRecord \in [blocks : SUBSET Nat, cut : Cuts]
    /\ NoRecord.blocks = {}
<1>1. NumParts \in Nat /\ Cuts # {}
  BY CallersAssumption DEF CallersAssumption
<1>2. SomeCut \in Cuts
  BY <1>1 DEF SomeCut
<1>3. /\ Past \in Nat /\ Past \in Places /\ Past \notin Parts
      /\ Parts \subseteq Places /\ Places \subseteq Nat
  BY <1>1 DEF Past, Places, Parts
<1> QED
  BY <1>1, <1>2, <1>3 DEF NoRecord

\* What a call that came to an end is.
LEMMA EndedType ==
    ASSUME NEW o \in Outcomes
    PROVE  /\ Ended(o) \in Call
           /\ Ended(o).pc = "idle" /\ Ended(o).outcome = o /\ Ended(o).at = 0
           /\ Ended(o).done = {} /\ Ended(o).expect = FALSE
           /\ WholeBlocks(Ended(o))
BY Numbers DEF Ended, Call, WholeBlocks

\* How far a call may get with the file, or with a batch.
Bound(c) == IF c \in Fetchers THEN Past ELSE NumChunks

\* The bound on what a call has read, or on its chunks, is a number ...
LEMMA BoundNat == \A c : Bound(c) \in Nat
BY Numbers, CallersAssumption DEF CallersAssumption, Bound

\* ... that its count keeps.
LEMMA BoundOK ==
    ASSUME TypeOK
    PROVE  \A c \in Callers : call[c] \in Call /\ call[c].at \in Nat /\ call[c].at <= Bound(c)
BY DEF TypeOK, Bound, Call

\* Callers stay what they are.
LEMMA SameKind ==
    ASSUME UNCHANGED kind
    PROVE  Fetchers' = Fetchers /\ \A c : Bound(c)' = Bound(c)
<1>1. \A k : Of(k)' = Of(k)
  BY DEF Of
<1>2. Fetchers' = Fetchers
  BY <1>1 DEF Fetchers
<1> QED
  BY <1>2 DEF Bound

\* The invariant holds at the start.
LEMMA InvInit == Init => Inv
<1> SUFFICES ASSUME Init PROVE Inv
  OBVIOUS
<1>1. "none" \in Outcomes
  BY DEF Outcomes
<1>2. \A c \in Callers : call[c] = Ended("none")
  BY DEF Init
<1>3. TypeOK
  <2>1. call \in [Callers -> Call]
    BY <1>1, EndedType DEF Init
  <2>2. \A c \in Callers : call[c].at = 0
    BY <1>1, <1>2, EndedType
  <2>3. \A c \in Callers : call[c].at <= Bound(c)
    <3> TAKE c \in Callers
    <3>1. Bound(c) \in Nat
      BY BoundNat
    <3>2. call[c].at = 0
      BY <2>2
    <3> QED
      BY <3>1, <3>2
  <2>4. record \in [blocks : SUBSET Nat, cut : Cuts] /\ file \in [Places -> {"hole", "right", "junk"}]
    BY Numbers DEF Init
  <2> QED
    BY <2>1, <2>3, <2>4 DEF Init, TypeOK, Bound
<1>4. \A c \in Callers : call[c].pc = "idle" /\ call[c].done = {} /\ call[c].expect = FALSE
                          /\ call[c].outcome = "none"
                          /\ WholeBlocks(call[c])
  BY <1>1, <1>2, EndedType
<1>5. record.blocks = {}
  BY Numbers DEF Init
<1>6. RecordHonest /\ CleanAfterOk
  BY <1>4, <1>5 DEF RecordHonest, CleanAfterOk, Named
<1> QED
  BY <1>3, <1>4, <1>6 DEF Inv, InPhase, HashTrue, OwnRight

\* A call that comes to an end keeps the invariant.
LEMMA ReturnInv ==
    ASSUME Inv, NEW c \in Callers, NEW o \in Outcomes, Return(c, o),
           o = "ok" => c \notin Fetchers
    PROVE  Inv'
<1>1. /\ call'[c] = Ended(o)
      /\ \A d \in Callers \ {c} : call'[d] = call[d] /\ disturbed'[d] = disturbed[d]
      /\ call' \in [Callers -> Call]
      /\ disturbed' \in [Callers -> {"no", "fetching", "hashing"}]
  <2>1. Ended(o) \in Call
    BY EndedType
  <2>2. /\ call' = [call EXCEPT ![c] = Ended(o)]
        /\ disturbed' = [disturbed EXCEPT ![c] = "no"]
    BY DEF Return
  <2>3. call \in [Callers -> Call] /\ disturbed \in [Callers -> {"no", "fetching", "hashing"}]
    BY DEF Inv, TypeOK
  <2> QED
    BY <2>1, <2>2, <2>3
<1>2. Fetchers' = Fetchers /\ \A d : Bound(d)' = Bound(d)
  BY SameKind DEF Return
<1>3. /\ Ended(o).pc = "idle" /\ Ended(o).outcome = o /\ Ended(o).at = 0
      /\ Ended(o).done = {} /\ Ended(o).expect = FALSE /\ WholeBlocks(Ended(o))
  BY EndedType
<1>4. TypeOK'
  <2>1. \A d \in Callers : call'[d].at <= Bound(d)'
    BY <1>1, <1>2, <1>3, BoundNat, BoundOK DEF Inv
  <2> QED
    BY <1>1, <2>1 DEF Inv, TypeOK, Bound, Return
<1>5. RecordHonest'
  BY <1>1, <1>3 DEF Inv, RecordHonest, Named, Return
<1>6. CleanAfterOk'
  BY <1>1, <1>2, <1>3 DEF Inv, CleanAfterOk, Return
<1>7. ASSUME NEW d \in Callers PROVE InPhase(d)' /\ HashTrue(d)' /\ OwnRight(d)'
  BY <1>1, <1>2, <1>3 DEF Inv, InPhase, HashTrue, OwnRight, Return
<1> QED
  BY <1>4, <1>5, <1>6, <1>7 DEF Inv

\* So does a step in the middle of one, given what it makes of the file and the
\* record.
LEMMA WorkInv ==
    ASSUME Inv, NEW c \in Callers, NEW x \in Call,
           call' = [call EXCEPT ![c] = x],
           call[c].pc # "idle", x.pc # "idle", x.outcome = call[c].outcome, x.at <= Bound(c),
           x.pc \in {"chunk", "told"} => c \notin Fetchers,
           x.pc \in {"fetch", "open", "write", "hash"} => c \in Fetchers,
           x.pc \in {"fetch", "open", "write"} => x.at = 0 /\ x.clean,
           WholeBlocks(x),
           UNCHANGED kind, c \notin Fetchers => UNCHANGED record,
           file' \in [Places -> {"hole", "right", "junk"}],
           record' \in [blocks : SUBSET Nat, cut : Cuts],
           doubtful' \subseteq Parts,
           refused' \in [Callers -> BOOLEAN],
           disturbed' \in [Callers -> {"no", "fetching", "hashing"}],
           RecordHonest',
           \A d \in Callers : HashTrue(d)' /\ OwnRight(d)'
    PROVE  Inv'
<1>1. /\ call' \in [Callers -> Call]
      /\ call'[c] = x
      /\ \A d \in Callers \ {c} : call'[d] = call[d]
  BY DEF Inv, TypeOK
<1>2. Fetchers' = Fetchers /\ \A d : Bound(d)' = Bound(d)
  BY SameKind
<1>3. TypeOK'
  <2>1. \A d \in Callers : call'[d].at <= Bound(d)'
    BY <1>1, <1>2, BoundOK DEF Inv
  <2> QED
    BY <1>1, <2>1 DEF Inv, TypeOK, Bound
<1>4. CleanAfterOk'
  BY <1>1, <1>2 DEF Inv, CleanAfterOk, Fetchers
<1>5. \A d \in Callers : InPhase(d)'
  BY <1>1, <1>2 DEF Inv, InPhase
<1> QED
  BY <1>3, <1>4, <1>5 DEF Inv

\* One that leaves the file alone.
LEMMA QuietInv ==
    ASSUME Inv, NEW c \in Callers, NEW x \in Call,
           call' = [call EXCEPT ![c] = x],
           call[c].pc # "idle", x.pc # "idle", x.outcome = call[c].outcome, x.at <= Bound(c),
           x.pc \in {"chunk", "told"} => c \notin Fetchers,
           x.pc \in {"fetch", "open", "write", "hash"} => c \in Fetchers,
           x.pc \in {"fetch", "open", "write"} => x.at = 0 /\ x.clean,
           WholeBlocks(x),
           x.done = call[c].done, x.expect = call[c].expect, x.trusting = call[c].trusting,
           UNCHANGED <<kind, file, doubtful, disturbed>>, c \notin Fetchers => UNCHANGED record,
           record' \in [blocks : SUBSET Nat, cut : Cuts],
           Named(record.cut)' \subseteq Named(record.cut) \cup call[c].done,
           refused' \in [Callers -> BOOLEAN],
           HashTrue(c)'
    PROVE  Inv'
<1>1. /\ call'[c] = x
      /\ \A d \in Callers \ {c} : call'[d] = call[d]
  BY DEF Inv, TypeOK
<1>2. RecordHonest /\ \A d \in Callers : call'[d].done = call[d].done
  BY <1>1 DEF Inv
<1> DEFINE named == Named(record.cut)
           namedAfter == Named(record.cut)'
<1> HIDE DEF named, namedAfter
<1>3. RecordHonest'
  <2>1. namedAfter \subseteq named \cup call[c].done
    BY DEF named, namedAfter
  <2>2. \A p \in Parts : p \in named \/ (\E d \in Callers : p \in call[d].done) =>
                          file[p] # "hole" \/ p \in doubtful
    BY <1>2 DEF RecordHonest, named
  <2>3. \A p \in Parts : p \in namedAfter \/ (\E d \in Callers : p \in call'[d].done) =>
                          file'[p] # "hole" \/ p \in doubtful'
    BY <1>2, <2>1, <2>2
  <2> QED
    BY <2>3 DEF RecordHonest, namedAfter
<1>4. ASSUME NEW d \in Callers PROVE HashTrue(d)' /\ OwnRight(d)'
  BY <1>1 DEF Inv, HashTrue, OwnRight
<1> QED
  BY <1>3, <1>4, WorkInv DEF Inv, TypeOK

-----------------------------------------------------------------------------
(* The steps that change the file.                                         *)

\* What a change to the file does to the others: none that hashes misses it, and
\* none still undisturbed has seen one.
LEMMA ChangeDoes ==
    ASSUME Inv, NEW c \in Callers, NEW new, Change(c, new)
    PROVE  /\ disturbed' \in [Callers -> {"no", "fetching", "hashing"}]
           /\ disturbed'[c] = disturbed[c]
           /\ file' = new
           /\ \A d \in Callers \ {c} :
                \/ ~ call[d].expect
                \/ file' = file /\ disturbed'[d] = disturbed[d]
                \/ disturbed'[d] = "hashing" /\ call[d].pc = "hash"
                \/ disturbed'[d] = "fetching" /\ call[d].pc # "hash"
<1>1. disturbed \in [Callers -> {"no", "fetching", "hashing"}]
  BY DEF Inv, TypeOK
<1> QED
  BY <1>1 DEF Change

\* So what is known of their hashes stays true.
LEMMA OthersKeep ==
    ASSUME Inv, NEW c \in Callers, NEW new, Change(c, new),
           NEW d \in Callers \ {c}, call'[d] = call[d]
    PROVE  HashTrue(d)' /\ OwnRight(d)'
BY ChangeDoes DEF Inv, HashTrue, OwnRight

\* A step that fills no hole up with nothing keeps what is taken for done honest,
\* if what is newly taken is there or doubted.
LEMMA HonestKept ==
    ASSUME RecordHonest, NEW c \in Callers, NEW taken,
           UNCHANGED record,
           \A d \in Callers \ {c} : call'[d].done = call[d].done,
           call'[c].done \subseteq call[c].done \cup taken,
           \A p \in Parts : file'[p] = "hole" => file[p] = "hole",
           \A p \in Parts : p \in taken => file'[p] # "hole" \/ p \in doubtful',
           doubtful \subseteq doubtful'
    PROVE  RecordHonest'
BY DEF RecordHonest, Named

\* The beginning of a call, or its refusal, keeps the invariant.
LEMMA BeginInv ==
    ASSUME Inv, NEW c \in Callers, NEW x \in Call, NEW new, Calls(c, x), Change(c, new),
           new \in [Places -> {"hole", "right", "junk"}],
           \A p \in Parts : new[p] = "hole" => file[p] = "hole",
           doubtful \subseteq doubtful', doubtful' \subseteq Parts,
           x.outcome # "ok", x.at = 0, x.pc # "hash",
           x.pc \in {"chunk", "told"} => c \notin Fetchers,
           x.pc \in {"fetch", "open", "write", "hash"} => c \in Fetchers,
           x.pc \in {"fetch", "open", "write"} => x.at = 0 /\ x.clean,
           WholeBlocks(x),
           x.done \subseteq Named(record.cut) \cup doubtful',
           x.expect => new[Past] = "right" /\ (x.trusting \/ x.done = {})
    PROVE  Inv'
<1>1. /\ call' \in [Callers -> Call]
      /\ call'[c] = x
      /\ \A d \in Callers \ {c} : call'[d] = call[d]
      /\ refused' \in [Callers -> BOOLEAN]
      /\ UNCHANGED <<kind, record>>
  BY DEF Calls, Inv, TypeOK
<1>2. Fetchers' = Fetchers /\ \A d : Bound(d)' = Bound(d)
  BY <1>1, SameKind
<1>3. TypeOK'
  <2>1. \A d \in Callers : call'[d].at <= Bound(d)'
    BY <1>1, <1>2, BoundNat, BoundOK DEF Inv
  <2> QED
    BY <1>1, <2>1, ChangeDoes DEF Inv, TypeOK, Bound
<1>4. RecordHonest'
  <2>1. \A p \in Parts : p \in x.done => file'[p] # "hole" \/ p \in doubtful'
    BY ChangeDoes DEF Inv, RecordHonest
  <2> QED
    BY <1>1, <2>1, HonestKept, ChangeDoes DEF Inv
<1>5. CleanAfterOk'
  BY <1>1, <1>2 DEF Inv, CleanAfterOk, Fetchers
<1>6. ASSUME NEW d \in Callers PROVE InPhase(d)' /\ HashTrue(d)' /\ OwnRight(d)'
  <2>1. InPhase(d)'
    BY <1>1, <1>2 DEF Inv, InPhase
  <2>2. CASE d = c
    BY <1>1, <2>1, <2>2, ChangeDoes DEF HashTrue, OwnRight
  <2>3. CASE d # c
    BY <1>1, <2>1, <2>3, OthersKeep
  <2> QED
    BY <2>2, <2>3
<1> QED
  BY <1>3, <1>4, <1>5, <1>6 DEF Inv

\* A step of a download at its blocks, in all of its forms (bytes that land, a
\* block that is done, one that is miscounted): it goes on as x, with the file
\* new, and takes these parts for done.
Fetches(c, x, new, taken) ==
    /\ call[c].pc = "fetch" /\ call' = [call EXCEPT ![c] = x] /\ Change(c, new)
    /\ UNCHANGED <<kind, record, refused>>
    /\ x.pc \in {"fetch", "open"} /\ x.outcome = call[c].outcome /\ WholeBlocks(x)
    /\ x.at = call[c].at /\ x.clean = call[c].clean /\ x.expect = call[c].expect
    /\ x.done = call[c].done \cup taken
    /\ new \in [Places -> {"hole", "right", "junk"}]
    /\ doubtful \subseteq doubtful' /\ doubtful' \subseteq Parts
    /\ \A p \in Parts : new[p] = "hole" => file[p] = "hole"
    /\ \A p \in Parts : p \in taken => new[p] # "hole" \/ p \in doubtful'
    /\ c \notin Junk /\ x.expect /\ ~ x.trusting =>
          /\ ~ call[c].trusting
          /\ \A p \in Places : new[p] \in {file[p], "right"}
          /\ \A p \in taken : p \in Places /\ new[p] = "right"

\* Whatever a download stores keeps the invariant, if it makes no hole and
\* takes no hole for done but a doubtful one.
LEMMA FetchInv ==
    ASSUME Inv, NEW c \in Callers, NEW x \in Call, NEW new, NEW taken, Fetches(c, x, new, taken)
    PROVE  Inv'
<1> USE DEF Fetches
<1>1. /\ call'[c] = x
      /\ \A d \in Callers \ {c} : call'[d] = call[d]
      /\ call[c] \in Call
  BY DEF Inv, TypeOK
<1>2. c \in Fetchers /\ call[c].at = 0 /\ call[c].clean
  BY DEF Inv, InPhase
<1>3. RecordHonest'
  <2>1. file' = new /\ RecordHonest /\ UNCHANGED record
    BY ChangeDoes DEF Inv
  <2>2. \A d \in Callers \ {c} : call'[d].done = call[d].done
    BY <1>1
  <2>3. call'[c].done \subseteq call[c].done \cup taken
    BY <1>1
  <2>4. /\ \A p \in Parts : file'[p] = "hole" => file[p] = "hole"
        /\ \A p \in Parts : p \in taken => file'[p] # "hole" \/ p \in doubtful'
    BY <2>1
  <2> QED
    BY <2>1, <2>2, <2>3, <2>4, HonestKept
<1>4. HashTrue(c)' /\ OwnRight(c)'
  <2>1. HashTrue(c)'
    BY <1>1 DEF HashTrue
  <2>2. SUFFICES ASSUME c \notin Junk, x.expect, ~ x.trusting, disturbed[c] = "no"
                 PROVE  new[Past] = "right" /\ \A q \in x.done : new[q] = "right"
    BY <1>1, <2>1, ChangeDoes DEF OwnRight
  <2>3. file[Past] = "right" /\ \A q \in call[c].done : file[q] = "right"
    BY <2>2 DEF Inv, OwnRight
  <2>4. call[c].done \subseteq Places /\ Past \in Places
    BY <1>1, Numbers DEF Call
  <2> QED
    BY <2>2, <2>3, <2>4
<1>5. \A d \in Callers : HashTrue(d)' /\ OwnRight(d)'
  BY <1>1, <1>4, OthersKeep
<1>6. x.at <= Bound(c)
  BY BoundOK DEF Inv
<1>7. record' \in [blocks : SUBSET Nat, cut : Cuts] /\ refused' \in [Callers -> BOOLEAN]
  BY DEF Inv, TypeOK
<1>8. /\ file' \in [Places -> {"hole", "right", "junk"}]
      /\ disturbed' \in [Callers -> {"no", "fetching", "hashing"}]
  BY ChangeDoes
<1>9. /\ call[c].pc # "idle" /\ x.pc # "idle" /\ x.pc \notin {"chunk", "told"}
      /\ x.at = 0 /\ x.clean
  BY <1>2
<1> QED
  BY <1>2, <1>3, <1>5, <1>6, <1>7, <1>8, <1>9, WorkInv

\* A block more is whole blocks still.
LEMMA BlocksJoin ==
    ASSUME Inv, NEW c \in Callers, NEW p \in Parts, NEW x,
           x.cut = call[c].cut, x.done = call[c].done \cup BlockOf(c, p)
    PROVE  WholeBlocks(x)
BY DEF Inv, InPhase, WholeBlocks, BlockOf

\* A block fetched whole does, ...
LEMMA StoreInv ==
    ASSUME Inv, NEW c \in Callers, NEW p \in Parts, NEW wrong \in SUBSET Parts, Store(c, p, wrong)
    PROVE  Inv'
<1> DEFINE taken == BlockOf(c, p)
           x == [call[c] EXCEPT !.done = @ \cup taken, !.pc = "open"]
           new == [q \in Places |-> IF q \in wrong THEN "junk"
                                   ELSE IF q \in taken THEN "right"
                                   ELSE file[q]]
<1>1. call[c] \in Call /\ taken \subseteq Parts /\ Parts \subseteq Places /\ Past \notin Parts
  BY Numbers DEF Inv, TypeOK, BlockOf
<1>2. /\ call[c].pc = "fetch" /\ call' = [call EXCEPT ![c] = x] /\ Change(c, new)
      /\ UNCHANGED <<kind, record, refused, doubtful>>
      /\ wrong \subseteq taken /\ (wrong = {} \/ c \in Junk)
  BY DEF Store
<1> HIDE DEF taken
<1>3. /\ x \in Call /\ x.pc = "open" /\ x.done = call[c].done \cup taken
      /\ x.outcome = call[c].outcome /\ x.at = call[c].at /\ x.clean = call[c].clean
      /\ x.expect = call[c].expect /\ x.trusting = call[c].trusting /\ x.cut = call[c].cut
  BY <1>1 DEF Call
<1>4. /\ new \in [Places -> {"hole", "right", "junk"}]
      /\ \A q \in Places : new[q] = "hole" => file[q] = "hole"
      /\ \A q \in taken : new[q] # "hole"
      /\ c \notin Junk => /\ \A q \in Places : new[q] \in {file[q], "right"}
                          /\ \A q \in taken : new[q] = "right"
  BY <1>1, <1>2 DEF Inv, TypeOK
<1>5. doubtful' \subseteq Parts
  BY <1>2 DEF Inv, TypeOK
<1>6. WholeBlocks(x)
  BY <1>3, BlocksJoin DEF taken
<1> HIDE DEF x, new
<1>7. \A q \in Parts : /\ new[q] = "hole" => file[q] = "hole"
                       /\ q \in taken => new[q] # "hole" \/ q \in doubtful'
  BY <1>1, <1>4
<1>8. c \notin Junk => /\ \A q \in Places : new[q] \in {file[q], "right"}
                       /\ \A q \in taken : q \in Places /\ new[q] = "right"
  BY <1>1, <1>4
<1>9. doubtful \subseteq doubtful' /\ UNCHANGED <<kind, record, refused>>
  BY <1>2
<1> QED
  <2>1. call[c].pc = "fetch" /\ call' = [call EXCEPT ![c] = x] /\ Change(c, new)
    BY <1>2
  <2>2. /\ c \notin Junk /\ x.expect /\ ~ x.trusting =>
             /\ ~ call[c].trusting
             /\ \A q \in Places : new[q] \in {file[q], "right"}
             /\ \A q \in taken : q \in Places /\ new[q] = "right"
        /\ \A q \in Parts : new[q] = "hole" => file[q] = "hole"
        /\ \A q \in Parts : q \in taken => new[q] # "hole" \/ q \in doubtful'
    <3>1. ~ x.trusting => ~ call[c].trusting
      BY <1>3, Zenon
    <3>2. \A q \in Parts : new[q] = "hole" => file[q] = "hole"
      BY <1>7, Zenon
    <3>3. \A q \in Parts : q \in taken => new[q] # "hole" \/ q \in doubtful'
      BY <1>7, Zenon
    <3>4. ASSUME c \notin Junk, x.expect, ~ x.trusting
          PROVE  /\ ~ call[c].trusting
                 /\ \A q \in Places : new[q] \in {file[q], "right"}
                 /\ \A q \in taken : q \in Places /\ new[q] = "right"
      BY <1>8, <3>1, <3>4, Zenon
    <3> QED
      BY <3>2, <3>3, <3>4, Zenon
  <2>3. /\ x.pc \in {"fetch", "open"} /\ x.outcome = call[c].outcome /\ WholeBlocks(x)
        /\ x.at = call[c].at /\ x.clean = call[c].clean /\ x.expect = call[c].expect
        /\ x.done = call[c].done \cup taken
    BY <1>3, <1>6
  <2>4. new \in [Places -> {"hole", "right", "junk"}]
    BY <1>4
  <2>5. Fetches(c, x, new, taken)
    BY <1>5, <1>9, <2>1, <2>2, <2>3, <2>4, Zenon DEF Fetches
  <2> QED
    BY <1>3, <2>5, FetchInv

\* ... and bytes that are not counted, ...
LEMMA LandInv ==
    ASSUME Inv, NEW c \in Callers, NEW p \in Places, NEW what \in {"right", "junk"}, Land(c, p, what)
    PROVE  Inv'
<1> DEFINE new == [file EXCEPT ![p] = what]
<1>1. call[c] \in Call /\ call' = [call EXCEPT ![c] = call[c]]
  BY DEF Inv, TypeOK, Land
<1>2. /\ call[c].pc = "fetch" /\ Change(c, new) /\ UNCHANGED <<kind, record, refused, doubtful>>
      /\ (what = "right" \/ c \in Junk)
  BY DEF Land
<1>3. Parts \subseteq Places
  BY Numbers
<1>4. /\ new \in [Places -> {"hole", "right", "junk"}]
      /\ \A q \in Places : new[q] = "hole" => file[q] = "hole"
      /\ c \notin Junk => \A q \in Places : new[q] \in {file[q], "right"}
  BY <1>2 DEF Inv, TypeOK
<1>5. doubtful' \subseteq Parts
  BY <1>2 DEF Inv, TypeOK
<1>6. call[c].done = call[c].done \cup {} /\ WholeBlocks(call[c])
  BY DEF Inv, InPhase
<1> HIDE DEF new
<1>7. \A q \in Parts : new[q] = "hole" => file[q] = "hole"
  BY <1>3, <1>4
<1>8. /\ \A q \in Parts : q \in {} => new[q] # "hole" \/ q \in doubtful'
      /\ \A q \in {} : q \in Places /\ new[q] = "right"
  OBVIOUS
<1>9. doubtful \subseteq doubtful' /\ UNCHANGED <<kind, record, refused>>
  BY <1>2
<1> QED
  <2>1. Fetches(c, call[c], new, {})
    BY <1>1, <1>2, <1>4, <1>5, <1>6, <1>7, <1>8, <1>9 DEF Fetches
  <2> QED
    BY <1>1, <2>1, FetchInv

\* ... and a block miscounted, whose parts are doubtful then.
LEMMA MiscountInv ==
    ASSUME Inv, NEW c \in Callers, NEW p \in Parts, Miscount(c, p)
    PROVE  Inv'
<1> DEFINE taken == BlockOf(c, p)
           x == [call[c] EXCEPT !.done = @ \cup taken, !.trusting = call[c].expect, !.pc = "open"]
<1>1. call[c] \in Call /\ taken \subseteq Parts /\ doubtful \subseteq Parts
  BY DEF Inv, TypeOK, BlockOf
<1>2. /\ call[c].pc = "fetch" /\ call' = [call EXCEPT ![c] = x]
      /\ UNCHANGED <<kind, file, record, refused, disturbed>>
      /\ doubtful' = doubtful \cup taken
  BY DEF Miscount
<1>3. Change(c, file)
  BY <1>2 DEF Change, Inv, TypeOK
<1> HIDE DEF taken
<1>4. /\ x \in Call /\ x.pc = "open" /\ x.done = call[c].done \cup taken
      /\ x.outcome = call[c].outcome /\ x.at = call[c].at /\ x.clean = call[c].clean
      /\ x.expect = call[c].expect /\ x.trusting = call[c].expect /\ x.cut = call[c].cut
  BY <1>1 DEF Call
<1>5. file \in [Places -> {"hole", "right", "junk"}]
  BY DEF Inv, TypeOK
<1>6. (x.expect => x.trusting) /\ WholeBlocks(x)
  BY <1>4, BlocksJoin DEF taken
<1> HIDE DEF x
<1>7. Fetches(c, x, file, taken)
  BY <1>1, <1>2, <1>3, <1>4, <1>5, <1>6 DEF Fetches
<1> QED
  BY <1>4, <1>7, FetchInv

\* Accepting keeps it: a record that is gone names nothing.
LEMMA AcceptInv ==
    ASSUME Inv, NEW c \in Callers, Accept(c)
    PROVE  Inv'
<1> DEFINE y(d) == [call[d] EXCEPT !.pc = "fetch"]
<1>1. ASSUME NEW d \in Callers
      PROVE  /\ y(d) \in Call /\ y(d).pc = "fetch" /\ y(d).done = call[d].done
             /\ y(d).at = call[d].at /\ y(d).outcome = call[d].outcome
             /\ y(d).clean = call[d].clean /\ y(d).expect = call[d].expect /\ y(d).trusting = call[d].trusting
             /\ WholeBlocks(y(d))
  <2>1. call[d] \in Call /\ WholeBlocks(call[d])
    BY DEF Inv, TypeOK, InPhase
  <2> QED
    BY <2>1 DEF Call, WholeBlocks
<1>2. /\ Ended("ok") \in Call /\ Ended("ok").pc = "idle" /\ Ended("ok").outcome = "ok"
      /\ Ended("ok").at = 0 /\ Ended("ok").done = {} /\ Ended("ok").expect = FALSE
      /\ WholeBlocks(Ended("ok"))
  BY EndedType DEF Outcomes
<1>3. \A d \in Callers : call'[d] = IF d = c THEN Ended("ok")
                                  ELSE IF call[d].pc = "write" THEN y(d) ELSE call[d]
  BY DEF Accept
<1>4. call' \in [Callers -> Call]
  BY <1>1, <1>2 DEF Accept, Inv, TypeOK
<1>5. Fetchers' = Fetchers /\ \A d : Bound(d)' = Bound(d)
  BY SameKind DEF Accept
<1> HIDE DEF y
<1>6. TypeOK'
  <2>1. \A d \in Callers : call'[d].at <= Bound(d)'
    BY <1>1, <1>2, <1>3, <1>5, BoundNat, BoundOK DEF Inv
  <2> QED
    BY <1>4, <2>1, Numbers DEF Inv, TypeOK, Bound, Accept, Cleared
<1>7. RecordHonest'
  <2>1. Named(record.cut)' = {}
    BY Numbers DEF Named, Accept, Cleared
  <2>2. \A d \in Callers : call'[d].done = {} \/ call'[d].done = call[d].done
    BY <1>1, <1>2, <1>3
  <2>3. UNCHANGED <<file, doubtful>>
    BY DEF Accept
  <2> QED
    BY <2>1, <2>2, <2>3 DEF Inv, RecordHonest
<1>8. CleanAfterOk'
  BY Numbers DEF CleanAfterOk, Accept, Cleared
<1>9. ASSUME NEW d \in Callers PROVE InPhase(d)' /\ HashTrue(d)' /\ OwnRight(d)'
  <2>1. d # c => disturbed'[d] = disturbed[d]
    BY DEF Accept, Inv, TypeOK
  <2>2. UNCHANGED file
    BY DEF Accept
  <2> QED
    BY <1>1, <1>2, <1>3, <1>5, <2>1, <2>2 DEF Inv, InPhase, HashTrue, OwnRight
<1> QED
  BY <1>6, <1>7, <1>8, <1>9 DEF Inv

\* So does the death of a process,
LEMMA KillInv ==
    ASSUME Inv, NEW c \in Callers, Kill(c)
    PROVE  Inv'
<1> DEFINE T == Together(c)
<1>1. /\ Ended("none") \in Call /\ Ended("none").pc = "idle"
      /\ Ended("none").outcome = "none" /\ Ended("none").at = 0
      /\ Ended("none").done = {} /\ Ended("none").expect = FALSE
      /\ WholeBlocks(Ended("none"))
  BY EndedType DEF Outcomes
<1>2. \A d \in Callers : call'[d] = IF d \in T THEN Ended("none") ELSE call[d]
  BY DEF Kill
<1>3. /\ call' \in [Callers -> Call]
      /\ disturbed' \in [Callers -> {"no", "fetching", "hashing"}]
  BY <1>1 DEF Kill, Inv, TypeOK
<1>4. \A d \in Callers : d \notin T => disturbed'[d] = disturbed[d]
  BY DEF Kill
<1>5. Fetchers' = Fetchers /\ \A d : Bound(d)' = Bound(d)
  BY SameKind DEF Kill
<1>6. Fetchers \subseteq Callers
  BY DEF Fetchers
<1> HIDE DEF T
<1>7. TypeOK'
  <2>1. \A d \in Callers : call'[d].at <= Bound(d)'
    BY <1>1, <1>2, <1>5, BoundNat, BoundOK DEF Inv
  <2> QED
    BY <1>3, <2>1 DEF Inv, TypeOK, Bound, Kill
<1>8. RecordHonest'
  BY <1>1, <1>2 DEF Inv, RecordHonest, Named, Kill
<1>9. CleanAfterOk'
  BY <1>1, <1>2, <1>5, <1>6 DEF Inv, CleanAfterOk, Kill
<1>10. ASSUME NEW d \in Callers PROVE InPhase(d)' /\ HashTrue(d)' /\ OwnRight(d)'
  <2>1. UNCHANGED file
    BY DEF Kill
  <2> QED
    BY <1>1, <1>2, <1>4, <1>5, <2>1 DEF Inv, InPhase, HashTrue, OwnRight
<1> QED
  BY <1>7, <1>8, <1>9, <1>10 DEF Inv

-----------------------------------------------------------------------------
(* The steps that leave the file alone.                                    *)

\* a save, emptied or written,
LEMMA SaveInv ==
    ASSUME Inv, NEW c \in Callers, SaveOpen(c) \/ SaveWrite(c)
    PROVE  Inv'
<1> DEFINE x == [call[c] EXCEPT !.pc = IF SaveOpen(c) THEN "write" ELSE "fetch"]
<1>0. WholeBlocks(call[c])
  BY DEF Inv, InPhase
<1>1. call[c] \in Call
  BY DEF Inv, TypeOK
<1>2. /\ x \in Call /\ x.pc \in {"write", "fetch"} /\ x.done = call[c].done
      /\ x.outcome = call[c].outcome /\ x.at = call[c].at /\ x.clean = call[c].clean
      /\ x.expect = call[c].expect /\ x.trusting = call[c].trusting /\ WholeBlocks(x)
  BY <1>1, <1>0 DEF Call, WholeBlocks
<1>3. call' = [call EXCEPT ![c] = x]
  BY DEF SaveOpen, SaveWrite
<1>4. call[c].pc \in {"open", "write"} /\ UNCHANGED <<kind, file, refused, doubtful, disturbed>>
  BY DEF SaveOpen, SaveWrite
<1>5. /\ record' \in [blocks : SUBSET Nat, cut : Cuts]
      /\ Named(record.cut)' \subseteq Named(record.cut) \cup call[c].done
  <2>1. CASE SaveOpen(c)
    BY <2>1, Numbers DEF SaveOpen, Named
  <2>2. CASE SaveWrite(c)
    <3>1. /\ record' = [blocks |-> Listed(c), cut |-> call[c].cut]
          /\ call[c].cut \in [Parts -> Nat] /\ call[c].cut \in Cuts /\ call[c].done \subseteq Parts
      BY <1>1, <2>2, CallersAssumption DEF SaveWrite, Call, CallersAssumption
    <3>2. Listed(c) \subseteq Nat
      BY <3>1 DEF Listed
    <3>3. \A p \in Parts : call[c].cut[p] \in Listed(c) => p \in call[c].done
      BY <1>0, <3>1 DEF Listed, WholeBlocks
    <3> QED
      BY <3>1, <3>2, <3>3 DEF Named
  <2> QED
    BY <2>1, <2>2
<1> HIDE DEF x
<1>6. c \in Fetchers /\ call[c].at = 0 /\ call[c].clean
  BY <1>4 DEF Inv, InPhase
<1>7. HashTrue(c)'
  BY <1>2, <1>3 DEF HashTrue, Inv, TypeOK
<1>8. call[c].at <= Bound(c) /\ refused' \in [Callers -> BOOLEAN]
  BY <1>4, BoundOK DEF Inv, TypeOK
<1> QED
  BY <1>2, <1>3, <1>4, <1>5, <1>6, <1>7, <1>8, QuietInv

\* a callback that asks to stop,
LEMMA CancelInv ==
    ASSUME Inv, NEW c \in Callers, Cancel(c)
    PROVE  Inv'
<1>1. call[c] \in Call /\ call' = [call EXCEPT ![c] = call[c]]
  BY DEF Inv, TypeOK, Cancel
<1>2. call[c].pc \in {"fetch", "open", "write"} /\ UNCHANGED <<kind, file, record, call, doubtful, disturbed>>
  BY DEF Cancel
<1>3. c \in Fetchers /\ call[c].at = 0 /\ call[c].clean /\ WholeBlocks(call[c])
  BY <1>2 DEF Inv, InPhase
<1>4. call[c].at <= Bound(c) /\ refused' \in [Callers -> BOOLEAN]
  BY BoundOK DEF Inv, TypeOK, Cancel
<1>5. HashTrue(c)'
  BY <1>2 DEF HashTrue, Inv
<1>6. record' \in [blocks : SUBSET Nat, cut : Cuts] /\ Named(record.cut)' = Named(record.cut)
  BY <1>2 DEF Inv, TypeOK, Named
<1> QED
  BY <1>1, <1>2, <1>3, <1>4, <1>5, <1>6, QuietInv

\* coming to the end of the plan,
LEMMA GatherInv ==
    ASSUME Inv, NEW c \in Callers, Gather(c)
    PROVE  Inv'
<1> DEFINE x == [call[c] EXCEPT !.pc = "hash"]
<1>1. call[c] \in Call /\ WholeBlocks(call[c])
  BY DEF Inv, TypeOK, InPhase
<1>2. /\ x \in Call /\ x.pc = "hash" /\ x.done = call[c].done
      /\ x.outcome = call[c].outcome /\ x.at = call[c].at /\ x.clean = call[c].clean
      /\ x.expect = call[c].expect /\ x.trusting = call[c].trusting /\ WholeBlocks(x)
  BY <1>1 DEF Call, WholeBlocks
<1>3. /\ call' = [call EXCEPT ![c] = x]
      /\ call[c].pc = "fetch" /\ call[c].done = Parts
      /\ UNCHANGED <<kind, file, record, refused, doubtful, disturbed>>
  BY DEF Gather
<1> HIDE DEF x
<1>4. c \in Fetchers /\ call[c].at = 0 /\ call[c].clean
  BY <1>3 DEF Inv, InPhase
<1>5. call'[c] = x
  BY <1>3 DEF Inv, TypeOK
<1>6. HashTrue(c)'
  <2>1. \A q \in Places : ~ (q <= x.at)
    BY <1>2, <1>4 DEF Places
  <2> QED
    BY <1>2, <1>3, <1>4, <1>5, <2>1 DEF HashTrue, Parts
<1>7. call[c].at <= Bound(c) /\ refused' \in [Callers -> BOOLEAN]
  BY <1>3, BoundOK DEF Inv, TypeOK
<1>8. record' \in [blocks : SUBSET Nat, cut : Cuts] /\ Named(record.cut)' = Named(record.cut)
  BY <1>3 DEF Inv, TypeOK, Named
<1> QED
  BY <1>2, <1>3, <1>4, <1>6, <1>7, <1>8, QuietInv

\* a read of the hash: what was read right is, unless the file was changed,
LEMMA ReadInv ==
    ASSUME Inv, NEW c \in Callers, Read(c)
    PROVE  Inv'
<1> DEFINE right == call[c].clean /\ file[call[c].at + 1] = "right"
           x == [call[c] EXCEPT !.at = @ + 1, !.clean = right]
<1>1. call[c] \in Call /\ WholeBlocks(call[c])
  BY DEF Inv, TypeOK, InPhase
<1>2. right \in BOOLEAN
  BY <1>1 DEF Call
<1>3. call' = [call EXCEPT ![c] = x]
  BY DEF Read
<1>4. right <=> call[c].clean /\ file[call[c].at + 1] = "right"
  OBVIOUS
<1> HIDE DEF right
<1>5. /\ x \in Call /\ x.pc = call[c].pc /\ x.done = call[c].done
      /\ x.outcome = call[c].outcome /\ x.at = call[c].at + 1 /\ x.clean = right
      /\ x.expect = call[c].expect /\ x.trusting = call[c].trusting /\ WholeBlocks(x)
  <2>1. call[c].at + 1 \in Nat
    BY BoundOK DEF Inv
  <2> QED
    BY <1>1, <1>2, <2>1 DEF Call, WholeBlocks
<1>6. /\ call' = [call EXCEPT ![c] = x]
      /\ call[c].pc = "hash" /\ call[c].at < Past
      /\ UNCHANGED <<kind, file, record, refused, doubtful, disturbed>>
  BY <1>3 DEF Read
<1>7. call'[c] = x
  BY <1>6 DEF Inv, TypeOK
<1> HIDE DEF x
<1>8. call[c].at \in Nat /\ Past \in Nat
  BY BoundOK, Numbers DEF Inv
<1>9. HashTrue(c)'
  <2>1. SUFFICES ASSUME call[c].expect, disturbed[c] # "hashing"
                 PROVE  right <=> \A p \in Places : p <= call[c].at + 1 => file[p] = "right"
    BY <1>5, <1>6, <1>7 DEF HashTrue, Inv
  <2>2. call[c].clean <=> \A p \in Places : p <= call[c].at => file[p] = "right"
    BY <1>6, <2>1 DEF Inv, HashTrue
  <2>3. call[c].at + 1 \in Places
    BY <1>6, <1>8 DEF Places
  <2>4. \A p \in Places : p <= call[c].at + 1 <=> p <= call[c].at \/ p = call[c].at + 1
    BY <1>8 DEF Places
  <2> QED
    BY <1>4, <2>1, <2>2, <2>3, <2>4, Zenon
<1>10. c \in Fetchers /\ call[c].at + 1 <= Bound(c)
  <2>1. c \in Fetchers
    BY <1>6 DEF Inv, InPhase
  <2> QED
    BY <1>6, <1>8, <2>1 DEF Bound
<1>11. refused' \in [Callers -> BOOLEAN] /\ record' \in [blocks : SUBSET Nat, cut : Cuts]
       /\ Named(record.cut)' = Named(record.cut)
  BY <1>6 DEF Inv, TypeOK, Named
<1> QED
  BY <1>5, <1>6, <1>9, <1>10, <1>11, QuietInv

\* a step of a batch,
LEMMA BatchInv ==
    ASSUME Inv, NEW c \in Callers, Chunk(c) \/ Told(c)
    PROVE  Inv'
<1> DEFINE next == [call[c] EXCEPT !.at = @ + 1, !.pc = "told"]
           again == [call[c] EXCEPT !.pc = "chunk"]
           x == IF Chunk(c) THEN next ELSE again
<1>1. call[c] \in Call /\ WholeBlocks(call[c])
  BY DEF Inv, TypeOK, InPhase
<1>2. /\ x \in Call /\ x.pc \in {"told", "chunk"} /\ x.done = call[c].done
      /\ x.outcome = call[c].outcome
      /\ x.at = call[c].at \/ (Chunk(c) /\ x.at = call[c].at + 1)
      /\ x.expect = call[c].expect /\ x.trusting = call[c].trusting /\ WholeBlocks(x)
  <2>1. /\ next \in Call /\ next.pc = "told" /\ next.done = call[c].done
        /\ next.outcome = call[c].outcome /\ next.at = call[c].at + 1
        /\ next.expect = call[c].expect /\ next.trusting = call[c].trusting /\ WholeBlocks(next)
    <3>1. call[c].at + 1 \in Nat
      BY BoundOK DEF Inv
    <3> QED
      BY <1>1, <3>1 DEF Call, WholeBlocks
  <2>2. /\ again \in Call /\ again.pc = "chunk" /\ again.done = call[c].done
        /\ again.outcome = call[c].outcome /\ again.at = call[c].at
        /\ again.expect = call[c].expect /\ again.trusting = call[c].trusting /\ WholeBlocks(again)
    BY <1>1 DEF Call, WholeBlocks
  <2> HIDE DEF next, again
  <2> QED
    BY <2>1, <2>2
<1>3. /\ call' = [call EXCEPT ![c] = x]
      /\ call[c].pc \in {"told", "chunk"}
      /\ UNCHANGED <<kind, file, record, refused, doubtful, disturbed>>
  BY DEF Chunk, Told
<1>4. Chunk(c) => call[c].at < NumChunks
  BY DEF Chunk, ChunksLeft
<1> HIDE DEF x
<1>5. c \notin Fetchers
  BY <1>3 DEF Inv, InPhase
<1>6. x.at <= Bound(c)
  BY <1>2, <1>4, <1>5, BoundOK, CallersAssumption DEF Inv, Bound, CallersAssumption
<1>7. HashTrue(c)'
  BY <1>2, <1>3 DEF HashTrue, Inv, TypeOK
<1>8. refused' \in [Callers -> BOOLEAN] /\ record' \in [blocks : SUBSET Nat, cut : Cuts]
      /\ Named(record.cut)' = Named(record.cut)
  BY <1>3 DEF Inv, TypeOK, Named
<1> QED
  BY <1>2, <1>3, <1>5, <1>6, <1>7, <1>8, QuietInv

-----------------------------------------------------------------------------
(* The steps that begin a call, or turn it away.                           *)

\* Turned away, a call ends in an error or with no word.
LEMMA Away == \A c \in Callers : TypeOK => TurnedAway(kind[c]) \subseteq {"none", "error"}
<1> SUFFICES ASSUME NEW c \in Callers, TypeOK
             PROVE  TurnedAway(kind[c]) \subseteq {"none", "error"}
  OBVIOUS
<1>1. kind[c] \in {"http", "cli", "c", "batch"}
  BY CallersAssumption DEF TypeOK, CallersAssumption
<1>2. \A r \in Request : Answer(r) \in {"none", "error", "accepted"}
  BY DEF Answer
<1> QED
  BY <1>1, <1>2 DEF TurnedAway, Answers

\* Being turned away keeps the invariant, ...
LEMMA RefuseInv ==
    ASSUME Inv, NEW c \in Callers, NEW o \in TurnedAway(kind[c]), Refuse(c, o)
    PROVE  Inv'
<1>1. o \in {"none", "error"}
  BY Away DEF Inv
<1>2. /\ Ended(o) \in Call /\ Ended(o).pc = "idle" /\ Ended(o).outcome = o
      /\ Ended(o).at = 0 /\ Ended(o).done = {} /\ Ended(o).expect = FALSE /\ WholeBlocks(Ended(o))
  BY <1>1, EndedType DEF Outcomes
<1>3. Calls(c, Ended(o)) /\ UNCHANGED <<file, doubtful, disturbed>>
  BY DEF Refuse
<1>4. Change(c, file) /\ doubtful' \subseteq Parts /\ file \in [Places -> {"hole", "right", "junk"}]
  BY <1>3 DEF Change, Inv, TypeOK
<1> QED
  BY <1>1, <1>2, <1>3, <1>4, BeginInv

\* ... and so does beginning, on whatever record in whatever cut.
LEMMA BeginsInv ==
    ASSUME Inv, NEW c \in Callers,
           \/ \E resume, expect \in BOOLEAN, cut \in Cuts : Begin(c, resume, expect, cut)
           \/ BeginBatch(c)
    PROVE  Inv'
<1>1. ASSUME NEW resume \in BOOLEAN, NEW expect \in BOOLEAN, NEW cut \in Cuts,
             Begin(c, resume, expect, cut)
      PROVE  Inv'
  <2> DEFINE trusts == expect /\ resume /\ Named(cut) # {}
             x == [Ended("none") EXCEPT !.pc = "fetch", !.expect = expect, !.cut = cut,
                                        !.done = Loaded(resume, cut), !.trusting = trusts]
             new == [file EXCEPT ![Past] = "right"]
  <2>1. /\ Loaded(resume, cut) \subseteq Parts
        /\ Loaded(resume, cut) \in {{}, Named(cut)}
        /\ expect /\ ~ trusts => Loaded(resume, cut) = {}
    BY DEF Loaded, Named
  <2>2. trusts \in BOOLEAN
    OBVIOUS
  <2>3. /\ Calls(c, x) /\ c \in Fetchers /\ Change(c, new)
        /\ doubtful' = doubtful \cup (Loaded(resume, cut) \ Named(record.cut))
    BY <1>1 DEF Begin
  <2> HIDE DEF trusts
  <2>4. /\ x \in Call /\ x.pc = "fetch" /\ x.outcome = "none" /\ x.at = 0 /\ x.clean
        /\ x.done = Loaded(resume, cut) /\ x.expect = expect /\ x.cut = cut /\ x.trusting = trusts
    BY <2>1, <2>2 DEF Ended, Call, Outcomes
  <2>5. WholeBlocks(x)
    BY <2>1, <2>4 DEF WholeBlocks, Named
  <2>6. /\ new \in [Places -> {"hole", "right", "junk"}] /\ new[Past] = "right"
        /\ \A p \in Parts : new[p] = "hole" => file[p] = "hole"
    BY Numbers DEF Inv, TypeOK
  <2>7. doubtful' \subseteq Parts /\ doubtful \subseteq doubtful'
        /\ x.done \subseteq Named(record.cut) \cup doubtful'
    BY <2>1, <2>3, <2>4 DEF Inv, TypeOK
  <2>8. x.expect => x.trusting \/ x.done = {}
    BY <2>1, <2>4
  <2> HIDE DEF x, new
  <2> QED
    BY <2>3, <2>4, <2>5, <2>6, <2>7, <2>8, BeginInv
<1>2. CASE BeginBatch(c)
  <2> DEFINE x == [Ended("none") EXCEPT !.pc = "chunk"]
  <2>1. /\ x \in Call /\ x.pc = "chunk" /\ x.outcome = "none" /\ x.at = 0 /\ x.done = {}
        /\ x.expect = FALSE /\ WholeBlocks(x)
    BY Numbers DEF Ended, Call, Outcomes, WholeBlocks
  <2>2. /\ Calls(c, x) /\ c \notin Fetchers
        /\ UNCHANGED <<file, doubtful, disturbed>>
    BY <1>2 DEF BeginBatch, Fetchers
  <2>3. Change(c, file) /\ doubtful' \subseteq Parts /\ file \in [Places -> {"hole", "right", "junk"}]
    BY <2>2 DEF Change, Inv, TypeOK
  <2> HIDE DEF x
  <2> QED
    BY <2>1, <2>2, <2>3, BeginInv
<1> QED
  BY <1>1, <1>2

\* A call of the file that is turned back, or a batch that ends.
LEMMA EndsInv ==
    ASSUME Inv, NEW c \in Callers,
           \/ GiveUp(c) \/ Panic(c) \/ Unreadable(c) \/ Mismatch(c)
           \/ Stop(c) \/ Abandon(c) \/ EndBatch(c)
    PROVE  Inv'
<1>1. {"error", "integrity", "ok"} \subseteq Outcomes
  BY DEF Outcomes
<1>2. CASE GiveUp(c) \/ Panic(c)
  BY <1>1, <1>2, ReturnInv DEF GiveUp, Panic
<1>3. CASE Unreadable(c)
  BY <1>1, <1>3, ReturnInv DEF Unreadable
<1>4. CASE Mismatch(c)
  BY <1>1, <1>4, ReturnInv DEF Mismatch
<1>5. CASE Abandon(c)
  BY <1>1, <1>5, ReturnInv DEF Abandon
<1>6. CASE Stop(c) \/ EndBatch(c)
  <2>1. Return(c, "ok") /\ call[c].pc \in {"chunk", "told"}
    BY <1>6 DEF Stop, EndBatch
  <2>2. c \notin Fetchers
    BY <2>1 DEF Inv, InPhase
  <2> QED
    BY <1>1, <2>1, <2>2, ReturnInv
<1> QED
  BY <1>2, <1>3, <1>4, <1>5, <1>6

\* Every step keeps the invariant.
LEMMA InvStep == Inv /\ [Next]_vars => Inv'
<1> SUFFICES ASSUME Inv, [Next]_vars PROVE Inv'
  OBVIOUS
<1>1. CASE Next
  <2>1. PICK c \in Callers :
          \/ \E outcome \in TurnedAway(kind[c]) : Refuse(c, outcome)
          \/ \E resume, expect \in BOOLEAN, cut \in Cuts : Begin(c, resume, expect, cut)
          \/ \E p \in Parts : Miscount(c, p) \/ \E wrong \in SUBSET Parts : Store(c, p, wrong)
          \/ \E p \in Places, what \in {"right", "junk"} : Land(c, p, what)
          \/ SaveOpen(c) \/ SaveWrite(c) \/ Cancel(c) \/ GiveUp(c) \/ Panic(c) \/ Gather(c)
          \/ Read(c) \/ Unreadable(c) \/ Mismatch(c) \/ Accept(c)
          \/ BeginBatch(c) \/ Chunk(c) \/ Told(c) \/ Stop(c) \/ Abandon(c) \/ EndBatch(c)
          \/ Kill(c)
    BY <1>1 DEF Next
  <2> QED
    BY <2>1, RefuseInv, BeginsInv, StoreInv, LandInv, MiscountInv, SaveInv, CancelInv, GatherInv, ReadInv,
       EndsInv, AcceptInv, BatchInv, KillInv
<1>2. CASE UNCHANGED vars
  <2>1. Fetchers' = Fetchers /\ TypeOK'
    BY <1>2, SameKind DEF vars, Inv, TypeOK
  <2> QED
    BY <1>2, <2>1 DEF vars, Inv, RecordHonest, Named, CleanAfterOk, InPhase, HashTrue, OwnRight
<1> QED
  BY <1>1, <1>2

\* Types, for calls of any kind in any interleaving.
THEOREM CallersTypes == Spec => []TypeOK
BY InvInit, InvStep, PTL DEF Spec, Inv

\* No part that is a hole is ever taken for done, by the record or by a call,
\* whoever else writes the file, the record, or is killed, but for the two ways
\* that put it in doubt: whatever the cuts, and however many calls.
THEOREM RecordIsHonest == Spec => []RecordHonest
BY InvInit, InvStep, PTL DEF Spec, Inv

\* When all calls on the file have succeeded, its record is gone.
THEOREM NoRecordLeft == Spec => []CleanAfterOk
BY InvInit, InvStep, PTL DEF Spec, Inv

-----------------------------------------------------------------------------
(* A download returns ok, or a mismatch, at the end of its hash only.      *)

\* What a call says of the file follows from it, at every step.
LEMMA VerdictStep ==
    ASSUME Inv, Next, NEW c \in Fetchers, NEW o \in {"ok", "integrity"}, Returns(c, o)
    PROVE  /\ call[c].pc = "hash" /\ (call[c].expect => call[c].at = Past)
           /\ o = "ok" => (call[c].expect => call[c].clean)
           /\ o = "integrity" => call[c].expect /\ ~ call[c].clean
<1>1. PICK d \in Callers :
          \/ \E outcome \in TurnedAway(kind[d]) : Refuse(d, outcome)
          \/ \E resume, expect \in BOOLEAN, cut \in Cuts : Begin(d, resume, expect, cut)
          \/ \E p \in Parts : Miscount(d, p) \/ \E wrong \in SUBSET Parts : Store(d, p, wrong)
          \/ \E p \in Places, what \in {"right", "junk"} : Land(d, p, what)
          \/ SaveOpen(d) \/ SaveWrite(d) \/ Cancel(d) \/ GiveUp(d) \/ Panic(d) \/ Gather(d)
          \/ Read(d) \/ Unreadable(d) \/ Mismatch(d) \/ Accept(d)
          \/ BeginBatch(d) \/ Chunk(d) \/ Told(d) \/ Stop(d) \/ Abandon(d) \/ EndBatch(d)
          \/ Kill(d)
  BY DEF Next
<1>2. /\ c \in Callers /\ call \in [Callers -> Call]
      /\ call[c].pc # "idle" /\ call'[c].pc = "idle" /\ call'[c].outcome = o
  BY DEF Returns, Fetchers, Inv, TypeOK
<1>3. ASSUME NEW x, call' = [call EXCEPT ![d] = x] PROVE c = d /\ x.pc = "idle" /\ x.outcome = o
  BY <1>2, <1>3
<1>4. ASSUME Return(d, "error") PROVE FALSE
  <2>1. Ended("error").outcome = "error"
    BY DEF Ended
  <2> QED
    BY <1>3, <1>4, <2>1 DEF Return
<1>5. CASE Accept(d)
  <2> DEFINE y == [call[c] EXCEPT !.pc = "fetch"]
  <2>1. y.pc = "fetch"
    BY <1>2 DEF Call
  <2>2. call'[c] = IF c = d THEN Ended("ok") ELSE IF call[c].pc = "write" THEN y ELSE call[c]
    BY <1>2, <1>5 DEF Accept
  <2> HIDE DEF y
  <2>3. c = d /\ Ended("ok").outcome = "ok"
    BY <1>2, <2>1, <2>2 DEF Ended
  <2> QED
    BY <1>2, <1>5, <2>2, <2>3 DEF Accept, Hashed
<1>6. CASE Mismatch(d)
  <2>1. Ended("integrity").outcome = "integrity"
    BY DEF Ended
  <2> QED
    BY <1>3, <1>6, <2>1 DEF Mismatch, Return, Hashed
<1>7. CASE Kill(d)
  <2>1. Ended("none").outcome = "none"
    BY DEF Ended
  <2> QED
    BY <1>2, <1>7, <2>1 DEF Kill
<1>8. CASE Stop(d) \/ EndBatch(d)
  <2>1. Return(d, "ok") /\ call[d].pc \in {"chunk", "told"}
    BY <1>8 DEF Stop, EndBatch
  <2>2. c = d
    BY <1>3, <2>1 DEF Return
  <2> QED
    BY <1>2, <2>1, <2>2 DEF Inv, InPhase
<1>9. CASE GiveUp(d) \/ Panic(d) \/ Unreadable(d) \/ Abandon(d)
  BY <1>4, <1>9 DEF GiveUp, Panic, Unreadable, Abandon
<1>10. CASE \/ \E outcome \in TurnedAway(kind[d]) : Refuse(d, outcome)
            \/ \E resume, expect \in BOOLEAN, cut \in Cuts : Begin(d, resume, expect, cut)
            \/ BeginBatch(d)
  <2>1. PICK x : Calls(d, x)
    BY <1>10 DEF Refuse, Begin, BeginBatch
  <2> QED
    BY <1>2, <1>3, <2>1 DEF Calls
<1>11. CASE Cancel(d) \/ \E p \in Places, what \in {"right", "junk"} : Land(d, p, what)
  BY <1>2, <1>11 DEF Land, Cancel
<1>12. CASE \E p \in Parts : Miscount(d, p) \/ \E wrong \in SUBSET Parts : Store(d, p, wrong)
  <2>1. ASSUME c # d PROVE call'[c] = call[c]
    BY <1>2, <1>12, <2>1 DEF Store, Miscount
  <2>2. ASSUME NEW p \in Parts, Miscount(d, p) PROVE c = d => call'[c].pc = "open"
    BY <1>2, <2>2 DEF Miscount, Call
  <2>3. ASSUME NEW p \in Parts, NEW wrong \in SUBSET Parts, Store(d, p, wrong)
        PROVE  c = d => call'[c].pc = "open"
    BY <1>2, <2>3 DEF Store, Call
  <2> QED
    BY <1>2, <1>12, <2>1, <2>2, <2>3
<1>13. CASE SaveOpen(d) \/ SaveWrite(d) \/ Gather(d) \/ Read(d) \/ Chunk(d) \/ Told(d)
  <2>1. ASSUME c # d PROVE call'[c] = call[c]
    BY <1>2, <1>13, <2>1 DEF SaveOpen, SaveWrite, Gather, Read, Chunk, Told
  <2>2. CASE SaveOpen(d) \/ SaveWrite(d) \/ Gather(d)
    BY <1>2, <2>1, <2>2 DEF SaveOpen, SaveWrite, Gather, Call
  <2>3. CASE Read(d)
    BY <1>2, <2>1, <2>3 DEF Read, Call
  <2>4. CASE Chunk(d) \/ Told(d)
    BY <1>2, <2>1, <2>4 DEF Chunk, Told, Call
  <2> QED
    BY <1>13, <2>2, <2>3, <2>4
<1> QED
  BY <1>1, <1>5, <1>6, <1>7, <1>8, <1>9, <1>10, <1>11, <1>12, <1>13

\* No verdict is wrong about the file, unless it changed while it was read.
LEMMA VerdictTrue ==
    ASSUME Inv, Next, NEW c \in Fetchers
    PROVE  /\ Returns(c, "ok") => \A p \in Parts : file[p] # "hole" \/ p \in doubtful
           /\ call[c].expect /\ disturbed[c] # "hashing" =>
                /\ Returns(c, "ok") => AllRight
                /\ Returns(c, "integrity") => ~ AllRight
<1>1. c \in Callers
  BY DEF Fetchers
<1>2. ASSUME Returns(c, "ok") \/ Returns(c, "integrity")
      PROVE  call[c].done = Parts /\ call[c].pc = "hash" /\ (call[c].expect => call[c].at = Past)
  BY <1>1, <1>2, VerdictStep DEF Inv, HashTrue
<1>3. ASSUME NEW p \in Places PROVE p <= Past
  BY Numbers DEF Places
<1>4. ASSUME Returns(c, "ok") PROVE \A p \in Parts : file[p] # "hole" \/ p \in doubtful
  BY <1>1, <1>2, <1>4 DEF Inv, RecordHonest
<1>5. ASSUME call[c].expect, disturbed[c] # "hashing", Returns(c, "ok") \/ Returns(c, "integrity")
      PROVE  call[c].clean <=> AllRight
  BY <1>1, <1>2, <1>3, <1>5 DEF Inv, HashTrue, AllRight
<1> QED
  BY <1>4, <1>5, VerdictStep

\* The verdict on a download is right about the file that is on the disk, and
\* with no hash it is blind to doubtful parts only.
THEOREM VerdictIsRight == Spec => VerdictRight
<1>1. Inv /\ [Next]_vars =>
        [\A c \in Fetchers :
           /\ Returns(c, "ok") => \A p \in Parts : file[p] # "hole" \/ p \in doubtful
           /\ call[c].expect /\ disturbed[c] # "hashing" =>
                /\ Returns(c, "ok") => AllRight
                /\ Returns(c, "integrity") => ~ AllRight]_vars
  BY VerdictTrue
<1> QED
  BY <1>1, InvInit, InvStep, PTL DEF Spec, VerdictRight

\* A download that stored all of it by itself, from the right file, is not told
\* that what arrived is not what was published.
THEOREM HealsFromStart == Spec => StartOverHeals
<1>1. ASSUME Inv, Next, NEW c \in Fetchers \ Junk, Returns(c, "integrity")
      PROVE  call[c].trusting \/ disturbed[c] # "no"
  <2>1. SUFFICES ASSUME ~ call[c].trusting, disturbed[c] = "no" PROVE FALSE
    OBVIOUS
  <2>2. /\ call[c].pc = "hash" /\ call[c].expect
        /\ ~ AllRight
    BY <1>1, <2>1, VerdictStep, VerdictTrue
  <2>3. c \in Callers
    BY DEF Fetchers
  <2>4. call[c].done = Parts
    BY <1>1, <2>2, <2>3 DEF Inv, HashTrue
  <2>5. file[Past] = "right" /\ \A p \in Parts : file[p] = "right"
    BY <1>1, <2>1, <2>2, <2>3, <2>4 DEF Inv, OwnRight
  <2>6. \A p \in Places : p \in Parts \/ p = Past
    BY Numbers DEF Places, Parts, Past
  <2> QED
    BY <2>2, <2>5, <2>6 DEF AllRight
<1>2. Inv /\ [Next]_vars =>
        [\A c \in Fetchers \ Junk :
           Returns(c, "integrity") => call[c].trusting \/ disturbed[c] # "no"]_vars
  BY <1>1
<1> QED
  BY <1>2, InvInit, InvStep, PTL DEF Spec, StartOverHeals

=============================================================================
