---------------------------- MODULE ResumeProofs ----------------------------
(***************************************************************************)
(* A destination fetched by any number of commands while the server        *)
(* publishes any number of builds: nothing of one is stitched into another.*)
(***************************************************************************)
EXTENDS Resume, TLAPS

-----------------------------------------------------------------------------
(* Blocks and offsets.                                                     *)

\* A quotient times the divisor comes within the divisor of the dividend.
LEMMA Quotient ==
  ASSUME NEW a \in Nat, NEW l \in Nat \ {0}
  PROVE  /\ a \div l \in Nat
         /\ l * (a \div l) <= a
         /\ a < l * (a \div l) + l
OBVIOUS

\* A smaller number is in no later block.
LEMMA EarlierBlock ==
  ASSUME NEW a \in Nat, NEW b \in Nat, NEW l \in Nat \ {0}, a <= b
  PROVE  a \div l <= b \div l
<1> DEFINE p == a \div l
           q == b \div l
<1>1. p \in Nat /\ q \in Nat /\ l * p <= a /\ b < l * q + l
  BY Quotient
<1> HIDE DEF p, q
<1>2. SUFFICES ASSUME p > q PROVE FALSE
  BY <1>1 DEF p, q
<1>3. PICK d \in Nat : p = (q + 1) + d
  BY <1>1, <1>2
<1>4. l * p = l * q + l + l * d
  BY <1>1, <1>3
<1>5. l * d \in Nat /\ l * q \in Nat
  BY <1>1
<1> QED
  BY <1>1, <1>4, <1>5

\* The number of a block is not above the number of a byte in it.
LEMMA BlockBelowByte ==
  ASSUME NEW a \in Nat, NEW l \in Nat \ {0}
  PROVE  a \div l <= a
<1>1. a \div l \in Nat /\ l * (a \div l) <= a
  BY Quotient
<1>2. PICK d \in Nat : l = d + 1
  BY <1>1
<1>3. l * (a \div l) = d * (a \div l) + (a \div l) /\ d * (a \div l) \in Nat
  BY <1>1, <1>2
<1> QED
  BY <1>1, <1>3

\* Offsets are numbers; they, and the blocks they are in, are below the size.
LEMMA Inside ==
  ASSUME NEW b \in Builds, NEW l \in Lengths
  PROVE  /\ SizeOf[b] \in Nat \ {0} /\ l \in Nat \ {0}
         /\ Offsets \subseteq Nat
         /\ \A j \in Offsets : j < SizeOf[b] => j \div l \in Blocks(SizeOf[b], l)
         /\ Blocks(SizeOf[b], l) \subseteq Offsets
<1>1. SizeOf[b] \in Nat \ {0} /\ l \in Nat \ {0}
  BY ResumeAssumption DEF ResumeAssumption
<1>2. Offsets \subseteq Nat
  BY DEF Offsets
<1>3. ASSUME NEW j \in Offsets, j < SizeOf[b] PROVE j \div l \in Blocks(SizeOf[b], l)
  <2>1. j \in Nat /\ SizeOf[b] - 1 \in Nat /\ j <= SizeOf[b] - 1
    BY <1>1, <1>2, <1>3
  <2>2. j \div l <= (SizeOf[b] - 1) \div l
    BY <1>1, <2>1, EarlierBlock
  <2>3. j \div l \in Nat /\ (SizeOf[b] - 1) \div l \in Nat
    BY <1>1, <2>1, Quotient
  <2> QED
    BY <2>2, <2>3 DEF Blocks
<1>4. Blocks(SizeOf[b], l) \subseteq Offsets
  <2>1. SizeOf[b] - 1 \in Nat
    BY <1>1
  <2>2. (SizeOf[b] - 1) \div l <= SizeOf[b] - 1 /\ (SizeOf[b] - 1) \div l \in Nat
    BY <1>1, <2>1, BlockBelowByte, Quotient
  <2>3. 0 .. SizeOf[b] - 1 \subseteq Offsets
    BY DEF Offsets
  <2> QED
    BY <2>1, <2>2, <2>3 DEF Blocks
<1> QED
  BY <1>1, <1>2, <1>3, <1>4

-----------------------------------------------------------------------------
(* Types.                                                                  *)

\* No step leaves the types.
LEMMA TypeStep == TypeOK /\ [Next]_vars => TypeOK'
<1> SUFFICES ASSUME TypeOK, [Next]_vars PROVE TypeOK'
  OBVIOUS
<1> USE DEF TypeOK, Size, Hole, history
<1>1. CASE Verify
  BY <1>1 DEF Verify, End, NoRecord
<1>2. CASE Save
  <2>1. Blocks(Size, block) \subseteq Offsets /\ Size \in Nat
    BY Inside
  <2> QED
    BY <1>2, <2>1 DEF Save
<1>3. ASSUME NEW n \in Blocks(Size, block), FinishBlock(n) PROVE TypeOK'
  BY <1>3 DEF FinishBlock
<1>4. ASSUME NEW n \in Blocks(Size, block), Miscount(n) PROVE TypeOK'
  BY <1>4 DEF Miscount
<1>5. CASE Interrupt
  BY <1>5 DEF Interrupt, End
<1>6. ASSUME NEW b \in Builds, Publish(b) PROVE TypeOK'
  BY <1>6 DEF Publish
<1>7. ASSUME NEW length \in Lengths, NEW resume \in BOOLEAN, NEW hashed \in BOOLEAN,
             Start(length, resume, hashed)
      PROVE  TypeOK'
  <2>1. done' \subseteq Blocks(SizeOf[published], length)
    BY <1>7 DEF Start, Resumed
  <2>2. file' \in [Offsets -> Builds \cup {Hole}]
    BY <1>7 DEF Start
  <2>3. doubted' \subseteq done' /\ recut' \subseteq done'
    BY <1>7 DEF Start
  <2>4. about' \in [build : Builds, block : Lengths, spoilt : BOOLEAN,
                    doubted : SUBSET Offsets, recut : SUBSET Offsets]
    BY <1>7 DEF Start, SpoiltIf
  <2> QED
    BY <1>7, <2>1, <2>2, <2>3, <2>4 DEF Start
<1>8. ASSUME NEW j \in Offsets, Land(j) PROVE TypeOK'
  BY <1>8 DEF Land
<1>9. ASSUME NEW k \in 0 .. SizeOf[published], Single(k) PROVE TypeOK'
  <2>1. about' \in [build : Builds, block : Lengths, spoilt : BOOLEAN,
                    doubted : SUBSET Offsets, recut : SUBSET Offsets]
    BY <1>9 DEF Single, SpoiltIf
  <2> QED
    BY <1>9, <2>1 DEF Single
<1>10. CASE UNCHANGED vars
  BY <1>10 DEF vars
<1> QED
  BY <1>1, <1>2, <1>3, <1>4, <1>5, <1>6, <1>7, <1>8, <1>9, <1>10 DEF Next, Work

\* The types of the first state.
LEMMA TypeInit == Init => TypeOK
<1> SUFFICES ASSUME Init PROVE TypeOK
  OBVIOUS
<1>1. file \in [Offsets -> Builds \cup {Hole}]
  BY DEF Init
<1>2. record.size \in Nat /\ record.blocks \subseteq Offsets
  BY DEF Init, NoRecord
<1>3. done \subseteq Blocks(Size, block) /\ doubted \subseteq done /\ recut \subseteq done
  BY DEF Init
<1>4. published \in Builds /\ build \in Builds /\ block \in Lengths /\ phase \in {"idle", "fetch"}
      /\ expect \in BOOLEAN
  BY DEF Init
<1>5. about \in [build : Builds, block : Lengths, spoilt : BOOLEAN,
                 doubted : SUBSET Offsets, recut : SUBSET Offsets]
  BY <1>4 DEF Init
<1> QED
  BY <1>1, <1>2, <1>3, <1>4, <1>5, Zenon DEF TypeOK

\* Type correctness: among the rest, whatever the record says, a command takes
\* no block to be done that its file does not have.
THEOREM ResumeTypes == Spec => []TypeOK
<1> QED
  BY TypeInit, TypeStep, PTL DEF Spec

-----------------------------------------------------------------------------
(* Nothing is stitched together.                                           *)

\* The record has the size of the build it was saved for, if it names any block;
\* and unless the file was spoilt since, the blocks it vouches for, in the cut
\* it was saved with, are that build's.
RecordCurrent ==
    /\ record.blocks # {} => record.size = SizeOf[about.build]
    /\ ~ about.spoilt =>
          \A j \in Offsets :
              /\ j < SizeOf[about.build]
              /\ j \div about.block \in record.blocks \ (about.doubted \cup about.recut)
              => file[j] = about.build

\* A command that fetches another build than the record's has spoilt its file.
SpoiltByOther == phase = "fetch" => about.spoilt \/ about.build = build

CurrentInv ==
    /\ TypeOK
    /\ RecordCurrent
    /\ SpoiltByOther
    /\ DoneIsCurrent

\* A step that leaves the record, and writes only bytes of its build unless the
\* file is spoilt, leaves it true.
LEMMA RecordKept ==
  ASSUME RecordCurrent, UNCHANGED <<record, about>>,
         ~ about.spoilt => \A j \in Offsets : j < SizeOf[about.build] => file'[j] \in {file[j], about.build}
  PROVE  RecordCurrent'
BY DEF RecordCurrent

\* No step takes for the build's what is not, but for the excuses.
LEMMA CurrentStep == CurrentInv /\ [Next]_vars => CurrentInv'
<1> SUFFICES ASSUME CurrentInv, [Next]_vars PROVE CurrentInv'
  OBVIOUS
<1>1. TypeOK' /\ TypeOK /\ RecordCurrent /\ SpoiltByOther /\ DoneIsCurrent
  BY TypeStep DEF CurrentInv
<1>2. CASE Verify
  <2>1. RecordCurrent'
    <3>1. CASE record' = record
      BY <1>1, <1>2, <3>1, RecordKept DEF Verify, End
    <3>2. CASE record' = NoRecord
      BY <3>2 DEF RecordCurrent, NoRecord
    <3> QED
      BY <1>2, <3>1, <3>2 DEF Verify
  <2> QED
    BY <1>1, <1>2, <2>1 DEF Verify, End, CurrentInv, SpoiltByOther, DoneIsCurrent
<1>3. CASE Save
  <2>1. /\ record' = [size |-> Size, blocks |-> done] /\ phase = "fetch"
        /\ about' = [build |-> build, block |-> block, spoilt |-> FALSE,
                     doubted |-> doubted, recut |-> recut]
        /\ UNCHANGED <<file, phase, build, block, done, doubted, recut>>
    BY <1>3 DEF Save
  <2>2. \A j \in Offsets : j < Size /\ j \div block \in done \ (doubted \cup recut) => file[j] = build
    BY <1>1, <2>1 DEF DoneIsCurrent, Bytes
  <2>3. RecordCurrent' /\ SpoiltByOther'
    BY <2>1, <2>2 DEF RecordCurrent, SpoiltByOther, Size
  <2> QED
    BY <1>1, <2>1, <2>3 DEF CurrentInv, DoneIsCurrent, Bytes, Size
<1>4. ASSUME NEW n \in Blocks(Size, block), FinishBlock(n) PROVE CurrentInv'
  <2>1. /\ \A j \in Offsets : file'[j] = IF j \in Bytes(n) THEN build ELSE file[j]
        /\ phase = "fetch" /\ done' = done \cup {n}
        /\ UNCHANGED <<record, about, phase, build, block, doubted, recut>>
    BY <1>4 DEF FinishBlock, history
  <2>2. RecordCurrent' /\ SpoiltByOther'
    BY <1>1, <2>1, RecordKept DEF SpoiltByOther
  <2>3. DoneIsCurrent'
    <3>1. \A m : Bytes(m)' = Bytes(m) /\ Bytes(m) \subseteq Offsets
      BY <2>1 DEF Bytes, Size
    <3> QED
      BY <1>1, <2>1, <3>1 DEF DoneIsCurrent
  <2> QED
    BY <1>1, <2>2, <2>3 DEF CurrentInv
<1>5. ASSUME NEW n \in Blocks(Size, block), Miscount(n) PROVE CurrentInv'
  <2>1. /\ phase = "fetch" /\ done' = done \cup {n} /\ doubted' = doubted \cup {n}
        /\ UNCHANGED <<file, record, about, phase, build, block, recut>>
    BY <1>5 DEF Miscount
  <2>2. RecordCurrent' /\ SpoiltByOther'
    BY <1>1, <2>1, RecordKept DEF SpoiltByOther
  <2>3. DoneIsCurrent'
    BY <1>1, <2>1 DEF DoneIsCurrent, Bytes, Size
  <2> QED
    BY <1>1, <2>2, <2>3 DEF CurrentInv
<1>6. CASE Interrupt
  <2>1. RecordCurrent'
    BY <1>1, <1>6, RecordKept DEF Interrupt
  <2> QED
    BY <1>1, <1>6, <2>1 DEF Interrupt, End, CurrentInv, SpoiltByOther, DoneIsCurrent
<1>7. ASSUME NEW b \in Builds, Publish(b) PROVE CurrentInv'
  <2>1. phase # "fetch" /\ UNCHANGED <<file, record, phase, about>>
    BY <1>7 DEF Publish, history
  <2>2. RecordCurrent'
    BY <1>1, <2>1, RecordKept
  <2> QED
    BY <1>1, <2>1, <2>2 DEF CurrentInv, SpoiltByOther, DoneIsCurrent
<1>8. ASSUME NEW length \in Lengths, NEW resume \in BOOLEAN, NEW hashed \in BOOLEAN,
             Start(length, resume, hashed)
      PROVE  CurrentInv'
  <2>1. /\ block' = length /\ build' = published /\ phase' = "fetch"
        /\ \A j \in Offsets : j < SizeOf[published] => file'[j] = file[j]
        /\ UNCHANGED record
    BY <1>8 DEF Start
  <2>2. /\ about' = [about EXCEPT !.spoilt = about.spoilt \/ published # about.build]
        /\ about'.build = about.build /\ about'.block = about.block
        /\ about'.doubted = about.doubted /\ about'.recut = about.recut
        /\ about'.spoilt <=> (about.spoilt \/ published # about.build)
    BY <1>1, <1>8 DEF Start, SpoiltIf, TypeOK
  <2>3. RecordCurrent'
    BY <1>1, <2>1, <2>2 DEF RecordCurrent
  <2>4. SpoiltByOther'
    BY <2>1, <2>2 DEF SpoiltByOther
  <2>5. ASSUME NEW i \in done', i \notin doubted', i \notin recut'
        PROVE  /\ ~ about.spoilt /\ about.build = published /\ about.block = length
               /\ i \in record.blocks \ (about.doubted \cup about.recut)
    <3>1. i \in record.blocks /\ record.size = SizeOf[published]
      BY <1>8, <2>5 DEF Start, Resumed
    <3>2. SizeOf[about.build] = SizeOf[published]
      BY <1>1, <3>1 DEF RecordCurrent
    <3>3. ~ Outlived /\ about.block = length
      BY <1>8, <2>5 DEF Start
    <3>4. i \notin about.doubted /\ i \notin about.recut
      BY <1>8, <2>5, <3>3 DEF Start
    <3> QED
      BY <3>1, <3>2, <3>3, <3>4 DEF Outlived
  <2>6. DoneIsCurrent'
    <3> SUFFICES ASSUME NEW i \in done', i \notin doubted', i \notin recut', NEW j \in Bytes(i)'
                 PROVE  file'[j] = build'
      BY DEF DoneIsCurrent
    <3>1. j \in Offsets /\ j < SizeOf[published] /\ j \div length = i
      BY <2>1 DEF Bytes, Size
    <3> QED
      BY <1>1, <2>1, <2>5, <3>1 DEF RecordCurrent
  <2> QED
    BY <1>1, <2>3, <2>4, <2>6 DEF CurrentInv
<1>9. ASSUME NEW j \in Offsets, Land(j) PROVE CurrentInv'
  <2>1. /\ \A o \in Offsets : file'[o] = IF o = j THEN build ELSE file[o]
        /\ phase = "fetch"
        /\ UNCHANGED <<record, about, phase, build, block, done, doubted, recut>>
    BY <1>1, <1>9 DEF Land, TypeOK, history
  <2>2. RecordCurrent' /\ SpoiltByOther'
    BY <1>1, <2>1, RecordKept DEF SpoiltByOther
  <2>3. DoneIsCurrent'
    BY <1>1, <2>1 DEF DoneIsCurrent, Bytes, Size
  <2> QED
    BY <1>1, <2>2, <2>3 DEF CurrentInv
<1>10. ASSUME NEW k \in 0 .. SizeOf[published], Single(k) PROVE CurrentInv'
  <2>1. /\ phase # "fetch" /\ \A j \in Offsets : j < k => file'[j] = published
        /\ UNCHANGED <<record, phase>>
    BY <1>10 DEF Single
  <2>2. /\ about'.build = about.build /\ about'.block = about.block
        /\ about'.doubted = about.doubted /\ about'.recut = about.recut
        /\ about'.spoilt <=> (about.spoilt \/ published # about.build \/ k < SizeOf[published])
    BY <1>1, <1>10 DEF Single, SpoiltIf, TypeOK
  <2>3. ~ about'.spoilt => \A j \in Offsets : j < SizeOf[about.build] => file'[j] = about.build
    <3>1. published \in Builds
      BY <1>1 DEF TypeOK
    <3>2. SizeOf[published] \in Nat
      BY <3>1, Inside, <1>1 DEF TypeOK
    <3>3. ~ (k < SizeOf[published]) => k = SizeOf[published]
      BY <3>2
    <3> QED
      BY <2>1, <2>2, <3>3
  <2>4. RecordCurrent'
    BY <1>1, <2>1, <2>2, <2>3 DEF RecordCurrent
  <2> QED
    BY <1>1, <2>1, <2>4 DEF CurrentInv, SpoiltByOther, DoneIsCurrent
<1>11. CASE UNCHANGED vars
  BY <1>1, <1>11 DEF vars, history, CurrentInv, RecordCurrent, SpoiltByOther, DoneIsCurrent, Bytes, Size
<1> QED
  BY <1>2, <1>3, <1>4, <1>5, <1>6, <1>7, <1>8, <1>9, <1>10, <1>11 DEF Next, Work

\* Whatever is published, interrupted, cut anew, miscounted or fetched with
\* --single in between, what a command takes to be done is bytes of the build it
\* fetches, but for the blocks in doubt: for all builds, of whatever sizes, and
\* for all block lengths.
THEOREM NothingStitched == Spec => []DoneIsCurrent
<1>1. Init => CurrentInv
  BY TypeInit DEF Init, CurrentInv, RecordCurrent, SpoiltByOther, DoneIsCurrent, NoRecord
<1>2. CurrentInv => DoneIsCurrent
  BY DEF CurrentInv
<1> QED
  BY <1>1, <1>2, CurrentStep, PTL DEF Spec

=============================================================================
