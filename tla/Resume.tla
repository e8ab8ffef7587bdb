------------------------------- MODULE Resume -------------------------------
(***************************************************************************)
(* The file and its resume record over many commands (src/state.rs and the *)
(* first and last lines of Download::run in src/lib.rs): which build of    *)
(* the file the server publishes, and how it is cut into blocks, may       *)
(* differ from one command to the next.  Inside a command only what gets   *)
(* to the disk is modelled; Engine has the rest.                           *)
(*                                                                         *)
(* The record names a url, a size and block numbers, and no more.  The     *)
(* history variables about, doubted and recut keep what it does not say,   *)
(* so that the properties can tell when its word is as good as meant.      *)
(***************************************************************************)
EXTENDS Integers

CONSTANTS
    Builds,     \* versions of the file, any number of them of one size
    SizeOf,     \* the size of each
    Lengths     \* block lengths a command may come to use

ASSUME ResumeAssumption ==
    /\ Builds \subseteq Nat \ {0}
    /\ SizeOf \in [Builds -> Nat \ {0}]
    /\ Lengths \subseteq Nat \ {0}

Offsets == UNION {0 .. SizeOf[b] - 1 : b \in Builds}

Hole == 0

VARIABLES
    published,  \* the build the server has
    file,       \* per offset, the build its byte is of, or Hole
    record,     \* the resume record: size and block numbers
    phase,      \* "fetch" while a command is under way
    build,      \* the build the command fetches
    block,      \* the block length it uses
    expect,     \* whether it was given the build's hash
    done,       \* the blocks it takes to be done
    about,      \* history: the build and the block length the record was saved
                \* with, the blocks it passed on in doubt, and whether the file
                \* was since written with another build or cut short
    doubted,    \* history: the done blocks whose bytes nobody vouches for
    recut       \* history: those taken from a record of another block length

vars == <<published, file, record, phase, build, block, expect, done,
          about, doubted, recut>>
history == <<about, doubted, recut>>

NoRecord == [size |-> 0, blocks |-> {}]

Size == SizeOf[build]
Blocks(size, length) == 0 .. (size - 1) \div length
Bytes(i) == {j \in Offsets : j < Size /\ j \div block = i}
Whole == \A j \in Offsets : j < Size => file[j] = build

Init ==
    /\ published \in Builds
    /\ file = [j \in Offsets |-> Hole]
    /\ record = NoRecord
    /\ phase = "idle"
    /\ build = published
    /\ block \in Lengths
    /\ expect = FALSE
    /\ done = {}
    /\ about = [build |-> published, block |-> block, spoilt |-> FALSE,
                doubted |-> {}, recut |-> {}]
    /\ doubted = {}
    /\ recut = {}

\* The server publishes another build while nothing is fetched, an earlier one
\* again or a new one.
Publish(b) ==
    /\ phase # "fetch"
    /\ published' = b
    /\ UNCHANGED <<file, record, phase, build, block, expect, done, history>>

\* Mutants: a record of another size believed, and one not even cut to the plan.
ResumedAnySize(size, length) == record.blocks \cap Blocks(size, length)
ResumedBlindly(size, length) == record.blocks

\* What the record is believed to say of a file of this size in such blocks.
Resumed(size, length) ==
    IF record.size = size THEN record.blocks \cap Blocks(size, length) ELSE {}

\* The record is of a file that is no more: of another build that the size does
\* not tell apart, or written over by other hands since.
Outlived ==
    \/ about.spoilt
    \/ about.build # published /\ SizeOf[about.build] = SizeOf[published]

\* The record is no longer of the file there is, if so.
SpoiltIf(other) == about' = [about EXCEPT !.spoilt = @ \/ other]

\* A command begins: the file is given its size and the record is believed if
\* its size is the file's (the url is always the same here).
Start(length, resume, hashed) ==
    /\ phase # "fetch"
    /\ phase' = "fetch"
    /\ build' = published
    /\ block' = length
    /\ expect' = hashed
    /\ LET size == SizeOf[published]
           taken == IF resume THEN Resumed(size, length) ELSE {}
       IN  /\ file' = [j \in Offsets |-> IF j < size THEN file[j] ELSE Hole]
           /\ done' = taken
           /\ doubted' = IF Outlived THEN taken ELSE taken \cap about.doubted
           /\ recut' = IF about.block # length THEN taken ELSE taken \cap about.recut
    /\ SpoiltIf(published # about.build)
    /\ UNCHANGED <<published, record>>

\* A byte of a block still to be done is written.
Land(j) ==
    /\ phase = "fetch"
    /\ j < Size
    /\ j \div block \notin done
    /\ file' = [file EXCEPT ![j] = build]
    /\ UNCHANGED <<published, record, phase, build, block, expect, done, history>>

\* The last of a block's bytes is.
FinishBlock(i) ==
    /\ phase = "fetch"
    /\ i \notin done
    /\ file' = [j \in Offsets |-> IF j \in Bytes(i) THEN build ELSE file[j]]
    /\ done' = done \cup {i}
    /\ UNCHANGED <<published, record, phase, build, block, expect, history>>

\* Or it is not, and is counted all the same: by two connections that raced for
\* the block, or by writes that stored less than they were given.
Miscount(i) ==
    /\ phase = "fetch"
    /\ i \notin done
    /\ done' = done \cup {i}
    /\ doubted' = doubted \cup {i}
    /\ UNCHANGED <<published, file, record, phase, build, block, expect, about, recut>>

\* state::save.
Save ==
    /\ phase = "fetch"
    /\ done # {}
    /\ record' = [size |-> Size, blocks |-> done]
    /\ about' = [build |-> build, block |-> block, spoilt |-> FALSE,
                 doubted |-> doubted, recut |-> recut]
    /\ UNCHANGED <<published, file, phase, build, block, expect, done, doubted, recut>>

\* A command's memory is gone with it.
End ==
    /\ phase' = "idle"
    /\ expect' = FALSE
    /\ done' = {} /\ doubted' = {} /\ recut' = {}

\* The command gives up, or is killed.
Interrupt ==
    /\ phase = "fetch"
    /\ End
    /\ UNCHANGED <<published, file, record, build, block, about>>

\* Everything is done: the hash, if there is one, decides, and only success
\* clears the record.
Verify ==
    /\ phase = "fetch"
    /\ done = Blocks(Size, block)
    /\ record' = IF expect /\ ~ Whole THEN record ELSE NoRecord
    /\ End
    /\ UNCHANGED <<published, file, build, block, about>>

\* dn get --single truncates the file and writes its first k bytes, all of them
\* unless it is cut short; it knows nothing of records, and looks at no hash.
Single(k) ==
    /\ phase # "fetch"
    /\ file' = [j \in Offsets |-> IF j < k THEN published ELSE Hole]
    /\ SpoiltIf(published # about.build \/ k < SizeOf[published])
    /\ UNCHANGED <<published, record, phase, build, block, expect, done, doubted, recut>>

Work == Verify \/ Save \/ \E i \in Blocks(Size, block) : FinishBlock(i) \/ Miscount(i)

Next ==
    \/ Work
    \/ Interrupt
    \/ \E b \in Builds : Publish(b)
    \/ \E length \in Lengths, resume, hashed \in BOOLEAN : Start(length, resume, hashed)
    \/ \E j \in Offsets : Land(j)
    \/ \E k \in 0 .. SizeOf[published] : Single(k)

Spec == Init /\ [][Next]_vars

-----------------------------------------------------------------------------
TypeOK ==
    /\ published \in Builds
    /\ file \in [Offsets -> Builds \cup {Hole}]
    /\ record.size \in Nat
    /\ record.blocks \subseteq Offsets
    /\ phase \in {"idle", "fetch"}
    /\ build \in Builds
    /\ block \in Lengths
    /\ expect \in BOOLEAN
    /\ done \subseteq Blocks(Size, block)
    /\ about \in [build : Builds, block : Lengths, spoilt : BOOLEAN,
                   doubted : SUBSET Offsets, recut : SUBSET Offsets]
    /\ doubted \subseteq done /\ recut \subseteq done

\* "A mirror that has since published a new build cannot be stitched into the
\* old one" (README.md, state.rs): what a command takes to be done, the record's
\* word included, is bytes of the build it fetches, over any number of commands,
\* builds and block lengths.  It is not where a block was miscounted, and where
\* the record cannot know better: saved for another build of the same size, or
\* for other blocks, or of a file since written with another build or cut short.
DoneIsCurrent ==
    phase = "fetch" =>
        \A i \in done \ (doubted \cup recut) : \A j \in Bytes(i) : file[j] = build

\* "Finished blocks are recorded beside the file, so running the same command
\* again continues" (README.md): a record of this very build, of a file nobody
\* else wrote, is right whatever number of connections the blocks are cut for.
RecutIsSafe ==
    phase = "fetch" => \A i \in done \ doubted : \A j \in Bytes(i) : file[j] = build

=============================================================================
