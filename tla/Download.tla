------------------------------ MODULE Download ------------------------------
(***************************************************************************)
(* What Download::run promises whoever calls it (README.md, the comments   *)
(* at the top of src/lib.rs and src/state.rs): the file fills up block by  *)
(* block, the resume record beside it names only blocks that are there, Ok *)
(* is said of a whole file only, and nothing moves after run returned.     *)
(* Engine implements it: Engine!KeepsPromise.                              *)
(***************************************************************************)
CONSTANTS
    Blocks,     \* what the file is cut into
    Hashed      \* whether the caller gave the hash of the file

VARIABLES
    whole,      \* the blocks whose bytes are all in the file
    record,     \* the blocks the resume record names
    doubtful,   \* blocks for which something else than the file was stored
    result      \* what the command has returned

vars == <<whole, record, doubtful, result>>

Init ==
    /\ whole = {}
    /\ record = {}
    /\ doubtful = {}
    /\ result = "none"

Arrive(b) ==
    /\ result = "none"
    /\ whole' = whole \cup {b}
    /\ UNCHANGED <<record, doubtful, result>>

\* Only a block that becomes doubtful may lose what it had.
Spoil(b) ==
    /\ result = "none"
    /\ doubtful' = doubtful \cup {b}
    /\ whole' \in {whole, whole \ {b}, whole \cup {b}}
    /\ UNCHANGED <<record, result>>

Note(blocks) ==
    /\ result = "none"
    /\ blocks \subseteq whole \cup doubtful
    /\ record' = blocks
    /\ UNCHANGED <<whole, doubtful, result>>

\* A file is accepted when it is whole, which the hash sees; without one a
\* doubtful block goes unnoticed.
Accept ==
    /\ result = "none"
    /\ whole = Blocks \/ (~ Hashed /\ doubtful # {})
    /\ result' = "ok"
    /\ record' = {}
    /\ UNCHANGED <<whole, doubtful>>

GiveUp ==
    /\ result = "none"
    /\ result' = "failed"
    /\ UNCHANGED <<whole, record, doubtful>>

\* The same command again, after a return or a kill.  Doubts go with a block
\* that is to be fetched again, and cutting the file to its size may be all
\* that a doubtful one needed.
Again ==
    /\ result' = "none"
    /\ doubtful' = doubtful \cap record
    /\ \E healed \in SUBSET doubtful : whole' = whole \cup healed
    /\ UNCHANGED record

Next ==
    \/ \E b \in Blocks : Arrive(b) \/ Spoil(b)
    \/ \E blocks \in SUBSET Blocks : Note(blocks)
    \/ Accept \/ GiveUp \/ Again

Spec == Init /\ [][Next]_vars

=============================================================================
