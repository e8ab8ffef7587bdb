------------------------------ MODULE Callers ------------------------------
(***************************************************************************)
(* The ways into the engine, several at a time: requests to the server     *)
(* (src/serve.rs), dn get (src/main.rs), dn_download and dn_fetch_many of  *)
(* the C interface (src/ffi.rs).  Every download here is of one url to one *)
(* destination, so the calls share a file and its record; how many         *)
(* connections a call has, and so how it cuts the file into blocks, is its *)
(* own affair.  Of what the connections of a call do at the same time only *)
(* the outcome is here: bytes that land, and blocks done, or miscounted.   *)
(* Engine has the rest, and Batch what a batch does.                       *)
(***************************************************************************)
EXTENDS Integers

CONSTANTS
    Callers,    \* who calls, one call at a time each
    Kinds,      \* who may be what: the assignments to try
    NumParts,   \* parts of the file that the cuts tell apart
    Cuts,       \* the ways to cut it: which block, by number, each part is in
    NumChunks,  \* chunks of a batch
    Junk,       \* callers whose mirror may serve another file of the size
    Local,      \* whether the server listens on this machine only
    Token       \* whether it has a token

Parts == 1 .. NumParts

\* What lies past the end of the file comes last: if anything does it is junk.
Past == NumParts + 1
Places == 1 .. Past

ASSUME CallersAssumption ==
    /\ Kinds \subseteq [Callers -> {"http", "cli", "c", "batch"}]
    /\ NumParts \in Nat \ {0}
    /\ Cuts \subseteq [Parts -> Nat] /\ Cuts # {}
    /\ NumChunks \in Nat \ {0}
    /\ Junk \subseteq Callers
    /\ Local \in BOOLEAN
    /\ Token \in BOOLEAN

VARIABLES
    kind,       \* what each caller is
    file,       \* per place, what the destination has
    record,     \* the block numbers the resume record names and, a history it
                \* does not tell, the cut they were saved in
    call,       \* per caller, the call it makes or made last
    refused,    \* per caller, whether its callback asked to stop with blocks to come
    doubtful,   \* history: parts of blocks miscounted, or read into a record of another cut
    disturbed   \* history: per caller with a hash, what its call did when another
                \* last changed the file

vars == <<kind, file, record, call, refused, doubtful, disturbed>>

Of(k) == {c \in Callers : kind[c] = k}

\* Callers of Download::run, and of the C interface: the latter share a process.
Fetchers == Callers \ Of("batch")
Linked == Of("c") \cup Of("batch")

SomeCut == CHOOSE cut \in Cuts : TRUE
NoRecord == [blocks |-> {}, cut |-> SomeCut]

\* A call that came to an end: ok, an error (DN_ERR_ARGS, DN_ERR_NETWORK, exit,
\* an error line, a panic), a hash that is not the one expected, or no word.
\* trusting is a history: whether, with a hash, it took for done what it did not
\* store.
Ended(outcome) ==
    [pc |-> "idle", outcome |-> outcome, expect |-> FALSE, cut |-> SomeCut,
     done |-> {}, trusting |-> FALSE, at |-> 0, clean |-> TRUE]

Init ==
    /\ kind \in Kinds
    /\ file = [p \in Places |-> IF p = Past THEN "right" ELSE "hole"]
    /\ record = NoRecord
    /\ call = [c \in Callers |-> Ended("none")]
    /\ refused = [c \in Callers |-> FALSE]
    /\ doubtful = {}
    /\ disturbed = [c \in Callers |-> "no"]

-----------------------------------------------------------------------------
Return(c, outcome) ==
    /\ call' = [call EXCEPT ![c] = Ended(outcome)]
    /\ disturbed' = [disturbed EXCEPT ![c] = "no"]
    /\ UNCHANGED <<kind, file, record, refused, doubtful>>

\* The file is changed, under the others' eyes.
Change(c, new) ==
    /\ file' = new
    /\ disturbed' = [d \in Callers |->
         IF d = c \/ ~ call[d].expect \/ file = new THEN disturbed[d]
         ELSE IF call[d].pc = "hash" THEN "hashing"
         ELSE "fetching"]

-----------------------------------------------------------------------------
(* How it begins.                                                          *)

Request ==
    [path : {"/health", "/download", "other"}, post : BOOLEAN, token : {"right", "wrong"},
     body : {"short", "whole"}, usable : BOOLEAN, stays : BOOLEAN]

\* What handle does with a request, in its order: its health, 401, 404, an end
\* of the connection, 400, another, or the download.  usable is the name and
\* the urls, stays whether the client is there for the head of the answer.
Answer(r) ==
    IF r.path = "/health" THEN "none"
    ELSE IF Token /\ r.token # "right" THEN "error"
    ELSE IF ~ r.post \/ r.path # "/download" THEN "error"
    ELSE IF r.body = "short" THEN "none"
    ELSE IF ~ r.usable THEN "error"
    ELSE IF ~ r.stays THEN "none"
    ELSE "accepted"

\* A server that can be reached from the network does not start without a token.
Serving == Local \/ Token

Answers == {Answer(r) : r \in Request}

\* What a call may come to before any of the file is fetched, an error of run
\* before it opens the file included.
TurnedAway(k) ==
    CASE k = "http" -> Answers \ {"accepted"}
      [] k = "batch" -> {"error", "none"}
      [] k \in {"cli", "c"} -> {"error"}

Admitted(c) == kind[c] = "http" => Serving /\ "accepted" \in Answers

Calls(c, state) ==
    /\ call[c].pc = "idle"
    /\ kind[c] = "http" => Serving
    /\ call' = [call EXCEPT ![c] = state]
    /\ refused' = [refused EXCEPT ![c] = FALSE]
    /\ UNCHANGED <<kind, record>>

Refuse(c, outcome) ==
    /\ outcome \in TurnedAway(kind[c])
    /\ Calls(c, Ended(outcome))
    /\ UNCHANGED <<file, doubtful, disturbed>>

\* The parts the record names, read in a cut.
Named(cut) == {p \in Parts : cut[p] \in record.blocks}

\* Mutant: no_resume left unread.
LoadedAlways(resume, cut) == Named(cut)

\* The parts a download takes from the record, in its own cut: which one the
\* record was saved in it cannot know.
Loaded(resume, cut) == IF resume THEN Named(cut) ELSE {}

\* What can be asked of a download: whether to resume, of which a request has
\* no say, and whether there is a hash to verify.
OfRequest == [resume : {TRUE}, expect : BOOLEAN]
OfGet == [resume : BOOLEAN, expect : BOOLEAN]
OfOptions == [resume : BOOLEAN, expect : BOOLEAN]

Asked(k) ==
    CASE k = "http" -> OfRequest
      [] k = "cli" -> OfGet
      [] k = "c" -> OfOptions

\* A download begins: the file is cut to its size, and the record read.
Begin(c, resume, expect, cut) ==
    /\ c \in Fetchers
    /\ Admitted(c)
    /\ [resume |-> resume, expect |-> expect] \in Asked(kind[c])
    /\ Calls(c, [Ended("none") EXCEPT !.pc = "fetch", !.expect = expect, !.cut = cut,
                                      !.done = Loaded(resume, cut),
                                      !.trusting = expect /\ resume /\ Named(cut) # {}])
    /\ doubtful' = doubtful \cup (Loaded(resume, cut) \ Named(record.cut))
    /\ Change(c, [file EXCEPT ![Past] = "right"])

BeginBatch(c) ==
    /\ c \in Of("batch")
    /\ Calls(c, [Ended("none") EXCEPT !.pc = "chunk"])
    /\ UNCHANGED <<file, doubtful, disturbed>>

-----------------------------------------------------------------------------
(* A download.                                                             *)

\* The parts of the block that p is in.
BlockOf(c, p) == {q \in Parts : call[c].cut[q] = call[c].cut[p]}

\* A block is there, and done; in what comes of another file parts may be wrong.
Store(c, p, wrong) ==
    /\ call[c].pc = "fetch"
    /\ p \notin call[c].done
    /\ wrong \subseteq BlockOf(c, p)
    /\ wrong = {} \/ c \in Junk
    /\ Change(c, [q \in Places |-> IF q \in wrong THEN "junk"
                                  ELSE IF q \in BlockOf(c, p) THEN "right"
                                  ELSE file[q]])
    /\ call' = [call EXCEPT ![c].done = @ \cup BlockOf(c, p), ![c].pc = "open"]
    /\ UNCHANGED <<kind, record, refused, doubtful>>

\* Some of a block's bytes are, by an attempt that has yet to end, fails, or
\* lost its race.  An answer may be longer than its range, and what is past it
\* of another file.
Land(c, p, what) ==
    /\ call[c].pc = "fetch"
    /\ \/ what = "right" /\ p \in Parts
       \/ what = "junk" /\ c \in Junk
    /\ Change(c, [file EXCEPT ![p] = what])
    /\ UNCHANGED <<kind, record, call, refused, doubtful>>

\* A block is done by its count alone: of two connections that raced for it one
\* fell short of where the other began, or write_at stored less than it was
\* given.  Its bytes are what they were.
Miscount(c, p) ==
    /\ call[c].pc = "fetch"
    /\ p \in Parts \ call[c].done
    /\ call' = [call EXCEPT ![c].done = @ \cup BlockOf(c, p), ![c].trusting = call[c].expect, ![c].pc = "open"]
    /\ doubtful' = doubtful \cup BlockOf(c, p)
    /\ UNCHANGED <<kind, file, record, refused, disturbed>>

\* state::save opens the record, which empties it, ...
SaveOpen(c) ==
    /\ call[c].pc = "open"
    /\ record' = NoRecord
    /\ call' = [call EXCEPT ![c].pc = "write"]
    /\ UNCHANGED <<kind, file, refused, doubtful, disturbed>>

\* Mutant: a record that only says how far the download got.
ListedUpTo(c) == {call[c].cut[p] : p \in {q \in Parts : \E d \in call[c].done : q <= d}}

Listed(c) == {call[c].cut[p] : p \in call[c].done}

\* ... and writes the list: of two at it the later one's stays.
SaveWrite(c) ==
    /\ call[c].pc = "write"
    /\ record' = [blocks |-> Listed(c), cut |-> call[c].cut]
    /\ call' = [call EXCEPT ![c].pc = "fetch"]
    /\ UNCHANGED <<kind, file, refused, doubtful, disturbed>>

\* The progress callback of a C caller answers other than zero: it is not
\* called again, and that is all (so with nothing to come it changes nothing).
Cancel(c) ==
    /\ kind[c] = "c"
    /\ call[c].pc \in {"fetch", "open", "write"}
    /\ call[c].done # Parts
    /\ refused' = [refused EXCEPT ![c] = TRUE]
    /\ UNCHANGED <<kind, file, record, call, doubtful, disturbed>>

\* Some block could not be had.
GiveUp(c) ==
    /\ call[c].pc = "fetch"
    /\ call[c].done # Parts
    /\ Return(c, "error")

\* A thread could not be made: those that were did their work, and it panics.
Panic(c) ==
    /\ call[c].pc = "fetch"
    /\ Return(c, "error")

\* Everything is there: on to sha256::file.
Gather(c) ==
    /\ call[c].pc = "fetch"
    /\ call[c].done = Parts
    /\ call' = [call EXCEPT ![c].pc = "hash"]
    /\ UNCHANGED <<kind, file, record, refused, doubtful, disturbed>>

\* Mutant: the last, short read taken for the end of the file.
HashedButLast(c) == call[c].expect => call[c].at = NumParts

Hashed(c) == call[c].expect => call[c].at = Past

\* The file is read from its beginning to where it ends, as it is when its turn
\* comes; with no hash to compare, what is read makes no difference.
Read(c) ==
    /\ call[c].pc = "hash"
    /\ call[c].expect /\ call[c].at < Past
    /\ call' = [call EXCEPT ![c].at = @ + 1, ![c].clean = @ /\ file[call[c].at + 1] = "right"]
    /\ UNCHANGED <<kind, file, record, refused, doubtful, disturbed>>

Unreadable(c) ==
    /\ call[c].pc = "hash"
    /\ Return(c, "error")

Mismatch(c) ==
    /\ call[c].pc = "hash"
    /\ Hashed(c)
    /\ call[c].expect /\ ~ call[c].clean
    /\ Return(c, "integrity")

\* Mutant: the record removed only after a hash was compared.
ClearedIfHashed(c) == IF call[c].expect THEN NoRecord ELSE record

\* What state::clear leaves.
Cleared(c) == NoRecord

\* What another call has yet to write to the record goes to a removed file.
Accept(c) ==
    /\ call[c].pc = "hash"
    /\ Hashed(c)
    /\ call[c].expect => call[c].clean
    /\ record' = Cleared(c)
    /\ call' = [d \in Callers |->
         IF d = c THEN Ended("ok")
         ELSE IF call[d].pc = "write" THEN [call[d] EXCEPT !.pc = "fetch"]
         ELSE call[d]]
    /\ disturbed' = [disturbed EXCEPT ![c] = "no"]
    /\ UNCHANGED <<kind, file, refused, doubtful>>

-----------------------------------------------------------------------------
(* A batch: its files are others.                                          *)

\* Mutant: a chunk past the last.
ChunksLeftOrNot(c) == call[c].at <= NumChunks

ChunksLeft(c) == call[c].at < NumChunks

Chunk(c) ==
    /\ call[c].pc = "chunk"
    /\ ChunksLeft(c)
    /\ call' = [call EXCEPT ![c].at = @ + 1, ![c].pc = "told"]
    /\ UNCHANGED <<kind, file, record, refused, doubtful, disturbed>>

\* The callback lets it go on, or does not: there it does stop.
Told(c) ==
    /\ call[c].pc = "told"
    /\ call' = [call EXCEPT ![c].pc = "chunk"]
    /\ UNCHANGED <<kind, file, record, refused, doubtful, disturbed>>

Stop(c) ==
    /\ call[c].pc = "told"
    /\ Return(c, "ok")

\* A directory cannot be made, or curl does not start.
Abandon(c) ==
    /\ call[c].pc = "chunk"
    /\ ChunksLeft(c)
    /\ Return(c, "error")

EndBatch(c) ==
    /\ call[c].pc = "chunk"
    /\ ~ ChunksLeft(c)
    /\ Return(c, "ok")

-----------------------------------------------------------------------------
\* The callers in one process with c.
Together(c) ==
    CASE kind[c] = "http" -> Of("http")
      [] kind[c] = "cli" -> {c}
      [] c \in Linked -> Linked

\* The process dies; what is on the disk stays.
Kill(c) ==
    /\ call[c].pc # "idle"
    /\ call' = [d \in Callers |-> IF d \in Together(c) THEN Ended("none") ELSE call[d]]
    /\ disturbed' = [d \in Callers |-> IF d \in Together(c) THEN "no" ELSE disturbed[d]]
    /\ UNCHANGED <<kind, file, record, refused, doubtful>>

Next ==
    \E c \in Callers :
        \/ \E outcome \in TurnedAway(kind[c]) : Refuse(c, outcome)
        \/ \E resume, expect \in BOOLEAN, cut \in Cuts : Begin(c, resume, expect, cut)
        \/ \E p \in Parts : Miscount(c, p) \/ \E wrong \in SUBSET Parts : Store(c, p, wrong)
        \/ \E p \in Places, what \in {"right", "junk"} : Land(c, p, what)
        \/ SaveOpen(c) \/ SaveWrite(c) \/ Cancel(c) \/ GiveUp(c) \/ Panic(c) \/ Gather(c)
        \/ Read(c) \/ Unreadable(c) \/ Mismatch(c) \/ Accept(c)
        \/ BeginBatch(c) \/ Chunk(c) \/ Told(c) \/ Stop(c) \/ Abandon(c) \/ EndBatch(c)
        \/ Kill(c)

Spec == Init /\ [][Next]_vars

-----------------------------------------------------------------------------
Outcomes == {"none", "ok", "error", "integrity"}

Call ==
    [pc : {"idle", "fetch", "open", "write", "hash", "chunk", "told"}, outcome : Outcomes,
     expect : BOOLEAN, cut : Cuts, done : SUBSET Parts, trusting : BOOLEAN, at : Nat, clean : BOOLEAN]

TypeOK ==
    /\ kind \in Kinds
    /\ file \in [Places -> {"hole", "right", "junk"}]
    /\ record \in [blocks : SUBSET Nat, cut : Cuts]
    /\ call \in [Callers -> Call]
    /\ \A c \in Callers : call[c].at <= IF c \in Fetchers THEN Past ELSE NumChunks
    /\ refused \in [Callers -> BOOLEAN]
    /\ doubtful \subseteq Parts
    /\ disturbed \in [Callers -> {"no", "fetching", "hashing"}]

\* Whatever calls share a destination, begin on each other's record, save over
\* one another, are killed or clear the record under another's save: a part
\* that is still a hole is taken for done, by the record or a call, only if its
\* block was miscounted, or a call read it into a record of another cut.
RecordHonest ==
    \A p \in Parts :
        p \in Named(record.cut) \/ (\E c \in Callers : p \in call[c].done) =>
            file[p] # "hole" \/ p \in doubtful

AllRight == \A p \in Places : file[p] = "right"

Returns(c, outcome) ==
    call[c].pc # "idle" /\ call'[c].pc = "idle" /\ call'[c].outcome = outcome

\* "Integrity last, over what actually landed on disk" (lib.rs:283): without a
\* hash a call returns ok over a hole only where a block was miscounted or the
\* record misread, and with one the verdict is right about the file, whatever
\* was taken for done, unless another call changed the file while it was read.
VerdictRight ==
    [][\A c \in Fetchers :
         /\ Returns(c, "ok") => \A p \in Parts : file[p] # "hole" \/ p \in doubtful
         /\ call[c].expect /\ disturbed[c] # "hashing" =>
              /\ Returns(c, "ok") => AllRight
              /\ Returns(c, "integrity") => ~ AllRight]_vars

\* A file found wrong keeps a record that says it is all there, so that every
\* later call that resumes finds it wrong again; one that starts over, from a
\* mirror with the right file, only does with another call at the file, or if
\* it miscounted a block itself and so left in it what was there.
StartOverHeals ==
    [][\A c \in Fetchers \ Junk :
         Returns(c, "integrity") => call[c].trusting \/ disturbed[c] # "no"]_vars

\* Once every call on the destination has succeeded, in whatever order they
\* ran, no record is left beside the file.
CleanAfterOk ==
    (\A c \in Fetchers : call[c].pc = "idle" /\ call[c].outcome = "ok") => record.blocks = {}

\* "Returning non-zero from this cancels the download" (ffi.rs:38): a download
\* whose callback did so with parts still to come does not go on to succeed.
CancelStops ==
    \A c \in Of("c") : refused[c] => call[c].outcome # "ok"

=============================================================================
