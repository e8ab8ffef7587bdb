------------------------------- MODULE Engine -------------------------------
(***************************************************************************)
(* Download::run (src/lib.rs): the connection threads that share one plan, *)
(* the thread that watches them and verifies the result, the file being    *)
(* written and the resume record beside it (src/state.rs).                 *)
(*                                                                         *)
(* What is atomic.  Whatever a thread does under the lock of the plan is   *)
(* one step: taking work (Take...) and settling a transfer.  The stop flag *)
(* is read outside the lock, the record is written outside it, and writing *)
(* it is two steps, for std::fs::write empties the file before it fills    *)
(* it.  The pump's look at the stop flag rides on the step before it.      *)
(* A unit is written and the rate measured with it noted in one step: no   *)
(* rule looks at both.                                                     *)
(*                                                                         *)
(* A run can be killed at any moment and the same command given again, and *)
(* so can one that has returned: action Restart.                           *)
(***************************************************************************)
EXTENDS Sched

CONSTANTS
    MaxEmpty,   \* MAX_EMPTY_ATTEMPTS
    MaxRuns,    \* bound: how often the command is given
    Speeds,     \* rates that may be measured on each lane
    Expect,     \* whether a hash to verify was given
    DiskFull,   \* whether writing the resume record may fail
    Truncating, \* lanes whose transfers may end early and still be Ok
    Failing,    \* lanes whose transfers may end in an error
    Hanging,    \* lanes whose transfers may never end
    Spoiling,   \* lanes that may answer something else than the range asked for
    Excess      \* bound: units by which such an answer may be longer than it

ASSUME EngineAssumption ==
    /\ MaxEmpty \in Nat
    /\ MaxRuns \in Nat
    /\ Speeds \in [Lanes -> SUBSET Nat]
    /\ Expect \in BOOLEAN
    /\ DiskFull \in BOOLEAN
    /\ Truncating \subseteq Lanes
    /\ Failing \subseteq Lanes
    /\ Hanging \subseteq Lanes
    /\ Spoiling \subseteq Lanes
    /\ Excess \in {0, 1}

VARIABLES
    empties,    \* Block.empties
    pc,         \* where each connection thread is
    job,        \* the range each thread is fetching and what came of it
    saving,     \* the list of finished blocks each thread is about to record
    stop,       \* the stop flag
    main,       \* where the thread that called run is
    landed,     \* per block, the offsets whose bytes are in the file; what lies
                \* past the file's end counts with the last block
    record,     \* the blocks the resume record names
    runs,       \* how often the command was given
    doubtful    \* history: blocks that were spoiled, or miscounted (Miscounts)

planVars == <<status, got, avoid, hedges, attempts, idle, speed, aged, empties>>
vars == <<planVars, pc, job, saving, stop, main, landed, record, runs, doubtful>>

Offsets(b) == 0 .. Size[b] - 1
DoneBlocks == {b \in Blocks : status[b] = "Done"}
Complete(b) == landed[b] = Offsets(b)

\* A thread between jobs.
NoJob == [block |-> 0, from |-> 0, hedged |-> FALSE, n |-> 0, ok |-> FALSE]
AtWork(s) == pc[s] \in {"read", "settle"}
On(b) == {s \in Streams : AtWork(s) /\ job[s].block = b}

-----------------------------------------------------------------------------
(* Starting: plan_blocks, the blocks the resume record names marked Done,  *)
(* every stream idle.                                                      *)

LoadedStatus(done) == [b \in Blocks |-> IF b \in done THEN "Done" ELSE "Pending"]
\* Mutant: every block is given its full count.
LoadedGotAll(done) == [b \in Blocks |-> Size[b]]

LoadedGot(done) == [b \in Blocks |-> IF b \in done THEN Size[b] ELSE 0]
StreamsOn(l) == Cardinality({s \in Streams : LaneOf[s] = l})

Init ==
    /\ status = LoadedStatus({})
    /\ got = LoadedGot({})
    /\ avoid = [b \in Blocks |-> None]
    /\ hedges = [b \in Blocks |-> 0]
    /\ empties = [b \in Blocks |-> 0]
    /\ attempts = [b \in Blocks |-> {}]
    /\ idle = [l \in Lanes |-> StreamsOn(l)]
    /\ speed = [s \in Streams |-> 0]
    /\ aged = {}
    /\ pc = [s \in Streams |-> "top"]
    /\ job = [s \in Streams |-> NoJob]
    /\ saving = [s \in Streams |-> {}]
    /\ stop = FALSE
    /\ main = "watch"
    /\ landed = [b \in Blocks |-> {}]
    /\ record = {}
    /\ runs = 1
    /\ doubtful = {}

\* The process is killed, or has returned, and the command is given again,
\* with or without --no-resume.  The file, cut to its size again, and the
\* record are what is left.
Restart(resume) ==
    /\ runs < MaxRuns
    /\ runs' = runs + 1
    /\ LET done == IF resume THEN record ELSE {}
       IN  /\ status' = LoadedStatus(done)
           /\ got' = LoadedGot(done)
    /\ avoid' = [b \in Blocks |-> None]
    /\ hedges' = [b \in Blocks |-> 0]
    /\ empties' = [b \in Blocks |-> 0]
    /\ attempts' = [b \in Blocks |-> {}]
    /\ idle' = [l \in Lanes |-> StreamsOn(l)]
    /\ speed' = [s \in Streams |-> 0]
    /\ aged' = {}
    /\ pc' = [s \in Streams |-> "top"]
    /\ job' = [s \in Streams |-> NoJob]
    /\ saving' = [s \in Streams |-> {}]
    /\ stop' = FALSE
    /\ main' = "watch"
    /\ landed' = [b \in Blocks |-> landed[b] \cap Offsets(b)]
    /\ doubtful' = doubtful \cap record
    /\ UNCHANGED record

-----------------------------------------------------------------------------
(* A connection thread looks for work.                                     *)

Top(s) ==
    /\ pc[s] = "top"
    /\ pc' = [pc EXCEPT ![s] = IF stop THEN "exit" ELSE "pick"]
    /\ UNCHANGED <<planVars, job, saving, stop, main, landed, record, runs, doubtful>>

SeeFinished(s) ==
    /\ pc[s] = "pick"
    /\ Finished
    /\ pc' = [pc EXCEPT ![s] = "exit"]
    /\ UNCHANGED <<planVars, job, saving, stop, main, landed, record, runs, doubtful>>

\* A primary continues where the block stands, a hedge starts it over.  The
\* transfer is cut before its first byte when stop is already set.
Begin(s, b, hedged) ==
    /\ status' = [status EXCEPT ![b] = "Running"]
    /\ attempts' = [attempts EXCEPT ![b] = @ \cup {s}]
    /\ idle' = [idle EXCEPT ![LaneOf[s]] = IF @ > 0 THEN @ - 1 ELSE 0]
    /\ job' = [job EXCEPT ![s] = [block |-> b, from |-> IF hedged THEN 0 ELSE got[b],
                                  hedged |-> hedged, n |-> 0, ok |-> FALSE]]
    /\ pc' = [pc EXCEPT ![s] = IF stop THEN "settle" ELSE "read"]
    /\ UNCHANGED <<got, avoid, speed, aged, empties,
                   saving, stop, main, landed, record, runs, doubtful>>

TakePrimary(s, b) ==
    /\ pc[s] = "pick"
    /\ ~ Finished
    /\ IsNextWaiting(b, LaneOf[s])
    /\ Begin(s, b, FALSE)
    /\ UNCHANGED hedges

TakeHedge(s, b) ==
    /\ pc[s] = "pick"
    /\ ~ Finished
    /\ Waiting(LaneOf[s]) = {}
    /\ IsNextHedge(b, s)
    /\ Begin(s, b, TRUE)
    /\ hedges' = [hedges EXCEPT ![b] = @ + 1]

\* The thread sleeps a moment and looks again.
TakeNothing(s) ==
    /\ pc[s] = "pick"
    /\ ~ Finished
    /\ Waiting(LaneOf[s]) = {}
    /\ Hedgeable(s) = {}
    /\ pc' = [pc EXCEPT ![s] = "top"]
    /\ UNCHANGED <<planVars, job, saving, stop, main, landed, record, runs, doubtful>>

-----------------------------------------------------------------------------
(* The transfer (Transport::range, driven by the pump).                    *)

\* Nothing bounds what a range may bring: a unit past the end of its block
\* belongs to the block after it, and one past the last block to no block.
Home(b, at) == IF at < Size[b] \/ b = NumBlocks THEN b ELSE b + 1
Place(b, at) == IF Home(b, at) = b THEN at ELSE at - Size[b]

Surplus(l) == IF l \in Spoiling THEN Excess ELSE 0

\* One unit arrives and is written where the count of the transfer says.  It
\* need not be the file's: curl runs without --fail, so an error page or a
\* whole file is data too, and a write that stores less than it was given
\* passes unnoticed.  A transfer that stop cuts after this is Ok with what it
\* delivered.
Receive(s) ==
    LET b == job[s].block
        at == job[s].from + job[s].n
        c == Home(b, at)
        o == Place(b, at)
    IN  /\ pc[s] = "read"
        /\ at < Size[b] + Surplus(LaneOf[s])
        /\ \E good \in IF LaneOf[s] \in Spoiling THEN BOOLEAN ELSE {TRUE} :
            /\ landed' = [landed EXCEPT ![c] = IF good \/ o = Size[c] THEN @ \cup {o} ELSE @ \ {o}]
            /\ doubtful' = IF good /\ o < Size[c] THEN doubtful ELSE doubtful \cup {c}
        /\ job' = [job EXCEPT ![s].n = @ + 1, ![s].ok = stop]
        /\ \E r \in Speeds[LaneOf[s]] : speed' = [speed EXCEPT ![s] = r]
        /\ pc' = [pc EXCEPT ![s] = IF stop THEN "settle" ELSE "read"]
        /\ UNCHANGED <<status, got, avoid, hedges, attempts, idle, aged, empties,
                       saving, stop, main, record, runs>>

\* The transfer ends: Ok once the range is complete, or early where the other
\* end may close early, or an error.
EndTransfer(s, ok) ==
    /\ pc[s] = "read"
    /\ ok => \/ job[s].from + job[s].n >= Size[job[s].block]
             \/ LaneOf[s] \in Truncating
    /\ ~ ok => LaneOf[s] \in Failing
    /\ job' = [job EXCEPT ![s].ok = ok]
    /\ pc' = [pc EXCEPT ![s] = "settle"]
    /\ UNCHANGED <<planVars, saving, stop, main, landed, record, runs, doubtful>>

\* HEDGE_AFTER has passed since the attempt began.
Age(s) ==
    /\ AtWork(s)
    /\ s \notin aged
    /\ aged' = aged \cup {s}
    /\ UNCHANGED <<status, got, avoid, hedges, attempts, idle, speed, empties,
                   pc, job, saving, stop, main, landed, record, runs, doubtful>>

-----------------------------------------------------------------------------
(* The thread settles what its transfer came to.                           *)

\* Mutant: the stream is not idle again.
LetGoBusy(s) ==
    /\ aged' = aged \ {s}
    /\ job' = [job EXCEPT ![s] = NoJob]
    /\ UNCHANGED idle

\* What every outcome does: the stream is idle again and off the block.
LetGo(s) ==
    /\ idle' = [idle EXCEPT ![LaneOf[s]] = @ + 1]
    /\ aged' = aged \ {s}
    /\ job' = [job EXCEPT ![s] = NoJob]

\* Mutants: all attempts cleared, and none taken off.
OthersCleared(b, s) == {}
OthersAndSelf(b, s) == attempts[b]

OthersOn(b, s) == attempts[b] \ {s}

\* Mutant: a hedge's bytes are added too.
NewGotAdds(s) == got[job[s].block] + job[s].n

\* What the block is taken to hold once s has settled: a hedge counts from the
\* start of the block, a primary adds to what the block has by now.
NewGot(s) == IF job[s].hedged THEN job[s].n ELSE got[job[s].block] + job[s].n

\* Some primary still at work on the block began below where this hedge ended.
Miscounts(s) ==
    /\ job[s].hedged
    /\ \E p \in On(job[s].block) \ {s} : ~ job[p].hedged /\ job[p].from < job[s].n

\* The other attempt was first: the bytes are counted as duplicated.
LoseRace(s) ==
    LET b == job[s].block
    IN  /\ pc[s] = "settle"
        /\ job[s].ok
        /\ status[b] = "Done"
        /\ LetGo(s)
        /\ attempts' = [attempts EXCEPT ![b] = @ \ {s}]
        /\ saving' = [saving EXCEPT ![s] = DoneBlocks]
        /\ pc' = [pc EXCEPT ![s] = "save"]
        /\ UNCHANGED <<status, got, avoid, hedges, speed, empties,
                       stop, main, landed, record, runs, doubtful>>

FinishBlock(s) ==
    LET b == job[s].block
    IN  /\ pc[s] = "settle"
        /\ job[s].ok
        /\ status[b] # "Done"
        /\ NewGot(s) >= Size[b]
        /\ LetGo(s)
        /\ got' = [got EXCEPT ![b] = NewGot(s)]
        /\ status' = [status EXCEPT ![b] = "Done"]
        /\ attempts' = [attempts EXCEPT ![b] = {}]
        /\ saving' = [saving EXCEPT ![s] = DoneBlocks \cup {b}]
        /\ pc' = [pc EXCEPT ![s] = "save"]
        /\ UNCHANGED <<avoid, hedges, speed, empties,
                       stop, main, landed, record, runs, doubtful>>

ComeUpShort(s) ==
    LET b == job[s].block
    IN  /\ pc[s] = "settle"
        /\ job[s].ok
        /\ status[b] # "Done"
        /\ NewGot(s) < Size[b]
        /\ LetGo(s)
        /\ got' = [got EXCEPT ![b] = NewGot(s)]
        /\ attempts' = [attempts EXCEPT ![b] = OthersOn(b, s)]
        /\ status' = [status EXCEPT ![b] = IF OthersOn(b, s) = {} THEN "Pending" ELSE @]
        /\ pc' = [pc EXCEPT ![s] = "top"]
        /\ doubtful' = IF Miscounts(s) THEN doubtful \cup {b} ELSE doubtful
        /\ UNCHANGED <<avoid, hedges, speed, empties,
                       saving, stop, main, landed, record, runs>>

\* Mutant: a late failure puts the block back in the queue.
FailLateRequeues(s) ==
    LET b == job[s].block
    IN  /\ pc[s] = "settle"
        /\ ~ job[s].ok
        /\ status[b] = "Done"
        /\ LetGo(s)
        /\ attempts' = [attempts EXCEPT ![b] = OthersOn(b, s)]
        /\ status' = [status EXCEPT ![b] = "Pending"]
        /\ pc' = [pc EXCEPT ![s] = "top"]
        /\ UNCHANGED <<got, avoid, hedges, speed, empties,
                       saving, stop, main, landed, record, runs, doubtful>>

FailLate(s) ==
    LET b == job[s].block
    IN  /\ pc[s] = "settle"
        /\ ~ job[s].ok
        /\ status[b] = "Done"
        /\ LetGo(s)
        /\ attempts' = [attempts EXCEPT ![b] = @ \ {s}]
        /\ pc' = [pc EXCEPT ![s] = "top"]
        /\ UNCHANGED <<status, got, avoid, hedges, speed, empties,
                       saving, stop, main, landed, record, runs, doubtful>>

\* Mutant: one try too few.
GivesUpEarly(tries) == tries >= MaxEmpty

GivesUp(tries) == tries > MaxEmpty

\* Only a block nothing was ever counted for blames the lane and comes nearer
\* to giving the download up.
FailAttempt(s) ==
    LET b == job[s].block
        blank == got[b] = 0
    IN  /\ pc[s] = "settle"
        /\ ~ job[s].ok
        /\ status[b] # "Done"
        /\ LetGo(s)
        /\ avoid' = [avoid EXCEPT ![b] = IF blank THEN LaneOf[s] ELSE @]
        /\ empties' = [empties EXCEPT ![b] = IF blank THEN @ + 1 ELSE @]
        /\ attempts' = [attempts EXCEPT ![b] = OthersOn(b, s)]
        /\ status' = [status EXCEPT ![b] = IF OthersOn(b, s) = {} THEN "Pending" ELSE @]
        /\ pc' = [pc EXCEPT ![s] = IF GivesUp(empties'[b]) THEN "halt" ELSE "top"]
        /\ UNCHANGED <<got, hedges, speed,
                       saving, stop, main, landed, record, runs, doubtful>>

\* The block was tried too often: the whole download stops.
Halt(s) ==
    /\ pc[s] = "halt"
    /\ stop' = TRUE
    /\ pc' = [pc EXCEPT ![s] = "exit"]
    /\ UNCHANGED <<planVars, job, saving, main, landed, record, runs, doubtful>>

-----------------------------------------------------------------------------
(* state::save, outside the lock.  Its errors are ignored.                 *)

SaveOpen(s) ==
    /\ pc[s] = "save"
    /\ \/ /\ record' = {}
          /\ pc' = [pc EXCEPT ![s] = "write"]
          /\ UNCHANGED saving
       \/ /\ DiskFull
          /\ pc' = [pc EXCEPT ![s] = "top"]
          /\ saving' = [saving EXCEPT ![s] = {}]
          /\ UNCHANGED record
    /\ UNCHANGED <<planVars, job, stop, main, landed, runs, doubtful>>

\* A full disk may take the first numbers of the list only.
SaveWrite(s) ==
    /\ pc[s] = "write"
    /\ \/ record' = saving[s]
       \/ /\ DiskFull
          /\ \E k \in 0 .. NumBlocks : record' = {b \in saving[s] : b <= k}
    /\ saving' = [saving EXCEPT ![s] = {}]
    /\ pc' = [pc EXCEPT ![s] = "top"]
    /\ UNCHANGED <<planVars, job, stop, main, landed, runs, doubtful>>

-----------------------------------------------------------------------------
(* The thread that called run.                                             *)

MonitorStop ==
    /\ main = "watch"
    /\ Finished \/ stop
    /\ stop' = TRUE
    /\ main' = "join"
    /\ UNCHANGED <<planVars, pc, job, saving, landed, record, runs, doubtful>>

\* Mutants: the threads not waited for, and the plan not looked at.
JoinAtOnce ==
    /\ main = "join"
    /\ main' = IF Finished THEN "verify" ELSE "failed"
    /\ UNCHANGED <<planVars, pc, job, saving, stop, landed, record, runs, doubtful>>

JoinUnchecked ==
    /\ main = "join"
    /\ \A s \in Streams : pc[s] = "exit"
    /\ main' = "verify"
    /\ UNCHANGED <<planVars, pc, job, saving, stop, landed, record, runs, doubtful>>

Join ==
    /\ main = "join"
    /\ \A s \in Streams : pc[s] = "exit"
    /\ main' = IF Finished THEN "verify" ELSE "failed"
    /\ UNCHANGED <<planVars, pc, job, saving, stop, landed, record, runs, doubtful>>

\* The hash over the file decides, when one was given; the record goes only
\* with a file that is accepted.
Verify ==
    /\ main = "verify"
    /\ IF Expect /\ \E b \in Blocks : ~ Complete(b)
         THEN main' = "failed" /\ UNCHANGED record
         ELSE main' = "ok" /\ record' = {}
    /\ UNCHANGED <<planVars, pc, job, saving, stop, landed, runs, doubtful>>

\* The file cannot be read back.
ReadBackFails ==
    /\ main = "verify"
    /\ main' = "failed"
    /\ UNCHANGED <<planVars, pc, job, saving, stop, landed, record, runs, doubtful>>

Terminated ==
    /\ main \in {"ok", "failed"}
    /\ UNCHANGED vars

-----------------------------------------------------------------------------
Settle(s) ==
    LoseRace(s) \/ FinishBlock(s) \/ ComeUpShort(s) \/ FailLate(s) \/ FailAttempt(s)

Transfer(s) == Receive(s) \/ \E ok \in BOOLEAN : EndTransfer(s, ok)

\* The steps a thread takes by itself, waiting for nobody.
Local(s) ==
    \/ Top(s) \/ SeeFinished(s) \/ TakeNothing(s)
    \/ \E b \in Blocks : TakePrimary(s, b) \/ TakeHedge(s, b)
    \/ Settle(s) \/ Halt(s) \/ SaveOpen(s) \/ SaveWrite(s)

Run == MonitorStop \/ Join \/ Verify \/ ReadBackFails

Next ==
    \/ \E s \in Streams : Local(s) \/ Transfer(s) \/ Age(s)
    \/ Run
    \/ \E resume \in BOOLEAN : Restart(resume)
    \/ Terminated

Spec == Init /\ [][Next]_vars

\* Threads are scheduled, time passes, and a lane that does not hang delivers
\* or ends every transfer.
Fairness ==
    /\ \A s \in Streams : /\ WF_vars(Local(s))
                          /\ WF_vars(Age(s))
                          /\ LaneOf[s] \notin Hanging => WF_vars(Transfer(s))
    /\ WF_vars(Run)

FairSpec == Spec /\ Fairness

-----------------------------------------------------------------------------
(* Properties.                                                             *)

Job == [block : Blocks \cup {0}, from : Nat, hedged : BOOLEAN, n : Nat, ok : BOOLEAN]

\* Every variable has its type, an unfinished block counts fewer bytes than it
\* has, and a thread stays inside the block it fetches, as far as the answer it
\* is given does.
TypeOK ==
    /\ status \in [Blocks -> {"Pending", "Running", "Done"}]
    /\ got \in [Blocks -> Nat]
    /\ avoid \in [Blocks -> Lanes \cup {None}]
    /\ hedges \in [Blocks -> Nat]
    /\ empties \in [Blocks -> Nat]
    /\ attempts \in [Blocks -> SUBSET Streams]
    /\ idle \in [Lanes -> Nat]
    /\ speed \in [Streams -> Nat]
    /\ aged \in SUBSET Streams
    /\ pc \in [Streams -> {"top", "pick", "read", "settle", "halt", "save", "write", "exit"}]
    /\ job \in [Streams -> Job]
    /\ \A s \in Streams : AtWork(s) => /\ job[s].block \in Blocks
                                       /\ job[s].from + job[s].n <=
                                              Size[job[s].block] + Surplus(LaneOf[s])
    /\ \A b \in Blocks : status[b] # "Done" => got[b] < Size[b]
    /\ saving \in [Streams -> SUBSET Blocks]
    /\ stop \in BOOLEAN
    /\ main \in {"watch", "join", "verify", "ok", "failed"}
    /\ landed \in [Blocks -> SUBSET Nat]
    /\ \A b \in Blocks : landed[b] \subseteq Offsets(b) \/ b = NumBlocks
    /\ record \in SUBSET Blocks
    /\ runs \in Nat
    /\ doubtful \in SUBSET Blocks

\* Whether a block's bytes are in the file, or it is exempt.
Sound(b) == b \in doubtful \/ Complete(b)

\* A block marked Done has every byte in the file, unless a transfer, of this
\* block or of the one before, stored something else there, or a hedge that
\* came up short moved `got' under a primary still at work on it (lib.rs, the
\* settling of an Ok transfer): nothing else makes the scheduler's count run
\* ahead of the file, whatever races, failures, kills and resumptions happen.
DoneMeansLanded == \A b \in Blocks : status[b] = "Done" => Sound(b)

\* What the resume record names, at every instant a kill could make it the one
\* the next run loads, is in the file (state::save runs outside the lock and
\* late): the same exemption.
RecordTrusted == \A b \in record : Sound(b)

\* run returns Ok only with a whole file, hash or no hash (the same exemption,
\* which the hash closes).
ResultWhole == main = "ok" /\ (Expect \/ doubtful = {}) => \A b \in Blocks : Complete(b)

\* An unfinished block is Running exactly while some thread is fetching it, and
\* the attempts on it are those threads: no block is left Running by a thread
\* that went away, or taken from one still at work (attempts.retain, clear).
AttemptsExact ==
    \A b \in Blocks :
        IF status[b] = "Done"
          THEN attempts[b] = {}
          ELSE /\ attempts[b] = On(b)
               /\ status[b] = "Running" <=> attempts[b] # {}

\* The idle count of a lane, kept with saturating arithmetic at two places far
\* apart, is the number of its streams that are not fetching.
IdleExact ==
    \A l \in Lanes :
        idle[l] = Cardinality({s \in Streams : LaneOf[s] = l /\ ~ AtWork(s)})

\* "One hedge at a time": an unfinished block is never raced by more than two
\* threads, and at most one of them continues it.
RaceOfTwo ==
    \A b \in Blocks :
        status[b] # "Done" =>
            /\ \A p, q, r \in On(b) : p = q \/ q = r \/ p = r
            /\ \A p, q \in On(b) : p = q \/ job[p].hedged \/ job[q].hedged

\* A waiting block some lane is avoiding "can never be stranded": if a thread
\* is about to look for work at all, one of them would be offered the block.
NotStranded ==
    LET looking == {s \in Streams : pc[s] \in {"top", "pick", "save", "write"}}
    IN  ~ stop /\ looking # {} /\ (\A s \in Streams : pc[s] # "halt") =>
            \A b \in Blocks : status[b] = "Pending" =>
                                  \E s \in looking : b \in Waiting(LaneOf[s])

\* A run fails with its plan unfinished only for a block that was tried too
\* often, with a lane to blame: whatever errors the threads met on the way,
\* nothing else stops a run that still has something to fetch.
FailureExplained ==
    main = "failed" => \/ Finished
                       \/ \E b \in Blocks : empties[b] > MaxEmpty /\ avoid[b] # None

\* Within a run a block once Done stays Done, whatever the attempts that lost
\* the race come back with.
DoneForGood == [][runs' = runs => DoneBlocks \subseteq DoneBlocks']_vars

\* A thread whose transfer is not bound to end.
Stuck(s) == pc[s] = "read" /\ LaneOf[s] \in Hanging

\* An attempt is about to be settled that leaves its block unfinished and is not
\* counted as empty: it was Ok, or the block holds something already.
Uncounted(s) ==
    LET b == job[s].block
    IN  /\ pc[s] = "settle"
        /\ status[b] # "Done"
        /\ IF job[s].ok THEN NewGot(s) < Size[b] ELSE got[b] # 0

\* What the caller of run is promised, read off the engine's state.
Promise == INSTANCE Download WITH
    Hashed <- Expect,
    whole  <- {b \in Blocks : Complete(b)},
    result <- IF main \in {"ok", "failed"} THEN main ELSE "none"

\* The engine implements Download: blocks fill up and lose nothing unless they
\* are spoiled, whatever is recorded at any instant is there, an accepted file
\* is whole, and once run has returned no thread touches file or record.
KeepsPromise == Promise!Spec

\* run returns, whatever fails, as long as it likes: the only ways not to are a
\* transfer that never ends, even in a race that was lost, and attempts that
\* achieve nothing and are not counted (lib.rs, `if b.got == 0'), for ever.
Returns ==
    \/ <>(main \in {"ok", "failed"})
    \/ <>[](\E s \in Streams : Stuck(s))
    \/ []<>(\E s \in Streams : Uncounted(s))

\* What the rules allow to hold a block back: all at work on it hang, and it is
\* raced already, or the holder's last rate promised better, or it was hedged
\* too often, or no other thread is both free of trouble and not avoided.
Excused(b) ==
    LET others == Streams \ attempts[b]
    IN  /\ attempts[b] # {}
        /\ \A s \in attempts[b] : Stuck(s)
        /\ \/ Cardinality(attempts[b]) > 1
           \/ Rate(b) > Remaining(b)
           \/ hedges[b] >= MaxHedges
           \/ \A s \in others : Stuck(s) \/ avoid[b] = LaneOf[s]

\* "One slow connection can no longer hold the whole download back" (sched.rs):
\* the plan is finished, or given up, although a lane hangs, for its block is
\* hedged; unless the block is excused for good, or attempts are uncounted.
NotHeldBack ==
    \/ <>(Finished \/ stop)
    \/ <>[](\E b \in Blocks : Excused(b))
    \/ []<>(\E s \in Streams : Uncounted(s))

-----------------------------------------------------------------------------
(* The inductive invariant that DoneMeansLanded, RecordTrusted and         *)
(* ResultWhole rest on.                                                    *)

\* What a transfer delivered is in the file, and a hedge starts at the start.
JobsLanded ==
    \A s \in Streams :
        AtWork(s) => /\ \/ job[s].block \in doubtful
                        \/ \A i \in Offsets(job[s].block) :
                              i \in job[s].from .. job[s].from + job[s].n - 1 =>
                                  i \in landed[job[s].block]
                     /\ job[s].hedged => job[s].from = 0

\* What an unfinished block counts is in the file.
CountLanded ==
    \A b \in Blocks :
        status[b] # "Done" /\ b \notin doubtful => 0 .. got[b] - 1 \subseteq landed[b]

\* A primary at work began no lower than its block counts now, and all below
\* where it began is in the file.
PrimaryContinues ==
    \A s \in Streams :
        LET b == job[s].block
        IN  AtWork(s) /\ ~ job[s].hedged /\ status[b] # "Done" /\ b \notin doubtful =>
                /\ got[b] <= job[s].from
                /\ 0 .. job[s].from - 1 \subseteq landed[b]

\* Where nothing was spoiled, nothing lies past the end either.
NothingBeyond == \A b \in Blocks \ doubtful : landed[b] \subseteq Offsets(b)

\* What a thread is about to record is in the file.
SavingTrusted == \A s \in Streams : \A b \in saving[s] : Sound(b)

DiskInv ==
    /\ JobsLanded
    /\ CountLanded
    /\ PrimaryContinues
    /\ DoneMeansLanded
    /\ RecordTrusted
    /\ SavingTrusted
    /\ NothingBeyond

\* Only a finished plan is verified.
VerifiedWhenFinished == main \in {"verify", "ok"} => Finished

\* No connection thread is left once the result is verified: nothing touches
\* the file under the hash, or after run returned.
Joined == main \in {"verify", "ok", "failed"} => \A s \in Streams : pc[s] = "exit"

-----------------------------------------------------------------------------
(* What a document says and the code does not do.                           *)

\* "What already landed" (state.rs:1), without any exemption.
DoneIsLanded == \A b \in Blocks : status[b] = "Done" => Complete(b)

=============================================================================
