# A TLA+ model of dnengine

dnengine downloads one file over many connections at once: several mirrors,
several network interfaces, several streams on each. This directory models the
parts of it where order, failure and concurrency decide whether the file is
right, checks them with TLC on small instances, and proves the most important
results with TLAPS for every size of instance. Source references are relative
to the repository (`src/lib.rs` and so on).

## The system

| component | state | operations | talks to |
| --- | --- | --- | --- |
| **setup** (`lib.rs` 58-135, `probe.rs`, `netif.rs`) | sources, lanes, streams | probe all mirrors, take the largest size, keep the mirrors that agree, make lanes = mirrors x interfaces, give them streams, open the file | curl, the routing table |
| **plan and rules** (`sched.rs`) | blocks (status, got, avoid, hedges, empties, attempts), idle count per lane, rate per stream | `plan_blocks`, `next_waiting`, `next_hedge`, `pick` | read and written by all connection threads under one mutex |
| **connection threads** (`lib.rs` 154-246) | one transfer each | take work, run the transfer, settle it, save the record | plan (mutex), `stop` (atomic), file (`write_at`), record (no lock) |
| **calling thread** (`lib.rs` 248-296) | - | watch, stop, join, hash, clear the record | plan, `stop`, file, record |
| **resume record** (`state.rs`) | a file beside the file: url, size, block numbers | `load`, `save`, `clear` | all threads, later commands, other calls on the same file |
| **transport** (`transport.rs`) | a curl process and its pipe | `range`, `whole`, both driving `pump` | sink and `speed` callbacks, `stop` |
| **single** (`lib.rs` 339-350) | - | truncate and fetch in one piece | transport |
| **batch** (`batch.rs`) | result counters | `chunks`, `fetch_many` | one curl per chunk |
| **server** (`serve.rs`) | - | one thread per connection: check the request, run a download, answer | engine; requests with one name share a file and its record |
| **C interface** (`ffi.rs`) | the last error, one per process | `dn_download`, `dn_fetch_many`, `dn_last_error` | engine, batch, the caller's callback |
| **command line** (`main.rs`) | - | `dn get`, with or without `--single`; `dn serve`, `dn probe`, `dn net` | all of the above |
| **sha256** (`sha256.rs`) | - | `file`: read to the end, hash | the file |
| **json** (`json.rs`) | - | formatting | - |

What makes it hard:

* Threads decide from a plan that others change while they fetch; an attempt is
  settled long after it was handed out, perhaps after the block was won by
  another (a *hedge*), and hedges and primaries count differently.
* The stop flag is read outside the lock and the record is written outside it.
* The process may be killed between any two of: bytes in the file, the status,
  the record; and the command is given again, perhaps with other options.
* Transfers fail, end early, hang, or deliver what is not the file.
* Nothing keeps two calls off one destination: requests, commands and C callers
  write one file, save over one another's record and remove it.
* Curl reports many transfers by lines whose order is its own.

What makes each part correct:

* setup: the mirrors that are used serve what was planned for, a good mirror is
  not lost unless an answer reports more, connections are spread evenly and within their limits.
* plan: a block is Running exactly while somebody is at work on it; races are of
  two; no block is left behind by the rules about lanes; the idle counts on
  which they rest are exact.
* engine: what is counted is in the file; Done is for good; the record never
  names what is not there; Ok is returned for whole files only; `run` returns,
  and fails with blocks to fetch only for a block tried too often; one slow or hung
  lane does not hold the rest back.
* block planning: the blocks cover the file exactly, in the width of `u64`.
* transport: an Ok says exactly what is in the file; nothing follows the return;
  `stop` works within one read; no curl is left behind.
* record: what a command takes to be done is bytes of what it fetches.
* batch: items are neither lost nor fetched twice; each is counted once; a failure
  is put down to the chunk it happened in.
* callers: whatever shares a destination, the record stays honest, a verdict is
  right about the file, and starting over heals it.

Of engine, record and callers the source keeps this only with exceptions. The
properties name each of them, so that they say that there is no other; the
sections below and the violation runs say what they are.

## The modules

| module | models | abstracted |
| --- | --- | --- |
| `Setup` (extends `PlanBlocks`) | `Download`, `run` up to the plan, `probe::probe` and `parse`, `netif::usable` | an answer is its size headers in order, redirections first; an interface is a name and sets say what it is; `is_local` is a choice |
| `PlanBlocks` | `plan_blocks` | nothing |
| `Sched` | `next_waiting`, `next_hedge`, `pick` | predicates over the plan; the clock is the set `aged` of streams whose attempt has lasted `HEDGE_AFTER`; rates are in units per `HEDGE_AFTER` so "needs as long again" is `Remaining >= Rate` |
| `Download` | what `run` promises its caller | - |
| `Engine` (extends `Sched`) | `Download::run` from the opened file on, `state::save` | data are numbered units in a block; `landed` is what the file holds, exactly; an answer longer than its range is longer by one unit (`Excess`) |
| `Attempt` | the promise in the comment on `Transport` | - |
| `Transport` | `Curl::pump` with curl, `stop` and time around it | bytes are units; time is ticks |
| `Resume` | file and record over many commands, `single` among them | inside a command only what reaches the disk |
| `Batch` | `chunks`, `fetch_many` | an item is its cost on the command line; a list is its running totals, so that what a stretch of it costs is a difference |
| `Callers` | `serve::run` and `handle`, `dn get`, `dn_download`, `dn_fetch_many`, `sha256::file`, several at a time | the parts of a file that the cuts into blocks tell apart; of what the connections of a download do at once, the outcomes: bytes land, a block is done, or miscounted; a batch is a number of chunks |
| `MCSetup`, `MCEngine`, `MCResume`, `MCBatch`, `MCCallers` | instances for TLC | |
| `SetupProofs`, `PlanBlocksProofs`, `EngineProofs`, `TransportProofs`, `ResumeProofs`, `BatchProofs`, `CallersProofs` | theorems | |

The order of a download is `Setup`, then `Engine`, whose transfers are
`Transport`'s, whose result is `Download`'s; `Resume` strings such downloads
together and `Callers` sets them side by side. `Engine` implements `Download`
and `Transport` implements `Attempt`: each through a refinement mapping, as
`KeepsPromise` of the module.

Operators whose comment begins with "Mutant" are plausible bugs in the
definition that follows them. No specification uses them; each was put in the
place of the definition to confirm that the property it is paired with in
`PROJECT.json` fails, that is, that the property constrains the code.

### Engine

Everything a thread does while it holds the mutex is one action.

| action | code |
| --- | --- |
| `Top` | the look at `stop` at the head of the loop |
| `SeeFinished`, `TakePrimary`, `TakeHedge`, `TakeNothing` | the locked section that picks work; `Begin` is what primary and hedge share |
| `Receive`, `EndTransfer` | `transport.range` and its sink: one unit written at its offset; the end, Ok or not |
| `Age` | the passing of `HEDGE_AFTER` |
| `LoseRace`, `FinishBlock`, `ComeUpShort` | settling an `Ok(n)`: the block was won already, is now complete, is not |
| `FailLate`, `FailAttempt`, `Halt` | settling an `Err`; giving up |
| `SaveOpen`, `SaveWrite` | `state::save`: `fs::write` truncates, then writes; a full disk may keep the first part of the list, or nothing |
| `MonitorStop`, `Join`, `Verify`, `ReadBackFails` | the calling thread; the last is the error of `sha256::file` (`lib.rs:284`) |
| `Restart` | a kill at any moment, or a return, and the same command again, with or without `--no-resume` |

`Truncating`, `Failing`, `Hanging` and `Spoiling` say which lanes may end a
transfer early, fail it, never end it, or store something else than the file
(curl is run without `--fail`, so an error page is data; `write_at` may store
less than it was given). Nothing in the code bounds what the sink is given: the
answer of a lane in `Spoiling` may go on for `Excess` units past its range, and
they land where their offset says (`Home`, `Place`), in the next block or past the
end of the file, which `set_len` cuts off again when the command is repeated
(`Restart`). The history variable `doubtful` collects the blocks that
were spoiled, by an answer to the range before them too, and those a short hedge
miscounted; the soundness properties exempt
exactly these, so they say that *nothing else* goes wrong. The run `engine_hole`
shows what goes wrong with a miscounted block.

Not in the model: the order in which several errors reach the
`failure` message, the progress figures, a number of the record cut in two by a
full disk, and a thread that cannot be started (`scope.spawn` panics: that is in
`Callers`).

### Setup

| action | code |
| --- | --- |
| `NoUrl`, `NoSize`, `NoRanges`, `OpenFails` | the errors of `run`, in its order |
| `Ask` | `probe`: one more url answers, in any of the ways a server may; `Parse` goes over its headers with `ParseLine` |
| `Agree` | the largest size, the mirrors that report it with ranges |
| `MakeLanes` | `netif::usable`, `networks`, mirrors by interfaces |
| `MakeStreams` | the round over the lanes, up to `max_connections` |
| `OpenAndPlan`, `CutBlock`, `HandOver` | opening, sizing, and `plan_blocks` turn by turn |

The loops over a sequence that are pure (`Parse`, `Routed`, and `Among` for the two
filters) are recursive functions on how much of the sequence has been looked at:
TLC evaluates them, and the proofs can follow them turn by turn, which they could
not with the operators of the libraries. `Agree` and `MakeLanes` name a mirror by its
place among the urls, as `Lane` does (`sched.rs:40`).

### Transport

`Send` and `CurlEnds` are curl, `SetStop` the engine, `Tick` the clock; the rest is
`Curl::pump`: `CheckStop`, `Read`, `EndOfPipe`, `CheckStall`, `Wait`, and what may
fail in it, `WriteFails`, `ReadFails`, `WaitFails`.

### Resume

| action | code |
| --- | --- |
| `Publish` | another build on the server while nothing is fetched, an earlier one too |
| `Start` | the file cut to the size, the record believed if its size is the file's (`Resumed`), in the block length of this command |
| `Land`, `FinishBlock`, `Miscount`, `Save` | what gets to the disk; a block counted without its bytes; the record |
| `Interrupt`, `Verify` | giving up or being killed; the hash, and the record cleared |
| `Single` | `dn get --single`: truncate and write the first so many bytes, any number of them |

The record is a url, a size and block numbers. What it does not say is kept in
history variables: the build and the block length it was saved with (`about`),
whether the file was since written with another build or cut short
(`about.spoilt`), and from these, which of the blocks a command takes over nobody
vouches for (`doubted`) and which are of another cut (`recut`). No action reads
them but to keep them.

### Batch

`Weigh` and `LastChunk` are the turns of `chunks`; `StartCurl`, `Transfer` and
`CurlExits` curl with its lines, which come in any order, since it always runs
`--parallel` with `--retry` (`batch.rs:108-110`), and of which the last may be
missing; `Tally`, `Progress`, `Finish` and `Abandon` the rest of `fetch_many`.

### Callers

One file and one record; every caller makes one call after another,
of the kind `kind` gives it. `Kinds` says which assignments are tried. How a call
cuts the file depends on how many connections it gets (`serve.rs:113`,
`ffi.rs:89-90`, `main.rs:118-119`), so each call has a cut of its own, one of `Cuts`:
which block, by number, each part of the file is in.

| action | code |
| --- | --- |
| `Refuse` | all that ends a call before anything is fetched: `handle`'s replies (`Answer`, in its order), the argument checks of the C interface, an error of `run` |
| `Begin` | `Download::new` with what was asked for (`Asked`), the file cut to its size, the record read in the call's own cut if resuming |
| `Store` | a block landed and is done |
| `Land` | bytes landed that are not counted, right ones or, from a mirror with something else, wrong ones anywhere, past the end too |
| `Miscount` | a block is done by its count though its bytes did not all land: the short hedge (`lib.rs:215-219`), or `write_at` storing less |
| `SaveOpen`, `SaveWrite` | `state::save`, where of two that overlap the later list stays |
| `Cancel` | a C caller's callback answers other than zero: noted in `refused`, and nothing else |
| `GiveUp`, `Panic`, `Gather`, `Read`, `Unreadable`, `Mismatch`, `Accept` | the end of `run`: the hash reads part after part as they are when their turn comes, to where the file ends |
| `BeginBatch`, `Chunk`, `Told`, `Stop`, `Abandon`, `EndBatch` | `dn_fetch_many`, where the callback does stop it |
| `Kill` | the process dies, with every call in it |

Four fields are history. `disturbed`: whether another call changed the file during
a call with a hash, and whether that was while it was being hashed. `record.cut`:
the cut the record was saved in. `doubtful`: parts of blocks that were miscounted,
or read from a record of another cut. `trusting`: whether a call with a hash took
for done what it did not store itself. When two saves overlap, the texts
may mix on the disk; every list ends in a newline and `parse` reads three lines,
so what is read is one list or a part of one, which is why whole lists suffice.

## The runs

Passing runs:

| run | instance | shows |
| --- | --- | --- |
| `engine_safe` | 2 streams on 2 lanes, one of which ends early and the other fails, spoils, and answers with a unit too many; blocks of 2 and 1 units, 1 hedge, the command given twice | the engine implements `Download`; the count and the result agree with the file; no waiting block is stranded by the rule about lanes; a run that fails with blocks to fetch has one that was tried too often; Done is for good |
| `engine_race` | 3 streams on 2 lanes, one block of 2 units, 2 hedges | attempts, idle counts, the race of two |
| `engine_live` | 2 streams, one lane may hang, both may fail, rates slow or fast, a full disk | `run` returns and no lane holds the plan back, but for the reasons the two properties spell out |
| `setup` | 2 mirrors, 4 sizes of the file, 3 of what they may have instead, redirections; up to 2 streams a lane and 3 in all; clamps 2 and 5 and forced lengths up to the word of 80 | which mirrors count, how streams are spread, exact cover, no overflow |
| `transport` | 4 units, stall limit 2 | the pump implements `Attempt`; stop, drain, no orphan but for a failed write; it returns |
| `resume` | 3 builds of sizes 3, 3 and 2, block lengths 1 and 2, interrupted anywhere, single transfers of any length | what is taken to be done is of the build that is fetched, with the exceptions `doubted` and `recut` |
| `batch` | lists of up to 4 items, costs around the budget, lines in any order or missing | partition, budget, tally; failures stay in their chunk |
| `callers` | 2 calls on one file of 2 parts, in two blocks or in one: a request and a command, a batch and a C call; the first one's mirror may serve another file | the record, the verdict, starting over, no record left |

Why these bounds: a race takes two attempts and its miscounting takes a block of
two units (one landed, one not) and a third stream to reuse what the others left;
a lane that avoids a block needs one other lane; resumption needs a second run,
and nothing but file and record passes from one run to the next, so a third adds
nothing the second cannot start from. `MaxEmpty` and `MaxHedges` are 1 or 2
instead of 5 and 2: both are compared with a count and used nowhere else.
Two mirrors are enough for one to spoil the choice of the other, and two lanes by
two streams with a total of three make the round stop in its middle. Two callers
and two parts let one save, read or clear between any two steps of the other, and two
cuts are enough for a record to be read in another than its own. Two requests differ
from a request and a command in that a command may also start over and that a kill
takes only one of them; what is proved of `Callers` holds for any number and any
mix. One unit too many (`Excess`) is enough to reach the next block and the end of
the file; a longer answer reaches further, which the model does not. In `resume` two
builds of one size and one of another, with rollback, are every relation of a build
to the record's; the lane that fails in `engine_safe` is the one that spoils, the
other ends early.
The symmetry in `engine_race` exchanges the two streams of one lane; that run checks
invariants only.

Runs that violate a sentence of the documentation or a comment:

| run | the code | the sentence |
| --- | --- | --- |
| `engine_hole` | a short hedge sets `got` under a running primary; the primary adds to it: Done with a hole | `state.rs:1` |
| `transport_quiet` | the stall limit is looked at only after a read returned | `transport.rs:13-14`, `README.md:61` |
| `resume_recut` | block numbers read against another cut of the file | `README.md:63-64` |
| `callers_cancel` | a callback that asks to stop is no longer called, and the download goes on to `DN_OK` | `ffi.rs:38` |

Other places where the source does less than a sentence about it, which the models
reproduce but no run is about:

* an older list may overwrite a newer record (`lib.rs:227`; still sound: `KeepsPromise`);
* attempts that come back Ok with nothing, or fail on a block that holds some
  bytes, are not counted as empty (`lib.rs:233` against `sched.rs:30-31`): the third
  disjunct of `Returns`;
* one block that came back empty too often stops all lanes (`lib.rs:241` against
  `INTEGRATION.md:109-110`);
* `run` waits for the loser of a race even if it hangs (`lib.rs:154` against
  `sched.rs:14-15`): the second disjunct of `Returns`;
* a holder that was fast and went quiet keeps its rate (`sched.rs:120` against the
  comment above it): the second disjunct of `Excused`;
* a new build of the same size is taken for the old one (`state.rs:23` against
  `state.rs:4`); a record survives `--single`, a download of something else to the
  same place, and a hash that differs (`lib.rs:287`);
* `--single` ignores `--expect`, calls a file ok whose transfer was cut short, and
  truncates a file another command may be fetching (`main.rs:126-133`);
* ranges are taken for proven by a `Content-Range`, whatever the status
  (`probe.rs:33` against `ffi.rs:184`); an answer with a larger number, an error page
  for one, excludes all good mirrors (`lib.rs:95`): the exemption in
  `GoodMirrorUsed`; `is_local` is asked of the first source only (`lib.rs:112` against
  `lib.rs:309`);
* the n-th line curl writes is not about the n-th item, with any number of transfers
  at a time, for one that is tried again waits while the next goes on; so an item
  that did not arrive may go unnamed and another be named (`batch.rs:132` against
  `batch.rs:55` and `INTEGRATION.md:32`). `FailuresLocal` is what is left: there are
  as many failures in its chunk;
* the last error belongs to the process, not to the calling thread (`ffi.rs:29`
  against `ffi.rs:123`): another thread's failure replaces it and frees what was
  handed out. It is not modelled;
* a transfer is not kept to its block: a longer answer runs into the next
  (`lib.rs:193-200`, `transport.rs:68-73`), and past the end of the file, where
  the hash sees it and a run without a hash does not;
* `dn` exits with 1 on any error (`main.rs:88` against `INTEGRATION.md:561`).

Where a passing run has to exclude such a case by its constants, these are
`Truncating` and `Hanging` in `engine_live`, and `Named` in `setup` (no interface
twice: `--iface a,a` makes two lanes of one pair). `setup` also takes the total in a
`Content-Range` to be true of what the mirror serves; an answer with an untrue one is
not among those it tries. Elsewhere the property names the case, by a
history variable: `doubtful`, `doubted`, `recut`, `trusting`, `disturbed`.

## Fairness

`Engine!Fairness`: every thread is scheduled (weak fairness of its local steps:
the mutex is held for a bounded time and never across a transfer); time passes
(`Age`); lanes outside `Hanging` deliver or end each transfer they began. Nothing
is assumed of lanes in `Hanging`. `Restart` is not fair: nobody has to give the
command again. In `Transport` the pump is scheduled and time passes; that curl
ends is assumed only in `AnsweringSpec`, since with `--max-time 0` it need not.
The other modules state no liveness.

## The proofs

All theorems hold for every value of the constants that the named assumptions of
the modules allow: any number of mirrors, interfaces, streams, lanes, blocks, hedges,
runs, commands, builds, items, callers. Every invariant and action property of a
passing run is the subject of one. One has a hypothesis besides, stated with it
(`NamedOnce`, of `EvenSpread`).

* `SetupProofs`: `SetupTypes`, `NoMixing`, `NoGoodMirrorLost`, `LimitsKept`, `EvenSpread`,
  `SetupCuts`, from the inductive invariant `SetupInv` in three parts.
  * `MirrorsInv`: the sources are exactly the mirrors that agree, each once, and the
    size is the largest reported. It rests on what `Parse` makes of an answer
    (`ProbeTells`): any header with a total is taken for proof of ranges, and if every
    total is the size of the file that the mirror serves in ranges (`Honest`, true of
    every answer, redirections included: `AnswersHonest`), the size is that one. Hence `NoMixing` and
    `NoGoodMirrorLost`.
  * `LanesInv`: the lanes are pairs of a source and an interface, all different if the
    interfaces are, because quotient and remainder of the place in the list give
    them back (`Pairs`); the streams are the rounds over them.
  * `CutInv`: there is no plan before "cut", and from there on the invariant of
    `plan_blocks`.
  * How many streams a lane has is a cardinality. A place of the lane is sent to the
    number of its round, one to one, so there are no more than rounds (`OneARound`);
    a place but the first is sent to the other lane's before it, one to one, so there is
    at most one more (`OneMore`). That there is at least one stream means that the
    error "no usable lane" (`lib.rs:128`) cannot occur.
  * `LimitsKept` needs no hypothesis; `EvenSpread`, which adds that no two lanes are the
    same, assumes `NamedOnce`: no list of interfaces asked for has one twice. The code
    does not see to that (`--iface a,a`).
* `PlanBlocksProofs`: `CoversTheFile`, `BlocksAdjoin`, `SumsFit`, by the loop invariant
  `Contiguous` and by `PastFirst`, which bounds `start + block` after the first turn.
* `EngineProofs`
  * `TypeCorrect`: `TypeOK`, which carries two facts that the rest needs: a thread
    fetches inside its block, and an unfinished block counts less than it has.
  * `RacesBounded`: `AttemptsExact` and `RaceOfTwo`. `AttemptsExact` is what makes
    `RaceOfTwo` inductive: the rules look at `attempts`, the race is of threads.
    `NobodyForgotten` is `AttemptsExact` by itself.
  * `IdleCounted`: an idle count is a cardinality, of the threads on a lane that hold no
    work; every step adds or removes one thread of one lane, or none, so the count that the
    code keeps and the cardinality move together, and the subtraction that stops
    at zero never does stop there.
  * `NeverStranded`: from `IdleCounted` in what the rules read, and from the fact that
    a thread leaves only when the plan is finished or the download has been stopped.
  * `FailsForAReason`: `ReasonInv` adds that a thread is about to stop the download, and
    `stop` is set, only for a block tried too often or when all is done; that a
    thread leaves, and the caller goes on to join, only then; and that a tally of
    empty attempts never comes without a lane to avoid. A failure with the plan
    finished is one of the verification, a hash that differs or a file that cannot be
    read back, and needs no reason in the plan.
  * `CountSound`: `DoneMeansLanded` and `RecordTrusted`. Neither is inductive;
    `DiskInv` adds that a transfer's bytes are in the file (`JobsLanded`), what an
    unfinished block counts is (`CountLanded`), a primary began no lower than its
    block counts now and all below it is there (`PrimaryContinues`; this is the
    part a short hedge breaks), and so is every list about to be recorded
    (`SavingTrusted`).
  * `NeverUndone`, and `OkMeansWhole`, which combines it with the lemma
    `NothingAfterJoin`: threads are gone, the plan stays finished, so the file is what
    was counted.
  * `EngineKeepsPromise`: the refinement of `Download`. `whole` is the set of
    blocks whose bytes are all in the file; the invariants above are what each step
    needs to be a step of the promise: `DiskInv` for what is noted and accepted,
    `NothingAfterJoin` for the silence after the return.
* `TransportProofs`: `PromiseKept`, the refinement of `Attempt`, by an invariant
  that says what is counted is what was delivered; `StopsSoon`; `TypeCorrect`;
  `NothingLeftBehind`, by `DrainInv`: what was sent and is not counted is in the pipe, and
  the pump waits for curl only when the pipe is closed and empty or it was stopped;
  `OnlyWriteOrphans`.
* `ResumeProofs`: `ResumeTypes`; `NothingStitched`, by an invariant that says what the
  histories mean: a block the record names, and that its histories do not except, is
  bytes of the build it was saved with, for as long as the file was not written over.
  There is no hypothesis: the exceptions are in the property, and `resume_recut` shows
  that the one for another cut is needed.
* `BatchProofs`: `BatchTypes`, `LinesFit`, `ChunksPartition`, by `ListInv`, which relates
  the running sum of `chunks` to the stretch since the last cut; `EveryItemAccounted`
  and `FailuresStayLocal`, by `CountInv`: the indexes are of items tallied, and curl's
  lines are about items of the chunk, no two about one (`ReportInv`), so that there are
  no more good lines than items that arrived.
* `CallersProofs`: all five properties of `callers`. The inductive invariant `Inv`
  is the three invariants with three facts about a call: where it may be, that it has
  read nothing before the hash and that it takes whole blocks of its own cut for
  done (`InPhase`); that what its hash has seen
  is what the file has, unless the file was changed meanwhile (`HashTrue`, from which
  `VerdictIsRight`); that a call with a hash, from a right mirror, undisturbed, and
  trusting nothing it did not store has only right parts (`OwnRight`, from which
  `HealsFromStart`). `RecordIsHonest` rests on the file never getting a hole back, on
  lists being of blocks some call had, and on `doubtful` having what was miscounted
  or came out of another cut. All forms of a step of a download at its blocks are
  one lemma (`FetchInv`).

Induction over the numbers, which the library states for an operator, is needed for
what the recursive functions of `Setup` compute. `SetupProofs` gets it for a *set* of
numbers (`Inductive`, `InductiveUpto`) from the library's theorem that the subsets of a
finite set have no infinite descending chain; least and greatest elements, and
division with a remainder for divisors that are not constants, come the same way.

Only model-checked: liveness (`Returns` of both modules, `NotHeldBack`), which is out of
the prover's reach; and the four runs that show a disagreement.

## Not modelled

* The compression function of SHA-256, its padding and its hardware variant: bits,
  with nothing that happens in an order. The models assume that a hash tells the
  right file from any other.
* JSON, the text of requests and headers, formatting, argument parsing.
* The last error of the C interface: a failing call sets it, and what may be wrong with
  it (`ffi.rs:29`) takes a caller that reads it late.
* `dn get --single` beside other calls: it is in `Resume`, between commands.
* A build published while a download is under way: `Resume` publishes between commands.
* `dn_probe`, `dn_sha256_file`, `dn net` and `dn probe`: one call each of a part that
  is modelled. `fetch_into`, which only names files (two urls with one last segment
  get one file).
* How many connections all requests of a server make together: the code sets no
  bound.

## What is left

1. Several connections inside each call of `Callers`, instead of their outcomes:
   `Engine` twice on one file.
2. The buffering of `Sha256::update` and `finish` (that the pieces a file is read in
   do not matter) as a machine over block boundaries.
3. The last error, with callers that read it, and `--single` among the callers.
