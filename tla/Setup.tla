------------------------------- MODULE Setup -------------------------------
(***************************************************************************)
(* How a download is set up (src/lib.rs, Download and the first part of    *)
(* run): every mirror is asked what it has (src/probe.rs), the answers     *)
(* decide which mirrors count, those and the network interfaces            *)
(* (src/netif.rs) make the lanes, the lanes are given streams, the file is *)
(* opened, and plan_blocks (module PlanBlocks) cuts it.  Engine starts     *)
(* where this ends.                                                        *)
(***************************************************************************)
EXTENDS PlanBlocks, SequencesExt

CONSTANTS
    MaxUrls,    \* bound: urls a command names
    Others,     \* sizes of what a mirror may have instead of the file
    Interfaces, \* names of network interfaces
    Routes,     \* what the routing table may list: sequences of interfaces
    Loopback,   \* "lo"
    Virtual,    \* interfaces with the name of a bridge or a tunnel
    Up,         \* interfaces that are up
    Named,      \* interfaces a caller may ask for: sequences, empty for none
    MaxStreams, \* 16, the most streams a lane may be given
    MaxTotal    \* 64, the most connections

ASSUME SetupAssumption ==
    /\ MaxUrls \in Nat
    /\ Others \subseteq {n \in Nat : n < Word}
    /\ Routes \cup Named \subseteq Seq(Interfaces)
    /\ Loopback \in Interfaces
    /\ MaxStreams \in Nat \ {0}
    /\ MaxTotal \in Nat \ {0}
    /\ 1 .. MaxTotal \subseteq Counts

VARIABLES
    pc,         \* where run is
    urls,       \* how many urls it was given
    answers,    \* what curl printed for the urls probed so far
    sources,    \* the urls that count
    lanes,      \* each a source and an interface
    perLane,    \* streams_per_lane, as clamped
    total,      \* max_connections, as clamped
    streams     \* the lane of each stream, by its place in lanes

setupVars == <<pc, urls, answers, sources, lanes, perLane, total, streams>>

\* The items of a sequence that are in a set, in their order: SelectSeq, as a
\* recursive function.
Among(items, set) ==
    LET kept[k \in 0 .. Len(items)] ==
            IF k = 0 THEN <<>>
            ELSE IF items[k] \in set THEN Append(kept[k - 1], items[k])
            ELSE kept[k - 1]
    IN  kept[Len(items)]

-----------------------------------------------------------------------------
(* A probe: one byte asked for, the headers of all answers on the way.     *)

NoNumber == 0 - 1       \* a value that is no u64, "*" for one
ContentRange(n) == [name |-> "content-range", value |-> n]
ContentLength(n) == [name |-> "content-length", value |-> n]

\* What a server may answer, and the size of the file that it `serves' in
\* ranges, if it does: the range, a range of a file it does not know the size
\* of, the whole, a range it cannot satisfy, nothing.
PartOf(n) == [head |-> <<ContentRange(n), ContentLength(1)>>, serves |-> n]
PartOfSome(n) == [head |-> <<ContentRange(NoNumber), ContentLength(1)>>, serves |-> n]
WholeOf(n) == [head |-> <<ContentLength(n)>>, serves |-> 0]
NoSuchRange == [head |-> <<ContentRange(0), ContentLength(0)>>, serves |-> 0]
Silence == [head |-> <<>>, serves |-> 0]

Direct == (UNION {{PartOf(n), PartOfSome(n), WholeOf(n)} : n \in Sizes \cup (Others \ {0})})
              \cup {NoSuchRange, Silence}

\* A redirection comes first, with a page of its own or an empty one.
Redirected == {[a EXCEPT !.head = <<ContentLength(n)>> \o @] : a \in Direct, n \in Others}

\* One line of parse: a Content-Range with a total proves ranges and wins, a
\* Content-Length counts while there is no size yet.
ParseLine(p, line) ==
    IF line.name = "content-range" /\ line.value # NoNumber
      THEN [size |-> line.value, ranges |-> TRUE]
    ELSE IF line.name = "content-length" /\ p.size = 0
      THEN [p EXCEPT !.size = line.value]
    ELSE p

Parse(head) ==
    LET parsed[k \in 0 .. Len(head)] ==
            IF k = 0 THEN [size |-> 0, ranges |-> FALSE]
            ELSE ParseLine(parsed[k - 1], head[k])
    IN  parsed[Len(head)]

Probes == [i \in DOMAIN answers |-> Parse(answers[i].head)]

-----------------------------------------------------------------------------
Clamp(n, most) == IF n < 1 THEN 1 ELSE IF n > most THEN most ELSE n

SetupInit ==
    /\ pc = "probe"
    /\ urls \in 0 .. MaxUrls
    /\ answers = <<>>
    /\ sources = <<>>
    /\ lanes = <<>>
    /\ perLane \in {Clamp(n, MaxStreams) : n \in 0 .. MaxStreams + 1}
    /\ total \in {Clamp(n, MaxTotal) : n \in 0 .. MaxTotal + 1}
    /\ streams = <<>>
    /\ size = 0
    /\ block = 0
    /\ out = <<>>
    /\ start = 0

Fail ==
    /\ pc' = "error"
    /\ UNCHANGED <<urls, answers, sources, lanes, perLane, total, streams, vars>>

NoUrl == pc = "probe" /\ urls = 0 /\ Fail

Ask(a) ==
    /\ pc = "probe"
    /\ Len(answers) < urls
    /\ answers' = Append(answers, a)
    /\ UNCHANGED <<pc, urls, sources, lanes, perLane, total, streams, vars>>

\* Mutant: the first mirror's word is taken.
LargestFirst == Probes[1].size

\* The largest size any mirror reports.
Largest == Max({Probes[i].size : i \in DOMAIN answers})

\* Mutant: a size is taken for proof of ranges.
AgreesBySize(i) == Probes[i].size = Largest

\* The mirrors that count are those that report it and do ranges.
Agrees(i) == Probes[i].size = Largest /\ Probes[i].ranges

Answered == pc = "probe" /\ urls > 0 /\ Len(answers) = urls

NoSize == Answered /\ Largest = 0 /\ Fail

NoRanges ==
    /\ Answered
    /\ Largest # 0
    /\ \A i \in DOMAIN answers : ~ Agrees(i)
    /\ Fail

Agree ==
    /\ Answered
    /\ Largest # 0
    /\ \E i \in DOMAIN answers : Agrees(i)
    /\ size' = Largest
    /\ sources' = Among([i \in DOMAIN answers |-> i], {i \in DOMAIN answers : Agrees(i)})
    /\ pc' = "lanes"
    /\ UNCHANGED <<urls, answers, lanes, perLane, total, streams, block, out, start>>

-----------------------------------------------------------------------------
(* Interfaces, lanes and streams.                                          *)

AddRoute(found, i) ==
    IF i = Loopback \/ i \in ToSet(found) THEN found ELSE Append(found, i)

\* The interfaces of the routing table, each once.
Routed(routes) ==
    LET found[k \in 0 .. Len(routes)] ==
            IF k = 0 THEN <<>> ELSE AddRoute(found[k - 1], routes[k])
    IN  found[Len(routes)]

\* netif::usable.
Usable(routes) == Among(Routed(routes), Up \ Virtual)

AnyRoute == <<Loopback>>    \* the empty name: the routing table decides

\* Interfaces are pinned when the caller names them, or when there are several
\* and the first source is not on this machine.
Nets(named, routes, local) ==
    IF named # <<>> THEN named
    ELSE IF Len(Usable(routes)) > 1 /\ ~ local THEN Usable(routes)
    ELSE AnyRoute

\* Mirrors by interfaces.
MakeLanes(named, routes, local) ==
    LET nets == Nets(named, routes, local)
    IN  /\ pc = "lanes"
        /\ lanes' = [k \in 1 .. Len(sources) * Len(nets) |->
                        [source |-> sources[((k - 1) \div Len(nets)) + 1],
                         net    |-> nets[((k - 1) % Len(nets)) + 1]]]
        /\ pc' = "streams"
        /\ UNCHANGED <<urls, answers, sources, perLane, total, streams, vars>>

\* Mutant: a lane gets all its streams before the next one gets any.
LaneOfStreamFirst(k) == (k - 1) \div perLane + 1

LaneOfStream(k) == ((k - 1) % Len(lanes)) + 1

\* One round over the lanes after another, until the total is reached.
MakeStreams ==
    /\ pc = "streams"
    /\ streams' = [k \in 1 .. Min({perLane * Len(lanes), total}) |-> LaneOfStream(k)]
    /\ pc' = "open"
    /\ UNCHANGED <<urls, answers, sources, lanes, perLane, total, vars>>

-----------------------------------------------------------------------------
(* The file and the plan.                                                  *)

\* Mutant: the file is not given its size.
SizableAlways == TRUE

\* A file offset is signed.
Sizable == 2 * size < Word

\* The destination cannot be opened, or cannot be given its size.
OpenFails == pc = "open" /\ Fail

OpenAndPlan(forced) ==
    /\ pc = "open"
    /\ Sizable
    /\ block' = BlockFor(size, Len(streams), forced)
    /\ pc' = "cut"
    /\ UNCHANGED <<urls, answers, sources, lanes, perLane, total, streams, size, out, start>>

CutBlock == pc = "cut" /\ Cut /\ UNCHANGED setupVars

\* Engine takes over.
HandOver == pc = "cut" /\ Over /\ UNCHANGED setupVars

Failed == pc = "error" /\ UNCHANGED <<setupVars, vars>>

SetupNext ==
    \/ NoUrl \/ NoSize \/ NoRanges \/ Agree \/ MakeStreams
    \/ \E a \in Direct \cup Redirected : Ask(a)
    \/ \E named \in Named, routes \in Routes, local \in BOOLEAN : MakeLanes(named, routes, local)
    \/ OpenFails
    \/ \E forced \in Forces : OpenAndPlan(forced)
    \/ CutBlock \/ HandOver \/ Failed

SetupSpec == SetupInit /\ [][SetupNext]_<<setupVars, vars>>

-----------------------------------------------------------------------------
Steps == {"probe", "lanes", "streams", "open", "cut", "error"}

\* Every variable of the setup has its type, and what was clamped its bounds.
SetupTypeOK ==
    /\ pc \in Steps
    /\ urls \in 0 .. MaxUrls
    /\ Len(answers) <= urls
    /\ ToSet(sources) \subseteq DOMAIN answers
    /\ ToSet(streams) \subseteq DOMAIN lanes
    /\ perLane \in 1 .. MaxStreams
    /\ total \in 1 .. MaxTotal
    /\ size \in 0 .. Word - 1
    /\ block \in 0 .. Word - 1
    /\ pc = "cut" => size > 0 /\ block > 0 /\ streams # <<>>

\* "Mixing ranges from it would produce a corrupt result that still looks
\* complete" (lib.rs): every lane's mirror does serve ranges, of a file of the
\* very size the plan is made for.  A total in a Content-Range is the size of
\* what the mirror serves; of all else in an answer nothing is assumed.
SourcesServe == \A k \in DOMAIN lanes : answers[lanes[k].source].serves = size

\* A mirror that serves ranges and says of how much.
Tells(i) ==
    /\ answers[i].serves # 0
    /\ ContentRange(answers[i].serves) \in ToSet(answers[i].head)

\* A mirror that serves the file and says so is used, whatever redirections and
\* failing mirrors come with it, unless some answer reports more: an error page
\* longer than the file is enough to lose every good mirror.
GoodMirrorUsed ==
    \A i \in DOMAIN answers :
        /\ pc # "probe"
        /\ Tells(i)
        /\ \A j \in DOMAIN answers : Probes[j].size <= answers[i].serves
        => i \in ToSet(sources)

\* How many streams a lane has.
Share(k) == Cardinality({j \in DOMAIN streams : streams[j] = k})

\* Once there are streams there are no more than allowed, in total and on each
\* lane, the lanes differ by one at most, and no two lanes are the same pair:
\* idle counts and avoidance are kept by that pair.
Balanced ==
    pc \in {"open", "cut"} =>
        /\ Len(streams) \in 1 .. total
        /\ \A j, k \in DOMAIN lanes : /\ Share(k) <= perLane
                                      /\ Share(k) - Share(j) <= 1
                                      /\ lanes[j] = lanes[k] => j = k

=============================================================================
