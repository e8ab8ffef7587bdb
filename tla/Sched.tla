------------------------------- MODULE Sched -------------------------------
(***************************************************************************)
(* The shared plan of a download and the rules that say who fetches what   *)
(* (src/sched.rs).  The rules are read off a snapshot of the plan: they    *)
(* are state predicates here, and module Engine takes the steps.           *)
(*                                                                         *)
(* Units.  A block is Size[b] units of data, numbered from 0.  Rates are   *)
(* in units per HEDGE_AFTER, so an attempt "needs as long again" exactly   *)
(* when what remains is at least the rate.  The clock is left out: `aged'  *)
(* holds the streams whose attempt has lasted HEDGE_AFTER or more.         *)
(***************************************************************************)
EXTENDS Integers, FiniteSets

CONSTANTS
    Streams,    \* connection threads
    Lanes,      \* a mirror paired with a network interface
    LaneOf,     \* the lane each stream belongs to
    None,       \* no lane is avoided
    NumBlocks,  \* blocks the file is cut into
    Size,       \* length of each block
    MaxHedges   \* MAX_HEDGES_PER_BLOCK

Blocks == 1 .. NumBlocks

ASSUME SchedAssumption ==
    /\ IsFiniteSet(Streams)
    /\ LaneOf \in [Streams -> Lanes]
    /\ None \notin Lanes
    /\ NumBlocks \in Nat
    /\ Size \in [Blocks -> Nat \ {0}]
    /\ MaxHedges \in Nat

VARIABLES
    status,     \* Block.status
    got,        \* Block.got
    avoid,      \* Block.avoid
    hedges,     \* Block.hedges
    attempts,   \* Block.attempts: the streams at work on the block
    idle,       \* Plan.idle: streams not fetching, per lane
    speed,      \* Plan.speed: last measured rate of each stream, 0 for none
    aged        \* streams whose attempt began HEDGE_AFTER ago or earlier

Remaining(b) == IF got[b] < Size[b] THEN Size[b] - got[b] ELSE 0

Finished == \A b \in Blocks : status[b] = "Done"

-----------------------------------------------------------------------------
(* next_waiting: the first waiting block, except one this lane failed to   *)
(* deliver while a stream of another lane is free to take it.              *)

\* Mutant: a lane counts as free without a free stream.
FreeElsewhereAlways(l) == \E k \in Lanes \ {l} : idle[k] >= 0

FreeElsewhere(l) == \E k \in Lanes \ {l} : idle[k] > 0

Waiting(l) ==
    {b \in Blocks : /\ status[b] = "Pending"
                    /\ ~ (FreeElsewhere(l) /\ avoid[b] = l)}

IsNextWaiting(b, l) ==
    /\ b \in Waiting(l)
    /\ \A c \in Waiting(l) : b <= c

-----------------------------------------------------------------------------
(* next_hedge: once nothing waits, the running block whose lone holder     *)
(* will be longest yet.                                                    *)

Holder(b) == CHOOSE h \in Streams : attempts[b] = {h}

Rate(b) == speed[Holder(b)]

\* Whether the block's holder is expected to finish later than the other's:
\* a holder with no measured rate has no finish time at all.
Longer(b, c) ==
    \/ Rate(b) = 0 /\ Rate(c) # 0
    \/ Rate(b) # 0 /\ Rate(c) # 0 /\ Remaining(b) * Rate(c) > Remaining(c) * Rate(b)

\* Mutant: a holder with no rate is left alone.
SlowIfMeasured(b) == Rate(b) # 0 /\ Remaining(b) >= Rate(b)

Slow(b) == Rate(b) = 0 \/ Remaining(b) >= Rate(b)

\* A lane that is not the holder's has a free stream and would take the block.
FreeToHedge(b) ==
    \E k \in Lanes \ {LaneOf[Holder(b)]} : idle[k] > 0 /\ avoid[b] # k

Hedgeable(s) ==
    {b \in Blocks :
        /\ \A c \in Blocks : status[c] # "Pending"
        /\ status[b] = "Running"
        /\ \E h \in Streams \ {s} : attempts[b] = {h} /\ h \in aged
        /\ hedges[b] < MaxHedges
        /\ avoid[b] # LaneOf[s]
        /\ Remaining(b) > 0
        /\ Slow(b)
        /\ ~ (LaneOf[Holder(b)] = LaneOf[s] /\ FreeToHedge(b))}

IsNextHedge(b, s) ==
    /\ b \in Hedgeable(s)
    /\ \A c \in Hedgeable(s) : ~ Longer(c, b) /\ (Longer(b, c) \/ b <= c)

=============================================================================
