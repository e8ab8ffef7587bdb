------------------------------ MODULE Attempt ------------------------------
(***************************************************************************)
(* What Transport::range promises the engine (the doc comment of the       *)
(* trait): bytes are handed on one after another, then the call returns,   *)
(* once, either how many there were or an error, and nothing follows.      *)
(***************************************************************************)
EXTENDS Integers

CONSTANT Limit      \* as many units as the other end will ever send

VARIABLES
    delivered,      \* units handed to the sink
    result          \* what the call returned

vars == <<delivered, result>>

Pending == [why |-> "pending", n |-> 0]
Ok(n) == [why |-> "ok", n |-> n]
Err(why) == [why |-> why, n |-> 0]
Errors == {Err(why) : why \in {"write", "read", "quiet", "curl"}}

Init == delivered = 0 /\ result = Pending

Deliver(k) ==
    /\ result = Pending
    /\ delivered + k <= Limit
    /\ delivered' = delivered + k
    /\ UNCHANGED result

Return ==
    /\ result = Pending
    /\ result' \in {Ok(delivered)} \cup Errors
    /\ UNCHANGED delivered

Next == Return \/ \E k \in 1 .. Limit : Deliver(k)

Spec == Init /\ [][Next]_vars

=============================================================================
