----------------------------- MODULE Transport -----------------------------
(***************************************************************************)
(* One transfer of the curl transport (src/transport.rs): the pump between *)
(* curl's pipe and the sink, which both `range' and `whole' drive.  Curl   *)
(* and the server are the environment; time passes in ticks.               *)
(***************************************************************************)
EXTENDS Integers

CONSTANTS
    Limit,      \* as many units as the server will ever send
    StallAfter, \* STALL_AFTER, in ticks
    Clock       \* bound: quiet time is counted up to here

ASSUME TransportAssumption ==
    /\ Limit \in Nat
    /\ StallAfter \in Nat
    /\ Clock \in Nat
    /\ Clock > StallAfter

VARIABLES
    pc,         \* where the pump is
    child,      \* curl: running, or how it ended
    sent,       \* units curl has put into the pipe
    pipe,       \* units in the pipe
    got,        \* units the pump counts
    delivered,  \* units the sink took: bytes in the file
    quiet,      \* time since last_byte
    stop,       \* the engine's stop flag
    late,       \* history: reads handed on since stop was set
    result      \* what the call returned

vars == <<pc, child, sent, pipe, got, delivered, quiet, stop, late, result>>

Abstract == INSTANCE Attempt WITH
    Limit <- Limit, delivered <- delivered, result <- result

Init ==
    /\ pc = "loop"
    /\ child = "running"
    /\ sent = 0
    /\ pipe = 0
    /\ got = 0
    /\ delivered = 0
    /\ quiet = 0
    /\ stop = FALSE
    /\ late = 0
    /\ result = Abstract!Pending

-----------------------------------------------------------------------------
(* The environment.                                                        *)

Send ==
    /\ child = "running"
    /\ sent < Limit
    /\ sent' = sent + 1
    /\ pipe' = pipe + 1
    /\ UNCHANGED <<pc, child, got, delivered, quiet, stop, late, result>>

\* Curl ends by itself, which closes its end of the pipe.
CurlEnds(how) ==
    /\ child = "running"
    /\ child' = how
    /\ UNCHANGED <<pc, sent, pipe, got, delivered, quiet, stop, late, result>>

SetStop ==
    /\ ~ stop
    /\ stop' = TRUE
    /\ UNCHANGED <<pc, child, sent, pipe, got, delivered, quiet, late, result>>

Tick ==
    /\ pc # "returned"
    /\ quiet < Clock
    /\ quiet' = quiet + 1
    /\ UNCHANGED <<pc, child, sent, pipe, got, delivered, stop, late, result>>

-----------------------------------------------------------------------------
(* The pump.                                                               *)

\* Mutant: curl is left to itself.
KillNot == child' = child

Kill == child' = IF child = "running" THEN "killed" ELSE child

GiveUp(why) ==
    /\ result' = Abstract!Err(why)
    /\ pc' = "returned"

\* Mutant: the stop flag not looked at.
CheckStopNever ==
    /\ pc = "loop"
    /\ pc' = "read"
    /\ UNCHANGED <<child, sent, pipe, got, delivered, quiet, stop, late, result>>

CheckStop ==
    /\ pc = "loop"
    /\ IF stop THEN Kill /\ pc' = "wait" ELSE pc' = "read" /\ UNCHANGED child
    /\ UNCHANGED <<sent, pipe, got, delivered, quiet, stop, late, result>>

\* Mutant: what was read is left in the pipe.
ReadAgain ==
    /\ pc = "read"
    /\ pipe > 0
    /\ got' = got + pipe
    /\ delivered' = delivered + pipe
    /\ quiet' = 0
    /\ late' = IF stop THEN late + 1 ELSE late
    /\ pc' = "check"
    /\ UNCHANGED <<child, sent, pipe, stop, result>>

\* A read takes what is there; the sink writes it into the file.
Read ==
    /\ pc = "read"
    /\ \E n \in 1 .. pipe :
        /\ pipe' = pipe - n
        /\ got' = got + n
        /\ delivered' = delivered + n
    /\ quiet' = 0
    /\ late' = IF stop THEN late + 1 ELSE late
    /\ pc' = "check"
    /\ UNCHANGED <<child, sent, stop, result>>

\* Mutant: the sink's error is ignored.
WriteIgnored ==
    /\ pc = "read"
    /\ pipe > 0
    /\ pipe' = 0
    /\ got' = got + pipe
    /\ pc' = "check"
    /\ UNCHANGED <<child, sent, delivered, quiet, stop, late, result>>

\* The sink fails: the error is returned on the spot, curl left as it is.
WriteFails ==
    /\ pc = "read"
    /\ \E n \in 1 .. pipe : pipe' = pipe - n
    /\ GiveUp("write")
    /\ UNCHANGED <<child, sent, got, delivered, quiet, stop, late>>

\* Curl cannot be waited for.
WaitFails ==
    /\ pc = "wait"
    /\ GiveUp("curl")
    /\ UNCHANGED <<child, sent, pipe, got, delivered, quiet, stop, late>>

ReadFails ==
    /\ pc = "read"
    /\ Kill
    /\ GiveUp("read")
    /\ UNCHANGED <<sent, pipe, got, delivered, quiet, stop, late>>

\* Mutants: curl's end taken for the pipe's, and an empty read tried again.
EndAtExit ==
    /\ pc = "read"
    /\ child # "running"
    /\ pc' = "wait"
    /\ UNCHANGED <<child, sent, pipe, got, delivered, quiet, stop, late, result>>

EndOfPipeLoops ==
    /\ pc = "read"
    /\ pipe = 0
    /\ child # "running"
    /\ pc' = "loop"
    /\ UNCHANGED <<child, sent, pipe, got, delivered, quiet, stop, late, result>>

\* The pipe is empty and closed.
EndOfPipe ==
    /\ pc = "read"
    /\ pipe = 0
    /\ child # "running"
    /\ pc' = "wait"
    /\ UNCHANGED <<child, sent, pipe, got, delivered, quiet, stop, late, result>>

\* Only ever evaluated right after a read returned.
CheckStall ==
    /\ pc = "check"
    /\ IF quiet > StallAfter
         THEN Kill /\ GiveUp("quiet")
         ELSE pc' = "loop" /\ UNCHANGED <<child, result>>
    /\ UNCHANGED <<sent, pipe, got, delivered, quiet, stop, late>>

\* Curl is reaped; a bad exit counts only if nothing was delivered.
Wait ==
    /\ pc = "wait"
    /\ child # "running"
    /\ IF child # "success" /\ got = 0
         THEN GiveUp("curl")
         ELSE result' = Abstract!Ok(got) /\ pc' = "returned"
    /\ UNCHANGED <<child, sent, pipe, got, delivered, quiet, stop, late>>

-----------------------------------------------------------------------------
Pump == CheckStop \/ Read \/ EndOfPipe \/ CheckStall \/ Wait

Faults == WriteFails \/ ReadFails \/ WaitFails

Ends == \E how \in {"success", "failure"} : CurlEnds(how)

Returned == pc = "returned" /\ UNCHANGED vars

Next == Pump \/ Faults \/ Send \/ Ends \/ SetStop \/ Tick \/ Returned

Spec == Init /\ [][Next]_vars

\* The thread is scheduled and time passes; the server may go quiet for ever.
FairSpec == Spec /\ WF_vars(Pump) /\ WF_vars(Tick)

\* The server answers: curl comes to an end.
AnsweringSpec == FairSpec /\ WF_vars(Ends)

-----------------------------------------------------------------------------
TypeOK ==
    /\ pc \in {"loop", "read", "check", "wait", "returned"}
    /\ child \in {"running", "success", "failure", "killed"}
    /\ sent \in 0 .. Limit
    /\ pipe \in 0 .. Limit
    /\ got \in Nat
    /\ delivered \in Nat
    /\ quiet \in 0 .. Clock
    /\ stop \in BOOLEAN
    /\ late \in Nat
    /\ result \in {Abstract!Pending} \cup Abstract!Errors \cup {Abstract!Ok(n) : n \in 0 .. Limit}

\* The pump keeps the trait's promise: whatever kills, failures and short
\* transfers happen, Ok says exactly how many bytes are in the file, and none
\* follow.
KeepsPromise == Abstract!Spec

\* Once stop is set at most one more read reaches the file: a transfer the
\* engine gave up on does not go on writing.
LateBound == late <= 1

\* A transfer that is reported Ok and was not stopped had no bytes left in the
\* pipe.
Drained == result.why = "ok" /\ child # "killed" /\ ~ stop => delivered = sent

\* A call that returned left no curl behind that goes on fetching, unless the
\* sink failed: then nobody kills it, or waits for it.
OrphanOnWrite ==
    pc = "returned" /\ child = "running" => result = Abstract!Err("write")

\* A transfer whose curl comes to an end returns.
Returns == <>(pc = "returned")

\* "An attempt that has delivered nothing for this long is abandoned"
\* (transport.rs:13-14): quiet for longer than STALL_AFTER, it returns, unless
\* bytes come after all.
QuietIsDropped == quiet > StallAfter ~> (pc = "returned" \/ quiet = 0)

=============================================================================
