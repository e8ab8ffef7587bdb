-------------------------- MODULE TransportProofs --------------------------
(***************************************************************************)
(* The pump keeps the promise of the Transport trait, for any number of    *)
(* bytes and any stall limit.                                              *)
(***************************************************************************)
EXTENDS Transport, TLAPS

\* What the pump counts is what the file got, every unit is in one place, and
\* the call returns once, at the end.
Inv ==
    /\ got = delivered
    /\ got \in Nat /\ pipe \in Nat /\ sent \in Nat
    /\ got + pipe <= sent
    /\ sent <= Limit
    /\ (pc = "returned") \/ (result = Abstract!Pending)

\* What is counted is right at first.
LEMMA InvInit == Init => Inv
BY TransportAssumption DEF TransportAssumption, Init, Inv

\* No step disturbs it.
LEMMA InvStep == Inv /\ [Next]_vars => Inv'
<1> SUFFICES ASSUME Inv, [Next]_vars PROVE Inv'
  OBVIOUS
<1> USE TransportAssumption DEF TransportAssumption, Inv, Kill, GiveUp
<1>1. CASE CheckStop
  BY <1>1 DEF CheckStop
<1>2. CASE Read
  <2>1. PICK n \in 1 .. pipe : pipe' = pipe - n /\ got' = got + n /\ delivered' = delivered + n
    BY <1>2 DEF Read
  <2> QED
    BY <1>2, <2>1 DEF Read
<1>3. CASE EndOfPipe
  BY <1>3 DEF EndOfPipe
<1>4. CASE CheckStall
  BY <1>4 DEF CheckStall
<1>5. CASE Wait
  BY <1>5 DEF Wait
<1>6. CASE WriteFails
  <2>1. PICK n \in 1 .. pipe : pipe' = pipe - n
    BY <1>6 DEF WriteFails
  <2> QED
    BY <1>6, <2>1 DEF WriteFails
<1>7. CASE ReadFails \/ WaitFails
  BY <1>7 DEF ReadFails, WaitFails
<1>8. CASE Send
  BY <1>8 DEF Send
<1>9. CASE Ends \/ SetStop \/ Tick \/ UNCHANGED vars
  BY <1>9 DEF Ends, CurlEnds, SetStop, Tick, vars
<1> QED
  BY <1>1, <1>2, <1>3, <1>4, <1>5, <1>6, <1>7, <1>8, <1>9 DEF Next, Pump, Faults, Returned

\* A failure the pump reports is one the trait knows.
LEMMA GiveUpReturns ==
  ASSUME NEW why \in {"write", "read", "quiet", "curl"},
         result = Abstract!Pending, GiveUp(why), delivered' = delivered
  PROVE  Abstract!Return
BY DEF GiveUp, Abstract!Return, Abstract!Errors

\* Every run of the pump is one the trait allows: bytes are handed on, then the
\* call returns once, and an Ok is exactly the number of bytes in the file.
THEOREM PromiseKept == Spec => KeepsPromise
<1>1. Init => Abstract!Init
  BY DEF Init, Abstract!Init
<1>2. Inv /\ [Next]_vars => [Abstract!Next]_(Abstract!vars)
  <2> SUFFICES ASSUME Inv, [Next]_vars PROVE Abstract!Next \/ UNCHANGED Abstract!vars
    OBVIOUS
  <2>1. CASE Read
    <3>1. PICK n \in 1 .. pipe : pipe' = pipe - n /\ got' = got + n /\ delivered' = delivered + n
      BY <2>1 DEF Read
    <3>2. n \in 1 .. Limit /\ delivered + n <= Limit
      BY TransportAssumption DEF TransportAssumption, Inv
    <3>3. Abstract!Deliver(n)
      BY <2>1, <3>1, <3>2 DEF Read, Inv, Abstract!Deliver
    <3> QED
      BY <3>2, <3>3 DEF Abstract!Next
  <2>2. CASE CheckStall
    <3>1. CASE quiet > StallAfter
      BY <2>2, <3>1, GiveUpReturns DEF CheckStall, Inv, Abstract!Next
    <3>2. CASE ~ (quiet > StallAfter)
      BY <2>2, <3>2 DEF CheckStall, Abstract!vars
    <3> QED
      BY <3>1, <3>2
  <2>3. CASE Wait
    <3>1. CASE child # "success" /\ got = 0
      BY <2>3, <3>1, GiveUpReturns DEF Wait, Inv, Abstract!Next
    <3>2. CASE ~ (child # "success" /\ got = 0)
      BY <2>3, <3>2 DEF Wait, Inv, Abstract!Next, Abstract!Return
    <3> QED
      BY <3>1, <3>2
  <2>4. CASE WriteFails \/ ReadFails \/ WaitFails
    BY <2>4, GiveUpReturns DEF WriteFails, ReadFails, WaitFails, Inv, Abstract!Next
  <2>5. CASE CheckStop \/ EndOfPipe \/ Send \/ Ends \/ SetStop \/ Tick \/ UNCHANGED vars
    BY <2>5 DEF CheckStop, EndOfPipe, Send, Ends, CurlEnds, SetStop, Tick, vars, Abstract!vars
  <2> QED
    BY <2>1, <2>2, <2>3, <2>4, <2>5 DEF Next, Pump, Faults, Returned
<1> QED
  BY <1>1, <1>2, InvInit, InvStep, PTL DEF Spec, KeepsPromise, Abstract!Spec

\* Once one read has been handed on after stop was set, the pump will see stop
\* before it reads again.
LateInv == late = 0 \/ (late = 1 /\ stop /\ pc # "read")

\* No step gives the pump more time after a stop.
LEMMA LateStep == LateInv /\ [Next]_vars => LateInv'
<1> SUFFICES ASSUME LateInv, [Next]_vars PROVE LateInv'
  OBVIOUS
<1> USE DEF LateInv, GiveUp
<1>1. CASE CheckStop \/ EndOfPipe \/ CheckStall \/ Wait
  BY <1>1 DEF CheckStop, EndOfPipe, CheckStall, Wait
<1>2. CASE Read
  BY <1>2 DEF Read
<1>3. CASE Faults
  BY <1>3 DEF Faults, WriteFails, ReadFails, WaitFails
<1>4. CASE Send \/ Ends \/ SetStop \/ Tick \/ UNCHANGED vars
  BY <1>4 DEF Send, Ends, CurlEnds, SetStop, Tick, vars
<1> QED
  BY <1>1, <1>2, <1>3, <1>4 DEF Next, Pump, Returned

\* A transfer the engine gave up on hands at most one more read to the file.
THEOREM StopsSoon == Spec => []LateBound
<1>1. Init => LateInv
  BY DEF Init, LateInv
<1>2. LateInv => LateBound
  BY DEF LateInv, LateBound
<1> QED
  BY <1>1, <1>2, LateStep, PTL DEF Spec

-----------------------------------------------------------------------------
(* Types, and what a return leaves behind.                                 *)

\* Every variable keeps its type; the bounds on what is in the pipe and on what
\* an Ok may say are those of Inv.
LEMMA TypeStep == Inv /\ TypeOK /\ [Next]_vars => TypeOK'
<1> SUFFICES ASSUME Inv, TypeOK, [Next]_vars PROVE TypeOK'
  OBVIOUS
<1>1. pipe' \in 0 .. Limit /\ sent' \in 0 .. Limit /\ got' \in Nat /\ delivered' \in Nat
  BY InvStep, TransportAssumption DEF Inv, TransportAssumption
<1> USE TransportAssumption DEF TransportAssumption, TypeOK, Kill, GiveUp
<1>2. CASE CheckStop \/ EndOfPipe
  BY <1>1, <1>2 DEF CheckStop, EndOfPipe
<1>3. CASE Read
  BY <1>1, <1>3 DEF Read
<1>4. CASE CheckStall
  BY <1>1, <1>4 DEF CheckStall, Abstract!Errors
<1>5. CASE Wait
  <2>1. got \in 0 .. Limit
    BY DEF Inv
  <2> QED
    BY <1>1, <1>5, <2>1 DEF Wait, Abstract!Errors
<1>6. CASE WriteFails \/ ReadFails \/ WaitFails
  BY <1>1, <1>6 DEF WriteFails, ReadFails, WaitFails, Abstract!Errors
<1>7. CASE Send
  <2>1. UNCHANGED <<pc, child, quiet, stop, late, result>>
    BY <1>7 DEF Send
  <2> QED
    BY <1>1, <2>1
<1>8. CASE SetStop
  BY <1>1, <1>8 DEF SetStop
<1>9. CASE Tick
  BY <1>1, <1>9 DEF Tick
<1>10. CASE Ends \/ UNCHANGED vars
  BY <1>1, <1>10 DEF Ends, CurlEnds, vars
<1> QED
  BY <1>2, <1>3, <1>4, <1>5, <1>6, <1>7, <1>8, <1>9, <1>10 DEF Next, Pump, Faults, Returned

\* Type correctness: among the rest, a pipe never holds more than was sent and
\* an Ok never reports more than the server had.
THEOREM TypeCorrect == Spec => []TypeOK
<1>1. Init => TypeOK
  <2> SUFFICES ASSUME Init PROVE TypeOK
    OBVIOUS
  <2>1. result \in {Abstract!Pending}
    BY DEF Init
  <2>2. sent \in 0 .. Limit /\ pipe \in 0 .. Limit /\ quiet \in 0 .. Clock
    BY TransportAssumption DEF TransportAssumption, Init
  <2> QED
    BY <2>1, <2>2 DEF Init, TypeOK
<1> QED
  BY <1>1, TypeStep, InvInit, InvStep, PTL DEF Spec

\* Until the call returns every unit sent is counted or in the pipe.  The pump
\* waits for curl only once the pipe is closed and empty, or stop is set; what
\* an unstopped Ok was returned with cannot change any more.
DrainInv ==
    /\ pc # "returned" => got + pipe = sent
    /\ pc = "wait" => stop \/ (pipe = 0 /\ child # "running")
    /\ pc = "returned" /\ result.why = "ok" =>
          stop \/ (delivered = sent /\ child # "running")

\* No step leaves the pipe undrained.
LEMMA DrainStep == Inv /\ DrainInv /\ [Next]_vars => DrainInv'
<1> SUFFICES ASSUME Inv, DrainInv, [Next]_vars PROVE DrainInv'
  OBVIOUS
<1> USE DEF DrainInv, Kill, GiveUp
<1>1. CASE CheckStop \/ EndOfPipe
  BY <1>1 DEF CheckStop, EndOfPipe
<1>2. CASE Read
  <2>1. PICK n \in 1 .. pipe : pipe' = pipe - n /\ got' = got + n /\ delivered' = delivered + n
    BY <1>2 DEF Read
  <2> QED
    BY <1>2, <2>1 DEF Read, Inv
<1>3. CASE CheckStall
  BY <1>3 DEF CheckStall, Abstract!Err
<1>4. CASE Wait
  BY <1>4 DEF Wait, Inv, Abstract!Err
<1>5. CASE WriteFails \/ ReadFails \/ WaitFails
  BY <1>5 DEF WriteFails, ReadFails, WaitFails, Abstract!Err
<1>6. CASE Send
  BY <1>6 DEF Send, Inv
<1>7. CASE Ends \/ SetStop \/ Tick \/ UNCHANGED vars
  BY <1>7 DEF Ends, CurlEnds, SetStop, Tick, vars
<1> QED
  BY <1>1, <1>2, <1>3, <1>4, <1>5, <1>6, <1>7 DEF Next, Pump, Faults, Returned

\* An Ok from a transfer that was not stopped means that all the server sent is
\* in the file: nothing is left in the pipe, and nothing comes later.
THEOREM NothingLeftBehind == Spec => []Drained
<1>1. Init => DrainInv
  BY DEF Init, DrainInv
<1>2. Inv /\ DrainInv => Drained
  BY DEF Inv, DrainInv, Drained, Abstract!Pending
<1> QED
  BY <1>1, <1>2, DrainStep, InvInit, InvStep, PTL DEF Spec

\* A call returns with curl still running only when the sink failed: on every
\* other way out curl was reaped, or killed first.
THEOREM OnlyWriteOrphans == Spec => []OrphanOnWrite
<1> DEFINE Reaped == pc = "wait" => child # "running"
<1>1. Init => OrphanOnWrite /\ Reaped
  BY DEF Init, OrphanOnWrite
<1>2. OrphanOnWrite /\ Reaped /\ [Next]_vars => OrphanOnWrite' /\ Reaped'
  <2> SUFFICES ASSUME OrphanOnWrite, Reaped, [Next]_vars PROVE OrphanOnWrite' /\ Reaped'
    OBVIOUS
  <2> USE DEF OrphanOnWrite, Kill, GiveUp
  <2>1. CASE Pump
    BY <2>1 DEF Pump, CheckStop, Read, EndOfPipe, CheckStall, Wait
  <2>2. CASE Faults
    BY <2>2 DEF Faults, WriteFails, ReadFails, WaitFails
  <2>3. CASE Send \/ Ends \/ SetStop \/ Tick \/ UNCHANGED vars
    BY <2>3 DEF Send, Ends, CurlEnds, SetStop, Tick, vars
  <2> QED
    BY <2>1, <2>2, <2>3 DEF Next, Returned
<1> QED
  BY <1>1, <1>2, PTL DEF Spec

=============================================================================
