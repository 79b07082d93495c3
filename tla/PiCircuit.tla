------------------------------ MODULE PiCircuit ------------------------------
(***************************************************************************)
(* The circuit breaker of callPiApi in payment.service.ts: two variables   *)
(* of the module, shared by the approve, complete and cancel calls that    *)
(* overlap.  Time is counted in ticks.                                     *)
(***************************************************************************)
EXTENDS Integers

CONSTANTS
    Calls,          \* slots for calls of the Pi Network
    MaxRetries,     \* attempts per call
    Threshold,      \* CIRCUIT_THRESHOLD
    OpenTicks       \* CIRCUIT_TIMEOUT

ASSUME CircuitAssumption ==
    MaxRetries \in Nat \ {0} /\ Threshold \in Nat \ {0} /\ OpenTicks \in Nat \ {0}

VARIABLES
    circuitFailures,  \* not followed above Threshold, which is all it is compared with
    circuitOpen,      \* ticks until circuitOpenUntil, 0 if that is past
    attempt           \* attempt a call is at, 0 if the slot is free

circuitVars == <<circuitFailures, circuitOpen, attempt>>

CircuitInit == circuitFailures = 0 /\ circuitOpen = 0 /\ attempt = [c \in Calls |-> 0]

SetAttempt(c, n) == attempt' = [attempt EXCEPT ![c] = n]

\* Fault: a call that the breaker refuses prolongs it
CallPiProlongs(c) ==
    /\ attempt[c] = 0
    /\ IF circuitOpen = 0
       THEN SetAttempt(c, 1) /\ circuitOpen' = 0
       ELSE attempt' = attempt /\ circuitOpen' = OpenTicks
    /\ UNCHANGED circuitFailures

\* The first attempt, unless the breaker is open
CallPi(c) ==
    /\ attempt[c] = 0 /\ circuitOpen = 0
    /\ SetAttempt(c, 1)
    /\ UNCHANGED <<circuitFailures, circuitOpen>>

\* res.ok; a call made before the breaker opened may still succeed
PiOk(c) ==
    /\ attempt[c] > 0
    /\ circuitFailures' = 0
    /\ SetAttempt(c, 0)
    /\ UNCHANGED circuitOpen

\* 4xx: not counted
PiRefuses(c) ==
    /\ attempt[c] > 0
    /\ SetAttempt(c, 0)
    /\ UNCHANGED <<circuitFailures, circuitOpen>>

\* A timeout, a network error, 429 or 5xx, with attempts left
PiRetry(c) ==
    /\ attempt[c] \in 1..MaxRetries - 1
    /\ SetAttempt(c, attempt[c] + 1)
    /\ UNCHANGED <<circuitFailures, circuitOpen>>

\* The last attempt failed
PiGivesUp(c) ==
    /\ attempt[c] = MaxRetries
    /\ circuitFailures' = IF circuitFailures < Threshold THEN circuitFailures + 1 ELSE circuitFailures
    /\ circuitOpen' = IF circuitFailures' = Threshold THEN OpenTicks ELSE circuitOpen
    /\ SetAttempt(c, 0)

\* The process restarts
CircuitRestart ==
    /\ circuitFailures' = 0 /\ circuitOpen' = 0
    /\ attempt' = [c \in Calls |-> 0]

\* Time passes
CircuitTick ==
    /\ circuitOpen > 0
    /\ circuitOpen' = circuitOpen - 1
    /\ UNCHANGED <<circuitFailures, attempt>>

CircuitNext ==
    \/ \E c \in Calls : CallPi(c) \/ PiOk(c) \/ PiRefuses(c) \/ PiRetry(c) \/ PiGivesUp(c)
    \/ CircuitRestart \/ CircuitTick

CircuitSpec == CircuitInit /\ [][CircuitNext]_circuitVars /\ WF_circuitVars(CircuitTick)

-----------------------------------------------------------------------------
(* Properties *)

\* Every variable has its type.
CircuitTypeOK ==
    /\ circuitFailures \in 0..Threshold /\ circuitOpen \in 0..OpenTicks
    /\ attempt \in [Calls -> 0..MaxRetries]

\* An open breaker lets calls through again, although failing calls that were
\* under way keep putting the time off, and refused clients go on trying.
BreakerCloses == circuitOpen > 0 ~> circuitOpen = 0
=============================================================================
