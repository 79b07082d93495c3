-------------------------- MODULE IdempotencyStore --------------------------
(***************************************************************************)
(* idempotency.middleware.ts of the payment service.  The middleware looks *)
(* the key up, lets the handler run if there is no answer, and stores the  *)
(* handler's answer while it is sent, without waiting.  The store is Redis *)
(* (SET NX, shared by all processes) or, without REDIS_URL, a Map of the   *)
(* process, modelled for a single one.  An answer, whatever its status     *)
(* code, is known by the run of the handler that gave it.                  *)
(***************************************************************************)
EXTENDS Integers, FiniteSets

CONSTANTS
    IdemRequests,  \* request slots
    Keys,          \* pairs of a user and an Idempotency-Key
    Answers,       \* bound: a run of the handler needs a name that is not in use
    NoAnswer       \* no answer

ASSUME IdempotencyAssumption == NoAnswer \notin Answers

VARIABLES
    backend,   \* which store the process was started with
    stored,    \* the answer stored for a key
    runs,      \* history: how often the handler was run for a key: 0, 1, 2 for more
    replayed,  \* history: the last answer replayed since the key was free
    idemExcused,   \* history: keys whose request failed half-way, or overlapped or
               \* outlived another one
    idemReq    \* what each running request is doing

idemVars == <<backend, stored, runs, replayed, idemExcused, idemReq>>

IdemStep(pc, k, run) == [pc |-> pc, key |-> k, run |-> run]
NoKey == "none"
IdemIdle == IdemStep("idle", NoKey, NoAnswer)

IdemInit ==
    /\ backend \in {"redis", "memory"}
    /\ stored = [k \in Keys |-> NoAnswer]
    /\ runs = [k \in Keys |-> 0]
    /\ replayed = [k \in Keys |-> NoAnswer]
    /\ idemExcused = {}
    /\ idemReq = [r \in IdemRequests |-> IdemIdle]

IdemAt(r, pc) == idemReq[r].pc = pc
StartIdem(r, step) == idemReq' = [idemReq EXCEPT ![r] = step]
EndIdem(r) == idemReq' = [idemReq EXCEPT ![r] = IdemIdle]
Excuse(k, b) == idemExcused' = IF b THEN idemExcused \cup {k} ELSE idemExcused

\* _store.get and no answer: next() runs the handler
Miss(r, k, a) ==
    /\ IdemAt(r, "idle") /\ stored[k] = NoAnswer
    /\ \A j \in Keys : a # stored[j]                        \* bound
    /\ \A s \in IdemRequests : a # idemReq[s].run          \* bound
    /\ runs' = [runs EXCEPT ![k] = IF @ < 2 THEN @ + 1 ELSE @]
    /\ StartIdem(r, IdemStep("handle", k, a))
    /\ Excuse(k, \E s \in IdemRequests : idemReq[s].key = k)
    /\ UNCHANGED <<backend, stored, replayed>>

\* Cache hit: the stored answer is sent again
Replay(r, k) ==
    /\ IdemAt(r, "idle") /\ stored[k] # NoAnswer
    /\ replayed' = [replayed EXCEPT ![k] = stored[k]]
    /\ UNCHANGED <<backend, stored, runs, idemExcused, idemReq>>

\* The handler calls res.json: the Map is written at once, Redis later
Answer(r) ==
    /\ IdemAt(r, "handle")
    /\ LET q == idemReq[r] IN
           IF backend = "memory"
           THEN stored' = [stored EXCEPT ![q.key] = q.run] /\ EndIdem(r)
           ELSE stored' = stored /\ StartIdem(r, IdemStep("store", q.key, q.run))
    /\ UNCHANGED <<backend, runs, replayed, idemExcused>>

\* Fault: SET without NX
StoreAnswerAnyway(r) ==
    /\ IdemAt(r, "store")
    /\ LET q == idemReq[r] IN stored' = [stored EXCEPT ![q.key] = q.run]
    /\ EndIdem(r)
    /\ UNCHANGED <<backend, runs, replayed, idemExcused>>

\* Fault: the time to live comes out as 0, and nothing is written
StoreAnswerExpired(r) ==
    /\ IdemAt(r, "store")
    /\ EndIdem(r)
    /\ UNCHANGED <<backend, stored, runs, replayed, idemExcused>>

\* RedisIdempotencyStore.set: SET NX
StoreAnswer(r) ==
    /\ IdemAt(r, "store")
    /\ LET q == idemReq[r] IN
           stored' = [stored EXCEPT ![q.key] = IF @ = NoAnswer THEN q.run ELSE @]
    /\ EndIdem(r)
    /\ UNCHANGED <<backend, runs, replayed, idemExcused>>

\* The write to Redis fails, which is logged, or the process ends
LoseAnswer(r) ==
    /\ ~IdemAt(r, "idle")
    /\ Excuse(idemReq[r].key, TRUE) /\ EndIdem(r)
    /\ UNCHANGED <<backend, stored, runs, replayed>>

\* IDEMPOTENCY_TTL_MS after it was given, an answer is gone; also when the store
\* loses its data
ExpireAnswer(k) ==
    /\ stored[k] # NoAnswer
    /\ stored' = [stored EXCEPT ![k] = NoAnswer]
    /\ replayed' = [replayed EXCEPT ![k] = NoAnswer]
    /\ Excuse(k, TRUE)
    /\ UNCHANGED <<backend, runs, idemReq>>

IdemNext ==
    \/ \E r \in IdemRequests :
        \/ \E k \in Keys : Replay(r, k) \/ \E a \in Answers : Miss(r, k, a)
        \/ Answer(r) \/ StoreAnswer(r) \/ LoseAnswer(r)
    \/ \E k \in Keys : ExpireAnswer(k)

IdemSpec == IdemInit /\ [][IdemNext]_idemVars

-----------------------------------------------------------------------------
(* Properties *)

\* Every variable has its type, and a request at work has a key and a run.
IdemTypeOK ==
    /\ backend \in {"redis", "memory"}
    /\ stored \in [Keys -> Answers \cup {NoAnswer}] /\ runs \in [Keys -> 0..2]
    /\ replayed \in [Keys -> Answers \cup {NoAnswer}] /\ idemExcused \subseteq Keys
    /\ idemReq \in [IdemRequests ->
           [pc: {"idle", "handle", "store"}, key: Keys \cup {NoKey}, run: Answers \cup {NoAnswer}]]
    /\ \A r \in IdemRequests :
           ~IdemAt(r, "idle") => idemReq[r].key \in Keys /\ idemReq[r].run \in Answers

\* A key's handler runs twice only if two requests overlapped, one of them did
\* not get as far as storing its answer, or the answer has expired.
OneRunPerKey == \A k \in Keys \ idemExcused : runs[k] <= 1

\* With Redis, two replayed answers of a key never differ while one is kept, also
\* if several handlers ran.  A client whose request overlapped another's keeps the
\* answer of its own handler, which may be a different one.
ReplaysAgree ==
    backend = "redis" =>
        \A k \in Keys : replayed[k] # NoAnswer => stored[k] = replayed[k]
=============================================================================
