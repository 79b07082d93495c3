------------------------------- MODULE MCGuards -------------------------------
(***************************************************************************)
(* What stands in front of the handlers, side by side.  The middlewares,   *)
(* the breaker and the token check keep their state apart, so their steps  *)
(* are independent, and a behaviour follows one, chosen at the start.      *)
(***************************************************************************)
EXTENDS IdempotencyStore, RateLimiter, PiCircuit, TokenRotation, GatewayCache

VARIABLE focus   \* the part that is followed

Guards == {"idempotency", "limiter", "circuit", "tokens", "cache"}

MCInit ==
    /\ focus \in Guards
    /\ IdemInit /\ LimitInit /\ CircuitInit /\ TokenInit /\ CacheInit
    /\ focus # "idempotency" => backend = "redis"
    /\ focus # "tokens" => redisOn /\ sameSecret

FollowIdempotency ==
    focus = "idempotency" /\ IdemNext /\ UNCHANGED <<focus, limitVars, circuitVars, tokenVars, cacheVars>>
FollowLimiter(Next) ==
    focus = "limiter" /\ Next /\ UNCHANGED <<focus, idemVars, circuitVars, tokenVars, cacheVars>>
FollowCircuit(Next) ==
    focus = "circuit" /\ Next /\ UNCHANGED <<focus, idemVars, limitVars, tokenVars, cacheVars>>
FollowTokens ==
    focus = "tokens" /\ TokenNext /\ UNCHANGED <<focus, idemVars, limitVars, circuitVars, cacheVars>>
FollowCache ==
    focus = "cache" /\ CacheNext /\ UNCHANGED <<focus, idemVars, limitVars, circuitVars, tokenVars>>

MCNext ==
    FollowIdempotency \/ FollowLimiter(LimitNext) \/ FollowCircuit(CircuitNext)
        \/ FollowTokens \/ FollowCache

MCVars == <<focus, idemVars, limitVars, circuitVars, tokenVars, cacheVars>>

\* Time passes for the limiter and for the breaker
MCSpec ==
    /\ MCInit /\ [][MCNext]_MCVars
    /\ WF_MCVars(FollowLimiter(LimitTick)) /\ WF_MCVars(FollowCircuit(CircuitTick))

\* Every variable of every part has its type.
GuardsTypeOK == IdemTypeOK /\ LimitTypeOK /\ CircuitTypeOK /\ TokenTypeOK /\ CacheTypeOK

MCLimit == [approve |-> 2, complete |-> 3]
=============================================================================
