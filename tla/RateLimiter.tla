----------------------------- MODULE RateLimiter -----------------------------
(***************************************************************************)
(* rate-limit.middleware.ts of the payment service, of which the wallet    *)
(* service has a copy, for one client.  The key names the client, not the  *)
(* route: the limiters of all routes count into one window, and each       *)
(* compares the count with a limit of its own.  A window starts with the   *)
(* first request after the last one ended; time is counted in ticks.  The  *)
(* Lua script and the Map of InMemoryStore do the same to the counter.     *)
(***************************************************************************)
EXTENDS Integers, FiniteSetsExt

CONSTANTS
    Routes,  \* routes that have a limiter
    Limit,   \* per route, the requests it admits in a window
    Window   \* length of a window in ticks

\* The largest limit; bound: the count is not followed beyond the next number
TopLimit == Max({Limit[t] : t \in Routes})

ASSUME LimiterAssumption ==
    /\ Limit \in [Routes -> Nat \ {0}] /\ Window \in Nat \ {0}
    /\ \E t \in Routes : \A u \in Routes : Limit[u] <= Limit[t]   \* a few routes

VARIABLES
    count,     \* requests counted in the window
    left,      \* ticks until the window ends, 0 if there is none
    admitted   \* history: per route, the requests let pass in the window by its
               \* limiter and by those with the same or a smaller limit

limitVars == <<count, left, admitted>>

LimitInit == count = 0 /\ left = 0 /\ admitted = [t \in Routes |-> 0]

\* increment: a counted request of route t
Count == count' = IF count <= TopLimit THEN count + 1 ELSE count
Note(t, ok) ==
    admitted' = [u \in Routes |->
        IF ok /\ Limit[t] <= Limit[u] THEN admitted[u] + 1 ELSE admitted[u]]

\* Fault: one request too many passes
HitOneMore(t) ==
    /\ Count
    /\ left' = IF left = 0 THEN Window ELSE left
    /\ Note(t, count <= Limit[t])

\* Fault: every request sets the time to live
HitProlongs(t) ==
    /\ Count
    /\ left' = Window
    /\ Note(t, count < Limit[t])

\* A request is counted, the first one sets the time to live, and those above
\* the limit are answered with 429.  If the store throws, the request passes
\* uncounted, and nothing changes.
Hit(t) ==
    /\ Count
    /\ left' = IF left = 0 THEN Window ELSE left
    /\ Note(t, count < Limit[t])

\* Time passes, and the window may end
LimitTick ==
    /\ left > 0
    /\ left' = left - 1
    /\ IF left = 1
       THEN count' = 0 /\ admitted' = [t \in Routes |-> 0]
       ELSE UNCHANGED <<count, admitted>>

LimitNext == (\E t \in Routes : Hit(t)) \/ LimitTick

LimitSpec == LimitInit /\ [][LimitNext]_limitVars /\ WF_limitVars(LimitTick)

-----------------------------------------------------------------------------
(* Properties *)

\* Every variable has its type, and requests are counted in a window only.
LimitTypeOK ==
    /\ count \in 0..TopLimit + 1 /\ left \in 0..Window
    /\ admitted \in [Routes -> Nat]
    /\ left = 0 <=> count = 0

\* The limiters share one count: all those with a limit of at most n let pass,
\* taken together, no more than n counted requests in a window.
AdmittedWithinLimit == \A t \in Routes : admitted[t] <= Limit[t]

\* A client that was refused is let in again when the window ends, even if it
\* goes on trying all the time.
RefusedRecovers == \A t \in Routes : count > Limit[t] ~> count = 0
=============================================================================
