---------------------------- MODULE GatewayCache ----------------------------
(***************************************************************************)
(* cache.middleware.ts of the API gateway: a cache of answers to GET       *)
(* requests, built on the insertion order of a Map, and its periodic       *)
(* clean-up, which visits the keys while get moves them.  The clean-up is  *)
(* one turn of the event loop: nothing else happens until it ends, and it  *)
(* reads the clock once.  invalidateCache has no caller and is left out.   *)
(***************************************************************************)
EXTENDS Integers, SequencesExt

CONSTANTS
    Urls,           \* keys: method, path and query
    NoUrl,          \* no key
    MaxCacheSize,   \* MAX_CACHE_SIZE
    CacheRequests   \* request slots

ASSUME CacheAssumption == NoUrl \notin Urls /\ MaxCacheSize \in Nat \ {0}

VARIABLES
    cache,     \* the keys of the Map in its order
    fresh,     \* keys whose entry has not expired
    kept,      \* history: keys that were stored and not cleaned up since
    since,     \* history: other keys that were used since this key was
    missed,    \* key that a running request has missed
    cleaning,  \* the clean-up runs
    ahead,     \* keys it will still visit, as the Map stands
    visit      \* history: changes with every key it visits, so that each visit is a step

cacheVars == <<cache, fresh, kept, since, missed, cleaning, ahead, visit>>

CacheInit ==
    /\ cache = << >> /\ fresh = {}
    /\ kept = {} /\ since = [k \in Urls |-> {}]
    /\ missed = [r \in CacheRequests |-> NoUrl]
    /\ cleaning = FALSE /\ ahead = << >> /\ visit = FALSE

\* Key k is used
Use(k) == since' = [j \in Urls |-> IF j = k \/ j \notin kept' THEN {} ELSE since[j] \cup {k}]

\* Map.delete: the other keys stay in order
Without(s, k) ==
    IF k \in ToSet(s) THEN RemoveAt(s, CHOOSE i \in DOMAIN s : s[i] = k) ELSE s

\* LRUCache.get of a key that is there: delete and set it
Touch(k) ==
    /\ cache' = Append(Without(cache, k), k)
    /\ kept' = kept
    /\ Use(k)

\* Fault: get leaves the order alone
CacheHitInPlace(r, k) ==
    /\ ~cleaning /\ missed[r] = NoUrl /\ k \in ToSet(cache)
    /\ cache' = cache /\ kept' = kept /\ Use(k)
    /\ missed' = [missed EXCEPT ![r] = IF k \in fresh THEN NoUrl ELSE k]
    /\ UNCHANGED <<fresh, cleaning, ahead, visit>>

\* An entry is found; it answers the request unless it has expired
CacheHit(r, k) ==
    /\ ~cleaning /\ missed[r] = NoUrl /\ k \in ToSet(cache)
    /\ Touch(k)
    /\ missed' = [missed EXCEPT ![r] = IF k \in fresh THEN NoUrl ELSE k]
    /\ UNCHANGED <<fresh, cleaning, ahead, visit>>

CacheMiss(r, k) ==
    /\ ~cleaning /\ missed[r] = NoUrl /\ k \notin ToSet(cache)
    /\ missed' = [missed EXCEPT ![r] = k]
    /\ UNCHANGED <<cache, fresh, kept, since, cleaning, ahead, visit>>

\* The map after set: the oldest key goes if it is full
Stored(k) ==
    LET rest == Without(cache, k) IN
        Append(IF Len(rest) >= MaxCacheSize THEN Tail(rest) ELSE rest, k)

\* The answer has status 200
CacheStore(r) ==
    /\ ~cleaning /\ missed[r] # NoUrl
    /\ cache' = Stored(missed[r])
    /\ fresh' = (fresh \cup {missed[r]}) \cap ToSet(cache')
    /\ kept' = kept \cup {missed[r]}
    /\ Use(missed[r])
    /\ missed' = [missed EXCEPT ![r] = NoUrl]
    /\ UNCHANGED <<cleaning, ahead, visit>>

\* It has another status, or none comes
CacheSkip(r) ==
    /\ ~cleaning /\ missed[r] # NoUrl
    /\ missed' = [missed EXCEPT ![r] = NoUrl]
    /\ UNCHANGED <<cache, fresh, kept, since, cleaning, ahead, visit>>

ExpireEntry(k) ==
    /\ ~cleaning /\ k \in fresh
    /\ fresh' = fresh \ {k}
    /\ UNCHANGED <<cache, kept, since, missed, cleaning, ahead, visit>>

\* The timer calls the clean-up
StartCleanup ==
    /\ ~cleaning
    /\ cleaning' = TRUE /\ ahead' = cache
    /\ UNCHANGED <<cache, fresh, kept, since, missed, visit>>

\* The next key of the iterator.  get has moved it to the end of the Map, where
\* the iterator will find it again, unless it is deleted.
VisitKey ==
    /\ cleaning /\ ahead # << >>
    /\ LET k == Head(ahead) IN
           IF k \in fresh
           THEN Touch(k) /\ ahead' = Append(Tail(ahead), k)
           ELSE /\ cache' = Without(cache, k)
                /\ kept' = kept \ {k}
                /\ Use(k)
                /\ ahead' = Tail(ahead)
    /\ visit' = ~visit
    /\ UNCHANGED <<fresh, missed, cleaning>>

EndCleanup ==
    /\ cleaning /\ ahead = << >>
    /\ cleaning' = FALSE
    /\ UNCHANGED <<cache, fresh, kept, since, missed, ahead, visit>>

CacheNext ==
    \/ \E r \in CacheRequests :
        (\E k \in Urls : CacheHit(r, k) \/ CacheMiss(r, k)) \/ CacheStore(r) \/ CacheSkip(r)
    \/ \E k \in Urls : ExpireEntry(k)
    \/ StartCleanup \/ VisitKey \/ EndCleanup

\* The loop of the clean-up goes on until it ends
CacheSpec == CacheInit /\ [][CacheNext]_cacheVars /\ WF_cacheVars(VisitKey \/ EndCleanup)

-----------------------------------------------------------------------------
(* Properties *)

\* Every variable has its type, the Map names no key twice and what expires is in it.
CacheTypeOK ==
    /\ cache \in Seq(Urls) /\ IsInjective(cache)
    /\ fresh \subseteq ToSet(cache) /\ kept \subseteq Urls
    /\ since \in [Urls -> SUBSET Urls]
    /\ missed \in [CacheRequests -> Urls \cup {NoUrl}]
    /\ cleaning \in BOOLEAN /\ ahead \in Seq(Urls) /\ visit \in BOOLEAN

\* The cache is bounded, and it drops the least recently used key: one that fewer
\* than MaxCacheSize others were used after is there, unless it was cleaned up.
LeastRecentGoes ==
    /\ Len(cache) <= MaxCacheSize
    /\ \A k \in kept : Cardinality(since[k]) < MaxCacheSize => k \in ToSet(cache)

\* The periodic clean-up (cache.middleware.ts:61) comes to an end.
CleanupEnds == cleaning ~> ~cleaning
=============================================================================
