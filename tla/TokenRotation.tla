---------------------------- MODULE TokenRotation ----------------------------
(***************************************************************************)
(* buildAuthResponse, refreshToken and logout of auth.service.ts.  A       *)
(* refresh token is issued at a login; to refresh, it is looked up in a    *)
(* blacklist in Redis, put on it in a second command, and exchanged for an *)
(* access token; no new refresh token is issued.  Access tokens are left   *)
(* out: nothing looks for them in the blacklist, because the middleware    *)
(* that would is not installed.                                            *)
(***************************************************************************)
EXTENDS Integers, FiniteSets

CONSTANTS
    TokenRequests,  \* request slots
    Tokens,         \* refresh tokens; bound: a new one needs a name not in use
    NoToken         \* no token

ASSUME TokenAssumption == NoToken \notin Tokens

VARIABLES
    redisOn,     \* REDIS_URL is set
    sameSecret,  \* JWT_REFRESH_SECRET is not set: one secret signs both kinds
    live,        \* refresh tokens that have not expired
    blacklist,   \* tokens with an entry that lasts as long as they do
    shortlist,   \* tokens with an entry of FALLBACK_TTL, which ends before them
    used,        \* history: refreshes a token was good for: 0, 1, 2 for more
    loggedOut,   \* history: tokens that were logged out
    tokenExcused,     \* history: tokens with refreshes that overlapped or a lost entry
    tokenReq     \* what each running refresh is doing

tokenVars == <<redisOn, sameSecret, live, blacklist, shortlist, used, loggedOut, tokenExcused, tokenReq>>
tokenConfig == <<redisOn, sameSecret>>

\* late: the token was logged out before the request came
TokenStep(pc, t, late) == [pc |-> pc, token |-> t, late |-> late]
TokenIdle == TokenStep("idle", NoToken, FALSE)

TokenInit ==
    /\ redisOn \in BOOLEAN /\ sameSecret \in BOOLEAN
    /\ live = {}
    /\ blacklist = {} /\ shortlist = {}
    /\ used = [t \in Tokens |-> 0]
    /\ loggedOut = {} /\ tokenExcused = {}
    /\ tokenReq = [r \in TokenRequests |-> TokenIdle]

TokenAt(r, pc) == tokenReq[r].pc = pc
StartToken(r, step) == tokenReq' = [tokenReq EXCEPT ![r] = step]
EndToken(r) == tokenReq' = [tokenReq EXCEPT ![r] = TokenIdle]

\* buildAuthResponse, after a login
IssueToken(t) ==
    /\ t \notin live /\ \A r \in TokenRequests : tokenReq[r].token # t   \* bound
    /\ live' = live \cup {t}
    /\ used' = [used EXCEPT ![t] = 0]
    /\ loggedOut' = loggedOut \ {t} /\ tokenExcused' = tokenExcused \ {t}
    /\ UNCHANGED <<tokenConfig, blacklist, shortlist, tokenReq>>

\* verify, and GET of the blacklist if there is a Redis
Refresh(r, t) ==
    /\ TokenAt(r, "idle") /\ t \in live
    /\ redisOn => t \notin blacklist \cup shortlist
    /\ StartToken(r, TokenStep(IF redisOn THEN "set" ELSE "sign", t, t \in loggedOut))
    /\ tokenExcused' = IF \E s \in TokenRequests : TokenAt(s, "set") /\ tokenReq[s].token = t
                  THEN tokenExcused \cup {t} ELSE tokenExcused
    /\ UNCHANGED <<tokenConfig, live, blacklist, shortlist, used, loggedOut>>

\* Fault: the entry is kept for FALLBACK_TTL
SetBlacklistShort(r) ==
    /\ TokenAt(r, "set")
    /\ shortlist' = shortlist \cup {tokenReq[r].token}
    /\ StartToken(r, TokenStep("sign", tokenReq[r].token, tokenReq[r].late))
    /\ UNCHANGED <<tokenConfig, live, blacklist, used, loggedOut, tokenExcused>>

\* SETEX for the time that is left, over an entry that may be there; none if the
\* token has expired meanwhile
SetBlacklist(r) ==
    /\ TokenAt(r, "set")
    /\ blacklist' = blacklist \cup ({tokenReq[r].token} \cap live)
    /\ shortlist' = shortlist \ {tokenReq[r].token}
    /\ StartToken(r, TokenStep("sign", tokenReq[r].token, tokenReq[r].late))
    /\ UNCHANGED <<tokenConfig, live, used, loggedOut, tokenExcused>>

\* The user is found and gets an access token
SignToken(r) ==
    /\ TokenAt(r, "sign")
    /\ used' = [used EXCEPT ![tokenReq[r].token] = IF @ < 2 THEN @ + 1 ELSE @]
    /\ EndToken(r)
    /\ UNCHANGED <<tokenConfig, live, blacklist, shortlist, loggedOut, tokenExcused>>

\* Redis or the database fails, the user is not found, or the process ends
FailRefresh(r) ==
    /\ ~TokenAt(r, "idle")
    /\ EndToken(r)
    /\ UNCHANGED <<tokenConfig, live, blacklist, shortlist, used, loggedOut, tokenExcused>>

\* logout with a refresh token.  It is verified with the other secret if there
\* are two, which fails; then its entry is a short one, over a longer one too.
\* Without Redis, or if it fails, nothing happens.
Logout(t) ==
    /\ redisOn /\ t \in live
    /\ blacklist' = IF sameSecret THEN blacklist \cup {t} ELSE blacklist \ {t}
    /\ shortlist' = IF sameSecret THEN shortlist ELSE shortlist \cup {t}
    /\ loggedOut' = loggedOut \cup {t}
    /\ UNCHANGED <<tokenConfig, live, used, tokenExcused, tokenReq>>

-----------------------------------------------------------------------------

\* A token and its entry expire together
ExpireToken(t) ==
    /\ t \in live
    /\ live' = live \ {t} /\ blacklist' = blacklist \ {t} /\ shortlist' = shortlist \ {t}
    /\ UNCHANGED <<tokenConfig, used, loggedOut, tokenExcused, tokenReq>>

\* FALLBACK_TTL is over
ExpireShort(t) ==
    /\ t \in shortlist
    /\ shortlist' = shortlist \ {t}
    /\ tokenExcused' = IF t \in loggedOut THEN tokenExcused \cup {t} ELSE tokenExcused
    /\ UNCHANGED <<tokenConfig, live, blacklist, used, loggedOut, tokenReq>>

\* Redis comes back without its data
BlacklistLost ==
    /\ blacklist \cup shortlist # {}
    /\ tokenExcused' = tokenExcused \cup blacklist \cup shortlist
    /\ blacklist' = {} /\ shortlist' = {}
    /\ UNCHANGED <<tokenConfig, live, used, loggedOut, tokenReq>>

TokenNext ==
    \/ \E r \in TokenRequests :
        (\E t \in Tokens : Refresh(r, t)) \/ SetBlacklist(r) \/ SignToken(r) \/ FailRefresh(r)
    \/ \E t \in Tokens : IssueToken(t) \/ Logout(t) \/ ExpireToken(t) \/ ExpireShort(t)
    \/ BlacklistLost

TokenSpec == TokenInit /\ [][TokenNext]_tokenVars

-----------------------------------------------------------------------------
(* Properties *)

\* Every variable has its type, and only live tokens have entries.
TokenTypeOK ==
    /\ redisOn \in BOOLEAN /\ sameSecret \in BOOLEAN
    /\ live \subseteq Tokens /\ blacklist \subseteq live /\ shortlist \subseteq live
    /\ used \in [Tokens -> 0..2] /\ loggedOut \subseteq Tokens /\ tokenExcused \subseteq Tokens
    /\ tokenReq \in [TokenRequests ->
           [pc: {"idle", "set", "sign"}, token: Tokens \cup {NoToken}, late: BOOLEAN]]
    /\ \A r \in TokenRequests : ~TokenAt(r, "idle") => tokenReq[r].token \in Tokens

\* With Redis, a refresh token is exchanged once, and not at all by a request
\* that comes after it was logged out; unless two of its refreshes overlapped
\* between GET and SETEX, Redis lost its data, or the short entry of a logout
\* ran out before the token.
RefreshedOnce ==
    redisOn => \A t \in Tokens \ tokenExcused :
        /\ used[t] <= 1
        /\ \A r \in TokenRequests : tokenReq[r].token = t => ~tokenReq[r].late
=============================================================================
