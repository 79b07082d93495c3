---------------------------- MODULE Guards_proofs ----------------------------
(***************************************************************************)
(* Proofs about what stands in front of the handlers, for any keys,        *)
(* answers, tokens, routes, limits, cached keys and requests.              *)
(***************************************************************************)
EXTENDS MCGuards, FiniteSetTheorems, SequenceTheorems, TLAPS

-----------------------------------------------------------------------------
(* IdempotencyStore                                                          *)

AnswersOrNone == Answers \cup {NoAnswer}
IdemSteps == [pc: {"idle", "handle", "store"}, key: Keys \cup {NoKey}, run: AnswersOrNone]

\* Request r works on key k.
Busy(r, k) == idemReq[r].pc # "idle" /\ idemReq[r].key = k

\* A key that nothing excuses has one request at work at most; its handler has
\* run at most once, and not yet if there is neither a request nor an answer.
OneAtATime ==
    \A k \in Keys \ idemExcused :
        /\ \A r, s \in IdemRequests : Busy(r, k) /\ Busy(s, k) => r = s
        /\ stored[k] = NoAnswer /\ (\A r \in IdemRequests : ~Busy(r, k)) => runs[k] = 0

IdemInv == IdemTypeOK /\ OneRunPerKey /\ ReplaysAgree /\ OneAtATime

\* The types of what is stored.
LEMMA IdemTypes ==
    ASSUME IdemInv
    PROVE  /\ idemReq \in [IdemRequests -> IdemSteps]
           /\ stored \in [Keys -> AnswersOrNone] /\ replayed \in [Keys -> AnswersOrNone]
           /\ runs \in [Keys -> 0..2] /\ idemExcused \subseteq Keys
           /\ \A r \in IdemRequests :
                  /\ idemReq[r].pc \in {"idle", "handle", "store"}
                  /\ idemReq[r].pc # "idle" => idemReq[r].key \in Keys /\ idemReq[r].run \in Answers
  BY DEF IdemInv, IdemTypeOK, IdemSteps, AnswersOrNone, IdemAt

\* The slot of a request that starts or goes on.
LEMMA IdemSlot ==
    ASSUME idemReq \in [IdemRequests -> IdemSteps], NEW r \in IdemRequests,
           NEW pc \in {"idle", "handle", "store"}, NEW k \in Keys \cup {NoKey},
           NEW a \in AnswersOrNone, StartIdem(r, IdemStep(pc, k, a))
    PROVE  /\ idemReq' \in [IdemRequests -> IdemSteps]
           /\ idemReq'[r].pc = pc /\ idemReq'[r].key = k /\ idemReq'[r].run = a
           /\ \A s \in IdemRequests : s # r => idemReq'[s] = idemReq[s]
  <1> DEFINE v == IdemStep(pc, k, a)
  <1>1. v \in IdemSteps /\ v.pc = pc /\ v.key = k /\ v.run = a
    BY DEF IdemSteps, IdemStep
  <1>2. idemReq' = [idemReq EXCEPT ![r] = v]
    BY DEF StartIdem
  <1> HIDE DEF v
  <1>3. idemReq' \in [IdemRequests -> IdemSteps] /\ idemReq'[r] = v
    BY <1>1, <1>2
  <1>4. \A s \in IdemRequests : s # r => idemReq'[s] = idemReq[s]
    BY <1>2
  <1>5. QED BY <1>1, <1>3, <1>4

\* The slot of a request that ends.
LEMMA IdemEndSlot ==
    ASSUME idemReq \in [IdemRequests -> IdemSteps], NEW r \in IdemRequests, EndIdem(r)
    PROVE  /\ idemReq' \in [IdemRequests -> IdemSteps] /\ idemReq'[r].pc = "idle"
           /\ \A s \in IdemRequests : s # r => idemReq'[s] = idemReq[s]
  <1>1. StartIdem(r, IdemStep("idle", NoKey, NoAnswer))
    BY DEF EndIdem, IdemIdle, StartIdem
  <1>2. NoAnswer \in AnswersOrNone
    BY DEF AnswersOrNone
  <1>3. QED BY <1>1, <1>2, IdemSlot

\* The type invariant of the next state, put together.
LEMMA IdemNextTypes ==
    ASSUME backend' \in {"redis", "memory"}, idemReq' \in [IdemRequests -> IdemSteps],
           stored' \in [Keys -> AnswersOrNone], replayed' \in [Keys -> AnswersOrNone],
           runs' \in [Keys -> 0..2], idemExcused' \subseteq Keys,
           \A r \in IdemRequests :
               idemReq'[r].pc # "idle" => idemReq'[r].key \in Keys /\ idemReq'[r].run \in Answers
    PROVE  IdemTypeOK'
  BY DEF IdemTypeOK, IdemSteps, AnswersOrNone, IdemAt

\* A handler starts: the first one for its key, or the key is excused.
LEMMA MissInv ==
    ASSUME IdemInv, NEW r \in IdemRequests, NEW k \in Keys, NEW a \in Answers, Miss(r, k, a)
    PROVE  IdemInv'
  <1>1. /\ idemReq' \in [IdemRequests -> IdemSteps]
        /\ idemReq'[r].pc = "handle" /\ idemReq'[r].key = k /\ idemReq'[r].run = a
        /\ \A s \in IdemRequests : s # r => idemReq'[s] = idemReq[s]
    <2>1. a \in AnswersOrNone /\ k \in Keys \cup {NoKey}
      BY DEF AnswersOrNone
    <2>2. idemReq \in [IdemRequests -> IdemSteps] /\ StartIdem(r, IdemStep("handle", k, a))
      BY IdemTypes DEF Miss
    <2>3. QED BY <2>1, <2>2, IdemSlot
  <1>2. /\ stored' = stored /\ replayed' = replayed /\ backend' = backend
        /\ stored[k] = NoAnswer /\ idemReq[r].pc = "idle"
        /\ runs' = [runs EXCEPT ![k] = IF @ < 2 THEN @ + 1 ELSE @]
        /\ idemExcused' = IF \E s \in IdemRequests : idemReq[s].key = k
                          THEN idemExcused \cup {k} ELSE idemExcused
    BY DEF Miss, Excuse, IdemAt
  <1>3. /\ runs' \in [Keys -> 0..2] /\ (runs[k] = 0 => runs'[k] = 1)
        /\ \A j \in Keys : j # k => runs'[j] = runs[j]
    BY <1>2, IdemTypes
  <1>4. IdemTypeOK'
    BY <1>1, <1>2, <1>3, IdemTypes, IdemNextTypes DEF IdemInv, IdemTypeOK
  <1>5. ASSUME NEW j \in Keys \ idemExcused', j # k
        PROVE  /\ runs'[j] <= 1
               /\ \A s, t \in IdemRequests : Busy(s, j)' /\ Busy(t, j)' => s = t
               /\ stored'[j] = NoAnswer /\ (\A s \in IdemRequests : ~Busy(s, j)') => runs'[j] = 0
    <2>1. j \in Keys \ idemExcused
      BY <1>2, <1>5
    <2>2. \A s \in IdemRequests : Busy(s, j)' <=> Busy(s, j)
      BY <1>1, <1>2, <1>5 DEF Busy
    <2>3. /\ runs[j] <= 1 /\ \A s, t \in IdemRequests : Busy(s, j) /\ Busy(t, j) => s = t
          /\ stored[j] = NoAnswer /\ (\A s \in IdemRequests : ~Busy(s, j)) => runs[j] = 0
      BY <2>1 DEF IdemInv, OneRunPerKey, OneAtATime
    <2>4. runs'[j] = runs[j]
      BY <1>3, <1>5
    <2>5. QED BY <1>2, <2>2, <2>3, <2>4
  <1>6. ASSUME k \notin idemExcused'
        PROVE  /\ runs'[k] <= 1
               /\ \A s, t \in IdemRequests : Busy(s, k)' /\ Busy(t, k)' => s = t
               /\ ~(\A s \in IdemRequests : ~Busy(s, k)')
    <2>1. k \notin idemExcused /\ \A s \in IdemRequests : ~Busy(s, k)
      BY <1>2, <1>6 DEF Busy
    <2>2. runs[k] = 0
      BY <1>2, <2>1 DEF IdemInv, OneAtATime
    <2>3. Busy(r, k)' /\ \A s \in IdemRequests : s # r => ~Busy(s, k)'
      BY <1>1, <2>1 DEF Busy
    <2>4. QED BY <1>3, <2>2, <2>3
  <1>7. OneRunPerKey' /\ OneAtATime'
    BY <1>5, <1>6 DEF OneRunPerKey, OneAtATime
  <1>8. ReplaysAgree'
    BY <1>2 DEF IdemInv, ReplaysAgree
  <1>9. QED BY <1>4, <1>7, <1>8 DEF IdemInv

\* A stored answer is sent again.
LEMMA ReplayInv ==
    ASSUME IdemInv, NEW r \in IdemRequests, NEW k \in Keys, Replay(r, k)
    PROVE  IdemInv'
  <1>1. /\ stored' = stored /\ runs' = runs /\ backend' = backend /\ idemReq' = idemReq
        /\ idemExcused' = idemExcused /\ replayed' = [replayed EXCEPT ![k] = stored[k]]
    BY DEF Replay
  <1>2. /\ replayed' \in [Keys -> AnswersOrNone] /\ replayed'[k] = stored[k]
        /\ \A j \in Keys : j # k => replayed'[j] = replayed[j]
    BY <1>1, IdemTypes
  <1>3. IdemTypeOK'
    BY <1>1, <1>2 DEF IdemInv, IdemTypeOK, IdemAt, AnswersOrNone
  <1>4. OneRunPerKey' /\ OneAtATime'
    BY <1>1 DEF IdemInv, OneRunPerKey, OneAtATime, Busy
  <1>5. ReplaysAgree'
    BY <1>1, <1>2 DEF IdemInv, ReplaysAgree
  <1>6. QED BY <1>3, <1>4, <1>5 DEF IdemInv

\* A request ends: with its answer stored unless one was, or its key is excused.
LEMMA EndIdemInv ==
    ASSUME IdemInv, NEW r \in IdemRequests, EndIdem(r), NEW k \in Keys, Busy(r, k),
           backend' = backend, runs' = runs, replayed' = replayed,
           stored' \in [Keys -> AnswersOrNone],
           \A j \in Keys : j # k => stored'[j] = stored[j],
           \/ k \in idemExcused' /\ stored' = stored
           \/ stored'[k] # NoAnswer /\ (backend = "redis" /\ stored[k] # NoAnswer => stored'[k] = stored[k]),
           idemExcused \subseteq idemExcused', idemExcused' \subseteq Keys
    PROVE  IdemInv'
  <1>1. /\ idemReq' \in [IdemRequests -> IdemSteps] /\ idemReq'[r].pc = "idle"
        /\ \A s \in IdemRequests : s # r => idemReq'[s] = idemReq[s]
    BY IdemTypes, IdemEndSlot
  <1>2. IdemTypeOK'
    BY <1>1, IdemTypes, IdemNextTypes DEF IdemInv, IdemTypeOK
  <1>3. OneRunPerKey'
    BY DEF IdemInv, OneRunPerKey
  <1>4. \A s \in IdemRequests, j \in Keys : Busy(s, j)' <=> s # r /\ Busy(s, j)
    BY <1>1 DEF Busy
  <1>5. \A j \in Keys : j # k => (Busy(r, j) <=> FALSE)
    BY DEF Busy
  <1>6. OneAtATime'
    BY <1>4, <1>5 DEF IdemInv, OneAtATime
  <1>7. ReplaysAgree'
    BY IdemTypes DEF IdemInv, ReplaysAgree
  <1>8. QED BY <1>2, <1>3, <1>6, <1>7 DEF IdemInv

\* The other steps.
LEMMA IdemRestInv ==
    ASSUME IdemInv,
           \/ \E r \in IdemRequests : Answer(r) \/ StoreAnswer(r) \/ LoseAnswer(r)
           \/ \E k \in Keys : ExpireAnswer(k)
    PROVE  IdemInv'
  <1>1. ASSUME NEW r \in IdemRequests, Answer(r), backend = "redis"
        PROVE  IdemInv'
    <2>1. PICK k \in Keys, a \in Answers : k = idemReq[r].key /\ a = idemReq[r].run /\ Busy(r, k)
      BY <1>1, IdemTypes DEF Answer, IdemAt, Busy
    <2>2. /\ StartIdem(r, IdemStep("store", k, a)) /\ backend' = backend /\ stored' = stored
          /\ runs' = runs /\ replayed' = replayed /\ idemExcused' = idemExcused
      BY <1>1, <2>1 DEF Answer
    <2>3. /\ idemReq' \in [IdemRequests -> IdemSteps]
          /\ idemReq'[r].pc = "store" /\ idemReq'[r].key = k /\ idemReq'[r].run = a
          /\ \A s \in IdemRequests : s # r => idemReq'[s] = idemReq[s]
      <3>1. a \in AnswersOrNone
        BY DEF AnswersOrNone
      <3>2. idemReq \in [IdemRequests -> IdemSteps]
        BY IdemTypes
      <3>3. QED BY <2>2, <3>1, <3>2, IdemSlot
    <2>4. IdemTypeOK'
      BY <2>2, <2>3, IdemTypes, IdemNextTypes DEF IdemInv, IdemTypeOK
    <2>5. \A s \in IdemRequests, j \in Keys : Busy(s, j)' <=> Busy(s, j)
      BY <2>1, <2>3 DEF Busy
    <2>6. OneRunPerKey' /\ OneAtATime' /\ ReplaysAgree'
      BY <2>2, <2>5 DEF IdemInv, OneRunPerKey, OneAtATime, ReplaysAgree
    <2>7. QED BY <2>4, <2>6 DEF IdemInv
  <1>2. ASSUME NEW r \in IdemRequests, Answer(r), backend # "redis"
        PROVE  IdemInv'
    <2>1. PICK k \in Keys, a \in Answers : k = idemReq[r].key /\ a = idemReq[r].run /\ Busy(r, k)
      BY <1>2, IdemTypes DEF Answer, IdemAt, Busy
    <2>2. backend = "memory"
      BY <1>2 DEF IdemInv, IdemTypeOK
    <2>3. /\ EndIdem(r) /\ backend' = backend /\ stored' = [stored EXCEPT ![k] = a]
          /\ runs' = runs /\ replayed' = replayed /\ idemExcused' = idemExcused
      BY <1>2, <2>1, <2>2 DEF Answer
    <2>4. /\ stored' \in [Keys -> AnswersOrNone] /\ stored'[k] = a /\ a # NoAnswer
          /\ \A j \in Keys : j # k => stored'[j] = stored[j]
      BY <2>3, IdemTypes, IdempotencyAssumption DEF AnswersOrNone
    <2>5. QED BY <1>2, <2>1, <2>3, <2>4, IdemTypes, EndIdemInv
  <1>3. ASSUME NEW r \in IdemRequests, StoreAnswer(r)
        PROVE  IdemInv'
    <2>1. PICK k \in Keys, a \in Answers : k = idemReq[r].key /\ a = idemReq[r].run /\ Busy(r, k)
      BY <1>3, IdemTypes DEF StoreAnswer, IdemAt, Busy
    <2>2. /\ EndIdem(r) /\ backend' = backend
          /\ stored' = [stored EXCEPT ![k] = IF @ = NoAnswer THEN a ELSE @]
          /\ runs' = runs /\ replayed' = replayed /\ idemExcused' = idemExcused
      BY <1>3, <2>1 DEF StoreAnswer
    <2>3. /\ stored' \in [Keys -> AnswersOrNone] /\ stored'[k] # NoAnswer
          /\ (stored[k] # NoAnswer => stored'[k] = stored[k])
          /\ \A j \in Keys : j # k => stored'[j] = stored[j]
      BY <2>2, IdemTypes, IdempotencyAssumption DEF AnswersOrNone
    <2>4. QED BY <2>1, <2>2, <2>3, IdemTypes, EndIdemInv
  <1>4. ASSUME NEW r \in IdemRequests, LoseAnswer(r)
        PROVE  IdemInv'
    <2>1. PICK k \in Keys : k = idemReq[r].key /\ Busy(r, k)
      BY <1>4, IdemTypes DEF LoseAnswer, IdemAt, Busy
    <2>2. /\ EndIdem(r) /\ backend' = backend /\ stored' = stored
          /\ runs' = runs /\ replayed' = replayed /\ idemExcused' = idemExcused \cup {k}
      BY <1>4, <2>1 DEF LoseAnswer, Excuse
    <2>3. QED BY <2>1, <2>2, IdemTypes, EndIdemInv
  <1>5. ASSUME NEW k \in Keys, ExpireAnswer(k)
        PROVE  IdemInv'
    <2>1. /\ backend' = backend /\ stored' = [stored EXCEPT ![k] = NoAnswer] /\ runs' = runs
          /\ replayed' = [replayed EXCEPT ![k] = NoAnswer] /\ idemExcused' = idemExcused \cup {k}
          /\ idemReq' = idemReq
      BY <1>5 DEF ExpireAnswer, Excuse
    <2>2. /\ stored' \in [Keys -> AnswersOrNone] /\ replayed' \in [Keys -> AnswersOrNone]
          /\ replayed'[k] = NoAnswer
          /\ \A j \in Keys : j # k => stored'[j] = stored[j] /\ replayed'[j] = replayed[j]
      BY <2>1, IdemTypes DEF AnswersOrNone
    <2>3. IdemTypeOK'
      BY <2>1, <2>2, IdemTypes, IdemNextTypes DEF IdemInv, IdemTypeOK
    <2>4. OneRunPerKey' /\ OneAtATime'
      BY <2>1, <2>2 DEF IdemInv, OneRunPerKey, OneAtATime, Busy
    <2>5. ReplaysAgree'
      BY <2>1, <2>2 DEF IdemInv, ReplaysAgree
    <2>6. QED BY <2>3, <2>4, <2>5 DEF IdemInv
  <1>6. QED BY <1>1, <1>2, <1>3, <1>4, <1>5

\* The inductive invariant holds in every reachable state.
LEMMA IdemInvariance == IdemSpec => []IdemInv
  <1>1. ASSUME IdemInit
        PROVE  IdemInv
    <2>1. /\ idemReq \in [IdemRequests -> IdemSteps] /\ \A r \in IdemRequests : idemReq[r].pc = "idle"
      BY <1>1 DEF IdemInit, IdemIdle, IdemStep, IdemSteps, AnswersOrNone
    <2>2. IdemTypeOK
      BY <1>1, <2>1 DEF IdemInit, IdemTypeOK, IdemSteps, AnswersOrNone, IdemAt
    <2>3. OneRunPerKey /\ ReplaysAgree /\ OneAtATime
      BY <1>1, <2>1 DEF IdemInit, OneRunPerKey, ReplaysAgree, OneAtATime, Busy
    <2>4. QED BY <2>2, <2>3 DEF IdemInv
  <1>2. ASSUME IdemInv, [IdemNext]_idemVars
        PROVE  IdemInv'
    <2>1. CASE UNCHANGED idemVars
      BY <1>2, <2>1 DEF idemVars, IdemInv, IdemTypeOK, OneRunPerKey, ReplaysAgree, OneAtATime, Busy, IdemAt
    <2>2. ASSUME NEW r \in IdemRequests, NEW k \in Keys, NEW a \in Answers, Miss(r, k, a)
          PROVE  IdemInv'
      BY <1>2, <2>2, MissInv
    <2>3. ASSUME NEW r \in IdemRequests, NEW k \in Keys, Replay(r, k)
          PROVE  IdemInv'
      BY <1>2, <2>3, ReplayInv
    <2>4. CASE \/ \E r \in IdemRequests : Answer(r) \/ StoreAnswer(r) \/ LoseAnswer(r)
               \/ \E k \in Keys : ExpireAnswer(k)
      BY <1>2, <2>4, IdemRestInv
    <2>5. QED BY <1>2, <2>1, <2>2, <2>3, <2>4 DEF IdemNext
  <1>3. QED BY <1>1, <1>2, PTL DEF IdemSpec

\* The idempotency store's variables keep their types.
THEOREM IdempotencyTypes == IdemSpec => []IdemTypeOK
  <1>1. IdemInv => IdemTypeOK
    BY DEF IdemInv
  <1>2. QED BY <1>1, IdemInvariance, PTL

\* A key's handler runs twice only if requests overlapped, failed half-way or
\* outlived the stored answer, for any number of keys and requests.
THEOREM HandlerRunsOnce == IdemSpec => []OneRunPerKey
  <1>1. IdemInv => OneRunPerKey
    BY DEF IdemInv
  <1>2. QED BY <1>1, IdemInvariance, PTL

\* With Redis, two replayed answers of one key never differ.
THEOREM ReplaysNeverDiffer == IdemSpec => []ReplaysAgree
  <1>1. IdemInv => ReplaysAgree
    BY DEF IdemInv
  <1>2. QED BY <1>1, IdemInvariance, PTL

-----------------------------------------------------------------------------
(* TokenRotation                                                             *)

TokenSteps == [pc: {"idle", "set", "sign"}, token: Tokens \cup {NoToken}, late: BOOLEAN]

\* Token t has an entry in the blacklist.
Listed(t) == t \in blacklist \cup shortlist

\* Request r refreshes with token t.
Holds(r, t) == tokenReq[r].pc # "idle" /\ tokenReq[r].token = t

\* A short entry is a logout's, and an idle slot names no token.
ShortByLogout ==
    /\ shortlist \subseteq loggedOut
    /\ \A r \in TokenRequests : tokenReq[r].pc = "idle" => tokenReq[r].token = NoToken

\* With Redis, a token that nothing excuses is held by one request at most, and
\* then it was not used before and not logged out when that request came; while
\* it is live it has an entry once it may be exchanged, was exchanged or was
\* logged out.
OneRefreshAtATime ==
    redisOn => \A t \in Tokens \ tokenExcused :
        /\ \A r, s \in TokenRequests : Holds(r, t) /\ Holds(s, t) => r = s
        /\ \A r \in TokenRequests : Holds(r, t) => used[t] = 0 /\ ~tokenReq[r].late
        /\ t \in live /\ ~Listed(t) =>
               /\ used[t] = 0 /\ t \notin loggedOut
               /\ \A r \in TokenRequests : ~(Holds(r, t) /\ tokenReq[r].pc = "sign")

TokenInv == TokenTypeOK /\ RefreshedOnce /\ ShortByLogout /\ OneRefreshAtATime

\* The types of what is stored.
LEMMA TokenTypes ==
    ASSUME TokenInv
    PROVE  /\ tokenReq \in [TokenRequests -> TokenSteps]
           /\ live \subseteq Tokens /\ blacklist \subseteq live /\ shortlist \subseteq live
           /\ used \in [Tokens -> 0..2] /\ loggedOut \subseteq Tokens /\ tokenExcused \subseteq Tokens
           /\ redisOn \in BOOLEAN /\ sameSecret \in BOOLEAN
           /\ \A r \in TokenRequests :
                  /\ tokenReq[r].pc \in {"idle", "set", "sign"} /\ tokenReq[r].late \in BOOLEAN
                  /\ tokenReq[r].token \in Tokens \cup {NoToken}
                  /\ tokenReq[r].pc # "idle" => tokenReq[r].token \in Tokens
                  /\ tokenReq[r].pc = "idle" => tokenReq[r].token = NoToken
  BY DEF TokenInv, TokenTypeOK, TokenSteps, TokenAt, ShortByLogout

\* The slot of a request that starts or goes on.
LEMMA TokenSlot ==
    ASSUME tokenReq \in [TokenRequests -> TokenSteps], NEW r \in TokenRequests,
           NEW pc \in {"idle", "set", "sign"}, NEW t \in Tokens \cup {NoToken},
           NEW b \in BOOLEAN, StartToken(r, TokenStep(pc, t, b))
    PROVE  /\ tokenReq' \in [TokenRequests -> TokenSteps]
           /\ tokenReq'[r].pc = pc /\ tokenReq'[r].token = t /\ (tokenReq'[r].late <=> b)
           /\ \A s \in TokenRequests : s # r => tokenReq'[s] = tokenReq[s]
  <1> DEFINE v == TokenStep(pc, t, b)
  <1>1. v \in TokenSteps /\ v.pc = pc /\ v.token = t /\ v.late = b
    BY DEF TokenSteps, TokenStep
  <1>2. tokenReq' = [tokenReq EXCEPT ![r] = v]
    BY DEF StartToken
  <1> HIDE DEF v
  <1>3. tokenReq' \in [TokenRequests -> TokenSteps] /\ tokenReq'[r] = v
    BY <1>1, <1>2
  <1>4. \A s \in TokenRequests : s # r => tokenReq'[s] = tokenReq[s]
    BY <1>2
  <1>5. QED BY <1>1, <1>3, <1>4

\* The slot of a request that ends.
LEMMA TokenEndSlot ==
    ASSUME tokenReq \in [TokenRequests -> TokenSteps], NEW r \in TokenRequests, EndToken(r)
    PROVE  /\ tokenReq' \in [TokenRequests -> TokenSteps]
           /\ tokenReq'[r].pc = "idle" /\ tokenReq'[r].token = NoToken
           /\ \A s \in TokenRequests : s # r => tokenReq'[s] = tokenReq[s]
  <1>1. StartToken(r, TokenStep("idle", NoToken, FALSE))
    BY DEF EndToken, TokenIdle, StartToken
  <1>2. QED BY <1>1, TokenSlot

\* The invariant of the next state, put together.  What RefreshedOnce says of
\* requests follows from what is said of the token they hold.
LEMMA TokenNextInv ==
    ASSUME redisOn' \in BOOLEAN, sameSecret' \in BOOLEAN, tokenReq' \in [TokenRequests -> TokenSteps],
           live' \subseteq Tokens, blacklist' \subseteq live', shortlist' \subseteq live',
           used' \in [Tokens -> 0..2], loggedOut' \subseteq Tokens, tokenExcused' \subseteq Tokens,
           \A r \in TokenRequests :
               /\ tokenReq'[r].pc # "idle" => tokenReq'[r].token \in Tokens
               /\ tokenReq'[r].pc = "idle" => tokenReq'[r].token = NoToken,
           shortlist' \subseteq loggedOut', OneRefreshAtATime',
           redisOn' => \A t \in Tokens \ tokenExcused' : used'[t] <= 1
    PROVE  TokenInv'
  <1>1. TokenTypeOK'
    BY DEF TokenTypeOK, TokenSteps, TokenAt
  <1>2. ShortByLogout'
    BY DEF ShortByLogout
  <1>3. RefreshedOnce'
    BY TokenAssumption DEF RefreshedOnce, OneRefreshAtATime, Holds
  <1>4. QED BY <1>1, <1>2, <1>3 DEF TokenInv

\* A refresh: no entry is found.
LEMMA RefreshInv ==
    ASSUME TokenInv, NEW r \in TokenRequests, NEW t \in Tokens, Refresh(r, t)
    PROVE  TokenInv'
  <1> DEFINE pc == IF redisOn THEN "set" ELSE "sign"
             b == t \in loggedOut
  <1>0. /\ pc \in {"set", "sign"} /\ (redisOn => pc = "set")
        /\ b \in BOOLEAN /\ (b <=> t \in loggedOut)
    OBVIOUS
  <1>1. StartToken(r, TokenStep(pc, t, b))
    BY DEF Refresh
  <1> HIDE DEF pc, b
  <1>2. /\ tokenReq' \in [TokenRequests -> TokenSteps]
        /\ tokenReq'[r].pc = pc /\ tokenReq'[r].token = t /\ (tokenReq'[r].late <=> b)
        /\ \A s \in TokenRequests : s # r => tokenReq'[s] = tokenReq[s]
    <2>1. tokenReq \in [TokenRequests -> TokenSteps] /\ t \in Tokens \cup {NoToken}
      BY TokenTypes
    <2>2. QED BY <1>0, <1>1, <2>1, TokenSlot
  <1>3. /\ redisOn' = redisOn /\ sameSecret' = sameSecret /\ live' = live /\ blacklist' = blacklist
        /\ shortlist' = shortlist /\ used' = used /\ loggedOut' = loggedOut
        /\ tokenExcused' = IF \E s \in TokenRequests : tokenReq[s].pc = "set" /\ tokenReq[s].token = t
                           THEN tokenExcused \cup {t} ELSE tokenExcused
        /\ tokenReq[r].pc = "idle" /\ t \in live /\ (redisOn => ~Listed(t))
    BY DEF Refresh, TokenAt, tokenConfig, Listed
  <1>4. tokenExcused' \subseteq Tokens /\ tokenExcused \subseteq tokenExcused'
    BY <1>3, TokenTypes
  <1>5. ASSUME redisOn, NEW x \in Tokens \ tokenExcused', x # t
        PROVE  \A s \in TokenRequests : (Holds(s, x)' <=> Holds(s, x)) /\ (Holds(s, x) => s # r)
    BY <1>2, <1>3, <1>5 DEF Holds
  <1>6. ASSUME redisOn, t \notin tokenExcused'
        PROVE  /\ \A s \in TokenRequests : ~Holds(s, t)
               /\ used[t] = 0 /\ t \notin loggedOut
    <2>1. /\ t \notin tokenExcused
          /\ \A s \in TokenRequests : ~(tokenReq[s].pc = "set" /\ tokenReq[s].token = t)
      BY <1>3, <1>6
    <2>2. /\ used[t] = 0 /\ t \notin loggedOut
          /\ \A s \in TokenRequests : ~(Holds(s, t) /\ tokenReq[s].pc = "sign")
      BY <1>3, <1>6, <2>1 DEF TokenInv, OneRefreshAtATime
    <2>3. QED BY <2>1, <2>2, TokenTypes DEF Holds
  <1>7. OneRefreshAtATime'
    <2>1. SUFFICES ASSUME redisOn, NEW x \in Tokens \ tokenExcused'
                   PROVE  /\ \A p, s \in TokenRequests : Holds(p, x)' /\ Holds(s, x)' => p = s
                          /\ \A s \in TokenRequests : Holds(s, x)' => used'[x] = 0 /\ ~tokenReq'[s].late
                          /\ x \in live' /\ ~Listed(x)' =>
                                 /\ used'[x] = 0 /\ x \notin loggedOut'
                                 /\ \A s \in TokenRequests : ~(Holds(s, x)' /\ tokenReq'[s].pc = "sign")
      BY <1>3 DEF OneRefreshAtATime
    <2>2. CASE x = t
      <3>1. \A s \in TokenRequests : Holds(s, t)' => s = r
        BY <1>2, <1>6, <2>1, <2>2 DEF Holds
      <3>2. QED BY <1>0, <1>2, <1>3, <1>6, <2>1, <2>2, <3>1
    <2>3. CASE x # t
      <3>1. /\ \A p, s \in TokenRequests : Holds(p, x) /\ Holds(s, x) => p = s
            /\ \A s \in TokenRequests : Holds(s, x) => used[x] = 0 /\ ~tokenReq[s].late
            /\ x \in live /\ ~Listed(x) =>
                                 /\ used[x] = 0 /\ x \notin loggedOut
                                 /\ \A s \in TokenRequests : ~(Holds(s, x) /\ tokenReq[s].pc = "sign")
        BY <1>4, <2>1 DEF TokenInv, OneRefreshAtATime
      <3>2. Listed(x)' <=> Listed(x)
        BY <1>3 DEF Listed
      <3>3. QED BY <1>2, <1>3, <1>5, <2>1, <2>3, <3>1, <3>2
    <2>4. QED BY <2>2, <2>3
  <1>8. redisOn' => \A x \in Tokens \ tokenExcused' : used'[x] <= 1
    BY <1>3, <1>4 DEF TokenInv, RefreshedOnce
  <1>9. /\ live' \subseteq Tokens /\ blacklist' \subseteq live' /\ shortlist' \subseteq live'
        /\ used' \in [Tokens -> 0..2] /\ loggedOut' \subseteq Tokens /\ shortlist' \subseteq loggedOut'
    BY <1>3, TokenTypes DEF TokenInv, ShortByLogout
  <1>10. redisOn' \in BOOLEAN /\ sameSecret' \in BOOLEAN
    BY <1>3, TokenTypes
  <1>11. \A s \in TokenRequests :
               /\ tokenReq'[s].pc # "idle" => tokenReq'[s].token \in Tokens
               /\ tokenReq'[s].pc = "idle" => tokenReq'[s].token = NoToken
    <2>1. pc # "idle"
      BY <1>0
    <2>2. tokenReq'[r].pc # "idle" /\ tokenReq'[r].token \in Tokens
      BY <1>2, <2>1
    <2>3. \A s \in TokenRequests :
               /\ tokenReq[s].pc # "idle" => tokenReq[s].token \in Tokens
               /\ tokenReq[s].pc = "idle" => tokenReq[s].token = NoToken
      BY TokenTypes
    <2>4. QED BY <1>2, <2>2, <2>3
  <1>12. QED BY <1>2, <1>4, <1>7, <1>8, <1>9, <1>10, <1>11, TokenNextInv

\* A step that leaves the requests alone.  A token that nothing excuses after it
\* is as it was, or has an entry more, or is one that was just issued.
LEMMA StillInv ==
    ASSUME TokenInv, tokenReq' = tokenReq, redisOn' = redisOn, sameSecret' = sameSecret,
           live' \subseteq Tokens, blacklist' \subseteq live', shortlist' \subseteq live',
           used' \in [Tokens -> 0..2], loggedOut' \subseteq Tokens, tokenExcused' \subseteq Tokens,
           shortlist' \subseteq loggedOut',
           \A x \in Tokens \ tokenExcused' :
               \/ /\ x \notin tokenExcused /\ used'[x] = used[x]
                  /\ x \in live' /\ ~Listed(x)' =>
                         x \in live /\ ~Listed(x) /\ (x \in loggedOut' => x \in loggedOut)
               \/ /\ \A r \in TokenRequests : ~Holds(r, x)
                  /\ used'[x] = 0 /\ x \notin loggedOut'
    PROVE  TokenInv'
  <1>1. redisOn' \in BOOLEAN /\ sameSecret' \in BOOLEAN
    BY TokenTypes
  <1>2. tokenReq' \in [TokenRequests -> TokenSteps]
    BY TokenTypes
  <1>3. \A s \in TokenRequests :
               /\ tokenReq'[s].pc # "idle" => tokenReq'[s].token \in Tokens
               /\ tokenReq'[s].pc = "idle" => tokenReq'[s].token = NoToken
    BY TokenTypes
  <1>4. \A s \in TokenRequests, x \in Tokens : Holds(s, x)' <=> Holds(s, x)
    BY DEF Holds
  <1>5. OneRefreshAtATime'
    <2>1. SUFFICES ASSUME redisOn, NEW x \in Tokens \ tokenExcused'
                   PROVE  /\ \A p, s \in TokenRequests : Holds(p, x) /\ Holds(s, x) => p = s
                          /\ \A s \in TokenRequests : Holds(s, x) => used'[x] = 0 /\ ~tokenReq[s].late
                          /\ x \in live' /\ ~Listed(x)' =>
                                 /\ used'[x] = 0 /\ x \notin loggedOut'
                                 /\ \A s \in TokenRequests : ~(Holds(s, x) /\ tokenReq[s].pc = "sign")
      BY <1>4 DEF OneRefreshAtATime
    <2>2. CASE x \notin tokenExcused
      <3>1. /\ \A p, s \in TokenRequests : Holds(p, x) /\ Holds(s, x) => p = s
            /\ \A s \in TokenRequests : Holds(s, x) => used[x] = 0 /\ ~tokenReq[s].late
            /\ x \in live /\ ~Listed(x) =>
                   /\ used[x] = 0 /\ x \notin loggedOut
                   /\ \A s \in TokenRequests : ~(Holds(s, x) /\ tokenReq[s].pc = "sign")
        BY <2>1, <2>2 DEF TokenInv, OneRefreshAtATime
      <3>2. QED BY <2>1, <2>2, <3>1
    <2>3. CASE x \in tokenExcused
      BY <2>1, <2>3
    <2>4. QED BY <2>2, <2>3
  <1>6. redisOn' => \A x \in Tokens \ tokenExcused' : used'[x] <= 1
    <2>1. redisOn => \A x \in Tokens \ tokenExcused : used[x] <= 1
      BY DEF TokenInv, RefreshedOnce
    <2>2. QED BY <2>1
  <1>7. QED BY <1>1, <1>2, <1>3, <1>5, <1>6, TokenNextInv

\* A request that ends, with an access token or without.
LEMMA EndTokenInv ==
    ASSUME TokenInv, NEW r \in TokenRequests, EndToken(r),
           redisOn' = redisOn, sameSecret' = sameSecret, live' = live, blacklist' = blacklist,
           shortlist' = shortlist, loggedOut' = loggedOut, tokenExcused' = tokenExcused,
           used' \in [Tokens -> 0..2],
           \A x \in Tokens : \/ used'[x] = used[x]
                             \/ /\ Holds(r, x) /\ tokenReq[r].pc = "sign"
                                /\ used[x] = 0 => used'[x] = 1
    PROVE  TokenInv'
  <1>1. /\ tokenReq' \in [TokenRequests -> TokenSteps]
        /\ tokenReq'[r].pc = "idle" /\ tokenReq'[r].token = NoToken
        /\ \A s \in TokenRequests : s # r => tokenReq'[s] = tokenReq[s]
    <2>1. tokenReq \in [TokenRequests -> TokenSteps]
      BY TokenTypes
    <2>2. QED BY <2>1, TokenEndSlot
  <1>2. \A s \in TokenRequests, x \in Tokens : Holds(s, x)' => s # r /\ Holds(s, x)
    BY <1>1 DEF Holds
  <1>3. \A s \in TokenRequests :
               /\ tokenReq'[s].pc # "idle" => tokenReq'[s].token \in Tokens
               /\ tokenReq'[s].pc = "idle" => tokenReq'[s].token = NoToken
    BY <1>1, TokenTypes
  <1>4. ASSUME redisOn, NEW x \in Tokens \ tokenExcused
        PROVE  /\ \A p, s \in TokenRequests : Holds(p, x) /\ Holds(s, x) => p = s
               /\ \A s \in TokenRequests : Holds(s, x) => used[x] = 0 /\ ~tokenReq[s].late
               /\ x \in live /\ ~Listed(x) =>
                      /\ used[x] = 0 /\ x \notin loggedOut
                      /\ \A s \in TokenRequests : ~(Holds(s, x) /\ tokenReq[s].pc = "sign")
    BY <1>4 DEF TokenInv, OneRefreshAtATime
  <1>5. OneRefreshAtATime'
    <2>1. SUFFICES ASSUME redisOn, NEW x \in Tokens \ tokenExcused
                   PROVE  /\ \A p, s \in TokenRequests : Holds(p, x)' /\ Holds(s, x)' => p = s
                          /\ \A s \in TokenRequests : Holds(s, x)' => used'[x] = 0 /\ ~tokenReq'[s].late
                          /\ x \in live' /\ ~Listed(x)' =>
                                 /\ used'[x] = 0 /\ x \notin loggedOut'
                                 /\ \A s \in TokenRequests : ~(Holds(s, x)' /\ tokenReq'[s].pc = "sign")
      BY DEF OneRefreshAtATime
    <2>2. Listed(x)' <=> Listed(x)
      BY DEF Listed
    <2>3. CASE used'[x] = used[x]
      BY <1>1, <1>2, <1>4, <2>1, <2>2, <2>3
    <2>4. CASE Holds(r, x) /\ tokenReq[r].pc = "sign"
      <3>1. \A s \in TokenRequests : ~Holds(s, x)'
        BY <1>2, <1>4, <2>1, <2>4
      <3>2. ~(x \in live /\ ~Listed(x))
        BY <1>4, <2>1, <2>4
      <3>3. QED BY <2>2, <3>1, <3>2
    <2>5. QED BY <2>1, <2>3, <2>4
  <1>6. redisOn' => \A x \in Tokens \ tokenExcused' : used'[x] <= 1
    <2>1. ASSUME redisOn, NEW x \in Tokens \ tokenExcused
          PROVE  used'[x] <= 1
      <3>1. used[x] <= 1
        BY <2>1 DEF TokenInv, RefreshedOnce
      <3>2. CASE used'[x] = used[x]
        BY <3>1, <3>2
      <3>3. CASE Holds(r, x) /\ tokenReq[r].pc = "sign" /\ (used[x] = 0 => used'[x] = 1)
        <4>1. used[x] = 0
          BY <1>4, <2>1, <3>3
        <4>2. QED BY <3>3, <4>1
      <3>4. QED BY <3>2, <3>3
    <2>2. QED BY <2>1
  <1>7. /\ live' \subseteq Tokens /\ blacklist' \subseteq live' /\ shortlist' \subseteq live'
        /\ loggedOut' \subseteq Tokens /\ tokenExcused' \subseteq Tokens /\ shortlist' \subseteq loggedOut'
    BY TokenTypes DEF TokenInv, ShortByLogout
  <1>8. redisOn' \in BOOLEAN /\ sameSecret' \in BOOLEAN
    BY TokenTypes
  <1>9. QED BY <1>1, <1>3, <1>5, <1>6, <1>7, <1>8, TokenNextInv

\* SETEX: the token has an entry now, if it is still live.
LEMMA SetBlacklistInv ==
    ASSUME TokenInv, NEW r \in TokenRequests, SetBlacklist(r)
    PROVE  TokenInv'
  <1>1. PICK t \in Tokens : t = tokenReq[r].token
    BY TokenTypes DEF SetBlacklist, TokenAt
  <1>2. PICK b \in BOOLEAN : b = tokenReq[r].late
    BY TokenTypes
  <1>3. StartToken(r, TokenStep("sign", t, b)) /\ tokenReq[r].pc = "set"
    BY <1>1, <1>2 DEF SetBlacklist, TokenAt
  <1>4. /\ redisOn' = redisOn /\ sameSecret' = sameSecret /\ live' = live /\ used' = used
        /\ loggedOut' = loggedOut /\ tokenExcused' = tokenExcused
        /\ blacklist' = blacklist \cup ({t} \cap live) /\ shortlist' = shortlist \ {t}
    BY <1>1 DEF SetBlacklist, tokenConfig
  <1>5. /\ tokenReq' \in [TokenRequests -> TokenSteps]
        /\ tokenReq'[r].pc = "sign" /\ tokenReq'[r].token = t /\ (tokenReq'[r].late <=> b)
        /\ \A s \in TokenRequests : s # r => tokenReq'[s] = tokenReq[s]
    <2>1. tokenReq \in [TokenRequests -> TokenSteps] /\ t \in Tokens \cup {NoToken}
      BY TokenTypes
    <2>2. QED BY <1>3, <2>1, TokenSlot
  <1>6. /\ \A s \in TokenRequests, x \in Tokens : Holds(s, x)' <=> Holds(s, x)
        /\ \A s \in TokenRequests : tokenReq'[s].late <=> tokenReq[s].late
        /\ \A s \in TokenRequests : s # r => tokenReq'[s].pc = tokenReq[s].pc
    BY <1>1, <1>2, <1>3, <1>5 DEF Holds
  <1>7. \A x \in Tokens : x # t => (Listed(x)' <=> Listed(x)) /\ ~Holds(r, x)
    BY <1>1, <1>4 DEF Listed, Holds
  <1>8. t \in live => Listed(t)'
    BY <1>4 DEF Listed
  <1>9. OneRefreshAtATime'
    <2>1. SUFFICES ASSUME redisOn, NEW x \in Tokens \ tokenExcused
                   PROVE  /\ \A p, s \in TokenRequests : Holds(p, x) /\ Holds(s, x) => p = s
                          /\ \A s \in TokenRequests : Holds(s, x) => used[x] = 0 /\ ~tokenReq[s].late
                          /\ x \in live /\ ~Listed(x)' =>
                                 /\ used[x] = 0 /\ x \notin loggedOut
                                 /\ \A s \in TokenRequests : ~(Holds(s, x) /\ tokenReq'[s].pc = "sign")
      BY <1>4, <1>6 DEF OneRefreshAtATime
    <2>2. /\ \A p, s \in TokenRequests : Holds(p, x) /\ Holds(s, x) => p = s
          /\ \A s \in TokenRequests : Holds(s, x) => used[x] = 0 /\ ~tokenReq[s].late
          /\ x \in live /\ ~Listed(x) =>
                 /\ used[x] = 0 /\ x \notin loggedOut
                 /\ \A s \in TokenRequests : ~(Holds(s, x) /\ tokenReq[s].pc = "sign")
      BY <2>1 DEF TokenInv, OneRefreshAtATime
    <2>3. CASE x = t
      BY <1>8, <2>2, <2>3
    <2>4. CASE x # t
      <3>1. (Listed(x)' <=> Listed(x)) /\ ~Holds(r, x)
        BY <1>7, <2>4
      <3>2. QED BY <1>6, <2>2, <3>1
    <2>5. QED BY <2>3, <2>4
  <1>10. redisOn' => \A x \in Tokens \ tokenExcused' : used'[x] <= 1
    BY <1>4 DEF TokenInv, RefreshedOnce
  <1>11. /\ live' \subseteq Tokens /\ blacklist' \subseteq live' /\ shortlist' \subseteq live'
         /\ used' \in [Tokens -> 0..2] /\ loggedOut' \subseteq Tokens /\ tokenExcused' \subseteq Tokens
         /\ shortlist' \subseteq loggedOut'
    BY <1>4, TokenTypes DEF TokenInv, ShortByLogout
  <1>12. redisOn' \in BOOLEAN /\ sameSecret' \in BOOLEAN
    BY <1>4, TokenTypes
  <1>13. \A s \in TokenRequests :
               /\ tokenReq'[s].pc # "idle" => tokenReq'[s].token \in Tokens
               /\ tokenReq'[s].pc = "idle" => tokenReq'[s].token = NoToken
    <2>1. \A s \in TokenRequests :
               /\ tokenReq[s].pc # "idle" => tokenReq[s].token \in Tokens
               /\ tokenReq[s].pc = "idle" => tokenReq[s].token = NoToken
      BY TokenTypes
    <2>2. QED BY <1>5, <2>1
  <1>14. QED BY <1>5, <1>9, <1>10, <1>11, <1>12, <1>13, TokenNextInv

\* The access token is signed: the request that holds the token is the only one.
LEMMA SignTokenInv ==
    ASSUME TokenInv, NEW r \in TokenRequests, SignToken(r)
    PROVE  TokenInv'
  <1>1. PICK t \in Tokens : t = tokenReq[r].token
    BY TokenTypes DEF SignToken, TokenAt
  <1>2. PICK n \in 0..2 : n = IF used[t] < 2 THEN used[t] + 1 ELSE used[t]
    BY TokenTypes
  <1>3. /\ EndToken(r) /\ redisOn' = redisOn /\ sameSecret' = sameSecret /\ live' = live
        /\ blacklist' = blacklist /\ shortlist' = shortlist /\ loggedOut' = loggedOut
        /\ tokenExcused' = tokenExcused /\ used' = [used EXCEPT ![t] = n]
        /\ Holds(r, t) /\ tokenReq[r].pc = "sign"
    BY <1>1, <1>2, TokenTypes DEF SignToken, TokenAt, tokenConfig, Holds
  <1>4. used' \in [Tokens -> 0..2] /\ used'[t] = n /\ \A x \in Tokens : x # t => used'[x] = used[x]
    <2>1. used \in [Tokens -> 0..2]
      BY TokenTypes
    <2>2. QED BY <1>3, <2>1
  <1>5. \A x \in Tokens : \/ used'[x] = used[x]
                          \/ /\ Holds(r, x) /\ tokenReq[r].pc = "sign"
                             /\ used[x] = 0 => used'[x] = 1
    BY <1>2, <1>3, <1>4
  <1>6. QED BY <1>3, <1>4, <1>5, EndTokenInv

\* A refresh that fails.
LEMMA FailRefreshInv ==
    ASSUME TokenInv, NEW r \in TokenRequests, FailRefresh(r)
    PROVE  TokenInv'
  <1>1. /\ EndToken(r) /\ redisOn' = redisOn /\ sameSecret' = sameSecret /\ live' = live
        /\ blacklist' = blacklist /\ shortlist' = shortlist /\ loggedOut' = loggedOut
        /\ tokenExcused' = tokenExcused /\ used' = used
    BY DEF FailRefresh, tokenConfig
  <1>2. used' \in [Tokens -> 0..2]
    BY <1>1, TokenTypes
  <1>3. \A x \in Tokens : used'[x] = used[x]
    BY <1>1
  <1>4. QED BY <1>1, <1>2, <1>3, EndTokenInv

\* A login, a logout, and the ends of tokens and entries.
LEMMA StillStepsInv ==
    ASSUME TokenInv,
           \/ \E t \in Tokens : IssueToken(t) \/ Logout(t) \/ ExpireToken(t) \/ ExpireShort(t)
           \/ BlacklistLost
    PROVE  TokenInv'
  <1>0. /\ live \subseteq Tokens /\ blacklist \subseteq live /\ shortlist \subseteq live
        /\ used \in [Tokens -> 0..2] /\ loggedOut \subseteq Tokens /\ tokenExcused \subseteq Tokens
        /\ shortlist \subseteq loggedOut
    BY TokenTypes DEF TokenInv, ShortByLogout
  <1>1. ASSUME NEW t \in Tokens, IssueToken(t)
        PROVE  TokenInv'
    <2>1. /\ tokenReq' = tokenReq /\ redisOn' = redisOn /\ sameSecret' = sameSecret
          /\ live' = live \cup {t} /\ used' = [used EXCEPT ![t] = 0]
          /\ loggedOut' = loggedOut \ {t} /\ tokenExcused' = tokenExcused \ {t}
          /\ blacklist' = blacklist /\ shortlist' = shortlist /\ t \notin live
          /\ \A r \in TokenRequests : ~Holds(r, t)
      BY <1>1 DEF IssueToken, tokenConfig, Holds
    <2>2. used' \in [Tokens -> 0..2] /\ used'[t] = 0 /\ \A x \in Tokens : x # t => used'[x] = used[x]
      BY <1>0, <2>1
    <2>3. /\ live' \subseteq Tokens /\ blacklist' \subseteq live' /\ shortlist' \subseteq live'
          /\ loggedOut' \subseteq Tokens /\ tokenExcused' \subseteq Tokens /\ shortlist' \subseteq loggedOut'
      BY <1>0, <2>1
    <2>4. ASSUME NEW x \in Tokens \ tokenExcused', x # t
          PROVE  /\ x \notin tokenExcused /\ used'[x] = used[x]
                 /\ x \in live' /\ ~Listed(x)' =>
                        x \in live /\ ~Listed(x) /\ (x \in loggedOut' => x \in loggedOut)
      BY <2>1, <2>2, <2>4 DEF Listed
    <2>5. QED BY <2>1, <2>2, <2>3, <2>4, StillInv
  <1>2. ASSUME NEW t \in Tokens, Logout(t)
        PROVE  TokenInv'
    <2>1. /\ tokenReq' = tokenReq /\ redisOn' = redisOn /\ sameSecret' = sameSecret
          /\ live' = live /\ used' = used /\ tokenExcused' = tokenExcused
          /\ loggedOut' = loggedOut \cup {t} /\ t \in live
          /\ blacklist' = IF sameSecret THEN blacklist \cup {t} ELSE blacklist \ {t}
          /\ shortlist' = IF sameSecret THEN shortlist ELSE shortlist \cup {t}
      BY <1>2 DEF Logout, tokenConfig
    <2>2. /\ live' \subseteq Tokens /\ blacklist' \subseteq live' /\ shortlist' \subseteq live'
          /\ loggedOut' \subseteq Tokens /\ tokenExcused' \subseteq Tokens /\ shortlist' \subseteq loggedOut'
          /\ used' \in [Tokens -> 0..2]
      BY <1>0, <2>1
    <2>3. ASSUME NEW x \in Tokens \ tokenExcused'
          PROVE  /\ x \notin tokenExcused /\ used'[x] = used[x]
                 /\ x \in live' /\ ~Listed(x)' =>
                        x \in live /\ ~Listed(x) /\ (x \in loggedOut' => x \in loggedOut)
      BY <2>1 DEF Listed
    <2>4. QED BY <2>1, <2>2, <2>3, StillInv
  <1>3. ASSUME NEW t \in Tokens, ExpireToken(t)
        PROVE  TokenInv'
    <2>1. /\ tokenReq' = tokenReq /\ redisOn' = redisOn /\ sameSecret' = sameSecret
          /\ used' = used /\ tokenExcused' = tokenExcused /\ loggedOut' = loggedOut
          /\ live' = live \ {t} /\ blacklist' = blacklist \ {t} /\ shortlist' = shortlist \ {t}
      BY <1>3 DEF ExpireToken, tokenConfig
    <2>2. /\ live' \subseteq Tokens /\ blacklist' \subseteq live' /\ shortlist' \subseteq live'
          /\ loggedOut' \subseteq Tokens /\ tokenExcused' \subseteq Tokens /\ shortlist' \subseteq loggedOut'
          /\ used' \in [Tokens -> 0..2]
      BY <1>0, <2>1
    <2>3. ASSUME NEW x \in Tokens \ tokenExcused'
          PROVE  /\ x \notin tokenExcused /\ used'[x] = used[x]
                 /\ x \in live' /\ ~Listed(x)' =>
                        x \in live /\ ~Listed(x) /\ (x \in loggedOut' => x \in loggedOut)
      BY <2>1 DEF Listed
    <2>4. QED BY <2>1, <2>2, <2>3, StillInv
  <1>4. ASSUME NEW t \in Tokens, ExpireShort(t)
        PROVE  TokenInv'
    <2>1. /\ tokenReq' = tokenReq /\ redisOn' = redisOn /\ sameSecret' = sameSecret
          /\ used' = used /\ loggedOut' = loggedOut /\ live' = live /\ blacklist' = blacklist
          /\ shortlist' = shortlist \ {t} /\ tokenExcused' = tokenExcused \cup {t}
      BY <1>0, <1>4 DEF ExpireShort, tokenConfig
    <2>2. /\ live' \subseteq Tokens /\ blacklist' \subseteq live' /\ shortlist' \subseteq live'
          /\ loggedOut' \subseteq Tokens /\ tokenExcused' \subseteq Tokens /\ shortlist' \subseteq loggedOut'
          /\ used' \in [Tokens -> 0..2]
      BY <1>0, <2>1
    <2>3. ASSUME NEW x \in Tokens \ tokenExcused'
          PROVE  /\ x \notin tokenExcused /\ used'[x] = used[x]
                 /\ x \in live' /\ ~Listed(x)' =>
                        x \in live /\ ~Listed(x) /\ (x \in loggedOut' => x \in loggedOut)
      BY <2>1 DEF Listed
    <2>4. QED BY <2>1, <2>2, <2>3, StillInv
  <1>5. ASSUME BlacklistLost
        PROVE  TokenInv'
    <2>1. /\ tokenReq' = tokenReq /\ redisOn' = redisOn /\ sameSecret' = sameSecret
          /\ used' = used /\ loggedOut' = loggedOut /\ live' = live /\ blacklist' = {}
          /\ shortlist' = {} /\ tokenExcused' = tokenExcused \cup blacklist \cup shortlist
      BY <1>5 DEF BlacklistLost, tokenConfig
    <2>2. /\ live' \subseteq Tokens /\ blacklist' \subseteq live' /\ shortlist' \subseteq live'
          /\ loggedOut' \subseteq Tokens /\ tokenExcused' \subseteq Tokens /\ shortlist' \subseteq loggedOut'
          /\ used' \in [Tokens -> 0..2]
      BY <1>0, <2>1
    <2>3. ASSUME NEW x \in Tokens \ tokenExcused'
          PROVE  /\ x \notin tokenExcused /\ used'[x] = used[x]
                 /\ x \in live' /\ ~Listed(x)' =>
                        x \in live /\ ~Listed(x) /\ (x \in loggedOut' => x \in loggedOut)
      BY <2>1 DEF Listed
    <2>4. QED BY <2>1, <2>2, <2>3, StillInv
  <1>6. QED BY <1>1, <1>2, <1>3, <1>4, <1>5

\* The inductive invariant holds in every reachable state.
LEMMA TokenInvariance == TokenSpec => []TokenInv
  <1>1. ASSUME TokenInit
        PROVE  TokenInv
    <2>1. /\ tokenReq \in [TokenRequests -> TokenSteps]
          /\ \A r \in TokenRequests : tokenReq[r].pc = "idle" /\ tokenReq[r].token = NoToken
      BY <1>1 DEF TokenInit, TokenIdle, TokenStep, TokenSteps
    <2>2. redisOn \in BOOLEAN /\ sameSecret \in BOOLEAN
      BY <1>1 DEF TokenInit
    <2>3. TokenTypeOK
      BY <1>1, <2>1, <2>2 DEF TokenInit, TokenTypeOK, TokenSteps, TokenAt
    <2>4. RefreshedOnce
      BY <1>1, <2>1, TokenAssumption DEF TokenInit, RefreshedOnce
    <2>5. ShortByLogout /\ OneRefreshAtATime
      BY <1>1, <2>1 DEF TokenInit, ShortByLogout, OneRefreshAtATime, Holds
    <2>6. QED BY <2>3, <2>4, <2>5 DEF TokenInv
  <1>2. ASSUME TokenInv, [TokenNext]_tokenVars
        PROVE  TokenInv'
    <2>1. CASE UNCHANGED tokenVars
      BY <1>2, <2>1 DEF tokenVars, TokenInv, TokenTypeOK, RefreshedOnce, ShortByLogout,
                        OneRefreshAtATime, Holds, Listed, TokenAt
    <2>2. CASE \E r \in TokenRequests : \E t \in Tokens : Refresh(r, t)
      BY <1>2, <2>2, RefreshInv
    <2>3. CASE \E r \in TokenRequests : SetBlacklist(r) \/ SignToken(r) \/ FailRefresh(r)
      BY <1>2, <2>3, SetBlacklistInv, SignTokenInv, FailRefreshInv
    <2>4. CASE \/ \E t \in Tokens : IssueToken(t) \/ Logout(t) \/ ExpireToken(t) \/ ExpireShort(t)
               \/ BlacklistLost
      BY <1>2, <2>4, StillStepsInv
    <2>5. QED BY <1>2, <2>1, <2>2, <2>3, <2>4 DEF TokenNext
  <1>3. QED BY <1>1, <1>2, PTL DEF TokenSpec

\* The refresh tokens' variables keep their types, and only tokens that have not
\* expired have entries.
THEOREM RefreshTokenTypes == TokenSpec => []TokenTypeOK
  <1>1. TokenInv => TokenTypeOK
    BY DEF TokenInv
  <1>2. QED BY <1>1, TokenInvariance, PTL

\* With Redis, a refresh token is exchanged once and never after its logout, for
\* any number of tokens and requests, unless refreshes overlapped, Redis lost its
\* data or a short entry ran out.
THEOREM TokensAreSpentOnce == TokenSpec => []RefreshedOnce
  <1>1. TokenInv => RefreshedOnce
    BY DEF TokenInv
  <1>2. QED BY <1>1, TokenInvariance, PTL

-----------------------------------------------------------------------------
(* Sequences without a key                                                   *)

\* The sequence without the element at p.
LEMMA RemoveAtProperties ==
    ASSUME NEW S, NEW s \in Seq(S), NEW p \in 1..Len(s)
    PROVE  /\ RemoveAt(s, p) \in Seq(S) /\ Len(RemoveAt(s, p)) = Len(s) - 1
           /\ \A i \in 1..Len(s) - 1 : RemoveAt(s, p)[i] = s[IF i < p THEN i ELSE i + 1]
  <1> DEFINE a == SubSeq(s, 1, p - 1)
             b == SubSeq(s, p + 1, Len(s))
  <1>1. /\ a \in Seq(S) /\ Len(a) = p - 1
        /\ \A i \in 1..p - 1 : a[i] = s[i]
    BY SubSeqProperties
  <1>2. /\ b \in Seq(S) /\ Len(b) = Len(s) - p
        /\ \A i \in 1..Len(s) - p : b[i] = s[p + i]
    BY SubSeqProperties
  <1> HIDE DEF a, b
  <1>3. /\ a \o b \in Seq(S) /\ Len(a \o b) = Len(a) + Len(b)
        /\ \A i \in 1..Len(a) + Len(b) :
               (a \o b)[i] = IF i <= Len(a) THEN a[i] ELSE b[i - Len(a)]
    BY <1>1, <1>2, ConcatProperties
  <1> DEFINE c == a \o b
  <1>4. /\ c \in Seq(S) /\ Len(c) = Len(s) - 1
        /\ \A i \in 1..Len(s) - 1 : c[i] = s[IF i < p THEN i ELSE i + 1]
    <2> Len(s) \in Nat /\ p \in Nat
      OBVIOUS
    <2> HIDE DEF c
    <2>1. c \in Seq(S) /\ Len(c) = Len(s) - 1
      BY <1>1, <1>2, <1>3 DEF c
    <2>2. ASSUME NEW i \in 1..Len(s) - 1 PROVE c[i] = s[IF i < p THEN i ELSE i + 1]
      <3>1. c[i] = IF i <= p - 1 THEN a[i] ELSE b[i - (p - 1)]
        BY <1>1, <1>2, <1>3 DEF c
      <3>2. CASE i < p
        BY <1>1, <3>1, <3>2
      <3>3. CASE i >= p
        BY <1>2, <3>1, <3>3
      <3>4. QED BY <3>2, <3>3
    <2>3. QED BY <2>1, <2>2
  <1>5. QED BY <1>4 DEF RemoveAt, a, b, c

\* Without takes out the place of the key.
LEMMA WithoutRemoves ==
    ASSUME NEW S, NEW s \in Seq(S), NEW k \in ToSet(s)
    PROVE  \E p \in 1..Len(s) : s[p] = k /\ Without(s, k) = RemoveAt(s, p)
  <1> DEFINE p == CHOOSE i \in DOMAIN s : s[i] = k
  <1>1. p \in DOMAIN s /\ s[p] = k
    BY DEF ToSet
  <1>2. Without(s, k) = RemoveAt(s, p)
    BY DEF Without
  <1> HIDE DEF p
  <1>3. QED BY <1>1, <1>2

\* x stands before y in s.
Before(s, x, y) == \E i, j \in DOMAIN s : i < j /\ s[i] = x /\ s[j] = y

\* Without takes one key out and keeps the rest in order.
LEMMA WithoutProperties ==
    ASSUME NEW S, NEW s \in Seq(S), IsInjective(s), NEW k
    PROVE  /\ Without(s, k) \in Seq(S) /\ IsInjective(Without(s, k))
           /\ ToSet(Without(s, k)) = ToSet(s) \ {k}
           /\ Len(Without(s, k)) = IF k \in ToSet(s) THEN Len(s) - 1 ELSE Len(s)
           /\ \A x, y : Before(Without(s, k), x, y) => Before(s, x, y)
  <1>1. CASE k \notin ToSet(s)
    BY <1>1 DEF Without
  <1>2. CASE k \in ToSet(s)
    <2> DEFINE t == Without(s, k)
               n == Len(s)
    <2>0. n \in Nat
      BY LenProperties
    <2>1. PICK p \in 1..n : s[p] = k /\ t = RemoveAt(s, p)
      BY <1>2, WithoutRemoves
    <2>2. /\ t \in Seq(S) /\ Len(t) = n - 1 /\ n \in Nat
          /\ \A i \in 1..n - 1 : t[i] = s[IF i < p THEN i ELSE i + 1]
      <3>1. /\ RemoveAt(s, p) \in Seq(S) /\ Len(RemoveAt(s, p)) = n - 1
            /\ \A i \in 1..n - 1 : RemoveAt(s, p)[i] = s[IF i < p THEN i ELSE i + 1]
        BY <2>0, RemoveAtProperties
      <3> HIDE DEF t, n
      <3>2. QED BY <2>0, <2>1, <3>1
    <2>3. DOMAIN s = 1..n /\ DOMAIN t = 1..n - 1
      BY <2>2, LenProperties
    <2>4. \A i, j \in 1..n : s[i] = s[j] => i = j
      BY <2>3 DEF IsInjective
    <2> HIDE DEF t, n
    <2>5. \A i \in 1..n : i # p => s[i] # k
      BY <2>1, <2>4
    <2>6. IsInjective(t)
      BY <2>1, <2>2, <2>3, <2>4 DEF IsInjective
    <2>7. ToSet(t) \subseteq ToSet(s) \ {k}
      <3>1. ASSUME NEW i \in 1..n - 1 PROVE \E j \in 1..n : s[j] = t[i] /\ s[j] # k
        <4>1. PICK j \in 1..n : j = IF i < p THEN i ELSE i + 1
          BY <2>1, <2>2
        <4>2. t[i] = s[j] /\ j # p
          BY <2>1, <2>2, <4>1
        <4>3. QED BY <2>5, <4>2
      <3>2. QED BY <2>3, <3>1 DEF ToSet
    <2>8. ToSet(s) \ {k} \subseteq ToSet(t)
      <3>1. ASSUME NEW i \in 1..n, s[i] # k PROVE \E j \in 1..n - 1 : t[j] = s[i]
        <4>1. CASE i < p
          BY <2>1, <2>2, <4>1
        <4>2. CASE i > p
          <5>1. i - 1 \in 1..n - 1 /\ ~(i - 1 < p)
            BY <2>1, <2>2, <4>2
          <5>2. t[i - 1] = s[i - 1 + 1]
            BY <2>2, <5>1
          <5>3. QED BY <2>2, <5>1, <5>2
        <4>3. QED BY <2>1, <2>2, <3>1, <4>1, <4>2
      <3>2. QED BY <2>3, <3>1 DEF ToSet
    <2>9. ASSUME NEW x, NEW y, Before(t, x, y) PROVE Before(s, x, y)
      <3>1. PICK i, j \in 1..n - 1 : i < j /\ t[i] = x /\ t[j] = y
        BY <2>3, <2>9 DEF Before
      <3>2. \E a, b \in 1..n : a < b /\ s[a] = x /\ s[b] = y
        <4>1. PICK a, b \in 1..n : /\ a = IF i < p THEN i ELSE i + 1
                                   /\ b = IF j < p THEN j ELSE j + 1
          BY <2>1, <2>2, <3>1
        <4>2. a < b
          BY <2>1, <3>1, <4>1
        <4>3. s[a] = x /\ s[b] = y
          BY <2>2, <3>1, <4>1
        <4>4. QED BY <4>2, <4>3
      <3>3. QED BY <2>3, <3>2 DEF Before
    <2>10. QED BY <1>2, <2>2, <2>6, <2>7, <2>8, <2>9 DEF t, n
  <1>3. QED BY <1>1, <1>2

\* A key that is appended stands behind all others.
LEMMA AppendedLast ==
    ASSUME NEW S, NEW s \in Seq(S), IsInjective(s), NEW k \in S, k \notin ToSet(s)
    PROVE  /\ Append(s, k) \in Seq(S) /\ IsInjective(Append(s, k))
           /\ ToSet(Append(s, k)) = ToSet(s) \cup {k}
           /\ Len(Append(s, k)) = Len(s) + 1
           /\ \A x, y : Before(Append(s, k), x, y) =>
                  Before(s, x, y) \/ (x \in ToSet(s) /\ y = k)
  <1> DEFINE t == Append(s, k)
             n == Len(s)
  <1>1. /\ t \in Seq(S) /\ Len(t) = n + 1 /\ n \in Nat
        /\ \A i \in 1..n : t[i] = s[i]
        /\ t[n + 1] = k
    BY AppendProperties
  <1>2. DOMAIN s = 1..n /\ DOMAIN t = 1..n + 1
    BY <1>1, LenProperties
  <1> HIDE DEF t, n
  <1>3. \A i \in 1..n + 1 : i \in 1..n \/ i = n + 1
    BY <1>1
  <1>4. \A i \in 1..n : s[i] # k
    BY <1>2 DEF ToSet
  <1>5. IsInjective(t)
    BY <1>1, <1>2, <1>3, <1>4 DEF IsInjective
  <1>6. ToSet(t) = ToSet(s) \cup {k}
    <2>1. n + 1 \in 1..n + 1 /\ \A i \in 1..n : i \in 1..n + 1
      BY <1>1
    <2>2. QED BY <1>1, <1>2, <1>3, <2>1 DEF ToSet
  <1>7. ASSUME NEW x, NEW y, Before(t, x, y)
        PROVE  Before(s, x, y) \/ (x \in ToSet(s) /\ y = k)
    <2>1. PICK i, j \in 1..n + 1 : i < j /\ t[i] = x /\ t[j] = y
      BY <1>2, <1>7 DEF Before
    <2>2. i \in 1..n /\ s[i] = x
      BY <1>1, <2>1
    <2>3. CASE j \in 1..n
      BY <1>1, <1>2, <2>1, <2>2, <2>3 DEF Before
    <2>4. CASE j = n + 1
      BY <1>1, <1>2, <2>1, <2>2, <2>4 DEF ToSet
    <2>5. QED BY <1>3, <2>3, <2>4
  <1>8. QED BY <1>1, <1>5, <1>6, <1>7 DEF t, n

\* The head stands before all others, and they stay in order without it.
LEMMA HeadFirst ==
    ASSUME NEW S, NEW s \in Seq(S), IsInjective(s), s # << >>
    PROVE  /\ Head(s) \in ToSet(s) /\ Head(s) \in S
           /\ Tail(s) \in Seq(S) /\ IsInjective(Tail(s))
           /\ ToSet(Tail(s)) = ToSet(s) \ {Head(s)}
           /\ Len(Tail(s)) = Len(s) - 1
           /\ \A x, y : Before(Tail(s), x, y) => Before(s, x, y)
           /\ \A y \in ToSet(Tail(s)) : Before(s, Head(s), y)
  <1> DEFINE t == Tail(s)
             n == Len(s)
  <1>1. /\ t \in Seq(S) /\ Len(t) = n - 1 /\ n \in Nat /\ n >= 1
        /\ \A i \in 1..n - 1 : t[i] = s[i + 1]
        /\ Head(s) = s[1] /\ Head(s) \in S
    BY HeadTailProperties, EmptySeq
  <1>2. DOMAIN s = 1..n /\ DOMAIN t = 1..n - 1
    BY <1>1, LenProperties
  <1> HIDE DEF t, n
  <1>3. \A i, j \in 1..n : s[i] = s[j] => i = j
    BY <1>2 DEF IsInjective
  <1>4. \A i \in 1..n - 1 : i + 1 \in 1..n /\ 1 < i + 1
    BY <1>1
  <1>5. IsInjective(t)
    BY <1>1, <1>2, <1>3, <1>4 DEF IsInjective
  <1>6. ToSet(t) \subseteq ToSet(s) \ {Head(s)}
    BY <1>1, <1>2, <1>3, <1>4 DEF ToSet
  <1>7. ToSet(s) \ {Head(s)} \subseteq ToSet(t)
    <2>1. ASSUME NEW i \in 1..n, s[i] # s[1] PROVE \E j \in 1..n - 1 : t[j] = s[i]
      <3>1. i - 1 \in 1..n - 1 /\ (i - 1) + 1 = i
        BY <1>1, <2>1
      <3>2. QED BY <1>1, <3>1
    <2>2. QED BY <1>1, <1>2, <2>1 DEF ToSet
  <1>8. Head(s) \in ToSet(s)
    BY <1>1, <1>2 DEF ToSet
  <1>9. ASSUME NEW x, NEW y, Before(t, x, y) PROVE Before(s, x, y)
    <2>1. PICK i, j \in 1..n - 1 : i < j /\ t[i] = x /\ t[j] = y
      BY <1>2, <1>9 DEF Before
    <2>2. i + 1 < j + 1 /\ s[i + 1] = x /\ s[j + 1] = y
      BY <1>1, <2>1
    <2>3. QED BY <1>2, <1>4, <2>2 DEF Before
  <1>10. ASSUME NEW y \in ToSet(t) PROVE Before(s, Head(s), y)
    <2>1. PICK i \in 1..n - 1 : t[i] = y
      BY <1>2 DEF ToSet
    <2>2. QED BY <1>1, <1>2, <1>4, <2>1 DEF Before
  <1>11. QED BY <1>1, <1>5, <1>6, <1>7, <1>8, <1>9, <1>10 DEF t, n

\* The keys of a sequence that names none twice are as many as it is long.
LEMMA SizeIsLength ==
    ASSUME NEW S, NEW s \in Seq(S), IsInjective(s)
    PROVE  IsFiniteSet(ToSet(s)) /\ Cardinality(ToSet(s)) = Len(s)
  <1>1. Len(s) \in Nat /\ DOMAIN s = 1..Len(s)
    BY LenProperties
  <1>2. IsFiniteSet(1..Len(s)) /\ Cardinality(1..Len(s)) = Len(s)
    BY <1>1, FS_Interval
  <1>3. s \in Bijection(1..Len(s), ToSet(s))
    BY <1>1 DEF ToSet, IsInjective, Bijection, Injection, Surjection
  <1>4. QED BY <1>2, <1>3, FS_Bijection DEF ExistsBijection

-----------------------------------------------------------------------------
(* GatewayCache                                                              *)

\* The Map holds its keys in the order of their last use: of two keys, the one
\* behind was used since the one before; and a key that went was followed by
\* more keys than the Map holds.
OrderOK ==
    /\ cache \in Seq(Urls) /\ IsInjective(cache) /\ Len(cache) <= MaxCacheSize
    /\ kept \subseteq Urls /\ ToSet(cache) \subseteq kept
    /\ since \in [Urls -> SUBSET Urls] /\ \A k \in Urls : IsFiniteSet(since[k])
    /\ \A x, y \in Urls : Before(cache, x, y) => y \in since[x]
    /\ \A k \in kept \ ToSet(cache) : Cardinality(since[k]) >= MaxCacheSize

\* What the clean-up has still to visit is in the Map, each key once.
CacheInv ==
    /\ CacheTypeOK /\ OrderOK
    /\ cleaning => IsInjective(ahead) /\ ToSet(ahead) \subseteq ToSet(cache)

\* The keys of a sequence.
LEMMA KeysOf ==
    ASSUME NEW S, NEW s \in Seq(S)
    PROVE  /\ ToSet(s) \subseteq S
           /\ \A x, y : Before(s, x, y) => x \in ToSet(s) /\ y \in ToSet(s)
           /\ Len(s) \in Nat
  BY LenProperties DEF ToSet, Before

\* The use of a key keeps the order, if the key is the last of the Map or not
\* in it and what leaves the Map is followed by enough others.
LEMMA UseOrder ==
    ASSUME OrderOK, NEW k \in Urls, Use(k), kept' \subseteq kept \cup {k},
           cache' \in Seq(Urls), IsInjective(cache'), Len(cache') <= MaxCacheSize,
           ToSet(cache') \subseteq kept',
           \A x, y \in Urls : Before(cache', x, y) => x # k /\ (y = k \/ Before(cache, x, y)),
           \A j \in kept' \ ToSet(cache') :
               /\ j # k
               /\ j \in ToSet(cache) => Cardinality(since[j] \cup {k}) >= MaxCacheSize
    PROVE  OrderOK'
  <1>1. /\ kept \subseteq Urls /\ since \in [Urls -> SUBSET Urls]
        /\ \A j \in Urls : IsFiniteSet(since[j])
        /\ MaxCacheSize \in Nat
    BY CacheAssumption DEF OrderOK
  <1>2. kept' \subseteq Urls
    BY <1>1
  <1>3. since' = [j \in Urls |-> IF j = k \/ j \notin kept' THEN {} ELSE since[j] \cup {k}]
    BY DEF Use
  <1>4. since' \in [Urls -> SUBSET Urls]
    BY <1>1, <1>3
  <1>5. \A j \in Urls : IsFiniteSet(since'[j])
    <2>1. IsFiniteSet({})
      BY FS_EmptySet
    <2>2. \A j \in Urls : IsFiniteSet(since[j] \cup {k})
      BY <1>1, FS_AddElement
    <2>3. QED BY <1>3, <2>1, <2>2
  <1>6. ASSUME NEW x \in Urls, NEW y \in Urls, Before(cache', x, y)
        PROVE  y \in since'[x]
    <2>1. x # k /\ (y = k \/ y \in since[x])
      BY <1>6 DEF OrderOK
    <2>2. x \in kept'
      BY <1>6, KeysOf
    <2>3. QED BY <1>3, <2>1, <2>2
  <1>7. ASSUME NEW j \in kept' \ ToSet(cache')
        PROVE  Cardinality(since'[j]) >= MaxCacheSize
    <2>1. j \in Urls /\ j # k
      BY <1>2, <1>7
    <2>2. since'[j] = since[j] \cup {k}
      BY <1>3, <1>7, <2>1
    <2>3. CASE j \in ToSet(cache)
      BY <1>7, <2>2, <2>3
    <2>4. CASE j \notin ToSet(cache)
      <3>1. j \in kept
        BY <1>7, <2>1
      <3>2. Cardinality(since[j]) >= MaxCacheSize
        BY <2>4, <3>1 DEF OrderOK
      <3>3. IsFiniteSet(since'[j]) /\ since[j] \in SUBSET since'[j]
        BY <1>5, <2>1, <2>2
      <3>4. Cardinality(since[j]) <= Cardinality(since'[j])
        BY <3>3, FS_Subset
      <3>5. Cardinality(since[j]) \in Nat /\ Cardinality(since'[j]) \in Nat
        BY <1>1, <1>5, <2>1, FS_CardinalityType
      <3>6. QED BY <1>1, <3>2, <3>4, <3>5
    <2>5. QED BY <2>3, <2>4
  <1>8. QED BY <1>2, <1>4, <1>5, <1>6, <1>7 DEF OrderOK, Before, ToSet, IsInjective

\* get moves a key to the end of the Map.
LEMMA TouchOrder ==
    ASSUME OrderOK, NEW k \in ToSet(cache), Touch(k)
    PROVE  OrderOK' /\ ToSet(cache') = ToSet(cache) /\ kept' = kept
  <1>1. /\ cache \in Seq(Urls) /\ IsInjective(cache) /\ k \in Urls
        /\ Len(cache) <= MaxCacheSize /\ ToSet(cache) \subseteq kept
    BY KeysOf DEF OrderOK
  <1> DEFINE t == Without(cache, k)
  <1>2. /\ t \in Seq(Urls) /\ IsInjective(t) /\ ToSet(t) = ToSet(cache) \ {k}
        /\ Len(t) = Len(cache) - 1
        /\ \A x, y : Before(t, x, y) => Before(cache, x, y)
    BY <1>1, WithoutProperties
  <1>3. cache' = Append(t, k) /\ kept' = kept /\ Use(k)
    BY DEF Touch
  <1> HIDE DEF t
  <1>4. /\ cache' \in Seq(Urls) /\ IsInjective(cache')
        /\ ToSet(cache') = ToSet(t) \cup {k} /\ Len(cache') = Len(t) + 1
        /\ \A x, y : Before(cache', x, y) =>
               Before(t, x, y) \/ (x \in ToSet(t) /\ y = k)
    BY <1>1, <1>2, <1>3, AppendedLast
  <1>5. ToSet(cache') = ToSet(cache)
    BY <1>2, <1>4
  <1>6. Len(cache') <= MaxCacheSize
    BY <1>1, <1>2, <1>4, KeysOf
  <1>7. \A x, y \in Urls : Before(cache', x, y) => x # k /\ (y = k \/ Before(cache, x, y))
    BY <1>2, <1>4, KeysOf
  <1>8. \A j \in kept' \ ToSet(cache') :
               /\ j # k
               /\ j \in ToSet(cache) => Cardinality(since[j] \cup {k}) >= MaxCacheSize
    BY <1>5
  <1>9. kept' \subseteq kept \cup {k} /\ ToSet(cache') \subseteq kept'
    BY <1>1, <1>3, <1>5
  <1>10. OrderOK'
    BY <1>1, <1>3, <1>4, <1>6, <1>7, <1>8, <1>9, UseOrder
  <1>11. QED BY <1>3, <1>5, <1>10

\* The clean-up deletes a key.
LEMMA DropOrder ==
    ASSUME OrderOK, NEW k \in Urls, cache' = Without(cache, k), kept' = kept \ {k}, Use(k)
    PROVE  OrderOK' /\ ToSet(cache') = ToSet(cache) \ {k}
  <1>1. /\ cache \in Seq(Urls) /\ IsInjective(cache)
        /\ Len(cache) <= MaxCacheSize /\ ToSet(cache) \subseteq kept
        /\ MaxCacheSize \in Nat
    BY CacheAssumption DEF OrderOK
  <1>2. /\ cache' \in Seq(Urls) /\ IsInjective(cache') /\ ToSet(cache') = ToSet(cache) \ {k}
        /\ Len(cache') = IF k \in ToSet(cache) THEN Len(cache) - 1 ELSE Len(cache)
        /\ \A x, y : Before(cache', x, y) => Before(cache, x, y)
    BY <1>1, WithoutProperties
  <1>3. Len(cache') <= MaxCacheSize
    BY <1>1, <1>2, KeysOf
  <1>4. \A x, y \in Urls : Before(cache', x, y) => x # k /\ (y = k \/ Before(cache, x, y))
    BY <1>2, KeysOf
  <1>5. \A j \in kept' \ ToSet(cache') :
               /\ j # k
               /\ j \in ToSet(cache) => Cardinality(since[j] \cup {k}) >= MaxCacheSize
    BY <1>2
  <1>6. kept' \subseteq kept \cup {k} /\ ToSet(cache') \subseteq kept'
    BY <1>1, <1>2
  <1>7. OrderOK'
    BY <1>2, <1>3, <1>4, <1>5, <1>6, UseOrder
  <1>8. QED BY <1>2, <1>7

\* set appends a key; the first one, which all others followed, makes room.
LEMMA StoreOrder ==
    ASSUME OrderOK, NEW k \in Urls, cache' = Stored(k), kept' = kept \cup {k}, Use(k)
    PROVE  OrderOK'
  <1>1. /\ cache \in Seq(Urls) /\ IsInjective(cache)
        /\ Len(cache) <= MaxCacheSize /\ ToSet(cache) \subseteq kept
        /\ MaxCacheSize \in Nat \ {0} /\ Len(cache) \in Nat
        /\ \A j \in Urls : IsFiniteSet(since[j])
        /\ \A x, y \in Urls : Before(cache, x, y) => y \in since[x]
    BY CacheAssumption, KeysOf DEF OrderOK
  <1> DEFINE t == Without(cache, k)
             u == IF Len(t) >= MaxCacheSize THEN Tail(t) ELSE t
  <1>2. /\ t \in Seq(Urls) /\ IsInjective(t) /\ ToSet(t) = ToSet(cache) \ {k}
        /\ Len(t) = IF k \in ToSet(cache) THEN Len(cache) - 1 ELSE Len(cache)
        /\ Len(t) \in Nat
        /\ \A x, y : Before(t, x, y) => Before(cache, x, y)
    BY <1>1, WithoutProperties, KeysOf
  <1>3. cache' = Append(u, k)
    BY DEF Stored
  <1> HIDE DEF t
  <1>4. CASE Len(t) >= MaxCacheSize
    <2>1. u = Tail(t) /\ t # << >>
      BY <1>1, <1>2, <1>4, EmptySeq
    <2>2. k \notin ToSet(cache) /\ Len(t) = MaxCacheSize
      BY <1>1, <1>2, <1>4
    <2>3. PICK h \in Urls : h = Head(t)
      BY <1>2, <2>1, HeadFirst
    <2>4. /\ u \in Seq(Urls) /\ IsInjective(u) /\ ToSet(u) = ToSet(t) \ {h}
          /\ Len(u) = Len(t) - 1 /\ h \in ToSet(t)
          /\ \A x, y : Before(u, x, y) => Before(t, x, y)
          /\ \A y \in ToSet(u) : Before(t, h, y)
      BY <1>2, <2>1, <2>3, HeadFirst
    <2> HIDE DEF u
    <2>5. /\ cache' \in Seq(Urls) /\ IsInjective(cache')
          /\ ToSet(cache') = ToSet(u) \cup {k} /\ Len(cache') = Len(u) + 1
          /\ \A x, y : Before(cache', x, y) =>
                 Before(u, x, y) \/ (x \in ToSet(u) /\ y = k)
      <3>1. k \notin ToSet(u)
        BY <1>2, <2>4
      <3>2. QED BY <1>3, <2>4, <3>1, AppendedLast
    <2>6. Len(cache') = MaxCacheSize
      BY <1>1, <1>2, <2>2, <2>4, <2>5
    <2>7. \A x, y \in Urls : Before(cache', x, y) => x # k /\ (y = k \/ Before(cache, x, y))
      BY <1>2, <2>4, <2>5, KeysOf
    <2>8. ToSet(cache') \in SUBSET (since[h] \cup {k})
      <3>1. \A y \in ToSet(u) : y \in Urls /\ Before(cache, h, y)
        BY <1>2, <2>4, KeysOf
      <3>2. QED BY <1>1, <2>5, <3>1
    <2>9. Cardinality(since[h] \cup {k}) >= MaxCacheSize
      <3>1. IsFiniteSet(since[h] \cup {k})
        BY <1>1, FS_AddElement
      <3>2. Cardinality(ToSet(cache')) = MaxCacheSize
        BY <2>5, <2>6, SizeIsLength
      <3>3. Cardinality(ToSet(cache')) <= Cardinality(since[h] \cup {k})
        BY <2>8, <3>1, FS_Subset
      <3>4. Cardinality(since[h] \cup {k}) \in Nat
        BY <3>1, FS_CardinalityType
      <3>5. QED BY <1>1, <3>2, <3>3, <3>4
    <2>10. \A j \in kept' \ ToSet(cache') :
               /\ j # k
               /\ j \in ToSet(cache) => Cardinality(since[j] \cup {k}) >= MaxCacheSize
      BY <1>2, <2>4, <2>5, <2>9
    <2>11. kept' \subseteq kept \cup {k} /\ ToSet(cache') \subseteq kept'
      BY <1>1, <1>2, <2>4, <2>5
    <2>12. Len(cache') <= MaxCacheSize
      BY <1>1, <2>6
    <2>13. QED BY <2>5, <2>7, <2>10, <2>11, <2>12, UseOrder
  <1>5. CASE ~(Len(t) >= MaxCacheSize)
    <2>1. u = t
      BY <1>5
    <2> HIDE DEF u
    <2>2. /\ cache' \in Seq(Urls) /\ IsInjective(cache')
          /\ ToSet(cache') = ToSet(t) \cup {k} /\ Len(cache') = Len(t) + 1
          /\ \A x, y : Before(cache', x, y) =>
                 Before(t, x, y) \/ (x \in ToSet(t) /\ y = k)
      <3>1. k \notin ToSet(t)
        BY <1>2
      <3>2. QED BY <1>2, <1>3, <2>1, <3>1, AppendedLast
    <2>3. Len(cache') <= MaxCacheSize
      BY <1>1, <1>2, <1>5, <2>2
    <2>4. \A x, y \in Urls : Before(cache', x, y) => x # k /\ (y = k \/ Before(cache, x, y))
      BY <1>2, <2>2, KeysOf
    <2>5. \A j \in kept' \ ToSet(cache') :
               /\ j # k
               /\ j \in ToSet(cache) => Cardinality(since[j] \cup {k}) >= MaxCacheSize
      BY <1>2, <2>2
    <2>6. kept' \subseteq kept \cup {k} /\ ToSet(cache') \subseteq kept'
      BY <1>1, <1>2, <2>2
    <2>7. QED BY <2>2, <2>3, <2>4, <2>5, <2>6, UseOrder
  <1>6. QED BY <1>4, <1>5

\* An entry is found.
LEMMA CacheHitInv ==
    ASSUME CacheInv, NEW r \in CacheRequests, NEW k \in Urls, CacheHit(r, k)
    PROVE  CacheInv'
  <1>1. /\ CacheTypeOK /\ OrderOK /\ ~cleaning /\ k \in ToSet(cache) /\ Touch(k)
        /\ missed' = [missed EXCEPT ![r] = IF k \in fresh THEN NoUrl ELSE k]
        /\ UNCHANGED <<fresh, cleaning, ahead, visit>>
    BY DEF CacheInv, CacheHit
  <1>2. OrderOK' /\ ToSet(cache') = ToSet(cache)
    BY <1>1, TouchOrder
  <1>3. missed' \in [CacheRequests -> Urls \cup {NoUrl}]
    BY <1>1 DEF CacheTypeOK
  <1>4. CacheTypeOK'
    BY <1>1, <1>2, <1>3 DEF CacheTypeOK, OrderOK, ToSet, IsInjective
  <1>5. QED BY <1>1, <1>2, <1>4 DEF CacheInv

\* An answer is stored.
LEMMA CacheStoreInv ==
    ASSUME CacheInv, NEW r \in CacheRequests, CacheStore(r)
    PROVE  CacheInv'
  <1>1. /\ CacheTypeOK /\ OrderOK /\ ~cleaning
        /\ UNCHANGED <<cleaning, ahead, visit>>
        /\ fresh' = (fresh \cup {missed[r]}) \cap ToSet(cache')
        /\ missed' = [missed EXCEPT ![r] = NoUrl]
    BY DEF CacheInv, CacheStore
  <1>2. PICK k \in Urls : k = missed[r]
    BY <1>1 DEF CacheTypeOK, CacheStore
  <1>3. cache' = Stored(k) /\ kept' = kept \cup {k} /\ Use(k)
    BY <1>2 DEF CacheStore
  <1>4. OrderOK'
    BY <1>1, <1>3, StoreOrder
  <1>5. missed' \in [CacheRequests -> Urls \cup {NoUrl}]
    BY <1>1 DEF CacheTypeOK
  <1>6. CacheTypeOK'
    BY <1>1, <1>4, <1>5 DEF CacheTypeOK, OrderOK, ToSet, IsInjective
  <1>7. QED BY <1>1, <1>4, <1>6 DEF CacheInv

\* The clean-up visits the next key: it moves it, or it deletes it.
LEMMA VisitKeyInv ==
    ASSUME CacheInv, VisitKey
    PROVE  CacheInv'
  <1>1. /\ CacheTypeOK /\ OrderOK /\ ahead \in Seq(Urls) /\ ahead # << >>
        /\ IsInjective(ahead) /\ ToSet(ahead) \subseteq ToSet(cache)
        /\ UNCHANGED <<fresh, missed, cleaning>> /\ visit' \in BOOLEAN
    BY DEF CacheInv, CacheTypeOK, VisitKey
  <1>2. PICK k \in Urls : k = Head(ahead)
    BY <1>1, HeadFirst
  <1> DEFINE t == Tail(ahead)
  <1>3. /\ k \in ToSet(ahead) /\ t \in Seq(Urls) /\ IsInjective(t)
        /\ ToSet(t) = ToSet(ahead) \ {k}
    BY <1>1, <1>2, HeadFirst
  <1>4. IF k \in fresh
        THEN Touch(k) /\ ahead' = Append(t, k)
        ELSE cache' = Without(cache, k) /\ kept' = kept \ {k} /\ Use(k) /\ ahead' = t
    BY <1>2 DEF VisitKey
  <1> HIDE DEF t
  <1>5. /\ OrderOK' /\ fresh' \subseteq ToSet(cache')
        /\ ahead' \in Seq(Urls) /\ IsInjective(ahead') /\ ToSet(ahead') \subseteq ToSet(cache')
    <2>1. CASE k \in fresh
      <3>1. k \in ToSet(cache) /\ Touch(k) /\ ahead' = Append(t, k)
        BY <1>1, <1>3, <1>4, <2>1
      <3>2. OrderOK' /\ ToSet(cache') = ToSet(cache)
        BY <1>1, <3>1, TouchOrder
      <3>3. k \notin ToSet(t)
        BY <1>3
      <3>4. ahead' \in Seq(Urls) /\ IsInjective(ahead') /\ ToSet(ahead') = ToSet(t) \cup {k}
        BY <1>3, <3>1, <3>3, AppendedLast
      <3>5. QED BY <1>1, <1>3, <3>2, <3>4 DEF CacheTypeOK
    <2>2. CASE k \notin fresh
      <3>1. cache' = Without(cache, k) /\ kept' = kept \ {k} /\ Use(k) /\ ahead' = t
        BY <1>4, <2>2
      <3>2. OrderOK' /\ ToSet(cache') = ToSet(cache) \ {k}
        BY <1>1, <3>1, DropOrder
      <3>3. /\ ahead' \in Seq(Urls) /\ IsInjective(ahead')
            /\ ToSet(ahead') = ToSet(ahead) \ {k}
        BY <1>3, <3>1
      <3>4. QED BY <1>1, <2>2, <3>2, <3>3 DEF CacheTypeOK
    <2>3. QED BY <2>1, <2>2
  <1>6. CacheTypeOK'
    BY <1>1, <1>5 DEF CacheTypeOK, OrderOK, ToSet, IsInjective
  <1>7. QED BY <1>5, <1>6 DEF CacheInv

\* The steps that leave the Map alone.
LEMMA CacheRestInv ==
    ASSUME CacheInv,
           \/ \E r \in CacheRequests : CacheSkip(r) \/ \E k \in Urls : CacheMiss(r, k)
           \/ \E k \in Urls : ExpireEntry(k)
           \/ StartCleanup \/ EndCleanup \/ UNCHANGED cacheVars
    PROVE  CacheInv'
  <1>1. /\ CacheTypeOK /\ OrderOK /\ UNCHANGED <<cache, kept, since, visit>>
        /\ cleaning => IsInjective(ahead) /\ ToSet(ahead) \subseteq ToSet(cache)
    BY DEF CacheInv, CacheMiss, CacheSkip, ExpireEntry, StartCleanup, EndCleanup, cacheVars
  <1>2. OrderOK'
    BY <1>1 DEF OrderOK, Before, ToSet, IsInjective
  <1>3. /\ missed' \in [CacheRequests -> Urls \cup {NoUrl}]
        /\ fresh' \subseteq fresh /\ cleaning' \in BOOLEAN /\ ahead' \in {ahead, cache}
        /\ cleaning' => (ahead' = ahead /\ cleaning) \/ ahead' = cache
    <2>1. /\ missed \in [CacheRequests -> Urls \cup {NoUrl}] /\ cleaning \in BOOLEAN
      BY <1>1 DEF CacheTypeOK
    <2>2. CASE \E r \in CacheRequests : CacheSkip(r) \/ \E k \in Urls : CacheMiss(r, k)
      BY <2>1, <2>2 DEF CacheMiss, CacheSkip
    <2>3. CASE \E k \in Urls : ExpireEntry(k)
      BY <2>1, <2>3 DEF ExpireEntry
    <2>4. CASE StartCleanup
      BY <2>1, <2>4 DEF StartCleanup
    <2>5. CASE EndCleanup
      BY <2>1, <2>5 DEF EndCleanup
    <2>6. CASE UNCHANGED cacheVars
      BY <2>1, <2>6 DEF cacheVars
    <2>7. QED BY <2>2, <2>3, <2>4, <2>5, <2>6
  <1>4. CacheTypeOK'
    BY <1>1, <1>2, <1>3 DEF CacheTypeOK, OrderOK, ToSet, IsInjective
  <1>5. cleaning' => IsInjective(ahead)' /\ ToSet(ahead)' \subseteq ToSet(cache)'
    BY <1>1, <1>3 DEF OrderOK, ToSet, IsInjective
  <1>6. QED BY <1>2, <1>4, <1>5 DEF CacheInv

\* The Map starts empty.
LEMMA CacheInitInv == CacheInit => CacheInv
  <1> SUFFICES ASSUME CacheInit PROVE CacheInv
    OBVIOUS
  <1>1. /\ cache = << >> /\ fresh = {} /\ kept = {} /\ since = [k \in Urls |-> {}]
        /\ missed = [r \in CacheRequests |-> NoUrl] /\ cleaning = FALSE
        /\ ahead = << >> /\ visit = FALSE
    BY DEF CacheInit
  <1>2. << >> \in Seq(Urls) /\ Len(<< >>) = 0 /\ DOMAIN << >> = {}
    BY EmptySeq
  <1>3. ToSet(<< >>) = {} /\ IsInjective(<< >>) /\ \A x, y : ~Before(<< >>, x, y)
    BY <1>2 DEF ToSet, IsInjective, Before
  <1>4. OrderOK
    BY <1>1, <1>2, <1>3, FS_EmptySet, CacheAssumption DEF OrderOK
  <1>5. CacheTypeOK
    BY <1>1, <1>2, <1>3 DEF CacheTypeOK
  <1>6. QED BY <1>1, <1>4, <1>5 DEF CacheInv

\* CacheInv holds in every reachable state.
LEMMA CacheInvariance == CacheInit /\ [][CacheNext]_cacheVars => []CacheInv
  <1>1. CacheInv /\ [CacheNext]_cacheVars => CacheInv'
    <2>1. SUFFICES ASSUME CacheInv, [CacheNext]_cacheVars
                   PROVE  CacheInv'
      OBVIOUS
    <2>2. CASE UNCHANGED cacheVars
      BY <2>1, <2>2, CacheRestInv
    <2>3. CASE CacheNext
      <3>1. CASE \E r \in CacheRequests, k \in Urls : CacheHit(r, k)
        BY <2>1, <3>1, CacheHitInv
      <3>2. CASE \E r \in CacheRequests : CacheStore(r)
        BY <2>1, <3>2, CacheStoreInv
      <3>3. CASE VisitKey
        BY <2>1, <3>3, VisitKeyInv
      <3>4. QED BY <2>1, <2>3, <3>1, <3>2, <3>3, CacheRestInv DEF CacheNext
    <2>4. QED BY <2>1, <2>2, <2>3
  <1>2. QED BY CacheInitInv, <1>1, PTL

\* The Map, the clean-up and the requests always have their types.
THEOREM CacheTypes == CacheSpec => []CacheTypeOK
  <1>1. CacheInv => CacheTypeOK
    BY DEF CacheInv
  <1>2. QED BY CacheInvariance, <1>1, PTL DEF CacheSpec

\* The cache is bounded, and what it drops is what was used least recently.
THEOREM CacheDropsLeastRecent == CacheSpec => []LeastRecentGoes
  <1>1. CacheInv => LeastRecentGoes
    <2>1. SUFFICES ASSUME CacheInv, NEW k \in kept, Cardinality(since[k]) < MaxCacheSize
                   PROVE  k \in ToSet(cache)
      BY DEF CacheInv, OrderOK, LeastRecentGoes
    <2>2. k \in Urls /\ IsFiniteSet(since[k])
      BY <2>1 DEF CacheInv, OrderOK
    <2>3. Cardinality(since[k]) \in Nat /\ MaxCacheSize \in Nat
      BY <2>2, FS_CardinalityType, CacheAssumption
    <2>4. QED BY <2>1, <2>3 DEF CacheInv, OrderOK
  <1>2. QED BY CacheInvariance, <1>1, PTL DEF CacheSpec

-----------------------------------------------------------------------------
(* RateLimiter                                                               *)

\* Only counted requests pass, and those that pass a limit were not above it.
LimitInv ==
    /\ LimitTypeOK
    /\ \A t \in Routes : admitted[t] <= count /\ admitted[t] <= Limit[t]

\* The largest limit is one.
LEMMA TopLimitIsLargest ==
    /\ TopLimit \in Nat /\ Window \in Nat \ {0}
    /\ \A t \in Routes : Limit[t] \in Nat \ {0} /\ Limit[t] <= TopLimit
  <1> DEFINE L == {Limit[t] : t \in Routes}
  <1>1. /\ Window \in Nat \ {0} /\ \A t \in Routes : Limit[t] \in Nat \ {0}
        /\ \E n \in L : \A m \in L : n >= m
    BY LimiterAssumption
  <1>2. TopLimit \in L /\ \A m \in L : TopLimit >= m
    BY <1>1 DEF TopLimit, Max
  <1>3. QED BY <1>1, <1>2

\* A request is counted, and noted where it passes.
LEMMA HitInv ==
    ASSUME LimitInv, NEW t \in Routes, Hit(t)
    PROVE  LimitInv'
  <1>1. /\ count \in Nat /\ count <= TopLimit + 1 /\ left \in 0..Window
        /\ admitted \in [Routes -> Nat] /\ (left = 0 <=> count = 0)
        /\ \A u \in Routes : admitted[u] <= count /\ admitted[u] <= Limit[u]
    BY TopLimitIsLargest DEF LimitInv, LimitTypeOK
  <1>2. /\ count' = IF count <= TopLimit THEN count + 1 ELSE count
        /\ left' = IF left = 0 THEN Window ELSE left
        /\ admitted' = [u \in Routes |->
               IF count < Limit[t] /\ Limit[t] <= Limit[u] THEN admitted[u] + 1 ELSE admitted[u]]
    BY DEF Hit, Count, Note
  <1>3. /\ count' \in 0..TopLimit + 1 /\ left' \in 0..Window /\ (left' = 0 <=> count' = 0)
        /\ count' >= count /\ (count < Limit[t] => count' = count + 1)
    BY <1>1, <1>2, TopLimitIsLargest
  <1>4. ASSUME NEW u \in Routes
        PROVE  admitted'[u] \in Nat /\ admitted'[u] <= count' /\ admitted'[u] <= Limit[u]
    <2>1. CASE count < Limit[t] /\ Limit[t] <= Limit[u]
      <3>1. admitted'[u] = admitted[u] + 1 /\ count' = count + 1
        BY <1>2, <1>3, <2>1
      <3>2. QED BY <1>1, <2>1, <3>1, TopLimitIsLargest
    <2>2. CASE ~(count < Limit[t] /\ Limit[t] <= Limit[u])
      <3>1. admitted'[u] = admitted[u]
        BY <1>2, <2>2
      <3>2. QED BY <1>1, <1>3, <3>1, TopLimitIsLargest
    <2>3. QED BY <2>1, <2>2
  <1>5. admitted' \in [Routes -> Nat]
    BY <1>2, <1>4
  <1>6. QED BY <1>3, <1>4, <1>5 DEF LimitInv, LimitTypeOK

\* Time passes.
LEMMA LimitTickInv ==
    ASSUME LimitInv, LimitTick
    PROVE  LimitInv'
  BY TopLimitIsLargest DEF LimitInv, LimitTypeOK, LimitTick

\* LimitInv holds in every reachable state.
LEMMA LimitInvariance == LimitInit /\ [][LimitNext]_limitVars => []LimitInv
  <1>1. LimitInit => LimitInv
    BY TopLimitIsLargest DEF LimitInit, LimitInv, LimitTypeOK
  <1>2. LimitInv /\ [LimitNext]_limitVars => LimitInv'
    <2>1. LimitInv /\ UNCHANGED limitVars => LimitInv'
      BY DEF limitVars, LimitInv, LimitTypeOK
    <2>2. QED BY <2>1, HitInv, LimitTickInv DEF LimitNext
  <1>3. QED BY <1>1, <1>2, PTL

\* The counter, the window and the history always have their types.
THEOREM LimiterTypes == LimitSpec => []LimitTypeOK
  <1>1. LimitInv => LimitTypeOK
    BY DEF LimitInv
  <1>2. QED BY LimitInvariance, <1>1, PTL DEF LimitSpec

\* The limiters that share a count let pass, taken together, no more than the
\* largest of their limits.
THEOREM SharedCountLimits == LimitSpec => []AdmittedWithinLimit
  <1>1. LimitInv => AdmittedWithinLimit
    BY DEF LimitInv, AdmittedWithinLimit
  <1>2. QED BY LimitInvariance, <1>1, PTL DEF LimitSpec

-----------------------------------------------------------------------------
(* PiCircuit                                                                 *)

\* The breaker and the calls always have their types.
LEMMA CircuitInvariance == CircuitInit /\ [][CircuitNext]_circuitVars => []CircuitTypeOK
  <1>1. CircuitInit => CircuitTypeOK
    BY CircuitAssumption DEF CircuitInit, CircuitTypeOK
  <1>2. CircuitTypeOK /\ [CircuitNext]_circuitVars => CircuitTypeOK'
    <2>1. SUFFICES ASSUME CircuitTypeOK, [CircuitNext]_circuitVars
                   PROVE  CircuitTypeOK'
      OBVIOUS
    <2>2. ASSUME NEW c \in Calls,
                 CallPi(c) \/ PiOk(c) \/ PiRefuses(c) \/ PiRetry(c) \/ PiGivesUp(c)
          PROVE  CircuitTypeOK'
      <3>1. PICK n \in 0..MaxRetries : SetAttempt(c, n)
        <4>1. attempt[c] \in 0..MaxRetries
          BY <2>1 DEF CircuitTypeOK
        <4>2. QED BY <2>2, <4>1, CircuitAssumption DEF CallPi, PiOk, PiRefuses, PiRetry, PiGivesUp
      <3>2. attempt' \in [Calls -> 0..MaxRetries]
        BY <2>1, <3>1 DEF CircuitTypeOK, SetAttempt
      <3>3. circuitFailures' \in 0..Threshold /\ circuitOpen' \in 0..OpenTicks
        BY <2>1, <2>2, CircuitAssumption
        DEF CircuitTypeOK, CallPi, PiOk, PiRefuses, PiRetry, PiGivesUp
      <3>4. QED BY <3>2, <3>3 DEF CircuitTypeOK
    <2>3. CASE CircuitRestart \/ CircuitTick
      BY <2>1, <2>3, CircuitAssumption DEF CircuitTypeOK, CircuitRestart, CircuitTick
    <2>4. CASE UNCHANGED circuitVars
      BY <2>1, <2>4 DEF CircuitTypeOK, circuitVars
    <2>5. QED BY <2>1, <2>2, <2>3, <2>4 DEF CircuitNext
  <1>3. QED BY <1>1, <1>2, PTL

-----------------------------------------------------------------------------
(* MCGuards: the parts side by side                                          *)

\* A behaviour of all parts is one of each.
LEMMA GuardsAreParts ==
    MCSpec => /\ IdemSpec /\ TokenSpec
              /\ LimitInit /\ [][LimitNext]_limitVars
              /\ CircuitInit /\ [][CircuitNext]_circuitVars
              /\ CacheInit /\ [][CacheNext]_cacheVars
  <1>1. MCInit => IdemInit /\ LimitInit /\ CircuitInit /\ TokenInit /\ CacheInit
    BY DEF MCInit
  <1>2. [MCNext]_MCVars => /\ [IdemNext]_idemVars /\ [TokenNext]_tokenVars
                           /\ [LimitNext]_limitVars /\ [CircuitNext]_circuitVars
                           /\ [CacheNext]_cacheVars
    BY DEF MCNext, MCVars, FollowIdempotency, FollowLimiter, FollowCircuit, FollowTokens,
           FollowCache
  <1>3. QED BY <1>1, <1>2, PTL DEF MCSpec, IdemSpec, TokenSpec

\* Side by side, every part keeps its types.
THEOREM GuardsTypes == MCSpec => []GuardsTypeOK
  <1>1. LimitInv => LimitTypeOK
    BY DEF LimitInv
  <1>2. CacheInv => CacheTypeOK
    BY DEF CacheInv
  <1>3. IdemTypeOK /\ LimitTypeOK /\ CircuitTypeOK /\ TokenTypeOK /\ CacheTypeOK => GuardsTypeOK
    BY DEF GuardsTypeOK
  <1>4. QED BY GuardsAreParts, IdempotencyTypes, RefreshTokenTypes, LimitInvariance,
               CircuitInvariance, CacheInvariance, <1>1, <1>2, <1>3, PTL
=============================================================================
