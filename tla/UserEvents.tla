------------------------------ MODULE UserEvents ------------------------------
(***************************************************************************)
(* The first login of a user and what follows: auth.service.ts writes the  *)
(* account and appends user.created; the identity, analytics, notification *)
(* and realtime services read it, each in a consumer group of its own.     *)
(* Their loops ask for new entries only ('>'): an entry whose handler      *)
(* fails stays pending and is never read again, unlike in WalletConsumer.  *)
(* Entries are handled one by one and meet in the database only, so each   *)
(* entry has a place of its own.  Groups share nothing but the stream, so  *)
(* a behaviour follows one of them.                                        *)
(***************************************************************************)
EXTENDS ServiceRequests, Sequences

CONSTANTS
    MaxEvents,  \* bound: entries appended
    ReadCount   \* COUNT, entries handed out by one read

ASSUME UserEventAssumption == MaxEvents \in Nat /\ ReadCount \in Nat \ {0}

VARIABLES
    accounts,    \* users with a row in the auth service, unique by pi_uid
    identities,  \* users with a row in the identity service, unique by pi_user_id
    created,     \* the stream user.created; history: entries lost with Redis too
    repeated,    \* history: users whose event was appended again or in parallel
    group,       \* the consumer group that is followed
    groupPos,    \* last entry it has handed out, NoGroup if it does not exist
    place,       \* what its consumer has done with an entry
    tracked,     \* rows of the analytics events table
    newUsers,    \* column new_users of the daily metric
    notices,     \* rows of the notifications table, or messages to the user's socket
    loginReq     \* what each running request is doing

userVars == <<accounts, identities, created, repeated, group, groupPos, place,
              tracked, newUsers, notices, loginReq>>
loginVars == <<accounts, created, repeated, loginReq>>
effectVars == <<identities, tracked, newUsers, notices>>
consumerVars == <<group, groupPos, place>>

Groups == {"identity", "analytics", "notification", "realtime"}
Events == 1..MaxEvents
NoGroup == -1
\* A handler waits to run, has found nothing, has tracked, waits for XACK, was
\* given up, or its entry is acknowledged
Places == {"stored", "handle", "create", "count", "ack", "left", "acked"}
Running == {"handle", "create", "count", "ack"}

LoginPc == {"idle", "upsert", "emit", "register", "identity"}
LoginStep(pc, user, isNew) == [pc |-> pc, user |-> user, isNew |-> isNew]
LoginIdle == LoginStep("idle", Nobody, FALSE)

UserInit ==
    /\ accounts = {} /\ identities = {}
    /\ created = << >> /\ repeated = {}
    /\ group \in Groups
    /\ groupPos = NoGroup
    /\ place = [e \in Events |-> "stored"]
    /\ tracked = 0 /\ newUsers = 0 /\ notices = 0
    /\ loginReq = [r \in Requests |-> LoginIdle]

LoginAt(r, pc) == loginReq[r].pc = pc
StartLogin(r, step) == loginReq' = [loginReq EXCEPT ![r] = step]
EndLogin(r) == loginReq' = [loginReq EXCEPT ![r] = LoginIdle]

-----------------------------------------------------------------------------
(* auth.service.ts                                                           *)

\* piLogin, after the Pi Network has confirmed the token: is the user known?
PiLogin(r, u) ==
    /\ LoginAt(r, "idle")
    /\ StartLogin(r, LoginStep("upsert", u, u \notin accounts))
    /\ UNCHANGED <<accounts, created, repeated, effectVars, consumerVars>>

\* Fault: every login appends the event
UpsertUserEmits(r) ==
    /\ LoginAt(r, "upsert")
    /\ LET q == loginReq[r] IN
           /\ accounts' = accounts \cup {q.user}
           /\ repeated' = IF q.isNew /\ q.user \in accounts THEN repeated \cup {q.user} ELSE repeated
           /\ StartLogin(r, LoginStep("emit", q.user, TRUE))
    /\ UNCHANGED <<created, effectVars, consumerVars>>

\* upsert, a single statement for the database
UpsertUser(r) ==
    /\ LoginAt(r, "upsert")
    /\ LET q == loginReq[r] IN
           /\ accounts' = accounts \cup {q.user}
           /\ repeated' = IF q.isNew /\ q.user \in accounts THEN repeated \cup {q.user} ELSE repeated
           /\ IF q.isNew THEN StartLogin(r, LoginStep("emit", q.user, TRUE)) ELSE EndLogin(r)
    /\ UNCHANGED <<created, effectVars, consumerVars>>

\* XADD
EmitUserCreated(r) ==
    /\ LoginAt(r, "emit") /\ Len(created) < MaxEvents
    /\ created' = Append(created, loginReq[r].user)
    /\ EndLogin(r)
    /\ UNCHANGED <<accounts, repeated, effectVars, consumerVars>>

\* The connection breaks after the XADD, and the client sends it again
EmitResent(r) ==
    /\ LoginAt(r, "emit") /\ Len(created) < MaxEvents
    /\ created' = Append(created, loginReq[r].user)
    /\ repeated' = repeated \cup {loginReq[r].user}
    /\ UNCHANGED <<accounts, loginReq, effectVars, consumerVars>>

\* register with a pi_uid: nobody has it
Register(r, u) ==
    /\ LoginAt(r, "idle") /\ u \notin accounts
    /\ StartLogin(r, LoginStep("register", u, TRUE))
    /\ UNCHANGED <<accounts, created, repeated, effectVars, consumerVars>>

\* create, unless the unique index refuses it (FailLogin); no event follows
CreateAccount(r) ==
    /\ LoginAt(r, "register") /\ loginReq[r].user \notin accounts
    /\ accounts' = accounts \cup {loginReq[r].user}
    /\ EndLogin(r)
    /\ UNCHANGED <<created, repeated, effectVars, consumerVars>>

-----------------------------------------------------------------------------
(* identity.service.ts, called by the identity controller                    *)

\* findOrCreateUser finds no row
MissIdentity(r, u) ==
    /\ LoginAt(r, "idle") /\ u \notin identities
    /\ StartLogin(r, LoginStep("identity", u, FALSE))
    /\ UNCHANGED <<accounts, created, repeated, effectVars, consumerVars>>

\* create, unless the unique index refuses it (FailLogin)
CreateIdentity(r) ==
    /\ LoginAt(r, "identity") /\ loginReq[r].user \notin identities
    /\ identities' = identities \cup {loginReq[r].user}
    /\ EndLogin(r)
    /\ UNCHANGED <<accounts, created, repeated, tracked, newUsers, notices, consumerVars>>

\* A unique violation, a lost connection, an XADD that fails, or the end of the
\* process
FailLogin(r) ==
    /\ ~LoginAt(r, "idle")
    /\ EndLogin(r)
    /\ UNCHANGED <<accounts, created, repeated, effectVars, consumerVars>>

-----------------------------------------------------------------------------
(* The consumers                                                             *)

MoveEntry(e, p) == place' = [place EXCEPT ![e] = p]

\* XGROUP CREATE ... '$' at the start, or after NOGROUP
EnsureGroup ==
    /\ groupPos = NoGroup
    /\ groupPos' = Len(created)
    /\ UNCHANGED <<loginVars, effectVars, group, place>>

\* Redis comes back without its data
GroupLost ==
    /\ groupPos # NoGroup
    /\ groupPos' = NoGroup
    /\ UNCHANGED <<loginVars, effectVars, group, place>>

\* The entries that a read hands out, and the last of them
LastRead == IF groupPos + ReadCount < Len(created) THEN groupPos + ReadCount ELSE Len(created)
NewEvents == {e \in Events : groupPos < e /\ e <= LastRead}
HandOut(es, p) == place' = [e \in Events |-> IF e \in es THEN p ELSE place[e]]

\* Fault: pending entries are read again
ReadGroupPending ==
    /\ groupPos # NoGroup
    /\ LET again == NewEvents \cup {e \in Events : place[e] = "left"} IN
           again # {} /\ HandOut(again, "handle")
    /\ groupPos' = LastRead
    /\ UNCHANGED <<loginVars, effectVars, group>>

\* XREADGROUP '>'; the answer may be lost with the connection, and the
\* entries are pending all the same
ReadGroup ==
    /\ groupPos # NoGroup /\ NewEvents # {}
    /\ \E p \in {"handle", "left"} : HandOut(NewEvents, p)
    /\ groupPos' = LastRead
    /\ UNCHANGED <<loginVars, effectVars, group>>

\* The identity consumer: findOrCreateUser
FindUser(e) ==
    /\ group = "identity" /\ place[e] = "handle"
    /\ MoveEntry(e, IF created[e] \in identities THEN "ack" ELSE "create")
    /\ UNCHANGED <<loginVars, effectVars, group, groupPos>>

CreateUser(e) ==
    /\ group = "identity" /\ place[e] = "create" /\ created[e] \notin identities
    /\ identities' = identities \cup {created[e]}
    /\ \E p \in {"ack", "left"} : MoveEntry(e, p)
    /\ UNCHANGED <<loginVars, tracked, newUsers, notices, group, groupPos>>

\* trackEvent of the analytics consumer; like every write, it may take effect
\* although an error is thrown
TrackEvent(e) ==
    /\ group = "analytics" /\ place[e] = "handle"
    /\ tracked' = tracked + 1
    /\ \E p \in {"count", "left"} : MoveEntry(e, p)
    /\ UNCHANGED <<loginVars, identities, newUsers, notices, group, groupPos>>

\* updateDailyMetric: an upsert that increments
UpdateDailyMetric(e) ==
    /\ group = "analytics" /\ place[e] = "count"
    /\ newUsers' = newUsers + 1
    /\ \E p \in {"ack", "left"} : MoveEntry(e, p)
    /\ UNCHANGED <<loginVars, identities, tracked, notices, group, groupPos>>

\* The notification consumer: create; the realtime consumer: emitToUser
CreateNotice(e) ==
    /\ group \in {"notification", "realtime"} /\ place[e] = "handle"
    /\ notices' = notices + 1
    /\ \E p \in {"ack", "left"} : MoveEntry(e, p)
    /\ UNCHANGED <<loginVars, identities, tracked, newUsers, group, groupPos>>

\* XACK
AckEntry(e) ==
    /\ place[e] = "ack"
    /\ MoveEntry(e, "acked")
    /\ UNCHANGED <<loginVars, effectVars, group, groupPos>>

\* The handler or the XACK throws, or the process ends
LeaveEntry(e) ==
    /\ place[e] \in Running
    /\ MoveEntry(e, "left")
    /\ UNCHANGED <<loginVars, effectVars, group, groupPos>>

-----------------------------------------------------------------------------

UserNext ==
    \/ \E r \in Requests :
        \/ \E u \in Users : PiLogin(r, u) \/ Register(r, u) \/ MissIdentity(r, u)
        \/ UpsertUser(r) \/ EmitUserCreated(r) \/ EmitResent(r)
        \/ CreateAccount(r) \/ CreateIdentity(r) \/ FailLogin(r)
    \/ EnsureGroup \/ GroupLost \/ ReadGroup
    \/ \E e \in Events :
        \/ FindUser(e) \/ CreateUser(e) \/ TrackEvent(e) \/ UpdateDailyMetric(e)
        \/ CreateNotice(e) \/ AckEntry(e) \/ LeaveEntry(e)

UserSpec == UserInit /\ [][UserNext]_userVars

-----------------------------------------------------------------------------
(* Properties *)

\* Every variable has its type, and only entries that exist are handed out.
UserTypeOK ==
    /\ accounts \subseteq Users /\ identities \subseteq Users /\ repeated \subseteq Users
    /\ created \in Seq(Users) /\ Len(created) <= MaxEvents
    /\ group \in Groups /\ groupPos \in {NoGroup} \cup 0..MaxEvents
    /\ place \in [Events -> Places]
    /\ tracked \in Nat /\ newUsers \in Nat /\ notices \in Nat
    /\ loginReq \in [Requests -> [pc: LoginPc, user: Users \cup {Nobody}, isNew: BOOLEAN]]
    /\ \A r \in Requests : ~LoginAt(r, "idle") => loginReq[r].user \in Users
    /\ \A e \in Events : place[e] # "stored" => e <= Len(created)

\* The entries the consumer has acknowledged, and those handed to it
Acked == {e \in Events : place[e] = "acked"}
HandedOut == {e \in Events : place[e] # "stored"}

\* A user's account is announced at most once, unless two of his first logins
\* overlapped or the XADD was sent twice.
AnnouncedOnce ==
    \A d, e \in 1..Len(created) : created[d] = created[e] /\ d # e => created[d] \in repeated

\* An entry is acknowledged only after all of its writes: its user has a row in
\* the identity service, although requests create the same rows; the metric
\* counts no entry that was not tracked first; and nothing is tracked or notified
\* twice although Redis loses the group and the consumer restarts.
EffectsMatchEntries ==
    /\ group = "identity" => \A e \in Acked : created[e] \in identities
    /\ newUsers <= tracked /\ tracked + notices <= Cardinality(HandedOut)
    /\ group = "analytics" => Cardinality(Acked) <= newUsers
    /\ group \in {"notification", "realtime"} => Cardinality(Acked) <= notices
=============================================================================
