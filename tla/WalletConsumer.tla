--------------------------- MODULE WalletConsumer ---------------------------
(***************************************************************************)
(* The payment.completed consumer of tec-wallet-service: the stream loop   *)
(* of event-bus.ts and the crediting transaction of                        *)
(* WalletService.handlePaymentCompleted.                                   *)
(*                                                                         *)
(* All instances of the service read the consumer group under the same     *)
(* consumer name, so while a new instance overlaps an old one they share   *)
(* one list of pending entries, and the new one drains what the old one is *)
(* still working on.  The transaction is split at the statements that      *)
(* interact: the look-up of the event key, the insert of it (which takes   *)
(* the unique index entry until the transaction ends) and the commit.      *)
(***************************************************************************)
EXTENDS Naturals, Sequences, FiniteSets

CONSTANTS
    Payments,        \* ids of payments
    Consumers,       \* instances of the service that may overlap
    BatchSize,       \* COUNT of a read of new entries
    DrainMax,        \* COUNT of the read of pending entries at start-up
    GroupMayVanish,  \* may Redis lose the stream's data?
    MaxLog           \* bound: entries ever appended

ASSUME ConsumerAssumption ==
    /\ BatchSize \in Nat \ {0}
    /\ DrainMax \in Nat \ {0}
    /\ GroupMayVanish \in BOOLEAN
    /\ MaxLog \in Nat

VARIABLES
    log,         \* the stream: the payment of each entry ever appended
    grouped,     \* the consumer group exists
    born,        \* the last entry when the group was last created
    delivered,   \* the group's last-delivered-id
    pel,         \* entries delivered but not acknowledged
    proc,        \* what each instance is doing
    processed,   \* processed_events: payments whose event key is committed
    credits,     \* CREDIT rows of each payment in the ledger
    acked        \* history: entries ever acknowledged

groupVars == <<grouped, born, delivered>>
dbVars == <<processed, credits>>
vars == <<log, groupVars, pel, proc, dbVars, acked>>

Entries == 1..Len(log)
Pc == {"down", "drain", "next", "lock", "commit", "ack"}
Down == [pc |-> "down", todo |-> {}, ev |-> 0]

Init ==
    /\ log = <<>>
    /\ grouped = FALSE /\ born = 0 /\ delivered = 0
    /\ pel = {}
    /\ proc = [c \in Consumers |-> Down]
    /\ processed = {} /\ credits = [p \in Payments |-> 0]
    /\ acked = {}

At(c, pc) == proc[c].pc = pc
Become(c, pc, todo, ev) ==
    proc' = [proc EXCEPT ![c] = [pc |-> pc, todo |-> todo, ev |-> ev]]
Goto(c, pc) == Become(c, pc, proc[c].todo, proc[c].ev)
Pay(c) == log[proc[c].ev]

\* The instance that holds p's event key, uncommitted
Holds(c, p) == At(c, "commit") /\ Pay(c) = p

-----------------------------------------------------------------------------
(* The stream: external to the service                                       *)

\* The payment service may announce a payment more than once
Publish(p) ==
    /\ Len(log) < MaxLog
    /\ log' = Append(log, p)
    /\ UNCHANGED <<groupVars, pel, proc, dbVars, acked>>

\* Redis restarts without its data: stream, group and pending list are gone
GroupLost ==
    /\ GroupMayVanish /\ grouped
    /\ grouped' = FALSE /\ pel' = {}
    /\ UNCHANGED <<log, born, delivered, proc, dbVars, acked>>

-----------------------------------------------------------------------------
(* ensureConsumerGroup, processPendingMessages, the read loop                *)

\* XGROUP CREATE ... '$' MKSTREAM; an existing group is left as it is
EnsureGroup ==
    IF grouped
    THEN UNCHANGED groupVars
    ELSE grouped' = TRUE /\ born' = Len(log) /\ delivered' = Len(log)

Start(c) ==
    /\ At(c, "down")
    /\ EnsureGroup
    /\ Become(c, "drain", {}, 0)
    /\ UNCHANGED <<log, pel, dbVars, acked>>

\* Fault: the pending entries are read and forgotten
DrainNothing(c) ==
    /\ At(c, "drain")
    /\ Become(c, "next", {}, 0)
    /\ UNCHANGED <<log, groupVars, pel, dbVars, acked>>

\* The oldest pending entries; without a group the read throws and the
\* consumer does not start
Drain(c) ==
    /\ At(c, "drain")
    /\ IF grouped
       THEN Become(c, "next",
                   {i \in pel : Cardinality({j \in pel : j < i}) < DrainMax}, 0)
       ELSE Become(c, "down", {}, 0)
    /\ UNCHANGED <<log, groupVars, pel, dbVars, acked>>

LastRead == IF delivered + BatchSize <= Len(log) THEN delivered + BatchSize ELSE Len(log)
Fresh == (delivered + 1)..LastRead

\* Fault: the read is done with NOACK
PollNoAck(c) ==
    /\ At(c, "next") /\ proc[c].todo = {} /\ grouped
    /\ delivered < Len(log)
    /\ delivered' = LastRead
    /\ Become(c, "next", Fresh, 0)
    /\ UNCHANGED <<log, grouped, born, pel, dbVars, acked>>

\* Fault: the position moves on by a whole batch
PollOvershoots(c) ==
    /\ At(c, "next") /\ proc[c].todo = {} /\ grouped
    /\ delivered < Len(log)
    /\ delivered' = delivered + BatchSize
    /\ pel' = pel \cup Fresh
    /\ Become(c, "next", Fresh, 0)
    /\ UNCHANGED <<log, grouped, born, dbVars, acked>>

\* XREADGROUP '>'.  The second case is a connection that breaks after Redis
\* moved the entries to the pending list: the client reads again, further on.
Poll(c) ==
    /\ At(c, "next") /\ proc[c].todo = {} /\ grouped
    /\ delivered < Len(log)
    /\ delivered' = LastRead
    /\ pel' = pel \cup Fresh
    /\ \/ Become(c, "next", Fresh, 0)
       \/ UNCHANGED proc
    /\ UNCHANGED <<log, grouped, born, dbVars, acked>>

\* The read fails with NOGROUP: the group is created afresh
Recreate(c) ==
    /\ At(c, "next") /\ proc[c].todo = {} /\ ~grouped
    /\ EnsureGroup
    /\ UNCHANGED <<log, pel, proc, dbVars, acked>>

-----------------------------------------------------------------------------
(* One entry: handlePaymentCompleted, then XACK                              *)

First(c, i) == i \in proc[c].todo /\ \A j \in proc[c].todo : i <= j

\* The next entry, and the look-up of its event key
CheckEvent(c, i) ==
    /\ At(c, "next") /\ First(c, i)
    /\ Become(c, IF log[i] \in processed THEN "ack" ELSE "lock", proc[c].todo \ {i}, i)
    /\ UNCHANGED <<log, groupVars, pel, dbVars, acked>>

\* Fault: the event key is not unique
LockEventAnyway(c, i) ==
    /\ At(c, "lock") /\ proc[c].ev = i
    /\ Goto(c, "commit")
    /\ UNCHANGED <<log, groupVars, pel, dbVars, acked>>

\* processedEvent.create: waits while another transaction has inserted the same
\* key, and fails (P2002) once that one is committed
LockEvent(c, i) ==
    /\ At(c, "lock") /\ proc[c].ev = i
    /\ \A d \in Consumers : ~Holds(d, Pay(c))
    /\ IF Pay(c) \in processed THEN Become(c, "next", proc[c].todo, 0)
                               ELSE Goto(c, "commit")
    /\ UNCHANGED <<log, groupVars, pel, dbVars, acked>>

\* The rest of the transaction and its commit; the reply may be lost, and then
\* the handler throws and the entry stays pending
Commit(c, i) ==
    /\ At(c, "commit") /\ proc[c].ev = i
    /\ processed' = processed \cup {Pay(c)}
    /\ credits' = [credits EXCEPT ![Pay(c)] = @ + 1]
    /\ Goto(c, "ack")
    /\ UNCHANGED <<log, groupVars, pel, acked>>

CommitUnknown(c) ==
    /\ At(c, "commit")
    /\ processed' = processed \cup {Pay(c)}
    /\ credits' = [credits EXCEPT ![Pay(c)] = @ + 1]
    /\ Become(c, "next", proc[c].todo, 0)
    /\ UNCHANGED <<log, groupVars, pel, acked>>

Acknowledge(i) == pel' = pel \ {i} /\ acked' = acked \cup {i}

Ack(c, i) ==
    /\ At(c, "ack") /\ proc[c].ev = i
    /\ Acknowledge(i)
    /\ Become(c, "next", proc[c].todo, 0)
    /\ UNCHANGED <<log, groupVars, dbVars>>

\* Fault: an entry whose handler failed is acknowledged too
HandlerFailedAcks(c) ==
    /\ proc[c].pc \in {"lock", "commit", "ack"}
    /\ Acknowledge(proc[c].ev)
    /\ Become(c, "next", proc[c].todo, 0)
    /\ UNCHANGED <<log, groupVars, dbVars>>

\* The transaction is rolled back or XACK fails: logged, and left pending
HandlerFailed(c) ==
    /\ proc[c].pc \in {"lock", "commit", "ack"}
    /\ Become(c, "next", proc[c].todo, 0)
    /\ UNCHANGED <<log, groupVars, pel, dbVars, acked>>

\* The very first query of the transaction fails
CheckFailed(c, i) ==
    /\ At(c, "next") /\ First(c, i)
    /\ Become(c, "next", proc[c].todo \ {i}, 0)
    /\ UNCHANGED <<log, groupVars, pel, dbVars, acked>>

\* Shutdown, crash, or a loop ended by an error: what was not committed is lost
Stop(c) ==
    /\ ~At(c, "down")
    /\ Become(c, "down", {}, 0)
    /\ UNCHANGED <<log, groupVars, pel, dbVars, acked>>

-----------------------------------------------------------------------------

Handle(c) ==
    \/ \E i \in proc[c].todo : CheckEvent(c, i) \/ CheckFailed(c, i)
    \/ LockEvent(c, proc[c].ev) \/ Commit(c, proc[c].ev) \/ CommitUnknown(c)
    \/ Ack(c, proc[c].ev) \/ HandlerFailed(c)

Run(c) == Start(c) \/ Drain(c) \/ Poll(c) \/ Recreate(c) \/ Handle(c) \/ Stop(c)

Next ==
    \/ \E p \in Payments : Publish(p)
    \/ GroupLost
    \/ \E c \in Consumers : Run(c)

Spec == Init /\ [][Next]_vars

\* A step that is possible again and again succeeds in the end, and every
\* instance is eventually replaced (a deployment): only a start drains the
\* pending list.
Fairness ==
    \A c \in Consumers :
        /\ WF_vars(Stop(c)) /\ WF_vars(Start(c))
        /\ SF_vars(Drain(c)) /\ SF_vars(Poll(c))
        /\ \A i \in 1..MaxLog :
               /\ SF_vars(CheckEvent(c, i)) /\ SF_vars(LockEvent(c, i))
               /\ SF_vars(Commit(c, i)) /\ SF_vars(Ack(c, i))

FairSpec == Spec /\ Fairness

-----------------------------------------------------------------------------
(* Properties *)

\* Every variable has its type, and positions lie within the stream.
TypeOK ==
    /\ log \in Seq(Payments)
    /\ grouped \in BOOLEAN
    /\ born \in 0..delivered /\ delivered \in 0..Len(log)
    /\ pel \subseteq 1..delivered
    /\ proc \in [Consumers -> [pc: Pc, todo: SUBSET (1..delivered), ev: 0..delivered]]
    /\ processed \subseteq Payments
    /\ credits \in [Payments -> Nat]
    /\ acked \subseteq 1..delivered

\* The stream and the ledger as the contract sees them.
Contract == INSTANCE WalletContract WITH
    told    <- {log[i] : i \in Entries},
    settled <- {log[i] : i \in acked}

\* With overlapping instances, duplicated entries, lost replies, crashes and a
\* Redis that loses its data, a payment is credited at most once, only after it
\* was announced, and no entry is acknowledged before its payment is credited.
ExactlyOnce == Contract!Spec

\* An entry that the group ever handed out since it was created is acknowledged
\* or still pending: no failure makes it disappear.
NoEntryDropped ==
    grouped => \A i \in Entries : born < i /\ i <= delivered => i \in pel \cup acked

\* An entry appended while the group exists is acknowledged in the end, hence
\* its payment credited, provided Redis keeps its data and instances are
\* restarted now and then.
AnnouncedIsCredited ==
    \A i \in 1..MaxLog :
        (grouped /\ born < i /\ i <= Len(log)) ~> (i \in acked \/ ~grouped)

-----------------------------------------------------------------------------
(* The inductive invariant behind ExactlyOnce and NoEntryDropped             *)

\* A payment has one ledger row exactly if its event key is committed
LedgerOK(p) == credits[p] = IF p \in processed THEN 1 ELSE 0

\* What an instance may rely on while it works on an entry
WorkerOK(c) ==
    /\ proc[c].pc \in {"lock", "commit", "ack"} => proc[c].ev > 0
    /\ At(c, "commit") => /\ Pay(c) \notin processed
                          /\ \A d \in Consumers : Holds(d, Pay(c)) => d = c
    /\ At(c, "ack") => Pay(c) \in processed

IInv ==
    /\ TypeOK
    /\ \A p \in Payments : LedgerOK(p)
    /\ \A c \in Consumers : WorkerOK(c)
    /\ processed \subseteq {log[i] : i \in Entries}
    /\ \A i \in acked : log[i] \in processed
    /\ NoEntryDropped
=============================================================================
