------------------------ MODULE WalletConsumer_proofs ------------------------
(***************************************************************************)
(* Proofs about WalletConsumer for any payments, any number of overlapping *)
(* instances, any batch sizes and streams of any length.  Positions never  *)
(* move backwards (Forward), so what one instance knows of an entry stays  *)
(* true while the others work.                                             *)
(***************************************************************************)
EXTENDS WalletConsumer, TLAPS

\* The stream is only appended to, the group only reads on, and a committed
\* event key stays
Forward ==
    /\ Len(log) <= Len(log') /\ \A i \in Entries : log'[i] = log[i]
    /\ delivered <= delivered'
    /\ processed \subseteq processed'

\* What proc may be when the group has handed out n entries
Slots(n) == [Consumers -> [pc: Pc, todo: SUBSET (1..n), ev: 0..n]]

-----------------------------------------------------------------------------
(* Types *)

\* An instance that changes its slot changes no other, and takes the new values.
LEMMA BecomeSlot ==
    ASSUME NEW n \in Nat, proc \in Slots(n), NEW c \in Consumers, NEW pc \in Pc,
           NEW todo \in SUBSET (1..n), NEW ev \in 0..n, Become(c, pc, todo, ev)
    PROVE  /\ proc' \in Slots(n)
           /\ proc'[c].pc = pc /\ proc'[c].todo = todo /\ proc'[c].ev = ev
           /\ \A d \in Consumers : d # c => proc'[d] = proc[d]
  <1> DEFINE v == [pc |-> pc, todo |-> todo, ev |-> ev]
             S == [pc: Pc, todo: SUBSET (1..n), ev: 0..n]
  <1>1. v \in S /\ v.pc = pc /\ v.todo = todo /\ v.ev = ev
    OBVIOUS
  <1>2. proc \in [Consumers -> S] /\ proc' = [proc EXCEPT ![c] = v]
    BY DEF Slots, Become
  <1> HIDE DEF v, S
  <1>3. proc' \in [Consumers -> S] /\ proc'[c] = v /\ \A d \in Consumers : d # c => proc'[d] = proc[d]
    BY <1>1, <1>2
  <1>4. QED BY <1>1, <1>3 DEF S, Slots

\* Slots stay well typed when the group reads on.
LEMMA SlotsGrow ==
    ASSUME NEW m \in Nat, NEW n \in Nat, m <= n, NEW f \in Slots(m)
    PROVE  f \in Slots(n)
  <1>1. SUBSET (1..m) \subseteq SUBSET (1..n) /\ 0..m \subseteq 0..n
    OBVIOUS
  <1>2. [pc: Pc, todo: SUBSET (1..m), ev: 0..m]
          \subseteq [pc: Pc, todo: SUBSET (1..n), ev: 0..n]
    BY <1>1
  <1>3. QED BY <1>2 DEF Slots

\* The fields of a slot have their types.
LEMMA SlotType ==
    ASSUME TypeOK, NEW c \in Consumers
    PROVE  /\ proc \in Slots(delivered) /\ delivered \in Nat /\ Len(log) \in Nat
           /\ proc[c].pc \in Pc
           /\ proc[c].todo \in SUBSET (1..delivered)
           /\ proc[c].ev \in 0..delivered
  BY DEF TypeOK, Slots

\* A read of new entries stays within the stream.
LEMMA ReadBounds ==
    ASSUME TypeOK
    PROVE  /\ LastRead \in 0..Len(log) /\ delivered <= LastRead
           /\ Fresh \in SUBSET (1..LastRead)
           /\ \A i \in Fresh : delivered < i
  BY ConsumerAssumption DEF TypeOK, LastRead, Fresh

\* Where an instance's step leaves its slot.
LEMMA RunSlot ==
    ASSUME TypeOK, NEW c \in Consumers, Run(c)
    PROVE  /\ delivered' \in Nat /\ delivered <= delivered' /\ delivered' <= Len(log)
           /\ proc' \in Slots(delivered')
           /\ \A d \in Consumers : d # c => proc'[d] = proc[d]
  <1>0. /\ proc \in Slots(delivered) /\ delivered \in Nat /\ Len(log) \in Nat
        /\ delivered <= Len(log)
        /\ proc[c].todo \in SUBSET (1..delivered) /\ proc[c].ev \in 0..delivered
    BY SlotType DEF TypeOK
  <1>1. CASE Start(c)
    <2>1. delivered' \in {delivered, Len(log)}
      BY <1>1 DEF Start, EnsureGroup, groupVars
    <2>2. proc \in Slots(delivered')
      BY <1>0, <2>1, SlotsGrow
    <2>3. delivered' \in Nat /\ Become(c, "drain", {}, 0)
      BY <1>0, <1>1, <2>1 DEF Start
    <2>4. {} \in SUBSET (1..delivered') /\ 0 \in 0..delivered' /\ "drain" \in Pc
      BY <2>3 DEF Pc
    <2>5. delivered <= delivered' /\ delivered' <= Len(log)
      BY <1>0, <2>1
    <2>6. QED BY <2>2, <2>3, <2>4, <2>5, BecomeSlot
  <1>2. CASE Drain(c)
    <2>1. delivered' = delivered /\ pel \in SUBSET (1..delivered)
      BY <1>2 DEF Drain, groupVars, TypeOK
    <2>2. PICK pc \in Pc, todo \in SUBSET (1..delivered) : Become(c, pc, todo, 0)
      <3>1. {i \in pel : Cardinality({j \in pel : j < i}) < DrainMax} \in SUBSET (1..delivered)
        BY <2>1
      <3>2. {} \in SUBSET (1..delivered) /\ "next" \in Pc /\ "down" \in Pc
        BY DEF Pc
      <3>3. QED BY <1>2, <3>1, <3>2 DEF Drain
    <2>3. delivered \in Nat /\ delivered <= delivered' /\ delivered' <= Len(log)
      BY <1>0, <2>1
    <2>4. 0 \in 0..delivered
      BY <1>0
    <2>5. /\ proc' \in Slots(delivered)
          /\ \A d \in Consumers : d # c => proc'[d] = proc[d]
      <3>1. proc \in Slots(delivered)
        BY <1>0
      <3>2. QED BY <2>2, <2>3, <2>4, <3>1, BecomeSlot
    <2>6. QED BY <2>1, <2>3, <2>5
  <1>3. CASE Poll(c)
    <2>1. delivered' = LastRead /\ LastRead \in Nat /\ delivered <= LastRead /\ LastRead <= Len(log)
      BY <1>0, <1>3, ReadBounds DEF Poll
    <2>2. proc \in Slots(LastRead) /\ Fresh \in SUBSET (1..LastRead)
      BY <1>0, <2>1, SlotsGrow, ReadBounds
    <2>3. CASE Become(c, "next", Fresh, 0)
      <3>1. 0 \in 0..LastRead /\ "next" \in Pc
        BY <2>1 DEF Pc
      <3>2. QED BY <2>1, <2>2, <2>3, <3>1, BecomeSlot
    <2>4. CASE UNCHANGED proc
      BY <2>1, <2>2, <2>4
    <2>5. QED BY <1>3, <2>3, <2>4 DEF Poll
  <1>4. CASE Recreate(c)
    <2>1. delivered' \in {delivered, Len(log)} /\ proc' = proc
      BY <1>4 DEF Recreate, EnsureGroup, groupVars
    <2>2. QED BY <1>0, <2>1, SlotsGrow
  <1>5. CASE Handle(c) \/ Stop(c)
    <2>1. delivered' = delivered
      BY <1>5 DEF Handle, Stop, CheckEvent, CheckFailed, LockEvent, Commit, CommitUnknown, Ack,
                  HandlerFailed, groupVars
    <2>2. PICK pc \in Pc, todo \in SUBSET (1..delivered), ev \in 0..delivered :
                Become(c, pc, todo, ev)
      <3>1. \A i : proc[c].todo \ {i} \in SUBSET (1..delivered)
        BY <1>0
      <3>2. proc[c].todo \subseteq 0..delivered
        BY <1>0
      <3>3. {} \in SUBSET (1..delivered) /\ 0 \in 0..delivered
        BY <1>0
      <3>4. {"down", "next", "lock", "commit", "ack"} \subseteq Pc
        BY DEF Pc
      <3>5. QED
        BY <1>0, <1>5, <3>1, <3>2, <3>3, <3>4
        DEF Handle, Stop, CheckEvent, CheckFailed, LockEvent, Commit, CommitUnknown, Ack,
            HandlerFailed, Goto
    <2>3. delivered \in Nat /\ delivered <= delivered' /\ delivered' <= Len(log)
      BY <1>0, <2>1
    <2>4. /\ proc' \in Slots(delivered)
          /\ \A d \in Consumers : d # c => proc'[d] = proc[d]
      <3>1. proc \in Slots(delivered)
        BY <1>0
      <3>2. QED BY <2>2, <2>3, <3>1, BecomeSlot
    <2>5. QED BY <2>1, <2>3, <2>4
  <1>6. QED BY <1>1, <1>2, <1>3, <1>4, <1>5 DEF Run

\* Where an instance's step leaves the other variables: the group reads on, the
\* pending list holds what it handed out, the ledger stays a table of numbers.
LEMMA RunRest ==
    ASSUME IInv, NEW c \in Consumers, Run(c)
    PROVE  /\ log' = log /\ grouped' \in BOOLEAN /\ born' \in 0..delivered'
           /\ pel' \subseteq 1..delivered' /\ acked' \subseteq 1..delivered'
           /\ processed' \subseteq Payments /\ credits' \in [Payments -> Nat]
           /\ processed \subseteq processed'
  <1>0. /\ delivered' \in Nat /\ delivered <= delivered'
        /\ delivered \in Nat /\ Len(log) \in Nat /\ proc[c].ev \in 0..delivered
        /\ pel \subseteq 1..delivered' /\ acked \subseteq 1..delivered'
        /\ processed \subseteq Payments /\ credits \in [Payments -> Nat]
        /\ born \in 0..delivered' /\ grouped \in BOOLEAN
        /\ proc[c].pc \in {"lock", "commit", "ack"} => proc[c].ev \in 1..delivered
        /\ TypeOK
    <2>0. TypeOK /\ WorkerOK(c)
      BY DEF IInv
    <2>1. delivered' \in Nat /\ delivered <= delivered'
      BY <2>0, RunSlot
    <2>2. delivered \in Nat /\ Len(log) \in Nat /\ proc[c].ev \in 0..delivered
      BY <2>0, SlotType
    <2>3. proc[c].pc \in {"lock", "commit", "ack"} => proc[c].ev \in 1..delivered
      BY <2>0, <2>2 DEF WorkerOK
    <2>4. QED BY <2>0, <2>1, <2>2, <2>3 DEF TypeOK
  <1>1. CASE Start(c) \/ Recreate(c)
    <2>1. EnsureGroup
      BY <1>1 DEF Start, Recreate
    <2>2. born' \in {born, delivered'} /\ grouped' \in {grouped, TRUE}
      BY <2>1 DEF EnsureGroup, groupVars
    <2>3a. grouped' \in BOOLEAN
      BY <1>0, <2>2, Zenon
    <2>3b. born' \in 0..delivered'
      BY <1>0, <2>2, SMT
    <2>3. born' \in 0..delivered' /\ grouped' \in BOOLEAN
      BY <2>3a, <2>3b
    <2>4. QED BY <1>0, <1>1, <2>3 DEF Start, Recreate, dbVars
  <1>2. CASE Drain(c) \/ Stop(c)
    BY <1>0, <1>2 DEF Drain, Stop, groupVars, dbVars
  <1>3. CASE Poll(c)
    <2>1. pel' = pel \cup Fresh /\ Fresh \subseteq 1..delivered'
      BY <1>0, <1>3, ReadBounds DEF Poll
    <2>2. QED BY <1>0, <1>3, <2>1 DEF Poll, dbVars
  <1>4. CASE Handle(c)
    <2>1. ASSUME Commit(c, proc[c].ev) \/ CommitUnknown(c)
          PROVE  processed' \subseteq Payments /\ credits' \in [Payments -> Nat]
      <3>1. proc[c].ev \in 1..Len(log)
        BY <1>0, <2>1 DEF Commit, CommitUnknown, At, TypeOK
      <3>2. Pay(c) \in Payments
        BY <1>0, <3>1 DEF TypeOK, Pay
      <3>3. QED BY <1>0, <2>1, <3>2 DEF Commit, CommitUnknown
    <2>3. Ack(c, proc[c].ev) => acked' \subseteq 1..delivered'
      <3>1. SUFFICES ASSUME Ack(c, proc[c].ev)
                     PROVE  acked \cup {proc[c].ev} \subseteq 1..delivered'
        BY DEF Ack, Acknowledge
      <3>2. proc[c].ev \in 1..delivered'
        BY <1>0, <3>1 DEF Ack, At
      <3>3. QED BY <1>0, <3>2
    <2>4. QED
      BY <1>0, <1>4, <2>1, <2>3
      DEF Handle, CheckEvent, CheckFailed, LockEvent, Commit, CommitUnknown, Ack,
          HandlerFailed, Acknowledge, groupVars, dbVars
  <1>5. QED BY <1>1, <1>2, <1>3, <1>4 DEF Run
\* Every step keeps the types.
LEMMA TypeStep ==
    ASSUME IInv, [Next]_vars
    PROVE  TypeOK'
  <1>0. TypeOK /\ delivered \in Nat /\ Len(log) \in Nat
    BY DEF IInv, TypeOK
  <1>1. ASSUME NEW c \in Consumers, Run(c)
        PROVE  TypeOK'
    <2>1. /\ delivered' \in 0..Len(log)
          /\ proc' \in [Consumers -> [pc: Pc, todo: SUBSET (1..delivered'), ev: 0..delivered']]
      BY <1>0, <1>1, RunSlot DEF Slots
    <2>2. QED BY <1>0, <1>1, <2>1, RunRest DEF TypeOK
  <1>2. ASSUME NEW p \in Payments, Publish(p)
        PROVE  TypeOK'
    <2>1. log' \in Seq(Payments) /\ Len(log') = Len(log) + 1
      BY <1>0, <1>2 DEF Publish, TypeOK
    <2>2. delivered \in 0..Len(log')
      BY <1>0, <2>1 DEF TypeOK
    <2>3. QED BY <1>0, <1>2, <2>1, <2>2 DEF Publish, groupVars, dbVars, TypeOK
  <1>3. CASE GroupLost
    BY <1>0, <1>3 DEF GroupLost, dbVars, TypeOK
  <1>4. CASE UNCHANGED vars
    BY <1>0, <1>4 DEF vars, groupVars, dbVars, TypeOK
  <1>5. QED BY <1>1, <1>2, <1>3, <1>4 DEF Next

-----------------------------------------------------------------------------
(* The ledger *)

\* An instance touches the ledger only while it holds the event key.
LEMMA LedgerStep ==
    ASSUME NEW c \in Consumers, Run(c)
    PROVE  \/ UNCHANGED <<processed, credits>>
           \/ /\ At(c, "commit")
              /\ processed' = processed \cup {Pay(c)}
              /\ credits' = [credits EXCEPT ![Pay(c)] = @ + 1]
  BY DEF Run, Handle, Start, Drain, Poll, Recreate, Stop, CheckEvent, CheckFailed, LockEvent,
         Commit, CommitUnknown, Ack, HandlerFailed, dbVars

\* What an instance that is at work after its step has just found out.
LEMMA WorkStep ==
    ASSUME IInv, NEW c \in Consumers, Run(c)
    PROVE  \/ proc'[c].pc \in {"down", "drain", "next"}
           \/ proc'[c].pc = "lock" /\ proc'[c].ev > 0
           \/ /\ proc'[c].pc = "commit" /\ proc'[c].ev = proc[c].ev /\ proc[c].ev > 0
              /\ processed' = processed /\ Pay(c) \notin processed
              /\ \A d \in Consumers : ~Holds(d, Pay(c))
           \/ proc'[c].pc = "ack" /\ proc'[c].ev > 0 /\ log[proc'[c].ev] \in processed'
  <1>0. /\ TypeOK /\ WorkerOK(c) /\ proc \in Slots(delivered) /\ delivered \in Nat
        /\ proc[c].todo \in SUBSET (1..delivered) /\ proc[c].ev \in 0..delivered
        /\ {} \in SUBSET (1..delivered) /\ 0 \in 0..delivered
    BY SlotType DEF IInv
  <1>1. ASSUME NEW pc \in Pc, NEW todo \in SUBSET (1..delivered), NEW ev \in 0..delivered,
               Become(c, pc, todo, ev)
        PROVE  proc'[c].pc = pc /\ proc'[c].ev = ev
    BY <1>0, <1>1, BecomeSlot
  <1>2. {"down", "drain", "next", "lock", "commit", "ack"} \subseteq Pc
    BY DEF Pc
  <1>3. CASE Start(c) \/ Stop(c)
    BY <1>0, <1>1, <1>2, <1>3 DEF Start, Stop
  <1>4. CASE Drain(c)
    <2>1. pel \in SUBSET (1..delivered)
      BY <1>0 DEF TypeOK
    <2>2. {i \in pel : Cardinality({j \in pel : j < i}) < DrainMax} \in SUBSET (1..delivered)
      BY <2>1
    <2>3. QED BY <1>0, <1>1, <1>2, <1>4, <2>2 DEF Drain
  <1>5. CASE Poll(c) \/ Recreate(c)
    <2>1. CASE UNCHANGED proc
      BY <1>5, <2>1 DEF Poll, Recreate, At
    <2>2. CASE Become(c, "next", Fresh, 0)
      BY <1>0, <2>2 DEF Become, Slots
    <2>3. QED BY <1>5, <2>1, <2>2 DEF Poll, Recreate
  <1>6. CASE \E i \in proc[c].todo : CheckEvent(c, i)
    <2>1. PICK i \in proc[c].todo : CheckEvent(c, i)
      BY <1>6
    <2>2. i \in 1..delivered /\ i \in 0..delivered /\ proc[c].todo \ {i} \in SUBSET (1..delivered)
      BY <1>0
    <2>3. CASE log[i] \in processed
      <3>1. proc'[c].pc = "ack" /\ proc'[c].ev = i
        BY <1>1, <1>2, <2>1, <2>2, <2>3 DEF CheckEvent
      <3>2. QED BY <2>1, <2>2, <2>3, <3>1 DEF CheckEvent, dbVars
    <2>4. CASE log[i] \notin processed
      <3>1. proc'[c].pc = "lock" /\ proc'[c].ev = i
        BY <1>1, <1>2, <2>1, <2>2, <2>4 DEF CheckEvent
      <3>2. QED BY <2>2, <3>1
    <2>5. QED BY <2>3, <2>4
  <1>7. CASE \E i \in proc[c].todo : CheckFailed(c, i)
    <2>1. \A i : proc[c].todo \ {i} \in SUBSET (1..delivered)
      BY <1>0
    <2>2. QED BY <1>0, <1>1, <1>2, <1>7, <2>1 DEF CheckFailed
  <1>8. CASE LockEvent(c, proc[c].ev)
    <2>1. CASE Pay(c) \in processed
      BY <1>0, <1>1, <1>2, <1>8, <2>1 DEF LockEvent
    <2>2. CASE Pay(c) \notin processed
      <3>1. proc'[c].pc = "commit" /\ proc'[c].ev = proc[c].ev
        BY <1>0, <1>1, <1>2, <1>8, <2>2 DEF LockEvent, Goto
      <3>2. QED BY <1>0, <1>8, <2>2, <3>1 DEF LockEvent, At, WorkerOK, dbVars
    <2>3. QED BY <2>1, <2>2
  <1>9. CASE Commit(c, proc[c].ev)
    <2>1. proc'[c].pc = "ack" /\ proc'[c].ev = proc[c].ev
      BY <1>0, <1>1, <1>2, <1>9 DEF Commit, Goto
    <2>2. QED BY <1>0, <1>9, <2>1 DEF Commit, At, Pay, WorkerOK
  <1>10. CASE CommitUnknown(c) \/ Ack(c, proc[c].ev) \/ HandlerFailed(c)
    BY <1>0, <1>1, <1>2, <1>10 DEF CommitUnknown, Ack, HandlerFailed
  <1>11. QED
    BY <1>3, <1>4, <1>5, <1>6, <1>7, <1>8, <1>9, <1>10 DEF Run, Handle

\* One row per committed event key.
LEMMA LedgerKept ==
    ASSUME IInv, NEW c \in Consumers, Run(c), NEW p \in Payments
    PROVE  LedgerOK(p)'
  <1>1. CASE UNCHANGED <<processed, credits>>
    BY <1>1 DEF IInv, LedgerOK
  <1>2. CASE /\ At(c, "commit")
             /\ processed' = processed \cup {Pay(c)}
             /\ credits' = [credits EXCEPT ![Pay(c)] = @ + 1]
    <2>1. Pay(c) \notin processed /\ credits \in [Payments -> Nat] /\ LedgerOK(p)
      BY <1>2 DEF IInv, WorkerOK, TypeOK
    <2>2. CASE p = Pay(c)
      BY <1>2, <2>1, <2>2 DEF LedgerOK
    <2>3. CASE p # Pay(c)
      BY <1>2, <2>1, <2>3 DEF LedgerOK
    <2>4. QED BY <2>2, <2>3
  <1>3. QED BY <1>1, <1>2, LedgerStep

\* Every instance keeps what it relies on, whichever instance moves.
LEMMA WorkersKept ==
    ASSUME IInv, NEW c \in Consumers, Run(c), NEW x \in Consumers
    PROVE  WorkerOK(x)'
  <1>0. /\ \A d \in Consumers : d # c => proc'[d] = proc[d]
        /\ log' = log /\ processed \subseteq processed' /\ WorkerOK(x) /\ WorkerOK(c)
    BY RunSlot, RunRest DEF IInv
  <1>1. CASE x = c
    BY <1>0, <1>1, WorkStep DEF WorkerOK, At, Pay, Holds
  <1>2. CASE x # c
    <2>1. proc'[x] = proc[x] /\ Pay(x)' = Pay(x)
      BY <1>0, <1>2 DEF Pay
    <2>2. At(x, "commit") => Pay(x) \notin processed'
      <3>1. SUFFICES ASSUME At(x, "commit"), At(c, "commit"), Pay(x) = Pay(c)
                     PROVE  FALSE
        BY <1>0, LedgerStep DEF WorkerOK
      <3>2. QED BY <1>0, <1>2, <3>1 DEF WorkerOK, Holds
    <2>3. ASSUME At(x, "commit"), NEW d \in Consumers, Holds(d, Pay(x))'
          PROVE  d = x
      <3>1. CASE d # c
        BY <1>0, <2>1, <2>3, <3>1 DEF Holds, WorkerOK, At, Pay
      <3>2. CASE d = c
        <4>1. proc'[c].pc = "commit" /\ log[proc'[c].ev] = Pay(x)
          BY <1>0, <2>1, <2>3, <3>2 DEF Holds, At, Pay
        <4>2. Pay(c) = Pay(x) /\ ~Holds(x, Pay(c))
          BY <4>1, WorkStep DEF Pay
        <4>3. QED BY <2>3, <4>2 DEF Holds
      <3>3. QED BY <3>1, <3>2
    <2>4. QED BY <1>0, <2>1, <2>2, <2>3 DEF WorkerOK, At, Pay, Holds
  <1>3. QED BY <1>1, <1>2
-----------------------------------------------------------------------------
(* Acknowledgements *)

\* An entry leaves the pending list by an acknowledgement of a credited payment.
LEMMA PendingStep ==
    ASSUME IInv, NEW c \in Consumers, Run(c)
    PROVE  \/ acked' = acked /\ pel \subseteq pel'
           \/ /\ acked' = acked \cup {proc[c].ev} /\ pel' = pel \ {proc[c].ev}
              /\ proc[c].ev \in Entries /\ Pay(c) \in processed
              /\ UNCHANGED <<groupVars, dbVars, log>>
  <1>1. CASE Ack(c, proc[c].ev)
    <2>1. TypeOK /\ WorkerOK(c) /\ proc[c].ev \in 0..delivered /\ delivered \in 0..Len(log)
      BY SlotType DEF IInv, TypeOK
    <2>2. proc[c].ev \in Entries /\ Pay(c) \in processed
      BY <1>1, <2>1 DEF Ack, At, WorkerOK, Entries
    <2>3. QED BY <1>1, <2>2 DEF Ack, Acknowledge
  <1>2. CASE ~Ack(c, proc[c].ev)
    BY <1>2 DEF Run, Handle, Start, Drain, Poll, Recreate, Stop, CheckEvent, CheckFailed,
                LockEvent, Commit, CommitUnknown, HandlerFailed
  <1>3. QED BY <1>1, <1>2

\* Entries are acknowledged only after their payment was credited.
LEMMA AckedKept ==
    ASSUME IInv, NEW c \in Consumers, Run(c)
    PROVE  /\ \A i \in acked' : log'[i] \in processed'
           /\ processed' \subseteq {log'[i] : i \in 1..Len(log')}
  <1>0. log' = log /\ processed \subseteq processed' /\ TypeOK /\ WorkerOK(c)
    BY RunRest DEF IInv
  <1>1. \A i \in acked' : log'[i] \in processed'
    BY <1>0, PendingStep DEF IInv, Pay
  <1>2. At(c, "commit") => proc[c].ev \in Entries
    <2>1. proc[c].ev \in 0..delivered /\ delivered \in 0..Len(log)
      BY <1>0, SlotType DEF TypeOK
    <2>2. QED BY <1>0, <2>1 DEF WorkerOK, At, Entries
  <1>3. processed' \subseteq {log[i] : i \in Entries}
    BY <1>2, LedgerStep DEF IInv, Pay
  <1>4. QED BY <1>0, <1>1, <1>3 DEF Entries

\* Whatever the group hands out stays pending until it is acknowledged.
LEMMA NothingDropped ==
    ASSUME IInv, NEW c \in Consumers, Run(c)
    PROVE  NoEntryDropped'
  <1>0. log' = log /\ TypeOK /\ NoEntryDropped
    BY RunRest DEF IInv
  <1>1. acked \cup pel \subseteq acked' \cup pel'
    BY PendingStep
  <1>2. CASE UNCHANGED groupVars
    BY <1>0, <1>1, <1>2 DEF NoEntryDropped, groupVars, Entries
  <1>3. CASE Poll(c)
    <2>1. grouped /\ born' = born /\ delivered' = LastRead /\ pel' = pel \cup Fresh
      BY <1>3 DEF Poll
    <2>2. ASSUME NEW i \in Entries, born < i, i <= LastRead
          PROVE  i \in pel' \cup acked'
      <3>1. CASE i <= delivered
        BY <1>0, <1>1, <2>1, <2>2, <3>1 DEF NoEntryDropped
      <3>2. CASE delivered < i
        <4>1. i \in Fresh
          BY <1>0, <2>2, <3>2, ReadBounds DEF Fresh, TypeOK, Entries
        <4>2. QED BY <2>1, <4>1
      <3>3. QED BY <1>0, <3>1, <3>2 DEF TypeOK, Entries
    <2>3. QED BY <1>0, <2>1, <2>2 DEF NoEntryDropped, Entries
  <1>4. CASE ~grouped /\ EnsureGroup
    BY <1>0, <1>4 DEF EnsureGroup, NoEntryDropped, Entries
  <1>5. QED
    BY <1>2, <1>3, <1>4
    DEF Run, Handle, Start, Drain, Recreate, Stop, EnsureGroup, CheckEvent, CheckFailed,
        LockEvent, Commit, CommitUnknown, Ack, HandlerFailed

\* IInv is inductive.
LEMMA NextInv == IInv /\ [Next]_vars => IInv'
  <1>1. SUFFICES ASSUME IInv, [Next]_vars
                 PROVE  IInv'
    OBVIOUS
  <1>2. TypeOK'
    BY <1>1, TypeStep
  <1>3. ASSUME NEW c \in Consumers, Run(c)
        PROVE  IInv'
    BY <1>1, <1>2, <1>3, LedgerKept, WorkersKept, AckedKept, NothingDropped DEF IInv, Entries
  <1>4. ASSUME NEW p \in Payments, Publish(p)
        PROVE  IInv'
    <2>1. /\ TypeOK /\ log' = Append(log, p) /\ Len(log) \in Nat /\ log \in Seq(Payments)
          /\ UNCHANGED <<grouped, born, delivered, pel, proc, processed, credits, acked>>
      BY <1>1, <1>4 DEF Publish, groupVars, dbVars, IInv, TypeOK
    <2>2. Len(log') = Len(log) + 1 /\ \A i \in Entries : log'[i] = log[i]
      BY <2>1 DEF Entries
    <2>3. acked \subseteq Entries
      BY <2>1 DEF TypeOK, Entries
    <2>4. \A c \in Consumers : proc[c].pc \in {"lock", "commit", "ack"} =>
            proc[c].ev \in Entries /\ Pay(c)' = Pay(c)
      <3>1. ASSUME NEW c \in Consumers, proc[c].pc \in {"lock", "commit", "ack"}
            PROVE  proc[c].ev \in Entries
        <4>1. proc[c].ev \in 0..delivered /\ delivered \in 0..Len(log) /\ WorkerOK(c)
          BY <1>1, <2>1, SlotType DEF IInv, TypeOK
        <4>2. QED BY <3>1, <4>1 DEF WorkerOK, Entries
      <3>2. QED BY <2>1, <2>2, <3>1 DEF Pay
    <2>5. \A c \in Consumers : WorkerOK(c)'
      <3>1. \A c \in Consumers : WorkerOK(c)
        BY <1>1 DEF IInv
      <3>2. QED BY <2>1, <2>4, <3>1 DEF WorkerOK, At, Holds
    <2>6. processed' \subseteq {log'[i] : i \in 1..Len(log')}
      BY <1>1, <2>1, <2>2 DEF IInv, Entries
    <2>7. \A i \in acked' : log'[i] \in processed'
      BY <1>1, <2>1, <2>2, <2>3 DEF IInv
    <2>8. \A x \in Payments : LedgerOK(x)'
      BY <1>1, <2>1 DEF IInv, LedgerOK
    <2>9. NoEntryDropped'
      BY <1>1, <2>1, <2>2 DEF IInv, NoEntryDropped, Entries, TypeOK
    <2>10. QED BY <1>2, <2>5, <2>6, <2>7, <2>8, <2>9 DEF IInv, Entries
  <1>5. CASE GroupLost
    BY <1>1, <1>2, <1>5
    DEF GroupLost, dbVars, IInv, LedgerOK, WorkerOK, At, Pay, Holds, NoEntryDropped, Entries
  <1>6. CASE UNCHANGED vars
    BY <1>1, <1>2, <1>6
    DEF vars, groupVars, dbVars, IInv, LedgerOK, WorkerOK, At, Pay, Holds, NoEntryDropped, Entries
  <1>7. QED BY <1>1, <1>3, <1>4, <1>5, <1>6 DEF Next

\* IInv holds initially.
LEMMA InitInv == Init => IInv
  <1>1. ASSUME Init PROVE TypeOK
    <2>1. log = <<>> /\ <<>> \in Seq(Payments) /\ Len(log) = 0
      BY <1>1 DEF Init
    <2>2. Down \in [pc: Pc, todo: SUBSET (1..0), ev: 0..0]
      BY DEF Down, Pc
    <2>3. proc \in [Consumers -> [pc: Pc, todo: SUBSET (1..delivered), ev: 0..delivered]]
      BY <1>1, <2>2 DEF Init
    <2>4. log \in Seq(Payments) /\ born \in 0..delivered /\ delivered \in 0..Len(log)
      BY <1>1, <2>1 DEF Init
    <2>5. grouped \in BOOLEAN /\ credits \in [Payments -> Nat]
      BY <1>1 DEF Init
    <2>6. pel = {} /\ processed = {} /\ acked = {}
      BY <1>1 DEF Init
    <2>7. QED BY <2>3, <2>4, <2>5, <2>6 DEF TypeOK
  <1>2. Init => \A c \in Consumers : WorkerOK(c)
    BY DEF Init, Down, WorkerOK, At
  <1>3. Init => NoEntryDropped /\ \A p \in Payments : LedgerOK(p)
    BY DEF Init, NoEntryDropped, LedgerOK
  <1>4. QED BY <1>1, <1>2, <1>3 DEF Init, IInv

\* IInv holds in every reachable state.
THEOREM ConsumerInvariance == Spec => []IInv
  <1>1. IInv /\ [Next]_vars => IInv'
    BY NextInv
  <1>2. QED BY InitInv, <1>1, PTL DEF Spec

\* The variables of the consumer always have their types.
THEOREM ConsumerTypes == Spec => []TypeOK
  <1>1. IInv => TypeOK
    BY DEF IInv
  <1>2. QED BY ConsumerInvariance, <1>1, PTL

\* Handing out, failing, crashing and restarting never make an entry disappear.
THEOREM EntriesAreKept == Spec => []NoEntryDropped
  <1>1. IInv => NoEntryDropped
    BY DEF IInv
  <1>2. QED BY ConsumerInvariance, <1>1, PTL
-----------------------------------------------------------------------------
(* Refinement of WalletContract *)

Told    == {log[i] : i \in Entries}
Settled == {log[i] : i \in acked}

\* What an instance's step does to the contract's variables.
LEMMA ContractStep ==
    ASSUME IInv, NEW c \in Consumers, Run(c)
    PROVE  [Contract!Next]_(Contract!contractVars)
  <1>0. /\ log' = log /\ TypeOK /\ WorkerOK(c) /\ Told' = Told
        /\ proc[c].ev \in 0..delivered /\ delivered \in 0..Len(log)
    BY RunRest, SlotType DEF IInv, Told, Entries, TypeOK
  <1>1. CASE ~UNCHANGED <<processed, credits>>
    <2>1. At(c, "commit") /\ credits' = [credits EXCEPT ![Pay(c)] = @ + 1]
      BY <1>1, LedgerStep
    <2>2. proc[c].ev \in Entries /\ Pay(c) \notin processed
      BY <1>0, <2>1 DEF WorkerOK, At, Entries
    <2>3. PICK p \in Payments : p = Pay(c)
      BY <1>0, <2>2 DEF TypeOK, Pay, Entries
    <2>4. p \in Told /\ credits[p] = 0
      BY <2>2, <2>3 DEF IInv, LedgerOK, Told, Pay
    <2>5. Settled' = Settled
      BY <1>0, <1>1, PendingStep DEF Settled, dbVars
    <2>6. credits' = [credits EXCEPT ![p] = 1]
      BY <2>1, <2>3, <2>4
    <2>7. Contract!Credit(p)
      BY <1>0, <2>4, <2>5, <2>6 DEF Contract!Credit, Told, Settled
    <2>8. QED BY <2>7 DEF Contract!Next
  <1>2. CASE UNCHANGED <<processed, credits>> /\ acked' = acked
    BY <1>0, <1>2 DEF Contract!contractVars, Told, Settled
  <1>3. CASE UNCHANGED <<processed, credits>> /\ acked' # acked
    <2>1. acked' = acked \cup {proc[c].ev} /\ proc[c].ev \in Entries /\ Pay(c) \in processed
      BY <1>3, PendingStep
    <2>2. PICK p \in Payments : p = Pay(c)
      BY <1>0, <2>1 DEF TypeOK, Pay, Entries
    <2>3. credits[p] = 1 /\ Settled' = Settled \cup {p}
      BY <1>0, <2>1, <2>2 DEF IInv, LedgerOK, Settled, Pay
    <2>4. Contract!Settle(p)
      BY <1>0, <1>3, <2>3 DEF Contract!Settle, Told, Settled
    <2>5. QED BY <2>4 DEF Contract!Next
  <1>4. QED BY <1>1, <1>2, <1>3

\* Exactly-once crediting: the consumer, with duplicated entries, overlapping
\* instances, lost replies and crashes, implements the contract.
THEOREM CreditsExactlyOnce == Spec => ExactlyOnce
  <1>1. Init => Contract!Init
    BY DEF Init, Contract!Init, Entries
  <1>2. ASSUME IInv, [Next]_vars
        PROVE  [Contract!Next]_(Contract!contractVars)
    <2>0. TypeOK /\ Len(log) \in Nat /\ acked \subseteq Entries
      BY <1>2 DEF IInv, TypeOK, Entries
    <2>1. ASSUME NEW p \in Payments, Publish(p)
          PROVE  [Contract!Next]_(Contract!contractVars)
      <3>1. /\ Len(log') = Len(log) + 1 /\ log'[Len(log) + 1] = p
            /\ \A i \in Entries : log'[i] = log[i]
            /\ UNCHANGED <<credits, acked>>
        BY <2>0, <2>1 DEF Publish, TypeOK, Entries, dbVars
      <3>2. Told' = Told \cup {p}
        BY <2>0, <3>1 DEF Told, Entries
      <3>3. Settled' = Settled
        BY <2>0, <3>1 DEF Settled
      <3>4. Contract!Tell(p)
        BY <3>1, <3>2, <3>3 DEF Contract!Tell, Told, Settled
      <3>5. QED BY <3>4 DEF Contract!Next
    <2>2. CASE GroupLost \/ UNCHANGED vars
      BY <2>2 DEF GroupLost, vars, dbVars, Contract!contractVars, Entries
    <2>3. QED BY <1>2, <2>1, <2>2, ContractStep DEF Next
  <1>3. QED
    BY <1>1, <1>2, ConsumerInvariance, PTL DEF Spec, ExactlyOnce, Contract!Spec

-----------------------------------------------------------------------------
(* The two services together.  The payment service keeps PaymentContract     *)
(* (ContractHolds in PaymentLifecycle_proofs); what it tells is what is on   *)
(* the stream.                                                               *)

VARIABLES
    approved,   \* payments with a recorded approval
    completed   \* payments with a recorded completion

Payment == INSTANCE PaymentContract WITH Announced <- Payments, told <- Told

\* Money moves for completed payments only
CreditedIsCompleted ==
    \A p \in Payments : credits[p] > 0 => p \in approved /\ p \in completed

\* An event is on the stream only of a payment that was completed, and a payment
\* is completed only after its approval.
LEMMA ToldWasCompleted == Payment!Spec => [](Told \subseteq completed /\ completed \subseteq approved)
  <1> DEFINE J == Told \subseteq completed /\ completed \subseteq approved
  <1>1. Payment!Init => J
    BY DEF Payment!Init
  <1>2. ASSUME J, [Payment!Next]_(Payment!contractVars)
        PROVE  J'
    BY <1>2 DEF Payment!Next, Payment!Approve, Payment!Complete, Payment!Tell,
       Payment!contractVars
  <1> HIDE DEF J
  <1>3. Payment!Spec => []J
    BY <1>1, <1>2, PTL DEF Payment!Spec
  <1>4. QED BY <1>3 DEF J

\* End to end: a wallet is credited only for a payment that the payment service
\* has approved and completed, whatever fails, overlaps or is repeated between
\* the two services.
THEOREM CreditedWasCompleted == Spec /\ Payment!Spec => []CreditedIsCompleted
  <1>1. ASSUME IInv, Told \subseteq completed /\ completed \subseteq approved
        PROVE  CreditedIsCompleted
    <2> SUFFICES ASSUME NEW p \in Payments, credits[p] > 0
                 PROVE  p \in approved /\ p \in completed
      BY DEF CreditedIsCompleted
    <2>1. p \in processed
      BY <1>1 DEF IInv, LedgerOK
    <2>2. p \in Told
      BY <1>1, <2>1 DEF IInv, Told
    <2>3. QED BY <1>1, <2>2
  <1>2. QED
    BY <1>1, ConsumerInvariance, ToldWasCompleted, PTL
=============================================================================
