------------------------- MODULE OutboxWorker_proofs -------------------------
(***************************************************************************)
(* Proofs about OutboxWorker for any rows, batch size and attempt limits,   *)
(* and any number of overlapping workers.                                  *)
(***************************************************************************)
EXTENDS OutboxWorker, TLAPS

Slot == [pc: Pc, batch: SUBSET Rows, seen: [Rows -> 0..SelectLimit]]

\* Storing a record in the slot of one worker leaves the others alone.
LEMMA StoreSlot ==
    ASSUME NEW w \in Workers, worker \in [Workers -> Slot],
           NEW v \in Slot, worker' = [worker EXCEPT ![w] = v]
    PROVE  /\ worker' \in [Workers -> Slot] /\ worker'[w] = v
           /\ \A x \in Workers : x # w => worker'[x] = worker[x]
  OBVIOUS

\* The idle slot is a slot.
LEMMA IdleSlot == Idle \in Slot /\ Idle.pc = "idle" /\ Idle.batch = {}
  BY OutboxAssumption DEF Idle, Slot, Pc

\* What Goto leaves behind.
LEMMA GotoSlot ==
    ASSUME TypeOK, NEW w \in Workers, NEW pc \in Pc, NEW b \in SUBSET Rows, Goto(w, pc, b)
    PROVE  /\ worker' \in [Workers -> Slot]
           /\ worker'[w].pc = pc /\ worker'[w].batch = b /\ \A i \in b : worker'[w].seen[i] = worker[w].seen[i]
           /\ \A x \in Workers : x # w => worker'[x] = worker[x]
  <1> DEFINE s == [i \in Rows |-> IF i \in b THEN worker[w].seen[i] ELSE 0]
             v == [pc |-> pc, batch |-> b, seen |-> s]
  <1>1. worker \in [Workers -> Slot]
    BY DEF TypeOK, Slot
  <1>2. s \in [Rows -> 0..SelectLimit] /\ \A i \in b : s[i] = worker[w].seen[i]
    <2>1. 0 \in 0..SelectLimit /\ worker[w].seen \in [Rows -> 0..SelectLimit]
      BY <1>1, OutboxAssumption DEF Slot
    <2>2. QED BY <2>1
  <1> HIDE DEF s
  <1>2a. v \in Slot /\ v.pc = pc /\ v.batch = b /\ v.seen = s
    BY <1>2 DEF Slot
  <1>3. worker' = [worker EXCEPT ![w] = v]
    BY DEF Goto, s
  <1> HIDE DEF v
  <1>4. QED BY <1>1, <1>2, <1>2a, <1>3, StoreSlot

\* A worker that does not move keeps what it relies on: sent only grows.
LEMMA OthersKept ==
    ASSUME NEW w, MarkOK(w), BatchOK(w), worker'[w] = worker[w], sent \subseteq sent'
    PROVE  MarkOK(w)' /\ BatchOK(w)'
  BY DEF MarkOK, BatchOK, At, Current

\* The worker that moves: it is about to mark only what it has just sent.
LEMMA MoverOK ==
    ASSUME IInv, NEW w \in Workers, NEW i \in Rows, Publish(w, i) \/ Settle(w, i)
    PROVE  /\ worker' \in [Workers -> Slot]
           /\ \A x \in Workers : MarkOK(x)' /\ BatchOK(x)'
  <1>0. /\ TypeOK /\ worker[w].batch \in SUBSET Rows /\ worker[w].batch \ {i} \in SUBSET Rows
        /\ {"loop", "mark", "fail"} \subseteq Pc
        /\ \A x \in Workers : MarkOK(x) /\ BatchOK(x)
    BY DEF IInv, TypeOK, Pc
  <1>1. sent \subseteq sent'
    BY DEF Publish, Settle, Xadd, XaddFails, MarkEventPublished, MarkEventPublishedFails,
           MarkEventFailed, MarkEventFailedFails, rowVars
  <1>2. PICK pc \in Pc, b \in {worker[w].batch, worker[w].batch \ {i}} :
          Goto(w, pc, b) /\ (pc = "mark" => Xadd(w, i) /\ b = worker[w].batch)
    BY <1>0 DEF Publish, Settle, Xadd, XaddFails, MarkEventPublished, MarkEventPublishedFails,
                MarkEventFailed, MarkEventFailedFails
  <1>3. /\ worker' \in [Workers -> Slot]
        /\ worker'[w].pc = pc /\ worker'[w].batch = b
        /\ \A j \in b : worker'[w].seen[j] = worker[w].seen[j]
        /\ \A x \in Workers : x # w => worker'[x] = worker[x]
    BY <1>0, <1>2, GotoSlot
  <1>4. BatchOK(w)'
    BY <1>0, <1>2, <1>3 DEF BatchOK
  <1>5. MarkOK(w)'
    <2>1. SUFFICES ASSUME pc = "mark", NEW j \in Rows, j \in b, \A k \in b : j <= k
                   PROVE  j \in sent'
      BY <1>3 DEF MarkOK, At, Current
    <2>2. b = worker[w].batch /\ Xadd(w, i)
      BY <1>2, <2>1
    <2>3. i <= j /\ j <= i /\ i \in sent'
      BY <2>1, <2>2 DEF Xadd, Current
    <2>4. i = j
      BY <2>3, OutboxAssumption
    <2>5. QED BY <2>3, <2>4
  <1>6. QED BY <1>0, <1>1, <1>3, <1>4, <1>5, OthersKept

\* No update of a row breaks the table: only a sent row becomes published, and
\* attempts stays within the limit.
LEMMA RowsOK ==
    ASSUME IInv, NEW w \in Workers, NEW i \in Rows, Publish(w, i) \/ Settle(w, i)
    PROVE  /\ status' \in [Rows -> {"absent", "pending", "published", "failed"}]
           /\ attempts' \in [Rows -> 0..SelectLimit]
           /\ due' \in [Rows -> BOOLEAN] /\ sent' \subseteq Rows /\ ready' = ready
           /\ PublishedWasSent'
  <1>0. TypeOK /\ PublishedWasSent /\ MarkOK(w) /\ BatchOK(w)
    BY DEF IInv
  <1>1. CASE Publish(w, i)
    BY <1>0, <1>1 DEF Publish, Xadd, XaddFails, rowVars, TypeOK, PublishedWasSent
  <1>2. CASE MarkEventPublished(w, i) \/ MarkEventPublishedFails(w, i)
    <2>1. i \in sent
      BY <1>0, <1>2 DEF MarkEventPublished, MarkEventPublishedFails, MarkOK
    <2>2. QED
      BY <1>0, <1>2, <2>1
      DEF MarkEventPublished, MarkEventPublishedFails, TypeOK, PublishedWasSent
  <1>3. CASE MarkEventFailed(w, i)
    <2>1. worker[w].seen[i] + 1 \in 0..SelectLimit
      <3>1. worker[w].seen[i] \in 0..SelectLimit /\ worker[w].seen[i] < SelectLimit
        BY <1>0, <1>3 DEF MarkEventFailed, Current, BatchOK, TypeOK
      <3>2. QED BY <3>1, OutboxAssumption
    <2>2. /\ status' \in [Rows -> {"absent", "pending", "published", "failed"}]
          /\ attempts' \in [Rows -> 0..SelectLimit] /\ due' \in [Rows -> BOOLEAN]
      BY <1>0, <1>3, <2>1 DEF MarkEventFailed, TypeOK
    <2>3. PublishedWasSent'
      BY <1>0, <1>3 DEF MarkEventFailed, TypeOK, PublishedWasSent
    <2>4. QED BY <1>0, <1>3, <2>2, <2>3 DEF MarkEventFailed, TypeOK
  <1>4. CASE MarkEventFailedFails(w, i)
    BY <1>0, <1>4 DEF MarkEventFailedFails, rowVars, TypeOK, PublishedWasSent
  <1>5. QED BY <1>1, <1>2, <1>3, <1>4 DEF Settle

\* IInv is inductive.
LEMMA NextInv == IInv /\ [Next]_vars => IInv'
  <1>1. SUFFICES ASSUME IInv, [Next]_vars
                 PROVE  IInv'
    OBVIOUS
  <1>2. /\ TypeOK /\ PublishedWasSent /\ worker \in [Workers -> Slot]
        /\ \A w \in Workers : MarkOK(w) /\ BatchOK(w)
    BY <1>1 DEF IInv, TypeOK, Slot
  <1>3. ASSUME NEW w \in Workers, NEW i \in Rows, Publish(w, i) \/ Settle(w, i)
        PROVE  IInv'
    BY <1>1, <1>2, <1>3, MoverOK, RowsOK DEF IInv, TypeOK, Slot
  <1>4. ASSUME NEW w \in Workers,
               EndOfBatch(w) \/ RedisNotReady(w) \/ Crash(w)
        PROVE  IInv'
    <2>1. worker' = [worker EXCEPT ![w] = Idle] /\ UNCHANGED <<rowVars, sent, ready>>
      BY <1>4 DEF EndOfBatch, RedisNotReady, Crash
    <2>2. /\ worker' \in [Workers -> Slot] /\ worker'[w] = Idle
          /\ \A x \in Workers : x # w => worker'[x] = worker[x]
      BY <1>2, <2>1, IdleSlot, StoreSlot
    <2>3. MarkOK(w)' /\ BatchOK(w)'
      BY <2>2, IdleSlot DEF MarkOK, BatchOK, At
    <2>4. \A x \in Workers : MarkOK(x)' /\ BatchOK(x)'
      BY <1>2, <2>1, <2>2, <2>3, OthersKept
    <2>5. QED BY <1>2, <2>1, <2>2, <2>4 DEF IInv, TypeOK, PublishedWasSent, rowVars, Slot
  <1>5. ASSUME NEW w \in Workers, SelectEvents(w)
        PROVE  IInv'
    <2> DEFINE s == [i \in Rows |-> IF i \in Batch THEN attempts[i] ELSE 0]
               v == [pc |-> "loop", batch |-> Batch, seen |-> s]
    <2>0. s \in [Rows -> 0..SelectLimit] /\ Batch \in SUBSET Rows
      <3>1. 0 \in 0..SelectLimit
        BY OutboxAssumption
      <3>2. QED BY <1>2, <3>1 DEF TypeOK, Batch, Eligible
    <2>2. \A i \in Batch : s[i] < SelectLimit
      BY DEF Batch, Eligible
    <2>3. worker' = [worker EXCEPT ![w] = v] /\ UNCHANGED <<rowVars, sent, ready>>
      BY <1>5 DEF SelectEvents
    <2> HIDE DEF s
    <2>1. v \in Slot /\ v.pc = "loop" /\ v.batch = Batch /\ v.seen = s
      BY <2>0 DEF Slot, Pc
    <2> HIDE DEF v
    <2>4. /\ worker' \in [Workers -> Slot] /\ worker'[w] = v
          /\ \A x \in Workers : x # w => worker'[x] = worker[x]
      BY <1>2, <2>1, <2>3, StoreSlot
    <2>5. MarkOK(w)' /\ BatchOK(w)'
      BY <2>1, <2>2, <2>4 DEF MarkOK, BatchOK, At
    <2>6. \A x \in Workers : MarkOK(x)' /\ BatchOK(x)'
      BY <1>2, <2>3, <2>4, <2>5, OthersKept
    <2>7. QED BY <1>2, <2>3, <2>4, <2>6 DEF IInv, TypeOK, PublishedWasSent, rowVars, Slot
  <1>6. ASSUME NEW i \in Rows, SaveOutboxEvent(i) \/ BecomeDue(i)
        PROVE  IInv'
    <2>1. TypeOK'
      BY <1>2, <1>6 DEF SaveOutboxEvent, BecomeDue, TypeOK
    <2>2. PublishedWasSent'
      BY <1>2, <1>6 DEF SaveOutboxEvent, BecomeDue, PublishedWasSent, TypeOK
    <2>3. worker' = worker /\ sent' = sent
      BY <1>6 DEF SaveOutboxEvent, BecomeDue
    <2>4. QED BY <1>2, <2>1, <2>2, <2>3, OthersKept DEF IInv
  <1>7. CASE RedisGoesDown \/ RedisComesBack \/ UNCHANGED vars
    <2>1. UNCHANGED <<status, attempts, due, sent, worker>> /\ ready' \in BOOLEAN
      BY <1>2, <1>7 DEF RedisGoesDown, RedisComesBack, vars, rowVars, TypeOK
    <2>2. QED BY <1>2, <2>1, OthersKept DEF IInv, TypeOK, PublishedWasSent
  <1>8. QED BY <1>1, <1>3, <1>4, <1>5, <1>6, <1>7 DEF Next, Process

\* IInv holds initially.
LEMMA InitInv == Init => IInv
  <1>1. Init => TypeOK /\ PublishedWasSent
    BY OutboxAssumption, IdleSlot DEF Init, TypeOK, PublishedWasSent, Slot
  <1>2. Init => \A w \in Workers : MarkOK(w) /\ BatchOK(w)
    BY IdleSlot DEF Init, MarkOK, BatchOK, At
  <1>3. QED BY <1>1, <1>2 DEF IInv

\* The outbox table and its workers always have their types, and a row is
\* tried at most SelectLimit times however many workers overlap.
THEOREM OutboxTypes == Spec => []TypeOK
  <1>1. IInv /\ [Next]_vars => IInv'
    BY NextInv
  <1>2. IInv => TypeOK
    BY DEF IInv
  <1>3. QED BY InitInv, <1>1, <1>2, PTL DEF Spec

\* A row is marked published only if its event is on the stream.
THEOREM PublishedIsOnStream == Spec => []PublishedWasSent
  <1>1. IInv /\ [Next]_vars => IInv'
    BY NextInv
  <1>2. IInv => PublishedWasSent
    BY DEF IInv
  <1>3. QED BY InitInv, <1>1, <1>2, PTL DEF Spec
=============================================================================
