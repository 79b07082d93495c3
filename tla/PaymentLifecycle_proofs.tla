----------------------- MODULE PaymentLifecycle_proofs -----------------------
(***************************************************************************)
(* Proofs about PaymentLifecycle for any payments, Pi ids, requests and     *)
(* sweepers.  The inductive invariant IInv speaks of one row (RowOK) and    *)
(* of one request (RequestOK) at a time.  What a request relies on only     *)
(* grows (Grow), so a step of one request keeps the facts of the others.    *)
(***************************************************************************)
EXTENDS PaymentLifecycle, TLAPS

(* The time columns, the record of the Pi Network and the ids ever bound     *)
(* are never taken back.                                                     *)
Grow ==
    /\ \A p \in Payments : stamps[p] \subseteq stamps'[p]
    /\ \A p \in Payments : bound[p] \subseteq bound'[p]
    /\ \A q \in PiIds : pi[q] \subseteq pi'[q]

\* Requests other than r remember what they did
OnlyRequest(r) == \A x \in Requests : x # r => req'[x] = req[x]

-----------------------------------------------------------------------------

\* A row found by its Pi id is a row, and has that id.
LEMMA LocalRowFound ==
    ASSUME NEW q, LocalRow(q) # NoPayment
    PROVE  LocalRow(q) \in Payments /\ piOf[LocalRow(q)] = q
  BY DEF LocalRow, RowOf

\* A row found by its Pi id, or the absence of one, is what a request stores.
LEMMA LocalRowType ==
    ASSUME NEW q PROVE LocalRow(q) \in Payments \cup {NoPayment}
  BY LocalRowFound

\* Idle is a request record.
LEMMA IdleType == Idle \in Request
  BY DEF Idle, Request, Pc, Status, PcComplete, PcWebhook, PcResolve, Stamp, Terminal

\* A step of the request slot r leaves every other slot alone.
LEMMA RequestFrame ==
    ASSUME TypeOK, NEW r \in Requests, Arrive(r) \/ Continue(r)
    PROVE  OnlyRequest(r)
  BY DEF TypeOK, OnlyRequest, Arrive, Continue, Begin, Goto, Reply,
         ApprovePayment, CompletePayment, CancelPayment, FailPayment,
         HandleIncomplete, ResolveIncomplete, ApprovePi, ApproveSave,
         CompletePi, CompleteCheck, CompleteSave, CompleteEmit, CancelSave,
         FailSave, WebhookPi, WebhookPiError, WebhookFail, WebhookCheck,
         WebhookSave, ResolveLocal, ResolveComplete, ResolveCancel, ResolveSave,
         PiAnswerLost, Abort

\* Storing a well-formed record in slot r keeps req well typed.
LEMMA ReqUpdate ==
    ASSUME NEW r \in Requests, req \in [Requests -> Request],
           NEW v \in Request, req' = [req EXCEPT ![r] = v]
    PROVE  req' \in [Requests -> Request]
  OBVIOUS

\* The three ways a handler updates its slot keep req well typed.
LEMMA ReplyType ==
    ASSUME TypeOK, NEW r \in Requests, Reply(r)
    PROVE  req' \in [Requests -> Request]
  BY IdleType, ReqUpdate DEF TypeOK, Reply

LEMMA GotoType ==
    ASSUME TypeOK, NEW r \in Requests, NEW pc \in Pc, Goto(r, pc)
    PROVE  req' \in [Requests -> Request]
  <1>1. [pc |-> pc, pay |-> req[r].pay, pid |-> req[r].pid, seen |-> req[r].seen] \in Request
    BY DEF TypeOK, Request
  <1>2. QED BY <1>1, ReqUpdate DEF TypeOK, Goto

LEMMA BeginType ==
    ASSUME TypeOK, NEW r \in Requests, NEW pc \in Pc, NEW p \in Payments \cup {NoPayment},
           NEW q \in PiIds \cup {NoPi}, Begin(r, pc, p, q)
    PROVE  req' \in [Requests -> Request]
  <1>1. (IF p = NoPayment THEN "absent" ELSE status[p]) \in Status
    BY DEF TypeOK, Status
  <1>2. [pc |-> pc, pay |-> p, pid |-> q,
         seen |-> IF p = NoPayment THEN "absent" ELSE status[p]] \in Request
    BY <1>1 DEF Request
  <1>3. QED BY <1>2, ReqUpdate DEF TypeOK, Begin

\* A new status keeps the row's columns well typed.
LEMMA SetStatusType ==
    ASSUME TypeOK, NEW p, NEW s \in Stamp, SetStatus(p, s)
    PROVE  status' \in [Payments -> Status] /\ stamps' \in [Payments -> SUBSET Stamp]
  BY DEF TypeOK, SetStatus, Status

\* So does a new entry in the record of the Pi Network.
LEMMA PiRecordType ==
    ASSUME TypeOK, NEW q, NEW flag \in PiFlag, PiRecord(q, flag)
    PROVE  pi' \in [PiIds -> SUBSET PiFlag]
  BY DEF TypeOK, PiRecord

-----------------------------------------------------------------------------
(* Type correctness *)

\* A request that arrives is stored as a well-formed record.
LEMMA ArriveType ==
    ASSUME TypeOK, NEW r \in Requests, Arrive(r)
    PROVE  TypeOK'
  <1>1. req' \in [Requests -> Request]
    <2>1. ASSUME NEW p \in Payments, NEW q \in PiIds \cup {NoPi}, ApprovePayment(r, p, q)
          PROVE  req' \in [Requests -> Request]
      BY <2>1, BeginType DEF ApprovePayment, Pc
    <2>2. ASSUME NEW p \in Payments, CompletePayment(r, p)
          PROVE  req' \in [Requests -> Request]
      BY <2>2, BeginType DEF CompletePayment, Pc, PcComplete, TypeOK
    <2>3. ASSUME NEW p \in Payments, CancelPayment(r, p) \/ FailPayment(r, p)
          PROVE  req' \in [Requests -> Request]
      BY <2>3, BeginType DEF CancelPayment, FailPayment, Pc
    <2>4. ASSUME NEW q \in PiIds, HandleIncomplete(r, q)
          PROVE  req' \in [Requests -> Request]
      BY <2>4, BeginType, LocalRowType DEF HandleIncomplete, Pc, PcWebhook
    <2>5. ASSUME NEW q \in PiIds, ResolveIncomplete(r, q)
          PROVE  req' \in [Requests -> Request]
      BY <2>5, BeginType DEF ResolveIncomplete, Pc, PcResolve
    <2>6. QED BY <2>1, <2>2, <2>3, <2>4, <2>5 DEF Arrive
  <1>2. UNCHANGED <<rowVars, pi, sweep, emitted>>
    BY DEF Arrive, ApprovePayment, CompletePayment, CancelPayment, FailPayment,
           HandleIncomplete, ResolveIncomplete
  <1>3. QED BY <1>1, <1>2 DEF TypeOK, rowVars

\* Every continuation of a request keeps the types.
LEMMA ContinueType ==
    ASSUME TypeOK, NEW r \in Requests, Continue(r)
    PROVE  TypeOK'
  <1> USE DEF Pc, PcComplete, PcWebhook, PcResolve
  <1>1. CASE ApprovePi(r) \/ CompletePi(r) \/ WebhookPi(r) \/ WebhookPiError(r)
    <2>1. req' \in [Requests -> Request]
      BY <1>1, GotoType DEF ApprovePi, CompletePi, WebhookPi, WebhookPiError
    <2>2. pi' \in [PiIds -> SUBSET PiFlag]
      BY <1>1, PiRecordType DEF ApprovePi, CompletePi, WebhookPi, WebhookPiError, PiFlag, TypeOK
    <2>3. QED
      BY <1>1, <2>1, <2>2
      DEF TypeOK, rowVars, ApprovePi, CompletePi, WebhookPi, WebhookPiError
  <1>2. CASE ApproveSave(r)
    <2>1. req' \in [Requests -> Request] /\ UNCHANGED <<pi, sweep, emitted>>
      BY <1>2, ReplyType DEF ApproveSave
    <2>2. CASE UNCHANGED rowVars
      BY <2>1, <2>2 DEF TypeOK, rowVars
    <2>3. CASE ~UNCHANGED rowVars
      <3> DEFINE p == req[r].pay
                 q == req[r].pid
      <3>1. /\ SetStatus(p, "approved")
            /\ aged' = [aged EXCEPT ![p] = FALSE]
            /\ piOf' = [piOf EXCEPT ![p] = IF q = NoPi THEN @ ELSE q]
            /\ bound' = [bound EXCEPT ![p] = IF q = NoPi THEN @ ELSE @ \cup {q}]
        BY <1>2, <2>3 DEF ApproveSave
      <3>2. status' \in [Payments -> Status] /\ stamps' \in [Payments -> SUBSET Stamp]
        BY <3>1, SetStatusType DEF Stamp
      <3>3. q \in PiIds \cup {NoPi}
        BY DEF TypeOK, Request
      <3>4. QED BY <2>1, <3>1, <3>2, <3>3 DEF TypeOK
    <2>4. QED BY <2>2, <2>3
  <1>3. CASE CompleteCheck(r) \/ WebhookCheck(r)
    <2>1. req[r].pay \in Payments \cup {NoPayment} /\ req[r].pid \in PiIds \cup {NoPi}
      BY DEF TypeOK, Request
    <2>2. req' \in [Requests -> Request]
      BY <1>3, <2>1, BeginType, ReplyType DEF CompleteCheck, WebhookCheck
    <2>3. QED BY <1>3, <2>2 DEF TypeOK, rowVars, CompleteCheck, WebhookCheck
  <1>4. CASE \/ CompleteSave(r) \/ CancelSave(r) \/ FailSave(r)
             \/ WebhookFail(r) \/ WebhookSave(r) \/ ResolveSave(r)
    <2>1. req' \in [Requests -> Request]
      BY <1>4, ReplyType, GotoType
      DEF CompleteSave, CancelSave, FailSave, WebhookFail, WebhookSave, ResolveSave
    <2>2. \E p, s : s \in Stamp /\ SetStatusOnly(p, s)
      BY <1>4 DEF CompleteSave, CancelSave, FailSave, WebhookFail, WebhookSave,
                  ResolveSave, Stamp, Terminal
    <2>3. UNCHANGED <<pi, sweep, emitted>>
      BY <1>4 DEF CompleteSave, CancelSave, FailSave, WebhookFail, WebhookSave, ResolveSave
    <2>4. QED BY <2>1, <2>2, <2>3, SetStatusType DEF SetStatusOnly, TypeOK
  <1>5. CASE CompleteEmit(r)
    <2>1. emitted' \in [Payments -> Nat]
      <3>1. CASE req[r].pay \in Payments
        <4>1. emitted[req[r].pay] + 1 \in Nat
          BY <3>1 DEF TypeOK
        <4>2. QED BY <1>5, <4>1 DEF CompleteEmit, TypeOK
      <3>2. CASE req[r].pay \notin Payments
        BY <1>5, <3>2 DEF CompleteEmit, TypeOK
      <3>3. QED BY <3>1, <3>2
    <2>2. QED BY <1>5, <2>1, ReplyType DEF CompleteEmit, TypeOK, rowVars
  <1>6. CASE ResolveLocal(r)
    <2>1. req[r].pid \in PiIds \cup {NoPi}
      BY DEF TypeOK, Request
    <2>2. req' \in [Requests -> Request]
      BY <1>6, <2>1, BeginType, ReplyType, LocalRowType DEF ResolveLocal
    <2>3. QED BY <1>6, <2>2 DEF TypeOK, rowVars, ResolveLocal
  <1>7. CASE ResolveComplete(r) \/ ResolveCancel(r)
    <2>1. req' \in [Requests -> Request]
      BY <1>7, GotoType, ReplyType DEF ResolveComplete, ResolveCancel
    <2>2. pi' \in [PiIds -> SUBSET PiFlag]
      BY <1>7, PiRecordType DEF ResolveComplete, ResolveCancel, PiFlag, TypeOK
    <2>3. QED BY <1>7, <2>1, <2>2 DEF TypeOK, rowVars, ResolveComplete, ResolveCancel
  <1>8. CASE PiAnswerLost(r) \/ Abort(r)
    <2>1. pi' \in [PiIds -> SUBSET PiFlag]
      BY <1>8, PiRecordType DEF PiAnswerLost, Abort, PiFlag, TypeOK
    <2>2. QED BY <1>8, <2>1, ReplyType DEF TypeOK, rowVars, PiAnswerLost, Abort
  <1>9. QED
    BY <1>1, <1>2, <1>3, <1>4, <1>5, <1>6, <1>7, <1>8 DEF Continue

\* Every step keeps the types.
LEMMA NextType ==
    ASSUME TypeOK, [Next]_vars
    PROVE  TypeOK'
  <1>1. ASSUME NEW p \in Payments, CreatePayment(p) \/ Age(p)
        PROVE  TypeOK'
    BY <1>1 DEF CreatePayment, Age, TypeOK, Status
  <1>2. ASSUME NEW q \in PiIds, PiUserPays(q) \/ PiUserCancels(q)
        PROVE  TypeOK'
    <2>1. pi' \in [PiIds -> SUBSET PiFlag]
      BY <1>2, PiRecordType DEF PiUserPays, PiUserCancels, PiFlag
    <2>2. QED BY <1>2, <2>1 DEF PiUserPays, PiUserCancels, TypeOK, rowVars
  <1>3. ASSUME NEW s \in Sweepers, Reconcile(s)
        PROVE  TypeOK'
    <2>1. CASE ReconcileStart(s)
      BY <2>1 DEF ReconcileStart, StalePayments, TypeOK, rowVars
    <2>2. ASSUME NEW p \in Payments, ReconcileSkip(s, p)
          PROVE  TypeOK'
      BY <2>2 DEF ReconcileSkip, TypeOK, rowVars
    <2>3. ASSUME NEW p \in Payments, ReconcileSave(s, p)
          PROVE  TypeOK'
      BY <2>3, SetStatusType DEF ReconcileSave, SetStatusOnly, TypeOK, Stamp, Terminal
    <2>4. QED BY <1>3, <2>1, <2>2, <2>3 DEF Reconcile
  <1>4. CASE Crash
    BY <1>4, IdleType DEF Crash, TypeOK, rowVars
  <1>5. CASE UNCHANGED vars
    BY <1>5 DEF vars, TypeOK
  <1>6. QED
    BY <1>1, <1>2, <1>3, <1>4, <1>5, ArriveType, ContinueType DEF Next

\* The table, the Pi record and every handler's memory always have their types.
THEOREM TypeCorrect == Spec => []TypeOK
  <1>1. Init => TypeOK
    BY IdleType DEF Init, TypeOK, Status
  <1>2. TypeOK /\ [Next]_vars => TypeOK'
    BY NextType
  <1>3. QED BY <1>1, <1>2, PTL DEF Spec

-----------------------------------------------------------------------------
(* What only grows, and what a step leaves alone *)

\* A new status adds a time column and removes none.
LEMMA SetStatusGrows ==
    ASSUME TypeOK, NEW p, NEW s, SetStatus(p, s)
    PROVE  \A x \in Payments : stamps[x] \subseteq stamps'[x]
  BY DEF TypeOK, SetStatus

\* The Pi Network forgets nothing.
LEMMA PiRecordGrows ==
    ASSUME TypeOK, NEW q, NEW flag, PiRecord(q, flag)
    PROVE  \A x \in PiIds : pi[x] \subseteq pi'[x]
  BY DEF TypeOK, PiRecord

\* A continuation of a request only adds time columns, bound ids and Pi flags.
LEMMA ContinueGrows ==
    ASSUME TypeOK, NEW r \in Requests, Continue(r)
    PROVE  Grow
  <1>1. CASE ApproveSave(r)
    <2>1. CASE UNCHANGED rowVars
      BY <1>1, <2>1 DEF ApproveSave, rowVars, Grow
    <2>2. CASE ~UNCHANGED rowVars
      <3>1. /\ SetStatus(req[r].pay, "approved")
            /\ bound' = [bound EXCEPT ![req[r].pay] =
                           IF req[r].pid = NoPi THEN @ ELSE @ \cup {req[r].pid}]
            /\ UNCHANGED pi
        BY <1>1, <2>2 DEF ApproveSave
      <3>2. \A p \in Payments : bound[p] \subseteq bound'[p]
        BY <3>1 DEF TypeOK
      <3>3. QED BY <3>1, <3>2, SetStatusGrows DEF Grow
    <2>3. QED BY <2>1, <2>2
  <1>2. CASE UNCHANGED rowVars
    <2>1. UNCHANGED pi \/ \E q, flag : PiRecord(q, flag)
      BY DEF Continue, ApprovePi, ApproveSave, CompletePi, CompleteCheck, CompleteSave,
             CompleteEmit, CancelSave, FailSave, WebhookPi, WebhookPiError, WebhookFail,
             WebhookCheck, WebhookSave, ResolveLocal, ResolveComplete, ResolveCancel,
             ResolveSave, PiAnswerLost, Abort
    <2>2. QED BY <1>2, <2>1, PiRecordGrows DEF Grow, rowVars
  <1>3. CASE ~UNCHANGED rowVars /\ ~ApproveSave(r)
    <2>1. UNCHANGED pi /\ \E p, s : SetStatusOnly(p, s)
      BY <1>3 DEF Continue, ApprovePi, CompletePi, CompleteCheck, CompleteSave,
             CompleteEmit, CancelSave, FailSave, WebhookPi, WebhookPiError, WebhookFail,
             WebhookCheck, WebhookSave, ResolveLocal, ResolveComplete, ResolveCancel,
             ResolveSave, PiAnswerLost, Abort
    <2>2. QED BY <2>1, SetStatusGrows DEF Grow, SetStatusOnly
  <1>4. QED BY <1>1, <1>2, <1>3

\* So does every other step.
LEMMA NextGrows ==
    ASSUME TypeOK, [Next]_vars
    PROVE  Grow
  <1>1. ASSUME NEW r \in Requests, Arrive(r)
        PROVE  Grow
    BY <1>1 DEF Arrive, ApprovePayment, CompletePayment, CancelPayment, FailPayment,
                HandleIncomplete, ResolveIncomplete, Grow, rowVars
  <1>2. ASSUME NEW q \in PiIds, PiUserPays(q) \/ PiUserCancels(q)
        PROVE  Grow
    BY <1>2, PiRecordGrows DEF PiUserPays, PiUserCancels, Grow, rowVars
  <1>3. ASSUME NEW s \in Sweepers, Reconcile(s)
        PROVE  Grow
    <2>1. UNCHANGED pi /\ (UNCHANGED rowVars \/ \E p : SetStatusOnly(p, "failed"))
      BY <1>3 DEF Reconcile, ReconcileStart, ReconcileSave, ReconcileSkip
    <2>2. QED BY <2>1, SetStatusGrows DEF Grow, rowVars, SetStatusOnly
  <1>4. ASSUME NEW p \in Payments, CreatePayment(p) \/ Age(p)
        PROVE  Grow
    BY <1>4 DEF CreatePayment, Age, Grow
  <1>5. CASE Crash \/ UNCHANGED vars
    BY <1>5 DEF Crash, Grow, vars, rowVars
  <1>6. QED BY <1>1, <1>2, <1>3, <1>4, <1>5, ContinueGrows DEF Next

\* What a request relies on stays true while it waits.
LEMMA KeepRequest ==
    ASSUME TypeOK, Grow, NEW r \in Requests, req'[r] = req[r], RequestOK(r)
    PROVE  RequestOK(r)'
  <1>0. req[r] \in Request
    BY DEF TypeOK
  <1>1. \A p \in Payments : stamps[p] \subseteq stamps'[p] /\ bound[p] \subseteq bound'[p]
    BY DEF Grow
  <1>2. \A q : PiCompleted(q) => PiCompleted(q)'
    BY DEF PiCompleted, Grow
  <1>3. req[r].pay \in Payments /\ Holds(r) => Holds(r)'
    BY <1>1 DEF Holds
  <1>4. ApproveOK(r)' /\ CloseOK(r)'
    BY DEF RequestOK, ApproveOK, CloseOK
  <1>5. CompleteOK(r)'
    BY <1>1, <1>2, <1>3 DEF RequestOK, CompleteOK, CallsPi
  <1>6. WebhookOK(r)'
    BY <1>2, <1>3 DEF RequestOK, WebhookOK
  <1>7. ResolveOK(r)'
    <2>1. req[r].pay \in Payments \cup {NoPayment}
      BY <1>0 DEF Request
    <2>2. QED BY <2>1, <1>2, <1>3 DEF RequestOK, ResolveOK
  <1>8. QED BY <1>4, <1>5, <1>6, <1>7 DEF RequestOK

\* An idle slot relies on nothing.
LEMMA IdleOK ==
    ASSUME NEW r \in Requests, req'[r] = Idle
    PROVE  RequestOK(r)'
  BY DEF Idle, RequestOK, ApproveOK, CompleteOK, CloseOK, WebhookOK, ResolveOK,
         PcComplete, PcWebhook, PcResolve

-----------------------------------------------------------------------------
(* The facts of the request that moves *)

\* Slot r holds these fields after the step
Left(r, pc, p, q, seen) ==
    req'[r].pc = pc /\ req'[r].pay = p /\ req'[r].pid = q /\ req'[r].seen = seen

\* The record a handler leaves behind.
LEMMA Slot ==
    ASSUME TypeOK, NEW r \in Requests
    PROVE  /\ Reply(r) => req'[r] = Idle
           /\ \A pc : Goto(r, pc) => Left(r, pc, req[r].pay, req[r].pid, req[r].seen)
           /\ \A pc, p, q : Begin(r, pc, p, q) =>
                 Left(r, pc, p, q, IF p = NoPayment THEN "absent" ELSE status[p])
  BY DEF TypeOK, Reply, Goto, Begin, Left

\* A request that starts finds what it will rely on.
LEMMA ArriveOK ==
    ASSUME IInv, NEW r \in Requests, Arrive(r)
    PROVE  RequestOK(r)'
  <1> USE PaymentAssumption DEF Left, RequestOK, ApproveOK, CompleteOK, CloseOK, WebhookOK, ResolveOK,
          PcComplete, PcWebhook, PcResolve
  <1>0. TypeOK /\ \A p \in Payments : RowOK(p)
    BY DEF IInv
  <1>1. ASSUME NEW p \in Payments, NEW q \in PiIds \cup {NoPi}, ApprovePayment(r, p, q)
        PROVE  RequestOK(r)'
    <2>1. p # NoPayment
      OBVIOUS
    <2>2. QED
      BY <1>0, <1>1, <2>1, Slot DEF ApprovePayment, IsTransitionAllowed, CallsPi
  <1>2. ASSUME NEW p \in Payments, CompletePayment(r, p)
        PROVE  RequestOK(r)'
    <2>1. p # NoPayment /\ status[p] = "approved" /\ RowOK(p)
      BY <1>0, <1>2 DEF CompletePayment, IsTransitionAllowed
    <2>2. "approved" \in stamps'[p] /\ bound'[p] = bound[p]
      BY <1>2, <2>1 DEF RowOK, CompletePayment, rowVars
    <2>3. piOf[p] # NoPi => piOf[p] \in bound[p]
      BY <2>1 DEF RowOK
    <2>4. p \in PiPayments /\ ~PiIdOptional => piOf[p] # NoPi
      BY <2>1 DEF RowOK
    <2>5. Left(r, IF CallsPi(p, piOf[p]) THEN "complete.pi" ELSE "complete.check",
                p, piOf[p], "approved")
      BY <1>0, <1>2, <2>1, Slot DEF CompletePayment
    <2>6. QED BY <2>1, <2>2, <2>3, <2>4, <2>5 DEF Holds, CallsPi
  <1>3. ASSUME NEW p \in Payments, CancelPayment(r, p) \/ FailPayment(r, p)
        PROVE  RequestOK(r)'
    BY <1>0, <1>3, Slot DEF CancelPayment, FailPayment, IsTransitionAllowed
  <1>4. ASSUME NEW q \in PiIds, HandleIncomplete(r, q)
        PROVE  RequestOK(r)'
    <2> DEFINE p == LocalRow(q)
    <2>1. p \in Payments /\ piOf[p] = q /\ status[p] = "approved" /\ RowOK(p)
      BY <1>0, <1>4, LocalRowFound DEF HandleIncomplete
    <2>2. "approved" \in stamps'[p] /\ q \in bound'[p]
      BY <1>4, <2>1 DEF RowOK, HandleIncomplete, rowVars
    <2>3. Left(r, "webhook.pi", p, q, "approved")
      BY <1>0, <1>4, <2>1, Slot DEF HandleIncomplete
    <2>4. QED BY <2>1, <2>2, <2>3 DEF Holds
  <1>5. ASSUME NEW q \in PiIds, ResolveIncomplete(r, q)
        PROVE  RequestOK(r)'
    BY <1>0, <1>5, Slot DEF ResolveIncomplete, PiCompleted
  <1>6. QED BY <1>1, <1>2, <1>3, <1>4, <1>5 DEF Arrive

\* A Pi call that succeeds has made the Pi Network record its flag.
LEMMA PiRecorded ==
    ASSUME TypeOK, NEW q \in PiIds, PiRecord(q, "completed")
    PROVE  "completed" \in pi'[q]
  BY DEF TypeOK, PiRecord

\* A request that goes on still has what it relies on.
LEMMA ContinueOK ==
    ASSUME IInv, Grow, NEW r \in Requests, Continue(r)
    PROVE  RequestOK(r)'
  <1> DEFINE p == req[r].pay
             q == req[r].pid
  <1> USE PaymentAssumption DEF Left, PcComplete, PcWebhook, PcResolve
  <1>0. /\ TypeOK /\ RequestOK(r) /\ req[r] \in Request
        /\ \A x \in Payments : RowOK(x)
    BY DEF IInv, TypeOK
  <1>a. p \in Payments \cup {NoPayment} /\ q \in PiIds \cup {NoPi}
    BY <1>0 DEF Request
  <1>b. p \in Payments /\ Holds(r) =>
            "approved" \in stamps'[p] /\ (q # NoPi => q \in bound'[p])
    BY DEF Holds, Grow
  <1>1. CASE ApprovePi(r)
    <2>1. Left(r, "approve.save", p, q, req[r].seen)
      BY <1>0, <1>1, Slot DEF ApprovePi
    <2>2. QED
      BY <1>0, <1>1, <2>1 DEF ApprovePi, At, RequestOK, ApproveOK, CompleteOK, CloseOK,
                              WebhookOK, ResolveOK
  <1>2. CASE CompletePi(r)
    <2>1. Left(r, "complete.check", p, q, req[r].seen)
      BY <1>0, <1>2, Slot DEF CompletePi
    <2>2. q \in PiIds /\ "completed" \in pi'[q]
      BY <1>0, <1>a, <1>2, PiRecorded DEF CompletePi, At, RequestOK, CompleteOK
    <2>3. QED
      BY <1>0, <1>b, <1>2, <2>1, <2>2
      DEF CompletePi, At, RequestOK, ApproveOK, CompleteOK, CloseOK, WebhookOK, ResolveOK, Holds, PiCompleted
  <1>3. CASE CompleteCheck(r)
    <2>1. CASE req'[r] = Idle
      BY <2>1, IdleOK
    <2>2. CASE req'[r] # Idle
      <3>1. p \in Payments /\ Holds(r) /\ IsTransitionAllowed(status[p], "completed")
        BY <1>0, <1>3, <2>2, Slot DEF CompleteCheck, At, RequestOK, CompleteOK
      <3>2. Left(r, "complete.save", p, q, "approved")
        BY <1>0, <1>3, <2>2, <3>1, Slot DEF CompleteCheck, IsTransitionAllowed
      <3>3. PiCompleted(q) => "completed" \in pi'[q]
        BY DEF PiCompleted, Grow
      <3>4. QED
        BY <1>0, <1>b, <1>3, <3>1, <3>2, <3>3
        DEF CompleteCheck, At, RequestOK, ApproveOK, CompleteOK, CloseOK, WebhookOK,
            ResolveOK, Holds, CallsPi, PiCompleted
    <2>3. QED BY <2>1, <2>2
  <1>4. CASE CompleteSave(r)
    <2>1. CASE p \in PiPayments
      <3>1. Left(r, "complete.emit", p, q, req[r].seen)
        BY <1>0, <1>4, <2>1, Slot DEF CompleteSave
      <3>2. "completed" \in stamps'[p]
        BY <1>0, <1>4, <2>1 DEF CompleteSave, SetStatusOnly, SetStatus, TypeOK
      <3>3. PiCompleted(q) => "completed" \in pi'[q]
        BY DEF PiCompleted, Grow
      <3>4. QED
        BY <1>0, <1>b, <1>4, <2>1, <3>1, <3>2, <3>3
        DEF CompleteSave, At, RequestOK, ApproveOK, CompleteOK, CloseOK, WebhookOK,
            ResolveOK, Holds, CallsPi, PiCompleted
    <2>2. CASE p \notin PiPayments
      BY <1>0, <1>4, <2>2, Slot, IdleOK DEF CompleteSave
    <2>3. QED BY <2>1, <2>2
  <1>5. CASE WebhookPi(r)
    <2>1. Left(r, "webhook.check", p, q, req[r].seen)
      BY <1>0, <1>5, Slot DEF WebhookPi
    <2>2. q \in PiIds /\ "completed" \in pi'[q]
      BY <1>0, <1>a, <1>5, PiRecorded DEF WebhookPi, At, RequestOK, WebhookOK
    <2>3. QED
      BY <1>0, <1>b, <1>5, <2>1, <2>2
      DEF WebhookPi, At, RequestOK, ApproveOK, CompleteOK, CloseOK, WebhookOK, ResolveOK, Holds, PiCompleted
  <1>6. CASE WebhookPiError(r)
    <2>1. Left(r, "webhook.fail", p, q, req[r].seen)
      BY <1>0, <1>6, Slot DEF WebhookPiError
    <2>2. QED
      BY <1>0, <1>b, <1>6, <2>1
      DEF WebhookPiError, At, RequestOK, ApproveOK, CompleteOK, CloseOK, WebhookOK,
          ResolveOK, Holds
  <1>7. CASE WebhookCheck(r)
    <2>1. CASE req'[r] = Idle
      BY <2>1, IdleOK
    <2>2. CASE req'[r] # Idle
      <3>1. p \in Payments /\ Holds(r) /\ q # NoPi /\ PiCompleted(q)
        BY <1>0, <1>7 DEF WebhookCheck, At, RequestOK, WebhookOK
      <3>2. Left(r, "webhook.save", p, q, "approved")
        BY <1>0, <1>7, <2>2, <3>1, Slot DEF WebhookCheck
      <3>3. q \in PiIds /\ "completed" \in pi'[q]
        BY <3>1 DEF PiCompleted, Grow
      <3>4. QED
        BY <1>b, <3>1, <3>2, <3>3
        DEF RequestOK, ApproveOK, CompleteOK, CloseOK, WebhookOK, ResolveOK, Holds, PiCompleted
    <2>3. QED BY <2>1, <2>2
  <1>8. CASE ResolveLocal(r)
    <2> DEFINE l == LocalRow(q)
    <2>1. CASE req'[r] = Idle
      BY <2>1, IdleOK
    <2>2. CASE req'[r] # Idle
      <3>1. q # NoPi
        BY <1>0, <1>8 DEF ResolveLocal, At, RequestOK, ResolveOK
      <3>2. l # NoPayment => l \in Payments /\ "approved" \in stamps'[l] /\ q \in bound'[l]
        <4>1. l # NoPayment => l \in Payments /\ piOf[l] = q
          BY LocalRowFound
        <4>2. l # NoPayment => "approved" \in stamps[l] /\ q \in bound[l]
          BY <1>0, <3>1, <4>1 DEF RowOK
        <4>3. QED BY <4>1, <4>2 DEF Grow
      <3>3. \E pc \in {"resolve.complete", "resolve.saveCompleted", "resolve.cancel"} :
              /\ Begin(r, pc, l, q)
              /\ pc = "resolve.saveCompleted" => l # NoPayment /\ At(r, "resolve.done")
        BY <1>0, <1>8, <2>2, Slot DEF ResolveLocal
      <3>4. PICK pc \in {"resolve.complete", "resolve.saveCompleted", "resolve.cancel"} :
              /\ req'[r].pc = pc /\ req'[r].pay = l /\ req'[r].pid = q
              /\ pc = "resolve.saveCompleted" => l # NoPayment /\ At(r, "resolve.done")
        BY <1>0, <3>3, Slot
      <3>5. pc = "resolve.saveCompleted" => q \in PiIds /\ "completed" \in pi'[q]
        BY <1>0, <3>4 DEF PiCompleted, Grow, At, RequestOK, ResolveOK
      <3>6. QED
        BY <3>1, <3>2, <3>4, <3>5
        DEF RequestOK, ApproveOK, CompleteOK, CloseOK, WebhookOK, ResolveOK, Holds, PiCompleted
    <2>3. QED BY <2>1, <2>2
  <1>9. CASE ResolveComplete(r)
    <2>1. CASE req'[r] = Idle
      BY <2>1, IdleOK
    <2>2. CASE req'[r] # Idle
      <3>1. p \in Payments /\ q # NoPi /\ Holds(r)
        BY <1>0, <1>a, <1>9, <2>2, Slot DEF ResolveComplete, At, RequestOK, ResolveOK
      <3>2. Left(r, "resolve.saveCompleted", p, q, req[r].seen)
        BY <1>0, <1>9, <2>2, Slot DEF ResolveComplete
      <3>3. q \in PiIds /\ "completed" \in pi'[q]
        BY <1>0, <1>a, <1>9, <3>1, PiRecorded DEF ResolveComplete
      <3>4. QED
        BY <1>b, <3>1, <3>2, <3>3
        DEF RequestOK, ApproveOK, CompleteOK, CloseOK, WebhookOK, ResolveOK, Holds, PiCompleted
    <2>3. QED BY <2>1, <2>2
  <1>10. CASE ResolveCancel(r)
    <2>1. CASE req'[r] = Idle
      BY <2>1, IdleOK
    <2>2. CASE req'[r] # Idle
      <3>1. p \in Payments /\ q # NoPi /\ Holds(r)
        BY <1>0, <1>a, <1>10, <2>2, Slot DEF ResolveCancel, At, RequestOK, ResolveOK
      <3>2. Left(r, "resolve.saveCancelled", p, q, req[r].seen)
        BY <1>0, <1>10, <2>2, Slot DEF ResolveCancel
      <3>3. QED
        BY <1>b, <3>1, <3>2
        DEF RequestOK, ApproveOK, CompleteOK, CloseOK, WebhookOK, ResolveOK, Holds, PiCompleted
    <2>3. QED BY <2>1, <2>2
  <1>11. CASE \/ ApproveSave(r) \/ CompleteEmit(r) \/ CancelSave(r) \/ FailSave(r)
              \/ WebhookFail(r) \/ WebhookSave(r) \/ ResolveSave(r)
              \/ PiAnswerLost(r) \/ Abort(r)
    <2>1. Reply(r)
      BY <1>11 DEF ApproveSave, CompleteEmit, CancelSave, FailSave, WebhookFail,
                   WebhookSave, ResolveSave, PiAnswerLost, Abort
    <2>2. QED BY <1>0, <2>1, Slot, IdleOK
  <1>12. QED
    BY <1>1, <1>2, <1>3, <1>4, <1>5, <1>6, <1>7, <1>8, <1>9, <1>10, <1>11 DEF Continue

-----------------------------------------------------------------------------
(* The rows *)

\* Closing a row keeps the row facts, if a completed row had been approved.
LEMMA CloseRow ==
    ASSUME TypeOK, NEW p, NEW s \in Terminal, SetStatusOnly(p, s), UNCHANGED emitted,
           s = "completed" => "approved" \in stamps[p],
           \A x \in Payments : RowOK(x)
    PROVE  \A x \in Payments : RowOK(x)'
  <1> SUFFICES ASSUME NEW x \in Payments
               PROVE  RowOK(x)'
    OBVIOUS
  <1>1. /\ status'[x] = IF x = p THEN s ELSE status[x]
        /\ stamps'[x] = IF x = p THEN stamps[x] \cup {s} ELSE stamps[x]
        /\ UNCHANGED <<piOf, bound, emitted>>
    BY DEF SetStatusOnly, SetStatus, TypeOK
  <1>2. QED BY <1>1 DEF RowOK, Terminal

\* Approving a row keeps the row facts.
LEMMA ApproveRow ==
    ASSUME IInv, NEW r \in Requests, ApproveSave(r)
    PROVE  \A x \in Payments : RowOK(x)'
  <1> DEFINE p == req[r].pay
             q == req[r].pid
  <1>0. TypeOK /\ RequestOK(r) /\ req[r] \in Request /\ \A x \in Payments : RowOK(x)
    BY DEF IInv, TypeOK
  <1>1. CASE UNCHANGED rowVars
    BY <1>0, <1>1 DEF ApproveSave, rowVars, RowOK
  <1>2. CASE ~UNCHANGED rowVars
    <2> SUFFICES ASSUME NEW x \in Payments
                 PROVE  RowOK(x)'
      OBVIOUS
    <2>1. /\ SetStatus(p, "approved")
          /\ piOf' = [piOf EXCEPT ![p] = IF q = NoPi THEN @ ELSE q]
          /\ bound' = [bound EXCEPT ![p] = IF q = NoPi THEN @ ELSE @ \cup {q}]
          /\ UNCHANGED emitted
      BY <1>2 DEF ApproveSave
    <2>2. p \in Payments /\ (p \in PiPayments /\ ~PiIdOptional => q # NoPi)
      BY <1>0 DEF ApproveSave, At, RequestOK, ApproveOK
    <2>3. /\ status'[x] = IF x = p THEN "approved" ELSE status[x]
          /\ stamps'[x] = IF x = p THEN stamps[x] \cup {"approved"} ELSE stamps[x]
          /\ piOf'[x] = IF x = p /\ q # NoPi THEN q ELSE piOf[x]
          /\ bound'[x] = IF x = p /\ q # NoPi THEN bound[x] \cup {q} ELSE bound[x]
          /\ emitted'[x] = emitted[x]
      BY <1>0, <2>1, <2>2 DEF SetStatus, TypeOK
    <2>4. QED BY <1>0, <2>2, <2>3 DEF RowOK
  <1>3. QED BY <1>1, <1>2

\* No step of a request breaks the row facts.
LEMMA ContinueRows ==
    ASSUME IInv, NEW r \in Requests, Continue(r)
    PROVE  \A x \in Payments : RowOK(x)'
  <1>0. TypeOK /\ RequestOK(r) /\ \A x \in Payments : RowOK(x)
    BY DEF IInv
  <1>1. CASE ApproveSave(r)
    BY <1>1, ApproveRow
  <1>2. CASE CompleteSave(r) \/ WebhookSave(r) \/ (ResolveSave(r) /\ At(r, "resolve.saveCompleted"))
    <2>1. SetStatusOnly(req[r].pay, "completed") /\ UNCHANGED emitted
      BY <1>2 DEF CompleteSave, WebhookSave, ResolveSave, At
    <2>2. "approved" \in stamps[req[r].pay]
      BY <1>0, <1>2, PaymentAssumption
      DEF CompleteSave, WebhookSave, At, RequestOK, CompleteOK, WebhookOK, ResolveOK, Holds,
          PcComplete, PcWebhook, PcResolve
    <2>3. QED BY <1>0, <2>1, <2>2, CloseRow DEF Terminal
  <1>3. CASE \/ CancelSave(r) \/ FailSave(r) \/ WebhookFail(r)
             \/ (ResolveSave(r) /\ ~At(r, "resolve.saveCompleted"))
    <2>1. UNCHANGED emitted /\ \E s \in {"cancelled", "failed"} : SetStatusOnly(req[r].pay, s)
      BY <1>3 DEF CancelSave, FailSave, WebhookFail, ResolveSave
    <2>2. QED BY <1>0, <2>1, CloseRow DEF Terminal
  <1>4. CASE CompleteEmit(r)
    <2>1. req[r].pay \in PiPayments /\ "completed" \in stamps[req[r].pay]
      BY <1>0, <1>4 DEF CompleteEmit, At, RequestOK, CompleteOK, PcComplete
    <2>2. \A x \in Payments : x # req[r].pay => emitted'[x] = emitted[x]
      BY <1>0, <1>4 DEF CompleteEmit, TypeOK
    <2>3. QED BY <1>0, <1>4, <2>1, <2>2 DEF CompleteEmit, rowVars, RowOK
  <1>5. CASE UNCHANGED <<rowVars, emitted>>
    BY <1>0, <1>5 DEF rowVars, RowOK
  <1>6. QED
    BY <1>1, <1>2, <1>3, <1>4, <1>5
    DEF Continue, ApprovePi, CompletePi, CompleteCheck, WebhookPi, WebhookPiError,
        WebhookCheck, ResolveLocal, ResolveComplete, ResolveCancel, PiAnswerLost, Abort

\* Neither does any other step.
LEMMA NextRows ==
    ASSUME IInv, [Next]_vars
    PROVE  \A x \in Payments : RowOK(x)'
  <1>0. TypeOK /\ \A x \in Payments : RowOK(x)
    BY DEF IInv
  <1>1. ASSUME NEW p \in Payments, CreatePayment(p) \/ Age(p)
        PROVE  \A x \in Payments : RowOK(x)'
    BY <1>0, <1>1 DEF CreatePayment, Age, RowOK, TypeOK
  <1>2. ASSUME NEW s \in Sweepers, NEW p \in Payments, ReconcileSave(s, p)
        PROVE  \A x \in Payments : RowOK(x)'
    BY <1>0, <1>2, CloseRow DEF ReconcileSave, Terminal
  <1>3. CASE UNCHANGED <<rowVars, emitted>>
    BY <1>0, <1>3 DEF rowVars, RowOK
  <1>4. QED
    BY <1>1, <1>2, <1>3, ContinueRows
    DEF Next, Arrive, ApprovePayment, CompletePayment, CancelPayment, FailPayment,
        HandleIncomplete, ResolveIncomplete, PiUserPays, PiUserCancels, Reconcile,
        ReconcileStart, ReconcileSkip, Crash, vars, rowVars

-----------------------------------------------------------------------------
(* Completion *)

\* Request r is about to write p as completed
AboutToComplete(r, p) ==
    /\ req[r].pay = p
    /\ req[r].pc \in {"complete.save", "webhook.save", "resolve.saveCompleted"}

\* Only the three completing updates set completed_at.
LEMMA CompletedBy ==
    ASSUME TypeOK, [Next]_vars, NEW p \in Payments,
           "completed" \in stamps'[p], "completed" \notin stamps[p]
    PROVE  \E r \in Requests : AboutToComplete(r, p)
  <1>1. \A x, s : SetStatus(x, s) => (s = "completed" /\ x = p)
    BY DEF SetStatus, TypeOK
  <1>2. ASSUME NEW r \in Requests, Continue(r)
        PROVE  AboutToComplete(r, p)
    BY <1>1, <1>2
    DEF Continue, AboutToComplete, At, SetStatusOnly, rowVars, ApproveSave, CompleteSave, CancelSave,
        FailSave, WebhookFail, WebhookSave, ResolveSave, ApprovePi, CompletePi,
        CompleteCheck, CompleteEmit, WebhookPi, WebhookPiError, WebhookCheck,
        ResolveLocal, ResolveComplete, ResolveCancel, PiAnswerLost, Abort
  <1>3. ASSUME NEW s \in Sweepers, Reconcile(s)
        PROVE  FALSE
    BY <1>1, <1>3 DEF Reconcile, ReconcileStart, ReconcileSave, ReconcileSkip, SetStatusOnly, rowVars
  <1>4. ASSUME NEW r \in Requests, Arrive(r)
        PROVE  FALSE
    BY <1>4 DEF Arrive, ApprovePayment, CompletePayment, CancelPayment, FailPayment,
                HandleIncomplete, ResolveIncomplete, rowVars
  <1>5. QED
    BY <1>2, <1>3, <1>4 DEF Next, CreatePayment, Age, PiUserPays, PiUserCancels, Crash, vars, rowVars

\* A completing update of a 'pi' row rests on a completed Pi payment of that row.
LEMMA CompletingIsPaid ==
    ASSUME IInv, ~Sandbox, ~PiIdOptional, NEW p \in PiPayments,
           NEW r \in Requests, AboutToComplete(r, p)
    PROVE  \E q \in bound[p] : "completed" \in pi[q]
  <1>1. RequestOK(r) /\ p \in Payments
    BY PaymentAssumption DEF IInv
  <1>2. req[r].pid # NoPi /\ Holds(r) /\ PiCompleted(req[r].pid)
    BY <1>1, PaymentAssumption
    DEF AboutToComplete, RequestOK, CompleteOK, WebhookOK, ResolveOK, CallsPi,
        PcComplete, PcWebhook, PcResolve
  <1>3. QED BY <1>2 DEF AboutToComplete, Holds, PiCompleted

\* No step completes a 'pi' payment that the Pi Network has not completed.
LEMMA NextPaid ==
    ASSUME IInv, Grow, [Next]_vars
    PROVE  CompletedIsPaid'
  <1> SUFFICES ASSUME ~Sandbox, ~PiIdOptional, NEW p \in PiPayments, "completed" \in stamps'[p]
               PROVE  \E q \in bound'[p] : "completed" \in pi'[q]
    BY DEF CompletedIsPaid
  <1>0. TypeOK /\ p \in Payments
    BY PaymentAssumption DEF IInv
  <1>1. \E q \in bound[p] : "completed" \in pi[q]
    <2>1. CASE "completed" \in stamps[p]
      BY <2>1 DEF IInv, CompletedIsPaid
    <2>2. CASE "completed" \notin stamps[p]
      BY <1>0, <2>2, CompletedBy, CompletingIsPaid
    <2>3. QED BY <2>1, <2>2
  <1>2. bound[p] \subseteq PiIds
    BY <1>0 DEF TypeOK
  <1>3. QED BY <1>0, <1>1, <1>2 DEF Grow

-----------------------------------------------------------------------------
(* The invariant *)

\* The initial states satisfy it.
LEMMA InitInv == Init => IInv
  <1> SUFFICES ASSUME Init PROVE IInv
    OBVIOUS
  <1>1. TypeOK
    BY IdleType DEF Init, TypeOK, Status
  <1>2. CompletedIsPaid
    BY PaymentAssumption DEF Init, CompletedIsPaid
  <1>3. ASSUME NEW p \in Payments PROVE RowOK(p)
    BY DEF Init, RowOK
  <1>4. ASSUME NEW r \in Requests PROVE RequestOK(r)
    BY DEF Init, Idle, RequestOK, ApproveOK, CompleteOK, CloseOK, WebhookOK, ResolveOK,
           PcComplete, PcWebhook, PcResolve
  <1>5. QED BY <1>1, <1>2, <1>3, <1>4 DEF IInv

\* Every step keeps it.
LEMMA NextInv ==
    ASSUME IInv, [Next]_vars
    PROVE  IInv'
  <1>1. TypeOK /\ Grow /\ \A r \in Requests : RequestOK(r)
    BY NextGrows DEF IInv
  <1>2. TypeOK'
    BY <1>1, NextType
  <1>3. CompletedIsPaid' /\ \A p \in Payments : RowOK(p)'
    BY <1>1, NextPaid, NextRows
  <1>4. ASSUME NEW x \in Requests PROVE RequestOK(x)'
    <2>1. ASSUME NEW r \in Requests, Arrive(r) \/ Continue(r)
          PROVE  RequestOK(x)'
      <3>1. CASE x = r
        BY <1>1, <2>1, <3>1, ArriveOK, ContinueOK
      <3>2. CASE x # r
        BY <1>1, <2>1, <3>2, RequestFrame, KeepRequest DEF OnlyRequest
      <3>3. QED BY <3>1, <3>2
    <2>2. CASE Crash
      BY <2>2, IdleOK DEF Crash
    <2>3. CASE UNCHANGED req
      BY <1>1, <2>3, KeepRequest
    <2>4. QED
      BY <2>1, <2>2, <2>3
      DEF Next, CreatePayment, Age, PiUserPays, PiUserCancels, Reconcile, ReconcileStart,
          ReconcileSave, ReconcileSkip, vars
  <1>5. QED BY <1>2, <1>3, <1>4 DEF IInv

\* IInv holds in every reachable state.
THEOREM Invariance == Spec => []IInv
  <1>1. IInv /\ [Next]_vars => IInv'
    BY NextInv
  <1>2. QED BY InitInv, <1>1, PTL DEF Spec

\* Outside the sandbox, a completed 'pi' payment has been completed by the Pi Network.
THEOREM NothingCompletesUnpaid == Spec => []CompletedIsPaid
  <1>1. IInv => CompletedIsPaid
    BY DEF IInv
  <1>2. QED BY Invariance, <1>1, PTL

-----------------------------------------------------------------------------
(* Refinement of PaymentContract *)

Approved  == {p \in Payments : "approved" \in stamps[p]}
Completed == {p \in Payments : "completed" \in stamps[p]}
Told      == {p \in Payments : emitted[p] > 0}

\* A step records at most one new time, of one row, or publishes one event.
LEMMA OneFactPerStep ==
    ASSUME TypeOK, [Next]_vars
    PROVE  \/ UNCHANGED <<stamps, emitted>>
           \/ \E p \in Payments, t \in Stamp \cup {"created"} :
                  stamps' = [stamps EXCEPT ![p] = @ \cup {t}] /\ UNCHANGED emitted
           \/ \E r \in Requests : CompleteEmit(r)
  <1>1. ASSUME NEW p \in Payments \cup {NoPayment}, NEW t \in Stamp \cup {"created"}, SetStatus(p, t), UNCHANGED emitted
        PROVE  \/ UNCHANGED <<stamps, emitted>>
               \/ \E x \in Payments, u \in Stamp \cup {"created"} :
                      stamps' = [stamps EXCEPT ![x] = @ \cup {u}] /\ UNCHANGED emitted
    <2>1. CASE p \in Payments
      BY <1>1, <2>1 DEF SetStatus
    <2>2. CASE p \notin Payments
      BY <1>1, <2>2 DEF SetStatus, TypeOK
    <2>3. QED BY <2>1, <2>2
  <1>2. ASSUME NEW r \in Requests, Continue(r), ~CompleteEmit(r)
        PROVE  /\ UNCHANGED emitted
               /\ \/ UNCHANGED stamps
                  \/ \E p \in Payments \cup {NoPayment}, t \in Stamp : SetStatus(p, t)
    <2>1. req[r].pay \in Payments \cup {NoPayment}
      BY DEF TypeOK, Request
    <2>2. QED
      BY <1>2, <2>1
      DEF Continue, rowVars, SetStatusOnly, Stamp, Terminal, ApproveSave, CompleteSave,
        CancelSave, FailSave, WebhookFail, WebhookSave, ResolveSave, ApprovePi, CompletePi,
        CompleteCheck, WebhookPi, WebhookPiError, WebhookCheck, ResolveLocal,
        ResolveComplete, ResolveCancel, PiAnswerLost, Abort
  <1>3. ASSUME NEW s \in Sweepers, Reconcile(s)
        PROVE  /\ UNCHANGED emitted
               /\ \/ UNCHANGED stamps
                  \/ \E p \in Payments \cup {NoPayment}, t \in Stamp : SetStatus(p, t)
    BY <1>3 DEF Reconcile, ReconcileStart, ReconcileSave, ReconcileSkip, SetStatusOnly,
                rowVars, Stamp, Terminal
  <1>4. QED
    BY <1>1, <1>2, <1>3
    DEF Next, CreatePayment, Age, PiUserPays, PiUserCancels, Arrive, ApprovePayment,
        CompletePayment, CancelPayment, FailPayment, HandleIncomplete, ResolveIncomplete,
        Crash, vars, rowVars

\* The payment table, with every interleaving of its writers, keeps the
\* contract: approval before completion before event, and nothing taken back.
THEOREM ContractHolds == Spec => ImplementsContract
  <1>1. Init => Contract!Init
    BY DEF Init, Contract!Init
  <1>2. ASSUME IInv, IInv', [Next]_vars
        PROVE  [Contract!Next]_(Contract!contractVars)
    <2>0. TypeOK
      BY <1>2 DEF IInv
    <2>1. CASE UNCHANGED <<stamps, emitted>>
      BY <2>1 DEF Contract!contractVars
    <2>2. ASSUME NEW p \in Payments, NEW t \in Stamp \cup {"created"},
                 stamps' = [stamps EXCEPT ![p] = @ \cup {t}], UNCHANGED emitted
          PROVE  [Contract!Next]_(Contract!contractVars)
      <3>1. \A x \in Payments : stamps'[x] = IF x = p THEN stamps[x] \cup {t} ELSE stamps[x]
        BY <2>0, <2>2 DEF TypeOK
      <3>2. Told' = Told
        BY <2>2 DEF Told
      <3>7. \A x \in Payments, f \in {"approved", "completed"} :
              f \in stamps'[x] <=> f \in stamps[x] \/ (x = p /\ f = t)
        BY <3>1
      <3>3. CASE t = "approved"
        <4>1. Approved' = Approved \cup {p} /\ Completed' = Completed
          BY <3>3, <3>7 DEF Approved, Completed
        <4>2. Contract!Approve(p)
          BY <3>2, <4>1 DEF Contract!Approve, Approved, Completed, Told
        <4>3. QED BY <4>2 DEF Contract!Next
      <3>4. CASE t = "completed"
        <4>1. Completed' = Completed \cup {p} /\ Approved' = Approved
          BY <3>4, <3>7 DEF Approved, Completed
        <4>2. p \in Approved
          <5>1. "completed" \in stamps'[p] /\ "approved" \in stamps'[p]
            BY <1>2, <3>4, <3>7 DEF IInv, RowOK
          <5>2. QED BY <3>4, <3>7, <5>1 DEF Approved
        <4>3. Contract!Complete(p)
          BY <3>2, <4>1, <4>2 DEF Contract!Complete, Approved, Completed, Told
        <4>4. QED BY <4>3 DEF Contract!Next
      <3>5. CASE t \notin {"approved", "completed"}
        <4>1. Completed' = Completed /\ Approved' = Approved
          BY <3>5, <3>7 DEF Approved, Completed
        <4>2. QED BY <3>2, <4>1 DEF Contract!contractVars, Approved, Completed, Told
      <3>6. QED BY <3>3, <3>4, <3>5
    <2>3. ASSUME NEW r \in Requests, CompleteEmit(r)
          PROVE  [Contract!Next]_(Contract!contractVars)
      <3>0. PICK p \in Payments : p = req[r].pay
        BY <1>2, <2>3 DEF IInv, RequestOK, CompleteOK, CompleteEmit, At, PcComplete
      <3>1. p \in PiPayments /\ p \in Completed
        BY <1>2, <2>3, <3>0 DEF IInv, RequestOK, CompleteOK, CompleteEmit, At, PcComplete, Completed
      <3>2. \A x \in Payments : emitted'[x] = IF x = p THEN emitted[x] + 1 ELSE emitted[x]
        BY <2>0, <2>3, <3>0 DEF TypeOK, CompleteEmit
      <3>3. \A x \in Payments : emitted[x] \in Nat
        BY <2>0 DEF TypeOK
      <3>4. Told' = Told \cup {p}
        BY <3>1, <3>2, <3>3 DEF Told
      <3>5. Approved' = Approved /\ Completed' = Completed
        BY <2>3 DEF CompleteEmit, rowVars, Approved, Completed
      <3>6. Contract!Tell(p)
        BY <3>1, <3>4, <3>5 DEF Contract!Tell, Approved, Completed, Told
      <3>7. QED BY <3>6 DEF Contract!Next
    <2>4. QED BY <1>2, <2>0, <2>1, <2>2, <2>3, OneFactPerStep
  <1>3. QED
    BY <1>1, <1>2, Invariance, PTL DEF Spec, ImplementsContract, Contract!Spec

-----------------------------------------------------------------------------
(* Leaving the state machine *)

\* A continuation that moves a row illegally was decided on a stale read, or by
\* the Pi Network's record.
LEMMA ContinueLegal ==
    ASSUME IInv, NEW r \in Requests, Continue(r), NEW p \in Payments, IllegalMove(p)
    PROVE  WroteFromPi(r, p) \/ WroteOnStaleRead(r, p)
  <1>0. TypeOK /\ RequestOK(r)
    BY DEF IInv
  <1>1. \A x, s : SetStatus(x, s) => x = p /\ ~IsTransitionAllowed(status[p], s)
    BY <1>0 DEF SetStatus, TypeOK, IllegalMove, Moves
  <1>2. ~UNCHANGED status
    BY DEF IllegalMove, Moves
  <1>3. Reply(r) \/ (CompleteSave(r) /\ Goto(r, "complete.emit"))
    BY <1>2 DEF Continue, rowVars, ApproveSave, CompleteSave, CancelSave, FailSave,
        WebhookFail, WebhookSave, ResolveSave, ApprovePi, CompletePi, CompleteCheck,
        CompleteEmit, WebhookPi, WebhookPiError, WebhookCheck, ResolveLocal,
        ResolveComplete, ResolveCancel, PiAnswerLost, Abort
  <1>4. ~At(r, "idle") /\ (CompleteSave(r) => At(r, "complete.save"))
    BY <1>2 DEF Continue, At, rowVars, ApproveSave, CompleteSave, CancelSave, FailSave,
        WebhookFail, WebhookSave, ResolveSave, ApprovePi, CompletePi, CompleteCheck,
        CompleteEmit, WebhookPi, WebhookPiError, WebhookCheck, ResolveLocal,
        ResolveComplete, ResolveCancel, PiAnswerLost, Abort
  <1>5. req'[r] # req[r]
    <2>1. CASE Reply(r)
      BY <1>0, <1>4, <2>1, Slot DEF At, Idle
    <2>2. CASE CompleteSave(r) /\ Goto(r, "complete.emit")
      BY <1>0, <1>4, <2>2, Slot DEF At, Left
    <2>3. QED BY <1>3, <2>1, <2>2
  <1>6. req[r].pay = p
    BY <1>1, <1>2 DEF Continue, rowVars, SetStatusOnly, ApproveSave, CompleteSave,
        CancelSave, FailSave, WebhookFail, WebhookSave, ResolveSave, ApprovePi, CompletePi,
        CompleteCheck, CompleteEmit, WebhookPi, WebhookPiError, WebhookCheck, ResolveLocal,
        ResolveComplete, ResolveCancel, PiAnswerLost, Abort
  <1>7. CASE ResolveSave(r)
    BY <1>5, <1>6, <1>7 DEF ResolveSave, At, WroteFromPi
  <1>8. CASE ~ResolveSave(r)
    <2>1. req[r].seen # status[p]
      <3>1. CASE ApproveSave(r)
        <4>1. req[r].seen = "created" /\ SetStatus(req[r].pay, "approved")
          BY <1>0, <1>2, <3>1 DEF ApproveSave, At, RequestOK, ApproveOK, rowVars
        <4>2. QED BY <1>1, <4>1 DEF IsTransitionAllowed
      <3>2. CASE CompleteSave(r) \/ WebhookFail(r) \/ WebhookSave(r)
        <4>1. req[r].seen = "approved"
          BY <1>0, <3>2 DEF CompleteSave, WebhookFail, WebhookSave, At, RequestOK,
                            CompleteOK, WebhookOK, PcComplete, PcWebhook
        <4>2. \E s \in {"completed", "failed"} : SetStatus(req[r].pay, s)
          BY <3>2 DEF CompleteSave, WebhookFail, WebhookSave, SetStatusOnly
        <4>3. QED BY <1>1, <4>1, <4>2 DEF IsTransitionAllowed
      <3>3. CASE CancelSave(r) \/ FailSave(r)
        <4>1. req[r].seen \in {"created", "approved"}
          BY <1>0, <3>3 DEF CancelSave, FailSave, At, RequestOK, CloseOK
        <4>2. \E s \in {"cancelled", "failed"} : SetStatus(req[r].pay, s)
          BY <3>3 DEF CancelSave, FailSave, SetStatusOnly
        <4>3. QED BY <1>1, <4>1, <4>2 DEF IsTransitionAllowed
      <3>4. QED
        BY <1>2, <1>8, <3>1, <3>2, <3>3
        DEF Continue, rowVars, ApprovePi, CompletePi, CompleteCheck, CompleteEmit, WebhookPi,
            WebhookPiError, WebhookCheck, ResolveLocal, ResolveComplete, ResolveCancel,
            PiAnswerLost, Abort
    <2>2. QED BY <1>5, <1>6, <2>1 DEF WroteOnStaleRead
  <1>9. QED BY <1>7, <1>8

\* An illegal transition is always a stale write, or the Pi Network's decision.
THEOREM StateMachineLeftOnlyByStaleWrites == Spec => OnlyStaleWritesLeaveStateMachine
  <1>1. ASSUME IInv, [Next]_vars, NEW p \in Payments, IllegalMove(p)
        PROVE  \/ \E r \in Requests : WroteFromPi(r, p) \/ WroteOnStaleRead(r, p)
               \/ \E s \in Sweepers : SweptAfterMove(s, p)
    <2>1. ASSUME NEW r \in Requests, Continue(r)
          PROVE  WroteFromPi(r, p) \/ WroteOnStaleRead(r, p)
      BY <1>1, <2>1, ContinueLegal
    <2>2. ASSUME NEW s \in Sweepers, NEW x \in Payments, ReconcileSave(s, x)
          PROVE  SweptAfterMove(s, p)
      <3>1. x = p /\ ~IsTransitionAllowed(status[p], "failed")
        BY <1>1, <2>2 DEF IInv, ReconcileSave, SetStatusOnly, SetStatus, TypeOK, IllegalMove, Moves
      <3>2. p \in sweep[s] /\ p \notin sweep'[s]
        BY <1>1, <2>2, <3>1 DEF ReconcileSave, IInv, TypeOK
      <3>3. QED BY <3>1, <3>2 DEF SweptAfterMove, IsOpen, IsTransitionAllowed
    <2>3. ASSUME NEW x \in Payments, CreatePayment(x)
          PROVE  FALSE
      BY <1>1, <2>3 DEF CreatePayment, IInv, TypeOK, IllegalMove, Moves
    <2>4. ~UNCHANGED status
      BY <1>1 DEF IllegalMove, Moves
    <2>5. QED
      BY <1>1, <2>1, <2>2, <2>3, <2>4
      DEF Next, Age, PiUserPays, PiUserCancels, Arrive, ApprovePayment, CompletePayment,
          CancelPayment, FailPayment, HandleIncomplete, ResolveIncomplete, Reconcile,
          ReconcileStart, ReconcileSkip, Crash, vars, rowVars
  <1>2. IInv /\ [Next]_vars =>
          [\A p \in Payments : IllegalMove(p) =>
             \/ \E r \in Requests : WroteFromPi(r, p) \/ WroteOnStaleRead(r, p)
             \/ \E s \in Sweepers : SweptAfterMove(s, p)]_vars
    BY <1>1
  <1>3. QED BY Invariance, <1>2, PTL DEF Spec, OnlyStaleWritesLeaveStateMachine
=============================================================================
