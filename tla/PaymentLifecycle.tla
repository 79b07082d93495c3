-------------------------- MODULE PaymentLifecycle --------------------------
(***************************************************************************)
(* The payment table of tec-payment-service and everything that writes it: *)
(* the HTTP handlers of payment.controller.ts, the Pi Network webhook of   *)
(* webhook.controller.ts and the stale-payment sweep of                    *)
(* reconciliation.service.ts.  A handler is split at every await whose     *)
(* effect another actor can see: each call of the Pi Network and each      *)
(* database statement is a step of its own, and what the handler remembers *)
(* between two of them is kept in req[r].                                  *)
(*                                                                         *)
(* Prisma runs $transaction at PostgreSQL's default READ COMMITTED, so the *)
(* read and the update of one transaction are two steps.  A request that   *)
(* is refused by its first check changes nothing: it is a stuttering step. *)
(***************************************************************************)
EXTENDS Naturals, FiniteSets

CONSTANTS
    Payments,      \* ids of local payment rows
    PiPayments,    \* the rows created with payment_method 'pi'
    PiIds,         \* payment ids of the Pi Network
    Requests,      \* request slots: how many requests run at once
    Sweepers,      \* runs of reconcileStalePayments that may overlap
    Cron,          \* the sweeper started by the hourly cron job
    Sandbox,       \* env.PI_SANDBOX === 'true'
    PiIdOptional,  \* may approve leave out pi_payment_id for a 'pi' payment?
    NoPi,          \* pi_payment_id is NULL or not given
    NoPayment      \* no row found

ASSUME PaymentAssumption ==
    /\ PiPayments \subseteq Payments
    /\ Cron \in Sweepers
    /\ Sandbox \in BOOLEAN
    /\ PiIdOptional \in BOOLEAN
    /\ NoPi \notin PiIds
    /\ NoPayment \notin Payments

VARIABLES
    status,    \* column status; "absent" before the row is created
    stamps,    \* which of approved_at, completed_at, ... are not NULL
    piOf,      \* column pi_payment_id
    aged,      \* older than the reconcile threshold of its status
    pi,        \* what the Pi Network has recorded of each of its payments
    req,       \* what each running handler remembers
    sweep,     \* rows each running reconciliation has still to fail
    emitted,   \* payment.completed entries appended to the stream
    bound      \* history: Pi ids that have ever been in pi_payment_id

rowVars == <<status, stamps, piOf, aged, bound>>
vars == <<status, stamps, piOf, aged, pi, req, sweep, emitted, bound>>

Terminal == {"completed", "cancelled", "failed"}
Stamp    == {"approved"} \cup Terminal
Status   == {"absent", "created"} \cup Stamp
PiFlag   == {"approved", "verified", "completed", "cancelled"}

PcComplete == {"complete.pi", "complete.check", "complete.save", "complete.emit"}
PcWebhook  == {"webhook.pi", "webhook.fail", "webhook.check", "webhook.save"}
PcResolve  == {"resolve.force", "resolve.done", "resolve.drop", "resolve.complete",
               "resolve.cancel", "resolve.saveCompleted", "resolve.saveCancelled"}
Pc == {"idle", "approve.pi", "approve.save", "cancel.save", "fail.save"}
        \cup PcComplete \cup PcWebhook \cup PcResolve

Request == [pc: Pc, pay: Payments \cup {NoPayment},
            pid: PiIds \cup {NoPi}, seen: Status]
Idle == [pc |-> "idle", pay |-> NoPayment, pid |-> NoPi, seen |-> "absent"]

Init ==
    /\ status = [p \in Payments |-> "absent"]
    /\ stamps = [p \in Payments |-> {}]
    /\ piOf = [p \in Payments |-> NoPi]
    /\ aged = [p \in Payments |-> FALSE]
    /\ pi = [q \in PiIds |-> {}]
    /\ req = [r \in Requests |-> Idle]
    /\ sweep = [s \in Sweepers |-> {}]
    /\ emitted = [p \in Payments |-> 0]
    /\ bound = [p \in Payments |-> {}]

-----------------------------------------------------------------------------
(* Vocabulary of the handlers *)

\* Fault: the table lets a created payment be completed directly
IsTransitionAllowedSkipsApproval(from, to) ==
    \/ from = "created"  /\ to \in {"approved", "completed", "cancelled", "failed"}
    \/ from = "approved" /\ to \in {"completed", "cancelled", "failed"}

\* ALLOWED_TRANSITIONS
IsTransitionAllowed(from, to) ==
    \/ from = "created"  /\ to \in {"approved", "cancelled", "failed"}
    \/ from = "approved" /\ to \in {"completed", "cancelled", "failed"}

\* Fault: the time column of the old status is written, not that of the new one
SetStatusStampsOld(p, s) ==
    /\ status' = [status EXCEPT ![p] = s]
    /\ stamps' = [stamps EXCEPT ![p] = @ \cup {status[p]}]

\* prisma.payment.update with a new status and the time column named after it
SetStatus(p, s) ==
    /\ status' = [status EXCEPT ![p] = s]
    /\ stamps' = [stamps EXCEPT ![p] = @ \cup {s}]

\* The update when the handler looks only at the row it read before
SetStatusOnly(p, s) == SetStatus(p, s) /\ UNCHANGED <<piOf, aged, bound>>

Reply(r) == req' = [req EXCEPT ![r] = Idle]
Goto(r, pc) ==
    req' = [req EXCEPT ![r] = [pc |-> pc, pay |-> req[r].pay, pid |-> req[r].pid,
                               seen |-> req[r].seen]]
Begin(r, pc, p, q) ==
    req' = [req EXCEPT ![r] = [pc |-> pc, pay |-> p, pid |-> q,
                               seen |-> IF p = NoPayment THEN "absent" ELSE status[p]]]
At(r, pc) == req[r].pc = pc

\* findUnique({ where: { pi_payment_id } }): at most one row, the column is unique
RowOf(q) == {p \in Payments : piOf[p] = q}
LocalRow(q) == IF RowOf(q) = {} THEN NoPayment ELSE CHOOSE p \in RowOf(q) : TRUE

\* Whether handlers call the Pi Network for a row whose pi_payment_id is q
CallsPi(p, q) == p \in PiPayments /\ q # NoPi /\ ~Sandbox

-----------------------------------------------------------------------------
(* The Pi Network, external: what it accepts, and what the user does there.  *)

PiAcceptsApprove(q)  == "cancelled" \notin pi[q]
PiAcceptsComplete(q) == "verified" \in pi[q] /\ "cancelled" \notin pi[q]
PiAcceptsCancel(q)   == pi[q] \cap {"verified", "completed"} = {}

PiRecord(q, flag) == pi' = [pi EXCEPT ![q] = @ \cup {flag}]

PiUserPays(q) ==
    /\ "approved" \in pi[q]
    /\ pi[q] \cap {"verified", "cancelled"} = {}
    /\ PiRecord(q, "verified")
    /\ UNCHANGED <<rowVars, req, sweep, emitted>>

PiUserCancels(q) ==
    /\ pi[q] \cap {"verified", "cancelled"} = {}
    /\ PiRecord(q, "cancelled")
    /\ UNCHANGED <<rowVars, req, sweep, emitted>>

-----------------------------------------------------------------------------
(* POST /create *)

CreatePayment(p) ==
    /\ status[p] = "absent"
    /\ status' = [status EXCEPT ![p] = "created"]
    /\ UNCHANGED <<stamps, piOf, aged, pi, req, sweep, emitted, bound>>

-----------------------------------------------------------------------------
(* POST /approve: read and check, call the Pi Network, update the row.       *)

ApprovePayment(r, p, q) ==
    /\ At(r, "idle")
    /\ p \in PiPayments /\ q = NoPi => PiIdOptional
    /\ IsTransitionAllowed(status[p], "approved")
    /\ Begin(r, IF CallsPi(p, q) THEN "approve.pi" ELSE "approve.save", p, q)
    /\ UNCHANGED <<rowVars, pi, sweep, emitted>>

ApprovePi(r) ==
    /\ At(r, "approve.pi")
    /\ PiAcceptsApprove(req[r].pid)
    /\ PiRecord(req[r].pid, "approved")
    /\ Goto(r, "approve.save")
    /\ UNCHANGED <<rowVars, sweep, emitted>>

\* A pi_payment_id held by another row is refused by the unique index (P2002);
\* an undefined pi_payment_id leaves the column as it is.
ApproveSave(r) ==
    LET p == req[r].pay
        q == req[r].pid
    IN  /\ At(r, "approve.save")
        /\ Reply(r)
        /\ IF q # NoPi /\ RowOf(q) \ {p} # {}
           THEN UNCHANGED rowVars
           ELSE /\ SetStatus(p, "approved")
                /\ aged' = [aged EXCEPT ![p] = FALSE]
                /\ piOf' = [piOf EXCEPT ![p] = IF q = NoPi THEN @ ELSE q]
                /\ bound' = [bound EXCEPT ![p] = IF q = NoPi THEN @ ELSE @ \cup {q}]
        /\ UNCHANGED <<pi, sweep, emitted>>

-----------------------------------------------------------------------------
(* POST /complete: pre-flight check, Pi Network, transaction, event.         *)

CompletePayment(r, p) ==
    /\ At(r, "idle")
    /\ IsTransitionAllowed(status[p], "completed")
    /\ Begin(r, IF CallsPi(p, piOf[p]) THEN "complete.pi" ELSE "complete.check",
             p, piOf[p])
    /\ UNCHANGED <<rowVars, pi, sweep, emitted>>

\* Fault: an error of the Pi Network is swallowed and the handler goes on
CompletePiIgnoresRefusal(r) ==
    /\ At(r, "complete.pi")
    /\ IF PiAcceptsComplete(req[r].pid) THEN PiRecord(req[r].pid, "completed")
                                       ELSE UNCHANGED pi
    /\ Goto(r, "complete.check")
    /\ UNCHANGED <<rowVars, sweep, emitted>>

\* Fault: the event is published as soon as the Pi Network agrees
CompletePiEmitsEarly(r) ==
    /\ At(r, "complete.pi")
    /\ PiAcceptsComplete(req[r].pid)
    /\ PiRecord(req[r].pid, "completed")
    /\ Goto(r, "complete.emit")
    /\ UNCHANGED <<rowVars, sweep, emitted>>

CompletePi(r) ==
    /\ At(r, "complete.pi")
    /\ PiAcceptsComplete(req[r].pid)
    /\ PiRecord(req[r].pid, "completed")
    /\ Goto(r, "complete.check")
    /\ UNCHANGED <<rowVars, sweep, emitted>>

CompleteCheck(r) ==
    LET p == req[r].pay
    IN  /\ At(r, "complete.check")
        /\ IF IsTransitionAllowed(status[p], "completed")
           THEN Begin(r, "complete.save", p, req[r].pid)
           ELSE Reply(r)
        /\ UNCHANGED <<rowVars, pi, sweep, emitted>>

\* The commit; the event is published afterwards, and only for 'pi' payments
CompleteSave(r) ==
    LET p == req[r].pay
    IN  /\ At(r, "complete.save")
        /\ SetStatusOnly(p, "completed")
        /\ IF p \in PiPayments THEN Goto(r, "complete.emit") ELSE Reply(r)
        /\ UNCHANGED <<pi, sweep, emitted>>

CompleteEmit(r) ==
    /\ At(r, "complete.emit")
    /\ emitted' = [emitted EXCEPT ![req[r].pay] = @ + 1]
    /\ Reply(r)
    /\ UNCHANGED <<rowVars, pi, sweep>>

-----------------------------------------------------------------------------
(* POST /cancel: one transaction, its read and its update.  POST /fail: the  *)
(* same two statements outside a transaction.                                *)

CancelPayment(r, p) ==
    /\ At(r, "idle")
    /\ IsTransitionAllowed(status[p], "cancelled")
    /\ Begin(r, "cancel.save", p, NoPi)
    /\ UNCHANGED <<rowVars, pi, sweep, emitted>>

CancelSave(r) ==
    /\ At(r, "cancel.save")
    /\ SetStatusOnly(req[r].pay, "cancelled")
    /\ Reply(r)
    /\ UNCHANGED <<pi, sweep, emitted>>

\* Fault: the status check is missing
FailPaymentUnchecked(r, p) ==
    /\ At(r, "idle")
    /\ status[p] # "absent"
    /\ Begin(r, "fail.save", p, NoPi)
    /\ UNCHANGED <<rowVars, pi, sweep, emitted>>

FailPayment(r, p) ==
    /\ At(r, "idle")
    /\ IsTransitionAllowed(status[p], "failed")
    /\ Begin(r, "fail.save", p, NoPi)
    /\ UNCHANGED <<rowVars, pi, sweep, emitted>>

FailSave(r) ==
    /\ At(r, "fail.save")
    /\ SetStatusOnly(req[r].pay, "failed")
    /\ Reply(r)
    /\ UNCHANGED <<pi, sweep, emitted>>

-----------------------------------------------------------------------------
(* POST /webhook/incomplete: the Pi Network reports an unfinished payment.   *)

HandleIncomplete(r, q) ==
    /\ At(r, "idle")
    /\ LocalRow(q) # NoPayment
    /\ status[LocalRow(q)] = "approved"
    /\ Begin(r, "webhook.pi", LocalRow(q), q)
    /\ UNCHANGED <<rowVars, pi, sweep, emitted>>

WebhookPi(r) ==
    /\ At(r, "webhook.pi")
    /\ PiAcceptsComplete(req[r].pid)
    /\ PiRecord(req[r].pid, "completed")
    /\ Goto(r, "webhook.check")
    /\ UNCHANGED <<rowVars, sweep, emitted>>

\* PiApiError: the call was refused, or its answer was lost or timed out
WebhookPiError(r) ==
    /\ At(r, "webhook.pi")
    /\ \/ UNCHANGED pi
       \/ PiAcceptsComplete(req[r].pid) /\ PiRecord(req[r].pid, "completed")
    /\ Goto(r, "webhook.fail")
    /\ UNCHANGED <<rowVars, sweep, emitted>>

WebhookFail(r) ==
    /\ At(r, "webhook.fail")
    /\ SetStatusOnly(req[r].pay, "failed")
    /\ Reply(r)
    /\ UNCHANGED <<pi, sweep, emitted>>

WebhookCheck(r) ==
    LET p == req[r].pay
    IN  /\ At(r, "webhook.check")
        /\ IF status[p] = "approved" THEN Begin(r, "webhook.save", p, req[r].pid)
                                     ELSE Reply(r)
        /\ UNCHANGED <<rowVars, pi, sweep, emitted>>

WebhookSave(r) ==
    /\ At(r, "webhook.save")
    /\ SetStatusOnly(req[r].pay, "completed")
    /\ Reply(r)
    /\ UNCHANGED <<pi, sweep, emitted>>

-----------------------------------------------------------------------------
(* POST /resolve-incomplete: the Pi Network's record decides what becomes of *)
(* the row, whatever the row's own status.                                   *)

\* piGetPayment; the three cases of the reconcile logic, in their order
ResolveIncomplete(r, q) ==
    /\ At(r, "idle")
    /\ \/ /\ {"approved", "verified"} \subseteq pi[q] /\ "completed" \notin pi[q]
          /\ Begin(r, "resolve.force", NoPayment, q)
       \/ "completed" \in pi[q] /\ Begin(r, "resolve.done", NoPayment, q)
       \/ /\ "completed" \notin pi[q]
          /\ "verified" \notin pi[q] \/ ("cancelled" \in pi[q] /\ "approved" \notin pi[q])
          /\ Begin(r, "resolve.drop", NoPayment, q)
    /\ UNCHANGED <<rowVars, pi, sweep, emitted>>

\* The local row is read once, and the decision to write is made on this read
ResolveLocal(r) ==
    LET q == req[r].pid
        p == LocalRow(q)
        differs(s) == p # NoPayment /\ status[p] # s
    IN  /\ \/ At(r, "resolve.force") /\ Begin(r, "resolve.complete", p, q)
           \/ /\ At(r, "resolve.done")
              /\ IF differs("completed") THEN Begin(r, "resolve.saveCompleted", p, q)
                                         ELSE Reply(r)
           \/ At(r, "resolve.drop") /\ Begin(r, "resolve.cancel", p, q)
        /\ UNCHANGED <<rowVars, pi, sweep, emitted>>

ResolveComplete(r) ==
    /\ At(r, "resolve.complete")
    /\ PiAcceptsComplete(req[r].pid)
    /\ PiRecord(req[r].pid, "completed")
    /\ IF req[r].pay # NoPayment /\ req[r].seen # "completed"
       THEN Goto(r, "resolve.saveCompleted")
       ELSE Reply(r)
    /\ UNCHANGED <<rowVars, sweep, emitted>>

\* A failure of the cancel call is logged and ignored
ResolveCancel(r) ==
    /\ At(r, "resolve.cancel")
    /\ \/ UNCHANGED pi
       \/ PiAcceptsCancel(req[r].pid) /\ PiRecord(req[r].pid, "cancelled")
    /\ IF req[r].pay # NoPayment /\ req[r].seen # "cancelled"
       THEN Goto(r, "resolve.saveCancelled")
       ELSE Reply(r)
    /\ UNCHANGED <<rowVars, sweep, emitted>>

ResolveSave(r) ==
    /\ \/ At(r, "resolve.saveCompleted") /\ SetStatusOnly(req[r].pay, "completed")
       \/ At(r, "resolve.saveCancelled") /\ SetStatusOnly(req[r].pay, "cancelled")
    /\ Reply(r)
    /\ UNCHANGED <<pi, sweep, emitted>>

-----------------------------------------------------------------------------
(* Failures.  A handler may end at any await: the database refuses, the Pi   *)
(* call fails before or after the Pi Network acted, publishing fails (which  *)
(* is swallowed), or the whole process dies.                                 *)

Abort(r) ==
    /\ ~At(r, "idle")
    /\ Reply(r)
    /\ UNCHANGED <<rowVars, pi, sweep, emitted>>

\* The Pi Network acted on the call, but every attempt of callPiApi lost the answer
PiAnswerLost(r) ==
    /\ \/ /\ At(r, "approve.pi") /\ PiAcceptsApprove(req[r].pid)
          /\ PiRecord(req[r].pid, "approved")
       \/ /\ req[r].pc \in {"complete.pi", "resolve.complete"}
          /\ PiAcceptsComplete(req[r].pid)
          /\ PiRecord(req[r].pid, "completed")
    /\ Reply(r)
    /\ UNCHANGED <<rowVars, sweep, emitted>>

Crash ==
    /\ req' = [r \in Requests |-> Idle]
    /\ sweep' = [s \in Sweepers |-> {}]
    /\ UNCHANGED <<rowVars, pi, emitted>>

-----------------------------------------------------------------------------
(* reconcileStalePayments: one query, then one unconditional update per row. *)

IsOpen(p) == status[p] \in {"created", "approved"}

\* A row left alone for longer than the threshold of its status
Age(p) ==
    /\ IsOpen(p) /\ ~aged[p]
    /\ aged' = [aged EXCEPT ![p] = TRUE]
    /\ UNCHANGED <<status, stamps, piOf, bound, pi, req, sweep, emitted>>

\* Fault: the query forgets the approved rows
StalePaymentsCreatedOnly == {p \in Payments : status[p] = "created" /\ aged[p]}

StalePayments == {p \in Payments : IsOpen(p) /\ aged[p]}

ReconcileStart(s) ==
    /\ sweep[s] = {}
    /\ StalePayments # {}
    /\ sweep' = [sweep EXCEPT ![s] = StalePayments]
    /\ UNCHANGED <<rowVars, pi, req, emitted>>

ReconcileSave(s, p) ==
    /\ p \in sweep[s]
    /\ sweep' = [sweep EXCEPT ![s] = @ \ {p}]
    /\ SetStatusOnly(p, "failed")
    /\ UNCHANGED <<pi, req, emitted>>

\* An update that throws is logged, and the loop goes on
ReconcileSkip(s, p) ==
    /\ p \in sweep[s]
    /\ sweep' = [sweep EXCEPT ![s] = @ \ {p}]
    /\ UNCHANGED <<rowVars, pi, req, emitted>>

-----------------------------------------------------------------------------

Arrive(r) ==
    \/ \E p \in Payments, q \in PiIds \cup {NoPi} : ApprovePayment(r, p, q)
    \/ \E p \in Payments : CompletePayment(r, p) \/ CancelPayment(r, p) \/ FailPayment(r, p)
    \/ \E q \in PiIds : HandleIncomplete(r, q) \/ ResolveIncomplete(r, q)

Continue(r) ==
    \/ ApprovePi(r)  \/ ApproveSave(r)
    \/ CompletePi(r) \/ CompleteCheck(r) \/ CompleteSave(r) \/ CompleteEmit(r)
    \/ CancelSave(r) \/ FailSave(r)
    \/ WebhookPi(r)  \/ WebhookPiError(r) \/ WebhookFail(r)
    \/ WebhookCheck(r) \/ WebhookSave(r)
    \/ ResolveLocal(r) \/ ResolveComplete(r) \/ ResolveCancel(r) \/ ResolveSave(r)
    \/ PiAnswerLost(r) \/ Abort(r)

Reconcile(s) ==
    \/ ReconcileStart(s)
    \/ \E p \in Payments : ReconcileSave(s, p) \/ ReconcileSkip(s, p)

Next ==
    \/ \E p \in Payments : CreatePayment(p) \/ Age(p)
    \/ \E q \in PiIds : PiUserPays(q) \/ PiUserCancels(q)
    \/ \E r \in Requests : Arrive(r) \/ Continue(r)
    \/ \E s \in Sweepers : Reconcile(s)
    \/ Crash

Spec == Init /\ [][Next]_vars

\* A handler's awaits return: the Pi calls and the database have timeouts.  The
\* cron job keeps running the sweep, and a row's update does not fail for ever.
Fairness ==
    /\ \A r \in Requests : WF_vars(Continue(r))
    /\ WF_vars(Reconcile(Cron))
    /\ \A p \in Payments : SF_vars(ReconcileSave(Cron, p))

FairSpec == Spec /\ Fairness

-----------------------------------------------------------------------------
(* Properties *)

\* Every variable has its type (prisma/schema.prisma, model Payment).
TypeOK ==
    /\ status \in [Payments -> Status]
    /\ stamps \in [Payments -> SUBSET Stamp]
    /\ piOf \in [Payments -> PiIds \cup {NoPi}]
    /\ aged \in [Payments -> BOOLEAN]
    /\ pi \in [PiIds -> SUBSET PiFlag]
    /\ req \in [Requests -> Request]
    /\ sweep \in [Sweepers -> SUBSET Payments]
    /\ emitted \in [Payments -> Nat]
    /\ bound \in [Payments -> SUBSET PiIds]

\* Outside the sandbox, a 'pi' payment is completed only if the Pi Network has
\* completed a payment that was bound to this row.  It holds although approvals
\* race and may rebind the row between the Pi call and the transaction; it does
\* need every approval of a 'pi' payment to name its Pi payment.
CompletedIsPaid ==
    ~Sandbox /\ ~PiIdOptional =>
        \A p \in PiPayments : "completed" \in stamps[p] =>
            \E q \in bound[p] : "completed" \in pi[q]

\* The three facts other services rely on, read off the row and the stream.
Contract == INSTANCE PaymentContract WITH
    Announced <- PiPayments,
    approved  <- {p \in Payments : "approved" \in stamps[p]},
    completed <- {p \in Payments : "completed" \in stamps[p]},
    told      <- {p \in Payments : emitted[p] > 0}

\* However handlers, webhook, resolve, sweep and crashes interleave: a row gets
\* its completed_at only after its approved_at, the payment.completed event that
\* makes the wallet service credit the user is appended only for a 'pi' payment
\* whose completion was committed, and neither time is ever cleared.
ImplementsContract == Contract!Spec

\* A step that moves a row against ALLOWED_TRANSITIONS
Moves(p) == status[p] # "absent" /\ status'[p] # status[p]
IllegalMove(p) == Moves(p) /\ ~IsTransitionAllowed(status[p], status'[p])

\* A request whose decision about p was taken on a status p no longer has
WroteOnStaleRead(r, p) ==
    req[r].pay = p /\ req'[r] # req[r] /\ req[r].seen # status[p]
WroteFromPi(r, p) ==
    req[r].pay = p /\ req'[r] # req[r] /\ req[r].pc \in {"resolve.saveCompleted", "resolve.saveCancelled"}
SweptAfterMove(s, p) ==
    p \in sweep[s] /\ p \notin sweep'[s] /\ ~IsOpen(p)

\* The state machine of ALLOWED_TRANSITIONS is left in two ways only: by
\* resolve-incomplete, which follows the Pi Network, and by a handler or a sweep
\* whose row was changed by someone else between its read and its write.
OnlyStaleWritesLeaveStateMachine ==
    [][\A p \in Payments : IllegalMove(p) =>
          \/ \E r \in Requests : WroteFromPi(r, p) \/ WroteOnStaleRead(r, p)
          \/ \E s \in Sweepers : SweptAfterMove(s, p)]_vars

\* A payment that stays open past its threshold is closed, or approved afresh,
\* by the hourly reconciliation, however often the process restarts.
StaleIsReconciled ==
    \A p \in Payments : (IsOpen(p) /\ aged[p]) ~> ~(IsOpen(p) /\ aged[p])

\* SECURITY.md, Payment Service: "State Machine - invalid payment transitions
\* rejected".
TransitionsAreLegal == [][\A p \in Payments : ~IllegalMove(p)]_vars

\* README.md, Engineering Notes: the outbox "guarantees delivery even if Redis
\* is down".  A completed 'pi' payment has its event, or a handler about to
\* publish it.
CompletedIsAnnounced ==
    \A p \in PiPayments : "completed" \in stamps[p] =>
        \/ emitted[p] > 0
        \/ \E r \in Requests : req[r].pay = p /\ At(r, "complete.emit")

-----------------------------------------------------------------------------
(* The inductive invariant behind the safety properties.                     *)

\* What a row's columns say together
RowOK(p) ==
    /\ status[p] \in {"approved", "completed"} => status[p] \in stamps[p]
    /\ "completed" \in stamps[p] => "approved" \in stamps[p]
    /\ piOf[p] # NoPi => piOf[p] \in bound[p]
    /\ bound[p] # {} => "approved" \in stamps[p]
    /\ p \in PiPayments /\ ~PiIdOptional /\ "approved" \in stamps[p] => piOf[p] # NoPi
    /\ emitted[p] > 0 => p \in PiPayments /\ "completed" \in stamps[p]

\* The Pi payment a handler is about to act on was bound to its row
Holds(r) ==
    /\ "approved" \in stamps[req[r].pay]
    /\ req[r].pid # NoPi => req[r].pid \in bound[req[r].pay]

PiCompleted(q) == q \in PiIds /\ "completed" \in pi[q]

\* What a handler may rely on at each of its awaits
ApproveOK(r) ==
    req[r].pc \in {"approve.pi", "approve.save"} =>
        /\ req[r].pay \in Payments /\ req[r].seen = "created"
        /\ req[r].pay \in PiPayments /\ ~PiIdOptional => req[r].pid # NoPi
        /\ req[r].pc = "approve.pi" => req[r].pid # NoPi

CompleteOK(r) ==
    req[r].pc \in PcComplete =>
        /\ req[r].pay \in Payments /\ req[r].seen = "approved" /\ Holds(r)
        /\ req[r].pay \in PiPayments /\ ~PiIdOptional => req[r].pid # NoPi
        /\ IF req[r].pc = "complete.pi"
           THEN req[r].pid # NoPi
           ELSE CallsPi(req[r].pay, req[r].pid) => PiCompleted(req[r].pid)
        /\ req[r].pc = "complete.emit" =>
               req[r].pay \in PiPayments /\ "completed" \in stamps[req[r].pay]

CloseOK(r) ==
    req[r].pc \in {"cancel.save", "fail.save"} =>
        req[r].pay \in Payments /\ req[r].seen \in {"created", "approved"}

WebhookOK(r) ==
    req[r].pc \in PcWebhook =>
        /\ req[r].pay \in Payments /\ req[r].seen = "approved" /\ Holds(r)
        /\ req[r].pid # NoPi
        /\ req[r].pc \in {"webhook.check", "webhook.save"} => PiCompleted(req[r].pid)

ResolveOK(r) ==
    req[r].pc \in PcResolve =>
        /\ req[r].pid # NoPi
        /\ req[r].pay # NoPayment => Holds(r)
        /\ req[r].pc \in {"resolve.saveCompleted", "resolve.saveCancelled"} =>
               req[r].pay \in Payments
        /\ req[r].pc \in {"resolve.done", "resolve.saveCompleted"} => PiCompleted(req[r].pid)

RequestOK(r) ==
    ApproveOK(r) /\ CompleteOK(r) /\ CloseOK(r) /\ WebhookOK(r) /\ ResolveOK(r)

IInv ==
    /\ TypeOK
    /\ CompletedIsPaid
    /\ \A p \in Payments : RowOK(p)
    /\ \A r \in Requests : RequestOK(r)
=============================================================================
