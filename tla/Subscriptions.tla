---------------------------- MODULE Subscriptions ----------------------------
(***************************************************************************)
(* subscription.service.ts of tec-commerce-service: one row per user, a    *)
(* default row created by the first read, and an upsert that Prisma runs   *)
(* as a SELECT and then an INSERT or an UPDATE because it also writes a    *)
(* history row, in one transaction.  That row is left out, and so are the  *)
(* periods and the expiry, which is computed when the row is read.         *)
(***************************************************************************)
EXTENDS ServiceRequests

VARIABLES
    sub,     \* rows of the subscriptions table, unique by user_id
    subReq   \* what each running request is doing

subVars == <<sub, subReq>>

PaidPlans == {"PRO", "ENTERPRISE"}
SubRow(plan, status, payment) == [plan |-> plan, status |-> status, payment |-> payment]
NoSub == SubRow("none", "none", NoPayment)
SubRows == [plan: {"none", "FREE"} \cup PaidPlans, status: {"none", "ACTIVE", "CANCELLED"},
            payment: Payments \cup {NoPayment}]

SubPc == {"idle", "default", "upsert", "insert", "update", "cancel"}
\* plan, payment: what the request asks for; read: the row it has read
SubStep(pc, user, plan, payment, read) ==
    [pc |-> pc, user |-> user, plan |-> plan, payment |-> payment, read |-> read]
SubIdle == SubStep("idle", Nobody, "none", NoPayment, NoSub)

SubInit ==
    /\ sub = [u \in Users |-> NoSub]
    /\ subReq = [r \in Requests |-> SubIdle]

SubAt(r, pc) == subReq[r].pc = pc
StartSub(r, step) == subReq' = [subReq EXCEPT ![r] = step]
EndSub(r) == subReq' = [subReq EXCEPT ![r] = SubIdle]

WriteSub(u, row) == sub' = [sub EXCEPT ![u] = row]

-----------------------------------------------------------------------------

\* getSubscription, also behind hasAccess: a missing row will be created
GetSubscription(r, u) ==
    /\ SubAt(r, "idle") /\ sub[u] = NoSub
    /\ StartSub(r, SubStep("default", u, "FREE", NoPayment, NoSub))
    /\ UNCHANGED sub

\* Fault: the default row is upserted
CreateDefaultUpserts(r) ==
    /\ SubAt(r, "default")
    /\ WriteSub(subReq[r].user, SubRow("FREE", "ACTIVE", NoPayment))
    /\ EndSub(r)

\* create; if user_id exists by now it throws (FailSub)
CreateDefault(r) ==
    /\ SubAt(r, "default") /\ sub[subReq[r].user] = NoSub
    /\ WriteSub(subReq[r].user, SubRow("FREE", "ACTIVE", NoPayment))
    /\ EndSub(r)

\* Fault: "Already subscribed" is not answered
SubscribeAgain(r, u, plan, p) ==
    /\ SubAt(r, "idle")
    /\ StartSub(r, SubStep("upsert", u, plan, p, sub[u]))
    /\ UNCHANGED sub

\* subscribe: 409 if the plan is the active one
Subscribe(r, u, plan, p) ==
    /\ SubAt(r, "idle")
    /\ ~(sub[u].plan = plan /\ sub[u].status = "ACTIVE")
    /\ StartSub(r, SubStep("upsert", u, plan, p, sub[u]))
    /\ UNCHANGED sub

\* The upsert's SELECT
SelectSub(r) ==
    /\ SubAt(r, "upsert")
    /\ LET q == subReq[r] IN
           StartSub(r, SubStep(IF sub[q.user] = NoSub THEN "insert" ELSE "update",
                               q.user, q.plan, q.payment, q.read))
    /\ UNCHANGED sub

\* The row after a subscribe; a payment that is not named leaves the column alone
Subscribed(q) ==
    SubRow(q.plan, "ACTIVE", IF q.payment = NoPayment THEN sub[q.user].payment ELSE q.payment)

\* Its INSERT, which the unique index on user_id may refuse (FailSub), or its UPDATE
PutSub(r) ==
    /\ SubAt(r, "update") \/ (SubAt(r, "insert") /\ sub[subReq[r].user] = NoSub)
    /\ LET q == subReq[r] IN
           WriteSub(q.user, Subscribed(q))
    /\ EndSub(r)

\* cancel: refused for no row, for the free plan and if CANCELLED already
Cancel(r, u) ==
    /\ SubAt(r, "idle")
    /\ sub[u].plan \in PaidPlans /\ sub[u].status = "ACTIVE"
    /\ StartSub(r, SubStep("cancel", u, "none", NoPayment, sub[u]))
    /\ UNCHANGED sub

\* The update is by user_id
CommitCancelSub(r) ==
    /\ SubAt(r, "cancel")
    /\ LET q == subReq[r] IN
           WriteSub(q.user, SubRow(sub[q.user].plan, "CANCELLED", sub[q.user].payment))
    /\ EndSub(r)

\* A unique violation, an aborted statement or the end of the process
FailSub(r) ==
    /\ ~SubAt(r, "idle")
    /\ EndSub(r)
    /\ UNCHANGED sub

-----------------------------------------------------------------------------

SubNext ==
    \E r \in Requests :
        \/ \E u \in Users : GetSubscription(r, u) \/ Cancel(r, u)
        \/ \E u \in Users, plan \in PaidPlans, p \in Payments \cup {NoPayment} :
               Subscribe(r, u, plan, p)
        \/ CreateDefault(r) \/ SelectSub(r) \/ PutSub(r) \/ CommitCancelSub(r) \/ FailSub(r)

SubSpec == SubInit /\ [][SubNext]_subVars

-----------------------------------------------------------------------------
(* Properties *)

\* Every variable has its type, and only paid plans are asked for or cancelled.
SubTypeOK ==
    /\ sub \in [Users -> SubRows]
    /\ subReq \in [Requests ->
           [pc: SubPc, user: Users \cup {Nobody}, plan: {"none", "FREE"} \cup PaidPlans,
            payment: Payments \cup {NoPayment}, read: SubRows]]
    /\ \A r \in Requests :
           /\ ~SubAt(r, "idle") => subReq[r].user \in Users
           /\ subReq[r].pc \in {"upsert", "insert", "update"} => subReq[r].plan \in PaidPlans

\* The default row that a read creates never replaces a plan that was paid for
\* between the read and the create.
PaidPlanStaysPaid ==
    [][\A u \in Users : sub[u].plan \in PaidPlans => sub'[u].plan \in PaidPlans]_subVars

\* A row that its request finds changed since it was read
SubOutrun(r, u) ==
    /\ ~SubAt(r, "idle") /\ subReq'[r] # subReq[r]
    /\ subReq[r].user = u /\ subReq[r].read # sub[u]

\* Nobody pays twice for the plan he has: an active plan is renewed under
\* another payment only by a subscribe that was overtaken.
RenewedOnlyWhenOutrun ==
    [][\A u \in Users :
           /\ sub[u].status = "ACTIVE" /\ sub'[u].plan = sub[u].plan
           /\ sub'[u].payment # sub[u].payment
           => \E r \in Requests : SubOutrun(r, u)]_subVars
=============================================================================
