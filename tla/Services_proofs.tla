--------------------------- MODULE Services_proofs ---------------------------
(***************************************************************************)
(* Proofs about wallets' creation, KYC records, subscriptions and user     *)
(* events, and about the services side by side.  The first three are       *)
(* alike: an operation reads a row and writes it later, so each inductive  *)
(* invariant says what a request knows between the two.                    *)
(***************************************************************************)
EXTENDS MCServices, CommerceOrders_proofs, AssetMarketplace_proofs, FiniteSetTheorems,
        SequenceTheorems, TLAPS

-----------------------------------------------------------------------------
(* Subscriptions                                                             *)

Plans == {"none", "FREE"} \cup PaidPlans
SubSteps == [pc: SubPc, user: Users \cup {Nobody}, plan: Plans,
             payment: Payments \cup {NoPayment}, read: SubRows]

\* A subscribe asks for a plan that its user did not have when it was read.
SubSlotOK(q) ==
    /\ q.pc # "idle" => q.user \in Users
    /\ q.pc \in {"upsert", "insert", "update"} =>
           q.plan \in PaidPlans /\ ~(q.read.plan = q.plan /\ q.read.status = "ACTIVE")

SubInv ==
    /\ sub \in [Users -> SubRows] /\ subReq \in [Requests -> SubSteps]
    /\ \A r \in Requests : SubSlotOK(subReq[r])

\* A row is built from its columns.
LEMMA SubRowType ==
    ASSUME NEW plan \in Plans, NEW status \in {"none", "ACTIVE", "CANCELLED"},
           NEW p \in Payments \cup {NoPayment}
    PROVE  /\ SubRow(plan, status, p) \in SubRows
           /\ SubRow(plan, status, p).plan = plan /\ SubRow(plan, status, p).status = status
           /\ SubRow(plan, status, p).payment = p
  BY DEF SubRow, SubRows, Plans

\* A slot is built from its fields.
LEMMA SubStepType ==
    ASSUME NEW pc \in SubPc, NEW u \in Users \cup {Nobody}, NEW plan \in Plans,
           NEW p \in Payments \cup {NoPayment}, NEW row \in SubRows
    PROVE  /\ SubStep(pc, u, plan, p, row) \in SubSteps
           /\ SubStep(pc, u, plan, p, row).pc = pc /\ SubStep(pc, u, plan, p, row).user = u
           /\ SubStep(pc, u, plan, p, row).plan = plan /\ SubStep(pc, u, plan, p, row).read = row
  BY DEF SubStep, SubSteps

\* What a slot may hold, column by column.
LEMMA SubFields ==
    ASSUME SubInv, NEW r \in Requests
    PROVE  /\ subReq[r].pc \in SubPc /\ subReq[r].user \in Users \cup {Nobody}
           /\ subReq[r].plan \in Plans /\ subReq[r].payment \in Payments \cup {NoPayment}
           /\ subReq[r].read \in SubRows /\ SubSlotOK(subReq[r])
  BY DEF SubInv, SubSteps

LEMMA SubColumns ==
    ASSUME SubInv, NEW u \in Users
    PROVE  /\ sub[u].plan \in Plans /\ sub[u].status \in {"none", "ACTIVE", "CANCELLED"}
           /\ sub[u].payment \in Payments \cup {NoPayment}
  BY DEF SubInv, SubRows, Plans

\* A step of one request.
LEMMA SubGoesOn ==
    ASSUME SubInv, NEW r \in Requests, NEW v \in SubSteps, SubSlotOK(v), StartSub(r, v),
           sub' \in [Users -> SubRows]
    PROVE  SubInv'
  <1>1. subReq' = [subReq EXCEPT ![r] = v]
    BY DEF StartSub
  <1>2. /\ subReq' \in [Requests -> SubSteps] /\ subReq'[r] = v
        /\ \A s \in Requests : s # r => subReq'[s] = subReq[s]
    BY <1>1 DEF SubInv
  <1>3. \A s \in Requests : SubSlotOK(subReq'[s])
    BY <1>2 DEF SubInv
  <1>4. QED BY <1>2, <1>3 DEF SubInv, SubSlotOK

LEMMA SubEnds ==
    ASSUME SubInv, NEW r \in Requests, EndSub(r), sub' \in [Users -> SubRows]
    PROVE  SubInv'
  <1>1. SubIdle \in SubSteps /\ SubIdle.pc = "idle"
    BY DEF SubIdle, SubStep, SubSteps, NoSub, SubRow, SubRows, SubPc, Plans
  <1>2. SubSlotOK(SubIdle)
    BY <1>1 DEF SubSlotOK
  <1>3. StartSub(r, SubIdle)
    BY DEF EndSub, StartSub
  <1>4. QED BY <1>1, <1>2, <1>3, SubGoesOn

\* Every operation of the subscriptions keeps the invariant.
LEMMA SubNextInv ==
    ASSUME SubInv, [SubNext]_subVars
    PROVE  SubInv'
  <1>0. sub \in [Users -> SubRows] /\ NoSub \in SubRows
    BY DEF SubInv, NoSub, SubRow, SubRows
  <1>1. CASE UNCHANGED subVars
    BY <1>1 DEF subVars, SubInv, SubSlotOK
  <1>2. ASSUME NEW r \in Requests, NEW u \in Users, GetSubscription(r, u)
        PROVE  SubInv'
    <2> DEFINE v == SubStep("default", u, "FREE", NoPayment, NoSub)
    <2>1. v \in SubSteps /\ v.pc = "default" /\ v.user = u
      BY <1>0, SubStepType DEF SubPc, Plans
    <2>2. StartSub(r, v) /\ sub' = sub
      BY <1>2 DEF GetSubscription
    <2> HIDE DEF v
    <2>3. SubSlotOK(v)
      BY <2>1 DEF SubSlotOK
    <2>4. QED BY <1>0, <2>1, <2>2, <2>3, SubGoesOn
  <1>3. ASSUME NEW r \in Requests, NEW u \in Users, Cancel(r, u)
        PROVE  SubInv'
    <2>1. PICK row \in SubRows : row = sub[u]
      BY <1>0
    <2> DEFINE v == SubStep("cancel", u, "none", NoPayment, row)
    <2>2. v \in SubSteps /\ v.pc = "cancel" /\ v.user = u
      BY SubStepType DEF SubPc, Plans
    <2>3. StartSub(r, v) /\ sub' = sub
      BY <1>3, <2>1 DEF Cancel
    <2> HIDE DEF v
    <2>4. SubSlotOK(v)
      BY <2>2 DEF SubSlotOK
    <2>5. QED BY <1>0, <2>2, <2>3, <2>4, SubGoesOn
  <1>4. ASSUME NEW r \in Requests, NEW u \in Users, NEW plan \in PaidPlans,
               NEW p \in Payments \cup {NoPayment}, Subscribe(r, u, plan, p)
        PROVE  SubInv'
    <2>1. PICK row \in SubRows : row = sub[u]
      BY <1>0
    <2> DEFINE v == SubStep("upsert", u, plan, p, row)
    <2>2. v \in SubSteps /\ v.pc = "upsert" /\ v.user = u /\ v.plan = plan /\ v.read = row
      <3>1. plan \in Plans /\ "upsert" \in SubPc
        BY DEF Plans, SubPc
      <3>2. QED BY <3>1, SubStepType
    <2>3. StartSub(r, v) /\ sub' = sub /\ ~(row.plan = plan /\ row.status = "ACTIVE")
      BY <1>4, <2>1 DEF Subscribe
    <2> HIDE DEF v
    <2>4. SubSlotOK(v)
      BY <2>2, <2>3 DEF SubSlotOK
    <2>5. QED BY <1>0, <2>2, <2>3, <2>4, SubGoesOn
  <1>5. ASSUME NEW r \in Requests, SelectSub(r)
        PROVE  SubInv'
    <2> DEFINE pc == IF sub[subReq[r].user] = NoSub THEN "insert" ELSE "update"
               u == subReq[r].user
               plan == subReq[r].plan
               p == subReq[r].payment
               row == subReq[r].read
               v == SubStep(pc, u, plan, p, row)
    <2>1. /\ u \in Users \cup {Nobody} /\ plan \in Plans /\ p \in Payments \cup {NoPayment}
          /\ row \in SubRows /\ pc \in {"insert", "update"} /\ pc \in SubPc
      BY SubFields DEF SubPc
    <2>2. subReq[r].pc = "upsert"
      BY <1>5 DEF SelectSub, SubAt
    <2>3. u \in Users /\ plan \in PaidPlans /\ ~(row.plan = plan /\ row.status = "ACTIVE")
      BY <2>2, SubFields DEF SubSlotOK
    <2>4. StartSub(r, v) /\ sub' = sub
      BY <1>5 DEF SelectSub
    <2> HIDE DEF pc, u, plan, p, row
    <2>5. v \in SubSteps /\ v.pc = pc /\ v.user = u /\ v.plan = plan /\ v.read = row
      BY <2>1, SubStepType
    <2> HIDE DEF v
    <2>6. SubSlotOK(v)
      BY <2>3, <2>5 DEF SubSlotOK
    <2>7. QED BY <1>0, <2>4, <2>5, <2>6, SubGoesOn
  <1>6. ASSUME NEW r \in Requests, CreateDefault(r)
        PROVE  SubInv'
    <2>1. SubRow("FREE", "ACTIVE", NoPayment) \in SubRows
      BY SubRowType DEF Plans
    <2>2. sub' = [sub EXCEPT ![subReq[r].user] = SubRow("FREE", "ACTIVE", NoPayment)]
      BY <1>6 DEF CreateDefault, WriteSub
    <2>3. sub' \in [Users -> SubRows]
      BY <1>0, <2>1, <2>2
    <2>4. QED BY <1>6, <2>3, SubEnds DEF CreateDefault
  <1>7. ASSUME NEW r \in Requests, PutSub(r)
        PROVE  SubInv'
    <2>1. Subscribed(subReq[r]) \in SubRows
      <3>1. PICK u \in Users : u = subReq[r].user
        BY <1>7, SubFields DEF PutSub, SubAt, SubSlotOK
      <3>2. PICK p \in Payments \cup {NoPayment} :
                p = IF subReq[r].payment = NoPayment THEN sub[u].payment ELSE subReq[r].payment
        BY SubFields, SubColumns
      <3>3. Subscribed(subReq[r]) = SubRow(subReq[r].plan, "ACTIVE", p)
        BY <3>1, <3>2 DEF Subscribed
      <3>4. subReq[r].plan \in Plans
        BY SubFields
      <3>5. QED BY <3>3, <3>4, SubRowType
    <2>2. sub' = [sub EXCEPT ![subReq[r].user] = Subscribed(subReq[r])]
      BY <1>7 DEF PutSub, WriteSub
    <2>3. sub' \in [Users -> SubRows]
      BY <1>0, <2>1, <2>2
    <2>4. QED BY <1>7, <2>3, SubEnds DEF PutSub
  <1>8. ASSUME NEW r \in Requests, CommitCancelSub(r)
        PROVE  SubInv'
    <2>1. PICK u \in Users : u = subReq[r].user
      BY <1>8, SubFields DEF CommitCancelSub, SubAt, SubSlotOK
    <2>2. PICK row \in SubRows : row = SubRow(sub[u].plan, "CANCELLED", sub[u].payment)
      <3>1. sub[u].plan \in Plans /\ sub[u].payment \in Payments \cup {NoPayment}
        BY SubColumns
      <3>2. QED BY <3>1, SubRowType
    <2>3. sub' = [sub EXCEPT ![u] = row]
      BY <1>8, <2>1, <2>2 DEF CommitCancelSub, WriteSub
    <2>4. sub' \in [Users -> SubRows]
      BY <1>0, <2>3
    <2>5. QED BY <1>8, <2>4, SubEnds DEF CommitCancelSub
  <1>9. ASSUME NEW r \in Requests, FailSub(r)
        PROVE  SubInv'
    BY <1>0, <1>9, SubEnds DEF FailSub
  <1>10. QED BY <1>1, <1>2, <1>3, <1>4, <1>5, <1>6, <1>7, <1>8, <1>9 DEF SubNext

LEMMA SubInvariance == SubSpec => []SubInv
  <1>1. ASSUME SubInit
        PROVE  SubInv
    <2>1. SubIdle \in SubSteps /\ SubIdle.pc = "idle" /\ NoSub \in SubRows
      BY DEF SubIdle, SubStep, SubSteps, NoSub, SubRow, SubRows, SubPc, Plans
    <2>2. \A r \in Requests : subReq[r] = SubIdle
      BY <1>1 DEF SubInit
    <2>3. \A r \in Requests : SubSlotOK(subReq[r])
      BY <2>1, <2>2 DEF SubSlotOK
    <2>4. QED BY <1>1, <2>1, <2>3 DEF SubInit, SubInv
  <1>2. SubInv /\ [SubNext]_subVars => SubInv'
    BY SubNextInv
  <1>3. QED BY <1>1, <1>2, PTL DEF SubSpec

\* The subscriptions' variables keep their types, for any number of users.
THEOREM SubscriptionTypes == SubSpec => []SubTypeOK
  <1>1. SubInv => SubTypeOK
    BY DEF SubInv, SubTypeOK, SubSteps, SubSlotOK, SubAt, Plans
  <1>2. QED BY <1>1, SubInvariance, PTL

\* What a step may do to a row.
LEMMA SubWrites ==
    ASSUME SubInv, [SubNext]_subVars, NEW u \in Users, sub'[u] # sub[u]
    PROVE  \E r \in Requests :
               /\ subReq[r].user = u /\ subReq[r].pc # "idle" /\ subReq'[r] # subReq[r]
               /\ \/ CreateDefault(r) /\ sub[u] = NoSub
                  \/ /\ PutSub(r) /\ sub'[u].plan = subReq[r].plan /\ subReq[r].plan \in PaidPlans
                     /\ ~(subReq[r].read.plan = subReq[r].plan /\ subReq[r].read.status = "ACTIVE")
                  \/ CommitCancelSub(r) /\ sub'[u].plan = sub[u].plan /\ sub'[u].payment = sub[u].payment
  <1>1. PICK r \in Requests : CreateDefault(r) \/ PutSub(r) \/ CommitCancelSub(r)
    BY DEF SubNext, subVars, GetSubscription, Cancel, Subscribe, SelectSub, FailSub
  <1>2. subReq[r].pc # "idle" /\ EndSub(r)
    BY <1>1 DEF CreateDefault, PutSub, CommitCancelSub, SubAt
  <1>3. subReq'[r] # subReq[r]
    <2>1. subReq' = [subReq EXCEPT ![r] = SubIdle] /\ SubIdle.pc = "idle"
      BY <1>2 DEF EndSub, SubIdle, SubStep
    <2>2. QED BY <1>2, <2>1 DEF SubInv
  <1>4. PICK w \in SubRows : sub' = [sub EXCEPT ![subReq[r].user] = w]
    <2>1. SubRow("FREE", "ACTIVE", NoPayment) \in SubRows
      BY SubRowType DEF Plans
    <2>2. \E w : sub' = [sub EXCEPT ![subReq[r].user] = w]
      BY <1>1 DEF CreateDefault, PutSub, CommitCancelSub, WriteSub
    <2>3. PICK w : sub' = [sub EXCEPT ![subReq[r].user] = w]
      BY <2>2
    <2>4. sub'[u] = w /\ subReq[r].user = u
      BY <2>3 DEF SubInv
    <2>5. sub' \in [Users -> SubRows]
      BY SubNextInv DEF SubInv
    <2>6. QED BY <2>3, <2>4, <2>5
  <1>5. subReq[r].user = u /\ sub'[u] = w
    BY <1>4 DEF SubInv
  <1>6. CASE CreateDefault(r)
    BY <1>2, <1>3, <1>5, <1>6 DEF CreateDefault
  <1>7. CASE PutSub(r)
    <2>1. sub' = [sub EXCEPT ![u] = Subscribed(subReq[r])]
      BY <1>5, <1>7 DEF PutSub, WriteSub
    <2>2. sub'[u] = Subscribed(subReq[r])
      BY <2>1 DEF SubInv
    <2>3. sub'[u].plan = subReq[r].plan
      BY <2>2 DEF Subscribed, SubRow
    <2>4. subReq[r].pc \in {"insert", "update"} /\ SubSlotOK(subReq[r])
      BY <1>7, SubFields DEF PutSub, SubAt
    <2>5. QED BY <1>2, <1>3, <1>5, <1>7, <2>3, <2>4 DEF SubSlotOK
  <1>8. CASE CommitCancelSub(r)
    <2>1. sub' = [sub EXCEPT ![u] = SubRow(sub[u].plan, "CANCELLED", sub[u].payment)]
      BY <1>5, <1>8 DEF CommitCancelSub, WriteSub
    <2>2. sub'[u] = SubRow(sub[u].plan, "CANCELLED", sub[u].payment)
      BY <2>1 DEF SubInv
    <2>3. sub'[u].plan = sub[u].plan /\ sub'[u].payment = sub[u].payment
      BY <2>2 DEF SubRow
    <2>4. QED BY <1>2, <1>3, <1>5, <1>8, <2>3
  <1>9. QED BY <1>1, <1>6, <1>7, <1>8

\* A paid plan is never replaced by the default row.
THEOREM DefaultNeverOverwrites == SubSpec => PaidPlanStaysPaid
  <1>1. ASSUME SubInv, [SubNext]_subVars, NEW u \in Users, sub[u].plan \in PaidPlans
        PROVE  sub'[u].plan \in PaidPlans
    <2>1. CASE sub'[u] = sub[u]
      BY <1>1, <2>1
    <2>2. CASE sub'[u] # sub[u]
      <3>1. sub[u] # NoSub
        BY <1>1 DEF NoSub, SubRow, PaidPlans
      <3>2. QED BY <1>1, <2>2, <3>1, SubWrites
    <2>3. QED BY <2>1, <2>2
  <1>2. SubInv /\ [SubNext]_subVars =>
            [\A u \in Users : sub[u].plan \in PaidPlans => sub'[u].plan \in PaidPlans]_subVars
    BY <1>1
  <1>3. QED BY <1>2, SubInvariance, PTL DEF SubSpec, PaidPlanStaysPaid

\* An active plan is paid for again only by a subscribe that was overtaken.
THEOREM NoSecondChargeUnlessOutrun == SubSpec => RenewedOnlyWhenOutrun
  <1>1. ASSUME SubInv, [SubNext]_subVars, NEW u \in Users, sub[u].status = "ACTIVE",
               sub'[u].plan = sub[u].plan, sub'[u].payment # sub[u].payment
        PROVE  \E r \in Requests : SubOutrun(r, u)
    <2>1. sub'[u] # sub[u]
      BY <1>1
    <2>2. sub[u] # NoSub
      BY <1>1 DEF NoSub, SubRow
    <2>3. PICK r \in Requests :
              /\ subReq[r].user = u /\ subReq[r].pc # "idle" /\ subReq'[r] # subReq[r]
              /\ sub'[u].plan = subReq[r].plan
              /\ ~(subReq[r].read.plan = subReq[r].plan /\ subReq[r].read.status = "ACTIVE")
      BY <1>1, <2>1, <2>2, SubWrites
    <2>4. subReq[r].read # sub[u]
      BY <1>1, <2>3
    <2>5. QED BY <2>3, <2>4 DEF SubOutrun, SubAt
  <1>2. SubInv /\ [SubNext]_subVars =>
            [\A u \in Users :
                 /\ sub[u].status = "ACTIVE" /\ sub'[u].plan = sub[u].plan
                 /\ sub'[u].payment # sub[u].payment
                 => \E r \in Requests : SubOutrun(r, u)]_subVars
    BY <1>1
  <1>3. QED BY <1>2, SubInvariance, PTL DEF SubSpec, RenewedOnlyWhenOutrun
-----------------------------------------------------------------------------
(* KycReview                                                                 *)

KycOps == UserOps \cup AdminOps \cup {"status"}
KycSteps == [pc: KycPc, op: KycOps, user: Users \cup {Nobody}, papers: Papers, read: KycStatus]

\* What a request knows: the record it will write exists, a user's request has
\* not read a verified one, the documents of a submission are still there, and
\* a verification is written, then audited, then announced.
KycSlotOK(q) ==
    /\ q.pc # "idle" => q.user \in Users
    /\ q.pc = "create" => q.read = "NOT_STARTED" /\ q.op \notin AdminOps
    /\ q.pc = "write" =>
           /\ kyc[q.user].status # "absent" /\ q.op \in UserOps \cup AdminOps
           /\ q.op \in UserOps => q.read # "VERIFIED"
           /\ q.op = "submit" => Complete(kyc[q.user].papers)
    /\ q.pc = "audit" /\ q.op = "verify" => q.user \in verified
    /\ q.pc = "emit" => q.user \in audited

KycInv ==
    /\ kyc \in [Users -> [status: KycStatus, papers: Papers]]
    /\ verified \subseteq Users /\ audited \subseteq Users /\ announced \subseteq Users
    /\ kycReq \in [Requests -> KycSteps]
    /\ \A u \in Users : kyc[u].status = "absent" => kyc[u] = NoKyc
    /\ \A r \in Requests : KycSlotOK(kycReq[r])
    /\ KycHasGrounds

\* Rows and slots are built from their fields.
LEMMA KycRowType ==
    ASSUME NEW status \in KycStatus, NEW papers \in Papers
    PROVE  /\ KycRow(status, papers) \in [status: KycStatus, papers: Papers]
           /\ KycRow(status, papers).status = status /\ KycRow(status, papers).papers = papers
  BY DEF KycRow

LEMMA KycStepType ==
    ASSUME NEW pc \in KycPc, NEW op \in KycOps, NEW u \in Users \cup {Nobody},
           NEW papers \in Papers, NEW status \in KycStatus
    PROVE  /\ KycStep(pc, op, u, papers, status) \in KycSteps
           /\ KycStep(pc, op, u, papers, status).pc = pc /\ KycStep(pc, op, u, papers, status).op = op
           /\ KycStep(pc, op, u, papers, status).user = u
           /\ KycStep(pc, op, u, papers, status).papers = papers
           /\ KycStep(pc, op, u, papers, status).read = status
  BY DEF KycStep, KycSteps

LEMMA NoPapersType == NoPapers \in Papers
  BY KycAssumption DEF NoPapers, Papers

LEMMA KycFields ==
    ASSUME KycInv, NEW r \in Requests
    PROVE  /\ kycReq[r].pc \in KycPc /\ kycReq[r].op \in KycOps /\ kycReq[r].user \in Users \cup {Nobody}
           /\ kycReq[r].papers \in Papers /\ kycReq[r].read \in KycStatus /\ KycSlotOK(kycReq[r])
  BY DEF KycInv, KycSteps

\* A step of one request: what the others know stays true if a record neither
\* goes away nor loses its documents, and the histories only grow.
LEMMA KycGoesOn ==
    ASSUME KycInv, NEW r \in Requests, NEW v \in KycSteps, KycSlotOK(v)', StartKycReq(r, v),
           kyc' \in [Users -> [status: KycStatus, papers: Papers]],
           \A u \in Users : /\ kyc'[u].status = "absent" => kyc'[u] = kyc[u]
                            /\ Complete(kyc[u].papers) => Complete(kyc'[u].papers)
                            /\ kyc'[u].status = "PENDING" => Complete(kyc'[u].papers),
           verified' \in SUBSET Users, audited' \in SUBSET Users, announced' \in SUBSET Users,
           verified \subseteq verified', audited \subseteq audited',
           audited' \subseteq verified', announced' \subseteq audited'
    PROVE  KycInv'
  <1>1. kycReq' = [kycReq EXCEPT ![r] = v]
    BY DEF StartKycReq
  <1>2. /\ kycReq' \in [Requests -> KycSteps] /\ kycReq'[r] = v
        /\ \A s \in Requests : s # r => kycReq'[s] = kycReq[s]
    BY <1>1 DEF KycInv
  <1>3. \A u \in Users : kyc'[u].status = "absent" => kyc'[u] = NoKyc
    BY DEF KycInv
  <1>4. ASSUME NEW q \in KycSteps, KycSlotOK(q)
        PROVE  KycSlotOK(q)'
    <2>1. ASSUME q.pc = "write"
          PROVE  /\ kyc'[q.user].status # "absent"
                 /\ q.op = "submit" => Complete(kyc'[q.user].papers)
      <3>1. q.user \in Users /\ kyc[q.user].status # "absent"
        BY <1>4, <2>1 DEF KycSlotOK
      <3>2. kyc'[q.user].status # "absent"
        BY <3>1
      <3>3. q.op = "submit" => Complete(kyc[q.user].papers)
        BY <1>4, <2>1 DEF KycSlotOK
      <3>4. QED BY <3>1, <3>2, <3>3
    <2>2. QED BY <1>4, <2>1 DEF KycSlotOK
  <1>5. \A s \in Requests : KycSlotOK(kycReq[s])'
    <2>1. ASSUME NEW s \in Requests, s # r
          PROVE  KycSlotOK(kycReq[s])'
      <3>1. PICK q \in KycSteps : q = kycReq[s]
        BY DEF KycInv
      <3>2. KycSlotOK(q)
        BY <3>1 DEF KycInv
      <3>3. KycSlotOK(q)'
        BY <1>4, <3>2
      <3>4. kycReq'[s] = q
        BY <1>2, <2>1, <3>1
      <3>5. QED BY <3>3, <3>4 DEF KycSlotOK
    <2>2. KycSlotOK(kycReq[r])'
      BY <1>2 DEF KycSlotOK
    <2>3. QED BY <2>1, <2>2
  <1>6. KycHasGrounds'
    BY DEF KycHasGrounds
  <1>7. QED BY <1>2, <1>3, <1>5, <1>6 DEF KycInv

\* A step that writes no record.
LEMMA KycOnlyTrail ==
    ASSUME KycInv, NEW r \in Requests, NEW v \in KycSteps, KycSlotOK(v)', StartKycReq(r, v), kyc' = kyc,
           verified' = verified, audited' \in SUBSET Users, announced' \in SUBSET Users,
           audited \subseteq audited', audited' \subseteq verified, announced' \subseteq audited'
    PROVE  KycInv'
  <1>1. kyc' \in [Users -> [status: KycStatus, papers: Papers]] /\ verified' \in SUBSET Users
    BY DEF KycInv
  <1>2. \A u \in Users : kyc'[u].status = "PENDING" => Complete(kyc'[u].papers)
    BY DEF KycInv, KycHasGrounds
  <1>3. QED BY <1>1, <1>2, KycGoesOn

\* A request that ends.
LEMMA KycEnds ==
    ASSUME KycInv, NEW r \in Requests, EndKycReq(r), kyc' = kyc,
           verified' = verified, audited' = audited, announced' \in SUBSET Users,
           announced' \subseteq audited
    PROVE  KycInv'
  <1>1. KycIdle \in KycSteps /\ KycIdle.pc = "idle"
    <2>1. "idle" \in KycPc /\ "status" \in KycOps /\ Nobody \in Users \cup {Nobody} /\ "absent" \in KycStatus
      BY DEF KycPc, KycOps, KycStatus
    <2>2. QED BY <2>1, NoPapersType, KycStepType DEF KycIdle
  <1>2. KycSlotOK(KycIdle)'
    BY <1>1 DEF KycSlotOK, KycIdle
  <1>3. StartKycReq(r, KycIdle)
    BY DEF EndKycReq, StartKycReq
  <1>4. audited \subseteq verified /\ audited \subseteq Users
    BY DEF KycInv, KycHasGrounds
  <1>5. QED BY <1>1, <1>2, <1>3, <1>4, KycOnlyTrail

\* An operation reads the record.
LEMMA ReadKycInv ==
    ASSUME KycInv, NEW r \in Requests, NEW u \in Users, NEW op \in UserOps \cup AdminOps,
           NEW papers \in Papers, ReadKyc(r, u, op, papers)
    PROVE  KycInv'
  <1>1. PICK st \in KycStatus : st = kyc[u].status
    BY DEF KycInv
  <1>2. PICK v \in KycSteps : /\ v = KycStep("write", op, u, papers, st)
                              /\ v.pc = "write" /\ v.op = op /\ v.user = u /\ v.read = st
    <2>1. "write" \in KycPc /\ op \in KycOps /\ u \in Users \cup {Nobody}
      BY DEF KycPc, KycOps
    <2>2. QED BY <2>1, KycStepType
  <1>3. /\ StartKycReq(r, v) /\ kyc' = kyc /\ verified' = verified /\ audited' = audited
        /\ announced' = announced /\ kyc[u] # NoKyc /\ KycAccepts(op, kyc[u])
    BY <1>1, <1>2 DEF ReadKyc, kycTrail
  <1>4. /\ op \in UserOps => st # "VERIFIED"
        /\ op = "submit" => Complete(kyc[u].papers)
    BY <1>1, <1>3 DEF KycAccepts, UserOps, AdminOps
  <1>5. kyc[u].status # "absent"
    BY <1>3 DEF KycInv
  <1>6. KycSlotOK(v)'
    BY <1>2, <1>3, <1>4, <1>5 DEF KycSlotOK
  <1>7. /\ audited \subseteq Users /\ announced \subseteq Users
        /\ audited \subseteq verified /\ announced \subseteq audited
    BY DEF KycInv, KycHasGrounds
  <1>8. QED BY <1>3, <1>6, <1>7, KycOnlyTrail

\* An operation finds no record.
LEMMA MissKycInv ==
    ASSUME KycInv, NEW r \in Requests, NEW u \in Users, NEW op \in UserOps \cup {"status"},
           NEW papers \in Papers, MissKyc(r, u, op, papers)
    PROVE  KycInv'
  <1>1. PICK v \in KycSteps : /\ v = KycStep("create", op, u, papers, "NOT_STARTED")
                              /\ v.pc = "create" /\ v.op = op /\ v.user = u /\ v.read = "NOT_STARTED"
    <2>1. "create" \in KycPc /\ op \in KycOps /\ u \in Users \cup {Nobody} /\ "NOT_STARTED" \in KycStatus
      BY DEF KycPc, KycOps, KycStatus
    <2>2. QED BY <2>1, KycStepType
  <1>2. /\ StartKycReq(r, v) /\ kyc' = kyc /\ verified' = verified /\ audited' = audited
        /\ announced' = announced
    BY <1>1 DEF MissKyc, kycTrail
  <1>3. KycSlotOK(v)'
    BY <1>1 DEF KycSlotOK, UserOps, AdminOps
  <1>4. /\ audited \subseteq Users /\ announced \subseteq Users
        /\ audited \subseteq verified /\ announced \subseteq audited
    BY DEF KycInv, KycHasGrounds
  <1>5. QED BY <1>2, <1>3, <1>4, KycOnlyTrail

\* The missing record is created, and the operation goes on or is refused.
LEMMA CreateKycInv ==
    ASSUME KycInv, NEW r \in Requests, CreateKyc(r)
    PROVE  KycInv'
  <1> DEFINE new == KycRow("NOT_STARTED", NoPapers)
  <1>1. new \in [status: KycStatus, papers: Papers] /\ new.status = "NOT_STARTED" /\ new.papers = NoPapers
    BY NoPapersType, KycRowType DEF KycStatus
  <1>2. PICK u \in Users, op \in KycOps, papers \in Papers :
            u = kycReq[r].user /\ op = kycReq[r].op /\ papers = kycReq[r].papers
    <2>1. kycReq[r].user \in Users
      BY KycFields DEF CreateKyc, KycAt, KycSlotOK
    <2>2. QED BY <2>1, KycFields
  <1>3. kycReq[r].pc = "create" /\ kycReq[r].read = "NOT_STARTED" /\ op \notin AdminOps
    BY <1>2, KycFields DEF CreateKyc, KycAt, KycSlotOK
  <1>4. /\ kyc' = [kyc EXCEPT ![u] = new] /\ kyc[u] = NoKyc
        /\ verified' = verified /\ audited' = audited /\ announced' = announced
        /\ IF KycAccepts(op, new) THEN GotoKyc(r, "write") ELSE EndKycReq(r)
    BY <1>2 DEF CreateKyc, kycTrail
  <1> HIDE DEF new
  <1>5. PICK v \in KycSteps :
            /\ StartKycReq(r, v) /\ (v.pc = "idle" \/ (v.pc = "write" /\ KycAccepts(op, new)))
            /\ v.pc # "idle" => v.op = op /\ v.user = u /\ v.read = "NOT_STARTED"
    <2>1. CASE KycAccepts(op, new)
      <3>1. StartKycReq(r, KycStep("write", op, u, papers, "NOT_STARTED"))
        BY <1>2, <1>3, <1>4, <2>1 DEF GotoKyc
      <3>2. "write" \in KycPc /\ "NOT_STARTED" \in KycStatus /\ u \in Users \cup {Nobody}
        BY DEF KycPc, KycStatus
      <3>3. QED BY <2>1, <3>1, <3>2, KycStepType
    <2>2. CASE ~KycAccepts(op, new)
      <3>1. StartKycReq(r, KycIdle)
        BY <1>4, <2>2 DEF EndKycReq, StartKycReq
      <3>2. "idle" \in KycPc /\ "status" \in KycOps /\ Nobody \in Users \cup {Nobody} /\ "absent" \in KycStatus
        BY DEF KycPc, KycOps, KycStatus
      <3>3. KycIdle \in KycSteps /\ KycIdle.pc = "idle"
        BY <3>2, NoPapersType, KycStepType DEF KycIdle
      <3>4. QED BY <3>1, <3>3
    <2>3. QED BY <2>1, <2>2
  <1>6. /\ kyc' \in [Users -> [status: KycStatus, papers: Papers]] /\ kyc'[u] = new
        /\ \A w \in Users : w # u => kyc'[w] = kyc[w]
    BY <1>1, <1>4 DEF KycInv
  <1>7. kyc[u].papers = NoPapers
    BY <1>4 DEF NoKyc, KycRow
  <1>8. \A w \in Users : /\ kyc'[w].status = "absent" => kyc'[w] = kyc[w]
                         /\ Complete(kyc[w].papers) => Complete(kyc'[w].papers)
                         /\ kyc'[w].status = "PENDING" => Complete(kyc'[w].papers)
    BY <1>1, <1>6, <1>7 DEF KycInv, KycHasGrounds
  <1>9. KycSlotOK(v)'
    <2>1. ASSUME v.pc = "write"
          PROVE  /\ v.op \in UserOps /\ v.user = u /\ v.read # "VERIFIED" /\ v.op = op
                 /\ v.op = "submit" => Complete(NoPapers)
      BY <1>1, <1>3, <1>5, <2>1 DEF KycAccepts, UserOps
    <2>2. QED BY <1>1, <1>5, <1>6, <2>1 DEF KycSlotOK
  <1>10. /\ verified' \in SUBSET Users /\ audited' \in SUBSET Users /\ announced' \in SUBSET Users
         /\ audited' \subseteq verified' /\ announced' \subseteq audited'
    BY <1>4 DEF KycInv, KycHasGrounds
  <1>11. QED BY <1>4, <1>5, <1>6, <1>8, <1>9, <1>10, KycGoesOn

\* The row after an operation.
LEMMA KycAfterFacts ==
    ASSUME NEW q \in KycSteps, q.op \in UserOps \cup AdminOps,
           NEW row \in [status: KycStatus, papers: Papers], row.status # "absent"
    PROVE  /\ KycAfter(q, row) \in [status: KycStatus, papers: Papers]
           /\ KycAfter(q, row).status # "absent"
           /\ Complete(row.papers) => Complete(KycAfter(q, row).papers)
           /\ KycAfter(q, row).status = "PENDING" =>
                  q.op = "submit" \/ (q.op = "upload" /\ row.status = "PENDING")
  <1> DEFINE merged == [k \in Kinds |-> IF q.papers[k] > 0 THEN q.papers[k] ELSE row.papers[k]]
  <1>1. row.status \in KycStatus /\ row.papers \in Papers /\ q.papers \in Papers
    BY DEF KycSteps
  <1>2. merged \in Papers /\ (Complete(row.papers) => Complete(merged))
    BY <1>1 DEF Papers, Complete
  <1> HIDE DEF merged
  <1>3. CASE q.op \in {"start", "submit", "verify", "reject"}
    <2>1. PICK st \in {"NOT_STARTED", "PENDING", "VERIFIED", "REJECTED"} :
              /\ KycAfter(q, row) = KycRow(st, row.papers)
              /\ st = "PENDING" => q.op = "submit"
      BY <1>3 DEF KycAfter
    <2>2. st \in KycStatus
      BY DEF KycStatus
    <2>3. QED BY <1>1, <2>1, <2>2, KycRowType
  <1>4. CASE q.op = "upload"
    <2>1. KycAfter(q, row) = KycRow(row.status, merged)
      BY <1>4 DEF KycAfter, merged
    <2>2. QED BY <1>1, <1>2, <1>4, <2>1, KycRowType
  <1>5. QED BY <1>3, <1>4 DEF UserOps, AdminOps

\* The update.
LEMMA WriteKycInv ==
    ASSUME KycInv, NEW r \in Requests, WriteKyc(r)
    PROVE  KycInv'
  <1>1. PICK q \in KycSteps : q = kycReq[r]
    BY DEF KycInv
  <1>2. /\ q.pc = "write" /\ q.user \in Users /\ q.op \in UserOps \cup AdminOps
        /\ kyc[q.user].status # "absent"
        /\ q.op = "submit" => Complete(kyc[q.user].papers)
    BY <1>1, KycFields DEF WriteKyc, KycAt, KycSlotOK
  <1>3. PICK u \in Users : u = q.user
    BY <1>2
  <1>4. PICK row \in [status: KycStatus, papers: Papers] : row = KycAfter(q, kyc[u])
    BY <1>2, <1>3, KycAfterFacts DEF KycInv
  <1>5. /\ kyc' = [kyc EXCEPT ![u] = row] /\ audited' = audited /\ announced' = announced
        /\ verified' = IF q.op = "verify" THEN verified \cup {u} ELSE verified
    BY <1>1, <1>3, <1>4 DEF WriteKyc
  <1>6. PICK v \in KycSteps : /\ StartKycReq(r, v)
                              /\ v.pc = "audit" /\ v.op = q.op /\ v.user = u
    <2>1. StartKycReq(r, KycStep("audit", q.op, q.user, q.papers, q.read))
      BY <1>1 DEF WriteKyc, GotoKyc
    <2>2. /\ "audit" \in KycPc /\ q.op \in KycOps /\ q.user \in Users \cup {Nobody}
          /\ q.papers \in Papers /\ q.read \in KycStatus
      BY DEF KycPc, KycSteps
    <2>3. QED BY <1>3, <2>1, <2>2, KycStepType
  <1>7. /\ row.status # "absent" /\ (Complete(kyc[u].papers) => Complete(row.papers))
        /\ row.status = "PENDING" => q.op = "submit" \/ kyc[u].status = "PENDING"
    <2>1. kyc[u] \in [status: KycStatus, papers: Papers]
      BY DEF KycInv
    <2>2. QED BY <1>2, <1>3, <1>4, <2>1, KycAfterFacts
  <1>8. /\ kyc' \in [Users -> [status: KycStatus, papers: Papers]] /\ kyc'[u] = row
        /\ \A w \in Users : w # u => kyc'[w] = kyc[w]
    BY <1>5 DEF KycInv
  <1>9. \A w \in Users : /\ kyc'[w].status = "absent" => kyc'[w] = kyc[w]
                         /\ Complete(kyc[w].papers) => Complete(kyc'[w].papers)
                         /\ kyc'[w].status = "PENDING" => Complete(kyc'[w].papers)
    BY <1>2, <1>3, <1>7, <1>8 DEF KycInv, KycHasGrounds
  <1>10. KycSlotOK(v)'
    BY <1>5, <1>6 DEF KycSlotOK
  <1>11. /\ verified' \in SUBSET Users /\ audited' \in SUBSET Users /\ announced' \in SUBSET Users
         /\ verified \subseteq verified' /\ audited' \subseteq verified' /\ announced' \subseteq audited'
    BY <1>5 DEF KycInv, KycHasGrounds
  <1>12. QED BY <1>5, <1>6, <1>8, <1>9, <1>10, <1>11, KycGoesOn

\* The audit row and the announcement.
LEMMA AuditKycInv ==
    ASSUME KycInv, NEW r \in Requests, AuditKyc(r)
    PROVE  KycInv'
  <1>1. PICK q \in KycSteps : q = kycReq[r] /\ q.pc = "audit" /\ q.user \in Users
    BY KycFields DEF KycInv, AuditKyc, KycAt, KycSlotOK
  <1>2. /\ audited \subseteq Users /\ announced \subseteq Users
        /\ audited \subseteq verified /\ announced \subseteq audited /\ verified \subseteq Users
    BY DEF KycInv, KycHasGrounds
  <1>3. CASE q.op = "verify"
    <2>1. /\ audited' = audited \cup {q.user} /\ kyc' = kyc /\ verified' = verified
          /\ announced' = announced
          /\ StartKycReq(r, KycStep("emit", q.op, q.user, q.papers, q.read))
      BY <1>1, <1>3 DEF AuditKyc, GotoKyc
    <2>2. PICK v \in KycSteps : StartKycReq(r, v) /\ v.pc = "emit" /\ v.user = q.user
      <3>1. /\ "emit" \in KycPc /\ q.op \in KycOps /\ q.user \in Users \cup {Nobody}
            /\ q.papers \in Papers /\ q.read \in KycStatus
        BY DEF KycPc, KycSteps
      <3>2. QED BY <2>1, <3>1, KycStepType
    <2>3. q.user \in verified
      BY <1>1, <1>3, KycFields DEF KycSlotOK
    <2>4. KycSlotOK(v)'
      BY <1>1, <2>1, <2>2 DEF KycSlotOK
    <2>5. QED BY <1>2, <2>1, <2>2, <2>3, <2>4, KycOnlyTrail
  <1>4. CASE q.op # "verify"
    <2>1. /\ audited' = audited /\ kyc' = kyc /\ verified' = verified /\ announced' = announced
          /\ EndKycReq(r)
      BY <1>1, <1>4 DEF AuditKyc
    <2>2. QED BY <1>2, <2>1, KycEnds
  <1>5. QED BY <1>3, <1>4

\* Every operation keeps the invariant.
LEMMA KycNextInv ==
    ASSUME KycInv, [KycNext]_kycVars
    PROVE  KycInv'
  <1>1. CASE UNCHANGED kycVars
    BY <1>1 DEF kycVars, KycInv, KycSlotOK, KycHasGrounds
  <1>2. ASSUME NEW r \in Requests, NEW u \in Users,
               \/ \E papers \in Papers \ {NoPapers} :
                      ReadKyc(r, u, "upload", papers) \/ MissKyc(r, u, "upload", papers)
               \/ \E op \in {"start", "submit"} \cup AdminOps : ReadKyc(r, u, op, NoPapers)
               \/ \E op \in {"start", "submit", "status"} : MissKyc(r, u, op, NoPapers)
        PROVE  KycInv'
    <2>1. "upload" \in UserOps /\ {"start", "submit"} \subseteq UserOps
      BY DEF UserOps
    <2>2. QED BY <1>2, <2>1, NoPapersType, ReadKycInv, MissKycInv
  <1>3. ASSUME NEW r \in Requests, CreateKyc(r) \/ WriteKyc(r) \/ AuditKyc(r)
        PROVE  KycInv'
    BY <1>3, CreateKycInv, WriteKycInv, AuditKycInv
  <1>4. ASSUME NEW r \in Requests, EmitKycVerified(r)
        PROVE  KycInv'
    <2>1. kycReq[r].user \in audited
      BY <1>4, KycFields DEF EmitKycVerified, KycAt, KycSlotOK
    <2>2. announced \subseteq audited /\ audited \subseteq Users
      BY DEF KycInv, KycHasGrounds
    <2>3. QED BY <1>4, <2>1, <2>2, KycEnds DEF EmitKycVerified
  <1>5. ASSUME NEW r \in Requests, FailKyc(r)
        PROVE  KycInv'
    <2>1. announced \subseteq audited /\ announced \subseteq Users
      BY DEF KycInv, KycHasGrounds
    <2>2. QED BY <1>5, <2>1, KycEnds DEF FailKyc, kycTrail
  <1>6. QED BY <1>1, <1>2, <1>3, <1>4, <1>5 DEF KycNext

LEMMA KycInvariance == KycSpec => []KycInv
  <1>1. ASSUME KycInit
        PROVE  KycInv
    <2>1. NoKyc \in [status: KycStatus, papers: Papers] /\ NoKyc.status = "absent"
      BY NoPapersType, KycRowType DEF NoKyc, KycStatus
    <2>2. KycIdle \in KycSteps /\ KycIdle.pc = "idle"
      <3>1. "idle" \in KycPc /\ "status" \in KycOps /\ Nobody \in Users \cup {Nobody} /\ "absent" \in KycStatus
        BY DEF KycPc, KycOps, KycStatus
      <3>2. QED BY <3>1, NoPapersType, KycStepType DEF KycIdle
    <2>3. \A r \in Requests : KycSlotOK(kycReq[r])
      <3>1. \A r \in Requests : kycReq[r] = KycIdle
        BY <1>1 DEF KycInit
      <3>2. QED BY <2>2, <3>1 DEF KycSlotOK
    <2>4. KycHasGrounds
      BY <1>1, <2>1 DEF KycInit, KycHasGrounds
    <2>5. QED BY <1>1, <2>1, <2>2, <2>3, <2>4 DEF KycInit, KycInv
  <1>2. KycInv /\ [KycNext]_kycVars => KycInv'
    BY KycNextInv
  <1>3. QED BY <1>1, <1>2, PTL DEF KycSpec

\* The KYC variables keep their types, and a record that a request will write
\* exists.
THEOREM KycTypes == KycSpec => []KycTypeOK
  <1>1. ASSUME KycInv
        PROVE  KycTypeOK
    <2>1. \A r \in Requests : /\ ~KycAt(r, "idle") => kycReq[r].user \in Users
                              /\ KycAt(r, "write") => kyc[kycReq[r].user] # NoKyc
      BY <1>1 DEF KycInv, KycSlotOK, KycAt, NoKyc, KycRow
    <2>2. QED BY <1>1, <2>1 DEF KycInv, KycTypeOK, KycSteps, KycOps
  <1>2. QED BY <1>1, KycInvariance, PTL

\* For any number of users and requests: no record is under review without its
\* documents, and what is announced was verified and audited.
THEOREM ReviewsHaveGrounds == KycSpec => []KycHasGrounds
  <1>1. KycInv => KycHasGrounds
    BY DEF KycInv
  <1>2. QED BY <1>1, KycInvariance, PTL

\* A verified record changes only by a rejection or by a request that was outrun
\* by the verification; a second verification leaves it as it is.
THEOREM VerifiedIsFinalUnlessOutrun == KycSpec => VerifiedChangesOnlyWhenOutrun
  <1>1. ASSUME KycInv, [KycNext]_kycVars, NEW u \in Users, kyc[u].status = "VERIFIED", kyc'[u] # kyc[u]
        PROVE  \E r \in Requests :
                   KycWrites(r, u) /\ (kycReq[r].op = "reject" \/ kycReq[r].read # "VERIFIED")
    <2>1. PICK r \in Requests : WriteKyc(r) \/ CreateKyc(r)
      BY <1>1 DEF KycNext, kycVars, ReadKyc, MissKyc, AuditKyc, EmitKycVerified, FailKyc
    <2>2. PICK w : kyc' = [kyc EXCEPT ![kycReq[r].user] = w]
      BY <2>1 DEF WriteKyc, CreateKyc
    <2>3. kycReq[r].user = u
      BY <1>1, <2>2 DEF KycInv
    <2>4. ~CreateKyc(r)
      BY <1>1, <2>3 DEF CreateKyc, NoKyc, KycRow
    <2>5. kycReq[r].pc = "write" /\ KycSlotOK(kycReq[r])
      BY <1>1, <2>1, <2>4, KycFields DEF WriteKyc, KycAt
    <2>6. kycReq'[r].pc = "audit"
      <3>1. kycReq' = [kycReq EXCEPT ![r] = KycStep("audit", kycReq[r].op, kycReq[r].user,
                                                    kycReq[r].papers, kycReq[r].read)]
        BY <2>1, <2>4 DEF WriteKyc, GotoKyc, StartKycReq
      <3>2. kycReq'[r] = KycStep("audit", kycReq[r].op, kycReq[r].user, kycReq[r].papers, kycReq[r].read)
        BY <1>1, <3>1 DEF KycInv
      <3>3. QED BY <3>2 DEF KycStep
    <2>7. KycWrites(r, u)
      BY <2>3, <2>5, <2>6 DEF KycWrites, KycAt
    <2>8. kycReq[r].op # "verify"
      <3>1. SUFFICES ASSUME kycReq[r].op = "verify"
                     PROVE  FALSE
        OBVIOUS
      <3>2. kyc'[u] = KycRow("VERIFIED", kyc[u].papers)
        <4>1. kyc' = [kyc EXCEPT ![u] = KycAfter(kycReq[r], kyc[u])]
          BY <2>1, <2>3, <2>4 DEF WriteKyc
        <4>2. kyc'[u] = KycAfter(kycReq[r], kyc[u])
          BY <1>1, <4>1 DEF KycInv
        <4>3. QED BY <3>1, <4>2 DEF KycAfter
      <3>3. kyc[u] = KycRow("VERIFIED", kyc[u].papers)
        <4>1. kyc[u] \in [status: KycStatus, papers: Papers]
          BY <1>1 DEF KycInv
        <4>2. QED BY <1>1, <4>1 DEF KycRow
      <3>4. QED BY <1>1, <3>2, <3>3
    <2>9. kycReq[r].op = "reject" \/ kycReq[r].read # "VERIFIED"
      BY <2>5, <2>8 DEF KycSlotOK, AdminOps
    <2>10. QED BY <2>7, <2>9
  <1>2. KycInv /\ [KycNext]_kycVars =>
            [\A u \in Users :
                 kyc[u].status = "VERIFIED" /\ kyc'[u] # kyc[u] =>
                     \E r \in Requests :
                         KycWrites(r, u) /\ (kycReq[r].op = "reject" \/ kycReq[r].read # "VERIFIED")]_kycVars
    BY <1>1
  <1>3. QED BY <1>2, KycInvariance, PTL DEF KycSpec, VerifiedChangesOnlyWhenOutrun

-----------------------------------------------------------------------------
(* WalletCreation                                                            *)

WalletRows == [user: Users \cup {Nobody}, currency: Currencies \cup {NoCurrency},
               primary: BOOLEAN, by: Makers \cup {"none"}]
WalletSteps == [pc: {"idle", "look", "create"}, row: WalletRows, seen: SUBSET WalletIds]

\* A wallet that will be created primary was looked for in vain.
WalletSlotOK(q) ==
    /\ q.pc # "idle" => q.row.user \in Users /\ q.row.by \in Makers
    /\ q.pc = "create" /\ q.row.primary => q.seen = {}

WalletInv ==
    /\ wallet \in [WalletIds -> WalletRows]
    /\ \A w \in WalletIds : wallet[w] # NoWallet => wallet[w].user \in Users /\ wallet[w].by \in Makers
    /\ overtaken \subseteq Users
    /\ walletReq \in [Requests -> WalletSteps]
    /\ \A r \in Requests : WalletSlotOK(walletReq[r])
    /\ SecondPrimaryNeedsCredit

\* Rows are built from their fields.
LEMMA WalletRowType ==
    ASSUME NEW u \in Users \cup {Nobody}, NEW c \in Currencies \cup {NoCurrency}, NEW b \in BOOLEAN,
           NEW by \in Makers \cup {"none"}
    PROVE  /\ WalletRow(u, c, b, by) \in WalletRows
           /\ WalletRow(u, c, b, by).user = u /\ WalletRow(u, c, b, by).currency = c
           /\ (WalletRow(u, c, b, by).primary <=> b) /\ WalletRow(u, c, b, by).by = by
  BY DEF WalletRow, WalletRows

\* No wallet belongs to nobody, and an id that is free names none.
LEMMA FreeWallet == NoWallet \in WalletRows /\ NoWallet.user = Nobody
  BY DEF NoWallet, WalletRow, WalletRows

LEMMA RivalsAreWallets == ASSUME NEW row PROVE Rivals(row) \subseteq WalletIds
  BY DEF Rivals, InCurrency, PrimariesOf, WalletsOf

\* A request that goes on or ends.
LEMMA WalletGoesOn ==
    ASSUME WalletInv, NEW r \in Requests, NEW v \in WalletSteps, WalletSlotOK(v),
           walletReq' = [walletReq EXCEPT ![r] = v],
           wallet' \in [WalletIds -> WalletRows],
           \A w \in WalletIds : wallet'[w] # NoWallet => wallet'[w].user \in Users /\ wallet'[w].by \in Makers,
           overtaken' \subseteq Users, SecondPrimaryNeedsCredit'
    PROVE  WalletInv'
  <1>1. /\ walletReq' \in [Requests -> WalletSteps] /\ walletReq'[r] = v
        /\ \A s \in Requests : s # r => walletReq'[s] = walletReq[s]
    BY DEF WalletInv
  <1>2. \A s \in Requests : WalletSlotOK(walletReq'[s])
    BY <1>1 DEF WalletInv
  <1>3. QED BY <1>1, <1>2 DEF WalletInv, WalletSlotOK

LEMMA WalletStarts ==
    ASSUME WalletInv, NEW r \in Requests, NEW pc \in {"look", "create"}, NEW u \in Users,
           NEW c \in Currencies \cup {NoCurrency}, NEW b \in BOOLEAN, NEW by \in Makers,
           StartWallet(r, pc, WalletRow(u, c, b, by)),
           pc = "create" /\ b => Rivals(WalletRow(u, c, b, by)) = {},
           wallet' = wallet, overtaken' = overtaken
    PROVE  WalletInv'
  <1> DEFINE row == WalletRow(u, c, b, by)
             v == WalletStep(pc, row, Rivals(row))
  <1>1. row \in WalletRows /\ row.user = u /\ (row.primary <=> b) /\ row.by = by
    BY WalletRowType
  <1>2. walletReq' = [walletReq EXCEPT ![r] = v] /\ (pc = "create" /\ b => Rivals(row) = {})
    BY DEF StartWallet
  <1> HIDE DEF row
  <1>3. v \in WalletSteps /\ v.pc = pc /\ v.row = row /\ v.seen = Rivals(row)
    BY <1>1, RivalsAreWallets DEF WalletStep, WalletSteps
  <1> HIDE DEF v
  <1>4. WalletSlotOK(v)
    BY <1>1, <1>2, <1>3 DEF WalletSlotOK
  <1>5. /\ wallet' \in [WalletIds -> WalletRows] /\ overtaken' \subseteq Users
        /\ \A w \in WalletIds : wallet'[w] # NoWallet => wallet'[w].user \in Users /\ wallet'[w].by \in Makers
    BY DEF WalletInv
  <1>6. SecondPrimaryNeedsCredit'
    BY DEF WalletInv, SecondPrimaryNeedsCredit, PrimariesOf, WalletsOf
  <1>7. QED BY <1>2, <1>3, <1>4, <1>5, <1>6, WalletGoesOn

LEMMA WalletIdleOK == WalletIdle \in WalletSteps /\ WalletSlotOK(WalletIdle) /\ WalletIdle.pc = "idle"
  <1>1. WalletIdle \in WalletSteps /\ WalletIdle.pc = "idle"
    BY FreeWallet DEF WalletIdle, WalletStep, WalletSteps
  <1>2. QED BY <1>1 DEF WalletSlotOK

\* The wallet is created.  If nobody else created one that the look would have
\* seen, the new primary wallet meets only wallets that its look does not see:
\* those of other currencies, if it is a credit's.
LEMMA CreateWalletInv ==
    ASSUME WalletInv, NEW r \in Requests, NEW w \in WalletIds, CreateWallet(r, w)
    PROVE  WalletInv'
  <1>1. PICK row \in WalletRows : row = walletReq[r].row
    BY DEF WalletInv, WalletSteps
  <1>2. /\ row.user \in Users /\ row.by \in Makers
        /\ row.primary => walletReq[r].seen = {}
    BY <1>1 DEF CreateWallet, WalletAt, WalletInv, WalletSlotOK
  <1>3. /\ wallet[w] = NoWallet /\ wallet' = [wallet EXCEPT ![w] = row]
        /\ overtaken' = IF row.primary /\ Rivals(row) # walletReq[r].seen
                        THEN overtaken \cup {row.user} ELSE overtaken
        /\ walletReq' = [walletReq EXCEPT ![r] = WalletIdle]
    BY <1>1 DEF CreateWallet, EndWallet
  <1>4. /\ wallet' \in [WalletIds -> WalletRows] /\ wallet'[w] = row
        /\ \A v \in WalletIds : v # w => wallet'[v] = wallet[v]
    BY <1>3 DEF WalletInv
  <1>5. /\ overtaken' \subseteq Users /\ overtaken \subseteq overtaken'
        /\ row.primary /\ row.user \notin overtaken' => Rivals(row) = {}
    BY <1>2, <1>3 DEF WalletInv
  <1>6. \A v \in WalletIds : wallet'[v] # NoWallet => wallet'[v].user \in Users /\ wallet'[v].by \in Makers
    BY <1>2, <1>4 DEF WalletInv
  <1>7. SecondPrimaryNeedsCredit'
    <2>1. SUFFICES ASSUME NEW u \in Users \ overtaken', NEW v \in WalletIds, NEW x \in WalletIds, v # x,
                          wallet'[v].user = u, wallet'[v].primary, wallet'[x].user = u, wallet'[x].primary
                   PROVE  /\ wallet'[v].currency # wallet'[x].currency
                          /\ "credit" \in {wallet'[v].by, wallet'[x].by}
      BY DEF SecondPrimaryNeedsCredit, PrimariesOf, WalletsOf
    <2>2. ASSUME NEW y \in WalletIds, y # w, row.user = u, row.primary, wallet[y].user = u, wallet[y].primary
          PROVE  row.by = "credit" /\ wallet[y].currency # row.currency
      <3>1. y \in PrimariesOf(row.user)
        BY <2>2 DEF PrimariesOf, WalletsOf
      <3>2. Rivals(row) = {}
        BY <1>5, <2>1, <2>2
      <3>3. QED BY <3>1, <3>2 DEF Rivals, InCurrency
    <2>3. CASE v = w
      BY <1>4, <2>1, <2>2, <2>3
    <2>4. CASE x = w
      BY <1>4, <2>1, <2>2, <2>4
    <2>5. CASE v # w /\ x # w
      <3>1. wallet'[v] = wallet[v] /\ wallet'[x] = wallet[x] /\ u \in Users \ overtaken
        BY <1>4, <1>5, <2>1, <2>5
      <3>2. v \in PrimariesOf(u) /\ x \in PrimariesOf(u)
        BY <2>1, <3>1 DEF PrimariesOf, WalletsOf
      <3>3. QED BY <2>1, <3>1, <3>2 DEF WalletInv, SecondPrimaryNeedsCredit
    <2>6. QED BY <2>3, <2>4, <2>5
  <1>8. QED BY <1>3, <1>4, <1>5, <1>6, <1>7, WalletIdleOK, WalletGoesOn

\* Every operation keeps the invariant.
LEMMA WalletNextInv ==
    ASSUME WalletInv, [WalletNext]_walletVars
    PROVE  WalletInv'
  <1>1. CASE UNCHANGED walletVars
    BY <1>1 DEF walletVars, WalletInv, WalletSlotOK, SecondPrimaryNeedsCredit, PrimariesOf, WalletsOf
  <1>2. ASSUME NEW r \in Requests, NEW u \in Users, NEW c \in Currencies, LinkWallet(r, u, c)
        PROVE  WalletInv'
    <2> DEFINE b == PrimariesOf(u) = {}
    <2>1. StartWallet(r, "create", WalletRow(u, c, b, "link")) /\ wallet' = wallet /\ overtaken' = overtaken
      BY <1>2 DEF LinkWallet
    <2>2. b \in BOOLEAN /\ (b => PrimariesOf(u) = {}) /\ "link" \in Makers
      BY DEF Makers
    <2> HIDE DEF b
    <2>3. b => Rivals(WalletRow(u, c, b, "link")) = {}
      <3>1. WalletRow(u, c, b, "link").by = "link" /\ WalletRow(u, c, b, "link").user = u
        BY <2>2, WalletRowType
      <3>2. QED BY <2>2, <3>1 DEF Rivals
    <2>4. QED BY <2>1, <2>2, <2>3, WalletStarts
  <1>3. ASSUME NEW r \in Requests, NEW u \in Users, NEW c \in Currencies, AddFundsInternal(r, u, c)
        PROVE  WalletInv'
    <2>1. /\ StartWallet(r, "look", WalletRow(u, c, FALSE, "funds")) /\ wallet' = wallet
          /\ overtaken' = overtaken /\ "funds" \in Makers
      BY <1>3 DEF AddFundsInternal, Makers
    <2>2. QED BY <2>1, WalletStarts
  <1>4. ASSUME NEW r \in Requests, NEW u \in Users, NEW c \in Currencies, FindOrCreateWallet(r, u, c)
        PROVE  WalletInv'
    <2>1. /\ StartWallet(r, "create", WalletRow(u, c, TRUE, "credit")) /\ wallet' = wallet
          /\ overtaken' = overtaken /\ InCurrency(PrimariesOf(u), c) = {} /\ "credit" \in Makers
      BY <1>4 DEF FindOrCreateWallet, Makers
    <2>2. Rivals(WalletRow(u, c, TRUE, "credit")) = {}
      <3>1. /\ WalletRow(u, c, TRUE, "credit").by = "credit" /\ WalletRow(u, c, TRUE, "credit").user = u
            /\ WalletRow(u, c, TRUE, "credit").currency = c
        BY DEF WalletRow
      <3>2. QED BY <2>1, <3>1 DEF Rivals
    <2>3. QED BY <2>1, <2>2, WalletStarts
  <1>5. ASSUME NEW r \in Requests, LookForPrimary(r)
        PROVE  WalletInv'
    <2>1. PICK row \in WalletRows : row = walletReq[r].row /\ row.user \in Users
      BY <1>5 DEF LookForPrimary, WalletAt, WalletInv, WalletSteps, WalletSlotOK
    <2>2. PICK u \in Users, c \in Currencies \cup {NoCurrency} : u = row.user /\ c = row.currency
      BY <2>1 DEF WalletRows
    <2> DEFINE b == PrimariesOf(u) = {}
    <2>3. StartWallet(r, "create", WalletRow(u, c, b, "funds")) /\ wallet' = wallet /\ overtaken' = overtaken
      BY <1>5, <2>1, <2>2 DEF LookForPrimary
    <2>4. b \in BOOLEAN /\ (b => PrimariesOf(u) = {}) /\ "funds" \in Makers
      BY DEF Makers
    <2> HIDE DEF b
    <2>5. b => Rivals(WalletRow(u, c, b, "funds")) = {}
      <3>1. WalletRow(u, c, b, "funds").by = "funds" /\ WalletRow(u, c, b, "funds").user = u
        BY <2>4, WalletRowType
      <3>2. QED BY <2>4, <3>1 DEF Rivals
    <2>6. QED BY <2>3, <2>4, <2>5, WalletStarts
  <1>6. ASSUME NEW r \in Requests, NEW w \in WalletIds, CreateWallet(r, w)
        PROVE  WalletInv'
    BY <1>6, CreateWalletInv
  <1>7. ASSUME NEW r \in Requests, FailWallet(r)
        PROVE  WalletInv'
    <2>1. /\ walletReq' = [walletReq EXCEPT ![r] = WalletIdle] /\ wallet' = wallet
          /\ overtaken' = overtaken
      BY <1>7 DEF FailWallet, EndWallet
    <2>2. SecondPrimaryNeedsCredit'
      BY <2>1 DEF WalletInv, SecondPrimaryNeedsCredit, PrimariesOf, WalletsOf
    <2>3. /\ wallet' \in [WalletIds -> WalletRows] /\ overtaken' \subseteq Users
          /\ \A w \in WalletIds : wallet'[w] # NoWallet => wallet'[w].user \in Users /\ wallet'[w].by \in Makers
      BY <2>1 DEF WalletInv
    <2>4. QED BY <2>1, <2>2, <2>3, WalletIdleOK, WalletGoesOn
  <1>8. QED BY <1>1, <1>2, <1>3, <1>4, <1>5, <1>6, <1>7 DEF WalletNext

LEMMA WalletInvariance == WalletSpec => []WalletInv
  <1>1. ASSUME WalletInit
        PROVE  WalletInv
    <2>1. \A r \in Requests : WalletSlotOK(walletReq[r])
      BY <1>1, WalletIdleOK DEF WalletInit
    <2>2. \A u \in Users : PrimariesOf(u) = {}
      BY <1>1, FreeWallet, ServiceAssumption DEF WalletInit, PrimariesOf, WalletsOf
    <2>3. SecondPrimaryNeedsCredit
      BY <2>2 DEF SecondPrimaryNeedsCredit
    <2>4. QED BY <1>1, <2>1, <2>3, FreeWallet, WalletIdleOK DEF WalletInit, WalletInv
  <1>2. WalletInv /\ [WalletNext]_walletVars => WalletInv'
    BY WalletNextInv
  <1>3. QED BY <1>1, <1>2, PTL DEF WalletSpec

\* The wallets' columns keep their types, and every wallet has a user.
THEOREM WalletTypes == WalletSpec => []WalletTypeOK
  <1>1. WalletInv => WalletTypeOK
    BY DEF WalletInv, WalletTypeOK, WalletRows, WalletSteps, WalletSlotOK, WalletAt
  <1>2. QED BY <1>1, WalletInvariance, PTL

\* For any number of users, requests and currencies: a second primary wallet is
\* one of another currency that a credit is behind, or two creations overlapped.
THEOREM PrimaryIsUniqueButForCredits == WalletSpec => []SecondPrimaryNeedsCredit
  <1>1. WalletInv => SecondPrimaryNeedsCredit
    BY DEF WalletInv
  <1>2. QED BY <1>1, WalletInvariance, PTL

-----------------------------------------------------------------------------
(* UserEvents                                                                *)

LoginSteps == [pc: LoginPc, user: Users \cup {Nobody}, isNew: BOOLEAN]

\* An event that is about to be appended is of a user with an account; and it is
\* the user's only one, appended or not, unless the history says why there are more.
EmitOK ==
    /\ \A e \in 1..Len(created) : created[e] \in accounts
    /\ \A r \in Requests : LoginAt(r, "emit") =>
           /\ loginReq[r].user \in accounts
           /\ \/ loginReq[r].user \in repeated
              \/ /\ \A e \in 1..Len(created) : created[e] # loginReq[r].user
                 /\ \A s \in Requests \ {r} :
                        LoginAt(s, "emit") => loginReq[s].user # loginReq[r].user

\* What logins and registrations keep true
LoginInv ==
    /\ accounts \subseteq Users /\ repeated \subseteq Users
    /\ created \in Seq(Users) /\ Len(created) <= MaxEvents
    /\ loginReq \in [Requests -> LoginSteps]
    /\ \A r \in Requests : ~LoginAt(r, "idle") => loginReq[r].user \in Users
    /\ AnnouncedOnce /\ EmitOK

\* Entries at one of the given places
In(places) == {e \in Events : place[e] \in places}
Begun == Places \ {"stored", "handle"}
Done == {"ack", "acked"}

\* What the consumers keep true: the group is past all entries it has handed out,
\* every write belongs to an entry whose handler has begun, and an entry is done
\* with only after the writes.
ConsumerInv ==
    /\ identities \subseteq Users
    /\ group \in Groups /\ groupPos \in {NoGroup} \cup 0..MaxEvents
    /\ place \in [Events -> Places]
    /\ tracked \in Nat /\ newUsers \in Nat /\ notices \in Nat
    /\ \A e \in Events : place[e] # "stored" =>
           e <= Len(created) /\ (groupPos # NoGroup => e <= groupPos)
    /\ group = "identity" => \A e \in In(Done) : created[e] \in identities
    /\ tracked + notices <= Cardinality(In(Begun))
    /\ newUsers + Cardinality(In({"count"})) <= tracked
    /\ group = "analytics" => Cardinality(In(Done)) <= newUsers
    /\ group \in {"notification", "realtime"} => Cardinality(In(Done)) <= notices

\* The slot of a request that goes on.
LEMMA LoginSlot ==
    ASSUME loginReq \in [Requests -> LoginSteps], NEW r \in Requests,
           NEW v \in LoginSteps, StartLogin(r, v)
    PROVE  /\ loginReq' \in [Requests -> LoginSteps] /\ loginReq'[r] = v
           /\ \A s \in Requests : s # r => loginReq'[s] = loginReq[s]
  BY DEF StartLogin

\* A slot is built from its fields.
LEMMA LoginStepType ==
    ASSUME NEW pc \in LoginPc, NEW u \in Users \cup {Nobody}, NEW b \in BOOLEAN
    PROVE  /\ LoginStep(pc, u, b) \in LoginSteps
           /\ LoginStep(pc, u, b).pc = pc /\ LoginStep(pc, u, b).user = u
  BY DEF LoginStep, LoginSteps

\* A request that does not come to append an event keeps the promise.
LEMMA LoginGoesOn ==
    ASSUME LoginInv, NEW r \in Requests, NEW v \in LoginSteps, StartLogin(r, v),
           v.pc # "emit", v.pc # "idle" => v.user \in Users,
           accounts \subseteq accounts', accounts' \subseteq Users,
           UNCHANGED <<created, repeated>>
    PROVE  LoginInv'
  <1>1. /\ loginReq' \in [Requests -> LoginSteps] /\ loginReq'[r] = v
        /\ \A s \in Requests : s # r => loginReq'[s] = loginReq[s]
    BY LoginSlot DEF LoginInv
  <1>2. EmitOK'
    BY <1>1 DEF LoginInv, EmitOK, LoginAt
  <1>3. QED BY <1>1, <1>2 DEF LoginInv, LoginAt, AnnouncedOnce

\* The end of a request, and what a request holds.
LEMMA LoginEnds ==
    ASSUME NEW r \in Requests, EndLogin(r)
    PROVE  /\ LoginIdle \in LoginSteps /\ StartLogin(r, LoginIdle)
           /\ LoginIdle.pc = "idle"
  <1>1. "idle" \in LoginPc /\ Nobody \in Users \cup {Nobody} /\ FALSE \in BOOLEAN
    BY DEF LoginPc
  <1>2. LoginIdle \in LoginSteps /\ LoginIdle.pc = "idle"
    BY <1>1, LoginStepType DEF LoginIdle
  <1>3. QED BY <1>2 DEF EndLogin, StartLogin

\* An upsert of a user who seemed new.
LEMMA UpsertUserInv ==
    ASSUME LoginInv, NEW r \in Requests, UpsertUser(r)
    PROVE  LoginInv'
  <1>1. PICK u \in Users : u = loginReq[r].user
    BY DEF LoginInv, UpsertUser, LoginAt
  <1>2. /\ accounts \subseteq Users /\ repeated \subseteq Users
        /\ accounts' = accounts \cup {u} /\ created' = created
        /\ repeated' = IF loginReq[r].isNew /\ u \in accounts THEN repeated \cup {u} ELSE repeated
    BY <1>1 DEF LoginInv, UpsertUser
  <1>3. CASE loginReq[r].isNew
    <2> DEFINE v == LoginStep("emit", u, TRUE)
    <2>1. v \in LoginSteps /\ v.pc = "emit" /\ v.user = u
      BY <1>1, LoginStepType DEF LoginPc
    <2>2. StartLogin(r, v)
      BY <1>1, <1>3 DEF UpsertUser
    <2> HIDE DEF v
    <2>3. /\ loginReq' \in [Requests -> LoginSteps] /\ loginReq'[r] = v
          /\ \A s \in Requests : s # r => loginReq'[s] = loginReq[s]
      BY <2>1, <2>2, LoginSlot DEF LoginInv
    <2>4. repeated' = IF u \in accounts THEN repeated \cup {u} ELSE repeated
      BY <1>2, <1>3
    <2>5. LoginInv /\ EmitOK
      BY DEF LoginInv
    <2>6. u \notin accounts =>
            /\ \A e \in 1..Len(created) : created[e] # u
            /\ \A s \in Requests : LoginAt(s, "emit") => loginReq[s].user # u
      BY <2>5 DEF EmitOK
    <2>7. EmitOK'
      BY <1>2, <2>1, <2>3, <2>4, <2>5, <2>6 DEF EmitOK, LoginAt
    <2>8. AnnouncedOnce'
      BY <1>2, <2>4 DEF LoginInv, AnnouncedOnce
    <2>9. QED BY <1>2, <2>1, <2>3, <2>4, <2>7, <2>8 DEF LoginInv, LoginAt
  <1>4. CASE ~loginReq[r].isNew
    <2>1. EndLogin(r) /\ repeated' = repeated
      BY <1>1, <1>2, <1>4 DEF UpsertUser
    <2>2. accounts \subseteq accounts' /\ accounts' \subseteq Users
      BY <1>2
    <2>3. PICK v \in LoginSteps : StartLogin(r, v) /\ v.pc = "idle"
      BY <2>1, LoginEnds
    <2>4. QED BY <1>2, <2>1, <2>2, <2>3, LoginGoesOn
  <1>5. QED BY <1>3, <1>4

\* An event is appended, once or twice.
LEMMA EmitInv ==
    ASSUME LoginInv, NEW r \in Requests, EmitUserCreated(r) \/ EmitResent(r)
    PROVE  LoginInv' /\ created' \in Seq(Users) /\ Len(created') = Len(created) + 1
           /\ \A e \in 1..Len(created) : created'[e] = created[e]
  <1>1. PICK u \in Users : u = loginReq[r].user
    BY DEF LoginInv, EmitUserCreated, EmitResent, LoginAt
  <1>2. /\ LoginAt(r, "emit") /\ Len(created) < MaxEvents /\ accounts' = accounts
        /\ created' = Append(created, u)
        /\ created \in Seq(Users) /\ repeated \subseteq Users /\ accounts \subseteq Users
        /\ AnnouncedOnce /\ EmitOK /\ MaxEvents \in Nat
    BY <1>1, UserEventAssumption DEF LoginInv, EmitUserCreated, EmitResent
  <1>3. /\ created' \in Seq(Users) /\ Len(created') = Len(created) + 1 /\ Len(created) \in Nat
        /\ \A e \in 1..Len(created) : created'[e] = created[e]
        /\ created'[Len(created) + 1] = u
    BY <1>2, AppendProperties, LenProperties
  <1>4. Len(created') <= MaxEvents
    BY <1>2, <1>3
  <1>5. u \in accounts
    BY <1>1, <1>2 DEF EmitOK
  <1>6. \A e \in 1..Len(created') : e \in 1..Len(created) \/ e = Len(created) + 1
    BY <1>3
  <1>7. \A e \in 1..Len(created) : created[e] = u => u \in repeated
    BY <1>1, <1>2 DEF EmitOK
  <1>8. repeated \subseteq repeated' /\ repeated' \subseteq Users
    BY <1>1, <1>2 DEF EmitUserCreated, EmitResent
  <1>9. AnnouncedOnce'
    <2>1. ASSUME NEW d \in 1..Len(created'), NEW e \in 1..Len(created'),
                 created'[d] = created'[e], d # e
          PROVE  created'[d] \in repeated'
      <3>1. CASE d \in 1..Len(created) /\ e \in 1..Len(created)
        BY <1>2, <1>3, <1>8, <2>1, <3>1 DEF AnnouncedOnce
      <3>2. CASE d = Len(created) + 1 /\ e \in 1..Len(created)
        BY <1>3, <1>7, <1>8, <2>1, <3>2
      <3>3. CASE e = Len(created) + 1 /\ d \in 1..Len(created)
        BY <1>3, <1>7, <1>8, <2>1, <3>3
      <3>4. QED BY <1>6, <2>1, <3>1, <3>2, <3>3
    <2>2. QED BY <2>1 DEF AnnouncedOnce
  <1>10. /\ loginReq' \in [Requests -> LoginSteps]
         /\ \A s \in Requests : ~LoginAt(s, "idle")' => loginReq'[s].user \in Users
         /\ \A s \in Requests : LoginAt(s, "emit")' =>
                /\ LoginAt(s, "emit") /\ loginReq'[s].user = loginReq[s].user
                /\ loginReq[s].user = u => u \in repeated'
    <2>1. CASE EmitUserCreated(r)
      <3>1. EndLogin(r)
        BY <2>1 DEF EmitUserCreated
      <3>2. PICK v \in LoginSteps : StartLogin(r, v) /\ v.pc = "idle"
        BY <3>1, LoginEnds
      <3>3. /\ loginReq' \in [Requests -> LoginSteps] /\ loginReq'[r] = v
            /\ \A s \in Requests : s # r => loginReq'[s] = loginReq[s]
        BY <3>2, LoginSlot DEF LoginInv
      <3>4. \A s \in Requests \ {r} : LoginAt(s, "emit") /\ loginReq[s].user = u => u \in repeated
        BY <1>1, <1>2 DEF EmitOK
      <3>5. QED BY <1>8, <3>2, <3>3, <3>4 DEF LoginInv, LoginAt
    <2>2. CASE EmitResent(r)
      <3>1. loginReq' = loginReq /\ u \in repeated'
        BY <1>1, <2>2 DEF EmitResent
      <3>2. QED BY <3>1 DEF LoginInv, LoginAt
    <2>3. QED BY <2>1, <2>2
  <1>11. EmitOK'
    <2>1. \A e \in 1..Len(created') : created'[e] \in accounts'
      BY <1>2, <1>3, <1>5, <1>6 DEF EmitOK
    <2>2. ASSUME NEW s \in Requests, LoginAt(s, "emit")'
          PROVE  /\ loginReq'[s].user \in accounts'
                 /\ \/ loginReq'[s].user \in repeated'
                    \/ /\ \A e \in 1..Len(created') : created'[e] # loginReq'[s].user
                       /\ \A q \in Requests \ {s} :
                              LoginAt(q, "emit")' => loginReq'[q].user # loginReq'[s].user
      <3>1. LoginAt(s, "emit") /\ loginReq'[s].user = loginReq[s].user
        BY <1>10, <2>2
      <3>2. CASE loginReq[s].user = u
        BY <1>2, <1>5, <1>10, <2>2, <3>1, <3>2
      <3>3. CASE loginReq[s].user # u
        BY <1>2, <1>3, <1>6, <1>8, <1>10, <3>1, <3>3 DEF EmitOK
      <3>4. QED BY <3>2, <3>3
    <2>3. QED BY <2>1, <2>2 DEF EmitOK
  <1>12. QED BY <1>2, <1>3, <1>4, <1>8, <1>9, <1>10, <1>11 DEF LoginInv

\* The rest of the requests' steps.
LEMMA LoginStepInv ==
    ASSUME LoginInv, NEW r \in Requests,
           \/ \E u \in Users : PiLogin(r, u) \/ Register(r, u) \/ MissIdentity(r, u)
           \/ CreateAccount(r) \/ CreateIdentity(r) \/ FailLogin(r)
    PROVE  LoginInv'
  <1>1. accounts \subseteq Users /\ (~LoginAt(r, "idle") => loginReq[r].user \in Users)
    BY DEF LoginInv
  <1>2. /\ accounts \subseteq accounts' /\ accounts' \subseteq Users
        /\ UNCHANGED <<created, repeated>>
    BY <1>1 DEF PiLogin, Register, MissIdentity, CreateAccount, CreateIdentity, FailLogin, LoginAt
  <1>3. PICK v \in LoginSteps :
          StartLogin(r, v) /\ v.pc # "emit" /\ (v.pc # "idle" => v.user \in Users)
    <2>1. CASE \E u \in Users : PiLogin(r, u) \/ Register(r, u) \/ MissIdentity(r, u)
      <3>1. PICK u \in Users : PiLogin(r, u) \/ Register(r, u) \/ MissIdentity(r, u)
        BY <2>1
      <3> DEFINE b == u \notin accounts
      <3>2. b \in BOOLEAN /\ TRUE \in BOOLEAN /\ FALSE \in BOOLEAN
        OBVIOUS
      <3>3. \/ StartLogin(r, LoginStep("upsert", u, b))
            \/ StartLogin(r, LoginStep("register", u, TRUE))
            \/ StartLogin(r, LoginStep("identity", u, FALSE))
        BY <3>1 DEF PiLogin, Register, MissIdentity
      <3> HIDE DEF b
      <3>4. {"upsert", "register", "identity"} \subseteq LoginPc
        BY DEF LoginPc
      <3>5. /\ LoginStep("upsert", u, b) \in LoginSteps
            /\ LoginStep("upsert", u, b).pc = "upsert" /\ LoginStep("upsert", u, b).user = u
        BY <3>2, <3>4, LoginStepType
      <3>6. /\ LoginStep("register", u, TRUE) \in LoginSteps
            /\ LoginStep("register", u, TRUE).pc = "register"
            /\ LoginStep("register", u, TRUE).user = u
        BY <3>2, <3>4, LoginStepType
      <3>7. /\ LoginStep("identity", u, FALSE) \in LoginSteps
            /\ LoginStep("identity", u, FALSE).pc = "identity"
            /\ LoginStep("identity", u, FALSE).user = u
        BY <3>2, <3>4, LoginStepType
      <3>8. QED BY <3>3, <3>5, <3>6, <3>7
    <2>2. CASE CreateAccount(r) \/ CreateIdentity(r) \/ FailLogin(r)
      <3>1. EndLogin(r)
        BY <2>2 DEF CreateAccount, CreateIdentity, FailLogin
      <3>2. QED BY <3>1, LoginEnds
    <2>3. QED BY <2>1, <2>2
  <1>4. QED BY <1>2, <1>3, LoginGoesOn

\* Steps of a consumer do not touch what the logins keep.
LEMMA LoginStays ==
    ASSUME LoginInv, UNCHANGED loginVars
    PROVE  LoginInv'
  BY DEF LoginInv, loginVars, EmitOK, AnnouncedOnce, LoginAt

-----------------------------------------------------------------------------

\* The entries can be counted.
LEMMA EntriesAreFinite ==
    ASSUME NEW T \in SUBSET Events
    PROVE  /\ IsFiniteSet(T) /\ Cardinality(T) \in Nat
           /\ \A U \in SUBSET T : Cardinality(U) <= Cardinality(T)
  <1>1. IsFiniteSet(Events)
    BY UserEventAssumption, FS_Interval DEF Events
  <1>2. IsFiniteSet(T)
    BY <1>1, FS_Subset
  <1>3. QED BY <1>2, FS_CardinalityType, FS_Subset

\* An entry that moves changes the number of entries at given places by one at most.
LEMMA MoveCounts ==
    ASSUME place \in [Events -> Places], NEW e \in Events, NEW p \in Places, MoveEntry(e, p),
           NEW Q
    PROVE  /\ Cardinality(In(Q)) \in Nat
           /\ In(Q)' = IF p \in Q THEN In(Q) \cup {e} ELSE In(Q) \ {e}
           /\ Cardinality(In(Q)') =
                CASE p \in Q /\ place[e] \notin Q -> Cardinality(In(Q)) + 1
                  [] p \notin Q /\ place[e] \in Q -> Cardinality(In(Q)) - 1
                  [] OTHER -> Cardinality(In(Q))
  <1>1. IsFiniteSet(In(Q)) /\ Cardinality(In(Q)) \in Nat
    <2>1. In(Q) \in SUBSET Events
      BY DEF In
    <2>2. QED BY <2>1, EntriesAreFinite
  <1>2. In(Q)' = IF p \in Q THEN In(Q) \cup {e} ELSE In(Q) \ {e}
    BY DEF In, MoveEntry
  <1>3. e \in In(Q) <=> place[e] \in Q
    BY DEF In
  <1>4. /\ Cardinality(In(Q) \cup {e}) =
             IF e \in In(Q) THEN Cardinality(In(Q)) ELSE Cardinality(In(Q)) + 1
        /\ Cardinality(In(Q) \ {e}) =
             IF e \in In(Q) THEN Cardinality(In(Q)) - 1 ELSE Cardinality(In(Q))
    BY <1>1, FS_AddElement, FS_RemoveElement
  <1>5. QED BY <1>1, <1>2, <1>3, <1>4

\* Requests leave the entries alone.
LEMMA RequestsConsumerInv ==
    ASSUME ConsumerInv, LoginInv, identities \subseteq identities', identities' \subseteq Users,
           UNCHANGED <<tracked, newUsers, notices, consumerVars>>,
           Len(created') \in Nat, Len(created) <= Len(created'),
           \A e \in 1..Len(created) : created'[e] = created[e]
    PROVE  ConsumerInv'
  <1>1. /\ place' = place /\ group' = group /\ groupPos' = groupPos
        /\ tracked' = tracked /\ newUsers' = newUsers /\ notices' = notices
    BY DEF consumerVars
  <1>2. \A Q : In(Q)' = In(Q)
    BY <1>1 DEF In
  <1>3. Len(created) \in Nat /\ Events \subseteq Nat \ {0}
    BY LenProperties, UserEventAssumption DEF LoginInv, Events
  <1>4. \A e \in Events : place[e] # "stored" => e <= Len(created') /\ created'[e] = created[e]
    BY <1>3 DEF ConsumerInv
  <1>5. group = "identity" => \A e \in In(Done) : created'[e] \in identities'
    <2>1. \A e \in In(Done) : e \in Events /\ place[e] # "stored"
      BY DEF In, Done
    <2>2. QED BY <1>4, <2>1 DEF ConsumerInv
  <1>6. QED BY <1>1, <1>2, <1>4, <1>5 DEF ConsumerInv

\* A step of a handler: the writes it counts are those of its entry.
LEMMA HandlerInv ==
    ASSUME ConsumerInv, NEW e \in Events, place[e] \in Running, NEW p \in Begun, MoveEntry(e, p),
           UNCHANGED <<created, group, groupPos>>,
           identities \subseteq identities', identities' \subseteq Users,
           NEW x \in {0, 1}, NEW y \in {0, 1}, NEW z \in {0, 1},
           tracked' = tracked + x, newUsers' = newUsers + y, notices' = notices + z,
           x + z <= 1, x = 1 \/ z = 1 => place[e] = "handle",
           y = 1 => place[e] = "count", p = "count" => x = 1,
           p \in Done /\ place[e] # "ack" =>
               /\ group = "identity" => created[e] \in identities'
               /\ group = "analytics" => y = 1
               /\ group \in {"notification", "realtime"} => z = 1
    PROVE  ConsumerInv'
  <1>1. /\ place \in [Events -> Places] /\ p \in Places /\ p # "stored" /\ place[e] # "stored"
        /\ tracked \in Nat /\ newUsers \in Nat /\ notices \in Nat
    BY DEF ConsumerInv, Begun, Running
  <1>2. /\ place' \in [Events -> Places] /\ place'[e] = p
        /\ \A d \in Events : d # e => place'[d] = place[d]
    BY <1>1 DEF MoveEntry
  <1>3. /\ Cardinality(In(Begun)) \in Nat
        /\ Cardinality(In(Begun)') =
             IF place[e] = "handle" THEN Cardinality(In(Begun)) + 1 ELSE Cardinality(In(Begun))
    <2>1. p \in Begun /\ (place[e] \in Begun <=> place[e] # "handle")
      BY DEF Begun, Running, Places
    <2>2. QED BY <1>1, <2>1, MoveCounts
  <1>4. /\ Cardinality(In({"count"})) \in Nat
        /\ Cardinality(In({"count"})') =
             CASE p = "count" /\ place[e] # "count" -> Cardinality(In({"count"})) + 1
               [] p # "count" /\ place[e] = "count" -> Cardinality(In({"count"})) - 1
               [] OTHER -> Cardinality(In({"count"}))
    <2>1. /\ (p \in {"count"} <=> p = "count")
          /\ (place[e] \in {"count"} <=> place[e] = "count")
      OBVIOUS
    <2>2. QED BY <1>1, <2>1, MoveCounts
  <1>5. /\ Cardinality(In(Done)) \in Nat /\ Cardinality(In(Done)') \in Int
        /\ Cardinality(In(Done)') <= Cardinality(In(Done)) + 1
        /\ ~(p \in Done /\ place[e] # "ack") => Cardinality(In(Done)') <= Cardinality(In(Done))
    <2>1. place[e] \in Done <=> place[e] = "ack"
      BY DEF Done, Running
    <2> HIDE DEF Done
    <2>2. /\ Cardinality(In(Done)) \in Nat
          /\ Cardinality(In(Done)') =
                CASE p \in Done /\ place[e] \notin Done -> Cardinality(In(Done)) + 1
                  [] p \notin Done /\ place[e] \in Done -> Cardinality(In(Done)) - 1
                  [] OTHER -> Cardinality(In(Done))
      BY <1>1, MoveCounts
    <2>3. QED BY <2>1, <2>2
  <1>6. tracked' + notices' <= Cardinality(In(Begun)')
    <2>1. tracked + notices <= Cardinality(In(Begun))
      BY DEF ConsumerInv
    <2>2. QED BY <1>1, <1>3, <2>1
  <1>7. newUsers' + Cardinality(In({"count"})') <= tracked'
    <2>1. newUsers + Cardinality(In({"count"})) <= tracked
      BY DEF ConsumerInv
    <2>2. QED BY <1>1, <1>4, <2>1
  <1>8. group' = "analytics" => Cardinality(In(Done)') <= newUsers'
    <2>1. group = "analytics" => Cardinality(In(Done)) <= newUsers
      BY DEF ConsumerInv
    <2>2. QED BY <1>1, <1>5, <2>1
  <1>9. group' \in {"notification", "realtime"} => Cardinality(In(Done)') <= notices'
    <2>1. group \in {"notification", "realtime"} => Cardinality(In(Done)) <= notices
      BY DEF ConsumerInv
    <2>2. QED BY <1>1, <1>5, <2>1
  <1>10. group' = "identity" => \A d \in In(Done)' : created'[d] \in identities'
    <2>1. ASSUME group = "identity", NEW d \in In(Done)'
          PROVE  created[d] \in identities'
      <3>1. d \in Events /\ place'[d] \in Done
        BY <2>1 DEF In, Done
      <3>2. CASE d \in In(Done)
        BY <2>1, <3>2 DEF ConsumerInv
      <3>3. CASE d \notin In(Done)
        <4>1. d = e /\ p \in Done
          BY <1>2, <3>1, <3>3 DEF In
        <4>2. place[e] # "ack"
          BY <3>1, <3>3, <4>1 DEF In, Done
        <4>3. QED BY <2>1, <4>1, <4>2
      <3>4. QED BY <3>2, <3>3
    <2>2. QED BY <2>1
  <1>11. \A d \in Events : place'[d] # "stored" =>
             d <= Len(created') /\ (groupPos' # NoGroup => d <= groupPos')
    BY <1>1, <1>2 DEF ConsumerInv
  <1>12. tracked' \in Nat /\ newUsers' \in Nat /\ notices' \in Nat
    BY <1>1
  <1>13. QED BY <1>2, <1>6, <1>7, <1>8, <1>9, <1>10, <1>11, <1>12 DEF ConsumerInv, In

\* Every step of a handler is one.
LEMMA ConsumerStepInv ==
    ASSUME ConsumerInv, LoginInv, NEW e \in Events,
           \/ FindUser(e) \/ CreateUser(e) \/ TrackEvent(e) \/ UpdateDailyMetric(e)
           \/ CreateNotice(e) \/ AckEntry(e) \/ LeaveEntry(e)
    PROVE  ConsumerInv'
  <1>1. /\ tracked \in Nat /\ newUsers \in Nat /\ notices \in Nat /\ identities \subseteq Users
        /\ {"create", "count", "ack", "left", "acked"} \subseteq Begun
        /\ {"handle", "create", "count", "ack"} \subseteq Running
        /\ Done = {"ack", "acked"}
        /\ place[e] # "stored" => e \in 1..Len(created)
        /\ created \in Seq(Users)
    BY UserEventAssumption, LenProperties
    DEF ConsumerInv, LoginInv, Begun, Places, Running, Done, Events
  <1>2. CASE FindUser(e)
    <2>1. PICK p \in {"ack", "create"} :
            MoveEntry(e, p) /\ (p = "ack" => created[e] \in identities)
      BY <1>2 DEF FindUser
    <2>2. /\ group = "identity" /\ place[e] = "handle"
          /\ UNCHANGED <<created, group, groupPos, identities, tracked, newUsers, notices>>
      BY <1>2 DEF FindUser, loginVars, effectVars
    <2>3. /\ tracked' = tracked + 0 /\ newUsers' = newUsers + 0 /\ notices' = notices + 0
      BY <1>1, <2>2
    <2>4. p \in Begun /\ place[e] \in Running /\ p # "count"
      BY <1>1, <2>1, <2>2
    <2>5. p \in Done => created[e] \in identities'
      BY <1>1, <2>1, <2>2
    <2>6. QED BY <1>1, <2>1, <2>2, <2>3, <2>4, <2>5, HandlerInv
  <1>3. CASE CreateUser(e)
    <2>1. PICK p \in {"ack", "left"} : MoveEntry(e, p)
      BY <1>3 DEF CreateUser
    <2>2. /\ group = "identity" /\ place[e] = "create"
          /\ identities' = identities \cup {created[e]}
          /\ UNCHANGED <<created, group, groupPos, tracked, newUsers, notices>>
      BY <1>3 DEF CreateUser, loginVars
    <2>3. /\ tracked' = tracked + 0 /\ newUsers' = newUsers + 0 /\ notices' = notices + 0
      BY <1>1, <2>2
    <2>4. p \in Begun /\ place[e] \in Running /\ p # "count"
      BY <1>1, <2>1, <2>2
    <2>5. created[e] \in Users
      BY <1>1, <2>2, ElementOfSeq
    <2>6. identities \subseteq identities' /\ identities' \subseteq Users
      BY <1>1, <2>2, <2>5
    <2>7. QED BY <1>1, <2>1, <2>2, <2>3, <2>4, <2>6, HandlerInv
  <1>4. CASE TrackEvent(e)
    <2>1. PICK p \in {"count", "left"} : MoveEntry(e, p)
      BY <1>4 DEF TrackEvent
    <2>2. /\ group = "analytics" /\ place[e] = "handle" /\ tracked' = tracked + 1
          /\ UNCHANGED <<created, group, groupPos, identities, newUsers, notices>>
      BY <1>4 DEF TrackEvent, loginVars
    <2>3. /\ newUsers' = newUsers + 0 /\ notices' = notices + 0
      BY <1>1, <2>2
    <2>4. p \in Begun /\ place[e] \in Running /\ p \notin Done
      BY <1>1, <2>1, <2>2
    <2>5. QED BY <1>1, <2>1, <2>2, <2>3, <2>4, HandlerInv
  <1>5. CASE UpdateDailyMetric(e)
    <2>1. PICK p \in {"ack", "left"} : MoveEntry(e, p)
      BY <1>5 DEF UpdateDailyMetric
    <2>2. /\ group = "analytics" /\ place[e] = "count" /\ newUsers' = newUsers + 1
          /\ UNCHANGED <<created, group, groupPos, identities, tracked, notices>>
      BY <1>5 DEF UpdateDailyMetric, loginVars
    <2>3. /\ tracked' = tracked + 0 /\ notices' = notices + 0
      BY <1>1, <2>2
    <2>4. p \in Begun /\ place[e] \in Running /\ p # "count"
      BY <1>1, <2>1, <2>2
    <2>5. QED BY <1>1, <2>1, <2>2, <2>3, <2>4, HandlerInv
  <1>6. CASE CreateNotice(e)
    <2>1. PICK p \in {"ack", "left"} : MoveEntry(e, p)
      BY <1>6 DEF CreateNotice
    <2>2. /\ group \in {"notification", "realtime"} /\ place[e] = "handle"
          /\ notices' = notices + 1
          /\ UNCHANGED <<created, group, groupPos, identities, tracked, newUsers>>
      BY <1>6 DEF CreateNotice, loginVars
    <2>3. /\ tracked' = tracked + 0 /\ newUsers' = newUsers + 0
      BY <1>1, <2>2
    <2>4. p \in Begun /\ place[e] \in Running /\ p # "count"
      BY <1>1, <2>1, <2>2
    <2>5. QED BY <1>1, <2>1, <2>2, <2>3, <2>4, HandlerInv
  <1>7. CASE AckEntry(e) \/ LeaveEntry(e)
    <2>1. PICK p \in {"acked", "left"} : MoveEntry(e, p) /\ (p = "acked" => place[e] = "ack")
      BY <1>7 DEF AckEntry, LeaveEntry
    <2>2. /\ place[e] \in Running
          /\ UNCHANGED <<created, group, groupPos, identities, tracked, newUsers, notices>>
      BY <1>1, <1>7 DEF AckEntry, LeaveEntry, loginVars, effectVars
    <2>3. /\ tracked' = tracked + 0 /\ newUsers' = newUsers + 0 /\ notices' = notices + 0
      BY <1>1, <2>2
    <2>4. p \in Begun /\ p # "count" /\ (p \in Done => place[e] = "ack")
      BY <1>1, <2>1
    <2>5. QED BY <1>1, <2>1, <2>2, <2>3, <2>4, HandlerInv
  <1>8. QED BY <1>2, <1>3, <1>4, <1>5, <1>6, <1>7

\* The group is made, lost, or hands out what is behind it.
LEMMA GroupInv ==
    ASSUME ConsumerInv, LoginInv, EnsureGroup \/ GroupLost \/ ReadGroup
    PROVE  ConsumerInv'
  <1>1. /\ UNCHANGED <<created, identities, tracked, newUsers, notices, group>>
        /\ groupPos' \in {NoGroup} \cup 0..MaxEvents
        /\ Len(created) \in Nat /\ Events = 1..MaxEvents
        /\ place \in [Events -> Places]
    <2>1. /\ MaxEvents \in Nat /\ ReadCount \in Nat
          /\ Len(created) \in Nat /\ Len(created) <= MaxEvents
      BY UserEventAssumption, LenProperties DEF LoginInv
    <2>2. groupPos # NoGroup => groupPos \in Nat /\ LastRead \in 0..MaxEvents
      BY <2>1 DEF ConsumerInv, LastRead
    <2>3. QED
      BY <2>1, <2>2 DEF ConsumerInv, Events, EnsureGroup, GroupLost, ReadGroup,
         NoGroup, loginVars, effectVars
  <1>2. CASE EnsureGroup \/ GroupLost
    <2>1. place' = place
      BY <1>2 DEF EnsureGroup, GroupLost
    <2>2. \A Q : In(Q)' = In(Q)
      BY <2>1 DEF In
    <2>3. groupPos' # NoGroup => groupPos' = Len(created)
      BY <1>2 DEF EnsureGroup, GroupLost
    <2>4. QED BY <1>1, <2>1, <2>2, <2>3 DEF ConsumerInv
  <1>3. CASE ReadGroup
    <2>1. PICK p \in {"handle", "left"} : HandOut(NewEvents, p)
      BY <1>3 DEF ReadGroup
    <2>2. /\ groupPos # NoGroup /\ groupPos \in Nat /\ groupPos' = LastRead
          /\ place' = [e \in Events |-> IF e \in NewEvents THEN p ELSE place[e]]
          /\ NewEvents # {} /\ ReadCount \in Nat
      BY <1>3, <2>1, <1>1, UserEventAssumption DEF ReadGroup, HandOut, ConsumerInv
    <2>3. /\ \A e \in NewEvents : e \in Events /\ place[e] = "stored" /\ e <= Len(created)
          /\ \A e \in NewEvents : groupPos < e /\ e <= groupPos'
          /\ groupPos <= groupPos' /\ groupPos' \in Nat
      BY <1>1, <2>2 DEF NewEvents, LastRead, ConsumerInv
    <2>4. /\ In({"count"})' = In({"count"}) /\ In(Done)' = In(Done)
          /\ In(Begun) \subseteq In(Begun)'
      BY <2>2, <2>3 DEF In, Done, Begun, Places
    <2>5. Cardinality(In(Begun)) <= Cardinality(In(Begun)')
          /\ Cardinality(In(Begun)) \in Nat /\ Cardinality(In(Begun)') \in Nat
      <3>1. In(Begun) \in SUBSET Events /\ In(Begun)' \in SUBSET Events
        BY DEF In
      <3>2. QED BY <2>4, <3>1, EntriesAreFinite
    <2>6. tracked' + notices' <= Cardinality(In(Begun)')
      <3>1. tracked \in Nat /\ notices \in Nat /\ tracked + notices <= Cardinality(In(Begun))
        BY DEF ConsumerInv
      <3>2. QED BY <1>1, <2>5, <3>1
    <2>7. \A e \in Events : place'[e] # "stored" => e <= Len(created) /\ e <= groupPos'
      BY <1>1, <2>2, <2>3 DEF ConsumerInv
    <2>8. place' \in [Events -> Places]
      BY <1>1, <2>2 DEF Places
    <2>9. QED BY <1>1, <2>2, <2>4, <2>6, <2>7, <2>8 DEF ConsumerInv
  <1>4. QED BY <1>2, <1>3

\* The requests and the consumer each keep their part.
LEMMA UserNextInv ==
    ASSUME LoginInv, ConsumerInv, [UserNext]_userVars
    PROVE  LoginInv' /\ ConsumerInv'
  <1>0. created \in Seq(Users) /\ Len(created) \in Nat /\ identities \subseteq Users
    BY LenProperties DEF LoginInv, ConsumerInv
  <1>1. CASE \E r \in Requests :
               \/ \E u \in Users : PiLogin(r, u) \/ Register(r, u) \/ MissIdentity(r, u)
               \/ UpsertUser(r) \/ CreateAccount(r) \/ CreateIdentity(r) \/ FailLogin(r)
    <2>1. LoginInv'
      BY <1>1, LoginStepInv, UpsertUserInv
    <2>2. /\ identities \subseteq identities' /\ identities' \subseteq Users /\ created' = created
          /\ UNCHANGED <<tracked, newUsers, notices, consumerVars>>
      BY <1>0, <1>1 DEF PiLogin, Register, MissIdentity, UpsertUser, CreateAccount,
           CreateIdentity, FailLogin, effectVars, LoginInv, LoginAt
    <2>3. QED BY <1>0, <2>1, <2>2, RequestsConsumerInv
  <1>2. CASE \E r \in Requests : EmitUserCreated(r) \/ EmitResent(r)
    <2>1. /\ LoginInv' /\ Len(created') = Len(created) + 1
          /\ \A e \in 1..Len(created) : created'[e] = created[e]
      BY <1>2, EmitInv
    <2>2. UNCHANGED <<identities, tracked, newUsers, notices, consumerVars>>
      BY <1>2 DEF EmitUserCreated, EmitResent, effectVars
    <2>3. Len(created') \in Nat /\ Len(created) <= Len(created')
      BY <1>0, <2>1
    <2>4. QED BY <1>0, <2>1, <2>2, <2>3, RequestsConsumerInv
  <1>3. CASE EnsureGroup \/ GroupLost \/ ReadGroup
    <2>1. UNCHANGED loginVars
      BY <1>3 DEF EnsureGroup, GroupLost, ReadGroup
    <2>2. QED BY <1>3, <2>1, LoginStays, GroupInv
  <1>4. CASE \E e \in Events :
               \/ FindUser(e) \/ CreateUser(e) \/ TrackEvent(e) \/ UpdateDailyMetric(e)
               \/ CreateNotice(e) \/ AckEntry(e) \/ LeaveEntry(e)
    <2>1. UNCHANGED loginVars
      BY <1>4 DEF FindUser, CreateUser, TrackEvent, UpdateDailyMetric, CreateNotice,
           AckEntry, LeaveEntry
    <2>2. QED BY <1>4, <2>1, LoginStays, ConsumerStepInv
  <1>5. CASE UNCHANGED userVars
    <2>1. /\ UNCHANGED loginVars /\ UNCHANGED <<identities, tracked, newUsers, notices, consumerVars>>
          /\ created' = created
      BY <1>5 DEF userVars, loginVars, consumerVars
    <2>2. QED BY <1>0, <2>1, LoginStays, RequestsConsumerInv
  <1>6. QED BY <1>1, <1>2, <1>3, <1>4, <1>5 DEF UserNext

\* At first nothing has happened.
LEMMA UserInitInv == UserInit => LoginInv /\ ConsumerInv
  <1> SUFFICES ASSUME UserInit PROVE LoginInv /\ ConsumerInv
    OBVIOUS
  <1>1. /\ accounts = {} /\ identities = {} /\ created = << >> /\ repeated = {}
        /\ group \in Groups /\ groupPos = NoGroup /\ place = [e \in Events |-> "stored"]
        /\ tracked = 0 /\ newUsers = 0 /\ notices = 0
        /\ loginReq = [r \in Requests |-> LoginIdle]
    BY DEF UserInit
  <1>2. << >> \in Seq(Users) /\ Len(<< >>) = 0 /\ MaxEvents \in Nat
    BY EmptySeq, UserEventAssumption
  <1>3. LoginIdle \in LoginSteps /\ LoginIdle.pc = "idle"
    <2>1. "idle" \in LoginPc /\ Nobody \in Users \cup {Nobody} /\ FALSE \in BOOLEAN
      BY DEF LoginPc
    <2>2. QED BY <2>1, LoginStepType DEF LoginIdle
  <1>4. LoginInv
    BY <1>1, <1>2, <1>3 DEF LoginInv, EmitOK, AnnouncedOnce, LoginAt
  <1>5. In(Done) = {} /\ In(Begun) = {} /\ In({"count"}) = {} /\ Cardinality({}) = 0
    BY <1>1, FS_EmptySet DEF In, Done, Begun
  <1>6. ConsumerInv
    <2>1. /\ identities \subseteq Users /\ group \in Groups
          /\ groupPos \in {NoGroup} \cup 0..MaxEvents
          /\ place \in [Events -> Places] /\ \A e \in Events : place[e] = "stored"
      BY <1>1 DEF Places
    <2>2. /\ tracked \in Nat /\ newUsers \in Nat /\ notices \in Nat
          /\ tracked + notices <= 0 /\ newUsers + 0 <= tracked /\ 0 <= newUsers /\ 0 <= notices
      BY <1>1
    <2>3. QED BY <1>5, <2>1, <2>2 DEF ConsumerInv
  <1>7. QED BY <1>4, <1>6

\* Both parts of the invariant hold in every reachable state.
LEMMA UserInvariance == UserSpec => [](LoginInv /\ ConsumerInv)
  <1>1. (LoginInv /\ ConsumerInv) /\ [UserNext]_userVars => (LoginInv /\ ConsumerInv)'
    BY UserNextInv
  <1>2. QED BY UserInitInv, <1>1, PTL DEF UserSpec

\* The accounts, the stream, the group and the requests always have their types.
THEOREM UserTypes == UserSpec => []UserTypeOK
  <1>1. LoginInv /\ ConsumerInv => UserTypeOK
    BY DEF LoginInv, ConsumerInv, UserTypeOK, LoginSteps
  <1>2. QED BY UserInvariance, <1>1, PTL

\* A user is announced twice only if two first logins overlapped or an XADD was
\* sent twice.
THEOREM UsersAreAnnouncedOnce == UserSpec => []AnnouncedOnce
  <1>1. LoginInv => AnnouncedOnce
    BY DEF LoginInv
  <1>2. QED BY UserInvariance, <1>1, PTL

\* What the consumers have written and what they have acknowledged agree.
THEOREM EffectsFollowEntries == UserSpec => []EffectsMatchEntries
  <1>1. LoginInv /\ ConsumerInv => EffectsMatchEntries
    <2> SUFFICES ASSUME LoginInv, ConsumerInv PROVE EffectsMatchEntries
      OBVIOUS
    <2>1. Acked \in SUBSET In(Done) /\ In(Begun) \in SUBSET HandedOut
      BY DEF Acked, HandedOut, In, Done, Begun
    <2>2. /\ Cardinality(Acked) <= Cardinality(In(Done)) /\ Cardinality(Acked) \in Nat
          /\ Cardinality(In(Done)) \in Nat
          /\ Cardinality(In(Begun)) <= Cardinality(HandedOut)
          /\ Cardinality(In(Begun)) \in Nat /\ Cardinality(HandedOut) \in Nat
          /\ Cardinality(In({"count"})) \in Nat
      <3>1. /\ Acked \in SUBSET Events /\ In(Done) \in SUBSET Events
            /\ In(Begun) \in SUBSET Events /\ HandedOut \in SUBSET Events
            /\ In({"count"}) \in SUBSET Events
        BY DEF Acked, HandedOut, In
      <3>2. QED BY <2>1, <3>1, EntriesAreFinite
    <2>3. /\ tracked \in Nat /\ newUsers \in Nat /\ notices \in Nat
          /\ tracked + notices <= Cardinality(In(Begun))
          /\ newUsers + Cardinality(In({"count"})) <= tracked
          /\ group = "analytics" => Cardinality(In(Done)) <= newUsers
          /\ group \in {"notification", "realtime"} => Cardinality(In(Done)) <= notices
          /\ group = "identity" => \A e \in In(Done) : created[e] \in identities
      BY DEF ConsumerInv
    <2>4. newUsers <= tracked /\ tracked + notices <= Cardinality(HandedOut)
      BY <2>2, <2>3
    <2>5. group = "identity" => \A e \in Acked : created[e] \in identities
      BY <2>1, <2>3
    <2>6. group = "analytics" => Cardinality(Acked) <= newUsers
      BY <2>2, <2>3
    <2>7. group \in {"notification", "realtime"} => Cardinality(Acked) <= notices
      BY <2>2, <2>3
    <2>8. QED BY <2>4, <2>5, <2>6, <2>7 DEF EffectsMatchEntries
  <1>2. QED BY UserInvariance, <1>1, PTL

-----------------------------------------------------------------------------
(* MCServices: the services side by side                                     *)

\* A behaviour of all services is one of each: they share no row.
LEMMA ServicesAreParts ==
    MCSpec => /\ OrderSpec /\ SubSpec /\ MarketSpec /\ KycSpec /\ UserSpec /\ WalletSpec
  <1>1. MCInit => OrderInit /\ SubInit /\ MarketInit /\ KycInit /\ UserInit /\ WalletInit
    BY DEF MCInit
  <1>2. [MCNext]_<<focus, orderVars, subVars, marketVars, kycVars, userVars, walletVars>> =>
            /\ [OrderNext]_orderVars /\ [SubNext]_subVars /\ [MarketNext]_marketVars
            /\ [KycNext]_kycVars /\ [UserNext]_userVars /\ [WalletNext]_walletVars
    BY DEF MCNext, FollowOrders, FollowSubscriptions, FollowMarket, FollowKyc, FollowUsers,
           FollowWallets
  <1>3. QED BY <1>1, <1>2, PTL
        DEF MCSpec, OrderSpec, SubSpec, MarketSpec, KycSpec, UserSpec, WalletSpec

\* Side by side, every service keeps its types.
THEOREM ServicesTypes == MCSpec => []ServicesTypeOK
  <1>1. OrderTypeOK /\ SubTypeOK /\ MarketTypeOK /\ KycTypeOK /\ UserTypeOK /\ WalletTypeOK
            => ServicesTypeOK
    BY DEF ServicesTypeOK
  <1>2. QED BY ServicesAreParts, OrderTypes, SubscriptionTypes, MarketTypes, KycTypes,
               UserTypes, WalletTypes, <1>1, PTL
=============================================================================
