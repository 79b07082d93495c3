------------------------------ MODULE KycReview ------------------------------
(***************************************************************************)
(* kyc.service.ts of tec-kyc-service: one record per user, created by the  *)
(* first request that finds none, and moved by users and administrators.   *)
(* Each operation reads the record, decides, updates it by user_id in a    *)
(* later statement, writes an audit row, and a verification is announced   *)
(* on the stream kyc.verified.  The level and the back of the document,    *)
(* which no check asks for, are left out.                                  *)
(***************************************************************************)
EXTENDS ServiceRequests

CONSTANT MaxCopies   \* bound: copies of a document that a user may upload

ASSUME KycAssumption == MaxCopies \in Nat \ {0}

VARIABLES
    kyc,        \* rows of kyc_records, unique by user_id
    verified,   \* history: users a verification was committed for
    audited,    \* users whose verification has an audit row
    announced,  \* users with an entry in the stream kyc.verified
    kycReq      \* what each running request is doing

kycVars == <<kyc, verified, audited, announced, kycReq>>
kycTrail == <<verified, audited, announced>>

\* Documents by kind: the copy that is stored, 0 for none
Kinds == {"front", "selfie"}
Papers == [Kinds -> 0..MaxCopies]
NoPapers == [k \in Kinds |-> 0]

KycStatus == {"absent", "NOT_STARTED", "PENDING", "VERIFIED", "REJECTED"}
KycRow(status, papers) == [status |-> status, papers |-> papers]
NoKyc == KycRow("absent", NoPapers)

UserOps == {"start", "upload", "submit"}
AdminOps == {"verify", "reject"}
KycPc == {"idle", "create", "write", "audit", "emit"}
\* papers: what an upload sends; read: the status the request has read
KycStep(pc, op, user, papers, read) ==
    [pc |-> pc, op |-> op, user |-> user, papers |-> papers, read |-> read]
KycIdle == KycStep("idle", "status", Nobody, NoPapers, "absent")

KycInit ==
    /\ kyc = [u \in Users |-> NoKyc]
    /\ verified = {} /\ audited = {} /\ announced = {}
    /\ kycReq = [r \in Requests |-> KycIdle]

KycAt(r, pc) == kycReq[r].pc = pc
StartKycReq(r, step) == kycReq' = [kycReq EXCEPT ![r] = step]
EndKycReq(r) == kycReq' = [kycReq EXCEPT ![r] = KycIdle]
GotoKyc(r, pc) ==
    LET q == kycReq[r] IN StartKycReq(r, KycStep(pc, q.op, q.user, q.papers, q.read))

-----------------------------------------------------------------------------

Complete(papers) == \A k \in Kinds : papers[k] > 0

\* Fault: submitKyc does not ask for the documents
KycAcceptsBare(op, row) ==
    \/ op \in {"start", "submit"} /\ row.status \in {"NOT_STARTED", "REJECTED"}
    \/ op = "upload" /\ row.status # "VERIFIED"
    \/ op \in AdminOps

\* Fault: only PENDING is refused
KycAcceptsVerified(op, row) ==
    \/ op = "start" /\ row.status # "PENDING"
    \/ op = "submit" /\ row.status # "PENDING" /\ Complete(row.papers)
    \/ op = "upload"
    \/ op \in AdminOps

\* The checks of startKyc, submitKyc and uploadDocuments; verifyKyc and
\* rejectKyc have none
KycAccepts(op, row) ==
    \/ op = "start" /\ row.status \in {"NOT_STARTED", "REJECTED"}
    \/ op = "submit" /\ row.status \in {"NOT_STARTED", "REJECTED"} /\ Complete(row.papers)
    \/ op = "upload" /\ row.status # "VERIFIED"
    \/ op \in AdminOps

\* An operation finds the record and accepts it
ReadKyc(r, u, op, papers) ==
    /\ KycAt(r, "idle")
    /\ kyc[u] # NoKyc /\ KycAccepts(op, kyc[u])
    /\ StartKycReq(r, KycStep("write", op, u, papers, kyc[u].status))
    /\ UNCHANGED <<kyc, kycTrail>>

\* getOrCreate, by a user's operation or by getStatus: no record is found
MissKyc(r, u, op, papers) ==
    /\ KycAt(r, "idle")
    /\ kyc[u] = NoKyc
    /\ StartKycReq(r, KycStep("create", op, u, papers, "NOT_STARTED"))
    /\ UNCHANGED <<kyc, kycTrail>>

\* create, unless the unique index refuses it (FailKyc); the operation goes on
\* with the new record
CreateKyc(r) ==
    /\ KycAt(r, "create")
    /\ LET q == kycReq[r] IN
           /\ kyc[q.user] = NoKyc
           /\ kyc' = [kyc EXCEPT ![q.user] = KycRow("NOT_STARTED", NoPapers)]
           /\ IF KycAccepts(q.op, KycRow("NOT_STARTED", NoPapers)) THEN GotoKyc(r, "write") ELSE EndKycReq(r)
    /\ UNCHANGED kycTrail

\* The row after an operation
KycAfter(q, row) ==
    CASE q.op = "start"  -> KycRow("NOT_STARTED", row.papers)
      [] q.op = "submit" -> KycRow("PENDING", row.papers)
      [] q.op = "verify" -> KycRow("VERIFIED", row.papers)
      [] q.op = "reject" -> KycRow("REJECTED", row.papers)
      [] OTHER -> KycRow(row.status, [k \in Kinds |-> IF q.papers[k] > 0 THEN q.papers[k] ELSE row.papers[k]])

\* The update, by user_id alone
WriteKyc(r) ==
    /\ KycAt(r, "write")
    /\ LET q == kycReq[r] IN
           /\ kyc' = [kyc EXCEPT ![q.user] = KycAfter(q, kyc[q.user])]
           /\ verified' = IF q.op = "verify" THEN verified \cup {q.user} ELSE verified
    /\ GotoKyc(r, "audit")
    /\ UNCHANGED <<audited, announced>>

\* Fault: a verification is announced whether or not its audit row is written
AuditKycEarly(r) ==
    /\ KycAt(r, "audit")
    /\ LET q == kycReq[r] IN
           IF q.op = "verify" THEN GotoKyc(r, "emit") ELSE EndKycReq(r)
    /\ UNCHANGED <<kyc, kycTrail>>

\* createAuditLog
AuditKyc(r) ==
    /\ KycAt(r, "audit")
    /\ LET q == kycReq[r] IN
           IF q.op = "verify"
           THEN audited' = audited \cup {q.user} /\ GotoKyc(r, "emit")
           ELSE audited' = audited /\ EndKycReq(r)
    /\ UNCHANGED <<kyc, verified, announced>>

\* emitKycVerified
EmitKycVerified(r) ==
    /\ KycAt(r, "emit")
    /\ announced' = announced \cup {kycReq[r].user}
    /\ EndKycReq(r)
    /\ UNCHANGED <<kyc, verified, audited>>

\* A statement or the XADD fails (the latter is only logged), or the process
\* ends; what was written stays
FailKyc(r) ==
    /\ ~KycAt(r, "idle")
    /\ EndKycReq(r)
    /\ UNCHANGED <<kyc, kycTrail>>

-----------------------------------------------------------------------------

KycNext ==
    \E r \in Requests :
        \/ \E u \in Users :
            \/ \E papers \in Papers \ {NoPapers} : ReadKyc(r, u, "upload", papers) \/ MissKyc(r, u, "upload", papers)
            \/ \E op \in {"start", "submit"} \cup AdminOps : ReadKyc(r, u, op, NoPapers)
            \/ \E op \in {"start", "submit", "status"} : MissKyc(r, u, op, NoPapers)
        \/ CreateKyc(r) \/ WriteKyc(r) \/ AuditKyc(r) \/ EmitKycVerified(r) \/ FailKyc(r)

KycSpec == KycInit /\ [][KycNext]_kycVars

-----------------------------------------------------------------------------
(* Properties *)

\* Every variable has its type, and a request past the read has a record.
KycTypeOK ==
    /\ kyc \in [Users -> [status: KycStatus, papers: Papers]]
    /\ verified \subseteq Users /\ audited \subseteq Users /\ announced \subseteq Users
    /\ kycReq \in [Requests ->
           [pc: KycPc, op: UserOps \cup AdminOps \cup {"status"}, user: Users \cup {Nobody},
            papers: Papers, read: KycStatus]]
    /\ \A r \in Requests :
           /\ ~KycAt(r, "idle") => kycReq[r].user \in Users
           /\ KycAt(r, "write") => kyc[kycReq[r].user] # NoKyc

\* However uploads, submissions and decisions overlap and whichever statement
\* fails: no record is under review without its documents, although submitKyc
\* looks for them in an earlier read, and others are told only of a verification
\* that was committed and has its audit row.
KycHasGrounds ==
    /\ \A u \in Users : kyc[u].status = "PENDING" => Complete(kyc[u].papers)
    /\ announced \subseteq audited /\ audited \subseteq verified

\* The step in which request r updates the record of u
KycWrites(r, u) == KycAt(r, "write") /\ kycReq'[r].pc = "audit" /\ kycReq[r].user = u

\* A verified record loses its status, or its documents change, only by a
\* rejection or by a request that had read the record before it was verified.
VerifiedChangesOnlyWhenOutrun ==
    [][\A u \in Users :
           kyc[u].status = "VERIFIED" /\ kyc'[u] # kyc[u] =>
               \E r \in Requests :
                   KycWrites(r, u) /\ (kycReq[r].op = "reject" \/ kycReq[r].read # "VERIFIED")]_kycVars
=============================================================================
