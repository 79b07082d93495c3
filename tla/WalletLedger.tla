---------------------------- MODULE WalletLedger ----------------------------
(***************************************************************************)
(* Balances of tec-wallet-service: deposit, withdraw, transfer and         *)
(* addFundsInternal of wallet.controller.ts, running concurrently.  Prisma *)
(* runs their transactions at PostgreSQL's default READ COMMITTED: the     *)
(* read of a balance takes no lock, each UPDATE takes its row's lock until *)
(* the end of the transaction and adds to the committed value, and the     *)
(* rows of the transactions table become visible with the commit.          *)
(***************************************************************************)
EXTENDS Integers, FiniteSets

CONSTANTS
    Wallets,      \* ids of existing wallets
    Requests,     \* request slots: how many requests run at once
    Amounts,      \* amounts a request may move
    MaxBalance,   \* bound: no deposit while a wallet holds more than this
    NoWallet      \* the side a deposit or a withdrawal does not have

ASSUME LedgerAssumption ==
    /\ Amounts \subseteq Nat \ {0}
    /\ \E a \in Amounts : \A b \in Amounts : b <= a    \* a Decimal(20,8) column
    /\ IsFiniteSet(Requests) /\ Requests # {}
    /\ MaxBalance \in Nat
    /\ NoWallet \notin Wallets

VARIABLES
    balance,   \* committed column balance
    ledger,    \* sum of the wallet's committed rows in transactions
    req        \* what each running request is doing

vars == <<balance, ledger, req>>

Pc == {"idle", "debit", "credit", "commit"}
Request == [pc: Pc, from: Wallets \cup {NoWallet}, to: Wallets \cup {NoWallet},
            amount: Amounts \cup {0}, seen: Int]
Idle == [pc |-> "idle", from |-> NoWallet, to |-> NoWallet, amount |-> 0, seen |-> 0]

Init ==
    /\ balance = [w \in Wallets |-> 0]
    /\ ledger = [w \in Wallets |-> 0]
    /\ req = [r \in Requests |-> Idle]

At(r, pc) == req[r].pc = pc
Begin(r, pc, f, t, a, s) ==
    req' = [req EXCEPT ![r] = [pc |-> pc, from |-> f, to |-> t, amount |-> a, seen |-> s]]
Goto(r, pc) == Begin(r, pc, req[r].from, req[r].to, req[r].amount, req[r].seen)

\* The row locks of a transaction: the sender is updated first
Locks(r) ==
    (IF req[r].pc \in {"credit", "commit"} THEN {req[r].from} ELSE {})
        \cup (IF At(r, "commit") THEN {req[r].to} ELSE {})
Unlocked(r, w) == \A s \in Requests \ {r} : w \notin Locks(s)

-----------------------------------------------------------------------------
(* The reads and checks                                                      *)

\* deposit and addFundsInternal: the balance read is used for the audit log only
Deposit(r, w, a) ==
    /\ At(r, "idle")
    /\ \A v \in Wallets : balance[v] <= MaxBalance    \* bound
    /\ Begin(r, "credit", NoWallet, w, a, balance[w])
    /\ UNCHANGED <<balance, ledger>>

\* Fault: INSUFFICIENT_BALANCE is never answered
WithdrawUnchecked(r, w, a) ==
    /\ At(r, "idle") /\ balance[w] > -MaxBalance
    /\ Begin(r, "debit", w, NoWallet, a, balance[w])
    /\ UNCHANGED <<balance, ledger>>

\* INSUFFICIENT_BALANCE unless the balance covers the amount
Withdraw(r, w, a) ==
    /\ At(r, "idle") /\ a <= balance[w]
    /\ Begin(r, "debit", w, NoWallet, a, balance[w])
    /\ UNCHANGED <<balance, ledger>>

\* Fault: INVALID_TRANSFER is forgotten
TransferToSelf(r, f, t, a) ==
    /\ At(r, "idle") /\ a <= balance[f]
    /\ Begin(r, "debit", f, t, a, balance[f])
    /\ UNCHANGED <<balance, ledger>>

Transfer(r, f, t, a) ==
    /\ At(r, "idle") /\ f # t /\ a <= balance[f]
    /\ Begin(r, "debit", f, t, a, balance[f])
    /\ UNCHANGED <<balance, ledger>>

-----------------------------------------------------------------------------
(* The updates and the commit                                                *)

Debit(r) ==
    /\ At(r, "debit") /\ Unlocked(r, req[r].from)
    /\ Goto(r, IF req[r].to = NoWallet THEN "commit" ELSE "credit")
    /\ UNCHANGED <<balance, ledger>>

Credit(r) ==
    /\ At(r, "credit") /\ Unlocked(r, req[r].to)
    /\ Goto(r, "commit")
    /\ UNCHANGED <<balance, ledger>>

\* What request r adds to wallet w
Change(r, w) ==
    (IF w = req[r].to THEN req[r].amount ELSE 0)
        - (IF w = req[r].from THEN req[r].amount ELSE 0)

\* Fault: the new balance is computed from the balance that was read
CommitOverwrites(r) ==
    /\ At(r, "commit")
    /\ balance' = [w \in Wallets |->
           IF w = req[r].from THEN req[r].seen - req[r].amount ELSE balance[w] + Change(r, w)]
    /\ ledger' = [w \in Wallets |-> ledger[w] + Change(r, w)]
    /\ req' = [req EXCEPT ![r] = Idle]

\* increment and decrement: relative to the value the row lock protects
Commit(r) ==
    /\ At(r, "commit")
    /\ balance' = [w \in Wallets |-> balance[w] + Change(r, w)]
    /\ ledger' = [w \in Wallets |-> ledger[w] + Change(r, w)]
    /\ req' = [req EXCEPT ![r] = Idle]

\* An error, a deadlock victim, the transaction timeout or a crash: rolled back
Abort(r) ==
    /\ ~At(r, "idle")
    /\ req' = [req EXCEPT ![r] = Idle]
    /\ UNCHANGED <<balance, ledger>>

-----------------------------------------------------------------------------

Next ==
    \E r \in Requests :
        \/ \E w \in Wallets, a \in Amounts : Deposit(r, w, a) \/ Withdraw(r, w, a)
        \/ \E f, t \in Wallets, a \in Amounts : Transfer(r, f, t, a)
        \/ Debit(r) \/ Credit(r) \/ Commit(r) \/ Abort(r)

Spec == Init /\ [][Next]_vars

-----------------------------------------------------------------------------
(* Properties *)

\* Every variable has its type, and a running request has two different sides.
TypeOK ==
    /\ balance \in [Wallets -> Int]
    /\ ledger \in [Wallets -> Int]
    /\ req \in [Requests -> Request]
    /\ \A r \in Requests : ~At(r, "idle") => req[r].from # req[r].to

\* The transactions of a wallet add up to its balance, although every handler
\* reads the balance without a lock: no update is lost.
BalanceIsLedger == \A w \in Wallets : balance[w] = ledger[w]

\* A balance falls below zero only by a request whose check was overtaken: the
\* wallet no longer held what the request had seen.
Overdraws(w) == balance'[w] < 0 /\ balance'[w] < balance[w]
Overtaken(r, w) ==
    At(r, "commit") /\ req'[r] # req[r] /\ req[r].from = w /\ balance[w] < req[r].seen
OverdrawnOnlyWhenOvertaken ==
    [][\A w \in Wallets : Overdraws(w) => \E r \in Requests : Overtaken(r, w)]_vars

\* Nobody can overdraw a wallet by more than the requests running at the same
\* time could have withdrawn.
LargestAmount == CHOOSE a \in Amounts : \A b \in Amounts : b <= a
OverdraftIsBounded ==
    \A w \in Wallets : balance[w] >= -((Cardinality(Requests) - 1) * LargestAmount)

\* SECURITY.md, Wallet Service: "Double-spend Prevention - concurrent requests
\* handled via DB locks".
NoOverdraft == \A w \in Wallets : balance[w] >= 0

-----------------------------------------------------------------------------
(* The inductive invariant behind the theorems *)

\* A debit in flight was covered by the balance its request read
CoveredWhenRead ==
    \A r \in Requests : At(r, "idle") \/ req[r].from = NoWallet \/ req[r].amount <= req[r].seen

IInv == TypeOK /\ BalanceIsLedger /\ CoveredWhenRead

\* The requests that are taking money out of a wallet.  The more of them are
\* under way, the fewer can already have overdrawn it: the balance after the
\* last one whose check succeeded is short by what the others could take.
Taking(w) == {r \in Requests : ~At(r, "idle") /\ req[r].from = w}
Slack(k) == (Cardinality(Requests) - k) * LargestAmount
ShortByTheOthers(w) ==
    LET k == Cardinality(Taking(w)) IN
        \/ k = 0 /\ balance[w] >= -Slack(1)
        \/ \E r \in Taking(w) : balance[w] - req[r].amount >= -Slack(k)
OverdraftInv == \A w \in Wallets : ShortByTheOthers(w)
=============================================================================
