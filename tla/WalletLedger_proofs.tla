------------------------- MODULE WalletLedger_proofs -------------------------
(***************************************************************************)
(* Proofs about WalletLedger for any wallets, amounts and requests.        *)
(***************************************************************************)
EXTENDS WalletLedger, FiniteSetTheorems, TLAPS

\* Storing a record in the slot of one request leaves the others alone.
LEMMA StoreSlot ==
    ASSUME NEW r \in Requests, req \in [Requests -> Request],
           NEW v \in Request, req' = [req EXCEPT ![r] = v]
    PROVE  /\ req' \in [Requests -> Request] /\ req'[r] = v
           /\ \A s \in Requests : s # r => req'[s] = req[s]
  OBVIOUS

\* What Begin leaves behind.
LEMMA BeginSlot ==
    ASSUME req \in [Requests -> Request], NEW r \in Requests, NEW pc \in Pc,
           NEW f \in Wallets \cup {NoWallet}, NEW t \in Wallets \cup {NoWallet},
           NEW a \in Amounts \cup {0}, NEW b \in Int, Begin(r, pc, f, t, a, b)
    PROVE  /\ req' \in [Requests -> Request]
           /\ req'[r].pc = pc /\ req'[r].from = f /\ req'[r].to = t
           /\ req'[r].amount = a /\ req'[r].seen = b
           /\ \A s \in Requests : s # r => req'[s] = req[s]
  <1> DEFINE v == [pc |-> pc, from |-> f, to |-> t, amount |-> a, seen |-> b]
  <1>1. /\ v \in Request /\ v.pc = pc /\ v.from = f /\ v.to = t
        /\ v.amount = a /\ v.seen = b
    BY DEF Request
  <1>2. req' = [req EXCEPT ![r] = v]
    BY DEF Begin
  <1> HIDE DEF v
  <1>3. QED BY <1>1, <1>2, StoreSlot

\* The idle slot is a slot.
LEMMA IdleSlot == Idle \in Request /\ Idle.pc = "idle"
  BY DEF Idle, Request, Pc

\* A request moves whole amounts.
LEMMA ChangeType ==
    ASSUME TypeOK, NEW r \in Requests, NEW w \in Wallets
    PROVE  Change(r, w) \in Int
  <1>1. req[r] \in Request
    BY DEF TypeOK
  <1>2. req[r].amount \in Amounts \cup {0}
    BY <1>1 DEF Request
  <1>3. req[r].amount \in Int
    BY <1>2, LedgerAssumption
  <1>4. QED BY <1>3 DEF Change

\* The reads: the balances stay, and the amount is covered by what was read.
LEMMA ArriveInv ==
    ASSUME IInv, NEW r \in Requests, NEW a \in Amounts, NEW f \in Wallets, NEW t \in Wallets,
           Deposit(r, t, a) \/ Withdraw(r, f, a) \/ Transfer(r, f, t, a)
    PROVE  IInv'
  <1>0. /\ TypeOK /\ BalanceIsLedger /\ CoveredWhenRead /\ req \in [Requests -> Request]
        /\ balance[f] \in Int /\ balance[t] \in Int /\ UNCHANGED <<balance, ledger>>
    BY DEF IInv, TypeOK, Deposit, Withdraw, Transfer
  <1>1. PICK pc \in Pc, x \in Wallets \cup {NoWallet}, y \in Wallets \cup {NoWallet}, b \in Int :
          Begin(r, pc, x, y, a, b) /\ x # y /\ (x # NoWallet => a <= b)
    <2>1. f # NoWallet /\ t # NoWallet /\ {"debit", "credit"} \subseteq Pc
      BY LedgerAssumption DEF Pc
    <2>2. QED BY <1>0, <2>1 DEF Deposit, Withdraw, Transfer
  <1>2. /\ req' \in [Requests -> Request]
        /\ req'[r].from = x /\ req'[r].to = y /\ req'[r].amount = a /\ req'[r].seen = b
        /\ \A s \in Requests : s # r => req'[s] = req[s]
    BY <1>0, <1>1, BeginSlot
  <1>3. QED BY <1>0, <1>1, <1>2 DEF IInv, TypeOK, BalanceIsLedger, CoveredWhenRead, At

\* The updates, before the commit.
LEMMA UpdateInv ==
    ASSUME IInv, NEW r \in Requests, Debit(r) \/ Credit(r)
    PROVE  IInv'
  <1>0. /\ TypeOK /\ BalanceIsLedger /\ CoveredWhenRead /\ req[r] \in Request
        /\ ~At(r, "idle") /\ req \in [Requests -> Request] /\ UNCHANGED <<balance, ledger>>
    BY DEF IInv, TypeOK, Debit, Credit, At
  <1>1. /\ req[r].from \in Wallets \cup {NoWallet} /\ req[r].to \in Wallets \cup {NoWallet}
        /\ req[r].amount \in Amounts \cup {0} /\ req[r].seen \in Int
    BY <1>0 DEF Request
  <1>2. PICK pc \in Pc, x \in Wallets \cup {NoWallet}, y \in Wallets \cup {NoWallet},
             a \in Amounts \cup {0}, b \in Int :
          /\ x = req[r].from /\ y = req[r].to /\ a = req[r].amount /\ b = req[r].seen
          /\ Begin(r, pc, x, y, a, b)
    <2>1. \E pc \in Pc : Goto(r, pc)
      BY DEF Debit, Credit, Pc
    <2>2. QED BY <1>1, <2>1 DEF Goto
  <1>3. /\ req' \in [Requests -> Request]
        /\ req'[r].from = req[r].from /\ req'[r].to = req[r].to
        /\ req'[r].amount = req[r].amount /\ req'[r].seen = req[r].seen
        /\ \A s \in Requests : s # r => req'[s] = req[s]
    <2>1. /\ req' \in [Requests -> Request]
          /\ req'[r].from = x /\ req'[r].to = y /\ req'[r].amount = a /\ req'[r].seen = b
          /\ \A s \in Requests : s # r => req'[s] = req[s]
      <3>1. req \in [Requests -> Request]
        BY <1>0
      <3>2. Begin(r, pc, x, y, a, b)
        BY <1>2
      <3>3. QED BY <3>1, <3>2, BeginSlot
    <2>2. QED BY <1>2, <2>1
  <1>4. QED BY <1>0, <1>3 DEF IInv, TypeOK, BalanceIsLedger, CoveredWhenRead, At

\* The end of a request: commit or rollback.
LEMMA EndInv ==
    ASSUME IInv, NEW r \in Requests, Commit(r) \/ Abort(r)
    PROVE  IInv'
  <1>0. TypeOK /\ BalanceIsLedger /\ CoveredWhenRead
    BY DEF IInv
  <1>1. /\ req' \in [Requests -> Request] /\ req'[r].pc = "idle"
        /\ \A s \in Requests : s # r => req'[s] = req[s]
    BY <1>0, IdleSlot, StoreSlot DEF Commit, Abort, TypeOK
  <1>2. /\ balance' \in [Wallets -> Int] /\ ledger' \in [Wallets -> Int]
        /\ BalanceIsLedger'
    <2>1. CASE Commit(r)
      <3>1. \A w \in Wallets : balance[w] + Change(r, w) \in Int
                               /\ ledger[w] + Change(r, w) \in Int
        BY <1>0, ChangeType DEF TypeOK
      <3>2. QED BY <1>0, <2>1, <3>1 DEF Commit, BalanceIsLedger
    <2>2. CASE Abort(r)
      BY <1>0, <2>2 DEF Abort, TypeOK, BalanceIsLedger
    <2>3. QED BY <2>1, <2>2
  <1>3. QED BY <1>0, <1>1, <1>2 DEF IInv, TypeOK, CoveredWhenRead, At

\* IInv holds in every reachable state.
THEOREM LedgerInvariance == Spec => []IInv
  <1>1. Init => IInv
    BY IdleSlot DEF Init, IInv, TypeOK, BalanceIsLedger, CoveredWhenRead, At
  <1>2. IInv /\ [Next]_vars => IInv'
    <2>1. SUFFICES ASSUME IInv, [Next]_vars
                   PROVE  IInv'
      OBVIOUS
    <2>2. CASE UNCHANGED vars
      BY <2>1, <2>2 DEF vars, IInv, TypeOK, BalanceIsLedger, CoveredWhenRead, At
    <2>3. QED BY <2>1, <2>2, ArriveInv, UpdateInv, EndInv DEF Next
  <1>3. QED BY <1>1, <1>2, PTL DEF Spec

\* The variables always have their types.
THEOREM LedgerTypes == Spec => []TypeOK
  <1>1. IInv => TypeOK
    BY DEF IInv
  <1>2. QED BY LedgerInvariance, <1>1, PTL

\* No update is lost: the transactions of a wallet add up to its balance.
THEOREM NoUpdateIsLost == Spec => []BalanceIsLedger
  <1>1. IInv => BalanceIsLedger
    BY DEF IInv
  <1>2. QED BY LedgerInvariance, <1>1, PTL

\* The largest amount is one.
LEMMA LargestAmountType ==
    LargestAmount \in Nat /\ \A a \in Amounts \cup {0} : a \in Nat /\ a <= LargestAmount
  <1>1. LargestAmount \in Amounts /\ \A b \in Amounts : b <= LargestAmount
    BY LedgerAssumption DEF LargestAmount
  <1>2. QED BY <1>1, LedgerAssumption

\* An overdraft is always the work of a request that was overtaken.
THEOREM OverdraftNeedsOvertaking == Spec => OverdrawnOnlyWhenOvertaken
  <1>1. ASSUME IInv, [Next]_vars, NEW w \in Wallets, Overdraws(w)
        PROVE  \E r \in Requests : Overtaken(r, w)
    <2>1. TypeOK /\ CoveredWhenRead /\ balance[w] \in Int
      BY <1>1 DEF IInv, TypeOK
    <2>2. balance' # balance
      BY <1>1, <2>1 DEF Overdraws
    <2>3. PICK r \in Requests :
            \/ \E v \in Wallets, a \in Amounts : Deposit(r, v, a) \/ Withdraw(r, v, a)
            \/ \E f, t \in Wallets, a \in Amounts : Transfer(r, f, t, a)
            \/ Debit(r) \/ Credit(r) \/ Commit(r) \/ Abort(r)
      BY <1>1, <2>2 DEF Next, vars
    <2>4. Commit(r)
      BY <2>2, <2>3 DEF Deposit, Withdraw, Transfer, Debit, Credit, Abort
    <2>5. balance'[w] = balance[w] + Change(r, w)
      BY <2>4 DEF Commit
    <2>6. req[r] \in Request /\ req[r].from # req[r].to
      BY <2>1, <2>4 DEF TypeOK, Commit, At
    <2>7. req[r].amount \in Amounts \cup {0}
      BY <2>6 DEF Request
    <2>8. req[r].amount \in Nat
      BY <2>7, LargestAmountType
    <2>9. req[r].seen \in Int
      BY <2>6 DEF Request
    <2>10. /\ req[r].amount \in Nat /\ req[r].seen \in Int /\ balance[w] \in Int
          /\ req[r].from # req[r].to
      BY <2>1, <2>6, <2>8, <2>9
    <2>11. req[r].from = w /\ balance[w] < req[r].amount
      BY <1>1, <2>5, <2>10 DEF Overdraws, Change
    <2>12. req[r].amount <= req[r].seen
      BY <2>1, <2>4, <2>11, LedgerAssumption DEF CoveredWhenRead, Commit, At
    <2>13. req'[r] # req[r]
      BY <2>1, <2>4, IdleSlot DEF Commit, TypeOK, At
    <2>14. QED BY <2>4, <2>10, <2>11, <2>12, <2>13 DEF Overtaken, Commit
  <1>2. IInv /\ [Next]_vars =>
          [\A w \in Wallets : Overdraws(w) => \E r \in Requests : Overtaken(r, w)]_vars
    BY <1>1
  <1>3. QED BY LedgerInvariance, <1>2, PTL DEF Spec, OverdrawnOnlyWhenOvertaken

-----------------------------------------------------------------------------
(* How far a wallet can be overdrawn                                         *)

\* Among the requests, those taking from a wallet can be counted.
LEMMA TakingIsFinite ==
    ASSUME NEW T \in SUBSET Requests
    PROVE  /\ IsFiniteSet(T) /\ Cardinality(T) \in Nat /\ Cardinality(Requests) \in Nat
           /\ Cardinality(T) <= Cardinality(Requests) /\ Cardinality(Requests) >= 1
           /\ Cardinality(T) = 0 <=> T = {}
  <1>1. IsFiniteSet(Requests) /\ Requests # {}
    BY LedgerAssumption
  <1>2. IsFiniteSet(T) /\ Cardinality(T) <= Cardinality(Requests)
    BY <1>1, FS_Subset
  <1>3. Cardinality(T) \in Nat /\ Cardinality(Requests) \in Nat
    BY <1>1, <1>2, FS_CardinalityType
  <1>4. (Cardinality(T) = 0 <=> T = {}) /\ Cardinality(Requests) # 0
    BY <1>1, <1>2, FS_EmptySet
  <1>5. QED BY <1>1, <1>2, <1>3, <1>4

\* One request less under way is one largest amount more of slack.
LEMMA SlackSteps ==
    ASSUME NEW k \in Nat, k <= Cardinality(Requests)
    PROVE  /\ Slack(k) \in Nat /\ Slack(1) \in Nat
           /\ k >= 1 => Slack(k - 1) = Slack(k) + LargestAmount
           /\ k >= 1 => Slack(k) <= Slack(1)
  <1> DEFINE n == Cardinality(Requests)
             A == LargestAmount
  <1>1. n \in Nat /\ n >= 1 /\ A \in Nat
    BY TakingIsFinite, LargestAmountType
  <1> HIDE DEF n, A
  <1>2. n - k \in Nat /\ n - 1 \in Nat
    BY <1>1, k <= n DEF n
  <1>3. (n - k) * A \in Nat /\ (n - 1) * A \in Nat
    BY <1>1, <1>2
  <1>4. (n - (k - 1)) * A = (n - k) * A + A
    BY <1>1, <1>2
  <1>5. ASSUME k >= 1 PROVE (n - k) * A <= (n - 1) * A
    <2>1. (n - 1) * A = (n - k) * A + (k - 1) * A
      BY <1>1, <1>2
    <2>2. (k - 1) * A >= 0
      BY <1>1, <1>5
    <2>3. (k - 1) * A \in Int
      BY <1>1
    <2>4. QED BY <1>3, <2>1, <2>2, <2>3
  <1>6. QED BY <1>3, <1>4, <1>5 DEF Slack, n, A

\* The requests of a set, with one more or one fewer.
LEMMA TakingSteps ==
    ASSUME NEW T \in SUBSET Requests, NEW r \in Requests
    PROVE  /\ T \cup {r} \in SUBSET Requests /\ T \ {r} \in SUBSET Requests
           /\ Cardinality(T \ {r}) =
                IF r \in T THEN Cardinality(T) - 1 ELSE Cardinality(T)
  <1>1. IsFiniteSet(T)
    BY TakingIsFinite
  <1>2. QED BY <1>1, FS_RemoveElement

\* The bound on a wallet survives the end of a request: what it took is given
\* back by the slack that opens up.
LEMMA EndShort ==
    ASSUME IInv, NEW r \in Requests, NEW w \in Wallets, ShortByTheOthers(w),
           Taking(w)' = Taking(w) \ {r}, balance'[w] \in Int,
           IF r \in Taking(w) THEN balance'[w] >= balance[w] - req[r].amount
                              ELSE balance'[w] >= balance[w],
           \A s \in Requests : s # r => req'[s] = req[s]
    PROVE  ShortByTheOthers(w)'
  <1>1. /\ balance[w] \in Int /\ LargestAmount \in Nat
        /\ \A s \in Requests : /\ req[s].amount \in Nat
                               /\ req[s].amount <= LargestAmount
    <2>1. \A s \in Requests : req[s].amount \in Amounts \cup {0}
      BY DEF IInv, TypeOK, Request
    <2>2. QED BY <2>1, LargestAmountType DEF IInv, TypeOK
  <1> DEFINE T == Taking(w)
             k == Cardinality(T)
  <1>2. /\ T \in SUBSET Requests /\ k \in Nat /\ k <= Cardinality(Requests)
        /\ (k = 0 <=> T = {})
    <2>1. T \in SUBSET Requests
      BY DEF Taking
    <2>2. QED BY <2>1, TakingIsFinite
  <1>3. /\ Slack(k) \in Nat /\ Slack(1) \in Nat
        /\ k >= 1 => Slack(k - 1) = Slack(k) + LargestAmount
        /\ k >= 1 => Slack(k) <= Slack(1)
    BY <1>2, SlackSteps
  <1>4. /\ Cardinality(T \ {r}) = IF r \in T THEN k - 1 ELSE k
        /\ Cardinality(T \ {r}) \in Nat
        /\ (Cardinality(T \ {r}) = 0 <=> T \ {r} = {})
    <2>1. T \ {r} \in SUBSET Requests
      BY <1>2
    <2>2. QED BY <1>2, <2>1, TakingSteps, TakingIsFinite
  <1>5. /\ \/ k = 0 /\ balance[w] >= -Slack(1)
           \/ \E s \in T : balance[w] - req[s].amount >= -Slack(k)
        /\ \/ Cardinality(T \ {r}) = 0 /\ balance'[w] >= -Slack(1)
           \/ \E s \in T \ {r} :
                balance'[w] - req'[s].amount >= -Slack(Cardinality(T \ {r}))
           => ShortByTheOthers(w)'
    BY DEF ShortByTheOthers, Slack
  <1> HIDE DEF T, k
  <1>6. IF r \in T THEN balance'[w] >= balance[w] - req[r].amount
                   ELSE balance'[w] >= balance[w]
    BY DEF T
  <1>7. CASE r \notin T
    <2>1. Cardinality(T \ {r}) = k /\ T \ {r} = T /\ balance'[w] >= balance[w]
      BY <1>4, <1>6, <1>7
    <2>2. \A s \in T : req'[s].amount = req[s].amount
      BY <1>2, <1>7
    <2>3. \/ k = 0 /\ balance'[w] >= -Slack(1)
          \/ \E s \in T : balance'[w] - req'[s].amount >= -Slack(k)
      <3>1. CASE k = 0 /\ balance[w] >= -Slack(1)
        BY <1>1, <1>3, <2>1, <3>1
      <3>2. CASE \E s \in T : balance[w] - req[s].amount >= -Slack(k)
        <4>1. PICK s \in T : balance[w] - req[s].amount >= -Slack(k)
          BY <3>2
        <4>2. balance'[w] - req'[s].amount >= -Slack(k)
          BY <1>1, <1>2, <1>3, <2>1, <2>2, <4>1
        <4>3. QED BY <4>2
      <3>3. QED BY <1>5, <3>1, <3>2
    <2>4. QED BY <1>5, <2>1, <2>3
  <1>8. CASE r \in T
    <2>1. k >= 1 /\ Cardinality(T \ {r}) = k - 1 /\ Slack(k - 1) = Slack(k) + LargestAmount
      BY <1>2, <1>3, <1>4, <1>8
    <2>2. PICK s \in T : balance[w] - req[s].amount >= -Slack(k)
      BY <1>5, <2>1
    <2>3. CASE T \ {r} = {}
      <3>1. s = r /\ k - 1 = 0
        BY <1>4, <2>1, <2>3
      <3>2. QED BY <1>1, <1>3, <1>4, <1>5, <1>6, <1>8, <2>1, <2>2, <3>1
    <2>4. CASE s # r
      <3>1. s \in T \ {r} /\ req'[s].amount = req[s].amount
        BY <1>2, <2>4
      <3>2. balance'[w] - req[s].amount >= -Slack(k - 1)
        BY <1>1, <1>2, <1>3, <1>6, <1>8, <2>1, <2>2
      <3>3. QED BY <1>5, <2>1, <3>1, <3>2
    <2>5. CASE s = r /\ T \ {r} # {}
      <3>1. PICK q \in T \ {r} : TRUE
        BY <2>5
      <3>2. q \in Requests /\ req'[q].amount = req[q].amount
        BY <1>2, <3>1
      <3>3. balance'[w] - req[q].amount >= -Slack(k - 1)
        BY <1>1, <1>2, <1>3, <1>6, <1>8, <2>1, <2>2, <2>5, <3>2
      <3>4. QED BY <1>5, <2>1, <3>1, <3>2, <3>3
    <2>6. QED BY <2>3, <2>4, <2>5
  <1>9. QED BY <1>7, <1>8

\* A request under way that starts taking from w saw its amount in w.
LEMMA StartTaking ==
    ASSUME IInv, NEW w \in Wallets, NEW r \in Requests, NEW a \in Amounts,
           a <= balance[w], balance' = balance, Taking(w)' = Taking(w) \cup {r},
           req'[r].amount = a
    PROVE  balance'[w] - req'[r].amount >= -Slack(Cardinality(Taking(w)'))
  <1>1. balance[w] \in Int
    BY DEF IInv, TypeOK
  <1>2. a \in Nat
    BY LargestAmountType
  <1> DEFINE k == Cardinality(Taking(w)')
  <1>3. k \in Nat /\ k <= Cardinality(Requests)
    <2>1. Taking(w)' \in SUBSET Requests
      BY DEF Taking
    <2>2. QED BY <2>1, TakingIsFinite
  <1>4. Slack(k) \in Nat
    BY <1>3, SlackSteps
  <1>5. QED BY <1>1, <1>2, <1>4

\* The bound on a wallet does not depend on anything else.
LEMMA SameShort ==
    ASSUME NEW w \in Wallets, ShortByTheOthers(w),
           Taking(w)' = Taking(w), balance' = balance,
           \A s \in Taking(w) : req'[s].amount = req[s].amount
    PROVE  ShortByTheOthers(w)'
  BY DEF ShortByTheOthers, Slack

\* A new request that takes from f is covered by what f holds; the other
\* wallets do not change, and a deposit takes from none.
LEMMA ArriveShort ==
    ASSUME IInv, OverdraftInv, NEW r \in Requests, NEW a \in Amounts,
           NEW f \in Wallets, NEW t \in Wallets,
           Deposit(r, t, a) \/ Withdraw(r, f, a) \/ Transfer(r, f, t, a)
    PROVE  OverdraftInv'
  <1>0. /\ req \in [Requests -> Request] /\ balance[f] \in Int /\ balance[t] \in Int
        /\ At(r, "idle") /\ balance' = balance
    BY DEF IInv, TypeOK, Deposit, Withdraw, Transfer
  <1>1. PICK pc \in Pc \ {"idle"}, x \in {f, NoWallet}, y \in Wallets \cup {NoWallet}, b \in Int :
          Begin(r, pc, x, y, a, b) /\ (x = f => a <= balance[f])
    <2>1. f # NoWallet /\ t # NoWallet /\ {"debit", "credit"} \subseteq Pc
      BY LedgerAssumption DEF Pc
    <2>2. QED BY <1>0, <2>1 DEF Deposit, Withdraw, Transfer
  <1>2. /\ req'[r].pc # "idle" /\ req'[r].from = x /\ req'[r].amount = a
        /\ \A s \in Requests : s # r => req'[s] = req[s]
    <2>1. pc \in Pc /\ x \in Wallets \cup {NoWallet} /\ a \in Amounts \cup {0}
      BY <1>1
    <2>2. Begin(r, pc, x, y, a, b)
      BY <1>1
    <2>3. QED BY <1>0, <1>1, <2>1, <2>2, BeginSlot
  <1>3. r \notin Taking(x)
    BY <1>0 DEF Taking
  <1>4. ASSUME NEW w \in Wallets PROVE ShortByTheOthers(w)'
    <2>1. ShortByTheOthers(w)
      BY DEF OverdraftInv
    <2>2. CASE w # x
      <3>1. Taking(w)' = Taking(w)
        BY <1>0, <1>2, <2>2 DEF Taking, At
      <3>2. \A s \in Taking(w) : req'[s].amount = req[s].amount
        BY <1>0, <1>2 DEF Taking
      <3>3. QED BY <1>0, <2>1, <3>1, <3>2, SameShort
    <2>3. CASE w = x
      <3>0. x = f
        BY <1>1, <2>3, LedgerAssumption
      <3>1. Taking(w)' = Taking(w) \cup {r}
        BY <1>0, <1>2, <2>3 DEF Taking, At
      <3>2. balance'[w] - req'[r].amount >= -Slack(Cardinality(Taking(w)'))
        BY <1>0, <1>1, <1>2, <2>3, <3>0, <3>1, StartTaking
      <3>3. r \in Taking(w)'
        BY <3>1
      <3>4. QED BY <3>2, <3>3 DEF ShortByTheOthers, Slack
    <2>4. QED BY <2>2, <2>3
  <1>5. QED BY <1>4 DEF OverdraftInv

\* An update before the commit changes neither the balance nor what is taken.
LEMMA UpdateShort ==
    ASSUME IInv, OverdraftInv, NEW r \in Requests, Debit(r) \/ Credit(r)
    PROVE  OverdraftInv'
  <1>0. /\ req[r] \in Request /\ req \in [Requests -> Request]
        /\ ~At(r, "idle") /\ balance' = balance
    BY DEF IInv, TypeOK, Debit, Credit, At
  <1>1. PICK pc \in Pc \ {"idle"}, x \in Wallets \cup {NoWallet}, y \in Wallets \cup {NoWallet},
             a \in Amounts \cup {0}, b \in Int :
          /\ x = req[r].from /\ a = req[r].amount
          /\ Begin(r, pc, x, y, a, b)
    <2>1. \E pc \in Pc \ {"idle"} : Goto(r, pc)
      BY DEF Debit, Credit, Pc
    <2>2. QED BY <1>0, <2>1 DEF Goto, Request
  <1>2. /\ req'[r].pc # "idle" /\ req'[r].from = req[r].from
        /\ req'[r].amount = req[r].amount
        /\ \A s \in Requests : s # r => req'[s] = req[s]
    <2>1. /\ req'[r].pc = pc /\ req'[r].from = x /\ req'[r].amount = a
          /\ \A s \in Requests : s # r => req'[s] = req[s]
      <3>1. req \in [Requests -> Request] /\ pc \in Pc
        BY <1>0
      <3>2. Begin(r, pc, x, y, a, b)
        BY <1>1
      <3>3. QED BY <3>1, <3>2, BeginSlot
    <2>2. QED BY <1>1, <2>1
  <1>3. ASSUME NEW w \in Wallets PROVE ShortByTheOthers(w)'
    <2>1. Taking(w)' = Taking(w) /\ \A s \in Taking(w) : req'[s].amount = req[s].amount
      BY <1>0, <1>2 DEF Taking, At
    <2>2. QED BY <1>0, <2>1, SameShort DEF OverdraftInv
  <1>4. QED BY <1>3 DEF OverdraftInv

\* A commit takes what the request was taking, an abort nothing.
LEMMA EndShorts ==
    ASSUME IInv, OverdraftInv, NEW r \in Requests, Commit(r) \/ Abort(r)
    PROVE  OverdraftInv'
  <1>0. TypeOK /\ req[r].from # req[r].to
    BY DEF IInv, TypeOK, Commit, Abort, At
  <1>1. /\ req'[r].pc = "idle" /\ ~At(r, "idle")
        /\ \A s \in Requests : s # r => req'[s] = req[s]
    BY <1>0, IdleSlot, StoreSlot DEF Commit, Abort, TypeOK, At
  <1>2. ASSUME NEW w \in Wallets PROVE ShortByTheOthers(w)'
    <2>1. Taking(w)' = Taking(w) \ {r}
      BY <1>1 DEF Taking, At
    <2>2. req[r].amount \in Nat /\ balance[w] \in Int
      <3>1. req[r].amount \in Amounts \cup {0}
        BY <1>0 DEF TypeOK, Request
      <3>2. QED BY <1>0, <3>1, LargestAmountType DEF TypeOK
    <2>3. r \in Taking(w) <=> req[r].from = w
      BY <1>1 DEF Taking
    <2>4. /\ balance'[w] \in Int
          /\ IF r \in Taking(w) THEN balance'[w] >= balance[w] - req[r].amount
                                ELSE balance'[w] >= balance[w]
      <3>1. CASE Commit(r)
        <4>1. balance'[w] = balance[w] + Change(r, w)
          BY <3>1 DEF Commit
        <4>2. QED BY <1>0, <2>2, <2>3, <4>1 DEF Change
      <3>2. CASE Abort(r)
        BY <2>2, <3>2 DEF Abort
      <3>3. QED BY <3>1, <3>2
    <2>5. ShortByTheOthers(w)
      BY DEF OverdraftInv
    <2>6. QED BY <1>1, <2>1, <2>4, <2>5, EndShort
  <1>3. QED BY <1>2 DEF OverdraftInv

\* The bound on every wallet's debt holds in every reachable state.
THEOREM OverdraftInvariance == Spec => []OverdraftInv
  <1>1. Init => OverdraftInv
    <2>1. ASSUME Init, NEW w \in Wallets PROVE ShortByTheOthers(w)
      <3>1. Taking(w) = {} /\ balance[w] = 0
        BY <2>1 DEF Init, Taking, At, Idle
      <3>2. Cardinality(Taking(w)) = 0
        BY <3>1, FS_EmptySet
      <3>3. Slack(1) \in Nat
        BY SlackSteps, TakingIsFinite
      <3>4. QED BY <3>1, <3>2, <3>3 DEF ShortByTheOthers
    <2>2. QED BY <2>1 DEF OverdraftInv
  <1>2. IInv /\ OverdraftInv /\ [Next]_vars => OverdraftInv'
    <2>1. SUFFICES ASSUME IInv, OverdraftInv, [Next]_vars
                   PROVE  OverdraftInv'
      OBVIOUS
    <2>2. CASE UNCHANGED vars
      BY <2>1, <2>2 DEF vars, OverdraftInv, ShortByTheOthers, Slack, Taking, At
    <2>3. QED BY <2>1, <2>2, ArriveShort, UpdateShort, EndShorts DEF Next
  <1>3. QED BY LedgerInvariance, <1>1, <1>2, PTL DEF Spec

\* Nobody overdraws a wallet by more than the other requests could have taken.
THEOREM OverdraftBound == Spec => []OverdraftIsBounded
  <1>1. IInv /\ OverdraftInv => OverdraftIsBounded
    <2>1. SUFFICES ASSUME IInv, OverdraftInv, NEW w \in Wallets
                   PROVE  balance[w] >= -Slack(1)
      BY DEF OverdraftIsBounded, Slack
    <2>2. /\ balance[w] \in Int
          /\ \A r \in Requests : req[r].amount \in Nat
      <3>1. \A r \in Requests : req[r].amount \in Amounts \cup {0}
        BY <2>1 DEF IInv, TypeOK, Request
      <3>2. QED BY <2>1, <3>1, LargestAmountType DEF IInv, TypeOK
    <2>3. Taking(w) \in SUBSET Requests /\ ShortByTheOthers(w)
      BY <2>1 DEF Taking, OverdraftInv
    <2>4. CASE \E r \in Taking(w) : balance[w] - req[r].amount >= -Slack(Cardinality(Taking(w)))
      <3> DEFINE k == Cardinality(Taking(w))
      <3>1. k \in Nat /\ k <= Cardinality(Requests) /\ k >= 1
        BY <2>3, <2>4, TakingIsFinite
      <3>2. Slack(k) \in Nat /\ Slack(1) \in Nat /\ Slack(k) <= Slack(1)
        BY <3>1, SlackSteps
      <3>3. PICK r \in Taking(w) : balance[w] - req[r].amount >= -Slack(k)
        BY <2>4
      <3> HIDE DEF k
      <3>4. QED BY <2>2, <2>3, <3>2, <3>3
    <2>5. QED BY <2>3, <2>4 DEF ShortByTheOthers
  <1>2. QED BY LedgerInvariance, OverdraftInvariance, <1>1, PTL
=============================================================================
