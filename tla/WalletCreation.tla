--------------------------- MODULE WalletCreation ---------------------------
(***************************************************************************)
(* How tec-wallet-service comes by a wallet: linkWallet and                *)
(* addFundsInternal of wallet.controller.ts and findOrCreateWallet of      *)
(* wallet.service.ts, which credits a payment.  Each looks for a wallet    *)
(* and creates one later; nothing in the schema makes a user's wallets     *)
(* unique.  Balances are in WalletLedger.                                  *)
(***************************************************************************)
EXTENDS ServiceRequests

CONSTANTS
    Currencies,  \* currencies
    WalletIds    \* ids of wallets; bound: a wallet needs a free id

VARIABLES
    wallet,     \* rows of the wallets table
    overtaken,  \* history: users for whom a wallet was created on a stale look
    walletReq   \* what each running request is doing

walletVars == <<wallet, overtaken, walletReq>>

NoCurrency == "none"
\* by: which operation created it
WalletRow(user, currency, primary, by) ==
    [user |-> user, currency |-> currency, primary |-> primary, by |-> by]
NoWallet == WalletRow(Nobody, NoCurrency, FALSE, "none")

Makers == {"link", "funds", "credit"}
\* row: the row to be created; seen: the wallets that would keep it from being primary
WalletStep(pc, row, seen) == [pc |-> pc, row |-> row, seen |-> seen]
WalletIdle == WalletStep("idle", NoWallet, {})

WalletInit ==
    /\ wallet = [w \in WalletIds |-> NoWallet]
    /\ overtaken = {}
    /\ walletReq = [r \in Requests |-> WalletIdle]

WalletsOf(u) == {w \in WalletIds : wallet[w].user = u}
PrimariesOf(u) == {w \in WalletsOf(u) : wallet[w].primary}
InCurrency(ws, c) == {w \in ws : wallet[w].currency = c}

\* The primary wallets an operation looks for before it creates another
Rivals(row) ==
    IF row.by = "credit" THEN InCurrency(PrimariesOf(row.user), row.currency) ELSE PrimariesOf(row.user)

WalletAt(r, pc) == walletReq[r].pc = pc
StartWallet(r, pc, row) == walletReq' = [walletReq EXCEPT ![r] = WalletStep(pc, row, Rivals(row))]
EndWallet(r) == walletReq' = [walletReq EXCEPT ![r] = WalletIdle]

-----------------------------------------------------------------------------

\* linkWallet: the address is unused, and is there a primary wallet?
LinkWallet(r, u, c) ==
    /\ WalletAt(r, "idle")
    /\ StartWallet(r, "create", WalletRow(u, c, PrimariesOf(u) = {}, "link"))
    /\ UNCHANGED <<wallet, overtaken>>

\* addFundsInternal: the user has no wallet of the currency
AddFundsInternal(r, u, c) ==
    /\ WalletAt(r, "idle") /\ InCurrency(WalletsOf(u), c) = {}
    /\ StartWallet(r, "look", WalletRow(u, c, FALSE, "funds"))
    /\ UNCHANGED <<wallet, overtaken>>

\* Fault: a user's wallet of another currency is not looked for
LookForPrimaryInCurrency(r) ==
    /\ WalletAt(r, "look")
    /\ LET q == walletReq[r].row IN
           StartWallet(r, "create", WalletRow(q.user, q.currency,
                                         InCurrency(PrimariesOf(q.user), q.currency) = {}, "funds"))
    /\ UNCHANGED <<wallet, overtaken>>

\* primaryExists
LookForPrimary(r) ==
    /\ WalletAt(r, "look")
    /\ LET q == walletReq[r].row IN
           StartWallet(r, "create", WalletRow(q.user, q.currency, PrimariesOf(q.user) = {}, "funds"))
    /\ UNCHANGED <<wallet, overtaken>>

\* findOrCreateWallet: the user has no primary wallet of the currency
FindOrCreateWallet(r, u, c) ==
    /\ WalletAt(r, "idle") /\ InCurrency(PrimariesOf(u), c) = {}
    /\ StartWallet(r, "create", WalletRow(u, c, TRUE, "credit"))
    /\ UNCHANGED <<wallet, overtaken>>

\* create; findOrCreateWallet's with the commit of the credit
CreateWallet(r, w) ==
    /\ WalletAt(r, "create") /\ wallet[w] = NoWallet
    /\ LET q == walletReq[r].row IN
           /\ wallet' = [wallet EXCEPT ![w] = q]
           /\ overtaken' = IF q.primary /\ Rivals(q) # walletReq[r].seen
                           THEN overtaken \cup {q.user} ELSE overtaken
    /\ EndWallet(r)

\* The unique index on wallet_address, an aborted transaction or the end of the
\* process
FailWallet(r) ==
    /\ ~WalletAt(r, "idle")
    /\ EndWallet(r)
    /\ UNCHANGED <<wallet, overtaken>>

WalletNext ==
    \E r \in Requests :
        \/ \E u \in Users, c \in Currencies :
               LinkWallet(r, u, c) \/ AddFundsInternal(r, u, c) \/ FindOrCreateWallet(r, u, c)
        \/ LookForPrimary(r) \/ (\E w \in WalletIds : CreateWallet(r, w)) \/ FailWallet(r)

WalletSpec == WalletInit /\ [][WalletNext]_walletVars

-----------------------------------------------------------------------------
(* Properties *)

\* Every variable has its type, and every wallet has a user.
WalletTypeOK ==
    /\ wallet \in [WalletIds -> [user: Users \cup {Nobody}, currency: Currencies \cup {NoCurrency},
                                 primary: BOOLEAN, by: Makers \cup {"none"}]]
    /\ \A w \in WalletIds : wallet[w] # NoWallet => wallet[w].user \in Users /\ wallet[w].by \in Makers
    /\ overtaken \subseteq Users
    /\ walletReq \in [Requests ->
           [pc: {"idle", "look", "create"},
            row: [user: Users \cup {Nobody}, currency: Currencies \cup {NoCurrency},
                  primary: BOOLEAN, by: Makers \cup {"none"}],
            seen: SUBSET WalletIds]]
    /\ \A r \in Requests :
           ~WalletAt(r, "idle") => walletReq[r].row.user \in Users /\ walletReq[r].row.by \in Makers

\* A user has two primary wallets only if two creations overlapped, or if they
\* are of different currencies and a credit created one of them: the look of
\* findOrCreateWallet is narrower than that of the other two.
SecondPrimaryNeedsCredit ==
    \A u \in Users \ overtaken : \A v, w \in PrimariesOf(u) :
        v # w => /\ wallet[v].currency # wallet[w].currency
                 /\ "credit" \in {wallet[v].by, wallet[w].by}
=============================================================================
