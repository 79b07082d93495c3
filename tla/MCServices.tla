------------------------------ MODULE MCServices ------------------------------
(***************************************************************************)
(* The database-backed services side by side.  They have databases of      *)
(* their own and share no row, so their steps are independent, and a       *)
(* behaviour follows one service, chosen at the start, while the others    *)
(* stay as they are.                                                       *)
(***************************************************************************)
EXTENDS CommerceOrders, Subscriptions, AssetMarketplace, KycReview, UserEvents, WalletCreation, TLC

VARIABLE focus   \* the service that is followed

Services == {"orders", "subscriptions", "market", "kyc", "users", "wallets"}

MCInit ==
    /\ focus \in Services
    /\ OrderInit /\ SubInit /\ MarketInit /\ KycInit /\ UserInit /\ WalletInit
    /\ focus # "users" => group = "identity"

FollowOrders ==
    focus = "orders" /\ OrderNext /\ UNCHANGED <<focus, subVars, marketVars, kycVars, userVars, walletVars>>
FollowSubscriptions ==
    focus = "subscriptions" /\ SubNext /\ UNCHANGED <<focus, orderVars, marketVars, kycVars, userVars, walletVars>>
FollowMarket ==
    focus = "market" /\ MarketNext /\ UNCHANGED <<focus, orderVars, subVars, kycVars, userVars, walletVars>>
FollowKyc ==
    focus = "kyc" /\ KycNext /\ UNCHANGED <<focus, orderVars, subVars, marketVars, userVars, walletVars>>
FollowUsers ==
    focus = "users" /\ UserNext /\ UNCHANGED <<focus, orderVars, subVars, marketVars, kycVars, walletVars>>
FollowWallets ==
    focus = "wallets" /\ WalletNext /\ UNCHANGED <<focus, orderVars, subVars, marketVars, kycVars, userVars>>

MCNext ==
    FollowOrders \/ FollowSubscriptions \/ FollowMarket \/ FollowKyc \/ FollowUsers \/ FollowWallets

MCSpec == MCInit /\ [][MCNext]_<<focus, orderVars, subVars, marketVars, kycVars, userVars, walletVars>>

\* Every variable of every service has its type, and what a running request
\* holds names rows that exist.
ServicesTypeOK == OrderTypeOK /\ SubTypeOK /\ MarketTypeOK /\ KycTypeOK /\ UserTypeOK /\ WalletTypeOK

\* What clients send as quantities, and sellers as stocks
MCQuantities == {-1, 1}
MCStocks == -1..1

Symmetry ==
    Permutations(Requests) \cup Permutations(Traders) \cup Permutations(Payments)
        \cup Permutations(Orders)
=============================================================================
