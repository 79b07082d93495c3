SPECIFICATION MCSpec
CONSTANTS
    Requests = {r1, r2}
    Users = {u1}
    Payments = {p1, p2}
    Nobody = Nobody
    NoPayment = NoPayment
    Products = {q1}
    Orders = {o1, o2}
    Quantities <- MCQuantities
    Stocks <- MCStocks
    MaxDrift = 0
    Traders = {t1, t2}
    Assets = {a1}
    Listings = {l1, l2}
    MaxCopies = 1
    MaxEvents = 3
    ReadCount = 2
    Currencies = {c1, c2}
    WalletIds = {w1, w2, w3}
SYMMETRY Symmetry
INVARIANTS
    ServicesTypeOK
    OneOrderPerPayment
    SettledOnce
    ConsumerFindsNothing
    OnePurchasePerPayment
    OffersMatchAssets
    KycHasGrounds
    AnnouncedOnce
    SecondPrimaryNeedsCredit
    EffectsMatchEntries
PROPERTIES
    StockDriftsOnlyWhenOutrun
    BelowZeroHasCause
    PaidPlanStaysPaid
    RenewedOnlyWhenOutrun
    OwnerLosesOnlyBySale
    VerifiedChangesOnlyWhenOutrun
