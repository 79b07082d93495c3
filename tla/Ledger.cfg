\* Two wallets and three requests that move one unit at a time.
CONSTANTS
    Wallets = {w1, w2}
    Requests = {r1, r2, r3}
    Amounts = {1}
    MaxBalance = 1
    NoWallet = NoWallet
SPECIFICATION Spec
SYMMETRY Symmetry
INVARIANTS TypeOK BalanceIsLedger OverdraftIsBounded
PROPERTIES OverdrawnOnlyWhenOvertaken
