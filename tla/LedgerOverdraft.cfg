\* Two withdrawals of what the wallet holds once.
CONSTANTS
    Wallets = {w1, w2}
    Requests = {r1, r2}
    Amounts = {1}
    MaxBalance = 1
    NoWallet = NoWallet
SPECIFICATION Spec
INVARIANTS NoOverdraft
