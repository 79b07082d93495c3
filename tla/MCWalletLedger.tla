--------------------------- MODULE MCWalletLedger ---------------------------
(* Model values for TLC: requests and wallets are interchangeable.           *)
EXTENDS WalletLedger, TLC

Symmetry == Permutations(Requests) \cup Permutations(Wallets)
=============================================================================
