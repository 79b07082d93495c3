-------------------------- MODULE MCWalletConsumer --------------------------
(* Model values for TLC: instances and payments are interchangeable.         *)
EXTENDS WalletConsumer, TLC

Symmetry == Permutations(Consumers) \cup Permutations(Payments)
=============================================================================
