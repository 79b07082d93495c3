------------------------- MODULE MCPaymentLifecycle -------------------------
(* Small instances of PaymentLifecycle for TLC. *)
EXTENDS PaymentLifecycle, TLC

\* PaymentRaces has one row that two requests bind to two Pi ids; PaymentSweep has
\* two rows, a 'pi' row and another, that compete for one Pi id.
Symmetry == Permutations(PiIds) \cup Permutations(Requests)
=============================================================================
