--------------------------- MODULE ServiceRequests ---------------------------
(***************************************************************************)
(* What the modules of the database-backed services share: request slots,  *)
(* users and payment ids.  A service reads rows, decides, and then writes  *)
(* in a later statement or transaction.  PostgreSQL runs them at READ      *)
(* COMMITTED: the read takes no lock, a transaction locks every row it     *)
(* writes until it ends, and nothing it wrote is seen before.  Its writes  *)
(* do not depend on rows it leaves unlocked, so it takes effect at its     *)
(* commit, as one step; a deadlock, a timeout, a lost connection or the    *)
(* end of the process aborts it instead.                                   *)
(***************************************************************************)
EXTENDS Integers, FiniteSets

CONSTANTS
    Requests,   \* request slots: how many requests run at once
    Users,      \* ids of users
    Payments,   \* ids of payments
    Nobody,     \* no user: a column that is null
    NoPayment   \* no payment: a column that is null

ASSUME ServiceAssumption == Nobody \notin Users /\ NoPayment \notin Payments
=============================================================================
