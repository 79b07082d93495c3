--------------------------- MODULE WalletContract ---------------------------
(***************************************************************************)
(* What tec-wallet-service promises about payment.completed: a payment is  *)
(* credited at most once and only after it was announced, and an event is  *)
(* settled (acknowledged to Redis, never to be seen again) only after its  *)
(* payment was credited.                                                   *)
(***************************************************************************)
EXTENDS Naturals

CONSTANT Payments

VARIABLES
    told,       \* payments with an event on the stream
    credits,    \* how many CREDIT rows the ledger has for each payment
    settled     \* payments with an acknowledged event

contractVars == <<told, credits, settled>>

Init == told = {} /\ credits = [p \in Payments |-> 0] /\ settled = {}

Tell(p) ==
    /\ told' = told \cup {p}
    /\ UNCHANGED <<credits, settled>>

Credit(p) ==
    /\ p \in told /\ credits[p] = 0
    /\ credits' = [credits EXCEPT ![p] = 1]
    /\ UNCHANGED <<told, settled>>

Settle(p) ==
    /\ credits[p] = 1
    /\ settled' = settled \cup {p}
    /\ UNCHANGED <<told, credits>>

Next == \E p \in Payments : Tell(p) \/ Credit(p) \/ Settle(p)

Spec == Init /\ [][Next]_contractVars
=============================================================================
