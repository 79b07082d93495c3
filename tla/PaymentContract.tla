-------------------------- MODULE PaymentContract --------------------------
(***************************************************************************)
(* What tec-payment-service promises to the rest of the platform about a   *)
(* payment, whatever its handlers, webhooks and sweeps do concurrently:    *)
(* an approval is recorded before a completion, a completion before the    *)
(* payment.completed event that moves money in the wallet service, and no  *)
(* such fact is ever taken back.                                           *)
(***************************************************************************)

CONSTANTS
    Payments,    \* ids of payments
    Announced    \* the payments whose completion is told to other services

VARIABLES
    approved,    \* payments with a recorded approval
    completed,   \* payments with a recorded completion
    told         \* payments with an event on the stream

contractVars == <<approved, completed, told>>

Init == approved = {} /\ completed = {} /\ told = {}

Approve(p) ==
    /\ approved' = approved \cup {p}
    /\ UNCHANGED <<completed, told>>

Complete(p) ==
    /\ p \in approved
    /\ completed' = completed \cup {p}
    /\ UNCHANGED <<approved, told>>

Tell(p) ==
    /\ p \in completed \cap Announced
    /\ told' = told \cup {p}
    /\ UNCHANGED <<approved, completed>>

Next == \E p \in Payments : Approve(p) \/ Complete(p) \/ Tell(p)

Spec == Init /\ [][Next]_contractVars
=============================================================================
