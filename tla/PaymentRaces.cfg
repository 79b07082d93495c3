\* One 'pi' payment that two requests fight over, with two Pi ids to bind it to.
CONSTANTS
    Payments = {p1}
    PiPayments = {p1}
    PiIds = {i1, i2}
    Requests = {r1, r2}
    Sweepers = {cron}
    Cron = cron
    Sandbox = FALSE
    PiIdOptional = FALSE
    NoPi = NoPi
    NoPayment = NoPayment
SPECIFICATION Spec
SYMMETRY Symmetry
INVARIANTS TypeOK CompletedIsPaid
PROPERTIES ImplementsContract OnlyStaleWritesLeaveStateMachine
