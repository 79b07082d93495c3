\* One request at a time is enough to complete a payment without its event.
CONSTANTS
    Payments = {p1}
    PiPayments = {p1}
    PiIds = {i1}
    Requests = {r1}
    Sweepers = {cron}
    Cron = cron
    Sandbox = FALSE
    PiIdOptional = FALSE
    NoPi = NoPi
    NoPayment = NoPayment
SPECIFICATION Spec
INVARIANTS CompletedIsAnnounced
