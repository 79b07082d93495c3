\* Two requests on one payment, neither of which needs the Pi Network.
CONSTANTS
    Payments = {p1}
    PiPayments = {}
    PiIds = {i1}
    Requests = {r1, r2}
    Sweepers = {cron}
    Cron = cron
    Sandbox = FALSE
    PiIdOptional = FALSE
    NoPi = NoPi
    NoPayment = NoPayment
SPECIFICATION Spec
PROPERTIES TransitionsAreLegal
