\* Fairness: the cron sweep closes what is left open.
CONSTANTS
    Payments = {p1, p2}
    PiPayments = {p1}
    PiIds = {i1}
    Requests = {r1}
    Sweepers = {cron}
    Cron = cron
    Sandbox = TRUE
    PiIdOptional = TRUE
    NoPi = NoPi
    NoPayment = NoPayment
SPECIFICATION FairSpec
PROPERTIES StaleIsReconciled
