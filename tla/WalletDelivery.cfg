\* Fairness: pending entries are credited after a restart.
CONSTANTS
    Payments = {p1, p2}
    Consumers = {c1}
    BatchSize = 2
    DrainMax = 1
    GroupMayVanish = FALSE
    MaxLog = 2
SPECIFICATION FairSpec
PROPERTIES AnnouncedIsCredited
