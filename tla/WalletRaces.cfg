\* Two overlapping instances, two payments, one of them announced twice.
CONSTANTS
    Payments = {p1, p2}
    Consumers = {c1, c2}
    BatchSize = 2
    DrainMax = 2
    GroupMayVanish = TRUE
    MaxLog = 3
SPECIFICATION Spec
SYMMETRY Symmetry
INVARIANTS TypeOK NoEntryDropped
PROPERTIES ExactlyOnce
