SPECIFICATION Spec
CONSTANTS
    Sources = {s1, s2, s3}
    PGNs = {p1, p2}
    MaxPackets = 2
    Headers <- HeadersGood
    Gens = {g1, g2}
    MaxSessions = 2
    SessionTimeout = 1
    CleanupInterval = 1
    MaxTime = 3
    Lossy = FALSE
SYMMETRY Symmetry
INVARIANTS DeliversOneTransfer
