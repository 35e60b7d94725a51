SPECIFICATION Spec
CONSTANTS
    Sources = {s1, s2}
    PGNs = {p1, p2}
    MaxPackets = 2
    Headers <- HeadersAll
    Gens = {g1}
    MaxSessions = 2
    SessionTimeout = 0
    CleanupInterval = 1
    MaxTime = 3
    Lossy = TRUE
SYMMETRY Symmetry
INVARIANTS IndexMatchesSessions SessionsBounded PacketsInPlace
PROPERTIES StaleNeverFed
