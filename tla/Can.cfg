SPECIFICATION MCSpec
CONSTANTS
    Interfaces = {can0, can1}
    FacadeStops = {facade1, facade2}
    BusStops = {bus1}
    Tools = {recorder, injector}
    Emergencies = {emergency1}
    RecordingStops = {stop1, stop2}
    ReplayStops = {replaystop1}
    MaxSessions = 2
    MaxReplays = 2
    Hashes = {h1, h2, h3}
    WindowMs = 2
    MaxCacheSize = 2
    MaxDedupTime = 9
SYMMETRY MCSymmetry
INVARIANTS
    StopLeavesNothingRunning
    StoppedFacadeRefuses
    RecorderQuietAfterStop
    RecordingsKept
PROPERTIES
    DuplicatesAreRepeats
CHECK_DEADLOCK FALSE
