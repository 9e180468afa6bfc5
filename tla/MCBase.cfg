SPECIFICATION BaseSpec
CONSTANTS
    HalfRange = 8
    Durations = {0, 1, 3, 6}
    MaxLate = 7
    e1 = e1
    e2 = e2
    Capacity = 4
    Entry <- MCEntry
INVARIANTS
    RepeatingTimerKeepsRunning
    ReportsExactlyWhenDue
    TailFollowsEntries
PROPERTY
    ImplementsFifo
