SPECIFICATION FairSpec
CONSTANTS
    Infinite = Infinite
    MaxClients = 3
    MaxMemory = 8
    ClientUnits = 2
    Need = 3
    Interval = 2
    MaxArrivals = 4
INVARIANTS
    TaskListSound
    MemoryLedger
    NoDeadTaskAtSockets
PROPERTIES
    
    StarvationEnds
    EveryoneFirst
