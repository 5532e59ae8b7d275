SPECIFICATION ProtocolsSpec
CONSTANTS
 Mod = 8
 High = 6
 Low = 2
 Span = 2
 WindowSize = 2
 Room = 1
 Hosts = {1, 2}
 Channels = 1
 Slots <- TwoSlots
 Scenarios <- AllScenarios
 t1 = t1
 t2 = t2
 a = a
 b = b
 Threads = {t1, t2}
 Keys = {a, b}
 NamesOf <- Mixed
 FileLocks = TRUE
 TimeLimits = TRUE
 LongHeld = TRUE
 Throws = TRUE
 MaxLocks = 3
INVARIANTS
 TypeOK
 ReliableInOrder
 UnreliableInOrder
 AcknowledgedIsThere
 NothingKeptBack
 EventsInOrder
 RemovedUponRelease
CHECK_DEADLOCK FALSE
