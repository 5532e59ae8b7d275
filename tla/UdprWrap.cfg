SPECIFICATION Spec
CONSTANTS
 Mod = 8
 High = 6
 Low = 2
 Span = 2
 WindowSize = 2
 Room = 1
 Hosts = {1, 2}
 Channels = 1
 Slots <- TwoSlots
 Scenarios <- WrapScenario
INVARIANT NothingKeptBack
