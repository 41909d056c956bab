\* One week, two days with slots, three items.
SPECIFICATION Spec
CONSTANTS
    Grid <- MCGrid
    PlatformRank <- MCPlatformRank
    Items = {"a", "b", "c"}
    PillarOf <- MCPillarOf
    BodyOf <- MCBodyOf
    ShortBodies = {"tiny"}
    NoBody = "none"
    MaxPerDay = 2
    MaxPerWeek = 3
    MinGap = 18
    Days = 2
INVARIANTS TypeOK CeilingsHold OneDayPerItem SkipsAreJustified EditorsOrder
