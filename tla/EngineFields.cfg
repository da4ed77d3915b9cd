SPECIFICATION EngineSpec
CONSTANTS
    Moduli <- MCModuli
    Attempts = {0, 1}
    PrimeOf <- MCPrimeOf
    PrimeSlots = 2
    FieldSlots = 1
    Doubles <- MCDoubles
    DoublesHash <- MCDoublesHash
    Bases <- MCBases
    Orthogonal <- MCOrthogonal
    Shown <- MCShown
    FirstSlots = 2
    Layouts <- MCFrameLayouts
    LayoutHash <- MCFrameHash
    Faults <- MCFrameFaults
    LAYOUT_CACHE = 2
    LAYOUT_BUCKETS = 4
    Source <- MCSource
    Asks <- MCAsks
    K_FAMILY_CACHE = 2
    BASIS_CACHE = 1
    INVERSE_CACHE = 1
    MaxShort = 1
    Points <- MCPoints
    Zero <- MCZero
    Opposite <- MCOpposite
    Images <- MCImages
    Act <- MCAct
    Product <- MCProduct
INVARIANTS
    FieldAnswered
CHECK_DEADLOCK FALSE
