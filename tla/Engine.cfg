SPECIFICATION ProcessSpec
CONSTANTS
    Moduli <- MCModuli
    Attempts = {0, 1}
    PrimeOf <- MCPrimeOf
    PrimeSlots = 2
    FieldSlots = 2
    Doubles <- MCDoubles
    DoublesHash <- MCDoublesHash
    Bases <- MCBases
    Orthogonal <- MCOrthogonal
    Shown <- MCShown
    FirstSlots = 2
    Layouts <- MCFrameLayouts
    LayoutHash <- MCFrameHash
    Faults <- MCFrameFaults
    LAYOUT_CACHE = 2
    LAYOUT_BUCKETS = 4
    Source <- MCSource
    Asks <- MCAsks
    K_FAMILY_CACHE = 2
    BASIS_CACHE = 1
    INVERSE_CACHE = 1
    MaxShort = 1
    Points <- MCPoints
    Zero <- MCZero
    Opposite <- MCOpposite
    Images <- MCImages
    Act <- MCAct
    Product <- MCProduct
    Inputs <- MCInputs
    Atoms <- MCAtoms
    Catalog <- MCCatalog
    MAX_SLOTS = 2
    Couples <- MCCouples
    PointOps <- MCPointOps
    Fractions <- MCFractions
    PointProduct <- MCPointProduct
    Moves <- MCMoves
    SlotRows <- MCSlotRows
    InSourceOrder <- MCInSourceOrder
    Unnamed <- MCUnnamed
    RowLimits = {0, 1, 4}
    MaxCoupled = 2
    KDen = 12
    Stars <- MCStars
    SgRotations <- MCSgRotations
    LatticeRotations <- MCLatticeRotations
    SettingMatrix <- MCSettingMatrix
    Sessions <- MCSessions
    ModeLists <- MCModeLists
    PrimeCeiling = 14
    MaxPrimes = 2
    KernelRequests <- MCKernelRequests
    PrimesNear = 1024
    WordLimit = 20000
INVARIANTS
    KernelExact
    ModesIndependent
    CoupledDistinct
    CoupledComplete
    EachStarHasItsRow
    FieldAnswered
    RowProbesEnd
    RowsExact
    LayoutsFound
    FrameReadsLive
    FrameAsAlone
    NodesAreFixedSpaces
    OnePerOrbit
    WalkComplete
    AsksWhatIsMeant
    EndsAsTold
CHECK_DEADLOCK FALSE
