\* A pair, a register and a coil or an invalid address; spans that are
\* merged up to 3 registers, two faults.
CONSTANTS
    Areas = {"coil", "holding"}
    None = None  Bad = Bad
    N = 3
    Layouts <- MergedLayouts
    Top = 4
    MaxSpan = 3
    Gap = 1
    MaxBits = 8
    MaxRegs = 4
    Tids = 9
    Expired = 2
    Versions = 1
    Faults = 2
    Room = 2
SPECIFICATION FairSpec
INVARIANTS
    GoodIsRight
    CleanReadsAreGood
PROPERTIES
    LinkRecovers
