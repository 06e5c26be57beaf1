\* One register, read and written with the order AB, and no faults.
CONSTANTS
    Areas = {"coil", "holding"}
    None = None  Bad = Bad
    N = 1
    Layouts <- WordAB
    Top = 0
    MaxSpan = 3
    Gap = 1
    MaxBits = 8
    MaxRegs = 4
    Tids = 9
    Expired = 2
    Versions = 0
    Faults = 0
    Room = 2
SPECIFICATION FairSpec
INVARIANT
    WrittenReadsBack
