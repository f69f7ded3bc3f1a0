\* Blocks of three instructions, the last any of all, without the known
\* divergences.
CONSTANTS
    t0 = t0
    t1 = t1
    ra = ra
    Gpr = {t0, t1, ra}
    R0 = R0
    HI = HI
    LO = LO
    NoConst = NoConst
    W = 2
    BlockAnalysis = TRUE
    ProtectMemory = TRUE
    Excused = TRUE
    Memory <- MemoryWords
    Start <- StartFiles
    StartFloat <- StartCells
    Cells = {1, 2, 3, 4}
    FR_reg_offset = 1
    Fpu <- AnyFpu
    Order <- AnyOrder
    Opening <- Openers
    Last <- AnyOp
    Branches <- AnyBranch
    Slots <- SomeSlots
    RA = ra
    Link = 3
    MaxOps = 3
SPECIFICATION Spec
INVARIANTS Agree Clean Coherent NoDisplayError
CHECK_DEADLOCK FALSE
