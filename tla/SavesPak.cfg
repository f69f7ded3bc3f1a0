\* One game with a pak in both controllers.
CONSTANTS
    zelda = zelda
    mario = mario
    Games = {mario}
    NoGame = NoGame
    N = 2
    Data = {"00", "FF"}
    Blank = "00"
    Erased = "FF"
    Formatted = "FF"
    Pads = {0, 1}
    PakIn = {0, 1}
    SaveType <- Types
    EEpromSize <- Sizes
    PifBlocks <- OnlyPads
    DmaData <- Copies
    Excused = TRUE
SPECIFICATION Spec
INVARIANT Durable
CHECK_DEADLOCK FALSE
