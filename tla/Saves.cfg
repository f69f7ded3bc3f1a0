\* Two games, with kills and changes of game.
CONSTANTS
    zelda = zelda
    mario = mario
    Games = {zelda, mario}
    NoGame = NoGame
    N = 2
    Data = {"00", "FF"}
    Blank = "00"
    Erased = "FF"
    Formatted = "FF"
    Pads = {0, 1}
    PakIn = {0}
    SaveType <- Types
    EEpromSize <- Sizes
    PifBlocks <- AnyBlock
    DmaData <- Copies
    Excused = TRUE
SPECIFICATION Spec
INVARIANTS Durable ReadBack
PROPERTY OnlyRunning
CHECK_DEADLOCK FALSE
