\* The serial interface and the signal processor, their DMA with or without
\* delay, and software interrupts
CONSTANTS
    Sources = {"SI", "SP"}
    Lines = {"RCP", "SW"}
    Tasks <- DMATasks
    Segmentation = {TRUE, FALSE}
    RspPlugin = {TRUE, FALSE}
    StatusValues <- OnOff
    MaskWrites <- SomeMasks
    SPWrites <- SomeSPWrites
    PluginSources = {}
SPECIFICATION Spec
INVARIANTS TypeOK LineRaised LineHasSource PollAlive BusyBacked SIBitsAgree
PROPERTIES StaleOnlyByMask
