\* Delivery of interrupts and end of transfers, with the plugins' interrupts
CONSTANTS
    Sources = {"PI", "AI", "DP"}
    Lines = {"RCP", "TIMER"}
    Tasks <- LiveTasks
    Segmentation = {TRUE}
    RspPlugin = {FALSE}
    StatusValues <- OnOff
    MaskWrites <- SomeMasks
    SPWrites = {}
    PluginSources = {"AI", "DP"}
SPECIFICATION FairSpec
INVARIANT LineRaised
PROPERTIES Delivered TransferEnds
