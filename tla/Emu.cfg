\* Both cores: commands of the user, handlers up to three deep
CONSTANTS
    Commands <- BothCores
    MaxCommands = 5
    MaxNesting = 3
SPECIFICATION EmuFairSpec
CHECK_DEADLOCK FALSE
INVARIANTS EmuTypeOK SafePoint TouchSafe EndsOnlyOnStop
PROPERTY GUIComesBack
