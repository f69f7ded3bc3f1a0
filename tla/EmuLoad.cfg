\* A state is loaded, and another resume follows before the CPU thread wakes up
CONSTANTS
    Commands <- LoadAndResume
    MaxCommands = 3
    MaxNesting = 1
SPECIFICATION EmuSpec
CHECK_DEADLOCK FALSE
INVARIANT RefreshedAfterLoad
