\* Entries with the G bit, as the direct table supports them.
CONSTANTS
    Last = 1
    Pages = 4
    Sizes = {1, 2}
    Asids = {0}
    Halves <- Lo
    Globals = {TRUE}
    Wired = 0
    Saved <- SavedEntries
    MaxNest = 2
    Unmapped = Unmapped
    Dummy = Dummy
SPECIFICATION TlbSpec
INVARIANTS TableSound TableComplete AnswerRight
PROPERTY FaultJustified
CHECK_DEADLOCK FALSE
