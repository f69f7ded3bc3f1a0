\* A delay slot on the next page: the block outlives a store into it.
CONSTANTS
    Top = 5
    PageWords = 3
    Branches = {2, 4}
    Likely = {2}
    Target <- SplitExit
    Versions = {v1, v2}
    Capacity = 4
    Methods = {"PROTECT"}
    Links = {FALSE}
    Changing = {3}
    DmaStarts = {1, 2, 4}
    Dummy = Dummy
    None = None
SYMMETRY Symmetry
SPECIFICATION Spec
INVARIANT LookupFresh
