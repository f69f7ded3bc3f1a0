\* Protected pages and the checks that compare words, linked and not.
CONSTANTS
    Top = 5
    PageWords = 3
    Branches = {1, 4}
    Likely = {1}
    Target <- Exit
    Versions = {v1, v2}
    Capacity = 4
    Methods = {"PROTECT", "DWORD", "QWORD", "BLOCK", "BLOCK_DMA"}
    Links = {TRUE, FALSE}
    Changing = {1, 2}
    DmaStarts = {1, 2}
    Dummy = Dummy
    None = None
SYMMETRY Symmetry
SPECIFICATION Spec
INVARIANTS LookupFresh LinksLive
PROPERTY EntryFresh
