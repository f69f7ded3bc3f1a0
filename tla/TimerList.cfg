\* The pool of nodes, in the recompiler: events set from a block get the
\* block's length as slack, and a DMA's end starts a second task.
CONSTANTS
    PoolSize = 5
    Tasks <- ChainTasks
    Delay <- ChainDelay
    FramePeriods = {4}
    Wrap = 8
    Far = 6
    CF = 2
    VCF = 1
    Jitter = {0, 3}
    Slack = {2}
    Costs = {3}
    Values = {5}
    MaxTime = 5
SPECIFICATION Spec
INVARIANTS TypeOK WellLinked VINodeLive
PROPERTIES Implements
