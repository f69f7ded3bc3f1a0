\* The default counter factor (COUNT runs at twice the VI counter), in the
\* interpreter (no slack) and in the recompiler (a block of two ticks)
CONSTANTS
    Tasks <- DMATasks
    Delay <- DMADelay
    FramePeriods = {3, 5}
    Wrap = 16
    Far = 6
    CF = 2
    VCF = 1
    Jitter = {0, 3}
    Slack = {0, 2}
    Costs = {3}
    Values = {0, 9}
    MaxTime = 6
SPECIFICATION Spec
INVARIANTS TimerInv ListOrdered AlwaysArmed NeverOversleeps
PROPERTIES TimeRunsForward TasksSurvive CountReadsBack
