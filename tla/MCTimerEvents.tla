--------------------------- MODULE MCTimerEvents ---------------------------
(* Small instances of TimerEvents.  Time is scaled down: a COUNT that wraps *)
(* at 16, a leap of at most 6 ticks, delays of a few ticks.                 *)
EXTENDS TimerEvents

\* A DMA and the interrupt poll
DMATasks == {"PI_DMA", "CHECK_INTERRUPT"}
DMADelay == [PI_DMA |-> 4, CHECK_INTERRUPT |-> 1]
=============================================================================
