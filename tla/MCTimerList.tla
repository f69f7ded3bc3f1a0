---------------------------- MODULE MCTimerList ----------------------------
(* A pool with exactly one node per event type: a leaked node would exhaust it. *)
EXTENDS TimerList

\* A DMA whose end starts a second task, and the interrupt poll
ChainTasks == {"SI_DMA", "SI_IO", "CHECK_INTERRUPT"}
ChainDelay == [SI_DMA |-> 2, SI_IO |-> 3, CHECK_INTERRUPT |-> 1]
=============================================================================
