------------------------------- MODULE MCRcp -------------------------------
(* Small instances of Rcp: the interrupt path with one DMA engine at a time. *)
EXTENDS Rcp

\* Clear or set the mask of one device, or all
SomeMasks ==
    {[clear |-> {s}, set |-> {}] : s \in Sources} \cup {[clear |-> {}, set |-> Sources]}

\* Interrupts off or on
OnOff == {[ie |-> on, exl |-> FALSE, im |-> Lines] : on \in BOOLEAN}

SomeSPWrites ==
    {{"CLR_INTR"}, {"SET_INTR"}, {"SET_INTR_BREAK"}, {"CLR_INTR_BREAK"},
     {"CLR_HALT", "CLR_BROKE", "CLR_INTR"}, {"CLR_HALT", "SET_HALT"}}

DMATasks == {"CHECK_INTERRUPT", "SI_DMA", "SI_IO", "SP_DMA", "SP_DLIST"}
LiveTasks == {"CHECK_INTERRUPT", "PI_DMA", "DELAY_AI"}
=============================================================================
