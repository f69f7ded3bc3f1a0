----------------------------- MODULE Interrupts -----------------------------
(***************************************************************************)
(* How an interrupt reaches the emulated CPU (interrupt.c, the COP0 writes *)
(* of R4300i.c).  A source sets its bit of MI_INTR_REG; when the mask lets *)
(* it through, the RCP line of CAUSE goes up and a CHECK_INTERRUPT event   *)
(* is scheduled; CPU_Check_Interrupts takes the interrupt when STATUS      *)
(* allows it.  The operators take the machine m to the machine after the   *)
(* function of the code they are named for.                                *)
(***************************************************************************)
EXTENDS FiniteSets

CONSTANTS
    Sources,    \* the RCP devices in use: bits of MI_INTR_REG
    Lines,      \* the interrupt lines in use: "SW" (IP1), "RCP" (IP3), "TIMER" (IP8)
    Tasks       \* the timer events in use, besides VI and COMPARE

ASSUME SourcesAssumption == Sources \subseteq {"SP", "SI", "AI", "VI", "PI", "DP"}
ASSUME LinesAssumption == "RCP" \in Lines /\ Lines \subseteq {"SW", "RCP", "TIMER"}
ASSUME TasksAssumption ==
    /\ "CHECK_INTERRUPT" \in Tasks
    /\ Tasks \subseteq {"CHECK_INTERRUPT", "PI_DMA", "SI_DMA", "SI_IO",
                        "SP_DMA", "SP_DLIST", "DELAY_AI"}

\* The timer event list as seen from here: an event is not in the list, or is
\* in it with its target ahead, or has its target behind.  VI is always in it
\* (TimerEvents!AlwaysArmed).
Types == Tasks \cup {"VI"}
Phase == {"off", "armed", "due"}

Machine ==
    [segmented : BOOLEAN,       \* DMA_Segmentation of the game: USEDMASEG_YES
     ie     : BOOLEAN,          \* STATUS: interrupts enabled
     exl    : BOOLEAN,          \* STATUS: exception level
     im     : SUBSET Lines,     \* STATUS: interrupt mask
     ip     : SUBSET Lines,     \* CAUSE: interrupts pending
     intr   : SUBSET Sources,   \* MI_INTR_REG
     mask   : SUBSET Sources,   \* MI_INTR_MASK_REG
     check  : BOOLEAN,          \* CPUNeedToCheckInterrupt
     events : [Types -> Phase],
     dropped : SUBSET Tasks]    \* history: events a write to COUNT threw away

Scheduled(m, type) == type \in Types /\ m.events[type] # "off"

\* The condition of CPU_Check_Interrupts
Deliverable(m) == m.ie /\ ~m.exl /\ m.ip \cap m.im # {}
----------------------------------------------------------------------------
(* interrupt.c *)

\* Add_New_Timer_Event: a pending event of the type starts over.
Arm(m, type) == [m EXCEPT !.events[type] = "armed", !.dropped = @ \ {type}]

\* Remove_1st_Timer_Event
Disarm(m, type) == [m EXCEPT !.events[type] = "off"]

HandleInterrupts(m) == Arm([m EXCEPT !.check = TRUE], "CHECK_INTERRUPT")

RaiseRCP(m) == HandleInterrupts([m EXCEPT !.ip = @ \cup {"RCP"}])

\* Mutant of Trigger: the line goes up whatever the mask says.
TriggerUnmasked(m, source) == RaiseRCP([m EXCEPT !.intr = @ \cup {source}])

\* Trigger_VIInterrupt, Trigger_PIInterrupt, ...
Trigger(m, source) ==
    LET set == [m EXCEPT !.intr = @ \cup {source}]
    IN  IF source \in m.mask THEN RaiseRCP(set) ELSE set

\* Trigger_CompareInterrupt
TriggerCompare(m) == HandleInterrupts([m EXCEPT !.ip = @ \cup {"TIMER"}])

\* Mutant of ClearMI: the line stays up.
ClearMILineUp(m, source) == [m EXCEPT !.intr = @ \ {source}]

\* Clear_MIInterrupt
ClearMI(m, source) ==
    LET rest == [m EXCEPT !.intr = @ \ {source}]
        down == [rest EXCEPT !.ip = @ \ {"RCP"}]
    IN  IF rest.intr \cap m.mask # {} THEN rest
        ELSE [down EXCEPT !.check = @ /\ down.ip \cap m.im # {}]

\* Mutant of HandleMI: the mask write does not look at pending interrupts.
HandleMIBlind(m, clear, set) == [m EXCEPT !.mask = (@ \ clear) \cup set]

\* Handle_MI: the clear bits of the value act before the set bits.
HandleMI(m, clear, set) ==
    LET n == [m EXCEPT !.mask = (@ \ clear) \cup set]
    IN  IF n.mask \cap n.intr # {} THEN RaiseRCP(n) ELSE n

\* WriteMI_ModeReg
WriteModeReg(m, clearDP) ==
    LET n == IF clearDP THEN ClearMI(m, "DP") ELSE m
    IN  IF n.intr \cap n.mask = {} THEN [n EXCEPT !.ip = @ \ {"RCP"}] ELSE n

\* CPU_Check_Interrupts with SetException_Interrupt or rc_Intr_Common
CPUCheck(m) == IF Deliverable(m) THEN [m EXCEPT !.exl = TRUE, !.check = FALSE] ELSE m
----------------------------------------------------------------------------
(* COP0 *)

\* mtc0 COUNT: Init_Count_Down_Counters empties the event list.
WriteCountReg(m) ==
    [m EXCEPT !.events = [t \in Types |-> IF t = "VI" THEN "armed" ELSE "off"],
              !.dropped = @ \cup {t \in Tasks : Scheduled(m, t)}]

\* mtc0 STATUS.  The branch for a cleared EXL compares an EXL of 2 with 1 and
\* never runs; the branch for a set IE looks at the mask before the write.
WriteStatusReg(m, ie, exl, im) ==
    LET n == IF ie /\ ~m.ie /\ m.ip \cap m.im # {} THEN HandleInterrupts(m) ELSE m
    IN  [n EXCEPT !.ie = ie, !.exl = exl, !.im = im]

\* mtc0 CAUSE: only the software interrupts are writable.
WriteCauseReg(m, on) ==
    LET n == [m EXCEPT !.ip = IF on THEN @ \cup {"SW"} ELSE @ \ {"SW"}]
    IN  IF n.ip # m.ip /\ on /\ n.ip \cap n.im # {} THEN HandleInterrupts(n) ELSE n
=============================================================================
