-------------------------------- MODULE Rcp --------------------------------
(***************************************************************************)
(* The Reality Co-Processor as the CPU sees it: DMA engines and RSP that   *)
(* finish when their timer event fires (dma.c, Trigger_Timer_Event), the   *)
(* registers through which the program starts, acknowledges and masks them *)
(* (Check_SW), and the delivery of their interrupts.                       *)
(* Time is abstract: Tick passes the targets of all events in the list and *)
(* the events whose targets have passed fire in any order.                 *)
(***************************************************************************)
EXTENDS Interrupts

CONSTANTS
    Segmentation,   \* the settings of currentromoptions.DMA_Segmentation in use
    RspPlugin,      \* the settings of emuoptions.UsingRspPlugin in use
    StatusValues,   \* the STATUS values the program writes: [ie, exl, im]
    MaskWrites,     \* what it writes in MI_INTR_MASK_REG: [clear, set]
    SPWrites,       \* what it writes in SP_STATUS_REG: sets of SPCommands
    PluginSources   \* the bits of MI_INTR_REG the plugins set

SPCommands == {"CLR_HALT", "SET_HALT", "CLR_BROKE", "CLR_INTR", "SET_INTR",
               "CLR_INTR_BREAK", "SET_INTR_BREAK"}

ASSUME SegmentationAssumption == Segmentation \subseteq BOOLEAN /\ RspPlugin \subseteq BOOLEAN
ASSUME WritesAssumption ==
    /\ StatusValues \subseteq [ie : BOOLEAN, exl : BOOLEAN, im : SUBSET Lines]
    /\ MaskWrites \subseteq [clear : SUBSET Sources, set : SUBSET Sources]
    /\ SPWrites \subseteq SUBSET SPCommands
    /\ PluginSources \subseteq Sources \cap {"SP", "DP", "AI"}
\* The timer events in use belong to devices in use.
ASSUME DevicesAssumption ==
    /\ "PI_DMA" \in Tasks => "PI" \in Sources
    /\ "SI_DMA" \in Tasks => "SI" \in Sources /\ "SI_IO" \in Tasks
    /\ "SP_DLIST" \in Tasks => "SP" \in Sources
    /\ "DELAY_AI" \in Tasks <=> "AI" \in Sources

VARIABLES
    m,          \* the machine of Interrupts
    piBusy,     \* PI_STATUS_REG: DMA_IO_BUSY
    si,         \* SI_STATUS_REG, and the direction of the DMA in progress
    sp          \* SP_STATUS_REG

devices == <<piBusy, si, sp>>
vars == <<m, piBusy, si, sp>>

Directions == {"read", "write"}     \* DMA_SI_READ: DRAM to PIF
SIState == [dmaBusy : BOOLEAN, ioBusy : BOOLEAN, interrupt : BOOLEAN, dir : Directions]
SPState == [halt : BOOLEAN, broke : BOOLEAN, intrBreak : BOOLEAN, dmaBusy : BOOLEAN]
----------------------------------------------------------------------------
(* Interrupt registers *)

WriteMIMask(w) == m' = HandleMI(m, w.clear, w.set) /\ UNCHANGED devices

WriteMIMode(clearDP) == m' = WriteModeReg(m, clearDP) /\ UNCHANGED devices

\* VI_CURRENT_REG or AI_STATUS_REG
Acknowledge(source) ==
    /\ source \in Sources \cap {"VI", "AI"}
    /\ m' = ClearMI(m, source)
    /\ UNCHANGED devices

WriteStatus(v) == m' = WriteStatusReg(m, v.ie, v.exl, v.im) /\ UNCHANGED devices

WriteCause(on) == "SW" \in Lines /\ m' = WriteCauseReg(m, on) /\ UNCHANGED devices

\* mtc0 COMPARE takes the timer interrupt back.
WriteCompare == m' = [m EXCEPT !.ip = @ \ {"TIMER"}] /\ UNCHANGED devices

Eret == m' = [m EXCEPT !.exl = FALSE] /\ UNCHANGED devices

\* A TLB, FPU or syscall exception
Exception == m' = [m EXCEPT !.exl = TRUE] /\ UNCHANGED devices

WriteCount == m' = WriteCountReg(m) /\ UNCHANGED devices
----------------------------------------------------------------------------
(* Peripheral interface *)

\* Mutant of StartPI: the transfer is not scheduled.
StartPIUnscheduled(ends) ==
    /\ "PI_DMA" \in Tasks
    /\ piBusy' = (m.segmented /\ ~ends)
    /\ UNCHANGED <<m, si, sp>>

\* DMA_PI_MemCopy_From_Cart_To_DRAM, DMA_PI_MemCopy_From_DRAM_To_Cart.  A DMA to
\* or from the save memory, or out of RDRAM, ends at once.
StartPI(ends) ==
    /\ "PI_DMA" \in Tasks
    /\ IF m.segmented /\ ~ends
       THEN piBusy' = TRUE /\ m' = Arm(m, "PI_DMA")
       ELSE m' = Trigger(m, "PI") /\ UNCHANGED piBusy
    /\ UNCHANGED <<si, sp>>

\* PI_STATUS_REG
WritePIStatus(clear, reset) ==
    LET n == IF clear THEN ClearMI(m, "PI") ELSE m
    IN  /\ "PI_DMA" \in Tasks
        /\ m' = IF reset /\ piBusy THEN Trigger(n, "PI") ELSE n
        /\ piBusy' = (piBusy /\ ~reset)
        /\ UNCHANGED <<si, sp>>

\* DoPIDMASegment
FirePI ==
    /\ "PI_DMA" \in Tasks /\ m.events["PI_DMA"] = "due"
    /\ piBusy' = FALSE
    /\ m' = CPUCheck(Trigger(Disarm(m, "PI_DMA"), "PI"))
    /\ UNCHANGED <<si, sp>>
----------------------------------------------------------------------------
(* Serial interface *)

\* DMA_MemCopy_DRAM_to_SI, DMA_MemCopy_SI_To_DRAM
StartSI(dir) ==
    /\ "SI_DMA" \in Tasks
    /\ IF m.segmented
       THEN m' = Arm(m, "SI_DMA") /\ si' = [si EXCEPT !.dir = dir, !.dmaBusy = TRUE]
       ELSE m' = Trigger(m, "SI") /\ si' = [si EXCEPT !.interrupt = TRUE]
    /\ UNCHANGED <<piBusy, sp>>

\* Mutant of WriteSIStatus: the bit of SI_STATUS stays.
WriteSIStatusHalf ==
    /\ "SI_DMA" \in Tasks
    /\ m' = ClearMI(m, "SI")
    /\ UNCHANGED devices

\* SI_STATUS_REG
WriteSIStatus ==
    /\ "SI_DMA" \in Tasks
    /\ m' = ClearMI(m, "SI")
    /\ si' = [si EXCEPT !.interrupt = FALSE]
    /\ UNCHANGED <<piBusy, sp>>

\* Mutant of FireSI: nothing ends the I/O after a read.
FireSIEndless ==
    /\ "SI_DMA" \in Tasks /\ m.events["SI_DMA"] = "due"
    /\ m' = CPUCheck(Trigger(Disarm(m, "SI_DMA"), "SI"))
    /\ si' = [si EXCEPT !.dmaBusy = FALSE, !.interrupt = TRUE,
                        !.ioBusy = @ \/ si.dir = "read"]
    /\ UNCHANGED <<piBusy, sp>>

\* DoSIDMASegment
FireSI ==
    /\ "SI_DMA" \in Tasks /\ m.events["SI_DMA"] = "due"
    /\ LET n == Trigger(Disarm(m, "SI_DMA"), "SI")
       IN  m' = CPUCheck(IF si.dir = "read" THEN Arm(n, "SI_IO") ELSE n)
    /\ si' = [si EXCEPT !.dmaBusy = FALSE, !.interrupt = TRUE,
                        !.ioBusy = @ \/ si.dir = "read"]
    /\ UNCHANGED <<piBusy, sp>>

FireSIIO ==
    /\ "SI_IO" \in Tasks /\ m.events["SI_IO"] = "due"
    /\ m' = Disarm(m, "SI_IO")
    /\ si' = [si EXCEPT !.ioBusy = FALSE]
    /\ UNCHANGED <<piBusy, sp>>
----------------------------------------------------------------------------
(* Signal processor *)

\* Trigger_RSPBreak: what it makes of the SP and of the machine
Broken(s) == [s EXCEPT !.halt = TRUE, !.broke = TRUE]
RSPBreak(n, s) == IF s.intrBreak THEN Trigger(n, "SP") ELSE n

\* Handle_SP up to the task: interrupt bits first, then the status bits
SPInterrupt(n, w) ==
    LET c == IF "CLR_INTR" \in w THEN ClearMI(n, "SP") ELSE n
        s == [c EXCEPT !.intr = @ \cup {"SP"}]
    IN  IF "SET_INTR" \notin w THEN c
        ELSE IF s.intr \cap s.mask # {} THEN RaiseRCP(s) ELSE s

SPBits(s, w) ==
    [s EXCEPT !.halt = TRUE,    \* whatever was written (interrupt.c:272)
              !.broke = @ /\ "CLR_BROKE" \notin w,
              !.intrBreak = \/ "SET_INTR_BREAK" \in w
                            \/ (@ /\ "CLR_INTR_BREAK" \notin w)]

\* RunSPTask: the plugin does the whole task, and may leave a DP interrupt.
\* Its end is delayed in segmented games that do not use an RSP plugin.
RunTask(n, s, dp, delayed) ==
    LET d == [n EXCEPT !.intr = @ \cup dp]
        e == IF "DP" \in d.intr THEN Trigger(d, "DP") ELSE d
    IN  IF delayed THEN Arm(e, "SP_DLIST") ELSE RSPBreak(e, s)

\* SP_STATUS_REG.  The test of BROKE reads the value written, where that bit
\* means SET_HALT.
WriteSPStatus(w) ==
    LET n == SPInterrupt(m, w)
        s == SPBits(sp, w)
        runs == "CLR_HALT" \in w /\ "SET_HALT" \notin w
    IN  /\ "SP_DLIST" \in Tasks
        /\ IF runs
           THEN \E dp \in SUBSET (Sources \cap {"DP"}), rspPlugin \in RspPlugin :
                   LET delayed == m.segmented /\ ~rspPlugin
                   IN  /\ m' = RunTask(n, s, dp, delayed)
                       /\ sp' = IF delayed THEN s ELSE Broken(s)
           ELSE m' = n /\ sp' = s
        /\ UNCHANGED <<piBusy, si>>

\* Trigger_RSPBreak when the delay of the task is over
FireDList ==
    /\ "SP_DLIST" \in Tasks /\ m.events["SP_DLIST"] = "due"
    /\ m' = CPUCheck(RSPBreak(Disarm(m, "SP_DLIST"), sp))
    /\ sp' = Broken(sp)
    /\ UNCHANGED <<piBusy, si>>

\* DMA_MemCopy_DRAM_To_SP, DMA_MemCopy_SP_to_DRAM
StartSP ==
    /\ "SP_DMA" \in Tasks
    /\ IF m.segmented
       THEN m' = Arm(m, "SP_DMA") /\ sp' = [sp EXCEPT !.dmaBusy = TRUE]
       ELSE sp' = [sp EXCEPT !.dmaBusy = FALSE, !.halt = TRUE] /\ UNCHANGED m
    /\ UNCHANGED <<piBusy, si>>

\* DoSPDMASegment: no interrupt
FireSP ==
    /\ "SP_DMA" \in Tasks /\ m.events["SP_DMA"] = "due"
    /\ m' = Disarm(m, "SP_DMA")
    /\ sp' = [sp EXCEPT !.dmaBusy = FALSE, !.halt = TRUE]
    /\ UNCHANGED <<piBusy, si>>

\* DPC_END_REG
WriteDPCEnd == "DP" \in Sources /\ m' = Trigger(m, "DP") /\ UNCHANGED devices
----------------------------------------------------------------------------
(* Plugins *)

\* Mutant of PluginAI: the bit is left to be noticed.
PluginAIIgnored(n) == n

\* CheckInterrupts for the AI bit
PluginAI(n) ==
    IF "AI" \notin n.intr THEN n
    ELSE IF n.segmented THEN Arm(n, "DELAY_AI") ELSE Trigger(n, "AI")

\* A plugin sets bits of MI_INTR_REG through its pointer and calls
\* CheckInterrupts, which looks at every bit that is set.
PluginInterrupt(set) ==
    LET n == [m EXCEPT !.intr = @ \cup set]
        b == IF "SP" \in n.intr THEN RSPBreak(n, sp) ELSE n
        d == IF "DP" \in b.intr THEN Trigger(b, "DP") ELSE b
    IN  /\ set # {}
        /\ m' = PluginAI(d)
        /\ sp' = IF "SP" \in n.intr THEN Broken(sp) ELSE sp
        /\ UNCHANGED <<piBusy, si>>

FireAI ==
    /\ "DELAY_AI" \in Tasks /\ m.events["DELAY_AI"] = "due"
    /\ m' = CPUCheck(Trigger(Disarm(m, "DELAY_AI"), "AI"))
    /\ UNCHANGED devices
----------------------------------------------------------------------------
(* The timer *)

\* Time passes the targets of the events in the list.
Tick ==
    /\ \E t \in Types : m.events[t] = "armed"
    /\ m' = [m EXCEPT !.events = [t \in Types |-> IF @[t] = "armed" THEN "due" ELSE @[t]]]
    /\ UNCHANGED devices

\* Mutants of FireVI: not scheduled for the next frame; no look at interrupts.
FireVIOnce ==
    /\ m.events["VI"] = "due"
    /\ m' = CPUCheck(IF "VI" \in Sources THEN Trigger(Disarm(m, "VI"), "VI") ELSE Disarm(m, "VI"))
    /\ UNCHANGED devices
FireVINoCheck ==
    /\ m.events["VI"] = "due"
    /\ m' = IF "VI" \in Sources THEN Trigger(Arm(m, "VI"), "VI") ELSE Arm(m, "VI")
    /\ UNCHANGED devices

FireVI ==
    /\ m.events["VI"] = "due"
    /\ m' = CPUCheck(IF "VI" \in Sources THEN Trigger(Arm(m, "VI"), "VI") ELSE Arm(m, "VI"))
    /\ UNCHANGED devices

FireCompare ==
    /\ "TIMER" \in Lines
    /\ m' = CPUCheck(TriggerCompare(m))
    /\ UNCHANGED devices

\* Mutant of FireCheck: the poll is not repeated.
FireCheckOnce ==
    /\ m.events["CHECK_INTERRUPT"] = "due"
    /\ m' = CPUCheck(Disarm(m, "CHECK_INTERRUPT"))
    /\ UNCHANGED devices

\* The poll repeats itself until an interrupt was taken or taken back.
FireCheck ==
    /\ m.events["CHECK_INTERRUPT"] = "due"
    /\ LET n == CPUCheck(Disarm(m, "CHECK_INTERRUPT"))
       IN  m' = IF n.check THEN Arm(n, "CHECK_INTERRUPT") ELSE n
    /\ UNCHANGED devices
----------------------------------------------------------------------------
\* InitEmu, RCP_Reset: nothing is pending but the VI event.
Init ==
    /\ \E segmented \in Segmentation :
           m = [segmented |-> segmented, ie |-> FALSE, exl |-> FALSE, im |-> {},
                ip |-> {}, intr |-> {}, mask |-> {}, check |-> FALSE,
                events |-> [t \in Types |-> IF t = "VI" THEN "armed" ELSE "off"],
                dropped |-> {}]
    /\ piBusy = FALSE
    /\ si = [dmaBusy |-> FALSE, ioBusy |-> FALSE, interrupt |-> FALSE, dir |-> "write"]
    /\ sp = [halt |-> FALSE, broke |-> FALSE, intrBreak |-> FALSE, dmaBusy |-> FALSE]

\* The program being emulated
Program ==
    \/ \E w \in MaskWrites : WriteMIMask(w)
    \/ \E clearDP \in BOOLEAN : WriteMIMode(clearDP)
    \/ \E source \in {"VI", "AI"} : Acknowledge(source)
    \/ \E v \in StatusValues : WriteStatus(v)
    \/ \E on \in BOOLEAN : WriteCause(on)
    \/ WriteCompare
    \/ WriteCount
    \/ Eret
    \/ Exception
    \/ \E ends \in BOOLEAN : StartPI(ends)
    \/ \E clear, reset \in BOOLEAN : WritePIStatus(clear, reset)
    \/ \E dir \in Directions : StartSI(dir)
    \/ WriteSIStatus
    \/ \E w \in SPWrites : WriteSPStatus(w)
    \/ StartSP
    \/ WriteDPCEnd

Plugin == \E set \in SUBSET PluginSources : PluginInterrupt(set)

Timer ==
    \/ FireVI \/ FireCompare \/ FireCheck
    \/ FirePI \/ FireSI \/ FireSIIO \/ FireSP \/ FireDList \/ FireAI

Next == Program \/ Plugin \/ Tick \/ Timer

\* The CPU loop runs on: time passes, and an event whose target is behind is
\* fired unless it is scheduled anew.
Fairness ==
    /\ WF_vars(Tick)
    /\ WF_vars(FireVI) /\ WF_vars(FireCheck)
    /\ WF_vars(FirePI) /\ WF_vars(FireSI) /\ WF_vars(FireSIIO)
    /\ WF_vars(FireSP) /\ WF_vars(FireDList) /\ WF_vars(FireAI)

Spec == Init /\ [][Next]_vars
FairSpec == Spec /\ Fairness
----------------------------------------------------------------------------
(* Properties *)

TypeOK ==
    /\ m \in Machine /\ Scheduled(m, "VI")
    /\ piBusy \in BOOLEAN /\ si \in SIState /\ sp \in SPState

\* The event is in the list, or was until a write to COUNT.
Backed(n, type) == Scheduled(n, type) \/ type \in n.dropped

\* Interrupts whose line may still be down: an AI interrupt waits for its delay,
\* and an SP interrupt a plugin asks for is dropped unless the RSP is told to
\* interrupt on break.
Waiting(n) ==
    {s \in {"AI"} : Backed(n, "DELAY_AI")} \cup (PluginSources \cap {"SP"})

\* "Check MI interrupt again. This is important, otherwise we will lose
\* interrupts" (interrupt.c:160): an RCP interrupt that is pending and unmasked
\* has the CPU's line up.
LineRaised == (m.intr \cap m.mask) \ Waiting(m) # {} => "RCP" \in m.ip

\* "No MI interrupt as interrupt is triggered" (DebugR4300i.c:3009) is never
\* displayed: the line is not up unless some RCP device has an interrupt.
LineHasSource == "RCP" \in m.ip => m.intr # {}

\* While CPUNeedToCheckInterrupt is set a check is in the event list: the poll
\* that repeats itself never dies out, except in a write to COUNT.
PollAlive == m.check => Backed(m, "CHECK_INTERRUPT")

\* A busy engine has the event that ends its transfer in the list, unless a
\* write to COUNT dropped it; the program polls these bits.
BusyBacked ==
    /\ piBusy => Backed(m, "PI_DMA")
    /\ si.dmaBusy => Backed(m, "SI_DMA")
    /\ si.ioBusy => Backed(m, "SI_IO")
    /\ sp.dmaBusy => Backed(m, "SP_DMA")

\* The interrupt bit of SI_STATUS and the SI bit of MI_INTR_REG are set and
\* cleared together, so the refresh on every read of SI_STATUS, "necessary, but
\* not very necessary" (R4300i.c:3128), changes nothing.
SIBitsAgree == si.interrupt <=> "SI" \in m.intr

\* The line stays up without an unmasked source only after a write to the mask:
\* the CPU then takes an interrupt for which MI shows no source.
StaleLine(n) == "RCP" \in n.ip /\ n.intr \cap n.mask = {}
StaleOnlyByMask ==
    [][~StaleLine(m) /\ StaleLine(m') => \E w \in MaskWrites : WriteMIMask(w)]_vars

\* A deliverable interrupt is taken, taken back or masked in the end, although
\* neither ERET nor a write to STATUS is sure to schedule a check: the VI event
\* looks again every frame, unless COUNT is written over and over.
Delivered ==
    []<><<WriteCount>>_vars \/ (Deliverable(m) ~> ~Deliverable(m))

\* A PI transfer ends, unless the program starts another one over and over or
\* a write to COUNT dropped its event.
TransferEnds ==
    []<><<\E ends \in BOOLEAN : StartPI(ends)>>_vars
        \/ (piBusy ~> (~piBusy \/ "PI_DMA" \in m.dropped))
=============================================================================
