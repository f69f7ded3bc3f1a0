------------------------------ MODULE SystemProofs ------------------------------
(***************************************************************************)
(* Theorems about three parts that share nothing: the interrupts of the    *)
(* RCP, for every choice of devices, timer events and register values; the *)
(* TLB, for every size of the buffer and of the address space; the two     *)
(* threads, for every set of commands, however many of them and however    *)
(* deep the handlers nest.                                                 *)
(***************************************************************************)
EXTENDS Rcp, Tlb, EmuThreads, SequenceTheorems, TLAPS

----------------------------------------------------------------------------
(* The interrupts of the RCP.  The lemmas follow a machine through the      *)
(* functions of interrupt.c; the theorems put the functions together to the  *)
(* actions of Rcp.                                                           *)

\* The machine n is in order, but for the interrupts of W, which are set and
\* about to be raised.
Ready(n, W) ==
    /\ n \in Machine /\ n.events["VI"] # "off"
    /\ \A s \in n.intr \cap n.mask : s \in W \/ s \in Waiting(n) \/ "RCP" \in n.ip
    /\ "RCP" \in n.ip => n.intr # {}
    /\ n.check => Backed(n, "CHECK_INTERRUPT")

\* No event that is in the list at n, but those of E, is missing at k, and the
\* line has not become stale.
Follows(n, k, E) ==
    /\ \A t : t \notin E /\ Backed(n, t) => Backed(k, t)
    /\ StaleLine(k) => StaleLine(n)

\* The inductive invariant of Rcp
RcpInv ==
    /\ Ready(m, {})
    /\ piBusy \in BOOLEAN /\ si \in SIState /\ sp \in SPState
    /\ BusyBacked
    /\ SIBitsAgree
----------------------------------------------------------------------------
(* The event list *)

\* Add_New_Timer_Event puts the event in the list and disturbs no other.
LEMMA ArmKeeps ==
    ASSUME NEW n, NEW W, Ready(n, W), NEW t \in Types
    PROVE  /\ Ready(Arm(n, t), W)
           /\ Follows(n, Arm(n, t), {}) /\ Backed(Arm(n, t), t)
           /\ Arm(n, t).intr = n.intr
<1> DEFINE k == Arm(n, t)
<1>1. n \in Machine
  BY DEF Ready
<1>2. /\ k \in Machine /\ k.intr = n.intr /\ k.mask = n.mask /\ k.ip = n.ip
      /\ k.check = n.check /\ k.events = [n.events EXCEPT ![t] = "armed"]
      /\ k.dropped = n.dropped \ {t} /\ n.events \in [Types -> Phase]
  BY <1>1 DEF Arm, Machine, Phase
<1> HIDE DEF k
<1>3. \A u : Backed(n, u) => Backed(k, u)
  BY <1>2 DEF Backed, Scheduled
<1>4. Backed(k, t)
  BY <1>2 DEF Backed, Scheduled
<1>5. k.events["VI"] # "off"
  BY <1>2 DEF Ready, Types
<1>6. \A s \in k.intr \cap k.mask : s \in W \/ s \in Waiting(k) \/ "RCP" \in k.ip
  BY <1>2, <1>3 DEF Ready, Waiting
<1>7. Ready(k, W)
  BY <1>2, <1>3, <1>5, <1>6 DEF Ready
<1>8. QED
  BY <1>2, <1>3, <1>4, <1>7 DEF Follows, StaleLine, k

\* Remove_1st_Timer_Event takes away one event.
LEMMA DisarmKeeps ==
    ASSUME NEW n, NEW W, Ready(n, W),
           NEW t \in Types \ {"VI", "CHECK_INTERRUPT", "DELAY_AI"}
    PROVE  /\ Ready(Disarm(n, t), W)
           /\ Follows(n, Disarm(n, t), {t})
           /\ Disarm(n, t).intr = n.intr
<1> DEFINE k == Disarm(n, t)
<1>1. n \in Machine
  BY DEF Ready
<1>2. /\ k \in Machine /\ k.intr = n.intr /\ k.mask = n.mask /\ k.ip = n.ip
      /\ k.check = n.check /\ k.events = [n.events EXCEPT ![t] = "off"]
      /\ k.dropped = n.dropped /\ n.events \in [Types -> Phase]
  BY <1>1 DEF Disarm, Machine, Phase
<1> HIDE DEF k
<1>3. \A u : u # t /\ Backed(n, u) => Backed(k, u)
  BY <1>2 DEF Backed, Scheduled
<1>4. k.events["VI"] # "off"
  BY <1>2 DEF Ready, Types
<1>5. \A s \in k.intr \cap k.mask : s \in W \/ s \in Waiting(k) \/ "RCP" \in k.ip
  BY <1>2, <1>3 DEF Ready, Waiting
<1>6. Ready(k, W)
  BY <1>2, <1>3, <1>4, <1>5 DEF Ready
<1>7. QED
  BY <1>2, <1>3, <1>6 DEF Follows, StaleLine, k
----------------------------------------------------------------------------
(* The functions of interrupt.c *)

\* HandleInterrupts schedules the check it announces.
LEMMA HandleInterruptsKeeps ==
    ASSUME NEW n, NEW W, Ready(n, W)
    PROVE  /\ Ready(HandleInterrupts(n), W)
           /\ Follows(n, HandleInterrupts(n), {})
           /\ HandleInterrupts(n).intr = n.intr
<1> DEFINE k == HandleInterrupts(n)
<1>1. n \in Machine /\ "CHECK_INTERRUPT" \in Types
  BY TasksAssumption DEF Ready, Types
<1>2. /\ k \in Machine /\ k.intr = n.intr /\ k.mask = n.mask /\ k.ip = n.ip
      /\ k.events = [n.events EXCEPT !["CHECK_INTERRUPT"] = "armed"]
      /\ k.dropped = n.dropped \ {"CHECK_INTERRUPT"} /\ n.events \in [Types -> Phase]
  BY <1>1 DEF HandleInterrupts, Arm, Machine, Phase
<1> HIDE DEF k
<1>3. \A u : Backed(n, u) => Backed(k, u)
  BY <1>1, <1>2 DEF Backed, Scheduled
<1>4. Backed(k, "CHECK_INTERRUPT")
  BY <1>1, <1>2 DEF Backed, Scheduled
<1>5. k.events["VI"] # "off"
  BY <1>2 DEF Ready, Types
<1>6. \A s \in k.intr \cap k.mask : s \in W \/ s \in Waiting(k) \/ "RCP" \in k.ip
  BY <1>2, <1>3 DEF Ready, Waiting
<1>7. Ready(k, W)
  BY <1>2, <1>3, <1>4, <1>5, <1>6 DEF Ready
<1>8. QED
  BY <1>2, <1>3, <1>7 DEF Follows, StaleLine, k

\* A change of the machine that touches neither the MI registers nor the events,
\* raises no line of the RCP without an unmasked source, and takes the line only
\* when no unmasked source is left.
LEMMA RegistersKeep ==
    ASSUME NEW n, NEW k, NEW W, NEW V, Ready(n, W), k \in Machine,
           k.events = n.events, k.dropped = n.dropped, k.mask = n.mask,
           k.check \in {FALSE, n.check},
           "RCP" \in k.ip => k.intr # {},
           \A s \in k.intr \cap k.mask : s \in V \/ s \in Waiting(n) \/ "RCP" \in k.ip,
           StaleLine(k) => StaleLine(n)
    PROVE  Ready(k, V) /\ Follows(n, k, {})
<1>1. \A t : Backed(k, t) <=> Backed(n, t)
  BY DEF Backed, Scheduled
<1>2. Waiting(k) = Waiting(n)
  BY <1>1 DEF Waiting
<1>3. QED
  BY <1>1, <1>2 DEF Ready, Follows

\* With an unmasked source pending, raising the line puts every one in order.
LEMMA RaiseKeeps ==
    ASSUME NEW n, NEW W, NEW V, Ready(n, W), n.intr \cap n.mask # {}
    PROVE  /\ Ready(RaiseRCP(n), V)
           /\ Follows(n, RaiseRCP(n), {})
           /\ RaiseRCP(n).intr = n.intr
<1> DEFINE k == [n EXCEPT !.ip = @ \cup {"RCP"}]
<1>1. n \in Machine
  BY DEF Ready
<1>2. /\ k \in Machine /\ k.intr = n.intr /\ k.mask = n.mask /\ k.check = n.check
      /\ k.ip = n.ip \cup {"RCP"} /\ k.events = n.events /\ k.dropped = n.dropped
  BY <1>1, LinesAssumption DEF Machine
<1>3. RaiseRCP(n) = HandleInterrupts(k)
  BY DEF RaiseRCP
<1> HIDE DEF k
<1>4. ~StaleLine(k)
  BY <1>2 DEF StaleLine
<1>5. Ready(k, V) /\ Follows(n, k, {})
  BY <1>2, <1>4, RegistersKeep
<1>6. /\ Ready(HandleInterrupts(k), V) /\ Follows(k, HandleInterrupts(k), {})
      /\ HandleInterrupts(k).intr = k.intr
  BY <1>5, HandleInterruptsKeeps
<1>7. QED
  BY <1>2, <1>3, <1>5, <1>6 DEF Follows

\* A bit of MI_INTR_REG is set; its source still has to be raised.
LEMMA SetKeeps ==
    ASSUME NEW n, NEW W, NEW S \in SUBSET Sources, Ready(n, W)
    PROVE  /\ Ready([n EXCEPT !.intr = @ \cup S], W \cup S)
           /\ Follows(n, [n EXCEPT !.intr = @ \cup S], {})
           /\ [n EXCEPT !.intr = @ \cup S].intr = n.intr \cup S
           /\ [n EXCEPT !.intr = @ \cup S].mask = n.mask
<1> DEFINE k == [n EXCEPT !.intr = @ \cup S]
<1>1. n \in Machine
  BY DEF Ready
<1>2. /\ k \in Machine /\ k.intr = n.intr \cup S /\ k.mask = n.mask
      /\ k.check = n.check /\ k.ip = n.ip /\ k.events = n.events
      /\ k.dropped = n.dropped
  BY <1>1 DEF Machine
<1> HIDE DEF k
<1>3. StaleLine(k) => StaleLine(n)
  BY <1>2 DEF StaleLine
<1>4. /\ "RCP" \in k.ip => k.intr # {}
      /\ \A s \in k.intr \cap k.mask :
            s \in W \cup S \/ s \in Waiting(n) \/ "RCP" \in k.ip
  BY <1>2 DEF Ready
<1>5. Ready(k, W \cup S) /\ Follows(n, k, {})
  BY <1>2, <1>3, <1>4, RegistersKeep
<1>6. QED
  BY <1>2, <1>5 DEF k

\* Trigger_VIInterrupt and its like leave the source in order.
LEMMA TriggerKeeps ==
    ASSUME NEW n, NEW W, NEW source \in Sources, Ready(n, W \cup {source})
    PROVE  /\ Ready(Trigger(n, source), W)
           /\ Follows(n, Trigger(n, source), {})
           /\ Trigger(n, source).intr = n.intr \cup {source}
<1> DEFINE k == [n EXCEPT !.intr = @ \cup {source}]
           U == (W \cup {source}) \cup {source}
<1>1. /\ Ready(k, U) /\ Follows(n, k, {}) /\ k.intr = n.intr \cup {source}
      /\ k.mask = n.mask
  BY SetKeeps
<1>2. Trigger(n, source) = IF source \in n.mask THEN RaiseRCP(k) ELSE k
  BY DEF Trigger
<1> HIDE DEF k
<1>3. CASE source \in n.mask
  <2>1. k.intr \cap k.mask # {}
    BY <1>1, <1>3
  <2> HIDE DEF U
  <2>2. /\ Ready(RaiseRCP(k), W) /\ Follows(k, RaiseRCP(k), {})
        /\ RaiseRCP(k).intr = k.intr
    BY <1>1, <2>1, RaiseKeeps
  <2>3. QED
    BY <1>1, <1>2, <1>3, <2>2 DEF Follows
<1>4. CASE source \notin n.mask
  <2>1. Ready(k, W)
    BY <1>1, <1>4 DEF Ready
  <2>2. QED
    BY <1>1, <1>2, <1>4, <2>1
<1>5. QED
  BY <1>3, <1>4

\* Clear_MIInterrupt takes the line down with the last unmasked source only.
LEMMA ClearKeeps ==
    ASSUME NEW n, NEW W, NEW source, Ready(n, W)
    PROVE  /\ Ready(ClearMI(n, source), W)
           /\ Follows(n, ClearMI(n, source), {})
           /\ ClearMI(n, source).intr = n.intr \ {source}
<1> DEFINE k == ClearMI(n, source)
<1>1. n \in Machine
  BY DEF Ready
<1>2. /\ k \in Machine /\ k.intr = n.intr \ {source} /\ k.mask = n.mask
      /\ k.events = n.events /\ k.dropped = n.dropped /\ k.check \in {FALSE, n.check}
      /\ k.ip = IF k.intr \cap k.mask # {} THEN n.ip ELSE n.ip \ {"RCP"}
  BY <1>1 DEF ClearMI, Machine
<1> HIDE DEF k
<1>3. StaleLine(k) => StaleLine(n)
  BY <1>2 DEF StaleLine
<1>4. /\ "RCP" \in k.ip => k.intr # {}
      /\ \A s \in k.intr \cap k.mask : s \in W \/ s \in Waiting(n) \/ "RCP" \in k.ip
  BY <1>2 DEF Ready
<1>5. Ready(k, W) /\ Follows(n, k, {})
  BY <1>2, <1>3, <1>4, RegistersKeep
<1>6. QED
  BY <1>2, <1>5 DEF k

\* CPU_Check_Interrupts changes neither the MI registers nor the list.
LEMMA CheckKeeps ==
    ASSUME NEW n, NEW W, Ready(n, W)
    PROVE  /\ Ready(CPUCheck(n), W)
           /\ Follows(n, CPUCheck(n), {})
           /\ CPUCheck(n).intr = n.intr
<1> DEFINE k == CPUCheck(n)
<1>1. n \in Machine
  BY DEF Ready
<1>2. /\ k \in Machine /\ k.intr = n.intr /\ k.mask = n.mask /\ k.ip = n.ip
      /\ k.events = n.events /\ k.dropped = n.dropped /\ k.check \in {FALSE, n.check}
  BY <1>1 DEF CPUCheck, Machine
<1> HIDE DEF k
<1>3. StaleLine(k) => StaleLine(n)
  BY <1>2 DEF StaleLine
<1>4. /\ "RCP" \in k.ip => k.intr # {}
      /\ \A s \in k.intr \cap k.mask : s \in W \/ s \in Waiting(n) \/ "RCP" \in k.ip
  BY <1>2 DEF Ready
<1>5. Ready(k, W) /\ Follows(n, k, {})
  BY <1>2, <1>3, <1>4, RegistersKeep
<1>6. QED
  BY <1>2, <1>5 DEF k

\* Trigger_RSPBreak
LEMMA BreakKeeps ==
    ASSUME NEW n, NEW s, NEW W, Ready(n, W), "SP" \in Sources
    PROVE  /\ Ready(RSPBreak(n, s), W)
           /\ Follows(n, RSPBreak(n, s), {})
           /\ RSPBreak(n, s).intr \in {n.intr, n.intr \cup {"SP"}}
           /\ "SI" \in RSPBreak(n, s).intr <=> "SI" \in n.intr
<1>1. Ready(n, W \cup {"SP"})
  BY DEF Ready
<1>2. /\ Ready(Trigger(n, "SP"), W) /\ Follows(n, Trigger(n, "SP"), {})
      /\ Trigger(n, "SP").intr = n.intr \cup {"SP"}
  BY <1>1, TriggerKeeps
<1>3. RSPBreak(n, s) = Trigger(n, "SP") \/ RSPBreak(n, s) = n
  BY DEF RSPBreak
<1>4. Follows(n, n, {})
  BY DEF Follows
<1>5. CASE RSPBreak(n, s) = Trigger(n, "SP")
  BY <1>2, <1>5
<1>6. CASE RSPBreak(n, s) = n
  BY <1>4, <1>6
<1>7. QED
  BY <1>3, <1>5, <1>6

\* The DP bit is looked at: it is set and raised, or not set at all.
LEMMA LookAtDPKeeps ==
    ASSUME NEW n, NEW W, Ready(n, W \cup {"DP"}),
           NEW k, k = IF "DP" \in n.intr THEN Trigger(n, "DP") ELSE n
    PROVE  Ready(k, W) /\ Follows(n, k, {}) /\ k.intr = n.intr
<1>1. CASE "DP" \in n.intr
  <2>1. "DP" \in Sources
    BY <1>1 DEF Ready, Machine
  <2>2. /\ Ready(Trigger(n, "DP"), W) /\ Follows(n, Trigger(n, "DP"), {})
        /\ Trigger(n, "DP").intr = n.intr \cup {"DP"}
    BY <2>1, TriggerKeeps
  <2>3. QED
    BY <1>1, <2>2
<1>2. CASE "DP" \notin n.intr
  BY <1>2 DEF Ready, Follows
<1>3. QED
  BY <1>1, <1>2
----------------------------------------------------------------------------
(* The actions of the program on the interrupt registers *)

\* What an action that leaves the devices alone has to show
LEMMA MachineStep ==
    ASSUME RcpInv, Ready(m', {}), \A t : Backed(m, t) => Backed(m', t),
           UNCHANGED devices, "SI" \in m'.intr <=> "SI" \in m.intr
    PROVE  RcpInv'
<1>1. (Ready(m, {}))' /\ piBusy' \in BOOLEAN /\ si' \in SIState /\ sp' \in SPState
  BY DEF RcpInv, devices, Ready, Machine, Backed, Waiting, Scheduled
<1>2. BusyBacked' /\ SIBitsAgree'
  BY DEF RcpInv, BusyBacked, SIBitsAgree, devices
<1>3. QED
  BY <1>1, <1>2 DEF RcpInv

\* A write to the mask raises what it uncovers.
LEMMA WriteMIMaskKeeps ==
    ASSUME RcpInv, NEW w \in MaskWrites, WriteMIMask(w)
    PROVE  RcpInv'
<1> DEFINE k == [m EXCEPT !.mask = (@ \ w.clear) \cup w.set]
<1>1. Ready(m, {}) /\ m \in Machine /\ w.clear \subseteq Sources /\ w.set \subseteq Sources
  BY WritesAssumption DEF RcpInv, Ready
<1>2. /\ k \in Machine /\ k.intr = m.intr /\ k.check = m.check
      /\ k.ip = m.ip /\ k.events = m.events /\ k.dropped = m.dropped
  BY <1>1 DEF Machine
<1>3. m' = (IF k.mask \cap k.intr # {} THEN RaiseRCP(k) ELSE k) /\ UNCHANGED devices
  BY DEF WriteMIMask, HandleMI
<1> HIDE DEF k
<1>4. \A t : Backed(m, t) <=> Backed(k, t)
  BY <1>2 DEF Backed, Scheduled
<1>5. Ready(k, Sources)
  BY <1>1, <1>2, <1>4 DEF Ready, Machine
<1>6. CASE k.mask \cap k.intr # {}
  <2>1. /\ Ready(RaiseRCP(k), {}) /\ Follows(k, RaiseRCP(k), {})
        /\ RaiseRCP(k).intr = k.intr
    BY <1>5, <1>6, RaiseKeeps
  <2>2. \A t : Backed(m, t) => Backed(m', t)
    BY <1>3, <1>4, <1>6, <2>1 DEF Follows
  <2>3. QED
    BY <1>2, <1>3, <1>6, <2>1, <2>2, MachineStep
<1>7. CASE k.mask \cap k.intr = {}
  <2>1. Ready(k, {})
    BY <1>5, <1>7 DEF Ready
  <2>2. QED
    BY <1>2, <1>3, <1>4, <1>7, <2>1, MachineStep
<1>8. QED
  BY <1>6, <1>7

LEMMA WriteMIModeKeeps ==
    ASSUME RcpInv, NEW clearDP \in BOOLEAN, WriteMIMode(clearDP)
    PROVE  RcpInv' /\ (StaleLine(m') => StaleLine(m))
<1> DEFINE n == IF clearDP THEN ClearMI(m, "DP") ELSE m
           k == IF n.intr \cap n.mask = {} THEN [n EXCEPT !.ip = @ \ {"RCP"}] ELSE n
<1>1. Ready(m, {}) /\ Follows(m, m, {})
  BY DEF RcpInv, Follows
<1>2. Ready(n, {}) /\ Follows(m, n, {}) /\ ("SI" \in n.intr <=> "SI" \in m.intr)
  BY <1>1, ClearKeeps
<1>3. m' = k /\ UNCHANGED devices
  BY DEF WriteMIMode, WriteModeReg
<1> HIDE DEF n
<1>4. /\ k \in Machine /\ k.intr = n.intr /\ k.mask = n.mask /\ k.check = n.check
      /\ k.events = n.events /\ k.dropped = n.dropped
      /\ k.ip = IF n.intr \cap n.mask = {} THEN n.ip \ {"RCP"} ELSE n.ip
  BY <1>2 DEF Ready, Machine
<1> HIDE DEF k
<1>5. StaleLine(k) => StaleLine(n)
  BY <1>4 DEF StaleLine
<1>6. /\ "RCP" \in k.ip => k.intr # {}
      /\ \A s \in k.intr \cap k.mask : s \in {} \/ s \in Waiting(n) \/ "RCP" \in k.ip
  BY <1>2, <1>4 DEF Ready
<1>7. Ready(k, {}) /\ Follows(n, k, {})
  BY <1>2, <1>4, <1>5, <1>6, RegistersKeep
<1>8. \A t : Backed(m, t) => Backed(m', t)
  BY <1>2, <1>3, <1>7 DEF Follows
<1>9. QED
  BY <1>2, <1>3, <1>4, <1>7, <1>8, MachineStep DEF Follows

LEMMA AcknowledgeKeeps ==
    ASSUME RcpInv, NEW source \in {"VI", "AI"}, Acknowledge(source)
    PROVE  RcpInv' /\ (StaleLine(m') => StaleLine(m))
<1>1. m' = ClearMI(m, source) /\ UNCHANGED devices /\ Ready(m, {})
  BY DEF Acknowledge, RcpInv
<1>2. Ready(m', {}) /\ Follows(m, m', {}) /\ m'.intr = m.intr \ {source}
  BY <1>1, ClearKeeps
<1>3. QED
  BY <1>1, <1>2, MachineStep DEF Follows

\* A machine that differs from an orderly one in CPU registers the lemmas do not
\* speak of is orderly.
LEMMA OthersKeep ==
    ASSUME NEW n, NEW k, NEW W, Ready(n, W), k \in Machine,
           k.events = n.events, k.dropped = n.dropped, k.mask = n.mask,
           k.intr = n.intr, k.check = n.check,
           "RCP" \in k.ip <=> "RCP" \in n.ip
    PROVE  Ready(k, W) /\ Follows(n, k, {})
<1>1. \A s \in k.intr \cap k.mask : s \in W \/ s \in Waiting(n) \/ "RCP" \in k.ip
  BY DEF Ready
<1>2. "RCP" \in k.ip => k.intr # {}
  BY DEF Ready
<1>3. StaleLine(k) => StaleLine(n)
  BY DEF StaleLine
<1>4. k.check \in {FALSE, n.check}
  OBVIOUS
<1>5. QED
  BY <1>1, <1>2, <1>3, <1>4, RegistersKeep

LEMMA WriteStatusKeeps ==
    ASSUME RcpInv, NEW v \in StatusValues, WriteStatus(v)
    PROVE  RcpInv' /\ (StaleLine(m') => StaleLine(m))
<1> DEFINE n == IF v.ie /\ ~m.ie /\ m.ip \cap m.im # {} THEN HandleInterrupts(m) ELSE m
           k == [n EXCEPT !.ie = v.ie, !.exl = v.exl, !.im = v.im]
<1>1. Ready(m, {}) /\ Follows(m, m, {})
  BY DEF RcpInv, Follows
<1>2. Ready(n, {}) /\ Follows(m, n, {}) /\ n.intr = m.intr
  BY <1>1, HandleInterruptsKeeps
<1>3. m' = k /\ UNCHANGED devices
  BY DEF WriteStatus, WriteStatusReg
<1>4. v.ie \in BOOLEAN /\ v.exl \in BOOLEAN /\ v.im \in SUBSET Lines
  BY WritesAssumption
<1> HIDE DEF n
<1>5. n \in Machine
  BY <1>2 DEF Ready
<1>6. /\ k \in Machine /\ k.intr = n.intr /\ k.mask = n.mask /\ k.check = n.check
      /\ k.events = n.events /\ k.dropped = n.dropped /\ k.ip = n.ip
  BY <1>4, <1>5 DEF Machine
<1> HIDE DEF k
<1>7. Ready(k, {}) /\ Follows(n, k, {})
  BY <1>2, <1>6, OthersKeep
<1>8. \A t : Backed(m, t) => Backed(m', t)
  BY <1>2, <1>3, <1>7 DEF Follows
<1>9. QED
  BY <1>2, <1>3, <1>6, <1>7, <1>8, MachineStep DEF Follows

LEMMA WriteCauseKeeps ==
    ASSUME RcpInv, NEW on \in BOOLEAN, WriteCause(on)
    PROVE  RcpInv' /\ (StaleLine(m') => StaleLine(m))
<1> DEFINE k == [m EXCEPT !.ip = IF on THEN @ \cup {"SW"} ELSE @ \ {"SW"}]
<1>1. Ready(m, {}) /\ m \in Machine
  BY DEF RcpInv, Ready
<1>2. /\ "SW" \in Lines /\ UNCHANGED devices
      /\ m' = IF k.ip # m.ip /\ on /\ k.ip \cap k.im # {} THEN HandleInterrupts(k) ELSE k
  BY DEF WriteCause, WriteCauseReg
<1>3. /\ k \in Machine /\ k.intr = m.intr /\ k.mask = m.mask /\ k.check = m.check
      /\ k.events = m.events /\ k.dropped = m.dropped
      /\ k.ip = IF on THEN m.ip \cup {"SW"} ELSE m.ip \ {"SW"}
  BY <1>1, <1>2 DEF Machine
<1> HIDE DEF k
<1>4. Ready(k, {}) /\ Follows(m, k, {})
  BY <1>1, <1>3, OthersKeep
<1>5. /\ Ready(HandleInterrupts(k), {}) /\ Follows(k, HandleInterrupts(k), {})
      /\ HandleInterrupts(k).intr = k.intr
  BY <1>4, HandleInterruptsKeeps
<1>6. Ready(m', {}) /\ m'.intr = m.intr /\ Follows(m, m', {})
  BY <1>2, <1>3, <1>4, <1>5 DEF Follows
<1>7. QED
  BY <1>2, <1>6, MachineStep DEF Follows

\* mtc0 COMPARE, ERET and the exceptions touch neither the MI registers nor the
\* line of the RCP.
LEMMA CPURegistersKeep ==
    ASSUME RcpInv, WriteCompare \/ Eret \/ Exception
    PROVE  RcpInv' /\ (StaleLine(m') => StaleLine(m))
<1>1. Ready(m, {}) /\ m \in Machine
  BY DEF RcpInv, Ready
<1>2. /\ m' \in Machine /\ m'.intr = m.intr /\ m'.mask = m.mask /\ m'.check = m.check
      /\ m'.events = m.events /\ m'.dropped = m.dropped
      /\ "RCP" \in m'.ip <=> "RCP" \in m.ip
      /\ UNCHANGED devices
  <2>1. CASE WriteCompare
    BY <1>1, <2>1 DEF WriteCompare, Machine
  <2>2. CASE Eret
    BY <1>1, <2>2 DEF Eret, Machine
  <2>3. CASE Exception
    BY <1>1, <2>3 DEF Exception, Machine
  <2>4. QED
    BY <2>1, <2>2, <2>3
<1>3. Ready(m', {}) /\ Follows(m, m', {})
  BY <1>1, <1>2, OthersKeep
<1>4. QED
  BY <1>2, <1>3, MachineStep DEF Follows

\* A write to COUNT drops events, and remembers that it did.
LEMMA WriteCountKeeps ==
    ASSUME RcpInv, WriteCount
    PROVE  RcpInv' /\ (StaleLine(m') => StaleLine(m))
<1>1. Ready(m, {}) /\ m \in Machine
  BY DEF RcpInv, Ready
<1>2. /\ m' \in Machine /\ m'.intr = m.intr /\ m'.mask = m.mask /\ m'.check = m.check
      /\ m'.ip = m.ip /\ m'.dropped = m.dropped \cup {t \in Tasks : Scheduled(m, t)}
      /\ m'.events = [t \in Types |-> IF t = "VI" THEN "armed" ELSE "off"]
      /\ UNCHANGED devices
  BY <1>1 DEF WriteCount, WriteCountReg, Machine, Phase
<1>3. \A t : Backed(m, t) => Backed(m', t)
  BY <1>2 DEF Backed, Scheduled, Types
<1>4. \A s \in m'.intr \cap m'.mask : s \in Waiting(m') \/ "RCP" \in m'.ip
  BY <1>1, <1>2, <1>3 DEF Ready, Waiting
<1>5. m'.events["VI"] # "off"
  BY <1>2 DEF Types
<1>6. Ready(m', {})
  BY <1>1, <1>2, <1>3, <1>4, <1>5 DEF Ready
<1>7. QED
  BY <1>2, <1>3, <1>6, MachineStep DEF StaleLine
----------------------------------------------------------------------------
(* The actions of the devices *)

\* What an action has to show of a device it changes: the event of every busy
\* engine that was busy before and of every one it made busy.
LEMMA DeviceStep ==
    ASSUME RcpInv, Ready(m', {}),
           piBusy' \in BOOLEAN, si' \in SIState, sp' \in SPState,
           piBusy' => Backed(m', "PI_DMA"),
           si'.dmaBusy => Backed(m', "SI_DMA"),
           si'.ioBusy => Backed(m', "SI_IO"),
           sp'.dmaBusy => Backed(m', "SP_DMA"),
           si'.interrupt <=> "SI" \in m'.intr
    PROVE  RcpInv'
<1>1. (Ready(m, {}))'
  BY DEF Ready, Machine, Backed, Waiting, Scheduled
<1>2. BusyBacked' /\ SIBitsAgree'
  BY DEF BusyBacked, SIBitsAgree
<1>3. QED
  BY <1>1, <1>2 DEF RcpInv

\* What the invariant says of the devices
LEMMA DevicesOf ==
    ASSUME RcpInv
    PROVE  /\ Ready(m, {}) /\ m \in Machine
           /\ piBusy \in BOOLEAN /\ si \in SIState /\ sp \in SPState
           /\ piBusy => Backed(m, "PI_DMA")
           /\ si.dmaBusy => Backed(m, "SI_DMA")
           /\ si.ioBusy => Backed(m, "SI_IO")
           /\ sp.dmaBusy => Backed(m, "SP_DMA")
           /\ si.interrupt <=> "SI" \in m.intr
BY DEF RcpInv, BusyBacked, SIBitsAgree, Ready

\* Trigger, of a machine that is in order
LEMMA TriggerReady ==
    ASSUME NEW n, NEW source \in Sources, Ready(n, {})
    PROVE  /\ Ready(Trigger(n, source), {})
           /\ Follows(n, Trigger(n, source), {})
           /\ Trigger(n, source).intr = n.intr \cup {source}
<1>1. Ready(n, {} \cup {source})
  BY DEF Ready
<1>2. QED
  BY <1>1, TriggerKeeps

LEMMA StartPIKeeps ==
    ASSUME RcpInv, NEW ends \in BOOLEAN, StartPI(ends)
    PROVE  RcpInv' /\ (StaleLine(m') => StaleLine(m))
<1>1. "PI_DMA" \in Types /\ "PI" \in Sources /\ UNCHANGED <<si, sp>>
  BY DevicesAssumption DEF StartPI, Types
<1>2. CASE m.segmented /\ ~ends
  <2>1. m' = Arm(m, "PI_DMA") /\ piBusy' = TRUE
    BY <1>2 DEF StartPI
  <2>2. /\ Ready(m', {}) /\ Follows(m, m', {}) /\ Backed(m', "PI_DMA")
        /\ m'.intr = m.intr
    BY <1>1, <2>1, DevicesOf, ArmKeeps
  <2>3. RcpInv'
    BY <1>1, <2>1, <2>2, DevicesOf, DeviceStep DEF Follows
  <2>4. QED
    BY <2>2, <2>3 DEF Follows
<1>3. CASE ~(m.segmented /\ ~ends)
  <2>1. m' = Trigger(m, "PI") /\ UNCHANGED devices
    BY <1>1, <1>3 DEF StartPI, devices
  <2>2. Ready(m', {}) /\ Follows(m, m', {}) /\ m'.intr = m.intr \cup {"PI"}
    BY <1>1, <2>1, DevicesOf, TriggerReady
  <2>3. QED
    BY <2>1, <2>2, MachineStep DEF Follows
<1>4. QED
  BY <1>2, <1>3

LEMMA WritePIStatusKeeps ==
    ASSUME RcpInv, NEW clear \in BOOLEAN, NEW reset \in BOOLEAN,
           WritePIStatus(clear, reset)
    PROVE  RcpInv' /\ (StaleLine(m') => StaleLine(m))
<1> DEFINE n == IF clear THEN ClearMI(m, "PI") ELSE m
<1>1. /\ "PI" \in Sources /\ UNCHANGED <<si, sp>> /\ piBusy' = (piBusy /\ ~reset)
      /\ m' = IF reset /\ piBusy THEN Trigger(n, "PI") ELSE n
  BY DevicesAssumption DEF WritePIStatus
<1>2. Ready(n, {}) /\ Follows(m, n, {}) /\ ("SI" \in n.intr <=> "SI" \in m.intr)
  <2>1. Follows(m, m, {})
    BY DEF Follows
  <2>2. QED
    BY <2>1, DevicesOf, ClearKeeps
<1> HIDE DEF n
<1>3. /\ Ready(Trigger(n, "PI"), {}) /\ Follows(n, Trigger(n, "PI"), {})
      /\ Trigger(n, "PI").intr = n.intr \cup {"PI"}
  BY <1>1, <1>2, TriggerReady
<1>4. /\ Ready(m', {}) /\ Follows(m, m', {}) /\ ("SI" \in m'.intr <=> "SI" \in m.intr)
  BY <1>1, <1>2, <1>3 DEF Follows
<1>5. RcpInv'
  BY <1>1, <1>4, DevicesOf, DeviceStep DEF Follows
<1>6. QED
  BY <1>4, <1>5 DEF Follows

\* A fired event leaves the list, its interrupt is triggered, and the CPU looks.
LEMMA FiredKeeps ==
    ASSUME NEW n, NEW source \in Sources, Ready(n, {}),
           NEW t \in Types \ {"VI", "CHECK_INTERRUPT", "DELAY_AI"},
           NEW k, k = Trigger(Disarm(n, t), source)
    PROVE  /\ Ready(k, {}) /\ Ready(CPUCheck(k), {})
           /\ Follows(n, k, {t}) /\ Follows(n, CPUCheck(k), {t})
           /\ k.intr = n.intr \cup {source} /\ CPUCheck(k).intr = k.intr
<1>1. Ready(Disarm(n, t), {}) /\ Follows(n, Disarm(n, t), {t}) /\ Disarm(n, t).intr = n.intr
  BY DisarmKeeps
<1>2. /\ Ready(k, {}) /\ Follows(Disarm(n, t), k, {})
      /\ k.intr = Disarm(n, t).intr \cup {source}
  BY <1>1, TriggerReady
<1>3. Ready(CPUCheck(k), {}) /\ Follows(k, CPUCheck(k), {}) /\ CPUCheck(k).intr = k.intr
  BY <1>2, CheckKeeps
<1>4. Follows(n, k, {t}) /\ Follows(n, CPUCheck(k), {t})
  BY <1>1, <1>2, <1>3 DEF Follows
<1>5. QED
  BY <1>1, <1>2, <1>3, <1>4

LEMMA FirePIKeeps ==
    ASSUME RcpInv, FirePI
    PROVE  RcpInv' /\ (StaleLine(m') => StaleLine(m))
<1>1. /\ "PI_DMA" \in Types \ {"VI", "CHECK_INTERRUPT", "DELAY_AI"} /\ "PI" \in Sources
      /\ piBusy' = FALSE /\ UNCHANGED <<si, sp>>
      /\ m' = CPUCheck(Trigger(Disarm(m, "PI_DMA"), "PI"))
  BY DevicesAssumption DEF FirePI, Types
<1>2. Ready(m', {}) /\ Follows(m, m', {"PI_DMA"}) /\ m'.intr = m.intr \cup {"PI"}
  BY <1>1, DevicesOf, FiredKeeps
<1>3. RcpInv'
  BY <1>1, <1>2, DevicesOf, DeviceStep DEF Follows
<1>4. QED
  BY <1>2, <1>3 DEF Follows

LEMMA StartSIKeeps ==
    ASSUME RcpInv, NEW dir \in Directions, StartSI(dir)
    PROVE  RcpInv' /\ (StaleLine(m') => StaleLine(m))
<1>1. "SI_DMA" \in Types /\ "SI" \in Sources /\ UNCHANGED <<piBusy, sp>> /\ si \in SIState
  BY DevicesAssumption, DevicesOf DEF StartSI, Types
<1>2. CASE m.segmented
  <2>1. m' = Arm(m, "SI_DMA") /\ si' = [si EXCEPT !.dir = dir, !.dmaBusy = TRUE]
    BY <1>2 DEF StartSI
  <2>2. /\ Ready(m', {}) /\ Follows(m, m', {}) /\ Backed(m', "SI_DMA")
        /\ m'.intr = m.intr
    BY <1>1, <2>1, DevicesOf, ArmKeeps
  <2>3. /\ si' \in SIState /\ si'.dmaBusy /\ si'.ioBusy = si.ioBusy
        /\ si'.interrupt = si.interrupt
    BY <1>1, <2>1 DEF SIState
  <2>4. RcpInv'
    BY <1>1, <2>2, <2>3, DevicesOf, DeviceStep DEF Follows
  <2>5. QED
    BY <2>2, <2>4 DEF Follows
<1>3. CASE ~m.segmented
  <2>1. m' = Trigger(m, "SI") /\ si' = [si EXCEPT !.interrupt = TRUE]
    BY <1>3 DEF StartSI
  <2>2. Ready(m', {}) /\ Follows(m, m', {}) /\ m'.intr = m.intr \cup {"SI"}
    BY <1>1, <2>1, DevicesOf, TriggerReady
  <2>3. /\ si' \in SIState /\ si'.dmaBusy = si.dmaBusy /\ si'.ioBusy = si.ioBusy
        /\ si'.interrupt = TRUE
    BY <1>1, <2>1 DEF SIState
  <2>4. RcpInv'
    BY <1>1, <2>2, <2>3, DevicesOf, DeviceStep DEF Follows
  <2>5. QED
    BY <2>2, <2>4 DEF Follows
<1>4. QED
  BY <1>2, <1>3

LEMMA WriteSIStatusKeeps ==
    ASSUME RcpInv, WriteSIStatus
    PROVE  RcpInv' /\ (StaleLine(m') => StaleLine(m))
<1>1. /\ m' = ClearMI(m, "SI") /\ si' = [si EXCEPT !.interrupt = FALSE]
      /\ UNCHANGED <<piBusy, sp>> /\ si \in SIState
  BY DevicesOf DEF WriteSIStatus
<1>2. Ready(m', {}) /\ Follows(m, m', {}) /\ m'.intr = m.intr \ {"SI"}
  BY <1>1, DevicesOf, ClearKeeps
<1>3. /\ si' \in SIState /\ si'.dmaBusy = si.dmaBusy /\ si'.ioBusy = si.ioBusy
      /\ si'.interrupt = FALSE
  BY <1>1 DEF SIState
<1>4. RcpInv'
  BY <1>1, <1>2, <1>3, DevicesOf, DeviceStep DEF Follows
<1>5. QED
  BY <1>2, <1>4 DEF Follows

LEMMA FireSIKeeps ==
    ASSUME RcpInv, FireSI
    PROVE  RcpInv' /\ (StaleLine(m') => StaleLine(m))
<1> DEFINE n == Trigger(Disarm(m, "SI_DMA"), "SI")
           k == IF si.dir = "read" THEN Arm(n, "SI_IO") ELSE n
<1>1. /\ "SI_DMA" \in Types \ {"VI", "CHECK_INTERRUPT", "DELAY_AI"} /\ "SI" \in Sources
      /\ "SI_IO" \in Types /\ si \in SIState /\ UNCHANGED <<piBusy, sp>>
      /\ m' = CPUCheck(k)
      /\ si' = [si EXCEPT !.dmaBusy = FALSE, !.interrupt = TRUE,
                          !.ioBusy = @ \/ si.dir = "read"]
  BY DevicesAssumption, DevicesOf DEF FireSI, Types
<1>2. Ready(n, {}) /\ Follows(m, n, {"SI_DMA"}) /\ n.intr = m.intr \cup {"SI"}
  BY <1>1, DevicesOf, FiredKeeps
<1> HIDE DEF n
<1>3. /\ Ready(k, {}) /\ Follows(n, k, {}) /\ k.intr = n.intr
      /\ si.dir = "read" => Backed(k, "SI_IO")
  <2>1. Follows(n, n, {})
    BY DEF Follows
  <2>2. QED
    BY <1>1, <1>2, <2>1, ArmKeeps
<1> HIDE DEF k
<1>4. Ready(m', {}) /\ Follows(k, m', {}) /\ m'.intr = k.intr
  BY <1>1, <1>3, CheckKeeps
<1>5. /\ si' \in SIState /\ si'.dmaBusy = FALSE /\ si'.interrupt = TRUE
      /\ si'.ioBusy => si.ioBusy \/ si.dir = "read"
  BY <1>1 DEF SIState
<1>6. Follows(m, m', {"SI_DMA"}) /\ (si.dir = "read" => Backed(m', "SI_IO"))
  BY <1>2, <1>3, <1>4 DEF Follows
<1>7. RcpInv'
  BY <1>1, <1>2, <1>3, <1>4, <1>5, <1>6, DevicesOf, DeviceStep DEF Follows
<1>8. QED
  BY <1>6, <1>7 DEF Follows

LEMMA FireSIIOKeeps ==
    ASSUME RcpInv, FireSIIO
    PROVE  RcpInv' /\ (StaleLine(m') => StaleLine(m))
<1>1. /\ "SI_IO" \in Types \ {"VI", "CHECK_INTERRUPT", "DELAY_AI"}
      /\ m' = Disarm(m, "SI_IO") /\ si' = [si EXCEPT !.ioBusy = FALSE]
      /\ UNCHANGED <<piBusy, sp>> /\ si \in SIState
  BY DevicesOf DEF FireSIIO, Types
<1>2. Ready(m', {}) /\ Follows(m, m', {"SI_IO"}) /\ m'.intr = m.intr
  BY <1>1, DevicesOf, DisarmKeeps
<1>3. /\ si' \in SIState /\ si'.dmaBusy = si.dmaBusy /\ si'.ioBusy = FALSE
      /\ si'.interrupt = si.interrupt
  BY <1>1 DEF SIState
<1>4. RcpInv'
  BY <1>1, <1>2, <1>3, DevicesOf, DeviceStep DEF Follows
<1>5. QED
  BY <1>2, <1>4 DEF Follows
----------------------------------------------------------------------------
(* The signal processor and the plugins *)

\* The SP keeps its DMA whatever is written to its status or breaks it.
LEMMA SPKeeps ==
    ASSUME sp \in SPState, NEW w
    PROVE  /\ Broken(sp) \in SPState /\ Broken(sp).dmaBusy = sp.dmaBusy
           /\ SPBits(sp, w) \in SPState /\ SPBits(sp, w).dmaBusy = sp.dmaBusy
           /\ Broken(SPBits(sp, w)) \in SPState
           /\ Broken(SPBits(sp, w)).dmaBusy = sp.dmaBusy
BY DEF Broken, SPBits, SPState

LEMMA SPInterruptKeeps ==
    ASSUME NEW n, NEW w, Ready(n, {}), "SP" \in Sources
    PROVE  /\ Ready(SPInterrupt(n, w), {})
           /\ Follows(n, SPInterrupt(n, w), {})
           /\ "SI" \in SPInterrupt(n, w).intr <=> "SI" \in n.intr
<1> DEFINE c == IF "CLR_INTR" \in w THEN ClearMI(n, "SP") ELSE n
           s == [c EXCEPT !.intr = @ \cup {"SP"}]
<1>1. Ready(c, {}) /\ Follows(n, c, {}) /\ ("SI" \in c.intr <=> "SI" \in n.intr)
  <2>1. Follows(n, n, {})
    BY DEF Follows
  <2>2. QED
    BY <2>1, ClearKeeps
<1>2. SPInterrupt(n, w) = IF "SET_INTR" \notin w THEN c
                          ELSE IF s.intr \cap s.mask # {} THEN RaiseRCP(s) ELSE s
  BY DEF SPInterrupt
<1> HIDE DEF c
<1>3. /\ Ready(s, {} \cup {"SP"}) /\ Follows(c, s, {}) /\ s.intr = c.intr \cup {"SP"}
      /\ s.mask = c.mask
  BY <1>1, SetKeeps
<1> HIDE DEF s
<1>4. CASE "SET_INTR" \notin w
  BY <1>1, <1>2, <1>4
<1>5. CASE "SET_INTR" \in w /\ s.intr \cap s.mask # {}
  <2>1. /\ Ready(RaiseRCP(s), {}) /\ Follows(s, RaiseRCP(s), {})
        /\ RaiseRCP(s).intr = s.intr
    BY <1>3, <1>5, RaiseKeeps
  <2>2. QED
    BY <1>1, <1>2, <1>3, <1>5, <2>1 DEF Follows
<1>6. CASE "SET_INTR" \in w /\ s.intr \cap s.mask = {}
  <2>1. Ready(s, {})
    BY <1>3, <1>6 DEF Ready
  <2>2. QED
    BY <1>1, <1>2, <1>3, <1>6, <2>1 DEF Follows
<1>7. QED
  BY <1>4, <1>5, <1>6

LEMMA RunTaskKeeps ==
    ASSUME NEW n, NEW s, NEW dp \in SUBSET (Sources \cap {"DP"}), NEW delayed \in BOOLEAN,
           Ready(n, {}), "SP" \in Sources, "SP_DLIST" \in Types
    PROVE  /\ Ready(RunTask(n, s, dp, delayed), {})
           /\ Follows(n, RunTask(n, s, dp, delayed), {})
           /\ "SI" \in RunTask(n, s, dp, delayed).intr <=> "SI" \in n.intr
<1> DEFINE d == [n EXCEPT !.intr = @ \cup dp]
           e == IF "DP" \in d.intr THEN Trigger(d, "DP") ELSE d
<1>1. Ready(d, {} \cup dp) /\ Follows(n, d, {}) /\ d.intr = n.intr \cup dp
  BY SetKeeps
<1>2. RunTask(n, s, dp, delayed) = IF delayed THEN Arm(e, "SP_DLIST") ELSE RSPBreak(e, s)
  BY DEF RunTask
<1> HIDE DEF d
<1>3. Ready(d, {} \cup {"DP"})
  BY <1>1 DEF Ready
<1>4. Ready(e, {}) /\ Follows(d, e, {}) /\ e.intr = d.intr
  BY <1>3, LookAtDPKeeps
<1> HIDE DEF e
<1>5. /\ Ready(Arm(e, "SP_DLIST"), {}) /\ Follows(e, Arm(e, "SP_DLIST"), {})
      /\ Arm(e, "SP_DLIST").intr = e.intr
  BY <1>4, ArmKeeps
<1>6. /\ Ready(RSPBreak(e, s), {}) /\ Follows(e, RSPBreak(e, s), {})
      /\ "SI" \in RSPBreak(e, s).intr <=> "SI" \in e.intr
  BY <1>4, BreakKeeps
<1>7. "SI" \in e.intr <=> "SI" \in n.intr
  BY <1>1, <1>4
<1>8. QED
  BY <1>1, <1>2, <1>4, <1>5, <1>6, <1>7 DEF Follows

LEMMA WriteSPStatusKeeps ==
    ASSUME RcpInv, NEW w \in SPWrites, WriteSPStatus(w)
    PROVE  RcpInv' /\ (StaleLine(m') => StaleLine(m))
<1> DEFINE n == SPInterrupt(m, w)
           s == SPBits(sp, w)
           runs == "CLR_HALT" \in w /\ "SET_HALT" \notin w
<1>1. /\ "SP" \in Sources /\ "SP_DLIST" \in Types /\ UNCHANGED <<piBusy, si>>
      /\ sp \in SPState
  BY DevicesAssumption, DevicesOf DEF WriteSPStatus, Types
<1>2. Ready(n, {}) /\ Follows(m, n, {}) /\ ("SI" \in n.intr <=> "SI" \in m.intr)
  BY <1>1, DevicesOf, SPInterruptKeeps
<1>3. \/ m' = n
      \/ \E dp \in SUBSET (Sources \cap {"DP"}), delayed \in BOOLEAN :
            m' = RunTask(n, s, dp, delayed)
  <2>1. CASE ~runs
    BY <2>1 DEF WriteSPStatus
  <2>2. CASE runs
    <3>1. PICK dp \in SUBSET (Sources \cap {"DP"}), rspPlugin \in RspPlugin :
             m' = RunTask(n, s, dp, m.segmented /\ ~rspPlugin)
      BY <2>2 DEF WriteSPStatus
    <3>2. (m.segmented /\ ~rspPlugin) \in BOOLEAN
      OBVIOUS
    <3>3. QED
      BY <3>1, <3>2
  <2>3. QED
    BY <2>1, <2>2
<1>4. sp' = s \/ sp' = Broken(s)
  BY DEF WriteSPStatus
<1>5. sp' \in SPState /\ sp'.dmaBusy = sp.dmaBusy
  BY <1>1, <1>4, SPKeeps
<1> HIDE DEF n, s
<1>6. Ready(m', {}) /\ Follows(m, m', {}) /\ ("SI" \in m'.intr <=> "SI" \in m.intr)
  <2>1. CASE m' = n
    BY <1>2, <2>1
  <2>2. ASSUME NEW dp \in SUBSET (Sources \cap {"DP"}), NEW delayed \in BOOLEAN,
               m' = RunTask(n, s, dp, delayed)
        PROVE  /\ Ready(m', {}) /\ Follows(m, m', {})
               /\ "SI" \in m'.intr <=> "SI" \in m.intr
    <3>1. /\ Ready(m', {}) /\ Follows(n, m', {})
          /\ "SI" \in m'.intr <=> "SI" \in n.intr
      BY <1>1, <1>2, <2>2, RunTaskKeeps
    <3>2. QED
      BY <1>2, <3>1 DEF Follows
  <2>3. QED
    BY <1>3, <2>1, <2>2
<1>7. RcpInv'
  BY <1>1, <1>5, <1>6, DevicesOf, DeviceStep DEF Follows
<1>8. QED
  BY <1>6, <1>7 DEF Follows

LEMMA FireDListKeeps ==
    ASSUME RcpInv, FireDList
    PROVE  RcpInv' /\ (StaleLine(m') => StaleLine(m))
<1> DEFINE n == Disarm(m, "SP_DLIST")
           k == RSPBreak(n, sp)
<1>1. /\ "SP_DLIST" \in Types \ {"VI", "CHECK_INTERRUPT", "DELAY_AI"} /\ "SP" \in Sources
      /\ m' = CPUCheck(k) /\ sp' = Broken(sp) /\ UNCHANGED <<piBusy, si>>
      /\ sp \in SPState
  BY DevicesAssumption, DevicesOf DEF FireDList, Types
<1>2. Ready(n, {}) /\ Follows(m, n, {"SP_DLIST"}) /\ n.intr = m.intr
  BY <1>1, DevicesOf, DisarmKeeps
<1> HIDE DEF n
<1>3. Ready(k, {}) /\ Follows(n, k, {}) /\ ("SI" \in k.intr <=> "SI" \in n.intr)
  BY <1>1, <1>2, BreakKeeps
<1> HIDE DEF k
<1>4. Ready(m', {}) /\ Follows(k, m', {}) /\ m'.intr = k.intr
  BY <1>1, <1>3, CheckKeeps
<1>5. Follows(m, m', {"SP_DLIST"})
  BY <1>2, <1>3, <1>4 DEF Follows
<1>6. sp' \in SPState /\ sp'.dmaBusy = sp.dmaBusy
  BY <1>1, SPKeeps
<1>7. RcpInv'
  BY <1>1, <1>2, <1>3, <1>4, <1>5, <1>6, DevicesOf, DeviceStep DEF Follows
<1>8. QED
  BY <1>5, <1>7 DEF Follows

LEMMA StartSPKeeps ==
    ASSUME RcpInv, StartSP
    PROVE  RcpInv' /\ (StaleLine(m') => StaleLine(m))
<1>1. "SP_DMA" \in Types /\ UNCHANGED <<piBusy, si>> /\ sp \in SPState
  BY DevicesOf DEF StartSP, Types
<1>2. CASE m.segmented
  <2>1. m' = Arm(m, "SP_DMA") /\ sp' = [sp EXCEPT !.dmaBusy = TRUE]
    BY <1>2 DEF StartSP
  <2>2. /\ Ready(m', {}) /\ Follows(m, m', {}) /\ Backed(m', "SP_DMA")
        /\ m'.intr = m.intr
    BY <1>1, <2>1, DevicesOf, ArmKeeps
  <2>3. sp' \in SPState
    BY <1>1, <2>1 DEF SPState
  <2>4. RcpInv'
    BY <1>1, <2>2, <2>3, DevicesOf, DeviceStep DEF Follows
  <2>5. QED
    BY <2>2, <2>4 DEF Follows
<1>3. CASE ~m.segmented
  <2>1. m' = m /\ sp' = [sp EXCEPT !.dmaBusy = FALSE, !.halt = TRUE]
    BY <1>3 DEF StartSP
  <2>2. sp' \in SPState /\ ~sp'.dmaBusy
    BY <1>1, <2>1 DEF SPState
  <2>3. RcpInv'
    BY <1>1, <2>1, <2>2, DevicesOf, DeviceStep
  <2>4. QED
    BY <2>1, <2>3
<1>4. QED
  BY <1>2, <1>3

LEMMA FireSPKeeps ==
    ASSUME RcpInv, FireSP
    PROVE  RcpInv' /\ (StaleLine(m') => StaleLine(m))
<1>1. /\ "SP_DMA" \in Types \ {"VI", "CHECK_INTERRUPT", "DELAY_AI"}
      /\ m' = Disarm(m, "SP_DMA") /\ sp' = [sp EXCEPT !.dmaBusy = FALSE, !.halt = TRUE]
      /\ UNCHANGED <<piBusy, si>> /\ sp \in SPState
  BY DevicesOf DEF FireSP, Types
<1>2. Ready(m', {}) /\ Follows(m, m', {"SP_DMA"}) /\ m'.intr = m.intr
  BY <1>1, DevicesOf, DisarmKeeps
<1>3. sp' \in SPState /\ ~sp'.dmaBusy
  BY <1>1 DEF SPState
<1>4. RcpInv'
  BY <1>1, <1>2, <1>3, DevicesOf, DeviceStep DEF Follows
<1>5. QED
  BY <1>2, <1>4 DEF Follows

LEMMA WriteDPCEndKeeps ==
    ASSUME RcpInv, WriteDPCEnd
    PROVE  RcpInv' /\ (StaleLine(m') => StaleLine(m))
<1>1. "DP" \in Sources /\ m' = Trigger(m, "DP") /\ UNCHANGED devices
  BY DEF WriteDPCEnd
<1>2. Ready(m', {}) /\ Follows(m, m', {}) /\ m'.intr = m.intr \cup {"DP"}
  BY <1>1, DevicesOf, TriggerReady
<1>3. QED
  BY <1>1, <1>2, MachineStep DEF Follows

\* An AI interrupt of a plugin is delayed or triggered.
LEMMA PluginAIKeeps ==
    ASSUME NEW n, Ready(n, {"AI"})
    PROVE  /\ Ready(PluginAI(n), {}) /\ Follows(n, PluginAI(n), {})
           /\ PluginAI(n).intr = n.intr
<1>1. CASE "AI" \notin n.intr
  <2>1. PluginAI(n) = n
    BY <1>1 DEF PluginAI
  <2>2. Ready(n, {})
    BY <1>1 DEF Ready
  <2>3. QED
    BY <2>1, <2>2 DEF Follows
<1>2. CASE "AI" \in n.intr
  <2>1. "AI" \in Sources /\ "DELAY_AI" \in Types
    BY <1>2, DevicesAssumption DEF Ready, Machine, Types
  <2>2. CASE n.segmented
    <3> DEFINE k == Arm(n, "DELAY_AI")
    <3>1. Ready(k, {"AI"}) /\ Follows(n, k, {}) /\ Backed(k, "DELAY_AI") /\ k.intr = n.intr
      BY <2>1, ArmKeeps
    <3>2. PluginAI(n) = k
      BY <1>2, <2>2 DEF PluginAI
    <3> HIDE DEF k
    <3>3. Ready(k, {})
      BY <3>1 DEF Ready, Waiting
    <3>4. QED
      BY <3>1, <3>2, <3>3
  <2>3. CASE ~n.segmented
    <3>1. Ready(n, {} \cup {"AI"})
      BY DEF Ready
    <3>2. /\ Ready(Trigger(n, "AI"), {}) /\ Follows(n, Trigger(n, "AI"), {})
          /\ Trigger(n, "AI").intr = n.intr \cup {"AI"}
      BY <2>1, <3>1, TriggerKeeps
    <3>3. PluginAI(n) = Trigger(n, "AI")
      BY <1>2, <2>3 DEF PluginAI
    <3>4. QED
      BY <1>2, <3>2, <3>3
  <2>4. QED
    BY <2>2, <2>3
<1>3. QED
  BY <1>1, <1>2

\* CheckInterrupts looks at every bit the plugins may set.
LEMMA PluginInterruptKeeps ==
    ASSUME RcpInv, NEW set \in SUBSET PluginSources, PluginInterrupt(set)
    PROVE  RcpInv' /\ (StaleLine(m') => StaleLine(m))
<1> DEFINE n == [m EXCEPT !.intr = @ \cup set]
           b == IF "SP" \in n.intr THEN RSPBreak(n, sp) ELSE n
           d == IF "DP" \in b.intr THEN Trigger(b, "DP") ELSE b
<1>1. /\ m' = PluginAI(d) /\ sp' = (IF "SP" \in n.intr THEN Broken(sp) ELSE sp)
      /\ UNCHANGED <<piBusy, si>> /\ sp \in SPState
  BY DevicesOf DEF PluginInterrupt
<1>2. set \subseteq Sources /\ set \subseteq {"SP", "DP", "AI"}
  BY WritesAssumption
<1>3. Ready(n, {} \cup set) /\ Follows(m, n, {}) /\ n.intr = m.intr \cup set
  BY <1>2, DevicesOf, SetKeeps
<1> HIDE DEF n
<1>4. Ready(n, {"AI"} \cup {"DP"})
  BY <1>2, <1>3 DEF Ready, Waiting
<1>5. /\ Ready(b, {"AI"} \cup {"DP"}) /\ Follows(n, b, {})
      /\ "SI" \in b.intr <=> "SI" \in n.intr
  <2>1. CASE "SP" \in n.intr
    <3>1. "SP" \in Sources
      BY <1>4, <2>1 DEF Ready, Machine
    <3>2. QED
      BY <1>4, <2>1, <3>1, BreakKeeps
  <2>2. CASE "SP" \notin n.intr
    BY <1>4, <2>2 DEF Follows
  <2>3. QED
    BY <2>1, <2>2
<1> HIDE DEF b
<1>6. Ready(d, {"AI"}) /\ Follows(b, d, {}) /\ d.intr = b.intr
  BY <1>5, LookAtDPKeeps
<1> HIDE DEF d
<1>7. Ready(m', {}) /\ Follows(d, m', {}) /\ m'.intr = d.intr
  BY <1>1, <1>6, PluginAIKeeps
<1>8. Follows(m, m', {}) /\ ("SI" \in m'.intr <=> "SI" \in m.intr)
  BY <1>2, <1>3, <1>5, <1>6, <1>7 DEF Follows
<1>9. sp' \in SPState /\ sp'.dmaBusy = sp.dmaBusy
  BY <1>1, SPKeeps
<1>10. RcpInv'
  BY <1>1, <1>7, <1>8, <1>9, DevicesOf, DeviceStep DEF Follows
<1>11. QED
  BY <1>8, <1>10 DEF Follows

LEMMA FireAIKeeps ==
    ASSUME RcpInv, FireAI
    PROVE  RcpInv' /\ (StaleLine(m') => StaleLine(m))
<1> DEFINE n == Disarm(m, "DELAY_AI")
           k == Trigger(n, "AI")
<1>1. /\ "DELAY_AI" \in Types /\ "AI" \in Sources /\ UNCHANGED devices /\ m' = CPUCheck(k)
  BY DevicesAssumption DEF FireAI, Types
<1>2. /\ n \in Machine /\ n.intr = m.intr /\ n.mask = m.mask /\ n.ip = m.ip
      /\ n.check = m.check /\ n.dropped = m.dropped
      /\ n.events = [m.events EXCEPT !["DELAY_AI"] = "off"]
      /\ m.events \in [Types -> Phase]
  BY DevicesOf DEF Disarm, Machine, Phase
<1> HIDE DEF n
<1>3. \A t : t # "DELAY_AI" /\ Backed(m, t) => Backed(n, t)
  BY <1>2 DEF Backed, Scheduled
<1>4. Ready(n, {} \cup {"AI"})
  <2>1. \A s \in n.intr \cap n.mask : s \in {"AI"} \/ s \in Waiting(n) \/ "RCP" \in n.ip
    BY <1>2, DevicesOf DEF Ready, Waiting
  <2>2. n.events["VI"] # "off"
    BY <1>2, DevicesOf DEF Ready
  <2>3. QED
    BY <1>2, <1>3, <2>1, <2>2, DevicesOf DEF Ready
<1>5. Ready(k, {}) /\ Follows(n, k, {}) /\ k.intr = n.intr \cup {"AI"}
  BY <1>1, <1>4, TriggerKeeps
<1> HIDE DEF k
<1>6. Ready(m', {}) /\ Follows(k, m', {}) /\ m'.intr = k.intr
  BY <1>1, <1>5, CheckKeeps
<1>7. /\ \A t : t # "DELAY_AI" /\ Backed(m, t) => Backed(m', t)
      /\ StaleLine(m') => StaleLine(m)
  BY <1>2, <1>3, <1>5, <1>6 DEF Follows, StaleLine
<1>8. RcpInv'
  BY <1>1, <1>2, <1>5, <1>6, <1>7, DevicesOf, DeviceStep DEF devices
<1>9. QED
  BY <1>7, <1>8
----------------------------------------------------------------------------
(* The timer *)

LEMMA TickKeeps ==
    ASSUME RcpInv, Tick
    PROVE  RcpInv' /\ (StaleLine(m') => StaleLine(m))
<1>1. /\ UNCHANGED devices /\ m' \in Machine /\ m'.intr = m.intr /\ m'.mask = m.mask
      /\ m'.ip = m.ip /\ m'.check = m.check /\ m'.dropped = m.dropped
      /\ m'.events = [t \in Types |-> IF m.events[t] = "armed" THEN "due" ELSE m.events[t]]
      /\ m.events \in [Types -> Phase]
  BY DevicesOf DEF Tick, Machine, Phase
<1>2. \A t \in Types : m'.events[t] # "off" <=> m.events[t] # "off"
  BY <1>1
<1>3. \A t : Backed(m', t) <=> Backed(m, t)
  BY <1>1, <1>2 DEF Backed, Scheduled
<1>4. Ready(m', {})
  BY <1>1, <1>2, <1>3, DevicesOf DEF Ready, Waiting, Types
<1>5. QED
  BY <1>1, <1>3, <1>4, MachineStep DEF StaleLine

LEMMA FireVIKeeps ==
    ASSUME RcpInv, FireVI
    PROVE  RcpInv' /\ (StaleLine(m') => StaleLine(m))
<1> DEFINE n == Arm(m, "VI")
           k == IF "VI" \in Sources THEN Trigger(n, "VI") ELSE n
<1>1. "VI" \in Types /\ UNCHANGED devices /\ m' = CPUCheck(k)
  BY DEF FireVI, Types
<1>2. Ready(n, {}) /\ Follows(m, n, {}) /\ n.intr = m.intr
  BY <1>1, DevicesOf, ArmKeeps
<1> HIDE DEF n
<1>3. Ready(k, {}) /\ Follows(n, k, {}) /\ ("SI" \in k.intr <=> "SI" \in n.intr)
  <2>1. Follows(n, n, {})
    BY DEF Follows
  <2>2. QED
    BY <1>2, <2>1, TriggerReady
<1> HIDE DEF k
<1>4. Ready(m', {}) /\ Follows(k, m', {}) /\ m'.intr = k.intr
  BY <1>1, <1>3, CheckKeeps
<1>5. Follows(m, m', {})
  BY <1>2, <1>3, <1>4 DEF Follows
<1>6. QED
  BY <1>1, <1>2, <1>3, <1>4, <1>5, MachineStep DEF Follows

LEMMA FireCompareKeeps ==
    ASSUME RcpInv, FireCompare
    PROVE  RcpInv' /\ (StaleLine(m') => StaleLine(m))
<1> DEFINE n == [m EXCEPT !.ip = @ \cup {"TIMER"}]
           k == HandleInterrupts(n)
<1>1. "TIMER" \in Lines /\ UNCHANGED devices /\ m' = CPUCheck(k)
  BY DEF FireCompare, TriggerCompare
<1>2. /\ n \in Machine /\ n.intr = m.intr /\ n.mask = m.mask /\ n.check = m.check
      /\ n.events = m.events /\ n.dropped = m.dropped
      /\ "RCP" \in n.ip <=> "RCP" \in m.ip
  BY <1>1, DevicesOf DEF Machine
<1> HIDE DEF n
<1>3. Ready(n, {}) /\ Follows(m, n, {})
  BY <1>2, DevicesOf, OthersKeep
<1>4. Ready(k, {}) /\ Follows(n, k, {}) /\ k.intr = n.intr
  BY <1>3, HandleInterruptsKeeps
<1> HIDE DEF k
<1>5. Ready(m', {}) /\ Follows(k, m', {}) /\ m'.intr = k.intr
  BY <1>1, <1>4, CheckKeeps
<1>6. Follows(m, m', {})
  BY <1>3, <1>4, <1>5 DEF Follows
<1>7. QED
  BY <1>1, <1>2, <1>4, <1>5, <1>6, MachineStep DEF Follows

\* The poll leaves the list only when there is nothing to poll for.
LEMMA FireCheckKeeps ==
    ASSUME RcpInv, FireCheck
    PROVE  RcpInv' /\ (StaleLine(m') => StaleLine(m))
<1> DEFINE n == CPUCheck(Disarm(m, "CHECK_INTERRUPT"))
<1>1. /\ "CHECK_INTERRUPT" \in Types /\ UNCHANGED devices
      /\ m' = IF n.check THEN Arm(n, "CHECK_INTERRUPT") ELSE n
  BY TasksAssumption DEF FireCheck, Types
<1>2. /\ n \in Machine /\ n.intr = m.intr /\ n.mask = m.mask /\ n.ip = m.ip
      /\ n.dropped = m.dropped
      /\ n.events = [m.events EXCEPT !["CHECK_INTERRUPT"] = "off"]
      /\ m.events \in [Types -> Phase]
  BY DevicesOf DEF Disarm, CPUCheck, Machine, Phase
<1> HIDE DEF n
<1>3. /\ m' \in Machine /\ m'.intr = m.intr /\ m'.mask = m.mask /\ m'.ip = m.ip
      /\ \A t : t # "CHECK_INTERRUPT" /\ Backed(m, t) => Backed(m', t)
      /\ m'.check => Backed(m', "CHECK_INTERRUPT")
      /\ m'.events["VI"] # "off"
  <2>1. CASE n.check
    <3>1. /\ m' \in Machine /\ m'.intr = n.intr /\ m'.mask = n.mask /\ m'.ip = n.ip
          /\ m'.events = [n.events EXCEPT !["CHECK_INTERRUPT"] = "armed"]
          /\ m'.dropped = n.dropped \ {"CHECK_INTERRUPT"}
      BY <1>1, <1>2, <2>1 DEF Arm, Machine, Phase
    <3>2. m'.events = [m.events EXCEPT !["CHECK_INTERRUPT"] = "armed"]
      BY <1>2, <3>1
    <3>3. m'.events["VI"] # "off"
      BY <1>1, <1>2, <3>2, DevicesOf DEF Ready, Types
    <3>4. \A t : t # "CHECK_INTERRUPT" /\ Backed(m, t) => Backed(m', t)
      BY <1>2, <3>1, <3>2 DEF Backed, Scheduled
    <3>5. Backed(m', "CHECK_INTERRUPT")
      BY <1>1, <1>2, <3>2 DEF Backed, Scheduled
    <3>6. QED
      BY <1>2, <3>1, <3>3, <3>4, <3>5
  <2>2. CASE ~n.check
    <3>1. m' = n
      BY <1>1, <2>2
    <3>2. m'.events["VI"] # "off"
      BY <1>1, <1>2, <3>1, DevicesOf DEF Ready, Types
    <3>3. \A t : t # "CHECK_INTERRUPT" /\ Backed(m, t) => Backed(m', t)
      BY <1>2, <3>1 DEF Backed, Scheduled
    <3>4. ~m'.check
      BY <2>2, <3>1
    <3>5. /\ m' \in Machine /\ m'.intr = m.intr /\ m'.mask = m.mask
          /\ m'.ip = m.ip
      BY <1>2, <3>1
    <3>6. QED
      BY <3>2, <3>3, <3>4, <3>5
  <2>3. QED
    BY <2>1, <2>2
<1>4. \A s \in m'.intr \cap m'.mask : s \in Waiting(m') \/ "RCP" \in m'.ip
  BY <1>3, DevicesOf DEF Ready, Waiting
<1>5. Ready(m', {})
  BY <1>3, <1>4, DevicesOf DEF Ready
<1>6. RcpInv'
  BY <1>1, <1>3, <1>5, DevicesOf, DeviceStep DEF devices
<1>7. QED
  BY <1>3, <1>6 DEF StaleLine

LEMMA StutterKeeps ==
    ASSUME RcpInv, UNCHANGED vars
    PROVE  RcpInv' /\ (StaleLine(m') => StaleLine(m))
<1>1. m' = m /\ UNCHANGED devices
  BY DEF vars, devices
<1>2. Ready(m', {})
  BY <1>1, DevicesOf
<1>3. QED
  BY <1>1, <1>2, MachineStep
----------------------------------------------------------------------------
(* The actions put together *)

LEMMA ProgramKeeps ==
    ASSUME RcpInv, Program, \A w \in MaskWrites : ~WriteMIMask(w)
    PROVE  RcpInv' /\ (StaleLine(m') => StaleLine(m))
<1>1. CASE \E clearDP \in BOOLEAN : WriteMIMode(clearDP)
  BY <1>1, WriteMIModeKeeps
<1>2. CASE \E source \in {"VI", "AI"} : Acknowledge(source)
  BY <1>2, AcknowledgeKeeps
<1>3. CASE \E v \in StatusValues : WriteStatus(v)
  BY <1>3, WriteStatusKeeps
<1>4. CASE \E on \in BOOLEAN : WriteCause(on)
  BY <1>4, WriteCauseKeeps
<1>5. CASE WriteCompare \/ Eret \/ Exception
  BY <1>5, CPURegistersKeep
<1>6. CASE WriteCount
  BY <1>6, WriteCountKeeps
<1>7. CASE \E ends \in BOOLEAN : StartPI(ends)
  BY <1>7, StartPIKeeps
<1>8. CASE \E clear, reset \in BOOLEAN : WritePIStatus(clear, reset)
  BY <1>8, WritePIStatusKeeps
<1>9. CASE \E dir \in Directions : StartSI(dir)
  BY <1>9, StartSIKeeps
<1>10. CASE WriteSIStatus
  BY <1>10, WriteSIStatusKeeps
<1>11. CASE \E w \in SPWrites : WriteSPStatus(w)
  BY <1>11, WriteSPStatusKeeps
<1>12. CASE StartSP
  BY <1>12, StartSPKeeps
<1>13. CASE WriteDPCEnd
  BY <1>13, WriteDPCEndKeeps
<1>14. QED
  BY <1>1, <1>2, <1>3, <1>4, <1>5, <1>6, <1>7, <1>8, <1>9, <1>10, <1>11,
     <1>12, <1>13 DEF Program

\* Every step preserves the invariant, and only a write to the mask makes the
\* line stale.
LEMMA StepKeeps ==
    ASSUME RcpInv, [Next]_vars
    PROVE  /\ RcpInv'
           /\ \/ \E w \in MaskWrites : WriteMIMask(w)
              \/ StaleLine(m') => StaleLine(m)
<1>1. CASE \E w \in MaskWrites : WriteMIMask(w)
  BY <1>1, WriteMIMaskKeeps
<1>2. CASE Program /\ \A w \in MaskWrites : ~WriteMIMask(w)
  BY <1>2, ProgramKeeps
<1>3. CASE Plugin
  BY <1>3, PluginInterruptKeeps DEF Plugin
<1>4. CASE Tick
  BY <1>4, TickKeeps
<1>5. CASE FireVI
  BY <1>5, FireVIKeeps
<1>6. CASE FireCompare
  BY <1>6, FireCompareKeeps
<1>7. CASE FireCheck
  BY <1>7, FireCheckKeeps
<1>8. CASE FirePI
  BY <1>8, FirePIKeeps
<1>9. CASE FireSI
  BY <1>9, FireSIKeeps
<1>10. CASE FireSIIO
  BY <1>10, FireSIIOKeeps
<1>11. CASE FireSP
  BY <1>11, FireSPKeeps
<1>12. CASE FireDList
  BY <1>12, FireDListKeeps
<1>13. CASE FireAI
  BY <1>13, FireAIKeeps
<1>14. CASE UNCHANGED vars
  BY <1>14, StutterKeeps
<1>15. QED
  BY <1>1, <1>2, <1>3, <1>4, <1>5, <1>6, <1>7, <1>8, <1>9, <1>10, <1>11,
     <1>12, <1>13, <1>14 DEF Next, Timer

LEMMA InitKeeps ==
    ASSUME Init
    PROVE  RcpInv
<1>1. PICK segmented \in Segmentation :
          m = [segmented |-> segmented, ie |-> FALSE, exl |-> FALSE, im |-> {},
               ip |-> {}, intr |-> {}, mask |-> {}, check |-> FALSE,
               events |-> [t \in Types |-> IF t = "VI" THEN "armed" ELSE "off"],
               dropped |-> {}]
  BY DEF Init
<1>2. m \in Machine
  BY <1>1, SegmentationAssumption DEF Machine, Phase
<1>3. m.events["VI"] # "off"
  BY <1>1 DEF Types
<1>4. m.intr = {} /\ m.ip = {} /\ ~m.check
  BY <1>1
<1>5. Ready(m, {})
  BY <1>2, <1>3, <1>4 DEF Ready
<1>6. /\ piBusy \in BOOLEAN /\ si \in SIState /\ sp \in SPState
      /\ ~piBusy /\ ~si.dmaBusy /\ ~si.ioBusy /\ ~si.interrupt /\ ~sp.dmaBusy
  BY DEF Init, SIState, SPState, Directions
<1>7. QED
  BY <1>4, <1>5, <1>6 DEF RcpInv, BusyBacked, SIBitsAgree

\* What the invariant says of the machine.
LEMMA InvImplies ==
    ASSUME RcpInv
    PROVE  TypeOK /\ LineRaised /\ LineHasSource /\ PollAlive
<1>1. Ready(m, {}) /\ piBusy \in BOOLEAN /\ si \in SIState /\ sp \in SPState
  BY DEF RcpInv
<1>2. TypeOK
  BY <1>1 DEF Ready, TypeOK, Scheduled, Types
<1>3. LineRaised
  BY <1>1 DEF Ready, LineRaised
<1>4. LineHasSource /\ PollAlive
  BY <1>1 DEF Ready, LineHasSource, PollAlive
<1>5. QED
  BY <1>2, <1>3, <1>4
----------------------------------------------------------------------------
(* Theorems *)

\* The inductive invariant holds of every state of every execution: whatever
\* the program writes and whenever the events fire, the machine is in order
\* between two calls of the functions of interrupt.c and dma.c.
THEOREM RcpInvariant == Spec => []RcpInv
<1>1. Init => RcpInv
  BY InitKeeps
<1>2. RcpInv /\ [Next]_vars => RcpInv'
  BY StepKeeps
<1>3. QED
  BY <1>1, <1>2, PTL DEF Spec

\* Registers and events keep their types, and the VI event stays in the list.
THEOREM RcpTypes == Spec => []TypeOK
<1>1. RcpInv => TypeOK
  BY InvImplies
<1>2. QED
  BY <1>1, RcpInvariant, PTL

\* No RCP interrupt is lost: Clear_MIInterrupt, Handle_MI and the triggers leave
\* the CPU's line up while an unmasked interrupt is pending (interrupt.c:160).
THEOREM NoInterruptLost == Spec => []LineRaised
<1>1. RcpInv => LineRaised
  BY InvImplies
<1>2. QED
  BY <1>1, RcpInvariant, PTL

\* The exception handler always finds a source in MI_INTR_REG, masked or not.
THEOREM NoInterruptOfNobody == Spec => []LineHasSource
<1>1. RcpInv => LineHasSource
  BY InvImplies
<1>2. QED
  BY <1>1, RcpInvariant, PTL

\* CPUNeedToCheckInterrupt never stays set without a check in the event list,
\* but for a write to COUNT.
THEOREM PollNeverDies == Spec => []PollAlive
<1>1. RcpInv => PollAlive
  BY InvImplies
<1>2. QED
  BY <1>1, RcpInvariant, PTL

\* No DMA engine is busy for ever: the event that ends the transfer is in the
\* list, but for a write to COUNT.
THEOREM NoEngineStuck == Spec => []BusyBacked
<1>1. RcpInv => BusyBacked
  BY DEF RcpInv
<1>2. QED
  BY <1>1, RcpInvariant, PTL

\* SI_STATUS and MI_INTR_REG tell the program the same about the SI.
THEOREM SIBitsNeverDisagree == Spec => []SIBitsAgree
<1>1. RcpInv => SIBitsAgree
  BY DEF RcpInv
<1>2. QED
  BY <1>1, RcpInvariant, PTL

\* Only a write to MI_INTR_MASK_REG leaves the line up over no unmasked source.
THEOREM LineStaleOnlyByMask == Spec => StaleOnlyByMask
<1>1. RcpInv /\ [Next]_vars =>
          [~StaleLine(m) /\ StaleLine(m') => \E w \in MaskWrites : WriteMIMask(w)]_vars
  BY StepKeeps
<1>2. QED
  BY <1>1, RcpInvariant, PTL DEF Spec, StaleOnlyByMask

----------------------------------------------------------------------------
(* The TLB: the direct table holds exactly what the entries say, as long as  *)
(* the game uses global entries and keeps them apart.                        *)

\* e, entered into the table, maps page p.
Maps(e, p) == Covers(e, p) /\ HalfOf(e, p).v

\* What a valid entry looks like in a buffer of global entries.
Sound(e) == Valid(e) => e.g /\ e.size # 0
Shape(e) == e.base \in Int /\ e.size \in Nat

Shaped == tlb \in [Index -> Entry] /\ table \in [Page -> Nat \cup {Unmapped}]
Entries == \A i \in Index : Sound(tlb[i])
KeptApart == \A i, j \in Index : i # j /\ Valid(tlb[i]) /\ Valid(tlb[j]) => Apart(tlb[i], tlb[j])
ExactAt(p) ==
    /\ \A i \in Index : Maps(tlb[i], p) => table[p] = Real(tlb[i], p)
    /\ (\A i \in Index : ~Maps(tlb[i], p)) => table[p] = Unmapped
Exact == \A p \in Page : ExactAt(p)

HiOK == hi \in [page : Page, asid : Asids]
IndexOK == index \in [i : Index, miss : BOOLEAN]
IInv == Shaped /\ HiOK /\ IndexOK /\ Entries /\ KeptApart /\ Exact

-------------------------------------------------------------------------------
(* Arithmetic *)

\* Rounding a page down to a multiple of n stays within the pages.
LEMMA RoundDown ==
    ASSUME NEW x \in Nat, NEW n \in Nat \ {0}
    PROVE  x % n \in Nat /\ x % n < n /\ x % n <= x
<1>1. x % n \in 0 .. n - 1
  OBVIOUS
<1>2. x = n * (x \div n) + (x % n) /\ x \div n \in Int
  OBVIOUS
<1>3. x \div n >= 0
  <2>1. CASE x \div n <= -1
    <3>1. n * (x \div n) <= n * (-1)
      BY <1>2, <2>1
    <3> QED BY <1>1, <1>2, <3>1
  <2> QED BY <1>2, <2>1
<1>4. n * (x \div n) >= 0
  BY <1>2, <1>3
<1> QED BY <1>1, <1>2, <1>4

\* A real page is a natural number.
LEMMA RealNat ==
    ASSUME NEW e \in Entry, NEW p \in Page
    PROVE  Real(e, p) \in Nat
<1>1. HalfOf(e, p) \in Half /\ e.size \in Nat /\ p \in Nat
  BY SizeAssumption DEF Entry, HalfOf, Page
<1>2. HalfOf(e, p).f \in Nat
  BY <1>1 DEF Half
<1>3. CASE e.size = 0
  BY <1>3 DEF Real
<1>4. CASE e.size # 0
  <2>1. HalfOf(e, p).f % e.size \in Nat /\ HalfOf(e, p).f % e.size <= HalfOf(e, p).f
    BY <1>1, <1>2, <1>4, RoundDown
  <2>2. p % e.size \in Nat
    BY <1>1, <1>4, RoundDown
  <2> QED BY <1>2, <1>4, <2>1, <2>2 DEF Real
<1> QED BY <1>1, <1>3, <1>4

\* Entries apart from each other have no page in common.
LEMMA ApartPages ==
    ASSUME NEW e \in Entry, NEW d \in Entry, NEW p \in Page,
           e.size # 0, d.size # 0, Apart(e, d), Covers(e, p)
    PROVE  ~Covers(d, p)
<1>1. e.base \in Int /\ d.base \in Int /\ e.size \in Int /\ d.size \in Int /\ p \in Int
  BY SizeAssumption DEF Entry, Page
<1> QED BY <1>1 DEF Apart, Covers

LEMMA MapsValid ==
    ASSUME NEW e \in Entry, NEW p \in Page, Maps(e, p)
    PROVE  Valid(e) /\ Covers(e, p)
BY DEF Maps, HalfOf, Valid

-------------------------------------------------------------------------------
(* The table *)

\* Writing entry new over entry i, when new is apart from the other valid
\* entries, leaves the table exact.
LEMMA RefreshExact ==
    ASSUME Shaped, Entries, KeptApart, Exact,
           NEW i \in Index, NEW new \in Entry, Sound(new), Free(i, new),
           tlb' = [tlb EXCEPT ![i] = new], table' = Refreshed(tlb[i], new)
    PROVE  Shaped' /\ Entries' /\ KeptApart' /\ Exact'
<1> DEFINE old == tlb[i]
<1>1. tlb \in [Index -> Entry] /\ old \in Entry
  BY DEF Shaped
<1>2. tlb'[i] = new /\ \A j \in Index \ {i} : tlb'[j] = tlb[j]
  BY <1>1
<1>3. tlb' \in [Index -> Entry]
  BY <1>1
<1>4. Entries'
  BY <1>2 DEF Entries, Sound, Valid
<1>5. KeptApart'
  <2> SUFFICES ASSUME NEW j \in Index, NEW k \in Index, j # k,
                      Valid(tlb'[j]), Valid(tlb'[k])
               PROVE  Apart(tlb'[j], tlb'[k])
    BY DEF KeptApart, Valid, Apart
  <2>1. CASE j = i
    <3>1. tlb'[j] = new /\ tlb'[k] = tlb[k] /\ Valid(new) /\ Valid(tlb[k]) /\ k \in Index \ {i}
      BY <1>2, <2>1
    <3> QED BY <3>1 DEF Free
  <2>2. CASE k = i
    <3>1. tlb'[k] = new /\ tlb'[j] = tlb[j] /\ Valid(new) /\ Valid(tlb[j]) /\ j \in Index \ {i}
      BY <1>2, <2>2
    <3>2. Apart(new, tlb[j])
      BY <3>1 DEF Free
    <3> QED BY <3>1, <3>2 DEF Apart
  <2>3. CASE j # i /\ k # i
    BY <1>2, <2>3 DEF KeptApart
  <2> QED BY <2>1, <2>2, <2>3
<1>6. table' \in [Page -> Nat \cup {Unmapped}]
  <2>1. ASSUME NEW t \in [Page -> Nat \cup {Unmapped}], NEW e \in Entry
        PROVE  /\ Built(t, e) \in [Page -> Nat \cup {Unmapped}]
               /\ Cleared(t, e) \in [Page -> Nat \cup {Unmapped}]
    <3>1. \A p \in Page : Real(e, p) \in Nat
      BY <2>1, RealNat
    <3> QED BY <2>1, <3>1 DEF Built, Cleared
  <2>2. table \in [Page -> Nat \cup {Unmapped}]
    BY DEF Shaped
  <2>3. Cleared(table, old) \in [Page -> Nat \cup {Unmapped}]
    BY <1>1, <2>1, <2>2
  <2>4. Built(Cleared(table, old), new) \in [Page -> Nat \cup {Unmapped}]
    BY <2>1, <2>3
  <2>5. Built(table, new) \in [Page -> Nat \cup {Unmapped}]
    BY <2>1, <2>2
  <2> QED BY <2>2, <2>3, <2>4, <2>5 DEF Refreshed
<1>7. Exact'
  <2> SUFFICES ASSUME NEW p \in Page
               PROVE  /\ \A j \in Index : Maps(tlb'[j], p) => table'[p] = Real(tlb'[j], p)
                      /\ (\A j \in Index : ~Maps(tlb'[j], p)) => table'[p] = Unmapped
    BY DEF Exact, ExactAt, Maps, Covers, HalfOf, Real
  <2>1. /\ \A j \in Index : Maps(tlb[j], p) => table[p] = Real(tlb[j], p)
        /\ (\A j \in Index : ~Maps(tlb[j], p)) => table[p] = Unmapped
    BY DEF Exact, ExactAt
  <2>2. Sound(old) /\ old \in Entry /\ \A j \in Index : tlb[j] \in Entry /\ Sound(tlb[j])
    BY <1>1 DEF Entries
  <2>3. \* Another entry does not map what the new or the old one maps.
        ASSUME NEW j \in Index \ {i}, Maps(tlb[j], p)
        PROVE  ~Maps(new, p) /\ ~Maps(old, p)
    <3>1. Valid(tlb[j]) /\ Covers(tlb[j], p) /\ tlb[j].size # 0
      BY <2>2, <2>3, MapsValid DEF Sound
    <3>2. ASSUME Maps(new, p) PROVE FALSE
      <4>1. Valid(new) /\ Covers(new, p) /\ new.size # 0
        BY <3>2, MapsValid DEF Sound
      <4>2. Apart(new, tlb[j])
        BY <3>1, <4>1 DEF Free
      <4> QED BY <2>2, <3>1, <4>1, <4>2, ApartPages
    <3>3. ASSUME Maps(old, p) PROVE FALSE
      <4>1. Valid(old) /\ Covers(old, p) /\ old.size # 0
        BY <2>2, <3>3, MapsValid DEF Sound
      <4>2. Apart(old, tlb[j])
        BY <3>1, <4>1 DEF KeptApart
      <4> QED BY <2>2, <3>1, <4>1, <4>2, ApartPages
    <3> QED BY <3>2, <3>3
  <2>4. table'[p] = IF Maps(new, p) THEN Real(new, p)
                    ELSE IF Maps(old, p) THEN Unmapped ELSE table[p]
    <3>1. ASSUME NEW e \in Entry, Sound(e), NEW t
          PROVE  /\ Built(t, e)[p] = IF Maps(e, p) THEN Real(e, p) ELSE t[p]
                 /\ Cleared(t, e)[p] = IF Maps(e, p) THEN Unmapped ELSE t[p]
      <4>1. Maps(e, p) => e.g
        BY <3>1, MapsValid DEF Sound
      <4> QED BY <4>1 DEF Built, Cleared, Maps
    <3>2. CASE old = new
      <4>1. table' = table
        BY <3>2 DEF Refreshed
      <4>2. Maps(old, p) => table[p] = Real(old, p)
        BY <2>1
      <4> QED BY <3>2, <4>1, <4>2
    <3>3. CASE old # new /\ ~Valid(old) /\ ~Valid(new)
      <4>1. table' = table
        BY <3>3 DEF Refreshed
      <4> QED BY <2>2, <3>3, <4>1, MapsValid
    <3>4. CASE old # new /\ ~Valid(old) /\ Valid(new)
      <4>1. table' = Built(table, new)
        BY <3>4 DEF Refreshed
      <4> QED BY <2>2, <3>1, <3>4, <4>1, MapsValid
    <3>5. CASE old # new /\ Valid(old) /\ ~Valid(new)
      <4>1. table' = Cleared(table, old)
        BY <3>5 DEF Refreshed
      <4> QED BY <2>2, <3>1, <3>5, <4>1, MapsValid
    <3>6. CASE old # new /\ Valid(old) /\ Valid(new)
      <4>1. table' = Built(Cleared(table, old), new)
        BY <3>6 DEF Refreshed
      <4>2. Cleared(table, old)[p] = IF Maps(old, p) THEN Unmapped ELSE table[p]
        BY <2>2, <3>1
      <4>3. table'[p] = IF Maps(new, p) THEN Real(new, p) ELSE Cleared(table, old)[p]
        BY <3>1, <4>1
      <4> QED BY <4>2, <4>3
    <3> QED BY <3>2, <3>3, <3>4, <3>5, <3>6
  <2>5. ASSUME NEW j \in Index, Maps(tlb'[j], p)
        PROVE  table'[p] = Real(tlb'[j], p)
    <3>1. CASE j = i
      BY <1>2, <2>4, <2>5, <3>1
    <3>2. CASE j # i
      <4>1. Maps(tlb[j], p) /\ tlb'[j] = tlb[j]
        BY <1>2, <2>5, <3>2
      <4> QED BY <2>1, <2>3, <2>4, <3>2, <4>1
    <3> QED BY <3>1, <3>2
  <2>6. ASSUME \A j \in Index : ~Maps(tlb'[j], p)
        PROVE  table'[p] = Unmapped
    <3>1. ~Maps(new, p) /\ \A j \in Index \ {i} : ~Maps(tlb[j], p)
      BY <1>2, <2>6
    <3>2. CASE Maps(old, p)
      BY <2>4, <3>1, <3>2
    <3>3. CASE ~Maps(old, p)
      <4>1. \A j \in Index : ~Maps(tlb[j], p)
        BY <3>1, <3>3
      <4> QED BY <2>1, <2>4, <3>1, <3>3, <4>1
    <3> QED BY <3>2, <3>3
  <2> QED BY <2>5, <2>6
<1> QED BY <1>3, <1>4, <1>5, <1>6, <1>7 DEF Shaped

-------------------------------------------------------------------------------
(* The inductive invariant *)

LEMMA InitInv ==
    ASSUME TlbInit
    PROVE  IInv
<1>1. Blank \in Entry /\ ~Valid(Blank) /\ \A p \in Page : ~Maps(Blank, p)
  BY SizeAssumption DEF Blank, Entry, Half, Page, Valid, Maps, HalfOf
<1>2. Shaped /\ HiOK /\ IndexOK
  BY <1>1, SizeAssumption DEF TlbInit, Shaped, HiOK, IndexOK, Page, Index
<1>3. Entries /\ KeptApart
  BY <1>1 DEF TlbInit, Entries, KeptApart, Sound
<1>4. Exact
  BY <1>1 DEF TlbInit, Exact, ExactAt
<1> QED BY <1>2, <1>3, <1>4 DEF IInv

\* What the registers write is an entry, and a global one.
LEMMA WrittenEntry ==
    ASSUME HiOK, Globals = {TRUE},
           NEW size \in Sizes, NEW g \in Globals, NEW lo0 \in Halves, NEW lo1 \in Halves
    PROVE  Written(size, g, lo0, lo1) \in Entry /\ Sound(Written(size, g, lo0, lo1))
<1>1. hi.page \in Page /\ hi.asid \in Asids /\ hi.page \in Nat
  BY SizeAssumption DEF HiOK, Page
<1>2. 2 * size \in Nat \ {0} /\ size \in Nat \ {0}
  BY SizeAssumption
<1>3. hi.page % (2 * size) \in Nat /\ hi.page % (2 * size) <= hi.page
  BY <1>1, <1>2, RoundDown
<1>4. hi.page - (hi.page % (2 * size)) \in Page
  BY <1>1, <1>3, SizeAssumption DEF Page
<1>5. g = TRUE /\ lo0 \in Half /\ lo1 \in Half
  BY SizeAssumption
<1> QED BY <1>1, <1>2, <1>4, <1>5 DEF Written, Entry, Sound

LEMMA TlbwiStep ==
    ASSUME IInv, Globals = {TRUE}, Tlbwi
    PROVE  IInv'
<1>1. PICK size \in Sizes, g \in Globals, lo0 \in Halves, lo1 \in Halves :
          /\ Free(index.i, Written(size, g, lo0, lo1))
          /\ Refresh(index.i, Written(size, g, lo0, lo1))
  BY DEF Tlbwi
<1>2. index.i \in Index
  BY DEF IInv, IndexOK
<1>3. Shaped' /\ Entries' /\ KeptApart' /\ Exact'
  BY <1>1, <1>2, WrittenEntry, RefreshExact DEF IInv, Refresh
<1>4. HiOK' /\ IndexOK'
  BY DEF IInv, Tlbwi, HiOK, IndexOK
<1> QED BY <1>3, <1>4 DEF IInv

LEMMA TlbwrStep ==
    ASSUME IInv, Globals = {TRUE}, Tlbwr
    PROVE  IInv'
<1>1. PICK i \in Wired .. Last, size \in Sizes, g \in Globals, lo0 \in Halves, lo1 \in Halves :
          \E v \in Victim(i) : /\ Free(v, Written(size, g, lo0, lo1))
                               /\ Refresh(v, Written(size, g, lo0, lo1))
  BY DEF Tlbwr
<1>2. PICK v \in Victim(i) : /\ Free(v, Written(size, g, lo0, lo1))
                             /\ Refresh(v, Written(size, g, lo0, lo1))
  BY <1>1
<1>3. v \in Wired .. Last
  BY <1>1, <1>2 DEF Victim, Vacant, First
<1>4. v \in Index
  BY <1>3, SizeAssumption DEF Index
<1>5. Shaped' /\ Entries' /\ KeptApart' /\ Exact'
  BY <1>2, <1>4, WrittenEntry, RefreshExact DEF IInv, Refresh
<1>6. HiOK' /\ IndexOK'
  BY DEF IInv, Tlbwr, HiOK, IndexOK
<1> QED BY <1>5, <1>6 DEF IInv

\* Steps that write neither the entries nor the table.
LEMMA SameTable ==
    ASSUME IInv, UNCHANGED <<tlb, table>>
    PROVE  Shaped' /\ Entries' /\ KeptApart' /\ Exact'
BY DEF IInv, Shaped, Entries, KeptApart, Exact, ExactAt, Sound, Valid, Apart, Maps, Covers, HalfOf, Real

LEMMA RegisterSteps ==
    ASSUME IInv, Mtc0Hi \/ Mtc0Index \/ Tlbp \/ Tlbr
    PROVE  IInv'
<1>1. UNCHANGED <<tlb, table>>
  BY DEF Mtc0Hi, Mtc0Index, Tlbp, Tlbr
<1>2. HiOK'
  <2>1. tlb[index.i] \in Entry
    BY DEF IInv, Shaped, IndexOK
  <2>2. tlb[index.i].base \in Page /\ tlb[index.i].asid \in Asids
    BY <2>1 DEF Entry
  <2> QED BY <2>2 DEF IInv, HiOK, Mtc0Hi, Mtc0Index, Tlbp, Tlbr
<1>3. IndexOK'
  <2>1. CASE Mtc0Hi \/ Tlbr
    BY <2>1 DEF IInv, IndexOK, Mtc0Hi, Tlbr
  <2>3. ASSUME NEW i \in Index, index' = [i |-> i, miss |-> FALSE]
        PROVE  IndexOK'
    <3>1. FALSE \in BOOLEAN
      OBVIOUS
    <3> QED BY <2>3, <3>1, Zenon DEF IndexOK, Index
  <2>4. CASE Mtc0Index
    BY <2>3, <2>4 DEF Mtc0Index
  <2>2. CASE Tlbp
    <3>1. CASE Probed = {}
      BY <2>2, <3>1 DEF Tlbp, IInv, IndexOK
    <3>2. CASE Probed # {}
      BY <2>2, <2>3, <3>2 DEF Tlbp, Probed, First
    <3> QED BY <3>1, <3>2
  <2> QED BY <2>1, <2>2, <2>4
<1> QED BY <1>1, <1>2, <1>3, SameTable DEF IInv

\* A fault, and a search, of any page.
LEMMA FaultStep ==
    ASSUME IInv, NEW p \in Page, NEW rest, Fault(p, rest)
    PROVE  IInv'
<1>1. p - (p % 2) \in Page
  <2>1. p \in Nat /\ p % 2 \in Nat /\ p % 2 <= p
    BY SizeAssumption, RoundDown DEF Page
  <2> QED BY <2>1, SizeAssumption DEF Page
<1>2. HiOK'
  BY <1>1 DEF Fault, IInv, HiOK
<1>3. IndexOK'
  BY DEF Fault, IInv, IndexOK
<1> QED BY <1>2, <1>3, SameTable DEF Fault, IInv

LEMMA HitMaps ==
    ASSUME NEW p \in Page, NEW i \in Hitting(p)
    PROVE  i \in Index /\ Maps(tlb[i], p)
BY DEF Hitting, Hits, Matches, Maps

LEMMA SearchStep ==
    ASSUME IInv, NEW p \in Page, NEW rest, Search(p, rest)
    PROVE  IInv'
<1>1. ASSUME NEW i \in Hitting(p), table' = [table EXCEPT ![p] = Real(tlb[i], p)],
             UNCHANGED <<tlb, hi, index>>
      PROVE  IInv'
  <2>1. table[p] = Real(tlb[i], p)
    BY <1>1, HitMaps DEF IInv, Exact, ExactAt
  <2>2. table' = table
    BY <1>1, <2>1 DEF IInv, Shaped
  <2> QED BY <1>1, <2>2, SameTable DEF IInv, HiOK, IndexOK
<1> QED BY <1>1, FaultStep DEF Search

LEMMA AccessStep ==
    ASSUME IInv, Access
    PROVE  IInv'
<1>1. PICK p \in Page : LookUp(p)
  BY DEF Access
<1>2. CASE table[p] # Unmapped
  BY <1>1, <1>2, SameTable DEF LookUp, IInv, HiOK, IndexOK
<1>3. CASE table[p] = Unmapped
  BY <1>1, <1>3, FaultStep, SearchStep DEF LookUp
<1> QED BY <1>2, <1>3

\* The save states hold entries that their games wrote.
LEMMA LoadStep ==
    ASSUME IInv, Globals = {TRUE}, LoadState
    PROVE  IInv'
<1>1. PICK s \in Saved : tlb' = s /\ table' = Whole(s)
  BY DEF LoadState
<1>2. /\ s \in [Index -> Entry]
      /\ \A i \in Index : Valid(s[i]) => s[i].size # 0 /\ s[i].g \in Globals
      /\ \A i, j \in Index : i # j /\ Valid(s[i]) /\ Valid(s[j]) => Apart(s[i], s[j])
  BY SavedAssumption
<1>3. Entries' /\ KeptApart'
  BY <1>1, <1>2 DEF Entries, KeptApart, Sound, Valid, Apart
<1>4. \A p \in Page : Mapping(s, p) = {i \in Index : Maps(s[i], p)}
  <2> SUFFICES ASSUME NEW p \in Page, NEW i \in Index, Maps(s[i], p)
               PROVE  s[i].g
    BY DEF Mapping, Maps
  <2> QED BY <1>2, MapsValid
<1>5. \A p \in Page : \A i, j \in Mapping(s, p) : i = j
  <2> SUFFICES ASSUME NEW p \in Page, NEW i \in Index, NEW j \in Index,
                      Maps(s[i], p), Maps(s[j], p), i # j
               PROVE  FALSE
    BY <1>4
  <2>1. Valid(s[i]) /\ Covers(s[i], p) /\ Valid(s[j]) /\ Covers(s[j], p)
    BY <1>2, MapsValid
  <2> QED BY <1>2, <2>1, ApartPages
<1>6. ASSUME NEW p \in Page, NEW i \in Mapping(s, p)
      PROVE  Whole(s)[p] = Real(s[i], p)
  <2>1. (CHOOSE k \in Mapping(s, p) : \A j \in Mapping(s, p) : j <= k) = i
    <3>1. i \in Index /\ i \in Int
      BY <1>4, <1>6, SizeAssumption DEF Index
    <3>2. \A j \in Mapping(s, p) : j <= i
      BY <1>5, <1>6, <3>1
    <3> QED BY <1>5, <1>6, <3>2
  <2> QED BY <1>6, <2>1 DEF Whole
<1>7. ASSUME NEW p \in Page, Mapping(s, p) = {}
      PROVE  Whole(s)[p] = Unmapped
  BY <1>7 DEF Whole
<1>8. Exact'
  <2> SUFFICES ASSUME NEW p \in Page
               PROVE  /\ \A i \in Index : Maps(s[i], p) => Whole(s)[p] = Real(s[i], p)
                      /\ (\A i \in Index : ~Maps(s[i], p)) => Whole(s)[p] = Unmapped
    BY <1>1 DEF Exact, ExactAt, Maps, Covers, HalfOf, Real
  <2> QED BY <1>4, <1>6, <1>7
<1>9. Whole(s) \in [Page -> Nat \cup {Unmapped}]
  <2>1. ASSUME NEW p \in Page PROVE Whole(s)[p] \in Nat \cup {Unmapped}
    <3>1. CASE Mapping(s, p) = {}
      BY <1>7, <3>1
    <3>2. CASE Mapping(s, p) # {}
      <4>1. PICK i \in Mapping(s, p) : TRUE
        BY <3>2
      <4>2. s[i] \in Entry
        BY <1>2, <1>4, <4>1
      <4> QED BY <1>6, <4>1, <4>2, RealNat
    <3> QED BY <3>1, <3>2
  <2> QED BY <2>1 DEF Whole
<1>10. Shaped'
  BY <1>1, <1>2, <1>9 DEF Shaped
<1>11. HiOK' /\ IndexOK'
  BY DEF LoadState, IInv, HiOK, IndexOK
<1> QED BY <1>3, <1>8, <1>10, <1>11 DEF IInv

\* The accesses that wait are to pages.
ServingOK == serving \in Seq(Page)

LEMMA ServiceStep ==
    ASSUME IInv, ServingOK, ServiceDone
    PROVE  IInv'
<1> DEFINE p == serving[Len(serving)]
           rest == SubSeq(serving, 1, Len(serving) - 1)
<1>1. p \in Page
  BY DEF ServingOK, ServiceDone
<1>2. Search(p, rest) \/ Redo(p, rest)
  BY DEF ServiceDone
<1>3. CASE Redo(p, rest)
  BY <1>3, SameTable DEF Redo, IInv, HiOK, IndexOK
<1> HIDE DEF p, rest
<1> QED BY <1>1, <1>2, <1>3, SearchStep

LEMMA ServingStep ==
    ASSUME ServingOK, [TlbNext]_tlbVars
    PROVE  ServingOK'
<1>1. ASSUME NEW p \in Page, NEW rest \in Seq(Page), Search(p, rest) \/ Redo(p, rest) \/ Fault(p, rest)
      PROVE  serving' \in Seq(Page)
  <2>1. Append(rest, p) \in Seq(Page)
    BY <1>1
  <2> QED BY <1>1, <2>1 DEF Search, Redo, Answer, Fault
<1>2. CASE Access
  <2>1. PICK p \in Page : LookUp(p)
    BY <1>2 DEF Access
  <2> QED BY <1>1, <2>1 DEF LookUp, Answer, ServingOK
<1>3. CASE ServiceDone
  <2>1. serving[Len(serving)] \in Page /\ SubSeq(serving, 1, Len(serving) - 1) \in Seq(Page)
    BY <1>3 DEF ServingOK, ServiceDone
  <2> QED BY <1>1, <1>3, <2>1 DEF ServiceDone, ServingOK
<1> QED
  BY <1>2, <1>3 DEF TlbNext, tlbVars, ServingOK, Tlbwi, Tlbwr, Mtc0Hi, Mtc0Index, Tlbp, Tlbr, LoadState

LEMMA NextInv ==
    ASSUME IInv, ServingOK, Globals = {TRUE}, [TlbNext]_tlbVars
    PROVE  IInv'
<1>1. CASE UNCHANGED tlbVars
  BY <1>1, SameTable DEF tlbVars, IInv, HiOK, IndexOK
<1> QED
  BY <1>1, TlbwiStep, TlbwrStep, RegisterSteps, AccessStep, ServiceStep, LoadStep DEF TlbNext

LEMMA ExactProperties ==
    ASSUME IInv
    PROVE  TableSound /\ TableComplete
<1>1. \A p \in Page : Hitting(p) = {i \in Index : Maps(tlb[i], p)}
  <2> SUFFICES ASSUME NEW p \in Page, NEW i \in Index, Maps(tlb[i], p)
               PROVE  tlb[i].g
    BY DEF Hitting, Hits, Matches, Maps
  <2>1. tlb[i] \in Entry /\ Sound(tlb[i])
    BY DEF IInv, Shaped, Entries
  <2> QED BY <2>1, MapsValid DEF Sound
<1> QED BY <1>1 DEF IInv, Exact, ExactAt, TableSound, TableComplete

\* For a game that uses global entries and keeps them apart, the direct table
\* maps a page only as an entry of the buffer does (Tlb.c:957).
THEOREM Soundness == ASSUME Globals = {TRUE} PROVE TlbSpec => []TableSound
<1>1. TlbInit => IInv /\ ServingOK
  <2>1. TlbInit => IInv
    BY InitInv
  <2>2. TlbInit => ServingOK
    BY DEF TlbInit, ServingOK
  <2> QED BY <2>1, <2>2
<1>2. IInv /\ ServingOK /\ [TlbNext]_tlbVars => IInv' /\ ServingOK'
  BY NextInv, ServingStep
<1>3. IInv => TableSound
  BY ExactProperties
<1> QED BY <1>1, <1>2, <1>3, PTL DEF TlbSpec

\* And it has every page that an entry maps: faster lookups raise no exception
\* for a page that is mapped (Tlb.c:972).
THEOREM Completeness == ASSUME Globals = {TRUE} PROVE TlbSpec => []TableComplete
<1>1. TlbInit => IInv /\ ServingOK
  <2>1. TlbInit => IInv
    BY InitInv
  <2>2. TlbInit => ServingOK
    BY DEF TlbInit, ServingOK
  <2> QED BY <2>1, <2>2
<1>2. IInv /\ ServingOK /\ [TlbNext]_tlbVars => IInv' /\ ServingOK'
  BY NextInv, ServingStep
<1>3. IInv => TableComplete
  BY ExactProperties
<1> QED BY <1>1, <1>2, <1>3, PTL DEF TlbSpec

LEMMA AnswerStep ==
    ASSUME IInv, ServingOK, AnswerRight, [TlbNext]_tlbVars
    PROVE  AnswerRight'
<1>1. CASE answer' = Unmapped
  BY <1>1 DEF AnswerRight
<1>2. CASE UNCHANGED tlbVars
  BY <1>2 DEF tlbVars, AnswerRight, Hitting, Hits, Matches, Covers, HalfOf, Real
<1>3. ASSUME NEW p \in Page, NEW a, NEW rest, Answer(p, a, rest), UNCHANGED <<tlb, hi>>,
             IF a = Dummy THEN Hitting(p) = {} ELSE \E i \in Hitting(p) : Real(tlb[i], p) = a
      PROVE  AnswerRight'
  <2>1. answer'.page = p /\ answer'.real = a
    BY <1>3 DEF Answer
  <2>2. Hitting(p)' = Hitting(p)
    BY <1>3 DEF Hitting, Hits, Matches, Covers, HalfOf
  <2> QED BY <1>3, <2>1, <2>2 DEF AnswerRight, Hitting, Real, HalfOf
<1>4. \A p \in Page : \A i \in Hitting(p) : Real(tlb[i], p) \in Nat
  BY RealNat DEF IInv, Shaped, Hitting
<1>5. Dummy \notin Nat
  BY SizeAssumption
<1>6. ASSUME NEW p \in Page, NEW rest, Search(p, rest)
      PROVE  AnswerRight'
  <2>1. CASE Fault(p, rest)
    BY <1>1, <2>1 DEF Fault
  <2>2. ASSUME NEW i \in Hitting(p), Answer(p, Real(tlb[i], p), rest), UNCHANGED <<tlb, hi>>
        PROVE  AnswerRight'
    <3>1. Real(tlb[i], p) # Dummy
      BY <1>4, <1>5
    <3> QED BY <1>3, <2>2, <3>1
  <2> QED BY <1>6, <2>1, <2>2 DEF Search
<1>7. ASSUME NEW p \in Page, NEW rest, Redo(p, rest)
      PROVE  AnswerRight'
  <2>1. CASE Hitting(p) = {} /\ Answer(p, Dummy, rest)
    BY <1>3, <1>7, <2>1 DEF Redo
  <2>2. ASSUME NEW i \in Hitting(p), Answer(p, Real(tlb[i], p), rest)
        PROVE  AnswerRight'
    <3>1. Real(tlb[i], p) # Dummy
      BY <1>4, <1>5
    <3> QED BY <1>3, <1>7, <2>2, <3>1 DEF Redo
  <2> QED BY <1>7, <2>1, <2>2 DEF Redo
<1>8. CASE Access
  <2>1. PICK p \in Page : LookUp(p)
    BY <1>8 DEF Access
  <2>2. CASE table[p] # Unmapped
    <3>1. \E i \in Hitting(p) : Real(tlb[i], p) = table[p]
      BY <2>2, ExactProperties DEF TableSound
    <3>2. table[p] # Dummy
      BY <1>4, <1>5, <3>1
    <3> QED BY <1>3, <2>1, <2>2, <3>1, <3>2 DEF LookUp
  <2>3. CASE table[p] = Unmapped
    BY <1>1, <1>6, <2>1, <2>3 DEF LookUp, Fault
  <2> QED BY <2>2, <2>3
<1>9. CASE ServiceDone
  <2> DEFINE p == serving[Len(serving)]
             rest == SubSeq(serving, 1, Len(serving) - 1)
  <2>1. p \in Page
    BY <1>9 DEF ServingOK, ServiceDone
  <2>2. Search(p, rest) \/ Redo(p, rest)
    BY <1>9 DEF ServiceDone
  <2> HIDE DEF p, rest
  <2> QED BY <1>6, <1>7, <2>1, <2>2
<1> QED
  BY <1>1, <1>2, <1>8, <1>9
     DEF TlbNext, Tlbwi, Tlbwr, Refresh, Mtc0Hi, Mtc0Index, Tlbp, Tlbr, LoadState

\* An access that waited for the service of a fault, however deep, is answered
\* as the entries of the moment say (Tlb.c:604-614).
THEOREM Answers == ASSUME Globals = {TRUE} PROVE TlbSpec => []AnswerRight
<1>1. TlbInit => IInv /\ ServingOK /\ AnswerRight
  <2>1. TlbInit => IInv
    BY InitInv
  <2>2. TlbInit => ServingOK /\ AnswerRight
    BY DEF TlbInit, ServingOK, AnswerRight
  <2> QED BY <2>1, <2>2
<1>2. IInv /\ ServingOK /\ AnswerRight /\ [TlbNext]_tlbVars => IInv' /\ ServingOK' /\ AnswerRight'
  BY NextInv, ServingStep, AnswerStep
<1> QED BY <1>1, <1>2, PTL DEF TlbSpec

\* Only a search of the entries that found none, or an empty slot of the
\* complete table, raises an exception.
LEMMA FaultOnlyUnmapped ==
    ASSUME IInv, ServingOK, [TlbNext]_tlbVars, Len(serving') > Len(serving)
    PROVE  Hitting(serving'[Len(serving')]) = {}
<1>1. serving \in Seq(Page)
  BY DEF ServingOK
<1>2. ASSUME NEW p \in Page, Fault(p, serving)
      PROVE  serving'[Len(serving')] = p
  BY <1>1, <1>2 DEF Fault
<1>3. CASE Access
  <2>1. PICK p \in Page : LookUp(p)
    BY <1>3 DEF Access
  <2>2. Fault(p, serving) /\ ((faster /\ table[p] = Unmapped) \/ Hitting(p) = {})
    BY <1>1, <2>1 DEF LookUp, Search, Answer
  <2>3. Hitting(p) = {}
    <3>1. \A i \in Hitting(p) : table[p] = Real(tlb[i], p) /\ Real(tlb[i], p) \in Nat
      BY ExactProperties, RealNat DEF TableComplete, IInv, Shaped, Hitting
    <3> QED BY <2>2, <3>1, SizeAssumption
  <2> QED BY <1>2, <2>2, <2>3
<1>4. ~ ServiceDone
  <2> SUFFICES ASSUME ServiceDone PROVE FALSE
    OBVIOUS
  <2> DEFINE p == serving[Len(serving)]
             rest == SubSeq(serving, 1, Len(serving) - 1)
  <2>1. p \in Page /\ rest \in Seq(Page) /\ Len(rest) + 1 = Len(serving)
    <3>1. Len(serving) \in Nat /\ Len(serving) # 0
      BY <1>1 DEF ServiceDone
    <3>2. /\ 1 \in 1 .. Len(serving) + 1
          /\ Len(serving) - 1 \in 1 - 1 .. Len(serving)
          /\ Len(serving) - 1 - 1 + 1 = Len(serving) - 1
      BY <3>1
    <3>3. rest \in Seq(Page) /\ Len(rest) = Len(serving) - 1
      BY <1>1, <3>2, SubSeqProperties
    <3>4. p \in Page
      BY <1>1, <3>1
    <3> QED BY <3>1, <3>3, <3>4
  <2>2. Search(p, rest) \/ Redo(p, rest)
    BY DEF ServiceDone
  <2> HIDE DEF p, rest
  <2>3. Len(Append(rest, p)) = Len(rest) + 1
    BY <2>1
  <2> QED BY <1>1, <2>1, <2>2, <2>3 DEF Search, Redo, Answer, Fault
<1> QED
  BY <1>1, <1>3, <1>4
     DEF TlbNext, tlbVars, Tlbwi, Tlbwr, Refresh, Mtc0Hi, Mtc0Index, Tlbp, Tlbr, LoadState

\* No TLB exception is raised for a page that an entry maps, neither by the
\* search nor by the games that trust the table alone (Tlb.c:972).
THEOREM FaultsJustified == ASSUME Globals = {TRUE} PROVE TlbSpec => FaultJustified
<1>1. TlbInit => IInv /\ ServingOK
  <2>1. TlbInit => IInv
    BY InitInv
  <2>2. TlbInit => ServingOK
    BY DEF TlbInit, ServingOK
  <2> QED BY <2>1, <2>2
<1>2. IInv /\ ServingOK /\ [TlbNext]_tlbVars => IInv' /\ ServingOK'
  BY NextInv, ServingStep
<1>3. IInv /\ ServingOK /\ [TlbNext]_tlbVars =>
        [ (Len(serving') > Len(serving)) => Hitting(serving'[Len(serving')]) = {} ]_tlbVars
  BY FaultOnlyUnmapped
<1> QED BY <1>1, <1>2, <1>3, PTL DEF TlbSpec, FaultJustified

----------------------------------------------------------------------------
(* The two threads.                                                          *)

Handlers == [job : UserCommands, pc : GuiPcs]
Depths == 1..Len(gui)

\* The CPU thread on its way into a pause and out of it, and in its loop.
Parked == {"left", "pause", "woken", "refresh"}
Looping == Parked \cup {"start", "enter", "run", "serve"}
Pausing == {"check", "poll", "ask", "keepOff", "wait", "reassert", "again"}
Stopping == {"stop", "stopReason", "stopWait", "stopReassert", "stopAgain", "afterStop"}

\* Handlers below the top wait; the places of a handler are those of its job.
Nested == \A k \in Depths :
    /\ gui[k].job \in Commands[core]
    /\ k # Len(gui) => gui[k].pc \in {"reassert", "stopReassert"}
    /\ gui[k].pc \in Stopping => stopAsked
    /\ gui[k].pc \in Pausing => gui[k].job \in {"pause", "save", "load", "menu"}
    /\ gui[k].pc = "touch" => gui[k].job \in {"save", "load"}
    /\ gui[k].pc = "menuBack" => gui[k].job = "menu"

\* The reason of a stop is the user's, and no task is pending in a pause.
NoStopLeft == cpu \in Looping /\ ~stopAsked => reason # "EMUSTOP"
Settled == cpu \in Parked /\ ~stopAsked => ~tasks
ParkInv == EmuTypeOK /\ Nested /\ NoStopLeft /\ Settled

\* While no command came too early and none was a stop: the thread is alive,
\* and whatever sent it into a pause has left EMUPAUSE as the reason.
Calm == ~early /\ ~stopAsked
Alive ==
    /\ cpu \notin {"none", "closing"}
    /\ gui # <<>> => cpu \in Looping
    /\ cpu \in Looping /\ (cpu = "start" => gui # <<>>) => isRunning
    /\ ~keepRunning => cpu \in Looping /\ isRunning /\ reason = "EMUPAUSE"
    /\ cpu \in Parked => reason = "EMUPAUSE" /\ isRunning
Asked ==
    /\ \A k \in Depths : gui[k].pc \in {"keepOff", "wait", "reassert", "again", "touch"} =>
           reason = "EMUPAUSE"
    /\ At("again") \/ At("wait") \/ At("touch") => ~keepRunning
EndInv == ParkInv /\ (Calm => Alive /\ Asked)

\* States are saved and loaded in the dynarec only, and there no menu loop
\* writes Emu_Is_Paused.
Separate ==
    /\ "dynarec" \in UsedCores => "menu" \notin Commands["dynarec"]
    /\ "interpreter" \in UsedCores => {"save", "load"} \cap Commands["interpreter"] = {}
PausedThere == core = "dynarec" /\ isPaused => cpu \in {"pause", "woken"}
Still == At("touch") => cpu \in Parked \cup {"start", "enter"} /\ ~tasks /\ core = "dynarec"
TouchInv == EndInv /\ PausedThere /\ (Calm => Still)

-----------------------------------------------------------------------------
(* The stack of handlers.                                                  *)

LEMMA TopIn == ASSUME EmuTypeOK, gui # <<>> PROVE Len(gui) \in Depths /\ Top \in Handlers /\ Len(gui) \in Nat \ {0}
<1>1. gui \in Seq(Handlers) BY DEF EmuTypeOK, Handlers
<1> QED BY <1>1 DEF Top, Depths

LEMMA GotoStack ==
    ASSUME EmuTypeOK, gui # <<>>, NEW pc \in GuiPcs, Goto(pc)
    PROVE  /\ gui' \in Seq(Handlers) /\ Len(gui') = Len(gui) /\ gui' # <<>>
           /\ Top' = [job |-> Top.job, pc |-> pc]
           /\ \A k \in Depths : /\ gui'[k].job = gui[k].job
                                /\ gui'[k].pc = IF k = Len(gui) THEN pc ELSE gui[k].pc
<1>0. gui \in Seq(Handlers) BY DEF EmuTypeOK, Handlers
<1>1. gui \in Seq(Handlers) /\ \A k \in Depths : gui[k] \in Handlers
    BY <1>0 DEF Depths
<1>2. Len(gui) \in Depths /\ Len(gui) \in Nat BY TopIn, <1>1
<1>3. gui' = [gui EXCEPT ![Len(gui)] = [Top EXCEPT !.pc = pc]] BY DEF Goto, Top
<1>4. [Top EXCEPT !.pc = pc] = [job |-> Top.job, pc |-> pc] BY <1>1, <1>2 DEF Top, Handlers
<1>5. [job |-> Top.job, pc |-> pc] \in Handlers BY TopIn DEF Handlers
<1>6. gui' \in Seq(Handlers) /\ Len(gui') = Len(gui)
    BY <1>1, <1>3, <1>4, <1>5
<1>7. \A k \in Depths : gui'[k] = IF k = Len(gui) THEN [job |-> Top.job, pc |-> pc] ELSE gui[k]
    BY <1>1, <1>2, <1>3, <1>4 DEF Depths
<1> QED BY <1>2, <1>6, <1>7 DEF Top, Depths

LEMMA AllButLast ==
    ASSUME NEW S, NEW s \in Seq(S), s # <<>>
    PROVE  /\ SubSeq(s, 1, Len(s) - 1) \in Seq(S)
           /\ Len(SubSeq(s, 1, Len(s) - 1)) = Len(s) - 1
           /\ \A k \in 1..(Len(s) - 1) : SubSeq(s, 1, Len(s) - 1)[k] = s[k]
<1> DEFINE n == Len(s) - 1
           front == SubSeq(s, 1, n)
<1>1. n \in Nat /\ n \in Int /\ 1 \in Int OBVIOUS
<1>2. \A k \in 1..n : s[k] \in S OBVIOUS
<1>3. \A k \in 1..n : front[k] = s[k] OBVIOUS
<1> HIDE DEF n
<1>4. front \in Seq(S) BY <1>1, <1>2, SubSeqProperties
<1>5. Len(front) = IF 1 <= n THEN n - 1 + 1 ELSE 0 BY <1>1, <1>2, SubSeqProperties
<1> HIDE DEF front
<1>6. Len(front) = n BY <1>1, <1>5
<1> QED BY <1>3, <1>4, <1>6 DEF n, front

LEMMA ReturnStack ==
    ASSUME EmuTypeOK, gui # <<>>, Return
    PROVE  /\ gui' \in Seq(Handlers) /\ Len(gui') = Len(gui) - 1
           /\ \A k \in 1..Len(gui') : gui'[k] = gui[k] /\ k \in Depths /\ k # Len(gui)
<1>1. gui \in Seq(Handlers) /\ Len(gui) \in Nat \ {0}
    BY TopIn DEF EmuTypeOK, Handlers
<1> DEFINE below == SubSeq(gui, 1, Len(gui) - 1)
<1>2. /\ below \in Seq(Handlers) /\ Len(below) = Len(gui) - 1
      /\ \A k \in 1..(Len(gui) - 1) : below[k] = gui[k]
    BY <1>1, AllButLast
<1>3. gui' = below BY DEF Return
<1> HIDE DEF below
<1> QED BY <1>1, <1>2, <1>3 DEF Depths

LEMMA EnterStack ==
    ASSUME EmuTypeOK, NEW job \in UserCommands, NEW pc \in GuiPcs, Enter(job, pc)
    PROVE  /\ gui' \in Seq(Handlers) /\ Len(gui') = Len(gui) + 1 /\ Len(gui) \in Nat
           /\ gui'[Len(gui) + 1] = [job |-> job, pc |-> pc] /\ gui' # <<>>
           /\ \A k \in Depths : gui'[k] = gui[k]
<1>1. gui \in Seq(Handlers) /\ Len(gui) \in Nat BY DEF EmuTypeOK, Handlers
<1>2. gui' = Append(gui, [job |-> job, pc |-> pc]) BY DEF Enter
<1>3. [job |-> job, pc |-> pc] \in Handlers BY DEF Handlers
<1> QED BY <1>1, <1>2, <1>3 DEF Depths

\* What a handler may go on to from where it is.
Fits(pc) ==
    /\ pc \in GuiPcs
    /\ pc \in Stopping => Top.pc \in Stopping
    /\ pc \in Pausing => Top.pc \in Pausing
    /\ pc = "touch" => Top.pc \in Pausing /\ Top.job \notin {"pause", "menu"}
    /\ pc = "menuBack" => Top.job = "menu"

LEMMA HandlerGoesOn ==
    ASSUME EmuTypeOK, Nested, Handler
    PROVE  /\ gui # <<>>
           /\ UNCHANGED <<cpu, core, early, stopAsked, commands>>
           /\ Return \/ \E pc \in GuiPcs : Goto(pc) /\ Fits(pc)
<1> USE DEF At, Fits, GuiPcs, Stopping, Pausing, flags, machine, history
<1>1. UNCHANGED core BY DEF Handler
<1>2. CASE CheckExceptions BY <1>1, <1>2 DEF CheckExceptions
<1>3. CASE PollExceptions BY <1>1, <1>3 DEF PollExceptions
<1>4. CASE AskPause BY <1>1, <1>4 DEF AskPause
<1>5. CASE KeepOff BY <1>1, <1>5 DEF KeepOff
<1>6. CASE WaitPaused BY <1>1, <1>6 DEF WaitPaused, AfterPause
<1>7. CASE AskStop BY <1>1, <1>7 DEF AskStop
<1>8. CASE WaitStopped BY <1>1, <1>8 DEF WaitStopped
<1>9. CASE AfterStop BY <1>1, <1>9 DEF AfterStop
<1>10. CASE Touch BY <1>1, <1>10 DEF Touch
<1>11. CASE Resume BY <1>1, <1>11 DEF Resume
<1>12. CASE Go BY <1>1, <1>12 DEF Go
<1>13. CASE MenuBack BY <1>1, <1>13 DEF MenuBack
<1>14. CASE LeaveMenu BY <1>1, <1>14 DEF LeaveMenu
<1>15. CASE ExitMenu BY <1>1, <1>15 DEF ExitMenu
<1> QED BY <1>2, <1>3, <1>4, <1>5, <1>6, <1>7, <1>8, <1>9, <1>10, <1>11, <1>12, <1>13,
           <1>14, <1>15 DEF Handler

\* A handler that is entered.
LEMMA UserEnters ==
    ASSUME EmuTypeOK, User, ~Play
    PROVE  /\ UNCHANGED <<flags, cpu, core, machine, action>>
           /\ gui # <<>> => Len(gui) < MaxNesting /\ Top.pc \in {"reassert", "stopReassert"}
           /\ early' = (early \/ Starting)
           /\ commands' \in 0..MaxCommands
           /\ \E job \in Commands[core], pc \in GuiPcs :
                /\ Enter(job, pc)
                /\ pc \in Stopping => stopAsked'
                /\ ~stopAsked' => ~stopAsked
                /\ pc \in Pausing => job \in {"pause", "save", "load", "menu"} /\ pc = "check"
                /\ pc # "touch"
                /\ pc = "menuBack" => job = "menu"
<1> USE DEF Command, GuiPcs, Stopping, Pausing
<1>1. commands \in 0..MaxCommands /\ (commands < MaxCommands => commands + 1 \in 0..MaxCommands)
    BY BoundsAssumption DEF EmuTypeOK
<1>2. CASE Pause BY <1>1, <1>2 DEF Pause, User
<1>3. CASE ResumeCommand BY <1>1, <1>3 DEF ResumeCommand, User
<1>4. CASE EnterMenu BY <1>1, <1>4 DEF EnterMenu, User
<1>5. CASE Stop BY <1>1, <1>5 DEF Stop, User
<1>6. CASE \E job \in {"save", "load"} : State(job)
    BY <1>1, <1>6 DEF State, User
<1> QED BY <1>2, <1>3, <1>4, <1>5, <1>6 DEF User

-----------------------------------------------------------------------------
(* Types.                                                                  *)

\* EmuTypeOK without the handlers.
Flags ==
    /\ keepRunning \in BOOLEAN /\ isRunning \in BOOLEAN /\ isPaused \in BOOLEAN
    /\ core \in UsedCores /\ reason \in Reasons /\ action \in Actions
    /\ exceptions \in BOOLEAN /\ tasks \in BOOLEAN /\ stale \in BOOLEAN
    /\ menuCausedPause \in BOOLEAN /\ romLoaded \in BOOLEAN
    /\ cpu \in CpuPcs /\ (exceptions <=> cpu = "serve")
    /\ early \in BOOLEAN /\ stopAsked \in BOOLEAN
Stack == gui \in Seq(Handlers) /\ Len(gui) <= MaxNesting
LEMMA TypeParts == EmuTypeOK <=> Flags /\ Stack /\ commands \in 0..MaxCommands
    BY DEF EmuTypeOK, Flags, Stack, Handlers
LEMMA TypePartsNext == (Flags /\ Stack /\ commands \in 0..MaxCommands)' => EmuTypeOK'
    BY DEF EmuTypeOK, Flags, Stack, Handlers

LEMMA CPUFlags == ASSUME Flags, CPUThread PROVE Flags'
<1> USE DEF Flags, CpuAt, CpuPcs, Reasons, Actions, flags, machine, history, guiOnly
<1>1. CASE InitEmu BY <1>1 DEF InitEmu
<1>2. CASE StartBoot BY <1>2 DEF StartBoot
<1>3. CASE EndBoot BY <1>3 DEF EndBoot
<1>4. CASE Booted BY <1>4 DEF Booted
<1>5. CASE StartLoop BY <1>5 DEF StartLoop
<1>6. CASE EnterLoop BY <1>6 DEF EnterLoop
<1>7. CASE LeaveLoop BY <1>7 DEF LeaveLoop
<1>8. CASE ServeEnds BY <1>8 DEF ServeEnds
<1>9. CASE ServeQuits BY <1>9 DEF ServeQuits
<1>10. CASE AfterLoop BY <1>10 DEF AfterLoop
<1>11. CASE PauseLoop BY <1>11 DEF PauseLoop
<1>12. CASE Woken BY <1>12 DEF Woken
<1>13. CASE RefreshAfterPause BY <1>13 DEF RefreshAfterPause
<1>14. CASE CloseEmulator BY <1>14 DEF CloseEmulator
<1>15. CASE ToggleTasks BY <1>15 DEF ToggleTasks
<1>16. CASE ServeException BY <1>16 DEF ServeException
<1> QED BY <1>1, <1>2, <1>3, <1>4, <1>5, <1>6, <1>7, <1>8, <1>9, <1>10, <1>11, <1>12,
           <1>13, <1>14, <1>15, <1>16 DEF CPUThread, CPUGoesOn

LEMMA HandlerFlags == ASSUME Flags, Handler PROVE Flags'
<1> USE DEF Handler, Flags, CpuPcs, Reasons, Actions, flags, machine, history
<1>1. CASE CheckExceptions BY <1>1 DEF CheckExceptions
<1>2. CASE PollExceptions BY <1>2 DEF PollExceptions
<1>3. CASE AskPause BY <1>3 DEF AskPause
<1>4. CASE KeepOff
  <2>1. /\ keepRunning' = FALSE
        /\ UNCHANGED <<isRunning, isPaused, reason, machine, history, action, cpu,
                        menuCausedPause, romLoaded, core>>
    BY <1>4 DEF KeepOff
  <2>2. UNCHANGED <<isRunning, isPaused, reason, exceptions, tasks, stale, early, stopAsked, action,
                    cpu, menuCausedPause, romLoaded, core>> BY <2>1
  <2>3. keepRunning' \in BOOLEAN BY <2>1
  <2> HIDE DEF Handler, flags, history, machine
  <2> QED BY <2>2, <2>3
<1>5. CASE WaitPaused BY <1>5 DEF WaitPaused
<1>6. CASE AskStop BY <1>6 DEF AskStop
<1>7. CASE WaitStopped BY <1>7 DEF WaitStopped
<1>8. CASE AfterStop
  <2>1. /\ isRunning' = FALSE /\ romLoaded' = FALSE
        /\ UNCHANGED <<keepRunning, isPaused, reason, machine, history, action, cpu,
                        menuCausedPause, core>>
    BY <1>8 DEF AfterStop
  <2>2. UNCHANGED <<keepRunning, isPaused, reason, exceptions, tasks, stale, early, stopAsked, action,
                    cpu, menuCausedPause, core>> BY <2>1
  <2>3. isRunning' \in BOOLEAN /\ romLoaded' \in BOOLEAN BY <2>1
  <2> HIDE DEF Handler, flags, history, machine
  <2> QED BY <2>2, <2>3
<1>9. CASE Touch
  <2>1. UNCHANGED <<flags, exceptions, history, action, cpu, menuCausedPause, romLoaded, core>>
    BY <1>9 DEF Touch
  <2>2. tasks' \in BOOLEAN BY <1>9 DEF Touch
  <2>3. stale' \in BOOLEAN BY <1>9 DEF Touch
  <2>4. UNCHANGED <<keepRunning, isRunning, isPaused, reason, exceptions, early, stopAsked, action,
                    cpu, menuCausedPause, romLoaded, core>> BY <2>1
  <2> HIDE DEF Handler, flags, history, machine
  <2> QED BY <2>2, <2>3, <2>4
<1>10. CASE Resume BY <1>10 DEF Resume
<1>11. CASE Go BY <1>11 DEF Go
<1>12. CASE MenuBack BY <1>12 DEF MenuBack
<1>13. CASE LeaveMenu BY <1>13 DEF LeaveMenu
<1>14. CASE ExitMenu BY <1>14 DEF ExitMenu
<1> QED BY <1>1, <1>2, <1>3, <1>4, <1>5, <1>6, <1>7, <1>8, <1>9, <1>10, <1>11, <1>12,
           <1>13, <1>14

LEMMA UserFlags == ASSUME Flags, User PROVE Flags'
<1> USE DEF User, Command, Flags, CpuPcs, flags, machine, Starting
<1>1. CASE Pause BY <1>1 DEF Pause
<1>2. CASE ResumeCommand BY <1>2 DEF ResumeCommand
<1>3. CASE EnterMenu BY <1>3 DEF EnterMenu
<1>4. CASE Stop BY <1>4 DEF Stop
<1>5. CASE Play BY <1>5 DEF Play
<1>6. CASE \E job \in {"save", "load"} : State(job) BY <1>6 DEF State
<1> QED BY <1>1, <1>2, <1>3, <1>4, <1>5, <1>6

LEMMA TypeStep == ASSUME EmuTypeOK, Nested, [EmuNext]_emuVars PROVE EmuTypeOK'
<1>1. Flags /\ Stack /\ commands \in 0..MaxCommands BY TypeParts
<1>2. CASE CPUThread
  <2>1. UNCHANGED guiOnly
    BY <1>2 DEF CPUThread, CPUGoesOn, CpuAt, InitEmu, StartBoot, EndBoot, Booted, StartLoop,
                EnterLoop, LeaveLoop, ServeEnds, ServeQuits, AfterLoop, PauseLoop, Woken,
                RefreshAfterPause, CloseEmulator, ToggleTasks, ServeException
  <2>2. Stack' /\ (commands \in 0..MaxCommands)' BY <1>1, <2>1 DEF Stack, guiOnly
  <2> QED BY <1>1, <1>2, <2>2, CPUFlags, TypePartsNext
<1>3. CASE Handler
  <2>1. gui # <<>> /\ commands' = commands BY <1>3, HandlerGoesOn
  <2>2. ASSUME Return PROVE Stack'
    <3>1. gui' \in Seq(Handlers) /\ Len(gui') = Len(gui) - 1 BY <2>1, <2>2, ReturnStack
    <3>2. Len(gui) \in Nat /\ MaxNesting \in Nat BY <2>1, TopIn, BoundsAssumption
    <3> QED BY <1>1, <3>1, <3>2 DEF Stack
  <2>3. ASSUME NEW pc \in GuiPcs, Goto(pc) PROVE Stack'
    <3>1. gui' \in Seq(Handlers) /\ Len(gui') = Len(gui) BY <2>1, <2>3, GotoStack
    <3> QED BY <1>1, <3>1 DEF Stack
  <2>4. Stack' BY <1>3, <2>2, <2>3, HandlerGoesOn
  <2> QED BY <1>1, <1>3, <2>1, <2>4, HandlerFlags, TypePartsNext
<1>4. CASE User /\ ~Play
  <2>1. PICK job \in Commands[core], pc \in GuiPcs : Enter(job, pc)
    BY <1>4, UserEnters
  <2>2. job \in UserCommands BY <1>1, CommandsAssumption DEF Flags
  <2>3. gui' \in Seq(Handlers) /\ Len(gui') = Len(gui) + 1 /\ Len(gui) \in Nat
    BY <2>1, <2>2, EnterStack
  <2>4. gui # <<>> => Len(gui) < MaxNesting BY <1>4, UserEnters
  <2>5. gui = <<>> => Len(gui) = 0 OBVIOUS
  <2>6. Stack' BY <2>3, <2>4, <2>5, BoundsAssumption DEF Stack
  <2>7. commands' \in 0..MaxCommands BY <1>4, UserEnters
  <2> QED BY <1>1, <1>4, <2>6, <2>7, UserFlags, TypePartsNext
<1>5. CASE User /\ Play
  <2>2. gui' = gui /\ commands' = commands + 1 /\ commands < MaxCommands BY <1>5 DEF Play
  <2>3. Stack' /\ commands' \in 0..MaxCommands BY <1>1, <2>2, BoundsAssumption DEF Stack
  <2>4. Flags' BY <1>1, <1>5, UserFlags
  <2> QED BY <2>3, <2>4, TypePartsNext
<1>6. CASE UNCHANGED emuVars
  BY <1>6 DEF EmuTypeOK, emuVars, flags, machine, history, guiOnly
<1> QED BY <1>2, <1>3, <1>4, <1>5, <1>6 DEF EmuNext
-----------------------------------------------------------------------------
(* The handlers.                                                           *)

LEMMA CPUKeeps == ASSUME CPUThread PROVE UNCHANGED <<gui, core, early, stopAsked, keepRunning>>
<1> USE DEF CpuAt, guiOnly, history, flags, machine
<1> QED
  BY DEF CPUThread, CPUGoesOn, InitEmu, StartBoot, EndBoot, Booted, StartLoop,
         EnterLoop, LeaveLoop, ServeEnds, ServeQuits, AfterLoop, PauseLoop, Woken,
         RefreshAfterPause, CloseEmulator, ToggleTasks, ServeException

LEMMA NestedStep == ASSUME EmuTypeOK, Nested, [EmuNext]_emuVars PROVE Nested'
<1>1. CASE CPUThread BY <1>1, CPUKeeps DEF Nested, Depths
<1>2. CASE Handler
  <2>1. gui # <<>> /\ UNCHANGED <<core, stopAsked>> BY <1>2, HandlerGoesOn
  <2>2. Len(gui) \in Depths /\ Len(gui) \in Nat \ {0} BY <2>1, TopIn
  <2>3. ASSUME Return PROVE Nested'
    <3>1. /\ Len(gui') = Len(gui) - 1
          /\ \A k \in 1..Len(gui') : gui'[k] = gui[k] /\ k \in Depths /\ k # Len(gui)
      BY <2>1, <2>3, ReturnStack
    <3> QED BY <2>1, <3>1 DEF Nested, Depths
  <2>4. ASSUME NEW pc \in GuiPcs, Goto(pc), Fits(pc) PROVE Nested'
    <3>1. /\ Len(gui') = Len(gui)
          /\ \A k \in Depths : /\ gui'[k].job = gui[k].job
                               /\ gui'[k].pc = IF k = Len(gui) THEN pc ELSE gui[k].pc
      BY <2>1, <2>4, GotoStack
    <3>2. SUFFICES ASSUME NEW k \in Depths
          PROVE  /\ gui'[k].job \in Commands[core]
                 /\ k # Len(gui) => gui'[k].pc \in {"reassert", "stopReassert"}
                 /\ gui'[k].pc \in Stopping => stopAsked
                 /\ gui'[k].pc \in Pausing => gui'[k].job \in {"pause", "save", "load", "menu"}
                 /\ gui'[k].pc = "touch" => gui'[k].job \in {"save", "load"}
                 /\ gui'[k].pc = "menuBack" => gui'[k].job = "menu"
      BY <2>1, <3>1 DEF Nested, Depths
    <3>3. CASE k # Len(gui) BY <3>1, <3>3 DEF Nested
    <3>4. CASE k = Len(gui) BY <2>2, <2>4, <3>1, <3>4 DEF Nested, Fits, Top
    <3> QED BY <3>3, <3>4
  <2> QED BY <1>2, <2>3, <2>4, HandlerGoesOn
<1>3. CASE User /\ ~Play
  <2>1. PICK job \in Commands[core], pc \in GuiPcs :
          /\ Enter(job, pc)
          /\ pc \in Stopping => stopAsked'
          /\ ~stopAsked' => ~stopAsked
          /\ pc \in Pausing => job \in {"pause", "save", "load", "menu"} /\ pc = "check"
          /\ pc # "touch"
          /\ pc = "menuBack" => job = "menu"
    BY <1>3, UserEnters
  <2>2. /\ core' = core
        /\ gui # <<>> => Top.pc \in {"reassert", "stopReassert"}
    BY <1>3, UserEnters
  <2>3. job \in UserCommands BY CommandsAssumption DEF EmuTypeOK
  <2>4. /\ Len(gui') = Len(gui) + 1 /\ Len(gui) \in Nat
        /\ gui'[Len(gui) + 1] = [job |-> job, pc |-> pc]
        /\ \A k \in Depths : gui'[k] = gui[k]
    BY <2>1, <2>3, EnterStack
  <2>5. SUFFICES ASSUME NEW k \in 1..(Len(gui) + 1)
        PROVE  /\ gui'[k].job \in Commands[core]
               /\ k # Len(gui) + 1 => gui'[k].pc \in {"reassert", "stopReassert"}
               /\ gui'[k].pc \in Stopping => stopAsked'
               /\ gui'[k].pc \in Pausing => gui'[k].job \in {"pause", "save", "load", "menu"}
               /\ gui'[k].pc = "touch" => gui'[k].job \in {"save", "load"}
               /\ gui'[k].pc = "menuBack" => gui'[k].job = "menu"
    BY <2>2, <2>4 DEF Nested, Depths
  <2>6. CASE k = Len(gui) + 1 BY <2>1, <2>4, <2>6
  <2>7. CASE k # Len(gui) + 1
    <3>1. k \in Depths /\ gui # <<>> BY <2>4, <2>7 DEF Depths
    <3>2. gui[k].pc \in {"reassert", "stopReassert"} BY <2>2, <3>1 DEF Nested, Top
    <3>3. gui[k].pc \in Stopping => stopAsked' BY <2>1, <3>1 DEF Nested
    <3> QED BY <2>4, <2>7, <3>1, <3>2, <3>3 DEF Nested
  <2> QED BY <2>6, <2>7
<1>4. CASE User /\ Play
  <2>1. gui' = <<>> BY <1>4 DEF Play
  <2> QED BY <2>1 DEF Nested, Depths
<1>5. CASE UNCHANGED emuVars BY <1>5 DEF Nested, Depths, emuVars, history, guiOnly
<1> QED BY <1>1, <1>2, <1>3, <1>4, <1>5 DEF EmuNext

-----------------------------------------------------------------------------
(* The pause.                                                              *)

\* What a step of a handler does to the flags, by the place it is made from.
LEMMA HandlerEffects ==
    ASSUME EmuTypeOK, Handler
    PROVE  /\ reason' = reason \/ reason' = "EMUPAUSE" \/ Top.pc \in {"stopReason", "stopAgain"}
           /\ isRunning' = isRunning \/ Top.pc = "afterStop"
           /\ isPaused' = isPaused \/ Top.pc = "menuBack"
           /\ tasks' => tasks
           /\ \/ keepRunning' = keepRunning \/ keepRunning' = TRUE
              \/ Top.pc \in {"keepOff", "reassert", "stop", "stopReassert"}
<1> USE DEF At, flags, machine, history, EmuTypeOK
<1>1. CASE CheckExceptions BY <1>1 DEF CheckExceptions
<1>2. CASE PollExceptions BY <1>2 DEF PollExceptions
<1>3. CASE AskPause BY <1>3 DEF AskPause
<1>4. CASE KeepOff BY <1>4 DEF KeepOff
<1>5. CASE WaitPaused BY <1>5 DEF WaitPaused
<1>6. CASE AskStop BY <1>6 DEF AskStop
<1>7. CASE WaitStopped BY <1>7 DEF WaitStopped
<1>8. CASE AfterStop BY <1>8 DEF AfterStop
<1>9. CASE Touch BY <1>9 DEF Touch
<1>10. CASE Resume BY <1>10 DEF Resume
<1>11. CASE Go BY <1>11 DEF Go
<1>12. CASE MenuBack BY <1>12 DEF MenuBack
<1>13. CASE LeaveMenu BY <1>13 DEF LeaveMenu
<1>14. CASE ExitMenu BY <1>14 DEF ExitMenu
<1> QED BY <1>1, <1>2, <1>3, <1>4, <1>5, <1>6, <1>7, <1>8, <1>9, <1>10, <1>11, <1>12,
           <1>13, <1>14 DEF Handler

\* The place of the handler that runs says what was asked of it.
LEMMA TopPlace ==
    ASSUME EmuTypeOK, Nested, gui # <<>>
    PROVE  /\ Top.job \in Commands[core]
           /\ Top.pc \in Stopping => stopAsked
           /\ Top.pc \in Pausing => Top.job \in {"pause", "save", "load", "menu"}
           /\ Top.pc = "menuBack" => Top.job = "menu"
<1>1. Len(gui) \in Depths BY TopIn
<1> QED BY <1>1 DEF Nested, Top

LEMMA NoStopLeftStep == ASSUME ParkInv, [EmuNext]_emuVars PROVE NoStopLeft'
<1> USE DEF NoStopLeft, Looping, Parked
<1>0. EmuTypeOK /\ Nested /\ NoStopLeft BY DEF ParkInv
<1>1. CASE CPUThread
  <2> USE <1>0 DEF CpuAt, flags, machine, history
  <2>1. CASE InitEmu BY <2>1 DEF InitEmu
  <2>2. CASE StartBoot BY <2>2 DEF StartBoot
  <2>3. CASE EndBoot BY <2>3 DEF EndBoot
  <2>4. CASE Booted BY <2>4 DEF Booted
  <2>5. CASE StartLoop BY <2>5 DEF StartLoop
  <2>6. CASE EnterLoop BY <2>6 DEF EnterLoop
  <2>7. CASE LeaveLoop BY <2>7 DEF LeaveLoop
  <2>8. CASE ServeEnds BY <2>8 DEF ServeEnds
  <2>9. CASE ServeQuits BY <2>9 DEF ServeQuits
  <2>10. CASE AfterLoop BY <2>10 DEF AfterLoop
  <2>11. CASE PauseLoop BY <2>11 DEF PauseLoop
  <2>12. CASE Woken BY <2>12 DEF Woken
  <2>13. CASE RefreshAfterPause BY <2>13 DEF RefreshAfterPause
  <2>14. CASE CloseEmulator BY <2>14 DEF CloseEmulator
  <2>15. CASE ToggleTasks BY <2>15 DEF ToggleTasks
  <2>16. CASE ServeException BY <2>16 DEF ServeException
  <2> QED BY <1>1, <2>1, <2>2, <2>3, <2>4, <2>5, <2>6, <2>7, <2>8, <2>9, <2>10, <2>11, <2>12,
             <2>13, <2>14, <2>15, <2>16 DEF CPUThread, CPUGoesOn
<1>2. CASE Handler
  <2>1. gui # <<>> /\ UNCHANGED <<cpu, stopAsked>> BY <1>0, <1>2, HandlerGoesOn
  <2>2. reason' = reason \/ reason' = "EMUPAUSE" \/ Top.pc \in {"stopReason", "stopAgain"}
    BY <1>0, <1>2, HandlerEffects
  <2>3. Top.pc \in {"stopReason", "stopAgain"} => stopAsked
    BY <1>0, <2>1, TopPlace DEF Stopping
  <2> QED BY <1>0, <2>1, <2>2, <2>3
<1>3. CASE User /\ ~Play
  <2>1. UNCHANGED <<reason, cpu>> /\ (~stopAsked' => ~stopAsked)
    BY <1>0, <1>3, UserEnters DEF flags
  <2> QED BY <1>0, <2>1
<1>4. CASE User /\ Play BY <1>4 DEF Play
<1>5. CASE UNCHANGED emuVars BY <1>0, <1>5 DEF emuVars, flags, history
<1> QED BY <1>1, <1>2, <1>3, <1>4, <1>5 DEF EmuNext

LEMMA SettledStep == ASSUME ParkInv, [EmuNext]_emuVars PROVE Settled'
<1> USE DEF Settled, Parked
<1>0. EmuTypeOK /\ Nested /\ NoStopLeft /\ Settled BY DEF ParkInv
<1>1. CASE CPUThread
  <2> USE <1>0 DEF CpuAt, flags, machine, history
  <2>1. CASE InitEmu BY <2>1 DEF InitEmu
  <2>2. CASE StartBoot BY <2>2 DEF StartBoot
  <2>3. CASE EndBoot BY <2>3 DEF EndBoot
  <2>4. CASE Booted BY <2>4 DEF Booted
  <2>5. CASE StartLoop BY <2>5 DEF StartLoop
  <2>6. CASE EnterLoop BY <2>6 DEF EnterLoop, MayLeave, NoStopLeft, Looping
  <2>7. CASE LeaveLoop BY <2>7 DEF LeaveLoop, MayLeave, NoStopLeft, Looping
  <2>8. CASE ServeEnds BY <2>8 DEF ServeEnds
  <2>9. CASE ServeQuits BY <2>9 DEF ServeQuits
  <2>10. CASE AfterLoop BY <2>10 DEF AfterLoop
  <2>11. CASE PauseLoop BY <2>11 DEF PauseLoop
  <2>12. CASE Woken BY <2>12 DEF Woken
  <2>13. CASE RefreshAfterPause BY <2>13 DEF RefreshAfterPause
  <2>14. CASE CloseEmulator BY <2>14 DEF CloseEmulator
  <2>15. CASE ToggleTasks BY <2>15 DEF ToggleTasks, Executing
  <2>16. CASE ServeException BY <2>16 DEF ServeException
  <2> QED BY <1>1, <2>1, <2>2, <2>3, <2>4, <2>5, <2>6, <2>7, <2>8, <2>9, <2>10, <2>11, <2>12,
             <2>13, <2>14, <2>15, <2>16 DEF CPUThread, CPUGoesOn
<1>2. CASE Handler
  <2>1. UNCHANGED <<cpu, stopAsked>> BY <1>0, <1>2, HandlerGoesOn
  <2>2. tasks' => tasks BY <1>0, <1>2, HandlerEffects
  <2> QED BY <1>0, <2>1, <2>2
<1>3. CASE User /\ ~Play
  <2>1. UNCHANGED <<tasks, cpu>> /\ (~stopAsked' => ~stopAsked)
    BY <1>0, <1>3, UserEnters DEF machine
  <2> QED BY <1>0, <2>1
<1>4. CASE User /\ Play BY <1>4 DEF Play
<1>5. CASE UNCHANGED emuVars BY <1>0, <1>5 DEF emuVars, machine, history
<1> QED BY <1>1, <1>2, <1>3, <1>4, <1>5 DEF EmuNext

LEMMA ParkInit == EmuInit => ParkInv
<1>1. SUFFICES ASSUME EmuInit PROVE ParkInv OBVIOUS
<1>2. gui = <<>> /\ commands = 0 /\ cpu = "init" BY <1>1 DEF EmuInit
<1>3. gui \in Seq(Handlers) /\ Len(gui) = 0 BY <1>2
<1>4. Flags BY <1>1 DEF EmuInit, Flags, Reasons, Actions, CpuPcs
<1>5. EmuTypeOK BY <1>2, <1>3, <1>4, TypeParts, BoundsAssumption DEF Stack
<1>6. Nested BY <1>3 DEF Nested, Depths
<1>7. NoStopLeft /\ Settled BY <1>2 DEF NoStopLeft, Settled, Looping, Parked
<1> QED BY <1>5, <1>6, <1>7 DEF ParkInv

LEMMA ParkStep == ASSUME ParkInv, [EmuNext]_emuVars PROVE ParkInv'
<1>1. EmuTypeOK /\ Nested BY DEF ParkInv
<1> QED BY <1>1, TypeStep, NestedStep, NoStopLeftStep, SettledStep DEF ParkInv

THEOREM ParkInvariant == EmuSpec => []ParkInv
<1>1. ParkInv /\ [EmuNext]_emuVars => ParkInv' BY ParkStep
<1> QED BY <1>1, ParkInit, PTL DEF EmuSpec

\* The flags and the places of both threads keep their types: the stack of
\* handlers never grows over its bound, and an exception is under service
\* exactly while the thread is in Dyna_Exception_Service_Routine.
THEOREM ThreadTypes == EmuSpec => []EmuTypeOK
<1>1. ParkInv => EmuTypeOK BY DEF ParkInv
<1> QED BY <1>1, ParkInvariant, PTL

\* The CPU thread pauses only with no DMA, RSP task or interrupt check under way
\* (emulator.c:595, 754): what a state saved in the pause leaves out is nothing.
THEOREM PauseIsSafe == EmuSpec => []SafePoint
<1>1. ParkInv => SafePoint BY DEF ParkInv, Settled, Parked, SafePoint
<1> QED BY <1>1, ParkInvariant, PTL

-----------------------------------------------------------------------------
(* The end.                                                                *)

\* The thread before its main loop, where a command is early.
LEMMA NotStarting ==
    ASSUME Flags, ~Starting, cpu \notin {"none", "closing"}
    PROVE  cpu \in Looping /\ (cpu = "start" => isRunning)
BY DEF Flags, Starting, CpuPcs, Looping, Parked

LEMMA CPUAlive == ASSUME EndInv, CPUThread, Calm PROVE Alive'
<1>1. EmuTypeOK /\ Alive BY DEF EndInv, ParkInv
<1> USE <1>1 DEF Alive, CpuAt, Looping, Parked, guiOnly, flags, machine
<1>2. CASE InitEmu BY <1>2 DEF InitEmu
<1>3. CASE StartBoot BY <1>3 DEF StartBoot
<1>4. CASE EndBoot BY <1>4 DEF EndBoot
<1>5. CASE Booted BY <1>5 DEF Booted
<1>6. CASE StartLoop BY <1>6 DEF StartLoop
<1>7. CASE EnterLoop BY <1>7 DEF EnterLoop, MayLeave
<1>8. CASE LeaveLoop BY <1>8 DEF LeaveLoop, MayLeave
<1>9. CASE ServeEnds BY <1>9 DEF ServeEnds
<1>10. CASE ServeQuits BY <1>10 DEF ServeQuits
<1>11. CASE AfterLoop BY <1>11 DEF AfterLoop
<1>12. CASE PauseLoop BY <1>12 DEF PauseLoop
<1>13. CASE Woken BY <1>13 DEF Woken
<1>14. CASE RefreshAfterPause BY <1>14 DEF RefreshAfterPause
<1>15. CASE CloseEmulator BY <1>15 DEF CloseEmulator
<1>16. CASE ToggleTasks BY <1>16 DEF ToggleTasks
<1>17. CASE ServeException BY <1>17 DEF ServeException
<1> QED BY <1>2, <1>3, <1>4, <1>5, <1>6, <1>7, <1>8, <1>9, <1>10, <1>11, <1>12, <1>13,
           <1>14, <1>15, <1>16, <1>17 DEF CPUThread, CPUGoesOn

\* Only the end of the boot changes the reason, and then no handler waits.
LEMMA CPUReason == ASSUME CPUThread PROVE reason' = reason \/ cpu = "booted"
<1> USE DEF CpuAt, flags
<1> QED
  BY DEF CPUThread, CPUGoesOn, InitEmu, StartBoot, EndBoot, Booted, StartLoop,
         EnterLoop, LeaveLoop, ServeEnds, ServeQuits, AfterLoop, PauseLoop, Woken,
         RefreshAfterPause, CloseEmulator, ToggleTasks, ServeException

LEMMA CPUAsked == ASSUME EndInv, CPUThread, Calm PROVE Asked'
<1>1. Alive /\ Asked BY DEF EndInv
<1>2. UNCHANGED <<gui, keepRunning>> BY CPUKeeps
<1>3. CASE reason' = reason BY <1>1, <1>2, <1>3 DEF Asked, At, Top, Depths
<1>4. CASE cpu = "booted"
  <2>1. gui = <<>> BY <1>1, <1>4 DEF Alive, Looping, Parked
  <2> QED BY <1>2, <2>1 DEF Asked, At, Depths
<1> QED BY <1>3, <1>4, CPUReason

\* A handler that was asked for a pause, or is stacked, while none is a stop.
LEMMA HandlerAlive == ASSUME EndInv, Handler, Calm PROVE Alive'
<1>1. EmuTypeOK /\ Nested /\ Alive /\ Asked /\ ~stopAsked BY DEF EndInv, ParkInv, Calm
<1>2. gui # <<>> /\ cpu' = cpu BY <1>1, HandlerGoesOn
<1>3. cpu \in Looping /\ isRunning BY <1>1, <1>2 DEF Alive
<1>4. Top.pc \notin Stopping BY <1>1, <1>2, TopPlace
<1>5. isRunning' BY <1>1, <1>3, <1>4, HandlerEffects DEF Stopping
<1>6. reason' = reason \/ reason' = "EMUPAUSE" BY <1>1, <1>4, HandlerEffects DEF Stopping
<1>7. Top.pc \in {"keepOff", "reassert"} => reason = "EMUPAUSE"
  <2>1. Len(gui) \in Depths BY <1>1, <1>2, TopIn
  <2> QED BY <1>1, <2>1 DEF Asked, Top
<1>8. keepRunning' = keepRunning \/ keepRunning' = TRUE \/ reason = "EMUPAUSE"
  BY <1>1, <1>4, <1>7, HandlerEffects DEF Stopping
<1>9. ~keepRunning' => reason' = "EMUPAUSE"
  BY <1>1, <1>6, <1>8 DEF Alive
<1> QED BY <1>1, <1>2, <1>3, <1>5, <1>6, <1>9 DEF Alive, Looping, Parked

Awaiting == {"keepOff", "wait", "reassert", "again", "touch"}
\* The flags a handler leaves behind when it goes on to a place of Awaiting.
LEMMA HandlerAsks ==
    ASSUME EmuTypeOK, Nested, Handler
    PROVE  Return \/ \E pc \in GuiPcs :
             /\ Goto(pc) /\ Fits(pc)
             /\ pc \in Awaiting => reason' = "EMUPAUSE" \/ (Top.pc \in Awaiting /\ reason' = reason)
             /\ pc \in {"again", "wait", "touch"} =>
                    keepRunning' = FALSE \/ (Top.pc \in {"again", "wait"} /\ keepRunning' = keepRunning)
             /\ pc = "touch" => /\ Top.pc = "wait" /\ (isPaused \/ ~isRunning)
                                /\ UNCHANGED <<isPaused, isRunning, tasks>>
<1> USE DEF At, Fits, GuiPcs, Stopping, Pausing, Awaiting, flags, machine
<1>2. CASE CheckExceptions BY <1>2 DEF CheckExceptions
<1>3. CASE PollExceptions BY <1>3 DEF PollExceptions
<1>4. CASE AskPause BY <1>4 DEF AskPause
<1>5. CASE KeepOff BY <1>5 DEF KeepOff
<1>6. CASE WaitPaused BY <1>6 DEF WaitPaused, AfterPause
<1>7. CASE AskStop BY <1>7 DEF AskStop
<1>8. CASE WaitStopped BY <1>8 DEF WaitStopped
<1>9. CASE AfterStop BY <1>9 DEF AfterStop
<1>10. CASE Touch BY <1>10 DEF Touch
<1>11. CASE Resume BY <1>11 DEF Resume
<1>12. CASE Go BY <1>12 DEF Go
<1>13. CASE MenuBack BY <1>13 DEF MenuBack
<1>14. CASE LeaveMenu BY <1>14 DEF LeaveMenu
<1>15. CASE ExitMenu BY <1>15 DEF ExitMenu
<1> QED BY <1>2, <1>3, <1>4, <1>5, <1>6, <1>7, <1>8, <1>9, <1>10, <1>11, <1>12, <1>13,
           <1>14, <1>15 DEF Handler

\* A handler below the top waits in PauseEmulator or StopEmulator.
LEMMA BelowTop ==
    ASSUME EmuTypeOK, Nested, gui # <<>>, Return
    PROVE  /\ \A k \in Depths' : gui'[k] = gui[k] /\ k \in Depths
           /\ gui' # <<>> => Top'.pc \in {"reassert", "stopReassert"}
<1>1. /\ gui' \in Seq(Handlers) /\ Len(gui') = Len(gui) - 1
      /\ \A k \in 1..Len(gui') : gui'[k] = gui[k] /\ k \in Depths /\ k # Len(gui)
  BY ReturnStack
<1>2. ASSUME gui' # <<>> PROVE Len(gui') \in 1..Len(gui') BY <1>1, <1>2
<1>3. gui' # <<>> => Top'.pc \in {"reassert", "stopReassert"}
  BY <1>1, <1>2 DEF Nested, Top
<1> QED BY <1>1, <1>3 DEF Depths

LEMMA HandlerAsked == ASSUME EndInv, Handler, Calm PROVE Asked'
<1>1. EmuTypeOK /\ Nested /\ Alive /\ Asked /\ ~stopAsked BY DEF EndInv, ParkInv, Calm
<1>2. gui # <<>> BY <1>1, HandlerGoesOn
<1>3. Len(gui) \in Depths BY <1>1, <1>2, TopIn
<1>4. Top.pc \notin Stopping BY <1>1, <1>2, TopPlace
<1>5. reason' = reason \/ reason' = "EMUPAUSE" BY <1>1, <1>4, HandlerEffects DEF Stopping
<1>6. Top.pc \in Awaiting => reason = "EMUPAUSE" BY <1>1, <1>3 DEF Asked, Top, Awaiting
<1>7. Top.pc \in {"again", "wait"} => ~keepRunning BY <1>1, <1>2 DEF Asked, At
<1>8. ASSUME Return PROVE Asked'
  <2>1. /\ \A k \in Depths' : gui'[k] = gui[k] /\ k \in Depths
        /\ gui' # <<>> => Top'.pc \in {"reassert", "stopReassert"}
    BY <1>1, <1>2, <1>8, BelowTop
  <2> QED BY <1>1, <1>5, <2>1 DEF Asked, At
<1>9. ASSUME NEW pc \in GuiPcs, Goto(pc),
             pc \in Awaiting => reason' = "EMUPAUSE" \/ (Top.pc \in Awaiting /\ reason' = reason),
             pc \in {"again", "wait", "touch"} =>
               keepRunning' = FALSE \/ (Top.pc \in {"again", "wait"} /\ keepRunning' = keepRunning)
      PROVE  Asked'
  <2>1. /\ Len(gui') = Len(gui) /\ Top' = [job |-> Top.job, pc |-> pc]
        /\ \A k \in Depths : gui'[k].pc = IF k = Len(gui) THEN pc ELSE gui[k].pc
    BY <1>1, <1>2, <1>9, GotoStack
  <2>2. pc \in Awaiting => reason' = "EMUPAUSE" BY <1>6, <1>9
  <2>3. \A k \in Depths : gui'[k].pc \in Awaiting => reason' = "EMUPAUSE"
    BY <1>1, <1>5, <2>1, <2>2 DEF Asked, Awaiting
  <2>4. pc \in {"again", "wait", "touch"} => ~keepRunning' BY <1>7, <1>9
  <2>5. Top'.pc = pc BY <2>1
  <2> QED BY <2>1, <2>3, <2>4, <2>5 DEF Asked, At, Depths, Awaiting
<1> QED BY <1>1, <1>8, <1>9, HandlerAsks

LEMMA UserEnds == ASSUME EndInv, User, Calm' PROVE Alive' /\ Asked'
<1>1. EmuTypeOK /\ Nested BY DEF EndInv, ParkInv
<1>2. CASE ~Play
  <2>1. /\ UNCHANGED <<flags, cpu>> /\ early' = (early \/ Starting)
        /\ \E job \in Commands[core], pc \in GuiPcs :
             /\ Enter(job, pc) /\ (~stopAsked' => ~stopAsked)
             /\ pc \notin Awaiting
    BY <1>1, <1>2, UserEnters DEF Pausing, Awaiting
  <2>2. PICK job \in Commands[core], pc \in GuiPcs :
          Enter(job, pc) /\ (~stopAsked' => ~stopAsked) /\ pc \notin Awaiting
    BY <2>1
  <2>3. Calm /\ ~Starting BY <2>1, <2>2 DEF Calm
  <2>4. Alive /\ Asked BY <2>3 DEF EndInv
  <2>5. cpu \in Looping /\ (cpu = "start" => isRunning)
    BY <1>1, <2>3, <2>4, TypeParts, NotStarting DEF Alive
  <2>6. Alive' BY <2>1, <2>4, <2>5 DEF Alive, flags, Looping, Parked
  <2>7. job \in UserCommands BY <1>1, CommandsAssumption DEF EmuTypeOK
  <2>8. /\ Len(gui') = Len(gui) + 1 /\ Len(gui) \in Nat
        /\ gui'[Len(gui) + 1] = [job |-> job, pc |-> pc]
        /\ \A k \in Depths : gui'[k] = gui[k]
    BY <1>1, <2>2, <2>7, EnterStack
  <2>9. Top'.pc = pc BY <2>8 DEF Top
  <2>10. ASSUME NEW k \in Depths', gui'[k].pc \in Awaiting PROVE reason' = "EMUPAUSE"
    <3>1. k \in Depths BY <2>2, <2>8, <2>10 DEF Depths
    <3> QED BY <2>1, <2>4, <2>8, <2>10, <3>1 DEF Asked, Awaiting, flags
  <2>11. Asked' BY <2>2, <2>9, <2>10 DEF Asked, At, Awaiting
  <2> QED BY <2>6, <2>11
<1>3. CASE Play
  <2>1. gui' = <<>> /\ cpu' = "init" /\ keepRunning' = TRUE BY <1>3 DEF Play
  <2> QED BY <2>1 DEF Alive, Asked, At, Depths, Looping, Parked
<1> QED BY <1>2, <1>3

LEMMA EndStep == ASSUME EndInv, [EmuNext]_emuVars PROVE EndInv'
<1>1. ParkInv' BY ParkStep DEF EndInv
<1>2. ASSUME Calm' PROVE Alive' /\ Asked'
  <2>1. CASE CPUThread
    <3>1. Calm BY <1>2, <2>1, CPUKeeps DEF Calm
    <3> QED BY <2>1, <3>1, CPUAlive, CPUAsked
  <2>2. CASE Handler
    <3>1. Calm BY <1>2, <2>2, HandlerGoesOn DEF Calm, EndInv, ParkInv
    <3> QED BY <2>2, <3>1, HandlerAlive, HandlerAsked
  <2>3. CASE User BY <1>2, <2>3, UserEnds
  <2>4. CASE UNCHANGED emuVars
    BY <1>2, <2>4 DEF EndInv, Calm, Alive, Asked, At, Top, Depths, emuVars, flags, history, guiOnly
  <2> QED BY <2>1, <2>2, <2>3, <2>4 DEF EmuNext
<1> QED BY <1>1, <1>2 DEF EndInv

LEMMA EndInit == EmuInit => EndInv
<1>1. SUFFICES ASSUME EmuInit PROVE Alive /\ Asked BY ParkInit DEF EndInv
<1> QED BY <1>1 DEF EmuInit, Alive, Asked, At, Depths, Looping, Parked

THEOREM EndInvariant == EmuSpec => []EndInv
<1>1. EndInv /\ [EmuNext]_emuVars => EndInv' BY EndStep
<1> QED BY <1>1, EndInit, PTL DEF EmuSpec

\* Once the program has booted the CPU thread ends only when the user has asked for
\* it (emulator.c:128-210): no order of pause, resume, save, load and menu, on
\* top of each other, makes it take a pause for a stop.
THEOREM EndsWhenAsked == EmuSpec => []EndsOnlyOnStop
<1>1. EndInv => EndsOnlyOnStop BY DEF EndInv, Calm, Alive, EndsOnlyOnStop
<1> QED BY <1>1, EndInvariant, PTL

-----------------------------------------------------------------------------
(* The machine stands still.                                               *)

LEMMA CPUPausedThere == ASSUME PausedThere, CPUThread PROVE PausedThere'
<1> USE DEF PausedThere, CpuAt, flags
<1>2. CASE InitEmu BY <1>2 DEF InitEmu
<1>3. CASE StartBoot BY <1>3 DEF StartBoot
<1>4. CASE EndBoot BY <1>4 DEF EndBoot
<1>5. CASE Booted BY <1>5 DEF Booted
<1>6. CASE StartLoop BY <1>6 DEF StartLoop
<1>7. CASE EnterLoop BY <1>7 DEF EnterLoop
<1>8. CASE LeaveLoop BY <1>8 DEF LeaveLoop
<1>9. CASE ServeEnds BY <1>9 DEF ServeEnds
<1>10. CASE ServeQuits BY <1>10 DEF ServeQuits
<1>11. CASE AfterLoop BY <1>11 DEF AfterLoop
<1>12. CASE PauseLoop BY <1>12 DEF PauseLoop
<1>13. CASE Woken BY <1>13 DEF Woken
<1>14. CASE RefreshAfterPause BY <1>14 DEF RefreshAfterPause
<1>15. CASE CloseEmulator BY <1>15 DEF CloseEmulator
<1>16. CASE ToggleTasks BY <1>16 DEF ToggleTasks
<1>17. CASE ServeException BY <1>17 DEF ServeException
<1> QED BY <1>2, <1>3, <1>4, <1>5, <1>6, <1>7, <1>8, <1>9, <1>10, <1>11, <1>12, <1>13,
           <1>14, <1>15, <1>16, <1>17 DEF CPUThread, CPUGoesOn

LEMMA PausedThereStep ==
    ASSUME Separate, EmuTypeOK, Nested, PausedThere, [EmuNext]_emuVars
    PROVE  PausedThere'
<1>1. CASE CPUThread BY <1>1, CPUPausedThere
<1>2. CASE Handler
  <2>1. gui # <<>> /\ UNCHANGED <<cpu, core>> BY <1>2, HandlerGoesOn
  <2>2. CASE isPaused' = isPaused BY <2>1, <2>2 DEF PausedThere
  <2>3. CASE Top.pc = "menuBack"
    <3>1. "menu" \in Commands[core] BY <2>1, <2>3, TopPlace
    <3>2. core # "dynarec" BY <3>1 DEF Separate, EmuTypeOK
    <3> QED BY <2>1, <3>2 DEF PausedThere
  <2> QED BY <1>2, <2>2, <2>3, HandlerEffects
<1>3. CASE User /\ ~Play BY <1>3, UserEnters DEF PausedThere, flags
<1>4. CASE User /\ Play BY <1>4 DEF PausedThere, Play, User
<1>5. CASE UNCHANGED emuVars BY <1>5 DEF PausedThere, emuVars, flags
<1> QED BY <1>1, <1>2, <1>3, <1>4, <1>5 DEF EmuNext

\* While a state is saved or loaded, the thread goes from the pause at most round
\* to the head of the main loop, which sends it back.
LEMMA CPUStill == ASSUME TouchInv, Calm, CPUThread PROVE Still'
<1>0. SUFFICES ASSUME At("touch") PROVE Still'
  BY CPUKeeps DEF Still, At, Top
<1>1. /\ cpu \in Parked \cup {"start", "enter"} /\ ~tasks /\ core = "dynarec"
      /\ ~keepRunning /\ reason = "EMUPAUSE"
  BY <1>0 DEF TouchInv, EndInv, ParkInv, EmuTypeOK, Alive, Asked, Still
<1> USE <1>1 DEF Still, CpuAt, Parked, flags, machine
<1>2. CASE InitEmu BY <1>2 DEF InitEmu
<1>3. CASE StartBoot BY <1>3 DEF StartBoot
<1>4. CASE EndBoot BY <1>4 DEF EndBoot
<1>5. CASE Booted BY <1>5 DEF Booted
<1>6. CASE StartLoop BY <1>6 DEF StartLoop
<1>7. CASE EnterLoop BY <1>7 DEF EnterLoop, MayLeave
<1>8. CASE LeaveLoop BY <1>8 DEF LeaveLoop
<1>9. CASE ServeEnds BY <1>9 DEF ServeEnds
<1>10. CASE ServeQuits BY <1>10 DEF ServeQuits
<1>11. CASE AfterLoop BY <1>11 DEF AfterLoop
<1>12. CASE PauseLoop BY <1>12 DEF PauseLoop
<1>13. CASE Woken BY <1>13 DEF Woken
<1>14. CASE RefreshAfterPause BY <1>14 DEF RefreshAfterPause
<1>15. CASE CloseEmulator BY <1>15 DEF CloseEmulator
<1>16. CASE ToggleTasks BY <1>16 DEF ToggleTasks, Executing
<1>17. CASE ServeException BY <1>17 DEF ServeException
<1> QED BY <1>2, <1>3, <1>4, <1>5, <1>6, <1>7, <1>8, <1>9, <1>10, <1>11, <1>12, <1>13,
           <1>14, <1>15, <1>16, <1>17 DEF CPUThread, CPUGoesOn

LEMMA HandlerStill == ASSUME Separate, TouchInv, Calm, Handler PROVE Still'
<1>1. EmuTypeOK /\ Nested /\ Settled /\ Alive /\ PausedThere /\ ~stopAsked
  BY DEF TouchInv, EndInv, ParkInv, Calm
<1>2. gui # <<>> /\ UNCHANGED <<cpu, core>> BY <1>1, HandlerGoesOn
<1>3. CASE Return
  <2>1. gui' # <<>> => Top'.pc \in {"reassert", "stopReassert"} BY <1>1, <1>2, <1>3, BelowTop
  <2> QED BY <2>1 DEF Still, At
<1>4. ASSUME NEW pc \in GuiPcs, Goto(pc), Fits(pc),
             pc = "touch" => /\ Top.pc = "wait" /\ (isPaused \/ ~isRunning)
                             /\ UNCHANGED <<isPaused, isRunning, tasks>>
      PROVE  Still'
  <2>1. Top'.pc = pc BY <1>1, <1>2, <1>4, GotoStack
  <2>2. CASE pc # "touch" BY <2>1, <2>2 DEF Still, At
  <2>3. CASE pc = "touch"
    <3>1. cpu \in Looping /\ isRunning BY <1>1, <1>2 DEF Alive
    <3>2. isPaused /\ tasks' = tasks BY <1>4, <2>3, <3>1
    <3>3. Top.job \in {"save", "load"} /\ Top.job \in Commands[core]
      BY <1>1, <1>2, <1>4, <2>3, TopPlace DEF Fits, Pausing
    <3>4. core \in UsedCores /\ core \in Cores
      BY <1>1, CommandsAssumption DEF EmuTypeOK
    <3>5. core = "dynarec" BY <3>3, <3>4 DEF Separate, Cores
    <3>6. cpu \in {"pause", "woken"} BY <1>1, <3>2, <3>5 DEF PausedThere
    <3>7. ~tasks BY <1>1, <3>6 DEF Settled, Parked
    <3> QED BY <1>2, <3>2, <3>5, <3>6, <3>7 DEF Still, Parked
  <2> QED BY <2>2, <2>3
<1> QED BY <1>1, <1>3, <1>4, HandlerAsks

LEMMA UserStill == ASSUME TouchInv, User PROVE Still'
<1>1. EmuTypeOK BY DEF TouchInv, EndInv, ParkInv
<1>2. CASE ~Play
  <2>1. PICK job \in Commands[core], pc \in GuiPcs : Enter(job, pc) /\ pc # "touch"
    BY <1>1, <1>2, UserEnters
  <2>2. job \in UserCommands BY <1>1, CommandsAssumption DEF EmuTypeOK
  <2>3. /\ Len(gui') = Len(gui) + 1
        /\ gui'[Len(gui) + 1] = [job |-> job, pc |-> pc]
    BY <1>1, <2>1, <2>2, EnterStack
  <2>4. Top'.pc = pc BY <2>3 DEF Top
  <2> QED BY <2>1, <2>4 DEF Still, At
<1>3. CASE Play BY <1>3 DEF Play, Still, At
<1> QED BY <1>2, <1>3

LEMMA TouchStep == ASSUME Separate, TouchInv, [EmuNext]_emuVars PROVE TouchInv'
<1>1. EndInv' BY EndStep DEF TouchInv
<1>2. PausedThere' BY PausedThereStep DEF TouchInv, EndInv, ParkInv
<1>3. ASSUME Calm' PROVE Still'
  <2>1. CASE CPUThread
    <3>1. Calm BY <1>3, <2>1, CPUKeeps DEF Calm
    <3> QED BY <2>1, <3>1, CPUStill
  <2>2. CASE Handler
    <3>1. Calm BY <1>3, <2>2, HandlerGoesOn DEF Calm, TouchInv, EndInv, ParkInv
    <3> QED BY <2>2, <3>1, HandlerStill
  <2>3. CASE User BY <2>3, UserStill
  <2>4. CASE UNCHANGED emuVars
    BY <1>3, <2>4 DEF TouchInv, Calm, Still, At, Top, emuVars, machine, history, guiOnly
  <2> QED BY <2>1, <2>2, <2>3, <2>4 DEF EmuNext
<1> QED BY <1>1, <1>2, <1>3 DEF TouchInv

LEMMA TouchInit == EmuInit => TouchInv
<1>1. SUFFICES ASSUME EmuInit PROVE PausedThere /\ Still BY EndInit DEF TouchInv
<1> QED BY <1>1 DEF EmuInit, PausedThere, Still, At

\* While SaveState or LoadState works on the machine the CPU thread executes nothing
\* (emulator.c:128-170), though a resume may just have woken it and other
\* handlers wait below: for every set of commands in which states are saved in
\* the dynarec, where no menu loop writes Emu_Is_Paused.
THEOREM UntouchedWhileSaved == ASSUME Separate PROVE EmuSpec => []TouchSafe
<1>1. TouchInv /\ [EmuNext]_emuVars => TouchInv' BY TouchStep
<1>2. TouchInv => TouchSafe BY DEF TouchInv, Calm, Still, TouchSafe, Executing, Parked
<1> QED BY <1>1, <1>2, TouchInit, PTL DEF EmuSpec
=============================================================================
