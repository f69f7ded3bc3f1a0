---------------------------- MODULE TimerEvents ----------------------------
(***************************************************************************)
(* The emulator's clock (timer.c).  Emulated time is never stored: it is   *)
(* current_counter + counter_leap - countdown_counter, and the CPU loop    *)
(* only decrements countdown_counter.  When that falls to zero or below,   *)
(* the first node of a list of timer events is fired.  This module keeps   *)
(* the list as the sequence of its nodes; TimerList implements the         *)
(* sequence with the pool of linked nodes of the code.                     *)
(***************************************************************************)
EXTENDS Integers, Sequences, SequencesExt

CONSTANTS
    Tasks,          \* event types in use besides VI and COMPARE
    Delay,          \* the ticks a Set_*_Timer_Event adds, for every task
    FramePeriods,   \* the values max_vi_count takes
    Wrap,           \* 2^32
    Far,            \* 0x60000000, the longest leap
    CF, VCF,        \* CounterFactors[f] and VICounterFactors[f]
    Jitter,         \* the values of rand() % 4, which every read of COUNT adds
    Slack,          \* blksize * VCF of the recompiled block, 0 in the interpreter
    Costs,          \* ticks of one turn of the CPU loop
    Values,         \* what the program writes in COUNT and COMPARE
    MaxTime         \* bound: no run of the CPU loop passes this tick

TaskTypes == {"PI_DMA", "SI_DMA", "SI_IO", "SP_DMA", "SP_DLIST",
              "CHECK_INTERRUPT", "DELAY_AI"}

ASSUME TasksAssumption == Tasks \subseteq TaskTypes /\ Delay \in [Tasks -> Nat]
ASSUME PeriodsAssumption == FramePeriods \subseteq Nat \ {0} /\ FramePeriods # {}
ASSUME FactorsAssumption == CF \in Nat \ {0} /\ VCF \in Nat \ {0}
ASSUME TicksAssumption == /\ Wrap \in Nat \ {0} /\ Far \in Nat \ {0}
                          /\ Values \subseteq 0 .. Wrap - 1
                          /\ Jitter \subseteq Nat /\ Slack \subseteq Nat
                          /\ Costs \subseteq Nat \ {0} /\ MaxTime \in Nat

Types == {"VI", "COMPARE"} \cup Tasks
Event == [type : Types, target : Int]

VARIABLES
    timer,      \* the list and the three counters of timer.c
    compare,    \* gHWS_COP0Reg[COMPARE]
    period,     \* max_vi_count
    loop        \* "run": about to execute; "check": about to test countdown

vars == <<timer, compare, period, loop>>

TimerState == [events : Seq(Event), current : Int, leap : Int, countdown : Int]

Now(s) == s.current + s.leap - s.countdown

HasEvent(q, type) == \E i \in 1 .. Len(q) : q[i].type = type
----------------------------------------------------------------------------
(* Operations on the list and the counters *)

\* Mutants of Refresh: the bounds of the leap confused; the base not advanced.
RefreshFarthest(s) ==
    LET gap  == Head(s.events).target - Now(s)
        leap == IF gap < Far THEN Far ELSE gap
    IN  IF s.events = <<>> THEN s
        ELSE [s EXCEPT !.current = Now(s), !.leap = leap, !.countdown = leap]
RefreshOldBase(s) ==
    LET gap  == Head(s.events).target - Now(s)
        leap == IF gap > Far THEN Far ELSE gap
    IN  IF s.events = <<>> THEN s
        ELSE [s EXCEPT !.leap = leap, !.countdown = leap]

\* Refresh_Count_Down_Counter
Refresh(s) ==
    LET gap  == Head(s.events).target - Now(s)
        leap == IF gap > Far THEN Far ELSE gap
    IN  IF s.events = <<>> THEN s
        ELSE [s EXCEPT !.current = Now(s), !.leap = leap, !.countdown = leap]

\* Mutants of Without: the old node stays; the header goes instead of it.
WithoutNothing(q, type) == q
WithoutHeader(q, type) == IF HasEvent(q, type) THEN Tail(q) ELSE q

\* The first node of the type leaves the list.
Without(q, type) == RemoveFirstMatch(q, LAMBDA e : e.type = type)

\* The place of a new target: before the first node with a later one.
Place(q, target) ==
    LET i == SelectInSeq(q, LAMBDA e : e.target > target)
    IN  IF i = 0 THEN Len(q) + 1 ELSE i

\* Mutant of AddEvent: the counters are never refreshed.
AddEventUnrefreshed(s, type, delay, slack) ==
    LET target == Now(s) + delay + (IF type = "VI" THEN 0 ELSE slack)
        rest   == Without(s.events, type)
    IN  [s EXCEPT !.events = InsertAt(rest, Place(rest, target),
                                      [type |-> type, target |-> target])]

\* Add_New_Timer_Event.  The counters are refreshed only when the new node
\* became the header.
AddEvent(s, type, delay, slack) ==
    LET target == Now(s) + delay + (IF type = "VI" THEN 0 ELSE slack)
        rest   == Without(s.events, type)
        place  == Place(rest, target)
        added  == [s EXCEPT !.events =
                      InsertAt(rest, place, [type |-> type, target |-> target])]
    IN  IF place = 1 THEN Refresh(added) ELSE added

\* Remove_1st_Timer_Event
RemoveHead(s) == Refresh([s EXCEPT !.events = Tail(s.events)])

\* Get_COUNT_Register, when its rand() % 4 is jitter
Count(s, jitter) == (((Now(s) * CF) \div VCF) + jitter) % Wrap

\* The distance Set_COMPARE_Timer_Event adds when COUNT was read as count
CompareDelay(value, count) ==
    IF value > count THEN ((value - count) * VCF) \div CF
    ELSE ((Wrap + value - count) * VCF) \div CF

\* The same distance in Init_Count_Down_Counters, where a COMPARE ahead of
\* COUNT is scaled in 32 bits.
InitialCompareDelay(value, count) ==
    IF value > count THEN (((value - count) * VCF) % Wrap) \div CF
    ELSE ((Wrap + value - count) * VCF) \div CF

\* Mutant of Restarted: COUNT taken for a number of ticks
RestartedUnscaled(count, value, frame, slack) ==
    LET empty == [events |-> <<>>, current |-> count, leap |-> 0, countdown |-> 0]
    IN  AddEvent(AddEvent(empty, "COMPARE", InitialCompareDelay(value, count), slack),
                 "VI", count % frame, 0)

\* Init_Count_Down_Counters: an empty list, then COMPARE, then VI
Restarted(count, value, frame, slack) ==
    LET now   == ((count * VCF) % Wrap) \div CF
        empty == [events |-> <<>>, current |-> now, leap |-> 0, countdown |-> 0]
    IN  AddEvent(AddEvent(empty, "COMPARE", InitialCompareDelay(value, count), slack),
                 "VI", now % frame, 0)
----------------------------------------------------------------------------
(* The program being emulated *)

\* mtc0 COUNT
WriteCount(value) ==
    /\ \E slack \in Slack : timer' = Restarted(value, compare, period, slack)
    /\ UNCHANGED <<compare, period, loop>>

\* mtc0 COMPARE
WriteCompare(value) ==
    /\ compare' = value
    /\ \E jitter \in Jitter, slack \in Slack :
          timer' = AddEvent(timer, "COMPARE",
                            CompareDelay(value, Count(timer, jitter)), slack)
    /\ UNCHANGED <<period, loop>>

\* Mutant of WriteVSync: one tick short
WriteVSyncShort(frame) ==
    /\ period' = frame - 1
    /\ UNCHANGED <<timer, compare, loop>>

\* A store to VI_V_SYNC_REG
WriteVSync(frame) ==
    /\ period' = frame
    /\ UNCHANGED <<timer, compare, loop>>

\* A register write that starts a DMA, an RSP task or an interrupt check
Schedule(type) ==
    /\ type # "SI_IO"
    /\ \E slack \in Slack : timer' = AddEvent(timer, type, Delay[type], slack)
    /\ UNCHANGED <<compare, period, loop>>

\* The idle-loop speed hack: jump to the next event unless a task is pending.
SpeedHack ==
    /\ ~ \E type \in Tasks : HasEvent(timer.events, type)
    /\ timer.current + timer.leap <= MaxTime
    /\ timer' = [timer EXCEPT !.countdown = 0]
    /\ UNCHANGED <<compare, period, loop>>
----------------------------------------------------------------------------
(* The CPU loop *)

\* One instruction, or one recompiled block
Run(cost) ==
    /\ loop = "run"
    /\ Now(timer) + cost <= MaxTime
    /\ timer' = [timer EXCEPT !.countdown = @ - cost]
    /\ loop' = "check"
    /\ UNCHANGED <<compare, period>>

\* An instruction that raised an exception: the loop skips the test.
RunFaulting ==
    /\ loop = "run"
    /\ Now(timer) + 5 * VCF <= MaxTime
    /\ timer' = [timer EXCEPT !.countdown = @ - 5 * VCF]
    /\ UNCHANGED <<compare, period, loop>>

NotDue ==
    /\ loop = "check" /\ timer.countdown > 0
    /\ loop' = "run"
    /\ UNCHANGED <<timer, compare, period>>

\* Mutant of Rearmed: COMPARE fires only once.
RearmedVIOnly(s, type, slack) ==
    CASE type = "VI" -> {AddEvent(s, "VI", period, 0)}
      [] type = "SI_DMA" /\ "SI_IO" \in Tasks ->
             {s, AddEvent(s, "SI_IO", Delay["SI_IO"], slack)}
      [] OTHER -> {s}

\* What the handler of a fired type schedules before it raises interrupts
Rearmed(s, type, slack) ==
    CASE type = "VI" -> {AddEvent(s, "VI", period, 0)}
      [] type = "COMPARE" -> {AddEvent(s, "COMPARE", Wrap, slack)}
      [] type = "SI_DMA" /\ "SI_IO" \in Tasks ->
             {s, AddEvent(s, "SI_IO", Delay["SI_IO"], slack)}
      [] OTHER -> {s}

\* The handlers that end in CPU_Check_Interrupts
Checking == Types \ {"SI_IO", "SP_DMA"}

\* HandleInterrupts (5 ticks), or the poll that finds an interrupt still
\* pending (100 ticks), schedules another check.
WithCheck(s, type, slack) ==
    IF "CHECK_INTERRUPT" \in Tasks /\ type \in Checking
    THEN {s, AddEvent(s, "CHECK_INTERRUPT",
                IF type = "CHECK_INTERRUPT" THEN 100 ELSE Delay["CHECK_INTERRUPT"], slack)}
    ELSE {s}

\* Trigger_Timer_Event.  Taking an interrupt costs the interpreter 4 cycles.
Trigger ==
    /\ loop = "check" /\ timer.countdown <= 0
    /\ LET type == Head(timer.events).type
       IN  \E slack \in Slack :
           \E s \in Rearmed(RemoveHead(timer), type, slack) :
           \E t \in WithCheck(s, type, slack) :
           \E cost \in IF type \in Checking THEN {0, 4 * VCF} ELSE {0} :
              timer' = [t EXCEPT !.countdown = @ - cost]
    /\ loop' = "run"
    /\ UNCHANGED <<compare, period>>
----------------------------------------------------------------------------
Init ==
    /\ period \in FramePeriods
    /\ compare = 0
    /\ \E slack \in Slack : timer = Restarted(0, 0, period, slack)
    /\ loop = "run"

Next ==
    \/ \E value \in Values : WriteCount(value)
    \/ \E value \in Values : WriteCompare(value)
    \/ \E frame \in FramePeriods : WriteVSync(frame)
    \/ \E type \in Tasks : Schedule(type)
    \/ SpeedHack
    \/ \E cost \in Costs : Run(cost)
    \/ RunFaulting
    \/ NotDue
    \/ Trigger

Spec == Init /\ [][Next]_vars
----------------------------------------------------------------------------
(* Properties *)

TypeOK ==
    /\ timer \in TimerState
    /\ compare \in 0 .. Wrap - 1
    /\ period \in FramePeriods
    /\ loop \in {"run", "check"}

\* The list is in firing order, and no type is pending twice.  With at most one
\* node per type the 20 nodes of CounterTargets[] never run out (timer.c:127).
InOrder(q) == \A i, j \in 1 .. Len(q) : i < j => q[i].target <= q[j].target
OnePerType(q) == \A i, j \in 1 .. Len(q) : q[i].type = q[j].type => i = j
ListOrdered == InOrder(timer.events) /\ OnePerType(timer.events)

\* The event list always holds a VI and a COMPARE event, so the list the code
\* says "should never" be empty (timer.c:192, 376) never is.
AlwaysArmed == HasEvent(timer.events, "VI") /\ HasEvent(timer.events, "COMPARE")

\* The countdown never sleeps past an event: it runs out no later than the
\* first target, although it is not recomputed when the header is deleted.
NeverOversleeps ==
    Head(timer.events).target <= Now(timer) => timer.countdown <= 0

\* The inductive strengthening: every leap ends at or before the first target.
LeapBounded ==
    timer.events # <<>> => timer.current + timer.leap <= Head(timer.events).target
TimerInv == TypeOK /\ ListOrdered /\ AlwaysArmed /\ LeapBounded

\* Emulated time runs backwards only when the program writes COUNT, or when
\* the speed hack zeroes a countdown that is already overdue.
TimeRunsForward ==
    [][ \/ Now(timer') >= Now(timer)
        \/ \E value \in Values : WriteCount(value)
        \/ SpeedHack /\ timer.countdown < 0 ]_vars

\* A pending task leaves the list only when it is fired, or when a write to
\* COUNT rebuilds the list (R4300i.c:1684, "This is risky").
TasksSurvive ==
    [][ \A type \in Tasks :
          HasEvent(timer.events, type) /\ ~HasEvent(timer'.events, type) =>
             \/ Trigger /\ Head(timer.events).type = type
             \/ \E value \in Values : WriteCount(value) ]_vars

\* "COUNT register is writable" (R4300i.c:1682): a read before time runs on
\* returns what was written, short by less than the counter factor and then
\* increased by the jitter every read adds.
CountReadsBack ==
    [][ \A value \in Values, jitter \in Jitter :
          WriteCount(value) =>
             \E base \in (value - CF + 1 .. value) \cap Nat :
                Count(timer', jitter) = (base + jitter) % Wrap ]_vars
=============================================================================
