----------------------------- MODULE TimerList -----------------------------
(***************************************************************************)
(* The event list of timer.c as the code keeps it: a pool of nodes         *)
(* CounterTargets[] with inuse flags, linked through next and prev from    *)
(* Timer_Event_List_Header.  It implements TimerEvents: the sequence of    *)
(* events is what the list walk from the header visits.                    *)
(***************************************************************************)
EXTENDS Integers, Sequences, SequencesExt

CONSTANTS
    PoolSize,   \* the number of nodes, 20 in the code
    Tasks, Delay, FramePeriods, Wrap, Far, CF, VCF,
    Jitter, Slack, Costs, Values, MaxTime   \* as in TimerEvents

VARIABLES
    list,       \* [node |-> CounterTargets, header |-> Timer_Event_List_Header]
    current, leap, countdown,   \* current_counter, counter_leap, countdown_counter
    compare, period, loop       \* as in TimerEvents

clock == <<current, leap, countdown>>
vars == <<list, current, leap, countdown, compare, period, loop>>

Nodes == 0 .. PoolSize - 1
NULL == -1
Types == {"VI", "COMPARE"} \cup Tasks

Node == [type : Types, inuse : BOOLEAN, target : Int,
         next : Nodes \cup {NULL}, prev : Nodes \cup {NULL}]

After(l, n) == IF n = NULL THEN NULL ELSE l.node[n].next

\* The nodes a walk from the header visits.  It ends when it has visited as
\* many as there are: only a list that is a ring would go on.
Walk(l) ==
    LET at[k \in 1 .. PoolSize] == IF k = 1 THEN l.header ELSE After(l, at[k - 1])
    IN  [k \in {j \in 1 .. PoolSize : at[j] # NULL} |-> at[k]]

\* The sequence the list stands for
Events(l) ==
    [i \in DOMAIN Walk(l) |-> [type   |-> l.node[Walk(l)[i]].type,
                               target |-> l.node[Walk(l)[i]].target]]

Abstract == INSTANCE TimerEvents WITH
    timer <- [events |-> Events(list), current |-> current,
              leap |-> leap, countdown |-> countdown]

\* There is a node for every type (20 nodes and 9 types in the code); the rest
\* is assumed in TimerEvents too.
ASSUME PoolAssumption ==
    /\ PoolSize \in Nat /\ IsFiniteSet(Tasks) /\ PoolSize >= 2 + Cardinality(Tasks)
ASSUME EventsAssumption ==
    /\ Tasks \subseteq Abstract!TaskTypes /\ Delay \in [Tasks -> Nat]
    /\ FramePeriods \subseteq Nat \ {0} /\ FramePeriods # {}
    /\ CF \in Nat \ {0} /\ VCF \in Nat \ {0}
    /\ Wrap \in Nat \ {0} /\ Far \in Nat \ {0} /\ Values \subseteq 0 .. Wrap - 1
    /\ Jitter \subseteq Nat /\ Slack \subseteq Nat
    /\ Costs \subseteq Nat \ {0} /\ MaxTime \in Nat
----------------------------------------------------------------------------
(* The list operations *)

\* Point the next of node n, or the header when n is NULL, to m.
LinkNext(l, n, m) ==
    IF n = NULL THEN [l EXCEPT !.header = m] ELSE [l EXCEPT !.node[n].next = m]

\* Mutant of LinkPrev: only the forward links are kept.
LinkPrevDropped(l, n, m) == l

LinkPrev(l, n, m) ==
    IF n = NULL THEN l ELSE [l EXCEPT !.node[n].prev = m]

\* Release_Counter_Node: the node keeps its type, its target and its links.
Release(l, n) == [l EXCEPT !.node[n].inuse = FALSE]

\* Step 1 of Add_New_Timer_Event: unlink and release the node of the type.
Unlink(l, type) ==
    LET i == SelectInSeq(Walk(l), LAMBDA n : l.node[n].type = type)
        n == Walk(l)[i]
        x == l.node[n]
    IN  IF i = 0 THEN l
        ELSE Release(LinkPrev(LinkNext(l, x.prev, x.next), x.next, x.prev), n)

\* Mutant of FreeNode: the pool is searched from its end.
FreeNodeLast(l) == Max({n \in Nodes : ~ l.node[n].inuse})

\* Get_New_Counter_Node: the first free node
FreeNode(l) == Min({n \in Nodes : ~ l.node[n].inuse})

\* Step 2 of Add_New_Timer_Event: link node n before the first node with a
\* later target, or at the end.
Link(l, n) ==
    LET walk   == Walk(l)
        i      == SelectInSeq(walk, LAMBDA m : l.node[m].target > l.node[n].target)
        before == IF i # 0 THEN l.node[walk[i]].prev
                  ELSE IF walk = <<>> THEN NULL ELSE Last(walk)
        after  == IF i # 0 THEN walk[i] ELSE NULL
    IN  LinkPrev(LinkNext(
          [l EXCEPT !.node[n].next = after, !.node[n].prev = before],
          before, n), after, n)

\* Both steps
Inserted(l, type, target) ==
    LET u == Unlink(l, type)
        n == FreeNode(u)
    IN  [list |-> Link([u EXCEPT !.node[n].type = type, !.node[n].inuse = TRUE,
                                 !.node[n].target = target], n),
         node |-> n]

\* Init_Timer_Event_List: the types and targets of the nodes stay.
Emptied(l) ==
    [node   |-> [n \in Nodes |-> [l.node[n] EXCEPT !.inuse = FALSE,
                                                   !.next = NULL, !.prev = NULL]],
     header |-> NULL]
----------------------------------------------------------------------------
(* The operations of timer.c on the list and the counters, s being
   [list, current, leap, countdown] *)

State == [list |-> list, current |-> current, leap |-> leap, countdown |-> countdown]

Become(s) ==
    /\ list' = s.list
    /\ current' = s.current /\ leap' = s.leap /\ countdown' = s.countdown

Now(s) == s.current + s.leap - s.countdown

\* Refresh_Count_Down_Counter
Refresh(s) ==
    LET gap == s.list.node[s.list.header].target - Now(s)
        to  == IF gap > Far THEN Far ELSE gap
    IN  IF s.list.header = NULL THEN s
        ELSE [s EXCEPT !.current = Now(s), !.leap = to, !.countdown = to]

\* Add_New_Timer_Event
AddEvent(s, type, delay, slack) ==
    LET target == Now(s) + delay + (IF type = "VI" THEN 0 ELSE slack)
        new    == Inserted(s.list, type, target)
        t      == [s EXCEPT !.list = new.list]
    IN  IF new.list.header = new.node THEN Refresh(t) ELSE t

\* Remove_1st_Timer_Event
RemoveHead(s) ==
    LET l    == s.list
        next == l.node[l.header].next
    IN  Refresh([s EXCEPT !.list =
          LinkPrev([Release(l, l.header) EXCEPT !.header = next], next, NULL)])

\* Init_Count_Down_Counters
Restarted(l, count, value, frame, slack) ==
    LET now   == ((count * VCF) % Wrap) \div CF
        empty == [list |-> Emptied(l), current |-> now, leap |-> 0, countdown |-> 0]
    IN  AddEvent(AddEvent(empty, "COMPARE",
                   Abstract!InitialCompareDelay(value, count), slack),
                 "VI", now % frame, 0)

\* Mutant of DoingOtherTasks: only the header is looked at.
HeaderIsTask(l) == l.node[l.header].type \notin {"VI", "COMPARE"}

\* Is_CPU_Doing_Other_Tasks: a scan of the pool, not of the list
DoingOtherTasks(l) ==
    \E n \in Nodes : l.node[n].inuse /\ l.node[n].type \notin {"VI", "COMPARE"}

\* The node Get_VIcounter reads: the first whose type is VI, in use or not
VINode(l) == Min({n \in Nodes : l.node[n].type = "VI"})
----------------------------------------------------------------------------
(* The actions of TimerEvents on the list *)

WriteCount(value) ==
    /\ \E slack \in Slack : Become(Restarted(list, value, compare, period, slack))
    /\ UNCHANGED <<compare, period, loop>>

WriteCompare(value) ==
    /\ compare' = value
    /\ \E jitter \in Jitter, slack \in Slack :
          LET count == (((Now(State) * CF) \div VCF) + jitter) % Wrap
          IN  Become(AddEvent(State, "COMPARE", Abstract!CompareDelay(value, count), slack))
    /\ UNCHANGED <<period, loop>>

\* Mutant of WriteVSync: one tick short
WriteVSyncShort(frame) ==
    /\ period' = frame - 1
    /\ UNCHANGED <<list, clock, compare, loop>>

WriteVSync(frame) ==
    /\ period' = frame
    /\ UNCHANGED <<list, clock, compare, loop>>

Schedule(type) ==
    /\ type # "SI_IO"
    /\ \E slack \in Slack : Become(AddEvent(State, type, Delay[type], slack))
    /\ UNCHANGED <<compare, period, loop>>

SpeedHack ==
    /\ ~ DoingOtherTasks(list)
    /\ current + leap <= MaxTime
    /\ countdown' = 0
    /\ UNCHANGED <<list, current, leap, compare, period, loop>>

Run(cost) ==
    /\ loop = "run"
    /\ Now(State) + cost <= MaxTime
    /\ countdown' = countdown - cost
    /\ loop' = "check"
    /\ UNCHANGED <<list, current, leap, compare, period>>

RunFaulting ==
    /\ loop = "run"
    /\ Now(State) + 5 * VCF <= MaxTime
    /\ countdown' = countdown - 5 * VCF
    /\ UNCHANGED <<list, current, leap, compare, period, loop>>

NotDue ==
    /\ loop = "check" /\ countdown > 0
    /\ loop' = "run"
    /\ UNCHANGED <<list, clock, compare, period>>

Rearmed(s, type, slack) ==
    CASE type = "VI" -> {AddEvent(s, "VI", period, 0)}
      [] type = "COMPARE" -> {AddEvent(s, "COMPARE", Wrap, slack)}
      [] type = "SI_DMA" /\ "SI_IO" \in Tasks ->
             {s, AddEvent(s, "SI_IO", Delay["SI_IO"], slack)}
      [] OTHER -> {s}

Checking == Types \ {"SI_IO", "SP_DMA"}

WithCheck(s, type, slack) ==
    IF "CHECK_INTERRUPT" \in Tasks /\ type \in Checking
    THEN {s, AddEvent(s, "CHECK_INTERRUPT",
                IF type = "CHECK_INTERRUPT" THEN 100 ELSE Delay["CHECK_INTERRUPT"], slack)}
    ELSE {s}

Trigger ==
    /\ loop = "check" /\ countdown <= 0
    /\ LET type == list.node[list.header].type
       IN  \E slack \in Slack :
           \E s \in Rearmed(RemoveHead(State), type, slack) :
           \E t \in WithCheck(s, type, slack) :
           \E cost \in IF type \in Checking THEN {0, 4 * VCF} ELSE {0} :
              Become([t EXCEPT !.countdown = @ - cost])
    /\ loop' = "run"
    /\ UNCHANGED <<compare, period>>
----------------------------------------------------------------------------
\* Statically zeroed nodes: type 0 is VI_COUNTER_TYPE, no node is in use.
ZeroedList ==
    [node   |-> [n \in Nodes |-> [type |-> "VI", inuse |-> FALSE, target |-> 0,
                                  next |-> NULL, prev |-> NULL]],
     header |-> NULL]

Init ==
    /\ period \in FramePeriods
    /\ compare = 0
    /\ loop = "run"
    /\ \E slack \in Slack :
          LET s == Restarted(ZeroedList, 0, 0, period, slack)
          IN  /\ list = s.list /\ current = s.current
              /\ leap = s.leap /\ countdown = s.countdown

Next ==
    \/ \E value \in Values : WriteCount(value)
    \/ \E value \in Values : WriteCompare(value)
    \/ \E frame \in FramePeriods : WriteVSync(frame)
    \/ \E type \in Tasks : Schedule(type)
    \/ SpeedHack
    \/ \E cost \in Costs : Run(cost)
    \/ RunFaulting
    \/ NotDue
    \/ Trigger

Spec == Init /\ [][Next]_vars
----------------------------------------------------------------------------
(* Properties *)

TypeOK ==
    /\ list \in [node : [Nodes -> Node], header : Nodes \cup {NULL}]
    /\ current \in Nat /\ leap \in Int /\ countdown \in Int
    /\ compare \in 0 .. Wrap - 1 /\ period \in FramePeriods
    /\ loop \in {"run", "check"}

\* The links agree in both directions and the nodes in use are exactly those
\* on the list: no node leaks, so a pool of one node per type never runs out
\* ("No more CounterTargets[] to use, this should not happens", timer.c:127).
WellLinked ==
    LET walk == Walk(list)
    IN  /\ \A i \in DOMAIN walk :
             list.node[walk[i]].prev = IF i = 1 THEN NULL ELSE walk[i - 1]
        /\ {n \in Nodes : list.node[n].inuse} = {walk[i] : i \in DOMAIN walk}

\* Get_VIcounter looks for the type VI in every node, also in those released:
\* the first it finds is always the pending VI event, because after every
\* restart COMPARE takes node 0 and VI node 1, and each gets its own node back.
VINodeLive == VINode(list) \in {Walk(list)[i] : i \in DOMAIN Walk(list)}

\* The linked list implements the sequence of events.
Implements == Abstract!Spec
=============================================================================
