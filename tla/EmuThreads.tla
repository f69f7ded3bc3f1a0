----------------------------- MODULE EmuThreads -----------------------------
(***************************************************************************)
(* The two threads of the emulator and the flags of emustatus they share   *)
(* without a lock (emulator.c, win32/Wingui.c): the GUI thread starts,     *)
(* pauses, resumes and stops the CPU thread, and touches the emulated      *)
(* machine while the CPU thread should be parked.                          *)
(* While a handler of the GUI waits for the CPU thread it dispatches       *)
(* messages, so handlers nest: gui is the stack of handlers, last on top.  *)
(***************************************************************************)
EXTENDS Naturals, Sequences

CONSTANTS
    Commands,       \* for each CPU core in use, what the user does with it
    MaxCommands,    \* bound: commands of the user in a behaviour
    MaxNesting      \* bound: handlers on the stack

UserCommands == {"pause", "resume", "save", "load", "menu", "stop", "play"}

Cores == {"interpreter", "dynarec"}
UsedCores == DOMAIN Commands

ASSUME CommandsAssumption ==
    /\ UsedCores \subseteq Cores
    /\ \A c \in UsedCores : Commands[c] \subseteq UserCommands
ASSUME BoundsAssumption == MaxCommands \in Nat /\ MaxNesting \in Nat \ {0}

VARIABLES
    keepRunning,        \* Emu_Keep_Running
    isRunning,          \* Emu_Is_Running
    isPaused,           \* Emu_Is_Paused
    reason,             \* reason_to_stop
    action,             \* action_after_resume
    exceptions,         \* exception_entry_count > 0
    tasks,              \* Is_CPU_Doing_Other_Tasks()
    menuCausedPause,    \* MenuCausedPause
    romLoaded,          \* Rom_Loaded
    core,               \* emustatus.cpucore
    cpu,                \* where the CPU thread is
    gui,                \* the handlers the GUI thread is in: [job, pc]
    commands,           \* commands so far
    stale,              \* history: the machine was loaded, dynarec not refreshed
    early,              \* history: a command came before the main loop
    stopAsked           \* history: the user asked to stop this thread

flags == <<keepRunning, isRunning, isPaused, reason>>
machine == <<exceptions, tasks, stale>>
history == <<early, stopAsked>>
guiOnly == <<menuCausedPause, romLoaded, gui, commands>>
emuVars == <<flags, machine, history, guiOnly, action, cpu, core>>

Reasons == {"EMURUNNING", "EMUSTOP", "EMUPAUSE"}
Actions == {"REFRESH_DYNA_AFTER_PAUSE", "DO_NOTHING_AFTER_PAUSE"}
CpuPcs == {"none", "init", "opened", "boot", "booted", "start", "enter", "run",
           "serve", "left", "pause", "woken", "refresh", "closing"}
GuiPcs == {"check", "poll", "ask", "keepOff", "wait", "reassert", "again", "touch",
           "touchIdle", "resume", "go", "menuBack", "menuLoop", "menuExit",
           "stop", "stopReason", "stopWait", "stopReassert", "stopAgain", "afterStop"}

Executing == cpu \in {"boot", "run", "serve"}
Starting == cpu \in {"init", "opened", "boot", "booted"} \/ (cpu = "start" /\ ~isRunning)
----------------------------------------------------------------------------
(* The CPU thread *)

CpuAt(pc) == cpu = pc /\ UNCHANGED <<guiOnly, history, core>>

\* InitEmu
InitEmu ==
    /\ CpuAt("init")
    /\ cpu' = "opened"
    /\ isPaused' = FALSE /\ exceptions' = FALSE /\ tasks' = FALSE /\ stale' = FALSE
    /\ action' = "DO_NOTHING_AFTER_PAUSE"
    /\ UNCHANGED <<keepRunning, isRunning, reason>>

\* N64_Boot, before and after its loop, which runs until the program is loaded
\* or the GUI wants the thread
StartBoot ==
    /\ CpuAt("opened")
    /\ cpu' = "boot" /\ isRunning' = TRUE
    /\ UNCHANGED <<keepRunning, isPaused, reason, machine, action>>

EndBoot ==
    /\ CpuAt("boot")
    /\ cpu' = "booted" /\ isRunning' = FALSE
    /\ UNCHANGED <<keepRunning, isPaused, reason, machine, action>>

\* StartCPUThread between N64_Boot and START_CPU_THREAD
Booted ==
    /\ CpuAt("booted")
    /\ cpu' = "start" /\ reason' = "EMURUNNING"
    /\ UNCHANGED <<keepRunning, isRunning, isPaused, machine, action>>

\* Mutant of StartLoop: the reason is reset whenever the loop starts.
StartLoopAnew ==
    /\ CpuAt("start")
    /\ cpu' = "enter" /\ isRunning' = TRUE /\ reason' = "EMURUNNING"
    /\ UNCHANGED <<keepRunning, isPaused, machine, action>>

\* START_CPU_THREAD
StartLoop ==
    /\ CpuAt("start")
    /\ cpu' = "enter" /\ isRunning' = TRUE
    /\ UNCHANGED <<keepRunning, isPaused, reason, machine, action>>

\* Mutant of MayLeave: pending timer events are left behind.
MayLeaveBusy == ~keepRunning

\* The test at the end of the main loop.  The interpreter finishes the other
\* tasks whatever the reason.
MayLeave == ~keepRunning /\ (~tasks \/ (core = "dynarec" /\ reason = "EMUSTOP"))

\* Mutant of EnterLoop: a do-while loop.
EnterLoopAtOnce ==
    /\ CpuAt("enter")
    /\ cpu' = "run"
    /\ UNCHANGED <<flags, machine, action>>

\* RunTheInterpreter runs until the next taken branch before it looks;
\* RunTheRegCache... looks first.
EnterLoop ==
    /\ CpuAt("enter")
    /\ cpu' = IF core = "dynarec" /\ MayLeave THEN "left" ELSE "run"
    /\ UNCHANGED <<flags, machine, action>>

\* Emulated code schedules timer events, and they fire.
ToggleTasks ==
    /\ CpuAt(cpu) /\ Executing
    /\ tasks' = ~tasks
    /\ UNCHANGED <<flags, exceptions, stale, action, cpu>>

LeaveLoop ==
    /\ CpuAt("run") /\ MayLeave
    /\ cpu' = "left"
    /\ UNCHANGED <<flags, machine, action>>

\* Dyna_Exception_Service_Routine: runs the exception handler of the program,
\* until its ERET or until the user stops the emulator.
ServeException ==
    /\ CpuAt("run") /\ core = "dynarec"
    /\ cpu' = "serve" /\ exceptions' = TRUE
    /\ UNCHANGED <<flags, tasks, stale, action>>

ServeEnds ==
    /\ CpuAt("serve")
    /\ keepRunning \/ reason = "EMUPAUSE"
    /\ cpu' = "run" /\ exceptions' = FALSE
    /\ UNCHANGED <<flags, tasks, stale, action>>

\* Mutant of ServeQuits: the entry is not counted out.
ServeQuitsCounted ==
    /\ CpuAt("serve")
    /\ ~keepRunning /\ reason # "EMUPAUSE"
    /\ cpu' = "run" /\ isRunning' = FALSE
    /\ UNCHANGED <<keepRunning, isPaused, reason, machine, action>>

\* The emulator is closed, and the block that raised the exception goes on.
ServeQuits ==
    /\ CpuAt("serve")
    /\ ~keepRunning /\ reason # "EMUPAUSE"
    /\ cpu' = "run" /\ exceptions' = FALSE /\ isRunning' = FALSE
    /\ UNCHANGED <<keepRunning, isPaused, reason, tasks, stale, action>>

\* StartCPUThread after the main loop, and the entry of PauseEmulating
AfterLoop ==
    /\ CpuAt("left")
    /\ IF reason = "EMUPAUSE" THEN cpu' = "pause" /\ isPaused' = TRUE
                              ELSE cpu' = "closing" /\ UNCHANGED isPaused
    /\ UNCHANGED <<keepRunning, isRunning, reason, machine, action>>

\* Mutant of PauseLoop: only the resume ends it.
PauseLoopKeep ==
    /\ CpuAt("pause")
    /\ IF ~keepRunning THEN isPaused' = TRUE /\ UNCHANGED cpu
                       ELSE cpu' = "woken" /\ UNCHANGED isPaused
    /\ UNCHANGED <<keepRunning, isRunning, reason, machine, action>>

\* The loop of PauseEmulating
PauseLoop ==
    /\ CpuAt("pause")
    /\ IF ~keepRunning /\ reason = "EMUPAUSE"
       THEN isPaused' = TRUE /\ UNCHANGED cpu
       ELSE cpu' = "woken" /\ UNCHANGED isPaused
    /\ UNCHANGED <<keepRunning, isRunning, reason, machine, action>>

Woken ==
    /\ CpuAt("woken")
    /\ cpu' = "refresh" /\ isPaused' = FALSE
    /\ UNCHANGED <<keepRunning, isRunning, reason, machine, action>>

RefreshAfterPause ==
    /\ CpuAt("refresh")
    /\ cpu' = "start"
    /\ stale' = (stale /\ ~(keepRunning /\ action = "REFRESH_DYNA_AFTER_PAUSE"))
    /\ UNCHANGED <<flags, exceptions, tasks, action>>

CloseEmulator ==
    /\ CpuAt("closing")
    /\ cpu' = "none" /\ isRunning' = FALSE
    /\ UNCHANGED <<keepRunning, isPaused, reason, machine, action>>
----------------------------------------------------------------------------
(* The handlers of the GUI thread *)

Top == gui[Len(gui)]
At(pc) == gui # <<>> /\ Top.pc = pc
Goto(pc) == gui' = [gui EXCEPT ![Len(gui)].pc = pc]
Return == gui' = SubSeq(gui, 1, Len(gui) - 1)

\* What follows a PauseEmulator that returns TRUE
AfterPause ==
    CASE Top.job = "pause" -> Return
      [] Top.job = "menu"  -> Goto("menuBack")
      [] OTHER             -> Goto("touch")

\* PauseEmulator waits 100 ms for the end of an exception, or gives up.
CheckExceptions ==
    /\ At("check")
    /\ Goto(IF exceptions THEN "poll" ELSE "ask")
    /\ UNCHANGED <<flags, machine, history, action, cpu, menuCausedPause, romLoaded, commands>>

PollExceptions ==
    /\ At("poll")
    /\ \/ ~exceptions /\ Goto("ask")
       \/ IF Top.job = "menu" THEN Goto("menuBack") ELSE Return
    /\ UNCHANGED <<flags, machine, history, action, cpu, menuCausedPause, romLoaded, commands>>

\* PauseEmulator writes the reason and then the flag, ...
AskPause ==
    /\ \/ At("ask") /\ Goto("keepOff")
       \/ At("again") /\ Goto("wait")
    /\ reason' = "EMUPAUSE"
    /\ UNCHANGED <<keepRunning, isRunning, isPaused, machine, history, action, cpu,
                   menuCausedPause, romLoaded, commands>>

KeepOff ==
    /\ \/ At("keepOff") /\ Goto("wait")
       \/ At("reassert") /\ Goto("again")
       \/ At("stop") /\ Goto("stopReason")
       \/ At("stopReassert") /\ Goto("stopAgain")
    /\ keepRunning' = FALSE
    /\ UNCHANGED <<isRunning, isPaused, reason, machine, history, action, cpu,
                   menuCausedPause, romLoaded, commands>>

\* ... and waits, writing both again.
WaitPaused ==
    /\ At("wait")
    /\ IF ~isPaused /\ isRunning THEN Goto("reassert") ELSE AfterPause
    /\ UNCHANGED <<flags, machine, history, action, cpu, menuCausedPause, romLoaded, commands>>

\* StopEmulator writes the flag and then the reason.
AskStop ==
    /\ \/ At("stopReason") /\ Goto("stopWait")
       \/ At("stopAgain") /\ Goto("stopWait")
    /\ reason' = "EMUSTOP"
    /\ UNCHANGED <<keepRunning, isRunning, isPaused, machine, history, action, cpu,
                   menuCausedPause, romLoaded, commands>>

WaitStopped ==
    /\ At("stopWait")
    /\ Goto(IF isRunning THEN "stopReassert" ELSE "afterStop")
    /\ UNCHANGED <<flags, machine, history, action, cpu, menuCausedPause, romLoaded, commands>>

\* AfterStop, CloseROM
AfterStop ==
    /\ At("afterStop")
    /\ Return
    /\ isRunning' = FALSE /\ romLoaded' = FALSE
    /\ UNCHANGED <<keepRunning, isPaused, reason, machine, history, action, cpu,
                   menuCausedPause, commands>>

\* SaveState and LoadState: FileIO_..., Init_Count_Down_Counters
Touch ==
    /\ \/ At("touch") /\ Goto("resume") /\ stale' = (stale \/ Top.job = "load")
       \/ At("touchIdle") /\ Return /\ UNCHANGED stale
    /\ tasks' = (tasks /\ Top.job # "load")
    /\ UNCHANGED <<flags, exceptions, history, action, cpu, menuCausedPause, romLoaded,
                   commands>>

\* ResumeEmulator
Resume ==
    /\ At("resume")
    /\ IF isPaused
       THEN /\ Goto("go")
            /\ action' = IF Top.job = "load" THEN "REFRESH_DYNA_AFTER_PAUSE"
                                             ELSE "DO_NOTHING_AFTER_PAUSE"
       ELSE Return /\ UNCHANGED action
    /\ UNCHANGED <<flags, machine, history, cpu, menuCausedPause, romLoaded, commands>>

Go ==
    /\ At("go")
    /\ Return
    /\ keepRunning' = TRUE
    /\ UNCHANGED <<isRunning, isPaused, reason, machine, history, action, cpu,
                   menuCausedPause, romLoaded, commands>>

\* WM_ENTERMENULOOP writes back the flag it read.
MenuBack ==
    /\ At("menuBack")
    /\ Goto("menuLoop")
    /\ isPaused' = menuCausedPause
    /\ UNCHANGED <<keepRunning, isRunning, reason, machine, history, action, cpu,
                   menuCausedPause, romLoaded, commands>>

\* The user leaves the menu.
LeaveMenu ==
    /\ At("menuLoop")
    /\ Goto("menuExit")
    /\ UNCHANGED <<flags, machine, history, action, cpu, menuCausedPause, romLoaded, commands>>

\* WM_EXITMENULOOP
ExitMenu ==
    /\ At("menuExit")
    /\ IF isRunning /\ ~menuCausedPause THEN Goto("resume") ELSE Return
    /\ UNCHANGED <<flags, machine, history, action, cpu, menuCausedPause, romLoaded, commands>>
----------------------------------------------------------------------------
(* The commands of the user *)

Enter(job, pc) == gui' = Append(gui, [job |-> job, pc |-> pc])

\* The GUI is idle, or dispatches messages while it waits.
Command(job) ==
    /\ job \in Commands[core]
    /\ commands < MaxCommands /\ commands' = commands + 1
    /\ gui # <<>> => Len(gui) < MaxNesting /\ Top.pc \in {"reassert", "stopReassert"}
    /\ early' = (early \/ Starting)
    /\ UNCHANGED <<machine, action>>

Pause ==
    /\ Command("pause") /\ romLoaded
    /\ Enter("pause", "check")
    /\ UNCHANGED <<flags, cpu, menuCausedPause, romLoaded, stopAsked>>

ResumeCommand ==
    /\ Command("resume") /\ romLoaded
    /\ Enter("resume", "resume")
    /\ UNCHANGED <<flags, cpu, menuCausedPause, romLoaded, stopAsked>>

State(job) ==
    /\ Command(job) /\ romLoaded
    /\ Enter(job, IF isRunning THEN "check" ELSE "touchIdle")
    /\ UNCHANGED <<flags, cpu, menuCausedPause, romLoaded, stopAsked>>

EnterMenu ==
    /\ Command("menu")
    /\ Enter("menu", IF isRunning /\ ~isPaused THEN "check" ELSE "menuBack")
    /\ menuCausedPause' = isPaused
    /\ UNCHANGED <<flags, cpu, romLoaded, stopAsked>>

Stop ==
    /\ Command("stop") /\ isRunning
    /\ Enter("stop", "stop")
    /\ stopAsked' = TRUE
    /\ UNCHANGED <<flags, cpu, menuCausedPause, romLoaded>>

\* OpenROM, Play, RunEmulator.  By the time a file is chosen and read the last
\* thread is over.
Play ==
    /\ "play" \in Commands[core] /\ commands < MaxCommands
    /\ gui = <<>> /\ cpu = "none" /\ ~isRunning
    /\ commands' = commands + 1
    /\ keepRunning' = TRUE /\ romLoaded' = TRUE /\ cpu' = "init"
    /\ early' = FALSE /\ stopAsked' = FALSE
    /\ UNCHANGED <<isRunning, isPaused, reason, machine, action, menuCausedPause, gui>>
----------------------------------------------------------------------------
\* The first game has just been started.
EmuInit ==
    /\ keepRunning = TRUE /\ isRunning = FALSE /\ isPaused = FALSE
    /\ reason = "EMURUNNING"
    /\ action = "DO_NOTHING_AFTER_PAUSE"
    /\ exceptions = FALSE /\ tasks = FALSE
    /\ menuCausedPause = FALSE /\ romLoaded = TRUE
    /\ cpu = "init" /\ gui = <<>> /\ commands = 0
    /\ core \in UsedCores
    /\ stale = FALSE /\ early = FALSE /\ stopAsked = FALSE

CPUGoesOn ==
    \/ InitEmu \/ StartBoot \/ EndBoot \/ Booted \/ StartLoop \/ EnterLoop
    \/ LeaveLoop \/ ServeEnds \/ ServeQuits \/ AfterLoop
    \/ PauseLoop \/ Woken \/ RefreshAfterPause \/ CloseEmulator

CPUThread == CPUGoesOn \/ ToggleTasks \/ ServeException

\* The core is chosen before the game starts.
Handler ==
    /\ UNCHANGED core
    /\ \/ CheckExceptions \/ PollExceptions \/ AskPause \/ KeepOff \/ WaitPaused
       \/ AskStop \/ WaitStopped \/ AfterStop \/ Touch \/ Resume \/ Go
       \/ MenuBack \/ LeaveMenu \/ ExitMenu

User ==
    /\ UNCHANGED core
    /\ \/ Pause \/ ResumeCommand \/ EnterMenu \/ Stop \/ Play
       \/ \E job \in {"save", "load"} : State(job)

EmuNext == CPUThread \/ Handler \/ User
EmuSpec == EmuInit /\ [][EmuNext]_emuVars

\* Both threads are scheduled.  The exception handler of the program ends, and a
\* loop that is offered its end again and again ends: the test is made at every
\* taken branch or timer event.
EmuFairness ==
    /\ WF_emuVars(Handler)
    /\ WF_emuVars(CPUGoesOn)
    /\ SF_emuVars(LeaveLoop)
EmuFairSpec == EmuSpec /\ EmuFairness
----------------------------------------------------------------------------
(* Properties *)

EmuTypeOK ==
    /\ keepRunning \in BOOLEAN /\ isRunning \in BOOLEAN /\ isPaused \in BOOLEAN
    /\ core \in UsedCores /\ reason \in Reasons /\ action \in Actions
    /\ exceptions \in BOOLEAN /\ tasks \in BOOLEAN /\ stale \in BOOLEAN
    /\ menuCausedPause \in BOOLEAN /\ romLoaded \in BOOLEAN
    /\ cpu \in CpuPcs /\ (exceptions <=> cpu = "serve")
    /\ gui \in Seq([job : UserCommands, pc : GuiPcs]) /\ Len(gui) <= MaxNesting
    /\ commands \in 0..MaxCommands /\ early \in BOOLEAN /\ stopAsked \in BOOLEAN

\* A state is saved without the events of the timer list, so the CPU thread pauses
\* only when no DMA, RSP task or interrupt check is under way ("if (... &&
\* Is_CPU_Doing_Other_Tasks()) goto _DoOtherTask"), unless a stop is on its way.
SafePoint == cpu = "pause" /\ ~stopAsked => ~tasks

\* "Called by GUI thread to pause emulating" (emulator.c:128): once the program has
\* booted, SaveState and LoadState work on a machine that stands still, even if
\* the last resume has not reached the CPU thread yet, or the handler was entered
\* while another one waits.  So in the dynarec; the interpreter, whose loop looks
\* at Emu_Keep_Running only after a taken branch, breaks it.
TouchSafe == At("touch") /\ ~early /\ ~stopAsked => ~Executing

\* Once the program has booted, the emulation ends only when the user stops it:
\* no order of pause, resume and menu makes the CPU thread take a pause for a stop.
EndsOnlyOnStop == cpu = "closing" /\ ~early => stopAsked

\* The handlers of the GUI end: no order of commands leaves the GUI thread waiting
\* for a CPU thread that waits for it, unless the main loop finds other tasks under
\* way whenever it looks.
AlwaysBusy == Executing /\ (cpu = "run" => tasks)
GUIComesBack == <>[]AlwaysBusy \/ []<>(gui = <<>> \/ At("menuLoop"))

\* "Need to init emu" (Wingui.c:2656, 2678): after LoadState the CPU thread goes on
\* only with a dynarec that was refreshed.
RefreshedAfterLoad == cpu = "run" /\ ~early => ~stale
=============================================================================
