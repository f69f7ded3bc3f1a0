# A verification project for 1964

1964 is a Nintendo 64 emulator for Windows, written in C. This directory holds
TLA+ models of the parts of it in which order, time and concurrency matter, and of
the recompiler beside the interpreter it must agree with, the
TLC configurations that check them on small instances, and TLAPS proofs of what
holds for every value of the constants. The reference is the source as built by
the default Release configuration of `make/` (`src/Readme-HOW-TO-COMPILE.txt`):
neither `DEBUG_COMMON` nor `ENABLE_OPCODE_DEBUGGER`. The repository has no tests.

    tlc -config TimerEvents.cfg MCTimerEvents.tla      # a run
    tlapm TimerEventsProofs.tla                        # the proofs

## The system

Two threads share one process. The **GUI thread** (`win32/Wingui.c`) handles the
menus and starts, pauses, resumes and stops the **CPU thread** (`emulator.c`),
which runs the emulated MIPS R4300i, either one instruction at a time
(`RunTheInterpreter`) or a recompiled block at a time
(`RunTheRegCacheWithoutOpcodeDebugger`). The threads talk through the flags of
`emustatus`, without a lock. Graphics, sound, input and the RSP are plugins
(DLLs) called from the CPU thread; the audio plugin may call back from a thread
of its own.

The emulated hardware has no threads: a device that takes time puts an event in
the timer list (`timer.c`), the CPU loop counts `countdown_counter` down, and
`Trigger_Timer_Event` runs the handler of the first event when it is zero. An
RCP device that is done sets a bit of `MI_INTR_REG`; if `MI_INTR_MASK_REG` lets
it through, the IP3 bit of CAUSE goes up and a `CHECK_INTERRUPT` event makes the
CPU look (`interrupt.c`).

### Inventory

| Component | State | Operations | What is hard | What makes it correct |
|---|---|---|---|---|
| Timer events (`timer.c`) | list of events in a pool of 20 nodes, `current_counter`, `counter_leap`, `countdown_counter`, COUNT and COMPARE | add, re-add, fire, restart on mtc0 COUNT, speed hack | time is implicit and the countdown is recomputed only when the header changes to a new node; 32-bit scaling | list in order and without duplicates, countdown never late, time monotone, no task lost, COUNT reads back |
| Interrupts (`interrupt.c`, COP0 of `R4300i.c`) | MI registers, CAUSE, STATUS, `CPUNeedToCheckInterrupt` | trigger, clear, mask, mtc0, ERET, check | sources raised while masked or disabled; a poll that re-arms itself | none lost, none without a source, each delivered |
| DMA and RCP devices (`dma.c`, `n64rcp.c`, `Check_SW` of `R4300i.c`) | busy bits, SP and SI status, the addresses latched at the start | start, end, reset and acknowledge PI, SI, SP, DP, AI, VI | a transfer restarted, reset or overtaken by a write to COUNT | a busy bit has the event that clears it; the two SI bits agree |
| Emulator threads (`emulator.c`, `Wingui.c`) | `Emu_Keep_Running`, `Emu_Is_Running`, `Emu_Is_Paused`, `reason_to_stop`, `action_after_resume`, `exception_entry_count` | boot, run, serve exceptions, pause, resume, stop, save and load a state, menu | no lock; the GUI dispatches messages while it waits, so handlers nest | pauses only at a safe point, stands still while touched, ends only when told, nobody waits for ever |
| Interpreter (`R4300i.c`, `FPU.c`) | integer and floating-point registers, LO, HI, condition bit and rounding mode, `CPUdelay` | one function per opcode | links, likely branches, delay slots; the x87 behind the FPU | is the reference for the recompiler |
| Dynamic recompiler (`compiler.c`, `dynaRec/`): register cache | `x86reg[]`, `ConstMap[]`, `FlushedRegistersMap[]`, final-use table | map, flush, write back, free, push and pop; a handler per opcode | six host registers, 64-bit values in two of them, constants, what is known of the upper half | the block computes what the interpreter computes |
| Dynamic recompiler: block cache | table of blocks, copy of the code compiled, links, protected pages, code buffer | look up, compile, link, check, invalidate, empty | code rewritten by stores and DMA | a block that is entered was compiled from the code now there |
| TLB (`Tlb.c`) | 32 entries, ENTRYHI, INDEX, direct lookup table of the address space | tlbwi, tlbwr, tlbp, tlbr, lookup, refill and invalid exceptions | the table is updated incrementally and skips the search | a table entry is what the entries say, and the other way round |
| Memory map (`memory.c`, `memory2.c`) | page tables, protected pages | build, protect, unprotect | stores to protected code | protection matches the compiled pages |
| PIF and controllers (`iPIF.c`) | PIF RAM, EEPROM, controller paks | command loop | several channels, memories loaded at first use | what was written is read, and is in the file |
| Save memories and states (`gamesave.c`, `fileio.c`) | Flash RAM mode, offset and buffer; SRAM; files | commands, DMA in each mode, open, stop, close, save and load | a mode left by the previous command; games exchanged, the emulator killed | what a game wrote survives, and only its own file changes |
| ROM list, options, cheats (`romlist.c`, `1964ini.c`, `cheatcode.c`) | lists, ini file, codes | add, sort, read, write, apply | list handling | no entry lost |
| Windows user interface (`win32/`) | windows, `MenuCausedPause` | commands | see threads | see threads |
| Plugins (`Dll_*.c`, `DLL_Rsp.c`, `hle.c`) | function pointers | load, call | interrupts from other threads | see interrupts |
| Network play (`netplay.c`, `Kaillera/`) | | thin layer over an external library | | |
| Debugging (`DebugR4300i.c`, `OpcodeDebugger.c`, `profiler.c`) | | not in the release build | | |

The hazards of each, with their lines and the properties that watch them, are in
`PROJECT.json`.

## The modules

| Module | Models | Composes |
|---|---|---|
| `TimerEvents` | `timer.c`, COUNT and COMPARE, the CPU loop's test of the countdown | |
| `TimerList` | the node pool of `timer.c` | instantiates `TimerEvents` as its abstract specification |
| `Interrupts` | `interrupt.c` and the COP0 writes, as operators on a machine | |
| `Rcp` | DMA engines, RSP, plugins and the register writes of the program | extends `Interrupts` |
| `EmuThreads` | the two threads and the handlers of the GUI | |
| `Tlb` | the entries, the direct table, faults and their service | |
| `Blocks` | the block cache under stores, DMA and a full buffer | |
| `Saves` | EEPROM, paks, SRAM, Flash RAM and their files | |
| `HostRegs`, `RegCache` | the tables of `regcache.c`, and its operations | `RegCache` extends `HostRegs` |
| `R4300i`, `FPU`, `R4300iBranch` | the interpreter: integer, floating-point, branches and slots | each extends the one before, `R4300i` the words of `HostRegs` |
| `DynaHelper`, `DynaCPU`, `DynaCOP1`, `DynaBranch` | what the recompiler emits for integer and floating-point instructions and branches | `DynaHelper` extends `RegCache` and `FPU`; `DynaCPU` and `DynaCOP1` extend it; `DynaBranch` extends both and `R4300iBranch` |
| `Dyna` | a recompiled block beside the interpreter | extends `DynaBranch` |
| `TimerEventsProofs`, `TimerListProofs`, `BlocksProofs`, `SavesProofs` | the theorems about the module they are named after | |
| `DynaProofs` | the tables of the recompiler, and that the register cache keeps values | extends `Dyna` |
| `SystemProofs` | the theorems about `Rcp`, `Tlb` and `EmuThreads` | extends the three |
| `DynaValuesProofs`, `DynaFollowsProofs` | the integer handlers; every instruction and branch, the block against the interpreter | extend `DynaProofs` |
| `MCTimerEvents`, `MCTimerList`, `MCRcp`, `MCEmuThreads`, `MCTlb`, `MCBlocks`, `MCSaves`, `MCDyna` | values for the constants | |

The boundaries between them are abstractions, named in the sections below: `Rcp` has
of the timer list only which events are in it and due (any order), `EmuThreads` only
whether it is empty of tasks; `Blocks` has of the register cache nothing, and `Dyna` of
the block cache only the block it compiles.

### TimerEvents

`timer` is the list (a sequence of `[type, target]`) and the three counters;
`Now(timer)` is the expression `current_counter + counter_leap -
countdown_counter` the code computes whenever it needs the time. `AddEvent`,
`RemoveHead`, `Refresh`, `Restarted` are `Add_New_Timer_Event`,
`Remove_1st_Timer_Event`, `Refresh_Count_Down_Counter` and
`Init_Count_Down_Counters`. What the program does is `WriteCount`,
`WriteCompare`, `WriteVSync`, `Schedule` (the start of a DMA, an RSP task, a
check of interrupts or an audio delay) and `SpeedHack`. The CPU loop is `Run`
and `RunFaulting` (an instruction that raised an exception skips the test of
the countdown), then `NotDue` or `Trigger`. A handler may schedule its
successor (`Rearmed`) and a check (`WithCheck`); whether it does depends on
registers of other modules, so both are possible.

The dynarec adds the length of the block it is running to a target (`Slack`).
The release build adds `rand() % 4` to COUNT whenever it is read (`timer.c:693-702`): by
the program, and by the code itself when COMPARE is written. It is the parameter
`jitter` of `Count`, chosen anew at every read. `Wrap` and `Far` are 2^32 and 0x60000000. Time itself is 64 bits wide in
the code and does not wrap in any session; `MaxTime` bounds it in the guards.

### TimerList

The same operations on `CounterTargets[]`: nodes with `inuse`, `type`,
`target_counter`, `next` and `prev`, allocated by the first-free search of
`Get_New_Counter_Node`. A released node keeps its contents, as in the code,
which is what makes `Get_VIcounter` (a search of all nodes, released ones
included) interesting. `Walk` is the nodes the loops of the code visit from the
header; it stops after as many as the pool has, where the code would go round a
ring for ever.

### Interrupts and Rcp

`m` holds STATUS (`ie`, `exl`, `im`), CAUSE (`ip`), the MI registers, the flag
`CPUNeedToCheckInterrupt` and, for every event type, whether it is in the list
with its target ahead (`armed`) or behind (`due`). This abstracts `TimerEvents`:
`Tick` passes the targets of all events, and due events fire in any order, which
includes every order the list produces. Each `Fire...` action is the whole case of
`Trigger_Timer_Event`: the event leaves the list, the handler runs, and
`CPU_Check_Interrupts` follows for the types for which it does. `dropped` is a
history variable: the events a write to COUNT threw away, for which no promise
is kept (see the hazards).

Register writes of the program are one action each (`WriteMIMask`,
`WriteStatus`, `StartPI`, `WritePIStatus`, `WriteSPStatus`, ...). `Segmentation`
holds the values of the ROM option `DMA_Segmentation` to be considered; one is
chosen when the game starts. `RspPlugin` holds those of the emulator option
`UsingRspPlugin`, which is read at every RSP task: only a segmented game without an
RSP plugin delays the task's end (`interrupt.c:395`). Left out: the data copied, the address registers, the
DPC status, and exceptions other than as an action that sets EXL. A PI DMA to
save memory, or outside RDRAM, ends at once (`ends`).

### EmuThreads

`cpu` is the place of the CPU thread in `StartCPUThread`, `N64_Boot`, the main
loop, `Dyna_Exception_Service_Routine` and `PauseEmulating`; one action per
access to a shared flag. `gui` is the stack of handlers the GUI thread is in,
each with its own place in `PauseEmulator`, `StopEmulator`, `ResumeEmulator`,
`SaveState`, `LoadState` or the menu messages: while a handler waits it
dispatches messages, and a new command may be handled on top of it.

Left out: the reset command and with it a second CPU thread, crashes of plugins,
`TerminateThread`, the debugger, exceptions served while booting. A game is
played again only when the old thread has ended. `stale`, `early` and `stopAsked`
are history variables: a state was loaded and the dynarec not refreshed; a command
came before the main loop had started; the user asked to stop.

### Tlb

An address is a virtual page; the offset in it is left out. `tlb` holds the entries
with their mask (`size`, in pages), ASID, G bit and two halves; `table` is
`Direct_TLB_Lookup_Table`. `Refreshed` is `Refresh_Direct_TLB_Lookup_Table` with its
five cases, `Built` and `Cleared` what it calls. `LookUp` is `Direct_TLB_Lookup`: the
table, and if it has nothing a search (`TranslateTLBAddress`) or, for the games with
`trigger_tlb_exception_faster`, the exception at once. `Fault` raises it, `ServiceDone`
is the return of `Dyna_Exception_Service_Routine` to the access that waits on the C
stack (`serving`), which searches again, or takes the dummy address if the handler
wrote no entry. The micro TLBs only choose which of several matches is found; a
search may find any.

The architecture leaves two entries for one page undefined: the game keeps its valid
entries apart (`Free`). An entry never written has mask 0 and therefore matches every
page with ASID 0, as in the code. The direct table ignores the ASID (`Tlb.c:957`
against 1105), so it is right only for entries with the G bit: `Globals = {TRUE}` in the
run and as a hypothesis of the proofs. Left out: the pages GoldenEye is given by
hand, `Use_TLB = NO`, and a state loaded while a fault is in service. With the faster
mode the Invalid exception is never raised: a page that is missing is a refill.

### Blocks

A word of RDRAM holds one of a few versions of itself and a block remembers which
ones it was compiled from, so a stale block can be told from a fresh one. `Enter` is the
main loop: look up, `Dyna_Check_Codes` (one operator per `Code_Check` method), compile
when there is nothing to enter (`Dyna_Compile_4KB_Block` with the queue of linked
targets), and empty everything when the code buffer overruns. `JumpLinked` is a
block going on into another without the main loop, `Store` a store of the running
block (through `write_mem_protected` on a guarded page), `Dma` a transfer with
`Check_And_Invalidate_Compiled_Blocks_By_DMA`.

What the code does and the model keeps: a DMA that starts at the first word of RDRAM
invalidates nothing (`compiler.c:1258`) and a block there is never checked, as
`g_pc_is_rdram` is the offset and reads as FALSE; a failed DWORD check returns
the block it has refused once more; linking makes a fetch keep what a check has
cleared; the DMA methods clear only the entries of words that were written, not
blocks that start before them; `RDRAM_Copy` is shared by all blocks, so the second
word of QWORD and the other words of BLOCK are not guaranteed: `EntryFresh` is about
the first word. Linked jumps run stale blocks until the countdown runs out, so
nothing is claimed of `JumpLinked` but `LinksLive`. Left out: the method `None_Boot`
and what it becomes after 80 display lists, SP DMA into RDRAM (never checked in the
code), TLB faults during a compilation, and the menu that changes the method for
`emustatus` but not for `currentromoptions` (`Wingui.c:2671`).

### Saves

`emu` is the memory of the process and the files; a memory is `N` blocks. `OpenROM`,
`Play`, `Stop`, `CloseROM`, `Exit` are the commands of the user with everything they
close and write back, `Killed` ends the process between any two others and leaves the
files. `Pif` is one run of `iPifCheck` over the channels (it ends at the first pak
or EEPROM command, as in the code); `FlashCommand`, `DRAMToCart`, `CartToDRAM` are
the Flash RAM's command register and PI DMA. `last` remembers what a game wrote, `got`
what the last operation read. `synced` says that Flash RAM was read from its file.

Two losses the code has are excused by name while `Excused = TRUE`: `Unshared` (a
game without a file inherits the EEPROM or pak image an earlier game left in
memory, `fileio.c:743`, 684, or the mark that the pak was written, which only a
write-back clears and which makes the next game write its own file back at its stop) and `Careful` (an erase or write before any DMA has read the
file writes the whole unread memory to it, also after a loaded state). Seen on the
way and kept in the model: block N of a pak is the first of the next (`iPIF.c:170`,
199); the first-use types lose SRAM. Left out: status words (`Flashram_Get_Status`
returns word 0 for every address, `addr & 1`), buttons, raw and netplay controllers,
the security chip's tables, CPU accesses to SRAM, failing opens, and a kill inside
one file write.

### The recompiler: HostRegs to Dyna

A block is straight-line code up to a branch, so compiling and running can be followed
together. The record `jit` is the compiler's tables (`map` = `x86reg[]`, `const` =
`ConstMap[]`, `flushed`, final uses, birth dates) and the machine its code runs on
(`host` registers, the memory image `gpr`, `fpr`, `con31`, the x87's rounding `rc`, the
last store, the way out). Each operator of `RegCache` is one of `regcache.c`: it changes
the tables and does what the code it emits will do. `DynaCPU`, `DynaCOP1` and
`DynaBranch` have one operator per handler of the dispatch table, or one for handlers that
differ in an operation only (`add`, `sub` and `dsub`; `slt` and `sltu`; the loads). A handler
that asks for several registers is a chain of small operators, one per request, whose
parameters `m`, `x`, `y`, `o` are what it has mapped so far. Handlers that call the
interpreter (`INTERPRET`, `INTERPRET_LOADSTORE`) flush what the macro flushes and call
`R4300i` or `FPU` (`Call`). Where `regcache.c` calls `DisplayError` because no register
can be flushed (1099), a constant is found mapped (713, 1087) or a high word is missing
(809, 1045), `Report` adds to `errors`. Its other messages are about ESP, which is outside `Host`, or
compare `Is32bit` and `HiWordLoc` (229, 362, 531, 767, 780), as `Coherent` does. `CompileInteger`, `CompileFloat` and
`CompileBranch` are the dispatch tables; `Compile` also serves the delay slot. The logical
operations are on the sets of bits of a number (`Bits`), which both sides share.

`Dyna` runs the same instructions on `ref`, the interpreter's machine, and compares: this
is what `OpcodeDebugger.c` does when compiled in. `Execute` is one instruction of
`Dyna_Compile_4KB_Block`'s loop, `Branch` a branch with its delay slot, both ways out,
`EndBlock` the flush at its end, `TriggerFPUUnusableException` the return in the middle.
`Defined` leaves out what the MIPS architecture leaves undefined (32-bit
arithmetic on a register that is no sign-extended word, division by zero).

The recompiler is known to part from the interpreter in places. Each is a
disjunct of `Diverges`, `DivergesFloat` or `DivergesBranch` with its line, and is
left out of the behaviours while `Excused = TRUE`; with `FALSE` TLC shows them in seconds.
A divergence is judged on the tables the instruction is compiled with and the interpreter's machine before it:

- an interpreter function called with destination r0 (`dynaCPU.c:58`; `CallsOnR0`: `sc`, `daddi`, `dadd`,
  the 64-bit shifts by less than 32 and, of 64-bit operands, `dsub` and `dsra`; the other handlers,
  the loads among them (722-790), return at once for r0), `dmfc1` (`dynaCOP1.c:537`) and `jalr` (`dynaBranch.h:1927`);
- `lwu`, `ldl`, `ldr`, `dmfc1` keep a stale 32-bit flag (`dynaCPU.c:46`);
- a 64-bit register mapped for its low word passes for a 32-bit one (`regcache.c:362`) where a handler
  goes by the width of an operand it reads and the destination is not r0;
- `dsub` and `ddiv` of two words cut to a word (`dynaCPU.c:1071`, 1387), or no quotient where the divisor's low word is 0, `xor` with a
  negative constant (4950), `dsrl32` of a negative word (5200), `dsra32` in place (5225);
- the link register is written after the delay slot, not before (`dynaBranch.h:223`);
- compiled single-precision arithmetic does not set the rounding (`dynaCOP1.c:671`);
- unordered operands meet every compiled condition (`dynaCOP1.c:1057`).

Other things the code does and the model keeps: `SET_ROUNDING` passes the mode unshifted, so
the interpreter always rounds to nearest (`FPU.c:45`); `ctc1` sets the x87 mode to
`rm << 8`, which exchanges some of MIPS's modes (`FPU.c:628`); a comparison of cond 3 with
unordered operands returns with the flag unchanged (`FPU.c:421`); a double division by
zero leaves `fd`; `lwc1`, `swc1`, `ldc1`, `sdc1` do not test CU1; the analysis of
final uses ignores the operands of COP1 (`Analyze.c:572`). What the x87 computes is
external: `Fpu` and `Order` are any functions, in the run one that tells its arguments apart.

Words have `W` bits; birth dates wrap nowhere; `x86reg[-1]` (a write before the
array when a high word is missing) is the error `Delete` reports, which
`NoDisplayError` excludes. Left out: COP0 instructions and `eret`, traps, `ll`/`scd`,
address errors and TLB faults of compiled loads, the options that are off by default
(`SAFE_`, two passes, `Assume_32bit`). The interpreter's `dmult` and `dmultu` lose a carry
(`R4300i.c:2148`-2200); the recompiler calls them, so the two agree.

## The runs

| Run | Checks | Shows | Bounds |
|---|---|---|---|
| `TimerEvents` | `TimerInv ListOrdered AlwaysArmed NeverOversleeps TimeRunsForward TasksSurvive CountReadsBack` | the list and the clock are right in every order of operations | two tasks of different delay besides VI and COMPARE, two frame periods, COUNT wraps at 16 (beyond `MaxTime` = 6, values written on both sides of it), reads with no jitter and with the largest, leaps cut at 6, an instruction of 3 ticks so that countdowns are overrun |
| `TimerList` | `TypeOK WellLinked VINodeLive Implements` | the pool of nodes implements the sequence | one node per type: a leak would show at once; a DMA that starts its I/O phase |
| `Rcp` | `TypeOK LineRaised LineHasSource PollAlive BusyBacked SIBitsAgree StaleOnlyByMask` | no interrupt is lost, none is nobody's, no busy bit hangs | SI and SP, SW and RCP lines; DMA delayed or not; six values of SP_STATUS |
| `RcpLive` | `LineRaised Delivered TransferEnds` | deliverable interrupts are taken, transfers end | PI, AI and DP, with the plugins' interrupts |
| `Emu` | `TypeOK SafePoint TouchSafe EndsOnlyOnStop GUIComesBack` | the flags of the two threads do what they should, on both cores | five commands, handlers three deep: a stop inside a load inside a pause |
| `EmuLoad` | `RefreshedAfterLoad` | violated: a second resume cancels the refresh after a load | three commands, not nested |
| `Tlb` | `TableSound TableComplete AnswerRight FaultJustified` | the direct table says what the entries say | two entries, four pages, halves of one page and of two (so that frames are aligned), two faults in service, three saved states |
| `Blocks` | `LookupFresh LinksLive EntryFresh` | what is entered was compiled from what is there | two pages of three words, two branches, overlapping blocks, five methods, linked or not, two versions, a buffer of four blocks |
| `BlocksSlot` | `LookupFresh` | violated: a delay slot on the next page | the same with a branch in the last word of a page |
| `Saves` | `Durable ReadBack OnlyRunning` | what a game wrote survives stop, change of game and kill | two games (Flash RAM; any of EEPROM, pak, SRAM), two blocks of two contents, two controllers |
| `SavesPak` | `Durable` | violated: the second pak's file is written from the first | one game, paks in both controllers |
| `Dyna` | `Agree Clean Coherent NoDisplayError` | the block computes what the interpreter computes | three registers and r0, LO and HI, words of two bits, two opening instructions that bring the cache into its states, then any instruction or a branch with slot |

Why the bounds are enough. Every instance has at least two actors of each kind
that interact and the boundary at which the code branches: equal targets, an overrun
countdown, a written value ahead of and behind the current one, a masked and an
unmasked source, a nested handler, an old and a new entry for one page, a store into
a block's first, middle and slot word, a block that does not fit the buffer, a game
with and without a file. For `Dyna` two opening instructions reach every state of a
register (constant, narrow or wide mapping, clean or dirty, sign known or not, LO and HI
in EAX and EDX, no host register free); a third of any kind shows what each handler does
in it. Two bits keep sign, carry and the halves apart; the start files have a positive,
a negative and a not sign-extended word. Three registers, LO and HI, with 64-bit values
in two host registers each, are more than the six host registers hold, so one has to give
way. A branch counts as two instructions, with its slot.

Deadlock is checked for `TimerEvents`, `TimerList`, `Rcp`, `RcpLive` and `Blocks`, which
never stop. In the others the system may: the user's commands run out, a block has
ended, no fault may be nested deeper.

Each property of a passing run has a mutant of the model (in `PROJECT.json`) that breaks it:
a dropped guard, a flush forgotten, an order exchanged.

### Fairness

`Rcp`: the CPU loop runs on, so time passes (`Tick`) and a due event is fired
(`Fire...`), each weakly fair. The program is not fair at all: it may ignore
every interrupt. `Delivered` allows that it writes COUNT over and over, which
rebuilds the list, and `TransferEnds` that it restarts the transfer over and over.

`EmuThreads`: both threads are scheduled by Windows (`Handler`, `CPUGoesOn`
weakly fair; this includes that an exception handler of the program reaches its
ERET). The main loop tests its end at every taken branch or timer event, but only a
test at which no task is pending ends it: strong fairness of `LeaveLoop`. That
the test may find a task under way every time is real: an interrupt that is
pending with IE = 0 keeps the poll in the list for ever. `GUIComesBack`
therefore makes that exception (`AlwaysBusy`). The user's commands are not fair.

## What is proved

Eight modules hold theorems. A theorem is about every value of the constants that
meets the named assumptions of its module; what it assumes beyond them stands in its
statement.

`TimerEventsProofs`, for all sets of tasks, delays, factors, periods and bounds
that satisfy the named assumptions of `TimerEvents` (types only; factors and
periods positive):

- `TimerInvariant`: `Spec => []TimerInv`. The order of the list and the presence of
  VI and COMPARE are inductive by themselves, but `NeverOversleeps` is not: the
  countdown may be above zero when a target is reached unless the *leap* it was
  started from ends at or before the first target. `LeapBounded` says so; it
  survives a new node behind the header (the first target stays), a new header
  (the counters are refreshed) and the deletion of the header (the first target
  only grows). The lemmas show this for `InsertAt` at `Place`, `Without` and
  `Tail`, then for `AddEvent`, `RemoveHead`, `Restarted` and the handlers.
- `EventListCorrect`, `ListNeverEmpty`, `CountdownCorrect`: the invariants the runs
  check follow.
- `CountReadable`: `CountReadsBack`: after a write of `v`, a read gives `v`, less than a
  counter factor below it, plus that read's jitter (up to `v` + 3). It holds where the value times
  the video factor fits in the width of COUNT (it always does with the default factor; beyond it the code loses the
  upper bits, see Findings). The lemmas bound the quotients and remainders, which is all
  the arithmetic the prover needs.
- `ClockMonotone`, `NoTaskDropped`: the two action properties, from the same
  step lemma `StepKeeps`.

`TimerListProofs`, for every size of the pool that has a node for each type:

- `PoolImplementsSequence`: `Implements`, the refinement of `TimerEvents`. A list is
  described by the sequence `w` of its nodes (`Chain`: both links follow `w`, exactly its
  nodes are in use, no two of one type), and each list operation by what it does to `w`:
  `Unlink` removes an element, `Link` inserts one where the target belongs, and the
  events along `w` are then those of `AddEvent` or `RemoveHead` of `TimerEvents`. That the
  walk of the code visits `w` is `WalkIs`; it needs no induction, as the walk is compared
  with `w` element by element. The theorems of `TimerEventsProofs` are used through an instance.
- `NoNodeLeaks`, `NodesTyped`: `WellLinked`, `TypeOK`. For the second the invariant adds
  that no time is negative (`Early`): the code's counters are unsigned.
- `VIEventFound`: `VINodeLive`. It rests on `Own`: COMPARE and VI take the first two
  nodes when the list is built, and get them back whenever they are added again, since
  the first free node is the one just released. A pool searched from its end breaks it.

`SystemProofs` proves of `Rcp`, for all choices of devices, lines, events, segmentation
settings and register values that meet the named assumptions of `Interrupts` and
`Rcp` (`DevicesAssumption` says that an event in use belongs to a device in use):

- `RcpTypes`, `NoInterruptLost`, `NoInterruptOfNobody`, `PollNeverDies`,
  `NoEngineStuck`, `SIBitsNeverDisagree`: all the invariants of `Rcp`, from the inductive
  invariant `RcpInv` (`RcpInvariant`).
- `LineStaleOnlyByMask`: the action property `StaleOnlyByMask`, from the same step
  lemma.

An action of `Rcp` is a composition of functions of `interrupt.c`, and between two
of them the invariant does not hold: `Trigger_*` sets the bit of `MI_INTR_REG`
before it raises the line, and a plugin sets several bits at once. The lemmas
therefore follow a machine through the functions with two relations. `Ready(n, W)`
says that the machine `n` is in order but for the interrupts of `W`, whose bits are set
and whose line is still to be raised; each function takes its interrupt out of `W`.
`Follows(n, k, E)` says that between `n` and `k` no event but those of `E` left the list
and the line did not become stale; it composes, and carries `BusyBacked` and
`StaleOnlyByMask` through an action. `LineRaised` is not inductive alone: an AI
interrupt waits for its delay event, so `Ready` also says which events are backed,
and `Clear_MIInterrupt` lowers the flag that `PollAlive` reads.

`SystemProofs`, of `Tlb`, for every number and size of entries and pages and every content the game
writes, provided its entries are global (`Globals = {TRUE}`):

- `Soundness`, `Completeness`: `TableSound`, `TableComplete`. The inductive
  invariant (`IInv`) says both at once, page by page (`Exact`), and adds that valid entries lie
  apart; `RefreshExact` shows that refreshing the table for one entry leaves the pages of
  the others alone.
- `Answers`, `FaultsJustified`: `AnswerRight` and the action property `FaultJustified`, from
  the two and the nesting of faults.

`BlocksProofs`, for every program, page size, method and capacity:

- `LinksHold`: `LinksLive`. A linked exit always leads into a block, because one
  compilation takes in all that its links lead to (`Wanted`, the least closed set), and
  a page drops all its blocks together.
- `Freshness`: `LookupFresh`, assuming `SlotsOnPage` (no branch in the last word of
  a page: `BlocksSlot` shows what happens with one) and that no transfer starts at the first word
  of RDRAM. The invariant (`Kept`) adds that the words of a block are on one guarded page and that
  `RDRAM_Copy` says they were fetched, which is what the DMA check goes by.
- `EntriesFresh`: the action property `EntryFresh`, for the methods that compare. A block
  that passes was compiled from the word its `RDRAM_Copy` holds (`Own`), and that one is
  in memory.

`SystemProofs`, of `EmuThreads`, for every set of commands for each core, any number of commands and
any depth of handlers:

- `ThreadTypes`, `PauseIsSafe`: `TypeOK`, `SafePoint`, from `ParkInv`. Only the top
  handler runs, each handler below it waits in `PauseEmulator` or `StopEmulator`, and
  a handler's place belongs to its command (`Nested`); EMUSTOP is never left
  as a reason no user gave (`NoStopLeft`), so the dynarec's way past pending tasks is taken only
  on a stop (`Settled`).
- `EndsWhenAsked`: `EndsOnlyOnStop`, from `EndInv`. While nobody asked for a stop and no
  command came too early, the flag is down only with EMUPAUSE as the reason (`Alive`), although
  `PauseEmulator` writes the two one after the other and writes both again while it waits, with
  other handlers in between (`Asked`).
- `UntouchedWhileSaved`: `TouchSafe`, from `TouchInv`, under `Separate`: states
  are saved in the dynarec only and no menu loop runs there. Without it the property
  is false (see below). The point is `Still`: a handler may work on the machine
  after another handler's resume has woken the thread, but the flag is down again and the
  dynarec looks at it before the first block.

`SavesProofs`, for any games of any save types, any number and contents of blocks and
any PIF commands, under two hypotheses: `OnePak`, a pak only in the first controller (with two
`Durable` is false, see `SavesPak`), and `Excused = TRUE`, the two losses named above are left out:

- `WritesAreDurable`, `ReadsComeBack`, `OnlyOwnFiles`: `Durable`, `ReadBack` and the
  action property `OnlyRunning`, from `SavesInvariant`. The invariant has a part per memory, each of
  the same form: every file agrees with what its game wrote (`FilesAgree`), and of the
  game that runs, what is in memory is what the file holds once it was loaded, and is
  new if there is no file. Closing writes memory to the file, so `OnlyRunning` depends on it:
  a memory that is marked as written must be its file already (`EEpromOf`, `PakOf`). A
  pak's mark outlives a reset, which is why the marks of *unused* paks are in the
  invariant; without `Unshared` saying the same of them TLC finds a game that
  writes its file back after a stop. Flash RAM adds that its
  memory is zero beyond the end of its file (`FlashMemory`), which makes a write of the
  whole memory harmless. Each operation changes one memory (`EEpromStep`, `PakStep`,
  `SavStep`), and the other two parts are framed.
- `iPifCheck` ends at the first pak or EEPROM command; `PifLoop` says that it therefore does what
  that one command does, so the channels need no induction.

`DynaProofs`, for every set of general registers, width of a word, contents of
registers and memory, instructions, branches and slots with operands among these
registers, length of block, behaviour of the x87, with or without the divergences
listed above (`Excused`):

- `TablesCoherent`, `NothingReported`: `Coherent`, `NoDisplayError`. Neither holds by
  itself, as a request that finds no room reports an error *and* spoils the tables, and
  a handler maps up to three registers, protects one more and pushes others around a call. The
  inductive invariant is `Good(jit, {})`: the tables have their types, they are consistent,
  nothing was reported, and the protected host registers are exactly those of the second
  argument. Within a handler the same predicate holds with ECX protected.
- Six host registers are enough because of what a request keeps (`Bounded`): two registers
  of up to two words each while it needs two more, or with ECX protected while
  it needs one (the shifts by a register, which ask for words only: `RequestsGood`), or a
  third register when that one is a single word (`map_reg` widening a register). If
  nothing else is mapped, enough is free (`EnoughRoom`, a count); else one of the others is
  evicted, which frees at least one (`EvictFrees`), so that the loop runs at most twice (`MakeRoomGood`).
- The lemmas go through the code from below: each operation of `regcache.c`
  (`MapRegisterGood` says what `map_reg` answers and which registers it leaves in place), each
  handler, the dispatch tables (`CompileIntegerGood`, `CompileFloatGood`), a branch with its slot on
  both ways out (`CompileBranchGood`), the steps of the block (`InvNext`). The mapping of LO
  in `mult` as a pair that is split into LO and HI (`PairGood`), EAX and EDX as LO and HI after
  `div` (`QuotientGood`) and the host register of rt taken over for rd (`TakenOverGood`)
  do not go through `map_reg` and have lemmas of their own. What an interpreter's
  function or emitted code does to the machine leaves the tables alone (`Plain`).

The second part of `DynaProofs`, `DynaValuesProofs` and `DynaFollowsProofs` are about the
values, for the same constants: `Follows(s, M, Z)` says that the tables and host registers of `s` stand for the
registers of a machine `M`, except those of `Z`, and `On` adds that they are in order (`Good`).

- `BlocksAgree`, `CleanIsInMemory`: `Agree`, `Clean`, where the divergences are excused. Neither is
  inductive: `Agree` speaks of one value per register, while the code keeps up to three copies (a
  constant, host registers, memory) and relies on each, and `Clean` of clean registers only,
  while what is known of an upper half (`FlushedRegistersMap`) must also be true under a dirty one.
  The inductive invariant is `Simulates`: `On(jit, {}, ref, {R0})`. Every place in which
  a register is looked for shows the interpreter's value (`Shown`), the memory image agrees with its flags
  (`Image`), and what is not a register is equal (`Aside`). It is the refinement mapping
  from the block to the interpreter, written as a relation; r0 is exempt: an instruction
  whose destination is r0 leaves its result in a host register mapped to it.
- `MapRegisterFollows`, `FlushAllFollows`, `FlushOperandsOn`: whatever the register cache
  is asked to do, no register changes its value, and what it writes back is the machine.
- `MipsAddOn`, `AddiOn`, `SetLessOn`, `SetLessIOn`, `AndOn`, `OrOn`, `XorOn`, `NorOn`, `AndiOn`, `OriOn`,
  `ShiftOn`, `ShiftVarOn`, `MovesOn`, `LoadOn`, `StoresOn`, `MultOn`, `DivOn`: the handlers of these instructions
  leave in the destination what the interpreter computes, whichever of their ways they
  take: operands mapped, in memory, constant or r0, equal or not, of one word or of two.
  `XorOn` has the condition under which the code does so (a listed divergence), `DivOn` that the
  divisor's low word is not 0. `IntegerOn` puts them and the handlers that call the interpreter
  together; `Begins` is what looking at the operands' widths leaves, and `InitView` that it changes
  nothing a divergence is judged by.
- `FloatOn`: the emitted floating-point code and the interpreter do the same to cells, control
  register and rounding (`Twins`), for any x87, once the integer registers it
  reads agree; moves and loads also take their way through the register cache.
- `TestOn`, `BranchStepOn`: a test decides on the words of a mapping or on a constant what the
  interpreter decides on double words. At the delay slot the link register is one more
  register that does not follow (`Poised`): the code writes it behind the slot, the interpreter
  before it. A slot that does not name it leaves it alone (`SlotKeeps`), and the way out writes
  the link to memory after everything else is there (`WrittenAgain`), so the two meet again.
- They rest on the arithmetic of words and doubles from its definition: numbers alike modulo
  2^W (`AlikeSums`), the bits of a number (`BitsExist`: every set of bits is a number's), gates
  on the halves of a double (`GatedPairs`), shifts across the halves (`RightsOfHigh`, `Lefts`).

The assumptions are `HostRegsAssumption` (r0, LO and HI are three registers, none of them
general), `WidthAssumption` (the powers of two double), `HalvesAssumption` (a word has two halves),
`MarksAssumption` (the marks in `x86reg[]` are no registers), `FpuAssumption` (the x87 returns
numbers of its width) and `DynaAssumption` (an instruction's fields have their widths, as the masks of
`regcache.h:250` give them, the floating-point registers exist, r0 is 0 at the start).

The proofs follow the same plan: types, then for each conjunct of the invariant one step per
action, then the temporal theorem. Where TLC can
evaluate the inductive invariant, it was checked on the run's instance first.

Only model-checked: the violation runs, and everything that needs fairness (`Delivered`, `TransferEnds`,
`GUIComesBack`): liveness and ENABLED are out of the prover's reach. Every invariant and
action property the passing runs check is also a theorem.

## Findings

The violation runs above; each is a disagreement of the code with its own comments. Met on
the way and not given a run of their own:

- In the interpreter a pause that follows a resume within the 200 ms of
  `PauseEmulating`'s sleep returns at once (the flag of the pause before is still
  TRUE), and the interpreter, which looks at `Emu_Keep_Running` only after a taken
  branch, executes instructions while a state is saved. With a menu loop the same
  happens in the dynarec, as the menu handler writes `Emu_Is_Paused`. `TouchSafe` is
  therefore checked, and proved, for a dynarec without the menu; in `Emu` the
  interpreter has the menu and the dynarec the states.
- A menu left within 200 ms leaves the game paused: the handler writes back a flag it
  read before it waited (`Wingui.c:1163`).
- A pause in the last moment of the boot is overwritten by
  `reason_to_stop = EMURUNNING` (`emulator.c:473`) and ends the emulation:
  `EndsOnlyOnStop` excludes commands that early.
- A stop while the dynarec serves an exception lets the block that raised it go on
  after `StopEmulator` has returned (`ServeQuits`).
- An SP interrupt asked for by a plugin goes through `Trigger_RSPBreak` and is
  dropped unless `SP_STATUS_INTR_BREAK` is set (`PluginInterrupt`).
- A write to STATUS that makes an interrupt deliverable schedules no check
  (`R4300i.c:1717`); the VI event finds it. A PI reset in the middle of a transfer
  leaves the event, which ends the transfer once more (`R4300i.c:3246`).
- With a counter factor above one, the COUNT written is scaled in 32 bits and may wrap
  (`timer.c:754`): the run has the default factor.
- The divergences of the recompiler, the losses of `Saves` and the limits of the code checks
  named in their sections.

## Not modelled, and why

- The encoding of x86 instructions (`x86.c`): a table of bytes. `Dyna` takes an emitted
  instruction for what it does.
- COP0 and trap instructions in compiled blocks, address errors, `ll`/`scd`: the
  interpreter's function is called for most of them, and the exceptions are actions of `Rcp`
  and `Tlb`.
- The data of RCP transfers and the address registers of the SP DMA (`dma.c:882`): `Rcp` is
  about when a transfer starts and ends.
- The reset command and a second CPU thread, plugin crashes, `TerminateThread`, the audio
  callback inside `Add_New_Timer_Event`: they need the threads at the grain of single
  stores. They are listed as hazards without a property, as are the file dialogs for states.
- ROM list, ini file and cheats: parsing, sorting and drawing of files, with no state the
  other components depend on but the options, which are constants here.
- Network play (a thin layer over an external library), the debuggers (not in the release
  build) and everything that only draws.
