-------------------------------- MODULE Saves --------------------------------
(***************************************************************************)
(* The save memories of src/gamesave.c and src/iPIF.c and their files      *)
(* (src/fileio.c): the EEPROM and the controller paks, reached through     *)
(* the PIF, and SRAM or Flash RAM, reached by PI DMA.  Games are started,  *)
(* stopped and closed, states loaded, and the emulator may be killed       *)
(* between any two of these: the files are all that is left.               *)
(*                                                                         *)
(* A memory is a few blocks; a game has one save type, so its .sra and     *)
(* .fla files are one (sav).  The emulator opens its files without error.  *)
(***************************************************************************)
EXTENDS Integers, FiniteSets

CONSTANTS
    Games,
    NoGame,
    N,              \* bound: blocks in a memory
    Data,           \* contents of a block
    Blank, Erased, Formatted,   \* zeros, a block erased, a new controller pak
    Pads,           \* bound: controllers, 0 and up
    PakIn,          \* those that have a controller pak
    SaveType,       \* currentromoptions.Save_Type of each game
    EEpromSize,     \* currentromoptions.Eeprom_size of each game
    PifBlocks,      \* the commands a game gives the PIF
    DmaData,        \* what it copies to SRAM or Flash RAM
    Excused         \* bound: leave out the losses named in Careful and Unshared

SaveTypes == {"EEPROM", "MEMPAK", "SRAM", "FLASHRAM", "FIRSTUSE", "ANYUSED"}
Blocks == 0 .. N - 1
EEpromChannel == Cardinality(Pads)
Channels == 0 .. EEpromChannel

ASSUME SavesAssumption ==
    /\ N \in Nat \ {0}
    /\ NoGame \notin Games
    /\ {Blank, Erased, Formatted} \subseteq Data
    /\ EEpromChannel \in Nat /\ Pads = 0 .. EEpromChannel - 1 /\ PakIn \subseteq Pads
    /\ SaveType \in [Games -> SaveTypes]
    /\ DmaData \in [Games -> SUBSET Data]
    /\ Excused \in BOOLEAN

VARIABLES
    emu,    \* gamesave, the Flash RAM's globals and the files
    synced, \* the Flash RAM's memory was read from its file in this run
    last,   \* what each game last wrote to each block
    got     \* what the last operation read
vars == <<emu, synced, last, got>>

NULL == "NULL"
NoFile == <<>>
NoData == "no data"
Never == "never"

\* Values that mark the absence of a game or of data are none.
ASSUME MarksAssumption == NULL \notin Games /\ {NoData, Never} \cap Data = {}

Image == [Blocks -> Data]
BlankImage == [b \in Blocks |-> Blank]

\* What each game has on disk.
NoFiles == [eep |-> NoFile, pak |-> [d \in Pads |-> NoFile], sav |-> [b \in Blocks |-> NoData]]

\* A process that was just started.
Started(disk) ==
    [rom |-> NoGame, running |-> FALSE, disk |-> disk,
     eeprom |-> BlankImage, eused |-> FALSE, ewritten |-> FALSE,
     pak |-> [d \in Pads |-> BlankImage],
     pused |-> [d \in Pads |-> FALSE], pwritten |-> [d \in Pads |-> FALSE],
     first |-> "NONE", c2a2 |-> BlankImage, handle |-> NULL,
     mode |-> "NOOP", offset |-> 0, buffer |-> Blank]

Init ==
    /\ emu = Started([g \in Games |-> NoFiles])
    /\ synced = FALSE
    /\ last = [g \in Games |-> [eeprom |-> [b \in Blocks |-> Never],
                                pak |-> [d \in Pads |-> [b \in Blocks |-> Never]],
                                sav |-> [b \in Blocks |-> Never]]]
    /\ got = {}

Type(s) == SaveType[s.rom]
FirstUse(s, medium) == IF s.first = "NONE" THEN [s EXCEPT !.first = medium] ELSE s

-----------------------------------------------------------------------------
(* Files.                                                                  *)

FileIO_WriteEEprom(s) == [s EXCEPT !.disk[s.rom].eep = s.eeprom]

\* A new file is zeros; the memory stays as it is.
FileIO_LoadEEprom(s) ==
    IF s.disk[s.rom].eep = NoFile THEN [s EXCEPT !.disk[s.rom].eep = BlankImage]
    ELSE [s EXCEPT !.eeprom = s.disk[s.rom].eep]

\* Every pak is written from, and loaded into, the memory of the first.
FileIO_WriteMemPak(s, d) == [s EXCEPT !.disk[s.rom].pak[d] = s.pak[0]]
FileIO_LoadMemPak(s, d) ==
    IF s.disk[s.rom].pak[d] = NoFile
    THEN [s EXCEPT !.disk[s.rom].pak[d] = [b \in Blocks |-> Formatted]]
    ELSE [s EXCEPT !.pak[0] = s.disk[s.rom].pak[d]]

\* An .sra file is read and written in place, a .fla file as a whole.
Direct(s) == Type(s) \in {"ANYUSED", "SRAM"}
Opened(s) == [s EXCEPT !.handle = IF @ = NULL THEN s.rom ELSE @]

\* A write past the end of the file fills the gap with zeros.
Extended(image, b, v) ==
    [c \in Blocks |-> IF c = b THEN v ELSE IF c < b /\ image[c] = NoData THEN Blank ELSE image[c]]

FileIO_WriteFLASHRAM(s, b, v) ==
    LET t == Opened(s)
    IN  [t EXCEPT !.disk[t.handle].sav = IF Direct(s) THEN Extended(@, b, v) ELSE t.c2a2]
FileIO_ReadFLASHRAM(s) ==
    LET t == Opened(s)
        image == t.disk[t.handle].sav
    IN  IF Direct(s) THEN t
        ELSE [t EXCEPT !.c2a2 = [c \in Blocks |-> IF image[c] = NoData THEN @[c] ELSE image[c]]]
Close_Save(s) == [s EXCEPT !.handle = NULL]

-----------------------------------------------------------------------------
(* Starting and closing.                                                   *)

Init_iPIF(s) ==
    [s EXCEPT !.pused = [d \in Pads |-> FALSE], !.eused = FALSE, !.first = "NONE"]
Flashram_Init(s) == [s EXCEPT !.mode = "NOOP", !.offset = 0]

\* May a memory of this kind be written back?
Kept(s, medium) ==
    \/ Type(s) \in {medium, "ANYUSED"}
    \/ Type(s) = "FIRSTUSE" /\ s.first = medium

CloseMemPaks(s) ==
    LET open == {d \in Pads : s.pused[d] /\ s.pwritten[d]}
    IN  IF ~Kept(s, "MEMPAK") THEN s
        ELSE [s EXCEPT !.disk[s.rom].pak = [d \in Pads |-> IF d \in open THEN s.pak[0] ELSE @[d]],
                       !.pused = [d \in Pads |-> @[d] /\ d \notin open],
                       !.pwritten = [d \in Pads |-> @[d] /\ d \notin open]]
CloseEEprom(s) ==
    IF Kept(s, "EEPROM") /\ s.eused /\ s.ewritten
    THEN [FileIO_WriteEEprom(s) EXCEPT !.eused = FALSE, !.ewritten = FALSE]
    ELSE s
Close_iPIF(s) == CloseEEprom(CloseMemPaks(s))

\* PrepareBeforePlay and r4300i_Reset, which clears the cartridge's domain 2.
Prepared(s) ==
    [Init_iPIF(Flashram_Init(s)) EXCEPT !.c2a2 = BlankImage, !.running = TRUE]
\* Mutant: the handle is not closed.
AfterStopOpen(s) == [Close_iPIF(s) EXCEPT !.running = FALSE]
AfterStop(s) == [Close_iPIF(Close_Save(s)) EXCEPT !.running = FALSE]
Stopped(s) == IF s.running THEN AfterStop(s) ELSE s
\* Only a running game is closed.
Closed(s) == IF s.running THEN Close_iPIF(AfterStop(s)) ELSE s

\* Excused: a game that has no file yet finds the EEPROM, or the pak, that an
\* earlier game left in memory, or the pak marked as written (a reset keeps the
\* mark), and writes them to its own file when it is stopped.
Unshared(g) ==
    \/ emu.eeprom = BlankImage /\ \A d \in Pads : emu.pak[d] = BlankImage /\ ~emu.pwritten[d]
    \/ \A h \in Games \ {g} : emu.disk[h].eep = NoFile /\ \A d \in Pads : emu.disk[h].pak[d] = NoFile

\* A game is opened, in place of another perhaps, and played.
OpenROM(g) ==
    /\ Excused => Unshared(g)
    /\ emu' = Prepared([Closed(emu) EXCEPT !.rom = g])
    /\ synced' = FALSE /\ got' = {}
    /\ UNCHANGED last

\* A game is played, stopped and played again, or reset.
Play ==
    /\ emu.rom # NoGame
    /\ \E s \in {Stopped(emu), emu} : emu' = Prepared(s)
    /\ synced' = FALSE /\ got' = {}
    /\ UNCHANGED last

Stop ==
    /\ emu.running
    /\ emu' = AfterStop(emu)
    /\ got' = {}
    /\ UNCHANGED <<synced, last>>

CloseROM ==
    /\ emu.running
    /\ emu' = [Closed(emu) EXCEPT !.rom = NoGame]
    /\ got' = {}
    /\ UNCHANGED <<synced, last>>

\* The emulator is left, or its process killed.
Exit ==
    /\ emu.rom # NoGame
    /\ emu' = Started(Close_iPIF(Stopped(emu)).disk)
    /\ got' = {}
    /\ UNCHANGED <<synced, last>>
Killed ==
    /\ emu.rom # NoGame
    /\ emu' = Started(emu.disk)
    /\ got' = {}
    /\ UNCHANGED <<synced, last>>

\* A state holds the contents of domain 2 at the time it was saved: none of a
\* Flash RAM that has never been written.
StateImages == {image \in Image : \A b \in Blocks : emu.disk[emu.rom].sav[b] = NoData => image[b] = Blank}
FileIO_LoadState ==
    /\ emu.running
    /\ \E image \in StateImages : emu' = [emu EXCEPT !.c2a2 = image]
    /\ synced' = FALSE /\ got' = {}
    /\ UNCHANGED last

-----------------------------------------------------------------------------
(* The PIF.  A command is [op, b, v]; an answer names what was read.       *)

\* Mutant: the file is loaded only if it already was.
ReadEEpromUnloaded(s, b) ==
    LET t == IF s.eused THEN FileIO_LoadEEprom(s) ELSE s
    IN  [s |-> t, read |-> t.eeprom[b]]
ReadEEprom(s, b) ==
    LET t == IF s.eused THEN s ELSE FirstUse([FileIO_LoadEEprom(s) EXCEPT !.eused = TRUE], "EEPROM")
    IN  [s |-> t, read |-> t.eeprom[b]]
\* Mutant: the file is written before the memory.
WriteEEpromLate(s, b, v) ==
    LET t == IF s.eused THEN s ELSE FirstUse([FileIO_LoadEEprom(s) EXCEPT !.eused = TRUE], "EEPROM")
    IN  [FileIO_WriteEEprom(t) EXCEPT !.eeprom[b] = v, !.ewritten = TRUE]
WriteEEprom(s, b, v) ==
    LET t == IF s.eused THEN s ELSE FirstUse([FileIO_LoadEEprom(s) EXCEPT !.eused = TRUE], "EEPROM")
    IN  [FileIO_WriteEEprom([t EXCEPT !.eeprom[b] = v]) EXCEPT !.ewritten = TRUE]

\* Block N of a pak is the first block of the next.
InPak(d, b) == IF b < N THEN <<d, b>> ELSE <<d + 1, 0>>
PakLoaded(s, d) ==
    IF s.pused[d] THEN s ELSE FirstUse([FileIO_LoadMemPak(s, d) EXCEPT !.pused[d] = TRUE], "MEMPAK")
ReadControllerPak(s, d, b) ==
    LET t == PakLoaded(s, d)
        at == InPak(d, b)
    IN  [s |-> t, read |-> t.pak[at[1]][at[2]]]
WriteControllerPak(s, d, b, v) ==
    LET t == PakLoaded(s, d)
        at == InPak(d, b)
    IN  FileIO_WriteMemPak([t EXCEPT !.pak[at[1]][at[2]] = v, !.pwritten[d] = TRUE], d)

EEProm_Status_Byte(s) == CASE EEpromSize[s.rom] = "16KB" -> "C0"
                           [] EEpromSize[s.rom] = "4KB"  -> "80"
                           [] OTHER                      -> "00"

\* The new state and the answer.
Answered(s, read) == [s |-> s, read |-> read]
PakStatus(s, d) == IF d \in PakIn /\ Type(s) \in {"MEMPAK", "ANYUSED"} THEN "pak" ELSE "no pak"

ControllerCommand(s, d, c) ==
    CASE c.op = "read" /\ d \in PakIn  -> ReadControllerPak(s, d, c.b)
      [] c.op = "write" /\ d \in PakIn -> Answered(WriteControllerPak(s, d, c.b, c.v), NoData)
      [] c.op \in {"read", "write"} /\ d \notin PakIn -> Answered(s, NoData)
      [] c.op = "keys"                 -> Answered(s, "keys")
      [] OTHER                         -> Answered(s, PakStatus(s, d))

EEpromCommand(s, c) ==
    CASE c.op = "read"   -> ReadEEprom(s, c.b)
      [] c.op = "write"  -> Answered(WriteEEprom(s, c.b, c.v), NoData)
      [] c.op = "status" -> Answered(s, EEProm_Status_Byte(s))
      [] OTHER           -> Answered(s, NoData)

Answer(s, ch, c) == IF ch = EEpromChannel THEN EEpromCommand(s, c) ELSE ControllerCommand(s, ch, c)

\* The channels in turn, until a command for a pak or the EEPROM; those before
\* it change nothing.
Skip == [op |-> "skip"]
ASSUME PifAssumption ==
    PifBlocks \in [Games -> SUBSET [Channels ->
        {Skip} \cup [op : {"keys", "status", "read", "write"}, b : 0 .. N, v : Data]]]

Ends(ch, c) == c # Skip /\ (ch = EEpromChannel \/ c.op \in {"read", "write"})
iPifCheck(s, block) ==
    LET reached == {ch \in Channels : \A k \in 0 .. ch - 1 : ~Ends(k, block[k])}
        ending == {ch \in reached : Ends(ch, block[ch])}
        answered == {ch \in reached : block[ch] # Skip}
    IN  [s |-> IF ending = {} THEN s
               ELSE LET ch == CHOOSE k \in ending : TRUE IN Answer(s, ch, block[ch]).s,
         answers |-> [ch \in answered |-> Answer(s, ch, block[ch]).read]]

-----------------------------------------------------------------------------
(* What was written and what was read, for the properties.                 *)

Reads(block, answers) ==
    {[medium |-> IF ch = EEpromChannel THEN "eeprom" ELSE "pak", ch |-> ch,
      b |-> block[ch].b, read |-> answers[ch]] :
     ch \in {x \in DOMAIN answers : block[x].op = "read" /\ answers[x] # NoData}}
\* The block written, where the PIF got to it and it is part of the memory.
Wrote(block, answers, ch) ==
    /\ ch \in DOMAIN answers
    /\ block[ch].op = "write" /\ block[ch].b < N
Remembered(block, answers) ==
    [last EXCEPT ![emu.rom].eeprom =
                    IF Wrote(block, answers, EEpromChannel)
                    THEN [@ EXCEPT ![block[EEpromChannel].b] = block[EEpromChannel].v] ELSE @,
                 ![emu.rom].pak =
                    [d \in Pads |-> IF d \in PakIn /\ Wrote(block, answers, d)
                                    THEN [@[d] EXCEPT ![block[d].b] = block[d].v] ELSE @[d]]]

\* Do_DMA_MemCopy_SI_To_DRAM: the game reads the PIF's RAM.
Pif ==
    /\ emu.running
    /\ \E block \in PifBlocks[emu.rom] :
        LET done == iPifCheck(emu, block)
        IN  /\ emu' = done.s
            /\ last' = Remembered(block, done.answers)
            /\ got' = Reads(block, done.answers)
    /\ UNCHANGED synced

-----------------------------------------------------------------------------
(* SRAM and Flash RAM.                                                     *)

Flash(s) == Type(s) = "FLASHRAM" \/ s.first = "FLASHRAM"

\* The status words are left out: "erase block" only sets them.
Flashram_Command(s, c) ==
    CASE c.op = "erase mode"  -> [s EXCEPT !.mode = "ERASE", !.offset = c.b]
      [] c.op = "write mode"  -> [s EXCEPT !.mode = "WRITE"]
      [] c.op = "write block" -> [s EXCEPT !.offset = c.b]
      [] c.op = "execute" /\ s.mode = "ERASE" ->
            FileIO_WriteFLASHRAM([s EXCEPT !.c2a2[s.offset] = Erased], 0, Blank)
      [] c.op = "execute" /\ s.mode = "WRITE" ->
            FileIO_WriteFLASHRAM([s EXCEPT !.c2a2[s.offset] = s.buffer], 0, Blank)
      [] c.op = "status mode" -> [s EXCEPT !.mode = "STATUS"]
      [] c.op = "read mode"   -> [s EXCEPT !.mode = "NOOP", !.offset = 0]
      [] OTHER -> s

FlashCommands ==
    [op : {"erase mode", "write block"}, b : Blocks] \cup
    [op : {"erase block", "write mode", "execute", "status mode", "read mode"}, b : {0}]
Executes(c) == c.op = "execute" /\ emu.mode \in {"ERASE", "WRITE"}

\* Excused: the whole memory is written, also when it was never read from the
\* file: a game that erases first loses its other blocks.
Careful(c) == Executes(c) => synced

\* A store to the command register.
FlashCommand ==
    /\ emu.running /\ Type(emu) = "FLASHRAM"
    /\ \E c \in FlashCommands :
        /\ Excused => Careful(c)
        /\ emu' = Flashram_Command(emu, c)
        /\ last' = IF Executes(c)
                   THEN [last EXCEPT ![emu.rom].sav[emu.offset] =
                            IF emu.mode = "ERASE" THEN Erased ELSE emu.buffer]
                   ELSE last
    /\ got' = {}
    /\ UNCHANGED synced

DMA_RDRAM_To_Flashram(s, v) ==
    [FileIO_ReadFLASHRAM(FirstUse(s, "FLASHRAM")) EXCEPT !.buffer = v]
DMA_Flashram_To_RDRAM(s, b) ==
    LET t == FileIO_ReadFLASHRAM(s)
    IN  [s |-> t, read |-> IF t.mode = "STATUS" THEN NoData ELSE t.c2a2[b]]

\* PI DMA from RDRAM to the save memory.
DRAMToCart ==
    /\ emu.running
    /\ \E b \in Blocks, v \in DmaData[emu.rom] :
        /\ emu' = IF Flash(emu) THEN DMA_RDRAM_To_Flashram(emu, v)
                  ELSE FileIO_WriteFLASHRAM(emu, b, v)
        /\ last' = IF Direct(emu) /\ ~Flash(emu) THEN [last EXCEPT ![emu.rom].sav[b] = v] ELSE last
    /\ synced' = (synced \/ Flash(emu))
    /\ got' = {}

\* PI DMA from the save memory to RDRAM.  A block that the file has not reached
\* leaves RDRAM alone.
CartToDRAM ==
    /\ emu.running
    /\ \E b \in Blocks :
        LET flash == DMA_Flashram_To_RDRAM(emu, b)
            direct == FileIO_ReadFLASHRAM(emu)
            read == IF Flash(emu) THEN flash.read
                    ELSE IF Direct(emu) THEN direct.disk[direct.handle].sav[b] ELSE NoData
        IN  /\ emu' = IF Flash(emu) THEN flash.s ELSE direct
            /\ got' = IF read = NoData THEN {} ELSE {[medium |-> "sav", ch |-> 0, b |-> b, read |-> read]}
    /\ synced' = (synced \/ ~Direct(emu))
    /\ UNCHANGED last

Next ==
    \/ \E g \in Games : OpenROM(g)
    \/ Play \/ Stop \/ CloseROM \/ Exit \/ Killed
    \/ FileIO_LoadState
    \/ Pif \/ FlashCommand
    \/ DRAMToCart \/ CartToDRAM

Spec == Init /\ [][Next]_vars
-----------------------------------------------------------------------------
(* Properties.                                                             *)

\* The file's block is what the game wrote, if it wrote it.
Holds(image, written) == \A b \in Blocks : written[b] # Never => image # NoFile /\ image[b] = written[b]

\* Whatever a game has written is in its file at once: the emulator may be
\* killed at any time, and the writing back when a game is stopped or the
\* emulator left changes nothing (iPIF.c:444, gamesave.c:93).
Durable ==
    \A g \in Games :
        /\ Holds(emu.disk[g].eep, last[g].eeprom)
        /\ \A d \in Pads : Holds(emu.disk[g].pak[d], last[g].pak[d])
        /\ Holds(emu.disk[g].sav, last[g].sav)

\* A game reads what it last wrote, in this run or before a stop, a crash, a
\* loaded state or another game; where it never wrote, a new memory.
ReadBack ==
    \A r \in got :
        LET written == CASE r.medium = "eeprom" -> last[emu.rom].eeprom
                         [] r.medium = "pak"    -> last[emu.rom].pak[r.ch]
                         [] r.medium = "sav"    -> last[emu.rom].sav
        IN  r.b < N => IF written[r.b] = Never THEN r.read \in {Blank, Formatted}
                       ELSE r.read = written[r.b]

\* Files change only while their own game runs: nothing is written back after
\* it, and nothing of another game through a handle left open.
OnlyRunning ==
    [][\A g \in Games : emu'.disk[g] # emu.disk[g] =>
                            emu.running /\ emu'.running /\ {emu.rom, emu'.rom} = {g}]_vars
===============================================================================
