------------------------------- MODULE MCSaves -------------------------------
(* One game with every kind of memory but Flash RAM, one with Flash RAM.   *)
EXTENDS Saves

CONSTANTS zelda, mario

Types == [g \in Games |-> IF g = zelda THEN "FLASHRAM" ELSE "ANYUSED"]
Sizes == [g \in Games |-> IF g = zelda THEN "NONE" ELSE "4KB"]
Copies == [g \in Games |-> IF g = zelda THEN {Blank} ELSE {Erased}]

Command(op, b, v) == [op |-> op, b |-> b, v |-> v]
Asked(c, d, e) ==
    [k \in Channels |-> IF k = 0 THEN c ELSE IF k = EEpromChannel THEN e ELSE d]

Keys == Command("keys", 0, Blank)
Status == Command("status", 0, Blank)
\* Block N is what a game writes to find a rumble pak.
PadCommands ==
    {Command("read", b, Blank) : b \in 0 .. N} \cup
    {Command("write", b, Blank) : b \in {0, N}}
EEpromCommands ==
    {Command("read", b, Blank) : b \in Blocks} \cup {Command("write", 0, v) : v \in {Blank, Erased}}

\* The buttons, or a pak, and then the EEPROM, which is not reached after a pak.
AnyBlock ==
    [g \in Games |->
        IF g = zelda THEN {Asked(Keys, Skip, Skip), Asked(Status, Status, Skip)}
        ELSE {Asked(c, Skip, e) : c \in {Keys} \cup PadCommands, e \in EEpromCommands \cup {Status}}]
\* Paks in both controllers.
OnlyPads ==
    [g \in Games |-> {Asked(c, Skip, Skip) : c \in PadCommands} \cup
                     {Asked(Skip, d, Skip) : d \in {x \in PadCommands : x.b < N}}]
===============================================================================
