---------------------------- MODULE SavesProofs ----------------------------
(***************************************************************************)
(* For any games, contents and PIF commands: what a game has written is in *)
(* its file at once and is what it reads, and the files of other games are *)
(* left alone, where each game has one controller pak.                     *)
(***************************************************************************)
EXTENDS Saves, TLAPS

Written == [Blocks -> Data \cup {Never}]
LastType == [Games -> [eeprom : Written, pak : [Pads -> Written], sav : Written]]
DiskType == [eep : Image \cup {NoFile}, pak : [Pads -> Image \cup {NoFile}],
             sav : [Blocks -> Data \cup {NoData}]]
EmuType ==
    [rom : Games \cup {NoGame}, running : BOOLEAN, disk : [Games -> DiskType],
     eeprom : Image, eused : BOOLEAN, ewritten : BOOLEAN,
     pak : [Pads -> Image], pused : [Pads -> BOOLEAN], pwritten : [Pads -> BOOLEAN],
     first : {"NONE", "EEPROM", "MEMPAK", "FLASHRAM"}, c2a2 : Image,
     handle : Games \cup {NULL},
     mode : {"NOOP", "ERASE", "WRITE", "STATUS"}, offset : Blocks, buffer : Data]

\* A memory's block is what the game last wrote, or new.
Agrees(image, written) ==
    \A b \in Blocks : IF written[b] = Never THEN image[b] \in {Blank, Formatted}
                      ELSE image[b] = written[b]
\* Nothing was written to it.
Untouched(written) == \A b \in Blocks : written[b] = Never
FileAgrees(file, written) ==
    IF file = NoFile THEN Untouched(written) ELSE Agrees(file, written)

\* The EEPROM: the files agree, and the memory is that of the game's file once
\* it was used; before, it is new if the game has no file.
EEpromFiles(s, w) ==
    /\ \A g \in Games : FileAgrees(s.disk[g].eep, w[g].eeprom)
    /\ s.eeprom # BlankImage => \E h \in Games : s.disk[h].eep # NoFile
EEpromOf(s, g) ==
    /\ s.eused => s.disk[g].eep = s.eeprom
    /\ s.disk[g].eep = NoFile => s.eeprom = BlankImage
EEpromInv(s, w) == EEpromFiles(s, w) /\ (s.rom \in Games => EEpromOf(s, s.rom))

\* The pak: in addition, one marked as written is as its file.
PakFiles(s, w) ==
    /\ \A g \in Games, d \in Pads : FileAgrees(s.disk[g].pak[d], w[g].pak[d])
    /\ \A d \in PakIn : (s.pak[0] # BlankImage \/ s.pwritten[d]) =>
                            \E h \in Games : s.disk[h].pak[d] # NoFile
PakOf(s, w, g) ==
    /\ \A d \in Pads : s.pused[d] => d \in PakIn /\ s.disk[g].pak[d] # NoFile
                                     /\ Agrees(s.pak[0], w[g].pak[d])
    /\ \A d \in Pads : s.pused[d] /\ s.pwritten[d] => s.disk[g].pak[d] = s.pak[0]
    /\ \A d \in PakIn : s.disk[g].pak[d] = NoFile => s.pak[0] = BlankImage /\ ~s.pwritten[d]
PakInv(s, w) == PakFiles(s, w) /\ (s.rom \in Games => PakOf(s, w, s.rom))

\* A file of SRAM or Flash RAM: the blocks it has agree.
SavAgrees(sav, written) ==
    \A b \in Blocks : IF written[b] = Never THEN sav[b] \in {NoData, Blank}
                      ELSE sav[b] = written[b]
\* SRAM and Flash RAM.
SavFiles(s, w) ==
    /\ \A g \in Games :
         IF SaveType[g] \in {"ANYUSED", "SRAM", "FLASHRAM"} THEN SavAgrees(s.disk[g].sav, w[g].sav)
         ELSE Untouched(w[g].sav)
    /\ s.handle # NULL => s.running /\ s.handle = s.rom
    /\ s.rom \in Games /\ s.first = "FLASHRAM" => Type(s) = "FLASHRAM"
    /\ s.running => s.rom \in Games
\* The Flash RAM's memory is zero where its file ends, and once it was read from
\* the file it agrees.
FlashMemory(s, w, read) ==
    s.running /\ Type(s) = "FLASHRAM" =>
         /\ \A b \in Blocks : s.disk[s.rom].sav[b] = NoData => s.c2a2[b] = Blank
         /\ read => SavAgrees(s.c2a2, w[s.rom].sav)
SavInv(s, w, read) == SavFiles(s, w) /\ FlashMemory(s, w, read)

----------------------------------------------------------------------------
(* Operations on one memory *)

\* They leave the others and the files of other games alone.
DiskKept(s, t) == \A g \in Games : g # s.rom => t.disk[g] = s.disk[g]
EEpromSame(s, t) ==
    /\ t.eeprom = s.eeprom /\ t.eused = s.eused
    /\ \A g \in Games : t.disk[g].eep = s.disk[g].eep
PakSame(s, t) ==
    /\ t.pak = s.pak /\ t.pused = s.pused /\ t.pwritten = s.pwritten
    /\ \A g \in Games : t.disk[g].pak = s.disk[g].pak
SavSame(s, t) ==
    /\ t.handle = s.handle /\ t.c2a2 = s.c2a2
    /\ t.first = "FLASHRAM" => s.first = "FLASHRAM"
    /\ \A g \in Games : t.disk[g].sav = s.disk[g].sav
RunSame(s, t) == t.rom = s.rom /\ t.running = s.running

EEpromStep(s, t) ==
    t \in EmuType /\ RunSame(s, t) /\ PakSame(s, t) /\ SavSame(s, t) /\ DiskKept(s, t)
PakStep(s, t) ==
    t \in EmuType /\ RunSame(s, t) /\ EEpromSame(s, t) /\ SavSame(s, t) /\ DiskKept(s, t)
SavStep(s, t) ==
    t \in EmuType /\ RunSame(s, t) /\ EEpromSame(s, t) /\ PakSame(s, t) /\ DiskKept(s, t)

LEMMA EEpromFrame ==
    ASSUME NEW s, NEW t, NEW w, EEpromSame(s, t), t.rom = s.rom, EEpromInv(s, w)
    PROVE  EEpromInv(t, w)
BY DEF EEpromSame, EEpromInv, EEpromFiles, EEpromOf

LEMMA PakFrame ==
    ASSUME NEW s, NEW t, NEW w, PakSame(s, t), t.rom = s.rom, PakInv(s, w)
    PROVE  PakInv(t, w)
BY DEF PakSame, PakInv, PakFiles, PakOf

LEMMA SavFrame ==
    ASSUME NEW s, NEW t, NEW w, NEW read, SavSame(s, t), RunSame(s, t), SavInv(s, w, read)
    PROVE  SavInv(t, w, read)
BY DEF SavSame, RunSame, SavInv, SavFiles, FlashMemory, Type

LEMMA ImageFacts ==
    /\ NoFile \notin Image /\ BlankImage \in Image /\ 0 \in Blocks
    /\ NoData \notin Data /\ Never \notin Data /\ NULL \notin Games /\ NoGame \notin Games
    /\ Blank \in Data /\ Erased \in Data /\ Formatted \in Data
<1>1. 0 \in Blocks
  BY SavesAssumption DEF Blocks
<1>2. NoFile \notin Image
  <2>1. SUFFICES ASSUME NoFile \in Image PROVE FALSE
    OBVIOUS
  <2>2. DOMAIN NoFile = Blocks
    BY <2>1 DEF Image
  <2>3. DOMAIN NoFile = {}
    BY DEF NoFile
  <2>4. QED
    BY <1>1, <2>2, <2>3
<1>3. QED
  BY <1>1, <1>2, SavesAssumption, MarksAssumption DEF BlankImage, Image
\* Writing a file
Kin(s, t) ==
    /\ t \in EmuType /\ RunSame(s, t) /\ DiskKept(s, t)
    /\ t.eeprom = s.eeprom /\ t.eused = s.eused /\ t.ewritten = s.ewritten
    /\ t.pak = s.pak /\ t.pused = s.pused /\ t.pwritten = s.pwritten
    /\ t.first = s.first /\ t.c2a2 = s.c2a2 /\ t.handle = s.handle
    /\ t.mode = s.mode /\ t.offset = s.offset /\ t.buffer = s.buffer
WithDisk(s, t, r) == Kin(s, t) /\ t.disk[s.rom] = r

LEMMA DiskWritten ==
    ASSUME NEW s, s \in EmuType, s.rom \in Games, NEW r, r \in DiskType
    PROVE  WithDisk(s, [s EXCEPT !.disk[s.rom] = r], r)
<1> DEFINE D == [s.disk EXCEPT ![s.rom] = r]
<1>1. D \in [Games -> DiskType] /\ D[s.rom] = r /\ \A g \in Games : g # s.rom => D[g] = s.disk[g]
  BY DEF EmuType
<1>2. [s EXCEPT !.disk[s.rom] = r] = [s EXCEPT !.disk = D]
  OBVIOUS
<1> HIDE DEF D
<1>3. QED
  BY <1>1, <1>2 DEF EmuType, WithDisk, Kin, RunSame, DiskKept

LEMMA SameGame ==
    ASSUME NEW p, p \in DiskType, NEW q, q \in DiskType, p.eep = q.eep, p.pak = q.pak, p.sav = q.sav
    PROVE  p = q
BY DEF DiskType

EepFile(s, t, v) ==
    /\ Kin(s, t) /\ t.disk[s.rom].eep = v
    /\ t.disk[s.rom].pak = s.disk[s.rom].pak /\ t.disk[s.rom].sav = s.disk[s.rom].sav
LEMMA EepFileWritten ==
    ASSUME NEW s, s \in EmuType, s.rom \in Games, NEW v, v \in Image
    PROVE  EepFile(s, [s EXCEPT !.disk[s.rom].eep = v], v)
<1> DEFINE r == [s.disk[s.rom] EXCEPT !.eep = v]
<1>1. r \in DiskType /\ r.eep = v /\ r.pak = s.disk[s.rom].pak /\ r.sav = s.disk[s.rom].sav
  BY DEF EmuType, DiskType
<1>2. [s EXCEPT !.disk[s.rom].eep = v] = [s EXCEPT !.disk[s.rom] = r]
  OBVIOUS
<1> HIDE DEF r
<1>3. QED
  BY <1>1, <1>2, DiskWritten DEF EepFile, WithDisk

PakFile(s, t, f) ==
    /\ Kin(s, t) /\ t.disk[s.rom].pak = f
    /\ t.disk[s.rom].eep = s.disk[s.rom].eep /\ t.disk[s.rom].sav = s.disk[s.rom].sav
LEMMA PakFilesWritten ==
    ASSUME NEW s, s \in EmuType, s.rom \in Games, NEW f, f \in [Pads -> Image \cup {NoFile}]
    PROVE  PakFile(s, [s EXCEPT !.disk[s.rom].pak = f], f)
<1> DEFINE r == [s.disk[s.rom] EXCEPT !.pak = f]
<1>1. r \in DiskType /\ r.pak = f /\ r.eep = s.disk[s.rom].eep /\ r.sav = s.disk[s.rom].sav
  BY DEF EmuType, DiskType
<1>2. [s EXCEPT !.disk[s.rom].pak = f] = [s EXCEPT !.disk[s.rom] = r]
  OBVIOUS
<1> HIDE DEF r
<1>3. QED
  BY <1>1, <1>2, DiskWritten DEF PakFile, WithDisk

SavFile(s, t, f) ==
    /\ Kin(s, t) /\ t.disk[s.rom].sav = f
    /\ t.disk[s.rom].eep = s.disk[s.rom].eep /\ t.disk[s.rom].pak = s.disk[s.rom].pak
LEMMA SavFileWritten ==
    ASSUME NEW s, s \in EmuType, s.rom \in Games, NEW f, f \in [Blocks -> Data \cup {NoData}]
    PROVE  SavFile(s, [s EXCEPT !.disk[s.rom].sav = f], f)
<1> DEFINE r == [s.disk[s.rom] EXCEPT !.sav = f]
<1>1. r \in DiskType /\ r.sav = f /\ r.eep = s.disk[s.rom].eep /\ r.pak = s.disk[s.rom].pak
  BY DEF EmuType, DiskType
<1>2. [s EXCEPT !.disk[s.rom].sav = f] = [s EXCEPT !.disk[s.rom] = r]
  OBVIOUS
<1> HIDE DEF r
<1>3. QED
  BY <1>1, <1>2, DiskWritten DEF SavFile, WithDisk

----------------------------------------------------------------------------
(* The EEPROM *)

EEpromLoaded(s) ==
    IF s.eused THEN s ELSE FirstUse([FileIO_LoadEEprom(s) EXCEPT !.eused = TRUE], "EEPROM")

\* Its first use makes the memory the file's.
LEMMA EEpromLoads ==
    ASSUME NEW s \in EmuType, NEW w \in LastType, s.rom \in Games, EEpromInv(s, w)
    PROVE  LET t == EEpromLoaded(s)
           IN  EEpromStep(s, t) /\ EEpromInv(t, w) /\ t.eused
<1>1. CASE s.eused
  BY <1>1 DEF EEpromLoaded, EEpromStep, RunSame, PakSame, SavSame, DiskKept
<1>2. CASE ~s.eused
  <2> DEFINE u == FileIO_LoadEEprom(s)
             v == [u EXCEPT !.eused = TRUE]
             t == FirstUse(v, "EEPROM")
  <2>1. EEpromStep(s, u) /\ u.disk[s.rom].eep = u.eeprom /\ EEpromFiles(u, w)
    <3>1. CASE s.disk[s.rom].eep = NoFile
      <4>1. u = [s EXCEPT !.disk[s.rom].eep = BlankImage]
        BY <3>1 DEF FileIO_LoadEEprom
      <4>2. s.eeprom = BlankImage /\ \A b \in Blocks : w[s.rom].eeprom[b] = Never
        BY <3>1 DEF EEpromInv, EEpromOf, EEpromFiles, FileAgrees, Untouched
      <4>6. EepFile(s, u, BlankImage)
        BY <4>1, ImageFacts, EepFileWritten
      <4>3. EEpromStep(s, u)
        BY <4>6 DEF EepFile, Kin, EEpromStep, RunSame, PakSame, SavSame, DiskKept
      <4>4. /\ u.disk[s.rom].eep = BlankImage /\ u.eeprom = s.eeprom
            /\ \A g \in Games : g # s.rom => u.disk[g].eep = s.disk[g].eep
        BY <4>6 DEF EepFile, Kin, DiskKept
      <4>5. FileAgrees(BlankImage, w[s.rom].eeprom)
        BY <4>2, ImageFacts DEF FileAgrees, Agrees, BlankImage
      <4>7. QED
        BY <4>2, <4>3, <4>4, <4>5 DEF EEpromInv, EEpromFiles
    <3>2. CASE s.disk[s.rom].eep # NoFile
      <4>1. u = [s EXCEPT !.eeprom = s.disk[s.rom].eep]
        BY <3>2 DEF FileIO_LoadEEprom
      <4>2. s.disk[s.rom].eep \in Image
        BY <3>2 DEF EmuType, DiskType
      <4>3. EEpromStep(s, u) /\ u.disk = s.disk /\ u.eeprom = s.disk[s.rom].eep
        BY <4>1, <4>2 DEF EEpromStep, RunSame, PakSame, SavSame, DiskKept, EmuType
      <4>4. QED
        BY <3>2, <4>3 DEF EEpromInv, EEpromFiles
    <3>3. QED
      BY <3>1, <3>2
  <2> HIDE DEF u
  <2>2. /\ EEpromStep(s, v) /\ v.disk = u.disk /\ v.eeprom = u.eeprom /\ v.eused
    BY <2>1 DEF EEpromStep, RunSame, PakSame, SavSame, DiskKept, EmuType
  <2> HIDE DEF v
  <2>3. /\ EEpromStep(s, t) /\ t.disk = v.disk /\ t.eeprom = v.eeprom /\ t.eused
    BY <2>2 DEF EEpromStep, RunSame, PakSame, SavSame, DiskKept, EmuType, FirstUse
  <2>4. t = EEpromLoaded(s)
    BY <1>2 DEF EEpromLoaded, u, v
  <2> HIDE DEF t
  <2>5. t.disk[s.rom].eep = t.eeprom /\ EEpromFiles(t, w) /\ t.rom = s.rom /\ t.eeprom \in Image
    BY <2>1, <2>2, <2>3 DEF EEpromStep, RunSame, EEpromFiles, EmuType
  <2>6. EEpromInv(t, w)
    BY <2>5, ImageFacts DEF EEpromInv, EEpromOf
  <2>7. QED
    BY <2>3, <2>4, <2>6
<1>3. QED
  BY <1>1, <1>2

\* A read gives what was last written.
LEMMA EEpromReads ==
    ASSUME NEW s \in EmuType, NEW w \in LastType, s.rom \in Games, EEpromInv(s, w), NEW b
    PROVE  LET t == ReadEEprom(s, b).s
           IN  /\ EEpromStep(s, t) /\ EEpromInv(t, w)
               /\ b \in Blocks => IF w[s.rom].eeprom[b] = Never
                                  THEN ReadEEprom(s, b).read \in {Blank, Formatted}
                                  ELSE ReadEEprom(s, b).read = w[s.rom].eeprom[b]
<1> DEFINE t == EEpromLoaded(s)
<1>1. EEpromStep(s, t) /\ EEpromInv(t, w) /\ t.eused
  BY EEpromLoads
<1>2. ReadEEprom(s, b).s = t /\ ReadEEprom(s, b).read = t.eeprom[b]
  BY DEF ReadEEprom, EEpromLoaded
<1> HIDE DEF t
<1>3. t.rom = s.rom /\ t.disk[s.rom].eep = t.eeprom /\ t.eeprom \in Image
  BY <1>1 DEF EEpromStep, RunSame, EEpromInv, EEpromOf, EmuType
<1>4. Agrees(t.eeprom, w[s.rom].eeprom)
  BY <1>1, <1>3, ImageFacts DEF EEpromInv, EEpromFiles, FileAgrees
<1>5. QED
  BY <1>1, <1>2, <1>4 DEF Agrees

\* v was written to block b of game g, unless the memory has no such block.
WroteEEprom(w, x, g, b, v) ==
    /\ \A h \in Games : h # g => x[h].eeprom = w[h].eeprom
    /\ x[g].eeprom = IF b \in Blocks THEN [w[g].eeprom EXCEPT ![b] = v] ELSE w[g].eeprom

\* A write is in the memory and in the file.
LEMMA EEpromWrites ==
    ASSUME NEW s \in EmuType, NEW w \in LastType, NEW x, s.rom \in Games, EEpromInv(s, w),
           NEW b, NEW v \in Data, WroteEEprom(w, x, s.rom, b, v)
    PROVE  LET t == WriteEEprom(s, b, v) IN EEpromStep(s, t) /\ EEpromInv(t, x)
<1> DEFINE l == EEpromLoaded(s)
           m == [l EXCEPT !.eeprom[b] = v]
           f == [m EXCEPT !.disk[m.rom].eep = m.eeprom]
           t == [f EXCEPT !.ewritten = TRUE]
           e == [l.eeprom EXCEPT ![b] = v]
<1>1. EEpromStep(s, l) /\ EEpromInv(l, w) /\ l.eused
  BY EEpromLoads
<1>2. t = WriteEEprom(s, b, v)
  BY DEF WriteEEprom, EEpromLoaded, FileIO_WriteEEprom
<1>3. m = [l EXCEPT !.eeprom = e]
  OBVIOUS
<1> HIDE DEF l
<1>4. l \in EmuType /\ l.rom = s.rom /\ l.eeprom \in Image /\ l.disk[s.rom].eep = l.eeprom
  BY <1>1 DEF EEpromStep, RunSame, EmuType, EEpromInv, EEpromOf
<1>5. Agrees(l.eeprom, w[s.rom].eeprom)
  BY <1>1, <1>4, ImageFacts DEF EEpromInv, EEpromFiles, FileAgrees
<1>6. w[s.rom].eeprom \in Written
  BY DEF LastType
<1>7. e \in Image /\ Agrees(e, x[s.rom].eeprom)
  <2>1. e \in Image
    BY <1>4 DEF Image
  <2>2. CASE b \in Blocks
    BY <1>4, <1>5, <1>6, <2>1, <2>2, ImageFacts DEF Agrees, Image, Written, WroteEEprom
  <2>3. CASE b \notin Blocks
    BY <1>4, <1>5, <2>3 DEF Agrees, Image, WroteEEprom
  <2>4. QED
    BY <2>1, <2>2, <2>3
<1> HIDE DEF e
<1>8. EEpromStep(s, m) /\ m.disk = l.disk /\ m.eeprom = e /\ m.rom = s.rom /\ m.eused
  BY <1>1, <1>3, <1>4, <1>7 DEF EEpromStep, RunSame, PakSame, SavSame, DiskKept, EmuType
<1> HIDE DEF m
<1>9. EepFile(m, f, e)
  <2>1. m \in EmuType /\ m.rom \in Games
    BY <1>8 DEF EEpromStep
  <2>2. EepFile(m, [m EXCEPT !.disk[m.rom].eep = e], e)
    BY <2>1, <1>7, EepFileWritten
  <2>3. QED
    BY <2>2, <1>8
<1> HIDE DEF f
<1>10. EEpromStep(s, f) /\ f.disk[s.rom].eep = e /\ f.eeprom = e /\ f.eused
       /\ \A g \in Games : g # s.rom => f.disk[g].eep = l.disk[g].eep
  BY <1>8, <1>9 DEF EEpromStep, EepFile, Kin, RunSame, PakSame, SavSame, DiskKept
<1>11. EEpromStep(s, t) /\ t.disk = f.disk /\ t.eeprom = e /\ t.eused
  BY <1>10 DEF EEpromStep, RunSame, PakSame, SavSame, DiskKept, EmuType
<1> HIDE DEF t
<1>12. EEpromInv(t, x)
  <2>1. t.rom = s.rom
    BY <1>11 DEF EEpromStep, RunSame
  <2>2. \A g \in Games : FileAgrees(t.disk[g].eep, x[g].eeprom)
    <3>1. ASSUME NEW g \in Games, g # s.rom PROVE FileAgrees(t.disk[g].eep, x[g].eeprom)
      <4>1. t.disk[g].eep = l.disk[g].eep /\ x[g].eeprom = w[g].eeprom
        BY <1>10, <1>11, <3>1 DEF WroteEEprom
      <4>2. QED
        BY <1>1, <4>1 DEF EEpromInv, EEpromFiles
    <3>2. FileAgrees(t.disk[s.rom].eep, x[s.rom].eeprom)
      BY <1>7, <1>10, <1>11, ImageFacts DEF FileAgrees
    <3>3. QED
      BY <3>1, <3>2
  <2>3. t.disk[s.rom].eep # NoFile
    BY <1>7, <1>10, <1>11, ImageFacts
  <2>4. QED
    BY <1>10, <1>11, <2>1, <2>2, <2>3 DEF EEpromInv, EEpromFiles, EEpromOf
<1>13. QED
  BY <1>2, <1>11, <1>12

\* Closing it changes no file: what it writes is there already.
LEMMA EEpromCloses ==
    ASSUME NEW s \in EmuType, NEW w, s.rom \in Games, EEpromInv(s, w)
    PROVE  LET t == CloseEEprom(s)
           IN  EEpromStep(s, t) /\ EEpromInv(t, w) /\ t.disk = s.disk /\ t.eeprom = s.eeprom
<1>1. CASE Kept(s, "EEPROM") /\ s.eused /\ s.ewritten
  <2> DEFINE f == [s EXCEPT !.disk[s.rom].eep = s.eeprom]
             t == [f EXCEPT !.eused = FALSE, !.ewritten = FALSE]
  <2>1. CloseEEprom(s) = t
    BY <1>1 DEF CloseEEprom, FileIO_WriteEEprom
  <2>2. s.disk[s.rom].eep = s.eeprom /\ s.eeprom \in Image
    BY <1>1 DEF EEpromInv, EEpromOf, EmuType
  <2>3. EepFile(s, f, s.eeprom)
    BY <2>2, EepFileWritten
  <2> HIDE DEF f
  <2>4. f.disk[s.rom] = s.disk[s.rom]
    <3>1. f.disk[s.rom] \in DiskType /\ s.disk[s.rom] \in DiskType
      BY <2>3 DEF EepFile, Kin, EmuType
    <3>2. QED
      BY <2>2, <2>3, <3>1, SameGame DEF EepFile
  <2>5. f.disk = s.disk
    BY <2>3, <2>4 DEF EepFile, Kin, DiskKept, EmuType
  <2>6. EEpromStep(s, t) /\ t.disk = s.disk /\ t.eeprom = s.eeprom /\ ~t.eused /\ t.rom = s.rom
    BY <2>3, <2>5 DEF EepFile, Kin, EEpromStep, RunSame, PakSame, SavSame, DiskKept, EmuType
  <2> HIDE DEF t
  <2>7. EEpromInv(t, w)
    BY <2>6 DEF EEpromInv, EEpromFiles, EEpromOf
  <2>8. QED
    BY <2>1, <2>6, <2>7
<1>2. CASE ~(Kept(s, "EEPROM") /\ s.eused /\ s.ewritten)
  BY <1>2 DEF CloseEEprom, EEpromStep, RunSame, PakSame, SavSame, DiskKept
<1>3. QED
  BY <1>1, <1>2
----------------------------------------------------------------------------
(* The controller pak *)

OnePak == PakIn \subseteq {0}

LEMMA PakFacts ==
    ASSUME OnePak, NEW d, d \in PakIn
    PROVE  d = 0 /\ d \in Pads /\ 0 \in Pads /\ 0 \in PakIn
BY SavesAssumption DEF OnePak

LEMMA BlankAgrees ==
    ASSUME NEW written, Untouched(written), NEW c, c \in {Blank, Formatted}
    PROVE  Agrees([b \in Blocks |-> c], written)
BY DEF Untouched, Agrees

LEMMA PakFileKept ==
    ASSUME NEW s, s \in EmuType, NEW d, d \in Pads, s.rom \in Games, NEW m, m \in Image
    PROVE  LET t == [s EXCEPT !.disk[s.rom].pak[d] = m]
           IN  PakFile(s, t, [s.disk[s.rom].pak EXCEPT ![d] = m])
<1> DEFINE f == [s.disk[s.rom].pak EXCEPT ![d] = m]
<1>1. f \in [Pads -> Image \cup {NoFile}]
  BY DEF EmuType, DiskType
<1>2. [s EXCEPT !.disk[s.rom].pak[d] = m] = [s EXCEPT !.disk[s.rom].pak = f]
  OBVIOUS
<1> HIDE DEF f
<1>3. PakFile(s, [s EXCEPT !.disk[s.rom].pak = f], f)
  BY <1>1, PakFilesWritten
<1>4. QED
  BY <1>2, <1>3 DEF f

\* What the pak's memory must be once it is in use.
PakReady(s, w) ==
    /\ s.rom \in Games /\ s.disk[s.rom].pak[0] # NoFile
    /\ Agrees(s.pak[0], w[s.rom].pak[0])
    /\ s.pwritten[0] => s.disk[s.rom].pak[0] = s.pak[0]

LEMMA PakLoads ==
    ASSUME OnePak, NEW s \in EmuType, NEW w \in LastType, s.rom \in Games, PakInv(s, w),
           NEW d, d \in PakIn
    PROVE  LET t == PakLoaded(s, d)
           IN  PakStep(s, t) /\ PakInv(t, w) /\ t.pused[0] /\ PakReady(t, w)
<1>1. d = 0 /\ 0 \in Pads /\ 0 \in PakIn
  BY PakFacts
<1>2. CASE s.pused[d]
  BY <1>1, <1>2 DEF PakLoaded, PakStep, RunSame, EEpromSame, SavSame, DiskKept, PakInv, PakOf, PakReady
<1>3. CASE ~s.pused[d]
  <2> DEFINE u == FileIO_LoadMemPak(s, d)
             v == [u EXCEPT !.pused[d] = TRUE]
             t == FirstUse(v, "MEMPAK")
             formatted == [b \in Blocks |-> Formatted]
  <2>1. /\ PakStep(s, u) /\ PakFiles(u, w) /\ PakReady(u, w)
        /\ u.pused = s.pused /\ u.pwritten = s.pwritten
    <3>1. CASE s.disk[s.rom].pak[d] = NoFile
      <4>1. u = [s EXCEPT !.disk[s.rom].pak[d] = formatted]
        BY <3>1 DEF FileIO_LoadMemPak
      <4>2. s.pak[0] = BlankImage /\ ~s.pwritten[0] /\ Untouched(w[s.rom].pak[0])
        BY <3>1, <1>1 DEF PakInv, PakOf, PakFiles, FileAgrees
      <4>3. formatted \in Image /\ Agrees(formatted, w[s.rom].pak[0]) /\ formatted # NoFile
        BY <4>2, ImageFacts, BlankAgrees DEF Image
      <4>4. Agrees(BlankImage, w[s.rom].pak[0])
        BY <4>2, BlankAgrees DEF BlankImage
      <4> HIDE DEF formatted, u
      <4>5. PakFile(s, u, [s.disk[s.rom].pak EXCEPT ![d] = formatted])
        BY <4>1, <4>3, <1>1, PakFileKept
      <4>6. PakStep(s, u) /\ u.pak = s.pak /\ u.pused = s.pused /\ u.pwritten = s.pwritten
        BY <4>5 DEF PakFile, Kin, PakStep, RunSame, EEpromSame, SavSame, DiskKept
      <4>7. /\ u.disk[s.rom].pak[0] = formatted /\ u.rom = s.rom
            /\ \A c \in Pads : c # 0 => u.disk[s.rom].pak[c] = s.disk[s.rom].pak[c]
            /\ \A g \in Games : g # s.rom => u.disk[g].pak = s.disk[g].pak
        BY <4>5, <1>1 DEF PakFile, Kin, RunSame, DiskKept, EmuType, DiskType
      <4>8. \A g \in Games, c \in Pads : FileAgrees(u.disk[g].pak[c], w[g].pak[c])
        <5>1. FileAgrees(u.disk[s.rom].pak[0], w[s.rom].pak[0])
          BY <4>3, <4>7 DEF FileAgrees
        <5>2. ASSUME NEW g \in Games, NEW c \in Pads, g # s.rom \/ c # 0
              PROVE  FileAgrees(u.disk[g].pak[c], w[g].pak[c])
          <6>1. u.disk[g].pak[c] = s.disk[g].pak[c]
            BY <4>7, <5>2
          <6>2. QED
            BY <6>1 DEF PakInv, PakFiles
        <5>3. QED
          BY <5>1, <5>2
      <4>9. PakFiles(u, w)
        BY <4>2, <4>6, <4>8, <1>1 DEF PakFiles, OnePak
      <4>10. PakReady(u, w)
        BY <4>2, <4>3, <4>4, <4>6, <4>7 DEF PakReady
      <4>11. QED
        BY <4>6, <4>9, <4>10
    <3>2. CASE s.disk[s.rom].pak[d] # NoFile
      <4> DEFINE m == s.disk[s.rom].pak[0]
                 p == [s.pak EXCEPT ![0] = m]
      <4>1. u = [s EXCEPT !.pak = p]
        BY <3>2, <1>1 DEF FileIO_LoadMemPak
      <4>2. m \in Image /\ m # NoFile
        BY <3>2, <1>1 DEF EmuType, DiskType
      <4>3. p \in [Pads -> Image] /\ p[0] = m
        BY <4>2, <1>1 DEF EmuType
      <4> HIDE DEF p
      <4>4. /\ PakStep(s, u) /\ u.disk = s.disk /\ u.pak = p /\ u.pused = s.pused
            /\ u.pwritten = s.pwritten /\ u.rom = s.rom
        BY <4>1, <4>3 DEF PakStep, RunSame, EEpromSame, SavSame, DiskKept, EmuType
      <4> HIDE DEF u
      <4>5. Agrees(m, w[s.rom].pak[0])
        BY <4>2, <1>1 DEF PakInv, PakFiles, FileAgrees
      <4>6. PakFiles(u, w)
        BY <4>2, <4>4, <1>1, PakFacts DEF PakInv, PakFiles
      <4>7. PakReady(u, w)
        BY <4>2, <4>3, <4>4, <4>5 DEF PakReady
      <4>8. QED
        BY <4>4, <4>6, <4>7
    <3>3. QED
      BY <3>1, <3>2
  <2> HIDE DEF u
  <2>2. /\ PakStep(s, v) /\ v.disk = u.disk /\ v.pak = u.pak /\ v.pwritten = u.pwritten
        /\ v.pused = [s.pused EXCEPT ![0] = TRUE]
    BY <2>1, <1>1 DEF PakStep, RunSame, EEpromSame, SavSame, DiskKept, EmuType
  <2> HIDE DEF v
  <2>3. /\ PakStep(s, t) /\ t.disk = v.disk /\ t.pak = v.pak /\ t.pwritten = v.pwritten
        /\ t.pused = v.pused
    BY <2>2 DEF PakStep, RunSame, EEpromSame, SavSame, DiskKept, EmuType, FirstUse
  <2>4. t = PakLoaded(s, d)
    BY <1>3 DEF PakLoaded, u, v
  <2> HIDE DEF t
  <2>5. PakReady(t, w) /\ PakFiles(t, w) /\ t.rom = s.rom
    BY <2>1, <2>2, <2>3 DEF PakStep, RunSame, PakReady, PakFiles
  <2>6. t.pused[0] /\ \A c \in Pads : c # 0 => ~t.pused[c]
    BY <2>2, <2>3, <1>1, PakFacts DEF PakInv, PakOf, EmuType
  <2>7. PakOf(t, w, t.rom)
    BY <2>5, <2>6, <1>1, PakFacts DEF PakOf, PakReady
  <2>8. QED
    BY <2>3, <2>4, <2>5, <2>6, <2>7 DEF PakInv
<1>4. QED
  BY <1>2, <1>3

\* A read gives what was last written.
LEMMA PakReads ==
    ASSUME OnePak, NEW s \in EmuType, NEW w \in LastType, s.rom \in Games, PakInv(s, w),
           NEW d, d \in PakIn, NEW b
    PROVE  LET t == ReadControllerPak(s, d, b).s
           IN  /\ PakStep(s, t) /\ PakInv(t, w)
               /\ b \in Blocks => IF w[s.rom].pak[d][b] = Never
                                  THEN ReadControllerPak(s, d, b).read \in {Blank, Formatted}
                                  ELSE ReadControllerPak(s, d, b).read = w[s.rom].pak[d][b]
<1> DEFINE t == PakLoaded(s, d)
<1>1. d = 0
  BY PakFacts
<1>2. PakStep(s, t) /\ PakInv(t, w) /\ PakReady(t, w)
  BY PakLoads
<1>3. /\ ReadControllerPak(s, d, b).s = t
      /\ ReadControllerPak(s, d, b).read = t.pak[InPak(d, b)[1]][InPak(d, b)[2]]
  BY DEF ReadControllerPak
<1> HIDE DEF t
<1>4. t.rom = s.rom
  BY <1>2 DEF PakStep, RunSame
<1>5. b \in Blocks => InPak(d, b)[1] = 0 /\ InPak(d, b)[2] = b
  BY <1>1, SavesAssumption DEF InPak, Blocks
<1>6. QED
  BY <1>1, <1>2, <1>3, <1>4, <1>5 DEF PakReady, Agrees

WrotePak(w, x, g, d, b, v) ==
    /\ \A h \in Games : h # g => x[h].pak = w[h].pak
    /\ \A c \in Pads : c # d => x[g].pak[c] = w[g].pak[c]
    /\ x[g].pak[d] = IF b \in Blocks THEN [w[g].pak[d] EXCEPT ![b] = v] ELSE w[g].pak[d]

\* A write is in the memory and in the file.
LEMMA PakWrites ==
    ASSUME OnePak, NEW s \in EmuType, NEW w \in LastType, NEW x, s.rom \in Games, PakInv(s, w),
           NEW d, d \in PakIn, NEW b \in 0 .. N, NEW v \in Data, WrotePak(w, x, s.rom, d, b, v)
    PROVE  LET t == WriteControllerPak(s, d, b, v) IN PakStep(s, t) /\ PakInv(t, x)
<1> DEFINE l == PakLoaded(s, d)
           i == InPak(d, b)[1]
           j == InPak(d, b)[2]
           p == [l.pak EXCEPT ![i] = [l.pak[i] EXCEPT ![j] = v]]
           k == [l.pwritten EXCEPT ![d] = TRUE]
           m == [l EXCEPT !.pak[i][j] = v, !.pwritten[d] = TRUE]
           t == [m EXCEPT !.disk[m.rom].pak[d] = m.pak[0]]
<1>1. d = 0 /\ 0 \in Pads /\ 0 \in PakIn /\ \A c \in PakIn : c = 0
  BY PakFacts
<1>2. PakStep(s, l) /\ PakInv(l, w) /\ PakReady(l, w) /\ l.pused[0]
  BY PakLoads
<1>3. t = WriteControllerPak(s, d, b, v)
  BY DEF WriteControllerPak, FileIO_WriteMemPak
<1>4. m = [l EXCEPT !.pak = p, !.pwritten = k]
  OBVIOUS
<1> HIDE DEF l
<1>5. l \in EmuType /\ l.rom = s.rom /\ l.pak \in [Pads -> Image] /\ l.pwritten \in [Pads -> BOOLEAN]
  BY <1>2 DEF PakStep, RunSame, EmuType
<1>6. w[s.rom].pak[0] \in Written
  BY <1>1 DEF LastType
<1>7. p \in [Pads -> Image] /\ Agrees(p[0], x[s.rom].pak[0])
  <2>1. CASE b \in Blocks
    <3>1. i = 0 /\ j = b
      BY <1>1, <2>1, SavesAssumption DEF InPak, Blocks
    <3> HIDE DEF i, j
    <3> DEFINE e == [l.pak[0] EXCEPT ![b] = v]
    <3>2. e \in Image /\ \A c \in Blocks : e[c] = IF c = b THEN v ELSE l.pak[0][c]
      BY <1>1, <1>5 DEF Image
    <3>3. p = [l.pak EXCEPT ![0] = e]
      <4>1. p = [l.pak EXCEPT ![i] = [l.pak[i] EXCEPT ![j] = v]]
        OBVIOUS
      <4>2. QED
        BY <3>1, <4>1
    <3> HIDE DEF e
    <3>4. p \in [Pads -> Image] /\ p[0] = e
      BY <1>1, <1>5, <3>2, <3>3
    <3>5. \A c \in Blocks : x[s.rom].pak[0][c] = IF c = b THEN v ELSE w[s.rom].pak[0][c]
      <4>1. x[s.rom].pak[0] = [w[s.rom].pak[0] EXCEPT ![b] = v]
        BY <1>1, <2>1 DEF WrotePak
      <4>2. QED
        BY <1>6, <4>1 DEF Written
    <3>6. v # Never
      BY ImageFacts
    <3>7. Agrees(l.pak[0], w[s.rom].pak[0])
      BY <1>2, <1>5 DEF PakReady
    <3>8. Agrees(e, x[s.rom].pak[0])
      BY <3>2, <3>5, <3>6, <3>7 DEF Agrees
    <3>9. QED
      BY <3>4, <3>8
  <2>2. CASE b \notin Blocks
    <3>1. i = 1
      BY <1>1, <2>2, SavesAssumption DEF InPak, Blocks
    <3> HIDE DEF i
    <3> DEFINE q == [l.pak[i] EXCEPT ![j] = v]
    <3>2. p = [l.pak EXCEPT ![1] = q]
      BY <3>1
    <3>6. q \in Image \/ 1 \notin Pads
      BY <1>5, <3>1 DEF Image
    <3> HIDE DEF q, p
    <3>3. p \in [Pads -> Image] /\ p[0] = l.pak[0]
      <4>1. l.pak \in [Pads -> Image] /\ 0 \in Pads /\ 0 # 1
        BY <1>1, <1>5
      <4>2. QED
        BY <3>2, <3>6, <4>1
    <3>4. x[s.rom].pak[0] = w[s.rom].pak[0]
      BY <1>1, <2>2 DEF WrotePak
    <3>5. QED
      BY <1>2, <1>5, <3>3, <3>4 DEF PakReady
  <2>3. QED
    BY <2>1, <2>2
<1> HIDE DEF p
<1>8. k \in [Pads -> BOOLEAN]
  BY <1>5
<1> HIDE DEF k
<1>9. /\ PakStep(s, m) /\ m.disk = l.disk /\ m.pak = p /\ m.pwritten = k /\ m.pused = l.pused
      /\ m.rom = s.rom
  BY <1>2, <1>4, <1>5, <1>7, <1>8 DEF PakStep, RunSame, EEpromSame, SavSame, DiskKept, EmuType
<1> HIDE DEF m
<1>10. p[0] \in Image
  BY <1>1, <1>7
<1>11. PakFile(m, t, [m.disk[s.rom].pak EXCEPT ![d] = p[0]])
  <2>1. m \in EmuType
    BY <1>9 DEF PakStep
  <2>2. PakFile(m, [m EXCEPT !.disk[m.rom].pak[d] = p[0]], [m.disk[m.rom].pak EXCEPT ![d] = p[0]])
    BY <1>1, <1>9, <1>10, <2>1, PakFileKept
  <2>3. QED
    BY <1>9, <2>2
<1> HIDE DEF t
<1>12. PakStep(s, t) /\ t.pak = p /\ t.pwritten = k /\ t.pused = l.pused /\ t.rom = s.rom
  BY <1>9, <1>11 DEF PakFile, Kin, PakStep, RunSame, EEpromSame, SavSame, DiskKept
<1>13. /\ t.disk[s.rom].pak[0] = p[0]
       /\ \A c \in Pads : c # 0 => t.disk[s.rom].pak[c] = l.disk[s.rom].pak[c]
       /\ \A g \in Games : g # s.rom => t.disk[g].pak = l.disk[g].pak
  <2>1. m.disk[s.rom].pak \in [Pads -> Image \cup {NoFile}]
    BY <1>9 DEF PakStep, EmuType, DiskType
  <2>2. QED
    BY <1>1, <1>9, <1>11, <2>1 DEF PakFile, Kin, DiskKept
<1>14. \A g \in Games, c \in Pads : FileAgrees(t.disk[g].pak[c], x[g].pak[c])
  <2>1. FileAgrees(t.disk[s.rom].pak[0], x[s.rom].pak[0])
    BY <1>7, <1>10, <1>13, ImageFacts DEF FileAgrees
  <2>2. ASSUME NEW g \in Games, NEW c \in Pads, g # s.rom \/ c # 0
        PROVE  FileAgrees(t.disk[g].pak[c], x[g].pak[c])
    <3>1. t.disk[g].pak[c] = l.disk[g].pak[c] /\ x[g].pak[c] = w[g].pak[c]
      BY <1>1, <1>13, <2>2 DEF WrotePak
    <3>2. QED
      BY <1>2, <3>1 DEF PakInv, PakFiles
  <2>3. QED
    BY <2>1, <2>2
<1>15. t.disk[s.rom].pak[0] # NoFile
  BY <1>10, <1>13, ImageFacts
<1>16. PakFiles(t, x)
  BY <1>1, <1>14, <1>15 DEF PakFiles
<1>17. PakOf(t, x, s.rom)
  <2>1. \A c \in Pads : t.pused[c] => c = 0
    BY <1>1, <1>2, <1>5, <1>12 DEF PakInv, PakOf
  <2>2. QED
    BY <1>1, <1>7, <1>12, <1>13, <1>15, <2>1 DEF PakOf
<1>18. QED
  BY <1>3, <1>12, <1>16, <1>17 DEF PakInv

\* Closing it changes no file.
LEMMA PakCloses ==
    ASSUME NEW s \in EmuType, NEW w, s.rom \in Games, PakInv(s, w)
    PROVE  LET t == CloseMemPaks(s)
           IN  /\ PakStep(s, t) /\ PakInv(t, w) /\ t.disk = s.disk /\ t.pak = s.pak
               /\ \A d \in Pads : t.pwritten[d] => s.pwritten[d]
<1>1. CASE Kept(s, "MEMPAK")
  <2> DEFINE open == {d \in Pads : s.pused[d] /\ s.pwritten[d]}
             f == [d \in Pads |-> IF d \in open THEN s.pak[0] ELSE s.disk[s.rom].pak[d]]
             used == [d \in Pads |-> s.pused[d] /\ d \notin open]
             written == [d \in Pads |-> s.pwritten[d] /\ d \notin open]
             u == [s EXCEPT !.disk[s.rom].pak = f]
             t == [s EXCEPT !.disk[s.rom].pak = f, !.pused = used, !.pwritten = written]
  <2>1. CloseMemPaks(s) = t
    <3>1. /\ used = [d \in DOMAIN s.pused |-> s.pused[d] /\ d \notin open]
          /\ written = [d \in DOMAIN s.pwritten |-> s.pwritten[d] /\ d \notin open]
      BY DEF EmuType
    <3>2. QED
      BY <1>1 DEF CloseMemPaks
  <2>2. f = s.disk[s.rom].pak
    <3>1. \A d \in open : s.pak[0] = s.disk[s.rom].pak[d]
      BY DEF PakInv, PakOf
    <3>2. s.disk[s.rom].pak \in [Pads -> Image \cup {NoFile}]
      BY DEF EmuType, DiskType
    <3> HIDE DEF open
    <3>3. QED
      BY <3>1, <3>2
  <2>3. /\ used \in [Pads -> BOOLEAN] /\ \A d \in Pads : used[d] => s.pused[d]
        /\ written \in [Pads -> BOOLEAN] /\ \A d \in Pads : written[d] => s.pwritten[d]
    BY DEF EmuType
  <2> HIDE DEF f, used, written
  <2>4. PakFile(s, u, f)
    BY <2>2, PakFilesWritten DEF EmuType, DiskType
  <2>5. t = [u EXCEPT !.pused = used, !.pwritten = written]
    OBVIOUS
  <2> HIDE DEF u, t
  <2>6. u.disk[s.rom] = s.disk[s.rom]
    <3>1. u.disk[s.rom] \in DiskType /\ s.disk[s.rom] \in DiskType
      BY <2>4 DEF PakFile, Kin, EmuType
    <3>2. QED
      BY <2>2, <2>4, <3>1, SameGame DEF PakFile
  <2>7. u.disk = s.disk
    BY <2>4, <2>6 DEF PakFile, Kin, DiskKept, EmuType
  <2>8. /\ PakStep(s, t) /\ t.disk = s.disk /\ t.pak = s.pak /\ t.pused = used
        /\ t.pwritten = written /\ t.rom = s.rom
    BY <2>3, <2>4, <2>5, <2>7
    DEF PakFile, Kin, PakStep, RunSame, EEpromSame, SavSame, DiskKept, EmuType
  <2>9. PakFiles(t, w)
    BY <2>3, <2>8, SavesAssumption DEF PakInv, PakFiles
  <2>10. PakOf(t, w, s.rom)
    BY <2>3, <2>8, SavesAssumption DEF PakInv, PakOf
  <2>11. QED
    BY <2>1, <2>3, <2>8, <2>9, <2>10 DEF PakInv
<1>2. CASE ~Kept(s, "MEMPAK")
  BY <1>2 DEF CloseMemPaks, PakStep, RunSame, EEpromSame, SavSame, DiskKept
<1>3. QED
  BY <1>1, <1>2
----------------------------------------------------------------------------
(* SRAM and Flash RAM *)

WroteSav(w, x, g, b, v) ==
    /\ \A h \in Games : h # g => x[h].sav = w[h].sav
    /\ x[g].sav = [w[g].sav EXCEPT ![b] = v]

\* The save's file is open, and what SavInv reads besides.
Open(s, t) ==
    /\ SavStep(s, t) /\ t.handle = s.rom /\ t.disk = s.disk /\ t.c2a2 = s.c2a2
    /\ t.first = s.first /\ t.mode = s.mode /\ t.offset = s.offset /\ t.buffer = s.buffer

LEMMA SavOpens ==
    ASSUME NEW s, s \in EmuType, NEW w, s.running, SavFiles(s, w)
    PROVE  Open(s, Opened(s))
<1>1. s.rom \in Games /\ (IF s.handle = NULL THEN s.rom ELSE s.handle) = s.rom
  BY DEF SavFiles
<1>2. Opened(s) = [s EXCEPT !.handle = s.rom]
  BY <1>1 DEF Opened, EmuType
<1>3. QED
  BY <1>1, <1>2 DEF Open, SavStep, RunSame, EEpromSame, PakSame, DiskKept, EmuType

LEMMA ExtendedAgrees ==
    ASSUME NEW f \in [Blocks -> Data \cup {NoData}], NEW b \in Blocks, NEW v \in Data,
           NEW written \in Written, NEW now, now = [written EXCEPT ![b] = v],
           SavAgrees(f, written)
    PROVE  /\ Extended(f, b, v) \in [Blocks -> Data \cup {NoData}]
           /\ SavAgrees(Extended(f, b, v), now)
<1>1. Extended(f, b, v) \in [Blocks -> Data \cup {NoData}]
  BY ImageFacts DEF Extended
<1>2. ASSUME NEW c \in Blocks
      PROVE  IF now[c] = Never THEN Extended(f, b, v)[c] \in {NoData, Blank}
             ELSE Extended(f, b, v)[c] = now[c]
  <2>1. now[c] = IF c = b THEN v ELSE written[c]
    BY DEF Written
  <2>2. Extended(f, b, v)[c] = IF c = b THEN v ELSE IF c < b /\ f[c] = NoData THEN Blank ELSE f[c]
    BY DEF Extended
  <2>3. IF written[c] = Never THEN f[c] \in {NoData, Blank} ELSE f[c] = written[c]
    BY DEF SavAgrees
  <2>4. written[c] \in Data \cup {Never} /\ v # Never /\ NoData \notin Data /\ Never \notin Data
    BY ImageFacts DEF Written
  <2>5. CASE c = b
    BY <2>1, <2>2, <2>4, <2>5
  <2>6. CASE c # b
    BY <2>1, <2>2, <2>3, <2>4, <2>6
  <2>7. QED
    BY <2>5, <2>6
<1>3. QED
  BY <1>1, <1>2 DEF SavAgrees

\* Writing the game's file f keeps the invariant, if f agrees.
LEMMA SavWritten ==
    ASSUME NEW s, s \in EmuType, NEW w, NEW x, NEW read, s.running,
           SavFiles(s, w), s.handle = s.rom,
           NEW f, f \in [Blocks -> Data \cup {NoData}],
           \A h \in Games : h # s.rom => x[h].sav = w[h].sav,
           IF SaveType[s.rom] \in {"ANYUSED", "SRAM", "FLASHRAM"} THEN SavAgrees(f, x[s.rom].sav)
           ELSE Untouched(x[s.rom].sav),
           Type(s) = "FLASHRAM" => /\ \A b \in Blocks : f[b] = NoData => s.c2a2[b] = Blank
                                   /\ read => SavAgrees(s.c2a2, x[s.rom].sav)
    PROVE  LET t == [s EXCEPT !.disk[s.handle].sav = f]
           IN  SavStep(s, t) /\ SavInv(t, x, read)
<1> DEFINE t == [s EXCEPT !.disk[s.rom].sav = f]
<1>1. s.rom \in Games
  BY DEF SavFiles
<1>2. SavFile(s, t, f)
  BY <1>1, SavFileWritten
<1> HIDE DEF t
<1>3. SavStep(s, t)
  BY <1>2 DEF SavFile, Kin, SavStep, RunSame, EEpromSame, PakSame, DiskKept
<1>4. /\ t.disk[s.rom].sav = f /\ t.rom = s.rom /\ t.running = s.running /\ t.handle = s.handle
      /\ t.c2a2 = s.c2a2 /\ t.first = s.first
      /\ \A g \in Games : g # s.rom => t.disk[g] = s.disk[g]
  BY <1>2 DEF SavFile, Kin, RunSame, DiskKept
<1>5. \A g \in Games :
        IF SaveType[g] \in {"ANYUSED", "SRAM", "FLASHRAM"} THEN SavAgrees(t.disk[g].sav, x[g].sav)
        ELSE Untouched(x[g].sav)
  <2>1. ASSUME NEW g \in Games, g # s.rom
        PROVE  t.disk[g].sav = s.disk[g].sav /\ x[g].sav = w[g].sav
    BY <1>4, <2>1
  <2>2. QED
    BY <1>1, <1>4, <2>1 DEF SavFiles
<1>6. SavInv(t, x, read)
  BY <1>1, <1>4, <1>5 DEF SavInv, SavFiles, FlashMemory, Type
<1>7. QED
  BY <1>3, <1>6 DEF t

\* SRAM is written in place.
LEMMA SavWritesInPlace ==
    ASSUME NEW s \in EmuType, NEW w \in LastType, NEW x, NEW read, s.running,
           SavInv(s, w, read), Direct(s), NEW b \in Blocks, NEW v \in Data,
           WroteSav(w, x, s.rom, b, v)
    PROVE  LET t == FileIO_WriteFLASHRAM(s, b, v) IN SavStep(s, t) /\ SavInv(t, x, read)
<1> DEFINE o == Opened(s)
           f == Extended(o.disk[o.handle].sav, b, v)
           t == [o EXCEPT !.disk[o.handle].sav = f]
<1>1. Open(s, o) /\ s.rom \in Games
  BY SavOpens DEF SavInv, SavFiles, FlashMemory
<1>2. FileIO_WriteFLASHRAM(s, b, v) = t
  BY DEF FileIO_WriteFLASHRAM
<1> HIDE DEF o
<1>3. SavSame(s, o) \/ s.handle = NULL
  BY <1>1 DEF Open, SavSame, SavStep, RunSame, SavInv, SavFiles, FlashMemory
<1>4. SavInv(o, w, read) /\ o \in EmuType /\ o.rom = s.rom /\ o.running /\ o.handle = s.rom
  BY <1>1 DEF Open, SavStep, RunSame, SavInv, SavFiles, FlashMemory, Type
<1>5. /\ o.disk[s.rom].sav \in [Blocks -> Data \cup {NoData}] /\ w[s.rom].sav \in Written
      /\ SaveType[s.rom] \in {"ANYUSED", "SRAM"} /\ Type(o) # "FLASHRAM"
  BY <1>1, <1>4 DEF EmuType, DiskType, LastType, Direct, Type
<1>6. SavAgrees(o.disk[s.rom].sav, w[s.rom].sav)
  BY <1>1, <1>4, <1>5 DEF SavInv, SavFiles, FlashMemory
<1>7. f \in [Blocks -> Data \cup {NoData}] /\ SavAgrees(f, x[s.rom].sav)
  BY <1>4, <1>5, <1>6, ExtendedAgrees DEF WroteSav
<1>8. SavStep(o, t) /\ SavInv(t, x, read)
  <2> HIDE DEF f
  <2>1. \A h \in Games : h # o.rom => x[h].sav = w[h].sav
    BY <1>4 DEF WroteSav
  <2>2. QED
    <3>1. SavFiles(o, w) /\ o.running /\ o \in EmuType /\ o.handle = o.rom
      BY <1>4 DEF SavInv
    <3>2. IF SaveType[o.rom] \in {"ANYUSED", "SRAM", "FLASHRAM"} THEN SavAgrees(f, x[o.rom].sav)
          ELSE Untouched(x[o.rom].sav)
      BY <1>4, <1>5, <1>7
    <3>3. SavStep(o, [o EXCEPT !.disk[o.handle].sav = f])
          /\ SavInv([o EXCEPT !.disk[o.handle].sav = f], x, read)
      BY <1>5, <1>7, <2>1, <3>1, <3>2, SavWritten
    <3>4. QED
      BY <3>3
<1> HIDE DEF t
<1>9. SavStep(s, t)
  BY <1>1, <1>8 DEF Open, SavStep, RunSame, EEpromSame, PakSame, DiskKept
<1>10. QED
  BY <1>2, <1>8, <1>9

\* Any other memory is written as a whole: Flash RAM that agrees with what is
\* then said to be written, or a file that no game of that save type uses.
LEMMA SavWritesAll ==
    ASSUME NEW s, s \in EmuType, NEW w, NEW x, NEW read, s.running,
           SavFiles(s, w), ~Direct(s), NEW b, NEW v,
           \A h \in Games : h # s.rom => x[h].sav = w[h].sav,
           IF Type(s) = "FLASHRAM" THEN SavAgrees(s.c2a2, x[s.rom].sav) ELSE x = w
    PROVE  LET t == FileIO_WriteFLASHRAM(s, b, v) IN SavStep(s, t) /\ SavInv(t, x, read)
<1> DEFINE o == Opened(s)
           t == [o EXCEPT !.disk[o.handle].sav = o.c2a2]
<1>1. Open(s, o) /\ s.rom \in Games
  BY SavOpens DEF SavFiles
<1>2. FileIO_WriteFLASHRAM(s, b, v) = t
  BY DEF FileIO_WriteFLASHRAM
<1> HIDE DEF o
<1>3. /\ SavFiles(o, w) /\ o \in EmuType /\ o.rom = s.rom /\ o.running /\ o.handle = s.rom
      /\ o.c2a2 = s.c2a2
  BY <1>1 DEF Open, SavStep, RunSame, SavFiles, Type
<1>4. o.c2a2 \in [Blocks -> Data \cup {NoData}] /\ \A c \in Blocks : o.c2a2[c] # NoData
  BY <1>3, ImageFacts DEF EmuType, Image
<1>5. IF SaveType[s.rom] \in {"ANYUSED", "SRAM", "FLASHRAM"} THEN SavAgrees(o.c2a2, x[s.rom].sav)
      ELSE Untouched(x[s.rom].sav)
  BY <1>1, <1>3 DEF SavFiles, Direct, Type
<1>6. Type(o) = "FLASHRAM" => SavAgrees(o.c2a2, x[s.rom].sav)
  BY <1>3 DEF Type
<1>7. SavStep(o, t) /\ SavInv(t, x, read)
  <2> DEFINE f == o.c2a2
  <2>1. /\ o.handle = o.rom /\ o.rom = s.rom
        /\ f \in [Blocks -> Data \cup {NoData}]
        /\ \A h \in Games : h # o.rom => x[h].sav = w[h].sav
        /\ IF SaveType[o.rom] \in {"ANYUSED", "SRAM", "FLASHRAM"} THEN SavAgrees(f, x[o.rom].sav)
           ELSE Untouched(x[o.rom].sav)
        /\ Type(o) = "FLASHRAM" => /\ \A c \in Blocks : f[c] = NoData => o.c2a2[c] = Blank
                                   /\ read => SavAgrees(o.c2a2, x[o.rom].sav)
    BY <1>3, <1>4, <1>5, <1>6
  <2> HIDE DEF f
  <2>2. SavStep(o, [o EXCEPT !.disk[o.handle].sav = f])
        /\ SavInv([o EXCEPT !.disk[o.handle].sav = f], x, read)
    BY <1>3, <2>1, SavWritten
  <2>3. QED
    BY <2>2 DEF f
<1> HIDE DEF t
<1>8. SavStep(s, t)
  BY <1>1, <1>7 DEF Open, SavStep, RunSame, EEpromSame, PakSame, DiskKept
<1>9. QED
  BY <1>2, <1>7, <1>8

\* Reading the file makes the Flash RAM's memory agree with it.
LEMMA SavReads ==
    ASSUME NEW s, s \in EmuType, NEW w, w \in LastType, NEW read, s.running,
           SavInv(s, w, read)
    PROVE  LET t == FileIO_ReadFLASHRAM(s)
           IN  /\ SavStep(s, t) /\ t.disk = s.disk /\ t.handle = s.rom
               /\ t.mode = s.mode /\ t.first = s.first
               /\ SavInv(t, w, read \/ ~Direct(s))
<1> DEFINE o == Opened(s)
           image == o.disk[o.handle].sav
           c == [b \in Blocks |-> IF image[b] = NoData THEN o.c2a2[b] ELSE image[b]]
           t == [o EXCEPT !.c2a2 = c]
<1>1. Open(s, o) /\ s.rom \in Games
  BY SavOpens DEF SavInv, SavFiles
<1>2. /\ SavFiles(o, w) /\ FlashMemory(o, w, read) /\ o \in EmuType /\ o.rom = s.rom /\ o.running
      /\ o.handle = s.rom
  BY <1>1 DEF Open, SavStep, RunSame, SavInv, SavFiles, FlashMemory, Type
<1>3. CASE Direct(s)
  <2>1. FileIO_ReadFLASHRAM(s) = o
    BY <1>3 DEF FileIO_ReadFLASHRAM
  <2> HIDE DEF o
  <2>2. Type(o) # "FLASHRAM"
    BY <1>2, <1>3 DEF Direct, Type
  <2>3. SavInv(o, w, read \/ ~Direct(s))
    BY <1>2, <2>2 DEF SavInv, FlashMemory
  <2>4. QED
    BY <1>1, <2>1, <2>3 DEF Open
<1>4. CASE ~Direct(s)
  <2> HIDE DEF o
  <2>1. image \in [Blocks -> Data \cup {NoData}] /\ o.c2a2 \in Image
    BY <1>1, <1>2 DEF EmuType, DiskType
  <2> HIDE DEF image
  <2>2. c \in Image /\ \A b \in Blocks : c[b] = IF image[b] = NoData THEN o.c2a2[b] ELSE image[b]
    BY <2>1 DEF Image
  <2>3. FileIO_ReadFLASHRAM(s) = t
    <3>1. [b \in Blocks |-> IF image[b] = NoData THEN o.c2a2[b] ELSE image[b]] = c
      OBVIOUS
    <3>2. QED
      BY <1>4, <3>1 DEF FileIO_ReadFLASHRAM, o, image
  <2> HIDE DEF c
  <2>4. /\ SavStep(o, t) /\ t.disk = o.disk /\ t.handle = o.handle /\ t.c2a2 = c /\ t.first = o.first
        /\ t.mode = o.mode /\ t.rom = o.rom /\ t.running = o.running
    BY <1>2, <2>2 DEF SavStep, RunSame, EEpromSame, PakSame, DiskKept, EmuType
  <2> HIDE DEF t
  <2>5. SavFiles(t, w)
    BY <1>2, <2>4 DEF SavFiles, Type
  <2>6. FlashMemory(t, w, TRUE)
    <3>1. SUFFICES ASSUME Type(t) = "FLASHRAM"
                   PROVE  /\ \A b \in Blocks : image[b] = NoData => c[b] = Blank
                          /\ SavAgrees(c, w[s.rom].sav)
      BY <1>2, <2>4 DEF FlashMemory, image
    <3>2. \A b \in Blocks : image[b] = NoData => o.c2a2[b] = Blank
      BY <1>2, <2>4, <3>1 DEF FlashMemory, Type, image
    <3>3. SavAgrees(image, w[s.rom].sav)
      BY <1>1, <1>2, <2>4, <3>1 DEF SavFiles, Type, image
    <3>4. \A b \in Blocks : w[s.rom].sav[b] # NoData
      <4>1. w[s.rom].sav \in [Blocks -> Data \cup {Never}]
        BY <1>1 DEF LastType, Written
      <4>2. NoData # Never
        BY DEF NoData, Never
      <4>3. QED
        BY <4>1, <4>2, ImageFacts
    <3>5. \A b \in Blocks : c[b] = IF image[b] = NoData THEN Blank ELSE image[b]
      BY <2>2, <3>2
    <3>6. QED
      BY <3>3, <3>4, <3>5 DEF SavAgrees
  <2>7. SavStep(s, t) /\ t.disk = s.disk /\ t.handle = s.rom /\ t.mode = s.mode /\ t.first = s.first
    BY <1>1, <2>4 DEF Open, SavStep, RunSame, EEpromSame, PakSame, DiskKept
  <2>8. SavInv(t, w, read \/ ~Direct(s))
    BY <1>4, <2>5, <2>6 DEF SavInv, FlashMemory
  <2>9. QED
    BY <2>3, <2>7, <2>8
<1>5. QED
  BY <1>3, <1>4

LEMMA FlashCommandFacts ==
    ASSUME NEW c \in FlashCommands
    PROVE  /\ c.b \in Blocks
           /\ c.op \in {"erase mode", "write block", "erase block", "write mode", "execute",
                        "status mode", "read mode"}
BY ImageFacts DEF FlashCommands

\* A command of a game that executes only what it has read before.
LEMMA FlashExecutes ==
    ASSUME NEW s \in EmuType, NEW w \in LastType, NEW x, NEW read, s.running, SavInv(s, w, read),
           Type(s) = "FLASHRAM", NEW c \in FlashCommands,
           IF c.op = "execute" /\ s.mode \in {"ERASE", "WRITE"}
           THEN read /\ WroteSav(w, x, s.rom, s.offset, IF s.mode = "ERASE" THEN Erased ELSE s.buffer)
           ELSE x = w
    PROVE  LET t == Flashram_Command(s, c) IN SavStep(s, t) /\ SavInv(t, x, read)
<1> DEFINE t == Flashram_Command(s, c)
<1>1. s.rom \in Games /\ ~Direct(s)
  BY DEF SavInv, SavFiles, Direct
<1>2. CASE c.op = "execute" /\ s.mode \in {"ERASE", "WRITE"}
  <2> DEFINE v == IF s.mode = "ERASE" THEN Erased ELSE s.buffer
             e == [s.c2a2 EXCEPT ![s.offset] = v]
             m == [s EXCEPT !.c2a2 = e]
  <2>1. t = FileIO_WriteFLASHRAM(m, 0, Blank)
    <3>1. s.mode = "ERASE" => [s EXCEPT !.c2a2[s.offset] = Erased] = m
      OBVIOUS
    <3>2. s.mode = "WRITE" => [s EXCEPT !.c2a2[s.offset] = s.buffer] = m
      OBVIOUS
    <3> HIDE DEF m
    <3>3. CASE s.mode = "ERASE"
      BY <1>2, <3>1, <3>3 DEF Flashram_Command
    <3>4. CASE s.mode = "WRITE"
      BY <1>2, <3>2, <3>4 DEF Flashram_Command
    <3>5. QED
      BY <1>2, <3>3, <3>4
  <2>2. v \in Data /\ v # Never /\ s.offset \in Blocks /\ s.c2a2 \in Image
    BY ImageFacts DEF EmuType
  <2>3. x[s.rom].sav = [w[s.rom].sav EXCEPT ![s.offset] = v] /\ read
        /\ \A h \in Games : h # s.rom => x[h].sav = w[h].sav
    BY <1>2 DEF WroteSav
  <2> HIDE DEF v
  <2>4. e \in Image /\ \A b \in Blocks : e[b] = IF b = s.offset THEN v ELSE s.c2a2[b]
    BY <2>2 DEF Image
  <2>5. w[s.rom].sav \in Written
    BY <1>1 DEF LastType
  <2>6. \A b \in Blocks : x[s.rom].sav[b] = IF b = s.offset THEN v ELSE w[s.rom].sav[b]
    BY <2>3, <2>5 DEF Written
  <2>7. SavAgrees(s.c2a2, w[s.rom].sav)
    BY <2>3 DEF SavInv, FlashMemory
  <2>8. SavAgrees(e, x[s.rom].sav)
    BY <2>2, <2>4, <2>6, <2>7 DEF SavAgrees
  <2> HIDE DEF e
  <2>9. /\ m \in EmuType /\ m.c2a2 = e /\ m.disk = s.disk /\ m.handle = s.handle /\ m.rom = s.rom
        /\ m.running /\ m.first = s.first /\ SavStep(s, m)
    BY <2>4 DEF SavStep, RunSame, EEpromSame, PakSame, DiskKept, EmuType
  <2> HIDE DEF m
  <2>10. SavFiles(m, w) /\ Type(m) = "FLASHRAM" /\ ~Direct(m)
    BY <1>1, <2>9 DEF SavInv, SavFiles, Type, Direct
  <2>11. SavStep(m, t) /\ SavInv(t, x, read)
    <3>1. /\ \A h \in Games : h # m.rom => x[h].sav = w[h].sav
          /\ IF Type(m) = "FLASHRAM" THEN SavAgrees(m.c2a2, x[m.rom].sav) ELSE x = w
      BY <2>3, <2>8, <2>9, <2>10
    <3>2. /\ SavStep(m, FileIO_WriteFLASHRAM(m, 0, Blank))
          /\ SavInv(FileIO_WriteFLASHRAM(m, 0, Blank), x, read)
      BY <2>9, <2>10, <3>1, SavWritesAll
    <3>3. QED
      BY <2>1, <3>2
  <2> HIDE DEF t
  <2>12. SavStep(s, t)
    BY <2>9, <2>11 DEF SavStep, RunSame, EEpromSame, PakSame, DiskKept
  <2>13. QED
    BY <2>11, <2>12 DEF t
<1>3. CASE ~(c.op = "execute" /\ s.mode \in {"ERASE", "WRITE"})
  <2>1. c.b \in Blocks
    BY FlashCommandFacts
  <2>2. /\ t \in EmuType /\ t.rom = s.rom /\ t.running = s.running /\ t.disk = s.disk
        /\ t.eeprom = s.eeprom /\ t.eused = s.eused /\ t.pak = s.pak /\ t.pused = s.pused
        /\ t.pwritten = s.pwritten /\ t.first = s.first /\ t.c2a2 = s.c2a2 /\ t.handle = s.handle
    <3>1. CASE c.op = "erase mode"
      BY <2>1, <3>1 DEF Flashram_Command, EmuType
    <3>2. CASE c.op = "write mode"
      BY <2>1, <3>2 DEF Flashram_Command, EmuType
    <3>3. CASE c.op = "write block"
      BY <2>1, <3>3 DEF Flashram_Command, EmuType
    <3>4. CASE c.op = "status mode"
      BY <2>1, <3>4 DEF Flashram_Command, EmuType
    <3>5. CASE c.op = "read mode"
      BY <3>5, ImageFacts DEF Flashram_Command, EmuType
    <3>6. CASE c.op = "execute" \/ c.op = "erase block"
      <4>1. t = s
        BY <1>3, <3>6 DEF Flashram_Command
      <4>2. QED
        BY <4>1
    <3>7. QED
      BY <3>1, <3>2, <3>3, <3>4, <3>5, <3>6, FlashCommandFacts
  <2> HIDE DEF t
  <2>3. SavStep(s, t)
    BY <2>2 DEF SavStep, RunSame, EEpromSame, PakSame, DiskKept
  <2>4. SavInv(t, x, read)
    BY <1>3, <2>2 DEF SavInv, SavFiles, FlashMemory, Type
  <2>5. QED
    BY <2>3, <2>4 DEF t
<1>4. QED
  BY <1>2, <1>3

\* PI DMA of the Flash RAM reads the file first.
LEMMA FlashLoads ==
    ASSUME NEW s \in EmuType, NEW w \in LastType, NEW read, s.running, SavInv(s, w, read),
           Flash(s), NEW v \in Data
    PROVE  LET t == DMA_RDRAM_To_Flashram(s, v) IN SavStep(s, t) /\ SavInv(t, w, TRUE)
<1> DEFINE o == FirstUse(s, "FLASHRAM")
           u == FileIO_ReadFLASHRAM(o)
           t == [u EXCEPT !.buffer = v]
<1>1. s.rom \in Games /\ Type(s) = "FLASHRAM"
  BY DEF SavInv, SavFiles, Flash
<1>2. SavStep(s, o) /\ o.disk = s.disk /\ o.handle = s.handle /\ o.c2a2 = s.c2a2
  BY DEF FirstUse, SavStep, RunSame, EEpromSame, PakSame, DiskKept, EmuType
<1> HIDE DEF o
<1>3. SavInv(o, w, read) /\ o \in EmuType /\ o.running /\ ~Direct(o)
  BY <1>1, <1>2 DEF SavStep, RunSame, SavInv, SavFiles, FlashMemory, Type, Direct
<1>4. SavStep(o, u) /\ SavInv(u, w, TRUE)
  BY <1>3, SavReads
<1> HIDE DEF u
<1>5. SavStep(o, t) /\ t.disk = u.disk /\ t.handle = u.handle /\ t.c2a2 = u.c2a2 /\ t.first = u.first
      /\ t.rom = u.rom /\ t.running = u.running
  BY <1>4 DEF SavStep, RunSame, EEpromSame, PakSame, DiskKept, EmuType
<1>6. DMA_RDRAM_To_Flashram(s, v) = t
  BY DEF DMA_RDRAM_To_Flashram, u, o
<1> HIDE DEF t
<1>7. SavStep(s, t) /\ SavInv(t, w, TRUE)
  BY <1>2, <1>4, <1>5
  DEF SavStep, RunSame, EEpromSame, PakSame, DiskKept, SavInv, SavFiles, FlashMemory, Type
<1>8. QED
  BY <1>6, <1>7
----------------------------------------------------------------------------
(* Starting and closing *)

\* The invariant, of a state of the emulator and what was written
Inv(s, w, read) ==
    s \in EmuType /\ EEpromInv(s, w) /\ PakInv(s, w) /\ SavInv(s, w, read)

\* A step on one memory that keeps its part keeps the whole.
LEMMA EEpromStepInv ==
    ASSUME NEW s, NEW t, NEW w, NEW x, NEW read, Inv(s, w, read),
           EEpromStep(s, t), EEpromInv(t, x),
           \A g \in Games : x[g].pak = w[g].pak /\ x[g].sav = w[g].sav
    PROVE  Inv(t, x, read)
<1>1. PakInv(s, x) /\ SavInv(s, x, read)
  BY DEF Inv, PakInv, PakFiles, PakOf, SavInv, SavFiles, FlashMemory
<1>2. QED
  BY <1>1, PakFrame, SavFrame DEF Inv, EEpromStep, RunSame

LEMMA PakStepInv ==
    ASSUME NEW s, NEW t, NEW w, NEW x, NEW read, Inv(s, w, read),
           PakStep(s, t), PakInv(t, x),
           \A g \in Games : x[g].eeprom = w[g].eeprom /\ x[g].sav = w[g].sav
    PROVE  Inv(t, x, read)
<1>1. EEpromInv(s, x) /\ SavInv(s, x, read)
  BY DEF Inv, EEpromInv, EEpromFiles, EEpromOf, SavInv, SavFiles, FlashMemory
<1>2. QED
  BY <1>1, EEpromFrame, SavFrame DEF Inv, PakStep, RunSame

LEMMA SavStepInv ==
    ASSUME NEW s, NEW t, NEW w, NEW x, NEW old, NEW read, Inv(s, w, old),
           SavStep(s, t), SavInv(t, x, read),
           \A g \in Games : x[g].eeprom = w[g].eeprom /\ x[g].pak = w[g].pak
    PROVE  Inv(t, x, read)
<1>1. EEpromInv(s, x) /\ PakInv(s, x)
  BY DEF Inv, EEpromInv, EEpromFiles, EEpromOf, PakInv, PakFiles, PakOf
<1>2. QED
  BY <1>1, EEpromFrame, PakFrame DEF Inv, SavStep, RunSame

\* Closing changes no file, and leaves no mark that was not there.
Quiet(s, t) ==
    /\ t.disk = s.disk /\ t.rom = s.rom /\ t.eeprom = s.eeprom /\ t.pak = s.pak
    /\ \A d \in Pads : t.pwritten[d] => s.pwritten[d]

LEMMA IPIFCloses ==
    ASSUME NEW s, NEW w, NEW read, Inv(s, w, read), s.rom \in Games
    PROVE  LET t == Close_iPIF(s)
           IN  Inv(t, w, read) /\ Quiet(s, t) /\ t.running = s.running /\ t.handle = s.handle
<1> DEFINE u == CloseMemPaks(s)
           t == CloseEEprom(u)
<1>1. s \in EmuType /\ PakInv(s, w)
  BY DEF Inv
<1>2. /\ PakStep(s, u) /\ PakInv(u, w) /\ u.disk = s.disk /\ u.pak = s.pak
      /\ \A d \in Pads : u.pwritten[d] => s.pwritten[d]
  BY <1>1, PakCloses
<1>3. Inv(u, w, read)
  BY <1>2, PakStepInv
<1>4. /\ u \in EmuType /\ u.rom = s.rom /\ EEpromInv(u, w) /\ u.eeprom = s.eeprom
      /\ u.running = s.running /\ u.handle = s.handle
  BY <1>2, <1>3 DEF Inv, PakStep, RunSame, EEpromSame, SavSame
<1> HIDE DEF u
<1>5. EEpromStep(u, t) /\ EEpromInv(t, w) /\ t.disk = u.disk /\ t.eeprom = u.eeprom
  BY <1>4, EEpromCloses
<1> HIDE DEF t
<1>6. Inv(t, w, read)
  BY <1>3, <1>5, EEpromStepInv
<1>7. Quiet(s, t) /\ t.running = s.running /\ t.handle = s.handle
  BY <1>2, <1>4, <1>5 DEF Quiet, EEpromStep, RunSame, PakSame, SavSame
<1>8. t = Close_iPIF(s)
  BY DEF Close_iPIF, t, u
<1>9. QED
  BY <1>6, <1>7, <1>8

LEMMA Stops ==
    ASSUME NEW s, NEW w, NEW read, Inv(s, w, read), s.running
    PROVE  LET t == AfterStop(s)
           IN  Inv(t, w, read) /\ Quiet(s, t) /\ ~t.running /\ t.handle = NULL
<1> DEFINE u == Close_Save(s)
           v == Close_iPIF(u)
           t == [v EXCEPT !.running = FALSE]
<1>1. s \in EmuType /\ s.rom \in Games
  BY DEF Inv, SavInv, SavFiles
<1>2. /\ SavStep(s, u) /\ u.handle = NULL /\ u.disk = s.disk /\ u.c2a2 = s.c2a2 /\ u.first = s.first
      /\ u.eeprom = s.eeprom /\ u.pak = s.pak /\ u.pwritten = s.pwritten /\ u.rom = s.rom
      /\ u.running
  BY <1>1 DEF Close_Save, SavStep, RunSame, EEpromSame, PakSame, DiskKept, EmuType
<1> HIDE DEF u
<1>3. SavInv(u, w, read)
  BY <1>2 DEF Inv, SavInv, SavFiles, FlashMemory, Type
<1>4. Inv(u, w, read)
  BY <1>2, <1>3, SavStepInv
<1>5. Inv(v, w, read) /\ Quiet(u, v) /\ v.handle = NULL
  BY <1>1, <1>2, <1>4, IPIFCloses
<1> HIDE DEF v
<1>6. /\ t \in EmuType /\ Quiet(v, t) /\ ~t.running /\ t.handle = NULL /\ t.first = v.first
      /\ t.c2a2 = v.c2a2 /\ t.eused = v.eused /\ t.pused = v.pused /\ t.pwritten = v.pwritten
  BY <1>5 DEF Inv, Quiet, EmuType
<1> HIDE DEF t
<1>7. EEpromInv(t, w) /\ PakInv(t, w)
  BY <1>5, <1>6, EEpromFrame, PakFrame DEF Inv, Quiet, EEpromSame, PakSame
<1>8. SavInv(t, w, read)
  BY <1>5, <1>6 DEF Inv, Quiet, SavInv, SavFiles, FlashMemory, Type
<1>9. Quiet(s, t)
  BY <1>2, <1>5, <1>6 DEF Quiet
<1>10. t = AfterStop(s)
  BY DEF AfterStop, t, v, u
<1>11. QED
  BY <1>6, <1>7, <1>8, <1>9, <1>10 DEF Inv

LEMMA IsStopped ==
    ASSUME NEW s, NEW w, NEW read, Inv(s, w, read)
    PROVE  LET t == Stopped(s)
           IN  Inv(t, w, read) /\ Quiet(s, t) /\ ~t.running /\ t.handle = NULL
<1>1. CASE s.running
  BY <1>1, Stops DEF Stopped
<1>2. CASE ~s.running
  BY <1>2 DEF Stopped, Quiet, Inv, SavInv, SavFiles
<1>3. QED
  BY <1>1, <1>2

LEMMA Closes ==
    ASSUME NEW s, NEW w, NEW read, Inv(s, w, read)
    PROVE  LET t == Closed(s)
           IN  Inv(t, w, read) /\ Quiet(s, t) /\ ~t.running /\ t.handle = NULL
<1>1. CASE s.running
  <2> DEFINE u == AfterStop(s)
  <2>1. Inv(u, w, read) /\ Quiet(s, u) /\ ~u.running /\ u.handle = NULL /\ s.rom \in Games
    BY <1>1, Stops DEF Inv, SavInv, SavFiles
  <2> HIDE DEF u
  <2>2. u.rom \in Games
    BY <2>1 DEF Quiet
  <2>3. Inv(Close_iPIF(u), w, read) /\ Quiet(u, Close_iPIF(u)) /\ ~Close_iPIF(u).running
        /\ Close_iPIF(u).handle = NULL
    BY <2>1, <2>2, IPIFCloses
  <2>4. Quiet(s, Close_iPIF(u))
    BY <2>1, <2>3 DEF Quiet
  <2>5. QED
    BY <1>1, <2>3, <2>4 DEF Closed, u
<1>2. CASE ~s.running
  BY <1>2 DEF Closed, Quiet, Inv, SavInv, SavFiles
<1>3. QED
  BY <1>1, <1>2

\* The game's memories are new if it has no files, and no file is open.
Fresh(s) ==
    /\ s.disk[s.rom].eep = NoFile => s.eeprom = BlankImage
    /\ \A d \in PakIn : s.disk[s.rom].pak[d] = NoFile => s.pak[0] = BlankImage /\ ~s.pwritten[d]
    /\ s.handle = NULL \/ s.handle = s.rom
FilesAgree(s, w) ==
    /\ EEpromFiles(s, w) /\ PakFiles(s, w)
    /\ \A g \in Games :
         IF SaveType[g] \in {"ANYUSED", "SRAM", "FLASHRAM"} THEN SavAgrees(s.disk[g].sav, w[g].sav)
         ELSE Untouched(w[g].sav)

LEMMA Starts ==
    ASSUME NEW s \in EmuType, NEW w, s.rom \in Games, FilesAgree(s, w), Fresh(s)
    PROVE  LET t == Prepared(s)
           IN  Inv(t, w, FALSE) /\ t.disk = s.disk /\ t.rom = s.rom /\ t.running
<1> DEFINE u == Flashram_Init(s)
           v == Init_iPIF(u)
           t == [v EXCEPT !.c2a2 = BlankImage, !.running = TRUE]
           unused == [d \in Pads |-> FALSE]
<1>1. /\ u \in EmuType /\ u.rom = s.rom /\ u.disk = s.disk /\ u.eeprom = s.eeprom /\ u.pak = s.pak
      /\ u.pwritten = s.pwritten /\ u.handle = s.handle
  BY ImageFacts DEF Flashram_Init, EmuType
<1> HIDE DEF u
<1>2. v = [u EXCEPT !.pused = unused, !.eused = FALSE, !.first = "NONE"]
  BY DEF Init_iPIF
<1>3. unused \in [Pads -> BOOLEAN] /\ \A d \in Pads : ~unused[d]
  OBVIOUS
<1> HIDE DEF unused
<1>4. /\ v \in EmuType /\ v.rom = s.rom /\ v.disk = s.disk /\ v.eeprom = s.eeprom /\ v.pak = s.pak
      /\ v.pwritten = s.pwritten /\ v.handle = s.handle /\ ~v.eused /\ v.pused = unused
      /\ v.first = "NONE"
  BY <1>1, <1>2, <1>3 DEF EmuType
<1> HIDE DEF v
<1>5. /\ t \in EmuType /\ t.rom = s.rom /\ t.disk = s.disk /\ t.eeprom = s.eeprom /\ t.pak = s.pak
      /\ t.pwritten = s.pwritten /\ t.handle = s.handle /\ ~t.eused /\ t.pused = unused
      /\ t.first = "NONE" /\ t.running /\ t.c2a2 = BlankImage
  BY <1>4, ImageFacts DEF EmuType
<1>6. t = Prepared(s)
  BY DEF Prepared, v, u
<1> HIDE DEF t
<1>7. EEpromInv(t, w)
  BY <1>5 DEF EEpromInv, EEpromOf, EEpromFiles, FilesAgree, Fresh
<1>8. PakInv(t, w)
  <2>1. PakFiles(t, w)
    BY <1>5 DEF PakFiles, FilesAgree
  <2>2. PakOf(t, w, t.rom)
    BY <1>3, <1>5 DEF PakOf, Fresh
  <2>3. QED
    BY <2>1, <2>2 DEF PakInv
<1>9. SavInv(t, w, FALSE)
  <2>1. SavFiles(t, w)
    BY <1>5 DEF SavFiles, FilesAgree, Fresh
  <2>2. FlashMemory(t, w, FALSE)
    BY <1>5 DEF FlashMemory, BlankImage
  <2>3. QED
    BY <2>1, <2>2 DEF SavInv
<1>10. QED
  BY <1>5, <1>6, <1>7, <1>8, <1>9 DEF Inv

LEMMA InvFiles ==
    ASSUME NEW s, NEW w, NEW read, Inv(s, w, read)
    PROVE  /\ FilesAgree(s, w)
           /\ s.rom \in Games => Fresh(s)
BY DEF Inv, EEpromInv, EEpromOf, PakInv, PakOf, SavInv, SavFiles, FilesAgree, Fresh

\* A new process: its memories are new and only the files are left.
LEMMA ProcessStarts ==
    ASSUME NEW s, NEW w, NEW read, NEW old, Inv(s, w, old)
    PROVE  Inv(Started(s.disk), w, read)
<1> DEFINE t == Started(s.disk)
           blanks == [d \in Pads |-> BlankImage]
           none == [d \in Pads |-> FALSE]
<1>1. blanks \in [Pads -> Image] /\ none \in [Pads -> BOOLEAN]
  BY ImageFacts
<1>2. 0 \in Pads \/ PakIn = {}
  BY SavesAssumption
<1>3. \A d \in Pads : blanks[d] = BlankImage /\ ~none[d]
  OBVIOUS
<1>4. t = [rom |-> NoGame, running |-> FALSE, disk |-> s.disk,
           eeprom |-> BlankImage, eused |-> FALSE, ewritten |-> FALSE,
           pak |-> blanks, pused |-> none, pwritten |-> none,
           first |-> "NONE", c2a2 |-> BlankImage, handle |-> NULL,
           mode |-> "NOOP", offset |-> 0, buffer |-> Blank]
  BY DEF Started
<1> HIDE DEF blanks, none, t
<1>5. s.disk \in [Games -> DiskType]
  BY DEF Inv, EmuType
<1>6. t \in EmuType
  BY <1>1, <1>4, <1>5, ImageFacts DEF EmuType
<1>7. /\ t.rom \notin Games /\ ~t.running /\ t.handle = NULL /\ t.disk = s.disk
      /\ t.eeprom = BlankImage /\ t.pak = blanks /\ t.pwritten = none
  BY <1>4, ImageFacts
<1>8. EEpromInv(t, w)
  BY <1>7 DEF Inv, EEpromInv, EEpromFiles
<1>9. PakInv(t, w)
  <2>1. \A d \in PakIn : t.pak[0] = BlankImage /\ ~t.pwritten[d]
    BY <1>2, <1>3, <1>7, SavesAssumption
  <2>2. QED
    BY <1>7, <2>1 DEF Inv, PakInv, PakFiles
<1>10. SavInv(t, w, read)
  BY <1>7 DEF Inv, SavInv, SavFiles, FlashMemory
<1>11. QED
  BY <1>6, <1>8, <1>9, <1>10 DEF Inv, t
----------------------------------------------------------------------------
(* The PIF *)

Commands == [op : {"keys", "status", "read", "write"}, b : 0 .. N, v : Data]

LEMMA CommandFacts ==
    ASSUME NEW g \in Games, NEW block \in PifBlocks[g], NEW ch \in Channels
    PROVE  block[ch] # Skip => block[ch] \in Commands
<1>1. block \in [Channels -> {Skip} \cup Commands]
  BY PifAssumption DEF Commands
<1>2. QED
  BY <1>1

LEMMA ChannelFacts ==
    /\ EEpromChannel \in Channels /\ EEpromChannel \notin Pads
    /\ \A ch \in Channels : ch \in Pads \/ ch = EEpromChannel
    /\ Channels \subseteq Int /\ Pads \subseteq Channels
BY SavesAssumption DEF Channels

\* The commands answered before the one that ends the loop neither read nor
\* write a memory.
Ignored(block, answers, K) ==
    \A k \in DOMAIN answers \cap K : k \in Channels /\ block[k] # Skip /\ ~Ends(k, block[k])

\* At most one command reaches a memory.
LEMMA PifLoop ==
    ASSUME NEW s, NEW block
    PROVE  LET done == iPifCheck(s, block)
           IN  \/ done.s = s /\ Ignored(block, done.answers, Channels) /\ DOMAIN done.answers \subseteq Channels
               \/ \E ch \in Channels :
                    /\ Ends(ch, block[ch]) /\ ch \in DOMAIN done.answers
                    /\ DOMAIN done.answers \subseteq Channels
                    /\ done.s = Answer(s, ch, block[ch]).s
                    /\ done.answers[ch] = Answer(s, ch, block[ch]).read
                    /\ Ignored(block, done.answers, Channels \ {ch})
<1> DEFINE reached == {ch \in Channels : \A k \in 0 .. ch - 1 : ~Ends(k, block[k])}
           ending == {ch \in reached : Ends(ch, block[ch])}
           answered == {ch \in reached : block[ch] # Skip}
           first == CHOOSE k \in ending : TRUE
           answers == [ch \in answered |-> Answer(s, ch, block[ch]).read]
           done == iPifCheck(s, block)
<1>1. /\ done.s = IF ending = {} THEN s ELSE Answer(s, first, block[first]).s
      /\ done.answers = answers
  BY DEF iPifCheck
<1>2. DOMAIN answers = answered /\ answered \subseteq Channels
  OBVIOUS
<1>3. CASE ending = {}
  <2>1. Ignored(block, answers, Channels)
    BY <1>2, <1>3 DEF Ignored
  <2> HIDE DEF ending, answers, answered
  <2>2. QED
    BY <1>1, <1>2, <1>3, <2>1
<1>4. CASE ending # {}
  <2>1. first \in ending
    BY <1>4
  <2>2. \A k \in ending : k = first
    <3>1. SUFFICES ASSUME NEW k \in ending, k # first PROVE FALSE
      OBVIOUS
    <3>2. k \in Channels /\ first \in Channels /\ k \in Int /\ first \in Int /\ 0 <= k /\ 0 <= first
      BY <2>1, SavesAssumption DEF Channels
    <3>3. k \in 0 .. first - 1 \/ first \in 0 .. k - 1
      BY <3>1, <3>2
    <3>4. QED
      BY <2>1, <3>1, <3>3
  <2>3. first \in answered /\ answers[first] = Answer(s, first, block[first]).read /\ first \in Channels
        /\ Ends(first, block[first])
    BY <2>1 DEF Ends
  <2>4. Ignored(block, answers, Channels \ {first})
    BY <1>2, <2>2 DEF Ignored
  <2> HIDE DEF ending, answers, answered, first
  <2>5. QED
    BY <1>1, <1>2, <1>4, <2>3, <2>4
<1>5. QED
  BY <1>3, <1>4

\* What was written before stays, but for the block that is written.
LEMMA Remembers ==
    ASSUME last \in LastType, emu.rom \in Games, NEW block \in PifBlocks[emu.rom], NEW answers,
           DOMAIN answers \subseteq Channels
    PROVE  LET x == Remembered(block, answers)
               e == EEpromChannel
           IN  /\ x \in LastType
               /\ \A g \in Games : x[g].sav = last[g].sav
               /\ \A g \in Games : g # emu.rom => x[g].eeprom = last[g].eeprom /\ x[g].pak = last[g].pak
               /\ x[emu.rom].eeprom = IF Wrote(block, answers, e)
                                      THEN [last[emu.rom].eeprom EXCEPT ![block[e].b] = block[e].v]
                                      ELSE last[emu.rom].eeprom
               /\ \A d \in Pads :
                    x[emu.rom].pak[d] = IF d \in PakIn /\ Wrote(block, answers, d)
                                        THEN [last[emu.rom].pak[d] EXCEPT ![block[d].b] = block[d].v]
                                        ELSE last[emu.rom].pak[d]
<1> DEFINE e == EEpromChannel
           eeprom == IF Wrote(block, answers, e)
                     THEN [last[emu.rom].eeprom EXCEPT ![block[e].b] = block[e].v]
                     ELSE last[emu.rom].eeprom
           pak == [d \in Pads |-> IF d \in PakIn /\ Wrote(block, answers, d)
                                  THEN [last[emu.rom].pak[d] EXCEPT ![block[d].b] = block[d].v]
                                  ELSE last[emu.rom].pak[d]]
           r == [last[emu.rom] EXCEPT !.eeprom = eeprom, !.pak = pak]
           x == [last EXCEPT ![emu.rom] = r]
<1>1. \A ch \in Channels : Wrote(block, answers, ch) => block[ch].v \in Data /\ ch \in Channels
  BY CommandFacts DEF Wrote, Commands, Skip
<1>2. /\ last[emu.rom].eeprom \in Written /\ last[emu.rom].pak \in [Pads -> Written]
      /\ last[emu.rom] \in [eeprom : Written, pak : [Pads -> Written], sav : Written]
  BY DEF LastType
<1>3. eeprom \in Written
  BY <1>1, <1>2, ChannelFacts DEF Written
<1>4. pak \in [Pads -> Written]
  <2>1. ASSUME NEW d \in Pads
        PROVE  (IF d \in PakIn /\ Wrote(block, answers, d)
                THEN [last[emu.rom].pak[d] EXCEPT ![block[d].b] = block[d].v]
                ELSE last[emu.rom].pak[d]) \in Written
    <3>1. d \in Channels /\ last[emu.rom].pak[d] \in Written
      BY <1>2, ChannelFacts
    <3>2. QED
      BY <1>1, <3>1 DEF Written
  <2>2. QED
    BY <2>1
<1>5. \A d \in Pads : pak[d] = IF d \in PakIn /\ Wrote(block, answers, d)
                               THEN [last[emu.rom].pak[d] EXCEPT ![block[d].b] = block[d].v]
                               ELSE last[emu.rom].pak[d]
  OBVIOUS
<1>6. x = Remembered(block, answers)
  BY DEF Remembered
<1> HIDE DEF eeprom, pak
<1>7. /\ r \in [eeprom : Written, pak : [Pads -> Written], sav : Written]
      /\ r.eeprom = eeprom /\ r.pak = pak /\ r.sav = last[emu.rom].sav
  BY <1>2, <1>3, <1>4
<1> HIDE DEF r
<1>8. /\ x \in LastType /\ x[emu.rom] = r /\ \A g \in Games : g # emu.rom => x[g] = last[g]
  BY <1>7 DEF LastType
<1> HIDE DEF x
<1>9. /\ \A g \in Games : x[g].sav = last[g].sav
      /\ \A g \in Games : g # emu.rom => x[g].eeprom = last[g].eeprom /\ x[g].pak = last[g].pak
      /\ x[emu.rom].eeprom = eeprom /\ x[emu.rom].pak = pak
  BY <1>7, <1>8
<1>10. QED
  BY <1>5, <1>6, <1>8, <1>9 DEF eeprom

\* A command that is ignored is not read or written.
LEMMA IgnoredCommands ==
    ASSUME NEW block, NEW answers, NEW K, Ignored(block, answers, K), NEW k \in K
    PROVE  /\ ~Wrote(block, answers, k)
           /\ k \in DOMAIN answers => block[k].op # "read" /\ k # EEpromChannel
BY DEF Ignored, Wrote, Ends

\* A read that is made is one of the last answer.
LEMMA ReadsOne ==
    ASSUME NEW block, NEW answers, NEW ch, DOMAIN answers \subseteq Channels,
           Ignored(block, answers, Channels \ {ch}), NEW r \in Reads(block, answers)
    PROVE  /\ ch \in DOMAIN answers /\ block[ch].op = "read" /\ answers[ch] # NoData
           /\ r = [medium |-> IF ch = EEpromChannel THEN "eeprom" ELSE "pak", ch |-> ch,
                   b |-> block[ch].b, read |-> answers[ch]]
<1> DEFINE answer(k) == [medium |-> IF k = EEpromChannel THEN "eeprom" ELSE "pak", ch |-> k,
                         b |-> block[k].b, read |-> answers[k]]
<1>1. PICK k \in {x \in DOMAIN answers : block[x].op = "read" /\ answers[x] # NoData} : r = answer(k)
  BY DEF Reads
<1> HIDE DEF answer
<1>2. k = ch
  BY <1>1, IgnoredCommands
<1>3. QED
  BY <1>1, <1>2 DEF answer

LEMMA ReadsNone ==
    ASSUME NEW block, NEW answers, DOMAIN answers \subseteq Channels,
           Ignored(block, answers, Channels)
    PROVE  Reads(block, answers) = {}
BY IgnoredCommands DEF Reads
----------------------------------------------------------------------------
(* The steps of the program *)

IInv == last \in LastType /\ synced \in BOOLEAN /\ Inv(emu, last, synced) /\ ReadBack

\* What a game reads, r, is what was written.
ReadsBack(r, w, rom) ==
    LET written == CASE r.medium = "eeprom" -> w[rom].eeprom
                     [] r.medium = "pak"    -> w[rom].pak[r.ch]
                     [] r.medium = "sav"    -> w[rom].sav
    IN  r.b < N => IF written[r.b] = Never THEN r.read \in {Blank, Formatted}
                   ELSE r.read = written[r.b]

\* A step of the running game, which changes its own files only
GameStep(s, t) == t.rom = s.rom /\ t.running = s.running /\ DiskKept(s, t)

\* A step of OnlyRunning
FilesStep ==
    \A g \in Games : emu'.disk[g] # emu.disk[g] =>
                         emu.running /\ emu'.running /\ {emu.rom, emu'.rom} = {g}

LEMMA GameStepFiles ==
    ASSUME emu.running, GameStep(emu, emu')
    PROVE  FilesStep
<1>1. emu'.rom = emu.rom /\ emu'.running /\ \A g \in Games : g # emu.rom => emu'.disk[g] = emu.disk[g]
  BY DEF GameStep, DiskKept
<1>2. {emu.rom, emu'.rom} = {emu.rom}
  BY <1>1
<1>3. QED
  BY <1>1, <1>2 DEF FilesStep

LEMMA SilentStepFiles == emu'.disk = emu.disk => FilesStep
BY DEF FilesStep

\* One command of the PIF, c to channel ch, of a game that has written w; x is
\* what it has written after it.
OthersKept(w, x, g) ==
    /\ x[g].sav = w[g].sav
    /\ \A h \in Games : h # g => x[h].eeprom = w[h].eeprom /\ x[h].pak = w[h].pak /\ x[h].sav = w[h].sav
RemembersOne(w, x, g, ch, c) ==
    /\ OthersKept(w, x, g)
    /\ x[g].eeprom = IF ch = EEpromChannel /\ c.op = "write" /\ c.b < N
                     THEN [w[g].eeprom EXCEPT ![c.b] = c.v] ELSE w[g].eeprom
    /\ \A d \in Pads :
         x[g].pak[d] = IF ch = d /\ d \in PakIn /\ c.op = "write" /\ c.b < N
                       THEN [w[g].pak[d] EXCEPT ![c.b] = c.v] ELSE w[g].pak[d]
AnswersOne(s, x, ch, c) ==
    LET a == Answer(s, ch, c)
        r == [medium |-> IF ch = EEpromChannel THEN "eeprom" ELSE "pak", ch |-> ch,
              b |-> c.b, read |-> a.read]
    IN  /\ Inv(a.s, x, synced) /\ GameStep(s, a.s)
        /\ c.op = "read" /\ a.read # NoData => ReadsBack(r, x, s.rom)

LEMMA SamePaks ==
    ASSUME NEW w \in LastType, NEW x \in LastType, NEW g \in Games,
           \A d \in Pads : x[g].pak[d] = w[g].pak[d]
    PROVE  x[g].pak = w[g].pak
<1>1. x[g].pak \in [Pads -> Written] /\ w[g].pak \in [Pads -> Written]
  BY DEF LastType
<1>2. QED
  BY <1>1

LEMMA InBlocks ==
    ASSUME NEW b \in 0 .. N
    PROVE  b \in Blocks <=> b < N
BY SavesAssumption DEF Blocks

LEMMA EEpromAnswers ==
    ASSUME NEW s, NEW w \in LastType, NEW x \in LastType, Inv(s, w, synced), s.rom \in Games,
           NEW c \in Commands, RemembersOne(w, x, s.rom, EEpromChannel, c)
    PROVE  AnswersOne(s, x, EEpromChannel, c)
<1> DEFINE e == EEpromChannel
           a == Answer(s, e, c)
<1>1. s \in EmuType /\ EEpromInv(s, w) /\ c.b \in 0 .. N /\ c.v \in Data
  BY DEF Inv, Commands
<1>2. a = EEpromCommand(s, c)
  BY DEF Answer
<1>3. x[s.rom].pak = w[s.rom].pak
  <2>1. \A d \in Pads : x[s.rom].pak[d] = w[s.rom].pak[d]
    BY ChannelFacts DEF RemembersOne
  <2>2. QED
    BY <2>1, SamePaks
<1>4. \A g \in Games : x[g].pak = w[g].pak /\ x[g].sav = w[g].sav
  BY <1>3 DEF RemembersOne, OthersKept
<1>5. CASE c.op = "read"
  <2> DEFINE q == ReadEEprom(s, c.b)
  <2>1. a = q
    BY <1>2, <1>5 DEF EEpromCommand
  <2>2. x[s.rom].eeprom = w[s.rom].eeprom
    BY <1>5 DEF RemembersOne
  <2>3. /\ EEpromStep(s, q.s) /\ EEpromInv(q.s, w)
        /\ c.b \in Blocks => IF w[s.rom].eeprom[c.b] = Never THEN q.read \in {Blank, Formatted}
                             ELSE q.read = w[s.rom].eeprom[c.b]
    BY <1>1, EEpromReads
  <2> HIDE DEF q, a
  <2>4. EEpromInv(q.s, x)
    BY <2>2, <2>3 DEF EEpromInv, EEpromFiles, RemembersOne, OthersKept
  <2>5. Inv(q.s, x, synced) /\ GameStep(s, q.s)
    BY <1>4, <2>3, <2>4, EEpromStepInv DEF EEpromStep, RunSame, GameStep
  <2>6. ReadsBack([medium |-> "eeprom", ch |-> e, b |-> c.b, read |-> a.read], x, s.rom)
    BY <1>1, <2>1, <2>2, <2>3, InBlocks DEF ReadsBack
  <2>7. QED
    BY <2>1, <2>5, <2>6 DEF AnswersOne, a
<1>6. CASE c.op = "write"
  <2> DEFINE t == WriteEEprom(s, c.b, c.v)
  <2>1. a.s = t
    BY <1>2, <1>6 DEF EEpromCommand, Answered
  <2>2. WroteEEprom(w, x, s.rom, c.b, c.v)
    BY <1>1, <1>6, InBlocks DEF RemembersOne, OthersKept, WroteEEprom
  <2>3. EEpromStep(s, t) /\ EEpromInv(t, x)
    BY <1>1, <2>2, EEpromWrites
  <2> HIDE DEF t, a
  <2>4. Inv(t, x, synced) /\ GameStep(s, t)
    BY <1>4, <2>3, EEpromStepInv DEF EEpromStep, RunSame, GameStep
  <2>5. QED
    BY <1>6, <2>1, <2>4 DEF AnswersOne, a
<1>7. CASE c.op \notin {"read", "write"}
  <2>1. a.s = s
    BY <1>2, <1>7 DEF EEpromCommand, Answered
  <2>2. \A g \in Games : x[g].eeprom = w[g].eeprom
    BY <1>7 DEF RemembersOne, OthersKept
  <2>3. EEpromInv(s, x)
    BY <1>1, <2>2 DEF EEpromInv, EEpromFiles
  <2>4. EEpromStep(s, s) /\ GameStep(s, s)
    BY <1>1 DEF EEpromStep, RunSame, PakSame, SavSame, DiskKept, GameStep
  <2>5. Inv(s, x, synced)
    BY <1>4, <2>3, <2>4, EEpromStepInv
  <2>6. QED
    BY <1>7, <2>1, <2>4, <2>5 DEF AnswersOne
<1>8. QED
  BY <1>5, <1>6, <1>7

LEMMA PadAnswers ==
    ASSUME OnePak, NEW s, NEW w \in LastType, NEW x \in LastType, Inv(s, w, synced), s.rom \in Games,
           NEW d \in Pads, NEW c \in Commands, c.op \in {"read", "write"},
           RemembersOne(w, x, s.rom, d, c)
    PROVE  AnswersOne(s, x, d, c)
<1> DEFINE a == Answer(s, d, c)
<1>1. s \in EmuType /\ PakInv(s, w) /\ c.b \in 0 .. N /\ c.v \in Data
  BY DEF Inv, Commands
<1>2. d # EEpromChannel
  BY ChannelFacts
<1>3. a = ControllerCommand(s, d, c)
  BY <1>2 DEF Answer
<1>4. x[s.rom].eeprom = w[s.rom].eeprom
  BY <1>2 DEF RemembersOne
<1>5. \A g \in Games : x[g].eeprom = w[g].eeprom /\ x[g].sav = w[g].sav
  BY <1>4 DEF RemembersOne, OthersKept
<1>6. \A k \in Pads : k # d => x[s.rom].pak[k] = w[s.rom].pak[k]
  BY DEF RemembersOne
<1>7. CASE d \notin PakIn \/ c.op = "read"
  <2>1. x[s.rom].pak = w[s.rom].pak
    BY <1>6, <1>7, SamePaks DEF RemembersOne
  <2>2. \A g \in Games : x[g].pak = w[g].pak
    BY <2>1 DEF RemembersOne, OthersKept
  <2>3. CASE d \notin PakIn
    <3>1. a.s = s /\ a.read = NoData
      BY <1>3, <2>3 DEF ControllerCommand, Answered
    <3>2. PakInv(s, x)
      BY <1>1, <2>2 DEF PakInv, PakFiles, PakOf
    <3>3. PakStep(s, s) /\ GameStep(s, s)
      BY <1>1 DEF PakStep, RunSame, EEpromSame, SavSame, DiskKept, GameStep
    <3>4. Inv(s, x, synced)
      BY <1>5, <3>2, <3>3, PakStepInv
    <3>5. QED
      BY <3>1, <3>3, <3>4 DEF AnswersOne
  <2>4. CASE d \in PakIn /\ c.op = "read"
    <3> DEFINE q == ReadControllerPak(s, d, c.b)
    <3>1. a = q
      BY <1>3, <2>4 DEF ControllerCommand
    <3>2. /\ PakStep(s, q.s) /\ PakInv(q.s, w)
          /\ c.b \in Blocks => IF w[s.rom].pak[d][c.b] = Never THEN q.read \in {Blank, Formatted}
                               ELSE q.read = w[s.rom].pak[d][c.b]
      BY <1>1, <2>4, PakReads
    <3> HIDE DEF q, a
    <3>3. PakInv(q.s, x)
      BY <2>2, <3>2 DEF PakInv, PakFiles, PakOf
    <3>4. Inv(q.s, x, synced) /\ GameStep(s, q.s)
      BY <1>5, <3>2, <3>3, PakStepInv DEF PakStep, RunSame, GameStep
    <3>5. ReadsBack([medium |-> "pak", ch |-> d, b |-> c.b, read |-> a.read], x, s.rom)
      BY <1>1, <2>1, <3>1, <3>2, InBlocks DEF ReadsBack
    <3>6. QED
      BY <1>2, <3>1, <3>4, <3>5 DEF AnswersOne, a
  <2>5. QED
    BY <1>7, <2>3, <2>4
<1>8. CASE d \in PakIn /\ c.op = "write"
  <2> DEFINE t == WriteControllerPak(s, d, c.b, c.v)
  <2>1. a.s = t
    BY <1>3, <1>8 DEF ControllerCommand, Answered
  <2>2. WrotePak(w, x, s.rom, d, c.b, c.v)
    BY <1>1, <1>6, <1>8, InBlocks DEF RemembersOne, OthersKept, WrotePak
  <2>3. PakStep(s, t) /\ PakInv(t, x)
    BY <1>1, <1>8, <2>2, PakWrites
  <2> HIDE DEF t, a
  <2>4. Inv(t, x, synced) /\ GameStep(s, t)
    BY <1>5, <2>3, PakStepInv DEF PakStep, RunSame, GameStep
  <2>5. QED
    BY <1>8, <2>1, <2>4 DEF AnswersOne, a
<1>9. QED
  BY <1>7, <1>8

LEMMA PifSteps ==
    ASSUME OnePak, IInv, Pif
    PROVE  IInv' /\ FilesStep
<1>1. emu.running /\ emu.rom \in Games /\ last \in LastType /\ Inv(emu, last, synced)
      /\ synced' = synced /\ synced \in BOOLEAN
  BY DEF IInv, Inv, SavInv, SavFiles, Pif
<1>2. PICK block \in PifBlocks[emu.rom] :
        LET done == iPifCheck(emu, block)
        IN  /\ emu' = done.s
            /\ last' = Remembered(block, done.answers)
            /\ got' = Reads(block, done.answers)
  BY DEF Pif
<1> DEFINE done == iPifCheck(emu, block)
           answers == done.answers
           e == EEpromChannel
<1>3. \/ done.s = emu /\ Ignored(block, answers, Channels) /\ DOMAIN answers \subseteq Channels
      \/ \E ch \in Channels :
           /\ Ends(ch, block[ch]) /\ ch \in DOMAIN answers
           /\ DOMAIN answers \subseteq Channels
           /\ done.s = Answer(emu, ch, block[ch]).s
           /\ answers[ch] = Answer(emu, ch, block[ch]).read
           /\ Ignored(block, answers, Channels \ {ch})
  BY PifLoop
<1>4. emu' = done.s /\ last' = Remembered(block, answers) /\ got' = Reads(block, answers)
  BY <1>2
<1> HIDE DEF done, answers
<1>5. DOMAIN answers \subseteq Channels
  BY <1>3
<1>6. /\ last' \in LastType
      /\ \A g \in Games : last'[g].sav = last[g].sav
      /\ \A g \in Games : g # emu.rom => last'[g].eeprom = last[g].eeprom /\ last'[g].pak = last[g].pak
      /\ last'[emu.rom].eeprom = IF Wrote(block, answers, e)
                                 THEN [last[emu.rom].eeprom EXCEPT ![block[e].b] = block[e].v]
                                 ELSE last[emu.rom].eeprom
      /\ \A d \in Pads :
           last'[emu.rom].pak[d] = IF d \in PakIn /\ Wrote(block, answers, d)
                                   THEN [last[emu.rom].pak[d] EXCEPT ![block[d].b] = block[d].v]
                                   ELSE last[emu.rom].pak[d]
  BY <1>1, <1>4, <1>5, Remembers
<1>7. CASE done.s = emu /\ Ignored(block, answers, Channels)
  <2>1. got' = {}
    BY <1>4, <1>5, <1>7, ReadsNone
  <2>2. last'[emu.rom].eeprom = last[emu.rom].eeprom
    BY <1>6, <1>7, IgnoredCommands, ChannelFacts
  <2>3. \A d \in Pads : last'[emu.rom].pak[d] = last[emu.rom].pak[d]
    BY <1>6, <1>7, IgnoredCommands, ChannelFacts
  <2>4. last'[emu.rom].pak = last[emu.rom].pak
    BY <1>1, <1>6, <2>3, SamePaks
  <2>5. \A g \in Games : /\ last'[g].eeprom = last[g].eeprom /\ last'[g].pak = last[g].pak
                         /\ last'[g].sav = last[g].sav
    BY <1>6, <2>2, <2>4
  <2>6. Inv(emu, last', synced)
    BY <1>1, <2>5 DEF Inv, EEpromInv, EEpromFiles, EEpromOf, PakInv, PakFiles, PakOf,
                      SavInv, SavFiles, FlashMemory
  <2>7. QED
    BY <1>1, <1>4, <1>6, <1>7, <2>1, <2>6, SilentStepFiles DEF IInv, ReadBack
<1>8. ASSUME NEW ch \in Channels, Ends(ch, block[ch]), ch \in DOMAIN answers,
             done.s = Answer(emu, ch, block[ch]).s,
             answers[ch] = Answer(emu, ch, block[ch]).read,
             Ignored(block, answers, Channels \ {ch})
      PROVE  IInv' /\ FilesStep
  <2> DEFINE c == block[ch]
  <2>1. c \in Commands
    BY <1>1, <1>8, CommandFacts DEF Ends
  <2>2. \A k \in Channels : Wrote(block, answers, k) <=> k = ch /\ c.op = "write" /\ c.b < N
    BY <1>8, IgnoredCommands DEF Wrote
  <2>3. RemembersOne(last, last', emu.rom, ch, c)
    <3>1. OthersKept(last, last', emu.rom)
      BY <1>1, <1>6 DEF OthersKept
    <3>2. last'[emu.rom].eeprom = IF ch = e /\ c.op = "write" /\ c.b < N
                                  THEN [last[emu.rom].eeprom EXCEPT ![c.b] = c.v]
                                  ELSE last[emu.rom].eeprom
      BY <1>6, <2>2, ChannelFacts
    <3>3. \A d \in Pads :
            last'[emu.rom].pak[d] = IF ch = d /\ d \in PakIn /\ c.op = "write" /\ c.b < N
                                    THEN [last[emu.rom].pak[d] EXCEPT ![c.b] = c.v]
                                    ELSE last[emu.rom].pak[d]
      BY <1>6, <2>2, ChannelFacts
    <3>4. QED
      BY <3>1, <3>2, <3>3 DEF RemembersOne
  <2>4. AnswersOne(emu, last', ch, c)
    <3>1. CASE ch = e
      BY <1>1, <1>6, <2>1, <2>3, <3>1, EEpromAnswers
    <3>2. CASE ch \in Pads
      <4>1. c.op \in {"read", "write"}
        BY <1>8, <3>2, ChannelFacts DEF Ends
      <4>2. QED
        BY <1>1, <1>6, <2>1, <2>3, <3>2, <4>1, PadAnswers
    <3>3. QED
      BY <3>1, <3>2, ChannelFacts
  <2>5. Inv(emu', last', synced') /\ GameStep(emu, emu')
    BY <1>1, <1>4, <1>8, <2>4 DEF AnswersOne
  <2>6. ReadBack'
    <3>1. SUFFICES ASSUME NEW r \in got' PROVE ReadsBack(r, last', emu'.rom)
      BY DEF ReadBack, ReadsBack
    <3>2. /\ c.op = "read" /\ answers[ch] # NoData
          /\ r = [medium |-> IF ch = e THEN "eeprom" ELSE "pak", ch |-> ch,
                  b |-> c.b, read |-> answers[ch]]
      BY <1>4, <1>5, <1>8, <3>1, ReadsOne
    <3>3. emu'.rom = emu.rom
      BY <2>5 DEF GameStep
    <3>4. QED
      BY <1>8, <2>4, <3>2, <3>3 DEF AnswersOne
  <2>7. QED
    BY <1>1, <1>6, <2>5, <2>6, GameStepFiles DEF IInv
<1>9. QED
  BY <1>3, <1>7, <1>8

\* A step that reads nothing and after which the emulator is as it should be.
LEMMA QuietInv ==
    ASSUME last' \in LastType, synced' \in BOOLEAN, Inv(emu', last', synced'), got' = {}
    PROVE  IInv'
BY DEF IInv, ReadBack

\* The memories that Unshared looks at are the same once the old game is closed.
LEMMA UnsharedFresh ==
    ASSUME NEW g \in Games, NEW s, Unshared(g), FilesAgree(s, last), Quiet(emu, s), s.handle = NULL
    PROVE  /\ s.disk[g].eep = NoFile => s.eeprom = BlankImage
           /\ \A d \in PakIn : s.disk[g].pak[d] = NoFile => s.pak[0] = BlankImage /\ ~s.pwritten[d]
<1>1. /\ s.disk = emu.disk /\ s.eeprom = emu.eeprom /\ s.pak = emu.pak
      /\ \A d \in Pads : s.pwritten[d] => emu.pwritten[d]
  BY DEF Quiet
<1>2. \A d \in PakIn : d \in Pads /\ 0 \in Pads
  BY SavesAssumption
<1>3. CASE emu.eeprom = BlankImage /\ \A d \in Pads : emu.pak[d] = BlankImage /\ ~emu.pwritten[d]
  BY <1>1, <1>2, <1>3
<1>4. CASE \A h \in Games \ {g} : emu.disk[h].eep = NoFile /\ \A d \in Pads : emu.disk[h].pak[d] = NoFile
  <2>1. s.eeprom # BlankImage => \E h \in Games : s.disk[h].eep # NoFile
    BY DEF FilesAgree, EEpromFiles
  <2>2. \A d \in PakIn : (s.pak[0] # BlankImage \/ s.pwritten[d]) =>
                            \E h \in Games : s.disk[h].pak[d] # NoFile
    BY DEF FilesAgree, PakFiles
  <2>3. QED
    BY <1>1, <1>2, <1>4, <2>1, <2>2
<1>5. QED
  BY <1>3, <1>4 DEF Unshared

LEMMA OpenSteps ==
    ASSUME Excused = TRUE, IInv, NEW g \in Games, OpenROM(g)
    PROVE  IInv' /\ FilesStep
<1> DEFINE c == Closed(emu)
           s == [c EXCEPT !.rom = g]
<1>1. Inv(emu, last, synced) /\ Unshared(g) /\ emu' = Prepared(s) /\ synced' = FALSE /\ got' = {}
      /\ last' = last /\ last \in LastType
  BY DEF IInv, OpenROM
<1>2. Inv(c, last, synced) /\ Quiet(emu, c) /\ c.handle = NULL
  BY <1>1, Closes
<1> HIDE DEF c
<1>3. FilesAgree(c, last) /\ c \in EmuType
  BY <1>2, InvFiles DEF Inv
<1>4. /\ s \in EmuType /\ s.rom = g /\ s.disk = c.disk /\ s.eeprom = c.eeprom /\ s.pak = c.pak
      /\ s.pwritten = c.pwritten /\ s.handle = c.handle
  BY <1>3 DEF EmuType
<1> HIDE DEF s
<1>5. FilesAgree(s, last)
  BY <1>3, <1>4 DEF FilesAgree, EEpromFiles, PakFiles
<1>6. Fresh(s)
  BY <1>1, <1>2, <1>3, <1>4, UnsharedFresh DEF Fresh
<1>7. Inv(emu', last, FALSE) /\ emu'.disk = s.disk
  BY <1>1, <1>4, <1>5, <1>6, Starts
<1>8. emu'.disk = emu.disk
  BY <1>2, <1>4, <1>7 DEF Quiet
<1>9. QED
  BY <1>1, <1>7, <1>8, QuietInv, SilentStepFiles

LEMMA PlaySteps ==
    ASSUME IInv, Play
    PROVE  IInv' /\ FilesStep
<1>1. PICK s \in {Stopped(emu), emu} : emu' = Prepared(s)
  BY DEF Play
<1>2. Inv(emu, last, synced) /\ emu.rom # NoGame /\ synced' = FALSE /\ got' = {} /\ last' = last
      /\ last \in LastType
  BY DEF IInv, Play
<1>3. emu.rom \in Games
  BY <1>2 DEF Inv, EmuType
<1>4. Inv(s, last, synced) /\ s.disk = emu.disk /\ s.rom \in Games
  <2>1. Inv(Stopped(emu), last, synced) /\ Quiet(emu, Stopped(emu))
    BY <1>2, IsStopped
  <2>2. QED
    BY <1>1, <1>2, <1>3, <2>1 DEF Quiet
<1>5. FilesAgree(s, last) /\ Fresh(s) /\ s \in EmuType
  BY <1>4, InvFiles DEF Inv
<1>6. Inv(emu', last, FALSE) /\ emu'.disk = emu.disk
  BY <1>1, <1>4, <1>5, Starts
<1>7. QED
  BY <1>2, <1>6, QuietInv, SilentStepFiles

LEMMA StopSteps ==
    ASSUME IInv, Stop
    PROVE  IInv' /\ FilesStep
<1>1. Inv(emu, last, synced) /\ emu.running /\ emu' = AfterStop(emu) /\ synced' = synced /\ got' = {}
      /\ last' = last /\ last \in LastType /\ synced \in BOOLEAN
  BY DEF IInv, Stop
<1>2. Inv(emu', last, synced) /\ emu'.disk = emu.disk
  BY <1>1, Stops DEF Quiet
<1>3. QED
  BY <1>1, <1>2, QuietInv, SilentStepFiles

LEMMA CloseSteps ==
    ASSUME IInv, CloseROM
    PROVE  IInv' /\ FilesStep
<1> DEFINE c == Closed(emu)
<1>1. Inv(emu, last, synced) /\ emu' = [c EXCEPT !.rom = NoGame] /\ synced' = synced /\ got' = {}
      /\ last' = last /\ last \in LastType /\ synced \in BOOLEAN
  BY DEF IInv, CloseROM
<1>2. Inv(c, last, synced) /\ Quiet(emu, c) /\ ~c.running /\ c.handle = NULL
  BY <1>1, Closes
<1> HIDE DEF c
<1>3. /\ emu' \in EmuType /\ emu'.rom \notin Games /\ emu'.disk = c.disk /\ emu'.eeprom = c.eeprom
      /\ emu'.pak = c.pak /\ emu'.pwritten = c.pwritten /\ ~emu'.running /\ emu'.handle = NULL
  BY <1>1, <1>2, ImageFacts DEF Inv, EmuType
<1>4. EEpromInv(emu', last) /\ PakInv(emu', last)
  BY <1>2, <1>3 DEF Inv, EEpromInv, EEpromFiles, PakInv, PakFiles
<1>5. SavInv(emu', last, synced)
  BY <1>2, <1>3 DEF Inv, SavInv, SavFiles, FlashMemory
<1>6. Inv(emu', last, synced) /\ emu'.disk = emu.disk
  BY <1>2, <1>3, <1>4, <1>5 DEF Inv, Quiet
<1>7. QED
  BY <1>1, <1>6, QuietInv, SilentStepFiles

LEMMA ExitSteps ==
    ASSUME IInv, Exit \/ Killed
    PROVE  IInv' /\ FilesStep
<1>1. Inv(emu, last, synced) /\ emu.rom # NoGame /\ synced' = synced /\ got' = {}
      /\ last' = last /\ last \in LastType /\ synced \in BOOLEAN
  BY DEF IInv, Exit, Killed
<1>2. emu.rom \in Games
  BY <1>1 DEF Inv, EmuType
<1>3. emu' = Started(emu.disk)
  <2>1. Inv(Stopped(emu), last, synced) /\ Quiet(emu, Stopped(emu))
    BY <1>1, IsStopped
  <2>2. Quiet(Stopped(emu), Close_iPIF(Stopped(emu)))
    BY <1>2, <2>1, IPIFCloses DEF Quiet
  <2>3. Close_iPIF(Stopped(emu)).disk = emu.disk
    BY <2>1, <2>2 DEF Quiet
  <2>4. QED
    BY <2>3 DEF Exit, Killed
<1>4. Inv(emu', last, synced)
  BY <1>1, <1>3, ProcessStarts
<1>5. emu'.disk = emu.disk
  BY <1>3 DEF Started
<1>6. QED
  BY <1>1, <1>4, <1>5, QuietInv, SilentStepFiles

LEMMA LoadSteps ==
    ASSUME IInv, FileIO_LoadState
    PROVE  IInv' /\ FilesStep
<1>1. PICK image \in StateImages : emu' = [emu EXCEPT !.c2a2 = image]
  BY DEF FileIO_LoadState
<1>2. Inv(emu, last, synced) /\ synced' = FALSE /\ got' = {} /\ last' = last /\ last \in LastType
  BY DEF IInv, FileIO_LoadState
<1>3. image \in Image /\ \A b \in Blocks : emu.disk[emu.rom].sav[b] = NoData => image[b] = Blank
  BY DEF StateImages
<1>4. /\ SavStep(emu, emu') /\ emu'.disk = emu.disk /\ emu'.handle = emu.handle /\ emu'.c2a2 = image
      /\ emu'.first = emu.first /\ emu'.rom = emu.rom /\ emu'.running = emu.running
  BY <1>1, <1>2, <1>3 DEF Inv, SavStep, RunSame, EEpromSame, PakSame, DiskKept, EmuType
<1>5. SavInv(emu', last, FALSE)
  BY <1>2, <1>3, <1>4 DEF Inv, SavInv, SavFiles, FlashMemory, Type
<1>6. Inv(emu', last, FALSE)
  BY <1>2, <1>4, <1>5, SavStepInv
<1>7. QED
  BY <1>2, <1>4, <1>6, QuietInv, SilentStepFiles

LEMMA RemembersSav ==
    ASSUME last \in LastType, NEW g \in Games, NEW b \in Blocks, NEW v \in Data
    PROVE  LET x == [last EXCEPT ![g].sav[b] = v]
           IN  /\ x \in LastType /\ WroteSav(last, x, g, b, v)
               /\ \A h \in Games : x[h].eeprom = last[h].eeprom /\ x[h].pak = last[h].pak
<1> DEFINE f == [last[g].sav EXCEPT ![b] = v]
           r == [last[g] EXCEPT !.sav = f]
           x == [last EXCEPT ![g] = r]
<1>1. last[g] \in [eeprom : Written, pak : [Pads -> Written], sav : Written] /\ last[g].sav \in Written
  BY DEF LastType
<1>2. f \in Written
  BY <1>1 DEF Written
<1>3. x = [last EXCEPT ![g].sav[b] = v]
  OBVIOUS
<1> HIDE DEF f
<1>4. /\ r \in [eeprom : Written, pak : [Pads -> Written], sav : Written]
      /\ r.sav = f /\ r.eeprom = last[g].eeprom /\ r.pak = last[g].pak
  BY <1>1, <1>2
<1> HIDE DEF r
<1>5. x \in LastType /\ x[g] = r /\ \A h \in Games : h # g => x[h] = last[h]
  BY <1>4 DEF LastType
<1> HIDE DEF x
<1>6. WroteSav(last, x, g, b, v)
  BY <1>4, <1>5 DEF WroteSav, f
<1>7. \A h \in Games : x[h].eeprom = last[h].eeprom /\ x[h].pak = last[h].pak
  BY <1>4, <1>5
<1>8. QED
  BY <1>3, <1>5, <1>6, <1>7

LEMMA FlashSteps ==
    ASSUME Excused = TRUE, IInv, FlashCommand
    PROVE  IInv' /\ FilesStep
<1>1. /\ Inv(emu, last, synced) /\ emu.running /\ Type(emu) = "FLASHRAM" /\ synced' = synced
      /\ synced \in BOOLEAN /\ got' = {} /\ last \in LastType /\ emu \in EmuType /\ emu.rom \in Games
      /\ SavInv(emu, last, synced)
  BY DEF IInv, FlashCommand, Inv, SavInv, SavFiles
<1>2. PICK c \in FlashCommands :
        /\ Executes(c) => synced
        /\ emu' = Flashram_Command(emu, c)
        /\ last' = IF Executes(c)
                   THEN [last EXCEPT ![emu.rom].sav[emu.offset] =
                            IF emu.mode = "ERASE" THEN Erased ELSE emu.buffer]
                   ELSE last
  BY DEF FlashCommand, Careful
<1> DEFINE v == IF emu.mode = "ERASE" THEN Erased ELSE emu.buffer
<1>3. v \in Data /\ emu.offset \in Blocks
  BY <1>1, ImageFacts DEF EmuType
<1>4. /\ last' \in LastType
      /\ \A g \in Games : last'[g].eeprom = last[g].eeprom /\ last'[g].pak = last[g].pak
      /\ Executes(c) => WroteSav(last, last', emu.rom, emu.offset, v)
      /\ ~Executes(c) => last' = last
  <2> HIDE DEF v
  <2>1. CASE Executes(c)
    <3>1. last' = [last EXCEPT ![emu.rom].sav[emu.offset] = v]
      BY <1>2, <2>1 DEF v
    <3> DEFINE b == emu.offset
               x == [last EXCEPT ![emu.rom].sav[b] = v]
    <3>2. b \in Blocks /\ v \in Data
      BY <1>3
    <3>3. /\ x \in LastType /\ WroteSav(last, x, emu.rom, b, v)
          /\ \A h \in Games : x[h].eeprom = last[h].eeprom /\ x[h].pak = last[h].pak
      <4> HIDE DEF b
      <4>1. QED
        BY <1>1, <3>2, RemembersSav
    <3> HIDE DEF x
    <3>4. last' = x
      BY <3>1 DEF x
    <3>5. QED
      BY <2>1, <3>3, <3>4
  <2>2. CASE ~Executes(c)
    BY <1>1, <1>2, <2>2
  <2>3. QED
    BY <2>1, <2>2
<1>5. IF c.op = "execute" /\ emu.mode \in {"ERASE", "WRITE"}
      THEN synced /\ WroteSav(last, last', emu.rom, emu.offset, v)
      ELSE last' = last
  BY <1>2, <1>4 DEF Executes
<1>6. SavStep(emu, emu') /\ SavInv(emu', last', synced)
  BY <1>1, <1>2, <1>5, FlashExecutes
<1>7. Inv(emu', last', synced)
  BY <1>1, <1>4, <1>6, SavStepInv
<1>8. GameStep(emu, emu')
  BY <1>6 DEF SavStep, RunSame, GameStep
<1>9. QED
  BY <1>1, <1>4, <1>7, <1>8, QuietInv, GameStepFiles

LEMMA WriteSteps ==
    ASSUME IInv, DRAMToCart
    PROVE  IInv' /\ FilesStep
<1>1. /\ Inv(emu, last, synced) /\ emu.running /\ synced' = (synced \/ Flash(emu))
      /\ synced \in BOOLEAN /\ got' = {} /\ last \in LastType /\ emu \in EmuType /\ emu.rom \in Games
      /\ SavInv(emu, last, synced)
  BY DEF IInv, DRAMToCart, Inv, SavInv, SavFiles
<1>2. PICK b \in Blocks : \E v \in DmaData[emu.rom] :
        /\ emu' = IF Flash(emu) THEN DMA_RDRAM_To_Flashram(emu, v)
                  ELSE FileIO_WriteFLASHRAM(emu, b, v)
        /\ last' = IF Direct(emu) /\ ~Flash(emu) THEN [last EXCEPT ![emu.rom].sav[b] = v] ELSE last
  BY DEF DRAMToCart
<1>3. PICK v \in DmaData[emu.rom] :
        /\ emu' = IF Flash(emu) THEN DMA_RDRAM_To_Flashram(emu, v)
                  ELSE FileIO_WriteFLASHRAM(emu, b, v)
        /\ last' = IF Direct(emu) /\ ~Flash(emu) THEN [last EXCEPT ![emu.rom].sav[b] = v] ELSE last
  BY <1>2
<1>4. v \in Data /\ synced' \in BOOLEAN
  BY <1>1, <1>3, SavesAssumption
<1>5. /\ last' \in LastType
      /\ \A g \in Games : last'[g].eeprom = last[g].eeprom /\ last'[g].pak = last[g].pak
      /\ SavStep(emu, emu') /\ SavInv(emu', last', synced')
  <2>1. CASE Flash(emu)
    <3>1. SavStep(emu, emu') /\ SavInv(emu', last, TRUE)
      BY <1>1, <1>3, <1>4, <2>1, FlashLoads
    <3>2. last' = last /\ synced' = TRUE
      BY <1>1, <1>3, <2>1
    <3>3. QED
      BY <1>1, <3>1, <3>2
  <2>2. CASE ~Flash(emu) /\ Direct(emu)
    <3>1. last' = [last EXCEPT ![emu.rom].sav[b] = v] /\ emu' = FileIO_WriteFLASHRAM(emu, b, v)
          /\ synced' = synced
      BY <1>1, <1>3, <2>2
    <3>2. /\ last' \in LastType /\ WroteSav(last, last', emu.rom, b, v)
          /\ \A h \in Games : last'[h].eeprom = last[h].eeprom /\ last'[h].pak = last[h].pak
      BY <1>1, <1>4, <3>1, RemembersSav
    <3>3. SavStep(emu, emu') /\ SavInv(emu', last', synced)
      BY <1>1, <1>4, <2>2, <3>1, <3>2, SavWritesInPlace
    <3>4. QED
      BY <3>1, <3>2, <3>3
  <2>3. CASE ~Flash(emu) /\ ~Direct(emu)
    <3>1. last' = last /\ emu' = FileIO_WriteFLASHRAM(emu, b, v) /\ synced' = synced
          /\ Type(emu) # "FLASHRAM" /\ SavFiles(emu, last)
      BY <1>1, <1>3, <2>3 DEF Flash, SavInv
    <3>2. /\ SavStep(emu, FileIO_WriteFLASHRAM(emu, b, v))
          /\ SavInv(FileIO_WriteFLASHRAM(emu, b, v), last, synced)
      BY <1>1, <2>3, <3>1, SavWritesAll
    <3>3. QED
      BY <1>1, <3>1, <3>2
  <2>4. QED
    BY <2>1, <2>2, <2>3
<1>6. Inv(emu', last', synced')
  BY <1>1, <1>5, SavStepInv
<1>7. GameStep(emu, emu')
  BY <1>5 DEF SavStep, RunSame, GameStep
<1>8. QED
  BY <1>1, <1>4, <1>5, <1>6, <1>7, QuietInv, GameStepFiles

LEMMA ReadSteps ==
    ASSUME IInv, CartToDRAM
    PROVE  IInv' /\ FilesStep
<1>1. /\ Inv(emu, last, synced) /\ emu.running /\ synced' = (synced \/ ~Direct(emu))
      /\ synced \in BOOLEAN /\ last' = last /\ last \in LastType /\ emu \in EmuType
      /\ emu.rom \in Games /\ SavInv(emu, last, synced)
  BY DEF IInv, CartToDRAM, Inv, SavInv, SavFiles
<1> DEFINE t == FileIO_ReadFLASHRAM(emu)
<1>2. PICK b \in Blocks :
        LET flash == DMA_Flashram_To_RDRAM(emu, b)
            direct == FileIO_ReadFLASHRAM(emu)
            read == IF Flash(emu) THEN flash.read
                    ELSE IF Direct(emu) THEN direct.disk[direct.handle].sav[b] ELSE NoData
        IN  /\ emu' = IF Flash(emu) THEN flash.s ELSE direct
            /\ got' = IF read = NoData THEN {} ELSE {[medium |-> "sav", ch |-> 0, b |-> b, read |-> read]}
  BY DEF CartToDRAM
<1>3. /\ emu' = t
      /\ \A r \in got' : /\ r.medium = "sav" /\ r.b = b /\ r.read # NoData
                         /\ Flash(emu) => r.read = t.c2a2[b]
                         /\ ~Flash(emu) => Direct(emu) /\ r.read = t.disk[t.handle].sav[b]
  <2>1. DMA_Flashram_To_RDRAM(emu, b).s = t
    BY DEF DMA_Flashram_To_RDRAM
  <2>2. DMA_Flashram_To_RDRAM(emu, b).read = IF t.mode = "STATUS" THEN NoData ELSE t.c2a2[b]
    BY DEF DMA_Flashram_To_RDRAM
  <2> HIDE DEF t
  <2> DEFINE read == IF Flash(emu) THEN DMA_Flashram_To_RDRAM(emu, b).read
                     ELSE IF Direct(emu) THEN t.disk[t.handle].sav[b] ELSE NoData
  <2>3. /\ emu' = IF Flash(emu) THEN DMA_Flashram_To_RDRAM(emu, b).s ELSE t
        /\ got' = IF read = NoData THEN {} ELSE {[medium |-> "sav", ch |-> 0, b |-> b, read |-> read]}
    BY <1>2 DEF t
  <2>4. emu' = t
    BY <2>1, <2>3
  <2>5. read # NoData => /\ Flash(emu) => read = t.c2a2[b]
                         /\ ~Flash(emu) => Direct(emu) /\ read = t.disk[t.handle].sav[b]
    BY <2>2
  <2> HIDE DEF read
  <2>6. \A r \in got' : r.medium = "sav" /\ r.b = b /\ r.read = read /\ read # NoData
    BY <2>3
  <2>7. QED
    BY <2>4, <2>5, <2>6
<1>4. /\ SavStep(emu, t) /\ t.disk = emu.disk /\ t.handle = emu.rom
      /\ SavInv(t, last, synced \/ ~Direct(emu))
  BY <1>1, SavReads
<1> HIDE DEF t
<1>5. Inv(emu', last', synced') /\ synced' \in BOOLEAN
  BY <1>1, <1>3, <1>4, SavStepInv
<1>6. /\ GameStep(emu, emu') /\ t.rom = emu.rom /\ t.running
  BY <1>1, <1>3, <1>4 DEF SavStep, RunSame, GameStep
<1>7. ReadBack'
  <2>1. SUFFICES ASSUME NEW r \in got' PROVE ReadsBack(r, last', emu'.rom)
    BY DEF ReadBack, ReadsBack
  <2> DEFINE written == last[emu.rom].sav
  <2>2. r.read # NoData /\ r.b = b /\ r.medium = "sav"
    BY <1>3, <2>1
  <2>3. IF written[b] = Never THEN r.read \in {NoData, Blank} ELSE r.read = written[b]
    <3>1. CASE Flash(emu)
      <4>1. Type(emu) = "FLASHRAM" /\ ~Direct(emu)
        BY <1>1, <3>1 DEF Flash, SavInv, SavFiles, Direct
      <4>2. SavAgrees(t.c2a2, written)
        BY <1>4, <1>6, <4>1 DEF SavInv, FlashMemory, Type
      <4>3. r.read = t.c2a2[b]
        BY <1>3, <2>1, <3>1
      <4>4. QED
        BY <4>2, <4>3 DEF SavAgrees
    <3>2. CASE ~Flash(emu)
      <4>1. Direct(emu) /\ r.read = emu.disk[emu.rom].sav[b]
        BY <1>3, <1>4, <2>1, <3>2
      <4>2. SavAgrees(emu.disk[emu.rom].sav, written)
        BY <1>1, <4>1 DEF Direct, Type, SavInv, SavFiles
      <4>3. QED
        BY <4>1, <4>2 DEF SavAgrees
    <3>3. QED
      BY <3>1, <3>2
  <2>4. emu'.rom = emu.rom
    BY <1>3, <1>6
  <2>5. QED
    BY <1>1, <2>2, <2>3, <2>4 DEF ReadsBack
<1>8. QED
  BY <1>1, <1>5, <1>6, <1>7, GameStepFiles DEF IInv

----------------------------------------------------------------------------
(* All steps *)

LEMMA InitInv == Init => IInv
<1> SUFFICES ASSUME Init PROVE IInv
  OBVIOUS
<1> DEFINE paks == [d \in Pads |-> NoFile]
           sav == [b \in Blocks |-> NoData]
           none == [b \in Blocks |-> Never]
           nones == [d \in Pads |-> none]
           disk == [g \in Games |-> NoFiles]
           mem == [d \in Pads |-> BlankImage]
           unset == [d \in Pads |-> FALSE]
<1>1. /\ paks \in [Pads -> Image \cup {NoFile}] /\ \A d \in Pads : paks[d] = NoFile
      /\ sav \in [Blocks -> Data \cup {NoData}] /\ \A b \in Blocks : sav[b] = NoData
      /\ none \in Written /\ Untouched(none)
      /\ mem \in [Pads -> Image] /\ unset \in [Pads -> BOOLEAN]
      /\ \A d \in Pads : mem[d] = BlankImage /\ ~unset[d]
  BY ImageFacts DEF Written, Untouched
<1>2. NoFiles = [eep |-> NoFile, pak |-> paks, sav |-> sav]
  BY DEF NoFiles
<1> HIDE DEF paks, sav
<1>3. NoFiles \in DiskType /\ NoFiles.eep = NoFile /\ NoFiles.pak = paks /\ NoFiles.sav = sav
  BY <1>1, <1>2 DEF DiskType
<1>4. disk \in [Games -> DiskType] /\ \A g \in Games : disk[g] = NoFiles
  BY <1>3
<1> HIDE DEF disk
<1>5. nones \in [Pads -> Written] /\ \A d \in Pads : nones[d] = none
  BY <1>1
<1>6. last = [g \in Games |-> [eeprom |-> none, pak |-> nones, sav |-> none]]
  BY DEF Init
<1> HIDE DEF none, nones
<1>7. last \in LastType /\ \A g \in Games : /\ last[g].eeprom = none /\ last[g].pak = nones
                                            /\ last[g].sav = none
  BY <1>1, <1>5, <1>6 DEF LastType
<1>8. emu = Started(disk)
  BY DEF Init, disk
<1>9. emu = [rom |-> NoGame, running |-> FALSE, disk |-> disk,
             eeprom |-> BlankImage, eused |-> FALSE, ewritten |-> FALSE,
             pak |-> mem, pused |-> unset, pwritten |-> unset,
             first |-> "NONE", c2a2 |-> BlankImage, handle |-> NULL,
             mode |-> "NOOP", offset |-> 0, buffer |-> Blank]
  BY <1>8 DEF Started
<1> HIDE DEF mem, unset
<1>10. emu \in EmuType
  BY <1>1, <1>4, <1>9, ImageFacts DEF EmuType
<1>11. /\ emu.rom \notin Games /\ ~emu.running /\ emu.handle = NULL /\ emu.disk = disk
       /\ emu.eeprom = BlankImage /\ emu.pak = mem /\ emu.pwritten = unset
  BY <1>9, ImageFacts
<1>12. EEpromInv(emu, last)
  BY <1>1, <1>3, <1>4, <1>7, <1>11 DEF EEpromInv, EEpromFiles, FileAgrees
<1>13. PakInv(emu, last)
  <2>1. \A d \in PakIn : d \in Pads /\ 0 \in Pads
    BY SavesAssumption
  <2>2. \A d \in PakIn : emu.pak[0] = BlankImage /\ ~emu.pwritten[d]
    BY <1>1, <1>11, <2>1
  <2>3. \A g \in Games, d \in Pads : FileAgrees(emu.disk[g].pak[d], last[g].pak[d])
    BY <1>1, <1>3, <1>4, <1>5, <1>7, <1>11 DEF FileAgrees
  <2>4. QED
    BY <1>11, <2>2, <2>3 DEF PakInv, PakFiles
<1>14. SavInv(emu, last, synced)
  <2>1. \A g \in Games : SavAgrees(emu.disk[g].sav, last[g].sav) /\ Untouched(last[g].sav)
    BY <1>1, <1>3, <1>4, <1>7, <1>11 DEF SavAgrees, Untouched
  <2>2. QED
    BY <1>11, <2>1 DEF SavInv, SavFiles, FlashMemory
<1>15. synced \in BOOLEAN /\ ReadBack
  BY DEF Init, ReadBack
<1>16. QED
  BY <1>7, <1>10, <1>12, <1>13, <1>14, <1>15 DEF IInv, Inv

LEMMA StutterSteps ==
    ASSUME IInv, UNCHANGED vars
    PROVE  IInv' /\ FilesStep
<1>1. emu' = emu /\ last' = last /\ synced' = synced /\ got' = got
  BY DEF vars
<1>2. FilesStep
  BY <1>1 DEF FilesStep
<1>3. QED
  BY <1>1, <1>2 DEF IInv, ReadBack

LEMMA NextSteps ==
    ASSUME OnePak, Excused = TRUE, IInv, [Next]_vars
    PROVE  IInv' /\ FilesStep
<1>1. ASSUME NEW g \in Games, OpenROM(g) PROVE IInv' /\ FilesStep
  BY <1>1, OpenSteps
<1>2. CASE Play
  BY <1>2, PlaySteps
<1>3. CASE Stop
  BY <1>3, StopSteps
<1>4. CASE CloseROM
  BY <1>4, CloseSteps
<1>5. CASE Exit \/ Killed
  BY <1>5, ExitSteps
<1>6. CASE FileIO_LoadState
  BY <1>6, LoadSteps
<1>7. CASE Pif
  BY <1>7, PifSteps
<1>8. CASE FlashCommand
  BY <1>8, FlashSteps
<1>9. CASE DRAMToCart
  BY <1>9, WriteSteps
<1>10. CASE CartToDRAM
  BY <1>10, ReadSteps
<1>11. CASE UNCHANGED vars
  BY <1>11, StutterSteps
<1>12. QED
  BY <1>1, <1>2, <1>3, <1>4, <1>5, <1>6, <1>7, <1>8, <1>9, <1>10, <1>11 DEF Next

LEMMA FilesHold ==
    ASSUME NEW s \in EmuType, NEW w, FilesAgree(s, w), NEW g \in Games
    PROVE  /\ Holds(s.disk[g].eep, w[g].eeprom)
           /\ \A d \in Pads : Holds(s.disk[g].pak[d], w[g].pak[d])
           /\ Holds(s.disk[g].sav, w[g].sav)
<1>1. ASSUME NEW file, NEW written, FileAgrees(file, written) PROVE Holds(file, written)
  BY <1>1 DEF FileAgrees, Untouched, Agrees, Holds
<1>2. s.disk[g].sav # NoFile
  <2>1. s.disk[g].sav \in [Blocks -> Data \cup {NoData}]
    BY DEF EmuType, DiskType
  <2>2. DOMAIN NoFile = {}
    BY DEF NoFile
  <2>3. QED
    BY <2>1, <2>2, ImageFacts
<1>3. Holds(s.disk[g].sav, w[g].sav)
  BY <1>2 DEF FilesAgree, SavAgrees, Untouched, Holds
<1>4. QED
  BY <1>1, <1>3 DEF FilesAgree, EEpromFiles, PakFiles

----------------------------------------------------------------------------
(* The theorems.  Each has the hypotheses of the runs that pass: a game has *)
(* one pak, in the first controller (every pak is kept in the memory of the *)
(* first, and Durable fails with two), and the two losses that Careful and  *)
(* Unshared name are left out.                                              *)

\* The memories, the files and what was written to them belong together,
\* whatever games are opened, played, reset, stopped and killed in between.
THEOREM SavesInvariant ==
    ASSUME OnePak, Excused = TRUE
    PROVE  Spec => []IInv
<1>1. Init => IInv
  BY InitInv
<1>2. IInv /\ [Next]_vars => IInv'
  BY NextSteps
<1>3. QED
  BY <1>1, <1>2, PTL DEF Spec

\* What a game has written is in its file at once (FileIO_WriteEEprom,
\* FileIO_WriteMemPak and FileIO_WriteFLASHRAM follow each write), and neither
\* the writing back of Close_iPIF nor another game's run takes it away.
THEOREM WritesAreDurable ==
    ASSUME OnePak, Excused = TRUE
    PROVE  Spec => []Durable
<1>1. IInv => Durable
  <2>1. SUFFICES ASSUME IInv, NEW g \in Games
                 PROVE  /\ Holds(emu.disk[g].eep, last[g].eeprom)
                        /\ \A d \in Pads : Holds(emu.disk[g].pak[d], last[g].pak[d])
                        /\ Holds(emu.disk[g].sav, last[g].sav)
    BY DEF Durable
  <2>2. Inv(emu, last, synced) /\ emu \in EmuType
    BY <2>1 DEF IInv, Inv
  <2>3. FilesAgree(emu, last)
    BY <2>2, InvFiles
  <2>4. QED
    BY <2>1, <2>2, <2>3, FilesHold
<1>2. Spec => []IInv
  BY SavesInvariant
<1>3. QED
  BY <1>1, <1>2, PTL

\* A game reads what it wrote last, whether the memory was loaded from the file
\* in this run (ReadEEprom, ReadControllerPak, FileIO_ReadFLASHRAM) or not.
THEOREM ReadsComeBack ==
    ASSUME OnePak, Excused = TRUE
    PROVE  Spec => []ReadBack
<1>1. IInv => ReadBack
  BY DEF IInv
<1>2. Spec => []IInv
  BY SavesInvariant
<1>3. QED
  BY <1>1, <1>2, PTL

\* No step changes the files of a game that is not the one running before and
\* after it: Close_Save drops the handle before another game opens its own, and
\* what Close_iPIF writes back is what the file holds.
THEOREM OnlyOwnFiles ==
    ASSUME OnePak, Excused = TRUE
    PROVE  Spec => OnlyRunning
<1>1. IInv /\ [Next]_vars => [FilesStep]_vars
  BY NextSteps
<1>2. Spec => []IInv
  BY SavesInvariant
<1>3. Spec => [][FilesStep]_vars
  BY <1>1, <1>2, PTL DEF Spec
<1>4. QED
  BY <1>3 DEF OnlyRunning, FilesStep
=============================================================================
