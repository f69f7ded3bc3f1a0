--------------------------------- MODULE Blocks ---------------------------------
(***************************************************************************)
(* The compiled blocks of the dynamic recompiler (compiler.c): how they    *)
(* are compiled, looked up, linked and checked, and what a store, a DMA    *)
(* and a full code buffer do to them.                                      *)
(*                                                                         *)
(* Code is a set of words on pages; a word of RDRAM holds one of a few     *)
(* versions.  A block remembers the versions it was compiled from, so that *)
(* a stale block can be told from a fresh one.                             *)
(***************************************************************************)
EXTENDS Naturals, FiniteSets, Sequences

CONSTANTS
    Top,        \* the last word
    PageWords,  \* words of a 4KB page
    Branches,   \* the words that hold a branch; the slot is the next word
    Likely,     \* the branches that may fall through (bne, beq ...)
    Target,     \* Target[b]: where a branch goes
    Versions,   \* what a word may hold
    Capacity,   \* blocks the code buffer holds
    Methods,    \* the Code_Check methods (rom option)
    Links,      \* the values of Link_4KB_Blocks
    Changing,   \* the words that are overwritten (a bound)
    DmaStarts,  \* where a transfer may begin
    Dummy,      \* DUMMYOPCODE (0xEEEEEEEE), what RDRAM_Copy is filled with
    None

Words == 0..Top
PageOf(w) == w \div PageWords
Slot(b) == b + 1

ASSUME WordsAssumption ==
    /\ Top \in Nat /\ PageWords \in Nat \ {0}
    /\ Branches \subseteq 0..(Top - 1)
    /\ Likely \subseteq Branches
    /\ Target \in [Branches -> Words]
    /\ Dummy \notin Versions
    /\ Links \subseteq BOOLEAN
    /\ Changing \subseteq Words /\ DmaStarts \subseteq Words
    /\ None \notin Words \X (Nat \ {0})

\* CODE_CHECK_*: the methods the rom options choose from
ASSUME MethodsAssumption ==
    Methods \subseteq {"NONE", "DWORD", "QWORD", "QWORD_DMA", "BLOCK", "BLOCK_DMA",
                       "DMA", "PROTECT"}

\* No branch is in the last word of its page, with the slot on the next.
SlotsOnPage == \A b \in Branches : PageOf(Slot(b)) = PageOf(b)

VARIABLES
    ram,        \* gMS_RDRAM
    copy,       \* RDRAM_Copy
    guarded,    \* pages whose stores go through write_mem_protected
    code,       \* code[s]: the blocks compiled at s since the buffer was emptied
    lookup,     \* sDYN_PC_LOOKUP[s]: the index in code[s] of the current one, or 0
    used,       \* blocks in the buffer (lCodePosition)
    pc,         \* gHWS_pc
    running,    \* the block in execution: <<s, index>>, or None in the main loop
    method,     \* currentromoptions.Code_Check
    link        \* currentromoptions.Link_4KB_Blocks

options == <<method, link>>
vars == <<ram, copy, guarded, code, lookup, used, pc, running, method, link>>

Protect == method = "PROTECT"
ByDma == method \in {"DMA", "QWORD_DMA", "BLOCK_DMA"}

-----------------------------------------------------------------------------
(* The words a block that starts at s is compiled from: up to the slot of  *)
(* its first branch; with protected pages, up to the end of the page, or   *)
(* the slot of a branch on it, wherever that lies.                         *)
Ahead(s) == {b \in Branches : s <= b}
First(s) == {b \in Ahead(s) : \A c \in Ahead(s) : b <= c}
OnPage(s) == {b \in Ahead(s) : PageOf(b) = PageOf(s)}
BreaksOut(s) == Protect /\ OnPage(s) = {}

Body(s) ==
    {w \in Words :
        /\ s <= w
        /\ \A b \in Ahead(s) : w <= Slot(b)
        /\ Protect => PageOf(w) = PageOf(s) \/ \E b \in OnPage(s) : w = Slot(b)}

(* Where it leaves to: the target, or the slot, which opens the next block *)
(* when the branch falls through; the next page when it breaks out; code   *)
(* with no branch ahead ends in a jump back to the first word.             *)
Exits(s) ==
    IF BreaksOut(s) THEN {w \in Words : PageOf(w) = PageOf(s) + 1 /\ w % PageWords = 0}
    ELSE IF Ahead(s) = {} THEN {0}
    ELSE {Target[b] : b \in First(s)} \cup {Slot(b) : b \in First(s) \cap Likely}

\* SET_TARGET_1_LINK, SET_TARGET_2_LINK: only within the page of the branch.
Linked(s) ==
    IF ~link \/ BreaksOut(s) THEN {}
    ELSE {t \in Exits(s) : \E b \in First(s) : PageOf(t) = PageOf(b)}

Current(s) == code[s][lookup[s]]
Compiled == {s \in Words : lookup[s] # 0}

-----------------------------------------------------------------------------
(* The checks made before a block is entered.  Each yields the lookup and  *)
(* the copy it leaves, and whether the block may be used.                  *)
Stale(w) == copy[w] # ram[w]

Passed == [lookup |-> lookup, copy |-> copy, ok |-> TRUE]

\* The words in gone lose their block, and the copy is brought up to date.
Failed(gone, seen) ==
    [lookup |-> [w \in Words |-> IF w \in gone THEN 0 ELSE lookup[w]],
     copy |-> [w \in Words |-> IF w \in seen THEN ram[w] ELSE copy[w]],
     ok |-> FALSE]

CheckDWORD == IF Stale(pc) THEN Failed({}, {pc}) ELSE Passed

CheckQWORD ==
    IF Stale(pc) THEN Failed({pc}, {pc})
    ELSE IF pc < Top /\ Stale(pc + 1) THEN Failed({pc + 1}, {pc + 1})
    ELSE Passed

CheckBLOCK ==
    LET stale == {w \in DOMAIN Current(pc).text : Stale(w)}
        rest == {w \in DOMAIN Current(pc).text : \E v \in stale : v <= w}
    IN  IF stale = {} THEN Passed ELSE Failed(rest, rest)

\* g_pc_is_rdram is the offset in RDRAM: at its first word it reads as "no".
Dyna_Check_Codes ==
    CASE pc = 0 -> Passed
      [] pc # 0 /\ method = "DWORD" -> CheckDWORD
      [] pc # 0 /\ method \in {"QWORD", "QWORD_DMA"} -> CheckQWORD
      [] pc # 0 /\ method \in {"BLOCK", "BLOCK_DMA"} -> CheckBLOCK
      [] OTHER -> Passed

-----------------------------------------------------------------------------
(* Compiling.                                                              *)

\* Dyna_Compile_4KB_Block: the block at s and, through the links, all that
\* have no block yet; the least set that the links do not lead out of.
Leads(known) == UNION {{x} \X (Linked(x) \ known) : x \in Words}

\* Mutant of Closed: the links are not followed.
ClosedAlone(found, leads) == leads = leads

Closed(found, leads) == \A p \in leads : p[1] \in found => p[2] \in found
Wanted(known, s) ==
    LET leads == Leads(known)
    IN  {x \in Words : \A found \in SUBSET Words : s \in found /\ Closed(found, leads) => x \in found}

\* IsBlockCompiled stops the 4KB compiler, the single compiler always compiles.
ToCompile(known, s) == IF link THEN Wanted(known, s) ELSE {s}

Indices(old, found) ==
    [s \in Words |-> IF s \in found THEN Len(code[s]) + 1 ELSE old[s]]

NewBlock(index, s) ==
    [text |-> [w \in Body(s) |-> ram[w]], next |-> [t \in Linked(s) |-> index[t]]]

\* Mutant of Fetched: the blocks that start at the words stay in the table.
FetchedKept(table, words) == table

\* DynaFetchInstruction copies each word it reads, protects its page and,
\* unless blocks are linked, takes away the block that starts there.
Fetched(table, words) == [w \in Words |-> IF ~link /\ w \in words THEN 0 ELSE table[w]]
ProtectBlocks(words) == IF Protect THEN guarded \cup {PageOf(w) : w \in words} ELSE guarded

Compile(checked) ==
    LET found == ToCompile({s \in Words : checked.lookup[s] # 0}, pc)
        fetched == UNION {Body(s) : s \in found}
        index == Indices(Fetched(checked.lookup, fetched), found)
    IN  /\ used + Cardinality(found) <= Capacity
        /\ used' = used + Cardinality(found)
        /\ code' = [s \in Words |-> IF s \in found THEN Append(code[s], NewBlock(index, s))
                                    ELSE code[s]]
        /\ lookup' = index
        /\ copy' = [w \in Words |-> IF w \in fetched THEN ram[w] ELSE checked.copy[w]]
        /\ guarded' = ProtectBlocks(fetched)
        /\ running' = <<pc, index[pc]>>

Full(checked) ==
    used + Cardinality(ToCompile({s \in Words : checked.lookup[s] # 0}, pc)) > Capacity

\* The buffer overruns: Init_Dynarec empties it with the lookup and the copy,
\* and the block is compiled again; what was protected stays so.
CompileAfresh ==
    LET found == ToCompile({}, pc)
        fetched == UNION {Body(s) : s \in found}
        index == [s \in Words |-> IF s \in found THEN 1 ELSE 0]
    IN  /\ used' = Cardinality(found)
        /\ code' = [s \in Words |-> IF s \in found THEN <<NewBlock(index, s)>> ELSE <<>>]
        /\ lookup' = index
        /\ copy' = [w \in Words |-> IF w \in fetched THEN ram[w] ELSE Dummy]
        /\ guarded' = ProtectBlocks(fetched)
        /\ running' = <<pc, index[pc]>>

-----------------------------------------------------------------------------
(* RunTheRegCache...: look up the block at pc, check it, compile it if      *)
(* need be, and call it.                                                    *)
Checked == IF lookup[pc] = 0 THEN [Passed EXCEPT !.ok = FALSE] ELSE Dyna_Check_Codes

EnterFound ==
    /\ running = None
    /\ Checked.ok
    /\ running' = <<pc, lookup[pc]>>
    /\ UNCHANGED <<ram, copy, guarded, code, lookup, used, pc, options>>

\* A linked block that failed the check but kept its lookup is not compiled
\* again: the 4KB compiler finds and returns it.
EnterKept ==
    /\ running = None
    /\ ~Checked.ok /\ link /\ Checked.lookup[pc] # 0
    /\ lookup' = Checked.lookup /\ copy' = Checked.copy
    /\ running' = <<pc, lookup'[pc]>>
    /\ UNCHANGED <<ram, guarded, code, used, pc, options>>

EnterCompiled ==
    /\ running = None
    /\ ~Checked.ok
    /\ link => Checked.lookup[pc] = 0
    /\ IF Full(Checked) THEN CompileAfresh ELSE Compile(Checked)
    /\ UNCHANGED <<ram, pc, options>>

Enter == EnterFound \/ EnterKept \/ EnterCompiled

\* The end of a block: a linked exit is taken while the countdown lasts.
JumpLinked ==
    /\ running # None
    /\ LET b == code[running[1]][running[2]]
       IN  \E t \in DOMAIN b.next : running' = <<t, b.next[t]>>
    /\ UNCHANGED <<ram, copy, guarded, code, lookup, used, pc, options>>

Return ==
    /\ running # None
    /\ \E t \in Exits(running[1]) : pc' = t
    /\ running' = None
    /\ UNCHANGED <<ram, copy, guarded, code, lookup, used, options>>

-----------------------------------------------------------------------------

\* Mutant of Without: the last word of the page is forgotten.
WithoutLast(pages) ==
    [s \in Words |-> IF PageOf(s) \in pages /\ PageOf(s + 1) = PageOf(s) THEN 0 ELSE lookup[s]]

Without(pages) == [s \in Words |-> IF PageOf(s) \in pages THEN 0 ELSE lookup[s]]

\* A store of the running block; write_mem_protected when the page is guarded.
Store ==
    /\ running # None
    /\ \E w \in Changing, v \in Versions :
        /\ ram' = [ram EXCEPT ![w] = v]
        /\ IF PageOf(w) \in guarded /\ copy[w] # Dummy
           THEN /\ copy' = [copy EXCEPT ![w] = Dummy]
                /\ lookup' = Without({PageOf(w)})           \* InvalidateOneBlock
                /\ guarded' = guarded \ {PageOf(w)}
           ELSE UNCHANGED <<copy, lookup, guarded>>
    /\ UNCHANGED <<code, used, pc, running, options>>

\* Check_And_Invalidate_Compiled_Blocks_By_DMA: nothing when the transfer
\* begins at the first word of RDRAM (startaddr <= 0x80000000).
Invalidated(range, from) ==
    IF Protect /\ from > 0 THEN {PageOf(w) : w \in {x \in range : copy[x] # Dummy}} ELSE {}

\* A PI or SI transfer into RDRAM, between blocks or out of a store.  With the
\* DMA methods the words that were compiled lose the block that starts there.
Dma ==
    \E from \in DmaStarts, to \in Words, v \in Versions :
        LET range == from..to
            pages == Invalidated(range, from)
        IN  /\ range # {}
            /\ ram' = [w \in Words |-> IF w \in range \cap Changing THEN v ELSE ram[w]]
            /\ guarded' = guarded \ pages
            /\ lookup' = [s \in Words |->
                            IF \/ PageOf(s) \in pages
                               \/ ByDma /\ s \in range /\ copy[s] # Dummy
                            THEN 0 ELSE lookup[s]]
            /\ UNCHANGED <<copy, code, used, pc, running, options>>

-----------------------------------------------------------------------------
Init ==
    /\ \E v \in Versions : ram = [w \in Words |-> v]
    /\ copy = [w \in Words |-> Dummy]
    /\ guarded = {}
    /\ code = [s \in Words |-> <<>>]
    /\ lookup = [s \in Words |-> 0]
    /\ used = 0
    /\ pc = 0
    /\ running = None
    /\ method \in Methods
    /\ link \in Links

Next == Enter \/ JumpLinked \/ Return \/ Store \/ Dma
Spec == Init /\ [][Next]_vars

-----------------------------------------------------------------------------
(* The parts keep to their ranges: a block in the table exists, the copy    *)
(* holds a version or the dummy opcode, the buffer is never over its size.  *)
Block(s) == [text : [Body(s) -> Versions], next : [Linked(s) -> Nat \ {0}]]
TypeOK ==
    /\ ram \in [Words -> Versions]
    /\ copy \in [Words -> Versions \cup {Dummy}]
    /\ guarded \subseteq {PageOf(w) : w \in Words}
    /\ \A s \in Words : code[s] \in Seq(Block(s)) /\ lookup[s] \in 0..Len(code[s])
    /\ used \in 0..Capacity
    /\ pc \in Words
    /\ running # None => /\ running[1] \in Words
                         /\ running[2] \in 1..Len(code[running[1]])

Fresh(b) == \A w \in DOMAIN b.text : b.text[w] = ram[w]

(* With protected pages, every block the main loop can find was compiled    *)
(* from what its words hold now: a store or a transfer into any word of it, *)
(* whichever block that word was fetched for, has taken it out of the       *)
(* table (write_mem_protected, Check_And_Invalidate_Compiled_Blocks_By_DMA).*)
LookupFresh == Protect => \A s \in Compiled : Fresh(Current(s))

(* A linked exit always leads into a block (the JMP the compiler leaves     *)
(* open is always filled in), and, with protected pages, the links of a     *)
(* block that can be found lead to blocks that can be found: dropping a     *)
(* page never leaves a way from a live block into a dropped one.            *)
LinksLive ==
    /\ \A s \in Words : \A i \in DOMAIN code[s] : \A t \in DOMAIN code[s][i].next :
            code[s][i].next[t] \in DOMAIN code[t]
    /\ Protect => \A s \in Compiled : \A t \in DOMAIN Current(s).next :
            Current(s).next[t] = lookup[t]

(* A check that compares words of RDRAM with its copy never lets a block in *)
(* whose first word has changed since it was compiled, whatever blocks that *)
(* cover the same word were compiled, checked or dropped in between. (Blocks*)
(* are not linked, and the block is not at the first word of RDRAM.)        *)
EntryFresh ==
    [][Enter /\ ~link /\ pc # 0 /\ method \notin {"NONE", "DMA", "PROTECT"}
        => code'[running'[1]][running'[2]].text[pc] = ram[pc]]_vars
===============================================================================
