--------------------------------- MODULE Tlb ----------------------------------
(* The translation lookaside buffer of src/Tlb.c: the entries the game       *)
(* writes, and Direct_TLB_Lookup_Table, the one-step page table that the      *)
(* emulator keeps beside them and that tlbwi and tlbwr bring up to date.      *)
(* An address is a virtual page, a real address a page of memory; the offset  *)
(* within the page is left out.  The micro TLBs only choose which matching    *)
(* entry is found first, so a lookup may find any matching one.               *)
EXTENDS Integers, FiniteSets, Sequences

CONSTANTS
    Last,       \* NTLBENTRIES: the index of the last entry
    Pages,      \* number of virtual pages
    Sizes,      \* pages that one half of an entry maps (PAGEMASK)
    Asids,      \* address space identifiers
    Halves,     \* what the game puts into EntryLo0 and EntryLo1: V bit and frame
    Globals,    \* the G bits that the game's entries use
    Wired,      \* the WIRED register
    Saved,      \* the entries that the save states on disk hold
    MaxNest,    \* faults that may be in service at once
    Unmapped,   \* DUMMYDIRECTTLBVALUE
    Dummy       \* an address of TLBMapErrorAddress

Index == 0 .. Last
Page == 0 .. Pages - 1
Half == [v : BOOLEAN, f : Nat]
Entry == [base : Page, size : Sizes \cup {0}, asid : Asids, g : BOOLEAN, lo0 : Half, lo1 : Half]

ASSUME SizeAssumption ==
    /\ Last \in Nat /\ Pages \in Nat \ {0} /\ Wired \in Index /\ MaxNest \in Nat
    /\ 0 \in Asids /\ Globals \subseteq BOOLEAN /\ Halves \subseteq Half
    /\ \A s \in Sizes : s \in Nat \ {0}
    /\ \A s \in Sizes : Pages % (2 * s) = 0
    /\ Unmapped \notin Nat /\ Dummy \notin Nat \cup {Unmapped}

VARIABLES
    tlb,        \* gMS_TLB
    table,      \* Direct_TLB_Lookup_Table
    hi,         \* ENTRYHI: the page (of a pair) and the ASID
    index,      \* INDEX: the entry, and the bit that says the last probe failed
    newtlb,     \* an entry was written since the last fault
    serving,    \* the loads and stores (dynarec) that wait for a fault's service
    answer,     \* the load or store that has just been translated
    faster      \* trigger_tlb_exception_faster

tlbVars == <<tlb, table, hi, index, newtlb, serving, answer, faster>>

-------------------------------------------------------------------------------
(* Entries.  One that was never written has a mask of 0 and so matches every *)
(* page, with its even half.                                                 *)

Blank == [base |-> 0, size |-> 0, asid |-> 0, g |-> FALSE,
          lo0 |-> [v |-> FALSE, f |-> 0], lo1 |-> [v |-> FALSE, f |-> 0]]

Covers(e, p) == e.size = 0 \/ (e.base <= p /\ p < e.base + 2 * e.size)
Matches(e, p, asid) == Covers(e, p) /\ (e.g \/ e.asid = asid)
HalfOf(e, p) == IF e.size = 0 \/ p < e.base + e.size THEN e.lo0 ELSE e.lo1
Valid(e) == e.lo0.v \/ e.lo1.v

\* The frame is aligned to the size of the half, the pages in it are in order.
Real(e, p) ==
    IF e.size = 0 THEN 0 ELSE HalfOf(e, p).f - (HalfOf(e, p).f % e.size) + (p % e.size)

\* e translates page p for the present ASID.
Hits(e, p, asid) == Matches(e, p, asid) /\ HalfOf(e, p).v

-------------------------------------------------------------------------------
(* Writing an entry *)

\* tlb_write_entry: what the registers write.
Written(size, g, lo0, lo1) ==
    [base |-> hi.page - (hi.page % (2 * size)), size |-> size, asid |-> hi.asid,
     g |-> g, lo0 |-> lo0, lo1 |-> lo1]

\* Mutant of Built: the odd half is forgotten.
BuiltEven(t, e) ==
    [p \in Page |-> IF e.g /\ e.base <= p /\ p < e.base + e.size /\ e.lo0.v THEN Real(e, p) ELSE t[p]]

\* Build_Direct_TLB_Lookup_Table: enter the valid halves of a global entry into
\* the table, or clear them.
Built(t, e) ==
    [p \in Page |-> IF e.g /\ Covers(e, p) /\ HalfOf(e, p).v THEN Real(e, p) ELSE t[p]]

\* Mutant of Cleared: the odd half is forgotten.
ClearedEven(t, e) ==
    [p \in Page |-> IF e.g /\ e.base <= p /\ p < e.base + e.size /\ e.lo0.v THEN Unmapped ELSE t[p]]

Cleared(t, e) ==
    [p \in Page |-> IF e.g /\ Covers(e, p) /\ HalfOf(e, p).v THEN Unmapped ELSE t[p]]

\* Mutants of Refreshed: the old entry is not cleared, or cleared too late.
RefreshedOver(old, new) ==
    IF old = new \/ ~(Valid(old) \/ Valid(new)) THEN table
    ELSE IF ~Valid(old) THEN Built(table, new)
    ELSE IF ~Valid(new) THEN Cleared(table, old)
    ELSE Built(table, new)
RefreshedLate(old, new) ==
    IF old = new \/ ~(Valid(old) \/ Valid(new)) THEN table
    ELSE IF ~Valid(old) THEN Built(table, new)
    ELSE IF ~Valid(new) THEN Cleared(table, old)
    ELSE Cleared(Built(table, new), old)

\* Refresh_Direct_TLB_Lookup_Table: the five cases of old and new entry.
Refreshed(old, new) ==
    IF old = new \/ ~(Valid(old) \/ Valid(new)) THEN table
    ELSE IF ~Valid(old) THEN Built(table, new)
    ELSE IF ~Valid(new) THEN Cleared(table, old)
    ELSE Built(Cleared(table, old), new)

Refresh(i, new) ==
    /\ tlb' = [tlb EXCEPT ![i] = new]
    /\ table' = Refreshed(tlb[i], new)
    /\ newtlb' = TRUE
    /\ answer' = Unmapped

\* The architecture leaves open what two entries for one page do: the game
\* keeps its valid entries apart.
Apart(e, d) ==
    e.base + 2 * e.size <= d.base \/ d.base + 2 * d.size <= e.base
Free(i, new) ==
    Valid(new) => \A j \in Index \ {i} : Valid(tlb[j]) => Apart(new, tlb[j])

\* tlbwi and tlbwr, with what mtc0 has put in PAGEMASK, ENTRYLO0 and ENTRYLO1.
Tlbwi ==
    /\ \E size \in Sizes, g \in Globals, lo0, lo1 \in Halves :
          LET new == Written(size, g, lo0, lo1)
          IN  Free(index.i, new) /\ Refresh(index.i, new)
    /\ UNCHANGED <<hi, index, serving, faster>>

\* RANDOM is COUNT within the entries that are not wired; when that entry is
\* valid the first one that is not is taken instead.
First(S) == {i \in S : \A j \in S : i <= j}
Vacant == {i \in Wired .. Last : ~Valid(tlb[i])}
Victim(i) == IF Valid(tlb[i]) /\ Vacant # {} THEN First(Vacant) ELSE {i}

Tlbwr ==
    /\ \E i \in Wired .. Last, size \in Sizes, g \in Globals, lo0, lo1 \in Halves :
          LET new == Written(size, g, lo0, lo1)
          IN  \E v \in Victim(i) : Free(v, new) /\ Refresh(v, new)
    /\ UNCHANGED <<hi, index, serving, faster>>

-------------------------------------------------------------------------------
(* The other instructions *)

Mtc0Hi ==
    /\ \E p \in Page, asid \in Asids :
          p % 2 = 0 /\ hi' = [page |-> p, asid |-> asid]
    /\ answer' = Unmapped
    /\ UNCHANGED <<tlb, table, index, newtlb, serving, faster>>

Mtc0Index ==
    /\ \E i \in Index : index' = [i |-> i, miss |-> FALSE]
    /\ answer' = Unmapped
    /\ UNCHANGED <<tlb, table, hi, newtlb, serving, faster>>

\* tlbp compares page pairs under the entry's own mask, takes the first match,
\* and looks at no V bit.
Probed == {i \in Index : Matches(tlb[i], hi.page, hi.asid)}

Tlbp ==
    /\ IF Probed = {} THEN index' = [index EXCEPT !.miss = TRUE]
       ELSE \E i \in First(Probed) : index' = [i |-> i, miss |-> FALSE]
    /\ answer' = Unmapped
    /\ UNCHANGED <<tlb, table, hi, newtlb, serving, faster>>

\* tlbr also loads PAGEMASK, ENTRYLO0 and ENTRYLO1.
Tlbr ==
    /\ hi' = [page |-> tlb[index.i].base, asid |-> tlb[index.i].asid]
    /\ answer' = Unmapped
    /\ UNCHANGED <<tlb, table, index, newtlb, serving, faster>>

-------------------------------------------------------------------------------
(* Lookups *)

\* TranslateTLBAddress: what the entries say of p.
Hitting(p) == {i \in Index : Hits(tlb[i], p, hi.asid)}

\* The page p is translated to a; the instruction goes on.
Answer(p, a, rest) ==
    /\ answer' = [page |-> p, real |-> a]
    /\ serving' = rest

\* Trigger_TLB_Refill_Exception and Trigger_TLB_Invalid_Exception.  A load or
\* store of a compiled block waits for the service; the interpreter and a fetch
\* start again at the vector.
Fault(p, rest) ==
    /\ hi' = [hi EXCEPT !.page = p - (p % 2)]
    /\ newtlb' = FALSE
    /\ Len(rest) < MaxNest
    /\ serving' \in {rest, Append(rest, p)}
    /\ answer' = Unmapped
    /\ UNCHANGED <<tlb, table, index, faster>>

\* TranslateTLBAddress: a hit is entered into the table, whether global or not.
Search(p, rest) ==
    \/ \E i \in Hitting(p) :
          /\ table' = [table EXCEPT ![p] = Real(tlb[i], p)]
          /\ Answer(p, Real(tlb[i], p), rest)
          /\ UNCHANGED <<tlb, hi, index, newtlb, faster>>
    \/ Hitting(p) = {} /\ Fault(p, rest)

\* Direct_TLB_Lookup, for a load, a store or a fetch.
LookUp(p) ==
    IF table[p] # Unmapped
    THEN Answer(p, table[p], serving) /\ UNCHANGED <<tlb, table, hi, index, newtlb, faster>>
    ELSE IF faster THEN Fault(p, serving) ELSE Search(p, serving)

Access == \E p \in Page : LookUp(p)

\* RedoTLBLookupAfterException, when the service wrote no entry; an address that
\* is still not mapped is answered from TLBMapErrorAddress.
Redo(p, rest) ==
    /\ \/ \E i \in Hitting(p) : Answer(p, Real(tlb[i], p), rest)
       \/ Hitting(p) = {} /\ Answer(p, Dummy, rest)
    /\ UNCHANGED <<tlb, table, hi, index, newtlb, faster>>

\* The service of the innermost fault returns to the access that waits.
ServiceDone ==
    /\ serving # <<>>
    /\ LET p == serving[Len(serving)]
           rest == SubSeq(serving, 1, Len(serving) - 1)
       IN  IF newtlb THEN Search(p, rest) ELSE Redo(p, rest)

-------------------------------------------------------------------------------
(* FileIO_gzLoadStateFile: InitTLB, the saved entries, and then              *)
(* Build_Whole_Direct_TLB_Lookup_Table.                                      *)

\* The entries are built in order, so the last one that maps a page stays.
Mapping(s, p) == {i \in Index : s[i].g /\ Covers(s[i], p) /\ HalfOf(s[i], p).v}
Whole(s) ==
    [p \in Page |-> IF Mapping(s, p) = {} THEN Unmapped
                    ELSE Real(s[CHOOSE i \in Mapping(s, p) : \A j \in Mapping(s, p) : j <= i], p)]

\* A save holds what the game had written when it was made.
ASSUME SavedAssumption ==
    \A s \in Saved :
        /\ s \in [Index -> Entry]
        /\ \A i \in Index : Valid(s[i]) => s[i].size # 0 /\ s[i].g \in Globals
        /\ \A i, j \in Index : i # j /\ Valid(s[i]) /\ Valid(s[j]) => Apart(s[i], s[j])

LoadState ==
    /\ serving = <<>>
    /\ \E s \in Saved : tlb' = s /\ table' = Whole(s)
    /\ answer' = Unmapped
    /\ UNCHANGED <<hi, index, newtlb, serving, faster>>

\* InitTLB: no entry was written; faster is on for two games (InitTLBOther).
TlbInit ==
    /\ tlb = [i \in Index |-> Blank]
    /\ table = [p \in Page |-> Unmapped]
    /\ hi = [page |-> 0, asid |-> 0]
    /\ index = [i |-> 0, miss |-> FALSE]
    /\ newtlb = FALSE
    /\ serving = <<>>
    /\ answer = Unmapped
    /\ faster \in BOOLEAN

TlbNext == Tlbwi \/ Tlbwr \/ Mtc0Hi \/ Mtc0Index \/ Tlbp \/ Tlbr \/ Access \/ ServiceDone \/ LoadState

TlbSpec == TlbInit /\ [][TlbNext]_tlbVars

-------------------------------------------------------------------------------
(* Properties *)

\* The variables have the shape of the C state: the entries and the table are
\* total, the index stays within the buffer whatever tlbp found, and no more
\* faults are in service than the C stack is given here.
TlbTypeOK ==
    /\ tlb \in [Index -> Entry]
    /\ table \in [Page -> Nat \cup {Unmapped}]
    /\ hi \in [page : Page, asid : Asids]
    /\ index \in [i : Index, miss : BOOLEAN]
    /\ newtlb \in BOOLEAN /\ faster \in BOOLEAN
    /\ serving \in Seq(Page) /\ Len(serving) <= MaxNest
    /\ answer \in {Unmapped} \cup [page : Page, real : Nat \cup {Dummy}]

\* A page that the table maps is one that an entry of the buffer maps, for the
\* present ASID, to that real page: no change of an entry or of ENTRYHI leaves
\* a mapping behind (Tlb.c:957 "by looking up in the TLB table").
TableSound ==
    \A p \in Page :
        table[p] # Unmapped => \E i \in Hitting(p) : Real(tlb[i], p) = table[p]

\* Every page that an entry maps is in the table: the faster games, for which
\* a page missing there is a refill exception without a search, see no
\* exception for a page that is mapped.
TableComplete ==
    \A p \in Page : \A i \in Hitting(p) : table[p] = Real(tlb[i], p)

\* A load or store that waited for its fault's service is answered, whichever
\* of the two ways back it takes and whatever nested faults came between, as
\* the entries of the moment say; with the dummy address only if none maps it.
AnswerRight ==
    answer # Unmapped =>
        IF answer.real = Dummy THEN Hitting(answer.page) = {}
        ELSE \E i \in Hitting(answer.page) : Real(tlb[i], answer.page) = answer.real

\* A TLB exception is only raised for a page that no entry maps.
FaultJustified ==
    [][ (Len(serving') > Len(serving)) =>
            Hitting(serving'[Len(serving')]) = {} ]_tlbVars
===============================================================================
