------------------------------ MODULE BlocksProofs ------------------------------
(***************************************************************************)
(* What is proved of the compiled blocks, for every layout of branches,    *)
(* size of page and of buffer, and set of methods.                         *)
(***************************************************************************)
EXTENDS Blocks, TLAPS

AnyBlock == [text : UNION {[S -> Versions] : S \in SUBSET Words},
             next : UNION {[S -> Nat] : S \in SUBSET Words}]

\* The table and the blocks in the buffer fit each other.
Typed ==
    /\ ram \in [Words -> Versions]
    /\ copy \in [Words -> Versions \cup {Dummy}]
    /\ code \in [Words -> Seq(AnyBlock)]
    /\ lookup \in [Words -> Nat]
    /\ pc \in Words

InTable == \A s \in Words : lookup[s] <= Len(code[s])

Shape == \A s \in Words : \A i \in 1..Len(code[s]) :
    /\ DOMAIN code[s][i].text = Body(s)
    /\ DOMAIN code[s][i].next = Linked(s)
    /\ \A t \in Linked(s) : code[s][i].next[t] \in 1..Len(code[t])

Live == Protect => \A s \in Words : lookup[s] # 0 =>
            \A t \in Linked(s) : Current(s).next[t] = lookup[t]

LinkInv == Typed /\ InTable /\ Shape /\ Live

\* What keeps the blocks of the table fresh: their words are on one guarded
\* page, and the copy tells that they were fetched.
Kept == Protect => \A s \in Words : lookup[s] # 0 => \A w \in Body(s) :
            /\ Current(s).text[w] = ram[w]
            /\ copy[w] = ram[w]
            /\ PageOf(w) = PageOf(s) /\ PageOf(s) \in guarded

-----------------------------------------------------------------------------
LEMMA ExitsInWords == ASSUME NEW s \in Words PROVE Exits(s) \subseteq Words
<1>1. 0 \in Words
    BY WordsAssumption DEF Words
<1>2. \A b \in Branches : Target[b] \in Words /\ Slot(b) \in Words
    BY WordsAssumption DEF Words, Slot
<1> QED BY <1>1, <1>2 DEF Exits, First, Ahead

LEMMA LinkedInWords == ASSUME NEW s \in Words PROVE Linked(s) \subseteq Words
    BY ExitsInWords DEF Linked

LEMMA PageMonotone ==
    ASSUME NEW v \in Words, NEW w \in Words, v <= w
    PROVE  PageOf(v) <= PageOf(w)
    BY WordsAssumption DEF Words, PageOf

LEMMA BranchesInWords == Branches \subseteq Words /\ Words \subseteq Nat
    BY WordsAssumption DEF Words

\* A protected block and its links are on one page.
LEMMA LinkedOnPage ==
    ASSUME Protect, NEW s \in Words, NEW t \in Linked(s)
    PROVE  PageOf(t) = PageOf(s)
<1>1. ~BreaksOut(s) /\ link
    BY DEF Linked
<1>2. PICK b \in First(s) : PageOf(t) = PageOf(b)
    BY <1>1 DEF Linked
<1>3. PICK c \in Ahead(s) : PageOf(c) = PageOf(s)
    BY <1>1 DEF BreaksOut, OnPage
<1>4. b \in Words /\ c \in Words /\ s <= b /\ b <= c
    BY <1>2, <1>3, BranchesInWords DEF First, Ahead
<1>5. PageOf(s) <= PageOf(b) /\ PageOf(b) <= PageOf(c)
    BY <1>4, PageMonotone
<1>6. PageOf(s) \in Nat /\ PageOf(b) \in Nat
    BY <1>4, WordsAssumption DEF Words, PageOf
<1> QED BY <1>2, <1>3, <1>5, <1>6

\* With no slot across pages the words of a protected block are on its page.
LEMMA BodyOnPage ==
    ASSUME SlotsOnPage, Protect, NEW s \in Words, NEW w \in Body(s)
    PROVE  PageOf(w) = PageOf(s)
    BY DEF Body, OnPage, SlotsOnPage, Ahead

-----------------------------------------------------------------------------
(* The set of blocks the 4KB compiler makes.                               *)
LEMMA WantedHas == ASSUME NEW known, NEW s \in Words PROVE s \in Wanted(known, s)
    BY DEF Wanted

LEMMA WantedClosed ==
    ASSUME NEW known, NEW s \in Words, NEW x \in Wanted(known, s), NEW t \in Linked(x), t \notin known
    PROVE  t \in Wanted(known, s)
<1>1. x \in Words
    BY DEF Wanted
<1>2. t \in Words
    BY <1>1, LinkedInWords
<1>3. <<x, t>> \in Leads(known)
    BY <1>1 DEF Leads
<1>4. ASSUME NEW found \in SUBSET Words, s \in found, Closed(found, Leads(known))
      PROVE  t \in found
  <2>1. x \in found
    BY <1>4 DEF Wanted
  <2>2. <<x, t>>[1] \in found => <<x, t>>[2] \in found
    BY <1>3, <1>4 DEF Closed
  <2> QED BY <2>1, <2>2
<1> QED BY <1>2, <1>4 DEF Wanted

LEMMA WantedNew ==
    ASSUME NEW known, NEW s \in Words, s \notin known
    PROVE  Wanted(known, s) \cap known = {}
<1> DEFINE new == Words \ known
<1>1. Closed(new, Leads(known))
  <2> SUFFICES ASSUME NEW p \in Leads(known), p[1] \in new PROVE p[2] \in new
    BY DEF Closed
  <2>1. PICK x \in Words : p \in {x} \X (Linked(x) \ known)
    BY DEF Leads
  <2>2. p[2] \in Linked(x) \ known
    BY <2>1
  <2> QED BY <2>2, LinkedInWords
<1>2. new \in SUBSET Words /\ s \in new
    OBVIOUS
<1>3. \A x \in Wanted(known, s) : x \in new
    BY <1>1, <1>2 DEF Wanted
<1> QED BY <1>3

LEMMA ToCompileFacts ==
    ASSUME NEW known, NEW s \in Words
    PROVE  /\ ToCompile(known, s) \subseteq Words
           /\ s \in ToCompile(known, s)
           /\ \A x \in ToCompile(known, s) : Linked(x) \subseteq ToCompile(known, s) \cup known
           /\ link /\ s \notin known => ToCompile(known, s) \cap known = {}
<1>1. CASE link
  <2>1. ToCompile(known, s) = Wanted(known, s)
    BY <1>1 DEF ToCompile
  <2>2. Wanted(known, s) \subseteq Words
    BY DEF Wanted
  <2>3. \A x \in Wanted(known, s) : \A t \in Linked(x) : t \notin known => t \in Wanted(known, s)
    BY WantedClosed
  <2> QED BY <1>1, <2>1, <2>2, <2>3, WantedHas, WantedNew
<1>2. CASE ~link
  <2>1. ToCompile(known, s) = {s}
    BY <1>2 DEF ToCompile
  <2>2. \A x : Linked(x) = {}
    BY <1>2 DEF Linked
  <2> QED BY <1>2, <2>1, <2>2
<1> QED BY <1>1, <1>2

-----------------------------------------------------------------------------
(* A check only takes blocks out of the table and updates the copy from    *)
(* memory; with protected pages it does neither.                           *)
CheckOf(c) ==
    /\ c.lookup \in [Words -> Nat]
    /\ c.copy \in [Words -> Versions \cup {Dummy}]
    /\ \A w \in Words : c.lookup[w] = 0 \/ c.lookup[w] = lookup[w]

LEMMA PassedFacts == ASSUME Typed PROVE CheckOf(Passed)
    BY DEF Typed, CheckOf, Passed

LEMMA FailedFacts ==
    ASSUME Typed, NEW gone, NEW seen
    PROVE  CheckOf(Failed(gone, seen))
    BY DEF Typed, CheckOf, Failed

LEMMA DynaCheckFacts == ASSUME Typed PROVE CheckOf(Dyna_Check_Codes)
<1> DEFINE rest == {w \in DOMAIN Current(pc).text :
                      \E v \in {u \in DOMAIN Current(pc).text : Stale(u)} : v <= w}
<1>1. CheckOf(CheckDWORD)
    BY PassedFacts, FailedFacts DEF CheckDWORD
<1>2. CheckOf(CheckQWORD)
    BY PassedFacts, FailedFacts DEF CheckQWORD
<1>3. CheckOf(CheckBLOCK)
  <2>1. CheckBLOCK = Passed \/ CheckBLOCK = Failed(rest, rest)
    BY DEF CheckBLOCK
  <2> QED BY <2>1, PassedFacts, FailedFacts
<1>4. \/ Dyna_Check_Codes = Passed \/ Dyna_Check_Codes = CheckDWORD
      \/ Dyna_Check_Codes = CheckQWORD \/ Dyna_Check_Codes = CheckBLOCK
    BY DEF Dyna_Check_Codes
<1> QED BY <1>1, <1>2, <1>3, <1>4, PassedFacts

LEMMA CheckedFacts ==
    ASSUME Typed
    PROVE  /\ CheckOf(Checked)
           /\ Protect => /\ Checked.lookup = lookup /\ Checked.copy = copy
                         /\ ~Checked.ok => lookup[pc] = 0
<1>1. CASE lookup[pc] = 0
  <2>1. Checked = [Passed EXCEPT !.ok = FALSE]
    BY <1>1 DEF Checked
  <2>2. Checked.lookup = Passed.lookup /\ Checked.copy = Passed.copy
    BY <2>1 DEF Passed
  <2> QED BY <1>1, <2>2, PassedFacts DEF CheckOf, Passed
<1>2. CASE lookup[pc] # 0
  <2>1. Checked = Dyna_Check_Codes
    BY <1>2 DEF Checked
  <2>2. Protect => Dyna_Check_Codes = Passed
    BY DEF Protect, Dyna_Check_Codes
  <2> QED BY <2>1, <2>2, DynaCheckFacts DEF Passed
<1> QED BY <1>1, <1>2

-----------------------------------------------------------------------------
(* Compiling.  What the two ways of it leave is the same, but for the      *)
(* blocks that were there before.                                          *)
LEMMA NewBlockFacts ==
    ASSUME Typed, NEW index \in [Words -> Nat], NEW s \in Words
    PROVE  /\ NewBlock(index, s) \in AnyBlock
           /\ DOMAIN NewBlock(index, s).text = Body(s)
           /\ DOMAIN NewBlock(index, s).next = Linked(s)
           /\ \A w \in Body(s) : NewBlock(index, s).text[w] = ram[w]
           /\ \A t \in Linked(s) : NewBlock(index, s).next[t] = index[t]
<1> DEFINE text == [w \in Body(s) |-> ram[w]]
           next == [t \in Linked(s) |-> index[t]]
<1>1. Body(s) \subseteq Words /\ Linked(s) \subseteq Words
    BY LinkedInWords DEF Body
<1>2. text \in [Body(s) -> Versions] /\ next \in [Linked(s) -> Nat]
    BY <1>1 DEF Typed
<1>3. NewBlock(index, s) = [text |-> text, next |-> next]
    BY DEF NewBlock
<1>4. NewBlock(index, s).text = text /\ NewBlock(index, s).next = next
    BY <1>3
<1>5. /\ text \in UNION {[S -> Versions] : S \in SUBSET Words}
      /\ next \in UNION {[S -> Nat] : S \in SUBSET Words}
    BY <1>1, <1>2
<1>6. NewBlock(index, s) \in AnyBlock
    BY <1>3, <1>5 DEF AnyBlock
<1> QED BY <1>4, <1>6

LEMMA OptionsKept ==
    ASSUME UNCHANGED options
    PROVE  /\ Protect' <=> Protect
           /\ \A s : Body(s)' = Body(s) /\ Linked(s)' = Linked(s)
<1>1. (Protect' <=> Protect) /\ link' = link
    BY DEF options, Protect
<1>2. \A s : Ahead(s)' = Ahead(s) /\ OnPage(s)' = OnPage(s)
    BY DEF Ahead, OnPage
<1>3. \A s : Body(s)' = Body(s)
    BY <1>1, <1>2 DEF Body
<1>4. \A s : (BreaksOut(s)' <=> BreaksOut(s))
    BY <1>1, <1>2 DEF BreaksOut
<1>5. \A s : First(s)' = First(s)
    BY <1>2 DEF First
<1>6. \A s : Exits(s)' = Exits(s)
    BY <1>2, <1>4, <1>5 DEF Exits
<1>7. \A s : Linked(s)' = Linked(s)
    BY <1>1, <1>4, <1>5, <1>6 DEF Linked
<1> QED BY <1>1, <1>3, <1>7

LEMMA AppendFacts ==
    ASSUME NEW S, NEW q \in Seq(S), NEW e \in S
    PROVE  /\ Append(q, e) \in Seq(S)
           /\ Len(Append(q, e)) = Len(q) + 1
           /\ Append(q, e)[Len(q) + 1] = e
           /\ \A i \in 1..Len(q) : Append(q, e)[i] = q[i]
    OBVIOUS

\* A buffer base grows by a new block for each word of found.
LEMMA Grown ==
    ASSUME Typed, UNCHANGED options,
           NEW found \in SUBSET Words,
           NEW index \in [Words -> Nat],
           NEW base \in [Words -> Seq(AnyBlock)],
           code' = [s \in Words |-> IF s \in found THEN Append(base[s], NewBlock(index, s))
                                    ELSE base[s]],
           \A s \in Words : \A i \in 1..Len(base[s]) :
                /\ DOMAIN base[s][i].text = Body(s)
                /\ DOMAIN base[s][i].next = Linked(s)
                /\ \A t \in Linked(s) : base[s][i].next[t] \in 1..Len(base[t]),
           \A s \in found : index[s] = Len(base[s]) + 1,
           \A s \in Words : index[s] <= Len(base[s]) \/ s \in found,
           \A s \in found : \A t \in Linked(s) : index[t] # 0
    PROVE  /\ code' \in [Words -> Seq(AnyBlock)]
           /\ \A s \in Words : index[s] <= Len(code'[s])
           /\ Shape'
           /\ \A s \in found : code'[s][index[s]] = NewBlock(index, s)
           /\ \A s \in Words \ found : code'[s] = base[s]
<1>1. \A s \in found :
        /\ code'[s] = Append(base[s], NewBlock(index, s))
        /\ NewBlock(index, s) \in AnyBlock
        /\ base[s] \in Seq(AnyBlock)
    BY NewBlockFacts
<1>2. \A s \in found :
        /\ code'[s] \in Seq(AnyBlock)
        /\ Len(code'[s]) = Len(base[s]) + 1
        /\ code'[s][Len(base[s]) + 1] = NewBlock(index, s)
        /\ \A i \in 1..Len(base[s]) : code'[s][i] = base[s][i]
  <2> TAKE s \in found
  <2> DEFINE q == base[s]
             e == NewBlock(index, s)
  <2>1. code'[s] = Append(q, e) /\ e \in AnyBlock /\ q \in Seq(AnyBlock)
    BY <1>1
  <2> HIDE DEF q, e
  <2>2. /\ Append(q, e) \in Seq(AnyBlock)
        /\ Len(Append(q, e)) = Len(q) + 1
        /\ Append(q, e)[Len(q) + 1] = e
        /\ \A i \in 1..Len(q) : Append(q, e)[i] = q[i]
    BY ONLY <2>1, AppendFacts
  <2>3. /\ code'[s] \in Seq(AnyBlock)
        /\ Len(code'[s]) = Len(q) + 1
        /\ code'[s][Len(q) + 1] = e
        /\ \A i \in 1..Len(q) : code'[s][i] = q[i]
    BY <2>1, <2>2, Zenon
  <2> QED BY <2>3 DEF q, e
<1>3. \A s \in Words \ found : code'[s] = base[s]
    OBVIOUS
<1>4. code' \in [Words -> Seq(AnyBlock)]
  <2>1. \A s \in Words : code'[s] \in Seq(AnyBlock)
    BY <1>2, <1>3
  <2>2. DOMAIN code' = Words
    OBVIOUS
  <2>3. code' = [s \in Words |-> code'[s]]
    BY <2>2
  <2> QED BY <2>1, <2>3
<1>5. \A s \in Words : Len(base[s]) \in Nat /\ Len(base[s]) <= Len(code'[s]) /\ Len(code'[s]) \in Nat
    BY <1>2, <1>3
<1>6. \A s \in Words : index[s] <= Len(code'[s])
    BY <1>2, <1>3, <1>5
<1>7. Shape'
  <2> SUFFICES ASSUME NEW s \in Words, NEW i \in 1..Len(code'[s])
               PROVE  /\ DOMAIN code'[s][i].text = Body(s)
                      /\ DOMAIN code'[s][i].next = Linked(s)
                      /\ \A t \in Linked(s) : code'[s][i].next[t] \in 1..Len(code'[t])
  <3>1. \A s : Body(s)' = Body(s) /\ Linked(s)' = Linked(s)
    BY OptionsKept
  <3> QED BY <3>1 DEF Shape
  <2>1. CASE i \in 1..Len(base[s])
    <3>1. code'[s][i] = base[s][i]
      BY <1>2, <1>3, <2>1
    <3>2. \A t \in Linked(s) : base[s][i].next[t] \in 1..Len(code'[t])
      BY <1>5, <2>1, LinkedInWords
    <3> QED BY <2>1, <3>1, <3>2
  <2>2. CASE i \notin 1..Len(base[s])
    <3>1. s \in found /\ i = Len(base[s]) + 1
      BY <1>2, <1>3, <1>5, <2>2
    <3>2. code'[s][i] = NewBlock(index, s)
      BY <1>2, <3>1
    <3>3. \A t \in Linked(s) : index[t] \in 1..Len(code'[t])
      <4> SUFFICES ASSUME NEW t \in Linked(s) PROVE index[t] \in 1..Len(code'[t])
        OBVIOUS
      <4>1. t \in Words /\ index[t] # 0 /\ index[t] \in Nat
        BY <3>1, LinkedInWords
      <4> QED BY <1>5, <1>6, <4>1
    <3>4. /\ DOMAIN NewBlock(index, s).text = Body(s)
          /\ DOMAIN NewBlock(index, s).next = Linked(s)
          /\ \A t \in Linked(s) : NewBlock(index, s).next[t] = index[t]
      BY NewBlockFacts
    <3> QED BY <3>2, <3>3, <3>4
  <2> QED BY <2>1, <2>2
<1>8. \A s \in found : code'[s][index[s]] = NewBlock(index, s)
    BY <1>2
<1> QED BY <1>3, <1>4, <1>6, <1>7, <1>8

-----------------------------------------------------------------------------
(* The link invariant over each way into a block.                          *)
LEMMA EmptySeq == <<>> \in Seq(AnyBlock) /\ Len(<<>>) = 0
    OBVIOUS

LEMMA AppendToEmpty == ASSUME NEW e PROVE Append(<<>>, e) = <<e>>
    OBVIOUS

LEMMA AfreshLinks ==
    ASSUME LinkInv, CompileAfresh, UNCHANGED <<ram, pc, options>>
    PROVE  /\ LinkInv'
           /\ \A s \in Words : lookup'[s] # 0 =>
                /\ code'[s][lookup'[s]] = NewBlock(lookup', s)
                /\ s \in ToCompile({}, pc)
<1> DEFINE found == ToCompile({}, pc)
           index == [s \in Words |-> IF s \in found THEN 1 ELSE 0]
           base == [s \in Words |-> <<>>]
<1>1. pc \in Words /\ Typed
    BY DEF LinkInv, Typed
<1>2. found \in SUBSET Words /\ \A s \in found : Linked(s) \subseteq found
    BY <1>1, ToCompileFacts
<1>3. lookup' = index
    BY DEF CompileAfresh
<1>4. index \in [Words -> Nat] /\ \A s \in Words : index[s] = IF s \in found THEN 1 ELSE 0
    OBVIOUS
<1>5. base \in [Words -> Seq(AnyBlock)] /\ \A s \in Words : base[s] = <<>> /\ Len(base[s]) = 0
    BY EmptySeq
<1>6. code' = [s \in Words |-> IF s \in found THEN Append(base[s], NewBlock(index, s)) ELSE base[s]]
  <2>1. code' = [s \in Words |-> IF s \in found THEN <<NewBlock(index, s)>> ELSE <<>>]
    BY DEF CompileAfresh
  <2> HIDE DEF found, index
  <2> QED BY <2>1, AppendToEmpty
<1>7. copy' \in [Words -> Versions \cup {Dummy}] /\ ram' \in [Words -> Versions] /\ pc' \in Words
    BY <1>1 DEF CompileAfresh, Typed
<1> HIDE DEF found, index, base
<1>8. \A s \in found : \A t \in Linked(s) : index[t] # 0
    BY <1>2, <1>4
<1>9. /\ \A s \in found : index[s] = Len(base[s]) + 1
      /\ \A s \in Words : index[s] <= Len(base[s]) \/ s \in found
    BY <1>2, <1>4, <1>5
<1>10. /\ code' \in [Words -> Seq(AnyBlock)]
       /\ \A s \in Words : index[s] <= Len(code'[s])
       /\ Shape'
       /\ \A s \in found : code'[s][index[s]] = NewBlock(index, s)
       /\ \A s \in Words \ found : code'[s] = base[s]
  <2>1. \A s \in Words : \A i \in 1..Len(base[s]) :
                /\ DOMAIN base[s][i].text = Body(s)
                /\ DOMAIN base[s][i].next = Linked(s)
                /\ \A t \in Linked(s) : base[s][i].next[t] \in 1..Len(base[t])
    BY <1>5
  <2>2. base \in [Words -> Seq(AnyBlock)]
    BY <1>5
  <2>3. index \in [Words -> Nat]
    BY <1>4
  <2>4. Typed
    BY <1>1
  <2>5. found \in SUBSET Words
    BY <1>2
  <2> QED BY ONLY <1>6, <1>8, <1>9, <2>1, <2>2, <2>3, <2>4, <2>5, Grown, UNCHANGED options
<1>11. \A s \in Words : index[s] # 0 => s \in found
    BY <1>4
<1>12. Typed' /\ InTable'
    BY <1>3, <1>4, <1>7, <1>10 DEF Typed, InTable
<1>13. Live'
  <2> SUFFICES ASSUME NEW s \in Words, index[s] # 0, NEW t \in Linked(s)
               PROVE  code'[s][index[s]].next[t] = index[t]
    BY <1>3, OptionsKept DEF Live, Current
  <2>1. code'[s][index[s]] = NewBlock(index, s)
    BY <1>10, <1>11
  <2> QED BY <1>1, <1>4, <2>1, NewBlockFacts
<1>14. \A s \in Words : index[s] # 0 => code'[s][index[s]] = NewBlock(index, s) /\ s \in found
    BY <1>10, <1>11
<1> QED BY <1>3, <1>10, <1>12, <1>13, <1>14 DEF LinkInv, found

\* A block that was in the table when c was compiled still is, and is the same.
LEMMA CompileLinks ==
    ASSUME LinkInv, Compile(Checked), UNCHANGED <<ram, pc, options>>,
           link => Checked.lookup[pc] = 0
    PROVE  /\ LinkInv'
           /\ \A s \in Words : lookup'[s] # 0 =>
                \/ /\ code'[s][lookup'[s]] = NewBlock(lookup', s)
                   /\ s \in ToCompile({x \in Words : Checked.lookup[x] # 0}, pc)
                \/ /\ lookup'[s] = Checked.lookup[s]
                   /\ code'[s] = code[s]
<1> DEFINE known == {x \in Words : Checked.lookup[x] # 0}
           found == ToCompile(known, pc)
           fetched == UNION {Body(s) : s \in found}
           old == Fetched(Checked.lookup, fetched)
           index == Indices(old, found)
<1>1. pc \in Words /\ Typed /\ InTable /\ Shape
    BY DEF LinkInv, Typed
<1>2. CheckOf(Checked)
    BY <1>1, CheckedFacts
<1>3. /\ found \in SUBSET Words
      /\ \A s \in found : Linked(s) \subseteq found \cup known
      /\ link => found \cap known = {}
    BY <1>1, ToCompileFacts
<1>4. lookup' = index
    BY DEF Compile
<1>5. /\ old \in [Words -> Nat]
      /\ \A s \in Words : old[s] = 0 \/ old[s] = Checked.lookup[s]
      /\ link => \A s \in Words : old[s] = Checked.lookup[s]
    BY <1>2 DEF Fetched, CheckOf
<1>6. code' = [s \in Words |-> IF s \in found THEN Append(code[s], NewBlock(index, s)) ELSE code[s]]
    BY DEF Compile
<1>7. copy' \in [Words -> Versions \cup {Dummy}] /\ ram' \in [Words -> Versions] /\ pc' \in Words
    BY <1>1, <1>2 DEF Compile, Typed, CheckOf
<1>8. code \in [Words -> Seq(AnyBlock)] /\ \A s \in Words : Len(code[s]) \in Nat
    BY <1>1 DEF Typed
<1> HIDE DEF found, fetched, old
<1>9. /\ index \in [Words -> Nat]
      /\ \A s \in Words : index[s] = IF s \in found THEN Len(code[s]) + 1 ELSE old[s]
    BY <1>5, <1>8 DEF Indices
<1> HIDE DEF index
<1>10. \A s \in Words : old[s] <= Len(code[s])
    BY <1>1, <1>2, <1>5, <1>8 DEF CheckOf, InTable
<1>11. \A s \in found : \A t \in Linked(s) : index[t] # 0
  <2> SUFFICES ASSUME NEW s \in found, NEW t \in Linked(s) PROVE index[t] # 0
    OBVIOUS
  <2>1. s \in Words /\ t \in Words /\ link
    BY <1>3, LinkedInWords DEF Linked
  <2>2. t \in found \/ old[t] # 0
    BY <1>3, <1>5, <2>1 DEF known
  <2> QED BY <1>8, <1>9, <2>1, <2>2
<1>12. /\ \A s \in found : index[s] = Len(code[s]) + 1
       /\ \A s \in Words : index[s] <= Len(code[s]) \/ s \in found
    BY <1>3, <1>9, <1>10
<1>13. /\ code' \in [Words -> Seq(AnyBlock)]
       /\ \A s \in Words : index[s] <= Len(code'[s])
       /\ Shape'
       /\ \A s \in found : code'[s][index[s]] = NewBlock(index, s)
       /\ \A s \in Words \ found : code'[s] = code[s]
  <2>1. \A s \in Words : \A i \in 1..Len(code[s]) :
                /\ DOMAIN code[s][i].text = Body(s)
                /\ DOMAIN code[s][i].next = Linked(s)
                /\ \A t \in Linked(s) : code[s][i].next[t] \in 1..Len(code[t])
    BY <1>1 DEF Shape
  <2> QED BY ONLY <1>1, <1>3, <1>6, <1>8, <1>9, <1>11, <1>12, <2>1, Grown, UNCHANGED options
<1>14. \A s \in Words : index[s] # 0 =>
            \/ code'[s][index[s]] = NewBlock(index, s) /\ s \in found
            \/ s \notin found /\ index[s] = Checked.lookup[s] /\ code'[s] = code[s]
    BY <1>5, <1>9, <1>13
<1>15. Typed' /\ InTable'
    BY <1>4, <1>7, <1>9, <1>13 DEF Typed, InTable
<1>16. Live'
  <2> SUFFICES ASSUME Protect, NEW s \in Words, index[s] # 0, NEW t \in Linked(s)
               PROVE  code'[s][index[s]].next[t] = index[t]
    BY <1>4, OptionsKept DEF Live, Current
  <2>1. CASE code'[s][index[s]] = NewBlock(index, s)
    BY <1>1, <1>9, <2>1, NewBlockFacts
  <2>2. CASE s \notin found /\ index[s] = Checked.lookup[s] /\ code'[s] = code[s]
    <3>1. Checked.lookup = lookup
      BY <1>1, CheckedFacts
    <3>2. code[s][lookup[s]].next[t] = lookup[t] /\ lookup[s] \in 1..Len(code[s])
      <4>1. lookup[s] # 0 /\ lookup[s] \in Nat /\ lookup[s] <= Len(code[s])
        BY <1>1, <2>2, <3>1 DEF Typed, InTable
      <4> QED BY <1>8, <2>2, <3>1, <4>1 DEF LinkInv, Live, Current
    <3>3. t \in Words /\ link
      BY LinkedInWords DEF Linked
    <3>4. lookup[t] # 0
      BY <1>1, <3>2, <3>3 DEF Shape
    <3>5. t \notin found
      BY <1>3, <3>1, <3>3, <3>4 DEF known
    <3>6. index[t] = lookup[t]
      BY <1>5, <1>9, <3>1, <3>3, <3>5
    <3> QED BY <2>2, <3>1, <3>2, <3>6
  <2> QED BY <1>14, <2>1, <2>2
<1> QED BY <1>4, <1>13, <1>14, <1>15, <1>16 DEF LinkInv, found, known

-----------------------------------------------------------------------------
\* The block in execution is in the buffer.
Runs == running # None => /\ running[1] \in Words
                          /\ running[2] \in 1..Len(code[running[1]])

LEMMA DroppedLinks ==
    ASSUME LinkInv, Runs, UNCHANGED <<code, pc, running, options>>,
           ram' \in [Words -> Versions], copy' \in [Words -> Versions \cup {Dummy}],
           lookup' \in [Words -> Nat],
           \A s \in Words : lookup'[s] = 0 \/ lookup'[s] = lookup[s],
           Protect => \A s, t \in Words : PageOf(s) = PageOf(t) /\ lookup'[s] # 0
                            => lookup'[t] = lookup[t]
    PROVE  LinkInv' /\ Runs'
<1>1. Typed' /\ InTable'
  <2>1. \A s \in Words : Len(code[s]) \in Nat
    BY DEF LinkInv, Typed
  <2> QED BY <2>1 DEF LinkInv, Typed, InTable
<1>2. Shape'
    BY OptionsKept DEF LinkInv, Shape
<1>3. Live'
  <2> SUFFICES ASSUME Protect, NEW s \in Words, lookup'[s] # 0, NEW t \in Linked(s)
               PROVE  code[s][lookup'[s]].next[t] = lookup'[t]
    BY OptionsKept DEF Live, Current
  <2>1. t \in Words /\ PageOf(s) = PageOf(t)
    BY LinkedInWords, LinkedOnPage
  <2>2. lookup'[t] = lookup[t] /\ lookup'[s] = lookup[s]
    BY <2>1
  <2> QED BY <2>2 DEF LinkInv, Live, Current
<1>4. Runs'
    BY DEF Runs
<1> QED BY <1>1, <1>2, <1>3, <1>4 DEF LinkInv

LEMMA LinkInit == Init => LinkInv /\ Runs
<1> SUFFICES ASSUME Init PROVE LinkInv /\ Runs
    OBVIOUS
<1>1. \A s \in Words : code[s] = <<>> /\ lookup[s] = 0 /\ Len(code[s]) = 0
    BY DEF Init
<1>2. ram \in [Words -> Versions] /\ copy \in [Words -> Versions \cup {Dummy}]
    BY DEF Init
<1>3. code \in [Words -> Seq(AnyBlock)] /\ lookup \in [Words -> Nat]
    BY EmptySeq DEF Init
<1>4. pc \in Words /\ running = None
    BY WordsAssumption DEF Init, Words
<1>5. Typed /\ InTable
    BY <1>1, <1>2, <1>3, <1>4 DEF Typed, InTable
<1>6. Shape /\ Live /\ Runs
    BY <1>1, <1>4 DEF Shape, Live, Runs
<1> QED BY <1>5, <1>6 DEF LinkInv

LEMMA LinkEnter == ASSUME LinkInv, Runs, Enter PROVE LinkInv' /\ Runs'
<1>1. Typed /\ InTable /\ pc \in Words /\ CheckOf(Checked)
    BY CheckedFacts DEF LinkInv, Typed
<1>2. \A s \in Words : lookup[s] \in Nat /\ Len(code[s]) \in Nat
    BY <1>1 DEF Typed
<1>3. CASE EnterFound
  <2>1. LinkInv'
    <3>1. Typed' /\ InTable' /\ Shape' /\ Live'
      <4>1. Shape' /\ Live'
        BY <1>3, OptionsKept DEF EnterFound, LinkInv, Shape, Live, Current
      <4>2. Typed' /\ InTable'
        BY <1>3 DEF EnterFound, LinkInv, Typed, InTable
      <4> QED BY <4>1, <4>2
    <3> QED BY <3>1 DEF LinkInv
  <2>2. lookup[pc] # 0
    BY <1>3 DEF EnterFound, Checked
  <2>3. running' = <<pc, lookup[pc]>> /\ code' = code
    BY <1>3 DEF EnterFound
  <2>4. lookup[pc] \in 1..Len(code[pc])
    BY <1>1, <1>2, <2>2 DEF InTable
  <2> QED BY <1>1, <2>1, <2>3, <2>4 DEF Runs
<1>4. CASE EnterKept
  <2>1. ~Protect
    BY <1>1, <1>4, CheckedFacts DEF EnterKept
  <2>2. lookup' = Checked.lookup /\ copy' = Checked.copy /\ UNCHANGED <<ram, code, pc, options>>
    BY <1>4 DEF EnterKept
  <2>3. Shape'
    BY <2>2, OptionsKept DEF LinkInv, Shape
  <2>4. Live'
    BY <2>1, <2>2, OptionsKept DEF Live
  <2>5. Typed'
    BY <1>1, <2>2 DEF Typed, CheckOf
  <2>6. InTable'
    BY <1>1, <1>2, <2>2 DEF InTable, CheckOf
  <2>7. running' = <<pc, lookup'[pc]>> /\ lookup'[pc] # 0
    BY <1>4, <2>2 DEF EnterKept
  <2>8. lookup'[pc] \in Nat /\ lookup'[pc] <= Len(code'[pc])
    BY <1>1, <2>2, <2>5, <2>6 DEF Typed, InTable
  <2>9. lookup'[pc] \in 1..Len(code'[pc])
    BY <1>1, <1>2, <2>2, <2>7, <2>8
  <2> QED BY <1>1, <2>3, <2>4, <2>5, <2>6, <2>7, <2>9 DEF LinkInv, Runs
<1>5. CASE EnterCompiled
  <2> DEFINE known == {x \in Words : Checked.lookup[x] # 0}
  <2>1. UNCHANGED <<ram, pc, options>> /\ (link => Checked.lookup[pc] = 0)
    BY <1>5 DEF EnterCompiled
  <2>2. pc \in ToCompile({}, pc) /\ pc \in ToCompile(known, pc)
    BY <1>1, ToCompileFacts
  <2>3. CASE CompileAfresh
    <3>1. LinkInv'
      BY <2>1, <2>3, AfreshLinks
    <3>2. running' = <<pc, 1>> /\ lookup'[pc] = 1
      BY <1>1, <2>2, <2>3 DEF CompileAfresh
    <3>3. Len(code'[pc]) \in Nat /\ 1 <= Len(code'[pc])
      BY <1>1, <3>1, <3>2 DEF LinkInv, Typed, InTable
    <3>4. 1 \in 1..Len(code'[pc])
      BY <3>3
    <3> QED BY <1>1, <3>1, <3>2, <3>4 DEF Runs
  <2>4. CASE Compile(Checked)
    <3>1. LinkInv'
      BY <2>1, <2>4, CompileLinks
    <3>2. running' = <<pc, lookup'[pc]>>
      BY <2>4 DEF Compile
    <3>3. lookup'[pc] = Len(code[pc]) + 1
      BY <1>1, <2>2, <2>4 DEF Compile, Indices
    <3>4. Len(code'[pc]) \in Nat /\ lookup'[pc] <= Len(code'[pc]) /\ lookup'[pc] \in Nat
      BY <1>1, <2>1, <3>1 DEF LinkInv, Typed, InTable
    <3>5. lookup'[pc] \in 1..Len(code'[pc])
      BY <1>1, <1>2, <3>3, <3>4
    <3> QED BY <1>1, <3>1, <3>2, <3>5 DEF Runs
  <2> QED BY <1>5, <2>3, <2>4 DEF EnterCompiled
<1> QED BY <1>3, <1>4, <1>5 DEF Enter

LEMMA LinkNext == LinkInv /\ Runs /\ [Next]_vars => LinkInv' /\ Runs'
<1> SUFFICES ASSUME LinkInv, Runs, [Next]_vars PROVE LinkInv' /\ Runs'
    OBVIOUS
<1>1. CASE Enter
    BY <1>1, LinkEnter
<1>2. CASE JumpLinked
  <2>1. PICK t \in DOMAIN code[running[1]][running[2]].next :
            running' = <<t, code[running[1]][running[2]].next[t]>>
    BY <1>2 DEF JumpLinked
  <2>2. running[1] \in Words /\ running[2] \in 1..Len(code[running[1]])
    BY <1>2 DEF JumpLinked, Runs
  <2>3. t \in Linked(running[1])
    BY <2>1, <2>2 DEF LinkInv, Shape
  <2>4. t \in Words /\ code[running[1]][running[2]].next[t] \in 1..Len(code[t])
    BY <2>2, <2>3, LinkedInWords DEF LinkInv, Shape
  <2>5. Runs'
    BY <1>2, <2>1, <2>4 DEF JumpLinked, Runs
  <2>6. Shape' /\ Live'
    BY <1>2, OptionsKept DEF JumpLinked, LinkInv, Shape, Live, Current
  <2>7. Typed' /\ InTable'
    BY <1>2 DEF JumpLinked, LinkInv, Typed, InTable
  <2> QED BY <2>5, <2>6, <2>7 DEF LinkInv
<1>3. CASE Return
  <2>1. running[1] \in Words /\ pc' \in Exits(running[1]) /\ running' = None
    BY <1>3 DEF Return, Runs
  <2>2. pc' \in Words
    BY <2>1, ExitsInWords
  <2>3. Shape' /\ Live'
    BY <1>3, OptionsKept DEF Return, LinkInv, Shape, Live, Current
  <2>4. Typed' /\ InTable'
    BY <1>3, <2>2 DEF Return, LinkInv, Typed, InTable
  <2> QED BY <2>1, <2>3, <2>4 DEF LinkInv, Runs
<1>4. CASE Store
  <2>1. PICK w \in Changing, v \in Versions :
        /\ ram' = [ram EXCEPT ![w] = v]
        /\ IF PageOf(w) \in guarded /\ copy[w] # Dummy
           THEN /\ copy' = [copy EXCEPT ![w] = Dummy]
                /\ lookup' = Without({PageOf(w)})
                /\ guarded' = guarded \ {PageOf(w)}
           ELSE UNCHANGED <<copy, lookup, guarded>>
    BY <1>4 DEF Store
  <2>2. ram' \in [Words -> Versions] /\ copy' \in [Words -> Versions \cup {Dummy}]
    BY <2>1 DEF LinkInv, Typed
  <2>3. /\ lookup' \in [Words -> Nat]
        /\ \A s \in Words : lookup'[s] = 0 \/ lookup'[s] = lookup[s]
        /\ \A s, t \in Words : PageOf(s) = PageOf(t) /\ lookup'[s] # 0 => lookup'[t] = lookup[t]
    BY <2>1 DEF LinkInv, Typed, Without
  <2> QED BY <1>4, <2>2, <2>3, DroppedLinks DEF Store
<1>5. CASE Dma
  <2>1. PICK from \in DmaStarts, to \in Words, v \in Versions :
        /\ ram' = [w \in Words |-> IF w \in (from..to) \cap Changing THEN v ELSE ram[w]]
        /\ lookup' = [s \in Words |->
                IF \/ PageOf(s) \in Invalidated(from..to, from)
                   \/ ByDma /\ s \in from..to /\ copy[s] # Dummy
                THEN 0 ELSE lookup[s]]
    BY <1>5 DEF Dma
  <2>2. ram' \in [Words -> Versions] /\ copy' \in [Words -> Versions \cup {Dummy}]
    BY <1>5, <2>1 DEF Dma, LinkInv, Typed
  <2>3. /\ lookup' \in [Words -> Nat]
        /\ \A s \in Words : lookup'[s] = 0 \/ lookup'[s] = lookup[s]
    BY <2>1 DEF LinkInv, Typed
  <2>4. Protect => ~ByDma
    BY DEF Protect, ByDma
  <2>5. Protect => \A s, t \in Words : PageOf(s) = PageOf(t) /\ lookup'[s] # 0
                        => lookup'[t] = lookup[t]
    BY <2>1, <2>4
  <2>6. UNCHANGED <<code, pc, running, options>>
    BY <1>5 DEF Dma
  <2> QED BY <2>2, <2>3, <2>5, <2>6, DroppedLinks
<1>6. CASE UNCHANGED vars
  <2>1. Shape' /\ Live'
    BY <1>6, OptionsKept DEF vars, options, LinkInv, Shape, Live, Current
  <2>2. Typed' /\ InTable' /\ Runs'
    BY <1>6 DEF vars, LinkInv, Typed, InTable, Runs
  <2> QED BY <2>1, <2>2 DEF LinkInv
<1> QED BY <1>1, <1>2, <1>3, <1>4, <1>5, <1>6 DEF Next

LEMMA LinksFollow == LinkInv => LinksLive
<1> SUFFICES ASSUME LinkInv PROVE LinksLive
    OBVIOUS
<1>1. \A s \in Words : code[s] \in Seq(AnyBlock) /\ DOMAIN code[s] = 1..Len(code[s])
    BY DEF LinkInv, Typed
<1>2. \A s \in Words : \A i \in DOMAIN code[s] : \A t \in DOMAIN code[s][i].next :
            code[s][i].next[t] \in DOMAIN code[t]
    BY <1>1, LinkedInWords DEF LinkInv, Shape
<1>3. \A s \in Compiled : lookup[s] \in 1..Len(code[s]) /\ s \in Words /\ lookup[s] # 0
  <2> SUFFICES ASSUME NEW s \in Compiled PROVE lookup[s] \in 1..Len(code[s]) /\ s \in Words /\ lookup[s] # 0
    OBVIOUS
  <2>1. s \in Words /\ lookup[s] # 0
    BY DEF Compiled
  <2>2. lookup[s] \in Nat /\ Len(code[s]) \in Nat /\ lookup[s] <= Len(code[s])
    BY <2>1 DEF LinkInv, Typed, InTable
  <2> QED BY <2>1, <2>2
<1>4. Protect => \A s \in Compiled : \A t \in DOMAIN Current(s).next : Current(s).next[t] = lookup[t]
    BY <1>3 DEF LinkInv, Live, Shape, Current
<1> QED BY <1>2, <1>4 DEF LinksLive

(* A linked exit always leads into a block of the buffer, and with protected *)
(* pages from a block of the table to the block the table has at its target, *)
(* for every layout of code and every order of stores, transfers and refills *)
(* of the buffer.                                                            *)
THEOREM LinksHold == Spec => []LinksLive
<1>1. Init => LinkInv /\ Runs
    BY LinkInit
<1>2. LinkInv /\ Runs /\ [Next]_vars => LinkInv' /\ Runs'
    BY LinkNext
<1>3. LinkInv => LinksLive
    BY LinksFollow
<1> QED BY <1>1, <1>2, <1>3, PTL DEF Spec

-----------------------------------------------------------------------------
(* Freshness.  A store or a transfer that does not drop a block of the      *)
(* table touches no word of it: the copy of each word of the block tells    *)
(* that it was fetched, and its page is the page that would be dropped.     *)
LEMMA FreshStore ==
    ASSUME LinkInv, Kept, Store, Protect
    PROVE  Kept'
<1>1. PICK w \in Changing, v \in Versions :
        /\ ram' = [ram EXCEPT ![w] = v]
        /\ IF PageOf(w) \in guarded /\ copy[w] # Dummy
           THEN /\ copy' = [copy EXCEPT ![w] = Dummy]
                /\ lookup' = Without({PageOf(w)})
                /\ guarded' = guarded \ {PageOf(w)}
           ELSE UNCHANGED <<copy, lookup, guarded>>
    BY DEF Store
<1>2. UNCHANGED <<code, options>>
    BY DEF Store
<1>3. ram \in [Words -> Versions] /\ copy \in [Words -> Versions \cup {Dummy}]
    BY DEF LinkInv, Typed
<1>4. ASSUME NEW s \in Words, lookup'[s] # 0
      PROVE  lookup'[s] = lookup[s] /\ w \notin Body(s)
             /\ (PageOf(s) \in guarded => PageOf(s) \in guarded')
  <2>1. CASE PageOf(w) \in guarded /\ copy[w] # Dummy
    <3>1. lookup' = Without({PageOf(w)}) /\ guarded' = guarded \ {PageOf(w)}
      BY <1>1, <2>1
    <3>2. lookup'[s] = lookup[s] /\ PageOf(s) # PageOf(w)
      BY <1>4, <3>1 DEF Without
    <3> QED BY <1>4, <3>1, <3>2 DEF Kept
  <2>2. CASE ~(PageOf(w) \in guarded /\ copy[w] # Dummy)
    <3>1. UNCHANGED <<copy, lookup, guarded>>
      BY <1>1, <2>2
    <3>2. ram[w] # Dummy
      BY <1>3, WordsAssumption
    <3> QED BY <1>4, <2>2, <3>1, <3>2 DEF Kept
  <2> QED BY <2>1, <2>2
<1>5. \A x \in Words : x # w => ram'[x] = ram[x] /\ copy'[x] = copy[x]
    BY <1>1, <1>3
<1>6. ASSUME NEW s \in Words, lookup'[s] # 0, NEW x \in Body(s)
      PROVE  /\ code'[s][lookup'[s]].text[x] = ram'[x]
             /\ copy'[x] = ram'[x]
             /\ PageOf(x) = PageOf(s) /\ PageOf(s) \in guarded'
  <2>1. x \in Words /\ x # w /\ lookup[s] # 0 /\ lookup'[s] = lookup[s]
    BY <1>4, <1>6 DEF Body
  <2>2. ram'[x] = ram[x] /\ copy'[x] = copy[x]
    BY <1>5, <2>1
  <2>3. /\ code[s][lookup[s]].text[x] = ram[x] /\ copy[x] = ram[x]
        /\ PageOf(x) = PageOf(s) /\ PageOf(s) \in guarded
    BY <2>1 DEF Kept, Current
  <2> QED BY <1>2, <1>4, <1>6, <2>1, <2>2, <2>3
<1> QED BY <1>2, <1>6, OptionsKept DEF Kept, Current

LEMMA FreshDma ==
    ASSUME LinkInv, Kept, Dma, Protect, 0 \notin DmaStarts
    PROVE  Kept'
<1>1. PICK from \in DmaStarts, to \in Words, v \in Versions :
        /\ ram' = [w \in Words |-> IF w \in (from..to) \cap Changing THEN v ELSE ram[w]]
        /\ guarded' = guarded \ Invalidated(from..to, from)
        /\ lookup' = [s \in Words |->
                IF \/ PageOf(s) \in Invalidated(from..to, from)
                   \/ ByDma /\ s \in from..to /\ copy[s] # Dummy
                THEN 0 ELSE lookup[s]]
    BY DEF Dma
<1>2. UNCHANGED <<code, copy, options>>
    BY DEF Dma
<1>3. ram \in [Words -> Versions]
    BY DEF LinkInv, Typed
<1>4. from \in Nat /\ from > 0
    BY WordsAssumption DEF Words
<1>5. Invalidated(from..to, from) = {PageOf(w) : w \in {x \in from..to : copy[x] # Dummy}}
    BY <1>4 DEF Invalidated
<1>6. ASSUME NEW s \in Words, lookup'[s] # 0, NEW x \in Body(s)
      PROVE  /\ code'[s][lookup'[s]].text[x] = ram'[x]
             /\ copy'[x] = ram'[x]
             /\ PageOf(x) = PageOf(s) /\ PageOf(s) \in guarded'
  <2>1. lookup'[s] = lookup[s] /\ PageOf(s) \notin Invalidated(from..to, from)
    BY <1>1, <1>6
  <2>2. /\ code[s][lookup[s]].text[x] = ram[x] /\ copy[x] = ram[x]
        /\ PageOf(x) = PageOf(s) /\ PageOf(s) \in guarded
    BY <1>6, <2>1 DEF Kept, Current
  <2>3. x \in Words
    BY DEF Body
  <2>4. copy[x] # Dummy
    BY <1>3, <2>2, <2>3, WordsAssumption
  <2>5. x \notin from..to
    BY <1>5, <2>1, <2>2, <2>4
  <2>6. ram'[x] = ram[x]
    BY <1>1, <2>3, <2>5
  <2> QED BY <1>1, <1>2, <2>1, <2>2, <2>6
<1> QED BY <1>2, <1>6, OptionsKept DEF Kept, Current

\* The block a compiler makes is fresh, copied and guarded.
LEMMA FreshNew ==
    ASSUME Typed, SlotsOnPage, Protect, NEW index \in [Words -> Nat],
           NEW found \in SUBSET Words, NEW s \in found, NEW w \in Body(s)
    PROVE  /\ NewBlock(index, s).text[w] = ram[w]
           /\ w \in UNION {Body(x) : x \in found}
           /\ PageOf(w) = PageOf(s)
           /\ PageOf(s) \in ProtectBlocks(UNION {Body(x) : x \in found})
<1>1. NewBlock(index, s).text[w] = ram[w]
    BY NewBlockFacts
<1>2. w \in UNION {Body(x) : x \in found}
    OBVIOUS
<1>3. PageOf(w) = PageOf(s)
    BY BodyOnPage
<1> QED BY <1>1, <1>2, <1>3 DEF ProtectBlocks

LEMMA FreshCompiled ==
    ASSUME LinkInv, Kept, EnterCompiled, Protect, SlotsOnPage
    PROVE  Kept'
<1> DEFINE known == {x \in Words : Checked.lookup[x] # 0}
<1>1. Typed /\ pc \in Words
    BY DEF LinkInv, Typed
<1>2. UNCHANGED <<ram, pc, options>> /\ (link => Checked.lookup[pc] = 0)
    BY DEF EnterCompiled
<1>3. /\ ToCompile({}, pc) \in SUBSET Words
      /\ ToCompile(known, pc) \in SUBSET Words
    BY <1>1, ToCompileFacts
<1>4. CASE CompileAfresh
  <2> DEFINE found == ToCompile({}, pc)
             fetched == UNION {Body(x) : x \in found}
  <2>1. /\ LinkInv'
        /\ \A s \in Words : lookup'[s] # 0 =>
                code'[s][lookup'[s]] = NewBlock(lookup', s) /\ s \in found
    BY <1>2, <1>4, AfreshLinks
  <2>2. lookup' \in [Words -> Nat]
    BY <2>1 DEF LinkInv, Typed
  <2>3. /\ copy' = [w \in Words |-> IF w \in fetched THEN ram[w] ELSE Dummy]
        /\ guarded' = ProtectBlocks(fetched)
    BY <1>4 DEF CompileAfresh, ProtectBlocks
  <2> HIDE DEF found
  <2>4. ASSUME NEW s \in Words, lookup'[s] # 0, NEW w \in Body(s)
        PROVE  /\ code'[s][lookup'[s]].text[w] = ram'[w]
               /\ copy'[w] = ram'[w]
               /\ PageOf(w) = PageOf(s) /\ PageOf(s) \in guarded'
    <3>1. s \in found /\ code'[s][lookup'[s]] = NewBlock(lookup', s)
      BY <2>1, <2>4
    <3>2. /\ NewBlock(lookup', s).text[w] = ram[w]
          /\ w \in fetched
          /\ PageOf(w) = PageOf(s)
          /\ PageOf(s) \in ProtectBlocks(fetched)
      BY <1>1, <1>3, <2>2, <3>1, FreshNew DEF found
    <3>3. w \in Words
      BY DEF Body
    <3> QED BY <1>2, <2>3, <3>1, <3>2, <3>3
  <2> QED BY <1>2, <2>4, OptionsKept DEF Kept, Current
<1>5. CASE Compile(Checked)
  <2> DEFINE found == ToCompile(known, pc)
             fetched == UNION {Body(x) : x \in found}
  <2>1. /\ LinkInv'
        /\ \A s \in Words : lookup'[s] # 0 =>
                \/ code'[s][lookup'[s]] = NewBlock(lookup', s) /\ s \in found
                \/ lookup'[s] = Checked.lookup[s] /\ code'[s] = code[s]
    BY <1>2, <1>5, CompileLinks
  <2>2. lookup' \in [Words -> Nat]
    BY <2>1 DEF LinkInv, Typed
  <2>3. Checked.lookup = lookup /\ Checked.copy = copy
    BY <1>1, CheckedFacts
  <2>4. /\ copy' = [w \in Words |-> IF w \in fetched THEN ram[w] ELSE copy[w]]
        /\ guarded' = ProtectBlocks(fetched)
    BY <1>5, <2>3 DEF Compile
  <2>5. guarded \subseteq guarded'
    BY <2>4 DEF ProtectBlocks
  <2> HIDE DEF found
  <2>6. ASSUME NEW s \in Words, lookup'[s] # 0, NEW w \in Body(s)
        PROVE  /\ code'[s][lookup'[s]].text[w] = ram'[w]
               /\ copy'[w] = ram'[w]
               /\ PageOf(w) = PageOf(s) /\ PageOf(s) \in guarded'
    <3>1. w \in Words
      BY DEF Body
    <3>2. CASE code'[s][lookup'[s]] = NewBlock(lookup', s) /\ s \in found
      <4>1. /\ NewBlock(lookup', s).text[w] = ram[w]
            /\ w \in fetched
            /\ PageOf(w) = PageOf(s)
            /\ PageOf(s) \in ProtectBlocks(fetched)
        BY <1>1, <1>3, <2>2, <3>2, FreshNew DEF found
      <4> QED BY <1>2, <2>4, <3>1, <3>2, <4>1
    <3>3. CASE lookup'[s] = Checked.lookup[s] /\ code'[s] = code[s]
      <4>1. lookup[s] # 0 /\ lookup'[s] = lookup[s]
        BY <2>3, <2>6, <3>3
      <4>2. /\ code[s][lookup[s]].text[w] = ram[w] /\ copy[w] = ram[w]
            /\ PageOf(w) = PageOf(s) /\ PageOf(s) \in guarded
        BY <4>1 DEF Kept, Current
      <4> QED BY <1>2, <2>4, <2>5, <3>1, <3>3, <4>1, <4>2
    <3> QED BY <2>1, <2>6, <3>2, <3>3
  <2> QED BY <1>2, <2>6, OptionsKept DEF Kept, Current
<1> QED BY <1>4, <1>5 DEF EnterCompiled

LEMMA FreshNext ==
    ASSUME SlotsOnPage, 0 \notin DmaStarts
    PROVE  LinkInv /\ Runs /\ Kept /\ [Next]_vars => Kept'
<1> SUFFICES ASSUME LinkInv, Runs, Kept, [Next]_vars PROVE Kept'
    OBVIOUS
<1>1. UNCHANGED options
    BY DEF Next, Enter, EnterFound, EnterKept, EnterCompiled, JumpLinked, Return, Store, Dma, vars, options
<1>2. CASE ~Protect
    BY <1>1, <1>2, OptionsKept DEF Kept
<1>3. CASE Protect
  <2>1. CASE EnterCompiled
    BY <1>3, <2>1, FreshCompiled
  <2>2. CASE Store
    BY <1>3, <2>2, FreshStore
  <2>3. CASE Dma
    BY <1>3, <2>3, FreshDma
  <2>4. ~EnterKept
    BY <1>3, CheckedFacts DEF EnterKept, LinkInv
  <2>5. CASE UNCHANGED <<ram, copy, guarded, code, lookup>>
    BY <1>1, <1>3, <2>5, OptionsKept DEF Kept, Current
  <2>6. EnterFound \/ JumpLinked \/ Return \/ UNCHANGED vars
            => UNCHANGED <<ram, copy, guarded, code, lookup>>
    BY DEF EnterFound, JumpLinked, Return, vars
  <2> QED BY <2>1, <2>2, <2>3, <2>4, <2>5, <2>6 DEF Next, Enter
<1> QED BY <1>2, <1>3

LEMMA FreshFollows == LinkInv /\ Kept => LookupFresh
<1> SUFFICES ASSUME LinkInv, Kept, Protect, NEW s \in Compiled PROVE Fresh(Current(s))
    BY DEF LookupFresh
<1>1. s \in Words /\ lookup[s] # 0
    BY DEF Compiled
<1>2. lookup[s] \in Nat /\ Len(code[s]) \in Nat /\ lookup[s] <= Len(code[s])
    BY <1>1 DEF LinkInv, Typed, InTable
<1>3. lookup[s] \in 1..Len(code[s])
    BY <1>1, <1>2
<1>4. DOMAIN Current(s).text = Body(s)
    BY <1>1, <1>3 DEF LinkInv, Shape, Current
<1> QED BY <1>1, <1>4 DEF Kept, Fresh

(* With protected pages the main loop only ever finds blocks that were      *)
(* compiled from what memory holds, when no delay slot lies on another page *)
(* than its branch and no transfer begins at the first word of RDRAM.       *)
THEOREM Freshness ==
    ASSUME SlotsOnPage, 0 \notin DmaStarts
    PROVE  Spec => []LookupFresh
<1>1. Init => LinkInv /\ Runs /\ Kept
  <2>1. Init => Kept
    BY DEF Init, Kept
  <2> QED BY <2>1, LinkInit
<1>2. LinkInv /\ Runs /\ Kept /\ [Next]_vars => LinkInv' /\ Runs' /\ Kept'
    BY LinkNext, FreshNext
<1>3. LinkInv /\ Kept => LookupFresh
    BY FreshFollows
<1> QED BY <1>1, <1>2, <1>3, PTL DEF Spec

-----------------------------------------------------------------------------
(* Entering.  While blocks are not linked, the copy of the first word of a *)
(* block in the table is that word as it was compiled: every other block   *)
(* that is compiled from the word takes the block out of the table.        *)
Own == ~link => \A s \in Words : lookup[s] # 0 => copy[s] = Current(s).text[s]

LEMMA BodyHasFirst == ASSUME NEW s \in Words PROVE s \in Body(s)
    BY BranchesInWords DEF Body, Ahead, Slot

\* A check only changes the copy of words it takes out of the table, and of pc.
LEMMA CheckedOwn ==
    ASSUME LinkInv, Own, ~link, NEW s \in Words, s # pc, Checked.lookup[s] # 0
    PROVE  Checked.lookup[s] = lookup[s] /\ Checked.copy[s] = Current(s).text[s]
<1> DEFINE rest == {w \in DOMAIN Current(pc).text :
                      \E v \in {u \in DOMAIN Current(pc).text : Stale(u)} : v <= w}
           Good(c) == c.lookup[s] # 0 => c.lookup[s] = lookup[s] /\ c.copy[s] = Current(s).text[s]
<1>1. Good(Passed)
    BY DEF Passed, Own
<1>2. ASSUME NEW gone, NEW seen, seen \subseteq gone \cup {pc}
      PROVE  Good(Failed(gone, seen))
    BY <1>2 DEF Failed, Own
<1>3. Good(CheckDWORD)
    BY <1>1, <1>2 DEF CheckDWORD
<1>4. Good(CheckQWORD)
    BY <1>1, <1>2 DEF CheckQWORD
<1>5. Good(CheckBLOCK)
  <2>1. CheckBLOCK = Passed \/ CheckBLOCK = Failed(rest, rest)
    BY DEF CheckBLOCK
  <2>2. Good(Failed(rest, rest))
    BY <1>2
  <2> QED BY <1>1, <2>1, <2>2
<1>6. \/ Dyna_Check_Codes = Passed \/ Dyna_Check_Codes = CheckDWORD
      \/ Dyna_Check_Codes = CheckQWORD \/ Dyna_Check_Codes = CheckBLOCK
    BY DEF Dyna_Check_Codes
<1>7. Good(Dyna_Check_Codes)
    BY <1>1, <1>3, <1>4, <1>5, <1>6
<1>8. Good([Passed EXCEPT !.ok = FALSE])
    BY DEF Passed, Own
<1> QED BY <1>7, <1>8 DEF Checked

LEMMA OwnCompiled ==
    ASSUME LinkInv, Own, EnterCompiled, ~link
    PROVE  /\ Own'
           /\ running' = <<pc, lookup'[pc]>>
           /\ code'[pc][lookup'[pc]].text[pc] = ram[pc]
<1>1. Typed /\ pc \in Words /\ pc \in Body(pc)
    BY BodyHasFirst DEF LinkInv, Typed
<1>2. UNCHANGED <<ram, pc, options>> /\ link' = link
    BY DEF EnterCompiled, options
<1>3. \A known : ToCompile(known, pc) = {pc}
    BY DEF ToCompile
<1>4. CASE CompileAfresh
  <2>1. /\ lookup' = [s \in Words |-> IF s \in {pc} THEN 1 ELSE 0]
        /\ copy' = [w \in Words |-> IF w \in UNION {Body(s) : s \in {pc}} THEN ram[w] ELSE Dummy]
        /\ running' = <<pc, lookup'[pc]>>
    BY <1>3, <1>4 DEF CompileAfresh
  <2>2. /\ lookup' \in [Words -> Nat]
        /\ \A s \in Words : lookup'[s] # 0 => code'[s][lookup'[s]] = NewBlock(lookup', s)
    BY <1>2, <1>4, AfreshLinks DEF LinkInv, Typed
  <2>3. lookup'[pc] # 0 /\ copy'[pc] = ram[pc] /\ \A s \in Words : lookup'[s] # 0 => s = pc
    BY <1>1, <2>1
  <2>4. code'[pc][lookup'[pc]].text[pc] = ram[pc]
    BY <1>1, <2>2, <2>3, NewBlockFacts
  <2> QED BY <2>1, <2>3, <2>4 DEF Own, Current
<1>5. CASE Compile(Checked)
  <2> DEFINE known == {s \in Words : Checked.lookup[s] # 0}
             fetched == UNION {Body(s) : s \in {pc}}
             old == Fetched(Checked.lookup, fetched)
  <2>1. /\ lookup' = Indices(old, {pc})
        /\ copy' = [w \in Words |-> IF w \in fetched THEN ram[w] ELSE Checked.copy[w]]
        /\ code' = [s \in Words |-> IF s \in {pc} THEN Append(code[s], NewBlock(lookup', s))
                                    ELSE code[s]]
        /\ running' = <<pc, lookup'[pc]>>
    BY <1>3, <1>5 DEF Compile
  <2>2. /\ fetched = Body(pc)
        /\ \A s \in Words : old[s] = IF s \in fetched THEN 0 ELSE Checked.lookup[s]
    BY DEF Fetched
  <2> HIDE DEF fetched, old
  <2>3. /\ lookup'[pc] = Len(code[pc]) + 1 /\ copy'[pc] = ram[pc]
        /\ code'[pc] = Append(code[pc], NewBlock(lookup', pc))
    BY <1>1, <2>1, <2>2 DEF Indices
  <2>4. lookup' \in [Words -> Nat]
    <3>1. \A s \in Words : old[s] \in Nat
      BY <1>1, <2>2, CheckedFacts DEF CheckOf
    <3>2. \A s \in Words : Len(code[s]) + 1 \in Nat
      BY <1>1 DEF Typed
    <3> QED BY <2>1, <3>1, <3>2 DEF Indices
  <2>5. /\ NewBlock(lookup', pc) \in AnyBlock /\ NewBlock(lookup', pc).text[pc] = ram[pc]
        /\ code[pc] \in Seq(AnyBlock)
    BY <1>1, <2>4, NewBlockFacts DEF Typed
  <2>6. code'[pc][lookup'[pc]] = NewBlock(lookup', pc)
    BY <2>3, <2>5, AppendFacts
  <2>7. ASSUME NEW s \in Words, lookup'[s] # 0, s # pc
        PROVE  copy'[s] = code'[s][lookup'[s]].text[s]
    <3>1. lookup'[s] = old[s] /\ code'[s] = code[s]
      BY <2>1, <2>7 DEF Indices
    <3>2. s \notin fetched /\ old[s] = Checked.lookup[s] /\ copy'[s] = Checked.copy[s]
      BY <2>1, <2>2, <2>7, <3>1
    <3> QED BY <2>7, <3>1, <3>2, CheckedOwn DEF Current
  <2> QED BY <2>1, <2>3, <2>5, <2>6, <2>7 DEF Own, Current
<1> QED BY <1>4, <1>5 DEF EnterCompiled

\* A store or a transfer never brings a block back.
LEMMA OwnNext == LinkInv /\ Own /\ [Next]_vars => Own'
<1> SUFFICES ASSUME LinkInv, Own, [Next]_vars, ~link' PROVE Own'
    BY DEF Own
<1>1. UNCHANGED options /\ link' = link
    BY DEF Next, Enter, EnterFound, EnterKept, EnterCompiled, JumpLinked, Return, Store, Dma, vars, options
<1>2. lookup \in [Words -> Nat] /\ copy \in [Words -> Versions \cup {Dummy}]
    BY DEF LinkInv, Typed
<1>3. CASE EnterCompiled
    BY <1>1, <1>3, OwnCompiled
<1>4. CASE Store
  <2>1. PICK w \in Changing :
          IF PageOf(w) \in guarded /\ copy[w] # Dummy
          THEN copy' = [copy EXCEPT ![w] = Dummy] /\ lookup' = Without({PageOf(w)})
          ELSE UNCHANGED <<copy, lookup>>
    BY <1>4 DEF Store
  <2>2. code' = code
    BY <1>4 DEF Store
  <2>3. ASSUME NEW s \in Words, lookup'[s] # 0
        PROVE  lookup'[s] = lookup[s] /\ copy'[s] = copy[s]
    BY <1>2, <2>1, <2>3 DEF Without
  <2> QED BY <1>1, <2>2, <2>3 DEF Own, Current
<1>5. CASE Dma
  <2>1. UNCHANGED <<code, copy>> /\ \A s \in Words : lookup'[s] # 0 => lookup'[s] = lookup[s]
    BY <1>2, <1>5 DEF Dma
  <2> QED BY <1>1, <2>1 DEF Own, Current
<1>6. ~EnterKept
    BY <1>1 DEF EnterKept
<1>7. EnterFound \/ JumpLinked \/ Return \/ UNCHANGED vars => UNCHANGED <<copy, code, lookup>>
    BY DEF EnterFound, JumpLinked, Return, vars
<1> QED BY <1>1, <1>3, <1>4, <1>5, <1>6, <1>7 DEF Next, Enter, Own, Current

\* A check that passes has compared the first word with its copy.
LEMMA PassedCompared ==
    ASSUME LinkInv, pc # 0, lookup[pc] # 0, Dyna_Check_Codes.ok,
           method \in {"DWORD", "QWORD", "QWORD_DMA", "BLOCK", "BLOCK_DMA"}
    PROVE  ~Stale(pc)
<1>1. \A gone, seen : ~Failed(gone, seen).ok
    BY DEF Failed
<1>2. pc \in DOMAIN Current(pc).text
  <2>1. pc \in Words /\ lookup[pc] \in Nat /\ lookup[pc] <= Len(code[pc]) /\ Len(code[pc]) \in Nat
    BY DEF LinkInv, Typed, InTable
  <2>2. lookup[pc] \in 1..Len(code[pc])
    BY <2>1
  <2>3. DOMAIN Current(pc).text = Body(pc)
    BY <2>1, <2>2 DEF LinkInv, Shape, Current
  <2> QED BY <2>1, <2>3, BodyHasFirst
<1>3. CheckDWORD.ok => ~Stale(pc)
    BY <1>1 DEF CheckDWORD
<1>4. CheckQWORD.ok => ~Stale(pc)
    BY <1>1 DEF CheckQWORD
<1>5. CheckBLOCK.ok => ~Stale(pc)
    BY <1>1, <1>2 DEF CheckBLOCK
<1> QED BY <1>3, <1>4, <1>5 DEF Dyna_Check_Codes

KnownMethod == method \in Methods

(* A check that compares words never lets a block in whose first word has   *)
(* changed since it was compiled (Dyna_Check_Codes), when blocks are not    *)
(* linked and the block is not at the first word of RDRAM.                  *)
THEOREM EntriesFresh == Spec => EntryFresh
<1>1. Init => LinkInv /\ Runs /\ Own /\ KnownMethod
  <2>1. Init => Own
    BY DEF Init, Own
  <2>2. Init => KnownMethod
    BY DEF Init, KnownMethod
  <2> QED BY <2>1, <2>2, LinkInit
<1>2. LinkInv /\ Runs /\ Own /\ KnownMethod /\ [Next]_vars
        => LinkInv' /\ Runs' /\ Own' /\ KnownMethod'
  <2>1. [Next]_vars => UNCHANGED method
    BY DEF Next, Enter, EnterFound, EnterKept, EnterCompiled, JumpLinked, Return, Store, Dma, vars, options
  <2> QED BY <2>1, LinkNext, OwnNext DEF KnownMethod
<1>3. LinkInv /\ Own /\ KnownMethod /\ [Next]_vars =>
        [Enter /\ ~link /\ pc # 0 /\ method \notin {"NONE", "DMA", "PROTECT"}
           => code'[running'[1]][running'[2]].text[pc] = ram[pc]]_vars
  <2> SUFFICES ASSUME LinkInv, Own, KnownMethod, Enter, ~link, pc # 0,
                      method \notin {"NONE", "DMA", "PROTECT"}
               PROVE  code'[running'[1]][running'[2]].text[pc] = ram[pc]
    OBVIOUS
  <2>1. CASE EnterCompiled
    BY <2>1, OwnCompiled
  <2>2. CASE EnterFound
    <3>1. code' = code /\ running' = <<pc, lookup[pc]>> /\ Checked.ok
      BY <2>2 DEF EnterFound
    <3>2. lookup[pc] # 0 /\ Dyna_Check_Codes.ok
      BY <3>1 DEF Checked, Passed
    <3>3. copy[pc] = ram[pc]
      BY <3>2, PassedCompared, MethodsAssumption DEF Stale, KnownMethod
    <3>4. copy[pc] = code[pc][lookup[pc]].text[pc]
      BY <3>2 DEF Own, LinkInv, Typed, Current
    <3> QED BY <3>1, <3>3, <3>4
  <2> QED BY <2>1, <2>2 DEF Enter, EnterKept
<1> QED BY <1>1, <1>2, <1>3, PTL DEF Spec, EntryFresh
===============================================================================
