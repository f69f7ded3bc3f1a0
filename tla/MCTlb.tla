--------------------------------- MODULE MCTlb ---------------------------------
(* Two entries over four pages, with halves of one page and of two.           *)
EXTENDS Tlb

\* The frame 3 is not aligned to a half of two pages.
Lo == {[v |-> TRUE, f |-> 3], [v |-> FALSE, f |-> 0]}

E(base, size, lo0, lo1) ==
    [base |-> base, size |-> size, asid |-> 0, g |-> TRUE,
     lo0 |-> [v |-> lo0 # 9, f |-> lo0 % 9], lo1 |-> [v |-> lo1 # 9, f |-> lo1 % 9]]

\* A save of the empty buffer, one with a large entry, one with two small ones.
SavedEntries ==
    {[i \in Index |-> Blank],
     [i \in Index |-> IF i = 0 THEN E(0, 2, 2, 9) ELSE Blank],
     [i \in Index |-> IF i = 0 THEN E(2, 1, 9, 2) ELSE E(0, 1, 2, 0)]}
===============================================================================
