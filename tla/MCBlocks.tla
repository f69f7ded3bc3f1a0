------------------------------- MODULE MCBlocks -------------------------------
(* Two pages of three words; the blocks at 0 and 1 overlap, the block at 1   *)
(* loops through links, the slot at 2 opens a block that runs off the page.  *)
EXTENDS Blocks, TLC

Exit == (1 :> 0) @@ (4 :> 1)
\* A branch in the last word of the first page: its slot is on the second.
SplitExit == (2 :> 0) @@ (4 :> 1)
Symmetry == Permutations(Versions)
===============================================================================
