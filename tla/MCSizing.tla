------------------------------ MODULE MCSizing ------------------------------
(* Sizing with small sizes: a page of 4, mem page-aligned (16) and not    *)
(* (18), every dram_ratio in tenths.                                       *)
EXTENDS Sizing

MCMems == {16, 18}
MCRatios == 0..10
MCVCpus == {1, 2}
MCNums == {1, 2, 3}
=============================================================================
