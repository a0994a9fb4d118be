---------------------------- MODULE MCAdmission ----------------------------
(* Three 16 GiB VMs; a DRAM node of 8 GiB (nothing fits) or 40 GiB (two   *)
(* fit, as in the design's end-to-end example); dram_ratio 0 or 0.4;      *)
(* others using nothing or 16 GiB of the node.                            *)
EXTENDS Admission

MCRatios == {0, 4}
MCRatiosNonZero == {4}
MCNodeSizes == {80, 400}
MCOtherUse == {0, 160}
=============================================================================
