----------------------------- MODULE MCLauncher -----------------------------
(* Every launcher name, a failing and a succeeding workload.             *)
EXTENDS Launcher

MCDesigns == {"demeter", "memtis", "nomad", "tpp", "noop"}
MCExitCodes == {0, 1}
=============================================================================
