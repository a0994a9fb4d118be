------------------------------ MODULE Admission ------------------------------
(***************************************************************************)
(* The admission controller: Bench._guests_prepare(vms) of                 *)
(* src/bench/bench/bench.py.  With hetero set it prepares the guests in    *)
(* batches taken from the end of the VM list, each batch as large as the   *)
(* free DRAM of the DRAM node affords, retrying up to Bench.timeout times  *)
(* when nothing fits; without hetero it prepares all guests at once.       *)
(*                                                                         *)
(* Memory is counted in tenths of GiB so that vmmem = mem * dram_ratio    *)
(* (a float in the code) is exact.  The run configuration (hetero,        *)
(* balloon, dram_ratio, node size) is chosen in Init and never changes.    *)
(* The host side changes on its own: memory used by others on the node    *)
(* moves, prepared guests' ballooned memory settles with a delay, time     *)
(* passes.                                                                 *)
(***************************************************************************)
EXTENDS Naturals, FiniteSets

CONSTANTS
  NumVms,        \* Bench.num
  Timeout,       \* Bench.timeout, the retry budget
  MemGiB,        \* Bench.mem in GiB
  Ratios,        \* possible Bench.dram_ratio values, in tenths
  NodeSizes,     \* possible DRAM node sizes, in tenths of GiB
  OtherUse,      \* possible amounts used on the node by others (tenths)
  MaxClock       \* bound on elapsed time units

ASSUME NumVms \in Nat \ {0} /\ Timeout \in Nat /\ MaxClock \in Nat

Balloons == {"hetero", "legacy", "none"}   \* Optional[Balloon]
Vms == 0..(NumVms - 1)

VARIABLES
  hetero, balloon, ratio, total,   \* configuration, fixed in Init
  apc,       \* control point of _guests_prepare
  retry,     \* the for loop's retry (counts down from Timeout - 1)
  remain,    \* VMs not yet prepared: vms[0:remain]
  batch,     \* the batch chosen by the last free-memory read
  prepared,  \* number of times each VM was prepared
  err,       \* the exception raised, if any
  settled,   \* prepared guests whose memory is now taken from the node
  other,     \* memory used on the node by others
  clock,     \* elapsed time units
  fitFree    \* history: every batch fit the true free memory when read

config == <<hetero, balloon, ratio, total>>
vars == <<config, apc, retry, remain, batch, prepared, err, settled, other, clock, fitFree>>

Errors == {"none", "nomem", "guest", "type", "zerodiv"}

TypeOK ==
  /\ hetero \in BOOLEAN /\ balloon \in Balloons
  /\ ratio \in Ratios /\ total \in NodeSizes
  /\ apc \in {"start", "loop", "batch", "done", "raised"}
  /\ retry \in 0..Timeout
  /\ remain \in 0..NumVms
  /\ batch \in 0..NumVms
  /\ prepared \in [Vms -> Nat]
  /\ err \in Errors
  /\ settled \in 0..NumVms
  /\ other \in OtherUse
  /\ clock \in 0..MaxClock
  /\ fitFree \in BOOLEAN

Init ==
  /\ hetero \in BOOLEAN /\ balloon \in Balloons
  /\ ratio \in Ratios /\ total \in NodeSizes
  /\ apc = "start"
  /\ retry = 0
  /\ remain = NumVms
  /\ batch = 0
  /\ prepared = [v \in Vms |-> 0]
  /\ err = "none"
  /\ settled = 0
  /\ other \in OtherUse
  /\ clock = 0
  /\ fitFree = TRUE

---------------------------------------------------------------------------
(* Memory as the code reads it.                                           *)

\* numa.memory.node_memory_info(node) returns (total, free) of the node.
NodeMemoryInfo == <<total, total - other - settled * MemGiB * 10>>
\* utils.node_memory_free returns node_memory_info(node)[0]: the total.
NodeMemoryFree == NodeMemoryInfo[1]
TrueFree == NodeMemoryInfo[2]

\* vmmem = self.mem, times dram_ratio when there is no balloon: then the
\* product, and everything computed from it, is a Python float.
VmMem == IF balloon = "none" THEN MemGiB * ratio ELSE MemGiB * 10
IsFloat == balloon = "none"

MinOf(a, b) == IF a <= b THEN a ELSE b

---------------------------------------------------------------------------

\* Entry: if not self.hetero, one batch of all VMs; else the for loop over
\* reversed(range(self.timeout)), which has no iteration when timeout = 0.
Start ==
  /\ apc = "start"
  /\ IF hetero
       THEN IF Timeout = 0
              THEN apc' = "done" /\ UNCHANGED <<retry, batch>>
              ELSE apc' = "loop" /\ retry' = Timeout - 1 /\ UNCHANGED batch
       ELSE apc' = "batch" /\ batch' = NumVms /\ UNCHANGED retry
  /\ UNCHANGED <<config, remain, prepared, err, settled, other, clock, fitFree>>

\* Mutant: batch = enough, without min(enough, remain).
ReadFreeNoMin ==
  /\ apc = "loop"
  /\ remain > 0
  /\ VmMem > 0
  /\ LET b == NodeMemoryFree \div VmMem IN
       IF b = 0
         THEN /\ UNCHANGED <<batch, fitFree>>
              /\ IF retry = 0
                   THEN apc' = "raised" /\ err' = "nomem" /\ UNCHANGED retry
                   ELSE retry' = retry - 1 /\ UNCHANGED <<apc, err>>
         ELSE /\ batch' = b
              /\ fitFree' = (fitFree /\ b * VmMem <= TrueFree)
              /\ apc' = "batch"
              /\ UNCHANGED <<retry, err>>
  /\ UNCHANGED <<config, remain, prepared, settled, other, clock>>

\* One pass of the while loop's head: read free memory, enough = free //
\* vmmem, batch = min(enough, remain).  A zero batch leaves the while loop;
\* then the last retry raises, any other goes round the for loop again at
\* once.  With a float vmmem, min() returns the float enough unless remain
\* is strictly smaller, and slicing vms with it raises TypeError.
ReadFree ==
  /\ apc = "loop"
  /\ remain > 0
  /\ IF VmMem = 0
       THEN apc' = "raised" /\ err' = "zerodiv" /\ UNCHANGED <<batch, retry, fitFree>>
       ELSE LET enough == NodeMemoryFree \div VmMem
                b == MinOf(enough, remain) IN
            IF b = 0
              THEN /\ UNCHANGED <<batch, fitFree>>
                   /\ IF retry = 0
                        THEN apc' = "raised" /\ err' = "nomem" /\ UNCHANGED retry
                        ELSE retry' = retry - 1 /\ UNCHANGED <<apc, err>>
              ELSE /\ batch' = b
                   /\ fitFree' = (fitFree /\ b * VmMem <= TrueFree)
                   /\ IF IsFloat /\ enough <= remain
                        THEN apc' = "raised" /\ err' = "type"
                        ELSE apc' = "batch" /\ UNCHANGED err
                   /\ UNCHANGED retry
  /\ UNCHANGED <<config, remain, prepared, settled, other, clock>>

\* Mutant: the slice end is taken as inclusive.
PrepareBatchInclusive ==
  /\ apc = "batch"
  /\ prepared' = [v \in Vms |-> IF remain - batch <= v /\ v <= remain
                                   THEN prepared[v] + 1 ELSE prepared[v]]
  /\ remain' = remain - batch
  /\ clock' = IF balloon # "none" /\ clock < MaxClock THEN clock + 1 ELSE clock
  /\ apc' = IF ~hetero \/ remain - batch = 0 THEN "done" ELSE "loop"
  /\ UNCHANGED <<config, retry, batch, err, settled, other, fitFree>>

\* The batch vms[remain - batch : remain] on one ThreadingGroup:
\* prepare_dirs, prepare_kernel and, with a balloon, enable_balloon and the
\* "sleep mem_GiB * 3" in the guests.  Any failing guest command raises a
\* GroupException.  Then remain -= batch; when it reaches 0 both loops end.
PrepareBatch ==
  /\ apc = "batch"
  /\ \/ /\ apc' = "raised"
        /\ err' = "guest"
        /\ UNCHANGED <<remain, prepared, clock>>
     \/ /\ prepared' = [v \in Vms |-> IF remain - batch <= v /\ v < remain
                                        THEN prepared[v] + 1 ELSE prepared[v]]
        /\ remain' = remain - batch
        /\ clock' = IF balloon # "none" /\ clock < MaxClock THEN clock + 1 ELSE clock
        /\ apc' = IF ~hetero \/ remain - batch = 0 THEN "done" ELSE "loop"
        /\ UNCHANGED err
  /\ UNCHANGED <<config, retry, batch, settled, other, fitFree>>

---------------------------------------------------------------------------
(* The host.                                                              *)

\* A prepared guest's memory is taken from the node, some time after its
\* batch was prepared.
Settle ==
  /\ settled < NumVms - remain
  /\ settled' = settled + 1
  /\ UNCHANGED <<config, apc, retry, remain, batch, prepared, err, other, clock, fitFree>>

\* Other processes on the host (another pool included) allocate or free.
OtherChange ==
  /\ other' \in OtherUse \ {other}
  /\ UNCHANGED <<config, apc, retry, remain, batch, prepared, err, settled, clock, fitFree>>

Tick ==
  /\ apc \notin {"done", "raised"}
  /\ clock < MaxClock
  /\ clock' = clock + 1
  /\ UNCHANGED <<config, apc, retry, remain, batch, prepared, err, settled, other, fitFree>>

Finished ==
  /\ apc \in {"done", "raised"}
  /\ UNCHANGED vars

Step == Start \/ ReadFree \/ PrepareBatch
Next == Step \/ Settle \/ OtherChange \/ Tick \/ Finished

Spec == Init /\ [][Next]_vars /\ WF_vars(Step)

---------------------------------------------------------------------------
(* Properties.                                                            *)

\* Every guest is prepared (mounted, kernel modules linked, balloon
\* driver loaded) at most once: successive batches vms[remain-batch:remain]
\* never overlap.
PreparedOnce == \A v \in Vms : prepared[v] <= 1

\* The only exceptions are the two the design names: not enough memory,
\* and a failing guest command.
OnlyNamedErrors == err \in {"none", "nomem", "guest"}

\* Admission never admits more VMs in one batch than the free memory of
\* the DRAM node affords at the time of the check.
AdmitWithinFree == fitFree

\* The retry budget is time: "Not enough memory" is raised only after
\* Timeout time units spent waiting for memory.
RetriesTakeTime == err = "nomem" => clock >= Timeout

\* _guests_prepare always returns or raises.
Terminates == <>(apc \in {"done", "raised"})
\* Admission implements AdmissionSpec: seen through the guests prepared
\* and whether the call is still running, returned or raised, every step of
\* the loop either changes nothing the caller sees (a free-memory read, a
\* retry, a balloon wait) or prepares the batch right below the guests
\* already prepared, each once; it returns only with all of them prepared,
\* and it does return or raise, however memory on the node comes and goes.
Abstract == INSTANCE AdmissionSpec
              WITH status <- CASE apc = "done"   -> "done"
                               [] apc = "raised" -> "raised"
                               [] OTHER          -> "running"

AdmissionRefines == Abstract!Spec
=============================================================================
