------------------------------- MODULE Sizing -------------------------------
(***************************************************************************)
(* How a VM's memory and CPUs are sized.  Bench.guests enters Vm(id) for   *)
(* id in range(num), in order.  Each Vm.__enter__ builds the hypervisor's  *)
(* argument vector with Vm.args from the pool configuration:               *)
(*   Bench.dram_size = round_down(mem * dram_ratio, PAGE_SIZE)             *)
(*   Bench.pmem_size = round_up(mem * (1 - dram_ratio), PAGE_SIZE)         *)
(* the memory zones (split or full-size when a balloon enforces the        *)
(* split), the balloon device (Balloon.to_size), and the host-CPU          *)
(* affinity, islice(cycle(node_to_cpus(node)), vcpus*id, vcpus*(id+1)).    *)
(*                                                                         *)
(* Sizes are in units of one byte-scale of the model; dram_ratio is in     *)
(* tenths, so mem * dram_ratio is exact (the float product of the code is  *)
(* exact for a power-of-two mem, the default 16 << 30).                    *)
(***************************************************************************)
EXTENDS Integers, Sequences, FiniteSets, SequencesExt

CONSTANTS
  PAGE_SIZE,   \* utils.PAGE_SIZE
  Mems,        \* possible Bench.mem values
  Ratios,      \* possible Bench.dram_ratio values, in tenths
  MaxCpus,     \* largest number of CPUs of the NUMA node
  VCpus,       \* possible Bench.cpu values
  Nums         \* possible Bench.num values

ASSUME PAGE_SIZE \in Nat \ {0} /\ Mems \subseteq Nat /\ Ratios \subseteq 0..10

Balloons == {"hetero", "legacy", "none"}   \* Optional[Balloon]

VARIABLES
  hetero, balloon, mem, ratio, vcpus, num,  \* the Bench configuration
  cpus,   \* node_to_cpus(dram_node): the node's CPU list
  id,     \* the next Vm to enter
  args    \* args[i]: what Vm(i).args passed to cloud-hypervisor

config == <<hetero, balloon, mem, ratio, vcpus, num, cpus>>
vars == <<config, id, args>>

---------------------------------------------------------------------------
(* utils.py and Bench's derived sizes.                                    *)

\* int(x) of the float x = n / d: truncation toward zero.
PyInt(n, d) == IF n >= 0 THEN n \div d ELSE -((-n) \div d)

\* round_down(n, m) == int(n) // m * m, with n = num / den.
RoundDown(num_, den, m) == (PyInt(num_, den) \div m) * m
\* Mutant: round_up as int(n) // m * m + m, a page too many when exact.
RoundUpPastExact(num_, den, m) == ((PyInt(num_, den) \div m) + 1) * m
\* round_up(n, m) == (int(n) + m - 1) // m * m
RoundUp(num_, den, m) == ((PyInt(num_, den) + m - 1) \div m) * m

dram_size == RoundDown(mem * ratio, 10, PAGE_SIZE)
pmem_size == RoundUp(mem * (10 - ratio), 10, PAGE_SIZE)

\* Balloon.to_size(total_mem, dram_avail, pmem_avail): how much of each
\* tier the balloon takes back from the guest.
ToSize(b, total, d, p) ==
  IF b = "hetero" THEN <<total - d, total - p>>
                  ELSE <<total - d + total - p, 0>>

---------------------------------------------------------------------------
(* Vm.args.                                                                *)

\* islice(cycle(s), start, stop): the items start .. stop-1 of the endless
\* repetition of s; nothing at all when s is empty.
RECURSIVE ISliceCycle(_, _, _)
ISliceCycle(s, start, stop) ==
  IF s = <<>> \/ start >= stop THEN <<>>
  ELSE <<s[(start % Len(s)) + 1]>> \o ISliceCycle(s, start + 1, stop)

\* Mutant: the slice starts at id instead of vcpus * id.
HostCpusNoStride(i) == ISliceCycle(cpus, i, i + vcpus)

HostCpus(i) == ISliceCycle(cpus, vcpus * i, vcpus * (i + 1))

\* Mutant: the PMEM zone sized by dram_size (copy of the DRAM line).
ZonesCopyPaste ==
  IF hetero
    THEN <<IF balloon # "none" THEN mem ELSE dram_size,
           IF balloon # "none" THEN mem ELSE dram_size>>
    ELSE <<mem>>

\* The memory zones: with hetero a DRAM and a PMEM zone, each the full mem
\* when a balloon enforces the split, else pre-split; without hetero one
\* zone of mem.
Zones ==
  IF hetero
    THEN <<IF balloon # "none" THEN mem ELSE dram_size,
           IF balloon # "none" THEN mem ELSE pmem_size>>
    ELSE <<mem>>

\* The --balloon device: to_size of the split with hetero, size=[0,0]
\* without, no device with no balloon.
BalloonSize ==
  IF balloon = "none" THEN <<0, 0>>
  ELSE IF hetero THEN ToSize(balloon, mem, dram_size, pmem_size)
  ELSE <<0, 0>>

\* node_to_cpus(node) when numa_node_to_cpus succeeds: get_bitset_list of
\* the node's mask, its CPU ids in increasing order; the ids of a node need
\* not be contiguous (SMT siblings are numbered after all cores).  The
\* other outcome, [] for a failed call or a CPU-less node, is not taken.
NodeCpus == {SetToSortSeq(S, <) : S \in SUBSET (0..(MaxCpus - 1)) \ {{}}}

VmArgs(i) == [zones |-> Zones, balloon |-> BalloonSize, cpus |-> HostCpus(i)]

NoArgs == [zones |-> <<>>, balloon |-> <<0, 0>>, cpus |-> <<>>]

---------------------------------------------------------------------------

TypeOK ==
  /\ hetero \in BOOLEAN /\ balloon \in Balloons
  /\ mem \in Mems /\ ratio \in Ratios /\ vcpus \in VCpus /\ num \in Nums
  /\ cpus \in NodeCpus
  /\ id \in 0..num
  /\ args \in [0..(num - 1) -> [zones : Seq(Int), balloon : Int \X Int,
                                 cpus : Seq(0..MaxCpus)]]

\* A Bench as pydantic builds it from the command line; dram_node is also
\* the CPU node.
Init ==
  /\ hetero \in BOOLEAN /\ balloon \in Balloons
  /\ mem \in Mems /\ ratio \in Ratios /\ vcpus \in VCpus /\ num \in Nums
  /\ cpus \in NodeCpus
  /\ id = 0
  /\ args = [i \in 0..(num - 1) |-> NoArgs]

\* Mutant: for id in range(num + 1).
EnterVmOneMore ==
  /\ id <= num
  /\ args' = [args EXCEPT ![id] = VmArgs(id)]
  /\ id' = id + 1
  /\ UNCHANGED config

\* Vm(id).__enter__ computes its argument vector.
EnterVm ==
  /\ id < num
  /\ args' = [args EXCEPT ![id] = VmArgs(id)]
  /\ id' = id + 1
  /\ UNCHANGED config

Entered ==
  /\ id = num
  /\ UNCHANGED vars

Next == EnterVm \/ Entered

Spec == Init /\ [][Next]_vars

---------------------------------------------------------------------------
(* Properties.                                                            *)

Built == 0..(id - 1)

\* The design: dram_size + pmem_size is mem to within one page, for every
\* dram_ratio.  Bench.dram_size rounds down and Bench.pmem_size up, but
\* both first truncate with int(), so together they can lose one byte more
\* than a rounding: the sum is never a page above mem and at worst exactly
\* a page below (16 GiB is exact; 25 GiB at 0.29 loses 4096 bytes).
SizesCoverMem ==
  LET diff == dram_size + pmem_size - mem IN -PAGE_SIZE <= diff /\ diff < PAGE_SIZE

\* What the guest can use of each tier (its zones less what the balloon
\* takes back) is dram_size of DRAM and pmem_size of PMEM with hetero and a
\* tiered balloon or none; a legacy balloon leaves dram_size + pmem_size in
\* all; without hetero the guest has mem.  Vm.args and Balloon.to_size
\* have to agree on this.
Usable(a) ==
  IF Len(a.zones) = 2 /\ balloon # "legacy"
    THEN <<a.zones[1] - a.balloon[1], a.zones[2] - a.balloon[2]>>
    ELSE <<a.zones[1] + (IF Len(a.zones) = 2 THEN a.zones[2] ELSE 0)
             - a.balloon[1] - a.balloon[2]>>

GuestSeesConfig ==
  \A i \in Built :
    Usable(args[i]) =
      IF ~hetero THEN <<mem>>
      ELSE IF balloon = "legacy" THEN <<dram_size + pmem_size>>
      ELSE <<dram_size, pmem_size>>

\* The design's affinity: every vCPU of VM i is pinned to the node's CPUs
\* [i*vcpus, (i+1)*vcpus) modulo the CPU count, so VMs share no CPU while
\* num * vcpus fits the node.
AffinityAsDesigned ==
  \A i \in Built :
    /\ args[i].cpus = [k \in 1..vcpus |-> cpus[((vcpus * i + k - 1) % Len(cpus)) + 1]]
    /\ num * vcpus <= Len(cpus) =>
         \A j \in Built \ {i} :
           {args[i].cpus[k] : k \in 1..vcpus} \cap {args[j].cpus[k] : k \in 1..vcpus} = {}

=============================================================================
