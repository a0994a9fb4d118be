-------------------------------- MODULE Pool --------------------------------
(***************************************************************************)
(* The pool orchestrator: Bench.guests() of src/bench/bench/bench.py, the  *)
(* context manager every benchmark runs inside.  One thread:               *)
(*   1. an ExitStack with the final chown callback at the bottom;          *)
(*   2. enter Vm(id) for id in range(num), in order (vm.py __enter__);     *)
(*   3. vm.wait_for_boot() for each VM, in order;                          *)
(*   4. _guests_prepare(vms) (memory-gated guest preparation, modelled in  *)
(*      detail by Admission.tla; here only its outcome);                   *)
(*   5. push the "cp -r /sys/kernel/debug/kvm" callback, yield to the     *)
(*      benchmark; GroupException / SSHException from it are swallowed;    *)
(*   6. the ExitStack unwinds: kvm copy, Vm.__exit__ for the VMs in        *)
(*      reverse order, chown.  An exception raised by one exit callback is *)
(*      passed to the ones below it.                                       *)
(***************************************************************************)
EXTENDS VmSupervisor, FiniteSets

VARIABLES
  ppc,     \* control point of guests()
  cur,     \* the VM being entered or waited for
  pstack,  \* the ExitStack of guests(), bottom first
  exc,     \* an exception is propagating through the stack
  ran,     \* history: the benchmark body was reached
  wl,      \* wl[v]: the workload's run on guest v, in the fan-out SSH group
  outcome, \* how the benchmark body ended
  exitTy   \* history: exitTy[v], whether Vm(v).__exit__ got an exception

bodyVars == <<wl, outcome>>
poolVars == <<ppc, cur, pstack, exc, ran, exitTy, bodyVars>>
vars == <<vmVars, poolVars>>

N == Cardinality(Vms)
ASSUME Vms = 0..(N - 1) /\ N > 0

\* Entries of the ExitStack: a Vm's __exit__ or one of the two callbacks.
VmCb(v)  == [cb |-> "vm", vm |-> v]
ChownCb  == [cb |-> "chown", vm |-> 0]
KvmCb    == [cb |-> "kvm", vm |-> 0]
Callbacks == {VmCb(v) : v \in Vms} \cup {ChownCb, KvmCb}

TypeOK ==
  /\ VmTypeOK
  /\ ppc \in {"enter", "wait", "prepare", "body", "unwind", "done"}
  /\ cur \in 0..N
  /\ pstack \in Seq(Callbacks)
  /\ exc \in BOOLEAN
  /\ ran \in BOOLEAN
  /\ wl \in [Vms -> {"none", "running", "ok", "failed", "lost"}]
  /\ outcome \in {"none", "finished", "sshwarn", "raised"}
  /\ exitTy \in [Vms -> {"none", "exc", "clean"}]

Init ==
  /\ VmInit
  /\ ppc = "enter"
  /\ cur = 0
  /\ pstack = <<ChownCb>>
  /\ exc = FALSE
  /\ ran = FALSE
  /\ wl = [v \in Vms |-> "none"]
  /\ outcome = "none"
  /\ exitTy = [v \in Vms |-> "none"]

Top == Last(pstack)
TopVm == Top.vm
Pop == pstack' = Front(pstack)

---------------------------------------------------------------------------
(* 2. vms = [stack.enter_context(Vm(id=id, bench=self)) for id in ...]    *)

\* A step of Vm(cur).__enter__, its rollback included.
EnterStep ==
  /\ ppc = "enter"
  /\ cur < N
  /\ \/ StartDaemon(cur) \/ ApiInfo(cur)
     \/ StopTop(cur) \/ StackClosed(cur)
  /\ UNCHANGED poolVars

\* __enter__ returned: enter_context pushes the Vm's __exit__.
Entered ==
  /\ ppc = "enter"
  /\ cur < N
  /\ vpc[cur] = "up"
  /\ pstack' = Append(pstack, VmCb(cur))
  /\ IF cur + 1 = N
       THEN ppc' = "wait" /\ cur' = 0
       ELSE ppc' = "enter" /\ cur' = cur + 1
  /\ UNCHANGED <<bodyVars, exc, ran, exitTy, vmVars>>

\* __enter__ re-raised after closing its own stack: the Vm is not on the
\* pool's stack, and the exception unwinds the VMs entered before it.
EnterFailed ==
  /\ ppc = "enter"
  /\ vpc[cur] = "failed"
  /\ ppc' = "unwind"
  /\ exc' = TRUE
  /\ UNCHANGED <<bodyVars, cur, pstack, ran, exitTy, vmVars>>

---------------------------------------------------------------------------
(* 3. self._guests_wait(vms)                                              *)

WaitStep ==
  /\ ppc = "wait"
  /\ cur < N
  /\ Probe(cur) \/ EmptyWait(cur)
  /\ UNCHANGED poolVars

Booted ==
  /\ ppc = "wait"
  /\ cur < N
  /\ ready[cur]
  /\ IF cur + 1 = N
       THEN ppc' = "prepare" /\ cur' = N
       ELSE ppc' = "wait" /\ cur' = cur + 1
  /\ UNCHANGED <<bodyVars, pstack, exc, ran, exitTy, vmVars>>

\* RuntimeError(f"vm {self.id} failed to boot"), or the SSHException of
\* a probe, unwinds the pool.
BootTimeout ==
  /\ ppc = "wait"
  /\ cur < N
  /\ BootTimedOut(cur) \/ sshErr[cur]
  /\ ppc' = "unwind"
  /\ exc' = TRUE
  /\ UNCHANGED <<bodyVars, cur, pstack, ran, exitTy, vmVars>>

---------------------------------------------------------------------------
(* 4-5. _guests_prepare, the kvm-copy callback, the benchmark body.       *)

\* tasks.prepare_dirs and prepare_kernel on guest v: sudo commands over
\* SSH, two of which mount the virtiofs shares "data" and "out".
PrepareDirsOK(v) == Reachable(v) /\ proc[v]["data"] = "up" /\ proc[v]["out"] = "up"

\* The preparation commands run over SSH on every guest and mount the two
\* virtiofs shares; they succeed only if every guest is reachable and its
\* file servers are up.  They can still fail (GroupException, or
\* "Not enough memory for all VMs").  With hetero set and timeout = 0 the
\* retry loop of _guests_prepare has no iteration and returns at once,
\* with no command run on any guest (Admission.tla's Start).
Prepare ==
  /\ ppc = "prepare"
  /\ \/ /\ (\A v \in Vms : PrepareDirsOK(v)) \/ timeout = 0
        /\ ppc' = "body"
        /\ pstack' = Append(pstack, KvmCb)
        /\ ran' = TRUE
        /\ UNCHANGED exc
     \/ /\ ppc' = "unwind"
        /\ exc' = TRUE
        /\ UNCHANGED <<pstack, ran>>
  /\ UNCHANGED <<bodyVars, cur, exitTy, vmVars>>

\* The benchmark body: Bench.run(script) or Bench._benchmark(name), both
\* guests.run(...) of one shell line on the ThreadingGroup (the latter
\* through tasks.launch, which wraps the workload in a trap, the exports
\* and the design's launcher).  Each guest's command runs in its own
\* thread; a guest that does not answer fails at once.
Launch ==
  /\ ppc = "body"
  /\ \A v \in Vms : wl[v] = "none"
  /\ wl' = [v \in Vms |-> IF Reachable(v) THEN "running" ELSE "lost"]
  /\ UNCHANGED <<outcome, ppc, cur, pstack, exc, ran, exitTy, vmVars>>

\* The workload on guest v exits with status 0 or not, or its SSH session
\* breaks because the guest went away.
WorkloadEnd(v) ==
  /\ ppc = "body"
  /\ wl[v] = "running"
  /\ \/ wl' = [wl EXCEPT ![v] = "ok"]
     \/ wl' = [wl EXCEPT ![v] = "failed"]
     \/ ~Reachable(v) /\ wl' = [wl EXCEPT ![v] = "lost"]
  /\ UNCHANGED <<outcome, ppc, cur, pstack, exc, ran, exitTy, vmVars>>

\* Group.run returns once every thread has: with every command at status 0
\* a GroupResult, and _benchmark logs "{name} finished" (its "failed"
\* branch is never taken); otherwise it raises GroupException, which
\* guests() catches and logs as an SSH error.  Either way no exception
\* leaves the body.
GroupReturn ==
  /\ ppc = "body"
  /\ \A v \in Vms : wl[v] \in {"ok", "failed", "lost"}
  /\ outcome' = IF \A v \in Vms : wl[v] = "ok" THEN "finished" ELSE "sshwarn"
  /\ ppc' = "unwind"
  /\ exc' = FALSE
  /\ UNCHANGED <<wl, cur, pstack, ran, exitTy, vmVars>>

\* Any other exception in the body (KeyboardInterrupt, the only way out of
\* Bench.manual's sleep, among them) leaves guests() through its stack;
\* the workloads still running are left to the teardown.
Interrupt ==
  /\ ppc = "body"
  /\ outcome' = "raised"
  /\ ppc' = "unwind"
  /\ exc' = TRUE
  /\ UNCHANGED <<wl, cur, pstack, ran, exitTy, vmVars>>

---------------------------------------------------------------------------
(* 6. Unwinding the ExitStack of guests().                                *)

\* check_output("sudo cp -r /sys/kernel/debug/kvm ..."): a
\* CalledProcessError becomes the pending exception.
CopyKvm ==
  /\ ppc = "unwind"
  /\ Top = KvmCb
  /\ Pop
  /\ \/ UNCHANGED <<exc, faults>>
     \/ /\ faults < MaxFaults
        /\ faults' = faults + 1
        /\ exc' = TRUE
  /\ UNCHANGED <<bodyVars, ppc, cur, ran, exitTy, vpc, vstack, proc, stops, guest, tries, ready, sshErr, timeout>>

\* A step of Vm(v).__exit__(ty, ...) where ty is the pending exception.
ExitStep ==
  /\ ppc = "unwind"
  /\ Top.cb = "vm"
  /\ \/ /\ ExitVm(TopVm, exc)
        /\ exitTy' = [exitTy EXCEPT ![TopVm] = IF exc THEN "exc" ELSE "clean"]
     \/ /\ \/ Collect(TopVm) \/ Poweroff(TopVm)
           \/ StopTop(TopVm) \/ StackClosed(TopVm)
        /\ UNCHANGED exitTy
  /\ UNCHANGED <<ppc, cur, pstack, exc, ran, bodyVars>>

\* __exit__ returned (False: nothing suppressed) or raised.
Exited ==
  /\ ppc = "unwind"
  /\ Top.cb = "vm"
  /\ vpc[TopVm] \in {"down", "abandoned"}
  /\ Pop
  /\ exc' = (exc \/ vpc[TopVm] = "abandoned")
  /\ UNCHANGED <<bodyVars, ppc, cur, ran, exitTy, vmVars>>

\* sudo chown -R of the run directory, the bottom callback.
Chown ==
  /\ ppc = "unwind"
  /\ Top = ChownCb
  /\ Pop
  /\ ppc' = "done"
  /\ UNCHANGED <<bodyVars, cur, exc, ran, exitTy, vmVars>>

\* guests() has returned or raised: the program goes on without the pool.
Done ==
  /\ ppc = "done"
  /\ UNCHANGED vars

Driver ==
  \/ EnterStep \/ Entered \/ EnterFailed
  \/ WaitStep \/ Booted \/ BootTimeout
  \/ Prepare \/ Launch \/ GroupReturn
  \/ CopyKvm \/ ExitStep \/ Exited \/ Chown

Environment ==
  /\ \E v \in Vms : VmEnv(v)
  /\ UNCHANGED poolVars

Workloads == \E v \in Vms : WorkloadEnd(v)

Next == Driver \/ Environment \/ Workloads \/ Interrupt \/ Done

\* The orchestrator thread never waits on the daemons or the guests (each
\* SSH attempt and each API call returns or raises), so it is fair.  The
\* benchmark's guests.run has no timeout: guests() returns only if each
\* workload ends, or its session breaks, so that is assumed too.  An
\* interrupt may or may not come.
Spec == Init /\ [][Next]_vars /\ WF_vars(Driver) /\ WF_vars(Workloads)

---------------------------------------------------------------------------
(* Properties.                                                            *)

\* Live(v, d): the daemon's handle was acquired and has not been stopped.
NoneLive == \A v \in Vms, d \in Daemons : ~Unreleased(v, d)

\* Partial pools are never left running: if guests() gives up before the
\* benchmark (a VM fails to start, a guest never boots, preparation
\* fails), every daemon of every VM has been stopped when it returns.
NoPartialPool == (ppc = "done" /\ ~ran) => NoneLive

\* If no daemon died, every guest answers SSH when preparation starts:
\* wait_for_boot only returns once the guest has answered.
GuestsUpWhenPrepared ==
  (ppc = "prepare" /\ faults = 0) => \A v \in Vms : guest[v] = "on"

\* The same for a positive Bench.timeout: a wait_for_boot loop that runs
\* at all returns only on an answer, however the probes and the guests'
\* boots interleave.
BootedGuestsUp == timeout > 0 => GuestsUpWhenPrepared

\* Each VM's daemons are an ExitStack as ResourceStack specifies: a daemon
\* is held from its Popen until its terminate-and-wait, in the order of
\* vm.py:247-256; only the last one still held is ever stopped, and each
\* is stopped once, through rollback, the guest's own shutdown, crashes
\* and the pool's unwinding alike.
VmStacks == INSTANCE ResourceStack
              WITH Owners <- Vms,
                   Res <- Daemons,
                   held <- [v \in Vms |-> SelectSeq(AcquireOrder, LAMBDA d : Unreleased(v, d))],
                   released <- stops

VmStacksRefine == VmStacks!Spec

\* A failed benchmark does not leak VM processes: when guests() returns
\* every daemon started for the pool has been stopped.
NoLeak == ppc = "done" => NoneLive

\* With no daemon dying and no spawn failing, no VM startup rolls back.
NoSpuriousRollback == \A v \in Vms : vpc[v] = "failed" => faults > 0

\* Teardown under an exception still releases: every VM whose __exit__
\* received an exception (a failed kvm copy, an interrupt, a VM above it
\* whose own exit raised) skips log collection and poweroff, and by the
\* time guests() returns none of its daemons is left running, however
\* daemons crash or the guest shuts down during the unwinding.
ExceptionalExitReleases ==
  ppc = "done" =>
    \A v \in Vms : exitTy[v] = "exc" => \A d \in Daemons : ~Unreleased(v, d)

\* guests() always returns: startup, probing and teardown are bounded.
Terminates == <>(ppc = "done")
=============================================================================
