# TLA+ models of the Demeter benchmark harness

This directory holds TLA+ models of the host-side harness in
`src/bench/bench/`. That harness starts a pool of guest VMs, admits them
into DRAM by memory, runs a benchmark in them and tears the pool down. The
TLC configurations here check those models.

## The system and its parts

- **Daemon Supervisor** (`utils.daemon`, `utils.virtiofsd`): spawns a
  long-running process with `Popen`. On exit it calls `terminate()` and
  then `wait()`.
- **VM Supervisor** (`vm.py`, class `Vm`). `__enter__` starts three daemons
  on its own `ExitStack`, in this order:
  - the virtiofsd of the data share;
  - the virtiofsd of the out share;
  - cloud-hypervisor.

  It then reads `/vm.info` once through the control-plane client
  (`vm_api.py`). On any exception it closes its stack (reverse order) and
  re-raises. `__exit__` does three things in this order:
  - collects the guest's logs, but only when no exception is pending;
  - collects the KVM debugfs data, and powers the guest off;
  - exits its stack.
- **Readiness Prober** (`Vm.wait_for_boot`): tries SSH `timeout` times. It
  swallows connection errors, and raises `RuntimeError` once the budget is
  spent.
- **Pool Orchestrator** (`Bench.guests`): a single thread. It holds an
  `ExitStack` with, from the bottom up:
  - a chown callback;
  - one `Vm` per guest;
  - after preparation, a kvm-copy callback.

  It enters every VM, waits for each to boot, prepares the guests, and
  yields to the benchmark. The benchmark (`Bench.run`, `_benchmark`
  through `tasks.launch`) is one `ThreadingGroup.run`, one thread per
  guest. It raises `GroupException` if any guest's command fails. The pool
  swallows `GroupException`/`SSHException` from the benchmark, then
  unwinds. When a callback raises, its exception is
  passed on to the callbacks below it (Python `ExitStack` semantics).
- **Admission Controller** (`Bench._guests_prepare`). With `hetero` set it
  reads the DRAM node's free memory (`utils.node_memory_free`) and computes
  `batch = min(free // vmmem, remain)`. It prepares the batch taken from the
  end of the VM list, retrying up to `timeout` times. Without `hetero` it
  prepares all guests at once.

- **Guest launcher** (`src/script/launcher.py`): `tasks.launch` runs it
  in the guest under `sudo`. It joins the `bench` cgroup, forks the
  workload, enters the design's context manager for the child's pid
  (demeter and memtis hand it to the kernel), waits for the child, and on
  the way out leaves and removes the cgroup.

- **Run archive** (`Bench.out_dir`, `utils.collect_datapoints`): every
  workload call makes `archive/<now>`. The tests of `tests/evaluation.py`
  wrap their runs in `collect_datapoints`. Some of those tests call other
  tests. On leaving, `collect_datapoints` moves every entry of `archive/`
  whose ctime lies strictly inside its block's time window into
  `archive/<start>-<name>`.

They interact like this:
- The pool calls the VM supervisor, the prober and the admission controller.
- The VM supervisor calls the daemon supervisor and the control-plane client.
- The daemons and the guests run on their own. They are the model's
  environment.

## Modules

| Module | Models | State | Actions |
|---|---|---|---|
| `VmSupervisor.tla` | `Vm.__enter__`, `Vm.__exit__`, `wait_for_boot`, `daemon()`, `Resource.get` | per VM: the `__enter__`/`__exit__` control point `vpc`, its ExitStack `vstack`, each daemon's process state `proc` and stop count `stops`, the guest OS state, probe tries, readiness; a global fault budget | `StartDaemon`, `ApiInfo`, `StopTop`, `StackClosed` (enter and rollback); `Probe`, `EmptyWait` (wait_for_boot); `ExitVm`, `Collect`, `Poweroff` (exit). Environment: `FsReady`, `ChInit` (cloud-hypervisor retries the virtiofsd sockets: up once both answer, exits if one is gone), `GuestBoot` (to `booting` or straight to `on`), `SshdUp`, `ChExitOnHalt`, `Crash`. A probe of a `booting` guest raises `SSHException` (`sshErr`), which `wait_for_boot` does not catch |
| `Pool.tla` | `Bench.guests`, `_guests_wait` | control point `ppc`, the VM in hand `cur`, the pool's ExitStack `pstack` (records `VmCb(v)`, `ChownCb`, `KvmCb`), the pending exception `exc`, history `ran` and `exitTy` (whether each `Vm.__exit__` got an exception), each guest's workload `wl[v]`, the body's `outcome` | `EnterStep`, `Entered`, `EnterFailed`, `WaitStep`, `Booted`, `BootTimeout`, `Prepare`, `Launch`, `GroupReturn`, `Interrupt`, `CopyKvm`, `ExitStep`, `Exited`, `Chown`. Environment: `WorkloadEnd(v)` |
| `Admission.tla` | `Bench._guests_prepare`, `node_memory_free` | the run configuration (hetero, balloon, dram_ratio, node size, chosen in `Init`), control point, retry counter, `remain`, `batch`, per-VM prepare count, raised error; host: settled guest memory, memory used by others, a clock; history `fitFree` | `Start`, `ReadFree`, `PrepareBatch`. Environment: `Settle`, `OtherChange`, `Tick` |
| `Sizing.tla` | `Bench.dram_size`/`pmem_size`, `round_down`/`round_up`, `Balloon.to_size`, the sizes and affinity of `Vm.args` | the Bench configuration and the node's CPU list (chosen in `Init`), the next VM id, each entered VM's zones, balloon sizes and host CPUs | `EnterVm` (one `Vm.__enter__` computing its arguments); `ISliceCycle` is `islice(cycle(...))` as a RECURSIVE operator |
| `AdmissionSpec.tla` | what `_guests_prepare` promises the pool | `prepared[v]`, `status` (running, done, raised) | `PrepareBatch(lo)` (the batch right below the prepared guests), `Return` (the last batch and the return), `Raise` |
| `ResourceStack.tla` | what an `ExitStack` of handles promises, per owner | `held[o]` (acquired, not released, oldest first), `released[o][r]` | `Acquire(o, r)`, `Release(o)` (pops the top only) |
| `Launcher.tla` | `launcher.py`: `cgroup`, `parent`, `child`, the design contexts, `__main__` | parent control point `lpc`, how it is leaving `exc`, `err`, cgroup existence and members, child state and exit code, whether the design holds the pid, a SIGINT | `CgEnter`, `Check`, `Fork`, `CtxEnter`, `Wait`, `CtxExit`, `CgExit`, `Interrupted` (KeyboardInterrupt at each step); `Exec`, `ExecFail`, `ChildExit`, `SigInt` |
| `Archive.tla` | `collect_datapoints`, the tests of `evaluation.py`, the run directory of `Bench.guests` | the session's steps and position, the open blocks (store id, start time), a propagating exception, where the innermost `finally` is (`phase`, `end`, the `iterdir()` entries still to filter in `todo`), the tick, each directory's location and ctime, the Ctrl-C count; history `home` and `cut` | `Enter`, `Run`; the `finally` as its steps: `Finally` (`end = now()`), `MkStore` (the sleep, `mkdir`, the `iterdir()` listing), `Move` (one `check_ts` and rename), `Exit`, and `InterruptFinally` (Ctrl-C in the sleep or between renames); pytest: `NextTest` |
| `MCPool.tla`, `MCAdmission.tla`, `MCSizing.tla`, `MCLauncher.tla`, `MCArchive.tla` | model-checking constants | | |

How the modules correspond to the code:
- Each action is one step of the single Python thread, from one call or
  return to the next. Its guard comes from the code's conditions.
- Exceptions are the pending-exception flag `exc`, or a `vpc` of `failed`
  or `abandoned`.
- Memory is counted in tenths of GiB, so that the float
  `mem * dram_ratio` is exact. Whether it is a float (balloon `None`) is
  tracked separately, because that decides whether slicing raises.

## Runs

| Run | Expect | What it shows |
|---|---|---|
| `pool` (`MCPool.cfg`) | pass | Two VMs, a probe budget (`Bench.timeout`, chosen in `Init`) of 0 or 2, and up to two daemon deaths or failed spawns. It checks three things: (1) each VM's daemons implement the abstract `ResourceStack` (`VmStacksRefine`, see below): each is acquired once and stopped once, and only the last one still held is ever stopped, so a file server is never stopped while the hypervisor using it runs; (2) an aborted startup leaves nothing running (`NoPartialPool`); (3) with no fault and a positive budget, every guest answers when preparation starts (`BootedGuestsUp`). With budget 0 the same claim fails (`wait_for_boot` returns without a probe); the hazard at `vm.py:309` records it. `Prepare` abstracts `_guests_prepare`: its commands succeed only on reachable guests with their file servers up, except that with budget 0 (and hetero set) it returns without running any, so such a run reaches the benchmark unprepared. A VM whose `__exit__` receives an exception (a failed kvm copy, an interrupt, a VM above it whose exit raised) skips its logs but ends with no daemon running (`ExceptionalExitReleases`). So the leak of `pool_leak` is confined to the exit path with no exception. It also checks that `guests()` always returns (`Terminates`). |
| `pool_leak` | violation of `NoLeak` | The out-share virtiofsd dies during the benchmark. `collect_logs` then raises in `Vm.__exit__` before `self._stack.__exit__`, so cloud-hypervisor and the data virtiofsd outlive `guests()`. |
| `pool_socket_race` | violation of `NoSpuriousRollback` | With no fault, a VM rolls back because cloud-hypervisor, or `/vm.info`, runs before the socket it needs exists. The code never waits for it. |
| `admission` (`MCAdmission.cfg`) | pass | It covers hetero on and off, the three balloon modes, two node sizes, and dram_ratio 0 or 0.4. The loop implements `AdmissionSpec` (`AdmissionRefines`, see below): batches are contiguous, each right below the guests already prepared, no guest is prepared twice, and the call always returns or raises., and it returns normally only with every guest prepared. With `Timeout = 0` it fails (the hazard at `bench.py:83`). |
| `sizing` (`MCSizing.cfg`) | pass | It covers every dram_ratio in tenths, a page-aligned and an unaligned mem, all balloon modes, 1-3 VMs and every non-empty CPU list of a node of up to 4 CPUs. The rounded tiers cover `mem` to within a page (`SizesCoverMem`). Because `int()` truncates both products, the sum can be exactly a page short, for example 25 GiB at 0.29. Zones less balloon give the guest exactly its configured tiers (`GuestSeesConfig`). The affinity blocks are the designed `[i*vcpus, (i+1)*vcpus)` modulo the CPU count, and they are disjoint while the pool fits (`AffinityAsDesigned`). |
| `launcher` (`MCLauncher.cfg`) | pass | It covers every launcher name, one SIGINT at any step, and a failing `cgroup()` entry, design set-up or `execvp`. The design gives the pid back unless an interrupt cuts the clean-up (`NoTrackAfterExit`). |
| `launcher_orphan` | violation of `NoOrphanWorkload` | A failing design set-up, or a SIGINT in `waitpid`, makes the launcher leave while the workload still runs. The rmdir of `bench` then fails with EBUSY. |
| `launcher_stale_pid` | violation of `TrackedIsOurs` | `waitpid` reaps the child before demeter resets `targets/0/pid` or memtis calls `htmm_end`, so the design holds a pid that is free for reuse. |
| `admission_free` | violation of `AdmitWithinFree` | `node_memory_free` returns the node's total, so a batch exceeds the true free memory. |
| `admission_errors` | violation of `OnlyNamedErrors` | With no balloon, the batch is a float and the slice raises `TypeError`. |
| `admission_retry` | violation of `RetriesTakeTime` | The retry loop does not sleep, so "Not enough memory" is raised with no time elapsed. |
| `archive` (`MCArchive.cfg`) | pass | It covers the session of `evaluation.py` in file order, and one that starts with a nested test. Any run may raise, and up to two Ctrl-C may land in a run, in a `finally`'s sleep or between its renames. When no `finally` was cut short, each directory stays in `archive/` while its block runs, and then sits in that block's store (`ArchivedWhereRun`). That holds for inner stores inside outer ones, for failing runs, and for directories older than the session, which are never touched. A cut-short inner `finally` leaves its directories to the outer block, which takes them into its own store. Even then no directory is ever filed under an unrelated test or a store inside itself (`NeverMisfiled`). Listing with `rglob` (mutant) pulls inner stores apart; sleeping before reading `end` (mutant) puts a store in its own window. |

Each property of a passing run has a mutant in `PROJECT.json`: an operator
next to the action it alters, modelling a plausible bug. Examples:
- pop without removing;
- stop the bottom of the stack;
- always collect logs;
- probe past the budget;
- omit `min(…, remain)`;
- an inclusive slice end.

TLC finds each mutant's property violated.

## Refinement

`Pool.tla` instantiates `ResourceStack` with `Owners <- Vms` and
`Res <- Daemons`. The refinement mapping is:
- `held[v]`: the daemons of `v` whose handle was taken by `Popen` and not
  yet released by terminate-and-wait, in the acquisition order of
  `vm.py:247-256`;
- `released <- stops`.

`VmStacksRefine == VmStacks!Spec` is checked as a PROPERTY of the `pool`
run. It holds through all of these:
- the rollback in `__enter__`;
- a hypervisor that exits on its own once its guest powers off;
- daemon crashes;
- the pool's unwinding.

Releasing from the bottom of the stack (mutant `StopBottom`) breaks it.

`Admission.tla` instantiates `AdmissionSpec`, mapping `prepared` to
itself and `status` to `"done"`/`"raised"` when `apc` is, `"running"`
otherwise. A free-memory read, a retry and a balloon wait are stutters of
the abstract spec. A batch is `PrepareBatch(remain - batch)`. The last
batch and the return are one detailed step, so they are one abstract step
(`Return`). `AdmissionRefines == Abstract!Spec`, with its weak fairness,
is a PROPERTY of the `admission` run. A slice end taken as inclusive
(mutant `PrepareBatchInclusive`) breaks it.

## Bounds

- **Two VMs.** That is enough for a second VM to fail while the first is
  already on the pool's stack, and for teardown to pass an exception from
  one VM's exit to the next.
- **Probe budget 0 or 2.** With 2, a failed probe can be followed by a
  successful one, or by a timeout. With 0 the loop is empty.
- **`MaxFaults` of 1 or 2.** This bounds daemon crashes and failed spawns,
  so that a crash can happen during startup and another during teardown.
- **Admission: three VMs of 16 GiB.**
  - Node sizes 8 and 40 GiB give batches of 0, 1 and 2.
  - Other use of 0 or 16 GiB and a `MaxClock` of 2 let memory change
    between two reads.

- **Sizing:** a page of 4 with mem 16 (aligned) and 18 (not), so both
  roundings bite at every ratio; every non-empty subset of CPUs 0-3 as
  `node_to_cpus` may list it (gaps included, as with SMT numbering), with
  1-2 vCPUs and 1-3 VMs, covers both a fitting pool and a wrapping one.
  The `[]` that `node_to_cpus` returns on failure is left out (a hazard
  in `PROJECT.json`).

- **Launcher:** one SIGINT and one failing set-up suffice, because each
  leaves the parent on a different exception path; a second would only
  repeat them.

- **Archive:** the loops of `evaluation.py` are cut to one or two runs
  per block, two flat tests and two nested ones. That is enough for
  sibling blocks, an inner store inside an outer block, and a failure at
  every depth. Two Ctrl-C let one cut an inner `finally` short and the
  second cut the outer one. Time is in kernel ticks. A ctime is the start of its tick
  (`2 * tick`), and `datetime.now()` lies inside its tick
  (`2 * tick + 1`). A run takes at least a tick: even a failing one ends
  with a `sudo chown -R`. The sleep takes at least a tick.

## Fairness

Only the orchestrator thread is weakly fair (`WF_vars(Driver)`,
`WF_vars(Step)`). Every call it makes returns or raises: SSH attempts fail
fast, and the API call has a timeout. Daemons and guests are environment
actions without fairness, because the code cannot force a guest to boot.
Termination must therefore come from the probe budget, which is what
`Terminates` (and, for admission, the fairness of `AdmissionSpec`) checks. The benchmark's `guests.run` has no timeout, so
`guests()` returns only once every guest's workload ends or its session
breaks. `Pool` assumes that too (`WF_vars(Workloads)`). An interrupt
(`Interrupt`) may come or not.

`Launcher`, `Sizing` and `Archive` state no fairness: the code after
their blocking calls is straight-line, so their termination would hold by
the models' shape, and only their safety is checked.

## Not modelled

- The text of the hypervisor's arguments (`Vm.cmdline`, paths, the
  `to_cmdline` strings). `Sizing.tla` models only the numbers they carry.
- In the launcher:
  - the sysctl and sysfs values written;
  - `trace()` (its daemon list is empty);
  - the shell trap of `tasks.launch`. Bash runs the trap only after the
    foreground launcher returns, so the trap cannot interrupt the launcher.
- `workload.py` command strings, `main.py`, `parse_log.py`, `plot.py`
  and `dram-pfn.py`. These are formatting and I/O. Of
  `tests/evaluation.py` only the structure of the tests is modelled, not
  their configuration grids.
- Another process touching `archive/` during a block. The ctime window
  would take its directories; the hazard is listed in `PROJECT.json`.
- `p.wait()` without a timeout. The model assumes both daemons end on
  SIGTERM.
- Pid reuse in `collect_kvm_logs` (see the hazards in `PROJECT.json`).
- `Resource.request`, `put` and `patch` of `vm_api.py`, and `Vm.resize`
  and `memory_stats`, which call them: nothing in the orchestrator calls
  them. Only `GET /vm.info` is on the control path.
- Three disagreements found while modelling have no run of their own:
  - `timeout = 0` skips admission (`AdmissionRefines` fails under it);
  - `num = 0` indexes `vms[0]`;
  - the `out` symlink dangles after `collect_datapoints` moves the run
    directory.
  They are listed as hazards in `PROJECT.json`, with how a property
  would show each.
- A workload failing on some guest: `Group.run` raises `GroupException`,
  which `guests()` swallows like a transport error, so only a log line
  records the failure (hazard at `bench.py:158`; a property saying the
  run reports it would fail, and no run is left for it).
