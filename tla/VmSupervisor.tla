---------------------------- MODULE VmSupervisor ----------------------------
(***************************************************************************)
(* The per-VM supervisor of src/bench/bench/vm.py (class Vm) together with *)
(* the three host daemons it owns, started through utils.daemon():        *)
(*   data  - virtiofsd serving data/        (vm.py:247)                    *)
(*   out   - virtiofsd serving the VM's out dir (vm.py:248)                *)
(*   ch    - cloud-hypervisor                (vm.py:250-256)               *)
(* Vm.__enter__ pushes them on an ExitStack in that order, then issues one *)
(* GET /vm.info over the API socket; any exception closes the stack.      *)
(* Vm.__exit__ collects guest logs and powers the guest off only when no  *)
(* exception is pending, then exits the stack (reverse release).          *)
(*                                                                         *)
(* The daemons and the guest are separate OS processes: their progress     *)
(* (socket created, guest booted, unexpected death) is modelled by        *)
(* environment actions that interleave freely with the supervisor's       *)
(* single thread.  The pool (Pool.tla) decides when a VM is entered,      *)
(* probed and exited; this module gives the VM's own steps.               *)
(***************************************************************************)
EXTENDS Naturals, Sequences, SequencesExt

CONSTANTS
  Vms,        \* VM ordinals of the pool (Bench.num VMs: 0..num-1)
  Timeouts,   \* possible Bench.timeout values, the retry budget of wait_for_boot
  MaxFaults   \* bound on environment faults: daemon deaths, failed spawns

ASSUME Timeouts \subseteq Nat /\ MaxFaults \in Nat

VARIABLES
  vpc,     \* control point of each Vm object
  vstack,  \* Vm._stack: daemons entered and not yet exited, bottom first
  proc,    \* state of each daemon process of each VM
  stops,   \* number of times each daemon's stop (terminate+wait) ran
  guest,   \* guest OS: "off", "booting" (takes TCP, sshd not answering
           \* yet), "on" (answers SSH), "halted" (poweroff)
  tries,   \* failed SSH probes of wait_for_boot so far
  ready,   \* wait_for_boot returned for this VM
  sshErr,  \* wait_for_boot raised an SSHException for this VM
  faults,  \* environment faults so far
  timeout  \* Bench.timeout of this run

vmVars == <<vpc, vstack, proc, stops, guest, tries, ready, sshErr, faults, timeout>>

Daemons == {"data", "out", "ch"}
\* Order of enter_context calls in Vm.__enter__ (vm.py:247-256).
AcquireOrder == <<"data", "out", "ch">>

ProcStates == {"none", "starting", "up", "exited", "stopped"}
\* A daemon whose handle has been acquired and not yet stopped.
Unreleased(v, d) == proc[v][d] \in {"starting", "up", "exited"}

VmStates == {"idle", "enter", "rollback", "failed", "up",
             "collect", "poweroff", "release", "down", "abandoned"}

VmTypeOK ==
  /\ vpc    \in [Vms -> VmStates]
  /\ vstack \in [Vms -> Seq(Daemons)]
  /\ proc   \in [Vms -> [Daemons -> ProcStates]]
  /\ stops  \in [Vms -> [Daemons -> Nat]]
  /\ guest  \in [Vms -> {"off", "booting", "on", "halted"}]
  /\ timeout \in Timeouts
  /\ tries  \in [Vms -> 0..timeout]
  /\ ready  \in [Vms -> BOOLEAN]
  /\ sshErr \in [Vms -> BOOLEAN]
  /\ faults \in 0..MaxFaults

VmInit ==
  /\ vpc    = [v \in Vms |-> "idle"]
  /\ vstack = [v \in Vms |-> <<>>]
  /\ proc   = [v \in Vms |-> [d \in Daemons |-> "none"]]
  /\ stops  = [v \in Vms |-> [d \in Daemons |-> 0]]
  /\ guest  = [v \in Vms |-> "off"]
  /\ tries  = [v \in Vms |-> 0]
  /\ ready  = [v \in Vms |-> FALSE]
  /\ sshErr = [v \in Vms |-> FALSE]
  /\ faults = 0
  /\ timeout \in Timeouts

SetProc(v, d, s) == proc' = [proc EXCEPT ![v][d] = s]

\* utils.daemon() entry: Popen with stdio redirected to the two files; the
\* process runs on its own from here.
Spawn(v, d) == SetProc(v, d, "starting")

\* utils.daemon() finally clause: p.terminate() (only if still running),
\* p.wait() reaps it; the handle is stopped.
Terminate(v, d) ==
  /\ SetProc(v, d, "stopped")
  /\ stops' = [stops EXCEPT ![v][d] = @ + 1]

---------------------------------------------------------------------------
(* Supervisor steps (the pool's single thread).                           *)

\* daemon(): open the two log files and Popen the next daemon of
\* Vm.__enter__, then enter_context pushes its release on the stack.
\* Popen raising (missing binary, unwritable log file) leaves nothing to
\* release for this daemon; the except clause closes the stack.
StartDaemon(v) ==
  LET d == AcquireOrder[Len(vstack[v]) + 1] IN
  /\ vpc[v] \in {"idle", "enter"}
  /\ Len(vstack[v]) < Len(AcquireOrder)
  /\ \/ /\ vpc' = [vpc EXCEPT ![v] = "enter"]
        /\ vstack' = [vstack EXCEPT ![v] = Append(@, d)]
        /\ Spawn(v, d)
        /\ UNCHANGED faults
     \/ /\ faults < MaxFaults
        /\ faults' = faults + 1
        /\ vpc' = [vpc EXCEPT ![v] = "rollback"]
        /\ UNCHANGED <<vstack, proc>>
  /\ UNCHANGED <<stops, guest, tries, ready, sshErr, timeout>>

\* Resource.get: GET over the Unix socket, RuntimeError unless 200 OK.  A
\* running cloud-hypervisor answers /vm.info with 200; with no listening
\* socket httpx raises a ConnectError before any status.
InfoOK(v) == proc[v]["ch"] = "up"

\* Api(ch_socket) then self._api.vm.info.get(): Resource.get raises unless
\* the hypervisor answers 200, which it does only once its API socket is
\* listening.  A refused or missing socket is an exception: rollback.
ApiInfo(v) ==
  /\ vpc[v] = "enter"
  /\ Len(vstack[v]) = Len(AcquireOrder)
  /\ vpc' = [vpc EXCEPT ![v] = IF InfoOK(v) THEN "up" ELSE "rollback"]
  /\ UNCHANGED <<vstack, proc, stops, guest, tries, ready, sshErr, faults, timeout>>

\* Mutant: the stack is released from the bottom (acquisition order).
StopBottom(v) ==
  LET d == Head(vstack[v]) IN
  /\ vpc[v] \in {"rollback", "release"}
  /\ vstack[v] # <<>>
  /\ vstack' = [vstack EXCEPT ![v] = Tail(@)]
  /\ Terminate(v, d)
  /\ guest' = IF d = "ch" /\ guest[v] \in {"booting", "on"}
                THEN [guest EXCEPT ![v] = "off"] ELSE guest
  /\ UNCHANGED <<vpc, tries, ready, sshErr, faults, timeout>>

\* Exiting the top context of Vm._stack: daemon()'s finally clause,
\* p.terminate(); p.wait().  terminate is a no-op on a process that has
\* already exited; wait reaps it.
StopTop(v) ==
  LET d == Last(vstack[v]) IN
  /\ vpc[v] \in {"rollback", "release"}
  /\ vstack[v] # <<>>
  /\ vstack' = [vstack EXCEPT ![v] = Front(@)]
  /\ Terminate(v, d)
  /\ guest' = IF d = "ch" /\ guest[v] \in {"booting", "on"}
                THEN [guest EXCEPT ![v] = "off"] ELSE guest
  /\ UNCHANGED <<vpc, tries, ready, sshErr, faults, timeout>>

\* Stack emptied: the rollback of __enter__ re-raises, or __exit__ returns.
StackClosed(v) ==
  /\ vpc[v] \in {"rollback", "release"}
  /\ vstack[v] = <<>>
  /\ vpc' = [vpc EXCEPT ![v] = IF vpc[v] = "rollback" THEN "failed" ELSE "down"]
  /\ UNCHANGED <<vstack, proc, stops, guest, tries, ready, sshErr, faults, timeout>>

\* An SSH channel to the guest works only while the hypervisor runs and
\* the guest is up.
Reachable(v) == proc[v]["ch"] = "up" /\ guest[v] = "on"

\* Mutant: the retry bound of the loop is off by one.
ProbePastBudget(v) ==
  /\ vpc[v] = "up"
  /\ ~ready[v]
  /\ tries[v] <= timeout
  /\ IF Reachable(v)
       THEN ready' = [ready EXCEPT ![v] = TRUE] /\ UNCHANGED tries
       ELSE tries' = [tries EXCEPT ![v] = @ + 1] /\ UNCHANGED ready
  /\ UNCHANGED <<vpc, vstack, proc, stops, guest, sshErr, faults, timeout>>

\* Mutant: the loop breaks out after any attempt, answered or not.
ProbeAnyAnswer(v) ==
  /\ vpc[v] = "up"
  /\ ~ready[v]
  /\ tries[v] < timeout
  /\ ready' = [ready EXCEPT ![v] = TRUE]
  /\ UNCHANGED <<vpc, vstack, proc, stops, guest, tries, faults, timeout, sshErr>>

\* Mutant: a failed attempt does not use up the budget.
ProbeNoCount(v) ==
  /\ vpc[v] = "up"
  /\ ~ready[v]
  /\ tries[v] < timeout
  /\ IF Reachable(v)
       THEN ready' = [ready EXCEPT ![v] = TRUE]
       ELSE UNCHANGED ready
  /\ UNCHANGED <<vpc, vstack, proc, stops, guest, tries, faults, timeout, sshErr>>

\* One iteration of wait_for_boot: self._ssh.run("date -Is").  A
\* NoValidConnectionsError (nothing takes the connection) is swallowed;
\* after timeout failed attempts the loop raises RuntimeError.  A guest
\* that takes the TCP connection but sends no SSH banner yet makes paramiko
\* raise SSHException, which neither except clause catches.  With
\* timeout = 0 the loop body never runs and the method returns as if the
\* guest had booted.
Probe(v) ==
  /\ vpc[v] = "up"
  /\ ~ready[v] /\ ~sshErr[v]
  /\ tries[v] < timeout
  /\ CASE Reachable(v) ->
            ready' = [ready EXCEPT ![v] = TRUE] /\ UNCHANGED <<tries, sshErr>>
       [] proc[v]["ch"] = "up" /\ guest[v] = "booting" ->
            sshErr' = [sshErr EXCEPT ![v] = TRUE] /\ UNCHANGED <<tries, ready>>
       [] OTHER ->
            tries' = [tries EXCEPT ![v] = @ + 1] /\ UNCHANGED <<ready, sshErr>>
  /\ UNCHANGED <<vpc, vstack, proc, stops, guest, faults, timeout>>

BootTimedOut(v) == timeout > 0 /\ tries[v] = timeout

EmptyWait(v) ==
  /\ vpc[v] = "up"
  /\ ~ready[v]
  /\ timeout = 0
  /\ ready' = [ready EXCEPT ![v] = TRUE]
  /\ UNCHANGED <<vpc, vstack, proc, stops, guest, tries, faults, timeout, sshErr>>

\* Mutant: logs are collected whatever exception is pending.
ExitVmAlwaysCollect(v, pending) ==
  /\ vpc[v] = "up"
  /\ vpc' = [vpc EXCEPT ![v] = "collect"]
  /\ UNCHANGED <<vstack, proc, stops, guest, tries, ready, sshErr, faults, timeout>>

\* Vm.__exit__(ty, ...): with no pending exception, collect logs first;
\* otherwise go straight to the stack.
ExitVm(v, pending) ==
  /\ vpc[v] = "up"
  /\ vpc' = [vpc EXCEPT ![v] = IF pending THEN "release" ELSE "collect"]
  /\ UNCHANGED <<vstack, proc, stops, guest, tries, ready, sshErr, faults, timeout>>

\* tasks.collect_logs: cp/mv into /out with warn=True, then
\* "dmesg > /out/dmesg" and "sysctl --all > /out/sysctl" without it: they
\* raise unless the guest answers and /out (the "out" virtiofsd) works.
CollectLogsOK(v) == Reachable(v) /\ proc[v]["out"] = "up"

\* Vm.collect_kvm_logs: pstree of the hypervisor pid, find the KVM debugfs
\* directory named after one of those pids, assert there is exactly one,
\* copy it.  An exited hypervisor has no pid tree and no directory.
KvmLogsOK(v) == proc[v]["ch"] = "up"

\* collect_logs(self._ssh) then collect_kvm_logs().  The last two commands
\* of collect_logs have no warn=True and write into /out, the virtiofs
\* mount served by the "out" daemon; collect_kvm_logs asserts that the
\* hypervisor's pid tree owns exactly one KVM debugfs directory.  Either
\* raising leaves __exit__ before self._stack.__exit__: the VM is abandoned
\* with its stack unexited.
Collect(v) ==
  /\ vpc[v] = "collect"
  /\ vpc' = [vpc EXCEPT ![v] = IF CollectLogsOK(v) /\ KvmLogsOK(v)
                                 THEN "poweroff" ELSE "abandoned"]
  /\ UNCHANGED <<vstack, proc, stops, guest, tries, ready, sshErr, faults, timeout>>

\* self._ssh.sudo("poweroff", warn=True): a failed command is tolerated,
\* a transport failure is not.
Poweroff(v) ==
  /\ vpc[v] = "poweroff"
  /\ IF Reachable(v)
       THEN /\ vpc' = [vpc EXCEPT ![v] = "release"]
            /\ guest' = [guest EXCEPT ![v] = "halted"]
       ELSE /\ vpc' = [vpc EXCEPT ![v] = "abandoned"]
            /\ UNCHANGED guest
  /\ UNCHANGED <<vstack, proc, stops, tries, ready, sshErr, faults, timeout>>

---------------------------------------------------------------------------
(* Environment: the daemon processes and the guest.                       *)

\* virtiofsd creates its vhost-user socket.
FsReady(v, d) ==
  /\ d \in {"data", "out"}
  /\ proc[v][d] = "starting"
  /\ SetProc(v, d, "up")
  /\ UNCHANGED <<vpc, vstack, stops, guest, tries, ready, sshErr, faults, timeout>>

\* cloud-hypervisor connects to both virtiofsd sockets while creating the
\* VM, retrying while a socket is not there yet; it comes up once both
\* answer, and exits with an error if a virtiofsd is gone.
ChInit(v) ==
  /\ proc[v]["ch"] = "starting"
  /\ \A d \in {"data", "out"} : proc[v][d] # "starting"
  /\ SetProc(v, "ch", IF proc[v]["data"] = "up" /\ proc[v]["out"] = "up"
                        THEN "up" ELSE "exited")
  /\ UNCHANGED <<vpc, vstack, stops, guest, tries, ready, sshErr, faults, timeout>>

GuestBoot(v) ==
  /\ proc[v]["ch"] = "up"
  /\ guest[v] = "off"
  /\ guest' \in {[guest EXCEPT ![v] = "booting"], [guest EXCEPT ![v] = "on"]}
  /\ UNCHANGED <<vpc, vstack, proc, stops, tries, ready, sshErr, faults, timeout>>

\* The guest's sshd starts answering.
SshdUp(v) ==
  /\ proc[v]["ch"] = "up"
  /\ guest[v] = "booting"
  /\ guest' = [guest EXCEPT ![v] = "on"]
  /\ UNCHANGED <<vpc, vstack, proc, stops, tries, ready, sshErr, faults, timeout>>

\* After the guest powers off, cloud-hypervisor exits by itself.
ChExitOnHalt(v) ==
  /\ proc[v]["ch"] = "up"
  /\ guest[v] = "halted"
  /\ SetProc(v, "ch", "exited")
  /\ UNCHANGED <<vpc, vstack, stops, guest, tries, ready, sshErr, faults, timeout>>

\* A daemon dies unexpectedly (ProcessExitError: never restarted).
Crash(v, d) ==
  /\ proc[v][d] \in {"starting", "up"}
  /\ faults < MaxFaults
  /\ faults' = faults + 1
  /\ SetProc(v, d, "exited")
  /\ guest' = IF d = "ch" /\ guest[v] \in {"booting", "on"}
                THEN [guest EXCEPT ![v] = "off"] ELSE guest
  /\ UNCHANGED <<vpc, vstack, stops, tries, ready, sshErr, timeout>>

VmEnv(v) ==
  \/ \E d \in Daemons : FsReady(v, d) \/ Crash(v, d)
  \/ ChInit(v) \/ GuestBoot(v) \/ SshdUp(v) \/ ChExitOnHalt(v)
=============================================================================
