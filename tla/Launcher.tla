------------------------------ MODULE Launcher ------------------------------
(***************************************************************************)
(* The in-guest launcher, src/script/launcher.py (run as demeter.py,       *)
(* memtis.py, nomad.py, tpp.py or noop.py).  Two processes:                *)
(*   the parent: with cgroup(getpid()): joins /sys/fs/cgroup/bench, forks, *)
(*     enters the design's context manager for the child's pid (and an     *)
(*     empty trace()), waits for the child, leaves the context, and on the *)
(*     way out of cgroup() moves itself back to the root group and removes *)
(*     bench;                                                              *)
(*   the child: execvp of the workload; if that raises, the exception runs *)
(*     the cgroup() finally it inherited, with the parent's pid.           *)
(* A SIGINT reaches the parent as a KeyboardInterrupt at whatever step it  *)
(* is at; only the one raised inside os.waitpid is caught.                 *)
(***************************************************************************)
EXTENDS Integers

CONSTANTS
  Designs,      \* launcher names in use (prog2ctx keys)
  ExitCodes,    \* possible exit codes of the workload
  MaxFaults     \* bound on failing design-context set-ups

\* The contexts that hand the child's pid to the kernel: demeter writes it
\* to targets/0/pid, memtis calls htmm_start(pid).
TracksPid == {"demeter", "memtis"}

EINVAL == 22

VARIABLES
  design,    \* Path(parser.prog).stem
  hasArgs,   \* the CHILD arguments are not empty
  lpc,       \* control point of the parent
  exc,       \* how the parent is leaving: none yet, sys.exit, or an exception
  err,       \* the parent's err
  group,     \* /sys/fs/cgroup/bench exists
  members,   \* processes in bench
  child,     \* the forked process
  code,      \* the child's exit status
  tracked,   \* the design holds the child's pid
  sigint,    \* a SIGINT for the parent: none, pending, delivered
  childSig,  \* the parent sent SIGINT to the child
  faults

vars == <<design, hasArgs, lpc, exc, err, group, members, child, code,
          tracked, sigint, childSig, faults>>

ParentPcs == {"cg_enter", "check", "fork", "ctx_enter", "wait", "ctx_exit",
              "cg_exit", "ended"}
ChildStates == {"none", "forked", "running", "exited", "reaped"}
Excs == {"none", "exit", "kbd", "ctx", "oserror"}

TypeOK ==
  /\ design \in Designs /\ hasArgs \in BOOLEAN
  /\ lpc \in ParentPcs
  /\ exc \in Excs
  /\ err \in ExitCodes \cup {-1, EINVAL}
  /\ group \in BOOLEAN
  /\ members \subseteq {"parent", "child"}
  /\ child \in ChildStates
  /\ code \in ExitCodes
  /\ tracked \in BOOLEAN
  /\ sigint \in {"none", "pending", "delivered"}
  /\ childSig \in BOOLEAN
  /\ faults \in 0..MaxFaults

\* bench may be left over, empty, from an earlier run whose rmdir failed.
Init ==
  /\ design \in Designs /\ hasArgs \in BOOLEAN
  /\ lpc = "cg_enter"
  /\ exc = "none"
  /\ err = -1
  /\ group \in BOOLEAN
  /\ members = {}
  /\ child = "none"
  /\ code \in ExitCodes
  /\ tracked = FALSE
  /\ sigint = "none"
  /\ childSig = FALSE
  /\ faults = 0

ChildAlive == child \in {"forked", "running"}

---------------------------------------------------------------------------
(* The parent.                                                            *)

\* cgroup(): mkdir(parents=True, exist_ok=True), write our pid to
\* bench/cgroup.procs.
\* Inside the try: mkdir raising (no permission on the cgroup tree), or,
\* for memtis, the memory.htmm_enabled write raising, goes to the finally
\* before the parent has joined bench.
CgEnter ==
  /\ lpc = "cg_enter"
  /\ \/ /\ group' = TRUE
        /\ members' = members \cup {"parent"}
        /\ lpc' = "check"
        /\ UNCHANGED <<exc, faults>>
     \/ /\ faults < MaxFaults
        /\ faults' = faults + 1
        /\ \/ UNCHANGED group
           \/ design = "memtis" /\ group' = TRUE
        /\ exc' = "oserror"
        /\ lpc' = "cg_exit"
        /\ UNCHANGED members
  /\ UNCHANGED <<design, hasArgs, err, child, code, tracked, sigint, childSig>>

\* No CHILD: print_help(); sys.exit(EINVAL) inside the cgroup context.
Check ==
  /\ lpc = "check"
  /\ IF hasArgs
       THEN lpc' = "fork" /\ UNCHANGED <<exc, err>>
       ELSE lpc' = "cg_exit" /\ exc' = "exit" /\ err' = EINVAL
  /\ UNCHANGED <<design, hasArgs, group, members, child, code, tracked, sigint, childSig, faults>>

\* os.fork(): the child starts in the parent's cgroup.
Fork ==
  /\ lpc = "fork"
  /\ child' = "forked"
  /\ members' = members \cup {"child"}
  /\ lpc' = "ctx_enter"
  /\ UNCHANGED <<design, hasArgs, exc, err, group, code, tracked, sigint, childSig, faults>>

\* with ctxfn(child), trace(): the design's set-up (sysctl and sysfs
\* writes, modprobe, the pid hand-over last) succeeds, or one of its
\* writes raises and its finally clause undoes the hand-over before the
\* exception leaves parent() uncaught.
CtxEnter ==
  /\ lpc = "ctx_enter"
  /\ \/ /\ tracked' = (design \in TracksPid)
        /\ lpc' = "wait"
        /\ UNCHANGED <<exc, faults>>
     \/ /\ design # "noop" /\ faults < MaxFaults
        /\ faults' = faults + 1
        /\ exc' = "ctx"
        /\ lpc' = "cg_exit"
        /\ UNCHANGED tracked
  /\ UNCHANGED <<design, hasArgs, err, group, members, child, code, sigint, childSig>>

\* Mutant: the raw wait status is used, without waitstatus_to_exitcode.
WaitRawStatus ==
  /\ lpc = "wait"
  /\ child = "exited"
  /\ child' = "reaped"
  /\ err' = code * 256
  /\ lpc' = "ctx_exit"
  /\ UNCHANGED <<design, hasArgs, exc, group, members, code, tracked, sigint, childSig, faults>>

\* os.waitpid(child, 0) returns once the child has exited, reaping it;
\* err = waitstatus_to_exitcode(status).
Wait ==
  /\ lpc = "wait"
  /\ child = "exited"
  /\ child' = "reaped"
  /\ err' = code
  /\ lpc' = "ctx_exit"
  /\ UNCHANGED <<design, hasArgs, exc, group, members, code, tracked, sigint, childSig, faults>>

\* Mutant: the design's clean-up is not in a finally clause and is skipped.
CtxExitNoReset ==
  /\ lpc = "ctx_exit"
  /\ exc' = "exit"
  /\ lpc' = "cg_exit"
  /\ UNCHANGED <<design, hasArgs, err, group, members, child, code, tracked, sigint, childSig, faults>>

\* Leaving the with block: trace() and the design's finally (demeter
\* writes -1 to targets/0/pid, memtis calls htmm_end(pid)); then
\* sys.exit(err).
CtxExit ==
  /\ lpc = "ctx_exit"
  /\ tracked' = FALSE
  /\ exc' = "exit"
  /\ lpc' = "cg_exit"
  /\ UNCHANGED <<design, hasArgs, err, group, members, child, code, sigint, childSig, faults>>

\* cgroup()'s finally: write our pid to the root cgroup.procs, then
\* rmdir bench, which fails with EBUSY while a process is still in it;
\* that OSError replaces whatever was leaving.
CgExit ==
  /\ lpc = "cg_exit"
  /\ members' = members \ {"parent"}
  /\ IF members' = {}
       THEN group' = FALSE /\ UNCHANGED exc
       ELSE exc' = "oserror" /\ UNCHANGED group
  /\ lpc' = "ended"
  /\ UNCHANGED <<design, hasArgs, err, child, code, tracked, sigint, childSig, faults>>

\* The pending SIGINT raises KeyboardInterrupt at the parent's next step.
\* Inside waitpid it is caught: kill(child, SIGINT), err stays -1, and the
\* parent leaves without waiting.  Anywhere else it propagates: out of the
\* design's set-up through its finally, out of its clean-up halfway (the
\* pid not given back), out of cgroup()'s finally before the rmdir, or,
\* before the cgroup context was entered, out of the program.
Interrupted ==
  /\ sigint = "pending"
  /\ lpc # "ended"
  /\ sigint' = "delivered"
  /\ CASE lpc = "wait" ->
            /\ childSig' = TRUE
            /\ lpc' = "ctx_exit"
            /\ UNCHANGED <<exc, members, tracked>>
       [] lpc = "cg_enter" ->
            lpc' = "ended" /\ exc' = "kbd" /\ UNCHANGED <<childSig, members, tracked>>
       [] lpc = "ctx_enter" ->
            /\ lpc' = "cg_exit" /\ exc' = "kbd" /\ tracked' = FALSE
            /\ UNCHANGED <<childSig, members>>
       [] lpc = "cg_exit" ->
            /\ lpc' = "ended" /\ exc' = "kbd"
            /\ members' = members \ {"parent"}
            /\ UNCHANGED <<childSig, tracked>>
       [] OTHER ->
            lpc' = "cg_exit" /\ exc' = "kbd" /\ UNCHANGED <<childSig, members, tracked>>
  /\ UNCHANGED <<design, hasArgs, err, group, child, code, faults>>

---------------------------------------------------------------------------
(* The child and the outside.                                             *)

\* os.execvp succeeds: the workload runs.
Exec ==
  /\ child = "forked"
  /\ child' = "running"
  /\ UNCHANGED <<design, hasArgs, lpc, exc, err, group, members, code, tracked, sigint, childSig, faults>>

\* os.execvp raises (no such program): the exception leaves child() and
\* the inherited cgroup() finally runs in the child with the parent's
\* pid: the parent is moved to the root group, and rmdir fails because
\* the child itself is still in bench.  The child exits with status 1.
ExecFail ==
  /\ child = "forked"
  /\ 1 \in ExitCodes
  /\ child' = "exited"
  /\ code' = 1
  /\ members' = {}
  /\ UNCHANGED <<design, hasArgs, lpc, exc, err, group, tracked, sigint, childSig, faults>>

\* The workload ends, on its own or because of the SIGINT it was sent.
ChildExit ==
  /\ child = "running"
  /\ child' = "exited"
  /\ code' \in ExitCodes
  /\ members' = members \ {"child"}
  /\ UNCHANGED <<design, hasArgs, lpc, exc, err, group, tracked, sigint, childSig, faults>>

\* An operator's Ctrl-C reaches the launcher.
SigInt ==
  /\ sigint = "none"
  /\ lpc # "ended"
  /\ sigint' = "pending"
  /\ UNCHANGED <<design, hasArgs, lpc, exc, err, group, members, child, code, tracked, childSig, faults>>

Finished ==
  /\ lpc = "ended" /\ ~ChildAlive
  /\ UNCHANGED vars

Parent == CgEnter \/ Check \/ Fork \/ CtxEnter \/ Wait \/ CtxExit \/ CgExit \/ Interrupted
ChildStep == Exec \/ ExecFail

Next == Parent \/ ChildStep \/ ChildExit \/ SigInt \/ Finished

Spec == Init /\ [][Next]_vars
---------------------------------------------------------------------------
(* Properties.                                                            *)

\* The design forgets the workload: whenever the launcher has finished
\* without a KeyboardInterrupt cutting its clean-up short, demeter's
\* targets/0/pid is back to -1 and memtis has called htmm_end, whether the
\* workload ended, the set-up failed or the rmdir failed.
NoTrackAfterExit == (lpc = "ended" /\ exc # "kbd") => ~tracked

\* When the launcher has returned, its workload is no longer running in
\* the bench cgroup it created.
NoOrphanWorkload == lpc = "ended" => ~ChildAlive

\* The pid handed to the design always belongs to the launcher's child:
\* the design never holds a pid that has been reaped (and may be reused).
TrackedIsOurs == tracked => child # "reaped"
=============================================================================
