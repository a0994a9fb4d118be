------------------------------ MODULE Archive ------------------------------
(***************************************************************************)
(* The run archive.  Every workload call makes a run directory             *)
(* archive/<now> (Bench.out_dir, created by Bench.guests).  The tests of   *)
(* src/bench/tests/evaluation.py wrap their runs in                        *)
(* utils.collect_datapoints(name), which on leaving (a finally) sleeps one *)
(* second, creates archive/<start>-<name> and moves into it every entry of *)
(* archive/ whose st_ctime lies strictly between the start and end of the  *)
(* block.  Some tests nest: they call other tests, each with its own       *)
(* collect_datapoints, inside their own.  pytest runs the tests one after  *)
(* the other; a failing test ends only itself, a KeyboardInterrupt the     *)
(* whole session once the finallys it passes through have run (or been     *)
(* cut short by a further one).                                            *)
(*                                                                         *)
(* Time.  Ticks are the kernel's timer ticks.  A file's ctime is the       *)
(* coarse clock, the start of the tick it changed in; datetime.now() is    *)
(* exact, so it is later than every ctime of its own tick.  A time is      *)
(* encoded as 2 * tick for a ctime and 2 * tick + 1 for a now() reading.   *)
(* A run takes at least a tick (VMs boot; even a failing run ends with a   *)
(* sudo chown -R of its directory, its last change); time.sleep(1) takes   *)
(* at least a tick.                                                        *)
(***************************************************************************)
EXTENDS Naturals, Sequences, SequencesExt

CONSTANTS
  Sessions   \* the test sessions pytest may run: sequences of Steps

Steps == {"enter", "run", "exit"}

ASSUME \A s \in Sessions : s \in Seq(Steps)

\* A test of evaluation.py that loops over n configurations inside one
\* collect_datapoints: test_gups ... test_xsbench, the ablations, the
\* delegated and hypervisor gups tests.
Flat(n) == <<"enter">> \o [i \in 1..n |-> "run"] \o <<"exit">>

\* A test that calls k flat tests of n runs inside its own
\* collect_datapoints: test_hypervisor_realworld_workloads and
\* test_delegated_realworld_workloads.
Nested(k, n) == <<"enter">> \o FlattenSeq([i \in 1..k |-> Flat(n)]) \o <<"exit">>

\* evaluation.py in file order, each loop cut down to its first runs.
EvaluationSession == Flat(2) \o Nested(2, 1) \o Flat(1)

ROOT == 0        \* archive/ itself
OLD  == 1        \* a directory archived before the session started

CONSTANT
  MaxInterrupts   \* bound on the KeyboardInterrupts (Ctrl-C) of a session

VARIABLES
  script,   \* the session being run
  pc,       \* the next step of the session
  open,     \* the active collect_datapoints blocks, outermost first
  failed,   \* an exception is propagating out of the current test
  phase,    \* where the innermost block's finally is, "body" outside it
  end,      \* the finally's end = datetime.now()
  todo,     \* the entries of archive.iterdir() not yet filtered
  clock,    \* the current tick
  next,     \* the next directory id
  made,     \* the directories that exist
  loc,      \* loc[d]: the directory d is in
  ctime,    \* ctime[d]: st_ctime of d, encoded
  interrupts, \* the KeyboardInterrupts so far
  home,     \* history: the store of the block d was made in, else ROOT
  cut       \* history: some finally was left part-way by an interrupt

vars == <<script, pc, open, failed, phase, end, todo, clock, next, made,
          loc, ctime, interrupts, home, cut>>

MaxDirs == 2 + Max({Len(s) : s \in Sessions})
Ids == 1..MaxDirs

Now   == 2 * clock + 1
Stamp(t) == 2 * t

\* The block the current step runs in, and the one around it.
Innermost == IF open = <<>> THEN ROOT ELSE Last(open).store
Block == Last(open)

Init ==
  /\ script \in Sessions
  /\ pc = 1
  /\ open = <<>>
  /\ failed = FALSE
  /\ phase = "body"
  /\ end = 0
  /\ todo = {}
  /\ clock = 1
  /\ next = OLD + 1
  /\ made = {OLD}
  /\ loc = [d \in Ids |-> ROOT]
  /\ ctime = [d \in Ids |-> 0]
  /\ interrupts = 0
  /\ home = [d \in Ids |-> ROOT]
  /\ cut = FALSE

Current == IF pc <= Len(script) THEN script[pc] ELSE "none"

---------------------------------------------------------------------------
(* utils.collect_datapoints and the workloads run inside it.              *)

\* start = datetime.now(); try: yield.  The store-to-be belongs to the
\* enclosing block.
Enter ==
  /\ ~failed /\ phase = "body" /\ Current = "enter"
  /\ open' = Append(open, [store |-> next, start |-> Now])
  /\ home' = [home EXCEPT ![next] = Innermost]
  /\ next' = next + 1
  /\ pc' = pc + 1
  /\ UNCHANGED <<script, failed, phase, end, todo, clock, made, loc, ctime,
                 interrupts, cut>>

\* A workload call, e.g. gups_base(bench_base(num=..., kernel=...)):
\* guests() creates archive/<now>, runs, and its ExitStack ends with the
\* chown -R of the directory.  It returns, raises (boot timeout, not
\* enough memory, ...), or is interrupted by Ctrl-C.
Run ==
  /\ ~failed /\ phase = "body" /\ Current = "run"
  /\ clock' = clock + 1
  /\ made' = made \cup {next}
  /\ loc' = [loc EXCEPT ![next] = ROOT]
  /\ ctime' = [ctime EXCEPT ![next] = Stamp(clock')]
  /\ home' = [home EXCEPT ![next] = Innermost]
  /\ next' = next + 1
  /\ \/ pc' = pc + 1 /\ UNCHANGED <<failed, interrupts>>
     \/ failed' = TRUE /\ UNCHANGED <<pc, interrupts>>
     \/ /\ interrupts < MaxInterrupts
        /\ interrupts' = interrupts + 1
        /\ failed' = TRUE
        /\ UNCHANGED pc
  /\ UNCHANGED <<script, open, phase, end, todo, cut>>

\* check_ts(d): start < ctime(d) < end.
InWindow(ts, start, end_) == start < ts /\ ts < end_

\* Mutant: time.sleep(1) before end = datetime.now().
FinallySleepFirst ==
  /\ open # <<>> /\ phase = "body"
  /\ failed \/ Current = "exit"
  /\ end' = 2 * (clock + 1) + 1
  /\ phase' = "sleeping"
  /\ UNCHANGED <<script, pc, open, failed, todo, clock, next, made, loc,
                 ctime, interrupts, home, cut>>

\* Leaving the block, normally or with an exception, enters the finally:
\* end = datetime.now(), then time.sleep(1).
Finally ==
  /\ open # <<>> /\ phase = "body"
  /\ failed \/ Current = "exit"
  /\ end' = Now
  /\ phase' = "sleeping"
  /\ UNCHANGED <<script, pc, open, failed, todo, clock, next, made, loc,
                 ctime, interrupts, home, cut>>

\* Mutant: archive.rglob("*") instead of iterdir(): the entries of the
\* stores already in archive/ are listed too.
MkStoreRecursive ==
  /\ phase = "sleeping"
  /\ clock' = clock + 1
  /\ made' = made \cup {Block.store}
  /\ ctime' = [ctime EXCEPT ![Block.store] = Stamp(clock')]
  /\ todo' = made' \ {OLD}
  /\ phase' = "moving"
  /\ UNCHANGED <<script, pc, open, failed, end, next, loc, interrupts, home, cut>>

\* The sleep returns a tick later; store.mkdir(parents=True,
\* exist_ok=True) makes archive/<start>-<name>, and archive.iterdir()
\* lists archive/, the new store among its entries.
MkStore ==
  /\ phase = "sleeping"
  /\ clock' = clock + 1
  /\ made' = made \cup {Block.store}
  /\ ctime' = [ctime EXCEPT ![Block.store] = Stamp(clock')]
  /\ todo' = {d \in made' : loc[d] = ROOT}
  /\ phase' = "moving"
  /\ UNCHANGED <<script, pc, open, failed, end, next, loc, interrupts, home, cut>>

\* filter(check_ts, ...) yields the next listed entry in the window and
\* d.rename(store / d.name) moves it, which changes the ctime of d and of
\* the store; an entry outside the window is passed over.
Move ==
  /\ phase = "moving"
  /\ \E d \in todo :
       /\ todo' = todo \ {d}
       /\ \/ /\ InWindow(ctime[d], Block.start, end)
             /\ loc' = [loc EXCEPT ![d] = Block.store]
             /\ ctime' = [ctime EXCEPT ![d] = Stamp(clock), ![Block.store] = Stamp(clock)]
          \/ /\ ~InWindow(ctime[d], Block.start, end)
             /\ UNCHANGED <<loc, ctime>>
  /\ UNCHANGED <<script, pc, open, failed, phase, end, clock, next, made,
                 interrupts, home, cut>>

\* The finally has run to its end: the exception, if any, goes on to the
\* enclosing block.
Exit ==
  /\ phase = "moving" /\ todo = {}
  /\ open' = Front(open)
  /\ phase' = "body"
  /\ pc' = IF failed THEN pc ELSE pc + 1
  /\ UNCHANGED <<script, failed, end, todo, clock, next, made, loc, ctime,
                 interrupts, home, cut>>

\* Ctrl-C during the sleep or between two renames: KeyboardInterrupt
\* replaces whatever was propagating and the rest of the finally is
\* skipped.
InterruptFinally ==
  /\ phase \in {"sleeping", "moving"}
  /\ interrupts < MaxInterrupts
  /\ interrupts' = interrupts + 1
  /\ open' = Front(open)
  /\ phase' = "body"
  /\ todo' = {}
  /\ failed' = TRUE
  /\ cut' = TRUE
  /\ UNCHANGED <<script, pc, end, clock, next, made, loc, ctime, home>>

---------------------------------------------------------------------------
(* pytest.                                                                *)

\* Depth of nesting after the first j steps of the session.
Depth(j) == LET s == SubSeq(script, 1, j) IN
  Len(SelectSeq(s, LAMBDA x : x = "enter")) - Len(SelectSeq(s, LAMBDA x : x = "exit"))

\* A failed test has unwound: pytest records it and goes on with the step
\* after the test's last exit.  A KeyboardInterrupt ends the session.
NextTest ==
  /\ failed /\ open = <<>> /\ interrupts = 0
  /\ failed' = FALSE
  /\ pc' = 1 + Min({j \in pc..Len(script) : script[j] = "exit" /\ Depth(j) = 0})
  /\ UNCHANGED <<script, open, phase, end, todo, clock, next, made, loc, ctime,
                 interrupts, home, cut>>

Finished ==
  /\ open = <<>>
  /\ \/ ~failed /\ pc > Len(script)
     \/ failed /\ interrupts > 0
  /\ UNCHANGED vars

\* pytest's own thread: the tests, collect_datapoints and pytest itself.
Program == Enter \/ Run \/ Finally \/ MkStore \/ Move \/ Exit \/ NextTest

Next == Program \/ InterruptFinally \/ Finished

Spec == Init /\ [][Next]_vars

---------------------------------------------------------------------------
(* Properties.                                                            *)

IsOpen(s) == \E i \in 1..Len(open) : open[i].store = s

\* The archive's layout follows the nesting of the tests: outside a
\* finally, and unless an interrupt cut one short, a directory stays in
\* archive/ while the collect_datapoints block it was made in is running,
\* and is in that block's store once the block has ended, normally or by
\* an exception; a directory made outside every block (an older run, the
\* store of a top-level block) stays in archive/.
ArchivedWhereRun ==
  (phase = "body" /\ ~cut) =>
    \A d \in made : loc[d] = IF IsOpen(home[d]) THEN ROOT ELSE home[d]

\* The stores enclosing s, s itself first.
RECURSIVE Enclosing(_)
Enclosing(s) == IF s = ROOT THEN {} ELSE {s} \cup Enclosing(home[s])

\* However Ctrl-C cuts the finallys short, the ctime windows never file a
\* directory under another test: every directory is in archive/, in the
\* store of its own block, or in the store of a block around that one;
\* never in an unrelated test's store, and no store inside itself.
NeverMisfiled ==
  \A d \in made : loc[d] \in {ROOT} \cup Enclosing(home[d])

=============================================================================
