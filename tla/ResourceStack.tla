--------------------------- MODULE ResourceStack ---------------------------
(***************************************************************************)
(* What an ExitStack of resource handles promises, abstractly, for each   *)
(* of several owners: each resource is acquired at most once, handles are *)
(* released only from the top (the last one acquired and not yet         *)
(* released), and each is released exactly once.  Each Vm.__enter__      *)
(* builds such a stack of its daemons; Pool.tla shows its VMs implement   *)
(* this specification.                                                     *)
(***************************************************************************)
EXTENDS Sequences, SequencesExt

CONSTANTS
  Owners,   \* the stacks
  Res       \* the resources an owner may hold

VARIABLES
  held,      \* held[o]: handles acquired and not released, oldest first
  released   \* released[o][r]: how many times o released r

vars == <<held, released>>

Init ==
  /\ held = [o \in Owners |-> <<>>]
  /\ released = [o \in Owners |-> [r \in Res |-> 0]]

Acquire(o, r) ==
  /\ r \notin ToSet(held[o])
  /\ released[o][r] = 0
  /\ held' = [held EXCEPT ![o] = Append(@, r)]
  /\ UNCHANGED released

Release(o) ==
  /\ held[o] # <<>>
  /\ held' = [held EXCEPT ![o] = Front(@)]
  /\ released' = [released EXCEPT ![o][Last(held[o])] = 1]

Next == \E o \in Owners : Release(o) \/ \E r \in Res : Acquire(o, r)

Spec == Init /\ [][Next]_vars
=============================================================================
