---------------------------- MODULE AdmissionSpec ----------------------------
(***************************************************************************)
(* What the admission controller promises the pool, whatever the memory   *)
(* on the node does: the guests are prepared from the end of the VM list  *)
(* in contiguous batches, each just below the guests already prepared,    *)
(* each guest at most once; the call returns normally only when every     *)
(* guest is prepared, may raise at any point, and does one of the two.    *)
(* Admission.tla, the detailed loop of Bench._guests_prepare, is checked  *)
(* to implement this specification.                                       *)
(***************************************************************************)
EXTENDS Naturals, FiniteSetsExt

CONSTANT NumVms

VARIABLES
  prepared,  \* number of times each guest was prepared
  status     \* "running", "done" (returned) or "raised"

avars == <<prepared, status>>

Vms == 0..(NumVms - 1)

\* The prepared guests are vms[Low:]; Low = NumVms while none is.
Low ==
  IF \E v \in Vms : prepared[v] > 0
    THEN Min({v \in Vms : prepared[v] > 0})
    ELSE NumVms

TypeOK ==
  /\ prepared \in [Vms -> 0..1]
  /\ status \in {"running", "done", "raised"}

Init ==
  /\ prepared = [v \in Vms |-> 0]
  /\ status = "running"

\* One batch vms[lo:Low], right below the guests already prepared.
PrepareBatch(lo) ==
  /\ status = "running"
  /\ lo < Low
  /\ prepared' = [v \in Vms |-> IF lo <= v /\ v < Low THEN 1 ELSE prepared[v]]
  /\ UNCHANGED status

\* Returning: the last batch vms[0:Low] is prepared on the way out.
Return ==
  /\ status = "running"
  /\ prepared' = [v \in Vms |-> IF v < Low THEN 1 ELSE prepared[v]]
  /\ status' = "done"

Raise ==
  /\ status = "running"
  /\ status' = "raised"
  /\ UNCHANGED prepared

Next == (\E lo \in Vms : PrepareBatch(lo)) \/ Return \/ Raise

Spec == Init /\ [][Next]_avars /\ WF_avars(Next)
=============================================================================
