------------------------------- MODULE MCPool -------------------------------
(* Model-checking instance of Pool: two VMs (the second one exercises the  *)
(* unwinding of an already entered VM), a probe budget of none or two.    *)
EXTENDS Pool

MCVms == 0..1
MCTimeouts == {0, 2}
MCTimeoutTwo == {2}
MCTimeoutZero == {0}
=============================================================================
