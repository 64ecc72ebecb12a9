----------------------------- MODULE MCSession ------------------------------
(* Small instances of Session: which failures the environment may produce.  *)
EXTENDS Session

\* Everything can go wrong but a sound stream that cannot be stopped, and a
\* bootstrap that outlives the stop thread's 10 s of patience.
MostFaults == FaultKinds \ {"stop", "slow_boot"}

\* The provider calls and the machine are in order.
NoFaults == {}
=============================================================================
