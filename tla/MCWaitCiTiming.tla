--------------------------- MODULE MCWaitCiTiming ---------------------------
(***************************************************************************)
(* Small instances of the watcher for the properties of WaitCiTiming.      *)
(***************************************************************************)
EXTENDS WaitCiTiming

Names    == {"ci"}
Gates    == {"ci"}
GateRuns == {[name |-> "ci", app |-> "actions", sound |-> TRUE]}
=============================================================================
