------------------------------ MODULE MCWaitCi ------------------------------
(***************************************************************************)
(* Small instances of the watcher for the properties of WaitCiObserved: a  *)
(* gate, "ci", and a check beside it, from GitHub Actions or another app.  *)
(***************************************************************************)
EXTENDS WaitCiObserved

Kind(n, a, s) == [name |-> n, app |-> a, sound |-> s]

Names     == {"ci", "lint"}
Gates     == {"ci"}
GateRuns  == {Kind("ci", "actions", TRUE)}
PlainRuns == GateRuns \cup {Kind("lint", "actions", TRUE)}
OddRuns   == PlainRuns \cup {Kind("ci", "other", TRUE), Kind("lint", "actions", FALSE)}
LintMayFail == {<<"lint", "actions">>}
=============================================================================
