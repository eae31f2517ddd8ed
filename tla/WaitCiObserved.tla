--------------------------- MODULE WaitCiObserved ---------------------------
(***************************************************************************)
(* The watcher of WaitCi with history variables that remember what the     *)
(* commits really looked like, and the properties that relate what the     *)
(* script says to what was true.                                           *)
(***************************************************************************)
EXTENDS WaitCi

VARIABLES
  seenGreen,  \* the pinned commit was green since this poll (recheck) began
  greenLog,   \* <<commit, fingerprint, time>> of the green moments so far
  byWatcher,  \* the pull request was merged by the watcher's own call
  freshGreen  \* the settled runs were the commit's, all green, since the
              \* verdict or the last call to merge

observed == <<seenGreen, greenLog, byWatcher, freshGreen>>

(* The words "green" of the script's header, said of all the runs a commit *)
(* has and not of a read of them.                                          *)
Required(r) == r.name \in Contexts /\ (AnyApp \/ r.app = GateApp)

WholeGreen(s) ==
  /\ \A c \in Contexts : \E r \in runs[s] : Required(r) /\ r.name = c
  /\ \A r \in runs[s] :
       /\ r.sound /\ r.completed
       /\ \/ r.conclusion = "success"
          \/ ~Required(r) /\ r.conclusion = "pass"
          \/ ~Required(r) /\ r.conclusion = "bad"
             /\ \E a \in Allowed : a[1] = r.name /\ a[2] \in {r.app, Everyone}
  /\ Cardinality(runs[s]) >= MinChecks

RunsMark(s) ==
  {<<r.id, r.completed, r.conclusion, r.app, r.name>> : r \in runs[s]}

PinGreen == pin \in Sha /\ WholeGreen(pin)

(* A poll begins with its head call, a recheck with its first read.        *)
WindowOpens == pc' = "before" /\ phase' \in {"first", "recheck"} /\ pc # "before"

(* All the runs of the commit are the settled ones, and green.             *)
GreenAsSettled == PinGreen /\ RunsMark(pin) = settleFp

(* The script turns to its first attempt, or a call to merge has returned. *)
TurnBegins == pc' \in {"protect", "accepted", "refused"} /\ pc' # pc

ObservedInit ==
  /\ Init
  /\ seenGreen = FALSE
  /\ greenLog = {}
  /\ byWatcher = FALSE
  /\ freshGreen = FALSE

Observe ==
  /\ seenGreen' = (PinGreen' \/ (seenGreen /\ ~WindowOpens))
  /\ greenLog' = greenLog \cup
       {<<s, RunsMark(s)', now'>> : s \in {z \in Sha : WholeGreen(z)'}}
  /\ byWatcher' = (byWatcher \/ (MergeCall /\ merged' # merged))
  /\ freshGreen' = (GreenAsSettled' \/ (freshGreen /\ ~TurnBegins))

ObservedNext == Next /\ Observe

ObservedVars == <<vars, observed>>

ObservedSpec ==
  ObservedInit /\ [][ObservedNext]_ObservedVars /\ WF_ObservedVars(Watch /\ Observe)

-----------------------------------------------------------------------------
(* Green is never a collage: when the script acts on a green list (it      *)
(* reports it, or calls the merge), there was one instant since that poll  *)
(* (or that recheck) began at which every run the commit has, the ones the *)
(* list no longer shows included, was really green.                        *)
GreenIsReal ==
  pc \in {"reread", "merge"} \/ (result = <<0, "green">> /\ ~Merge) => seenGreen

(* The settle rule: the very runs a green verdict rests on were all green  *)
(* at an earlier poll too, at least one interval before, so a check that   *)
(* appeared in between is never overlooked.                                *)
SettledAcrossPolls ==
  pc = "reread" =>
    \E e \in greenLog : e[1] = pin /\ e[2] = settleFp /\ e[3] <= now - Interval

(* No call to merge rests on an old look: since the verdict, and for a     *)
(* retry since the call before it, there was an instant at which the runs  *)
(* of the verified commit were exactly the settled ones, and all green.    *)
MergeNeedsAFreshLook == pc = "merge" => verified = pin /\ freshGreen

(* The watcher is an implementation of the commit gate.                    *)
Gate == INSTANCE CommitGate WITH
  mergedAt <- merged,
  byGate   <- byWatcher,
  vetted   <- {e[1] : e \in greenLog},
  outcome  <- IF result = <<>> THEN <<>>
              ELSE <<result[1], result[2], verified, claim>>

ImplementsCommitGate == Gate!Spec
=============================================================================
