------------------------------- MODULE GitHub -------------------------------
(***************************************************************************)
(* GitHub as scripts/wait-ci.sh uses it: one pull request, the check runs  *)
(* and check suites of its commits, and everybody who changes them while   *)
(* the watcher waits.  None of this code is in the repository; it is       *)
(* modelled from the calls the script makes and from what the script says  *)
(* those calls return.                                                     *)
(*                                                                         *)
(* A finished run is final: re-running a job gives the list a new run in   *)
(* the place of the old one (filter=latest), and a new run belongs to the  *)
(* newest suite or opens one.                                              *)
(***************************************************************************)
EXTENDS CheckRuns

CONSTANTS
  Sha, NoSha,   \* commits, and the absence of one
  WantSha,      \* --sha, or NoSha
  NewestFirst,  \* the order in which the list shows runs
  PageSize,     \* per_page
  Reported,     \* the kinds of run that appear: records [name, app, sound]
  Endings,      \* the conclusions they end with
  OthersMerge,  \* somebody else may merge
  MaxId,        \* bound: runs ever created
  MaxSuites,    \* bound: suites per commit
  MaxPushes,    \* bound: moves of the head
  MaxFaults     \* bound: calls that fail

ASSUME GitHubAssumption ==
  /\ NoSha \notin Sha
  /\ WantSha \in Sha \cup {NoSha}
  /\ NewestFirst \in BOOLEAN
  /\ PageSize \in Nat \ {0}
  /\ Reported \subseteq [name : Name, app : App, sound : BOOLEAN]
  /\ Endings \subseteq Conclusion
  /\ OthersMerge \in BOOLEAN
  /\ {MaxId, MaxSuites, MaxPushes, MaxFaults} \subseteq Nat

VARIABLES
  head,     \* the head commit of the pull request
  merged,   \* the head it was merged at, or NoSha
  runs,     \* runs[s]: the latest run of every check of commit s
  suites,   \* suites[s]: how many check suites commit s has
  nextId, pushes, faults

world == <<head, merged, runs, suites, nextId, pushes, faults>>

GitHubInit ==
  /\ head \in Sha
  /\ merged = NoSha
  /\ runs = [s \in Sha |-> {}]
  /\ suites = [s \in Sha |-> 0]
  /\ nextId = 1
  /\ pushes = 0
  /\ faults = 0

GitHubTypeOK ==
  /\ head \in Sha
  /\ merged \in Sha \cup {NoSha}
  /\ runs \in [Sha -> SUBSET CheckRun]
  /\ suites \in [Sha -> Nat]
  /\ nextId \in Nat /\ pushes \in Nat /\ faults \in Nat

(* The list endpoint: runs of the newest SuiteCap suites only, in pages.   *)
Visible(s) == {r \in runs[s] : r.suite > suites[s] - SuiteCap}

Rank(s, r) ==
  Cardinality({q \in Visible(s) : IF NewestFirst THEN q.id > r.id
                                                 ELSE q.id < r.id})

Page(s, p) == {r \in Visible(s) : Rank(s, r) \div PageSize = p - 1}

-----------------------------------------------------------------------------
(* A check appears on the head, or on the commit --sha names.              *)
NewRun ==
  \E s \in {head, WantSha} \ {NoSha}, k \in Reported, n \in 0..1 :
    LET suite == suites[s] + n IN
    /\ nextId <= MaxId
    /\ suite \in 1..MaxSuites
    /\ runs' = [runs EXCEPT ![s] = @ \cup
         {[id |-> nextId, name |-> k.name, app |-> k.app, suite |-> suite,
           sound |-> k.sound, completed |-> FALSE, conclusion |-> "none"]}]
    /\ suites' = [suites EXCEPT ![s] = suite]
    /\ nextId' = nextId + 1
    /\ UNCHANGED <<head, merged, pushes, faults>>

Finish ==
  \E s \in Sha : \E r \in runs[s], c \in Endings :
    /\ ~r.completed
    /\ runs' = [runs EXCEPT ![s] = (@ \ {r}) \cup
         {[r EXCEPT !.completed = TRUE, !.conclusion = c]}]
    /\ UNCHANGED <<head, merged, suites, nextId, pushes, faults>>

Rerun ==
  \E s \in Sha : \E r \in runs[s] :
    /\ r.completed
    /\ nextId <= MaxId
    /\ runs' = [runs EXCEPT ![s] = (@ \ {r}) \cup
         {[r EXCEPT !.id = nextId, !.completed = FALSE, !.conclusion = "none"]}]
    /\ nextId' = nextId + 1
    /\ UNCHANGED <<head, merged, suites, pushes, faults>>

(* A push; it may bring an earlier commit back.  The head of a merged pull *)
(* request no longer moves.                                                *)
Push ==
  /\ merged = NoSha
  /\ pushes < MaxPushes
  /\ \E s \in Sha \ {head} : head' = s
  /\ pushes' = pushes + 1
  /\ UNCHANGED <<merged, runs, suites, nextId, faults>>

(* Somebody else, or the merge queue, merges the pull request.             *)
MergeElsewhere ==
  /\ OthersMerge /\ merged = NoSha
  /\ merged' = head
  /\ UNCHANGED <<head, runs, suites, nextId, pushes, faults>>

Environment == NewRun \/ Finish \/ Rerun \/ Push \/ MergeElsewhere

(* A call that fails, or answers with something the script refuses.        *)
Fault ==
  /\ faults < MaxFaults
  /\ faults' = faults + 1
  /\ UNCHANGED <<head, merged, runs, suites, nextId, pushes>>
=============================================================================
