------------------------------ MODULE CheckRuns ------------------------------
(***************************************************************************)
(* The judgement of scripts/wait-ci.sh: what one complete read of a        *)
(* commit's check runs says about the commit.  A read is what read_world   *)
(* leaves behind (the two suite counts and the lines of every page); the   *)
(* verdict is what evaluate makes of it.                                   *)
(*                                                                         *)
(* A check run keeps the fields a verdict depends on.  "sound" stands for  *)
(* every shape test evaluate makes on a line (a plain id, canonical        *)
(* base64, no control character in the name, the pinned commit as its      *)
(* head_sha).  Conclusions are grouped as the code groups them: "bad" is   *)
(* the BAD_CONCLUSION table, "pass" is neutral or skipped, "none" is any   *)
(* other value, the empty one of an unfinished run included.               *)
(***************************************************************************)
EXTENDS Integers, FiniteSets

CONSTANTS
  Name,         \* check run names
  App,          \* GitHub Apps that report check runs (id and slug of one app)
  Contexts,     \* the required names (--context and --require-check)
  GateApp,      \* the app whose runs may satisfy a context (--app-id)
  AnyApp,       \* --any-app
  Allowed,      \* --allow-red: pairs <<name, app>>, the app may be Everyone
  Everyone,     \* the app of an --allow-red entry without @APP
  MinChecks,    \* --min-checks
  SuiteCap,     \* SUITE_CAP: the list shows the runs of that many suites
  RunListCap    \* RUN_LIST_CAP

(* need_num admits min-checks 1..100000; an allowed name is never a gate.  *)
ASSUME OptionsAssumption ==
  /\ Contexts \subseteq Name
  /\ GateApp \in App
  /\ AnyApp \in BOOLEAN
  /\ Everyone \notin App
  /\ Allowed \subseteq (Name \ Contexts) \X (App \cup {Everyone})
  /\ MinChecks \in Nat \ {0}
  /\ SuiteCap \in Nat \ {0}
  /\ RunListCap \in Nat \ {0}

Unreadable == -1     \* a suite count that could not be read (the empty string)
Missing    == -1     \* a page that carried no total_count

Conclusion == {"success", "pass", "bad", "none"}

CheckRun == [id : Nat, name : Name, app : App, suite : Nat, sound : BOOLEAN,
             completed : BOOLEAN, conclusion : Conclusion]

(* What read_world returns.  counts holds the distinct total_count values  *)
(* of the pages, seen the number of run lines (repeated ones included).    *)
Read == [before : Int, after : Int, counts : SUBSET Int,
         seen : Nat, runs : SUBSET CheckRun]

Ids(runs) == {r.id : r \in runs}

-----------------------------------------------------------------------------
(* One run.                                                                *)

(* A required name counts only from the expected app, unless --any-app.    *)
IsGate_AnyApp(r) == r.name \in Contexts

IsGate(r) == r.name \in Contexts /\ (AnyApp \/ r.app = GateApp)

IsAllowed(r) == \E a \in Allowed : a[1] = r.name /\ a[2] \in {Everyone, r.app}

IsBad(r) == r.completed /\ r.conclusion = "bad"

(* A run beside the gate that is still to be waited for: unfinished, or    *)
(* finished without a usable conclusion.                                   *)
OtherOpen(r) == ~IsGate(r) /\ (~r.completed \/ r.conclusion = "none")

OtherBad(r) == ~IsGate(r) /\ IsBad(r) /\ ~IsAllowed(r)

-----------------------------------------------------------------------------
(* One read.                                                               *)

(* A read that contradicts itself: the collection moved between two page   *)
(* requests.                                                               *)
Unstable(rd) ==
  /\ rd.counts # {} /\ Missing \notin rd.counts
  /\ \/ Cardinality(rd.counts) > 1
     \/ Cardinality(Ids(rd.runs)) < rd.seen
     \/ \A c \in rd.counts : c < rd.seen

(* A read that may not show every run of the commit.                       *)
Truncated_NoSuiteCap(rd) ==
  \/ Unreadable \in {rd.before, rd.after} \/ rd.before # rd.after
  \/ rd.counts = {} \/ Missing \in rd.counts
  \/ \E c \in rd.counts : c > rd.seen \/ c >= RunListCap

Truncated(rd) ==
  \/ Unreadable \in {rd.before, rd.after} \/ rd.before # rd.after
  \/ rd.before >= SuiteCap
  \/ rd.counts = {} \/ Missing \in rd.counts
  \/ \E c \in rd.counts : c > rd.seen \/ c >= RunListCap

(* Every required context reported, all its runs finished with success.    *)
ContextsMet(runs) ==
  \A c \in Contexts :
    LET mine == {r \in runs : IsGate(r) /\ r.name = c}
    IN  mine # {} /\ \A r \in mine : r.completed /\ r.conclusion = "success"

EnoughComplete(runs) == Cardinality({r \in runs : r.completed}) >= MinChecks

Evaluate(rd) ==
  IF \E r \in rd.runs : ~r.sound THEN "red"
  ELSE IF Unstable(rd) THEN "pending"
  ELSE IF \E r \in rd.runs : IsGate(r) /\ IsBad(r) THEN "red"
  ELSE IF \E r \in rd.runs : OtherBad(r) THEN "other-red"
  ELSE IF \/ Truncated(rd) \/ rd.runs = {}
          \/ ~ContextsMet(rd.runs) \/ ~EnoughComplete(rd.runs)
          \/ \E r \in rd.runs : OtherOpen(r)
       THEN "pending"
  ELSE "green"

(* What two reads are compared by.                                         *)
Mark == Nat \X BOOLEAN \X Conclusion \X App \X Name

Fingerprint(rd) ==
  {<<r.id, r.completed, r.conclusion, r.app, r.name>> : r \in rd.runs}
=============================================================================
