----------------------------- MODULE ToolLocks -----------------------------
(***************************************************************************)
(* scripts/tool_locks.py: each tool's lock, .github/requirements/<t>.txt,  *)
(* is resolved from <t>.in and copied into the workflow that installs the  *)
(* tool.  People and Dependabot edit these files between two runs of the   *)
(* script, and a run can stop halfway.                                     *)
(*                                                                         *)
(* A tool is one package here; its .in is a version, a lock the version it *)
(* was resolved for and the wheels whose hashes it lists.                  *)
(***************************************************************************)
EXTENDS Integers, Sequences, FiniteSets

CONSTANTS
  Tools,      \* TOOLS, in order
  Carrier,    \* Carrier[t]: the workflow that carries t's lock
  Oldest,     \* Oldest[t]: the oldest CPython minor t is locked for
  Newest,     \* NEWEST_MINOR
  Workflows,  \* the workflows, in the order of their names
  Wheels,     \* Wheels[v]: the wheels of version v of a tool, 0 the first
  MaxChanges, \* bound: edits by hand and by Dependabot
  MaxRuns     \* bound: runs of the script

Tool == {Tools[i] : i \in DOMAIN Tools}
Version == DOMAIN Wheels

(* The table TOOLS: no tool without a workflow, none for a Python that is  *)
(* newer than the newest; and of a wheel, what its name says.              *)
ASSUME LockAssumption ==
  /\ Tools \in Seq(Tool) /\ Workflows \in Seq({Workflows[i] : i \in DOMAIN Workflows})
  /\ \A t \in Tool : \E i \in DOMAIN Workflows : Carrier[t] = Workflows[i]
  /\ Newest \in Nat
  /\ \A t \in Tool : Oldest[t] \in Nat /\ Oldest[t] <= Newest
  /\ 0 \in Version
  /\ \A v \in Version : \A w \in Wheels[v] : w.minor \in Nat
  /\ MaxChanges \in Nat /\ MaxRuns \in Nat

VARIABLES
  wants,      \* wants[t]: the version in <t>.in
  lock,       \* lock[t]: <t>.txt
  carried,    \* carried[t]: the lock in the REQUIREMENTS of t's workflow, or NoStep
  flags,      \* the options of the run, {"idle"} between two
  position,   \* of a run: the tool to relock, then the workflow to compare
  differs,    \* the workflows --check found to differ
  ended,      \* the options and the status of the last run, <<>> once it is out of date
  changes, runs

lockVars == <<wants, lock, carried, flags, position, differs, ended, changes, runs>>

NoStep == [of |-> -1, files |-> {}]   \* the workflow has no such step with a REQUIREMENTS block

(* wanted_wheel: a wheel is kept for its Pythons, and the Linux of a runner. *)
WantedWheel(w, oldest) ==
  /\ w.linux
  /\ \/ w.python = "py3"
     \/ w.abi = "abi3" /\ w.minor <= oldest
     \/ w.abi \in {"own", "none"} /\ w.minor \in oldest..Newest

-----------------------------------------------------------------------------
LockInit ==
  /\ wants = [t \in Tool |-> 0]
  /\ lock = [t \in Tool |-> [of |-> 0, files |-> {w \in Wheels[0] : WantedWheel(w, Oldest[t])}]]
  /\ carried = lock
  /\ flags = {"idle"} /\ position = 1 /\ differs = {} /\ ended = <<>>
  /\ changes = 0 /\ runs = 0

(* Between two runs: somebody edits a .in or a workflow, and Dependabot    *)
(* moves both the .in and the .txt, with every platform's wheels.          *)
Change(t) ==
  /\ flags = {"idle"} /\ changes < MaxChanges /\ changes' = changes + 1
  /\ \/ \E v \in Version \ {wants[t]} :
          /\ wants' = [wants EXCEPT ![t] = v]
          /\ lock' \in {lock, [lock EXCEPT ![t] = [of |-> v, files |-> Wheels[v]]]}
          /\ UNCHANGED carried
     \/ /\ carried' \in {[carried EXCEPT ![t] = x] :
                           x \in {NoStep} \cup {carried[u] : u \in Tool \ {t}}}
        /\ UNCHANGED <<wants, lock>>
  /\ ended' = <<>>
  /\ UNCHANGED <<flags, position, differs, runs>>

Start ==
  /\ flags = {"idle"} /\ runs < MaxRuns /\ runs' = runs + 1
  /\ flags' \in SUBSET {"--relock", "--check"}
  /\ position' = 1 /\ differs' = {} /\ ended' = <<>>
  /\ UNCHANGED <<wants, lock, carried, changes>>

Stop(status) == flags' = {"idle"} /\ ended' = <<flags, status>>

(* relock, of one tool: it is written at once.  No network, no resolution  *)
(* or no wheel that is wanted ends the run.                                *)
Relock ==
  /\ "--relock" \in flags /\ position <= Len(Tools)
  /\ LET t    == Tools[position]
         kept == {w \in Wheels[wants[t]] : WantedWheel(w, Oldest[t])}
     IN \/ /\ kept # {}
           /\ lock' = [lock EXCEPT ![t] = [of |-> wants[t], files |-> kept]]
           /\ position' = position + 1
           /\ UNCHANGED <<flags, ended>>
        \/ Stop(1) /\ UNCHANGED <<lock, position>>
  /\ UNCHANGED <<wants, carried, differs, changes, runs>>

(* inline, and what main does with it, of one workflow: all its locks are  *)
(* put in and it is written once.  A step that is not there ends the run.  *)
Of(workflow) == {t \in Tool : Carrier[t] = workflow}
Inline_LastOnly(workflow) ==
  [t \in Tool |-> IF t = Tools[Len(Tools)] THEN lock[t] ELSE carried[t]]
Inline(workflow) == [t \in Tool |-> IF t \in Of(workflow) THEN lock[t] ELSE carried[t]]

Compared == IF "--relock" \in flags THEN position - Len(Tools) ELSE position

Copy ==
  /\ flags # {"idle"} /\ Compared \in 1..Len(Workflows)
  /\ LET workflow == Workflows[Compared] IN
     \/ /\ \E t \in Of(workflow) : carried[t] = NoStep
        /\ Stop(1)
        /\ UNCHANGED <<carried, differs, position>>
     \/ /\ \A t \in Of(workflow) : carried[t] # NoStep
        /\ IF "--check" \in flags
           THEN /\ differs' = IF Inline(workflow) = carried THEN differs
                              ELSE differs \cup {workflow}
                /\ UNCHANGED carried
           ELSE carried' = Inline(workflow) /\ UNCHANGED differs
        /\ position' = position + 1
        /\ UNCHANGED <<flags, ended>>
  /\ UNCHANGED <<wants, lock, changes, runs>>

Finish ==
  /\ flags # {"idle"} /\ Compared > Len(Workflows)
  /\ Stop(IF differs = {} THEN 0 ELSE 1)
  /\ UNCHANGED <<wants, lock, carried, position, differs, changes, runs>>

LockNext == (\E t \in Tool : Change(t)) \/ Start \/ Relock \/ Copy \/ Finish

LockSpec == LockInit /\ [][LockNext]_lockVars

-----------------------------------------------------------------------------
LockTypeOK ==
  LET Lock == [of : Version, files : SUBSET UNION {Wheels[v] : v \in Version}] IN
  /\ wants \in [Tool -> Version] /\ lock \in [Tool -> Lock]
  /\ carried \in [Tool -> Lock \cup {NoStep}]
  /\ flags \in {{"idle"}} \cup SUBSET {"--relock", "--check"}
  /\ position \in 1..(Len(Tools) + Len(Workflows) + 1)
  /\ differs \subseteq {Workflows[i] : i \in DOMAIN Workflows}
  /\ ended \in {<<>>} \cup ((SUBSET {"--relock", "--check"}) \X {0, 1})
  /\ changes \in 0..MaxChanges /\ runs \in 0..MaxRuns

(* Can CPython 3.m on a Linux runner install the wheel?                    *)
Installs(m, w) == w.linux /\ \/ w.python = "py3"
                             \/ w.abi = "abi3" /\ w.minor <= m
                             \/ w.abi # "abi3" /\ w.minor = m

(* A run that ends with 0 leaves, or has found, the repository in order,   *)
(* whatever was edited, left half relocked or missing before: every        *)
(* workflow installs exactly what its .txt locks; and after --relock the   *)
(* .txt is the .in's, with at least one wheel and none that no supported   *)
(* Python on the runners could install.                                    *)
ZeroMeansInOrder ==
  ended # <<>> /\ ended[2] = 0 =>
    \A t \in Tool :
      /\ carried[t] = lock[t]
      /\ "--relock" \in ended[1] =>
           /\ lock[t].of = wants[t] /\ lock[t].files # {}
           /\ \A w \in lock[t].files : \E m \in Oldest[t]..Newest : Installs(m, w)
=============================================================================
