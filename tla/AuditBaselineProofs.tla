------------------------- MODULE AuditBaselineProofs -------------------------
(***************************************************************************)
(* What an audit is worth, for every list of repositories, every register, *)
(* whatever the repositories and organizations look like and whichever     *)
(* calls GitHub refuses.  How a file is read is not proved: that the line  *)
(* reading finds in each repository what is there is the hypothesis        *)
(* ReadsRight.                                                             *)
(***************************************************************************)
EXTENDS AuditBaseline, FiniteSetTheorems, SequenceTheorems, TLAPS

(* The line reading finds the gates, the advisories and the pins there are.*)
ReadsRight ==
  \A r \in Repo : \A s \in RepoStates[r] :
    /\ s.gates = UNION {ExpectedGates(s.files[i]) : i \in DOMAIN s.files}
    /\ s.advisories = UNION {ExceptionsIn(s.files[i]) : i \in DOMAIN s.files}
    /\ s.pinned = (\A i \in DOMAIN s.files : WorkflowFindings(s.files[i]) = {})

(* Nobody spreads the protection of the tags over several rulesets, and no *)
(* update leaves its directory to a list: the script reads neither.        *)
NothingSpread ==
  \A r \in Repo : \A s \in RepoStates[r] :
    /\ Covered(s) => TagRuleset(s.rulesets)
    /\ \A i \in DOMAIN s.updates : s.updates[i].directory # "none"

-----------------------------------------------------------------------------
(* What a check looks at: what it is about, but for two of them, which look*)
(* at one ruleset and at one directory of an update only.                  *)
Holds(r, c) ==
  /\ c \notin {"tag-ruleset", "dependabot-ecosystem"} => Meets(r, c)
  /\ c = "tag-ruleset" => TagRuleset(state[r].rulesets)
  /\ c = "dependabot-ecosystem" =>
       state[r].locks = {} \/ (state[r].dependabot /\ ~PipUpdatedRoots(state[r].updates))

OwnerIn(x) == IF x.repo \in Repo THEN OwnerOf[x.repo] ELSE x.repo

(* A result says what is so, unless there is an UNKNOWN about that owner;  *)
(* and a FAIL says what is so, unless what it was put together from was    *)
(* not read.                                                               *)
Doubted(r, c, status) ==
  /\ InDoubt(IF r \in Repo THEN OwnerOf[r] ELSE r)
  /\ status = "FAIL" => Excused(r, c)

Right(x) == \/ Doubted(x.repo, x.check, x.status)
            \/ x.status = "PASS" /\ Holds(x.repo, x.check)
            \/ x.status = "FAIL" /\ ~Holds(x.repo, x.check)

(* Repositories and organizations have checks of their own.                *)
Placed(x) == \/ x.repo \in ListedRepos /\ x.check \in Setting \cup RepoChecks
             \/ x.repo \in Orgs /\ x.check \in OrgChecks

ResultsAreRight == \A x \in results : Placed(x) /\ Right(x)

-----------------------------------------------------------------------------
(* What has been asked: every check of a step that is behind.              *)
Reported(r, c) == \E x \in results : x.repo = r /\ x.check = c
Turn(c) ==
  CASE c = "repository" -> 0
    [] c \in {"workflows", "workflows-pinned"} -> 1
    [] c = "collaborators" -> 2
    [] c = "branch-protection" -> 3
    [] c = "settings" -> 4
    [] c = "actions-allowlist" -> 5
    [] c = "tag-ruleset" -> 6
    [] c = "risk-exceptions" -> 7
    [] c = "dependabot-config" -> 8
    [] c = "dependabot-ecosystem" -> 9
    [] c = "doppler-identity" -> 10
    [] c = "pre-commit-hook" -> 11
Asked == RepoChecks \ {"repository", "uses-shared-workflows"}

(* The callers are only looked for in workflow files there are.            *)
CallersAsked(r) ==
  \/ Reported(r, "uses-shared-workflows")
  \/ \E x \in results : x.repo = r /\ x.check = "workflows-pinned" /\ x.status # "PASS"

Met(r) == OwnerOf[r] \in Orgs => OwnerOf[r] \in seen

Done(r) ==
  \/ Result(r, "repository", "UNKNOWN") \in results
  \/ /\ \A c \in Asked \cup Setting : Reported(r, c)
     /\ CallersAsked(r) /\ Met(r)

Behind(r, turn) ==
  /\ turn > 0 => Met(r)
  /\ turn > 1 => CallersAsked(r)
  /\ turn > 4 => \A c \in Setting : Reported(r, c)
  /\ \A c \in Asked : Turn(c) < turn => Reported(r, c)

Progress ==
  /\ \A i \in 1..Len(Listed) : i < at => Done(Listed[i])
  /\ at <= Len(Listed) => Behind(This, Turn(step))

(* What the workflow files say is read right, or the report says it could  *)
(* not be read.                                                            *)
WorkflowsRead ==
  at <= Len(Listed) /\ Turn(step) > 1 =>
    \/ GatesUnread(This) /\ wf = NoWorkflows
    \/ wf = [gates |-> state[This].gates, advisories |-> state[This].advisories,
             doppler |-> NeedsIdentity(This)]

(* An organization is met through a repository of the list, its owners are *)
(* who they are, and it is reported on as a whole.                         *)
OrgsAreMet ==
  /\ \A o \in seen : \E r \in ListedRepos : OwnerOf[r] = o
  /\ \A o \in Orgs : owners[o] \in {Unread, Refused, <<"read", org[o].owners>>}
  /\ \A x \in results : x.repo \in Orgs => \A c \in OrgChecks : Reported(x.repo, c)

(* An organization is met with a repository that is asked for its          *)
(* allow-list, later if not before.                                        *)
Toured(o) ==
  \E r \in ListedRepos :
    /\ OwnerOf[r] = o
    /\ \/ Reported(r, "actions-allowlist")
       \/ at <= Len(Listed) /\ r = This /\ Turn(step) \in 1..5

OrgsAreToured == \A o \in seen : Toured(o)

(* Exit 0 comes after everything else, and from nothing but passes.        *)
GreenEnd ==
  exit = 0 =>
    /\ at > Len(Listed)
    /\ \A o \in seen : \E x \in results : x.repo = o
    /\ \A x \in results : x.status # "FAIL"
    /\ \A x \in results : x.status = "UNKNOWN" => allowUnknown

Sound == ResultsAreRight /\ Progress /\ WorkflowsRead /\ OrgsAreMet /\ OrgsAreToured /\ GreenEnd

-----------------------------------------------------------------------------
Steps == {"repository", "workflows", "collaborators", "branch-protection",
          "settings", "actions-allowlist", "tag-ruleset", "risk-exceptions",
          "dependabot-config", "dependabot-ecosystem", "doppler-identity",
          "pre-commit-hook"}

LEMMA ThisIsListed ==
  ASSUME TypeOK, at <= Len(Listed)
  PROVE  This \in Repo /\ This \in ListedRepos
BY AuditAssumption DEF TypeOK, This, ListedRepos

LEMMA TurnsAreNumbers ==
  /\ \A c \in Asked : Turn(c) \in 1..11
  /\ TypeOK => Turn(step) \in 0..11
  /\ \A c \in Asked : c \in RepoChecks
BY DEF Asked, RepoChecks, Turn, TypeOK

(* A step of the audit adds results and organizations, and takes none back.*)
Grows == UNCHANGED given /\ results \subseteq results' /\ seen \subseteq seen'

LEMMA DoubtStays ==
  ASSUME Grows, NEW o, InDoubt(o)
  PROVE  InDoubt(o)'
BY DEF Grows, InDoubt

LEMMA DoubtedStays ==
  ASSUME Grows, NEW r, NEW c, NEW status, Doubted(r, c, status)
  PROVE  Doubted(r, c, status)'
<1>1. Excused(r, c) => Excused(r, c)'
  BY DEF Grows, Excused, GatesUnread, NarrowingUnread
<1> QED BY <1>1, DoubtStays DEF Doubted

(* Unread workflow files are an UNKNOWN about the owner.                   *)
LEMMA UnreadIsDoubt ==
  ASSUME NEW r \in Repo, GatesUnread(r)
  PROVE  InDoubt(OwnerOf[r]) /\ \A status : Doubted(r, "branch-protection", status)
<1>1. PICK x : x = Result(r, "workflows-pinned", "UNKNOWN")
  OBVIOUS
<1>2. x \in results /\ x.repo = r /\ x.status = "UNKNOWN"
  BY <1>1 DEF GatesUnread, Result
<1> QED BY <1>2 DEF InDoubt, Doubted, Excused

LEMMA HoldsStays ==
  ASSUME Grows, NEW r, NEW c
  PROVE  Holds(r, c)' <=> Holds(r, c)
BY DEF Grows, given, Holds, Meets, Covered, OwnersOf, OrgPolicy, NeedsIdentity, Needed,
       Entered, UpdatedAsPip, ListedRepos

LEMMA RightStays ==
  ASSUME Grows, NEW x, Right(x)
  PROVE  Right(x)'
BY DoubtedStays, HoldsStays DEF Right

LEMMA ReportedStays ==
  ASSUME Grows, NEW r, NEW c, Reported(r, c)
  PROVE  Reported(r, c)'
BY DEF Grows, Reported

(* A tour goes on: a step of the same repository, or one that is not on it.*)
LEMMA TouredStays ==
  ASSUME TypeOK, Grows, NEW o, Toured(o),
         \/ Turn(step) \notin 1..5
         \/ UNCHANGED at /\ Turn(step') = Turn(step)
         \/ /\ UNCHANGED at /\ Turn(step') = Turn(step) + 1
            /\ Turn(step) = 5 => Reported(This, "actions-allowlist")'
  PROVE  Toured(o)'
<1>1. PICK r \in ListedRepos :
        /\ OwnerOf[r] = o
        /\ \/ Reported(r, "actions-allowlist")
           \/ at <= Len(Listed) /\ r = This /\ Turn(step) \in 1..5
  BY DEF Toured
<1>2. ListedRepos' = ListedRepos /\ Turn(step) \in 0..11
  BY TurnsAreNumbers DEF ListedRepos
<1>3. CASE Reported(r, "actions-allowlist")
  BY <1>1, <1>2, <1>3, ReportedStays DEF Toured
<1>4. CASE at <= Len(Listed) /\ r = This /\ Turn(step) \in 1..5
  <2>1. UNCHANGED at /\ This' = This
    BY <1>4 DEF This
  <2>2. CASE Turn(step') \in 1..5
    BY <1>1, <1>2, <1>4, <2>1, <2>2 DEF Toured
  <2>3. CASE Turn(step') \notin 1..5
    <3>1. Turn(step) = 5
      BY <1>4, <2>3
    <3>2. Reported(This, "actions-allowlist")'
      BY <3>1, <2>3
    <3>3. Reported(r, "actions-allowlist")'
      BY <3>2, <1>4, <2>1
    <3> QED BY <1>1, <1>2, <3>3 DEF Toured
  <2> QED BY <2>2, <2>3
<1> QED BY <1>1, <1>3, <1>4

LEMMA DoneStays ==
  ASSUME Grows, NEW r
  PROVE  /\ Met(r) => Met(r)'
         /\ CallersAsked(r) => CallersAsked(r)'
         /\ Done(r) => Done(r)'
<1>1. Met(r) => Met(r)'
  BY DEF Grows, Met
<1>2. CallersAsked(r) => CallersAsked(r)'
  BY DEF Grows, CallersAsked, Reported
<1>3. Done(r) => Done(r)'
  BY <1>1, <1>2, ReportedStays DEF Grows, Done
<1> QED BY <1>1, <1>2, <1>3

-----------------------------------------------------------------------------
(* The progress of an audit, when a step goes to the next one of the same  *)
(* repository, and when it goes to the next repository.                    *)
LEMMA GoOn ==
  ASSUME TypeOK, Progress, Grows, at' = at, at <= Len(Listed),
         step' \in Steps, Turn(step') = Turn(step) + 1,
         Turn(step) = 0 => Met(This)',
         Turn(step) = 1 => CallersAsked(This)',
         Turn(step) = 4 => \A c \in Setting : Reported(This, c)',
         \A c \in Asked : Turn(c) = Turn(step) => Reported(This, c)'
  PROVE  Progress'
<1> DEFINE turn == Turn(step)
<1>0. turn \in 0..11 /\ Turn(step') = turn + 1 /\ This' = This
  BY TurnsAreNumbers DEF This
<1>1. Behind(This, turn)
  BY DEF Progress
<1>2. turn + 1 > 0 => Met(This)'
  <2>1. turn > 0 => Met(This)
    BY <1>1 DEF Behind
  <2> QED BY <2>1, <1>0, DoneStays
<1>3. turn + 1 > 1 => CallersAsked(This)'
  <2>1. turn > 1 => CallersAsked(This)
    BY <1>1 DEF Behind
  <2> QED BY <2>1, <1>0, DoneStays
<1>4. turn + 1 > 4 => \A c \in Setting : Reported(This, c)'
  <2>1. turn > 4 => \A c \in Setting : Reported(This, c)
    BY <1>1 DEF Behind
  <2> QED BY <2>1, <1>0, ReportedStays
<1>5. \A c \in Asked : Turn(c) < turn + 1 => Reported(This, c)'
  <2> TAKE c \in Asked
  <2> HAVE Turn(c) < turn + 1
  <2>1. Turn(c) \in 1..11
    BY TurnsAreNumbers
  <2>2. CASE Turn(c) = turn
    BY <2>2
  <2>3. CASE Turn(c) < turn
    <3>1. Reported(This, c)
      BY <2>3, <1>1 DEF Behind
    <3> QED BY <3>1, <1>0, ReportedStays
  <2> QED BY <2>1, <2>2, <2>3, <1>0
<1>6. \A i \in 1..Len(Listed) : i < at => Done(Listed[i])'
  BY DoneStays DEF Progress
<1>7. Behind(This, Turn(step))'
  BY <1>0, <1>2, <1>3, <1>4, <1>5 DEF Behind, This, Met, CallersAsked, Reported
<1> QED BY <1>0, <1>6, <1>7 DEF Progress
LEMMA GoToNext ==
  ASSUME TypeOK, Progress, Grows, at' = at + 1, at <= Len(Listed),
         step' = "repository", NEW r, r = This, Done(r)'
  PROVE  Progress'
<1>1. at \in Nat /\ Len(Listed) \in Nat
  BY AuditAssumption DEF TypeOK
<1>2. ASSUME NEW i \in 1..Len(Listed), i < at + 1
      PROVE  Done(Listed[i])'
  <2>1. CASE i = at
    BY <2>1 DEF This
  <2>2. CASE i < at
    BY <2>2, DoneStays DEF Progress
  <2> QED BY <1>1, <1>2, <2>1, <2>2
<1>3. Behind(This, Turn(step))'
  <2>1. Turn(step') = 0
    BY DEF Turn
  <2>2. \A c \in Asked : Turn(c) \in 1..11
    BY TurnsAreNumbers
  <2> QED BY <2>1, <2>2 DEF Behind
<1> QED BY <1>2, <1>3 DEF Progress

-----------------------------------------------------------------------------
(* A new result, which says UNKNOWN or what is so.                         *)
LEMMA NewResult ==
  ASSUME TypeOK, Grows, at <= Len(Listed),
         NEW r, r = This, NEW c \in Setting \cup RepoChecks, NEW status,
         NEW new \in results', new = Result(r, c, status),
         \/ status = "UNKNOWN"
         \/ Doubted(r, c, status)
         \/ status = "PASS" /\ Holds(r, c)
         \/ status = "FAIL" /\ ~Holds(r, c)
  PROVE  Placed(new)' /\ Right(new)' /\ Reported(r, c)' /\ new.repo \notin Orgs
<1>1. r \in Repo /\ r \in ListedRepos
  BY ThisIsListed
<1>2. new.repo = r /\ new.check = c /\ new.status = status
  BY DEF Result
<1>3. Right(new)'
  <2>2. CASE status = "UNKNOWN"
    <3>1. InDoubt(OwnerOf[r])'
      BY <2>2, <1>1, <1>2 DEF InDoubt
    <3> QED BY <3>1, <1>1, <1>2, <2>2 DEF Right, Doubted
  <2>3. CASE Doubted(r, c, status)
    <3>1. Doubted(r, c, status)'
      BY <2>3, DoubtedStays
    <3> QED BY <3>1, <1>2 DEF Right
  <2>4. CASE status = "PASS" /\ Holds(r, c)
    <3>1. Holds(r, c)'
      BY <2>4, HoldsStays
    <3> QED BY <3>1, <2>4, <1>2 DEF Right
  <2>5. CASE status = "FAIL" /\ ~Holds(r, c)
    <3>1. ~Holds(r, c)'
      BY <2>5, HoldsStays
    <3> QED BY <3>1, <2>5, <1>2 DEF Right
  <2> QED BY <2>2, <2>3, <2>4, <2>5
<1>4. Placed(new)' /\ Reported(r, c)'
  BY <1>1, <1>2 DEF Placed, Reported
<1> QED BY <1>1, <1>2, <1>3, <1>4, AuditAssumption

LEMMA StillRight ==
  ASSUME Grows, ResultsAreRight,
         \A x \in results' : x \in results \/ (Placed(x)' /\ Right(x)')
  PROVE  ResultsAreRight'
<1>1. \A x \in results : Placed(x)' /\ Right(x)'
  BY RightStays DEF ResultsAreRight, Placed
<1> QED BY <1>1 DEF ResultsAreRight

LEMMA OneMore ==
  ASSUME TypeOK, ResultsAreRight, Grows, at <= Len(Listed),
         NEW r, r = This, NEW c \in Setting \cup RepoChecks, NEW status,
         results' = results \cup {Result(r, c, status)},
         \/ status = "UNKNOWN"
         \/ Doubted(r, c, status)
         \/ status = "PASS" /\ Holds(r, c)
         \/ status = "FAIL" /\ ~Holds(r, c)
  PROVE  /\ ResultsAreRight' /\ Reported(r, c)'
         /\ \A x \in results' : x \in results \/ x.repo \notin Orgs
<1>1. PICK new : new = Result(r, c, status)
  OBVIOUS
<1>2. new \in results' /\ \A x \in results' : x \in results \/ x = new
  BY <1>1
<1>3. Placed(new)' /\ Right(new)' /\ Reported(r, c)' /\ new.repo \notin Orgs
  BY <1>1, <1>2, NewResult
<1> QED BY <1>2, <1>3, StillRight

LEMMA OrgsKept ==
  ASSUME OrgsAreMet, Grows, owners' = owners,
         \A o \in seen' : o \in seen \/ \E r \in ListedRepos : OwnerOf[r] = o,
         \A x \in results' : x \in results \/ x.repo \notin Orgs
  PROVE  OrgsAreMet'
<1>1. \A o \in seen' : \E r \in ListedRepos : OwnerOf[r] = o
  BY DEF OrgsAreMet
<1>2. \A o \in Orgs : owners'[o] \in {Unread, Refused, <<"read", org'[o].owners>>}
  BY DEF OrgsAreMet, Grows, given
<1>3. ASSUME NEW x \in results', x.repo \in Orgs, NEW c \in OrgChecks
      PROVE  Reported(x.repo, c)'
  <2>1. Reported(x.repo, c)
    BY <1>3 DEF OrgsAreMet
  <2> QED BY <2>1 DEF Reported, Grows
<1> QED BY <1>1, <1>2, <1>3 DEF OrgsAreMet

LEMMA TurnsDiffer ==
  ASSUME NEW c \in Asked, NEW d \in Asked, Turn(c) = Turn(d)
  PROVE  c = d
BY DEF Asked, RepoChecks, Turn

(* A check that is one question: its step is behind it.                    *)
LEMMA OneCheck ==
  ASSUME TypeOK, Sound, exit = -1, at <= Len(Listed),
         NEW c \in Asked \ {"workflows-pinned"}, Turn(step) = Turn(c), Turn(c) \in {2, 3, 5, 6, 7, 8, 9, 10},
         step' \in Steps, Turn(step') = Turn(c) + 1,
         UNCHANGED <<given, at, wf, seen, owners, exit>>,
         NEW status, results' = results \cup {Result(This, c, status)},
         \/ status = "UNKNOWN"
         \/ Doubted(This, c, status)
         \/ status = "PASS" /\ Holds(This, c)
         \/ status = "FAIL" /\ ~Holds(This, c)
  PROVE  Sound'
<1>1. PICK r : r = This
  OBVIOUS
<1>2. /\ r \in Repo /\ r \in ListedRepos /\ This' = r /\ c \in RepoChecks
      /\ Turn(c) \in 1..11
  BY <1>1, ThisIsListed, TurnsAreNumbers DEF This
<1>3. Grows
  BY DEF Grows
<1>4. ResultsAreRight' /\ Reported(r, c)'
  BY <1>1, <1>2, <1>3, OneMore DEF Sound
<1>5. Progress'
  <2>1. \A d \in Asked : Turn(d) = Turn(step) => Reported(This, d)'
    BY <1>2, <1>4, TurnsDiffer
  <2>2. Turn(step) # 0 /\ Turn(step) # 1 /\ Turn(step) # 4
    OBVIOUS
  <2>3. TypeOK /\ Progress /\ at' = at /\ Turn(step') = Turn(step) + 1
    BY DEF Sound
  <2> QED BY <2>1, <2>2, <2>3, <1>3, GoOn
<1>6. WorkflowsRead'
  <2>1. \/ GatesUnread(r) /\ wf = NoWorkflows
        \/ wf = [gates |-> state[r].gates, advisories |-> state[r].advisories,
                 doppler |-> NeedsIdentity(r)]
    BY <1>1 DEF Sound, WorkflowsRead
  <2>2. NeedsIdentity(r)' = NeedsIdentity(r) /\ state' = state
    BY DEF given, NeedsIdentity
  <2>3. GatesUnread(r) => GatesUnread(r)'
    BY DEF GatesUnread
  <2> QED BY <2>1, <2>2, <2>3, <1>2 DEF WorkflowsRead
<1>7. OrgsAreMet'
  <2>1. \A x \in results' : x \in results \/ x.repo \notin Orgs
    BY <1>1, <1>2, AuditAssumption DEF Result
  <2> QED BY <2>1, <1>3, OrgsKept DEF Sound
<1>8. GreenEnd'
  BY DEF GreenEnd
<1>9. OrgsAreToured'
  <2>1. Turn("actions-allowlist") = 5 /\ "actions-allowlist" \in Asked
    BY DEF Turn, Asked, RepoChecks
  <2>2. Turn(step) = 5 => Reported(This, "actions-allowlist")'
    BY <1>1, <1>2, <1>4, <2>1, TurnsDiffer
  <2> QED BY <2>2, <1>3, TouredStays DEF Sound, OrgsAreToured
<1> QED BY <1>4, <1>5, <1>6, <1>7, <1>8, <1>9 DEF Sound

-----------------------------------------------------------------------------
(* The register holds no advisory twice: the first entry is the only one.  *)
LEMMA FirstIsOnly ==
  ASSUME NEW a
  PROVE  Registered(a) <=> Entered(a, This)
<1>1. ASSUME NEW i \in 1..Len(Register), a \in Register[i].ids
      PROVE  FirstEntry(a) = i
  <2>1. \A j \in 1..Len(Register) : a \in Register[j].ids => j = i
    BY <1>1, AuditAssumption
  <2>2. \A j \in 1..(i - 1) : j \in 1..Len(Register) /\ j # i
    BY AuditAssumption
  <2>3. \E j \in 1..Len(Register) :
          a \in Register[j].ids /\ \A k \in 1..(j - 1) : a \notin Register[k].ids
    BY <1>1, <2>1, <2>2
  <2> QED BY <2>1, <2>3 DEF FirstEntry
<1> QED BY <1>1 DEF Registered, Entered

(* With the workflow files read, or reported as unread, each check that    *)
(* looks at what they say is answered by it.                               *)
LEMMA ReadOrDoubted ==
  ASSUME TypeOK, Sound, at <= Len(Listed), Turn(step) > 1
  PROVE  \/ /\ InDoubt(OwnerOf[This]) /\ wf = NoWorkflows
            /\ \A status : Doubted(This, "branch-protection", status)
         \/ /\ RequiredChecks(wf.gates) = Needed(This)
            /\ (\A a \in wf.advisories : Registered(a)) <=> Holds(This, "risk-exceptions")
            /\ wf.doppler = NeedsIdentity(This)
<1>1. CASE GatesUnread(This) /\ wf = NoWorkflows
  BY <1>1, ThisIsListed, UnreadIsDoubt
<1>2. CASE wf = [gates |-> state[This].gates, advisories |-> state[This].advisories,
                 doppler |-> NeedsIdentity(This)]
  <2>1. Holds(This, "risk-exceptions") <=> \A a \in state[This].advisories : Entered(a, This)
    BY AuditAssumption DEF Holds, Meets, RepoChecks
  <2> QED BY <1>2, <2>1, FirstIsOnly DEF RequiredChecks, Needed
<1> QED BY <1>1, <1>2 DEF Sound, WorkflowsRead

(* What is in doubt, and no FAIL.                                          *)
LEMMA NoFail ==
  ASSUME TypeOK, at <= Len(Listed), InDoubt(OwnerOf[This]), NEW c
  PROVE  Doubted(This, c, "PASS")
BY ThisIsListed DEF Doubted

LEMMA OneQuestion ==
  ASSUME TypeOK, Sound
  PROVE  /\ CheckCollaborators => Sound'
         /\ CheckBranchProtection => Sound'
         /\ CheckActionsAllowlist => Sound'
         /\ CheckTagRuleset => Sound'
         /\ CheckRiskExceptions => Sound'
         /\ CheckDependabot => Sound'
         /\ CheckDependabotEcosystem => Sound'
         /\ CheckDopplerVariable => Sound'
<1> USE DEF Goto, Auditing, Ask, Report, Verdict
<1>1. CheckCollaborators => Sound'
  <2> HAVE CheckCollaborators
  <2> DEFINE c == "collaborators"
  <2>1. /\ c \in Asked \ {"workflows-pinned"} /\ Turn(step) = Turn(c) /\ Turn(c) \in {2, 3, 5, 6, 7, 8, 9, 10}
        /\ step' \in Steps /\ Turn(step') = Turn(c) + 1
    BY DEF CheckCollaborators, Turn, Asked, RepoChecks, Steps
  <2>2. /\ UNCHANGED <<given, at, wf, seen, owners, exit>> /\ exit = -1 /\ at <= Len(Listed)
    BY DEF CheckCollaborators
  <2>3. PICK status :
          /\ results' = results \cup {Result(This, c, status)}
          /\ \/ status = "UNKNOWN"
             \/ status = "PASS" /\ Holds(This, c)
             \/ status = "FAIL" /\ ~Holds(This, c)
    <3>1. Holds(This, c) <=> state[This].pushers \subseteq OwnersOf(This)
      BY AuditAssumption DEF Holds, Meets, RepoChecks
    <3>2. CASE OwnerOf[This] \in Orgs /\ owners[OwnerOf[This]] = Refused
      BY <3>2 DEF CheckCollaborators
    <3>3. CASE ~(OwnerOf[This] \in Orgs /\ owners[OwnerOf[This]] = Refused)
      <4>1. OwnerOf[This] \in Orgs => owners[OwnerOf[This]][2] = org[OwnerOf[This]].owners
        BY <3>3 DEF CheckCollaborators, Sound, OrgsAreMet
      <4> QED BY <4>1, <3>1, <3>3 DEF CheckCollaborators, OwnersOf
    <3> QED BY <3>2, <3>3
  <2> QED BY <2>1, <2>2, <2>3, OneCheck
<1>2. CheckBranchProtection => Sound'
  <2> HAVE CheckBranchProtection
  <2> DEFINE c == "branch-protection"
  <2>1. /\ c \in Asked \ {"workflows-pinned"} /\ Turn(step) = Turn(c) /\ Turn(c) \in {2, 3, 5, 6, 7, 8, 9, 10}
        /\ step' \in Steps /\ Turn(step') = Turn(c) + 1
    BY DEF CheckBranchProtection, Turn, Asked, RepoChecks, Steps
  <2>2. /\ UNCHANGED <<given, at, wf, seen, owners, exit>> /\ exit = -1 /\ at <= Len(Listed)
    BY DEF CheckBranchProtection
  <2>3. PICK status :
          /\ results' = results \cup {Result(This, c, status)}
          /\ \/ status = "UNKNOWN"
             \/ Doubted(This, c, status)
             \/ status = "PASS" /\ Holds(This, c)
             \/ status = "FAIL" /\ ~Holds(This, c)
    <3>1. Holds(This, c) <=> state[This].protected /\ Needed(This) \subseteq state[This].requires
      BY AuditAssumption DEF Holds, Meets, RepoChecks
    <3>2. \/ /\ InDoubt(OwnerOf[This]) /\ wf = NoWorkflows
             /\ \A status : Doubted(This, "branch-protection", status)
          \/ /\ RequiredChecks(wf.gates) = Needed(This)
             /\ (\A a \in wf.advisories : Registered(a)) <=> Holds(This, "risk-exceptions")
             /\ wf.doppler = NeedsIdentity(This)
      BY <2>1, <2>2, ReadOrDoubted
    <3> QED BY <3>1, <3>2 DEF CheckBranchProtection
  <2> QED BY <2>1, <2>2, <2>3, OneCheck
<1>3. CheckActionsAllowlist => Sound'
  <2> HAVE CheckActionsAllowlist
  <2> DEFINE c == "actions-allowlist"
  <2>1. /\ c \in Asked \ {"workflows-pinned"} /\ Turn(step) = Turn(c) /\ Turn(c) \in {2, 3, 5, 6, 7, 8, 9, 10}
        /\ step' \in Steps /\ Turn(step') = Turn(c) + 1
    BY DEF CheckActionsAllowlist, Turn, Asked, RepoChecks, Steps
  <2>2. /\ UNCHANGED <<given, at, wf, seen, owners, exit>> /\ exit = -1 /\ at <= Len(Listed)
    BY DEF CheckActionsAllowlist
  <2>3. PICK status :
          /\ results' = results \cup {Result(This, c, status)}
          /\ \/ status = "UNKNOWN"
             \/ status = "PASS" /\ Holds(This, c)
             \/ status = "FAIL" /\ ~Holds(This, c)
    <3>1. Holds(This, c) <=> state[This].narrows
      BY AuditAssumption DEF Holds, Meets, RepoChecks
    <3> QED BY <3>1 DEF CheckActionsAllowlist
  <2> QED BY <2>1, <2>2, <2>3, OneCheck
<1>4. CheckTagRuleset => Sound'
  <2> HAVE CheckTagRuleset
  <2> DEFINE c == "tag-ruleset"
  <2>1. /\ c \in Asked \ {"workflows-pinned"} /\ Turn(step) = Turn(c) /\ Turn(c) \in {2, 3, 5, 6, 7, 8, 9, 10}
        /\ step' \in Steps /\ Turn(step') = Turn(c) + 1
    BY DEF CheckTagRuleset, Turn, Asked, RepoChecks, Steps
  <2>2. /\ UNCHANGED <<given, at, wf, seen, owners, exit>> /\ exit = -1 /\ at <= Len(Listed)
    BY DEF CheckTagRuleset
  <2>3. PICK status :
          /\ results' = results \cup {Result(This, c, status)}
          /\ \/ status = "UNKNOWN"
             \/ status = "PASS" /\ Holds(This, c)
             \/ status = "FAIL" /\ ~Holds(This, c)
    <3>1. Holds(This, c) <=> TagRuleset(state[This].rulesets)
      BY AuditAssumption DEF Holds, Meets, RepoChecks
    <3> QED BY <3>1 DEF CheckTagRuleset
  <2> QED BY <2>1, <2>2, <2>3, OneCheck
<1>5. CheckRiskExceptions => Sound'
  <2> HAVE CheckRiskExceptions
  <2> DEFINE c == "risk-exceptions"
  <2>1. /\ c \in Asked \ {"workflows-pinned"} /\ Turn(step) = Turn(c) /\ Turn(c) \in {2, 3, 5, 6, 7, 8, 9, 10}
        /\ step' \in Steps /\ Turn(step') = Turn(c) + 1
    BY DEF CheckRiskExceptions, Turn, Asked, RepoChecks, Steps
  <2>2. /\ UNCHANGED <<given, at, wf, seen, owners, exit>> /\ exit = -1 /\ at <= Len(Listed)
    BY DEF CheckRiskExceptions
  <2>3. PICK status :
          /\ results' = results \cup {Result(This, c, status)}
          /\ \/ status = "UNKNOWN"
             \/ Doubted(This, c, status)
             \/ status = "PASS" /\ Holds(This, c)
             \/ status = "FAIL" /\ ~Holds(This, c)
    <3>2. \/ /\ InDoubt(OwnerOf[This]) /\ wf = NoWorkflows
             /\ \A status : Doubted(This, "branch-protection", status)
          \/ /\ RequiredChecks(wf.gates) = Needed(This)
             /\ (\A a \in wf.advisories : Registered(a)) <=> Holds(This, "risk-exceptions")
             /\ wf.doppler = NeedsIdentity(This)
      BY <2>1, <2>2, ReadOrDoubted
    <3>3. CASE InDoubt(OwnerOf[This]) /\ wf = NoWorkflows
      <4>1. Report(c, "PASS")
        BY <3>3 DEF CheckRiskExceptions, NoWorkflows
      <4> QED BY <4>1, <3>3, <2>2, NoFail
    <3>4. CASE (\A a \in wf.advisories : Registered(a)) <=> Holds(This, c)
      BY <3>4 DEF CheckRiskExceptions
    <3> QED BY <3>2, <3>3, <3>4
  <2> QED BY <2>1, <2>2, <2>3, OneCheck
<1>6. CheckDependabot => Sound'
  <2> HAVE CheckDependabot
  <2> DEFINE c == "dependabot-config"
  <2>1. /\ c \in Asked \ {"workflows-pinned"} /\ Turn(step) = Turn(c) /\ Turn(c) \in {2, 3, 5, 6, 7, 8, 9, 10}
        /\ step' \in Steps /\ Turn(step') = Turn(c) + 1
    BY DEF CheckDependabot, Turn, Asked, RepoChecks, Steps
  <2>2. /\ UNCHANGED <<given, at, wf, seen, owners, exit>> /\ exit = -1 /\ at <= Len(Listed)
    BY DEF CheckDependabot
  <2>3. PICK status :
          /\ results' = results \cup {Result(This, c, status)}
          /\ \/ status = "UNKNOWN"
             \/ status = "PASS" /\ Holds(This, c)
             \/ status = "FAIL" /\ ~Holds(This, c)
    <3>1. Holds(This, c) <=> state[This].dependabot /\ state[This].cooldown
      BY AuditAssumption DEF Holds, Meets, RepoChecks
    <3> QED BY <3>1 DEF CheckDependabot
  <2> QED BY <2>1, <2>2, <2>3, OneCheck
<1>7. CheckDependabotEcosystem => Sound'
  <2> HAVE CheckDependabotEcosystem
  <2> DEFINE c == "dependabot-ecosystem"
  <2>1. /\ c \in Asked \ {"workflows-pinned"} /\ Turn(step) = Turn(c) /\ Turn(c) \in {2, 3, 5, 6, 7, 8, 9, 10}
        /\ step' \in Steps /\ Turn(step') = Turn(c) + 1
    BY DEF CheckDependabotEcosystem, Turn, Asked, RepoChecks, Steps
  <2>2. /\ UNCHANGED <<given, at, wf, seen, owners, exit>> /\ exit = -1 /\ at <= Len(Listed)
    BY DEF CheckDependabotEcosystem
  <2>3. PICK status :
          /\ results' = results \cup {Result(This, c, status)}
          /\ \/ status = "UNKNOWN"
             \/ status = "PASS" /\ Holds(This, c)
             \/ status = "FAIL" /\ ~Holds(This, c)
    <3>1. Holds(This, c) <=>
            \/ state[This].locks = {}
            \/ (state[This].dependabot /\ ~PipUpdatedRoots(state[This].updates))
      BY AuditAssumption DEF Holds, Meets, RepoChecks
    <3> QED BY <3>1 DEF CheckDependabotEcosystem
  <2> QED BY <2>1, <2>2, <2>3, OneCheck
<1>8. CheckDopplerVariable => Sound'
  <2> HAVE CheckDopplerVariable
  <2> DEFINE c == "doppler-identity"
  <2>1. /\ c \in Asked \ {"workflows-pinned"} /\ Turn(step) = Turn(c) /\ Turn(c) \in {2, 3, 5, 6, 7, 8, 9, 10}
        /\ step' \in Steps /\ Turn(step') = Turn(c) + 1
    BY DEF CheckDopplerVariable, Turn, Asked, RepoChecks, Steps
  <2>2. /\ UNCHANGED <<given, at, wf, seen, owners, exit>> /\ exit = -1 /\ at <= Len(Listed)
    BY DEF CheckDopplerVariable
  <2>3. PICK status :
          /\ results' = results \cup {Result(This, c, status)}
          /\ \/ status = "UNKNOWN"
             \/ Doubted(This, c, status)
             \/ status = "PASS" /\ Holds(This, c)
             \/ status = "FAIL" /\ ~Holds(This, c)
    <3>1. Holds(This, c) <=> (NeedsIdentity(This) => state[This].identity = "uuid")
      BY AuditAssumption DEF Holds, Meets, RepoChecks
    <3>2. \/ /\ InDoubt(OwnerOf[This]) /\ wf = NoWorkflows
             /\ \A status : Doubted(This, "branch-protection", status)
          \/ /\ RequiredChecks(wf.gates) = Needed(This)
             /\ (\A a \in wf.advisories : Registered(a)) <=> Holds(This, "risk-exceptions")
             /\ wf.doppler = NeedsIdentity(This)
      BY <2>1, <2>2, ReadOrDoubted
    <3>3. CASE InDoubt(OwnerOf[This]) /\ wf = NoWorkflows
      <4>1. Report(c, "PASS")
        BY <3>3 DEF CheckDopplerVariable, NoWorkflows
      <4> QED BY <4>1, <3>3, <2>2, NoFail
    <3>4. CASE wf.doppler = NeedsIdentity(This)
      BY <3>1, <3>4 DEF CheckDopplerVariable
    <3> QED BY <3>2, <3>3, <3>4
  <2> QED BY <2>1, <2>2, <2>3, OneCheck
<1> QED BY <1>1, <1>2, <1>3, <1>4, <1>5, <1>6, <1>7, <1>8

(* The steps that only move on, or end the audit.                          *)
LEMMA NothingNew ==
  ASSUME TypeOK, Sound
  PROVE  /\ ReadOwners => Sound'
         /\ Raise => Sound'
         /\ Conclude => Sound'
         /\ UNCHANGED vars => Sound'
<1>1. ASSUME Grows, UNCHANGED <<at, step, wf, seen, results>>
      PROVE  ResultsAreRight' /\ Progress' /\ WorkflowsRead' /\ OrgsAreToured'
  <2>1. ResultsAreRight'
    <3>1. \A x \in results : Placed(x)' /\ Right(x)'
      BY <1>1, RightStays DEF Sound, ResultsAreRight, Placed
    <3> QED BY <1>1, <3>1 DEF ResultsAreRight
  <2>2. Progress'
    BY <1>1 DEF Sound, Progress, Done, Behind, Met, CallersAsked, Reported, This
  <2>3. WorkflowsRead'
    BY <1>1 DEF Sound, WorkflowsRead, GatesUnread, NeedsIdentity, This, Grows, given
  <2>4. OrgsAreToured'
    BY <1>1 DEF Sound, OrgsAreToured, Toured, Reported, This
  <2> QED BY <2>1, <2>2, <2>3, <2>4
<1>2. ASSUME Grows, UNCHANGED <<seen, owners, results>>
      PROVE  OrgsAreMet'
  BY <1>2 DEF Sound, OrgsAreMet, Reported, Grows, given
<1>3. ReadOwners => Sound'
  <2> HAVE ReadOwners
  <2>1. Grows /\ UNCHANGED <<at, step, wf, seen, results>> /\ exit' = -1
    BY DEF ReadOwners, OrgOwners, Grows, Auditing
  <2>2. OrgsAreMet'
    <3>1. PICK p : p = OwnerOf[This]
      OBVIOUS
    <3>2. /\ p \in Orgs
          /\ \/ owners' = [owners EXCEPT ![p] = <<"read", org[p].owners>>]
             \/ owners' = [owners EXCEPT ![p] = Refused]
      BY <3>1 DEF ReadOwners, OrgOwners
    <3>3. \A o \in Orgs : owners'[o] \in {Unread, Refused, <<"read", org[o].owners>>}
      BY <3>2 DEF Sound, OrgsAreMet, TypeOK
    <3> QED BY <2>1, <3>3 DEF Sound, OrgsAreMet, Reported, Grows, given
  <2>3. GreenEnd'
    BY <2>1 DEF GreenEnd
  <2> QED BY <1>1, <2>1, <2>2, <2>3 DEF Sound
<1>4. Raise => Sound'
  <2> HAVE Raise
  <2>1. Grows /\ UNCHANGED <<at, step, wf, seen, owners, results>> /\ exit' = 1
    BY DEF Raise, Grows
  <2>2. GreenEnd'
    BY <2>1 DEF GreenEnd
  <2> QED BY <1>1, <1>2, <2>1, <2>2 DEF Sound
<1>5. Conclude => Sound'
  <2> HAVE Conclude
  <2>1. Grows /\ UNCHANGED <<at, step, wf, seen, owners, results>>
    BY DEF Conclude, Grows
  <2>2. GreenEnd'
    BY DEF Conclude, GreenEnd, ExitCode, given
  <2> QED BY <1>1, <1>2, <2>1, <2>2 DEF Sound
<1>6. UNCHANGED vars => Sound'
  <2> HAVE UNCHANGED vars
  <2>1. Grows /\ UNCHANGED <<at, step, wf, seen, owners, results>>
    BY DEF vars, Grows
  <2>2. GreenEnd'
    BY DEF vars, GreenEnd, Sound, given
  <2> QED BY <1>1, <1>2, <2>1, <2>2 DEF Sound
<1> QED BY <1>3, <1>4, <1>5, <1>6

(* A repository that is opened, or cannot be.                              *)
LEMMA Opened ==
  ASSUME TypeOK, Sound, OpenRepo
  PROVE  Sound'
<1>1. PICK r : r = This
  OBVIOUS
<1>2. /\ r \in Repo /\ r \in ListedRepos
      /\ exit = -1 /\ exit' = -1 /\ at <= Len(Listed) /\ step = "repository"
  BY <1>1, ThisIsListed DEF OpenRepo, Auditing, NextRepo, Goto
<1>3. GreenEnd'
  BY <1>2 DEF GreenEnd
<1>4. CASE Report("repository", "UNKNOWN") /\ NextRepo /\ UNCHANGED <<seen, owners>>
  <2>1. Grows /\ results' = results \cup {Result(r, "repository", "UNKNOWN")}
    BY <1>1, <1>4 DEF Report, NextRepo, Grows
  <2>2. ResultsAreRight'
    BY <1>1, <1>2, <2>1, OneMore DEF Sound, RepoChecks
  <2>3. Progress'
    <3>1. Done(r)'
      BY <2>1 DEF Done
    <3> QED BY <1>1, <1>2, <1>4, <2>1, <3>1, GoToNext DEF Sound, NextRepo
  <2>4. WorkflowsRead'
    BY <1>4 DEF NextRepo, WorkflowsRead, Turn
  <2>5. OrgsAreMet'
    <3>1. \A x \in results' : x \in results \/ x.repo \notin Orgs
      BY <1>2, <2>1, AuditAssumption DEF Result
    <3> QED BY <1>4, <2>1, <3>1, OrgsKept DEF Sound
  <2>6. OrgsAreToured'
    <3>1. Turn(step) = 0
      BY <1>2 DEF Turn
    <3> QED BY <1>4, <2>1, <3>1, TouredStays DEF Sound, OrgsAreToured
  <2> QED BY <1>3, <2>2, <2>3, <2>4, <2>5, <2>6 DEF Sound
<1>5. CASE /\ seen' = seen \cup (Orgs \cap {OwnerOf[This]})
           /\ Goto("workflows") /\ UNCHANGED <<wf, owners, results>>
  <2>1. Grows /\ at' = at /\ step' = "workflows"
    BY <1>5 DEF Grows, Goto
  <2>2. ResultsAreRight'
    <3>1. \A x \in results : Placed(x)' /\ Right(x)'
      BY <2>1, RightStays DEF Sound, ResultsAreRight, Placed
    <3> QED BY <1>5, <3>1 DEF ResultsAreRight
  <2>3. Progress'
    <3>1. Turn(step') = 1 /\ Turn(step) = 0 /\ step' \in Steps
      BY <1>2, <2>1 DEF Turn, Steps
    <3>2. Met(This)'
      BY <1>5, <2>1 DEF Met, This
    <3>3. \A c \in Asked : Turn(c) # 0
      BY TurnsAreNumbers
    <3> QED BY <1>2, <2>1, <3>1, <3>2, <3>3, GoOn DEF Sound
  <2>4. WorkflowsRead'
    BY <2>1 DEF WorkflowsRead, Turn
  <2>5. OrgsAreMet'
    BY <1>1, <1>2, <1>5, <2>1, OrgsKept DEF Sound
  <2>6. OrgsAreToured'
    <3>1. Turn(step) = 0 /\ Turn(step') = 1 /\ This' = r
      BY <1>1, <1>2, <2>1 DEF Turn, This
    <3>2. Toured(OwnerOf[r])'
      BY <1>2, <2>1, <3>1 DEF Toured, ListedRepos
    <3>3. \A o \in seen : Toured(o)'
      BY <2>1, <3>1, TouredStays DEF Sound, OrgsAreToured
    <3> QED BY <1>1, <1>5, <3>2, <3>3 DEF OrgsAreToured
  <2> QED BY <1>3, <2>2, <2>3, <2>4, <2>5, <2>6 DEF Sound
<1> QED BY <1>4, <1>5 DEF OpenRepo

LEMMA SettingsChecked ==
  ASSUME TypeOK, Sound, CheckSettings
  PROVE  Sound'
<1>1. PICK r : r = This
  OBVIOUS
<1>2. /\ exit = -1 /\ at <= Len(Listed) /\ step = "settings" /\ Grows
      /\ at' = at /\ step' = "actions-allowlist" /\ This' = r /\ r \in Repo
      /\ UNCHANGED <<given, wf, seen, owners, exit>>
  BY <1>1, ThisIsListed DEF CheckSettings, Auditing, Goto, Grows, This
<1>3. PICK unanswered \in SUBSET Setting :
        results' = results \cup
          {Result(r, c, IF c \in unanswered THEN "UNKNOWN"
                        ELSE Verdict(c \in state[r].settings)) : c \in Setting}
  BY <1>1 DEF CheckSettings
<1>4. ASSUME NEW c \in Setting
      PROVE  /\ Reported(r, c)'
             /\ \A x : x = Result(r, c, IF c \in unanswered THEN "UNKNOWN"
                                        ELSE Verdict(c \in state[r].settings))
                  => Placed(x)' /\ Right(x)' /\ x.repo \notin Orgs
  <2>1. PICK status : status = IF c \in unanswered THEN "UNKNOWN"
                               ELSE Verdict(c \in state[r].settings)
    OBVIOUS
  <2>2. PICK new : new = Result(r, c, status)
    OBVIOUS
  <2>3. new \in results'
    BY <1>3, <2>1, <2>2
  <2>4. \/ status = "UNKNOWN"
        \/ status = "PASS" /\ Holds(r, c)
        \/ status = "FAIL" /\ ~Holds(r, c)
    BY <2>1, AuditAssumption DEF Verdict, Holds, Meets, RepoChecks, OrgChecks
  <2>5. Placed(new)' /\ Right(new)' /\ Reported(r, c)' /\ new.repo \notin Orgs
    BY <1>1, <1>2, <2>2, <2>3, <2>4, NewResult
  <2> QED BY <2>1, <2>2, <2>5
<1>5. /\ ResultsAreRight'
      /\ \A x \in results' : x \in results \/ x.repo \notin Orgs
  <2>1. \A x \in results' : x \in results \/ (Placed(x)' /\ Right(x)' /\ x.repo \notin Orgs)
    BY <1>3, <1>4
  <2> QED BY <1>2, <2>1, StillRight DEF Sound
<1>6. Progress'
  <2>1. Turn(step) = 4 /\ Turn(step') = 5 /\ step' \in Steps
    BY <1>2 DEF Turn, Steps
  <2>2. \A c \in Asked : Turn(c) # 4
    BY DEF Asked, RepoChecks, Turn
  <2>3. \A c \in Setting : Reported(This, c)'
    BY <1>2, <1>4
  <2> QED BY <1>2, <2>1, <2>2, <2>3, GoOn DEF Sound
<1>7. WorkflowsRead'
  <2>1. \/ GatesUnread(r) /\ wf = NoWorkflows
        \/ wf = [gates |-> state[r].gates, advisories |-> state[r].advisories,
                 doppler |-> NeedsIdentity(r)]
    BY <1>1, <1>2 DEF Sound, WorkflowsRead, Turn
  <2>2. NeedsIdentity(r)' = NeedsIdentity(r) /\ state' = state
    BY <1>2 DEF given, NeedsIdentity
  <2>3. GatesUnread(r) => GatesUnread(r)'
    BY <1>2 DEF GatesUnread, Grows
  <2> QED BY <2>1, <2>2, <2>3, <1>2 DEF WorkflowsRead
<1>8. OrgsAreMet' /\ GreenEnd'
  BY <1>2, <1>5, OrgsKept DEF GreenEnd, Sound
<1>9. OrgsAreToured'
  <2>1. Turn(step) = 4 /\ Turn(step') = 5
    BY <1>2 DEF Turn
  <2> QED BY <1>2, <2>1, TouredStays DEF Sound, OrgsAreToured
<1> QED BY <1>5, <1>6, <1>7, <1>8, <1>9 DEF Sound

(* The last check of a repository: everything was asked of it.             *)
LEMMA HookChecked ==
  ASSUME TypeOK, Sound, CheckPreCommitHook
  PROVE  Sound'
<1>1. PICK r : r = This
  OBVIOUS
<1>2. /\ exit = -1 /\ at <= Len(Listed) /\ step = "pre-commit-hook" /\ Grows
      /\ at' = at + 1 /\ step' = "repository"
      /\ UNCHANGED <<given, seen, owners, exit>>
  BY DEF CheckPreCommitHook, Auditing, NextRepo, Grows, Ask, Report
<1>3. PICK status :
        /\ results' = results \cup {Result(r, "pre-commit-hook", status)}
        /\ \/ status = "UNKNOWN"
           \/ status = "PASS" /\ Holds(r, "pre-commit-hook")
           \/ status = "FAIL" /\ ~Holds(r, "pre-commit-hook")
  <2>1. Holds(r, "pre-commit-hook") <=> state[r].hook = "same"
    BY AuditAssumption DEF Holds, Meets, RepoChecks
  <2> QED BY <1>1, <2>1 DEF CheckPreCommitHook, Ask, Report, Verdict
<1>4. /\ ResultsAreRight' /\ Reported(r, "pre-commit-hook")'
      /\ \A x \in results' : x \in results \/ x.repo \notin Orgs
  BY <1>1, <1>2, <1>3, OneMore DEF Sound, RepoChecks
<1>5. Progress'
  <2>1. Behind(r, 11)
    BY <1>1, <1>2 DEF Sound, Progress, Turn
  <2>2. \A c \in Asked : Reported(r, c)'
    <3> TAKE c \in Asked
    <3>1. CASE Turn(c) < 11
      BY <3>1, <1>2, <2>1, ReportedStays DEF Behind
    <3>2. CASE Turn(c) = 11
      BY <3>2, <1>4 DEF Turn, Asked, RepoChecks
    <3> QED BY <3>1, <3>2, TurnsAreNumbers
  <2>3. \A c \in Setting : Reported(r, c)'
    BY <1>2, <2>1, ReportedStays DEF Behind
  <2>4. CallersAsked(r)' /\ Met(r)'
    BY <1>2, <2>1, DoneStays DEF Behind
  <2>5. Done(r)'
    BY <2>2, <2>3, <2>4 DEF Done
  <2> QED BY <1>1, <1>2, <2>5, GoToNext DEF Sound
<1>6. WorkflowsRead' /\ GreenEnd'
  BY <1>2 DEF WorkflowsRead, Turn, GreenEnd
<1>7. OrgsAreMet'
  BY <1>2, <1>4, OrgsKept DEF Sound
<1>8. OrgsAreToured'
  <2>1. Turn(step) = 11
    BY <1>2 DEF Turn
  <2> QED BY <1>2, <2>1, TouredStays DEF Sound, OrgsAreToured
<1> QED BY <1>4, <1>5, <1>6, <1>7, <1>8 DEF Sound

(* The workflow files: read right, or reported as not read.                *)
LEMMA WorkflowsChecked ==
  ASSUME ReadsRight, TypeOK, Sound, CheckWorkflows
  PROVE  Sound'
<1>1. PICK r : r = This
  OBVIOUS
<1>2. /\ exit = -1 /\ at <= Len(Listed) /\ step = "workflows"
      /\ at' = at /\ step' = "collaborators" /\ This' = r /\ r \in Repo
      /\ UNCHANGED <<given, seen, owners, exit>>
      /\ results \subseteq results' /\ Grows
      /\ Turn(step) = 1 /\ Turn(step') = 2 /\ step' \in Steps
  BY <1>1, ThisIsListed DEF CheckWorkflows, Auditing, Goto, Grows, This, Report, Turn, Steps
<1>3. /\ state[r] \in RepoStates[r] /\ state' = state
      /\ RepoStates[r] \subseteq RepoState
  BY <1>2, AuditAssumption DEF TypeOK, given
<1>4. /\ ReadWorkflows.gates = state[r].gates
      /\ ReadWorkflows.advisories = state[r].advisories
      /\ state[r].pinned <=> \A text \in Texts : WorkflowFindings(text) = {}
      /\ ReadWorkflows.doppler <=> NeedsIdentity(r)
  <2>1. /\ state[r].gates = UNION {ExpectedGates(state[r].files[i]) : i \in DOMAIN state[r].files}
        /\ state[r].advisories = UNION {ExceptionsIn(state[r].files[i]) : i \in DOMAIN state[r].files}
        /\ state[r].pinned = (\A i \in DOMAIN state[r].files : WorkflowFindings(state[r].files[i]) = {})
    BY <1>2, <1>3 DEF ReadsRight
  <2>2. Texts = {state[r].files[i] : i \in DOMAIN state[r].files}
    BY <1>1 DEF Texts
  <2> QED BY <2>1, <2>2 DEF ReadWorkflows, NeedsIdentity
<1>5. /\ Holds(r, "workflows-pinned") <=> Texts # {} /\ state[r].pinned
      /\ Holds(r, "uses-shared-workflows") <=>
           r = SharedRepo \/ \E text \in Texts : Calls(text)
  <2>1. state[r].files \in Seq(Seq(Line(Advisory)))
    BY <1>3 DEF RepoState
  <2>2. Texts = {state[r].files[i] : i \in DOMAIN state[r].files}
    BY <1>1 DEF Texts
  <2>3. Texts = {} <=> state[r].files = <<>>
    <3>1. Texts = {} <=> DOMAIN state[r].files = {}
      BY <2>2
    <3>2. PICK files : files = state[r].files
      OBVIOUS
    <3>3. files \in Seq(Seq(Line(Advisory))) /\ DOMAIN files = 1..Len(files) /\ Len(files) \in Nat
      BY <2>1, <3>2
    <3>4. \A n \in Nat : 1..n = {} <=> n = 0
      <4> TAKE n \in Nat
      <4>1. n # 0 => 1 \in 1..n
        OBVIOUS
      <4>2. n = 0 => \A i \in 1..n : FALSE
        OBVIOUS
      <4> QED BY <4>1, <4>2
    <3>5. files = <<>> <=> Len(files) = 0
      BY <3>3, EmptySeq
    <3>6. DOMAIN files = {} <=> Len(files) = 0
      BY <3>3, <3>4
    <3> QED BY <3>1, <3>2, <3>5, <3>6
  <2>4. /\ Holds(r, "workflows-pinned") <=> state[r].files # <<>> /\ state[r].pinned
        /\ Holds(r, "uses-shared-workflows") <=>
             r = SharedRepo \/ \E i \in DOMAIN state[r].files : Calls(state[r].files[i])
    BY AuditAssumption DEF Holds, Meets, RepoChecks
  <2> QED BY <2>2, <2>3, <2>4
<1> DEFINE Effect ==
      /\ ResultsAreRight' /\ \A x \in results' : x \in results \/ x.repo \notin Orgs
      /\ Reported(r, "workflows-pinned")' /\ CallersAsked(r)'
      /\ \/ GatesUnread(r)' /\ wf' = NoWorkflows
         \/ wf' = [gates |-> state[r].gates, advisories |-> state[r].advisories,
                   doppler |-> NeedsIdentity(r)]
<1> HIDE DEF Effect
<1>6. ASSUME Texts = {} /\ Report("workflows-pinned", "FAIL") /\ wf' = NoWorkflows
      PROVE  Effect
  <2>1. results' = results \cup {Result(r, "workflows-pinned", "FAIL")}
    BY <1>1, <1>6 DEF Report
  <2>2. ~Holds(r, "workflows-pinned")
    BY <1>5, <1>6
  <2>3. /\ ResultsAreRight' /\ Reported(r, "workflows-pinned")'
        /\ \A x \in results' : x \in results \/ x.repo \notin Orgs
    BY <1>1, <1>2, <2>1, <2>2, OneMore DEF Sound, RepoChecks
  <2>4. CallersAsked(r)'
    <3>1. PICK p : p = Result(r, "workflows-pinned", "FAIL")
      OBVIOUS
    <3>2. p \in results' /\ p.repo = r /\ p.check = "workflows-pinned" /\ p.status # "PASS"
      BY <2>1, <3>1 DEF Result
    <3> QED BY <3>2 DEF CallersAsked
  <2>5. wf' = [gates |-> state[r].gates, advisories |-> state[r].advisories,
               doppler |-> NeedsIdentity(r)]
    <3>1. /\ ReadWorkflows.gates = {} /\ ReadWorkflows.advisories = {}
          /\ ~ReadWorkflows.doppler
      BY <1>6 DEF ReadWorkflows
    <3> QED BY <1>4, <1>6, <3>1 DEF NoWorkflows, NeedsIdentity
  <2> QED BY <2>3, <2>4, <2>5 DEF Effect
<1>7. ASSUME /\ Texts # {}
             /\ results' = results \cup
                  {Result(This, "workflows-pinned",
                          Verdict(\A text \in Texts : WorkflowFindings(text) = {})),
                   Result(This, "uses-shared-workflows",
                          Verdict(This = SharedRepo \/ \E text \in Texts : Calls(text)))}
             /\ wf' = ReadWorkflows
      PROVE  Effect
  <2>1. PICK pinned, uses :
          /\ results' = results \cup {Result(r, "workflows-pinned", pinned),
                                      Result(r, "uses-shared-workflows", uses)}
          /\ \/ pinned = "PASS" /\ Holds(r, "workflows-pinned")
             \/ pinned = "FAIL" /\ ~Holds(r, "workflows-pinned")
          /\ \/ uses = "PASS" /\ Holds(r, "uses-shared-workflows")
             \/ uses = "FAIL" /\ ~Holds(r, "uses-shared-workflows")
    BY <1>1, <1>4, <1>5, <1>7 DEF Verdict
  <2>2. PICK p : p = Result(r, "workflows-pinned", pinned)
    OBVIOUS
  <2>3. PICK u : u = Result(r, "uses-shared-workflows", uses)
    OBVIOUS
  <2>4. p \in results' /\ u \in results' /\ \A x \in results' : x \in results \/ x = p \/ x = u
    BY <2>1, <2>2, <2>3
  <2>5. Placed(p)' /\ Right(p)' /\ Reported(r, "workflows-pinned")' /\ p.repo \notin Orgs
    BY <1>1, <1>2, <2>1, <2>2, <2>4, NewResult DEF RepoChecks
  <2>6. Placed(u)' /\ Right(u)' /\ Reported(r, "uses-shared-workflows")' /\ u.repo \notin Orgs
    BY <1>1, <1>2, <2>1, <2>3, <2>4, NewResult DEF RepoChecks
  <2>7. ResultsAreRight'
    BY <1>2, <2>4, <2>5, <2>6, StillRight DEF Sound
  <2>8. CallersAsked(r)'
    BY <2>6 DEF CallersAsked
  <2>9. wf' = [gates |-> state[r].gates, advisories |-> state[r].advisories,
               doppler |-> NeedsIdentity(r)]
    BY <1>4, <1>7 DEF ReadWorkflows, NeedsIdentity
  <2> QED BY <2>4, <2>5, <2>6, <2>7, <2>8, <2>9 DEF Effect
<1>8. ASSUME Report("workflows-pinned", "UNKNOWN") /\ wf' = NoWorkflows
      PROVE  Effect
  <2>1. results' = results \cup {Result(r, "workflows-pinned", "UNKNOWN")}
    BY <1>1, <1>8 DEF Report
  <2>2. /\ ResultsAreRight' /\ Reported(r, "workflows-pinned")'
        /\ \A x \in results' : x \in results \/ x.repo \notin Orgs
    BY <1>1, <1>2, <2>1, OneMore DEF Sound, RepoChecks
  <2>3. CallersAsked(r)' /\ GatesUnread(r)'
    <3>1. PICK p : p = Result(r, "workflows-pinned", "UNKNOWN")
      OBVIOUS
    <3>2. p \in results' /\ p.repo = r /\ p.check = "workflows-pinned" /\ p.status = "UNKNOWN"
      BY <2>1, <3>1 DEF Result
    <3> QED BY <2>1, <3>2 DEF CallersAsked, GatesUnread
  <2> QED BY <1>8, <2>2, <2>3 DEF Effect
<1>9. Effect
  BY <1>6, <1>7, <1>8 DEF CheckWorkflows
<1>10. Progress'
  <2>1. \A c \in Asked : Turn(c) = 1 => Reported(This, c)'
    BY <1>2, <1>9 DEF Effect, Turn, Asked, RepoChecks
  <2>2. CallersAsked(This)'
    BY <1>2, <1>9 DEF Effect
  <2> QED BY <1>2, <2>1, <2>2, GoOn DEF Sound
<1>11. WorkflowsRead'
  <2>1. NeedsIdentity(r)' = NeedsIdentity(r)
    BY <1>3 DEF NeedsIdentity
  <2> QED BY <1>2, <1>3, <1>9, <2>1 DEF Effect, WorkflowsRead
<1>12. OrgsAreMet' /\ GreenEnd'
  BY <1>2, <1>9, OrgsKept DEF Effect, GreenEnd, Sound
<1>13. OrgsAreToured'
  BY <1>2, TouredStays DEF Sound, OrgsAreToured
<1> QED BY <1>9, <1>10, <1>11, <1>12, <1>13 DEF Effect, Sound

-----------------------------------------------------------------------------
(* With every repository behind it, an organization is judged by what its  *)
(* repositories allow, unless one of them could not be asked.              *)
LEMMA PolicyIsAnswered ==
  ASSUME TypeOK, Sound, at > Len(Listed), NEW o \in seen, ~InDoubt(o)
  PROVE  PolicyHolds(o) <=> OrgPolicy(o)
<1>1. \A r \in ListedRepos : r \in Repo /\ Done(r)
  <2>1. at \in Nat /\ Len(Listed) \in Nat
    BY AuditAssumption DEF TypeOK
  <2> QED BY <2>1, AuditAssumption DEF Sound, Progress, ListedRepos
<1>2. o \in Orgs
  BY DEF TypeOK
<1>3. \A r \in Repo : "actions-allowlist" \notin Setting /\
        (Holds(r, "actions-allowlist") <=> state[r].narrows)
  BY AuditAssumption DEF Holds, Meets, RepoChecks
<1>4. ASSUME NEW r \in ListedRepos, OwnerOf[r] = o
      PROVE  \E x \in results : x.repo = r /\ x.check = "actions-allowlist"
  <2>1. Result(r, "repository", "UNKNOWN") \notin results
    BY <1>1, <1>4 DEF InDoubt, Result
  <2> QED BY <1>1, <2>1 DEF Done, Asked, RepoChecks, Reported
<1>5. ASSUME NEW x \in results, x.check = "actions-allowlist", OwnerOf[x.repo] = o
      PROVE  /\ x.repo \in ListedRepos
             /\ x.status = "PASS" <=> state[x.repo].narrows
  <2>1. x.repo \in ListedRepos
    BY <1>5 DEF Sound, ResultsAreRight, Placed, OrgChecks
  <2>2. ~Doubted(x.repo, x.check, x.status)
    BY <1>1, <1>5, <2>1 DEF Doubted
  <2>3. \/ x.status = "PASS" /\ Holds(x.repo, x.check)
        \/ x.status = "FAIL" /\ ~Holds(x.repo, x.check)
    BY <2>2 DEF Sound, ResultsAreRight, Right
  <2> QED BY <1>1, <1>3, <1>5, <2>1, <2>3
<1>6. Narrowed(o) <=> \A r \in ListedRepos : OwnerOf[r] = o => state[r].narrows
  <2>1. ASSUME Narrowed(o), NEW r \in ListedRepos, OwnerOf[r] = o
        PROVE  state[r].narrows
    BY <2>1, <1>4, <1>5 DEF Narrowed
  <2>2. ASSUME \A r \in ListedRepos : OwnerOf[r] = o => state[r].narrows
        PROVE  Narrowed(o)
    <3>1. PICK r \in ListedRepos : OwnerOf[r] = o
      BY DEF Sound, OrgsAreMet
    <3>2. PICK x \in results : x.repo = r /\ x.check = "actions-allowlist"
      BY <1>4, <3>1
    <3>3. \A y \in results : y.check = "actions-allowlist" /\ OwnerOf[y.repo] = o
                             => y.status = "PASS"
      BY <1>5, <2>2
    <3> QED BY <3>1, <3>2, <3>3 DEF Narrowed
  <2> QED BY <2>1, <2>2
<1> QED BY <1>6 DEF PolicyHolds, OrgPolicy

(* A refused answer makes the policy fail only where it is an allow-list.  *)
LEMMA PolicyFails ==
  ASSUME TypeOK, Sound, at > Len(Listed), NEW o \in seen,
         ~PolicyHolds(o), ~NarrowingUnread(o)
  PROVE  ~OrgPolicy(o)
<1> SUFFICES ASSUME OrgPolicy(o) PROVE FALSE
  OBVIOUS
<1>1. \A r \in ListedRepos : r \in Repo
  BY AuditAssumption DEF ListedRepos
<1>2. /\ ~Narrowed(o)
      /\ \A r \in ListedRepos : OwnerOf[r] = o => state[r].narrows
  BY DEF PolicyHolds, OrgPolicy
<1>3. PICK r \in ListedRepos : OwnerOf[r] = o /\ Reported(r, "actions-allowlist")
  <2>1. ~(at <= Len(Listed))
    BY AuditAssumption DEF TypeOK
  <2> QED BY <2>1 DEF Sound, OrgsAreToured, Toured
<1>4. PICK x \in results : x.check = "actions-allowlist" /\ OwnerOf[x.repo] = o
                           /\ x.status # "PASS"
  BY <1>2, <1>3 DEF Narrowed, Reported
<1>5. x.repo \in ListedRepos /\ x.repo \in Repo
  BY <1>1, <1>4 DEF Sound, ResultsAreRight, Placed, OrgChecks
<1>6. CASE x.status = "UNKNOWN"
  <2>1. x = Result(x.repo, "actions-allowlist", "UNKNOWN")
    <3>1. x \in Found
      BY DEF TypeOK
    <3> QED BY <1>4, <1>6, <3>1 DEF Found, Result
  <2> QED BY <1>4, <1>5, <2>1 DEF NarrowingUnread
<1>7. CASE x.status = "FAIL"
  <2>1. ~Excused(x.repo, x.check)
    BY <1>4 DEF Excused
  <2>2. ~Holds(x.repo, "actions-allowlist")
    BY <1>4, <1>7, <2>1 DEF Sound, ResultsAreRight, Right, Doubted
  <2>3. ~state[x.repo].narrows
    BY <2>2, AuditAssumption DEF Holds, Meets, RepoChecks
  <2> QED BY <1>2, <1>4, <1>5, <2>3
<1>8. x.status \in {"PASS", "FAIL", "UNKNOWN"}
  BY DEF TypeOK, Found
<1> QED BY <1>4, <1>6, <1>7, <1>8

LEMMA OrgAudited ==
  ASSUME TypeOK, Sound, AuditOrg
  PROVE  Sound'
<1>1. PICK o \in seen, unanswered \in SUBSET {"settings", "policy", "owners"} :
        LET asked == IF owners[o] # Unread THEN owners[o]
                     ELSE IF "owners" \in unanswered THEN Refused
                     ELSE <<"read", org[o].owners>>
        IN
        /\ owners' = [owners EXCEPT ![o] = asked]
        /\ results' = results \cup
             {Result(o, "org-settings", IF "settings" \in unanswered THEN "UNKNOWN"
                                        ELSE Verdict(org[o].secure)),
              Result(o, "org-actions-policy", IF "policy" \in unanswered THEN "UNKNOWN"
                                              ELSE Verdict(PolicyHolds(o))),
              Result(o, "org-owner-collaborators", IF asked = Refused THEN "UNKNOWN"
                                                   ELSE Verdict(asked[2] # {}))}
  BY DEF AuditOrg
<1>2. /\ o \in Orgs /\ o \notin Repo /\ Grows /\ at > Len(Listed) /\ exit = -1
      /\ UNCHANGED <<given, at, step, wf, seen, exit>>
  BY <1>1, AuditAssumption DEF AuditOrg, TypeOK, Grows
<1>3. PICK asked \in {Refused, <<"read", org[o].owners>>} :
        /\ owners' = [owners EXCEPT ![o] = asked]
        /\ results' = results \cup
             {Result(o, "org-settings", IF "settings" \in unanswered THEN "UNKNOWN"
                                        ELSE Verdict(org[o].secure)),
              Result(o, "org-actions-policy", IF "policy" \in unanswered THEN "UNKNOWN"
                                              ELSE Verdict(PolicyHolds(o))),
              Result(o, "org-owner-collaborators", IF asked = Refused THEN "UNKNOWN"
                                                   ELSE Verdict(asked[2] # {}))}
  BY <1>1, <1>2 DEF Sound, OrgsAreMet
<1>4. PICK settings, policy, admins :
        /\ results' = results \cup {Result(o, "org-settings", settings),
                                    Result(o, "org-actions-policy", policy),
                                    Result(o, "org-owner-collaborators", admins)}
        /\ settings = "UNKNOWN" \/ settings = Verdict(org[o].secure)
        /\ policy = "UNKNOWN" \/ policy = Verdict(PolicyHolds(o))
        /\ admins = "UNKNOWN" \/ admins = Verdict(org[o].owners # {})
  <2>1. asked # Refused => asked[2] = org[o].owners
    BY <1>3
  <2> QED BY <1>3, <2>1
<1>5. PICK s, p, a : /\ s = Result(o, "org-settings", settings)
                     /\ p = Result(o, "org-actions-policy", policy)
                     /\ a = Result(o, "org-owner-collaborators", admins)
  OBVIOUS
<1>6. \A x \in results' : x \in results \/ x \in {s, p, a}
  BY <1>4, <1>5
<1>7. /\ {s, p, a} \subseteq results'
      /\ s.repo = o /\ s.check = "org-settings" /\ s.status = settings
      /\ p.repo = o /\ p.check = "org-actions-policy" /\ p.status = policy
      /\ a.repo = o /\ a.check = "org-owner-collaborators" /\ a.status = admins
  BY <1>4, <1>5 DEF Result
<1>8. ASSUME NEW x \in {s, p, a}
      PROVE  Placed(x)' /\ Right(x)'
  <2>1. Placed(x)' /\ x.repo = o
    BY <1>2, <1>7 DEF Placed, OrgChecks
  <2>2. /\ Holds(o, "org-settings") <=> org[o].secure
        /\ Holds(o, "org-actions-policy") <=> OrgPolicy(o)
        /\ Holds(o, "org-owner-collaborators") <=> org[o].owners # {}
    BY AuditAssumption DEF Holds, Meets, OrgChecks
  <2>3. Holds(o, x.check)' <=> Holds(o, x.check)
    BY <1>2, HoldsStays
  <2>4. CASE x.status = "UNKNOWN"
    <3>1. InDoubt(o)'
      BY <2>4, <1>7, <2>1 DEF InDoubt
    <3> QED BY <1>2, <2>1, <2>4, <3>1 DEF Right, Doubted
  <2>5. CASE x.status # "UNKNOWN" /\ x.check # "org-actions-policy"
    <3>1. \/ x.status = "PASS" /\ Holds(o, x.check)
          \/ x.status = "FAIL" /\ ~Holds(o, x.check)
      BY <1>4, <1>7, <2>2, <2>5 DEF Verdict
    <3> QED BY <2>1, <2>3, <3>1 DEF Right
  <2>6. CASE x.status # "UNKNOWN" /\ x.check = "org-actions-policy"
    <3>1. x.status = Verdict(PolicyHolds(o))
      BY <1>4, <1>7, <2>6
    <3>2. CASE x.status = "FAIL" /\ NarrowingUnread(o)
      <4>1. PICK q \in Repo : OwnerOf[q] = o /\ Result(q, "actions-allowlist", "UNKNOWN") \in results
        BY <3>2 DEF NarrowingUnread
      <4>2. PICK y : y = Result(q, "actions-allowlist", "UNKNOWN")
        OBVIOUS
      <4>3. y \in results /\ y.repo = q /\ y.status = "UNKNOWN"
        BY <4>1, <4>2 DEF Result
      <4>4. InDoubt(o)
        BY <4>1, <4>3 DEF InDoubt
      <4>5. Doubted(o, x.check, x.status)
        BY <1>2, <2>6, <3>2, <4>4 DEF Doubted, Excused
      <4> QED BY <1>2, <2>1, <4>5, DoubtedStays DEF Right
    <3>3. CASE x.status = "FAIL" /\ ~NarrowingUnread(o)
      <4>1. ~Holds(o, x.check)
        BY <1>2, <2>2, <2>6, <3>1, <3>3, PolicyFails DEF Verdict
      <4> QED BY <2>1, <2>3, <3>3, <4>1 DEF Right
    <3>4. CASE x.status = "PASS" /\ InDoubt(o)
      <4>1. Doubted(o, x.check, x.status)
        BY <1>2, <3>4 DEF Doubted
      <4> QED BY <1>2, <2>1, <4>1, DoubtedStays DEF Right
    <3>5. CASE x.status = "PASS" /\ ~InDoubt(o)
      <4>1. Holds(o, x.check)
        BY <1>2, <2>2, <2>6, <3>1, <3>5, PolicyIsAnswered DEF Verdict
      <4> QED BY <2>1, <2>3, <3>5, <4>1 DEF Right
    <3> QED BY <3>1, <3>2, <3>3, <3>4, <3>5 DEF Verdict
  <2> QED BY <1>7, <2>4, <2>5, <2>6
<1>9. ResultsAreRight'
  BY <1>2, <1>6, <1>8, StillRight DEF Sound
<1>10. Progress' /\ WorkflowsRead' /\ GreenEnd'
  <2>1. at' = at /\ ~(at' <= Len(Listed)) /\ exit' = -1
    BY <1>2, AuditAssumption DEF TypeOK
  <2>2. \A r : Done(r) => Done(r)'
    BY <1>2, DoneStays
  <2> QED BY <2>1, <2>2 DEF Sound, Progress, WorkflowsRead, GreenEnd
<1>11. OrgsAreMet'
  <2>1. \A q \in Orgs : owners'[q] \in {Unread, Refused, <<"read", org'[q].owners>>}
    BY <1>2, <1>3 DEF Sound, OrgsAreMet, TypeOK, given
  <2>2. \A q \in seen' : \E r \in ListedRepos : OwnerOf[r] = q
    BY <1>2 DEF Sound, OrgsAreMet
  <2>3. \A c \in OrgChecks : Reported(o, c)'
    BY <1>7 DEF OrgChecks, Reported
  <2>4. ASSUME NEW x \in results', x.repo \in Orgs, NEW c \in OrgChecks
        PROVE  Reported(x.repo, c)'
    <3>1. CASE x \in results
      <4>1. Reported(x.repo, c)
        BY <2>4, <3>1 DEF Sound, OrgsAreMet
      <4> QED BY <4>1, <1>2, ReportedStays
    <3>2. CASE x \in {s, p, a}
      BY <3>2, <2>3, <1>7
    <3> QED BY <1>6, <3>1, <3>2
  <2> QED BY <2>1, <2>2, <2>4 DEF OrgsAreMet
<1>12. OrgsAreToured'
  BY <1>2, TouredStays DEF Sound, OrgsAreToured
<1> QED BY <1>9, <1>10, <1>11, <1>12 DEF Sound

-----------------------------------------------------------------------------
(* The types.  What is known of the workflow files has the type of what    *)
(* they are.                                                               *)
LEMMA TypesKept ==
  ASSUME ReadsRight, TypeOK, [Next]_vars
  PROVE  TypeOK'
<1>1. MaxRefusals \in Nat /\ refusals \in Nat /\ Len(Listed) \in Nat /\ at \in Nat
  BY AuditAssumption DEF TypeOK
<1>2. /\ minted' \in Minted /\ allowUnknown' \in BOOLEAN
      /\ \A x \in Repo : state'[x] \in RepoStates[x]
      /\ org' \in [Orgs -> OrgStates]
  BY DEF Next, vars, given, TypeOK, OpenRepo, CheckWorkflows, ReadOwners, OrgOwners,
         CheckCollaborators, CheckBranchProtection, CheckSettings, CheckActionsAllowlist,
         CheckTagRuleset, CheckRiskExceptions, CheckDependabot, CheckDependabotEcosystem,
         CheckDopplerVariable, CheckPreCommitHook, AuditOrg, Conclude, Raise, Goto, NextRepo
<1>3. at' = at \/ (at' = at + 1 /\ at <= Len(Listed))
  BY DEF Next, vars, given, OpenRepo, CheckWorkflows, ReadOwners, OrgOwners, Auditing,
         CheckCollaborators, CheckBranchProtection, CheckSettings, CheckActionsAllowlist,
         CheckTagRuleset, CheckRiskExceptions, CheckDependabot, CheckDependabotEcosystem,
         CheckDopplerVariable, CheckPreCommitHook, AuditOrg, Conclude, Raise, Goto, NextRepo
<1>4. step' \in Steps
  BY DEF Next, vars, given, TypeOK, OpenRepo, CheckWorkflows, ReadOwners, OrgOwners, Steps,
         CheckCollaborators, CheckBranchProtection, CheckSettings, CheckActionsAllowlist,
         CheckTagRuleset, CheckRiskExceptions, CheckDependabot, CheckDependabotEcosystem,
         CheckDopplerVariable, CheckPreCommitHook, AuditOrg, Conclude, Raise, Goto, NextRepo
<1>5. wf' \in [gates : SUBSET Gate, advisories : SUBSET Advisory, doppler : BOOLEAN]
  <2>1. wf' \in {wf, NoWorkflows} \/ (CheckWorkflows /\ wf' = ReadWorkflows)
    BY DEF Next, vars, OpenRepo, CheckWorkflows, ReadOwners, OrgOwners,
         CheckCollaborators, CheckBranchProtection, CheckSettings, CheckActionsAllowlist,
         CheckTagRuleset, CheckRiskExceptions, CheckDependabot, CheckDependabotEcosystem,
         CheckDopplerVariable, CheckPreCommitHook, AuditOrg, Conclude, Raise, Goto, NextRepo
  <2>2. CASE wf' \in {wf, NoWorkflows}
    <3>1. NoWorkflows \in [gates : SUBSET Gate, advisories : SUBSET Advisory, doppler : BOOLEAN]
      BY DEF NoWorkflows
    <3>2. wf \in [gates : SUBSET Gate, advisories : SUBSET Advisory, doppler : BOOLEAN]
      BY DEF TypeOK
    <3> QED BY <2>2, <3>1, <3>2
  <2>3. CASE CheckWorkflows /\ wf' = ReadWorkflows
    <3>1. PICK r \in Repo : r = This
      BY <2>3, ThisIsListed DEF CheckWorkflows, Auditing
    <3>2. state[r] \in RepoStates[r] /\ state[r] \in RepoState
      BY AuditAssumption DEF TypeOK
    <3>3. Texts = {state[r].files[i] : i \in DOMAIN state[r].files}
      BY <3>1 DEF Texts
    <3>4. /\ UNION {ExpectedGates(text) : text \in Texts} = state[r].gates
          /\ UNION {ExceptionsIn(text) : text \in Texts} = state[r].advisories
      <4>1. /\ state[r].gates = UNION {ExpectedGates(state[r].files[i]) : i \in DOMAIN state[r].files}
            /\ state[r].advisories = UNION {ExceptionsIn(state[r].files[i]) : i \in DOMAIN state[r].files}
        BY <3>2 DEF ReadsRight
      <4> QED BY <3>3, <4>1
    <3> QED BY <2>3, <3>2, <3>4 DEF ReadWorkflows, RepoState
  <2> QED BY <2>1, <2>2, <2>3
<1>6. seen' \subseteq Orgs
  BY DEF Next, vars, TypeOK, OpenRepo, CheckWorkflows, ReadOwners, OrgOwners,
         CheckCollaborators, CheckBranchProtection, CheckSettings, CheckActionsAllowlist,
         CheckTagRuleset, CheckRiskExceptions, CheckDependabot, CheckDependabotEcosystem,
         CheckDopplerVariable, CheckPreCommitHook, AuditOrg, Conclude, Raise, Goto, NextRepo
<1>7. owners' \in [Orgs -> {Unread, Refused} \cup ({"read"} \X SUBSET Person)]
  <2>1. \/ owners' = owners
        \/ \E o \in Orgs : \E asked \in {Unread, Refused, <<"read", org[o].owners>>, owners[o]} :
             owners' = [owners EXCEPT ![o] = asked]
    <3>1. CASE ReadOwners
      BY <3>1 DEF ReadOwners, OrgOwners
    <3>2. CASE AuditOrg
      BY <3>2 DEF AuditOrg, TypeOK
    <3> QED BY <3>1, <3>2
         DEF Next, vars, OpenRepo, CheckWorkflows, CheckCollaborators, CheckBranchProtection,
             CheckSettings, CheckActionsAllowlist, CheckTagRuleset, CheckRiskExceptions,
             CheckDependabot, CheckDependabotEcosystem, CheckDopplerVariable,
             CheckPreCommitHook, Conclude, Raise
  <2>2. \A o \in Orgs : org[o].owners \in SUBSET Person
    BY AuditAssumption DEF TypeOK, OrgState
  <2>3. \A o \in Orgs : <<"read", org[o].owners>> \in {"read"} \X SUBSET Person
    BY <2>2
  <2> QED BY <2>1, <2>3 DEF TypeOK
<1>8. results' \subseteq Found
  <2>1. ASSUME NEW r \in Repo, NEW c \in Setting \cup RepoChecks,
               NEW status \in {"PASS", "FAIL", "UNKNOWN"}
        PROVE  Result(r, c, status) \in Found
    BY DEF Result, Found
  <2>2. at <= Len(Listed) => This \in Repo
    BY ThisIsListed
  <2>3. \A holds : Verdict(holds) \in {"PASS", "FAIL", "UNKNOWN"}
    BY DEF Verdict
  <2>4. ASSUME NEW c \in RepoChecks, NEW holds, at <= Len(Listed), Ask(c, holds)
        PROVE  results' \subseteq Found
    BY <2>1, <2>2, <2>3, <2>4 DEF Ask, Report, TypeOK
  <2>5. ASSUME NEW c \in RepoChecks, NEW status \in {"PASS", "FAIL", "UNKNOWN"},
               at <= Len(Listed), Report(c, status)
        PROVE  results' \subseteq Found
    BY <2>1, <2>2, <2>5 DEF Report, TypeOK
  <2>6. CASE CheckSettings
    <3>1. \A x \in results' : x \in results \/
            \E c \in Setting : \E status \in {"PASS", "FAIL", "UNKNOWN"} : x = Result(This, c, status)
      BY <2>3, <2>6 DEF CheckSettings
    <3> QED BY <3>1, <2>1, <2>2, <2>6 DEF CheckSettings, Auditing, TypeOK
  <2>7. CASE AuditOrg
    <3>1. PICK o \in Orgs : \A x \in results' : x \in results \/
            \E c \in OrgChecks : \E status \in {"PASS", "FAIL", "UNKNOWN"} : x = Result(o, c, status)
      BY <2>3, <2>7 DEF AuditOrg, TypeOK, OrgChecks
    <3> QED BY <3>1 DEF TypeOK, Found, Result
  <2>8. CASE CheckWorkflows
    <3>1. \A x \in results' : x \in results \/
            \E c \in RepoChecks : \E status \in {"PASS", "FAIL", "UNKNOWN"} : x = Result(This, c, status)
      BY <2>3, <2>8 DEF CheckWorkflows, Report, RepoChecks
    <3> QED BY <3>1, <2>1, <2>2, <2>8 DEF CheckWorkflows, Auditing, TypeOK
  <2>9. CASE OpenRepo
    BY <2>5, <2>9 DEF OpenRepo, Auditing, RepoChecks, TypeOK
  <2>10. CASE CheckCollaborators
    BY <2>3, <2>5, <2>10 DEF CheckCollaborators, Auditing, RepoChecks
  <2>11. CASE CheckRiskExceptions
    BY <2>3, <2>5, <2>11 DEF CheckRiskExceptions, Auditing, RepoChecks
  <2>12. CASE CheckDopplerVariable
    BY <2>4, <2>5, <2>12 DEF CheckDopplerVariable, Auditing, RepoChecks
  <2>13. CASE CheckBranchProtection \/ CheckActionsAllowlist \/ CheckTagRuleset
    BY <2>4, <2>13 DEF CheckBranchProtection, CheckActionsAllowlist, CheckTagRuleset, Auditing, RepoChecks
  <2>14. CASE CheckDependabot \/ CheckDependabotEcosystem \/ CheckPreCommitHook
    BY <2>4, <2>14 DEF CheckDependabot, CheckDependabotEcosystem, CheckPreCommitHook, Auditing, RepoChecks
  <2>15. CASE ReadOwners \/ Conclude \/ Raise \/ UNCHANGED vars
    BY <2>15 DEF ReadOwners, OrgOwners, Conclude, Raise, vars, TypeOK
  <2> QED BY <2>6, <2>7, <2>8, <2>9, <2>10, <2>11, <2>12, <2>13, <2>14, <2>15 DEF Next
<1>9. refusals' \in 0..MaxRefusals
  <2>1. CASE CheckSettings
    <3>1. PICK unanswered \in SUBSET Setting :
            refusals' = refusals + Cardinality(unanswered) /\ refusals' <= MaxRefusals
      BY <2>1 DEF CheckSettings
    <3>2. Cardinality(unanswered) \in Nat
      BY AuditAssumption, FS_Subset, FS_CardinalityType
    <3> QED BY <1>1, <3>1, <3>2
  <2>2. CASE AuditOrg
    <3>1. PICK unanswered \in SUBSET {"settings", "policy", "owners"} :
            refusals' = refusals + Cardinality(unanswered) /\ refusals' <= MaxRefusals
      BY <2>2 DEF AuditOrg
    <3>2. IsFiniteSet({"settings", "policy", "owners"})
      <4>1. IsFiniteSet({"settings"})
        BY FS_Singleton
      <4>2. IsFiniteSet({"settings"} \cup {"policy"})
        BY <4>1, FS_AddElement
      <4>3. IsFiniteSet(({"settings"} \cup {"policy"}) \cup {"owners"})
        BY <4>2, FS_AddElement
      <4>4. ({"settings"} \cup {"policy"}) \cup {"owners"} = {"settings", "policy", "owners"}
        OBVIOUS
      <4> QED BY <4>3, <4>4
    <3>3. Cardinality(unanswered) \in Nat
      BY <3>2, FS_Subset, FS_CardinalityType
    <3> QED BY <1>1, <3>1, <3>3
  <2>3. CASE Answered \/ NoAnswer \/ UNCHANGED refusals
    BY <2>3, <1>1 DEF Answered, NoAnswer, TypeOK
  <2>4. CheckSettings \/ AuditOrg \/ Answered \/ NoAnswer \/ UNCHANGED refusals
    BY DEF Next, vars, OpenRepo, CheckWorkflows, ReadOwners, OrgOwners, Ask,
         CheckCollaborators, CheckBranchProtection, CheckActionsAllowlist,
         CheckTagRuleset, CheckRiskExceptions, CheckDependabot, CheckDependabotEcosystem,
         CheckDopplerVariable, CheckPreCommitHook, Conclude, Raise
  <2> QED BY <2>1, <2>2, <2>3, <2>4
<1>10. exit' \in {exit, 1, ExitCode(results)}
  BY DEF Next, vars, given, OpenRepo, CheckWorkflows, ReadOwners, OrgOwners, Auditing,
         CheckCollaborators, CheckBranchProtection, CheckSettings, CheckActionsAllowlist,
         CheckTagRuleset, CheckRiskExceptions, CheckDependabot, CheckDependabotEcosystem,
         CheckDopplerVariable, CheckPreCommitHook, AuditOrg, Conclude, Raise, Goto, NextRepo
<1>11. at' \in 1..(Len(Listed) + 1)
  BY <1>1, <1>3 DEF TypeOK
<1>12. exit' \in -1..2
  BY <1>10 DEF ExitCode, TypeOK
<1> QED BY <1>2, <1>4, <1>5, <1>6, <1>7, <1>8, <1>9, <1>11, <1>12 DEF TypeOK, Steps

-----------------------------------------------------------------------------
LEMMA SoundKept ==
  ASSUME ReadsRight, TypeOK, Sound, [Next]_vars
  PROVE  Sound'
BY NothingNew, Opened, WorkflowsChecked, OneQuestion, SettingsChecked, HookChecked,
   OrgAudited DEF Next

LEMMA AtFirst ==
  ASSUME Init
  PROVE  TypeOK /\ Sound
<1>1. TypeOK
  <2>1. Len(Listed) \in Nat /\ at \in 1..(Len(Listed) + 1)
    BY AuditAssumption DEF Init
  <2>2. wf \in [gates : SUBSET Gate, advisories : SUBSET Advisory, doppler : BOOLEAN]
    BY DEF Init, NoWorkflows
  <2>3. refusals \in 0..MaxRefusals
    BY AuditAssumption DEF Init
  <2> QED BY <2>1, <2>2, <2>3 DEF Init, TypeOK
<1>2. ResultsAreRight /\ GreenEnd
  BY DEF Init, ResultsAreRight, GreenEnd
<1>3. Progress
  <2>1. Turn(step) = 0 /\ at = 1
    BY DEF Init, Turn
  <2>2. \A c \in Asked : Turn(c) \in 1..11
    BY TurnsAreNumbers
  <2>3. Behind(This, Turn(step))
    BY <2>1, <2>2 DEF Behind
  <2>4. \A i \in 1..Len(Listed) : ~(i < at)
    BY <2>1
  <2> QED BY <2>3, <2>4 DEF Progress
<1>4. WorkflowsRead
  BY DEF Init, WorkflowsRead, Turn
<1>5. OrgsAreMet
  BY DEF Init, OrgsAreMet
<1>6. OrgsAreToured
  BY DEF Init, OrgsAreToured
<1> QED BY <1>1, <1>2, <1>3, <1>4, <1>5, <1>6 DEF Sound

(* A check looks at what it is about, where nothing is spread.             *)
LEMMA ChecksAreTheBaseline ==
  ASSUME NothingSpread, TypeOK, NEW r \in Repo, NEW c, Meets(r, c)
  PROVE  Holds(r, c)
<1>1. state[r] \in RepoStates[r]
  BY DEF TypeOK
<1>2. Covered(state[r]) => TagRuleset(state[r].rulesets)
  BY <1>1 DEF NothingSpread
<1>3. PipUpdatedRoots(state[r].updates) => UpdatedAsPip(r)
  BY <1>1 DEF NothingSpread, PipUpdatedRoots, UpdatedAsPip
<1> QED BY <1>2, <1>3 DEF Meets, Holds

LEMMA ChecksAreEnough ==
  ASSUME NEW r \in Repo,
         \A c \in Setting \cup (RepoChecks \ {"repository"}) : Holds(r, c)
  PROVE  Compliant(r)
<1>1. TagRuleset(state[r].rulesets) /\ Holds(r, "dependabot-ecosystem")
  BY DEF Holds, Meets, RepoChecks
<1>2. Covered(state[r])
  <2>1. PICK i \in DOMAIN state[r].rulesets :
          ForVersions(state[r].rulesets[i]) /\ TagRules \subseteq state[r].rulesets[i].rules
    BY <1>1 DEF TagRuleset
  <2> QED BY <2>1 DEF Covered
<1>3. state[r].locks = {} \/ (state[r].dependabot /\ ~UpdatedAsPip(r))
  BY <1>1 DEF Holds, PipUpdatedRoots, UpdatedAsPip
<1>4. ASSUME NEW c \in Setting \cup RepoChecks PROVE Meets(r, c)
  <2>1. CASE c = "repository"
    BY <2>1, AuditAssumption DEF Meets, RepoChecks
  <2>2. CASE c = "tag-ruleset"
    BY <1>2, <2>2, AuditAssumption DEF Meets, RepoChecks
  <2>3. CASE c = "dependabot-ecosystem"
    BY <1>3, <2>3, AuditAssumption DEF Meets, RepoChecks
  <2>4. CASE c \notin {"repository", "tag-ruleset", "dependabot-ecosystem"}
    BY <1>4, <2>4 DEF Holds
  <2> QED BY <2>1, <2>2, <2>3, <2>4
<1> QED BY <1>4 DEF Compliant

LEMMA OrgChecksAreTheBaseline ==
  ASSUME NEW o \in Orgs
  PROVE  OrgCompliant(o) <=> \A c \in OrgChecks : Holds(o, c)
BY DEF OrgCompliant, Holds, OrgChecks

LEMMA GreenIsEarned ==
  ASSUME TypeOK, Sound
  PROVE  GreenAuditIsTrue
<1> SUFFICES ASSUME exit = 0, NEW r \in ListedRepos,
                    ~(allowUnknown /\ InDoubt(OwnerOf[r]))
             PROVE  Compliant(r) /\ (OwnerOf[r] \in Orgs => OrgCompliant(OwnerOf[r]))
  BY DEF GreenAuditIsTrue
<1> DEFINE o == OwnerOf[r]
<1>1. /\ ~InDoubt(o) /\ at > Len(Listed)
      /\ \A q \in seen : \E x \in results : x.repo = q
      /\ \A x \in results : x.status # "FAIL"
  BY DEF Sound, GreenEnd, InDoubt
<1>2. r \in Repo /\ Done(r)
  <2>1. at \in Nat /\ Len(Listed) \in Nat
    BY AuditAssumption DEF TypeOK
  <2> QED BY <1>1, <2>1, AuditAssumption DEF Sound, Progress, ListedRepos
<1>3. /\ \A c \in Asked \cup Setting : Reported(r, c)
      /\ CallersAsked(r) /\ Met(r)
  <2>1. Result(r, "repository", "UNKNOWN") \notin results
    BY <1>1, <1>2 DEF InDoubt, Result
  <2> QED BY <1>2, <2>1 DEF Done
<1>4. ASSUME NEW x \in results, OwnerIn(x) = o
      PROVE  x.status = "PASS" /\ Holds(x.repo, x.check)
  BY <1>1, <1>4 DEF Sound, ResultsAreRight, Right, Doubted, OwnerIn
<1>5. \A x \in results : x.repo = r => OwnerIn(x) = o
  BY <1>2 DEF OwnerIn
<1>6. \A c : Reported(r, c) => Holds(r, c)
  BY <1>4, <1>5 DEF Reported
<1>7. Reported(r, "uses-shared-workflows")
  BY <1>3, <1>4, <1>5 DEF CallersAsked
<1>8. Compliant(r)
  <2>1. \A c \in Setting \cup (RepoChecks \ {"repository"}) : Holds(r, c)
    BY <1>3, <1>6, <1>7 DEF Asked
  <2> QED BY <1>2, <2>1, ChecksAreEnough
<1>9. ASSUME o \in Orgs
      PROVE  OrgCompliant(o)
  <2>1. PICK x \in results : x.repo = o
    BY <1>1, <1>3, <1>9 DEF Met
  <2>2. \A c \in OrgChecks : Reported(o, c)
    BY <1>9, <2>1 DEF Sound, OrgsAreMet
  <2>3. \A y \in results : y.repo = o => OwnerIn(y) = o
    BY <1>9, AuditAssumption DEF OwnerIn
  <2>4. \A c \in OrgChecks : Holds(o, c)
    BY <1>4, <2>2, <2>3 DEF Reported
  <2> QED BY <1>9, <2>4, OrgChecksAreTheBaseline
<1> QED BY <1>8, <1>9

LEMMA FailIsEarned ==
  ASSUME NothingSpread, TypeOK, Sound
  PROVE  FailIsDeserved
<1> SUFFICES ASSUME NEW x \in results, x.status = "FAIL", ~Excused(x.repo, x.check)
             PROVE  ~Meets(x.repo, x.check)
  BY DEF FailIsDeserved
<1>1. Placed(x) /\ ~Holds(x.repo, x.check)
  BY DEF Sound, ResultsAreRight, Right, Doubted
<1>2. CASE x.repo \in ListedRepos
  <2>1. x.repo \in Repo
    BY <1>2, AuditAssumption DEF ListedRepos
  <2> QED BY <1>1, <2>1, ChecksAreTheBaseline
<1>3. CASE x.check \in OrgChecks
  BY <1>1, <1>3 DEF Holds, Meets, OrgChecks
<1> QED BY <1>1, <1>2, <1>3 DEF Placed

-----------------------------------------------------------------------------
(* Where the line reading finds what there is, every result, index, owner  *)
(* list and exit code is of the kind the script keeps.                     *)
THEOREM TypeCorrect ==
  ASSUME ReadsRight
  PROVE  Spec => []TypeOK
<1>1. Init => TypeOK
  BY AtFirst
<1>2. TypeOK /\ [Next]_vars => TypeOK'
  BY TypesKept
<1> QED BY <1>1, <1>2, PTL DEF Spec

LEMMA SoundThroughout ==
  ASSUME ReadsRight
  PROVE  Spec => [](TypeOK /\ Sound)
<1>1. Init => TypeOK /\ Sound
  BY AtFirst
<1>2. TypeOK /\ Sound /\ [Next]_vars => TypeOK' /\ Sound'
  BY TypesKept, SoundKept
<1> QED BY <1>1, <1>2, PTL DEF Spec

(* Exit code 0 is earned: whichever calls GitHub refused and in whatever   *)
(* order owners were read and shared, every listed repository and every    *)
(* organization of one meets BASELINE.md, or the report says that          *)
(* something about that owner could not be asked and --allow-unknown was   *)
(* given.                                                                  *)
THEOREM GreenIsTrue ==
  ASSUME ReadsRight
  PROVE  Spec => []GreenAuditIsTrue
<1>1. TypeOK /\ Sound => GreenAuditIsTrue
  BY GreenIsEarned
<1> QED BY <1>1, SoundThroughout, PTL

(* A FAIL is deserved, check by check: the very thing it names does not    *)
(* hold of what it names, whichever other calls GitHub refused.  The two   *)
(* exceptions are answers put together from an answer that was refused,    *)
(* and then that one says UNKNOWN in the same report.                      *)
THEOREM FailsAreDeserved ==
  ASSUME ReadsRight, NothingSpread
  PROVE  Spec => []FailIsDeserved
<1>1. TypeOK /\ Sound => FailIsDeserved
  BY FailIsEarned
<1> QED BY <1>1, SoundThroughout, PTL
=============================================================================
