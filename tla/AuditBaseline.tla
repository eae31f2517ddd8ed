--------------------------- MODULE AuditBaseline ---------------------------
(***************************************************************************)
(* scripts/audit_baseline.py: every repository of the list is held against *)
(* BASELINE.md through GitHub's API, then every organization that was met  *)
(* on the way, and the results become an exit code.  A question that could *)
(* not be asked is UNKNOWN.                                                *)
(*                                                                         *)
(* One action per check, or per group of checks that are one question and  *)
(* one answer each (CheckSettings).  What the repositories look like is    *)
(* fixed when the audit starts; what changes from call to call is whether  *)
(* GitHub answers.  "Answered" is status 200, or the 404 that says a thing *)
(* is not there; any other status is no answer.  The three results about   *)
(* the default branch are one here, and so are the two about an            *)
(* organization's settings.                                                *)
(***************************************************************************)
EXTENDS Integers, Sequences, FiniteSets, AuditFiles

CONSTANTS
  Repo, Owner,
  Orgs,          \* the owners that are organizations
  OwnerOf,       \* OwnerOf[r]: the owner of repository r
  Listed,        \* baseline/repos.txt, a sequence of repositories
  Minted,        \* the sets of owners there may be a token for
  SharedRepo,    \* SHARED_REPO, or a value that is no repository
  SharedGate,    \* SHARED_REPO_CHECK
  DefaultGate,   \* REQUIRED_CHECK
  Gate,          \* the "<job> / CI green" checks a caller may produce
  Person,
  Advisory,
  Register,      \* the entries of baseline/risk-register.yaml, in order
  Setting,       \* the checks that are one answer to one question
  RepoStates, OrgStates,  \* bound: what each repository, and an organization, looks like
  MaxRefusals    \* bound: calls GitHub does not answer

(* What the audit reads of a repository, and in gates, advisories and      *)
(* pinned what its workflow files are: the gates its jobs report, what its *)
(* scanners ignore, whether all it runs is pinned.                         *)
RepoState == [settings : SUBSET Setting, narrows : BOOLEAN, protected : BOOLEAN,
              requires : SUBSET (Gate \cup {SharedGate, DefaultGate}),
              files : Seq(Seq(Line(Advisory))), pinned : BOOLEAN,
              gates : SUBSET Gate, advisories : SUBSET Advisory,
              rulesets : Seq(Ruleset), locks : SUBSET {"requirements", "requirements-dev"},
              dependabot : BOOLEAN, cooldown : BOOLEAN, updates : Seq(Update),
              hook : {"none", "same", "other"},
              identity : {"uuid", "other", "unset"}, pushers : SUBSET Person]

(* The checks that are not such settings.                                  *)
RepoChecks == {"repository", "workflows-pinned", "uses-shared-workflows", "collaborators",
               "branch-protection", "actions-allowlist", "tag-ruleset", "risk-exceptions",
               "dependabot-config", "dependabot-ecosystem", "doppler-identity",
               "pre-commit-hook"}
OrgChecks == {"org-settings", "org-actions-policy", "org-owner-collaborators"}

Entry == [ids : SUBSET Advisory, repos : SUBSET Repo, due : BOOLEAN]

OrgState == [secure : BOOLEAN, allowed : {"selected", "all", "local"},
             readToken : BOOLEAN, owners : SUBSET Person]

ASSUME AuditAssumption ==
  /\ Orgs \subseteq Owner /\ Minted \subseteq SUBSET Owner
  /\ Repo \cap Orgs = {}
  /\ OwnerOf \in [Repo -> Owner]
  /\ Listed \in Seq(Repo)
  /\ Register \in Seq(Entry)   \* tests/test_risk_register.py: none entered twice
  /\ \A i, j \in 1..Len(Register) : i # j => Register[i].ids \cap Register[j].ids = {}
  /\ RepoStates \in [Repo -> SUBSET RepoState] /\ OrgStates \subseteq OrgState
  /\ IsFiniteSet(Setting) /\ Setting \cap (RepoChecks \cup OrgChecks) = {}
  /\ MaxRefusals \in Nat

VARIABLES
  minted,      \* the owners there is a token for
  allowUnknown,\* --allow-unknown
  state, org,  \* what the repositories and the organizations look like
  at,          \* the repository being audited, an index of Listed
  step,        \* the check that comes next
  wf,          \* what check_workflows returned for it, beside its results
  seen,        \* orgs: the organizations met so far
  owners,      \* owners[o]: the owner list of o, read once per run
  results,     \* the Results so far
  refusals,
  exit         \* the exit code, -1 while running

given == <<minted, allowUnknown, state, org>>

vars == <<given, at, step, wf, seen, owners, results, refusals, exit>>

Found == [repo : Repo \cup Orgs, check : Setting \cup RepoChecks \cup OrgChecks,
          status : {"PASS", "FAIL", "UNKNOWN"}]

NoWorkflows == [gates |-> {}, advisories |-> {}, doppler |-> FALSE]
Unread  == <<"unread">>    \* the owner list was not asked for yet
Refused == <<"refused">>   \* it was, in vain

Init ==
  /\ minted \in Minted /\ allowUnknown \in BOOLEAN
  /\ state \in {s \in [Repo -> UNION {RepoStates[x] : x \in Repo}] :
                  \A x \in Repo : s[x] \in RepoStates[x]}
  /\ org \in [Orgs -> OrgStates]
  /\ at = 1 /\ step = "repository" /\ wf = NoWorkflows
  /\ seen = {} /\ owners = [o \in Orgs |-> Unread]
  /\ results = {} /\ refusals = 0 /\ exit = -1

Auditing(next) == exit = -1 /\ at <= Len(Listed) /\ step = next
This == Listed[at]

Result(who, check, status) == [repo |-> who, check |-> check, status |-> status]
Verdict(holds) == IF holds THEN "PASS" ELSE "FAIL"
Report(check, status) == results' = results \cup {Result(This, check, status)}

(* A call GitHub answers, and one it does not.                             *)
Answered == UNCHANGED refusals
NoAnswer == refusals < MaxRefusals /\ refusals' = refusals + 1

(* A check that is one question and one answer.                            *)
Ask(check, holds) == \/ Answered /\ Report(check, Verdict(holds))
                     \/ NoAnswer /\ Report(check, "UNKNOWN")

Goto(next) == step' = next /\ UNCHANGED <<given, at, exit>>

NextRepo ==
  /\ at' = at + 1 /\ step' = "repository" /\ wf' = NoWorkflows
  /\ UNCHANGED <<given, exit>>

-----------------------------------------------------------------------------
(* The repository itself.  An owner without a token is never asked with    *)
(* somebody else's.                                                        *)
HasToken(o) == o \in minted

OpenRepo ==
  /\ Auditing("repository")
  /\ \/ /\ \/ ~HasToken(OwnerOf[This]) /\ Answered
           \/ HasToken(OwnerOf[This]) /\ NoAnswer
        /\ Report("repository", "UNKNOWN")
        /\ NextRepo
        /\ UNCHANGED <<seen, owners>>
     \/ /\ HasToken(OwnerOf[This]) /\ Answered
        /\ seen' = seen \cup (Orgs \cap {OwnerOf[This]})
        /\ Goto("workflows")
        /\ UNCHANGED <<wf, owners, results>>

(* The workflow files are read first: which gates must be required, which  *)
(* advisories are ignored and whether the Doppler identity is needed come  *)
(* from them.  A listing or a file that is not answered yields none.       *)
Texts == {state[This].files[i] : i \in DOMAIN state[This].files}

ReadWorkflows ==
  [gates      |-> UNION {ExpectedGates(text) : text \in Texts},
   advisories |-> UNION {ExceptionsIn(text) : text \in Texts},
   doppler    |-> \E text \in Texts : ReadsDoppler(text)]

CheckWorkflows ==
  /\ Auditing("workflows")
  /\ \/ /\ Texts = {} /\ Answered      \* no directory
        /\ Report("workflows-pinned", "FAIL")
        /\ wf' = NoWorkflows
     \/ /\ Texts # {} /\ Answered
        /\ results' = results \cup
             {Result(This, "workflows-pinned",
                     Verdict(\A text \in Texts : WorkflowFindings(text) = {})),
              Result(This, "uses-shared-workflows",
                     Verdict(This = SharedRepo \/ \E text \in Texts : Calls(text)))}
        /\ wf' = ReadWorkflows
     \/ /\ NoAnswer
        /\ Report("workflows-pinned", "UNKNOWN")
        /\ wf' = NoWorkflows
  /\ Goto("collaborators")
  /\ UNCHANGED <<seen, owners>>

(* An organization's owners are read once per run, and so is the failure   *)
(* to read them.                                                           *)
OrgOwners(o) ==
  /\ owners[o] = Unread
  /\ \/ Answered /\ owners' = [owners EXCEPT ![o] = <<"read", org[o].owners>>]
     \/ NoAnswer /\ owners' = [owners EXCEPT ![o] = Refused]
  /\ UNCHANGED <<given, at, step, wf, seen, results, exit>>

ReadOwners == /\ Auditing("collaborators") /\ OwnerOf[This] \in Orgs
              /\ OrgOwners(OwnerOf[This])

(* Nobody but the owner, or the organization's owners, can push.           *)
CheckCollaborators ==
  LET o == OwnerOf[This] IN
  /\ Auditing("collaborators")
  /\ o \in Orgs => owners[o] # Unread
  /\ \/ o \in Orgs /\ owners[o] = Refused
        /\ Answered /\ Report("collaborators", "UNKNOWN")
     \/ /\ o \in Orgs => owners[o] # Refused
        /\ \/ Answered /\ Report("collaborators", Verdict(state[This].pushers \subseteq
                                   IF o \in Orgs THEN owners[o][2] ELSE {}))
           \/ NoAnswer /\ Report("collaborators", "UNKNOWN")
  /\ Goto("branch-protection")
  /\ UNCHANGED <<wf, seen, owners>>

(* The gates of the workflows must all be required; the shared repository  *)
(* has its own, and a repository without one is held to the usual name.    *)
RequiredChecks(gates) ==
  IF This = SharedRepo THEN {SharedGate}
  ELSE IF gates = {} THEN {DefaultGate} ELSE gates

CheckBranchProtection ==
  /\ Auditing("branch-protection")
  /\ Ask("branch-protection", /\ state[This].protected
                              /\ RequiredChecks(wf.gates) \subseteq state[This].requires)
  /\ Goto("settings")
  /\ UNCHANGED <<wf, seen, owners>>

(* The checks that ask one question each, whatever it is.                  *)
CheckSettings ==
  /\ Auditing("settings")
  /\ \E unanswered \in SUBSET Setting :
       /\ refusals' = refusals + Cardinality(unanswered)
       /\ refusals' <= MaxRefusals
       /\ results' = results \cup
            {Result(This, c, IF c \in unanswered THEN "UNKNOWN"
                             ELSE Verdict(c \in state[This].settings)) : c \in Setting}
  /\ Goto("actions-allowlist")
  /\ UNCHANGED <<wf, seen, owners>>

CheckActionsAllowlist ==
  /\ Auditing("actions-allowlist")
  /\ Ask("actions-allowlist", state[This].narrows)
  /\ Goto("tag-ruleset")
  /\ UNCHANGED <<wf, seen, owners>>

CheckTagRuleset ==
  /\ Auditing("tag-ruleset")
  /\ Ask("tag-ruleset", TagRuleset(state[This].rulesets))
  /\ Goto("risk-exceptions")
  /\ UNCHANGED <<wf, seen, owners>>

(* Every advisory a workflow ignores is registered for this repository and *)
(* its review is not overdue.  The register is a local file, and the first *)
(* entry that names the advisory is the one that counts.                   *)
FirstEntry(a) ==
  CHOOSE i \in 1..Len(Register) :
    a \in Register[i].ids /\ \A j \in 1..(i - 1) : a \notin Register[j].ids

Registered_ForAnyone(a) == \E i \in 1..Len(Register) : a \in Register[i].ids
Registered(a) ==
  /\ \E i \in 1..Len(Register) : a \in Register[i].ids
  /\ This \in Register[FirstEntry(a)].repos
  /\ ~Register[FirstEntry(a)].due

CheckRiskExceptions ==
  /\ Auditing("risk-exceptions")
  /\ Report("risk-exceptions", Verdict(\A a \in wf.advisories : Registered(a)))
  /\ Answered
  /\ Goto("dependabot-config")
  /\ UNCHANGED <<wf, seen, owners>>

(* dependabot.yml, read twice: it cools down, and it does not update a     *)
(* universal uv lock of the root as pip.                                   *)
CheckDependabot ==
  /\ Auditing("dependabot-config")
  /\ Ask("dependabot-config", state[This].dependabot /\ state[This].cooldown)
  /\ Goto("dependabot-ecosystem")
  /\ UNCHANGED <<wf, seen, owners>>

CheckDependabotEcosystem ==
  /\ Auditing("dependabot-ecosystem")
  /\ Ask("dependabot-ecosystem",
         \/ state[This].locks = {}
         \/ state[This].dependabot /\ ~PipUpdatedRoots(state[This].updates))
  /\ Goto("doppler-identity")
  /\ UNCHANGED <<wf, seen, owners>>

(* Only a repository whose workflows read the identity has to set it.      *)
CheckDopplerVariable ==
  /\ Auditing("doppler-identity")
  /\ \/ ~wf.doppler /\ Answered /\ Report("doppler-identity", "PASS")
     \/ wf.doppler /\ Ask("doppler-identity", state[This].identity = "uuid")
  /\ Goto("pre-commit-hook")
  /\ UNCHANGED <<wf, seen, owners>>

CheckPreCommitHook ==
  /\ Auditing("pre-commit-hook")
  /\ Ask("pre-commit-hook", state[This].hook = "same")
  /\ NextRepo
  /\ UNCHANGED <<seen, owners>>

-----------------------------------------------------------------------------
(* Every organization met is audited once, after all repositories.  It may *)
(* leave "all" actions allowed when its repositories narrow that down.     *)
Narrowed(o) ==
  LET narrowing == {x \in results : x.check = "actions-allowlist" /\ OwnerOf[x.repo] = o}
  IN  narrowing # {} /\ \A x \in narrowing : x.status = "PASS"

PolicyHolds(o) ==
  /\ org[o].allowed = "selected" \/ (org[o].allowed = "all" /\ Narrowed(o))
  /\ org[o].readToken

AuditOrg ==
  /\ exit = -1 /\ at > Len(Listed)
  /\ \E o \in seen : \E unanswered \in SUBSET {"settings", "policy", "owners"} :
       LET asked == IF owners[o] # Unread THEN owners[o]
                    ELSE IF "owners" \in unanswered THEN Refused
                    ELSE <<"read", org[o].owners>>
       IN
       /\ \A x \in results : x.repo # o
       /\ "owners" \in unanswered => owners[o] = Unread
       /\ refusals' = refusals + Cardinality(unanswered)
       /\ refusals' <= MaxRefusals
       /\ owners' = [owners EXCEPT ![o] = asked]
       /\ results' = results \cup
            {Result(o, "org-settings", IF "settings" \in unanswered THEN "UNKNOWN"
                                       ELSE Verdict(org[o].secure)),
             Result(o, "org-actions-policy", IF "policy" \in unanswered THEN "UNKNOWN"
                                             ELSE Verdict(PolicyHolds(o))),
             Result(o, "org-owner-collaborators", IF asked = Refused THEN "UNKNOWN"
                                                  ELSE Verdict(asked[2] # {}))}
  /\ UNCHANGED <<given, at, step, wf, seen, exit>>

ExitCode_FailCount(rs) == Cardinality({x \in rs : x.status = "FAIL"})
ExitCode(rs) ==
  IF \E x \in rs : x.status = "FAIL" THEN 1
  ELSE IF (\E x \in rs : x.status = "UNKNOWN") /\ ~allowUnknown THEN 2
  ELSE 0

Conclude ==
  /\ exit = -1 /\ at > Len(Listed)
  /\ \A o \in seen : \E x \in results : x.repo = o
  /\ exit' = ExitCode(results)
  /\ UNCHANGED <<given, at, step, wf, seen, owners, results, refusals>>

(* A call that does not even come back with a status (no route, no name,   *)
(* no answer in time) is no HTTPError: it ends the script with a traceback,*)
(* and the interpreter with exit code 1.                                   *)
Raise ==
  /\ exit = -1
  /\ NoAnswer
  /\ exit' = 1
  /\ UNCHANGED <<given, at, step, wf, seen, owners, results>>

Next == \/ OpenRepo \/ CheckWorkflows \/ ReadOwners \/ CheckCollaborators
        \/ CheckBranchProtection \/ CheckSettings \/ CheckActionsAllowlist
        \/ CheckTagRuleset \/ CheckRiskExceptions \/ CheckDependabot
        \/ CheckDependabotEcosystem \/ CheckDopplerVariable \/ CheckPreCommitHook
        \/ AuditOrg \/ Conclude \/ Raise

Spec == Init /\ [][Next]_vars

-----------------------------------------------------------------------------
TypeOK ==
  /\ minted \in Minted /\ allowUnknown \in BOOLEAN
  /\ \A x \in Repo : state[x] \in RepoStates[x]
  /\ org \in [Orgs -> OrgStates]
  /\ at \in 1..(Len(Listed) + 1)
  /\ step \in {"repository", "workflows", "collaborators", "branch-protection",
               "settings", "actions-allowlist", "tag-ruleset", "risk-exceptions",
               "dependabot-config", "dependabot-ecosystem", "doppler-identity",
               "pre-commit-hook"}
  /\ wf \in [gates : SUBSET Gate, advisories : SUBSET Advisory, doppler : BOOLEAN]
  /\ seen \subseteq Orgs
  /\ owners \in [Orgs -> {Unread, Refused} \cup ({"read"} \X SUBSET Person)]
  /\ results \subseteq Found
  /\ refusals \in 0..MaxRefusals
  /\ exit \in -1..2

(* BASELINE.md, said of a repository and of an organization.               *)
Needed(r) == IF r = SharedRepo THEN {SharedGate}
             ELSE IF state[r].gates = {} THEN {DefaultGate} ELSE state[r].gates

Entered(a, r) == \E i \in 1..Len(Register) :
  a \in Register[i].ids /\ r \in Register[i].repos /\ ~Register[i].due

UpdatedAsPip(r) ==
  \E i \in DOMAIN state[r].updates :
    state[r].updates[i].ecosystem = "pip" /\ state[r].updates[i].directory = "/"

(* Nobody but the owner, or the owners of the organization.                *)
OwnersOf(r) == IF OwnerOf[r] \in Orgs THEN org[OwnerOf[r]].owners ELSE {}

NeedsIdentity(r) == \E i \in DOMAIN state[r].files : ReadsDoppler(state[r].files[i])

Covered(s) ==
  TagRules \subseteq UNION {rs.rules : rs \in
    {s.rulesets[i] : i \in {j \in DOMAIN s.rulesets : ForVersions(s.rulesets[j])}}}

ListedRepos == {Listed[i] : i \in 1..Len(Listed)}

OrgPolicy(o) ==
  /\ org[o].readToken
  /\ \/ org[o].allowed = "selected"
     \/ /\ org[o].allowed = "all"
        /\ \A r \in ListedRepos : OwnerOf[r] = o => state[r].narrows

(* Does what the check c is about hold of r, a repository or organization? *)
Meets(r, c) ==
  /\ c \in Setting => c \in state[r].settings
  /\ c = "workflows-pinned" => state[r].files # <<>> /\ state[r].pinned
  /\ c = "uses-shared-workflows" =>
       r = SharedRepo \/ \E i \in DOMAIN state[r].files : Calls(state[r].files[i])
  /\ c = "collaborators" => state[r].pushers \subseteq OwnersOf(r)
  /\ c = "branch-protection" => state[r].protected /\ Needed(r) \subseteq state[r].requires
  /\ c = "actions-allowlist" => state[r].narrows
  /\ c = "tag-ruleset" => Covered(state[r])
  /\ c = "risk-exceptions" => \A a \in state[r].advisories : Entered(a, r)
  /\ c = "dependabot-config" => state[r].dependabot /\ state[r].cooldown
  /\ c = "dependabot-ecosystem" =>
       state[r].locks = {} \/ (state[r].dependabot /\ ~UpdatedAsPip(r))
  /\ c = "doppler-identity" => (NeedsIdentity(r) => state[r].identity = "uuid")
  /\ c = "pre-commit-hook" => state[r].hook = "same"
  /\ c = "org-settings" => org[r].secure
  /\ c = "org-actions-policy" => OrgPolicy(r)
  /\ c = "org-owner-collaborators" => org[r].owners # {}

Compliant(r) == \A c \in Setting \cup RepoChecks : Meets(r, c)
OrgCompliant(o) == \A c \in OrgChecks : Meets(o, c)

(* A result about r, or about an organization r belongs to, says UNKNOWN.  *)
InDoubt(o) == \E x \in results : x.status = "UNKNOWN" /\
                x.repo \in {o} \cup {r \in Repo : OwnerOf[r] = o}

(* Exit 0 is earned: every listed repository and every organization of one *)
(* meets the baseline, or, with --allow-unknown, the report itself says    *)
(* that something about that owner could not be asked.                     *)
GreenAuditIsTrue ==
  exit = 0 =>
    \A r \in ListedRepos :
      LET o == OwnerOf[r] IN
      \/ Compliant(r) /\ (o \in Orgs => OrgCompliant(o))
      \/ allowUnknown /\ InDoubt(o)

(* The two answers that are put together from other answers, when one of   *)
(* those was refused: the gates are not known, and the usual name is asked *)
(* for; the allow-list of a repository is not known, and does not narrow.  *)
GatesUnread(r) == Result(r, "workflows-pinned", "UNKNOWN") \in results
NarrowingUnread(o) ==
  \E r \in Repo : OwnerOf[r] = o /\ Result(r, "actions-allowlist", "UNKNOWN") \in results

Excused(r, c) == \/ c = "branch-protection" /\ GatesUnread(r)
                 \/ c = "org-actions-policy" /\ NarrowingUnread(r)

(* A FAIL is deserved: the very thing the check is about does not hold of  *)
(* the very repository or organization it names, whatever else could not   *)
(* be asked.  Only branch-protection of a repository whose workflow files  *)
(* were not read, and org-actions-policy of an organization one of whose   *)
(* allow-lists was not, may accuse somebody who meets the baseline.        *)
FailIsDeserved ==
  \A x \in results :
    x.status = "FAIL" => ~Meets(x.repo, x.check) \/ Excused(x.repo, x.check)

(* The docstring: a question that could not be asked is reported UNKNOWN,  *)
(* never as a pass.  These two checks are answered by the workflow files.  *)
UnaskedIsNeverPass ==
  \A x \in results :
    x.check \in {"risk-exceptions", "doppler-identity"} /\ x.status = "PASS" =>
      Result(x.repo, "workflows-pinned", "UNKNOWN") \notin results
=============================================================================
