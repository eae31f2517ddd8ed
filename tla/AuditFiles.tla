----------------------------- MODULE AuditFiles -----------------------------
(***************************************************************************)
(* scripts/audit_baseline.py, what it reads out of the files and rulesets  *)
(* of a repository.  A workflow file is read line by line, without YAML;   *)
(* of a line the model knows how far it is indented (0, the two columns of *)
(* a job's key, or more), whether it is a comment and what it says.        *)
(***************************************************************************)
EXTENDS Integers, Sequences, FiniteSets

(* uses: of the shared repository a *-ci.yml or anything else, a local     *)
(* path, or something of others; version is the comment that names a tag.  *)
Line(Advisory) ==
  [indent : 0..2, comment : BOOLEAN, key : STRING, description : BOOLEAN,
   uses : {"", "ci", "shared", "local", "other"}, ref : {"", "sha", "tag"},
   version : BOOLEAN, inherit : BOOLEAN, ignores : SUBSET Advisory, doppler : BOOLEAN]

Ruleset == [target : {"tag", "branch"}, active : BOOLEAN, versions : BOOLEAN,
            rules : SUBSET {"deletion", "non_fast_forward", "update"}]
Update == [ecosystem : {"pip", "uv", "other"}, directory : {"/", "other", "none"}]

-----------------------------------------------------------------------------
Live_WithComments(text) == DOMAIN text
Live(text) == {i \in DOMAIN text : ~text[i].comment}

(* The gates a caller's jobs produce: a job's key stands in the block jobs,*)
(* which the next top-level line ends, and the calls below it are its own. *)
InJobs(text, i) ==
  \E j \in Live(text) :
    /\ j < i /\ text[j].indent = 0 /\ text[j].key = "jobs"
    /\ \A k \in Live(text) : j < k /\ k <= i => text[k].indent > 0
JobKeys(text) == {i \in Live(text) : InJobs(text, i) /\ text[i].indent = 1 /\ text[i].key # ""}
Above(text, i) == {j \in JobKeys(text) : j < i /\ \A k \in JobKeys(text) : k < i => k <= j}
ExpectedGates(text) ==
  {text[j].key : j \in UNION {Above(text, i) :
     i \in {k \in Live(text) : InJobs(text, k) /\ text[k].uses = "ci"}}}

(* What BASELINE.md forbids: inherited secrets, a ref that is no commit,   *)
(* a call of the shared repository that does not name its version.         *)
WorkflowFindings(text) ==
  {i \in Live(text) :
     \/ text[i].inherit
     \/ text[i].uses \in {"ci", "shared", "other"} /\ text[i].ref # "sha"
     \/ text[i].uses \in {"ci", "shared"} /\ ~text[i].version}

(* The advisories some scanner is told to ignore; descriptions are prose.  *)
ExceptionsIn(text) == UNION {text[i].ignores : i \in {j \in Live(text) : ~text[j].description}}

(* These two are searched for in the whole text, comments and all.         *)
ReadsDoppler(text) == \E i \in DOMAIN text : text[i].doppler
Calls(text) == \E i \in DOMAIN text : text[i].uses \in {"ci", "shared"}

-----------------------------------------------------------------------------
(* check_tag_ruleset: the first active ruleset for v* tags decides.        *)
TagRules == {"deletion", "non_fast_forward", "update"}
ForVersions(rs) == rs.target = "tag" /\ rs.active /\ rs.versions
TagRuleset(rulesets) ==
  \E i \in DOMAIN rulesets :
    /\ ForVersions(rulesets[i]) /\ TagRules \subseteq rulesets[i].rules
    /\ \A j \in 1..(i - 1) : ~ForVersions(rulesets[j])

(* pip_updated_roots: an entry that names no directory is of the root.     *)
PipUpdatedRoots(updates) ==
  \E i \in DOMAIN updates : updates[i].ecosystem = "pip" /\ updates[i].directory \in {"/", "none"}
=============================================================================
