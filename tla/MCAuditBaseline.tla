-------------------------- MODULE MCAuditBaseline --------------------------
(***************************************************************************)
(* Small instances of the audit: a repository of a user account and two of *)
(* an organization, each flawless or with one flaw (tray with any of them).*)
(***************************************************************************)
EXTENDS AuditBaseline

Repos   == {"home", "tray", "hill"}
Owners  == {"user", "org"}
OwnerOfRepo == [x \in Repos |-> IF x = "home" THEN "user" ELSE "org"]
InOrder == <<"home", "tray", "hill">>
Entries == <<[ids |-> {"GHSA"}, repos |-> {"hill"}, due |-> TRUE],
             [ids |-> {"CVE"}, repos |-> {"tray"}, due |-> FALSE]>>

-----------------------------------------------------------------------------
(* Lines of workflow files, and files of a job that calls no gate, with a  *)
(* comment and a description that would be flaws if they were not that.    *)
Text == [indent |-> 2, comment |-> FALSE, key |-> "", description |-> FALSE, uses |-> "", ref |-> "",
         version |-> FALSE, inherit |-> FALSE, ignores |-> {}, doppler |-> FALSE]
Top(k) == [Text EXCEPT !.indent = 0, !.key = k]
Job(k) == [Text EXCEPT !.indent = 1, !.key = k]
Uses(u) == [Text EXCEPT !.uses = u, !.ref = IF u = "local" THEN "" ELSE "sha", !.version = TRUE]
Comment(line) == [line EXCEPT !.comment = TRUE]
Prose == [Text EXCEPT !.description = TRUE, !.ignores = {"GHSA"}]

Opening == <<Top("on"), Job("workflow_call"), Prose, Top("jobs")>>
Scan == <<Job("scan"), Comment([Uses("shared") EXCEPT !.ref = "tag"]),
          Comment([Text EXCEPT !.inherit = TRUE, !.ignores = {"CVE"}]), Uses("shared"), Uses("local")>>
Gated(g) == <<Job(g), Uses("other"), Comment(Job("sh")), Uses("ci")>>
Closing == <<Top("env"), Job("unused"), Text>>

Good == [settings |-> {"pvr"}, narrows |-> TRUE, protected |-> TRUE, requires |-> {"ci", "gate"},
         files |-> <<Opening \o Scan>>, pinned |-> TRUE, gates |-> {}, advisories |-> {},
         rulesets |-> <<[target |-> "tag", active |-> TRUE, versions |-> TRUE, rules |-> TagRules]>>,
         locks |-> {}, dependabot |-> TRUE, cooldown |-> TRUE, updates |-> <<>>,
         hook |-> "same", identity |-> "unset", pushers |-> {}]
With(s, line) == [s EXCEPT !.files[1] = @ \o <<line>>]

TwoGates == [Good EXCEPT !.gates = {"py", "sh"}, !.requires = {"py", "sh"},
                         !.files = <<Opening \o Gated("py") \o Scan \o Gated("sh") \o Closing>>]
Ignoring(a) == [With(Good, [Text EXCEPT !.ignores = {a}]) EXCEPT !.advisories = {a}]
Doppler == With(Good, [Text EXCEPT !.doppler = TRUE])
Unpinned(line) == [With(Good, line) EXCEPT !.pinned = FALSE]
PipLock == [Good EXCEPT !.locks = {"requirements"}, !.updates = <<[ecosystem |-> "pip", directory |-> "/"]>>]
Weak(rs) == [Good EXCEPT !.rulesets = rs \o <<[target |-> "tag", active |-> FALSE, versions |-> TRUE, rules |-> TagRules]>>]

OneFlaw ==
  {Good, TwoGates, Ignoring("CVE"), Ignoring("GHSA"), Doppler, PipLock,
   [Good EXCEPT !.settings = {}],
   [Good EXCEPT !.narrows = FALSE],
   [TwoGates EXCEPT !.requires = {"py", "ci"}],
   [TwoGates EXCEPT !.files = <<Opening \o Gated("py"), Opening \o Scan \o Gated("sh")>>],
   Unpinned([Uses("shared") EXCEPT !.version = FALSE]),
   Unpinned([Uses("other") EXCEPT !.ref = "tag"]),
   Unpinned([Text EXCEPT !.inherit = TRUE]),
   [Good EXCEPT !.files = <<>>],
   [Good EXCEPT !.files = <<Opening \o <<Job("scan"), Uses("other")>> >>],
   [Doppler EXCEPT !.identity = "uuid"],
   Weak(<<>>),
   Weak(<<[target |-> "branch", active |-> TRUE, versions |-> TRUE, rules |-> TagRules]>>),
   Weak(<<[target |-> "tag", active |-> TRUE, versions |-> FALSE, rules |-> {}],
          [target |-> "tag", active |-> TRUE, versions |-> TRUE, rules |-> TagRules]>>),
   Weak(<<[target |-> "tag", active |-> TRUE, versions |-> TRUE, rules |-> {"deletion"}]>>),
   [Good EXCEPT !.dependabot = FALSE, !.cooldown = FALSE],
   [Good EXCEPT !.cooldown = FALSE],
   [PipLock EXCEPT !.updates[1].ecosystem = "uv"],
   [PipLock EXCEPT !.updates[1].directory = "other"],
   [Good EXCEPT !.hook = "other"],
   [Good EXCEPT !.pushers = {"ann"}],
   [Good EXCEPT !.requires = {"gate"}],
   [Good EXCEPT !.protected = FALSE]}

OneGate == [Good EXCEPT !.gates = {"py"}, !.files = <<Opening \o Gated("py")>>]
FlawsOf == [x \in Repos |->
  CASE x = "tray" -> OneFlaw
    [] x = "hill" -> {Good, [Good EXCEPT !.narrows = FALSE], Ignoring("CVE")}
    [] OTHER      -> {OneGate, [Good EXCEPT !.requires = {"ci"}]}]

OrgKinds ==
  [secure : {TRUE}, allowed : {"selected", "all"}, readToken : {TRUE},
   owners : {{"ann"}}]
  \cup {[secure |-> FALSE, allowed |-> "selected", readToken |-> TRUE, owners |-> {}],
        [secure |-> TRUE, allowed |-> "local", readToken |-> FALSE, owners |-> {"ann"}]}
=============================================================================
