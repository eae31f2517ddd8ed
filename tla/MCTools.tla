------------------------------ MODULE MCTools ------------------------------
(***************************************************************************)
(* Small instances of the programs that do not interact: the secrets       *)
(* action, the files of a release, the base image check, the drift check,  *)
(* the tool locks, the issues of the risk register and the wiki's          *)
(* generator.  A behaviour is one of one of them; the others stay in an    *)
(* initial state.                                                          *)
(***************************************************************************)
EXTENDS DopplerSecrets, ArtifactRelease, BaseImage, VendoredDrift, ToolLocks, RegisterIssues,
        GenWiki

CONSTANT Parts   \* the programs this run is about

VARIABLE part    \* the one this behaviour is about

-----------------------------------------------------------------------------
(* DopplerSecrets: three names, one of them a label; every way a job can   *)
(* come to the gate, wanting two secrets by name.                          *)
Request(export, spelt, want) == [export |-> export, spelt |-> spelt, want |-> want]
Requests ==
  {Request("env", "", {}), Request("outputs", "", {}), Request("typo", "", {}),
   Request("env", "blank", {}), Request("outputs", "bad", {})} \cup
  {Request(export, "names", want) : export \in {"env", "outputs"},
                                    want \in {{"A"}, {"A", "B"}, {"A", "LABEL"}}}

Plausible(j) == /\ j.fork => j.event = "pull_request"
                /\ j.event = "schedule" => j.ref = "default"
                /\ j.event = "pull_request" => j.ref = "other"
                /\ ~(j.ref = "version") => j.history = "unknown"
                /\ \E q \in Requests : j.export = q.export /\ j.spelt = q.spelt /\ j.want = q.want

From(events, refs, gates, logins) ==
  {j \in {[event |-> e, ref |-> r, fork |-> f, history |-> h, gate |-> g,
           identity |-> l \in {"oidc", "both"}, token |-> l \in {"token", "both"},
           project |-> p, required |-> q,
           export |-> w.export, spelt |-> w.spelt, want |-> w.want] :
            e \in events, r \in refs, f \in BOOLEAN, h \in {"in", "out", "unknown"}, g \in gates,
            l \in logins, p \in BOOLEAN, q \in BOOLEAN, w \in Requests} : Plausible(j)}

(* At the gate: any job; behind it: a push to the default branch.          *)
AtTheGate == {j \in From(Event, Ref, {"on", "off", "typo"}, {"none", "oidc", "token", "both"}) :
                /\ j.want \in {{}, {"A"}}
                /\ j.project \/ j.required}
BehindIt == {j \in From({"push"}, {"default"}, {"on"}, {"oidc", "token"}) :
               j.project /\ ~j.required}

Held(v, open) == [value |-> v, open |-> open]
PlainConfig == {[n \in {"A", "B", "LABEL"} |-> Held("long", n # "A")]}
AnyConfig ==
  {[n \in S |-> IF n = "A" THEN Held(v, o) ELSE Held(w, TRUE)] :
     S \in {{"A", "B", "LABEL"}, {"B", "LABEL"}}, v \in Value, w \in Value, o \in BOOLEAN}

AnyUse == (AtTheGate \X PlainConfig) \cup (BehindIt \X AnyConfig)

-----------------------------------------------------------------------------
(* ArtifactRelease: two runs, one file, its bundle, and the checksums with *)
(* theirs.                                                                 *)
CONSTANTS r1, r2
Runs == {r1, r2}
EitherRun == Permutations(Runs)   \* the runs are alike, and the run checks no liveness
OnlyDeb == {{"deb"}}

-----------------------------------------------------------------------------
(* BaseImage: two or three FROMs, pinned, not pinned, of a stage, of a     *)
(* variable; a registry where the tag has moved and three advisories.      *)
Img(repo, tag, digest) == [var |-> "", repo |-> repo, tag |-> tag, digest |-> digest]
Var(v) == [var |-> v, repo |-> "", tag |-> "", digest |-> ""]
Line(word, name, as, readable, image) ==
  [word |-> word, name |-> name, as |-> as, readable |-> readable, image |-> image]
FromLine(image, as) == Line("FROM", "", as, TRUE, image)
Arg(name, image) == Line("ARG", name, "", TRUE, image)

Py == Img("python", "3", "old")
Deb == Img("debian", "13", "old")
Lines ==
  {FromLine(Py, ""), FromLine(Py, "build"), FromLine(Deb, ""), FromLine(Var("BASE"), ""),
   FromLine(Img("build", "", ""), ""), FromLine(Img("scratch", "", ""), ""),
   FromLine(Img("debian", "", ""), "debian"), FromLine(Img("debian", "13", ""), ""),
   FromLine(Img("debian", "", "old"), ""), FromLine(Img("?", "", ""), "")}
Files == {<<x, y>> : x, y \in Lines} \cup {<<Arg("BASE", Deb), x, y>> : x, y \in Lines}
         \cup {<<Line("FROM", "", "", FALSE, Py), FromLine(Deb, "")>>,
               <<FromLine(Py, ""), Arg("BASE", Deb), FromLine(Var("BASE"), "")>>}

Has(fixable, unfixed) == [fixable |-> fixable, unfixed |-> unfixed]
Moved(pinned, current) == [moved |-> TRUE, pinned |-> pinned, current |-> current]
Same(known) == [moved |-> FALSE, pinned |-> known, current |-> known]
Known1 == Moved(Has({"a", "b"}, {"c"}), Has({"b"}, {"c"}))
Known2 == Same(Has({"a"}, {}))
Known3 == Moved(Has({"a"}, {"c"}), Has({"a", "b"}, {}))
Registries == {[r \in {"python", "debian"} |-> IF r = "python" THEN k ELSE l] :
                 k, l \in {Known1, Known2, Known3}}
SomeBaseJobs == [file : Files, allowUnpinned : BOOLEAN, exitCode : BOOLEAN, registry : Registries]

-----------------------------------------------------------------------------
(* VendoredDrift: up to three names of two locks, each with any defect.    *)
Where(plain, leads) == [plain |-> plain, leads |-> leads]
GoodLock == [readable |-> TRUE, object |-> TRUE, wrong |-> {}, malformed |-> FALSE,
             matches |-> TRUE, vendored |-> Where(TRUE, "file")]
Locks == {GoodLock, [GoodLock EXCEPT !.readable = FALSE], [GoodLock EXCEPT !.object = FALSE],
          [GoodLock EXCEPT !.malformed = TRUE], [GoodLock EXCEPT !.matches = FALSE],
          [GoodLock EXCEPT !.matches = FALSE, !.wrong = {"keys", "repo"}]}
         \cup {[GoodLock EXCEPT !.wrong = {x}] : x \in {"keys", "source", "repo", "path", "commit"}}
         \cup {[GoodLock EXCEPT !.vendored = Where(p, l)] :
                 p \in BOOLEAN, l \in {"file", "other", "big", "unreadable", "unnamable", "outside"}}
         \cup {[GoodLock EXCEPT !.malformed = TRUE, !.vendored = Where(TRUE, "unreadable")]}
SomeDriftJobs ==
  {[locks |-> s, lock |-> [n \in {"one", "two"} |-> IF n = "one" THEN k ELSE l], generator |-> g,
    real |-> [p \in {"1", "link", "2", "up"} |-> CASE p \in {"1", "link"} -> "one"
                                                   [] p = "2" -> "two" [] OTHER -> "outside"]] :
     s \in {<<>>, <<"1">>, <<"1", "2">>, <<"2", "up", "1">>, <<"1", "2", "link">>},
     k \in Locks, l \in {GoodLock, [GoodLock EXCEPT !.matches = FALSE],
                         [GoodLock EXCEPT !.vendored = Where(TRUE, "unnamable")]},
     g \in {"none", "agrees", "drift", "too slow", "cannot start"}}

-----------------------------------------------------------------------------
(* ToolLocks: three tools in two workflows, for CPython 3.10 or 3.11 to    *)
(* 3.12; the second version has no wheel that is wanted for the third.     *)
ToolList == <<"audit", "semgrep", "scanner">>
InWorkflow == [t \in {"audit", "semgrep", "scanner"} |-> IF t = "scanner" THEN "agent" ELSE "security"]
OldestOf == [t \in {"audit", "semgrep", "scanner"} |-> IF t = "scanner" THEN 11 ELSE 10]
InWorkflows == <<"agent", "security">>
Wheel(linux, python, abi, minor) == [linux |-> linux, python |-> python, abi |-> abi, minor |-> minor]
WheelsOf == 0 :> {Wheel(TRUE, "py3", "none", 0), Wheel(FALSE, "py3", "own", 0)} @@
            1 :> {Wheel(TRUE, "cp", "own", 10), Wheel(FALSE, "cp", "own", 11),
                  Wheel(TRUE, "cp", "abi3", 12), Wheel(TRUE, "cp", "own", 13)}

-----------------------------------------------------------------------------
(* RegisterIssues: two entries, due after two or three Mondays or without  *)
(* a date.                                                                 *)
IdList == <<"e1", "e2">>
SomeDates == {9, 16, NoDate}

-----------------------------------------------------------------------------
(* GenWiki: the two pages a wiki needs and one for a workflow; links to    *)
(* pages, files, elsewhere and nowhere, in and out of a fence, in a table  *)
(* and in a merge's subject.                                               *)
Link(to) == Part("link", to)
Hole(what) == Part("placeholder", what)
Marker == Part("marker", "")
Source(home, page, says, reusable, more) ==
  [pages |-> ("Home" :> home @@ "_Sidebar" :> <<Link("Home")>>) @@
             (IF page = <<>> THEN <<>> ELSE "Workflow-ci" :> page) @@ more,
   about |-> ("Home" :> "" @@ "_Sidebar" :> "") @@
             (IF page = <<>> THEN <<>> ELSE "Workflow-ci" :> "ci") @@ [p \in DOMAIN more |-> ""],
   workflows |-> "ci" :> [reusable |-> reusable, says |-> says],
   files |-> {"src"}, sameButCase |-> FALSE]
Homes == {<<Hole("tag"), Link("Workflow-ci")>>, <<Hole("unreleased"), Fence, Link("Gone"), Fence, Link("src")>>,
          <<Part("escaped", "tag"), Link("https")>>, <<Fence, Hole("unreleased"), Fence>>, <<Marker>>, <<Link("Old")>>}
WorkflowPages == {<<>>, <<Prose>>, <<Marker>>, <<Prose, Marker, Link("Home")>>, <<Marker, Marker>>,
                  <<Fence, Marker, Fence, Link("src")>>, <<Hole("unreleased"), Marker>>}
Says == {<<Prose>>, <<Link("Home"), Link("src")>>, <<Hole("tag"), Marker>>, <<Link("Gone")>>}
AHome == <<Hole("tag"), Hole("unreleased"), Link("Workflow-ci")>>
SomeSources ==
  {Source(h, <<Marker>>, <<Hole("tag"), Marker>>, TRUE, <<>>) : h \in Homes}
  \cup {Source(AHome, <<Marker>>, w, TRUE, <<>>) : w \in Says}
  \cup {Source(AHome, p, <<Link("Home")>>, r, <<>>) : p \in WorkflowPages, r \in BOOLEAN}
  \cup {Source(<<Prose>>, <<Marker>>, <<Prose>>, TRUE, m) : m \in {"Old" :> <<Prose>>, "_Footer" :> <<Prose>>}}
  \cup {[Source(<<Prose>>, <<Marker>>, <<Prose>>, TRUE, <<>>) EXCEPT !.sameButCase = TRUE]}
SomeHistories ==
  {[tag |-> FALSE, merges |-> <<>>]} \cup
  {[tag |-> TRUE, merges |-> m] :
     m \in {<<>>, <<<<Prose>>, <<Link("src")>>>>, <<<<Link("Gone")>>>>, <<<<Marker, Hole("tag")>>>>}}

-----------------------------------------------------------------------------
(* Of a program this behaviour is not about: any first state will do.      *)
IdleDoppler == (\E u \in {CHOOSE x \in Uses : TRUE} : job = u[1] /\ config = u[2]) /\ Init
IdleRelease == released = FALSE /\ ReleaseInit
IdleBase == base = (CHOOSE x \in BaseJobs : TRUE) /\ BaseInit
IdleDrift == call = (CHOOSE x \in DriftJobs : TRUE) /\ DriftInit
IdleRegister == reviewBy = [e \in Id |-> CHOOSE x \in Dates : TRUE] /\ RegisterInit
IdleWiki == /\ source = (CHOOSE x \in Sources : TRUE)
            /\ history = (CHOOSE x \in Histories : TRUE) /\ GenInit

ToolsInit ==
  /\ part \in Parts
  /\ \/ /\ part = "doppler"
        /\ IdleRelease /\ IdleBase /\ IdleDrift /\ LockInit /\ IdleRegister /\ IdleWiki /\ Init
     \/ /\ part = "release"
        /\ IdleDoppler /\ IdleBase /\ IdleDrift /\ LockInit /\ IdleRegister /\ IdleWiki /\ ReleaseInit
     \/ /\ part = "base"
        /\ IdleDoppler /\ IdleRelease /\ IdleDrift /\ LockInit /\ IdleRegister /\ IdleWiki /\ BaseInit
     \/ /\ part = "drift"
        /\ IdleDoppler /\ IdleRelease /\ IdleBase /\ LockInit /\ IdleRegister /\ IdleWiki /\ DriftInit
     \/ /\ part = "locks"
        /\ IdleDoppler /\ IdleRelease /\ IdleBase /\ IdleDrift /\ IdleRegister /\ IdleWiki /\ LockInit
     \/ /\ part = "register"
        /\ IdleDoppler /\ IdleRelease /\ IdleBase /\ IdleDrift /\ LockInit /\ IdleWiki /\ RegisterInit
     \/ /\ part = "wiki"
        /\ IdleDoppler /\ IdleRelease /\ IdleBase /\ IdleDrift /\ LockInit /\ IdleRegister /\ GenInit

ToolsNext ==
  \/ /\ part = "doppler" /\ Next
     /\ UNCHANGED <<part, releaseVars, baseVars, driftVars, lockVars, registerVars, wikiVars>>
  \/ /\ part = "release" /\ ReleaseNext
     /\ UNCHANGED <<part, vars, baseVars, driftVars, lockVars, registerVars, wikiVars>>
  \/ /\ part = "base" /\ BaseNext
     /\ UNCHANGED <<part, vars, releaseVars, driftVars, lockVars, registerVars, wikiVars>>
  \/ /\ part = "drift" /\ DriftNext
     /\ UNCHANGED <<part, vars, releaseVars, baseVars, lockVars, registerVars, wikiVars>>
  \/ /\ part = "locks" /\ LockNext
     /\ UNCHANGED <<part, vars, releaseVars, baseVars, driftVars, registerVars, wikiVars>>
  \/ /\ part = "register" /\ RegisterNext
     /\ UNCHANGED <<part, vars, releaseVars, baseVars, driftVars, lockVars, wikiVars>>
  \/ /\ part = "wiki" /\ GenNext
     /\ UNCHANGED <<part, vars, releaseVars, baseVars, driftVars, lockVars, registerVars>>

ToolsSpec ==
  ToolsInit /\ [][ToolsNext]_<<part, vars, releaseVars, baseVars, driftVars, lockVars, registerVars, wikiVars>>

(* The state of each program is well typed; and a pin is compared at most  *)
(* once, with one outcome, and only a running job has entries to look at.  *)
ToolsTypeOK ==
  CASE part = "release"  -> ReleaseTypeOK
    [] part = "base"     -> BaseTypeOK
    [] part = "drift"    -> DriftTypeOK
    [] part = "locks"    -> LockTypeOK
    [] part = "register" -> RegisterTypeOK
    [] part = "wiki"     -> GenTypeOK
    [] OTHER             -> TRUE
=============================================================================
