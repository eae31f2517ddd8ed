-------------------------- MODULE ContainerRelease --------------------------
(***************************************************************************)
(* .github/workflows/container-release.yml: the runs of it that are in     *)
(* flight, the registries they push to, and the base image, which somebody *)
(* else moves.  One job per platform builds an image, checks it and pushes *)
(* it under the temporary tag <sha>-<arch>; `merge` joins these into an    *)
(* index, puts that under the real tags, then signs and attests.           *)
(*                                                                         *)
(* An image is known by what went into it: the commit, the base and the    *)
(* run that built it, whose attempts are not told apart.  The digest of an *)
(* index is its content.                                                   *)
(***************************************************************************)
EXTENDS Integers, FiniteSets

CONSTANTS
  Run, Platform, Commit,
  Starts,    \* Starts[r]: the ways run r may be started
  Pinned,    \* the commits whose Dockerfile names its base by digest
  Passes,    \* Passes[c, p, b]: does commit c on base b pass its checks on p?
  MaxBase,   \* bound: how often the base image moves
  MaxBreaks, \* bound: steps that fail
  MaxReruns  \* bound: failed runs that are run again

(* `on` is the ref: a pull request, the default branch, or a version tag.  *)
(* `hub` is what `dockerhub` comes to: not asked for, credentials fetched, *)
(* not configured, or refused because the tag is not trusted.  The commit  *)
(* of a pull request is the merge GitHub tries out, which nobody pushes.   *)
Start == [on : {"pull_request", "branch", "tag"}, commit : Commit, push : BOOLEAN,
          hub : {"off", "on", "missing", "refused"}]

Image == [commit : Commit, base : 0..MaxBase, by : Run]
Index == [Platform -> Image]
NoIndex == [p \in {} |-> 0]
(* The real tags that move on, of one branch, one version and one pull     *)
(* request; a commit is its own tag, `sha`.                                *)
MovingTag == {"pr", "main", "version", "minor", "major", "latest"}
Tag == MovingTag \cup Commit
Registry == {"ghcr", "hub"}

ASSUME ContainerAssumption ==
  /\ Starts \in [Run -> SUBSET Start]
  /\ Passes \in [Commit \X Platform \X (0..MaxBase) -> BOOLEAN]
  /\ Commit \cap MovingTag = {} /\ Pinned \subseteq Commit
  /\ Platform # {} /\ MaxBase \in Nat /\ MaxBreaks \in Nat /\ MaxReruns \in Nat
  /\ \A r, s \in Run : \A a \in Starts[r], b \in Starts[s] :
       a.on = "pull_request" /\ a.commit = b.commit => b.on = "pull_request"

VARIABLES
  start,     \* start[r]: how r was started
  phase,     \* phase[r]: where r is; "build" as long as platform jobs run
  job,       \* job[r][p]: how far the job of platform p is
  loaded,    \* loaded[r][p]: the image that job built and loaded
  base,      \* the base image a FROM that names a tag resolves to now
  temp,      \* temp[<<c, p>>]: GHCR's temporary tag of commit c and platform p
  tag,       \* tag[<<registry, t>>]: the index under a real tag
  mover,     \* mover[<<registry, t>>]: the run that put it there
  made,      \* made[r]: the index r joined
  todo,      \* todo[r]: the tags it has yet to put it under
  digest,    \* digest[r]: what it read back as its digest
  readFrom,  \* readFrom[r]: the run that had moved the tag it read
  pushed,    \* <<registry, index>>: the registry holds it, tagged or not
  signed,    \* <<registry, index>>: there is a cosign signature
  sbom,      \* <<registry, index>>: there is an SBOM attestation
  provenance,  \* <<index, r, readFrom[r]>>: GitHub records that r, of
               \* its commit, is where the index comes from
  tested,    \* images that passed the checks of the job that built them
  breaks, reruns

vars == <<start, phase, job, loaded, base, temp, tag, mover, made, todo, digest, readFrom,
          pushed, signed, sbom, provenance, tested, breaks, reruns>>
tags == <<tag, mover, pushed>>
seen == <<digest, readFrom>>
claims == <<signed, sbom, provenance>>
published == <<tags, made, todo, seen, claims>>
bounds == <<breaks, reruns>>

Nothing == [x \in {} |-> 0]

Init ==
  /\ start \in {s \in [Run -> Start] : \A r \in Run : s[r] \in Starts[r]}
  /\ phase = [r \in Run |-> "build"]
  /\ job = [r \in Run |-> [p \in Platform |-> "build"]]
  /\ loaded = [r \in Run |-> Nothing]
  /\ base = 0 /\ temp = Nothing /\ tag = Nothing /\ mover = Nothing
  /\ made = [r \in Run |-> NoIndex] /\ todo = [r \in Run |-> {}]
  /\ digest = [r \in Run |-> NoIndex] /\ readFrom = [r \in Run |-> r]
  /\ pushed = {} /\ signed = {} /\ sbom = {} /\ provenance = {} /\ tested = {}
  /\ breaks = 0 /\ reruns = 0

With(f, x, v) == [y \in DOMAIN f \cup {x} |-> IF y = x THEN v ELSE f[y]]
Goto(r, next) == phase' = [phase EXCEPT ![r] = next]
JobGoto(r, p, next) == job' = [job EXCEPT ![r][p] = next]

(* Somebody publishes a new base image under the tag a Dockerfile names;   *)
(* where every Dockerfile pins its base nothing depends on it.             *)
MoveBase ==
  /\ \E r \in Run : start[r].commit \notin Pinned
  /\ base < MaxBase /\ base' = base + 1
  /\ UNCHANGED <<start, phase, job, loaded, temp, tested, published, bounds>>

-----------------------------------------------------------------------------
(* The build job of one platform.                                          *)
From(c) == IF c \in Pinned THEN 0 ELSE base
Built(r) == [commit |-> start[r].commit, base |-> From(start[r].commit), by |-> r]

BuildAndLoad(r, p) ==
  /\ phase[r] = "build" /\ job[r][p] = "build"
  /\ loaded' = [loaded EXCEPT ![r] = With(@, p, Built(r))]
  /\ JobGoto(r, p, "check")
  /\ UNCHANGED <<start, phase, base, temp, tested, published, bounds>>

(* Not root, the caller's test, the read-only probe, Trivy.                *)
AfterCheck_ReportOnly(ok) == "push"
AfterCheck(ok) == IF ok THEN "push" ELSE "failed"

Check(r, p) ==
  /\ phase[r] = "build" /\ job[r][p] = "check"
  /\ LET image == loaded[r][p]
         ok == Passes[<<image.commit, p, image.base>>]
     IN /\ tested' = IF ok THEN tested \cup {<<p, image>>} ELSE tested
        /\ JobGoto(r, p, AfterCheck(ok))
  /\ UNCHANGED <<start, phase, loaded, base, temp, published, bounds>>

(* A second build, from the layers of the first as long as its FROM still  *)
(* resolves to the same base, and straight to the registry.                *)
TempTag_ArchOnly(c, p) == <<CHOOSE d \in Commit : TRUE, p>>
TempTag(c, p) == <<c, p>>

PushTemporary(r, p) ==
  /\ phase[r] = "build" /\ job[r][p] = "push"
  /\ temp' = IF start[r].push THEN With(temp, TempTag(start[r].commit, p), Built(r)) ELSE temp
  /\ JobGoto(r, p, "done")
  /\ UNCHANGED <<start, phase, loaded, base, tested, published, bounds>>

-----------------------------------------------------------------------------
(* merge needs every platform's job, `push`, and no pull request.          *)
MayMerge_PullRequestToo(r) ==
  /\ \A p \in Platform : job[r][p] = "done"
  /\ start[r].push
MayMerge(r) ==
  /\ \A p \in Platform : job[r][p] = "done"
  /\ start[r].push /\ start[r].on # "pull_request"

Ended(r) == \A p \in Platform : job[r][p] \in {"done", "failed"}

(* Docker Hub was asked for and the tag is not trusted: nothing at all is  *)
(* published.  Without credentials GHCR is published alone.                *)
Merge(r) ==
  /\ phase[r] = "build" /\ Ended(r)
  /\ Goto(r, IF MayMerge(r) THEN IF start[r].hub = "refused" THEN "failed" ELSE "index"
             ELSE IF \E p \in Platform : job[r][p] = "failed" THEN "failed" ELSE "done")
  /\ UNCHANGED <<start, job, loaded, base, temp, tested, published, bounds>>

Registries(r) == {"ghcr"} \cup (IF start[r].hub = "on" THEN {"hub"} ELSE {})

(* The tags docker/metadata-action makes of the ref, and the first of them.*)
FirstTag(r) == CASE start[r].on = "tag" -> "version"
                 [] start[r].on = "branch" -> "main"
                 [] start[r].on = "pull_request" -> "pr"
RealTags(r) ==
  {FirstTag(r), start[r].commit}
    \cup (IF start[r].on = "pull_request" THEN {} ELSE {"latest"})
    \cup (IF start[r].on = "tag" THEN {"minor", "major"} ELSE {})

(* The index is made of what the temporary tags hold now.                  *)
Join_OneSource(r) == [p \in {CHOOSE q \in Platform : TRUE} |-> temp[TempTag(start[r].commit, p)]]
Join(r) == [p \in Platform |-> temp[TempTag(start[r].commit, p)]]

JoinIndex(r) ==
  /\ phase[r] = "index"
  /\ made' = [made EXCEPT ![r] = Join(r)]
  /\ todo' = [todo EXCEPT ![r] = Registries(r) \X RealTags(r)]
  /\ Goto(r, "create")
  /\ UNCHANGED <<start, job, loaded, base, temp, tags, seen, claims, tested, bounds>>

(* It is pushed to one tag after another, in no order; whoever else pushes *)
(* to some of them may come in between.                                    *)
MoveTag(r, x) ==
  /\ phase[r] = "create" /\ x \in todo[r]
  /\ tag' = With(tag, x, made[r]) /\ mover' = With(mover, x, r)
  /\ pushed' = pushed \cup {<<x[1], made[r]>>}
  /\ todo' = [todo EXCEPT ![r] = @ \ {x}]
  /\ Goto(r, IF todo[r] = {x} THEN "inspect" ELSE "create")
  /\ UNCHANGED <<start, job, loaded, base, temp, made, seen, claims, tested, bounds>>

(* The digest is whatever the first tag names by then.                     *)
Inspected(r) == <<"ghcr", FirstTag(r)>>
Inspect(r) ==
  /\ phase[r] = "inspect"
  /\ digest' = [digest EXCEPT ![r] = tag[Inspected(r)]]
  /\ readFrom' = [readFrom EXCEPT ![r] = mover[Inspected(r)]]
  /\ Goto(r, "sign")
  /\ UNCHANGED <<start, job, loaded, base, temp, tags, made, todo, claims, tested, bounds>>

(* The signature and the SBOM go to every registry the index went to, GHCR *)
(* first; a registry that does not hold that digest makes the step fail.   *)
Places_GhcrOnly(r) == {"ghcr"}
Places(r) == Registries(r)

Held(r) == {x \in Places(r) : <<x, digest[r]>> \in pushed}
Endorse(r, next) == Goto(r, IF Held(r) = Places(r) THEN next ELSE "failed")

SignImage(r) ==
  /\ phase[r] = "sign"
  /\ signed' = signed \cup (Held(r) \X {digest[r]})
  /\ Endorse(r, "sbom")
  /\ UNCHANGED <<start, job, loaded, base, temp, tags, made, todo, seen, sbom, provenance,
                 tested, bounds>>

AttachSbom(r) ==
  /\ phase[r] = "sbom"
  /\ sbom' = sbom \cup (Held(r) \X {digest[r]})
  /\ Endorse(r, "provenance")
  /\ UNCHANGED <<start, job, loaded, base, temp, tags, made, todo, seen, signed, provenance,
                 tested, bounds>>

RecordProvenance(r) ==
  /\ phase[r] = "provenance"
  /\ provenance' = provenance \cup {<<digest[r], r, readFrom[r]>>}
  /\ Goto(r, "done")
  /\ UNCHANGED <<start, job, loaded, base, temp, tags, made, todo, seen, signed, sbom,
                 tested, bounds>>

-----------------------------------------------------------------------------
(* A step fails: the platform's job ends, or merge does.                   *)
Break(r) ==
  /\ breaks < MaxBreaks /\ breaks' = breaks + 1
  /\ \/ /\ phase[r] = "build"
        /\ \E p \in Platform : job[r][p] \notin {"done", "failed"} /\ JobGoto(r, p, "failed")
        /\ UNCHANGED <<phase, todo>>
     \/ /\ phase[r] \notin {"build", "done", "failed"} /\ Goto(r, "failed")
        /\ todo' = [todo EXCEPT ![r] = {}] /\ UNCHANGED job
  /\ UNCHANGED <<start, loaded, base, temp, tested, tags, made, seen, claims, reruns>>

(* "Re-run failed jobs", or all of them.                                   *)
Rerun(r) ==
  /\ phase[r] = "failed" /\ reruns < MaxReruns /\ reruns' = reruns + 1
  /\ Goto(r, "build")
  /\ \E all \in BOOLEAN :
       job' = [job EXCEPT ![r] = [p \in Platform |->
                 IF all \/ job[r][p] = "failed" THEN "build" ELSE job[r][p]]]
  /\ UNCHANGED <<start, loaded, base, temp, tested, published, breaks>>

Next ==
  \/ MoveBase
  \/ \E r \in Run :
       \/ \E p \in Platform : BuildAndLoad(r, p) \/ Check(r, p) \/ PushTemporary(r, p)
       \/ Merge(r) \/ JoinIndex(r) \/ Inspect(r)
       \/ \E x \in Registry \X Tag : MoveTag(r, x)
       \/ SignImage(r) \/ AttachSbom(r) \/ RecordProvenance(r)
       \/ Break(r) \/ Rerun(r)

Spec == Init /\ [][Next]_vars

-----------------------------------------------------------------------------
TypeOK ==
  /\ start \in [Run -> Start]
  /\ phase \in [Run -> {"build", "index", "create", "inspect", "sign", "sbom",
                        "provenance", "done", "failed"}]
  /\ job \in [Run -> [Platform -> {"build", "check", "push", "done", "failed"}]]
  /\ DOMAIN loaded = Run
  /\ \A r \in Run : DOMAIN loaded[r] \subseteq Platform
                 /\ \A p \in DOMAIN loaded[r] : loaded[r][p] \in Image
  /\ base \in 0..MaxBase
  /\ DOMAIN temp \subseteq Commit \X Platform /\ \A x \in DOMAIN temp : temp[x] \in Image
  /\ DOMAIN tag \subseteq Registry \X Tag /\ \A x \in DOMAIN tag : tag[x] \in Index
  /\ DOMAIN mover = DOMAIN tag /\ \A x \in DOMAIN tag : mover[x] \in Run
  /\ todo \in [Run -> SUBSET (Registry \X Tag)]
  /\ readFrom \in [Run -> Run]
  /\ made \in [Run -> Index \cup {NoIndex}] /\ digest \in [Run -> Index \cup {NoIndex}]
  /\ pushed \subseteq Registry \X Index
  /\ signed \subseteq pushed /\ sbom \subseteq Registry \X Index
  /\ provenance \subseteq Index \X Run \X Run
  /\ tested \subseteq Platform \X Image
  /\ breaks \in 0..MaxBreaks /\ reruns \in 0..MaxReruns

(* An index under a real tag is of one commit, on every platform, though   *)
(* the temporary tags it is joined from belong to whoever wrote them last; *)
(* under the tag of a commit it is of that one.                            *)
OneCommitPerIndex ==
  \A x \in DOMAIN tag : \E c \in Commit :
    /\ \A p \in Platform : tag[x][p].commit = c
    /\ x[2] \in Commit => x[2] = c

(* Each image that ships was built again after its checks, but by a run    *)
(* and from a commit that passed them on that platform, on a base that is  *)
(* no newer, and on the very same one if the Dockerfile pins it.           *)
TestedApartFromBase ==
  \A x \in DOMAIN tag, p \in Platform :
    \E v \in tested : /\ v[1] = p
                      /\ v[2].commit = tag[x][p].commit /\ v[2].by = tag[x][p].by
                      /\ v[2].base <= tag[x][p].base
                      /\ tag[x][p].commit \in Pinned => v[2] = tag[x][p]

(* "build once, test it, scan it, then publish": the image that ships is   *)
(* the one that was tested.                                                *)
ShipsWhatWasTested ==
  \A x \in DOMAIN tag, p \in Platform : <<p, tag[x][p]>> \in tested

(* Provenance names the commit the index was built from; where the run had *)
(* read the digest from a tag that a rival, a run with the same first tag, *)
(* had moved, the index is of the rival's commit.  Nothing that a pull     *)
(* request built is signed or under a real tag.                            *)
OfRun(index, r) == \A p \in Platform : index[p].commit = start[r].commit
OfPullRequest(index) == \E p \in Platform : start[index[p].by].on = "pull_request"
ProvenanceIsTrue ==
  /\ \A v \in provenance : OfRun(v[1], v[3]) /\ FirstTag(v[2]) = FirstTag(v[3])
  /\ \A s \in signed : ~OfPullRequest(s[2])
  /\ \A x \in DOMAIN tag : ~OfPullRequest(tag[x])

(* Whatever a real tag names is signed and has its SBOM in that registry,  *)
(* and has its provenance, as soon as the run that put it there has ended  *)
(* well, however often it broke before and whoever moves the tags beside   *)
(* it; unless it read a rival's digest.                                    *)
ReleasedIsSigned ==
  \A x \in DOMAIN tag :
    LET r == mover[x] IN
    phase[r] = "done" /\ readFrom[r] = r =>
      /\ <<x[1], tag[x]>> \in signed \cap sbom
      /\ <<tag[x], r, r>> \in provenance

(* The comment above merge: it signs, attests and records provenance for   *)
(* the index it joined.                                                    *)
SignsTheIndexItMade ==
  \A r \in Run : phase[r] = "done" /\ made[r] # NoIndex =>
    digest[r] = made[r] /\ <<"ghcr", made[r]>> \in signed
=============================================================================
