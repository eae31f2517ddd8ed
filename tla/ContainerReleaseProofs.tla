------------------------ MODULE ContainerReleaseProofs ------------------------
(***************************************************************************)
(* What container-release.yml publishes, for every set of runs, platforms, *)
(* commits and checks and however often the base image moves, a step fails *)
(* or a run is run again.                                                  *)
(***************************************************************************)
EXTENDS ContainerRelease, TLAPS

(* The commit passed its checks on p in a job of the run `by`, on a base   *)
(* that is no newer than b, and on b itself if it pins its base.           *)
Passed(p, c, by, b) ==
  \E v \in tested : /\ v[1] = p /\ v[2].commit = c /\ v[2].by = by /\ v[2].base <= b
                    /\ c \in Pinned => v[2].base = b

(* An image of commit c for p that a run of that commit has tested.        *)
Good(image, p, c) ==
  /\ image \in Image /\ image.commit = c /\ start[image.by].commit = c
  /\ Passed(p, c, image.by, image.base)

(* An index that joins such images, for a run that is no pull request.     *)
Sound(index) ==
  /\ index \in Index
  /\ \E r \in Run : /\ start[r].on # "pull_request"
                    /\ \A p \in Platform : Good(index[p], p, start[r].commit)

(* The image that a job of r built is of its commit and of a base r had.   *)
Fresh(image, r) ==
  /\ image.commit = start[r].commit /\ image.by = r /\ image.base <= From(start[r].commit)
  /\ start[r].commit \in Pinned => image.base = From(start[r].commit)

Honest(r, p) ==
  /\ job[r][p] = "check" => p \in DOMAIN loaded[r] /\ Fresh(loaded[r][p], r)
  /\ job[r][p] \in {"push", "done"} => Passed(p, start[r].commit, r, From(start[r].commit))
  /\ job[r][p] = "done" /\ start[r].push => <<start[r].commit, p>> \in DOMAIN temp
JobsAreHonest == \A r \in Run, p \in Platform : Honest(r, p)

AtMerge == {"index", "create", "inspect", "sign", "sbom", "provenance"}
Endorsing == {"sign", "sbom", "provenance"}

Due(r) ==
  /\ phase[r] \in AtMerge => MayMerge(r)
  /\ todo[r] \subseteq Registries(r) \X RealTags(r)
  /\ phase[r] = "create" =>
       Sound(made[r]) /\ OfRun(made[r], r) /\ Inspected(r) \in DOMAIN tag \cup todo[r]
  /\ phase[r] = "inspect" => Inspected(r) \in DOMAIN tag
  /\ phase[r] \in Endorsing => Sound(digest[r])
MergesAreDue == \A r \in Run : Due(r)

(* What the registries hold, under the temporary tags and the real ones.   *)
RegistriesAreSound ==
  /\ \A c \in Commit, p \in Platform :
       <<c, p>> \in DOMAIN temp => Good(temp[<<c, p>>], p, c)
  /\ \A x \in DOMAIN tag : Sound(tag[x])
  /\ \A y \in pushed : Sound(y[2])

Founded ==
  /\ TypeOK /\ \A r \in Run : start[r] \in Starts[r]
  /\ JobsAreHonest /\ MergesAreDue /\ RegistriesAreSound

-----------------------------------------------------------------------------
(* A real tag names an index of the run that moved it last, which may.     *)
Publishes(r) == start[r].push /\ start[r].on # "pull_request"
TagsAreOwned ==
  \A x \in DOMAIN tag :
    /\ Publishes(mover[x]) /\ OfRun(tag[x], mover[x])
    /\ x \in Registries(mover[x]) \X RealTags(mover[x])

(* What r read is of the run that had moved the tag, which is r or a rival.*)
Owned(index, r, from) == OfRun(index, from) /\ FirstTag(r) = FirstTag(from)
ReadingsAreOwned ==
  /\ \A r \in Run : phase[r] \in Endorsing => Owned(digest[r], r, readFrom[r])
  /\ \A v \in provenance : Owned(v[1], v[2], v[3])

(* How far r has come with the index it made: which tags that it was the   *)
(* last to move name it, and what is said of the digest r read.            *)
Pushed(r) ==
  /\ phase[r] \in {"create", "inspect", "done"} \cup Endorsing =>
       \A x \in DOMAIN tag : mover[x] = r /\ x \notin todo[r] => tag[x] = made[r]
  /\ phase[r] \in {"inspect", "done"} \cup Endorsing => todo[r] = {}
Told(r) ==
  /\ phase[r] \in {"done"} \cup Endorsing =>
       (readFrom[r] = r => digest[r] = made[r])
  /\ phase[r] \in {"sbom", "provenance", "done"} =>
       \A y \in Registries(r) : <<y, digest[r]>> \in signed
  /\ phase[r] \in {"provenance", "done"} => \A y \in Registries(r) : <<y, digest[r]>> \in sbom
  /\ phase[r] = "done" => <<digest[r], r, readFrom[r]>> \in provenance
WorkIsAnswered == \A r \in Run : Publishes(r) => Pushed(r) /\ Told(r)

-----------------------------------------------------------------------------
(* A step that is not one of a platform's job.                             *)
MergeStep(r) ==
  \/ Merge(r) \/ JoinIndex(r) \/ Inspect(r)
  \/ \E x \in Registry \X Tag : MoveTag(r, x)
  \/ SignImage(r) \/ AttachSbom(r) \/ RecordProvenance(r)
  \/ Break(r) \/ Rerun(r)

USE DEF published, tags, seen, claims, bounds

(* What was tested stays tested, and no run is started another way.        *)
LEMMA Lasting ==
  ASSUME start' = start, tested \subseteq tested'
  PROVE  /\ \A p, c, by, b : Passed(p, c, by, b) => Passed(p, c, by, b)'
         /\ \A image, p, c : Good(image, p, c) => Good(image, p, c)'
         /\ \A index : Sound(index) => Sound(index)'
<1>1. \A p, c, by, b : Passed(p, c, by, b) => Passed(p, c, by, b)'
  BY DEF Passed
<1>2. \A image, p, c : Good(image, p, c) => Good(image, p, c)'
  BY <1>1 DEF Good
<1>3. \A index : Sound(index) => Sound(index)'
  BY <1>2 DEF Sound
<1> QED
  BY <1>1, <1>2, <1>3

LEMMA NewerBase ==
  ASSUME TypeOK, NEW p, NEW c, NEW by, NEW a \in Int, NEW b \in Int, a <= b,
         Passed(p, c, by, a), c \in Pinned => a = b
  PROVE  Passed(p, c, by, b)
<1>1. PICK v \in tested : /\ v[1] = p /\ v[2].commit = c /\ v[2].by = by /\ v[2].base <= a
                          /\ c \in Pinned => v[2].base = a
  BY DEF Passed
<1>2. v[2].base \in Int
  BY ContainerAssumption DEF TypeOK, Image, ContainerAssumption
<1>3. v[2].base <= b
  BY <1>1, <1>2
<1> QED
  BY <1>1, <1>3 DEF Passed

(* What a run that may merge joins is sound and of its own commit.         *)
LEMMA JoinIsSound ==
  ASSUME Founded, NEW r \in Run, phase[r] = "index"
  PROVE  Sound(Join(r)) /\ OfRun(Join(r), r)
<1>1. start[r].commit \in Commit /\ start[r].on # "pull_request" /\ start[r].push
  BY DEF Founded, TypeOK, Start, MergesAreDue, Due, MayMerge, AtMerge
<1>2. \A p \in Platform : Good(Join(r)[p], p, start[r].commit)
  <2> SUFFICES ASSUME NEW p \in Platform PROVE Good(Join(r)[p], p, start[r].commit)
    OBVIOUS
  <2>1. job[r][p] = "done"
    BY DEF Founded, MergesAreDue, Due, MayMerge, AtMerge
  <2>2. <<start[r].commit, p>> \in DOMAIN temp
    BY <1>1, <2>1 DEF Founded, JobsAreHonest, Honest
  <2> QED
    BY <1>1, <2>2 DEF Founded, RegistriesAreSound, Join, TempTag
<1>3. Join(r) \in Index
  <2>1. \A p \in Platform : temp[TempTag(start[r].commit, p)] \in Image
    BY <1>2 DEF Good, Join
  <2> QED
    BY <2>1 DEF Join, Index
<1> QED
  BY <1>1, <1>2, <1>3 DEF Sound, OfRun, Good

(* No image in a sound index was built for a pull request.                 *)
LEMMA SoundIsNoPullRequest ==
  ASSUME Founded, NEW index, Sound(index), NEW p \in Platform
  PROVE  start[index[p].by].on # "pull_request"
<1>1. PICK r \in Run : /\ start[r].on # "pull_request"
                       /\ Good(index[p], p, start[r].commit)
  BY DEF Sound
<1> DEFINE s == index[p].by
<1>2. s \in Run /\ start[s].commit = start[r].commit
  BY <1>1 DEF Good, Image
<1>3. start[r] \in Starts[r] /\ start[s] \in Starts[s]
  BY <1>2 DEF Founded
<1> HIDE DEF s
<1>4. start[s].on = "pull_request" => start[r].on = "pull_request"
  BY <1>2, <1>3, ContainerAssumption DEF ContainerAssumption
<1> QED
  BY <1>1, <1>4 DEF s
-----------------------------------------------------------------------------
LEMMA BuiltIsAnImage ==
  ASSUME TypeOK, NEW r \in Run
  PROVE  Built(r) \in Image
<1>1. From(start[r].commit) \in 0..MaxBase
  BY ContainerAssumption DEF TypeOK, From, ContainerAssumption
<1> QED
  BY <1>1 DEF TypeOK, Built, Image, Start

LEMMA InitTyping == Init => TypeOK
<1> SUFFICES ASSUME Init PROVE TypeOK
  OBVIOUS
<1>1. start \in [Run -> Start]
  BY DEF Init
<1>2. DOMAIN Nothing = {} /\ 0 \in 0..MaxBase /\ 0 \in 0..MaxBreaks /\ 0 \in 0..MaxReruns
  BY ContainerAssumption DEF Nothing, ContainerAssumption
<1> QED
  BY <1>1, <1>2 DEF Init, TypeOK

(* The steps of a platform's job, and those that only move runs.           *)
LEMMA JobTyping ==
  ASSUME TypeOK, NEW r \in Run,
         \E p \in Platform : BuildAndLoad(r, p) \/ PushTemporary(r, p)
  PROVE  TypeOK'
<1>0. Built(r) \in Image
  BY BuiltIsAnImage
<1>1. ASSUME NEW p \in Platform, BuildAndLoad(r, p) PROVE TypeOK'
  <2>1. job' \in [Run -> [Platform -> {"build", "check", "push", "done", "failed"}]]
    BY <1>1 DEF TypeOK, BuildAndLoad, JobGoto
  <2>2. \A s \in Run : /\ DOMAIN loaded'[s] \subseteq Platform
                       /\ \A q \in DOMAIN loaded'[s] : loaded'[s][q] \in Image
    <3> SUFFICES ASSUME NEW s \in Run
                 PROVE  /\ DOMAIN loaded'[s] \subseteq Platform
                        /\ \A q \in DOMAIN loaded'[s] : loaded'[s][q] \in Image
      OBVIOUS
    <3>1. \/ loaded'[s] = loaded[s]
          \/ s = r /\ loaded'[s] = With(loaded[s], p, Built(r))
      BY <1>1 DEF BuildAndLoad
    <3> QED
      BY <1>0, <3>1 DEF TypeOK, With
  <2> QED
    BY <1>1, <2>1, <2>2 DEF TypeOK, BuildAndLoad
<1>2. ASSUME NEW p \in Platform, PushTemporary(r, p) PROVE TypeOK'
  <2>1. job' \in [Run -> [Platform -> {"build", "check", "push", "done", "failed"}]]
    BY <1>2 DEF TypeOK, PushTemporary, JobGoto
  <2>2. <<start[r].commit, p>> \in Commit \X Platform
    BY DEF TypeOK, Start
  <2>3. /\ DOMAIN temp' \subseteq Commit \X Platform
        /\ \A x \in DOMAIN temp' : temp'[x] \in Image
    BY <1>0, <1>2, <2>2 DEF TypeOK, PushTemporary, With, TempTag
  <2> QED
    BY <1>2, <2>1, <2>3 DEF TypeOK, PushTemporary
<1> QED
  BY <1>1, <1>2

LEMMA CheckTyping ==
  ASSUME Founded, NEW r \in Run, NEW p \in Platform, Check(r, p)
  PROVE  TypeOK'
<1>1. p \in DOMAIN loaded[r]
  BY DEF Founded, JobsAreHonest, Honest, Check
<1>2. loaded[r][p] \in Image
  BY <1>1 DEF Founded, TypeOK
<1>3. tested' \subseteq Platform \X Image
  BY <1>2 DEF Founded, TypeOK, Check
<1>4. job' \in [Run -> [Platform -> {"build", "check", "push", "done", "failed"}]]
  BY DEF Founded, TypeOK, Check, AfterCheck, JobGoto
<1> QED
  BY <1>3, <1>4 DEF Founded, TypeOK, Check

LEMMA IndexTyping ==
  ASSUME Founded, NEW r \in Run,
         JoinIndex(r) \/ (\E x \in Registry \X Tag : MoveTag(r, x)) \/ Inspect(r)
  PROVE  TypeOK'
<1> DEFINE Phase == {"build", "index", "create", "inspect", "sign", "sbom", "provenance",
                     "done", "failed"}
<1>0. TypeOK /\ start[r].commit \in Commit /\ Registries(r) \subseteq Registry
  BY DEF Founded, TypeOK, Start, Registries, Registry
<1>1. phase' \in [Run -> Phase]
  BY <1>0 DEF TypeOK, Goto, JoinIndex, MoveTag, Inspect
<1> HIDE DEF Phase
<1>2. CASE JoinIndex(r)
  <2>1. Join(r) \in Index
    BY <1>2, JoinIsSound DEF JoinIndex, Sound
  <2>2. RealTags(r) \subseteq Tag
    <3>1. start[r].on \in {"pull_request", "branch", "tag"}
      BY <1>0 DEF TypeOK, Start
    <3> QED
      BY <1>0, <3>1 DEF RealTags, FirstTag, Tag, MovingTag
  <2>3. todo' \in [Run -> SUBSET (Registry \X Tag)]
    BY <1>0, <1>2, <2>2 DEF TypeOK, JoinIndex
  <2>4. made' \in [Run -> Index \cup {NoIndex}]
    BY <1>0, <1>2, <2>1 DEF TypeOK, JoinIndex
  <2> QED
    BY <1>0, <1>1, <1>2, <2>3, <2>4 DEF TypeOK, JoinIndex, Phase
<1>3. ASSUME NEW x \in Registry \X Tag, MoveTag(r, x) PROVE TypeOK'
  <2>1. made[r] \in Index
    BY <1>3 DEF Founded, MergesAreDue, Due, MoveTag, Sound
  <2>2. /\ DOMAIN tag' \subseteq Registry \X Tag /\ \A y \in DOMAIN tag' : tag'[y] \in Index
        /\ DOMAIN mover' = DOMAIN tag' /\ \A y \in DOMAIN tag' : mover'[y] \in Run
    BY <1>0, <1>3, <2>1 DEF TypeOK, MoveTag, With
  <2>3. pushed' \subseteq Registry \X Index /\ pushed \subseteq pushed'
    BY <1>0, <1>3, <2>1 DEF TypeOK, MoveTag
  <2>4. todo' \in [Run -> SUBSET (Registry \X Tag)]
    BY <1>0, <1>3 DEF TypeOK, MoveTag
  <2> QED
    BY <1>0, <1>1, <1>3, <2>2, <2>3, <2>4 DEF TypeOK, MoveTag, Phase
<1>4. CASE Inspect(r)
  <2>1. Inspected(r) \in DOMAIN tag
    BY <1>4 DEF Founded, MergesAreDue, Due, Inspect
  <2>2. digest' \in [Run -> Index \cup {NoIndex}] /\ readFrom' \in [Run -> Run]
    BY <1>0, <1>4, <2>1 DEF TypeOK, Inspect
  <2> QED
    BY <1>0, <1>1, <1>4, <2>2 DEF TypeOK, Inspect, Phase
<1> QED
  BY <1>2, <1>3, <1>4

LEMMA EndorseTyping ==
  ASSUME Founded, NEW r \in Run, SignImage(r) \/ AttachSbom(r) \/ RecordProvenance(r)
  PROVE  TypeOK'
<1> DEFINE Phase == {"build", "index", "create", "inspect", "sign", "sbom", "provenance",
                     "done", "failed"}
<1>0. TypeOK /\ Registries(r) \subseteq Registry
  BY DEF Founded, TypeOK, Registries, Registry
<1>1. phase' \in [Run -> Phase]
  BY <1>0 DEF TypeOK, Goto, Endorse, SignImage, AttachSbom, RecordProvenance
<1> HIDE DEF Phase
<1>2. digest[r] \in Index
  BY DEF Founded, MergesAreDue, Due, Endorsing, Sound, SignImage, AttachSbom, RecordProvenance
<1>3. \A x \in Held(r) : <<x, digest[r]>> \in pushed
  BY DEF Held
<1>4. signed' \subseteq pushed
  BY <1>0, <1>3 DEF TypeOK, SignImage, AttachSbom, RecordProvenance
<1>5. sbom' \subseteq Registry \X Index
  BY <1>0, <1>2, <1>3 DEF TypeOK, SignImage, AttachSbom, RecordProvenance
<1>6. provenance' \subseteq Index \X Run \X Run
  BY <1>0, <1>2 DEF TypeOK, SignImage, AttachSbom, RecordProvenance
<1>7. UNCHANGED <<start, job, loaded, base, temp, tags, made, todo, seen, tested, bounds>>
  BY DEF SignImage, AttachSbom, RecordProvenance
<1> QED
  BY <1>0, <1>1, <1>4, <1>5, <1>6, <1>7 DEF TypeOK, Phase

LEMMA MoveTyping ==
  ASSUME TypeOK, MoveBase \/ \E r \in Run : Merge(r) \/ Break(r) \/ Rerun(r)
  PROVE  TypeOK'
<1>0. MaxBase \in Nat /\ MaxBreaks \in Nat /\ MaxReruns \in Nat
  BY ContainerAssumption DEF ContainerAssumption
<1>1. CASE MoveBase
  <2>1. base' \in 0..MaxBase
    BY <1>0, <1>1 DEF TypeOK, MoveBase
  <2> QED
    BY <1>1, <2>1 DEF TypeOK, MoveBase
<1>2. ASSUME NEW r \in Run, Merge(r) PROVE TypeOK'
  <2>1. PICK next \in {"index", "failed", "done"} : Goto(r, next)
    BY <1>2 DEF Merge
  <2> QED
    BY <1>2, <2>1 DEF TypeOK, Merge, Goto
<1>3. ASSUME NEW r \in Run, Break(r) PROVE TypeOK'
  <2>1. breaks' \in 0..MaxBreaks
    BY <1>0, <1>3 DEF TypeOK, Break
  <2>2. job' \in [Run -> [Platform -> {"build", "check", "push", "done", "failed"}]]
    <3>1. CASE job' = job
      BY <3>1 DEF TypeOK
    <3>2. ASSUME NEW p \in Platform, JobGoto(r, p, "failed")
          PROVE  job' \in [Run -> [Platform -> {"build", "check", "push", "done", "failed"}]]
      BY <3>2 DEF TypeOK, JobGoto
    <3> QED
      BY <1>3, <3>1, <3>2 DEF Break
  <2>3. phase' \in [Run -> {"build", "index", "create", "inspect", "sign", "sbom",
                           "provenance", "done", "failed"}]
    BY <1>3 DEF TypeOK, Break, Goto
  <2>4. todo' \in [Run -> SUBSET (Registry \X Tag)]
    BY <1>3 DEF TypeOK, Break
  <2> QED
    BY <1>3, <2>1, <2>2, <2>3, <2>4 DEF TypeOK, Break
<1>4. ASSUME NEW r \in Run, Rerun(r) PROVE TypeOK'
  <2>1. reruns' \in 0..MaxReruns
    BY <1>0, <1>4 DEF TypeOK, Rerun
  <2>2. job' \in [Run -> [Platform -> {"build", "check", "push", "done", "failed"}]]
    BY <1>4 DEF TypeOK, Rerun
  <2> QED
    BY <1>4, <2>1, <2>2 DEF TypeOK, Rerun, Goto
<1> QED
  BY <1>1, <1>2, <1>3, <1>4

LEMMA NextTyping ==
  ASSUME Founded, [Next]_vars
  PROVE  TypeOK'
<1>1. TypeOK
  BY DEF Founded
<1>2. CASE UNCHANGED vars
  BY <1>1, <1>2 DEF vars, TypeOK
<1> QED
  BY <1>1, <1>2, JobTyping, CheckTyping, IndexTyping, EndorseTyping, MoveTyping DEF Next
-----------------------------------------------------------------------------
(* What no step takes back.                                                *)
LEMMA StepKeeps ==
  ASSUME TypeOK, [Next]_vars
  PROVE  /\ start' = start /\ tested \subseteq tested'
         /\ DOMAIN temp \subseteq DOMAIN temp' /\ DOMAIN tag \subseteq DOMAIN tag'
         /\ signed \subseteq signed' /\ sbom \subseteq sbom' /\ provenance \subseteq provenance'
         /\ \A c : /\ From(c) \in Int /\ From(c)' \in Int /\ From(c) <= From(c)'
                   /\ c \in Pinned => From(c)' = From(c)
<1>1. base \in Int
  BY ContainerAssumption DEF TypeOK, ContainerAssumption
<1>2. CASE UNCHANGED vars
  BY <1>1, <1>2 DEF vars, From
<1>3. CASE MoveBase
  BY <1>1, <1>3 DEF MoveBase, From
<1>4. ASSUME NEW r \in Run, NEW p \in Platform,
             BuildAndLoad(r, p) \/ Check(r, p) \/ PushTemporary(r, p)
      PROVE  /\ start' = start /\ tested \subseteq tested' /\ base' = base
             /\ DOMAIN temp \subseteq DOMAIN temp' /\ UNCHANGED <<tags, claims>>
  BY <1>4 DEF BuildAndLoad, Check, PushTemporary, With
<1>5. ASSUME NEW r \in Run, MergeStep(r)
      PROVE  /\ UNCHANGED <<start, tested, base, temp>> /\ DOMAIN tag \subseteq DOMAIN tag'
             /\ signed \subseteq signed' /\ sbom \subseteq sbom' /\ provenance \subseteq provenance'
  BY <1>5 DEF MergeStep, Merge, JoinIndex, MoveTag, Inspect, SignImage, AttachSbom,
              RecordProvenance, Break, Rerun, With
<1>6. base' = base => \A c : From(c)' = From(c) /\ From(c) \in Int
  BY <1>1 DEF From
<1> QED
  BY <1>1, <1>2, <1>3, <1>4, <1>5, <1>6 DEF Next, MergeStep

(* The tags a run may write stay what they are.                            *)
LEMMA SameTags ==
  ASSUME start' = start
  PROVE  \A r : /\ FirstTag(r)' = FirstTag(r) /\ Inspected(r)' = Inspected(r)
               /\ Registries(r)' = Registries(r) /\ RealTags(r)' = RealTags(r)
<1>1. \A r : FirstTag(r)' = FirstTag(r)
  BY DEF FirstTag
<1> QED
  BY <1>1 DEF Inspected, Registries, RealTags

(* A job that a step leaves alone is as honest as it was.                  *)
LEMMA HonestKept ==
  ASSUME Founded, TypeOK', [Next]_vars, NEW s \in Run, NEW q \in Platform,
         job'[s][q] = job[s][q],
         job[s][q] = "check" /\ q \in DOMAIN loaded[s] =>
           q \in DOMAIN loaded'[s] /\ loaded'[s][q] = loaded[s][q]
  PROVE  Honest(s, q)'
<1>0. TypeOK /\ Honest(s, q)
  BY DEF Founded, JobsAreHonest
<1> DEFINE c == start[s].commit
<1>1. /\ start' = start /\ tested \subseteq tested' /\ DOMAIN temp \subseteq DOMAIN temp'
      /\ From(c) \in Int /\ From(c)' \in Int /\ From(c) <= From(c)'
      /\ c \in Pinned => From(c)' = From(c)
  BY <1>0, StepKeeps
<1>2. PICK a, b : a = From(c) /\ b = From(c)'
  OBVIOUS
<1>3. ASSUME job[s][q] = "check" PROVE q \in DOMAIN loaded'[s] /\ Fresh(loaded[s][q], s)'
  <2>1. q \in DOMAIN loaded[s] /\ Fresh(loaded[s][q], s)
    BY <1>0, <1>3 DEF Honest
  <2>2. loaded[s][q].base \in Int
    BY <1>0, <2>1, ContainerAssumption DEF TypeOK, Image, ContainerAssumption
  <2>3. q \in DOMAIN loaded'[s] /\ loaded'[s][q] = loaded[s][q]
    BY <1>3, <2>1
  <2>4. loaded[s][q].base <= b /\ (c \in Pinned => loaded[s][q].base = b)
    BY <1>1, <1>2, <2>1, <2>2 DEF Fresh
  <2>5. loaded[s][q].commit = c /\ loaded[s][q].by = s
    BY <2>1 DEF Fresh
  <2> QED
    BY <1>1, <1>2, <2>3, <2>4, <2>5 DEF Fresh
<1>4. ASSUME job[s][q] \in {"push", "done"} PROVE Passed(q, start[s].commit, s, From(start[s].commit))'
  <2>1. Passed(q, c, s, a)
    BY <1>0, <1>2, <1>4 DEF Honest
  <2>2. Passed(q, c, s, b)
    BY <1>0, <1>1, <1>2, <2>1, NewerBase
  <2>3. c' = c /\ From(start[s].commit)' = b
    BY <1>1, <1>2
  <2> QED
    BY <1>1, <2>2, <2>3 DEF Passed
<1> QED
  BY <1>0, <1>1, <1>3, <1>4 DEF Honest

LEMMA NextHonest ==
  ASSUME Founded, TypeOK', [Next]_vars
  PROVE  JobsAreHonest'
<1>0. TypeOK
  BY DEF Founded
<1> SUFFICES ASSUME NEW s \in Run, NEW q \in Platform PROVE Honest(s, q)'
  BY DEF JobsAreHonest
<1>1. ASSUME job'[s][q] \in {"build", "failed"} PROVE Honest(s, q)'
  BY <1>1 DEF Honest
<1>2. CASE UNCHANGED <<job, loaded>>
  BY <1>2, HonestKept
<1>3. ASSUME NEW r \in Run, NEW p \in Platform, BuildAndLoad(r, p) PROVE Honest(s, q)'
  <2>1. CASE s = r /\ q = p
    <3>1. job'[s][q] = "check"
      BY <1>0, <1>3, <2>1 DEF BuildAndLoad, JobGoto, TypeOK
    <3>2. loaded'[s] = With(loaded[s], q, Built(s))
      <4>1. loaded' = [loaded EXCEPT ![s] = With(@, q, Built(s))]
        BY <1>3, <2>1 DEF BuildAndLoad
      <4>2. s \in DOMAIN loaded
        BY <1>0, <1>3, <2>1 DEF BuildAndLoad, TypeOK
      <4> QED
        BY <4>1, <4>2
    <3>3. q \in DOMAIN loaded'[s] /\ loaded'[s][q] = Built(s)
      BY <3>2 DEF With
    <3>4. start' = start /\ \A c : From(c)' = From(c) /\ From(c) \in Int
      BY <1>0, <1>3, StepKeeps DEF BuildAndLoad, From
    <3>5. Fresh(Built(s), s)'
      BY <3>4 DEF Fresh, Built
    <3>6. Built(s)' = Built(s)
      BY <3>4 DEF Built
    <3> QED
      BY <3>1, <3>3, <3>5, <3>6 DEF Honest, Fresh
  <2>2. CASE ~(s = r /\ q = p)
    <3>1. job'[s][q] = job[s][q]
      BY <1>0, <1>3, <2>2 DEF BuildAndLoad, JobGoto, TypeOK
    <3>2. q \in DOMAIN loaded[s] => q \in DOMAIN loaded'[s] /\ loaded'[s][q] = loaded[s][q]
      BY <1>3, <2>2 DEF BuildAndLoad, With
    <3> QED
      BY <3>1, <3>2, HonestKept
  <2> QED
    BY <2>1, <2>2
<1>4. ASSUME NEW r \in Run, NEW p \in Platform, Check(r, p) PROVE Honest(s, q)'
  <2>1. loaded' = loaded /\ base' = base /\ start' = start
    BY <1>4 DEF Check
  <2>2. CASE s = r /\ q = p
    <3>1. q \in DOMAIN loaded[s] /\ Fresh(loaded[s][q], s)
      BY <1>4, <2>2 DEF Check, Founded, JobsAreHonest, Honest
    <3> DEFINE image == loaded[s][q]
               ok == Passes[<<image.commit, q, image.base>>]
    <3>2. job'[s][q] = AfterCheck(ok) /\ (ok => <<q, image>> \in tested')
      BY <1>0, <1>4, <2>2 DEF Check, JobGoto, TypeOK
    <3>3. CASE ok
      <4>1. <<q, image>>[1] = q /\ <<q, image>>[2] = image
        OBVIOUS
      <4>2. Passed(q, start[s].commit, s, From(start[s].commit))'
        BY <2>1, <3>1, <3>2, <3>3, <4>1 DEF Passed, Fresh, From
      <4> QED
        BY <2>1, <3>2, <3>3, <4>2 DEF Honest, AfterCheck
    <3>4. CASE ~ok
      BY <1>1, <3>2, <3>4 DEF AfterCheck
    <3> QED
      BY <3>3, <3>4
  <2>3. CASE ~(s = r /\ q = p)
    <3>1. job'[s][q] = job[s][q]
      BY <1>0, <1>4, <2>3 DEF Check, JobGoto, TypeOK
    <3> QED
      BY <2>1, <3>1, HonestKept
  <2> QED
    BY <2>2, <2>3
<1>5. ASSUME NEW r \in Run, NEW p \in Platform, PushTemporary(r, p) PROVE Honest(s, q)'
  <2>1. loaded' = loaded /\ base' = base /\ start' = start /\ tested' = tested
    BY <1>5 DEF PushTemporary
  <2>2. CASE s = r /\ q = p
    <3>1. job[s][q] = "push" /\ job'[s][q] = "done"
      BY <1>0, <1>5, <2>2 DEF PushTemporary, JobGoto, TypeOK
    <3>2. Passed(q, start[s].commit, s, From(start[s].commit))
      BY <3>1 DEF Founded, JobsAreHonest, Honest
    <3>3. Passed(q, start[s].commit, s, From(start[s].commit))'
      BY <2>1, <3>2 DEF Passed, From
    <3>4. start[s].push => <<start[s].commit, q>> \in DOMAIN temp'
      BY <1>5, <2>2 DEF PushTemporary, With, TempTag
    <3> QED
      BY <2>1, <3>1, <3>3, <3>4 DEF Honest
  <2>3. CASE ~(s = r /\ q = p)
    <3>1. job'[s][q] = job[s][q]
      BY <1>0, <1>5, <2>3 DEF PushTemporary, JobGoto, TypeOK
    <3> QED
      BY <2>1, <3>1, HonestKept
  <2> QED
    BY <2>2, <2>3
<1>6. ASSUME NEW r \in Run, Break(r) \/ Rerun(r) PROVE Honest(s, q)'
  <2>1. loaded' = loaded
    BY <1>6 DEF Break, Rerun
  <2>2. job'[s][q] \in {job[s][q], "build", "failed"}
    <3>1. CASE Rerun(r)
      BY <1>0, <3>1 DEF Rerun, TypeOK
    <3>2. CASE Break(r)
      <4>1. CASE job' = job
        BY <4>1
      <4>2. ASSUME NEW p \in Platform, JobGoto(r, p, "failed")
            PROVE  job'[s][q] \in {job[s][q], "build", "failed"}
        BY <1>0, <4>2 DEF JobGoto, TypeOK
      <4> QED
        BY <3>2, <4>1, <4>2 DEF Break
    <3> QED
      BY <1>6, <3>1, <3>2
  <2> QED
    BY <1>1, <2>1, <2>2, HonestKept
<1>7. ASSUME NEW r \in Run, MergeStep(r), ~Break(r), ~Rerun(r)
      PROVE  UNCHANGED <<job, loaded>>
  BY <1>7 DEF MergeStep, Merge, JoinIndex, MoveTag, Inspect, SignImage, AttachSbom,
              RecordProvenance
<1>8. CASE UNCHANGED vars \/ MoveBase
  BY <1>2, <1>8 DEF vars, MoveBase
<1> QED
  BY <1>2, <1>3, <1>4, <1>5, <1>6, <1>7, <1>8 DEF Next, MergeStep
-----------------------------------------------------------------------------
LEMMA FirstTagIsReal ==
  ASSUME NEW r \in Run
  PROVE  Inspected(r) \in Registries(r) \X RealTags(r)
BY DEF Inspected, Registries, RealTags

(* Who writes a real tag.                                                  *)
LEMMA TagsMove ==
  ASSUME [Next]_vars
  PROVE  UNCHANGED tags \/ \E r \in Run, x \in Registry \X Tag : MoveTag(r, x)
<1>1. ASSUME NEW r \in Run,
             \/ \E p \in Platform : BuildAndLoad(r, p) \/ Check(r, p) \/ PushTemporary(r, p)
             \/ Merge(r) \/ JoinIndex(r) \/ Inspect(r)
             \/ SignImage(r) \/ AttachSbom(r) \/ RecordProvenance(r)
             \/ Break(r) \/ Rerun(r)
      PROVE  UNCHANGED tags
  BY <1>1 DEF BuildAndLoad, Check, PushTemporary, Merge, JoinIndex, Inspect, SignImage,
              AttachSbom, RecordProvenance, Break, Rerun
<1>2. CASE MoveBase \/ UNCHANGED vars
  BY <1>2 DEF MoveBase, vars
<1> QED
  BY <1>1, <1>2, Zenon DEF Next

(* The temporary tag that a job writes names what its run has tested.      *)
LEMMA NextTemporary ==
  ASSUME Founded, JobsAreHonest', [Next]_vars, NEW c \in Commit, NEW p \in Platform,
         NEW image, <<c, p>> \in DOMAIN temp', image = temp'[<<c, p>>]
  PROVE  Good(image, p, c)'
<1>0. TypeOK /\ start' = start /\ tested \subseteq tested'
  BY StepKeeps DEF Founded
<1>1. CASE <<c, p>> \in DOMAIN temp /\ image = temp[<<c, p>>]
  <2>1. Good(image, p, c)
    BY <1>1 DEF Founded, RegistriesAreSound
  <2> QED
    BY <1>0, <2>1, Lasting
<1>2. ASSUME NEW r \in Run, NEW q \in Platform, PushTemporary(r, q),
             ~(<<c, p>> \in DOMAIN temp /\ image = temp[<<c, p>>])
      PROVE  Good(image, p, c)'
  <2>1. c = start[r].commit /\ p = q /\ image = Built(r)
    BY <1>2 DEF PushTemporary, With, TempTag
  <2>2. job'[r][q] = "done" /\ base' = base
    BY <1>0, <1>2 DEF PushTemporary, JobGoto, TypeOK
  <2>3. Passed(q, start[r].commit, r, From(start[r].commit))'
    BY <2>2 DEF JobsAreHonest, Honest
  <2>4. /\ image \in Image /\ image.commit = c /\ image.by = r /\ image.base = From(c)
    BY <1>0, <2>1, BuiltIsAnImage DEF Built
  <2>5. Passed(p, c, image.by, image.base)'
    BY <1>0, <2>1, <2>2, <2>3, <2>4 DEF Passed, From
  <2> QED
    BY <1>0, <2>1, <2>4, <2>5 DEF Good
<1>3. CASE temp' = temp
  BY <1>1, <1>3
<1>4. temp' = temp \/ \E r \in Run, q \in Platform : PushTemporary(r, q)
  BY DEF Next, vars, MoveBase, BuildAndLoad, Check, Merge, JoinIndex, MoveTag, Inspect,
         SignImage, AttachSbom, RecordProvenance, Break, Rerun
<1> QED
  BY <1>1, <1>2, <1>3, <1>4

LEMMA NextRegistries ==
  ASSUME Founded, JobsAreHonest', [Next]_vars
  PROVE  RegistriesAreSound'
<1>0. TypeOK /\ start' = start /\ tested \subseteq tested'
  BY StepKeeps DEF Founded
<1>1. \A c \in Commit, p \in Platform :
        <<c, p>> \in DOMAIN temp' => Good(temp[<<c, p>>], p, c)'
  <2> SUFFICES ASSUME NEW c \in Commit, NEW p \in Platform, <<c, p>> \in DOMAIN temp'
               PROVE  Good(temp[<<c, p>>], p, c)'
    OBVIOUS
  <2>1. PICK image : image = temp'[<<c, p>>]
    OBVIOUS
  <2>2. Good(image, p, c)'
    BY <2>1, NextTemporary
  <2> QED
    BY <2>1, <2>2 DEF Good, Passed
<1>2. ASSUME NEW index,
             \/ \E x \in DOMAIN tag' : index = tag'[x]
             \/ \E y \in pushed' : index = y[2]
      PROVE  Sound(index)'
  <2>1. \/ \E x \in DOMAIN tag : index = tag[x]
        \/ \E y \in pushed : index = y[2]
        \/ \E r \in Run : phase[r] = "create" /\ index = made[r]
    <3>1. CASE UNCHANGED tags
      BY <1>2, <3>1
    <3>2. ASSUME NEW r \in Run, NEW x \in Registry \X Tag, MoveTag(r, x)
          PROVE  \/ \E y \in DOMAIN tag : index = tag[y]
                 \/ \E y \in pushed : index = y[2]
                 \/ phase[r] = "create" /\ index = made[r]
      <4>1. /\ DOMAIN tag' = DOMAIN tag \cup {x}
            /\ \A y \in DOMAIN tag' : tag'[y] = IF y = x THEN made[r] ELSE tag[y]
            /\ pushed' = pushed \cup {<<x[1], made[r]>>} /\ phase[r] = "create"
        BY <3>2 DEF MoveTag, With
      <4> QED
        BY <1>2, <4>1
    <3> QED
      BY <3>1, <3>2, TagsMove
  <2>2. Sound(index)
    BY <2>1 DEF Founded, MergesAreDue, Due, RegistriesAreSound
  <2> QED
    BY <1>0, <2>2, Lasting
<1>3. \A x \in DOMAIN tag' : Sound(tag[x])'
  <2> SUFFICES ASSUME NEW x \in DOMAIN tag' PROVE Sound(tag[x])'
    OBVIOUS
  <2>1. PICK index : index = tag'[x]
    OBVIOUS
  <2>2. Sound(index)'
    BY <1>2, <2>1
  <2> QED
    BY <2>1, <2>2 DEF Sound, Good, Passed
<1>4. \A y \in pushed' : Sound(y[2])'
  BY <1>2
<1> QED
  BY <1>1, <1>3, <1>4 DEF RegistriesAreSound

(* A step of another run, of a platform or of the base leaves r where it   *)
(* is.                                                                     *)
Left(r) == /\ phase'[r] = phase[r] /\ made'[r] = made[r] /\ todo'[r] = todo[r]
           /\ digest'[r] = digest[r] /\ readFrom'[r] = readFrom[r]
           /\ phase[r] # "build" => job'[r] = job[r]
LEMMA WhoMoves ==
  ASSUME TypeOK, [Next]_vars, NEW s \in Run
  PROVE  Left(s) \/ MergeStep(s)
<1>1. CASE UNCHANGED vars \/ MoveBase
  BY <1>1 DEF vars, MoveBase, Left
<1>2. ASSUME NEW r \in Run, NEW p \in Platform,
             BuildAndLoad(r, p) \/ Check(r, p) \/ PushTemporary(r, p)
      PROVE  Left(s)
  <2>1. job'[s] = job[s] \/ phase[s] = "build"
    BY <1>2 DEF TypeOK, BuildAndLoad, Check, PushTemporary, JobGoto
  <2> QED
    BY <1>2, <2>1 DEF TypeOK, BuildAndLoad, Check, PushTemporary, Left
<1>3. ASSUME NEW r \in Run, r # s, MergeStep(r) PROVE Left(s)
  <2>1. job'[s] = job[s]
    BY <1>3 DEF TypeOK, MergeStep, Merge, JoinIndex, MoveTag, Inspect, SignImage, AttachSbom,
                RecordProvenance, Break, Rerun, JobGoto
  <2>2. phase'[s] = phase[s]
    BY <1>3 DEF TypeOK, MergeStep, Merge, JoinIndex, MoveTag, Inspect, SignImage, AttachSbom,
                RecordProvenance, Break, Rerun, Goto, Endorse
  <2>3. made'[s] = made[s] /\ todo'[s] = todo[s]
    BY <1>3 DEF TypeOK, MergeStep, Merge, JoinIndex, MoveTag, Inspect, SignImage, AttachSbom,
                RecordProvenance, Break, Rerun
  <2>4. digest'[s] = digest[s] /\ readFrom'[s] = readFrom[s]
    BY <1>3 DEF TypeOK, MergeStep, Merge, JoinIndex, MoveTag, Inspect, SignImage, AttachSbom,
                RecordProvenance, Break, Rerun
  <2> QED
    BY <2>1, <2>2, <2>3, <2>4 DEF Left
<1> QED
  BY <1>1, <1>2, <1>3 DEF Next, MergeStep

(* What is due of a run that stays where it is stays so.                   *)
LEMMA DueKept ==
  ASSUME Founded, [Next]_vars, NEW s \in Run, Left(s)
  PROVE  Due(s)'
<1>0. /\ TypeOK /\ start' = start /\ tested \subseteq tested' /\ DOMAIN tag \subseteq DOMAIN tag'
      /\ Due(s)
  BY StepKeeps DEF Founded, MergesAreDue
<1>1. /\ Inspected(s)' = Inspected(s) /\ Registries(s)' = Registries(s)
      /\ RealTags(s)' = RealTags(s)
      /\ \A index : OfRun(index, s)' <=> OfRun(index, s)
      /\ \A index : Sound(index) => Sound(index)'
  <2>1. \A index : Sound(index) => Sound(index)'
    BY <1>0, Lasting
  <2>2. \A index : OfRun(index, s)' <=> OfRun(index, s)
    BY <1>0 DEF OfRun
  <2>3. /\ Inspected(s)' = Inspected(s) /\ Registries(s)' = Registries(s)
        /\ RealTags(s)' = RealTags(s)
    BY <1>0, SameTags
  <2> QED
    BY <2>1, <2>2, <2>3
<1>2. PICK m, d : m = made[s] /\ d = digest[s]
  OBVIOUS
<1>3. made'[s] = m /\ digest'[s] = d /\ phase'[s] = phase[s] /\ todo'[s] = todo[s]
  BY <1>2 DEF Left
<1>4. phase'[s] \in AtMerge => MayMerge(s)'
  BY <1>0, <1>3 DEF Left, Due, MayMerge, AtMerge
<1>5. phase'[s] = "create" => Sound(m)' /\ OfRun(m, s)' /\ (Inspected(s) \in DOMAIN tag \cup todo[s])'
  BY <1>0, <1>1, <1>2, <1>3 DEF Due
<1>6. phase'[s] \in Endorsing => Sound(d)'
  BY <1>0, <1>1, <1>2, <1>3 DEF Due
<1>7. (todo[s] \subseteq Registries(s) \X RealTags(s))'
  BY <1>0, <1>1, <1>3 DEF Due
<1>8. phase'[s] = "inspect" => (Inspected(s) \in DOMAIN tag)'
  BY <1>0, <1>1, <1>3 DEF Due
<1>9. /\ phase'[s] = "create" => Sound(made[s])' /\ OfRun(made[s], s)'
      /\ phase'[s] \in Endorsing => Sound(digest[s])'
  BY <1>3, <1>5, <1>6 DEF Sound, Good, Passed, OfRun
<1> QED
  BY <1>4, <1>5, <1>7, <1>8, <1>9 DEF Due

LEMMA DueMoved ==
  ASSUME Founded, [Next]_vars, NEW s \in Run, MergeStep(s)
  PROVE  Due(s)'
<1>0. /\ TypeOK /\ start' = start /\ tested \subseteq tested' /\ DOMAIN tag \subseteq DOMAIN tag'
      /\ Due(s)
  BY StepKeeps DEF Founded, MergesAreDue
<1>1. /\ Inspected(s)' = Inspected(s) /\ Registries(s)' = Registries(s)
      /\ RealTags(s)' = RealTags(s)
      /\ \A index : OfRun(index, s)' <=> OfRun(index, s)
      /\ \A index : Sound(index) => Sound(index)'
  <2>1. \A index : Sound(index) => Sound(index)'
    BY <1>0, Lasting
  <2>2. \A index : OfRun(index, s)' <=> OfRun(index, s)
    BY <1>0 DEF OfRun
  <2>3. /\ Inspected(s)' = Inspected(s) /\ Registries(s)' = Registries(s)
        /\ RealTags(s)' = RealTags(s)
    BY <1>0, SameTags
  <2> QED
    BY <2>1, <2>2, <2>3
<1>2. job' = job => (MayMerge(s)' <=> MayMerge(s))
  BY <1>0 DEF MayMerge
<1> USE DEF AtMerge, Endorsing
<1>3. ASSUME phase'[s] \in {"build", "index", "done", "failed"}, todo'[s] \subseteq todo[s],
             phase'[s] = "index" => MayMerge(s)'
      PROVE  Due(s)'
  BY <1>0, <1>1, <1>3 DEF Due
<1>4. CASE Merge(s) \/ Break(s) \/ Rerun(s)
  <2>1. todo'[s] \subseteq todo[s]
    BY <1>0, <1>4 DEF TypeOK, Merge, Break, Rerun
  <2>2. phase'[s] \in {"build", "index", "done", "failed"}
    BY <1>0, <1>4 DEF TypeOK, Merge, Break, Rerun, Goto
  <2>3. phase'[s] = "index" => MayMerge(s)'
    BY <1>0, <1>2, <1>4 DEF TypeOK, Merge, Break, Rerun, Goto
  <2> QED
    BY <1>3, <2>1, <2>2, <2>3
<1>5. CASE JoinIndex(s)
  <2>1. /\ phase'[s] = "create" /\ MayMerge(s)' /\ made'[s] = Join(s)
        /\ todo'[s] = Registries(s) \X RealTags(s)
    BY <1>0, <1>2, <1>5 DEF TypeOK, JoinIndex, Goto, Due
  <2>2. Sound(Join(s)) /\ OfRun(Join(s), s)
    BY <1>5, JoinIsSound DEF JoinIndex
  <2>3. PICK index : index = Join(s)
    OBVIOUS
  <2>4. Sound(index)' /\ OfRun(index, s)' /\ made'[s] = index
    BY <1>1, <2>1, <2>2, <2>3
  <2>5. Sound(made[s])' /\ OfRun(made[s], s)'
    BY <2>4 DEF Sound, Good, Passed, OfRun
  <2>6. (Inspected(s) \in todo[s])'
    BY <1>1, <2>1, FirstTagIsReal
  <2> QED
    BY <1>1, <2>1, <2>5, <2>6 DEF Due
<1>6. ASSUME NEW x \in Registry \X Tag, MoveTag(s, x) PROVE Due(s)'
  <2>1. /\ phase[s] = "create" /\ MayMerge(s)' /\ made'[s] = made[s]
        /\ todo'[s] = todo[s] \ {x} /\ DOMAIN tag' = DOMAIN tag \cup {x}
        /\ phase'[s] \in {"create", "inspect"} /\ (phase'[s] = "inspect" => todo[s] = {x})
    BY <1>0, <1>2, <1>6 DEF TypeOK, MoveTag, Goto, Due, With
  <2>2. PICK index : index = made[s]
    OBVIOUS
  <2>3. Sound(index)' /\ OfRun(index, s)' /\ made'[s] = index
    BY <1>0, <1>1, <2>1, <2>2 DEF Due
  <2>4. Sound(made[s])' /\ OfRun(made[s], s)'
    BY <2>3 DEF Sound, Good, Passed, OfRun
  <2>5. (Inspected(s) \in DOMAIN tag \cup todo[s])'
    BY <1>0, <1>1, <2>1 DEF Due
  <2> QED
    BY <1>0, <1>1, <2>1, <2>4, <2>5 DEF Due
<1>7. CASE Inspect(s)
  <2>1. /\ phase'[s] = "sign" /\ MayMerge(s)' /\ todo'[s] = todo[s]
        /\ Inspected(s) \in DOMAIN tag /\ digest'[s] = tag[Inspected(s)]
    BY <1>0, <1>2, <1>7 DEF TypeOK, Inspect, Goto, Due
  <2>2. PICK index : index = tag[Inspected(s)]
    OBVIOUS
  <2>3. Sound(index)' /\ digest'[s] = index
    BY <1>1, <2>1, <2>2 DEF Founded, RegistriesAreSound
  <2>4. Sound(digest[s])'
    BY <2>3 DEF Sound, Good, Passed
  <2> QED
    BY <1>0, <1>1, <2>1, <2>4 DEF Due
<1>8. CASE SignImage(s) \/ AttachSbom(s) \/ RecordProvenance(s)
  <2>1. /\ phase[s] \in Endorsing /\ phase'[s] \in Endorsing \cup {"done", "failed"}
        /\ job' = job /\ todo'[s] = todo[s] /\ digest' = digest
    BY <1>0, <1>8 DEF TypeOK, SignImage, AttachSbom, RecordProvenance, Endorse, Goto
  <2>2. PICK index : index = digest[s]
    OBVIOUS
  <2>3. Sound(index)' /\ digest'[s] = index
    BY <1>0, <1>1, <2>1, <2>2 DEF Due
  <2>4. Sound(digest[s])'
    BY <2>3 DEF Sound, Good, Passed
  <2>5. MayMerge(s)'
    BY <1>0, <1>2, <2>1 DEF Due
  <2> QED
    BY <1>0, <1>1, <2>1, <2>4, <2>5 DEF Due
<1> QED
  BY <1>4, <1>5, <1>6, <1>7, <1>8 DEF MergeStep

LEMMA NextDue ==
  ASSUME Founded, [Next]_vars
  PROVE  MergesAreDue'
<1>1. TypeOK
  BY DEF Founded
<1> QED
  BY <1>1, WhoMoves, DueKept, DueMoved DEF MergesAreDue

LEMMA FoundedInvariant == Spec => []Founded
<1>1. Init => Founded
  <2> SUFFICES ASSUME Init PROVE Founded
    OBVIOUS
  <2>1. TypeOK
    BY InitTyping
  <2>2. JobsAreHonest
    BY DEF Init, JobsAreHonest, Honest
  <2>3. MergesAreDue
    BY DEF Init, MergesAreDue, Due, AtMerge, Endorsing
  <2>4. RegistriesAreSound
    BY DEF Init, RegistriesAreSound, Nothing
  <2> QED
    BY <2>1, <2>2, <2>3, <2>4 DEF Founded, Init
<1>2. Founded /\ [Next]_vars => Founded'
  <2> SUFFICES ASSUME Founded, [Next]_vars PROVE Founded'
    OBVIOUS
  <2>1. TypeOK' /\ start' = start
    BY NextTyping, StepKeeps DEF Founded
  <2>2. JobsAreHonest'
    BY <2>1, NextHonest
  <2>3. MergesAreDue' /\ RegistriesAreSound'
    BY <2>2, NextDue, NextRegistries
  <2> QED
    BY <2>1, <2>2, <2>3 DEF Founded
<1> QED
  BY <1>1, <1>2, PTL DEF Spec

(* The state of the runs and of the registries is well typed, and nothing  *)
(* is signed that its registry does not hold.                              *)
THEOREM TypeCorrect == Spec => []TypeOK
<1>1. Founded => TypeOK
  BY DEF Founded
<1> QED
  BY <1>1, FoundedInvariant, PTL

-----------------------------------------------------------------------------
(* Only a rival's tags hold r's first tag: no moving tag is a commit's.    *)
LEMMA FirstTagsAreApart ==
  ASSUME TypeOK, NEW r \in Run, NEW s \in Run, Publishes(r), Publishes(s),
         FirstTag(r) \in RealTags(s)
  PROVE  FirstTag(r) = FirstTag(s)
<1>1. start[r].on \in {"branch", "tag"} /\ start[s].on \in {"branch", "tag"}
  BY DEF TypeOK, Start, Publishes
<1>2. FirstTag(r) \in {"main", "version"}
  BY <1>1 DEF FirstTag
<1>3. FirstTag(r) # start[s].commit
  BY <1>2, ContainerAssumption DEF ContainerAssumption, MovingTag, TypeOK, Start
<1> QED
  BY <1>1, <1>2, <1>3 DEF RealTags, FirstTag

(* A run that moves tags, reads or endorses is one that may.               *)
LEMMA MergePublishes ==
  ASSUME Founded, NEW r \in Run, phase[r] \in AtMerge
  PROVE  Publishes(r)
BY DEF Founded, MergesAreDue, Due, MayMerge, Publishes

(* One tag is moved, to the index of the run that moves it.                *)
LEMMA TagIsMoved ==
  ASSUME TypeOK, NEW r \in Run, NEW x, MoveTag(r, x)
  PROVE  /\ DOMAIN tag' = DOMAIN tag \cup {x}
         /\ \A y \in DOMAIN tag' : tag'[y] = IF y = x THEN made[r] ELSE tag[y]
         /\ \A y \in DOMAIN tag' : mover'[y] = IF y = x THEN r ELSE mover[y]
BY DEF MoveTag, With, TypeOK

(* That run may publish, the index is of its commit, and the tag is its.   *)
LEMMA MoverOwns ==
  ASSUME Founded, NEW r \in Run, NEW x, MoveTag(r, x)
  PROVE  Publishes(r) /\ OfRun(made[r], r) /\ x \in Registries(r) \X RealTags(r)
<1>1. phase[r] = "create" /\ x \in todo[r]
  BY DEF MoveTag
<1> QED
  BY <1>1, MergePublishes DEF AtMerge, Founded, MergesAreDue, Due

LEMMA NextOwned ==
  ASSUME Founded, TagsAreOwned, [Next]_vars
  PROVE  TagsAreOwned'
<1>0. TypeOK /\ start' = start
  BY StepKeeps DEF Founded
<1> SUFFICES ASSUME NEW x \in DOMAIN tag'
             PROVE  /\ Publishes(mover[x])' /\ OfRun(tag[x], mover[x])'
                    /\ (x \in Registries(mover[x]) \X RealTags(mover[x]))'
  BY DEF TagsAreOwned
<1>1. PICK m, index : m = mover'[x] /\ index = tag'[x]
  OBVIOUS
<1>2. Publishes(m) /\ OfRun(index, m) /\ x \in Registries(m) \X RealTags(m)
  <2>1. CASE UNCHANGED tags
    BY <1>1, <2>1 DEF TagsAreOwned
  <2>2. ASSUME NEW r \in Run, NEW y \in Registry \X Tag, MoveTag(r, y)
        PROVE  Publishes(m) /\ OfRun(index, m) /\ x \in Registries(m) \X RealTags(m)
    <3>1. CASE x = y
      <4>1. m = r /\ index = made[r]
        BY <1>0, <1>1, <2>2, <3>1, TagIsMoved
      <4> QED
        BY <2>2, <3>1, <4>1, MoverOwns
    <3>2. CASE x # y
      <4>1. x \in DOMAIN tag /\ m = mover[x] /\ index = tag[x]
        <5>1. /\ DOMAIN tag' = DOMAIN tag \cup {y}
              /\ \A z \in DOMAIN tag' : tag'[z] = IF z = y THEN made[r] ELSE tag[z]
              /\ \A z \in DOMAIN tag' : mover'[z] = IF z = y THEN r ELSE mover[z]
          BY <1>0, <2>2 DEF MoveTag, With, TypeOK
        <5> QED
          BY <1>1, <3>2, <5>1
      <4> QED
        BY <4>1 DEF TagsAreOwned
    <3> QED
      BY <3>1, <3>2
  <2> QED
    BY <2>1, <2>2, TagsMove
<1>3. Registries(m)' = Registries(m) /\ RealTags(m)' = RealTags(m)
  BY <1>0, SameTags
<1>4. Publishes(m)' /\ OfRun(index, m)' /\ x \in Registries(m)' \X RealTags(m)'
  BY <1>0, <1>2, <1>3 DEF Publishes, OfRun
<1> QED
  BY <1>1, <1>4 DEF Publishes, OfRun, Registries, RealTags, FirstTag

LEMMA WhoRecords ==
  ASSUME [Next]_vars
  PROVE  provenance' = provenance \/ \E r \in Run : RecordProvenance(r)
<1>1. ASSUME NEW r \in Run, MergeStep(r), ~RecordProvenance(r)
      PROVE  provenance' = provenance
  BY <1>1 DEF MergeStep, Merge, JoinIndex, MoveTag, Inspect, SignImage, AttachSbom, Break, Rerun
<1>2. ASSUME NEW r \in Run,
             \E p \in Platform : BuildAndLoad(r, p) \/ Check(r, p) \/ PushTemporary(r, p)
      PROVE  provenance' = provenance
  BY <1>2 DEF BuildAndLoad, Check, PushTemporary
<1>3. CASE MoveBase \/ UNCHANGED vars
  BY <1>3 DEF MoveBase, vars
<1> QED
  BY <1>1, <1>2, <1>3, Zenon DEF Next, MergeStep

(* What the first tag names when r reads it is of the run that moved it.   *)
LEMMA ReadIsOwned ==
  ASSUME Founded, TagsAreOwned, NEW r \in Run, Inspect(r)
  PROVE  /\ Owned(digest'[r], r, readFrom'[r])
         /\ digest'[r] = tag[Inspected(r)] /\ readFrom'[r] = mover[Inspected(r)]
         /\ Inspected(r) \in DOMAIN tag
<1>1. /\ digest'[r] = tag[Inspected(r)] /\ readFrom'[r] = mover[Inspected(r)]
      /\ phase[r] = "inspect"
  BY DEF Inspect, Founded, TypeOK
<1>2. Inspected(r) \in DOMAIN tag /\ Publishes(r)
  BY <1>1, MergePublishes DEF AtMerge, Founded, MergesAreDue, Due
<1>3. PICK m : m = mover[Inspected(r)]
  OBVIOUS
<1>4. /\ m \in Run /\ Publishes(m) /\ OfRun(tag[Inspected(r)], m)
      /\ Inspected(r) \in Registries(m) \X RealTags(m)
  BY <1>2, <1>3 DEF TagsAreOwned, Founded, TypeOK
<1>5. FirstTag(r) \in RealTags(m)
  BY <1>4 DEF Inspected
<1>6. FirstTag(r) = FirstTag(m)
  BY <1>2, <1>4, <1>5, FirstTagsAreApart DEF Founded
<1> QED
  BY <1>1, <1>2, <1>3, <1>4, <1>6 DEF Owned

LEMMA OwnedStays ==
  ASSUME start' = start
  PROVE  \A index, r, from : Owned(index, r, from)' <=> Owned(index, r, from)
BY DEF Owned, OfRun, FirstTag

LEMMA NextReadings ==
  ASSUME Founded, TagsAreOwned, ReadingsAreOwned, [Next]_vars
  PROVE  ReadingsAreOwned'
<1>0. TypeOK /\ start' = start
  BY StepKeeps DEF Founded
<1>1. ASSUME NEW r \in Run, phase'[r] \in Endorsing
      PROVE  Owned(digest[r], r, readFrom[r])'
  <2>1. PICK index, from : index = digest'[r] /\ from = readFrom'[r]
    OBVIOUS
  <2>2. Owned(index, r, from)
    <3>1. CASE Inspect(r)
      BY <2>1, <3>1, ReadIsOwned
    <3>2. CASE ~Inspect(r)
      <4>1. phase[r] \in Endorsing /\ digest'[r] = digest[r] /\ readFrom'[r] = readFrom[r]
        <5>1. CASE Left(r)
          BY <1>1, <5>1 DEF Left
        <5>2. CASE MergeStep(r)
          BY <1>0, <1>1, <3>2, <5>2 DEF TypeOK, Endorsing, MergeStep, Merge, JoinIndex, MoveTag,
             SignImage, AttachSbom, RecordProvenance, Break, Rerun, Goto, Endorse
        <5> QED
          BY <1>0, <5>1, <5>2, WhoMoves
      <4> QED
        BY <2>1, <4>1 DEF ReadingsAreOwned
    <3> QED
      BY <3>1, <3>2
  <2>3. Owned(index, r, from)'
    BY <1>0, <2>2, OwnedStays
  <2> QED
    BY <2>1, <2>3 DEF Owned, OfRun, FirstTag
<1>2. ASSUME NEW v \in provenance' PROVE Owned(v[1], v[2], v[3])'
  <2>1. \/ v \in provenance
        \/ \E r \in Run : RecordProvenance(r) /\ v = <<digest[r], r, readFrom[r]>>
    <3>1. CASE provenance' = provenance
      BY <1>2, <3>1
    <3>2. ASSUME NEW r \in Run, RecordProvenance(r)
          PROVE  v \in provenance \/ v = <<digest[r], r, readFrom[r]>>
      BY <1>2, <3>2 DEF RecordProvenance
    <3> QED
      BY <3>1, <3>2, WhoRecords
  <2>2. Owned(v[1], v[2], v[3])
    BY <2>1 DEF ReadingsAreOwned, RecordProvenance, Endorsing
  <2> QED
    BY <1>0, <2>2, OwnedStays
<1> QED
  BY <1>1, <1>2 DEF ReadingsAreOwned

(* What another's step does to the tags that r was the last to move: it    *)
(* moves some of them on, and leaves the others.                           *)
LEMMA OthersMoveOn ==
  ASSUME Founded, [Next]_vars, NEW s \in Run, ~MergeStep(s), NEW x \in DOMAIN tag',
         mover'[x] = s
  PROVE  x \in DOMAIN tag /\ mover[x] = s /\ tag'[x] = tag[x]
<1>1. CASE UNCHANGED tags
  BY <1>1
<1>2. ASSUME NEW r \in Run, NEW y \in Registry \X Tag, MoveTag(r, y)
      PROVE  x \in DOMAIN tag /\ mover[x] = s /\ tag'[x] = tag[x]
  <2>1. r # s
    BY <1>2 DEF MergeStep
  <2>2. /\ DOMAIN tag' = DOMAIN tag \cup {y}
        /\ \A z \in DOMAIN tag' : tag'[z] = IF z = y THEN made[r] ELSE tag[z]
        /\ \A z \in DOMAIN tag' : mover'[z] = IF z = y THEN r ELSE mover[z]
    BY <1>2 DEF MoveTag, With, Founded, TypeOK
  <2> QED
    BY <2>1, <2>2
<1> QED
  BY <1>1, <1>2, TagsMove

LEMMA OthersLeaveWork ==
  ASSUME Founded, [Next]_vars, NEW s \in Run, ~MergeStep(s), Pushed(s), Told(s)
  PROVE  Pushed(s)' /\ Told(s)'
<1>0. /\ Left(s) /\ Registries(s)' = Registries(s)
      /\ signed \subseteq signed' /\ sbom \subseteq sbom' /\ provenance \subseteq provenance'
  BY WhoMoves, StepKeeps, SameTags DEF Founded
<1>1. Pushed(s)'
  <2>1. ASSUME NEW x \in DOMAIN tag', mover'[x] = s
        PROVE  x \in DOMAIN tag /\ mover[x] = s /\ tag'[x] = tag[x]
    BY <2>1, OthersMoveOn
  <2> QED
    BY <1>0, <2>1 DEF Pushed, Left
<1>2. Told(s)'
  BY <1>0 DEF Told, Left
<1> QED
  BY <1>1, <1>2

(* Nor does a run lose track of its own: it moves every tag to the index   *)
(* it made, and ends well only when the digest it read is vouched for.     *)
LEMMA OwnWorkIsAnswered ==
  ASSUME Founded, TagsAreOwned, [Next]_vars, NEW s \in Run, MergeStep(s), Publishes(s),
         Pushed(s), Told(s)
  PROVE  Pushed(s)' /\ Told(s)'
<1>0. /\ TypeOK /\ Registries(s)' = Registries(s) /\ RealTags(s)' = RealTags(s)
      /\ signed \subseteq signed' /\ sbom \subseteq sbom' /\ provenance \subseteq provenance'
  BY StepKeeps, SameTags DEF Founded
<1> USE DEF Endorsing
<1>1. ASSUME phase'[s] \in {"build", "index", "failed"} PROVE Pushed(s)' /\ Told(s)'
  BY <1>1 DEF Pushed, Told
<1>2. CASE Merge(s) \/ Break(s) \/ Rerun(s)
  <2>1. phase'[s] \in {"build", "index", "failed"}
    <3>1. CASE Merge(s)
      BY <1>0, <3>1 DEF Merge, Goto, MayMerge, Ended, Publishes, TypeOK
    <3>2. CASE Break(s) \/ Rerun(s)
      BY <1>0, <3>2 DEF Break, Rerun, Goto, TypeOK
    <3> QED
      BY <1>2, <3>1, <3>2
  <2> QED
    BY <1>1, <2>1
<1>3. CASE JoinIndex(s)
  <2>1. /\ phase'[s] = "create" /\ todo'[s] = Registries(s) \X RealTags(s) /\ UNCHANGED tags
    BY <1>0, <1>3 DEF JoinIndex, Goto, TypeOK
  <2>2. \A x \in DOMAIN tag : mover[x] = s => x \in todo'[s]
    BY <2>1 DEF TagsAreOwned
  <2> QED
    BY <2>1, <2>2 DEF Pushed, Told
<1>4. ASSUME NEW y \in Registry \X Tag, MoveTag(s, y) PROVE Pushed(s)' /\ Told(s)'
  <2>1. /\ DOMAIN tag' = DOMAIN tag \cup {y}
        /\ \A z \in DOMAIN tag' : tag'[z] = IF z = y THEN made[s] ELSE tag[z]
        /\ \A z \in DOMAIN tag' : mover'[z] = IF z = y THEN s ELSE mover[z]
    BY <1>0, <1>4 DEF MoveTag, With, TypeOK
  <2>2. /\ phase[s] = "create" /\ phase'[s] \in {"create", "inspect"} /\ made'[s] = made[s]
        /\ todo'[s] = todo[s] \ {y} /\ (phase'[s] = "inspect" => todo[s] = {y})
    BY <1>0, <1>4 DEF MoveTag, Goto, TypeOK
  <2> QED
    BY <2>1, <2>2 DEF Pushed, Told
<1>5. CASE Inspect(s)
  <2>1. /\ phase[s] = "inspect" /\ phase'[s] = "sign" /\ made'[s] = made[s]
        /\ todo'[s] = todo[s] /\ UNCHANGED tags
    BY <1>0, <1>5 DEF Inspect, Goto, TypeOK
  <2>2. readFrom'[s] = s => digest'[s] = made[s]
    BY <1>5, <2>1, ReadIsOwned DEF Pushed
  <2> QED
    BY <2>1, <2>2 DEF Pushed, Told
<1>6. CASE SignImage(s) \/ AttachSbom(s) \/ RecordProvenance(s)
  <2>1. /\ phase[s] \in Endorsing /\ phase'[s] \in Endorsing \cup {"failed", "done"}
        /\ made'[s] = made[s] /\ todo'[s] = todo[s] /\ digest'[s] = digest[s]
        /\ readFrom'[s] = readFrom[s] /\ UNCHANGED tags
    BY <1>0, <1>6 DEF SignImage, AttachSbom, RecordProvenance, Endorse, Goto, TypeOK
  <2>2. Pushed(s)'
    BY <2>1 DEF Pushed
  <2>3. /\ phase'[s] \in {"sbom", "provenance", "done"} =>
             \A y \in Registries(s) : <<y, digest[s]>> \in signed'
        /\ phase'[s] \in {"provenance", "done"} =>
             \A y \in Registries(s) : <<y, digest[s]>> \in sbom'
        /\ phase'[s] = "done" => <<digest[s], s, readFrom[s]>> \in provenance'
    <3>1. CASE SignImage(s)
      BY <1>0, <3>1 DEF SignImage, Endorse, Goto, Held, Places, TypeOK
    <3>2. CASE AttachSbom(s)
      BY <1>0, <3>2 DEF AttachSbom, Endorse, Goto, Held, Places, TypeOK, Told
    <3>3. CASE RecordProvenance(s)
      BY <1>0, <3>3 DEF RecordProvenance, Goto, TypeOK, Told
    <3> QED
      BY <1>6, <3>1, <3>2, <3>3
  <2>4. Told(s)'
    BY <1>0, <2>1, <2>3 DEF Told
  <2> QED
    BY <2>2, <2>4
<1> QED
  BY <1>2, <1>3, <1>4, <1>5, <1>6 DEF MergeStep

LEMMA OwnedInvariant == Spec => [](TagsAreOwned /\ ReadingsAreOwned /\ WorkIsAnswered)
<1> DEFINE Inv == TagsAreOwned /\ ReadingsAreOwned /\ WorkIsAnswered
<1>1. Init => Inv
  BY DEF Init, TagsAreOwned, ReadingsAreOwned, WorkIsAnswered, Pushed, Told, Endorsing, Nothing
<1>2. Founded /\ Inv /\ [Next]_vars => Inv'
  <2> SUFFICES ASSUME Founded, Inv, [Next]_vars PROVE Inv'
    OBVIOUS
  <2>1. TagsAreOwned' /\ ReadingsAreOwned'
    BY NextOwned, NextReadings
  <2>2. WorkIsAnswered'
    <3> SUFFICES ASSUME NEW s \in Run, Publishes(s)' PROVE Pushed(s)' /\ Told(s)'
      BY DEF WorkIsAnswered
    <3>1. Publishes(s)
      BY StepKeeps DEF Founded, Publishes
    <3>2. Pushed(s) /\ Told(s)
      BY <3>1 DEF WorkIsAnswered
    <3> QED
      BY <3>1, <3>2, OthersLeaveWork, OwnWorkIsAnswered
  <2> QED
    BY <2>1, <2>2
<1> QED
  BY <1>1, <1>2, FoundedInvariant, PTL DEF Spec

-----------------------------------------------------------------------------
(* However the runs of one commit and of different commits write over each *)
(* other's temporary tags and take turns at the real ones: an index under  *)
(* a real tag is of one commit, and of that one under a commit's own tag.  *)
THEOREM NoMixedIndex == Spec => []OneCommitPerIndex
<1>1. Founded /\ TagsAreOwned => OneCommitPerIndex
  <2> SUFFICES ASSUME Founded, TagsAreOwned, NEW x \in DOMAIN tag
               PROVE  \E c \in Commit : /\ \A p \in Platform : tag[x][p].commit = c
                                       /\ (x[2] \in Commit => x[2] = c)
    BY DEF OneCommitPerIndex
  <2>1. PICK m \in Run : m = mover[x]
    BY DEF Founded, TypeOK
  <2>2. OfRun(tag[x], m) /\ x \in Registries(m) \X RealTags(m)
    BY <2>1 DEF TagsAreOwned
  <2>3. start[m].commit \in Commit /\ start[m].on \in {"pull_request", "branch", "tag"}
    BY DEF Founded, TypeOK, Start
  <2>4. x[2] \in MovingTag \cup {start[m].commit}
    BY <2>2, <2>3 DEF RealTags, FirstTag, MovingTag
  <2>5. x[2] \in Commit => x[2] = start[m].commit
    BY <2>4, ContainerAssumption DEF ContainerAssumption
  <2>6. \A p \in Platform : tag[x][p].commit = start[m].commit
    BY <2>2 DEF OfRun
  <2>7. PICK c \in Commit : c = start[m].commit
    BY <2>3
  <2> WITNESS c \in Commit
  <2> QED
    BY <2>5, <2>6, <2>7
<1> QED
  BY <1>1, FoundedInvariant, OwnedInvariant, PTL

(* Whatever ships was built by a run from a commit that passed, in a job   *)
(* of that run, its checks on that platform, on a base that is no newer:   *)
(* no failed check, re-run or push of another run slips an image by them.  *)
(* Where the Dockerfile pins its base the image is the very one.           *)
THEOREM NothingUntestedShips == Spec => []TestedApartFromBase
<1>1. Founded => TestedApartFromBase
  <2> SUFFICES ASSUME Founded, NEW x \in DOMAIN tag, NEW p \in Platform
               PROVE  \E v \in tested : /\ v[1] = p
                        /\ v[2].commit = tag[x][p].commit /\ v[2].by = tag[x][p].by
                        /\ v[2].base <= tag[x][p].base
                        /\ (tag[x][p].commit \in Pinned => v[2] = tag[x][p])
    BY DEF TestedApartFromBase
  <2>1. Sound(tag[x])
    BY DEF Founded, RegistriesAreSound
  <2>2. PICK r \in Run : Good(tag[x][p], p, start[r].commit)
    BY <2>1 DEF Sound
  <2>3. PICK image : image = tag[x][p]
    OBVIOUS
  <2>4. /\ image \in Image /\ image.commit = start[r].commit
        /\ Passed(p, image.commit, image.by, image.base)
    BY <2>2, <2>3 DEF Good
  <2>5. PICK v \in tested :
          /\ v[1] = p /\ v[2].commit = image.commit /\ v[2].by = image.by
          /\ v[2].base <= image.base
          /\ image.commit \in Pinned => v[2].base = image.base
    BY <2>4 DEF Passed
  <2>6. v[2] \in Image
    BY DEF Founded, TypeOK
  <2>7. image.commit \in Pinned => v[2] = image
    BY <2>4, <2>5, <2>6 DEF Image
  <2> QED
    BY <2>3, <2>5, <2>7
<1> QED
  BY <1>1, FoundedInvariant, PTL

(* For any number of runs, whoever moves the tags under whose hands:       *)
(* provenance names the commit of the images, or else the run that records *)
(* it has read a rival's index from the tag it shares with that rival.     *)
(* What a pull request built is neither signed nor under a real tag.       *)
THEOREM TrueProvenance == Spec => []ProvenanceIsTrue
<1>1. Founded /\ ReadingsAreOwned => ProvenanceIsTrue
  <2> SUFFICES ASSUME Founded, ReadingsAreOwned PROVE ProvenanceIsTrue
    OBVIOUS
  <2>1. \A v \in provenance : OfRun(v[1], v[3]) /\ FirstTag(v[2]) = FirstTag(v[3])
    BY DEF ReadingsAreOwned, Owned
  <2>2. \A index : Sound(index) => ~OfPullRequest(index)
    BY SoundIsNoPullRequest DEF OfPullRequest
  <2>3. \A y \in signed : Sound(y[2])
    BY DEF Founded, TypeOK, RegistriesAreSound
  <2>4. \A x \in DOMAIN tag : Sound(tag[x])
    BY DEF Founded, RegistriesAreSound
  <2> QED
    BY <2>1, <2>2, <2>3, <2>4 DEF ProvenanceIsTrue
<1> QED
  BY <1>1, FoundedInvariant, OwnedInvariant, PTL

(* In every state, while other runs are still at work or have failed: the  *)
(* tag a run was the last to move is signed and has its SBOM there and its *)
(* provenance once that run has ended well, in whatever order the tags     *)
(* were moved and however often it broke off before; unless it read a      *)
(* rival's digest.                                                         *)
THEOREM NothingUnsigned == Spec => []ReleasedIsSigned
<1>1. Founded /\ TagsAreOwned /\ WorkIsAnswered => ReleasedIsSigned
  <2> SUFFICES ASSUME Founded, TagsAreOwned, WorkIsAnswered, NEW x \in DOMAIN tag,
                      phase[mover[x]] = "done", readFrom[mover[x]] = mover[x]
               PROVE  /\ <<x[1], tag[x]>> \in signed \cap sbom
                      /\ <<tag[x], mover[x], mover[x]>> \in provenance
    BY DEF ReleasedIsSigned
  <2>1. PICK m \in Run : m = mover[x]
    BY DEF Founded, TypeOK
  <2>2. Publishes(m) /\ x \in Registries(m) \X RealTags(m) /\ x[1] \in Registries(m)
    BY <2>1 DEF TagsAreOwned
  <2>3. Pushed(m) /\ Told(m)
    BY <2>2 DEF WorkIsAnswered
  <2>4. tag[x] = made[m] /\ digest[m] = made[m]
    BY <2>1, <2>3 DEF Pushed, Told
  <2> QED
    BY <2>1, <2>2, <2>3, <2>4 DEF Told
<1> QED
  BY <1>1, FoundedInvariant, OwnedInvariant, PTL
=============================================================================
