------------------------ MODULE ArtifactReleaseProofs ------------------------
(***************************************************************************)
(* What holds of the files of a release for any number of runs, builds and *)
(* failed steps: they are vouched for, by a bundle of the same build unless *)
(* an upload failed at them, and a run that succeeds, with nobody else at  *)
(* the release, leaves all of its own.                                     *)
(***************************************************************************)
EXTENDS ArtifactRelease, TLAPS

Publishing == {"attest", "sign", "look", "create", "upload"}

(* Who may be where: builds are numbered once, a pull request's run never  *)
(* reaches the publish job, and one that is there has a build.             *)
Numbered ==
  /\ \A r \in Run : build[r] <= builds
  /\ \A r, s \in Run : build[r] = build[s] /\ build[r] # 0 => r = s
  /\ \A r \in Run : phase[r] = "idle" => build[r] = 0
  /\ \A r \in Run : phase[r] \in Publishing => ~pr[r] /\ build[r] # 0

(* Before the release is touched there is what vouches for the build, so   *)
(* there is for what is on it.                                             *)
Assured ==
  \A a \in DOMAIN assets :
    /\ \A r \in Run : pr[r] => build[r] # assets[a]
    /\ Attest => assets[a] \in attested
    /\ Sign => assets[a] \in signed

Vouched ==
  /\ Assured
  /\ \A a \in DOMAIN assets : assets[a] <= builds
  /\ \A r \in Run : phase[r] \in {"sign", "look", "create", "upload"} =>
                      (Attest => build[r] \in attested)
  /\ \A r \in Run : phase[r] \in {"look", "create", "upload"} =>
                      (Sign => build[r] \in signed)

(* What a run that is alone has put up stays up: it only deletes what it   *)
(* has yet to put.                                                         *)
Up(r, some) == \A a \in some : a \in DOMAIN assets /\ assets[a] = build[r]

UpSoFar(r) ==
  /\ phase[r] = "upload" => existing[r] \subseteq todo[r]
  /\ phase[r] = "upload" /\ alone[r] => Up(r, ToUpload(r) \ todo[r])
  /\ phase[r] = "done" => build[r] # 0
  /\ phase[r] = "done" /\ ~pr[r] /\ alone[r] => Up(r, ToUpload(r))

-----------------------------------------------------------------------------
LEMMA UploadsAreAssets ==
  ASSUME ReleaseTypeOK, NEW r \in Run, build[r] # 0
  PROVE  ToUpload(r) \subseteq Asset
BY ReleaseAssumption DEF ReleaseTypeOK, ToUpload, Published, Asset, Plain, Build, ReleaseAssumption

LEMMA InitNumbered == ReleaseInit => ReleaseTypeOK /\ Numbered
BY ReleaseAssumption DEF ReleaseInit, Numbered, ReleaseTypeOK, ReleaseAssumption, Publishing, Build

LEMMA NewBuild ==
  ASSUME ReleaseTypeOK, NEW r \in Run, MakeFiles(r)
  PROVE  /\ builds \in Nat /\ builds' = builds + 1 /\ builds' \in Build
         /\ \A s \in Run : build'[s] = IF s = r THEN builds' ELSE build[s]
         /\ \A b \in Build : b <= builds => files'[b] = files[b]
<1>1. builds \in 0..MaxBuilds /\ MaxBuilds \in Nat /\ builds < MaxBuilds /\ builds' = builds + 1
  BY ReleaseAssumption DEF ReleaseTypeOK, ReleaseAssumption, MakeFiles
<1>2. builds \in Nat /\ builds' \in Build
  BY <1>1 DEF Build
<1>3. build \in [Run -> 0..MaxBuilds] /\ build' = [build EXCEPT ![r] = builds']
  BY DEF ReleaseTypeOK, MakeFiles
<1>4. files \in [Build -> SUBSET File]
  BY DEF ReleaseTypeOK
<1>5. PICK made \in FileSets : files' = [files EXCEPT ![builds'] = made]
  BY DEF MakeFiles
<1> QED
  BY <1>1, <1>2, <1>3, <1>4, <1>5 DEF Build

LEMMA NextTypes ==
  ASSUME ReleaseTypeOK, Numbered, [ReleaseNext]_releaseVars
  PROVE  ReleaseTypeOK'
<1> USE DEF ReleaseTypeOK, remote, Goto, Fail, Others
<1>1. CASE UNCHANGED releaseVars
  BY <1>1 DEF releaseVars
<1>2. ASSUME NEW r \in Run, Trigger(r) PROVE ReleaseTypeOK'
  BY <1>2 DEF Trigger
<1>3. ASSUME NEW r \in Run, MakeFiles(r) PROVE ReleaseTypeOK'
  <2>1. builds' \in Build /\ builds' \in 0..MaxBuilds
    BY <1>3, NewBuild DEF Build
  <2>2. build' \in [Run -> 0..MaxBuilds]
    BY <1>3, <2>1 DEF MakeFiles, Build
  <2>3. files' \in [Build -> SUBSET File]
    <3>1. PICK made \in FileSets : files' = [files EXCEPT ![builds'] = made]
      BY <1>3 DEF MakeFiles
    <3>2. made \subseteq File
      BY ReleaseAssumption DEF ReleaseAssumption
    <3> QED
      BY <3>1, <3>2
  <2>4. phase' \in [Run -> {"idle", "build", "attest", "sign", "look", "create",
                            "upload", "done", "failed"}]
    BY <1>3 DEF MakeFiles
  <2>5. UNCHANGED <<pr, attested, signed, breaks, released, assets, todo, existing, lost,
                    alone, torn>>
    BY <1>3 DEF MakeFiles
  <2> QED
    BY <2>1, <2>2, <2>3, <2>4, <2>5
<1>4. ASSUME NEW r \in Run, RecordProvenance(r) \/ SignFiles(r) PROVE ReleaseTypeOK'
  <2>1. build[r] \in Build
    BY <1>4 DEF RecordProvenance, SignFiles, Build, Numbered, Publishing
  <2> QED
    BY <1>4, <2>1 DEF RecordProvenance, SignFiles
<1>5. ASSUME NEW r \in Run, Look(r) PROVE ReleaseTypeOK'
  <2>1. ToUpload(r) \subseteq Asset
    BY <1>5, UploadsAreAssets DEF Look, Numbered, Publishing
  <2> QED
    BY <1>5, <2>1 DEF Look
<1>6. ASSUME NEW r \in Run, Create(r) PROVE ReleaseTypeOK'
  <2>1. build[r] \in Build
    BY <1>6 DEF Create, Build, Numbered, Publishing
  <2>2. ToUpload(r) \subseteq Asset
    BY <1>6, UploadsAreAssets DEF Create, Numbered, Publishing
  <2> QED
    BY <1>6, <2>1, <2>2 DEF Create
<1>7. ASSUME NEW r \in Run, NEW a \in Asset, Delete(r, a) PROVE ReleaseTypeOK'
  <2>1. ASSUME Fail(r), UNCHANGED assets PROVE ReleaseTypeOK'
    BY <1>7, <2>1 DEF Delete
  <2>2. ASSUME a \notin lost[r] PROVE ReleaseTypeOK'
    <3>1. lost' \in [Run -> SUBSET Asset] /\ existing' \in [Run -> SUBSET Asset]
      BY <1>7, <2>2 DEF Delete
    <3>2. DOMAIN assets' \subseteq Asset /\ \A x \in DOMAIN assets' : assets'[x] \in Build
      BY <1>7, <2>2 DEF Delete
    <3>3. alone' \in [Run -> BOOLEAN]
      BY <1>7, <2>2 DEF Delete
    <3>4. UNCHANGED <<phase, pr, build, files, released, todo, torn, attested, signed, builds, breaks>>
      BY <1>7, <2>2 DEF Delete
    <3> QED BY <3>1, <3>2, <3>3, <3>4
  <2> QED BY <1>7, <2>1, <2>2 DEF Delete
<1>8. ASSUME NEW r \in Run, NEW a \in Asset, Put(r, a) PROVE ReleaseTypeOK'
  <2>1. build[r] \in Build
    BY <1>8 DEF Put, Build, Numbered, Publishing
  <2>2. DOMAIN assets' \subseteq Asset /\ \A x \in DOMAIN assets' : assets'[x] \in Build
    BY <1>8, <2>1 DEF Put
  <2>3. /\ todo' \in [Run -> SUBSET Asset] /\ existing' \in [Run -> SUBSET Asset]
        /\ lost' \in [Run -> SUBSET Asset] /\ torn' \subseteq Plain
    BY <1>8 DEF Put
  <2>4. alone' \in [Run -> BOOLEAN]
    BY <1>8 DEF Put
  <2>5. phase' \in [Run -> {"idle", "build", "attest", "sign", "look", "create",
                            "upload", "done", "failed"}]
    BY <1>8 DEF Put
  <2>6. UNCHANGED <<pr, build, files, released, attested, signed, builds, breaks>>
    BY <1>8 DEF Put
  <2> QED
    BY <2>2, <2>3, <2>4, <2>5, <2>6
<1>9. ASSUME NEW r \in Run, BreakRun(r) PROVE ReleaseTypeOK'
  <2>1. breaks' \in 0..MaxBreaks
    BY <1>9, ReleaseAssumption DEF BreakRun, ReleaseAssumption
  <2> QED
    BY <1>9, <2>1 DEF BreakRun
<1>10. ASSUME NEW r \in Run, Rerun(r) PROVE ReleaseTypeOK'
  BY <1>10 DEF Rerun
<1> QED
  BY <1>1, <1>2, <1>3, <1>4, <1>5, <1>6, <1>7, <1>8, <1>9, <1>10 DEF ReleaseNext

LEMMA NextNumbered ==
  ASSUME ReleaseTypeOK, Numbered, [ReleaseNext]_releaseVars
  PROVE  Numbered'
<1> DEFINE Moves(r, to) == /\ phase' = [phase EXCEPT ![r] = to]
                           /\ to \in Publishing => ~pr[r] /\ build[r] # 0
                           /\ to # "idle"
                           /\ UNCHANGED <<pr, build, builds>>
<1>1. CASE UNCHANGED releaseVars
  BY <1>1 DEF releaseVars, Numbered
<1>2. ASSUME NEW r \in Run, NEW to, Moves(r, to) PROVE Numbered'
  BY <1>2 DEF Numbered, ReleaseTypeOK
<1>3. ASSUME NEW r \in Run, Trigger(r) PROVE Numbered'
  BY <1>3 DEF Numbered, ReleaseTypeOK, Trigger, Goto, Publishing
<1>4. ASSUME NEW r \in Run, MakeFiles(r) PROVE Numbered'
  <2>1. phase' = [phase EXCEPT ![r] = IF ~pr[r] THEN "attest" ELSE "done"] /\ pr' = pr
    BY <1>4 DEF MakeFiles, Goto, MayPublish
  <2> QED
    BY <1>4, <2>1, NewBuild DEF Numbered, ReleaseTypeOK, Publishing
<1>5. ASSUME NEW r \in Run, BreakRun(r) \/ Rerun(r) PROVE Numbered'
  <2>1. \E to \in {"failed", "build", "attest"} : Moves(r, to)
    BY <1>5 DEF BreakRun, Rerun, Goto, Fail, remote, Publishing
  <2> QED
    BY <2>1, <1>2
<1>6. ASSUME NEW r \in Run, RecordProvenance(r) \/ SignFiles(r) \/ Look(r) PROVE Numbered'
  <2>1. phase[r] \in Publishing
    BY <1>6 DEF RecordProvenance, SignFiles, Look, Publishing
  <2>2. \E to \in {"sign", "look", "upload", "create"} : Moves(r, to)
    BY <1>6, <2>1 DEF RecordProvenance, SignFiles, Look, Goto, remote, Numbered
  <2> QED
    BY <2>2, <1>2
<1>7. ASSUME NEW r \in Run, Create(r) PROVE Numbered'
  <2>1. \E to \in {"done", "failed"} : Moves(r, to)
    BY <1>7 DEF Create, Goto, Fail, Publishing
  <2> QED
    BY <2>1, <1>2
<1>8. ASSUME NEW r \in Run, NEW a \in Asset, Delete(r, a) \/ Put(r, a) PROVE Numbered'
  <2>1. phase[r] = "upload"
    BY <1>8 DEF Delete, Put
  <2>2. UNCHANGED <<phase, pr, build, builds>> \/ \E to \in {"done", "failed", "upload"} : Moves(r, to)
    BY <1>8, <2>1 DEF Delete, Put, Goto, Fail, Publishing, Numbered
  <2> QED
    BY <2>2, <1>2 DEF Numbered
<1> QED
  BY <1>1, <1>3, <1>4, <1>5, <1>6, <1>7, <1>8 DEF ReleaseNext

(* The types of what the runs for a tag keep, and of what is on GitHub.    *)
THEOREM TypeCorrect == ReleaseSpec => []ReleaseTypeOK
BY InitNumbered, NextTypes, NextNumbered, PTL DEF ReleaseSpec

-----------------------------------------------------------------------------
LEMMA NextVouched ==
  ASSUME ReleaseTypeOK, Numbered, Vouched, [ReleaseNext]_releaseVars
  PROVE  Vouched'
<1> USE DEF Vouched, Assured
<1>1. CASE UNCHANGED releaseVars
  BY <1>1 DEF releaseVars
<1> DEFINE Same == UNCHANGED <<build, assets, attested, signed, builds>>
<1>2. ASSUME NEW r \in Run, Trigger(r) PROVE Vouched'
  <2>1. Same /\ build[r] = 0 /\ \A s \in Run \ {r} : pr'[s] = pr[s]
    BY <1>2 DEF ReleaseTypeOK, Numbered, Trigger, remote
  <2>2. \A a \in DOMAIN assets : assets[a] # 0
    BY DEF ReleaseTypeOK, Build
  <2>3. phase' = [phase EXCEPT ![r] = "build"]
    BY <1>2 DEF Trigger, Goto
  <2>4. Assured'
    BY <2>1, <2>2
  <2> QED
    BY <2>1, <2>3, <2>4 DEF ReleaseTypeOK
<1>3. ASSUME NEW r \in Run, BreakRun(r) \/ Rerun(r) PROVE Vouched'
  <2>1. Same /\ pr' = pr
    BY <1>3 DEF BreakRun, Rerun, remote
  <2>2. \E to \in {"failed", "build", "attest"} : phase' = [phase EXCEPT ![r] = to]
    BY <1>3 DEF BreakRun, Rerun, Goto, Fail
  <2> QED
    BY <2>1, <2>2 DEF ReleaseTypeOK
<1>4. ASSUME NEW r \in Run, MakeFiles(r) PROVE Vouched'
  <2>1. /\ phase' = [phase EXCEPT ![r] = IF ~pr[r] THEN "attest" ELSE "done"]
        /\ UNCHANGED <<pr, assets, attested, signed>>
    BY <1>4 DEF MakeFiles, Goto, MayPublish, remote
  <2>2. \A a \in DOMAIN assets : assets[a] \in Nat
    BY DEF ReleaseTypeOK, Build
  <2>3. Assured'
    BY <1>4, <2>1, <2>2, NewBuild
  <2> QED
    BY <1>4, <2>1, <2>2, <2>3, NewBuild DEF ReleaseTypeOK
<1>5. ASSUME NEW r \in Run, RecordProvenance(r) PROVE Vouched'
  BY <1>5 DEF ReleaseTypeOK, RecordProvenance, Goto, remote
<1>6. ASSUME NEW r \in Run, SignFiles(r) PROVE Vouched'
  BY <1>6 DEF ReleaseTypeOK, SignFiles, Goto, remote
<1>7. ASSUME NEW r \in Run, Look(r) PROVE Vouched'
  BY <1>7 DEF ReleaseTypeOK, Look, Goto
<1>8. ASSUME NEW r \in Run,
             Create(r) \/ \E a \in Asset : Delete(r, a) \/ Put(r, a)
      PROVE  Vouched'
  <2>1. phase[r] \in {"create", "upload"} /\ UNCHANGED <<pr, build, attested, signed, builds>>
    BY <1>8 DEF Create, Delete, Put
  <2> DEFINE OldOrOurs == \A a \in DOMAIN assets' :
        assets'[a] = build[r] \/ (a \in DOMAIN assets /\ assets'[a] = assets[a])
  <2>2. OldOrOurs
    <3>1. CASE Create(r)
      BY <3>1 DEF Create
    <3>2. ASSUME NEW d \in Asset, Delete(r, d) PROVE OldOrOurs
      BY <3>2 DEF Delete
    <3>3. ASSUME NEW d \in Asset, Put(r, d) PROVE OldOrOurs
      BY <3>3 DEF Put
    <3> QED
      BY <1>8, <3>1, <3>2, <3>3
  <2>3. \A s \in Run : phase'[s] \in {phase[s], "done", "failed", "upload"} /\ (s # r => phase'[s] = phase[s])
    <3>1. phase' = phase \/ \E to \in {"done", "failed", "upload"} : phase' = [phase EXCEPT ![r] = to]
      BY <1>8 DEF Create, Delete, Put, Goto, Fail
    <3> QED
      BY <3>1 DEF ReleaseTypeOK
  <2>4. \A s \in Run : pr[s] => build[s] # build[r]
    BY <2>1 DEF Numbered, Publishing
  <2>5. Assured'
    BY <2>1, <2>2, <2>4
  <2> QED
    BY <2>1, <2>2, <2>3, <2>5 DEF Numbered
<1> QED
  BY <1>1, <1>2, <1>3, <1>4, <1>5, <1>6, <1>7, <1>8 DEF ReleaseNext

LEMMA InitVouched == ReleaseInit => Vouched
BY DEF ReleaseInit, Vouched, Assured

-----------------------------------------------------------------------------
(* Steps of other runs: they do not touch what r has to put, and once they *)
(* touch the release, r is no longer alone.                                *)
LEMMA OthersKeepIt ==
  ASSUME ReleaseTypeOK, Numbered, NEW r \in Run, UpSoFar(r),
         phase'[r] = phase[r], pr'[r] = pr[r], build'[r] = build[r],
         todo'[r] = todo[r], existing'[r] = existing[r],
         build[r] # 0 => files'[build[r]] = files[build[r]],
         alone'[r] => alone[r] /\ (assets' = assets \/ phase[r] \notin {"upload", "done"})
  PROVE  UpSoFar(r)'
<1>1. phase[r] \in {"upload", "done"} => build[r] # 0
  BY DEF UpSoFar, Numbered, Publishing
<1>2. phase[r] \in {"upload", "done"} => ToUpload(r)' = ToUpload(r)
  BY <1>1 DEF ToUpload, Published
<1> QED
  BY <1>1, <1>2 DEF UpSoFar, Up

LEMMA ReleaseStep ==
  ASSUME ReleaseTypeOK, Numbered, \A r \in Run : UpSoFar(r),
         NEW r \in Run, Create(r) \/ \E a \in Asset : Delete(r, a) \/ Put(r, a)
  PROVE  \A s \in Run : UpSoFar(s)'
<1>1. /\ phase[r] \in {"create", "upload"} /\ UNCHANGED <<pr, build, files>>
      /\ \A s \in Run \ {r} : phase'[s] = phase[s] /\ todo'[s] = todo[s] /\ existing'[s] = existing[s]
  BY DEF ReleaseTypeOK, Create, Delete, Put, Goto, Fail
<1>2. \A s \in Run \ {r} :
        alone'[s] => alone[s] /\ (assets' = assets \/ phase[s] \notin {"upload", "done"})
  BY DEF ReleaseTypeOK, Create, Delete, Put, Goto, Fail, Others
<1>3. ASSUME NEW s \in Run \ {r} PROVE UpSoFar(s)'
  BY <1>1, <1>2, OthersKeepIt
<1>4. build[r] # 0 /\ build'[r] = build[r] /\ ToUpload(r)' = ToUpload(r)
  BY <1>1 DEF Numbered, Publishing, ToUpload, Published
<1>5. ASSUME Fail(r) PROVE UpSoFar(r)'
  BY <1>5 DEF Fail, Goto, ReleaseTypeOK, UpSoFar
<1>6. CASE Create(r)
  <2>1. ASSUME ~released, assets' = [a \in ToUpload(r) |-> build[r]], Goto(r, "done")
        PROVE  UpSoFar(r)'
    BY <1>4, <2>1 DEF Goto, ReleaseTypeOK, UpSoFar, Up
  <2> QED
    BY <1>3, <1>5, <1>6, <2>1 DEF Create
<1>7. ASSUME NEW d \in Asset, Delete(r, d) PROVE UpSoFar(r)'
  <2> SUFFICES ASSUME assets' = [x \in DOMAIN assets \ {d} |-> assets[x]],
                      existing' = [existing EXCEPT ![r] = @ \ {d}],
                      d \in existing[r], phase[r] = "upload",
                      Others(r), UNCHANGED <<phase, todo>>
               PROVE  UpSoFar(r)'
    BY <1>5, <1>7 DEF Delete
  <2>1. existing[r] \subseteq todo[r] /\ existing'[r] \subseteq todo[r]
    BY DEF UpSoFar, ReleaseTypeOK
  <2>2. ASSUME alone'[r] PROVE Up(r, ToUpload(r) \ todo[r])'
    <3>1. alone[r]
      BY <2>2 DEF Others, ReleaseTypeOK
    <3>2. Up(r, ToUpload(r) \ todo[r])
      BY <3>1 DEF UpSoFar
    <3> QED
      BY <1>4, <2>1, <3>2 DEF Up
  <2> QED
    BY <1>4, <2>1, <2>2 DEF UpSoFar
<1>8. ASSUME NEW d \in Asset, Put(r, d) PROVE UpSoFar(r)'
  <2> SUFFICES ASSUME assets' = [x \in DOMAIN assets \cup {d} |-> IF x = d THEN build[r] ELSE assets[x]],
                      todo' = [todo EXCEPT ![r] = @ \ {d}],
                      d \in todo[r] \ existing[r], phase[r] = "upload", existing' = existing,
                      Others(r), Goto(r, IF todo'[r] = {} THEN "done" ELSE "upload")
               PROVE  UpSoFar(r)'
    BY <1>5, <1>8 DEF Put
  <2>1. todo'[r] = todo[r] \ {d} /\ existing[r] \subseteq todo[r]
    BY DEF UpSoFar, ReleaseTypeOK
  <2>2. ASSUME alone'[r] PROVE Up(r, ToUpload(r) \ todo[r])'
    <3>1. alone[r]
      BY <2>2 DEF Others, ReleaseTypeOK
    <3>2. Up(r, ToUpload(r) \ todo[r])
      BY <3>1 DEF UpSoFar
    <3> QED
      BY <1>4, <2>1, <3>2 DEF Up
  <2>3. /\ phase'[r] \in {"done", "upload"}
        /\ phase'[r] = "done" => todo'[r] = {}
    BY DEF Goto, ReleaseTypeOK
  <2>4. CASE phase'[r] = "done"
    BY <1>4, <2>2, <2>3, <2>4 DEF UpSoFar, Up
  <2>5. CASE phase'[r] = "upload"
    BY <1>4, <2>1, <2>2, <2>5 DEF UpSoFar
  <2> QED
    BY <2>3, <2>4, <2>5
<1> QED
  BY <1>3, <1>6, <1>7, <1>8

LEMMA NextUpSoFar ==
  ASSUME ReleaseTypeOK, Numbered, \A r \in Run : UpSoFar(r), [ReleaseNext]_releaseVars
  PROVE  \A s \in Run : UpSoFar(s)'
<1>1. CASE UNCHANGED releaseVars
  BY <1>1 DEF releaseVars, UpSoFar, Up, ToUpload, Published
<1>2. ASSUME NEW r \in Run,
             Trigger(r) \/ RecordProvenance(r) \/ SignFiles(r) \/ Look(r) \/ BreakRun(r) \/ Rerun(r)
      PROVE  \A s \in Run : UpSoFar(s)'
  <2>1. ASSUME NEW s \in Run \ {r} PROVE UpSoFar(s)'
    <3>1. /\ phase'[s] = phase[s] /\ pr'[s] = pr[s] /\ build'[s] = build[s] /\ files' = files
          /\ todo'[s] = todo[s] /\ existing'[s] = existing[s] /\ assets' = assets
      BY <1>2 DEF ReleaseTypeOK, Trigger, RecordProvenance, SignFiles, Look, BreakRun, Rerun, Goto, Fail, remote
    <3>2. alone'[s] = alone[s]
      BY <1>2 DEF ReleaseTypeOK, Trigger, RecordProvenance, SignFiles, Look, BreakRun, Rerun, Goto, Fail, remote
    <3> QED
      BY <3>1, <3>2, OthersKeepIt
  <2>2. CASE Look(r)
    <3>1. /\ phase'[r] # "done" /\ existing'[r] \subseteq todo'[r]
          /\ phase'[r] = "upload" => todo'[r] = ToUpload(r)
          /\ ToUpload(r)' = ToUpload(r)
      BY <2>2 DEF Look, Goto, ReleaseTypeOK, ToUpload, Published
    <3> QED
      BY <2>1, <3>1 DEF UpSoFar, Up
  <2>3. CASE ~Look(r)
    <3>1. phase'[r] \notin {"upload", "done"}
      BY <1>2, <2>3 DEF ReleaseTypeOK, Trigger, RecordProvenance, SignFiles, BreakRun, Rerun, Goto, Fail
    <3> QED
      BY <2>1, <3>1 DEF UpSoFar
  <2> QED
    BY <2>2, <2>3
<1>3. ASSUME NEW r \in Run, MakeFiles(r) PROVE \A s \in Run : UpSoFar(s)'
  <2>1. /\ phase' = [phase EXCEPT ![r] = IF ~pr[r] THEN "attest" ELSE "done"]
        /\ UNCHANGED <<pr, assets, existing, todo, alone>>
    BY <1>3 DEF MakeFiles, Goto, MayPublish, remote
  <2>2. ASSUME NEW s \in Run \ {r} PROVE UpSoFar(s)'
    <3>1. build'[s] = build[s] /\ phase'[s] = phase[s]
      BY <1>3, <2>1, NewBuild DEF ReleaseTypeOK
    <3>2. build[s] # 0 => files'[build[s]] = files[build[s]]
      BY <1>3, NewBuild DEF ReleaseTypeOK, Numbered, Build
    <3> QED
      BY <2>1, <3>1, <3>2, OthersKeepIt
  <2>3. /\ phase'[r] # "upload" /\ build'[r] # 0
        /\ phase'[r] = "done" => pr'[r]
    BY <1>3, <2>1, NewBuild DEF ReleaseTypeOK
  <2> QED
    BY <2>2, <2>3 DEF UpSoFar
<1> QED
  BY <1>1, <1>2, <1>3, ReleaseStep DEF ReleaseNext

LEMMA InitUpSoFar == ReleaseInit => \A r \in Run : UpSoFar(r)
BY DEF ReleaseInit, UpSoFar

(* A run that succeeded has left all its files, the checksums that list    *)
(* them and, if it signs, every bundle, unless another run wrote to the    *)
(* release in between.                                                     *)
THEOREM SuccessLeavesAll == ReleaseSpec => []SuccessIsComplete
<1> DEFINE AllUpSoFar == \A r \in Run : UpSoFar(r)
<1>1. AllUpSoFar => SuccessIsComplete
  BY DEF UpSoFar, Up, SuccessIsComplete, MayPublish, ToUpload
<1>2. ReleaseInit => AllUpSoFar
  BY InitUpSoFar
<1>3. ReleaseTypeOK /\ Numbered /\ AllUpSoFar /\ [ReleaseNext]_releaseVars => AllUpSoFar'
  BY NextUpSoFar
<1> HIDE DEF AllUpSoFar
<1> QED
  BY <1>1, <1>2, <1>3, InitNumbered, NextTypes, NextNumbered, PTL DEF ReleaseSpec
-----------------------------------------------------------------------------
(* A file and its bundle.  A run is working at a file until both parts of  *)
(* it are up; for each part it still has to put, it sees what is there, or *)
(* another run has deleted that, or the place is due to it.                *)
Working(s, f) == Beside(f) \cap todo[s] # {}
Sees(s, a) == a \in existing[s] \ lost[s]
Owes(s, a) == a \in todo[s] \ existing[s]

UploadShape ==
  /\ \A s \in Run : /\ todo[s] # {} => phase[s] = "upload" /\ released
                   /\ existing[s] \subseteq todo[s] /\ lost[s] \subseteq existing[s]
                   /\ \A a \in Asset : Sees(s, a) => a \in DOMAIN assets
  /\ torn # {} => released

(* Somebody will fail at the file: what it has to delete is gone, or more  *)
(* than one have to put where there is room for one.  Only failing ends it.*)
Doomed(f) == \E a \in Beside(f) :
  \/ \E s \in Run : a \in lost[s]
  \/ a \in DOMAIN assets /\ \E s \in Run : Owes(s, a)
  \/ \E s, t \in Run : s # t /\ Owes(s, a) /\ Owes(t, a)

(* While nobody is: of two runs at the file each has not put another part; *)
(* what a run has put is still there, or somebody sees what it sees, and   *)
(* one of the two will fail; and with nobody at it the parts match.        *)
Coherent(f) ==
  /\ \A s, t \in Run : \A a, b \in Beside(f) :
       s # t /\ a # b /\ Working(s, f) /\ Working(t, f) => a \in todo[s] \/ b \in todo[t]
  /\ \A s \in Run : \A a, b \in Beside(f) :
       a # b /\ Working(s, f) /\ b \notin todo[s] =>
         \/ b \in DOMAIN assets /\ assets[b] = build[s]
         \/ \E t \in Run : t # s /\ Sees(t, a)
  /\ (\A s \in Run : ~Working(s, f)) => Paired(f)

Matched(f) == f \in torn \/ Doomed(f) \/ Coherent(f)

(* Whoever sees what a run that is alone has put looked after it, and has  *)
(* put nothing since.                                                      *)
Untouched ==
  \A x, y \in Run : \A f \in Plain : \A a \in Beside(f) :
    /\ x # y /\ phase[x] = "upload" /\ alone[x] /\ a \in ToUpload(x) \ todo[x]
    /\ Sees(y, a)
    => Beside(f) \subseteq todo[y]

LEMMA TwoParts ==
  ASSUME NEW f
  PROVE  /\ \A a, b, c \in Beside(f) : a # b => c = a \/ c = b
         /\ \A a \in Beside(f) : \E b \in Beside(f) : a # b
         /\ \A g : \A a \in Beside(f) : a \in Beside(g) => g = f
BY DEF Beside

LEMMA InitMatched == ReleaseInit => UploadShape /\ Untouched /\ \A f \in Plain : Matched(f)
<1> SUFFICES ASSUME ReleaseInit PROVE UploadShape /\ Untouched /\ \A f \in Plain : Matched(f)
  OBVIOUS
<1>1. /\ \A s \in Run : todo[s] = {} /\ existing[s] = {} /\ lost[s] = {} /\ phase[s] = "idle"
      /\ torn = {} /\ DOMAIN assets = {}
  BY DEF ReleaseInit
<1>2. UploadShape
  BY <1>1 DEF UploadShape, Sees
<1>3. Untouched
  BY <1>1 DEF Untouched, Sees
<1>4. ASSUME NEW f \in Plain PROVE Coherent(f)
  BY <1>1 DEF Coherent, Working, Paired
<1> QED BY <1>2, <1>3, <1>4 DEF Matched

(* What a step does to a run's list.                                       *)
LEMMA NextShape ==
  ASSUME ReleaseTypeOK, UploadShape, [ReleaseNext]_releaseVars
  PROVE  UploadShape'
<1> USE DEF UploadShape, Sees, ReleaseTypeOK
<1>1. CASE UNCHANGED releaseVars
  BY <1>1 DEF releaseVars
<1>2. ASSUME NEW r \in Run,
             Trigger(r) \/ MakeFiles(r) \/ RecordProvenance(r) \/ SignFiles(r) \/ Rerun(r)
      PROVE  UploadShape'
  <2>1. phase[r] # "upload" /\ todo[r] = {} /\ UNCHANGED remote
    BY <1>2 DEF Trigger, MakeFiles, RecordProvenance, SignFiles, Rerun
  <2>2. \A s \in Run : s # r => phase'[s] = phase[s]
    BY <1>2 DEF Trigger, MakeFiles, RecordProvenance, SignFiles, Rerun, Goto
  <2> QED BY <2>1, <2>2 DEF remote
<1>3. ASSUME NEW r \in Run, Fail(r), UNCHANGED <<assets, released>> PROVE UploadShape'
  <2>1. \A s \in Run : IF s = r THEN todo'[s] = {} /\ existing'[s] = {} /\ lost'[s] = {}
                       ELSE UNCHANGED <<phase[s], todo[s], existing[s], lost[s]>>
    BY <1>3 DEF Fail, Goto
  <2>2. torn' # {} => released
    BY <1>3 DEF Fail
  <2> QED BY <1>3, <2>1, <2>2
<1>4. ASSUME NEW r \in Run, Look(r) PROVE UploadShape'
  <2>1. todo[r] = {} /\ existing[r] = {} /\ lost[r] = {}
    BY <1>4 DEF Look
  <2> QED BY <1>4, <2>1 DEF Look, Goto
<1>5. ASSUME NEW r \in Run, Create(r) PROVE UploadShape'
  <2>1. CASE released
    BY <1>3, <1>5, <2>1 DEF Create
  <2>2. CASE ~released
    <3>1. \A s \in Run : todo[s] = {} /\ existing[s] = {} /\ lost[s] = {}
      BY <2>2
    <3> QED BY <1>5, <2>2, <3>1 DEF Create
  <2> QED BY <2>1, <2>2
<1>6. ASSUME NEW r \in Run, NEW d \in Asset, Delete(r, d), d \notin lost[r] PROVE UploadShape'
  <2>1. /\ assets' = [x \in DOMAIN assets \ {d} |-> assets[x]]
        /\ \A s \in Run : existing'[s] = IF s = r THEN existing[s] \ {d} ELSE existing[s]
        /\ \A s \in Run : lost'[s] = IF s # r THEN lost[s] \cup ({d} \cap existing[s]) ELSE lost[s]
        /\ UNCHANGED <<phase, todo, torn, released>>
    BY <1>6 DEF Delete
  <2>2. \A s \in Run : existing'[s] \subseteq todo'[s] /\ lost'[s] \subseteq existing'[s]
    BY <1>6, <2>1
  <2>3. ASSUME NEW s \in Run, NEW a \in Asset, a \in existing'[s] \ lost'[s] PROVE a \in DOMAIN assets'
    BY <2>1, <2>3
  <2> QED BY <2>1, <2>2, <2>3
<1>7. ASSUME NEW r \in Run, NEW d \in Asset, Put(r, d), d \notin DOMAIN assets PROVE UploadShape'
  <2>1. /\ assets' = [x \in DOMAIN assets \cup {d} |-> IF x = d THEN build[r] ELSE assets[x]]
        /\ \A s \in Run : todo'[s] = IF s = r THEN todo[s] \ {d} ELSE todo[s]
        /\ UNCHANGED <<existing, lost, released>> /\ d \notin existing[r] /\ released
        /\ \A s \in Run : phase'[s] = IF s = r THEN (IF todo'[r] = {} THEN "done" ELSE "upload")
                                      ELSE phase[s]
    BY <1>7 DEF Put, Goto
  <2> QED BY <2>1
<1> QED
  BY <1>1, <1>2, <1>3, <1>4, <1>5, <1>6, <1>7 DEF ReleaseNext, BreakRun, Delete, Put

LEMMA NextUntouched ==
  ASSUME ReleaseTypeOK, Numbered, UploadShape, Sign, Untouched, [ReleaseNext]_releaseVars
  PROVE  Untouched'
<1> DEFINE Kept(x, y, f) == \A a \in Beside(f) :
        /\ x # y /\ phase[x] = "upload" /\ alone[x] /\ a \in ToUpload(x) \ todo[x]
        /\ Sees(y, a)
        => Beside(f) \subseteq todo[y]
<1>0. Untouched <=> \A x, y \in Run : \A f \in Plain : Kept(x, y, f)
  BY DEF Untouched
<1>a. \A x \in Run : phase[x] = "upload" => build[x] # 0 /\ build[x] \in Build
  BY DEF Numbered, Publishing, ReleaseTypeOK, Build
<1>b. ASSUME NEW x \in Run, NEW y \in Run, NEW f \in Plain,
             phase'[x] = "upload" /\ alone'[x] =>
               /\ phase[x] = "upload" /\ alone[x] /\ todo'[x] = todo[x]
               /\ ToUpload(x)' = ToUpload(x),
             \A a \in Beside(f) : Sees(y, a)' => Sees(y, a), todo'[y] = todo[y]
      PROVE  Kept(x, y, f)'
  <2>1. Kept(x, y, f)
    BY <1>0
  <2> QED BY <1>b, <2>1
<1> HIDE DEF Kept
<1>1. CASE UNCHANGED releaseVars
  BY <1>1 DEF releaseVars, Untouched, Sees, ToUpload, Published
<1>2. ASSUME NEW r \in Run,
             Trigger(r) \/ MakeFiles(r) \/ RecordProvenance(r) \/ SignFiles(r) \/ Rerun(r)
      PROVE  Untouched'
  <2>1. UNCHANGED <<todo, existing, lost, alone>>
    BY <1>2 DEF Trigger, MakeFiles, RecordProvenance, SignFiles, Rerun, remote
  <2>2. \A x \in Run : phase'[x] = "upload" => phase[x] = "upload" /\ x # r
    BY <1>2 DEF Trigger, MakeFiles, RecordProvenance, SignFiles, Rerun, Goto, ReleaseTypeOK
  <2>3. \A x \in Run : phase'[x] = "upload" => build'[x] = build[x] /\ files'[build[x]] = files[build[x]]
    <3>1. CASE MakeFiles(r)
      BY <1>a, <2>2, <3>1, NewBuild DEF Numbered
    <3>2. CASE ~MakeFiles(r)
      BY <1>2, <3>2 DEF Trigger, RecordProvenance, SignFiles, Rerun
    <3> QED BY <3>1, <3>2
  <2>4. \A x \in Run : phase'[x] = "upload" => ToUpload(x)' = ToUpload(x)
    BY <2>3 DEF ToUpload, Published
  <2>5. ASSUME NEW x \in Run, NEW y \in Run, NEW f \in Plain PROVE Kept(x, y, f)'
    BY <1>b, <2>1, <2>2, <2>4 DEF Sees
  <2> QED BY <1>0, <2>5 DEF Untouched, Kept
<1>c. ASSUME UNCHANGED <<build, files>> PROVE \A x : ToUpload(x)' = ToUpload(x)
  BY <1>c DEF ToUpload, Published
<1>3. ASSUME NEW r \in Run, Fail(r), UNCHANGED <<build, files>> PROVE Untouched'
  <2>1. \A s \in Run : IF s = r THEN phase'[s] = "failed" /\ existing'[s] = {}
                       ELSE UNCHANGED <<phase[s], todo[s], existing[s], lost[s], alone[s]>>
    BY <1>3 DEF Fail, Goto, ReleaseTypeOK
  <2>2. ASSUME NEW x \in Run, NEW y \in Run, NEW f \in Plain PROVE Kept(x, y, f)'
    <3>1. CASE y = r
      BY <2>1, <3>1 DEF Kept, Sees
    <3>2. CASE y # r
      BY <1>3, <1>b, <1>c, <2>1, <3>2 DEF Sees
    <3> QED BY <3>1, <3>2
  <2> QED BY <2>2 DEF Untouched, Kept
<1>4. ASSUME NEW r \in Run, Look(r) PROVE Untouched'
  <2>1. /\ \A s \in Run : s # r => UNCHANGED <<phase[s], todo[s], existing[s], lost[s], alone[s]>>
        /\ phase'[r] = "upload" => todo'[r] = ToUpload(r)
        /\ todo'[r] \in {{}, ToUpload(r)} /\ existing'[r] \subseteq todo'[r]
    <3>1. /\ phase' = [phase EXCEPT ![r] = IF released THEN "upload" ELSE "create"]
          /\ todo' = [todo EXCEPT ![r] = IF released THEN ToUpload(r) ELSE {}]
          /\ existing' = [existing EXCEPT ![r] = DOMAIN assets \cap todo'[r]]
          /\ alone' = [alone EXCEPT ![r] = TRUE] /\ lost' = lost
      BY <1>4 DEF Look, Goto
    <3>2. todo'[r] = IF released THEN ToUpload(r) ELSE {}
      BY <3>1 DEF ReleaseTypeOK
    <3>3. phase'[r] = "upload" => released
      BY <3>1 DEF ReleaseTypeOK
    <3>4. existing'[r] = DOMAIN assets \cap todo'[r]
      BY <3>1 DEF ReleaseTypeOK
    <3>5. \A s \in Run : s # r => UNCHANGED <<phase[s], todo[s], existing[s], lost[s], alone[s]>>
      BY <3>1 DEF ReleaseTypeOK
    <3>6. /\ phase'[r] = "upload" => todo'[r] = ToUpload(r)
          /\ todo'[r] \in {{}, ToUpload(r)}
      BY <3>2, <3>3
    <3>7. existing'[r] \subseteq todo'[r]
      BY <3>4
    <3> QED BY <3>5, <3>6, <3>7, Zenon
  <2>a. \A x : ToUpload(x)' = ToUpload(x)
    BY <1>4, <1>c DEF Look
  <2>2. ASSUME NEW x \in Run, NEW y \in Run, NEW f \in Plain PROVE Kept(x, y, f)'
    <3>1. CASE x = r
      BY <2>1, <2>a, <3>1 DEF Kept
    <3>2. CASE x # r /\ y = r
      <4>1. ASSUME NEW a \in Beside(f), a \in existing'[r] PROVE Beside(f) \subseteq todo'[r]
        <5>1. a \in ToUpload(r) /\ todo'[r] = ToUpload(r)
          BY <2>1, <4>1
        <5>2. Beside(f) \subseteq ToUpload(r)
          BY <4>1, <5>1 DEF ToUpload, Beside
        <5> QED BY <5>1, <5>2
      <4> QED BY <3>2, <4>1 DEF Kept, Sees
    <3>3. CASE x # r /\ y # r
      BY <1>b, <2>1, <2>a, <3>3 DEF Sees
    <3> QED BY <3>1, <3>2, <3>3
  <2> QED BY <2>2 DEF Untouched, Kept
<1>5. ASSUME NEW r \in Run, Create(r), ~released PROVE Untouched'
  <2>1. \A s \in Run : existing[s] = {}
    BY <1>5 DEF UploadShape
  <2>2. existing' = existing
    BY <1>5 DEF Create
  <2> QED BY <2>1, <2>2 DEF Untouched, Sees
<1>6. ASSUME NEW r \in Run, NEW d \in Asset, Delete(r, d), d \notin lost[r] PROVE Untouched'
  <2>1. /\ \A s \in Run : existing'[s] \subseteq existing[s] /\ lost[s] \subseteq lost'[s]
        /\ UNCHANGED <<phase, todo, build, files>>
        /\ \A x \in Run : phase[x] = "upload" /\ alone'[x] => x = r /\ alone[x]
    <3>1. /\ existing' = [existing EXCEPT ![r] = @ \ {d}]
          /\ lost' = [s \in Run |-> IF s # r THEN lost[s] \cup ({d} \cap existing[s]) ELSE lost[s]]
          /\ UNCHANGED <<phase, todo, build, files>> /\ Others(r)
      BY <1>6 DEF Delete
    <3>2. \A s \in Run : existing'[s] \subseteq existing[s] /\ lost[s] \subseteq lost'[s]
      BY <3>1 DEF ReleaseTypeOK
    <3>3. \A x \in Run : phase[x] = "upload" /\ alone'[x] => x = r /\ alone[x]
      BY <3>1 DEF Others
    <3> QED BY <3>1, <3>2, <3>3
  <2>2. ASSUME NEW x \in Run, NEW y \in Run, NEW f \in Plain PROVE Kept(x, y, f)'
    BY <1>b, <1>c, <2>1 DEF Sees
  <2> QED BY <2>2 DEF Untouched, Kept
<1>7. ASSUME NEW r \in Run, NEW d \in Asset, Put(r, d), d \notin DOMAIN assets PROVE Untouched'
  <2>1. /\ UNCHANGED <<existing, lost, build, files>>
        /\ \A s \in Run : todo'[s] = IF s = r THEN todo[s] \ {d} ELSE todo[s]
        /\ \A x \in Run : phase'[x] = "upload" /\ alone'[x] =>
             x = r /\ phase[x] = "upload" /\ alone[x]
    BY <1>7 DEF Put, Others, Goto, ReleaseTypeOK
  <2>2. \A y \in Run : ~Sees(y, d)
    BY <1>7 DEF UploadShape
  <2>3. ASSUME NEW x \in Run, NEW y \in Run, NEW f \in Plain PROVE Kept(x, y, f)'
    <3> SUFFICES ASSUME NEW a \in Beside(f), x # y, phase'[x] = "upload", alone'[x],
                        a \in ToUpload(x)' \ todo'[x], Sees(y, a)'
                 PROVE  Beside(f) \subseteq todo'[y]
      BY DEF Kept
    <3>1. x = r /\ phase[x] = "upload" /\ alone[x] /\ Sees(y, a) /\ todo'[y] = todo[y]
      BY <2>1 DEF Sees
    <3>2. a # d
      BY <2>2, <3>1
    <3>3. a \in ToUpload(x) \ todo[x]
      BY <1>c, <2>1, <3>1, <3>2
    <3> QED BY <3>1, <3>3 DEF Untouched
  <2> QED BY <2>3 DEF Untouched, Kept
<1> QED
  <2>1. \A r \in Run : BreakRun(r) => Fail(r) /\ UNCHANGED <<build, files>>
    BY DEF BreakRun
  <2>2. \A r \in Run : Create(r) => ~released \/ (Fail(r) /\ UNCHANGED <<build, files>>)
    BY DEF Create
  <2>3. \A r \in Run : \A d \in Asset : Delete(r, d) => d \notin lost[r] \/ (Fail(r) /\ UNCHANGED <<build, files>>)
    BY DEF Delete
  <2>4. \A r \in Run : \A d \in Asset : Put(r, d) => d \notin DOMAIN assets \/ (Fail(r) /\ UNCHANGED <<build, files>>)
    BY DEF Put
  <2> QED BY <1>1, <1>2, <1>3, <1>4, <1>5, <1>6, <1>7, <2>1, <2>2, <2>3, <2>4 DEF ReleaseNext

-----------------------------------------------------------------------------
(* One file's part of a step that changes none of what is kept of it.      *)
LEMMA NotThatFile ==
  ASSUME UploadShape, NEW f, Matched(f),
         \A s \in Run : Working(s, f) => build'[s] = build[s],
         \A s \in Run : \A a \in Beside(f) : /\ a \in todo'[s] <=> a \in todo[s]
                                             /\ a \in existing'[s] <=> a \in existing[s]
                                             /\ a \in lost'[s] <=> a \in lost[s],
         \A a \in Beside(f) : /\ a \in DOMAIN assets' <=> a \in DOMAIN assets
                              /\ a \in DOMAIN assets => assets'[a] = assets[a],
         f \in torn => f \in torn'
  PROVE  Matched(f)'
<1>1. CASE f \in torn
  BY <1>1 DEF Matched
<1>2. CASE Doomed(f)
  <2>1. Doomed(f)'
    BY <1>2 DEF Doomed, Owes
  <2> QED BY <2>1 DEF Matched
<1>3. CASE Coherent(f)
  <2>1. \A s \in Run : Working(s, f)' <=> Working(s, f)
    BY DEF Working
  <2>2. Paired(f) => Paired(f)'
    BY DEF Paired
  <2>3. \A s \in Run : \A a \in Beside(f) : Sees(s, a)' <=> Sees(s, a)
    BY DEF Sees
  <2>4. Coherent(f)'
    BY <1>3, <2>1, <2>2, <2>3 DEF Coherent
  <2> QED BY <2>4 DEF Matched
<1> QED BY <1>1, <1>2, <1>3 DEF Matched

LEMMA MatchedLook ==
  ASSUME ReleaseTypeOK, UploadShape, Sign, NEW f \in Plain, Matched(f), NEW r \in Run, Look(r)
  PROVE  Matched(f)'
<1>1. /\ todo[r] = {} /\ existing[r] = {} /\ lost[r] = {}
      /\ \A s \in Run : s # r => UNCHANGED <<todo[s], existing[s], lost[s]>>
      /\ lost'[r] = {} /\ todo'[r] \in {{}, ToUpload(r)}
      /\ UNCHANGED <<assets, build, torn>>
  BY DEF Look, UploadShape, ReleaseTypeOK
<1>2. ~Working(r, f) /\ \A s \in Run : s # r => (Working(s, f)' <=> Working(s, f))
  BY <1>1 DEF Working
<1>3. \A a, b \in Beside(f) : Working(r, f)' => a \in todo'[r]
  <2>1. \A a, b \in Beside(f) : b \in ToUpload(r) => a \in ToUpload(r)
    BY DEF ToUpload, Beside
  <2> QED BY <1>1, <2>1 DEF Working
<1>4. \A t \in Run : \A a \in Beside(f) : Sees(t, a) => t # r /\ Sees(t, a)'
  BY <1>1 DEF Sees
<1>5. CASE f \in torn
  BY <1>1, <1>5 DEF Matched
<1>6. CASE Doomed(f)
  <2>1. Doomed(f)'
    BY <1>1, <1>6 DEF Doomed, Owes
  <2> QED BY <2>1 DEF Matched
<1>7. CASE Coherent(f)
  <2>1. Paired(f)' <=> Paired(f)
    BY <1>1 DEF Paired
  <2>2. ASSUME NEW s \in Run, NEW t \in Run, NEW a \in Beside(f), NEW b \in Beside(f),
               s # t, a # b, Working(s, f)', Working(t, f)'
        PROVE  a \in todo'[s] \/ b \in todo'[t]
    BY <1>1, <1>2, <1>3, <1>7, <2>2 DEF Coherent
  <2>3. ASSUME NEW s \in Run, NEW a \in Beside(f), NEW b \in Beside(f),
               a # b, Working(s, f)', b \notin todo'[s]
        PROVE  \/ b \in DOMAIN assets' /\ assets'[b] = build'[s]
               \/ \E t \in Run : t # s /\ Sees(t, a)'
    <3>1. s # r /\ Working(s, f) /\ b \notin todo[s]
      BY <1>1, <1>2, <1>3, <2>3
    <3>2. \/ b \in DOMAIN assets /\ assets[b] = build[s]
          \/ \E t \in Run : t # s /\ Sees(t, a)
      BY <1>7, <2>3, <3>1 DEF Coherent
    <3> QED BY <1>1, <1>4, <3>2
  <2>4. (\A s \in Run : ~Working(s, f)') => Paired(f)'
    BY <1>2, <1>7, <2>1 DEF Coherent
  <2>5. Coherent(f)'
    BY <2>2, <2>3, <2>4 DEF Coherent
  <2> QED BY <2>5 DEF Matched
<1> QED BY <1>5, <1>6, <1>7 DEF Matched

LEMMA MatchedFail ==
  ASSUME ReleaseTypeOK, UploadShape, NEW f \in Plain, Matched(f), NEW r \in Run, Fail(r),
         UNCHANGED <<assets, build>>
  PROVE  Matched(f)'
<1>1. \A s \in Run : IF s = r THEN todo'[s] = {} /\ existing'[s] = {} /\ lost'[s] = {}
                     ELSE UNCHANGED <<todo[s], existing[s], lost[s]>>
  BY DEF Fail, ReleaseTypeOK
<1>2. torn' = torn \cup {g \in Plain : Beside(g) \cap todo[r] # {}}
  BY DEF Fail
<1>3. CASE Working(r, f)
  BY <1>2, <1>3 DEF Working, Matched
<1>4. CASE ~Working(r, f)
  <2>1. \A a \in Beside(f) : a \notin todo[r] /\ a \notin existing[r] /\ a \notin lost[r]
    BY <1>4 DEF Working, UploadShape
  <2>2. \A s \in Run : \A a \in Beside(f) : /\ a \in todo'[s] <=> a \in todo[s]
                                            /\ a \in existing'[s] <=> a \in existing[s]
                                            /\ a \in lost'[s] <=> a \in lost[s]
    BY <1>1, <2>1
  <2> QED BY <1>2, <2>2, NotThatFile
<1> QED BY <1>3, <1>4

LEMMA MatchedCreate ==
  ASSUME ReleaseTypeOK, UploadShape, NEW f \in Plain, NEW r \in Run, Create(r), ~released, Sign
  PROVE  Matched(f)'
<1>1. \A s \in Run : todo'[s] = {}
  BY DEF UploadShape, Create
<1>2. assets' = [a \in ToUpload(r) |-> build[r]]
  BY DEF Create
<1>3. Beside(f) \subseteq ToUpload(r) \/ Beside(f) \cap ToUpload(r) = {}
  BY DEF ToUpload, Beside
<1>4. Paired(f)'
  BY <1>2, <1>3 DEF Paired
<1>5. Coherent(f)'
  BY <1>1, <1>4 DEF Coherent, Working
<1> QED BY <1>5 DEF Matched

LEMMA MatchedDelete ==
  ASSUME ReleaseTypeOK, UploadShape, NEW f \in Plain, Matched(f), NEW r \in Run,
         NEW d \in Asset, Delete(r, d), d \notin lost[r]
  PROVE  Matched(f)'
<1>1. /\ assets' = [x \in DOMAIN assets \ {d} |-> assets[x]]
      /\ \A s \in Run : existing'[s] = IF s = r THEN existing[s] \ {d} ELSE existing[s]
      /\ \A s \in Run : lost'[s] = IF s # r THEN lost[s] \cup ({d} \cap existing[s]) ELSE lost[s]
      /\ UNCHANGED <<todo, torn, build>> /\ d \in existing[r]
  BY DEF Delete, ReleaseTypeOK
<1>2. CASE d \notin Beside(f)
  <2>1. \A s \in Run : \A a \in Beside(f) : /\ a \in todo'[s] <=> a \in todo[s]
                                            /\ a \in existing'[s] <=> a \in existing[s]
                                            /\ a \in lost'[s] <=> a \in lost[s]
    BY <1>1, <1>2
  <2>2. \A a \in Beside(f) : /\ a \in DOMAIN assets' <=> a \in DOMAIN assets
                             /\ a \in DOMAIN assets => assets'[a] = assets[a]
    BY <1>1, <1>2
  <2> QED BY <1>1, <2>1, <2>2, NotThatFile
<1>3. CASE f \in torn
  BY <1>1, <1>3 DEF Matched
<1>4. CASE d \in Beside(f) /\ Doomed(f)
  <2>1. PICK a \in Beside(f) :
          \/ \E s \in Run : a \in lost[s]
          \/ a \in DOMAIN assets /\ \E s \in Run : Owes(s, a)
          \/ \E s, t \in Run : s # t /\ Owes(s, a) /\ Owes(t, a)
    BY <1>4 DEF Doomed
  <2>2. \A s \in Run : Owes(s, a) => Owes(s, a)'
    BY <1>1 DEF Owes
  <2>3. CASE \E s \in Run : a \in lost[s]
    <3>1. \E s \in Run : a \in lost'[s]
      BY <1>1, <2>3
    <3> QED BY <3>1 DEF Doomed, Matched
  <2>4. CASE a # d /\ a \in DOMAIN assets /\ \E s \in Run : Owes(s, a)
    <3>1. a \in DOMAIN assets'
      BY <1>1, <2>4
    <3> QED BY <2>2, <2>4, <3>1 DEF Doomed, Matched
  <2>5. CASE a = d /\ \E s \in Run : Owes(s, a)
    <3>1. PICK s \in Run : Owes(s, d)
      BY <2>5
    <3>2. s # r /\ Owes(s, d)' /\ Owes(r, d)'
      BY <1>1, <3>1 DEF Owes, UploadShape
    <3> QED BY <1>4, <3>2 DEF Doomed, Matched
  <2>6. CASE \E s, t \in Run : s # t /\ Owes(s, a) /\ Owes(t, a)
    BY <2>2, <2>6 DEF Doomed, Matched
  <2> QED BY <2>1, <2>3, <2>4, <2>5, <2>6
<1>5. CASE d \in Beside(f) /\ Coherent(f) /\ ~Doomed(f) /\ ~Doomed(f)'
  <2>1. d \in DOMAIN assets /\ d \in todo[r]
    BY <1>1 DEF UploadShape, Sees
  <2>2. ASSUME NEW t \in Run, t # r PROVE d \notin todo[t]
    <3>1. d \notin existing[t]
      BY <1>1, <1>5, <2>2 DEF Doomed
    <3>2. ~Owes(t, d)
      BY <1>5, <2>1 DEF Doomed
    <3> QED BY <3>1, <3>2 DEF Owes
  <2>3. \A s \in Run : (Working(s, f)' <=> Working(s, f)) /\ Working(r, f)
    BY <1>1, <1>5, <2>1 DEF Working
  <2>4. ASSUME NEW s \in Run, NEW t \in Run, NEW a \in Beside(f), NEW b \in Beside(f),
               s # t, a # b, Working(s, f)', Working(t, f)'
        PROVE  a \in todo'[s] \/ b \in todo'[t]
    BY <1>1, <1>5, <2>3, <2>4 DEF Coherent
  <2>5. ASSUME NEW s \in Run, NEW a \in Beside(f), NEW b \in Beside(f),
               a # b, Working(s, f)', b \notin todo'[s]
        PROVE  \/ b \in DOMAIN assets' /\ assets'[b] = build'[s]
               \/ \E t \in Run : t # s /\ Sees(t, a)'
    <3>1. a \in todo[s]
      BY <1>1, <2>3, <2>5, TwoParts DEF Working
    <3>2. \/ b \in DOMAIN assets /\ assets[b] = build[s]
          \/ \E t \in Run : t # s /\ Sees(t, a)
      BY <1>1, <1>5, <2>3, <2>5 DEF Coherent
    <3>3. CASE a = d
      <4>1. s = r
        BY <2>2, <3>1, <3>3
      <4>2. \A t \in Run : t # s => ~Sees(t, a)
        BY <2>2, <3>3, <4>1 DEF Sees, UploadShape
      <4> QED BY <1>1, <2>5, <3>2, <3>3, <4>2
    <3>4. CASE a # d
      <4>1. b = d /\ s # r
        BY <1>1, <1>5, <2>1, <2>5, <3>4, TwoParts
      <4>2. a \in todo[r]
        BY <1>1, <1>5, <2>3, <2>5, <4>1 DEF Coherent
      <4>3. a \notin lost[r] /\ a \notin lost[s]
        BY <1>5 DEF Doomed
      <4>4. ~(Owes(r, a) /\ Owes(s, a)) /\ (a \in DOMAIN assets => ~Owes(r, a) /\ ~Owes(s, a))
        BY <1>5, <4>1 DEF Doomed
      <4>5. Sees(r, a) \/ Sees(s, a)
        BY <3>1, <4>2, <4>3, <4>4 DEF Sees, Owes
      <4>6. a \in DOMAIN assets
        BY <1>5, <4>5 DEF UploadShape, Beside, Asset
      <4>7. Sees(r, a)
        BY <4>2, <4>3, <4>4, <4>6 DEF Sees, Owes
      <4>8. Sees(r, a)'
        BY <1>1, <3>4, <4>7 DEF Sees
      <4> QED BY <4>1, <4>8
    <3> QED BY <3>3, <3>4
  <2>6. Coherent(f)'
    BY <2>3, <2>4, <2>5 DEF Coherent
  <2> QED BY <2>6 DEF Matched
<1> QED BY <1>2, <1>3, <1>4, <1>5 DEF Matched

LEMMA MatchedPut ==
  ASSUME ReleaseTypeOK, Numbered, UploadShape, Untouched, Sign, NEW f \in Plain, Matched(f),
         NEW r \in Run, UpSoFar(r), NEW d \in Asset, Put(r, d), d \notin DOMAIN assets
  PROVE  Matched(f)'
<1>1. /\ assets' = [x \in DOMAIN assets \cup {d} |-> IF x = d THEN build[r] ELSE assets[x]]
      /\ \A s \in Run : todo'[s] = IF s = r THEN todo[s] \ {d} ELSE todo[s]
      /\ UNCHANGED <<existing, lost, build, files>> /\ d \in todo[r] \ existing[r]
      /\ phase[r] = "upload"
  BY DEF Put, ReleaseTypeOK
<1>2. torn' = IF todo'[r] = {} /\ alone[r] THEN torn \ Published(r) ELSE torn
  BY DEF Put
<1>3. Owes(r, d) /\ \A t \in Run : ~Sees(t, d)
  BY <1>1 DEF Owes, UploadShape
<1>4. \A s \in Run : \A a \in Beside(f) : a # d \/ s # r => (Owes(s, a)' <=> Owes(s, a))
  BY <1>1 DEF Owes
(* Mended: all that the run has put is there, and whoever is at the file   *)
(* has only looked at it.                                                  *)
<1>5. CASE f \in torn /\ f \notin torn'
  <2>1. todo'[r] = {} /\ alone[r] /\ f \in Published(r) /\ todo[r] = {d}
    <3>1. todo'[r] = {} /\ alone[r] /\ f \in Published(r)
      BY <1>2, <1>5
    <3> QED BY <1>1, <3>1
  <2>2. Beside(f) \subseteq ToUpload(r)
    BY <2>1 DEF ToUpload, Beside
  <2>3. \A a \in Beside(f) : a \in DOMAIN assets' /\ assets'[a] = build'[r]
    <3>1. Up(r, ToUpload(r) \ todo[r])
      BY <1>1, <2>1 DEF UpSoFar
    <3> QED BY <1>1, <2>1, <2>2, <3>1 DEF Up
  <2>4. ASSUME ~Doomed(f)', NEW s \in Run, Working(s, f)' PROVE Beside(f) \subseteq todo'[s]
    <3>1. PICK a \in Beside(f) : a \in todo'[s]
      BY <2>4 DEF Working
    <3>2. s # r /\ todo'[s] = todo[s]
      BY <1>1, <2>1, <3>1
    <3>3. ~Owes(s, a)' /\ a \notin lost'[s]
      BY <2>3, <2>4, <3>1 DEF Doomed
    <3>4. Sees(s, a)
      BY <1>1, <3>1, <3>2, <3>3 DEF Owes, Sees
    <3>5. a # d
      BY <1>3, <3>4
    <3>6. a \in ToUpload(r) \ todo[r]
      BY <2>1, <2>2, <3>1, <3>5
    <3> QED BY <1>1, <2>1, <3>2, <3>4, <3>6 DEF Untouched
  <2>5. Paired(f)'
    BY <2>3 DEF Paired
  <2>6. ~Doomed(f)' => Coherent(f)'
    BY <2>4, <2>5 DEF Coherent
  <2> QED BY <2>6 DEF Matched
<1>6. CASE f \in torn'
  BY <1>6 DEF Matched
<1>7. CASE f \notin torn /\ d \notin Beside(f)
  <2>1. \A s \in Run : \A a \in Beside(f) : /\ a \in todo'[s] <=> a \in todo[s]
                                            /\ a \in existing'[s] <=> a \in existing[s]
                                            /\ a \in lost'[s] <=> a \in lost[s]
    BY <1>1, <1>7
  <2>2. \A a \in Beside(f) : /\ a \in DOMAIN assets' <=> a \in DOMAIN assets
                             /\ a \in DOMAIN assets => assets'[a] = assets[a]
    BY <1>1, <1>7
  <2> QED BY <1>1, <1>7, <2>1, <2>2, NotThatFile
<1>8. CASE d \in Beside(f) /\ Doomed(f)
  <2>1. PICK a \in Beside(f) :
          \/ \E s \in Run : a \in lost[s]
          \/ a \in DOMAIN assets /\ \E s \in Run : Owes(s, a)
          \/ \E s, t \in Run : s # t /\ Owes(s, a) /\ Owes(t, a)
    BY <1>8 DEF Doomed
  <2>2. CASE \E s \in Run : a \in lost[s]
    BY <1>1, <2>2 DEF Doomed, Matched
  <2>3. CASE a \in DOMAIN assets /\ \E s \in Run : Owes(s, a)
    <3>1. a # d /\ a \in DOMAIN assets'
      BY <1>1, <2>3
    <3> QED BY <1>4, <2>3, <3>1 DEF Doomed, Matched
  <2>4. CASE a # d /\ \E s, t \in Run : s # t /\ Owes(s, a) /\ Owes(t, a)
    BY <1>4, <2>4 DEF Doomed, Matched
  <2>5. CASE a = d /\ \E s, t \in Run : s # t /\ Owes(s, a) /\ Owes(t, a)
    <3>1. \E s \in Run : Owes(s, d)'
      BY <1>4, <2>5
    <3>2. d \in DOMAIN assets'
      BY <1>1
    <3> QED BY <1>8, <3>1, <3>2 DEF Doomed, Matched
  <2> QED BY <2>1, <2>2, <2>3, <2>4, <2>5
<1>9. CASE f \notin torn /\ d \in Beside(f) /\ Coherent(f) /\ ~Doomed(f)
  <2>1. ASSUME NEW t \in Run, t # r PROVE d \notin todo[t]
    <3>1. ~Owes(t, d)
      BY <1>3, <1>9, <2>1 DEF Doomed
    <3>2. d \notin existing[t]
      BY <1>3, <1>9 DEF Doomed, Sees
    <3> QED BY <3>1, <3>2 DEF Owes
  <2>2. Working(r, f) /\ \A s \in Run : /\ s # r => (Working(s, f)' <=> Working(s, f))
                                        /\ Working(s, f)' => Working(s, f)
    BY <1>1, <1>9 DEF Working
  <2>3. ASSUME NEW s \in Run, NEW t \in Run, NEW a \in Beside(f), NEW b \in Beside(f),
               s # t, a # b, Working(s, f)', Working(t, f)'
        PROVE  a \in todo'[s] \/ b \in todo'[t]
    <3>1. \A u \in Run : \A x, y \in Beside(f) :
            Working(u, f)' /\ x # y /\ x \notin todo'[u] => y \in todo'[u]
      BY TwoParts DEF Working
    <3>2. \A u \in Run : d \notin todo'[u]
      BY <1>1, <2>1
    <3> QED BY <1>9, <2>3, <3>1, <3>2, TwoParts
  <2>4. ASSUME NEW s \in Run, NEW a \in Beside(f), NEW b \in Beside(f),
               a # b, Working(s, f)', b \notin todo'[s]
        PROVE  \/ b \in DOMAIN assets' /\ assets'[b] = build'[s]
               \/ \E t \in Run : t # s /\ Sees(t, a)'
    <3>1. a \in todo'[s]
      BY <2>4, TwoParts DEF Working
    <3>2. a # d /\ b = d
      <4>1. d \notin todo'[s]
        BY <1>1, <2>1
      <4>2. a # d
        BY <3>1, <4>1
      <4> QED BY <1>9, <2>4, <4>2, TwoParts
    <3>3. CASE s = r
      BY <1>1, <3>2, <3>3
    <3>4. CASE s # r
      <4>1. b \notin todo[s] /\ Working(s, f)
        BY <1>1, <2>2, <2>4, <3>4
      <4>2. \E t \in Run : t # s /\ Sees(t, a)
        BY <1>9, <2>4, <3>2, <4>1 DEF Coherent
      <4> QED BY <1>1, <4>2 DEF Sees
    <3> QED BY <3>3, <3>4
  <2>5. ASSUME \A s \in Run : ~Working(s, f)' PROVE Paired(f)'
    <3>1. PICK b \in Beside(f) : b # d
      BY <1>9, TwoParts
    <3>2. b \notin todo[r]
      BY <1>1, <2>5, <3>1 DEF Working
    <3>3. b \in DOMAIN assets /\ assets[b] = build[r]
      BY <1>3, <1>9, <2>2, <3>1, <3>2 DEF Coherent
    <3>4. \A a \in Beside(f) : a \in DOMAIN assets' /\ assets'[a] = build[r]
      BY <1>1, <1>9, <3>1, <3>3, TwoParts
    <3> QED BY <3>4 DEF Paired
  <2>6. Coherent(f)'
    BY <2>3, <2>4, <2>5 DEF Coherent
  <2> QED BY <2>6 DEF Matched
<1> QED BY <1>5, <1>6, <1>7, <1>8, <1>9 DEF Matched

LEMMA NextMatched ==
  ASSUME ReleaseTypeOK, Numbered, UploadShape, Untouched, Sign, \A r \in Run : UpSoFar(r),
         NEW f \in Plain, Matched(f), [ReleaseNext]_releaseVars
  PROVE  Matched(f)'
<1>1. CASE UNCHANGED releaseVars
  BY <1>1, NotThatFile DEF releaseVars
<1>2. ASSUME NEW r \in Run,
             Trigger(r) \/ MakeFiles(r) \/ RecordProvenance(r) \/ SignFiles(r) \/ Rerun(r)
      PROVE  Matched(f)'
  <2>1. UNCHANGED remote /\ phase[r] # "upload"
    BY <1>2 DEF Trigger, MakeFiles, RecordProvenance, SignFiles, Rerun
  <2>2. \A s \in Run : s # r => build'[s] = build[s]
    BY <1>2, NewBuild DEF Trigger, MakeFiles, RecordProvenance, SignFiles, Rerun
  <2>3. ~Working(r, f)
    BY <2>1 DEF Working, UploadShape
  <2> QED BY <2>1, <2>2, <2>3, NotThatFile DEF remote
<1>3. ASSUME NEW r \in Run, BreakRun(r) PROVE Matched(f)'
  BY <1>3, MatchedFail DEF BreakRun
<1>4. ASSUME NEW r \in Run, Create(r) PROVE Matched(f)'
  BY <1>4, MatchedFail, MatchedCreate DEF Create
<1>5. ASSUME NEW r \in Run, NEW d \in Asset, Delete(r, d) PROVE Matched(f)'
  BY <1>5, MatchedFail, MatchedDelete DEF Delete
<1>6. ASSUME NEW r \in Run, NEW d \in Asset, Put(r, d) PROVE Matched(f)'
  BY <1>6, MatchedFail, MatchedPut DEF Put
<1> QED
  BY <1>1, <1>2, <1>3, <1>4, <1>5, <1>6, MatchedLook DEF ReleaseNext

(* For any number of runs, builds and failed steps, in any interleaving:   *)
(* nothing is on a release that a pull request built or, where the caller  *)
(* asks for them, whose build has no provenance or was not signed; and a   *)
(* file has the bundle of the same build beside it, unless an upload is at *)
(* the file, or failed at it and no run that had the release for itself    *)
(* has succeeded since.                                                    *)
THEOREM OnlyVouchedForFiles == ReleaseSpec => []OnlyVouchedFor
<1> DEFINE AllUpSoFar == \A r \in Run : UpSoFar(r)
           Good == UploadShape /\ (Sign => Untouched /\ \A f \in Plain : Matched(f))
<1>1. ASSUME Vouched, Good PROVE OnlyVouchedFor
  <2>1. Assured
    BY <1>1 DEF Vouched
  <2>2. ASSUME Sign, NEW f \in Plain \ torn, \A r \in Run : Beside(f) \cap todo[r] = {}
        PROVE  Paired(f)
    <3>1. Doomed(f) \/ Coherent(f)
      BY <1>1, <2>2 DEF Matched
    <3>2. ~Doomed(f)
      <4>1. \A s \in Run : \A a \in Beside(f) : ~Owes(s, a) /\ a \notin lost[s]
        BY <1>1, <2>2 DEF Owes, UploadShape
      <4> QED BY <4>1 DEF Doomed
    <3> QED BY <2>2, <3>1, <3>2 DEF Coherent, Working
  <2> QED BY <2>1, <2>2 DEF OnlyVouchedFor, Assured
<1>2. ReleaseInit => AllUpSoFar /\ Good
  BY InitUpSoFar, InitMatched
<1>3. ReleaseTypeOK /\ Numbered /\ AllUpSoFar /\ [ReleaseNext]_releaseVars => AllUpSoFar'
  BY NextUpSoFar
<1>4. ReleaseTypeOK /\ Numbered /\ AllUpSoFar /\ Good /\ [ReleaseNext]_releaseVars => Good'
  BY NextShape, NextUntouched, NextMatched
<1> HIDE DEF AllUpSoFar, Good
<1> QED
  BY <1>1, <1>2, <1>3, <1>4, InitNumbered, NextTypes, NextNumbered, InitVouched, NextVouched, PTL
     DEF ReleaseSpec
=============================================================================
