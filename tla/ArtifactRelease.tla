--------------------------- MODULE ArtifactRelease ---------------------------
(***************************************************************************)
(* .github/workflows/artifact-release.yml: the runs for one tag.  Each     *)
(* builds the files, which are different bytes every time, and a publish   *)
(* job puts them on the release with checksums and a signature bundle      *)
(* beside each.  A file's bytes are known by the number of the build that  *)
(* made them; the same number on a bundle, or on SHA256SUMS, says which    *)
(* bytes it speaks for.                                                    *)
(***************************************************************************)
EXTENDS Integers, FiniteSets

CONSTANTS
  Run,
  File,         \* names a build may give its files
  Sums,         \* "SHA256SUMS"
  Sign, Attest, \* the caller's `sign` and `attest` inputs
  FileSets,     \* bound: the sets of files builds come up with
  MaxBuilds,    \* bound: builds
  MaxBreaks     \* bound: steps that fail

Plain == File \cup {Sums}
Asset == Plain \X {"blob", "bundle"}
Build == 1..MaxBuilds

ASSUME ReleaseAssumption ==
  /\ Sums \notin File
  /\ Sign \in BOOLEAN /\ Attest \in BOOLEAN
  /\ FileSets \subseteq (SUBSET File) \ {{}}
  /\ MaxBuilds \in Nat /\ MaxBreaks \in Nat

VARIABLES
  phase,      \* phase[r]: the step run r is at, or how it ended
  pr,         \* pr[r]: was it started for a pull request?
  build,      \* build[r]: the number of its latest build
  files,      \* files[b]: what build b made
  released,   \* does the release exist?
  assets,     \* the release's files: assets[a] is the build they are from
  todo,       \* todo[r]: what r has yet to upload to a release it found
  existing,   \* existing[r]: those of them it must delete first, as it found them
  lost,       \* lost[r]: those of them another run has deleted since
  attested,   \* builds there is provenance for
  signed,     \* builds whose files were signed
  alone,      \* alone[r]: has no other run touched the release since r looked?
  torn,       \* history: the files an upload failed at, and none has mended since
  builds, breaks

releaseVars == <<phase, pr, build, files, released, assets, todo, existing, lost,
          attested, signed, alone, torn, builds, breaks>>
remote == <<released, assets, todo, existing, lost, alone, torn>>

ReleaseInit ==
  /\ phase = [r \in Run |-> "idle"] /\ pr = [r \in Run |-> FALSE]
  /\ build = [r \in Run |-> 0] /\ files = [b \in Build |-> {}]
  /\ released \in BOOLEAN   \* somebody may have written the release by hand
  /\ assets = [a \in {} |-> 0]
  /\ todo = [r \in Run |-> {}] /\ existing = [r \in Run |-> {}] /\ lost = [r \in Run |-> {}]
  /\ attested = {} /\ signed = {} /\ alone = [r \in Run |-> TRUE] /\ torn = {}
  /\ builds = 0 /\ breaks = 0

Goto(r, next) == phase' = [phase EXCEPT ![r] = next]

(* A file on the release and the bundle beside it.                         *)
Beside(f) == {<<f, "blob">>, <<f, "bundle">>}

(* The runner is gone, and what it knew of the release with it; a file it  *)
(* had not both parts of up stays as it is.                                *)
Fail(r) ==
  /\ Goto(r, "failed")
  /\ todo' = [todo EXCEPT ![r] = {}]
  /\ existing' = [existing EXCEPT ![r] = {}] /\ lost' = [lost EXCEPT ![r] = {}]
  /\ alone' = [alone EXCEPT ![r] = TRUE]
  /\ torn' = torn \cup {f \in Plain : Beside(f) \cap todo[r] # {}}

Trigger(r) ==
  /\ phase[r] = "idle"
  /\ \E forPr \in BOOLEAN : pr' = [pr EXCEPT ![r] = forPr]
  /\ Goto(r, "build")
  /\ UNCHANGED <<build, files, attested, signed, builds, breaks, remote>>

(* The build job: an empty collection is refused (FileSets has none).      *)
MayPublish(r) == ~pr[r]

MakeFiles(r) ==
  /\ phase[r] = "build" /\ builds < MaxBuilds
  /\ builds' = builds + 1
  /\ build' = [build EXCEPT ![r] = builds']
  /\ \E made \in FileSets : files' = [files EXCEPT ![builds'] = made]
  /\ Goto(r, IF MayPublish(r) THEN "attest" ELSE "done")
  /\ UNCHANGED <<pr, attested, signed, breaks, remote>>

-----------------------------------------------------------------------------
(* The publish job.  SHA256SUMS is written beside the files first, so all  *)
(* that follows treats it as one of them.                                  *)
Published(r) == files[build[r]] \cup {Sums}

RecordProvenance(r) ==
  /\ phase[r] = "attest"
  /\ attested' = IF Attest THEN attested \cup {build[r]} ELSE attested
  /\ Goto(r, "sign")
  /\ UNCHANGED <<pr, build, files, signed, builds, breaks, remote>>

SignFiles(r) ==
  /\ phase[r] = "sign"
  /\ signed' = IF Sign THEN signed \cup {build[r]} ELSE signed
  /\ Goto(r, "look")
  /\ UNCHANGED <<pr, build, files, attested, builds, breaks, remote>>

(* What goes up: every file, and a bundle for every file.                  *)
ToUpload_SumsUnsigned(r) ==
  (Published(r) \X {"blob"}) \cup (IF Sign THEN files[build[r]] \X {"bundle"} ELSE {})
ToUpload(r) ==
  (Published(r) \X {"blob"}) \cup (IF Sign THEN Published(r) \X {"bundle"} ELSE {})

(* gh release view decides which of two commands is given.                 *)
Look(r) ==
  /\ phase[r] = "look"
  /\ Goto(r, IF released THEN "upload" ELSE "create")
  /\ todo' = [todo EXCEPT ![r] = IF released THEN ToUpload(r) ELSE {}]
  /\ existing' = [existing EXCEPT ![r] = DOMAIN assets \cap todo'[r]]
  /\ alone' = [alone EXCEPT ![r] = TRUE]
  /\ UNCHANGED <<pr, build, files, attested, signed, builds, breaks, released, assets, lost, torn>>

(* The release changes under the runs that have looked at it.              *)
Others(r) ==
  alone' = [s \in Run |-> alone[s] /\ (s = r \/ phase[s] \notin {"create", "upload", "done"})]

(* gh release create shows the release when it has all its files, and not  *)
(* at all when there is one already.                                       *)
Create(r) ==
  /\ phase[r] = "create"
  /\ \/ /\ ~released
        /\ released' = TRUE
        /\ assets' = [a \in ToUpload(r) |-> build[r]]
        /\ Others(r)
        /\ Goto(r, "done")
        /\ UNCHANGED <<todo, existing, lost, torn>>
     \/ released /\ Fail(r) /\ UNCHANGED <<released, assets>>
  /\ UNCHANGED <<pr, build, files, attested, signed, builds, breaks>>

(* gh release upload --clobber, one file at a time and in no order: what   *)
(* it found there is deleted, then the new file takes its place.  It is    *)
(* that upload which is deleted, not what may have replaced it since: two  *)
(* that do this at once make each other fail.                              *)
Delete(r, a) ==
  /\ phase[r] = "upload" /\ a \in existing[r]
  /\ \/ /\ a \notin lost[r]
        /\ assets' = [x \in DOMAIN assets \ {a} |-> assets[x]]
        /\ existing' = [existing EXCEPT ![r] = @ \ {a}]
        /\ lost' = [s \in Run |-> IF s # r THEN lost[s] \cup ({a} \cap existing[s]) ELSE lost[s]]
        /\ Others(r)
        /\ UNCHANGED <<phase, todo, torn>>
     \/ a \in lost[r] /\ Fail(r) /\ UNCHANGED assets
  /\ UNCHANGED <<pr, build, files, released, attested, signed, builds, breaks>>

(* A run that ends with nobody having touched the release since it looked  *)
(* has mended its files.                                                   *)
Put(r, a) ==
  /\ phase[r] = "upload" /\ a \in todo[r] \ existing[r]
  /\ \/ /\ a \notin DOMAIN assets
        /\ assets' = [x \in DOMAIN assets \cup {a} |-> IF x = a THEN build[r] ELSE assets[x]]
        /\ todo' = [todo EXCEPT ![r] = @ \ {a}]
        /\ Others(r)
        /\ Goto(r, IF todo'[r] = {} THEN "done" ELSE "upload")
        /\ torn' = IF todo'[r] = {} /\ alone[r] THEN torn \ Published(r) ELSE torn
        /\ UNCHANGED <<existing, lost>>
     \/ a \in DOMAIN assets /\ Fail(r) /\ UNCHANGED assets
  /\ UNCHANGED <<pr, build, files, released, attested, signed, builds, breaks>>

-----------------------------------------------------------------------------
(* A step fails, an upload that is half done for one.                      *)
BreakRun(r) ==
  /\ phase[r] \notin {"idle", "done", "failed"}
  /\ breaks < MaxBreaks /\ breaks' = breaks + 1
  /\ Fail(r)
  /\ UNCHANGED <<pr, build, files, released, assets, attested, signed, builds>>

(* A failed run is run again: from the build, or the publish job alone,    *)
(* with the files the build handed over.                                   *)
Rerun(r) ==
  /\ phase[r] = "failed"
  /\ \/ builds < MaxBuilds /\ Goto(r, "build")
     \/ build[r] # 0 /\ ~pr[r] /\ Goto(r, "attest")
  /\ UNCHANGED <<pr, build, files, attested, signed, builds, breaks, remote>>

ReleaseNext == \E r \in Run :
  \/ Trigger(r) \/ MakeFiles(r) \/ RecordProvenance(r) \/ SignFiles(r)
  \/ Look(r) \/ Create(r) \/ BreakRun(r) \/ Rerun(r)
  \/ \E a \in Asset : Delete(r, a) \/ Put(r, a)

ReleaseSpec == ReleaseInit /\ [][ReleaseNext]_releaseVars

-----------------------------------------------------------------------------
ReleaseTypeOK ==
  /\ phase \in [Run -> {"idle", "build", "attest", "sign", "look", "create",
                        "upload", "done", "failed"}]
  /\ pr \in [Run -> BOOLEAN]
  /\ build \in [Run -> 0..MaxBuilds] /\ files \in [Build -> SUBSET File]
  /\ released \in BOOLEAN
  /\ DOMAIN assets \subseteq Asset /\ \A a \in DOMAIN assets : assets[a] \in Build
  /\ todo \in [Run -> SUBSET Asset] /\ existing \in [Run -> SUBSET Asset]
  /\ lost \in [Run -> SUBSET Asset] /\ torn \subseteq Plain
  /\ attested \subseteq Build /\ signed \subseteq Build
  /\ alone \in [Run -> BOOLEAN]
  /\ builds \in 0..MaxBuilds /\ breaks \in 0..MaxBreaks

(* What is left of "a file on the release always has both" (the comment at *)
(* the publish job).  Nothing is on the release that a pull request built, *)
(* or whose build has no provenance or was not signed.  And a file and the *)
(* bundle that vouches for it are there together and from the same build,  *)
(* whatever order the uploads of several runs met in: all but for a file   *)
(* an upload is at, or failed at with no run mending it since.             *)
Paired(f) ==
  LET there == Beside(f) \cap DOMAIN assets IN
  there = {} \/ (there = Beside(f) /\ \A a, b \in Beside(f) : assets[a] = assets[b])

OnlyVouchedFor ==
  /\ \A a \in DOMAIN assets :
       /\ \A r \in Run : pr[r] => build[r] # assets[a]
       /\ Attest => assets[a] \in attested
       /\ Sign => assets[a] \in signed
  /\ Sign => \A f \in Plain \ torn :
       (\A r \in Run : Beside(f) \cap todo[r] = {}) => Paired(f)

(* Success is the whole release: unless another run wrote to it meanwhile, *)
(* a run that succeeded left all its files, the checksums that list them   *)
(* and, if it signs, the bundle of each, the checksums' too.               *)
SuccessIsComplete ==
  \A r \in Run :
    phase[r] = "done" /\ MayPublish(r) /\ alone[r] =>
      \A f \in Published(r) : \A kind \in {"blob"} \cup (IF Sign THEN {"bundle"} ELSE {}) :
        <<f, kind>> \in DOMAIN assets /\ assets[<<f, kind>>] = build[r]
=============================================================================
