----------------------------- MODULE BaseImage -----------------------------
(***************************************************************************)
(* base-image-digest.yml and scripts/base_image_digest.py: the base images *)
(* a Dockerfile pins are read from it, and each is compared with the       *)
(* digest its tag has today.  A failed lookup or scan fails the job and is *)
(* never read as "nothing found"; no image hides another.                  *)
(*                                                                         *)
(* A Dockerfile is a sequence of instructions; quoting, comments and       *)
(* continued lines are left out.  A name without a digest or a tag has ""  *)
(* there, and "?" is a reference the pattern does not read.                *)
(***************************************************************************)
EXTENDS Integers, Sequences, FiniteSets

CONSTANTS
  BaseJobs,   \* the jobs there may be
  Vuln        \* pairs of an advisory and a package

VARIABLES
  base,       \* the job: its Dockerfile, its inputs and what the registry and Trivy know
  baseStep,   \* "list", then "compare", then "done"
  pending,       \* the pins still to be compared
  failed,     \* the pins that could not be compared
  bumps,      \* the pins whose bump is reported, with what it fixes
  baseExit    \* the exit status, -1 while running

baseVars == <<base, baseStep, pending, failed, bumps, baseExit>>

(* What one instruction says.                                              *)
Reference == [var : STRING, repo : STRING, tag : STRING, digest : STRING]
Instruction == [word : {"ARG", "FROM", "other"}, name : STRING, as : STRING,
                readable : BOOLEAN, image : Reference]

-----------------------------------------------------------------------------
(* pins: the list of what can be followed, and the problems.               *)
Froms(f) == {i \in DOMAIN f : f[i].word = "FROM"}

(* The last default an ARG before the first FROM gives the variable.       *)
Defaults(f, v) == {i \in DOMAIN f : /\ f[i].word = "ARG" /\ f[i].name = v
                                    /\ f[i].image.repo # ""
                                    /\ \A j \in Froms(f) : i < j}
Substitute(f, image) ==
  IF image.var = "" \/ Defaults(f, image.var) = {} THEN image
  ELSE f[CHOOSE i \in Defaults(f, image.var) :
           \A j \in Defaults(f, image.var) : j <= i].image

(* A FROM adds its stage before its own image is looked up among them.     *)
Stages(f, i) == {f[j].as : j \in {k \in Froms(f) : k <= i /\ f[k].readable}} \ {""}

NotABase(f, i) == LET raw == f[i].image IN
  raw.var = "" /\ raw.tag = "" /\ raw.digest = "" /\ raw.repo \in {"scratch"} \cup Stages(f, i)

Problem(b, i) == LET image == Substitute(b.file, b.file[i].image) IN
  \/ ~b.file[i].readable
  \/ /\ ~NotABase(b.file, i)
     /\ \/ image.var # "" \/ image.repo = "?"
        \/ image.digest = "" /\ ~b.allowUnpinned
        \/ image.digest # "" /\ image.tag = ""

Pinned(b) == {Substitute(b.file, b.file[i].image) :
                i \in {k \in Froms(b.file) : b.file[k].readable /\ ~NotABase(b.file, k)}}
Pins(b) == {image \in Pinned(b) : image.digest # ""}

Listed(b) == (\A i \in Froms(b.file) : ~Problem(b, i)) /\ Pins(b) # {}

(* findings and fixed_by_bump: only what has a fix is looked at.           *)
Findings(report) == report.fixable
FixedByBump(pinned, current) == Findings(pinned) \ Findings(current)

(* A scan of an image that is followed names advisories.                   *)
ASSUME BaseAssumption == \A b \in BaseJobs :
  Listed(b) => \A p \in Pins(b) : Findings(b.registry[p.repo].pinned) \subseteq Vuln

-----------------------------------------------------------------------------
BaseInit == /\ base \in BaseJobs /\ baseStep = "list" /\ pending = {}
            /\ failed = {} /\ bumps = {} /\ baseExit = -1

ListPins ==
  /\ baseStep = "list"
  /\ IF Listed(base)
     THEN baseStep' = "compare" /\ pending' = Pins(base) /\ UNCHANGED baseExit
     ELSE baseStep' = "done" /\ baseExit' = 1 /\ UNCHANGED pending
  /\ UNCHANGED <<base, failed, bumps>>

(* One image: its tag's digest today, and if that moved, two scans and     *)
(* their comparison, each of which can fail.  Images do not depend on each *)
(* other, so the order of the loop is left open.                           *)
NotCompared_GoesOn(p) == failed' = failed \cup {p} /\ bumps' = bumps /\ pending' = pending
NotCompared_AndStop(p) == failed' = failed \cup {p} /\ bumps' = bumps /\ pending' = {}
NotCompared(p) == failed' = failed \cup {p} /\ bumps' = bumps /\ pending' = pending \ {p}

Compare(p) ==
  LET known == base.registry[p.repo]
      fixed == FixedByBump(known.pinned, known.current)
  IN
  /\ p \in pending
  /\ \/ NotCompared(p)                           \* no digest for the tag
     \/ /\ ~known.moved
        /\ pending' = pending \ {p} /\ UNCHANGED <<failed, bumps>>
     \/ known.moved /\ NotCompared(p)            \* a scan failed, or wrote no report
     \/ /\ known.moved
        /\ bumps' = IF fixed = {} THEN bumps ELSE bumps \cup {<<p, fixed>>}
        /\ pending' = pending \ {p} /\ UNCHANGED failed
  /\ UNCHANGED <<base, baseStep, baseExit>>

BaseExit == IF failed # {} \/ (bumps # {} /\ base.exitCode) THEN 1 ELSE 0

BaseConclude ==
  /\ baseStep = "compare" /\ pending = {}
  /\ baseStep' = "done" /\ baseExit' = BaseExit
  /\ UNCHANGED <<base, pending, failed, bumps>>

BaseNext == ListPins \/ (\E p \in Pins(base) : Compare(p)) \/ BaseConclude

BaseSpec == BaseInit /\ [][BaseNext]_baseVars

-----------------------------------------------------------------------------
BaseTypeOK ==
  /\ base \in BaseJobs
  /\ baseStep \in {"list", "compare", "done"}
  /\ pending \subseteq Pins(base)
  /\ failed \subseteq Pins(base)
  /\ bumps \subseteq Pins(base) \X SUBSET Vuln
  /\ pending \cap failed = {} /\ \A bump \in bumps : bump[1] \notin pending \cup failed
  /\ baseExit \in -1..1

(* The job's header: it fails when bumping a pin would fix something, and  *)
(* when it could not find out; "one finding hides nothing".  For every     *)
(* FROM that pins a digest of a tag, whatever the other lines are and      *)
(* whichever image failed: its bump is reported with all it fixes, or the  *)
(* image itself could not be compared, or there was nothing to fix; and    *)
(* the exit status is 0 only if none failed and, unless the caller only    *)
(* wants a report, none is to be bumped.                                   *)
NoImageIsHidden ==
  baseStep = "done" =>
    /\ (\E i \in Froms(base.file) : Problem(base, i)) => baseExit = 1
    /\ baseExit = 0 => failed = {} /\ (base.exitCode => bumps = {})
    /\ \A i \in Froms(base.file) :
         LET p     == Substitute(base.file, base.file[i].image)
             known == base.registry[p.repo]
             gone  == known.pinned.fixable \ (known.current.fixable \cup known.current.unfixed)
         IN  \/ p.digest = "" \/ \E k \in Froms(base.file) : Problem(base, k)
             \/ p \in failed
             \/ ~known.moved \/ gone = {}
             \/ \E bump \in bumps : bump[1] = p /\ gone \subseteq bump[2]

(* The helper's docstring: "A FROM that is not a plain, resolvable, pinned *)
(* external image is a failure".  An image is external unless it is        *)
(* scratch or a stage that an earlier FROM has begun.                      *)
EveryBaseIsFollowed ==
  baseExit = 0 /\ ~base.allowUnpinned =>
    \A i \in Froms(base.file) :
      LET raw == base.file[i].image IN
      \/ Substitute(base.file, raw).digest # ""
      \/ raw.repo = "scratch"
      \/ \E j \in Froms(base.file) : j < i /\ base.file[j].as = raw.repo
=============================================================================
