------------------------------ MODULE ToolsProofs ------------------------------
(***************************************************************************)
(* What is proved about the scripts that look after the tools and images:  *)
(* base_image_digest.py hides no image, whatever the Dockerfile, registry  *)
(* and advisories; check_vendored_drift.py leaves no drift unnamed,        *)
(* whatever the number of locks and their names; and what a run of         *)
(* tool_locks.py that ends with 0 is worth, for every list of tools,       *)
(* workflows and wheels and every edit between the runs.  Of the secrets   *)
(* action, for every set of names, every config and every job: no secret   *)
(* without trust, nothing unmasked, exactly what was asked for.  Of the    *)
(* register's weekly job: no entry expires unannounced, and none is        *)
(* announced twice.  Of gen_wiki.py: a wiki that is written is whole, and  *)
(* every link in it leads somewhere, whatever the tree and the history.    *)
(* And the types of all of them, side by side.                             *)
(***************************************************************************)
EXTENDS MCTools, ArtifactReleaseProofs, SequenceTheorems, FiniteSetTheorems

-----------------------------------------------------------------------------
(* base_image_digest.py.                                                   *)

Fixed(p) == FixedByBump(base.registry[p.repo].pinned, base.registry[p.repo].current)

(* What is known of a pin that is no longer pending.                       *)
Settled(p) == \/ p \in failed
              \/ ~base.registry[p.repo].moved \/ Fixed(p) = {}
              \/ <<p, Fixed(p)>> \in bumps

(* While images are compared the list is a good one, and each pin is still *)
(* to come or settled, whatever became of the others.                      *)
Comparing ==
  /\ baseStep # "compare" => pending = {}
  /\ baseStep = "compare" =>
       Listed(base) /\ \A p \in Pins(base) : p \in pending \/ Settled(p)
  /\ baseStep = "done" =>
       \/ ~Listed(base) /\ baseExit = 1
       \/ /\ Listed(base) /\ \A p \in Pins(base) : Settled(p)
          /\ baseExit = BaseExit

LEMMA ComparingInvariant == BaseSpec => []Comparing
<1>1. BaseInit => Comparing
  BY DEF BaseInit, Comparing
<1>2. Comparing /\ [BaseNext]_baseVars => Comparing'
  <2> SUFFICES ASSUME Comparing, [BaseNext]_baseVars PROVE Comparing'
    OBVIOUS
  <2>1. CASE UNCHANGED baseVars
    BY <2>1 DEF baseVars, Comparing, Settled, Fixed, BaseExit
  <2>2. CASE ListPins
    BY <2>2 DEF ListPins, Comparing
  <2>3. ASSUME NEW p \in Pins(base), Compare(p) PROVE Comparing'
    <3>1. /\ base' = base /\ baseStep' = baseStep /\ pending \ pending' \subseteq {p}
          /\ failed \subseteq failed' /\ bumps \subseteq bumps'
      BY <2>3 DEF Compare, NotCompared
    <3>2. Settled(p)'
      BY <2>3 DEF Compare, NotCompared, Settled, Fixed
    <3>3. \A q \in Pins(base) : Settled(q) => Settled(q)'
      BY <3>1 DEF Settled, Fixed
    <3>4. baseStep = "compare" => \A q \in Pins(base) : q \in pending' \/ Settled(q)'
      BY <3>1, <3>2, <3>3 DEF Comparing
    <3>5. baseStep = "compare"
      BY <2>3 DEF Compare, Comparing
    <3> QED
      BY <3>1, <3>4, <3>5 DEF Comparing
  <2>4. CASE BaseConclude
    BY <2>4 DEF BaseConclude, Comparing, Settled, Fixed, BaseExit
  <2> QED
    BY <2>1, <2>2, <2>3, <2>4 DEF BaseNext
<1> QED
  BY <1>1, <1>2, PTL DEF BaseSpec

(* An image that is pinned is never taken for a stage or for scratch.      *)
LEMMA PinnedIsListed ==
  ASSUME NEW i \in Froms(base.file), ~Problem(base, i),
         Substitute(base.file, base.file[i].image).digest # ""
  PROVE  Substitute(base.file, base.file[i].image) \in Pins(base)
<1>1. base.file[i].readable
  BY DEF Problem
<1>2. ~NotABase(base.file, i)
  BY DEF NotABase, Substitute
<1> QED
  BY <1>1, <1>2 DEF Pins, Pinned

(* Whatever the other lines of the Dockerfile are and whichever image      *)
(* could not be compared: what a bump of a pinned image fixes is reported, *)
(* and the job does not end with 0 when anything failed or is to be bumped.*)
THEOREM NoneHidden == BaseSpec => []NoImageIsHidden
<1>1. Comparing => NoImageIsHidden
  <2> SUFFICES ASSUME Comparing, baseStep = "done" PROVE NoImageIsHidden
    BY DEF NoImageIsHidden
  <2>1. \/ \E k \in Froms(base.file) : Problem(base, k)
        \/ \A p \in Pins(base) : Settled(p)
    BY DEF Comparing, Listed
  <2>2. (\E k \in Froms(base.file) : Problem(base, k)) => baseExit = 1
    BY DEF Comparing, Listed
  <2>3. baseExit = 0 => failed = {} /\ (base.exitCode => bumps = {})
    BY DEF Comparing, BaseExit
  <2>4. ASSUME NEW i \in Froms(base.file), \A k \in Froms(base.file) : ~Problem(base, k)
        PROVE  LET p     == Substitute(base.file, base.file[i].image)
                   known == base.registry[p.repo]
                   gone  == known.pinned.fixable \ (known.current.fixable \cup known.current.unfixed)
               IN  \/ p.digest = "" \/ p \in failed \/ ~known.moved \/ gone = {}
                   \/ \E bump \in bumps : bump[1] = p /\ gone \subseteq bump[2]
    <3> DEFINE p    == Substitute(base.file, base.file[i].image)
               gone == base.registry[p.repo].pinned.fixable
                         \ (base.registry[p.repo].current.fixable
                             \cup base.registry[p.repo].current.unfixed)
    <3>1. gone \subseteq Fixed(p)
      BY DEF Fixed, FixedByBump, Findings
    <3>2. p.digest = "" \/ Settled(p)
      BY <2>1, <2>4, PinnedIsListed
    <3> HIDE DEF p, gone
    <3>3. \/ p.digest = "" \/ p \in failed \/ ~base.registry[p.repo].moved \/ gone = {}
          \/ \E bump \in bumps : bump[1] = p /\ gone \subseteq bump[2]
      BY <3>1, <3>2 DEF Settled
    <3> QED
      BY <3>3 DEF p, gone
  <2> QED
    BY <2>2, <2>3, <2>4 DEF NoImageIsHidden
<1> QED
  BY <1>1, ComparingInvariant, PTL

-----------------------------------------------------------------------------
(* check_vendored_drift.py.                                                *)

(* EveryDriftIsNamed in terms of one lock.                                 *)
Named == {x[1] : x \in problems}
Real(i) == call.real[call.locks[i]]
Stale == call.generator \notin {"none", "agrees"}

(* What is known before the end: all about the locks that were looked at,  *)
(* none of which raised, and nothing about the others or the generator.    *)
LooksSoFar ==
  /\ call \in DriftJobs /\ nextLock \in Nat \ {0}
  /\ driftExit = -1 =>
       /\ nextLock <= Len(call.locks) + 1 /\ printed = {}
       /\ seenLocks = {Real(j) : j \in 1..(nextLock - 1)} \ {Outside}
       /\ Named = {i \in 1..(nextLock - 1) : Drifted(i)}
       /\ \A i \in 1..(nextLock - 1) : ~Dies(i)

-----------------------------------------------------------------------------
LEMMA CallTypes ==
  ASSUME call \in DriftJobs
  PROVE  /\ Len(call.locks) \in Nat /\ DOMAIN call.locks = 1..Len(call.locks)
         /\ \A i \in DOMAIN call.locks : Real(i) # Outside => call.lock[Real(i)] \in DriftLock
         /\ call.locks = <<>> <=> Len(call.locks) = 0
<1>1. call.locks \in Seq(DOMAIN call.real)
  BY DriftAssumption DEF DriftAssumption
<1>2. \A i \in DOMAIN call.locks : call.locks[i] \in DOMAIN call.real
  BY <1>1
<1> QED
  BY <1>1, <1>2, DriftAssumption DEF DriftAssumption, Real

(* Nothing is found wrong with a lock exactly if its file agrees with it.  *)
LEMMA CheckedIsAgrees ==
  ASSUME NEW entry \in DriftLock
  PROVE  /\ ~Raises(entry) => (CheckLock(entry) = {} <=> Agrees(entry))
         /\ Raises(entry) => ~Agrees(entry)
<1>1. CASE ~entry.readable \/ ~entry.object
  BY <1>1 DEF CheckLock, Agrees, Raises
<1>2. CASE entry.readable /\ entry.object
  <2>1. CheckLock(entry) = UNION {{"keys"} \cap entry.wrong,
              IF entry.malformed THEN {"sha256"} ELSE {},
              WrongWithSource(entry), WrongWithFile(entry)}
    BY <1>2 DEF CheckLock
  <2>2. CheckLock(entry) = {} <=> /\ "keys" \notin entry.wrong /\ ~entry.malformed
                                 /\ WrongWithSource(entry) = {} /\ WrongWithFile(entry) = {}
    BY <2>1
  <2>3. entry.wrong = {} <=> "keys" \notin entry.wrong /\ WrongWithSource(entry) = {}
    BY DEF WrongWithSource, DriftLock
  <2>4. ~entry.malformed /\ ~Raises(entry) =>
          (WrongWithFile(entry) = {} <=> /\ entry.matches /\ entry.vendored.plain
                                        /\ entry.vendored.leads = "file")
    BY <1>2 DEF WrongWithFile, Inside, Outside, Raises, DriftLock
  <2>5. Raises(entry) => entry.vendored.leads # "file"
    BY DEF Raises, Inside, Outside
  <2> QED
    BY <1>2, <2>2, <2>3, <2>4, <2>5 DEF Agrees
<1> QED
  BY <1>1, <1>2

LEMMA ComplainNames ==
  ASSUME NEW who, NEW what, Complain(who, what)
  PROVE  /\ Named' = IF what = {} THEN Named ELSE Named \cup {who}
         /\ problems = {} <=> Named = {}
         /\ problems' = {} <=> Named' = {}
<1>1. problems' = problems \cup {<<who, x>> : x \in what}
  BY DEF Complain
<1>2. ASSUME NEW n PROVE n \in Named' <=> n \in Named \/ (n = who /\ what # {})
  <2>1. \A x \in what : <<who, x>>[1] = who /\ <<who, x>> \in problems'
    BY <1>1
  <2>2. ASSUME n \in Named' PROVE n \in Named \/ (n = who /\ what # {})
    <3>1. PICK y \in problems' : n = y[1]
      BY <2>2 DEF Named
    <3>2. CASE y \in problems
      BY <3>1, <3>2 DEF Named
    <3>3. CASE \E x \in what : y = <<who, x>>
      BY <3>1, <3>3
    <3> QED
      BY <1>1, <3>1, <3>2, <3>3
  <2>3. n \in Named => n \in Named'
    BY <1>1 DEF Named
  <2>4. what # {} => who \in Named'
    BY <2>1 DEF Named
  <2> QED
    BY <2>2, <2>3, <2>4
<1>3. problems = {} <=> Named = {}
  BY DEF Named
<1>4. problems' = {} <=> Named' = {}
  BY DEF Named
<1> QED
  BY <1>2, <1>3, <1>4

LEMMA InitLooks == DriftInit => LooksSoFar /\ EveryDriftIsNamed
<1> SUFFICES ASSUME DriftInit PROVE LooksSoFar /\ EveryDriftIsNamed
  OBVIOUS
<1>1. EveryDriftIsNamed
  BY DEF DriftInit, EveryDriftIsNamed
<1>2. Named = {} /\ 1..(nextLock - 1) = {}
  BY DEF DriftInit, Named
<1> QED
  BY <1>1, <1>2, CallTypes DEF DriftInit, LooksSoFar

LEMMA NextLooks ==
  ASSUME LooksSoFar, EveryDriftIsNamed, [DriftNext]_driftVars
  PROVE  LooksSoFar' /\ EveryDriftIsNamed'
<1>0. /\ call \in DriftJobs /\ nextLock \in Nat \ {0}
      /\ Len(call.locks) \in Nat /\ DOMAIN call.locks = 1..Len(call.locks)
      /\ call.locks = <<>> <=> Len(call.locks) = 0
  BY CallTypes DEF LooksSoFar
<1>a. ASSUME call' = call, NEW i
      PROVE  Real(i)' = Real(i) /\ Drifted(i)' = Drifted(i) /\ Dies(i)' = Dies(i)
  BY <1>a DEF Real, Drifted, Dies, FirstListed
<1>1. CASE UNCHANGED driftVars
  <2>1. /\ UNCHANGED <<call, nextLock, seenLocks, problems, printed, driftExit>>
        /\ Named' = Named
        /\ \A i : Real(i)' = Real(i) /\ Drifted(i)' = Drifted(i) /\ Dies(i)' = Dies(i)
    BY <1>1, <1>a DEF driftVars, Named
  <2>2. EveryDriftIsNamed'
    BY <2>1 DEF EveryDriftIsNamed
  <2> QED
    BY <2>1, <2>2 DEF LooksSoFar
<1>2. CASE NothingToCheck
  <2>1. call' = call /\ nextLock' = nextLock /\ driftExit' = 1 /\ DOMAIN call.locks = {}
    <3>1. 1..0 = {}
      OBVIOUS
    <3> QED
      BY <1>0, <1>2, <3>1 DEF NothingToCheck
  <2>2. EveryDriftIsNamed'
    <3>1. call.locks = <<>> /\ driftExit' = 1
      BY <1>2 DEF NothingToCheck
    <3>2. \A i : i \notin DOMAIN call'.locks
      BY <2>1
    <3>3. call'.locks = <<>>
      BY <2>1, <3>1
    <3> QED
      BY <3>1, <3>2, <3>3 DEF EveryDriftIsNamed
  <2> QED
    BY <1>0, <2>1, <2>2 DEF LooksSoFar
<1>b. ASSUME driftExit = -1, nextLock \in DOMAIN call.locks
      PROVE  /\ nextLock \in 1..Len(call.locks)
             /\ seenLocks = {Real(j) : j \in 1..(nextLock - 1)} \ {Outside}
             /\ Named = {i \in 1..(nextLock - 1) : Drifted(i)}
             /\ Real(nextLock) # Outside =>
                  (Real(nextLock) \in seenLocks <=> ~FirstListed(nextLock))
  BY <1>0, <1>b DEF LooksSoFar, FirstListed, Real
<1>3. CASE CheckNextLock
  <2>1. /\ driftExit = -1 /\ driftExit' = -1 /\ nextLock \in 1..Len(call.locks)
        /\ nextLock' = nextLock + 1 /\ call' = call /\ printed' = printed
    BY <1>0, <1>3 DEF CheckNextLock
  <2>2. /\ seenLocks = {Real(j) : j \in 1..(nextLock - 1)} \ {Outside}
        /\ Named = {i \in 1..(nextLock - 1) : Drifted(i)}
        /\ \A i \in 1..(nextLock - 1) : ~Dies(i)
        /\ printed = {}
    BY <2>1 DEF LooksSoFar
  <2>3. 1..(nextLock' - 1) = 1..(nextLock - 1) \cup {nextLock}
    BY <2>1
  <2>4. /\ seenLocks' = (seenLocks \cup {Real(nextLock)}) \ {Outside}
        /\ Named' = IF Drifted(nextLock) THEN Named \cup {nextLock} ELSE Named
        /\ ~Dies(nextLock)
    <3>1. CASE Real(nextLock) = Outside
      <4>1. Complain(nextLock, {"leaves the root"}) /\ seenLocks' = seenLocks
        BY <1>3, <3>1 DEF CheckNextLock, Real, Outside
      <4>2. Drifted(nextLock) /\ ~Dies(nextLock)
        BY <3>1 DEF Drifted, Dies, Real
      <4> QED
        BY <2>2, <3>1, <4>1, <4>2, ComplainNames
    <3>2. CASE Real(nextLock) # Outside /\ Real(nextLock) \in seenLocks
      <4>1. Complain(nextLock, {"listed twice"}) /\ seenLocks' = seenLocks
        BY <1>3, <3>2 DEF CheckNextLock, Real
      <4>2. ~FirstListed(nextLock)
        BY <1>0, <1>b, <2>1, <3>2
      <4>3. Drifted(nextLock) /\ ~Dies(nextLock)
        BY <4>2 DEF Drifted, Dies
      <4> QED
        BY <2>2, <3>2, <4>1, <4>3, ComplainNames
    <3>3. CASE Real(nextLock) # Outside /\ Real(nextLock) \notin seenLocks
      <4>1. /\ Complain(nextLock, CheckLock(call.lock[Real(nextLock)]))
            /\ ~Raises(call.lock[Real(nextLock)])
            /\ seenLocks' = seenLocks \cup {Real(nextLock)}
        BY <1>3, <3>3 DEF CheckNextLock, Real
      <4>2. FirstListed(nextLock)
        BY <1>0, <1>b, <2>1, <3>3
      <4>3. CheckLock(call.lock[Real(nextLock)]) = {} <=> Agrees(call.lock[Real(nextLock)])
        BY <1>0, <2>1, <3>3, <4>1, CallTypes, CheckedIsAgrees
      <4>4. /\ Drifted(nextLock) <=> CheckLock(call.lock[Real(nextLock)]) # {}
            /\ ~Dies(nextLock)
        BY <3>3, <4>1, <4>2, <4>3 DEF Drifted, Dies, Real
      <4> QED
        BY <2>2, <3>3, <4>1, <4>4, ComplainNames
    <3> QED
      BY <3>1, <3>2, <3>3
  <2>5. \A i : Real(i)' = Real(i) /\ Drifted(i)' = Drifted(i) /\ Dies(i)' = Dies(i)
    BY <2>1, <1>a
  <2>6. seenLocks' = {Real(j) : j \in 1..(nextLock' - 1)} \ {Outside}
    BY <2>2, <2>3, <2>4
  <2>7. Named' = {i \in 1..(nextLock' - 1) : Drifted(i)}
    BY <2>1, <2>2, <2>3, <2>4
  <2>8. \A i \in 1..(nextLock' - 1) : ~Dies(i)
    BY <2>2, <2>3, <2>4
  <2> QED
    BY <1>0, <2>1, <2>2, <2>5, <2>6, <2>7, <2>8 DEF LooksSoFar, EveryDriftIsNamed
<1>4. CASE DieOfLock
  <2>1. /\ driftExit = -1 /\ nextLock \in DOMAIN call.locks
        /\ Real(nextLock) # Outside /\ Real(nextLock) \notin seenLocks
        /\ Raises(call.lock[Real(nextLock)])
        /\ driftExit' = 1 /\ call' = call /\ nextLock' = nextLock /\ printed' = printed
    BY <1>4 DEF DieOfLock, Real
  <2>2. FirstListed(nextLock) /\ printed' = {}
    BY <1>b, <2>1 DEF LooksSoFar
  <2>3. Dies(nextLock)
    BY <2>1, <2>2 DEF Dies, Real
  <2>4. Drifted(nextLock)
    BY <1>0, <2>1, CallTypes, CheckedIsAgrees DEF Drifted, Real
  <2>5. LooksSoFar'
    BY <1>0, <2>1 DEF LooksSoFar
  <2>6. EveryDriftIsNamed'
    <3>1. /\ driftExit' # 0 /\ DOMAIN call'.locks = DOMAIN call.locks
          /\ Dies(nextLock)' /\ Drifted(nextLock)'
      <4>1. Dies(nextLock)' = Dies(nextLock) /\ Drifted(nextLock)' = Drifted(nextLock)
        BY <2>1 DEF Dies, Drifted, FirstListed
      <4> QED BY <2>1, <2>3, <2>4, <4>1
    <3>2. nextLock' \in DOMAIN call'.locks
      BY <2>1
    <3> QED BY <2>2, <3>1, <3>2 DEF EveryDriftIsNamed
  <2> QED
    BY <2>5, <2>6
<1>5. CASE RunGenerator
  <2>1. /\ driftExit = -1 /\ nextLock = Len(call.locks) + 1 /\ call.locks # <<>>
        /\ call' = call /\ nextLock' = nextLock + 1 /\ printed' = problems'
        /\ driftExit' = IF problems' = {} THEN 0 ELSE 1
    BY <1>5 DEF RunGenerator
  <2>2. /\ Named = {i \in 1..Len(call.locks) : Drifted(i)}
        /\ \A i \in 1..Len(call.locks) : ~Dies(i)
    BY <1>0, <2>1 DEF LooksSoFar
  <2>3. /\ Named' = IF Stale THEN Named \cup {0} ELSE Named
        /\ problems' = {} <=> Named' = {}
    <3>1. CASE call.generator = "none"
      BY <1>5, <3>1 DEF RunGenerator, Stale, Named
    <3>2. CASE call.generator # "none"
      BY <1>5, <3>2, ComplainNames DEF RunGenerator, CheckGenerator, Stale
    <3> QED
      BY <3>1, <3>2
  <2>4. LooksSoFar'
    BY <1>0, <2>1 DEF LooksSoFar
  <2>5. \A i \in 1..Len(call.locks) : i \in Named' <=> Drifted(i)
    BY <2>2, <2>3
  <2>6. 0 \in Named' <=> Stale
    BY <2>2, <2>3
  <2>7. driftExit' = 0 <=> ~Stale /\ \A i \in 1..Len(call.locks) : ~Drifted(i)
    BY <2>1, <2>2, <2>3
  <2>8. \A i : Drifted(i)' = Drifted(i) /\ Dies(i)' = Dies(i)
    BY <2>1, <1>a
  <2>9. {x[1] : x \in printed'} = Named'
    BY <2>1 DEF Named
  <2>10. EveryDriftIsNamed'
    BY <1>0, <2>1, <2>2, <2>5, <2>6, <2>7, <2>8, <2>9 DEF EveryDriftIsNamed, Stale
  <2> QED
    BY <2>4, <2>10
<1> QED
  BY <1>1, <1>2, <1>3, <1>4, <1>5 DEF DriftNext

(* However many locks are listed, in which order and under which names: no *)
(* drift passes, and every drift is named, unless a lock leads to a file   *)
(* whose name or content raises an error; then none is.                    *)
THEOREM NoDriftIsHidden == DriftSpec => []EveryDriftIsNamed
BY InitLooks, NextLooks, PTL DEF DriftSpec

-----------------------------------------------------------------------------
(* tool_locks.py.                                                          *)

AnyLock == [of : Version, files : SUBSET UNION {Wheels[v] : v \in Version}]

(* The parts of LockTypeOK the steps rely on.                              *)
Shape ==
  /\ wants \in [Tool -> Version] /\ lock \in [Tool -> AnyLock]
  /\ carried \in [Tool -> AnyLock \cup {NoStep}]
  /\ flags = {"idle"} \/ flags \subseteq {"--relock", "--check"}
  /\ position \in Nat \ {0}

(* What a run has done up to its position; --relock writes every lock      *)
(* before the first workflow is looked at, so no lock moves after a        *)
(* workflow has got it.                                                    *)
Relocked(t) ==
  /\ lock[t].of = wants[t] /\ lock[t].files # {}
  /\ \A w \in lock[t].files : w \in Wheels[wants[t]] /\ WantedWheel(w, Oldest[t])

RelockedSoFar ==
  "--relock" \in flags => \A i \in DOMAIN Tools : i < position => Relocked(Tools[i])

CopiedSoFar ==
  flags # {"idle"} /\ differs = {} =>
    \A i \in DOMAIN Workflows : i < Compared => \A t \in Of(Workflows[i]) : carried[t] = lock[t]

EndedIsIdle == ended # <<>> => flags = {"idle"}

Orderly == Shape /\ RelockedSoFar /\ CopiedSoFar /\ EndedIsIdle /\ ZeroMeansInOrder

-----------------------------------------------------------------------------
(* No wheel is kept that no supported Python on a runner installs.         *)
LEMMA WantedInstalls ==
  ASSUME NEW t \in Tool, NEW v \in Version, NEW w \in Wheels[v], WantedWheel(w, Oldest[t])
  PROVE  \E m \in Oldest[t]..Newest : Installs(m, w)
<1>1. Oldest[t] \in Nat /\ Newest \in Nat /\ Oldest[t] <= Newest /\ w.minor \in Nat
  BY LockAssumption DEF LockAssumption
<1>2. CASE w.python = "py3"
  BY <1>1, <1>2 DEF WantedWheel, Installs
<1>3. CASE w.abi = "abi3" /\ w.minor <= Oldest[t]
  BY <1>1, <1>3 DEF WantedWheel, Installs
<1>4. CASE w.abi \in {"own", "none"} /\ w.minor \in Oldest[t]..Newest
  BY <1>1, <1>4 DEF WantedWheel, Installs
<1> QED
  BY <1>2, <1>3, <1>4 DEF WantedWheel

LEMMA InitOrderly == LockInit => Orderly
<1> SUFFICES ASSUME LockInit PROVE Orderly
  OBVIOUS
<1>1. lock \in [Tool -> AnyLock]
  BY LockAssumption DEF LockAssumption, LockInit, AnyLock
<1> QED
  BY <1>1, LockAssumption
     DEF LockAssumption, LockInit, Orderly, Shape, RelockedSoFar, CopiedSoFar,
         EndedIsIdle, ZeroMeansInOrder

(* The two steps between runs make the last status out of date.            *)
LEMMA OutsideOrderly ==
  ASSUME Orderly, Start \/ \E t \in Tool : Change(t)
  PROVE  Orderly'
<1> USE DEF Orderly, Shape, RelockedSoFar, CopiedSoFar, EndedIsIdle, ZeroMeansInOrder
<1>1. CASE Start
  <2>1. Shape' /\ EndedIsIdle' /\ ZeroMeansInOrder'
    BY <1>1 DEF Start
  <2>2. RelockedSoFar'
    BY <1>1, LockAssumption DEF Start, LockAssumption
  <2>3. CopiedSoFar'
    BY <1>1, LockAssumption DEF Start, LockAssumption, Compared
  <2> QED
    BY <2>1, <2>2, <2>3
<1>2. ASSUME NEW t \in Tool, Change(t) PROVE Orderly'
  <2>1. flags' = {"idle"} /\ ended' = <<>> /\ position' = position
    BY <1>2 DEF Change
  <2>2. wants' \in [Tool -> Version]
    BY <1>2 DEF Change
  <2>3. lock' \in [Tool -> AnyLock]
    BY <1>2 DEF Change, AnyLock
  <2>4. carried' \in [Tool -> AnyLock \cup {NoStep}]
    BY <1>2 DEF Change
  <2> QED
    BY <2>1, <2>2, <2>3, <2>4
<1> QED
  BY <1>1, <1>2

LEMMA RelockOrderly ==
  ASSUME Orderly, Relock
  PROVE  Orderly'
<1> USE DEF Orderly, Shape, EndedIsIdle, ZeroMeansInOrder
<1> DEFINE t == Tools[position]
           kept == {w \in Wheels[wants[t]] : WantedWheel(w, Oldest[t])}
<1>1. t \in Tool /\ DOMAIN Tools = 1..Len(Tools) /\ Len(Tools) \in Nat
  BY LockAssumption DEF Relock, LockAssumption, Tool
<1>2. CASE Stop(1) /\ UNCHANGED <<lock, position>>
  BY <1>2 DEF Relock, Stop, RelockedSoFar, CopiedSoFar
<1>3. CASE /\ kept # {}
           /\ lock' = [lock EXCEPT ![t] = [of |-> wants[t], files |-> kept]]
           /\ position' = position + 1 /\ UNCHANGED <<flags, ended>>
  <2>1. [of |-> wants[t], files |-> kept] \in AnyLock
    BY <1>1 DEF AnyLock
  <2>2. lock' \in [Tool -> AnyLock]
    BY <1>3, <2>1
  <2>3. Shape'
    BY <1>3, <2>2 DEF Relock
  <2>4. ended = <<>> /\ flags # {"idle"}
    BY DEF Relock
  <2>5. RelockedSoFar'
    <3> SUFFICES ASSUME NEW i \in DOMAIN Tools, i < position' PROVE Relocked(Tools[i])'
      BY DEF RelockedSoFar
    <3>1. Tools[i] \in Tool /\ wants' = wants
      BY DEF Tool, Relock
    <3>2. CASE Tools[i] = t
      <4>1. lock'[t] = [of |-> wants[t], files |-> kept]
        BY <1>1, <1>3
      <4> QED
        BY <3>1, <3>2, <4>1, <1>3 DEF Relocked, WantedWheel
    <3>3. CASE Tools[i] # t
      <4>1. i < position
        BY <1>1, <1>3, <3>3
      <4>2. Relocked(Tools[i])
        BY <4>1 DEF RelockedSoFar, Relock
      <4>3. lock'[Tools[i]] = lock[Tools[i]]
        BY <1>3, <3>1, <3>3
      <4> QED
        BY <3>1, <4>2, <4>3 DEF Relocked, WantedWheel
    <3> QED
      BY <3>2, <3>3
  <2>6. CopiedSoFar'
    BY <1>1, <1>3, LockAssumption DEF CopiedSoFar, Compared, Relock, LockAssumption
  <2> QED
    BY <1>3, <2>3, <2>4, <2>5, <2>6
<1> QED
  BY <1>2, <1>3 DEF Relock

LEMMA CopyOrderly ==
  ASSUME Orderly, Copy
  PROVE  Orderly'
<1> USE DEF Orderly, Shape, EndedIsIdle, ZeroMeansInOrder
<1> DEFINE workflow == Workflows[Compared]
<1>1. ended = <<>> /\ flags # {"idle"} /\ wants' = wants /\ lock' = lock
  BY DEF Copy
<1>2. CASE Stop(1) /\ UNCHANGED <<carried, differs, position>>
  BY <1>1, <1>2 DEF Stop, RelockedSoFar, CopiedSoFar
<1>3. CASE /\ position' = position + 1 /\ UNCHANGED <<flags, ended>>
           /\ IF "--check" \in flags
              THEN /\ differs' = IF Inline(workflow) = carried THEN differs
                                 ELSE differs \cup {workflow}
                   /\ UNCHANGED carried
              ELSE carried' = Inline(workflow) /\ UNCHANGED differs
  <2>1. Shape'
    BY <1>1, <1>3 DEF Inline
  <2>2. RelockedSoFar'
    <3> SUFFICES ASSUME "--relock" \in flags, NEW i \in DOMAIN Tools PROVE Relocked(Tools[i])'
      BY <1>3 DEF RelockedSoFar
    <3>1. i < position
      BY LockAssumption DEF Copy, Compared, LockAssumption
    <3> QED
      BY <1>1, <3>1 DEF RelockedSoFar, Relocked, WantedWheel
  <2>3. /\ Compared \in Int /\ Compared' = Compared + 1
        /\ \A i \in DOMAIN Workflows : i \in Int
    <3>1. Len(Tools) \in Nat /\ \A i \in DOMAIN Workflows : i \in Int
      BY LockAssumption DEF LockAssumption
    <3> QED
      BY <1>3, <3>1 DEF Compared
  <2>4. CopiedSoFar'
    <3> SUFFICES ASSUME differs' = {}, NEW i \in DOMAIN Workflows, i < Compared',
                        NEW t \in Of(Workflows[i])
                 PROVE  carried'[t] = lock[t]
      BY <1>1 DEF CopiedSoFar, Of
    <3>1. t \in Tool /\ differs = {}
      BY <1>3 DEF Of
    <3>2. CASE i = Compared
      BY <1>3, <3>1, <3>2 DEF Inline
    <3>3. CASE i # Compared
      <4>1. i < Compared
        BY <2>3, <3>3
      <4>2. carried[t] = lock[t]
        BY <1>1, <3>1, <4>1 DEF CopiedSoFar
      <4> QED
        BY <1>3, <3>1, <4>2 DEF Inline
    <3> QED
      BY <3>2, <3>3
  <2> QED
    BY <1>1, <1>3, <2>1, <2>2, <2>4
<1> QED
  BY <1>2, <1>3 DEF Copy

LEMMA FinishOrderly ==
  ASSUME Orderly, Finish
  PROVE  Orderly'
<1> USE DEF Orderly, Shape
<1>1. flags' = {"idle"} /\ ended'[1] = flags /\ (ended'[2] = 0 => differs = {})
  BY DEF Finish, Stop
<1>2. ZeroMeansInOrder'
  <2> SUFFICES ASSUME differs = {}, NEW t \in Tool
               PROVE  /\ carried[t] = lock[t]
                      /\ "--relock" \in flags =>
                           /\ lock[t].of = wants[t] /\ lock[t].files # {}
                           /\ \A w \in lock[t].files : \E m \in Oldest[t]..Newest : Installs(m, w)
    BY <1>1 DEF ZeroMeansInOrder, Finish, Installs
  <2>1. carried[t] = lock[t]
    <3>1. PICK i \in DOMAIN Workflows : Carrier[t] = Workflows[i]
      BY LockAssumption DEF LockAssumption
    <3>2. i < Compared
      BY LockAssumption DEF LockAssumption, Finish, Compared
    <3> QED
      BY <3>1, <3>2 DEF CopiedSoFar, Of, Finish
  <2>2. ASSUME "--relock" \in flags PROVE Relocked(t)
    <3>1. PICK i \in DOMAIN Tools : t = Tools[i]
      BY DEF Tool
    <3>2. i < position
      BY <2>2, LockAssumption DEF LockAssumption, Finish, Compared
    <3> QED
      BY <2>2, <3>1, <3>2 DEF RelockedSoFar
  <2> QED
    BY <2>1, <2>2, WantedInstalls DEF Relocked
<1> QED
  BY <1>1, <1>2 DEF Finish, RelockedSoFar, CopiedSoFar, EndedIsIdle

LEMMA OrderlyInvariant == LockSpec => []Orderly
<1>1. Orderly /\ [LockNext]_lockVars => Orderly'
  <2>1. ASSUME Orderly, UNCHANGED lockVars PROVE Orderly'
    BY <2>1 DEF Orderly, lockVars, Shape, RelockedSoFar, CopiedSoFar, EndedIsIdle,
                ZeroMeansInOrder, Relocked, WantedWheel, Compared, Of, Installs
  <2> QED
    BY <2>1, OutsideOrderly, RelockOrderly, CopyOrderly, FinishOrderly DEF LockNext
<1> QED
  BY <1>1, InitOrderly, PTL DEF LockSpec

(* A run of tool_locks.py that ends with 0 leaves, or has found, every     *)
(* workflow installing what its .txt locks, whatever was edited, left half *)
(* relocked or missing before; and after --relock the .txt is the .in's,   *)
(* without a wheel that no supported Python could install.                 *)
THEOREM GoodRunsLeaveOrder == LockSpec => []ZeroMeansInOrder
<1>1. Orderly => ZeroMeansInOrder
  BY DEF Orderly
<1> QED
  BY <1>1, OrderlyInvariant, PTL

-----------------------------------------------------------------------------
(* The doppler-secrets action.                                             *)

(* The gate is passed once, and only a job that was let through has a mode.*)
Behind == {"all", "request", "exchange", "basic", "select", "mask", "write"}
Gated ==
  /\ mode \in {"none", "oidc", "token"}
  /\ mode # "none" => ~Skipped(job)
  /\ pc \in Behind => mode # "none"
  /\ pc = "decide" => sent \cup env \cup outputs = {}
  /\ sent \cup env \cup outputs # {} => mode # "none"

LEMMA GatedInvariant == Spec => []Gated
<1>1. Init => Gated
  BY DEF Init, Gated, Behind
<1>2. Gated /\ [Next]_vars => Gated'
  <2> SUFFICES ASSUME Gated, [Next]_vars PROVE Gated'
    OBVIOUS
  <2> USE DEF Gated, Behind
  <2>1. CASE Decide
    BY <2>1 DEF Decide, Mode, Skipped, given, written, Refused, Trusted, OnTrustedRef
  <2>2. CASE Validate
    BY <2>2 DEF Validate, Path, Skipped, given, written, Refused, Trusted, OnTrustedRef
  <2>3. CASE FetchAll \/ RequestJwt \/ Exchange \/ ReadConfig
    BY <2>3 DEF FetchAll, RequestJwt, Exchange, ReadConfig, Skipped, given, written,
                Refused, Trusted, OnTrustedRef
  <2>4. CASE Select \/ MaskValues \/ Write \/ Break
    BY <2>4 DEF Select, MaskValues, Write, Break, Skipped, given, written,
                Refused, Trusted, OnTrustedRef
  <2>5. CASE UNCHANGED vars
    BY <2>5 DEF vars, Skipped, Refused, Trusted, OnTrustedRef
  <2> QED
    BY <2>1, <2>2, <2>3, <2>4, <2>5 DEF Next
<1> QED
  BY <1>1, <1>2, PTL DEF Spec

(* No credential is used and no secret is written for a fork, nor, while   *)
(* the gate is on, for anything but a trusted event on a trusted ref.      *)
THEOREM NoSecretWithoutTrust == Spec => []SecretsNeedTrust
<1>1. Gated => SecretsNeedTrust
  <2> SUFFICES ASSUME Gated, sent \cup env \cup outputs # {}, job.gate = "on"
               PROVE  Trusted(job)
    BY DEF Gated, SecretsNeedTrust, Skipped, Refused, Trusted, OnTrustedRef
  <2> QED
    BY DEF Gated, Skipped, Refused
<1> QED
  BY <1>1, GatedInvariant, PTL

-----------------------------------------------------------------------------
(* What each step relies on: what is about to be written was checked and   *)
(* masked by an earlier one, and nothing is written before.                *)
Selecting == {"request", "exchange", "basic", "select", "mask", "write"}

Asked ==
  /\ job.spelt \in {"", "blank", "bad", "names"}
  /\ job.spelt = "names" <=> job.want # {}
  /\ mode \in {"none", "oidc", "token"}
  /\ pc \in Behind => Acceptable(job)
  /\ pc = "all" => WholeConfig(job)
  /\ pc \in Selecting => ~WholeConfig(job)

Checked ==
  /\ pc \in {"mask", "write"} => \A n \in job.want : Usable(n)
  /\ pc = "write" => /\ \A n \in ToMask, f \in Form : <<n, f>> \in masked
                     /\ job.export = "outputs" => <<"object", "whole">> \in masked

Unwritten ==
  /\ pc \notin {"write", "done", "failed"} => env = {}
  /\ pc = "write" => env \subseteq job.want /\ (job.export = "outputs" => env = {})
  /\ pc \notin {"done", "failed"} => outputs = {}

LEMMA AskedInvariant == Spec => []Asked
<1>1. Init => Asked
  BY DopplerAssumption DEF DopplerAssumption, Init, Asked, Behind, Selecting, Job
<1>2. Asked /\ [Next]_vars => Asked'
  <2> SUFFICES ASSUME Asked, [Next]_vars PROVE Asked'
    OBVIOUS
  <2> USE DEF Asked, Behind, Selecting, given, written, Acceptable, WholeConfig
  <2>1. CASE Decide
    BY <2>1 DEF Decide, Mode
  <2>2. CASE Validate
    BY <2>2 DEF Validate, Path
  <2>3. CASE FetchAll \/ RequestJwt \/ Exchange \/ ReadConfig
    BY <2>3 DEF FetchAll, RequestJwt, Exchange, ReadConfig
  <2>4. CASE Select \/ MaskValues \/ Write \/ Break
    BY <2>4 DEF Select, MaskValues, Write, Break
  <2>5. CASE UNCHANGED vars
    BY <2>5 DEF vars
  <2> QED
    BY <2>1, <2>2, <2>3, <2>4, <2>5 DEF Next
<1> QED
  BY <1>1, <1>2, PTL DEF Spec

(* Until the very last step nothing is written, and by then every value    *)
(* has been checked and masked.                                            *)
LEMMA ReadyInvariant == Spec => [](Checked /\ Unwritten)
<1> DEFINE Ready == Checked /\ Unwritten
<1>1. Init => Ready
  BY DEF Init, Checked, Unwritten
<1>2. Asked /\ Ready /\ [Next]_vars => Ready'
  <2> SUFFICES ASSUME Asked, Ready, [Next]_vars PROVE Ready'
    OBVIOUS
  <2>1. CASE Decide \/ Validate
    BY <2>1 DEF Decide, Validate, Path, Checked, Unwritten, given, written, Asked
  <2>2. CASE FetchAll \/ RequestJwt \/ Exchange \/ ReadConfig
    BY <2>2 DEF FetchAll, RequestJwt, Exchange, ReadConfig, Checked, Unwritten, given, written
  <2>3. CASE Select
    BY <2>3 DEF Select, Usable, Checked, Unwritten, given, written
  <2>4. CASE MaskValues
    BY <2>4 DEF MaskValues, Usable, ToMask, Hidden, Mask, Checked, Unwritten, given, written
  <2>5. CASE Write
    BY <2>5 DEF Write, Usable, ToMask, Hidden, Checked, Unwritten, given
  <2>6. CASE Break
    BY <2>6 DEF Break, Checked, Unwritten, given, written
  <2>7. CASE UNCHANGED vars
    BY <2>7 DEF vars, Usable, ToMask, Hidden, Checked, Unwritten
  <2> QED
    BY <2>1, <2>2, <2>3, <2>4, <2>5, <2>6, <2>7 DEF Next
<1> QED
  BY <1>1, <1>2, AskedInvariant, PTL DEF Spec

(* Whatever is used or written is masked by then, wherever the action      *)
(* stops and whatever Doppler says of a secret.                            *)
THEOREM NothingUnmasked == Spec => []MaskedByThen
<1>1. Init => MaskedByThen
  BY DEF Init, MaskedByThen
<1>2. Checked /\ Unwritten /\ MaskedByThen /\ [Next]_vars => MaskedByThen'
  <2> SUFFICES ASSUME Checked, Unwritten, MaskedByThen, [Next]_vars PROVE MaskedByThen'
    OBVIOUS
  <2> USE DEF MaskedByThen, Hidden, given, written
  <2>1. CASE Decide \/ Validate \/ Select \/ Break
    BY <2>1 DEF Decide, Validate, Select, Break
  <2>2. CASE FetchAll
    BY <2>2 DEF FetchAll, Unwritten
  <2>3. CASE RequestJwt \/ Exchange \/ ReadConfig
    BY <2>3 DEF RequestJwt, Exchange, ReadConfig, BeforeReading, Mask
  <2>4. CASE MaskValues
    BY <2>4 DEF MaskValues
  <2>5. CASE Write
    BY <2>5 DEF Write, Checked, Unwritten, ToMask
  <2>6. CASE UNCHANGED vars
    BY <2>6 DEF vars
  <2> QED
    BY <2>1, <2>2, <2>3, <2>4, <2>5, <2>6 DEF Next
<1> QED
  BY <1>1, <1>2, ReadyInvariant, PTL DEF Spec

(* A caller gets the names it listed, all of them or none in an output,    *)
(* and never a value that is empty there.                                  *)
THEOREM NothingUnasked == Spec => []ExactlyWhatWasAsked
<1>1. Init => ExactlyWhatWasAsked
  BY DEF Init, ExactlyWhatWasAsked
<1>2. Asked /\ Checked /\ Unwritten /\ ExactlyWhatWasAsked /\ [Next]_vars
        => ExactlyWhatWasAsked'
  <2> SUFFICES ASSUME Asked, Checked, Unwritten, ExactlyWhatWasAsked, [Next]_vars
               PROVE  ExactlyWhatWasAsked'
    OBVIOUS
  <2> USE DEF ExactlyWhatWasAsked, given, written
  <2>1. CASE Decide \/ RequestJwt \/ Exchange \/ ReadConfig
    BY <2>1 DEF Decide, RequestJwt, Exchange, ReadConfig, Unwritten
  <2>2. CASE Validate
    BY <2>2 DEF Validate, Path, Asked
  <2>3. CASE FetchAll
    BY <2>3 DEF FetchAll, Asked, Unwritten, WholeConfig, Acceptable, Behind
  <2>4. CASE Select \/ MaskValues \/ Break
    BY <2>4 DEF Select, MaskValues, Break
  <2>5. CASE Write
    BY <2>5 DEF Write, Checked, Unwritten, Usable
  <2>6. CASE UNCHANGED vars
    BY <2>6 DEF vars
  <2> QED
    BY <2>1, <2>2, <2>3, <2>4, <2>5, <2>6 DEF Next
<1> QED
  BY <1>1, <1>2, AskedInvariant, ReadyInvariant, PTL DEF Spec

-----------------------------------------------------------------------------
(* The state is well typed, and secrets are never written both ways.       *)
THEOREM SecretsTypeCorrect == Spec => []TypeOK
<1>1. Init => TypeOK
  BY DopplerAssumption DEF DopplerAssumption, Init, TypeOK
<1>2. TypeOK /\ Asked /\ Unwritten /\ [Next]_vars => TypeOK'
  <2> SUFFICES ASSUME TypeOK, Asked, Unwritten, [Next]_vars PROVE TypeOK'
    OBVIOUS
  <2> USE DEF TypeOK, given, written
  <2>0. job.want \subseteq Name /\ Hidden \subseteq Name /\ DOMAIN config \subseteq Name
    <3>1. job.want \subseteq Name
      BY DEF Job
    <3>2. DOMAIN config \subseteq Name
      BY DEF Config
    <3> QED
      BY <3>1, <3>2 DEF Hidden
  <2>1. CASE Decide
    BY <2>1 DEF Decide, Mode, UntrustedTag
  <2>2. CASE Validate
    BY <2>2 DEF Validate, Path
  <2>3. CASE FetchAll
    BY <2>3, <2>0 DEF FetchAll, Unwritten, Form
  <2>4. CASE RequestJwt \/ Exchange \/ ReadConfig
    BY <2>4 DEF RequestJwt, Exchange, ReadConfig, BeforeReading, Mask, Credential, Form
  <2>5. CASE Select \/ Break
    BY <2>5 DEF Select, Break
  <2>6. CASE MaskValues
    BY <2>6, <2>0 DEF MaskValues, ToMask, Mask, Form
  <2>7. CASE Write
    BY <2>7, <2>0 DEF Write, Unwritten
  <2>8. CASE UNCHANGED vars
    BY <2>8 DEF vars
  <2> QED
    BY <2>1, <2>2, <2>3, <2>4, <2>5, <2>6, <2>7, <2>8 DEF Next
<1> QED
  BY <1>1, <1>2, AskedInvariant, ReadyInvariant, PTL DEF Spec

-----------------------------------------------------------------------------
(* The issues of the risk register: a job looks at every entry that is     *)
(* due.  The order it takes them in exists: the place of an entry is the   *)
(* number of entries before it.                                            *)
Dated == reviewBy \in [Id -> Dates]
DueNow == {e \in Id : Due(e)}

LEMMA EntriesFinite == IsFiniteSet(Id)
<1> DEFINE f == [i \in DOMAIN Ids |-> Ids[i]]
<1>1. /\ DOMAIN Ids = 1..Len(Ids) /\ Len(Ids) \in Nat
      /\ \A i \in DOMAIN Ids : Ids[i] \in Id
  BY RegisterAssumption DEF RegisterAssumption
<1>2. IsFiniteSet(DOMAIN Ids)
  <2>1. 1 \in Int /\ Len(Ids) \in Int
    BY <1>1
  <2> QED BY <1>1, <2>1, FS_Interval, Zenon
<1>3. f \in Surjection(DOMAIN Ids, Id)
  BY <1>1 DEF Surjection, Id
<1> QED
  BY <1>2, <1>3, FS_Surjection, Zenon

LEMMA BeforeOrders ==
  ASSUME Dated
  PROVE  /\ \A e \in Id : ~Before(e, e)
         /\ \A e, d \in Id : e # d => Before(e, d) \/ Before(d, e)
         /\ \A e, d, c \in Id : Before(e, d) /\ Before(d, c) => Before(e, c)
<1> DEFINE Place(x) == CHOOSE i \in DOMAIN Ids : Ids[i] = x
<1>1. \A e \in Id : Place(e) \in DOMAIN Ids /\ Ids[Place(e)] = e
  BY DEF Id
<1>2. DOMAIN Ids \subseteq Int
  BY RegisterAssumption DEF RegisterAssumption
<1>3. \A e \in Id : reviewBy[e] = NoDate \/ reviewBy[e] \in Int
  BY RegisterAssumption DEF RegisterAssumption, Dated
<1>4. \A e, d : Before(e, d) <=>
         IF reviewBy[e] = reviewBy[d] THEN Place(e) < Place(d)
         ELSE reviewBy[d] = NoDate \/ (reviewBy[e] # NoDate /\ reviewBy[e] < reviewBy[d])
  BY DEF Before
<1>5. \A e \in Id : Place(e) \in Int
  BY <1>1, <1>2
<1>6. \A e, d \in Id : Place(e) = Place(d) => e = d
  BY <1>1
<1> HIDE DEF Place
<1>7. \A e \in Id : ~Before(e, e)
  BY <1>4, <1>5
<1>8. \A e, d \in Id : e # d => Before(e, d) \/ Before(d, e)
  BY <1>3, <1>4, <1>5, <1>6
<1>9. \A e, d, c \in Id : Before(e, d) /\ Before(d, c) => Before(e, c)
  BY <1>3, <1>4, <1>5
<1> QED BY <1>7, <1>8, <1>9

(* What a job sets out to do: every entry that is due, each once.          *)
LEMMA ExpiringIsTheDue ==
  ASSUME Dated
  PROVE  /\ Expiring \in Seq(Id)
         /\ \A i \in 1..Len(Expiring) : Due(Expiring[i])
         /\ \A e \in DueNow : \E i \in 1..Len(Expiring) : Expiring[i] = e
         /\ \A i, j \in 1..Len(Expiring) : Expiring[i] = Expiring[j] => i = j
<1> DEFINE n == Cardinality(DueNow)
           Sorted(s) == \A i, j \in DOMAIN s : i < j => Before(s[i], s[j])
           Ahead(e) == {d \in DueNow : Before(d, e)}
           f == [e \in DueNow |-> Cardinality(Ahead(e)) + 1]
<1>1. IsFiniteSet(DueNow) /\ n \in Nat /\ DueNow \subseteq Id
  BY EntriesFinite, FS_Subset, FS_CardinalityType DEF DueNow
<1>2. /\ IsFiniteSet(1..n) /\ Cardinality(1..n) = n
  <2>1. 1 \in Int /\ n \in Int /\ (IF 1 > n THEN 0 ELSE n - 1 + 1) = n
    BY <1>1
  <2> HIDE DEF n
  <2> QED BY <2>1, FS_Interval, Zenon
<1>3. /\ \A e \in DueNow : ~Before(e, e)
      /\ \A e, d \in DueNow : e # d => Before(e, d) \/ Before(d, e)
      /\ \A e, d, c \in DueNow : Before(e, d) /\ Before(d, c) => Before(e, c)
  BY <1>1, BeforeOrders
<1>4. ASSUME NEW e \in DueNow
      PROVE  /\ IsFiniteSet(Ahead(e)) /\ Cardinality(Ahead(e)) \in Nat
             /\ Cardinality(Ahead(e)) < n
  <2>1. Ahead(e) \in SUBSET DueNow /\ Ahead(e) # DueNow
    BY <1>3
  <2> HIDE DEF Ahead
  <2>2. /\ IsFiniteSet(Ahead(e)) /\ Cardinality(Ahead(e)) <= n
        /\ (n = Cardinality(Ahead(e)) => DueNow = Ahead(e))
    BY <1>1, <2>1, FS_Subset
  <2>3. Cardinality(Ahead(e)) \in Nat
    BY <2>2, FS_CardinalityType
  <2> HIDE DEF n
  <2> QED BY <1>1, <2>1, <2>2, <2>3
<1>5. ASSUME NEW e \in DueNow, NEW d \in DueNow, Before(e, d)
      PROVE  Cardinality(Ahead(e)) < Cardinality(Ahead(d))
  <2>1. Ahead(e) \in SUBSET Ahead(d) /\ e \in Ahead(d) /\ e \notin Ahead(e)
    BY <1>3, <1>5
  <2> HIDE DEF Ahead
  <2>2. Cardinality(Ahead(e)) <= Cardinality(Ahead(d))
        /\ (Cardinality(Ahead(d)) = Cardinality(Ahead(e)) => Ahead(d) = Ahead(e))
    BY <1>4, <2>1, FS_Subset
  <2> QED BY <1>4, <2>1, <2>2
<1>6. f \in [DueNow -> 1..n]
  <2> HIDE DEF Ahead, n
  <2> QED BY <1>1, <1>4
<1>7. \A e, d \in DueNow : f[e] < f[d] <=> Before(e, d)
  <2> SUFFICES ASSUME NEW e \in DueNow, NEW d \in DueNow
               PROVE  f[e] < f[d] <=> Before(e, d)
    OBVIOUS
  <2>1. f[e] = Cardinality(Ahead(e)) + 1 /\ f[d] = Cardinality(Ahead(d)) + 1
    OBVIOUS
  <2> HIDE DEF f, Ahead
  <2>2. Cardinality(Ahead(e)) \in Nat /\ Cardinality(Ahead(d)) \in Nat
    BY <1>4
  <2>3. CASE e = d
    BY <1>3, <2>1, <2>2, <2>3
  <2>4. CASE Before(e, d)
    BY <1>5, <2>1, <2>2, <2>4
  <2>5. CASE Before(d, e)
    <3>1. ~Before(e, d)
      BY <1>3, <2>5
    <3> QED BY <1>5, <2>1, <2>2, <2>5, <3>1
  <2> QED BY <1>3, <2>3, <2>4, <2>5
<1> HIDE DEF f
<1>8. \A e, d \in DueNow : f[e] = f[d] => e = d
  <2>1. \A e \in DueNow : f[e] \in Int
    BY <1>1, <1>6
  <2> QED BY <1>3, <1>7, <2>1
<1>9. f \in Bijection(DueNow, 1..n)
  <2>1. f \in Injection(DueNow, 1..n)
    BY <1>6, <1>8 DEF Injection, IsInjective
  <2>2. f \in Surjection(DueNow, 1..n)
    BY <1>1, <1>2, <2>1, FS_Injection
  <2> QED BY <2>1, <2>2 DEF Bijection
<1>10. \A i \in 1..n : \E e \in DueNow : f[e] = i
  BY <1>9 DEF Bijection, Surjection
<1> HIDE DEF n
<1>11. \E s \in [1..n -> DueNow] : Sorted(s)
  <2> DEFINE g == [i \in 1..n |-> CHOOSE e \in DueNow : f[e] = i]
  <2>1. \A i \in 1..n : g[i] \in DueNow /\ f[g[i]] = i
    BY <1>10
  <2>2. g \in [1..n -> DueNow]
    BY <2>1
  <2> HIDE DEF g
  <2>3. \A i, j \in DOMAIN g : i < j => Before(g[i], g[j])
    BY <1>7, <2>1, <2>2
  <2> QED BY <2>2, <2>3
<1>12. Expiring = CHOOSE s \in [1..n -> DueNow] : Sorted(s)
  BY DEF Expiring, DueNow, n
<1>13. Expiring \in [1..n -> DueNow] /\ Sorted(Expiring)
  BY <1>11, <1>12
<1> HIDE DEF Sorted
<1>14. \A i, j \in 1..n : Expiring[i] = Expiring[j] => i = j
  <2> SUFFICES ASSUME NEW i \in 1..n, NEW j \in 1..n, Expiring[i] = Expiring[j], i < j
               PROVE  FALSE
    BY <1>1
  <2>1. Before(Expiring[i], Expiring[j]) /\ Expiring[i] \in DueNow
    BY <1>13 DEF Sorted
  <2> QED BY <1>3, <2>1
<1>15. Expiring \in Surjection(1..n, DueNow)
  <2>1. Expiring \in Injection(1..n, DueNow)
    BY <1>13, <1>14 DEF Injection, IsInjective
  <2> QED BY <1>1, <1>2, <2>1, FS_Injection DEF n
<1>16. Expiring \in Seq(Id) /\ Len(Expiring) = n
  BY <1>1, <1>13
<1>17. \A e \in DueNow : \E i \in 1..n : Expiring[i] = e
  BY <1>15 DEF Surjection
<1> QED BY <1>13, <1>14, <1>16, <1>17 DEF DueNow

(* What is left to do is of this job, each entry once; what the search     *)
(* returned is an issue of the entry at hand.                              *)
AtWork ==
  /\ ~working => toDo = <<>> /\ looked = -1
  /\ looked # -1 => toDo # <<>>
  /\ looked > 0 => issues[looked].id = Head(toDo)
  /\ \A i, j \in 1..Len(toDo) : toDo[i] = toDo[j] => i = j

IssueRecord == [id : Id, date : Dates, open : BOOLEAN]

LEMMA InitRegister == RegisterInit => RegisterTypeOK /\ AtWork
<1> SUFFICES ASSUME RegisterInit PROVE RegisterTypeOK /\ AtWork
  OBVIOUS
<1>1. /\ LastDay \in Nat /\ MaxIssues \in Nat /\ MaxRenewals \in Nat
      /\ MaxFailures \in Nat /\ MaxReruns \in Nat
  BY RegisterAssumption DEF RegisterAssumption
<1>2. since \in [Id -> 0..LastDay]
  BY <1>1 DEF RegisterInit
<1>3. issues = <<>> /\ toDo = <<>> /\ found = {} /\ looked = -1 /\ ~working /\ todays = FALSE
  BY DEF RegisterInit
<1>4. /\ issues \in Seq(IssueRecord) /\ Len(issues) = 0 /\ toDo \in Seq(Id) /\ Len(toDo) = 0
  BY <1>3
<1>5. AtWork
  BY <1>3, <1>4 DEF AtWork
<1>6. today = 0 /\ reviewBy \in [Id -> Dates] /\ renewals = 0 /\ failures = 0 /\ reruns = 0
  BY DEF RegisterInit
<1>7. /\ today \in 0..LastDay /\ renewals \in 0..MaxRenewals /\ failures \in 0..MaxFailures
      /\ reruns \in 0..MaxReruns /\ Len(issues) <= MaxIssues /\ looked \in -1..Len(issues)
  BY <1>1, <1>3, <1>4, <1>6
<1>8. working \in BOOLEAN /\ todays \in BOOLEAN
  BY DEF RegisterInit
<1>9. found \subseteq DOMAIN issues /\ (toDo # <<>> => working)
  BY <1>3
<1> QED BY <1>2, <1>4, <1>5, <1>6, <1>7, <1>8, <1>9 DEF RegisterTypeOK, IssueRecord

(* What an issue opened or retitled for the entry at hand leaves behind.   *)
LEMMA Tracked ==
  ASSUME RegisterTypeOK, AtWork, looked # -1, issues' = Track(Head(toDo), looked),
         Len(issues) < MaxIssues \/ looked # 0
  PROVE  /\ issues' \in Seq(IssueRecord) /\ Len(issues') <= MaxIssues
         /\ Len(issues) <= Len(issues')
         /\ Head(toDo) \in Id
         /\ \E n \in DOMAIN issues' :
              /\ issues'[n].id = Head(toDo) /\ issues'[n].date = reviewBy[Head(toDo)]
              /\ n = looked \/ (looked = 0 /\ n = Len(issues) + 1 /\ issues'[n].open)
              /\ DOMAIN issues' = DOMAIN issues \cup {n}
              /\ \A m \in DOMAIN issues : m # n => issues'[m] = issues[m]
              /\ n \in DOMAIN issues => /\ issues'[n].id = issues[n].id
                                        /\ issues'[n].open = issues[n].open
<1> DEFINE e == Head(toDo)
<1>1. /\ issues \in Seq(IssueRecord) /\ Len(issues) \in Nat /\ MaxIssues \in Nat
      /\ Len(issues) <= MaxIssues /\ toDo \in Seq(Id) /\ toDo # <<>>
      /\ looked \in -1..Len(issues) /\ DOMAIN issues = 1..Len(issues)
  BY RegisterAssumption DEF RegisterAssumption, RegisterTypeOK, IssueRecord, AtWork
<1>2. e \in Id /\ reviewBy[e] \in Dates
  BY <1>1 DEF RegisterTypeOK
<1> HIDE DEF e
<1>3. CASE looked = 0
  <2> DEFINE new == [id |-> e, date |-> reviewBy[e], open |-> TRUE]
  <2>1. new \in IssueRecord
    BY <1>2 DEF IssueRecord
  <2>2. issues' = Append(issues, new)
    BY <1>3 DEF Track, e
  <2>3. new.id = e /\ new.date = reviewBy[e] /\ new.open
    OBVIOUS
  <2> HIDE DEF new
  <2>4. /\ issues' \in Seq(IssueRecord) /\ Len(issues') = Len(issues) + 1
        /\ issues'[Len(issues) + 1] = new
        /\ \A m \in 1..Len(issues) : issues'[m] = issues[m]
    <3>1. /\ Append(issues, new) \in Seq(IssueRecord)
          /\ Len(Append(issues, new)) = Len(issues) + 1
          /\ \A m \in 1..Len(issues) : Append(issues, new)[m] = issues[m]
          /\ Append(issues, new)[Len(issues) + 1] = new
      <4> DEFINE l == issues
      <4>1. l \in Seq(IssueRecord) /\ Len(l) \in Nat
        BY <1>1
      <4> HIDE DEF l
      <4>2. Append(l, new) \in Seq(IssueRecord) /\ Len(Append(l, new)) = Len(l) + 1
        BY <2>1, <4>1
      <4>3. \A m \in 1..Len(l) : Append(l, new)[m] = l[m]
        BY <2>1, <4>1
      <4>4. Append(l, new)[Len(l) + 1] = new
        BY <2>1, <4>1
      <4> QED BY <4>2, <4>3, <4>4 DEF l
    <3> QED BY <2>2, <3>1, Zenon
  <2>5. DOMAIN issues' = 1..(Len(issues) + 1)
    BY <2>4
  <2>6. /\ DOMAIN issues' = DOMAIN issues \cup {Len(issues) + 1}
        /\ Len(issues) + 1 \notin DOMAIN issues /\ Len(issues) + 1 \in DOMAIN issues'
    <3> DEFINE l == Len(issues)
    <3>1. l \in Nat /\ DOMAIN issues = 1..l /\ DOMAIN issues' = 1..(l + 1)
      BY <1>1, <2>5
    <3> HIDE DEF l
    <3>2. 1..(l + 1) = (1..l) \cup {l + 1} /\ l + 1 \notin 1..l /\ l + 1 \in 1..(l + 1)
      BY <3>1
    <3> QED BY <3>1, <3>2 DEF l
  <2>7. Len(issues') <= MaxIssues /\ Len(issues) <= Len(issues')
    BY <1>1, <1>3, <2>4
  <2>8. \A m \in DOMAIN issues : issues'[m] = issues[m]
    BY <1>1, <2>4
  <2> QED BY <1>2, <1>3, <2>3, <2>4, <2>6, <2>7, <2>8 DEF e
<1>4. CASE looked # 0
  <2>1. /\ looked \in 1..Len(issues) /\ issues[looked].id = e
        /\ issues' = [issues EXCEPT ![looked].date = reviewBy[e]]
    BY <1>1, <1>4 DEF AtWork, Track, e
  <2>2. issues[looked] \in IssueRecord
    BY <1>1, <2>1
  <2> DEFINE new == [issues[looked] EXCEPT !.date = reviewBy[e]]
  <2>3. /\ new \in IssueRecord /\ new.id = e /\ new.date = reviewBy[e]
        /\ new.open = issues[looked].open
    BY <1>2, <2>1, <2>2 DEF IssueRecord
  <2>4. issues' = [issues EXCEPT ![looked] = new]
    BY <2>1
  <2> HIDE DEF new
  <2>5. /\ issues' \in Seq(IssueRecord) /\ Len(issues') = Len(issues)
        /\ issues'[looked] = new /\ DOMAIN issues' = DOMAIN issues
        /\ \A m \in DOMAIN issues : m # looked => issues'[m] = issues[m]
    BY <1>1, <2>1, <2>3, <2>4, ExceptSeq
  <2>6. looked \in DOMAIN issues /\ DOMAIN issues = DOMAIN issues \cup {looked}
    BY <1>1, <2>1
  <2>7. Len(issues') <= MaxIssues /\ Len(issues) <= Len(issues')
    BY <1>1, <2>5
  <2>8. issues'[looked].id = issues[looked].id /\ issues'[looked].open = issues[looked].open
    BY <2>1, <2>3, <2>5
  <2> HIDE DEF RegisterTypeOK
  <2> QED
    <3>1. /\ looked \in DOMAIN issues' /\ issues'[looked].id = e
          /\ issues'[looked].date = reviewBy[e] /\ DOMAIN issues' = DOMAIN issues \cup {looked}
          /\ \A m \in DOMAIN issues : m # looked => issues'[m] = issues[m]
      BY <2>3, <2>5, <2>6
    <3> QED BY <1>2, <2>5, <2>7, <2>8, <3>1 DEF e
<1> QED BY <1>3, <1>4

LEMMA RestOfTheJob ==
  ASSUME RegisterTypeOK, AtWork, toDo # <<>>
  PROVE  /\ Tail(toDo) \in Seq(Id)
         /\ Len(Tail(toDo)) = Len(toDo) - 1 /\ Len(toDo) \in Nat \ {0}
         /\ \A i \in 1..Len(Tail(toDo)) : Tail(toDo)[i] = toDo[i + 1] /\ i + 1 \in 1..Len(toDo)
         /\ \A i \in 1..Len(Tail(toDo)) : Tail(toDo)[i] # Head(toDo)
         /\ \A i, j \in 1..Len(Tail(toDo)) : Tail(toDo)[i] = Tail(toDo)[j] => i = j
         /\ \A i \in 1..Len(toDo) :
              toDo[i] = Head(toDo) \/ \E j \in 1..Len(Tail(toDo)) : Tail(toDo)[j] = toDo[i]
<1>1. toDo \in Seq(Id) /\ Head(toDo) = toDo[1]
  BY DEF RegisterTypeOK
<1>2. /\ Tail(toDo) \in Seq(Id)
      /\ Len(Tail(toDo)) = Len(toDo) - 1 /\ Len(toDo) \in Nat \ {0}
      /\ \A i \in 1..Len(Tail(toDo)) : Tail(toDo)[i] = toDo[i + 1]
  BY <1>1
<1>3. \A i \in 1..Len(Tail(toDo)) : i + 1 \in 1..Len(toDo)
  BY <1>2
<1>4. \A i, j \in 1..Len(toDo) : toDo[i] = toDo[j] => i = j
  BY DEF AtWork
<1>5. \A i, j \in 1..Len(Tail(toDo)) : Tail(toDo)[i] = Tail(toDo)[j] => i = j
  <2> SUFFICES ASSUME NEW i \in 1..Len(Tail(toDo)), NEW j \in 1..Len(Tail(toDo)),
                      Tail(toDo)[i] = Tail(toDo)[j]
               PROVE  i = j
    OBVIOUS
  <2>1. i + 1 = j + 1
    BY <1>2, <1>3, <1>4
  <2> QED BY <1>2, <2>1
<1>6. \A i \in 1..Len(Tail(toDo)) : Tail(toDo)[i] # Head(toDo)
  <2> SUFFICES ASSUME NEW i \in 1..Len(Tail(toDo)), Tail(toDo)[i] = Head(toDo)
               PROVE  FALSE
    OBVIOUS
  <2>1. i + 1 = 1
    BY <1>1, <1>2, <1>3, <1>4
  <2> QED BY <1>2, <2>1
<1>7. ASSUME NEW i \in 1..Len(toDo), i # 1
      PROVE  \E j \in 1..Len(Tail(toDo)) : Tail(toDo)[j] = toDo[i]
  <2>1. i - 1 \in 1..Len(Tail(toDo)) /\ (i - 1) + 1 = i
    BY <1>2, <1>7
  <2> QED BY <1>2, <2>1
<1> QED BY <1>1, <1>2, <1>3, <1>5, <1>6, <1>7

LEMMA RegisterSteps ==
  ASSUME RegisterTypeOK, AtWork, [RegisterNext]_registerVars
  PROVE  RegisterTypeOK' /\ AtWork'
<1> USE DEF RegisterTypeOK
<1>0. /\ LastDay \in Nat /\ MaxIssues \in Nat /\ MaxRenewals \in Nat
      /\ MaxFailures \in Nat /\ MaxReruns \in Nat /\ DOMAIN issues = 1..Len(issues)
      /\ issues \in Seq(IssueRecord) /\ Len(issues) \in Nat
  BY RegisterAssumption DEF RegisterAssumption, IssueRecord
<1>1. CASE StartJob
  <2>1. /\ Expiring \in Seq(Id)
        /\ \A i, j \in 1..Len(Expiring) : Expiring[i] = Expiring[j] => i = j
    BY ExpiringIsTheDue DEF Dated
  <2>2. /\ toDo' = Expiring /\ looked' = -1 /\ working' = TRUE
        /\ todays' \in BOOLEAN /\ reruns' \in 0..MaxReruns
        /\ UNCHANGED <<today, reviewBy, issues, found, since, renewals, failures>>
    <3>1. /\ toDo' = Expiring /\ looked' = -1 /\ working' = TRUE
          /\ UNCHANGED <<today, reviewBy, issues, found, since, renewals, failures>>
          /\ \/ todays' = TRUE /\ reruns' = reruns
             \/ reruns < MaxReruns /\ reruns' = reruns + 1 /\ todays' = todays
      BY <1>1 DEF StartJob
    <3>2. todays' \in BOOLEAN
      BY <3>1
    <3>3. reruns' \in 0..MaxReruns
      BY <1>0, <3>1
    <3> QED BY <3>1, <3>2, <3>3
  <2> QED BY <1>0, <2>1, <2>2 DEF AtWork
<1>2. CASE Search
  <2>1. looked' = 0 \/ looked' \in Titled(Head(toDo))
    BY <1>2 DEF Search
  <2>2. looked' \in 0..Len(issues) /\ (looked' > 0 => issues[looked'].id = Head(toDo))
    BY <1>0, <2>1 DEF Titled
  <2>3. /\ working /\ toDo # <<>>
        /\ UNCHANGED <<today, reviewBy, issues, found, todays, toDo, working, since, spent>>
    BY <1>2 DEF Search
  <2> QED BY <1>0, <2>2, <2>3 DEF AtWork, spent
<1>3. CASE Update
  <2>1. /\ working /\ toDo # <<>> /\ looked # -1 /\ issues' = Track(Head(toDo), looked)
        /\ Len(issues) < MaxIssues \/ looked # 0
        /\ toDo' = Tail(toDo) /\ looked' = -1
        /\ UNCHANGED <<today, reviewBy, found, todays, working, since, spent>>
    BY <1>3 DEF Update, AtWork
  <2>2. /\ issues' \in Seq(IssueRecord) /\ Len(issues') <= MaxIssues
        /\ Len(issues) <= Len(issues') /\ DOMAIN issues \subseteq DOMAIN issues'
    BY <2>1, Tracked
  <2>3. /\ Tail(toDo) \in Seq(Id)
        /\ \A i, j \in 1..Len(Tail(toDo)) : Tail(toDo)[i] = Tail(toDo)[j] => i = j
    BY <2>1, RestOfTheJob
  <2>4. AtWork'
    BY <2>1, <2>3 DEF AtWork
  <2>5. RegisterTypeOK'
    BY <1>0, <2>1, <2>2, <2>3 DEF spent, IssueRecord
  <2> QED BY <2>4, <2>5
<1>4. CASE EndJob
  <2>1. /\ toDo = <<>> /\ looked = -1 /\ working' = FALSE
        /\ UNCHANGED <<today, reviewBy, issues, found, todays, toDo, looked, since, renewals,
                       failures, reruns>>
    BY <1>4 DEF EndJob, AtWork, spent
  <2>2. AtWork'
    BY <2>1 DEF AtWork
  <2>3. /\ working' \in BOOLEAN /\ (toDo' # <<>> => working')
    BY <2>1
  <2> QED BY <2>1, <2>2, <2>3
<1>5. CASE BreakJob
  <2>1. /\ working' = FALSE /\ toDo' = <<>> /\ looked' = -1 /\ failures' \in 0..MaxFailures
        /\ UNCHANGED <<today, reviewBy, found, todays, since, renewals, reruns>>
        /\ \/ UNCHANGED issues
           \/ /\ looked # -1 /\ (Len(issues) < MaxIssues \/ looked # 0)
              /\ issues' = Track(Head(toDo), looked)
    BY <1>0, <1>5 DEF BreakJob
  <2>2. /\ issues' \in Seq(IssueRecord) /\ Len(issues') <= MaxIssues /\ Len(issues') \in Nat
        /\ DOMAIN issues \subseteq DOMAIN issues'
    BY <1>0, <2>1, Tracked
  <2>3. AtWork'
    BY <2>1 DEF AtWork
  <2>4. found' \subseteq DOMAIN issues'
    BY <2>1, <2>2
  <2>5. looked' \in -1..Len(issues') /\ toDo' \in Seq(Id)
    BY <2>1, <2>2
  <2>6. working' \in BOOLEAN /\ todays' \in BOOLEAN
    BY <2>1
  <2>7. (toDo' # <<>> => working') /\ Len(issues') <= MaxIssues /\ issues' \in Seq(IssueRecord)
    BY <2>1, <2>2
  <2>8. UNCHANGED <<today, reviewBy, since, renewals, reruns>> /\ failures' \in 0..MaxFailures
    BY <2>1
  <2> QED BY <2>3, <2>4, <2>5, <2>6, <2>7, <2>8 DEF IssueRecord
<1>6. CASE Index
  <2>1. /\ found' = DOMAIN issues
        /\ UNCHANGED <<today, reviewBy, issues, todays, toDo, looked, working, since, renewals,
                       failures, reruns>>
    BY <1>6 DEF Index, spent
  <2> QED BY <2>1 DEF AtWork
<1>7. CASE NextDay
  <2>1. /\ today < LastDay /\ today' = today + 1 /\ todays' = FALSE
        /\ UNCHANGED <<reviewBy, issues, found, toDo, looked, working, since, renewals,
                       failures, reruns>>
    BY <1>7 DEF NextDay, spent
  <2>2. today' \in 0..LastDay
    BY <1>0, <2>1
  <2> QED BY <2>1, <2>2 DEF AtWork
<1>8. ASSUME NEW e \in Id, Renew(e) PROVE RegisterTypeOK' /\ AtWork'
  <2>1. PICK d \in Dates \ {reviewBy[e]} : reviewBy' = [reviewBy EXCEPT ![e] = d]
    BY <1>8 DEF Renew
  <2>2. /\ since' = [since EXCEPT ![e] = today] /\ renewals' \in 0..MaxRenewals
        /\ UNCHANGED <<today, issues, found, todays, toDo, looked, working, failures, reruns>>
    BY <1>0, <1>8 DEF Renew
  <2>3. reviewBy' \in [Id -> Dates] /\ since' \in [Id -> 0..LastDay]
    BY <2>1, <2>2
  <2> QED BY <1>0, <2>2, <2>3 DEF AtWork
<1>9. ASSUME NEW n \in DOMAIN issues, Close(n) PROVE RegisterTypeOK' /\ AtWork'
  <2>1. /\ issues' = [issues EXCEPT ![n].open = FALSE] /\ renewals' \in 0..MaxRenewals
        /\ ~working
        /\ UNCHANGED <<today, reviewBy, found, todays, toDo, looked, working, since, failures, reruns>>
    <3>1. renewals' = renewals + 1 /\ renewals < MaxRenewals
      BY <1>9 DEF Close
    <3>2. renewals' \in 0..MaxRenewals
      BY <1>0, <3>1
    <3> QED BY <1>9, <3>2 DEF Close
  <2>2. [issues[n] EXCEPT !.open = FALSE] \in IssueRecord
    <3>1. issues[n] \in IssueRecord
      BY <1>0
    <3> HIDE DEF RegisterTypeOK
    <3> QED BY <3>1 DEF IssueRecord
  <2>3. issues' \in Seq(IssueRecord) /\ Len(issues') = Len(issues) /\ DOMAIN issues' = DOMAIN issues
    <3> DEFINE closed == [issues[n] EXCEPT !.open = FALSE]
    <3>1. issues' = [issues EXCEPT ![n] = closed] /\ closed \in IssueRecord /\ n \in 1..Len(issues)
      BY <1>0, <2>1, <2>2
    <3> HIDE DEF closed
    <3> QED BY <1>0, <3>1, ExceptSeq
  <2>4. AtWork'
    BY <2>1 DEF AtWork
  <2> QED BY <1>0, <2>1, <2>3, <2>4 DEF IssueRecord
<1>10. CASE UNCHANGED registerVars
  BY <1>10 DEF registerVars, AtWork
<1> QED
  BY <1>1, <1>2, <1>3, <1>4, <1>5, <1>6, <1>7, <1>8, <1>9, <1>10 DEF RegisterNext

LEMMA RegisterInvariant == RegisterSpec => [](RegisterTypeOK /\ AtWork)
  BY InitRegister, RegisterSteps, PTL DEF RegisterSpec

(* Whether an issue has announced the date of e, and the Mondays that      *)
(* could have done so and are over.                                        *)
Announced(e) == \E n \in DOMAIN issues : issues[n].id = e /\ issues[n].date = reviewBy[e]
Over(d) == d < today \/ (d = today /\ todays /\ ~working)
Missed(e) == {d \in Chances(e) : Over(d)}

(* A job on its way has announced every date that is due or will; and as   *)
(* long as nothing announced a date each Monday for it broke a job.        *)
OnItsWay ==
  working => \A e \in Id : Due(e) =>
               Announced(e) \/ \E i \in 1..Len(toDo) : toDo[i] = e
Warned ==
  \A e \in Id : reviewBy[e] # NoDate /\ ~Announced(e) => Cardinality(Missed(e)) <= failures

LEMMA AnnouncedStays ==
  ASSUME RegisterTypeOK, AtWork, reviewBy' = reviewBy,
         \/ issues' = issues
         \/ /\ looked # -1 /\ (Len(issues) < MaxIssues \/ looked # 0)
            /\ issues' = Track(Head(toDo), looked),
         NEW e \in Id, Announced(e)
  PROVE  Announced(e)'
<1>1. CASE issues' = issues
  BY <1>1 DEF Announced
<1>2. CASE /\ looked # -1 /\ (Len(issues) < MaxIssues \/ looked # 0)
           /\ issues' = Track(Head(toDo), looked)
  <2>1. PICK n \in DOMAIN issues' :
          /\ issues'[n].id = Head(toDo) /\ issues'[n].date = reviewBy[Head(toDo)]
          /\ DOMAIN issues' = DOMAIN issues \cup {n}
          /\ \A m \in DOMAIN issues : m # n => issues'[m] = issues[m]
          /\ n \in DOMAIN issues => issues'[n].id = issues[n].id
    BY <1>2, Tracked
  <2>2. PICK m \in DOMAIN issues : issues[m].id = e /\ issues[m].date = reviewBy[e]
    BY DEF Announced
  <2>3. m \in DOMAIN issues' /\ issues'[m].id = e /\ issues'[m].date = reviewBy[e]
    BY <2>1, <2>2
  <2> QED BY <2>3 DEF Announced
<1> QED BY <1>1, <1>2

LEMMA MissedFinite ==
  ASSUME RegisterTypeOK, NEW e \in Id, reviewBy[e] # NoDate
  PROVE  /\ IsFiniteSet(Chances(e)) /\ Chances(e) \subseteq Int
         /\ \A d \in Chances(e) : since[e] < d /\ d <= reviewBy[e]
         /\ IsFiniteSet(Missed(e)) /\ Cardinality(Missed(e)) \in Nat
<1>1. since[e] \in Nat /\ reviewBy[e] \in Int
  BY RegisterAssumption DEF RegisterAssumption, RegisterTypeOK
<1>2. (since[e] + 1) \in Int /\ Chances(e) \subseteq (since[e] + 1)..reviewBy[e]
  BY <1>1 DEF Chances
<1>3. IsFiniteSet((since[e] + 1)..reviewBy[e])
  BY <1>1, <1>2, FS_Interval, Zenon
<1>4. IsFiniteSet(Chances(e))
  BY <1>2, <1>3, FS_Subset
<1>5. Missed(e) \in SUBSET Chances(e)
  BY DEF Missed
<1>6. IsFiniteSet(Missed(e)) /\ Cardinality(Missed(e)) \in Nat
  BY <1>4, <1>5, FS_Subset, FS_CardinalityType
<1>7. \A d \in Chances(e) : d \in Int /\ since[e] < d /\ d <= reviewBy[e]
  BY <1>1, <1>2
<1> QED BY <1>4, <1>6, <1>7

(* Where no Monday is added nothing is lost.                               *)
LEMMA NoMoreMissed ==
  ASSUME RegisterTypeOK, RegisterTypeOK', Warned, failures <= failures',
         NEW e \in Id, reviewBy[e] # NoDate, ~Announced(e), Missed(e)' \subseteq Missed(e)
  PROVE  Cardinality(Missed(e)') <= failures'
<1>1. Cardinality(Missed(e)) <= failures /\ failures \in Int /\ failures' \in Int
  BY DEF Warned, RegisterTypeOK
<1>2. IsFiniteSet(Missed(e)) /\ Cardinality(Missed(e)) \in Nat
  BY MissedFinite
<1>3. /\ Cardinality(Missed(e)') <= Cardinality(Missed(e))
      /\ Cardinality(Missed(e)') \in Nat
  <2>1. Missed(e)' \in SUBSET Missed(e)
    OBVIOUS
  <2> QED BY <1>2, <2>1, FS_Subset, FS_CardinalityType
<1> QED BY <1>1, <1>2, <1>3

(* A step that leaves the dates alone and makes no Monday over, but for    *)
(* those that do not count.                                                *)
LEMMA WarnedStays ==
  ASSUME RegisterTypeOK, RegisterTypeOK', Warned, failures <= failures',
         UNCHANGED <<reviewBy, since>>,
         \A e \in Id : Announced(e) => Announced(e)',
         \A e \in Id : reviewBy[e] # NoDate /\ ~Announced(e) =>
            \A d \in Chances(e) : Over(d)' => Over(d)
  PROVE  Warned'
<1> SUFFICES ASSUME NEW e \in Id, reviewBy'[e] # NoDate, ~(Announced(e)')
             PROVE  Cardinality(Missed(e)') <= failures'
  BY DEF Warned
<1>1. reviewBy[e] # NoDate /\ ~Announced(e)
  OBVIOUS
<1>2. Chances(e)' = Chances(e)
  BY DEF Chances
<1>3. Missed(e)' \subseteq Missed(e)
  <2>1. \A d \in Chances(e) : Over(d)' => Over(d)
    BY <1>1
  <2>2. Missed(e)' = {d \in Chances(e)' : Over(d)'}
    BY DEF Missed
  <2> QED BY <1>2, <2>1, <2>2 DEF Missed
<1> QED BY <1>1, <1>3, NoMoreMissed

LEMMA WarnedNext ==
  ASSUME RegisterTypeOK, RegisterTypeOK', AtWork, OnItsWay, Warned,
         [RegisterNext]_registerVars
  PROVE  OnItsWay' /\ Warned'
<1>0. /\ today \in Int /\ failures \in Int /\ failures <= failures
      /\ \A e \in Id : reviewBy[e] # NoDate => Chances(e) \subseteq Int
  <2>1. today \in Int /\ failures \in Int
    BY DEF RegisterTypeOK
  <2> QED BY <2>1, MissedFinite
<1>1. CASE StartJob
  <2>1. /\ toDo' = Expiring /\ working'
        /\ UNCHANGED <<today, reviewBy, issues, since, failures>>
    BY <1>1 DEF StartJob
  <2>2. OnItsWay'
    <3>1. \A e \in DueNow : \E i \in 1..Len(Expiring) : Expiring[i] = e
      BY ExpiringIsTheDue DEF Dated, RegisterTypeOK
    <3>2. \A e \in Id : Due(e)' => e \in DueNow
      BY <2>1 DEF Due, DueNow
    <3> QED BY <2>1, <3>1, <3>2 DEF OnItsWay
  <2>3. \A d : Over(d)' => Over(d)
    BY <2>1 DEF Over
  <2>4. \A e \in Id : Announced(e) => Announced(e)'
    BY <2>1 DEF Announced
  <2> QED BY <1>0, <2>1, <2>2, <2>3, <2>4, WarnedStays
<1>2. CASE Search
  <2>1. UNCHANGED <<today, reviewBy, issues, todays, toDo, working, since, failures>>
    BY <1>2 DEF Search, spent
  <2>2. OnItsWay'
    BY <2>1 DEF OnItsWay, Due, Announced
  <2>3. \A d : Over(d)' => Over(d)
    BY <2>1 DEF Over
  <2>4. \A e \in Id : Announced(e) => Announced(e)'
    BY <2>1 DEF Announced
  <2> QED BY <1>0, <2>1, <2>2, <2>3, <2>4, WarnedStays
<1>3. CASE Update
  <2>1. /\ working /\ toDo # <<>> /\ looked # -1 /\ issues' = Track(Head(toDo), looked)
        /\ Len(issues) < MaxIssues \/ looked # 0
        /\ toDo' = Tail(toDo)
        /\ UNCHANGED <<today, reviewBy, todays, working, since, failures>>
    BY <1>3 DEF Update, AtWork, spent
  <2>2. \A e \in Id : Announced(e) => Announced(e)'
    BY <2>1, AnnouncedStays
  <2>3. ASSUME NEW e \in Id, e = Head(toDo) PROVE Announced(e)'
    <3>1. PICK n \in DOMAIN issues' :
            issues'[n].id = Head(toDo) /\ issues'[n].date = reviewBy[Head(toDo)]
      BY <2>1, Tracked
    <3>2. issues'[n].id = e /\ issues'[n].date = reviewBy'[e]
      BY <2>1, <2>3, <3>1
    <3> QED BY <3>2 DEF Announced
  <2>4. OnItsWay'
    <3> SUFFICES ASSUME NEW e \in Id, Due(e)'
                 PROVE  Announced(e)' \/ \E j \in 1..Len(toDo') : toDo'[j] = e
      BY DEF OnItsWay
    <3>1. Announced(e) \/ \E i \in 1..Len(toDo) : toDo[i] = e
      BY <2>1 DEF OnItsWay, Due
    <3>2. \A i \in 1..Len(toDo) :
            toDo[i] = Head(toDo) \/ \E j \in 1..Len(Tail(toDo)) : Tail(toDo)[j] = toDo[i]
      BY <2>1, RestOfTheJob
    <3> QED BY <2>1, <2>2, <2>3, <3>1, <3>2
  <2>5. \A d : Over(d)' => Over(d)
    BY <2>1 DEF Over
  <2> QED BY <1>0, <2>1, <2>2, <2>4, <2>5, WarnedStays
<1>4. CASE EndJob
  <2>1. /\ working /\ toDo = <<>> /\ ~working'
        /\ UNCHANGED <<today, reviewBy, issues, todays, since, failures>>
    BY <1>4 DEF EndJob, spent
  <2>2. \A e \in Id : Announced(e) => Announced(e)'
    BY <2>1 DEF Announced
  <2>3. ASSUME NEW e \in Id, reviewBy[e] # NoDate, ~Announced(e), NEW d \in Chances(e), Over(d)'
        PROVE  Over(d)
    <3>1. d # today
      <4> SUFFICES ASSUME d = today PROVE FALSE
        OBVIOUS
      <4>1. Due(e)
        BY <2>3 DEF Chances, Due
      <4>2. 1..Len(toDo) = {}
        BY <2>1
      <4> QED BY <2>1, <2>3, <4>1, <4>2 DEF OnItsWay
    <3> QED BY <2>1, <2>3, <3>1 DEF Over
  <2>4. OnItsWay'
    BY <2>1 DEF OnItsWay
  <2> QED BY <1>0, <2>1, <2>2, <2>3, <2>4, WarnedStays
<1>5. CASE BreakJob
  <2>1. /\ ~working' /\ failures' = failures + 1
        /\ UNCHANGED <<today, reviewBy, todays, since>>
        /\ \/ UNCHANGED issues
           \/ /\ looked # -1 /\ (Len(issues) < MaxIssues \/ looked # 0)
              /\ issues' = Track(Head(toDo), looked)
    BY <1>5 DEF BreakJob
  <2>2. \A e \in Id : Announced(e) => Announced(e)'
    BY <2>1, AnnouncedStays
  <2>3. ASSUME NEW e \in Id, reviewBy'[e] # NoDate, ~(Announced(e)')
        PROVE  Cardinality(Missed(e)') <= failures'
    <3>1. reviewBy[e] # NoDate /\ ~Announced(e)
      BY <2>1, <2>2, <2>3
    <3>2. /\ IsFiniteSet(Missed(e)) /\ Cardinality(Missed(e)) \in Nat
          /\ Cardinality(Missed(e)) <= failures
      BY <3>1, MissedFinite DEF Warned
    <3>3. Missed(e)' \subseteq Missed(e) \cup {today}
      <4>1. Chances(e)' = Chances(e)
        BY <2>1 DEF Chances
      <4>2. \A d : Over(d)' => Over(d) \/ d = today
        BY <2>1 DEF Over
      <4>3. Missed(e)' = {d \in Chances(e)' : Over(d)'}
        BY DEF Missed
      <4> QED BY <4>1, <4>2, <4>3 DEF Missed
    <3> DEFINE M == Missed(e)
    <3>4. /\ IsFiniteSet(M \cup {today})
          /\ Cardinality(M \cup {today}) = IF today \in M THEN Cardinality(M) ELSE Cardinality(M) + 1
      <4> HIDE DEF M
      <4> QED BY <3>2, FS_AddElement DEF M
    <3>5. /\ Cardinality(Missed(e)') <= Cardinality(M \cup {today})
          /\ Cardinality(Missed(e)') \in Nat
      <4>1. Missed(e)' \in SUBSET (M \cup {today})
        BY <3>3
      <4> HIDE DEF M
      <4> QED BY <3>4, <4>1, FS_Subset, FS_CardinalityType
    <3> QED BY <1>0, <2>1, <3>2, <3>4, <3>5
  <2>4. OnItsWay'
    BY <2>1 DEF OnItsWay
  <2> QED BY <2>3, <2>4 DEF Warned
<1>6. CASE Index
  <2>1. UNCHANGED <<today, reviewBy, issues, todays, toDo, working, since, failures>>
    BY <1>6 DEF Index, spent
  <2>2. OnItsWay'
    BY <2>1 DEF OnItsWay, Due, Announced
  <2>3. \A d : Over(d)' => Over(d)
    BY <2>1 DEF Over
  <2>4. \A e \in Id : Announced(e) => Announced(e)'
    BY <2>1 DEF Announced
  <2> QED BY <1>0, <2>1, <2>2, <2>3, <2>4, WarnedStays
<1>7. CASE NextDay
  <2>1. /\ today' = today + 1 /\ ~working /\ (Scheduled => todays) /\ todays' = FALSE
        /\ UNCHANGED <<reviewBy, issues, working, since, failures>>
    BY <1>7 DEF NextDay, spent
  <2>2. ASSUME NEW e \in Id, reviewBy[e] # NoDate, NEW d \in Chances(e), Over(d)'
        PROVE  Over(d)
    <3>1. d \in Int /\ d <= today
      BY <1>0, <2>1, <2>2 DEF Over
    <3>2. CASE d = today
      BY <2>1, <2>2, <3>2 DEF Over, Chances, Scheduled
    <3> QED BY <1>0, <3>1, <3>2 DEF Over
  <2>3. \A e \in Id : Announced(e) => Announced(e)'
    BY <2>1 DEF Announced
  <2>4. OnItsWay'
    BY <2>1 DEF OnItsWay
  <2> QED BY <1>0, <2>1, <2>2, <2>3, <2>4, WarnedStays
<1>8. ASSUME NEW c \in Id, Renew(c) PROVE OnItsWay' /\ Warned'
  <2>1. PICK d \in Dates \ {reviewBy[c]} : reviewBy' = [reviewBy EXCEPT ![c] = d]
    BY <1>8 DEF Renew
  <2>2. /\ since' = [since EXCEPT ![c] = today] /\ ~working
        /\ UNCHANGED <<today, issues, todays, working, failures>>
    BY <1>8 DEF Renew
  <2>3. ASSUME NEW e \in Id, reviewBy'[e] # NoDate, ~(Announced(e)')
        PROVE  Cardinality(Missed(e)') <= failures'
    <3>1. CASE e = c
      <4>1. since'[e] = today /\ failures' \in Nat
        BY <2>2, <3>1 DEF RegisterTypeOK
      <4>2. \A d2 \in Chances(e)' : d2 \in Int /\ since'[e] < d2
        <5>1. since'[e] \in Nat /\ reviewBy'[e] \in Int
          BY <2>3, RegisterAssumption DEF RegisterAssumption, RegisterTypeOK
        <5> QED BY <5>1 DEF Chances
      <4>3. \A d2 \in Chances(e)' : ~(Over(d2)')
        <5> SUFFICES ASSUME NEW d2 \in Chances(e)', Over(d2)' PROVE FALSE
          OBVIOUS
        <5>1. d2 < today \/ d2 = today
          BY <2>2 DEF Over
        <5> QED BY <1>0, <4>1, <4>2, <5>1
      <4>4. Missed(e)' = {}
        <5>1. Missed(e)' = {d2 \in Chances(e)' : Over(d2)'}
          BY DEF Missed
        <5> QED BY <4>3, <5>1
      <4>5. Cardinality(Missed(e)') = 0
        BY <4>4, FS_EmptySet
      <4> QED BY <4>1, <4>5
    <3>2. CASE e # c
      <4>1. reviewBy'[e] = reviewBy[e] /\ since'[e] = since[e]
        BY <2>1, <2>2, <3>2 DEF RegisterTypeOK
      <4>2. ~Announced(e) /\ reviewBy[e] # NoDate
        BY <2>2, <2>3, <4>1 DEF Announced
      <4>3. Chances(e)' = Chances(e)
        BY <4>1 DEF Chances
      <4>4. Missed(e)' \subseteq Missed(e)
        <5>1. Missed(e)' = {d2 \in Chances(e)' : Over(d2)'}
          BY DEF Missed
        <5>2. \A d2 : Over(d2)' => Over(d2)
          BY <2>2 DEF Over
        <5> QED BY <4>3, <5>1, <5>2 DEF Missed
      <4> QED BY <1>0, <2>2, <4>2, <4>4, NoMoreMissed
    <3> QED BY <3>1, <3>2
  <2>4. OnItsWay'
    BY <2>2 DEF OnItsWay
  <2> QED BY <2>3, <2>4 DEF Warned
<1>9. ASSUME NEW n \in DOMAIN issues, Close(n) PROVE OnItsWay' /\ Warned'
  <2>1. /\ issues' = [issues EXCEPT ![n].open = FALSE] /\ ~working
        /\ UNCHANGED <<today, reviewBy, todays, working, since, failures>>
    BY <1>9 DEF Close
  <2>2. \A e \in Id : Announced(e) => Announced(e)'
    <3>1. DOMAIN issues' = DOMAIN issues
      BY <2>1
    <3>2. issues[n] \in IssueRecord
      <4>1. issues \in Seq(IssueRecord)
        BY DEF RegisterTypeOK, IssueRecord
      <4> QED BY <1>9, <4>1
    <3>3. \A m \in DOMAIN issues : /\ issues'[m].id = issues[m].id
                                   /\ issues'[m].date = issues[m].date
      BY <2>1, <3>2 DEF IssueRecord
    <3> QED BY <2>1, <3>1, <3>3 DEF Announced
  <2>3. \A d : Over(d)' => Over(d)
    BY <2>1 DEF Over
  <2>4. OnItsWay'
    BY <2>1 DEF OnItsWay
  <2> QED BY <1>0, <2>1, <2>2, <2>3, <2>4, WarnedStays
<1>10. CASE UNCHANGED registerVars
  <2>1. UNCHANGED <<today, reviewBy, issues, todays, toDo, working, since, failures>>
    BY <1>10 DEF registerVars
  <2>2. OnItsWay'
    BY <2>1 DEF OnItsWay, Due, Announced
  <2>3. \A d : Over(d)' => Over(d)
    BY <2>1 DEF Over
  <2>4. \A e \in Id : Announced(e) => Announced(e)'
    BY <2>1 DEF Announced
  <2> QED BY <1>0, <2>1, <2>2, <2>3, <2>4, WarnedStays
<1> QED
  BY <1>1, <1>2, <1>3, <1>4, <1>5, <1>6, <1>7, <1>8, <1>9, <1>10 DEF RegisterNext

(* An exception cannot be forgotten: for any register, calendar, renewals, *)
(* broken and repeated jobs, an overdue review that fails the audit was    *)
(* announced with its date, unless every Monday for it broke a job.        *)
THEOREM NobodyIsSurprised == RegisterSpec => []WarnedBeforeFailing
<1>1. RegisterInit => OnItsWay /\ Warned
  <2> SUFFICES ASSUME RegisterInit PROVE OnItsWay /\ Warned
    OBVIOUS
  <2>0. RegisterTypeOK
    BY InitRegister
  <2>1. today = 0 /\ ~todays /\ ~working /\ failures = 0 /\ \A e \in Id : since[e] = 0
    BY DEF RegisterInit
  <2>2. ASSUME NEW e \in Id, reviewBy[e] # NoDate PROVE Cardinality(Missed(e)) = 0
    <3>1. \A d \in Chances(e) : d \in Int /\ 0 < d
      BY <2>0, <2>1, <2>2, MissedFinite
    <3>2. Missed(e) = {}
      BY <2>1, <3>1 DEF Missed, Over
    <3> QED BY <3>2, FS_EmptySet
  <2> QED BY <2>1, <2>2 DEF OnItsWay, Warned
<1>2. RegisterTypeOK /\ RegisterTypeOK' /\ AtWork /\ OnItsWay /\ Warned
        /\ [RegisterNext]_registerVars => OnItsWay' /\ Warned'
  BY WarnedNext
<1>3. RegisterTypeOK /\ Warned => WarnedBeforeFailing
  <2> SUFFICES ASSUME RegisterTypeOK, Warned, NEW e \in Id, Overdue(e),
                      Cardinality(Chances(e)) > failures, ~Announced(e)
               PROVE  FALSE
    BY DEF WarnedBeforeFailing, Announced
  <2>1. reviewBy[e] # NoDate /\ reviewBy[e] < today /\ today \in Int /\ failures \in Int
    BY DEF Overdue, RegisterTypeOK
  <2>2. reviewBy[e] \in Int
    BY <2>1, RegisterAssumption DEF RegisterAssumption, RegisterTypeOK
  <2>3. \A d \in Chances(e) : d \in Int /\ d <= reviewBy[e]
    BY <2>1, MissedFinite
  <2>4. \A d \in Chances(e) : Over(d)
    BY <2>1, <2>2, <2>3 DEF Over
  <2>5. Missed(e) = Chances(e)
    BY <2>4 DEF Missed
  <2>6. Cardinality(Missed(e)) <= failures /\ Cardinality(Missed(e)) \in Nat
    BY <2>1, MissedFinite DEF Warned
  <2> QED BY <2>1, <2>5, <2>6
<1> QED
  BY <1>1, <1>2, <1>3, RegisterInvariant, PTL DEF RegisterSpec

-----------------------------------------------------------------------------
(* No job by hand: what the search does not know yet was opened by the job *)
(* that runs, for an entry it is done with; when the search returned       *)
(* nothing there was nothing.                                              *)
Once ==
  /\ working => todays
  /\ ~todays => found = DOMAIN issues
  /\ \A n \in DOMAIN issues \ found : \A i \in 1..Len(toDo) : toDo[i] # issues[n].id
  /\ looked = 0 => \A n \in DOMAIN issues : issues[n].open => issues[n].id # Head(toDo)
  /\ \A m, n \in DOMAIN issues :
       issues[m].id = issues[n].id /\ issues[m].open /\ issues[n].open => m = n

(* An issue tracked for the entry at hand is the only open one for it.     *)
LEMMA TrackedOnce ==
  ASSUME RegisterTypeOK, AtWork, Once, looked # -1, issues' = Track(Head(toDo), looked),
         Len(issues) < MaxIssues \/ looked # 0
  PROVE  /\ \A m, n \in DOMAIN issues' :
              issues'[m].id = issues'[n].id /\ issues'[m].open /\ issues'[n].open => m = n
         /\ \A n \in DOMAIN issues' \ found :
              (n \in DOMAIN issues /\ issues'[n].id = issues[n].id) \/ issues'[n].id = Head(toDo)
<1>1. PICK n \in DOMAIN issues' :
        /\ issues'[n].id = Head(toDo)
        /\ n = looked \/ (looked = 0 /\ n = Len(issues) + 1 /\ issues'[n].open)
        /\ DOMAIN issues' = DOMAIN issues \cup {n}
        /\ \A m \in DOMAIN issues : m # n => issues'[m] = issues[m]
        /\ n \in DOMAIN issues => /\ issues'[n].id = issues[n].id
                                  /\ issues'[n].open = issues[n].open
  BY Tracked
<1>2. CASE n \in DOMAIN issues
  BY <1>1, <1>2 DEF Once
<1>3. CASE n \notin DOMAIN issues
  <2>1. looked = 0
    <3>1. looked \in -1..Len(issues) /\ DOMAIN issues = 1..Len(issues) /\ Len(issues) \in Nat
      BY DEF RegisterTypeOK
    <3>2. looked \in DOMAIN issues \/ looked = 0
      BY <3>1
    <3> QED BY <1>1, <1>3, <3>2
  <2>2. \A m \in DOMAIN issues : issues[m].open => issues[m].id # Head(toDo)
    BY <2>1 DEF Once
  <2>3. \A m \in DOMAIN issues : m # n /\ issues'[m] = issues[m]
    BY <1>1, <1>3
  <2> QED BY <1>1, <1>3, <2>2, <2>3 DEF Once
<1> QED BY <1>2, <1>3

LEMMA OnceNext ==
  ASSUME RegisterTypeOK, RegisterTypeOK', AtWork, reruns = 0 => Once,
         [RegisterNext]_registerVars, reruns' = 0
  PROVE  Once'
<1>0. DOMAIN issues = 1..Len(issues) /\ Len(issues) \in Nat /\ reruns \in Nat
  BY DEF RegisterTypeOK
<1>a. Once
  <2>1. reruns' = reruns \/ reruns' = reruns + 1
    BY DEF RegisterNext, StartJob, Search, Update, EndJob, BreakJob, Index, NextDay, Renew,
           Close, spent, registerVars
  <2> QED BY <1>0, <2>1
<1>1. CASE StartJob
  <2>1. /\ ~todays /\ todays' = TRUE /\ looked' = -1 /\ UNCHANGED <<issues, found>>
    <3>1. reruns' # reruns + 1
      BY <1>0
    <3> QED BY <1>1, <3>1 DEF StartJob
  <2>2. found = DOMAIN issues
    BY <1>a, <2>1 DEF Once
  <2> QED BY <1>a, <2>1, <2>2 DEF Once
<1>2. CASE Search
  <2>1. /\ toDo # <<>>
        /\ looked' = 0 => Titled(Head(toDo)) = {}
        /\ UNCHANGED <<issues, found, todays, toDo, working>>
    <3>1. CASE Titled(Head(toDo)) = {}
      BY <1>2, <3>1 DEF Search
    <3>2. CASE Titled(Head(toDo)) # {}
      <4>1. looked' \in Titled(Head(toDo))
        BY <1>2, <3>2 DEF Search
      <4>2. looked' # 0
        BY <1>0, <4>1 DEF Titled, RegisterTypeOK
      <4> QED BY <1>2, <4>2 DEF Search
    <3> QED BY <3>1, <3>2
  <2>2. ASSUME looked' = 0, NEW n \in DOMAIN issues, issues[n].open
        PROVE  issues[n].id # Head(toDo)
    <3>1. CASE n \in found
      BY <2>1, <2>2, <3>1 DEF Titled
    <3>2. CASE n \notin found
      <4>1. toDo \in Seq(Id) /\ 1 \in 1..Len(toDo) /\ Head(toDo) = toDo[1]
        BY <2>1 DEF RegisterTypeOK
      <4> QED BY <1>a, <3>2, <4>1 DEF Once
    <3> QED BY <3>1, <3>2
  <2> QED BY <1>a, <2>1, <2>2 DEF Once
<1>3. CASE Update
  <2>1. /\ working /\ toDo # <<>> /\ looked # -1 /\ issues' = Track(Head(toDo), looked)
        /\ Len(issues) < MaxIssues \/ looked # 0
        /\ toDo' = Tail(toDo) /\ looked' = -1
        /\ UNCHANGED <<found, todays, working>>
    BY <1>3 DEF Update, AtWork
  <2>2. /\ \A m, n \in DOMAIN issues' :
             issues'[m].id = issues'[n].id /\ issues'[m].open /\ issues'[n].open => m = n
        /\ \A n \in DOMAIN issues' \ found :
             (n \in DOMAIN issues /\ issues'[n].id = issues[n].id) \/ issues'[n].id = Head(toDo)
    BY <1>a, <2>1, TrackedOnce
  <2>3. /\ \A i \in 1..Len(Tail(toDo)) : Tail(toDo)[i] = toDo[i + 1] /\ i + 1 \in 1..Len(toDo)
        /\ \A i \in 1..Len(Tail(toDo)) : Tail(toDo)[i] # Head(toDo)
    BY <2>1, RestOfTheJob
  <2>4. \A n \in DOMAIN issues' \ found' : \A i \in 1..Len(toDo') : toDo'[i] # issues'[n].id
    BY <1>a, <2>1, <2>2, <2>3 DEF Once
  <2>5. working' /\ todays'
    BY <1>a, <2>1 DEF Once
  <2> QED BY <2>1, <2>2, <2>4, <2>5 DEF Once
<1>4. CASE EndJob
  <2>1. ~working' /\ UNCHANGED <<issues, found, todays, toDo, looked>>
    BY <1>4 DEF EndJob
  <2> QED BY <1>a, <2>1 DEF Once
<1>5. CASE BreakJob
  <2>1. /\ working /\ ~working' /\ toDo' = <<>> /\ looked' = -1 /\ UNCHANGED <<found, todays>>
        /\ \/ UNCHANGED issues
           \/ /\ looked # -1 /\ (Len(issues) < MaxIssues \/ looked # 0)
              /\ issues' = Track(Head(toDo), looked)
    BY <1>5 DEF BreakJob
  <2>2. \A m, n \in DOMAIN issues' :
          issues'[m].id = issues'[n].id /\ issues'[m].open /\ issues'[n].open => m = n
    <3>1. CASE UNCHANGED issues
      BY <1>a, <3>1 DEF Once
    <3>2. CASE ~UNCHANGED issues
      BY <1>a, <2>1, <3>2, TrackedOnce
    <3> QED BY <3>1, <3>2
  <2>3. todays'
    BY <1>a, <2>1 DEF Once
  <2>4. 1..Len(toDo') = {}
    BY <2>1
  <2> QED BY <2>1, <2>2, <2>3, <2>4 DEF Once
<1>6. CASE Index
  <2>1. found' = DOMAIN issues /\ UNCHANGED <<issues, todays, toDo, looked, working>>
    BY <1>6 DEF Index
  <2> QED BY <1>a, <2>1 DEF Once
<1>7. CASE NextDay
  <2>1. ~working /\ found = DOMAIN issues /\ UNCHANGED <<issues, found, toDo, looked, working>>
    BY <1>7 DEF NextDay
  <2> QED BY <1>a, <2>1 DEF Once
<1>8. ASSUME NEW e \in Id, Renew(e) PROVE Once'
  <2>1. UNCHANGED <<issues, found, todays, toDo, looked, working>>
    BY <1>8 DEF Renew
  <2> QED BY <1>a, <2>1 DEF Once
<1>9. ASSUME NEW n \in DOMAIN issues, Close(n) PROVE Once'
  <2>1. /\ issues' = [issues EXCEPT ![n].open = FALSE] /\ ~working
        /\ UNCHANGED <<found, todays, toDo, looked, working>>
    BY <1>9 DEF Close
  <2>2. toDo = <<>> /\ looked = -1
    BY <2>1 DEF AtWork
  <2>3. issues[n] \in IssueRecord
    <3>1. issues \in Seq(IssueRecord)
      BY DEF RegisterTypeOK, IssueRecord
    <3> QED BY <1>9, <3>1
  <2>4. /\ DOMAIN issues' = DOMAIN issues
        /\ \A m \in DOMAIN issues : /\ issues'[m].id = issues[m].id
                                    /\ issues'[m].open => issues[m].open
    BY <2>1, <2>3 DEF IssueRecord
  <2>5. 1..Len(toDo) = {}
    BY <2>2
  <2> QED BY <1>a, <2>1, <2>2, <2>4, <2>5 DEF Once
<1>10. CASE UNCHANGED registerVars
  <2>1. UNCHANGED <<issues, found, todays, toDo, looked, working>>
    BY <1>10 DEF registerVars
  <2> QED BY <1>a, <2>1 DEF Once
<1> QED
  BY <1>1, <1>2, <1>3, <1>4, <1>5, <1>6, <1>7, <1>8, <1>9, <1>10 DEF RegisterNext

(* Two open issues for one entry take a job by hand, before the search     *)
(* knew the first: broken jobs, renewals and issues closed by hand do not  *)
(* do it, for any register and calendar.                                   *)
THEOREM NoSecondIssue == RegisterSpec => []OneIssuePerEntry
<1>1. RegisterInit => (reruns = 0 => Once)
  BY DEF RegisterInit, Once
<1>2. RegisterTypeOK /\ RegisterTypeOK' /\ AtWork /\ (reruns = 0 => Once)
        /\ [RegisterNext]_registerVars => (reruns = 0 => Once)'
  BY OnceNext
<1>3. (reruns = 0 => Once) => OneIssuePerEntry
  BY DEF Once, OneIssuePerEntry
<1> QED
  BY <1>1, <1>2, <1>3, RegisterInvariant, PTL DEF RegisterSpec

-----------------------------------------------------------------------------
(* The types.                                                              *)
LEMMA BaseTypes == BaseSpec => []BaseTypeOK
<1> DEFINE Inv == /\ BaseTypeOK
                  /\ pending # {} => Listed(base) /\ baseStep = "compare"
                  /\ baseStep = "list" => failed = {} /\ bumps = {}
<1>1. BaseInit => Inv
  BY DEF BaseInit, BaseTypeOK
<1>2. Inv /\ [BaseNext]_baseVars => Inv'
  <2> SUFFICES ASSUME Inv, [BaseNext]_baseVars PROVE Inv'
    OBVIOUS
  <2> USE DEF BaseTypeOK
  <2>1. CASE ListPins
    <3>1. UNCHANGED <<base, failed, bumps>> /\ baseStep = "list"
      BY <2>1 DEF ListPins
    <3>2. CASE Listed(base)
      <4>1. baseStep' = "compare" /\ pending' = Pins(base) /\ baseExit' = baseExit
        BY <2>1, <3>2 DEF ListPins
      <4>2. failed = {} /\ bumps = {}
        BY <3>1
      <4> QED BY <3>1, <3>2, <4>1, <4>2
    <3>3. CASE ~Listed(base)
      <4>1. baseStep' = "done" /\ baseExit' = 1 /\ pending' = pending
        BY <2>1, <3>3 DEF ListPins
      <4> QED BY <3>1, <3>3, <4>1
    <3> QED BY <3>2, <3>3
  <2>2. ASSUME NEW p \in Pins(base), Compare(p) PROVE Inv'
    <3> DEFINE fixed == FixedByBump(base.registry[p.repo].pinned, base.registry[p.repo].current)
    <3>1. /\ p \in pending /\ pending' = pending \ {p}
          /\ UNCHANGED <<base, baseStep, baseExit>>
          /\ \/ failed' = failed \cup {p} /\ bumps' = bumps
             \/ failed' = failed /\ bumps' \in {bumps, bumps \cup {<<p, fixed>>}}
      BY <2>2 DEF Compare, NotCompared
    <3>2. fixed \subseteq Vuln
      BY <3>1, BaseAssumption DEF BaseAssumption, FixedByBump
    <3> HIDE DEF fixed
    <3>3. CASE failed' = failed \cup {p} /\ bumps' = bumps
      <4>1. \A bump \in bumps' : bump[1] \notin pending' \cup failed'
        BY <3>1, <3>3
      <4> QED BY <3>1, <3>3, <4>1
    <3>4. CASE failed' = failed /\ bumps' = bumps
      <4>1. \A bump \in bumps' : bump[1] \notin pending' \cup failed'
        BY <3>1, <3>4
      <4> QED BY <3>1, <3>4, <4>1
    <3>5. CASE failed' = failed /\ bumps' = bumps \cup {<<p, fixed>>}
      <4>1. bumps' \subseteq Pins(base) \X SUBSET Vuln
        BY <3>2, <3>5
      <4>2. \A bump \in bumps' : bump[1] \notin pending' \cup failed'
        BY <3>1, <3>5
      <4> QED BY <3>1, <3>5, <4>1, <4>2
    <3> QED BY <3>1, <3>3, <3>4, <3>5
  <2>3. CASE BaseConclude
    <3>1. /\ pending = {} /\ baseStep' = "done" /\ baseExit' \in {0, 1}
          /\ UNCHANGED <<base, pending, failed, bumps>>
      BY <2>3 DEF BaseConclude, BaseExit
    <3>2. baseExit' \in -1..1
      BY <3>1
    <3> QED BY <3>1, <3>2
  <2>4. CASE UNCHANGED baseVars
    BY <2>4 DEF baseVars
  <2> QED BY <2>1, <2>2, <2>3, <2>4 DEF BaseNext
<1> QED BY <1>1, <1>2, PTL DEF BaseSpec

LEMMA ComplaintTypes ==
  ASSUME NEW k \in DriftLock PROVE CheckLock(k) \subseteq Problems
<1>1. WrongWithFile(k) \subseteq Problems
  BY DEF WrongWithFile, Problems
<1>2. WrongWithSource(k) \subseteq Problems
  BY DEF WrongWithSource, Problems
<1>3. {"keys"} \cap k.wrong \subseteq Problems /\ (IF k.malformed THEN {"sha256"} ELSE {}) \subseteq Problems
  BY DEF Problems
<1>4. {"cannot read"} \subseteq Problems /\ {"not an object"} \subseteq Problems
  BY DEF Problems
<1> QED BY <1>1, <1>2, <1>3, <1>4 DEF CheckLock

LEMMA DriftTypes == DriftSpec => []DriftTypeOK
<1>1. DriftInit => DriftTypeOK
  <2> SUFFICES ASSUME DriftInit PROVE DriftTypeOK
    OBVIOUS
  <2>1. Len(call.locks) \in Nat
    BY DriftAssumption DEF DriftAssumption, DriftInit
  <2> QED BY <2>1 DEF DriftInit, DriftTypeOK
<1>2. DriftTypeOK /\ [DriftNext]_driftVars => DriftTypeOK'
  <2> SUFFICES ASSUME DriftTypeOK, [DriftNext]_driftVars PROVE DriftTypeOK'
    OBVIOUS
  <2> USE DEF DriftTypeOK
  <2>0. /\ call.locks \in Seq(DOMAIN call.real) /\ Len(call.locks) \in Nat
        /\ DOMAIN call.locks = 1..Len(call.locks)
        /\ \A p \in DOMAIN call.real : call.real[p] \in DOMAIN call.lock \cup {Outside}
        /\ \A n \in DOMAIN call.lock : call.lock[n] \in DriftLock
    BY DriftAssumption DEF DriftAssumption
  <2>1. CASE NothingToCheck
    <3>1. /\ problems' = {<<-1, "nothing to check">>} /\ driftExit' = 1
          /\ printed' = problems' /\ UNCHANGED <<call, nextLock, seenLocks>>
      BY <2>1 DEF NothingToCheck
    <3> DEFINE l == Len(call.locks)
    <3>2. "nothing to check" \in Problems
      BY DEF Problems
    <3>3. -1 \in -1..l /\ 1 \in -1..1
      <4>1. l \in Nat
        BY <2>0
      <4> HIDE DEF l
      <4> QED BY <4>1
    <3>4. problems' \subseteq (-1..l) \X (Problems \cup {call.generator})
      <4>1. <<-1, "nothing to check">> \in (-1..l) \X (Problems \cup {call.generator})
        <5> HIDE DEF l
        <5> QED BY <3>2, <3>3
      <4> QED BY <3>1, <4>1
    <3> QED BY <3>1, <3>3, <3>4
  <2>2. CASE CheckNextLock
    <3> DEFINE real == call.real[call.locks[nextLock]]
    <3>0. /\ nextLock \in DOMAIN call.locks
          /\ \/ real = Outside /\ Complain(nextLock, {"leaves the root"})
             \/ real # Outside /\ Complain(nextLock, {"listed twice"})
             \/ real # Outside /\ Complain(nextLock, CheckLock(call.lock[real]))
          /\ printed' = printed
      <4> HIDE DEF DriftTypeOK
      <4> QED BY <2>2, Zenon DEF CheckNextLock
    <3>1. PICK what \in SUBSET Problems : Complain(nextLock, what)
      <4>1. call.locks[nextLock] \in DOMAIN call.real
        <5> DEFINE s == call.locks
                   R == DOMAIN call.real
        <5>1. s \in Seq(R) /\ nextLock \in 1..Len(s)
          <6> HIDE DEF DriftTypeOK
          <6> QED BY <2>0, <3>0
        <5> HIDE DEF s, R, DriftTypeOK
        <5>2. s[nextLock] \in R
          BY <5>1
        <5> QED BY <5>2 DEF s, R
      <4>2. real # Outside => real \in DOMAIN call.lock
        BY <2>0, <4>1
      <4>3. real # Outside => CheckLock(call.lock[real]) \in SUBSET Problems
        <5> HIDE DEF real
        <5> QED BY <2>0, <4>2, ComplaintTypes
      <4>4. {"leaves the root"} \in SUBSET Problems /\ {"listed twice"} \in SUBSET Problems
        BY DEF Problems
      <4> HIDE DEF real, DriftTypeOK
      <4> QED BY <3>0, <4>3, <4>4
    <3>2. /\ nextLock \in 1..Len(call.locks) /\ nextLock' = nextLock + 1
          /\ UNCHANGED <<call, driftExit>>
      <4>1. nextLock' = nextLock + 1 /\ UNCHANGED <<call, driftExit>>
        <5> HIDE DEF DriftTypeOK
        <5> QED BY <2>2, Zenon DEF CheckNextLock
      <4> QED BY <2>0, <3>0, <4>1
    <3>3. seenLocks' = seenLocks \/ (real # Outside /\ seenLocks' = seenLocks \cup {real})
      <4> HIDE DEF DriftTypeOK
      <4> QED BY <2>2, Zenon DEF CheckNextLock
    <3>4. seenLocks' \subseteq DOMAIN call.lock
      <4>1. call.locks[nextLock] \in DOMAIN call.real
        BY <2>0, <3>2
      <4> QED BY <2>0, <3>3, <4>1
    <3>5. nextLock \in -1..Len(call.locks) /\ nextLock' \in 1..(Len(call.locks) + 2)
      BY <2>0, <3>2
    <3>6. problems' \subseteq (-1..Len(call.locks)) \X (Problems \cup {call.generator})
      BY <3>1, <3>5 DEF Complain
    <3>7. printed' \subseteq problems'
      BY <3>0, <3>1 DEF Complain
    <3> QED BY <3>2, <3>4, <3>5, <3>6, <3>7
  <2>3. CASE RunGenerator
    <3>1. 0 \in -1..Len(call.locks) /\ nextLock + 1 \in 1..(Len(call.locks) + 2)
      BY <2>0, <2>3 DEF RunGenerator
    <3>2. problems' \subseteq (-1..Len(call.locks)) \X (Problems \cup {call.generator})
      BY <2>0, <2>3, <3>1 DEF RunGenerator, Complain, CheckGenerator
    <3>3. driftExit' \in -1..1
      BY <2>3 DEF RunGenerator
    <3> QED BY <2>3, <3>1, <3>2, <3>3 DEF RunGenerator
  <2>4. CASE DieOfLock
    <3>1. /\ seenLocks' = seenLocks \cup {call.real[call.locks[nextLock]]}
          /\ call.real[call.locks[nextLock]] # Outside /\ nextLock \in DOMAIN call.locks
          /\ driftExit' = 1 /\ UNCHANGED <<call, nextLock, problems, printed>>
      BY <2>4 DEF DieOfLock
    <3>2. call.locks[nextLock] \in DOMAIN call.real
      BY <2>0, <3>1
    <3>3. seenLocks' \subseteq DOMAIN call.lock
      BY <2>0, <3>1, <3>2
    <3> QED BY <3>1, <3>3
  <2>5. CASE UNCHANGED driftVars
    BY <2>5 DEF driftVars
  <2> QED BY <2>1, <2>2, <2>3, <2>4, <2>5 DEF DriftNext
<1> QED BY <1>1, <1>2, PTL DEF DriftSpec

LEMMA LockTypes == LockSpec => []LockTypeOK
<1>0. /\ Tools \in Seq(Tool) /\ Len(Tools) \in Nat /\ DOMAIN Tools = 1..Len(Tools)
      /\ Len(Workflows) \in Nat /\ DOMAIN Workflows = 1..Len(Workflows)
      /\ MaxChanges \in Nat /\ MaxRuns \in Nat /\ 0 \in Version
  BY LockAssumption DEF LockAssumption
<1> DEFINE Options == SUBSET {"--relock", "--check"}
           Counted == /\ position \in 1..(Len(Tools) + Len(Workflows) + 1)
                      /\ differs \subseteq {Workflows[i] : i \in DOMAIN Workflows}
                      /\ flags \in {{"idle"}} \cup Options
                      /\ ended \in {<<>>} \cup (Options \X {0, 1})
                      /\ changes \in 0..MaxChanges /\ runs \in 0..MaxRuns
           Held2 == /\ wants \in [Tool -> Version] /\ lock \in [Tool -> AnyLock]
                    /\ carried \in [Tool -> AnyLock \cup {NoStep}]
<1>1. LockTypeOK <=> Counted /\ Held2
  BY DEF LockTypeOK, AnyLock
<1>2. LockInit => Counted /\ Held2
  <2> SUFFICES ASSUME LockInit PROVE Counted /\ Held2
    OBVIOUS
  <2>1. Held2
    BY <1>0 DEF LockInit, AnyLock
  <2>2. 1 \in 1..(Len(Tools) + Len(Workflows) + 1) /\ 0 \in 0..MaxChanges /\ 0 \in 0..MaxRuns
    BY <1>0
  <2> QED BY <2>1, <2>2 DEF LockInit
<1>3. Held2 /\ [LockNext]_lockVars => Held2'
  <2> SUFFICES ASSUME Held2, [LockNext]_lockVars PROVE Held2'
    OBVIOUS
  <2>1. ASSUME NEW t \in Tool, Change(t) PROVE Held2'
    <3>1. CASE \E v \in Version \ {wants[t]} :
                 /\ wants' = [wants EXCEPT ![t] = v]
                 /\ lock' \in {lock, [lock EXCEPT ![t] = [of |-> v, files |-> Wheels[v]]]}
                 /\ carried' = carried
      BY <3>1 DEF AnyLock
    <3>2. CASE /\ wants' = wants /\ lock' = lock
               /\ carried' \in {[carried EXCEPT ![t] = x] :
                                  x \in {NoStep} \cup {carried[u] : u \in Tool \ {t}}}
      BY <3>2
    <3> QED BY <2>1, <3>1, <3>2 DEF Change
  <2>2. CASE Relock
    <3> DEFINE t == Tools[position]
               kept == {w \in Wheels[wants[t]] : WantedWheel(w, Oldest[t])}
    <3>1. /\ UNCHANGED <<wants, carried>>
          /\ lock' = lock \/ lock' = [lock EXCEPT ![t] = [of |-> wants[t], files |-> kept]]
      BY <2>2 DEF Relock, Stop
    <3>2. lock' \in [Tool -> AnyLock]
      <4>1. CASE t \in Tool
        <5>1. [of |-> wants[t], files |-> kept] \in AnyLock
          BY <4>1 DEF AnyLock
        <5> HIDE DEF kept
        <5> QED BY <3>1, <4>1, <5>1
      <4>2. CASE t \notin Tool
        BY <3>1, <4>2
      <4> QED BY <4>1, <4>2
    <3> QED BY <3>1, <3>2
  <2>3. CASE Copy
    <3>1. /\ UNCHANGED <<wants, lock>>
          /\ carried' = carried \/ carried' = Inline(Workflows[Compared])
      BY <2>3 DEF Copy, Stop
    <3> QED BY <3>1 DEF Inline
  <2>4. CASE Start \/ Finish \/ UNCHANGED lockVars
    BY <2>4 DEF Start, Finish, lockVars
  <2> QED BY <2>1, <2>2, <2>3, <2>4 DEF LockNext
<1>4. Counted /\ [LockNext]_lockVars => Counted'
  <2> SUFFICES ASSUME Counted, [LockNext]_lockVars PROVE Counted'
    OBVIOUS
  <2>0. "idle" \notin {"--relock", "--check"}
    OBVIOUS
  <2>1. ASSUME NEW t \in Tool, Change(t) PROVE Counted'
    <3>1. /\ changes' = changes + 1 /\ changes < MaxChanges /\ ended' = <<>>
          /\ UNCHANGED <<flags, position, differs, runs>>
      BY <2>1 DEF Change
    <3>2. changes' \in 0..MaxChanges
      BY <1>0, <3>1
    <3> QED BY <3>1, <3>2
  <2>2. CASE Start
    <3>1. /\ runs' = runs + 1 /\ runs < MaxRuns /\ ended' = <<>> /\ flags' \in Options
          /\ position' = 1 /\ differs' = {} /\ UNCHANGED changes
      BY <2>2 DEF Start
    <3>2. runs' \in 0..MaxRuns /\ 1 \in 1..(Len(Tools) + Len(Workflows) + 1)
      BY <1>0, <3>1
    <3> QED BY <3>1, <3>2
  <2>3. ASSUME flags # {"idle"}, NEW status \in {0, 1}, Stop(status),
               UNCHANGED <<position, differs, changes, runs>>
        PROVE  Counted'
    <3>1. flags' = {"idle"} /\ ended' = <<flags, status>>
      BY <2>3 DEF Stop
    <3>2. ended' \in Options \X {0, 1}
      BY <2>3, <3>1
    <3> QED BY <2>3, <3>1, <3>2
  <2>4. CASE Relock
    <3>1. /\ flags # {"idle"} /\ position <= Len(Tools) /\ UNCHANGED <<differs, changes, runs>>
          /\ \/ position' = position + 1 /\ UNCHANGED <<flags, ended>>
             \/ Stop(1) /\ UNCHANGED position
      BY <2>4 DEF Relock
    <3>2. position + 1 \in 1..(Len(Tools) + Len(Workflows) + 1)
      BY <1>0, <3>1
    <3> QED BY <2>3, <3>1, <3>2
  <2>5. CASE Copy
    <3>1. /\ flags # {"idle"} /\ Compared \in 1..Len(Workflows) /\ UNCHANGED <<changes, runs>>
          /\ \/ Stop(1) /\ UNCHANGED <<differs, position>>
             \/ /\ position' = position + 1 /\ UNCHANGED <<flags, ended>>
                /\ differs' \subseteq differs \cup {Workflows[Compared]}
      BY <2>5 DEF Copy
    <3>2. position + 1 \in 1..(Len(Tools) + Len(Workflows) + 1)
      BY <1>0, <3>1 DEF Compared
    <3>3. Workflows[Compared] \in {Workflows[i] : i \in DOMAIN Workflows}
      BY <1>0, <3>1
    <3> QED BY <2>3, <3>1, <3>2, <3>3
  <2>6. CASE Finish
    <3>1. /\ flags # {"idle"} /\ Stop(IF differs = {} THEN 0 ELSE 1)
          /\ UNCHANGED <<position, differs, changes, runs>>
      BY <2>6 DEF Finish
    <3> QED BY <2>3, <3>1
  <2>7. CASE UNCHANGED lockVars
    BY <2>7 DEF lockVars
  <2> QED BY <2>1, <2>2, <2>4, <2>5, <2>6, <2>7 DEF LockNext
<1> QED
  <2> HIDE DEF Counted, Held2
  <2> QED BY <1>1, <1>2, <1>3, <1>4, PTL DEF LockSpec

LEMMA GenTypes == GenSpec => []GenTypeOK
<1>1. GenInit => GenTypeOK
  BY DEF GenInit, GenTypeOK
<1>2. GenTypeOK /\ [GenNext]_wikiVars => GenTypeOK'
  <2> SUFFICES ASSUME GenTypeOK, [GenNext]_wikiVars PROVE GenTypeOK'
    OBVIOUS
  <2>1. CASE WritePages
    <3>1. DOMAIN Render(source, history) = Pages(source)
      BY DEF Render, Pages
    <3>2. DOMAIN Replaced(outDir, Render(source, history)) = Pages(source) \cup DOMAIN outDir
      BY <3>1 DEF Replaced
    <3>3. /\ UNCHANGED <<source, history>> /\ wrote' \in {"pages", "nothing"}
          /\ outDir' = outDir \/ outDir' = Replaced(outDir, Render(source, history))
      BY <2>1 DEF WritePages
    <3>4. DOMAIN outDir' = DOMAIN outDir \/ DOMAIN outDir' = Pages(source) \cup DOMAIN outDir
      BY <3>2, <3>3
    <3> QED BY <3>3, <3>4 DEF GenTypeOK
  <2>2. CASE CheckPages
    BY <2>2 DEF CheckPages, GenTypeOK
  <2>3. CASE MoveOn
    BY <2>3 DEF MoveOn, GenTypeOK
  <2>4. CASE UNCHANGED wikiVars
    BY <2>4 DEF wikiVars, GenTypeOK
  <2> QED BY <2>1, <2>2, <2>3, <2>4 DEF GenNext
<1> QED BY <1>1, <1>2, PTL DEF GenSpec

-----------------------------------------------------------------------------
(* Of the wiki: what a run that said so has written or found is the        *)
(* rendering of this tree and this history, page by page.                  *)
AsRendered ==
  /\ wrote \in {"pages", "current"} =>
       /\ Renders(source, history)
       /\ \A p \in Pages(source) : p \in DOMAIN outDir /\ outDir[p] = Render(source, history)[p]
  /\ wrote = "current" => DOMAIN outDir = Pages(source)

LEMMA RenderedPages == DOMAIN Render(source, history) = Pages(source)
  BY DEF Render, Pages

LEMMA AsRenderedInvariant == GenSpec => []AsRendered
<1>1. GenInit => AsRendered
  BY DEF GenInit, AsRendered
<1>2. AsRendered /\ [GenNext]_wikiVars => AsRendered'
  <2> SUFFICES ASSUME AsRendered, [GenNext]_wikiVars PROVE AsRendered'
    OBVIOUS
  <2>1. CASE WritePages
    <3>1. CASE Renders(source, history)
      <4> DEFINE new == Render(source, history)
      <4>1. /\ outDir' = Replaced(outDir, new) /\ wrote' = "pages" /\ UNCHANGED <<source, history>>
        BY <2>1, <3>1 DEF WritePages
      <4>2. DOMAIN new = Pages(source)
        BY RenderedPages
      <4>3. /\ Pages(source)' = Pages(source) /\ Render(source, history)' = new
            /\ Renders(source, history)'
        BY <3>1, <4>1
      <4> HIDE DEF new
      <4>4. \A p \in DOMAIN new : p \in DOMAIN outDir' /\ outDir'[p] = new[p]
        BY <4>1 DEF Replaced
      <4> QED BY <4>1, <4>2, <4>3, <4>4 DEF AsRendered
    <3>2. CASE ~Renders(source, history)
      BY <2>1, <3>2 DEF WritePages, AsRendered
    <3> QED BY <3>1, <3>2
  <2>2. CASE CheckPages
    <3>1. UNCHANGED <<source, history, outDir>>
      BY <2>2 DEF CheckPages
    <3>2. CASE Renders(source, history) /\ outDir = Render(source, history)
      BY <2>2, <3>1, <3>2, RenderedPages DEF CheckPages, AsRendered
    <3>3. CASE ~(Renders(source, history) /\ outDir = Render(source, history))
      BY <2>2, <3>1, <3>3 DEF CheckPages, AsRendered
    <3> QED BY <3>2, <3>3
  <2>3. CASE MoveOn
    BY <2>3 DEF MoveOn, AsRendered
  <2>4. CASE UNCHANGED wikiVars
    BY <2>4 DEF wikiVars, AsRendered
  <2> QED BY <2>1, <2>2, <2>3, <2>4 DEF GenNext
<1> QED BY <1>1, <1>2, PTL DEF GenSpec

(* Only links change, so the fences of a page stay where they are.         *)
LEMMA ConvertedLinks ==
  ASSUME NEW s, NEW page, NEW i \in DOMAIN page, Convert(s, page)[i].kind = "link"
  PROVE  InFence(Convert(s, page), i)
<1> DEFINE c == Convert(s, page)
<1>1. /\ DOMAIN c = DOMAIN page
      /\ \A j \in DOMAIN page : c[j] = IF j \in LinksToConvert(page) THEN Target(s, page[j].what)
                                       ELSE page[j]
  BY DEF Convert
<1>2. \A to : Target(s, to).kind \in {"page", "url", "external"}
  BY DEF Target, Part
<1>3. \A j \in DOMAIN page : c[j].kind = "fence" <=> page[j].kind = "fence"
  BY <1>1, <1>2 DEF LinksToConvert
<1>4. i \notin LinksToConvert(page) /\ page[i].kind = "link"
  BY <1>1, <1>2
<1>5. InFence(page, i)
  BY <1>4 DEF LinksToConvert
<1>6. {j \in DOMAIN c : j < i /\ c[j].kind = "fence"} =
        {j \in DOMAIN page : j < i /\ page[j].kind = "fence"}
  BY <1>1, <1>3
<1> QED BY <1>5, <1>6 DEF InFence

-----------------------------------------------------------------------------
(* Every set of numbers has a smallest one: the numbers below all of it    *)
(* are an interval, whose length is that number and one more.              *)
LEMMA SmallestOf ==
  ASSUME NEW T, T \subseteq Nat, T # {}
  PROVE  \E m \in T : \A k \in T : m <= k
<1>1. PICK n \in T : TRUE
  OBVIOUS
<1> DEFINE S == {k \in 0..n : \A j \in T : k <= j}
           c == Cardinality(S)
<1>2. n \in Nat /\ 0 \in S
  BY <1>1
<1>3. S \subseteq 0..n /\ (\A x \in S : 0..x \subseteq S)
  BY <1>2
<1>4. \A x \in Nat : (x \notin S) => x > n \/ \E j \in T : x > j
  BY <1>2
<1>5. \A x \in S : \A j \in T : x <= j
  OBVIOUS
<1> HIDE DEF S
<1>6. 0 \in Int /\ n \in Int
  BY <1>2
<1>7. IsFiniteSet(0..n)
  BY <1>6, FS_Interval, Zenon
<1>8. IsFiniteSet(S) /\ c \in Nat
  BY <1>3, <1>7, FS_Subset, FS_CardinalityType, Zenon
<1>9. \A a, b \in Int : IsFiniteSet(a..b) /\ Cardinality(a..b) = IF a > b THEN 0 ELSE b - a + 1
  BY FS_Interval, Zenon
<1>10. \A x \in S : Cardinality(0..x) <= c
  BY <1>3, <1>8, FS_Subset, Zenon
<1> HIDE DEF c
<1>11. S \subseteq 0..(c - 1)
  <2> SUFFICES ASSUME NEW x \in S PROVE x <= c - 1 /\ x \in Nat
    BY <1>8
  <2>1. x \in Nat
    BY <1>2, <1>3
  <2>2. Cardinality(0..x) = x + 1
    BY <2>1, <1>9
  <2> QED BY <1>8, <1>10, <2>1, <2>2
<1>12. c # 0
  BY <1>2, <1>11, <1>8
<1>13. Cardinality(0..(c - 1)) = c /\ IsFiniteSet(0..(c - 1))
  BY <1>8, <1>9, <1>12
<1>14. S = 0..(c - 1)
  <2>1. Cardinality(S) = Cardinality(0..(c - 1))
    BY <1>13 DEF c
  <2> QED BY <1>11, <1>13, <2>1, FS_Subset, Zenon
<1>15. c - 1 \in S /\ c \notin S
  BY <1>8, <1>12, <1>14
<1>16. c - 1 \in T
  BY <1>1, <1>2, <1>4, <1>5, <1>8, <1>15
<1> QED BY <1>5, <1>15, <1>16

(* FlattenSeq is a recursive function; that there is one is shown by the   *)
(* smallest length for which there would be none.                          *)
Flattens(f, ss, n) ==
  f = [i \in 1..n |-> IF i = 1 THEN ss[i] ELSE f[i - 1] \o ss[i]]

LEMMA SomethingFlattens ==
  ASSUME NEW ss, NEW n \in Nat
  PROVE  \E f : Flattens(f, ss, n)
<1> DEFINE T == {m \in Nat : ~ \E f : Flattens(f, ss, m)}
<1> SUFFICES ASSUME T # {} PROVE FALSE
  OBVIOUS
<1>1. PICK m \in T : \A k \in T : m <= k
  <2> HIDE DEF T
  <2>1. T \subseteq Nat
    BY DEF T
  <2> QED BY <2>1, SmallestOf
<1>2. CASE m = 0
  <2>1. Flattens([i \in 1..0 |-> 0], ss, 0)
    BY DEF Flattens
  <2> QED BY <2>1, <1>2
<1>3. CASE m # 0
  <2>1. m \in Nat /\ m - 1 \in Nat /\ m - 1 \notin T
    BY <1>1, <1>3
  <2>2. PICK f : Flattens(f, ss, m - 1)
    BY <2>1
  <2> DEFINE g == [i \in 1..m |-> IF i = m THEN IF i = 1 THEN ss[i] ELSE f[i - 1] \o ss[i]
                                  ELSE f[i]]
  <2>3. \A i \in 1..m : g[i] = IF i = 1 THEN ss[i] ELSE g[i - 1] \o ss[i]
    <3> SUFFICES ASSUME NEW i \in 1..m PROVE g[i] = IF i = 1 THEN ss[i] ELSE g[i - 1] \o ss[i]
      OBVIOUS
    <3>1. CASE i = 1
      BY <2>1, <2>2, <3>1 DEF Flattens
    <3>2. CASE i # 1
      <4>1. g[i - 1] = f[i - 1]
        BY <2>1, <3>2
      <4>2. i # m => g[i] = f[i] /\ i \in 1..(m - 1)
        BY <2>1
      <4>3. i \in 1..(m - 1) => f[i] = f[i - 1] \o ss[i]
        BY <2>2, <3>2 DEF Flattens
      <4> QED BY <3>2, <4>1, <4>2, <4>3
    <3> QED BY <3>1, <3>2
  <2>4. Flattens(g, ss, m)
    BY <2>3 DEF Flattens
  <2> QED BY <2>4, <1>1
<1> QED BY <1>2, <1>3

LEMMA FlattenSeqIs ==
  ASSUME NEW ss, Len(ss) \in Nat \ {0}
  PROVE  \E f : Flattens(f, ss, Len(ss)) /\ FlattenSeq(ss) = f[Len(ss)]
<1> DEFINE f == CHOOSE f : Flattens(f, ss, Len(ss))
<1>1. Flattens(f, ss, Len(ss))
  BY SomethingFlattens
<1>2. FlattenSeq(ss) = f[Len(ss)]
  BY DEF FlattenSeq, Flattens
<1> QED BY <1>1, <1>2

LEMMA JoinedParts ==
  ASSUME NEW S, NEW s \in Seq(S), NEW t \in Seq(S)
  PROVE  s \o t \in Seq(S) /\ ToSet(s \o t) = ToSet(s) \cup ToSet(t)
<1>1. /\ s \o t \in Seq(S) /\ Len(s \o t) = Len(s) + Len(t)
      /\ \A i \in 1..(Len(s) + Len(t)) :
           (s \o t)[i] = IF i <= Len(s) THEN s[i] ELSE t[i - Len(s)]
  BY ConcatProperties, Zenon
<1>2. /\ Len(s) \in Nat /\ DOMAIN s = 1..Len(s)
      /\ Len(t) \in Nat /\ DOMAIN t = 1..Len(t)
  BY LenProperties
<1>3. DOMAIN (s \o t) = 1..(Len(s) + Len(t))
  BY <1>1
<1> DEFINE j == s \o t
<1>4. \A i \in DOMAIN s : i \in DOMAIN j /\ j[i] = s[i]
  BY <1>1, <1>2, <1>3
<1>5. \A i \in DOMAIN t : i + Len(s) \in DOMAIN j /\ j[i + Len(s)] = t[i]
  <2> SUFFICES ASSUME NEW i \in DOMAIN t
               PROVE  i + Len(s) \in DOMAIN j /\ j[i + Len(s)] = t[i]
    OBVIOUS
  <2>1. i + Len(s) \in 1..(Len(s) + Len(t)) /\ ~(i + Len(s) <= Len(s)) /\ (i + Len(s)) - Len(s) = i
    BY <1>2
  <2> QED BY <1>1, <1>3, <2>1
<1>6. \A i \in DOMAIN j : \/ i \in DOMAIN s /\ j[i] = s[i]
                          \/ i - Len(s) \in DOMAIN t /\ j[i] = t[i - Len(s)]
  BY <1>1, <1>2, <1>3
<1> HIDE DEF j
<1>7. ToSet(j) = ToSet(s) \cup ToSet(t)
  BY <1>4, <1>5, <1>6 DEF ToSet
<1> QED BY <1>1, <1>7 DEF j

(* What FlattenSeq puts together is what there was.                        *)
LEMMA FlattenedParts ==
  ASSUME NEW S, NEW ss \in Seq(Seq(S))
  PROVE  /\ FlattenSeq(ss) \in Seq(S)
         /\ ToSet(FlattenSeq(ss)) = UNION {ToSet(ss[i]) : i \in DOMAIN ss}
<1> DEFINE n == Len(ss)
           Upto(k) == UNION {ToSet(ss[i]) : i \in 1..k}
<1>1. n \in Nat /\ DOMAIN ss = 1..n /\ (\A i \in 1..n : ss[i] \in Seq(S))
  BY LenProperties
<1>2. CASE n = 0
  <2>1. ss = <<>> /\ 1..n = {}
    BY <1>1, <1>2, EmptySeq
  <2>2. FlattenSeq(ss) = ss
    BY <1>2 DEF FlattenSeq
  <2>3. ToSet(ss) = {}
    BY <1>1, <2>1 DEF ToSet
  <2>4. UNION {ToSet(ss[i]) : i \in DOMAIN ss} = {}
    BY <1>1, <2>1
  <2>5. ss \in Seq(S)
    BY <2>1
  <2> QED BY <2>2, <2>3, <2>4, <2>5
<1>3. CASE n # 0
  <2>1. PICK f : Flattens(f, ss, n) /\ FlattenSeq(ss) = f[n]
    BY <1>1, <1>3, FlattenSeqIs
  <2> HIDE DEF n
  <2> DEFINE T == {k \in 1..n : ~(f[k] \in Seq(S) /\ ToSet(f[k]) = Upto(k))}
  <2>2. T = {}
    <3> SUFFICES ASSUME T # {} PROVE FALSE
      OBVIOUS
    <3>1. T \subseteq Nat
      BY <1>1
    <3>2. PICK m \in T : \A k \in T : m <= k
      <4> HIDE DEF T
      <4> QED BY <3>1, SmallestOf
    <3>3. m \in 1..n /\ f[m] = IF m = 1 THEN ss[m] ELSE f[m - 1] \o ss[m]
      BY <2>1 DEF Flattens
    <3>4. CASE m = 1
      <4>1. 1..m = {m}
        BY <3>4
      <4>2. f[m] \in Seq(S) /\ ToSet(f[m]) = Upto(m)
        BY <1>1, <3>3, <3>4, <4>1
      <4> QED BY <4>2
    <3>5. CASE m # 1
      <4>1. m - 1 \in 1..n /\ m - 1 \notin T
        <5> HIDE DEF T
        <5> QED BY <1>1, <3>2, <3>3, <3>5
      <4>2. f[m - 1] \in Seq(S) /\ ToSet(f[m - 1]) = Upto(m - 1)
        BY <4>1
      <4>3. f[m] = f[m - 1] \o ss[m] /\ ss[m] \in Seq(S)
        BY <1>1, <3>3, <3>5
      <4>4. f[m] \in Seq(S) /\ ToSet(f[m]) = Upto(m - 1) \cup ToSet(ss[m])
        <5> DEFINE a == f[m - 1] b == ss[m]
        <5>1. a \in Seq(S) /\ b \in Seq(S)
          BY <4>2, <4>3
        <5> HIDE DEF a, b
        <5>2. a \o b \in Seq(S) /\ ToSet(a \o b) = ToSet(a) \cup ToSet(b)
          BY <5>1, JoinedParts
        <5> QED BY <4>2, <4>3, <5>2 DEF a, b
      <4>5. 1..m = (1..(m - 1)) \cup {m}
        BY <1>1, <3>3
      <4>6. Upto(m) = Upto(m - 1) \cup ToSet(ss[m])
        BY <4>5
      <4> QED BY <4>4, <4>6
    <3> QED BY <3>4, <3>5
  <2>3. n \in 1..n
    BY <1>1, <1>3
  <2> QED BY <1>1, <2>1, <2>2, <2>3
<1> QED BY <1>2, <1>3

-----------------------------------------------------------------------------
(* What a page is made of before its tables are put in.                    *)
Piece == [kind : Kind, what : STRING] \cup {Prose}
LEMMA WrittenParts ==
  ASSUME NEW t \in Text
  PROVE  t \in Seq(Piece) /\ \A x \in ToSet(t) : x.kind \in Kind
<1> DEFINE W == [kind : Kind, what : STRING]
<1>1. t \in Seq(W)
  BY DEF Text
<1>2. W \subseteq Piece /\ \A x \in W : x.kind \in Kind
  BY DEF Piece
<1> HIDE DEF W
<1>3. t \in Seq(Piece) /\ \A i \in DOMAIN t : t[i] \in W
  BY <1>1, <1>2
<1> QED BY <1>2, <1>3 DEF ToSet

LEMMA MergedParts ==
  ASSUME history \in Histories
  PROVE  /\ Unreleased(history) \in Seq(Piece)
         /\ \A x \in ToSet(Unreleased(history)) : x.kind \in Kind
<1>1. history.merges \in Seq(Text)
  BY GenAssumption DEF GenAssumption
<1>2. CASE history.merges = <<>>
  <2>1. Unreleased(history) = <<Prose>> /\ Prose \in Piece
    BY <1>2 DEF Unreleased, Piece
  <2>2. Prose.kind \in Kind
    BY DEF Prose, Part, Kind
  <2> HIDE DEF Prose
  <2>3. <<Prose>> \in Seq(Piece) /\ ToSet(<<Prose>>) = {Prose}
    BY <2>1 DEF ToSet
  <2> QED BY <2>1, <2>2, <2>3
<1>3. CASE history.merges # <<>>
  <2>1. Unreleased(history) = FlattenSeq(history.merges)
    BY <1>3 DEF Unreleased
  <2> DEFINE W == [kind : Kind, what : STRING]
             u == Unreleased(history)
  <2>2. u \in Seq(W)
    <3>1. history.merges \in Seq(Seq(W))
      BY <1>1 DEF Text
    <3> HIDE DEF W
    <3> QED BY <2>1, <3>1, FlattenedParts
  <2>3. u \in Text
    BY <2>2 DEF Text
  <2> HIDE DEF u
  <2>4. u \in Seq(Piece) /\ \A x \in ToSet(u) : x.kind \in Kind
    BY <2>3, WrittenParts
  <2> QED BY <2>4 DEF u
<1> QED BY <1>2, <1>3

(* Filling in leaves no placeholder of the page, and reads nothing twice.  *)
LEMMA FilledParts ==
  ASSUME history \in Histories, NEW t \in Text
  PROVE  /\ Fill(t, history) \in Seq(Piece)
         /\ \A x \in ToSet(Fill(t, history)) :
              \/ x = Prose \/ x \in ToSet(Unreleased(history))
              \/ x \in ToSet(t) /\ x.kind \notin {"escaped", "placeholder"}
         /\ \A x \in ToSet(Fill(t, history)) : x.kind \in Kind
<1> DEFINE fill(i) ==
      CASE t[i].kind = "escaped"                                 -> <<Prose>>
        [] t[i].kind = "placeholder" /\ t[i].what = "unreleased" -> Unreleased(history)
        [] t[i].kind = "placeholder" /\ t[i].what # "unreleased" -> <<Prose>>
        [] OTHER                                                 -> <<t[i]>>
           ss == [i \in DOMAIN t |-> fill(i)]
<1>1. Fill(t, history) = FlattenSeq(ss)
  BY DEF Fill
<1>2. t \in Seq(Piece) /\ (\A x \in ToSet(t) : x.kind \in Kind)
  BY WrittenParts
<1>3. /\ Unreleased(history) \in Seq(Piece)
      /\ \A x \in ToSet(Unreleased(history)) : x.kind \in Kind
  BY MergedParts
<1>4. Prose.kind \in Kind /\ Prose \in Piece
  BY DEF Prose, Part, Kind, Piece
<1> HIDE DEF Prose
<1>5. \A i \in DOMAIN t : t[i] \in Piece /\ t[i] \in ToSet(t)
  BY <1>2 DEF ToSet
<1>6. ASSUME NEW x \in Piece PROVE <<x>> \in Seq(Piece) /\ ToSet(<<x>>) = {x}
  <2> HIDE DEF Piece
  <2>1. DOMAIN <<x>> = {1} /\ <<x>>[1] = x
    OBVIOUS
  <2> QED BY <2>1 DEF ToSet
<1>7. \A i \in DOMAIN t : \/ fill(i) = <<Prose>> \/ fill(i) = Unreleased(history)
                          \/ fill(i) = <<t[i]>> /\ t[i].kind \notin {"escaped", "placeholder"}
  OBVIOUS
<1> HIDE DEF fill
<1>8. \A i \in DOMAIN t : fill(i) \in Seq(Piece)
  BY <1>3, <1>4, <1>5, <1>6, <1>7
<1>9. ss \in Seq(Seq(Piece)) /\ DOMAIN ss = DOMAIN t
  BY <1>2, <1>8
<1>10. /\ FlattenSeq(ss) \in Seq(Piece)
       /\ ToSet(FlattenSeq(ss)) = UNION {ToSet(ss[i]) : i \in DOMAIN ss}
  <2> HIDE DEF ss, Piece
  <2> QED BY <1>9, FlattenedParts
<1>11. ASSUME NEW x \in ToSet(FlattenSeq(ss))
       PROVE  /\ \/ x = Prose \/ x \in ToSet(Unreleased(history))
                 \/ x \in ToSet(t) /\ x.kind \notin {"escaped", "placeholder"}
              /\ x.kind \in Kind
  <2>1. PICK i \in DOMAIN t : x \in ToSet(fill(i))
    BY <1>9, <1>10
  <2>2. CASE fill(i) = <<Prose>>
    BY <1>4, <1>6, <2>1, <2>2
  <2>3. CASE fill(i) = Unreleased(history)
    BY <1>3, <2>1, <2>3
  <2>4. CASE fill(i) = <<t[i]>> /\ t[i].kind \notin {"escaped", "placeholder"}
    <3>1. x = t[i]
      BY <1>5, <1>6, <2>1, <2>4
    <3> QED BY <1>2, <1>5, <2>4, <3>1
  <2> QED BY <1>7, <2>2, <2>3, <2>4
<1> QED BY <1>1, <1>10, <1>11

(* The table is put where a marker is, and nothing else is touched.        *)
LEMMA InsertedParts ==
  ASSUME NEW S, NEW page \in Seq(S), NEW table \in Seq(S)
  PROVE  /\ Insert(page, table) \in Seq(S)
         /\ \A x \in ToSet(Insert(page, table)) :
              x \in ToSet(table) \/ (x \in ToSet(page) /\ x.kind # "marker")
         /\ Markers(page) # {} => ToSet(table) \subseteq ToSet(Insert(page, table))
<1> DEFINE put(i) == IF page[i].kind = "marker" THEN table ELSE <<page[i]>>
           ss == [i \in DOMAIN page |-> put(i)]
<1>1. Insert(page, table) = FlattenSeq(ss)
  BY DEF Insert
<1>2. \A i \in DOMAIN page : page[i] \in S /\ page[i] \in ToSet(page)
  BY DEF ToSet
<1>3. ASSUME NEW x \in S PROVE <<x>> \in Seq(S) /\ ToSet(<<x>>) = {x}
  <2>1. DOMAIN <<x>> = {1} /\ <<x>>[1] = x
    OBVIOUS
  <2> QED BY <2>1 DEF ToSet
<1>4. \A i \in DOMAIN page : \/ put(i) = table /\ page[i].kind = "marker"
                             \/ put(i) = <<page[i]>> /\ page[i].kind # "marker"
  OBVIOUS
<1> HIDE DEF put
<1>5. \A i \in DOMAIN page : put(i) \in Seq(S)
  BY <1>2, <1>3, <1>4
<1>6. ss \in Seq(Seq(S)) /\ DOMAIN ss = DOMAIN page
  BY <1>5
<1>7. /\ FlattenSeq(ss) \in Seq(S)
      /\ ToSet(FlattenSeq(ss)) = UNION {ToSet(put(i)) : i \in DOMAIN page}
  <2>1. UNION {ToSet(ss[i]) : i \in DOMAIN ss} = UNION {ToSet(put(i)) : i \in DOMAIN page}
    BY <1>6
  <2> HIDE DEF ss
  <2> QED BY <1>6, <2>1, FlattenedParts
<1>8. ASSUME NEW x \in ToSet(FlattenSeq(ss))
      PROVE  x \in ToSet(table) \/ (x \in ToSet(page) /\ x.kind # "marker")
  <2>1. PICK i \in DOMAIN page : x \in ToSet(put(i))
    BY <1>7
  <2> QED BY <1>2, <1>3, <1>4, <2>1
<1>9. ASSUME Markers(page) # {} PROVE ToSet(table) \subseteq ToSet(FlattenSeq(ss))
  <2>1. PICK i \in DOMAIN page : page[i].kind = "marker"
    BY <1>9 DEF Markers
  <2>2. ToSet(put(i)) = ToSet(table)
    BY <1>4, <2>1
  <2> QED BY <1>7, <2>2
<1> QED BY <1>1, <1>7, <1>8, <1>9

-----------------------------------------------------------------------------
(* Of one page, rendered.                                                  *)
LEMMA ConvertedParts ==
  ASSUME NEW s, NEW page, NEW i \in DOMAIN page
  PROVE  LET c == Convert(s, page) IN
         /\ i \in DOMAIN c
         /\ \/ c[i] = page[i]
            \/ /\ page[i].kind = "link"
               /\ \/ c[i].kind = "page" /\ c[i].what \in DOMAIN s.pages
                  \/ c[i].kind = "url" /\ c[i].what \in s.files
                  \/ c[i].kind = "external"
<1>1. /\ i \in DOMAIN Convert(s, page)
      /\ Convert(s, page)[i] = IF i \in LinksToConvert(page) THEN Target(s, page[i].what)
                               ELSE page[i]
  BY DEF Convert
<1>2. CASE i \in LinksToConvert(page)
  <2>1. page[i].kind = "link"
    BY <1>2 DEF LinksToConvert
  <2> QED BY <1>1, <1>2, <2>1 DEF Target, Part
<1>3. CASE i \notin LinksToConvert(page)
  BY <1>1, <1>3
<1> QED BY <1>2, <1>3

LEMMA TablesType ==
  ASSUME source \in Sources, NEW w \in DOMAIN source.workflows
  PROVE  LET row == Part("table", w)
             S == Piece \cup {row} IN
         /\ Tables(source, w) \in Seq(S)
         /\ ToSet(Tables(source, w)) = {row} \cup ToSet(source.workflows[w].says)
         /\ \A x \in ToSet(source.workflows[w].says) : x.kind \in Kind
<1> DEFINE row == Part("table", w)
           S == Piece \cup {row}
           says == source.workflows[w].says
<1>1. says \in Text
  BY GenAssumption DEF GenAssumption
<1>2. says \in Seq(Piece) /\ \A x \in ToSet(says) : x.kind \in Kind
  <2> HIDE DEF says
  <2> QED BY <1>1, WrittenParts
<1>3. Tables(source, w) = <<row>> \o says
  BY DEF Tables
<1> HIDE DEF says, row
<1>4. says \in Seq(S) /\ row \in S
  <2> HIDE DEF Piece
  <2>1. Piece \subseteq S
    OBVIOUS
  <2> QED BY <1>2, <2>1
<1> HIDE DEF S
<1>5. <<row>> \in Seq(S) /\ ToSet(<<row>>) = {row}
  <2>1. DOMAIN <<row>> = {1} /\ <<row>>[1] = row
    OBVIOUS
  <2> QED BY <1>4, <2>1 DEF ToSet
<1>6. <<row>> \o says \in Seq(S) /\ ToSet(<<row>> \o says) = {row} \cup ToSet(says)
  <2> DEFINE one == <<row>>
  <2>1. one \in Seq(S) /\ ToSet(one) = {row}
    BY <1>5
  <2> HIDE DEF one
  <2>2. one \o says \in Seq(S) /\ ToSet(one \o says) = ToSet(one) \cup ToSet(says)
    BY <1>4, <2>1, JoinedParts
  <2> QED BY <2>1, <2>2 DEF one
<1> QED BY <1>2, <1>3, <1>6 DEF S, row, says

(* Before the links are converted: what is still to be filled in was put   *)
(* there, and the table is there.                                          *)
LEMMA ExpandedParts ==
  ASSUME source \in Sources, history \in Histories, Renders(source, history),
         NEW p \in DOMAIN source.pages
  PROVE  LET about == source.about[p]
             says == IF about = "" THEN {} ELSE ToSet(source.workflows[about].says)
             page == Expanded(source, history, p) IN
         /\ \E S : page \in Seq(S)
         /\ \A x \in ToSet(page) : x.kind \in {"placeholder", "marker", "escaped"} =>
              x \in says \cup ToSet(Unreleased(history))
         /\ about # "" => Part("table", about) \in ToSet(page)
         /\ \A x \in ToSet(page) : x.kind \in Kind \cup {"table"}
<1> DEFINE about == source.about[p]
           t == source.pages[p]
           filled == Fill(t, history)
           page == Expanded(source, history, p)
<1>1. t \in Text
  BY GenAssumption DEF GenAssumption
<1>2. (\A x \in ToSet(t) : x.kind \in Kind)
  <2> HIDE DEF t
  <2> QED BY <1>1, WrittenParts
<1>3. /\ filled \in Seq(Piece)
      /\ \A x \in ToSet(filled) :
           \/ x = Prose \/ x \in ToSet(Unreleased(history))
           \/ x.kind \notin {"escaped", "placeholder"}
      /\ \A x \in ToSet(filled) : x.kind \in Kind
  <2> HIDE DEF t
  <2> QED BY <1>1, FilledParts
<1>4. Prose.kind = "text"
  BY DEF Prose, Part
<1>5. PageOk(source, history, p)
  BY DEF Renders
<1>6. CASE about = ""
  <2>1. page = filled /\ Markers(filled) = {}
    BY <1>5, <1>6 DEF Expanded, PageOk
  <2> HIDE DEF filled, Prose
  <2>2. \A x \in ToSet(filled) : x.kind # "marker"
    BY <2>1 DEF Markers, ToSet
  <2> HIDE DEF page
  <2>3. \A x \in ToSet(page) : x.kind \in {"placeholder", "marker", "escaped"} =>
          x \in ToSet(Unreleased(history))
    BY <1>3, <1>4, <2>1, <2>2
  <2>4. page \in Seq(Piece) /\ \A x \in ToSet(page) : x.kind \in Kind
    BY <1>3, <2>1
  <2> QED BY <1>6, <2>3, <2>4 DEF page
<1>7. CASE about # ""
  <2>1. /\ page = Insert(filled, Tables(source, about))
        /\ about \in ReusableWorkflows(source) /\ Cardinality(Markers(filled)) = 1
    BY <1>5, <1>7 DEF Expanded, PageOk
  <2>2. about \in DOMAIN source.workflows
    BY <2>1 DEF ReusableWorkflows
  <2>3. Markers(filled) # {}
    BY <2>1, FS_EmptySet
  <2> DEFINE row == Part("table", about)
             says == ToSet(source.workflows[about].says)
             S == Piece \cup {row}
             table == Tables(source, about)
  <2>4. /\ table \in Seq(S) /\ ToSet(table) = {row} \cup says
        /\ \A x \in says : x.kind \in Kind
    <3> HIDE DEF about
    <3> QED BY <2>2, TablesType
  <2>5. row.kind = "table"
    BY DEF Part
  <2> HIDE DEF row, says, table, filled, Prose
  <2>6. filled \in Seq(S)
    <3> HIDE DEF Piece
    <3>1. Piece \subseteq S
      OBVIOUS
    <3> QED BY <1>3, <3>1
  <2> HIDE DEF S
  <2>7. /\ page \in Seq(S)
        /\ \A x \in ToSet(page) :
             x \in ToSet(table) \/ (x \in ToSet(filled) /\ x.kind # "marker")
        /\ ToSet(table) \subseteq ToSet(page)
    <3>1. page = Insert(filled, table)
      BY <2>1 DEF table
    <3> HIDE DEF page
    <3> QED BY <2>3, <2>4, <2>6, <3>1, InsertedParts
  <2> HIDE DEF page
  <2>8. \A x \in ToSet(page) : x.kind \in {"placeholder", "marker", "escaped"} =>
          x \in says \cup ToSet(Unreleased(history))
    BY <1>3, <1>4, <2>4, <2>5, <2>7
  <2>9. row \in ToSet(page) /\ \A x \in ToSet(page) : x.kind \in Kind \cup {"table"}
    BY <1>3, <2>4, <2>5, <2>7
  <2> QED BY <1>7, <2>7, <2>8, <2>9 DEF row, says, page
<1> QED BY <1>6, <1>7

LEMMA PageIsSound ==
  ASSUME source \in Sources, history \in Histories, Renders(source, history),
         NEW p \in Pages(source), outDir[p] = Render(source, history)[p]
  PROVE  Sound(p)
<1>1. CASE p = "_Footer"
  <2>1. outDir[p] = <<Prose>>
    BY <1>1 DEF Render
  <2>2. Prose.kind = "text"
    BY DEF Prose, Part
  <2> HIDE DEF Prose
  <2>3. \A i \in DOMAIN outDir[p] : outDir[p][i] = Prose
    BY <2>1
  <2> QED BY <1>1, <2>2, <2>3 DEF Sound
<1>2. CASE p # "_Footer"
  <2> DEFINE about == source.about[p]
             says == IF about = "" THEN {} ELSE ToSet(source.workflows[about].says)
             page == Expanded(source, history, p)
             c == Convert(source, page)
  <2>1. p \in DOMAIN source.pages
    BY <1>2 DEF Pages
  <2>2. outDir[p] = c
    BY <1>2 DEF Render, Rendered, Pages
  <2>3. /\ \A x \in ToSet(page) : x.kind \in {"placeholder", "marker", "escaped"} =>
             x \in says \cup ToSet(Unreleased(history))
        /\ about # "" => Part("table", about) \in ToSet(page)
        /\ \A x \in ToSet(page) : x.kind \in Kind \cup {"table"}
    BY <2>1, ExpandedParts
  <2>4. DOMAIN c = DOMAIN page
    BY DEF Convert
  <2> HIDE DEF page
  <2>5. \A i \in DOMAIN page :
          \/ c[i] = page[i]
          \/ /\ page[i].kind = "link"
             /\ \/ c[i].kind = "page" /\ c[i].what \in DOMAIN source.pages
                \/ c[i].kind = "url" /\ c[i].what \in source.files
                \/ c[i].kind = "external"
    BY ConvertedParts
  <2>6. \A i \in DOMAIN page : c[i].kind = "link" => InFence(c, i)
    BY ConvertedLinks
  <2>7. \A i \in DOMAIN page : page[i] \in ToSet(page)
    BY DEF ToSet
  <2> HIDE DEF c, says
  <2>8. ASSUME NEW i \in DOMAIN c
        PROVE  /\ c[i].kind \in {"placeholder", "marker", "escaped"} =>
                    c[i] \in says \cup ToSet(Unreleased(history))
               /\ c[i].kind = "page" => c[i].what \in DOMAIN source.pages
               /\ c[i].kind = "url" => c[i].what \in source.files
    <3>1. page[i] \in ToSet(page) /\ page[i].kind \in Kind \cup {"table"}
      BY <2>3, <2>4, <2>7
    <3>2. CASE c[i] = page[i]
      BY <2>3, <3>1, <3>2 DEF Kind
    <3>3. CASE c[i] # page[i]
      BY <2>4, <2>5, <3>3
    <3> QED BY <3>2, <3>3
  <2>9. about # "" => Part("table", about) \in ToSet(c)
    <3> SUFFICES ASSUME about # "" PROVE Part("table", about) \in ToSet(c)
      OBVIOUS
    <3>1. PICK i \in DOMAIN page : page[i] = Part("table", about)
      BY <2>3 DEF ToSet
    <3>2. page[i].kind = "table"
      <4>1. \A w : Part("table", w).kind = "table"
        BY DEF Part
      <4> QED BY <3>1, <4>1
    <3>3. c[i] = page[i]
      BY <2>5, <3>2
    <3> QED BY <2>4, <3>1, <3>3 DEF ToSet
  <2> QED BY <1>2, <2>2, <2>4, <2>6, <2>8, <2>9 DEF Sound, says
<1> QED BY <1>1, <1>2

(* For every source tree and history: what the generator has written, or   *)
(* --check has called current, is the whole wiki of this tree.  No page of *)
(* it is missing, nothing its authors left to fill in is left, no table is *)
(* missing, and every link that is shown, whoever wrote it, leads where    *)
(* there is something.                                                     *)
THEOREM WikiIsSound == GenSpec => []WrittenWikiIsSound
<1>1. GenTypeOK /\ AsRendered => WrittenWikiIsSound
  <2> SUFFICES ASSUME GenTypeOK, AsRendered PROVE WrittenWikiIsSound
    OBVIOUS
  <2>1. source \in Sources /\ history \in Histories
    BY DEF GenTypeOK
  <2>2. ASSUME wrote \in {"pages", "current"}, NEW p \in Pages(source)
        PROVE  p \in DOMAIN outDir /\ Sound(p)
    <3>1. /\ Renders(source, history) /\ p \in DOMAIN outDir
          /\ outDir[p] = Render(source, history)[p]
      BY <2>2 DEF AsRendered
    <3> QED BY <2>1, <3>1, PageIsSound
  <2> QED BY <2>2 DEF WrittenWikiIsSound, AsRendered
<1> QED BY <1>1, GenTypes, AsRenderedInvariant, PTL

-----------------------------------------------------------------------------
(* The programs side by side: a behaviour of one of them is one of each,   *)
(* of which all but one stand still.                                       *)
LEMMA EachOnItsOwn ==
  ToolsSpec => /\ ReleaseSpec /\ BaseSpec /\ DriftSpec
               /\ LockSpec /\ RegisterSpec /\ GenSpec
<1>1. ToolsInit => /\ ReleaseInit /\ BaseInit /\ DriftInit
                   /\ LockInit /\ RegisterInit /\ GenInit
  BY Zenon DEF ToolsInit, IdleRelease, IdleBase, IdleDrift, IdleRegister, IdleWiki
<1>2. [ToolsNext]_<<part, vars, releaseVars, baseVars, driftVars, lockVars, registerVars, wikiVars>>
        => /\ [ReleaseNext]_releaseVars /\ [BaseNext]_baseVars /\ [DriftNext]_driftVars
           /\ [LockNext]_lockVars /\ [RegisterNext]_registerVars /\ [GenNext]_wikiVars
  BY DEF ToolsNext
<1> QED
  BY <1>1, <1>2, PTL
     DEF ToolsSpec, ReleaseSpec, BaseSpec, DriftSpec, LockSpec, RegisterSpec, GenSpec

(* Every program the run puts side by side is well typed at all times, for *)
(* every value of its constants; and a pin is compared at most once, with  *)
(* one outcome, and only a running job has entries to look at.             *)
THEOREM ToolsTypeCorrect == ToolsSpec => []ToolsTypeOK
<1>1. (ReleaseTypeOK /\ BaseTypeOK /\ DriftTypeOK /\ LockTypeOK /\ RegisterTypeOK /\ GenTypeOK)
        => ToolsTypeOK
  BY DEF ToolsTypeOK
<1>2. ReleaseSpec => []ReleaseTypeOK
  BY TypeCorrect
<1> QED
  BY <1>1, <1>2, EachOnItsOwn, BaseTypes, DriftTypes, LockTypes, RegisterInvariant,
     GenTypes, PTL
=============================================================================
