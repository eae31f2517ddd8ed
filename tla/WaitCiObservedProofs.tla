------------------------ MODULE WaitCiObservedProofs ------------------------
(***************************************************************************)
(* What the watcher says is true of the commit: for every set of commits,  *)
(* page size and cap, a green verdict names an instant at which all runs   *)
(* of the commit were green, the settle rule rests on an earlier poll, and *)
(* the watcher implements the commit gate.                                 *)
(*                                                                         *)
(* The argument for the instant: a finished run never changes its record,  *)
(* and an id never comes back.  So the runs R of a green read are, at the  *)
(* moment the next read begins, either all the runs there are (then that   *)
(* moment is the instant), or one of them is gone for good, or there are   *)
(* more; in the latter two cases the next read cannot be green and equal   *)
(* the first.                                                              *)
(***************************************************************************)
EXTENDS WaitCiObserved, WaitCiProofs

IdsOf(F)  == {m[1] : m \in F}

-----------------------------------------------------------------------------
(* A read that can no longer be green with the fingerprint F: a run of F   *)
(* is gone before the read saw it, or there are more runs than F has, and  *)
(* every total the read has met says so (or the list hides runs, and the   *)
(* suite count that ends the read will say so).                            *)
Gone(F) == \E m \in F : /\ m[1] < nextId
                        /\ \A q \in runs[pin] \cup rd.runs : q.id # m[1]

Hidden == /\ suites[pin] >= SuiteCap
          /\ (rd.after = Unreadable) \/ (rd.after >= SuiteCap)

Grown(F) ==
  /\ Cardinality(IdsOf(F)) \in Nat
  /\ Cardinality(runs[pin]) > Cardinality(IdsOf(F))
  /\ Hidden \/ (\A c \in rd.counts : c > Cardinality(IdsOf(F)))

Doomed(F) == Gone(F) \/ Grown(F)

LEMMA DoomedStays ==
  ASSUME Typing, Typing', pin \in Sha, Evolves(pin), UNCHANGED <<pin, rd>>,
         NEW F \in SUBSET Mark, Doomed(F)
  PROVE  Doomed(F)'
<1>1. /\ nextId \in Nat /\ nextId' \in Nat /\ nextId <= nextId'
      /\ suites[pin] \in Nat /\ suites'[pin] \in Nat /\ suites[pin] <= suites'[pin]
      /\ SuiteCap \in Nat
      /\ Cardinality(runs[pin]) <= Cardinality(runs'[pin])
      /\ Cardinality(runs[pin]) \in Nat /\ Cardinality(runs'[pin]) \in Nat
  BY FS_CardinalityType, OptionsAssumption
     DEF Typing, TypeOK, GitHubTypeOK, FiniteRuns, Evolves, OptionsAssumption
<1>2. CASE Gone(F)
  <2>1. PICK m \in F : /\ m[1] < nextId
                       /\ \A q \in runs[pin] \cup rd.runs : q.id # m[1]
    BY <1>2 DEF Gone
  <2>2. m[1] \in Nat
    BY DEF Mark
  <2>3. m[1] < nextId' /\ \A q \in runs'[pin] \cup rd.runs : q.id # m[1]
    BY <1>1, <2>1, <2>2 DEF Evolves
  <2> QED BY <2>3 DEF Doomed, Gone
<1>3. CASE Grown(F)
  <2>1. Cardinality(runs'[pin]) > Cardinality(IdsOf(F))
    BY <1>1, <1>3 DEF Grown
  <2>2. Hidden => Hidden'
    BY <1>1 DEF Hidden
  <2> QED BY <1>3, <2>1, <2>2 DEF Doomed, Grown
<1> QED BY <1>2, <1>3 DEF Doomed

LEMMA MarksKeepIds == ASSUME NEW R PROVE IdsOf(Marks(R)) = Ids(R)
<1>1. \A r : MarkOf(r)[1] = r.id
  BY DEF MarkOf
<1>2. IdsOf(Marks(R)) \subseteq Ids(R)
  BY <1>1 DEF IdsOf, Marks, Ids
<1>3. ASSUME NEW r \in R PROVE r.id \in IdsOf(Marks(R))
  <2>1. MarkOf(r) \in Marks(R)
    BY DEF Marks
  <2> QED BY <1>1, <2>1 DEF IdsOf
<1> QED
  BY <1>2, <1>3 DEF Ids

LEMMA FingerprintMarks == ASSUME NEW r PROVE Fingerprint(r) = Marks(r.runs)
  BY DEF Fingerprint, Marks, MarkOf

LEMMA DoomedRefutes ==
  ASSUME rd \in Read, NEW F, Doomed(F), Evaluate(rd) = "green"
  PROVE  Fingerprint(rd) # F
<1> SUFFICES ASSUME Fingerprint(rd) = F PROVE FALSE
  OBVIOUS
<1>1. /\ ~Unstable(rd) /\ ~Truncated(rd)
  BY DEF Evaluate
<1>2. /\ rd.counts # {} /\ Missing \notin rd.counts
      /\ Cardinality(Ids(rd.runs)) >= rd.seen \/ ~(Cardinality(Ids(rd.runs)) < rd.seen)
      /\ \A c \in rd.counts : ~(c > rd.seen)
      /\ rd.after # Unreadable /\ rd.before = rd.after /\ ~(rd.before >= SuiteCap)
  BY <1>1 DEF Unstable, Truncated
<1>3. CASE Gone(F)
  BY <1>3 DEF Gone, Fingerprint
<1>4. CASE Grown(F)
  <2>1. Ids(rd.runs) = IdsOf(F)
    BY MarksKeepIds, FingerprintMarks
  <2>2. PICK c \in rd.counts : c > Cardinality(IdsOf(F))
    BY <1>2, <1>4 DEF Grown, Hidden
  <2>3. c \in Int /\ rd.seen \in Nat /\ Cardinality(IdsOf(F)) \in Nat
    BY <1>4 DEF Read, Grown
  <2> QED BY <1>2, <2>1, <2>2, <2>3
<1> QED BY <1>3, <1>4 DEF Doomed

(* One request of a read.                                                  *)
LEMMA DoomedRead ==
  ASSUME Typing, Ledger, NEW F \in SUBSET Mark, Doomed(F),
         pc \in {"before", "page", "after"} => rd.after = Unreadable,
         ReadSuitesBefore \/ ReadPage \/ ReadSuitesAfter
  PROVE  Doomed(F)'
<1>a. /\ pc \in {"before", "page", "after"} /\ pin' = pin
      /\ UNCHANGED <<runs, suites, nextId>>
  BY DEF ReadSuitesBefore, ReadPage, ReadSuitesAfter, Reading, Fault, world
<1>b. TypeOK /\ GitHubTypeOK /\ FiniteRuns /\ pin \in Sha
  BY <1>a DEF Typing, TypeOK
<1>0. /\ pin \in Sha /\ pin' = pin /\ UNCHANGED <<runs, suites, nextId>>
      /\ rd.after = Unreadable /\ rd \in Read
      /\ suites[pin] \in Nat /\ SuiteCap \in Nat \ {0}
      /\ GitHubTypeOK /\ FiniteRuns
  BY <1>a, <1>b, OptionsAssumption DEF TypeOK, GitHubTypeOK, OptionsAssumption
<1>1. CASE ReadSuitesBefore
  <2>1. rd'.runs = rd.runs /\ rd'.counts = rd.counts /\ rd'.after = rd.after
    BY <1>0, <1>1 DEF ReadSuitesBefore, Read
  <2> QED BY <1>0, <2>1 DEF Doomed, Gone, Grown, Hidden
<1>2. CASE ReadSuitesAfter
  <2>1. /\ rd'.runs = rd.runs /\ rd'.counts = rd.counts
        /\ rd'.after \in {Unreadable, suites[pin]}
    BY <1>0, <1>2 DEF ReadSuitesAfter, Read
  <2> QED BY <1>0, <2>1 DEF Doomed, Gone, Grown, Hidden
<1>3. CASE ReadPage
  <2>1. \/ rd' = rd
        \/ /\ rd'.runs = rd.runs \cup Page(pin, page)
           /\ rd'.counts = rd.counts \cup {Cardinality(Visible(pin))}
           /\ rd'.after = rd.after
    BY <1>0, <1>3 DEF ReadPage, Read
  <2>2. Page(pin, page) \subseteq runs[pin]
    BY DEF Page, Visible
  <2>3. suites[pin] < SuiteCap => Visible(pin) = runs[pin]
    <3>1. \A r \in runs[pin] : r.suite \in Nat /\ r.suite >= 1
      BY <1>0 DEF Ledger, GitHubTypeOK, CheckRun
    <3> QED BY <1>0, <3>1 DEF Visible
  <2>4. CASE Gone(F)
    BY <1>0, <2>1, <2>2, <2>4 DEF Doomed, Gone
  <2>5. CASE Grown(F)
    <3>1. suites[pin] < SuiteCap => ~Hidden
      BY <1>0 DEF Hidden
    <3>2. suites[pin] >= SuiteCap => Hidden'
      BY <1>0, <2>1 DEF Hidden
    <3> QED BY <1>0, <2>1, <2>3, <2>5, <3>1, <3>2 DEF Doomed, Grown
  <2> QED BY <2>4, <2>5 DEF Doomed
<1> QED BY <1>1, <1>2, <1>3

-----------------------------------------------------------------------------
(* A fingerprint is vouched for when it is that of a green list whose runs *)
(* are all final: what a green read leaves behind.                         *)
GreenList(R) ==
  /\ \A c \in Contexts : \E r \in R : Required(r) /\ r.name = c
  /\ \A r \in R :
       /\ r.sound /\ r.completed
       /\ \/ r.conclusion = "success"
          \/ ~Required(r) /\ r.conclusion = "pass"
          \/ ~Required(r) /\ r.conclusion = "bad"
             /\ \E a \in Allowed : a[1] = r.name /\ a[2] \in {r.app, Everyone}
  /\ Cardinality(R) >= MinChecks

Vouched(F) == \E R \in SUBSET CheckRun :
                F = Marks(R) /\ GreenList(R) /\ \A r \in R : Final(r)

(* The verdict "green" of a read is the script's header, said of its runs. *)
LEMMA GreenReadIsGreen ==
  ASSUME rd \in Read, Evaluate(rd) = "green"
  PROVE  GreenList(rd.runs) /\ rd.runs # {} /\ Fingerprint(rd) # {}
<1>1. /\ \A r \in rd.runs : r.sound /\ ~(IsGate(r) /\ IsBad(r)) /\ ~OtherBad(r) /\ ~OtherOpen(r)
      /\ rd.runs # {} /\ ContextsMet(rd.runs) /\ EnoughComplete(rd.runs)
  BY DEF Evaluate
<1>2. \A r : IsGate(r) <=> Required(r)
  BY DEF IsGate, Required
<1>3. \A c \in Contexts : \E r \in rd.runs : Required(r) /\ r.name = c
  BY <1>1, <1>2 DEF ContextsMet
<1>4. ASSUME NEW r \in rd.runs
      PROVE  /\ r.sound /\ r.completed
             /\ \/ r.conclusion = "success"
                \/ ~Required(r) /\ r.conclusion = "pass"
                \/ ~Required(r) /\ r.conclusion = "bad"
                   /\ \E a \in Allowed : a[1] = r.name /\ a[2] \in {r.app, Everyone}
  <2>1. r.conclusion \in Conclusion
    BY DEF Read, CheckRun
  <2>2. CASE IsGate(r)
    <3>1. r.completed /\ r.conclusion = "success"
      BY <1>1, <2>2 DEF ContextsMet, IsGate
    <3> QED BY <1>1, <3>1
  <2>3. CASE ~IsGate(r)
    <3>1. r.completed /\ r.conclusion # "none"
      BY <1>1, <2>3 DEF OtherOpen
    <3>2. r.conclusion = "bad" => IsAllowed(r)
      BY <1>1, <2>3, <3>1 DEF OtherBad, IsBad
    <3> QED BY <1>1, <1>2, <2>1, <2>3, <3>1, <3>2 DEF Conclusion, IsAllowed
  <2> QED BY <2>2, <2>3
<1>5. Cardinality(rd.runs) >= MinChecks
  <2>1. rd.runs = {r \in rd.runs : r.completed}
    BY <1>4
  <2> QED BY <1>1, <2>1 DEF EnoughComplete
<1>6. Fingerprint(rd) # {}
  BY <1>1 DEF Fingerprint
<1> QED BY <1>1, <1>3, <1>4, <1>5, <1>6 DEF GreenList

LEMMA GreenReadVouches ==
  ASSUME rd \in Read, Evaluate(rd) = "green",
         \A r \in rd.runs : r.completed => Final(r)
  PROVE  Vouched(Fingerprint(rd)) /\ Fingerprint(rd) # {}
<1>1. GreenList(rd.runs) /\ Fingerprint(rd) # {}
  BY GreenReadIsGreen
<1>2. \A r \in rd.runs : Final(r)
  BY <1>1 DEF GreenList
<1>3. rd.runs \in SUBSET CheckRun
  BY DEF Read
<1> QED BY <1>1, <1>2, <1>3, FingerprintMarks DEF Vouched

LEMMA VouchedStays ==
  ASSUME Typing, pin \in Sha, Evolves(pin), pin' = pin, nextId' \in Nat,
         NEW F, Vouched(F)
  PROVE  Vouched(F)'
<1>1. PICK R \in SUBSET CheckRun :
        F = Marks(R) /\ GreenList(R) /\ \A r \in R : Final(r)
  BY DEF Vouched
<1>2. \A r \in R : Final(r)'
  BY <1>1, FinalStays
<1> QED BY <1>1, <1>2 DEF Vouched

(* The heart of the argument: when a read begins, a vouched fingerprint is *)
(* that of the whole commit now, or the read will not confirm it.          *)
LEMMA VouchedOrDoomed ==
  ASSUME Typing, Ledger, pin \in Sha, rd = EmptyRead, NEW F, Vouched(F)
  PROVE  Doomed(F) \/ (WholeGreen(pin) /\ RunsMark(pin) = F)
<1>1. PICK R \in SUBSET CheckRun :
        F = Marks(R) /\ GreenList(R) /\ \A r \in R : Final(r)
  BY DEF Vouched
<1>2. IsFiniteSet(runs[pin]) /\ rd.runs = {} /\ rd.counts = {}
  BY DEF Typing, FiniteRuns, EmptyRead
<1>3. ASSUME NEW r \in R, r \notin runs[pin] PROVE Gone(F)
  <2>1. MarkOf(r) \in F /\ MarkOf(r)[1] = r.id
    BY <1>1 DEF Marks, MarkOf
  <2>2. r.id < nextId /\ \A q \in runs[pin] : q.id # r.id
    BY <1>1, <1>3 DEF Final
  <2> QED BY <1>2, <2>1, <2>2 DEF Gone
<1>4. CASE R \subseteq runs[pin] /\ R # runs[pin]
  <2>1. /\ IsFiniteSet(R) /\ Cardinality(R) < Cardinality(runs[pin])
        /\ Cardinality(R) \in Nat /\ Cardinality(runs[pin]) \in Nat
    BY <1>2, <1>4, FS_Subset, FS_CardinalityType
  <2>2. /\ Cardinality(Ids(R)) <= Cardinality(R)
        /\ Cardinality(Ids(R)) \in Nat
    <3> DEFINE f == [r \in R |-> r.id]
    <3>1. f \in Surjection(R, Ids(R))
      BY DEF Surjection, Ids
    <3> HIDE DEF f
    <3> QED BY <2>1, <3>1, FS_Surjection, FS_CardinalityType
  <2>3. IdsOf(F) = Ids(R)
    BY <1>1, MarksKeepIds
  <2>4. Grown(F)
    BY <1>2, <2>1, <2>2, <2>3 DEF Grown
  <2> QED BY <2>4 DEF Doomed
<1>5. CASE R = runs[pin]
  BY <1>1, <1>5 DEF WholeGreen, GreenList, RunsMark, Marks, MarkOf
<1> QED BY <1>3, <1>4, <1>5 DEF Doomed

-----------------------------------------------------------------------------
(* The history: every green moment of every commit is in the log.          *)
Observing ==
  /\ greenLog \subseteq Sha \X (SUBSET Mark) \X Nat
  /\ \A s \in Sha : WholeGreen(s) => <<s, RunsMark(s), now>> \in greenLog
  /\ PinGreen => seenGreen
  /\ GreenAsSettled => freshGreen

(* An empty list is not green: at least one check is asked for.            *)
LEMMA InitObserving == ObservedInit => Observing
<1> SUFFICES ASSUME ObservedInit PROVE Observing
  OBVIOUS
<1>1. greenLog = {} /\ \A s \in Sha : runs[s] = {}
  BY DEF ObservedInit, Init, GitHubInit
<1>2. Cardinality({}) = 0 /\ MinChecks \in Nat \ {0}
  BY FS_EmptySet, OptionsAssumption DEF OptionsAssumption
<1>3. \A s \in Sha : ~WholeGreen(s)
  BY <1>1, <1>2 DEF WholeGreen
<1> QED BY <1>1, <1>3 DEF Observing, PinGreen, GreenAsSettled

LEMMA ObservingNext ==
  ASSUME Observing, Typing', [ObservedNext]_ObservedVars
  PROVE  Observing' /\ greenLog \subseteq greenLog'
<1>1. CASE ObservedNext
  <2>1. /\ seenGreen' = (PinGreen' \/ (seenGreen /\ ~WindowOpens))
        /\ greenLog' = greenLog \cup
             {<<s, RunsMark(s)', now'>> : s \in {z \in Sha : WholeGreen(z)'}}
        /\ freshGreen' = (GreenAsSettled' \/ (freshGreen /\ ~TurnBegins))
    BY <1>1 DEF ObservedNext, Observe
  <2>2. \A s \in Sha : RunsMark(s)' \in SUBSET Mark
    <3>1. \A s \in Sha : runs'[s] \subseteq CheckRun
      BY DEF Typing, TypeOK, GitHubTypeOK
    <3> QED BY <3>1 DEF RunsMark, Mark, CheckRun
  <2>3. now' \in Nat
    BY DEF Typing, TypeOK
  <2>4. greenLog' \subseteq Sha \X (SUBSET Mark) \X Nat
    BY <2>1, <2>2, <2>3 DEF Observing
  <2>5. \A s \in Sha : WholeGreen(s)' => <<s, RunsMark(s)', now'>> \in greenLog'
    BY <2>1
  <2> QED BY <2>1, <2>4, <2>5 DEF Observing
<1>2. CASE UNCHANGED ObservedVars
  BY <1>2 DEF ObservedVars, observed, vars, world, watcher, Observing,
              WholeGreen, RunsMark, PinGreen, Required, GreenAsSettled
<1> QED BY <1>1, <1>2

-----------------------------------------------------------------------------
(* What the watcher's state stands for.  Log(F, t): F was the green list   *)
(* of the pinned commit at some time up to t.                              *)
Log(F, t) == \E e \in greenLog : e[1] = pin /\ e[2] = F /\ e[3] <= t

Polled == \/ pc = "head"
          \/ IsReading /\ phase # "recheck"

(* The settled fingerprint is one of a green moment, and of an earlier     *)
(* poll whenever a later one is under way.                                 *)
Carried == settleFp # {} => Vouched(settleFp) /\ Log(settleFp, now)

Earlier == settleFp # {} /\ Polled => Log(settleFp, now - Interval)

(* A confirming read, or a recheck, that cannot confirm, or has nothing    *)
(* left to find out.                                                       *)
Confirming ==
  IsReading /\ phase = "confirm" =>
    /\ first[1] \in SUBSET Mark
    /\ Doomed(first[1]) \/ (seenGreen /\ Log(first[1], now))

Rechecking ==
  /\ Verified => settleFp # {}
  /\ IsReading /\ phase = "recheck" => Doomed(settleFp) \/ (seenGreen /\ freshGreen)

(* What the script is about to act on.                                     *)
Acting ==
  /\ (pc = "decide" /\ verdict = "green") \/ pc = "reread" =>
       seenGreen /\ settleFp # {} /\ Log(settleFp, now - Interval)
  /\ pc = "merge" =>
       /\ seenGreen /\ freshGreen
       /\ Evaluate(rd) = "green" /\ Fingerprint(rd) = settleFp
  /\ result = <<0, "green">> /\ ~Merge => seenGreen

Argued == Carried /\ Earlier /\ Confirming /\ Rechecking /\ Acting

Known == Typing /\ Ledger /\ Truthful /\ ReadSoFar /\ Observing

LEMMA InitArgued == ObservedInit => Argued
  BY DEF ObservedInit, Init, Argued, Carried, Earlier, Confirming, Rechecking,
         Acting, IsReading, Verified

(* The start of a read, with a vouched fingerprint to be found again.      *)
Beginning == Known /\ pin \in Sha /\ rd = EmptyRead

Prospect ==
  \A F : Vouched(F) =>
    Doomed(F) \/ (seenGreen /\ Log(F, now) /\ (F = settleFp => freshGreen))

LEMMA Begun == Beginning => Prospect
<1> SUFFICES ASSUME Known, pin \in Sha, rd = EmptyRead, NEW F, Vouched(F), ~Doomed(F)
             PROVE  seenGreen /\ Log(F, now) /\ (F = settleFp => freshGreen)
  BY DEF Beginning, Prospect
<1>1. WholeGreen(pin) /\ RunsMark(pin) = F
  BY VouchedOrDoomed DEF Known
<1>2. <<pin, F, now>> \in greenLog /\ seenGreen /\ (F = settleFp => freshGreen)
  BY <1>1 DEF Known, Observing, PinGreen, GreenAsSettled
<1>3. now \in Nat
  BY DEF Known, Typing, TypeOK
<1> QED BY <1>2, <1>3 DEF Log

(* What survives a step, whatever the step.                                *)
LEMMA LogStays ==
  ASSUME Known, greenLog \subseteq greenLog', pin' = pin,
         NEW t \in Int, NEW u \in Int, t <= u, NEW F, Log(F, t)
  PROVE  Log(F, u)'
<1>1. PICK e \in greenLog : e[1] = pin /\ e[2] = F /\ e[3] <= t
  BY DEF Log
<1>2. e[3] \in Nat
  BY DEF Known, Observing
<1>3. e \in greenLog' /\ e[1] = pin' /\ e[2] = F /\ e[3] <= u
  BY <1>1, <1>2
<1> QED BY <1>3 DEF Log

LEMMA CarriedStays ==
  ASSUME Known, Known', pin \in Sha, Evolves(pin), UNCHANGED <<pin, settleFp>>,
         greenLog \subseteq greenLog', now <= now', Carried
  PROVE  Carried'
<1> SUFFICES ASSUME settleFp # {} PROVE (Vouched(settleFp) /\ Log(settleFp, now))'
  BY DEF Carried
<1>1. Vouched(settleFp) /\ Log(settleFp, now) /\ Typing
  BY DEF Carried, Known
<1>1a. nextId' \in Nat /\ now \in Int /\ now' \in Int
  BY DEF Known, Typing, TypeOK, GitHubTypeOK
<1>2. Vouched(settleFp)'
  BY <1>1, <1>1a, VouchedStays
<1>3. Log(settleFp, now)'
  <2>1. PICK e \in greenLog : e[1] = pin /\ e[2] = settleFp /\ e[3] <= now
    BY <1>1 DEF Log
  <2>2. e[3] \in Nat
    BY DEF Known, Observing
  <2>3. e \in greenLog' /\ e[3] <= now'
    BY <1>1a, <2>1, <2>2
  <2> QED BY <2>1, <2>3 DEF Log
<1> QED BY <1>2, <1>3

(* The steps, as the history sees them.                                    *)
SeenKept ==
  /\ seenGreen /\ ~WindowOpens => seenGreen'
  /\ freshGreen /\ ~TurnBegins => freshGreen'

Stepping ==
  /\ Known /\ Known'
  /\ \A s \in Sha : Evolves(s)
  /\ greenLog \subseteq greenLog' /\ SeenKept

LEMMA SteppingTypes ==
  ASSUME Stepping
  PROVE  /\ TypeOK /\ TypeOK' /\ Typing /\ Ledger /\ Truthful /\ ReadSoFar
         /\ now \in Int /\ now' \in Int /\ rd \in Read /\ settleFp \in SUBSET Mark
         /\ Interval \in Nat \ {0} /\ nextId' \in Nat
<1>1. TypeOK /\ TypeOK' /\ Typing /\ Ledger /\ Truthful /\ ReadSoFar
  BY DEF Stepping, Known, Typing
<1>2. now \in Int /\ now' \in Int /\ rd \in Read /\ settleFp \in SUBSET Mark
  BY <1>1 DEF TypeOK
<1>3. Interval \in Nat \ {0} /\ nextId' \in Nat
  BY <1>1, WaitCiAssumption DEF TypeOK, GitHubTypeOK, WaitCiAssumption, ValidOptions
<1> QED BY <1>1, <1>2, <1>3

(* An exit that does not say green, or has seen it.                        *)
LEMMA ExitArgued ==
  ASSUME Stepping, Argued, pc' = "done", UNCHANGED <<pin, settleFp, now>>,
         result' = <<0, "green">> /\ ~Merge => seenGreen'
  PROVE  Argued'
<1>1. Carried'
  <2>1. CASE pin \in Sha
    BY <2>1, CarriedStays, SteppingTypes DEF Stepping, Argued
  <2>2. CASE pin \notin Sha
    BY <2>2, SteppingTypes DEF ReadSoFar, Carried
  <2> QED BY <2>1, <2>2
<1> QED
  BY <1>1 DEF Argued, Earlier, Polled, Confirming, Rechecking, Acting, IsReading, Verified

LEMMA QuitArgued ==
  ASSUME Stepping, Argued, NEW code \in 1..6, NEW why, Quit(code, why)
  PROVE  Argued'
<1>1. pc' = "done" /\ UNCHANGED <<pin, settleFp, now>> /\ result' # <<0, "green">>
  BY DEF Quit, Exit, Kept
<1> QED BY <1>1, ExitArgued

(* A step that leaves the watcher alone.                                   *)
LEMMA OthersArgued ==
  ASSUME Stepping, Argued, UNCHANGED watcher PROVE Argued'
<1>0. /\ UNCHANGED <<pc, phase, rd, pin, first, verdict, settleFp, now, result>>
      /\ ~WindowOpens /\ (seenGreen => seenGreen') /\ (freshGreen => freshGreen')
      /\ pc \notin {"pin", "done"} => pin \in Sha
  BY SteppingTypes DEF watcher, WindowOpens, TurnBegins, Stepping, SeenKept, TypeOK
<1>1. CASE pin \in Sha
  <2>1. Carried'
    BY <1>0, <1>1, CarriedStays, SteppingTypes DEF Stepping, Argued
  <2>2. \A F, t : t \in Int /\ Log(F, t) => Log(F, t)'
    BY <1>0, LogStays DEF Stepping
  <2>3. \A F \in SUBSET Mark : Doomed(F) => Doomed(F)'
    BY <1>0, <1>1, DoomedStays DEF Stepping, Known
  <2>4. Earlier' /\ Acting'
    BY <1>0, <2>2, SteppingTypes
       DEF Argued, Earlier, Acting, Polled, IsReading, Log
  <2>5. Confirming'
    BY <1>0, <2>2, <2>3, SteppingTypes DEF Argued, Confirming, IsReading
  <2>6. Rechecking'
    BY <1>0, <2>3, SteppingTypes DEF Argued, Rechecking, IsReading, Verified
  <2> QED BY <2>1, <2>4, <2>5, <2>6 DEF Argued
<1>2. CASE pin \notin Sha
  <2>1. settleFp = {} /\ pc \in {"pin", "done"}
    BY <1>0, <1>2, SteppingTypes DEF ReadSoFar, TypeOK
  <2> QED
    BY <1>0, <2>1 DEF Argued, Carried, Earlier, Polled, Confirming, Rechecking,
                      Acting, IsReading, Verified
<1> QED BY <1>1, <1>2

LEMMA PinArgued ==
  ASSUME Stepping, Argued, Pin PROVE Argued'
<1>1. CASE Quit(1, "error") \/ Quit(4, "head-moved")
  BY <1>1, QuitArgued
<1>2. CASE pc' = "head" /\ UNCHANGED <<settleFp, result>>
  <2>1. settleFp' = {} /\ result' = <<>>
    BY <1>2, SteppingTypes DEF Pin, ReadSoFar, Truthful
  <2> QED
    BY <1>2, <2>1 DEF Argued, Carried, Earlier, Polled, Confirming, Rechecking,
                      Acting, IsReading, Verified
<1> QED BY <1>1, <1>2 DEF Pin

LEMMA HeadArgued ==
  ASSUME Stepping, Argued, Head PROVE Argued'
<1>0. pin \in Sha /\ result = <<>> /\ pc = "head"
  BY SteppingTypes DEF Head, TypeOK, Truthful
<1>1. CASE Quit(4, "head-moved")
  BY <1>1, QuitArgued
<1>2. CASE StartRead("first") /\ settleFp' = {} /\ result' = result
  BY <1>0, <1>2 DEF Argued, Carried, Earlier, Confirming, Rechecking, Acting,
                    IsReading, Verified, StartRead
<1>3. CASE StartRead("first") /\ UNCHANGED <<pin, settleFp, now, result>>
  <2>1. Carried'
    BY <1>0, <1>3, CarriedStays, SteppingTypes DEF Stepping, Argued
  <2>2. Earlier'
    BY <1>0, <1>3, LogStays, SteppingTypes
       DEF Argued, Earlier, Polled, Stepping, Log
  <2> QED
    BY <1>0, <1>3, <2>1, <2>2 DEF Argued, Confirming, Rechecking, Acting,
                    IsReading, Verified, StartRead
<1> QED BY <1>1, <1>2, <1>3 DEF Head, Forget

LEMMA ReadArgued ==
  ASSUME Stepping, Argued, ReadSuitesBefore \/ ReadPage \/ ReadSuitesAfter
  PROVE  Argued'
<1>0. /\ UNCHANGED <<phase, pin, first, verdict, settleFp, now, result>>
      /\ pc \in {"before", "page", "after"} /\ pc' \in {"page", "after", "judge"}
  BY DEF ReadSuitesBefore, ReadPage, ReadSuitesAfter, Reading
<1>1. /\ pin \in Sha /\ result = <<>> /\ (seenGreen => seenGreen')
      /\ freshGreen => freshGreen'
  BY <1>0, SteppingTypes
     DEF TypeOK, Truthful, Stepping, SeenKept, WindowOpens, TurnBegins
<1>2. \A F \in SUBSET Mark : Doomed(F) => Doomed(F)'
  BY DoomedRead, SteppingTypes DEF ReadSoFar
<1>3. \A F, t : t \in Int /\ Log(F, t) => Log(F, t)'
  BY <1>0, LogStays DEF Stepping
<1>4. Carried'
  BY <1>0, <1>1, CarriedStays, SteppingTypes DEF Stepping, Argued
<1>5. Earlier'
  BY <1>0, <1>3, SteppingTypes DEF Argued, Earlier, Polled, IsReading
<1>6. Confirming'
  BY <1>0, <1>1, <1>2, <1>3, SteppingTypes DEF Argued, Confirming, IsReading
<1>7. Rechecking' /\ Acting'
  BY <1>0, <1>1, <1>2, SteppingTypes DEF Argued, Rechecking, Acting, IsReading, Verified
<1> QED BY <1>4, <1>5, <1>6, <1>7 DEF Argued

(* The beginning of a read, in the state the step leads to.                *)
LEMMA BegunThen ==
  ASSUME Stepping, pin' \in Sha, rd' = EmptyRead, NEW G, Vouched(G)'
  PROVE  (Doomed(G) \/ (seenGreen /\ Log(G, now) /\ (G = settleFp => freshGreen)))'
<1>1. Beginning' => Prospect'
  BY Begun, PTL
<1> QED BY <1>1 DEF Stepping, Beginning, Prospect

LEMMA ReadFailedArgued ==
  ASSUME Stepping, Argued, ReadFailed PROVE Argued'
<1>0. /\ pc' = "decide" /\ verdict' = "pending" /\ UNCHANGED <<pin, now, result>>
      /\ settleFp' \in {{}, settleFp} /\ pc = "judge"
  BY DEF ReadFailed, Judged
<1>1. pin \in Sha /\ result = <<>>
  BY <1>0, SteppingTypes DEF TypeOK, Truthful
<1>2. Carried'
  <2>1. CASE settleFp' = {}
    BY <2>1 DEF Carried
  <2>2. CASE settleFp' = settleFp
    BY <1>0, <1>1, <2>2, CarriedStays, SteppingTypes DEF Stepping, Argued
  <2> QED BY <1>0, <2>1, <2>2
<1> QED
  BY <1>0, <1>1, <1>2 DEF Argued, Earlier, Polled, Confirming, Rechecking, Acting,
                          IsReading, Verified

LEMMA JudgeFirstArgued ==
  ASSUME Stepping, Argued, JudgeFirst PROVE Argued'
<1>0. pin \in Sha /\ UNCHANGED <<pin, now, result>> /\ result = <<>> /\ pc = "judge"
      /\ phase = "first"
  BY SteppingTypes DEF JudgeFirst, TypeOK, Truthful
<1>1. CASE Evaluate(rd) = "green"
  <2>0. /\ first' = Snapshot(rd) /\ settleFp' = settleFp
        /\ pc' = "before" /\ phase' = "confirm" /\ rd' = EmptyRead
    BY <1>1 DEF JudgeFirst, StartRead
  <2>1. PICK F : F = Fingerprint(rd)
    OBVIOUS
  <2>2. F \in SUBSET Mark /\ first'[1] = F
    BY <2>0, <2>1, SteppingTypes, FingerprintType DEF Snapshot
  <2>3. Vouched(F)
    BY <1>1, <2>1, GreenReadVouches, SteppingTypes DEF ReadSoFar
  <2>4. Vouched(F)'
    BY <1>0, <2>3, VouchedStays, SteppingTypes DEF Stepping
  <2>5. Doomed(F)' \/ (seenGreen' /\ Log(F, now)')
    BY <1>0, <2>0, <2>4, BegunThen
  <2>6. Confirming'
    BY <2>2, <2>5 DEF Confirming
  <2>7. Carried'
    BY <1>0, <2>0, CarriedStays, SteppingTypes DEF Stepping, Argued
  <2>8. \A G, t : t \in Int /\ Log(G, t) => Log(G, t)'
    BY <1>0, LogStays DEF Stepping
  <2>9. Earlier'
    BY <1>0, <2>0, <2>8, SteppingTypes DEF Argued, Earlier, Polled, IsReading
  <2>10. Rechecking' /\ Acting'
    BY <1>0, <2>0 DEF Rechecking, Acting, Verified, IsReading
  <2> QED BY <2>6, <2>7, <2>9, <2>10 DEF Argued
<1>2. CASE Evaluate(rd) # "green"
  <2>1. settleFp' = {} /\ pc' = "decide" /\ verdict' # "green"
    BY <1>2 DEF JudgeFirst
  <2> QED
    BY <1>0, <2>1 DEF Argued, Carried, Earlier, Polled, Confirming, Rechecking,
                      Acting, IsReading, Verified
<1> QED BY <1>1, <1>2

LEMMA JudgeConfirmArgued ==
  ASSUME Stepping, Argued, JudgeConfirm PROVE Argued'
<1>0. /\ pin \in Sha /\ UNCHANGED <<pin, now, result>> /\ result = <<>>
      /\ pc = "judge" /\ phase = "confirm" /\ pc' = "decide"
  BY SteppingTypes DEF JudgeConfirm, Judged, TypeOK, Truthful
<1>1. CASE ~Confirmed
  <2>1. settleFp' = {} /\ verdict' # "green"
    BY <1>1 DEF JudgeConfirm, Confirmed
  <2> QED
    BY <1>0, <2>1 DEF Argued, Carried, Earlier, Polled, Confirming, Rechecking,
                      Acting, IsReading, Verified
<1>2. CASE Confirmed
  <2>1. PICK F : F = Fingerprint(rd)
    OBVIOUS
  <2>2. /\ Evaluate(rd) = "green" /\ first[1] = F
        /\ settleFp' = F
        /\ verdict' = "green" => settleFp # {} /\ settleFp = F
    <3>1. Evaluate(rd) = "green" /\ Snapshot(rd) = first
      BY <1>2 DEF Confirmed
    <3>2. settleFp' = F /\ (verdict' = "green" => Settled)
      BY <1>2, <2>1 DEF JudgeConfirm
    <3> QED BY <2>1, <3>1, <3>2 DEF Settled, Snapshot
  <2>3. seenGreen /\ Log(F, now)
    <3>1. Doomed(F) \/ (seenGreen /\ Log(F, now))
      BY <1>0, <2>2 DEF Argued, Confirming, IsReading
    <3>2. ~Doomed(F)
      BY <2>1, <2>2, DoomedRefutes, SteppingTypes
    <3> QED BY <3>1, <3>2
  <2>4. Vouched(F)' /\ F # {}
    <3>1. Vouched(F) /\ F # {}
      BY <2>1, <2>2, GreenReadVouches, SteppingTypes DEF ReadSoFar
    <3> QED BY <1>0, <3>1, VouchedStays, SteppingTypes DEF Stepping
  <2>5. \A G, t : t \in Int /\ Log(G, t) => Log(G, t)'
    BY <1>0, LogStays DEF Stepping
  <2>6. Carried'
    BY <1>0, <2>2, <2>3, <2>4, <2>5, SteppingTypes DEF Carried
  <2>7. seenGreen'
    BY <1>0, <2>3 DEF Stepping, SeenKept, WindowOpens
  <2>8. verdict' = "green" => Log(F, now - Interval)'
    <3>1. verdict' = "green" => Log(F, now - Interval)
      BY <1>0, <2>2 DEF Argued, Earlier, Polled, IsReading
    <3> QED BY <1>0, <2>5, <3>1, SteppingTypes
  <2>9. Acting'
    BY <1>0, <2>2, <2>4, <2>7, <2>8 DEF Acting
  <2> QED
    BY <1>0, <2>6, <2>9 DEF Argued, Earlier, Polled, Confirming, Rechecking,
                            IsReading, Verified
<1> QED BY <1>1, <1>2

LEMMA DecideArgued ==
  ASSUME Stepping, Argued, Decide PROVE Argued'
<1>0. /\ pin \in Sha /\ result = <<>> /\ pc = "decide" /\ pin' = pin /\ settleFp' = settleFp
  BY SteppingTypes DEF Decide, TypeOK, Truthful, Quit, Kept
<1>1. CASE \/ Quit(1, "red") \/ Quit(6, "other-red") \/ Quit(2, "timeout")
           \/ Quit(3, "hung")
  BY <1>1, QuitArgued
<1>2. CASE verdict = "green" /\ pc' = "reread" /\ UNCHANGED <<Kept, verdict, result>>
  <2>1. UNCHANGED <<pin, settleFp, now, result>>
    BY <1>2 DEF Kept
  <2>2. Carried'
    BY <1>0, <2>1, CarriedStays, SteppingTypes DEF Stepping, Argued
  <2>3. \A G, t : t \in Int /\ Log(G, t) => Log(G, t)'
    BY <1>0, LogStays DEF Stepping
  <2>4. seenGreen /\ settleFp # {} /\ Log(settleFp, now - Interval)
    BY <1>0, <1>2 DEF Argued, Acting
  <2>5. seenGreen'
    BY <1>2, <2>4 DEF Stepping, SeenKept, WindowOpens
  <2>6. Acting'
    BY <1>0, <1>2, <2>1, <2>3, <2>4, <2>5, SteppingTypes DEF Acting
  <2> QED
    BY <1>2, <2>2, <2>6 DEF Argued, Earlier, Polled, Confirming, Rechecking,
                            IsReading, Verified
<1>3. CASE /\ pc' = "head" /\ result' = result
           /\ \E f \in 0..FailsCap : now' = now + Interval * BackOff(f)
  <2>1. PICK f \in 0..FailsCap : now' = now + Interval * BackOff(f)
    BY <1>3
  <2>2. BackOff(f) \in 1..8
    BY BackOffType
  <2>3. Interval * BackOff(f) >= Interval
    BY <2>2, SteppingTypes
  <2>4. now <= now' - Interval /\ now <= now'
    BY <2>1, <2>2, <2>3, SteppingTypes
  <2>5. Carried'
    BY <1>0, <2>4, CarriedStays, SteppingTypes DEF Stepping, Argued
  <2>6. Earlier'
    <3>1. PICK F : F = settleFp
      OBVIOUS
    <3>2. PICK t \in Int : t = now
      BY SteppingTypes
    <3>3. PICK u \in Int : u = now' - Interval
      BY SteppingTypes
    <3>4. F # {} => Log(F, t)
      BY <3>1, <3>2 DEF Argued, Carried
    <3>5. F # {} => Log(F, u)'
      BY <1>0, <2>4, <3>2, <3>3, <3>4, LogStays DEF Stepping
    <3> QED BY <1>0, <3>1, <3>3, <3>5 DEF Earlier, Log
  <2> QED
    BY <1>0, <1>3, <2>5, <2>6 DEF Argued, Confirming, Rechecking, Acting,
                            IsReading, Verified
<1>4. (IF ~pollFailed THEN 0 ELSE IF fails < FailsCap THEN fails + 1 ELSE fails)
        \in 0..FailsCap
  BY SteppingTypes DEF TypeOK, FailsCap
<1> QED
  BY <1>1, <1>2, <1>3, <1>4 DEF Decide

LEMMA RereadArgued ==
  ASSUME Stepping, Argued, Reread PROVE Argued'
<1>0. /\ pin \in Sha /\ result = <<>> /\ pc = "reread" /\ UNCHANGED <<pin, settleFp, now>>
  BY SteppingTypes DEF Reread, TypeOK, Truthful, Quit, Kept
<1>1. CASE Quit(1, "error") \/ Quit(4, "head-moved")
  BY <1>1, QuitArgued
<1>2. seenGreen /\ settleFp # {}
  BY <1>0 DEF Argued, Acting
<1>3. CASE pc' = "done"
  <2>1. seenGreen'
    BY <1>2, <1>3 DEF Stepping, SeenKept, WindowOpens
  <2> QED BY <1>0, <1>3, <2>1, ExitArgued
<1>4. CASE pc' = "protect" /\ UNCHANGED result
  <2>1. Carried'
    BY <1>0, CarriedStays, SteppingTypes DEF Stepping, Argued
  <2> QED
    BY <1>0, <1>2, <1>4, <2>1 DEF Argued, Earlier, Polled, Confirming, Rechecking,
                                  Acting, IsReading
<1> QED BY <1>1, <1>3, <1>4 DEF Reread, Exit

(* A recheck begins.                                                       *)
LEMMA RecheckArgued ==
  ASSUME Stepping, Argued, Verified, pin \in Sha, StartRead("recheck"),
         UNCHANGED <<pin, settleFp, result>>, result = <<>>, now <= now'
  PROVE  Argued'
<1>1. settleFp # {}
  BY DEF Argued, Rechecking
<1>2. Carried'
  BY CarriedStays, SteppingTypes DEF Stepping, Argued
<1>3. Doomed(settleFp)' \/ (seenGreen' /\ freshGreen')
  <2>1. PICK F : F = settleFp
    OBVIOUS
  <2>2. Vouched(F)'
    BY <1>1, <2>1, VouchedStays, SteppingTypes DEF Stepping, Argued, Carried
  <2>3. Doomed(F)' \/ (seenGreen' /\ freshGreen')
    BY <2>1, <2>2, BegunThen DEF StartRead
  <2> QED BY <2>1, <2>3
<1> QED
  BY <1>1, <1>2, <1>3 DEF Argued, Earlier, Polled, Confirming, Rechecking, Acting,
                          IsReading, StartRead

LEMMA CheckProtectionArgued ==
  ASSUME Stepping, Argued, CheckProtection PROVE Argued'
<1>0. Verified /\ pin \in Sha /\ result = <<>>
  BY SteppingTypes DEF CheckProtection, Attempt, Verified, TypeOK, Truthful
<1>1. CASE Quit(1, "error")
  BY <1>1, QuitArgued
<1>2. CASE StartRead("recheck") /\ UNCHANGED <<pin, settleFp, result, now>>
  BY <1>0, <1>2, RecheckArgued, SteppingTypes
<1> QED BY <1>1, <1>2 DEF CheckProtection, Attempt

LEMMA MergeRecheckArgued ==
  ASSUME Stepping, Argued, MergeRecheck PROVE Argued'
<1>0. /\ Verified /\ pin \in Sha /\ result = <<>> /\ UNCHANGED <<pin, settleFp, now, rd>>
      /\ pc = "judge" /\ phase = "recheck"
  BY SteppingTypes DEF MergeRecheck, Verified, TypeOK, Truthful, Quit, Kept
<1>1. CASE Quit(1, "error") \/ Quit(6, "other-red")
  BY <1>1, QuitArgued
<1>2. CASE pc' = "done" /\ result' # <<0, "green">>
  BY <1>0, <1>2, ExitArgued
<1>3. CASE RunsAsSettled /\ pc' = "merge" /\ UNCHANGED result
  <2>1. Evaluate(rd) = "green" /\ Fingerprint(rd) = settleFp /\ settleFp # {}
    BY <1>0, <1>3 DEF RunsAsSettled, Argued, Rechecking
  <2>2. seenGreen /\ freshGreen
    <3>1. ~Doomed(settleFp)
      BY <2>1, DoomedRefutes, SteppingTypes
    <3> QED BY <1>0, <3>1 DEF Argued, Rechecking, IsReading
  <2>3. seenGreen' /\ freshGreen'
    BY <1>3, <2>2 DEF Stepping, SeenKept, WindowOpens, TurnBegins
  <2>4. Carried'
    BY <1>0, CarriedStays, SteppingTypes DEF Stepping, Argued
  <2>5. Evaluate(rd') = "green" /\ Fingerprint(rd') = settleFp'
    BY <1>0, <2>1
  <2>6. Acting'
    BY <1>0, <1>3, <2>3, <2>5 DEF Acting
  <2> QED
    BY <1>0, <1>3, <2>1, <2>4, <2>6 DEF Argued, Earlier, Polled, Confirming, Rechecking,
                                  IsReading
<1>4. \/ Quit(1, "error") \/ Quit(6, "other-red")
      \/ pc' = "done" /\ result' # <<0, "green">>
      \/ RunsAsSettled /\ pc' = "merge" /\ UNCHANGED result
  BY DEF MergeRecheck, Exit
<1> QED BY <1>1, <1>2, <1>3, <1>4

LEMMA MergeCallArgued ==
  ASSUME Stepping, Argued, MergeCall PROVE Argued'
<1>0. /\ pin \in Sha /\ result = <<>> /\ UNCHANGED <<pin, settleFp, now, result>>
      /\ Verified /\ pc' \in {"accepted", "refused"}
  BY SteppingTypes DEF MergeCall, Verified, TypeOK, Truthful
<1>1. Carried'
  BY <1>0, CarriedStays, SteppingTypes DEF Stepping, Argued
<1> QED
  BY <1>0, <1>1 DEF Argued, Earlier, Polled, Confirming, Rechecking, Acting, IsReading

LEMMA AfterMergeArgued ==
  ASSUME Stepping, Argued, AfterAccepted \/ AfterRefused PROVE Argued'
<1>0. Verified /\ pin \in Sha /\ result = <<>> /\ Merge
  BY SteppingTypes DEF AfterAccepted, AfterRefused, Attempt, Verified, TypeOK, Truthful
<1>1. CASE \/ Quit(1, "error") \/ Quit(4, "head-moved") \/ Quit(5, "queued")
           \/ Quit(1, "merge-blocked")
  BY <1>1, QuitArgued
<1>2. CASE AttributeMerge
  <2>1. pc' = "done" /\ UNCHANGED <<pin, settleFp, now>>
    BY <1>2 DEF AttributeMerge, Exit, Kept
  <2> QED BY <1>0, <2>1, ExitArgued
<1>3. CASE /\ StartRead("recheck") /\ UNCHANGED <<pin, settleFp, result>>
           /\ now' = now + MergeRetryDelay
  <2>1. now <= now'
    BY <1>3, WaitCiAssumption, SteppingTypes DEF WaitCiAssumption, ValidOptions
  <2> QED BY <1>0, <1>3, <2>1, RecheckArgued
<1> QED BY <1>1, <1>2, <1>3 DEF AfterAccepted, AfterRefused, Attempt

-----------------------------------------------------------------------------
(* The invariant.                                                          *)
LEMMA ObservedIsNext == [ObservedNext]_ObservedVars => [Next]_vars
  BY DEF ObservedNext, ObservedVars

LEMMA SeenStays == [ObservedNext]_ObservedVars => SeenKept
<1>1. UNCHANGED ObservedVars => UNCHANGED <<seenGreen, freshGreen>>
  BY DEF ObservedVars, observed
<1> QED BY <1>1 DEF ObservedNext, Observe, SeenKept

LEMMA ArguedNext ==
  ASSUME Stepping, Argued, [Next]_vars PROVE Argued'
<1>1. CASE Others \/ UNCHANGED vars
  BY <1>1, OthersArgued DEF Others, vars
<1>2. CASE Watch
  BY <1>2, PinArgued, HeadArgued, ReadArgued, ReadFailedArgued, JudgeFirstArgued,
     JudgeConfirmArgued, DecideArgued, RereadArgued, CheckProtectionArgued,
     MergeRecheckArgued, MergeCallArgued, AfterMergeArgued DEF Watch
<1> QED BY <1>1, <1>2 DEF Next

LEMMA ObservedImplies == ObservedSpec => Spec
<1>1. ObservedInit => Init
  BY DEF ObservedInit
<1> QED
  BY <1>1, ObservedIsNext, PTL DEF ObservedSpec, Spec

LEMMA KnownInvariant == ObservedSpec => [](Known /\ Argued)
<1> DEFINE Inv == Ledger /\ ReadSoFar /\ Observing /\ Argued
<1>1. ObservedInit => Inv
  <2>1. ObservedInit => Init
    BY DEF ObservedInit
  <2> QED BY <2>1, InitLedger, InitReadSoFar, InitObserving, InitArgued
<1>2. Inv /\ Typing /\ Typing' /\ Truthful /\ Truthful' /\ [ObservedNext]_ObservedVars => Inv'
  <2> SUFFICES ASSUME Inv, Typing, Typing', Truthful, Truthful', [ObservedNext]_ObservedVars
               PROVE  Inv'
    OBVIOUS
  <2>1. [Next]_vars /\ SeenKept
    BY ObservedIsNext, SeenStays
  <2>2. Ledger' /\ \A s \in Sha : Evolves(s)
    BY <2>1, RunsEvolve
  <2>3. ReadSoFar'
    BY <2>1, ReadSoFarNext
  <2>4. Observing' /\ greenLog \subseteq greenLog'
    BY ObservingNext
  <2>5. Stepping
    BY <2>1, <2>2, <2>3, <2>4 DEF Stepping, Known
  <2>6. Argued'
    BY <2>1, <2>5, ArguedNext
  <2> QED BY <2>2, <2>3, <2>4, <2>6
<1>3. Inv /\ Typing /\ Truthful => Known /\ Argued
  BY DEF Known
<1> HIDE DEF Inv
<1> QED
  BY <1>1, <1>2, <1>3, ObservedImplies, TypingInvariant, TruthfulInvariant, PTL
     DEF ObservedSpec

(* Green is never a collage: whatever changes between the pages of a read, *)
(* between its two counts and between the reads, the moment the script     *)
(* acts on a green list there has been an instant since the poll (or the   *)
(* recheck) began at which the whole commit was green.                     *)
THEOREM GreenWasReal == ObservedSpec => []GreenIsReal
<1>1. Argued => GreenIsReal
  BY DEF Argued, Acting, GreenIsReal
<1> QED BY <1>1, KnownInvariant, PTL

(* The settle rule: what a green verdict rests on was the whole green list *)
(* of the pinned commit a full interval earlier, too.                      *)
THEOREM SettledBefore == ObservedSpec => []SettledAcrossPolls
<1>1. Argued => SettledAcrossPolls
  BY DEF Argued, Acting, SettledAcrossPolls, Log
<1> QED BY <1>1, KnownInvariant, PTL

(* No call to merge rests on an old look, for any number of retries: since *)
(* the verdict, or since the call before, there was an instant at which    *)
(* the runs of the verified commit were the settled ones, and all green.   *)
THEOREM MergeAfterAFreshLook == ObservedSpec => []MergeNeedsAFreshLook
<1>1. Known /\ Argued => MergeNeedsAFreshLook
  <2>1. Known /\ pc = "merge" => verified = pin
    BY DEF Verified, Known, Truthful
  <2> QED BY <2>1 DEF MergeNeedsAFreshLook, Argued, Acting
<1> QED BY <1>1, KnownInvariant, PTL

-----------------------------------------------------------------------------
(* The watcher implements the commit gate.  The commits in the log are the *)
(* vetted ones; one step of GitHub vets one commit at most.                *)
VettedSet == {e[1] : e \in greenLog}

LEMMA VettedGrowth ==
  ASSUME Known, Known', ObservedNext, NEW C \in SUBSET Sha,
         \A z \in Sha \ C : runs'[z] = runs[z]
  PROVE  VettedSet \subseteq VettedSet' /\ VettedSet' \subseteq VettedSet \cup C
<1>1. greenLog' = greenLog \cup
        {<<s, RunsMark(s)', now'>> : s \in {z \in Sha : WholeGreen(z)'}}
  BY DEF ObservedNext, Observe
<1>2. \A z \in Sha \ C : WholeGreen(z)' => WholeGreen(z)
  BY DEF WholeGreen, Required
<1>3. \A z \in Sha : WholeGreen(z) => z \in VettedSet
  <2>1. ASSUME NEW z \in Sha, WholeGreen(z) PROVE z \in VettedSet
    <3>1. <<z, RunsMark(z), now>> \in greenLog
      BY <2>1 DEF Known, Observing
    <3> QED BY <3>1 DEF VettedSet
  <2> QED BY <2>1
<1>4. ASSUME NEW e \in greenLog' PROVE e[1] \in VettedSet \cup C
  <2>1. CASE e \in greenLog
    BY <2>1 DEF VettedSet
  <2>2. CASE e \notin greenLog
    <3>1. PICK z \in Sha : WholeGreen(z)' /\ e = <<z, RunsMark(z)', now'>>
      BY <1>1, <2>2
    <3>2. e[1] = z
      BY <3>1
    <3> QED BY <1>2, <1>3, <3>1, <3>2
  <2> QED BY <2>1, <2>2
<1>5. VettedSet' \subseteq VettedSet \cup C
  BY <1>4 DEF VettedSet
<1>6. VettedSet \subseteq VettedSet'
  BY <1>1 DEF VettedSet
<1> QED BY <1>5, <1>6

(* A merge by the watcher's own call.                                      *)
Ours == /\ byWatcher \in BOOLEAN
        /\ byWatcher => /\ pc \in {"accepted", "refused", "done"}
                        /\ merged # NoSha /\ head = verified

LEMMA OursNext ==
  ASSUME Known, Ours, [ObservedNext]_ObservedVars PROVE Ours'
<1>0. /\ merged # NoSha => merged = head
      /\ NoSha \notin Sha /\ head \in Sha
  BY GitHubAssumption
     DEF Known, Truthful, Typing, TypeOK, GitHubTypeOK, GitHubAssumption
<1>1. CASE UNCHANGED ObservedVars
  BY <1>1 DEF ObservedVars, observed, vars, world, watcher, Ours
<1>2. CASE ObservedNext
  <2>0. byWatcher' <=> (byWatcher \/ (MergeCall /\ merged' # merged))
    BY <1>2 DEF ObservedNext, Observe
  <2>a. byWatcher' \in BOOLEAN
    BY <1>2, Zenon DEF ObservedNext, Observe
  <2>1. CASE MergeCall
    BY <1>0, <2>0, <2>a, <2>1 DEF MergeCall, MatchesHead, Ours
  <2>2. CASE AfterAccepted \/ AfterRefused
    <3>1. byWatcher' => byWatcher
      BY <2>0, <2>2 DEF AfterAccepted, AfterRefused, Attempt, MergeCall
    <3>2. UNCHANGED <<merged, head, verified>>
      BY <2>2 DEF AfterAccepted, AfterRefused, Attempt, AttributeMerge, Fault, world, Quit, Kept
    <3>3. byWatcher => pc' = "done"
      BY <2>2 DEF AfterAccepted, AfterRefused, Attempt, AttributeMerge, Exit, Quit, Ours
    <3> QED BY <2>a, <3>1, <3>2, <3>3 DEF Ours
  <2>3. CASE pc \notin {"accepted", "refused", "done"} /\ ~MergeCall
    BY <2>0, <2>a, <2>3 DEF Ours
  <2>4. CASE Others
    <3>1. ~MergeCall \/ ~(merged' # merged)
      BY <2>4 DEF Others, watcher, MergeCall
    <3>2. byWatcher => UNCHANGED <<merged, head, pc, verified>>
      BY <1>0, <2>4 DEF Others, Environment, NewRun, Finish, Rerun, Push,
                        MergeElsewhere, watcher, Ours
    <3> QED BY <2>0, <2>a, <3>1, <3>2 DEF Ours
  <2>5. Watch => pc # "done" /\ (pc \in {"accepted", "refused"} => AfterAccepted \/ AfterRefused)
    BY DEF Watch, Pin, Head, ReadSuitesBefore, ReadPage, ReadSuitesAfter,
           ReadFailed, JudgeFirst, JudgeConfirm, Decide, Reread, CheckProtection, Attempt,
           MergeRecheck, MergeCall, AfterAccepted, AfterRefused
  <2> QED
    BY <1>2, <2>1, <2>2, <2>3, <2>4, <2>5 DEF ObservedNext, Next
<1> QED BY <1>1, <1>2

(* A step of the gate that reports, and one in which nothing is seen.      *)
LEMMA Reporting ==
  ASSUME result = <<>>, UNCHANGED <<head, merged, byWatcher>>, VettedSet' = VettedSet,
         NEW code \in 0..6,
         NEW why \in {"green", "red", "other-red", "timeout", "hung",
                      "head-moved", "queued", "merge-blocked", "error"},
         result' = <<code, why>>,
         code = 0 <=> why = "green",
         verified' \in Sha \cup {NoSha}, claim' \in BOOLEAN,
         code = 0 => /\ verified' \in VettedSet /\ WantSha \in {NoSha, verified'}
                     /\ claim' = Merge,
         claim' => code = 0 /\ merged = verified',
         why = "queued" => /\ verified' \in VettedSet /\ WantSha \in {NoSha, verified'}
                           /\ Merge /\ head = verified' /\ merged = NoSha,
         byWatcher => why \in {"green", "error"}
  PROVE  Gate!Next
<1>1. /\ (IF result = <<>> THEN <<>> ELSE <<result[1], result[2], verified, claim>>) = <<>>
      /\ (IF result' = <<>> THEN <<>> ELSE <<result'[1], result'[2], verified', claim'>>)
           = <<code, why, verified', claim'>>
  OBVIOUS
<1>2. Gate!Report
  BY <1>1 DEF Gate!Report, Gate!Acceptable, VettedSet
<1> QED BY <1>2 DEF Gate!Next

LEMMA Nothing ==
  ASSUME UNCHANGED <<head, merged, byWatcher>>, VettedSet' = VettedSet,
         \/ result = <<>> /\ result' = <<>>
         \/ UNCHANGED <<result, verified, claim>>
  PROVE  UNCHANGED Gate!vars
  BY DEF Gate!vars, VettedSet

LEMMA QuitReports ==
  ASSUME Known, pc # "done", UNCHANGED <<head, merged, byWatcher>>, VettedSet' = VettedSet,
         NEW code \in 1..6,
         NEW why \in {"red", "other-red", "timeout", "hung", "head-moved",
                      "merge-blocked", "error"},
         Quit(code, why), byWatcher => why = "error"
  PROVE  Gate!Next
<1>1. /\ result = <<>> /\ claim = FALSE
      /\ verified \in Sha \cup {NoSha}
  BY DEF Known, Truthful, Typing, TypeOK
<1>2. result' = <<code, why>> /\ verified' = verified /\ claim' = claim
  BY DEF Quit, Exit
<1>3. code # 0 /\ why # "green" /\ why # "queued" /\ code \in 0..6
  OBVIOUS
<1> QED BY <1>1, <1>2, <1>3, Reporting

LEMMA GreenReports ==
  ASSUME result = <<>>, UNCHANGED <<head, merged, byWatcher>>, VettedSet' = VettedSet,
         result' = <<0, "green">>, VettedSet \subseteq Sha,
         verified' \in VettedSet, WantSha \in {NoSha, verified'},
         claim' = Merge, Merge => merged = verified'
  PROVE  Gate!Next
<1>1. PICK code \in 0..6,
           why \in {"green", "red", "other-red", "timeout", "hung",
                    "head-moved", "queued", "merge-blocked", "error"} :
        code = 0 /\ why = "green"
  OBVIOUS
<1>2. verified' \in Sha \cup {NoSha} /\ claim' \in BOOLEAN
  BY WaitCiAssumption DEF WaitCiAssumption, ValidOptions
<1>3. result' = <<code, why>> /\ (code = 0 <=> why = "green") /\ why # "queued"
  BY <1>1
<1>4. claim' => code = 0 /\ merged = verified'
  BY <1>1
<1> QED BY <1>1, <1>2, <1>3, <1>4, Reporting

LEMMA OthersImplement ==
  ASSUME Known, Known', ObservedNext, Others, byWatcher \in BOOLEAN
  PROVE  Gate!Next \/ UNCHANGED Gate!vars
<1>0. /\ UNCHANGED <<result, verified, claim, byWatcher>>
      /\ VettedSet \subseteq VettedSet'
      /\ runs \in [Sha -> SUBSET CheckRun] /\ head' \in Sha /\ head \in Sha
  <2>1. ~MergeCall
    BY DEF Others, watcher, MergeCall
  <2>2. byWatcher' = (byWatcher \/ (MergeCall /\ merged' # merged))
    BY DEF ObservedNext, Observe
  <2>3. byWatcher' = byWatcher
    BY <2>1, <2>2
  <2>4. VettedSet \subseteq VettedSet'
    BY VettedGrowth
  <2> QED BY <2>3, <2>4 DEF Others, watcher, Known, Typing, TypeOK, GitHubTypeOK
<1>1. ASSUME NEW s \in Sha, \A z \in Sha \ {s} : runs'[z] = runs[z],
             UNCHANGED <<head, merged>>
      PROVE  Gate!Next \/ UNCHANGED Gate!vars
  <2>1. VettedSet' \subseteq VettedSet \cup {s}
    BY <1>1, VettedGrowth
  <2>2. CASE VettedSet' = VettedSet
    BY <1>0, <1>1, <2>2, Nothing
  <2>3. CASE VettedSet' # VettedSet
    <3>1. s \in Sha \ VettedSet /\ VettedSet' = VettedSet \cup {s}
      BY <1>0, <2>1, <2>3
    <3>2. Gate!Vet
      BY <1>0, <1>1, <3>1 DEF Gate!Vet, VettedSet
    <3> QED BY <3>2 DEF Gate!Next
  <2> QED BY <2>2, <2>3
<1>2. CASE NewRun
  <2>1. PICK s \in {head, WantSha} \ {NoSha} :
          /\ \E S : runs' = [runs EXCEPT ![s] = S]
          /\ UNCHANGED <<head, merged>>
    BY <1>2 DEF NewRun
  <2>2. s \in Sha
    BY <1>0, GitHubAssumption DEF GitHubAssumption
  <2> QED BY <1>0, <1>1, <2>1, <2>2
<1>3. CASE Finish \/ Rerun
  <2>1. PICK s \in Sha :
          /\ \E S : runs' = [runs EXCEPT ![s] = S]
          /\ UNCHANGED <<head, merged>>
    BY <1>3 DEF Finish, Rerun
  <2> QED BY <1>0, <1>1, <2>1
<1>4. CASE Push \/ MergeElsewhere
  <2>1. UNCHANGED runs
    BY <1>4 DEF Push, MergeElsewhere
  <2>2. VettedSet' = VettedSet
    <3>1. VettedSet' \subseteq VettedSet \cup {}
      BY <2>1, VettedGrowth
    <3> QED BY <1>0, <3>1
  <2>3. CASE Push
    <3>1. Gate!Push
      BY <1>0, <2>2, <2>3 DEF Push, Gate!Push, VettedSet
    <3> QED BY <3>1 DEF Gate!Next
  <2>4. CASE MergeElsewhere
    <3>1. Gate!MergeElsewhere
      BY <1>0, <2>2, <2>4 DEF MergeElsewhere, Gate!MergeElsewhere, VettedSet
    <3> QED BY <3>1 DEF Gate!Next
  <2> QED BY <1>4, <2>3, <2>4
<1> QED BY <1>2, <1>3, <1>4 DEF Others, Environment

LEMMA WatchImplements ==
  ASSUME Known, Known', Argued, Ours, ObservedNext, Watch
  PROVE  Gate!Next \/ UNCHANGED Gate!vars
<1>0. /\ UNCHANGED <<head, runs>> /\ pc # "done"
      /\ MergeCall \/ merged' = merged
  BY DEF Watch, Pin, Head, ReadSuitesBefore, ReadPage, ReadSuitesAfter,
         ReadFailed, JudgeFirst, JudgeConfirm, Decide, Reread, CheckProtection, Attempt,
         MergeRecheck, MergeCall, AfterAccepted, AfterRefused, Fault, world
<1>1. /\ result = <<>> /\ claim = FALSE /\ byWatcher \in BOOLEAN /\ head \in Sha
      /\ verified \in Sha \cup {NoSha} /\ NoSha \notin Sha
      /\ merged # NoSha => merged = head
  BY <1>0, GitHubAssumption
     DEF Known, Truthful, Typing, TypeOK, GitHubTypeOK, Ours, GitHubAssumption
<1>2. VettedSet' = VettedSet
  <2>1. VettedSet \subseteq VettedSet' /\ VettedSet' \subseteq VettedSet \cup {}
    BY <1>0, VettedGrowth
  <2> QED BY <2>1
<1>3. ~MergeCall => byWatcher' = byWatcher
  <2>1. byWatcher' = (byWatcher \/ (MergeCall /\ merged' # merged))
    BY DEF ObservedNext, Observe
  <2> QED BY <1>1, <2>1
<1>3a. ~MergeCall => UNCHANGED <<head, merged, byWatcher>>
  BY <1>0, <1>3
<1>3b. VettedSet \subseteq Sha
  BY DEF VettedSet, Known, Observing
<1>4. settleFp # {} => pin \in VettedSet
  <2>1. settleFp # {} => \E e \in greenLog : e[1] = pin
    BY DEF Argued, Carried, Log
  <2> QED BY <2>1 DEF VettedSet
<1>5. Verified => /\ verified = pin /\ Merge /\ WantSha \in {NoSha, verified}
                  /\ verified \in VettedSet
  BY <1>4 DEF Known, Truthful, Argued, Rechecking
<1>6. pc \notin {"accepted", "refused"} => ~byWatcher
  BY <1>0 DEF Ours
<1>7. ASSUME ~MergeCall, NEW code \in 1..6,
             NEW why \in {"red", "other-red", "timeout", "hung", "head-moved",
                          "merge-blocked", "error"},
             Quit(code, why), byWatcher => why = "error"
      PROVE  Gate!Next
  BY <1>0, <1>2, <1>3, <1>7, QuitReports
<1>8. ASSUME ~MergeCall, result' = result
      PROVE  UNCHANGED Gate!vars
  BY <1>0, <1>1, <1>2, <1>3, <1>8, Nothing
<1>9. CASE Pin
  <2>1. ~MergeCall /\ ~byWatcher
    BY <1>6, <1>9 DEF Pin, MergeCall
  <2> QED BY <1>7, <1>8, <1>9, <2>1 DEF Pin
<1>10. CASE Head
  <2>1. ~MergeCall /\ ~byWatcher
    BY <1>6, <1>10 DEF Head, MergeCall
  <2> QED BY <1>7, <1>8, <1>10, <2>1 DEF Head
<1>11. CASE \/ ReadSuitesBefore \/ ReadPage \/ ReadSuitesAfter \/ ReadFailed
            \/ JudgeFirst \/ JudgeConfirm
  <2>1. ~MergeCall /\ result' = result
    BY <1>11 DEF ReadSuitesBefore, ReadPage, ReadSuitesAfter, ReadFailed,
                 JudgeFirst, JudgeConfirm, Reading, Judged, MergeCall
  <2> QED BY <1>8, <2>1
<1>12. CASE Decide
  <2>1. ~MergeCall /\ ~byWatcher
    BY <1>6, <1>12 DEF Decide, MergeCall
  <2> QED BY <1>7, <1>8, <1>12, <2>1 DEF Decide
<1>13. CASE Reread
  <2>1. ~MergeCall /\ ~byWatcher /\ pc = "reread"
    BY <1>6, <1>13 DEF Reread, MergeCall
  <2>2. CASE Quit(1, "error") \/ Quit(4, "head-moved")
    BY <1>7, <2>1, <2>2
  <2>3. CASE MayVerify /\ verified' = pin /\ ~Merge /\ Exit(0, "green") /\ claim' = claim
    <3>1. pin \in VettedSet
      BY <1>4, <2>1 DEF Argued, Acting
    <3>2. result' = <<0, "green">> /\ verified' \in VettedSet /\ WantSha \in {NoSha, verified'}
      BY <2>3, <3>1 DEF Exit, MayVerify
    <3>3. claim' = Merge /\ ~Merge
      BY <1>1, <2>3, WaitCiAssumption DEF WaitCiAssumption, ValidOptions
    <3> QED BY <1>1, <1>2, <1>3a, <1>3b, <2>1, <3>2, <3>3, GreenReports
  <2>4. CASE result' = result
    BY <1>8, <2>1, <2>4
  <2> QED BY <1>13, <2>2, <2>3, <2>4 DEF Reread
<1>14. CASE CheckProtection
  <2>1. ~MergeCall /\ ~byWatcher
    BY <1>6, <1>14 DEF CheckProtection, Attempt, MergeCall
  <2> QED BY <1>7, <1>8, <1>14, <2>1 DEF CheckProtection, Attempt
<1>15. CASE MergeRecheck
  <2>1. ~MergeCall /\ ~byWatcher
    BY <1>6, <1>15 DEF MergeRecheck, MergeCall
  <2>2. CASE Quit(1, "error") \/ Quit(6, "other-red")
    BY <1>7, <2>1, <2>2
  <2>3. CASE /\ result' \in {<<1, "red">>, <<6, "other-red">>}
             /\ UNCHANGED <<verified, claim>>
    <3>1. \/ result' = <<1, "red">>
          \/ result' = <<6, "other-red">>
      BY <2>3
    <3>2. \E code \in 1..6, why \in {"red", "other-red"} : result' = <<code, why>>
      BY <3>1
    <3>3. PICK code \in 1..6, why \in {"red", "other-red"} : result' = <<code, why>>
      BY <3>2
    <3>4. verified' \in Sha \cup {NoSha} /\ claim' \in BOOLEAN /\ ~claim'
      BY <1>1, <2>3
    <3>5. code \in 0..6 /\ code # 0 /\ why # "green" /\ why # "queued"
      OBVIOUS
    <3> QED BY <1>1, <1>2, <1>3a, <2>1, <3>3, <3>4, <3>5, Reporting
  <2>4. CASE result' = result
    BY <1>8, <2>1, <2>4
  <2> QED BY <1>15, <2>2, <2>3, <2>4 DEF MergeRecheck, Exit
<1>16. CASE MergeCall
  <2>0. /\ Verified /\ ~byWatcher /\ UNCHANGED <<result, verified, claim>>
    BY <1>6, <1>16 DEF MergeCall, Verified
  <2>a. byWatcher' = (byWatcher \/ (MergeCall /\ merged' # merged))
    BY DEF ObservedNext, Observe
  <2>1. CASE merged' = merged
    <3>1. byWatcher' = byWatcher
      BY <1>1, <2>1, <2>a
    <3> QED BY <1>0, <1>2, <2>0, <2>1, <3>1, Nothing
  <2>2. CASE merged' # merged
    <3>1. merged = NoSha /\ head = verified /\ merged' = head
      BY <1>16, <2>2 DEF MergeCall, MatchesHead
    <3>2. byWatcher' = TRUE
      BY <1>16, <2>2, <2>a
    <3>3. Gate!GateMerge
      BY <1>0, <1>1, <1>2, <1>5, <2>0, <3>1, <3>2
         DEF Gate!GateMerge, Gate!Acceptable, VettedSet
    <3> QED BY <3>3 DEF Gate!Next
  <2> QED BY <2>1, <2>2
<1>17. CASE AfterAccepted \/ AfterRefused
  <2>0. /\ ~MergeCall /\ Verified /\ merged' = merged
        /\ byWatcher => merged # NoSha /\ head = verified
    BY <1>0, <1>17 DEF AfterAccepted, AfterRefused, Attempt, MergeCall, Verified, Ours
  <2>1. CASE Quit(1, "error")
    BY <1>7, <2>0, <2>1
  <2>2. CASE Quit(4, "head-moved") /\ head # verified
    BY <1>7, <2>0, <2>2
  <2>3. CASE Quit(1, "merge-blocked") /\ merged = NoSha
    BY <1>7, <2>0, <2>3
  <2>4. CASE Quit(5, "queued") /\ merged = NoSha /\ head = verified
    <3>1. result' = <<5, "queued">> /\ UNCHANGED <<verified, claim>>
      BY <2>4 DEF Quit, Exit
    <3>2. /\ ~byWatcher /\ byWatcher' = byWatcher /\ verified' \in VettedSet
          /\ WantSha \in {NoSha, verified'} /\ Merge /\ head = verified'
          /\ claim' = FALSE /\ verified' \in Sha \cup {NoSha}
      BY <1>1, <1>3, <1>5, <2>0, <2>4, <3>1
    <3>3. PICK code \in 0..6, why \in {"queued"} : result' = <<code, why>> /\ code # 0
      BY <3>1
    <3>4. claim' \in BOOLEAN /\ ~claim' /\ why # "green"
      BY <3>2
    <3> QED BY <1>1, <1>2, <1>3a, <2>0, <2>4, <3>2, <3>3, <3>4, Reporting
  <2>5. CASE AttributeMerge /\ IsOurs
    <3>1. result' = <<0, "green">> /\ claim' = TRUE /\ verified' = verified
      BY <2>5 DEF AttributeMerge, Exit
    <3>2. Merge = TRUE /\ merged = verified
      BY <1>1, <1>5, <2>0, <2>5, WaitCiAssumption
         DEF AttributeMerge, IsOurs, WaitCiAssumption, ValidOptions
    <3> QED BY <1>1, <1>2, <1>3a, <1>3b, <1>5, <2>0, <3>1, <3>2, GreenReports
  <2>6. CASE AttributeMerge /\ ~IsOurs
    <3>1. result' = <<4, "head-moved">> /\ claim' = claim /\ verified' = verified
      BY <2>6 DEF AttributeMerge, Exit
    <3>2. ~byWatcher
      BY <2>0, <2>6 DEF IsOurs
    <3>3. PICK code \in 1..6, why \in {"head-moved"} : result' = <<code, why>>
      BY <3>1
    <3>4. verified' \in Sha \cup {NoSha} /\ claim' \in BOOLEAN /\ ~claim'
      BY <1>1, <3>1
    <3>5. code \in 0..6 /\ code # 0 /\ why # "green" /\ why # "queued"
      OBVIOUS
    <3> QED BY <1>1, <1>2, <1>3a, <2>0, <3>2, <3>3, <3>4, <3>5, Reporting
  <2>7. CASE result' = result
    BY <1>8, <2>0, <2>7
  <2> QED
    BY <1>17, <2>1, <2>2, <2>3, <2>4, <2>5, <2>6, <2>7
       DEF AfterAccepted, AfterRefused, Attempt, AttributeMerge
<1> QED
  BY <1>9, <1>10, <1>11, <1>12, <1>13, <1>14, <1>15, <1>16, <1>17 DEF Watch

(* Every behaviour of the watcher among the others, polls, faults and      *)
(* retries included, is one of the gate: it speaks once, a good word is    *)
(* said only of a vetted commit, and a merge it starts or claims is one.   *)
THEOREM Implementation == ObservedSpec => ImplementsCommitGate
<1>1. ObservedInit => Gate!Init /\ Ours
  <2> SUFFICES ASSUME ObservedInit PROVE Gate!Init /\ Ours
    OBVIOUS
  <2>1. /\ head \in Sha /\ merged = NoSha /\ byWatcher = FALSE /\ greenLog = {}
        /\ result = <<>>
    BY DEF ObservedInit, Init, GitHubInit
  <2> QED BY <2>1 DEF Gate!Init, Ours
<1>2. Known /\ Ours /\ [ObservedNext]_ObservedVars => Ours'
  BY OursNext
<1>3. Known /\ Known' /\ Argued /\ Ours /\ [ObservedNext]_ObservedVars => [Gate!Next]_Gate!vars
  <2> SUFFICES ASSUME Known, Known', Argued, Ours, [ObservedNext]_ObservedVars
               PROVE  Gate!Next \/ UNCHANGED Gate!vars
    OBVIOUS
  <2>1. CASE UNCHANGED ObservedVars
    BY <2>1 DEF ObservedVars, observed, vars, world, watcher, Gate!vars
  <2>2. CASE ObservedNext
    <3>1. Watch \/ Others
      BY <2>2 DEF ObservedNext, Next
    <3> QED BY <2>2, <3>1, WatchImplements, OthersImplement DEF Ours
  <2> QED BY <2>1, <2>2
<1> QED
  BY <1>1, <1>2, <1>3, KnownInvariant, PTL DEF ObservedSpec, ImplementsCommitGate, Gate!Spec

=============================================================================
