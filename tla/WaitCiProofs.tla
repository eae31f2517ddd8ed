---------------------------- MODULE WaitCiProofs ----------------------------
(***************************************************************************)
(* What holds of the watcher for every set of commits, every list of       *)
(* checks, every page size and every value of the options: its state is    *)
(* well typed, the total wait and the number of calls are bounded, an      *)
(* explicit --sha is never replaced, and a green exit tells the truth.     *)
(***************************************************************************)
EXTENDS WaitCi, FiniteSetTheorems, TLAPS

Assumptions == OptionsAssumption /\ GitHubAssumption /\ WaitCiAssumption

(* GitHub only ever holds finitely many runs of a commit, so what a page   *)
(* adds to the number of runs seen is a number.                            *)
FiniteRuns == \A s \in Sha : IsFiniteSet(runs[s])

LEMMA FingerprintType ==
  ASSUME NEW r \in Read PROVE Fingerprint(r) \in SUBSET Mark
  BY DEF Fingerprint, Mark, Read, CheckRun

LEMMA SnapshotType ==
  ASSUME NEW r \in Read PROVE Snapshot(r) \in (SUBSET Mark) \X Int \X Int
  BY FingerprintType DEF Snapshot, Read

LEMMA EvaluateType ==
  ASSUME NEW r PROVE Evaluate(r) \in Verdict
  BY DEF Evaluate, Verdict

LEMMA BackOffType ==
  ASSUME NEW f \in 0..FailsCap PROVE BackOff(f) \in 1..8
  BY DEF BackOff, FailsCap

LEMMA EmptyReadType == EmptyRead \in Read
  BY DEF EmptyRead, Read, Unreadable

(* A page is a finite set of the commit's runs.                            *)
LEMMA PageType ==
  ASSUME GitHubTypeOK, FiniteRuns, NEW s \in Sha, NEW p \in Nat
  PROVE  /\ Page(s, p) \in SUBSET CheckRun
         /\ Cardinality(Page(s, p)) \in Nat
         /\ Cardinality(Visible(s)) \in Nat
<1>1. runs[s] \in SUBSET CheckRun /\ IsFiniteSet(runs[s])
  BY DEF GitHubTypeOK, FiniteRuns
<1>2. Visible(s) \subseteq runs[s] /\ Page(s, p) \subseteq runs[s]
  BY DEF Visible, Page
<1>3. IsFiniteSet(Visible(s)) /\ IsFiniteSet(Page(s, p))
  BY <1>1, <1>2, FS_Subset
<1> QED
  BY <1>1, <1>2, <1>3, FS_CardinalityType

-----------------------------------------------------------------------------
(* GitHub alone.                                                           *)
LEMMA EnvironmentTyping ==
  ASSUME GitHubTypeOK, FiniteRuns, Environment
  PROVE  GitHubTypeOK' /\ FiniteRuns'
<1> USE GitHubAssumption DEF GitHubAssumption
<1>1. CASE NewRun
  <2>1. PICK s \in {head, WantSha} \ {NoSha}, k \in Reported, n \in 0..1 :
          /\ runs' = [runs EXCEPT ![s] = @ \cup
               {[id |-> nextId, name |-> k.name, app |-> k.app,
                 suite |-> suites[s] + n, sound |-> k.sound,
                 completed |-> FALSE, conclusion |-> "none"]}]
          /\ suites' = [suites EXCEPT ![s] = suites[s] + n]
          /\ nextId' = nextId + 1
          /\ UNCHANGED <<head, merged, pushes, faults>>
    BY <1>1 DEF NewRun
  <2>2. s \in Sha /\ suites[s] + n \in Nat
    BY DEF GitHubTypeOK
  <2> DEFINE r == [id |-> nextId, name |-> k.name, app |-> k.app,
                   suite |-> suites[s] + n, sound |-> k.sound,
                   completed |-> FALSE, conclusion |-> "none"]
  <2>3. r \in CheckRun
    BY <2>2 DEF GitHubTypeOK, CheckRun, Conclusion
  <2>4. runs' = [runs EXCEPT ![s] = @ \cup {r}]
    BY <2>1
  <2> HIDE DEF r
  <2>5. runs' \in [Sha -> SUBSET CheckRun]
    BY <2>2, <2>3, <2>4 DEF GitHubTypeOK
  <2>6. GitHubTypeOK'
    BY <2>1, <2>2, <2>5 DEF GitHubTypeOK
  <2>7. IsFiniteSet(runs[s] \cup {r})
    BY <2>2, FS_AddElement DEF FiniteRuns
  <2>8. FiniteRuns'
    BY <2>2, <2>4, <2>7 DEF FiniteRuns, GitHubTypeOK
  <2> QED BY <2>6, <2>8
<1>2. CASE Finish
  <2>1. PICK s \in Sha : \E r \in runs[s], c \in Endings :
          /\ runs' = [runs EXCEPT ![s] = (@ \ {r}) \cup
               {[r EXCEPT !.completed = TRUE, !.conclusion = c]}]
          /\ UNCHANGED <<head, merged, suites, nextId, pushes, faults>>
    BY <1>2 DEF Finish
  <2>1a. PICK r \in runs[s], c \in Endings :
          /\ runs' = [runs EXCEPT ![s] = (@ \ {r}) \cup
               {[r EXCEPT !.completed = TRUE, !.conclusion = c]}]
          /\ UNCHANGED <<head, merged, suites, nextId, pushes, faults>>
    BY <2>1
  <2> DEFINE q == [r EXCEPT !.completed = TRUE, !.conclusion = c]
  <2>1b. r \in CheckRun
    BY DEF GitHubTypeOK
  <2>2. q \in CheckRun
    BY <2>1b DEF CheckRun
  <2>3. runs' = [runs EXCEPT ![s] = (@ \ {r}) \cup {q}]
    BY <2>1a
  <2> HIDE DEF q
  <2>3a. runs' \in [Sha -> SUBSET CheckRun]
    BY <2>2, <2>3 DEF GitHubTypeOK
  <2>4. GitHubTypeOK'
    BY <2>1a, <2>3a DEF GitHubTypeOK
  <2>5. IsFiniteSet((runs[s] \ {r}) \cup {q})
    BY FS_RemoveElement, FS_AddElement DEF FiniteRuns
  <2>6. FiniteRuns'
    BY <2>3, <2>5 DEF FiniteRuns, GitHubTypeOK
  <2> QED BY <2>4, <2>6
<1>3. CASE Rerun
  <2>1. PICK s \in Sha : \E r \in runs[s] :
          /\ runs' = [runs EXCEPT ![s] = (@ \ {r}) \cup
               {[r EXCEPT !.id = nextId, !.completed = FALSE, !.conclusion = "none"]}]
          /\ nextId' = nextId + 1
          /\ UNCHANGED <<head, merged, suites, pushes, faults>>
    BY <1>3 DEF Rerun
  <2>1a. PICK r \in runs[s] :
          /\ runs' = [runs EXCEPT ![s] = (@ \ {r}) \cup
               {[r EXCEPT !.id = nextId, !.completed = FALSE, !.conclusion = "none"]}]
          /\ nextId' = nextId + 1
          /\ UNCHANGED <<head, merged, suites, pushes, faults>>
    BY <2>1
  <2> DEFINE q == [r EXCEPT !.id = nextId, !.completed = FALSE, !.conclusion = "none"]
  <2>1b. r \in CheckRun
    BY DEF GitHubTypeOK
  <2>2. q \in CheckRun
    BY <2>1b DEF CheckRun, Conclusion, GitHubTypeOK
  <2>3. runs' = [runs EXCEPT ![s] = (@ \ {r}) \cup {q}]
    BY <2>1a
  <2> HIDE DEF q
  <2>3a. runs' \in [Sha -> SUBSET CheckRun]
    BY <2>2, <2>3 DEF GitHubTypeOK
  <2>4. GitHubTypeOK'
    BY <2>1a, <2>3a DEF GitHubTypeOK
  <2>5. IsFiniteSet((runs[s] \ {r}) \cup {q})
    BY FS_RemoveElement, FS_AddElement DEF FiniteRuns
  <2>6. FiniteRuns'
    BY <2>3, <2>5 DEF FiniteRuns, GitHubTypeOK
  <2> QED BY <2>4, <2>6
<1>4. CASE Push
  BY <1>4 DEF Push, GitHubTypeOK, FiniteRuns
<1>5. CASE MergeElsewhere
  BY <1>5 DEF MergeElsewhere, GitHubTypeOK, FiniteRuns
<1> QED
  BY <1>1, <1>2, <1>3, <1>4, <1>5 DEF Environment

LEMMA FaultTyping ==
  ASSUME GitHubTypeOK, FiniteRuns, Fault
  PROVE  GitHubTypeOK' /\ FiniteRuns' /\ UNCHANGED <<head, merged, runs, suites>>
  BY DEF Fault, GitHubTypeOK, FiniteRuns

-----------------------------------------------------------------------------
(* The watcher: one step per action.                                       *)
Typing == TypeOK /\ FiniteRuns

LEMMA InitTyping == Init => Typing
<1> SUFFICES ASSUME Init PROVE Typing
  OBVIOUS
<1> USE GitHubAssumption, WaitCiAssumption
    DEF GitHubAssumption, WaitCiAssumption, ValidOptions, Init, GitHubInit
<1>1. GitHubTypeOK
  BY DEF GitHubTypeOK, CheckRun
<1>2. FiniteRuns
  BY FS_EmptySet DEF FiniteRuns
<1>3. page \in 1..MaxRunPages
  OBVIOUS
<1>4. rd \in Read
  BY EmptyReadType
<1>5. /\ result \in Outcome /\ verdict \in Verdict /\ rc \in 0..2
      /\ fails \in 0..FailsCap
  BY DEF Outcome, Verdict, FailsCap
<1>6. /\ pollFailed \in BOOLEAN /\ policy \in BOOLEAN /\ claim \in BOOLEAN
      /\ settleFp \in SUBSET Mark /\ pc = "pin" /\ phase = "first"
  OBVIOUS
<1>7. /\ now \in Nat /\ lastChange \in Nat /\ attempt \in Nat
      /\ pin \in Sha \cup {NoSha} /\ verified \in Sha \cup {NoSha}
      /\ first = <<>> /\ settled = <<>>
  OBVIOUS
<1> QED
  BY <1>1, <1>2, <1>3, <1>4, <1>5, <1>6, <1>7 DEF Typing, TypeOK

(* Every way of exiting keeps the types: only pc and result change.        *)
LEMMA QuitTyping ==
  ASSUME TypeOK, GitHubTypeOK', NEW code \in 0..6, 
         NEW why \in {"green", "red", "other-red", "timeout", "hung",
                      "head-moved", "queued", "merge-blocked", "error"},
         Quit(code, why)
  PROVE  TypeOK'
<1>1. /\ pc' = "done" /\ result' = <<code, why>>
      /\ UNCHANGED <<phase, page, rd, rc, pin, first, settleFp, settled,
           lastSig, now, lastChange, pollFailed, fails, attempt, policy>>
      /\ UNCHANGED <<verdict, verified, claim>>
  BY DEF Quit, Exit, Kept
<1>2. result' \in Outcome
  BY <1>1 DEF Outcome
<1> QED
  BY <1>1, <1>2 DEF TypeOK

LEMMA PinTyping == Typing /\ Pin => Typing'
<1> SUFFICES ASSUME Typing, Pin PROVE Typing'
  OBVIOUS
<1> USE DEF Typing
<1>0. TypeOK /\ GitHubTypeOK /\ FiniteRuns
  BY DEF TypeOK
<1>1. CASE WithPr /\ Fault /\ Quit(1, "error")
  BY <1>0, <1>1, FaultTyping, QuitTyping
<1>2. CASE Quit(4, "head-moved") /\ UNCHANGED world
  <2>1. GitHubTypeOK' /\ FiniteRuns'
    BY <1>0, <1>2 DEF world, GitHubTypeOK, FiniteRuns
  <2> QED BY <1>0, <1>2, <2>1, QuitTyping
<1>3. CASE /\ pc' = "head"
           /\ pin' = IF WithPr THEN head ELSE WantSha
           /\ UNCHANGED <<world, phase, page, rd, rc, first, verdict, settleFp,
                settled, lastSig, now, lastChange, pollFailed, fails, attempt,
                policy, verified, claim, result>>
  <2>1. GitHubTypeOK' /\ FiniteRuns'
    BY <1>0, <1>3 DEF world, GitHubTypeOK, FiniteRuns
  <2>2. pin' \in Sha
    BY <1>0, <1>3, GitHubAssumption, WaitCiAssumption
       DEF GitHubTypeOK, GitHubAssumption, WaitCiAssumption, ValidOptions
  <2> QED
    BY <1>0, <1>3, <2>1, <2>2 DEF TypeOK
<1> QED
  BY <1>1, <1>2, <1>3 DEF Pin

LEMMA StillTyping ==
  ASSUME GitHubTypeOK, FiniteRuns, UNCHANGED world
  PROVE  GitHubTypeOK' /\ FiniteRuns'
  BY DEF world, GitHubTypeOK, FiniteRuns

LEMMA HeadTyping == Typing /\ Head => Typing'
<1> SUFFICES ASSUME Typing, Head PROVE Typing'
  OBVIOUS
<1>0. TypeOK /\ GitHubTypeOK /\ FiniteRuns /\ MaxRunPages \in Nat \ {0}
  BY WaitCiAssumption DEF Typing, TypeOK, WaitCiAssumption, ValidOptions
<1>1. CASE Quit(4, "head-moved") /\ UNCHANGED world
  BY <1>0, <1>1, StillTyping, QuitTyping DEF Typing
<1>2. CASE /\ pin' = head /\ pollFailed' = FALSE
           /\ Forget
           /\ StartRead("first")
           /\ UNCHANGED <<world, rc, first, verdict, settled, now, fails,
                attempt, policy, verified, claim, result>>
  <2>1. GitHubTypeOK' /\ FiniteRuns' /\ pin' \in Sha
    BY <1>0, <1>2, StillTyping DEF GitHubTypeOK
  <2>2. /\ pc' = "before" /\ phase' = "first" /\ page' = 1 /\ rd' \in Read
        /\ lastChange' = now /\ settleFp' = {} /\ pollFailed' \in BOOLEAN
    BY <1>2, EmptyReadType DEF Forget, StartRead
  <2>3. UNCHANGED <<rc, first, verdict, settled, now, fails, attempt, policy,
                    verified, claim, result>>
    BY <1>2
  <2> QED
    BY <1>0, <2>1, <2>2, <2>3 DEF Typing, TypeOK
<1>3. CASE /\ \/ pollFailed' = FALSE /\ UNCHANGED world
              \/ Fault /\ pollFailed' = TRUE
           /\ StartRead("first")
           /\ UNCHANGED <<rc, pin, first, verdict, settleFp, settled, lastSig,
                now, lastChange, fails, attempt, policy, verified, claim, result>>
           /\ pc = "head"
  <2>1. GitHubTypeOK' /\ FiniteRuns' /\ pollFailed' \in BOOLEAN
    BY <1>0, <1>3, StillTyping, FaultTyping
  <2> QED
    BY <1>0, <1>3, <2>1, EmptyReadType DEF Typing, TypeOK, StartRead
<1> QED
  BY <1>1, <1>2, <1>3 DEF Head

(* The three actions of a read leave the rest of the watcher alone.        *)
LEMMA ReadingTyping ==
  ASSUME Typing, GitHubTypeOK', FiniteRuns', UNCHANGED Reading,
         pc \in {"before", "page", "after"}, pc' \in {"page", "after", "judge"},
         page' \in 1..MaxRunPages, rd' \in Read, rc' \in 0..2
  PROVE  Typing'
  BY DEF Typing, TypeOK, Reading

LEMMA ReadTyping ==
  Typing /\ (ReadSuitesBefore \/ ReadPage \/ ReadSuitesAfter) => Typing'
<1> SUFFICES ASSUME Typing, ReadSuitesBefore \/ ReadPage \/ ReadSuitesAfter
             PROVE  Typing'
  OBVIOUS
<1>0. /\ TypeOK /\ GitHubTypeOK /\ FiniteRuns
      /\ MaxRunPages \in Nat \ {0} /\ page \in 1..MaxRunPages
      /\ rd \in Read /\ rc \in 0..2
  BY WaitCiAssumption DEF Typing, TypeOK, WaitCiAssumption, ValidOptions
<1>1. CASE ReadSuitesBefore
  <2>1. pin \in Sha /\ suites[pin] \in Int
    BY <1>0, <1>1 DEF ReadSuitesBefore, TypeOK, GitHubTypeOK
  <2>2. GitHubTypeOK' /\ FiniteRuns'
    BY <1>0, <1>1, StillTyping, FaultTyping DEF ReadSuitesBefore
  <2>3. rd' \in Read
    BY <1>0, <1>1, <2>1 DEF ReadSuitesBefore, Read
  <2> QED
    BY <1>0, <1>1, <2>2, <2>3, ReadingTyping DEF ReadSuitesBefore
<1>2. CASE ReadSuitesAfter
  <2>1. pin \in Sha /\ suites[pin] \in Int
    BY <1>0, <1>2 DEF ReadSuitesAfter, TypeOK, GitHubTypeOK
  <2>2. GitHubTypeOK' /\ FiniteRuns'
    BY <1>0, <1>2, StillTyping, FaultTyping DEF ReadSuitesAfter
  <2>3. rd' \in Read
    BY <1>0, <1>2, <2>1 DEF ReadSuitesAfter, Read
  <2> QED
    BY <1>0, <1>2, <2>2, <2>3, ReadingTyping DEF ReadSuitesAfter
<1>3. CASE ReadPage
  <2>1. pin \in Sha
    BY <1>0, <1>3 DEF ReadPage, TypeOK
  <2>2. GitHubTypeOK' /\ FiniteRuns'
    BY <1>0, <1>3, StillTyping, FaultTyping DEF ReadPage
  <2>3. /\ Page(pin, page) \in SUBSET CheckRun
        /\ Cardinality(Page(pin, page)) \in Nat
        /\ Cardinality(Visible(pin)) \in Nat
    BY <1>0, <2>1, PageType
  <2> DEFINE more == [rd EXCEPT !.counts = @ \cup {Cardinality(Visible(pin))},
                                !.seen = rd.seen + Cardinality(Page(pin, page)),
                                !.runs = @ \cup Page(pin, page)]
  <2>3a. more \in Read
    <3>1. /\ rd.counts \cup {Cardinality(Visible(pin))} \in SUBSET Int
          /\ rd.seen + Cardinality(Page(pin, page)) \in Nat
          /\ rd.runs \cup Page(pin, page) \in SUBSET CheckRun
      BY <1>0, <2>3 DEF Read
    <3> QED
      BY <1>0, <3>1 DEF Read
  <2>3b. rd' = more \/ rd' = rd
    BY <1>3 DEF ReadPage
  <2>4. rd' \in Read
    BY <1>0, <2>3a, <2>3b
  <2>5. /\ page' \in 1..MaxRunPages /\ rc' \in 0..2
        /\ pc' \in {"page", "after", "judge"} /\ pc = "page"
        /\ UNCHANGED Reading
    BY <1>0, <1>3 DEF ReadPage, MayTurn
  <2> QED
    BY <2>2, <2>4, <2>5, ReadingTyping
<1> QED
  BY <1>1, <1>2, <1>3

LEMMA JudgeTyping ==
  Typing /\ (ReadFailed \/ JudgeFirst \/ JudgeConfirm) => Typing'
<1> SUFFICES ASSUME Typing, ReadFailed \/ JudgeFirst \/ JudgeConfirm
             PROVE  Typing'
  OBVIOUS
<1>0. /\ TypeOK /\ GitHubTypeOK /\ FiniteRuns /\ MaxRunPages \in Nat \ {0}
      /\ rd \in Read /\ pin \in Sha /\ now \in Nat /\ lastChange \in Nat
  BY WaitCiAssumption
     DEF Typing, TypeOK, WaitCiAssumption, ValidOptions, ReadFailed, JudgeFirst, JudgeConfirm
<1>1. GitHubTypeOK' /\ FiniteRuns'
  BY <1>0, StillTyping DEF ReadFailed, JudgeFirst, JudgeConfirm
<1>2. /\ Fingerprint(rd) \in SUBSET Mark
      /\ Snapshot(rd) \in (SUBSET Mark) \X Int \X Int
      /\ Evaluate(rd) \in Verdict /\ "pending" \in Verdict /\ "green" \in Verdict
      /\ <<rd.before, rd.after>> \in Int \X Int
  BY <1>0, FingerprintType, SnapshotType, EvaluateType DEF Verdict, Read
<1>3. CASE ReadFailed
  <2>1. /\ settleFp' \in SUBSET Mark /\ verdict' \in Verdict
        /\ pc' = "decide" /\ pollFailed' \in BOOLEAN
    BY <1>0, <1>2, <1>3 DEF ReadFailed, TypeOK
  <2>2. UNCHANGED <<phase, first, settled, lastSig, lastChange, page, rd, rc,
           pin, now, fails, attempt, policy, verified, claim, result>>
    BY <1>3 DEF ReadFailed, Judged
  <2> QED
    BY <1>0, <1>1, <2>1, <2>2 DEF Typing, TypeOK
<1>4. CASE JudgeFirst
  <2>1. /\ lastChange' \in Nat /\ pollFailed' \in BOOLEAN
        /\ pin' = pin /\ settled' = settled /\ now' = now /\ fails' = fails
        /\ UNCHANGED <<attempt, policy, verified, claim, result>>
    BY <1>0, <1>4 DEF JudgeFirst, NoteChange, SuiteCallFailed, TypeOK
  <2>2. CASE Evaluate(rd) = "green"
    <3>1. /\ first' = Snapshot(rd) /\ UNCHANGED <<verdict, settleFp, rc>>
          /\ pc' = "before" /\ phase' = "confirm" /\ rd' = EmptyRead /\ page' = 1
      BY <1>4, <2>2 DEF JudgeFirst, StartRead
    <3> QED
      BY <1>0, <1>1, <1>2, <2>1, <3>1, EmptyReadType DEF Typing, TypeOK
  <2>3. CASE Evaluate(rd) # "green"
    <3>1. /\ verdict' = Evaluate(rd) /\ settleFp' = {} /\ pc' = "decide"
          /\ UNCHANGED <<phase, page, rd, rc, first>>
      BY <1>4, <2>3 DEF JudgeFirst
    <3> QED
      BY <1>0, <1>1, <1>2, <2>1, <3>1 DEF Typing, TypeOK
  <2> QED BY <2>2, <2>3
<1>5. CASE JudgeConfirm
  <2>1. /\ settleFp' \in SUBSET Mark /\ verdict' \in Verdict
        /\ settled' = <<>> \/ settled' \in Int \X Int
        /\ pc' = "decide" /\ pollFailed' \in BOOLEAN
    BY <1>0, <1>2, <1>5 DEF JudgeConfirm, SuiteCallFailed, TypeOK
  <2>2. UNCHANGED <<phase, first, lastSig, lastChange, page, rd, rc, pin, now,
           fails, attempt, policy, verified, claim, result>>
    BY <1>5 DEF JudgeConfirm, Judged
  <2> QED
    BY <1>0, <1>1, <2>1, <2>2 DEF Typing, TypeOK
<1> QED
  BY <1>3, <1>4, <1>5

LEMMA DecideTyping == Typing /\ Decide => Typing'
<1> SUFFICES ASSUME Typing, Decide PROVE Typing'
  OBVIOUS
<1>0. /\ TypeOK /\ GitHubTypeOK /\ FiniteRuns /\ fails \in 0..FailsCap
      /\ now \in Nat /\ Interval \in Nat /\ pin \in Sha
  BY WaitCiAssumption DEF Typing, TypeOK, WaitCiAssumption, ValidOptions, Decide
<1>1. GitHubTypeOK' /\ FiniteRuns'
  BY <1>0, StillTyping DEF Decide
<1>2. CASE \/ Quit(1, "red") \/ Quit(6, "other-red")
           \/ Quit(2, "timeout") \/ Quit(3, "hung")
  BY <1>0, <1>1, <1>2, QuitTyping DEF Typing
<1>3. CASE pc' = "reread" /\ UNCHANGED <<Kept, verdict, verified, claim, result>>
  BY <1>0, <1>1, <1>3 DEF Typing, TypeOK, Kept
<1>4. ASSUME NEW f \in 0..FailsCap,
             fails' = f, now' = now + Interval * BackOff(f), pc' = "head",
             UNCHANGED <<phase, page, rd, rc, pin, first, verdict, settleFp,
               settled, lastSig, lastChange, pollFailed, attempt, policy,
               verified, claim, result>>
      PROVE  Typing'
  <2>1. now' \in Nat
    BY <1>0, <1>4, BackOffType
  <2> QED
    BY <1>0, <1>1, <1>4, <2>1 DEF Typing, TypeOK
<1>5. (IF ~pollFailed THEN 0 ELSE IF fails < FailsCap THEN fails + 1 ELSE fails)
        \in 0..FailsCap
  BY <1>0 DEF FailsCap
<1> QED
  BY <1>2, <1>3, <1>4, <1>5 DEF Decide

LEMMA RereadTyping == Typing /\ Reread => Typing'
<1> SUFFICES ASSUME Typing, Reread PROVE Typing'
  OBVIOUS
<1>0. TypeOK /\ GitHubTypeOK /\ FiniteRuns /\ pin \in Sha
  BY DEF Typing, TypeOK, Reread
<1>1. GitHubTypeOK' /\ FiniteRuns'
  BY <1>0, StillTyping, FaultTyping DEF Reread
<1>2. CASE Quit(1, "error") \/ Quit(4, "head-moved")
  BY <1>0, <1>1, <1>2, QuitTyping DEF Typing
<1>3. CASE /\ verified' = pin
           /\ \/ ~Merge /\ Exit(0, "green")
              \/ Merge /\ pc' = "protect" /\ UNCHANGED result
           /\ UNCHANGED <<world, Kept, verdict, claim>>
  <2>1. result' \in Outcome /\ pc' \in {"done", "protect"}
    BY <1>0, <1>3 DEF Exit, Outcome, TypeOK
  <2>2. UNCHANGED <<phase, page, rd, rc, pin, first, settleFp, settled, lastSig,
           now, lastChange, pollFailed, fails, attempt, policy, verdict, claim>>
    BY <1>3 DEF Kept
  <2> QED
    BY <1>0, <1>1, <1>3, <2>1, <2>2 DEF Typing, TypeOK
<1> QED
  BY <1>2, <1>3 DEF Reread

LEMMA CheckProtectionTyping == Typing /\ CheckProtection => Typing'
<1> SUFFICES ASSUME Typing, CheckProtection PROVE Typing'
  OBVIOUS
<1>0. /\ TypeOK /\ GitHubTypeOK /\ FiniteRuns /\ pin \in Sha
      /\ attempt \in Nat /\ MaxRunPages \in Nat \ {0}
  BY WaitCiAssumption DEF Typing, TypeOK, CheckProtection, Attempt, WaitCiAssumption, ValidOptions
<1>1. GitHubTypeOK' /\ FiniteRuns'
  BY <1>0, StillTyping DEF CheckProtection, Attempt
<1>2. CASE Quit(1, "error")
  BY <1>0, <1>1, <1>2, QuitTyping DEF Typing
<1>3. CASE /\ StartRead("recheck")
           /\ attempt' = attempt + 1
           /\ UNCHANGED <<rc, pin, first, verdict, settleFp, settled, lastSig,
                now, lastChange, pollFailed, fails, policy, verified, claim,
                result>>
  BY <1>0, <1>1, <1>3, EmptyReadType DEF Typing, TypeOK, StartRead
<1> QED
  BY <1>2, <1>3 DEF CheckProtection, Attempt

LEMMA MergeRecheckTyping == Typing /\ MergeRecheck => Typing'
<1> SUFFICES ASSUME Typing, MergeRecheck PROVE Typing'
  OBVIOUS
<1>0. TypeOK /\ GitHubTypeOK /\ FiniteRuns /\ pin \in Sha
  BY DEF Typing, TypeOK, MergeRecheck
<1>1. GitHubTypeOK' /\ FiniteRuns'
  BY <1>0, StillTyping DEF MergeRecheck
<1>2. CASE Quit(1, "error") \/ Quit(6, "other-red")
  BY <1>0, <1>1, <1>2, QuitTyping DEF Typing
<1>3. CASE /\ verdict' = Evaluate(rd)
           /\ \/ Exit(1, "red") \/ Exit(6, "other-red")
              \/ pc' = "merge" /\ UNCHANGED result
           /\ UNCHANGED <<Kept, verified, claim>>
  <2>1. /\ result' \in Outcome /\ pc' \in {"done", "merge"}
        /\ verdict' \in Verdict
    BY <1>0, <1>3, EvaluateType DEF Exit, Outcome, TypeOK
  <2>2. UNCHANGED <<phase, page, rd, rc, pin, first, settleFp, settled, lastSig,
           now, lastChange, pollFailed, fails, attempt, policy, verified, claim>>
    BY <1>3 DEF Kept
  <2> QED
    BY <1>0, <1>1, <2>1, <2>2 DEF Typing, TypeOK
<1> QED
  BY <1>2, <1>3 DEF MergeRecheck

LEMMA MergeCallTyping == Typing /\ MergeCall => Typing'
<1> SUFFICES ASSUME Typing, MergeCall PROVE Typing'
  OBVIOUS
<1>0. TypeOK /\ GitHubTypeOK /\ FiniteRuns /\ pin \in Sha
  BY DEF Typing, TypeOK, MergeCall
<1>1. GitHubTypeOK' /\ FiniteRuns'
  BY <1>0 DEF MergeCall, GitHubTypeOK, FiniteRuns
<1>2. /\ policy' \in BOOLEAN /\ pc' \in {"accepted", "refused"}
      /\ UNCHANGED <<phase, page, rd, rc, pin, first, verdict, settleFp, settled,
           lastSig, now, lastChange, pollFailed, fails, attempt, verified, claim,
           result>>
  BY DEF MergeCall
<1> QED
  BY <1>0, <1>1, <1>2 DEF Typing, TypeOK

LEMMA AttributeTyping ==
  ASSUME Typing, GitHubTypeOK', FiniteRuns', AttributeMerge PROVE Typing'
<1>0. \/ claim' = TRUE /\ pc' = "done" /\ result' = <<0, "green">>
      \/ claim' = claim /\ pc' = "done" /\ result' = <<4, "head-moved">>
  BY DEF AttributeMerge, Exit
<1>1. pc' = "done" /\ claim' \in BOOLEAN
  BY <1>0 DEF Typing, TypeOK
<1>1a. result' \in Outcome
  BY <1>0 DEF Outcome
<1>2. UNCHANGED <<phase, page, rd, rc, pin, first, settleFp, settled, lastSig,
         now, lastChange, pollFailed, fails, attempt, policy, verdict, verified>>
  BY DEF AttributeMerge, Kept
<1> QED
  BY <1>1, <1>1a, <1>2 DEF Typing, TypeOK

LEMMA AfterMergeTyping ==
  Typing /\ (AfterAccepted \/ AfterRefused) => Typing'
<1> SUFFICES ASSUME Typing, AfterAccepted \/ AfterRefused PROVE Typing'
  OBVIOUS
<1>0. /\ TypeOK /\ GitHubTypeOK /\ FiniteRuns /\ pin \in Sha /\ now \in Nat
      /\ attempt \in Nat /\ MaxRunPages \in Nat \ {0} /\ MergeRetryDelay \in Nat
  BY WaitCiAssumption
     DEF Typing, TypeOK, AfterAccepted, AfterRefused, Attempt, WaitCiAssumption, ValidOptions
<1>1. GitHubTypeOK' /\ FiniteRuns'
  BY <1>0, StillTyping, FaultTyping DEF AfterAccepted, AfterRefused, Attempt
<1>2. CASE \/ Quit(1, "error") \/ Quit(4, "head-moved") \/ Quit(5, "queued")
           \/ Quit(1, "merge-blocked")
  BY <1>0, <1>1, <1>2, QuitTyping DEF Typing
<1>3. CASE AttributeMerge
  BY <1>1, <1>3, AttributeTyping
<1>4. CASE /\ now' = now + MergeRetryDelay
           /\ attempt' = attempt + 1
           /\ StartRead("recheck")
           /\ UNCHANGED <<rc, pin, first, verdict, settleFp, settled, lastSig,
                lastChange, pollFailed, fails, policy, verified, claim, result>>
  BY <1>0, <1>1, <1>4, EmptyReadType DEF Typing, TypeOK, StartRead
<1> QED
  BY <1>2, <1>3, <1>4 DEF AfterAccepted, AfterRefused, Attempt

LEMMA NextTyping == Typing /\ [Next]_vars => Typing'
<1> SUFFICES ASSUME Typing, [Next]_vars PROVE Typing'
  OBVIOUS
<1>0. TypeOK /\ GitHubTypeOK /\ FiniteRuns
  BY DEF Typing, TypeOK
<1>1. CASE Watch
  BY <1>1, PinTyping, HeadTyping, ReadTyping, JudgeTyping, DecideTyping,
     RereadTyping, CheckProtectionTyping, MergeRecheckTyping, MergeCallTyping,
     AfterMergeTyping DEF Watch
<1>2. CASE Others
  <2>1. GitHubTypeOK' /\ FiniteRuns'
    BY <1>0, <1>2, EnvironmentTyping DEF Others
  <2> QED
    BY <1>0, <1>2, <2>1 DEF Others, watcher, Typing, TypeOK
<1>3. CASE UNCHANGED vars
  <2>1. GitHubTypeOK' /\ FiniteRuns'
    BY <1>0, <1>3, StillTyping DEF vars
  <2> QED
    BY <1>0, <1>3, <2>1 DEF vars, watcher, Typing, TypeOK
<1> QED
  BY <1>1, <1>2, <1>3 DEF Next

(* The watcher's state is well typed, whatever GitHub does and for every   *)
(* choice of options: no read grows past its pages, no counter goes below  *)
(* zero, no commit but a commit of the pull request is ever pinned.        *)
THEOREM TypeCorrect == Spec => []TypeOK
<1>1. Typing => TypeOK
  BY DEF Typing
<1> QED
  BY <1>1, InitTyping, NextTyping, PTL DEF Spec

-----------------------------------------------------------------------------
(* An explicit --sha is never replaced: the property is inductive, as pin  *)
(* only changes in Pin, which refuses another head, and in Head, which     *)
(* follows a push only when no --sha was given.                            *)
THEOREM ExplicitSha == Spec => []ExplicitShaIsNeverReplaced
<1>1. Init => ExplicitShaIsNeverReplaced
  BY DEF Init, ExplicitShaIsNeverReplaced
<1>2. ExplicitShaIsNeverReplaced /\ [Next]_vars => ExplicitShaIsNeverReplaced'
  <2> SUFFICES ASSUME ExplicitShaIsNeverReplaced, [Next]_vars, WantSha # NoSha
               PROVE  pin' \in {NoSha, WantSha}
    BY DEF ExplicitShaIsNeverReplaced
  <2>0. pin \in {NoSha, WantSha}
    BY DEF ExplicitShaIsNeverReplaced
  <2>1. CASE Pin
    BY <2>0, <2>1 DEF Pin, Quit, Kept
  <2>2. CASE Head
    BY <2>0, <2>2 DEF Head, MayFollow, Quit, Kept
  <2>3. CASE ReadSuitesBefore \/ ReadPage \/ ReadSuitesAfter
    BY <2>0, <2>3 DEF ReadSuitesBefore, ReadPage, ReadSuitesAfter, Reading
  <2>4. CASE ReadFailed \/ JudgeFirst \/ JudgeConfirm
    BY <2>0, <2>4 DEF ReadFailed, JudgeFirst, JudgeConfirm, Judged
  <2>5. CASE Decide
    BY <2>0, <2>5 DEF Decide, Quit, Kept
  <2>6. CASE Reread \/ CheckProtection \/ MergeRecheck
    BY <2>0, <2>6 DEF Reread, CheckProtection, Attempt, MergeRecheck, Quit, Kept
  <2>7. CASE MergeCall \/ AfterAccepted \/ AfterRefused
    BY <2>0, <2>7 DEF MergeCall, AfterAccepted, AfterRefused, Attempt, AttributeMerge,
                      Quit, Kept
  <2>8. CASE Others \/ UNCHANGED vars
    BY <2>0, <2>8 DEF Others, vars, watcher
  <2> QED
    BY <2>1, <2>2, <2>3, <2>4, <2>5, <2>6, <2>7, <2>8 DEF Next, Watch
<1> QED
  BY <1>1, <1>2, PTL DEF Spec

-----------------------------------------------------------------------------
(* The bound on the wait.  Naps of the poll loop start before the timeout  *)
(* and last eight intervals at most; after them each retry of the merge    *)
(* adds one delay, and there are MergeRetries of them.                     *)
Polling == \/ pc \in {"pin", "head", "decide", "reread", "protect"}
           \/ pc \in {"before", "page", "after", "judge"} /\ phase # "recheck"

Merging == \/ pc \in {"merge", "accepted", "refused"}
           \/ pc \in {"before", "page", "after", "judge"} /\ phase = "recheck"

Bounded ==
  /\ Polling => attempt = 0
  /\ Merging => attempt > 0
  /\ attempt <= MergeRetries + 1
  /\ attempt = 0 => now <= Timeout - 1 + 8 * Interval
  /\ attempt > 0 =>
       now <= Timeout - 1 + 8 * Interval + (attempt - 1) * MergeRetryDelay

LEMMA TimesMonotone ==
  ASSUME NEW a \in Int, NEW b \in Int, NEW d \in Nat, a <= b
  PROVE  a * d <= b * d
  OBVIOUS

LEMMA TimesStep ==
  ASSUME NEW a \in Int, NEW d \in Nat PROVE a * d + d = (a + 1) * d
  OBVIOUS

LEMMA BoundedInvariant == Spec => []Bounded
<1>1. Init => Bounded
  <2>1. Timeout \in Nat \ {0} /\ Interval \in Nat /\ MergeRetries \in Nat
    BY WaitCiAssumption DEF WaitCiAssumption, ValidOptions
  <2> QED
    BY <2>1 DEF Init, Bounded, Polling, Merging
<1>2. Typing /\ Bounded /\ [Next]_vars => Bounded'
  <2> SUFFICES ASSUME Typing, Bounded, [Next]_vars PROVE Bounded'
    OBVIOUS
  <2>0. /\ now \in Nat /\ attempt \in Nat /\ fails \in 0..FailsCap
        /\ Timeout \in Nat \ {0} /\ Interval \in Nat \ {0}
        /\ MergeRetries \in Nat /\ MergeRetryDelay \in Nat
    BY WaitCiAssumption DEF Typing, TypeOK, WaitCiAssumption, ValidOptions
  <2> USE DEF Bounded, Polling, Merging
  <2>1. CASE Pin \/ Head
    BY <2>0, <2>1 DEF Pin, Head, StartRead, Quit, Exit, Kept
  <2>2. CASE ReadSuitesBefore \/ ReadPage \/ ReadSuitesAfter
    BY <2>0, <2>2 DEF ReadSuitesBefore, ReadPage, ReadSuitesAfter, Reading
  <2>3. CASE ReadFailed \/ JudgeFirst \/ JudgeConfirm
    BY <2>0, <2>3 DEF ReadFailed, JudgeFirst, JudgeConfirm, Judged, StartRead
  <2>4. CASE Decide
    <3>1. CASE now < Timeout /\ pc' = "head" /\ attempt' = attempt
               /\ \E f \in 0..FailsCap : now' = now + Interval * BackOff(f)
      <4>1. PICK f \in 0..FailsCap : now' = now + Interval * BackOff(f)
        BY <3>1
      <4>2. BackOff(f) \in Int /\ BackOff(f) <= 8
        BY BackOffType
      <4>3. Interval * BackOff(f) <= 8 * Interval
        BY <2>0, <4>2
      <4> QED
        BY <2>0, <2>4, <3>1, <4>1, <4>2, <4>3 DEF Decide
    <3>2. CASE UNCHANGED <<now, attempt>> /\ pc' \in {"done", "reread"}
      BY <2>0, <2>4, <3>2 DEF Decide
    <3>3. (IF ~pollFailed THEN 0 ELSE IF fails < FailsCap THEN fails + 1 ELSE fails)
            \in 0..FailsCap
      BY <2>0 DEF FailsCap
    <3> QED
      BY <2>4, <3>1, <3>2, <3>3 DEF Decide, Quit, Exit, Kept
  <2>5. CASE Reread \/ MergeRecheck
    BY <2>0, <2>5 DEF Reread, MergeRecheck, Quit, Exit, Kept
  <2>6. CASE CheckProtection
    BY <2>0, <2>6 DEF CheckProtection, Attempt, StartRead, Quit, Exit, Kept
  <2>7. CASE MergeCall
    BY <2>0, <2>7 DEF MergeCall
  <2>8. CASE AfterAccepted \/ AfterRefused
    <3>1. CASE UNCHANGED <<now, attempt>> /\ pc' = "done"
      BY <2>0, <3>1
    <3>2. CASE /\ pc = "refused" /\ attempt <= MergeRetries
               /\ now' = now + MergeRetryDelay /\ attempt' = attempt + 1
               /\ pc' = "before" /\ phase' = "recheck"
      <4>1. attempt > 0
        BY <3>2
      <4>2. (attempt - 1) * MergeRetryDelay + MergeRetryDelay
              = (attempt' - 1) * MergeRetryDelay
        <5>1. attempt - 1 \in Int /\ (attempt - 1) + 1 = attempt' - 1
          BY <2>0, <3>2
        <5> QED BY <2>0, <5>1, TimesStep
      <4>3. (attempt - 1) * MergeRetryDelay \in Int
        BY <2>0
      <4> QED
        BY <2>0, <3>2, <4>1, <4>2, <4>3
    <3> QED
      BY <2>8, <3>1, <3>2 DEF AfterAccepted, AfterRefused, Attempt, AttributeMerge,
         MayRetry, StartRead, Quit, Exit, Kept
  <2>9. CASE Others \/ UNCHANGED vars
    BY <2>0, <2>9 DEF Others, vars, watcher
  <2> QED
    BY <2>1, <2>2, <2>3, <2>4, <2>5, <2>6, <2>7, <2>8, <2>9 DEF Next, Watch
<1> QED
  BY <1>1, <1>2, InitTyping, NextTyping, PTL DEF Spec

(* The wait is bounded for every value of the options: no push that        *)
(* re-pins, no back-off and no refused merge makes it longer.              *)
THEOREM BoundedWait == Spec => []WaitIsBounded
<1>1. Typing /\ Bounded => WaitIsBounded
  <2> SUFFICES ASSUME Typing, Bounded PROVE WaitIsBounded
    OBVIOUS
  <2>1. /\ now \in Nat /\ attempt \in Nat /\ Timeout \in Nat /\ Interval \in Nat
        /\ MergeRetries \in Nat /\ MergeRetryDelay \in Nat
    BY WaitCiAssumption DEF Typing, TypeOK, WaitCiAssumption, ValidOptions
  <2>2. MergeRetries * MergeRetryDelay \in Nat
    BY <2>1
  <2>3. (attempt - 1) * MergeRetryDelay <= MergeRetries * MergeRetryDelay
    BY <2>1, TimesMonotone DEF Bounded
  <2>4. (attempt - 1) * MergeRetryDelay \in Int
    BY <2>1
  <2> QED
    BY <2>1, <2>2, <2>3, <2>4 DEF Bounded, WaitIsBounded
<1> QED
  BY <1>1, InitTyping, NextTyping, BoundedInvariant, PTL DEF Spec

-----------------------------------------------------------------------------
(* What a green exit says.  The head of a merged pull request no longer    *)
(* moves, so a merge that one response ties to the verified commit stays a *)
(* merge of that commit; and between the verification and the exit the     *)
(* script never touches pin, verified or --merge's promise.                *)
Verified == \/ pc \in {"protect", "merge", "accepted", "refused"}
            \/ pc \in {"before", "page", "after", "judge"} /\ phase = "recheck"

Truthful ==
  /\ merged # NoSha => merged = head
  /\ Verified => verified = pin /\ Merge /\ WantSha \in {NoSha, pin}
  /\ pc # "done" => ~claim /\ result = <<>>
  /\ claim => merged # NoSha /\ head = verified
  /\ result = <<0, "green">> =>
       verified = pin /\ WantSha \in {NoSha, verified} /\ (claim <=> Merge)

(* An exit other than 0 claims nothing.                                    *)
LEMMA QuitTruthful ==
  ASSUME Truthful, pc # "done", UNCHANGED <<head, merged>>,
         NEW code \in 1..6, NEW why, Quit(code, why)
  PROVE  Truthful'
<1>1. /\ pc' = "done" /\ result' = <<code, why>> /\ claim' = claim
      /\ pin' = pin /\ verified' = verified
  BY DEF Quit, Exit, Kept
<1>2. ~claim /\ result' # <<0, "green">>
  BY <1>1 DEF Truthful
<1> QED
  BY <1>1, <1>2 DEF Truthful, Verified

(* A new recheck starts from a verified commit.                            *)
LEMMA RecheckTruthful ==
  ASSUME Truthful, Verified, pc # "done", StartRead("recheck"),
         UNCHANGED <<head, merged, pin, verified, claim, result>>
  PROVE  Truthful'
  BY DEF Truthful, Verified, StartRead

LEMMA TruthfulInvariant == Spec => []Truthful
<1>1. Init => Truthful
  BY GitHubAssumption DEF Init, GitHubInit, Truthful, Verified
<1>2. Typing /\ Truthful /\ [Next]_vars => Truthful'
  <2> SUFFICES ASSUME Typing, Truthful, [Next]_vars PROVE Truthful'
    OBVIOUS
  <2>0. /\ claim \in BOOLEAN /\ Merge \in BOOLEAN /\ WithPr \in BOOLEAN
        /\ NoSha \notin Sha /\ head \in Sha
    BY WaitCiAssumption, GitHubAssumption
       DEF Typing, TypeOK, GitHubTypeOK, WaitCiAssumption, ValidOptions, GitHubAssumption
  <2>1. CASE Pin \/ Head
    BY <2>0, <2>1 DEF Truthful, Verified, Pin, Head, StartRead, Quit, Exit, Kept, Fault, world
  <2>2. CASE ReadSuitesBefore \/ ReadPage \/ ReadSuitesAfter
    BY <2>0, <2>2 DEF Truthful, Verified, ReadSuitesBefore, ReadPage, ReadSuitesAfter, Reading, Fault,
                      world
  <2>3. CASE ReadFailed \/ JudgeFirst \/ JudgeConfirm
    BY <2>0, <2>3 DEF Truthful, Verified, ReadFailed, JudgeFirst, JudgeConfirm, Judged, StartRead, world
  <2>4. CASE Decide
    BY <2>0, <2>4 DEF Truthful, Verified, Decide, Quit, Exit, Kept, world
  <2>5. CASE Reread
    BY <2>0, <2>5 DEF Truthful, Verified, Reread, MayVerify, Quit, Exit, Kept, Fault, world
  <2>6. CASE CheckProtection
    <3>1. UNCHANGED <<head, merged>> /\ Verified /\ pc # "done"
      BY <2>6 DEF CheckProtection, Attempt, world, Verified
    <3>2. CASE Quit(1, "error")
      BY <3>1, <3>2, QuitTruthful
    <3>3. CASE StartRead("recheck") /\ UNCHANGED <<pin, verified, claim, result>>
      BY <3>1, <3>3, RecheckTruthful
    <3> QED
      BY <2>6, <3>2, <3>3 DEF CheckProtection, Attempt
  <2>7. CASE MergeRecheck
    <3>1. CASE Quit(1, "error") \/ Quit(6, "other-red")
      BY <2>7, <3>1, QuitTruthful DEF MergeRecheck, world
    <3>2. CASE /\ \/ pc' = "done" /\ result' = <<1, "red">>
                  \/ pc' = "done" /\ result' = <<6, "other-red">>
                  \/ pc' = "merge" /\ UNCHANGED result
               /\ UNCHANGED <<head, merged, pin, verified, claim>>
      BY <2>7, <3>2 DEF MergeRecheck, Truthful, Verified
    <3> QED
      BY <2>7, <3>1, <3>2 DEF MergeRecheck, Exit, Kept, world
  <2>8. CASE MergeCall
    BY <2>0, <2>8 DEF Truthful, Verified, MergeCall, MatchesHead
  <2>9. CASE AfterAccepted \/ AfterRefused
    <3>1. UNCHANGED <<head, merged>> /\ Verified /\ pc # "done"
      BY <2>9 DEF Truthful, Verified, AfterAccepted, AfterRefused, Attempt, Fault, world
    <3>2. CASE \/ Quit(1, "error") \/ Quit(4, "head-moved")
               \/ Quit(5, "queued") \/ Quit(1, "merge-blocked")
      BY <3>1, <3>2, QuitTruthful
    <3>3. CASE AttributeMerge
      <4>1. /\ merged # NoSha /\ pc' = "done"
            /\ \/ head = verified /\ claim' = TRUE /\ result' = <<0, "green">>
               \/ UNCHANGED claim /\ result' = <<4, "head-moved">>
            /\ UNCHANGED <<pin, verified>>
        BY <3>3 DEF AttributeMerge, IsOurs, Exit, Kept
      <4>2. Merge /\ ~claim
        BY <2>0, <3>1 DEF Truthful
      <4> QED
        BY <3>1, <4>1, <4>2 DEF Truthful, Verified
    <3>4. CASE StartRead("recheck")
               /\ UNCHANGED <<pin, verified, claim, result>>
      BY <3>1, <3>4, RecheckTruthful
    <3> QED
      BY <2>9, <3>2, <3>3, <3>4 DEF AfterAccepted, AfterRefused, Attempt
  <2>10. CASE Others
    BY <2>0, <2>10 DEF Truthful, Verified, Others, Environment, NewRun, Finish, Rerun, Push,
       MergeElsewhere, watcher
  <2>11. CASE UNCHANGED vars
    BY <2>0, <2>11 DEF Truthful, Verified, vars, world, watcher
  <2> QED
    BY <2>1, <2>2, <2>3, <2>4, <2>5, <2>6, <2>7, <2>8, <2>9, <2>10, <2>11
       DEF Next, Watch
<1> QED
  BY <1>1, <1>2, InitTyping, NextTyping, PTL DEF Spec

THEOREM TruthfulExit == Spec => []GreenExitTellsTheTruth
<1>1. Truthful => GreenExitTellsTheTruth
  BY DEF Truthful, GreenExitTellsTheTruth
<1> QED
  BY <1>1, TruthfulInvariant, PTL

-----------------------------------------------------------------------------
(* GitHub's book-keeping: ids are given once, every run has a suite.       *)
Ledger == \A s \in Sha : \A r \in runs[s] :
            /\ r.id < nextId /\ r.suite >= 1
            /\ \A q \in runs[s] : q.id = r.id => q = r

(* What one step may do to the runs of a commit: they do not get fewer,    *)
(* and a run that was not there is a new one, or one that was unfinished.  *)
Evolves(s) ==
  /\ nextId <= nextId' /\ suites[s] <= suites'[s]
  /\ Cardinality(runs[s]) <= Cardinality(runs'[s])
  /\ \A q \in runs'[s] :
       \/ q \in runs[s]
       \/ q.id >= nextId
       \/ \E r \in runs[s] : ~r.completed /\ q.id = r.id

LEMMA StillEvolves ==
  ASSUME Typing, Ledger, UNCHANGED <<runs, suites, nextId>>
  PROVE  Ledger' /\ \A s \in Sha : Evolves(s)
<1>1. /\ \A s \in Sha : Cardinality(runs[s]) \in Nat
      /\ nextId \in Nat /\ suites \in [Sha -> Nat]
  BY FS_CardinalityType DEF Typing, TypeOK, GitHubTypeOK, FiniteRuns
<1> QED
  BY <1>1 DEF Ledger, Evolves

(* A run r is put in the place of q, or beside the others.                 *)
LEMMA ReplaceGrows ==
  ASSUME NEW S, IsFiniteSet(S), NEW r, NEW q \in S, r \notin S \ {q}
  PROVE  Cardinality(S) <= Cardinality((S \ {q}) \cup {r})
<1>1. IsFiniteSet(S \ {q}) /\ Cardinality(S \ {q}) = Cardinality(S) - 1
  BY FS_RemoveElement
<1>2. Cardinality((S \ {q}) \cup {r}) = Cardinality(S \ {q}) + 1
  BY <1>1, FS_AddElement
<1> QED
  BY <1>1, <1>2, FS_CardinalityType

LEMMA NewRunEvolves ==
  ASSUME Typing, Ledger, NewRun PROVE Ledger' /\ \A s \in Sha : Evolves(s)
<1> USE GitHubAssumption DEF GitHubAssumption
<1>0. /\ GitHubTypeOK /\ nextId \in Nat /\ suites \in [Sha -> Nat]
      /\ runs \in [Sha -> SUBSET CheckRun]
      /\ \A s \in Sha : IsFiniteSet(runs[s]) /\ Cardinality(runs[s]) \in Nat
  BY FS_CardinalityType DEF Typing, TypeOK, GitHubTypeOK, FiniteRuns
<1>1. PICK s \in {head, WantSha} \ {NoSha}, k \in Reported, n \in 0..1 :
        /\ suites[s] + n \in 1..MaxSuites
        /\ runs' = [runs EXCEPT ![s] = @ \cup
             {[id |-> nextId, name |-> k.name, app |-> k.app,
               suite |-> suites[s] + n, sound |-> k.sound,
               completed |-> FALSE, conclusion |-> "none"]}]
        /\ suites' = [suites EXCEPT ![s] = suites[s] + n]
        /\ nextId' = nextId + 1
  BY DEF NewRun
<1>2. s \in Sha
  BY <1>0 DEF GitHubTypeOK
<1> DEFINE r == [id |-> nextId, name |-> k.name, app |-> k.app,
                 suite |-> suites[s] + n, sound |-> k.sound,
                 completed |-> FALSE, conclusion |-> "none"]
<1>3. r.id = nextId /\ r.suite >= 1
  BY <1>0, <1>1, <1>2
<1>4. runs' = [runs EXCEPT ![s] = @ \cup {r}]
  BY <1>1
<1> HIDE DEF r
<1>5. \A z \in Sha : \A q \in runs[z] : q.id \in Nat /\ q.id < nextId
  BY <1>0 DEF Ledger, CheckRun
<1>6. runs'[s] = runs[s] \cup {r} /\ \A z \in Sha \ {s} : runs'[z] = runs[z]
  BY <1>0, <1>2, <1>4
<1>7. Cardinality(runs[s]) <= Cardinality(runs'[s])
  <2>1. r \notin runs[s]
    BY <1>0, <1>2, <1>3, <1>5
  <2>2. Cardinality(runs[s] \cup {r}) = Cardinality(runs[s]) + 1
    BY <1>0, <1>2, <2>1, FS_AddElement
  <2> QED BY <1>0, <1>2, <1>6, <2>2
<1>8. \A z \in Sha : suites[z] <= suites'[z]
  BY <1>0, <1>1, <1>2
<1>9. \A z \in Sha : Evolves(z)
  BY <1>0, <1>1, <1>2, <1>3, <1>6, <1>7, <1>8 DEF Evolves
<1>10. Ledger'
  BY <1>0, <1>1, <1>2, <1>3, <1>5, <1>6 DEF Ledger
<1> QED BY <1>9, <1>10

LEMMA FinishEvolves ==
  ASSUME Typing, Ledger, Finish PROVE Ledger' /\ \A s \in Sha : Evolves(s)
<1>0. /\ nextId \in Nat /\ suites \in [Sha -> Nat]
      /\ runs \in [Sha -> SUBSET CheckRun]
      /\ \A s \in Sha : IsFiniteSet(runs[s]) /\ Cardinality(runs[s]) \in Nat
  BY FS_CardinalityType DEF Typing, TypeOK, GitHubTypeOK, FiniteRuns
<1>1. PICK s \in Sha : \E r \in runs[s], c \in Endings :
        /\ ~r.completed
        /\ runs' = [runs EXCEPT ![s] = (@ \ {r}) \cup
             {[r EXCEPT !.completed = TRUE, !.conclusion = c]}]
        /\ UNCHANGED <<suites, nextId>>
  BY DEF Finish
<1>2. PICK r \in runs[s], c \in Endings :
        /\ ~r.completed
        /\ runs' = [runs EXCEPT ![s] = (@ \ {r}) \cup
             {[r EXCEPT !.completed = TRUE, !.conclusion = c]}]
        /\ UNCHANGED <<suites, nextId>>
  BY <1>1
<1> DEFINE q == [r EXCEPT !.completed = TRUE, !.conclusion = c]
<1>3. r \in CheckRun
  BY <1>0
<1>4. q.id = r.id /\ q.suite = r.suite
  BY <1>3 DEF CheckRun
<1>5. runs' = [runs EXCEPT ![s] = (@ \ {r}) \cup {q}]
  BY <1>2
<1> HIDE DEF q
<1>6. /\ runs'[s] = (runs[s] \ {r}) \cup {q}
      /\ \A z \in Sha \ {s} : runs'[z] = runs[z]
  BY <1>0, <1>5
<1>7. q \notin runs[s] \ {r}
  BY <1>4 DEF Ledger
<1>8. Cardinality(runs[s]) <= Cardinality(runs'[s])
  BY <1>0, <1>6, <1>7, ReplaceGrows
<1>9. \A z \in Sha : Evolves(z)
  <2>1. \A z \in Sha : suites[z] <= suites'[z] /\ nextId <= nextId'
    BY <1>0, <1>2
  <2>2. Evolves(s)
    BY <1>0, <1>2, <1>4, <1>6, <1>8, <2>1 DEF Evolves
  <2>3. \A z \in Sha \ {s} : Evolves(z)
    BY <1>0, <1>6, <2>1 DEF Evolves
  <2> QED BY <2>2, <2>3
<1>10. Ledger'
  BY <1>2, <1>4, <1>6 DEF Ledger
<1> QED BY <1>9, <1>10

LEMMA RerunEvolves ==
  ASSUME Typing, Ledger, Rerun PROVE Ledger' /\ \A s \in Sha : Evolves(s)
<1>0. /\ nextId \in Nat /\ suites \in [Sha -> Nat]
      /\ runs \in [Sha -> SUBSET CheckRun]
      /\ \A s \in Sha : IsFiniteSet(runs[s]) /\ Cardinality(runs[s]) \in Nat
  BY FS_CardinalityType DEF Typing, TypeOK, GitHubTypeOK, FiniteRuns
<1>1. PICK s \in Sha : \E r \in runs[s] :
        /\ runs' = [runs EXCEPT ![s] = (@ \ {r}) \cup
             {[r EXCEPT !.id = nextId, !.completed = FALSE, !.conclusion = "none"]}]
        /\ nextId' = nextId + 1 /\ UNCHANGED suites
  BY DEF Rerun
<1>2. PICK r \in runs[s] :
        /\ runs' = [runs EXCEPT ![s] = (@ \ {r}) \cup
             {[r EXCEPT !.id = nextId, !.completed = FALSE, !.conclusion = "none"]}]
        /\ nextId' = nextId + 1 /\ UNCHANGED suites
  BY <1>1
<1> DEFINE q == [r EXCEPT !.id = nextId, !.completed = FALSE, !.conclusion = "none"]
<1>3. r \in CheckRun
  BY <1>0
<1>4. q.id = nextId /\ q.suite = r.suite
  BY <1>3 DEF CheckRun
<1>5. runs' = [runs EXCEPT ![s] = (@ \ {r}) \cup {q}]
  BY <1>2
<1> HIDE DEF q
<1>6. /\ runs'[s] = (runs[s] \ {r}) \cup {q}
      /\ \A z \in Sha \ {s} : runs'[z] = runs[z]
  BY <1>0, <1>5
<1>7. \A z \in Sha : \A p \in runs[z] : p.id \in Nat /\ p.id < nextId
  BY <1>0 DEF Ledger, CheckRun
<1>8. q \notin runs[s]
  BY <1>0, <1>4, <1>7
<1>9. Cardinality(runs[s]) <= Cardinality(runs'[s])
  BY <1>0, <1>6, <1>8, ReplaceGrows
<1>10. \A z \in Sha : Evolves(z)
  <2>1. \A z \in Sha : suites[z] <= suites'[z] /\ nextId <= nextId'
    BY <1>0, <1>2
  <2>2. Evolves(s)
    BY <1>0, <1>4, <1>6, <1>9, <2>1 DEF Evolves
  <2>3. \A z \in Sha \ {s} : Evolves(z)
    BY <1>0, <1>6, <2>1 DEF Evolves
  <2> QED BY <2>2, <2>3
<1>11. Ledger'
  BY <1>0, <1>2, <1>4, <1>6, <1>7 DEF Ledger
<1> QED BY <1>10, <1>11

(* Only GitHub's own steps touch the runs.                                 *)
LEMMA RunsEvolve ==
  ASSUME Typing, Ledger, [Next]_vars
  PROVE  Ledger' /\ \A s \in Sha : Evolves(s)
<1>1. CASE NewRun \/ Finish \/ Rerun
  BY <1>1, NewRunEvolves, FinishEvolves, RerunEvolves
<1>2. CASE UNCHANGED <<runs, suites, nextId>>
  BY <1>2, StillEvolves
<1>3. Watch => UNCHANGED <<runs, suites, nextId>>
  BY DEF Watch, Pin, Head, ReadSuitesBefore, ReadPage, ReadSuitesAfter,
         ReadFailed, JudgeFirst, JudgeConfirm, Decide, Reread, CheckProtection, Attempt,
         MergeRecheck, MergeCall, AfterAccepted, AfterRefused, Fault, world
<1> QED
  BY <1>1, <1>2, <1>3 DEF Next, Others, Environment, Push, MergeElsewhere, vars, world

-----------------------------------------------------------------------------
(* A finished run of the pinned commit: it is still there as it is, or it  *)
(* is gone and its id with it.                                             *)
Final(r) == /\ r.completed /\ r.id < nextId
            /\ \A q \in runs[pin] : q.id = r.id => q = r

LEMMA FinalStays ==
  ASSUME Typing, pin \in Sha, Evolves(pin), pin' = pin, nextId' \in Nat,
         NEW r \in CheckRun, Final(r)
  PROVE  Final(r)'
<1>1. nextId \in Nat /\ nextId <= nextId' /\ r.id \in Nat /\ runs[pin] \subseteq CheckRun
  BY DEF Typing, TypeOK, GitHubTypeOK, Evolves, CheckRun
<1>2. ASSUME NEW q \in runs'[pin], q.id = r.id PROVE q = r
  <2>1. CASE q \in runs[pin]
    BY <1>2, <2>1 DEF Final
  <2>2. ~(q.id >= nextId)
    BY <1>1, <1>2 DEF Final
  <2>3. ~(\E z \in runs[pin] : ~z.completed /\ q.id = z.id)
    BY <1>2 DEF Final
  <2> QED
    BY <2>1, <2>2, <2>3 DEF Evolves
<1> QED
  BY <1>1, <1>2 DEF Final

-----------------------------------------------------------------------------
(* What is known of the read under way.                                    *)
IsReading == pc \in {"before", "page", "after", "judge"}

MarkOf(r) == <<r.id, r.completed, r.conclusion, r.app, r.name>>
Marks(R)  == {MarkOf(r) : r \in R}

ReadSoFar ==
  /\ (pin \notin Sha) \/ (pc = "pin") => rd.runs = {} /\ settleFp = {}
  /\ \A r \in rd.runs : r.completed => Final(r)
  /\ pc \in {"before", "page", "after"} => rd.after = Unreadable

LEMMA InitReadSoFar == Init => ReadSoFar
  BY DEF Init, ReadSoFar, EmptyRead

LEMMA FinalsStay ==
  ASSUME Typing, Typing', ReadSoFar, pin \in Sha, Evolves(pin), UNCHANGED <<pin, rd>>
  PROVE  (\A r \in rd.runs : r.completed => Final(r))'
<1>1. rd.runs \subseteq CheckRun /\ nextId' \in Nat
  BY DEF Typing, TypeOK, GitHubTypeOK, Read
<1>2. \A r \in rd.runs : r.completed => Final(r)'
  BY <1>1, FinalStays DEF ReadSoFar
<1> QED BY <1>2

LEMMA ReadSoFarNext ==
  ASSUME Typing, Typing', Ledger, ReadSoFar, [Next]_vars
  PROVE  ReadSoFar'
<1>0. \A s \in Sha : Evolves(s)
  BY RunsEvolve
<1>1. CASE StartRead(phase') /\ (pin' \in Sha)
  BY <1>1 DEF StartRead, EmptyRead, ReadSoFar
<1>2. CASE /\ UNCHANGED <<pin, rd>>
           /\ pc = "pin" => pc' = "done"
           /\ pc' \notin {"pin", "before", "page", "after"} \/ pc' = pc
           /\ settleFp' = settleFp \/ pin \in Sha
  <2>1. CASE pin \in Sha
    BY <1>0, <1>2, <2>1, FinalsStay DEF ReadSoFar
  <2>2. CASE pin \notin Sha
    BY <1>2, <2>2 DEF ReadSoFar
  <2> QED BY <2>1, <2>2
<1>3. CASE Pin /\ pc' = "head"
  BY <1>3 DEF Pin, ReadSoFar, Typing, TypeOK, Quit, Exit
<1>4. CASE ReadSuitesBefore \/ ReadPage \/ ReadSuitesAfter
  <2>0. /\ pc \in {"before", "page", "after"} /\ pc' \in {"page", "after", "judge"}
        /\ UNCHANGED <<pin, runs, nextId>>
    BY <1>4 DEF ReadSuitesBefore, ReadPage, ReadSuitesAfter, Reading, Fault, world
  <2>1. /\ pin \in Sha /\ rd.after = Unreadable /\ rd \in Read
    BY <2>0 DEF Typing, TypeOK, ReadSoFar
  <2>2. Page(pin, page) \subseteq runs[pin]
    BY DEF Page, Visible
  <2>3. /\ rd'.runs \subseteq rd.runs \cup runs[pin]
        /\ pc' # "judge" => rd'.after = Unreadable
    BY <1>4, <2>1, <2>2 DEF ReadSuitesBefore, ReadPage, ReadSuitesAfter, Read
  <2>4. \A r \in runs[pin] : r.completed => Final(r)
    BY <2>1 DEF Ledger, Final
  <2>5. \A r \in rd'.runs : r.completed => Final(r)
    BY <2>3, <2>4 DEF ReadSoFar
  <2>6. \A r : Final(r) => Final(r)'
    BY <2>0 DEF Final
  <2>7. \A r \in rd'.runs : r.completed => Final(r)'
    BY <2>5, <2>6
  <2> QED BY <2>0, <2>1, <2>3, <2>7 DEF ReadSoFar
<1>5. Pin => (pc' = "head" \/ Quit(1, "error") \/ Quit(4, "head-moved")) /\ pc = "pin"
  BY DEF Pin
<1>6. ASSUME NEW code, NEW why, Quit(code, why)
      PROVE  UNCHANGED <<pin, rd, settleFp>> /\ pc' = "done"
  BY <1>6 DEF Quit, Exit, Kept
<1>7. CASE Pin
  BY <1>2, <1>3, <1>5, <1>6, <1>7
<1>8. CASE Head
  <2>1. pin \in Sha /\ head \in Sha
    BY <1>8 DEF Head, Typing, TypeOK, GitHubTypeOK
  <2>2. CASE StartRead("first") /\ pin' \in {pin, head}
    BY <1>1, <2>1, <2>2 DEF StartRead
  <2>3. CASE Quit(4, "head-moved") /\ pc = "head"
    BY <1>2, <1>6, <2>3
  <2> QED BY <1>8, <2>2, <2>3 DEF Head
<1>9. CASE ReadFailed \/ JudgeFirst \/ JudgeConfirm
  <2>1. /\ pin \in Sha /\ pin' = pin /\ pc = "judge"
        /\ StartRead("confirm") \/ (pc' = "decide" /\ rd' = rd)
    BY <1>9 DEF ReadFailed, JudgeFirst, JudgeConfirm, Judged, Typing, TypeOK
  <2> QED BY <1>1, <1>2, <2>1 DEF StartRead
<1>10. CASE Decide \/ Reread
  <2>1. /\ pin \in Sha /\ UNCHANGED <<pin, rd, settleFp>> /\ pc # "pin"
        /\ pc' \in {"done", "reread", "head", "protect"}
    BY <1>10 DEF Decide, Reread, Quit, Exit, Kept, Typing, TypeOK
  <2> QED BY <1>2, <2>1
<1>11. CASE CheckProtection \/ MergeRecheck \/ MergeCall \/ AfterAccepted \/ AfterRefused
  <2>1. /\ pin \in Sha /\ UNCHANGED <<pin, settleFp>> /\ pc # "pin"
        /\ \/ StartRead("recheck")
           \/ rd' = rd /\ pc' \in {"done", "merge", "accepted", "refused"}
    BY <1>11 DEF CheckProtection, Attempt, MergeRecheck, MergeCall, AfterAccepted, AfterRefused,
                 AttributeMerge, Quit, Exit, Kept, Typing, TypeOK
  <2> QED BY <1>1, <1>2, <2>1 DEF StartRead
<1>12. CASE Others \/ UNCHANGED vars
  <2>1. UNCHANGED watcher
    BY <1>12 DEF Others, vars
  <2>2. UNCHANGED <<pin, rd, settleFp, pc>>
    BY <2>1 DEF watcher
  <2>3. CASE pin \in Sha
    BY <1>0, <2>2, <2>3, FinalsStay DEF ReadSoFar
  <2>4. CASE pin \notin Sha
    BY <2>2, <2>4 DEF ReadSoFar
  <2> QED BY <2>3, <2>4
<1> QED
  BY <1>4, <1>7, <1>8, <1>9, <1>10, <1>11, <1>12 DEF Next, Watch

LEMMA TypingInvariant == Spec => []Typing
  BY InitTyping, NextTyping, PTL DEF Spec

LEMMA InitLedger == Init => Ledger
  BY DEF Init, GitHubInit, Ledger

-----------------------------------------------------------------------------
(* Each step brings the end nearer: either there is a poll or an attempt   *)
(* less to come, or less is left of the one under way.                     *)
LeftIs(left, c, w, p) ==
  /\ c = "pin" => left = 2 * MaxRunPages + 11
  /\ c = "head" => left = 2 * MaxRunPages + 10
  /\ c = "before" /\ w = "first" => left = 2 * MaxRunPages + 9
  /\ c = "page" /\ w = "first" => left = 2 * MaxRunPages + 9 - p
  /\ c = "after" /\ w = "first" => left = MaxRunPages + 8
  /\ c = "judge" /\ w = "first" => left = MaxRunPages + 7
  /\ c = "before" /\ w = "confirm" => left = MaxRunPages + 6
  /\ c = "page" /\ w = "confirm" => left = MaxRunPages + 6 - p
  /\ c = "after" /\ w = "confirm" => left = 5
  /\ c = "judge" /\ w = "confirm" => left = 4
  /\ c = "before" /\ w = "recheck" => left = MaxRunPages + 5
  /\ c = "page" /\ w = "recheck" => left = MaxRunPages + 5 - p
  /\ c = "after" /\ w = "recheck" => left = 4
  /\ c = "judge" /\ w = "recheck" => left = 3
  /\ c = "decide" => left = 3
  /\ c \in {"reread", "merge"} => left = 2
  /\ c \in {"protect", "accepted", "refused"} => left = 1
  /\ c = "done" => left = 0

LEMMA PagesAreCounted == MaxRunPages \in Nat \ {0}
  BY WaitCiAssumption DEF WaitCiAssumption, ValidOptions

LEMMA LeftTable == Typing => LeftIs(RoundLeft, pc, phase, page)
<1> SUFFICES ASSUME Typing PROVE LeftIs(RoundLeft, pc, phase, page)
  OBVIOUS
<1>1. page \in 1..MaxRunPages /\ MaxRunPages \in Nat
  BY PagesAreCounted DEF Typing, TypeOK
<1>2. CASE pc = "before"
  BY <1>1, <1>2 DEF RoundLeft, ReadLeft, LeftIs
<1>3. CASE pc = "page"
  BY <1>1, <1>3 DEF RoundLeft, ReadLeft, LeftIs
<1>4. CASE pc = "after"
  BY <1>1, <1>4 DEF RoundLeft, ReadLeft, LeftIs
<1>5. CASE pc = "judge"
  BY <1>1, <1>5 DEF RoundLeft, ReadLeft, LeftIs
<1>6. CASE pc \notin {"before", "page", "after", "judge"}
  BY <1>6 DEF RoundLeft, LeftIs
<1> QED BY <1>2, <1>3, <1>4, <1>5, <1>6

LEMMA LeftIsNumber == Typing => RoundLeft \in 0..(2 * MaxRunPages + 11)
<1> SUFFICES ASSUME Typing PROVE RoundLeft \in 0..(2 * MaxRunPages + 11)
  OBVIOUS
<1>1. /\ page \in 1..MaxRunPages /\ MaxRunPages \in Nat /\ phase \in {"first", "confirm", "recheck"}
      /\ pc \in {"pin", "head", "before", "page", "after", "judge", "decide",
                 "reread", "protect", "merge", "accepted", "refused", "done"}
  BY PagesAreCounted DEF Typing, TypeOK
<1>2. LeftIs(RoundLeft, pc, phase, page)
  BY LeftTable
<1> QED BY <1>1, <1>2 DEF LeftIs

LEMMA RoundsAreNumbers == Typing /\ Bounded => Rounds \in Nat
<1> SUFFICES ASSUME Typing, Bounded PROVE Rounds \in Nat
  OBVIOUS
<1>1. /\ now \in Nat /\ attempt \in Nat /\ Timeout \in Nat /\ MergeRetries \in Nat
      /\ attempt <= MergeRetries + 1
  BY WaitCiAssumption DEF Typing, TypeOK, Bounded, WaitCiAssumption, ValidOptions
<1> QED BY <1>1 DEF Rounds

Advance == \/ Rounds' < Rounds
           \/ Rounds' = Rounds /\ RoundLeft' < RoundLeft

LEMMA WatchAdvances ==
  ASSUME Typing, Bounded, Typing', Bounded', Watch
  PROVE  Advance
<1>1. /\ LeftIs(RoundLeft, pc, phase, page)
      /\ LeftIs(RoundLeft', pc', phase', page')
  <2>1. LeftIs(RoundLeft, pc, phase, page)'
    BY LeftTable, PTL
  <2> QED BY <2>1, LeftTable DEF LeftIs
<1>2. /\ page \in 1..MaxRunPages /\ page' \in 1..MaxRunPages /\ MaxRunPages \in Nat \ {0}
      /\ phase \in {"first", "confirm", "recheck"} /\ phase' \in {"first", "confirm", "recheck"}
      /\ now \in Nat /\ attempt \in Nat /\ fails \in 0..FailsCap
  BY PagesAreCounted DEF Typing, TypeOK
<1>3. /\ Timeout \in Nat \ {0} /\ Interval \in Nat \ {0}
      /\ MergeRetries \in Nat /\ MergeRetryDelay \in Nat
  BY WaitCiAssumption DEF WaitCiAssumption, ValidOptions
<1>4. UNCHANGED <<now, attempt>> => Rounds' = Rounds
  BY DEF Rounds
<1>5. CASE Pin
  BY <1>1, <1>2, <1>4, <1>5 DEF Pin, Quit, Exit, Kept, LeftIs, Advance
<1>6. CASE Head
  BY <1>1, <1>2, <1>4, <1>6 DEF Head, Quit, Exit, Kept, StartRead, LeftIs, Advance
<1>7. CASE ReadSuitesBefore
  BY <1>1, <1>2, <1>4, <1>7 DEF ReadSuitesBefore, Reading, LeftIs, Advance
<1>8. CASE ReadPage
  <2>1. /\ pc = "page" /\ UNCHANGED <<phase, now, attempt>>
        /\ \/ pc' \in {"after", "judge"} /\ page' = page
           \/ pc' = "page" /\ page' = page + 1
    BY <1>8 DEF ReadPage, Reading
  <2> QED BY <1>1, <1>2, <1>4, <2>1 DEF LeftIs, Advance
<1>9. CASE ReadSuitesAfter
  BY <1>1, <1>2, <1>4, <1>9 DEF ReadSuitesAfter, Reading, LeftIs, Advance
<1>10. CASE ReadFailed
  BY <1>1, <1>2, <1>4, <1>10 DEF ReadFailed, Judged, LeftIs, Advance
<1>11. CASE JudgeFirst
  <2>1. /\ pc = "judge" /\ phase = "first" /\ UNCHANGED <<now, attempt>>
        /\ pc' = "decide" \/ (pc' = "before" /\ phase' = "confirm")
    BY <1>11 DEF JudgeFirst, StartRead
  <2> QED BY <1>1, <1>2, <1>4, <2>1 DEF LeftIs, Advance
<1>12. CASE JudgeConfirm
  <2>1. pc = "judge" /\ phase = "confirm" /\ pc' = "decide" /\ UNCHANGED <<now, attempt>>
    BY <1>12 DEF JudgeConfirm, Judged
  <2> QED BY <1>1, <1>2, <1>4, <2>1 DEF LeftIs, Advance
<1>13. CASE Decide
  <2>1. /\ pc = "decide" /\ attempt' = attempt
        /\ \/ pc' \in {"done", "reread"} /\ now' = now
           \/ /\ now < Timeout
              /\ \E f \in 0..FailsCap : now' = now + Interval * BackOff(f)
    BY <1>2, <1>13 DEF Decide, Quit, Exit, Kept, FailsCap
  <2>2. CASE pc' \in {"done", "reread"} /\ now' = now
    BY <1>1, <1>2, <1>4, <2>1, <2>2 DEF LeftIs, Advance
  <2>3. CASE now < Timeout /\ \E f \in 0..FailsCap : now' = now + Interval * BackOff(f)
    <3>1. PICK f \in 0..FailsCap : now' = now + Interval * BackOff(f)
      BY <2>3
    <3>2. BackOff(f) \in Int /\ BackOff(f) >= 1
      BY DEF BackOff, FailsCap
    <3>3. Interval * BackOff(f) >= 1
      BY <1>3, <3>2
    <3>4. now' \in Nat /\ now' > now
      BY <1>2, <1>3, <3>1, <3>2, <3>3
    <3> QED BY <1>2, <1>3, <2>1, <2>3, <3>4 DEF Rounds, Advance
  <2> QED BY <2>1, <2>2, <2>3
<1>14. CASE Reread
  BY <1>1, <1>2, <1>4, <1>14 DEF Reread, Quit, Exit, Kept, LeftIs, Advance
<1>15. CASE CheckProtection
  <2>1. /\ pc = "protect" /\ now' = now
        /\ (pc' = "done" /\ attempt' = attempt) \/ attempt' = attempt + 1
    BY <1>15 DEF CheckProtection, Attempt, Quit, Exit, Kept
  <2> QED BY <1>1, <1>2, <1>3, <1>4, <2>1 DEF LeftIs, Rounds, Advance
<1>16. CASE MergeRecheck
  <2>1. /\ pc = "judge" /\ phase = "recheck" /\ UNCHANGED <<now, attempt>>
        /\ pc' \in {"done", "merge"}
    BY <1>16 DEF MergeRecheck, Quit, Exit, Kept
  <2> QED BY <1>1, <1>2, <1>4, <2>1 DEF LeftIs, Advance
<1>17. CASE MergeCall
  <2>1. pc = "merge" /\ pc' \in {"accepted", "refused"} /\ UNCHANGED <<now, attempt>>
    BY <1>17 DEF MergeCall
  <2> QED BY <1>1, <1>2, <1>4, <2>1 DEF LeftIs, Advance
<1>18. CASE AfterAccepted
  <2>1. pc = "accepted" /\ pc' = "done" /\ UNCHANGED <<now, attempt>>
    BY <1>18 DEF AfterAccepted, AttributeMerge, Quit, Exit, Kept
  <2> QED BY <1>1, <1>2, <1>4, <2>1 DEF LeftIs, Advance
<1>19. CASE AfterRefused
  <2>1. /\ pc = "refused"
        /\ \/ pc' = "done" /\ UNCHANGED <<now, attempt>>
           \/ now' = now + MergeRetryDelay /\ attempt' = attempt + 1
    BY <1>19 DEF AfterRefused, Attempt, AttributeMerge, Quit, Exit, Kept
  <2> QED BY <1>1, <1>2, <1>3, <1>4, <2>1 DEF LeftIs, Rounds, Advance
<1> QED
  BY <1>5, <1>6, <1>7, <1>8, <1>9, <1>10, <1>11, <1>12, <1>13, <1>14, <1>15, <1>16,
     <1>17, <1>18, <1>19 DEF Watch

LEMMA TimesType == ASSUME NEW a \in Nat, NEW b \in Nat PROVE a * b \in Nat
  OBVIOUS

(* The script cannot be kept busy: however the head moves, pages grow,     *)
(* calls fail and merges are refused, every step of it lowers a number     *)
(* that the options alone bound and nobody else raises.                    *)
THEOREM OnlySoManySteps == Spec => EveryStepIsProgress
<1> DEFINE K == 2 * MaxRunPages + 12
           Step == IF Watch THEN Remaining' \in 0..(Remaining - 1) ELSE UNCHANGED Remaining
<1>1. Typing /\ Bounded /\ Typing' /\ Bounded' /\ [Next]_vars => [Step]_vars
  <2> SUFFICES ASSUME Typing, Bounded, Typing', Bounded', Next PROVE Step
    OBVIOUS
  <2>1. CASE Watch
    <3>1. Advance
      BY <2>1, WatchAdvances
    <3>2. RoundLeft \in 0..(2 * MaxRunPages + 11) /\ Rounds \in Nat
      BY LeftIsNumber, RoundsAreNumbers
    <3>3. (RoundLeft \in 0..(2 * MaxRunPages + 11))' /\ (Rounds \in Nat)'
      BY LeftIsNumber, RoundsAreNumbers, PTL
    <3> DEFINE a == Rounds b == Rounds'
               l == RoundLeft r == RoundLeft'
    <3>4. /\ a \in Nat /\ b \in Nat /\ K \in Nat
          /\ l \in 0..(K - 1) /\ r \in 0..(K - 1)
      BY <3>2, <3>3, PagesAreCounted
    <3>5. b < a \/ (b = a /\ r < l)
      BY <3>1 DEF Advance
    <3> HIDE DEF a, b, l, r, K
    <3>a. b * K \in Nat /\ a * K \in Nat
      BY <3>4, TimesType
    <3>b. b * K + r < a * K + l
      <4>1. CASE b < a
        <5>1. (b + 1) * K <= a * K
          <6>1. b + 1 \in Int /\ a \in Int /\ b + 1 <= a
            BY <3>4, <4>1
          <6> QED BY <3>4, <6>1, TimesMonotone
        <5>2. b * K + K = (b + 1) * K
          BY <3>4, TimesStep
        <5> QED BY <3>4, <3>a, <5>1, <5>2
      <4>2. CASE b = a /\ r < l
        BY <3>4, <3>a, <4>2
      <4> QED BY <3>5, <4>1, <4>2
    <3>6. Remaining = a * K + l /\ Remaining' = b * K + r
      BY DEF Remaining, a, b, l, r, K
    <3> QED BY <2>1, <3>4, <3>a, <3>b, <3>6
  <2>2. CASE ~Watch
    BY <2>2 DEF Next, Others, watcher, Remaining, Rounds, RoundLeft, ReadLeft
  <2> QED BY <2>1, <2>2
<1> QED
  BY <1>1, TypingInvariant, BoundedInvariant, PTL DEF Spec, EveryStepIsProgress
=============================================================================
