------------------------- MODULE WaitCiTimingProofs -------------------------
(***************************************************************************)
(* What the watcher's exits say about time and about what it has read, for *)
(* every set of commits, page size and choice of options: "nothing         *)
(* changed" (124, hung) is counted from the pin, is said only when nothing *)
(* did change all that while, and a commit that is quiet and green is not  *)
(* missed.                                                                 *)
(*                                                                         *)
(* The argument: the list is kept in one order, so the pages of a commit   *)
(* that does not change between the first request and the last are exactly *)
(* its runs, each once.  A record is final once its run has finished, and  *)
(* an id is given once, so a commit that changed never looks the way it    *)
(* did before: it differs from the snapshot the clock was last reset with. *)
(***************************************************************************)
EXTENDS WaitCiTiming, WaitCiProofs

-----------------------------------------------------------------------------
(* The list in its order: the ranks of the runs it shows are 0, 1, 2, ...  *)
Total == Cardinality(Visible(pin))

Upto(n) == {r \in Visible(pin) : Rank(pin, r) < n}

LEMMA VisibleType ==
  ASSUME Typing, pin \in Sha
  PROVE  /\ Visible(pin) \subseteq runs[pin] /\ Visible(pin) \subseteq CheckRun
         /\ IsFiniteSet(Visible(pin)) /\ Total \in Nat
<1>1. runs[pin] \subseteq CheckRun /\ IsFiniteSet(runs[pin])
  BY DEF Typing, TypeOK, GitHubTypeOK, FiniteRuns
<1>2. Visible(pin) \subseteq runs[pin]
  BY DEF Visible
<1>3. IsFiniteSet(Visible(pin))
  BY <1>1, <1>2, FS_Subset
<1> QED
  BY <1>1, <1>2, <1>3, FS_CardinalityType DEF Total

LEMMA IntervalCount ==
  ASSUME NEW n \in Nat
  PROVE  IsFiniteSet(0..(n - 1)) /\ Cardinality(0..(n - 1)) = n
<1>1. n - 1 \in Int /\ 0 \in Int
  OBVIOUS
<1>2. /\ IsFiniteSet(0..(n - 1))
      /\ Cardinality(0..(n - 1)) = IF 0 > n - 1 THEN 0 ELSE (n - 1) - 0 + 1
  BY <1>1, FS_Interval, Zenon
<1> QED BY <1>2

LEMMA RanksCount ==
  ASSUME Typing, Ledger, pin \in Sha
  PROVE  [r \in Visible(pin) |-> Rank(pin, r)] \in Bijection(Visible(pin), 0..(Total - 1))
<1> DEFINE V == Visible(pin)
           Beyond(r) == {q \in V : IF NewestFirst THEN q.id > r.id ELSE q.id < r.id}
           f == [r \in V |-> Rank(pin, r)]
<1>1. IsFiniteSet(V) /\ Total \in Nat /\ Total = Cardinality(V)
  BY VisibleType DEF Total
<1>2. \A r \in V : r.id \in Nat
  BY VisibleType DEF CheckRun
<1>3. \A r, q \in V : r.id = q.id => r = q
  BY VisibleType DEF Ledger
<1>4. \A r \in V : Rank(pin, r) = Cardinality(Beyond(r))
  BY DEF Rank
<1>5. \A r \in V : /\ IsFiniteSet(Beyond(r)) /\ Beyond(r) \subseteq V
                   /\ Cardinality(Beyond(r)) \in Nat
  <2> SUFFICES ASSUME NEW r \in V
               PROVE  /\ IsFiniteSet(Beyond(r)) /\ Beyond(r) \subseteq V
                      /\ Cardinality(Beyond(r)) \in Nat
    OBVIOUS
  <2>1. Beyond(r) \subseteq V
    OBVIOUS
  <2> HIDE DEF V, Beyond
  <2> QED BY <1>1, <2>1, FS_Subset, FS_CardinalityType
<1>6. ASSUME NEW a \in V, NEW b \in Beyond(a) PROVE Rank(pin, b) < Rank(pin, a)
  <2>1. Beyond(b) \subseteq Beyond(a) /\ b \notin Beyond(b) /\ b \in V
    BY <1>2
  <2> HIDE DEF V, Beyond
  <2>2. /\ Cardinality(Beyond(b)) <= Cardinality(Beyond(a))
        /\ Cardinality(Beyond(b)) # Cardinality(Beyond(a))
    BY <1>5, <1>6, <2>1, FS_Subset
  <2> QED BY <1>4, <1>5, <2>1, <2>2
<1>7. ASSUME NEW r \in V PROVE Rank(pin, r) \in 0..(Total - 1)
  <2>1. r \notin Beyond(r)
    BY <1>2
  <2> HIDE DEF V, Beyond
  <2>2. Cardinality(Beyond(r)) <= Total /\ Cardinality(Beyond(r)) # Total
    BY <1>1, <1>5, <1>7, <2>1, FS_Subset
  <2> QED BY <1>1, <1>4, <1>5, <2>2
<1>8. ASSUME NEW r \in V, NEW q \in V, r # q PROVE Rank(pin, r) # Rank(pin, q)
  <2>1. r \in Beyond(q) \/ q \in Beyond(r)
    BY <1>2, <1>3, <1>8
  <2>2. Rank(pin, r) \in Int /\ Rank(pin, q) \in Int
    BY <1>7, <1>1
  <2> HIDE DEF V, Beyond
  <2> QED BY <1>6, <2>1, <2>2
<1>9. f \in Injection(V, 0..(Total - 1))
  <2> HIDE DEF V, Beyond
  <2>1. \A r \in V : f[r] = Rank(pin, r)
    OBVIOUS
  <2>2. f \in [V -> 0..(Total - 1)]
    BY <1>7
  <2>3. \A r, q \in V : f[r] = f[q] => r = q
    BY <1>8, <2>1
  <2> QED BY <2>2, <2>3 DEF Injection, IsInjective
<1>10. IsFiniteSet(0..(Total - 1)) /\ Cardinality(0..(Total - 1)) = Total
  BY <1>1, IntervalCount
<1>11. f \in Surjection(V, 0..(Total - 1))
  <2> HIDE DEF f, V
  <2> QED BY <1>1, <1>9, <1>10, FS_Injection
<1> QED
  BY <1>9, <1>11 DEF Bijection

LEMMA UptoCount ==
  ASSUME Typing, Ledger, pin \in Sha, NEW k \in Nat
  PROVE  /\ IsFiniteSet(Upto(k)) /\ Upto(k) \subseteq Visible(pin)
         /\ Cardinality(Upto(k)) = IF k < Total THEN k ELSE Total
<1> DEFINE V == Visible(pin)
           m == IF k < Total THEN k ELSE Total
           f == [r \in V |-> Rank(pin, r)]
           g == [r \in Upto(k) |-> Rank(pin, r)]
<1>1. IsFiniteSet(V) /\ Total \in Nat /\ m \in Nat /\ Upto(k) \subseteq V
  BY VisibleType DEF Upto
<1>2. /\ f \in [V -> 0..(Total - 1)]
      /\ \A a, b \in V : f[a] = f[b] => a = b
      /\ \A i \in 0..(Total - 1) : \E a \in V : f[a] = i
  BY RanksCount DEF Bijection, Injection, IsInjective, Surjection
<1> HIDE DEF V
<1>3. /\ \A r \in V : Rank(pin, r) \in 0..(Total - 1)
      /\ \A r, q \in V : Rank(pin, r) = Rank(pin, q) => r = q
      /\ \A i \in 0..(Total - 1) : \E r \in V : Rank(pin, r) = i
  <2>1. \A r \in V : f[r] = Rank(pin, r)
    OBVIOUS
  <2> HIDE DEF f
  <2> QED BY <1>2, <2>1
<1>3a. \A r : r \in Upto(k) <=> r \in V /\ Rank(pin, r) < k
  BY DEF Upto, V
<1>4. g \in Injection(Upto(k), 0..(m - 1))
  <2>1. \A r \in Upto(k) : Rank(pin, r) \in 0..(m - 1) /\ g[r] = Rank(pin, r)
    BY <1>1, <1>3, <1>3a
  <2>2. g \in [Upto(k) -> 0..(m - 1)]
    BY <2>1
  <2>3. \A r, q \in Upto(k) : g[r] = g[q] => r = q
    BY <1>3, <1>3a, <2>1
  <2> QED BY <2>2, <2>3 DEF Injection, IsInjective
<1>5. g \in Surjection(Upto(k), 0..(m - 1))
  <2>1. g \in [Upto(k) -> 0..(m - 1)]
    BY <1>4 DEF Injection, IsInjective
  <2>2. ASSUME NEW i \in 0..(m - 1) PROVE \E r \in Upto(k) : g[r] = i
    BY <1>1, <1>3, <1>3a
  <2> QED BY <2>1, <2>2 DEF Surjection
<1>6. IsFiniteSet(0..(m - 1)) /\ Cardinality(0..(m - 1)) = m
  <2> HIDE DEF m
  <2> QED BY <1>1, IntervalCount
<1>7. IsFiniteSet(Upto(k)) /\ Cardinality(Upto(k)) = m
  <2> HIDE DEF g, m
  <2> QED BY <1>4, <1>5, <1>6, FS_Injection
<1> QED BY <1>1, <1>7 DEF V, m

(* A page is the next PageSize ranks.                                      *)
LEMMA PageIsNext ==
  ASSUME Typing, Ledger, pin \in Sha, NEW p \in Nat \ {0}
  PROVE  /\ p * PageSize \in Nat /\ (p - 1) * PageSize \in Nat
         /\ p * PageSize = (p - 1) * PageSize + PageSize
         /\ Upto(p * PageSize) = Upto((p - 1) * PageSize) \cup Page(pin, p)
         /\ Upto((p - 1) * PageSize) \cap Page(pin, p) = {}
<1>0. PageSize \in Nat /\ PageSize > 0
  BY GitHubAssumption DEF GitHubAssumption
<1>1. /\ p * PageSize \in Nat /\ (p - 1) * PageSize \in Nat
      /\ p * PageSize = (p - 1) * PageSize + PageSize
  BY <1>0
<1>2. ASSUME NEW n \in Nat
      PROVE  /\ (n \div PageSize) \in Nat
             /\ (n \div PageSize) * PageSize <= n
             /\ n < (n \div PageSize) * PageSize + PageSize
  BY <1>0
<1>3. ASSUME NEW n \in Nat
      PROVE  n \div PageSize = p - 1 <=>
               (p - 1) * PageSize <= n /\ n < p * PageSize
  <2> DEFINE d == n \div PageSize
  <2>1. d \in Nat /\ d * PageSize <= n /\ n < d * PageSize + PageSize
    BY <1>2
  <2> HIDE DEF d
  <2>2. d >= p => d * PageSize >= p * PageSize
    BY <1>0, <2>1, TimesMonotone
  <2>3. d + 1 <= p - 1 => (d + 1) * PageSize <= (p - 1) * PageSize
    BY <1>0, <2>1, TimesMonotone
  <2>4. (d + 1) * PageSize = d * PageSize + PageSize /\ d * PageSize \in Int
    BY <1>0, <2>1
  <2>5. d = p - 1 <=> (p - 1) * PageSize <= n /\ n < p * PageSize
    BY <1>0, <1>1, <2>1, <2>2, <2>3, <2>4
  <2> QED BY <2>5 DEF d
<1>4. \A r \in Visible(pin) : Rank(pin, r) \in Nat
  <2>1. [r \in Visible(pin) |-> Rank(pin, r)] \in [Visible(pin) -> 0..(Total - 1)]
    BY RanksCount DEF Bijection, Injection, IsInjective
  <2> QED BY <2>1, VisibleType
<1>5. Page(pin, p) = {r \in Visible(pin) : (p - 1) * PageSize <= Rank(pin, r)
                                          /\ Rank(pin, r) < p * PageSize}
  BY <1>3, <1>4 DEF Page
<1> QED
  BY <1>0, <1>1, <1>4, <1>5 DEF Upto
-----------------------------------------------------------------------------
(* The clocks.                                                             *)
Clocked ==
  /\ quiet \in -1..2 /\ movedAt \in Nat /\ pinnedAt \in Nat
  /\ movedAt <= now /\ pinnedAt <= now /\ lastChange <= now
  /\ pc = "pin" => quiet = -1 /\ now = 0 /\ lastSig = {}
  /\ pc # "done" => pinnedAt <= lastChange

LEMMA TimingIsNext == [TimingNext]_TimingVars => [Next]_vars
  BY DEF TimingNext, TimingVars

LEMMA ClockTicks ==
  ASSUME Clocked, TimingNext
  PROVE  /\ quiet' \in -1..2
         /\ quiet' >= 0 => world' = world /\ (quiet' = quiet \/ PollBegins)
         /\ PollBegins /\ quiet' >= 1 => quiet >= 0
         /\ PollBegins /\ quiet' = 2 => quiet >= 1
         /\ pinnedAt' = IF pin' # pin THEN now ELSE pinnedAt
         /\ movedAt' = IF PinMoves THEN now ELSE movedAt
<1>1. quiet \in -1..2
  BY DEF Clocked
<1>2. Clock
  BY DEF TimingNext
<1> QED BY <1>1, <1>2 DEF Clock

(* Time passes in two places, and calls that failed stay so.               *)
LEMMA TimePasses ==
  ASSUME Typing, Next
  PROVE  /\ now \in Nat /\ now' \in Nat /\ now <= now'
         /\ now' # now => (Decide /\ pc' = "head") \/ (AfterRefused /\ pc' = "before")
         /\ faults \in Nat /\ (faults' = faults \/ faults' = faults + 1)
<1>1. TypeOK /\ GitHubTypeOK /\ now \in Nat /\ faults \in Nat
  BY DEF Typing, TypeOK, GitHubTypeOK
<1>2. faults' = faults \/ faults' = faults + 1
  BY DEF Next, Others, Environment, NewRun, Finish, Rerun, Push, MergeElsewhere,
         Watch, Pin, Head, ReadSuitesBefore, ReadPage, ReadSuitesAfter,
         ReadFailed, JudgeFirst, JudgeConfirm, Decide, Reread, CheckProtection, Attempt,
         MergeRecheck, MergeCall, AfterAccepted, AfterRefused, Fault, world
<1>3. CASE Decide
  <2>1. CASE now' = now
    BY <1>1, <1>2, <2>1
  <2>2. CASE now' # now
    <3>1. PICK f : /\ f = IF ~pollFailed THEN 0
                          ELSE IF fails < FailsCap THEN fails + 1 ELSE fails
                   /\ now' = now + Interval * BackOff(f) /\ pc' = "head"
      BY <1>3, <2>2 DEF Decide, Quit, Exit, Kept
    <3>2. f \in 0..FailsCap
      BY <1>1, <3>1 DEF TypeOK, FailsCap
    <3>3. BackOff(f) \in 1..8 /\ Interval \in Nat
      BY <3>2, BackOffType, WaitCiAssumption DEF WaitCiAssumption, ValidOptions
    <3>4. Interval * BackOff(f) \in Nat
      BY <3>3
    <3> QED BY <1>1, <1>2, <1>3, <3>1, <3>4
  <2> QED BY <2>1, <2>2
<1>4. CASE AfterRefused
  <2>1. now' = now \/ (now' = now + MergeRetryDelay /\ pc' = "before")
    BY <1>4 DEF AfterRefused, Attempt, AttributeMerge, Quit, Exit, Kept, StartRead
  <2>2. MergeRetryDelay \in Nat
    BY WaitCiAssumption DEF WaitCiAssumption, ValidOptions
  <2> QED BY <1>1, <1>2, <1>4, <2>1, <2>2
<1>5. CASE ~Decide /\ ~AfterRefused
  <2>1. now' = now
    BY <1>5 DEF Next, Others, watcher, Watch, Pin, Head, ReadSuitesBefore, ReadPage,
                ReadSuitesAfter, Reading, ReadFailed, JudgeFirst, JudgeConfirm, Judged,
                Reread, CheckProtection, Attempt, MergeRecheck, MergeCall, AfterAccepted,
                AttributeMerge, Quit, Kept
  <2> QED BY <1>1, <1>2, <2>1
<1> QED BY <1>3, <1>4, <1>5

(* Where the pin, the last signature and its time change.                  *)
Repins == /\ pc = "head" /\ pc' = "before" /\ WithPr /\ head # pin
          /\ pin' = head /\ lastSig' = {} /\ lastChange' = now /\ settleFp' = {}
          /\ UNCHANGED world

LEMMA WhatMoves ==
  ASSUME Typing, Next
  PROVE  /\ pin' = pin \/ Repins \/ (pc = "pin" /\ pc' = "head")
         /\ UNCHANGED <<lastSig, lastChange>> \/ Repins \/ JudgeFirst
         /\ pc # "pin" => pc' # "pin"
         /\ pc = "done" => pc' = "done"
         /\ pc = "pin" /\ pc' = "pin" => Others
<1>1. CASE Pin
  BY <1>1 DEF Pin, Quit, Exit, Kept, Fault
<1>2. CASE Head
  BY <1>2 DEF Head, Quit, Exit, Kept, StartRead, Forget, Repins
<1>3. CASE ReadSuitesBefore \/ ReadPage \/ ReadSuitesAfter
  BY <1>3 DEF ReadSuitesBefore, ReadPage, ReadSuitesAfter, Reading
<1>4. CASE ReadFailed \/ JudgeConfirm
  BY <1>4 DEF ReadFailed, JudgeConfirm, Judged
<1>5. CASE JudgeFirst
  BY <1>5 DEF JudgeFirst, StartRead
<1>6. CASE Decide \/ Reread
  BY <1>6 DEF Decide, Reread, Quit, Exit, Kept
<1>7. CASE CheckProtection \/ MergeRecheck
  BY <1>7 DEF CheckProtection, Attempt, MergeRecheck, Quit, Exit, Kept, StartRead
<1>8. CASE MergeCall \/ AfterAccepted \/ AfterRefused
  BY <1>8 DEF MergeCall, AfterAccepted, AfterRefused, Attempt, AttributeMerge, Quit, Exit, Kept, StartRead
<1>9. CASE Others
  BY <1>9 DEF Others, watcher
<1> QED
  BY <1>1, <1>2, <1>3, <1>4, <1>5, <1>6, <1>7, <1>8, <1>9 DEF Next, Watch

LEMMA InitClocked == TimingInit => Clocked
  BY DEF TimingInit, Init, Clocked

LEMMA ClockedNext ==
  ASSUME Typing, Typing', Clocked, [TimingNext]_TimingVars PROVE Clocked'
<1>1. CASE TimingNext
  <2>0. Next /\ lastChange \in Nat /\ lastChange' \in Nat
    BY <1>1 DEF TimingNext, Typing, TypeOK
  <2>1. /\ quiet' \in -1..2
        /\ pinnedAt' = IF pin' # pin THEN now ELSE pinnedAt
        /\ movedAt' = IF PinMoves THEN now ELSE movedAt
        /\ quiet' >= 0 => (quiet' = quiet \/ PollBegins)
    BY <1>1, ClockTicks
  <2>2. now \in Nat /\ now' \in Nat /\ now <= now'
    BY <2>0, TimePasses
  <2>3. /\ movedAt' \in Nat /\ pinnedAt' \in Nat /\ movedAt' <= now' /\ pinnedAt' <= now'
    BY <2>1, <2>2 DEF Clocked
  <2>4. lastChange' \in {lastChange, now} /\ lastChange' <= now'
    BY <2>0, <2>2, WhatMoves DEF Clocked, Repins, JudgeFirst, NoteChange
  <2>5. pc' = "pin" => quiet' = -1 /\ now' = 0 /\ lastSig' = {}
    <3>1. pc' = "pin" => pc = "pin" /\ Others
      BY <2>0, WhatMoves
    <3> QED BY <2>1, <3>1 DEF Others, watcher, Clocked, PollBegins
  <2>6. pc' # "done" => pinnedAt' <= lastChange'
    <3>1. CASE pin' = pin
      BY <2>0, <2>1, <2>2, <2>4, <3>1, WhatMoves DEF Clocked
    <3>2. CASE Repins
      BY <2>1, <2>2, <3>2 DEF Clocked, Repins
    <3>3. CASE pc = "pin" /\ pc' = "head"
      BY <2>0, <2>1, <3>3 DEF Clocked
    <3> QED BY <2>0, <3>1, <3>2, <3>3, WhatMoves
  <2> QED BY <2>1, <2>3, <2>4, <2>5, <2>6 DEF Clocked
<1>2. CASE UNCHANGED TimingVars
  BY <1>2 DEF TimingVars, clocks, vars, watcher, Clocked
<1> QED BY <1>1, <1>2

-----------------------------------------------------------------------------
(* "hung" is said in one place.                                            *)
Hung == <<3, "hung">>

LEMMA OnlyDecideHangs ==
  ASSUME Next, result' = Hung, result # Hung
  PROVE  /\ Decide /\ pc = "decide" /\ pc' = "done" /\ verdict = "pending"
         /\ now - lastChange >= HungAfter
         /\ UNCHANGED <<pin, now, lastChange, lastSig, world>>
<1> USE DEF Hung
<1>1. CASE Decide
  BY <1>1 DEF Decide, Quit, Exit, Kept
<1>2. ASSUME NEW code, NEW why, Quit(code, why), why # "hung" PROVE FALSE
  BY <1>2 DEF Quit, Exit
<1>3. ASSUME Pin PROVE FALSE
  BY <1>2, <1>3 DEF Pin
<1>4. ASSUME Head PROVE FALSE
  BY <1>2, <1>4 DEF Head
<1>5. ASSUME ReadSuitesBefore \/ ReadPage \/ ReadSuitesAfter PROVE FALSE
  BY <1>5 DEF ReadSuitesBefore, ReadPage, ReadSuitesAfter, Reading
<1>6. ASSUME ReadFailed \/ JudgeFirst \/ JudgeConfirm PROVE FALSE
  BY <1>6 DEF ReadFailed, JudgeFirst, JudgeConfirm, Judged
<1>7. ASSUME Reread PROVE FALSE
  BY <1>2, <1>7 DEF Reread, Exit
<1>8. ASSUME CheckProtection PROVE FALSE
  BY <1>2, <1>8 DEF CheckProtection, Attempt
<1>9. ASSUME MergeRecheck PROVE FALSE
  BY <1>2, <1>9 DEF MergeRecheck, Exit
<1>10. ASSUME MergeCall PROVE FALSE
  BY <1>10 DEF MergeCall
<1>11. ASSUME AfterAccepted \/ AfterRefused PROVE FALSE
  BY <1>2, <1>11 DEF AfterAccepted, AfterRefused, Attempt, AttributeMerge, Exit
<1>12. ASSUME Others PROVE FALSE
  BY <1>12 DEF Others, watcher
<1> QED
  BY <1>1, <1>3, <1>4, <1>5, <1>6, <1>7, <1>8, <1>9, <1>10, <1>11, <1>12 DEF Next, Watch

LEMMA DoneIsDone ==
  ASSUME Next, pc = "done" PROVE Others /\ UNCHANGED watcher /\ faults' = faults
  BY DEF Next, Others, Environment, NewRun, Finish, Rerun, Push, MergeElsewhere,
         Watch, Pin, Head, ReadSuitesBefore, ReadPage, ReadSuitesAfter,
         ReadFailed, JudgeFirst, JudgeConfirm, Decide, Reread, CheckProtection, Attempt,
         MergeRecheck, MergeCall, AfterAccepted, AfterRefused

HungAtThePin == HungIsAboutThePin /\ (result = Hung => pc = "done")

LEMMA HungAtThePinNext ==
  ASSUME Typing, Clocked, HungAtThePin, [TimingNext]_TimingVars PROVE HungAtThePin'
<1> SUFFICES ASSUME result' = Hung
             PROVE  now' - pinnedAt' >= HungAfter /\ pc' = "done"
  BY DEF HungAtThePin, HungIsAboutThePin, Hung
<1>0. /\ now \in Nat /\ lastChange \in Nat /\ pinnedAt \in Nat /\ HungAfter \in Nat
      /\ pc # "done" => pinnedAt <= lastChange
  BY WaitCiAssumption DEF Typing, TypeOK, Clocked, WaitCiAssumption, ValidOptions
<1>1. CASE TimingNext /\ pc = "done"
  <2>1. UNCHANGED watcher /\ pinnedAt' = IF pin' # pin THEN now ELSE pinnedAt
    BY <1>1, DoneIsDone, ClockTicks DEF TimingNext
  <2>2. UNCHANGED <<result, pc, now, pin>>
    BY <2>1 DEF watcher
  <2> QED BY <1>1, <2>1, <2>2 DEF HungAtThePin, HungIsAboutThePin, Hung
<1>2. CASE TimingNext /\ pc # "done"
  <2>1. result # Hung
    BY <1>2 DEF HungAtThePin
  <2>2. /\ pc' = "done" /\ now - lastChange >= HungAfter /\ UNCHANGED <<pin, now>>
    BY <1>2, <2>1, OnlyDecideHangs DEF TimingNext
  <2>3. pinnedAt' = pinnedAt
    BY <1>2, <2>2, ClockTicks
  <2> QED BY <1>0, <1>2, <2>2, <2>3
<1>3. CASE UNCHANGED TimingVars
  BY <1>3 DEF TimingVars, clocks, vars, watcher, HungAtThePin, HungIsAboutThePin, Hung
<1> QED BY <1>1, <1>2, <1>3

LEMMA InitHungAtThePin == TimingInit => HungAtThePin
<1> SUFFICES ASSUME TimingInit PROVE HungAtThePin
  OBVIOUS
<1>1. result = <<>>
  BY DEF TimingInit, Init
<1> QED BY <1>1 DEF HungAtThePin, HungIsAboutThePin, Hung

-----------------------------------------------------------------------------
(* What the watcher of WaitCi knows anyway.                                *)
Basics == Typing /\ Ledger /\ ReadSoFar

LEMMA BasicsInvariant == TimingSpec => [](Basics /\ Clocked)
<1>1. TimingInit => Basics /\ Clocked
  BY InitTyping, InitLedger, InitReadSoFar, InitClocked DEF TimingInit, Basics
<1>2. Basics /\ Clocked /\ [TimingNext]_TimingVars => Basics' /\ Clocked'
  <2> SUFFICES ASSUME Basics, Clocked, [TimingNext]_TimingVars PROVE Basics' /\ Clocked'
    OBVIOUS
  <2>1. [Next]_vars /\ Typing /\ Ledger /\ ReadSoFar
    BY TimingIsNext DEF Basics
  <2>2. Typing'
    BY <2>1, NextTyping
  <2>3. Ledger'
    BY <2>1, RunsEvolve
  <2>4. ReadSoFar'
    BY <2>1, <2>2, ReadSoFarNext
  <2>5. Clocked'
    BY <2>1, <2>2, ClockedNext
  <2> QED BY <2>2, <2>3, <2>4, <2>5 DEF Basics
<1> QED BY <1>1, <1>2, PTL DEF TimingSpec

(* A commit that was re-pinned gets the whole --hung-after for itself: no  *)
(* silence of the commit before it counts, whatever the options and        *)
(* however often the head moves.                                           *)
THEOREM HungCountsFromThePin == TimingSpec => []HungIsAboutThePin
<1>1. TimingInit => HungAtThePin
  BY InitHungAtThePin
<1>2. Basics /\ Clocked /\ HungAtThePin /\ [TimingNext]_TimingVars => HungAtThePin'
  BY HungAtThePinNext DEF Basics
<1>3. HungAtThePin => HungIsAboutThePin
  BY DEF HungAtThePin
<1> QED BY <1>1, <1>2, <1>3, BasicsInvariant, PTL DEF TimingSpec

-----------------------------------------------------------------------------
(* While GitHub is calm, a read is exact: after n pages it has the runs of *)
(* the first n * PageSize ranks, and at its end it is the whole commit.    *)
Calm == quiet >= 0 \/ (movedAt < now /\ faults = 0)

Whole == [before |-> suites[pin], after |-> suites[pin], counts |-> {Total},
          seen |-> Total, runs |-> Visible(pin)]

ReadExactly ==
  /\ pc = "before" => rd = EmptyRead /\ page = 1
  /\ pc = "page" => /\ rd.before = suites[pin] /\ rd.counts \subseteq {Total}
                    /\ rd.runs = Upto((page - 1) * PageSize)
                    /\ rd.seen = Cardinality(rd.runs)
  /\ pc = "after" => [rd EXCEPT !.after = suites[pin]] = Whole
  /\ pc = "judge" => \/ rc = 0 /\ rd = Whole
                     \/ rc = 2 /\ Total > PageSize * MaxRunPages

Exactly == IsReading /\ Calm => ReadExactly

(* A step after which GitHub is still calm, in the middle of a poll.       *)
LEMMA CalmBefore ==
  ASSUME Typing, Clocked, TimingNext, Calm', now' = now, ~PollBegins
  PROVE  /\ Calm /\ faults' = faults
         /\ pin \in Sha => runs'[pin] = runs[pin] /\ suites'[pin] = suites[pin]
<1>1. /\ quiet' >= 0 => world' = world /\ quiet' = quiet
      /\ movedAt' = IF PinMoves THEN now ELSE movedAt
  BY ClockTicks
<1>2. faults \in Nat /\ (faults' = faults \/ faults' = faults + 1)
  BY TimePasses DEF TimingNext
<1>3. now \in Nat /\ movedAt \in Nat
  BY DEF Typing, TypeOK, Clocked
<1>4. CASE quiet' >= 0
  BY <1>1, <1>4 DEF world, Calm
<1>5. CASE movedAt' < now' /\ faults' = 0
  <2>1. ~PinMoves
    BY <1>1, <1>3, <1>5
  <2>2. movedAt' = movedAt /\ faults' = faults
    BY <1>1, <1>2, <1>5, <2>1
  <2> QED BY <1>5, <2>1, <2>2 DEF Calm, PinMoves
<1> QED BY <1>4, <1>5 DEF Calm

(* What is said of the list stays as long as the list does.                *)
LEMMA SameList ==
  ASSUME pin' = pin, runs'[pin] = runs[pin], suites'[pin] = suites[pin]
  PROVE  /\ Visible(pin)' = Visible(pin) /\ Total' = Total /\ Whole' = Whole
         /\ \A n : Upto(n)' = Upto(n)
<1>1. Visible(pin)' = Visible(pin)
  BY DEF Visible
<1>2. Total' = Total
  BY <1>1 DEF Total
<1>3. \A r : Rank(pin, r)' = Rank(pin, r)
  BY <1>1 DEF Rank
<1>4. \A n : Upto(n)' = Upto(n)
  BY <1>1, <1>3 DEF Upto
<1> QED BY <1>1, <1>2, <1>4 DEF Whole

LEMMA PageExactly ==
  ASSUME Typing, Typing', Ledger, pc = "page", ReadExactly, ReadPage,
         faults' = faults, runs'[pin] = runs[pin], suites'[pin] = suites[pin]
  PROVE  ReadExactly'
<1> DEFINE chunk == Page(pin, page)
           seen == rd.seen + Cardinality(chunk)
           r2 == [rd EXCEPT !.counts = @ \cup {Total}, !.seen = seen,
                            !.runs = @ \cup chunk]
<1>0. /\ pin \in Sha /\ pin' = pin /\ page \in 1..MaxRunPages /\ rd \in Read
      /\ MaxRunPages \in Nat \ {0} /\ faults \in Nat /\ PageSize \in Nat \ {0}
      /\ GitHubTypeOK /\ FiniteRuns
  BY WaitCiAssumption, GitHubAssumption
     DEF Typing, TypeOK, GitHubTypeOK, ReadPage, Reading, WaitCiAssumption, ValidOptions,
         GitHubAssumption
<1>1. /\ rd' = r2
      /\ \/ /\ LastPage(chunk, Total, seen)
            /\ pc' = "after" /\ UNCHANGED <<page, rc>>
         \/ /\ ~LastPage(chunk, Total, seen) /\ MayTurn
            /\ page' = page + 1 /\ UNCHANGED <<pc, rc>>
         \/ /\ ~LastPage(chunk, Total, seen) /\ ~MayTurn
            /\ pc' = "judge" /\ rc' = 2
            /\ UNCHANGED page
  <2>1. ~Fault
    BY <1>0 DEF Fault
  <2> QED BY <2>1 DEF ReadPage, Total
<1>2. /\ page * PageSize \in Nat /\ (page - 1) * PageSize \in Nat
      /\ page * PageSize = (page - 1) * PageSize + PageSize
      /\ Upto(page * PageSize) = Upto((page - 1) * PageSize) \cup chunk
      /\ Upto((page - 1) * PageSize) \cap chunk = {}
  <2>1. page \in Nat \ {0}
    BY <1>0
  <2> HIDE DEF r2, seen
  <2>2. /\ page * PageSize \in Nat /\ (page - 1) * PageSize \in Nat
        /\ page * PageSize = (page - 1) * PageSize + PageSize
        /\ Upto(page * PageSize) = Upto((page - 1) * PageSize) \cup Page(pin, page)
        /\ Upto((page - 1) * PageSize) \cap Page(pin, page) = {}
    BY <1>0, <2>1, PageIsNext, Zenon
  <2> QED BY <2>2
<1>3. /\ rd.before = suites[pin] /\ rd.counts \subseteq {Total}
      /\ rd.runs = Upto((page - 1) * PageSize)
      /\ rd.seen = Cardinality(rd.runs)
  BY DEF ReadExactly
<1>4. /\ IsFiniteSet(Upto(page * PageSize)) /\ Upto(page * PageSize) \subseteq Visible(pin)
      /\ Cardinality(Upto(page * PageSize)) =
           IF page * PageSize < Total THEN page * PageSize ELSE Total
  BY <1>0, <1>2, UptoCount
<1>5. /\ IsFiniteSet(Upto((page - 1) * PageSize))
      /\ Cardinality(Upto((page - 1) * PageSize)) =
           IF (page - 1) * PageSize < Total THEN (page - 1) * PageSize ELSE Total
  BY <1>0, <1>2, UptoCount
<1>6. IsFiniteSet(chunk) /\ Cardinality(chunk) \in Nat /\ Total \in Nat /\ IsFiniteSet(Visible(pin))
  <2>1. chunk \subseteq Visible(pin) /\ IsFiniteSet(Visible(pin)) /\ Total \in Nat
    BY <1>0, VisibleType DEF Page
  <2> QED BY <2>1, FS_Subset, FS_CardinalityType
<1>7. Cardinality(Upto(page * PageSize)) = seen
  <2> HIDE DEF chunk
  <2>1. Cardinality(Upto((page - 1) * PageSize) \cup chunk) =
          Cardinality(Upto((page - 1) * PageSize)) + Cardinality(chunk)
            - Cardinality(Upto((page - 1) * PageSize) \cap chunk)
    BY <1>5, <1>6, FS_Union
  <2>2. Cardinality(Upto((page - 1) * PageSize) \cap chunk) = 0
    BY <1>2, FS_EmptySet
  <2>3. Cardinality(Upto((page - 1) * PageSize)) \in Nat
    BY <1>5, FS_CardinalityType
  <2> DEFINE before == Upto((page - 1) * PageSize)
             after  == Upto(page * PageSize)
  <2>4. after = before \cup chunk /\ rd.seen = Cardinality(before)
    BY <1>2, <1>3
  <2> HIDE DEF before, after
  <2>5. Cardinality(after) = Cardinality(before) + Cardinality(chunk)
    BY <1>6, <2>1, <2>2, <2>3, <2>4 DEF before
  <2> QED BY <2>4, <2>5 DEF after
<1>8. LastPage(chunk, Total, seen) => Upto(page * PageSize) = Visible(pin) /\ seen = Total
  <2> SUFFICES ASSUME LastPage(chunk, Total, seen)
               PROVE  Upto(page * PageSize) = Visible(pin) /\ seen = Total
    OBVIOUS
  <2>0. Cardinality(chunk) = seen - rd.seen /\ rd.seen \in Nat /\ seen \in Nat
    BY <1>0, <1>6 DEF Read
  <2>1. Cardinality(chunk) < PageSize \/ seen >= Total
    BY DEF LastPage
  <2> HIDE DEF seen, chunk
  <2>2. Cardinality(Upto(page * PageSize)) = Total
    BY <1>0, <1>2, <1>3, <1>4, <1>5, <1>6, <1>7, <2>0, <2>1
  <2>3. Upto(page * PageSize) = Visible(pin)
    BY <1>4, <1>6, <2>2, FS_Subset DEF Total
  <2> QED BY <1>7, <2>2, <2>3
<1>9. /\ rd'.before = rd.before /\ rd'.runs = Upto(page * PageSize)
      /\ rd'.counts = {Total} /\ rd'.seen = seen /\ rd'.after = rd.after
  BY <1>0, <1>1, <1>2, <1>3 DEF Read
<1>10. /\ Visible(pin)' = Visible(pin) /\ Total' = Total /\ Whole' = Whole
       /\ \A n : Upto(n)' = Upto(n)
  BY <1>0, SameList
<1> HIDE DEF chunk, seen, r2
<1>11. CASE pc' = "after"
  <2>1. LastPage(chunk, Total, seen)
    BY <1>1, <1>11
  <2>2. rd'.runs = Visible(pin) /\ rd'.seen = Total /\ rd'.counts = {Total} /\ rd'.before = suites[pin]
    BY <1>3, <1>8, <1>9, <2>1
  <2>3. rd' \in Read
    BY DEF Typing, TypeOK
  <2>4. [rd' EXCEPT !.after = suites[pin]] = Whole
    BY <2>2, <2>3 DEF Whole, Read
  <2> QED BY <1>0, <1>10, <1>11, <2>4 DEF ReadExactly
<1>12. CASE pc' = "page"
  <2>1. page' = page + 1 /\ page' - 1 = page
    BY <1>0, <1>1, <1>12
  <2> QED BY <1>0, <1>3, <1>7, <1>9, <1>10, <1>12, <2>1 DEF ReadExactly
<1>13. CASE pc' = "judge"
  <2>1. ~LastPage(chunk, Total, seen) /\ ~MayTurn /\ rc' = 2
    BY <1>1, <1>13
  <2>2. page = MaxRunPages /\ seen < Total
    BY <1>0, <1>4, <1>6, <1>7, <2>1, FS_CardinalityType DEF MayTurn, LastPage
  <2>3. PageSize * MaxRunPages < Total
    BY <1>0, <1>2, <1>4, <1>6, <1>7, <2>2
  <2> QED BY <1>0, <1>10, <1>13, <2>1, <2>3 DEF ReadExactly
<1> QED BY <1>1, <1>11, <1>12, <1>13

LEMMA SuitesExactly ==
  ASSUME Typing, Typing', ReadExactly, ReadSuitesBefore \/ ReadSuitesAfter,
         faults' = faults, runs'[pin] = runs[pin], suites'[pin] = suites[pin]
  PROVE  ReadExactly'
<1>0. /\ pc \in {"before", "after"} /\ pin \in Sha /\ pin' = pin /\ rd \in Read /\ page' = page
      /\ rd' \in Read /\ faults \in Nat /\ PageSize \in Nat /\ suites[pin] \in Nat
  BY GitHubAssumption
     DEF Typing, TypeOK, GitHubTypeOK, ReadSuitesBefore, ReadSuitesAfter, Reading,
         GitHubAssumption
<1>1. ~Fault
  BY <1>0 DEF Fault
<1>2. /\ Visible(pin)' = Visible(pin) /\ Total' = Total /\ Whole' = Whole
      /\ \A n : Upto(n)' = Upto(n)
  BY <1>0, SameList
<1>3. CASE ReadSuitesBefore
  <2>1. /\ pc' = "page" /\ rd' = [rd EXCEPT !.before = suites[pin]]
        /\ rd = EmptyRead /\ page = 1
    BY <1>1, <1>3 DEF ReadSuitesBefore, ReadExactly
  <2>2. /\ rd'.before = suites[pin] /\ rd'.counts = {} /\ rd'.runs = {} /\ rd'.seen = 0
    BY <2>1 DEF EmptyRead
  <2>3. Cardinality({}) = 0
    BY FS_EmptySet
  <2>4. (page' - 1) * PageSize = 0
    BY <1>0, <2>1
  <2>5. \A r \in Visible(pin) : Rank(pin, r) \in Nat
    <3>1. ASSUME NEW r \in Visible(pin) PROVE Rank(pin, r) \in Nat
      <4> DEFINE B == {q \in Visible(pin) : IF NewestFirst THEN q.id > r.id ELSE q.id < r.id}
      <4>1. B \subseteq Visible(pin) /\ IsFiniteSet(Visible(pin))
        BY <1>0, VisibleType
      <4>2. Cardinality(B) \in Nat
        <5> HIDE DEF B
        <5> QED BY <4>1, FS_Subset, FS_CardinalityType
      <4> QED BY <4>2 DEF Rank
    <3> QED BY <3>1
  <2>6. Upto(0) = {}
    BY <2>5 DEF Upto
  <2>7. Upto((page - 1) * PageSize)' = {}
    BY <1>2, <2>4, <2>6
  <2> QED BY <1>0, <1>2, <2>1, <2>2, <2>3, <2>7 DEF ReadExactly
<1>4. CASE ReadSuitesAfter
  <2>1. /\ pc' = "judge" /\ rc' = 0 /\ rd' = [rd EXCEPT !.after = suites[pin]] /\ pc = "after"
    BY <1>1, <1>4 DEF ReadSuitesAfter
  <2>2. rd' = Whole
    BY <2>1 DEF ReadExactly
  <2> QED BY <1>2, <2>1, <2>2 DEF ReadExactly
<1> QED BY <1>3, <1>4

LEMMA InitExactly == TimingInit => Exactly
  BY DEF TimingInit, Init, Exactly, IsReading

LEMMA ExactlyNext ==
  ASSUME Basics, Typing', Clocked, Exactly, [TimingNext]_TimingVars
  PROVE  Exactly'
<1>0. Typing /\ Ledger
  BY DEF Basics
<1>1. CASE TimingNext /\ StartRead(phase')
  BY <1>1 DEF StartRead, Exactly, ReadExactly, IsReading
<1>2. CASE TimingNext /\ (ReadSuitesBefore \/ ReadPage \/ ReadSuitesAfter)
  <2> SUFFICES ASSUME Calm' PROVE ReadExactly'
    BY DEF Exactly
  <2>1. /\ now' = now /\ pc \in {"before", "page", "after"} /\ IsReading /\ ~PollBegins
        /\ pin \in Sha
    BY <1>0, <1>2 DEF ReadSuitesBefore, ReadPage, ReadSuitesAfter, Reading, IsReading,
                      PollBegins, Typing, TypeOK
  <2>2. /\ Calm /\ faults' = faults /\ runs'[pin] = runs[pin] /\ suites'[pin] = suites[pin]
    BY <1>0, <1>2, <2>1, CalmBefore
  <2>3. ReadExactly
    BY <2>1, <2>2 DEF Exactly
  <2>4. CASE ReadPage
    BY <1>0, <2>2, <2>3, <2>4, PageExactly DEF ReadPage
  <2>5. CASE ReadSuitesBefore \/ ReadSuitesAfter
    BY <1>0, <2>2, <2>3, <2>5, SuitesExactly
  <2> QED BY <1>2, <2>4, <2>5
<1>3. CASE TimingNext /\ Others
  <2> SUFFICES ASSUME Calm', IsReading' PROVE ReadExactly'
    BY DEF Exactly
  <2>1. /\ UNCHANGED <<now, pc, pin, rd, page, rc>> /\ IsReading /\ ~PollBegins
        /\ pin \in Sha
    BY <1>0, <1>3 DEF Others, watcher, IsReading, PollBegins, Typing, TypeOK
  <2>2. /\ Calm /\ runs'[pin] = runs[pin] /\ suites'[pin] = suites[pin]
    BY <1>0, <1>3, <2>1, CalmBefore
  <2>3. ReadExactly
    BY <2>1, <2>2 DEF Exactly
  <2>4. /\ Total' = Total /\ Whole' = Whole /\ \A n : Upto(n)' = Upto(n)
    BY <2>1, <2>2, SameList
  <2> QED BY <2>1, <2>2, <2>3, <2>4 DEF ReadExactly
<1>4. CASE UNCHANGED TimingVars
  BY <1>4 DEF TimingVars, clocks, vars, world, watcher, Exactly, ReadExactly, IsReading,
              Calm, Whole, Total, Upto, Rank, Visible
<1>5. CASE TimingNext /\ pc' \notin {"before", "page", "after", "judge"}
  BY <1>5 DEF Exactly, IsReading
<1>6. ASSUME NEW code, NEW why, Quit(code, why) PROVE pc' = "done"
  BY <1>6 DEF Quit, Exit
<1>7. ASSUME Head PROVE StartRead(phase') \/ pc' = "done"
  BY <1>6, <1>7 DEF Head, StartRead
<1>8. ASSUME Pin \/ ReadFailed \/ JudgeFirst \/ JudgeConfirm
      PROVE  StartRead(phase') \/ pc' \in {"head", "decide", "done"}
  BY <1>6, <1>8 DEF Pin, ReadFailed, JudgeFirst, JudgeConfirm, StartRead
<1>9. ASSUME Decide \/ Reread \/ CheckProtection \/ MergeRecheck
      PROVE  StartRead(phase') \/ pc' \in {"head", "reread", "protect", "merge", "done"}
  BY <1>6, <1>9 DEF Decide, Reread, CheckProtection, Attempt, MergeRecheck, Exit, StartRead
<1>10. ASSUME MergeCall \/ AfterAccepted \/ AfterRefused
       PROVE  StartRead(phase') \/ pc' \in {"accepted", "refused", "done"}
  BY <1>6, <1>10 DEF MergeCall, AfterAccepted, AfterRefused, Attempt, AttributeMerge, Exit, StartRead
<1>11. TimingNext => \/ ReadSuitesBefore \/ ReadPage \/ ReadSuitesAfter \/ Others
                     \/ StartRead(phase')
                     \/ pc' \notin {"before", "page", "after", "judge"}
  BY <1>7, <1>8, <1>9, <1>10 DEF TimingNext, Next, Watch
<1> QED BY <1>1, <1>2, <1>3, <1>4, <1>5, <1>11

-----------------------------------------------------------------------------
(* What the last signature remembers: runs that were there, and that are   *)
(* still what they were if they had finished.                              *)
Remembers(R) ==
  R \subseteq CheckRun /\ \A r \in R : r.id < nextId /\ (r.completed => Final(r))

Recorded ==
  /\ lastSig # {} => pin \in Sha
  /\ \A g \in lastSig : Remembers(g[6])
  /\ \A r \in rd.runs : r.id < nextId

LEMMA RemembersStill ==
  ASSUME Typing, pin \in Sha, Evolves(pin), pin' = pin, nextId' \in Nat,
         NEW R, Remembers(R)
  PROVE  Remembers(R)'
<1>1. \A r \in R : r.completed => Final(r)'
  BY FinalStays DEF Remembers
<1>2. \A r \in R : r.id \in Nat
  BY DEF Remembers, CheckRun
<1>3. nextId \in Nat /\ nextId <= nextId'
  BY DEF Typing, TypeOK, GitHubTypeOK, Evolves
<1>4. \A r \in R : r.id < nextId'
  BY <1>2, <1>3 DEF Remembers
<1> QED BY <1>1, <1>4 DEF Remembers

(* What a step reads are runs of the pinned commit.                        *)
LEMMA OnlyRunsAreRead ==
  ASSUME Typing, Next
  PROVE  \/ rd'.runs = rd.runs \/ rd'.runs = {}
         \/ pin \in Sha /\ rd'.runs \subseteq rd.runs \cup runs[pin]
<1>1. CASE ReadSuitesBefore \/ ReadPage \/ ReadSuitesAfter
  <2>1. pin \in Sha /\ rd \in Read
    BY <1>1 DEF ReadSuitesBefore, ReadPage, ReadSuitesAfter, Typing, TypeOK
  <2>2. Page(pin, page) \subseteq runs[pin]
    BY DEF Page, Visible
  <2> QED BY <1>1, <2>1, <2>2 DEF ReadSuitesBefore, ReadPage, ReadSuitesAfter, Read
<1>2. CASE rd' = rd \/ rd' = EmptyRead
  BY <1>2 DEF EmptyRead
<1>3. ASSUME NEW code, NEW why, Quit(code, why) PROVE rd' = rd
  BY <1>3 DEF Quit, Kept
<1>4. ASSUME Pin \/ Head \/ ReadFailed \/ JudgeFirst \/ JudgeConfirm
      PROVE  rd' = rd \/ rd' = EmptyRead
  BY <1>3, <1>4 DEF Pin, Head, ReadFailed, JudgeFirst, JudgeConfirm, Judged, StartRead
<1>5. ASSUME Decide \/ Reread \/ CheckProtection \/ MergeRecheck
      PROVE  rd' = rd \/ rd' = EmptyRead
  BY <1>3, <1>5 DEF Decide, Reread, CheckProtection, Attempt, MergeRecheck, Kept, StartRead
<1>6. ASSUME MergeCall \/ AfterAccepted \/ AfterRefused
      PROVE  rd' = rd \/ rd' = EmptyRead
  BY <1>3, <1>6 DEF MergeCall, AfterAccepted, AfterRefused, Attempt, AttributeMerge, Kept, StartRead
<1>7. ASSUME Others PROVE rd' = rd
  BY <1>7 DEF Others, watcher
<1> QED BY <1>1, <1>2, <1>4, <1>5, <1>6, <1>7 DEF Next, Watch

LEMMA InitRecorded == TimingInit => Recorded
  BY DEF TimingInit, Init, Recorded, EmptyRead

LEMMA RecordedNext ==
  ASSUME Basics, Typing', Clocked, Recorded, [TimingNext]_TimingVars
  PROVE  Recorded'
<1>0. Typing /\ Ledger /\ ReadSoFar
  BY DEF Basics
<1>1. CASE TimingNext
  <2>0. Next /\ [Next]_vars
    BY <1>1 DEF TimingNext
  <2>1. /\ \A s \in Sha : Evolves(s)
        /\ nextId \in Nat /\ nextId' \in Nat /\ (pin \in Sha => nextId <= nextId')
    BY <1>0, <2>0, RunsEvolve DEF Typing, TypeOK, GitHubTypeOK, Evolves
  <2>2. \A r \in rd'.runs : r.id < nextId'
    <3>1. rd.runs \subseteq CheckRun /\ rd'.runs \subseteq CheckRun
      BY <1>0 DEF Typing, TypeOK, Read
    <3>2. pin \in Sha => \A r \in runs[pin] : r.id < nextId
      BY <1>0 DEF Ledger
    <3>3. \A r \in rd'.runs : r.id < nextId
      BY <1>0, <2>0, <3>2, OnlyRunsAreRead DEF Recorded
    <3>4. rd'.runs # {} => pin \in Sha
      BY <1>0, <2>0, OnlyRunsAreRead DEF ReadSoFar
    <3> QED BY <2>1, <3>1, <3>3, <3>4 DEF CheckRun
  <2>3. CASE UNCHANGED <<pin, lastSig>>
    <3>1. lastSig # {} => pin \in Sha
      BY DEF Recorded
    <3>2. ASSUME NEW g \in lastSig PROVE Remembers(g[6])'
      <4>1. Remembers(g[6]) /\ pin \in Sha /\ Evolves(pin)
        BY <2>1, <3>1, <3>2 DEF Recorded
      <4> DEFINE R == g[6]
      <4> HIDE DEF R
      <4>2. Remembers(R) => Remembers(R)'
        BY <1>0, <2>1, <2>3, <4>1, RemembersStill
      <4> QED BY <4>1, <4>2 DEF R
    <3> QED BY <2>2, <2>3, <3>1, <3>2 DEF Recorded
  <2>4. CASE lastSig' = {}
    BY <2>2, <2>4 DEF Recorded
  <2>5. CASE JudgeFirst
    <3>1. /\ pin' = pin /\ lastSig' = Signature(rd) /\ pin \in Sha
          /\ UNCHANGED <<runs, nextId>> /\ rd \in Read
      BY <1>0, <2>5 DEF JudgeFirst, NoteChange, Typing, TypeOK, world
    <3>2. \A g \in lastSig' : g[6] = rd.runs
      BY <3>1 DEF Signature
    <3>3. Remembers(rd.runs)
      BY <1>0, <3>1 DEF Remembers, Recorded, ReadSoFar, Read
    <3>4. \A R : Remembers(R) => Remembers(R)'
      BY <3>1 DEF Remembers, Final
    <3> QED BY <2>2, <3>1, <3>2, <3>3, <3>4 DEF Recorded
  <2>6. CASE pc = "pin" /\ pc' = "head"
    <3>1. lastSig' = lastSig /\ lastSig = {}
      BY <1>0, <2>0, <2>6, WhatMoves DEF Repins, JudgeFirst, Clocked
    <3> QED BY <2>4, <3>1
  <2> QED BY <1>0, <2>0, <2>3, <2>4, <2>5, <2>6, WhatMoves DEF Repins
<1>2. CASE UNCHANGED TimingVars
  BY <1>2 DEF TimingVars, vars, world, watcher, Recorded, Remembers, Final
<1> QED BY <1>1, <1>2

(* A commit that moves leaves behind every list that was ever read of it:  *)
(* a new id, or the end of a run that was unfinished in it.                *)
LEMMA MovedOn ==
  ASSUME Typing, Ledger, Next, PinMoves, NEW R, Remembers(R)
  PROVE  runs'[pin] # R
<1> USE GitHubAssumption DEF GitHubAssumption
<1>0. /\ pin \in Sha /\ nextId \in Nat /\ suites \in [Sha -> Nat]
      /\ runs \in [Sha -> SUBSET CheckRun]
      /\ runs'[pin] # runs[pin] \/ suites'[pin] # suites[pin]
  BY DEF Typing, TypeOK, GitHubTypeOK, PinMoves
<1>1. ASSUME NEW q \in runs'[pin], q.id = nextId PROVE runs'[pin] # R
  BY <1>0, <1>1 DEF Remembers
<1>2. CASE NewRun
  <2>1. PICK s \in {head, WantSha} \ {NoSha}, k \in Reported, n \in 0..1 :
          /\ runs' = [runs EXCEPT ![s] = @ \cup
               {[id |-> nextId, name |-> k.name, app |-> k.app,
                 suite |-> suites[s] + n, sound |-> k.sound,
                 completed |-> FALSE, conclusion |-> "none"]}]
          /\ suites' = [suites EXCEPT ![s] = suites[s] + n]
    BY <1>2 DEF NewRun
  <2>2. s = pin
    BY <1>0, <2>1
  <2> DEFINE r == [id |-> nextId, name |-> k.name, app |-> k.app,
                   suite |-> suites[s] + n, sound |-> k.sound,
                   completed |-> FALSE, conclusion |-> "none"]
  <2>3. r \in runs'[pin] /\ r.id = nextId
    BY <1>0, <2>1, <2>2
  <2> QED BY <1>1, <2>3
<1>3. CASE Finish
  <2>1. PICK s \in Sha : \E r \in runs[s], c \in Endings :
          /\ ~r.completed
          /\ runs' = [runs EXCEPT ![s] = (@ \ {r}) \cup
               {[r EXCEPT !.completed = TRUE, !.conclusion = c]}]
          /\ UNCHANGED suites
    BY <1>3 DEF Finish
  <2>2. PICK r \in runs[s], c \in Endings :
          /\ ~r.completed
          /\ runs' = [runs EXCEPT ![s] = (@ \ {r}) \cup
               {[r EXCEPT !.completed = TRUE, !.conclusion = c]}]
          /\ UNCHANGED suites
    BY <2>1
  <2>3. s = pin
    BY <1>0, <2>2
  <2> DEFINE q == [r EXCEPT !.completed = TRUE, !.conclusion = c]
  <2>4. r \in CheckRun
    BY <1>0
  <2>5. q.completed /\ q.id = r.id /\ q \in runs'[pin]
    BY <1>0, <2>2, <2>3, <2>4 DEF CheckRun
  <2>6. q \notin R
    BY <2>2, <2>3, <2>5 DEF Remembers, Final
  <2> QED BY <2>5, <2>6
<1>4. CASE Rerun
  <2>1. PICK s \in Sha : \E r \in runs[s] :
          /\ runs' = [runs EXCEPT ![s] = (@ \ {r}) \cup
               {[r EXCEPT !.id = nextId, !.completed = FALSE, !.conclusion = "none"]}]
          /\ UNCHANGED suites
    BY <1>4 DEF Rerun
  <2>2. PICK r \in runs[s] :
          /\ runs' = [runs EXCEPT ![s] = (@ \ {r}) \cup
               {[r EXCEPT !.id = nextId, !.completed = FALSE, !.conclusion = "none"]}]
          /\ UNCHANGED suites
    BY <2>1
  <2>3. s = pin /\ r \in CheckRun
    BY <1>0, <2>2
  <2> DEFINE q == [r EXCEPT !.id = nextId, !.completed = FALSE, !.conclusion = "none"]
  <2>4. q.id = nextId /\ q \in runs'[pin]
    BY <1>0, <2>2, <2>3 DEF CheckRun
  <2> QED BY <1>1, <2>4
<1>5. Watch => UNCHANGED <<runs, suites>>
  BY DEF Watch, Pin, Head, ReadSuitesBefore, ReadPage, ReadSuitesAfter,
         ReadFailed, JudgeFirst, JudgeConfirm, Decide, Reread, CheckProtection, Attempt,
         MergeRecheck, MergeCall, AfterAccepted, AfterRefused, Fault, world
<1>6. Push \/ MergeElsewhere => UNCHANGED <<runs, suites>>
  BY DEF Push, MergeElsewhere
<1> QED
  BY <1>0, <1>2, <1>3, <1>4, <1>5, <1>6 DEF Next, Others, Environment

(* Once the signature was last new, a commit that moved is no longer what  *)
(* the signature says.                                                     *)
Superseded == \A g \in lastSig : movedAt > lastChange => g[6] # runs[pin]

LEMMA SupersededNext ==
  ASSUME Basics, Clocked, Recorded, Superseded, [TimingNext]_TimingVars
  PROVE  Superseded'
<1>0. Typing /\ Ledger /\ now \in Nat /\ lastChange \in Nat /\ movedAt \in Nat /\ movedAt <= now
  BY DEF Basics, Clocked, Typing, TypeOK
<1>1. CASE TimingNext
  <2>0. Next /\ movedAt' = IF PinMoves THEN now ELSE movedAt
    BY <1>1, ClockTicks DEF TimingNext
  <2>1. CASE UNCHANGED <<pin, lastSig, lastChange>>
    <3> SUFFICES ASSUME NEW g \in lastSig, movedAt' > lastChange PROVE g[6] # runs'[pin]
      BY <2>1 DEF Superseded
    <3>1. pin \in Sha /\ Remembers(g[6])
      BY DEF Recorded
    <3>2. CASE PinMoves
      BY <1>0, <2>0, <3>1, <3>2, MovedOn
    <3>3. CASE ~PinMoves
      BY <2>0, <3>1, <3>3 DEF PinMoves, Superseded
    <3> QED BY <3>2, <3>3
  <2>2. CASE JudgeFirst
    <3>1. /\ UNCHANGED <<pin, runs, suites>> /\ lastSig' = Signature(rd)
          /\ lastChange' = IF Signature(rd) # lastSig THEN now ELSE lastChange
      BY <2>2 DEF JudgeFirst, NoteChange, world
    <3>2. movedAt' = movedAt
      BY <2>0, <3>1 DEF PinMoves
    <3>3. CASE Signature(rd) = lastSig
      BY <3>1, <3>2, <3>3 DEF Superseded
    <3>4. CASE Signature(rd) # lastSig
      BY <1>0, <3>1, <3>2, <3>4 DEF Superseded
    <3> QED BY <3>3, <3>4
  <2>3. CASE lastSig' = {}
    BY <2>3 DEF Superseded
  <2>4. CASE pc = "pin"
    BY <1>0, <2>0, <2>3, <2>4, WhatMoves DEF Clocked, Repins, JudgeFirst
  <2> QED BY <1>0, <2>0, <2>1, <2>2, <2>3, <2>4, WhatMoves DEF Repins
<1>2. CASE UNCHANGED TimingVars
  BY <1>2 DEF TimingVars, clocks, vars, world, watcher, Superseded
<1> QED BY <1>1, <1>2

(* The part of a poll after its first read.                                *)
FirstIsRead == (IsReading /\ phase = "confirm") \/ pc = "decide"

LEMMA AfterTheFirstRead ==
  ASSUME Typing, Next, FirstIsRead'
  PROVE  \/ JudgeFirst \/ ReadFailed
         \/ FirstIsRead /\ UNCHANGED <<now, pin, lastSig>> /\ ~PollBegins
<1> USE DEF FirstIsRead, IsReading, PollBegins
<1>1. ASSUME NEW code, NEW why, Quit(code, why) PROVE FALSE
  BY <1>1 DEF Quit, Exit
<1>2. ASSUME Pin \/ Head PROVE FALSE
  BY <1>1, <1>2 DEF Pin, Head, StartRead
<1>3. CASE ReadSuitesBefore \/ ReadPage \/ ReadSuitesAfter
  BY <1>3 DEF ReadSuitesBefore, ReadPage, ReadSuitesAfter, Reading
<1>4. CASE JudgeConfirm
  BY <1>4 DEF JudgeConfirm, Judged
<1>5. ASSUME Decide \/ Reread \/ CheckProtection \/ MergeRecheck PROVE FALSE
  BY <1>1, <1>5 DEF Decide, Reread, CheckProtection, Attempt, MergeRecheck, Exit, StartRead
<1>6. ASSUME MergeCall \/ AfterAccepted \/ AfterRefused PROVE FALSE
  BY <1>1, <1>6 DEF MergeCall, AfterAccepted, AfterRefused, Attempt, AttributeMerge, Exit, StartRead
<1>7. CASE Others
  BY <1>7 DEF Others, watcher
<1> QED BY <1>2, <1>3, <1>4, <1>5, <1>6, <1>7 DEF Next, Watch

(* A calm poll remembers the commit as it is.                              *)
Fits == Total <= PageSize * MaxRunPages

LastSeen ==
  Calm /\ FirstIsRead /\ Fits =>
    lastSig # {} /\ \A g \in lastSig : g[6] = Visible(pin)

LEMMA LastSeenNext ==
  ASSUME Basics, Clocked, Exactly, LastSeen, [TimingNext]_TimingVars
  PROVE  LastSeen'
<1>0. Typing
  BY DEF Basics
<1>1. CASE TimingNext
  <2> SUFFICES ASSUME Calm', FirstIsRead', Fits'
               PROVE  lastSig' # {} /\ \A g \in lastSig' : g[6] = Visible(pin)'
    BY DEF LastSeen
  <2>0. Next
    BY <1>1 DEF TimingNext
  <2>1. /\ UNCHANGED <<now, pin>> /\ ~PollBegins
    BY <1>0, <2>0, AfterTheFirstRead
       DEF JudgeFirst, ReadFailed, Judged, PollBegins
  <2>2. pin \in Sha
    <3>1. pc \notin {"pin", "done"}
      BY <1>0, <2>0, AfterTheFirstRead DEF JudgeFirst, ReadFailed, FirstIsRead, IsReading
    <3> QED BY <1>0, <3>1 DEF Typing, TypeOK
  <2>3. Calm /\ runs'[pin] = runs[pin] /\ suites'[pin] = suites[pin]
    BY <1>0, <1>1, <2>1, <2>2, CalmBefore
  <2>4. Visible(pin)' = Visible(pin) /\ Total' = Total
    BY <2>1, <2>3, SameList
  <2>5. CASE JudgeFirst
    <3>1. pc = "judge" /\ rc = 0 /\ IsReading /\ lastSig' = Signature(rd)
      BY <2>5 DEF JudgeFirst, NoteChange, IsReading
    <3>2. rd = Whole
      BY <2>3, <3>1 DEF Exactly, ReadExactly
    <3>3. rd.runs = Visible(pin)
      BY <3>2 DEF Whole
    <3> QED BY <2>4, <3>1, <3>3 DEF Signature
  <2>6. CASE ReadFailed
    <3>1. pc = "judge" /\ rc # 0 /\ IsReading
      BY <2>6 DEF ReadFailed, IsReading
    <3>2. rc = 2 /\ Total > PageSize * MaxRunPages
      BY <2>3, <3>1 DEF Exactly, ReadExactly
    <3>3. Total <= PageSize * MaxRunPages /\ Total \in Nat /\ PageSize * MaxRunPages \in Nat
      BY <1>0, <2>2, <2>4, VisibleType, GitHubAssumption, WaitCiAssumption
         DEF Fits, GitHubAssumption, WaitCiAssumption, ValidOptions
    <3> QED BY <3>2, <3>3
  <2>7. CASE FirstIsRead /\ lastSig' = lastSig
    <3>1. Fits
      BY <2>4 DEF Fits
    <3> QED BY <2>3, <2>4, <2>7, <3>1 DEF LastSeen
  <2> QED BY <1>0, <2>0, <2>5, <2>6, <2>7, AfterTheFirstRead
<1>2. CASE UNCHANGED TimingVars
  BY <1>2 DEF TimingVars, clocks, vars, world, watcher, LastSeen, Calm, FirstIsRead,
              IsReading, Fits, Total, Visible
<1> QED BY <1>1, <1>2

(* As long as no commit has more suites than the list shows and more runs  *)
(* than the pages hold.                                                    *)
Roomy ==
  /\ nextId \in 1..(MaxId + 1)
  /\ \A s \in Sha : suites[s] <= MaxSuites /\ \A r \in runs[s] : r.id >= 1

LEMMA RoomyNext ==
  ASSUME Typing, Roomy, [Next]_vars PROVE Roomy'
<1> USE GitHubAssumption DEF GitHubAssumption
<1>0. /\ nextId \in Nat /\ suites \in [Sha -> Nat] /\ head \in Sha
      /\ runs \in [Sha -> SUBSET CheckRun]
  BY DEF Typing, TypeOK, GitHubTypeOK
<1>1. CASE NewRun
  <2>1. PICK s \in {head, WantSha} \ {NoSha}, k \in Reported, n \in 0..1 :
          /\ nextId <= MaxId
          /\ suites[s] + n \in 1..MaxSuites
          /\ runs' = [runs EXCEPT ![s] = @ \cup
               {[id |-> nextId, name |-> k.name, app |-> k.app,
                 suite |-> suites[s] + n, sound |-> k.sound,
                 completed |-> FALSE, conclusion |-> "none"]}]
          /\ suites' = [suites EXCEPT ![s] = suites[s] + n]
          /\ nextId' = nextId + 1
    BY <1>1 DEF NewRun
  <2>2. s \in Sha
    BY <1>0
  <2>3. \A z \in Sha : suites'[z] <= MaxSuites
    BY <1>0, <2>1, <2>2 DEF Roomy
  <2>4. \A z \in Sha : \A r \in runs'[z] : r \in runs[z] \/ r.id = nextId
    BY <1>0, <2>1, <2>2
  <2> QED BY <1>0, <2>1, <2>3, <2>4 DEF Roomy
<1>2. CASE Finish
  <2>1. PICK s \in Sha : \E r \in runs[s], c \in Endings :
          /\ runs' = [runs EXCEPT ![s] = (@ \ {r}) \cup
               {[r EXCEPT !.completed = TRUE, !.conclusion = c]}]
          /\ UNCHANGED <<suites, nextId>>
    BY <1>2 DEF Finish
  <2>2. PICK r \in runs[s], c \in Endings :
          /\ runs' = [runs EXCEPT ![s] = (@ \ {r}) \cup
               {[r EXCEPT !.completed = TRUE, !.conclusion = c]}]
          /\ UNCHANGED <<suites, nextId>>
    BY <2>1
  <2>3. r \in CheckRun
    BY <1>0
  <2>4. \A z \in Sha : \A q \in runs'[z] : q \in runs[z] \/ (z = s /\ q.id = r.id)
    BY <1>0, <2>2, <2>3 DEF CheckRun
  <2> QED BY <2>2, <2>4 DEF Roomy
<1>3. CASE Rerun
  <2>1. PICK s \in Sha : \E r \in runs[s] :
          /\ nextId <= MaxId
          /\ runs' = [runs EXCEPT ![s] = (@ \ {r}) \cup
               {[r EXCEPT !.id = nextId, !.completed = FALSE, !.conclusion = "none"]}]
          /\ nextId' = nextId + 1 /\ UNCHANGED suites
    BY <1>3 DEF Rerun
  <2>2. PICK r \in runs[s] :
          /\ runs' = [runs EXCEPT ![s] = (@ \ {r}) \cup
               {[r EXCEPT !.id = nextId, !.completed = FALSE, !.conclusion = "none"]}]
    BY <2>1
  <2>3. r \in CheckRun
    BY <1>0
  <2>4. \A z \in Sha : \A q \in runs'[z] : q \in runs[z] \/ q.id = nextId
    BY <1>0, <2>2, <2>3 DEF CheckRun
  <2> QED BY <1>0, <2>1, <2>4 DEF Roomy
<1>4. CASE UNCHANGED <<runs, suites, nextId>>
  BY <1>4 DEF Roomy
<1>5. Watch => UNCHANGED <<runs, suites, nextId>>
  BY DEF Watch, Pin, Head, ReadSuitesBefore, ReadPage, ReadSuitesAfter,
         ReadFailed, JudgeFirst, JudgeConfirm, Decide, Reread, CheckProtection, Attempt,
         MergeRecheck, MergeCall, AfterAccepted, AfterRefused, Fault, world
<1> QED
  BY <1>1, <1>2, <1>3, <1>4, <1>5 DEF Next, Others, Environment, Push, MergeElsewhere,
                                      vars, world

LEMMA RoomyFits ==
  ASSUME Typing, Ledger, Roomy, pin \in Sha,
         MaxSuites <= SuiteCap, MaxId <= PageSize * MaxRunPages
  PROVE  Visible(pin) = runs[pin] /\ Fits
<1>0. /\ IsFiniteSet(runs[pin]) /\ runs[pin] \subseteq CheckRun
      /\ nextId \in Nat /\ MaxId \in Nat /\ suites[pin] \in Nat /\ MaxSuites \in Nat
      /\ SuiteCap \in Nat /\ PageSize * MaxRunPages \in Nat
  <2>1. IsFiniteSet(runs[pin]) /\ runs[pin] \subseteq CheckRun /\ suites[pin] \in Nat
    BY DEF Typing, TypeOK, GitHubTypeOK, FiniteRuns
  <2>2. nextId \in Nat /\ MaxId \in Nat /\ MaxSuites \in Nat /\ SuiteCap \in Nat
    BY GitHubAssumption, OptionsAssumption
       DEF Typing, TypeOK, GitHubTypeOK, GitHubAssumption, OptionsAssumption
  <2>3. PageSize \in Nat /\ MaxRunPages \in Nat
    BY GitHubAssumption, WaitCiAssumption
       DEF GitHubAssumption, WaitCiAssumption, ValidOptions
  <2>4. PageSize * MaxRunPages \in Nat
    BY <2>3
  <2> QED BY <2>1, <2>2, <2>4
<1>1. Visible(pin) = runs[pin]
  <2>1. \A r \in runs[pin] : r.suite \in Nat /\ r.suite >= 1
    BY <1>0 DEF Ledger, CheckRun
  <2>2. suites[pin] <= SuiteCap
    BY <1>0 DEF Roomy
  <2> QED BY <1>0, <2>1, <2>2 DEF Visible
<1>2. Cardinality(runs[pin]) <= MaxId
  <2> DEFINE f == [r \in runs[pin] |-> r.id]
  <2>1. \A r \in runs[pin] : r.id \in 1..MaxId
    BY <1>0 DEF Ledger, Roomy, CheckRun
  <2>2. \A r, q \in runs[pin] : f[r] = f[q] => r = q
    BY DEF Ledger
  <2>3. f \in [runs[pin] -> 1..MaxId]
    BY <2>1
  <2>4. f \in Injection(runs[pin], 1..MaxId)
    BY <2>2, <2>3 DEF Injection, IsInjective
  <2>5. IsFiniteSet(1..MaxId) /\ Cardinality(1..MaxId) = MaxId
    <3>1. 1 \in Int /\ MaxId \in Int
      BY <1>0
    <3>2. /\ IsFiniteSet(1..MaxId)
          /\ Cardinality(1..MaxId) = IF 1 > MaxId THEN 0 ELSE MaxId - 1 + 1
      BY <3>1, FS_Interval, Zenon
    <3> QED BY <1>0, <3>2
  <2> HIDE DEF f
  <2> QED BY <2>4, <2>5, FS_Injection
<1> QED BY <1>0, <1>1, <1>2, FS_CardinalityType DEF Fits, Total

HungIsTrue == HungMeansNothingChanged /\ (result = Hung => pc = "done")

LEMMA HungIsTrueNext ==
  ASSUME Basics, Clocked, Superseded, LastSeen, Roomy, HungIsTrue,
         [TimingNext]_TimingVars,
         MaxSuites <= SuiteCap, MaxId <= PageSize * MaxRunPages
  PROVE  HungIsTrue'
<1>0. /\ Typing /\ Ledger /\ now \in Nat /\ lastChange \in Nat /\ movedAt \in Nat
      /\ HungAfter \in Nat
  BY WaitCiAssumption DEF Basics, Typing, TypeOK, Clocked, WaitCiAssumption, ValidOptions
<1>1. CASE TimingNext /\ pc = "done"
  <2>1. /\ UNCHANGED watcher /\ faults' = faults
        /\ movedAt' = IF PinMoves THEN now ELSE movedAt
    BY <1>1, DoneIsDone, ClockTicks DEF TimingNext
  <2>2. UNCHANGED <<result, pc, now>>
    BY <2>1 DEF watcher
  <2> QED BY <1>0, <1>1, <2>1, <2>2 DEF HungIsTrue, HungMeansNothingChanged, Hung
<1>2. CASE TimingNext /\ pc # "done"
  <2> SUFFICES ASSUME result' = Hung
               PROVE  /\ pc' = "done"
                      /\ faults' = 0 => ~(now' - HungAfter < movedAt' /\ movedAt' < now')
    BY DEF HungIsTrue, HungMeansNothingChanged, Hung
  <2>1. result # Hung
    BY <1>2 DEF HungIsTrue
  <2>2. /\ pc = "decide" /\ pc' = "done" /\ now - lastChange >= HungAfter
        /\ UNCHANGED <<pin, now, lastChange, lastSig, world>>
    BY <1>2, <2>1, OnlyDecideHangs DEF TimingNext
  <2>3. movedAt' = movedAt /\ faults' = faults
    BY <1>2, <2>2, ClockTicks DEF PinMoves, world
  <2>4. ASSUME faults = 0, now - HungAfter < movedAt, movedAt < now PROVE FALSE
    <3>1. pin \in Sha
      BY <1>0, <2>2 DEF Typing, TypeOK
    <3>2. Visible(pin) = runs[pin] /\ Fits
      BY <1>0, <3>1, RoomyFits
    <3>3. Calm /\ FirstIsRead
      BY <2>2, <2>4 DEF Calm, FirstIsRead
    <3>4. PICK g \in lastSig : g[6] = runs[pin]
      BY <3>2, <3>3 DEF LastSeen
    <3>5. movedAt > lastChange
      BY <1>0, <2>2, <2>4
    <3> QED BY <3>4, <3>5 DEF Superseded
  <2> QED BY <2>2, <2>3, <2>4
<1>3. CASE UNCHANGED TimingVars
  BY <1>3 DEF TimingVars, clocks, vars, world, watcher, HungIsTrue,
              HungMeansNothingChanged, Hung
<1> QED BY <1>1, <1>2, <1>3

LEMMA InitHungIsTrue == TimingInit => HungIsTrue /\ Superseded /\ LastSeen /\ Roomy
<1> SUFFICES ASSUME TimingInit PROVE HungIsTrue /\ Superseded /\ LastSeen /\ Roomy
  OBVIOUS
<1>1. /\ result = <<>> /\ lastSig = {} /\ pc = "pin" /\ nextId = 1
      /\ \A s \in Sha : suites[s] = 0 /\ runs[s] = {}
  BY DEF TimingInit, Init, GitHubInit
<1>2. MaxId \in Nat /\ MaxSuites \in Nat
  BY GitHubAssumption DEF GitHubAssumption
<1>3. HungIsTrue
  BY <1>1 DEF HungIsTrue, HungMeansNothingChanged, Hung
<1>4. Superseded /\ LastSeen
  BY <1>1 DEF Superseded, LastSeen, FirstIsRead, IsReading
<1>5. Roomy
  BY <1>1, <1>2 DEF Roomy
<1> QED BY <1>3, <1>4, <1>5

LEMMA ExactlyInvariant == TimingSpec => [](Basics /\ Clocked /\ Exactly)
<1>1. TimingInit => Exactly
  BY InitExactly
<1>2. Basics /\ Basics' /\ Clocked /\ Exactly /\ [TimingNext]_TimingVars => Exactly'
  BY ExactlyNext DEF Basics
<1> QED BY <1>1, <1>2, BasicsInvariant, PTL DEF TimingSpec

(* As long as GitHub answers, "hung" means what the exit code says: in the *)
(* last --hung-after seconds no check and no suite of the commit changed.  *)
(* It is meant, and true, of commits one read can show: with more suites   *)
(* than the list goes back, or more runs than the pages hold, something    *)
(* may change that no read sees.                                           *)
THEOREM HungIsWhatItSays ==
  ASSUME MaxSuites <= SuiteCap, MaxId <= PageSize * MaxRunPages
  PROVE  TimingSpec => []HungMeansNothingChanged
<1> DEFINE Inv == Recorded /\ Superseded /\ LastSeen /\ Roomy /\ HungIsTrue
<1>1. TimingInit => Inv
  BY InitRecorded, InitHungIsTrue
<1>2. Basics /\ Basics' /\ Clocked /\ Exactly /\ Inv /\ [TimingNext]_TimingVars => Inv'
  <2> SUFFICES ASSUME Basics, Basics', Clocked, Exactly, Inv, [TimingNext]_TimingVars
               PROVE  Inv'
    OBVIOUS
  <2>1. Recorded'
    BY RecordedNext DEF Basics
  <2>2. Superseded' /\ LastSeen'
    BY SupersededNext, LastSeenNext
  <2>3. Roomy'
    BY RoomyNext, TimingIsNext DEF Basics
  <2>4. HungIsTrue'
    BY HungIsTrueNext
  <2> QED BY <2>1, <2>2, <2>3, <2>4
<1>3. Inv => HungMeansNothingChanged
  BY DEF HungIsTrue
<1> HIDE DEF Inv
<1> QED BY <1>1, <1>2, <1>3, ExactlyInvariant, PTL DEF TimingSpec

-----------------------------------------------------------------------------
(* The other half: what the two locks cost.  While GitHub is calm the pin  *)
(* is the head.                                                            *)
StillPinned == WithPr /\ quiet >= 0 /\ pc \notin {"pin", "done"} => head = pin

LEMMA CalmHead ==
  ASSUME Typing, PollBegins, Next, world' = world
  PROVE  /\ Head /\ StartRead("first")
         /\ \/ Repins
            \/ (WithPr => head = pin) /\ UNCHANGED <<pin, settleFp>>
<1>1. Head
  <2>1. ASSUME NEW code, NEW why, Quit(code, why) PROVE FALSE
    BY <2>1 DEF Quit, Exit, PollBegins
  <2>2. ~Others
    BY DEF Others, watcher, PollBegins
  <2> QED
    BY <2>1, <2>2 DEF PollBegins, Next, Watch, Pin, ReadSuitesBefore, ReadPage, ReadSuitesAfter,
         ReadFailed, JudgeFirst, JudgeConfirm, Decide, Reread, CheckProtection, Attempt,
         MergeRecheck, MergeCall, AfterAccepted, AfterRefused
<1>2. ~Fault
  BY DEF Fault, world, Typing, TypeOK, GitHubTypeOK
<1>3. ~Quit(4, "head-moved")
  BY DEF Quit, Exit, PollBegins
<1> QED BY <1>1, <1>2, <1>3 DEF Head, StartRead, Forget, Repins, PollBegins

LEMMA StillPinnedNext ==
  ASSUME Typing, Clocked, StillPinned, [TimingNext]_TimingVars
  PROVE  StillPinned' /\ (quiet' >= 0 /\ ~PollBegins /\ pc' # "done" => UNCHANGED pin)
<1>1. CASE TimingNext
  <2>0. Next
    BY <1>1 DEF TimingNext
  <2> SUFFICES ASSUME quiet' >= 0, pc' # "done"
               PROVE  /\ WithPr => head' = pin'
                      /\ ~PollBegins => pin' = pin
    BY DEF StillPinned
  <2>1. world' = world /\ head' = head
    BY <1>1, ClockTicks DEF world
  <2>2. CASE PollBegins
    BY <2>0, <2>1, <2>2, CalmHead DEF Repins
  <2>3. CASE ~PollBegins
    <3>1. quiet' = quiet
      BY <1>1, <2>3, ClockTicks
    <3>2. pc \notin {"pin", "done"}
      BY <2>0, <3>1, WhatMoves DEF Clocked
    <3>3. WithPr => head = pin
      BY <3>1, <3>2 DEF StillPinned
    <3>4. ~Repins
      BY <2>3 DEF Repins, PollBegins
    <3>5. pin' = pin
      BY <2>0, <3>2, <3>4, WhatMoves
    <3> QED BY <2>1, <2>3, <3>3, <3>5
  <2> QED BY <2>2, <2>3
<1>2. CASE UNCHANGED TimingVars
  BY <1>2 DEF TimingVars, clocks, vars, world, watcher, StillPinned
<1> QED BY <1>1, <1>2

(* A whole read of a plainly green commit is green.                        *)
LEMMA PlainlyWhole ==
  ASSUME Typing, Ledger, pin \in Sha, PlainlyGreen
  PROVE  /\ Evaluate(Whole) = "green" /\ Fits /\ Marks(runs[pin]) # {}
         /\ Whole.runs = runs[pin] /\ Fingerprint(Whole) = Marks(runs[pin])
         /\ Snapshot(Whole) = <<Marks(runs[pin]), suites[pin], suites[pin]>>
<1>0. runs[pin] \subseteq CheckRun /\ suites[pin] \in Nat /\ SuiteCap \in Nat
  BY OptionsAssumption DEF Typing, TypeOK, GitHubTypeOK, OptionsAssumption
<1>1. Visible(pin) = runs[pin]
  <2>1. \A r \in runs[pin] : r.suite \in Nat /\ r.suite >= 1
    BY <1>0 DEF Ledger, CheckRun
  <2> QED BY <1>0, <2>1 DEF Visible, PlainlyGreen
<1>2. Evaluate(Whole) = "green" /\ Fits
  BY <1>1 DEF PlainlyGreen, Whole, Total, Fits
<1>3. Whole.runs = runs[pin] /\ Whole.before = suites[pin] /\ Whole.after = suites[pin]
  BY <1>1 DEF Whole
<1>4. Fingerprint(Whole) = Marks(runs[pin])
  BY <1>3 DEF Fingerprint, Marks, MarkOf
<1>5. Whole.runs # {}
  BY <1>2 DEF Evaluate
<1>6. Marks(runs[pin]) # {}
  BY <1>3, <1>5 DEF Marks
<1> QED BY <1>2, <1>3, <1>4, <1>6 DEF Snapshot

(* How far a calm and green GitHub has brought the watcher.                *)
SoFar ==
  /\ IsReading /\ phase = "confirm" =>
       first = <<Marks(runs[pin]), suites[pin], suites[pin]>>
  /\ pc \in {"decide", "head"} => settleFp = Marks(runs[pin])
  /\ quiet >= 1 /\ IsReading /\ phase # "recheck" => settleFp = Marks(runs[pin])
  /\ quiet >= 1 /\ pc = "decide" => verdict = "green"
  /\ pc = "head" => quiet = 0
  /\ quiet = 2 => pc = "done"

QuietSoFar == quiet >= 0 /\ pin \in Sha /\ PlainlyGreen => SoFar

(* The rest of a poll that began in calm.                                  *)
LEMMA SoFarOn ==
  ASSUME Basics, Clocked, Exactly, TimingNext, SoFar, pin \in Sha, PlainlyGreen,
         quiet >= 0, quiet' = quiet, world' = world, pin' = pin, ~PollBegins
  PROVE  SoFar'
<1>0. Typing /\ Ledger /\ Calm /\ Next /\ UNCHANGED <<runs, suites>>
  BY DEF Basics, Calm, TimingNext, world
<1> DEFINE fp == Marks(runs[pin])
<1>1. /\ Evaluate(Whole) = "green" /\ Fits /\ fp # {}
      /\ Fingerprint(Whole) = fp /\ Snapshot(Whole) = <<fp, suites[pin], suites[pin]>>
  BY <1>0, PlainlyWhole
<1>2. fp' = fp
  BY <1>0
<1>3. pc = "judge" => rc = 0 /\ rd = Whole
  <2>1. Total \in Nat /\ PageSize * MaxRunPages \in Nat
    BY <1>0, VisibleType, GitHubAssumption, WaitCiAssumption
       DEF GitHubAssumption, WaitCiAssumption, ValidOptions
  <2> QED BY <1>0, <1>1, <2>1 DEF Exactly, ReadExactly, IsReading, Fits
<1> HIDE DEF fp
<1>4. /\ IsReading /\ phase = "confirm" => first = <<fp, suites[pin], suites[pin]>>
      /\ pc \in {"decide", "head"} => settleFp = fp
      /\ quiet >= 1 /\ IsReading /\ phase # "recheck" => settleFp = fp
      /\ quiet >= 1 /\ pc = "decide" => verdict = "green"
      /\ pc = "head" => quiet = 0
      /\ quiet = 2 => pc = "done"
  BY DEF SoFar, fp
<1>5. ASSUME /\ (IsReading /\ phase = "confirm")' => first' = <<fp, suites[pin], suites[pin]>>
             /\ pc' \in {"decide", "head"} => settleFp' = fp
             /\ quiet >= 1 /\ (IsReading /\ phase # "recheck")' => settleFp' = fp
             /\ quiet >= 1 /\ pc' = "decide" => verdict' = "green"
             /\ pc' = "head" => quiet = 0
             /\ quiet = 2 => pc' = "done"
      PROVE  SoFar'
  BY <1>0, <1>2, <1>5 DEF SoFar, fp
<1>6. CASE pc' = "done"
  BY <1>5, <1>6 DEF IsReading
<1>7. (pc # "done" /\ pc # "pin") \/ pc' = "done"
  BY <1>0, WhatMoves DEF Clocked
<1>8. CASE ReadSuitesBefore \/ ReadPage \/ ReadSuitesAfter
  <2>1. /\ pc \in {"before", "page", "after"} /\ pc' \in {"page", "after", "judge"}
        /\ UNCHANGED <<phase, first, settleFp>>
    BY <1>8 DEF ReadSuitesBefore, ReadPage, ReadSuitesAfter, Reading
  <2> QED BY <1>4, <1>5, <2>1 DEF IsReading
<1>9. ASSUME ReadFailed PROVE FALSE
  BY <1>3, <1>9 DEF ReadFailed
<1>10. CASE JudgeFirst
  <2>1. /\ pc = "judge" /\ phase = "first" /\ IsReading
        /\ first' = Snapshot(rd) /\ StartRead("confirm") /\ settleFp' = settleFp
    BY <1>1, <1>3, <1>10 DEF JudgeFirst, IsReading
  <2> QED BY <1>1, <1>3, <1>4, <1>5, <2>1 DEF StartRead, IsReading
<1>11. CASE JudgeConfirm
  <2>1. pc = "judge" /\ phase = "confirm" /\ IsReading /\ pc' = "decide"
    BY <1>11 DEF JudgeConfirm, IsReading
  <2>2. Confirmed
    BY <1>1, <1>3, <1>4, <2>1 DEF Confirmed
  <2>3. settleFp' = fp /\ verdict' = IF Settled THEN "green" ELSE "pending"
    BY <1>1, <1>3, <1>11, <2>1, <2>2 DEF JudgeConfirm
  <2>4. quiet >= 1 => Settled
    BY <1>1, <1>3, <1>4, <2>1 DEF Settled
  <2> QED BY <1>4, <1>5, <2>1, <2>3, <2>4 DEF IsReading
<1>12. CASE Decide
  <2>1. /\ pc = "decide" /\ settleFp' = settleFp
        /\ pc' \in {"done", "reread"} \/ (pc' = "head" /\ verdict = "pending")
    BY <1>12 DEF Decide, Quit, Exit, Kept
  <2>2. quiet \in -1..2
    BY DEF Clocked
  <2> QED BY <1>4, <1>5, <1>6, <2>1, <2>2 DEF IsReading
<1>13. CASE Head
  <2>1. pc' = "done"
    BY <1>13 DEF Head, Quit, Exit, StartRead, PollBegins
  <2> QED BY <1>6, <2>1
<1>14. CASE Pin
  BY <1>6, <1>7, <1>14 DEF Pin
<1>15. CASE Reread \/ CheckProtection \/ MergeRecheck
  <2>1. /\ pc' \in {"done", "protect", "merge"} \/ (pc' = "before" /\ phase' = "recheck")
        /\ pc # "done"
    BY <1>15 DEF Reread, CheckProtection, Attempt, MergeRecheck, Quit, Exit, StartRead
  <2> QED BY <1>4, <1>5, <2>1 DEF IsReading
<1>16. CASE MergeCall \/ AfterAccepted \/ AfterRefused
  <2>1. /\ pc' \in {"done", "accepted", "refused"} \/ (pc' = "before" /\ phase' = "recheck")
        /\ pc # "done"
    BY <1>16 DEF MergeCall, AfterAccepted, AfterRefused, Attempt, AttributeMerge, Quit, Exit, StartRead
  <2> QED BY <1>4, <1>5, <2>1 DEF IsReading
<1>17. CASE Others
  <2>1. UNCHANGED <<pc, phase, first, settleFp, verdict>>
    BY <1>17 DEF Others, watcher
  <2> QED BY <1>4, <1>5, <2>1 DEF IsReading
<1> QED
  BY <1>0, <1>8, <1>9, <1>10, <1>11, <1>12, <1>13, <1>14, <1>15, <1>16, <1>17 DEF Next, Watch

LEMMA QuietSoFarNext ==
  ASSUME Basics, Clocked, Exactly, StillPinned, QuietSoFar, [TimingNext]_TimingVars
  PROVE  QuietSoFar'
<1>0. Typing
  BY DEF Basics
<1>1. CASE TimingNext
  <2> SUFFICES ASSUME quiet' >= 0, pin' \in Sha, PlainlyGreen' PROVE SoFar'
    BY DEF QuietSoFar
  <2>0. Next
    BY <1>1 DEF TimingNext
  <2>1. world' = world /\ (quiet' = quiet \/ PollBegins)
    BY <1>1, ClockTicks
  <2>2. UNCHANGED <<head, runs, suites>>
    BY <2>1 DEF world
  <2>3. CASE PollBegins
    <3>1. pc = "head" /\ pc' = "before" /\ phase' = "first"
      BY <1>0, <2>0, <2>1, <2>3, CalmHead DEF PollBegins, StartRead
    <3>2. CASE quiet' = 0
      BY <3>1, <3>2 DEF SoFar, IsReading
    <3>3. CASE quiet' # 0
      <4>1. quiet >= 0 /\ quiet' \in {1, 2} /\ (quiet' = 2 => quiet >= 1)
        BY <1>1, <2>3, <3>3, ClockTicks
      <4>2. WithPr => head = pin
        BY <3>1, <4>1 DEF StillPinned
      <4>3. UNCHANGED <<pin, settleFp>>
        BY <1>0, <2>0, <2>1, <2>3, <4>2, CalmHead DEF Repins
      <4>4. PlainlyGreen /\ pin \in Sha
        BY <2>2, <4>3 DEF PlainlyGreen
      <4>5. SoFar
        BY <4>1, <4>4 DEF QuietSoFar
      <4>6. quiet = 0 /\ settleFp = Marks(runs[pin])
        BY <3>1, <4>5 DEF SoFar
      <4> QED BY <2>2, <3>1, <4>1, <4>3, <4>6 DEF SoFar, IsReading, Marks
    <3> QED BY <3>2, <3>3
  <2>4. CASE ~PollBegins
    <3>1. CASE pc' = "done"
      BY <3>1 DEF SoFar, IsReading
    <3>2. CASE pc' # "done"
      <4>1. quiet' = quiet /\ pin' = pin
        BY <1>0, <2>1, <2>4, <3>2, StillPinnedNext
      <4>2. PlainlyGreen /\ pin \in Sha
        BY <2>2, <4>1 DEF PlainlyGreen
      <4>3. SoFar
        BY <4>1, <4>2 DEF QuietSoFar
      <4> QED BY <1>1, <2>1, <2>4, <4>1, <4>2, <4>3, SoFarOn
    <3> QED BY <3>1, <3>2
  <2> QED BY <2>3, <2>4
<1>2. CASE UNCHANGED TimingVars
  BY <1>2 DEF TimingVars, clocks, vars, world, watcher, QuietSoFar, SoFar, PlainlyGreen,
              IsReading, Marks
<1> QED BY <1>1, <1>2

(* The two locks against false greens (the confirming read, the settle     *)
(* rule) never cost more than two polls: once GitHub has been calm and     *)
(* green for two whole polls the script no longer waits.                   *)
THEOREM GreenIsNotMissed == TimingSpec => []QuietGreenIsNotMissed
<1> DEFINE Inv == StillPinned /\ QuietSoFar
<1>1. TimingInit => Inv
  BY DEF TimingInit, StillPinned, QuietSoFar
<1>2. Basics /\ Clocked /\ Exactly /\ Inv /\ [TimingNext]_TimingVars => Inv'
  BY StillPinnedNext, QuietSoFarNext DEF Basics
<1>3. Basics /\ Clocked /\ Inv => QuietGreenIsNotMissed
  <2> SUFFICES ASSUME Basics, Clocked, Inv, pc # "done", quiet = 2, PlainlyGreen PROVE FALSE
    BY DEF QuietGreenIsNotMissed
  <2>1. pin \in Sha
    BY DEF Basics, Clocked, Typing, TypeOK
  <2> QED BY <2>1 DEF QuietSoFar, SoFar
<1> HIDE DEF Inv
<1> QED BY <1>1, <1>2, <1>3, ExactlyInvariant, PTL DEF TimingSpec

=============================================================================
