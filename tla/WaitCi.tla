------------------------------- MODULE WaitCi -------------------------------
(***************************************************************************)
(* scripts/wait-ci.sh: the watcher that pins one commit, polls its check   *)
(* runs until they settle green, and may then squash-merge exactly that    *)
(* commit.  One action per gh call (GitHub may change between any two of   *)
(* them) and one per stretch of the script between two calls.  Time passes *)
(* only in nap, so the t of a poll is the value of now.                    *)
(***************************************************************************)
EXTENDS GitHub

CONSTANTS
  WithPr,             \* --pr was given
  OnPush,             \* --on-push: "abort" or "reset"
  Timeout, HungAfter, Interval,
  Merge, RequireProtection, MergeRetries, MergeRetryDelay,
  MaxRunPages         \* MAX_RUN_PAGES

(* The ranges need_num accepts, and the combinations that are not usage    *)
(* errors.                                                                 *)
ValidOptions ==
  /\ {WithPr, Merge, RequireProtection} \subseteq BOOLEAN
  /\ OnPush \in {"abort", "reset"}
  /\ {Timeout, HungAfter, Interval, MaxRunPages} \subseteq Nat \ {0}
  /\ {MergeRetries, MergeRetryDelay} \subseteq Nat
  /\ WithPr \/ WantSha # NoSha
  /\ Merge => WithPr

ASSUME WaitCiAssumption == ValidOptions

VARIABLES
  pc,         \* the call the script makes next
  phase,      \* which read is under way: "first", "confirm" or "recheck"
  page, rd,   \* that read: the page asked for next, and what came so far
  rc,         \* what read_world returned
  pin,        \* the commit every verdict is about
  first,      \* the first read of the poll: fingerprint and suite counts
  verdict,
  settleFp,   \* settle_fp: {} stands for the empty string
  settled,    \* <<settled_a, settled_b>>
  lastSig,    \* last_sig: {} stands for the empty string
  now, lastChange, pollFailed, fails,
  attempt,    \* merge attempts made
  policy,     \* the last merge call failed with a policy block
  verified, claim,  \* the outputs sha and merged
  result      \* <<exit code, the output result>>, or <<>> while running

watcher == <<pc, phase, page, rd, rc, pin, first, verdict, settleFp, settled,
             lastSig, now, lastChange, pollFailed, fails, attempt, policy,
             verified, claim, result>>
vars == <<world, watcher>>

FailsCap == 4        \* beyond four the back-off no longer grows
Verdict == {"pending", "green", "red", "other-red"}
EmptyRead == [before |-> Unreadable, after |-> Unreadable,
              counts |-> {}, seen |-> 0, runs |-> {}]

Init ==
  /\ GitHubInit
  /\ pc = "pin" /\ phase = "first" /\ page = 1 /\ rd = EmptyRead /\ rc = 0
  /\ pin = NoSha /\ first = <<>> /\ verdict = "pending"
  /\ settleFp = {} /\ settled = <<>> /\ lastSig = {}
  /\ now = 0 /\ lastChange = 0 /\ pollFailed = FALSE /\ fails = 0
  /\ attempt = 0 /\ policy = FALSE
  /\ verified = NoSha /\ claim = FALSE /\ result = <<>>

(* What stays when the script exits, and what stays within a read.         *)
Kept == <<phase, page, rd, rc, pin, first, settleFp, settled, lastSig, now,
          lastChange, pollFailed, fails, attempt, policy>>

Exit(code, why) == pc' = "done" /\ result' = <<code, why>>

Quit(code, why) ==
  /\ Exit(code, why)
  /\ UNCHANGED <<Kept, verdict, verified, claim>>

StartRead(which) == pc' = "before" /\ phase' = which /\ rd' = EmptyRead /\ page' = 1

-----------------------------------------------------------------------------
(* Pinning: the head is read once; an explicit --sha must be that head.    *)
Pin ==
  /\ pc = "pin"
  /\ \/ /\ WithPr /\ Fault
        /\ Quit(1, "error")
     \/ /\ WithPr /\ WantSha \notin {NoSha, head}
        /\ Quit(4, "head-moved")
        /\ UNCHANGED world
     \/ /\ ~WithPr \/ WantSha \in {NoSha, head}
        /\ pc' = "head"
        /\ pin' = IF WithPr THEN head ELSE WantSha
        /\ UNCHANGED <<world, phase, page, rd, rc, first, verdict, settleFp,
             settled, lastSig, now, lastChange, pollFailed, fails, attempt,
             policy, verified, claim, result>>

-----------------------------------------------------------------------------
(* The top of the poll loop: the head first.                               *)
MayFollow_ShaIgnored == OnPush = "reset"

MayFollow == OnPush = "reset" /\ WantSha = NoSha

(* What a re-pin forgets, so that nothing of the old commit is compared    *)
(* with the new one.                                                       *)
Forget_ClockKept == lastSig' = {} /\ settleFp' = {} /\ UNCHANGED lastChange
Forget == lastSig' = {} /\ lastChange' = now /\ settleFp' = {}

Head ==
  /\ pc = "head"
  /\ \/ /\ WithPr /\ head # pin /\ ~MayFollow
        /\ Quit(4, "head-moved")
        /\ UNCHANGED world
     \/ /\ WithPr /\ head # pin /\ MayFollow
        /\ pin' = head /\ pollFailed' = FALSE
        /\ Forget
        /\ StartRead("first")
        /\ UNCHANGED <<world, rc, first, verdict, settled, now, fails,
             attempt, policy, verified, claim, result>>
     \/ /\ \/ (~WithPr \/ head = pin) /\ pollFailed' = FALSE /\ UNCHANGED world
           \/ WithPr /\ Fault /\ pollFailed' = TRUE
        /\ StartRead("first")
        /\ UNCHANGED <<rc, pin, first, verdict, settleFp, settled, lastSig,
             now, lastChange, fails, attempt, policy, verified, claim, result>>

-----------------------------------------------------------------------------
(* read_world: the suite count, the pages, the suite count again.          *)
Reading == <<phase, pin, first, verdict, settleFp, settled, lastSig, now,
             lastChange, pollFailed, fails, attempt, policy, verified, claim,
             result>>

ReadSuitesBefore ==
  /\ pc = "before"
  /\ \/ rd' = [rd EXCEPT !.before = suites[pin]] /\ UNCHANGED world
     \/ rd' = rd /\ Fault
  /\ pc' = "page"
  /\ UNCHANGED <<page, rc, Reading>>

(* Pages are asked for one by one, MaxRunPages at most; the last one is    *)
(* short, or reaches the total.                                            *)
MayTurn_OneTooMany == page <= MaxRunPages
MayTurn == page < MaxRunPages

LastPage(chunk, total, seen) == Cardinality(chunk) < PageSize \/ seen >= total

ReadPage ==
  /\ pc = "page"
  /\ \/ LET chunk == Page(pin, page)
            total == Cardinality(Visible(pin))
            seen  == rd.seen + Cardinality(chunk)
        IN
        /\ rd' = [rd EXCEPT !.counts = @ \cup {total}, !.seen = seen,
                            !.runs = @ \cup chunk]
        /\ UNCHANGED world
        /\ \/ /\ LastPage(chunk, total, seen)
              /\ pc' = "after"
              /\ UNCHANGED <<page, rc>>
           \/ /\ ~LastPage(chunk, total, seen) /\ MayTurn
              /\ page' = page + 1
              /\ UNCHANGED <<pc, rc>>
           \/ /\ ~LastPage(chunk, total, seen) /\ ~MayTurn
              /\ pc' = "judge" /\ rc' = 2
              /\ UNCHANGED page
     \/ /\ Fault
        /\ pc' = "judge" /\ rc' = 1
        /\ UNCHANGED <<rd, page>>
  /\ UNCHANGED Reading

ReadSuitesAfter ==
  /\ pc = "after"
  /\ \/ rd' = [rd EXCEPT !.after = suites[pin]] /\ UNCHANGED world
     \/ rd' = rd /\ Fault
  /\ pc' = "judge" /\ rc' = 0
  /\ UNCHANGED <<page, Reading>>

SuiteCallFailed == Unreadable \in {rd.before, rd.after}

-----------------------------------------------------------------------------
(* The rest of a poll, up to its verdict.                                  *)
Judged == <<page, rd, rc, pin, now, fails, attempt, policy, verified, claim,
            result>>

(* The call failed, or the list needs too many pages.  Only the latter     *)
(* forgets the settled read.                                               *)
ReadFailed ==
  /\ pc = "judge" /\ phase = "first" /\ rc # 0
  /\ pc' = "decide" /\ verdict' = "pending" /\ pollFailed' = TRUE
  /\ settleFp' = IF rc = 2 THEN {} ELSE settleFp
  /\ UNCHANGED <<world, phase, first, settled, lastSig, lastChange, Judged>>

(* The fingerprint a poll is compared with, and how two reads of one poll  *)
(* must agree.                                                             *)
Snapshot(r) == <<Fingerprint(r), r.before, r.after>>

Signature_CountsOnly(r) == {<<pin, r.before, r.after, r.counts, r.seen>>}
Signature(r) == {<<pin, r.before, r.after, r.counts, r.seen, r.runs>>}

(* The signature of a poll is that of its first read; the script compares  *)
(* it with the last one at the end of the poll, and nothing reads it in    *)
(* between.                                                                *)
NoteChange ==
  /\ lastSig' = Signature(rd)
  /\ lastChange' = IF Signature(rd) # lastSig THEN now ELSE lastChange

JudgeFirst ==
  /\ pc = "judge" /\ phase = "first" /\ rc = 0
  /\ NoteChange
  /\ pollFailed' = (pollFailed \/ SuiteCallFailed)
  /\ IF Evaluate(rd) = "green"
     THEN /\ first' = Snapshot(rd)
          /\ StartRead("confirm")
          /\ UNCHANGED <<verdict, settleFp, rc>>
     ELSE /\ verdict' = Evaluate(rd) /\ settleFp' = {}
          /\ pc' = "decide"
          /\ UNCHANGED <<phase, page, rd, rc, first>>
  /\ UNCHANGED <<world, pin, settled, now, fails, attempt, policy, verified,
                 claim, result>>

(* The confirming read must be whole, green, and equal to the first.       *)
Confirmed == rc = 0 /\ Evaluate(rd) = "green" /\ Snapshot(rd) = first

(* Settle rule: green counts when the poll before read the same runs.      *)
Settled_AtOnce == TRUE
Settled_Differs == settleFp # {} /\ settleFp # Fingerprint(rd)
Settled == settleFp # {} /\ settleFp = Fingerprint(rd)

JudgeConfirm ==
  /\ pc = "judge" /\ phase = "confirm"
  /\ pollFailed' = (pollFailed \/ rc # 0 \/ SuiteCallFailed)
  /\ pc' = "decide"
  /\ \/ /\ Confirmed
        /\ settled' = <<rd.before, rd.after>>
        /\ settleFp' = Fingerprint(rd)
        /\ verdict' = IF Settled THEN "green" ELSE "pending"
     \/ /\ ~Confirmed
        /\ verdict' = IF rc = 0 /\ Evaluate(rd) # "green" THEN Evaluate(rd)
                                                          ELSE "pending"
        /\ settleFp' = {}
        /\ UNCHANGED settled
  /\ UNCHANGED <<world, phase, first, lastSig, lastChange, Judged>>

(* The end of a poll: an exit, or a nap that backs off after failures.     *)
BackOff_FromZero(f) == 2 * f
BackOff(f) == CASE f <= 1 -> 1 [] f = 2 -> 2 [] f = 3 -> 4 [] f >= 4 -> 8

Decide ==
  /\ pc = "decide"
  /\ \/ verdict = "red" /\ Quit(1, "red")
     \/ verdict = "other-red" /\ Quit(6, "other-red")
     \/ /\ verdict = "green"
        /\ pc' = "reread"
        /\ UNCHANGED <<Kept, verdict, verified, claim, result>>
     \/ verdict = "pending" /\ now >= Timeout /\ Quit(2, "timeout")
     \/ /\ verdict = "pending" /\ now < Timeout
        /\ now - lastChange >= HungAfter
        /\ Quit(3, "hung")
     \/ /\ verdict = "pending" /\ now < Timeout
        /\ now - lastChange < HungAfter
        /\ LET f == IF ~pollFailed THEN 0
                    ELSE IF fails < FailsCap THEN fails + 1 ELSE fails
           IN  fails' = f /\ now' = now + Interval * BackOff(f)
        /\ pc' = "head"
        /\ UNCHANGED <<phase, page, rd, rc, pin, first, verdict, settleFp,
             settled, lastSig, lastChange, pollFailed, attempt, policy,
             verified, claim, result>>
  /\ UNCHANGED world

-----------------------------------------------------------------------------
(* Green: the head is read once more, and only then is pin the verified    *)
(* commit.                                                                 *)
MayVerify ==
  /\ WithPr => head = pin
  /\ WantSha \in {NoSha, pin}

Reread ==
  /\ pc = "reread"
  /\ \/ WithPr /\ Fault /\ Quit(1, "error")
     \/ /\ ~MayVerify
        /\ Quit(4, "head-moved")
        /\ UNCHANGED world
     \/ /\ MayVerify
        /\ verified' = pin
        /\ \/ ~Merge /\ Exit(0, "green")
           \/ Merge /\ pc' = "protect" /\ UNCHANGED result
        /\ UNCHANGED <<world, Kept, verdict, claim>>

-----------------------------------------------------------------------------
(* What GitHub enforces on the base branch: a set of requirements from the *)
(* rules endpoint and one from classic protection, each possibly           *)
(* unreadable.  A requirement is a context with an app (or Everyone), or a *)
(* merge queue.                                                            *)
Queue == <<>>
Requirement == {Queue} \cup (Contexts \X (App \cup {Everyone}))

Covers(reqs) ==
  \/ Queue \in reqs
  \/ /\ reqs # {}
     /\ \A c \in Contexts : \E q \in reqs \ {Queue} :
          q[1] = c /\ (AnyApp \/ q[2] \in {Everyone, GateApp})

(* Every attempt to merge, the first one and each retry, begins with the   *)
(* whole list read again.                                                  *)
Attempt_FirstOnly ==
  /\ attempt' = attempt + 1
  /\ \/ attempt = 0 /\ StartRead("recheck")
     \/ attempt > 0 /\ pc' = "merge" /\ UNCHANGED <<phase, rd, page>>

Attempt == attempt' = attempt + 1 /\ StartRead("recheck")

CheckProtection ==
  /\ pc = "protect"
  /\ \E covered \in {Covers(reqs) : reqs \in SUBSET Requirement} \cup {FALSE} :
       IF RequireProtection /\ ~covered
       THEN Quit(1, "error")
       ELSE /\ Attempt
            /\ UNCHANGED <<rc, pin, first, verdict, settleFp, settled, lastSig,
                 now, lastChange, pollFailed, fails, policy, verified, claim,
                 result>>
  /\ UNCHANGED world

(* merge_recheck: the list of the recheck must be the settled one.         *)
SuitesAsSettled == ~SuiteCallFailed /\ <<rd.before, rd.after>> = settled

RunsAsSettled_OnlyRedStops == Evaluate(rd) # "other-red"
RunsAsSettled == Evaluate(rd) = "green" /\ Fingerprint(rd) = settleFp

MergeRecheck ==
  /\ pc = "judge" /\ phase = "recheck"
  /\ \/ rc # 0 /\ Quit(1, "error")
     \/ rc = 0 /\ ~SuitesAsSettled /\ Quit(6, "other-red")
     \/ /\ rc = 0 /\ SuitesAsSettled
        /\ verdict' = Evaluate(rd)
        /\ \/ Evaluate(rd) = "red" /\ Exit(1, "red")
           \/ /\ Evaluate(rd) # "red" /\ ~RunsAsSettled
              /\ Exit(6, "other-red")
           \/ RunsAsSettled /\ pc' = "merge" /\ UNCHANGED result
        /\ UNCHANGED <<Kept, verified, claim>>
  /\ UNCHANGED world

(* gh pr merge --match-head-commit: GitHub merges only a head that is      *)
(* still the verified commit.  An accepted merge may only be queued, and a *)
(* call that merged may still report an error.                             *)
MatchesHead == merged = NoSha /\ head = verified

MergeCall ==
  /\ pc = "merge"
  /\ \E reply \in {"accepted", "policy", "refused"} :
       /\ reply = "accepted" => MatchesHead \/ merged # NoSha
       /\ merged' \in {merged} \cup
            (IF MatchesHead /\ reply # "policy" THEN {head} ELSE {})
       /\ policy' = (reply = "policy")
       /\ pc' = IF reply = "accepted" THEN "accepted" ELSE "refused"
  /\ UNCHANGED <<head, runs, suites, nextId, pushes, faults>>
  /\ UNCHANGED <<phase, page, rd, rc, pin, first, verdict, settleFp, settled,
       lastSig, now, lastChange, pollFailed, fails, attempt, verified, claim,
       result>>

(* attribute_merge: a merged pull request is this script's merge only when *)
(* the head in the same response is the verified commit.                   *)
IsOurs_MergedIsEnough == TRUE
IsOurs == head = verified

AttributeMerge ==
  /\ merged # NoSha
  /\ \/ IsOurs /\ claim' = TRUE /\ Exit(0, "green")
     \/ ~IsOurs /\ UNCHANGED claim /\ Exit(4, "head-moved")
  /\ UNCHANGED <<Kept, verdict, verified>>

(* gh accepted the merge: one response says what became of it.             *)
AfterAccepted ==
  /\ pc = "accepted"
  /\ \/ Fault /\ Quit(1, "error")
     \/ /\ \/ AttributeMerge
           \/ merged = NoSha /\ head # verified /\ Quit(4, "head-moved")
           \/ merged = NoSha /\ head = verified /\ Quit(5, "queued")
        /\ UNCHANGED world

(* gh refused: only a policy block is tried again, MergeRetries times.     *)
MayRetry_OneMore == attempt <= MergeRetries + 1
MayRetry == attempt <= MergeRetries

AfterRefused ==
  /\ pc = "refused"
  /\ \/ Fault /\ Quit(1, "error")
     \/ /\ \/ AttributeMerge
           \/ merged = NoSha /\ head # verified /\ Quit(4, "head-moved")
           \/ /\ merged = NoSha /\ head = verified
              /\ ~policy \/ ~MayRetry
              /\ Quit(1, "merge-blocked")
           \/ /\ merged = NoSha /\ head = verified
              /\ policy /\ MayRetry
              /\ now' = now + MergeRetryDelay
              /\ Attempt
              /\ UNCHANGED <<rc, pin, first, verdict, settleFp, settled,
                   lastSig, lastChange, pollFailed, fails, policy, verified,
                   claim, result>>
        /\ UNCHANGED world

-----------------------------------------------------------------------------
Watch == \/ Pin \/ Head
         \/ ReadSuitesBefore \/ ReadPage \/ ReadSuitesAfter
         \/ ReadFailed \/ JudgeFirst \/ JudgeConfirm \/ Decide
         \/ Reread \/ CheckProtection \/ MergeRecheck
         \/ MergeCall \/ AfterAccepted \/ AfterRefused

Others == Environment /\ UNCHANGED watcher

Next == Watch \/ Others

Spec == Init /\ [][Next]_vars

(* The script itself keeps running: every gh call returns and every nap    *)
(* ends.  Nothing is assumed of GitHub or of the people who push.          *)
FairSpec == Spec /\ WF_vars(Watch)

-----------------------------------------------------------------------------
Outcome == {<<>>} \cup ((0..6) \X {"green", "red", "other-red", "timeout",
             "hung", "head-moved", "queued", "merge-blocked", "error"})

TypeOK ==
  /\ GitHubTypeOK
  /\ pc \in {"pin", "head", "before", "page", "after", "judge", "decide",
             "reread", "protect", "merge", "accepted", "refused", "done"}
  /\ phase \in {"first", "confirm", "recheck"}
  /\ page \in 1..MaxRunPages
  /\ rd \in Read
  /\ rc \in 0..2
  /\ pin \in Sha \cup {NoSha}
  /\ pc \notin {"pin", "done"} => pin \in Sha
  /\ first = <<>> \/ first \in (SUBSET Mark) \X Int \X Int
  /\ verdict \in Verdict
  /\ settleFp \in SUBSET Mark
  /\ settled = <<>> \/ settled \in Int \X Int
  /\ now \in Nat /\ lastChange \in Nat /\ attempt \in Nat
  /\ pollFailed \in BOOLEAN /\ policy \in BOOLEAN /\ claim \in BOOLEAN
  /\ fails \in 0..FailsCap
  /\ verified \in Sha \cup {NoSha}
  /\ result \in Outcome

(* The total wait is bounded whatever GitHub does: pushes that re-pin,     *)
(* failing calls that back off and refused merges included.                *)
WaitIsBounded ==
  now <= Timeout - 1 + 8 * Interval + MergeRetries * MergeRetryDelay

(* What may still be ahead: so many polls and merge attempts at most, and  *)
(* so many steps of the one that is under way.                             *)
Rounds == (IF now < Timeout THEN Timeout - now ELSE 0) + (MergeRetries + 1 - attempt)

ReadLeft == CASE pc = "before" -> MaxRunPages + 2
              [] pc = "page"   -> MaxRunPages + 2 - page
              [] pc = "after"  -> 1
              [] pc = "judge"  -> 0

RoundLeft ==
  CASE pc = "pin"                       -> 2 * MaxRunPages + 11
    [] pc = "head"                      -> 2 * MaxRunPages + 10
    [] pc = "decide"                    -> 3
    [] pc \in {"reread", "merge"}       -> 2
    [] pc \in {"protect", "accepted", "refused"} -> 1
    [] pc = "done"                      -> 0
    [] OTHER -> ReadLeft + (CASE phase = "first"   -> MaxRunPages + 7
                              [] phase = "confirm" -> 4
                              [] phase = "recheck" -> 3)

Remaining == Rounds * (2 * MaxRunPages + 12) + RoundLeft

(* Whatever GitHub answers, with pushes that re-pin, pages that keep       *)
(* coming, calls that fail and merges that are refused: each step of the   *)
(* script brings its end nearer, by a count that starts at                 *)
(* (Timeout + MergeRetries + 2) * (2 * MaxRunPages + 12) at most and that  *)
(* nobody else can raise.                                                  *)
EveryStepIsProgress ==
  [][IF Watch THEN Remaining' \in 0..(Remaining - 1) ELSE UNCHANGED Remaining]_vars

(* The commit --sha names is the only one ever judged, whatever --on-push  *)
(* says and wherever the head goes.                                        *)
ExplicitShaIsNeverReplaced == WantSha # NoSha => pin \in {NoSha, WantSha}

(* The outputs of a green exit tell the truth about the pull request: the  *)
(* sha is the pinned commit, and "merged" is said exactly when a merge was *)
(* asked for and the pull request really was merged at that commit.        *)
GreenExitTellsTheTruth ==
  /\ claim => merged = verified
  /\ result = <<0, "green">> =>
       verified = pin /\ WantSha \in {NoSha, verified} /\ (claim <=> Merge)
=============================================================================
