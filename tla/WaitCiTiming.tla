---------------------------- MODULE WaitCiTiming ----------------------------
(***************************************************************************)
(* The clocks of the watcher: history variables that count polls and       *)
(* remember when things happened, and the properties about how long the    *)
(* script waits and what its "timeout" and "hung" mean.                    *)
(***************************************************************************)
EXTENDS WaitCi

VARIABLES
  settleAge,   \* polls begun since settle_fp was last set, capped at 2
  quiet,       \* whole polls begun and ended with GitHub calm, capped at 2;
               \* -1 when the present poll has been disturbed
  pinnedAt,    \* when pin last got its value
  movedAt      \* when a check run or a suite of the pinned commit last changed

clocks == <<settleAge, quiet, pinnedAt, movedAt>>

PollBegins == pc = "head" /\ pc' = "before"

PinMoves ==
  pin \in Sha /\ <<runs'[pin], suites'[pin]>> # <<runs[pin], suites[pin]>>

TimingInit ==
  /\ Init
  /\ settleAge = 0 /\ quiet = -1 /\ pinnedAt = 0 /\ movedAt = 0

Clock ==
  /\ settleAge' =
       CASE PollBegins -> IF settleAge < 2 THEN settleAge + 1 ELSE 2
         [] JudgeConfirm /\ settleFp' # {} /\ verdict' = "pending" -> 0
         [] OTHER -> settleAge
  /\ quiet' = CASE world' # world -> -1
                [] world' = world /\ PollBegins -> IF quiet < 2 THEN quiet + 1 ELSE 2
                [] OTHER -> quiet
  /\ pinnedAt' = IF pin' # pin THEN now ELSE pinnedAt
  /\ movedAt' = IF PinMoves THEN now ELSE movedAt

TimingNext == Next /\ Clock

TimingVars == <<vars, clocks>>

TimingSpec == TimingInit /\ [][TimingNext]_TimingVars

FairTimingSpec == TimingSpec /\ WF_TimingVars(Watch /\ Clock)

-----------------------------------------------------------------------------
(* All the pinned commit's runs are green and one read can show them all.  *)
PlainlyGreen ==
  /\ suites[pin] < SuiteCap
  /\ Cardinality(runs[pin]) < RunListCap
  /\ Cardinality(runs[pin]) <= PageSize * MaxRunPages
  /\ Evaluate([before |-> suites[pin], after |-> suites[pin],
               counts |-> {Cardinality(runs[pin])},
               seen |-> Cardinality(runs[pin]), runs |-> runs[pin]]) = "green"

(* The two locks against false greens (the confirming read, the settle     *)
(* rule) never cost more than two polls: once GitHub has been calm and     *)
(* green for two whole polls the script no longer waits.                   *)
QuietGreenIsNotMissed == pc # "done" /\ quiet = 2 => ~PlainlyGreen

(* A commit that was re-pinned gets the whole --hung-after for itself: no  *)
(* silence of the commit before it counts.                                 *)
HungIsAboutThePin == result = <<3, "hung">> => now - pinnedAt >= HungAfter

(* As long as GitHub answers, "hung" means what the exit code says: in the *)
(* last --hung-after seconds no check and no suite of the commit changed.  *)
HungMeansNothingChanged ==
  result = <<3, "hung">> /\ faults = 0 =>
    ~(now - HungAfter < movedAt /\ movedAt < now)

(* The header's words: success only after two consecutive polls read the   *)
(* identical set of check runs.                                            *)
SettledByConsecutivePolls == pc = "reread" => settleAge = 1

(* The script always ends.                                                 *)
Terminates == <>(pc = "done")
=============================================================================
