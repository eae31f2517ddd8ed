--------------------------- MODULE RegisterIssues ---------------------------
(***************************************************************************)
(* The dates of the repository: audit.yml runs every Monday; its job       *)
(* register-issues opens an issue for each entry of the risk register that *)
(* is due within Threshold days, before the audit fails for it.            *)
(*                                                                         *)
(* Somebody may renew an entry, close an issue or run the job again, a     *)
(* call to GitHub may fail, and the search for issues lags behind.         *)
(***************************************************************************)
EXTENDS Integers, Sequences, FiniteSets

CONSTANTS
  Ids,         \* the entries' ids, in order
  Dates,       \* bound: the days an entry's review_by may be
  NoDate,      \* a review_by that is no date
  Threshold,   \* --expiring
  Period,      \* days from one scheduled run to the next
  LastDay,     \* bound: days
  MaxIssues,   \* bound: issues
  MaxRenewals, MaxFailures, MaxReruns   \* bounds: of each of these

Id == {Ids[i] : i \in DOMAIN Ids}

ASSUME RegisterAssumption ==
  /\ Ids \in Seq(Id) /\ Dates \ {NoDate} \subseteq Int
  /\ Threshold \in Nat /\ Period \in Nat \ {0} /\ LastDay \in Nat
  /\ {MaxIssues, MaxRenewals, MaxFailures, MaxReruns} \subseteq Nat

VARIABLES
  today,
  reviewBy,    \* reviewBy[e]: the date in the register
  issues,      \* the issues, in the order they were opened
  found,       \* the issues the search has come to know
  todays,      \* has the scheduled run of today been started?
  toDo,        \* the entries the running job still has to look at, in order
  looked,      \* for the first of them: the issue the search returned, 0 for none
  working,     \* is a job running?
  since,       \* history: since[e]: the day reviewBy[e] was entered
  renewals, failures, reruns

registerVars == <<today, reviewBy, issues, found, todays, toDo, looked, working,
                  since, renewals, failures, reruns>>
spent == <<renewals, failures, reruns>>

-----------------------------------------------------------------------------
(* check_risk_exceptions: the audit fails the day after.                   *)
Overdue(e) == reviewBy[e] # NoDate /\ reviewBy[e] < today

(* expiring_entries: due within so many days, past, or without a date.     *)
Due(e) == reviewBy[e] = NoDate \/ reviewBy[e] - today <= Threshold

(* Sorted by the days left, then by the id, those without a date last.     *)
Before(e, d) ==
  LET Place(x) == CHOOSE i \in DOMAIN Ids : Ids[i] = x IN
  IF reviewBy[e] = reviewBy[d] THEN Place(e) < Place(d)
  ELSE reviewBy[d] = NoDate \/ (reviewBy[e] # NoDate /\ reviewBy[e] < reviewBy[d])
Expiring ==
  LET due == {e \in Id : Due(e)} IN
  CHOOSE s \in [1..Cardinality(due) -> due] :
    \A i, j \in DOMAIN s : i < j => Before(s[i], s[j])

-----------------------------------------------------------------------------
RegisterInit ==
  /\ today = 0 /\ reviewBy \in [Id -> Dates]
  /\ issues = <<>> /\ found = {}
  /\ todays = FALSE /\ toDo = <<>> /\ looked = -1 /\ working = FALSE
  /\ since = [e \in Id |-> 0]
  /\ renewals = 0 /\ failures = 0 /\ reruns = 0

Scheduled == today % Period = 0

(* One run at a time (the concurrency group): on schedule, or by hand.     *)
StartJob ==
  /\ ~working
  /\ \/ Scheduled /\ ~todays /\ todays' = TRUE /\ UNCHANGED reruns
     \/ /\ reruns < MaxReruns /\ reruns' = reruns + 1
        /\ UNCHANGED todays
  /\ toDo' = Expiring /\ working' = TRUE /\ looked' = -1
  /\ UNCHANGED <<today, reviewBy, issues, found, since, renewals, failures>>

(* gh issue list: an open issue whose title begins with the entry's id.    *)
Titled_WithDate(e) == {n \in found : issues[n] = [id |-> e, date |-> reviewBy[e], open |-> TRUE]}
Titled(e) == {n \in found : issues[n].id = e /\ issues[n].open}

Search ==
  /\ working /\ toDo # <<>> /\ looked = -1
  /\ LET known == Titled(Head(toDo)) IN
     IF known = {} THEN looked' = 0 ELSE looked' \in known
  /\ UNCHANGED <<today, reviewBy, issues, found, todays, toDo, working, since, spent>>

(* gh issue create, or gh issue edit when the title has another date.      *)
Track_NeverEdits(e, n) ==
  IF n = 0 THEN Append(issues, [id |-> e, date |-> reviewBy[e], open |-> TRUE])
  ELSE issues
Track(e, n) ==
  IF n = 0 THEN Append(issues, [id |-> e, date |-> reviewBy[e], open |-> TRUE])
  ELSE [issues EXCEPT ![n].date = reviewBy[e]]

Update ==
  /\ working /\ looked # -1
  /\ Len(issues) < MaxIssues \/ looked # 0
  /\ issues' = Track(Head(toDo), looked)
  /\ toDo' = Tail(toDo) /\ looked' = -1
  /\ UNCHANGED <<today, reviewBy, found, todays, working, since, spent>>

EndJob ==
  /\ working /\ toDo = <<>>
  /\ working' = FALSE
  /\ UNCHANGED <<today, reviewBy, issues, found, todays, toDo, looked, since, spent>>

(* set -e: a call that fails ends the job, and the entries after it wait   *)
(* for the next run.  GitHub may have done what it did not answer.         *)
BreakJob ==
  /\ working /\ failures < MaxFailures /\ failures' = failures + 1
  /\ \/ UNCHANGED issues
     \/ /\ looked # -1 /\ (Len(issues) < MaxIssues \/ looked # 0)
        /\ issues' = Track(Head(toDo), looked)
  /\ working' = FALSE /\ toDo' = <<>> /\ looked' = -1
  /\ UNCHANGED <<today, reviewBy, found, todays, since, renewals, reruns>>

(* The search knows a new issue after a while, within the day at the most. *)
Index ==
  /\ found # DOMAIN issues /\ found' = DOMAIN issues
  /\ UNCHANGED <<today, reviewBy, issues, todays, toDo, looked, working, since, spent>>

NextDay ==
  /\ today < LastDay /\ today' = today + 1
  /\ ~working /\ (Scheduled => todays) /\ found = DOMAIN issues
  /\ todays' = FALSE
  /\ UNCHANGED <<reviewBy, issues, found, toDo, looked, working, since, spent>>

(* Somebody renews an entry, between two jobs, or closes an issue.         *)
Renew(e) ==
  /\ ~working /\ renewals < MaxRenewals /\ renewals' = renewals + 1
  /\ \E d \in Dates \ {reviewBy[e]} :
       /\ d # NoDate /\ (reviewBy[e] # NoDate => d > reviewBy[e])
       /\ reviewBy' = [reviewBy EXCEPT ![e] = d]
  /\ since' = [since EXCEPT ![e] = today]
  /\ UNCHANGED <<today, issues, found, todays, toDo, looked, working,
                 failures, reruns>>

Close(n) ==
  /\ issues[n].open /\ ~working /\ renewals < MaxRenewals /\ renewals' = renewals + 1
  /\ issues' = [issues EXCEPT ![n].open = FALSE]
  /\ UNCHANGED <<today, reviewBy, found, todays, toDo, looked, working, since, failures, reruns>>

RegisterNext ==
  \/ StartJob \/ Search \/ Update \/ EndJob \/ BreakJob \/ Index \/ NextDay
  \/ (\E e \in Id : Renew(e)) \/ (\E n \in DOMAIN issues : Close(n))

RegisterSpec == RegisterInit /\ [][RegisterNext]_registerVars

-----------------------------------------------------------------------------
RegisterTypeOK ==
  /\ today \in 0..LastDay
  /\ reviewBy \in [Id -> Dates] /\ since \in [Id -> 0..LastDay]
  /\ issues \in Seq([id : Id, date : Dates, open : BOOLEAN]) /\ Len(issues) <= MaxIssues
  /\ found \subseteq DOMAIN issues
  /\ toDo \in Seq(Id) /\ looked \in -1..Len(issues)
  /\ todays \in BOOLEAN /\ working \in BOOLEAN /\ (toDo # <<>> => working)
  /\ renewals \in 0..MaxRenewals /\ failures \in 0..MaxFailures /\ reruns \in 0..MaxReruns

(* The scheduled runs that could announce e's date since it was entered.   *)
Chances(e) == {d \in (since[e] + 1)..reviewBy[e] :
                 d % Period = 0 /\ reviewBy[e] - d <= Threshold}

(* "So an exception cannot be forgotten": when the audit fails because the *)
(* review of an entry is overdue, an issue has announced that very date,   *)
(* unless a job failed for each Monday of the three weeks before (or of    *)
(* what was left of them when the date was entered).  An issue of an older *)
(* date, closed or renewed, does not stand in the way.                     *)
WarnedBeforeFailing ==
  \A e \in Id :
    Overdue(e) /\ Cardinality(Chances(e)) > failures =>
      \E n \in DOMAIN issues : issues[n].id = e /\ issues[n].date = reviewBy[e]

(* "One issue per entry ... renewing the date edits the title instead of   *)
(* opening a second issue": an entry has two open issues only if the job   *)
(* was run again before the search knew the first.                         *)
OneIssuePerEntry ==
  reruns = 0 =>
    \A m, n \in DOMAIN issues :
      issues[m].id = issues[n].id /\ issues[m].open /\ issues[n].open => m = n
=============================================================================
