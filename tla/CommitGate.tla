----------------------------- MODULE CommitGate -----------------------------
(***************************************************************************)
(* What scripts/wait-ci.sh promises, without polls, pages or retries: it   *)
(* speaks once, a good word is only ever said of a commit whose checks     *)
(* were all green at one instant, a merge it starts is a merge of such a   *)
(* commit, and "merged" is only claimed of the commit that was merged.     *)
(***************************************************************************)
EXTENDS Integers

CONSTANTS Sha, NoSha, WantSha, Merge

VARIABLES
  head,      \* the head of the pull request
  mergedAt,  \* the head it was merged at, or NoSha
  byGate,    \* it was merged by the gate itself
  vetted,    \* commits whose whole list of checks has been green
  outcome    \* <<>>, or the exit code, its name, the sha and the merged output

vars == <<head, mergedAt, byGate, vetted, outcome>>

Init ==
  /\ head \in Sha /\ mergedAt = NoSha /\ byGate = FALSE
  /\ vetted = {} /\ outcome = <<>>

Push ==
  /\ mergedAt = NoSha
  /\ head' \in Sha \ {head}
  /\ UNCHANGED <<mergedAt, byGate, vetted, outcome>>

Vet ==
  /\ \E s \in Sha \ vetted : vetted' = vetted \cup {s}
  /\ UNCHANGED <<head, mergedAt, byGate, outcome>>

MergeElsewhere ==
  /\ mergedAt = NoSha
  /\ mergedAt' = head
  /\ UNCHANGED <<head, byGate, vetted, outcome>>

Acceptable(s) == s \in vetted /\ WantSha \in {NoSha, s}

GateMerge ==
  /\ Merge /\ outcome = <<>> /\ mergedAt = NoSha
  /\ Acceptable(head)
  /\ mergedAt' = head /\ byGate' = TRUE
  /\ UNCHANGED <<head, vetted, outcome>>

(* The one report.  After a merge of its own the gate either claims it or  *)
(* admits that it could not read the outcome.                              *)
Report ==
  /\ outcome = <<>>
  /\ \E why \in {"green", "red", "other-red", "timeout", "hung", "head-moved",
                 "queued", "merge-blocked", "error"},
        code \in 0..6, s \in Sha \cup {NoSha}, claim \in BOOLEAN :
       /\ outcome' = <<code, why, s, claim>>
       /\ code = 0 <=> why = "green"
       /\ code = 0 => Acceptable(s) /\ claim = Merge
       /\ claim => code = 0 /\ mergedAt = s
       /\ why = "queued" => Acceptable(s) /\ Merge /\ head = s /\ mergedAt = NoSha
       /\ byGate => why \in {"green", "error"}
  /\ UNCHANGED <<head, mergedAt, byGate, vetted>>

Next == Push \/ Vet \/ MergeElsewhere \/ GateMerge \/ Report

Spec == Init /\ [][Next]_vars
=============================================================================
