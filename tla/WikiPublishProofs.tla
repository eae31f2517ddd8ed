-------------------------- MODULE WikiPublishProofs --------------------------
(***************************************************************************)
(* What holds of the wiki for any number of runs, commits, pages, edits    *)
(* and failures: one publish job at a time, nobody but a person in its     *)
(* way, and never anything but one commit's tree.                          *)
(***************************************************************************)
EXTENDS WikiPublish, TLAPS

(* The concurrency group: its members are who they are by their stages.    *)
Group ==
  /\ stage \in [WikiRun -> {"idle", "generate", "waiting", "publish", "cloned",
                        "done", "failed", "cancelled"}]
  /\ active \in WikiRun \cup {NoRun} /\ waiting \in WikiRun \cup {NoRun}
  /\ \A r \in WikiRun : stage[r] \in {"publish", "cloned"} <=> active = r
  /\ \A r \in WikiRun : stage[r] = "waiting" <=> waiting = r
  /\ waiting # NoRun => active # NoRun

(* What any step may do to the group.                                      *)
LEMMA QueueKeepsGroup ==
  ASSUME Group, NEW r \in WikiRun, stage[r] \notin {"waiting", "publish", "cloned"}, Queue(r)
  PROVE  Group'
BY WikiAssumption DEF WikiAssumption, Group, Queue

LEMMA LeaveKeepsGroup ==
  ASSUME Group, NEW r \in WikiRun, stage[r] \in {"publish", "cloned"},
         NEW ending \in {"done", "failed"}, Leave(r, ending)
  PROVE  Group'
BY WikiAssumption DEF WikiAssumption, Group, Leave

LEMMA GroupInvariant == WikiSpec => []Group
<1>1. WikiInit => Group
  BY WikiAssumption DEF WikiAssumption, WikiInit, Group
<1>2. Group /\ [WikiNext]_wikiVars => Group'
  <2> SUFFICES ASSUME Group, [WikiNext]_wikiVars PROVE Group'
    OBVIOUS
  <2>1. ASSUME NEW r \in WikiRun, Trigger(r) PROVE Group'
    BY <2>1 DEF Trigger, Group
  <2>2. ASSUME NEW r \in WikiRun, Generate(r) PROVE Group'
    <3>1. CASE Queue(r)
      BY <2>2, <3>1, QueueKeepsGroup DEF Generate
    <3>2. CASE UNCHANGED <<active, waiting>>
      BY <2>2, <3>2 DEF Generate, Group, Queue
    <3> QED
      BY <2>2, <3>1, <3>2 DEF Generate
  <2>3. ASSUME NEW r \in WikiRun, CheckOut(r) PROVE Group'
    <3>1. CASE Leave(r, "failed")
      BY <2>3, <3>1, LeaveKeepsGroup DEF CheckOut
    <3>2. CASE stage' = [stage EXCEPT ![r] = "cloned"] /\ UNCHANGED <<active, waiting>>
      BY <2>3, <3>2 DEF CheckOut, Group
    <3> QED
      BY <2>3, <3>1, <3>2 DEF CheckOut
  <2>4. ASSUME NEW r \in WikiRun, Push(r) PROVE Group'
    BY <2>4, LeaveKeepsGroup DEF Push
  <2>5. ASSUME NEW r \in WikiRun, BreakRun(r) PROVE Group'
    <3>1. CASE Leave(r, "failed") /\ stage[r] \in {"publish", "cloned"}
      BY <3>1, LeaveKeepsGroup
    <3>2. CASE /\ stage[r] = "generate"
               /\ stage' = [stage EXCEPT ![r] = "failed"] /\ UNCHANGED <<active, waiting>>
      BY <3>2 DEF Group
    <3> QED
      BY <2>5, <3>1, <3>2 DEF BreakRun
  <2>6. ASSUME NEW r \in WikiRun, RetryRun(r) PROVE Group'
    <3>1. CASE Queue(r)
      BY <2>6, <3>1, QueueKeepsGroup DEF RetryRun
    <3>2. CASE stage' = [stage EXCEPT ![r] = "generate"] /\ UNCHANGED <<active, waiting>>
      BY <2>6, <3>2 DEF RetryRun, Group
    <3> QED
      BY <2>6, <3>1, <3>2 DEF RetryRun
  <2>7. CASE Edit \/ UNCHANGED wikiVars
    BY <2>7 DEF Edit, wikiVars, Group
  <2> QED
    BY <2>1, <2>2, <2>3, <2>4, <2>5, <2>6, <2>7 DEF WikiNext, Work
<1> QED
  BY <1>1, <1>2, PTL DEF WikiSpec

-----------------------------------------------------------------------------
(* What somebody has cloned is the wiki still, or was edited since.        *)
Fresh ==
  /\ wiki.rev \in Nat /\ edited \in Nat /\ DOMAIN clone = WikiRun
  /\ \A r \in WikiRun :
       stage[r] = "cloned" => /\ clone[r].rev \in Nat /\ clone[r].rev <= wiki.rev
                              /\ wiki = clone[r] \/ edited > clone[r].rev

LEMMA QueueClonesNothing ==
  ASSUME Group, NEW r \in WikiRun, Queue(r), NEW s \in WikiRun, stage'[s] = "cloned"
  PROVE  stage[s] = "cloned"
BY DEF Group, Queue

LEMMA LeaveClonesNothing ==
  ASSUME Group, NEW r \in WikiRun, NEW ending \in {"done", "failed"}, Leave(r, ending),
         NEW s \in WikiRun, stage'[s] = "cloned"
  PROVE  stage[s] = "cloned" /\ s # r
BY DEF Group, Leave

(* Publish jobs never get in each other's way: only an edit by hand can    *)
(* make a clone stale, and so a push be refused.                           *)
THEOREM NobodyElsePushes == WikiSpec => []OnlyHandsInterfere
<1>1. WikiInit => Fresh
  BY DEF WikiInit, Fresh
<1>2. Group /\ Fresh /\ [WikiNext]_wikiVars => Fresh'
  <2> SUFFICES ASSUME Group, Fresh, [WikiNext]_wikiVars PROVE Fresh'
    OBVIOUS
  <2>1. ASSUME NEW r \in WikiRun, Trigger(r) PROVE Fresh'
    BY <2>1 DEF Trigger, Fresh, Group
  <2>2. ASSUME NEW r \in WikiRun, Generate(r) PROVE Fresh'
    <3>1. ASSUME NEW s \in WikiRun, stage'[s] = "cloned" PROVE stage[s] = "cloned"
      BY <2>2, <3>1, QueueClonesNothing DEF Generate, Group
    <3> QED
      BY <2>2, <3>1 DEF Generate, Fresh
  <2>3. ASSUME NEW r \in WikiRun, CheckOut(r) PROVE Fresh'
    <3>1. CASE Leave(r, "failed") /\ UNCHANGED clone
      BY <2>3, <3>1, LeaveClonesNothing DEF CheckOut, Fresh
    <3>2. CASE /\ clone' = [clone EXCEPT ![r] = wiki]
               /\ stage' = [stage EXCEPT ![r] = "cloned"]
      <4>1. clone'[r] = wiki /\ \A s \in WikiRun \ {r} : clone'[s] = clone[s]
        BY <3>2 DEF Fresh
      <4>2. \A s \in WikiRun \ {r} : stage'[s] = stage[s]
        BY <3>2 DEF Group
      <4>3. DOMAIN clone' = WikiRun /\ UNCHANGED <<wiki, edited>>
        BY <2>3, <3>2 DEF CheckOut, Fresh
      <4> QED
        BY <4>1, <4>2, <4>3 DEF Fresh
    <3> QED
      BY <2>3, <3>1, <3>2 DEF CheckOut
  <2>4. ASSUME NEW r \in WikiRun, Push(r) PROVE Fresh'
    <3>1. \A s \in WikiRun : stage[s] = "cloned" => s = r
      BY <2>4 DEF Group, Push
    <3>2. \A s \in WikiRun : stage'[s] # "cloned"
      BY <2>4, <3>1, LeaveClonesNothing DEF Push
    <3> QED
      BY <2>4, <3>2 DEF Push, Fresh
  <2>5. ASSUME NEW r \in WikiRun, BreakRun(r) PROVE Fresh'
    <3>1. ASSUME NEW s \in WikiRun, stage'[s] = "cloned" PROVE stage[s] = "cloned"
      BY <2>5, <3>1, LeaveClonesNothing DEF BreakRun, Group
    <3> QED
      BY <2>5, <3>1 DEF BreakRun, Fresh
  <2>6. ASSUME NEW r \in WikiRun, RetryRun(r) PROVE Fresh'
    <3>1. ASSUME NEW s \in WikiRun, stage'[s] = "cloned" PROVE stage[s] = "cloned"
      BY <2>6, <3>1, QueueClonesNothing DEF RetryRun, Group
    <3> QED
      BY <2>6, <3>1 DEF RetryRun, Fresh
  <2>7. CASE Edit
    BY <2>7 DEF Edit, Fresh
  <2>8. CASE UNCHANGED wikiVars
    BY <2>8 DEF wikiVars, Fresh
  <2> QED
    BY <2>1, <2>2, <2>3, <2>4, <2>5, <2>6, <2>7, <2>8 DEF WikiNext, Work
<1>3. Fresh => OnlyHandsInterfere
  BY DEF Fresh, OnlyHandsInterfere
<1> QED
  BY <1>1, <1>2, <1>3, GroupInvariant, PTL DEF WikiSpec

-----------------------------------------------------------------------------
(* What a publish job carries is the tree of its own commit, which is on   *)
(* the default branch.                                                     *)
Carries(r) ==
  /\ MayPublish(r)
  /\ artifact[r] = Trees[commit[r]] /\ DOMAIN artifact[r] # {}

Branch ==
  /\ head \in Nat
  /\ DOMAIN artifact = WikiRun /\ DOMAIN commit = WikiRun /\ DOMAIN trigger = WikiRun
  /\ \A r \in WikiRun : MayPublish(r) => commit[r] \in 1..head
  /\ \A r \in WikiRun : stage[r] = "idle" => artifact[r] = NoPages
  /\ \A r \in WikiRun : artifact[r] # NoPages => stage[r] = "done" \/ Carries(r)
  /\ \A r \in WikiRun : stage[r] \in {"waiting", "publish", "cloned"} => Carries(r)
  /\ WikiIsOneTree

LEMMA QueueAdmits ==
  ASSUME Group, NEW r \in WikiRun, Queue(r), NEW s \in WikiRun \ {r}
  PROVE  /\ stage'[s] \in {"waiting", "publish", "cloned"} => stage'[s] = stage[s]
         /\ stage'[s] = "done" <=> stage[s] = "done"
         /\ stage'[s] = "idle" <=> stage[s] = "idle"
BY WikiAssumption DEF WikiAssumption, Group, Queue

LEMMA LeaveAdmits ==
  ASSUME Group, NEW r \in WikiRun, stage[r] \in {"publish", "cloned"},
         NEW ending \in {"done", "failed"}, Leave(r, ending), NEW s \in WikiRun
  PROVE  /\ stage'[s] \in {"waiting", "publish", "cloned"} =>
               stage[s] \in {"waiting", "publish", "cloned"}
         /\ stage[s] = "done" => stage'[s] = "done"
         /\ stage'[s] = "idle" <=> stage[s] = "idle"
BY WikiAssumption DEF WikiAssumption, Group, Leave

(* A step that starts no run and uploads no tree, and lets nobody into the *)
(* group who does not carry a tree.                                        *)
Admitted(s) ==
  /\ stage'[s] \in {"waiting", "publish", "cloned"} =>
       stage[s] \in {"waiting", "publish", "cloned"}
  /\ stage[s] = "done" => stage'[s] = "done"
  /\ stage'[s] = "idle" <=> stage[s] = "idle"

LEMMA SameRuns ==
  ASSUME Branch, UNCHANGED <<head, commit, trigger, artifact>>, WikiIsOneTree',
         \A s \in WikiRun : Admitted(s) \/ (Carries(s) /\ stage'[s] # "idle")
  PROVE  Branch'
<1>1. \A s \in WikiRun : (MayPublish(s)' <=> MayPublish(s)) /\ (Carries(s)' <=> Carries(s))
  BY DEF MayPublish, Carries
<1> QED
  BY <1>1 DEF Branch, Admitted, NoPages

(* Whatever is in the wiki and was not typed is the tree of one commit of  *)
(* the default branch, and never nothing.                                  *)
THEOREM WholeTrees == WikiSpec => []WikiIsOneTree
<1>1. WikiInit => Branch
  BY DEF WikiInit, Branch, MayPublish, WikiIsOneTree, ByHand
<1>2. Group /\ Branch /\ [WikiNext]_wikiVars => Branch'
  <2> SUFFICES ASSUME Group, Branch, [WikiNext]_wikiVars PROVE Branch'
    OBVIOUS
  <2>1. ASSUME NEW r \in WikiRun, Trigger(r) PROVE Branch'
    <3>1. /\ head' \in Nat /\ head <= head'
          /\ UNCHANGED <<artifact, wiki>> /\ stage[r] = "idle" /\ stage'[r] = "generate"
          /\ DOMAIN commit' = WikiRun /\ DOMAIN trigger' = WikiRun
      BY <2>1 DEF Trigger, Branch, Group
    <3>2. MayPublish(r)' => commit'[r] \in 1..head'
      BY <2>1 DEF Trigger, Branch, MayPublish
    <3>3. \A s \in WikiRun \ {r} : stage'[s] = stage[s] /\ commit'[s] = commit[s]
                              /\ trigger'[s] = trigger[s]
      BY <2>1 DEF Trigger, Branch, Group
    <3>4. \A s \in WikiRun \ {r} : (Carries(s) => Carries(s)') /\ (MayPublish(s)' => MayPublish(s))
      BY <3>1, <3>3 DEF Carries, MayPublish
    <3>5. WikiIsOneTree'
      BY <3>1 DEF Branch, WikiIsOneTree
    <3> QED
      BY <3>1, <3>2, <3>3, <3>4, <3>5 DEF Branch
  <2>2. ASSUME NEW r \in WikiRun, Generate(r) PROVE Branch'
    <3>1. UNCHANGED <<head, commit, trigger, wiki>> /\ stage[r] = "generate"
      BY <2>2 DEF Generate
    <3>2. \A s \in WikiRun : MayPublish(s)' <=> MayPublish(s)
      BY <3>1 DEF MayPublish
    <3>3. CASE UNCHANGED artifact /\ stage' = [stage EXCEPT ![r] = "failed"]
      <4>1. \A s \in WikiRun : Carries(s)' <=> Carries(s)
        BY <3>1, <3>2, <3>3 DEF Carries
      <4> QED
        BY <3>1, <3>2, <3>3, <4>1 DEF Branch, Group, WikiIsOneTree
    <3>4. CASE /\ DOMAIN Trees[commit[r]] # {}
               /\ artifact' = [artifact EXCEPT ![r] = Trees[commit[r]]]
               /\ IF MayPublish(r) THEN Queue(r)
                  ELSE stage' = [stage EXCEPT ![r] = "done"] /\ UNCHANGED <<active, waiting>>
      <4>1. DOMAIN artifact' = WikiRun /\ artifact'[r] = Trees[commit[r]]
            /\ \A s \in WikiRun \ {r} : artifact'[s] = artifact[s]
        BY <3>4 DEF Branch
      <4>2. \A s \in WikiRun \ {r} : Carries(s)' <=> Carries(s)
        BY <3>1, <3>2, <4>1 DEF Carries
      <4>3. MayPublish(r) => Carries(r)'
        BY <3>1, <3>2, <3>4, <4>1 DEF Carries
      <4>4. /\ ~MayPublish(r) => stage'[r] = "done"
            /\ stage'[r] # "idle"
            /\ \A s \in WikiRun \ {r} :
                 /\ stage'[s] \in {"waiting", "publish", "cloned"} => stage'[s] = stage[s]
                 /\ stage'[s] = "done" <=> stage[s] = "done"
                 /\ stage'[s] = "idle" <=> stage[s] = "idle"
        <5>1. CASE MayPublish(r)
          <6>1. Queue(r)
            BY <3>4, <5>1
          <6>2. stage'[r] \in {"waiting", "publish"}
            BY <6>1 DEF Queue, Group
          <6> QED
            BY <5>1, <6>1, <6>2, QueueAdmits
        <5>2. CASE ~MayPublish(r)
          BY <3>4, <5>2 DEF Group
        <5> QED
          BY <5>1, <5>2
      <4>5. ASSUME NEW s \in WikiRun
            PROVE  /\ stage'[s] = "idle" => artifact'[s] = NoPages
                   /\ artifact'[s] # NoPages => stage'[s] = "done" \/ Carries(s)'
                   /\ stage'[s] \in {"waiting", "publish", "cloned"} => Carries(s)'
        <5>1. CASE s = r
          BY <4>3, <4>4, <5>1 DEF Carries, MayPublish
        <5>2. CASE s # r
          BY <4>1, <4>2, <4>4, <5>2 DEF Branch
        <5> QED
          BY <5>1, <5>2
      <4> QED
        BY <3>1, <3>2, <4>1, <4>5 DEF Branch, WikiIsOneTree
    <3> QED
      BY <2>2, <3>3, <3>4 DEF Generate
  <2>3. ASSUME NEW r \in WikiRun, CheckOut(r) PROVE Branch'
    <3>1. \A s \in WikiRun : Admitted(s)
      BY <2>3, LeaveAdmits DEF CheckOut, Group, Admitted
    <3> QED
      BY <2>3, <3>1, SameRuns DEF CheckOut, Branch, WikiIsOneTree
  <2>4. ASSUME NEW r \in WikiRun, Push(r) PROVE Branch'
    <3>1. \A s \in WikiRun : Admitted(s)
      BY <2>4, LeaveAdmits DEF Push, Admitted
    <3>2. Carries(r) /\ commit[r] \in 1..head
      BY <2>4 DEF Push, Branch, Carries
    <3>3. CASE wiki' = [rev |-> wiki.rev + 1, pages |-> artifact[r], from |-> commit[r]]
      <4>1. wiki'.pages = Trees[commit[r]] /\ DOMAIN wiki'.pages # {} /\ wiki'.from = commit[r]
        BY <3>2, <3>3 DEF Carries
      <4>2. WikiIsOneTree'
        BY <2>4, <3>2, <4>1 DEF Push, WikiIsOneTree
      <4> QED
        BY <2>4, <3>1, <4>2, SameRuns DEF Push
    <3>4. CASE UNCHANGED wiki
      BY <2>4, <3>1, <3>4, SameRuns DEF Push, Branch, WikiIsOneTree
    <3> QED
      BY <2>4, <3>3, <3>4 DEF Push, Replaced
  <2>5. ASSUME NEW r \in WikiRun, BreakRun(r) PROVE Branch'
    <3>1. CASE stage[r] = "generate" /\ stage' = [stage EXCEPT ![r] = "failed"]
      BY <2>5, <3>1, SameRuns DEF BreakRun, Branch, WikiIsOneTree, Group, Admitted
    <3>2. CASE stage[r] \in {"publish", "cloned"} /\ Leave(r, "failed")
      <4>1. \A s \in WikiRun : Admitted(s)
        BY <3>2, LeaveAdmits DEF Admitted
      <4> QED
        BY <2>5, <4>1, SameRuns DEF BreakRun, Branch, WikiIsOneTree
    <3> QED
      BY <2>5, <3>1, <3>2 DEF BreakRun
  <2>6. ASSUME NEW r \in WikiRun, RetryRun(r) PROVE Branch'
    <3>1. UNCHANGED <<head, commit, trigger, artifact, wiki>> /\ stage[r] \in {"failed", "cancelled"}
      BY <2>6 DEF RetryRun
    <3>2. CASE stage' = [stage EXCEPT ![r] = "generate"]
      BY <3>1, <3>2, SameRuns DEF Branch, WikiIsOneTree, Group, Admitted
    <3>3. CASE artifact[r] # NoPages /\ Queue(r)
      <4>1. Carries(r)
        BY <3>1, <3>3 DEF Branch
      <4>2. \A s \in WikiRun \ {r} : Admitted(s)
        BY <3>3, QueueAdmits DEF Admitted
      <4>3. \/ Carries(r) /\ stage'[r] # "idle"
            \/ Admitted(r)
        BY <3>3, <4>1 DEF Group, Queue
      <4> QED
        BY <3>1, <4>1, <4>2, <4>3, SameRuns DEF Branch, WikiIsOneTree
    <3> QED
      BY <2>6, <3>2, <3>3 DEF RetryRun
  <2>7. CASE Edit
    <3>1. WikiIsOneTree'
      BY <2>7 DEF Edit, WikiIsOneTree
    <3> QED
      BY <2>7, <3>1, SameRuns DEF Edit, Admitted
  <2>8. CASE UNCHANGED wikiVars
    BY <2>8, SameRuns DEF wikiVars, Branch, WikiIsOneTree, Admitted
  <2> QED
    BY <2>1, <2>2, <2>3, <2>4, <2>5, <2>6, <2>7, <2>8 DEF WikiNext, Work
<1>3. Branch => WikiIsOneTree
  BY DEF Branch
<1> QED
  BY <1>1, <1>2, <1>3, GroupInvariant, PTL DEF WikiSpec
-----------------------------------------------------------------------------
(* WikiTypeOK; the generator is only run on commits there are.                 *)
Typed == /\ WikiTypeOK /\ head \in DOMAIN Trees /\ \A r \in WikiRun : commit[r] \in DOMAIN Trees

(* A tree somebody added a page to, or typed one of, is a tree.            *)
LEMMA EditedIsATree ==
  ASSUME NEW pages \in Tree, NEW p \in Page, NEW t \in Text
  PROVE  [q \in DOMAIN pages \cup {p} |-> IF q = p THEN t ELSE pages[q]] \in Tree
<1>1. PICK S \in SUBSET Page : pages \in [S -> Text]
  BY DEF Tree
<1>2. [q \in DOMAIN pages \cup {p} |-> IF q = p THEN t ELSE pages[q]] \in [S \cup {p} -> Text]
  BY <1>1
<1>3. S \cup {p} \in SUBSET Page
  OBVIOUS
<1> QED
  BY <1>2, <1>3 DEF Tree

LEMMA InitTyped == WikiInit => Typed
<1> SUFFICES ASSUME WikiInit PROVE Typed
  OBVIOUS
<1>1. NoPages \in Tree
  <2>1. NoPages \in [{} -> Text]
    BY DEF NoPages
  <2> QED
    BY <2>1 DEF Tree
<1>2. wiki \in [rev : Nat, pages : Tree, from : {ByHand} \cup 0..head]
  BY <1>1 DEF WikiInit
<1> QED
  BY <1>1, <1>2, WikiAssumption DEF WikiInit, Typed, WikiTypeOK, WikiAssumption

(* The state of the runs, the group and the wiki is well typed.            *)
THEOREM TypeCorrect == WikiSpec => []WikiTypeOK
<1>1. Group /\ Typed /\ Group' /\ [WikiNext]_wikiVars => Typed'
  <2> SUFFICES ASSUME Group, Typed, Group', [WikiNext]_wikiVars PROVE Typed'
    OBVIOUS
  <2> DEFINE Wikis(n) == [rev : Nat, pages : Tree, from : {ByHand} \cup 0..n]
  <2>0. /\ WikiTypeOK /\ head \in Nat
        /\ wiki.rev \in Nat /\ wiki.pages \in Tree /\ wiki.from \in {ByHand} \cup 0..head
    BY DEF Typed, WikiTypeOK
  <2>1. ASSUME NEW r \in WikiRun, Trigger(r) PROVE Typed'
    <3>1. PICK what \in {"push", "dispatch", "pull_request", "branch"} :
            /\ what = "push" => head + 1 \in Commits
            /\ head' = IF what = "push" THEN head + 1 ELSE head
            /\ commit' = [commit EXCEPT ![r] = IF what \in {"push", "dispatch"} THEN head' ELSE 0]
            /\ trigger' = [trigger EXCEPT ![r] = what]
      BY <2>1 DEF Trigger
    <3>2. head' \in Nat /\ head' \in DOMAIN Trees /\ 0..head \subseteq 0..head'
      BY <2>0, <3>1 DEF Typed, Commits
    <3>3. commit' \in [WikiRun -> 0..head'] /\ \A s \in WikiRun : commit'[s] \in DOMAIN Trees
      BY <2>0, <3>1, <3>2, WikiAssumption DEF Typed, WikiTypeOK, WikiAssumption
    <3>4. trigger' \in [WikiRun -> {"none", "push", "dispatch", "pull_request", "branch"}]
      BY <2>0, <3>1 DEF WikiTypeOK
    <3>5. Wikis(head) \subseteq Wikis(head')
      BY <3>2
    <3>6. wiki' \in Wikis(head') /\ clone' \in [WikiRun -> Wikis(head')]
      BY <2>0, <2>1, <3>5 DEF WikiTypeOK, Trigger
    <3> QED
      BY <2>0, <2>1, <3>2, <3>3, <3>4, <3>6 DEF Trigger, Typed, WikiTypeOK, Group
  <2>2. ASSUME NEW r \in WikiRun, Generate(r) PROVE Typed'
    <3>1. Trees[commit[r]] \in Tree
      BY WikiAssumption DEF Typed, WikiAssumption
    <3>2. artifact' \in [WikiRun -> Tree]
      BY <2>0, <2>2, <3>1 DEF WikiTypeOK, Generate
    <3> QED
      BY <2>0, <2>2, <3>2 DEF Generate, Typed, WikiTypeOK, Group
  <2>3. ASSUME NEW r \in WikiRun, CheckOut(r) PROVE Typed'
    <3>1. clone' \in [WikiRun -> Wikis(head)]
      BY <2>0, <2>3 DEF WikiTypeOK, CheckOut
    <3> QED
      BY <2>0, <2>3, <3>1 DEF CheckOut, Typed, WikiTypeOK, Group
  <2>4. ASSUME NEW r \in WikiRun, Push(r) PROVE Typed'
    <3>1. artifact[r] \in Tree /\ commit[r] \in 0..head
      BY <2>0 DEF WikiTypeOK
    <3>2. wiki' = wiki \/ wiki' = [rev |-> wiki.rev + 1, pages |-> artifact[r], from |-> commit[r]]
      BY <2>4 DEF Push, Replaced
    <3>3. wiki' \in Wikis(head)
      BY <2>0, <3>1, <3>2 DEF WikiTypeOK
    <3> QED
      BY <2>0, <2>4, <3>3 DEF Push, Typed, WikiTypeOK, Group
  <2>5. ASSUME NEW r \in WikiRun, BreakRun(r) \/ RetryRun(r) PROVE Typed'
    BY <2>0, <2>5 DEF BreakRun, RetryRun, Typed, WikiTypeOK, Group
  <2>6. CASE Edit
    <3>1. PICK pages \in Tree : wiki' = [rev |-> wiki.rev + 1, pages |-> pages, from |-> ByHand]
      BY <2>0, <2>6, EditedIsATree DEF Edit
    <3>2. wiki' \in Wikis(head)
      BY <2>0, <3>1
    <3> QED
      BY <2>0, <2>6, <3>2 DEF Edit, Typed, WikiTypeOK
  <2>7. CASE UNCHANGED wikiVars
    BY <2>0, <2>7 DEF wikiVars, Typed, WikiTypeOK
  <2> QED
    BY <2>1, <2>2, <2>3, <2>4, <2>5, <2>6, <2>7 DEF WikiNext, Work
<1>2. Typed => WikiTypeOK
  BY DEF Typed
<1> QED
  BY <1>1, <1>2, InitTyped, GroupInvariant, PTL DEF WikiSpec
=============================================================================
