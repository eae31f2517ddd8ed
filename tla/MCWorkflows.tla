----------------------------- MODULE MCWorkflows -----------------------------
(***************************************************************************)
(* Small instances of two workflows that do not interact: the image        *)
(* release and the wiki.  A behaviour is one of one of them; the other     *)
(* stays in an initial state.                                              *)
(***************************************************************************)
EXTENDS MCContainerRelease, WikiPublish

VARIABLE part    \* the workflow this behaviour is about

-----------------------------------------------------------------------------
(* The wiki: three runs; the second commit adds a page, the third drops    *)
(* and changes one, and what is off the branch is something else.          *)
CONSTANTS w1, w2, w3
WikiRuns == {w1, w2, w3}

TreesOf == [c \in 0..3 |->
  CASE c = 0 -> "side" :> "x"
    [] c = 1 -> "home" :> "x"
    [] c = 2 -> "home" :> "x" @@ "side" :> "x"
    [] c = 3 -> "side" :> "y"]

(* A generator that breaks with the second commit.                         *)
BrokenTrees == [TreesOf EXCEPT ![2] = NoPages]

-----------------------------------------------------------------------------
WorkflowsInit ==
  /\ Init /\ WikiInit
  /\ \/ part = "container" /\ wiki.rev = 0
     \/ part = "wiki" /\ start[r2].on = "pull_request"

WorkflowsNext ==
  \/ part = "container" /\ Next /\ UNCHANGED <<part, wikiVars>>
  \/ part = "wiki" /\ WikiNext /\ UNCHANGED <<part, vars>>

workflows == <<part, vars, wikiVars>>

WorkflowsSpec == WorkflowsInit /\ [][WorkflowsNext]_workflows

(* The fairness of FairWikiSpec; the image release needs none.             *)
WikiWork(r) == part = "wiki" /\ Work(r) /\ UNCHANGED <<part, vars>>
FairWorkflowsSpec == WorkflowsSpec /\ \A r \in WikiRun : WF_workflows(WikiWork(r))
=============================================================================
