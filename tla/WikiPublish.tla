----------------------------- MODULE WikiPublish -----------------------------
(***************************************************************************)
(* .github/workflows/wiki-publish.yml, called on every push to the default *)
(* branch: the runs it has in flight, the concurrency group "wiki" their   *)
(* publish jobs share, and the wiki's own git repository, which people can *)
(* edit as well.                                                           *)
(*                                                                         *)
(* `generate` works on its own commit and needs nobody's leave; `publish`  *)
(* clones the wiki, replaces its pages and pushes.  A step that fails,     *)
(* whatever the reason, fails its run.                                     *)
(***************************************************************************)
EXTENDS Integers, FiniteSets, TLC

CONSTANTS
  WikiRun,
  NoRun,
  Page, Text,
  Trees,       \* Trees[c]: what the generator writes for commit c; 0 is off the branch
  Publish,     \* the caller's `publish` input
  MaxEdits,    \* bound: edits by hand, the first page included
  MaxFailures, \* bound: steps that fail
  MaxRetries   \* bound: failed runs that are run again

Tree == UNION {[S -> Text] : S \in SUBSET Page}
Commits == DOMAIN Trees \ {0}

ASSUME WikiAssumption ==
  /\ NoRun \notin WikiRun
  /\ 0 \in DOMAIN Trees /\ DOMAIN Trees \subseteq Nat /\ Trees \in [DOMAIN Trees -> Tree]
  /\ Publish \in BOOLEAN
  /\ MaxEdits \in Nat /\ MaxFailures \in Nat /\ MaxRetries \in Nat

ByHand == -1   \* the "source commit" of a page somebody typed

VARIABLES
  head,      \* the newest commit of the default branch, 0 before the first
  trigger,   \* trigger[r]: what started run r
  commit,    \* commit[r]: its github.sha
  stage,     \* stage[r]: the job it is in, or how it ended
  artifact,  \* artifact[r]: the wiki-tree it uploaded
  active, waiting,   \* the concurrency group: who publishes, who is next
  clone,     \* clone[r]: the wiki as r checked it out
  wiki,      \* the wiki: its revision, its pages and where they came from;
             \* revision 0 as long as nobody has made its first page
  edited,    \* the revision of the last edit by hand
  edits, failures, retries

wikiVars == <<head, trigger, commit, stage, artifact, active, waiting, clone, wiki,
          edited, edits, failures, retries>>
wikiBounds == <<edits, failures, retries>>

NoPages == [p \in {} |-> CHOOSE t \in Text : TRUE]

WikiInit ==
  /\ head = 0
  /\ trigger = [r \in WikiRun |-> "none"] /\ commit = [r \in WikiRun |-> 0]
  /\ stage = [r \in WikiRun |-> "idle"]
  /\ artifact = [r \in WikiRun |-> NoPages]
  /\ active = NoRun /\ waiting = NoRun
  /\ wiki \in [rev : {0, 1}, pages : {NoPages}, from : {ByHand}]
  /\ clone = [r \in WikiRun |-> wiki]
  /\ edited = 0 /\ edits = 0 /\ failures = 0 /\ retries = 0

-----------------------------------------------------------------------------
(* GitHub starts a run: for a push, which is a new commit of the default   *)
(* branch, by hand on its head, or for something that is not on it.        *)
Trigger(r) ==
  /\ stage[r] = "idle"
  /\ \E what \in {"push", "dispatch", "pull_request", "branch"} :
       /\ what = "push" => head + 1 \in Commits
       /\ what = "dispatch" => head > 0
       /\ head' = IF what = "push" THEN head + 1 ELSE head
       /\ commit' = [commit EXCEPT ![r] = IF what \in {"push", "dispatch"} THEN head' ELSE 0]
       /\ trigger' = [trigger EXCEPT ![r] = what]
  /\ stage' = [stage EXCEPT ![r] = "generate"]
  /\ UNCHANGED <<artifact, active, waiting, clone, wiki, edited, wikiBounds>>

(* The condition of the publish job: the default branch, whatever started  *)
(* the run, and never a pull request.                                      *)
MayPublish(r) == /\ Publish
                 /\ trigger[r] # "pull_request"
                 /\ trigger[r] \in {"push", "dispatch"}

(* The group runs one publish at a time and keeps one waiting; who comes   *)
(* to wait turns away the one who did.  Nobody is stopped halfway.         *)
Queue_NoGroup(r) ==
  /\ stage' = [stage EXCEPT ![r] = "publish"]
  /\ UNCHANGED <<active, waiting>>
Queue(r) ==
  IF active = NoRun
  THEN active' = r /\ waiting' = waiting /\ stage' = [stage EXCEPT ![r] = "publish"]
  ELSE /\ waiting' = r /\ active' = active
       /\ stage' = [s \in WikiRun |-> IF s = r THEN "waiting"
                                      ELSE IF s = waiting THEN "cancelled" ELSE stage[s]]

(* A publish job is over: the one who waits is next.                       *)
Leave_NobodyNext(r, ending) ==
  active' = NoRun /\ waiting' = waiting /\ stage' = [stage EXCEPT ![r] = ending]
Leave(r, ending) ==
  /\ active' = waiting /\ waiting' = NoRun
  /\ stage' = [s \in WikiRun |-> IF s = r THEN ending
                                 ELSE IF s = waiting THEN "publish" ELSE stage[s]]

Generate(r) ==
  /\ stage[r] = "generate"
  /\ LET tree == Trees[commit[r]] IN
     \/ /\ DOMAIN tree = {}
        /\ stage' = [stage EXCEPT ![r] = "failed"]
        /\ UNCHANGED <<artifact, active, waiting>>
     \/ /\ DOMAIN tree # {}
        /\ artifact' = [artifact EXCEPT ![r] = tree]
        /\ IF MayPublish(r) THEN Queue(r)
           ELSE stage' = [stage EXCEPT ![r] = "done"] /\ UNCHANGED <<active, waiting>>
  /\ UNCHANGED <<head, trigger, commit, clone, wiki, edited, wikiBounds>>

(* The checkout fails while there is no wiki; the next step says so.       *)
CheckOut(r) ==
  /\ stage[r] = "publish"
  /\ \/ /\ wiki.rev = 0
        /\ Leave(r, "failed")
        /\ UNCHANGED clone
     \/ /\ wiki.rev > 0
        /\ clone' = [clone EXCEPT ![r] = wiki]
        /\ stage' = [stage EXCEPT ![r] = "cloned"]
        /\ UNCHANGED <<active, waiting>>
  /\ UNCHANGED <<head, trigger, commit, artifact, wiki, edited, wikiBounds>>

(* Every tracked page is removed and the tree is copied in.                *)
Replaced_Overlaid(old, tree) == tree @@ old
Replaced(old, tree) == tree

(* Is there anything to commit?  New pages count: they were added first.   *)
Pages(tree) == {<<p, tree[p]>> : p \in DOMAIN tree}
Changed_TrackedOnly(old, new) == ~(Pages(old) \subseteq Pages(new))
Changed(old, new) == new # old

(* The push is not forced: git refuses it when the wiki has moved on.      *)
Push(r) ==
  /\ stage[r] = "cloned"
  /\ LET new == Replaced(clone[r].pages, artifact[r]) IN
     \/ ~Changed(clone[r].pages, new) /\ Leave(r, "done") /\ UNCHANGED wiki
     \/ /\ Changed(clone[r].pages, new) /\ wiki.rev = clone[r].rev
        /\ wiki' = [rev |-> wiki.rev + 1, pages |-> new, from |-> commit[r]]
        /\ Leave(r, "done")
     \/ /\ Changed(clone[r].pages, new) /\ wiki.rev # clone[r].rev
        /\ Leave(r, "failed")
        /\ UNCHANGED wiki
  /\ UNCHANGED <<head, trigger, commit, artifact, clone, edited, wikiBounds>>

(* A step fails: no network, no runner, a timeout.                         *)
BreakRun(r) ==
  /\ failures < MaxFailures /\ failures' = failures + 1
  /\ \/ /\ stage[r] = "generate"
        /\ stage' = [stage EXCEPT ![r] = "failed"] /\ UNCHANGED <<active, waiting>>
     \/ stage[r] \in {"publish", "cloned"} /\ Leave(r, "failed")
  /\ UNCHANGED <<head, trigger, commit, artifact, clone, wiki, edited, edits, retries>>

(* A failed run is run again, for the commit it was about: all of it, or   *)
(* the publish job alone when its tree was kept.                           *)
RetryRun(r) ==
  /\ stage[r] \in {"failed", "cancelled"} /\ retries < MaxRetries /\ retries' = retries + 1
  /\ \/ /\ stage' = [stage EXCEPT ![r] = "generate"]
        /\ UNCHANGED <<active, waiting>>
     \/ artifact[r] # NoPages /\ Queue(r)
  /\ UNCHANGED <<head, trigger, commit, artifact, clone, wiki, edited, edits, failures>>

(* Somebody edits a page, the first one perhaps.                           *)
Edit ==
  /\ edits < MaxEdits /\ edits' = edits + 1
  /\ \E p \in Page, t \in Text :
       LET pages == [q \in DOMAIN wiki.pages \cup {p} |-> IF q = p THEN t ELSE wiki.pages[q]]
       IN wiki' = [rev |-> wiki.rev + 1, pages |-> pages, from |-> ByHand]
  /\ edited' = wiki.rev + 1
  /\ UNCHANGED <<head, trigger, commit, stage, artifact, active, waiting, clone,
                 failures, retries>>

Work(r) == Generate(r) \/ CheckOut(r) \/ Push(r)
WikiNext == \/ \E r \in WikiRun : Trigger(r) \/ Work(r) \/ BreakRun(r) \/ RetryRun(r)
        \/ Edit

WikiSpec == WikiInit /\ [][WikiNext]_wikiVars

(* GitHub gets round to every job, and no step hangs: each has a timeout.  *)
FairWikiSpec == WikiSpec /\ \A r \in WikiRun : WF_wikiVars(Work(r))

-----------------------------------------------------------------------------
WikiTypeOK ==
  /\ head \in Nat
  /\ commit \in [WikiRun -> 0..head]
  /\ trigger \in [WikiRun -> {"none", "push", "dispatch", "pull_request", "branch"}]
  /\ stage \in [WikiRun -> {"idle", "generate", "waiting", "publish", "cloned",
                        "done", "failed", "cancelled"}]
  /\ artifact \in [WikiRun -> Tree]
  /\ active \in WikiRun \cup {NoRun} /\ waiting \in WikiRun \cup {NoRun}
  /\ waiting # NoRun => active # NoRun   \* nobody waits for nobody
  /\ wiki \in [rev : Nat, pages : Tree, from : {ByHand} \cup 0..head]
  /\ clone \in [WikiRun -> [rev : Nat, pages : Tree, from : {ByHand} \cup 0..head]]
  /\ edited \in Nat

(* What is published is exactly the tree of one commit of the default      *)
(* branch: no page of an older tree, of an edit or of another branch is    *)
(* mixed in, and the wiki is never emptied.                                *)
WikiIsOneTree ==
  wiki.from # ByHand =>
    /\ wiki.from \in 1..head
    /\ wiki.pages = Trees[wiki.from] /\ DOMAIN wiki.pages # {}

(* Publish jobs never get in each other's way: if the wiki is not what a   *)
(* job cloned, somebody has edited it since.  (So only an edit by hand can *)
(* make a push be refused.)                                                *)
OnlyHandsInterfere ==
  \A r \in WikiRun :
    stage[r] = "cloned" => wiki = clone[r] \/ edited > clone[r].rev

(* Turning each other away never ends with nobody publishing: once a run   *)
(* waits for the group, some run will get its tree into the wiki, unless a *)
(* step broke, somebody edited, or there is no wiki yet.                   *)
Undisturbed == failures = 0 /\ edits = 0 /\ wiki.rev > 0
SomebodyPublishes ==
  (\E r \in WikiRun : stage[r] = "waiting") ~>
    \/ ~Undisturbed
    \/ \E r \in WikiRun : stage[r] = "done" /\ wiki.from # ByHand /\ wiki.pages = artifact[r]
=============================================================================
