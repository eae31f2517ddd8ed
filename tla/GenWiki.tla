------------------------------ MODULE GenWiki ------------------------------
(***************************************************************************)
(* scripts/gen_wiki.py: the wiki's pages are made from docs/wiki, in three *)
(* passes over each page: release facts are filled in, inputs tables are   *)
(* put where the marker is, links are rewritten for the flat wiki.  Either *)
(* every page is written or none.                                          *)
(*                                                                         *)
(* A page is a sequence of parts: text, a fence, a marker, a link, a       *)
(* placeholder (escaped or not), in the order and on the lines they have.  *)
(* What a part says beyond that is left out.                               *)
(***************************************************************************)
EXTENDS Integers, Sequences, FiniteSets, SequencesExt

CONSTANTS
  Sources,   \* the source trees there may be
  Histories, \* the release facts there may be: a tag or none, the merges since
  OutPages   \* the .md files there may be in --out before the first run

Part(kind, what) == [kind |-> kind, what |-> what]
Prose == Part("text", "")
Fence == Part("fence", "")

(* What people write into pages, descriptions and the subjects of merges.  *)
Kind == {"text", "fence", "marker", "link", "placeholder", "escaped"}
Text == Seq([kind : Kind, what : STRING])

ASSUME GenAssumption ==
  /\ \A s \in Sources : /\ \A p \in DOMAIN s.pages : s.pages[p] \in Text
                        /\ \A w \in DOMAIN s.workflows : s.workflows[w].says \in Text
  /\ \A h \in Histories : h.merges \in Seq(Text)

VARIABLES
  source,    \* docs/wiki, the workflows and the files of the checkout
  history,   \* what git says
  outDir,    \* --out: the .md files in it
  wrote      \* how the last run of the generator ended

wikiVars == <<source, history, outDir, wrote>>

-----------------------------------------------------------------------------
(* release_facts, _unreleased and fill_placeholders.  The tag, its commit  *)
(* and its date are text; {{unreleased}} is the subjects of the merges.    *)
Unreleased(h) == IF h.merges = <<>> THEN <<Prose>> ELSE FlattenSeq(h.merges)
Fill(page, h) ==
  FlattenSeq([i \in DOMAIN page |->
    CASE page[i].kind = "escaped"                                     -> <<Prose>>
      [] page[i].kind = "placeholder" /\ page[i].what = "unreleased"  -> Unreleased(h)
      [] page[i].kind = "placeholder" /\ page[i].what # "unreleased"  -> <<Prose>>
      [] OTHER                                                        -> <<page[i]>>])

(* workflow_call, reusable_workflows and render_tables: what the inputs,   *)
(* secrets and outputs of a reusable workflow say, one row each.           *)
ReusableWorkflows(s) == {w \in DOMAIN s.workflows : s.workflows[w].reusable}
Tables(s, w) == <<Part("table", w)>> \o s.workflows[w].says

Markers(page) == {i \in DOMAIN page : page[i].kind = "marker"}
Insert(page, table) ==
  FlattenSeq([i \in DOMAIN page |-> IF page[i].kind = "marker" THEN table ELSE <<page[i]>>])

(* _target and convert: outside a fence, a link to a page of the wiki      *)
(* becomes its name, one to anything else in the repository a URL.         *)
InFence(page, i) == Cardinality({j \in DOMAIN page : j < i /\ page[j].kind = "fence"}) % 2 = 1
LinksToConvert(page) == {i \in DOMAIN page : page[i].kind = "link" /\ ~InFence(page, i)}

Target(s, to) == IF to \in DOMAIN s.pages THEN Part("page", to)
                 ELSE IF to \in s.files THEN Part("url", to)
                 ELSE Part("external", to)
Known(s, to) == to \in DOMAIN s.pages \cup s.files \cup {"https"}
Convert(s, page) ==
  [i \in DOMAIN page |-> IF i \in LinksToConvert(page) THEN Target(s, page[i].what) ELSE page[i]]

-----------------------------------------------------------------------------
(* render: the pages, or WikiError.                                        *)
NamesOk(s) ==
  /\ {"Home", "_Sidebar"} \subseteq DOMAIN s.pages
  /\ "_Footer" \notin DOMAIN s.pages /\ ~s.sameButCase
  /\ \A w \in ReusableWorkflows(s) : \E p \in DOMAIN s.pages : s.about[p] = w

Expanded(s, h, p) ==
  LET page == Fill(s.pages[p], h) IN
  IF s.about[p] = "" THEN page ELSE Insert(page, Tables(s, s.about[p]))

PageOk(s, h, p) ==
  LET filled == Fill(s.pages[p], h) IN
  /\ IF s.about[p] = "" THEN Markers(filled) = {}
     ELSE s.about[p] \in ReusableWorkflows(s) /\ Cardinality(Markers(filled)) = 1
  /\ \A i \in LinksToConvert(Expanded(s, h, p)) : Known(s, Expanded(s, h, p)[i].what)

Renders(s, h) == NamesOk(s) /\ h.tag /\ \A p \in DOMAIN s.pages : PageOk(s, h, p)

Rendered_LinksFirst(s, h, p) ==
  LET page == Convert(s, Fill(s.pages[p], h)) IN
  IF s.about[p] = "" THEN page ELSE Insert(page, Tables(s, s.about[p]))
Rendered(s, h, p) == Convert(s, Expanded(s, h, p))

Render(s, h) ==
  [p \in DOMAIN s.pages \cup {"_Footer"} |->
     IF p = "_Footer" THEN <<Prose>> ELSE Rendered(s, h, p)]

-----------------------------------------------------------------------------
GenInit == /\ source \in Sources /\ history \in Histories
           /\ outDir = [p \in OutPages |-> <<>>] /\ wrote = "nothing"

(* main without --check: all pages are rendered before the first is        *)
(* written, over what is in the directory.                                 *)
Replaced(old, new) ==
  [p \in DOMAIN old \cup DOMAIN new |-> IF p \in DOMAIN new THEN new[p] ELSE old[p]]
WritePages ==
  /\ IF Renders(source, history)
     THEN outDir' = Replaced(outDir, Render(source, history)) /\ wrote' = "pages"
     ELSE UNCHANGED outDir /\ wrote' = "nothing"
  /\ UNCHANGED <<source, history>>

(* main --check --out: nothing is written; the directory is compared.      *)
CheckPages ==
  /\ wrote' = IF Renders(source, history) /\ outDir = Render(source, history)
              THEN "current" ELSE "nothing"
  /\ UNCHANGED <<source, history, outDir>>

(* The checkout moves on: to another tree, or a tag and merges appear.     *)
MoveOn ==
  /\ source' \in Sources /\ history' \in Histories
  /\ wrote' = "nothing"
  /\ UNCHANGED outDir

GenNext == WritePages \/ CheckPages \/ MoveOn

GenSpec == GenInit /\ [][GenNext]_wikiVars

-----------------------------------------------------------------------------
Pages(s) == DOMAIN s.pages \cup {"_Footer"}

GenTypeOK ==
  /\ source \in Sources /\ history \in Histories
  /\ OutPages \subseteq DOMAIN outDir
  /\ DOMAIN outDir \subseteq OutPages \cup UNION {Pages(s) : s \in Sources}
  /\ wrote \in {"nothing", "pages", "current"}

(* Of one page of the wiki: whatever is still to be filled in was not      *)
(* written in the page but in what was put there (a merge's subject, a     *)
(* workflow's description), for a pass never reads its own output; the     *)
(* table of the workflow the page is named for is there; and every link    *)
(* outside a fence, those in a table and in a merge's subject too, leads   *)
(* to a page of this wiki, to a file of the repository or out of it.       *)
Sound(p) ==
  LET page  == outDir[p]
      about == IF p = "_Footer" THEN "" ELSE source.about[p]
      says  == IF about = "" THEN {} ELSE ToSet(source.workflows[about].says)
  IN
  /\ \A i \in DOMAIN page : page[i].kind \in {"placeholder", "marker", "escaped"} =>
       page[i] \in says \cup ToSet(Unreleased(history))
  /\ about # "" => Part("table", about) \in ToSet(page)
  /\ \A i \in DOMAIN page :
       /\ page[i].kind = "link" => InFence(page, i)
       /\ page[i].kind = "page" => page[i].what \in DOMAIN source.pages
       /\ page[i].kind = "url" => page[i].what \in source.files

(* When the generator has written the wiki, or --check has found what is   *)
(* there current, each page of this tree is there and sound, whatever an   *)
(* earlier tree left in the directory; --check also finds no other page.   *)
WrittenWikiIsSound ==
  /\ wrote \in {"pages", "current"} =>
       \A p \in Pages(source) : p \in DOMAIN outDir /\ Sound(p)
  /\ wrote = "current" => DOMAIN outDir = Pages(source)

=============================================================================
