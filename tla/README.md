# A formal model of git-your-ship-together

`git-your-ship-together` (GYST) is a set of reusable GitHub Actions workflows, composite
actions and scripts.  Its programs are small, but they decide things nobody looks at again: that a
commit may be merged, that an image is published, that a repository meets the baseline.  This directory
holds TLA+ models of those decisions, the TLC configurations that check them on small instances and
the proofs that carry the central results to every instance.

## Running it

    tlc -workers 2 -config MCWaitCi_merge.cfg MCWaitCi.tla     # one run; PROJECT.json lists them all
    tlapm WaitCiProofs.tla                                     # the proofs

`PROJECT.json` names every run and what it checks, the source lines each definition stands for
(`map`), for each property a one-definition change of the code that breaks it (`mutants`), the hazards
the properties are for, the findings and the theorems.  An operator whose name has a suffix after an underscore
(`MayFollow_ShaIgnored`) is such a change: it stands just before the definition it would replace and
is used nowhere else.

## The system: inventory

Most of the repository is GitHub Actions workflows that other repositories call.  A run of one is a
handful of jobs on fresh runners; what it shares with other runs is outside: a release, a registry,
a wiki, a concurrency group.  Around them stand scripts that people and schedules start.

| part | source | state it keeps | operations | what is hard about it | what makes it correct |
|---|---|---|---|---|---|
| wait-ci | `scripts/wait-ci.sh`, wrapped by the action `wait-ci` | pinned commit, the settled read, two clocks, back-off, merge attempts | pin, poll, confirm, settle, re-pin, recheck, merge, attribute | the list moves between pages and reads; the head moves; calls fail; a merge whose answer is lost | green is never claimed of a commit that was not green; nothing else is merged; the wait ends |
| audit_baseline | `scripts/audit_baseline.py`, run weekly by `audit.yml` | results so far, organizations met, owner lists read once | one check after the other, per repository, then per organization | a question without an answer inside a chain of checks | exit 0 is earned, a FAIL deserved, an unanswered question UNKNOWN |
| register issues | `audit.yml` (its job `register-issues`) with `audit_baseline.py --expiring` | GitHub issues, found by title | search, create, retitle | the search lags; jobs break and are run again; entries are renewed | nobody meets a failing audit without an issue before; one issue per entry |
| wiki-publish | `wiki-publish.yml` | the wiki's git repository, the concurrency group | generate, wait, clone, replace, push | runs overtake and cancel each other; people edit | the wiki is one commit's tree; somebody publishes |
| gen_wiki | `scripts/gen_wiki.py` | the pages in `--out` | fill placeholders, insert tables, rewrite links; write or compare | three passes over one text, each over the output of the last | every written page is complete and leads somewhere |
| docs-pages | `docs-pages.yml` | GitHub Pages, a concurrency group | build, deploy | as wiki-publish | as wiki-publish |
| artifact-release | `artifact-release.yml` | a release's files | build, attest, sign, look, create or replace | re-runs, files replaced one by one, two runs for a tag | only vouched-for files; success is complete |
| container-release | `container-release.yml` (and `python-docker-release.yml`, which calls it) | temporary and real tags in two registries, signatures, SBOMs, provenance | build, check, push per platform; join, sign, attest | tags are shared between runs; the base moves; several writes of which one fails | an index is one tested commit, and what is signed is true |
| python-package-release | `python-package-release.yml` | a release, PyPI | build, check, publish | PyPI cannot be repeated | what is uploaded is what was checked |
| verify-published | `verify-published.yml` | none | run verifiers | - | each tool's verdict is kept |
| doppler-secrets | `actions/doppler-secrets` (its decision is inlined in five workflows) | what is masked, sent and written in one job | decide, validate, log in, fetch, select, mask, write | many inputs decide together; a failure between any two commands | no secret without trust, unmasked, or unasked for |
| doppler-ci-set | `scripts/doppler-ci-set.sh` | a secret in several projects | set, report | one of several fails | every failure is reported |
| new-repo | `scripts/new-repo.sh` | a repository's settings, branch, pull request; `repos.txt` | write, commit, push, open, protect, append | partial failure and re-run by hand | a re-run completes what a broken run left |
| pre-commit hook | `.githooks/pre-commit` | a cached download | verify, extract, scan | worktrees share the cache | a download that is not the pinned one never runs |
| egress canary, egress policy check | `actions/egress-canary`, `actions/egress-policy-check` | background lookups, a watchdog | look up, connect, report | the watchdog races the end | a broken runner fails, a healthy one passes, nothing hangs |
| dependabot-auto-merge | `dependabot-auto-merge.yml` | GitHub's auto-merge flag | rank, approve, arm | pushes after arming | only small updates merge themselves |
| CI green | `ci.yml` | none | read the results of the needed jobs | skipped is not failed | a failed job blocks |
| base-image-digest | `base-image-digest.yml`, `scripts/base_image_digest.py` | pins still to compare, failures, bumps | read the FROMs, look up, scan, compare | one of several images fails; names that are stages or images | no image hides another; a failure is never "nothing to fix" |
| vendored-drift | `vendored-drift.yml`, `scripts/check_vendored_drift.py` | locks seen, problems | check each lock, run the generator | links, duplicates and broken locks between good ones | every drift is named |
| tool locks | `scripts/tool_locks.py` | `.in` and `.txt` files, the copies in the workflows | relock, copy, compare | a run stops halfway; people and Dependabot edit | a 0 means the workflows install what is locked |
| python support | `scripts/python_support.py` | none | compare dates | - | unit tests cover it |
| scanners | `security`, `agent-scan`, `dast`, `threat-model`, `python-fuzz` | reports | run tools | - | decided by tools outside the repository |
| language CI | `python-ci`, `bash-ci`, `tofu-ci`, `arduino-ci` | none | run tools | - | decided by tools outside the repository |
| project-sync, lory-audit | their workflows | a project board; an external scan | add, move, reconcile; start, poll, judge | - | an external service does the work |

**How they interact.**  The release workflows inline the decision of `doppler-secrets` and fail a release on its
`untrusted-tag`; `container-release` takes its outcome as `hub` (off, on, missing, refused), which is how
`ContainerRelease` has it.  `wait-ci` reads the check runs that the CI workflows' gates report, under the
very names (`<job> / CI green`) that `audit_baseline` requires branch protection to require.  `gen_wiki`
makes the tree that `wiki-publish` pushes.  `new-repo` appends to the list that `audit_baseline`
reads.  Apart from these a part only meets another one through GitHub.

## wait-ci: the watcher

`scripts/wait-ci.sh` waits for the check runs of one commit and may then squash-merge exactly that
commit.  It is one process that talks to GitHub through `gh`; between any two of its calls anybody may
push, re-run a check or merge.

### Modules

| module | stands for | what is in it |
|---|---|---|
| `CheckRuns` | `evaluate` and the tests it is made of | pure operators: what one complete read of the list says (`Evaluate`) |
| `GitHub` | GitHub, external | the pull request, its commits' check runs and suites, and everybody who changes them (`Environment`) |
| `WaitCi` | the script | one action per `gh` call and one per stretch of script between two calls |
| `CommitGate` | what the script promises | the abstract gate: no polls, pages or retries |
| `WaitCiObserved` | - | history variables over `WaitCi` (was the commit *really* green, and since when?), the properties about truth, and the refinement of `CommitGate` |
| `WaitCiTiming` | - | history variables over `WaitCi` (when did what happen?), the properties about waiting |
| `MCWaitCi`, `MCWaitCiTiming` | - | constants for TLC |
| `WaitCiProofs`, `WaitCiObservedProofs`, `WaitCiTimingProofs` | - | the theorems: types, exits and bounds; what is true of the commit, and the refinement; what is true of the waiting |

The state is the script's own variables, under their own names where TLA+ allows it: `pin`, `settleFp`
(`settle_fp`), `settled` (`settled_a`, `settled_b`), `lastSig`, `lastChange`, `pollFailed`, `fails`,
`verdict`, `now` (`t`).  `pc` is the call made next, `rd` the read that is under way, `phase` which of the
three reads of the script it is (the poll's first, the confirming one, the one before a merge).

| action | code |
|---|---|
| `Pin` | the head is read once and becomes `pin`; an explicit `--sha` must be it (469-494) |
| `Head` | top of the poll loop: the head is read again; abort, re-pin or go on (715-738) |
| `ReadSuitesBefore`, `ReadPage`, `ReadSuitesAfter` | `read_world`, one call each (438-467) |
| `ReadFailed`, `JudgeFirst`, `JudgeConfirm` | what the poll makes of its read(s) (740-803) |
| `Decide` | exit or nap (805-837) |
| `Reread` | green: the head once more, then the outputs (839-868) |
| `CheckProtection` | what the base branch enforces (870-934) |
| `MergeRecheck`, `MergeCall`, `AfterAccepted`, `AfterRefused` | the merge loop (936-1048) |

### What is abstracted

* A check run keeps the fields a verdict depends on.  `sound` stands for every shape test on a line (a
  plain id, canonical base64, no control character in a name, the pinned commit as `head_sha`): all of
  them lead to the same exit.  An app is one value, although the script reads its id for the gate and its
  slug for `--allow-red`; the two name the same app.
* Conclusions are the four groups the code tells apart: `success`, `neutral`/`skipped`, the
  `BAD_CONCLUSION` table, anything else.
* A finished run is final.  Re-running it puts a new run in its place, which is what `filter=latest`
  shows.  The list shows the runs of the newest `SuiteCap` suites only (1000 at GitHub).
* Time passes only while the script sleeps: what it measures (`--timeout`, `--hung-after`) it measures
  once per poll.  A `gh` call that takes long is a longer nap.
* The signature of a poll is noted when its first read is judged; the script compares it at the end of the
  poll, and nothing reads it in between.
* `fails` stops at `FailsCap` = 4: the back-off factor is 8 from there on, so no state is lost.
* Of the protection rules only whether they cover the contexts is kept (`Covers`); they may also be
  unreadable.

### The environment's bounds

| constant | at GitHub | in the runs | why that is enough |
|---|---|---|---|
| `PageSize` | 100 | 1 or 9 | 1 makes every list of two runs a list of two pages: the list moves between two page requests |
| `MaxRunPages` | 10 | 1 or 2 | with `PageSize` 1 and three runs the page limit itself is reached |
| `SuiteCap` | 1000 | 2 or 9 | 2 with three suites: a run is hidden |
| `MaxId` | - | 2 or 3 | runs ever created: three are needed for "one finished, one appears, one is re-run" |
| `MaxPushes` | - | 0 or 1 | one push makes the pinned commit an old one; what several do to the wait is proved |
| `MaxFaults` | - | 0 or 1 | one failed call per run; the back-off at its limit is proved (`BoundedWait`) |
| `Timeout`, `HungAfter`, `Interval` | 10800, 2700, 60 by default | up to 5, 3, 1 | polls a run is given; the theorems are for all values |
| `Sha` | - | 1 or 2 | a verdict is about one commit; the second is the one that was pushed |

`MaxId`, `MaxSuites`, `MaxPushes` and `MaxFaults` are guards of the environment only.

### What the runs show

| run | question | properties |
|---|---|---|
| `watch` | the list changes between pages, reads and polls, and hides the runs of old suites; `--sha` without `--pr` | `TypeOK`, `GreenIsReal`, `SettledAcrossPolls` |
| `judge` | runs of every kind and ending, foreign apps, `--allow-red`, `--min-checks`; `--on-push reset` together with `--sha` | `GreenIsReal`, `ExplicitShaIsNeverReplaced` |
| `merge` | recheck and merge against pushes, other mergers, failing calls, policy blocks | `GreenIsReal`, `MergeNeedsAFreshLook`, `GreenExitTellsTheTruth`, `ImplementsCommitGate` |
| `clocks` | how long, and what timeout and hung mean | `WaitIsBounded`, `HungIsAboutThePin`, `QuietGreenIsNotMissed`, `HungMeansNothingChanged`, `EveryStepIsProgress`, `Terminates` |
| `consecutive` | the header's "two consecutive polls" (violated) | `SettledByConsecutivePolls` |

`GreenIsReal` is the heart of it: whenever the script acts on "green", there was *one instant* since that
poll began at which every run the commit had, hidden ones included, was really green.  A read of several
pages is not a snapshot; that the pieces add up to one is the work of the suite counts before and after, the
repeated-id test, `total_count` and the confirming read together.
`SettledAcrossPolls` says the same of the poll before.  `MergeNeedsAFreshLook` is about the merge loop: since the verdict,
and for a retry since the merge call before it, there was an instant at which the commit's runs were the settled ones and
really green.  It takes a read of its own before each attempt (`Attempt`); with one before the first attempt only, TLC finds a
retry that merges over a check gone red.  `ImplementsCommitGate` says that, with polls, pages
and retries forgotten, the script is the abstract gate of `CommitGate`: it speaks once, merges only a vetted
commit, and never claims a merge of another one.

`EveryStepIsProgress` is why it ends: `Remaining` counts the polls, merge attempts and calls that may still be ahead, each
step of the script lowers it and nobody else can raise it, so the options alone bound the number of calls.

**Fairness.**  `Terminates` assumes `WF(Watch)`: the shell runs, every `gh` call returns and every `sleep`
ends.  Nothing is assumed of GitHub, of the checks or of the people who push.

**Finding.**  The header says success needs two *consecutive* polls that agree.  A poll whose check-runs
call fails leaves `settle_fp` alone (792-797), so the two polls may have failed ones between them: run
`consecutive`.  The commit is no less green for it (`SettledAcrossPolls` holds all the same); the words are
stronger than the code.

## audit_baseline

`AuditBaseline` is one audit: `at` walks `repos.txt`, `step` the checks of a repository, `results` collects
what they say, and `exit` is what the process ends with.  There is one action per check
(`CheckWorkflows`, `CheckCollaborators`, `CheckBranchProtection`, ...), each with a disjunct for the answer
and one for the refusal; `AuditOrg` is an organization, `Conclude` is `exit_code`, `Raise` a call that throws.
What passes from one check to another is kept: `wf` is what `check_workflows` returns beside its results
(the expected gates, the ignored advisories, whether Doppler is read), `owners` the cache of owner
lists, `seen` the organizations met.

`AuditFiles` is what the script reads out of a repository's files, as pure operators.  A workflow file is a
sequence of lines, because the script reads it so, without a YAML parser: of a line the model has the
indentation, whether it is a comment, a job's key, what it `uses` and at which ref, and the few other things some
check looks for.  `ExpectedGates` is the block `jobs` with its keys and calls, `WorkflowFindings` the pins,
`ExceptionsIn` the advisories that are ignored (not those of a `description:`), `ReadsDoppler` and `Calls` two searches
of the whole text; `TagRuleset` takes the first active ruleset for `v*`, `PipUpdatedRoots` the entries of
`dependabot.yml`.

Abstracted: checks that are one question and one answer are members of `Setting`; the three results
about the default branch are one; status codes are "answered" and "not answered".  Rendering is left out.

Run `audit`: three repositories (one of a user, two of an organization) and the organization; one of the
repositories is flawless or has any single flaw of `OneFlaw`, the others and the organization vary in what crosses
repositories; with and without a token for the user, with and without `--allow-unknown`, and one call that is
refused anywhere (`MaxRefusals` = 1; an owner without a token is a second source of doubt).
`GreenAuditIsTrue` compares exit 0 with a direct reading of BASELINE.md (`Compliant`, `OrgCompliant`), for which
each repository carries the truth about its files (`gates`, `advisories`, `pinned`) beside the files themselves;
that the line reading finds this truth, in files with comments, descriptions, several jobs and
keys that are no jobs, is part of what is checked.  `FailIsDeserved` is the converse, check by check: what a check is about
(`Meets(r, c)`) does not hold of the very repository or organization the FAIL names, whatever other call was refused.

**Observation: two FAILs nobody deserves.**  Two answers are put together from other answers, and when one of those was
refused the answer is a FAIL all the same; `Excused` names exactly these two, and the report has an UNKNOWN beside
them.  `branch-protection` of a repository whose workflow files were not read asks for a `CI green` of its own, whatever
the gates are called (lines 210-213, 410-412).  `org-actions-policy` accepts a policy that is only narrowed by the repositories'
allow-lists if each of these says PASS, so one that could not be read is a FAIL of the organization (735-742).

**Finding** (run `audit_unasked`).  A workflow listing that is not answered is handed on as empty sets, and
two later checks turn these into PASS, though "UNKNOWN is never PASS".  The exit code stays right, because
`workflows-pinned` is UNKNOWN.

**Observation.**  `github_fetcher` catches `HTTPError` only; a call without any answer ends the audit with a
traceback and exit code 1, which the docstring keeps for "at least one FAIL".  `Raise` models it; no property says
otherwise.  Of the line reading (all outside `Line`, so no run claims anything of it): a job key with a comment
behind it or with other indentation is no job to `expected_gates`; `docker://` actions without an `@` pass the pin
check; of two `v*` rulesets that protect tags together only the first is read, which can only FAIL wrongly;
`directories:` of an update is read as `/`.

## wiki-publish

`WikiPublish` has the runs in flight (`phase[r]`), the concurrency group (`active`, `waiting`), the wiki
as a git repository (`wiki`: revision, pages, and where they are from) and each run's `clone` of it.
`Trigger` starts a run, `Generate` is the first job, `Queue` and `Leave` are GitHub's handling of the group (one
runs, one waits, a newcomer turns the waiting one away), `CheckOut` and `Push` the publish job, `Edit` a
person, `BreakRun` and `RetryRun` what GitHub Actions does to a job.  The generator's result is a constant per
commit (`Trees`).

In run `container`, beside the images (`MCWorkflows`, see there): three runs (one publishes, one waits, one comes), three commits of which one breaks the
generator, a wiki whose first page may be missing, one edit, one failure, one re-run.  `WikiIsOneTree`: never a
mixture of trees.  `OnlyHandsInterfere`: a clone is only made stale by a person.
`SomebodyPublishes`: turning each other away never ends with nobody publishing.

**Fairness.**  `WF` of each run's next step: every job gets a runner some day and every step has a timeout.
Nothing is assumed of triggers, edits, failures or re-runs.

**Observation.**  The newest commit need not win: only the publish job is in the group, a run joins it when its own
generate job ends, and nothing compares commits before the push (line 425).  A run for an older commit
that generates slowly publishes last, and the wiki is behind until the next push, although
`docs/wiki/Workflow-wiki-publish.md:6-7` says a mirror cannot drift.

## artifact-release

`ArtifactRelease` follows runs for one tag.  Bytes are known by the number of the build that made them, so a file
(`"blob"`) and its bundle agree when their numbers do.  `MakeFiles` builds; `RecordProvenance`, `SignFiles`
and `Look` come before one of two commands: `Create` (all or nothing) or `Delete` and `Put`, one file at a time and in no
order, which is `gh release upload --clobber`.

In run `tools`: two runs, one file with its checksums and their bundles (four assets), two builds, one failure, and
re-runs of a whole run or of its publish job; the two runs are interchangeable (`SYMMETRY`; the run checks no liveness).
`OnlyVouchedFor`: whatever is on the release has provenance and was
signed, and a file and its bundle are there together and from one build (`Paired`), whatever order the uploads of two runs
met in; but for a file an upload is at, or failed at with no run mending it since (`torn`).  What `--clobber` deletes is the
upload it found, by its id: of two runs that replace the same file one fails (`lost`).  `SuccessIsComplete`: a run that succeeds, with nobody else at the release since it looked,
leaves every file and every bundle of its own build.

**Observation.**  The comment at lines 334-336 says a file on the release always has both.  That is false of the code: while an
upload is under way, and after one that broke halfway until a run mends it, a file is there without its bundle, or beside the
bundle of an older build's bytes.  `torn` is exactly the latter; without that exception TLC finds `OnlyVouchedFor` violated.

## container-release

`ContainerRelease` has runs with one job per platform (`job[r][p]`), the temporary tags of GHCR (`temp`), the
real tags of both registries (`tag`) and who moved them last (`mover`), the digests each registry holds (`pushed`), and what
is said of them (`signed`, `sbom`, `provenance`).  An image is what went into it: commit, base and run.
`BuildAndLoad`, `Check` and `PushTemporary` are the platform job; the second build may start from another base, unless the
commit's Dockerfile pins it (`Pinned`, `From`).  `Merge`, `JoinIndex`, `MoveTag`, `Inspect`, `SignImage`, `AttachSbom` and
`RecordProvenance` are the merge job.  A signing step fails where a registry does not hold the digest.

`RealTags` are the workflow's default tags: the branch or the pull request, the version with its minor and major tag,
`latest`, and `sha`, for which a commit is its own tag.  There is one branch, one version and one pull request, so any two
runs of a kind are rivals for its tag: more races than a repository with several branches has.  `imagetools create` pushes one tag
after the other to each registry, in an order nobody promises: `MoveTag` is one of them, and other runs' tags, or a break,
come in between.  `Inspect` reads the digest from the first tag; `readFrom` notes whose it was by then.  Whether Docker
Hub is published to is a parameter of a run and the same for all its attempts.

Run `container`: a push to the default branch beside another push (to both registries, or of a commit with an unpinned base
that fails its checks on one platform once the base is newer), beside a tag of the same commit that is refused Docker Hub,
beside a tag of another commit, or beside a pull request whose caller asks for a push; the base moves once, one step breaks,
one run is re-run.  `OneCommitPerIndex`: the tags `<sha>-<arch>` belong to nobody, yet no index mixes commits, and a
commit's own tag names an index of that commit.  `TestedApartFromBase`: each image that ships was built by a run whose own
checks passed for that commit and platform, on a base that is no newer, and on the very same one if it is pinned.
`ProvenanceIsTrue`: the index is of the commit of the run that records it, or, if it read a tag a rival had moved, of that
rival's; and nothing a pull request built is signed or under a real tag.  `ReleasedIsSigned` speaks of every state: as soon as the run
that put an index under a tag has ended well, that tag's index is signed, with SBOM and provenance, in that registry, whatever
the other runs are at; only a run that read a rival's digest leaves its own without.

The run's module, `MCWorkflows`, puts this and `WikiPublish` side by side, a behaviour being one of one of them (`part`).

**Finding** (run `container_race`).  The digest to sign is read back through the first real tag.  For two pushes to
the default branch that tag is shared and nothing orders the runs: one run signs the other's index, and its
own stays unsigned under the tag of its commit, with provenance that names the wrong commit.

**Finding** (run `container_base`).  The image that is pushed is built a second time (line 784).  For a base named by a tag it
may differ from the one that was tested, against "build once, test it, scan it, then publish" (line 1) and "the arm64 image the
test runs against is the arm64 image that ships".  `TestedApartFromBase` is what is left of that promise, and all of it where the base is pinned.

**Observation.**  With `push: true` the temporary image is pushed from a pull request too (line 785; only `merge` asks for the
event, line 808), although `docs/wiki/Workflow-container-release.md:72` says nothing is.

## doppler-secrets

`DopplerSecrets` is one use of the action.  `Decide` is the gate (event, ref, fork, the tag's history, the
`trusted-only` switch, both ways to log in), `Validate` the inputs; then either the pinned Doppler action
(`FetchAll`) or the action's own commands: `RequestJwt`, `Exchange`, `ReadConfig`, `Select`, `MaskValues`,
`Write`.  `Break` ends it between any two of them.  `masked`, `sent`, `env` and `outputs` are what a
reader of the log, the network and later steps see.

In run `tools`: every job that can come to the gate (five events, four kinds of ref, forks, three answers about
the history, the gate's settings, logins, requests) with a plain config; behind the gate every request
against every config of three names with a failure anywhere.  Values are what the checks tell apart (`long`,
`short`, `empty`, `odd`).  Three names are enough for one that is wanted, one that is not and a label.

**Observation.**  `untrusted-tag` is set for every tag that is refused, a `vN.N.N` tag outside the history included; its
description (line 123) and the callers' message ("ref is not a vMAJOR.MINOR.PATCH release tag",
`container-release.yml:1069`) speak of the name only.

## The scripts around the releases

These are small programs that do not meet each other.  Each has a module; `MCTools` puts them (with `ArtifactRelease` and
`DopplerSecrets`) side by side, a behaviour being one of one of them (`part`), so that one run, `tools`, checks
them all.

**BaseImage** (`base-image-digest.yml` with `base_image_digest.py`).  A Dockerfile is a sequence of instructions.
`ListPins` reads the pins or fails; `Compare` takes one image through its lookup, its two scans and their
comparison, each of which can fail; `BaseConclude` is the exit status.  `NoImageIsHidden` takes every FROM of the
file on its own and asks what became of it: reported with all that a bump fixes, failed, or nothing to
fix; a failure is never 0.  The run has all files of two FROMs out of ten (pinned, unpinned, of a stage, of a
variable, without a tag, unreadable), with and without a default for the variable, and registries with tags that
moved or not.

*Finding* (run `base_alias`).  A FROM adds its stage before its own image is looked up among the stages, so
`FROM debian AS debian` is taken for a stage and skipped, where the docstring promises a failure.  *Observation:* a
finding that has a fix in the pinned image and none in the current one is reported as fixed, although the docstring
says a finding in both never fails.

**VendoredDrift** (`check_vendored_drift.py`).  `CheckNextLock` is one lock: out of the root, listed twice, or checked
(`CheckLock`); `RunGenerator` ends the script and prints what was found.  `DieOfLock` is an error that nothing catches
(`Raises`): a path that cannot be encoded or has too long a part, or a file that may not be read and would be compared.
`EveryDriftIsNamed`: the exit status is 0 exactly if there was something to check and nothing drifted, whatever stands before
it and whatever raises; and each lock that drifted is printed, and nothing else is, unless the script dies.  The run has up to
three names (one a link) of two locks one of them with each of twenty-two defects.

*Observation:* the docstring says every problem is printed (21-22).  Problems are printed at the end (212), so a lock whose
file raises (85, 136, 141) ends the script with 1 and a traceback, and none of the drifts found before it is named.

**ToolLocks** (`tool_locks.py`).  `Start`, `Relock` (a tool at a time, written at once), `Copy` (a workflow at a time)
and `Finish` are a run, which can stop at each tool and workflow; `Change` is an edit by a person or Dependabot
between two runs.  `ZeroMeansInOrder`: after a run that ended with 0 every workflow carries exactly its tools'
locks, and after `--relock` each lock is of the version asked for and holds no wheel that no supported Python could
install.  Two edits and three runs are enough for "broken halfway, edited, run again".  *Observations:* an abi3
wheel that is newer than the oldest Python is dropped even where a newer Python could use it; the wheels that are kept need
not cover every Python; `--relock --check` writes the `.txt` files.

**RegisterIssues** (`audit.yml`, job `register-issues`, with `expiring_entries`).  The model has a calendar of three
Mondays.  `StartJob`, `Search`, `Update`, `EndJob` are the job, `BreakJob` a call that fails (GitHub may have done
what it did not answer), `Index` the search catching up, `Renew` and `Close` people.  `WarnedBeforeFailing`: when the
audit fails for an entry, an issue has announced that very date, unless a job failed for every Monday that could have
announced it.  It assumes what GitHub's schedule promises, that the Monday run does run.  `OneIssuePerEntry`: two open
issues for one entry only after a re-run before the search knew the first.  Dates are those that fall between
Mondays; the threshold is the code's 21 days.

**GenWiki** (`gen_wiki.py`).  A page is a sequence of parts: text, fences, links, markers, placeholders.  `Fill`,
`Insert` and `Convert` are the three passes, `Renders` all that makes it refuse, `WritePages` and `CheckPages` the
two ways to run it, `MoveOn` a checkout that changes under the directory.  `WrittenWikiIsSound`: each page of the
tree is in the directory, nothing is left to fill in except what was itself put in (a subject or a description is
not filled a second time), its table is there, and every link outside a fence leads to a page or a file.
*Observations:* merge subjects flow into `{{unreleased}}` and their links are checked like the page's own, so the
default branch's generation may fail after the pull request's has passed; writing never removes a page of an
older tree, so `--check` still fails after the command it advises.

## Proofs

TLC's instances are small; the theorems hold for every value of the constants that the named assumptions admit:

* `OptionsAssumption`, `GitHubAssumption`, `WaitCiAssumption`: the ranges `need_num` and the option parser enforce.
* `WikiAssumption`, `DopplerAssumption`, `ReleaseAssumption`: types, and what the trigger of a job implies.
* `ContainerAssumption`: types, and that the commit a pull request runs for (GitHub's merge of it with its base) is no
  other event's.
* `AuditAssumption`: types; the settings are finitely many and no check has the name of another; no advisory is in two
  entries of the register (`tests/test_risk_register.py` sees to it).
* `RegisterAssumption`: types; dates are days.  `BaseAssumption`: what a scan of an
  image names are advisories.  `DriftAssumption`: every path leads somewhere.  `LockAssumption`: every tool has a workflow
  and a Python that is not newer than the newest.  `GenAssumption`: what people write is made of the six kinds of parts;
  tables and converted links come from the generator alone.

| theorem | module | property | argument |
|---|---|---|---|
| `TypeCorrect` | `WaitCiProofs` | `TypeOK` | inductive as `Typing`: `TypeOK` and the finiteness of every set of runs, without which cardinalities are not numbers |
| `ExplicitSha` | `WaitCiProofs` | `ExplicitShaIsNeverReplaced` | the pin is set in two places, and each is guarded |
| `BoundedWait` | `WaitCiProofs` | `WaitIsBounded` | the bound is split by where the script is: `Polling` (before the merge `now` is below the timeout plus one nap) and `Merging` (each retry adds one delay and counts an attempt) |
| `TruthfulExit` | `WaitCiProofs` | `GreenExitTellsTheTruth` | `Verified`: from the reread on, `verified` is the pin; a claim is only made of a merge at it |
| `OnlySoManySteps` | `WaitCiProofs` | `EveryStepIsProgress` | `WatchAdvances`, action by action: there is a poll or an attempt less to come, or less is left of the one under way; `Bounded` keeps the count from running below 0 |
| `GreenWasReal` | `WaitCiObservedProofs` | `GreenIsReal` | see below |
| `SettledBefore` | `WaitCiObservedProofs` | `SettledAcrossPolls` | `Carried` and `Earlier`: what is settled is logged as really green, and at the top of a poll that was at least one nap ago |
| `MergeAfterAFreshLook` | `WaitCiObservedProofs` | `MergeNeedsAFreshLook` | `Rechecking` and `Acting`: what the argument for the confirming read gives, once more for the read before each merge call, whose window begins with the attempt |
| `Implementation` | `WaitCiObservedProofs` | `ImplementsCommitGate` | action by action: `Reread`, `MergeCall` and the exits are the gate's steps, all others (`OthersImplement`) none; what the gate has vetted are the commits in the log (`VettedGrowth`) |
| `HungCountsFromThePin` | `WaitCiTimingProofs` | `HungIsAboutThePin` | only `Decide` says "hung" (`OnlyDecideHangs`), and a new pin resets the clock it compares |
| `HungIsWhatItSays` | `WaitCiTimingProofs` | `HungMeansNothingChanged` | see below; for commits one read can show |
| `GreenIsNotMissed` | `WaitCiTimingProofs` | `QuietGreenIsNotMissed` | `QuietSoFar`: how far a poll has come with a calm, green commit, from the first exact read to the settled second one |
| `TypeCorrect` | `ContainerReleaseProofs` | `TypeOK` | part of `Founded` |
| `NoMixedIndex` | `ContainerReleaseProofs` | `OneCommitPerIndex` | `Founded`: who holds a temporary tag of a commit was built for it (`Honest`, `NextTemporary`), so every index is `Sound` from its creation on; and `TagsAreOwned`: a tag names an index of the commit of the run that moved it last, and is one of that run's |
| `NothingUntestedShips` | `ContainerReleaseProofs` | `TestedApartFromBase` | the same, with `Passed`: a platform job only gets behind its checks by passing them, on the base it would find again if that is pinned |
| `TrueProvenance` | `ContainerReleaseProofs` | `ProvenanceIsTrue` | `ReadingsAreOwned`: what a run reads is of the run that had moved the tag, and `FirstTagsAreApart`: only a run with the same first tag can have; for any number of racing runs |
| `NothingUnsigned` | `ContainerReleaseProofs` | `ReleasedIsSigned` | `WorkIsAnswered`, run by run: a tag it was the last to move, and need not move again, names the index it made (`Pushed`); and what it has read is vouched for step by step (`Told`); others only move tags away from it (`OthersMoveOn`) |
| `TypeCorrect` | `AuditBaselineProofs` | `TypeOK` | inductive |
| `GreenIsTrue` | `AuditBaselineProofs` | `GreenAuditIsTrue` | `Sound`: every result is right or its owner in doubt (`ResultsAreRight`), and what is behind `step` has been asked of every repository so far (`Progress`); under `ReadsRight` |
| `FailsAreDeserved` | `AuditBaselineProofs` | `FailIsDeserved` | the same `Sound`, whose doubt excuses a FAIL only where an answer it was put together from was refused (`Doubted`, `OrgsAreToured`); under `ReadsRight` and `NothingSpread` |
| `TypeCorrect` | `WikiPublishProofs` | `TypeOK` | with `Group` |
| `NobodyElsePushes` | `WikiPublishProofs` | `OnlyHandsInterfere` | `Group`: the group's members are exactly the runs whose phase says so, so at most one run has a clone in use; then `Fresh` |
| `WholeTrees` | `WikiPublishProofs` | `WikiIsOneTree` | `Branch`: who is in the group carries the tree of a commit of the default branch |
| `OnlyVouchedForFiles` | `ArtifactReleaseProofs` | `OnlyVouchedFor` | `Numbered`: no two runs share a build, and a pull request's never gets past its own; `Vouched`: from the step that vouches on, the build is vouched for; `Matched`: the parts of a file agree (`Coherent`), or some run at it is bound to fail (`Doomed`) and it becomes torn |
| `SuccessLeavesAll` | `ArtifactReleaseProofs` | `SuccessIsComplete` | `UpSoFar`: while a run is alone, what it no longer has to put is up and from its build, because it only deletes what it has yet to put |
| `TypeCorrect` | `ArtifactReleaseProofs` | - | with `Numbered`: a step that needs a build has one |
| `NoSecretWithoutTrust` | `ToolsProofs` | `SecretsNeedTrust` | `Gated`: behind the gate there is a mode, and a mode is only given to a job that is let through |
| `NothingUnmasked` | `ToolsProofs` | `MaskedByThen` | `Checked` and `Unwritten`: before the last step nothing is written, and by then all that will be is masked |
| `NothingUnasked` | `ToolsProofs` | `ExactlyWhatWasAsked` | the same, with `Asked`: which requests may come as far as which step |
| `SecretsTypeCorrect` | `ToolsProofs` | `TypeOK` | with `Asked` and `Unwritten` |
| `NoneHidden` | `ToolsProofs` | `NoImageIsHidden` | `Comparing`: of a good list every pin is to come or settled, whatever became of the others; and (`PinnedIsListed`) an image with a digest is never taken for a stage |
| `NoDriftIsHidden` | `ToolsProofs` | `EveryDriftIsNamed` | `LooksSoFar`: who is named is exactly who drifted among the locks looked at, and none of these raised; and (`CheckedIsAgrees`) nothing is found wrong with a lock exactly if its file agrees |
| `GoodRunsLeaveOrder` | `ToolsProofs` | `ZeroMeansInOrder` | `Orderly`: the tools before the position are relocked, the workflows before it copied, and no lock moves once a workflow has it |
| `NobodyIsSurprised` | `ToolsProofs` | `WarnedBeforeFailing` | `Missed` pays for every chance that has gone by: an entry is announced, or is still on the list of the running job (`OnItsWay`), or each of its Mondays cost one of `failures` |
| `NoSecondIssue` | `ToolsProofs` | `OneIssuePerEntry` | `Once`: without a job by hand the search knows every issue by the time the next job asks, and the job asks for each entry once |
| `WikiIsSound` | `ToolsProofs` | `WrittenWikiIsSound` | `AsRendered`: what is written is what `Render` makes of the tree; then the passes one by one: `FilledParts`, `InsertedParts`, `ConvertedParts`, `ConvertedLinks`, and under them `FlattenedParts` (see below) |
| `ToolsTypeCorrect` | `ToolsProofs` | `ToolsTypeOK` | a behaviour of the programs side by side is one of each (`EachOnItsOwn`), and each has its invariant |

**That green was real** (`WaitCiObservedProofs`).  `GreenIsReal` is far from inductive: it speaks of an instant, the code of two
reads and several pages.  The argument goes through one notion.  Call a set of runs *vouched for* when a complete read
has shown it green (`Vouched`).  A finished run is final and an id is never given twice, so at the moment the next read
begins either these are all the runs there are, and that moment is the instant, or one of them is gone for good, or
there are more.  In the last two cases that next read is `Doomed`: it cannot end green with the same fingerprint, by the
suite counts, the totals and the ids.  `VouchedOrDoomed` is the dichotomy, `DoomedStays` and `DoomedRefutes` carry it through
every page of every read while anybody changes anything; `Argued` is the invariant it makes, action by action.  This
holds for every page size and cap, and with runs that the list hides.

**That nothing changed** (`WaitCiTimingProofs`).  `ReadExactly`: while the commit is calm, the pages read so far are its
runs up to a rank, each once; that needs counting (`RanksCount`, `UptoCount`) and nothing else needs it.  `Superseded`: a
commit that has changed since the clock was last reset no longer looks as it did then.  The theorem has two hypotheses, `MaxSuites <= SuiteCap` and
`MaxId <= PageSize * MaxRunPages`: the list shows all runs, and a read has pages for them.  Without either, TLC finds a
change nobody sees (a suite that hides another with `SuiteCap` 1; a third run with two pages of one), and rightly: such a
read is never accepted, and a poll that reads nothing changes nothing.  The `clocks` instance satisfies both.

**What an audit is worth** (`AuditBaselineProofs`).  How files are read is a matter of data and stays with TLC; it enters as a hypothesis.  `ReadsRight`:
the line reading finds in each repository the gates, advisories and pins there are.  `NothingSpread`: no protection of
the tags is spread over several rulesets and no update has a list of directories, which the script does not read (see the
observation above).  They are hypotheses of the two theorems and not assumptions of the module, because they are claims about the
reading, not about the world: the mutants of `AuditFiles` are exactly the readings that break the first one.  All
repositories of the `audit` run satisfy both.

**The register** (`RegisterIssues`).  The order in which the job takes the entries is a CHOOSE; that there is such an order
(`ExpiringIsTheDue`) is shown by giving each entry its rank, the number of entries before it.

**The wiki** (`GenWiki`).  A page is put together with `FlattenSeq`, which is a recursive function, and the library's induction
theorems take an operator, which the installed provers cannot instantiate.  So the induction is done on sets:
`SmallestOf` (every set of numbers has a smallest one) follows from the cardinalities of intervals, `SomethingFlattens`
(there is such a function) and `FlattenedParts` (what it joins is what there was) from the smallest number that would
refute them.

Every safety property of the passing runs is proved.  Only model-checked:

* liveness (`Terminates`, `SomebodyPublishes`): the prover does not reason about fairness and ENABLED.  Of `Terminates` the
  other half is proved: `EveryStepIsProgress` leaves nothing to the fairness but that the script takes its next step;
* that the line reading is right (`ReadsRight`): it is a statement about the files of each instance, not about every
  sequence of lines, for there are files it reads wrongly (see the observation above).

`CHECK_DEADLOCK FALSE` is in every configuration: a script, a use of an action or a bounded number of runs
ends, and then nothing is left to happen.

## The runs

| run | module | what it is about | distinct states |
|---|---|---|---|
| `watch`, `judge`, `merge` | `MCWaitCi` | wait-ci, see there | 1.3, 0.3 and 0.4 million |
| `clocks` | `MCWaitCiTiming` | wait-ci, its clocks and that it ends | 1.1 million |
| `audit` | `MCAuditBaseline` | the audit | 1.5 million |
| `container` | `MCWorkflows` | images; publishing the wiki, liveness included | 0.7 million |
| `tools` | `MCTools` | the secrets action, the files of a release and the five scripts | 0.9 million |
| `consecutive`, `audit_unasked`, `base_alias` | as above | a finding each: the one property is violated | until it is |
| `container_race`, `container_base` | `MCContainerRelease` | the two findings about images | until it is |

## Not modelled, and the plan

Not modelled because nothing of its own can go wrong there: the scanners and the language CI (external tools), the
thin callers, `python_support`, Markdown and wording.  Not modelled yet, in the order of the plan:

1. the pre-commit hook's cache (two worktrees, a download that breaks off, a binary that is not verified again);
2. the egress canary (background lookups, watchdog and exit status as processes);
3. `new-repo` and `doppler-ci-set` (partial failure and re-run);
4. `dependabot-auto-merge`, the CI-green gate, the judging step of `lory-audit`, `python-package-release`.

Left to the tools outside: what `gh release view` says of a draft that a broken `gh release create` left
(`artifact-release.yml:514`); the model lets a broken create leave nothing.

Further theorems, in the order of their worth: a measure for an audit, which then reaches its end with every repository,
and one for the runs of the wiki; `ReadsRight` for files of a fixed shape; an abstract publication (a tag goes from one
sound index to another) that `ContainerRelease` implements.
New parts share runs with the old ones where a question is about the same state; a run is only added for a new question.
