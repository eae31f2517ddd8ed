--------------------------- MODULE VendoredDrift ---------------------------
(***************************************************************************)
(* scripts/check_vendored_drift.py: every lock file is checked against the *)
(* file it vouches for, in the order given, then the generator runs once.  *)
(* Problems are collected and printed at the end: an error nothing catches *)
(* ends the script before it has printed any.                              *)
(*                                                                         *)
(* Contents are left out: of a pin the model knows whether it has 64 hex   *)
(* digits and whether they are those of the file, and of a path where it   *)
(* leads once symbolic links are followed.                                 *)
(***************************************************************************)
EXTENDS Integers, Sequences, FiniteSets, TLC

CONSTANT DriftJobs   \* the calls there may be

VARIABLES
  call,       \* --lock, in order, --generator-command, and the tree
  nextLock,   \* the lock that comes next, an index; one more is the generator
  seenLocks,  \* the lock files met so far
  problems,   \* who was complained about: an index of call.locks, or 0 for the
              \* generator, or -1 for there being no lock; and what for
  printed,    \* those of them that were printed, as FAIL lines
  driftExit

driftVars == <<call, nextLock, seenLocks, problems, printed, driftExit>>

Outside == "outside"   \* a path that leaves the root, or that cannot be resolved

(* What a lock may be like, and that every path leads somewhere.           *)
DriftLock == [readable : BOOLEAN, object : BOOLEAN, malformed : BOOLEAN, matches : BOOLEAN,
              wrong : SUBSET {"keys", "source", "repo", "path", "commit"},
              vendored : [plain : BOOLEAN, leads : {"file", "other", "big", "unreadable",
                                                    "unnamable", Outside}]]

ASSUME DriftAssumption == \A c \in DriftJobs :
  /\ c.locks \in Seq(DOMAIN c.real)
  /\ \A p \in DOMAIN c.real : c.real[p] \in DOMAIN c.lock \cup {Outside}
  /\ \A n \in DOMAIN c.lock : c.lock[n] \in DriftLock

(* relative and inside: a plain relative path, to where it leads.          *)
Inside_LinksIgnored(path) == IF path.plain THEN "file" ELSE Outside
Inside(path) == IF path.plain THEN path.leads ELSE Outside

(* What check_lock does not catch: a path that cannot be encoded (resolve)  *)
(* or has too long a part (is_file), and a file that may not be read, which *)
(* is tried only to compare it with a pin.                                  *)
Raises(lock) ==
  /\ lock.readable /\ lock.object
  /\ \/ Inside(lock.vendored) = "unnamable"
     \/ Inside(lock.vendored) = "unreadable" /\ ~lock.malformed

-----------------------------------------------------------------------------
(* check_lock: all that is wrong with one lock and the file it names.  One *)
(* that cannot be read as a JSON object is not looked at further.          *)
WrongWithSource(lock) ==
  IF "source" \in lock.wrong THEN {"source"}
  ELSE lock.wrong \cap {"repo", "path", "commit"}

WrongWithFile(lock) ==
  CASE Inside(lock.vendored) = Outside -> {"vendored"}
    [] Inside(lock.vendored) = "other" -> {"not a regular file"}
    [] Inside(lock.vendored) = "big"   -> {"too large"}
    [] OTHER -> IF lock.malformed \/ lock.matches THEN {} ELSE {"hash mismatch"}

CheckLock(lock) ==
  IF ~lock.readable THEN {"cannot read"}
  ELSE IF ~lock.object THEN {"not an object"}
  ELSE UNION {{"keys"} \cap lock.wrong,
              IF lock.malformed THEN {"sha256"} ELSE {},
              WrongWithSource(lock), WrongWithFile(lock)}

(* check_generator: a command that cannot be read or started, that does    *)
(* not end in time or that ends with anything but 0.                       *)
CheckGenerator(g) == IF g = "agrees" THEN {} ELSE {g}

-----------------------------------------------------------------------------
DriftInit == /\ call \in DriftJobs
             /\ nextLock = 1 /\ seenLocks = {} /\ problems = {} /\ printed = {}
             /\ driftExit = -1

Complain(who, what) == problems' = problems \cup {<<who, x>> : x \in what}

(* No lock at all is a failure, and then the generator is not run either.  *)
NothingToCheck ==
  /\ driftExit = -1 /\ call.locks = <<>>
  /\ problems' = {<<-1, "nothing to check">>}
  /\ printed' = problems'
  /\ driftExit' = 1
  /\ UNCHANGED <<call, nextLock, seenLocks>>

CheckNextLock ==
  LET real == call.real[call.locks[nextLock]] IN
  /\ driftExit = -1 /\ nextLock \in DOMAIN call.locks
  /\ \/ /\ real = Outside
        /\ Complain(nextLock, {"leaves the root"})
        /\ UNCHANGED seenLocks
     \/ /\ real # Outside /\ real \in seenLocks
        /\ Complain(nextLock, {"listed twice"})
        /\ UNCHANGED seenLocks
     \/ /\ real # Outside /\ real \notin seenLocks /\ ~Raises(call.lock[real])
        /\ Complain(nextLock, CheckLock(call.lock[real]))
        /\ seenLocks' = seenLocks \cup {real}
  /\ nextLock' = nextLock + 1
  /\ UNCHANGED <<call, printed, driftExit>>

(* The error ends the script with 1: what was found before is not printed, *)
(* and the locks that follow and the generator are not looked at.          *)
DieOfLock ==
  LET real == call.real[call.locks[nextLock]] IN
  /\ driftExit = -1 /\ nextLock \in DOMAIN call.locks
  /\ real # Outside /\ real \notin seenLocks /\ Raises(call.lock[real])
  /\ seenLocks' = seenLocks \cup {real}
  /\ driftExit' = 1
  /\ UNCHANGED <<call, nextLock, problems, printed>>

RunGenerator ==
  /\ driftExit = -1 /\ nextLock = Len(call.locks) + 1 /\ call.locks # <<>>
  /\ IF call.generator = "none" THEN UNCHANGED problems
     ELSE Complain(0, CheckGenerator(call.generator))
  /\ nextLock' = nextLock + 1
  /\ printed' = problems'
  /\ driftExit' = IF problems' = {} THEN 0 ELSE 1
  /\ UNCHANGED <<call, seenLocks>>

DriftNext == NothingToCheck \/ CheckNextLock \/ DieOfLock \/ RunGenerator

DriftSpec == DriftInit /\ [][DriftNext]_driftVars

-----------------------------------------------------------------------------
Problems == {"nothing to check", "leaves the root", "listed twice", "cannot read",
             "not an object", "keys", "sha256", "source", "repo", "path", "commit",
             "vendored", "not a regular file", "too large", "hash mismatch"}

DriftTypeOK ==
  /\ call \in DriftJobs
  /\ nextLock \in 1..(Len(call.locks) + 2)
  /\ seenLocks \subseteq DOMAIN call.lock
  /\ problems \subseteq (-1..Len(call.locks)) \X (Problems \cup {call.generator})
  /\ printed \subseteq problems
  /\ driftExit \in -1..1

(* A file agrees with its lock: it is there, in the root, and is what the  *)
(* pin says, and the lock says where it came from.                         *)
Agrees(lock) ==
  /\ lock.readable /\ lock.object /\ lock.wrong = {}
  /\ ~lock.malformed /\ lock.matches
  /\ lock.vendored.plain /\ lock.vendored.leads = "file"

(* What the first look at a lock finds: the path leads out of the root, the *)
(* lock was met before, or it does not agree with its file.                *)
FirstListed(i) == \A j \in 1..(i - 1) : call.real[call.locks[j]] # call.real[call.locks[i]]
Drifted(i) ==
  LET real == call.real[call.locks[i]] IN
  real = Outside \/ ~FirstListed(i) \/ ~Agrees(call.lock[real])
Dies(i) ==
  LET real == call.real[call.locks[i]] IN
  real # Outside /\ FirstListed(i) /\ Raises(call.lock[real])

(* What becomes of "Every problem is printed" (the docstring).  The status *)
(* is 0 exactly if there was something to check and nothing drifted: no    *)
(* drift passes, whatever was found or raised before it.  And when the     *)
(* script has ended, every drift is printed, each lock where it is listed  *)
(* first and each listed again, and a generator that does not say its      *)
(* outputs are current, however many there are; all but for one case: at a *)
(* lock whose file raises, the script dies, and then nothing is printed at *)
(* all, not even what was found before.                                    *)
EveryDriftIsNamed ==
  driftExit # -1 =>
    LET named == {x[1] : x \in printed}
        stale == call.generator \notin {"none", "agrees"}
    IN
    /\ driftExit = 0 <=> /\ call.locks # <<>> /\ ~stale
                         /\ \A i \in DOMAIN call.locks : ~Drifted(i)
    /\ IF \E i \in DOMAIN call.locks : Dies(i) THEN printed = {}
       ELSE /\ \A i \in DOMAIN call.locks : i \in named <=> Drifted(i)
            /\ call.locks # <<>> => (0 \in named <=> stale)
=============================================================================
