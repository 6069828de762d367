--------------------------- MODULE RunPreparation ---------------------------
(***************************************************************************)
(* prepare_run and cleanup_run, one file operation at a time.  The files of *)
(* a Run are its workspace directory, its isolated Git directory and, for   *)
(* an Issue Run, its simulator database.  Any operation may fail, halfway   *)
(* too, and the service may die between two of them; FactoryStore does not  *)
(* fail.  Both handlers run on the event loop, one Run at a time, so one    *)
(* Run is enough.  RunLifecycle, in which a preparation is two steps, is    *)
(* shown to be implemented.                                                 *)
(***************************************************************************)
EXTENDS Naturals

CONSTANTS
    Run, Loop,      \* the Run and the event-loop thread
    Issue,          \* whether its Blueprint is an ISSUE_PR one
    MaxCrashes      \* bound: how often the service may die

ASSUME IssueAssumption   == Issue \in BOOLEAN
ASSUME LoopAssumption    == Run # Loop
ASSUME CrashesAssumption == MaxCrashes \in Nat

VARIABLES
    service,        \* "down", "booting" or "serving"
    crashes,
    begun,          \* whether prepare_run was called
    pc,             \* the operation the event loop is at
    paths,          \* the paths set in the RunRecord in hand
    disk,           \* what is on the disk
    errors,         \* what the texts of the errors of this handler name
    record,         \* the stored RunRecord
    answer          \* how the last cleanup was answered

vars == <<service, crashes, begun, pc, paths, disk, errors, record, answer>>

Parts == {"tree", "git", "simulator"}

BuildSteps == {"mkdir", "init", "fetch", "checkout", "variant", "commit", "connect", "insert"}
UndoSteps  == {"undoTree", "undoGit", "undoSimulator"}
WipeSteps  == {"wipeTree", "wipeGit", "wipeSimulator"}

PartOf(step) ==
    CASE step \in {"mkdir", "checkout", "variant", "undoTree", "wipeTree"} -> "tree"
      [] step \in {"init", "fetch", "commit", "undoGit", "wipeGit"}        -> "git"
      [] OTHER                                                            -> "simulator"

Tear(state) == IF state = "absent" THEN state ELSE "torn"

NoRecord == [status |-> "absent", paths |-> {}, error |-> {}]

TypeOK ==
    /\ service \in {"down", "booting", "serving"} /\ crashes \in 0 .. MaxCrashes
    /\ begun \in BOOLEAN
    /\ pc \in {"idle", "save", "saveError"} \cup BuildSteps \cup UndoSteps \cup WipeSteps
    /\ paths \subseteq Parts
    /\ disk \in [Parts -> {"absent", "torn", "whole"}]
    /\ errors \subseteq Parts \cup {"cause"}
    /\ record \in [status : {"absent", "ready", "reset_error"}, paths : SUBSET Parts,
                   error : SUBSET (Parts \cup {"cause"})]
    /\ answer \in {"none", "cleaned", "failed"}

Init ==
    /\ service = "serving" /\ crashes = 0 /\ begun = FALSE
    /\ pc = "idle" /\ paths = {} /\ errors = {}
    /\ disk = [p \in Parts |-> "absent"]
    /\ record = NoRecord
    /\ answer = "none"

-----------------------------------------------------------------------------
(* prepare_run.                                                             *)

LoopFree == service = "serving" /\ pc = "idle"

Prepare ==
    /\ LoopFree /\ ~begun
    /\ begun' = TRUE /\ pc' = "mkdir"
    /\ UNCHANGED <<service, crashes, paths, disk, errors, record, answer>>

(* Mutant: the baseline is not committed. *)
AfterWithoutBaseline(step) ==
    CASE step = "mkdir" -> "init" [] step = "init" -> "fetch" [] step = "fetch" -> "checkout"
      [] step = "checkout" -> "variant" [] step \in {"variant", "commit"} -> "connect"
      [] step = "connect" -> "insert" [] step = "insert" -> "save"

After(step) ==
    CASE step = "mkdir"    -> "init"        \* git init --bare and its configuration
      [] step = "init"     -> "fetch"       \* of one commit, without its objects' history
      [] step = "fetch"    -> "checkout"    \* reset --hard, scan of submodules and links
      [] step = "checkout" -> "variant"     \* _apply_variant
      [] step = "variant"  -> "commit"      \* _commit_isolated_baseline
      [] step = "commit"   -> IF Issue THEN "connect" ELSE "save"
      [] step = "connect"  -> "insert"      \* the tables, then the Issue of the Case
      [] step = "insert"   -> "save"

(* The paths enter the record when materialize_isolated and initialize have *)
(* returned; each part is whole after its last operation.                   *)
BuildStep ==
    /\ pc \in BuildSteps
    /\ disk' = [disk EXCEPT ![PartOf(pc)] =
                    IF pc \in {"variant", "commit", "insert"} THEN "whole" ELSE "torn"]
    /\ paths' = paths \cup (CASE pc = "commit" -> {"tree", "git"}
                              [] pc = "insert" -> {"simulator"}
                              [] OTHER -> {})
    /\ pc' = After(pc)
    /\ UNCHANGED <<service, crashes, begun, errors, record, answer>>

(* The first error is on its way: everything made so far is removed.        *)
BuildFails ==
    /\ pc \in BuildSteps
    /\ disk' \in {disk, [disk EXCEPT ![PartOf(pc)] = IF pc = "mkdir" THEN @ ELSE "torn"]}
    /\ errors' = {"cause"}
    /\ pc' = "undoTree"
    /\ UNCHANGED <<service, crashes, begun, paths, record, answer>>

Save ==
    /\ pc = "save"
    /\ record' = [status |-> "ready", paths |-> paths, error |-> {}]
    /\ pc' = "idle" /\ paths' = {}
    /\ UNCHANGED <<service, crashes, begun, disk, errors, answer>>

(* Mutant: a removal that fails is not reported. *)
RemoveQuietly(part) ==
    /\ UNCHANGED errors
    /\ disk' \in {[disk EXCEPT ![part] = "absent"], [disk EXCEPT ![part] = Tear(@)]}

(* rmtree with its five attempts, or unlink.  What is left of a part whose  *)
(* removal failed is torn, and named in the text of the error.              *)
Remove(part) ==
    \/ disk' = [disk EXCEPT ![part] = "absent"] /\ UNCHANGED errors
    \/ /\ disk[part] # "absent"
       /\ disk' = [disk EXCEPT ![part] = "torn"]
       /\ errors' = errors \cup {part}

AfterRemoval(step) ==
    CASE step = "undoTree" -> "undoGit"
      [] step = "undoGit"  -> "undoSimulator"
      [] step = "undoSimulator" -> "saveError"
      [] step = "wipeTree" -> "wipeGit"
      [] step = "wipeGit"  -> "wipeSimulator"

(* Inside materialize_isolated, or by prepare_run when the paths are known. *)
UndoStep ==
    /\ pc \in UndoSteps
    /\ Remove(PartOf(pc))
    /\ pc' = AfterRemoval(pc)
    /\ UNCHANGED <<service, crashes, begun, paths, record, answer>>

(* A failed removal inside materialize_isolated replaces the first error.  *)
SaveError ==
    /\ pc = "saveError"
    /\ LET text == IF "tree" \notin paths /\ errors # {"cause"} THEN errors \ {"cause"} ELSE errors IN
       record' = [status |-> "reset_error", paths |-> paths, error |-> text]
    /\ pc' = "idle" /\ paths' = {}
    /\ UNCHANGED <<service, crashes, begun, disk, errors, answer>>

-----------------------------------------------------------------------------
(* cleanup_run: what the record names is removed, from the first call on   *)
(* the tree is not whole.                                                   *)

Cleanup ==
    /\ LoopFree /\ record # NoRecord
    /\ IF "tree" \in record.paths
       THEN pc' = "wipeTree" /\ disk' = [disk EXCEPT !["tree"] = Tear(@)]
       ELSE pc' = "wipeSimulator" /\ UNCHANGED disk
    /\ errors' = {} /\ answer' = "none"
    /\ UNCHANGED <<service, crashes, begun, paths, record>>

(* Mutant: the first error ends the removal of the directories. *)
WipeUntilError ==
    /\ pc \in {"wipeTree", "wipeGit"}
    /\ Remove(PartOf(pc))
    /\ pc' = IF errors' # {} THEN "wipeSimulator" ELSE AfterRemoval(pc)
    /\ UNCHANGED <<service, crashes, begun, paths, record, answer>>

WipeDirectory ==
    /\ pc \in {"wipeTree", "wipeGit"}
    /\ Remove(PartOf(pc))
    /\ pc' = AfterRemoval(pc)
    /\ UNCHANGED <<service, crashes, begun, paths, record, answer>>

(* The last removal, and the answer: done, or 409 with all the errors. *)
WipeSimulator ==
    /\ pc = "wipeSimulator"
    /\ IF "simulator" \in record.paths THEN Remove("simulator") ELSE UNCHANGED <<disk, errors>>
    /\ answer' = IF errors' = {} THEN "cleaned" ELSE "failed"
    /\ pc' = "idle"
    /\ UNCHANGED <<service, crashes, begun, paths, record>>

-----------------------------------------------------------------------------
Crash ==
    /\ service # "down" /\ crashes < MaxCrashes
    /\ service' = "down" /\ crashes' = crashes + 1
    /\ pc' = "idle" /\ paths' = {} /\ errors' = {} /\ answer' = "none"
    /\ \/ UNCHANGED disk
       \/ /\ pc \in BuildSteps \cup UndoSteps \cup WipeSteps
          /\ disk' = [disk EXCEPT ![PartOf(pc)] = Tear(@)]
    /\ UNCHANGED <<begun, record>>

(* Recovery has nothing to do: ready and reset_error stay as they are. *)
Boot ==
    /\ service # "serving"
    /\ service' = IF service = "down" THEN "booting" ELSE "serving"
    /\ UNCHANGED <<crashes, begun, pc, paths, disk, errors, record, answer>>

Next ==
    \/ Prepare \/ BuildStep \/ BuildFails \/ Save \/ UndoStep \/ SaveError
    \/ Cleanup \/ WipeDirectory \/ WipeSimulator \/ Crash \/ Boot

Spec == Init /\ [][Next]_vars

-----------------------------------------------------------------------------
(* Safety. *)

Present == {p \in Parts : disk[p] # "absent"}

(* The error text of a Run that could not be prepared names every part of   *)
(* it that is still on the disk: an undo that failed is not lost behind the *)
(* error that caused it, be it inside materialize_isolated or after it.     *)
ResetErrorConfesses ==
    record.status = "reset_error" => Present \subseteq record.error

(* A cleanup removes or reports each recorded part, whatever happens to the *)
(* others: what is left of them after an answer is what that answer named.  *)
CleanupConfesses ==
    answer # "none" => Present \cap record.paths \subseteq errors

(* What the documentation says and the service does not keep: after a       *)
(* cleanup that was answered as done nothing of the Run is on the disk.     *)
CleanedMeansGone == answer = "cleaned" => Present = {}

(* Preparation and cleanup as RunLifecycle has them: in between the tree    *)
(* counts as torn and the Git directory as there, a record is stored at the *)
(* end, and a simulator database exists once there is a record.             *)
RecordThere == [status    |-> record.status,            attempted |-> FALSE,
                workspace |-> "tree" \in record.paths, simulator |-> "simulator" \in record.paths]

TreeThere ==
    IF ~begun THEN "none"
    ELSE IF record = NoRecord THEN "torn"
    ELSE IF disk["tree"] = "absent" THEN "gone"
    ELSE IF disk["tree"] = "whole" THEN "intact" ELSE "torn"

GitThere == begun /\ (record = NoRecord \/ disk["git"] # "absent")

SimulatorThere ==
    IF record = NoRecord THEN "none"
    ELSE IF disk["simulator"] # "absent" THEN "open"
    ELSE IF Issue /\ "tree" \in record.paths THEN "gone" ELSE "none"

StepThere == IF pc = "idle" THEN "idle" ELSE IF record = NoRecord THEN "building" ELSE pc

NothingInHand == [status |-> "absent", attempted |-> FALSE, workspace |-> FALSE, simulator |-> FALSE]

R == INSTANCE RunLifecycle WITH
        Runs      <- {Run},
        MaxFaults <- 0,
        faults    <- 0,
        IssueRuns <- IF Issue THEN {Run} ELSE {},
        record    <- [r \in {Run} |-> RecordThere],
        score     <- [r \in {Run} |-> [execution |-> "none", task |-> "none", seen |-> "none"]],
        tree      <- [r \in {Run} |-> TreeThere],
        gitState  <- [r \in {Run} |-> GitThere],
        simulator <- [r \in {Run} |-> SimulatorThere],
        agent     <- [r \in {Run} |-> "none"],
        pc        <- [t \in {Run, Loop} |-> IF t = Loop THEN StepThere ELSE "idle"],
        target    <- IF pc = "idle" THEN Loop ELSE Run,
        mem       <- [t \in {Run, Loop} |-> NothingInHand],
        tally     <- [t \in {Run, Loop} |-> [seen |-> "none", broken |-> FALSE, passed |-> TRUE]],
        locked    <- [r \in {Run} |-> FALSE]

(* Every step of preparation, cleanup, crash and restart is a step of       *)
(* RunLifecycle or none: the two-step preparation there hides nothing.      *)
ImplementsLifecycle == R!Spec
=============================================================================
