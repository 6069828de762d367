------------------------ MODULE RunPreparationProofs ------------------------
(***************************************************************************)
(* Preparation and cleanup of a Run confess what they leave on the disk and *)
(* are, step by step, those of RunLifecycle, for any number of crashes.     *)
(* What carries the argument is what the steps before have made of each     *)
(* part: a record is stored only when they are through, and a part that     *)
(* could not be removed is in the errors from then on.                      *)
(***************************************************************************)
EXTENDS RunPreparation, TLAPS

Making == BuildSteps \cup UndoSteps \cup {"save", "saveError"}

AllPaths == {"tree", "git"} \cup (IF Issue THEN {"simulator"} ELSE {})

(* A preparation is the first thing that happens to the Run and its record  *)
(* the last thing a preparation does.                                       *)
Phases ==
    /\ ~begun => pc = "idle" /\ record = NoRecord /\ disk["simulator"] = "absent"
    /\ pc \in Making => begun /\ record = NoRecord
    /\ pc \in WipeSteps => record # NoRecord
    /\ record = NoRecord \/ pc # "idle" => answer = "none"
    /\ pc \notin Making => paths = {}
    /\ record.status = "absent" <=> record = NoRecord

(* What the operations of a preparation have made so far.                   *)
Built ==
    /\ Issue \/ disk["simulator"] = "absent"
    /\ pc \in {"connect", "insert"} => Issue /\ paths = {"tree", "git"}
    /\ pc \in {"mkdir", "init", "fetch", "checkout", "variant", "commit"} =>
           disk["simulator"] = "absent" /\ paths = {}
    /\ pc = "connect" => disk["simulator"] = "absent"
    /\ pc = "save" => paths = AllPaths
    /\ pc \in {"commit", "connect", "insert", "save"} => disk["tree"] = "whole"
    /\ pc \in {"connect", "insert", "save"} => disk["git"] = "whole"
    /\ pc = "save" /\ Issue => disk["simulator"] = "whole"

(* What its removal has left, after an error.                               *)
Named(part) == disk[part] = "absent" \/ (disk[part] = "torn" /\ part \in errors)

Undone ==
    /\ pc \in UndoSteps \cup {"saveError"} =>
           (paths = {} /\ disk["simulator"] = "absent") \/ (paths = {"tree", "git"} /\ Issue)
    /\ pc \in {"undoGit", "undoSimulator", "saveError"} => Named("tree")
    /\ pc \in {"undoSimulator", "saveError"} => Named("git")
    /\ pc = "saveError" => Named("simulator")

(* What a cleanup has left.                                                 *)
Wiped ==
    /\ record.paths = {} \/ record.paths = {"tree", "git"} \/ record.paths = AllPaths
    /\ pc \in {"wipeTree", "wipeGit"} => "tree" \in record.paths
    /\ pc = "wipeTree" => disk["tree"] # "whole"
    /\ pc = "wipeGit" => Named("tree")
    /\ pc = "wipeSimulator" => record.paths = {} \/ (Named("tree") /\ Named("git"))

IInv == TypeOK /\ Phases /\ Built /\ Undone /\ Wiped /\ ResetErrorConfesses /\ CleanupConfesses

-----------------------------------------------------------------------------
LEMMA PartNames == Parts = {"tree", "git", "simulator"}
  BY DEF Parts

LEMMA DiskUpdate ==
    ASSUME TypeOK, NEW part \in Parts, NEW state \in {"absent", "torn", "whole"},
           disk' = [disk EXCEPT ![part] = state]
    PROVE  /\ disk' \in [Parts -> {"absent", "torn", "whole"}] /\ disk'[part] = state
           /\ \A p \in Parts : p # part => disk'[p] = disk[p]
BY DEF TypeOK

LEMMA InitInvariant == Init => IInv
<1> SUFFICES ASSUME Init PROVE IInv
  OBVIOUS
<1>1. TypeOK
  <2>1. disk \in [Parts -> {"absent", "torn", "whole"}] /\ crashes \in 0 .. MaxCrashes
    BY CrashesAssumption DEF Init
  <2>2. record \in [status : {"absent", "ready", "reset_error"}, paths : SUBSET Parts,
                    error : SUBSET (Parts \cup {"cause"})]
    BY DEF Init, NoRecord
  <2> QED BY <2>1, <2>2 DEF Init, TypeOK
<1>2. Phases /\ Built
  BY PartNames DEF Init, Phases, Built, Making, BuildSteps, UndoSteps, WipeSteps, NoRecord
<1>3. Undone /\ Wiped /\ ResetErrorConfesses /\ CleanupConfesses
  BY DEF Init, Undone, UndoSteps, Wiped, NoRecord, ResetErrorConfesses, CleanupConfesses
<1> QED BY <1>1, <1>2, <1>3 DEF IInv

(* While a Run has no record, or no part appears, what was confessed holds. *)
LEMMA NothingAppears ==
    ASSUME IInv, disk' \in [Parts -> {"absent", "torn", "whole"}],
           \A p \in Parts : disk[p] = "absent" => disk'[p] = "absent", UNCHANGED record
    PROVE  ResetErrorConfesses'
BY DEF IInv, ResetErrorConfesses, Present

LEMMA NoRecordNoConfession ==
    ASSUME record' = NoRecord, answer' = "none"
    PROVE  ResetErrorConfesses' /\ CleanupConfesses'
BY DEF NoRecord, ResetErrorConfesses, CleanupConfesses

LEMMA PrepareKeeps ==
    ASSUME IInv, Prepare
    PROVE  IInv'
<1> USE DEF IInv, Prepare, LoopFree
<1>1. TypeOK'
  BY DEF TypeOK, BuildSteps
<1>2. record = NoRecord /\ answer = "none" /\ paths = {} /\ disk["simulator"] = "absent"
  BY DEF Phases, Making, BuildSteps, UndoSteps
<1>3. Phases'
  BY <1>2 DEF Phases, Making, BuildSteps, UndoSteps, WipeSteps
<1>4. Built' /\ Undone' /\ Wiped'
  BY <1>2 DEF Built, Undone, UndoSteps, Wiped, NoRecord
<1> QED BY <1>1, <1>2, <1>3, <1>4, NoRecordNoConfession

(* The operations of a preparation, in their order.                         *)
Makes(step, part, state, next) ==
    pc = step /\ disk' = [disk EXCEPT ![part] = state] /\ pc' = next

LEMMA BuildOrder ==
    ASSUME BuildStep
    PROVE  /\ \/ UNCHANGED paths /\ \/ Makes("mkdir", "tree", "torn", "init")
                                    \/ Makes("init", "git", "torn", "fetch")
                                    \/ Makes("fetch", "git", "torn", "checkout")
                                    \/ Makes("checkout", "tree", "torn", "variant")
                                    \/ Makes("variant", "tree", "whole", "commit")
                                    \/ Makes("connect", "simulator", "torn", "insert")
              \/ /\ paths' = paths \cup {"tree", "git"}
                 /\ Makes("commit", "git", "whole", IF Issue THEN "connect" ELSE "save")
              \/ paths' = paths \cup {"simulator"} /\ Makes("insert", "simulator", "whole", "save")
           /\ UNCHANGED <<service, crashes, begun, errors, record, answer>>
           /\ pc \in Making
BY DEF BuildStep, BuildSteps, After, PartOf, Makes, Making

LEMMA BuildKeeps ==
    ASSUME IInv, BuildStep
    PROVE  IInv'
<1> USE DEF IInv
<1>1. PICK part \in Parts, state \in {"torn", "whole"} : disk' = [disk EXCEPT ![part] = state]
  BY BuildOrder, PartNames DEF Makes
<1>2. /\ disk' \in [Parts -> {"absent", "torn", "whole"}] /\ disk'[part] = state
      /\ \A p \in Parts : p # part => disk'[p] = disk[p]
  BY <1>1, DiskUpdate
<1>3. begun /\ record = NoRecord /\ answer = "none"
  BY BuildOrder DEF Phases, Making, BuildSteps, UndoSteps
<1>4. pc' \in BuildSteps \cup {"save"} /\ paths' \subseteq Parts
  BY BuildOrder, PartNames DEF Makes, BuildSteps, TypeOK
<1>5. TypeOK'
  BY <1>2, <1>4, BuildOrder DEF TypeOK
<1>6. Phases'
  BY <1>3, <1>4, BuildOrder DEF Phases, Making, BuildSteps, UndoSteps, WipeSteps
<1>7. Built'
  <2>1. ASSUME NEW step, NEW p \in Parts, NEW s \in {"torn", "whole"}, NEW next, Makes(step, p, s, next)
        PROVE  pc = step /\ pc' = next /\ disk'[p] = s /\ \A q \in Parts : q # p => disk'[q] = disk[q]
    BY <2>1, DiskUpdate DEF Makes
  <2>2. CASE Makes("mkdir", "tree", "torn", "init") \/ Makes("init", "git", "torn", "fetch")
               \/ Makes("fetch", "git", "torn", "checkout") \/ Makes("checkout", "tree", "torn", "variant")
    BY <2>1, <2>2, BuildOrder, PartNames DEF Built, Makes
  <2>3. CASE Makes("variant", "tree", "whole", "commit")
    BY <2>1, <2>3, BuildOrder, PartNames DEF Built, Makes
  <2>4. CASE Makes("commit", "git", "whole", IF Issue THEN "connect" ELSE "save")
    BY <2>1, <2>4, BuildOrder, PartNames, IssueAssumption DEF Built, Makes, AllPaths
  <2>5. CASE Makes("connect", "simulator", "torn", "insert")
    BY <2>1, <2>5, BuildOrder, PartNames DEF Built, Makes
  <2>6. CASE Makes("insert", "simulator", "whole", "save")
    BY <2>1, <2>6, BuildOrder, PartNames DEF Built, Makes, AllPaths
  <2> QED BY <2>2, <2>3, <2>4, <2>5, <2>6, BuildOrder
<1>8. Undone' /\ Wiped'
  BY <1>3, <1>4, BuildOrder DEF Undone, Wiped, BuildSteps, UndoSteps, NoRecord
<1> QED BY <1>3, <1>5, <1>6, <1>7, <1>8, BuildOrder, NoRecordNoConfession

LEMMA BuildFailsKeeps ==
    ASSUME IInv, BuildFails
    PROVE  IInv'
<1> USE DEF IInv
<1>1. /\ pc \in BuildSteps /\ errors' = {"cause"} /\ pc' = "undoTree"
      /\ UNCHANGED <<service, crashes, begun, paths, record, answer>>
      /\ begun /\ record = NoRecord /\ answer = "none"
  BY DEF BuildFails, Phases, Making
<1>2. disk' \in [Parts -> {"absent", "torn", "whole"}]
  BY PartNames DEF BuildFails, PartOf, TypeOK
<1>3. pc \notin {"connect", "insert"} => disk'["simulator"] = disk["simulator"]
  BY <1>1, PartNames DEF BuildFails, BuildSteps, PartOf, TypeOK
<1>4. TypeOK' /\ Phases'
  BY <1>1, <1>2, <1>3 DEF TypeOK, Phases, Making, UndoSteps, WipeSteps
<1>5. Built' /\ Undone' /\ Wiped'
  BY <1>1, <1>3, IssueAssumption DEF Built, Undone, Wiped, BuildSteps, UndoSteps, NoRecord
<1> QED BY <1>1, <1>4, <1>5, NoRecordNoConfession

LEMMA SaveKeeps ==
    ASSUME IInv, Save
    PROVE  IInv'
<1> USE DEF IInv
<1>1. /\ record' = [status |-> "ready", paths |-> AllPaths, error |-> {}] /\ pc' = "idle" /\ paths' = {}
      /\ UNCHANGED <<service, crashes, begun, disk, errors, answer>>
      /\ begun /\ answer = "none"
  BY DEF Save, Built, Phases, Making
<1>2. TypeOK' /\ Phases'
  BY <1>1, PartNames DEF TypeOK, Phases, Making, BuildSteps, UndoSteps, WipeSteps, AllPaths, NoRecord
<1>3. Built' /\ Undone' /\ Wiped'
  BY <1>1 DEF Built, Undone, UndoSteps, Wiped
<1>4. ResetErrorConfesses' /\ CleanupConfesses'
  BY <1>1 DEF ResetErrorConfesses, CleanupConfesses
<1> QED BY <1>2, <1>3, <1>4

(* A removal leaves nothing, or something torn that is named.               *)
LEMMA RemoveNames ==
    ASSUME TypeOK, NEW part \in Parts, Remove(part)
    PROVE  /\ disk' \in [Parts -> {"absent", "torn", "whole"}] /\ Named(part)'
           /\ errors \subseteq errors' /\ errors' \subseteq Parts \cup {"cause"}
           /\ \A p \in Parts : p # part => disk'[p] = disk[p]
           /\ disk[part] = "absent" => disk'[part] = "absent"
<1>1. CASE disk' = [disk EXCEPT ![part] = "absent"] /\ UNCHANGED errors
  BY <1>1, DiskUpdate DEF Named, TypeOK
<1>2. CASE /\ disk[part] # "absent" /\ disk' = [disk EXCEPT ![part] = "torn"]
           /\ errors' = errors \cup {part}
  BY <1>2, DiskUpdate DEF Named, TypeOK
<1> QED BY <1>1, <1>2 DEF Remove

LEMMA UndoKeeps ==
    ASSUME IInv, UndoStep
    PROVE  IInv'
<1> USE DEF IInv
<1>1. /\ \/ pc = "undoTree" /\ Remove("tree") /\ pc' = "undoGit"
         \/ pc = "undoGit" /\ Remove("git") /\ pc' = "undoSimulator"
         \/ pc = "undoSimulator" /\ Remove("simulator") /\ pc' = "saveError"
      /\ UNCHANGED <<service, crashes, begun, paths, record, answer>>
      /\ begun /\ record = NoRecord /\ answer = "none"
  BY DEF UndoStep, UndoSteps, PartOf, AfterRemoval, Phases, Making
<1>2. PICK part \in Parts : Remove(part)
  BY <1>1, PartNames
<1>3. /\ disk' \in [Parts -> {"absent", "torn", "whole"}] /\ errors' \subseteq Parts \cup {"cause"}
      /\ disk["simulator"] = "absent" => disk'["simulator"] = "absent"
  <2>1. part # "simulator" => disk'["simulator"] = disk["simulator"]
    BY <1>2, RemoveNames, PartNames
  <2> QED BY <1>2, <2>1, RemoveNames
<1>4. TypeOK' /\ Phases'
  BY <1>1, <1>3 DEF TypeOK, Phases, Making, UndoSteps, WipeSteps
<1>5. Undone'
  <2>1. CASE pc = "undoTree"
    BY <1>1, <2>1, RemoveNames, PartNames DEF Undone, UndoSteps, Named
  <2>2. CASE pc = "undoGit"
    BY <1>1, <2>2, RemoveNames, PartNames DEF Undone, UndoSteps, Named
  <2>3. CASE pc = "undoSimulator"
    BY <1>1, <2>3, RemoveNames, PartNames DEF Undone, UndoSteps, Named
  <2> QED BY <1>1, <2>1, <2>2, <2>3
<1>6. Built' /\ Wiped'
  BY <1>1, <1>3 DEF Built, Wiped, NoRecord
<1> QED BY <1>1, <1>4, <1>5, <1>6, NoRecordNoConfession

LEMMA SaveErrorKeeps ==
    ASSUME IInv, SaveError
    PROVE  IInv'
<1> USE DEF IInv
<1>1. PICK text : /\ text = errors \ {"cause"} \/ text = errors
                  /\ record' = [status |-> "reset_error", paths |-> paths, error |-> text]
  BY DEF SaveError
<1>2. /\ pc = "saveError" /\ pc' = "idle" /\ paths' = {}
      /\ UNCHANGED <<service, crashes, begun, disk, errors, answer>>
      /\ begun /\ answer = "none" /\ (paths = {} \/ paths = {"tree", "git"})
      /\ Named("tree") /\ Named("git") /\ Named("simulator")
  BY DEF SaveError, Undone, UndoSteps, Phases, Making
<1>3. TypeOK' /\ Phases'
  BY <1>1, <1>2 DEF TypeOK, Phases, Making, BuildSteps, UndoSteps, WipeSteps, NoRecord
<1>4. Built' /\ Undone' /\ Wiped'
  BY <1>1, <1>2 DEF Built, Undone, UndoSteps, Wiped
<1>5. \A p \in Parts : disk[p] = "absent" \/ p \in text
  BY <1>1, <1>2, PartNames DEF Named
<1>6. ResetErrorConfesses' /\ CleanupConfesses'
  BY <1>1, <1>2, <1>5 DEF ResetErrorConfesses, CleanupConfesses, Present
<1> QED BY <1>3, <1>4, <1>6

LEMMA CleanupKeeps ==
    ASSUME IInv, Cleanup
    PROVE  IInv'
<1> USE DEF IInv
<1>1. /\ pc = "idle" /\ record # NoRecord /\ begun /\ paths = {} /\ errors' = {} /\ answer' = "none"
      /\ UNCHANGED <<service, crashes, begun, paths, record>>
  BY DEF Cleanup, LoopFree, Phases, Making, BuildSteps, UndoSteps
<1>2. \/ "tree" \in record.paths /\ pc' = "wipeTree" /\ disk' = [disk EXCEPT !["tree"] = Tear(@)]
      \/ "tree" \notin record.paths /\ pc' = "wipeSimulator" /\ disk' = disk
  BY DEF Cleanup
<1>3. /\ disk' \in [Parts -> {"absent", "torn", "whole"}]
      /\ \A p \in Parts : p # "tree" => disk'[p] = disk[p]
      /\ disk["tree"] = "absent" => disk'["tree"] = "absent"
      /\ pc' = "wipeTree" => disk'["tree"] # "whole"
  <2>1. Tear(disk["tree"]) \in {"absent", "torn"}
    BY PartNames DEF Tear, TypeOK
  <2>2. CASE disk' = [disk EXCEPT !["tree"] = Tear(@)]
    BY <2>1, <2>2, PartNames DEF Tear, TypeOK
  <2> QED BY <1>2, <2>2 DEF TypeOK
<1>4. TypeOK' /\ Phases'
  BY <1>1, <1>2, <1>3, PartNames DEF TypeOK, Phases, Making, BuildSteps, UndoSteps, WipeSteps
<1>5. Built' /\ Undone' /\ Wiped'
  BY <1>1, <1>2, <1>3, PartNames DEF Built, Undone, UndoSteps, Wiped, AllPaths
<1>6. ResetErrorConfesses' /\ CleanupConfesses'
  <2>1. \A p \in Parts : disk[p] = "absent" => disk'[p] = "absent"
    BY <1>3
  <2> QED BY <1>1, <1>3, <2>1, NothingAppears DEF CleanupConfesses
<1> QED BY <1>4, <1>5, <1>6

LEMMA WipeDirectoryKeeps ==
    ASSUME IInv, WipeDirectory
    PROVE  IInv'
<1> USE DEF IInv
<1>1. /\ \/ pc = "wipeTree" /\ Remove("tree") /\ pc' = "wipeGit"
         \/ pc = "wipeGit" /\ Remove("git") /\ pc' = "wipeSimulator"
      /\ UNCHANGED <<service, crashes, begun, paths, record, answer>>
      /\ record # NoRecord /\ answer = "none" /\ paths = {} /\ begun /\ "tree" \in record.paths
  BY DEF WipeDirectory, PartOf, AfterRemoval, Phases, Wiped, WipeSteps, Making, BuildSteps, UndoSteps
<1>2. PICK part \in {"tree", "git"} : Remove(part)
  BY <1>1
<1>3. /\ disk' \in [Parts -> {"absent", "torn", "whole"}] /\ errors' \subseteq Parts \cup {"cause"}
      /\ \A p \in Parts : disk[p] = "absent" => disk'[p] = "absent"
  BY <1>2, RemoveNames, PartNames
<1>4. TypeOK' /\ Phases'
  BY <1>1, <1>3, PartNames DEF TypeOK, Phases, Making, BuildSteps, UndoSteps, WipeSteps
<1>5. Wiped'
  <2>1. CASE pc = "wipeTree"
    BY <1>1, <2>1, RemoveNames, PartNames DEF Wiped, Named
  <2>2. CASE pc = "wipeGit"
    BY <1>1, <2>2, RemoveNames, PartNames DEF Wiped, Named
  <2> QED BY <1>1, <2>1, <2>2
<1>6. Built' /\ Undone'
  BY <1>1, <1>3, PartNames DEF Built, Undone, UndoSteps
<1>7. ResetErrorConfesses' /\ CleanupConfesses'
  BY <1>1, <1>3, NothingAppears DEF CleanupConfesses
<1> QED BY <1>4, <1>5, <1>6, <1>7

LEMMA WipeSimulatorKeeps ==
    ASSUME IInv, WipeSimulator
    PROVE  IInv'
<1> USE DEF IInv
<1>1. /\ pc = "wipeSimulator" /\ pc' = "idle" /\ record # NoRecord /\ paths = {} /\ begun
      /\ UNCHANGED <<service, crashes, begun, paths, record>>
      /\ answer' \in {"cleaned", "failed"}
  BY DEF WipeSimulator, Phases, WipeSteps, Making, BuildSteps, UndoSteps
<1>2. /\ disk' \in [Parts -> {"absent", "torn", "whole"}] /\ errors' \subseteq Parts \cup {"cause"}
      /\ errors \subseteq errors'
      /\ \A p \in Parts : p # "simulator" => disk'[p] = disk[p]
      /\ disk["simulator"] = "absent" => disk'["simulator"] = "absent"
      /\ "simulator" \in record.paths => Named("simulator")'
  <2>1. CASE Remove("simulator")
    BY <2>1, RemoveNames, PartNames
  <2>2. CASE "simulator" \notin record.paths /\ UNCHANGED <<disk, errors>>
    BY <2>2 DEF TypeOK
  <2> QED BY <2>1, <2>2 DEF WipeSimulator
<1>3. TypeOK' /\ Phases'
  BY <1>1, <1>2, PartNames DEF TypeOK, Phases, Making, BuildSteps, UndoSteps, WipeSteps
<1>4. Built' /\ Undone' /\ Wiped'
  BY <1>1, <1>2, PartNames DEF Built, Undone, UndoSteps, Wiped
<1>5. \A p \in record.paths : disk'[p] = "absent" \/ p \in errors'
  <2>1. CASE record.paths = {}
    BY <2>1
  <2>2. CASE Named("tree") /\ Named("git") /\ record.paths \subseteq Parts
    BY <1>2, <2>2, PartNames DEF Named
  <2> QED BY <1>1, <2>1, <2>2 DEF Wiped, TypeOK
<1>6. ResetErrorConfesses' /\ CleanupConfesses'
  <2>1. \A p \in Parts : disk[p] = "absent" => disk'[p] = "absent"
    BY <1>2
  <2>2. CleanupConfesses'
    BY <1>1, <1>5 DEF CleanupConfesses, Present
  <2> QED BY <1>1, <1>2, <2>1, <2>2, NothingAppears
<1> QED BY <1>3, <1>4, <1>6

LEMMA CrashKeeps ==
    ASSUME IInv, Crash
    PROVE  IInv' /\ \A p \in Parts : disk[p] = "absent" <=> disk'[p] = "absent"
<1> USE DEF IInv
<1>1. /\ pc' = "idle" /\ paths' = {} /\ errors' = {} /\ answer' = "none" /\ UNCHANGED <<begun, record>>
      /\ service' = "down" /\ crashes' = crashes + 1 /\ crashes < MaxCrashes
  BY DEF Crash
<1>2. /\ disk' \in [Parts -> {"absent", "torn", "whole"}]
      /\ \A p \in Parts : disk[p] = "absent" <=> disk'[p] = "absent"
  <2>1. CASE disk' = [disk EXCEPT ![PartOf(pc)] = Tear(@)]
    BY <2>1, PartNames DEF Tear, PartOf, TypeOK
  <2> QED BY <2>1 DEF Crash, TypeOK
<1>3. TypeOK'
  <2>1. crashes' \in 0 .. MaxCrashes
    BY <1>1, CrashesAssumption DEF TypeOK
  <2> QED BY <1>1, <1>2, <2>1 DEF TypeOK
<1>4. Phases'
  BY <1>1, <1>2, PartNames DEF Phases, Making, BuildSteps, UndoSteps, WipeSteps
<1>5. Built' /\ Undone' /\ Wiped'
  BY <1>1, <1>2, PartNames DEF Built, Undone, UndoSteps, Wiped
<1>6. ResetErrorConfesses' /\ CleanupConfesses'
  BY <1>1, <1>2, NothingAppears DEF CleanupConfesses
<1> QED BY <1>2, <1>3, <1>4, <1>5, <1>6

LEMMA StillKeeps ==
    ASSUME IInv, Boot \/ UNCHANGED vars
    PROVE  IInv'
<1>1. /\ service' \in {"down", "booting", "serving"}
      /\ UNCHANGED <<crashes, begun, pc, paths, disk, errors, record, answer>>
  BY DEF Boot, vars, IInv, TypeOK
<1> QED BY <1>1 DEF IInv, TypeOK, Phases, Built, Undone, Wiped, Named, ResetErrorConfesses, CleanupConfesses, Present

LEMMA StepInvariant == IInv /\ [Next]_vars => IInv'
<1> SUFFICES ASSUME IInv, [Next]_vars PROVE IInv'
  OBVIOUS
<1> QED BY PrepareKeeps, BuildKeeps, BuildFailsKeeps, SaveKeeps, UndoKeeps, SaveErrorKeeps, CleanupKeeps,
           WipeDirectoryKeeps, WipeSimulatorKeeps, CrashKeeps, StillKeeps DEF Next

(* The strengthened invariant, for any number of crashes.                   *)
THEOREM PreparationInvariant == Spec => []IInv
  BY InitInvariant, StepInvariant, PTL DEF Spec

(* prepare_run: the error text of a failed preparation names every part of  *)
(* the Run that is on the disk.                                             *)
THEOREM FailuresAreConfessed == Spec => []ResetErrorConfesses
<1>1. IInv => ResetErrorConfesses
  BY DEF IInv
<1> QED BY <1>1, PreparationInvariant, PTL

(* cleanup_run: what is left of the recorded parts is what it answered.     *)
THEOREM CleanupsAreConfessed == Spec => []CleanupConfesses
<1>1. IInv => CleanupConfesses
  BY DEF IInv
<1> QED BY <1>1, PreparationInvariant, PTL
-----------------------------------------------------------------------------
(* The refinement of RunLifecycle.                                          *)

LEMMA RunSet ==
    \A a, b : [[r \in {Run} |-> a] EXCEPT ![Run] = b] = [r \in {Run} |-> b]
  OBVIOUS

LEMMA LoopMoves ==
    \A a, b : [[t \in {Run, Loop} |-> IF t = Loop THEN a ELSE "idle"] EXCEPT ![Loop] = b]
                = [t \in {Run, Loop} |-> IF t = Loop THEN b ELSE "idle"]
  OBVIOUS

LEMMA HandKept ==
    \A a : [[t \in {Run, Loop} |-> a] EXCEPT ![Loop] = a] = [t \in {Run, Loop} |-> a]
  OBVIOUS

Unseen == UNCHANGED <<service, crashes, RecordThere, TreeThere, GitThere, SimulatorThere, StepThere,
                      IF pc = "idle" THEN Loop ELSE Run>>

LEMMA UnseenStutters == Unseen => UNCHANGED R!vars
BY DEF Unseen, R!vars, R!durable, R!files, R!threads, NothingInHand

LEMMA InitMaps == Init => R!Init
<1> SUFFICES ASSUME Init PROVE R!Init
  OBVIOUS
<1>1. /\ RecordThere = NothingInHand /\ TreeThere = "none" /\ GitThere = FALSE
      /\ SimulatorThere = "none" /\ StepThere = "idle" /\ pc = "idle"
      /\ service = "serving" /\ crashes = 0
  <2>1. record.status = "absent" /\ ("tree" \in record.paths) = FALSE /\ ("simulator" \in record.paths) = FALSE
    BY DEF Init, NoRecord
  <2>2. RecordThere = NothingInHand
    BY <2>1 DEF RecordThere, NothingInHand
  <2>3. GitThere = FALSE
    BY DEF Init, GitThere
  <2> QED BY <2>2, <2>3 DEF Init, NoRecord, TreeThere, SimulatorThere, StepThere
<1> HIDE DEF RecordThere, TreeThere, GitThere, SimulatorThere, StepThere
<1> QED BY <1>1 DEF R!Init, R!NoRecord, R!NoScore, R!L!NoScore, R!NoTally, R!Threads, NothingInHand

(* prepare_run begins: nothing was there, and from now on it is being built. *)
LEMMA PrepareMaps ==
    ASSUME IInv, Prepare
    PROVE  R!PrepareBegin(Run)
<1>1. /\ RecordThere = NothingInHand /\ TreeThere = "none" /\ StepThere = "idle"
      /\ UNCHANGED <<RecordThere, SimulatorThere, service, crashes>> /\ service = "serving"
      /\ TreeThere' = "torn" /\ GitThere' = TRUE /\ StepThere' = "building"
      /\ pc = "idle" /\ pc' # "idle"
  <2>1. record = NoRecord /\ ~begun /\ begun' /\ UNCHANGED <<record, disk>>
    BY DEF Prepare, LoopFree, IInv, Phases
  <2>2. record.status = "absent" /\ ("tree" \in record.paths) = FALSE /\ ("simulator" \in record.paths) = FALSE
    BY <2>1 DEF NoRecord
  <2>3. RecordThere = NothingInHand
    BY <2>2 DEF RecordThere, NothingInHand
  <2>4. GitThere' = TRUE
    BY <2>1 DEF GitThere
  <2> QED BY <2>1, <2>3, <2>4 DEF Prepare, LoopFree, TreeThere, StepThere, SimulatorThere, RecordThere
<1>2. R!LoopFree /\ R!Goto(Loop, "building") /\ (IF pc' = "idle" THEN Loop ELSE Run) = Run
  BY <1>1, LoopMoves DEF R!LoopFree, R!Goto
<1> HIDE DEF RecordThere, TreeThere, GitThere, SimulatorThere, StepThere
<1> QED BY <1>1, <1>2, RunSet DEF R!PrepareBegin, R!NoRecord, R!durable, NothingInHand

LEMMA AnswerMaps ==
    ASSUME pc' = "idle", StepThere' = "idle"
    PROVE  R!Answer
BY LoopMoves, HandKept DEF R!Answer, R!Goto, R!NoRecord, R!NoTally, NothingInHand

(* The operations in between are not seen.                                  *)
LEMMA MakingUnseen ==
    ASSUME pc \in Making, pc' \in Making, begun, record = NoRecord,
           UNCHANGED <<service, crashes, begun, record>>
    PROVE  Unseen
<1>1. pc # "idle" /\ pc' # "idle"
  BY DEF Making, BuildSteps, UndoSteps
<1> QED BY <1>1 DEF Unseen, RecordThere, TreeThere, GitThere, SimulatorThere, StepThere

LEMMA BuildMaps ==
    ASSUME IInv, BuildStep \/ BuildFails \/ UndoStep
    PROVE  Unseen
<1>1. pc \in Making /\ pc' \in Making
  BY BuildOrder DEF Makes, BuildFails, UndoStep, Making, BuildSteps, UndoSteps, AfterRemoval
<1> QED BY <1>1, MakingUnseen DEF BuildStep, BuildFails, UndoStep, IInv, Phases

LEMMA SaveMaps ==
    ASSUME IInv, Save
    PROVE  R!PrepareReady(Run)
<1>1. /\ begun /\ begun' /\ record = NoRecord /\ pc = "save" /\ pc' = "idle" /\ disk' = disk
      /\ record' = [status |-> "ready", paths |-> AllPaths, error |-> {}] /\ record' # NoRecord
      /\ disk["tree"] = "whole" /\ disk["git"] = "whole"
      /\ disk["simulator"] = IF Issue THEN "whole" ELSE "absent"
      /\ UNCHANGED <<service, crashes>>
  BY IssueAssumption DEF Save, IInv, Phases, Built, Making, NoRecord
<1>2. /\ record'.status = "ready" /\ ("tree" \in record'.paths) = TRUE
      /\ ("simulator" \in record'.paths) = (Issue = TRUE)
  BY <1>1, IssueAssumption DEF AllPaths
<1>3. RecordThere' = [status |-> "ready", attempted |-> FALSE, workspace |-> TRUE, simulator |-> Issue = TRUE]
  BY <1>2 DEF RecordThere
<1>4. /\ TreeThere' = "intact" /\ SimulatorThere' = (IF Issue THEN "open" ELSE "none")
      /\ StepThere = "building" /\ StepThere' = "idle" /\ pc # "idle" /\ pc' = "idle"
  BY <1>1, <1>2 DEF TreeThere, SimulatorThere, StepThere
<1>5. GitThere' = GitThere
  BY <1>1 DEF GitThere
<1>6. (Run \in IF Issue THEN {Run} ELSE {}) = (Issue = TRUE)
  BY IssueAssumption
<1>7. R!Answer
  BY <1>4, AnswerMaps
<1> HIDE DEF RecordThere, TreeThere, GitThere, SimulatorThere, StepThere
<1>8. R!SaveRun(Run, [status |-> "ready", attempted |-> FALSE, workspace |-> TRUE,
                      simulator |-> Run \in IF Issue THEN {Run} ELSE {}])
  BY <1>3, <1>6, RunSet DEF R!SaveRun
<1> QED BY <1>1, <1>4, <1>5, <1>6, <1>7, <1>8, RunSet DEF R!PrepareReady

LEMMA SaveErrorMaps ==
    ASSUME IInv, SaveError
    PROVE  R!PrepareFailed(Run)
<1>1. /\ begun /\ begun' /\ record = NoRecord /\ pc = "saveError" /\ pc' = "idle" /\ disk' = disk
      /\ record'.status = "reset_error" /\ record'.paths = paths /\ record' # NoRecord
      /\ disk["tree"] \in {"absent", "torn"}
      /\ (paths = {} /\ disk["simulator"] = "absent") \/ (paths = {"tree", "git"} /\ Issue)
      /\ UNCHANGED <<service, crashes>>
  BY DEF SaveError, IInv, Phases, Undone, Named, Making, NoRecord
<1>2. ("simulator" \in record'.paths) = FALSE
  BY <1>1
<1>3. TreeThere' \in {"gone", "torn"}
  BY <1>1 DEF TreeThere
<1>4. StepThere = "building" /\ StepThere' = "idle" /\ pc # "idle" /\ SimulatorThere = "none"
  BY <1>1 DEF StepThere, SimulatorThere
<1>5. GitThere = TRUE /\ GitThere' \in BOOLEAN
  BY <1>1 DEF GitThere
<1>6. R!Answer
  BY <1>1, <1>4, AnswerMaps
<1>7. CASE paths = {} /\ disk["simulator"] = "absent"
  <2>1. ("tree" \in record'.paths) = FALSE
    BY <1>1, <1>7
  <2>2. RecordThere' = [status |-> "reset_error", attempted |-> FALSE, workspace |-> FALSE, simulator |-> FALSE]
    BY <1>1, <1>2, <2>1 DEF RecordThere
  <2>3. SimulatorThere' = SimulatorThere
    BY <1>1, <1>4, <1>7 DEF SimulatorThere
  <2> HIDE DEF RecordThere, TreeThere, GitThere, SimulatorThere, StepThere
  <2> QED BY <1>1, <1>3, <1>4, <1>5, <1>6, <2>2, <2>3, RunSet DEF R!PrepareFailed, R!SaveRun, R!NoRecord
<1>8. CASE paths = {"tree", "git"} /\ Issue
  <2>1. ("tree" \in record'.paths) = TRUE
    BY <1>1, <1>8
  <2>2. RecordThere' = [status |-> "reset_error", attempted |-> FALSE, workspace |-> TRUE, simulator |-> FALSE]
    BY <1>1, <1>2, <2>1 DEF RecordThere
  <2>3. SimulatorThere' \in {"gone", "open"}
    BY <1>1, <1>8 DEF SimulatorThere
  <2> HIDE DEF RecordThere, TreeThere, GitThere, SimulatorThere, StepThere
  <2> QED BY <1>1, <1>3, <1>4, <1>5, <1>6, <1>8, <2>2, <2>3, RunSet DEF R!PrepareFailed, R!SaveRun, R!NoRecord
<1> QED BY <1>1, <1>7, <1>8

LEMMA CleanupMaps ==
    ASSUME IInv, Cleanup
    PROVE  R!CleanupBegin(Run)
<1>1. /\ record # NoRecord /\ record.status # "absent" /\ begun /\ pc = "idle" /\ service = "serving"
      /\ UNCHANGED <<record, begun, service, crashes>>
  BY DEF Cleanup, LoopFree, IInv, Phases
<1>2. /\ UNCHANGED <<RecordThere, GitThere, SimulatorThere>> /\ StepThere = "idle"
      /\ RecordThere # NothingInHand /\ RecordThere.workspace = ("tree" \in record.paths)
  <2>1. disk'["git"] = disk["git"] /\ disk'["simulator"] = disk["simulator"]
    BY PartNames DEF Cleanup, IInv, TypeOK
  <2> QED BY <1>1, <2>1 DEF RecordThere, NothingInHand, GitThere, SimulatorThere, StepThere
<1>3. CASE "tree" \in record.paths
  <2>1. pc' = "wipeTree" /\ disk' = [disk EXCEPT !["tree"] = Tear(@)]
    BY <1>3 DEF Cleanup
  <2>2. /\ disk["tree"] = "absent" => disk'["tree"] = "absent"
        /\ disk["tree"] # "absent" => disk'["tree"] = "torn"
    BY <2>1, PartNames DEF Tear, IInv, TypeOK
  <2>3. TreeThere' = (IF TreeThere = "gone" THEN "gone" ELSE "torn") /\ StepThere' = "wipeTree"
    BY <1>1, <2>1, <2>2 DEF TreeThere, StepThere
  <2>4. RecordThere.workspace = TRUE
    BY <1>2, <1>3
  <2> HIDE DEF RecordThere, TreeThere, GitThere, SimulatorThere, StepThere
  <2> QED BY <1>1, <1>2, <2>1, <2>3, <2>4, RunSet, LoopMoves
          DEF R!CleanupBegin, R!LoopFree, R!Goto, R!NoRecord, R!durable, NothingInHand
<1>4. CASE "tree" \notin record.paths
  <2>1. pc' = "wipeSimulator" /\ disk' = disk
    BY <1>4 DEF Cleanup
  <2>2. TreeThere' = TreeThere /\ StepThere' = "wipeSimulator"
    BY <1>1, <2>1 DEF TreeThere, StepThere
  <2>3. ~RecordThere.workspace
    BY <1>4 DEF RecordThere
  <2> HIDE DEF RecordThere, TreeThere, GitThere, SimulatorThere, StepThere
  <2> QED BY <1>1, <1>2, <2>1, <2>2, <2>3, RunSet, LoopMoves
          DEF R!CleanupBegin, R!LoopFree, R!Goto, R!NoRecord, R!durable, NothingInHand
<1> QED BY <1>3, <1>4

LEMMA WipeDirectoryMaps ==
    ASSUME IInv, WipeDirectory
    PROVE  R!WipeTree(Run) \/ R!WipeGit(Run)
<1>1. /\ record # NoRecord /\ begun /\ pc # "idle" /\ pc' # "idle" /\ "tree" \in record.paths
      /\ UNCHANGED <<record, begun, service, crashes>>
      /\ \/ pc = "wipeTree" /\ Remove("tree") /\ pc' = "wipeGit" /\ disk["tree"] # "whole"
         \/ pc = "wipeGit" /\ Remove("git") /\ pc' = "wipeSimulator"
  BY DEF WipeDirectory, PartOf, AfterRemoval, IInv, Phases, Wiped, WipeSteps
<1>2. UNCHANGED RecordThere /\ StepThere = pc /\ StepThere' = pc'
  BY <1>1 DEF RecordThere, StepThere
<1>3. CASE pc = "wipeTree"
  <2>1. /\ disk'["git"] = disk["git"] /\ disk'["simulator"] = disk["simulator"]
        /\ disk'["tree"] = "absent" \/ (disk["tree"] = "torn" /\ disk'["tree"] = "torn")
    BY <1>1, <1>3, RemoveNames, PartNames DEF IInv, TypeOK, Named
  <2>2. TreeThere' = "gone" \/ TreeThere' = TreeThere
    BY <1>1, <2>1 DEF TreeThere
  <2>3. UNCHANGED <<GitThere, SimulatorThere>>
    BY <1>1, <2>1 DEF GitThere, SimulatorThere
  <2> HIDE DEF RecordThere, TreeThere, GitThere, SimulatorThere, StepThere
  <2> QED BY <1>1, <1>2, <1>3, <2>2, <2>3, RunSet, LoopMoves DEF R!WipeTree, R!Goto, R!durable
<1>4. CASE pc = "wipeGit"
  <2>1. /\ disk'["tree"] = disk["tree"] /\ disk'["simulator"] = disk["simulator"]
        /\ disk'["git"] = "absent" \/ (disk["git"] # "absent" /\ disk'["git"] # "absent")
    BY <1>1, <1>4, RemoveNames, PartNames DEF IInv, TypeOK, Named
  <2>2. GitThere' = FALSE \/ GitThere' = GitThere
    BY <1>1, <2>1 DEF GitThere
  <2>3. UNCHANGED <<TreeThere, SimulatorThere>>
    BY <1>1, <2>1 DEF TreeThere, SimulatorThere
  <2> HIDE DEF RecordThere, TreeThere, GitThere, SimulatorThere, StepThere
  <2> QED BY <1>1, <1>2, <1>4, <2>2, <2>3, RunSet, LoopMoves DEF R!WipeGit, R!Goto, R!durable
<1> QED BY <1>1, <1>3, <1>4

LEMMA WipeSimulatorMaps ==
    ASSUME IInv, WipeSimulator
    PROVE  R!WipeSimulator(Run)
<1>1. /\ record # NoRecord /\ begun /\ pc = "wipeSimulator" /\ pc' = "idle"
      /\ UNCHANGED <<record, begun, service, crashes>>
  BY DEF WipeSimulator, IInv, Phases, WipeSteps
<1>2. /\ disk'["tree"] = disk["tree"] /\ disk'["git"] = disk["git"]
      /\ \/ disk'["simulator"] = disk["simulator"]
         \/ "simulator" \in record.paths
              /\ (disk'["simulator"] = "absent" \/ (disk["simulator"] # "absent" /\ disk'["simulator"] # "absent"))
  <2>1. CASE Remove("simulator")
    BY <2>1, RemoveNames, PartNames DEF IInv, WipeSimulator, Remove, TypeOK, Named
  <2> QED BY <2>1 DEF WipeSimulator
<1>3. "simulator" \in record.paths => Issue /\ "tree" \in record.paths
  BY DEF IInv, Wiped, AllPaths
<1>4. UNCHANGED <<RecordThere, TreeThere, GitThere>> /\ StepThere' = "idle" /\ StepThere = "wipeSimulator"
  BY <1>1, <1>2 DEF RecordThere, TreeThere, GitThere, StepThere
<1>5. (RecordThere.simulator /\ SimulatorThere' = "gone") \/ SimulatorThere' = SimulatorThere
  BY <1>1, <1>2, <1>3 DEF RecordThere, SimulatorThere
<1>6. R!Answer
  BY <1>1, <1>4, AnswerMaps
<1> HIDE DEF RecordThere, TreeThere, GitThere, SimulatorThere, StepThere
<1> QED BY <1>1, <1>4, <1>5, <1>6, RunSet DEF R!WipeSimulator, R!durable

LEMMA CrashMaps ==
    ASSUME IInv, Crash
    PROVE  R!Crash
<1>1. /\ service # "down" /\ crashes < MaxCrashes /\ service' = "down" /\ crashes' = crashes + 1
      /\ pc' = "idle" /\ UNCHANGED <<begun, record>>
  BY DEF Crash
<1>2. UNCHANGED <<RecordThere, GitThere, SimulatorThere>> /\ StepThere' = "idle"
  BY <1>1, CrashKeeps, PartNames DEF RecordThere, GitThere, SimulatorThere, StepThere
<1>3. TreeThere' = TreeThere
  <2>1. CASE begun /\ record # NoRecord
    <3>1. disk'["tree"] = disk["tree"] \/ (disk["tree"] = "torn" /\ disk'["tree"] = "torn")
      <4>1. pc \notin BuildSteps \cup UndoSteps
        BY <2>1 DEF IInv, Phases, Making
      <4>2. CASE pc \in WipeSteps /\ disk' = [disk EXCEPT ![PartOf(pc)] = Tear(@)]
        BY <4>2, PartNames DEF Tear, PartOf, WipeSteps, IInv, TypeOK, Wiped
      <4> QED BY <4>1, <4>2 DEF Crash
    <3> QED BY <1>1, <2>1, <3>1 DEF TreeThere
  <2>2. CASE ~(begun /\ record # NoRecord)
    BY <1>1, <2>2 DEF TreeThere
  <2> QED BY <2>1, <2>2
<1>4. [t \in {Run, Loop} |-> IF t = Loop THEN StepThere' ELSE "idle"] = [t \in {Run, Loop} |-> "idle"]
  BY <1>2
<1> HIDE DEF RecordThere, TreeThere, GitThere, SimulatorThere, StepThere
<1> QED BY <1>1, <1>2, <1>3, <1>4 DEF R!Crash, R!Threads, R!NoRecord, R!NoTally, R!durable, R!files, NothingInHand

LEMMA BootMaps ==
    ASSUME IInv, Boot
    PROVE  R!Boot \/ R!Serve
<1>1. UNCHANGED <<crashes, begun, pc, paths, disk, errors, record, answer>>
  BY DEF Boot
<1>2. UNCHANGED <<RecordThere, TreeThere, GitThere, SimulatorThere, StepThere>>
  BY <1>1 DEF RecordThere, TreeThere, GitThere, SimulatorThere, StepThere
<1>3. RecordThere.status \notin R!Interrupted
  BY DEF RecordThere, R!Interrupted, R!L!Interrupted, IInv, TypeOK
<1> HIDE DEF RecordThere, TreeThere, GitThere, SimulatorThere, StepThere
<1>4. CASE service = "down" /\ service' = "booting"
  BY <1>1, <1>2, <1>4 DEF R!Boot, R!durable, R!files, R!threads, NothingInHand
<1>5. CASE service = "booting" /\ service' = "serving"
  BY <1>1, <1>2, <1>3, <1>5 DEF R!Serve, R!durable, R!files, R!threads, NothingInHand
<1> QED BY <1>4, <1>5 DEF Boot, IInv, TypeOK

LEMMA StepMaps == IInv /\ [Next]_vars => [R!Next]_R!vars
<1> SUFFICES ASSUME IInv, [Next]_vars PROVE [R!Next]_R!vars
  OBVIOUS
<1>1. CASE UNCHANGED vars
  <2>1. Unseen
    BY <1>1 DEF vars, Unseen, RecordThere, TreeThere, GitThere, SimulatorThere, StepThere
  <2> QED BY <2>1, UnseenStutters
<1>2. CASE BuildStep \/ BuildFails \/ UndoStep
  BY <1>2, BuildMaps, UnseenStutters
<1>3. CASE Prepare \/ Cleanup
  <2>1. R!Request(Run)
    BY <1>3, PrepareMaps, CleanupMaps DEF R!Request
  <2> QED BY <2>1 DEF R!Next
<1>4. CASE Save \/ SaveError \/ WipeDirectory \/ WipeSimulator
  <2>1. R!HandlerStep(Run)
    BY <1>4, SaveMaps, SaveErrorMaps, WipeDirectoryMaps, WipeSimulatorMaps DEF R!HandlerStep
  <2> QED BY <2>1 DEF R!Next
<1>5. CASE Crash
  BY <1>5, CrashMaps DEF R!Next
<1>6. CASE Boot
  BY <1>6, BootMaps DEF R!Next
<1> QED BY <1>1, <1>2, <1>3, <1>4, <1>5, <1>6 DEF Next

(* prepare_run and cleanup_run, one file operation at a time, are what      *)
(* RunLifecycle makes of them in two steps, whatever fails and dies.        *)
THEOREM LifecycleIsImplemented == Spec => ImplementsLifecycle
  BY InitMaps, StepMaps, PreparationInvariant, PTL DEF Spec, ImplementsLifecycle, R!Spec
=============================================================================
