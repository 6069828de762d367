------------------------------- MODULE CaseGate -------------------------------
(***************************************************************************)
(* generate_cases: the three Cases of a Blueprint, each gated by a baseline *)
(* that fails, a correct state that passes and two resets that match, and   *)
(* stored together once all are gated.  A service generates on its event    *)
(* loop, one Blueprint at a time; a second service on the same data         *)
(* directory has a loop of its own and shares the database.  Gating takes   *)
(* minutes of git, containers and files, any of which may fail, and either  *)
(* service may die meanwhile.  Every generation names its Cases anew, so    *)
(* that the files of two generations are never the same.                    *)
(***************************************************************************)
EXTENDS Naturals

CONSTANTS
    Services,       \* the service processes on the data directory
    IssuePr,        \* whether the Blueprint is an ISSUE_PR one
    LastVariant,    \* 2: the source Case and two derived ones
    MaxGenerations  \* bound: how often the Cases are generated

ASSUME IssuePrAssumption == IssuePr \in BOOLEAN
ASSUME VariantAssumption == LastVariant \in Nat /\ MaxGenerations \in Nat

VARIABLES
    cases,          \* the Cases stored for the Blueprint
    generations,    \* how many generations were begun
    pc,             \* pc[s]: the operation generation is at
    gate,           \* gate[s]: what _validate_case knows of the Case it gates
    drafts,         \* drafts[s]: the CaseRecords of this generation so far
    disk            \* worktrees and gate databases, by Case and purpose

vars == <<cases, generations, pc, gate, drafts, disk>>

Variants  == 0 .. LastVariant
Worktrees == {"baseline", "reset", "solution"}
Parts     == Worktrees \cup {"issue"}

(* A Case is named by its generation and its variant. *)
CaseIds == [generation : 1 .. MaxGenerations, variant : Variants]

(* held: the paths the gate would have to remove; first: the fingerprint of *)
(* the first baseline; good: whether the results so far are those of a Case *)
(* that passes, with no exception among them.                               *)
NoGate == [generation |-> 0, variant |-> 0, held |-> {}, first |-> "none", good |-> TRUE]

GateSteps ==
    {"document", "addBaseline", "fingerprint", "dropBaseline", "addReset", "refingerprint",
     "runBaseline", "dropReset", "addSolution", "runSolution", "issue", "finally"}

Gates ==
    [generation : 0 .. MaxGenerations, variant : Variants, held : SUBSET Worktrees,
     first : {"none", "exact", "other"}, good : BOOLEAN]

CaseRecords == [id : CaseIds, parent : CaseIds, passed : BOOLEAN]

TypeOK ==
    /\ cases \subseteq CaseRecords
    /\ generations \in 0 .. MaxGenerations
    /\ pc \in [Services -> GateSteps \cup {"idle", "save"}]
    /\ gate \in [Services -> Gates]
    /\ drafts \in [Services -> SUBSET CaseRecords]
    /\ disk \subseteq CaseIds \X Parts

Init ==
    /\ cases = {} /\ generations = 0
    /\ pc = [s \in Services |-> "idle"]
    /\ gate = [s \in Services |-> NoGate]
    /\ drafts = [s \in Services |-> {}]
    /\ disk = {}

-----------------------------------------------------------------------------
CaseId(s) == [generation |-> gate[s].generation, variant |-> gate[s].variant]

Goto(s, step) == pc' = [pc EXCEPT ![s] = step]

(* An exception inside the try block of _validate_case. *)
Raise(s) ==
    /\ gate' = [gate EXCEPT ![s].good = FALSE]
    /\ Goto(s, "finally")

(* The handler is over; what it had drafted is forgotten. *)
Return(s) ==
    /\ Goto(s, "idle")
    /\ gate' = [gate EXCEPT ![s] = NoGate]
    /\ drafts' = [drafts EXCEPT ![s] = {}]

(* list_cases finds nothing; otherwise the answer is what it found. *)
Generate(s) ==
    /\ pc[s] = "idle" /\ cases = {}
    /\ generations < MaxGenerations
    /\ generations' = generations + 1
    /\ gate' = [gate EXCEPT ![s] = [NoGate EXCEPT !.generation = generations + 1]]
    /\ Goto(s, "document")
    /\ UNCHANGED <<cases, drafts, disk>>

(* _protocol_case and its validation: the content store or the schema may   *)
(* raise, and then there is no generation.                                  *)
Document(s) ==
    /\ pc[s] = "document"
    /\ \/ Goto(s, "addBaseline") /\ UNCHANGED <<gate, drafts>>
       \/ Return(s)
    /\ UNCHANGED <<cases, generations, disk>>

(* materialize: git worktree add and the substitution of the variable.  The *)
(* path is known to the gate only once it returns, so that an add which     *)
(* dies halfway, or a substitution that cannot be undone, leaves a worktree *)
(* that nobody will remove.  What a checkout makes of a commit may differ   *)
(* from one time to the next.                                               *)
Materialize(s, tree, next) ==
    /\ \/ /\ gate' = [gate EXCEPT ![s].held = @ \cup {tree}]
          /\ disk' = disk \cup {<<CaseId(s), tree>>}
          /\ Goto(s, next)
       \/ /\ disk' \in {disk, disk \cup {<<CaseId(s), tree>>}}
          /\ Raise(s)
    /\ UNCHANGED <<cases, generations, drafts>>

(* remove: git worktree remove and prune; the directory may be gone even if *)
(* it raises.                                                               *)
Drop(s, tree, next) ==
    /\ \/ /\ disk' = disk \ {<<CaseId(s), tree>>}
          /\ gate' = [gate EXCEPT ![s].held = @ \ {tree}]
          /\ Goto(s, next)
       \/ /\ disk' \in {disk, disk \ {<<CaseId(s), tree>>}}
          /\ Raise(s)
    /\ UNCHANGED <<cases, generations, drafts>>

AddBaseline(s)  == pc[s] = "addBaseline"  /\ Materialize(s, "baseline", "fingerprint")
DropBaseline(s) == pc[s] = "dropBaseline" /\ Drop(s, "baseline", "addReset")
AddReset(s)     == pc[s] = "addReset"     /\ Materialize(s, "reset", "refingerprint")
DropReset(s)    == pc[s] = "dropReset"    /\ Drop(s, "reset", "addSolution")
AddSolution(s)  == pc[s] = "addSolution"  /\ Materialize(s, "solution", "runSolution")

(* _workspace_state_digest of what the checkouts made. *)
Fingerprint(s) ==
    /\ pc[s] = "fingerprint"
    /\ \/ /\ Goto(s, "dropBaseline")
          /\ \E content \in {"exact", "other"} : gate' = [gate EXCEPT ![s].first = content]
       \/ Raise(s)
    /\ UNCHANGED <<cases, generations, drafts, disk>>

CompareReset(s) ==
    /\ pc[s] = "refingerprint"
    /\ \/ /\ Goto(s, "runBaseline")
          /\ \E content \in {"exact", "other"} :
                gate' = [gate EXCEPT ![s].first = "none", ![s].good = @ /\ gate[s].first = content]
       \/ Raise(s)
    /\ UNCHANGED <<cases, generations, drafts, disk>>

(* engine.run: the result the gate requires, another one, or an exception.  *)
(* It may also never come back: the wait for the pipes of a verifier that   *)
(* was killed has no end.                                                   *)
Verify(s, next) ==
    /\ \/ /\ Goto(s, next)
          /\ \E required \in BOOLEAN : gate' = [gate EXCEPT ![s].good = @ /\ required]
       \/ Raise(s)
    /\ UNCHANGED <<cases, generations, drafts, disk>>

RunBaseline(s) == pc[s] = "runBaseline" /\ Verify(s, "dropReset")
RunSolution(s) == pc[s] = "runSolution" /\ Verify(s, IF IssuePr THEN "issue" ELSE "finally")

(* _validate_issue_state_gate: two fresh simulator databases, one of them   *)
(* brought to the target state.  Without an exception both judgements come  *)
(* out right; removing the databases is part of it, and may raise as well.  *)
JudgeIssue(s) ==
    /\ pc[s] = "issue"
    /\ \/ Goto(s, "finally") /\ UNCHANGED <<gate, disk>>
       \/ /\ disk' \in {disk, disk \cup {<<CaseId(s), "issue">>}}
          /\ Raise(s)
    /\ UNCHANGED <<cases, generations, drafts>>

(* The Case of this gate, with the source Case of its own generation for    *)
(* parent; then the next variant.                                           *)
Draft(s, passed) ==
    /\ drafts' = [drafts EXCEPT ![s] = @ \cup
                     {[id |-> CaseId(s), parent |-> [CaseId(s) EXCEPT !.variant = 0], passed |-> passed]}]
    /\ IF gate[s].variant < LastVariant
       THEN /\ gate' = [gate EXCEPT ![s] = [NoGate EXCEPT !.generation = gate[s].generation,
                                                          !.variant = gate[s].variant + 1]]
            /\ Goto(s, "document")
       ELSE Goto(s, "save") /\ UNCHANGED gate

(* Mutant: a removal that fails does not count. *)
FinallyForgiving(s) ==
    /\ pc[s] = "finally"
    /\ \E stuck \in SUBSET gate[s].held :
          disk' = disk \ {<<CaseId(s), t>> : t \in gate[s].held \ stuck}
    /\ Draft(s, gate[s].good)
    /\ UNCHANGED <<cases, generations>>

(* Mutant: a Case is stored as soon as it is gated. *)
FinallySaving(s) ==
    /\ pc[s] = "finally"
    /\ disk' = disk \ {<<CaseId(s), t>> : t \in gate[s].held}
    /\ Draft(s, gate[s].good)
    /\ cases' = drafts'[s]
    /\ UNCHANGED generations

(* Mutant: after a removal that raises the gate is taken up again. *)
FinallyPatient(s) ==
    /\ pc[s] = "finally"
    /\ \/ /\ disk' = disk \ {<<CaseId(s), t>> : t \in gate[s].held}
          /\ Draft(s, gate[s].good)
       \/ gate[s].held # {} /\ Goto(s, "runBaseline") /\ UNCHANGED <<disk, drafts, gate>>
    /\ UNCHANGED <<cases, generations>>

(* Each worktree the gate still holds is removed, and any removal that      *)
(* raises makes the gate fail.                                              *)
Finally(s) ==
    /\ pc[s] = "finally"
    /\ \E raised \in SUBSET gate[s].held : \E left \in SUBSET raised :
          /\ disk' = disk \ {<<CaseId(s), t>> : t \in gate[s].held \ left}
          /\ Draft(s, gate[s].good /\ raised = {})
    /\ UNCHANGED <<cases, generations>>

(* Mutant: rows of the same variant are replaced. *)
SaveOrReplace(s) ==
    /\ pc[s] = "save"
    /\ cases' = drafts[s]
    /\ Return(s)
    /\ UNCHANGED <<generations, disk>>

(* save_cases, one transaction: another generation that was stored in the   *)
(* meantime violates the uniqueness of a variant and nothing is inserted.   *)
SaveCases(s) ==
    /\ pc[s] = "save"
    /\ cases' = IF cases = {} THEN drafts[s] ELSE cases
    /\ Return(s)
    /\ UNCHANGED <<generations, disk>>

(* A service dies, is started again, and knows nothing of its generation.   *)
Crash(s) ==
    /\ pc[s] # "idle"
    /\ Return(s)
    /\ UNCHANGED <<cases, generations, disk>>

RunVerifier(s) == RunBaseline(s) \/ RunSolution(s)

BoundedStep(s) ==
    \/ Document(s) \/ AddBaseline(s) \/ Fingerprint(s) \/ DropBaseline(s) \/ AddReset(s)
    \/ CompareReset(s) \/ DropReset(s) \/ AddSolution(s) \/ JudgeIssue(s) \/ Finally(s) \/ SaveCases(s)

Step(s) == BoundedStep(s) \/ RunVerifier(s)

(* Once there are Cases a service is not asked for them again. *)
Idle == (\A s \in Services : pc[s] = "idle") /\ UNCHANGED vars

Next == (\E s \in Services : Generate(s) \/ Step(s) \/ Crash(s)) \/ Idle

Spec == Init /\ [][Next]_vars

-----------------------------------------------------------------------------
(* A Blueprint has no Cases or exactly its three variants, all of one       *)
(* generation and derived from the source Case among them, whatever failed, *)
(* died or was generated twice at a time.                                   *)
CasesAreOneGeneration ==
    cases # {} =>
        /\ \A v \in Variants : \E c \in cases : c.id.variant = v
        /\ \A c, d \in cases : c.id.variant = d.id.variant => c = d
        /\ \A c, d \in cases : c.id.generation = d.id.generation
        /\ \A c \in cases : \E d \in cases : d.id = c.parent /\ d.id.variant = 0

(* Cases that Runs refer to are never changed by a later generation.        *)
StoredCasesStay == [][cases # {} => cases' = cases]_vars

(* A Case passes its gate only if nothing of the gate is left behind: a     *)
(* worktree or database that could not be removed, and one that a failed    *)
(* operation left and nobody knows of, go with a Case that nobody can run.  *)
PassedGateLeavesNothing ==
    \A c \in cases : c.passed => \A part \in Parts : <<c.id, part>> \notin disk

Fairness == \A s \in Services : WF_vars(BoundedStep(s))

FairSpec == Spec /\ Fairness

(* A request to generate Cases is answered, whatever fails on the way,      *)
(* unless one of its verifiers never comes back.                            *)
GenerationEnds ==
    \A s \in Services :
        pc[s] # "idle" ~> (pc[s] = "idle" \/ [](pc[s] \in {"runBaseline", "runSolution"}))
=============================================================================
