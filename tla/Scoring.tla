------------------------------- MODULE Scoring -------------------------------
(***************************************************************************)
(* _score_locked for an attempt that completed: snapshot the workspace, run *)
(* the verifier, snapshot again, read the simulator, weigh the rows.  It    *)
(* runs in a thread while the processes the Agent left behind may still     *)
(* write to the workspace and requests to the simulator still arrive: none  *)
(* of its readings is atomic.                                               *)
(*                                                                          *)
(* A file is a version number, 0 for the content of HEAD; a write makes a   *)
(* new version, so that a file that is changed and restored between two     *)
(* readings, which no snapshot can see, is left out.  A file that git is    *)
(* told to ignore, at some moment of the scoring, is one of its own: the    *)
(* rules are files of the workspace and may change between two listings.    *)
(***************************************************************************)
EXTENDS Simulator

CONSTANTS
    IssuePr,        \* whether the Blueprint is an ISSUE_PR one
    MaxVersion      \* bound: the last version of the tracked file

ASSUME ScoringAssumption == IssuePr \in BOOLEAN /\ MaxVersion \in Nat \ {0}

VARIABLES
    pc,             \* the step of _score_locked
    work,           \* work[p]: the version of a file of the workspace
    listed,         \* the changed paths git has listed for this snapshot
    reading,        \* the digests of this snapshot so far
    pre,            \* pre_verifier_state, with no paths if there is none
    rows,           \* rows[v]: the status of a validator's row
    error,          \* execution_status = "validator_error"
    issue,          \* the Issue as validate has read it
    outcome,        \* the task_result, or that there is no Score
    judged,         \* (history) the workspace the verifier found
    reached         \* (history) whether the simulator was as required, at some
                    \* moment of its reading

scoring == <<pc, work, listed, reading, pre, rows, error, issue, outcome, judged, reached>>

vars == <<simulator, scoring>>

(* A tracked file inside and an untracked one outside of allowed_paths. *)
Listable == {"tracked", "untracked"}

(* With an untracked one that a rule for git ignores, or has ignored. *)
Paths == Listable \cup {"ignored"}

Allowed(paths) == paths # {} /\ paths \subseteq {"tracked"}

Validators ==
    {"code-verifier", "allowed-paths", "verifier-workspace-integrity"}
      \cup (IF IssuePr THEN {"issue-pr-state"} ELSE {})

(* Mutant: the weights of a code Case for an ISSUE_PR one. *)
WeightOfCodeCase(v) == CASE v = "code-verifier" -> 8 [] v = "allowed-paths" -> 2 [] OTHER -> 0

(* The weights of the Case, in tenths. *)
Weight(v) == CASE v = "code-verifier" -> IF IssuePr THEN 4 ELSE 8
               [] v = "allowed-paths" -> 2
               [] v = "issue-pr-state" -> 4
               [] OTHER -> 0

Steps == <<"tracked", "untracked", "digest", "verify", "tracked again", "untracked again",
           "digest again", "compare", "issue", "pull requests", "judge", "over">>

TypeOK ==
    /\ SimulatorTypeOK
    /\ pc \in {Steps[i] : i \in DOMAIN Steps}
    /\ work \in [Paths -> 0 .. MaxVersion]
    /\ listed \subseteq Paths
    /\ DOMAIN reading \subseteq Paths /\ DOMAIN pre \subseteq Paths
    /\ rows \in [Validators -> {"none", "pass", "fail", "error"}]
    /\ error \in BOOLEAN
    /\ issue \in Statuses
    /\ outcome \in {[status |-> s, score |-> n] : s \in {"none", "pass", "fail", "not_scored", "raised"},
                                                  n \in 0 .. 10}
    /\ judged \in [Paths -> 0 .. MaxVersion]
    /\ reached \in BOOLEAN

NoOutcome == [status |-> "none", score |-> 0]

(* The Agent has ended; what it asked of the simulator may still arrive (a  *)
(* request about an unknown Issue would be refused and change nothing).     *)
Init ==
    /\ database = TRUE /\ status = "open" /\ prs = <<>> /\ events = <<>>
    /\ call \in [Calls -> {r \in Requests : r.key = "issue"} \cup {NoCall}]
    /\ wire = [c \in Calls |-> IF call[c] = NoCall THEN "idle" ELSE "request"]
    /\ answer = [c \in Calls |-> "none"]
    /\ pc = "tracked"
    /\ work \in {w \in [Paths -> 0 .. 1] : w["ignored"] = 0}
    /\ listed = {} /\ reading = <<>> /\ pre = <<>>
    /\ rows = [v \in Validators |-> "none"] /\ error = FALSE
    /\ issue = "open" /\ outcome = NoOutcome
    /\ judged = work /\ reached = FALSE

-----------------------------------------------------------------------------
(* The workspace. *)

Goto(step) == pc' = step /\ UNCHANGED <<simulator, work>>

Row(v, status_) == rows' = [rows EXCEPT ![v] = status_]

(* Bound: a second write to another file tells nothing that it does not tell *)
(* of the tracked one.                                                       *)
LastVersion(p) == IF p = "tracked" THEN MaxVersion ELSE 1

Changed(p) == IF work[p] = 0 THEN {} ELSE {p}

Again == pc \in {"tracked again", "untracked again", "digest again"}

(* git diff, then git ls-files --exclude-standard: a change between the two *)
(* is listed or not, and so is a file that was ignored at some time.        *)
List ==
    /\ \/ /\ pc \in {"tracked", "tracked again"}
          /\ listed' = Changed("tracked")
          /\ Goto(IF Again THEN "untracked again" ELSE "untracked")
       \/ /\ pc \in {"untracked", "untracked again"}
          /\ \E shown \in SUBSET Changed("ignored") :
                listed' = listed \cup Changed("untracked") \cup shown
          /\ Goto(IF Again THEN "digest again" ELSE "digest")
    /\ reading' = <<>>
    /\ UNCHANGED <<pre, rows, error, issue, outcome, judged, reached>>

(* One file after the other, each as it is by then. *)
Digest ==
    /\ pc \in {"digest", "digest again"}
    /\ \E p \in listed \ DOMAIN reading :
          /\ p = "tracked" \/ "tracked" \notin listed \ DOMAIN reading
          /\ reading' = [q \in DOMAIN reading \cup {p} |-> IF q = p THEN work[p] ELSE reading[q]]
    /\ Goto(pc)
    /\ UNCHANGED <<listed, pre, rows, error, issue, outcome, judged, reached>>

Snapshot ==
    /\ pc = "digest" /\ listed = DOMAIN reading
    /\ pre' = reading
    /\ Goto("verify")
    /\ UNCHANGED <<listed, reading, rows, error, issue, outcome, judged, reached>>

AfterWorkspace == IF IssuePr THEN "issue" ELSE "judge"

(* git fails or a file cannot be read.  Without a first snapshot there is   *)
(* no second one, and the verifier runs all the same.                       *)
SnapshotFails ==
    /\ pc \in {"tracked", "untracked", "digest", "tracked again", "untracked again", "digest again"}
    /\ Row("verifier-workspace-integrity", "error") /\ error' = TRUE
    /\ Goto(IF Again THEN AfterWorkspace ELSE "verify")
    /\ UNCHANGED <<listed, reading, pre, issue, outcome, judged, reached>>

(* What _command_validation makes of the status of the engine. *)
CommandValidation(result) == IF result \in {"pass", "fail"} THEN result ELSE "error"

VerifierReturns(result) ==
    /\ Row("code-verifier", CommandValidation(result))
    /\ error' = (error \/ result \in {"error", "timeout"})
    /\ pc' = IF rows["verifier-workspace-integrity"] = "error" THEN AfterWorkspace ELSE "tracked again"
    /\ UNCHANGED outcome

(* An engine that raises ends the scoring without a Score. *)
VerifierRaises ==
    /\ outcome' = [NoOutcome EXCEPT !.status = "raised"] /\ pc' = "over"
    /\ UNCHANGED <<rows, error>>

(* The verifier, which may write to the workspace as well. *)
Verify ==
    /\ pc = "verify"
    /\ VerifierRaises \/ \E result \in {"pass", "fail", "error", "timeout"} : VerifierReturns(result)
    /\ work' \in {work} \cup {[work EXCEPT ![p] = @ + 1] : p \in {q \in Paths : work[q] < LastVersion(q)}}
    /\ judged' = work
    /\ UNCHANGED <<simulator, listed, reading, pre, issue, reached>>

(* Mutant: the snapshots are compared by their paths. *)
ComparePaths ==
    /\ pc = "digest again" /\ listed = DOMAIN reading
    /\ rows' = [rows EXCEPT !["verifier-workspace-integrity"] = IF DOMAIN reading = DOMAIN pre THEN "pass" ELSE "error",
                            !["allowed-paths"] = IF Allowed(DOMAIN reading) THEN "pass" ELSE "fail"]
    /\ error' = (error \/ DOMAIN reading # DOMAIN pre)
    /\ Goto(AfterWorkspace)
    /\ UNCHANGED <<listed, reading, pre, issue, outcome, judged, reached>>

Compare ==
    /\ pc = "digest again" /\ listed = DOMAIN reading
    /\ rows' = [rows EXCEPT !["verifier-workspace-integrity"] = IF reading = pre THEN "pass" ELSE "error",
                            !["allowed-paths"] = IF Allowed(DOMAIN reading) THEN "pass" ELSE "fail"]
    /\ error' = (error \/ reading # pre)
    /\ Goto(AfterWorkspace)
    /\ UNCHANGED <<listed, reading, pre, issue, outcome, judged, reached>>

-----------------------------------------------------------------------------
(* The simulator, read with two SELECTs and no transaction around them. *)

Linked(targets) == \E i \in DOMAIN targets : targets[i] = "main"

AsRequired == status = "done" /\ Linked(prs)

SelectIssue ==
    /\ pc = "issue" /\ database
    /\ issue' = status /\ reached' = AsRequired
    /\ Goto("pull requests")
    /\ UNCHANGED <<listed, reading, pre, rows, error, outcome, judged>>

SelectPullRequests ==
    /\ pc = "pull requests" /\ database
    /\ Row("issue-pr-state", IF issue = "done" /\ Linked(prs) THEN "pass" ELSE "fail")
    /\ Goto("judge")
    /\ UNCHANGED <<listed, reading, pre, error, issue, outcome, judged, reached>>

(* The database is gone, empty or locked: the exception ends the scoring. *)
SelectFails ==
    /\ pc \in {"issue", "pull requests"}
    /\ outcome' = [NoOutcome EXCEPT !.status = "raised"]
    /\ Goto("over")
    /\ UNCHANGED <<listed, reading, pre, rows, error, issue, judged, reached>>

-----------------------------------------------------------------------------
Sum(S) ==
    LET part(v) == IF v \in S THEN Weight(v) ELSE 0
    IN  part("code-verifier") + part("allowed-paths") + part("issue-pr-state")
          + part("verifier-workspace-integrity")

WeightedScore ==
    LET total == Sum(Validators)
    IN  (10 * Sum({v \in Validators : rows[v] = "pass"})) \div (IF total = 0 THEN 1 ELSE total)

(* Mutant: what failed to be validated has failed. *)
JudgeErrorsAsFailures ==
    /\ pc = "judge"
    /\ outcome' = [status |-> IF \A v \in Validators : rows[v] = "pass" THEN "pass" ELSE "fail",
                   score |-> WeightedScore]
    /\ Goto("over")
    /\ UNCHANGED <<listed, reading, pre, rows, error, issue, judged, reached>>

Judge ==
    /\ pc = "judge"
    /\ outcome' = IF error THEN [NoOutcome EXCEPT !.status = "not_scored"]
                  ELSE [status |-> IF \A v \in Validators : rows[v] = "pass" THEN "pass" ELSE "fail",
                        score  |-> WeightedScore]
    /\ Goto("over")
    /\ UNCHANGED <<listed, reading, pre, rows, error, issue, judged, reached>>

Score ==
    \/ List \/ Digest \/ Snapshot \/ SnapshotFails \/ Verify \/ Compare
    \/ SelectIssue \/ SelectPullRequests \/ SelectFails \/ Judge

(* A process the Agent left behind. *)
StrayWrite ==
    /\ pc # "over"
    /\ \E p \in Paths : work[p] < LastVersion(p) /\ work' = [work EXCEPT ![p] = @ + 1]
    /\ UNCHANGED <<simulator, pc, listed, reading, pre, rows, error, issue, outcome, judged, reached>>

(* A request of the Agent that is still on its way, at any time before.     *)
LateRequest ==
    /\ pc # "over"
    /\ \E c \in Calls : Handle(c)
    /\ reached' = (reached \/ (pc = "pull requests" /\ AsRequired'))
    /\ UNCHANGED <<pc, work, listed, reading, pre, rows, error, issue, outcome, judged>>

Next == Score \/ StrayWrite \/ LateRequest

Spec == Init /\ [][Next]_vars

-----------------------------------------------------------------------------
Scored == outcome.status \in {"pass", "fail"}

(* A task is judged only if the verifier ran on the listed files as both    *)
(* snapshots describe them: a file git does not ignore that is written to,  *)
(* by the verifier or by anyone else, from the first digest to the second,  *)
(* leaves the task unscored.                                                *)
JudgedIsWhatWasFrozen ==
    Scored => \A p \in Listable : judged[p] = IF p \in DOMAIN pre THEN pre[p] ELSE 0

(* The allowed-paths row of a judged task is that of the paths frozen       *)
(* before the verifier ran, though it is computed from those found after.   *)
PathsAreTheFrozenOnes ==
    Scored => (rows["allowed-paths"] = "pass" <=> Allowed(DOMAIN pre))

(* A task passes exactly when it has the full score, and a task that no     *)
(* infrastructure failed is one that failed or passed by its own rows.      *)
PassIsFullScore ==
    /\ Scored => (outcome.status = "pass" <=> outcome.score = 10)
    /\ \A v \in Validators : rows[v] = "error" => ~Scored

(* What the documents say of any mutation of the workspace: the task is not *)
(* judged on a file that is not as the snapshots describe it.               *)
MutationIsRejected ==
    Scored => \A p \in Paths : judged[p] = IF p \in DOMAIN pre THEN pre[p] ELSE 0

(* What the summary of the row says: the simulator database reached the     *)
(* required state.                                                          *)
StateWasReached ==
    IssuePr => (rows["issue-pr-state"] = "pass" => reached)
=============================================================================
