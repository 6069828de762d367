---------------------------- MODULE RunLifecycle ----------------------------
(***************************************************************************)
(* The life of Runs in the service of workflow-environment-factory.        *)
(*                                                                         *)
(* The threads are Loop, the event loop that executes one HTTP handler at  *)
(* a time (the handlers are async functions without an await), and for     *)
(* each Run r the background thread r that execute_run hands to the thread *)
(* pool.  Threads share the SQLite database (record, score), of which each *)
(* FactoryStore call is one atomic step, the files of each Run (tree,      *)
(* gitState, simulator) and one lock per Run.  The Agent is a process of   *)
(* its own: it survives a crash of the service.                            *)
(***************************************************************************)
EXTENDS Naturals, FiniteSets

CONSTANTS
    Runs,           \* the Runs, named by the uuid prepare_run gives them
    IssueRuns,      \* those of them whose Blueprint is an ISSUE_PR one
    Loop,           \* the event-loop thread
    MaxCrashes,     \* bound: how often the service process may die
    MaxFaults       \* bound: how often a call of FactoryStore may raise

ASSUME RunsAssumption    == IssueRuns \subseteq Runs
ASSUME LoopAssumption    == Loop \notin Runs
ASSUME CrashesAssumption == MaxCrashes \in Nat
ASSUME FaultsAssumption  == MaxFaults \in Nat

VARIABLES
    service,        \* "down", "booting" (recovering the Runs) or "serving"
    crashes,
    faults,         \* how often a call of FactoryStore has raised
    record,         \* record[r]: the stored RunRecord
    score,          \* score[r]: the document behind the Run's score head
    tree,           \* tree[r]: the workspace directory of the Run
    gitState,       \* gitState[r]: whether its isolated Git directory exists
    simulator,      \* simulator[r]: the Run's Issue/PR database
    agent,          \* agent[r]: the codex process of the Run
    pc,             \* pc[t]: where thread t is
    target,         \* the Run the current HTTP handler works on; Loop if none
    mem,            \* mem[t]: the RunRecord object in the hands of thread t
    tally,          \* tally[t]: what thread t has collected for the Score
    locked          \* locked[r]: the scoring lock of the Run (a process-local one)

durable == <<record, score>>
files   == <<tree, gitState, simulator>>
threads == <<pc, target, mem, tally, locked>>
vars    == <<service, crashes, faults, durable, files, agent, threads>>

(* The statuses and Score documents are those of the ledger this module     *)
(* implements; the operators of L that need no variable are used freely.    *)
L == INSTANCE RunLedger WITH
        status <- [r \in Runs |-> record[r].status], score <- score

NoScore     == L!NoScore
Statuses    == L!Statuses
Interrupted == L!Interrupted

Threads == Runs \cup {Loop}

(* workspace and simulator: whether the record holds the path of each.      *)
(* attempted stands for agent_attempted with attempt_origin: the service    *)
(* sets the two together, to true and codex_process.                        *)
Records == [status : Statuses, attempted : BOOLEAN, workspace : BOOLEAN, simulator : BOOLEAN]

NoRecord == [status |-> "absent", attempted |-> FALSE, workspace |-> FALSE, simulator |-> FALSE]

Tallies == [seen : {"none", "intact", "altered", "torn", "error"}, broken : BOOLEAN, passed : BOOLEAN]

NoTally == [seen |-> "none", broken |-> FALSE, passed |-> TRUE]

AgentExits == {"ok", "infra", "crash"}

RunnerSteps   == {"start", "preflight", "launch", "spawn", "attempt", "wait", "drain",
                  "finish", "reread", "failRead", "failWrite"}
VerifierSteps == {"before", "verify", "after", "issue", "final"}
ScoringSteps  == {"read", "mark", "interrupted", "record"} \cup VerifierSteps
LoopSteps     == {"building", "wipeTree", "wipeGit", "wipeSimulator"}
Steps         == {"idle", "done", "lock"} \cup RunnerSteps \cup ScoringSteps \cup LoopSteps

RunOf(t) == IF t = Loop THEN target ELSE t

TypeOK ==
    /\ service \in {"down", "booting", "serving"}
    /\ crashes \in 0 .. MaxCrashes /\ faults \in 0 .. MaxFaults
    /\ record \in [Runs -> Records]
    /\ score \in [Runs -> L!Scores \cup {NoScore}]
    /\ tree \in [Runs -> {"none", "intact", "altered", "torn", "gone"}]
    /\ gitState \in [Runs -> BOOLEAN]
    /\ simulator \in [Runs -> {"none", "open", "reached", "gone"}]
    /\ agent \in [Runs -> {"none", "alive", "killed"} \cup AgentExits]
    /\ pc \in [Threads -> Steps]
    /\ target \in Threads
    /\ mem \in [Threads -> Records]
    /\ tally \in [Threads -> Tallies]
    /\ locked \in [Runs -> BOOLEAN]

Init ==
    /\ service = "serving" /\ crashes = 0 /\ faults = 0
    /\ record    = [r \in Runs |-> NoRecord]
    /\ score     = [r \in Runs |-> NoScore]
    /\ tree      = [r \in Runs |-> "none"]
    /\ gitState  = [r \in Runs |-> FALSE]
    /\ simulator = [r \in Runs |-> "none"]
    /\ agent     = [r \in Runs |-> "none"]
    /\ pc        = [t \in Threads |-> "idle"]
    /\ target    = Loop
    /\ mem       = [t \in Threads |-> NoRecord]
    /\ tally     = [t \in Threads |-> NoTally]
    /\ locked    = [r \in Runs |-> FALSE]

-----------------------------------------------------------------------------
(* How a thread moves on.                                                   *)

(* FactoryStore.save_run: the whole record is overwritten, without a check. *)
SaveRun(r, run) == record' = [record EXCEPT ![r] = run]

Goto(t, step) == pc' = [pc EXCEPT ![t] = step]

(* Thread t changes the status of the record in its hands and stores it.    *)
SaveStatus(t, status) ==
    LET run == [mem[t] EXCEPT !.status = status] IN
    /\ mem' = [mem EXCEPT ![t] = run]
    /\ SaveRun(RunOf(t), run)

(* The event loop is free to call a handler only between two handlers.      *)
LoopFree == service = "serving" /\ pc[Loop] = "idle"

(* The current handler has answered; what it held is garbage.               *)
Answer ==
    /\ Goto(Loop, "idle")
    /\ target' = Loop
    /\ mem' = [mem EXCEPT ![Loop] = NoRecord]
    /\ tally' = [tally EXCEPT ![Loop] = NoTally]

-----------------------------------------------------------------------------
(* prepare_run, on the event loop.  The record is saved once, at the end.   *)

PrepareBegin(r) ==
    /\ LoopFree
    /\ record[r] = NoRecord /\ tree[r] = "none"
    /\ Goto(Loop, "building") /\ target' = r
    /\ tree' = [tree EXCEPT ![r] = "torn"]
    /\ gitState' = [gitState EXCEPT ![r] = TRUE]
    /\ UNCHANGED <<service, crashes, faults, durable, simulator, agent, mem, tally, locked>>

PrepareReady(r) ==
    /\ pc[Loop] = "building" /\ target = r
    /\ tree' = [tree EXCEPT ![r] = "intact"]
    /\ simulator' = [simulator EXCEPT ![r] = IF r \in IssueRuns THEN "open" ELSE "none"]
    /\ SaveRun(r, [status |-> "ready", attempted |-> FALSE, workspace |-> TRUE,
                   simulator |-> r \in IssueRuns])
    /\ Answer
    /\ UNCHANGED <<service, crashes, faults, score, gitState, agent, locked>>

(* Without the path the failure was inside materialize_isolated, which      *)
(* removes its own files; with it, the simulator database of an Issue Run   *)
(* could not be initialised.  Either removal may fail.                      *)
PrepareFailed(r) ==
    /\ pc[Loop] = "building" /\ target = r
    /\ \/ /\ SaveRun(r, [NoRecord EXCEPT !.status = "reset_error"])
          /\ UNCHANGED simulator
       \/ /\ r \in IssueRuns
          /\ SaveRun(r, [NoRecord EXCEPT !.status = "reset_error", !.workspace = TRUE])
          /\ \E left \in {"gone", "open"} : simulator' = [simulator EXCEPT ![r] = left]
    /\ \E left \in {"gone", "torn"} : tree' = [tree EXCEPT ![r] = left]
    /\ gitState' = [gitState EXCEPT ![r] = FALSE] \/ UNCHANGED gitState
    /\ Answer
    /\ UNCHANGED <<service, crashes, faults, score, agent, locked>>

-----------------------------------------------------------------------------
(* execute_run claims the Run and starts its thread; CodexRunner.execute.   *)

(* Mutant: the status is not checked, so a Run can be claimed again. *)
ClaimWithoutCheck(r) ==
    /\ record[r] # NoRecord
    /\ SaveRun(r, [record[r] EXCEPT !.status = "queued"])

ClaimReadyRun(r) ==
    /\ record[r].status = "ready"
    /\ SaveRun(r, [record[r] EXCEPT !.status = "queued"])

ExecuteRun(r) ==
    /\ LoopFree
    /\ ClaimReadyRun(r)
    /\ Goto(r, "start")
    /\ UNCHANGED <<service, crashes, faults, score, files, agent, target, mem, tally, locked>>

RunnerStart(r) ==
    /\ pc[r] = "start"
    /\ mem' = [mem EXCEPT ![r] = record[r]]
    /\ Goto(r, IF record[r].status = "queued" THEN "preflight" ELSE "failRead")
    /\ UNCHANGED <<service, crashes, faults, durable, files, agent, target, tally, locked>>

(* Passes, is refused, or the command for the Agent cannot be built.        *)
Preflight(r) ==
    /\ pc[r] = "preflight"
    /\ \/ /\ tree[r] # "gone"
          /\ Goto(r, "launch")
          /\ UNCHANGED <<record, mem>>
       \/ /\ SaveStatus(r, "environment_error")
          /\ Goto(r, "reread")
       \/ /\ Goto(r, "failRead")
          /\ UNCHANGED <<record, mem>>
    /\ UNCHANGED <<service, crashes, faults, score, files, agent, target, tally, locked>>

SaveRunning(r) ==
    /\ pc[r] = "launch"
    /\ SaveStatus(r, "running")
    /\ Goto(r, "spawn")
    /\ UNCHANGED <<service, crashes, faults, score, files, agent, target, tally, locked>>

(* Popen in the workspace directory, or its OSError. *)
SpawnAgent(r) ==
    /\ pc[r] = "spawn"
    /\ \/ /\ tree[r] # "gone"
          /\ agent' = [agent EXCEPT ![r] = "alive"]
          /\ Goto(r, "attempt")
          /\ UNCHANGED mem
       \/ /\ mem' = [mem EXCEPT ![r].status = "environment_error"]
          /\ Goto(r, "finish")
          /\ UNCHANGED agent
    /\ UNCHANGED <<service, crashes, faults, durable, files, target, tally, locked>>

SaveAttempt(r) ==
    /\ pc[r] = "attempt"
    /\ mem' = [mem EXCEPT ![r].attempted = TRUE]
    /\ SaveRun(r, mem'[r])
    /\ Goto(r, "wait")
    /\ UNCHANGED <<service, crashes, faults, score, files, agent, target, tally, locked>>

(* Mutant: a status outside the enumeration. *)
ExitStatusRaw(exit) == IF exit = "ok" THEN "completed" ELSE exit

(* Mutant: the infrastructure markers do not spoil an attempt. *)
ExitStatusLenient(exit) == IF exit = "crash" THEN "agent_crash" ELSE "completed"

(* What the runner makes of the return code, the infrastructure markers in  *)
(* the output included.                                                     *)
ExitStatus(exit) ==
    CASE exit = "ok"    -> "completed"
      [] exit = "infra" -> "environment_error"
      [] exit = "crash" -> "agent_crash"

CollectExit(r) ==
    /\ pc[r] = "wait" /\ agent[r] \in AgentExits
    /\ mem' = [mem EXCEPT ![r].status = ExitStatus(agent[r])]
    /\ Goto(r, "finish")
    /\ UNCHANGED <<service, crashes, faults, durable, files, agent, target, tally, locked>>

(* communicate() raises after the Agent has gone (its output cannot be      *)
(* decoded): the finally clause saves the record as it is.                  *)
CollectRaises(r) ==
    /\ pc[r] = "wait" /\ agent[r] \in AgentExits
    /\ SaveRun(r, mem[r])
    /\ Goto(r, "failRead")
    /\ UNCHANGED <<service, crashes, faults, score, files, agent, target, mem, tally, locked>>

(* Mutant: the process is given up but not killed. *)
CollectTimeoutWithoutKill(r) ==
    /\ pc[r] = "wait" /\ agent[r] \in {"alive"} \cup AgentExits
    /\ Goto(r, "drain")
    /\ UNCHANGED <<service, crashes, faults, durable, files, agent, target, mem, tally, locked>>

(* communicate() waits for the pipes to close, so it may time out on an     *)
(* Agent that has already ended; the kill comes too late for that one.      *)
CollectTimeout(r) ==
    /\ pc[r] = "wait" /\ agent[r] \in {"alive"} \cup AgentExits
    /\ agent' = [agent EXCEPT ![r] = IF @ = "alive" THEN "killed" ELSE @]
    /\ Goto(r, "drain")
    /\ UNCHANGED <<service, crashes, faults, durable, files, target, mem, tally, locked>>

(* The second communicate() has no timeout: it returns when every process   *)
(* that inherited the pipes has closed them, or raises like the first one.  *)
DrainOutput(r) ==
    /\ pc[r] = "drain"
    /\ \/ /\ mem' = [mem EXCEPT ![r].status = "agent_timeout"]
          /\ Goto(r, "finish")
          /\ UNCHANGED record
       \/ /\ SaveRun(r, mem[r])
          /\ Goto(r, "failRead")
          /\ UNCHANGED mem
    /\ UNCHANGED <<service, crashes, faults, score, files, agent, target, tally, locked>>

SaveOutcome(r) ==
    /\ pc[r] = "finish"
    /\ SaveRun(r, mem[r])
    /\ Goto(r, "reread")
    /\ UNCHANGED <<service, crashes, faults, score, files, agent, target, mem, tally, locked>>

(* execute_and_score: what to do after the runner has returned. *)
Reread(r) ==
    /\ pc[r] = "reread"
    /\ mem' = [mem EXCEPT ![r] = NoRecord]
    /\ Goto(r, IF record[r].status = "environment_error" THEN "done" ELSE "lock")
    /\ UNCHANGED <<service, crashes, faults, durable, files, agent, target, tally, locked>>

(* execute_and_score: the except clauses, around the runner and the scorer. *)
FailRead(r) ==
    /\ pc[r] = "failRead"
    /\ mem' = [mem EXCEPT ![r] = record[r]]
    /\ Goto(r, "failWrite")
    /\ UNCHANGED <<service, crashes, faults, durable, files, agent, target, tally, locked>>

(* Mutant: the error is swallowed, the record stays as it was. *)
FailSilently(r) ==
    /\ pc[r] = "failWrite"
    /\ mem' = [mem EXCEPT ![r] = NoRecord]
    /\ Goto(r, "done")
    /\ UNCHANGED <<service, crashes, faults, durable, files, agent, target, tally, locked>>

FailWrite(r) ==
    /\ pc[r] = "failWrite"
    /\ SaveRun(r, [mem[r] EXCEPT !.status = "environment_error"])
    /\ mem' = [mem EXCEPT ![r] = NoRecord]
    /\ Goto(r, "done")
    /\ UNCHANGED <<service, crashes, faults, score, files, agent, target, tally, locked>>

RunnerStep(r) ==
    \/ RunnerStart(r) \/ Preflight(r) \/ SaveRunning(r) \/ SpawnAgent(r) \/ SaveAttempt(r)
    \/ CollectExit(r) \/ CollectRaises(r) \/ CollectTimeout(r) \/ SaveOutcome(r)
    \/ Reread(r) \/ FailRead(r) \/ FailWrite(r)

-----------------------------------------------------------------------------
(* ScoreService.score, called by the thread of a Run and by score_run.      *)

ScoreRun(r) ==
    /\ LoopFree
    /\ record[r] # NoRecord
    /\ Goto(Loop, "lock") /\ target' = r
    /\ UNCHANGED <<service, crashes, faults, durable, files, agent, mem, tally, locked>>

(* Mutant: nobody waits for the lock. *)
EnterWithoutLock(t) ==
    /\ pc[t] = "lock"
    /\ locked' = [locked EXCEPT ![RunOf(t)] = TRUE]
    /\ Goto(t, "read")
    /\ UNCHANGED <<service, crashes, faults, durable, files, agent, target, mem, tally>>

AcquireLock(t) ==
    /\ pc[t] = "lock" /\ ~locked[RunOf(t)]
    /\ locked' = [locked EXCEPT ![RunOf(t)] = TRUE]
    /\ Goto(t, "read")
    /\ UNCHANGED <<service, crashes, faults, durable, files, agent, target, mem, tally>>

(* The with statement is left: with a Score, and for score_run also with an *)
(* exception, which it answers with a 409.                                  *)
LeaveScoring(t) ==
    /\ locked' = [locked EXCEPT ![RunOf(t)] = FALSE]
    /\ IF t = Loop THEN Answer
       ELSE /\ Goto(t, "done")
            /\ mem' = [mem EXCEPT ![t] = NoRecord]
            /\ tally' = [tally EXCEPT ![t] = NoTally]
            /\ UNCHANGED target

(* Mutant: an exception of the scorer is ignored by the background thread. *)
ScoringRaisesUnseen(t) == LeaveScoring(t)

(* Mutant: the lock is released only on the way out with a Score. *)
ScoringRaisesLocked(t) ==
    /\ UNCHANGED locked
    /\ IF t = Loop THEN Answer
       ELSE /\ Goto(t, "failRead")
            /\ mem' = [mem EXCEPT ![t] = NoRecord]
            /\ tally' = [tally EXCEPT ![t] = NoTally]
            /\ UNCHANGED target

(* The scorer raises: execute_and_score turns that into environment_error,  *)
(* score_run leaves the Run as it is.                                       *)
ScoringRaises(t) ==
    IF t = Loop THEN LeaveScoring(t)
    ELSE /\ locked' = [locked EXCEPT ![t] = FALSE]
         /\ Goto(t, "failRead")
         /\ mem' = [mem EXCEPT ![t] = NoRecord]
         /\ tally' = [tally EXCEPT ![t] = NoTally]
         /\ UNCHANGED target

Scoreable(run) ==
    run.status \in {"completed", "agent_crash", "agent_timeout"} /\ run.attempted

ScoreRead(t) ==
    /\ pc[t] = "read"
    /\ LET r == RunOf(t) IN
       \/ /\ score[r] # NoScore
          /\ LeaveScoring(t)
       \/ /\ score[r] = NoScore /\ ~Scoreable(record[r])
          /\ ScoringRaises(t)
       \/ /\ score[r] = NoScore /\ Scoreable(record[r])
          /\ mem' = [mem EXCEPT ![t] = record[r]]
          /\ Goto(t, IF record[r].status = "completed" THEN "mark" ELSE "interrupted")
          /\ UNCHANGED <<target, tally, locked>>
    /\ UNCHANGED <<service, crashes, faults, durable, files, agent>>

(* The Agent crashed or timed out: no validator runs.  The Score document   *)
(* is checked against its schema, which may raise, and the Run is saved.    *)
SaveInterrupted(t) ==
    /\ pc[t] = "interrupted"
    /\ \/ /\ SaveRun(RunOf(t), mem[t])
          /\ Goto(t, "record")
          /\ UNCHANGED <<target, mem, tally, locked>>
       \/ /\ ScoringRaises(t)
          /\ UNCHANGED record
    /\ UNCHANGED <<service, crashes, faults, score, files, agent>>

SaveValidating(t) ==
    /\ pc[t] = "mark"
    /\ SaveStatus(t, "validating")
    /\ Goto(t, "before")
    /\ UNCHANGED <<service, crashes, faults, score, files, agent, target, tally, locked>>

(* _workspace_state: git diff and the digests of the changed files. *)
Snapshot(r) == IF gitState[r] /\ tree[r] # "gone" THEN tree[r] ELSE "error"

SnapshotBefore(t) ==
    /\ pc[t] = "before"
    /\ LET seen == Snapshot(RunOf(t)) IN
       tally' = [tally EXCEPT ![t] = [seen |-> seen, broken |-> seen = "error", passed |-> TRUE]]
    /\ Goto(t, "verify")
    /\ UNCHANGED <<service, crashes, faults, durable, files, agent, target, mem, locked>>

(* engine.run: the verifier passes or fails, or it errs or times out.  It   *)
(* raises when the workspace is not a directory and when the removal of a   *)
(* container that timed out does.                                           *)
RunVerifier(t) ==
    /\ pc[t] = "verify"
    /\ \/ /\ tree[RunOf(t)] # "gone"
          /\ \E verdict \in {"pass", "fail", "error"} :
                tally' = [tally EXCEPT ![t].broken = @ \/ verdict = "error",
                                       ![t].passed = verdict = "pass"]
          /\ Goto(t, "after")
          /\ UNCHANGED <<target, mem, locked>>
       \/ ScoringRaises(t)
    /\ UNCHANGED <<service, crashes, faults, durable, files, agent>>

(* The snapshot is taken again unless the first one failed.  The changed    *)
(* paths are in the allowed scope or not.                                   *)
SnapshotAfter(t) ==
    /\ pc[t] = "after"
    /\ LET before == tally[t].seen IN
       IF before = "error" THEN UNCHANGED tally
       ELSE \E scoped \in BOOLEAN :
               tally' = [tally EXCEPT ![t].broken = @ \/ Snapshot(RunOf(t)) # before,
                                      ![t].passed = @ /\ scoped]
    /\ Goto(t, IF RunOf(t) \in IssueRuns THEN "issue" ELSE "final")
    /\ UNCHANGED <<service, crashes, faults, durable, files, agent, target, mem, locked>>

(* IssuePrSimulator.validate; it raises when the database was removed. *)
CheckIssue(t) ==
    /\ pc[t] = "issue"
    /\ \/ /\ ~mem[t].simulator
          /\ tally' = [tally EXCEPT ![t].broken = TRUE]
          /\ Goto(t, "final")
          /\ UNCHANGED <<target, mem, locked>>
       \/ /\ mem[t].simulator /\ simulator[RunOf(t)] \in {"open", "reached"}
          /\ tally' = [tally EXCEPT ![t].passed = @ /\ simulator[RunOf(t)] = "reached"]
          /\ Goto(t, "final")
          /\ UNCHANGED <<target, mem, locked>>
       \/ /\ mem[t].simulator /\ simulator[RunOf(t)] \notin {"open", "reached"}
          /\ ScoringRaises(t)
    /\ UNCHANGED <<service, crashes, faults, durable, files, agent>>

(* Mutant: the Run is completed whatever became of the validation. *)
SaveVerdictCompleted(t) ==
    /\ pc[t] = "final"
    /\ SaveStatus(t, "completed")
    /\ Goto(t, "record")
    /\ UNCHANGED <<service, crashes, faults, score, files, agent, target, tally, locked>>

(* The verifier's output goes to the content store, which may raise; then   *)
(* the Run is saved, and after that the Score.                              *)
SaveVerdict(t) ==
    /\ pc[t] = "final"
    /\ \/ /\ SaveStatus(t, IF tally[t].broken THEN "environment_error" ELSE "completed")
          /\ Goto(t, "record")
          /\ UNCHANGED <<target, tally, locked>>
       \/ /\ ScoringRaises(t)
          /\ UNCHANGED record
    /\ UNCHANGED <<service, crashes, faults, score, files, agent>>

Document(t) ==
    IF mem[t].status \in {"agent_crash", "agent_timeout"}
    THEN [execution |-> mem[t].status, task |-> "not_scored", seen |-> "none"]
    ELSE [execution |-> IF tally[t].broken THEN "validator_error" ELSE "completed",
          task |-> IF tally[t].broken THEN "not_scored"
                   ELSE IF tally[t].passed THEN "pass" ELSE "fail",
          seen |-> tally[t].seen]

(* FactoryStore.save_score: an existing head wins. *)
SaveScore(t) ==
    /\ pc[t] = "record"
    /\ LET r == RunOf(t) IN
       score' = IF score[r] = NoScore THEN [score EXCEPT ![r] = Document(t)] ELSE score
    /\ LeaveScoring(t)
    /\ UNCHANGED <<service, crashes, faults, record, files, agent>>

BoundedScoringStep(t) ==
    \/ ScoreRead(t) \/ SaveInterrupted(t) \/ SaveValidating(t) \/ SnapshotBefore(t)
    \/ SnapshotAfter(t) \/ CheckIssue(t) \/ SaveVerdict(t) \/ SaveScore(t)

ScoringStep(t) == BoundedScoringStep(t) \/ RunVerifier(t)

-----------------------------------------------------------------------------
(* A call of FactoryStore raises: the database is locked, or the disk full. *)
(* Nothing is stored, and the thread goes where the exception takes it.     *)
(* Handlers that only read, or claim, answer with an error and no effect.   *)

(* The record of a prepared Run cannot be saved: its files are removed, as  *)
(* far as that goes, and the record of the failure is saved, or not.        *)
PrepareUnsaved(r) ==
    /\ faults < MaxFaults /\ faults' = faults + 1
    /\ pc[Loop] = "building" /\ target = r
    /\ \/ SaveRun(r, [status |-> "reset_error", attempted |-> FALSE, workspace |-> TRUE,
                      simulator |-> r \in IssueRuns])
       \/ UNCHANGED record
    /\ \E left \in {"gone", "torn"} : tree' = [tree EXCEPT ![r] = left]
    /\ gitState' = [gitState EXCEPT ![r] = FALSE] \/ UNCHANGED gitState
    /\ IF r \in IssueRuns
       THEN \E left \in {"gone", "open"} : simulator' = [simulator EXCEPT ![r] = left]
       ELSE UNCHANGED simulator
    /\ Answer
    /\ UNCHANGED <<service, crashes, score, agent, locked>>

(* In the runner.  After Popen the finally clause saves the attempt once    *)
(* more, which may raise in turn; either way codex is left alone.           *)
RunnerStoreFails(r) ==
    /\ faults < MaxFaults /\ faults' = faults + 1
    /\ \/ /\ pc[r] \in {"start", "preflight", "launch", "finish"}
          /\ Goto(r, "failRead")
          /\ UNCHANGED <<record, mem>>
       \/ /\ pc[r] = "attempt"
          /\ mem' = [mem EXCEPT ![r].attempted = TRUE]
          /\ SaveRun(r, mem'[r]) \/ UNCHANGED record
          /\ Goto(r, "failRead")
       \/ /\ pc[r] \in {"reread", "failRead", "failWrite"}
          /\ mem' = [mem EXCEPT ![r] = NoRecord]
          /\ Goto(r, "done")
          /\ UNCHANGED record
    /\ UNCHANGED <<service, crashes, score, files, agent, target, tally, locked>>

(* In the scorer.  save_score rolls its transaction back.                   *)
ScorerStoreFails(t) ==
    /\ faults < MaxFaults /\ faults' = faults + 1
    /\ pc[t] \in {"read", "interrupted", "mark", "final", "record"}
    /\ ScoringRaises(t)
    /\ UNCHANGED <<service, crashes, durable, files, agent>>

-----------------------------------------------------------------------------
(* cleanup_run, on the event loop: it looks at the paths in the record, not *)
(* at the status.  Removing a directory takes time, and may fail halfway.   *)

CleanupBegin(r) ==
    /\ LoopFree
    /\ record[r] # NoRecord
    /\ target' = r
    /\ IF record[r].workspace
       THEN /\ Goto(Loop, "wipeTree")
            /\ tree' = [tree EXCEPT ![r] = IF @ = "gone" THEN @ ELSE "torn"]
       ELSE /\ Goto(Loop, "wipeSimulator")
            /\ UNCHANGED tree
    /\ UNCHANGED <<service, crashes, faults, durable, gitState, simulator, agent, mem, tally, locked>>

WipeTree(r) ==
    /\ pc[Loop] = "wipeTree" /\ target = r
    /\ tree' = [tree EXCEPT ![r] = "gone"] \/ UNCHANGED tree
    /\ Goto(Loop, "wipeGit")
    /\ UNCHANGED <<service, crashes, faults, durable, gitState, simulator, agent, target, mem, tally, locked>>

WipeGit(r) ==
    /\ pc[Loop] = "wipeGit" /\ target = r
    /\ gitState' = [gitState EXCEPT ![r] = FALSE] \/ UNCHANGED gitState
    /\ Goto(Loop, "wipeSimulator")
    /\ UNCHANGED <<service, crashes, faults, durable, tree, simulator, agent, target, mem, tally, locked>>

WipeSimulator(r) ==
    /\ pc[Loop] = "wipeSimulator" /\ target = r
    /\ \/ record[r].simulator /\ simulator' = [simulator EXCEPT ![r] = "gone"]
       \/ UNCHANGED simulator
    /\ Answer
    /\ UNCHANGED <<service, crashes, faults, durable, tree, gitState, agent, locked>>

(* The simulator handlers: pull requests and Issue status, for the Agent's  *)
(* MCP server and for the workbench alike, at any status of the Run.        *)
SimulatorWrite(r) ==
    /\ LoopFree
    /\ record[r].simulator /\ simulator[r] \in {"open", "reached"}
    /\ \E s \in {"open", "reached"} : simulator' = [simulator EXCEPT ![r] = s]
    /\ UNCHANGED <<service, crashes, faults, durable, tree, gitState, agent, threads>>

(* The handlers that only read: the service may be asked for nothing else.  *)
ReadRequest == LoopFree /\ UNCHANGED vars

HandlerStep(r) ==
    PrepareReady(r) \/ PrepareFailed(r) \/ WipeTree(r) \/ WipeGit(r) \/ WipeSimulator(r)

Request(r) ==
    PrepareBegin(r) \/ ExecuteRun(r) \/ ScoreRun(r) \/ CleanupBegin(r) \/ SimulatorWrite(r)

-----------------------------------------------------------------------------
(* Outside the service. *)

AgentExit(r) ==
    /\ agent[r] = "alive"
    /\ \E exit \in AgentExits : agent' = [agent EXCEPT ![r] = exit]
    /\ UNCHANGED <<service, crashes, faults, durable, files, threads>>

(* A process the Agent left behind writes in the workspace. *)
StrayWrite(r) ==
    /\ agent[r] \notin {"none", "alive"} /\ tree[r] = "intact"
    /\ tree' = [tree EXCEPT ![r] = "altered"]
    /\ UNCHANGED <<service, crashes, faults, durable, gitState, simulator, agent, threads>>

(* The service process dies; its threads, locks and objects die with it,    *)
(* the database, the files and the Agents do not.                           *)
Crash ==
    /\ service # "down" /\ crashes < MaxCrashes
    /\ service' = "down" /\ crashes' = crashes + 1
    /\ pc'     = [t \in Threads |-> "idle"]
    /\ target' = Loop
    /\ mem'    = [t \in Threads |-> NoRecord]
    /\ tally'  = [t \in Threads |-> NoTally]
    /\ locked' = [r \in Runs |-> FALSE]
    /\ UNCHANGED <<faults, durable, files, agent>>

Boot ==
    /\ service = "down"
    /\ service' = "booting"
    /\ UNCHANGED <<crashes, faults, durable, files, agent, threads>>

(* recover_interrupted_runs, one saved record at a time. *)
RecoverRun(r) ==
    /\ service = "booting" /\ record[r].status \in Interrupted
    /\ SaveRun(r, [record[r] EXCEPT !.status = "environment_error"])
    /\ UNCHANGED <<service, crashes, faults, score, files, agent, threads>>

(* Mutant: requests are served before the recovery is through. *)
ServeAtOnce ==
    /\ service = "booting"
    /\ service' = "serving"
    /\ UNCHANGED <<crashes, faults, durable, files, agent, threads>>

Serve ==
    /\ service = "booting"
    /\ \A r \in Runs : record[r].status \notin Interrupted
    /\ service' = "serving"
    /\ UNCHANGED <<crashes, faults, durable, files, agent, threads>>

Next ==
    \/ \E r \in Runs : \/ Request(r) \/ HandlerStep(r) \/ RunnerStep(r) \/ DrainOutput(r)
                       \/ PrepareUnsaved(r) \/ RunnerStoreFails(r)
                       \/ AgentExit(r) \/ StrayWrite(r) \/ RecoverRun(r)
    \/ \E t \in Threads : AcquireLock(t) \/ ScoringStep(t) \/ ScorerStoreFails(t)
    \/ ReadRequest \/ Crash \/ Boot \/ Serve

Spec == Init /\ [][Next]_vars

-----------------------------------------------------------------------------
(* Safety. *)

(* While a thread is between saving VALIDATING and saving the verdict of a  *)
(* Run, no other thread is inside ScoreService.score for that Run, the Run  *)
(* has no Score, and its Agent ended by itself with exit code 0: nobody     *)
(* else judges the Run.  As long as no call of the store has raised the Run *)
(* is stored as validating, so nobody else writes it either.                *)
VerifierExclusive ==
    \A t \in Threads : pc[t] \in VerifierSteps =>
        /\ \A u \in Threads \ {t} : pc[u] \in ScoringSteps => RunOf(u) # RunOf(t)
        /\ score[RunOf(t)] = NoScore
        /\ agent[RunOf(t)] = "ok"
        /\ faults = 0 => record[RunOf(t)].status = "validating"

(* A Score says pass or fail only of an attempt whose codex process was     *)
(* seen to end with exit code 0; a crashed, timed out, killed or orphaned   *)
(* Agent and a failed preflight never become a task result, whatever        *)
(* scoring requests, cleanups, restarts and failures of the store came in   *)
(* between.                                                                 *)
VerdictNeedsCleanExit ==
    \A r \in Runs : score[r].task \in {"pass", "fail"} =>
        /\ agent[r] = "ok"
        /\ record[r].attempted
        /\ score[r].execution = "completed"

(* As long as the Agent of a Run is alive the Run cannot be scored, not     *)
(* even after a restart; and only a crash of the service, or of its store,  *)
(* leaves an Agent alive without the runner thread that will collect or     *)
(* kill it.                                                                 *)
AgentSupervised ==
    \A r \in Runs : agent[r] = "alive" =>
        /\ record[r].status \in {"running", "environment_error"}
        /\ score[r] = NoScore
        /\ crashes = 0 /\ faults = 0 => pc[r] \in {"attempt", "wait"}

(* A service that answers requests has a thread for every Run it shows as   *)
(* queued or running: neither a crash nor a failing runner leaves one of    *)
(* them waiting for nobody, as long as the store takes what is written.     *)
InFlightHasThread ==
    service = "serving" /\ faults = 0 =>
        \A r \in Runs : record[r].status \in {"queued", "running"} => pc[r] \in RunnerSteps

(* codex is started at most once for a Run, across all requests to execute  *)
(* it, all restarts and all failures: its workspace is the work of one      *)
(* attempt.                                                                 *)
AgentLaunchedOnce ==
    [][\A r \in Runs : agent'[r] = "alive" => agent[r] \in {"none", "alive"}]_vars

(* Until a call of the store raises the service implements the ledger:      *)
(* statuses move forward only, a Score appears once and never changes, and  *)
(* a Run that got pass or fail is final, record and Score.                  *)
ImplementsLedger == L!LedgerInit /\ [][faults' = 0 => L!LedgerNext]_(L!ledger)

-----------------------------------------------------------------------------
(* What the documentation says and the service does not keep.               *)

(* A Run that is shown as validating is being validated by some thread, or  *)
(* is about to be marked as an environment error ("verifier infrastructure  *)
(* failure: task is not_scored").                                           *)
ValidationHasThread ==
    service = "serving" =>
        \A r \in Runs : record[r].status = "validating" =>
            \E t \in Threads : RunOf(t) = r /\ pc[t] \notin {"idle", "done"}

(* After a restart every workspace on the disk belongs to a Run the service *)
(* knows of ("A process restart converts preparing [...] Runs").            *)
PreparationIsRecovered ==
    service = "serving" /\ crashes > 0 =>
        \A r \in Runs : tree[r] = "torn" /\ target # r => record[r] # NoRecord

(* A workspace that a cleanup or a failure has torn does not make a task    *)
(* fail or pass ("reset or environment failure: task is not_scored").       *)
VerdictOnWholeWorkspace ==
    \A r \in Runs : score[r].task \in {"pass", "fail"} => score[r].seen # "torn"

-----------------------------------------------------------------------------
(* Liveness.  Threads that can run do; the handler the event loop is in     *)
(* goes on; recovery goes on.  Nobody has to make a request or restart the  *)
(* service, Agents need not exit, and the pipes of a killed Agent or of a   *)
(* docker client that timed out need not close.  A background thread cannot lose the lock to the event loop       *)
(* forever: the loop leaves the lock to read its next request.              *)
Fairness ==
    /\ \A r \in Runs : /\ WF_vars(RunnerStep(r) \/ BoundedScoringStep(r))
                       /\ SF_vars(AcquireLock(r))
                       /\ WF_vars(HandlerStep(r))
                       /\ WF_vars(RecoverRun(r))
    /\ WF_vars(AcquireLock(Loop) \/ BoundedScoringStep(Loop))
    /\ WF_vars(Serve)

FairSpec == Spec /\ Fairness

(* A claimed Run gets out of queued and running, unless the output of a     *)
(* killed Agent never ends, the service is down or its store has failed.    *)
ClaimedRunSettles ==
    \A r \in Runs : record[r].status \in {"queued", "running"} ~>
        \/ record[r].status \notin {"queued", "running"}
        \/ pc[r] = "drain"
        \/ service = "down" \/ faults > 0

(* Every run of the engine ends: once its time is up the engine waits for   *)
(* the end of the output of a killed client without a limit.                *)
EngineReturns == \A t \in Threads : []<>(pc[t] # "verify")

(* A background thread that has come to scoring leaves the Run with a Score *)
(* or as an environment error, also when a scoring request came first and   *)
(* failed, unless the service is down, its store has failed or a run of the *)
(* engine never ends.                                                       *)
BackgroundScores ==
    EngineReturns => \A r \in Runs : pc[r] = "lock" ~>
        \/ score[r] # NoScore
        \/ record[r].status = "environment_error"
        \/ service = "down" \/ faults > 0

(* The event loop comes back from every handler: a scoring request that     *)
(* waits for the lock of a background thread, with the whole service        *)
(* standing still, gets it, as long as the runs of the engine end.          *)
HandlerAnswers == EngineReturns => (pc[Loop] # "idle" ~> pc[Loop] = "idle")
=============================================================================
