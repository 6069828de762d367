------------------------- MODULE RunLifecycleProofs -------------------------
(***************************************************************************)
(* The safety of RunLifecycle for any set of Runs and any number of        *)
(* crashes and of calls of FactoryStore that raise: its type invariant, an *)
(* inductive invariant, the properties that follow from it, and the        *)
(* refinement of RunLedger.                                                *)
(***************************************************************************)
EXTENDS RunLifecycle, TLAPS

(* Without a service that serves there is no thread, and no lock is held.  *)
(* Only the event loop is in a handler, only a thread of a Run is in the   *)
(* runner, and a handler that prepares a Run does so for a fresh uuid.     *)
PlacesOK ==
    /\ service # "serving" => \A t \in Threads : pc[t] = "idle"
    /\ pc[Loop] \notin RunnerSteps \cup {"done"}
    /\ \A r \in Runs : pc[r] \notin LoopSteps
    /\ target = Loop <=> pc[Loop] = "idle"
    /\ pc[Loop] = "building" => record[target] = NoRecord

(* A thread inside ScoreService.score has the lock of its Run to itself.    *)
LockOK ==
    \A t \in Threads : pc[t] \in ScoringSteps =>
        /\ locked[RunOf(t)]
        /\ \A u \in Threads \ {t} : pc[u] \in ScoringSteps => RunOf(u) # RunOf(t)

CutShort == L!CutShort
Ended    == CutShort \cup {"completed", "validating", "environment_error"}

(* What a record, stored or in hand, says of the Agent of its Run.          *)
Earned(run, exit) ==
    /\ run.status \in {"completed", "validating"} => exit = "ok" /\ run.attempted
    /\ run.status = "agent_crash" => exit = "crash" /\ run.attempted
    /\ run.status = "agent_timeout" => exit \in {"killed"} \cup AgentExits /\ run.attempted

AsError(run) == [run EXCEPT !.status = "environment_error"]

(* Once a thread has read the record it knows the record until it leaves.   *)
(* Only the event loop may be wrong, about a Run whose own thread has just  *)
(* stored an environment error without the lock: over an attempt that was   *)
(* cut short or, if a call of the store has raised, over any other.         *)
KnowsRecord(t) ==
    /\ score[RunOf(t)] = NoScore
    /\ \/ mem[t] = record[RunOf(t)]
       \/ /\ t = Loop /\ pc[target] = "done"
          /\ record[target] = AsError(mem[t])
          /\ mem[t].status \in CutShort \/ faults > 0

ScorerOK(t) ==
    /\ pc[t] \in ScoringSteps \ {"read"} =>
          /\ KnowsRecord(t)
          /\ mem[t].attempted /\ Earned(mem[t], agent[RunOf(t)])
    /\ pc[t] = "mark" => mem[t].status = "completed"
    /\ pc[t] = "interrupted" => mem[t].status \in CutShort
    /\ pc[t] \in VerifierSteps => mem[t].status = "validating"
    /\ pc[t] = "record" =>
          \/ mem[t].status \in CutShort
          \/ mem[t].status = "environment_error" /\ tally[t].broken /\ agent[RunOf(t)] = "ok"
          \/ mem[t].status = "completed" /\ ~tally[t].broken

(* What the runner thread of r knows, at each of its steps. *)
RunnerOK(r) ==
    /\ pc[r] \in {"start", "preflight", "launch"} => record[r].status = "queued"
    /\ pc[r] \in {"spawn", "attempt", "wait", "drain", "finish"} => record[r].status = "running"
    /\ pc[r] \in {"preflight", "launch", "spawn", "attempt", "wait", "drain"} => mem[r] = record[r]
    /\ pc[r] \in {"start", "preflight", "launch", "spawn"} => agent[r] = "none"
    /\ pc[r] \in {"attempt", "wait"} => agent[r] \in {"alive"} \cup AgentExits
    /\ pc[r] \in {"wait", "drain"} => record[r].attempted
    /\ pc[r] = "drain" => agent[r] \in {"killed"} \cup AgentExits
    /\ pc[r] = "finish" =>
          /\ agent[r] # "alive" /\ Earned(mem[r], agent[r])
          /\ mem[r].status \in {"environment_error", "completed"} \cup CutShort
    /\ pc[r] = "failWrite" => AsError(mem[r]) = AsError(record[r])
    /\ pc[r] \in {"reread", "lock"} \cup ScoringSteps =>
          record[r].status \in Ended /\ agent[r] # "alive"
    /\ faults = 0 /\ pc[r] \in {"failRead", "failWrite"} =>
          /\ record[r].status \in {"queued", "running", "validating", "environment_error"} \cup CutShort
          /\ score[r] # NoScore => record[r].status \in CutShort
          /\ agent[r] # "alive"
          /\ pc[Loop] \in ScoringSteps /\ target = r => pc[Loop] \in {"read", "interrupted", "record"}
          /\ pc[Loop] \in {"interrupted", "record"} /\ target = r => record[r].status \in CutShort
    /\ faults = 0 /\ pc[r] = "done" => record[r].status \in Ended /\ agent[r] # "alive"

(* What the record of a Run says about its Agent, its Score and its thread. *)
RecordOK(r) ==
    LET status == record[r].status IN
    /\ status # "preparing"
    /\ status \in {"absent", "ready", "reset_error"} => pc[r] = "idle"
    /\ status \in {"absent", "ready", "reset_error", "queued"} => agent[r] = "none"
    /\ Earned(record[r], agent[r])
    /\ agent[r] = "alive" => status \in {"running", "environment_error"} /\ score[r] = NoScore
    /\ score[r] # NoScore => status \in {"completed", "environment_error"} \cup CutShort
    /\ score[r].task \in {"pass", "fail"} =>
          agent[r] = "ok" /\ record[r].attempted /\ score[r].execution = "completed"

(* What holds besides as long as no call of the store has raised.           *)
InStep(r) ==
    LET status == record[r].status IN
    /\ service = "serving" /\ status = "queued" =>
          pc[r] \in {"start", "preflight", "launch", "failRead", "failWrite"}
    /\ service = "serving" /\ status = "running" =>
          pc[r] \in {"spawn", "attempt", "wait", "drain", "finish", "failRead", "failWrite"}
    /\ agent[r] = "alive" /\ crashes = 0 => pc[r] \in {"attempt", "wait"}
    /\ score[r] # NoScore =>
          \/ L!StatusOf(score[r]) = status
          \/ score[r].execution \in CutShort /\ status = "environment_error"

RunInv(r) == RunnerOK(r) /\ RecordOK(r) /\ (faults = 0 => InStep(r))

IInv ==
    /\ TypeOK /\ PlacesOK /\ LockOK
    /\ \A t \in Threads : ScorerOK(t)
    /\ \A r \in Runs : RunInv(r)

-----------------------------------------------------------------------------

(* Typing. *)

(* A thread that is somewhere works on a Run.                               *)
LEMMA RunOfThread ==
    ASSUME TypeOK, PlacesOK, NEW t \in Threads, pc[t] # "idle"
    PROVE  RunOf(t) \in Runs
BY LoopAssumption DEF TypeOK, PlacesOK, Threads, RunOf

(* The background thread of r works on r.                                   *)
LEMMA ThreadOfRun ==
    ASSUME NEW r \in Runs
    PROVE  r \in Threads /\ r # Loop /\ RunOf(r) = r
BY LoopAssumption DEF Threads, RunOf

(* The changes the code makes to a record leave it a record.                *)
LEMMA RecordTypes ==
    /\ NoRecord \in Records
    /\ \A run \in Records, s \in Statuses : [run EXCEPT !.status = s] \in Records
    /\ \A run \in Records : [run EXCEPT !.attempted = TRUE] \in Records
    /\ \A run \in Records : run.status \in Statuses
    /\ \A issue \in BOOLEAN :
          [status |-> "ready", attempted |-> FALSE, workspace |-> TRUE, simulator |-> issue] \in Records
    /\ [NoRecord EXCEPT !.status = "reset_error"] \in Records
    /\ [NoRecord EXCEPT !.status = "reset_error", !.workspace = TRUE] \in Records
BY DEF Records, NoRecord, Statuses, L!Statuses

(* The same for the record in the hands of a thread.                        *)
LEMMA HandStatusTyped ==
    ASSUME mem \in [Threads -> Records], NEW t \in Threads, NEW s \in Statuses
    PROVE  [mem EXCEPT ![t].status = s] \in [Threads -> Records]
BY DEF Records

(* The same when it is stored.                                              *)
LEMMA SaveStatusTyped ==
    ASSUME TypeOK, NEW t \in Threads, RunOf(t) \in Runs, NEW s \in Statuses, SaveStatus(t, s)
    PROVE  mem' \in [Threads -> Records] /\ record' \in [Runs -> Records]
BY RecordTypes DEF TypeOK, SaveStatus, SaveRun

(* The changes the scorer makes to its tally leave it a tally.              *)
LEMMA TallyTypes ==
    /\ NoTally \in Tallies
    /\ \A c \in Tallies, broken, passed \in BOOLEAN :
          [c EXCEPT !.broken = broken, !.passed = passed] \in Tallies
    /\ \A c \in Tallies, broken \in BOOLEAN : [c EXCEPT !.broken = broken] \in Tallies
    /\ \A c \in Tallies, passed \in BOOLEAN : [c EXCEPT !.passed = passed] \in Tallies
    /\ \A c \in Tallies : c.broken \in BOOLEAN /\ c.passed \in BOOLEAN
BY DEF NoTally, Tallies

(* The type invariant holds at the start, and every action keeps it.        *)
LEMMA InitTyped == Init => TypeOK
<1> SUFFICES ASSUME Init PROVE TypeOK
  OBVIOUS
<1>1. crashes \in 0 .. MaxCrashes /\ faults \in 0 .. MaxFaults
  BY CrashesAssumption, FaultsAssumption DEF Init
<1>2. pc \in [Threads -> Steps] /\ target \in Threads
  BY DEF Init, Steps, Threads
<1>3. mem \in [Threads -> Records] /\ tally \in [Threads -> Tallies] /\ record \in [Runs -> Records]
  BY RecordTypes, TallyTypes DEF Init
<1>4. QED
  BY <1>1, <1>2, <1>3 DEF Init, TypeOK

(* What the end of a handler resets stays typed.                            *)
LEMMA AnswerTyped ==
    ASSUME TypeOK, Answer
    PROVE  /\ pc' \in [Threads -> Steps] /\ target' \in Threads
           /\ mem' \in [Threads -> Records] /\ tally' \in [Threads -> Tallies]
<1>1. Loop \in Threads
  BY DEF Threads
<1>2. pc' \in [Threads -> Steps] /\ target' \in Threads
  BY <1>1 DEF Answer, Goto, TypeOK, Steps
<1>3. mem' \in [Threads -> Records] /\ tally' \in [Threads -> Tallies]
  BY <1>1, RecordTypes, TallyTypes DEF Answer, TypeOK
<1>4. QED
  BY <1>2, <1>3

(* The handlers keep the types.                                             *)
LEMMA HandlersTyped ==
    ASSUME TypeOK, NEW r \in Runs, Request(r) \/ HandlerStep(r)
    PROVE  TypeOK'
<1> USE DEF durable, files, threads
<1>0. r \in Threads /\ Loop \in Threads
  BY DEF Threads
<1>1. CASE PrepareBegin(r)
  BY <1>0, <1>1 DEF TypeOK, PrepareBegin, Goto, Steps, LoopSteps
<1>2. CASE ExecuteRun(r)
  <2>1. record' \in [Runs -> Records]
    BY <1>2, RecordTypes DEF TypeOK, ExecuteRun, ClaimReadyRun, SaveRun, Statuses, L!Statuses
  <2>2. QED
    BY <1>0, <1>2, <2>1 DEF TypeOK, ExecuteRun, Goto, Steps, RunnerSteps
<1>3. CASE ScoreRun(r)
  BY <1>0, <1>3 DEF TypeOK, ScoreRun, Goto, Steps
<1>4. CASE CleanupBegin(r)
  <2>1. pc' \in [Threads -> Steps]
    BY <1>0, <1>4 DEF TypeOK, CleanupBegin, Goto, Steps, LoopSteps
  <2>2. tree' \in [Runs -> {"none", "intact", "altered", "torn", "gone"}]
    BY <1>4 DEF TypeOK, CleanupBegin
  <2>3. QED
    BY <1>0, <1>4, <2>1, <2>2 DEF TypeOK, CleanupBegin
<1>5. CASE SimulatorWrite(r)
  BY <1>5 DEF TypeOK, SimulatorWrite
<1>6. CASE PrepareReady(r)
  <2>1. record' \in [Runs -> Records]
    <3>1. (r \in IssueRuns) \in BOOLEAN
      OBVIOUS
    <3>2. QED
      BY <1>6, <3>1, RecordTypes DEF TypeOK, PrepareReady, SaveRun
  <2>2. QED
    BY <1>6, <2>1, AnswerTyped DEF TypeOK, PrepareReady
<1>7. CASE PrepareFailed(r)
  <2>1. record' \in [Runs -> Records]
    BY <1>7, RecordTypes DEF TypeOK, PrepareFailed, SaveRun
  <2>2. simulator' \in [Runs -> {"none", "open", "reached", "gone"}]
    BY <1>7 DEF TypeOK, PrepareFailed
  <2>3. gitState' \in [Runs -> BOOLEAN]
    BY <1>7 DEF TypeOK, PrepareFailed
  <2>4. tree' \in [Runs -> {"none", "intact", "altered", "torn", "gone"}]
    BY <1>7 DEF TypeOK, PrepareFailed
  <2>5. QED
    BY <1>7, <2>1, <2>2, <2>3, <2>4, AnswerTyped DEF TypeOK, PrepareFailed
<1>8. CASE WipeTree(r)
  BY <1>0, <1>8 DEF TypeOK, WipeTree, Goto, Steps, LoopSteps
<1>9. CASE WipeGit(r)
  BY <1>0, <1>9 DEF TypeOK, WipeGit, Goto, Steps, LoopSteps
<1>10. CASE WipeSimulator(r)
  BY <1>10, AnswerTyped DEF TypeOK, WipeSimulator
<1>11. QED
  BY <1>1, <1>2, <1>3, <1>4, <1>5, <1>6, <1>7, <1>8, <1>9, <1>10 DEF Request, HandlerStep

(* The runner threads keep the types.                                       *)
LEMMA RunnerTyped ==
    ASSUME TypeOK, NEW r \in Runs, RunnerStep(r) \/ DrainOutput(r)
    PROVE  TypeOK'
<1> USE ThreadOfRun DEF durable, files, threads
<1>1. CASE RunnerStart(r)
  BY <1>1 DEF TypeOK, RunnerStart, Goto, Steps, RunnerSteps
<1>2. CASE Preflight(r)
  <2>1. pc' \in [Threads -> Steps]
    BY <1>2 DEF TypeOK, Preflight, Goto, Steps, RunnerSteps
  <2>2. mem' \in [Threads -> Records] /\ record' \in [Runs -> Records]
    BY <1>2, SaveStatusTyped DEF Preflight, TypeOK, Statuses, L!Statuses
  <2>3. QED
    BY <1>2, <2>1, <2>2 DEF TypeOK, Preflight
<1>3. CASE SaveRunning(r)
  <2>1. mem' \in [Threads -> Records] /\ record' \in [Runs -> Records]
    BY <1>3, SaveStatusTyped DEF SaveRunning, Statuses, L!Statuses
  <2>2. QED
    BY <1>3, <2>1 DEF TypeOK, SaveRunning, Goto, Steps, RunnerSteps
<1>4. CASE SpawnAgent(r)
  <2>1. pc' \in [Threads -> Steps]
    BY <1>4 DEF TypeOK, SpawnAgent, Goto, Steps, RunnerSteps
  <2>2. mem' \in [Threads -> Records]
    <3>1. "environment_error" \in Statuses
      BY DEF Statuses, L!Statuses
    <3>2. [mem EXCEPT ![r].status = "environment_error"] \in [Threads -> Records]
      BY <3>1, HandStatusTyped DEF TypeOK
    <3>3. QED
      BY <1>4, <3>2 DEF TypeOK, SpawnAgent
  <2>3. QED
    BY <1>4, <2>1, <2>2 DEF TypeOK, SpawnAgent
<1>5. CASE SaveAttempt(r)
  <2>1. mem' \in [Threads -> Records]
    BY <1>5 DEF TypeOK, SaveAttempt, Records
  <2>2. QED
    BY <1>5, <2>1 DEF TypeOK, SaveAttempt, SaveRun, Goto, Steps, RunnerSteps
<1>6. CASE CollectExit(r)
  <2>1. ExitStatus(agent[r]) \in Statuses
    BY <1>6 DEF CollectExit, ExitStatus, AgentExits, Statuses, L!Statuses
  <2>2. mem' \in [Threads -> Records]
    BY <1>6, <2>1, HandStatusTyped DEF TypeOK, CollectExit
  <2>3. QED
    BY <1>6, <2>2 DEF TypeOK, CollectExit, Goto, Steps, RunnerSteps
<1>7. CASE CollectRaises(r)
  BY <1>7 DEF TypeOK, CollectRaises, SaveRun, Goto, Steps, RunnerSteps
<1>8. CASE CollectTimeout(r)
  BY <1>8 DEF TypeOK, CollectTimeout, Goto, Steps, RunnerSteps
<1>9. CASE SaveOutcome(r)
  BY <1>9 DEF TypeOK, SaveOutcome, SaveRun, Goto, Steps, RunnerSteps
<1>10. CASE Reread(r)
  BY <1>10, RecordTypes DEF TypeOK, Reread, Goto, Steps
<1>11. CASE FailRead(r)
  BY <1>11 DEF TypeOK, FailRead, Goto, Steps, RunnerSteps
<1>12. CASE FailWrite(r)
  <2>1. record' \in [Runs -> Records]
    BY <1>12, RecordTypes DEF TypeOK, FailWrite, SaveRun, Statuses, L!Statuses
  <2>2. QED
    BY <1>12, <2>1, RecordTypes DEF TypeOK, FailWrite, Goto, Steps
<1>13. CASE DrainOutput(r)
  <2>1. [mem EXCEPT ![r].status = "agent_timeout"] \in [Threads -> Records]
    BY HandStatusTyped DEF TypeOK, Statuses, L!Statuses
  <2>2. mem' \in [Threads -> Records] /\ record' \in [Runs -> Records]
    BY <1>13, <2>1 DEF TypeOK, DrainOutput, SaveRun
  <2>3. QED
    BY <1>13, <2>2 DEF TypeOK, DrainOutput, Goto, Steps, RunnerSteps
<1>14. QED
  BY <1>1, <1>2, <1>3, <1>4, <1>5, <1>6, <1>7, <1>8, <1>9, <1>10, <1>11, <1>12, <1>13 DEF RunnerStep

(* So does what a thread that leaves the scorer resets.                     *)
LEMMA LeaveTyped ==
    ASSUME TypeOK, NEW t \in Threads, LeaveScoring(t) \/ ScoringRaises(t)
    PROVE  /\ pc' \in [Threads -> Steps] /\ target' \in Threads
           /\ mem' \in [Threads -> Records] /\ tally' \in [Threads -> Tallies]
           /\ locked' \in [Runs -> BOOLEAN]
<1>1. locked' \in [Runs -> BOOLEAN]
  BY DEF TypeOK, LeaveScoring, ScoringRaises
<1>2. CASE t = Loop
  BY <1>1, <1>2, AnswerTyped DEF LeaveScoring, ScoringRaises
<1>3. CASE t # Loop
  <2>1. pc' \in [Threads -> Steps] /\ target' \in Threads
    BY <1>3 DEF TypeOK, LeaveScoring, ScoringRaises, Goto, Steps, RunnerSteps
  <2>2. mem' \in [Threads -> Records] /\ tally' \in [Threads -> Tallies]
    BY <1>3, RecordTypes, TallyTypes DEF TypeOK, LeaveScoring, ScoringRaises
  <2>3. QED
    BY <1>1, <2>1, <2>2
<1>4. QED
  BY <1>2, <1>3

(* The scorer keeps the types.                                              *)
LEMMA ScoringTyped ==
    ASSUME TypeOK, PlacesOK, NEW t \in Threads, AcquireLock(t) \/ ScoringStep(t)
    PROVE  TypeOK'
<1> USE DEF durable, files, threads
<1>0. RunOf(t) \in Runs
  BY RunOfThread DEF AcquireLock, ScoringStep, BoundedScoringStep, ScoreRead, SaveInterrupted, SaveValidating, SnapshotBefore,
        RunVerifier, SnapshotAfter, CheckIssue, SaveVerdict, SaveScore
<1>1. CASE AcquireLock(t)
  BY <1>0, <1>1 DEF TypeOK, AcquireLock, Goto, Steps, ScoringSteps
<1>2. CASE ScoreRead(t)
  <2>1. CASE LeaveScoring(t) \/ ScoringRaises(t)
    BY <1>2, <2>1, LeaveTyped DEF TypeOK, ScoreRead
  <2>2. CASE ~(LeaveScoring(t) \/ ScoringRaises(t))
    <3>1. pc' \in [Threads -> Steps]
      BY <1>2, <2>2 DEF TypeOK, ScoreRead, Goto, Steps, ScoringSteps
    <3>2. mem' \in [Threads -> Records]
      BY <1>0, <1>2, <2>2 DEF TypeOK, ScoreRead
    <3>3. QED
      BY <1>2, <2>2, <3>1, <3>2 DEF TypeOK, ScoreRead
  <2>3. QED
    BY <2>1, <2>2
<1>3. CASE SaveInterrupted(t)
  <2>1. CASE ScoringRaises(t)
    BY <1>3, <2>1, LeaveTyped DEF TypeOK, SaveInterrupted, SaveRun
  <2>2. CASE ~ScoringRaises(t)
    BY <1>3, <2>2 DEF TypeOK, SaveInterrupted, SaveRun, Goto, Steps, ScoringSteps
  <2>3. QED
    BY <2>1, <2>2
<1>4. CASE SaveValidating(t)
  <2>1. mem' \in [Threads -> Records] /\ record' \in [Runs -> Records]
    BY <1>0, <1>4, SaveStatusTyped DEF SaveValidating, Statuses, L!Statuses
  <2>2. QED
    BY <1>4, <2>1 DEF TypeOK, SaveValidating, Goto, Steps, ScoringSteps, VerifierSteps
<1>5. CASE SnapshotBefore(t)
  <2>1. tally' \in [Threads -> Tallies]
    <3>1. Snapshot(RunOf(t)) \in {"none", "intact", "altered", "torn", "error"}
      BY <1>0 DEF TypeOK, Snapshot
    <3>2. [seen |-> Snapshot(RunOf(t)), broken |-> Snapshot(RunOf(t)) = "error", passed |-> TRUE] \in Tallies
      BY <3>1 DEF Tallies
    <3>3. QED
      BY <1>5, <3>2 DEF TypeOK, SnapshotBefore
  <2>2. QED
    BY <1>5, <2>1 DEF TypeOK, SnapshotBefore, Goto, Steps, ScoringSteps, VerifierSteps
<1>6. CASE RunVerifier(t)
  <2>1. CASE ScoringRaises(t)
    BY <1>6, <2>1, LeaveTyped DEF TypeOK, RunVerifier
  <2>2. CASE ~ScoringRaises(t)
    <3>1. PICK verdict \in {"pass", "fail", "error"} :
             tally' = [tally EXCEPT ![t].broken = @ \/ verdict = "error", ![t].passed = verdict = "pass"]
      BY <1>6, <2>2 DEF RunVerifier
    <3>2. [tally[t] EXCEPT !.broken = @ \/ verdict = "error", !.passed = verdict = "pass"] \in Tallies
      BY DEF TypeOK, Tallies
    <3>3. tally' \in [Threads -> Tallies]
      BY <3>1, <3>2 DEF TypeOK
    <3>4. QED
      BY <1>6, <2>2, <3>3 DEF TypeOK, RunVerifier, Goto, Steps, ScoringSteps, VerifierSteps
  <2>3. QED
    BY <2>1, <2>2
<1>7. CASE SnapshotAfter(t)
  <2>1. tally' \in [Threads -> Tallies]
    <3>1. CASE UNCHANGED tally
      BY <3>1 DEF TypeOK
    <3>2. CASE ~UNCHANGED tally
      <4>1. PICK scoped \in BOOLEAN :
               tally' = [tally EXCEPT ![t].broken = @ \/ Snapshot(RunOf(t)) # tally[t].seen,
                                      ![t].passed = @ /\ scoped]
        BY <1>7, <3>2 DEF SnapshotAfter
      <4>2. [tally[t] EXCEPT !.broken = @ \/ Snapshot(RunOf(t)) # tally[t].seen,
                             !.passed = @ /\ scoped] \in Tallies
        BY DEF TypeOK, Tallies
      <4>3. QED
        BY <4>1, <4>2 DEF TypeOK
    <3>3. QED
      BY <3>1, <3>2
  <2>2. pc' \in [Threads -> Steps]
    BY <1>7 DEF TypeOK, SnapshotAfter, Goto, Steps, ScoringSteps, VerifierSteps
  <2>3. QED
    BY <1>7, <2>1, <2>2 DEF TypeOK, SnapshotAfter
<1>8. CASE CheckIssue(t)
  <2>1. CASE ScoringRaises(t)
    BY <1>8, <2>1, LeaveTyped DEF TypeOK, CheckIssue
  <2>2. CASE ~ScoringRaises(t)
    <3>1. [tally[t] EXCEPT !.broken = TRUE] \in Tallies
      BY DEF TypeOK, Tallies
    <3>2. [tally[t] EXCEPT !.passed = @ /\ simulator[RunOf(t)] = "reached"] \in Tallies
      BY DEF TypeOK, Tallies
    <3>3. tally' \in [Threads -> Tallies]
      BY <1>8, <2>2, <3>1, <3>2 DEF TypeOK, CheckIssue
    <3>4. QED
      BY <1>8, <2>2, <3>3 DEF TypeOK, CheckIssue, Goto, Steps, ScoringSteps, VerifierSteps
  <2>3. QED
    BY <2>1, <2>2
<1>9. CASE SaveVerdict(t)
  <2>1. CASE ScoringRaises(t)
    <3>1. record' \in [Runs -> Records]
      BY <1>0, <1>9, SaveStatusTyped DEF TypeOK, SaveVerdict, Statuses, L!Statuses
    <3>2. QED
      BY <1>9, <2>1, <3>1, LeaveTyped DEF TypeOK, SaveVerdict
  <2>2. CASE ~ScoringRaises(t)
    <3>1. mem' \in [Threads -> Records] /\ record' \in [Runs -> Records]
      BY <1>0, <1>9, <2>2, SaveStatusTyped DEF SaveVerdict, Statuses, L!Statuses
    <3>2. QED
      BY <1>9, <2>2, <3>1 DEF TypeOK, SaveVerdict, Goto, Steps, ScoringSteps
  <2>3. QED
    BY <2>1, <2>2
<1>10. CASE SaveScore(t)
  <2>1. Document(t) \in L!Scores
    BY DEF TypeOK, Document, L!Scores, Tallies
  <2>2. score' \in [Runs -> L!Scores \cup {NoScore}]
    BY <1>10, <2>1 DEF TypeOK, SaveScore
  <2>3. QED
    BY <1>10, <2>2, LeaveTyped DEF TypeOK, SaveScore
<1>11. QED
  BY <1>1, <1>2, <1>3, <1>4, <1>5, <1>6, <1>7, <1>8, <1>9, <1>10 DEF ScoringStep, BoundedScoringStep

(* Calls of the store that raise keep the types.                            *)
LEMMA FaultsTyped ==
    ASSUME TypeOK, faults < MaxFaults, faults' = faults + 1
    PROVE  faults' \in 0 .. MaxFaults
BY FaultsAssumption DEF TypeOK

(* ... wherever they raise.                                                 *)
LEMMA StoreFailsTyped ==
    ASSUME TypeOK, \/ \E r \in Runs : PrepareUnsaved(r) \/ RunnerStoreFails(r)
                   \/ \E t \in Threads : ScorerStoreFails(t)
    PROVE  TypeOK'
<1> USE DEF durable, files, threads
<1>1. ASSUME NEW r \in Runs, PrepareUnsaved(r) PROVE TypeOK'
  <2>1. record' \in [Runs -> Records]
    <3>1. (r \in IssueRuns) \in BOOLEAN
      OBVIOUS
    <3>2. [status |-> "reset_error", attempted |-> FALSE, workspace |-> TRUE,
           simulator |-> r \in IssueRuns] \in Records
      BY <3>1 DEF Records, Statuses, L!Statuses
    <3>3. QED
      BY <1>1, <3>2 DEF TypeOK, PrepareUnsaved, SaveRun
  <2>2. simulator' \in [Runs -> {"none", "open", "reached", "gone"}]
    BY <1>1 DEF TypeOK, PrepareUnsaved
  <2>3. gitState' \in [Runs -> BOOLEAN]
    BY <1>1 DEF TypeOK, PrepareUnsaved
  <2>4. tree' \in [Runs -> {"none", "intact", "altered", "torn", "gone"}]
    BY <1>1 DEF TypeOK, PrepareUnsaved
  <2>5. QED
    BY <1>1, <2>1, <2>2, <2>3, <2>4, AnswerTyped, FaultsTyped DEF TypeOK, PrepareUnsaved
<1>2. ASSUME NEW r \in Runs, RunnerStoreFails(r) PROVE TypeOK'
  <2>1. r \in Threads /\ RunOf(r) = r
    BY ThreadOfRun
  <2>2. [mem[r] EXCEPT !.attempted = TRUE] \in Records
    BY <2>1, RecordTypes DEF TypeOK
  <2>3. mem' \in [Threads -> Records] /\ mem'[r] \in Records
    BY <1>2, <2>1, <2>2, RecordTypes DEF TypeOK, RunnerStoreFails
  <2>4. record' \in [Runs -> Records]
    BY <1>2, <2>3 DEF TypeOK, RunnerStoreFails, SaveRun
  <2>5. pc' \in [Threads -> Steps]
    BY <1>2, <2>1 DEF TypeOK, RunnerStoreFails, Goto, Steps, RunnerSteps
  <2>6. QED
    BY <1>2, <2>3, <2>4, <2>5, FaultsTyped DEF TypeOK, RunnerStoreFails
<1>3. ASSUME NEW t \in Threads, ScorerStoreFails(t) PROVE TypeOK'
  BY <1>3, LeaveTyped, FaultsTyped DEF TypeOK, ScorerStoreFails
<1>4. QED
  BY <1>1, <1>2, <1>3

(* Agents, crashes and recovery keep the types.                             *)
LEMMA EnvironmentTyped ==
    ASSUME TypeOK, \/ \E r \in Runs : AgentExit(r) \/ StrayWrite(r) \/ RecoverRun(r)
                   \/ ReadRequest \/ Crash \/ Boot \/ Serve \/ UNCHANGED vars
    PROVE  TypeOK'
<1> USE DEF durable, files, threads
<1>1. ASSUME NEW r \in Runs, AgentExit(r) PROVE TypeOK'
  BY <1>1 DEF TypeOK, AgentExit
<1>2. ASSUME NEW r \in Runs, StrayWrite(r) PROVE TypeOK'
  BY <1>2 DEF TypeOK, StrayWrite
<1>3. ASSUME NEW r \in Runs, RecoverRun(r) PROVE TypeOK'
  <2>1. record' \in [Runs -> Records]
    BY <1>3, RecordTypes DEF TypeOK, RecoverRun, SaveRun, Statuses, L!Statuses
  <2>2. QED
    BY <1>3, <2>1 DEF TypeOK, RecoverRun
<1>4. CASE ReadRequest \/ UNCHANGED vars
  BY <1>4 DEF TypeOK, ReadRequest, vars
<1>5. CASE Crash
  <2>1. crashes' \in 0 .. MaxCrashes
    BY <1>5, CrashesAssumption DEF TypeOK, Crash
  <2>2. pc' \in [Threads -> Steps] /\ target' \in Threads
    BY <1>5 DEF Crash, Steps, Threads
  <2>3. mem' \in [Threads -> Records] /\ tally' \in [Threads -> Tallies]
    BY <1>5, RecordTypes, TallyTypes DEF Crash
  <2>4. QED
    BY <1>5, <2>1, <2>2, <2>3 DEF TypeOK, Crash
<1>6. CASE Boot
  BY <1>6 DEF TypeOK, Boot
<1>7. CASE Serve
  BY <1>7 DEF TypeOK, Serve
<1>8. QED
  BY <1>1, <1>2, <1>3, <1>4, <1>5, <1>6, <1>7

-----------------------------------------------------------------------------
(* Preservation of the invariant: what a step leaves alone. *)

(* The things of Run r that the invariant is about.                         *)
Undisturbed(r) ==
    /\ record'[r] = record[r] /\ score'[r] = score[r] /\ agent'[r] = agent[r]
    /\ pc'[r] = pc[r] /\ mem'[r] = mem[r]

Running == service' = service /\ crashes' = crashes /\ faults' \in {faults, faults + 1}

(* A Run that a step leaves alone keeps its part of the invariant, unless   *)
(* the event loop has come to it.                                           *)
LEMMA RunKept ==
    ASSUME IInv, Running, NEW r \in Runs, Undisturbed(r),
           pc'[Loop] \in ScoringSteps \ {"read"} /\ target' = r => pc[Loop] = pc'[Loop] /\ target = r
    PROVE  RunInv(r)'
<1>1. (faults' = 0 => faults = 0) /\ RunInv(r)
  BY FaultsAssumption DEF IInv, TypeOK, Running
<1>2. RecordOK(r)'
  BY <1>1 DEF RunInv, RecordOK, Undisturbed
<1>3. RunnerOK(r)'
  BY <1>1 DEF RunInv, RunnerOK, Undisturbed, ScoringSteps, VerifierSteps
<1>4. faults' = 0 => InStep(r)'
  BY <1>1 DEF RunInv, InStep, Undisturbed, Running
<1>5. QED
  BY <1>2, <1>3, <1>4 DEF RunInv

(* So does a thread that a step leaves alone, with its Run.                 *)
LEMMA ThreadKept ==
    ASSUME IInv, NEW t \in Threads, pc'[t] = pc[t], mem'[t] = mem[t], tally'[t] = tally[t],
           faults' \in {faults, faults + 1},
           pc[t] \in ScoringSteps \ {"read"} =>
               /\ RunOf(t)' = RunOf(t)
               /\ record'[RunOf(t)] = record[RunOf(t)] /\ score'[RunOf(t)] = score[RunOf(t)]
               /\ agent'[RunOf(t)] = agent[RunOf(t)]
               /\ t = Loop /\ pc[target] = "done" => target' = target /\ pc'[target] = "done"
    PROVE  ScorerOK(t)'
<1>1. ScorerOK(t) /\ (faults > 0 => faults' > 0)
  BY FaultsAssumption DEF IInv, TypeOK
<1>2. CASE pc[t] \notin ScoringSteps \ {"read"}
  BY <1>2 DEF ScorerOK, ScoringSteps, VerifierSteps
<1>3. CASE pc[t] \in ScoringSteps \ {"read"}
  <2>1. KnowsRecord(t) /\ (t = Loop => RunOf(t) = target)
    BY <1>1, <1>3 DEF ScorerOK, RunOf
  <2>2. KnowsRecord(t)'
    BY <1>1, <1>3, <2>1 DEF KnowsRecord, AsError
  <2>3. QED
    BY <1>1, <1>3, <2>2 DEF ScorerOK
<1>4. QED
  BY <1>2, <1>3

(* As long as a Run has not come out of its runner no thread is past the    *)
(* reading of its record; and past it, the Run has ended.                   *)
LEMMA NobodyJudges ==
    ASSUME IInv, NEW r \in Runs, record[r].status \notin Ended
    PROVE  \A t \in Threads : RunOf(t) = r => pc[t] \notin ScoringSteps \ {"read"}
<1> SUFFICES ASSUME NEW t \in Threads, RunOf(t) = r, pc[t] \in ScoringSteps \ {"read"} PROVE FALSE
  OBVIOUS
<1>1. ScorerOK(t) /\ mem[t] \in Records
  BY DEF IInv, TypeOK
<1>2. mem[t].status \in Ended
  BY <1>1 DEF ScorerOK, ScoringSteps, Ended, VerifierSteps
<1>3. AsError(mem[t]).status = "environment_error"
  BY <1>1 DEF AsError, Records
<1>4. RunOf(t) = r /\ (t = Loop => target = r)
  BY DEF RunOf
<1>5. QED
  BY <1>1, <1>2, <1>3, <1>4 DEF ScorerOK, KnowsRecord, Ended

(* A Run with a Score has come to its end.                                  *)
LEMMA ScoredStatus ==
    ASSUME IInv, NEW r \in Runs, score[r] # NoScore
    PROVE  record[r].status \in {"completed", "environment_error"} \cup CutShort
BY DEF IInv, RunInv, RecordOK

(* The Run a handler prepares has nothing but its uuid.                     *)
LEMMA FreshRun ==
    ASSUME IInv, pc[Loop] = "building"
    PROVE  /\ target \in Runs /\ record[target].status = "absent" /\ record[target] = NoRecord
           /\ pc[target] = "idle" /\ agent[target] = "none" /\ score[target] = NoScore
<1>1. target \in Runs /\ record[target].status = "absent" /\ record[target] = NoRecord
  BY DEF IInv, TypeOK, PlacesOK, Threads, NoRecord
<1>2. QED
  BY <1>1, ScoredStatus DEF IInv, RunInv, RecordOK, CutShort, L!CutShort

(* The inductive invariant holds at the start.                              *)
LEMMA InitInv == Init => IInv
<1> SUFFICES ASSUME Init PROVE IInv
  OBVIOUS
<1>1. TypeOK
  BY InitTyped
<1>2. PlacesOK
  BY LoopAssumption DEF Init, PlacesOK, Threads, RunnerSteps, LoopSteps
<1>3. LockOK /\ \A t \in Threads : ScorerOK(t)
  BY DEF Init, LockOK, ScorerOK, ScoringSteps, VerifierSteps
<1>4. \A r \in Runs : RunInv(r)
  BY DEF Init, RunInv, RunnerOK, RecordOK, InStep, Earned, ScoringSteps, VerifierSteps, NoRecord, Threads,
      NoScore, L!NoScore
<1>5. QED
  BY <1>1, <1>2, <1>3, <1>4 DEF IInv

-----------------------------------------------------------------------------
(* The handlers. *)

(* A step of the event loop outside of the scorer that stores nothing.      *)
HandlerFrame ==
    /\ pc[Loop] \notin ScoringSteps /\ pc'[Loop] \notin ScoringSteps
    /\ \A u \in Runs : pc'[u] = pc[u] /\ mem'[u] = mem[u] /\ tally'[u] = tally[u]
    /\ UNCHANGED <<score, agent, locked, service, crashes>>
    /\ faults' \in {faults, faults + 1}

(* It keeps what it leaves alone.                                           *)
LEMMA HandlerFrameKeeps ==
    ASSUME IInv, TypeOK', HandlerFrame
    PROVE  /\ LockOK'
           /\ \A r \in Runs : record'[r] = record[r] => RunInv(r)'
           /\ (\A r \in Runs : record'[r] # record[r] => record[r].status \notin Ended)
                 => \A t \in Threads : ScorerOK(t)'
<1>1. LockOK'
  BY ThreadOfRun, LoopAssumption DEF IInv, LockOK, HandlerFrame, Threads, RunOf
<1>2. ASSUME NEW r \in Runs, record'[r] = record[r] PROVE RunInv(r)'
  <2>1. Undisturbed(r) /\ Running
    BY <1>2 DEF HandlerFrame, Undisturbed, Running
  <2>2. pc'[Loop] \notin ScoringSteps
    BY DEF HandlerFrame
  <2>3. QED
    BY <2>1, <2>2, RunKept
<1>3. ASSUME \A r \in Runs : record'[r] # record[r] => record[r].status \notin Ended, NEW t \in Threads
      PROVE  ScorerOK(t)'
  <2>1. CASE t = Loop
    BY <2>1 DEF HandlerFrame, ScorerOK, ScoringSteps, VerifierSteps
  <2>2. CASE t \in Runs
    <3>1. RunOf(t) = t /\ RunOf(t)' = t /\ t # Loop
      BY <2>2, LoopAssumption DEF RunOf
    <3>2. pc[t] \in ScoringSteps \ {"read"} => record'[t] = record[t]
      BY <1>3, <2>2, <3>1, NobodyJudges
    <3>3. QED
      BY <2>2, <3>1, <3>2, ThreadKept DEF HandlerFrame
  <2>3. QED
    BY <2>1, <2>2 DEF Threads
<1>4. QED
  BY <1>1, <1>2, <1>3

(* What the end of a handler does to the threads.                           *)
LEMMA AnswerMoves ==
    ASSUME TypeOK, Answer
    PROVE  /\ pc'[Loop] = "idle" /\ target' = Loop
           /\ \A u \in Runs : pc'[u] = pc[u] /\ mem'[u] = mem[u] /\ tally'[u] = tally[u]
BY LoopAssumption DEF TypeOK, Answer, Goto, Threads

(* A preparation that ends stores the record of a Run that has none, or     *)
(* stores nothing.                                                          *)
LEMMA PreparationKeeps ==
    ASSUME IInv, TypeOK', NEW r \in Runs, pc[Loop] = "building", target = r, Answer,
           UNCHANGED <<score, agent, locked, service, crashes>>, faults' \in {faults, faults + 1},
           \/ UNCHANGED record
           \/ \E run \in Records : SaveRun(r, run) /\ run.status \in {"ready", "reset_error"}
    PROVE  IInv'
<1>1. HandlerFrame
  BY AnswerMoves DEF IInv, HandlerFrame, ScoringSteps, VerifierSteps
<1>2. /\ record[r].status = "absent" /\ pc[r] = "idle" /\ agent[r] = "none" /\ score[r] = NoScore
  BY FreshRun
<1>3. \A u \in Runs \ {r} : record'[u] = record[u]
  BY DEF IInv, TypeOK, SaveRun
<1>4. record'[r] = record[r] \/ record'[r].status \in {"ready", "reset_error"}
  BY DEF IInv, TypeOK, SaveRun
<1>5. PlacesOK'
  BY AnswerMoves, LoopAssumption DEF IInv, PlacesOK, RunnerSteps, Threads
<1>6. LockOK' /\ \A t \in Threads : ScorerOK(t)'
  BY <1>1, <1>2, <1>3, HandlerFrameKeeps DEF Ended, CutShort, L!CutShort
<1>7. ASSUME NEW u \in Runs PROVE RunInv(u)'
  <2>1. CASE record'[u] = record[u]
    BY <1>1, <2>1, HandlerFrameKeeps
  <2>2. CASE record'[u] # record[u]
    <3>1. u = r /\ record'[r].status \in {"ready", "reset_error"} /\ pc'[r] = "idle" /\ agent'[r] = "none" /\ score'[r] = NoScore
      BY <1>2, <1>3, <1>4, <2>2, AnswerMoves DEF IInv
    <3>2. QED
      BY <3>1 DEF RunInv, RunnerOK, RecordOK, InStep, Earned, ScoringSteps, VerifierSteps, NoScore, L!NoScore
  <2>3. QED
    BY <2>1, <2>2
<1>8. QED
  BY <1>5, <1>6, <1>7 DEF IInv

(* A claim puts a thread at its start.                                      *)
LEMMA ClaimKeeps ==
    ASSUME IInv, TypeOK', NEW r \in Runs, ExecuteRun(r)
    PROVE  IInv'
<1> USE ThreadOfRun, LoopAssumption
<1>1. /\ record[r].status = "ready" /\ pc[Loop] = "idle" /\ service = "serving" /\ pc[r] = "idle"
      /\ agent[r] = "none" /\ score[r] = NoScore
  <2>1. record[r].status = "ready" /\ pc[Loop] = "idle" /\ service = "serving"
    BY DEF ExecuteRun, ClaimReadyRun, LoopFree
  <2>2. QED
    BY <2>1, ScoredStatus DEF IInv, RunInv, RecordOK, CutShort, L!CutShort
<1>2. /\ pc' = [pc EXCEPT ![r] = "start"]
      /\ record' = [record EXCEPT ![r] = [record[r] EXCEPT !.status = "queued"]]
      /\ UNCHANGED <<score, agent, locked, service, crashes, faults, target, mem, tally>>
  BY DEF ExecuteRun, ClaimReadyRun, SaveRun, Goto, durable, files
<1>3. /\ record'[r].status = "queued" /\ pc'[r] = "start"
      /\ \A u \in Threads \ {r} : pc'[u] = pc[u]
      /\ \A u \in Runs \ {r} : record'[u] = record[u]
  BY <1>2 DEF IInv, TypeOK, Records
<1>4. PlacesOK'
  BY <1>1, <1>2, <1>3 DEF IInv, PlacesOK, LoopSteps, Threads
<1>5. LockOK'
  BY <1>1, <1>2, <1>3 DEF IInv, LockOK, ScoringSteps, VerifierSteps, RunOf
<1>6. ASSUME NEW t \in Threads PROVE ScorerOK(t)'
  <2>1. CASE t = r
    BY <1>3, <2>1 DEF ScorerOK, ScoringSteps, VerifierSteps
  <2>2. CASE t = Loop
    BY <1>1, <1>3, <2>2 DEF ScorerOK, ScoringSteps, VerifierSteps
  <2>3. CASE t \in Runs \ {r}
    <3>1. RunOf(t) = t /\ RunOf(t)' = t
      BY <2>3 DEF RunOf
    <3>2. QED
      BY <1>2, <1>3, <2>3, <3>1, ThreadKept
  <2>4. QED
    BY <2>1, <2>2, <2>3 DEF Threads
<1>7. ASSUME NEW u \in Runs PROVE RunInv(u)'
  <2>1. CASE u = r
    BY <1>1, <1>2, <1>3, <2>1 DEF RunInv, RunnerOK, RecordOK, InStep, Earned, ScoringSteps, VerifierSteps,
        NoScore, L!NoScore
  <2>2. CASE u # r
    BY <1>1, <1>2, <1>3, <2>2, RunKept DEF Undisturbed, Running, Threads
  <2>3. QED
    BY <2>1, <2>2
<1>8. QED
  BY <1>4, <1>5, <1>6, <1>7 DEF IInv

(* The handlers keep the inductive invariant.                               *)
LEMMA HandlersKeep ==
    ASSUME IInv, TypeOK', NEW r \in Runs, Request(r) \/ HandlerStep(r) \/ PrepareUnsaved(r)
    PROVE  IInv'
<1> USE LoopAssumption DEF durable, files, threads
<1>1. CASE PrepareReady(r) \/ PrepareFailed(r) \/ PrepareUnsaved(r)
  <2>1. (r \in IssueRuns) \in BOOLEAN
    OBVIOUS
  <2>2. [status |-> "reset_error", attempted |-> FALSE, workspace |-> TRUE,
         simulator |-> r \in IssueRuns] \in Records
    BY <2>1 DEF Records, Statuses, L!Statuses
  <2>3. CASE PrepareReady(r)
    BY <2>1, <2>3, RecordTypes, PreparationKeeps DEF PrepareReady
  <2>4. CASE PrepareFailed(r)
    BY <2>4, RecordTypes, PreparationKeeps DEF PrepareFailed, NoRecord
  <2>5. CASE PrepareUnsaved(r)
    BY <2>2, <2>5, PreparationKeeps DEF PrepareUnsaved
  <2>6. QED
    BY <1>1, <2>3, <2>4, <2>5
<1>2. CASE ExecuteRun(r)
  BY <1>2, ClaimKeeps
<1>3. CASE \/ PrepareBegin(r) \/ ScoreRun(r) \/ CleanupBegin(r) \/ SimulatorWrite(r)
           \/ WipeTree(r) \/ WipeGit(r) \/ WipeSimulator(r)
  <2>1. UNCHANGED <<record, score, agent, locked, service, crashes, faults>>
    BY <1>3 DEF PrepareBegin, ScoreRun, CleanupBegin, SimulatorWrite, WipeTree, WipeGit, WipeSimulator
  <2>2. /\ \A u \in Runs : pc'[u] = pc[u] /\ mem'[u] = mem[u] /\ tally'[u] = tally[u]
        /\ pc[Loop] \in {"idle"} \cup LoopSteps
        /\ \/ target' \in Runs /\ pc'[Loop] \in {"lock", "wipeTree", "wipeGit", "wipeSimulator"}
           \/ target' = r /\ pc'[Loop] = "building" /\ record[r] = NoRecord
           \/ target' = Loop /\ pc'[Loop] = "idle"
    BY <1>3, AnswerMoves DEF IInv, TypeOK, PlacesOK, Threads, Goto, LoopFree, LoopSteps, PrepareBegin, ScoreRun,
        CleanupBegin, SimulatorWrite, WipeTree, WipeGit, WipeSimulator
  <2>3. service = "serving"
    BY <1>3 DEF IInv, PlacesOK, Threads, LoopFree, PrepareBegin, ScoreRun, CleanupBegin, SimulatorWrite,
        WipeTree, WipeGit, WipeSimulator
  <2>4. HandlerFrame
    BY <2>1, <2>2 DEF HandlerFrame, ScoringSteps, VerifierSteps, LoopSteps
  <2>5. PlacesOK'
    BY <2>1, <2>2, <2>3 DEF IInv, PlacesOK, RunnerSteps, Threads
  <2>6. QED
    BY <2>1, <2>4, <2>5, HandlerFrameKeeps DEF IInv
<1>4. QED
  BY <1>1, <1>2, <1>3 DEF Request, HandlerStep

-----------------------------------------------------------------------------
(* The runner. *)

(* A step of the thread of r in the runner, to another step of it or to the *)
(* scorer's lock or the end.                                                *)
RunnerFrame(r) ==
    /\ pc[r] \in RunnerSteps /\ pc'[r] \in RunnerSteps \cup {"lock", "done"}
    /\ \A u \in Threads \ {r} : pc'[u] = pc[u] /\ mem'[u] = mem[u]
    /\ \A u \in Runs \ {r} : record'[u] = record[u] /\ agent'[u] = agent[u]
    /\ UNCHANGED <<target, tally, score, locked>> /\ Running

(* What it leaves alone keeps its part of the invariant.                    *)
LEMMA RunnerFrameRest ==
    ASSUME IInv, TypeOK', NEW r \in Runs, RunnerFrame(r)
    PROVE  /\ PlacesOK' /\ LockOK'
           /\ \A u \in Runs \ {r} : RunInv(u)'
           /\ \A t \in Threads :
                 \/ t = r \/ RunOf(t) # r \/ pc[t] \notin ScoringSteps \ {"read"}
                 \/ record'[r] = record[r] /\ agent'[r] = agent[r]
                 => ScorerOK(t)'
<1> USE ThreadOfRun, LoopAssumption
<1>1. PlacesOK'
  <2>1. pc[Loop] = "building" => target # r
    BY FreshRun DEF RunnerFrame, RunnerSteps
  <2>2. service = "serving"
    BY DEF IInv, PlacesOK, RunnerFrame, RunnerSteps
  <2>3. QED
    BY <2>1, <2>2 DEF IInv, TypeOK, PlacesOK, RunnerFrame, Running, RunnerSteps, LoopSteps, Threads
<1>2. \A t \in Threads : RunOf(t)' = RunOf(t)
  BY DEF RunnerFrame, RunOf
<1>3. LockOK'
  BY <1>2 DEF IInv, LockOK, RunnerFrame, RunnerSteps, ScoringSteps, VerifierSteps
<1>4. ASSUME NEW t \in Threads,
             \/ t = r \/ RunOf(t) # r \/ pc[t] \notin ScoringSteps \ {"read"}
             \/ record'[r] = record[r] /\ agent'[r] = agent[r]
      PROVE  ScorerOK(t)'
  <2>1. CASE t = r
    BY <2>1 DEF RunnerFrame, RunnerSteps, ScorerOK, ScoringSteps, VerifierSteps
  <2>2. CASE t # r
    <3>1. ASSUME pc[t] \in ScoringSteps \ {"read"}
          PROVE  record'[RunOf(t)] = record[RunOf(t)] /\ agent'[RunOf(t)] = agent[RunOf(t)]
      <4>1. RunOf(t) \in Runs
        BY <3>1, RunOfThread DEF IInv, ScoringSteps, VerifierSteps
      <4>2. QED
        BY <1>4, <2>2, <3>1, <4>1 DEF RunnerFrame
    <3>2. t = Loop /\ pc[target] = "done" /\ target # Loop => pc'[target] = "done"
      BY DEF RunnerFrame, RunnerSteps, IInv, TypeOK
    <3>3. pc[Loop] # "idle" => target # Loop
      BY DEF IInv, PlacesOK
    <3>4. QED
      BY <1>2, <2>2, <3>1, <3>2, <3>3, ThreadKept DEF RunnerFrame, Running, ScoringSteps, VerifierSteps
  <2>3. QED
    BY <2>1, <2>2
<1>5. ASSUME NEW u \in Runs \ {r} PROVE RunInv(u)'
  BY RunKept DEF RunnerFrame, Undisturbed, Threads
<1>6. QED
  BY <1>1, <1>3, <1>4, <1>5

(* All that is left to show of it is the part of r, as long as it does not  *)
(* write below a thread that judges the Run.                                *)
LEMMA RunnerFrameKeeps ==
    ASSUME IInv, TypeOK', NEW r \in Runs, RunnerFrame(r),
           record[r].status \notin Ended \/ (record'[r] = record[r] /\ agent'[r] = agent[r]),
           RunInv(r)'
    PROVE  IInv'
<1>1. ASSUME NEW t \in Threads PROVE ScorerOK(t)'
  <2>1. record[r].status \notin Ended /\ RunOf(t) = r => pc[t] \notin ScoringSteps \ {"read"}
    BY NobodyJudges
  <2>2. QED
    BY <2>1, RunnerFrameRest
<1>2. QED
  BY <1>1, RunnerFrameRest DEF IInv

(* Running out of the steps before the Run has ended.                       *)
LEMMA RunningSteps ==
    ASSUME IInv, NEW r \in Runs, pc[r] \in {"start", "preflight", "launch", "spawn", "attempt", "wait", "drain", "finish"}
    PROVE  /\ record[r].status \in {"queued", "running"} /\ record[r].status \notin Ended
           /\ score[r] = NoScore
           /\ \A t \in Threads : RunOf(t) = r => pc[t] \notin ScoringSteps \ {"read"}
           /\ target = r => pc[Loop] \notin ScoringSteps \ {"read"}
<1>1. record[r].status \in {"queued", "running"} /\ record[r].status \notin Ended
  BY DEF IInv, RunInv, RunnerOK, Ended, CutShort, L!CutShort
<1>2. score[r] = NoScore
  BY <1>1, ScoredStatus DEF Ended
<1>3. \A t \in Threads : RunOf(t) = r => pc[t] \notin ScoringSteps \ {"read"}
  BY <1>1, NobodyJudges
<1>4. QED
  BY <1>1, <1>2, <1>3, LoopAssumption DEF RunOf, Threads

(* The steps up to Popen.                                                   *)
LEMMA LaunchKeeps ==
    ASSUME IInv, TypeOK', NEW r \in Runs, RunnerStart(r) \/ Preflight(r) \/ SaveRunning(r) \/ SpawnAgent(r)
    PROVE  IInv'
<1> USE ThreadOfRun, LoopAssumption DEF durable, files, threads
<1>1. /\ pc[r] \in {"start", "preflight", "launch", "spawn"} /\ agent[r] = "none"
      /\ RunInv(r) /\ mem[r] \in Records /\ record[r] \in Records
  BY DEF IInv, TypeOK, RunInv, RunnerOK, RunnerStart, Preflight, SaveRunning, SpawnAgent
<1>2. RunnerFrame(r)
  BY DEF IInv, TypeOK, RunnerFrame, Running, RunnerSteps, Threads, Goto, SaveStatus, SaveRun, RunOf,
      RunnerStart, Preflight, SaveRunning, SpawnAgent
<1>3. RunInv(r)'
  <2>1. CASE RunnerStart(r)
    BY <1>1, <2>1, RunningSteps DEF RunInv, RunnerOK, RecordOK, InStep, Earned, ScoringSteps, VerifierSteps,
        IInv, TypeOK, RunnerStart, Goto, Threads
  <2>2. CASE Preflight(r)
    <3>0. record[r].status = "queued" /\ mem[r] = record[r] /\ pc[r] = "preflight"
      BY <1>1, <2>2 DEF RunInv, RunnerOK, Preflight
    <3>1. CASE SaveStatus(r, "environment_error")
      <4>1. record'[r].status = "environment_error" /\ pc'[r] = "reread"
        BY <1>1, <2>2, <3>0, <3>1 DEF SaveStatus, SaveRun, Preflight, Goto, IInv, TypeOK, Threads, Records
      <4>2. QED
        BY <1>1, <2>2, <3>0, <4>1, RunningSteps DEF Preflight, RunInv, RunnerOK, RecordOK, InStep, Earned, ScoringSteps,
            VerifierSteps, Ended
    <3>2. CASE ~SaveStatus(r, "environment_error")
      <4>1. record' = record /\ mem' = mem /\ pc'[r] \in {"launch", "failRead"} /\ pc'[Loop] = pc[Loop]
        BY <2>2, <3>2 DEF Preflight, Goto, IInv, TypeOK, Threads
      <4>2. QED
        BY <1>1, <2>2, <3>0, <4>1, RunningSteps DEF Preflight, RunInv, RunnerOK, RecordOK, InStep, ScoringSteps,
            VerifierSteps
    <3>3. QED
      BY <3>1, <3>2
  <2>3. CASE SaveRunning(r)
    <3>1. record'[r].status = "running" /\ mem'[r] = record'[r] /\ pc'[r] = "spawn"
      BY <1>1, <2>3 DEF SaveRunning, SaveStatus, SaveRun, Goto, IInv, TypeOK, Threads, Records
    <3>2. QED
      BY <1>1, <2>3, <3>1, RunningSteps DEF SaveRunning, RunInv, RunnerOK, RecordOK, InStep, Earned, ScoringSteps,
          VerifierSteps
  <2>4. CASE SpawnAgent(r)
    <3>0. record[r].status = "running" /\ mem[r] = record[r] /\ pc[r] = "spawn"
      BY <1>1, <2>4 DEF RunInv, RunnerOK, SpawnAgent
    <3>1. CASE agent' = [agent EXCEPT ![r] = "alive"] /\ Goto(r, "attempt") /\ UNCHANGED mem
      <4>1. agent'[r] = "alive" /\ pc'[r] = "attempt"
        BY <3>1 DEF Goto, IInv, TypeOK, Threads
      <4>2. QED
        BY <1>1, <2>4, <3>0, <3>1, <4>1, RunningSteps DEF SpawnAgent, RunInv, RunnerOK, RecordOK, InStep, Earned,
            ScoringSteps, VerifierSteps
    <3>2. CASE mem' = [mem EXCEPT ![r].status = "environment_error"] /\ Goto(r, "finish") /\ UNCHANGED agent
      <4>1. mem'[r].status = "environment_error" /\ pc'[r] = "finish"
        BY <1>1, <3>2 DEF Goto, IInv, TypeOK, Threads, Records
      <4>2. QED
        BY <1>1, <2>4, <3>0, <3>2, <4>1, RunningSteps DEF SpawnAgent, RunInv, RunnerOK, RecordOK, InStep, Earned,
            ScoringSteps, VerifierSteps
    <3>3. QED
      BY <2>4, <3>1, <3>2 DEF SpawnAgent
  <2>5. QED
    BY <2>1, <2>2, <2>3, <2>4
<1>4. QED
  BY <1>1, <1>2, <1>3, RunningSteps, RunnerFrameKeeps

(* The steps from Popen to the outcome.                                     *)
LEMMA AttemptKeeps ==
    ASSUME IInv, TypeOK', NEW r \in Runs,
           \/ SaveAttempt(r) \/ CollectExit(r) \/ CollectRaises(r) \/ CollectTimeout(r)
           \/ DrainOutput(r) \/ SaveOutcome(r)
    PROVE  IInv'
<1> USE ThreadOfRun, LoopAssumption DEF durable, files, threads
<1>1. /\ pc[r] \in {"attempt", "wait", "drain", "finish"} /\ record[r].status = "running"
      /\ RunInv(r) /\ mem[r] \in Records /\ record[r] \in Records
  BY DEF IInv, TypeOK, RunInv, RunnerOK, SaveAttempt, CollectExit, CollectRaises, CollectTimeout, DrainOutput,
      SaveOutcome
<1>2. RunnerFrame(r)
  BY DEF IInv, TypeOK, RunnerFrame, Running, RunnerSteps, Threads, Goto, SaveRun, RunOf,
      SaveAttempt, CollectExit, CollectRaises, CollectTimeout, DrainOutput, SaveOutcome
<1>3. pc'[Loop] = pc[Loop] /\ target' = target
  BY <1>2 DEF RunnerFrame, Threads
<1>4. RunInv(r)'
  <2>1. CASE SaveAttempt(r)
    <3>1. /\ pc[r] = "attempt" /\ pc'[r] = "wait" /\ mem'[r] = record'[r]
          /\ record'[r].status = "running" /\ record'[r].attempted
      BY <1>1, <2>1 DEF SaveAttempt, SaveRun, Goto, IInv, TypeOK, Threads, Records, RunInv, RunnerOK
    <3>2. QED
      BY <1>1, <2>1, <3>1, RunningSteps DEF SaveAttempt, RunInv, RunnerOK, RecordOK, InStep, Earned, ScoringSteps,
          VerifierSteps
  <2>2. CASE CollectExit(r)
    <3>1. pc[r] = "wait" /\ pc'[r] = "finish" /\ mem'[r] = [mem[r] EXCEPT !.status = ExitStatus(agent[r])]
      BY <2>2 DEF CollectExit, Goto, IInv, TypeOK, Threads
    <3>2. mem'[r].status = ExitStatus(agent[r]) /\ mem'[r].attempted = mem[r].attempted
      BY <1>1, <3>1 DEF Records
    <3>3. mem[r].attempted /\ agent[r] \in AgentExits
      BY <1>1, <2>2 DEF RunInv, RunnerOK, CollectExit
    <3>4. Earned(mem'[r], agent'[r]) /\ mem'[r].status \in {"environment_error", "completed"} \cup CutShort /\ agent'[r] # "alive"
      BY <2>2, <3>2, <3>3 DEF CollectExit, Earned, ExitStatus, AgentExits, CutShort, L!CutShort
    <3>5. QED
      BY <1>1, <2>2, <3>1, <3>4, RunningSteps DEF CollectExit, RunInv, RunnerOK, RecordOK, InStep, Earned, ScoringSteps,
          VerifierSteps
  <2>3. CASE CollectRaises(r)
    <3>1. pc[r] = "wait" /\ pc'[r] = "failRead" /\ record'[r] = record[r] /\ agent[r] # "alive"
      BY <1>1, <2>3 DEF CollectRaises, SaveRun, Goto, IInv, TypeOK, Threads, RunInv, RunnerOK, AgentExits
    <3>2. QED
      BY <1>1, <1>3, <2>3, <3>1, RunningSteps DEF CollectRaises, RunInv, RunnerOK, RecordOK, InStep, ScoringSteps,
          VerifierSteps
  <2>4. CASE CollectTimeout(r)
    <3>1. /\ pc[r] = "wait" /\ pc'[r] = "drain" /\ agent'[r] \in {"killed"} \cup AgentExits
          /\ agent'[r] # "alive"
      BY <1>1, <2>4 DEF CollectTimeout, Goto, IInv, TypeOK, Threads, AgentExits
    <3>2. QED
      BY <1>1, <2>4, <3>1, RunningSteps DEF CollectTimeout, RunInv, RunnerOK, RecordOK, InStep, Earned, ScoringSteps,
          VerifierSteps
  <2>5. CASE DrainOutput(r)
    <3>0. pc[r] = "drain" /\ agent[r] \in {"killed"} \cup AgentExits /\ mem[r] = record[r] /\ record[r].attempted
      BY <1>1, <2>5 DEF DrainOutput, RunInv, RunnerOK
    <3>1. CASE mem' = [mem EXCEPT ![r].status = "agent_timeout"] /\ Goto(r, "finish") /\ UNCHANGED record
      <4>1. mem'[r].status = "agent_timeout" /\ mem'[r].attempted /\ pc'[r] = "finish"
        BY <1>1, <3>0, <3>1 DEF Goto, IInv, TypeOK, Threads, Records
      <4>2. QED
        BY <1>1, <2>5, <3>0, <3>1, <4>1, RunningSteps DEF DrainOutput, RunInv, RunnerOK, RecordOK, InStep, Earned,
            ScoringSteps, VerifierSteps, AgentExits, CutShort, L!CutShort
    <3>2. CASE SaveRun(r, mem[r]) /\ Goto(r, "failRead") /\ UNCHANGED mem
      <4>1. record'[r] = record[r] /\ pc'[r] = "failRead"
        BY <3>0, <3>2 DEF SaveRun, Goto, IInv, TypeOK, Threads
      <4>2. QED
        BY <1>1, <1>3, <2>5, <3>0, <4>1, RunningSteps DEF DrainOutput, RunInv, RunnerOK, RecordOK, InStep,
            ScoringSteps, VerifierSteps, AgentExits
    <3>3. QED
      BY <2>5, <3>1, <3>2 DEF DrainOutput
  <2>6. CASE SaveOutcome(r)
    <3>1. pc[r] = "finish" /\ pc'[r] = "reread" /\ record'[r] = mem[r]
      BY <2>6 DEF SaveOutcome, SaveRun, Goto, IInv, TypeOK, Threads
    <3>2. Earned(mem[r], agent[r]) /\ mem[r].status \in {"environment_error", "completed"} \cup CutShort /\ agent[r] # "alive"
      BY <1>1, <3>1 DEF RunInv, RunnerOK
    <3>3. QED
      BY <1>1, <2>6, <3>1, <3>2, RunningSteps DEF SaveOutcome, RunInv, RunnerOK, RecordOK, InStep, ScoringSteps,
          VerifierSteps, Ended, CutShort, L!CutShort, NoScore, L!NoScore
  <2>7. QED
    BY <2>1, <2>2, <2>3, <2>4, <2>5, <2>6
<1>5. QED
  BY <1>1, <1>2, <1>4, RunningSteps, RunnerFrameKeeps

(* The steps after the runner has returned or raised, but for the write.    *)
LEMMA RereadKeeps ==
    ASSUME IInv, TypeOK', NEW r \in Runs, Reread(r) \/ FailRead(r)
    PROVE  IInv'
<1> USE ThreadOfRun, LoopAssumption DEF durable, files, threads
<1>1. RunInv(r) /\ record[r] \in Records
  BY DEF IInv, TypeOK
<1>2. RunnerFrame(r)
  BY DEF IInv, TypeOK, RunnerFrame, Running, RunnerSteps, Threads, Goto, Reread, FailRead
<1>3. pc'[Loop] = pc[Loop]
  BY <1>2 DEF RunnerFrame, Threads
<1>4. record' = record /\ agent' = agent /\ score' = score /\ UNCHANGED <<service, crashes, faults, target>>
  BY DEF Reread, FailRead
<1>5. CASE Reread(r)
  <2>1. pc[r] = "reread" /\ pc'[r] \in {"done", "lock"}
    BY <1>5 DEF Reread, Goto, IInv, TypeOK, Threads
  <2>2. RunInv(r)'
    BY <1>1, <1>4, <2>1 DEF RunInv, RunnerOK, RecordOK, InStep, ScoringSteps, VerifierSteps
  <2>3. QED
    BY <1>2, <1>4, <2>2, RunnerFrameKeeps
<1>6. CASE FailRead(r)
  <2>1. pc[r] = "failRead" /\ pc'[r] = "failWrite" /\ mem'[r] = record[r]
    BY <1>6 DEF FailRead, Goto, IInv, TypeOK, Threads
  <2>2. RunInv(r)'
    BY <1>1, <1>3, <1>4, <2>1 DEF RunInv, RunnerOK, RecordOK, InStep, ScoringSteps, VerifierSteps
  <2>3. QED
    BY <1>2, <1>4, <2>2, RunnerFrameKeeps
<1>7. QED
  BY <1>5, <1>6

(* The thread that could not run its Run stores an environment error: the   *)
(* event loop may be scoring that Run meanwhile.                            *)
LEMMA FailWriteKeeps ==
    ASSUME IInv, TypeOK', NEW r \in Runs, FailWrite(r)
    PROVE  IInv'
<1> USE ThreadOfRun, LoopAssumption DEF durable, files, threads
<1>1. /\ pc[r] = "failWrite" /\ RunInv(r) /\ record[r] \in Records
      /\ mem[r] \in Records /\ mem[Loop] \in Records
  BY DEF IInv, TypeOK, FailWrite, Threads
<1>2. record'[r] = AsError(record[r]) /\ pc'[r] = "done" /\ pc'[Loop] = pc[Loop] /\ mem'[Loop] = mem[Loop]
  BY <1>1 DEF RunInv, RunnerOK, AsError, FailWrite, SaveRun, Goto, IInv, TypeOK, Threads
<1>3. record'[r].status = "environment_error" /\ record'[r].attempted = record[r].attempted
  BY <1>1, <1>2 DEF AsError, Records
<1>4. UNCHANGED <<service, crashes, faults, score, agent, target, tally, locked>>
  BY DEF FailWrite
<1>5. RunnerFrame(r)
  BY <1>4 DEF IInv, TypeOK, RunnerFrame, Running, RunnerSteps, Threads, Goto, SaveRun, FailWrite
<1>6. RunInv(r)'
  <2>1. faults = 0 =>
            /\ agent[r] # "alive"
            /\ score[r] # NoScore => score[r].execution \in CutShort
    BY <1>1 DEF RunInv, RunnerOK, InStep, L!StatusOf, CutShort, L!CutShort
  <2>2. RunnerOK(r)' /\ RecordOK(r)'
    BY <1>1, <1>2, <1>3, <1>4, <2>1 DEF RunInv, RunnerOK, RecordOK, Earned, Ended, ScoringSteps, VerifierSteps
  <2>3. faults' = 0 => InStep(r)'
    BY <1>3, <1>4, <2>1 DEF InStep
  <2>4. QED
    BY <2>2, <2>3 DEF RunInv
<1>7. ASSUME pc[Loop] \in ScoringSteps \ {"read"}, target = r PROVE ScorerOK(Loop)'
  <2>1. Loop \in Threads /\ RunOf(Loop) = r /\ RunOf(Loop)' = r
    BY <1>4, <1>7 DEF Threads, RunOf
  <2>2. ScorerOK(Loop) /\ mem[Loop] = record[r] /\ score[r] = NoScore
    BY <1>1, <1>7, <2>1 DEF IInv, ScorerOK, KnowsRecord
  <2>3. mem[Loop].status \in CutShort \/ faults > 0
    <3>1. CASE faults = 0
      <4>1. pc[Loop] \in {"interrupted", "record"}
        BY <1>1, <1>7, <3>1 DEF RunInv, RunnerOK
      <4>2. QED
        BY <1>1, <1>7, <2>2, <3>1, <4>1 DEF RunInv, RunnerOK
    <3>2. QED
      BY <3>1, FaultsAssumption DEF IInv, TypeOK
  <2>4. KnowsRecord(Loop)'
    BY <1>2, <1>4, <1>7, <2>1, <2>2, <2>3 DEF KnowsRecord, AsError
  <2>5. QED
    BY <1>2, <1>4, <2>1, <2>2, <2>4 DEF ScorerOK
<1>8. ASSUME NEW t \in Threads PROVE ScorerOK(t)'
  BY <1>5, <1>7, RunnerFrameRest DEF RunOf, Threads
<1>9. QED
  BY <1>5, <1>6, <1>8, RunnerFrameRest DEF IInv

(* The calls of the store that raise in the runner.                         *)
LEMMA RunnerStoreFailsKeeps ==
    ASSUME IInv, TypeOK', NEW r \in Runs, RunnerStoreFails(r)
    PROVE  IInv'
<1> USE ThreadOfRun, LoopAssumption DEF durable, files, threads
<1>1. RunInv(r) /\ record[r] \in Records /\ mem[r] \in Records /\ faults' > 0
  BY FaultsAssumption DEF IInv, TypeOK, RunnerStoreFails
<1>2. RunnerFrame(r)
  BY DEF IInv, TypeOK, RunnerFrame, Running, RunnerSteps, Threads, Goto, SaveRun, RunnerStoreFails
<1>3. agent' = agent /\ score' = score /\ pc[r] # "idle" /\ pc'[r] \in {"failRead", "done"}
  BY DEF RunnerStoreFails, Goto, IInv, TypeOK, Threads
<1>4. RunnerOK(r)'
  BY <1>1, <1>3 DEF RunnerOK, ScoringSteps, VerifierSteps
<1>5. CASE record'[r] = record[r]
  <2>1. RecordOK(r)'
    BY <1>1, <1>3, <1>5 DEF RunInv, RecordOK
  <2>2. QED
    BY <1>1, <1>2, <1>3, <1>4, <1>5, <2>1, RunnerFrameKeeps DEF RunInv
<1>6. CASE record'[r] # record[r]
  <2>1. pc[r] = "attempt" /\ record'[r] = mem'[r] /\ mem'[r] = [mem[r] EXCEPT !.attempted = TRUE]
    BY <1>6 DEF RunnerStoreFails, SaveRun, IInv, TypeOK, Threads
  <2>2. mem[r] = record[r] /\ record[r].status = "running"
    BY <1>1, <2>1 DEF RunInv, RunnerOK
  <2>3. record'[r].status = "running" /\ record'[r].attempted
    BY <1>1, <2>1, <2>2 DEF Records
  <2>4. RecordOK(r)'
    BY <1>1, <1>3, <2>1, <2>3, RunningSteps DEF RunInv, RecordOK, Earned, NoScore, L!NoScore
  <2>5. QED
    BY <1>1, <1>2, <1>4, <2>1, <2>4, RunningSteps, RunnerFrameKeeps DEF RunInv
<1>7. QED
  BY <1>5, <1>6

(* The runner keeps the inductive invariant.                                *)
LEMMA RunnerKeeps ==
    ASSUME IInv, TypeOK', NEW r \in Runs, RunnerStep(r) \/ DrainOutput(r) \/ RunnerStoreFails(r)
    PROVE  IInv'
BY LaunchKeeps, AttemptKeeps, RereadKeeps, FailWriteKeeps, RunnerStoreFailsKeeps DEF RunnerStep

-----------------------------------------------------------------------------
(* The scorer. *)

(* A step of thread t in the scorer of its Run: it has the lock or takes it,*)
(* and stays, or leaves and gives the lock back.                            *)
ScorerFrame(t) ==
    LET r == RunOf(t) IN
    /\ r \in Runs /\ pc[t] # "idle" /\ service = "serving"
    /\ pc[t] \in ScoringSteps \/ (pc[t] = "lock" /\ ~locked[r])
    /\ \A u \in Threads \ {t} : pc'[u] = pc[u] /\ mem'[u] = mem[u] /\ tally'[u] = tally[u]
    /\ \A q \in Runs \ {r} : record'[q] = record[q] /\ score'[q] = score[q] /\ locked'[q] = locked[q]
    /\ agent' = agent /\ Running
    /\ \/ pc'[t] \in ScoringSteps /\ locked'[r] /\ target' = target
       \/ t = Loop /\ pc'[t] = "idle" /\ target' = Loop
       \/ t # Loop /\ pc'[t] \in {"done", "failRead"} /\ target' = target

(* All that is left to show of it is the part of its thread and its Run.    *)
LEMMA ScorerFrameKeeps ==
    ASSUME IInv, TypeOK', NEW t \in Threads, ScorerFrame(t), NEW r \in Runs, r = RunOf(t), RunInv(r)',
           ScorerOK(t)'
    PROVE  IInv'
<1> USE ThreadOfRun, LoopAssumption
<1>1. (t = Loop /\ r = target) \/ (t = r /\ t # Loop)
  BY DEF RunOf
<1>2. \A u \in Threads \ {t} : pc[u] \in ScoringSteps => RunOf(u) # r
  BY <1>1 DEF IInv, LockOK, ScorerFrame
<1>3. \A u \in Threads \ {t} : RunOf(u)' = RunOf(u)
  BY DEF ScorerFrame, RunOf
<1>4. pc'[t] \in ScoringSteps => RunOf(t)' = r
  BY DEF ScorerFrame, RunOf, ScoringSteps, VerifierSteps
<1>5. PlacesOK'
  <2>1. pc[Loop] = "building" => target # r /\ t # Loop /\ target \in Runs
    BY <1>1, FreshRun DEF ScorerFrame, ScoringSteps, VerifierSteps
  <2>2. service' = "serving"
    BY DEF ScorerFrame, Running
  <2>3. pc'[Loop] \notin RunnerSteps \cup {"done"} /\ (target' = Loop <=> pc'[Loop] = "idle")
    BY <1>1 DEF IInv, PlacesOK, ScorerFrame, Threads, RunnerSteps, ScoringSteps, VerifierSteps
  <2>4. \A q \in Runs : pc'[q] \notin LoopSteps
    BY <1>1 DEF IInv, PlacesOK, ScorerFrame, Threads, LoopSteps, ScoringSteps, VerifierSteps
  <2>5. pc'[Loop] = "building" => record'[target'] = NoRecord
    BY <1>1, <2>1 DEF IInv, PlacesOK, ScorerFrame, Threads, ScoringSteps, VerifierSteps
  <2>6. QED
    BY <2>2, <2>3, <2>4, <2>5 DEF PlacesOK
<1>6. LockOK'
  <2>1. ASSUME NEW u \in Threads, pc'[u] \in ScoringSteps
        PROVE  locked'[RunOf(u)'] /\ \A v \in Threads \ {u} : pc'[v] \in ScoringSteps => RunOf(v)' # RunOf(u)'
    <3>1. CASE u = t
      BY <1>2, <1>3, <1>4, <2>1, <3>1 DEF ScorerFrame, ScoringSteps, VerifierSteps
    <3>2. CASE u # t
      <4>1. pc[u] \in ScoringSteps /\ RunOf(u) # r /\ RunOf(u) \in Runs
        BY <1>2, <2>1, <3>2, RunOfThread DEF IInv, ScorerFrame, ScoringSteps, VerifierSteps
      <4>2. locked'[RunOf(u)']
        BY <1>3, <3>2, <4>1 DEF IInv, LockOK, ScorerFrame
      <4>3. QED
        BY <1>3, <1>4, <3>2, <4>1, <4>2 DEF IInv, LockOK, ScorerFrame
    <3>3. QED
      BY <3>1, <3>2
  <2>2. QED
    BY <2>1 DEF LockOK
<1>7. ASSUME NEW u \in Threads PROVE ScorerOK(u)'
  <2>1. CASE u = t
    BY <2>1
  <2>2. CASE u # t
    <3>1. pc[u] \in ScoringSteps => RunOf(u) \in Runs /\ RunOf(u) # r
      BY <1>2, <2>2, RunOfThread DEF IInv, ScoringSteps, VerifierSteps
    <3>2. ASSUME u = Loop, pc[u] \in ScoringSteps, pc[target] = "done"
          PROVE  target' = target /\ pc'[target] = "done"
      BY <1>1, <2>2, <3>1, <3>2 DEF ScorerFrame, RunOf
    <3>3. QED
      BY <1>3, <2>2, <3>1, <3>2, ThreadKept DEF ScorerFrame, Running
  <2>3. QED
    BY <2>1, <2>2
<1>8. ASSUME NEW q \in Runs PROVE RunInv(q)'
  <2>1. CASE q = r
    BY <2>1
  <2>2. CASE q # r
    <3>1. Undisturbed(q) /\ Running
      BY <1>1, <2>2 DEF Undisturbed, ScorerFrame, Threads
    <3>2. pc'[Loop] \in ScoringSteps \ {"read"} /\ target' = q => pc[Loop] = pc'[Loop] /\ target = q
      BY <1>1, <2>2 DEF ScorerFrame, Threads, ScoringSteps, VerifierSteps
    <3>3. QED
      BY <3>1, <3>2, RunKept
  <2>3. QED
    BY <2>1, <2>2
<1>9. QED
  BY <1>5, <1>6, <1>7, <1>8 DEF IInv

(* What a thread past the reading of the record knows of its Run.           *)
LEMMA ScorerKnows ==
    ASSUME IInv, NEW t \in Threads, RunOf(t) \in Runs, pc[t] \in ScoringSteps \ {"read"}
    PROVE  /\ ScorerOK(t) /\ KnowsRecord(t) /\ RunInv(RunOf(t))
           /\ mem[t] \in Records /\ record[RunOf(t)] \in Records /\ AsError(mem[t]) = AsError(record[RunOf(t)])
           /\ agent[RunOf(t)] # "alive" /\ record[RunOf(t)].status \in Ended
           /\ t # Loop => mem[t] = record[t]
<1> DEFINE r == RunOf(t)
<1>1. /\ ScorerOK(t) /\ KnowsRecord(t) /\ RunInv(r) /\ mem[t] \in Records /\ record[r] \in Records
      /\ (t = Loop => r = target) /\ (t # Loop => r = t)
  BY DEF IInv, TypeOK, ScorerOK, RunOf
<1>2. AsError(mem[t]) = AsError(record[r])
  BY <1>1 DEF KnowsRecord, AsError, Records
<1>3. mem[t].status \in Ended /\ Earned(mem[t], agent[r])
  BY <1>1 DEF ScorerOK, ScoringSteps, VerifierSteps, Ended
<1>4. AsError(mem[t]).status = "environment_error"
  BY <1>1 DEF AsError, Records
<1>5. record[r].status \in Ended
  BY <1>1, <1>3, <1>4 DEF KnowsRecord, Ended
<1>6. mem[t].status = "environment_error" => agent[r] = "ok"
  BY <1>1 DEF ScorerOK, ScoringSteps, VerifierSteps, CutShort, L!CutShort
<1>7. agent[r] # "alive"
  BY <1>3, <1>6 DEF Earned, Ended, CutShort, L!CutShort, AgentExits
<1>8. QED
  BY <1>1, <1>2, <1>5, <1>7 DEF KnowsRecord

(* Its Run keeps its part of the invariant when the step only moves on ...  *)
LEMMA MoveKeepsRun ==
    ASSUME IInv, TypeOK', NEW t \in Threads, ScorerFrame(t), NEW r \in Runs, r = RunOf(t),
           record'[r] = record[r], score'[r] = score[r],
           t = r /\ pc'[r] = "failRead" /\ faults' = 0 =>
               record[r].status # "completed" /\ score[r] = NoScore,
           t = Loop /\ faults = 0 /\ pc[r] \in {"failRead", "failWrite"} /\ pc'[Loop] \in ScoringSteps =>
               \/ pc'[Loop] = "read"
               \/ pc'[Loop] = "interrupted" /\ record[r].status \in CutShort
    PROVE  RunInv(r)'
<1> USE ThreadOfRun, LoopAssumption
<1>1. /\ RunInv(r) /\ agent' = agent /\ service' = service /\ crashes' = crashes
      /\ faults' = 0 => faults = 0
  BY FaultsAssumption DEF IInv, TypeOK, ScorerFrame, Running
<1>2. CASE t = Loop
  <2>1. pc'[r] = pc[r] /\ mem'[r] = mem[r]
    BY <1>2 DEF ScorerFrame, Threads
  <2>2. \/ pc'[Loop] \in ScoringSteps /\ target' = target
        \/ pc'[Loop] = "idle"
    BY <1>2 DEF ScorerFrame
  <2>3. RecordOK(r)' /\ (faults' = 0 => InStep(r)')
    BY <1>1, <2>1 DEF RunInv, RecordOK, InStep
  <2>4. RunnerOK(r)'
    BY <1>1, <1>2, <2>1, <2>2 DEF RunInv, RunnerOK, ScoringSteps, VerifierSteps
  <2>5. QED
    BY <2>3, <2>4 DEF RunInv
<1>3. CASE t # Loop
  <2>1. t = r /\ pc[r] \in {"lock"} \cup ScoringSteps /\ pc'[r] \in ScoringSteps \cup {"done", "failRead"}
    BY <1>3 DEF ScorerFrame, RunOf
  <2>2. record[r].status \in Ended /\ agent[r] # "alive"
    BY <1>1, <2>1 DEF RunInv, RunnerOK
  <2>3. pc'[Loop] = pc[Loop] /\ target' = target
    BY <1>3 DEF ScorerFrame, Threads
  <2>4. target = r => pc[Loop] \notin ScoringSteps
    <3>1. Loop \in Threads /\ (target = r => RunOf(Loop) = r)
      BY DEF Threads, RunOf
    <3>2. QED
      BY <1>3, <3>1 DEF IInv, LockOK, ScorerFrame
  <2>5. RecordOK(r)' /\ (faults' = 0 => InStep(r)')
    BY <1>1, <2>2 DEF RunInv, RecordOK, InStep, Ended, CutShort, L!CutShort
  <2>6. RunnerOK(r)'
    BY <1>1, <2>1, <2>2, <2>3, <2>4 DEF RunInv, RunnerOK, Ended, CutShort, L!CutShort, ScoringSteps, VerifierSteps
  <2>7. QED
    BY <2>5, <2>6 DEF RunInv
<1>4. QED
  BY <1>2, <1>3

(* ... and when the step stores what the thread has made of the record.     *)
LEMMA SaveKeepsRun ==
    ASSUME IInv, TypeOK', NEW t \in Threads, ScorerFrame(t), NEW r \in Runs, r = RunOf(t),
           pc[t] \in ScoringSteps \ {"read"}, pc'[t] \in ScoringSteps, score'[r] = score[r], faults' = faults,
           AsError(record'[r]) = AsError(mem[t]), Earned(record'[r], agent[r]), record'[r].status \in Ended,
           t = Loop /\ faults = 0 /\ pc[r] \in {"failRead", "failWrite"} =>
               pc'[Loop] = "record" /\ record'[r].status \in CutShort
    PROVE  RunInv(r)'
<1> USE ThreadOfRun, LoopAssumption
<1>1. /\ RunInv(r) /\ agent' = agent /\ service' = service /\ crashes' = crashes
      /\ agent[r] # "alive" /\ score[r] = NoScore /\ record[r].status \in Ended
      /\ AsError(mem[t]) = AsError(record[r]) /\ (t # Loop => mem[t] = record[r])
  BY ScorerKnows DEF ScorerFrame, Running, KnowsRecord, RunOf
<1>2. RecordOK(r)'
  BY <1>1 DEF RunInv, RecordOK, Ended, CutShort, L!CutShort, NoScore, L!NoScore
<1>3. InStep(r)'
  BY <1>1 DEF InStep, Ended, CutShort, L!CutShort
<1>4. CASE t = Loop
  <2>1. pc'[r] = pc[r] /\ mem'[r] = mem[r] /\ target' = r
    BY <1>4 DEF ScorerFrame, Threads, RunOf, ScoringSteps, VerifierSteps
  <2>2. pc[r] \notin ScoringSteps
    BY <1>1, <1>4 DEF IInv, LockOK, ScorerFrame, RunOf, Threads
  <2>3. pc[r] \notin {"start", "preflight", "launch", "spawn", "attempt", "wait", "drain", "finish"}
    BY <1>1, RunningSteps
  <2>4. RunnerOK(r)'
    BY <1>1, <1>4, <2>1, <2>2, <2>3 DEF RunInv, RunnerOK, Ended, ScoringSteps, VerifierSteps
  <2>5. QED
    BY <1>2, <1>3, <2>4 DEF RunInv
<1>5. CASE t # Loop
  <2>1. t = r /\ pc'[r] \in ScoringSteps
    BY <1>5 DEF RunOf
  <2>2. RunnerOK(r)'
    BY <1>1, <2>1 DEF RunnerOK, ScoringSteps, VerifierSteps
  <2>3. QED
    BY <1>2, <1>3, <2>2 DEF RunInv
<1>6. QED
  BY <1>4, <1>5

(* What leaving the scorer does, with a Score or an exception.              *)
LEMMA LeaveMoves ==
    ASSUME IInv, NEW t \in Threads, NEW r \in Runs, r = RunOf(t), pc[t] \in ScoringSteps,
           LeaveScoring(t) \/ ScoringRaises(t), Running,
           UNCHANGED agent, \A q \in Runs \ {r} : record'[q] = record[q] /\ score'[q] = score[q]
    PROVE  /\ ScorerFrame(t) /\ ScorerOK(t)'
           /\ pc'[t] \notin ScoringSteps
           /\ t # Loop /\ LeaveScoring(t) => pc'[t] = "done"
<1> USE ThreadOfRun, LoopAssumption
<1>1. service = "serving"
  BY DEF IInv, PlacesOK, ScoringSteps, VerifierSteps
<1>2. \A u \in Threads \ {t} : pc'[u] = pc[u] /\ mem'[u] = mem[u] /\ tally'[u] = tally[u]
  BY DEF IInv, TypeOK, LeaveScoring, ScoringRaises, Answer, Goto
<1>3. \A q \in Runs \ {r} : locked'[q] = locked[q]
  BY DEF IInv, TypeOK, LeaveScoring, ScoringRaises, RunOf
<1>4. \/ t = Loop /\ pc'[t] = "idle" /\ target' = Loop
      \/ t # Loop /\ pc'[t] \in {"done", "failRead"} /\ target' = target
  BY DEF IInv, TypeOK, LeaveScoring, ScoringRaises, Answer, Goto, Threads
<1>5. t # Loop /\ LeaveScoring(t) => pc'[t] = "done"
  BY DEF IInv, TypeOK, LeaveScoring, Goto, Threads
<1>6. ScorerFrame(t)
  BY <1>1, <1>2, <1>3, <1>4 DEF ScorerFrame, ScoringSteps, VerifierSteps
<1>7. pc'[t] \notin ScoringSteps /\ ScorerOK(t)'
  BY <1>4 DEF ScorerOK, ScoringSteps, VerifierSteps
<1>8. QED
  BY <1>5, <1>6, <1>7

(* An exception of the scorer, of a store that raises or of its own.        *)
LEMMA RaisesKeeps ==
    ASSUME IInv, TypeOK', NEW t \in Threads, RunOf(t) \in Runs, pc[t] \in ScoringSteps, ScoringRaises(t),
           Running, UNCHANGED <<record, score, agent>>,
           t # Loop /\ faults' = 0 => record[t].status # "completed" /\ score[t] = NoScore
    PROVE  IInv'
<1> SUFFICES ASSUME NEW r \in Runs, r = RunOf(t) PROVE IInv'
  OBVIOUS
<1>1. ScorerFrame(t) /\ ScorerOK(t)' /\ pc'[t] \notin ScoringSteps
  BY LeaveMoves
<1>2. t = r => t # Loop
  BY ThreadOfRun
<1>3. RunInv(r)'
  BY <1>1, <1>2, MoveKeepsRun
<1>4. QED
  BY <1>1, <1>3, ScorerFrameKeeps

(* In particular a call of the store that raises in the scorer.             *)
LEMMA ScorerStoreFailsKeeps ==
    ASSUME IInv, TypeOK', NEW t \in Threads, ScorerStoreFails(t)
    PROVE  IInv'
<1>1. pc[t] \in ScoringSteps /\ RunOf(t) \in Runs
  BY RunOfThread DEF IInv, ScorerStoreFails, ScoringSteps, VerifierSteps
<1>2. Running /\ faults' # 0 /\ UNCHANGED <<record, score, agent>>
  BY FaultsAssumption DEF IInv, TypeOK, ScorerStoreFails, Running, durable
<1>3. QED
  BY <1>1, <1>2, RaisesKeeps DEF ScorerStoreFails

(* The steps of a thread that stays with its Run.                           *)
StayFrame(t) ==
    /\ pc[t] \in ScoringSteps \/ (pc[t] = "lock" /\ ~locked[RunOf(t)] /\ locked' = [locked EXCEPT ![RunOf(t)] = TRUE])
    /\ pc[t] \in ScoringSteps => UNCHANGED locked
    /\ \E step \in ScoringSteps : Goto(t, step)
    /\ \A u \in Threads \ {t} : mem'[u] = mem[u] /\ tally'[u] = tally[u]
    /\ \A q \in Runs \ {RunOf(t)} : record'[q] = record[q]
    /\ UNCHANGED <<service, crashes, faults, score, agent, target>>

(* Such a step is a step of the scorer.                                      *)
LEMMA StayMoves ==
    ASSUME IInv, NEW t \in Threads, StayFrame(t)
    PROVE  /\ ScorerFrame(t) /\ RunOf(t) \in Runs /\ RunOf(t)' = RunOf(t)
           /\ t = Loop /\ pc[t] \in VerifierSteps \cup {"mark"} =>
                 ~(faults = 0 /\ pc[RunOf(t)] \in {"failRead", "failWrite"})
<1>1. pc[t] # "idle" /\ RunOf(t) \in Runs
  BY RunOfThread DEF IInv, StayFrame, ScoringSteps, VerifierSteps
<1>2. service = "serving"
  BY <1>1 DEF IInv, PlacesOK
<1>3. \A u \in Threads \ {t} : pc'[u] = pc[u]
  BY DEF IInv, TypeOK, StayFrame, Goto
<1>4. pc'[t] \in ScoringSteps
  BY DEF IInv, TypeOK, StayFrame, Goto
<1>5. locked'[RunOf(t)] /\ \A q \in Runs \ {RunOf(t)} : locked'[q] = locked[q]
  BY <1>1 DEF IInv, TypeOK, LockOK, StayFrame, ScoringSteps
<1>6. ScorerFrame(t)
  BY <1>1, <1>2, <1>3, <1>4, <1>5 DEF StayFrame, ScorerFrame, Running
<1>7. t = Loop => RunOf(t) = target
  BY DEF RunOf
<1>8. t = Loop /\ pc[t] \in VerifierSteps \cup {"mark"} =>
          ~(faults = 0 /\ pc[RunOf(t)] \in {"failRead", "failWrite"})
  BY <1>1, <1>7 DEF IInv, RunInv, RunnerOK, ScoringSteps, VerifierSteps
<1>9. QED
  BY <1>1, <1>6, <1>8 DEF StayFrame, RunOf

(* Taking the lock.                                                         *)
LEMMA AcquireKeeps ==
    ASSUME IInv, TypeOK', NEW t \in Threads, AcquireLock(t)
    PROVE  IInv'
<1> USE DEF durable, files
<1>1. StayFrame(t)
  BY DEF AcquireLock, StayFrame, ScoringSteps, VerifierSteps
<1>2. pc'[t] = "read" /\ ScorerOK(t)'
  BY DEF IInv, TypeOK, AcquireLock, Goto, ScorerOK, ScoringSteps, VerifierSteps
<1>3. RunInv(RunOf(t)) /\ UNCHANGED <<record, score>>
  BY <1>1, StayMoves DEF IInv, AcquireLock
<1>4. ASSUME NEW r \in Runs, r = RunOf(t) PROVE RunInv(r)'
  BY <1>1, <1>2, <1>3, <1>4, StayMoves, MoveKeepsRun, ThreadOfRun
<1>5. QED
  BY <1>1, <1>2, <1>4, StayMoves, ScorerFrameKeeps

(* Reading the record and the score head.                                   *)
LEMMA ScoreReadKeeps ==
    ASSUME IInv, TypeOK', NEW t \in Threads, ScoreRead(t)
    PROVE  IInv'
<1> USE ThreadOfRun, LoopAssumption DEF durable, files
<1>0. RunOf(t) \in Runs /\ pc[t] = "read" /\ pc[t] \in ScoringSteps
  BY RunOfThread DEF IInv, ScoreRead, ScoringSteps, VerifierSteps
<1> SUFFICES ASSUME NEW r \in Runs, r = RunOf(t) PROVE IInv'
  BY <1>0
<1>1. pc[t] = "read" /\ pc[t] \in ScoringSteps
  BY <1>0
<1>2. Running /\ UNCHANGED <<record, score, agent, faults>>
  BY DEF ScoreRead, Running
<1>3. RunInv(r) /\ record[r] \in Records /\ (t # Loop => r = t)
  BY <1>1 DEF IInv, TypeOK, RunOf
<1>4. CASE score[r] # NoScore /\ LeaveScoring(t)
  <2>1. ScorerFrame(t) /\ ScorerOK(t)' /\ pc'[t] \notin ScoringSteps /\ (t # Loop => pc'[t] = "done")
    BY <1>1, <1>2, <1>4, LeaveMoves
  <2>2. RunInv(r)'
    BY <1>1, <1>2, <2>1, MoveKeepsRun
  <2>3. QED
    BY <1>1, <2>1, <2>2, ScorerFrameKeeps
<1>5. CASE score[r] = NoScore /\ ~Scoreable(record[r]) /\ ScoringRaises(t)
  <2>1. record[r].status # "completed"
    BY <1>3, <1>5 DEF Scoreable, RunInv, RecordOK, Earned
  <2>2. QED
    BY <1>1, <1>2, <1>3, <1>5, <2>1, RaisesKeeps
<1>6. CASE /\ score[r] = NoScore /\ Scoreable(record[r])
           /\ mem' = [mem EXCEPT ![t] = record[r]]
           /\ Goto(t, IF record[r].status = "completed" THEN "mark" ELSE "interrupted")
           /\ UNCHANGED <<target, tally, locked>>
  <2>1. StayFrame(t)
    BY <1>1, <1>2, <1>6 DEF IInv, TypeOK, StayFrame, ScoringSteps, ScoreRead
  <2>2. mem'[t] = record[r] /\ pc'[t] = IF record[r].status = "completed" THEN "mark" ELSE "interrupted"
    BY <1>6 DEF IInv, TypeOK, Goto
  <2>3. RunOf(t)' = r
    BY <2>1, StayMoves
  <2>4. record[r].attempted /\ record[r].status \in {"completed"} \cup CutShort
    BY <1>6 DEF Scoreable, CutShort, L!CutShort
  <2>5. ScorerOK(t)'
    BY <1>2, <1>3, <1>6, <2>2, <2>3, <2>4 DEF ScorerOK, KnowsRecord, RunInv, RecordOK, ScoringSteps, VerifierSteps
  <2>6. faults = 0 /\ pc[r] \in {"failRead", "failWrite"} => record[r].status # "completed"
    BY <1>3 DEF RunInv, RunnerOK, CutShort, L!CutShort
  <2>7. pc'[t] # "failRead" /\ (t = Loop /\ faults = 0 /\ pc[r] \in {"failRead", "failWrite"} =>
            pc'[Loop] = "interrupted" /\ record[r].status \in CutShort)
    BY <2>2, <2>4, <2>6
  <2>8. RunInv(r)'
    BY <1>1, <1>2, <2>1, <2>7, StayMoves, MoveKeepsRun
  <2>9. QED
    BY <1>1, <2>1, <2>5, <2>8, StayMoves, ScorerFrameKeeps
<1>7. QED
  BY <1>4, <1>5, <1>6 DEF ScoreRead

(* A step that stays and stores nothing, between two steps past the reading.*)
LEMMA VerifierStayKeeps ==
    ASSUME IInv, TypeOK', NEW t \in Threads, StayFrame(t), pc[t] \in VerifierSteps, pc'[t] \in VerifierSteps,
           mem'[t] = mem[t], UNCHANGED record
    PROVE  IInv'
<1> USE LoopAssumption
<1> SUFFICES ASSUME NEW r \in Runs, r = RunOf(t) PROVE IInv'
  BY StayMoves
<1>1. ScorerFrame(t) /\ RunOf(t)' = r /\ UNCHANGED <<score, agent, faults>>
  BY StayMoves DEF StayFrame
<1>2. /\ ScorerOK(t) /\ KnowsRecord(t) /\ (t # Loop => r = t) /\ (t = Loop => r = target /\ target' = target)
  BY ScorerKnows DEF ScoringSteps, VerifierSteps, RunOf, StayFrame
<1>3. t = Loop /\ pc[r] = "done" => pc'[r] = "done"
  BY <1>1, ThreadOfRun DEF ScorerFrame
<1>4. KnowsRecord(t)'
  BY <1>1, <1>2, <1>3 DEF KnowsRecord, AsError
<1>5. ScorerOK(t)'
  BY <1>1, <1>2, <1>4 DEF ScorerOK, ScoringSteps, VerifierSteps
<1>6. RunInv(r)'
  BY <1>1, StayMoves, MoveKeepsRun DEF VerifierSteps
<1>7. QED
  BY <1>1, <1>5, <1>6, ScorerFrameKeeps

(* An exception past the reading, while the Run is no longer completed.     *)
LEMMA LateRaiseKeeps ==
    ASSUME IInv, TypeOK', NEW t \in Threads, pc[t] \in VerifierSteps \cup {"interrupted"}, ScoringRaises(t),
           Running, UNCHANGED <<record, score, agent>>
    PROVE  IInv'
<1>1. RunOf(t) \in Runs /\ pc[t] \in ScoringSteps \ {"read"}
  BY RunOfThread DEF IInv, ScoringSteps, VerifierSteps
<1>2. ScorerOK(t) /\ KnowsRecord(t) /\ (t # Loop => mem[t] = record[t] /\ RunOf(t) = t)
  BY <1>1, ScorerKnows DEF RunOf
<1>3. t # Loop => record[t].status # "completed" /\ score[t] = NoScore
  BY <1>2 DEF ScorerOK, KnowsRecord, CutShort, L!CutShort
<1>4. QED
  BY <1>1, <1>3, RaisesKeeps DEF ScoringSteps

(* A step that stores the status the thread has given the record.           *)
LEMMA SaveKeeps ==
    ASSUME IInv, TypeOK', NEW t \in Threads, StayFrame(t), NEW run \in Records,
           pc[t] \in ScoringSteps \ {"read", "record"}, pc'[t] \in ScoringSteps,
           SaveRun(RunOf(t), run), mem'[t] = run, tally'[t] = tally[t],
           AsError(run) = AsError(mem[t]), run.attempted, Earned(run, agent[RunOf(t)]), run.status \in Ended,
           pc[t] = "interrupted" => pc'[t] = "record" /\ run = mem[t],
           pc'[t] = "mark" => run.status = "completed",
           pc'[t] = "interrupted" => run.status \in CutShort,
           pc'[t] \in VerifierSteps => run.status = "validating",
           pc'[t] = "record" =>
              \/ run.status \in CutShort
              \/ run.status = "environment_error" /\ tally[t].broken /\ agent[RunOf(t)] = "ok"
              \/ run.status = "completed" /\ ~tally[t].broken
    PROVE  IInv'
<1> SUFFICES ASSUME NEW r \in Runs, r = RunOf(t) PROVE IInv'
  BY StayMoves
<1>1. ScorerFrame(t) /\ RunOf(t)' = r /\ UNCHANGED <<score, agent, faults>> /\ record'[r] = run
  BY StayMoves DEF StayFrame, SaveRun, IInv, TypeOK
<1>2. ScorerOK(t) /\ KnowsRecord(t)
  BY ScorerKnows
<1>3. KnowsRecord(t)'
  BY <1>1, <1>2 DEF KnowsRecord
<1>4. ScorerOK(t)'
  BY <1>1, <1>3 DEF ScorerOK
<1>5. t = Loop /\ faults = 0 /\ pc[r] \in {"failRead", "failWrite"} => pc[t] = "interrupted"
  BY StayMoves DEF ScoringSteps
<1>6. pc[t] = "interrupted" => run.status \in CutShort
  BY <1>2 DEF ScorerOK
<1>7. RunInv(r)'
  BY <1>1, <1>5, <1>6, SaveKeepsRun
<1>8. QED
  BY <1>1, <1>4, <1>7, ScorerFrameKeeps

(* Saving the Run of an attempt that was cut short.                         *)
LEMMA SaveInterruptedKeeps ==
    ASSUME IInv, TypeOK', NEW t \in Threads, SaveInterrupted(t)
    PROVE  IInv'
<1>1. pc[t] = "interrupted" /\ RunOf(t) \in Runs /\ pc[t] \in ScoringSteps \ {"read", "record"}
  BY RunOfThread DEF IInv, SaveInterrupted, ScoringSteps
<1>2. CASE ScoringRaises(t) /\ UNCHANGED record
  BY <1>1, <1>2, LateRaiseKeeps DEF SaveInterrupted, Running
<1>3. CASE SaveRun(RunOf(t), mem[t]) /\ Goto(t, "record") /\ UNCHANGED <<target, mem, tally, locked>>
  <2>1. StayFrame(t)
    BY <1>1, <1>3 DEF IInv, TypeOK, StayFrame, ScoringSteps, SaveInterrupted, SaveRun
  <2>2. ScorerOK(t) /\ mem[t] \in Records /\ mem[t].status \in CutShort
    BY <1>1 DEF IInv, TypeOK, ScorerOK
  <2>3. mem[t].attempted /\ Earned(mem[t], agent[RunOf(t)])
    BY <1>1, <2>2 DEF ScorerOK
  <2>4. pc'[t] = "record" /\ mem'[t] = mem[t] /\ tally'[t] = tally[t]
    BY <1>3 DEF IInv, TypeOK, Goto
  <2>5. pc'[t] \in ScoringSteps /\ pc'[t] \notin VerifierSteps
    BY <2>4 DEF ScoringSteps, VerifierSteps
  <2>6. QED
    BY <1>1, <1>3, <2>1, <2>2, <2>3, <2>4, <2>5, SaveKeeps DEF Ended
<1>4. QED
  BY <1>2, <1>3 DEF SaveInterrupted

(* Marking the Run as validating.                                           *)
LEMMA SaveValidatingKeeps ==
    ASSUME IInv, TypeOK', NEW t \in Threads, SaveValidating(t)
    PROVE  IInv'
<1> DEFINE run == [mem[t] EXCEPT !.status = "validating"]
<1>1. pc[t] = "mark" /\ RunOf(t) \in Runs /\ pc[t] \in ScoringSteps \ {"read", "record"} /\ pc[t] # "interrupted"
  BY RunOfThread DEF IInv, SaveValidating, ScoringSteps
<1>2. mem' = [mem EXCEPT ![t] = run] /\ SaveRun(RunOf(t), run)
  BY DEF SaveValidating, SaveStatus
<1>3. StayFrame(t)
  BY <1>1, <1>2 DEF IInv, TypeOK, StayFrame, ScoringSteps, VerifierSteps, SaveValidating, SaveRun
<1>4. mem[t] \in Records /\ mem[t].status = "completed" /\ mem[t].attempted /\ Earned(mem[t], agent[RunOf(t)])
  BY <1>1 DEF IInv, TypeOK, ScorerOK
<1>5. /\ run \in Records /\ run.status = "validating" /\ run.attempted
      /\ AsError(run) = AsError(mem[t])
  BY <1>4 DEF Records, AsError, Statuses, L!Statuses
<1>6. Earned(run, agent[RunOf(t)]) /\ run.status \in Ended
  BY <1>4, <1>5 DEF Earned, Ended
<1>7. pc'[t] = "before" /\ mem'[t] = run /\ tally'[t] = tally[t] /\ pc'[t] \in ScoringSteps
  BY <1>2 DEF IInv, TypeOK, Goto, SaveValidating, ScoringSteps, VerifierSteps
<1> HIDE DEF run
<1>8. QED
  BY <1>1, <1>2, <1>3, <1>5, <1>6, <1>7, SaveKeeps

(* Saving what became of the validation.                                    *)
LEMMA SaveVerdictKeeps ==
    ASSUME IInv, TypeOK', NEW t \in Threads, SaveVerdict(t)
    PROVE  IInv'
<1> DEFINE s == IF tally[t].broken THEN "environment_error" ELSE "completed"
           run == [mem[t] EXCEPT !.status = s]
<1>1. pc[t] = "final" /\ RunOf(t) \in Runs /\ pc[t] \in ScoringSteps \ {"read", "record"} /\ pc[t] # "interrupted"
  BY RunOfThread DEF IInv, SaveVerdict, ScoringSteps, VerifierSteps
<1>2. CASE ScoringRaises(t) /\ UNCHANGED record
  BY <1>1, <1>2, LateRaiseKeeps DEF SaveVerdict, Running, VerifierSteps
<1>3. CASE SaveStatus(t, s) /\ Goto(t, "record") /\ UNCHANGED <<target, tally, locked>>
  <2>1. mem' = [mem EXCEPT ![t] = run] /\ SaveRun(RunOf(t), run)
    BY <1>3 DEF SaveStatus
  <2>2. StayFrame(t)
    BY <1>1, <1>3, <2>1 DEF IInv, TypeOK, StayFrame, ScoringSteps, SaveVerdict, SaveRun
  <2>3. mem[t] \in Records /\ mem[t].status = "validating" /\ mem[t].attempted /\ Earned(mem[t], agent[RunOf(t)])
    BY <1>1 DEF IInv, TypeOK, ScorerOK, ScoringSteps, VerifierSteps
  <2>4. /\ run \in Records /\ run.status = s /\ run.attempted
        /\ AsError(run) = AsError(mem[t])
    BY <2>3 DEF Records, AsError, Statuses, L!Statuses
  <2>5. Earned(run, agent[RunOf(t)]) /\ run.status \in Ended /\ agent[RunOf(t)] = "ok"
    BY <2>3, <2>4 DEF Earned, Ended
  <2>6. pc'[t] = "record" /\ mem'[t] = run /\ tally'[t] = tally[t] /\ pc'[t] \in ScoringSteps /\ pc'[t] \notin VerifierSteps
    BY <1>3, <2>1 DEF IInv, TypeOK, Goto, ScoringSteps, VerifierSteps
  <2> HIDE DEF run
  <2>7. QED
    BY <1>1, <2>1, <2>2, <2>4, <2>5, <2>6, SaveKeeps
<1>4. QED
  BY <1>2, <1>3 DEF SaveVerdict

(* The Score that is saved says what the thread knows.                      *)
LEMMA DocumentSays ==
    ASSUME IInv, NEW t \in Threads, RunOf(t) \in Runs, pc[t] = "record"
    PROVE  /\ score[RunOf(t)] = NoScore
           /\ L!StatusOf(Document(t)) = mem[t].status
           /\ mem[t].status \in {"completed", "environment_error"} \cup CutShort
           /\ Document(t).task # "not_scored" =>
                 mem[t].status = "completed" /\ Document(t).execution = "completed" /\ agent[RunOf(t)] = "ok"
           /\ mem[t].status \in CutShort => Document(t).execution = mem[t].status
           /\ mem[t].attempted
<1>1. ScorerOK(t) /\ KnowsRecord(t)
  BY ScorerKnows DEF ScoringSteps
<1>2. /\ mem[t].attempted /\ Earned(mem[t], agent[RunOf(t)]) /\ score[RunOf(t)] = NoScore
      /\ \/ mem[t].status \in CutShort
         \/ mem[t].status = "environment_error" /\ tally[t].broken
         \/ mem[t].status = "completed" /\ ~tally[t].broken
  BY <1>1 DEF ScorerOK, KnowsRecord, ScoringSteps
<1>3. CASE mem[t].status \in CutShort
  <2>1. Document(t) = [execution |-> mem[t].status, task |-> "not_scored", seen |-> "none"]
    BY <1>3 DEF Document, CutShort, L!CutShort
  <2>2. QED
    BY <1>2, <1>3, <2>1 DEF L!StatusOf, CutShort, L!CutShort
<1>4. CASE mem[t].status = "environment_error" /\ tally[t].broken
  BY <1>2, <1>4 DEF Document, L!StatusOf, CutShort, L!CutShort
<1>5. CASE mem[t].status = "completed" /\ ~tally[t].broken
  BY <1>2, <1>5 DEF Document, L!StatusOf, CutShort, L!CutShort, Earned
<1>6. QED
  BY <1>2, <1>3, <1>4, <1>5

(* Saving the Score and leaving.                                            *)
LEMMA SaveScoreKeeps ==
    ASSUME IInv, TypeOK', NEW t \in Threads, SaveScore(t)
    PROVE  IInv'
<1> USE ThreadOfRun, LoopAssumption
<1>0. RunOf(t) \in Runs /\ pc[t] = "record" /\ pc[t] \in ScoringSteps \ {"read"}
  BY RunOfThread DEF IInv, SaveScore, ScoringSteps
<1> SUFFICES ASSUME NEW r \in Runs, r = RunOf(t) PROVE IInv'
  BY <1>0
<1>1. /\ score' = [score EXCEPT ![r] = Document(t)] /\ LeaveScoring(t)
      /\ UNCHANGED <<service, crashes, faults, record, agent>>
  BY <1>0, DocumentSays DEF SaveScore
<1>2. Running /\ score'[r] = Document(t) /\ \A q \in Runs \ {r} : score'[q] = score[q]
  BY <1>1 DEF IInv, TypeOK, Running
<1>3. ScorerFrame(t) /\ ScorerOK(t)' /\ pc'[t] \notin ScoringSteps /\ (t # Loop => pc'[t] = "done")
  BY <1>0, <1>1, <1>2, LeaveMoves
<1>4. /\ KnowsRecord(t) /\ RunInv(r) /\ agent[r] # "alive" /\ record[r].status \in Ended
      /\ (t # Loop => mem[t] = record[t] /\ t = r) /\ (t = Loop => r = target)
  BY <1>0, ScorerKnows DEF RunOf
<1>5. mem[t] \in Records /\ record[r] \in Records /\ AsError(mem[t]).attempted = mem[t].attempted
      /\ AsError(record[r]).attempted = record[r].attempted /\ AsError(mem[t]).status = "environment_error"
  BY DEF IInv, TypeOK, AsError, Records
<1>6. /\ record[r].status \in {"completed", "environment_error"} \cup CutShort
      /\ record[r].attempted
      /\ faults = 0 => \/ L!StatusOf(Document(t)) = record[r].status
                       \/ Document(t).execution \in CutShort /\ record[r].status = "environment_error"
  BY <1>0, <1>4, <1>5, DocumentSays DEF KnowsRecord
<1>7. RecordOK(r)'
  BY <1>0, <1>1, <1>2, <1>4, <1>6, DocumentSays DEF RunInv, RecordOK, CutShort, L!CutShort
<1>8. faults' = 0 => InStep(r)'
  BY <1>1, <1>2, <1>4, <1>6 DEF InStep, CutShort, L!CutShort
<1>9. RunnerOK(r)'
  <2>1. CASE t = Loop
    <3>1. pc'[r] = pc[r] /\ mem'[r] = mem[r] /\ pc'[Loop] \notin ScoringSteps
      BY <1>3, <2>1 DEF ScorerFrame
    <3>2. faults = 0 /\ pc[r] \in {"failRead", "failWrite"} => record[r].status \in CutShort
      BY <1>0, <1>4, <2>1 DEF RunInv, RunnerOK
    <3>3. QED
      BY <1>1, <1>4, <3>1, <3>2 DEF RunInv, RunnerOK, ScoringSteps, VerifierSteps
  <2>2. CASE t # Loop
    BY <1>1, <1>3, <1>4, <2>2 DEF RunnerOK, ScoringSteps, VerifierSteps
  <2>3. QED
    BY <2>1, <2>2
<1>10. QED
  BY <1>3, <1>7, <1>8, <1>9, ScorerFrameKeeps DEF RunInv

(* The scorer keeps the inductive invariant.                                *)
LEMMA ScoringKeeps ==
    ASSUME IInv, TypeOK', NEW t \in Threads, AcquireLock(t) \/ ScoringStep(t) \/ ScorerStoreFails(t)
    PROVE  IInv'
<1>1. CASE SnapshotBefore(t) \/ SnapshotAfter(t)
  <2>1. pc[t] \in VerifierSteps /\ UNCHANGED <<service, crashes, faults, record, score, agent, target, mem, locked>>
    BY <1>1 DEF SnapshotBefore, SnapshotAfter, VerifierSteps, durable
  <2>2. pc'[t] \in VerifierSteps /\ \E step \in ScoringSteps : Goto(t, step)
    BY <1>1 DEF IInv, TypeOK, SnapshotBefore, SnapshotAfter, Goto, ScoringSteps, VerifierSteps
  <2>3. StayFrame(t)
    BY <1>1, <2>1, <2>2 DEF IInv, TypeOK, StayFrame, SnapshotBefore, SnapshotAfter, ScoringSteps
  <2>4. QED
    BY <2>1, <2>2, <2>3, VerifierStayKeeps
<1>2. CASE RunVerifier(t) \/ CheckIssue(t)
  <2>1. pc[t] \in VerifierSteps /\ UNCHANGED <<service, crashes, faults, record, score, agent>>
    BY <1>2 DEF RunVerifier, CheckIssue, VerifierSteps, durable
  <2>2. CASE ScoringRaises(t)
    BY <2>1, <2>2, LateRaiseKeeps DEF Running
  <2>3. CASE ~ScoringRaises(t)
    <3>1. pc'[t] \in VerifierSteps /\ (\E step \in ScoringSteps : Goto(t, step)) /\ UNCHANGED <<target, mem, locked>>
      BY <1>2, <2>3 DEF IInv, TypeOK, RunVerifier, CheckIssue, Goto, ScoringSteps, VerifierSteps
    <3>2. \A u \in Threads \ {t} : tally'[u] = tally[u]
      BY <1>2, <2>3 DEF IInv, TypeOK, RunVerifier, CheckIssue
    <3>3. StayFrame(t)
      BY <2>1, <3>1, <3>2 DEF IInv, TypeOK, StayFrame, ScoringSteps
    <3>4. QED
      BY <2>1, <3>1, <3>3, VerifierStayKeeps
  <2>4. QED
    BY <2>2, <2>3
<1>3. QED
  BY <1>1, <1>2, AcquireKeeps, ScoreReadKeeps, SaveInterruptedKeeps, SaveValidatingKeeps, SaveVerdictKeeps,
     SaveScoreKeeps, ScorerStoreFailsKeeps DEF ScoringStep, BoundedScoringStep

-----------------------------------------------------------------------------
(* Agents, crashes and recovery. *)

(* An Agent that exits.                                                     *)
LEMMA AgentExitKeeps ==
    ASSUME IInv, TypeOK', NEW r \in Runs, AgentExit(r)
    PROVE  IInv'
<1> USE DEF durable, files, threads
<1>1. /\ agent[r] = "alive" /\ agent'[r] \in AgentExits /\ \A q \in Runs \ {r} : agent'[q] = agent[q]
      /\ UNCHANGED <<service, crashes, faults, record, score, pc, target, mem, tally, locked>>
  BY DEF IInv, TypeOK, AgentExit
<1>2. RunInv(r)'
  BY <1>1 DEF IInv, RunInv, RunnerOK, RecordOK, InStep, Earned, AgentExits
<1>3. ASSUME NEW q \in Runs \ {r} PROVE RunInv(q)'
  BY <1>1, RunKept DEF Undisturbed, Running, IInv, TypeOK
<1>4. ASSUME NEW t \in Threads PROVE ScorerOK(t)'
  <2>1. RunOf(t)' = RunOf(t)
    BY <1>1 DEF RunOf
  <2>2. pc[t] \in ScoringSteps \ {"read"} => RunOf(t) \in Runs \ {r}
    BY <1>1, RunOfThread, ScorerKnows DEF IInv, ScoringSteps, VerifierSteps
  <2>3. QED
    BY <1>1, <2>1, <2>2, ThreadKept
<1>5. PlacesOK' /\ LockOK'
  BY <1>1 DEF IInv, PlacesOK, LockOK, RunOf
<1>6. QED
  BY <1>2, <1>3, <1>4, <1>5 DEF IInv

(* A Run that recovery rewrites.                                            *)
LEMMA RecoverRunKeeps ==
    ASSUME IInv, TypeOK', NEW r \in Runs, RecoverRun(r)
    PROVE  IInv'
<1> USE ThreadOfRun, LoopAssumption DEF durable, files, threads
<1>1. /\ service = "booting" /\ record[r].status \in Interrupted /\ record[r] \in Records
      /\ UNCHANGED <<service, crashes, faults, score, agent, pc, target, mem, tally, locked>>
  BY DEF IInv, TypeOK, RecoverRun
<1>2. \A t \in Threads : pc[t] = "idle" /\ pc'[t] = "idle"
  BY <1>1 DEF IInv, PlacesOK
<1>3. record'[r] = AsError(record[r]) /\ \A q \in Runs \ {r} : record'[q] = record[q]
  BY DEF IInv, TypeOK, RecoverRun, SaveRun, AsError
<1>4. record'[r].status = "environment_error"
  BY <1>1, <1>3 DEF AsError, Records
<1>5. score[r] = NoScore
  BY <1>1, ScoredStatus DEF Interrupted, L!Interrupted, CutShort, L!CutShort
<1>6. PlacesOK' /\ LockOK'
  BY <1>1, <1>2 DEF IInv, PlacesOK, LockOK, Threads, RunnerSteps, LoopSteps, ScoringSteps, VerifierSteps
<1>7. \A t \in Threads : ScorerOK(t)'
  BY <1>2 DEF ScorerOK, ScoringSteps, VerifierSteps
<1>8. RunInv(r)'
  BY <1>1, <1>2, <1>4, <1>5 DEF IInv, RunInv, RunnerOK, RecordOK, InStep, Earned, ScoringSteps, VerifierSteps, NoScore,
     L!NoScore
<1>9. ASSUME NEW q \in Runs \ {r} PROVE RunInv(q)'
  BY <1>1, <1>2, <1>3, RunKept DEF Undisturbed, Running, IInv, TypeOK, Threads, ScoringSteps, VerifierSteps
<1>10. QED
  BY <1>6, <1>7, <1>8, <1>9 DEF IInv

(* The death of the service.                                                *)
LEMMA CrashKeeps ==
    ASSUME IInv, TypeOK', Crash
    PROVE  IInv'
<1> USE ThreadOfRun, LoopAssumption DEF durable, files
<1>1. /\ service' = "down" /\ crashes' # 0 /\ UNCHANGED <<faults, record, score, agent>>
      /\ target' = Loop /\ \A t \in Threads : pc'[t] = "idle"
  BY CrashesAssumption DEF IInv, TypeOK, Crash
<1>2. PlacesOK' /\ LockOK' /\ \A t \in Threads : ScorerOK(t)'
  BY <1>1 DEF PlacesOK, LockOK, ScorerOK, Threads, ScoringSteps, VerifierSteps, RunnerSteps, LoopSteps
<1>3. \A r \in Runs : RunInv(r)'
  BY <1>1 DEF IInv, RunInv, RunnerOK, RecordOK, InStep, Threads, ScoringSteps, VerifierSteps
<1>4. QED
  BY <1>2, <1>3 DEF IInv

(* The steps that leave everything alone but the files, or the service.     *)
LEMMA QuietKeeps ==
    ASSUME IInv, TypeOK',
           UNCHANGED <<crashes, faults, record, score, agent, pc, target, mem, tally, locked>>,
           \/ service' = service
           \/ service = "down" /\ service' = "booting"
           \/ service = "booting" /\ service' = "serving" /\ \A r \in Runs : record[r].status \notin Interrupted
    PROVE  IInv'
<1>1. PlacesOK' /\ LockOK' /\ \A t \in Threads : ScorerOK(t)'
  BY DEF IInv, PlacesOK, LockOK, ScorerOK, KnowsRecord, RunOf
<1>2. \A r \in Runs : RunInv(r)'
  BY DEF IInv, RunInv, RunnerOK, RecordOK, InStep, Interrupted, L!Interrupted
<1>3. QED
  BY <1>1, <1>2 DEF IInv

(* Agents, crashes and recovery keep the inductive invariant.               *)
LEMMA EnvironmentKeeps ==
    ASSUME IInv, TypeOK',
           \/ \E r \in Runs : AgentExit(r) \/ StrayWrite(r) \/ RecoverRun(r)
           \/ ReadRequest \/ Crash \/ Boot \/ Serve \/ UNCHANGED vars
    PROVE  IInv'
<1>1. ASSUME NEW r \in Runs, StrayWrite(r) PROVE IInv'
  BY <1>1, QuietKeeps DEF StrayWrite, durable, files, threads
<1>2. CASE ReadRequest \/ Boot \/ Serve \/ UNCHANGED vars
  BY <1>2, QuietKeeps DEF ReadRequest, Boot, Serve, vars, durable, files, threads
<1>3. QED
  BY <1>1, <1>2, AgentExitKeeps, RecoverRunKeeps, CrashKeeps

(* Every step keeps the inductive invariant.                                *)
LEMMA NextInv == IInv /\ [Next]_vars => IInv'
<1> SUFFICES ASSUME IInv, [Next]_vars PROVE IInv'
  OBVIOUS
<1>1. ASSUME NEW r \in Runs, Request(r) \/ HandlerStep(r) \/ PrepareUnsaved(r) PROVE IInv'
  BY <1>1, HandlersTyped, StoreFailsTyped, HandlersKeep DEF IInv
<1>2. ASSUME NEW r \in Runs, RunnerStep(r) \/ DrainOutput(r) \/ RunnerStoreFails(r) PROVE IInv'
  BY <1>2, RunnerTyped, StoreFailsTyped, RunnerKeeps DEF IInv
<1>3. ASSUME NEW t \in Threads, AcquireLock(t) \/ ScoringStep(t) \/ ScorerStoreFails(t) PROVE IInv'
  BY <1>3, ScoringTyped, StoreFailsTyped, ScoringKeeps DEF IInv
<1>4. CASE \/ \E r \in Runs : AgentExit(r) \/ StrayWrite(r) \/ RecoverRun(r)
           \/ ReadRequest \/ Crash \/ Boot \/ Serve \/ UNCHANGED vars
  BY <1>4, EnvironmentTyped, EnvironmentKeeps DEF IInv
<1>5. QED
  BY <1>1, <1>2, <1>3, <1>4 DEF Next

-----------------------------------------------------------------------------
(* The theorems. *)

(* The invariant above holds of every reachable state, for any Runs, any    *)
(* number of crashes and any number of calls of the store that raise.       *)
THEOREM InvariantHolds == Spec => []IInv
<1>1. Init => IInv
  BY InitInv
<1>2. IInv /\ [Next]_vars => IInv'
  BY NextInv
<1>3. QED
  BY <1>1, <1>2, PTL DEF Spec

(* Every variable stays in its type: in particular a thread never writes a  *)
(* record or a Score that is not one.                                       *)
THEOREM TypeCorrect == Spec => []TypeOK
BY InvariantHolds, PTL DEF IInv

(* One verifier at a time, on a Run that has no Score and whose Agent       *)
(* exited with 0; and the Run is stored as validating until the store fails.*)
THEOREM VerifierIsExclusive == Spec => []VerifierExclusive
<1>1. IInv => VerifierExclusive
  <2> SUFFICES ASSUME IInv, NEW t \in Threads, pc[t] \in VerifierSteps
               PROVE  /\ \A u \in Threads \ {t} : pc[u] \in ScoringSteps => RunOf(u) # RunOf(t)
                      /\ score[RunOf(t)] = NoScore
                      /\ agent[RunOf(t)] = "ok"
                      /\ faults = 0 => record[RunOf(t)].status = "validating"
    BY DEF VerifierExclusive
  <2>1. RunOf(t) \in Runs /\ pc[t] \in ScoringSteps \ {"read"}
    BY RunOfThread DEF IInv, VerifierSteps, ScoringSteps
  <2>2. ScorerOK(t) /\ KnowsRecord(t)
    BY <2>1, ScorerKnows
  <2>3. mem[t].status = "validating" /\ agent[RunOf(t)] = "ok" /\ score[RunOf(t)] = NoScore
    BY <2>1, <2>2 DEF ScorerOK, KnowsRecord, Earned
  <2>4. faults = 0 => record[RunOf(t)].status = "validating"
    BY <2>2, <2>3 DEF KnowsRecord, CutShort, L!CutShort
  <2>5. QED
    BY <2>1, <2>3, <2>4 DEF IInv, LockOK
<1>2. QED
  BY <1>1, InvariantHolds, PTL

(* pass and fail come only from attempts that ended with exit code 0.       *)
THEOREM VerdictsComeFromCleanExits == Spec => []VerdictNeedsCleanExit
<1>1. IInv => VerdictNeedsCleanExit
  BY DEF IInv, RunInv, RecordOK, VerdictNeedsCleanExit
<1>2. QED
  BY <1>1, InvariantHolds, PTL

(* A living Agent is supervised, or orphaned by a crash of the service or   *)
(* of its store, and never judged.                                          *)
THEOREM AgentsAreSupervised == Spec => []AgentSupervised
<1>1. IInv => AgentSupervised
  BY DEF IInv, RunInv, RecordOK, InStep, AgentSupervised
<1>2. QED
  BY <1>1, InvariantHolds, PTL

(* Whatever is shown as queued or running has a thread that works on it.    *)
THEOREM InFlightRunsHaveThreads == Spec => []InFlightHasThread
<1>1. IInv => InFlightHasThread
  BY DEF IInv, RunInv, InStep, InFlightHasThread, RunnerSteps
<1>2. QED
  BY <1>1, InvariantHolds, PTL

(* codex is started at most once for a Run. *)
THEOREM AgentsAreLaunchedOnce == Spec => AgentLaunchedOnce
<1>1. IInv /\ [Next]_vars => [\A r \in Runs : agent'[r] = "alive" => agent[r] \in {"none", "alive"}]_vars
  <2> SUFFICES ASSUME IInv, Next, NEW r \in Runs, agent'[r] = "alive", agent[r] # "alive"
               PROVE  agent[r] = "none"
    BY DEF vars
  <2>1. PICK u \in Runs : SpawnAgent(u)
    BY DEF IInv, TypeOK, Next, Request, HandlerStep, PrepareBegin, ExecuteRun, ScoreRun, CleanupBegin,
        SimulatorWrite, PrepareReady, PrepareFailed, WipeTree, WipeGit, WipeSimulator, RunnerStep,
        RunnerStart, Preflight, SaveRunning, SaveAttempt, CollectExit, CollectRaises, CollectTimeout,
        SaveOutcome, Reread, FailRead, FailWrite, DrainOutput, AcquireLock, ScoringStep, BoundedScoringStep, ScoreRead,
        SaveInterrupted, SaveValidating, SnapshotBefore, RunVerifier, SnapshotAfter, CheckIssue,
        SaveVerdict, SaveScore, AgentExit, AgentExits, StrayWrite, RecoverRun, ReadRequest, vars,
        Crash, Boot, Serve, PrepareUnsaved, RunnerStoreFails, ScorerStoreFails
  <2>2. r = u
    BY <2>1 DEF IInv, TypeOK, SpawnAgent
  <2>3. QED
    BY <2>1, <2>2 DEF IInv, RunInv, RunnerOK, SpawnAgent
<1>2. QED
  BY <1>1, InvariantHolds, PTL DEF Spec, AgentLaunchedOnce

-----------------------------------------------------------------------------
(* The refinement of RunLedger. *)

(* A record is stored with the status it had, with a successor of it, or as *)
(* an environment error over an attempt that was cut short.                 *)
LEMMA SavedStatusAdvances ==
    ASSUME TypeOK, NEW r \in Runs, NEW run \in Records, SaveRun(r, run), UNCHANGED score,
           \/ run.status = record[r].status
           \/ score[r] = NoScore /\ run.status \in L!Successors(record[r].status)
           \/ record[r].status \in CutShort /\ run.status = "environment_error"
    PROVE  [L!LedgerNext]_(L!ledger)
<1> DEFINE status == [q \in Runs |-> record[q].status]
<1>1. record' = [record EXCEPT ![r] = run]
  BY DEF SaveRun
<1>2. [q \in Runs |-> record'[q].status] = [status EXCEPT ![r] = run.status]
  BY <1>1 DEF TypeOK
<1>3. CASE run.status = record[r].status
  <2>1. [q \in Runs |-> record'[q].status] = status
    BY <1>2, <1>3
  <2>2. QED
    BY <2>1 DEF L!ledger
<1>4. CASE score[r] = NoScore /\ run.status \in L!Successors(record[r].status)
  <2>1. L!Advance(r)
    BY <1>2, <1>4 DEF L!Advance, NoScore
  <2>2. QED
    BY <2>1 DEF L!LedgerNext
<1>5. CASE record[r].status \in CutShort /\ run.status = "environment_error"
  <2>1. L!Overwrite(r)
    BY <1>2, <1>5 DEF L!Overwrite, CutShort
  <2>2. QED
    BY <2>1 DEF L!LedgerNext
<1>6. QED
  BY <1>3, <1>4, <1>5

(* A step that touches neither database table is a stutter of the ledger.   *)
LEMMA LedgerStutters ==
    ASSUME UNCHANGED durable
    PROVE  [L!LedgerNext]_(L!ledger)
<1>1. [q \in Runs |-> record'[q].status] = [q \in Runs |-> record[q].status]
  BY DEF durable
<1>2. QED
  BY <1>1 DEF durable, L!ledger

(* The service starts where the ledger starts.                              *)
LEMMA InitRefines == Init => L!LedgerInit
BY DEF Init, L!LedgerInit, NoRecord, NoScore

(* A preparation that ends admits its Run.                                  *)
LEMMA PreparationAdmits ==
    ASSUME IInv, NEW r \in Runs, PrepareReady(r) \/ PrepareFailed(r)
    PROVE  L!Admit(r)
<1>1. record[r] = NoRecord /\ UNCHANGED score
  BY DEF IInv, PlacesOK, PrepareReady, PrepareFailed
<1>2. PICK run \in Records : SaveRun(r, run) /\ run.status \in {"ready", "reset_error"}
  <2>1. CASE PrepareReady(r)
    <3>1. (r \in IssueRuns) \in BOOLEAN
      OBVIOUS
    <3>2. QED
      BY <2>1, <3>1, RecordTypes DEF PrepareReady
  <2>2. CASE PrepareFailed(r)
    BY <2>2, RecordTypes DEF PrepareFailed, NoRecord
  <2>3. QED
    BY <2>1, <2>2
<1>3. record' = [record EXCEPT ![r] = run]
  BY <1>2 DEF SaveRun
<1>4. [q \in Runs |-> record'[q].status]
        = [[q \in Runs |-> record[q].status] EXCEPT ![r] = run.status]
  BY <1>3 DEF IInv, TypeOK
<1>5. [q \in Runs |-> record[q].status][r] = "absent"
  BY <1>1 DEF NoRecord
<1>6. \E s \in {"ready", "reset_error"} :
        [q \in Runs |-> record'[q].status] = [[q \in Runs |-> record[q].status] EXCEPT ![r] = s]
  BY <1>2, <1>4
<1>7. QED
  BY <1>1, <1>5, <1>6 DEF L!Admit

(* Each handler step is a step of the ledger or a stutter.                  *)
LEMMA HandlersRefine ==
    ASSUME IInv, NEW r \in Runs, Request(r) \/ HandlerStep(r)
    PROVE  [L!LedgerNext]_(L!ledger)
<1>1. CASE PrepareReady(r) \/ PrepareFailed(r)
  BY <1>1, PreparationAdmits DEF L!LedgerNext
<1>2. CASE ExecuteRun(r)
  <2>1. record[r].status = "ready" /\ UNCHANGED score
    BY <1>2 DEF ExecuteRun, ClaimReadyRun
  <2>2. score[r] = NoScore
    BY <2>1, ScoredStatus DEF IInv, CutShort, L!CutShort
  <2>3. [record[r] EXCEPT !.status = "queued"] \in Records
    BY RecordTypes DEF IInv, TypeOK, Statuses, L!Statuses
  <2>4. [record[r] EXCEPT !.status = "queued"].status \in L!Successors(record[r].status)
    BY <2>1, <2>3 DEF IInv, TypeOK, Records, L!Successors, L!CutShort
  <2>5. QED
    BY <1>2, <2>1, <2>2, <2>3, <2>4, SavedStatusAdvances DEF IInv, ExecuteRun, ClaimReadyRun
<1>3. CASE ~(PrepareReady(r) \/ PrepareFailed(r) \/ ExecuteRun(r))
  BY <1>3, LedgerStutters DEF Request, HandlerStep, PrepareBegin, ScoreRun, CleanupBegin, SimulatorWrite,
     WipeTree, WipeGit, WipeSimulator
<1>4. QED
  BY <1>1, <1>2, <1>3

(* So is each step of a runner thread, until a call of the store raises.    *)
LEMMA RunnerRefines ==
    ASSUME IInv, faults = 0, NEW r \in Runs, RunnerStep(r) \/ DrainOutput(r)
    PROVE  [L!LedgerNext]_(L!ledger)
<1> USE ThreadOfRun
<1>0. /\ record[r] \in Records /\ mem[r] \in Records
      /\ \A s \in Statuses : [mem[r] EXCEPT !.status = s] \in Records
                           /\ [mem[r] EXCEPT !.status = s].status = s
  BY RecordTypes DEF IInv, TypeOK, Records
<1>1. CASE Preflight(r)
  <2>1. CASE SaveStatus(r, "environment_error")
    <3>1. record[r].status = "queued" /\ mem[r] = record[r] /\ UNCHANGED score
      BY <1>1 DEF Preflight, IInv, RunInv, RunnerOK
    <3>2. score[r] = NoScore
      BY <3>1, ScoredStatus DEF CutShort, L!CutShort
    <3>3. "environment_error" \in L!Successors("queued") \cap Statuses
      BY DEF L!Successors, L!CutShort, Statuses, L!Statuses
    <3>4. QED
      BY <1>0, <2>1, <3>1, <3>2, <3>3, SavedStatusAdvances DEF IInv, SaveStatus
  <2>2. CASE ~SaveStatus(r, "environment_error")
    BY <1>1, <2>2, LedgerStutters DEF Preflight, durable
  <2>3. QED
    BY <2>1, <2>2
<1>2. CASE SaveRunning(r)
  <2>1. record[r].status = "queued" /\ mem[r] = record[r] /\ UNCHANGED score
    BY <1>2 DEF SaveRunning, IInv, RunInv, RunnerOK
  <2>2. score[r] = NoScore
    BY <2>1, ScoredStatus DEF CutShort, L!CutShort
  <2>3. "running" \in L!Successors("queued") \cap Statuses
    BY DEF L!Successors, L!CutShort, Statuses, L!Statuses
  <2>4. QED
    BY <1>0, <1>2, <2>1, <2>2, <2>3, SavedStatusAdvances DEF IInv, SaveRunning, SaveStatus
<1>3. CASE SaveAttempt(r)
  <2>1. mem[r] = record[r] /\ UNCHANGED score
    BY <1>3 DEF SaveAttempt, IInv, RunInv, RunnerOK
  <2>2. mem'[r] = [record[r] EXCEPT !.attempted = TRUE]
    BY <1>3, <2>1 DEF SaveAttempt, IInv, TypeOK
  <2>3. mem'[r] \in Records /\ mem'[r].status = record[r].status
    BY <1>0, <2>2 DEF Records
  <2>4. QED
    BY <1>3, <2>1, <2>3, SavedStatusAdvances DEF IInv, SaveAttempt
<1>4. CASE CollectRaises(r)
  <2>1. mem[r] = record[r] /\ UNCHANGED score
    BY <1>4 DEF CollectRaises, IInv, RunInv, RunnerOK
  <2>2. QED
    BY <1>0, <1>4, <2>1, SavedStatusAdvances DEF IInv, CollectRaises
<1>5. CASE SaveOutcome(r)
  <2>1. /\ record[r].status = "running" /\ UNCHANGED score
        /\ mem[r].status \in {"environment_error", "completed", "agent_crash", "agent_timeout"}
    BY <1>5 DEF SaveOutcome, IInv, RunInv, RunnerOK, CutShort, L!CutShort
  <2>2. score[r] = NoScore
    BY <2>1, ScoredStatus DEF CutShort, L!CutShort
  <2>3. mem[r].status \in L!Successors(record[r].status)
    BY <2>1 DEF L!Successors, CutShort, L!CutShort
  <2>4. QED
    BY <1>0, <1>5, <2>1, <2>2, <2>3, SavedStatusAdvances DEF IInv, SaveOutcome
<1>6. CASE FailWrite(r)
  <2>1. /\ record[r].status \in {"queued", "running", "validating", "environment_error"} \cup CutShort
        /\ score[r] # NoScore => record[r].status \in CutShort
        /\ UNCHANGED score
    BY <1>6 DEF FailWrite, IInv, RunInv, RunnerOK
  <2>2. "environment_error" \in Statuses
    BY DEF Statuses, L!Statuses
  <2>3. \/ record[r].status \in {"environment_error"} \cup CutShort
        \/ score[r] = NoScore /\ "environment_error" \in L!Successors(record[r].status)
    BY <2>1 DEF L!Successors, CutShort, L!CutShort
  <2>4. QED
    BY <1>0, <1>6, <2>1, <2>2, <2>3, SavedStatusAdvances DEF IInv, FailWrite
<1>7. CASE DrainOutput(r)
  <2>1. CASE UNCHANGED record
    BY <1>7, <2>1, LedgerStutters DEF DrainOutput, durable
  <2>2. CASE SaveRun(r, mem[r])
    <3>1. mem[r] = record[r] /\ UNCHANGED score
      BY <1>7 DEF DrainOutput, IInv, RunInv, RunnerOK
    <3>2. QED
      BY <1>0, <2>2, <3>1, SavedStatusAdvances DEF IInv
  <2>3. QED
    BY <1>7, <2>1, <2>2 DEF DrainOutput
<1>8. CASE ~(\/ Preflight(r) \/ SaveRunning(r) \/ SaveAttempt(r) \/ CollectRaises(r)
             \/ SaveOutcome(r) \/ FailWrite(r) \/ DrainOutput(r))
  BY <1>8, LedgerStutters DEF RunnerStep, RunnerStart, SpawnAgent, CollectExit, CollectTimeout, Reread, FailRead
<1>9. QED
  BY <1>1, <1>2, <1>3, <1>4, <1>5, <1>6, <1>7, <1>8

(* The Score that is saved agrees with the status that was saved before it, *)
(* unless the thread of the Run has overwritten that status.                *)
LEMMA ScoreIsRecorded ==
    ASSUME IInv, faults = 0, NEW t \in Threads, SaveScore(t)
    PROVE  L!Record(RunOf(t))
<1> DEFINE r == RunOf(t)
<1>1. r \in Runs /\ pc[t] = "record" /\ pc[t] \in ScoringSteps \ {"read"}
  BY RunOfThread DEF IInv, SaveScore, ScoringSteps
<1>2. /\ score' = [score EXCEPT ![r] = Document(t)] /\ score[r] = NoScore
      /\ UNCHANGED record
  BY <1>1, DocumentSays DEF SaveScore
<1>3. Document(t) \in L!Scores
  BY DEF Document, L!Scores, IInv, TypeOK, Tallies
<1>4. KnowsRecord(t) /\ AsError(mem[t]).status = "environment_error" /\ (t = Loop => r = target)
  BY <1>1, ScorerKnows DEF AsError, Records, RunOf
<1>5. \/ L!StatusOf(Document(t)) = record[r].status
      \/ Document(t).execution \in CutShort /\ record[r].status = "environment_error"
  BY <1>1, <1>4, DocumentSays DEF KnowsRecord
<1>6. Document(t).task # "not_scored" => Document(t).execution = "completed"
  BY <1>1, DocumentSays
<1>7. [q \in Runs |-> record'[q].status] = [q \in Runs |-> record[q].status]
  BY <1>2
<1>8. QED
  BY <1>1, <1>2, <1>3, <1>5, <1>6, <1>7 DEF L!Record, NoScore, CutShort

(* So is each step of the scorer.                                           *)
LEMMA ScoringRefines ==
    ASSUME IInv, faults = 0, NEW t \in Threads, AcquireLock(t) \/ ScoringStep(t)
    PROVE  [L!LedgerNext]_(L!ledger)
<1> DEFINE r == RunOf(t)
<1>0. /\ r \in Runs /\ record[r] \in Records /\ mem[t] \in Records
      /\ \A s \in Statuses : [mem[t] EXCEPT !.status = s] \in Records
                           /\ [mem[t] EXCEPT !.status = s].status = s
  <2>1. r \in Runs
    BY RunOfThread DEF IInv, AcquireLock, ScoringStep, BoundedScoringStep, ScoreRead, SaveInterrupted, SaveValidating,
       SnapshotBefore, RunVerifier, SnapshotAfter, CheckIssue, SaveVerdict, SaveScore
  <2>2. QED
    BY <2>1, RecordTypes DEF IInv, TypeOK, Records
<1>1. CASE SaveScore(t)
  BY <1>0, <1>1, ScoreIsRecorded DEF L!LedgerNext
<1>2. CASE SaveInterrupted(t)
  <2>1. /\ ScorerOK(t) /\ KnowsRecord(t) /\ (t = Loop => r = target)
        /\ mem[t].status \in CutShort /\ AsError(mem[t]).status = "environment_error"
    BY <1>0, <1>2, ScorerKnows DEF ScorerOK, SaveInterrupted, ScoringSteps, AsError, Records, RunOf
  <2>2. \/ mem[t].status = record[r].status
        \/ score[r] = NoScore /\ mem[t].status \in L!Successors(record[r].status)
    BY <2>1 DEF KnowsRecord, L!Successors, CutShort, L!CutShort
  <2>3. CASE UNCHANGED record
    BY <1>2, <2>3, LedgerStutters DEF SaveInterrupted, durable
  <2>4. CASE SaveRun(r, mem[t])
    BY <1>0, <1>2, <2>2, <2>4, SavedStatusAdvances DEF IInv, SaveInterrupted
  <2>5. QED
    BY <1>2, <2>3, <2>4 DEF SaveInterrupted
<1>3. CASE SaveValidating(t)
  <2>1. ScorerOK(t) /\ KnowsRecord(t)
    BY <1>0, <1>3, ScorerKnows DEF SaveValidating, ScoringSteps
  <2>2. /\ mem[t] = record[r] /\ record[r].status = "completed"
        /\ score[r] = NoScore /\ UNCHANGED score
    BY <1>3, <2>1 DEF ScorerOK, KnowsRecord, SaveValidating, CutShort, L!CutShort
  <2>3. "validating" \in L!Successors("completed") \cap Statuses
    BY DEF L!Successors, L!CutShort, Statuses, L!Statuses
  <2>4. QED
    BY <1>0, <1>3, <2>2, <2>3, SavedStatusAdvances DEF IInv, SaveValidating, SaveStatus
<1>4. CASE SaveVerdict(t)
  <2>0. ScorerOK(t) /\ KnowsRecord(t)
    BY <1>0, <1>4, ScorerKnows DEF SaveVerdict, ScoringSteps, VerifierSteps
  <2>1. /\ record[r].status = "validating"
        /\ score[r] = NoScore /\ UNCHANGED score
    BY <1>4, <2>0 DEF ScorerOK, KnowsRecord, SaveVerdict, VerifierSteps, CutShort, L!CutShort
  <2>2. CASE UNCHANGED record
    BY <2>1, <2>2, LedgerStutters DEF durable
  <2>3. CASE ~UNCHANGED record
    <3>1. PICK s \in {"environment_error", "completed"} : SaveStatus(t, s)
      BY <1>4, <2>3 DEF SaveVerdict
    <3>2. s \in L!Successors("validating") \cap Statuses
      BY <3>1 DEF L!Successors, L!CutShort, Statuses, L!Statuses
    <3>3. QED
      BY <1>0, <2>1, <3>1, <3>2, SavedStatusAdvances DEF IInv, SaveStatus
  <2>4. QED
    BY <2>2, <2>3
<1>5. CASE ~(SaveScore(t) \/ SaveInterrupted(t) \/ SaveValidating(t) \/ SaveVerdict(t))
  BY <1>5, LedgerStutters DEF AcquireLock, ScoringStep, BoundedScoringStep, ScoreRead, SnapshotBefore, RunVerifier,
     SnapshotAfter, CheckIssue
<1>6. QED
  BY <1>1, <1>2, <1>3, <1>4, <1>5

(* So is each record that recovery rewrites.                                *)
LEMMA RecoveryRefines ==
    ASSUME IInv, NEW r \in Runs, RecoverRun(r)
    PROVE  [L!LedgerNext]_(L!ledger)
<1>1. record[r].status \in {"queued", "running", "validating"} /\ UNCHANGED score
  BY DEF RecoverRun, Interrupted, L!Interrupted, IInv, RunInv, RecordOK
<1>2. score[r] = NoScore
  BY <1>1, ScoredStatus DEF CutShort, L!CutShort
<1>3. "environment_error" \in L!Successors(record[r].status) \cap Statuses
  BY <1>1 DEF L!Successors, L!CutShort, Statuses, L!Statuses
<1>4. /\ [record[r] EXCEPT !.status = "environment_error"] \in Records
      /\ [record[r] EXCEPT !.status = "environment_error"].status = "environment_error"
  BY <1>3, RecordTypes DEF IInv, TypeOK, Records
<1>5. QED
  BY <1>1, <1>2, <1>3, <1>4, SavedStatusAdvances DEF IInv, RecoverRun

(* So is every step but a call of the store that raises.                    *)
LEMMA NextRefines == IInv /\ [Next]_vars => [faults' = 0 => L!LedgerNext]_(L!ledger)
<1> SUFFICES ASSUME IInv, [Next]_vars, faults' = 0 PROVE [L!LedgerNext]_(L!ledger)
  OBVIOUS
<1>1. ASSUME NEW r \in Runs, PrepareUnsaved(r) \/ RunnerStoreFails(r) PROVE FALSE
  BY <1>1, FaultsAssumption DEF IInv, TypeOK, PrepareUnsaved, RunnerStoreFails
<1>2. ASSUME NEW t \in Threads, ScorerStoreFails(t) PROVE FALSE
  BY <1>2, FaultsAssumption DEF IInv, TypeOK, ScorerStoreFails
<1>3. ASSUME NEW r \in Runs, Request(r) \/ HandlerStep(r) PROVE [L!LedgerNext]_(L!ledger)
  BY <1>3, HandlersRefine
<1>4. ASSUME NEW r \in Runs, RunnerStep(r) \/ DrainOutput(r) PROVE [L!LedgerNext]_(L!ledger)
  <2>1. faults = 0
    BY <1>4 DEF RunnerStep, DrainOutput, RunnerStart, Preflight, SaveRunning, SpawnAgent, SaveAttempt, CollectExit,
       CollectRaises, CollectTimeout, SaveOutcome, Reread, FailRead, FailWrite
  <2>2. QED
    BY <1>4, <2>1, RunnerRefines
<1>5. ASSUME NEW t \in Threads, AcquireLock(t) \/ ScoringStep(t) PROVE [L!LedgerNext]_(L!ledger)
  <2>1. faults = 0
    BY <1>5 DEF ScoringStep, BoundedScoringStep, AcquireLock, ScoreRead, SaveInterrupted, SaveValidating, SnapshotBefore, RunVerifier,
       SnapshotAfter, CheckIssue, SaveVerdict, SaveScore
  <2>2. QED
    BY <1>5, <2>1, ScoringRefines
<1>6. ASSUME NEW r \in Runs, RecoverRun(r) PROVE [L!LedgerNext]_(L!ledger)
  BY <1>6, RecoveryRefines
<1>7. CASE \/ \E r \in Runs : AgentExit(r) \/ StrayWrite(r)
           \/ ReadRequest \/ Crash \/ Boot \/ Serve \/ UNCHANGED vars
  BY <1>7, LedgerStutters DEF AgentExit, StrayWrite, ReadRequest, Crash, Boot, Serve, vars
<1>8. QED
  BY <1>1, <1>2, <1>3, <1>4, <1>5, <1>6, <1>7 DEF Next

(* Whatever the threads, the handlers and the crashes do, the database goes *)
(* through the statuses in order and gets one Score that agrees with the    *)
(* status; a Run that got pass or fail is final.  That holds as long as no  *)
(* call of the store has raised.                                            *)
THEOREM LedgerIsImplemented == Spec => ImplementsLedger
<1>1. Init => L!LedgerInit
  BY InitRefines
<1>2. IInv /\ [Next]_vars => [faults' = 0 => L!LedgerNext]_(L!ledger)
  BY NextRefines
<1>3. QED
  BY <1>1, <1>2, InvariantHolds, PTL DEF Spec, ImplementsLedger
=============================================================================
