# A verification project for Workflow Environment Factory

TLA+ models of the service in `src/backend`, checked by TLC on small instances
and, where the prover reaches, proved by TLAPS for every instance. Paths below
are relative to the repository; `B/` stands for
`src/backend/workflow_environment_factory/`.

## 1. The system

The product makes resettable tasks out of a user's repository, runs Codex on
them in a fresh workspace and scores what Codex left behind. One local Python
service (FastAPI on uvicorn) serves a React workbench and a Codex MCP plugin.

| Component | Source | State it keeps | Operations | What makes it correct |
|---|---|---|---|---|
| HTTP handlers | `B/app.py` | none; `async` functions without an `await`, so one at a time | prepare, execute, score, cleanup, simulator routes, recordings, blueprints, cases, protocol imports | a handler answers; a failing one leaves nothing half-done |
| Background thread of a Run | `B/app.py` `execute_and_score` | the thread's copy of the record | run the Agent, then score; turn any exception into `environment_error` | a claimed Run ends; its Score is that of its one attempt |
| CodexRunner | `B/runner.py` | a child process, a copy of the record | preflight, start, wait, time out and kill, classify the exit | one process per Run; the status tells how it ended |
| ScoreService | `B/scoring.py` | one lock per Run, in memory | snapshot, verifier, snapshot, Issue state, verdict | one judge at a time; infrastructure trouble is never a task failure |
| FactoryStore | `B/store.py` | the SQLite tables | whole-record writes, `claim_ready_run`, `save_score` (the first one wins), `recover_interrupted_runs` | statuses go forward, one Score, agreement of the two |
| CaseFactory, GitWorkspaceManager | `B/factory.py`, `B/gitops.py` | workspace directories, isolated Git directories, worktrees | `prepare_run`, `cleanup_run`, `generate_cases` with its gates | no state is reused; what is removed is gone, what is left is known |
| DockerEngine | `B/engine.py` | containers, images | inspect, pull, run with a timeout, remove | pass, fail, error and timeout are told apart |
| Issue/PR simulator | `B/simulator.py` | one SQLite file per Run | read, create PR, set status, validate | the judged state is that of the Run |
| App Server preflight | `B/app_server_preflight.py` | a child process, two reader threads, two files | a request/response protocol with deadlines | it fails closed and leaves no file |
| Recording, Blueprint | `B/recording.py`, `B/factory.py` | recording records | start, append, complete, extract, create | confirmed steps only |
| Protocol library | `B/protocol.py`, `B/redaction.py`, `B/store.py`, `B/app.py` | protocol documents | validate, redact, import, list | one record of a document, no secret in it |
| Start of a service | `B/cli.py`, `B/config.py`, `B/auth.py`, `B/store.py` | data root, marker, head Scores, token file, port | take or make the root, migrate, recover, load the token, bind | only an owned root is used; what a dead service left is settled |
| Content store | `B/content_store.py` | files named by digest | put (temporary file, replace), read | content matches its name |
| Portable lifecycle | `src/scripts/portable-lifecycle.mjs`, `*.ps1` | data root, service record, Codex registrations | install with rollback, start, stop, uninstall | it touches only what it owns |
| MCP server | `src/plugins/.../mcp-server.mjs` | the active Run id | six tools over the HTTP API | answers belong to their requests |
| Workbench | `src/web` | view state | client of the HTTP API | — |

How they interact: the handlers and the threads call the services in process
and share the database (each `FactoryStore` method holds an `RLock`, so it is
one atomic step), the files of a Run, and the scoring locks. Codex is a process
of its own; it works in the workspace directory and reaches the simulator
through the MCP server and the HTTP API.

What is hard: `execute`, `score`, `cleanup` and simulator requests arrive at any
status of a Run while its thread is anywhere; the thread works with a copy of
the record and stores it whole; the service can die between any two stores,
while the codex process lives on; the Case timeout races the exit; removals,
validations and the runner fail halfway; a request that scores blocks the event
loop on a lock that a thread holds. `PROJECT.json` lists these hazards at their
lines, with the properties that watch them.

## 2. What is modelled

| Module | Source | What it is |
|---|---|---|
| `RunLedger` | `store.py`, `models.py` | abstract: what the database promises about a Run |
| `RunLifecycle` | `app.py`, `runner.py`, `scoring.py`, `factory.py`, `store.py`, `cli.py` | the service: handlers, threads, scorer, files, Agents, crashes, recovery; implements `RunLedger` |
| `RunPreparation` | `factory.py`, `gitops.py` | `prepare_run` and `cleanup_run` one file operation at a time; implements `RunLifecycle` |
| `Scoring` | `scoring.py`, `gitops.py`, `simulator.py` | one validation: snapshots, verifier, rows, weights; composed with `Simulator` |
| `Simulator` | `simulator.py`, `app.py`, `mcp-server.mjs` | the Issue/PR simulator and the MCP server |
| `Preflight` | `app_server_preflight.py`, `codex_permissions.py` | the check before an Agent is started |
| `DockerEngine` | `engine.py` | one verifier in one container |
| `ContentStore` | `content_store.py` | `put` of one content by several threads |
| `VerifierEvidence` | `scoring.py` | composition: the verifier, and its output in the content store |
| `CaseGate` | `factory.py`, `gitops.py`, `store.py` | `generate_cases` by several services |
| `Demonstration` | `recording.py`, `factory.py`, `gitops.py` | a recording and the Blueprint made from it |
| `ServiceStart` | `cli.py`, `config.py`, `auth.py`, `store.py` | the start of services on one data directory |
| `ProtocolLibrary` | `app.py`, `redaction.py`, `store.py` | import of protocol documents, statement by statement |
| `PortableLifecycle` | `portable-lifecycle.mjs` | install, start, stop, uninstall |
| `MCRunLifecycle`, `MCScoring` | | instances for TLC, with their symmetries |
| `*Proofs` | | inductive invariants, theorems and proofs |

### RunLifecycle

*Threads.* `Loop` is the event loop; each Run `r` has its background thread,
also called `r`. `pc[t]` names the step a thread is at, in the order of the
code: the runner (`start`, `preflight`, `launch`, `spawn`, `attempt`, `wait`,
`drain`, `finish`), `execute_and_score` (`reread`, and `failRead`, `failWrite`
for its two `except` clauses), the scorer (`lock`, `read`, `mark` or
`interrupted`, `before`, `verify`, `after`, `issue`, `final`, `record`), and on
the event loop also `building` (prepare) and `wipeTree`, `wipeGit`,
`wipeSimulator` (cleanup). `target` is the Run the current handler works on;
`RunOf(t)` is the Run of thread `t`.

*Shared state.* `record[r]` and `score[r]` are the rows of the database, in the
detail that matters: the status, whether an attempt is on record, which paths
the record holds; the execution status, the task result, and what the workspace
looked like when the evidence was taken. `mem[t]` is the thread's copy of the
record, which is what `save_run` writes. `locked[r]` is the scoring lock, and it
dies with the process. `tree`, `gitState` and `simulator` are the files: a tree
is `intact`, `altered` by a process the Agent left behind, `torn` by a removal
or a preparation that is not through, or `gone`. `agent[r]` is the codex
process: not started, alive, killed, or ended with exit code 0 (`ok`), with an
infrastructure marker in its output (`infra`), or otherwise (`crash`).

*Actions.* Each action is what happens between two points where another thread
can step in: one store, one process event or one file operation, with the
condition before it. The handlers `prepare_run` and `cleanup_run` take several
steps because threads and crashes come between the removal of one directory and
the next; other handlers cannot. Steps that may raise have a disjunct that
does, and it goes where the code goes: to `environment_error` in a background
thread, to an error answer and no change of the record in `score_run`.

*Failures of the store.* Any writing call of `FactoryStore` may raise (a locked
database, a full disk) at most `MaxFaults` times: `PrepareUnsaved` in
`prepare_run` (`B/factory.py:545`), `RunnerStoreFails` in the runner and in the
`except` clauses of `execute_and_score`, `ScorerStoreFails` in the scorer,
`save_score` with its rollback included. Nothing in the code repairs what
could not be stored before the service is started again: a codex process may be
left alive without its thread (`B/runner.py:245`), a Run in flight without a
status to say so, an environment error stored over a Run whose Score could not
be saved (`B/app.py:365`). `faults` counts them, and each property says what
still holds when it is not 0. A claim (`claim_ready_run`) or a reading handler
that raises changes nothing and needs no action of its own; a store that fails
in recovery ends the start, which is a `Crash`. The other modules leave failures
of the store out, unless a step of theirs may end that way (a `Raise` or `Fail`).

*Outside.* `AgentExit`, `StrayWrite`, `Crash` and `Boot` are the environment.
`Boot` to `Serve` is `cli.py main`: recovery, then uvicorn. Recovery rewrites
one record at a time and may itself be interrupted.

*Left out.* Contents of files, prompts, events, error texts, redaction and
schema validation (an exception stands for each way to fail); `AttemptOrigin`,
which the service sets together with `agent_attempted`; synthetic fixtures,
which only tests use; the authentication of requests.

### RunLedger

The abstract specification: a Run is admitted once, as `ready` or
`reset_error`; its status moves along `Successors`; a Score is recorded once and
never changes, when its execution status and the Run's status say the same, and
then the status does not move either. There is one exception, for an attempt that
was cut short (`CutShort`: timed out or crashed). `protocol.validate` may raise
before its Score is saved (`B/scoring.py:135`); the thread then stores
`environment_error` without the lock (`B/app.py:365`), while a scoring request
may be past the same check with the old record. So such a Run may turn into an
environment error, before its Score comes or after (`Overwrite`), and back.
`RunLifecycle` implements the ledger under the mapping of `status` to
the status of the stored record and of `score` to itself, until a call of the
store raises (`ImplementsLedger`).

### RunPreparation

The files of a Run are three parts (`tree`, `git`, `simulator`), each absent,
half there or whole. `BuildStep` is the next operation of `materialize_isolated`
or of the simulator's `initialize`, `BuildFails` any of them failing, halfway
too; `Remove` is the removal inside `materialize_isolated`, `UndoStep` those of
`prepare_run`'s `except` clause; `WipeDirectory` and `WipeSimulator` are those
of `cleanup_run`. `record.error` is the set of parts that the stored error text
names, `errors` that of the parts an answer of cleanup names.
`ImplementsLifecycle` instantiates `RunLifecycle` with the one Run and a mapping
of the parts to its coarser file state.

### Scoring and Simulator

`Scoring` is `_score_locked` for an attempt that completed. None of its readings
is atomic: git lists the tracked changes, then the untracked files, then each
file is hashed (`List`, `Digest`), while the verifier, processes the Agent left
(`StrayWrite`) and requests to the simulator (`LateRequest`) write. The listing
of untracked files is with `--exclude-standard` (`B/gitops.py:323`): a third file
is one that `.gitignore`, which the Agent may edit, names at some time, and it is
listed or not. The verifier may raise out of the scoring. A file is a version
number; a file changed and restored between two readings, which no
snapshot can see, is left out, and so is an untracked file that appears and is
gone again. An error told although the write was committed, because the row
cannot be read back after it (`B/simulator.py:111`), is left out: the database has
just been committed to on the same connection. `Simulator` has the calls of the Agent in flight (`Ask`), the
handler and its one transaction (`Handle`), the answer of the MCP server
(`Tell`) and its two-minute limit (`GiveUp`), after which the request may still
arrive.

### Preflight

Requests are numbered and sent one after the other; the reader thread (`Put`,
`EndOfOutput`) fills a queue with whatever the App Server prints; `Receive`
takes one line and ignores what is not the answer waited for. The commands are
processes of their own that may end after their answer, the timeout or the
server. `Unlink`, `Stop` and `Reap` are the `finally` clause. The write of a request
to the pipe of the server is a step that ends: a server that stops reading could
hold it without a deadline (`B/app_server_preflight.py:298`) once the pipe is full,
which requests of a few hundred bytes do not fill.

### DockerEngine, ContentStore, VerifierEvidence

The client and the daemon of docker are external: the client sends `create` and
`start`, is killed or loses its daemon; the daemon carries out what was sent
even for a client that has gone. Output that is not text makes either
`communicate` raise, past the removal of the container. The second one, after the
kill (`B/engine.py:189`), has no time limit, and the model gives its step
(`Drain`) no fairness. A put checks, writes its temporary file,
replaces and returns; the temporary name is the identity of the value, which a
later value may have again and which is unique within one process only: the
puts are those of one service at a time. `VerifierEvidence` runs both: only what `run`
returned is put, and a death of the service leaves the docker client and the
container to themselves.

### CaseGate and Demonstration

`CaseGate` follows `generate_cases` and `_validate_case` step by step: worktrees
added and dropped, two fingerprints, two verifier runs, the Issue state gate
with its own database, the `finally` clause that removes what the gate holds,
and the insertion of all Cases in one transaction that looks for existing ones
again. `Demonstration` is the recording that is read, changed and saved whole,
and `create_blueprint` with the branches of the repository moving meanwhile.
`complete` does not look at the status: a completed recording that is completed
again gets a new `completed_at`, whatever the clock shows.

### ServiceStart, ProtocolLibrary, PortableLifecycle

`ServiceStart` goes through `serve`: data root and marker, migration (the oldest
Score of a Run is selected, then inserted as its head, and another service may
save a Score in between), recovery of one Run, the token, read or made
twice (`cli.py`, then `create_app`), and the port, which comes last; a service
may die at every step. The history variable `met` tells whether two services
were ever up at a time. `ProtocolLibrary` models the SQLite connection of each
service: the transaction that an INSERT opens, what it sees, and the lock.
`PortableLifecycle` runs the scripts one after the other, each step of which may
fail or be the last before a kill, with the services they spawn. Another checkout
may take a name with Codex at any moment, also while a script runs. A listing of
the registrations that fails is swallowed (`codexState`, mjs:512) and taken for
no registration; the second listing of an installation fails it, because `install`
then misses what it has registered. The history variables `found`, `blind` and
`late` say what was registered when the script listed it, what it could not
list, and what another checkout took since. The two listings of one `codexState`
are one step, and another checkout does not remove its registrations.

## 3. Properties and runs

| Run | Instance | Checks | Distinct states |
|---|---|---|---|
| `run_crashes` | 1 Issue Run, 2 crashes, 2 failures of the store, `FairSpec` | `TypeOK`, the safety invariants, `AgentLaunchedOnce`, `ImplementsLedger`, liveness | 234 158 |
| `run_concurrent` | 2 code Runs, no crash, no failure of the store, symmetric | `VerifierExclusive`, `InFlightHasThread`, `AgentSupervised` | 5.8 million, up to symmetry |
| `run_preparation` | 1 Issue Run, 2 crashes | `ResetErrorConfesses`, `CleanupConfesses`, `ImplementsLifecycle` | 878 |
| `preflight` | 2 unread lines, `FairSpec` | `PassedMeansProved`, `PassedLeavesNothing`, `CheckReturns` | 281 112 |
| `case_gate` | 2 services, 2 variants, 2 generations, Issue, `FairSpec` | `CasesAreOneGeneration`, `PassedGateLeavesNothing`, `StoredCasesStay`, `GenerationEnds` | 643 514 |
| `simulator` | 2 calls, repeated without end | `EventsExplainState`, `AnswersAreTrue`, `CallsAreAnswered` | 11 402 |
| `scoring` | Issue attempt, 2 late requests, 3 files, symmetric | `JudgedIsWhatWasFrozen`, `PathsAreTheFrozenOnes`, `PassIsFullScore` | 9.0 million, up to symmetry |
| `service_start` | 2 services, 3 starts | `RootIsOwned`, `HeadIsTheOldest`, `NothingIsLeftInterrupted`, `TokenIsOnFile` | 621 310 |
| `portable_lifecycle` | 3 scripts, 2 services | `ForeignIsKept`, `FailureIsUndone`, `InstalledIsComplete` | 2 508 306 |
| `verifier_evidence` | 2 threads, 2 addresses, 3 puts | `StoredIsWhole`, `PassIsReal`, `StoredStays`, `RunReturns` | 107 424 |
| `validation_has_thread` | 1 Issue Run, 1 crash | `ValidationHasThread`, violated | |
| `verdict_on_whole_workspace` | 1 Issue Run, 1 crash | `VerdictOnWholeWorkspace`, violated | |

The life of a Run:

- `VerifierExclusive`: while a thread is between storing VALIDATING and storing
  the verdict, nobody else is in the scorer for that Run, the Run has no Score,
  and its Agent exited with 0; and as long as the store has not failed, the Run
  is stored as validating.
- `VerdictNeedsCleanExit`: pass and fail come only from an attempt whose codex
  process ended with exit code 0, whatever requests, restarts and failures of the
  store came between.
- `AgentSupervised`: a living Agent keeps its Run from being scored, and only a
  crash or a failure of the store leaves one alive without the thread that
  collects or kills it.
- `InFlightHasThread`: a service that serves, and whose store has not failed, has
  a thread for every Run it shows as queued or running.
- `AgentLaunchedOnce`: codex is started at most once for a Run.
- `ImplementsLedger`: until the store fails, the refinement of `RunLedger`. In
  particular a Run that got pass or fail is final, record and Score.
- `ResetErrorConfesses`, `CleanupConfesses`: what is left on the disk of a Run
  that could not be prepared is named in its record; what a cleanup left of the
  recorded paths is named in its answer.

Before and after the Agent:

- `PassedMeansProved`, `PassedLeavesNothing`: no late, lost, wrong or stray answer
  of the App Server makes a preflight pass, and one that passed has left no file
  and no command that could still write.
- `JudgedIsWhatWasFrozen`, `PathsAreTheFrozenOnes`: a judged task was judged on
  the files git does not ignore as both snapshots describe them, and on the paths
  of the first, although the code computes the row from the second
  (`B/scoring.py:212`). For files git ignores the first is not so (section 5).
- `PassIsFullScore`: a pass is the full weighted score, and no row in error is
  ever part of a judged task.
- `EventsExplainState`, `AnswersAreTrue`: events and state of a simulator never
  part; a success was recorded once, a failure never, a call given up at most
  once.
- `PassIsReal`: a verifier that passed ran on the image, ended with 0 and is gone.
- `StoredIsWhole`, `StoredStays`: under a digest there is the whole content, and
  it stays.

Before the Run, and around the service:

- `CasesAreOneGeneration`, `StoredCasesStay`, `PassedGateLeavesNothing`: the Cases
  of a Blueprint are all of one generation and derived from its source Case, are
  never replaced, and one that passed its gate has left no worktree or database.
- `RootIsOwned`, `HeadIsTheOldest`: no directory is worked in whose marker is not
  whole and the factory's; the head Score is the oldest, through every repeated,
  broken off or doubled migration.
- `NothingIsLeftInterrupted`, `TokenIsOnFile`: as long as services come one after
  the other, a serving one has settled the Runs of the dead and expects the token
  that is on file.
- `ForeignIsKept`: no script touches a registration of another checkout that it
  could list and that was there when it did. For what is registered after that, or
  could not be listed, it is not so (section 5).
- `FailureIsUndone`: an installation that fails, and whose undoing does not, leaves
  each registration as it found it, with the same exception, no directory it made,
  and no service on record that may run. A service whose record could not be
  written stays (section 5).
- `InstalledIsComplete`: what is reported as installed is what an uninstallation
  can find and remove, but for what another checkout has taken since it was
  verified.

The progress properties are below. The operators marked "Mutant" are deliberate
mistakes, each a variant of the definition that follows it: with it in place of
that definition the property it belongs to is violated.

### Bounds

- `Runs` is the only bound on the size of `RunLifecycle`. One Run already has two
  threads to interleave (its own and the event loop), every handler at every
  moment, and the ledger; two Runs add what one event loop between two threads
  can mix up. `MaxCrashes` is 2 so that a second crash meets what the first
  recovery left, also in the middle of a recovery, or in `RunPreparation` what
  the first left of an undo. A Run is prepared once because every preparation
  takes a fresh uuid; cleanups may be repeated without end.
- `MaxFaults` is 2 beside the two crashes: one failure in a thread and another in
  the `except` clause it leads to, or in the event loop meanwhile. `run_concurrent`
  has neither, for it asks what the two Runs do to each other.
- `Preflight`, `MaxLines` 2: unread lines of stdout. Two are enough for an answer
  behind a notification or behind the answer to an earlier request; the check
  reads one at a time and remembers nothing of those it ignores.
- `CaseGate`: two variants (`LastVariant` 1) have a source Case and a derived one;
  a third goes through the same steps as the second. Two generations are what two
  services, or one that dies and tries again, can be in at a time.
- `Simulator`, two calls: each may be asked again, so that a late request of one
  meets any state the other leaves. `Scoring` takes up two requests that are
  already on their way, and three files: an allowed one that git tracks, with two
  more versions, so that it is written to once before and once after any reading;
  a forbidden untracked one and one that git ignores, written to once
  (`LastVersion`), for a second write to them would meet the same readings.
- `ServiceStart`: two services, one of which may be started again while the other
  is at any step; up to three Scores of the one Run.
- `PortableLifecycle`: three scripts are install, what interferes, and what has
  to cope with it; they may spawn two services.
- `VerifierEvidence`: three puts by two threads on two addresses, so that an
  address is had again after a death that left its temporary file.

The theorems of section 4 remove these bounds in every module, `ServiceStart`'s
three Scores, the versions 0 and 1 a workspace begins with, the one write to
`Scoring`'s other files and the single Run of `RunPreparation` excepted.

### Fairness

`FairSpec` of `RunLifecycle` assumes that a thread that can step does (`WF` for
the steps of each Run's thread), that the handler the event loop is in goes on,
and that recovery goes on. The waiting for the scoring lock by a background
thread is strongly fair: `threading.Lock` promises no order, but the loop gives
the lock up for the whole of a request before it can ask again. It is not
assumed that anybody makes a request, that a service which died is started
again, that an Agent exits (the timeout ends the wait), or that the pipes of a
killed Agent close: the second `communicate()` has no timeout
(`B/runner.py:268`), so `ClaimedRunSettles` excepts a thread at `drain`. It and
`BackgroundScores` promise nothing once a call of the store has raised.

The others are weaker still. `Preflight`: the check itself takes its steps, and
its waits time out (`B/app_server_preflight.py:254`, `:328`); nothing is asked
of the App Server, which may be silent, chatter for ever or die. `CaseGate`: a
service takes the steps of its generation or dies; every git call of it has a
timeout. The two runs of the engine have one too, but the wait for the pipes after
it has none (`B/engine.py:189`): these steps (`RunVerifier`) get no fairness, and
`GenerationEnds` excepts a generation that stays in one of them.
`DockerEngine`: the service takes its steps, that wait excepted, and its timeout
comes; nothing is asked of the client, the daemon or the container, and
`RunReturns` excepts the same wait. In `RunLifecycle` a run of the engine
(`RunVerifier`) gets no fairness for the same reason: `BackgroundScores` and
`HandlerAnswers` hold if every such run ends (`EngineReturns`).
`subprocess.run`, with which git and the rest of docker are called, waits for a
killed process and on Windows for its pipes as well; the models take that wait as
bounded. `Simulator`:
a call that has been asked is answered or given up, for the fetch of the MCP
server has a two-minute limit. `CheckReturns`, `GenerationEnds`, `RunReturns`
and `CallsAreAnswered` are what follows. The remaining modules promise safety
only.

## 4. What is proved

The theorems hold for all values of the constants that satisfy the named
assumptions of the modules; the bounds on starts, puts, generations and imports
are any natural numbers.

| Module | Theorem | States | For |
|---|---|---|---|
| `RunLifecycleProofs` | `TypeCorrect` | `TypeOK` | any Runs, Issue Runs, crashes, failures of the store |
| | `VerifierIsExclusive` | `VerifierExclusive` | |
| | `VerdictsComeFromCleanExits` | `VerdictNeedsCleanExit` | |
| | `AgentsAreSupervised` | `AgentSupervised` | |
| | `InFlightRunsHaveThreads` | `InFlightHasThread` | |
| | `AgentsAreLaunchedOnce` | `AgentLaunchedOnce` | |
| | `LedgerIsImplemented` | `ImplementsLedger` | |
| `ScoringProofs` | `TasksAreJudgedAsFrozen` | `JudgedIsWhatWasFrozen` | any calls, versions, kind of Case |
| | `PathsAreJudgedAsFrozen` | `PathsAreTheFrozenOnes` | |
| | `PassesHaveTheFullScore` | `PassIsFullScore` | |
| | `EventsExplain`, `AnswersTellTheTruth` | `EventsExplainState`, `AnswersAreTrue` | the simulator alone, any calls |
| | `ScoredStateIsExplained` | the same beside a scoring | |
| `RunPreparationProofs` | `FailuresAreConfessed` | `ResetErrorConfesses` | either kind of Case, any crashes |
| | `CleanupsAreConfessed` | `CleanupConfesses` | |
| | `LifecycleIsImplemented` | `ImplementsLifecycle` | |
| `PreflightProofs` | `PassesAreProved` | `PassedMeansProved` | any length of the queue |
| | `PassesLeaveNothing` | `PassedLeavesNothing` | |
| `CaseGateProofs` | `CasesComeFromOneGeneration` | `CasesAreOneGeneration` | any services, variants, generations |
| | `PassedGatesLeaveNothing` | `PassedGateLeavesNothing` | |
| | `CasesStay` | `StoredCasesStay` | |
| `PortableLifecycleProofs` | `ForeignRegistrationsStay` | `ForeignIsKept` | any number of scripts and services |
| | `FailedInstallationsAreUndone` | `FailureIsUndone` | |
| | `InstallationsAreComplete` | `InstalledIsComplete` | |
| `SharedDataProofs` | `RootsAreOwned` | `RootIsOwned` | the start: any services and starts |
| | `HeadsAreTheOldest` | `HeadIsTheOldest` | |
| | `NothingStaysInterrupted` | `NothingIsLeftInterrupted` | |
| | `TokensAreOnFile` | `TokenIsOnFile` | |
| | `DocumentsHaveOneRecord`, `AnswersAreKept` | `OneRecordEach`, `AnsweredIsKept` | any services, texts, imports |
| | `SolutionsDescend` | `SolutionDescends` | recordings: any services |
| | `EventsAreRecorded`, `CompletionIsFinal`, `BlueprintsHaveEvidence` | `EventsAreKept`, `CompletedIsFinal`, `BlueprintHasEvidence` | one service |
| `VerifierEvidenceProofs` | `WholeIsStored`, `StoredContentStays` | `StoredIsWhole`, `StoredStays` | any threads, addresses, puts |
| | `TemporariesAreOwn` | no put finds its temporary file moved or cut by another's | |
| | `PassesAreReal` | `PassIsReal` | the same, with the engine |
| | `StoreIsImplemented` | the composition implements `ContentStore` | |
| | `EvidenceIsWhole` | `StoredIsWhole`, `StoredStays` of the composition | |

Each rests on an inductive invariant, `IInv` or, for a further state machine in the
module, `SimulatorInv`, `LibraryInv`, `DescentInv` and `RecordingInv`; few of the
properties are inductive on their own. `SharedDataProofs` is about what services
on one data directory share: it extends `ServiceStart` and has instances `Library`
of `ProtocolLibrary` and `Demo` of `Demonstration` with the same services.
`ScoringProofs` is about `Scoring` and the `Simulator` it extends.

The assumptions are those named in the modules: the constants that count are
naturals, and those that are sets are taken as they come, finite or not. Three
belong to the composition of `RunPreparation` with `RunLifecycle`: the event loop
is not a Run (`LoopAssumption`), and the numbers of crashes and of failures of the
store are natural numbers (`CrashesAssumption`, `FaultsAssumption`).

*RunLifecycle.* The properties speak of what is stored, and whether a store
keeps them depends on what the thread that stores has in its hands. `IInv` adds

- `PlacesOK`: which thread may be at which step, and that a service that does
  not serve has no thread;
- `LockOK`: a thread in the scorer has the lock of its Run to itself;
- `ScorerOK`: from its read on, the scorer's copy *is* the stored record
  (`KnowsRecord`, with one exception), the Run has no Score, and the status is
  that of the step;
- `RunnerOK`: the same for the runner, with what it knows of the Agent;
- `RecordOK`: what the status of a Run says of its Agent, Score and thread;
- `InStep`: what it says besides as long as no call of the store has raised.

The crucial point is that the two writers of a record, runner and scorer, hardly
overlap: while the runner has a Run, its status keeps the scorer out
(`NobodyJudges`), and once the scorer may enter, the runner has made its last
store. The exception is the `except` clause after the scorer (`B/app.py:365`),
which writes without the lock: the copy of a scoring request may then be the
record before that write, and `KnowsRecord` says which. Without a failure of the
store it is the record of an attempt that was cut short, whose Score could not be
made; a scorer that has gone on to the verifier knows the record. With a failure
it may be any, and `InStep` and the refinement end there.

The refinement goes action by action: a store either keeps the status or takes it
to a successor (`SavedStatusAdvances`), `SaveScore` is `Record`, the late write of
the `except` clause and the store of a request after it are `Overwrite`, the end
of a preparation is `Admit`, and every other step leaves the database alone.

*Scoring.* No reading is atomic. What carries the argument is the order of the
readings of one file: its version at the first digest is not newer than what the
verifier found, and that not newer than its version at the second digest
(`JudgedIsBetween`, `SecondIsLater`); if the first and the last are equal, so is
what lies between. A file that the first snapshot does not list was as in HEAD
when the second listed it, and therefore before. All of this is about the files
git lists (`Listable`); nothing is proved of those it ignores.

*The score.* `PassIsFullScore` compares a status that is the conjunction of rows
with a score that is a rounded sum of weights. The rows without weight are the
danger, for a failed one would cost nothing; there is one that can be in a
judged task, the integrity of the workspace, and it is never `fail`: it is
`pass`, or `error` and the task is not judged (`RowsTell`, `ScoreTells`). Lemmas
compute the sum for the weights of either kind of Case, which add up to 10, so
that the rounding does not matter for the full score.

*Simulator.* What a call may have done is told by where its request is
(`CallsOK`): it has one event at most, none while the request is on its way or
after a refusal, and just one after a success that is not a listing. With this
`EventsExplainState` is kept by every handler, and the answers follow. All calls
of a scoring are calls of the simulator, hence `ScoredStateIsExplained`.

*RunPreparation.* A part of the Run that is not as recorded must be named, and
what is true of a part depends on the steps that are over: `Built` for the
operations that make it, `Undone` and `Wiped` for the removals, each of which
has removed its part or has named it (`Named`); `Phases` says that the record is
the last thing a preparation writes and that a cleanup has one. The refinement
goes operation by operation, by what is there of the record and of each part
(`RecordThere`, `TreeThere`, `SimulatorThere`): the beginning of a preparation is
`PrepareBegin`, the operations that follow are stutters, the store of the record
is `PrepareReady` or `PrepareFailed`; the removals of a cleanup are those of
`RunLifecycle`, and a crash takes both from the same state.

*Preflight.* An answer in the queue is what became of its command, for good
(`AnswersAreOfCommands`); a request that is still to be sent has no command
(`NotSentYet`), so that no early answer can be taken for it; the requests before
the current one have ended as the sandbox has to make them end (`Passed`,
`Progress`). A file that exists was written inside the workspace
(`SentinelInside`), and once the removals were tried, a check with nothing
against it has none (`Cleaned`): its commands have all ended, and none is left to
write behind the removal.

*CaseGate.* A generation's names are its own (`NamesAreOwn`), its drafts are the
variants so far (`DraftsAreVariants`), and a gate with nothing against it holds
every part of its Case that is on the disk (`GoodGateHolds`): what a failed
operation left is held by nobody, but then something is against the gate.

*PortableLifecycle.* At each step an installation knows the registrations it
found, which of them it has made (`Registered`), that a service it has spawned
is the one on record until it has ended (`OwnService`), and, as long as no step of
the undoing has failed, what is already taken back (`Undone`). An uninstallation
removes only what it has read to be its own (`RemovesItsOwn`). What a script has
read is still so only for a name that it could list and that no other checkout has
taken since (`Sure`: neither `blind` nor `late`); the rest of the invariant, the
directory and the service, does not depend on that. The three
properties speak of steps; each follows from what the invariant says before the
step.

*ServiceStart.* Two invariants hold whoever else starts at the time
(`RootIsMarked`, `MigratedHasHead`, which also says that what a service between
the two statements of the migration has selected is still the oldest Score, for
one saved meanwhile makes its own head and the insertion is then ignored); two only while no services met (`OneIsUp`,
then `AloneRecovers`, `AloneHasToken`).

*ContentStore and VerifierEvidence.* Every temporary file has one writer, for no
two live values have one address (`OneWriter`), and what a put is about to move
is whole (`TemporaryAtStep`). `StoreIsImplemented` carries these theorems over
to the composition with the engine.

*ProtocolLibrary.* One connection at a time has the lock; what it would commit
is what is committed and its own record (`WriterSees`), and what a reader in an
old transaction sees was committed once (`ReaderSees`).

*Demonstration.* With one service the copy a handler works on is the recording
(`CopyIsCurrent`); so a completed recording stays completed with its events,
although a repeated completion changes its time. The descent of the solution is of the commits resolved, not
of the branches (`CommitsAreTested`).

What proving changed in the models: in `Preflight` the `CASE` for what the end of a
command does to the sentinel had arms that overlap, so that its value was TLC's
choice and not the code's; it is an `IF` now. Events of the `Simulator` name the
pull request they are about, as those of the code do, and the two invariants
speak of positions in the table where they had filtered sequences, whose values
only induction gives. For the same reason `Scoring` adds its four weights without
a fold. The refinement mapping of `RunPreparation` has named parts and an `IF` in
place of each `CASE`.

Every safety invariant, action property and refinement of a passing run has its
theorem. Only model-checked are

- liveness, for fairness and ENABLED are beyond the prover: `CheckReturns`,
  `GenerationEnds`, `RunReturns`, `CallsAreAnswered`, `ClaimedRunSettles`,
  `BackgroundScores` and `HandlerAnswers`;
- the configurations that are not runs, where no theorem is named above, the two
  type invariants of `ContentStore` and `DockerEngine` among them;
- every counterexample of section 5.

## 5. Where the code and its documents part

Two are runs of the project:

1. *A failed scoring request strands the Run* (`ValidationHasThread`). A
   completed Run that was left unscored (its service died between the stores
   at the end of the attempt or of the validation, and was restarted) is cleaned
   up and then scored by a request. `score_run`
   stores VALIDATING, `engine.run` raises because there is no workspace, the
   request is answered with 409, and the Run stays `validating` until a restart.
2. *A torn workspace is judged* (`VerdictOnWholeWorkspace`). Cleanup does not
   look at the status; a removal that fails halfway leaves a tree that the
   scorer takes for the work of the Agent.

The others have a configuration of their own, named after the property, with
which TLC finds the behaviour. Each property says what a document, a comment or
a message of the code says.

| Configuration, module | What happens |
|---|---|
| `PreparationIsRecovered.cfg`, `MCRunLifecycle` | The service dies while a Run is prepared (`B/factory.py:517`). `preparing` is never stored, so the recovery that `src/docs/architecture.md:65` promises for it finds nothing, and the files stay. |
| `CleanedMeansGone.cfg`, `RunPreparation` | `materialize_isolated` fails and its own removal too (`B/gitops.py:202`): the record has no path, a later cleanup is answered as done, and the directories stay. `src/docs/security-and-data.md:15`: `Both removed on explicit Run cleanup`. |
| `RemovesWhatItWrote.cfg`, `Preflight` | The patch file is written before the `try` block that removes it (`B/app_server_preflight.py:74`, `:87`), and a command that ends after the `finally` clause writes the sentinel again. `src/docs/security-and-data.md:57`: `a no-model write/read/delete preflight`. |
| `FailIsReal.cfg`, `DockerEngine` | Exit codes 125 to 127 are those of the docker client, with which no verifier ran; `B/engine.py:206` makes them a failed verifier. `src/docs/acceptance.md:95`: `Verifier infrastructure error is not converted into a failed task.` |
| `TimeoutLeavesNoContainer.cfg`, `DockerEngine` | `docker rm -f` is called once after the timeout (`B/engine.py:190`), nobody looks at its exit code, and the daemon may create the container after it. `src/docs/architecture.md:67`: `Docker timeout removes the named container before returning timeout evidence.` |
| `StateWasReached.cfg`, `Scoring` | `validate` reads the Issue and the pull requests in two SELECTs (`B/simulator.py:160`); a request between them makes the row pass on a state that never was. `B/scoring.py:280`: `Simulator database reached the required Issue-to-PR state.` |
| `RecoveryIsOfTheDead.cfg`, `ServiceStart` | A second `serve` recovers (`B/cli.py:78`) before it finds the port taken, and turns the live Runs of the first into `environment_error` with the text of `B/store.py:319`, `The factory restarted before this Run reached a terminal state.` |
| `TokensAgree.cfg`, `ServiceStart` | Two first starts both make a token (`B/auth.py:19`); the file may have that of the one that fails to bind, and the other refuses the Agents whose tokens the runner derives from the file (`B/runner.py:224`). |
| `MutationIsRejected.cfg`, `MCScoring` | `git ls-files --exclude-standard` (`B/gitops.py:323`) does not list what `.gitignore` names, and the Agent may edit that file: a file that is ignored is in neither snapshot, and a task is judged although it changed between them. `src/README.md:135`: `A post-verifier fingerprint rejects any unexpected workspace mutation before scoring`; `src/docs/security-and-data.md:53`: `The scorer fingerprints the workspace before and after verification and records a validator error instead of a task score if it changes.` |
| `CompletedIsFinal.cfg`, `Demonstration` | With two services, `append` saves a copy it read before the completion (`B/recording.py:18`): the recording is a draft again, which `recording.py:20` means to refuse. |
| `ReimportIsIdempotent.cfg`, `ProtocolLibrary` | The note on a truncated text makes it too long again (`B/redaction.py:28`): importing a stored document makes a second record. `src/docs/protocol.md:17`: `Reimporting the same sanitized document is idempotent.` |
| `ForeignIsNotChanged.cfg`, `PortableLifecycle` | An uninstallation looks at the registrations and removes them by name later (`src/scripts/portable-lifecycle.mjs:686`, `:702`), and an installation undoes by name what it has registered (`:608`) or, after a listing that failed (`:516`, `:570`), what was there before it. What another checkout has registered under that name is removed, of which the scripts say `it was not changed` (`:557`, `:563`). |
| `FailureLeavesNoService.cfg`, `PortableLifecycle` | The record of the spawned service cannot be written (`src/scripts/portable-lifecycle.mjs:450`): the undoing finds no record and does not stop it. `src/docs/installation.md:149`: `prove a failed first install removes every newly created product state`. |
| `UninstalledMeansGone.cfg`, `PortableLifecycle` | `startService` writes its record after it has spawned the service (`src/scripts/portable-lifecycle.mjs:450`); a failure between leaves a process that `uninstall` does not find. `src/docs/installation.md:120`: `This removes the plugin, marketplace, optional startup shortcut, and running service.` |

Modules and properties that hold but are not part of a run have configurations
for TLC too: `Demonstration.cfg` (one service: events kept, a
completed recording stays completed with its events, evidence, descent), `ProtocolLibrary.cfg` (one service leaves no transaction
open between requests), `LibraryTwoServices.cfg` (`OneRecordEach`,
`AnsweredIsKept`), `ContentStore.cfg` and `DockerEngine.cfg` (each alone, with
its type invariant).

## 6. Not modelled

`PROJECT.json` lists every component with its status.

- The Windows scripts (`src/scripts/*.ps1`) repeat the operations of the portable
  ones against the registry and shortcuts; `PortableLifecycle` is their model in
  outline, and no line of them is counted as modelled.
- The web workbench is a client of the HTTP API whose requests are all modelled.
- Release and packaging scripts, spikes, acceptance scripts and CI are outside of
  the running product.
- Pure functions on strings are left out where no property is about them:
  patterns of secrets, comparison of tokens, the codex command line, schema
  validation, the text of a Case. Where they may raise, the model raises.
- The pool of worker threads is the server library's: the model has a thread for
  every Run.
- The contents of files, prompts and events; synthetic fixtures; HTTP itself.

## 7. Running it

    tlc -workers 2 -config RunCrashes.cfg MCRunLifecycle.tla
    tlc -workers 2 -config CaseGate.cfg CaseGate.tla
    tlapm CaseGateProofs.tla

`RunConcurrent.cfg`, `ValidationHasThread.cfg`, `VerdictOnWholeWorkspace.cfg`
and `PreparationIsRecovered.cfg` belong to `MCRunLifecycle`, `Scoring.cfg` to
`MCScoring`, the other runs to the module they are named after; section 5 names
the modules of the remaining configurations. All modules need only the standard
and community modules and TLAPS.
