------------------------------ MODULE RunLedger ------------------------------
(***************************************************************************)
(* What the SQLite database promises about a Run, whoever writes to it: the *)
(* order in which the status of a Run may change, when a Score may appear,  *)
(* and that nothing about the Run moves once it has one.  RunLifecycle, the *)
(* service with its threads, handlers and crashes, is shown to implement    *)
(* this module.                                                             *)
(***************************************************************************)
CONSTANT Runs

VARIABLES
    status,     \* status[r]: the status in the stored RunRecord, or "absent"
    score       \* score[r]: the document behind the Run's score head

ledger == <<status, score>>

(* models.py RunStatus, and "absent" for a Run without a record. *)
Statuses == {"absent", "preparing", "ready", "queued", "running", "validating",
             "completed", "agent_timeout", "agent_crash", "reset_error",
             "environment_error"}

(* The statuses recover_interrupted_runs rewrites at the start of a service. *)
Interrupted == {"preparing", "queued", "running", "validating"}

NoScore == [execution |-> "none", task |-> "none", seen |-> "none"]

(* A Score document: the execution status, the task result, and the state  *)
(* of the workspace that the evidence of the verifier was collected from.  *)
Scores == [execution : {"completed", "validator_error", "agent_timeout", "agent_crash"},
           task      : {"pass", "fail", "not_scored"},
           seen      : {"none", "intact", "altered", "torn", "error"}]

(* The status of the Run that a Score with this execution status goes with. *)
StatusOf(s) ==
    IF s.execution = "validator_error" THEN "environment_error" ELSE s.execution

LedgerInit ==
    /\ status = [r \in Runs |-> "absent"]
    /\ score  = [r \in Runs |-> NoScore]

(* A Run enters the ledger once, ready for its Agent or failed for good. *)
Admit(r) ==
    /\ status[r] = "absent"
    /\ \E s \in {"ready", "reset_error"} : status' = [status EXCEPT ![r] = s]
    /\ UNCHANGED score

(* The attempts that ended before they could be judged.                     *)
CutShort == {"agent_timeout", "agent_crash"}

(* The way forward.  A completed attempt may be validated more than once,   *)
(* but only until it is scored.  An attempt that was cut short may turn     *)
(* into an environment error and back: the thread that could not score it   *)
(* writes without the lock under which a scoring request works.             *)
Successors(s) ==
    CASE s = "ready"      -> {"queued"}
      [] s = "queued"     -> {"running", "environment_error"}
      [] s = "running"    -> {"completed", "agent_timeout", "agent_crash", "environment_error"}
      [] s = "completed"  -> {"validating"}
      [] s = "validating" -> {"completed", "environment_error"}
      [] s \in CutShort   -> {"environment_error"}
      [] s = "environment_error" -> CutShort
      [] OTHER            -> {}

Advance(r) ==
    /\ score[r] = NoScore
    /\ \E s \in Successors(status[r]) : status' = [status EXCEPT ![r] = s]
    /\ UNCHANGED score

(* The late write of that thread: the status of a Run that is not scored    *)
(* for good, its Score says cut short, turns into an environment error.     *)
Overwrite(r) ==
    /\ status[r] \in CutShort
    /\ status' = [status EXCEPT ![r] = "environment_error"]
    /\ UNCHANGED score

(* The only Score of a Run is recorded when the Run says the same, or that  *)
(* late write has come just before.                                         *)
Record(r) ==
    /\ score[r] = NoScore
    /\ \E s \in Scores :
          /\ \/ StatusOf(s) = status[r]
             \/ s.execution \in CutShort /\ status[r] = "environment_error"
          /\ (s.task # "not_scored") => (s.execution = "completed")
          /\ score' = [score EXCEPT ![r] = s]
    /\ UNCHANGED status

LedgerNext == \E r \in Runs : Admit(r) \/ Advance(r) \/ Overwrite(r) \/ Record(r)

LedgerSpec == LedgerInit /\ [][LedgerNext]_ledger
=============================================================================
