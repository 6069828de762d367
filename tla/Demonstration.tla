---------------------------- MODULE Demonstration ----------------------------
(***************************************************************************)
(* From a recorded workflow to an Issue-to-PR Blueprint.  A service reads a *)
(* recording, changes the copy and saves it whole; a Blueprint is made from *)
(* a completed recording and two revisions of a repository that its owner   *)
(* goes on working in.  A handler holds the event loop of its service from  *)
(* end to end, so that handlers of two services interleave and those of one *)
(* do not.                                                                  *)
(***************************************************************************)
EXTENDS Naturals, Sequences, SequencesExt

CONSTANTS
    Services,       \* the services on the data directory
    MaxEvents       \* bound: the events of the recording

VARIABLES
    recording,      \* the recordings row
    branches,       \* the commit each of the two revisions names
    blueprint,      \* the commits of the Blueprint made from the recording
    pc,             \* pc[s]: what the event loop is at
    copy,           \* copy[s]: the recording the handler has read
    commits,        \* commits[s]: the revisions inspect_repository has resolved
    acknowledged    \* (history) the events answered with 200

vars == <<recording, branches, blueprint, pc, copy, commits, acknowledged>>

Required == {"issue_read", "repository_changed", "pr_created", "issue_status_updated"}

(* Two times a clock may show, in whatever order. *)
Times == {"one time", "another"}
Never == "never"

NoRecording == [status |-> "none", events |-> <<>>, completed_at |-> Never]

(* Two commits, the first the parent of the second, and one of another line. *)
Commits == {"first", "second", "aside"}
Ancestor(a, b) == a = b \/ (a = "first" /\ b = "second")

NoCommit  == "none"
NoCommits == [base |-> NoCommit, solution |-> NoCommit]

TypeOK ==
    /\ recording.status \in {"none", "recording", "completed"}
    /\ recording.events \in Seq(Required) /\ Len(recording.events) <= MaxEvents
    /\ recording.completed_at \in Times \cup {Never}
    /\ recording.status = "completed" <=> recording.completed_at # Never
    /\ branches \in [base : Commits, solution : Commits]
    /\ blueprint \in [base : Commits \cup {NoCommit}, solution : Commits \cup {NoCommit}]
    /\ pc \in [Services -> {"idle", "append", "complete", "base", "solution", "ancestor", "diff"}]
    /\ \A s \in Services :
          /\ copy[s].status \in {"none", "recording", "completed"}
          /\ copy[s].events \in Seq(Required)
          /\ copy[s].completed_at \in Times \cup {Never}
    /\ commits \in [Services -> [base : Commits \cup {NoCommit}, solution : Commits \cup {NoCommit}]]
    /\ acknowledged \in Seq(Required)

Init ==
    /\ recording = NoRecording
    /\ branches \in [base : Commits, solution : Commits]
    /\ blueprint = NoCommits
    /\ pc = [s \in Services |-> "idle"]
    /\ copy = [s \in Services |-> NoRecording]
    /\ commits = [s \in Services |-> NoCommits]
    /\ acknowledged = <<>>

Goto(s, step) == pc' = [pc EXCEPT ![s] = step]

Observed(r) == {r.events[i] : i \in DOMAIN r.events}

-----------------------------------------------------------------------------
StartRecording(s) ==
    /\ pc[s] = "idle" /\ recording = NoRecording
    /\ recording' = [NoRecording EXCEPT !.status = "recording"]
    /\ UNCHANGED <<branches, blueprint, pc, copy, commits, acknowledged>>

GetRecording(s, step) ==
    /\ pc[s] = "idle" /\ recording # NoRecording
    /\ copy' = [copy EXCEPT ![s] = recording]
    /\ Goto(s, step)
    /\ UNCHANGED <<recording, branches, blueprint, commits, acknowledged>>

AppendEvent(s) ==
    /\ pc[s] = "append"
    /\ Goto(s, "idle")
    /\ IF copy[s].status = "recording"
       THEN /\ Len(copy[s].events) < MaxEvents
            /\ \E type \in Required :
                  /\ recording' = [copy[s] EXCEPT !.events = Append(@, type)]
                  /\ acknowledged' = Append(acknowledged, type)
       ELSE UNCHANGED <<recording, acknowledged>>
    /\ UNCHANGED <<branches, blueprint, copy, commits>>

(* The copy as it is completed at the time of the call. *)
CompletedNow(s) == {[copy[s] EXCEPT !.status = "completed", !.completed_at = t] : t \in Times}

(* Refused without all events or the user's confirmation.  What is          *)
(* completed may be completed again, and gets the time of the last call.    *)
Complete(s) ==
    /\ pc[s] = "complete"
    /\ Goto(s, "idle")
    /\ recording' \in {recording} \cup
          (IF Required \subseteq Observed(copy[s]) THEN CompletedNow(s) ELSE {})
    /\ UNCHANGED <<branches, blueprint, copy, commits, acknowledged>>

-----------------------------------------------------------------------------
(* create_blueprint *)

Raise(s) ==
    /\ pc[s] \in {"base", "solution", "ancestor", "diff"}
    /\ Goto(s, "idle")
    /\ commits' = [commits EXCEPT ![s] = NoCommits]
    /\ UNCHANGED <<recording, branches, blueprint, copy, acknowledged>>

Resolve(s) ==
    /\ \/ /\ pc[s] = "base"
          /\ copy[s].status = "completed" /\ Required \subseteq Observed(copy[s])
          /\ commits' = [commits EXCEPT ![s].base = branches.base] /\ Goto(s, "solution")
       \/ /\ pc[s] = "solution"
          /\ commits' = [commits EXCEPT ![s].solution = branches.solution] /\ Goto(s, "ancestor")
    /\ UNCHANGED <<recording, branches, blueprint, copy, acknowledged>>

CheckAncestor(s) ==
    /\ pc[s] = "ancestor"
    /\ commits[s].base # commits[s].solution /\ Ancestor(commits[s].base, commits[s].solution)
    /\ Goto(s, "diff")
    /\ UNCHANGED <<recording, branches, blueprint, copy, commits, acknowledged>>

(* git diff of the two commits, and the record. *)
SaveBlueprint(s) ==
    /\ pc[s] = "diff"
    /\ blueprint' = commits[s]
    /\ commits' = [commits EXCEPT ![s] = NoCommits]
    /\ Goto(s, "idle")
    /\ UNCHANGED <<recording, branches, copy, acknowledged>>

(* The owner of the repository commits, rebases, resets. *)
MoveBranch ==
    /\ \E name \in {"base", "solution"}, c \in Commits : branches' = [branches EXCEPT ![name] = c]
    /\ UNCHANGED <<recording, blueprint, pc, copy, commits, acknowledged>>

Die(s) ==
    /\ pc[s] # "idle"
    /\ Goto(s, "idle")
    /\ commits' = [commits EXCEPT ![s] = NoCommits]
    /\ UNCHANGED <<recording, branches, blueprint, copy, acknowledged>>

Next ==
    \/ MoveBranch
    \/ \E s \in Services :
          \/ StartRecording(s)
          \/ \E step \in {"append", "complete", "base"} : GetRecording(s, step)
          \/ AppendEvent(s) \/ Complete(s)
          \/ Resolve(s) \/ CheckAncestor(s) \/ SaveBlueprint(s) \/ Raise(s) \/ Die(s)

Spec == Init /\ [][Next]_vars

-----------------------------------------------------------------------------
(* Every event that was accepted is in the recording, in its order.         *)
EventsAreKept == recording.events = acknowledged

(* A completed recording stays completed, with the events it was completed  *)
(* with, whoever appends or completes again: only the time may change.      *)
CompletedIsFinal ==
    [][recording.status = "completed"
         => recording'.status = "completed" /\ recording'.events = recording.events]_recording

(* A Blueprint rests on a completed recording with all its evidence.        *)
BlueprintHasEvidence ==
    blueprint # NoCommits => recording.status = "completed" /\ Required \subseteq Observed(recording)

(* The commits of a Blueprint are a base and a solution that descends from  *)
(* it, whatever its owner did to the branches while they were inspected.    *)
SolutionDescends ==
    blueprint # NoCommits => blueprint.base = "first" /\ blueprint.solution = "second"
=============================================================================
