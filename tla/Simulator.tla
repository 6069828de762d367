------------------------------ MODULE Simulator ------------------------------
(***************************************************************************)
(* The Issue/PR simulator of one Run and the MCP server through which the   *)
(* Agent calls it.  The MCP server handles its calls side by side, answers  *)
(* each by its id, and gives a fetch up after two minutes; the service      *)
(* handles a request in one go on its event loop and one transaction.  The  *)
(* request of a call that was given up may still reach the service.         *)
(***************************************************************************)
EXTENDS Naturals, Sequences

CONSTANT Calls      \* the tools/call messages of the Agent

VARIABLES
    database,       \* whether the database file is there
    status,         \* the status of the Issue
    prs,            \* the targets of the pull requests, by id
    events,         \* the events table; call is the request an event is due to,
                    \* pr the id of the pull request it is about, or 0
    call,           \* call[c]: what the Agent asked
    wire,           \* wire[c]: the HTTP exchange of the call
    answer          \* answer[c]: what the MCP server told the Agent

simulator == <<database, status, prs, events, call, wire, answer>>

Statuses == {"open", "done"}
Targets  == {"main", "other"}
Keys     == {"issue", "unknown"}

NoCall == [tool |-> "none", key |-> "issue", value |-> "open"]

Requests ==
    [tool : {"get_issue"}, key : Keys, value : {"open"}]
      \cup [tool : {"list_prs"}, key : {"issue"}, value : {"open"}]
      \cup [tool : {"create_pr"}, key : Keys, value : Targets]
      \cup [tool : {"update_status"}, key : Keys, value : Statuses]

Events == [call : Calls, type : {"issue_read", "pr_created", "issue_status_updated"},
           value : Statuses \cup Targets, pr : Nat]

SimulatorTypeOK ==
    /\ database \in BOOLEAN
    /\ status \in Statuses
    /\ prs \in Seq(Targets)
    /\ events \in Seq(Events)
    /\ call \in [Calls -> Requests \cup {NoCall}]
    /\ wire \in [Calls -> {"idle", "request", "success", "failure"}]
    /\ answer \in [Calls -> {"none", "success", "failure", "unavailable"}]

SimulatorInit ==
    /\ database = TRUE
    /\ status = "open" /\ prs = <<>> /\ events = <<>>
    /\ call = [c \in Calls |-> NoCall]
    /\ wire = [c \in Calls |-> "idle"]
    /\ answer = [c \in Calls |-> "none"]

-----------------------------------------------------------------------------
(* The MCP server. *)

Ask(c) ==
    /\ call[c] = NoCall
    /\ \E request \in Requests : call' = [call EXCEPT ![c] = request]
    /\ wire' = [wire EXCEPT ![c] = "request"]
    /\ UNCHANGED <<database, status, prs, events, answer>>

(* A call for another Run is refused before anything is sent. *)
AskForeign(c) ==
    /\ call[c] = NoCall
    /\ \E request \in Requests : call' = [call EXCEPT ![c] = request]
    /\ answer' = [answer EXCEPT ![c] = "failure"]
    /\ UNCHANGED <<database, status, prs, events, wire>>

Tell(c) ==
    /\ wire[c] \in {"success", "failure"} /\ answer[c] = "none"
    /\ answer' = [answer EXCEPT ![c] = wire[c]]
    /\ wire' = [wire EXCEPT ![c] = "idle"]
    /\ UNCHANGED <<database, status, prs, events, call>>

(* Mutant: a fetch is given up only when its request did not get through. *)
GiveUpUnanswered(c) ==
    /\ wire[c] = "failure" /\ answer[c] = "none"
    /\ answer' = [answer EXCEPT ![c] = "unavailable"]
    /\ UNCHANGED <<database, status, prs, events, call, wire>>

(* AbortSignal.timeout, or a connection that breaks. *)
GiveUp(c) ==
    /\ wire[c] # "idle" /\ answer[c] = "none"
    /\ answer' = [answer EXCEPT ![c] = "unavailable"]
    /\ UNCHANGED <<database, status, prs, events, call, wire>>

-----------------------------------------------------------------------------
(* The service. *)

Respond(c, outcome) ==
    /\ wire[c] = "request"
    /\ wire' = [wire EXCEPT ![c] = outcome]
    /\ UNCHANGED <<database, call, answer>>

Record(c, type, pr) ==
    events' = Append(events, [call |-> c, type |-> type, value |-> call[c].value, pr |-> pr])

GetIssue(c) ==
    /\ call[c].tool = "get_issue" /\ call[c].key = "issue" /\ database
    /\ Record(c, "issue_read", 0)
    /\ Respond(c, "success") /\ UNCHANGED <<status, prs>>

ListPullRequests(c) ==
    /\ call[c].tool = "list_prs" /\ database
    /\ Respond(c, "success") /\ UNCHANGED <<status, prs, events>>

(* Mutant: the event is a transaction of its own, and may fail. *)
CreatePrThenRecord(c) ==
    /\ call[c].tool = "create_pr" /\ call[c].key = "issue" /\ database
    /\ prs' = Append(prs, call[c].value)
    /\ Record(c, "pr_created", Len(prs')) \/ UNCHANGED events
    /\ Respond(c, "success") /\ UNCHANGED status

CreatePr(c) ==
    /\ call[c].tool = "create_pr" /\ call[c].key = "issue" /\ database
    /\ prs' = Append(prs, call[c].value)
    /\ Record(c, "pr_created", Len(prs'))
    /\ Respond(c, "success") /\ UNCHANGED status

UpdateIssueStatus(c) ==
    /\ call[c].tool = "update_status" /\ call[c].key = "issue" /\ database
    /\ status' = call[c].value
    /\ Record(c, "issue_status_updated", 0)
    /\ Respond(c, "success") /\ UNCHANGED prs

(* Mutant: the failure is met after the commit. *)
RefuseAfterCommit(c) ==
    /\ Respond(c, "failure")
    /\ Record(c, "issue_read", 0)
    /\ UNCHANGED <<status, prs>>

(* No such Issue, no database, no lock in time, no transaction.  A database *)
(* that can be written and committed to, and not read back right after, is  *)
(* left out: its error would be told of a call that has taken effect.       *)
Refuse(c) == Respond(c, "failure") /\ UNCHANGED <<status, prs, events>>

Handle(c) == GetIssue(c) \/ ListPullRequests(c) \/ CreatePr(c) \/ UpdateIssueStatus(c) \/ Refuse(c)

(* The cleanup of the Run removes the database with its directory. *)
CleanUp ==
    /\ database
    /\ database' = FALSE
    /\ UNCHANGED <<status, prs, events, call, wire, answer>>

Talk == \E c \in Calls : Ask(c) \/ AskForeign(c) \/ Tell(c) \/ GiveUp(c) \/ Handle(c)

SimulatorNext == Talk \/ CleanUp

SimulatorSpec ==
    /\ SimulatorInit /\ [][SimulatorNext]_simulator
    /\ \A c \in Calls : WF_simulator(Tell(c) \/ GiveUp(c))

-----------------------------------------------------------------------------
Of(type) == {i \in DOMAIN events : events[i].type = type}

EffectsOf(c) == {i \in DOMAIN events : events[i].call = c}

(* The events tell how the Issue and the pull requests came to be what they *)
(* are: whatever fails, breaks off or is repeated, no write goes unrecorded *)
(* and no event is of a write that did not happen.  Each pull request has   *)
(* its one event, in their order, and the status is that of the last one.   *)
EventsExplainState ==
    LET created == Of("pr_created")
        updated == Of("issue_status_updated")
    IN  /\ {events[i].pr : i \in created} = DOMAIN prs
        /\ \A i \in created : events[i].value = prs[events[i].pr]
        /\ \A i, j \in created : i < j => events[i].pr < events[j].pr
        /\ updated = {} => status = "open"
        /\ \A i \in updated : (\A j \in updated : j <= i) => status = events[i].value

(* What the Agent is told of a call is true of that call: after a success   *)
(* its effect was recorded once, after a refusal it never is; a call that   *)
(* was given up may take effect, but never twice.                           *)
AnswersAreTrue ==
    \A c \in Calls :
        /\ \A i, j \in EffectsOf(c) : i = j
        /\ answer[c] = "success" => (EffectsOf(c) = {} <=> call[c].tool = "list_prs")
        /\ answer[c] = "failure" => EffectsOf(c) = {}

(* Every call is answered, by the service or by the clock.                  *)
CallsAreAnswered == \A c \in Calls : call[c] # NoCall ~> answer[c] # "none"
=============================================================================
