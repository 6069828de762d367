------------------------------ MODULE Preflight ------------------------------
(***************************************************************************)
(* CodexWorkspacePreflight.check: before the Agent of a Run is started, a  *)
(* short-lived App Server has to show that its sandbox lets a command write *)
(* the workspace of the Run and read neither the database of the product   *)
(* nor the correct commit.  The check talks to the App Server by numbered  *)
(* requests; a reader thread puts the lines of its stdout in a queue, with *)
(* an end marker when the pipe closes.  The commands the App Server starts *)
(* are processes of their own: they may end after an answer, after a       *)
(* timeout of the check, or after the App Server itself.                   *)
(***************************************************************************)
EXTENDS Naturals, Sequences

CONSTANT MaxLines   \* bound: lines of stdout that are not read yet

ASSUME MaxLinesAssumption == MaxLines \in Nat \ {0}

VARIABLES
    sandbox,    \* what the permission profile really enforces on this host
    step,       \* where the check is
    request,    \* number of the request it has sent last
    failed,     \* whether an exception is on its way out of the check
    outcome,    \* "passed", "failed", or "none" while the check goes on
    sentinel,   \* the file git apply makes: "absent", "exact" or "other"
    patch,      \* whether the patch file exists
    refused,    \* files whose removal raised
    server,     \* the App Server process
    lines,      \* the queue
    command,    \* command[i]: what became of request i in the App Server
    answered    \* the requests the App Server has answered

check == <<step, request, failed, outcome>>
disk  == <<sentinel, patch, refused>>
peer  == <<server, lines, command, answered>>
vars  == <<sandbox, check, disk, peer>>

(* initialize, git --version, git apply, hash-object of the database, show *)
(* of the correct commit.                                                   *)
Requests == 1 .. 5
Apply    == 3
Secrets  == {4, 5}

Sandboxes == [write : {"workspace", "elsewhere", "denied"}, readable : SUBSET Secrets]

(* An answer carries the exit code of the command, or an error, or a result *)
(* without an exit code.  "notice" is any line that asks for nothing:       *)
(* notifications, broken JSON, the numbers of other requests.  "ask" is a   *)
(* request of the App Server, an approval for instance.                     *)
Bodies == {"zero", "nonzero", "error", "invalid"}
Lines  == [kind : {"answer"}, id : Requests, body : Bodies]
             \cup [kind : {"notice", "ask", "end"}]

TypeOK ==
    /\ sandbox \in Sandboxes
    /\ step \in {"validate", "patch", "spawn", "send", "wait", "unlink", "stop", "reap", "over"}
    /\ request \in Requests
    /\ failed \in BOOLEAN
    /\ outcome \in {"none", "passed", "failed"}
    /\ sentinel \in {"absent", "exact", "other"}
    /\ patch \in BOOLEAN
    /\ refused \subseteq {"sentinel", "patch"}
    /\ server \in {"none", "alive", "exited", "closed"}
    /\ lines \in Seq(Lines) /\ Len(lines) <= MaxLines + 1
    /\ command \in [Requests -> {"none", "taken"} \cup Bodies]
    /\ answered \subseteq Requests

Init ==
    /\ sandbox \in Sandboxes
    /\ step = "validate" /\ request = 1 /\ failed = FALSE /\ outcome = "none"
    /\ sentinel = "absent" /\ patch = FALSE /\ refused = {}
    /\ server = "none" /\ lines = <<>>
    /\ command = [i \in Requests |-> "none"] /\ answered = {}

-----------------------------------------------------------------------------
(* The check.                                                               *)

Over(result) == step' = "over" /\ outcome' = result

(* raise inside the try block: on to the finally clause. *)
Raise == step' = "unlink" /\ failed' = TRUE

(* Paths are resolved and git cat-file looks for the correct commit. *)
Validate ==
    /\ step = "validate"
    /\ \/ step' = "patch" /\ UNCHANGED outcome
       \/ Over("failed")
    /\ UNCHANGED <<sandbox, request, failed, disk, peer>>

WritePatch ==
    /\ step = "patch"
    /\ \/ patch' = TRUE /\ step' = "spawn" /\ UNCHANGED outcome
       \/ patch' \in BOOLEAN /\ Over("failed")
    /\ UNCHANGED <<sandbox, request, failed, sentinel, refused, peer>>

(* The Git directory is resolved and the process started, both before the  *)
(* try block whose finally clause removes the files.                        *)
Spawn ==
    /\ step = "spawn"
    /\ \/ server' = "alive" /\ step' = "send" /\ UNCHANGED outcome
       \/ Over("failed") /\ UNCHANGED server
    /\ UNCHANGED <<sandbox, request, failed, disk, lines, command, answered>>

(* _write fails once the App Server is gone; before that the request is     *)
(* taken, or lost with the pipe.                                            *)
Send ==
    /\ step = "send"
    /\ \/ /\ step' = "wait"
          /\ command' = [command EXCEPT ![request] = IF server = "alive" THEN "taken" ELSE @]
          /\ UNCHANGED failed
       \/ server # "alive" /\ Raise /\ UNCHANGED command
    /\ UNCHANGED <<sandbox, request, outcome, disk, server, lines, answered>>

(* Mutant: the contents of the workspace are not looked at. *)
AcceptsExitCodes(body) ==
    /\ body \in {"zero", "nonzero"}
    /\ IF request \in Secrets THEN body = "nonzero" ELSE body = "zero"

(* What is required of the result of the current request: any for the       *)
(* handshake, exit code 0 for the permitted commands, the exact file after  *)
(* the write, another exit code for the forbidden reads.                    *)
Accepts(body) ==
    \/ request = 1 /\ body # "error"
    \/ request > 1 /\ request \notin Secrets /\ body = "zero"
         /\ (request = Apply => sentinel = "exact")
    \/ request \in Secrets /\ body = "nonzero"

MoreToAsk(i) == i < 5

(* lines.get, and what is done with the line. *)
Receive ==
    /\ step = "wait" /\ lines # <<>>
    /\ lines' = Tail(lines)
    /\ LET line == Head(lines) IN
       \/ /\ line.kind = "end" /\ Raise
          /\ UNCHANGED request
       \/ /\ \/ line.kind = "notice"
             \/ line.kind = "ask"
             \/ line.kind = "answer" /\ line.id # request
          /\ UNCHANGED <<step, request, failed>>
       \/ /\ line.kind = "ask" /\ server # "alive" /\ Raise
          /\ UNCHANGED request
       \/ /\ line.kind = "answer" /\ line.id = request
          /\ IF ~Accepts(line.body) THEN Raise /\ UNCHANGED request
             ELSE IF MoreToAsk(request) THEN /\ request' = request + 1 /\ step' = "send"
                                      /\ UNCHANGED failed
             ELSE step' = "unlink" /\ UNCHANGED <<request, failed>>
    /\ UNCHANGED <<sandbox, outcome, disk, server, command, answered>>

(* Mutant: every line that arrives starts the wait anew. *)
TimeoutOfTheLastLine ==
    /\ step = "wait" /\ lines = <<>>
    /\ Raise
    /\ UNCHANGED <<sandbox, request, outcome, disk, peer>>

(* The deadline of the request passes, whatever arrived in the meantime. *)
Timeout ==
    /\ step = "wait"
    /\ Raise
    /\ UNCHANGED <<sandbox, request, outcome, disk, peer>>

(* Mutant: a file that cannot be removed is left where it is. *)
UnlinkAtBest ==
    /\ step = "unlink"
    /\ \E kept \in SUBSET {"sentinel", "patch"} :
          /\ sentinel' = IF "sentinel" \in kept THEN sentinel ELSE "absent"
          /\ patch' = (patch /\ "patch" \in kept)
    /\ step' = "stop"
    /\ UNCHANGED <<sandbox, request, failed, outcome, refused, peer>>

(* The files that exist are removed; a removal that raises matters only     *)
(* when nothing else has.                                                   *)
Unlink ==
    /\ step = "unlink"
    /\ LET present == {f \in {"sentinel", "patch"} : IF f = "patch" THEN patch ELSE sentinel # "absent"} IN
       refused' \in SUBSET present
    /\ sentinel' = IF "sentinel" \in refused' THEN sentinel ELSE "absent"
    /\ patch' = ("patch" \in refused')
    /\ step' = "stop"
    /\ UNCHANGED <<sandbox, request, failed, outcome, peer>>

Result == IF failed \/ refused # {} THEN "failed" ELSE "passed"

(* _stop: nothing to do, or terminate and two seconds. *)
Stop ==
    /\ step = "stop"
    /\ \/ server # "alive" /\ Over(Result) /\ UNCHANGED server
       \/ server = "alive" /\ server' = "exited" /\ Over(Result)
       \/ server = "alive" /\ step' = "reap" /\ UNCHANGED <<server, outcome>>
    /\ UNCHANGED <<sandbox, request, failed, disk, lines, command, answered>>

(* kill and two more seconds, after which TimeoutExpired leaves the check.  *)
Reap ==
    /\ step = "reap"
    /\ \/ server' = (IF server = "alive" THEN "exited" ELSE server) /\ Over(Result)
       \/ server = "alive" /\ UNCHANGED server /\ Over("failed")
    /\ UNCHANGED <<sandbox, request, failed, disk, lines, command, answered>>

CheckStep ==
    \/ Validate \/ WritePatch \/ Spawn \/ Send \/ Receive \/ Timeout
    \/ Unlink \/ Stop \/ Reap

-----------------------------------------------------------------------------
(* The App Server, the commands it has started, and the reader thread.      *)

Put(line) == lines' = Append(lines, line)

(* A command ends: with exit code 0 only if it could do what it was asked   *)
(* to, with another one for that or any other reason, its time limit for    *)
(* instance; or the App Server finds another way to answer.                 *)
Finish(i) ==
    /\ command[i] = "taken"
    /\ \E body \in Bodies :
          /\ body = "zero" => /\ i = Apply => sandbox.write # "denied"
                              /\ i \in Secrets => i \in sandbox.readable
          /\ command' = [command EXCEPT ![i] = body]
    /\ sentinel' \in IF i # Apply \/ sandbox.write # "workspace" THEN {sentinel}
                     ELSE IF command'[i] = "zero" THEN {"exact"}
                     ELSE {sentinel, "exact", "other"}
    /\ UNCHANGED <<sandbox, check, patch, refused, server, lines, answered>>

Answer(i) ==
    /\ server = "alive" /\ command[i] \in Bodies /\ i \notin answered
    /\ Len(lines) < MaxLines
    /\ Put([kind |-> "answer", id |-> i, body |-> command[i]])
    /\ answered' = answered \cup {i}
    /\ UNCHANGED <<sandbox, check, disk, server, command>>

Chatter ==
    /\ server = "alive" /\ Len(lines) < MaxLines
    /\ \E kind \in {"notice", "ask"} : Put([kind |-> kind])
    /\ UNCHANGED <<sandbox, check, disk, server, command, answered>>

ServerDies ==
    /\ server = "alive"
    /\ server' = "exited"
    /\ UNCHANGED <<sandbox, check, disk, lines, command, answered>>

(* _read_stdout puts the marker behind the last line. *)
EndOfOutput ==
    /\ server = "exited"
    /\ server' = "closed"
    /\ Put([kind |-> "end"])
    /\ UNCHANGED <<sandbox, check, disk, command, answered>>

Next ==
    \/ CheckStep
    \/ \E i \in Requests : Finish(i) \/ Answer(i)
    \/ Chatter \/ ServerDies \/ EndOfOutput

Spec == Init /\ [][Next]_vars

-----------------------------------------------------------------------------
(* Safety. *)

(* The check passes only if the App Server really ran every command, the    *)
(* write ended with exit code 0 and reached the workspace itself, and both  *)
(* forbidden reads ended otherwise: no error, timeout, early end, missing   *)
(* result, or answer to something else lets an Agent start.                 *)
PassedMeansProved ==
    outcome = "passed" =>
        /\ command[2] = "zero" /\ command[Apply] = "zero"
        /\ sandbox.write = "workspace"
        /\ \A i \in Secrets : command[i] = "nonzero"

(* After a check that passed the workspace is as it was before, for good:   *)
(* both files are gone, the App Server has ended, and no command of it is   *)
(* left that could still write.  A late or a lost write, a removal or an    *)
(* end that fails make the check fail, and the Run an environment error.    *)
PassedLeavesNothing ==
    outcome = "passed" =>
        /\ sentinel = "absent" /\ ~patch
        /\ server # "alive"
        /\ \A i \in Requests : command[i] # "taken"

(* What the documentation says and the check does not keep: it is a         *)
(* "write/read/delete preflight", so that at the end a file it made is left *)
(* only if its removal was refused.                                         *)
RemovesWhatItWrote ==
    outcome # "none" =>
        /\ sentinel # "absent" => "sentinel" \in refused
        /\ patch => "patch" \in refused

-----------------------------------------------------------------------------
(* Liveness.  The check runs on; its waits have deadlines.  Nothing is      *)
(* asked of the App Server: it may be silent, chatter for ever or die.      *)
Fairness ==
    /\ WF_vars(Validate \/ WritePatch \/ Spawn \/ Send \/ Unlink \/ Stop \/ Reap)
    /\ WF_vars(Timeout)

FairSpec == Spec /\ Fairness

(* Every check comes to an end, and with it the thread of its Run goes on.  *)
CheckReturns == outcome = "none" ~> outcome # "none"
=============================================================================
