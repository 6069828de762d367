----------------------------- MODULE DockerEngine -----------------------------
(***************************************************************************)
(* DockerEngine.run: one verifier in one container.  The service starts the *)
(* docker client and waits for it; the client asks the daemon to create and *)
(* start the container, and ends with the exit code of the container or one *)
(* of its own.  The container is the daemon's: it outlives a client that is *)
(* killed or loses its connection, and a request that the client has sent   *)
(* may be carried out after the client has gone.                            *)
(***************************************************************************)

VARIABLES
    pc,             \* the step of run
    image,          \* whether the daemon has the image of the Case
    client,         \* the docker run process
    request,        \* what the client has asked of the daemon and not got yet
    container,      \* "exited" with the verdict of the verifier in it
    verdict,        \* what the verifier said: "none", "pass" or "fail"
    result          \* the status of the ProcessResult, or "raised"

vars == <<pc, image, client, request, container, verdict, result>>

TypeOK ==
    /\ pc \in {"resolve", "inspect", "pull", "popen", "communicate", "drain", "remove", "over"}
    /\ image \in BOOLEAN
    /\ client \in {"none", "alive", "zero", "nonzero", "killed"}
    /\ request \in {"none", "create", "start"}
    /\ container \in {"none", "created", "running", "exited", "removed"}
    /\ verdict \in {"none", "pass", "fail"}
    /\ result \in {"none", "pass", "fail", "error", "timeout", "raised"}

Init ==
    /\ pc = "resolve" /\ image \in BOOLEAN
    /\ client = "none" /\ request = "none"
    /\ container = "none" /\ verdict = "none" /\ result = "none"

-----------------------------------------------------------------------------
(* The service. *)

Goto(step) == pc' = step /\ UNCHANGED result

Return(status) == pc' = "over" /\ result' = status

(* A docker command, run to its end by LocalTestEngine: exit code 0, another *)
(* one, not to be started, not through in time; its output, or what became  *)
(* of it by then, may be no text, which nobody catches.                     *)
CommandResults == {"pass", "fail", "error", "timeout", "raised"}

(* What run makes of a command that did not do its work.                    *)
Unprepared(status) == Return(IF status = "raised" THEN "raised" ELSE "error")

Resolve ==
    /\ pc = "resolve"
    /\ Goto("inspect") \/ Return("raised")
    /\ UNCHANGED <<image, client, request, container, verdict>>

(* Mutant: the result of the inspection is the result of the verifier. *)
InspectAndReturn ==
    /\ pc = "inspect"
    /\ IF image THEN Return("pass") ELSE Goto("pull")
    /\ UNCHANGED <<image, client, request, container, verdict>>

(* docker image inspect fails for an absent image, or for any other reason; *)
(* if it cannot be run, or not in time, the image is not pulled.            *)
Inspect ==
    /\ pc = "inspect"
    /\ \E status \in CommandResults :
          /\ status = "pass" => image
          /\ CASE status = "pass" -> Goto("popen")
               [] status = "fail" -> Goto("pull")
               [] OTHER -> Unprepared(status)
    /\ UNCHANGED <<image, client, request, container, verdict>>

(* A pull that fails, or is given up, may have had its effect.              *)
Pull ==
    /\ pc = "pull"
    /\ \E status \in CommandResults :
          /\ image' \in {image, TRUE} /\ (status = "pass" => image')
          /\ IF status = "pass" THEN Goto("popen") ELSE Unprepared(status)
    /\ UNCHANGED <<client, request, container, verdict>>

Popen ==
    /\ pc = "popen"
    /\ \/ client' = "alive" /\ request' = "create" /\ Goto("communicate")
       \/ Return("error") /\ UNCHANGED <<client, request>>
    /\ UNCHANGED <<image, container, verdict>>

(* Every exit code but zero is a failed verifier.  Output that is no text   *)
(* makes communicate raise what run does not catch.                         *)
CollectExit ==
    /\ pc = "communicate" /\ client \in {"zero", "nonzero"}
    /\ Return(IF client = "zero" THEN "pass" ELSE "fail") \/ Return("raised")
    /\ UNCHANGED <<image, client, request, container, verdict>>

(* Mutant: the client is waited for as long as it takes. *)
NeverTimeout ==
    /\ pc = "communicate" /\ client \in {"zero", "nonzero"}
    /\ Goto("drain")
    /\ UNCHANGED <<image, client, request, container, verdict>>

(* The time of the verifier is up; the client may just have ended. *)
Timeout ==
    /\ pc = "communicate"
    /\ client' = IF client = "alive" THEN "killed" ELSE client
    /\ Goto("drain")
    /\ UNCHANGED <<image, request, container, verdict>>

(* The second communicate, without a time limit: it waits for whoever holds *)
(* the pipes, and raises as the first one, past the removal.                *)
Drain ==
    /\ pc = "drain"
    /\ Goto("remove") \/ Return("raised")
    /\ UNCHANGED <<image, client, request, container, verdict>>

(* docker rm -f: it removes the container, does not find one, or fails      *)
(* without anyone looking at its exit code; or it cannot be run, or not     *)
(* within its 30 seconds, when it may still have had its effect.            *)
RemoveContainer ==
    /\ pc = "remove"
    /\ \/ container' = (IF container = "none" THEN "none" ELSE "removed") /\ Return("timeout")
       \/ container' = container /\ Return("timeout")
       \/ /\ container' \in {container, IF container = "none" THEN "none" ELSE "removed"}
          /\ Return("error") \/ Return("raised")
    /\ UNCHANGED <<image, client, request, verdict>>

RunStep ==
    \/ Resolve \/ Inspect \/ Pull \/ Popen \/ CollectExit \/ Timeout \/ Drain \/ RemoveContainer

-----------------------------------------------------------------------------
(* The client and the daemon. *)

(* The daemon carries a request out, for a client that has gone as well.    *)
Create ==
    /\ request = "create" /\ container = "none"
    /\ container' = "created"
    /\ request' = IF client = "alive" THEN "start" ELSE "none"
    /\ UNCHANGED <<pc, image, client, verdict, result>>

Start ==
    /\ request = "start"
    /\ request' = "none"
    /\ container' = IF container = "created" THEN "running" ELSE container
    /\ UNCHANGED <<pc, image, client, verdict, result>>

(* A request dies with its client, or is refused: no such command, no       *)
(* memory, no space.  Exit codes 125 to 127 of the client; --rm removes a   *)
(* container that was created.                                              *)
Refuse ==
    /\ request # "none"
    /\ request' = "none"
    /\ IF client = "alive"
       THEN /\ client' = "nonzero"
            /\ container' = IF container = "created" THEN "removed" ELSE container
       ELSE UNCHANGED <<client, container>>
    /\ UNCHANGED <<pc, image, verdict, result>>

(* The verifier ends, or the kernel ends it. *)
VerifierEnds ==
    /\ container = "running"
    /\ container' = "exited"
    /\ verdict' \in {"none", "pass", "fail"}
    /\ UNCHANGED <<pc, image, client, request, result>>

(* --rm: the daemon removes the container before the client ends. *)
AutoRemove ==
    /\ container = "exited"
    /\ container' = "removed"
    /\ UNCHANGED <<pc, image, client, request, verdict, result>>

ClientReports ==
    /\ client = "alive" /\ request = "none" /\ container = "removed"
    /\ client' = IF verdict = "pass" THEN "zero" ELSE "nonzero"
    /\ UNCHANGED <<pc, image, request, container, verdict, result>>

ClientLosesDaemon ==
    /\ client = "alive"
    /\ client' = "nonzero"
    /\ UNCHANGED <<pc, image, request, container, verdict, result>>

Next ==
    \/ RunStep
    \/ Create \/ Start \/ Refuse \/ VerifierEnds \/ AutoRemove \/ ClientReports \/ ClientLosesDaemon

Spec == Init /\ [][Next]_vars

-----------------------------------------------------------------------------
(* pass is said only of a verifier that ran on the image of the Case, ended *)
(* with exit code 0 and whose container is gone, whatever the client, the   *)
(* daemon and the clock did to one another.                                 *)
PassIsReal == result = "pass" => image /\ verdict = "pass" /\ container = "removed"

Fairness ==
    WF_vars(Resolve \/ Inspect \/ Pull \/ Popen \/ CollectExit \/ RemoveContainer) /\ WF_vars(Timeout)

FairSpec == Spec /\ Fairness

(* run comes back, whatever becomes of the client and the container, unless *)
(* the pipes of a client that was killed stay open for ever.                *)
RunReturns == result = "none" ~> (result # "none" \/ [](pc = "drain"))

-----------------------------------------------------------------------------
(* What the documentation says and the engine does not keep. *)

(* A failed verifier is a verifier that failed ("Verifier infrastructure    *)
(* error is not converted into a failed task").                             *)
FailIsReal == result = "fail" => verdict = "fail"

(* After a timeout the verifier has stopped ("Docker timeout removes the named *)
(* container before returning timeout evidence").                           *)
TimeoutLeavesNoContainer == result = "timeout" => container # "running"
=============================================================================
