--------------------------- MODULE PreflightProofs ---------------------------
(***************************************************************************)
(* A check that passed proved the sandbox and left nothing behind, for any  *)
(* length of the queue and whatever the App Server, its commands, the pipe  *)
(* and the clock do to one another.  The argument: an answer in the queue   *)
(* is what became of its command, for good; the requests before the current *)
(* one have ended as required; and a file git apply made lies inside the    *)
(* workspace.  A request that passed is of a command that has ended, so     *)
(* that nothing can be written behind the removal.                          *)
(***************************************************************************)
EXTENDS Preflight, TLAPS

AnswersAreOfCommands ==
    \A n \in DOMAIN lines :
        lines[n].kind = "answer" => command[lines[n].id] = lines[n].body /\ lines[n].body \in Bodies

NotSentYet ==
    \A i \in Requests :
        i > request \/ (i = request /\ step \in {"validate", "patch", "spawn", "send"}) => command[i] = "none"

SentinelInside == sentinel # "absent" => sandbox.write = "workspace"

(* What the check has established of a request it is done with.             *)
Passed(i) ==
    /\ command[i] \in Bodies
    /\ i \in {2, Apply} => command[i] = "zero"
    /\ i = Apply => sandbox.write = "workspace"
    /\ i \in Secrets => command[i] = "nonzero"

Ending == {"unlink", "stop", "reap", "over"}

Progress ==
    /\ \A i \in Requests : i < request => Passed(i)
    /\ step \in Ending /\ failed = FALSE /\ outcome # "failed" => \A i \in Requests : Passed(i)

Flow ==
    /\ failed = TRUE => step \in Ending
    /\ outcome # "none" <=> step = "over"
    /\ outcome = "passed" => failed = FALSE /\ refused = {} /\ server # "alive"
    /\ refused # {} => step \in {"stop", "reap", "over"}
    /\ step \in {"validate", "patch", "spawn"} => server = "none"

Cleaned ==
    step \in {"stop", "reap", "over"} /\ failed = FALSE /\ refused = {} /\ outcome # "failed" =>
        sentinel = "absent" /\ ~patch

(* Only the end marker may be one line more. *)
QueueIsBounded == server # "closed" => Len(lines) <= MaxLines

IInv ==
    /\ TypeOK /\ QueueIsBounded /\ AnswersAreOfCommands /\ NotSentYet /\ SentinelInside
    /\ Progress /\ Flow /\ Cleaned

-----------------------------------------------------------------------------
LEMMA Queue ==
    ASSUME NEW S, NEW s \in Seq(S), NEW e \in S
    PROVE  /\ Append(s, e) \in Seq(S) /\ Len(Append(s, e)) = Len(s) + 1 /\ Len(s) \in Nat
           /\ \A n \in DOMAIN Append(s, e) : Append(s, e)[n] = e \/ (n \in DOMAIN s /\ Append(s, e)[n] = s[n])
           /\ s # <<>> => /\ Head(s) \in S /\ Head(s) = s[1] /\ 1 \in DOMAIN s
                          /\ Tail(s) \in Seq(S) /\ Len(Tail(s)) = Len(s) - 1
                          /\ \A n \in DOMAIN Tail(s) : n + 1 \in DOMAIN s /\ Tail(s)[n] = s[n + 1]
  OBVIOUS

LEMMA InitInvariant == Init => IInv
<1> SUFFICES ASSUME Init PROVE IInv
  OBVIOUS
<1>1. TypeOK /\ QueueIsBounded
  <2>1. lines \in Seq(Lines) /\ Len(lines) = 0
    BY DEF Init
  <2>2. MaxLines \in Nat /\ Len(lines) <= MaxLines /\ Len(lines) <= MaxLines + 1
    BY <2>1, MaxLinesAssumption
  <2>3. command \in [Requests -> {"none", "taken"} \cup Bodies] /\ 1 \in Requests
    BY DEF Init, Requests
  <2> QED BY <2>1, <2>2, <2>3 DEF Init, TypeOK, QueueIsBounded
<1>2. AnswersAreOfCommands /\ NotSentYet /\ SentinelInside
  BY DEF Init, AnswersAreOfCommands, NotSentYet, SentinelInside
<1>3. Progress /\ Flow /\ Cleaned
  BY DEF Init, Progress, Flow, Cleaned, Ending, Requests
<1> QED BY <1>1, <1>2, <1>3 DEF IInv

(* A step that leaves the queue and the commands alone.                     *)
LEMMA QuietKeeps ==
    ASSUME IInv, UNCHANGED <<lines, command>>
    PROVE  AnswersAreOfCommands'
BY DEF IInv, AnswersAreOfCommands

LEMMA BeginKeeps ==
    ASSUME IInv, Validate \/ WritePatch \/ Spawn
    PROVE  IInv'
<1> USE DEF IInv, Over
<1>1. /\ UNCHANGED <<sandbox, request, failed, sentinel, refused, lines, command, answered>>
      /\ step \in {"validate", "patch", "spawn"} /\ failed = FALSE /\ outcome = "none" /\ refused = {}
      /\ patch' \in BOOLEAN /\ server = "none"
      /\ \/ step' \in {"patch", "spawn", "send"} /\ outcome' = "none"
         \/ step' = "over" /\ outcome' = "failed"
      /\ step' \in {"patch", "spawn"} => server' = "none"
      /\ server' \in {"none", "alive"}
  BY DEF Validate, WritePatch, Spawn, disk, peer, Flow, TypeOK, Ending
<1>2. TypeOK' /\ QueueIsBounded'
  BY <1>1 DEF TypeOK, QueueIsBounded
<1>3. AnswersAreOfCommands' /\ NotSentYet' /\ SentinelInside'
  BY <1>1, QuietKeeps DEF NotSentYet, SentinelInside
<1>4. Progress'
  BY <1>1 DEF Progress, Passed, Ending
<1>5. Flow' /\ Cleaned'
  BY <1>1 DEF Flow, Cleaned, Ending
<1> QED BY <1>2, <1>3, <1>4, <1>5

LEMMA SendKeeps ==
    ASSUME IInv, Send
    PROVE  IInv'
<1> USE DEF IInv, Raise, disk
<1>1. /\ UNCHANGED <<sandbox, request, outcome, sentinel, patch, refused, server, lines, answered>>
      /\ step = "send" /\ failed = FALSE /\ outcome = "none" /\ refused = {} /\ command[request] = "none"
      /\ \/ step' = "wait" /\ UNCHANGED failed
         \/ step' = "unlink" /\ failed' = TRUE
      /\ request \in Requests /\ failed' \in BOOLEAN
      /\ command' \in [Requests -> {"none", "taken"} \cup Bodies]
      /\ \A i \in Requests : i # request => command'[i] = command[i]
  BY DEF Send, Flow, TypeOK, Ending, NotSentYet
<1>2. TypeOK' /\ QueueIsBounded'
  BY <1>1 DEF TypeOK, QueueIsBounded
<1>3. AnswersAreOfCommands'
  <2> SUFFICES ASSUME NEW n \in DOMAIN lines, lines[n].kind = "answer"
               PROVE  command'[lines[n].id] = lines[n].body /\ lines[n].body \in Bodies
    BY <1>1 DEF AnswersAreOfCommands
  <2>1. command[lines[n].id] = lines[n].body /\ lines[n].body \in Bodies
    BY DEF AnswersAreOfCommands
  <2>2. lines[n] \in Lines
    BY DEF TypeOK
  <2>3. lines[n].id \in Requests
    BY <2>2 DEF Lines
  <2> QED BY <1>1, <2>1, <2>3 DEF Bodies
<1>4. NotSentYet'
  BY <1>1 DEF NotSentYet, Requests
<1>5. SentinelInside' /\ Flow' /\ Cleaned'
  BY <1>1 DEF SentinelInside, Flow, Cleaned, Ending
<1>6. Progress'
  BY <1>1 DEF Progress, Passed, Ending, Requests
<1> QED BY <1>2, <1>3, <1>4, <1>5, <1>6

(* The answer that is accepted is what became of the command.               *)
LEMMA AcceptedHasPassed ==
    ASSUME IInv, NEW line, line.kind = "answer", line.id = request, Accepts(line.body),
           command[line.id] = line.body, line.body \in Bodies
    PROVE  Passed(request)
<1>1. request \in Requests
  BY DEF IInv, TypeOK
<1>2. request = Apply => sentinel = "exact" /\ line.body = "zero"
  BY DEF Accepts, Secrets, Apply
<1>3. request = 2 => line.body = "zero"
  BY DEF Accepts, Secrets
<1>4. request \in Secrets => line.body = "nonzero"
  BY DEF Accepts, Secrets
<1> QED BY <1>1, <1>2, <1>3, <1>4 DEF IInv, Passed, SentinelInside

LEMMA ReceiveKeeps ==
    ASSUME IInv, Receive
    PROVE  IInv'
<1> USE DEF IInv, disk
<1> DEFINE line == Head(lines)
<1>1. /\ step = "wait" /\ lines # <<>> /\ lines' = Tail(lines)
      /\ UNCHANGED <<sandbox, outcome, sentinel, patch, refused, server, command, answered>>
      /\ failed = FALSE /\ outcome = "none" /\ refused = {} /\ request \in Requests
      /\ lines \in Seq(Lines)
  BY DEF Receive, Flow, TypeOK, Ending
<1>2. /\ line \in Lines /\ line = lines[1] /\ 1 \in DOMAIN lines
      /\ lines' \in Seq(Lines) /\ Len(lines') = Len(lines) - 1 /\ Len(lines) \in Nat
      /\ \A n \in DOMAIN lines' : n + 1 \in DOMAIN lines /\ lines'[n] = lines[n + 1]
  BY <1>1, Queue
<1>3. line.kind = "answer" => command[line.id] = line.body /\ line.body \in Bodies
  BY <1>2 DEF AnswersAreOfCommands
<1>4. \/ step' = "unlink" /\ failed' = TRUE /\ UNCHANGED request
      \/ UNCHANGED <<step, request, failed>>
      \/ /\ Passed(request) /\ UNCHANGED failed
         /\ \/ request < 5 /\ request' = request + 1 /\ step' = "send"
            \/ ~(request < 5) /\ step' = "unlink" /\ UNCHANGED request
  <2> HIDE DEF line
  <2>1. \/ step' = "unlink" /\ failed' = TRUE /\ UNCHANGED request
        \/ UNCHANGED <<step, request, failed>>
        \/ /\ line.kind = "answer" /\ line.id = request /\ Accepts(line.body) /\ UNCHANGED failed
           /\ \/ request < 5 /\ request' = request + 1 /\ step' = "send"
              \/ ~(request < 5) /\ step' = "unlink" /\ UNCHANGED request
    BY DEF Receive, Raise, MoreToAsk, line
  <2> QED BY <1>3, <2>1, AcceptedHasPassed
<1> HIDE DEF line
<1>5. failed' \in BOOLEAN /\ request' \in Requests /\ step' \in {"wait", "send", "unlink"}
  <2>1. \A n \in Requests : n < 5 => n + 1 \in Requests
    BY DEF Requests
  <2>2. failed' \in {FALSE, TRUE} /\ step' \in {"wait", "send", "unlink"}
    BY <1>1, <1>4
  <2>3. request' \in Requests
    BY <1>1, <1>4, <2>1
  <2> QED BY <2>2, <2>3
<1>6. TypeOK' /\ QueueIsBounded'
  BY <1>1, <1>2, <1>5, MaxLinesAssumption DEF TypeOK, QueueIsBounded
<1>7. AnswersAreOfCommands'
  BY <1>1, <1>2 DEF AnswersAreOfCommands
<1>8. NotSentYet'
  BY <1>1, <1>4 DEF NotSentYet, Requests
<1>9. SentinelInside' /\ Cleaned'
  BY <1>1, <1>5 DEF SentinelInside, Cleaned
<1>10. Flow'
  BY <1>1, <1>4, <1>5 DEF Flow, Ending
<1>11. Progress'
  <2>1. \A i \in Requests : Passed(i)' <=> Passed(i)
    BY <1>1 DEF Passed
  <2>2. \A i \in Requests : i < request => Passed(i)
    BY DEF Progress
  <2>3. CASE Passed(request)
    BY <1>1, <1>4, <2>1, <2>2, <2>3 DEF Progress, Ending, Requests
  <2>4. CASE ~Passed(request)
    BY <1>1, <1>4, <2>1, <2>2, <2>4 DEF Progress, Ending, Requests
  <2> QED BY <2>3, <2>4
<1> QED BY <1>6, <1>7, <1>8, <1>9, <1>10, <1>11

LEMMA EndKeeps ==
    ASSUME IInv, Timeout \/ Unlink \/ Stop \/ Reap
    PROVE  IInv'
<1> USE DEF IInv, disk, peer
<1>1. UNCHANGED <<sandbox, request, lines, command, answered>> /\ step \in {"wait", "unlink", "stop", "reap"}
  BY DEF Timeout, Unlink, Stop, Reap
<1>2. AnswersAreOfCommands' /\ NotSentYet'
  BY <1>1, QuietKeeps DEF NotSentYet, Timeout, Unlink, Stop, Reap, Raise, Over
<1>3. \A i \in Requests : Passed(i)' <=> Passed(i)
  BY <1>1 DEF Passed
<1>4. CASE Timeout
  <2>1. TypeOK' /\ QueueIsBounded' /\ SentinelInside' /\ Cleaned'
    BY <1>4 DEF Timeout, Raise, TypeOK, QueueIsBounded, SentinelInside, Cleaned
  <2>2. Progress' /\ Flow'
    BY <1>3, <1>4 DEF Timeout, Raise, Progress, Flow, Ending
  <2> QED BY <1>2, <2>1, <2>2
<1>5. CASE Unlink
  <2>1. /\ refused' \subseteq {"sentinel", "patch"} /\ step' = "stop"
        /\ sentinel' = IF "sentinel" \in refused' THEN sentinel ELSE "absent"
        /\ patch' = ("patch" \in refused') /\ step = "unlink"
        /\ UNCHANGED <<request, failed, outcome, server>>
    BY <1>5 DEF Unlink
  <2>2. TypeOK' /\ QueueIsBounded' /\ SentinelInside'
    BY <1>1, <2>1 DEF TypeOK, QueueIsBounded, SentinelInside
  <2>3. Progress'
    BY <1>3, <2>1 DEF Progress, Ending
  <2>4. Flow'
    BY <2>1 DEF Flow, Ending
  <2>5. refused' = {} => sentinel' = "absent" /\ ~patch'
    BY <2>1
  <2>6. Cleaned'
    BY <2>5 DEF Cleaned
  <2> QED BY <1>2, <2>2, <2>3, <2>4, <2>6
<1>6. CASE Stop \/ Reap
  <2>1. /\ UNCHANGED <<request, failed, sentinel, patch, refused>> /\ step \in {"stop", "reap"}
        /\ server' \in {server, "exited"} /\ (server' = server \/ server = "alive")
        /\ outcome = "none"
        /\ \/ step' = "reap" /\ UNCHANGED outcome
           \/ step' = "over" /\ outcome' = "failed"
           \/ step' = "over" /\ outcome' = Result /\ server' # "alive"
    BY <1>6 DEF Stop, Reap, Over, Flow
  <2>2. outcome' \in {"none", "passed", "failed"} /\ (outcome' = "passed" => failed = FALSE /\ refused = {})
    BY <2>1 DEF Result, TypeOK
  <2>3. TypeOK' /\ QueueIsBounded' /\ SentinelInside'
    BY <1>1, <2>1, <2>2 DEF TypeOK, QueueIsBounded, SentinelInside
  <2>4. Progress' /\ Cleaned'
    BY <1>3, <2>1 DEF Progress, Cleaned, Ending
  <2>5. Flow'
    BY <2>1, <2>2 DEF Flow, Ending, Result
  <2> QED BY <1>2, <2>3, <2>4, <2>5
<1> QED BY <1>4, <1>5, <1>6

(* A command ends: none of those that have passed, so that no file appears  *)
(* behind a removal that counts.                                            *)
LEMMA FinishKeeps ==
    ASSUME IInv, NEW i \in Requests, Finish(i)
    PROVE  IInv'
<1> USE DEF IInv, check
<1>1. PICK body \in Bodies : command' = [command EXCEPT ![i] = body]
  BY DEF Finish
<1>2. /\ UNCHANGED <<sandbox, step, request, failed, outcome, patch, refused, server, lines, answered>>
      /\ command[i] = "taken"
      /\ command' \in [Requests -> {"none", "taken"} \cup Bodies]
      /\ \A j \in Requests : j # i => command'[j] = command[j]
  BY <1>1 DEF Finish, TypeOK
<1>3. sentinel' \in {"absent", "exact", "other"} /\ (sentinel' = sentinel \/ (i = Apply /\ sandbox.write = "workspace"))
  <2>1. CASE i # Apply \/ sandbox.write # "workspace"
    <3>1. sentinel' = sentinel
      BY <2>1 DEF Finish
    <3> QED BY <3>1 DEF TypeOK
  <2>2. CASE i = Apply /\ sandbox.write = "workspace"
    <3>1. sentinel' \in {sentinel, "exact", "other"}
      BY <2>2 DEF Finish
    <3> QED BY <2>2, <3>1 DEF TypeOK
  <2> QED BY <2>1, <2>2
<1>4. ~Passed(i)
  BY <1>2 DEF Passed, Bodies
<1>5. \A j \in Requests : Passed(j) => Passed(j)'
  BY <1>2, <1>4 DEF Passed
<1>6. TypeOK' /\ QueueIsBounded'
  BY <1>2, <1>3 DEF TypeOK, QueueIsBounded
<1>7. AnswersAreOfCommands'
  <2> SUFFICES ASSUME NEW n \in DOMAIN lines, lines[n].kind = "answer"
               PROVE  command'[lines[n].id] = lines[n].body /\ lines[n].body \in Bodies
    BY <1>2 DEF AnswersAreOfCommands
  <2>1. command[lines[n].id] = lines[n].body /\ lines[n].body \in Bodies
    BY DEF AnswersAreOfCommands
  <2>2. lines[n] \in Lines
    BY DEF TypeOK
  <2>3. lines[n].id \in Requests
    BY <2>2 DEF Lines
  <2> QED BY <1>2, <2>1, <2>3 DEF Bodies
<1>8. NotSentYet' /\ SentinelInside' /\ Flow'
  BY <1>2, <1>3 DEF NotSentYet, SentinelInside, Flow
<1>9. Progress'
  BY <1>2, <1>5 DEF Progress
<1>10. Cleaned'
  BY <1>2, <1>3, <1>4 DEF Cleaned, Progress, Ending
<1> QED BY <1>6, <1>7, <1>8, <1>9, <1>10

(* A line is put in the queue.                                              *)
LEMMA PutKeeps ==
    ASSUME IInv, NEW line \in Lines, lines' = Append(lines, line),
           line.kind = "answer" => command[line.id] = line.body /\ line.body \in Bodies,
           UNCHANGED <<sandbox, step, request, failed, outcome, sentinel, patch, refused, command>>,
           answered' \subseteq Requests,
           \/ Len(lines) < MaxLines /\ UNCHANGED server
           \/ server = "exited" /\ server' = "closed"
    PROVE  IInv'
<1> USE DEF IInv
<1>1. /\ lines' \in Seq(Lines) /\ Len(lines') = Len(lines) + 1 /\ Len(lines) \in Nat
      /\ \A n \in DOMAIN lines' : lines'[n] = line \/ (n \in DOMAIN lines /\ lines'[n] = lines[n])
  BY Queue DEF TypeOK
<1>2. TypeOK' /\ QueueIsBounded'
  BY <1>1, MaxLinesAssumption DEF TypeOK, QueueIsBounded
<1>3. AnswersAreOfCommands'
  BY <1>1 DEF AnswersAreOfCommands
<1>4. NotSentYet' /\ SentinelInside' /\ Flow' /\ Cleaned'
  BY DEF NotSentYet, SentinelInside, Flow, Cleaned
<1>5. Progress'
  BY DEF Progress, Passed
<1> QED BY <1>2, <1>3, <1>4, <1>5

LEMMA PeerKeeps ==
    ASSUME IInv, (\E i \in Requests : Answer(i)) \/ Chatter \/ EndOfOutput
    PROVE  IInv'
<1> USE DEF Put, check, disk
<1>1. ASSUME NEW i \in Requests, Answer(i) PROVE IInv'
  <2> DEFINE line == [kind |-> "answer", id |-> i, body |-> command[i]]
  <2>1. line \in Lines /\ answered' \subseteq Requests /\ command[i] \in Bodies
    BY <1>1 DEF Answer, Lines, IInv, TypeOK
  <2> QED BY <1>1, <2>1, PutKeeps DEF Answer
<1>2. ASSUME NEW kind \in {"notice", "ask"}, Chatter, lines' = Append(lines, [kind |-> kind]) PROVE IInv'
  <2>1. [kind |-> kind] \in Lines /\ answered' \subseteq Requests /\ [kind |-> kind].kind # "answer"
    BY <1>2 DEF Chatter, Lines, IInv, TypeOK
  <2> QED BY <1>2, <2>1, PutKeeps DEF Chatter
<1>3. CASE EndOfOutput
  <2>1. [kind |-> "end"] \in Lines /\ answered' \subseteq Requests
    BY <1>3 DEF EndOfOutput, Lines, IInv, TypeOK
  <2> QED BY <1>3, <2>1, PutKeeps DEF EndOfOutput
<1> QED BY <1>1, <1>2, <1>3 DEF Chatter

LEMMA StepInvariant == IInv /\ [Next]_vars => IInv'
<1> SUFFICES ASSUME IInv, [Next]_vars PROVE IInv'
  OBVIOUS
<1>1. CASE CheckStep
  BY <1>1, BeginKeeps, SendKeeps, ReceiveKeeps, EndKeeps DEF CheckStep
<1>2. CASE ServerDies
  BY <1>2 DEF ServerDies, check, disk, IInv, TypeOK, QueueIsBounded, AnswersAreOfCommands, NotSentYet,
              SentinelInside, Progress, Passed, Flow, Cleaned
<1>3. CASE UNCHANGED vars
  BY <1>3 DEF vars, check, disk, peer, IInv, TypeOK, QueueIsBounded, AnswersAreOfCommands, NotSentYet,
              SentinelInside, Progress, Passed, Flow, Cleaned
<1>4. CASE (\E i \in Requests : Finish(i) \/ Answer(i)) \/ Chatter \/ EndOfOutput
  BY <1>4, FinishKeeps, PeerKeeps
<1> QED BY <1>1, <1>2, <1>3, <1>4 DEF Next

(* The strengthened invariant, for any bound of the queue.                  *)
THEOREM PreflightInvariant == Spec => []IInv
  BY InitInvariant, StepInvariant, PTL DEF Spec

(* CodexWorkspacePreflight.check: it passes only when every command ran and *)
(* ended as the sandbox has to make it end.                                 *)
THEOREM PassesAreProved == Spec => []PassedMeansProved
<1>1. IInv => PassedMeansProved
  BY DEF IInv, Flow, Progress, Passed, Ending, PassedMeansProved, Requests, Apply, Secrets
<1> QED BY <1>1, PreflightInvariant, PTL

(* After a check that passed its files are gone and no command is left.     *)
THEOREM PassesLeaveNothing == Spec => []PassedLeavesNothing
<1>1. IInv => PassedLeavesNothing
  BY DEF IInv, Flow, Progress, Passed, Ending, Cleaned, PassedLeavesNothing, Bodies
<1> QED BY <1>1, PreflightInvariant, PTL
=============================================================================
