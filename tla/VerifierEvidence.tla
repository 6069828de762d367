--------------------------- MODULE VerifierEvidence ---------------------------
(***************************************************************************)
(* The verifier of a Run and what is kept of it: when DockerEngine.run has  *)
(* returned, the scorer puts the output in the content store, which other   *)
(* threads put the same content in.  The service may die at any moment; the *)
(* docker client and the container are processes of their own and go on.    *)
(***************************************************************************)
EXTENDS ContentStore

CONSTANT Judge      \* the thread that scores the Run

ASSUME JudgeAssumption == Judge \in Threads

VARIABLES stage, image, client, request, container, verdict, result

engine == <<stage, image, client, request, container, verdict, result>>

Engine == INSTANCE DockerEngine WITH pc <- stage

EvidenceInit == Init /\ Engine!Init

RunVerifier == Engine!Next /\ UNCHANGED vars

(* Only what run has returned is put: an exception of it ends the scoring.  *)
PutEvidence ==
    /\ result \notin {"none", "raised"}
    /\ Put(Judge)
    /\ UNCHANGED engine

PutSame ==
    /\ \E t \in Threads \ {Judge} : Put(t)
    /\ UNCHANGED engine

PutGoesOn ==
    /\ \E t \in Threads : Check(t) \/ Write(t) \/ Replace(t) \/ Return(t) \/ Raise(t)
    /\ UNCHANGED engine

(* Nobody is left to learn of the result. *)
ServiceDies ==
    /\ Crash
    /\ stage' = "over" /\ result' = IF result = "none" THEN "raised" ELSE result
    /\ UNCHANGED <<image, client, request, container, verdict>>

EvidenceNext == RunVerifier \/ PutEvidence \/ PutSame \/ PutGoesOn \/ ServiceDies

EvidenceSpec == EvidenceInit /\ [][EvidenceNext]_<<vars, engine>> /\ Engine!Fairness

-----------------------------------------------------------------------------
(* A pass that is put on record is of a verifier that ran on the image of   *)
(* the Case, ended with exit code 0 and is gone, whatever the client, the   *)
(* daemon, the clock and the death of the service did to one another.       *)
PassIsReal == Engine!PassIsReal

(* DockerEngine.run comes back, whatever becomes of client and container,   *)
(* unless the pipes of a killed client stay open for ever.                  *)
RunReturns == Engine!RunReturns
=============================================================================
