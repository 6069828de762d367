------------------------- MODULE VerifierEvidenceProofs -------------------------
(***************************************************************************)
(* The content store is right for any threads, any identities of values    *)
(* and any number of puts.  None of its properties is inductive: that what  *)
(* is moved into place is whole rests on every temporary file having one   *)
(* writer, and that on the identities of the values in hand.  Engine and    *)
(* store together: what either promises on its own it keeps in the other's  *)
(* company.                                                                 *)
(***************************************************************************)
EXTENDS VerifierEvidence, TLAPS

(* No two puts that are under way have the same temporary file.             *)
OneWriter ==
    \A t, u \in Threads : t # u /\ pc[t] # "idle" /\ pc[u] # "idle" => value[t] # value[u]

(* The temporary file of a put is what its step left there.                 *)
TemporaryAtStep ==
    \A t \in Threads :
        /\ pc[t] = "write" => temps[value[t]] = "part"
        /\ pc[t] = "replace" => temps[value[t]] = "whole"

(* A put is about to return only if the content is in place.                *)
ReturnsStored == \A t \in Threads : pc[t] = "return" => file = "whole"

IInv == TypeOK /\ OneWriter /\ TemporaryAtStep /\ ReturnsStored /\ StoredIsWhole

-----------------------------------------------------------------------------
LEMMA InitInvariant == Init => IInv
<1> SUFFICES ASSUME Init PROVE IInv
  OBVIOUS
<1>1. TypeOK
  <2>1. puts \in 0 .. MaxPuts
    BY PutsAssumption DEF Init
  <2>2. temps \in [Identities -> Contents] /\ file \in Contents
    BY DEF Init, Contents
  <2>3. pc \in [Threads -> {"idle", "check", "open", "write", "replace", "return"}]
    BY DEF Init
  <2>4. value \in [Threads -> Identities] /\ returned \in BOOLEAN
    BY DEF Init
  <2> QED BY <2>1, <2>2, <2>3, <2>4 DEF TypeOK
<1>2. OneWriter /\ TemporaryAtStep /\ ReturnsStored /\ StoredIsWhole
  BY DEF Init, OneWriter, TemporaryAtStep, ReturnsStored, StoredIsWhole
<1> QED BY <1>1, <1>2 DEF IInv

LEMMA StepInvariant == IInv /\ [Next]_vars => IInv'
<1> SUFFICES ASSUME IInv, [Next]_vars PROVE IInv'
  OBVIOUS
<1> USE PutsAssumption DEF IInv, Goto
<1>1. ASSUME NEW t \in Threads, Put(t) PROVE IInv'
  <2>1. TypeOK'
    BY <1>1 DEF Put, TypeOK
  <2>2. OneWriter'
    BY <1>1 DEF Put, TypeOK, OneWriter
  <2>3. TemporaryAtStep' /\ ReturnsStored' /\ StoredIsWhole'
    BY <1>1 DEF Put, TypeOK, TemporaryAtStep, ReturnsStored, StoredIsWhole
  <2> QED BY <2>1, <2>2, <2>3
<1>2. ASSUME NEW t \in Threads, Check(t) PROVE IInv'
  <2>1. TypeOK'
    BY <1>2 DEF Check, TypeOK
  <2>2. OneWriter'
    BY <1>2 DEF Check, TypeOK, OneWriter
  <2>3. TemporaryAtStep' /\ ReturnsStored' /\ StoredIsWhole'
    BY <1>2 DEF Check, TypeOK, TemporaryAtStep, ReturnsStored, StoredIsWhole, Contents
  <2> QED BY <2>1, <2>2, <2>3
<1>3. ASSUME NEW t \in Threads, Write(t) PROVE IInv'
  <2>1. TypeOK'
    BY <1>3 DEF Write, TypeOK, Contents
  <2>2. OneWriter'
    BY <1>3 DEF Write, TypeOK, OneWriter
  <2>3. TemporaryAtStep'
    BY <1>3 DEF Write, TypeOK, OneWriter, TemporaryAtStep
  <2>4. ReturnsStored' /\ StoredIsWhole'
    BY <1>3 DEF Write, TypeOK, ReturnsStored, StoredIsWhole
  <2> QED BY <2>1, <2>2, <2>3, <2>4
<1>4. ASSUME NEW t \in Threads, Replace(t) PROVE IInv'
  <2>1. temps[value[t]] = "whole"
    BY <1>4 DEF Replace, TemporaryAtStep
  <2>2. TypeOK'
    BY <1>4 DEF Replace, TypeOK, Contents
  <2>3. OneWriter'
    BY <1>4 DEF Replace, TypeOK, OneWriter
  <2>4. TemporaryAtStep'
    BY <1>4 DEF Replace, TypeOK, OneWriter, TemporaryAtStep
  <2>5. ReturnsStored' /\ StoredIsWhole'
    BY <1>4, <2>1 DEF Replace, ReturnsStored, StoredIsWhole
  <2> QED BY <2>2, <2>3, <2>4, <2>5
<1>5. ASSUME NEW t \in Threads, Return(t) PROVE IInv'
  <2>1. TypeOK'
    BY <1>5 DEF Return, TypeOK
  <2>2. OneWriter'
    BY <1>5 DEF Return, TypeOK, OneWriter
  <2>3. TemporaryAtStep' /\ ReturnsStored' /\ StoredIsWhole'
    BY <1>5 DEF Return, TypeOK, TemporaryAtStep, ReturnsStored, StoredIsWhole
  <2> QED BY <2>1, <2>2, <2>3
<1>6. ASSUME NEW t \in Threads, Raise(t) PROVE IInv'
  <2>1. TypeOK'
    BY <1>6 DEF Raise, TypeOK
  <2>2. OneWriter'
    BY <1>6 DEF Raise, TypeOK, OneWriter
  <2>3. TemporaryAtStep' /\ ReturnsStored' /\ StoredIsWhole'
    BY <1>6 DEF Raise, TypeOK, TemporaryAtStep, ReturnsStored, StoredIsWhole
  <2> QED BY <2>1, <2>2, <2>3
<1>7. CASE Crash
  BY <1>7 DEF Crash, TypeOK, OneWriter, TemporaryAtStep, ReturnsStored, StoredIsWhole
<1>8. CASE UNCHANGED vars
  BY <1>8 DEF vars, TypeOK, OneWriter, TemporaryAtStep, ReturnsStored, StoredIsWhole
<1> QED BY <1>1, <1>2, <1>3, <1>4, <1>5, <1>6, <1>7, <1>8 DEF Next

(* The strengthened invariant, for any threads and identities.              *)
THEOREM StoreInvariant == Spec => []IInv
  BY InitInvariant, StepInvariant, PTL DEF Spec

(* put_bytes: what is found under a digest is whole, and what a reference   *)
(* was returned for is found.                                               *)
THEOREM WholeIsStored == Spec => []StoredIsWhole
<1>1. IInv => StoredIsWhole
  BY DEF IInv
<1> QED BY <1>1, StoreInvariant, PTL

(* No put of a temporary file is cut or moved by another one.               *)
THEOREM TemporariesAreOwn == Spec => []TemporaryIsOwn
<1>1. IInv => TemporaryIsOwn
  BY DEF IInv, TemporaryAtStep, TemporaryIsOwn
<1> QED BY <1>1, StoreInvariant, PTL

(* A second put of the same content never takes away what is stored.        *)
THEOREM StoredContentStays == Spec => StoredStays
<1>1. IInv /\ [Next]_vars => [file = "whole" => file' = "whole"]_file
  <2> SUFFICES ASSUME IInv, [Next]_vars, file = "whole" PROVE file' = "whole"
    OBVIOUS
  <2>1. IInv'
    BY StepInvariant
  <2>2. file' # "absent"
    BY <2>1 DEF IInv, TypeOK, Contents, TemporaryAtStep, vars, Next,
                Put, Check, Write, Replace, Return, Raise, Crash
  <2> QED BY <2>1, <2>2 DEF IInv, StoredIsWhole, TypeOK, Contents
<1> QED BY <1>1, StoreInvariant, PTL DEF Spec, StoredStays

-----------------------------------------------------------------------------
(* Engine and store. *)

(* A client that ended with 0 saw the verifier end with 0 and its container *)
(* go; one is started only when the daemon has the image.                   *)
EngineOK ==
    /\ client = "zero" => verdict = "pass" /\ container = "removed"
    /\ stage \in {"popen", "communicate"} => image
    /\ result = "pass" => image /\ verdict = "pass" /\ container = "removed"

LEMMA EngineInit == EvidenceInit => EngineOK
  BY DEF EvidenceInit, Engine!Init, EngineOK

LEMMA EngineRunKeeps == EngineOK /\ Engine!RunStep => EngineOK'
<1> SUFFICES ASSUME EngineOK, Engine!RunStep PROVE EngineOK'
  OBVIOUS
<1> USE DEF EngineOK, Engine!Goto, Engine!Return
<1>1. CASE Engine!Resolve
  BY <1>1 DEF Engine!Resolve
<1>2. CASE Engine!Inspect
  BY <1>2 DEF Engine!Inspect, Engine!Unprepared
<1>3. CASE Engine!Pull
  BY <1>3 DEF Engine!Pull, Engine!Unprepared
<1>4. CASE Engine!Popen
  BY <1>4 DEF Engine!Popen
<1>5. CASE Engine!CollectExit
  BY <1>5 DEF Engine!CollectExit
<1>6. CASE Engine!Timeout
  BY <1>6 DEF Engine!Timeout
<1>7. CASE Engine!Drain
  BY <1>7 DEF Engine!Drain
<1>8. CASE Engine!RemoveContainer
  BY <1>8 DEF Engine!RemoveContainer
<1> QED BY <1>1, <1>2, <1>3, <1>4, <1>5, <1>6, <1>7, <1>8 DEF Engine!RunStep

LEMMA EngineStep == EngineOK /\ [EvidenceNext]_<<vars, engine>> => EngineOK'
<1> SUFFICES ASSUME EngineOK, [EvidenceNext]_<<vars, engine>> PROVE EngineOK'
  OBVIOUS
<1>1. CASE Engine!RunStep
  BY <1>1, EngineRunKeeps
<1>2. CASE Engine!Create \/ Engine!Start \/ Engine!Refuse
  BY <1>2 DEF EngineOK, Engine!Create, Engine!Start, Engine!Refuse
<1>3. CASE Engine!VerifierEnds \/ Engine!AutoRemove
  BY <1>3 DEF EngineOK, Engine!VerifierEnds, Engine!AutoRemove
<1>4. CASE Engine!ClientReports \/ Engine!ClientLosesDaemon
  BY <1>4 DEF EngineOK, Engine!ClientReports, Engine!ClientLosesDaemon
<1>5. CASE UNCHANGED engine
  BY <1>5 DEF EngineOK, engine
<1>6. CASE ServiceDies
  BY <1>6 DEF EngineOK, ServiceDies
<1> QED BY <1>1, <1>2, <1>3, <1>4, <1>5, <1>6
        DEF EvidenceNext, RunVerifier, Engine!Next, PutEvidence, PutSame, PutGoesOn

(* DockerEngine.run: a pass is of a verifier that ran on the image of the   *)
(* Case, ended with exit code 0 and is gone.                                *)
THEOREM PassesAreReal == EvidenceSpec => []PassIsReal
<1>1. EngineOK => PassIsReal
  BY DEF EngineOK, PassIsReal, Engine!PassIsReal
<1> QED BY <1>1, EngineInit, EngineStep, PTL DEF EvidenceSpec

(* Every step of the composition is one of the content store or none.       *)
THEOREM StoreIsImplemented == EvidenceSpec => Spec
<1>1. EvidenceInit => Init
  BY DEF EvidenceInit
<1>2. [EvidenceNext]_<<vars, engine>> => [Next]_vars
  <2> SUFFICES ASSUME [EvidenceNext]_<<vars, engine>> PROVE [Next]_vars
    OBVIOUS
  <2>1. CASE RunVerifier \/ UNCHANGED <<vars, engine>>
    BY <2>1 DEF RunVerifier
  <2>2. CASE PutEvidence
    BY <2>2, JudgeAssumption DEF PutEvidence, Next
  <2>3. CASE PutSame \/ PutGoesOn \/ ServiceDies
    BY <2>3 DEF PutSame, PutGoesOn, ServiceDies, Next
  <2> QED BY <2>1, <2>2, <2>3 DEF EvidenceNext
<1> QED BY <1>1, <1>2, PTL DEF EvidenceSpec, Spec

(* And so what the scorer has put is found whole, and stays.                *)
THEOREM EvidenceIsWhole == EvidenceSpec => []StoredIsWhole /\ StoredStays
  BY StoreIsImplemented, WholeIsStored, StoredContentStays, PTL
=============================================================================
