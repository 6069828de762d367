----------------------------- MODULE ScoringProofs -----------------------------
(***************************************************************************)
(* A judged task is judged on the listed files as its snapshots describe    *)
(* them, for any number of writes by the verifier, by the processes the Agent left and by *)
(* requests to the simulator.  No reading is atomic; what carries the       *)
(* argument is the order of the readings of one file: its first digest, the *)
(* verifier, its second listing, its second digest.                         *)
(*                                                                         *)
(* A pass is the full score: the rows without weight cannot be what failed. *)
(* And the simulator, alone and beside a scoring: the events of a call are  *)
(* at most one, and what its answer may still say follows from them.        *)
(***************************************************************************)
EXTENDS Scoring, TLAPS

Versions ==
    /\ work \in [Paths -> Nat] /\ judged \in [Paths -> Nat]
    /\ listed \subseteq Paths /\ DOMAIN reading \subseteq listed /\ DOMAIN pre \subseteq Paths
    /\ DOMAIN rows = Validators

(* What was read is not newer than what is there. *)
ReadIsPast ==
    /\ \A p \in DOMAIN reading : reading[p] \in Nat /\ reading[p] <= work[p]
    /\ \A p \in DOMAIN pre : pre[p] \in Nat /\ pre[p] <= work[p]

VerifierRan == pc \notin {"tracked", "untracked", "digest", "verify"}

(* The verifier found what the first snapshot describes or something newer. *)
JudgedIsBetween ==
    VerifierRan =>
        /\ \A p \in Paths : judged[p] <= work[p]
        /\ \A p \in DOMAIN pre : pre[p] <= judged[p]

(* A second listing lists what the verifier found changed, if git ignores   *)
(* it at no time, and a second digest is not older than the verifier.       *)
SecondIsLater ==
    /\ pc \in {"untracked again", "digest again"} =>
           /\ "tracked" \notin listed => judged["tracked"] = 0
           /\ \A p \in DOMAIN reading : judged[p] <= reading[p]
    /\ pc = "digest again" => ("untracked" \notin listed => judged["untracked"] = 0)

Frozen == \A p \in Listable : judged[p] = IF p \in DOMAIN pre THEN pre[p] ELSE 0

PathsFrozen == rows["allowed-paths"] = "pass" <=> Allowed(DOMAIN pre)

ErrorIsKept ==
    /\ rows["verifier-workspace-integrity"] = "error" => error = TRUE
    /\ pc \in {"issue", "pull requests", "judge"} => error = TRUE \/ (Frozen /\ PathsFrozen)
    /\ Scored => pc = "over" /\ Frozen /\ PathsFrozen

IInv == Versions /\ ReadIsPast /\ JudgedIsBetween /\ SecondIsLater /\ ErrorIsKept

-----------------------------------------------------------------------------
LEMMA NoReading == DOMAIN <<>> = {}
  OBVIOUS

LEMMA NumberOrder ==
    /\ \A n \in Nat : n <= n
    /\ \A m, n \in Nat : m <= n /\ n = 0 => m = 0
    /\ \A k, m, n \in Nat : k <= m /\ m <= n => k <= n
  OBVIOUS

LEMMA PathNames ==
    /\ "tracked" \in Listable /\ "untracked" \in Listable
    /\ \A p \in Listable : p = "tracked" \/ p = "untracked"
    /\ Listable \subseteq Paths /\ "ignored" \in Paths
  BY DEF Paths, Listable

LEMMA ValidatorNames ==
    /\ "allowed-paths" \in Validators /\ "verifier-workspace-integrity" \in Validators
    /\ "code-verifier" \in Validators
  BY DEF Validators

(* A write makes nothing that was read newer than what is there.            *)
LEMMA LaterReadIsPast ==
    ASSUME Versions, ReadIsPast, work' \in [Paths -> Nat], \A p \in Paths : work[p] <= work'[p],
           UNCHANGED <<reading, pre>>
    PROVE  ReadIsPast'
<1>1. DOMAIN reading \subseteq Paths /\ DOMAIN pre \subseteq Paths
  BY DEF Versions
<1>2. \A p \in Paths : work[p] \in Nat /\ work'[p] \in Nat
  BY DEF Versions
<1>3. \A p \in DOMAIN reading : reading[p] \in Nat /\ reading[p] <= work'[p]
  BY <1>1, <1>2, NumberOrder DEF ReadIsPast
<1>4. \A p \in DOMAIN pre : pre[p] \in Nat /\ pre[p] <= work'[p]
  BY <1>1, <1>2, NumberOrder DEF ReadIsPast
<1> QED BY <1>3, <1>4 DEF ReadIsPast

LEMMA InitInvariant == Init => IInv
<1> SUFFICES ASSUME Init PROVE IInv
  OBVIOUS
<1>1. Versions
  BY NoReading DEF Init, Versions
<1>2. ReadIsPast
  BY NoReading DEF Init, ReadIsPast
<1>3. JudgedIsBetween /\ SecondIsLater
  BY DEF Init, JudgedIsBetween, SecondIsLater, VerifierRan
<1>4. ErrorIsKept
  BY ValidatorNames DEF Init, ErrorIsKept, Scored, NoOutcome
<1> QED BY <1>1, <1>2, <1>3, <1>4 DEF IInv

LEMMA ListKeeps ==
    ASSUME IInv, List
    PROVE  IInv'
<1> USE DEF IInv, List, Goto
<1>1. Versions'
  BY NoReading, PathNames DEF Versions, Changed
<1>2. ReadIsPast'
  BY NoReading DEF ReadIsPast
<1>3. JudgedIsBetween'
  BY DEF JudgedIsBetween, VerifierRan, Again
<1>4. SecondIsLater'
  <2>1. \A p \in DOMAIN reading' : FALSE
    BY NoReading
  <2>2. \A p \in Paths : judged[p] \in Nat /\ work[p] \in Nat
    BY DEF Versions
  <2>3. VerifierRan => \A p \in Paths : work[p] = 0 => judged[p] = 0
    BY <2>2, NumberOrder DEF JudgedIsBetween
  <2>4. pc \in {"tracked again", "untracked again"} => VerifierRan
    BY DEF VerifierRan
  <2>5. CASE pc = "tracked" \/ pc = "untracked"
    BY <2>5 DEF SecondIsLater, Again
  <2>6. CASE pc = "tracked again"
    BY <2>1, <2>3, <2>4, <2>6, PathNames DEF SecondIsLater, Again, Changed
  <2>7. CASE pc = "untracked again"
    BY <2>1, <2>3, <2>4, <2>7, PathNames DEF SecondIsLater, Again, Changed
  <2> QED BY <2>5, <2>6, <2>7
<1>5. ErrorIsKept'
  BY DEF ErrorIsKept, Scored, Again
<1> QED BY <1>1, <1>2, <1>3, <1>4, <1>5

LEMMA DigestKeeps ==
    ASSUME IInv, Digest
    PROVE  IInv'
<1> USE DEF IInv
<1>1. PICK p \in listed \ DOMAIN reading :
          reading' = [q \in DOMAIN reading \cup {p} |-> IF q = p THEN work[p] ELSE reading[q]]
  BY DEF Digest
<1>2. /\ DOMAIN reading' = DOMAIN reading \cup {p} /\ reading'[p] = work[p]
      /\ \A q \in DOMAIN reading : reading'[q] = reading[q]
      /\ p \in Paths /\ pc' = pc /\ pc \in {"digest", "digest again"}
      /\ UNCHANGED <<work, listed, pre, rows, error, issue, outcome, judged>>
  BY <1>1 DEF Digest, Goto, Versions
<1>3. Versions'
  BY <1>2 DEF Versions
<1>4. ReadIsPast'
  <2>1. \A q \in DOMAIN reading' : reading'[q] \in Nat /\ reading'[q] <= work[q]
    <3> SUFFICES ASSUME NEW q \in DOMAIN reading'
                 PROVE  reading'[q] \in Nat /\ reading'[q] <= work[q]
      OBVIOUS
    <3>1. CASE q = p
      <4>1. work[p] \in Nat
        BY <1>2 DEF Versions
      <4> QED BY <1>2, <3>1, <4>1, NumberOrder
    <3>2. CASE q \in DOMAIN reading
      BY <1>2, <3>2 DEF ReadIsPast
    <3> QED BY <1>2, <3>1, <3>2
  <2> QED BY <1>2, <2>1 DEF ReadIsPast
<1>5. JudgedIsBetween'
  BY <1>2 DEF JudgedIsBetween, VerifierRan
<1>6. SecondIsLater'
  BY <1>2 DEF SecondIsLater, JudgedIsBetween, VerifierRan
<1>7. ErrorIsKept'
  BY <1>2 DEF ErrorIsKept, Scored
<1> QED BY <1>3, <1>4, <1>5, <1>6, <1>7

LEMMA SnapshotKeeps ==
    ASSUME IInv, Snapshot \/ SnapshotFails
    PROVE  IInv'
<1> USE DEF IInv, Snapshot, SnapshotFails, Goto, Row
<1>1. Versions'
  BY DEF Versions
<1>2. ReadIsPast'
  BY DEF ReadIsPast
<1>3. JudgedIsBetween'
  BY DEF JudgedIsBetween, VerifierRan, AfterWorkspace, Again
<1>4. SecondIsLater'
  BY DEF SecondIsLater, AfterWorkspace
<1>5. ErrorIsKept'
  BY DEF ErrorIsKept, Scored
<1> QED BY <1>1, <1>2, <1>3, <1>4, <1>5

LEMMA VerifyKeeps ==
    ASSUME IInv, Verify
    PROVE  IInv'
<1> USE DEF IInv
<1>1. pc = "verify" /\ judged' = work /\ UNCHANGED <<listed, reading, pre>>
  BY DEF Verify
<1>2. /\ DOMAIN rows' = Validators
      /\ rows'["verifier-workspace-integrity"] = rows["verifier-workspace-integrity"]
      /\ error = TRUE => error' = TRUE
      /\ pc' = "tracked again" \/ pc' = "over"
           \/ (pc' = AfterWorkspace /\ rows["verifier-workspace-integrity"] = "error")
      /\ ~Scored' /\ (pc' # "over" => outcome' = outcome)
  <2>1. ~Scored
    BY <1>1 DEF ErrorIsKept
  <2>2. CASE VerifierRaises
    BY <2>2 DEF VerifierRaises, Versions, Scored, NoOutcome
  <2>3. ASSUME NEW result, VerifierReturns(result)
        PROVE  /\ DOMAIN rows' = Validators
               /\ rows'["verifier-workspace-integrity"] = rows["verifier-workspace-integrity"]
               /\ error = TRUE => error' = TRUE
               /\ pc' = "tracked again"
                    \/ (pc' = AfterWorkspace /\ rows["verifier-workspace-integrity"] = "error")
               /\ ~Scored' /\ outcome' = outcome
    BY <2>1, <2>3, ValidatorNames DEF VerifierReturns, Row, Versions, Scored
  <2> QED BY <2>2, <2>3 DEF Verify
<1>3. /\ work' \in [Paths -> Nat] /\ \A p \in Paths : work[p] <= work'[p]
  <2>1. CASE work' = work
    BY <2>1 DEF Versions
  <2>2. ASSUME NEW p \in Paths, work' = [work EXCEPT ![p] = @ + 1]
        PROVE  work' \in [Paths -> Nat] /\ \A q \in Paths : work[q] <= work'[q]
    BY <2>2 DEF Versions
  <2> QED BY <2>1, <2>2 DEF Verify
<1>4. Versions'
  BY <1>1, <1>2, <1>3 DEF Versions
<1>5. ReadIsPast'
  BY <1>1, <1>3, LaterReadIsPast
<1>6. JudgedIsBetween'
  BY <1>1, <1>3 DEF JudgedIsBetween, ReadIsPast, Versions
<1>7. SecondIsLater'
  BY <1>1, <1>2 DEF SecondIsLater, AfterWorkspace
<1>8. ErrorIsKept'
  BY <1>1, <1>2 DEF ErrorIsKept
<1> QED BY <1>4, <1>5, <1>6, <1>7, <1>8

LEMMA CompareKeeps ==
    ASSUME IInv, Compare
    PROVE  IInv'
<1> USE DEF IInv
<1>1. /\ pc = "digest again" /\ listed = DOMAIN reading /\ VerifierRan
      /\ pc' = AfterWorkspace /\ pc' \in {"issue", "judge"}
      /\ UNCHANGED <<work, listed, reading, pre, outcome, judged>>
      /\ error = TRUE => error' = TRUE
      /\ reading # pre => error' = TRUE
  BY DEF Compare, Goto, AfterWorkspace, VerifierRan
<1>2. /\ DOMAIN rows' = Validators
      /\ rows'["verifier-workspace-integrity"] = IF reading = pre THEN "pass" ELSE "error"
      /\ rows'["allowed-paths"] = IF Allowed(DOMAIN reading) THEN "pass" ELSE "fail"
  BY ValidatorNames DEF Compare, Versions
<1>3. Versions' /\ ReadIsPast'
  BY <1>1, <1>2 DEF Versions, ReadIsPast
<1>4. JudgedIsBetween' /\ SecondIsLater'
  BY <1>1 DEF JudgedIsBetween, SecondIsLater
<1>5. reading = pre => Frozen'
  <2> SUFFICES ASSUME reading = pre, NEW p \in Listable
               PROVE  judged[p] = IF p \in DOMAIN pre THEN pre[p] ELSE 0
    BY <1>1 DEF Frozen
  <2>1. CASE p \in DOMAIN pre
    <3>1. pre[p] \in Nat /\ judged[p] \in Nat /\ pre[p] <= judged[p] /\ judged[p] <= reading[p]
      BY <1>1, <2>1, PathNames DEF Versions, ReadIsPast, JudgedIsBetween, SecondIsLater
    <3> QED BY <2>1, <3>1
  <2>2. CASE p \notin DOMAIN pre
    BY <1>1, <2>2, PathNames DEF SecondIsLater
  <2> QED BY <2>1, <2>2
<1>6. reading = pre => PathsFrozen'
  BY <1>1, <1>2 DEF PathsFrozen
<1>7. ErrorIsKept'
  BY <1>1, <1>2, <1>5, <1>6 DEF ErrorIsKept, Scored
<1> QED BY <1>3, <1>4, <1>7

(* The simulator is read and the rows are weighed; the workspace is over.   *)
LEMMA RestKeeps ==
    ASSUME IInv, SelectIssue \/ SelectPullRequests \/ SelectFails \/ Judge
    PROVE  IInv'
<1> USE DEF IInv, Goto
<1>1. /\ pc \in {"issue", "pull requests", "judge"} /\ pc' \in {"pull requests", "judge", "over"}
      /\ UNCHANGED <<work, listed, reading, pre, error, judged>>
  BY DEF SelectIssue, SelectPullRequests, SelectFails, Judge
<1>2. /\ DOMAIN rows' = DOMAIN rows
      /\ rows'["verifier-workspace-integrity"] = rows["verifier-workspace-integrity"]
      /\ rows'["allowed-paths"] = rows["allowed-paths"]
  BY ValidatorNames DEF SelectIssue, SelectPullRequests, SelectFails, Judge, Row, Versions
<1>3. Versions' /\ ReadIsPast'
  BY <1>1, <1>2 DEF Versions, ReadIsPast
<1>4. JudgedIsBetween' /\ SecondIsLater'
  BY <1>1 DEF JudgedIsBetween, SecondIsLater, VerifierRan
<1>5. (Frozen <=> Frozen') /\ (PathsFrozen <=> PathsFrozen')
  BY <1>1, <1>2 DEF Frozen, PathsFrozen
<1>6. Scored' => pc' = "over" /\ Frozen /\ PathsFrozen
  BY <1>1 DEF SelectIssue, SelectPullRequests, SelectFails, Judge, Scored, NoOutcome, ErrorIsKept
<1>7. ErrorIsKept'
  BY <1>1, <1>2, <1>5, <1>6 DEF ErrorIsKept
<1> QED BY <1>3, <1>4, <1>7

LEMMA StrayKeeps ==
    ASSUME IInv, StrayWrite \/ LateRequest
    PROVE  IInv'
<1> USE DEF IInv
<1>1. UNCHANGED <<pc, listed, reading, pre, rows, error, outcome, judged>>
  BY DEF StrayWrite, LateRequest
<1>2. /\ work' \in [Paths -> Nat] /\ \A p \in Paths : work[p] <= work'[p]
  <2>1. CASE LateRequest
    <3>1. work' = work
      BY <2>1 DEF LateRequest
    <3>2. \A p \in Paths : work[p] \in Nat
      BY DEF Versions
    <3> QED BY <3>1, <3>2, NumberOrder DEF Versions
  <2>2. ASSUME NEW p \in Paths, work' = [work EXCEPT ![p] = @ + 1]
        PROVE  work' \in [Paths -> Nat] /\ \A q \in Paths : work[q] <= work'[q]
    BY <2>2 DEF Versions
  <2> QED BY <2>1, <2>2 DEF StrayWrite
<1>3. Versions'
  BY <1>1, <1>2 DEF Versions
<1>4. ReadIsPast'
  BY <1>1, <1>2, LaterReadIsPast
<1>5. JudgedIsBetween'
  BY <1>1, <1>2 DEF JudgedIsBetween, VerifierRan, Versions
<1>6. SecondIsLater' /\ ErrorIsKept'
  BY <1>1 DEF SecondIsLater, ErrorIsKept, Frozen, PathsFrozen, Scored
<1> QED BY <1>3, <1>4, <1>5, <1>6

LEMMA StepInvariant == IInv /\ [Next]_vars => IInv'
<1> SUFFICES ASSUME IInv, [Next]_vars PROVE IInv'
  OBVIOUS
<1>1. CASE Score
  BY <1>1, ListKeeps, DigestKeeps, SnapshotKeeps, VerifyKeeps, CompareKeeps, RestKeeps DEF Score
<1>2. CASE StrayWrite \/ LateRequest
  BY <1>2, StrayKeeps
<1>3. CASE UNCHANGED vars
  <2>1. UNCHANGED scoring
    BY <1>3 DEF vars
  <2> QED BY <2>1 DEF scoring, IInv, Versions, ReadIsPast, JudgedIsBetween, SecondIsLater, VerifierRan,
                      ErrorIsKept, Frozen, PathsFrozen, Scored
<1> QED BY <1>1, <1>2, <1>3 DEF Next

(* The strengthened invariant, for any calls and versions.                  *)
THEOREM ScoringInvariant == Spec => []IInv
  BY InitInvariant, StepInvariant, PTL DEF Spec

(* _score_locked: the verifier of a judged task ran on the files git does   *)
(* not ignore as its snapshots describe them.                               *)
THEOREM TasksAreJudgedAsFrozen == Spec => []JudgedIsWhatWasFrozen
<1>1. IInv => JudgedIsWhatWasFrozen
  BY DEF IInv, ErrorIsKept, Frozen, JudgedIsWhatWasFrozen
<1> QED BY <1>1, ScoringInvariant, PTL

(* _score_locked: the paths judged are those of the first snapshot.         *)
THEOREM PathsAreJudgedAsFrozen == Spec => []PathsAreTheFrozenOnes
<1>1. IInv => PathsAreTheFrozenOnes
  BY DEF IInv, ErrorIsKept, PathsFrozen, PathsAreTheFrozenOnes
<1> QED BY <1>1, ScoringInvariant, PTL

-----------------------------------------------------------------------------
(* The score: a row in error is an error of the attempt, and the one row    *)
(* that weighs nothing is in error or passed when the rows are weighed.     *)
RowsTell ==
    /\ error \in BOOLEAN
    /\ rows \in [Validators -> {"none", "pass", "fail", "error"}]
    /\ \A v \in Validators : rows[v] = "error" => error = TRUE
    /\ pc \in {"issue", "pull requests", "judge"} => rows["verifier-workspace-integrity"] \in {"pass", "error"}

ScoreTells == Scored => pc = "over" /\ error = FALSE /\ (outcome.status = "pass" <=> outcome.score = 10)

(* The weights of the Case are whole tenths of one.                         *)
LEMMA FullScore ==
    ASSUME \A v \in Validators : rows[v] \in {"none", "pass", "fail", "error"}
    PROVE  WeightedScore = 10 <=> \A v \in Validators : Weight(v) # 0 => rows[v] = "pass"
<1> DEFINE passed == {v \in Validators : rows[v] = "pass"}
<1>1. CASE IssuePr = TRUE
  <2>1. /\ Validators = {"code-verifier", "allowed-paths", "verifier-workspace-integrity", "issue-pr-state"}
        /\ Weight("code-verifier") = 4 /\ Weight("allowed-paths") = 2 /\ Weight("issue-pr-state") = 4
        /\ Weight("verifier-workspace-integrity") = 0
    BY <1>1 DEF Validators, Weight
  <2>2. Sum(Validators) = 10
    BY <2>1 DEF Sum
  <2>3. WeightedScore = Sum(passed)
    <3>1. Sum(passed) \in Nat
      BY <2>1 DEF Sum
    <3>2. WeightedScore = (10 * Sum(passed)) \div 10
      BY <2>2 DEF WeightedScore
    <3> HIDE DEF passed
    <3> QED BY <3>1, <3>2
  <2>4. Sum(passed) = 10 <=> rows["code-verifier"] = "pass" /\ rows["allowed-paths"] = "pass"
                               /\ rows["issue-pr-state"] = "pass"
    BY <2>1 DEF Sum
  <2> QED BY <2>1, <2>3, <2>4
<1>2. CASE IssuePr # TRUE
  <2>1. /\ Validators = {"code-verifier", "allowed-paths", "verifier-workspace-integrity"}
        /\ Weight("code-verifier") = 8 /\ Weight("allowed-paths") = 2
        /\ Weight("verifier-workspace-integrity") = 0
    BY <1>2, ScoringAssumption DEF Validators, Weight
  <2>2. Sum(Validators) = 10
    BY <2>1 DEF Sum
  <2>3. WeightedScore = Sum(passed)
    <3>1. Sum(passed) \in Nat
      BY <2>1 DEF Sum
    <3>2. WeightedScore = (10 * Sum(passed)) \div 10
      BY <2>2 DEF WeightedScore
    <3> HIDE DEF passed
    <3> QED BY <3>1, <3>2
  <2>4. Sum(passed) = 10 <=> rows["code-verifier"] = "pass" /\ rows["allowed-paths"] = "pass"
    BY <2>1 DEF Sum
  <2> QED BY <2>1, <2>3, <2>4
<1> QED BY <1>1, <1>2

LEMMA JudgeTells ==
    ASSUME RowsTell, Judge
    PROVE  ScoreTells'
<1>1. CASE error = TRUE
  BY <1>1 DEF Judge, ScoreTells, Scored, NoOutcome
<1>2. CASE error = FALSE
  <2>1. /\ outcome' = [status |-> IF \A v \in Validators : rows[v] = "pass" THEN "pass" ELSE "fail",
                       score  |-> WeightedScore]
        /\ pc' = "over" /\ error' = FALSE
        /\ rows["verifier-workspace-integrity"] = "pass"
    BY <1>2, ValidatorNames DEF Judge, Goto, RowsTell
  <2>2. \A v \in Validators : Weight(v) = 0 => v = "verifier-workspace-integrity"
    BY DEF Validators, Weight
  <2>3. WeightedScore = 10 <=> \A v \in Validators : rows[v] = "pass"
    BY <2>1, <2>2, FullScore DEF RowsTell
  <2>4. Scored'
    BY <2>1 DEF Scored
  <2>5. outcome'.score = WeightedScore /\ (outcome'.status = "pass" <=> \A v \in Validators : rows[v] = "pass")
    BY <2>1
  <2> QED BY <2>1, <2>3, <2>4, <2>5 DEF ScoreTells
<1> QED BY <1>1, <1>2 DEF RowsTell

LEMMA RowsStepInv == IInv /\ RowsTell /\ ScoreTells /\ [Next]_vars => RowsTell' /\ ScoreTells'
<1> SUFFICES ASSUME IInv, RowsTell, ScoreTells, [Next]_vars PROVE RowsTell' /\ ScoreTells'
  OBVIOUS
<1>1. CASE StrayWrite \/ LateRequest \/ UNCHANGED vars
  <2>1. UNCHANGED <<pc, rows, error, outcome>>
    <3>1. CASE StrayWrite
      BY <3>1 DEF StrayWrite
    <3>2. CASE LateRequest
      BY <3>2 DEF LateRequest
    <3>3. CASE UNCHANGED vars
      BY <3>3 DEF vars, scoring
    <3> QED BY <1>1, <3>1, <3>2, <3>3
  <2> QED BY <2>1 DEF RowsTell, ScoreTells, Scored
<1>2. CASE List \/ Digest \/ Snapshot \/ SelectIssue
  <2>1. /\ UNCHANGED <<rows, error, outcome>> /\ pc \notin {"pull requests", "judge", "over"}
        /\ pc' \in {"issue", "pull requests", "judge"} => pc = "issue"
    BY <1>2 DEF List, Digest, Snapshot, SelectIssue, Goto, Again
  <2> QED BY <2>1 DEF RowsTell, ScoreTells, Scored
<1>3. CASE SnapshotFails
  <2>1. ~Scored /\ ~Scored'
    BY <1>3 DEF SnapshotFails, IInv, ErrorIsKept, Scored
  <2>2. RowsTell'
    BY <1>3, ValidatorNames DEF SnapshotFails, Row, RowsTell
  <2> QED BY <2>1, <2>2 DEF ScoreTells
<1>4. CASE Verify
  <2>1. ~Scored
    BY <1>4 DEF Verify, IInv, ErrorIsKept
  <2>2. CASE VerifierRaises
    BY <2>2 DEF VerifierRaises, RowsTell, ScoreTells, Scored, NoOutcome
  <2>3. CASE ~VerifierRaises
    <3>1. PICK result \in {"pass", "fail", "error", "timeout"} :
              /\ rows' = [rows EXCEPT !["code-verifier"] = CommandValidation(result)]
              /\ error' = (error \/ result \in {"error", "timeout"})
              /\ rows["verifier-workspace-integrity"] # "error" => pc' = "tracked again"
              /\ UNCHANGED outcome
      BY <1>4, <2>3 DEF Verify, VerifierReturns, Row
    <3>2. /\ CommandValidation(result) \in {"pass", "fail", "error"}
          /\ CommandValidation(result) = "error" => result \in {"error", "timeout"}
      BY DEF CommandValidation
    <3>3. /\ error' \in BOOLEAN /\ (error = TRUE => error' = TRUE)
          /\ CommandValidation(result) = "error" => error' = TRUE
      BY <3>1, <3>2 DEF RowsTell
    <3>4. /\ rows' \in [Validators -> {"none", "pass", "fail", "error"}]
          /\ rows'["code-verifier"] = CommandValidation(result)
          /\ \A v \in Validators \ {"code-verifier"} : rows'[v] = rows[v]
      BY <3>1, <3>2, ValidatorNames DEF RowsTell
    <3>5. RowsTell'
      BY <3>1, <3>3, <3>4, ValidatorNames DEF RowsTell
    <3>6. ~Scored'
      BY <2>1, <3>1 DEF Scored
    <3> QED BY <3>5, <3>6 DEF ScoreTells
  <2> QED BY <2>2, <2>3
<1>5. CASE Compare
  <2>1. ~Scored /\ ~Scored'
    BY <1>5 DEF Compare, IInv, ErrorIsKept, Scored
  <2>2. /\ rows' \in [Validators -> {"none", "pass", "fail", "error"}]
        /\ rows'["verifier-workspace-integrity"] = IF reading = pre THEN "pass" ELSE "error"
        /\ rows'["allowed-paths"] = IF Allowed(DOMAIN reading) THEN "pass" ELSE "fail"
        /\ \A v \in Validators \ {"verifier-workspace-integrity", "allowed-paths"} : rows'[v] = rows[v]
    BY <1>5, ValidatorNames DEF Compare, RowsTell
  <2>3. error' \in BOOLEAN /\ (error = TRUE => error' = TRUE) /\ (reading # pre => error' = TRUE)
    BY <1>5 DEF Compare, RowsTell
  <2>4. \A v \in Validators : rows'[v] = "error" => error' = TRUE
    BY <2>2, <2>3 DEF RowsTell
  <2>5. RowsTell'
    BY <2>2, <2>3, <2>4, ValidatorNames DEF RowsTell
  <2> QED BY <2>1, <2>5 DEF ScoreTells
<1>6. CASE SelectPullRequests
  <2>1. ~Scored /\ ~Scored'
    BY <1>6 DEF SelectPullRequests, IInv, ErrorIsKept, Scored
  <2>2. PICK s \in {"pass", "fail"} : rows' = [rows EXCEPT !["issue-pr-state"] = s]
    BY <1>6 DEF SelectPullRequests, Row
  <2>3. /\ rows' \in [Validators -> {"none", "pass", "fail", "error"}]
        /\ \A v \in Validators : rows'[v] = rows[v] \/ rows'[v] = s
        /\ rows'["verifier-workspace-integrity"] = rows["verifier-workspace-integrity"]
    BY <2>2, ValidatorNames DEF RowsTell
  <2>4. RowsTell'
    BY <1>6, <2>3 DEF RowsTell, SelectPullRequests
  <2> QED BY <2>1, <2>4 DEF ScoreTells
<1>7. CASE SelectFails
  <2>1. ~Scored'
    BY <1>7 DEF SelectFails, Scored, NoOutcome
  <2>2. RowsTell'
    BY <1>7 DEF SelectFails, Goto, RowsTell
  <2> QED BY <2>1, <2>2 DEF ScoreTells
<1>8. CASE Judge
  <2>1. RowsTell'
    BY <1>8 DEF Judge, Goto, RowsTell
  <2> QED BY <1>8, <2>1, JudgeTells
<1>9. CASE Score
  BY <1>2, <1>3, <1>4, <1>5, <1>6, <1>7, <1>8, <1>9 DEF Score
<1> QED BY <1>1, <1>9 DEF Next

(* _score_locked: a task passes exactly with the full score of its weights, *)
(* and no task is scored that has a row in error, whatever of its readings  *)
(* failed.                                                                  *)
THEOREM PassesHaveTheFullScore == Spec => []PassIsFullScore
<1>1. Init => RowsTell /\ ScoreTells
  <2>1. Init => RowsTell
    BY ValidatorNames DEF Init, RowsTell
  <2> QED BY <2>1 DEF Init, ScoreTells, Scored, NoOutcome
<1>2. RowsTell /\ ScoreTells => PassIsFullScore
  BY DEF RowsTell, ScoreTells, PassIsFullScore
<1> QED BY <1>1, <1>2, RowsStepInv, ScoringInvariant, PTL DEF Spec

-----------------------------------------------------------------------------
(* The simulator. *)
(* What a call has recorded, at each stage of its way there and back.       *)
CallsOK ==
    \A c \in Calls :
        /\ \A i, j \in EffectsOf(c) : i = j
        /\ call[c] = NoCall => wire[c] = "idle" /\ answer[c] = "none"
        /\ answer[c] \in {"success", "failure"} => wire[c] = "idle"
        /\ call[c] = NoCall \/ wire[c] \in {"request", "failure"} \/ answer[c] = "failure" =>
               EffectsOf(c) = {}
        /\ wire[c] = "success" \/ answer[c] = "success" =>
               (EffectsOf(c) = {} <=> call[c].tool = "list_prs")

(* The write to the tables that an event is of.                             *)
IsWriteOf(e) ==
    \/ e.type = "issue_read" /\ UNCHANGED <<status, prs>>
    \/ /\ e.type = "pr_created" /\ UNCHANGED status
       /\ \E target \in Targets : prs' = Append(prs, target) /\ e.value = target
       /\ e.pr = Len(prs')
    \/ /\ e.type = "issue_status_updated" /\ UNCHANGED prs
       /\ status' = e.value /\ e.value \in Statuses

(* A request leaves the tables alone, or adds one event with its write.     *)
Untold(c) ==
    /\ UNCHANGED <<status, prs, events>>
    /\ Respond(c, "failure") \/ (Respond(c, "success") /\ call[c].tool = "list_prs")

Told(c, e) ==
    /\ events' = Append(events, e) /\ e.call = c /\ IsWriteOf(e)
    /\ Respond(c, "success") /\ call[c].tool # "list_prs"

SimulatorInv == SimulatorTypeOK /\ EventsExplainState /\ CallsOK

LEMMA Appended ==
    ASSUME NEW S, NEW s \in Seq(S), NEW e \in S
    PROVE  /\ Append(s, e) \in Seq(S) /\ Len(Append(s, e)) = Len(s) + 1 /\ Len(s) \in Nat
           /\ DOMAIN Append(s, e) = DOMAIN s \cup {Len(s) + 1}
           /\ Append(s, e)[Len(s) + 1] = e
           /\ \A i \in DOMAIN s : i \in Nat /\ i < Len(s) + 1 /\ Append(s, e)[i] = s[i]
  OBVIOUS

(* An event that is added counts for its own call and its own type only.    *)
LEMMA Recorded ==
    ASSUME SimulatorTypeOK, NEW e \in Events, events' = Append(events, e)
    PROVE  /\ events' \in Seq(Events) /\ Len(events) \in Nat
           /\ \A c : EffectsOf(c)' = EffectsOf(c) \cup (IF e.call = c THEN {Len(events) + 1} ELSE {})
           /\ \A t : Of(t)' = Of(t) \cup (IF e.type = t THEN {Len(events) + 1} ELSE {})
           /\ events'[Len(events) + 1] = e
           /\ \A i \in DOMAIN events : i \in Nat /\ i < Len(events) + 1 /\ events'[i] = events[i]
<1>1. events \in Seq(Events)
  BY DEF SimulatorTypeOK
<1>2. /\ events' \in Seq(Events) /\ Len(events) \in Nat
      /\ DOMAIN events' = DOMAIN events \cup {Len(events) + 1}
      /\ events'[Len(events) + 1] = e
      /\ \A i \in DOMAIN events : i \in Nat /\ i < Len(events) + 1 /\ events'[i] = events[i]
  BY <1>1, Appended
<1>3. \A c : EffectsOf(c)' = EffectsOf(c) \cup (IF e.call = c THEN {Len(events) + 1} ELSE {})
  BY <1>2 DEF EffectsOf
<1>4. \A t : Of(t)' = Of(t) \cup (IF e.type = t THEN {Len(events) + 1} ELSE {})
  BY <1>2 DEF Of
<1> QED BY <1>2, <1>3, <1>4

LEMMA SimulatorInitInv == SimulatorInit => SimulatorInv
<1> SUFFICES ASSUME SimulatorInit PROVE SimulatorInv
  OBVIOUS
<1>1. events = <<>> /\ prs = <<>> /\ Of("pr_created") = {} /\ Of("issue_status_updated") = {}
  BY DEF SimulatorInit, Of
<1>2. SimulatorTypeOK
  BY <1>1 DEF SimulatorInit, SimulatorTypeOK, Statuses
<1>3. EventsExplainState
  BY <1>1 DEF SimulatorInit, EventsExplainState
<1>4. CallsOK
  <2>1. \A c \in Calls : EffectsOf(c) = {}
    BY <1>1 DEF EffectsOf
  <2> QED BY <2>1 DEF SimulatorInit, CallsOK
<1> QED BY <1>2, <1>3, <1>4 DEF SimulatorInv

(* A request is answered with an event, or without one.                     *)
LEMMA RespondKeepsCalls ==
    ASSUME SimulatorInv, NEW c \in Calls,
           \A d \in Calls \ {c} : EffectsOf(d)' = EffectsOf(d),
           \/ Respond(c, "failure") /\ EffectsOf(c)' = {}
           \/ /\ Respond(c, "success") /\ (EffectsOf(c)' = {} <=> call[c].tool = "list_prs")
              /\ \A i, j \in EffectsOf(c)' : i = j
    PROVE  CallsOK'
<1>1. /\ wire[c] = "request" /\ UNCHANGED <<call, answer>>
      /\ \A d \in Calls \ {c} : wire'[d] = wire[d]
      /\ \/ wire'[c] = "failure" /\ EffectsOf(c)' = {}
         \/ /\ wire'[c] = "success" /\ (EffectsOf(c)' = {} <=> call[c].tool = "list_prs")
            /\ \A i, j \in EffectsOf(c)' : i = j
  BY DEF Respond, SimulatorInv, SimulatorTypeOK
<1>2. call[c] # NoCall /\ answer[c] \notin {"success", "failure"}
  BY <1>1 DEF SimulatorInv, CallsOK
<1> QED BY <1>1, <1>2 DEF SimulatorInv, CallsOK

(* The events of a request are those of its transaction.                    *)
LEMMA HandleRecords ==
    ASSUME SimulatorInv, NEW c \in Calls, Handle(c)
    PROVE  /\ call[c] \in Requests /\ EffectsOf(c) = {} /\ UNCHANGED <<database, call, answer>>
           /\ Untold(c) \/ \E e \in Events : Told(c, e)
<1>1. /\ call[c] \in Requests /\ EffectsOf(c) = {} /\ UNCHANGED <<database, call, answer>>
      /\ wire[c] = "request"
  BY DEF Handle, GetIssue, ListPullRequests, CreatePr, UpdateIssueStatus, Refuse, Respond,
         SimulatorInv, SimulatorTypeOK, CallsOK
<1>2. CASE ListPullRequests(c) \/ Refuse(c)
  BY <1>1, <1>2 DEF ListPullRequests, Refuse, Untold
<1>3. CASE GetIssue(c)
  <2> DEFINE e == [call |-> c, type |-> "issue_read", value |-> call[c].value, pr |-> 0]
  <2>1. e \in Events
    BY <1>1, <1>3 DEF GetIssue, Requests, Events, Statuses, Targets
  <2> QED BY <1>1, <1>3, <2>1 DEF GetIssue, Record, Told, IsWriteOf
<1>4. CASE CreatePr(c)
  <2> DEFINE e == [call |-> c, type |-> "pr_created", value |-> call[c].value, pr |-> Len(prs')]
  <2>1. call[c].value \in Targets /\ prs' = Append(prs, call[c].value)
    BY <1>1, <1>4 DEF CreatePr, Requests
  <2>2. Len(prs') \in Nat
    BY <2>1, Appended DEF SimulatorInv, SimulatorTypeOK
  <2>3. e \in Events
    BY <2>1, <2>2 DEF Events
  <2> QED BY <1>1, <1>4, <2>1, <2>3 DEF CreatePr, Record, Told, IsWriteOf
<1>5. CASE UpdateIssueStatus(c)
  <2> DEFINE e == [call |-> c, type |-> "issue_status_updated", value |-> call[c].value, pr |-> 0]
  <2>1. call[c].value \in Statuses
    BY <1>1, <1>5 DEF UpdateIssueStatus, Requests
  <2>2. e \in Events
    BY <2>1 DEF Events
  <2> QED BY <1>1, <1>5, <2>1, <2>2 DEF UpdateIssueStatus, Record, Told, IsWriteOf
<1> QED BY <1>2, <1>3, <1>4, <1>5 DEF Handle

LEMMA HandleKeepsCalls ==
    ASSUME SimulatorInv, NEW c \in Calls, Handle(c)
    PROVE  CallsOK'
<1>1. CASE Untold(c)
  <2>1. \A d : EffectsOf(d)' = EffectsOf(d)
    BY <1>1 DEF EffectsOf, Untold
  <2>2. EffectsOf(c) = {}
    BY HandleRecords
  <2> QED BY <1>1, <2>1, <2>2, RespondKeepsCalls DEF Untold
<1>2. ASSUME NEW e \in Events, Told(c, e) PROVE CallsOK'
  <2>1. \A d : EffectsOf(d)' = EffectsOf(d) \cup (IF e.call = d THEN {Len(events) + 1} ELSE {})
    BY <1>2, Recorded DEF SimulatorInv, Told
  <2>2. EffectsOf(c)' = {Len(events) + 1} /\ \A d \in Calls \ {c} : EffectsOf(d)' = EffectsOf(d)
    BY <1>2, <2>1, HandleRecords DEF Told
  <2>3. EffectsOf(c)' # {} /\ \A i, j \in EffectsOf(c)' : i = j
    BY <2>2
  <2> QED BY <1>2, <2>2, <2>3, RespondKeepsCalls DEF Told
<1> QED BY <1>1, <1>2, HandleRecords

(* One step of the tables: an event with its write, or nothing.             *)
LEMMA WritesAreExplained ==
    ASSUME SimulatorTypeOK, EventsExplainState, NEW e \in Events, events' = Append(events, e), IsWriteOf(e)
    PROVE  EventsExplainState' /\ events' \in Seq(Events) /\ prs' \in Seq(Targets) /\ status' \in Statuses
<1> DEFINE last == Len(events) + 1
<1>1. /\ events' \in Seq(Events) /\ last \in Nat
      /\ \A t : Of(t)' = Of(t) \cup (IF e.type = t THEN {last} ELSE {})
      /\ events'[last] = e
      /\ \A i \in DOMAIN events : i \in Nat /\ i < last /\ events'[i] = events[i]
  BY Recorded
<1>3. prs \in Seq(Targets) /\ status \in Statuses
  BY DEF SimulatorTypeOK
<1> DEFINE created == Of("pr_created")
           updated == Of("issue_status_updated")
<1>2. /\ \A i \in created : i \in Nat /\ i < last /\ events'[i] = events[i]
      /\ \A i \in updated : i \in Nat /\ i < last /\ events'[i] = events[i]
  BY <1>1 DEF Of
<1>4. /\ {events[i].pr : i \in created} = DOMAIN prs
      /\ \A i \in created : events[i].value = prs[events[i].pr]
      /\ \A i, j \in created : i < j => events[i].pr < events[j].pr
      /\ updated = {} => status = "open"
      /\ \A i \in updated : (\A j \in updated : j <= i) => status = events[i].value
  BY DEF EventsExplainState
<1>7. \A i \in created : events[i].pr \in DOMAIN prs
  BY <1>4
<1> HIDE DEF last, created, updated
<1>5. CASE e.type = "pr_created"
  <2>1. PICK target \in Targets : prs' = Append(prs, target) /\ e.value = target
    BY <1>5 DEF IsWriteOf
  <2>2. /\ prs' \in Seq(Targets) /\ Len(prs') = Len(prs) + 1 /\ Len(prs) \in Nat
        /\ DOMAIN prs' = DOMAIN prs \cup {Len(prs) + 1} /\ prs'[Len(prs) + 1] = target
        /\ \A n \in DOMAIN prs : n \in Nat /\ n < Len(prs) + 1 /\ prs'[n] = prs[n]
    BY <1>3, <2>1, Appended
  <2>3. created' = created \cup {last} /\ updated' = updated
    BY <1>1, <1>5 DEF created, updated
  <2>4. e.pr = Len(prs) + 1 /\ UNCHANGED status
    BY <1>5, <2>2 DEF IsWriteOf
  <2>5. {events'[i].pr : i \in created'} = DOMAIN prs'
    <3>1. {events'[i].pr : i \in created'} = {events[i].pr : i \in created} \cup {e.pr}
      BY <1>1, <1>2, <2>3
    <3> QED BY <1>4, <2>2, <2>4, <3>1
  <2>6. \A i \in created' : events'[i].value = prs'[events'[i].pr]
    <3>1. \A i \in created : events'[i].value = prs'[events'[i].pr]
      <4> TAKE i \in created
      <4>1. events'[i] = events[i] /\ events[i].pr \in DOMAIN prs
        BY <1>2, <1>7
      <4>2. prs'[events[i].pr] = prs[events[i].pr]
        BY <2>2, <4>1
      <4> QED BY <1>4, <4>1, <4>2
    <3>2. events'[last].value = prs'[events'[last].pr]
      BY <1>1, <2>1, <2>2, <2>4
    <3> QED BY <2>3, <3>1, <3>2
  <2>7. \A i, j \in created' : i < j => events'[i].pr < events'[j].pr
    <3>1. \A i, j \in created : i < j => events'[i].pr < events'[j].pr
      BY <1>2, <1>4
    <3>2. \A i \in created : events'[i].pr < events'[last].pr /\ ~(last < i)
      <4> TAKE i \in created
      <4>1. events'[i] = events[i] /\ events[i].pr \in DOMAIN prs /\ i \in Nat /\ i < last
        BY <1>2, <1>7
      <4>2. events[i].pr < Len(prs) + 1
        BY <2>2, <4>1
      <4>3. ~(last < i)
        BY <1>1, <4>1
      <4> QED BY <1>1, <2>4, <4>1, <4>2, <4>3
    <3>3. ~(last < last)
      BY <1>1
    <3> QED BY <2>3, <3>1, <3>2, <3>3
  <2>8. \A i \in updated' : (\A j \in updated' : j <= i) => status' = events'[i].value
    BY <1>2, <1>4, <2>3, <2>4
  <2> QED BY <1>1, <1>3, <1>4, <2>2, <2>3, <2>4, <2>5, <2>6, <2>7, <2>8 DEF EventsExplainState, created, updated
<1>6. CASE e.type # "pr_created"
  <2>1. created' = created /\ UNCHANGED prs
    BY <1>1, <1>6 DEF created, IsWriteOf
  <2>2. /\ {events'[i].pr : i \in created'} = DOMAIN prs'
        /\ \A i \in created' : events'[i].value = prs'[events'[i].pr]
        /\ \A i, j \in created' : i < j => events'[i].pr < events'[j].pr
    <3>1. \A i \in created : events'[i] = events[i]
      BY <1>2
    <3>2. {events'[i].pr : i \in created} = {events[i].pr : i \in created}
      BY <3>1
    <3>3. \A i \in created : events'[i].value = prs[events'[i].pr]
      BY <1>4, <3>1
    <3>4. \A i, j \in created : i < j => events'[i].pr < events'[j].pr
      BY <1>4, <3>1
    <3> QED BY <1>4, <2>1, <3>2, <3>3, <3>4
  <2>3. /\ updated' = {} => status' = "open"
        /\ \A i \in updated' : (\A j \in updated' : j <= i) => status' = events'[i].value
    <3>1. CASE e.type = "issue_read"
      <4>1. updated' = updated /\ UNCHANGED status
        BY <1>1, <3>1 DEF updated, IsWriteOf
      <4> QED BY <1>2, <1>4, <4>1
    <3>2. CASE e.type = "issue_status_updated"
      <4>1. updated' = updated \cup {last} /\ status' = e.value
        BY <1>1, <3>2 DEF updated, IsWriteOf
      <4>2. \A i \in updated : ~(last <= i)
        BY <1>1, <1>2
      <4> QED BY <1>1, <4>1, <4>2
    <3> QED BY <1>6, <3>1, <3>2 DEF IsWriteOf
  <2>4. status' \in Statuses /\ prs' \in Seq(Targets)
    BY <1>3, <1>6, <2>1 DEF IsWriteOf
  <2>5. EventsExplainState'
    BY <2>2, <2>3 DEF EventsExplainState, created, updated
  <2> QED BY <1>1, <2>4, <2>5
<1> QED BY <1>5, <1>6

LEMMA HandleKeeps ==
    ASSUME SimulatorInv, NEW c \in Calls, Handle(c)
    PROVE  SimulatorInv'
<1>1. CallsOK'
  BY HandleKeepsCalls
<1>2. EventsExplainState' /\ events' \in Seq(Events) /\ prs' \in Seq(Targets) /\ status' \in Statuses
  <2>1. CASE Untold(c)
    BY <2>1 DEF Untold, SimulatorInv, SimulatorTypeOK, EventsExplainState, Of
  <2>2. ASSUME NEW e \in Events, Told(c, e)
        PROVE  EventsExplainState' /\ events' \in Seq(Events) /\ prs' \in Seq(Targets) /\ status' \in Statuses
    BY <2>2, WritesAreExplained DEF Told, SimulatorInv
  <2> QED BY <2>1, <2>2, HandleRecords
<1>3. UNCHANGED <<database, call, answer>> /\ wire' \in [Calls -> {"idle", "request", "success", "failure"}]
  <2>1. UNCHANGED <<database, call, answer>>
    BY HandleRecords
  <2>2. Respond(c, "failure") \/ Respond(c, "success")
    BY HandleRecords DEF Untold, Told
  <2> QED BY <2>1, <2>2 DEF Respond, SimulatorInv, SimulatorTypeOK
<1> QED BY <1>1, <1>2, <1>3 DEF SimulatorInv, SimulatorTypeOK

(* The MCP server, and the removal of the database, leave the tables alone. *)
LEMMA TalkKeeps ==
    ASSUME SimulatorInv, NEW c \in Calls, Ask(c) \/ AskForeign(c) \/ Tell(c) \/ GiveUp(c)
    PROVE  SimulatorInv'
<1>1. UNCHANGED <<database, status, prs, events>>
  BY DEF Ask, AskForeign, Tell, GiveUp
<1>2. EventsExplainState' /\ \A d : EffectsOf(d)' = EffectsOf(d)
  BY <1>1 DEF SimulatorInv, EventsExplainState, Of, EffectsOf
<1>3. \A request \in Requests : request # NoCall
  BY DEF Requests, NoCall
<1>4. SimulatorTypeOK'
  BY <1>1 DEF SimulatorInv, SimulatorTypeOK, Ask, AskForeign, Tell, GiveUp
<1>5. CallsOK'
  <2>1. CASE Ask(c)
    BY <1>2, <1>3, <2>1 DEF Ask, SimulatorInv, SimulatorTypeOK, CallsOK
  <2>2. CASE AskForeign(c)
    BY <1>2, <1>3, <2>2 DEF AskForeign, SimulatorInv, SimulatorTypeOK, CallsOK
  <2>3. CASE Tell(c)
    BY <1>2, <2>3 DEF Tell, SimulatorInv, SimulatorTypeOK, CallsOK
  <2>4. CASE GiveUp(c)
    BY <1>2, <2>4 DEF GiveUp, SimulatorInv, SimulatorTypeOK, CallsOK
  <2> QED BY <2>1, <2>2, <2>3, <2>4
<1> QED BY <1>2, <1>4, <1>5 DEF SimulatorInv

LEMMA SimulatorStutters ==
    ASSUME SimulatorInv, UNCHANGED <<status, prs, events, call, wire, answer>>, database' \in BOOLEAN
    PROVE  SimulatorInv'
BY DEF SimulatorInv, SimulatorTypeOK, EventsExplainState, CallsOK, Of, EffectsOf

LEMMA SimulatorStepInv == SimulatorInv /\ [SimulatorNext]_simulator => SimulatorInv'
<1> SUFFICES ASSUME SimulatorInv, [SimulatorNext]_simulator PROVE SimulatorInv'
  OBVIOUS
<1>1. CASE Talk
  BY <1>1, TalkKeeps, HandleKeeps DEF Talk
<1>2. CASE CleanUp
  BY <1>2, SimulatorStutters DEF CleanUp
<1>3. CASE UNCHANGED simulator
  BY <1>3, SimulatorStutters DEF simulator, SimulatorInv, SimulatorTypeOK
<1> QED BY <1>1, <1>2, <1>3 DEF SimulatorNext

(* The strengthened invariant of the simulator, for any calls.              *)
THEOREM SimulatorInvariant == SimulatorSpec => []SimulatorInv
  BY SimulatorInitInv, SimulatorStepInv, PTL DEF SimulatorSpec

(* simulator.py: each write of the Agent has its event in the same          *)
(* transaction, for any number of calls and whatever of them is refused,    *)
(* given up or late.                                                        *)
THEOREM EventsExplain == SimulatorSpec => []EventsExplainState
<1>1. SimulatorInv => EventsExplainState
  BY DEF SimulatorInv
<1> QED BY <1>1, SimulatorInvariant, PTL

(* mcp-server.mjs: what the Agent is told of a call is true of that call.   *)
THEOREM AnswersTellTheTruth == SimulatorSpec => []AnswersAreTrue
<1>1. SimulatorInv => AnswersAreTrue
  BY DEF SimulatorInv, CallsOK, AnswersAreTrue
<1> QED BY <1>1, SimulatorInvariant, PTL

(* The requests that arrive while a task is scored are explained as well.   *)
LEMMA ScoringKeepsSimulator == SimulatorInv /\ [Next]_vars => SimulatorInv'
<1> SUFFICES ASSUME SimulatorInv, [Next]_vars PROVE SimulatorInv'
  OBVIOUS
<1>1. CASE LateRequest
  BY <1>1, HandleKeeps DEF LateRequest
<1>2. CASE UNCHANGED simulator
  BY <1>2, SimulatorStutters DEF simulator, SimulatorInv, SimulatorTypeOK
<1>3. CASE Score
  BY <1>2, <1>3 DEF Score, List, Digest, Snapshot, SnapshotFails, Verify, Compare, SelectIssue,
                    SelectPullRequests, SelectFails, Judge, Goto
<1>4. CASE StrayWrite
  BY <1>2, <1>4 DEF StrayWrite
<1>5. CASE UNCHANGED vars
  BY <1>2, <1>5 DEF vars
<1> QED BY <1>1, <1>3, <1>4, <1>5 DEF Next

(* Scoring begins in a state of the simulator, with requests on their way,  *)
(* and what the verdict is read from is explained by events throughout.     *)
THEOREM ScoredStateIsExplained == Spec => [](EventsExplainState /\ AnswersAreTrue)
<1>1. Init => SimulatorInv
  <2> SUFFICES ASSUME Init PROVE SimulatorInv
    OBVIOUS
  <2>1. events = <<>> /\ prs = <<>> /\ Of("pr_created") = {} /\ Of("issue_status_updated") = {}
    BY DEF Init, Of
  <2>2. \A c \in Calls : EffectsOf(c) = {}
    BY <2>1 DEF EffectsOf
  <2>3. SimulatorTypeOK
    BY <2>1 DEF Init, SimulatorTypeOK, Statuses
  <2>4. EventsExplainState
    BY <2>1 DEF Init, EventsExplainState
  <2>5. CallsOK
    BY <2>2 DEF Init, CallsOK
  <2> QED BY <2>3, <2>4, <2>5 DEF SimulatorInv
<1>2. SimulatorInv => EventsExplainState /\ AnswersAreTrue
  BY DEF SimulatorInv, CallsOK, AnswersAreTrue
<1> QED BY <1>1, <1>2, ScoringKeepsSimulator, PTL DEF Spec
=============================================================================
