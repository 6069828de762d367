---------------------------- MODULE CaseGateProofs ----------------------------
(***************************************************************************)
(* What is stored of a Blueprint's Cases is right for any services, any    *)
(* number of variants and generations.  The argument follows a generation:  *)
(* its name is its own, its drafts are the variants so far, and a gate with *)
(* nothing against it holds every part of its Case that is on the disk.     *)
(***************************************************************************)
EXTENDS CaseGate, Integers, TLAPS

(* Generations under way have names of their own, which no stored Case and  *)
(* no file of an earlier generation has.                                    *)
NamesAreOwn ==
    /\ \A s \in Services : pc[s] # "idle" => gate[s].generation \in 1 .. generations
    /\ \A s, u \in Services :
          s # u /\ pc[s] # "idle" /\ pc[u] # "idle" => gate[s].generation # gate[u].generation
    /\ \A s \in Services : \A c \in cases :
          pc[s] # "idle" => gate[s].generation # c.id.generation
    /\ \A c \in cases : c.id.generation \in 1 .. generations
    /\ \A d \in disk : d[1].generation \in 1 .. generations
    /\ \A s \in Services : \A d \in disk :
          pc[s] # "idle" /\ d[1].generation = gate[s].generation => d[1].variant <= gate[s].variant

(* How many variants a generation has drafted. *)
Drafted(s) == IF pc[s] = "save" THEN LastVariant + 1 ELSE gate[s].variant

(* The drafts are those variants, once each, derived from the first.        *)
DraftsAreVariants ==
    \A s \in Services : pc[s] # "idle" =>
        /\ \A v \in Variants : v < Drafted(s) => \E c \in drafts[s] : c.id.variant = v
        /\ \A c \in drafts[s] :
              /\ c.id.generation = gate[s].generation /\ c.id.variant < Drafted(s)
              /\ c.parent = [generation |-> gate[s].generation, variant |-> 0]
        /\ \A c, d \in drafts[s] : c.id.variant = d.id.variant => c = d

(* A gate with nothing against it holds what its Case has on the disk.      *)
GoodGateHolds ==
    \A s \in Services : pc[s] \in GateSteps /\ gate[s].good =>
        \A part \in Parts : <<CaseId(s), part>> \in disk => part \in gate[s].held

PassedDraftLeavesNothing ==
    \A s \in Services : pc[s] # "idle" =>
        \A c \in drafts[s] : c.passed => \A part \in Parts : <<c.id, part>> \notin disk

IdleIsEmpty == \A s \in Services : pc[s] = "idle" => drafts[s] = {}

IInv ==
    /\ TypeOK /\ NamesAreOwn /\ IdleIsEmpty /\ DraftsAreVariants /\ GoodGateHolds
    /\ PassedDraftLeavesNothing /\ CasesAreOneGeneration /\ PassedGateLeavesNothing

-----------------------------------------------------------------------------
LEMMA GateTypes ==
    ASSUME NEW g \in 0 .. MaxGenerations, NEW v \in Variants
    PROVE  /\ NoGate \in Gates
           /\ [NoGate EXCEPT !.generation = g, !.variant = v] \in Gates
           /\ [NoGate EXCEPT !.generation = g] \in Gates
<1>1. NoGate \in Gates
  <2>1. 0 \in Variants /\ 0 \in 0 .. MaxGenerations
    BY VariantAssumption DEF Variants
  <2> QED BY <2>1 DEF NoGate, Gates
<1>2. [NoGate EXCEPT !.generation = g] \in Gates
  BY <1>1 DEF Gates
<1>3. [NoGate EXCEPT !.generation = g, !.variant = v] \in Gates
  BY <1>1 DEF Gates
<1> QED BY <1>1, <1>2, <1>3

LEMMA InitInvariant == Init => IInv
<1> SUFFICES ASSUME Init PROVE IInv
  OBVIOUS
<1>1. TypeOK
  <2>1. generations \in 0 .. MaxGenerations
    BY VariantAssumption DEF Init
  <2>2. gate \in [Services -> Gates]
    <3>1. 0 \in Variants /\ 0 \in 0 .. MaxGenerations
      BY VariantAssumption DEF Variants
    <3> QED BY <3>1, GateTypes DEF Init
  <2>3. pc \in [Services -> GateSteps \cup {"idle", "save"}] /\ drafts \in [Services -> SUBSET CaseRecords]
    BY DEF Init
  <2>4. cases \subseteq CaseRecords /\ disk \subseteq CaseIds \X Parts
    BY DEF Init
  <2> QED BY <2>1, <2>2, <2>3, <2>4 DEF TypeOK
<1>2. NamesAreOwn /\ DraftsAreVariants /\ IdleIsEmpty
  BY DEF Init, NamesAreOwn, DraftsAreVariants, IdleIsEmpty
<1>3. GoodGateHolds /\ PassedDraftLeavesNothing
  BY DEF Init, GoodGateHolds, PassedDraftLeavesNothing, GateSteps
<1>4. CasesAreOneGeneration /\ PassedGateLeavesNothing
  BY DEF Init, CasesAreOneGeneration, PassedGateLeavesNothing
<1> QED BY <1>1, <1>2, <1>3, <1>4 DEF IInv

LEMMA CaseIdType ==
    ASSUME IInv, NEW s \in Services, pc[s] # "idle"
    PROVE  CaseId(s) \in CaseIds
BY VariantAssumption DEF IInv, TypeOK, NamesAreOwn, CaseId, CaseIds, Gates

(* A step within a gate that touches only the files of its Case keeps the   *)
(* invariant, if the gate holds them or has something against it.           *)
LEMMA GateKeeps ==
    ASSUME IInv, NEW s \in Services, pc[s] \in GateSteps,
           UNCHANGED <<cases, generations, drafts>>,
           pc' \in [Services -> GateSteps \cup {"idle", "save"}], pc'[s] \in GateSteps,
           \A u \in Services \ {s} : pc'[u] = pc[u],
           gate' \in [Services -> Gates],
           \A u \in Services \ {s} : gate'[u] = gate[u],
           gate'[s].generation = gate[s].generation, gate'[s].variant = gate[s].variant,
           disk' \subseteq disk \cup {<<CaseId(s), part>> : part \in Parts},
           disk \subseteq disk' \cup {<<CaseId(s), part>> : part \in Parts},
           gate'[s].good => \A part \in Parts : <<CaseId(s), part>> \in disk' => part \in gate'[s].held
    PROVE  IInv'
<1> USE DEF IInv
<1>1. CaseId(s) \in CaseIds /\ CaseId(s)' = CaseId(s) /\ pc[s] # "idle" /\ pc[s] # "save"
      /\ pc'[s] # "idle" /\ pc'[s] # "save"
  BY CaseIdType DEF CaseId, GateSteps
<1>2. \A u \in Services : CaseId(u)' = CaseId(u) /\ Drafted(u)' = Drafted(u)
                          /\ gate'[u].generation = gate[u].generation
                          /\ gate'[u].variant = gate[u].variant
                          /\ (pc'[u] = "idle" <=> pc[u] = "idle")
  BY <1>1 DEF CaseId, Drafted
<1>3. \A d \in disk' : d \in disk \/ \E part \in Parts : d = <<CaseId(s), part>>
  OBVIOUS
<1>4. TypeOK'
  BY <1>1, <1>3 DEF TypeOK
<1>5. NamesAreOwn'
  <2>1. \A d \in disk' : d \in disk \/ d[1] = CaseId(s)
    BY <1>3
  <2>2. CaseId(s).generation = gate[s].generation /\ CaseId(s).variant = gate[s].variant
    BY DEF CaseId
  <2>3. gate[s].variant \in Nat
    BY VariantAssumption DEF TypeOK, Gates, Variants
  <2> QED BY <1>1, <1>2, <2>1, <2>2, <2>3 DEF NamesAreOwn
<1>6. DraftsAreVariants'
  BY <1>2 DEF DraftsAreVariants
<1>7. GoodGateHolds'
  <2> SUFFICES ASSUME NEW u \in Services, pc'[u] \in GateSteps, gate'[u].good,
                      NEW part \in Parts, <<CaseId(u), part>> \in disk'
               PROVE  part \in gate'[u].held
    BY <1>2 DEF GoodGateHolds
  <2>1. CASE u = s
    BY <2>1
  <2>2. CASE u # s
    <3>1. pc[u] \in GateSteps /\ pc[u] # "idle" /\ gate'[u] = gate[u]
      BY <2>2 DEF GateSteps
    <3>2. CaseId(u) # CaseId(s)
      BY <1>1, <2>2, <3>1 DEF NamesAreOwn, CaseId
    <3>3. <<CaseId(u), part>> \in disk
      BY <1>3, <3>2
    <3> QED BY <3>1, <3>3 DEF GoodGateHolds
  <2> QED BY <2>1, <2>2
<1>8. PassedDraftLeavesNothing'
  <2> SUFFICES ASSUME NEW u \in Services, pc[u] # "idle", NEW c \in drafts[u], c.passed, NEW part \in Parts
               PROVE  <<c.id, part>> \notin disk'
    BY <1>2 DEF PassedDraftLeavesNothing
  <2>1. c.id # CaseId(s)
    <3>1. CASE u = s
      <4>1. c.id.variant < gate[s].variant
        BY <1>1, <3>1 DEF DraftsAreVariants, Drafted
      <4>2. gate[s].variant \in Int
        BY VariantAssumption DEF TypeOK, Gates, Variants
      <4> QED BY <4>1, <4>2 DEF CaseId
    <3>2. CASE u # s
      <4>1. c.id.generation = gate[u].generation
        BY DEF DraftsAreVariants
      <4>2. gate[u].generation # gate[s].generation
        BY <1>1, <3>2 DEF NamesAreOwn
      <4> QED BY <4>1, <4>2 DEF CaseId
    <3> QED BY <3>1, <3>2
  <2>2. <<c.id, part>> \notin disk
    BY DEF PassedDraftLeavesNothing
  <2> QED BY <1>3, <2>1, <2>2
<1>9. PassedGateLeavesNothing'
  <2> SUFFICES ASSUME NEW c \in cases, c.passed, NEW part \in Parts
               PROVE  <<c.id, part>> \notin disk'
    BY DEF PassedGateLeavesNothing
  <2>1. c.id # CaseId(s)
    BY <1>1 DEF NamesAreOwn, CaseId
  <2>2. <<c.id, part>> \notin disk
    BY DEF PassedGateLeavesNothing
  <2> QED BY <1>3, <2>1, <2>2
<1>10. CasesAreOneGeneration' /\ IdleIsEmpty'
  BY <1>2 DEF CasesAreOneGeneration, IdleIsEmpty
<1> QED BY <1>4, <1>5, <1>6, <1>7, <1>8, <1>9, <1>10

LEMMA StepTypes ==
    ASSUME IInv, NEW s \in Services, NEW held \in SUBSET Worktrees,
           NEW first \in {"none", "exact", "other"}, NEW good \in BOOLEAN
    PROVE  /\ [gate EXCEPT ![s].held = held] \in [Services -> Gates]
           /\ [gate EXCEPT ![s].first = first] \in [Services -> Gates]
           /\ [gate EXCEPT ![s].good = good] \in [Services -> Gates]
           /\ [gate EXCEPT ![s].first = first, ![s].good = good] \in [Services -> Gates]
BY DEF IInv, TypeOK, Gates

(* An exception in the gate, whatever became of a file of its Case.         *)
LEMMA RaiseKeeps ==
    ASSUME IInv, NEW s \in Services, pc[s] \in GateSteps, Raise(s),
           UNCHANGED <<cases, generations, drafts>>,
           disk' \subseteq disk \cup {<<CaseId(s), part>> : part \in Parts},
           disk \subseteq disk' \cup {<<CaseId(s), part>> : part \in Parts}
    PROVE  IInv'
<1>1. gate' \in [Services -> Gates]
  BY StepTypes DEF Raise, IInv, TypeOK, Gates
<1>2. /\ \A u \in Services \ {s} : gate'[u] = gate[u]
      /\ gate'[s].generation = gate[s].generation /\ gate'[s].variant = gate[s].variant
      /\ ~gate'[s].good
  BY DEF Raise, IInv, TypeOK, Gates
<1>3. /\ pc' \in [Services -> GateSteps \cup {"idle", "save"}] /\ pc'[s] \in GateSteps
      /\ \A u \in Services \ {s} : pc'[u] = pc[u]
  BY DEF Raise, Goto, IInv, TypeOK, GateSteps
<1> QED BY <1>1, <1>2, <1>3, GateKeeps

LEMMA MaterializeKeeps ==
    ASSUME IInv, NEW s \in Services, pc[s] \in GateSteps,
           NEW tree \in Worktrees, NEW next \in GateSteps, Materialize(s, tree, next)
    PROVE  IInv'
<1>1. CASE Raise(s)
  BY <1>1, RaiseKeeps DEF Materialize, Parts
<1>2. CASE /\ gate' = [gate EXCEPT ![s].held = @ \cup {tree}]
           /\ disk' = disk \cup {<<CaseId(s), tree>>}
           /\ Goto(s, next)
  <2>1. gate' \in [Services -> Gates]
    <3>1. gate[s].held \cup {tree} \in SUBSET Worktrees
      BY DEF IInv, TypeOK, Gates
    <3> QED BY <1>2, <3>1, StepTypes
  <2>2. /\ \A u \in Services \ {s} : gate'[u] = gate[u]
        /\ gate'[s].generation = gate[s].generation /\ gate'[s].variant = gate[s].variant
        /\ gate'[s].good = gate[s].good /\ gate'[s].held = gate[s].held \cup {tree}
    BY <1>2 DEF IInv, TypeOK, Gates
  <2>3. /\ pc' \in [Services -> GateSteps \cup {"idle", "save"}] /\ pc'[s] \in GateSteps
        /\ \A u \in Services \ {s} : pc'[u] = pc[u]
    BY <1>2 DEF Goto, IInv, TypeOK
  <2>4. gate'[s].good => \A part \in Parts : <<CaseId(s), part>> \in disk' => part \in gate'[s].held
    BY <1>2, <2>2 DEF IInv, GoodGateHolds
  <2>5. disk' \subseteq disk \cup {<<CaseId(s), part>> : part \in Parts} /\ disk \subseteq disk'
    BY <1>2 DEF Parts
  <2> QED BY <2>1, <2>2, <2>3, <2>4, <2>5, GateKeeps DEF Materialize
<1> QED BY <1>1, <1>2 DEF Materialize

LEMMA DropKeeps ==
    ASSUME IInv, NEW s \in Services, pc[s] \in GateSteps,
           NEW tree \in Worktrees, NEW next \in GateSteps, Drop(s, tree, next)
    PROVE  IInv'
<1>1. CASE Raise(s)
  BY <1>1, RaiseKeeps DEF Drop, Parts
<1>2. CASE /\ disk' = disk \ {<<CaseId(s), tree>>}
           /\ gate' = [gate EXCEPT ![s].held = @ \ {tree}]
           /\ Goto(s, next)
  <2>1. gate' \in [Services -> Gates]
    <3>1. gate[s].held \ {tree} \in SUBSET Worktrees
      BY DEF IInv, TypeOK, Gates
    <3> QED BY <1>2, <3>1, StepTypes
  <2>2. /\ \A u \in Services \ {s} : gate'[u] = gate[u]
        /\ gate'[s].generation = gate[s].generation /\ gate'[s].variant = gate[s].variant
        /\ gate'[s].good = gate[s].good /\ gate'[s].held = gate[s].held \ {tree}
    BY <1>2 DEF IInv, TypeOK, Gates
  <2>3. /\ pc' \in [Services -> GateSteps \cup {"idle", "save"}] /\ pc'[s] \in GateSteps
        /\ \A u \in Services \ {s} : pc'[u] = pc[u]
    BY <1>2 DEF Goto, IInv, TypeOK
  <2>4. gate'[s].good => \A part \in Parts : <<CaseId(s), part>> \in disk' => part \in gate'[s].held
    BY <1>2, <2>2 DEF IInv, GoodGateHolds
  <2>5. disk' \subseteq disk /\ disk \subseteq disk' \cup {<<CaseId(s), part>> : part \in Parts}
    BY <1>2 DEF Parts
  <2> QED BY <2>1, <2>2, <2>3, <2>4, <2>5, GateKeeps DEF Drop
<1> QED BY <1>1, <1>2 DEF Drop

(* A step that looks at the Case and changes no file.                       *)
LEMMA LookKeeps ==
    ASSUME IInv, NEW s \in Services, pc[s] \in GateSteps,
           UNCHANGED <<cases, generations, drafts, disk>>,
           gate' \in [Services -> Gates],
           \A u \in Services \ {s} : gate'[u] = gate[u],
           gate'[s].generation = gate[s].generation, gate'[s].variant = gate[s].variant,
           gate'[s].held = gate[s].held, gate'[s].good => gate[s].good,
           NEW next \in GateSteps, Goto(s, next)
    PROVE  IInv'
<1>1. /\ pc' \in [Services -> GateSteps \cup {"idle", "save"}] /\ pc'[s] \in GateSteps
      /\ \A u \in Services \ {s} : pc'[u] = pc[u]
  BY DEF Goto, IInv, TypeOK
<1>2. gate'[s].good => \A part \in Parts : <<CaseId(s), part>> \in disk' => part \in gate'[s].held
  BY DEF IInv, GoodGateHolds
<1> QED BY <1>1, <1>2, GateKeeps

LEMMA VerifyKeeps ==
    ASSUME IInv, NEW s \in Services, pc[s] \in GateSteps, NEW next \in GateSteps, Verify(s, next)
    PROVE  IInv'
<1>1. CASE Raise(s)
  BY <1>1, RaiseKeeps DEF Verify
<1>2. ASSUME NEW required \in BOOLEAN, gate' = [gate EXCEPT ![s].good = @ /\ required], Goto(s, next)
      PROVE  IInv'
  <2>1. gate' \in [Services -> Gates]
    <3>1. (gate[s].good /\ required) \in BOOLEAN
      OBVIOUS
    <3> QED BY <1>2, <3>1, StepTypes
  <2>2. /\ \A u \in Services \ {s} : gate'[u] = gate[u]
        /\ gate'[s].generation = gate[s].generation /\ gate'[s].variant = gate[s].variant
        /\ gate'[s].held = gate[s].held /\ gate'[s].good => gate[s].good
    BY <1>2 DEF IInv, TypeOK, Gates
  <2> QED BY <1>2, <2>1, <2>2, LookKeeps DEF Verify
<1> QED BY <1>1, <1>2 DEF Verify

LEMMA FingerprintKeeps ==
    ASSUME IInv, NEW s \in Services, Fingerprint(s) \/ CompareReset(s)
    PROVE  IInv'
<1>0. pc[s] \in GateSteps /\ UNCHANGED <<cases, generations, drafts, disk>>
  BY DEF Fingerprint, CompareReset, GateSteps
<1>1. CASE Raise(s)
  BY <1>0, <1>1, RaiseKeeps
<1>2. ASSUME NEW content \in {"exact", "other"}, Goto(s, "dropBaseline"),
             gate' = [gate EXCEPT ![s].first = content]
      PROVE  IInv'
  <2>1. gate' \in [Services -> Gates]
    BY <1>2, StepTypes
  <2>2. /\ \A u \in Services \ {s} : gate'[u] = gate[u]
        /\ gate'[s].generation = gate[s].generation /\ gate'[s].variant = gate[s].variant
        /\ gate'[s].held = gate[s].held /\ gate'[s].good = gate[s].good
    BY <1>2 DEF IInv, TypeOK, Gates
  <2> QED BY <1>0, <1>2, <2>1, <2>2, LookKeeps DEF GateSteps
<1>3. ASSUME NEW content \in {"exact", "other"}, Goto(s, "runBaseline"),
             gate' = [gate EXCEPT ![s].first = "none", ![s].good = @ /\ gate[s].first = content]
      PROVE  IInv'
  <2>1. gate' \in [Services -> Gates]
    <3>1. (gate[s].good /\ gate[s].first = content) \in BOOLEAN
      OBVIOUS
    <3> QED BY <1>3, <3>1, StepTypes
  <2>2. /\ \A u \in Services \ {s} : gate'[u] = gate[u]
        /\ gate'[s].generation = gate[s].generation /\ gate'[s].variant = gate[s].variant
        /\ gate'[s].held = gate[s].held /\ gate'[s].good => gate[s].good
    BY <1>3 DEF IInv, TypeOK, Gates
  <2> QED BY <1>0, <1>3, <2>1, <2>2, LookKeeps DEF GateSteps
<1> QED BY <1>1, <1>2, <1>3 DEF Fingerprint, CompareReset

(* A handler ends: its generation is forgotten, its files are not.          *)
LEMMA ReturnKeeps ==
    ASSUME IInv, NEW s \in Services, Return(s), UNCHANGED <<generations, disk>>, cases' \subseteq CaseRecords,
           CasesAreOneGeneration', PassedGateLeavesNothing',
           \A c \in cases' : c \in cases \/ (pc[s] # "idle" /\ c.id.generation = gate[s].generation)
    PROVE  IInv'
<1> USE DEF IInv
<1>1. TypeOK'
  <2>1. gate' \in [Services -> Gates]
    <3>1. 0 \in 0 .. MaxGenerations /\ 0 \in Variants
      BY VariantAssumption DEF Variants
    <3> QED BY <3>1, GateTypes DEF Return, TypeOK
  <2> QED BY <2>1 DEF Return, Goto, TypeOK
<1>2. /\ pc'[s] = "idle" /\ \A u \in Services \ {s} : pc'[u] = pc[u] /\ gate'[u] = gate[u]
                                                    /\ drafts'[u] = drafts[u]
  BY DEF Return, Goto, TypeOK
<1>3. \A u \in Services \ {s} : CaseId(u)' = CaseId(u) /\ Drafted(u)' = Drafted(u)
  BY <1>2 DEF CaseId, Drafted
<1>4. NamesAreOwn'
  BY <1>2 DEF NamesAreOwn
<1>5. DraftsAreVariants'
  BY <1>2, <1>3 DEF DraftsAreVariants
<1>6. GoodGateHolds'
  BY <1>2, <1>3 DEF GoodGateHolds, GateSteps
<1>7. PassedDraftLeavesNothing'
  BY <1>2 DEF PassedDraftLeavesNothing
<1>8. IdleIsEmpty'
  BY <1>2 DEF IdleIsEmpty, Return, TypeOK
<1> QED BY <1>1, <1>4, <1>5, <1>6, <1>7, <1>8

LEMMA CasesAsTheyAre ==
    ASSUME IInv, UNCHANGED <<cases, disk>>
    PROVE  /\ cases' \subseteq CaseRecords /\ CasesAreOneGeneration' /\ PassedGateLeavesNothing'
           /\ \A c \in cases' : c \in cases
BY DEF IInv, TypeOK, CasesAreOneGeneration, PassedGateLeavesNothing

LEMMA GenerateKeeps ==
    ASSUME IInv, NEW s \in Services, Generate(s)
    PROVE  IInv'
<1> USE DEF IInv
<1>0. generations \in Nat /\ MaxGenerations \in Nat
  BY VariantAssumption DEF TypeOK
<1>1. TypeOK'
  <2>1. gate' \in [Services -> Gates]
    <3>1. generations + 1 \in 0 .. MaxGenerations /\ 0 \in Variants
      BY <1>0, VariantAssumption DEF Generate, Variants
    <3> QED BY <3>1, GateTypes DEF Generate, TypeOK
  <2>2. generations' \in 0 .. MaxGenerations
    BY <1>0 DEF Generate
  <2> QED BY <2>1, <2>2 DEF Generate, Goto, TypeOK, GateSteps
<1>2. /\ pc'[s] = "document" /\ pc[s] = "idle"
      /\ gate'[s].generation = generations + 1 /\ gate'[s].variant = 0
      /\ gate'[s].held = {} /\ drafts'[s] = drafts[s]
      /\ \A u \in Services \ {s} : pc'[u] = pc[u] /\ gate'[u] = gate[u] /\ drafts'[u] = drafts[u]
  BY DEF Generate, Goto, TypeOK, NoGate
<1>3. \A u \in Services \ {s} : CaseId(u)' = CaseId(u) /\ Drafted(u)' = Drafted(u)
  BY <1>2 DEF CaseId, Drafted
<1>4. CaseId(s)' = [generation |-> generations + 1, variant |-> 0] /\ Drafted(s)' = 0
  BY <1>2 DEF CaseId, Drafted
<1>5. NamesAreOwn'
  <2>1. \A g \in 1 .. generations : g # generations + 1 /\ g \in 1 .. generations + 1
    BY <1>0
  <2>2. generations + 1 \in 1 .. generations + 1
    BY <1>0
  <2> QED BY <1>2, <2>1, <2>2 DEF NamesAreOwn, Generate
<1>6. DraftsAreVariants'
  <2>1. drafts[s] = {}
    BY <1>2 DEF IdleIsEmpty
  <2> QED BY <1>2, <1>3, <1>4, <2>1, VariantAssumption DEF DraftsAreVariants, Variants
<1>7. GoodGateHolds'
  <2>1. \A part \in Parts : <<CaseId(s)', part>> \notin disk
    BY <1>0, <1>4 DEF NamesAreOwn
  <2> QED BY <1>2, <1>3, <2>1 DEF GoodGateHolds, Generate, GateSteps
<1>8. PassedDraftLeavesNothing'
  <2>1. drafts[s] = {}
    BY <1>2 DEF IdleIsEmpty
  <2> QED BY <1>2, <2>1 DEF PassedDraftLeavesNothing, Generate
<1>9. IdleIsEmpty'
  BY <1>2 DEF IdleIsEmpty
<1> QED BY <1>1, <1>5, <1>6, <1>7, <1>8, <1>9, CasesAsTheyAre DEF Generate

LEMMA DocumentKeeps ==
    ASSUME IInv, NEW s \in Services, Document(s) \/ JudgeIssue(s)
    PROVE  IInv'
<1>1. CASE Document(s) /\ Return(s)
  BY <1>1, ReturnKeeps, CasesAsTheyAre DEF Document
<1>2. CASE JudgeIssue(s) /\ Raise(s)
  BY <1>2, RaiseKeeps DEF JudgeIssue, Parts, GateSteps
<1>3. ASSUME NEW next \in GateSteps, Goto(s, next), pc[s] \in GateSteps,
             UNCHANGED <<cases, generations, gate, drafts, disk>>
      PROVE  IInv'
  BY <1>3, LookKeeps DEF IInv, TypeOK
<1> QED BY <1>1, <1>2, <1>3 DEF Document, JudgeIssue, GateSteps

LEMMA SaveCasesKeeps ==
    ASSUME IInv, NEW s \in Services, SaveCases(s)
    PROVE  IInv'
<1> USE DEF IInv
<1>1. CASE cases # {}
  BY <1>1, ReturnKeeps, CasesAsTheyAre DEF SaveCases
<1>2. CASE cases = {}
  <2>1. cases' = drafts[s] /\ pc[s] = "save" /\ pc[s] # "idle" /\ Drafted(s) = LastVariant + 1
    BY <1>2 DEF SaveCases, Drafted
  <2>2. drafts[s] \subseteq CaseRecords
    BY DEF TypeOK
  <2>3. \A v \in Variants : v \in Nat /\ v < LastVariant + 1
    BY VariantAssumption DEF Variants
  <2>4. CasesAreOneGeneration'
    <3>1. \A v \in Variants : \E c \in drafts[s] : c.id.variant = v
      <4>1. \A v \in Variants : v < Drafted(s)
        BY <2>1, <2>3
      <4> QED BY <2>1, <4>1 DEF DraftsAreVariants
    <3>2. \A c, d \in drafts[s] : (c.id.variant = d.id.variant => c = d) /\ c.id.generation = d.id.generation
      BY <2>1 DEF DraftsAreVariants
    <3>3. ASSUME NEW c \in drafts[s] PROVE \E d \in drafts[s] : d.id = c.parent /\ d.id.variant = 0
      <4>1. 0 \in Variants
        BY VariantAssumption DEF Variants
      <4>2. PICK d \in drafts[s] : d.id.variant = 0
        BY <3>1, <4>1
      <4>3. c.parent = [generation |-> gate[s].generation, variant |-> 0]
            /\ d.id.generation = gate[s].generation
        BY <2>1 DEF DraftsAreVariants
      <4>4. d.id = [generation |-> d.id.generation, variant |-> d.id.variant]
        BY <2>2 DEF CaseRecords, CaseIds
      <4> QED BY <4>2, <4>3, <4>4
    <3> QED BY <2>1, <3>1, <3>2, <3>3 DEF CasesAreOneGeneration
  <2>5. PassedGateLeavesNothing'
    BY <2>1 DEF PassedDraftLeavesNothing, PassedGateLeavesNothing, SaveCases
  <2>6. \A c \in cases' : c.id.generation = gate[s].generation
    BY <2>1 DEF DraftsAreVariants
  <2> QED BY <2>1, <2>2, <2>4, <2>5, <2>6, ReturnKeeps DEF SaveCases
<1> QED BY <1>1, <1>2

LEMMA FinallyKeeps ==
    ASSUME IInv, NEW s \in Services, Finally(s)
    PROVE  IInv'
<1> USE DEF IInv
<1> DEFINE g == gate[s].generation
           n == gate[s].variant
<1>1. PICK raised \in SUBSET gate[s].held : \E left \in SUBSET raised :
          /\ disk' = disk \ {<<CaseId(s), t>> : t \in gate[s].held \ left}
          /\ Draft(s, gate[s].good /\ raised = {})
  BY DEF Finally
<1>2. PICK left \in SUBSET raised :
          /\ disk' = disk \ {<<CaseId(s), t>> : t \in gate[s].held \ left}
          /\ Draft(s, gate[s].good /\ raised = {})
  BY <1>1
<1> DEFINE new == [id |-> CaseId(s), parent |-> [CaseId(s) EXCEPT !.variant = 0],
                   passed |-> gate[s].good /\ raised = {}]
<1>3. /\ pc[s] = "finally" /\ UNCHANGED <<cases, generations>>
      /\ Drafted(s) = n /\ CaseId(s) = [generation |-> g, variant |-> n]
      /\ CaseId(s) \in CaseIds
  BY CaseIdType DEF Finally, Drafted, CaseId
<1>4. n \in Nat /\ n <= LastVariant /\ LastVariant \in Nat /\ g \in 0 .. MaxGenerations
  BY VariantAssumption DEF TypeOK, Gates, Variants
<1>5. new \in CaseRecords /\ new.parent = [generation |-> g, variant |-> 0] /\ new.id = CaseId(s)
  <2>1. [CaseId(s) EXCEPT !.variant = 0] = [generation |-> g, variant |-> 0]
    BY <1>3
  <2>2. [CaseId(s) EXCEPT !.variant = 0] \in CaseIds
    <3>1. 0 \in Variants
      BY <1>4 DEF Variants
    <3> QED BY <1>3, <3>1 DEF CaseIds
  <2>3. (gate[s].good /\ raised = {}) \in BOOLEAN
    BY DEF TypeOK, Gates
  <2> QED BY <1>3, <2>1, <2>2, <2>3 DEF CaseRecords
<1>6. /\ drafts' = [drafts EXCEPT ![s] = drafts[s] \cup {new}]
      /\ drafts'[s] = drafts[s] \cup {new}
      /\ \A u \in Services \ {s} : drafts'[u] = drafts[u]
  BY <1>2 DEF Draft, TypeOK
<1>7. disk' \subseteq disk
  BY <1>2
<1>8. gate[s].good /\ raised = {} => \A part \in Parts : <<CaseId(s), part>> \notin disk'
  <2> SUFFICES ASSUME gate[s].good, raised = {}, NEW part \in Parts, <<CaseId(s), part>> \in disk'
               PROVE  FALSE
    OBVIOUS
  <2>1. part \in gate[s].held
    BY <1>3, <1>7 DEF GoodGateHolds, GateSteps
  <2> QED BY <1>2, <2>1
<1>9. \/ /\ n < LastVariant /\ pc' = [pc EXCEPT ![s] = "document"]
         /\ gate' = [gate EXCEPT ![s] = [NoGate EXCEPT !.generation = g, !.variant = n + 1]]
      \/ n = LastVariant /\ pc' = [pc EXCEPT ![s] = "save"] /\ gate' = gate
  BY <1>2, <1>4 DEF Draft, Goto
<1>10. /\ gate' \in [Services -> Gates] /\ pc' \in [Services -> GateSteps \cup {"idle", "save"}]
       /\ \A u \in Services \ {s} : gate'[u] = gate[u] /\ pc'[u] = pc[u]
       /\ gate'[s].generation = g /\ n <= gate'[s].variant /\ pc'[s] # "idle"
       /\ Drafted(s)' = n + 1
       /\ pc'[s] # "save" => gate'[s].variant = n + 1 /\ gate'[s].held = {}
       /\ pc'[s] \in {"document", "save"}
  <2>1. CASE n < LastVariant /\ pc' = [pc EXCEPT ![s] = "document"]
             /\ gate' = [gate EXCEPT ![s] = [NoGate EXCEPT !.generation = g, !.variant = n + 1]]
    <3>1. n + 1 \in Variants /\ n <= n + 1
      BY <1>4, <2>1 DEF Variants
    <3>2. [NoGate EXCEPT !.generation = g, !.variant = n + 1] \in Gates
      BY <1>4, <3>1, GateTypes
    <3>3. gate' \in [Services -> Gates]
      BY <2>1, <3>2 DEF TypeOK
    <3>4. pc' \in [Services -> GateSteps \cup {"idle", "save"}] /\ pc'[s] = "document"
          /\ \A u \in Services \ {s} : gate'[u] = gate[u] /\ pc'[u] = pc[u]
      BY <2>1 DEF TypeOK, GateSteps
    <3>5. gate'[s].generation = g /\ gate'[s].variant = n + 1 /\ gate'[s].held = {}
      BY <2>1 DEF TypeOK, NoGate
    <3> QED BY <3>1, <3>3, <3>4, <3>5 DEF Drafted
  <2>2. CASE n = LastVariant /\ pc' = [pc EXCEPT ![s] = "save"] /\ gate' = gate
    BY <1>4, <2>2 DEF TypeOK, Drafted
  <2> QED BY <1>9, <2>1, <2>2
<1>11. \A u \in Services \ {s} : CaseId(u)' = CaseId(u) /\ Drafted(u)' = Drafted(u)
  BY <1>10 DEF CaseId, Drafted
<1>12. TypeOK'
  BY <1>3, <1>5, <1>6, <1>7, <1>10 DEF TypeOK
<1>13. NamesAreOwn'
  <2>1. \A d \in disk' : d \in disk /\ d[1].variant \in Nat
    BY <1>7, <1>4 DEF TypeOK, CaseIds, Variants
  <2>2. ASSUME NEW d \in disk', d[1].generation = g PROVE d[1].variant <= gate'[s].variant
    <3>1. d[1].variant <= n
      BY <1>3, <2>1, <2>2 DEF NamesAreOwn
    <3>2. gate'[s].variant \in Nat
      BY <1>4, <1>10 DEF Gates, Variants
    <3> QED BY <1>4, <1>10, <2>1, <3>1, <3>2
  <2> QED BY <1>3, <1>10, <2>1, <2>2 DEF NamesAreOwn
<1>14. DraftsAreVariants'
  <2>1. ASSUME NEW v \in Variants, v < n + 1 PROVE \E c \in drafts'[s] : c.id.variant = v
    <3>1. v < n \/ v = n
      BY <1>4, <2>1 DEF Variants
    <3> QED BY <1>3, <1>5, <1>6, <3>1 DEF DraftsAreVariants
  <2>2. ASSUME NEW c \in drafts[s]
        PROVE  /\ c.id.generation = g /\ c.id.variant < n /\ c.id.variant \in Nat
               /\ c.parent = [generation |-> g, variant |-> 0]
    BY <1>3, <1>4 DEF DraftsAreVariants, TypeOK, CaseRecords, CaseIds, Variants
  <2>3. ASSUME NEW c \in drafts'[s]
        PROVE  /\ c.id.generation = g /\ c.id.variant < n + 1
               /\ c.parent = [generation |-> g, variant |-> 0]
    BY <1>3, <1>4, <1>5, <1>6, <2>2
  <2>4. \A c, d \in drafts'[s] : c.id.variant = d.id.variant => c = d
    <3>1. \A c, d \in drafts[s] : c.id.variant = d.id.variant => c = d
      BY <1>3 DEF DraftsAreVariants
    <3>2. new.id.variant = n
      BY <1>3, <1>5
    <3>3. \A c \in drafts[s] : c.id.variant # n
      BY <1>4, <2>2
    <3> QED BY <1>6, <3>1, <3>2, <3>3
  <2>5. ASSUME NEW u \in Services \ {s}, pc'[u] # "idle"
        PROVE  /\ \A v \in Variants : v < Drafted(u)' => \E c \in drafts'[u] : c.id.variant = v
               /\ \A c \in drafts'[u] :
                     /\ c.id.generation = gate'[u].generation /\ c.id.variant < Drafted(u)'
                     /\ c.parent = [generation |-> gate'[u].generation, variant |-> 0]
               /\ \A c, d \in drafts'[u] : c.id.variant = d.id.variant => c = d
    BY <1>6, <1>10, <1>11, <2>5 DEF DraftsAreVariants
  <2>6. /\ \A v \in Variants : v < Drafted(s)' => \E c \in drafts'[s] : c.id.variant = v
        /\ \A c \in drafts'[s] :
              /\ c.id.generation = gate'[s].generation /\ c.id.variant < Drafted(s)'
              /\ c.parent = [generation |-> gate'[s].generation, variant |-> 0]
        /\ \A c, d \in drafts'[s] : c.id.variant = d.id.variant => c = d
    BY <1>10, <2>1, <2>3, <2>4
  <2> QED BY <2>5, <2>6 DEF DraftsAreVariants
<1>15. GoodGateHolds'
  <2> SUFFICES ASSUME NEW u \in Services, pc'[u] \in GateSteps, gate'[u].good,
                      NEW part \in Parts, <<CaseId(u)', part>> \in disk'
               PROVE  part \in gate'[u].held
    BY DEF GoodGateHolds
  <2>1. CASE u = s
    <3>1. CaseId(s)' = [generation |-> g, variant |-> n + 1]
      BY <1>10, <2>1 DEF CaseId, GateSteps
    <3>2. <<CaseId(s)', part>> \in disk
      BY <1>7, <2>1
    <3>3. n + 1 <= n
      BY <1>3, <3>1, <3>2 DEF NamesAreOwn
    <3> QED BY <1>4, <3>3
  <2>2. CASE u # s
    BY <1>7, <1>10, <1>11, <2>2 DEF GoodGateHolds
  <2> QED BY <2>1, <2>2
<1>16. PassedDraftLeavesNothing'
  <2> SUFFICES ASSUME NEW u \in Services, pc'[u] # "idle", NEW c \in drafts'[u], c.passed, NEW part \in Parts
               PROVE  <<c.id, part>> \notin disk'
    BY DEF PassedDraftLeavesNothing
  <2>1. CASE c \in drafts[u] /\ pc[u] # "idle"
    BY <1>7, <2>1 DEF PassedDraftLeavesNothing
  <2>2. CASE u = s /\ c = new
    BY <1>5, <1>8, <2>2
  <2> QED BY <1>3, <1>6, <1>10, <2>1, <2>2
<1>17. CasesAreOneGeneration' /\ PassedGateLeavesNothing'
  BY <1>3, <1>7 DEF CasesAreOneGeneration, PassedGateLeavesNothing
<1>18. IdleIsEmpty'
  BY <1>6, <1>10 DEF IdleIsEmpty
<1> QED BY <1>12, <1>13, <1>14, <1>15, <1>16, <1>17, <1>18

-----------------------------------------------------------------------------
LEMMA StepInvariant == IInv /\ [Next]_vars => IInv'
<1> SUFFICES ASSUME IInv, [Next]_vars PROVE IInv'
  OBVIOUS
<1>1. ASSUME NEW s \in Services, Generate(s) PROVE IInv'
  BY <1>1, GenerateKeeps
<1>2. ASSUME NEW s \in Services, Document(s) \/ JudgeIssue(s) PROVE IInv'
  BY <1>2, DocumentKeeps
<1>3. ASSUME NEW s \in Services, AddBaseline(s) \/ AddReset(s) \/ AddSolution(s) PROVE IInv'
  BY <1>3, MaterializeKeeps DEF AddBaseline, AddReset, AddSolution, GateSteps, Worktrees
<1>4. ASSUME NEW s \in Services, DropBaseline(s) \/ DropReset(s) PROVE IInv'
  BY <1>4, DropKeeps DEF DropBaseline, DropReset, GateSteps, Worktrees
<1>5. ASSUME NEW s \in Services, Fingerprint(s) \/ CompareReset(s) PROVE IInv'
  BY <1>5, FingerprintKeeps
<1>6. ASSUME NEW s \in Services, RunBaseline(s) \/ RunSolution(s) PROVE IInv'
  BY <1>6, VerifyKeeps DEF RunBaseline, RunSolution, GateSteps
<1>7. ASSUME NEW s \in Services, Finally(s) \/ SaveCases(s) PROVE IInv'
  BY <1>7, FinallyKeeps, SaveCasesKeeps
<1>8. ASSUME NEW s \in Services, Crash(s) PROVE IInv'
  BY <1>8, ReturnKeeps, CasesAsTheyAre DEF Crash
<1>9. CASE UNCHANGED vars
  <2>1. \A s \in Services : CaseId(s)' = CaseId(s) /\ Drafted(s)' = Drafted(s)
    BY <1>9 DEF vars, CaseId, Drafted
  <2>2. TypeOK' /\ NamesAreOwn' /\ IdleIsEmpty'
    BY <1>9 DEF vars, IInv, TypeOK, NamesAreOwn, IdleIsEmpty
  <2>3. DraftsAreVariants' /\ PassedDraftLeavesNothing'
    BY <1>9, <2>1 DEF vars, IInv, DraftsAreVariants, PassedDraftLeavesNothing
  <2>4. GoodGateHolds'
    BY <1>9, <2>1 DEF vars, IInv, GoodGateHolds
  <2>5. CasesAreOneGeneration' /\ PassedGateLeavesNothing'
    BY <1>9 DEF vars, IInv, CasesAreOneGeneration, PassedGateLeavesNothing
  <2> QED BY <2>2, <2>3, <2>4, <2>5 DEF IInv
<1> QED BY <1>1, <1>2, <1>3, <1>4, <1>5, <1>6, <1>7, <1>8, <1>9 DEF Next, Step, BoundedStep, RunVerifier, Idle

(* The strengthened invariant, for any services, variants and generations.  *)
THEOREM GateInvariant == Spec => []IInv
  BY InitInvariant, StepInvariant, PTL DEF Spec

(* generate_cases and save_cases: a Blueprint has no Cases or one whole     *)
(* generation of them, whatever failed, died or went on at the same time.   *)
THEOREM CasesComeFromOneGeneration == Spec => []CasesAreOneGeneration
<1>1. IInv => CasesAreOneGeneration
  BY DEF IInv
<1> QED BY <1>1, GateInvariant, PTL

(* _validate_case: a Case that passed its gate left nothing on the disk.    *)
THEOREM PassedGatesLeaveNothing == Spec => []PassedGateLeavesNothing
<1>1. IInv => PassedGateLeavesNothing
  BY DEF IInv
<1> QED BY <1>1, GateInvariant, PTL

(* save_cases: what is stored is never replaced.                            *)
THEOREM CasesStay == Spec => StoredCasesStay
<1>1. [Next]_vars => [cases # {} => cases' = cases]_vars
  BY DEF Next, Step, BoundedStep, RunVerifier, Idle, vars, Generate, Document, JudgeIssue, AddBaseline, AddReset, AddSolution,
         DropBaseline, DropReset, Fingerprint, CompareReset, RunBaseline, RunSolution, Finally, SaveCases,
         Crash, Materialize, Drop, Verify
<1> QED BY <1>1, PTL DEF Spec, StoredCasesStay
=============================================================================
