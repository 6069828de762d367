----------------------- MODULE PortableLifecycleProofs -----------------------
(***************************************************************************)
(* What the portable scripts do to Codex and to the service, for any number *)
(* of scripts and services, each step failing or being the last before a   *)
(* kill.  An installation knows what it has added to Codex and which       *)
(* service it has spawned, at each of its steps, and so its undo takes away *)
(* what is its own and no more.                                            *)
(***************************************************************************)
EXTENDS PortableLifecycle, TLAPS

UndoSteps == {"undo plugin", "undo market", "undo root"}

(* Which script a step belongs to. *)
StepsOfScripts ==
    /\ command = "none" <=> pc = "none"
    /\ pc \in {"read", "owned", "market", "plugin", "verify", "receipt"} \cup UndoSteps =>
           command = "install"
    /\ pc \in StartSteps => command \in {"install", "start"}
    /\ pc \in StopSteps => command \in {"install", "stop", "uninstall"}
    /\ pc \in {"registrations", "remove plugin", "remove market", "data", "inspect"} =>
           command = "uninstall"

(* A name of which the script knows whose it was and what became of it.     *)
Sure(name) == name \notin blind \cup late

(* What an installation has registered is what it found, but for its own.   *)
Before == {"root", "marker", "owned", "market"}

Registered ==
    command = "install" =>
        /\ pc = "read" => ~known.marketAdded /\ ~known.pluginAdded
        /\ pc \notin {"read", "root", "marker", "owned"} => "foreign" \notin {known.market, known.plugin}
        /\ pc \in {"plugin", "verify"} => known.marketAdded \/ known.market # "none"
        /\ pc = "verify" => known.pluginAdded \/ known.plugin # "none"
        /\ pc # "read" /\ "market" \notin blind => found[1] = known.market
        /\ pc # "read" /\ "plugin" \notin blind => found[2] = known.plugin
        /\ pc # "read" /\ known.marketAdded =>
               /\ known.market = "none" /\ pc \notin Before
               /\ Sure("market") => market = "ours" \/ (pc = "undo root" /\ market = "none")
        /\ pc # "read" /\ ~known.marketAdded /\ Sure("market") => market = known.market
        /\ pc # "read" /\ known.pluginAdded =>
               /\ known.plugin = "none" /\ pc \notin Before \cup {"plugin"}
               /\ Sure("plugin") =>
                      plugin = "ours" \/ (pc \in {"undo market", "undo root"} /\ plugin = "none")
        /\ pc # "read" /\ ~known.pluginAdded /\ Sure("plugin") => plugin = known.plugin

(* What is left of it when no undoing step has failed.                      *)
Undone ==
    command = "install" /\ ~stuck =>
        /\ pc \in {"undo market", "undo root"} /\ Sure("plugin") => plugin = known.plugin
        /\ pc = "undo root" /\ Sure("market") => market = known.market

Verified ==
    command = "install" /\ pc \in {"look", "spawn", "record", "wait", "receipt"} =>
        /\ market = "ours" \/ "market" \in late
        /\ plugin = "ours" \/ "plugin" \in late

Rooted ==
    command = "install" /\ pc \in TrySteps \cup StopSteps \cup {"owned"} => root = "marked"

(* The service an installation has spawned is the one that is on record,    *)
(* until it has ended or cannot come up any more.                           *)
NoServiceYet == {"read", "root", "marker", "owned", "market", "plugin", "verify", "look", "spawn"}

OwnService ==
    command = "install" =>
        /\ pc \in NoServiceYet => known.child = 0
        /\ pc \in NoServiceYet \cup {"record", "wait"} => ~known.started
        /\ pc \in {"record", "wait"} => known.child # 0
        /\ pc = "wait" => known.recorded
        /\ pc \in NoServiceYet \cup {"record"} => ~known.recorded
        /\ known.recorded => known.child # 0
        /\ pc \in {"wait", "receipt", "find", "term"} /\ known.child # 0 => record = known.child
        /\ pc = "receipt" /\ known.child # 0 => known.started
        /\ pc \in UndoSteps /\ ~stuck /\ known.recorded => process[known.child] \notin {"starting", "up"}

(* An uninstallation removes what it has found to be its own.               *)
RemovesItsOwn ==
    /\ pc = "remove plugin" => known.plugin # "foreign" /\ (Sure("plugin") => known.plugin = plugin)
    /\ pc \in {"remove plugin", "remove market"} =>
           known.market # "foreign" /\ (Sure("market") => known.market = market)

Types ==
    /\ root \in {"absent", "unmarked", "marked"} /\ record \in 0 .. MaxStarts
    /\ process \in [Services -> Alive \cup {"none", "dead"}]
    /\ market \in Owners /\ plugin \in Owners
    /\ known \in [market : Owners, plugin : Owners, created : BOOLEAN, marketAdded : BOOLEAN,
                  pluginAdded : BOOLEAN, started : BOOLEAN, child : 0 .. MaxStarts, recorded : BOOLEAN]
    /\ spawned \in 0 .. MaxStarts

IInv ==
    /\ Types /\ StepsOfScripts /\ Registered /\ Undone /\ Verified /\ Rooted
    /\ OwnService /\ RemovesItsOwn

ForeignStays ==
    /\ market = "foreign" => market' = "foreign" \/ "market" \in blind \cup late
    /\ plugin = "foreign" => plugin' = "foreign" \/ "plugin" \in blind \cup late

Undoes ==
    /\ command = "install" /\ command' = "none"
    /\ ended'.result = "rolled back" /\ ~stuck
    => /\ market' = found[1] \/ "market" \in blind \cup late
       /\ plugin' = found[2] \/ "plugin" \in blind \cup late
       /\ known.created => root' = "absent"
       /\ known.recorded => process[known.child] \notin {"starting", "up"}

Completes ==
    command = "install" /\ command' = "none" /\ ended'.result = "ok"
       => /\ root' = "marked" /\ receipt'
          /\ market' = "ours" \/ "market" \in late
          /\ plugin' = "ours" \/ "plugin" \in late

-----------------------------------------------------------------------------
(* What a script says when it ends.                                         *)
LEMMA EndTells == ASSUME NEW r, End(r) PROVE command' = "none" /\ ended'.result = r
BY DEF End

LEMMA FailTells ==
    ASSUME Fail
    PROVE  command' = command \/ (command' = "none" /\ ended'.result = "failed")
<1> USE DEF Goto, End, Same
<1>1. CASE command = "install" /\ pc \in TrySteps
  BY <1>1 DEF Fail
<1>2. CASE command = "install" /\ pc \notin TrySteps /\ pc \in StopSteps
  BY <1>2 DEF Fail
<1>3. CASE ~(command = "install" /\ pc \in TrySteps) /\ ~(command = "install" /\ pc \in StopSteps)
  <2>1. command' = "none" /\ ended' = [command |-> command, result |-> "failed"]
    BY <1>3 DEF Fail
  <2> QED BY <2>1
<1> QED BY <1>1, <1>2, <1>3

LEMMA ChildIsAService == ASSUME IInv, known.child # 0 PROVE known.child \in Services
BY LifecycleAssumption DEF IInv, Types, Services

LEMMA InitInstallation == Init => IInv
<1> SUFFICES ASSUME Init PROVE IInv
  OBVIOUS
<1>1. Types
  BY LifecycleAssumption DEF Init, Types, Owners, NothingKnown
<1> QED BY <1>1 DEF Init, IInv, StepsOfScripts, Registered, Undone, Verified, Rooted, OwnService,
           RemovesItsOwn, UndoSteps, StartSteps, StopSteps

-----------------------------------------------------------------------------
USE DEF files, codex, script, Goto, End, Same, Sure

(* What a listing leaves the script with: each name as it is, or none.      *)
LEMMA ListTells ==
    ASSUME Types, NEW step, List(step)
    PROVE  /\ Types /\ UNCHANGED <<files, codex, process, spawned>> => Types'
           /\ "market" \notin blind' => known'.market = market
           /\ "plugin" \notin blind' => known'.plugin = plugin
           /\ known'.market \in {market, "none"} /\ known'.plugin \in {plugin, "none"}
           /\ known'.created = known.created /\ known'.child = known.child
           /\ known'.marketAdded = known.marketAdded /\ known'.pluginAdded = known.pluginAdded
           /\ known'.started = known.started /\ known'.recorded = known.recorded
           /\ late' = {} /\ found' = <<market, plugin>> /\ pc' = step
           /\ UNCHANGED <<command, commands, ended, stuck>>
<1>1. PICK failed \in SUBSET Names :
          /\ known' = [known EXCEPT !.market = IF "market" \in failed THEN "none" ELSE market,
                                    !.plugin = IF "plugin" \in failed THEN "none" ELSE plugin]
          /\ blind' = failed
  BY DEF List
<1>2. /\ known' \in [market : Owners, plugin : Owners, created : BOOLEAN, marketAdded : BOOLEAN,
                     pluginAdded : BOOLEAN, started : BOOLEAN, child : 0 .. MaxStarts, recorded : BOOLEAN]
      /\ known'.market = IF "market" \in failed THEN "none" ELSE market
      /\ known'.plugin = IF "plugin" \in failed THEN "none" ELSE plugin
      /\ known'.created = known.created /\ known'.child = known.child
      /\ known'.marketAdded = known.marketAdded /\ known'.pluginAdded = known.pluginAdded
      /\ known'.started = known.started /\ known'.recorded = known.recorded
  BY <1>1 DEF Types, Owners
<1>3. /\ late' = {} /\ found' = <<market, plugin>> /\ pc' = step
      /\ UNCHANGED <<command, commands, ended, stuck>>
  BY DEF List
<1>4. UNCHANGED <<files, codex, process, spawned>> => Types'
  BY <1>2 DEF Types
<1> QED BY <1>1, <1>2, <1>3, <1>4

LEMMA ScriptsKeepTypes ==
    ASSUME IInv, Step
    PROVE  Types'
<1> USE DEF IInv, Types
<1>1. CASE ReadCodex \/ Register
  <2>1. CASE ReadCodex
    BY <2>1, ListTells DEF ReadCodex
  <2>2. CASE Register
    <3>1. market' \in Owners /\ plugin' \in Owners
      BY <2>2 DEF Register, Added, Owners
    <3> QED BY <2>2, <3>1 DEF Register
  <2> QED BY <1>1, <2>1, <2>2
<1>2. CASE CheckRoot
  BY <1>2 DEF CheckRoot
<1>3. CASE WriteMarker
  BY <1>3 DEF WriteMarker
<1>4. CASE AssertOwnership
  BY <1>4 DEF AssertOwnership
<1>5. CASE Verify
  BY <1>5 DEF Verify
<1>6. CASE WriteReceipt
  BY <1>6 DEF WriteReceipt
<1>7. CASE UndoRegistrations
  <2>1. plugin' \in Owners /\ market' \in Owners
    BY <1>7 DEF UndoRegistrations, Owners
  <2> QED BY <1>7, <2>1 DEF UndoRegistrations
<1>8. CASE UndoRoot
  <2>1. (root' = "absent" /\ record' = 0) \/ (root' = root /\ record' = record)
    BY <1>8 DEF UndoRoot, RemoveRoot
  <2>2. UNCHANGED <<codex, known, process, spawned>>
    BY <1>8 DEF UndoRoot
  <2> QED BY <2>1, <2>2, LifecycleAssumption
<1>9. CASE Look
  <2>1. record' = 0 \/ record' = record
    BY <1>9 DEF Look
  <2> QED BY <1>9, <2>1, LifecycleAssumption DEF Look
<1>10. CASE Spawn
  <2>1. spawned + 1 \in Services /\ spawned + 1 \in 0 .. MaxStarts
    BY <1>10, LifecycleAssumption DEF Spawn, Services
  <2>2. process' \in [Services -> Alive \cup {"none", "dead"}]
    BY <1>10, <2>1 DEF Spawn, Alive
  <2> QED BY <1>10, <2>1, <2>2 DEF Spawn
<1>11. CASE WriteRecord
  BY <1>11 DEF WriteRecord
<1>12. CASE WaitReady
  <2>1. process' \in [Services -> Alive \cup {"none", "dead"}]
    BY <1>12 DEF WaitReady, Alive
  <2>2. record' = 0 \/ record' = record
    BY <1>12 DEF WaitReady
  <2>3. known' = known \/ known' = [known EXCEPT !.started = TRUE]
    BY <1>12 DEF WaitReady
  <2>4. known' \in [market : Owners, plugin : Owners, created : BOOLEAN, marketAdded : BOOLEAN,
                    pluginAdded : BOOLEAN, started : BOOLEAN, child : 0 .. MaxStarts, recorded : BOOLEAN]
    BY <2>3
  <2> QED BY <1>12, <2>1, <2>2, <2>4, LifecycleAssumption DEF WaitReady
<1>13. CASE FindService
  <2>1. process' = process \/ process' = [process EXCEPT ![record] = "ending"]
    BY <1>13 DEF FindService
  <2>2. record' = 0 \/ record' = record
    BY <1>13 DEF FindService
  <2>3. process' \in [Services -> Alive \cup {"none", "dead"}]
    BY <2>1 DEF Alive
  <2> QED BY <1>13, <2>2, <2>3, LifecycleAssumption DEF FindService
<1>14. CASE EndService
  <2>1. process' \in [Services -> Alive \cup {"none", "dead"}]
    BY <1>14 DEF EndService, Alive
  <2> QED BY <1>14, <2>1, LifecycleAssumption DEF EndService
<1>15. CASE ReadRegistrations
  BY <1>15, ListTells DEF ReadRegistrations
<1>16. CASE Unregister
  <2>1. plugin' \in Owners /\ market' \in Owners
    BY <1>16 DEF Unregister, Owners
  <2> QED BY <1>16, <2>1 DEF Unregister
<1>17. CASE DeleteData
  <2>1. (root' = "absent" /\ record' = 0) \/ (root' = root /\ record' = record)
    BY <1>17 DEF DeleteData, RemoveRoot
  <2> QED BY <1>17, <2>1, LifecycleAssumption DEF DeleteData
<1>18. CASE Inspect
  BY <1>18 DEF Inspect
<1> QED BY <1>1, <1>2, <1>3, <1>4, <1>5, <1>6, <1>7, <1>8, <1>9, <1>10, <1>11, <1>12, <1>13, <1>14,
           <1>15, <1>16, <1>17, <1>18 DEF Step

-----------------------------------------------------------------------------
USE DEF TrySteps, StartSteps, StopSteps, UndoSteps, Before, NoServiceYet

(* What a step has to keep besides types.                                   *)
Control   == StepsOfScripts' /\ RemovesItsOwn' /\ Completes
Codex     == Registered' /\ Undone' /\ Verified' /\ ForeignStays
Directory == Rooted' /\ OwnService' /\ Undoes

LEMMA ReadCodexKeeps == ASSUME IInv, ReadCodex PROVE Control /\ Codex /\ Directory
<1> USE DEF IInv
<1>1. /\ pc = "read" /\ command = "install" /\ UNCHANGED <<files, codex, process, spawned>>
      /\ Types /\ known.child = 0 /\ ~known.started /\ ~known.recorded
      /\ ~known.marketAdded /\ ~known.pluginAdded
  BY DEF ReadCodex, StepsOfScripts, Registered, OwnService
<1>2. CASE List("root")
  <2>1. /\ pc' = "root" /\ command' = "install" /\ known'.child = 0 /\ ~known'.started /\ ~known'.recorded
        /\ ~known'.marketAdded /\ ~known'.pluginAdded /\ found' = <<market, plugin>>
        /\ "market" \notin blind' => known'.market = market
        /\ "plugin" \notin blind' => known'.plugin = plugin
    BY <1>1, <1>2, ListTells
  <2>2. Control
    BY <1>1, <2>1 DEF Control, StepsOfScripts, RemovesItsOwn, Completes
  <2>3. Codex
    BY <1>1, <2>1 DEF Codex, Registered, Undone, Verified, ForeignStays
  <2>4. Directory
    BY <1>1, <2>1 DEF Directory, Rooted, OwnService, Undoes
  <2> QED BY <2>2, <2>3, <2>4
<1>3. CASE Fail /\ UNCHANGED known
  <2>1. command' = "none" /\ pc' = "none" /\ ended'.result = "failed"
    BY <1>1, <1>3 DEF Fail
  <2>2. Control /\ Codex
    BY <1>1, <2>1 DEF Control, StepsOfScripts, RemovesItsOwn, Completes, Codex, Registered, Undone,
          Verified, ForeignStays
  <2>3. Directory
    BY <1>1, <2>1 DEF Directory, Rooted, OwnService, Undoes
  <2> QED BY <2>2, <2>3
<1> QED BY <1>2, <1>3 DEF ReadCodex

LEMMA CheckRootKeeps == ASSUME IInv, CheckRoot PROVE Control /\ Codex /\ Directory
<1> USE DEF IInv, CheckRoot, AfterRoot
<1>1. Undoes /\ Completes
  <2>1. command' = command \/ (command' = "none" /\ ended'.result = "failed")
    BY FailTells DEF Types
  <2> QED BY <2>1 DEF Undoes, Completes, StepsOfScripts
<1>2. Control
  BY <1>1 DEF Control, Fail, Types, StepsOfScripts, RemovesItsOwn
<1>3. Codex
  BY DEF Codex, Fail, Types, Owners, StepsOfScripts, Registered, Undone, Verified, ForeignStays
<1>4. Directory
  <2>1. /\ known'.child = known.child /\ known'.started = known.started
        /\ known'.recorded = known.recorded
    BY DEF Types
  <2>2. command = "install" =>
            known.child = 0 /\ ~known.started /\ ~known.recorded /\ pc' \in {"none", "marker", "owned"}
    BY DEF Fail, Types, StepsOfScripts, OwnService
  <2>3. Rooted'
    BY DEF Fail, Types, StepsOfScripts, Rooted
  <2>4. OwnService'
    <3>1. CASE command = "install"
      BY <2>1, <2>2, <3>1 DEF OwnService
    <3>2. CASE command # "install"
      <4>1. command' = command \/ command' = "none"
        BY FailTells DEF Types
      <4> QED BY <3>2, <4>1 DEF OwnService
    <3> QED BY <3>1, <3>2
  <2> QED BY <1>1, <2>3, <2>4 DEF Directory
<1> QED BY <1>2, <1>3, <1>4

LEMMA WriteMarkerKeeps == ASSUME IInv, WriteMarker PROVE Control /\ Codex /\ Directory
<1> USE DEF IInv, WriteMarker, AfterRoot
<1>1. Undoes /\ Completes
  <2>1. command' = command \/ (command' = "none" /\ ended'.result = "failed")
    BY FailTells
  <2> QED BY <2>1 DEF Undoes, Completes, StepsOfScripts
<1>2. Control
  BY <1>1 DEF Control, Fail, Types, StepsOfScripts, RemovesItsOwn
<1>3. Codex
  BY DEF Codex, Fail, Types, Owners, StepsOfScripts, Registered, Undone, Verified, ForeignStays
<1>4. Directory
  BY <1>1 DEF Directory, Fail, Types, StepsOfScripts, Rooted, OwnService
<1> QED BY <1>2, <1>3, <1>4

LEMMA AssertOwnershipKeeps == ASSUME IInv, AssertOwnership PROVE Control /\ Codex /\ Directory
<1> USE DEF IInv, AssertOwnership
<1>1. Undoes /\ Completes
  <2>1. command' = command \/ (command' = "none" /\ ended'.result = "failed")
    BY FailTells
  <2> QED BY <2>1 DEF Undoes, Completes, StepsOfScripts
<1>2. Control
  BY <1>1 DEF Control, Fail, Types, StepsOfScripts, RemovesItsOwn
<1>3. Codex
  BY DEF Codex, Fail, Types, Owners, StepsOfScripts, Registered, Undone, Verified, ForeignStays
<1>4. Directory
  BY <1>1 DEF Directory, Fail, Types, StepsOfScripts, Rooted, OwnService
<1> QED BY <1>2, <1>3, <1>4

(* A name is registered that was free, and the script knows that it did it. *)
LEMMA RegisterKeeps == ASSUME IInv, Register PROVE Control /\ Codex /\ Directory
<1> USE DEF IInv, Register, Added, Fail
<1>1. Control
  BY DEF Control, StepsOfScripts, Registered, Verified, Rooted, RemovesItsOwn, Completes
<1>2. Codex
  BY DEF Codex, Types, Owners, StepsOfScripts, Registered, Undone, Verified, RemovesItsOwn,
         ForeignStays
<1>3. Directory
  BY DEF Directory, Types, StepsOfScripts, Registered, Undone, Rooted, OwnService, Undoes
<1> QED BY <1>1, <1>2, <1>3

LEMMA VerifyKeeps == ASSUME IInv, Verify PROVE Control /\ Codex /\ Directory
<1> USE DEF IInv, Verify, Fail
<1>1. Control
  BY DEF Control, StepsOfScripts, Registered, Verified, Rooted, RemovesItsOwn, Completes
<1>2. Codex
  BY DEF Codex, Types, Owners, StepsOfScripts, Registered, Undone, Verified, RemovesItsOwn,
         ForeignStays
<1>3. Directory
  BY DEF Directory, Types, StepsOfScripts, Registered, Undone, Rooted, OwnService, Undoes
<1> QED BY <1>1, <1>2, <1>3

(* The installation is complete: directory, receipt and both names.         *)
LEMMA WriteReceiptKeeps == ASSUME IInv, WriteReceipt PROVE Control /\ Codex /\ Directory
<1> USE DEF IInv, WriteReceipt, Fail
<1>1. Control
  BY DEF Control, StepsOfScripts, Registered, Verified, Rooted, RemovesItsOwn, Completes
<1>2. Codex
  BY DEF Codex, Types, Owners, StepsOfScripts, Registered, Undone, Verified, RemovesItsOwn,
         ForeignStays
<1>3. Directory
  <2>1. Undoes
    <3>1. CASE End("ok")
      BY <3>1, EndTells DEF Undoes
    <3>2. CASE Fail
      BY <3>2, FailTells DEF Undoes
    <3> QED BY <3>1, <3>2
  <2> QED BY <2>1 DEF Directory, StepsOfScripts, Rooted, OwnService
<1> QED BY <1>1, <1>2, <1>3

(* Only what the script has added is removed, which was not there before.   *)
LEMMA UndoRegistrationsKeeps == ASSUME IInv, UndoRegistrations PROVE Control /\ Codex /\ Directory
<1> USE DEF IInv, UndoRegistrations
<1>1. Control
  BY DEF Control, StepsOfScripts, Registered, Verified, Rooted, RemovesItsOwn, Completes
<1>2. Codex
  BY DEF Codex, Types, Owners, StepsOfScripts, Registered, Undone, Verified, RemovesItsOwn,
         ForeignStays
<1>3. Directory
  BY DEF Directory, Types, StepsOfScripts, Registered, Undone, Rooted, OwnService, Undoes
<1> QED BY <1>1, <1>2, <1>3

(* The claim of an installation that was undone.                            *)
LEMMA UndoRootKeeps == ASSUME IInv, UndoRoot PROVE Control /\ Codex /\ Directory
<1>1. command = "install" /\ pc = "undo root" /\ command' = "none" /\ pc' = "none" /\ UNCHANGED codex
  BY DEF UndoRoot, IInv, StepsOfScripts
<1>2. Undoes /\ Completes
  <2> HIDE DEF End
  <2>1. CASE End("failed")
    <3>1. ended'.result = "failed"
      BY <2>1, EndTells
    <3> QED BY <3>1 DEF Undoes, Completes
  <2>2. CASE End("rolled back") /\ (known.created => root' = "absent")
    <3>1. ended'.result = "rolled back"
      BY <2>2, EndTells
    <3>2. Completes
      BY <3>1 DEF Completes
    <3> QED BY <1>1, <2>2, <3>2 DEF Undoes, IInv, Registered, Undone, OwnService
  <2> QED BY <2>1, <2>2 DEF UndoRoot, RemoveRoot
<1>3. Control /\ Codex
  BY <1>1, <1>2 DEF Control, Codex, StepsOfScripts, RemovesItsOwn, Registered, Undone, Verified,
        ForeignStays
<1>4. Directory
  BY <1>1, <1>2 DEF Directory, Rooted, OwnService
<1> QED BY <1>3, <1>4

LEMMA LookKeeps == ASSUME IInv, Look PROVE Control /\ Codex /\ Directory
<1> USE DEF IInv, Look, Started, Fail
<1>1. Control
  BY DEF Control, StepsOfScripts, Registered, Verified, Rooted, RemovesItsOwn, Completes
<1>2. Codex
  BY DEF Codex, Types, Owners, StepsOfScripts, Registered, Undone, Verified, RemovesItsOwn,
         ForeignStays
<1>3. Directory
  BY DEF Directory, Types, StepsOfScripts, Registered, Undone, Rooted, OwnService, Undoes
<1> QED BY <1>1, <1>2, <1>3

LEMMA SpawnKeeps == ASSUME IInv, Spawn PROVE Control /\ Codex /\ Directory
<1> USE DEF IInv, Spawn
<1>1. Control
  BY DEF Control, StepsOfScripts, RemovesItsOwn, Completes
<1>2. Codex
  BY DEF Codex, Types, StepsOfScripts, Registered, Undone, Verified, ForeignStays
<1>3. Directory
  <2>1. spawned + 1 # 0 /\ known.child' = spawned + 1
    BY DEF Types
  <2> QED BY <2>1 DEF Directory, Types, StepsOfScripts, Rooted, OwnService, Undoes
<1> QED BY <1>1, <1>2, <1>3

LEMMA WriteRecordKeeps == ASSUME IInv, WriteRecord PROVE Control /\ Codex /\ Directory
<1> USE DEF IInv, WriteRecord, Fail
<1>1. Control
  BY DEF Control, StepsOfScripts, Registered, Verified, Rooted, RemovesItsOwn, Completes
<1>2. Codex
  BY DEF Codex, Types, Owners, StepsOfScripts, Registered, Undone, Verified, RemovesItsOwn,
         ForeignStays
<1>3. Directory
  BY DEF Directory, Types, StepsOfScripts, Registered, Undone, Rooted, OwnService, Undoes
<1> QED BY <1>1, <1>2, <1>3

(* A service that was not up in time is ending and does not come up.        *)
LEMMA WaitReadyKeeps == ASSUME IInv, WaitReady PROVE Control /\ Codex /\ Directory
<1> USE DEF IInv
<1>1. Control
  BY DEF WaitReady, Started, Fail, Control, StepsOfScripts, Registered, Verified, Rooted,
        RemovesItsOwn, Completes
<1>2. Codex
  BY DEF WaitReady, Started, Fail, Codex, Types, Owners, StepsOfScripts, Registered, Undone,
        Verified, RemovesItsOwn, ForeignStays
<1>3. Rooted' /\ Undoes
  BY DEF WaitReady, Started, Fail, StepsOfScripts, Rooted, Undoes
<1>4. OwnService'
  <2>1. CASE /\ process[known.child] = "up" /\ known' = [known EXCEPT !.started = TRUE]
             /\ Started /\ UNCHANGED <<record, process>>
    BY <2>1 DEF WaitReady, Started, StepsOfScripts, OwnService, Types
  <2>2. CASE /\ process' = [process EXCEPT ![known.child] = IF @ \in Alive THEN "ending" ELSE @]
             /\ Fail /\ known' = known
    <3>1. CASE command = "install"
      <4>1. known.child # 0 /\ ~known.started /\ pc = "wait"
        BY <3>1 DEF WaitReady, OwnService
      <4>2. known.child \in Services
        BY <4>1, ChildIsAService
      <4>3. process'[known.child] \notin {"starting", "up"}
        BY <2>2, <4>2 DEF Types, Alive
      <4>4. pc' = "undo plugin"
        BY <2>2, <3>1, <4>1 DEF Fail
      <4> QED BY <2>2, <4>1, <4>3, <4>4 DEF OwnService
    <3>2. CASE command # "install"
      BY <2>2, <3>2 DEF Fail, OwnService
    <3> QED BY <3>1, <3>2
  <2> QED BY <2>1, <2>2 DEF WaitReady
<1> QED BY <1>1, <1>2, <1>3, <1>4 DEF Directory

(* The service an installation has started is the one on record: it is      *)
(* ended, or has died.                                                      *)
LEMMA FindServiceKeeps == ASSUME IInv, FindService PROVE Control /\ Codex /\ Directory
<1> USE DEF IInv
<1>1. Control
  BY DEF FindService, Stopped, Fail, Control, StepsOfScripts, Types, Rooted, RemovesItsOwn, Completes
<1>2. Codex
  BY DEF FindService, Stopped, Fail, Codex, Types, Owners, StepsOfScripts, Registered, Undone,
        Verified, RemovesItsOwn, ForeignStays
<1>3. Rooted' /\ Undoes
  BY DEF FindService, Stopped, Fail, StepsOfScripts, Rooted, Undoes, Types
<1>4. OwnService'
  <2>1. CASE command # "install"
    <3>1. command' # "install"
      BY <2>1 DEF FindService, Stopped, Fail, Types
    <3> QED BY <3>1 DEF OwnService
  <2>2. CASE command = "install" /\ pc' = "term"
    <3>1. record' = record /\ known' = known
      BY <2>2 DEF FindService, Stopped, Fail, Types, Rooted
    <3> QED BY <2>2, <3>1 DEF OwnService, FindService
  <2>3. CASE command = "install" /\ pc' # "term"
    <3>1. pc' = "undo plugin" /\ known' = known /\ root = "marked"
      BY <2>3 DEF FindService, Stopped, Fail, Types, Rooted
    <3>2. ~stuck' /\ known.child # 0 => record \notin Living /\ process' = process
      BY <2>3, <3>1 DEF FindService, Stopped, Fail, OwnService
    <3>3. known.child # 0 => record = known.child /\ record \in Services
      BY <2>3, ChildIsAService DEF FindService, OwnService
    <3>4. known.recorded => known.child # 0
      BY <2>3 DEF OwnService
    <3> QED BY <3>1, <3>2, <3>3, <3>4 DEF OwnService, Living, Alive, Types
  <2> QED BY <2>1, <2>2, <2>3
<1> QED BY <1>1, <1>2, <1>3, <1>4 DEF Directory

LEMMA EndServiceKeeps == ASSUME IInv, EndService PROVE Control /\ Codex /\ Directory
<1> USE DEF IInv
<1>1. Control
  BY DEF EndService, Stopped, Control, StepsOfScripts, RemovesItsOwn, Completes
<1>2. Codex
  BY DEF EndService, Stopped, Codex, Types, Owners, StepsOfScripts, Registered, Undone, Verified,
        RemovesItsOwn, ForeignStays
<1>3. Rooted' /\ Undoes
  BY DEF EndService, Stopped, StepsOfScripts, Rooted, Undoes
<1>4. OwnService'
  <2>1. CASE command # "install"
    <3>1. command' # "install"
      BY <2>1 DEF EndService, Stopped
    <3> QED BY <3>1 DEF OwnService
  <2>2. CASE command = "install"
    <3>1. /\ pc' = "undo plugin" /\ known' = known
          /\ process' = [process EXCEPT ![record] = "dead"]
      BY <2>2 DEF EndService, Stopped
    <3>2. known.child # 0 => record = known.child /\ record \in Services
      BY <2>2, ChildIsAService DEF EndService, OwnService
    <3>3. known.recorded => known.child # 0
      BY <2>2 DEF OwnService
    <3>4. known.recorded => process'[known.child] = "dead"
      BY <3>1, <3>2, <3>3 DEF Types
    <3> QED BY <3>1, <3>3, <3>4 DEF OwnService
  <2> QED BY <2>1, <2>2
<1> QED BY <1>1, <1>2, <1>3, <1>4 DEF Directory

(* Nothing is removed that is not known to be this installation's.          *)
LEMMA ReadRegistrationsKeeps == ASSUME IInv, ReadRegistrations PROVE Control /\ Codex /\ Directory
<1> USE DEF IInv
<1>1. /\ pc = "registrations" /\ command = "uninstall" /\ UNCHANGED <<files, codex, process, spawned>>
      /\ Types
  BY DEF ReadRegistrations, StepsOfScripts
<1>2. CASE List("remove plugin") /\ "foreign" \notin {known'.market, known'.plugin}
  <2>1. /\ pc' = "remove plugin" /\ command' = "uninstall"
        /\ "market" \notin blind' => known'.market = market
        /\ "plugin" \notin blind' => known'.plugin = plugin
    BY <1>1, <1>2, ListTells
  <2>2. Control
    BY <1>1, <1>2, <2>1 DEF Control, StepsOfScripts, RemovesItsOwn, Completes
  <2>3. Codex
    BY <1>1, <2>1 DEF Codex, Registered, Undone, Verified, ForeignStays
  <2>4. Directory
    BY <1>1, <2>1 DEF Directory, Rooted, OwnService, Undoes
  <2> QED BY <2>2, <2>3, <2>4
<1>3. CASE (Goto("data") \/ Fail) /\ UNCHANGED known
  <2>1. /\ command' # "install"
         /\ \/ pc' = "data" /\ command' = "uninstall"
            \/ pc' = "none" /\ command' = "none"
    BY <1>1, <1>3 DEF Fail
  <2>2. Control /\ Codex
    BY <1>1, <2>1 DEF Control, StepsOfScripts, RemovesItsOwn, Completes, Codex, Registered, Undone,
          Verified, ForeignStays
  <2>3. Directory
    BY <1>1, <2>1 DEF Directory, Rooted, OwnService, Undoes
  <2> QED BY <2>2, <2>3
<1>4. List("remove plugin") \/ ((Goto("data") \/ Fail) /\ UNCHANGED known)
  BY DEF ReadRegistrations
<1>5. List("remove plugin") /\ ~((Goto("data") \/ Fail) /\ UNCHANGED known) => "foreign" \notin {known'.market, known'.plugin}
  BY DEF ReadRegistrations
<1> QED BY <1>2, <1>3, <1>4, <1>5

LEMMA UnregisterKeeps == ASSUME IInv, Unregister PROVE Control /\ Codex /\ Directory
<1> USE DEF IInv, Unregister, Fail
<1>1. Control
  BY DEF Control, StepsOfScripts, Registered, Verified, Rooted, RemovesItsOwn, Completes
<1>2. Codex
  BY DEF Codex, Types, Owners, StepsOfScripts, Registered, Undone, Verified, RemovesItsOwn,
         ForeignStays
<1>3. Directory
  BY DEF Directory, Types, StepsOfScripts, Registered, Undone, Rooted, OwnService, Undoes
<1> QED BY <1>1, <1>2, <1>3

LEMMA DeleteDataKeeps == ASSUME IInv, DeleteData PROVE Control /\ Codex /\ Directory
<1> USE DEF IInv, DeleteData, Fail, RemoveRoot
<1>1. Control
  BY DEF Control, StepsOfScripts, Registered, Verified, Rooted, RemovesItsOwn, Completes
<1>2. Codex
  BY DEF Codex, Types, Owners, StepsOfScripts, Registered, Undone, Verified, RemovesItsOwn,
         ForeignStays
<1>3. Directory
  BY DEF Directory, Types, StepsOfScripts, Registered, Undone, Rooted, OwnService, Undoes
<1> QED BY <1>1, <1>2, <1>3

LEMMA InspectKeeps == ASSUME IInv, Inspect PROVE Control /\ Codex /\ Directory
<1> USE DEF IInv, Inspect, Fail
<1>1. Control
  BY DEF Control, StepsOfScripts, Registered, Verified, Rooted, RemovesItsOwn, Completes
<1>2. Codex
  BY DEF Codex, Types, Owners, StepsOfScripts, Registered, Undone, Verified, RemovesItsOwn,
         ForeignStays
<1>3. Directory
  BY DEF Directory, Types, StepsOfScripts, Registered, Undone, Rooted, OwnService, Undoes
<1> QED BY <1>1, <1>2, <1>3

-----------------------------------------------------------------------------
(* Beginnings and ends of scripts, and what happens beside them.            *)
LEMMA BeginKeeps ==
    ASSUME IInv, NEW c \in Commands, Begin(c) PROVE Types' /\ Control /\ Codex /\ Directory
<1> USE DEF IInv
<1>1. Types'
  BY LifecycleAssumption DEF Begin, NothingKnown, Types, Owners
<1>2. Control
  <2>1. /\ command = "none" /\ command' = c /\ c # "none"
        /\ c = "install" => pc' = "read"
        /\ c = "start" => pc' = "root"
        /\ c \in {"stop", "uninstall"} => pc' = "find"
    BY DEF Begin, Commands
  <2> QED BY <2>1 DEF Control, StepsOfScripts, RemovesItsOwn, Completes, Commands
<1>3. Codex
  BY DEF Begin, NothingKnown, Commands, Codex, Types, StepsOfScripts, Registered, Undone, Verified,
        ForeignStays
<1>4. Directory
  BY DEF Begin, NothingKnown, Commands, Directory, StepsOfScripts, Rooted, OwnService, Undoes
<1> QED BY <1>1, <1>2, <1>3, <1>4

LEMMA OthersKeep == ASSUME IInv, Kill \/ OtherCheckout PROVE Types' /\ Control /\ Codex /\ Directory
<1> USE DEF IInv
<1>1. CASE Kill
  <2>1. command' = "none" /\ pc' = "none" /\ ended'.result = "killed"
    BY <1>1 DEF Kill
  <2>2. UNCHANGED <<files, codex, process, spawned, known>>
    BY <1>1 DEF Kill
  <2>3. Control /\ Codex
    BY <2>1, <2>2 DEF Control, Codex, StepsOfScripts, RemovesItsOwn, Completes, Registered, Undone,
          Verified, ForeignStays
  <2>4. Types' /\ Directory
    BY <2>1, <2>2 DEF Types, Directory, Rooted, OwnService, Undoes
  <2> QED BY <2>3, <2>4
<1>2. CASE OtherCheckout
  <2>1. /\ market' = market \/ (market' = "foreign" /\ market # "foreign" /\ (command # "none" => "market" \in late'))
        /\ plugin' = plugin \/ (plugin' = "foreign" /\ plugin # "foreign" /\ (command # "none" => "plugin" \in late'))
        /\ late \subseteq late'
        /\ UNCHANGED <<files, command, pc, known, commands, found, blind, stuck, ended, process, spawned>>
    BY <1>2 DEF OtherCheckout, Late
  <2>2. Types'
    BY <2>1 DEF Types, Owners
  <2>3. Control
    BY <2>1 DEF Control, StepsOfScripts, RemovesItsOwn, Completes
  <2>4. Registered' /\ Undone'
    <3>1. CASE command = "install"
      <4>1. /\ Sure("market")' => Sure("market") /\ market' = market
            /\ Sure("plugin")' => Sure("plugin") /\ plugin' = plugin
        BY <2>1, <3>1
      <4> HIDE DEF Sure
      <4> QED BY <2>1, <4>1 DEF Registered, Undone
    <3>2. CASE command # "install"
      BY <2>1, <3>2 DEF Registered, Undone
    <3> QED BY <3>1, <3>2
  <2>5. Verified' /\ ForeignStays
    BY <2>1 DEF Verified, ForeignStays
  <2>6. Directory
    BY <2>1 DEF Directory, StepsOfScripts, Rooted, OwnService, Undoes
  <2> QED BY <2>2, <2>3, <2>4, <2>5, <2>6 DEF Codex
<1> QED BY <1>1, <1>2

(* A service that is ending, or dead, stays so.                             *)
LEMMA ServicesKeep ==
    ASSUME IInv, NEW n \in Services, NEW state, process' = [process EXCEPT ![n] = state],
           state \in {"dead", "up"}, process[n] = "starting" \/ state = "dead", process[n] \in Alive,
           root' \in {root, "marked"}, UNCHANGED <<receipt, record, codex, script, spawned>>
    PROVE  Types' /\ Control /\ Codex /\ Directory
<1> USE DEF IInv
<1>1. Types'
  <2>1. process' \in [Services -> Alive \cup {"none", "dead"}]
    BY DEF Types, Alive
  <2> QED BY <2>1 DEF Types
<1>2. Control /\ Codex
  BY DEF Control, Codex, StepsOfScripts, RemovesItsOwn, Completes, Registered, Undone, Verified,
        ForeignStays
<1>3. Rooted' /\ Undoes
  BY DEF Rooted, Undoes
<1>4. OwnService'
  <2>1. ASSUME command = "install", pc \in UndoSteps, ~stuck, known.recorded
        PROVE  process'[known.child] \notin {"starting", "up"}
    <3>1. known.child \in Services
      BY <2>1, ChildIsAService DEF OwnService
    <3>2. process[known.child] \notin {"starting", "up"}
      BY <2>1 DEF OwnService
    <3> QED BY <3>1, <3>2 DEF Types
  <2> QED BY <2>1 DEF OwnService
<1> QED BY <1>1, <1>2, <1>3, <1>4 DEF Directory

LEMMA StepInstallation ==
    ASSUME IInv, [Next]_vars
    PROVE  IInv' /\ ForeignStays /\ (UNCHANGED vars \/ (Undoes /\ Completes))
<1>1. CASE Step
  <2>1. Types'
    BY <1>1, ScriptsKeepTypes
  <2>2. Control /\ Codex /\ Directory
    BY <1>1, ReadCodexKeeps, CheckRootKeeps, WriteMarkerKeeps, AssertOwnershipKeeps, RegisterKeeps,
       VerifyKeeps, WriteReceiptKeeps, UndoRegistrationsKeeps, UndoRootKeeps, LookKeeps, SpawnKeeps,
       WriteRecordKeeps, WaitReadyKeeps, FindServiceKeeps, EndServiceKeeps, ReadRegistrationsKeeps,
       UnregisterKeeps, DeleteDataKeeps, InspectKeeps DEF Step
  <2> QED BY <2>1, <2>2 DEF IInv, Control, Codex, Directory
<1>2. CASE \E c \in Commands : Begin(c)
  BY <1>2, BeginKeeps DEF IInv, Control, Codex, Directory
<1>3. CASE Kill \/ OtherCheckout
  BY <1>3, OthersKeep DEF IInv, Control, Codex, Directory
<1>4. ASSUME NEW n \in Services, ServiceComesUp(n) \/ ServiceDies(n)
      PROVE  Types' /\ Control /\ Codex /\ Directory
  <2>1. CASE ServiceComesUp(n)
    <3>1. PICK state \in {"dead", "up"} : process' = [process EXCEPT ![n] = state]
      BY <2>1 DEF ServiceComesUp
    <3>2. /\ process[n] = "starting" /\ process[n] \in Alive /\ root' \in {root, "marked"}
          /\ UNCHANGED <<receipt, record, codex, script, spawned>>
      BY <2>1 DEF ServiceComesUp, Alive
    <3> QED BY <3>1, <3>2, ServicesKeep
  <2>2. CASE ServiceDies(n)
    BY <2>2, ServicesKeep DEF ServiceDies
  <2> QED BY <1>4, <2>1, <2>2
<1>5. CASE UNCHANGED vars
  <2>1. Types' /\ StepsOfScripts'
    BY <1>5 DEF vars, IInv, Types, StepsOfScripts
  <2>4. Undone' /\ Verified' /\ ForeignStays
    BY <1>5 DEF vars, IInv, Undone, Verified, ForeignStays
  <2>3. Registered'
    BY <1>5 DEF vars, IInv, Registered
  <2>2. Rooted' /\ OwnService' /\ RemovesItsOwn'
    BY <1>5 DEF vars, IInv, Rooted, OwnService, RemovesItsOwn
  <2> QED BY <1>5, <2>1, <2>2, <2>3, <2>4 DEF IInv
<1> QED BY <1>1, <1>2, <1>3, <1>4, <1>5 DEF Next, IInv, Control, Codex, Directory

(* The strengthened invariant, for any number of scripts and services.      *)
THEOREM InstallationInvariant == Spec => []IInv
<1>1. IInv /\ [Next]_vars => IInv'
  BY StepInstallation
<1> QED BY <1>1, InitInstallation, PTL DEF Spec

(* install, its undoing and uninstall: what another checkout has registered *)
(* with Codex is left alone, whatever fails and is killed.                  *)
THEOREM ForeignRegistrationsStay == Spec => ForeignIsKept
<1>1. IInv /\ [Next]_vars => [ForeignStays]_codex
  BY StepInstallation
<1> QED BY <1>1, InstallationInvariant, PTL DEF Spec, ForeignIsKept, ForeignStays

(* install: one that says it was undone has left nothing of its own.        *)
THEOREM FailedInstallationsAreUndone == Spec => FailureIsUndone
<1>1. IInv /\ [Next]_vars => [Undoes]_vars
  BY StepInstallation
<1> QED BY <1>1, InstallationInvariant, PTL DEF Spec, FailureIsUndone, Undoes

(* install: one that says it is through can be found by an uninstallation.  *)
THEOREM InstallationsAreComplete == Spec => InstalledIsComplete
<1>1. IInv /\ [Next]_vars => [Completes]_vars
  BY StepInstallation
<1> QED BY <1>1, InstallationInvariant, PTL DEF Spec, InstalledIsComplete, Completes
=============================================================================
