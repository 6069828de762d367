-------------------------- MODULE PortableLifecycle --------------------------
(***************************************************************************)
(* install, start, stop and uninstall of portable-lifecycle.mjs, one script *)
(* at a time.  A script may fail at each of its steps and be killed between *)
(* them; the service it starts comes up, or dies, in its own time.  A codex *)
(* command that changes a registration and fails has changed nothing; one   *)
(* that lists them and fails tells the script that there is none.           *)
(***************************************************************************)
EXTENDS Naturals

CONSTANTS
    MaxStarts,      \* bound: how many services are spawned
    MaxCommands     \* bound: how many scripts are run

ASSUME LifecycleAssumption == MaxStarts \in Nat /\ MaxCommands \in Nat

VARIABLES
    root,           \* the data directory and its marker
    receipt,        \* the installation receipt in it
    record,         \* portable-service.json: the service it names, or 0
    process,        \* process[n]: the n-th service spawned
    market, plugin, \* the Codex registrations: whose they are
    command, pc,    \* the script that runs, and its step
    known,          \* what the script has read or done
    spawned, commands,
    found,          \* (history) the registrations when the script listed them
    blind,          \* (history) those it could not list
    late,           \* (history) those another checkout took since it listed them
    stuck,          \* (history) whether an undoing step of this script failed
    ended           \* how the last script ended

files   == <<root, receipt, record>>
codex   == <<market, plugin>>
script  == <<command, pc, known, commands, found, blind, late, stuck, ended>>
vars    == <<files, codex, script, process, spawned>>

Services == 1 .. MaxStarts
Alive    == {"starting", "up", "ending"}
Living   == {n \in Services : process[n] \in Alive}
Up       == {n \in Services : process[n] = "up"}
Owners   == {"none", "ours", "foreign"}
Commands == {"install", "start", "stop", "uninstall"}

TrySteps   == {"market", "plugin", "verify", "look", "spawn", "record", "wait", "receipt"}
StartSteps == {"root", "marker", "look", "spawn", "record", "wait"}
StopSteps  == {"find", "term"}

Names    == {"market", "plugin"}

(* child is the service this script has spawned, recorded whether it has    *)
(* written the record of it, and started whether it was told of its start.  *)
NothingKnown == [market |-> "none", plugin |-> "none", created |-> FALSE, marketAdded |-> FALSE,
                 pluginAdded |-> FALSE, started |-> FALSE, child |-> 0, recorded |-> FALSE]

TypeOK ==
    /\ root \in {"absent", "unmarked", "marked"}
    /\ receipt \in BOOLEAN /\ record \in 0 .. MaxStarts
    /\ process \in [Services -> Alive \cup {"none", "dead"}]
    /\ market \in Owners /\ plugin \in Owners
    /\ command \in Commands \cup {"none"}
    /\ pc \in TrySteps \cup StartSteps \cup StopSteps \cup
          {"none", "read", "owned", "undo plugin", "undo market", "undo root",
           "registrations", "remove plugin", "remove market", "data", "inspect"}
    /\ known.market \in Owners /\ known.plugin \in Owners /\ known.child \in 0 .. MaxStarts
    /\ spawned \in 0 .. MaxStarts /\ commands \in 0 .. MaxCommands
    /\ blind \subseteq Names /\ late \subseteq Names /\ stuck \in BOOLEAN
    /\ ended \in [command : Commands \cup {"none"}, result : {"none", "ok", "failed", "rolled back", "killed"}]

Init ==
    /\ root \in {"absent", "unmarked", "marked"} /\ receipt = FALSE /\ record = 0
    /\ process = [n \in Services |-> "none"] /\ spawned = 0
    /\ market \in {"none", "foreign"} /\ plugin \in {"none", "foreign"}
    /\ command = "none" /\ pc = "none" /\ known = NothingKnown /\ commands = 0
    /\ found = <<market, plugin>> /\ blind = {} /\ late = {} /\ stuck = FALSE
    /\ ended = [command |-> "none", result |-> "none"]

-----------------------------------------------------------------------------
(* The course of a script. *)

Same == UNCHANGED <<command, commands, found, blind, late, ended>>

Goto(step) == pc' = step /\ Same /\ UNCHANGED stuck

(* codexState: what two listings tell, each of which may fail; it is then as *)
(* if the name were free.  What another checkout registers between the two  *)
(* is as if registered before or after them.                                *)
List(step) ==
    /\ \E failed \in SUBSET Names :
          /\ known' = [known EXCEPT !.market = IF "market" \in failed THEN "none" ELSE market,
                                    !.plugin = IF "plugin" \in failed THEN "none" ELSE plugin]
          /\ blind' = failed
    /\ late' = {} /\ found' = <<market, plugin>>
    /\ pc' = step /\ UNCHANGED <<command, commands, ended, stuck>>

End(result) ==
    /\ command' = "none" /\ pc' = "none"
    /\ ended' = [command |-> command, result |-> result]
    /\ UNCHANGED <<commands, found, blind, late, stuck>>

(* An exception: undone by install if it is raised inside its try block,    *)
(* and swallowed if raised while it stops the service to undo that.         *)
Fail ==
    IF command = "install" /\ pc \in TrySteps
    THEN Goto(IF known.started THEN "find" ELSE "undo plugin")
    ELSE IF command = "install" /\ pc \in StopSteps
    THEN pc' = "undo plugin" /\ stuck' = TRUE /\ Same
    ELSE End("failed")

Begin(c) ==
    /\ command = "none" /\ commands < MaxCommands
    /\ command' = c /\ commands' = commands + 1
    /\ pc' = CASE c = "install" -> "read" [] c = "start" -> "root" [] OTHER -> "find"
    /\ known' = NothingKnown
    /\ found' = <<market, plugin>> /\ blind' = {} /\ late' = {} /\ stuck' = FALSE
    /\ UNCHANGED <<files, codex, process, spawned, ended>>

Kill ==
    /\ command # "none"
    /\ End("killed")
    /\ UNCHANGED <<files, codex, process, spawned, known>>

-----------------------------------------------------------------------------
(* install *)

(* Without a codex, Python, Docker or packages that are whole it fails.     *)
ReadCodex ==
    /\ pc = "read"
    /\ List("root") \/ (Fail /\ UNCHANGED known)
    /\ UNCHANGED <<files, codex, process, spawned>>

AfterRoot == IF command = "install" THEN "owned" ELSE "look"

CheckRoot ==
    /\ pc = "root"
    /\ CASE root = "marked"   -> Goto(AfterRoot) /\ UNCHANGED <<root, known>>
         [] root = "unmarked" -> Fail /\ UNCHANGED <<root, known>>
         [] root = "absent"   -> /\ root' = "unmarked" /\ known' = [known EXCEPT !.created = TRUE]
                                 /\ Goto("marker")
    /\ UNCHANGED <<receipt, record, codex, process, spawned>>

WriteMarker ==
    /\ pc = "marker"
    /\ \/ root' = "marked" /\ Goto(AfterRoot)
       \/ Fail /\ UNCHANGED root
    /\ UNCHANGED <<receipt, record, codex, known, process, spawned>>

AssertOwnership ==
    /\ pc = "owned"
    /\ IF "foreign" \in {known.market, known.plugin} THEN Fail ELSE Goto("market")
    /\ UNCHANGED <<files, codex, known, process, spawned>>

(* codex plugin add: a name that is taken stays as it is or is replaced.    *)
Added(owner) == IF owner = "none" THEN {"ours"} ELSE {owner, "ours"}

Register ==
    /\ \/ /\ pc = "market"
          /\ \/ known.market # "none" /\ Goto("plugin") /\ UNCHANGED <<codex, known>>
             \/ /\ known.market = "none"
                /\ market' \in Added(market) /\ known' = [known EXCEPT !.marketAdded = TRUE]
                /\ Goto("plugin") /\ UNCHANGED plugin
             \/ known.market = "none" /\ Fail /\ UNCHANGED <<codex, known>>
       \/ /\ pc = "plugin"
          /\ \/ known.plugin # "none" /\ Goto("verify") /\ UNCHANGED <<codex, known>>
             \/ /\ known.plugin = "none"
                /\ plugin' \in Added(plugin) /\ known' = [known EXCEPT !.pluginAdded = TRUE]
                /\ Goto("verify") /\ UNCHANGED market
             \/ known.plugin = "none" /\ Fail /\ UNCHANGED <<codex, known>>
    /\ UNCHANGED <<files, process, spawned>>

(* They are listed again, and a listing that fails is a failure now.        *)
Verify ==
    /\ pc = "verify"
    /\ \/ /\ market = "ours" /\ plugin = "ours" /\ late' = {}
          /\ pc' \in {"look", "receipt"}
          /\ UNCHANGED <<command, commands, found, blind, stuck, ended>>
       \/ Fail
    /\ UNCHANGED <<files, codex, known, process, spawned>>

(* Mutant: the receipt is not needed for an installation. *)
WriteReceiptOrNot ==
    /\ pc = "receipt"
    /\ receipt' \in {receipt, TRUE} /\ End("ok")
    /\ UNCHANGED <<root, record, codex, known, process, spawned>>

WriteReceipt ==
    /\ pc = "receipt"
    /\ \/ receipt' = TRUE /\ End("ok")
       \/ Fail /\ UNCHANGED receipt
    /\ UNCHANGED <<root, record, codex, known, process, spawned>>

(* Mutant: the marketplace of an undone installation is kept. *)
UndoPluginOnly ==
    /\ pc = "undo plugin" /\ plugin' = (IF known.pluginAdded THEN "none" ELSE plugin) /\ Goto("undo root")
    /\ UNCHANGED <<files, market, known, process, spawned>>

(* The catch block undoes what this script did, and ignores what fails.     *)
UndoRegistrations ==
    /\ \/ /\ pc = "undo plugin"
          /\ \/ plugin' = (IF known.pluginAdded THEN "none" ELSE plugin) /\ Goto("undo market")
             \/ known.pluginAdded /\ pc' = "undo market" /\ stuck' = TRUE /\ Same /\ UNCHANGED plugin
          /\ UNCHANGED market
       \/ /\ pc = "undo market"
          /\ \/ market' = (IF known.marketAdded THEN "none" ELSE market) /\ Goto("undo root")
             \/ known.marketAdded /\ pc' = "undo root" /\ stuck' = TRUE /\ Same /\ UNCHANGED market
          /\ UNCHANGED plugin
    /\ UNCHANGED <<files, known, process, spawned>>

RemoveRoot == root' = "absent" /\ receipt' = FALSE /\ record' = 0

UndoRoot ==
    /\ pc = "undo root"
    /\ IF known.created /\ root # "absent"
       THEN \/ RemoveRoot /\ End("rolled back")
            \/ End("failed") /\ UNCHANGED files
       ELSE End("rolled back") /\ UNCHANGED files
    /\ UNCHANGED <<codex, known, process, spawned>>

-----------------------------------------------------------------------------
(* startService *)

Started == IF command = "install" THEN Goto("receipt") ELSE End("ok")

Look ==
    /\ pc = "look"
    /\ \/ Up # {} /\ record \in Up /\ Started /\ UNCHANGED record
       \/ Up # {} /\ record \notin Up /\ Fail /\ UNCHANGED record
       \/ Up = {} /\ record \in Living /\ Fail /\ UNCHANGED record
       \/ Up = {} /\ record \notin Living /\ record' = 0 /\ Goto("spawn")
    /\ UNCHANGED <<root, receipt, codex, known, process, spawned>>

Spawn ==
    /\ pc = "spawn" /\ spawned < MaxStarts
    /\ spawned' = spawned + 1
    /\ process' = [process EXCEPT ![spawned + 1] = "starting"]
    /\ known' = [known EXCEPT !.child = spawned + 1]
    /\ Goto("record")
    /\ UNCHANGED <<files, codex>>

(* If it cannot be written the service goes on without a record, and no     *)
(* script knows of it.                                                      *)
WriteRecord ==
    /\ pc = "record"
    /\ \/ record' = known.child /\ known' = [known EXCEPT !.recorded = TRUE] /\ Goto("wait")
       \/ Fail /\ UNCHANGED <<record, known>>
    /\ UNCHANGED <<root, receipt, codex, process, spawned>>

(* After twenty seconds it is asked to end, and not waited for.             *)
WaitReady ==
    /\ pc = "wait"
    /\ \/ /\ process[known.child] = "up"
          /\ known' = [known EXCEPT !.started = TRUE] /\ Started
          /\ UNCHANGED <<record, process>>
       \/ /\ process' = [process EXCEPT ![known.child] = IF @ \in Alive THEN "ending" ELSE @]
          /\ record' = 0 /\ Fail /\ UNCHANGED known
    /\ UNCHANGED <<root, receipt, codex, spawned>>

-----------------------------------------------------------------------------
(* stopService, and the rest of uninstall *)

Stopped == CASE command = "install" -> Goto("undo plugin")
             [] command = "stop"    -> End("ok")
             [] OTHER               -> Goto("registrations")

FindService ==
    /\ pc = "find"
    /\ CASE root = "absent"   -> Stopped /\ UNCHANGED <<record, process>>
         [] root = "unmarked" -> Fail /\ UNCHANGED <<record, process>>
         [] OTHER ->
              \/ record = 0 /\ Up = {} /\ Stopped /\ UNCHANGED <<record, process>>
              \/ record = 0 /\ Up # {} /\ Fail /\ UNCHANGED <<record, process>>
              \/ /\ record \in Living
                 /\ process' = [process EXCEPT ![record] = "ending"]
                 /\ Goto("term") /\ UNCHANGED record
              \/ /\ record # 0 /\ record \notin Living
                 /\ record' = 0 /\ Stopped /\ UNCHANGED process
    /\ UNCHANGED <<root, receipt, codex, known, spawned>>

(* It ends within five seconds, or is killed. *)
EndService ==
    /\ pc = "term"
    /\ process' = [process EXCEPT ![record] = "dead"]
    /\ record' = 0
    /\ Stopped
    /\ UNCHANGED <<root, receipt, codex, known, spawned>>

(* Mutant: a receipt is enough, whatever is registered. *)
ReadReceiptOnly ==
    /\ pc = "registrations"
    /\ IF {market, plugin} # {"none"} /\ ~receipt
       THEN Fail /\ UNCHANGED known
       ELSE List("remove plugin")
    /\ UNCHANGED <<files, codex, process, spawned>>

(* Without a receipt, or with one of other registrations, those that were   *)
(* listed are kept; without a codex none is looked for.                     *)
ReadRegistrations ==
    /\ pc = "registrations"
    /\ \/ Goto("data") /\ UNCHANGED known
       \/ /\ List("remove plugin")
          /\ LET listed == {known'.market, known'.plugin} \ {"none"}
             IN  listed # {} => receipt /\ "foreign" \notin listed
       \/ {market, plugin} # {"none"} /\ (~receipt \/ "foreign" \in {market, plugin})
            /\ Fail /\ UNCHANGED known
    /\ UNCHANGED <<files, codex, process, spawned>>

Unregister ==
    /\ \/ /\ pc = "remove plugin" /\ UNCHANGED market
          /\ \/ plugin' = (IF known.plugin # "none" THEN "none" ELSE plugin) /\ Goto("remove market")
             \/ known.plugin # "none" /\ Fail /\ UNCHANGED plugin
       \/ /\ pc = "remove market" /\ UNCHANGED plugin
          /\ \/ market' = (IF known.market # "none" THEN "none" ELSE market) /\ Goto("data")
             \/ known.market # "none" /\ Fail /\ UNCHANGED market
    /\ UNCHANGED <<files, known, process, spawned>>

(* --delete-data or not; a directory without a marker is not deleted. *)
DeleteData ==
    /\ pc = "data"
    /\ \/ Goto("inspect") /\ UNCHANGED files
       \/ root = "marked" /\ RemoveRoot /\ Goto("inspect")
       \/ root # "absent" /\ Fail /\ UNCHANGED files
    /\ UNCHANGED <<codex, known, process, spawned>>

(* Nothing of it must be found, and a listing that fails is no absence.     *)
Inspect ==
    /\ pc = "inspect"
    /\ \/ market = "none" /\ plugin = "none" /\ record = 0 /\ Up = {} /\ End("ok")
       \/ Fail
    /\ UNCHANGED <<files, codex, known, process, spawned>>

-----------------------------------------------------------------------------
(* The service makes the data directory if there is none, and needs the     *)
(* port.                                                                    *)
ServiceComesUp(n) ==
    /\ process[n] = "starting"
    /\ IF root = "unmarked" \/ Up # {}
       THEN process' = [process EXCEPT ![n] = "dead"] /\ UNCHANGED root
       ELSE process' = [process EXCEPT ![n] = "up"] /\ root' = "marked"
    /\ UNCHANGED <<receipt, record, codex, script, spawned>>

ServiceDies(n) ==
    /\ process[n] \in Alive
    /\ process' = [process EXCEPT ![n] = "dead"]
    /\ UNCHANGED <<files, codex, script, spawned>>

Late(name) == late' = IF command = "none" THEN late ELSE late \cup {name}

(* At any moment another checkout takes a name with Codex. *)
OtherCheckout ==
    /\ \/ market # "foreign" /\ market' = "foreign" /\ Late("market") /\ UNCHANGED plugin
       \/ plugin # "foreign" /\ plugin' = "foreign" /\ Late("plugin") /\ UNCHANGED market
    /\ UNCHANGED <<files, command, pc, known, commands, found, blind, stuck, ended, process, spawned>>

Step ==
    \/ ReadCodex \/ CheckRoot \/ WriteMarker \/ AssertOwnership \/ Register \/ Verify \/ WriteReceipt
    \/ UndoRegistrations \/ UndoRoot \/ Look \/ Spawn \/ WriteRecord \/ WaitReady
    \/ FindService \/ EndService \/ ReadRegistrations \/ Unregister \/ DeleteData \/ Inspect

Next ==
    \/ \E c \in Commands : Begin(c)
    \/ Step \/ Kill \/ OtherCheckout
    \/ \E n \in Services : ServiceComesUp(n) \/ ServiceDies(n)

Spec == Init /\ [][Next]_vars

-----------------------------------------------------------------------------
(* What another checkout has registered with Codex is never changed by an   *)
(* installation, by undoing one that failed or by an uninstallation that    *)
(* could list it and did so after it was registered.                        *)
ForeignIsKept ==
    [][/\ market = "foreign" => market' = "foreign" \/ "market" \in blind \cup late
       /\ plugin = "foreign" => plugin' = "foreign" \/ "plugin" \in blind \cup late]_codex

(* An installation that fails inside its try block, none of whose undoing   *)
(* steps fails, ends with each registration as it found it, if it could     *)
(* list it and no other checkout came after that, without the directory it  *)
(* made, and with no service of its own on record that is up or may yet     *)
(* come up.                                                                 *)
FailureIsUndone ==
    [][/\ command = "install" /\ command' = "none"
       /\ ended'.result = "rolled back" /\ ~stuck
       => /\ market' = found[1] \/ "market" \in blind \cup late
          /\ plugin' = found[2] \/ "plugin" \in blind \cup late
          /\ known.created => root' = "absent"
          /\ known.recorded => process[known.child] \notin {"starting", "up"}]_vars

(* An installation that says so is complete: an uninstallation would find   *)
(* the receipt that lets it remove the registrations, which are its own but *)
(* for those another checkout has taken since they were verified.           *)
InstalledIsComplete ==
    [][command = "install" /\ command' = "none" /\ ended'.result = "ok"
       => /\ root' = "marked" /\ receipt'
          /\ market' = "ours" \/ "market" \in late
          /\ plugin' = "ours" \/ "plugin" \in late]_vars

-----------------------------------------------------------------------------
(* What the documentation says and the scripts do not keep. *)

(* What is said of a foreign registration ("it was not changed").           *)
ForeignIsNotChanged ==
    [][/\ market = "foreign" => market' = "foreign"
       /\ plugin = "foreign" => plugin' = "foreign"]_codex

(* A failed installation leaves no service that may yet come up.            *)
FailureLeavesNoService ==
    [][/\ command = "install" /\ command' = "none" /\ ended'.result = "rolled back" /\ ~stuck
       /\ known.child # 0
       => process[known.child] \notin {"starting", "up"}]_vars

(* After an uninstallation nothing of the product runs or will ("This       *)
(* removes the plugin, marketplace, optional startup shortcut, and running  *)
(* service").                                                               *)
UninstalledMeansGone ==
    ended = [command |-> "uninstall", result |-> "ok"] /\ command = "none" =>
        \A n \in Services : process[n] \notin {"starting", "up"}
=============================================================================
