----------------------------- MODULE ServiceStart -----------------------------
(***************************************************************************)
(* How a service comes up on a data directory: it takes or makes the        *)
(* directory, migrates the database, recovers the Runs a predecessor left,  *)
(* loads or makes the session token, once for the URL it prints and once    *)
(* for the requests it serves, and binds the port.  It may die at any step. *)
(* Nothing but the port, which comes last, keeps a second service from the  *)
(* same directory.                                                          *)
(***************************************************************************)
EXTENDS Naturals, FiniteSetsExt

CONSTANTS
    Services,       \* the processes that may be started
    MaxStarts       \* bound: how often they are started, all together

ASSUME StartAssumption == MaxStarts \in Nat

VARIABLES
    root,           \* the data directory and the marker in it
    tokenFile,      \* session-token: a token, 0 if there is none or it is short
    scores, head,   \* the Scores of one old Run, by age, and its score_heads row
    oldest,         \* oldest[s]: the Score _migrate has selected for that Run, 0 for none
    run,            \* the status of a Run
    owner,          \* (history) the start that works on it
    starts,         \* how many starts there were
    met,            \* (history) whether two services were ever up at a time
    pc,             \* pc[s]: the step of main
    start,          \* start[s]: the number of this start
    url,            \* url[s]: the token in the URL it prints
    session,        \* session[s]: the token it expects of a request
    seen            \* seen[s]: the status of the Run list_runs has read

vars == <<root, tokenFile, scores, head, oldest, run, owner, starts, met, pc, start, url, session, seen>>

Interrupted == {"preparing", "queued", "running", "validating"}

(* The life of a Run that nothing goes wrong with. *)
Following ==
    [none |-> "preparing", preparing |-> "ready", ready |-> "queued", queued |-> "running",
     running |-> "validating", validating |-> "completed"]

RunStatuses == DOMAIN Following \cup {"completed", "environment_error"}

Migrating == {"migrate", "insert head", "list runs", "recover"}

Started == {"token", "truncate", "write", "app token", "truncate again", "write again", "bind", "serving"}

(* Tokens by number: a start may make two. *)
Tokens == 0 .. 2 * MaxStarts

TypeOK ==
    /\ root \in {"absent", "unmarked", "marker open", "marked"}
    /\ tokenFile \in Tokens
    /\ scores \subseteq 1 .. 3 /\ head \in 0 .. 3
    /\ oldest \in [Services -> 0 .. 3]
    /\ run \in RunStatuses /\ owner \in 0 .. MaxStarts
    /\ starts \in 0 .. MaxStarts /\ met \in BOOLEAN
    /\ pc \in [Services -> {"off", "root", "marker", "mkdir", "open marker", "write marker"}
                           \cup Migrating \cup Started]
    /\ start \in [Services -> 0 .. MaxStarts]
    /\ url \in [Services -> Tokens] /\ session \in [Services -> Tokens]
    /\ seen \in [Services -> RunStatuses]

(* A directory of ours, of someone else's or none, with a database of a     *)
(* version that had no score_heads.                                         *)
Init ==
    /\ root \in {"absent", "unmarked", "marked"}
    /\ tokenFile = 0
    /\ scores \in IF root = "marked" THEN SUBSET (1 .. 2) ELSE {{}}
    /\ head = 0
    /\ oldest = [s \in Services |-> 0]
    /\ run = "none" /\ owner = 0 /\ starts = 0 /\ met = FALSE
    /\ pc = [s \in Services |-> "off"]
    /\ start = [s \in Services |-> 0]
    /\ url = [s \in Services |-> 0] /\ session = [s \in Services |-> 0]
    /\ seen = [s \in Services |-> "none"]

Goto(s, step) == pc' = [pc EXCEPT ![s] = step]

-----------------------------------------------------------------------------
Start(s) ==
    /\ pc[s] = "off" /\ starts < MaxStarts
    /\ starts' = starts + 1
    /\ start' = [start EXCEPT ![s] = starts + 1]
    /\ met' = (met \/ \E t \in Services : pc[t] # "off")
    /\ Goto(s, "root")
    /\ UNCHANGED <<root, tokenFile, scores, head, oldest, run, owner, url, session, seen>>

CheckRoot(s) ==
    /\ pc[s] = "root"
    /\ Goto(s, IF root = "absent" THEN "mkdir" ELSE "marker")
    /\ UNCHANGED <<root, tokenFile, scores, head, oldest, run, owner, starts, met, start, url, session, seen>>

(* Mutant: a marker that exists is a marker. *)
CheckMarkerExists(s) ==
    /\ pc[s] = "marker"
    /\ Goto(s, IF root \in {"marker open", "marked"} THEN "migrate" ELSE "off")
    /\ UNCHANGED <<root, tokenFile, scores, head, oldest, run, owner, starts, met, start, url, session, seen>>

(* A directory without a marker, or with one that does not parse, ends the  *)
(* start.                                                                   *)
CheckMarker(s) ==
    /\ pc[s] = "marker"
    /\ Goto(s, IF root = "marked" THEN "migrate" ELSE "off")
    /\ UNCHANGED <<root, tokenFile, scores, head, oldest, run, owner, starts, met, start, url, session, seen>>

(* mkdir fails if the directory has come to be.                             *)
MakeRoot(s) ==
    /\ \/ /\ pc[s] = "mkdir" /\ root = "absent"
          /\ root' = "unmarked" /\ Goto(s, "open marker")
       \/ /\ pc[s] = "mkdir" /\ root # "absent"
          /\ Goto(s, "off") /\ UNCHANGED root
       \/ /\ pc[s] = "open marker" /\ root = "unmarked"
          /\ root' = "marker open" /\ Goto(s, "write marker")
       \/ /\ pc[s] = "write marker"
          /\ root' = "marked" /\ Goto(s, "migrate")
    /\ UNCHANGED <<tokenFile, scores, head, oldest, run, owner, starts, met, start, url, session, seen>>

Oldest == IF scores = {} THEN 0 ELSE Min(scores)

(* Mutant: the head of an old Run is its last Score. *)
SelectLast(s) ==
    /\ pc[s] = "migrate"
    /\ oldest' = [oldest EXCEPT ![s] = IF scores = {} THEN 0 ELSE Max(scores)]
    /\ Goto(s, "insert head")
    /\ UNCHANGED <<root, tokenFile, scores, head, run, owner, starts, met, start, url, session, seen>>

(* Of the Scores of the Run, if it has any; no transaction is open yet.     *)
SelectOldest(s) ==
    /\ pc[s] = "migrate"
    /\ oldest' = [oldest EXCEPT ![s] = Oldest]
    /\ Goto(s, "insert head")
    /\ UNCHANGED <<root, tokenFile, scores, head, run, owner, starts, met, start, url, session, seen>>

(* INSERT OR IGNORE; a locked database ends the start. *)
InsertHead(s) ==
    /\ pc[s] = "insert head"
    /\ \/ /\ head' = IF head = 0 THEN oldest[s] ELSE head
          /\ Goto(s, "list runs")
       \/ Goto(s, "off") /\ UNCHANGED head
    /\ oldest' = [oldest EXCEPT ![s] = 0]
    /\ UNCHANGED <<root, tokenFile, scores, run, owner, starts, met, start, url, session, seen>>

ListRuns(s) ==
    /\ pc[s] = "list runs"
    /\ seen' = [seen EXCEPT ![s] = run]
    /\ Goto(s, "recover")
    /\ UNCHANGED <<root, tokenFile, scores, head, oldest, run, owner, starts, met, start, url, session>>

(* Mutant: a Run is interrupted when its Agent is. *)
RecoverRunning(s) ==
    /\ pc[s] = "recover"
    /\ run' = IF seen[s] = "running" THEN "environment_error" ELSE run
    /\ Goto(s, "token")
    /\ UNCHANGED <<root, tokenFile, scores, head, oldest, owner, starts, met, start, url, session, seen>>

(* save_run writes the record that was read, whatever became of it since.   *)
Recover(s) ==
    /\ pc[s] = "recover"
    /\ run' = IF seen[s] \in Interrupted THEN "environment_error" ELSE run
    /\ Goto(s, "token")
    /\ UNCHANGED <<root, tokenFile, scores, head, oldest, owner, starts, met, start, url, session, seen>>

FirstToken(s)  == 2 * start[s] - 1
SecondToken(s) == 2 * start[s]

LoadToken(s) ==
    /\ pc[s] = "token"
    /\ IF tokenFile # 0
       THEN url' = [url EXCEPT ![s] = tokenFile] /\ Goto(s, "app token")
       ELSE url' = [url EXCEPT ![s] = FirstToken(s)] /\ Goto(s, "truncate")
    /\ UNCHANGED <<root, tokenFile, scores, head, oldest, run, owner, starts, met, start, session, seen>>

(* Mutant: the file is not read a second time. *)
MakeAppToken(s) ==
    /\ pc[s] = "app token"
    /\ session' = [session EXCEPT ![s] = SecondToken(s)] /\ Goto(s, "bind")
    /\ UNCHANGED <<root, tokenFile, scores, head, oldest, run, owner, starts, met, start, url, seen>>

(* create_app loads the token again. *)
LoadAppToken(s) ==
    /\ pc[s] = "app token"
    /\ IF tokenFile # 0
       THEN session' = [session EXCEPT ![s] = tokenFile] /\ Goto(s, "bind")
       ELSE session' = [session EXCEPT ![s] = SecondToken(s)] /\ Goto(s, "truncate again")
    /\ UNCHANGED <<root, tokenFile, scores, head, oldest, run, owner, starts, met, start, url, seen>>

(* write_text empties the file before it fills it. *)
WriteToken(s) ==
    /\ \/ pc[s] = "truncate" /\ tokenFile' = 0 /\ Goto(s, "write")
       \/ pc[s] = "write" /\ tokenFile' = url[s] /\ Goto(s, "app token")
       \/ pc[s] = "truncate again" /\ tokenFile' = 0 /\ Goto(s, "write again")
       \/ pc[s] = "write again" /\ tokenFile' = session[s] /\ Goto(s, "bind")
    /\ UNCHANGED <<root, scores, head, oldest, run, owner, starts, met, start, url, session, seen>>

(* One service has the port; the other one ends.                            *)
Bind(s) ==
    /\ pc[s] = "bind"
    /\ Goto(s, IF \E t \in Services : pc[t] = "serving" THEN "off" ELSE "serving")
    /\ UNCHANGED <<root, tokenFile, scores, head, oldest, run, owner, starts, met, start, url, session, seen>>

-----------------------------------------------------------------------------
(* A service that is up works on the Run, and scores the old one. *)

WorkOnRun(s) ==
    /\ pc[s] = "serving" /\ run \in DOMAIN Following
    /\ run \in Interrupted => owner = start[s]
    /\ run' = Following[run] /\ owner' = start[s]
    /\ UNCHANGED <<root, tokenFile, scores, head, oldest, starts, met, pc, start, url, session, seen>>

(* The head of a Run is taken once; if it is, save_score stores nothing.    *)
SaveScore(s) ==
    /\ pc[s] = "serving" /\ head = 0
    /\ scores' = scores \cup {3} /\ head' = 3
    /\ UNCHANGED <<root, tokenFile, oldest, run, owner, starts, met, pc, start, url, session, seen>>

Die(s) ==
    /\ pc[s] # "off"
    /\ Goto(s, "off")
    /\ oldest' = [oldest EXCEPT ![s] = 0]
    /\ UNCHANGED <<root, tokenFile, scores, head, run, owner, starts, met, start, url, session, seen>>

Step(s) ==
    \/ CheckRoot(s) \/ CheckMarker(s) \/ MakeRoot(s)
    \/ SelectOldest(s) \/ InsertHead(s) \/ ListRuns(s) \/ Recover(s)
    \/ LoadToken(s) \/ LoadAppToken(s) \/ WriteToken(s) \/ Bind(s)

Next ==
    \E s \in Services : Start(s) \/ Step(s) \/ WorkOnRun(s) \/ SaveScore(s) \/ Die(s)

Spec == Init /\ [][Next]_vars

-----------------------------------------------------------------------------
(* A directory is worked in only once its marker is whole: neither one that *)
(* is someone else's nor one whose making broke off, or goes on, is taken.  *)
RootIsOwned == \A s \in Services : pc[s] \in Started \cup Migrating => root = "marked"

(* Of the Scores of an old Run the oldest becomes and stays its head,       *)
(* however often the migration is repeated, broken off or run twice, and    *)
(* whatever was saved between its two statements.                           *)
HeadIsTheOldest ==
    /\ head # 0 => head = Min(scores)
    /\ \A s \in Services : pc[s] = "serving" /\ scores # {} => head # 0

(* While services come one after the other, whatever step each dies at, one *)
(* that is up leaves no Run of a dead one in between.                       *)
NothingIsLeftInterrupted ==
    ~met => \A s \in Services : pc[s] = "serving" /\ run \in Interrupted => owner = start[s]

(* And the token it expects is the one in the URL it printed and the one in *)
(* the file, from which the token of a Run's Agent is derived: the user's   *)
(* requests and the Agent's are accepted.                                   *)
TokensAgree ==
    \A s \in Services : pc[s] = "serving" => session[s] = tokenFile /\ session[s] = url[s]

TokenIsOnFile == ~met => TokensAgree

-----------------------------------------------------------------------------
(* What two services on one directory break: TokensAgree, and what the      *)
(* documentation says of recovery.                                          *)

(* Recovery is of Runs whose service has gone ("The factory restarted       *)
(* before this Run reached a terminal state").                              *)
RecoveryIsOfTheDead ==
    [][run' = "environment_error" /\ run # "environment_error"
         => ~\E s \in Services : pc[s] = "serving" /\ start[s] = owner]_vars
=============================================================================
