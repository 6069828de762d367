--------------------------- MODULE SharedDataProofs ---------------------------
(***************************************************************************)
(* What services on one data directory can rely on.  For the start: what   *)
(* has to hold of the directory and of the head Scores whoever else starts *)
(* at the time, and what of the recovered Run and the tokens as long as no *)
(* two services ever met.                                                  *)
(*                                                                         *)
(* The library has one record of a document and keeps what it answered. A   *)
(* service may have looked for the document in an old state, and may have   *)
(* left its transaction open: what carries the argument is that one        *)
(* connection at a time writes, and what it and the others can see         *)
(* meanwhile.                                                              *)
(*                                                                         *)
(* Recordings have no such lock.  With one service a recording keeps its   *)
(* events, and a completed one stays so, with the events that are evidence *)
(* of the Blueprint made from it: no other handler saves the recording     *)
(* while one has a copy of it.  That the solution descends from the base   *)
(* needs no such assumption.                                               *)
(***************************************************************************)
EXTENDS ServiceStart, Sequences, TLAPS

Serving == {"list runs", "recover"} \cup Started

Tokened == {"token", "truncate", "write", "app token", "truncate again", "write again", "bind"}

Domains ==
    /\ DOMAIN pc = Services /\ DOMAIN start = Services /\ DOMAIN url = Services
    /\ DOMAIN session = Services /\ DOMAIN seen = Services
    /\ DOMAIN oldest = Services
    /\ scores \subseteq 1 .. 3 /\ starts \in Nat /\ start \in [Services -> Nat]

(* The migration is over before a service does anything else, and no Score  *)
(* joins headless ones while it goes on: one saved meanwhile is a head.     *)
MigratedHasHead ==
    /\ head # 0 => head = Min(scores) /\ scores # {}
    /\ \A s \in Services : pc[s] = "insert head" /\ head = 0 => oldest[s] = Oldest
    /\ \A s \in Services : pc[s] \in Serving /\ scores # {} => head # 0

RootIsMarked == \A s \in Services : pc[s] \in Serving \cup {"migrate", "insert head"} => root = "marked"

OneIsUp ==
    /\ \A s \in Services : pc[s] # "off" => start[s] > 0
    /\ ~met => \A s, t \in Services : pc[s] # "off" /\ pc[t] # "off" => s = t

(* A start that meets no other one recovers the Run as it finds it.         *)
AloneRecovers ==
    ~met => \A s \in Services :
        /\ pc[s] = "recover" => seen[s] = run
        /\ pc[s] \in Tokened => run \notin Interrupted
        /\ pc[s] = "serving" /\ run \in Interrupted => owner = start[s]

(* And finds the token it has written.                                      *)
AloneHasToken ==
    ~met => \A s \in Services :
        /\ pc[s] \in {"truncate", "write"} => url[s] # 0
        /\ pc[s] = "app token" => tokenFile = url[s] /\ tokenFile # 0
        /\ pc[s] \notin {"truncate again", "write again"}
        /\ pc[s] \in {"bind", "serving"} => session[s] = tokenFile /\ session[s] = url[s]

IInv == Domains /\ RootIsMarked /\ MigratedHasHead /\ OneIsUp /\ AloneRecovers /\ AloneHasToken

-----------------------------------------------------------------------------
(* The oldest of up to three Scores.                                        *)
LEMMA OldestScore ==
    ASSUME NEW S \in SUBSET (1 .. 3), S # {}
    PROVE  /\ Min(S) \in S /\ \A x \in S : Min(S) <= x
           /\ Min(S) # 0
<1>1. \E m \in S : \A x \in S : m <= x
  <2>1. CASE 1 \in S
    BY <2>1
  <2>2. CASE 1 \notin S /\ 2 \in S
    BY <2>2
  <2>3. CASE 1 \notin S /\ 2 \notin S
    <3>1. \A x \in S : x = 3
      BY <2>3
    <3>2. 3 \in S
      BY <3>1
    <3> QED BY <3>1, <3>2
  <2> QED BY <2>1, <2>2, <2>3
<1>2. Min(S) \in S /\ \A x \in S : Min(S) <= x
  BY <1>1 DEF Min
<1> QED BY <1>2

LEMMA OnlyScore == Min({} \cup {3}) = 3
<1>1. {} \cup {3} = {3}
  OBVIOUS
<1>2. Min({3}) \in {3}
  BY OldestScore
<1> QED BY <1>1, <1>2

LEMMA Numbers == \A n \in Nat : n + 1 \in Nat /\ n + 1 > 0 /\ (n > 0 => 2 * n - 1 # 0)
  OBVIOUS

LEMMA InitInvariant == Init => IInv
<1> SUFFICES ASSUME Init PROVE IInv
  OBVIOUS
<1>1. Domains
  BY DEF Init, Domains
<1>2. RootIsMarked /\ MigratedHasHead /\ OneIsUp
  BY DEF Init, RootIsMarked, MigratedHasHead, OneIsUp, Serving, Started
<1>3. AloneRecovers /\ AloneHasToken
  BY DEF Init, AloneRecovers, AloneHasToken, Tokened
<1> QED BY <1>1, <1>2, <1>3 DEF IInv

(* Start, the look at the directory and the making of it.                   *)
LEMMA RootKeeps ==
    ASSUME IInv, NEW s \in Services, Start(s) \/ CheckRoot(s) \/ CheckMarker(s) \/ MakeRoot(s)
    PROVE  IInv'
<1> USE DEF IInv, Domains, Goto, Start, CheckRoot, CheckMarker, MakeRoot
<1>1. Domains'
  <2>1. CASE Start(s)
    <3>1. starts + 1 \in Nat
      BY Numbers
    <3> QED BY <2>1, <3>1
  <2>2. CASE CheckRoot(s) \/ CheckMarker(s) \/ MakeRoot(s)
    BY <2>2
  <2> QED BY <2>1, <2>2
<1>2. RootIsMarked'
  BY DEF RootIsMarked, Serving, Started
<1>3. MigratedHasHead'
  BY DEF MigratedHasHead, Oldest, Serving, Started
<1>4. OneIsUp'
  <2>1. CASE Start(s)
    <3>1. pc'[s] # "off" /\ start'[s] > 0 /\ \A t \in Services \ {s} : pc'[t] = pc[t] /\ start'[t] = start[t]
      BY <2>1
    <3>2. ~met' => \A t \in Services : pc[t] = "off"
      BY <2>1
    <3> QED BY <3>1, <3>2 DEF OneIsUp
  <2>2. CASE CheckRoot(s) \/ CheckMarker(s) \/ MakeRoot(s)
    BY <2>2 DEF OneIsUp
  <2> QED BY <2>1, <2>2
<1>5. AloneRecovers'
  BY DEF AloneRecovers, Tokened
<1>6. AloneHasToken'
  BY DEF AloneHasToken
<1> QED BY <1>1, <1>2, <1>3, <1>4, <1>5, <1>6

LEMMA MigrateKeeps ==
    ASSUME IInv, NEW s \in Services, SelectOldest(s) \/ InsertHead(s) \/ ListRuns(s) \/ Recover(s)
    PROVE  IInv'
<1> USE DEF IInv, Domains, Goto, SelectOldest, InsertHead, ListRuns, Recover
<1>1. Domains'
  OBVIOUS
<1>2. RootIsMarked'
  BY DEF RootIsMarked, Serving, Started
<1>3. MigratedHasHead'
  BY OldestScore DEF MigratedHasHead, Oldest, Serving, Started
<1>4. OneIsUp'
  BY DEF OneIsUp
<1>5. AloneRecovers'
  BY DEF AloneRecovers, Tokened, Interrupted, OneIsUp
<1>6. AloneHasToken'
  BY DEF AloneHasToken
<1> QED BY <1>1, <1>2, <1>3, <1>4, <1>5, <1>6

LEMMA TokenKeeps ==
    ASSUME IInv, NEW s \in Services, LoadToken(s) \/ LoadAppToken(s) \/ WriteToken(s) \/ Bind(s)
    PROVE  IInv'
<1> USE DEF IInv, Domains, Goto, LoadToken, LoadAppToken, WriteToken, Bind
<1>1. Domains'
  OBVIOUS
<1>2. RootIsMarked'
  BY DEF RootIsMarked, Serving, Started
<1>3. MigratedHasHead'
  BY DEF MigratedHasHead, Oldest, Serving, Started
<1>4. OneIsUp'
  BY DEF OneIsUp
<1>5. AloneRecovers'
  BY DEF AloneRecovers, Tokened
<1>6. AloneHasToken'
  <2>1. FirstToken(s) # 0 \/ pc[s] = "off"
    <3>1. start[s] \in Nat /\ (start[s] > 0 \/ pc[s] = "off")
      BY DEF OneIsUp
    <3> QED BY <3>1, Numbers DEF FirstToken
  <2>2. ASSUME ~met, NEW t \in Services, t # s PROVE pc[t] = "off" \/ pc[s] = "off"
    BY <2>2 DEF OneIsUp
  <2>3. CASE LoadToken(s)
    BY <2>1, <2>2, <2>3 DEF AloneHasToken
  <2>4. CASE LoadAppToken(s)
    BY <2>2, <2>4 DEF AloneHasToken
  <2>5. CASE WriteToken(s)
    BY <2>2, <2>5 DEF AloneHasToken
  <2>6. CASE Bind(s)
    BY <2>2, <2>6 DEF AloneHasToken
  <2> QED BY <2>3, <2>4, <2>5, <2>6
<1> QED BY <1>1, <1>2, <1>3, <1>4, <1>5, <1>6

LEMMA WorkKeeps ==
    ASSUME IInv, NEW s \in Services, WorkOnRun(s) \/ SaveScore(s) \/ Die(s)
    PROVE  IInv'
<1> USE DEF IInv, Domains, Goto, WorkOnRun, SaveScore, Die
<1>1. Domains'
  <2>1. scores' \subseteq 1 .. 3
    <3>1. 3 \in 1 .. 3
      OBVIOUS
    <3> QED BY <3>1
  <2> QED BY <2>1
<1>2. RootIsMarked'
  BY DEF RootIsMarked, Serving, Started
<1>3. MigratedHasHead'
  <2>1. CASE SaveScore(s)
    <3>1. scores = {} /\ scores' = {3} /\ head' = 3
      BY <2>1 DEF MigratedHasHead, Serving, Started
    <3>2. Min({3}) = 3
      BY OnlyScore
    <3>3. Min(scores') = head' /\ scores' # {} /\ head' # 0
      BY <3>1, <3>2
    <3> QED BY <3>3, <2>1 DEF MigratedHasHead
  <2>2. CASE WorkOnRun(s) \/ Die(s)
    BY <2>2 DEF MigratedHasHead, Oldest, Serving, Started
  <2> QED BY <2>1, <2>2
<1>4. OneIsUp'
  BY DEF OneIsUp
<1>5. AloneRecovers'
  BY DEF AloneRecovers, OneIsUp, Tokened
<1>6. AloneHasToken'
  BY DEF AloneHasToken
<1> QED BY <1>1, <1>2, <1>3, <1>4, <1>5, <1>6

LEMMA StepInvariant == IInv /\ [Next]_vars => IInv'
<1> SUFFICES ASSUME IInv, [Next]_vars PROVE IInv'
  OBVIOUS
<1>1. CASE Next
  BY <1>1, RootKeeps, MigrateKeeps, TokenKeeps, WorkKeeps DEF Next, Step
<1>2. CASE UNCHANGED vars
  <2>1. Domains' /\ RootIsMarked' /\ MigratedHasHead' /\ OneIsUp'
    BY <1>2 DEF vars, IInv, Domains, RootIsMarked, MigratedHasHead, Oldest, OneIsUp
  <2>2. AloneRecovers' /\ AloneHasToken'
    BY <1>2 DEF vars, IInv, AloneRecovers, AloneHasToken
  <2> QED BY <2>1, <2>2 DEF IInv
<1> QED BY <1>1, <1>2

(* The strengthened invariant, for any services and number of starts.       *)
THEOREM StartInvariant == Spec => []IInv
  BY InitInvariant, StepInvariant, PTL DEF Spec

(* ensure_data_root: no service works in a directory without its marker.    *)
THEOREM RootsAreOwned == Spec => []RootIsOwned
<1>1. IInv => RootIsOwned
  BY DEF IInv, RootIsMarked, RootIsOwned, Migrating, Serving
<1> QED BY <1>1, StartInvariant, PTL

(* _migrate and save_score: the head of an old Run is its oldest Score.     *)
THEOREM HeadsAreTheOldest == Spec => []HeadIsTheOldest
<1>1. IInv => HeadIsTheOldest
  BY DEF IInv, MigratedHasHead, HeadIsTheOldest, Serving, Started
<1> QED BY <1>1, StartInvariant, PTL

(* recover_interrupted_runs leaves no Run of a dead service in between, if  *)
(* no two services met.                                                     *)
THEOREM NothingStaysInterrupted == Spec => []NothingIsLeftInterrupted
<1>1. IInv => NothingIsLeftInterrupted
  BY DEF IInv, AloneRecovers, NothingIsLeftInterrupted
<1> QED BY <1>1, StartInvariant, PTL

(* load_or_create_token: the service, its URL and the file agree on the     *)
(* token, if no two services met.                                           *)
THEOREM TokensAreOnFile == Spec => []TokenIsOnFile
<1>1. IInv => TokenIsOnFile
  BY DEF IInv, AloneHasToken, TokenIsOnFile, TokensAgree
<1> QED BY <1>1, StartInvariant, PTL

-----------------------------------------------------------------------------
(* The protocol library of the same services, whose variables pc and seen   *)
(* are statement and shown here.                                            *)
CONSTANTS Limit, Marker, Lengths, MaxImports
VARIABLES library, tx, shown, statement, draft, resent, answer, imports

Library == INSTANCE ProtocolLibrary WITH pc <- statement, seen <- shown

Connections ==
    /\ DOMAIN tx = Services /\ DOMAIN shown = Services /\ DOMAIN statement = Services
    /\ DOMAIN draft = Services /\ DOMAIN answer = Services

(* The lock on the database. *)
OneWriter == \A s, u \in Services : tx[s] = "writing" /\ tx[u] = "writing" => s = u

(* A draft is sanitized. *)
DraftIsClean ==
    \A s \in Services : statement[s] \in {"select", "insert", "commit"} => draft[s].document.secret = FALSE

(* Nobody commits without the lock; what a writer would commit is what is   *)
(* there, and its draft if it is about to.                                  *)
WriterSees ==
    \A s \in Services :
        /\ statement[s] = "commit" => tx[s] = "writing"
        /\ tx[s] = "writing" /\ statement[s] # "commit" => shown[s] = library
        /\ tx[s] = "writing" /\ statement[s] = "commit" =>
               /\ shown[s] = library \cup {draft[s]}
               /\ \A r \in library : r.document # draft[s].document

(* What a reader sees was committed. *)
ReaderSees ==
    \A s \in Services : tx[s] \notin {"none", "open", "writing"} => shown[s] \subseteq library

LibraryInv ==
    /\ Connections /\ OneWriter /\ DraftIsClean /\ WriterSees /\ ReaderSees
    /\ Library!OneRecordEach /\ Library!AnsweredIsKept

-----------------------------------------------------------------------------
LEMMA InitLibrary == Library!Init => LibraryInv
<1> SUFFICES ASSUME Library!Init PROVE LibraryInv
  OBVIOUS
<1>1. Connections /\ OneWriter
  BY DEF Library!Init, Connections, OneWriter
<1>2. DraftIsClean /\ WriterSees /\ ReaderSees
  BY DEF Library!Init, DraftIsClean, WriterSees, ReaderSees
<1>3. Library!OneRecordEach /\ Library!AnsweredIsKept
  BY DEF Library!Init, Library!OneRecordEach, Library!AnsweredIsKept
<1> QED BY <1>1, <1>2, <1>3 DEF LibraryInv

(* What a connection sees outside of its own insertion is committed.        *)
LEMMA ViewIsCommitted ==
    ASSUME LibraryInv, NEW s \in Services, statement[s] # "commit"
    PROVE  Library!View(s) \subseteq library
BY DEF LibraryInv, Library!View, WriterSees, ReaderSees

(* A step of one connection that leaves library, lock and draft alone.      *)
LEMMA ReadKeeps ==
    ASSUME LibraryInv, NEW s \in Services, Library!Read(s), UNCHANGED library, statement[s] # "commit",
           UNCHANGED draft, DOMAIN statement' = Services, DOMAIN answer' = Services,
           \A u \in Services \ {s} : statement'[u] = statement[u],
           statement'[s] # "commit",
           statement'[s] \in {"select", "insert"} => statement[s] \in {"select", "insert"}
    PROVE  (Connections /\ OneWriter /\ DraftIsClean /\ WriterSees /\ ReaderSees /\ Library!OneRecordEach)'
<1> USE DEF LibraryInv, Connections
<1>1. Connections'
  BY DEF Library!Read
<1>2. OneWriter'
  BY DEF Library!Read, OneWriter
<1>3. DraftIsClean'
  BY DEF DraftIsClean
<1>4. WriterSees'
  BY DEF Library!Read, WriterSees
<1>5. ReaderSees'
  BY DEF Library!Read, ReaderSees
<1>6. Library!OneRecordEach'
  BY DEF Library!OneRecordEach
<1> QED BY <1>1, <1>2, <1>3, <1>4, <1>5, <1>6

LEMMA ImportKeeps ==
    ASSUME LibraryInv, NEW s \in Services, Library!Import(s)
    PROVE  LibraryInv'
<1> USE DEF Library!Import, LibraryInv, Connections, Library!Goto, Library!database
<1>1. Connections' /\ OneWriter'
  BY DEF OneWriter
<1>2. draft'[s].document.secret = FALSE
  BY DEF Library!Redact
<1>3. DraftIsClean'
  BY <1>2 DEF DraftIsClean
<1>4. WriterSees' /\ ReaderSees'
  BY DEF WriterSees, ReaderSees
<1>5. Library!OneRecordEach' /\ Library!AnsweredIsKept'
  BY DEF Library!OneRecordEach, Library!AnsweredIsKept
<1> QED BY <1>1, <1>3, <1>4, <1>5

LEMMA SelectKeeps ==
    ASSUME LibraryInv, NEW s \in Services, Library!Select(s)
    PROVE  LibraryInv'
<1>1. Library!View(s) \subseteq library
  BY ViewIsCommitted DEF Library!Select
<1>2. (Connections /\ OneWriter /\ DraftIsClean /\ WriterSees /\ ReaderSees /\ Library!OneRecordEach)'
  <2>1. statement'[s] \in {"answered", "insert"} /\ DOMAIN statement' = Services /\ DOMAIN answer' = Services
        /\ \A u \in Services \ {s} : statement'[u] = statement[u]
    BY DEF Library!Select, Library!Goto, LibraryInv, Connections
  <2> QED BY <2>1, ReadKeeps DEF Library!Select
<1>3. Library!AnsweredIsKept'
  BY <1>1 DEF Library!Select, LibraryInv, Connections, Library!AnsweredIsKept
<1> QED BY <1>2, <1>3 DEF LibraryInv

LEMMA InsertKeeps ==
    ASSUME LibraryInv, NEW s \in Services, Library!Insert(s) \/ Library!Locked(s)
    PROVE  LibraryInv'
<1> USE DEF LibraryInv, Connections, Library!Goto
<1>1. CASE Library!Insert(s)
  <2>1. Connections' /\ Library!OneRecordEach' /\ Library!AnsweredIsKept'
    BY <1>1 DEF Library!Insert, Library!OneRecordEach, Library!AnsweredIsKept
  <2>2. OneWriter'
    BY <1>1 DEF Library!Insert, OneWriter, Library!Free
  <2>3. DraftIsClean'
    BY <1>1 DEF Library!Insert, DraftIsClean
  <2>4. WriterSees'
    BY <1>1 DEF Library!Insert, WriterSees
  <2>5. ReaderSees'
    BY <1>1 DEF Library!Insert, ReaderSees
  <2> QED BY <2>1, <2>2, <2>3, <2>4, <2>5
<1>2. CASE Library!Locked(s)
  <2>1. Connections' /\ Library!OneRecordEach' /\ Library!AnsweredIsKept'
    BY <1>2 DEF Library!Locked, Library!OneRecordEach, Library!AnsweredIsKept
  <2>2. OneWriter' /\ DraftIsClean'
    BY <1>2 DEF Library!Locked, OneWriter, DraftIsClean
  <2>3. WriterSees'
    BY <1>2 DEF Library!Locked, WriterSees
  <2>4. ReaderSees'
    BY <1>2 DEF Library!Locked, ReaderSees
  <2> QED BY <2>1, <2>2, <2>3, <2>4
<1> QED BY <1>1, <1>2

LEMMA CommitKeeps ==
    ASSUME LibraryInv, NEW s \in Services, Library!Commit(s)
    PROVE  LibraryInv'
<1> USE DEF LibraryInv, Connections, Library!Goto, Library!Commit, Library!Publish
<1>1. /\ library' = library \cup {draft[s]}
      /\ draft[s].document.secret = FALSE
      /\ \A r \in library : r.document # draft[s].document
  BY DEF WriterSees, DraftIsClean
<1>2. Connections' /\ OneWriter' /\ DraftIsClean'
  BY DEF OneWriter, DraftIsClean
<1>3. \A u \in Services \ {s} : tx[u] # "writing"
  BY DEF OneWriter, WriterSees
<1>4. WriterSees'
  BY <1>3 DEF WriterSees
<1>5. ReaderSees'
  BY <1>1, <1>3 DEF ReaderSees
<1>6. Library!OneRecordEach'
  BY <1>1 DEF Library!OneRecordEach
<1>7. Library!AnsweredIsKept'
  BY <1>1 DEF Library!AnsweredIsKept
<1> QED BY <1>2, <1>4, <1>5, <1>6, <1>7

LEMMA WriteKeeps ==
    ASSUME LibraryInv, NEW s \in Services,
           Library!OtherWrite(s) \/ Library!ManagedWrite(s) \/ Library!Die(s)
    PROVE  LibraryInv'
<1> USE DEF LibraryInv, Connections, Library!Goto, Library!OtherWrite, Library!ManagedWrite,
            Library!Die, Library!Publish
<1>1. Connections' /\ Library!OneRecordEach' /\ Library!AnsweredIsKept'
  BY DEF Library!OneRecordEach, Library!AnsweredIsKept
<1>2. OneWriter'
  BY DEF OneWriter, Library!Free
<1>3. DraftIsClean'
  BY DEF DraftIsClean
<1>4. WriterSees'
  BY DEF WriterSees, Library!Free
<1>5. ReaderSees'
  BY DEF ReaderSees, Library!Free
<1> QED BY <1>1, <1>2, <1>3, <1>4, <1>5

LEMMA ListKeeps ==
    ASSUME LibraryInv, NEW s \in Services, Library!List(s)
    PROVE  LibraryInv'
<1>1. (Connections /\ OneWriter /\ DraftIsClean /\ WriterSees /\ ReaderSees /\ Library!OneRecordEach)'
  BY ReadKeeps DEF Library!List, LibraryInv, Connections
<1>2. Library!AnsweredIsKept'
  BY DEF Library!List, LibraryInv, Library!AnsweredIsKept
<1> QED BY <1>1, <1>2 DEF LibraryInv

LEMMA StepLibrary == LibraryInv /\ [Library!Next]_(Library!vars) => LibraryInv'
<1> SUFFICES ASSUME LibraryInv, [Library!Next]_(Library!vars) PROVE LibraryInv'
  OBVIOUS
<1>1. CASE Library!Next
  BY <1>1, ImportKeeps, SelectKeeps, InsertKeeps, CommitKeeps, WriteKeeps, ListKeeps DEF Library!Next
<1>2. CASE UNCHANGED Library!vars
  <2>1. Connections' /\ OneWriter' /\ DraftIsClean' /\ WriterSees' /\ ReaderSees'
    BY <1>2 DEF Library!vars, Library!database, LibraryInv, Connections, OneWriter, DraftIsClean,
                WriterSees, ReaderSees
  <2>2. Library!OneRecordEach' /\ Library!AnsweredIsKept'
    BY <1>2 DEF Library!vars, Library!database, LibraryInv, Library!OneRecordEach, Library!AnsweredIsKept
  <2> QED BY <2>1, <2>2 DEF LibraryInv
<1> QED BY <1>1, <1>2

(* The strengthened invariant, for any services and texts.                  *)
THEOREM LibraryInvariant == Library!Spec => []LibraryInv
  BY InitLibrary, StepLibrary, PTL DEF Library!Spec

(* save_protocol_document keeps one record of a sanitized document,         *)
(* whichever services import it at a time.                                  *)
THEOREM DocumentsHaveOneRecord == Library!Spec => []Library!OneRecordEach
<1>1. LibraryInv => Library!OneRecordEach
  BY DEF LibraryInv
<1> QED BY <1>1, LibraryInvariant, PTL

(* A record that was answered with 201 stays in the library.                *)
THEOREM AnswersAreKept == Library!Spec => []Library!AnsweredIsKept
<1>1. LibraryInv => Library!AnsweredIsKept
  BY DEF LibraryInv
<1> QED BY <1>1, LibraryInvariant, PTL

-----------------------------------------------------------------------------
(* The recordings of the same services; stage is the pc of Demonstration.   *)
CONSTANT MaxEvents
VARIABLES recording, branches, blueprint, stage, copy, commits, acknowledged

Demo == INSTANCE Demonstration WITH pc <- stage

Alone == \A s, u \in Services : s = u

(* The commits a handler has, as it goes on from test to test. *)
CommitsAreTested ==
    \A s \in Services :
        /\ stage[s] = "diff" => /\ commits[s].base # commits[s].solution
                              /\ Demo!Ancestor(commits[s].base, commits[s].solution)
        /\ commits[s] \in [base : Demo!Commits \cup {Demo!NoCommit},
                           solution : Demo!Commits \cup {Demo!NoCommit}]

DescentInv ==
    /\ DOMAIN stage = Services /\ DOMAIN commits = Services
    /\ branches \in [base : Demo!Commits, solution : Demo!Commits]
    /\ CommitsAreTested /\ Demo!SolutionDescends

Evidence(r) == r.status = "completed" /\ Demo!Required \subseteq Demo!Observed(r)

(* A handler's copy is the recording until the handler returns.             *)
CopyIsCurrent ==
    \A s \in Services :
        /\ stage[s] # "idle" => copy[s] = recording
        /\ stage[s] \in {"solution", "ancestor", "diff"} => Evidence(copy[s])

Recordings ==
    [status : {"none", "recording", "completed"}, events : Seq(Demo!Required),
     completed_at : Demo!Times \cup {Demo!Never}]

RecordingInv ==
    /\ DOMAIN stage = Services /\ DOMAIN copy = Services
    /\ recording \in Recordings
    /\ recording.status = "none" => recording = Demo!NoRecording
    /\ CopyIsCurrent /\ Demo!EventsAreKept /\ Demo!BlueprintHasEvidence

(* What a step may not do to a completed recording. *)
StaysCompleted ==
    recording.status = "completed"
        => recording'.status = "completed" /\ recording'.events = recording.events

-----------------------------------------------------------------------------
LEMMA InitDescent == Demo!Init => DescentInv
<1> SUFFICES ASSUME Demo!Init PROVE DescentInv
  OBVIOUS
<1> QED BY DEF Demo!Init, DescentInv, CommitsAreTested, Demo!SolutionDescends, Demo!NoCommits

(* The owner of the repository may do as they like: what is tested and      *)
(* saved are the commits that were resolved.                                *)
LEMMA StepDescent == DescentInv /\ [Demo!Next]_(Demo!vars) => DescentInv'
<1> SUFFICES ASSUME DescentInv, [Demo!Next]_(Demo!vars) PROVE DescentInv'
  OBVIOUS
<1> USE DEF DescentInv
<1>1. CASE Demo!MoveBranch
  <2>1. branches' \in [base : Demo!Commits, solution : Demo!Commits]
    BY <1>1 DEF Demo!MoveBranch
  <2> QED BY <1>1, <2>1 DEF Demo!MoveBranch, CommitsAreTested, Demo!SolutionDescends
<1>2. ASSUME NEW s \in Services,
             Demo!StartRecording(s) \/ (\E part \in {"append", "complete", "base"} : Demo!GetRecording(s, part))
               \/ Demo!AppendEvent(s) \/ Demo!Complete(s)
      PROVE  DescentInv'
  <2>1. /\ UNCHANGED <<branches, blueprint, commits>> /\ DOMAIN stage' = Services
        /\ \A u \in Services : stage'[u] = "diff" => stage[u] = "diff"
    BY <1>2 DEF Demo!StartRecording, Demo!GetRecording, Demo!AppendEvent, Demo!Complete, Demo!Goto
  <2> QED BY <2>1 DEF CommitsAreTested, Demo!SolutionDescends
<1>3. ASSUME NEW s \in Services, Demo!Raise(s) \/ Demo!Die(s) PROVE DescentInv'
  BY <1>3 DEF Demo!Raise, Demo!Die, Demo!Goto, CommitsAreTested, Demo!SolutionDescends, Demo!NoCommits
<1>4. ASSUME NEW s \in Services, Demo!Resolve(s) PROVE DescentInv'
  BY <1>4 DEF Demo!Resolve, Demo!Goto, CommitsAreTested, Demo!SolutionDescends
<1>5. ASSUME NEW s \in Services, Demo!CheckAncestor(s) PROVE DescentInv'
  BY <1>5 DEF Demo!CheckAncestor, Demo!Goto, CommitsAreTested, Demo!SolutionDescends
<1>6. ASSUME NEW s \in Services, Demo!SaveBlueprint(s) PROVE DescentInv'
  <2>1. /\ blueprint' = commits[s] /\ commits' = [commits EXCEPT ![s] = Demo!NoCommits]
        /\ stage' = [stage EXCEPT ![s] = "idle"] /\ UNCHANGED branches
    BY <1>6 DEF Demo!SaveBlueprint, Demo!Goto
  <2>2. Demo!SolutionDescends'
    BY <1>6, <2>1 DEF Demo!SaveBlueprint, CommitsAreTested, Demo!SolutionDescends, Demo!Ancestor
  <2> QED BY <2>1, <2>2 DEF CommitsAreTested, Demo!NoCommits
<1>7. CASE UNCHANGED Demo!vars
  BY <1>7 DEF Demo!vars, CommitsAreTested, Demo!SolutionDescends
<1> QED BY <1>1, <1>2, <1>3, <1>4, <1>5, <1>6, <1>7 DEF Demo!Next

(* inspect_repository: base and solution of a Blueprint are a commit and    *)
(* one that descends from it, for any services and any moves of branches.   *)
THEOREM SolutionsDescend == Demo!Spec => []Demo!SolutionDescends
<1>1. DescentInv => Demo!SolutionDescends
  BY DEF DescentInv
<1> QED BY <1>1, InitDescent, StepDescent, PTL DEF Demo!Spec

-----------------------------------------------------------------------------
LEMMA InitRecording == Demo!Init => RecordingInv
<1> SUFFICES ASSUME Demo!Init PROVE RecordingInv
  OBVIOUS
<1> QED BY
           DEF Demo!Init, RecordingInv, Recordings, CopyIsCurrent, Demo!EventsAreKept,
               Demo!BlueprintHasEvidence, Demo!NoRecording

LEMMA StepRecording ==
    ASSUME Alone, RecordingInv, [Demo!Next]_(Demo!vars)
    PROVE  RecordingInv' /\ StaysCompleted
<1> USE DEF RecordingInv, StaysCompleted
<1>1. ASSUME NEW s \in Services, Demo!AppendEvent(s)
      PROVE  RecordingInv' /\ StaysCompleted
  <2>1. /\ copy[s] = recording /\ stage' = [stage EXCEPT ![s] = "idle"]
        /\ UNCHANGED <<blueprint, copy>>
    BY <1>1 DEF Demo!AppendEvent, Demo!Goto, CopyIsCurrent
  <2>2. \A u \in Services : stage'[u] = "idle"
    BY <2>1 DEF Alone
  <2>3. CASE recording.status # "recording"
    BY <1>1, <2>1, <2>2, <2>3
       DEF Demo!AppendEvent, CopyIsCurrent, Demo!EventsAreKept, Demo!BlueprintHasEvidence
  <2>4. CASE recording.status = "recording"
    <3>1. PICK type \in Demo!Required : /\ recording' = [recording EXCEPT !.events = Append(@, type)]
                                   /\ acknowledged' = Append(acknowledged, type)
      BY <1>1, <2>1, <2>4 DEF Demo!AppendEvent
    <3>2. /\ recording'.status = "recording" /\ recording'.events = Append(recording.events, type)
          /\ recording' \in Recordings
      <4>1. Append(recording.events, type) \in Seq(Demo!Required)
        BY DEF Recordings
      <4> QED BY <2>4, <3>1, <4>1 DEF Recordings
    <3>3. Demo!EventsAreKept' /\ Demo!BlueprintHasEvidence'
      BY <2>1, <2>4, <3>1, <3>2 DEF Demo!EventsAreKept, Demo!BlueprintHasEvidence
    <3> QED BY <2>1, <2>2, <2>4, <3>2, <3>3 DEF CopyIsCurrent
  <2> QED BY <2>3, <2>4
<1>2. ASSUME NEW s \in Services, Demo!Complete(s)
      PROVE  RecordingInv' /\ StaysCompleted
  <2>1. /\ copy[s] = recording /\ stage' = [stage EXCEPT ![s] = "idle"]
        /\ UNCHANGED <<blueprint, copy, acknowledged>>
    BY <1>2 DEF Demo!Complete, Demo!Goto, CopyIsCurrent
  <2>2. \A u \in Services : stage'[u] = "idle"
    BY <2>1 DEF Alone
  <2>3. \/ recording' = recording
        \/ \E t \in Demo!Times : recording' = [recording EXCEPT !.status = "completed", !.completed_at = t]
    BY <1>2, <2>1 DEF Demo!Complete, Demo!CompletedNow
  <2>4. /\ recording'.events = recording.events
        /\ recording' \in Recordings
        /\ recording' = recording \/ recording'.status = "completed"
    BY <2>3 DEF Recordings
  <2>5. Demo!EventsAreKept' /\ Demo!BlueprintHasEvidence'
    BY <2>1, <2>4 DEF Demo!EventsAreKept, Demo!BlueprintHasEvidence, Demo!Observed
  <2> QED BY <2>1, <2>2, <2>4, <2>5 DEF CopyIsCurrent
<1>3. ASSUME NEW s \in Services, Demo!StartRecording(s)
      PROVE  RecordingInv' /\ StaysCompleted
  <2>1. \A u \in Services : stage[u] = "idle"
    BY <1>3 DEF Demo!StartRecording, Alone
  <2> QED BY <1>3, <2>1
             DEF Demo!StartRecording, Demo!NoRecording, Recordings, CopyIsCurrent, Demo!EventsAreKept,
                 Demo!BlueprintHasEvidence
<1>4. ASSUME NEW s \in Services, NEW part \in {"append", "complete", "base"}, Demo!GetRecording(s, part)
      PROVE  RecordingInv' /\ recording' = recording
  BY <1>4 DEF Demo!GetRecording, Demo!Goto, CopyIsCurrent, Demo!EventsAreKept, Demo!BlueprintHasEvidence
<1>5. ASSUME NEW s \in Services, Demo!Raise(s) \/ Demo!Die(s)
      PROVE  RecordingInv' /\ recording' = recording
  BY <1>5
     DEF Demo!Raise, Demo!Die, Demo!Goto, CopyIsCurrent, Demo!EventsAreKept, Demo!BlueprintHasEvidence
<1>6. ASSUME NEW s \in Services, Demo!Resolve(s) \/ Demo!CheckAncestor(s)
      PROVE  RecordingInv' /\ recording' = recording
  BY <1>6
     DEF Demo!Resolve, Demo!CheckAncestor, Demo!Goto, CopyIsCurrent, Evidence, Demo!EventsAreKept,
         Demo!BlueprintHasEvidence
<1>7. ASSUME NEW s \in Services, Demo!SaveBlueprint(s)
      PROVE  RecordingInv' /\ recording' = recording
  <2>1. Evidence(recording)
    BY <1>7 DEF Demo!SaveBlueprint, CopyIsCurrent
  <2> QED BY <1>7, <2>1
             DEF Demo!SaveBlueprint, Demo!Goto, CopyIsCurrent, Evidence, Demo!EventsAreKept,
                 Demo!BlueprintHasEvidence
<1>8. CASE Demo!MoveBranch
  BY <1>8 DEF Demo!MoveBranch, CopyIsCurrent, Demo!EventsAreKept, Demo!BlueprintHasEvidence
<1>9. CASE UNCHANGED Demo!vars
  BY <1>9 DEF Demo!vars, CopyIsCurrent, Demo!EventsAreKept, Demo!BlueprintHasEvidence
<1> QED BY <1>1, <1>2, <1>3, <1>4, <1>5, <1>6, <1>7, <1>8, <1>9 DEF Demo!Next, Demo!MoveBranch, Demo!vars

(* append and complete: with one service every accepted event is in the     *)
(* recording, in its order.                                                 *)
THEOREM EventsAreRecorded == Alone => (Demo!Spec => []Demo!EventsAreKept)
<1> SUFFICES ASSUME Alone PROVE Demo!Spec => []Demo!EventsAreKept
  OBVIOUS
<1>1. RecordingInv /\ [Demo!Next]_(Demo!vars) => RecordingInv'
  BY StepRecording
<1>2. RecordingInv => Demo!EventsAreKept
  BY DEF RecordingInv
<1> QED BY <1>1, <1>2, InitRecording, PTL DEF Demo!Spec

(* append and complete: with one service a completed recording stays        *)
(* completed, with its events.  A repeated completion changes its time.     *)
THEOREM CompletionIsFinal == Alone => (Demo!Spec => Demo!CompletedIsFinal)
<1> SUFFICES ASSUME Alone PROVE Demo!Spec => Demo!CompletedIsFinal
  OBVIOUS
<1>1. RecordingInv /\ [Demo!Next]_(Demo!vars) => RecordingInv'
  BY StepRecording
<1>2. RecordingInv /\ [Demo!Next]_(Demo!vars) => [StaysCompleted]_recording
  BY StepRecording
<1> QED BY <1>1, <1>2, InitRecording, PTL DEF Demo!Spec, Demo!CompletedIsFinal, StaysCompleted

(* create_blueprint: with one service the recording a Blueprint was made    *)
(* from is, and stays, completed and has all its evidence.                  *)
THEOREM BlueprintsHaveEvidence == Alone => (Demo!Spec => []Demo!BlueprintHasEvidence)
<1> SUFFICES ASSUME Alone PROVE Demo!Spec => []Demo!BlueprintHasEvidence
  OBVIOUS
<1>1. RecordingInv /\ [Demo!Next]_(Demo!vars) => RecordingInv'
  BY StepRecording
<1>2. RecordingInv => Demo!BlueprintHasEvidence
  BY DEF RecordingInv
<1> QED BY <1>1, <1>2, InitRecording, PTL DEF Demo!Spec
=============================================================================
