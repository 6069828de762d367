---------------------------- MODULE ProtocolLibrary ----------------------------
(***************************************************************************)
(* Import of protocol documents into the library: validation, redaction,   *)
(* and the store that keeps one record of each sanitized document.         *)
(* save_protocol_document selects, inserts and commits on the connection   *)
(* of its service; services on one database meet between these statements, *)
(* and a statement that fails leaves the transaction of its connection     *)
(* open, since nothing in that method rolls it back.                       *)
(***************************************************************************)
EXTENDS Naturals

CONSTANTS
    Services,       \* services on one database, each with one connection
    Limit,          \* how much of a text redaction keeps
    Marker,         \* the length of the note that a text was truncated
    Lengths,        \* the lengths of the texts clients send
    MaxImports      \* bound: how many imports are begun

VARIABLES
    library,        \* the committed records
    tx,             \* tx[s]: the transaction of a connection
    seen,           \* seen[s]: the records its transaction shows it
    pc,             \* pc[s]: the statement an import has come to
    draft,          \* draft[s]: the record it would insert
    resent,         \* resent[s]: the stored records whose document it was sent
    answer,         \* answer[s]: the record a 201 returned
    imports         \* how many imports were begun

database == <<library, tx, seen>>
vars == <<database, pc, draft, resent, answer, imports>>

-----------------------------------------------------------------------------
(* A text by its length, and how much the note at its end says was cut.     *)
Length(text) == text.chars + (IF text.cut > 0 THEN Marker ELSE 0)

Truncate(text) ==
    IF Length(text) > Limit THEN [chars |-> Limit, cut |-> Length(text) - Limit] ELSE text

(* redact: a secret field is replaced, a long text is cut. *)
Redact(d) == [secret |-> FALSE, text |-> Truncate(d.text)]

Received == [secret : BOOLEAN, text : [chars : Lengths, cut : {0}]]
Documents == {Redact(d) : d \in Received} \cup {Redact(Redact(d)) : d \in Received}
Records == [id : 1 .. MaxImports, document : Received \cup Documents]
NoRecord == [id |-> 0, document |-> [secret |-> FALSE, text |-> [chars |-> 0, cut |-> 0]]]

TypeOK ==
    /\ library \subseteq Records
    /\ tx \in [Services -> {"none", "open", "reading", "stale", "writing"}]
    /\ seen \in [Services -> SUBSET Records]
    /\ pc \in [Services -> {"idle", "select", "insert", "commit", "answered"}]
    /\ draft \in [Services -> Records \cup {NoRecord}]
    /\ resent \in [Services -> SUBSET Records]
    /\ answer \in [Services -> Records \cup {NoRecord}]
    /\ imports \in 0 .. MaxImports

Init ==
    /\ library = {} /\ imports = 0
    /\ tx = [s \in Services |-> "none"] /\ seen = [s \in Services |-> {}]
    /\ pc = [s \in Services |-> "idle"]
    /\ draft = [s \in Services |-> NoRecord] /\ answer = [s \in Services |-> NoRecord]
    /\ resent = [s \in Services |-> {}]

Goto(s, step) == pc' = [pc EXCEPT ![s] = step]

Free(s) == \A u \in Services \ {s} : tx[u] # "writing"
View(s) == IF tx[s] \in {"none", "open"} THEN library ELSE seen[s]

(* A read outside a transaction sees what is committed now; inside one, all *)
(* reads see what the first of them saw.                                    *)
Read(s) ==
    /\ tx' = [tx EXCEPT ![s] = IF @ = "open" THEN "reading" ELSE @]
    /\ seen' = [seen EXCEPT ![s] = IF tx[s] = "open" THEN library ELSE @]

(* What a connection commits is new to the readers in other transactions.   *)
Publish(s, records) ==
    /\ library' = records
    /\ seen' = [seen EXCEPT ![s] = {}]
    /\ tx' = [u \in Services |-> IF u = s THEN "none" ELSE IF tx[u] = "reading" THEN "stale" ELSE tx[u]]

-----------------------------------------------------------------------------
(* import_protocol: validated, redacted and validated again; a refusal      *)
(* changes nothing. The document may be one a client read from the library. *)
Import(s) ==
    /\ pc[s] \in {"idle", "answered"} /\ imports < MaxImports
    /\ imports' = imports + 1
    /\ \E d \in Received \cup {r.document : r \in View(s)} :
          /\ draft' = [draft EXCEPT ![s] = [id |-> imports + 1, document |-> Redact(d)]]
          /\ resent' = [resent EXCEPT ![s] = {r \in library : r.document = d}]
    /\ Goto(s, "select")
    /\ UNCHANGED <<database, answer>>

Select(s) ==
    /\ pc[s] = "select"
    /\ Read(s)
    /\ \/ \E r \in View(s) :
             /\ r.document = draft[s].document
             /\ answer' = [answer EXCEPT ![s] = r]
             /\ Goto(s, "answered")
       \/ /\ \A r \in View(s) : r.document # draft[s].document
          /\ Goto(s, "insert") /\ UNCHANGED answer
    /\ UNCHANGED <<library, draft, resent, imports>>

(* The digest is unique: the second of two insertions of one document is    *)
(* refused, and its transaction keeps the lock it has taken for it.         *)
Insert(s) ==
    /\ pc[s] = "insert" /\ Free(s) /\ tx[s] # "stale"
    /\ tx' = [tx EXCEPT ![s] = "writing"]
    /\ \/ /\ \A r \in library : r.document # draft[s].document
          /\ seen' = [seen EXCEPT ![s] = library \cup {draft[s]}]
          /\ Goto(s, "commit")
       \/ /\ \E r \in library : r.document = draft[s].document
          /\ seen' = [seen EXCEPT ![s] = library]
          /\ Goto(s, "idle")
    /\ UNCHANGED <<library, draft, resent, answer, imports>>

(* Another connection holds the lock for longer than busy_timeout, or has   *)
(* committed since this transaction read.                                   *)
Locked(s) ==
    /\ pc[s] = "insert" /\ (~Free(s) \/ tx[s] = "stale")
    /\ tx' = [tx EXCEPT ![s] = IF @ = "none" THEN "open" ELSE @]
    /\ Goto(s, "idle")
    /\ UNCHANGED <<library, seen, draft, resent, answer, imports>>

Commit(s) ==
    /\ pc[s] = "commit"
    /\ Publish(s, seen[s])
    /\ answer' = [answer EXCEPT ![s] = draft[s]]
    /\ Goto(s, "answered")
    /\ UNCHANGED <<draft, resent, imports>>

(* Another method of the store writes another table and commits, and with   *)
(* it whatever its transaction held.                                        *)
OtherWrite(s) ==
    /\ pc[s] \in {"idle", "answered"}
    /\ \/ /\ Free(s) /\ tx[s] # "stale"
          /\ Publish(s, library)
       \/ /\ ~Free(s) \/ tx[s] = "stale"
          /\ tx' = [tx EXCEPT ![s] = IF @ = "none" THEN "open" ELSE @]
          /\ UNCHANGED <<library, seen>>
    /\ UNCHANGED <<pc, draft, resent, answer, imports>>

(* claim_ready_run and save_cases roll their transaction back if they fail. *)
ManagedWrite(s) ==
    /\ pc[s] \in {"idle", "answered"}
    /\ ~Free(s) \/ tx[s] = "stale"
    /\ tx' = [tx EXCEPT ![s] = "none"]
    /\ seen' = [seen EXCEPT ![s] = {}]
    /\ UNCHANGED <<library, pc, draft, resent, answer, imports>>

(* list_protocol_documents and every other read of the store. *)
List(s) ==
    /\ pc[s] \in {"idle", "answered"}
    /\ Read(s)
    /\ UNCHANGED <<library, pc, draft, resent, answer, imports>>

(* A service dies and is started again: its transaction is rolled back. *)
Die(s) ==
    /\ Goto(s, "idle")
    /\ tx' = [tx EXCEPT ![s] = "none"] /\ seen' = [seen EXCEPT ![s] = {}]
    /\ UNCHANGED <<library, draft, resent, answer, imports>>

Next == \E s \in Services :
    \/ Import(s) \/ Select(s) \/ Insert(s) \/ Locked(s) \/ Commit(s)
    \/ OtherWrite(s) \/ ManagedWrite(s) \/ List(s) \/ Die(s)

Spec == Init /\ [][Next]_vars

-----------------------------------------------------------------------------
(* The library has one record of a document, whichever services import it   *)
(* at a time, and no secret in any of them.                                 *)
OneRecordEach ==
    /\ \A r, q \in library : r.document = q.document => r = q
    /\ \A r \in library : ~r.document.secret

(* A record that a service has answered with is in the library to stay:     *)
(* after a crash, after the failures of others, and when it was found by a  *)
(* transaction that sees an old state.                                      *)
AnsweredIsKept ==
    \A s \in Services : answer[s] # NoRecord => answer[s] \in library

(* A lone service leaves no transaction open between two requests: no       *)
(* failed statement keeps the database locked or its later reads old.       *)
RequestsEndTransactions ==
    \A s \in Services : pc[s] \in {"idle", "answered"} => tx[s] = "none"

(* To import a stored document again is to be answered with its record.     *)
ReimportIsIdempotent ==
    \A s \in Services :
        pc[s] = "answered" /\ resent[s] # {} => answer[s] \in resent[s]
=============================================================================
