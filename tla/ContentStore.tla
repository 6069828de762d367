----------------------------- MODULE ContentStore -----------------------------
(***************************************************************************)
(* put_bytes of one content by the threads of a service: a file under the   *)
(* digest, written beside it under a temporary name and moved into place.   *)
(* The temporary name is the identity of the value in memory, which no two  *)
(* live values share and which a value after a restart may have again.      *)
(***************************************************************************)
EXTENDS Naturals

CONSTANTS
    Threads,        \* the threads that put the content
    Identities,     \* id(value): addresses
    MaxPuts         \* bound: how many puts are begun

ASSUME PutsAssumption == MaxPuts \in Nat

VARIABLES
    file,           \* the file under the digest
    temps,          \* temps[i]: the temporary file of an identity
    pc, value,      \* pc[t], value[t]: a thread's put and its value's identity
    returned,       \* whether some put has returned the reference
    puts            \* how many puts were begun

vars == <<file, temps, pc, value, returned, puts>>

Contents == {"absent", "part", "whole"}

TypeOK ==
    /\ file \in Contents
    /\ temps \in [Identities -> Contents]
    /\ pc \in [Threads -> {"idle", "check", "open", "write", "replace", "return"}]
    /\ value \in [Threads -> Identities]
    /\ returned \in BOOLEAN /\ puts \in 0 .. MaxPuts

Init ==
    /\ file = "absent"
    /\ temps = [i \in Identities |-> "absent"]
    /\ pc = [t \in Threads |-> "idle"]
    /\ value \in [Threads -> Identities]
    /\ returned = FALSE /\ puts = 0

Goto(t, step) == pc' = [pc EXCEPT ![t] = step]

-----------------------------------------------------------------------------
(* Mutant: the temporary file is named after the content alone. *)
PutShared(t) ==
    /\ pc[t] = "idle" /\ puts < MaxPuts
    /\ puts' = puts + 1
    /\ \E i \in Identities : value' = [value EXCEPT ![t] = i]
    /\ Goto(t, "check")
    /\ UNCHANGED <<file, temps, returned>>

Put(t) ==
    /\ pc[t] = "idle" /\ puts < MaxPuts
    /\ puts' = puts + 1
    /\ \E i \in Identities :
          /\ \A u \in Threads : pc[u] # "idle" => value[u] # i
          /\ value' = [value EXCEPT ![t] = i]
    /\ Goto(t, "check")
    /\ UNCHANGED <<file, temps, returned>>

Check(t) ==
    /\ pc[t] = "check"
    /\ Goto(t, IF file = "absent" THEN "open" ELSE "return")
    /\ UNCHANGED <<file, temps, value, returned, puts>>

(* Mutant: a temporary file that is there already is used as it is. *)
WriteUnlessThere(t) ==
    /\ \/ /\ pc[t] = "open"
          /\ IF temps[value[t]] = "absent"
             THEN Goto(t, "write") /\ temps' = [temps EXCEPT ![value[t]] = "part"]
             ELSE Goto(t, "replace") /\ UNCHANGED temps
       \/ /\ pc[t] = "write" /\ Goto(t, "replace")
          /\ temps' = [temps EXCEPT ![value[t]] = "whole"]
    /\ UNCHANGED <<file, value, returned, puts>>

(* write_bytes empties the file of that name before it fills it. *)
Write(t) ==
    /\ \/ /\ pc[t] = "open" /\ Goto(t, "write")
          /\ temps' = [temps EXCEPT ![value[t]] = "part"]
       \/ /\ pc[t] = "write" /\ Goto(t, "replace")
          /\ temps' = [temps EXCEPT ![value[t]] = "whole"]
    /\ UNCHANGED <<file, value, returned, puts>>

Replace(t) ==
    /\ pc[t] = "replace" /\ temps[value[t]] # "absent"
    /\ file' = temps[value[t]]
    /\ temps' = [temps EXCEPT ![value[t]] = "absent"]
    /\ Goto(t, "return")
    /\ UNCHANGED <<value, returned, puts>>

Return(t) ==
    /\ pc[t] = "return"
    /\ returned' = TRUE
    /\ Goto(t, "idle")
    /\ UNCHANGED <<file, temps, value, puts>>

(* The disk is full, or the file is in use. *)
Raise(t) ==
    /\ pc[t] \in {"open", "write", "replace"}
    /\ Goto(t, "idle")
    /\ UNCHANGED <<file, temps, value, returned, puts>>

(* The service dies: the temporary files stay. *)
Crash ==
    /\ pc' = [t \in Threads |-> "idle"]
    /\ UNCHANGED <<file, temps, value, returned, puts>>

Next ==
    \/ \E t \in Threads : Put(t) \/ Check(t) \/ Write(t) \/ Replace(t) \/ Return(t) \/ Raise(t)
    \/ Crash

Spec == Init /\ [][Next]_vars

-----------------------------------------------------------------------------
(* What is found under a digest is the whole content, to every reader and   *)
(* at all times, and what a reference was returned for is found.            *)
StoredIsWhole == file # "part" /\ (returned => file = "whole")

(* Content that is stored stays stored: a second put, of a thread that      *)
(* found nothing there either, moves the same content into its place.       *)
StoredStays == [][file = "whole" => file' = "whole"]_file

(* No put finds its temporary file moved or cut by another one's.           *)
TemporaryIsOwn == \A t \in Threads : pc[t] = "replace" => temps[value[t]] = "whole"
=============================================================================
