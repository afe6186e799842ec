---------------------------- MODULE PutIfAbsent ----------------------------
(***************************************************************************)
(* What the store of uploaded reports promises to its callers: an upload   *)
(* is one atomic step that stores the whole body under a free name, finds  *)
(* the name taken, or fails and stores nothing.  A restart forgets the     *)
(* uploads under way and keeps what is stored.                             *)
(***************************************************************************)
CONSTANTS
  Clients,  \* the requests being handled
  Refs,     \* the names of the reports
  Bodies,   \* what is uploaded
  None

VARIABLES
  stored,   \* the body stored under each name
  request,  \* the name and the body of each client's upload
  outcome   \* how each client's upload ended

vars == <<stored, request, outcome>>

Init ==
  /\ stored = [r \in Refs |-> None]
  /\ request = [c \in Clients |-> None]
  /\ outcome = [c \in Clients |-> "none"]

Begin(c, r, b) ==
  /\ request' = [request EXCEPT ![c] = [ref |-> r, body |-> b]]
  /\ outcome' = [outcome EXCEPT ![c] = "none"]
  /\ UNCHANGED stored

Created(c) ==
  /\ request[c] # None /\ outcome[c] = "none"
  /\ stored[request[c].ref] = None
  /\ stored' = [stored EXCEPT ![request[c].ref] = request[c].body]
  /\ outcome' = [outcome EXCEPT ![c] = "created"]
  /\ UNCHANGED request

Conflict(c) ==
  /\ request[c] # None /\ outcome[c] = "none"
  /\ stored[request[c].ref] # None
  /\ outcome' = [outcome EXCEPT ![c] = "exists"]
  /\ UNCHANGED <<stored, request>>

Failed(c) ==
  /\ request[c] # None /\ outcome[c] = "none"
  /\ outcome' = [outcome EXCEPT ![c] = "failed"]
  /\ UNCHANGED <<stored, request>>

Remove(r) ==
  /\ stored' = [stored EXCEPT ![r] = None]
  /\ UNCHANGED <<request, outcome>>

Restart ==
  /\ request' = [c \in Clients |-> None]
  /\ outcome' = [c \in Clients |-> "none"]
  /\ UNCHANGED stored

Next ==
  \/ \E c \in Clients, r \in Refs, b \in Bodies : Begin(c, r, b)
  \/ \E c \in Clients : Created(c) \/ Conflict(c) \/ Failed(c)
  \/ \E r \in Refs : Remove(r)
  \/ Restart

Spec == Init /\ [][Next]_vars
=============================================================================
