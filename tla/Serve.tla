------------------------------- MODULE Serve -------------------------------
(***************************************************************************)
(* The process of the runner group server from `kperf runnergroup server`  *)
(* to its end: the specifications are loaded, the handlers built, the      *)
(* listeners opened, the groups deployed with the address the runners post *)
(* to, and one goroutine serves each listener.  What the server does while *)
(* it serves is in RunnerGroup.                                            *)
(*                                                                         *)
(* A specification is what matters of it here: its name, and the owner and *)
(* service account it may set.  A URI names a file, or a ConfigMap by      *)
(* namespace, name and key; "" is a part that is not given.                *)
(***************************************************************************)
EXTENDS Naturals, Sequences

CONSTANTS
  Addrs,    \* the --address flags the process may have: a set of sequences
  URIs,     \* the --runnergroup flags: a set of sequences
  Stored,   \* the specification at each place that has one
  Flags     \* the --runner-owner and --runner-sa flags, "" if not set

VARIABLES
  addrs, uris, flags,  \* the flags of this process
  pc,
  handlers,   \* the handlers built so far
  listeners,  \* the listeners opened so far
  upload,     \* the listener whose address the runners get, 0 if none
  reported    \* the values in errCh

vars == <<addrs, uris, flags, pc, handlers, listeners, upload, reported>>
input == <<addrs, uris, flags>>

Ended == {"failed", "returned", "panicked"}
Specs == {Stored[p] : p \in DOMAIN Stored}

OverridesUnlessSet(s) ==
  [owner |-> IF s.owner # "" THEN s.owner ELSE flags.owner,
   sa |-> IF s.sa # "" THEN s.sa ELSE flags.sa]

\* The flags win over the specification.
Overrides(s) ==
  [owner |-> IF flags.owner # "" THEN flags.owner ELSE s.owner,
   sa |-> IF flags.sa # "" THEN flags.sa ELSE s.sa]

Handlers == [spec : {s.name : s \in Specs}, set : {Overrides(s) : s \in Specs}]

TypeOK ==
  /\ addrs \in Addrs /\ uris \in URIs /\ flags \in Flags
  /\ pc \in {"handlers", "store", "listen", "address", "deploy", "serve"}
             \cup Ended
  /\ handlers \in Seq(Handlers)
  /\ Len(handlers) <= Len(uris)
  /\ listeners \in Seq({"open", "closed", "dead"})
  /\ Len(listeners) <= Len(addrs)
  /\ upload \in 0..Len(listeners)
  /\ reported \in 0..Len(listeners)

Init ==
  /\ addrs \in Addrs /\ uris \in URIs /\ flags \in Flags
  /\ pc = "handlers"
  /\ handlers = << >> /\ listeners = << >> /\ upload = 0 /\ reported = 0

Goto(label) == pc' = label

\* The defaults of a URI; the scheme must be file or configmap.
Place(u) ==
  IF u.scheme = "file" THEN <<"file", u.path>>
  ELSE <<u.scheme, IF u.namespace = "" THEN "default" ELSE u.namespace, u.path,
         IF u.specName = "" THEN "spec" ELSE u.specName>>

\* apiVersion:kind:name:uid, or nothing.
buildOwnerReference(ref) == ref # "malformed"

\* buildRunnerGroupHandlers loads each specification and builds its handler.
BuildHandler ==
  /\ pc = "handlers" /\ Len(handlers) < Len(uris)
  /\ LET k == Len(handlers) + 1
         p == Place(uris[k])
     IN  IF p \notin DOMAIN Stored
              \/ ~buildOwnerReference(Overrides(Stored[p]).owner)
           THEN Goto("failed") /\ UNCHANGED handlers
           ELSE /\ handlers' = Append(handlers,
                     [spec |-> Stored[p].name, set |-> Overrides(Stored[p])])
                /\ Goto(IF k = Len(uris) THEN "store" ELSE "handlers")
  /\ UNCHANGED <<input, listeners, upload, reported>>

NewStore ==
  /\ pc = "store"
  /\ Goto("listen") \/ Goto("failed")
  /\ UNCHANGED <<input, handlers, listeners, upload, reported>>

ListenLeaks ==
  /\ pc = "listen"
  /\ IF Len(listeners) = Len(addrs) THEN Goto("address") /\ UNCHANGED listeners
     ELSE \/ listeners' = Append(listeners, "open") /\ UNCHANGED pc
          \/ Goto("failed") /\ UNCHANGED listeners
  /\ UNCHANGED <<input, handlers, upload, reported>>

\* buildNetListeners: one that cannot be opened closes the ones before.
Listen ==
  /\ pc = "listen"
  /\ IF Len(listeners) = Len(addrs) THEN Goto("address") /\ UNCHANGED listeners
     ELSE \/ listeners' = Append(listeners, "open") /\ UNCHANGED pc
          \/ /\ listeners' = [i \in DOMAIN listeners |-> "closed"]
             /\ Goto("failed")
  /\ UNCHANGED <<input, handlers, upload, reported>>

isLocalhost(addr) == addr = "loopback"

firstAddr == IF addrs = << >> THEN {} ELSE {1}

firstNonLocalAddr ==
  {i \in DOMAIN addrs : /\ ~isLocalhost(addrs[i])
                        /\ \A j \in 1..i - 1 : isLocalhost(addrs[j])}

Address ==
  /\ pc = "address"
  /\ IF firstNonLocalAddr = {} THEN Goto("failed") /\ UNCHANGED upload
     ELSE upload' \in firstNonLocalAddr /\ Goto("deploy")
  /\ UNCHANGED <<input, handlers, listeners, reported>>

\* deployRunnerGroups: one group that fails is enough.
Deploy ==
  /\ pc = "deploy"
  /\ Goto("serve") \/ Goto("failed")
  /\ UNCHANGED <<input, handlers, listeners, upload, reported>>

\* http.Serve returns, with an error, when Accept fails.
ServeEnds(i) ==
  /\ pc = "serve" /\ listeners[i] = "open"
  /\ listeners' = [listeners EXCEPT ![i] = "dead"]
  /\ reported' = reported + 1
  /\ UNCHANGED <<input, pc, handlers, upload>>

\* A Wait that fails ends the process.
WaitPanics ==
  /\ pc = "serve"
  /\ Goto("panicked")
  /\ UNCHANGED <<input, handlers, listeners, upload, reported>>

ReturnOnClose ==
  /\ pc = "serve" /\ reported = Len(listeners) + 1
  /\ Goto("returned")
  /\ UNCHANGED <<input, handlers, listeners, upload, reported>>

\* wg.Wait is over, and the loop over errCh finds the first error.
Return ==
  /\ pc = "serve" /\ reported = Len(listeners)
  /\ Goto("returned")
  /\ UNCHANGED <<input, handlers, listeners, upload, reported>>

Main == BuildHandler \/ NewStore \/ Listen \/ Address \/ Deploy \/ Return

\* A process that serves may go on for ever.
Idle == pc \in Ended \cup {"serve"} /\ UNCHANGED vars

Next ==
  \/ Main \/ WaitPanics
  \/ \E i \in DOMAIN listeners : ServeEnds(i)
  \/ Idle

Fairness == WF_vars(Main)

Spec == Init /\ [][Next]_vars /\ Fairness

-----------------------------------------------------------------------------
(* Properties.                                                             *)

\* A server that could not be built leaves no listener open, however many it
\* had opened (utils.go:43-49).
NoListenerLeaks ==
  pc = "failed" /\ Len(listeners) < Len(addrs) =>
    \A i \in DOMAIN listeners : listeners[i] = "closed"

\* The runners are deployed only with an address they can reach, of a
\* listener that was open before they were: a report that is posted before
\* http.Serve runs waits in the backlog (server.go:53-75,
\* server_runnergroup.go:16-21).
RunnersReachServer ==
  [][pc = "deploy" => /\ addrs[upload] # "loopback"
                      /\ listeners[upload] = "open"]_vars

\* With --runner-owner every group belongs to the server, whatever its
\* specification says, so that the end of the server's pod takes the Jobs
\* with it; and so for the service account (server.go:116-122).
GroupsAreOwned ==
  \A i \in DOMAIN handlers :
    /\ flags.owner # "" => handlers[i].set.owner = flags.owner
    /\ flags.sa # "" => handlers[i].set.sa = flags.sa

\* Run does not hang on errCh, which nobody closes: when every listener has
\* failed it returns, so that the pod restarts the server (server.go:76-83).
RunReturns ==
  (pc = "serve" /\ \A i \in DOMAIN listeners : listeners[i] = "dead")
    ~> pc \in Ended

-----------------------------------------------------------------------------
(* What the first three rest on.                                           *)

\* Listeners are opened between "store" and "address", and all that were asked
\* for are there from then on.
ListenersSoFar ==
  /\ pc \in {"handlers", "store"} => listeners = << >>
  /\ pc \in {"address", "deploy", "serve", "returned", "panicked"} =>
       Len(listeners) = Len(addrs)
  /\ pc \in {"listen", "address", "deploy"} =>
       \A i \in DOMAIN listeners : listeners[i] = "open"

\* The address the runners get is the one of a listener they can reach.
UploadIsOuter ==
  pc = "deploy" => upload \in DOMAIN addrs /\ ~isLocalhost(addrs[upload])
=============================================================================
