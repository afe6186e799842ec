---------------------------- MODULE ServerParts ----------------------------
(***************************************************************************)
(* The commands on a runner group server (Client) beside the start and the *)
(* end of its process (Serve).                                             *)
(***************************************************************************)
EXTENDS Client, Sequences

CONSTANTS Addrs, URIs, Stored, ServerFlags

ASSUME FlagsAssumption ==
  /\ Addrs \subseteq Seq({"loopback", "outer"})
  /\ URIs \subseteq Seq([scheme : STRING, namespace : STRING, path : STRING,
                        specName : STRING])

VARIABLES addrs, uris, flags, servePc, handlers, listeners, upload, reported

serveVars == <<addrs, uris, flags, servePc, handlers, listeners, upload, reported>>

Srv == INSTANCE Serve WITH Flags <- ServerFlags, pc <- servePc

-----------------------------------------------------------------------------
(* Properties of both.                                                     *)

\* A server that could not be built leaves no listener open; every group it
\* deploys has the owner and the account of --runner-owner and --runner-sa, and
\* gets an address it can reach, of a listener that was open before
\* (utils.go:43-49, server.go:116-122, server_runnergroup.go:16-21).
StartIsSound ==
  []Srv!NoListenerLeaks /\ []Srv!GroupsAreOwned /\ Srv!RunnersReachServer

\* Everybody returns: the commands, `result --wait` because of its timeout, and
\* the server when every listener has failed, although nobody closes errCh
\* (result.go:39, portforward.go:100-106, server.go:76-83).
AllReturn == CommandsReturn /\ Srv!RunReturns
=============================================================================
