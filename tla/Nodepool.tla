------------------------------ MODULE Nodepool ------------------------------
(***************************************************************************)
(* The commands `kperf virtualcluster nodepool add`, `batch-add`, `delete` *)
(* and `list`.  A pool is two helm releases in one namespace, one with the *)
(* node controllers and one with the nodes; all pools share two releases   *)
(* with the life cycle of a node.  Each helm operation may fail, and the   *)
(* process may be killed in the middle of one.                             *)
(*                                                                         *)
(* Helm (external) records a release as pending while it is installed or   *)
(* upgraded, refuses an upgrade of a pending release, and with Atomic      *)
(* undoes what failed, which may fail too.  Pools are handled by           *)
(* concurrent commands, one at a time for each pool.                       *)
(***************************************************************************)
EXTENDS Naturals

CONSTANTS
  Names,        \* the names given to the commands
  Controller,   \* the name of a pool with reservedNodepoolSuffixName
  Lifecycle,    \* the names that start with reservedLifecyclePrefixName
  BatchPool,    \* the names "prefix-i" of batch-add, by i
  Requests,     \* what batch-add is asked for: the nodes and the batch size
  MaxKills      \* bound on the commands killed half-way

CRD == "lifecycle-crd"
Def == "lifecycle-def"
Releases == Names \cup {Controller[p] : p \in Names} \cup {CRD, Def}

ASSUME ControllerAssumption ==
  \A p, q \in Names : p # q => Controller[p] # Controller[q]
ASSUME SharedAssumption ==
  /\ {CRD, Def} \cap Names = {}
  /\ \A p \in Names : Controller[p] \notin {CRD, Def, p}
ASSUME LifecycleAssumption == {CRD, Def} \subseteq Lifecycle
ASSUME BoundsAssumption ==
  /\ MaxKills \in Nat
  /\ Requests \subseteq Nat \X Nat
  /\ \A i \in DOMAIN BatchPool : BatchPool[i] \in Names
  /\ \A r \in Requests : 0..r[1] \subseteq DOMAIN BatchPool

VARIABLES
  status,   \* the helm releases
  pc,       \* where the command on each pool is
  busy,     \* the pools whose command waits for helm
  was,      \* the release before helm started on it
  outcome,  \* how the last command on each pool ended
  dirty,    \* the pools on which something was left half done
  blind,    \* the pools whose release Get did not see
  batch,    \* batch-add
  kills

vars == <<status, pc, busy, was, outcome, dirty, blind, batch, kills>>
ghosts == <<dirty, blind>>

Status == {"absent", "pending", "deployed", "failed"}
Steps == {"crd", "def", "controller", "nodes"}
PcValues == Steps \cup {"idle", "get", "cleanup", "delNodes", "delController"}

TypeOK ==
  /\ status \in [Releases -> Status]
  /\ pc \in [Names -> PcValues]
  /\ busy \subseteq Names
  /\ was \in [Names -> Status]
  /\ outcome \in [Names -> {"none", "added", "deleted", "error"}]
  /\ dirty \subseteq Names /\ blind \subseteq Names
  /\ batch \in [total : Nat, size : Nat, i : Nat, made : Nat,
                phase : {"off", "next", "wait", "done", "error"}]
  /\ kills \in Nat

Init ==
  /\ status = [r \in Releases |-> "absent"]
  /\ pc = [p \in Names |-> "idle"]
  /\ busy = {}
  /\ was = [p \in Names |-> "absent"]
  /\ outcome = [p \in Names |-> "none"]
  /\ dirty = {} /\ blind = {}
  /\ batch = [total |-> 0, size |-> 0, i |-> 0, made |-> 0, phase |-> "off"]
  /\ kills = 0

Goto(p, label) == pc' = [pc EXCEPT ![p] = label]
Return(p, result) ==
  /\ Goto(p, "idle")
  /\ outcome' = [outcome EXCEPT ![p] = result]

nodeHelmReleaseName(p) == p
nodeControllerHelmReleaseName(p) == Controller[p]

\* validate, with the other numbers of the pool left at their defaults.
validate(p, n) == n > 0 /\ \A q \in Names : p # Controller[q]

-----------------------------------------------------------------------------
(* CreateNodepool.                                                         *)

BatchHas(p) == batch.phase = "wait" /\ p = BatchPool[batch.i \div batch.size]

Create(p, n) ==
  /\ pc[p] = "idle"
  /\ IF validate(p, n)
       THEN Goto(p, "get") /\ outcome' = [outcome EXCEPT ![p] = "none"]
       ELSE Return(p, "error")
  /\ UNCHANGED <<status, busy, was, ghosts, kills>>

\* nodepool add.
Add(p) ==
  /\ ~BatchHas(p)
  /\ \E n \in 0..1 : Create(p, n)
  /\ UNCHANGED batch

GetFoundIgnored(p) ==
  /\ pc[p] = "get"
  /\ status[nodeHelmReleaseName(p)] # "absent"
  /\ Goto(p, "crd")
  /\ UNCHANGED <<status, busy, was, outcome, ghosts, batch, kills>>

\* "nodepool already exists".
GetFound(p) ==
  /\ pc[p] = "get"
  /\ status[nodeHelmReleaseName(p)] # "absent"
  /\ Return(p, "error")
  /\ UNCHANGED <<status, busy, was, ghosts, batch, kills>>

\* Any error counts as not found, also one of the API server.
GetError(p) ==
  /\ pc[p] = "get"
  /\ Goto(p, "crd")
  /\ LET seen == IF status[nodeHelmReleaseName(p)] = "absent" THEN {} ELSE {p}
     IN  blind' = blind \cup seen /\ dirty' = dirty \cup seen
  /\ UNCHANGED <<status, busy, was, outcome, batch, kills>>

Target(p) ==
  CASE pc[p] = "crd" -> CRD
    [] pc[p] = "def" -> Def
    [] pc[p] = "controller" -> nodeControllerHelmReleaseName(p)
    [] OTHER -> nodeHelmReleaseName(p)

After == [crd |-> "def", def |-> "controller", controller |-> "nodes"]

FailWithoutCleanup(p) == Return(p, "error")

\* Only a failure after the controllers were deployed has a clean-up.
Fail(p) ==
  IF pc[p] = "nodes" THEN Goto(p, "cleanup") /\ UNCHANGED outcome
                     ELSE Return(p, "error")

\* ReleaseCli.Deploy installs a release that is absent and upgrades others.
DeployBegin(p) ==
  /\ pc[p] \in Steps /\ p \notin busy
  /\ status[Target(p)] # "pending"
  /\ was' = [was EXCEPT ![p] = status[Target(p)]]
  /\ status' = [status EXCEPT ![Target(p)] = "pending"]
  /\ busy' = busy \cup {p}
  /\ UNCHANGED <<pc, outcome, ghosts, batch, kills>>

\* The chart, the values or the history cannot be read, or another helm
\* operation on the release has not ended.
DeployRefused(p) ==
  /\ pc[p] \in Steps /\ p \notin busy
  /\ Fail(p)
  /\ UNCHANGED <<status, busy, was, ghosts, batch, kills>>

DeployDone(p) ==
  /\ p \in busy
  /\ status' = [status EXCEPT ![Target(p)] = "deployed"]
  /\ busy' = busy \ {p}
  /\ IF pc[p] = "nodes" THEN Return(p, "added")
                        ELSE Goto(p, After[pc[p]]) /\ UNCHANGED outcome
  /\ was' = [was EXCEPT ![p] = "absent"]
  /\ UNCHANGED <<ghosts, batch, kills>>

\* Helm times out and undoes the operation, or fails to undo it.
DeployFailed(p) ==
  /\ p \in busy
  /\ \E s \in {was[p], "failed"} :
       /\ status' = [status EXCEPT ![Target(p)] = s]
       /\ dirty' = IF s = was[p] THEN dirty ELSE dirty \cup {p}
  /\ busy' = busy \ {p}
  /\ was' = [was EXCEPT ![p] = "absent"]
  /\ Fail(p)
  /\ UNCHANGED <<blind, batch, kills>>

-----------------------------------------------------------------------------
(* Uninstall, and DeleteNodepool.                                          *)

Uninstalled(r) == status' = [status EXCEPT ![r] = "absent"]

\* Uninstall gives an error, before or after it has removed something.
UninstallFailed(p, r) ==
  /\ status[r] # "absent"
  /\ \E s \in {status[r], "failed"} : status' = [status EXCEPT ![r] = s]
  /\ dirty' = dirty \cup {p}

\* The deferred cleanupFn of CreateNodepool, whose error is dropped.
Cleanup(p) ==
  /\ pc[p] = "cleanup"
  /\ \/ Uninstalled(nodeControllerHelmReleaseName(p)) /\ UNCHANGED dirty
     \/ UninstallFailed(p, nodeControllerHelmReleaseName(p))
  /\ Return(p, "error")
  /\ UNCHANGED <<busy, was, blind, batch, kills>>

DeleteNodepool(p) ==
  /\ pc[p] = "idle" /\ ~BatchHas(p)
  /\ IF validate(p, 1)
       THEN Goto(p, "delNodes") /\ outcome' = [outcome EXCEPT ![p] = "none"]
       ELSE Return(p, "error")
  /\ UNCHANGED <<status, busy, was, ghosts, batch, kills>>

DeleteNodesReturns(p) ==
  /\ pc[p] = "delNodes"
  /\ IF status[nodeHelmReleaseName(p)] = "absent"
       THEN Return(p, "deleted")
       ELSE Goto(p, "delController") /\ UNCHANGED outcome
  /\ Uninstalled(nodeHelmReleaseName(p))
  /\ UNCHANGED <<busy, was, ghosts, batch, kills>>

\* A release that is not found is no error.
DeleteNodes(p) ==
  /\ pc[p] = "delNodes"
  /\ Uninstalled(nodeHelmReleaseName(p))
  /\ Goto(p, "delController")
  /\ UNCHANGED <<busy, was, outcome, ghosts, batch, kills>>

DeleteController(p) ==
  /\ pc[p] = "delController"
  /\ Uninstalled(nodeControllerHelmReleaseName(p))
  /\ Return(p, "deleted")
  /\ dirty' = dirty \ {p} /\ blind' = blind \ {p}
  /\ UNCHANGED <<busy, was, batch, kills>>

DeleteFailed(p) ==
  /\ \/ pc[p] = "delNodes" /\ UninstallFailed(p, nodeHelmReleaseName(p))
     \/ /\ pc[p] = "delController"
        /\ UninstallFailed(p, nodeControllerHelmReleaseName(p))
  /\ Return(p, "error")
  /\ UNCHANGED <<busy, was, blind, batch, kills>>

\* The command is killed; what helm had written stays.
Kill(p) ==
  /\ pc[p] # "idle" /\ kills < MaxKills /\ ~BatchHas(p)
  /\ kills' = kills + 1
  /\ Return(p, "error")
  /\ busy' = busy \ {p}
  /\ was' = [was EXCEPT ![p] = "absent"]
  /\ dirty' = dirty \cup {p}
  /\ UNCHANGED <<status, blind, batch>>

-----------------------------------------------------------------------------
(* nodepool list.                                                          *)

\* The releases that are deployed or failed (the default of helm's list),
\* without the names the project reserves.
ListNodepools ==
  {r \in Releases : /\ status[r] \in {"deployed", "failed"}
                    /\ r \notin Lifecycle
                    /\ \A q \in Names : r # Controller[q]}

-----------------------------------------------------------------------------
(* nodepool batch-add.                                                     *)

BatchAdd ==
  /\ batch.phase = "off"
  /\ \E r \in Requests :
       batch' = [total |-> r[1], size |-> r[2], i |-> 0, made |-> 0,
                 phase |-> IF r[2] > 0 THEN "next" ELSE "error"]
  /\ UNCHANGED <<status, pc, busy, was, outcome, ghosts, kills>>

WholeBatch == batch.size

currentBatchSize ==
  IF batch.i + batch.size > batch.total THEN batch.total - batch.i
                                        ELSE batch.size

BatchNext ==
  /\ batch.phase = "next"
  /\ batch.i < batch.total
  /\ Create(BatchPool[batch.i \div batch.size], currentBatchSize)
  /\ batch' = [batch EXCEPT !.phase = "wait"]

\* CreateNodepool has returned to the loop.
BatchReturn ==
  /\ batch.phase = "wait"
  /\ LET p == BatchPool[batch.i \div batch.size]
     IN  /\ pc[p] = "idle"
         /\ batch' = IF outcome[p] = "added"
                       THEN [batch EXCEPT !.made = @ + currentBatchSize,
                                          !.i = @ + batch.size,
                                          !.phase = "next"]
                       ELSE [batch EXCEPT !.phase = "error"]
  /\ UNCHANGED <<status, pc, busy, was, outcome, ghosts, kills>>

BatchDone ==
  /\ batch.phase = "next"
  /\ batch.i >= batch.total
  /\ batch' = [batch EXCEPT !.phase = "done"]
  /\ UNCHANGED <<status, pc, busy, was, outcome, ghosts, kills>>

CreateNodepool(p) ==
  \/ GetFound(p) \/ GetError(p)
  \/ DeployBegin(p) \/ DeployRefused(p) \/ DeployDone(p) \/ DeployFailed(p)
  \/ Cleanup(p)

Next ==
  \/ \E p \in Names :
       \/ Add(p) \/ CreateNodepool(p) \/ DeleteNodepool(p)
       \/ DeleteNodes(p) \/ DeleteController(p) \/ DeleteFailed(p)
       \/ Kill(p)
  \/ BatchAdd \/ BatchNext \/ BatchReturn \/ BatchDone

Spec == Init /\ [][Next]_vars

-----------------------------------------------------------------------------
(* Properties.                                                             *)

\* Nodes that are there or on their way have their controllers: the order of
\* the two releases in add and in delete keeps it through failures and kills,
\* for commands on other pools at the same time, unless Get failed on a pool
\* that existed (nodes_create.go:54-74, nodes_delete.go:30-38).
NodesHaveController ==
  \A p \in Names :
    /\ status[nodeHelmReleaseName(p)] \in {"pending", "deployed"}
    /\ \A q \in Names : p # Controller[q]
    /\ p \notin blind
    => status[nodeControllerHelmReleaseName(p)] = "deployed"

\* Between commands a pool is complete or not there at all, unless a command
\* was killed or helm could not undo or remove something: the failure of the
\* second release takes back the first (nodes_create.go:68-74).
AllOrNothing ==
  \A p \in Names \ dirty :
    pc[p] = "idle" /\ (\A q \in Names : p # Controller[q]) =>
      /\ status[nodeHelmReleaseName(p)] \in {"absent", "deployed"}
      /\ status[nodeControllerHelmReleaseName(p)]
           = status[nodeHelmReleaseName(p)]

\* Whatever a pool went through, a delete that reports success has removed
\* both releases, also when the first was gone already
\* (nodes_delete.go:30-40, delete.go:42-49).
DeletedIsGone ==
  \A p \in Names :
    pc[p] = "idle" /\ outcome[p] = "deleted" =>
      /\ status[nodeHelmReleaseName(p)] = "absent"
      /\ status[nodeControllerHelmReleaseName(p)] = "absent"

\* batch-add has made exactly the nodes of the batches before i, and on
\* success all that were asked for, the last batch being the rest
\* (nodepool.go:201-222).
BatchIsExact ==
  /\ batch.phase \in {"next", "wait"} =>
       batch.made = IF batch.i < batch.total THEN batch.i ELSE batch.total
  /\ batch.phase = "done" => batch.made = batch.total

\* The list shows pools and nothing else of the namespace, and of the pools
\* that no failure or kill left half done and no command works on exactly
\* those whose nodes have their controllers (nodes_list.go:28-36).
ListsPools ==
  /\ ListNodepools \subseteq Names
  /\ \A p \in Names \ (dirty \cup Lifecycle) :
       pc[p] = "idle" /\ (\A q \in Names : p # Controller[q]) =>
         (p \in ListNodepools
            <=> status[nodeControllerHelmReleaseName(p)] = "deployed")
=============================================================================
