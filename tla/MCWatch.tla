------------------------------ MODULE MCWatch -------------------------------
(***************************************************************************)
(* The parts of WatchParts for one run of TLC.  A behaviour is one of one  *)
(* of them, while the others are over.                                     *)
(***************************************************************************)
EXTENDS WatchParts

WaitOver ==
  /\ hist = [v \in 1..MaxVersion |-> Completions] /\ job = "active"
  /\ gone = 0 /\ compacted = MaxVersion
  /\ pc = "returned" /\ lastRv = 0 /\ pos = 0 /\ owed = "nothing" /\ errors = 0

WatchesOver ==
  /\ main = "returned" /\ started = total /\ cancelled = TRUE
  /\ watchPc = [i \in Watches!Configmaps |-> "done"]
  /\ watch = [i \in Watches!Configmaps |-> "none"]
  /\ copy = [i \in Watches!Configmaps |-> {}]
  /\ watches = Watches!Configmaps

NsOver ==
  /\ nsPc = "idle" /\ ip = None /\ locked = None
  /\ on = [g \in Ns!Goroutines |-> None]
  /\ ns = [t \in Threads |-> Ns!Host]
  /\ hosts = [n \in Ns!Namespaces |-> Ns!Own]
  /\ files = {}
  /\ answer = [i \in IPs |-> "error"]

CiliumOver ==
  /\ sent = 0 /\ queue = 0 /\ closed = TRUE
  /\ worker = [w \in Workers |-> "done"]
  /\ attempts = [w \in Workers |-> 0]
  /\ applied = 0
  /\ producer = "failed" /\ reporter = "failed"
  /\ groupCancelled = TRUE /\ group = "error"

PartsInit ==
  \/ Init /\ WatchesOver /\ NsOver /\ CiliumOver
  \/ WaitOver /\ Watches!Init /\ NsOver /\ CiliumOver
  \/ WaitOver /\ WatchesOver /\ Ns!Init /\ CiliumOver
  \/ WaitOver /\ WatchesOver /\ NsOver /\ Cilium!Init

\* The goroutines besides the call go on for ever; they rest while another part
\* is looked at.
PartsNext ==
  \/ Next /\ UNCHANGED <<watchVars, nsVars, ciliumVars>>
  \/ Watches!Next /\ UNCHANGED <<vars, nsVars, ciliumVars>>
  \/ WaitOver /\ WatchesOver /\ CiliumOver
       /\ Ns!Next /\ UNCHANGED <<vars, watchVars, ciliumVars>>
  \/ Cilium!Next /\ UNCHANGED <<vars, watchVars, nsVars>>

PartsSpec ==
  /\ PartsInit
  /\ [][PartsNext]_<<vars, watchVars, nsVars, ciliumVars>>
  /\ Fairness /\ Watches!Fairness /\ Ns!Fairness /\ Cilium!Fairness
=============================================================================
