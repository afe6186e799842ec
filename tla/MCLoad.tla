------------------------------- MODULE MCLoad -------------------------------
(***************************************************************************)
(* The parts of LoadParts for one run of TLC.  A behaviour is one of one   *)
(* of them, while the others are over.                                     *)
(***************************************************************************)
EXTENDS LoadParts

\* Two phases of the embedded load profile.
MCPhases == <<2, 1>>

-----------------------------------------------------------------------------
(* The parts together.                                                     *)

DelOver ==
  /\ cache = << >> /\ counter = 0
  /\ pc = [w \in Workers |-> "gone"]
  /\ held = [w \in Workers |-> None]
  /\ result = [w \in Workers |-> "none"]
  /\ late = {} /\ objects = {} /\ made = {} /\ untracked = {}

ConfigOver ==
  /\ flags = [cmd |-> "node", set |-> TRUE, total |-> -1, duration |-> 0,
              ratio |-> 0, rate |-> 2, affinity |-> TRUE, eks |-> FALSE]
  /\ cores = [n \in Instances |-> 0]
  /\ st = "error" /\ specs = Conf!Embedded("node")
  /\ shares = [patch |-> 50, staleList |-> 50]
  /\ took = << >> /\ clock = 0 /\ sent = 0

GenOver ==
  /\ total = 0 /\ duration = TRUE
  /\ runPc = "returned" /\ sum = 0
  /\ closed = TRUE /\ cancelled = TRUE /\ expired = TRUE
  /\ wpc = [w \in Workers |-> "exited"]
  /\ latencies = 0 /\ failures = 0 /\ dropped = 0
  /\ report = [Total |-> 0, latencies |-> 0, failures |-> 0]

PartsInit ==
  \/ Init /\ ConfigOver /\ GenOver
  \/ DelOver /\ Conf!Init /\ GenOver
  \/ DelOver /\ ConfigOver /\ Gen!Init

PartsNext ==
  \/ Next /\ UNCHANGED <<configVars, genVars>>
  \/ Conf!Next /\ UNCHANGED <<vars, genVars>>
  \/ Gen!Next /\ UNCHANGED <<vars, configVars>>

PartsSpec ==
  /\ PartsInit
  /\ [][PartsNext]_<<vars, configVars, genVars>>
  /\ Gen!Fairness
=============================================================================
