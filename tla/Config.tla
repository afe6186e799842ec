------------------------------- MODULE Config -------------------------------
(***************************************************************************)
(* From the flags of a benchmark to the load it makes.  A command of       *)
(* runkperf reads the load profile embedded for it, changes it by its      *)
(* flags (newLoadProfileFromEmbed, tweakReadUpdateProfile and the callback *)
(* of the warm-up) and hands it to the runners, which adjust the first     *)
(* spec once more (loadConfig), check the profile and run its specs one    *)
(* after the other, each until its total or its duration is reached.  The  *)
(* warm-up first asks the instances of the API server for their cores and  *)
(* does nothing if enough of them are large.                               *)
(*                                                                         *)
(* Time is counted in seconds; a runner sends at most Rate requests in     *)
(* each.  Ratios are in thousandths.  One command stands for those with a  *)
(* total in the embedded profile ("node").                                 *)
(***************************************************************************)
EXTENDS Integers, Sequences, FiniteSets

CONSTANTS
  Total,          \* a total of the embedded profiles that have one
  Phases,         \* the durations of the profile of timeseries_replay
  Default,        \* the default of --total of runkperf
  RunnerDefault,  \* the default of --total of the runner
  Rate,           \* requests per second
  Totals,         \* values of --total, besides -1
  Durations,      \* values of --duration, 0 if absent
  Ratios,         \* values of --read-ratio
  Instances,      \* instances of the API server
  Threshold,      \* --core-warmup-ready-threshold
  MaxTime         \* bound on the seconds of one phase

VARIABLES
  flags,   \* the command line
  cores,   \* cores of each instance; 0 if its metrics cannot be read
  st,      \* the step of the command, or how it ended
  specs,   \* the profile: a sequence of totals and durations
  shares,  \* of the two requests of read_update
  took,    \* the seconds of each finished phase
  clock, sent

vars == <<flags, cores, st, specs, shares, took, clock, sent>>

Commands == {"list_configmaps", "node", "read_update", "timeseries_replay", "warmup"}

Embedded(cmd) ==
  CASE cmd = "list_configmaps" -> <<[total |-> 0, duration |-> 0]>>
    [] cmd = "timeseries_replay" ->
         [i \in 1..Len(Phases) |-> [total |-> 0, duration |-> Phases[i]]]
    [] OTHER -> <<[total |-> Total, duration |-> 0]>>

\* set: --total is given; affinity: --rg-affinity has the form key=value.
Flags == [cmd : Commands, set : BOOLEAN, total : Totals \cup {-1, Default},
          duration : Durations, ratio : Ratios, rate : {0, Rate},
          affinity : BOOLEAN, eks : BOOLEAN]

\* The flags a command does not have are left at zero.
HasFlags(f) ==
  /\ ~f.set => f.total = IF f.cmd = "timeseries_replay" THEN 0 ELSE Default
  /\ f.cmd = "timeseries_replay" => ~f.set
  /\ f.cmd \notin {"list_configmaps", "timeseries_replay"} => f.duration = 0
  /\ f.cmd # "read_update" => f.ratio = 0
  /\ f.cmd # "warmup" => f.rate = Rate /\ ~f.eks

Specs == [total : Nat, duration : Nat]

TypeOK ==
  /\ flags \in Flags
  /\ DOMAIN cores = Instances
  /\ st \in {"start", "fetch", "deploy", "running", "ended", "skipped",
             "error", "rejected"}
  /\ \A i \in DOMAIN specs : specs[i] \in Specs
  /\ shares.patch \in 0..100 /\ shares.staleList \in 0..100
  /\ Len(took) <= Len(specs)
  /\ clock \in 0..MaxTime /\ sent \in 0..(MaxTime * Rate)

Init ==
  /\ flags \in {f \in Flags : HasFlags(f)}
  /\ cores \in [Instances -> {0, Threshold \div 2, Threshold}]
  /\ flags.cmd # "warmup" => cores = [i \in Instances |-> 0]
  /\ st = "start" /\ specs = Embedded(flags.cmd)
  /\ shares = [patch |-> 50, staleList |-> 50]
  /\ took = <<>> /\ clock = 0 /\ sent = 0

-----------------------------------------------------------------------------
(* The profile                                                             *)

\* int(ratio * 100)
Percent(ratio) == ratio \div 10

FlagsOk(f) ==
  /\ f.total >= 0 /\ f.rate > 0 /\ f.affinity
  /\ f.cmd = "read_update" => f.ratio > 0 /\ f.ratio <= 1000

\* What not asking whether --total is set would give.
newLoadProfileDurationFirst(f, spec) ==
  [total |-> IF f.duration = 0 /\ f.total # 0 THEN f.total ELSE spec.total,
   duration |-> IF f.duration > 0 THEN f.duration ELSE spec.duration]

\* What keeping the default of --total next to --duration would give.
newLoadProfileKeepsTotal(f, spec) ==
  [total |-> IF f.total # 0 THEN f.total ELSE spec.total,
   duration |-> IF ~f.set /\ f.duration > 0 THEN f.duration ELSE spec.duration]

newLoadProfileFromEmbed(f, spec) ==
  LET timed == ~f.set /\ f.duration > 0
      reqs == IF timed THEN 0 ELSE f.total
  IN [total |-> IF reqs # 0 THEN reqs ELSE spec.total,
      duration |-> IF timed THEN f.duration ELSE spec.duration]

\* What rounding each share on its own would give.
tweakReadUpdateProfileApart(f) ==
  [patch |-> Percent(1000 - f.ratio), staleList |-> Percent(f.ratio)]

tweakReadUpdateProfile(f) ==
  [patch |-> 100 - Percent(f.ratio), staleList |-> Percent(f.ratio)]

warmupProfile(f, spec) == [spec EXCEPT !.total = f.total]

Tweak ==
  /\ st = "start"
  /\ IF ~FlagsOk(flags)
     THEN st' = "error" /\ UNCHANGED <<specs, shares>>
     ELSE /\ specs' = [specs EXCEPT ![1] =
                         IF flags.cmd = "warmup" THEN warmupProfile(flags, @)
                         ELSE newLoadProfileFromEmbed(flags, @)]
          /\ shares' = IF flags.cmd = "read_update"
                       THEN tweakReadUpdateProfile(flags) ELSE shares
          /\ st' = IF flags.cmd = "warmup" THEN "fetch" ELSE "deploy"
  /\ UNCHANGED <<flags, cores, took, clock, sent>>

-----------------------------------------------------------------------------
(* The warm-up                                                             *)

isReady(eks, seen) ==
  LET n == Cardinality({i \in DOMAIN seen : seen[i] >= Threshold})
  IN (eks /\ n >= 2) \/ (~eks /\ n >= 1)

\* An instance whose metrics cannot be read is left out; without the name of
\* the cluster nothing is known and the warm-up goes on.
FetchAPIServerCores ==
  /\ st = "fetch"
  /\ \/ LET seen == [i \in {j \in Instances : cores[j] > 0} |-> cores[i]]
        IN st' = IF isReady(flags.eks, seen) THEN "skipped" ELSE "deploy"
     \/ st' = "deploy"
  /\ UNCHANGED <<flags, cores, specs, shares, took, clock, sent>>

-----------------------------------------------------------------------------
(* The runner                                                              *)

\* What loadConfig without a default for the total would give.
FirstSpecNoDefault(spec) ==
  IF spec.total > 0 THEN [spec EXCEPT !.duration = 0] ELSE spec

\* A total hides the duration, and without either the default total counts.
FirstSpec(spec) ==
  CASE spec.total > 0 -> [spec EXCEPT !.duration = 0]
    [] spec.total = 0 /\ spec.duration = 0 -> [spec EXCEPT !.total = RunnerDefault]
    [] OTHER -> spec

Valid(spec) == spec.total > 0 \/ spec.duration > 0

loadConfig ==
  /\ st = "deploy"
  /\ specs' = [specs EXCEPT ![1] = FirstSpec(@)]
  /\ st' = IF \A i \in DOMAIN specs : Valid(specs'[i]) THEN "running" ELSE "rejected"
  /\ UNCHANGED <<flags, cores, shares, took, clock, sent>>

Phase == Len(took) + 1

Over ==
  \/ specs[Phase].total > 0 /\ sent >= specs[Phase].total
  \/ specs[Phase].duration > 0 /\ clock >= specs[Phase].duration

\* One second of requests, as many as the API server answers.
Send ==
  /\ st = "running" /\ ~Over
  /\ clock < MaxTime /\ clock' = clock + 1
  /\ \E n \in 0..Rate :
       /\ specs[Phase].total > 0 => sent + n <= specs[Phase].total
       /\ sent' = sent + n
  /\ UNCHANGED <<flags, cores, st, specs, shares, took>>

\* The requests of the last phase stay in view.
EndSpec ==
  /\ st = "running" /\ Over
  /\ took' = Append(took, clock)
  /\ IF Phase = Len(specs)
     THEN st' = "ended" /\ UNCHANGED <<clock, sent>>
     ELSE st' = st /\ clock' = 0 /\ sent' = 0
  /\ UNCHANGED <<flags, cores, specs, shares>>

Next == Tweak \/ FetchAPIServerCores \/ loadConfig \/ Send \/ EndSpec

Spec == Init /\ [][Next]_vars

-----------------------------------------------------------------------------
(* Properties                                                              *)

(* With --total a run sends exactly that many requests, whatever           *)
(* --duration says (the usage of --duration, list_configmaps.go:46; IsSet  *)
(* in newLoadProfileFromEmbed and the runner's loadConfig decide it).      *)
TotalWins ==
  st = "ended" /\ flags.set /\ flags.total > 0 => sent = flags.total

(* With --duration and without --total list_configmaps runs for exactly    *)
(* that time: the default of --total, which is not zero, must not reach    *)
(* the runner, where a total hides the duration.                           *)
DurationHonoured ==
  st = "ended" /\ flags.cmd = "list_configmaps" /\ ~flags.set /\ flags.duration > 0
    => took = <<flags.duration>>

(* The runners accept every profile that runkperf makes: where --total 0   *)
(* passes its checks and leaves neither a total nor a duration, loadConfig *)
(* puts the runner's default (runner.go:199-202) before Validate.          *)
RunnerAccepts == st # "rejected"

(* The shares of the two requests of read_update are percentages: what     *)
(* truncation takes from the reads goes to the writes (utils.go:212, 223). *)
SharesAreWhole == shares.patch + shares.staleList = 100

-----------------------------------------------------------------------------
(* The inductive invariant                                                 *)

\* A profile has one spec, or the phases; those after the first are valid.
Shape ==
  /\ specs \in Seq(Specs)
  /\ Len(specs) = IF flags.cmd = "timeseries_replay" THEN Len(Phases) ELSE 1
  /\ \A i \in DOMAIN specs : i > 1 => Valid(specs[i])
  /\ st = "start" => specs = Embedded(flags.cmd)

Tweaked == st \notin {"start", "error"}
ByTotal == flags.set /\ flags.total > 0
ByDuration == flags.cmd = "list_configmaps" /\ ~flags.set /\ flags.duration > 0

\* What the flags have made of the first spec.
FirstAsAsked ==
  /\ HasFlags(flags)
  /\ Tweaked /\ ByTotal =>
       /\ Len(specs) = 1 /\ specs[1].total = flags.total
       /\ st \in {"running", "ended"} => specs[1].duration = 0
  /\ Tweaked /\ ByDuration =>
       /\ Len(specs) = 1
       /\ specs[1].total = 0 /\ specs[1].duration = flags.duration

\* How far the run is.
Progress ==
  /\ st \notin {"running", "ended"} => took = << >> /\ clock = 0 /\ sent = 0
  /\ took \in Seq(Nat)
  /\ st = "running" =>
       /\ Len(took) < Len(specs)
       /\ specs[Phase].total > 0 => sent <= specs[Phase].total
       /\ specs[Phase].duration > 0 => clock <= specs[Phase].duration
  /\ sent <= clock * Rate

\* The strengthening every step preserves.
IInv ==
  /\ TypeOK /\ Shape /\ FirstAsAsked /\ Progress
  /\ TotalWins /\ DurationHonoured /\ RunnerAccepts /\ SharesAreWhole
=============================================================================
