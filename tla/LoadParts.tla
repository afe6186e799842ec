----------------------------- MODULE LoadParts ------------------------------
(***************************************************************************)
(* Three parts of the load of a benchmark that share no state: the names a *)
(* POST/DELETE load makes up (PostDel), the way from the flags of the      *)
(* benchmark to the load of its runners (Config), and the goroutines of a  *)
(* runner that send it (Schedule).                                         *)
(***************************************************************************)
EXTENDS PostDel, Integers, FiniteSets

CONSTANTS
  Total, Phases, Default, RunnerDefault, Rate, Totals, Durations, Ratios,
  Instances, Threshold, MaxTime,                                     \* Config
  MaxTotal, MaxSum                                                 \* Schedule

VARIABLES
  flags, cores, st, specs, shares, took, clock, sent,                \* Config
  total, duration, runPc, sum, closed, cancelled, expired, wpc, latencies,
  failures, dropped, report                                        \* Schedule

configVars == <<flags, cores, st, specs, shares, took, clock, sent>>
genVars == <<total, duration, runPc, sum, closed, cancelled, expired, wpc,
             latencies, failures, dropped, report>>

Conf == INSTANCE Config
Gen == INSTANCE Schedule WITH pc <- runPc, result <- report

\* The phases of the embedded profile all take some time, and the default of
\* the runner is not zero.
ASSUME ConfigAssumption ==
  /\ Total \in Nat /\ Default \in Nat /\ RunnerDefault \in Nat \ {0}
  /\ Rate \in Nat \ {0} /\ MaxTime \in Nat
  /\ Phases \in Seq(Nat \ {0}) /\ Phases # << >>
  /\ Totals \subseteq Int /\ Durations \subseteq Int /\ Ratios \subseteq Int

ASSUME WorkersAssumption == IsFiniteSet(Workers) /\ Workers # {}
ASSUME SumsAssumption == MaxTotal \in Nat /\ MaxSum \in Nat

-----------------------------------------------------------------------------
(* Properties of the parts; those of PostDel are in PostDel.               *)

\* The flags decide the load, through two programs: with --total exactly that
\* many requests, else with --duration that time, always with a profile the
\* runners accept, and shares of read_update that are percentages
\* (bench/utils.go:140-223, runner.go:190-202).
LoadAsAsked ==
  Conf!TotalWins /\ Conf!DurationHonoured /\ Conf!RunnerAccepts
    /\ Conf!SharesAreWhole

\* Every request the picker of a runner hands out is recorded once, dropped once
\* by a failed limiter wait, or held by one worker
\* (schedule.go:65-113, random.go:91-105).
Accounting == Gen!Accounting

\* A benchmark bounded only by spec.Total reports exactly that many responses
\* (schedule.go:34-147).
TotalIsExact == Gen!TotalIsExact

\* Schedule returns: the picker leaves its select and every worker its loop,
\* whatever mix of limiter failures and deadline the run meets
\* (schedule.go:122-147).
Terminates == Gen!Terminates
=============================================================================
