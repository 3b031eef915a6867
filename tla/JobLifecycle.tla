---------------------------- MODULE JobLifecycle ----------------------------
(***************************************************************************)
(* What internal/worker/pool.go promises for one submission: it is taken   *)
(* or refused once; a job that was taken runs at most as often as its      *)
(* retry configuration allows, one run at a time; it ends once, as done or *)
(* as dead, and is then never run again.  How the promise is kept (the     *)
(* channels, the goroutines, the shutdown) is the business of WorkerPool.  *)
(***************************************************************************)
EXTENDS Naturals

CONSTANTS
    Jobs,     \* the submissions
    MaxRuns   \* how often each of them may be run, at least once

VARIABLES
    phase,    \* where each job is in its life
    runs      \* how often it was run

lifecycleVars == <<phase, runs>>

Phases == {"new", "refused", "queued", "running", "done", "dead"}

LifecycleTypeOK ==
    /\ phase \in [Jobs -> Phases]
    /\ runs \in [Jobs -> Nat]

Init ==
    /\ phase = [j \in Jobs |-> "new"]
    /\ runs = [j \in Jobs |-> 0]

Move(j, from, to) ==
    /\ phase[j] \in from
    /\ phase' = [phase EXCEPT ![j] = to]

Refuse(j) == Move(j, {"new"}, "refused") /\ UNCHANGED runs

Accept(j) == Move(j, {"new"}, "queued") /\ UNCHANGED runs

Run(j) ==
    /\ Move(j, {"queued"}, "running")
    /\ runs[j] < MaxRuns[j]
    /\ runs' = [runs EXCEPT ![j] = @ + 1]

Retry(j) ==
    /\ Move(j, {"running"}, "queued")
    /\ runs[j] < MaxRuns[j]
    /\ UNCHANGED runs

Finish(j) == Move(j, {"running"}, "done") /\ UNCHANGED runs

GiveUp(j) == Move(j, {"queued", "running"}, "dead") /\ UNCHANGED runs

Advance(j) == Run(j) \/ Retry(j) \/ Finish(j) \/ GiveUp(j)

Next == \E j \in Jobs : Refuse(j) \/ Accept(j) \/ Advance(j)

Spec == Init /\ [][Next]_lifecycleVars

=============================================================================
