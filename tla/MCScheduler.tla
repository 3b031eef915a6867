----------------------------- MODULE MCScheduler -----------------------------
(* An instance of the scheduler for TLC.                                     *)
EXTENDS SchedulerProperties, TLC

CONSTANTS i1, i2, i3, c1, c2

\* Safety only: the clients can be exchanged.
Symmetry == Permutations({c1, c2})

\* A complete retry section and one with an absent and a negative number.
Full == [MaxAttempts |-> 2, InitialDelay |-> 5, MaxDelay |-> 9, Multiplier |-> 3]
Part == [MaxAttempts |-> 0, InitialDelay |-> -1, MaxDelay |-> 9, Multiplier |-> 3]

Config(e, c, r) == [enabled |-> e, cron |-> c, retry |-> r]

\* The file names i1 once and i2 twice; i3 is left to requests.
ThreeFileJobs ==
    <<[id |-> i1, cfg |-> Config(TRUE, "accepted", Full)],
      [id |-> i2, cfg |-> Config(TRUE, "accepted", Full)],
      [id |-> i2, cfg |-> Config(TRUE, "accepted", Part)]>>

MixedRequests == {Config(TRUE, "accepted", Part),
                  Config(TRUE, "accepted", Full),
                  Config(FALSE, "accepted", Full),
                  Config(TRUE, "rejected", Full)}
=============================================================================
