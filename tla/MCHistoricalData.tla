-------------------------- MODULE MCHistoricalData --------------------------
(* An instance of the historical data job for TLC: hourly bars, of which   *)
(* one instrument has the newest only, and a period of each kind: it cuts  *)
(* the series, it holds all of it, it is out of range.                     *)
EXTENDS HistoricalData, TLC

CONSTANTS job, fetch, i1, i2

MCSeries == (i1 :> {60, 120, 180}) @@ (i2 :> {180})
MCJobPeriods == {[value |-> 2, unit |-> "h"], [value |-> 8, unit |-> "h"],
              [value |-> 9, unit |-> "h"]}
MCFetchPeriods == {[value |-> 1, unit |-> "h"]}
=============================================================================
