--------------------------- MODULE MCCalendarSync ---------------------------
(* An instance of the calendar jobs for TLC: two runs of each.             *)
EXTENDS CalendarSync, TLC

CONSTANTS p1, p2, q1, q2, aapl, cpi
=============================================================================
