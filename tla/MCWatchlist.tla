---------------------------- MODULE MCWatchlist -----------------------------
(* An instance of the watchlists for TLC: any two requests, on any content *)
(* of the tables.                                                          *)
EXTENDS Watchlist, TLC

CONSTANTS r1, r2, tech, etf, aapl, ann
=============================================================================
