----------------------------- MODULE MCIBClient -----------------------------
(* An instance of the IB client for TLC: three keep-alives and a fetch     *)
(* on three goroutines.                                                    *)
EXTENDS IBClient, TLC

CONSTANTS k1, k2, k3, f1
=============================================================================
