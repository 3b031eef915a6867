--------------------------- MODULE MCAppLifecycle ---------------------------
(* An instance of the application for TLC: an attempt for a handler that   *)
(* is registered untested, and one for a handler that is tested.           *)
EXTENDS AppLifecycle, TLC

CONSTANTS a1, a2

HandlerOf == a1 :> "bulk_ingest" @@ a2 :> "earnings_sync"
=============================================================================
