----------------------------- MODULE MCILPClient -----------------------------
(* An instance of the ILP client for TLC: a bulk ingest and an incremental *)
(* update share the client.                                                *)
EXTENDS ILPClient, TLC

CONSTANTS bulk, incr

Files  == bulk :> <<"good", "good", "malformed">> @@ incr :> <<"good", "good", "good">>
Limits == bulk :> 0 @@ incr :> 2
=============================================================================
