------------------------------ MODULE IBClient ------------------------------
(***************************************************************************)
(* The client of the IB gateway (internal/providers/ib/client.go), shared  *)
(* by the keep-alive job (internal/jobs/monitoring/ib.go), by jobs and     *)
(* requests that fetch bars, and by App.Stop, which closes it.             *)
(*                                                                         *)
(* Two mutexes guard it.  authMu is held over EnsureAuthenticated, network *)
(* calls included; mu is read-locked over a request and write-locked by    *)
(* Close.  EnsureAuthenticated reads and replaces the session's client     *)
(* under authMu only.  The gateway is external: any call may fail, because *)
(* its session expired, the gateway is gone or the context is done.        *)
(***************************************************************************)
EXTENDS Integers, FiniteSets

CONSTANTS
    KeepAlives, \* runs of the ib_ping job
    Fetches,    \* calls of HistoricalData, by jobs and by requests
    Closer,     \* App.Stop
    Workers,    \* how many of them may run at a time
    Credentials, \* the configuration has a user and a password: an authenticator
    Nobody

Calls == KeepAlives \cup Fetches
Procs == Calls \cup {Closer}

ASSUME ClientAssumption ==
    /\ KeepAlives \cap Fetches = {}
    /\ Closer \notin Calls /\ Nobody \notin Procs
    /\ Workers \in Nat \ {0} /\ Credentials \in BOOLEAN

VARIABLES
    pc,            \* where each call is
    authMu,        \* who holds authMu
    readers,       \* who holds mu for reading
    writer,        \* who holds mu for writing
    authenticated, \* Client.authenticated
    closed,        \* Client.closed
    client,        \* Client.client: without a session, or with the one of Authenticate
    used,          \* the client a call made its request with
    result         \* what a call returned
locks  == <<authMu, readers, writer>>
fields == <<authenticated, closed, client>>
ibVars   == <<pc, locks, fields, used, result>>

Sessions == {"anonymous", "session"}
Results == {"none", "ok", "error", "closed"}
Places  == {"idle", "authLock", "authenticate", "verify", "relock",
            "readLock", "request", "writeLock", "closing", "done"}

IBInit ==
    /\ pc = [p \in Procs |-> "idle"]
    /\ authMu = Nobody /\ readers = {} /\ writer = Nobody
    /\ authenticated = FALSE /\ closed = FALSE
    /\ client = "anonymous"
    /\ used = [p \in Procs |-> "none"]
    /\ result = [p \in Procs |-> "none"]

Goto(p, there) == pc' = [pc EXCEPT ![p] = there]
Returns(p, r) ==
    /\ Goto(p, "done")
    /\ result' = [result EXCEPT ![p] = r]

\* Goroutines of calls that have a worker, or an HTTP request.
Running == {c \in Calls : pc[c] \notin {"idle", "done"}}

-----------------------------------------------------------------------------
(* PingHandler: EnsureAuthenticated, then Ping.  A fetch has no first part.*)

Begin(c) ==
    /\ pc[c] = "idle" /\ Cardinality(Running) < Workers
    /\ Goto(c, IF c \in KeepAlives /\ Credentials THEN "authLock" ELSE "readLock")
    /\ UNCHANGED <<locks, fields, used, result>>

Take(c) == authMu' = c
ReleaseNever == UNCHANGED authMu  \* mutant: a return without the deferred unlock
Release == authMu' = Nobody

\* A sync.Mutex is not reentrant: at "relock" this waits for c itself.
AuthLock(c) ==
    /\ pc[c] \in {"authLock", "relock"} /\ authMu = Nobody
    /\ Take(c)
    /\ Goto(c, IF authenticated THEN "verify" ELSE "authenticate")
    /\ UNCHANGED <<readers, writer, fields, used, result>>

\* The client with the session replaces the one the others may be using.
NewClient == client' = "session"

Authenticate(c) ==
    /\ pc[c] = "authenticate"
    /\ NewClient
    /\ authenticated' = TRUE
    /\ Release
    /\ Goto(c, "readLock")
    /\ UNCHANGED <<readers, writer, closed, used, result>>

AuthenticateFails(c) ==
    /\ pc[c] = "authenticate"
    /\ Release
    /\ Returns(c, "error")
    /\ UNCHANGED <<readers, writer, fields, used>>

Verify(c) ==
    /\ pc[c] = "verify"
    /\ Release
    /\ Goto(c, "readLock")
    /\ UNCHANGED <<readers, writer, fields, used, result>>

\* The ping fails: EnsureAuthenticated calls itself, and locks authMu again.
VerifyFails(c) ==
    /\ pc[c] = "verify"
    /\ authenticated' = FALSE
    /\ Goto(c, "relock")
    /\ UNCHANGED <<locks, closed, client, used, result>>

-----------------------------------------------------------------------------
(* Ping and HistoricalData, and Close.                                     *)

\* A writer that waits keeps new readers out.
WriterWaits == \E p \in Procs : pc[p] = "writeLock"
MayRead(c) == pc[c] = "readLock" /\ writer = Nobody /\ ~WriterWaits

IsClosedIgnored == FALSE  \* mutant: the check of closed is missing
IsClosed == closed

Request(c) ==
    /\ MayRead(c) /\ ~IsClosed
    /\ readers' = readers \cup {c}
    /\ used' = [used EXCEPT ![c] = client]
    /\ Goto(c, "request")
    /\ UNCHANGED <<authMu, writer, fields, result>>

Refused(c) ==
    /\ MayRead(c) /\ IsClosed
    /\ Returns(c, "closed")
    /\ UNCHANGED <<locks, fields, used>>

UnreadNever(c) == UNCHANGED readers  \* mutant: a return without RUnlock
Unread(c) == readers' = readers \ {c}

Answer(c) ==
    /\ pc[c] = "request"
    /\ Unread(c)
    /\ \E r \in {"ok", "error"} : Returns(c, r)
    /\ UNCHANGED <<authMu, writer, fields, used>>

CloseCalled ==
    /\ pc[Closer] = "idle"
    /\ Goto(Closer, "writeLock")
    /\ UNCHANGED <<locks, fields, used, result>>

CloseMayLock == readers = {}

CloseLock ==
    /\ pc[Closer] = "writeLock" /\ CloseMayLock
    /\ writer' = Closer
    /\ Goto(Closer, "closing")
    /\ UNCHANGED <<authMu, readers, fields, used, result>>

\* The authenticator and the client that is there at this moment are closed.
Close ==
    /\ pc[Closer] = "closing"
    /\ closed' = TRUE
    /\ writer' = Nobody
    /\ Returns(Closer, "ok")
    /\ UNCHANGED <<authMu, readers, authenticated, client, used>>

-----------------------------------------------------------------------------
Step(c) ==
    \/ AuthLock(c) \/ Authenticate(c) \/ AuthenticateFails(c)
    \/ Verify(c) \/ VerifyFails(c)
    \/ Request(c) \/ Refused(c) \/ Answer(c)
CloseStep == CloseLock \/ Close

IBNext == (\E c \in Calls : Begin(c) \/ Step(c)) \/ CloseCalled \/ CloseStep

\* A network call ends by its timeout; a free mutex is given to one who waits.
IBFairness ==
    /\ \A c \in Calls : WF_ibVars(Step(c))
    /\ WF_ibVars(CloseStep)

IBSpec == IBInit /\ [][IBNext]_ibVars /\ IBFairness
-----------------------------------------------------------------------------
(* Properties.                                                             *)

\* Types of the variables.
IBTypeOK ==
    /\ pc \in [Procs -> Places]
    /\ authMu \in KeepAlives \cup {Nobody}
    /\ readers \subseteq Calls
    /\ writer \in {Closer, Nobody}
    /\ authenticated \in BOOLEAN /\ closed \in BOOLEAN
    /\ client \in Sessions
    /\ used \in [Procs -> Sessions \cup {"none"}]
    /\ result \in [Procs -> Results]

\* Close lets the requests in flight end, and once it has returned no Ping and
\* no HistoricalData talks to the gateway (the check of closed, and mu held over
\* the whole request).  EnsureAuthenticated is not held to it: it ignores closed.
QuietAfterClose ==
    result[Closer] = "ok" => \A c \in Calls : pc[c] # "request"

\* A keep-alive that reports success has pinged with the session's client, never
\* with the anonymous one, whatever ran between EnsureAuthenticated and Ping.
SuccessMeansSession ==
    \A k \in KeepAlives : Credentials /\ result[k] = "ok" => used[k] = "session"

\* Requests run with the session's client, and none on a closed client.
SessionIsKept == IBTypeOK /\ QuietAfterClose /\ SuccessMeansSession

\* A keep-alive that runs ends, unless some keep-alive has failed to verify the
\* session and waits for its own mutex: nothing else can block it.
OnlySelfLockBlocks ==
    \A k \in KeepAlives :
        pc[k] = "authLock" ~> (pc[k] = "done" \/ \E s \in KeepAlives : pc[s] = "relock")

\* A locked-up keep-alive blocks neither the requests for bars nor Close.
RequestsAndCloseEnd ==
    /\ \A f \in Fetches : pc[f] = "readLock" ~> pc[f] = "done"
    /\ pc[Closer] = "writeLock" ~> pc[Closer] = "done"

\* EnsureAuthenticated returns nil or an error (the comment of client.go:125).
\* Not so: see the run ib_keepalive.
EnsureAuthenticatedReturns ==
    \A k \in KeepAlives : pc[k] = "authLock" ~> pc[k] \in {"readLock", "done"}
=============================================================================
