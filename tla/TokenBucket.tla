----------------------------- MODULE TokenBucket -----------------------------
(***************************************************************************)
(* The token bucket of internal/ratelimiter/ratelimiter.go, behind the     *)
(* rate-limited providers: Allow waits for a token while it holds the      *)
(* mutex, AllowImmediate does not wait for one, Reset fills the bucket.    *)
(*                                                                         *)
(* The code counts tokens in float64 and seconds.  Here a token is K units *)
(* and a tick of the clock earns one unit, so fractions of a token are     *)
(* whole numbers of units; rounding is left out.  The time since lastRefill*)
(* counts only up to a full bucket, which earns nothing more.              *)
(***************************************************************************)
EXTENDS Integers

CONSTANTS
    Waiting,     \* callers of Allow
    Immediate,   \* callers of AllowImmediate
    MaxTokens,   \* requestsPerMin, the capacity in tokens
    K,           \* ticks that earn one token
    Resets,      \* TRUE: Reset may be called
    Nobody       \* the owner of the free mutex

ASSUME BucketAssumption ==
    /\ Waiting \cap Immediate = {}
    /\ Nobody \notin Waiting \cup Immediate
    /\ MaxTokens \in Nat \ {0}
    /\ K \in Nat \ {0}
    /\ Resets \in BOOLEAN

Callers == Waiting \cup Immediate
Max     == MaxTokens * K

VARIABLES
    tokens,    \* TokenBucket.tokens, in units
    since,     \* ticks since lastRefill
    mu,        \* who holds the mutex across steps: a caller that waits, or Nobody
    at,        \* where each call is, and what the last one returned
    left,      \* ticks until time.After fires for the owner of the mutex
    cancelled, \* whose context is done
    credit,    \* (history) the level of an exact bucket with the same grants
    conforms,  \* (history) the exact bucket could pay for every grant
    waited     \* (history) a wait has run to its end since the last Reset
bucketVars == <<tokens, since, mu, at, left, cancelled, credit, conforms, waited>>

Results == {"granted", "refused", "cancelled"}
Pcs     == {"idle", "queued", "waiting"} \cup Results

BucketInit ==
    /\ tokens = Max
    /\ since = 0
    /\ mu = Nobody
    /\ at = [c \in Callers |-> "idle"]
    /\ left = 0
    /\ cancelled = [c \in Callers |-> FALSE]
    /\ credit = Max
    /\ conforms = TRUE
    /\ waited = FALSE

-----------------------------------------------------------------------------
Capped(n) == IF n > Max THEN Max ELSE n

RefilledPast == tokens + since                        \* mutant: no cap
RefilledLost == tokens                                \* mutant: elapsed forgotten
Refilled == Capped(tokens + since)

\* The exact bucket pays for a grant, or the grant breaks the rate.
Charge ==
    /\ conforms' = (conforms /\ credit >= K)
    /\ credit' = IF credit >= K THEN credit - K ELSE 0

\* A caller asks for the mutex.
Call(c) ==
    /\ at[c] \notin {"queued", "waiting"}
    /\ at' = [at EXCEPT ![c] = "queued"]
    /\ cancelled' = [cancelled EXCEPT ![c] = FALSE]
    /\ UNCHANGED <<tokens, since, mu, left, credit, conforms, waited>>

\* The context of a call that is still out is cancelled.
Cancel(c) ==
    /\ c \in Waiting /\ at[c] \in {"queued", "waiting"} /\ ~cancelled[c]
    /\ cancelled' = [cancelled EXCEPT ![c] = TRUE]
    /\ UNCHANGED <<tokens, since, mu, at, left, credit, conforms, waited>>

HasToken(n) == n >= K

\* The mutex is free and a token is there: lock, refill, take, unlock.
Grant(c) ==
    /\ mu = Nobody /\ at[c] = "queued" /\ HasToken(Refilled)
    /\ tokens' = Refilled - K
    /\ since' = 0
    /\ at' = [at EXCEPT ![c] = "granted"]
    /\ Charge
    /\ UNCHANGED <<mu, left, cancelled, waited>>

\* AllowImmediate without a token: lock, refill, unlock.
Refuse(c) ==
    /\ c \in Immediate
    /\ mu = Nobody /\ at[c] = "queued" /\ ~HasToken(Refilled)
    /\ tokens' = Refilled
    /\ since' = 0
    /\ at' = [at EXCEPT ![c] = "refused"]
    /\ UNCHANGED <<mu, left, cancelled, credit, conforms, waited>>

MissingStale == K - tokens                     \* mutant: computed before the refill
Missing == K - Refilled

\* Allow without a token: lock, refill, and wait for the missing units with
\* the mutex held.
Wait(c) ==
    /\ c \in Waiting
    /\ mu = Nobody /\ at[c] = "queued" /\ ~HasToken(Refilled)
    /\ tokens' = Refilled
    /\ since' = 0
    /\ mu' = c
    /\ left' = Missing
    /\ at' = [at EXCEPT ![c] = "waiting"]
    /\ UNCHANGED <<cancelled, credit, conforms, waited>>

AfterWait == (tokens + K) - K

\* time.After fires: a whole token is added, and taken; unlock.
TimerFires(c) ==
    /\ at[c] = "waiting" /\ left = 0
    /\ tokens' = AfterWait
    /\ since' = 0
    /\ mu' = Nobody
    /\ at' = [at EXCEPT ![c] = "granted"]
    /\ Charge
    /\ waited' = TRUE
    /\ UNCHANGED <<left, cancelled>>

UnlockNever == mu                              \* mutant: returns with the mutex held
Unlock == Nobody

\* ctx.Done() is ready in the select; the deferred unlock runs.
GiveUp(c) ==
    /\ at[c] = "waiting" /\ cancelled[c]
    /\ mu' = Unlock
    /\ left' = 0
    /\ at' = [at EXCEPT ![c] = "cancelled"]
    /\ UNCHANGED <<tokens, since, cancelled, credit, conforms, waited>>

\* Reset, called by nobody in production, needs the mutex too.
Reset ==
    /\ Resets /\ mu = Nobody
    /\ tokens' = Max
    /\ since' = 0
    /\ credit' = Max
    /\ conforms' = TRUE
    /\ waited' = FALSE
    /\ UNCHANGED <<mu, at, left, cancelled>>

Tick ==
    /\ since' = Capped(since + 1)
    /\ left' = IF left > 0 THEN left - 1 ELSE 0
    /\ credit' = Capped(credit + 1)
    /\ UNCHANGED <<tokens, mu, at, cancelled, conforms, waited>>

Acquire(c) == Grant(c) \/ Refuse(c) \/ Wait(c)

BucketNext ==
    \/ Tick
    \/ Reset
    \/ \E c \in Callers :
        Call(c) \/ Cancel(c) \/ Acquire(c) \/ TimerFires(c) \/ GiveUp(c)

\* Time passes, and a goroutine that can run does; sync.Mutex hands the lock
\* to the longest waiter once it starves, so nobody is passed over for ever.
BucketFairness ==
    /\ WF_bucketVars(Tick)
    /\ \A c \in Callers :
        /\ SF_bucketVars(Acquire(c))
        /\ WF_bucketVars(TimerFires(c))
        /\ WF_bucketVars(GiveUp(c))

BucketSpec == BucketInit /\ [][BucketNext]_bucketVars /\ BucketFairness

-----------------------------------------------------------------------------
(* Properties.                                                             *)

\* Every variable has its type: the bucket stays between empty and full, a
\* wait is at most the time of one token, and the mutex is held across steps
\* exactly by the caller that waits.
BucketTypeOK ==
    /\ tokens \in 0..Max
    /\ since \in 0..Max
    /\ mu \in Waiting \cup {Nobody}
    /\ at \in [Callers -> Pcs]
    /\ left \in 0..K
    /\ cancelled \in [Callers -> BOOLEAN]
    /\ credit \in 0..Max
    /\ conforms \in BOOLEAN
    /\ waited \in BOOLEAN
    /\ \A c \in Callers : at[c] = "waiting" <=> mu = c

\* Until the wait of an Allow runs to its end, the rate is kept: in any
\* stretch of n ticks at most MaxTokens + n/K requests are let through, which
\* is to say an exact bucket could pay for each of them.  Refusals, waits that
\* begin and waits that are cancelled do not disturb it.
RateKeptUntilAWaitEnds == ~waited => conforms

\* ... and the lazily refilled bucket holds what a bucket refilled at every
\* tick would hold, so AllowImmediate refuses, and Allow waits, only when
\* the exact bucket is short of a token.
NothingLostUntilAWaitEnds == ~waited => credit = Capped(tokens + since)

\* Both at once: until a wait ends, the bucket is an exact bucket.
ExactUntilAWaitEnds == RateKeptUntilAWaitEnds /\ NothingLostUntilAWaitEnds

\* A waiter never waits longer than the bucket needs, and is not let through
\* before the bucket, with the time since it took the lock, holds a token.
WaitsAsNeeded == mu # Nobody => left + since >= K - tokens /\ left <= K - tokens

\* Every call returns: a queued caller gets the mutex, however many callers
\* wait for tokens in front of it.
EveryCallReturns == \A c \in Callers : at[c] = "queued" ~> at[c] \in Results

-----------------------------------------------------------------------------
(* A claim of the comments that the code does not keep.                    *)

\* NewTokenBucket takes "the specified requests per minute": the rate is kept
\* whatever the callers do.
WithinRate == conforms
=============================================================================
