---------------------------- MODULE RateLimiter ----------------------------
(***************************************************************************)
(* CanHandle for the requests of one client.  The buckets of the clients   *)
(* are in a cache that forgets them after a while; a request first looks   *)
(* its bucket up and then charges it under the bucket's lock, or makes a   *)
(* new one without any lock: requests that miss together each make one,    *)
(* and the last one stored is the one later requests find.                 *)
(***************************************************************************)
EXTENDS Clock, FiniteSets

CONSTANTS
    Requests,   \* requests of the client handled at once
    Buckets,    \* the Limiter objects
    TimeStep,   \* what a request costs, 60000 / rate ms
    Burst,      \* requests allowed above the rate
    Expiry,     \* how long the cache keeps a bucket, one minute
    Lists,      \* of "no", "black" and "white", the lists a client may be on
    None

ASSUME LimiterAssumption ==
    /\ TimeStep \in Nat /\ Burst \in Nat /\ Expiry \in Nat
    /\ None \notin Buckets

VARIABLES
    limiters,   \* the cache entry of the client: [bucket, expires], bucket None when there is none
    bucket,     \* Limiter: [size, last], with what was charged since the window began as history
    check,      \* per request, where CanHandle is: [at, bucket]
    since,      \* history: the beginning of a window of time, any one
    spent       \* history: the time charged to the client in the window

limiterVars == <<limiters, bucket, check, since, spent>>

MaxTime == TimeStep * Burst

LimiterInit ==
    /\ limiters = [bucket |-> None, expires |-> 0]
    /\ bucket = [b \in Buckets |-> [size |-> 0, last |-> 0, charged |-> 0]]
    /\ check = [r \in Requests |-> [at |-> "out", bucket |-> None]]
    /\ since = 0 /\ spent = 0

\* Buckets in the hands of a request; any other one is new to whoever makes it, as the
\* cache forgets its own in the same step.
InUse == {b \in Buckets : \E r \in Requests : check[r].bucket = b}

\* A client on a list is not counted, nor is anybody when the limiter is disabled.
CheckLists(r, listed) ==
    /\ check[r].at = "out"
    /\ check' = [check EXCEPT ![r].at = CASE listed = "black" -> "refused"
                                          [] listed = "white" -> "accepted"
                                          [] OTHER            -> "get"]
    /\ UNCHANGED <<limiters, bucket, since, spent>>

FindBucket(r) ==
    /\ check[r].at = "get"
    /\ check' = [check EXCEPT ![r] = IF limiters.bucket # None /\ now <= limiters.expires
                                     THEN [at |-> "charge", bucket |-> limiters.bucket]
                                     ELSE [at |-> "create", bucket |-> None]]
    /\ UNCHANGED <<limiters, bucket, since, spent>>

\* Mutant: an idle client saves up credit.
DrainedBelowZero(l) == l.size - (now - l.last)

\* What is left in a bucket after the time that has passed.
Drained(l) == IF l.size <= now - l.last THEN 0 ELSE l.size - (now - l.last)

\* The critical section: drain, then charge the request if it fits; the entry is
\* stored anew in any case.
Charge(r) ==
    LET b == check[r].bucket
        size == Drained(bucket[b])
        full == size > MaxTime
    IN  /\ check[r].at = "charge"
        /\ bucket' = [bucket EXCEPT ![b] = [size |-> IF full THEN size ELSE size + TimeStep, last |-> now,
                                            charged |-> IF full THEN @.charged ELSE @.charged + TimeStep]]
        /\ limiters' = [bucket |-> b, expires |-> now + Expiry]
        /\ check' = [check EXCEPT ![r] = [at |-> IF full THEN "refused" ELSE "accepted", bucket |-> None]]
        /\ spent' = (IF full THEN spent ELSE spent + TimeStep) /\ UNCHANGED since

\* Mutant: the new bucket is not stored.
CreateUnstored(r) ==
    /\ check[r].at = "create"
    /\ check' = [check EXCEPT ![r].at = "accepted"] /\ spent' = spent + TimeStep /\ UNCHANGED since
    /\ UNCHANGED <<limiters, bucket>>

\* A first request is always accepted, in a bucket of its own.
Create(r) ==
    /\ check[r].at = "create"
    /\ \E b \in Buckets \ InUse :
         /\ bucket' = [bucket EXCEPT ![b] = [size |-> TimeStep, last |-> now, charged |-> TimeStep]]
         /\ limiters' = [bucket |-> b, expires |-> now + Expiry]
    /\ check' = [check EXCEPT ![r].at = "accepted"] /\ spent' = spent + TimeStep /\ UNCHANGED since

\* CanHandle returns.
Leave(r) ==
    /\ check[r].at \in {"accepted", "refused"}
    /\ check' = [check EXCEPT ![r].at = "out"]
    /\ UNCHANGED <<limiters, bucket, since, spent>>

CanHandle(r) ==
    \/ \E listed \in Lists : CheckLists(r, listed)
    \/ FindBucket(r) \/ Charge(r) \/ Create(r) \/ Leave(r)

\* The window the properties speak of may begin at any time.
OpenWindow ==
    /\ since' = now /\ spent' = 0
    /\ bucket' = [b \in Buckets |-> [bucket[b] EXCEPT !.charged = 0]]
    /\ UNCHANGED <<limiters, check>>

LimiterNext ==
    \/ \E r \in Requests : CanHandle(r) /\ UNCHANGED now
    \/ (OpenWindow /\ UNCHANGED now) \/ (Tick /\ UNCHANGED limiterVars)

LimiterSpec == now = 0 /\ LimiterInit /\ [][LimiterNext]_<<now, limiterVars>>

-----------------------------------------------------------------------------

LimiterTypeOK ==
    /\ now \in Nat /\ since \in 0..now /\ spent \in Nat
    /\ limiters \in [bucket : Buckets \union {None}, expires : Nat]
    /\ bucket \in [Buckets -> [size : Nat, last : Nat, charged : Nat]]
    /\ check \in [Requests -> [at : {"out", "get", "charge", "create", "accepted", "refused"}, bucket : Buckets \union {None}]]
    /\ \A r \in Requests : check[r].at = "charge" => check[r].bucket \in Buckets

\* A bucket holds the rate: however requests interleave, the time charged to it in any
\* window exceeds the length of the window by no more than the burst and one request.
BucketHolds == \A b \in Buckets : bucket[b].charged <= MaxTime + TimeStep + (now - since)

\* The client is held to the rate in any window, at worst once per request handled at
\* once: requests that miss together make a bucket each, and the buckets can stay in
\* use side by side, but there are never more than that.  (A bucket must be empty by
\* the time the cache forgets it: MaxTime + TimeStep <= Expiry.)
RateHeld == spent <= Cardinality(Requests) * (MaxTime + TimeStep + (now - since))
=============================================================================
