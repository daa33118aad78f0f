----------------------------- MODULE EdgeProofs -----------------------------
(***************************************************************************)
(* For every number of requests, clients' lists, costs, lifetimes and      *)
(* TTLs: a bucket holds the rate in every window, and so does a client     *)
(* with all its buckets, what the upstream cache gives out outlives none   *)
(* of its records, and a cookie that is returned stays good.               *)
(***************************************************************************)
EXTENDS Edge, FiniteSetTheorems, NaturalsInduction, TLAPS

\* What makes BucketHolds inductive: a bucket is never fuller than the burst and one
\* request, and what was charged in the window is still in it but for the time between
\* the beginning of the window and the last request.
BucketOK(l) ==
    /\ l.size <= MaxTime + TimeStep
    /\ l.last <= now
    /\ l.last >= since => l.charged <= l.size + (l.last - since)
    /\ l.last < since => l.charged = 0

BucketsOK == \A b \in Buckets : BucketOK(bucket[b])

LimiterInv == LimiterTypeOK /\ BucketsOK

\* Naturals are closed under multiplication.
LEMMA MaxTimeNat == MaxTime \in Nat
BY LimiterAssumption DEF MaxTime

\* Draining never makes a bucket fuller, nor emptier than the time that has passed.
LEMMA DrainedBounds ==
    ASSUME LimiterTypeOK, NEW b \in Buckets, bucket[b].last <= now
    PROVE  /\ Drained(bucket[b]) \in Nat
           /\ Drained(bucket[b]) <= bucket[b].size
           /\ bucket[b].size <= Drained(bucket[b]) + (now - bucket[b].last)
<1>1. bucket[b].size \in Nat /\ bucket[b].last \in Nat /\ now \in Nat
  BY DEF LimiterTypeOK
<1> QED BY <1>1 DEF Drained

\* The limiter starts with empty buckets, whatever the time.
LEMMA LimiterInitInv == now \in Nat /\ LimiterInit => LimiterInv
<1> SUFFICES ASSUME now \in Nat, LimiterInit PROVE LimiterInv
  OBVIOUS
<1>1. LimiterTypeOK
  BY LimiterAssumption DEF LimiterInit, LimiterTypeOK
<1>2. BucketsOK
  BY MaxTimeNat, LimiterAssumption DEF LimiterInit, BucketsOK, BucketOK
<1> QED BY <1>1, <1>2 DEF LimiterInv

\* Steps that leave the buckets, the clock and the window alone.
LEMMA LookupInv ==
    ASSUME LimiterInv, NEW r \in Requests, now' = now,
           (\E listed : CheckLists(r, listed)) \/ FindBucket(r) \/ Leave(r)
    PROVE  LimiterInv'
<1>1. UNCHANGED <<limiters, bucket, since, spent>>
  BY DEF CheckLists, FindBucket, Leave
<1>2. check' \in [Requests -> [at : {"out", "get", "charge", "create", "accepted", "refused"}, bucket : Buckets \union {None}]]
  BY DEF CheckLists, FindBucket, Leave, LimiterInv, LimiterTypeOK
<1>3. \A q \in Requests : check'[q].at = "charge" => check'[q].bucket \in Buckets
  BY LimiterAssumption DEF CheckLists, FindBucket, Leave, LimiterInv, LimiterTypeOK
<1>4. LimiterTypeOK'
  BY <1>1, <1>2, <1>3 DEF LimiterInv, LimiterTypeOK
<1>5. BucketsOK'
  BY <1>1 DEF LimiterInv, BucketsOK, BucketOK, MaxTime
<1> QED BY <1>4, <1>5 DEF LimiterInv

\* The critical section.
LEMMA ChargeInv ==
    ASSUME LimiterInv, NEW r \in Requests, now' = now, Charge(r)
    PROVE  LimiterInv'
<1> DEFINE b == check[r].bucket
           size == Drained(bucket[b])
           full == size > MaxTime
<1>1. b \in Buckets
  BY DEF Charge, LimiterInv, LimiterTypeOK
<1>2. BucketOK(bucket[b])
  BY <1>1 DEF LimiterInv, BucketsOK
<1>3. /\ size \in Nat /\ size <= bucket[b].size
      /\ bucket[b].size <= size + (now - bucket[b].last)
  BY <1>1, <1>2, DrainedBounds DEF LimiterInv, BucketOK
<1>4. /\ bucket[b].size \in Nat /\ bucket[b].last \in Nat /\ bucket[b].charged \in Nat
      /\ now \in Nat /\ since \in 0..now /\ TimeStep \in Nat /\ MaxTime \in Nat
  BY <1>1, MaxTimeNat, LimiterAssumption DEF LimiterInv, LimiterTypeOK
<1> DEFINE new == [size |-> IF full THEN size ELSE size + TimeStep, last |-> now,
                   charged |-> IF full THEN bucket[b].charged ELSE bucket[b].charged + TimeStep]
<1>5. bucket' = [bucket EXCEPT ![b] = new]
  BY <1>1 DEF Charge, LimiterInv, LimiterTypeOK
<1>6. new \in [size : Nat, last : Nat, charged : Nat]
  BY <1>3, <1>4
<1>7. BucketOK(new)
  <2>1. new.size <= MaxTime + TimeStep
    BY <1>2, <1>3, <1>4 DEF BucketOK
  <2>2. bucket[b].charged <= size + (now - since)
    BY <1>2, <1>3, <1>4 DEF BucketOK
  <2>3. new.charged <= new.size + (now - since)
    BY <2>2, <1>3, <1>4
  <2> QED BY <2>1, <2>3, <1>4 DEF BucketOK
<1>8. UNCHANGED since /\ limiters' = [bucket |-> b, expires |-> now + Expiry]
      /\ spent' = (IF full THEN spent ELSE spent + TimeStep)
      /\ check' = [check EXCEPT ![r] = [at |-> IF full THEN "refused" ELSE "accepted", bucket |-> None]]
  BY DEF Charge
<1>9. LimiterTypeOK'
  <2>1. bucket' \in [Buckets -> [size : Nat, last : Nat, charged : Nat]]
    BY <1>1, <1>5, <1>6 DEF LimiterInv, LimiterTypeOK
  <2>2. limiters' \in [bucket : Buckets \union {None}, expires : Nat] /\ spent' \in Nat
    BY <1>1, <1>4, <1>8, LimiterAssumption DEF LimiterInv, LimiterTypeOK
  <2>3. check' \in [Requests -> [at : {"out", "get", "charge", "create", "accepted", "refused"}, bucket : Buckets \union {None}]]
    BY <1>8 DEF LimiterInv, LimiterTypeOK
  <2>4. \A q \in Requests : check'[q].at = "charge" => check'[q].bucket \in Buckets
    BY <1>8 DEF LimiterInv, LimiterTypeOK
  <2> QED BY <1>4, <1>8, <2>1, <2>2, <2>3, <2>4 DEF LimiterTypeOK
<1>10. BucketsOK'
  <2> SUFFICES ASSUME NEW a \in Buckets PROVE BucketOK(bucket[a])'
    BY DEF BucketsOK
  <2>1. CASE a = b
    BY <2>1, <1>1, <1>5, <1>7, <1>8 DEF BucketOK, LimiterInv, LimiterTypeOK, MaxTime
  <2>2. CASE a # b
    <3>1. bucket'[a] = bucket[a]
      BY <2>2, <1>5 DEF LimiterInv, LimiterTypeOK
    <3> QED BY <3>1, <1>8 DEF BucketOK, LimiterInv, BucketsOK, MaxTime
  <2> QED BY <2>1, <2>2
<1> QED BY <1>9, <1>10 DEF LimiterInv

\* A first request: the new bucket holds one request, charged in the window.
LEMMA CreateInv ==
    ASSUME LimiterInv, NEW r \in Requests, now' = now, Create(r)
    PROVE  LimiterInv'
<1>1. PICK b \in Buckets :
         /\ bucket' = [bucket EXCEPT ![b] = [size |-> TimeStep, last |-> now, charged |-> TimeStep]]
         /\ limiters' = [bucket |-> b, expires |-> now + Expiry]
  BY DEF Create
<1>2. /\ check' = [check EXCEPT ![r].at = "accepted"] /\ spent' = spent + TimeStep
      /\ UNCHANGED since
  BY DEF Create
<1>3. now \in Nat /\ since \in 0..now /\ TimeStep \in Nat /\ MaxTime \in Nat
  BY MaxTimeNat, LimiterAssumption DEF LimiterInv, LimiterTypeOK
<1>4. LimiterTypeOK'
  <2>1. bucket' \in [Buckets -> [size : Nat, last : Nat, charged : Nat]]
    BY <1>1, <1>3 DEF LimiterInv, LimiterTypeOK
  <2>2. limiters' \in [bucket : Buckets \union {None}, expires : Nat] /\ spent' \in Nat
    BY <1>1, <1>2, <1>3, LimiterAssumption DEF LimiterInv, LimiterTypeOK
  <2>3. check' \in [Requests -> [at : {"out", "get", "charge", "create", "accepted", "refused"}, bucket : Buckets \union {None}]]
    BY <1>2 DEF LimiterInv, LimiterTypeOK
  <2>4. \A q \in Requests : check'[q].at = "charge" => check'[q].bucket \in Buckets
    BY <1>2 DEF LimiterInv, LimiterTypeOK
  <2> QED BY <1>2, <1>3, <2>1, <2>2, <2>3, <2>4 DEF LimiterTypeOK
<1>5. BucketsOK'
  <2> SUFFICES ASSUME NEW a \in Buckets PROVE BucketOK(bucket[a])'
    BY DEF BucketsOK
  <2>1. CASE a = b
    <3>1. bucket'[a] = [size |-> TimeStep, last |-> now, charged |-> TimeStep]
      BY <2>1, <1>1 DEF LimiterInv, LimiterTypeOK
    <3> QED BY <3>1, <1>2, <1>3 DEF BucketOK, MaxTime
  <2>2. CASE a # b
    <3>1. bucket'[a] = bucket[a]
      BY <2>2, <1>1 DEF LimiterInv, LimiterTypeOK
    <3> QED BY <3>1, <1>2 DEF BucketOK, LimiterInv, BucketsOK, MaxTime
  <2> QED BY <2>1, <2>2
<1> QED BY <1>4, <1>5 DEF LimiterInv

\* A new window, and the passing of time.
LEMMA TimeInv ==
    ASSUME LimiterInv, (OpenWindow /\ UNCHANGED now) \/ (Tick /\ UNCHANGED limiterVars)
    PROVE  LimiterInv'
<1>1. CASE OpenWindow /\ UNCHANGED now
  <2>1. /\ since' = now /\ spent' = 0 /\ now' = now
        /\ UNCHANGED <<limiters, check>>
    BY <1>1 DEF OpenWindow
  <2>2. \A b \in Buckets : /\ bucket'[b].size = bucket[b].size /\ bucket'[b].last = bucket[b].last
                           /\ bucket'[b].charged = 0
    BY <1>1 DEF OpenWindow, LimiterInv, LimiterTypeOK
  <2>3. bucket' \in [Buckets -> [size : Nat, last : Nat, charged : Nat]]
    BY <1>1 DEF OpenWindow, LimiterInv, LimiterTypeOK
  <2>4. LimiterTypeOK'
    BY <2>1, <2>3 DEF LimiterInv, LimiterTypeOK
  <2>5. BucketsOK'
    <3> SUFFICES ASSUME NEW b \in Buckets PROVE BucketOK(bucket[b])'
      BY DEF BucketsOK
    <3>1. BucketOK(bucket[b]) /\ bucket[b].size \in Nat /\ bucket[b].last \in Nat /\ now \in Nat
      BY DEF LimiterInv, BucketsOK, LimiterTypeOK
    <3> QED BY <3>1, <2>1, <2>2 DEF BucketOK, MaxTime
  <2> QED BY <2>4, <2>5 DEF LimiterInv
<1>2. CASE Tick /\ UNCHANGED limiterVars
  <2>1. now' = now + 1 /\ now \in Nat /\ UNCHANGED <<limiters, bucket, check, since, spent>>
    BY <1>2 DEF Tick, limiterVars, LimiterInv, LimiterTypeOK
  <2>2. LimiterTypeOK'
    BY <2>1 DEF LimiterInv, LimiterTypeOK
  <2>3. BucketsOK'
    <3> SUFFICES ASSUME NEW b \in Buckets PROVE BucketOK(bucket[b])'
      BY DEF BucketsOK
    <3>1. BucketOK(bucket[b]) /\ bucket[b].last \in Nat
      BY DEF LimiterInv, BucketsOK, LimiterTypeOK
    <3> QED BY <3>1, <2>1 DEF BucketOK, MaxTime
  <2> QED BY <2>2, <2>3 DEF LimiterInv
<1> QED BY <1>1, <1>2

\* The inductive invariant of CanHandle.
THEOREM LimiterInvariant == LimiterSpec => []LimiterInv
<1>1. now = 0 /\ LimiterInit => LimiterInv
  BY LimiterInitInv
<1>2. LimiterInv /\ [LimiterNext]_<<now, limiterVars>> => LimiterInv'
  <2> SUFFICES ASSUME LimiterInv, [LimiterNext]_<<now, limiterVars>> PROVE LimiterInv'
    OBVIOUS
  <2>1. CASE \E r \in Requests : CanHandle(r) /\ UNCHANGED now
    BY <2>1, LookupInv, ChargeInv, CreateInv DEF CanHandle
  <2>2. CASE (OpenWindow /\ UNCHANGED now) \/ (Tick /\ UNCHANGED limiterVars)
    BY <2>2, TimeInv
  <2>3. CASE UNCHANGED <<now, limiterVars>>
    BY <2>3 DEF limiterVars, LimiterInv, LimiterTypeOK, BucketsOK, BucketOK, MaxTime
  <2> QED BY <2>1, <2>2, <2>3 DEF LimiterNext
<1> QED BY <1>1, <1>2, PTL DEF LimiterSpec

\* What was charged to a bucket in the window fits into it and the time since.
LEMMA BucketsHold == LimiterInv => BucketHolds
<1> SUFFICES ASSUME LimiterInv, NEW b \in Buckets
             PROVE  bucket[b].charged <= MaxTime + TimeStep + (now - since)
  BY DEF BucketHolds
<1>1. /\ BucketOK(bucket[b]) /\ bucket[b].size \in Nat /\ bucket[b].last \in Nat /\ bucket[b].charged \in Nat
      /\ now \in Nat /\ since \in 0..now /\ TimeStep \in Nat /\ MaxTime \in Nat
  BY MaxTimeNat, LimiterAssumption DEF LimiterInv, BucketsOK, LimiterTypeOK
<1> QED BY <1>1 DEF BucketOK

\* A bucket holds the rate in every window, for every cost, burst and expiry and any
\* number of requests at once: CanHandle's arithmetic and its lock are enough for it.
THEOREM LimiterHoldsRate == LimiterSpec => []BucketHolds
BY BucketsHold, LimiterInvariant, PTL

-----------------------------------------------------------------------------

\* A nonempty set of naturals has a least element.
LEMMA LeastNatural ==
    ASSUME NEW T \in SUBSET Nat, T # {}
    PROVE  \E m \in T : \A k \in T : m <= k
<1> DEFINE R == OpToRel(<, Nat)
<1>1. IsWellFoundedOn(R, Nat)
  BY NatLessThanWellFounded
<1>2. \A x, y \in Nat : y < x => <<y, x>> \in R
  BY DEF OpToRel
<1> HIDE DEF R
<1>3. PICK x \in T : \A y \in T : ~ (<<y, x>> \in R)
  BY <1>1, WFMin
<1>4. ASSUME NEW y \in T PROVE x <= y
  <2>1. x \in Nat /\ y \in Nat
    OBVIOUS
  <2>2. ~ (y < x)
    BY <1>2, <1>3, <2>1
  <2> QED BY <2>1, <2>2
<1> QED BY <1>4

RecordSets == [ttls : Seq(Nat), got : Nat]
Entries == [expires : Nat, records : RecordSets]
Replies ==
    [rcode : {"", "Success", "NameError", "ServerFailure"}, records : RecordSets, ttl : Nat, at : Nat, kept : BOOLEAN]

CallStates ==
    [at : {"out", "missed", "waiting", "answered"}, question : Questions \union {Silence}, reply : Replies]

\* The cache keeps records no longer than any of them may be kept.
CacheOK(q) ==
    cache[q] = Silence \/
      (cache[q] \in Entries /\ \A i \in DOMAIN cache[q].records.ttls : cache[q].expires <= Due(cache[q].records, i))

FreshReply(r) ==
    \A i \in DOMAIN r.records.ttls :
      /\ r.kept => r.at + r.ttl <= Due(r.records, i)
      /\ ~r.kept => r.at + r.ttl <= r.records.got + r.records.ttls[1]

\* What makes FreshReplies inductive: replies are made from the cache.
UpstreamInv ==
    /\ DOMAIN cache = Questions /\ \A q \in Questions : CacheOK(q)
    /\ query \in [Callers -> CallStates]
    /\ \A c \in Callers : FreshReply(query[c].reply)

\* The smallest TTL is that of a record and not above that of any.
LEMMA MinTtlLeast ==
    ASSUME NEW ttls \in Seq(Nat), ttls # <<>>
    PROVE  /\ MinTtl(ttls) \in Nat
           /\ \E i \in DOMAIN ttls : MinTtl(ttls) = ttls[i]
           /\ \A i \in DOMAIN ttls : MinTtl(ttls) <= ttls[i]
<1> DEFINE T == {ttls[i] : i \in DOMAIN ttls}
<1>1. T \in SUBSET Nat /\ T # {}
  <2>1. \A i \in DOMAIN ttls : ttls[i] \in Nat
    OBVIOUS
  <2>2. 1 \in DOMAIN ttls
    OBVIOUS
  <2> QED BY <2>1, <2>2
<1>2. \E m \in T : \A i \in DOMAIN ttls : m <= ttls[i]
  <2> HIDE DEF T
  <2>1. PICK m \in T : \A k \in T : m <= k
    BY <1>1, LeastNatural
  <2>2. \A i \in DOMAIN ttls : ttls[i] \in T
    BY DEF T
  <2> QED BY <2>1, <2>2
<1>3. MinTtl(ttls) \in T /\ \A i \in DOMAIN ttls : MinTtl(ttls) <= ttls[i]
  BY <1>2 DEF MinTtl
<1> QED BY <1>1, <1>3

\* What is kept for the smallest TTL is gone when any record is due.
LEMMA KeptUntilDue ==
    ASSUME NEW ttls \in Seq(Nat), ttls # <<>>, NEW t \in Nat, NEW i \in DOMAIN ttls
    PROVE  /\ Kept(MinTtl(ttls)) \in Nat
           /\ t + Kept(MinTtl(ttls)) <= Due([ttls |-> ttls, got |-> t], i)
<1>1. /\ MinTtl(ttls) \in Nat /\ MinTtl(ttls) <= ttls[i]
      /\ \E k \in DOMAIN ttls : MinTtl(ttls) = ttls[k]
      /\ \A k \in DOMAIN ttls : MinTtl(ttls) <= ttls[k]
  BY MinTtlLeast
<1>2. \A k \in DOMAIN ttls : ttls[k] \in Nat
  OBVIOUS
<1>3. (\E k \in DOMAIN ttls : ttls[k] = 0) <=> MinTtl(ttls) = 0
  BY <1>1, <1>2
<1>4. Due([ttls |-> ttls, got |-> t], i) = t + IF MinTtl(ttls) = 0 THEN DefaultTtl ELSE ttls[i]
  BY <1>3 DEF Due
<1>5. DefaultTtl \in Nat
  BY UpstreamAssumption
<1> QED BY <1>1, <1>2, <1>4, <1>5 DEF Kept

\* No records.
LEMMA NoRecordsOK == NoRecords \in RecordSets /\ DOMAIN NoRecords.ttls = {}
<1>1. <<>> \in Seq(Nat) /\ DOMAIN <<>> = {}
  OBVIOUS
<1> QED BY <1>1 DEF NoRecords, RecordSets

\* The reply before there is one.
LEMMA NoReplyFresh == NoReply \in Replies /\ FreshReply(NoReply)
BY NoRecordsOK DEF NoReply, Replies, FreshReply

\* Nothing is cached and nobody asks.
LEMMA UpstreamInitInv == UpstreamInit => UpstreamInv
<1> SUFFICES ASSUME UpstreamInit PROVE UpstreamInv
  OBVIOUS
<1>1. [at |-> "out", question |-> Silence, reply |-> NoReply] \in CallStates
  BY NoReplyFresh DEF CallStates
<1>2. query \in [Callers -> CallStates]
  BY <1>1 DEF UpstreamInit
<1>3. \A c \in Callers : FreshReply(query[c].reply)
  BY NoReplyFresh DEF UpstreamInit
<1>4. DOMAIN cache = Questions /\ \A q \in Questions : CacheOK(q)
  BY DEF UpstreamInit, CacheOK
<1> QED BY <1>2, <1>3, <1>4 DEF UpstreamInv

\* One caller's state changes to one with a fresh reply.
LEMMA CallerUpdate ==
    ASSUME UpstreamInv, cache' = cache, NEW c \in Callers, NEW new \in CallStates,
           FreshReply(new.reply), query' = [query EXCEPT ![c] = new]
    PROVE  UpstreamInv'
<1>1. query' \in [Callers -> CallStates]
  BY DEF UpstreamInv
<1>2. ASSUME NEW d \in Callers PROVE FreshReply(query'[d].reply)
  BY DEF UpstreamInv
<1>3. DOMAIN cache' = Questions /\ \A q \in Questions : CacheOK(q)'
  BY DEF UpstreamInv, CacheOK
<1>4. \A d \in Callers : FreshReply(query[d].reply)'
  BY <1>2 DEF FreshReply
<1> QED BY <1>1, <1>3, <1>4 DEF UpstreamInv

\* Query: the cache is looked at and what it has goes out, also to those who hold it.
LEMMA HitInv ==
    ASSUME UpstreamInv, now \in Nat, NEW c \in Callers, NEW q \in Questions, Hit(c, q)
    PROVE  UpstreamInv'
<1> DEFINE left == [rcode |-> "Success", records |-> cache[q].records, ttl |-> cache[q].expires - now,
                    at |-> now, kept |-> TRUE]
           new == [at |-> "answered", question |-> q, reply |-> left]
<1>1. /\ cache[q] \in Entries /\ now <= cache[q].expires
      /\ \A i \in DOMAIN cache[q].records.ttls : cache[q].expires <= Due(cache[q].records, i)
  BY DEF Hit, Cached, UpstreamInv, CacheOK
<1>2. cache[q].expires \in Nat /\ cache[q].records \in RecordSets
  BY <1>1 DEF Entries
<1>3. cache[q].expires - now \in Nat /\ now + (cache[q].expires - now) = cache[q].expires
  BY <1>1, <1>2
<1>4. left \in Replies
  BY <1>2, <1>3 DEF Replies
<1>5. FreshReply(left)
  BY <1>1, <1>3 DEF FreshReply
<1>6. cache' = cache /\ query' = [d \in Callers |-> IF d = c \/ Holds(d, q) THEN new ELSE query[d]]
  BY DEF Hit
<1> HIDE DEF left
<1>7. new \in CallStates /\ new.reply = left
  BY <1>4 DEF CallStates
<1> HIDE DEF new
<1>8. ASSUME NEW d \in Callers PROVE query'[d] \in CallStates /\ FreshReply(query'[d].reply)
  <2>1. query[d] \in CallStates /\ FreshReply(query[d].reply)
    BY DEF UpstreamInv
  <2>2. query'[d] = new \/ query'[d] = query[d]
    BY <1>6
  <2> QED BY <1>5, <1>7, <2>1, <2>2
<1>9. query' = [d \in Callers |-> query'[d]]
  BY <1>6
<1>10. query' \in [Callers -> CallStates]
  BY <1>8, <1>9
<1>11. \A d \in Callers : FreshReply(query[d].reply)'
  BY <1>8 DEF FreshReply, Due
<1>12. DOMAIN cache' = Questions /\ \A p \in Questions : CacheOK(p)'
  BY <1>6 DEF UpstreamInv, CacheOK, Due
<1> QED BY <1>10, <1>11, <1>12 DEF UpstreamInv

\* Query: a miss, the joining of a call, and the end.
LEMMA CallerInv ==
    ASSUME UpstreamInv, NEW c \in Callers, (\E q \in Questions : Miss(c, q)) \/ Share(c) \/ Take(c)
    PROVE  UpstreamInv'
<1>1. cache' = cache /\ query[c] \in CallStates /\ FreshReply(query[c].reply)
  BY DEF Miss, Share, Take, UpstreamInv
<1>2. ASSUME NEW q \in Questions, Miss(c, q) PROVE UpstreamInv'
  <2> DEFINE new == [query[c] EXCEPT !.at = "missed", !.question = q]
  <2>1. new \in CallStates /\ new.reply = query[c].reply
    BY <1>1 DEF CallStates
  <2>2. query' = [query EXCEPT ![c] = new]
    BY <1>2 DEF Miss, UpstreamInv
  <2> HIDE DEF new
  <2> QED BY <1>1, <2>1, <2>2, CallerUpdate
<1>3. CASE Share(c)
  <2> DEFINE new == [query[c] EXCEPT !.at = "waiting"]
  <2>1. new \in CallStates /\ new.reply = query[c].reply
    BY <1>1 DEF CallStates
  <2>2. query' = [query EXCEPT ![c] = new]
    BY <1>3 DEF Share, UpstreamInv
  <2> HIDE DEF new
  <2> QED BY <1>1, <2>1, <2>2, CallerUpdate
<1>4. CASE Take(c)
  <2> DEFINE new == [at |-> "out", question |-> Silence, reply |-> NoReply]
  <2>1. new \in CallStates /\ new.reply = NoReply
    BY NoReplyFresh DEF CallStates
  <2>2. query' = [query EXCEPT ![c] = new]
    BY <1>4 DEF Take
  <2> HIDE DEF new
  <2> QED BY <1>1, <2>1, <2>2, CallerUpdate, NoReplyFresh
<1> QED BY <1>2, <1>3, <1>4

\* A call returns a fresh reply to those who wait.
LEMMA ReturnInv ==
    ASSUME UpstreamInv, NEW q \in Questions, NEW new \in Replies, FreshReply(new), Return(q, new)
    PROVE  query' \in [Callers -> CallStates] /\ \A c \in Callers : FreshReply(query[c].reply)'
<1>1. ASSUME NEW c \in Callers PROVE query'[c] \in CallStates /\ FreshReply(query'[c].reply)
  <2>1. query[c] \in CallStates /\ FreshReply(query[c].reply)
    BY DEF UpstreamInv
  <2> DEFINE told == [query[c] EXCEPT !.at = "answered", !.reply = new]
  <2>2. told \in CallStates /\ told.reply = new
    BY <2>1 DEF CallStates
  <2>3. query'[c] = told \/ query'[c] = query[c]
    BY DEF Return
  <2> HIDE DEF told
  <2> QED BY <2>1, <2>2, <2>3
<1>2. DOMAIN query' = Callers
  BY DEF Return
<1>3. query' = [c \in Callers |-> query'[c]]
  BY <1>2 DEF Return
<1> QED BY <1>1, <1>3 DEF FreshReply

\* The exchanges of a call.
LEMMA ExchangeInv ==
    ASSUME UpstreamInv, now \in Nat, NEW q \in Questions, Exchange(q)
    PROVE  UpstreamInv'
<1>1. ASSUME NEW rcode \in {"Success", "NameError", "ServerFailure"}, cache' = cache,
             Return(q, [NoReply EXCEPT !.rcode = rcode, !.at = now])
      PROVE  UpstreamInv'
  <2> DEFINE new == [NoReply EXCEPT !.rcode = rcode, !.at = now]
  <2>1. rcode \in {"", "Success", "NameError", "ServerFailure"} /\ 0 \in Nat
    OBVIOUS
  <2>2. new \in Replies
    BY <2>1, NoReplyFresh DEF Replies
  <2>3. new.records = NoRecords
    BY DEF NoReply
  <2>4. FreshReply(new)
    BY <2>3, NoRecordsOK DEF FreshReply
  <2>5. Return(q, new)
    BY <1>1
  <2> HIDE DEF new
  <2>6. query' \in [Callers -> CallStates] /\ \A c \in Callers : FreshReply(query[c].reply)'
    BY <2>2, <2>4, <2>5, ReturnInv
  <2> QED BY <1>1, <2>6 DEF UpstreamInv, CacheOK
<1>2. CASE ExchangeFails(q)
  BY <1>2 DEF ExchangeFails, UpstreamInv, CacheOK, FreshReply
<1>3. CASE ExchangeEmpty(q)
  BY <1>1, <1>3 DEF ExchangeEmpty
<1>4. CASE AllFail(q)
  BY <1>1, <1>4 DEF AllFail
<1>5. CASE ExchangeAnswers(q)
  <2>1. PICK ttls \in Answers :
          /\ cache' = [cache EXCEPT ![q] = [expires |-> now + Kept(MinTtl(ttls)),
                                            records |-> [ttls |-> ttls, got |-> now]]]
          /\ Return(q, [rcode |-> "Success", records |-> [ttls |-> ttls, got |-> now], ttl |-> ttls[1],
                        at |-> now, kept |-> FALSE])
    BY <1>5 DEF ExchangeAnswers
  <2> DEFINE records == [ttls |-> ttls, got |-> now]
             new == [rcode |-> "Success", records |-> records, ttl |-> ttls[1], at |-> now, kept |-> FALSE]
             kept == [expires |-> now + Kept(MinTtl(ttls)), records |-> records]
  <2>2. ttls \in Seq(Nat) /\ ttls # <<>>
    BY UpstreamAssumption
  <2>3. new \in Replies /\ FreshReply(new)
    <3>1. 1 \in DOMAIN ttls /\ ttls[1] \in Nat
      BY <2>2
    <3>2. records \in RecordSets
      BY <2>2 DEF RecordSets
    <3>3. new \in Replies
      BY <3>1, <3>2 DEF Replies
    <3> QED BY <3>1, <3>3 DEF FreshReply
  <2>4. kept \in Entries /\ \A i \in DOMAIN kept.records.ttls : kept.expires <= Due(kept.records, i)
    <3>1. \A i \in DOMAIN ttls : Kept(MinTtl(ttls)) \in Nat /\ now + Kept(MinTtl(ttls)) <= Due(records, i)
      BY <2>2, KeptUntilDue
    <3>2. 1 \in DOMAIN ttls
      BY <2>2
    <3>3. records \in RecordSets /\ records.ttls = ttls
      BY <2>2 DEF RecordSets
    <3> HIDE DEF records
    <3> QED BY <3>1, <3>2, <3>3 DEF Entries
  <2>5. Return(q, new) /\ cache' = [cache EXCEPT ![q] = kept]
    BY <2>1
  <2> HIDE DEF new, kept
  <2>6. query' \in [Callers -> CallStates] /\ \A c \in Callers : FreshReply(query[c].reply)'
    BY <2>3, <2>5, ReturnInv
  <2>7. DOMAIN cache' = Questions
    BY <2>5 DEF UpstreamInv
  <2>8. ASSUME NEW p \in Questions PROVE CacheOK(p)'
    <3>1. CASE p = q
      BY <2>4, <2>5, <3>1 DEF CacheOK, UpstreamInv
    <3>2. CASE p # q
      BY <2>5, <3>2 DEF CacheOK, UpstreamInv
    <3> QED BY <3>1, <3>2
  <2> QED BY <2>6, <2>7, <2>8 DEF UpstreamInv
<1> QED BY <1>2, <1>3, <1>4, <1>5 DEF Exchange

-----------------------------------------------------------------------------

CookieRecords == [kind : {"none", "server", "client", "foreign", "malformed"}, made : Nat, answered : Nat]
ResponseRecords == [res : {"", "Refused", "BadCookie", "Success", "ServerFailure"}, made : Nat, at : Nat]

\* A server cookie was last confirmed before its renewal was due.
CookieOK(c) ==
    c.kind = "server" => c.made <= c.answered /\ c.answered <= now /\ c.answered <= c.made + Renewal

ResponseOK(m) == m.made # 0 => m.made <= m.at /\ m.at <= now /\ m.at <= m.made + Renewal

\* CookieStaysGood for the response m to a request with the cookie c.
StaysGood(m, c) == m.res = "BadCookie" /\ c.kind = "server" => m.at > c.answered + (Lifetime - Renewal)

\* What makes CookieStaysGood inductive: wherever a cookie is, with the client, in a
\* request or in a response, it is no older than the renewal age was when it was given out.
CookieInv ==
    /\ stage \in [Requests -> {"idle", "limit", "cookie", "upstream", "reply"}]
    /\ jar \in CookieRecords /\ CookieOK(jar)
    /\ sent \in [Requests -> CookieRecords] /\ \A r \in Requests : CookieOK(sent[r])
    /\ reply \in [Requests -> ResponseRecords] /\ \A r \in Requests : ResponseOK(reply[r])
    /\ \A r \in Requests : stage[r] = "reply" => StaysGood(reply[r], sent[r])

\* Nobody has a cookie and nothing is under way.
LEMMA CookieInitInv == EdgeInit => CookieInv
<1> SUFFICES ASSUME EdgeInit PROVE CookieInv
  OBVIOUS
<1>1. NoCookie \in CookieRecords /\ CookieOK(NoCookie)
  BY DEF NoCookie, CookieRecords, CookieOK
<1>2. NoResponse \in ResponseRecords /\ ResponseOK(NoResponse)
  BY DEF NoResponse, ResponseRecords, ResponseOK
<1>3. sent \in [Requests -> CookieRecords] /\ \A r \in Requests : CookieOK(sent[r])
  BY <1>1 DEF EdgeInit
<1>4. reply \in [Requests -> ResponseRecords] /\ \A r \in Requests : ResponseOK(reply[r])
  BY <1>2 DEF EdgeInit
<1>5. stage \in [Requests -> {"idle", "limit", "cookie", "upstream", "reply"}] /\ \A r \in Requests : stage[r] # "reply"
  BY DEF EdgeInit
<1>6. jar = NoCookie
  BY DEF EdgeInit
<1> QED BY <1>1, <1>3, <1>4, <1>5, <1>6 DEF CookieInv

\* The step of one request: what it sends and what it is told are in order.
LEMMA RequestUpdate ==
    ASSUME CookieInv, now' = now, NEW r \in Requests,
           NEW s \in {"idle", "limit", "cookie", "upstream", "reply"},
           NEW c \in CookieRecords, CookieOK(c), NEW m \in ResponseRecords, ResponseOK(m),
           NEW j \in CookieRecords, CookieOK(j), s = "reply" => StaysGood(m, c),
           stage' = [stage EXCEPT ![r] = s], sent' = [sent EXCEPT ![r] = c],
           reply' = [reply EXCEPT ![r] = m], jar' = j
    PROVE  CookieInv'
<1>1. stage' \in [Requests -> {"idle", "limit", "cookie", "upstream", "reply"}]
  BY DEF CookieInv
<1>2. sent' \in [Requests -> CookieRecords] /\ reply' \in [Requests -> ResponseRecords]
  BY DEF CookieInv
<1>3. \A q \in Requests : CookieOK(sent[q])'
  BY DEF CookieInv, CookieOK
<1>4. \A q \in Requests : ResponseOK(reply[q])'
  BY DEF CookieInv, ResponseOK
<1>5. jar' \in CookieRecords /\ CookieOK(jar)'
  BY DEF CookieOK
<1>6. ASSUME NEW q \in Requests, stage'[q] = "reply" PROVE StaysGood(reply'[q], sent'[q])
  <2>1. CASE q = r
    <3>1. stage'[q] = s /\ reply'[q] = m /\ sent'[q] = c
      BY <2>1 DEF CookieInv
    <3> QED BY <1>6, <3>1
  <2>2. CASE q # r
    <3>1. stage'[q] = stage[q] /\ reply'[q] = reply[q] /\ sent'[q] = sent[q]
      BY <2>2 DEF CookieInv
    <3> QED BY <1>6, <3>1 DEF CookieInv
  <2> QED BY <2>1, <2>2
<1>7. \A q \in Requests : stage'[q] = "reply" => StaysGood(reply[q], sent[q])'
  BY <1>6 DEF StaysGood
<1> QED BY <1>1, <1>2, <1>3, <1>4, <1>5, <1>7 DEF CookieInv

\* The cookie a request carries and the response it has, and that both stay.
LEMMA RequestState ==
    ASSUME CookieInv, NEW r \in Requests
    PROVE  /\ stage[r] \in {"idle", "limit", "cookie", "upstream", "reply"} /\ stage = [stage EXCEPT ![r] = stage[r]]
           /\ sent[r] \in CookieRecords /\ CookieOK(sent[r]) /\ sent = [sent EXCEPT ![r] = sent[r]]
           /\ reply[r] \in ResponseRecords /\ ResponseOK(reply[r]) /\ reply = [reply EXCEPT ![r] = reply[r]]
           /\ jar \in CookieRecords /\ CookieOK(jar)
BY DEF CookieInv

\* A request comes in with the client's cookie or with an odd one.
LEMMA ArriveInv ==
    ASSUME CookieInv, NEW r \in Requests, Arrive(r)
    PROVE  CookieInv'
<1>1. PICK c \in {jar} \union {[NoCookie EXCEPT !.kind = kind] : kind \in IF setup.cookies THEN CookieKinds ELSE {}} :
         sent' = [sent EXCEPT ![r] = c]
  BY DEF Arrive
<1>2. c \in CookieRecords /\ CookieOK(c)
  <2>1. CASE c = jar
    BY <2>1 DEF CookieInv
  <2>2. CASE c # jar
    <3>1. PICK kind \in CookieKinds : c = [NoCookie EXCEPT !.kind = kind]
      BY <1>1, <2>2
    <3>2. kind \in {"client", "foreign", "malformed"}
      BY EdgeAssumption
    <3>3. c = [kind |-> kind, made |-> 0, answered |-> 0]
      BY <3>1 DEF NoCookie
    <3> QED BY <3>2, <3>3 DEF CookieRecords, CookieOK
  <2> QED BY <2>1, <2>2
<1>3. stage' = [stage EXCEPT ![r] = "limit"] /\ reply' = [reply EXCEPT ![r] = reply[r]] /\ jar' = jar /\ now' = now
  BY RequestState DEF Arrive
<1> QED BY <1>1, <1>2, <1>3, RequestState, RequestUpdate

\* CanHandle refuses the request or lets it pass.
LEMMA LimitedInv ==
    ASSUME CookieInv, NEW r \in Requests, Limited(r)
    PROVE  CookieInv'
<1>1. sent' = [sent EXCEPT ![r] = sent[r]] /\ jar' = jar /\ now' = now
  BY RequestState DEF Limited
<1>2. CASE Reply(r, "Refused", 0)
  <2> DEFINE m == Response("Refused", 0)
  <2>1. m = [res |-> "Refused", made |-> 0, at |-> 0]
    BY DEF Response
  <2>2. reply' = [reply EXCEPT ![r] = m] /\ stage' = [stage EXCEPT ![r] = "reply"]
    BY <1>2 DEF Reply
  <2> HIDE DEF m
  <2>3. m \in ResponseRecords
    BY <2>1 DEF ResponseRecords
  <2>4. m.made = 0 /\ m.res = "Refused"
    BY <2>1
  <2>5. ResponseOK(m) /\ StaysGood(m, sent[r])
    BY <2>4 DEF ResponseOK, StaysGood
  <2> QED BY <1>1, <2>2, <2>3, <2>5, RequestState, RequestUpdate
<1>3. CASE stage' = [stage EXCEPT ![r] = "cookie"] /\ UNCHANGED reply
  <2>1. reply' = [reply EXCEPT ![r] = reply[r]] /\ stage' = [stage EXCEPT ![r] = "cookie"]
    BY <1>3, RequestState
  <2> QED BY <1>1, <2>1, RequestState, RequestUpdate
<1> QED BY <1>2, <1>3 DEF Limited

\* The switch on the cookie: a good one is confirmed or renewed, and a request that
\* is turned away carried one that is too old.
LEMMA CheckRequestCookieInv ==
    ASSUME CookieInv, now \in Nat, NEW r \in Requests, CheckRequestCookie(r)
    PROVE  CookieInv'
<1>1. sent' = [sent EXCEPT ![r] = sent[r]] /\ jar' = jar /\ now' = now
  BY RequestState DEF CheckRequestCookie
<1>2. /\ sent[r].made \in Nat /\ sent[r].answered \in Nat /\ CookieOK(sent[r])
      /\ Lifetime \in Nat /\ Renewal \in Nat /\ Renewal <= Lifetime /\ Ahead \in Nat
  BY RequestState, CookieAssumption DEF CookieRecords
<1>3. CASE sent[r].kind \in {"none", "malformed"} \/ GoodCookie(r)
  <2> DEFINE made == IF GoodCookie(r) THEN CopyCookie(sent[r].made) ELSE 0
             at == IF made = 0 THEN 0 ELSE now
             m == Response("", made)
  <2>1. made \in Nat /\ (made # 0 => made <= now /\ now <= made + Renewal)
    <3>1. CASE GoodCookie(r)
      <4>1. sent[r].made <= now
        BY <3>1, <1>2 DEF GoodCookie, CookieOK
      <4>2. made = CopyCookie(sent[r].made)
        BY <3>1
      <4> QED BY <1>2, <4>1, <4>2 DEF CopyCookie, SetNewCookie
    <3>2. CASE ~GoodCookie(r)
      BY <3>2
    <3> QED BY <3>1, <3>2
  <2>2. m = [res |-> "", made |-> made, at |-> at]
    BY DEF Response
  <2>3. reply' = [reply EXCEPT ![r] = m] /\ stage' = [stage EXCEPT ![r] = "upstream"]
    BY <1>3 DEF CheckRequestCookie
  <2> HIDE DEF made, m
  <2>4. m \in ResponseRecords
    BY <2>1, <2>2 DEF ResponseRecords
  <2>5. m.made = made /\ (made # 0 => m.at = now)
    BY <2>2
  <2> HIDE DEF at
  <2>6. ResponseOK(m)
    BY <2>1, <2>5 DEF ResponseOK
  <2> QED BY <1>1, <2>3, <2>4, <2>6, RequestState, RequestUpdate
<1>4. CASE ~(sent[r].kind \in {"none", "malformed"} \/ GoodCookie(r))
  <2> DEFINE at == IF now = 0 THEN 0 ELSE now
             m == Response("BadCookie", now)
  <2>1. m = [res |-> "BadCookie", made |-> now, at |-> now]
    BY DEF Response
  <2>2. reply' = [reply EXCEPT ![r] = m] /\ stage' = [stage EXCEPT ![r] = "reply"]
    BY <1>4 DEF CheckRequestCookie, Reply, SetNewCookie
  <2>3. sent[r].kind = "server" => now > sent[r].answered + (Lifetime - Renewal)
    BY <1>2, <1>4 DEF GoodCookie, CheckCookie, CookieOK
  <2> HIDE DEF m
  <2>4. m \in ResponseRecords
    BY <2>1 DEF ResponseRecords
  <2>5. ResponseOK(m) /\ StaysGood(m, sent[r])
    BY <2>1, <2>3, <1>2 DEF ResponseOK, StaysGood
  <2> QED BY <1>1, <2>2, <2>4, <2>5, RequestState, RequestUpdate
<1> QED BY <1>3, <1>4

\* The answer is put into the response, whose cookie stays.
LEMMA AnswerInv ==
    ASSUME CookieInv, NEW r \in Requests, NEW res \in {"Success", "ServerFailure"},
           reply' = [reply EXCEPT ![r] = [reply[r] EXCEPT !.res = res]], stage' = [stage EXCEPT ![r] = "reply"],
           sent' = [sent EXCEPT ![r] = sent[r]], jar' = jar, now' = now
    PROVE  CookieInv'
<1> DEFINE m == [reply[r] EXCEPT !.res = res]
<1>1. reply[r] \in ResponseRecords /\ ResponseOK(reply[r])
  BY RequestState
<1>2. m \in ResponseRecords /\ m.made = reply[r].made /\ m.at = reply[r].at /\ m.res = res
  BY <1>1 DEF ResponseRecords
<1>3. reply' = [reply EXCEPT ![r] = m]
  OBVIOUS
<1> HIDE DEF m
<1>4. ResponseOK(m) /\ StaysGood(m, sent[r])
  BY <1>1, <1>2 DEF ResponseOK, StaysGood
<1> QED BY <1>2, <1>3, <1>4, RequestState, RequestUpdate

\* The client gets the response and its cookie, or not.
LEMMA DeliverInv ==
    ASSUME CookieInv, NEW r \in Requests, Deliver(r)
    PROVE  CookieInv'
<1>1. /\ stage' = [stage EXCEPT ![r] = "idle"] /\ now' = now
      /\ sent' = [sent EXCEPT ![r] = NoCookie] /\ reply' = [reply EXCEPT ![r] = NoResponse]
  BY DEF Deliver
<1>2. NoCookie \in CookieRecords /\ CookieOK(NoCookie)
  BY DEF NoCookie, CookieRecords, CookieOK
<1>3. NoResponse \in ResponseRecords /\ ResponseOK(NoResponse)
  BY DEF NoResponse, ResponseRecords, ResponseOK
<1>4. jar' \in CookieRecords /\ CookieOK(jar')
  <2>1. CASE jar' = jar
    BY <2>1, RequestState
  <2>2. CASE jar' # jar
    <3>1. reply[r].made # 0 /\ jar' = [kind |-> "server", made |-> reply[r].made, answered |-> reply[r].at]
      BY <2>2 DEF Deliver
    <3>2. ResponseOK(reply[r]) /\ reply[r].made \in Nat /\ reply[r].at \in Nat
      BY RequestState DEF ResponseRecords
    <3>3. jar' \in CookieRecords
      BY <3>1, <3>2 DEF CookieRecords
    <3> QED BY <3>1, <3>2, <3>3 DEF CookieOK, ResponseOK
  <2> QED BY <2>1, <2>2
<1> QED BY <1>1, <1>2, <1>3, <1>4, RequestUpdate

\* Time passes, or others make a step.
LEMMA CookieTimeInv ==
    ASSUME CookieInv, now \in Nat, now' = now \/ now' = now + 1, UNCHANGED edgeVars
    PROVE  CookieInv'
<1>1. stage' = stage /\ sent' = sent /\ reply' = reply /\ jar' = jar
  BY DEF edgeVars
<1>2. ASSUME NEW c \in CookieRecords, CookieOK(c) PROVE CookieOK(c)'
  BY <1>2 DEF CookieOK, CookieRecords
<1>3. ASSUME NEW m \in ResponseRecords, ResponseOK(m) PROVE ResponseOK(m)'
  <2>1. m.at \in Nat
    BY DEF ResponseRecords
  <2>2. m.at <= now => m.at <= now'
    BY <2>1
  <2> QED BY <1>3, <2>2 DEF ResponseOK
<1>4. \A r \in Requests : CookieOK(sent[r])'
  BY <1>1, <1>2 DEF CookieInv, CookieOK
<1>5. \A r \in Requests : ResponseOK(reply[r])'
  BY <1>1, <1>3 DEF CookieInv, ResponseOK
<1>6. CookieOK(jar)'
  BY <1>1, <1>2 DEF CookieInv, CookieOK
<1>7. \A r \in Requests : stage'[r] = "reply" => StaysGood(reply[r], sent[r])'
  BY <1>1 DEF CookieInv, StaysGood
<1> QED BY <1>1, <1>4, <1>5, <1>6, <1>7 DEF CookieInv

-----------------------------------------------------------------------------

EdgeInv == LimiterInv /\ UpstreamInv /\ CookieInv

\* The whole path begins with nothing under way.
LEMMA EdgeInitInv == EdgeInit => EdgeInv
<1>1. EdgeInit => now \in Nat /\ LimiterInit /\ UpstreamInit
  BY DEF EdgeInit
<1> QED BY <1>1, LimiterInitInv, UpstreamInitInv, CookieInitInv DEF EdgeInv

\* The parts of the state that a step leaves alone keep their invariants.
LEMMA Untouched ==
    ASSUME EdgeInv, now' = now
    PROVE  /\ UNCHANGED limiterVars => LimiterInv'
           /\ UNCHANGED <<cache, query>> => UpstreamInv'
           /\ UNCHANGED edgeVars => CookieInv'
<1>1. now \in Nat
  BY DEF EdgeInv, LimiterInv, LimiterTypeOK
<1>2. ASSUME UNCHANGED limiterVars PROVE LimiterInv'
  BY <1>2 DEF EdgeInv, limiterVars, LimiterInv, LimiterTypeOK, BucketsOK, BucketOK, MaxTime
<1>3. ASSUME UNCHANGED <<cache, query>> PROVE UpstreamInv'
  BY <1>3 DEF EdgeInv, UpstreamInv, CacheOK, FreshReply
<1>4. ASSUME UNCHANGED edgeVars PROVE CookieInv'
  BY <1>1, <1>4, CookieTimeInv DEF EdgeInv
<1> QED BY <1>2, <1>3, <1>4

\* The steps of a request.
LEMMA RequestInv ==
    ASSUME EdgeInv, NEW r \in Requests, Arrive(r) \/ Handle(r)
    PROVE  EdgeInv'
<1>1. LimiterInv /\ UpstreamInv /\ CookieInv /\ now \in Nat /\ r \in Callers
  BY EdgeAssumption DEF EdgeInv, LimiterInv, LimiterTypeOK
<1>2. now' = now
  BY DEF Arrive, Handle, Limit, Limited, CheckRequestCookie, Resolve, AskUpstream, TakeUpstream, Deliver
<1>3. CASE Arrive(r)
  <2>1. LimiterInv'
    <3>1. \E listed : CheckLists(r, listed)
      BY <1>3 DEF Arrive
    <3> QED BY <1>1, <1>2, <3>1, LookupInv
  <2>2. UpstreamInv'
    BY <1>2, <1>3, Untouched DEF Arrive, upstreamVars
  <2> QED BY <1>1, <1>3, <2>1, <2>2, ArriveInv DEF EdgeInv
<1>4. CASE Limit(r)
  <2>1. LimiterInv'
    BY <1>1, <1>2, <1>4, LookupInv, ChargeInv, CreateInv DEF Limit
  <2>2. UpstreamInv' /\ CookieInv'
    BY <1>2, <1>4, Untouched DEF Limit, upstreamVars
  <2> QED BY <2>1, <2>2 DEF EdgeInv
<1>5. CASE Limited(r)
  <2>1. LimiterInv'
    BY <1>1, <1>2, <1>5, LookupInv DEF Limited
  <2>2. UpstreamInv'
    BY <1>2, <1>5, Untouched DEF Limited, upstreamVars
  <2> QED BY <1>1, <1>5, <2>1, <2>2, LimitedInv DEF EdgeInv
<1>6. CASE CheckRequestCookie(r)
  <2>1. LimiterInv' /\ UpstreamInv'
    BY <1>2, <1>6, Untouched DEF CheckRequestCookie, upstreamVars
  <2> QED BY <1>1, <1>6, <2>1, CheckRequestCookieInv DEF EdgeInv
<1>7. CASE Resolve(r)
  <2>1. LimiterInv' /\ UpstreamInv'
    BY <1>2, <1>7, Untouched DEF Resolve, upstreamVars
  <2>2. reply' = [reply EXCEPT ![r] = [reply[r] EXCEPT !.res = "Success"]]
    BY <1>1, <1>7 DEF Resolve, CookieInv
  <2>3. sent' = [sent EXCEPT ![r] = sent[r]]
    BY <1>1, <1>7, RequestState DEF Resolve
  <2>4. stage' = [stage EXCEPT ![r] = "reply"] /\ jar' = jar
    BY <1>7 DEF Resolve
  <2>5. CookieInv'
    BY <1>1, <1>2, <2>2, <2>3, <2>4, AnswerInv
  <2> QED BY <2>1, <2>5 DEF EdgeInv
<1>8. CASE AskUpstream(r)
  <2>1. LimiterInv' /\ CookieInv'
    BY <1>2, <1>8, Untouched DEF AskUpstream
  <2>2. UpstreamInv'
    BY <1>1, <1>8, HitInv, CallerInv DEF AskUpstream
  <2> QED BY <2>1, <2>2 DEF EdgeInv
<1>9. CASE TakeUpstream(r)
  <2>1. LimiterInv'
    BY <1>2, <1>9, Untouched DEF TakeUpstream
  <2>2. UpstreamInv'
    BY <1>1, <1>9, CallerInv DEF TakeUpstream
  <2> DEFINE res == IF query[r].reply.rcode = "Success" THEN "Success" ELSE "ServerFailure"
  <2>3. reply' = [reply EXCEPT ![r] = [reply[r] EXCEPT !.res = res]]
    BY <1>1, <1>9 DEF TakeUpstream, CookieInv
  <2>4. sent' = [sent EXCEPT ![r] = sent[r]]
    BY <1>1, <1>9, RequestState DEF TakeUpstream
  <2>5. stage' = [stage EXCEPT ![r] = "reply"] /\ jar' = jar /\ res \in {"Success", "ServerFailure"}
    BY <1>9 DEF TakeUpstream
  <2> HIDE DEF res
  <2>6. CookieInv'
    BY <1>1, <1>2, <2>3, <2>4, <2>5, AnswerInv
  <2> QED BY <2>1, <2>2, <2>6 DEF EdgeInv
<1>10. CASE Deliver(r)
  <2>1. LimiterInv' /\ UpstreamInv'
    BY <1>2, <1>10, Untouched DEF Deliver, upstreamVars
  <2> QED BY <1>1, <1>10, <2>1, DeliverInv DEF EdgeInv
<1> QED BY <1>3, <1>4, <1>5, <1>6, <1>7, <1>8, <1>9, <1>10 DEF Handle

\* Every step.
LEMMA EdgeNextInv ==
    ASSUME EdgeInv, [EdgeNext]_vars
    PROVE  EdgeInv'
<1>1. LimiterInv /\ UpstreamInv /\ CookieInv /\ now \in Nat
  BY DEF EdgeInv, LimiterInv, LimiterTypeOK
<1>2. CASE \E r \in Requests : Arrive(r) \/ Handle(r)
  BY <1>2, RequestInv
<1>3. ASSUME NEW q \in Questions, Answer(q) PROVE EdgeInv'
  <2>1. LimiterInv' /\ CookieInv'
    BY <1>3, Untouched DEF Answer
  <2> QED BY <1>1, <1>3, <2>1, ExchangeInv DEF Answer, EdgeInv
<1>4. CASE OpenWindow /\ UNCHANGED <<now, upstreamVars, edgeVars>>
  <2>1. UpstreamInv' /\ CookieInv'
    BY <1>4, Untouched DEF upstreamVars
  <2> QED BY <1>1, <1>4, <2>1, TimeInv DEF EdgeInv
<1>5. CASE Tick /\ UNCHANGED <<limiterVars, upstreamVars, edgeVars>>
  <2>1. LimiterInv'
    BY <1>1, <1>5, TimeInv
  <2>2. UpstreamInv'
    BY <1>1, <1>5 DEF upstreamVars, UpstreamInv, CacheOK, FreshReply
  <2>3. CookieInv'
    BY <1>1, <1>5, CookieTimeInv DEF Tick
  <2> QED BY <2>1, <2>2, <2>3 DEF EdgeInv
<1>6. CASE UNCHANGED vars
  BY <1>6, Untouched DEF vars, upstreamVars, EdgeInv
<1> QED BY <1>2, <1>3, <1>4, <1>5, <1>6 DEF EdgeNext

\* The inductive invariant of handleRequest's path.
THEOREM EdgeInvariant == EdgeSpec => []EdgeInv
<1>1. EdgeInv /\ [EdgeNext]_vars => EdgeInv'
  BY EdgeNextInv
<1> QED BY EdgeInitInv, <1>1, PTL DEF EdgeSpec

\* What the upstream cache gives out outlives the TTL of none of its records, for any
\* answers, any number of goroutines that share calls or hold the same records, and any
\* number of connections; the reply of the exchange itself goes by its first record.
THEOREM RepliesAreFresh == EdgeSpec => []FreshReplies
<1>1. EdgeInv => FreshReplies
  BY DEF EdgeInv, UpstreamInv, FreshReplies, FreshReply
<1> QED BY <1>1, EdgeInvariant, PTL

\* A client that keeps returning its cookie is never turned away, for every lifetime,
\* renewal age and tolerance, in whatever order responses come and whichever are lost.
THEOREM CookiesStayGood == EdgeSpec => []CookieStaysGood
<1>1. EdgeInv => CookieStaysGood
  BY DEF EdgeInv, CookieInv, CookieStaysGood, StaysGood
<1> QED BY <1>1, EdgeInvariant, PTL

\* The buckets hold the rate also within the whole path of a request.
THEOREM EdgeHoldsRate == EdgeSpec => []BucketHolds
<1>1. EdgeInv => BucketHolds
  BY BucketsHold DEF EdgeInv
<1> QED BY <1>1, EdgeInvariant, PTL

-----------------------------------------------------------------------------

\* How full the buckets are, the fullest one can be, and the time in them as a set.
Level == [b \in Buckets |-> Drained(bucket[b])]
Brim == MaxTime + TimeStep
UnitsOf(L) == {u \in Buckets \X (1..Brim) : u[2] <= L[u[1]]}

\* No bucket is fuller than one filled to the brim when the entry was last stored.
Room ==
    IF limiters.bucket = None \/ limiters.expires + Brim <= now + Expiry THEN 0
    ELSE limiters.expires + Brim - (now + Expiry)

Creating == {r \in Requests : check[r].at = "create"}

\* The buckets that count: those in the hands of a request, those that are not empty
\* and the one that a request would find.
Counts(b) ==
    \/ b \in InUse \/ Level[b] > 0
    \/ limiters.bucket = b /\ now <= limiters.expires

\* Every bucket that counts was paid for by a request that missed, and so will be those
\* of the requests about to create one; what was charged in the window is in the
\* buckets, has drained from them, or was in a bucket whose request could make another.
Covers(K) ==
    /\ IsFiniteSet(K) /\ \A b \in Buckets : Counts(b) => b \in K
    /\ Cardinality(K) + Cardinality(Creating) <= Cardinality(Requests)
    /\ spent <= Cardinality(Requests) * (now - since) + Cardinality(UnitsOf(Level))
                  + (Cardinality(Requests) - Cardinality(K) - Cardinality(Creating)) * Room

\* What makes RateHeld inductive.
RateInv ==
    /\ \A r \in Requests : check[r].bucket # None => check[r].at = "charge"
    /\ limiters.expires <= now + Expiry
    /\ \A b \in Buckets : Level[b] <= Room
    /\ \E K \in SUBSET Buckets : Covers(K)

\* The time in one bucket, as a set.
LEMMA ColumnCard ==
    ASSUME NEW b, NEW l \in Nat
    PROVE  IsFiniteSet({b} \X (1..l)) /\ Cardinality({b} \X (1..l)) = l
<1>1. IsFiniteSet({b}) /\ Cardinality({b}) = 1
  BY FS_Singleton
<1>2. IsFiniteSet(1..l) /\ Cardinality(1..l) = l
  BY FS_Interval
<1>3. /\ IsFiniteSet({b} \X (1..l))
      /\ Cardinality({b} \X (1..l)) = Cardinality({b}) * Cardinality(1..l)
  BY <1>1, <1>2, FS_Product
<1> QED BY <1>1, <1>2, <1>3

\* The time in the buckets is finite, and bounded by the buckets that hold some.
LEMMA UnitsFinite ==
    ASSUME NEW K \in SUBSET Buckets, IsFiniteSet(K), NEW L \in [Buckets -> Nat],
           \A b \in Buckets : L[b] > 0 => b \in K
    PROVE  /\ IsFiniteSet(UnitsOf(L)) /\ Cardinality(UnitsOf(L)) \in Nat
           /\ Cardinality(UnitsOf(L)) <= Cardinality(K) * Brim
<1>1. Brim \in Nat
  BY MaxTimeNat, LimiterAssumption DEF Brim
<1>2. IsFiniteSet(1..Brim) /\ Cardinality(1..Brim) = Brim
  BY <1>1, FS_Interval
<1>3. IsFiniteSet(K \X (1..Brim)) /\ Cardinality(K \X (1..Brim)) = Cardinality(K) * Brim
  BY <1>2, FS_Product
<1>4. UnitsOf(L) \in SUBSET (K \X (1..Brim))
  BY <1>1 DEF UnitsOf
<1> QED BY <1>3, <1>4, FS_Subset, FS_CardinalityType

\* A step that fills one bucket to another level changes the time in the buckets by
\* that much.
LEMMA UnitsUpdate ==
    ASSUME NEW K \in SUBSET Buckets, IsFiniteSet(K), NEW L \in [Buckets -> 0..Brim],
           \A b \in Buckets : L[b] > 0 => b \in K,
           NEW a \in Buckets, NEW l \in 0..Brim
    PROVE  Cardinality(UnitsOf([L EXCEPT ![a] = l])) + L[a] = Cardinality(UnitsOf(L)) + l
<1> DEFINE M == [L EXCEPT ![a] = l]
           Rest == {u \in UnitsOf(L) : u[1] # a}
<1>1. Brim \in Nat
  BY MaxTimeNat, LimiterAssumption DEF Brim
<1>2. IsFiniteSet(UnitsOf(L)) /\ L \in [Buckets -> Nat] /\ l \in Nat /\ L[a] \in Nat
  BY <1>1, UnitsFinite
<1>3. IsFiniteSet(Rest) /\ Cardinality(Rest) \in Nat
  BY <1>2, FS_Subset, FS_CardinalityType
<1>4. UnitsOf(L) = Rest \union ({a} \X (1..L[a]))
  BY <1>1, <1>2 DEF UnitsOf
<1>5. UnitsOf(M) = Rest \union ({a} \X (1..l))
  BY <1>1, <1>2 DEF UnitsOf
<1>6. ASSUME NEW k \in Nat PROVE Cardinality(Rest \union ({a} \X (1..k))) = Cardinality(Rest) + k
  <2>1. IsFiniteSet({a} \X (1..k)) /\ Cardinality({a} \X (1..k)) = k
    BY ColumnCard
  <2>2. Rest \cap ({a} \X (1..k)) = {}
    OBVIOUS
  <2>3. Cardinality({}) = 0
    BY FS_EmptySet
  <2> HIDE DEF Rest
  <2>4. Cardinality(Rest \union ({a} \X (1..k))) = Cardinality(Rest) + k - 0
    BY <1>3, <2>1, <2>2, <2>3, FS_Union
  <2> QED BY <2>4, <1>3
<1> HIDE DEF Rest, M
<1>7. Cardinality(UnitsOf(M)) = Cardinality(Rest) + l /\ Cardinality(UnitsOf(L)) = Cardinality(Rest) + L[a]
  BY <1>2, <1>4, <1>5, <1>6
<1> QED BY <1>7, <1>2, <1>3 DEF M

\* In one tick no more drains than one unit from each bucket that is not empty.
LEMMA UnitsDrain ==
    ASSUME NEW K \in SUBSET Buckets, IsFiniteSet(K), NEW L \in [Buckets -> Nat], NEW M \in [Buckets -> Nat],
           \A b \in Buckets : (L[b] > 0 => b \in K) /\ M[b] <= L[b] /\ L[b] <= M[b] + 1
    PROVE  Cardinality(UnitsOf(L)) <= Cardinality(UnitsOf(M)) + Cardinality(K)
<1>1. Brim \in Nat
  BY MaxTimeNat, LimiterAssumption DEF Brim
<1>2. \A b \in Buckets : M[b] > 0 => b \in K
  OBVIOUS
<1>3. IsFiniteSet(UnitsOf(L)) /\ IsFiniteSet(UnitsOf(M)) /\ Cardinality(UnitsOf(M)) \in Nat
  BY <1>2, UnitsFinite
<1> DEFINE Gone == UnitsOf(L) \ UnitsOf(M)
           f == [u \in Gone |-> u[1]]
<1>4. \A u \in Gone : u \in Buckets \X (1..Brim) /\ u[2] = L[u[1]] /\ L[u[1]] > 0
  BY <1>1 DEF UnitsOf
<1>5. f \in Injection(Gone, K)
  <2>1. f \in [Gone -> K]
    BY <1>4
  <2>2. \A u, v \in Gone : f[u] = f[v] => u = v
    BY <1>4
  <2> QED BY <2>1, <2>2 DEF Injection, IsInjective
<1>6. IsFiniteSet(Gone) /\ Cardinality(Gone) <= Cardinality(K)
  <2> HIDE DEF Gone, f
  <2> QED BY <1>5, FS_Injection
<1>7. UnitsOf(L) \in SUBSET (UnitsOf(M) \union Gone)
  OBVIOUS
<1> HIDE DEF Gone, f
<1>8. /\ IsFiniteSet(UnitsOf(M) \union Gone)
      /\ Cardinality(UnitsOf(M) \union Gone)
           = Cardinality(UnitsOf(M)) + Cardinality(Gone) - Cardinality(UnitsOf(M) \cap Gone)
  BY <1>3, <1>6, FS_Union
<1>9. Cardinality(UnitsOf(M) \cap Gone) \in Nat /\ Cardinality(Gone) \in Nat /\ Cardinality(K) \in Nat
  BY <1>3, <1>6, FS_Intersection, FS_CardinalityType
<1>10. Cardinality(UnitsOf(L)) <= Cardinality(UnitsOf(M) \union Gone) /\ Cardinality(UnitsOf(L)) \in Nat
  BY <1>3, <1>7, <1>8, FS_Subset, FS_CardinalityType
<1> QED BY <1>3, <1>6, <1>8, <1>9, <1>10

\* The types of what the account is made of.
LEMMA RateTypes ==
    ASSUME LimiterInv, IsFiniteSet(Requests)
    PROVE  /\ Brim \in Nat /\ Level \in [Buckets -> 0..Brim] /\ Room \in Nat
           /\ now \in Nat /\ now - since \in Nat /\ spent \in Nat /\ Expiry \in Nat /\ TimeStep \in Nat
           /\ limiters.expires \in Nat /\ (limiters.bucket # None => limiters.bucket \in Buckets)
           /\ Cardinality(Requests) \in Nat
           /\ IsFiniteSet(Creating) /\ Cardinality(Creating) \in Nat
<1>1. /\ Brim \in Nat /\ now \in Nat /\ since \in 0..now /\ spent \in Nat /\ Expiry \in Nat /\ TimeStep \in Nat
      /\ limiters.expires \in Nat /\ (limiters.bucket # None => limiters.bucket \in Buckets)
  BY MaxTimeNat, LimiterAssumption DEF Brim, LimiterInv, LimiterTypeOK
<1>2. ASSUME NEW b \in Buckets PROVE Drained(bucket[b]) \in 0..Brim
  <2>1. BucketOK(bucket[b]) /\ bucket[b].size \in Nat
    BY DEF LimiterInv, BucketsOK, LimiterTypeOK
  <2>2. Drained(bucket[b]) \in Nat /\ Drained(bucket[b]) <= bucket[b].size
    BY <2>1, DrainedBounds DEF LimiterInv, BucketOK
  <2> QED BY <1>1, <2>1, <2>2 DEF BucketOK, Brim
<1>3. Level \in [Buckets -> 0..Brim]
  BY <1>2 DEF Level
<1>4. Room \in Nat
  BY <1>1 DEF Room
<1>5. IsFiniteSet(Creating) /\ Cardinality(Creating) \in Nat /\ Cardinality(Requests) \in Nat
  BY FS_Subset, FS_CardinalityType DEF Creating
<1> QED BY <1>1, <1>3, <1>4, <1>5

\* A request has a bucket in its hands only between the lookup and the charge.
LEMMA HandsPrime ==
    ASSUME LimiterInv, RateInv, NEW r \in Requests, NEW c,
           check' = [check EXCEPT ![r] = c], c.bucket = None \/ c.at = "charge"
    PROVE  /\ \A q \in Requests : check'[q].bucket # None => check'[q].at = "charge"
           /\ InUse' \subseteq InUse \union {c.bucket}
           /\ \A q \in Requests \ {r} : check'[q] = check[q]
           /\ check'[r] = c
<1>1. \A q \in Requests \ {r} : check'[q] = check[q]
  BY DEF LimiterInv, LimiterTypeOK
<1>2. check'[r] = c
  BY DEF LimiterInv, LimiterTypeOK
<1> QED BY <1>1, <1>2 DEF RateInv, InUse

\* A request that looks its own state up changes nothing else.
LEMMA CheckRecord ==
    ASSUME LimiterInv, NEW r \in Requests, NEW at, check' = [check EXCEPT ![r].at = at]
    PROVE  check' = [check EXCEPT ![r] = [at |-> at, bucket |-> check[r].bucket]]
<1>1. check[r] = [at |-> check[r].at, bucket |-> check[r].bucket]
  BY DEF LimiterInv, LimiterTypeOK
<1>2. [check[r] EXCEPT !.at = at] = [at |-> at, bucket |-> check[r].bucket]
  BY <1>1
<1>3. check' = [check EXCEPT ![r] = [check[r] EXCEPT !.at = at]]
  OBVIOUS
<1> QED BY <1>2, <1>3

\* The lists, a lookup that finds, and the return: the buckets that count stay the same.
LEMMA LookupRate ==
    ASSUME LimiterInv, RateInv, IsFiniteSet(Requests), NEW r \in Requests, now' = now,
           UNCHANGED <<limiters, bucket, since, spent>>,
           NEW at \in {"get", "charge", "accepted", "refused", "out"}, NEW b,
           check' = [check EXCEPT ![r] = [at |-> at, bucket |-> b]],
           check[r].at # "create",
           b = None \/ (at = "charge" /\ limiters.bucket = b /\ now <= limiters.expires)
    PROVE  RateInv'
<1>1. /\ \A q \in Requests : check'[q].bucket # None => check'[q].at = "charge"
      /\ InUse' \subseteq InUse \union {b}
      /\ \A q \in Requests \ {r} : check'[q] = check[q]
      /\ check'[r] = [at |-> at, bucket |-> b]
  <2> DEFINE c == [at |-> at, bucket |-> b]
  <2>1. check' = [check EXCEPT ![r] = c] /\ c.bucket = b /\ (c.bucket = None \/ c.at = "charge")
    OBVIOUS
  <2> HIDE DEF c
  <2>2. /\ \A q \in Requests : check'[q].bucket # None => check'[q].at = "charge"
        /\ InUse' \subseteq InUse \union {c.bucket}
        /\ \A q \in Requests \ {r} : check'[q] = check[q]
        /\ check'[r] = c
    BY <2>1, HandsPrime
  <2> QED BY <2>1, <2>2 DEF c
<1>2. Creating' = Creating
  BY <1>1 DEF Creating
<1>3. Level' = Level /\ Room' = Room
  BY DEF Level, Drained, Room, Brim, MaxTime
<1>4. PICK K \in SUBSET Buckets : Covers(K)
  BY DEF RateInv
<1>5. \A a \in Buckets : Counts(a)' => a \in K
  <2> SUFFICES ASSUME NEW a \in Buckets, Counts(a)' PROVE a \in K
    OBVIOUS
  <2>1. a # None
    BY LimiterAssumption
  <2>2. a \in InUse \/ a = b \/ Level[a] > 0 \/ (limiters.bucket = a /\ now <= limiters.expires)
    BY <1>1, <1>3 DEF Counts
  <2> QED BY <2>1, <2>2, <1>4 DEF Covers, Counts
<1>6. Covers(K)'
  BY <1>2, <1>3, <1>4, <1>5 DEF Covers, UnitsOf, Brim, MaxTime
<1> QED BY <1>1, <1>3, <1>6 DEF RateInv

\* A lookup that finds nothing: the buckets are empty by then, so that only those in the
\* hands of a request count.  (This is where the entry must outlive what it counts.)
LEMMA MissRate ==
    ASSUME LimiterInv, RateInv, IsFiniteSet(Requests), Brim <= Expiry, NEW r \in Requests, now' = now,
           UNCHANGED <<limiters, bucket, since, spent>>,
           check[r].at = "get",
           check' = [check EXCEPT ![r] = [at |-> "create", bucket |-> None]],
           ~ (limiters.bucket # None /\ now <= limiters.expires)
    PROVE  RateInv'
<1>1. /\ \A q \in Requests : check'[q].bucket # None => check'[q].at = "charge"
      /\ InUse' \subseteq InUse \union {None}
      /\ \A q \in Requests \ {r} : check'[q] = check[q]
      /\ check'[r] = [at |-> "create", bucket |-> None]
  <2> DEFINE c == [at |-> "create", bucket |-> None]
  <2>1. check' = [check EXCEPT ![r] = c] /\ c.bucket = None /\ (c.bucket = None \/ c.at = "charge")
    OBVIOUS
  <2> HIDE DEF c
  <2>2. /\ \A q \in Requests : check'[q].bucket # None => check'[q].at = "charge"
        /\ InUse' \subseteq InUse \union {c.bucket}
        /\ \A q \in Requests \ {r} : check'[q] = check[q]
        /\ check'[r] = c
    BY <2>1, HandsPrime
  <2> QED BY <2>1, <2>2 DEF c
<1>2. Level' = Level /\ Room' = Room
  BY DEF Level, Drained, Room, Brim, MaxTime
<1>3. Brim \in Nat /\ now \in Nat /\ Expiry \in Nat /\ limiters.expires \in Nat /\ Level \in [Buckets -> 0..Brim]
      /\ Cardinality(Requests) \in Nat
  BY RateTypes
<1>4. Room = 0
  BY <1>3 DEF Room
<1>5. \A b \in Buckets : Level[b] = 0
  BY <1>3, <1>4 DEF RateInv
<1> DEFINE Charging == {q \in Requests : check'[q].at = "charge"}
           f == [q \in Charging |-> check'[q].bucket]
<1>6. f \in Surjection(Charging, InUse')
  <2>1. \A q \in Charging : check'[q].bucket \in InUse'
    <3> SUFFICES ASSUME NEW q \in Charging PROVE check'[q].bucket \in Buckets
      BY DEF InUse
    <3>1. q # r /\ check'[q] = check[q] /\ check[q].at = "charge"
      BY <1>1
    <3> QED BY <3>1 DEF LimiterInv, LimiterTypeOK
  <2>2. \A b \in InUse' : \E q \in Charging : f[q] = b
    <3> SUFFICES ASSUME NEW b \in InUse' PROVE \E q \in Charging : f[q] = b
      OBVIOUS
    <3>1. PICK q \in Requests : check'[q].bucket = b /\ b # None
      BY LimiterAssumption DEF InUse
    <3> QED BY <3>1, <1>1
  <2>3. f \in [Charging -> InUse']
    BY <2>1
  <2> HIDE DEF f, Charging
  <2> QED BY <2>2, <2>3 DEF Surjection
<1>7. IsFiniteSet(Charging) /\ Charging \subseteq Requests
  BY FS_Subset
<1>8. IsFiniteSet(InUse') /\ Cardinality(InUse') <= Cardinality(Charging)
  <2> HIDE DEF f, Charging
  <2> QED BY <1>6, <1>7, FS_Surjection
<1>9. Charging \cap Creating' = {} /\ Creating' \subseteq Requests
  BY DEF Creating
<1>10. IsFiniteSet(Creating') /\ Cardinality(Creating') \in Nat
  BY <1>9, FS_Subset, FS_CardinalityType
<1>11. Cardinality(Charging) + Cardinality(Creating') <= Cardinality(Requests)
  <2> HIDE DEF Charging
  <2>1. Charging \union Creating' \in SUBSET Requests
    BY <1>7, <1>9
  <2>2. Cardinality(Charging \union Creating')
          = Cardinality(Charging) + Cardinality(Creating') - 0
    BY <1>7, <1>9, <1>10, FS_Union, FS_EmptySet
  <2>3. Cardinality(Charging \union Creating') <= Cardinality(Requests)
    BY <2>1, FS_Subset
  <2>4. Cardinality(Charging) \in Nat
    BY <1>7, FS_CardinalityType
  <2> QED BY <2>2, <2>3, <2>4, <1>10, <1>3
<1>12. Cardinality(Charging) \in Nat /\ Cardinality(InUse') \in Nat
  BY <1>7, <1>8, FS_CardinalityType
<1> HIDE DEF f, Charging
<1>13. PICK K \in SUBSET Buckets : Covers(K)
  BY DEF RateInv
<1>14. Cardinality(K) \in Nat /\ Cardinality(Creating) \in Nat
  BY <1>13, FS_CardinalityType, RateTypes DEF Covers
<1>15. spent <= Cardinality(Requests) * (now - since) + Cardinality(UnitsOf(Level)) + 0
  <2>1. (Cardinality(Requests) - Cardinality(K) - Cardinality(Creating)) * Room = 0
    BY <1>3, <1>4, <1>14
  <2> QED BY <1>13, <2>1 DEF Covers
<1>16. (Cardinality(Requests) - Cardinality(InUse') - Cardinality(Creating')) * Room = 0
  BY <1>3, <1>4, <1>10, <1>12
<1>17. \A b \in Buckets : Counts(b)' => b \in InUse'
  BY <1>2, <1>3, <1>5, LimiterAssumption DEF Counts
<1>18. InUse' \in SUBSET Buckets
  BY DEF InUse
<1>19. Cardinality(InUse') + Cardinality(Creating') <= Cardinality(Requests)
  BY <1>8, <1>10, <1>11, <1>12, <1>3
<1>20. Covers(InUse)'
  BY <1>2, <1>8, <1>15, <1>16, <1>17, <1>19 DEF Covers, UnitsOf, Brim, MaxTime
<1> QED BY <1>1, <1>2, <1>18, <1>20 DEF RateInv

\* The sums of the account.
LEMMA RateSums ==
    ASSUME NEW n \in Nat, NEW w \in Nat, NEW s \in Nat, NEW e \in Nat, NEW m \in Nat, e <= m
    PROVE  /\ n * (w + 1) = n * w + n /\ n * (w + m) = n * w + n * m
           /\ s * e \in Nat /\ n * w \in Nat /\ s * e <= s * m
           /\ (s + 1) * m = s * m + m
           /\ e > 0 => s * e = s * (e - 1) + s
<1>1. PICK d \in Nat : m = e + d
  <2>1. m - e \in Nat /\ m = e + (m - e)
    OBVIOUS
  <2> QED BY <2>1
<1>2. s * m = s * e + s * d /\ s * d \in Nat /\ s * e \in Nat /\ n * w \in Nat
  BY <1>1
<1>3. ASSUME e > 0 PROVE s * e = s * (e - 1) + s
  <2>1. PICK k \in Nat : e = k + 1
    <3>1. e - 1 \in Nat /\ e = (e - 1) + 1
      BY <1>3
    <3> QED BY <3>1
  <2> QED BY <2>1
<1>4. s * e <= s * m
  BY <1>2
<1> QED BY <1>2, <1>3, <1>4

\* The critical section moves what it charges from the request into its bucket.
LEMMA ChargeRate ==
    ASSUME LimiterInv, RateInv, IsFiniteSet(Requests), NEW r \in Requests, now' = now, Charge(r)
    PROVE  RateInv'
<1>1. PICK b \in Buckets : b = check[r].bucket /\ check[r].at = "charge"
  BY DEF Charge, LimiterInv, LimiterTypeOK
<1> DEFINE size == Drained(bucket[b])
           full == size > MaxTime
           new == IF full THEN size ELSE size + TimeStep
<1>2. /\ limiters' = [bucket |-> b, expires |-> now + Expiry] /\ since' = since
      /\ spent' = (IF full THEN spent ELSE spent + TimeStep)
      /\ check' = [check EXCEPT ![r] = [at |-> IF full THEN "refused" ELSE "accepted", bucket |-> None]]
      /\ bucket' = [bucket EXCEPT ![b] = [size |-> new, last |-> now,
                      charged |-> IF full THEN bucket[b].charged ELSE bucket[b].charged + TimeStep]]
  BY <1>1 DEF Charge, LimiterInv, LimiterTypeOK
<1>3. /\ Brim \in Nat /\ Level \in [Buckets -> 0..Brim] /\ Room \in Nat /\ now \in Nat /\ now - since \in Nat
      /\ spent \in Nat /\ Expiry \in Nat /\ TimeStep \in Nat /\ limiters.expires \in Nat
      /\ Cardinality(Requests) \in Nat /\ Cardinality(Creating) \in Nat
  BY RateTypes
<1>4. size = Level[b] /\ size \in 0..Brim
  BY <1>1, <1>3 DEF Level
<1>5. new \in 0..Brim /\ new >= size /\ spent' = spent + (new - size)
  BY <1>2, <1>3, <1>4, MaxTimeNat DEF Brim
<1> HIDE DEF new, size
<1>6. Level' = [Level EXCEPT ![b] = new]
  <2>1. bucket'[b].size = new /\ bucket'[b].last = now
    BY <1>1, <1>2 DEF LimiterInv, LimiterTypeOK
  <2>2. Drained(bucket[b])' = new
    BY <1>3, <1>5, <2>1 DEF Drained
  <2>3. \A a \in Buckets : a # b => Drained(bucket[a])' = Drained(bucket[a])
    BY <1>1, <1>2 DEF Drained, LimiterInv, LimiterTypeOK
  <2> QED BY <1>1, <2>2, <2>3 DEF Level
<1>7. Room' = Brim
  BY <1>1, <1>2, <1>3, LimiterAssumption DEF Room, Brim, MaxTime
<1>8. Room <= Brim
  BY <1>3 DEF Room, RateInv
<1>9. /\ \A q \in Requests : check'[q].bucket # None => check'[q].at = "charge"
      /\ InUse' \subseteq InUse \union {None}
      /\ \A q \in Requests \ {r} : check'[q] = check[q]
      /\ check'[r] = [at |-> IF full THEN "refused" ELSE "accepted", bucket |-> None]
  <2> DEFINE c == [at |-> IF full THEN "refused" ELSE "accepted", bucket |-> None]
  <2>1. check' = [check EXCEPT ![r] = c] /\ c.bucket = None /\ (c.bucket = None \/ c.at = "charge")
    BY <1>2
  <2> HIDE DEF c
  <2>2. /\ \A q \in Requests : check'[q].bucket # None => check'[q].at = "charge"
        /\ InUse' \subseteq InUse \union {c.bucket}
        /\ \A q \in Requests \ {r} : check'[q] = check[q]
        /\ check'[r] = c
    BY <2>1, HandsPrime
  <2> QED BY <2>1, <2>2 DEF c
<1>10. Creating' = Creating
  BY <1>1, <1>9 DEF Creating
<1>11. PICK K \in SUBSET Buckets : Covers(K)
  BY DEF RateInv
<1>12. b \in K
  BY <1>1, <1>11 DEF Covers, Counts, InUse
<1>13. \A a \in Buckets : Counts(a)' => a \in K
  <2> SUFFICES ASSUME NEW a \in Buckets, Counts(a)', a # b PROVE a \in K
    BY <1>12
  <2>1. a # None
    BY LimiterAssumption
  <2>2. a \in InUse \/ Level[a] > 0
    BY <2>1, <1>1, <1>2, <1>3, <1>6, <1>9 DEF Counts
  <2> QED BY <2>2, <1>11 DEF Covers, Counts
<1>14. Cardinality(UnitsOf(Level')) + size = Cardinality(UnitsOf(Level)) + new
  BY <1>1, <1>3, <1>4, <1>5, <1>6, <1>11, UnitsUpdate DEF Covers, Counts
<1>15. Cardinality(UnitsOf(Level)) \in Nat /\ Cardinality(UnitsOf(Level')) \in Nat
  <2>1. Level' \in [Buckets -> Nat] /\ \A a \in Buckets : Level'[a] > 0 => a \in K
    BY <1>3, <1>5, <1>6, <1>13 DEF Counts
  <2> QED BY <1>3, <1>11, <2>1, UnitsFinite DEF Covers, Counts
<1>16. Cardinality(K) \in Nat /\ Cardinality(K) + Cardinality(Creating) <= Cardinality(Requests)
  BY <1>11, FS_CardinalityType DEF Covers
<1> DEFINE n == Cardinality(Requests)
           w == now - since
           s == n - Cardinality(K) - Cardinality(Creating)
<1>17. s \in Nat /\ spent <= n * w + Cardinality(UnitsOf(Level)) + s * Room
  BY <1>3, <1>11, <1>16 DEF Covers
<1>18. s * Room <= s * Brim /\ s * Room \in Nat /\ s * Brim \in Nat /\ n * w \in Nat
  <2>1. n \in Nat /\ w \in Nat /\ s \in Nat
    BY <1>3, <1>17
  <2> HIDE DEF n, w, s
  <2> QED BY <2>1, <1>3, <1>8, RateSums
<1>19. spent' <= n * w + Cardinality(UnitsOf(Level')) + s * Brim
  <2>1. Cardinality(UnitsOf(Level')) = Cardinality(UnitsOf(Level)) + (new - size)
    BY <1>4, <1>5, <1>14, <1>15, <1>3
  <2> HIDE DEF n, w, s
  <2> QED BY <1>3, <1>4, <1>5, <1>15, <1>17, <1>18, <2>1
<1>20. Covers(K)'
  <2>1. UnitsOf(Level)' = UnitsOf(Level')
    BY DEF UnitsOf, Brim, MaxTime
  <2> QED BY <1>2, <1>7, <1>10, <1>11, <1>13, <1>16, <1>19, <2>1 DEF Covers
<1>21. \A a \in Buckets : Level'[a] <= Room'
  <2> SUFFICES ASSUME NEW a \in Buckets PROVE Level'[a] <= Brim
    BY <1>7
  <2> QED BY <1>1, <1>3, <1>5, <1>6
<1>22. limiters'.expires <= now' + Expiry
  BY <1>2, <1>3
<1> QED BY <1>9, <1>20, <1>21, <1>22 DEF RateInv

\* A first request makes the bucket that was reserved for it, or takes the place of one
\* that nobody holds any more.
LEMMA CreateRate ==
    ASSUME LimiterInv, RateInv, IsFiniteSet(Requests), NEW r \in Requests, now' = now, Create(r)
    PROVE  RateInv'
<1>1. PICK b \in Buckets \ InUse :
         /\ bucket' = [bucket EXCEPT ![b] = [size |-> TimeStep, last |-> now, charged |-> TimeStep]]
         /\ limiters' = [bucket |-> b, expires |-> now + Expiry]
  BY DEF Create
<1>2. /\ check[r].at = "create" /\ check' = [check EXCEPT ![r].at = "accepted"]
      /\ spent' = spent + TimeStep /\ since' = since
  BY DEF Create
<1>3. /\ Brim \in Nat /\ Level \in [Buckets -> 0..Brim] /\ Room \in Nat /\ now \in Nat /\ now - since \in Nat
      /\ spent \in Nat /\ Expiry \in Nat /\ TimeStep \in Nat /\ limiters.expires \in Nat
      /\ Cardinality(Requests) \in Nat /\ IsFiniteSet(Creating) /\ Cardinality(Creating) \in Nat
  BY RateTypes
<1>4. TimeStep \in 0..Brim
  BY <1>3, MaxTimeNat DEF Brim
<1>5. Level' = [Level EXCEPT ![b] = TimeStep]
  <2>1. bucket'[b].size = TimeStep /\ bucket'[b].last = now
    BY <1>1 DEF LimiterInv, LimiterTypeOK
  <2>2. Drained(bucket[b])' = TimeStep
    BY <1>3, <2>1 DEF Drained
  <2>3. \A a \in Buckets : a # b => Drained(bucket[a])' = Drained(bucket[a])
    BY <1>1 DEF Drained, LimiterInv, LimiterTypeOK
  <2> QED BY <1>1, <2>2, <2>3 DEF Level
<1>6. Room' = Brim
  BY <1>1, <1>3, LimiterAssumption DEF Room, Brim, MaxTime
<1>7. Room <= Brim
  BY <1>3 DEF Room, RateInv
<1>8. check[r].bucket = None /\ check' = [check EXCEPT ![r] = [at |-> "accepted", bucket |-> None]]
  BY <1>2, CheckRecord DEF RateInv
<1>9. /\ \A q \in Requests : check'[q].bucket # None => check'[q].at = "charge"
      /\ InUse' \subseteq InUse \union {None}
      /\ \A q \in Requests \ {r} : check'[q] = check[q]
      /\ check'[r] = [at |-> "accepted", bucket |-> None]
  <2> DEFINE c == [at |-> "accepted", bucket |-> None]
  <2>1. check' = [check EXCEPT ![r] = c] /\ c.bucket = None /\ (c.bucket = None \/ c.at = "charge")
    BY <1>8
  <2> HIDE DEF c
  <2>2. /\ \A q \in Requests : check'[q].bucket # None => check'[q].at = "charge"
        /\ InUse' \subseteq InUse \union {c.bucket}
        /\ \A q \in Requests \ {r} : check'[q] = check[q]
        /\ check'[r] = c
    BY <2>1, HandsPrime
  <2> QED BY <2>1, <2>2 DEF c
<1>10. Creating' = Creating \ {r} /\ r \in Creating
  BY <1>2, <1>9 DEF Creating
<1>11. Cardinality(Creating') = Cardinality(Creating) - 1 /\ Cardinality(Creating') \in Nat
  BY <1>3, <1>10, FS_RemoveElement, FS_CardinalityType
<1>12. PICK K \in SUBSET Buckets : Covers(K)
  BY DEF RateInv
<1> DEFINE J == K \union {b}
<1>13. J \in SUBSET Buckets /\ IsFiniteSet(J) /\ Cardinality(J) \in Nat
       /\ Cardinality(J) = (IF b \in K THEN Cardinality(K) ELSE Cardinality(K) + 1)
  BY <1>12, FS_AddElement, FS_CardinalityType DEF Covers
<1>14. \A a \in Buckets : Counts(a)' => a \in J
  <2> SUFFICES ASSUME NEW a \in Buckets, Counts(a)', a # b PROVE a \in K
    OBVIOUS
  <2>1. a # None
    BY LimiterAssumption
  <2>2. a \in InUse \/ Level[a] > 0
    BY <2>1, <1>1, <1>3, <1>5, <1>9 DEF Counts
  <2> QED BY <2>2, <1>12 DEF Covers, Counts
<1>15. Cardinality(UnitsOf(Level')) + Level[b] = Cardinality(UnitsOf(Level)) + TimeStep
  BY <1>3, <1>4, <1>5, <1>12, UnitsUpdate DEF Covers, Counts
<1>16. Cardinality(UnitsOf(Level)) \in Nat /\ Cardinality(UnitsOf(Level')) \in Nat
  <2>1. Level' \in [Buckets -> Nat]
    BY <1>3, <1>4, <1>5
  <2>2. \A a \in Buckets : Level'[a] > 0 => a \in J
    BY <1>14 DEF Counts
  <2> HIDE DEF J
  <2> QED BY <1>3, <1>12, <1>13, <2>1, <2>2, UnitsFinite DEF Covers, Counts
<1>17. Cardinality(K) \in Nat /\ Cardinality(K) + Cardinality(Creating) <= Cardinality(Requests)
  BY <1>12, FS_CardinalityType DEF Covers
<1> HIDE DEF J
<1> DEFINE n == Cardinality(Requests)
           w == now - since
           s == n - Cardinality(K) - Cardinality(Creating)
           t == n - Cardinality(J) - Cardinality(Creating')
<1>18. n \in Nat /\ w \in Nat /\ s \in Nat /\ spent <= n * w + Cardinality(UnitsOf(Level)) + s * Room
  BY <1>3, <1>12, <1>17 DEF Covers
<1>19. t = (IF b \in K THEN s + 1 ELSE s)
  BY <1>3, <1>11, <1>13, <1>17
<1>20. Level[b] <= Brim /\ Level[b] \in Nat /\ (b \notin K => Level[b] = 0)
  BY <1>3, <1>12 DEF Covers, Counts
<1>21. spent' <= n * w + Cardinality(UnitsOf(Level')) + t * Brim
  <2> HIDE DEF n, w, s, t
  <2>1. s * Room <= s * Brim /\ s * Room \in Nat /\ s * Brim \in Nat /\ n * w \in Nat /\ (s + 1) * Brim = s * Brim + Brim
    BY <1>3, <1>7, <1>18, RateSums
  <2>2. CASE b \in K
    <3>1. t * Brim = s * Brim + Brim
      BY <2>1, <2>2, <1>19
    <3> QED BY <1>2, <1>3, <1>15, <1>16, <1>18, <1>20, <2>1, <3>1
  <2>3. CASE b \notin K
    <3>1. t * Brim = s * Brim
      BY <2>3, <1>19
    <3> QED BY <1>2, <1>3, <1>15, <1>16, <1>18, <1>20, <2>1, <2>3, <3>1
  <2> QED BY <2>2, <2>3
<1>22. Cardinality(J) + Cardinality(Creating') <= Cardinality(Requests)
  BY <1>3, <1>11, <1>13, <1>17
<1>23. Covers(J)'
  <2>1. UnitsOf(Level)' = UnitsOf(Level')
    BY DEF UnitsOf, Brim, MaxTime
  <2> QED BY <1>2, <1>6, <1>13, <1>14, <1>21, <1>22, <2>1 DEF Covers
<1>24. \A a \in Buckets : Level'[a] <= Room'
  <2> SUFFICES ASSUME NEW a \in Buckets PROVE Level'[a] <= Brim
    BY <1>6
  <2> QED BY <1>3, <1>4, <1>5
<1>25. limiters'.expires <= now' + Expiry
  BY <1>1, <1>3
<1> QED BY <1>9, <1>13, <1>23, <1>24, <1>25 DEF RateInv

\* A new window starts with nothing spent.
LEMMA WindowRate ==
    ASSUME LimiterInv, RateInv, IsFiniteSet(Requests), now' = now, OpenWindow
    PROVE  RateInv'
<1>1. since' = now /\ spent' = 0 /\ UNCHANGED <<limiters, check>>
  BY DEF OpenWindow
<1>2. \A b \in Buckets : bucket'[b].size = bucket[b].size /\ bucket'[b].last = bucket[b].last
  BY DEF OpenWindow, LimiterInv, LimiterTypeOK
<1>3. Level' = Level
  BY <1>2 DEF Level, Drained
<1>4. Room' = Room /\ Creating' = Creating /\ InUse' = InUse
  BY <1>1 DEF Room, Creating, InUse, Brim, MaxTime
<1>5. /\ Brim \in Nat /\ Level \in [Buckets -> 0..Brim] /\ Room \in Nat /\ now \in Nat
      /\ Cardinality(Requests) \in Nat /\ Cardinality(Creating) \in Nat
  BY RateTypes
<1>6. PICK K \in SUBSET Buckets : Covers(K)
  BY DEF RateInv
<1>7. Cardinality(K) \in Nat /\ Cardinality(UnitsOf(Level)) \in Nat
  BY <1>5, <1>6, UnitsFinite, FS_CardinalityType DEF Covers, Counts
<1> DEFINE s == Cardinality(Requests) - Cardinality(K) - Cardinality(Creating)
<1>8. s \in Nat /\ s * Room \in Nat /\ Cardinality(Requests) * (now - now) = 0
  <2>1. s \in Nat
    BY <1>5, <1>6, <1>7 DEF Covers
  <2> HIDE DEF s
  <2> QED BY <2>1, <1>5
<1>9. spent' <= Cardinality(Requests) * (now - now) + Cardinality(UnitsOf(Level)) + s * Room
  <2> HIDE DEF s
  <2> QED BY <1>1, <1>7, <1>8
<1>10. Covers(K)'
  <2>1. UnitsOf(Level)' = UnitsOf(Level)
    BY <1>3 DEF UnitsOf, Brim, MaxTime
  <2>2. \A b \in Buckets : Counts(b)' = Counts(b)
    BY <1>1, <1>3, <1>4 DEF Counts
  <2> QED BY <1>1, <1>4, <1>6, <1>9, <2>1, <2>2 DEF Covers
<1> QED BY <1>1, <1>3, <1>4, <1>10 DEF RateInv

\* A tick drains what it adds to the length of the window.
LEMMA TickRate ==
    ASSUME LimiterInv, RateInv, IsFiniteSet(Requests), Tick, UNCHANGED limiterVars
    PROVE  RateInv'
<1>1. now' = now + 1 /\ UNCHANGED <<limiters, bucket, check, since, spent>>
  BY DEF Tick, limiterVars
<1>2. /\ Brim \in Nat /\ Level \in [Buckets -> 0..Brim] /\ Room \in Nat /\ now \in Nat /\ now - since \in Nat
      /\ spent \in Nat /\ Expiry \in Nat /\ limiters.expires \in Nat
      /\ Cardinality(Requests) \in Nat /\ Cardinality(Creating) \in Nat
  BY RateTypes
<1>3. Creating' = Creating /\ InUse' = InUse
  BY <1>1 DEF Creating, InUse
<1>4. Room' = IF Room = 0 THEN 0 ELSE Room - 1
  BY <1>1, <1>2 DEF Room, Brim, MaxTime
<1>5. ASSUME NEW b \in Buckets PROVE Level'[b] = IF Level[b] = 0 THEN 0 ELSE Level[b] - 1
  <2>1. bucket[b].size \in Nat /\ bucket[b].last \in Nat /\ bucket[b].last <= now
    BY DEF LimiterInv, LimiterTypeOK, BucketsOK, BucketOK
  <2> QED BY <1>1, <1>2, <2>1 DEF Level, Drained
<1>6. \A b \in Buckets : Level[b] \in Nat /\ Level'[b] \in Nat /\ Level'[b] <= Level[b] /\ Level[b] <= Level'[b] + 1
  BY <1>2, <1>5
<1>7. PICK K \in SUBSET Buckets : Covers(K)
  BY DEF RateInv
<1>8. \A b \in Buckets : Counts(b)' => b \in K
  <2> SUFFICES ASSUME NEW b \in Buckets, Counts(b)' PROVE Counts(b)
    BY <1>7 DEF Covers
  <2> QED BY <1>1, <1>2, <1>3, <1>6 DEF Counts
<1>9. Level \in [Buckets -> Nat] /\ Level' \in [Buckets -> Nat]
  BY <1>6 DEF Level
<1>10. /\ Cardinality(UnitsOf(Level)) <= Cardinality(UnitsOf(Level')) + Cardinality(K)
       /\ Cardinality(UnitsOf(Level)) \in Nat /\ Cardinality(UnitsOf(Level')) \in Nat
  <2>1. \A b \in Buckets : (Level[b] > 0 => b \in K) /\ (Level'[b] > 0 => b \in K)
    BY <1>7, <1>8 DEF Covers, Counts
  <2>2. IsFiniteSet(K)
    BY <1>7 DEF Covers
  <2>3. Cardinality(UnitsOf(Level)) <= Cardinality(UnitsOf(Level')) + Cardinality(K)
    BY <1>6, <1>9, <2>1, <2>2, UnitsDrain
  <2>4. Cardinality(UnitsOf(Level)) \in Nat
    BY <1>9, <2>1, <2>2, UnitsFinite
  <2>5. Cardinality(UnitsOf(Level')) \in Nat
    BY <1>9, <2>1, <2>2, UnitsFinite
  <2> QED BY <2>3, <2>4, <2>5
<1>11. Cardinality(K) \in Nat
  BY <1>7, FS_CardinalityType DEF Covers
<1> DEFINE n == Cardinality(Requests)
           w == now - since
           s == n - Cardinality(K) - Cardinality(Creating)
<1>12. s \in Nat /\ n \in Nat /\ w \in Nat /\ s + Cardinality(K) <= n
       /\ spent <= n * w + Cardinality(UnitsOf(Level)) + s * Room
  BY <1>2, <1>7, <1>11 DEF Covers
<1>13. spent <= n * (w + 1) + Cardinality(UnitsOf(Level')) + s * Room'
  <2> HIDE DEF n, w, s
  <2>1. /\ n * (w + 1) = n * w + n /\ n * w \in Nat /\ s * Room \in Nat
        /\ Room > 0 => s * Room = s * (Room - 1) + s
    BY <1>2, <1>12, RateSums
  <2>2. s * Room' + s >= s * Room /\ s * Room' \in Nat
    <3>1. CASE Room = 0
      BY <1>12, <1>4, <3>1
    <3>2. CASE Room # 0
      <4>1. Room' = Room - 1 /\ Room > 0 /\ Room - 1 \in Nat
        BY <1>2, <1>4, <3>2
      <4>2. s * (Room - 1) \in Nat
        BY <1>12, <4>1
      <4> QED BY <2>1, <4>1, <4>2, <1>12
    <3> QED BY <3>1, <3>2
  <2> QED BY <1>2, <1>10, <1>11, <1>12, <2>1, <2>2
<1>14. now' - since' = w + 1
  <2>1. since \in Nat
    BY DEF LimiterInv, LimiterTypeOK
  <2> QED BY <1>1, <1>2, <2>1
<1>15. Covers(K)'
  <2>1. UnitsOf(Level)' = UnitsOf(Level')
    BY DEF UnitsOf, Brim, MaxTime
  <2> QED BY <1>1, <1>3, <1>7, <1>8, <1>13, <1>14, <2>1 DEF Covers
<1>16. \A b \in Buckets : Level'[b] <= Room'
  <2> SUFFICES ASSUME NEW b \in Buckets PROVE Level'[b] <= Room'
    OBVIOUS
  <2>1. Level[b] <= Room
    BY DEF RateInv
  <2> QED BY <2>1, <1>2, <1>4, <1>5, <1>6
<1> QED BY <1>1, <1>2, <1>15, <1>16 DEF RateInv

\* Nothing is charged at first.
LEMMA RateInitInv ==
    ASSUME now \in Nat, LimiterInit, IsFiniteSet(Requests)
    PROVE  RateInv
<1>1. LimiterInv
  BY LimiterInitInv
<1>2. Brim \in Nat /\ Expiry \in Nat /\ Room = 0 /\ Cardinality(Requests) \in Nat /\ now - since \in Nat
  BY <1>1, RateTypes DEF LimiterInit, Room
<1>3. \A b \in Buckets : Level[b] = 0
  BY DEF LimiterInit, Level, Drained
<1>4. Creating = {} /\ InUse = {}
  BY LimiterAssumption DEF LimiterInit, Creating, InUse
<1>5. \A b \in Buckets : ~Counts(b)
  BY <1>3, <1>4, LimiterAssumption DEF LimiterInit, Counts
<1>6. IsFiniteSet({}) /\ Cardinality({}) = 0
  BY FS_EmptySet
<1>7. Cardinality(UnitsOf(Level)) \in Nat
  <2>1. Level \in [Buckets -> Nat] /\ {} \in SUBSET Buckets
    BY <1>3 DEF Level
  <2> QED BY <2>1, <1>3, <1>6, UnitsFinite
<1>8. Cardinality(Requests) * (now - since) \in Nat /\ (Cardinality(Requests) - 0 - 0) * 0 = 0
  BY <1>2
<1>9. spent <= Cardinality(Requests) * (now - since) + Cardinality(UnitsOf(Level)) + (Cardinality(Requests) - 0 - 0) * 0
  <2>1. spent = 0
    BY DEF LimiterInit
  <2> QED BY <2>1, <1>7, <1>8
<1>10. Covers({})
  BY <1>2, <1>4, <1>5, <1>6, <1>9 DEF Covers
<1>11. limiters.expires <= now + Expiry /\ \A r \in Requests : check[r].bucket = None
  BY <1>2 DEF LimiterInit
<1> QED BY <1>2, <1>3, <1>10, <1>11 DEF RateInv

\* The steps of CanHandle.
LEMMA CanHandleRate ==
    ASSUME LimiterInv, RateInv, IsFiniteSet(Requests), Brim <= Expiry, NEW r \in Requests, now' = now,
           (\E listed : CheckLists(r, listed)) \/ FindBucket(r) \/ Charge(r) \/ Create(r) \/ Leave(r)
    PROVE  RateInv'
<1>1. CASE (\E listed : CheckLists(r, listed)) \/ Leave(r)
  <2>1. /\ UNCHANGED <<limiters, bucket, since, spent>> /\ check[r].at \in {"out", "accepted", "refused"}
    BY <1>1 DEF CheckLists, Leave
  <2>2. PICK at \in {"get", "charge", "accepted", "refused", "out"} : check' = [check EXCEPT ![r].at = at]
    BY <1>1 DEF CheckLists, Leave
  <2>3. check[r].bucket = None
    BY <2>1 DEF RateInv
  <2>4. check' = [check EXCEPT ![r] = [at |-> at, bucket |-> None]]
    BY <2>2, <2>3, CheckRecord
  <2> QED BY <2>1, <2>4, LookupRate
<1>2. CASE FindBucket(r)
  <2>1. UNCHANGED <<limiters, bucket, since, spent>> /\ check[r].at = "get"
    BY <1>2 DEF FindBucket
  <2>2. CASE limiters.bucket # None /\ now <= limiters.expires
    <3>1. check' = [check EXCEPT ![r] = [at |-> "charge", bucket |-> limiters.bucket]]
      BY <1>2, <2>2 DEF FindBucket
    <3> DEFINE b == limiters.bucket
    <3> HIDE DEF b
    <3>2. check' = [check EXCEPT ![r] = [at |-> "charge", bucket |-> b]] /\ limiters.bucket = b
      BY <3>1 DEF b
    <3> QED BY <2>1, <2>2, <3>2, LookupRate
  <2>3. CASE ~ (limiters.bucket # None /\ now <= limiters.expires)
    <3>1. check' = [check EXCEPT ![r] = [at |-> "create", bucket |-> None]]
      BY <1>2, <2>3 DEF FindBucket
    <3> QED BY <2>1, <2>3, <3>1, MissRate
  <2> QED BY <2>2, <2>3
<1>3. CASE Charge(r)
  BY <1>3, ChargeRate
<1>4. CASE Create(r)
  BY <1>4, CreateRate
<1> QED BY <1>1, <1>2, <1>3, <1>4

\* Whatever else happens.
LEMMA RateStutter == RateInv /\ UNCHANGED <<now, limiterVars>> => RateInv'
BY DEF RateInv, limiterVars, Covers, Counts, Creating, InUse, Level, Drained, Room, UnitsOf, Brim, MaxTime

\* The account bounds what a client can spend.
LEMMA AccountHolds ==
    ASSUME LimiterInv, RateInv, IsFiniteSet(Requests)
    PROVE  RateHeld
<1>1. /\ Brim \in Nat /\ Level \in [Buckets -> 0..Brim] /\ Room \in Nat /\ now - since \in Nat /\ spent \in Nat
      /\ Cardinality(Requests) \in Nat /\ Cardinality(Creating) \in Nat /\ now \in Nat /\ Expiry \in Nat
      /\ limiters.expires \in Nat
  BY RateTypes
<1>2. Room <= Brim
  BY <1>1 DEF Room, RateInv
<1>3. PICK K \in SUBSET Buckets : Covers(K)
  BY DEF RateInv
<1>4. /\ Cardinality(K) \in Nat /\ Cardinality(UnitsOf(Level)) \in Nat
      /\ Cardinality(UnitsOf(Level)) <= Cardinality(K) * Brim
  <2>1. IsFiniteSet(K) /\ Level \in [Buckets -> Nat] /\ \A b \in Buckets : Level[b] > 0 => b \in K
    BY <1>1, <1>3 DEF Covers, Counts
  <2> QED BY <2>1, UnitsFinite, FS_CardinalityType
<1> DEFINE n == Cardinality(Requests)
           w == now - since
           k == Cardinality(K)
           s == n - k - Cardinality(Creating)
<1>5. n \in Nat /\ w \in Nat /\ k \in Nat /\ s \in Nat /\ n >= k + s
      /\ spent <= n * w + Cardinality(UnitsOf(Level)) + s * Room
  BY <1>1, <1>3, <1>4 DEF Covers
<1>6. spent <= n * (w + Brim)
  <2>1. Cardinality(UnitsOf(Level)) <= k * Brim
    BY <1>4
  <2> HIDE DEF n, w, k, s
  <2>2. s * Room <= s * Brim /\ s * Room \in Nat /\ n * w \in Nat /\ n * (w + Brim) = n * w + n * Brim
    BY <1>1, <1>2, <1>5, RateSums
  <2>3. PICK c \in Nat : n = k + s + c
    <3>1. n - (k + s) \in Nat /\ n = k + s + (n - (k + s))
      BY <1>5
    <3> QED BY <3>1
  <2>4. n * Brim = k * Brim + s * Brim + c * Brim /\ k * Brim \in Nat /\ s * Brim \in Nat /\ c * Brim \in Nat
    BY <1>1, <1>5, <2>3
  <2> QED BY <1>1, <1>4, <1>5, <2>1, <2>2, <2>4
<1>7. w + Brim = MaxTime + TimeStep + (now - since)
  BY <1>1, MaxTimeNat, LimiterAssumption DEF Brim
<1> QED BY <1>6, <1>7 DEF RateHeld

\* The client is held to the rate in every window, for every cost, burst, expiry and
\* finite number of requests at once, whichever miss together and however often the
\* cache forgets a bucket, provided it keeps one until it is empty: with the expiry of
\* a minute and the cost of 60000 / rate ms that is burst + 1 <= rate.
THEOREM ClientHeldToRate ==
    ASSUME IsFiniteSet(Requests), MaxTime + TimeStep <= Expiry
    PROVE  LimiterSpec => []RateHeld
<1>1. Brim <= Expiry
  BY DEF Brim
<1>2. now = 0 /\ LimiterInit => LimiterInv /\ RateInv
  BY LimiterInitInv, RateInitInv
<1>3. LimiterInv /\ RateInv /\ [LimiterNext]_<<now, limiterVars>> => RateInv'
  <2> SUFFICES ASSUME LimiterInv, RateInv, [LimiterNext]_<<now, limiterVars>> PROVE RateInv'
    OBVIOUS
  <2>1. CASE \E r \in Requests : CanHandle(r) /\ UNCHANGED now
    BY <1>1, <2>1, CanHandleRate DEF CanHandle
  <2>2. CASE OpenWindow /\ UNCHANGED now
    BY <2>2, WindowRate
  <2>3. CASE Tick /\ UNCHANGED limiterVars
    BY <2>3, TickRate
  <2>4. CASE UNCHANGED <<now, limiterVars>>
    BY <2>4, RateStutter
  <2> QED BY <2>1, <2>2, <2>3, <2>4 DEF LimiterNext
<1>4. LimiterInv /\ RateInv => RateHeld
  BY AccountHolds
<1> QED BY <1>2, <1>3, <1>4, LimiterInvariant, PTL DEF LimiterSpec

\* The same within the whole path of a request.
THEOREM EdgeHeldToRate ==
    ASSUME IsFiniteSet(Requests), MaxTime + TimeStep <= Expiry
    PROVE  EdgeSpec => []RateHeld
<1>1. Brim <= Expiry
  BY DEF Brim
<1>2. EdgeInit => RateInv
  BY RateInitInv DEF EdgeInit
<1>3. EdgeInv /\ RateInv /\ [EdgeNext]_vars => RateInv'
  <2> SUFFICES ASSUME LimiterInv, RateInv, [EdgeNext]_vars PROVE RateInv'
    BY DEF EdgeInv
  <2>1. CASE UNCHANGED <<now, limiterVars>>
    BY <2>1, RateStutter
  <2>2. ASSUME NEW r \in Requests, Arrive(r) \/ Handle(r) PROVE RateInv'
    <3>1. CASE Arrive(r)
      <4>1. now' = now /\ \E listed : CheckLists(r, listed)
        BY <3>1 DEF Arrive
      <4> QED BY <1>1, <4>1, CanHandleRate
    <3>2. CASE Limit(r) \/ Limited(r)
      <4>1. now' = now /\ (FindBucket(r) \/ Charge(r) \/ Create(r) \/ Leave(r))
        BY <3>2 DEF Limit, Limited
      <4> QED BY <1>1, <4>1, CanHandleRate
    <3>3. CASE CheckRequestCookie(r) \/ Resolve(r) \/ AskUpstream(r) \/ TakeUpstream(r) \/ Deliver(r)
      BY <2>1, <3>3 DEF CheckRequestCookie, Resolve, AskUpstream, TakeUpstream, Deliver
    <3> QED BY <2>2, <3>1, <3>2, <3>3 DEF Handle
  <2>3. CASE \E q \in Questions : Answer(q)
    BY <2>1, <2>3 DEF Answer
  <2>4. CASE OpenWindow /\ UNCHANGED <<now, upstreamVars, edgeVars>>
    BY <2>4, WindowRate
  <2>5. CASE Tick /\ UNCHANGED <<limiterVars, upstreamVars, edgeVars>>
    BY <2>5, TickRate
  <2>6. CASE UNCHANGED vars
    BY <2>1, <2>6 DEF vars
  <2> QED BY <2>2, <2>3, <2>4, <2>5, <2>6 DEF EdgeNext
<1>4. EdgeInv /\ RateInv => RateHeld
  BY AccountHolds DEF EdgeInv
<1> QED BY <1>2, <1>3, <1>4, EdgeInvariant, PTL DEF EdgeSpec
=============================================================================
