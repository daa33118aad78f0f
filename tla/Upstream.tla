------------------------------ MODULE Upstream ------------------------------
(***************************************************************************)
(* The resolver's upstream queries: Query looks in the cache, joins a call *)
(* for the same question that is under way, or makes one, which asks the   *)
(* connections in turn.  All queries share the connections, and a call     *)
(* writes the one that answered into the first place while others walk     *)
(* over them.                                                              *)
(***************************************************************************)
EXTENDS Clock, Sequences

CONSTANTS
    Callers,     \* the goroutines that query
    Questions,   \* pairs of a name and a type
    Servers,     \* the connections configured, a sequence
    Answers,     \* what an upstream may answer: the TTLs of the records, in their order
    DefaultTtl,  \* defaultCacheTtl, what the cache makes of a TTL of zero
    Silence      \* stands for an entry or a call that is not there

ASSUME UpstreamAssumption == Answers \subseteq Seq(Nat) \ {<<>>} /\ DefaultTtl \in Nat

VARIABLES
    cache,        \* per question, the records kept: [expires, records]
    connections,
    flight,       \* per question, how many connections the call under way has tried
    query         \* per caller: [at, question, reply]

upstreamVars == <<cache, connections, flight, query>>

\* Records are told apart by the TTLs the upstream gave them and the time they came.
NoRecords == [ttls |-> <<>>, got |-> 0]

\* What Query returns: the records, and the TTL the first of them has at the time of the
\* reply, which is the one findANAME takes; kept when the cache has set it.
NoReply == [rcode |-> "", records |-> NoRecords, ttl |-> 0, at |-> 0, kept |-> FALSE]

UpstreamInit ==
    /\ cache = [q \in Questions |-> Silence]
    /\ connections = Servers
    /\ flight = [q \in Questions |-> Silence]
    /\ query = [c \in Callers |-> [at |-> "out", question |-> Silence, reply |-> NoReply]]

Cached(q) == cache[q] # Silence /\ now <= cache[q].expires

\* Does d hold the very records that are in the cache?
Holds(d, q) == query[d].at = "answered" /\ query[d].question = q /\ query[d].reply.records = cache[q].records

\* The records the cache still has go out with the time that is left to them.  It is written
\* into the records themselves, which others who were given them may still have to read.
Hit(c, q) ==
    /\ query[c].at = "out" /\ Cached(q)
    /\ LET left == [rcode |-> "Success", records |-> cache[q].records, ttl |-> cache[q].expires - now,
                    at |-> now, kept |-> TRUE]
       IN query' = [d \in Callers |-> IF d = c \/ Holds(d, q) THEN [at |-> "answered", question |-> q, reply |-> left]
                                      ELSE query[d]]
    /\ UNCHANGED <<cache, connections, flight>>

Miss(c, q) ==
    /\ query[c].at = "out" /\ ~Cached(q)
    /\ query' = [query EXCEPT ![c] = [@ EXCEPT !.at = "missed", !.question = q]]
    /\ UNCHANGED <<cache, connections, flight>>

\* inflight.Do: start a call or wait for the one under way.
Share(c) ==
    /\ query[c].at = "missed"
    /\ query' = [query EXCEPT ![c].at = "waiting"]
    /\ flight' = [flight EXCEPT ![query[c].question] = IF @ = Silence THEN 0 ELSE @]
    /\ UNCHANGED <<cache, connections>>

\* Mutant: only one of those who wait is given the result.
ReturnToOne(q, reply) ==
    /\ \E one \in {c \in Callers : query[c].at = "waiting" /\ query[c].question = q} :
         query' = [query EXCEPT ![one] = [@ EXCEPT !.at = "answered", !.reply = reply]]
    /\ flight' = [flight EXCEPT ![q] = Silence]

\* The call returns, to everybody who waits for it.
Return(q, reply) ==
    /\ query' = [c \in Callers |-> IF query[c].at = "waiting" /\ query[c].question = q
                                   THEN [query[c] EXCEPT !.at = "answered", !.reply = reply] ELSE query[c]]
    /\ flight' = [flight EXCEPT ![q] = Silence]

Tried(q) == flight[q] # Silence

\* An exchange fails or times out: on to the next connection.
ExchangeFails(q) ==
    /\ Tried(q) /\ flight[q] < Len(connections)
    /\ flight' = [flight EXCEPT ![q] = @ + 1]
    /\ UNCHANGED <<cache, connections, query>>

\* An error or an answer without records is returned and not kept.
ExchangeEmpty(q) ==
    /\ Tried(q) /\ flight[q] < Len(connections)
    /\ \E rcode \in {"Success", "NameError"} :
         Return(q, [NoReply EXCEPT !.rcode = rcode, !.at = now])
    /\ UNCHANGED <<cache, connections>>

\* Mutant: the loop over the other records is left out.
FirstTtl(ttls) == ttls[1]

\* The smallest TTL of the records.
MinTtl(ttls) == CHOOSE ttl \in {ttls[i] : i \in DOMAIN ttls} : \A i \in DOMAIN ttls : ttl <= ttls[i]

\* How long the cache keeps what comes with a TTL: the default time if that is zero.
Kept(ttl) == IF ttl = 0 THEN DefaultTtl ELSE ttl

\* Records are kept for the smallest of their TTLs and returned with the TTLs they came
\* with; the connection that gave them comes first from now on.
ExchangeAnswers(q) ==
    /\ Tried(q) /\ flight[q] < Len(connections)
    /\ \E ttls \in Answers :
         LET records == [ttls |-> ttls, got |-> now]
         IN /\ cache' = [cache EXCEPT ![q] = [expires |-> now + Kept(MinTtl(ttls)), records |-> records]]
            /\ Return(q, [rcode |-> "Success", records |-> records, ttl |-> ttls[1], at |-> now, kept |-> FALSE])
    /\ connections' = [connections EXCEPT ![1] = connections[flight[q] + 1]]

\* No connection answered.
AllFail(q) ==
    /\ Tried(q) /\ flight[q] = Len(connections)
    /\ Return(q, [NoReply EXCEPT !.rcode = "ServerFailure", !.at = now])
    /\ UNCHANGED <<cache, connections>>

Exchange(q) == ExchangeFails(q) \/ ExchangeEmpty(q) \/ ExchangeAnswers(q) \/ AllFail(q)

\* The caller takes the reply.
Take(c) ==
    /\ query[c].at = "answered"
    /\ query' = [query EXCEPT ![c] = [at |-> "out", question |-> Silence, reply |-> NoReply]]
    /\ UNCHANGED <<cache, connections, flight>>

-----------------------------------------------------------------------------

\* When a record the cache keeps must be gone: when its own TTL ends, unless one of the
\* records came with a TTL of zero, for which go-cache puts its default time.
Due(records, i) ==
    records.got + IF \E j \in DOMAIN records.ttls : records.ttls[j] = 0 THEN DefaultTtl ELSE records.ttls[i]

\* What the cache gives out, to whoever asks and to those whose records a later query has
\* written to, outlives the TTL of none of the records: a chain ends with its shortest
\* link.  The reply of the exchange itself promises less (upstream.go:96, handler.go:648):
\* it goes out for the TTL of its first record, so that an address of 30 s behind a CNAME
\* of 300 s is given out for 300 s by those who waited for the call.
FreshReplies ==
    \A c \in Callers :
      LET r == query[c].reply
      IN \A i \in DOMAIN r.records.ttls :
           /\ r.kept => r.at + r.ttl <= Due(r.records, i)
           /\ ~r.kept => r.at + r.ttl <= r.records.got + r.records.ttls[1]
=============================================================================
