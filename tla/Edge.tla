-------------------------------- MODULE Edge --------------------------------
(***************************************************************************)
(* The path of a request through the resolver around the zone data:        *)
(* handleRequest with the rate limiter, the switch on the cookie, and the  *)
(* upstream query of an ANAME that leaves the zone.  One client sends      *)
(* requests and keeps the cookie of the last response it got; responses    *)
(* may be lost or overtake each other.                                     *)
(***************************************************************************)
EXTENDS RateLimiter, Upstream, Cookies

CONSTANTS
    CookieKinds,  \* of "client", "foreign" and "malformed", the odd cookies requests may carry
    Setups        \* records [limited, cookies, aname]: is the limiter enabled, does the client use
                  \* cookies, does the name asked have an ANAME that leaves the zone

\* A request asks upstream for itself, and no odd cookie counts as the server's own.
ASSUME EdgeAssumption ==
    Requests \subseteq Callers /\ CookieKinds \subseteq {"client", "foreign", "malformed"}

VARIABLES
    setup,
    stage,   \* per request: "idle", "limit", "cookie", "upstream" or "reply"
    sent,    \* per request: the cookie it carries, [kind, made, answered]
    reply,   \* per request: the response, [res, made, at]; made is 0 when it has no cookie
    jar      \* the client's cookie: [kind, made, answered]

edgeVars == <<setup, stage, sent, reply, jar>>
vars == <<now, limiterVars, upstreamVars, edgeVars>>

NoCookie == [kind |-> "none", made |-> 0, answered |-> 0]
NoResponse == [res |-> "", made |-> 0, at |-> 0]

EdgeInit ==
    /\ now = 1 /\ LimiterInit /\ UpstreamInit /\ setup \in Setups
    /\ stage = [r \in Requests |-> "idle"]
    /\ sent = [r \in Requests |-> NoCookie]
    /\ reply = [r \in Requests |-> NoResponse]
    /\ jar = NoCookie

\* The client sends what it has in its jar, or only its own half of a cookie, a cookie
\* made for another address, or one that cannot be read.
Arrive(r) ==
    /\ stage[r] = "idle"
    /\ \E listed \in IF setup.limited THEN Lists ELSE {"white"} : CheckLists(r, listed)
    /\ \E cookie \in {jar} \union {[NoCookie EXCEPT !.kind = kind] : kind \in IF setup.cookies THEN CookieKinds ELSE {}} :
         sent' = [sent EXCEPT ![r] = cookie]
    /\ stage' = [stage EXCEPT ![r] = "limit"]
    /\ UNCHANGED <<now, upstreamVars, setup, reply, jar>>

Limit(r) ==
    /\ stage[r] = "limit" /\ (FindBucket(r) \/ Charge(r) \/ Create(r))
    /\ UNCHANGED <<now, upstreamVars, edgeVars>>

\* A response, with the time at which its cookie was made and that at which it was put in.
Response(res, made) == [res |-> res, made |-> made, at |-> IF made = 0 THEN 0 ELSE now]

Reply(r, res, made) ==
    /\ reply' = [reply EXCEPT ![r] = Response(res, made)]
    /\ stage' = [stage EXCEPT ![r] = "reply"]

\* CanHandle has returned: the request is refused or handled.
Limited(r) ==
    /\ stage[r] = "limit" /\ Leave(r)
    /\ \/ check[r].at = "refused" /\ Reply(r, "Refused", 0)
       \/ check[r].at = "accepted" /\ stage' = [stage EXCEPT ![r] = "cookie"] /\ UNCHANGED reply
    /\ UNCHANGED <<now, upstreamVars, setup, sent, jar>>

GoodCookie(r) == sent[r].kind = "server" /\ CheckCookie(sent[r].made)

\* The switch on the cookie; a request without a good one is sent a new one and goes no
\* further.  A malformed cookie gets a response of its own, which is left out here.
CheckRequestCookie(r) ==
    /\ stage[r] = "cookie"
    /\ IF sent[r].kind \in {"none", "malformed"} \/ GoodCookie(r)
       THEN /\ reply' = [reply EXCEPT ![r] = Response("", IF GoodCookie(r) THEN CopyCookie(sent[r].made) ELSE 0)]
            /\ stage' = [stage EXCEPT ![r] = "upstream"]
       ELSE Reply(r, "BadCookie", SetNewCookie)
    /\ UNCHANGED <<now, limiterVars, upstreamVars, setup, sent, jar>>

\* The answer comes from the zone.
Resolve(r) ==
    /\ stage[r] = "upstream" /\ ~setup.aname
    /\ reply' = [reply EXCEPT ![r].res = "Success"]
    /\ stage' = [stage EXCEPT ![r] = "reply"]
    /\ UNCHANGED <<now, limiterVars, upstreamVars, setup, sent, jar>>

\* findANAME asks upstream.
AskUpstream(r) ==
    /\ stage[r] = "upstream" /\ setup.aname
    /\ (\E q \in Questions : Hit(r, q) \/ Miss(r, q)) \/ Share(r)
    /\ UNCHANGED <<now, limiterVars, edgeVars>>

TakeUpstream(r) ==
    /\ stage[r] = "upstream" /\ Take(r)
    /\ reply' = [reply EXCEPT ![r].res = IF query[r].reply.rcode = "Success" THEN "Success" ELSE "ServerFailure"]
    /\ stage' = [stage EXCEPT ![r] = "reply"]
    /\ UNCHANGED <<now, limiterVars, setup, sent, jar>>

\* The response reaches the client, which keeps its cookie, or is lost.
Deliver(r) ==
    /\ stage[r] = "reply"
    /\ stage' = [stage EXCEPT ![r] = "idle"]
    /\ jar' \in {jar, IF reply[r].made = 0 THEN jar ELSE [kind |-> "server", made |-> reply[r].made, answered |-> reply[r].at]}
    /\ sent' = [sent EXCEPT ![r] = NoCookie] /\ reply' = [reply EXCEPT ![r] = NoResponse]
    /\ UNCHANGED <<now, limiterVars, upstreamVars, setup>>

Handle(r) ==
    Limit(r) \/ Limited(r) \/ CheckRequestCookie(r) \/ Resolve(r) \/ AskUpstream(r) \/ TakeUpstream(r) \/ Deliver(r)

Answer(q) == Exchange(q) /\ UNCHANGED <<now, limiterVars, edgeVars>>

EdgeNext ==
    \/ \E r \in Requests : Arrive(r) \/ Handle(r)
    \/ \E q \in Questions : Answer(q)
    \/ setup.limited /\ OpenWindow /\ UNCHANGED <<now, upstreamVars, edgeVars>>
    \/ Tick /\ UNCHANGED <<limiterVars, upstreamVars, edgeVars>>

\* Goroutines run, and an exchange ends by its timeout at the latest.
EdgeSpec ==
    /\ EdgeInit /\ [][EdgeNext]_vars
    /\ \A r \in Requests : WF_vars(Handle(r))
    /\ \A q \in Questions : WF_vars(Answer(q))

-----------------------------------------------------------------------------

\* A client that keeps returning its cookie is never turned away: a cookie the server
\* gave out or confirmed is good for the lifetime less the renewal age from then on,
\* in whatever order the responses came and whichever were lost.
CookieStaysGood ==
    \A r \in Requests : stage[r] = "reply" /\ reply[r].res = "BadCookie" /\ sent[r].kind = "server"
        => reply[r].at > sent[r].answered + (Lifetime - Renewal)

\* Every request is answered, also those that wait for the call of another one.
EveryRequestReplied == \A r \in Requests : stage[r] # "idle" ~> stage[r] = "idle"
=============================================================================
