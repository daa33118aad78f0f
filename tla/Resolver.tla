------------------------------ MODULE Resolver ------------------------------
(***************************************************************************)
(* One DNS request from the cookie to the response: HandleRequest, with    *)
(* findANAME and findCAA.  Every read of a record set is a step of its     *)
(* own, so that Redis can fail, or the zone be edited, between two of      *)
(* them; the zone itself (its locations and configuration) is a snapshot   *)
(* taken once.  The cache in front of the snapshot is the subject of       *)
(* ZoneCache, the cookie's age and the upstream cache are those of Edge.   *)
(***************************************************************************)
EXTENDS ZoneTree, AddressSelection

CONSTANTS
    Cases,           \* the pairs [store, request] a behaviour may start from
    Edits,           \* the record sets [location, type, rrset] that may be written meanwhile
    ZoneLists,       \* the lists of zones that may be loaded meanwhile
    UpstreamAnswers, \* the sequences of addresses an upstream may return
    MaxLoop,         \* the bound on CNAMEs followed, 10 in the code
    MaxChanges,      \* bound on edits during the request
    Failed           \* the outcome of a read that failed

AddressTypes == {"A", "AAAA"}

\* What is kept under a type: a CNAME is a name and NS are names, <<>> when there is none.
WellFormed(type, rrset) ==
    /\ type = "CNAME" => rrset \in Seq(STRING)
    /\ type = "NS" => rrset \in Seq(Seq(STRING))
    /\ type \in AddressTypes /\ rrset # <<>> => rrset.data \in Seq(ToSet(rrset.data))

ASSUME ResolverAssumption ==
    /\ MaxLoop \in Nat /\ MaxChanges \in Nat
    /\ \A c \in Cases :
         /\ c.request.qname \in Seq(STRING)
         /\ DOMAIN c.store = {"zones", "locations", "config", "records"}
         /\ c.store.zones \subseteq Seq(STRING) /\ c.store.locations \subseteq Seq(STRING) \ {<<>>}
         /\ \A l \in DOMAIN c.store.records : \A t \in DOMAIN c.store.records[l] : WellFormed(t, c.store.records[l][t])
    /\ \A e \in Edits : WellFormed(e.type, e.rrset)
    /\ \A zones \in ZoneLists : zones \subseteq Seq(STRING)
    /\ UpstreamAnswers \subseteq Seq(STRING)

VARIABLES
    store,     \* [zones, locations, config, records]: what is published
    request,   \* [qname, qtype, do, cookie, client]
    changes,   \* edits so far
    pc,        \* where the handler is
    zone,      \* the snapshot, [name, locations, tree, dnssec, flat]
    cur,       \* currentQName
    loopCount,
    found,     \* the location and kind of match of the current name
    held,      \* what the handler keeps from one read to the next
    chase,     \* findANAME's own [name, count]
    ctx,       \* the RequestContext: [res, answer, authority, additional, dnssec]
    sent,      \* the responses written
    failed     \* history: a read the answer depends on has failed

inputs == <<store, request, changes>>
vars == <<store, request, changes, pc, zone, cur, loopCount, found, held, chase, ctx, sent, failed>>

qname == request.qname
qtype == request.qtype
RR(owner, type, data) == [owner |-> owner, type |-> type, data |-> data]
SOA == RR(zone.name, "SOA", <<>>)

\* A name server's answer for one key: the record set, <<>> when there is none, or an
\* error.  The record cache has no part in it: its entries are always out of date, and
\* the copy kept for a failed read is dropped with the error.
getRRSet(location, type) ==
    {Failed, IF location \in DOMAIN store.records /\ type \in DOMAIN store.records[location]
             THEN store.records[location][type] ELSE <<>>}

\* Value: one record per name server, host or datum.
Value(owner, type, rrset) ==
    IF type = "NS" THEN [i \in DOMAIN rrset |-> RR(owner, type, rrset[i])]
    ELSE IF rrset = <<>> THEN <<>> ELSE <<RR(owner, type, rrset)>>

\* generateA and generateAAAA.
generate(owner, ips) == [i \in DOMAIN ips |-> RR(owner, qtype, ips[i])]

\* filter, for a record set that may be empty.
Addresses(rrset) == IF rrset = <<>> THEN {<<>>} ELSE filter(rrset, request.client)

\* The NSEC record of a signed denial; it turns NXDOMAIN, and anything at the apex,
\* into NOERROR.
addNSec(c, name, type) ==
    IF ~c.dnssec THEN c
    ELSE [c EXCEPT !.res = IF name = zone.name \/ @ = "NameError" THEN "Success" ELSE @,
                   !.authority = Append(@, RR(name, "NSEC",
                        IF name = zone.name THEN "Apex" ELSE IF c.res = "NameError" THEN "NameError"
                        ELSE IF type = "DS" THEN "SubDelegation" ELSE "Zone"))]

\* Response: the message as the context has it; applyDnssec signs the last one.
Message(c, signed) ==
    [res |-> c.res, answer |-> c.answer, authority |-> c.authority, additional |-> c.additional, signed |-> signed]

ResolverInit ==
    /\ \E c \in Cases : store = c.store /\ request = c.request
    /\ changes = 0 /\ pc = "cookie"
    /\ zone = [name |-> <<>>, locations |-> {}, tree |-> {}, dnssec |-> FALSE, flat |-> FALSE]
    /\ cur = <<>> /\ loopCount = 0 /\ found = Found(<<>>, "NoMatch") /\ held = <<>>
    /\ chase = [name |-> <<>>, count |-> 0]
    /\ ctx = [res |-> "Success", answer |-> <<>>, authority |-> <<>>, additional |-> <<>>, dnssec |-> FALSE]
    /\ sent = <<>> /\ failed = FALSE

-----------------------------------------------------------------------------
(* Ways to go on. *)

Goto(label) == pc' = label /\ UNCHANGED <<inputs, zone, sent>>

\* break loop, with the context as it is to be sent.
Break(c) == ctx' = c /\ Goto("send") /\ UNCHANGED <<cur, found, held, chase>>

WithRes(res) == [ctx EXCEPT !.res = res]

\* Mutant: the error path forgets the response code.
ReadFailsSilently == Break(ctx) /\ failed' = TRUE /\ UNCHANGED loopCount

\* A read failed: SERVFAIL.
ReadFails == Break(WithRes("ServerFailure")) /\ failed' = TRUE /\ UNCHANGED loopCount

\* The end of the switch on the type: an empty answer is denied, with the zone's SOA if
\* the code is NOERROR.
Finish(c, answer) ==
    LET denied == addNSec(c, cur, qtype)
    IN  Break(IF answer # <<>> THEN [c EXCEPT !.answer = @ \o answer]
              ELSE IF denied.res = "Success" THEN [denied EXCEPT !.authority = Append(@, SOA)] ELSE denied)

\* What findANAME found, in place of the addresses of the location itself.
Chased(ips, res) == Finish(WithRes(res), generate(cur, ips))

Respond(c, label) ==
    /\ sent' = Append(sent, Message(c, FALSE)) /\ ctx' = c /\ pc' = label
    /\ UNCHANGED <<inputs, zone, cur, loopCount, found, held, chase>>

-----------------------------------------------------------------------------
(* Before the loop. *)

\* The switch on the cookie.  A malformed one is answered, and processing goes on.
CheckRequestCookie ==
    LET withCookie == [ctx EXCEPT !.additional = Append(@, RR(<<>>, "OPT", "cookie"))]
    IN  /\ pc = "cookie" /\ UNCHANGED failed
        /\ \/ /\ request.cookie \in {"none", "valid"}
              /\ ctx' = IF request.cookie = "none" THEN ctx ELSE withCookie
              /\ Goto("zone") /\ UNCHANGED <<cur, loopCount, found, held, chase>>
           \/ request.cookie = "badFormat" /\ Respond(WithRes("FormatError"), "zone")
           \/ request.cookie = "invalid" /\ Respond([withCookie EXCEPT !.res = "BadCookie"], "done")

\* The name is in no zone, or the zone cannot be read and is not cached.
RefuseZone ==
    /\ pc = "zone"
    /\ \/ FindZone(store.zones, qname) = <<>> /\ Respond(WithRes("NotAuth"), "done") /\ UNCHANGED failed
       \/ FindZone(store.zones, qname) # <<>> /\ Respond(WithRes("ServerFailure"), "done") /\ failed' = TRUE

\* GetZone: the locations, and the configuration if it could be read; a signed zone
\* whose keys cannot be loaded is served unsigned.
OpenZone ==
    /\ pc = "zone" /\ FindZone(store.zones, qname) # <<>>
    /\ \E config \in {store.config, [store.config EXCEPT !.dnssec = FALSE], [dnssec |-> FALSE, flat |-> FALSE]} :
         LET dnssec == request.do /\ config.dnssec
         IN  /\ zone' = [name |-> FindZone(store.zones, qname), locations |-> store.locations, tree |-> TreeKeys(store.locations),
                         dnssec |-> config.dnssec, flat |-> dnssec \/ config.flat]
             /\ ctx' = [ctx EXCEPT !.dnssec = dnssec]
    /\ cur' = qname /\ loopCount' = 0 /\ pc' = "loop"
    /\ UNCHANGED <<inputs, found, held, chase, sent, failed>>

-----------------------------------------------------------------------------
(* The loop over the names of a CNAME chain. *)

LoopLimit ==
    /\ pc = "loop" /\ loopCount > MaxLoop
    /\ Break([ctx EXCEPT !.answer = <<>>, !.res = "ServerFailure"])
    /\ UNCHANGED <<loopCount, failed>>

\* Mutant: the loop does not count its turns.
TurnUncounted(inZone, match) ==
    /\ pc = "loop" /\ UNCHANGED <<loopCount, failed>>
    /\ (FindZone(store.zones, cur) = zone.name) = inZone
    /\ inZone => FindLocation(zone, cur).match \in match

\* A turn of the loop, for a name found in the way "match".
Turn(inZone, match) ==
    /\ pc = "loop" /\ loopCount <= MaxLoop
    /\ loopCount' = loopCount + 1 /\ UNCHANGED failed
    /\ (FindZone(store.zones, cur) = zone.name) = inZone
    /\ inZone => FindLocation(zone, cur).match \in match

LeaveZone ==
    /\ Turn(FALSE, {})
    /\ Break(IF ctx.answer = <<>> THEN addNSec(WithRes("Success"), qname, qtype) ELSE WithRes("Success"))

Denial(res) == addNSec([ctx EXCEPT !.authority = <<SOA>>, !.res = res], cur, "None")

NoSuchName == Turn(TRUE, {"NoMatch"}) /\ Break(Denial("NameError"))

EmptyNonterminal == Turn(TRUE, {"EmptyNonterminalMatch"}) /\ Break(Denial("Success"))

\* Below an existing name the next read is its NS, at the name itself it is its CNAME.
NameFound ==
    /\ Turn(TRUE, {"CEMatch", "ExactMatch", "WildCardMatch"})
    /\ found' = FindLocation(zone, cur)
    /\ Goto(IF found'.match = "CEMatch" THEN "ns" ELSE "cname")
    /\ UNCHANGED <<cur, held, chase, ctx>>

\* Mutant: a flattened chain answers under the name it ends at.
FinalLocationUnflattened == Goto("answer") /\ UNCHANGED cur

\* The last name of the chain; a flattened chain answers for the name asked.
FinalLocation == Goto("answer") /\ cur' = IF zone.flat THEN qname ELSE cur

\* A CNAME is followed, unless it is what was asked; flattening hides it unless it
\* leaves the zone.
ReadCNAME ==
    /\ pc = "cname"
    /\ \E cname \in getRRSet(found.location, "CNAME") :
         \/ cname = Failed /\ ReadFails
         \/ /\ cname \notin {Failed, <<>>} /\ qtype # "CNAME"
            /\ UNCHANGED <<loopCount, failed>>
            /\ IF zone.flat /\ FindZone(store.zones, cname) # zone.name
               THEN Break([ctx EXCEPT !.answer = Append(@, RR(qname, "CNAME", cname)), !.res = "Success"])
               ELSE /\ ctx' = IF zone.flat THEN ctx ELSE [ctx EXCEPT !.answer = Append(@, RR(cur, "CNAME", cname))]
                    /\ cur' = cname /\ Goto("loop") /\ UNCHANGED <<found, held, chase>>
         \/ /\ cname # Failed /\ (cname = <<>> \/ qtype = "CNAME")
            /\ IF cur # zone.name THEN Goto("ns") /\ UNCHANGED cur ELSE FinalLocation
            /\ UNCHANGED <<loopCount, found, held, chase, ctx, failed>>

-----------------------------------------------------------------------------
(* Delegations. *)

BelowCut == found.match = "CEMatch"
CutPoint == IF BelowCut THEN zone.name \o found.location ELSE cur

ReadNS ==
    /\ pc = "ns"
    /\ \E ns \in getRRSet(found.location, "NS") :
         \/ ns = Failed /\ ReadFails
         \/ /\ ns \notin {Failed, <<>>}
            /\ held' = ns
            /\ ctx' = IF BelowCut THEN [ctx EXCEPT !.authority = @ \o Value(CutPoint, "NS", ns)] ELSE ctx
            /\ Goto("ds") /\ UNCHANGED <<cur, loopCount, found, chase, failed>>
         \/ /\ ns = <<>> /\ UNCHANGED <<loopCount, failed>>
            /\ IF BelowCut THEN Break(Denial("NameError"))
               ELSE FinalLocation /\ UNCHANGED <<found, held, chase, ctx>>

ReadDS ==
    /\ pc = "ds"
    /\ \E ds \in getRRSet(found.location, "DS") :
         \/ ds = Failed /\ ReadFails
         \/ /\ ds # Failed /\ UNCHANGED <<loopCount, failed>>
            /\ IF ds # <<>> /\ ~BelowCut /\ qtype = "DS"
               THEN Break([ctx EXCEPT !.answer = @ \o Value(cur, "DS", ds), !.res = "Success"])
               ELSE LET c == IF ds = <<>> THEN addNSec(ctx, CutPoint, "DS") ELSE ctx
                    IN  /\ ctx' = [c EXCEPT !.authority = @ \o Value(CutPoint, "DS", ds)
                                                            \o (IF BelowCut THEN <<>> ELSE Value(cur, "NS", held))]
                        /\ Goto("glue") /\ UNCHANGED <<cur, found, held, chase>>

\* The addresses of the name servers; a read that fails only leaves its glue out.
Glue ==
    /\ pc = "glue"
    /\ \E got \in SUBSET (ToSet(held) \X AddressTypes) :
         LET glue == {RR(g[1], g[2], FindLocation(zone, g[1]).location) :
                        g \in {h \in got : /\ FindLocation(zone, h[1]).match # "NoMatch"
                                           /\ getRRSet(FindLocation(zone, h[1]).location, h[2]) # {Failed, <<>>}}}
         IN  Break([ctx EXCEPT !.additional = @ \o SetToSeq(glue), !.res = "Success"])
    /\ UNCHANGED <<loopCount, failed>>

-----------------------------------------------------------------------------
(* The switch on the type, at the final location. *)

\* TXT, MX, SRV, PTR and TLSA are read alike, and so are CNAME and NS.
AnswerRecords ==
    /\ pc = "answer" /\ qtype \in {"CNAME", "NS", "TXT"}
    /\ \E rrset \in getRRSet(found.location, qtype) :
         \/ rrset = Failed /\ ReadFails
         \/ rrset # Failed /\ Finish(ctx, Value(cur, qtype, rrset)) /\ UNCHANGED <<loopCount, failed>>

\* The types answered from the zone itself; any other type is denied.
AnswerZone ==
    /\ pc = "answer" /\ qtype \in {"SOA", "DNSKEY", "DS", "OTHER"}
    /\ \/ qtype = "SOA" /\ Finish(ctx, <<SOA>>)
       \/ qtype = "DNSKEY" /\ Finish(ctx, IF zone.dnssec THEN <<RR(zone.name, "DNSKEY", "zsk"), RR(zone.name, "DNSKEY", "ksk")>>
                                          ELSE <<>>)
       \/ qtype = "DS" /\ Finish(ctx, <<>>)
       \/ qtype = "OTHER" /\ Break([ctx EXCEPT !.answer = <<>>, !.authority = <<SOA>>, !.res = "Success"])
    /\ UNCHANGED <<loopCount, failed>>

ReadAddresses ==
    /\ pc = "answer" /\ qtype \in AddressTypes
    /\ \E rrset \in getRRSet(found.location, qtype) :
         \/ rrset = Failed /\ ReadFails
         \/ /\ rrset # Failed /\ held' = rrset /\ Goto("aname")
            /\ UNCHANGED <<cur, loopCount, found, chase, ctx, failed>>

\* An ANAME stands in for addresses the location does not have.
ReadANAME ==
    /\ pc = "aname"
    /\ \E aname \in getRRSet(found.location, "ANAME") :
         \/ aname = Failed /\ ReadFails
         \/ /\ aname \notin {Failed, <<>>} /\ held = <<>>
            /\ chase' = [name |-> aname, count |-> 0] /\ Goto("chase")
            /\ UNCHANGED <<cur, loopCount, found, held, ctx, failed>>
         \/ /\ aname # Failed /\ (aname = <<>> \/ held # <<>>)
            /\ \E ips \in Addresses(held) : Finish(ctx, generate(cur, ips))
            /\ UNCHANGED <<loopCount, failed>>

-----------------------------------------------------------------------------
(* findCAA: the nearest set on the way up from the name, then the apex.  An error of any *)
(* of these reads is dropped: the search goes on, or ends with nothing.                   *)

NoteFailure(rrset) == failed' = (failed \/ rrset = Failed)

StartCAA ==
    /\ pc = "answer" /\ qtype = "CAA" /\ UNCHANGED loopCount
    /\ \E caa \in getRRSet(FindLocation(zone, cur).location, "CAA") :
         /\ NoteFailure(caa)
         /\ \/ caa \notin {Failed, <<>>} /\ Finish(ctx, Value(cur, "CAA", caa))
            \/ /\ caa \in {Failed, <<>>} /\ held' = FindLocation(zone, cur).location
               /\ Goto("climb") /\ UNCHANGED <<cur, found, chase, ctx>>

ClimbCAA ==
    /\ pc = "climb" /\ Len(held) > 1 /\ UNCHANGED loopCount
    /\ LET up == FindTrimmed(zone, Front(held))
       IN  \/ /\ up.match \in {"ExactMatch", "WildCardMatch"}
              /\ \E caa \in getRRSet(up.location, "CAA") :
                   /\ NoteFailure(caa)
                   /\ \/ caa \notin {Failed, <<>>} /\ Finish(ctx, Value(cur, "CAA", caa))
                      \/ /\ caa \in {Failed, <<>>} /\ held' = IF caa = Failed THEN Front(held) ELSE up.location
                         /\ Goto("climb") /\ UNCHANGED <<cur, found, chase, ctx>>
           \/ /\ up.match \notin {"ExactMatch", "WildCardMatch"} /\ held' = Front(held)
              /\ Goto("climb") /\ UNCHANGED <<cur, found, chase, ctx, failed>>

ApexCAA ==
    /\ pc = "climb" /\ Len(held) <= 1 /\ UNCHANGED loopCount
    /\ \E caa \in getRRSet(Apex, "CAA") :
         NoteFailure(caa) /\ Finish(ctx, IF caa = Failed THEN <<>> ELSE Value(cur, "CAA", caa))

-----------------------------------------------------------------------------
(* findANAME: the loop over the names an ANAME leads to. *)

ChaseFails == Chased(<<>>, "ServerFailure") /\ failed' = TRUE

ChaseLimit == pc = "chase" /\ chase.count > MaxLoop /\ ChaseFails /\ UNCHANGED loopCount

ChaseInZone == pc = "chase" /\ chase.count <= MaxLoop /\ FindZone(store.zones, chase.name) = zone.name

\* A name of another zone is asked of the upstream servers.
ChaseUpstream ==
    /\ pc = "chase" /\ chase.count <= MaxLoop /\ FindZone(store.zones, chase.name) # zone.name
    /\ \/ \E ips \in UpstreamAnswers : Chased(ips, "Success") /\ UNCHANGED failed
       \/ ChaseFails
    /\ UNCHANGED loopCount

ChaseName(name) ==
    /\ chase' = [name |-> name, count |-> chase.count + 1] /\ Goto("chase")
    /\ UNCHANGED <<cur, found, held, ctx, failed>>

ChaseCNAME ==
    /\ ChaseInZone /\ UNCHANGED loopCount
    /\ LET at == FindLocation(zone, chase.name)
       IN  \/ at.match = "NoMatch" /\ ChaseFails
           \/ /\ at.match # "NoMatch"
              /\ \E cname \in getRRSet(at.location, "CNAME") :
                   \/ cname = Failed /\ ChaseFails
                   \/ cname \notin {Failed, <<>>} /\ ChaseName(cname)
                   \/ /\ cname = <<>> /\ found' = at /\ Goto("chaseAddress")
                      /\ UNCHANGED <<cur, held, chase, ctx, failed>>

ChaseAddress ==
    /\ pc = "chaseAddress" /\ UNCHANGED loopCount
    /\ \E rrset \in getRRSet(found.location, qtype) :
         \/ rrset = Failed /\ ChaseFails
         \/ /\ rrset \notin {Failed, <<>>}
            /\ \E ips \in Addresses(rrset) : Chased(ips, "Success")
            /\ UNCHANGED failed
         \/ rrset = <<>> /\ Goto("chaseNext") /\ UNCHANGED <<cur, found, held, chase, ctx, failed>>

ChaseANAME ==
    /\ pc = "chaseNext" /\ UNCHANGED loopCount
    /\ \E aname \in getRRSet(found.location, "ANAME") :
         \/ aname = Failed /\ ChaseFails
         \/ aname \notin {Failed, <<>>} /\ ChaseName(aname)
         \/ aname = <<>> /\ Chased(<<>>, "Success") /\ UNCHANGED failed

-----------------------------------------------------------------------------

Send ==
    /\ pc = "send" /\ pc' = "done"
    /\ sent' = Append(sent, Message(ctx, ctx.dnssec))
    /\ UNCHANGED <<inputs, zone, cur, loopCount, found, held, chase, ctx, failed>>

HandleRequest ==
    \/ CheckRequestCookie \/ RefuseZone \/ OpenZone
    \/ LoopLimit \/ LeaveZone \/ NoSuchName \/ EmptyNonterminal \/ NameFound \/ ReadCNAME
    \/ ReadNS \/ ReadDS \/ Glue
    \/ AnswerRecords \/ AnswerZone \/ ReadAddresses \/ ReadANAME
    \/ StartCAA \/ ClimbCAA \/ ApexCAA
    \/ ChaseLimit \/ ChaseUpstream \/ ChaseCNAME \/ ChaseAddress \/ ChaseANAME
    \/ Send

\* The updater writes a record set, or the list of zones is loaded anew.
Publish ==
    /\ changes < MaxChanges /\ changes' = changes + 1 /\ pc \notin {"send", "done"}
    /\ \/ \E e \in Edits : store' = [store EXCEPT !.records =
              [l \in DOMAIN @ \union {e.location} |->
                 IF l # e.location THEN @[l]
                 ELSE [t \in {e.type} \union (IF l \in DOMAIN @ THEN DOMAIN @[l] ELSE {}) |->
                         IF t = e.type THEN e.rrset ELSE @[l][t]]]]
       \/ \E zones \in ZoneLists : store' = [store EXCEPT !.zones = zones]
    /\ UNCHANGED <<request, pc, zone, cur, loopCount, found, held, chase, ctx, sent, failed>>

ResolverNext == HandleRequest \/ Publish

\* A read returns or fails, and an upstream exchange times out: the handler goes on.
ResolverSpec == ResolverInit /\ [][ResolverNext]_vars /\ WF_vars(HandleRequest)
-----------------------------------------------------------------------------
(* Properties. *)

Answered == pc = "done" /\ sent # <<>>
Reply == sent[Len(sent)]

\* Every request is answered: a chain of CNAMEs or ANAMEs that loops, failed reads and a
\* zone that is edited on the way never keep HandleRequest from its response.
EveryRequestAnswered == <>Answered

\* The answer section is one chain: it starts at the name asked, every CNAME is followed
\* by records of its target, and the chain ends in records of the type asked; whatever
\* is edited between the reads.  A flattened chain shows the name asked only.  Outside
\* of it: SOA and DNSKEY, which are answered with the zone's records under any name, and
\* the DS of a delegation behind a flattened CNAME, which keeps the target's name.
AnswerIsChain ==
    Answered /\ qtype \notin {"SOA", "DNSKEY"} /\ ~(zone.flat /\ qtype = "DS") =>
        LET a == Reply.answer
        IN  /\ a # <<>> => a[1].owner = qname
            /\ \A i \in 1..Len(a) - 1 :
                 IF a[i].type = "CNAME" THEN a[i + 1].owner = a[i].data ELSE a[i + 1].owner = a[i].owner /\ a[i + 1].type = a[i].type
            /\ \A i \in DOMAIN a : a[i].type \in {"CNAME", qtype}

\* A failure is not passed off as a fact about the zone: when a read that decides the
\* answer fails, the response says SERVFAIL and holds no record but the CNAMEs followed
\* before.  Two exceptions.  At the signed apex addNSec turns any code, the SERVFAIL of
\* an ANAME too, into NOERROR.  And of a request for CAA it is not true: findCAA drops
\* its errors (handler.go:585, the TODO at handler.go:398), so that a failed read makes
\* the answer empty, with NOERROR, or the set of a name further up; all that is left
\* there is that the name itself is not denied.
FailureIsNotDenial ==
    Answered /\ failed =>
        IF qtype = "CAA" THEN Reply.res # "NameError"
        ELSE /\ Reply.res = "ServerFailure" \/ (ctx.dnssec /\ qname = zone.name)
             /\ \A i \in DOMAIN Reply.answer : Reply.answer[i].type = "CNAME"

\* The lookup tree agrees with RFC 4592: a name is denied (NXDOMAIN, or its signed form)
\* only if it neither exists nor is covered by the wildcard of its closest encloser, and
\* it is said to have no such data, or given data, only if it does or is.
LookupIsRight ==
    Answered /\ Reply.res # "ServerFailure" /\ FindZone({zone.name}, cur) # <<>> =>
        LET real == NameExists(zone, cur) \/ Synthesized(zone, cur)
            nxdomain == Reply.res = "NameError" \/ \E i \in DOMAIN Reply.authority : Reply.authority[i].type = "NSEC" /\ Reply.authority[i].data = "NameError"
            nodata == ~nxdomain /\ \E i \in DOMAIN Reply.authority : Reply.authority[i].type = "SOA"
            data == \E i \in DOMAIN Reply.answer : Reply.answer[i].type # "CNAME"
        IN  (nxdomain => ~real) /\ (nodata \/ data => real)

\* The addresses a client is given out of a record set, after the CNAMEs that led there,
\* are those the set's geo filter, order and count promise, in every draw of the random
\* start.
SelectionKeepsPromise ==
    Answered /\ Reply.res = "Success" /\ qtype \in AddressTypes /\ held # <<>> =>
        LET a == Reply.answer
            cnames == Cardinality({i \in DOMAIN a : a[i].type # qtype})
            given == [i \in 1..Len(a) - cnames |-> a[cnames + i].data]
        IN  given # <<>> => GoodSelection(held, request.client, given)
=============================================================================
