----------------------------- MODULE MCResolver -----------------------------
(***************************************************************************)
(* A small instance of Resolver for TLC: one zone with chains, a loop, a   *)
(* wildcard, an empty non-terminal, a delegation and ANAMEs, and the       *)
(* requests that tell them apart.                                          *)
(***************************************************************************)
EXTENDS Resolver

Z == <<"z">>
Name(l) == IF l = Apex THEN Z ELSE Z \o l
Outside == <<"o", "x">>
SubZone == <<"z", "sub">>

Addr(ip, weight, country, asn, distance) ==
    [ip |-> ip, weight |-> weight, country |-> country, asn |-> asn, distance |-> distance]
Set(count, order, geo, data) == [count |-> count, order |-> order, geo |-> geo, data |-> data]
Plain(ip) == Set("multi", "none", "none", <<Addr(ip, 0, {}, {}, 1)>>)

GeoData == <<Addr("i1", 0, {"ir"}, {"as1"}, 2), Addr("i2", 1, {"ir", "de"}, {"as2"}, 1),
             Addr("i3", 2, {}, {"as1"}, 1), Addr("i4", 1, {"de"}, {}, 3), Addr("i5", 0, {"", "us"}, {""}, 3)>>
Filters == {Set(c, o, g, GeoData) : c \in {"multi", "single"}, o \in {"weighted", "rr", "none"},
                                    g \in {"asn", "country", "asn+country", "location", "none"}}
Clients == {[country |-> c, asn |-> a, located |-> c # LookupError] :
              c \in {"ir", "us", Nowhere, LookupError}, a \in {"as1", "as3", Nowhere, LookupError}}
Anyone == [country |-> Nowhere, asn |-> Nowhere, located |-> FALSE]

\* a -> b -> c; l loops; o leaves the zone; m has no target; *.w is a wildcard; e is an
\* empty non-terminal above e.t; s is delegated; n, n2, n3, n4 have ANAMEs.
Records == Apex :> [NS |-> <<Name(<<"c">>)>>, ANAME |-> Outside, CAA |-> <<"caa">>]
    @@ <<"a">> :> [CNAME |-> Name(<<"b">>)]       @@ <<"b">> :> [CNAME |-> Name(<<"c">>)]
    @@ <<"c">> :> [A |-> Plain("ic"), TXT |-> <<"tc">>]
    @@ <<"l">> :> [CNAME |-> Name(<<"l">>)]       @@ <<"o">> :> [CNAME |-> Outside]
    @@ <<"m">> :> [CNAME |-> Name(<<"c", "no">>)] @@ <<"u">> :> [CNAME |-> Append(SubZone, "v")]
    @@ <<"w", "*">> :> [TXT |-> <<"tw">>]
    @@ <<"e", "t">> :> [CAA |-> <<"ce">>, A |-> Plain("ie")]  @@ <<"e", "t", "f", "g">> :> [TXT |-> <<"tg">>]
    @@ <<"s">> :> [NS |-> <<Name(<<"c">>), Outside>>, DS |-> <<"ds">>]
    @@ <<"d">> :> [NS |-> <<Name(<<"s", "k">>)>>]
    @@ <<"n">> :> [ANAME |-> Name(<<"a">>)]       @@ <<"q">> :> [ANAME |-> Name(<<"q">>)]
    @@ <<"r">> :> [ANAME |-> Name(<<"e", "y">>)]
    @@ <<"y">> :> [CNAME |-> Name(<<"d">>)]
    @@ <<"g">> :> [TXT |-> <<"geo">>]

Store(config, geo) ==
    [zones |-> {Z}, locations |-> DOMAIN Records \ {Apex}, config |-> config,
     records |-> IF geo = <<>> THEN Records ELSE [Records EXCEPT ![<<"g">>] = [A |-> geo]]]
Configs == {[dnssec |-> FALSE, flat |-> FALSE], [dnssec |-> FALSE, flat |-> TRUE], [dnssec |-> TRUE, flat |-> FALSE]}

Request(name, type, do, cookie, client) ==
    [qname |-> name, qtype |-> type, do |-> do, cookie |-> cookie, client |-> client]

\* The names asked: every location, names below them, and one of another zone.
Asked == {Name(l) : l \in DOMAIN Records}
    \union {Name(l) : l \in {<<"no">>, <<"w", "1", "2">>, <<"w">>, <<"e">>, <<"e", "x">>, <<"s", "1">>, <<"c", "1">>, <<"e", "t", "f">>}}
    \union {Outside}
\* Every type at the names where its case differs, addresses and TXT everywhere.
Questions ==
    Asked \X {"A", "TXT"}
    \union {Name(l) : l \in {Apex, <<"c">>, <<"a">>, <<"s">>, <<"y">>, <<"e", "t", "f", "g">>, <<"w", "1", "2">>}}
             \X {"AAAA", "CNAME", "NS", "CAA", "SOA", "DNSKEY", "DS", "OTHER"}

MCCases ==
    {[store |-> Store(c, <<>>), request |-> Request(q[1], q[2], TRUE, "none", Anyone)] : c \in Configs, q \in Questions}
    \union {[store |-> Store([dnssec |-> FALSE, flat |-> FALSE], <<>>), request |-> Request(Name(<<"a">>), "A", FALSE, k, Anyone)] :
              k \in {"valid", "badFormat", "invalid"}}
    \union {[store |-> Store([dnssec |-> FALSE, flat |-> FALSE], f), request |-> Request(Name(<<"g">>), "A", FALSE, "none", k)] :
              f \in Filters, k \in Clients}

MCEdits == {[location |-> <<"c">>, type |-> "CNAME", rrset |-> Name(<<"a">>)],
            [location |-> <<"c">>, type |-> "A", rrset |-> <<>>],
            [location |-> <<"b">>, type |-> "CNAME", rrset |-> <<>>],
            [location |-> <<"b">>, type |-> "NS", rrset |-> <<Outside>>],
            [location |-> <<"s">>, type |-> "NS", rrset |-> <<>>]}
MCZoneLists == {{}, {Z, SubZone}}
MCUpstreamAnswers == {<<>>, <<"up1">>, <<"up1", "up2">>}
=============================================================================
