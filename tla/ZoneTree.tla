------------------------------ MODULE ZoneTree ------------------------------
(***************************************************************************)
(* How a name is looked up: the list of zones and the tree of a zone's     *)
(* locations.  A domain name is the sequence of its labels from the top    *)
(* level down, the order ReverseName turns it into: a.zone.com. is         *)
(* <<"com", "zone", "a">>, and a byte prefix that ends at a dot is a       *)
(* prefix of the sequence.  A location is relative to its zone.            *)
(***************************************************************************)
EXTENDS Naturals, Sequences, FiniteSets, SequencesExt

\* The location of a zone's own records, "@".
Apex == <<"@">>
Wildcard == "*"

\* The longest key of a radix tree that is a prefix of a name, as a set that is empty
\* when there is none.
LongestPrefix(keys, name) ==
    LET found == Prefixes(name) \cap keys
    IN  {k \in found : \A j \in found : Len(j) <= Len(k)}

\* The zone a name belongs to, among those that are served; <<>> is "".
FindZone(zones, qname) ==
    IF LongestPrefix(zones, qname) = {} THEN <<>>
    ELSE CHOOSE z \in LongestPrefix(zones, qname) : TRUE

\* Mutant: the names above a location are not entered.
TreeKeysFlat(locations) == locations

\* The keys of the tree NewZone builds: every location, with the location as its
\* value, and everything above one, with no value.
TreeKeys(locations) == UNION {{SubSeq(l, 1, i) : i \in DOMAIN l} : l \in locations}

\* What is left of a name without its zone.  A name of another zone keeps its trailing
\* dot, which ReverseName puts in front of everything: an empty label no location has.
TrimZone(origin, query) ==
    IF IsStrictPrefix(origin, query) THEN SubSeq(query, Len(origin) + 1, Len(query))
    ELSE <<"">> \o query

Found(location, match) == [location |-> location, match |-> match]

\* FindLocation for a name that is not the zone's own and has been trimmed.
FindTrimmed(zone, rquery) ==
    LET longest == LongestPrefix(zone.tree, rquery)
        prefix  == IF longest = {} THEN <<>> ELSE CHOOSE k \in longest : TRUE
        star    == Append(prefix, Wildcard)
    IN  IF prefix = rquery
        THEN IF prefix \in zone.locations THEN Found(rquery, "ExactMatch") ELSE Found(<<>>, "EmptyNonterminalMatch")
        ELSE IF star \in zone.locations THEN Found(star, "WildCardMatch")
        ELSE IF prefix \in zone.locations THEN Found(prefix, "CEMatch") ELSE Found(<<>>, "NoMatch")

\* The location that answers for a name, and how it matched.
FindLocation(zone, query) ==
    IF query = zone.name THEN Found(Apex, "ExactMatch")
    ELSE FindTrimmed(zone, TrimZone(zone.name, query))

-----------------------------------------------------------------------------
(***************************************************************************)
(* What RFC 4592 says of a name, without a tree.  A name exists when it is *)
(* a location or lies above one; a wildcard stands for a name that does    *)
(* not exist when it is the child "*" of the closest ancestor that does.   *)
(***************************************************************************)
NameExists(zone, name) ==
    \/ name = zone.name
    \/ \E l \in zone.locations : IsPrefix(name, zone.name \o l)

ClosestEncloser(zone, name) ==
    CHOOSE n \in Prefixes(name) :
        /\ IsPrefix(zone.name, n) /\ NameExists(zone, n)
        /\ \A m \in Prefixes(name) : IsStrictPrefix(n, m) => ~NameExists(zone, m)

Synthesized(zone, name) ==
    /\ ~NameExists(zone, name)
    /\ \E l \in zone.locations : zone.name \o l = Append(ClosestEncloser(zone, name), Wildcard)
=============================================================================
