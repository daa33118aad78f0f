-------------------------- MODULE AddressSelection --------------------------
(***************************************************************************)
(* Which addresses of a record set a client gets, and in which order: the  *)
(* geo filters paint every address white, grey or black, then one white    *)
(* address is drawn to stand first.  A record set is                       *)
(* [count, order, geo, data] with data a sequence of                       *)
(* [ip, weight, country, asn, distance]; what the GeoIP database says of   *)
(* the client is [country, asn, located].                                  *)
(***************************************************************************)
EXTENDS Naturals, Sequences, FiniteSetsExt, SequencesExt

Nowhere == ""          \* the database knows the client but not this about it
LookupError == "error" \* the lookup itself failed

\* GetSameCountry and GetSameASN: keep the addresses that list the client's place; when
\* none does, those for everybody (no list, or the default entry in it).
GetSame(places, source, mask) ==
    LET passed == {i \in DOMAIN mask : source # Nowhere /\ mask[i] = "White" /\ source \in places[i]}
        painted == [i \in DOMAIN mask |->
                      IF source = Nowhere THEN mask[i]
                      ELSE IF mask[i] # "White" THEN "Black"
                      ELSE IF i \in passed THEN "White" ELSE "Grey"]
    IN  IF source = LookupError THEN mask
        ELSE IF passed # {} THEN painted
        ELSE [i \in DOMAIN mask |-> IF painted[i] # "Black" /\ (places[i] = {} \/ Nowhere \in places[i])
                                    THEN "White" ELSE "Black"]

\* GetMinimumDistance: the white addresses nearest to the client.
GetMinimumDistance(distances, located, mask) ==
    LET white == {i \in DOMAIN mask : mask[i] = "White"}
    IN  IF ~located THEN mask
        ELSE [i \in DOMAIN mask |->
                IF i \notin white THEN "Black"
                ELSE IF \A j \in white : distances[i] <= distances[j] THEN "White" ELSE "Grey"]

\* The mask that the geo filter of a record set leaves.
GeoMask(rrset, client) ==
    LET mask      == [i \in DOMAIN rrset.data |-> "White"]
        countries == [i \in DOMAIN rrset.data |-> rrset.data[i].country]
        asns      == [i \in DOMAIN rrset.data |-> rrset.data[i].asn]
        distances == [i \in DOMAIN rrset.data |-> rrset.data[i].distance]
    IN  CASE rrset.geo = "asn"         -> GetSame(asns, client.asn, mask)
          [] rrset.geo = "country"     -> GetSame(countries, client.country, mask)
          [] rrset.geo = "asn+country" -> GetSame(countries, client.country, GetSame(asns, client.asn, mask))
          [] rrset.geo = "location"    -> GetMinimumDistance(distances, client.located, mask)
          [] OTHER                     -> mask

\* Mutant: an address of weight zero can be drawn.
FirstChoicesAny(rrset, white) == IF rrset.order \in {"weighted", "rr"} THEN white ELSE {Min(white)}

\* The indexes that may be drawn to stand first.
FirstChoices(rrset, white) ==
    LET weighty == {i \in white : rrset.data[i].weight > 0}
    IN  IF rrset.order = "weighted" /\ weighty # {} THEN weighty
        ELSE IF rrset.order \in {"weighted", "rr"} THEN white
        ELSE {Min(white)}

\* How far an index is from another one, on a walk that goes on at the start: the two
\* loops at the end of orderIps.
After(i, j, length) == IF j >= i THEN j - i ELSE j + length - i

\* The white index that comes k-th on the walk from i.
Nth(white, i, k, length) ==
    CHOOSE j \in white : Cardinality({h \in white : After(i, h, length) < After(i, j, length)}) = k - 1

\* The sequences of addresses orderIps may return.
orderIps(rrset, mask) ==
    LET white == {i \in DOMAIN mask : mask[i] = "White"}
        from(i) == [k \in 1..Cardinality(white) |-> rrset.data[Nth(white, i, k, Len(rrset.data))].ip]
    IN  IF white = {} THEN {<<>>}
        ELSE {IF rrset.count = "single" THEN <<rrset.data[i].ip>> ELSE from(i) : i \in FirstChoices(rrset, white)}

\* The handler's filter; an empty record set gives no address.
filter(rrset, client) == orderIps(rrset, GeoMask(rrset, client))

-----------------------------------------------------------------------------
\* What the filters promise, without masks: nobody is sent to an address that is meant
\* for other places while there is one for the client's own or for everybody.  (For a
\* set that holds no address twice: which of two entries was given cannot be told.)
MeantFor(places, source) == source \in places \/ places = {} \/ Nowhere \in places

NoDuplicates(rrset) == \A i, j \in DOMAIN rrset.data : rrset.data[i].ip = rrset.data[j].ip => i = j

GoodSelection(rrset, client, ips) ==
    LET given == {i \in DOMAIN rrset.data : rrset.data[i].ip \in ToSet(ips)}
        local == {i \in DOMAIN rrset.data : client.country \in rrset.data[i].country}
    IN  NoDuplicates(rrset) =>
        /\ ToSet(ips) \subseteq {rrset.data[i].ip : i \in DOMAIN rrset.data}
        /\ IsInjective(ips)
        /\ rrset.count = "single" => Len(ips) <= 1
        /\ (rrset.order = "weighted" /\ ips # <<>> /\ \E i \in given : rrset.data[i].weight > 0)
              => \E i \in given : rrset.data[i].ip = ips[1] /\ rrset.data[i].weight > 0
        /\ (rrset.geo \in {"country", "asn+country"} /\ client.country # LookupError)
              => \A i \in given : MeantFor(rrset.data[i].country, client.country)
        /\ (rrset.geo = "country" /\ local # {} /\ client.country \notin {Nowhere, LookupError}) => given \subseteq local
        /\ (rrset.geo = "asn+country" /\ client.country # Nowhere /\ client.asn # LookupError)
              => \A i \in given : MeantFor(rrset.data[i].asn, client.asn)
        /\ (rrset.geo = "location" /\ client.located)
              => \A i \in given, j \in DOMAIN rrset.data : rrset.data[i].distance <= rrset.data[j].distance
=============================================================================
