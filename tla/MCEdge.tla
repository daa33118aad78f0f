------------------------------- MODULE MCEdge -------------------------------
(* A small instance of Edge for TLC: the limiter, the cookies and the      *)
(* upstream queries, each by itself.                                       *)
EXTENDS Edge

MCServers == <<"s1", "s2">>
\* Chains with the longer or the shorter TTL first, and one with a TTL of zero.
MCAnswers == {<<2, 1>>, <<1, 2>>, <<0, 2>>}
MCSetups ==
    {[limited |-> TRUE, cookies |-> FALSE, aname |-> FALSE],
     [limited |-> FALSE, cookies |-> TRUE, aname |-> FALSE],
     [limited |-> FALSE, cookies |-> FALSE, aname |-> TRUE]}
=============================================================================
