---------------------------- MODULE MCDHCPClient ----------------------------
(* Small instances of DHCPClient.                                           *)
EXTENDS DHCPClient, TLC

CONSTANTS
    n1, n2,
    Grants,   \* what the servers give out: address, lease time, with a router
    Ratings,
    V6        \* whether the reply carries the IPv6-only-preferred option

MCReplies ==
    {[type |-> t, ip |-> g.ip, rating |-> q, len |-> g.len, rtr |-> g.rtr, v6 |-> v] :
        t \in {"offer", "ack"}, g \in Grants, q \in Ratings, v \in V6}
    \cup
    {[type |-> "nak", ip |-> 1, rating |-> 1, len |-> 1, rtr |-> FALSE, v6 |-> FALSE]}

MCSymmetry == Permutations(Net)

\* One server; two of which the other gives another address, forever and
\* without a router; one that leaves the router out now and then
Finite4(r) == [ip |-> 1, len |-> 4, rtr |-> r]
MCOneServer == {Finite4(TRUE)}
MCTwoServers == {Finite4(TRUE), [ip |-> 2, len |-> Infinite, rtr |-> FALSE]}
MCSomeRouters == {Finite4(TRUE), Finite4(FALSE)}

\* An infinite lease, an ideal OFFER and an ACK that is not
MCForever == {[ip |-> 1, len |-> Infinite, rtr |-> TRUE]}
MCRoamReplies == {r \in MCReplies : \/ r.type = "offer" /\ r.rating = MaxRating
                                    \/ r.type = "ack" /\ r.rating = 1}
=============================================================================
