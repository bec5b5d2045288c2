----------------------------- MODULE MCSessions -----------------------------
(***************************************************************************)
(* The protocol engines of the agent on small instances.  Three parts that *)
(* share no state: the ARP session (ARPSession), the DHCPv6 client of one  *)
(* interface (DHCPv6Client) and the socket that such clients share         *)
(* (SharedSocket).  A behaviour is one of a part; the other parts rest in  *)
(* an initial state in which nothing that fairness speaks of is enabled.   *)
(***************************************************************************)
EXTENDS MCARPSession, DHCPv6Client, SharedSocket

\* A server's answers that differ for the client: the preference counts in an
\* ADVERTISE, the lifetime in a REPLY, and the refusals name no assignment.
MCAnswers ==
    {p \in ServerPacket :
        IF p.type = "ADVERTISE"
        THEN /\ ~p.inf /\ p.code \in {"Success", "NoAddrsAvail"}
             /\ p.ia = NoIA \/ p.code # "Success" => p.pref = 0 /\ p.ia = NoIA
        ELSE /\ p.pref = 0 /\ (p.ia = NoIA => ~p.inf)
             /\ p.code \in {"NoAddrsAvail", "NotOnLink"} => p.ia = NoIA}

VARIABLE part

SessionsInit ==
    /\ part \in {"arp", "dhcpv6", "socket"}
    /\ Init /\ V6Init /\ SocketInit
    /\ part # "dhcpv6" => user = "rtadv" /\ ~link /\ c = NewClient("None", "home")
    /\ part # "socket" => fam = "bootp"

SessionsNext ==
    /\ UNCHANGED part
    /\ \/ part = "arp" /\ Next /\ UNCHANGED <<v6vars, socketVars>>
       \/ part = "dhcpv6" /\ V6Next /\ UNCHANGED <<vars, socketVars>>
       \/ part = "socket" /\ SocketNext /\ UNCHANGED <<vars, v6vars>>

SessionsSpec ==
    /\ SessionsInit /\ [][SessionsNext]_<<vars, v6vars, socketVars, part>>
    /\ Fairness /\ V6Fairness /\ SocketFairness
=============================================================================
