---------------------------- MODULE MCDHCPServer ----------------------------
(* Small instances of DHCPServer.                                           *)
EXTENDS DHCPServer, TLC

CONSTANTS
    c1, c2, n1, n2,
    Suggested      \* values of the lease time option, NoOption for absent

\* The packets clients send.  A client names an address of the wire it
\* sends on.
AddrOn(n) == {a \in Addr : NetOf[a] = n}

Packet(t, c, n, ci, req, srv, bc, l, v6) ==
    [type |-> t, id |-> c, net |-> n, ciaddr |-> ci, reqip |-> req,
     server |-> srv, bcast |-> bc, lease |-> l, v6only |-> v6]

Discovers == {Packet("discover", c, n, NoAddr, NoAddr, "none", TRUE, l, v) :
                 c \in Client, n \in Net, l \in Suggested, v \in BOOLEAN}
Selects == UNION {{Packet("request", c, n, NoAddr, a, s, TRUE, NoOption, FALSE) :
                 c \in Client, a \in AddrOn(n) \cup {NoAddr},
                 s \in {"us", "other"}} : n \in Net}
InitReboots == UNION {{Packet("request", c, n, NoAddr, a, "none", TRUE, l, v) :
                 c \in Client, a \in AddrOn(n), l \in Suggested,
                 v \in BOOLEAN} : n \in Net}
Renews == {Packet("request", c, n, a, NoAddr, "none", b, l, FALSE) :
                 c \in Client, n \in Net, a \in Addr \cup {NoAddr},
                 b \in BOOLEAN, l \in Suggested}
Declines == UNION {{Packet("decline", c, n, NoAddr, a, s, TRUE, NoOption, FALSE) :
                 c \in Client, a \in AddrOn(n), s \in {"us", "other"}} : n \in Net}
Releases == {Packet("release", c, n, a, NoAddr, "us", FALSE, NoOption, FALSE) :
                 c \in Client, n \in Net, a \in Addr}
Informs == {Packet("inform", c, n, a, NoAddr, "none", TRUE, NoOption, FALSE) :
                 c \in Client, n \in Net, a \in Addr}

\* Every request
MCAll == Discovers \cup Selects \cup InitReboots \cup Renews
           \cup Declines \cup Releases \cup Informs

\* One subnet entry of all the addresses, and an empty bootptab
MCNetOf == [a \in 1..MaxAddr |-> n1]
MCFirst == [s \in 1..NumSubnets |-> 1]
MCLast == [s \in 1..NumSubnets |-> MaxAddr]
MCNoStatic == {[c \in Client |-> NoAddr]}

\* The subnet entry may stop to allocate
MCConfigs1 == {[subnets |-> {1}, allocates |-> {1}], [subnets |-> {1}, allocates |-> {}]}

\* The lease time option: absent, below, inside and above the bounds
MCNoOption == {NoOption}
MCSuggested == {NoOption, 0, LeaseMin, LeaseMax + 1}

-----------------------------------------------------------------------------
(* Two instances in one run, each from its own initial states: clients who *)
(* roam between two nets of one address each (subnet entries 2 and 3), and *)
(* clients who compete for two addresses of one net (subnet entry 1).      *)

MCNetOf2 == [a \in 1..MaxAddr |-> IF a = MaxAddr THEN n2 ELSE n1]
MCFirst2 == <<1, 1, 3>>
MCLast2 == <<2, 1, 3>>

MCRoaming == {[subnets |-> {2, 3}, allocates |-> {2, 3}]}
MCRoam == {r \in Discovers \cup Selects : ~r.v6only /\ r.reqip # 2}
\* bootptab binds c1 to the address of the second net, or nobody to any
MCStatic2 == {[c \in Client |-> NoAddr],
              [c \in Client |-> IF c = c1 THEN 3 ELSE NoAddr]}

Competing == {1}
MCCore == {r \in Discovers \cup Selects \cup InitReboots \cup Renews
                  \cup Declines \cup Releases :
              /\ ~r.v6only /\ r.server # "other"
              /\ r.net = n1 /\ {r.ciaddr, r.reqip} \subseteq {NoAddr, 1, 2}}
Pool == INSTANCE DHCPServer WITH
            Configs <- {[subnets |-> Competing, allocates |-> Competing]},
            Inputs <- MCCore, StaticTables <- MCNoStatic,
            Infinite <- 100, DeclineWait <- 0, MaxTime <- 1

\* What OneLeaseOfClient and CommittedBeforeAck take for granted of clients.
ASSUME OnWire == SelectsOnWire /\ Pool!SelectsOnWire

MCInit == Init \/ Pool!Init
MCNext == \/ subnets # Competing /\ Next
          \/ subnets = Competing /\ Pool!Next
MCSpec == MCInit /\ [][MCNext]_vars
=============================================================================
