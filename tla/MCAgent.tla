------------------------------- MODULE MCAgent -------------------------------
(***************************************************************************)
(* The agent and what it talks to, on small instances.  Four parts that    *)
(* share no state in the models: one Wi-Fi interface as InterfaceState     *)
(* follows it, two interfaces and their services as ServiceList keeps them, *)
(* two service objects of the framework (IPConfigurationService), and the  *)
(* automatic IPv6 service (Rtadv).  A behaviour is one of a part, with the *)
(* other parts at rest in one initial state.                               *)
(***************************************************************************)
EXTENDS InterfaceState, ServiceList, IPConfigurationService, Rtadv, TLC

VARIABLE part

-----------------------------------------------------------------------------
(* Two networks, one of them with two access points.                        *)

MCAccessPoints == { [net |-> "a", bss |-> 1], [net |-> "a", bss |-> 2], [net |-> "b", bss |-> 3] }

-----------------------------------------------------------------------------
(* Services: on en0 a manual, an automatic or a DHCP configuration, on en1 *)
(* another that is needed only when en0 fails.                             *)

Config(id, method, want) == [id |-> id, method |-> method, want |-> want]
Setup(en0, en1, order) ==
    [conf |-> [i \in {"en0", "en1"} |-> IF i = "en0" THEN en0 ELSE en1], need |-> {"en1"}, order |-> order]

MCSetups ==
    << Setup(<<Config("B", "failover", "static"), Config("A", "dhcp", NoAddr)>>, <<>>, <<"A", "B">>),
       Setup(<<Config("A", "automatic", NoAddr)>>, <<Config("B", "manual", "static")>>, <<"A", "B", "dynamic">>),
       Setup(<<Config("A", "automatic", NoAddr)>>, <<Config("B", "linklocal", NoAddr)>>, <<"A", "B">>) >>
MCInterfaces == <<"en0", "en1">>
MCLinkLocalID == [i \in {"en0", "en1"} |-> IF i = "en0" THEN "ll0" ELSE "ll1"]

-----------------------------------------------------------------------------
(* Objects: what they are created from, and options of every kind of entity *)
(* that show what the framework accepts and what the agent understands.    *)

Plist(type, str, num, list) == [t |-> type, s |-> str, n |-> num, l |-> list]
Str(x) == Plist("string", x, 0, <<>>)
Num(x) == Plist("number", "", x, <<>>)
Arr(x) == Plist("array", "", 0, x)
Method(m) == "ConfigMethod" :> Str(m)
Opt(plain, v4, v6) == [given |-> TRUE, plain |-> plain, v4 |-> v4, v6 |-> v6]
NoOptions == [given |-> FALSE, plain |-> <<>>, v4 |-> <<>>, v6 |-> <<>>]

MCRequests ==
    { [pd |-> FALSE, options |-> NoOptions],
      [pd |-> FALSE, options |-> Opt(<<>>, Method("Manual") @@ ("Addresses" :> Arr(<<"a">>)), <<>>)],
      [pd |-> FALSE, options |-> Opt(<<>>, Method("Manual") @@ ("Addresses" :> Arr(<<"0">>)), <<>>)],
      [pd |-> TRUE,  options |-> Opt(<<>>, <<>>, Method("DHCPv6PD"))] }

\* The configuration has the address already, in another way.
MCConfigured == {<<"v4", "Failover", "a">>}

Entities4 ==
    UNION { { Method(m), Method(m) @@ ("DHCPClientID" :> Str("x")), Method(m) @@ ("Addresses" :> Arr(<<"a">>)),
              Method(m) @@ ("Addresses" :> Arr(<<"0", "a">>)) @@ ("SubnetMasks" :> Arr(<<"a">>)),
              Method(m) @@ ("Addresses" :> Arr(<<"a">>)) @@ ("DestAddresses" :> Arr(<<"a">>)) @@ ("Router" :> Str("a")) }
            : m \in {"DHCP", "BOOTP", "Manual", "LinkLocal"} }
Entities6 ==
    UNION { { Method(m), Method(m) @@ ("Addresses" :> Arr(<<"b">>)),
              Method(m) @@ ("Addresses" :> Arr(<<"b">>)) @@ ("PrefixLength" :> Arr(<<"number">>)),
              Method(m) @@ ("Addresses" :> Arr(<<"b">>)) @@ ("PrefixLength" :> Arr(<<"x">>)) @@ ("Router" :> Str("b")),
              Method(m) @@ ("RequestedPrefix" :> Str("b")) @@ ("RequestedPrefixLength" :> Num(129)),
              Method(m) @@ ("RequestedPrefix" :> Str("b")) @@ ("RequestedPrefixLength" :> Num(64)) }
            : m \in {"Automatic", "Manual", "LinkLocal", "DHCPv6PD", "6to4"} }
Plains ==
    { <<>>, "ClearState" :> Plist("boolean", "", 0, <<>>), "IPv6LinkLocalAddress" :> Str("l"), "EnableDAD" :> Num(1) }
MCSamples ==
    { Opt(p, e, <<>>) : p \in Plains, e \in Entities4 } \cup { Opt(p, <<>>, e) : p \in Plains, e \in Entities6 \cup {<<>>} }

\* The two validators are written twice, in the framework and in the agent.
ASSUME ValidatorsAgree == AcceptedIsUnderstood

-----------------------------------------------------------------------------
(* Advertisements of two routers, one of them with a provisioning domain   *)
(* and a NAT64 prefix.                                                     *)

Advert(src, flags, pvd) ==
    [src |-> src, life0 |-> FALSE, flags |-> flags, dns |-> "live", pvd |-> pvd,
     prefix |-> TRUE, pref64 |-> FALSE]
MCAdverts ==
    { Advert("r1", "None", NoPvD), [Advert("r1", "None", NoPvD) EXCEPT !.life0 = TRUE],
      [Advert("r1", "Address", NoPvD) EXCEPT !.prefix = FALSE],
      [Advert("r2", "Stateless", [id |-> "p", seq |-> 1]) EXCEPT !.pref64 = TRUE],
      [Advert("r2", "None", [id |-> "p", seq |-> 2]) EXCEPT !.dns = "none"] }

-----------------------------------------------------------------------------

AgentInit ==
    /\ part \in {"interface", "services", "objects", "rtadv"}
    /\ ServicesInit /\ RtadvInit /\ (part # "rtadv" => s = NoService)
    /\ IF part = "services" THEN ServiceInit
       ELSE setup = 1 /\ carrier = {} /\ changes = 0 /\ ag = FreshAgent
    /\ IF part = "interface" THEN InterfaceInit
       ELSE keys = {} /\ f = Start /\ air = [active |-> FALSE, same |-> FALSE, at |-> None]

AgentNext ==
    /\ UNCHANGED part
    /\ \/ part = "interface" /\ InterfaceNext /\ UNCHANGED <<agentVars, objVars, rtadvVars>>
       \/ part = "services" /\ ServiceNext /\ UNCHANGED <<interfaceVars, objVars, rtadvVars>>
       \/ part = "objects" /\ ServicesNext /\ UNCHANGED <<interfaceVars, agentVars, rtadvVars>>
       \/ part = "rtadv" /\ RtadvNext /\ UNCHANGED <<interfaceVars, agentVars, objVars>>

AgentSpec == AgentInit /\ [][AgentNext]_<<interfaceVars, agentVars, objVars, rtadvVars, part>>
=============================================================================
