----------------------------- MODULE MCLibrary ------------------------------
(***************************************************************************)
(* The library on small instances: the DNS name encoder and decoder, the   *)
(* option area and the merging of network information have no state in     *)
(* common, so each is a part of its own, with the others at rest in one    *)
(* initial state.                                                          *)
(***************************************************************************)
EXTENDS NetworkInfo

VARIABLE part

A == <<97>>
B == <<98>>
MCDNSName == {<<A>>, <<B>>, <<A, B>>, <<B, A, B>>, <<A \o B, B>>, <<<<>>>>, <<B, <<>>>>, <<A, <<>>, B>>}

Str == [num |-> 0, ip |-> <<>>, slash |-> -1, text |-> <<97>>, name |-> <<A>>]
Ip(i, p) == [Str EXCEPT !.ip = i, !.slash = p, !.num = i[1]]
MCStrList ==
    { <<[Str EXCEPT !.num = n]>> : n \in {0, 255, 256, 70000} }
    \cup { <<[Str EXCEPT !.text = <<97, 98>>, !.name = <<A, B>>], [Str EXCEPT !.name = <<B>>]>>,
           <<Ip(<<10, 1, 2, 3>>, 12), Ip(<<10, 0, 0, 1>>, -1)>>,
           <<Ip(<<10, 0, 0, 1>>, -1)>>,
           <<Ip(<<172, 16, 0, 0>>, -1), Ip(<<10, 0, 0, 1>>, -1),
             Ip(<<0, 0, 0, 1>>, 24), Ip(<<10, 0, 0, 2>>, -1)>> }
MCTypeOf ==
    19 :> "bool" @@ 23 :> "uint8" @@ 26 :> "uint16" @@ 51 :> "uint32" @@ 1 :> "ip" @@ 12 :> "string"
    @@ 6 :> "ip_mult" @@ 33 :> "ip_pairs" @@ 119 :> "dns_namelist" @@ 121 :> "classless_route"
MCOptionVal == {<<>>, <<1>>, <<255, 0, 43>>}

-----------------------------------------------------------------------------
(* Announcements: resolvers of several priorities, one malformed, one with *)
(* no usable address, one seen twice; lifetimes that end at different      *)
(* times, at once, or never.                                               *)

Server(prio, adn, addrs) ==
    [size |-> 7 + 4 * Len(addrs), len |-> 5 + 4 * Len(addrs), prio |-> prio,
     adn_len |-> 1, adn |-> adn, addr_len |-> 4 * Len(addrs), addrs |-> addrs, svc_len |-> 0]
Server6(prio, adn, addrs) == [Server(prio, adn, addrs) EXCEPT !.addr_len = 16 * Len(addrs)]
Opt4(tag, val) == [tag |-> tag, val |-> val]
Dns4 == Opt4(6, <<"s1", "any", "s2">>)
MCLease ==
    { <<>>, <<Opt4(114, <<"url4">>), Opt4(162, <<Server(1, "r1", <<"p">>)>>)>>,
      <<Dns4, Opt4(15, <<"d1", "space", "d2", "nul", "d3">>),
        Opt4(162, <<Server(2, "r1", <<"p">>), Server(1, "r2", <<"q", "loopback">>)>>)>>,
      <<Dns4, Opt4(15, <<"d1", "space", "d2">>), Opt4(119, <<"d3">>), Opt4(162, <<Server(1, "bad", <<"p">>)>>)>>,
      <<Dns4, Opt4(162, <<Server(2, "r1", <<"p">>), Server(2, "r1", <<"p">>)>>)>> }

Opt6(code, val) == [code |-> code, len |-> 16 * Len(val), data |-> val]
Dnr6(s) == [code |-> "dnr", len |-> 7 + s.addr_len, data |-> s]
R1 == Dnr6(Server6(40000, "r1", <<"p", "q">>))
R2 == Dnr6(Server6(1, "r2", <<"q">>))
R3 == Dnr6(Server6(2, "r2", <<"multicast">>))
Reply(opts) == [opts |-> opts, stray |-> 0]
MCReply6 ==
    { Reply(<<Opt6("ia_na", <<[net64 |-> "n2"]>>), Opt6("dns", <<"s2", "s3">>), Opt6("search", <<"d1">>)>>),
      Reply(<<Opt6("dns", <<"s3", "s3">>), R2, R1, R2>>),
      Reply(<<Opt6("dns", <<"s3">>), R1, R3>>),
      Reply(<<Opt6("dns", <<"s3">>), R2, Opt6("search", <<"d1">>)>>),
      [Reply(<<Opt6("dns", <<"s3">>)>>) EXCEPT !.stray = 2] }

Nd(type, units, lifetime, val) == [type |-> type, units |-> units, lifetime |-> lifetime, body |-> val]
DnrRA(lifetime, s) == Nd("dnr", 5, lifetime, s)
Rdnss == { <<Nd("rdnss", 3, l, <<"s4", "s2">>)>> : l \in {0, 1, 3, 1000} }
Dnssl == { <<Nd("dnssl", 2, l, <<"d4">>)>> : l \in {0, 2, 1000} }
Short == { <<Nd("rdnss", 2, 2, <<>>)>>, <<Nd("rdnss", 3, 3, <<"s4">>), Nd("dnssl", 1, 2, <<>>)>> }
Others ==
    { <<DnrRA(2, Server6(3, "r3", <<"p">>)), DnrRA(1000, Server6(1, "r4", <<"p">>))>>,
      <<DnrRA(1000, Server6(40000, "r1", <<"q", "p">>))>>,
      <<Nd("source", 1, 0, <<"mac">>), Nd("prefix", 4, 5, [prefix |-> "n1"]),
        Nd("pref64", 2, 0, [plc |-> 0]), Nd("captive", 3, 0, <<"url">>)>>,
      <<Nd("pref64", 2, 8, [plc |-> 6]), Nd("pref64", 2, 8, [plc |-> 1]), Nd("captive", 1, 0, <<"nul">>),
        Nd("pvd", 2, 0, [ra |-> FALSE, id |-> "home", http |-> TRUE, legacy |-> FALSE])>>,
      <<Nd("source", 0, 0, <<"mac">>)>> }
MCAdvert ==
    Short \cup { r \o d : r \in Rdnss, d \in {<<>>} \cup Dnssl }
    \cup { <<Nd("rdnss", 3, 3, <<"s4">>)>> \o o : o \in Others }

MCOK4 == {6, 15, 114, 119, 162}
MCOK6 == {"dns", "search", "dnr", "captive"}

-----------------------------------------------------------------------------

LibraryParts == {"dns", "options", "info"}
libraryVars == <<dnsVars, area, infoVars>>

\* A part at rest is in one of its initial states.
LibraryInit ==
    /\ DNSInit /\ OptionsInit /\ InfoInit
    /\ part # "dns" => nb = DNSNamesBufInit(Min(DNSBufSize), FALSE)
    /\ part # "options" => area.oa = dhcpoa_init(Min(AreaSize))

LibraryNext ==
    \/ part = "dns" /\ DNSNext /\ UNCHANGED <<area, infoVars>>
    \/ part = "options" /\ OptionsNext /\ UNCHANGED <<dnsVars, infoVars>>
    \/ part = "info" /\ InfoNext /\ UNCHANGED <<dnsVars, area>>

LibrarySpec ==
    /\ part \in LibraryParts /\ LibraryInit
    /\ [][LibraryNext /\ UNCHANGED part]_<<libraryVars, part>>
=============================================================================
