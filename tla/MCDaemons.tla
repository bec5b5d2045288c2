------------------------------ MODULE MCDaemons ------------------------------
(***************************************************************************)
(* The other programs of the repository, side by side with the library     *)
(* they use: the NetBoot server, bootpd's configuration and dispatch, the  *)
(* router advertisement daemon, the BSDP client and the DHCPv6 server.     *)
(* They are different processes and share no state; a behaviour is one of  *)
(* a part, with the others at rest in one initial state.                   *)
(***************************************************************************)
EXTENDS MCLibrary, NetBoot, Bootpd, Rtadvd, BSDPClient, DHCPv6Server

-----------------------------------------------------------------------------
(* NetBoot: two clients, an HFS and another volume, and the image share    *)
(* points: a diskless NFS image and a Mac OS 9 image for one system behind *)
(* a disabled one; a share point that is not local, and an image that is   *)
(* not for one of the clients before a default without disk; an image with *)
(* no boot file.                                                           *)

MCClient == [n \in {"c1", "c2"} |->
    [arch |-> "ppc", sysid |-> IF n = "c1" THEN "s1" ELSE "s2", mac |-> n]]
MCVolumes == <<[is_hfs |-> FALSE], [is_hfs |-> TRUE]>>

Dir(index, type, default, diskless, sysids, size) ==
    [suffix |-> TRUE, plist |-> TRUE, enabled |-> Missing, install |-> Missing,
     default |-> default, diskless |-> diskless, filter_only |-> Missing, name |-> "n",
     index |-> index, kind |-> Missing, type |-> type, archs |-> {Missing},
     bootfile |-> "b", sysids |-> sysids, enabled_mac |-> {}, disabled_mac |-> {},
     root |-> "file", files |-> {"root", "shared", "ppc"}, size |-> size]
Share(ds) == [local |-> TRUE, readonly |-> FALSE, fstype |-> "hfs", link |-> TRUE, dirs |-> ds]

DisklessDir == Dir(1, "NFS", Missing, "yes", {}, 2)
ClassicDir == Dir(2, "Classic", "yes", Missing, {"s1"}, 1)
DefaultDir == Dir(3, "HTTP", "yes", "no", {}, 3)
MCMounts ==
    { <<Share(<<[DisklessDir EXCEPT !.enabled = "no", !.index = 4], DisklessDir, ClassicDir>>)>>,
      <<[Share(<<>>) EXCEPT !.local = FALSE],
        Share(<<[DisklessDir EXCEPT !.disabled_mac = {"c2"}], DefaultDir>>)>>,
      <<Share(<<[DefaultDir EXCEPT !.files = {"root"}]>>)>> }

-----------------------------------------------------------------------------
(* bootpd: one configuration that serves and relays everywhere, with its   *)
(* own address among the relays, and one that is on for an interface only. *)

Off == [kind |-> "missing", on |-> FALSE, names |-> {}]
On == [Off EXCEPT !.kind = "bool", !.on = TRUE]
OnlyOn(S) == [Off EXCEPT !.kind = "array", !.names = S]
Settings(dhcp, bootp, relay, netboot, relays) ==
    [prop |-> [v \in Service \cup {"ignore_allow_deny", "detect_other", "ipv6_only"} |->
        CASE v = "dhcp" -> dhcp [] v = "bootp" -> bootp [] v = "relay" -> relay
          [] v = "detect_other" -> On [] v \in NetBootService -> netboot [] OTHER -> Off],
     relays |-> relays, allow |-> {}, deny |-> {"bad"}, threshold |-> NotSet, use_od |-> 1,
     own_options |-> NotSet, ipv6_wait |-> 30, subnets |-> <<>>, bsdp_ok |-> FALSE]
MCPlist ==
    { Settings(On, Off, On, Off, [kind |-> "array", list |-> <<"a", "b", "A all", "C all">>]),
      [Settings(OnlyOn({"en0"}), On, OnlyOn({"en0"}), OnlyOn({}), [kind |-> "missing", list |-> <<>>])
          EXCEPT !.deny = {"h2"}, !.subnets = ("A" :> [tags |-> {}, supernet |-> "s"] @@ "B" :> [tags |-> {"router"}, supernet |-> "s"])] }
MCNetOf == "a" :> "A" @@ "b" :> "B"
MCBroadcast == "A" :> "A all" @@ "B" :> "B all" @@ "C" :> "C all"
MCTab == { <<[hw |-> "h1", ip |-> "a", boot |-> "missing"], [hw |-> "bad", ip |-> "a"]>>, <<"gone">> }
MCDirectory == { [hw |-> <<"h2", "h1">>, addr |-> <<"b">>, boot |-> "none"] }
Incoming(in, op, dhcp, other, hops, giaddr, ciaddr) ==
    [in |-> in, op |-> op, dhcp |-> dhcp, bsdp |-> "no", tous |-> TRUE, full |-> TRUE,
     selects_other |-> other, hw |-> "h1", secs |-> 0, giaddr |-> giaddr, ciaddr |-> ciaddr,
     hops |-> hops, file |-> "none"]
MCPacket ==
    { Incoming(i, "request", TRUE, o, 0, NoAddr, NoAddr) : i \in Interface, o \in BOOLEAN }
    \cup { Incoming("en0", "request", FALSE, FALSE, h, NoAddr, NoAddr) : h \in {MaxHops - 1, MaxHops} }
    \cup { Incoming("en0", "request", FALSE, FALSE, 0, NoAddr, "b"),
           Incoming("en0", "reply", FALSE, FALSE, 0, "b", NoAddr) }
MCResolver == {<<"loopback", "b">>}
MCRoute == {[default |-> "a", link |-> [i \in Interface |-> {}]]}

-----------------------------------------------------------------------------
(* rtadvd: entries of rtadvd.conf that make every option, and some that it *)
(* must refuse.                                                            *)

Simple ==
    [maxinterval |-> 5, mininterval |-> 3, raflags |-> {"m"}, chlim |-> -1, rtime |-> -1, retrans |-> 500,
     clockskew |-> -1, mobile |-> FALSE, rltime |-> -1, forwarding |-> TRUE,
     lladdr |-> "ether", mtu |-> -1, phymtu |-> 1500, addrs |-> {}, routes |-> <<>>,
     rdnssaddrs |-> -1, rdnss |-> <<>>, dnssldomains |-> -1, dnssl |-> <<>>, capport |-> -1,
     pref64len |-> 0, pref64lifetime |-> -1, pvdid |-> <<>>, dnr |-> <<>>]
Full ==
    [Simple EXCEPT !.maxinterval = 4, !.mininterval = 3, !.mtu = AutoMTU, !.clockskew = 1,
        !.addrs = {[prefix |-> "p1", plen |-> 64, multicast |-> FALSE,
                    vltime |-> 1, vltimedecr |-> TRUE, pltime |-> 1, pltimedecr |-> TRUE]},
        !.routes = <<0, 64, 65>>, !.rdnssaddrs = 2, !.rdnss = <<"a", "b">>, !.dnssldomains = 2,
        !.dnssl = <<<<3, 0, 65>>, <<7>>>>, !.capport = 14, !.pref64len = 96, !.pvdid = <<4, 7>>,
        !.dnr = <<[adn |-> <<3, 5>>, addrs |-> 1, svc |-> 6], [adn |-> <<64>>, addrs |-> 2, svc |-> 0]>>]
MCConfig ==
    {Simple, Full, [Simple EXCEPT !.mininterval = -1], [Simple EXCEPT !.forwarding = FALSE],
     [Simple EXCEPT !.mtu = 2000], [Simple EXCEPT !.raflags = {"h", "l"}],
     [Simple EXCEPT !.rdnssaddrs = 1], [Simple EXCEPT !.pref64len = 80], [Simple EXCEPT !.rtime = 3600001]}
\* Another router: it says the same as one, and differs from the other, unless
\* it says little.
SameRA == [chlim |-> 64, raflags |-> {"m"}, rtime |-> 0, retrans |-> 500, mtu |-> 0, prefixes |-> {"p1"}, vl |-> 9, pl |-> 6]
MCOtherRA == {SameRA, [SameRA EXCEPT !.chlim = 0, !.retrans = 0, !.prefixes = {}]}

-----------------------------------------------------------------------------
(* The BSDP client: computers that can and cannot netboot, a filter, and   *)
(* image lists that are whole or cut.                                      *)

Mac ==
    [arch |-> "arm", rom |-> 0, model |-> 10, present |-> TRUE, ethernet |-> TRUE, inet |-> "a", socket |-> "OK",
     services |-> {}]
PowerMac == [Mac EXCEPT !.arch = "ppc", !.rom = NetBoot2InfoVersion - 1, !.model = 290]
MCMachine ==
    { [Mac EXCEPT !.services = {[ifname |-> "en0", dhcp |-> TRUE, addr |-> "b"], [ifname |-> "en1", dhcp |-> TRUE, addr |-> "c"]}],
      [Mac EXCEPT !.arch = "ppc"], [Mac EXCEPT !.model = 0], [Mac EXCEPT !.inet = Unset], [Mac EXCEPT !.present = FALSE],
      [Mac EXCEPT !.socket = "PermissionDenied"], PowerMac }
MCAsked == {<<>>, [i \in 1 .. MAX_ATTRS + 1 |-> i]}
Image(attr, index, text) == [attr |-> attr, index |-> index, name |-> 2, text |-> text]
MCListing == { [len |-> 28, descrs |-> <<Image(1, 0, TRUE), Image(MAX_ATTRS + 1, 2, TRUE), Image(NoAttributes, 0, TRUE), Image(1, 3, FALSE)>>],
               [len |-> 13, descrs |-> <<Image(1, 1, TRUE), Image(2, 2, TRUE)>>] }

-----------------------------------------------------------------------------
(* The DHCPv6 server: configurations for both interfaces, for one, and one *)
(* that cannot be read.                                                    *)

ServerOption(code, len) == [code |-> code, len |-> len]
MCPlists ==
    { [readable |-> TRUE, enabled_interfaces |-> <<"en0", "en1">>,
       options |-> {ServerOption("DNS", 16), ServerOption("DOMAIN", 30)}, options_ok |-> TRUE],
      [readable |-> TRUE, enabled_interfaces |-> <<"en1">>, options |-> {ServerOption("DNS", 16)}, options_ok |-> FALSE],
      [readable |-> FALSE, enabled_interfaces |-> <<>>, options |-> {}, options_ok |-> TRUE] }
Inquiry(msg, sid, cid, oro) ==
    [msg |-> msg, parses |-> TRUE, serverid |-> sid, clientid |-> [len |-> cid, valid |-> TRUE], oro |-> oro]
MCRequest6 ==
    { Inquiry("INFORMATION_REQUEST", 0, 14, <<"DNS", "NTP">>),
      Inquiry("INFORMATION_REQUEST", 1, 0, <<"DOMAIN", "DNS">>), Inquiry("SOLICIT", 0, 14, <<>>) }

-----------------------------------------------------------------------------

\* A part at rest is in one of its initial states.
AnyOf(S) == CHOOSE x \in S : TRUE
DaemonsInit ==
    /\ part \in LibraryParts \cup {"netboot", "bootpd", "rtadvd", "bsdp", "dhcpv6"}
    /\ LibraryInit /\ NetBootInit /\ BootpdInit /\ RtadvdInit /\ BSDPInit /\ SixInit
    /\ part # "netboot" => images = ImageList(AnyOf({m \in MCMounts : ImageList(m) # <<>>}))
    /\ part # "bootpd" => sys.addr = [i \in Interface |-> NoAddr] /\ sys.plist = AnyOf(MCPlist) /\ sys.tab = <<"gone">>
    /\ part # "rtadvd" => conf = Simple /\ kernel = [up |-> FALSE, routes |-> Own] /\ ~rai.up
    /\ part # "dhcpv6" => plist6 = AnyOf(MCPlists)

DaemonsNext ==
    /\ UNCHANGED part
    /\ \/ LibraryNext /\ UNCHANGED <<netbootVars, bootpdVars, rtadvdVars, bsdpVars, sixVars>>
       \/ part = "netboot" /\ NetBootNext /\ UNCHANGED <<libraryVars, bootpdVars, rtadvdVars, bsdpVars, sixVars>>
       \/ part = "bootpd" /\ BootpdNext /\ UNCHANGED <<libraryVars, netbootVars, rtadvdVars, bsdpVars, sixVars>>
       \/ part = "rtadvd" /\ RtadvdNext /\ UNCHANGED <<libraryVars, netbootVars, bootpdVars, bsdpVars, sixVars>>
       \/ part = "bsdp" /\ BSDPNext /\ UNCHANGED <<libraryVars, netbootVars, bootpdVars, rtadvdVars, sixVars>>
       \/ part = "dhcpv6" /\ SixNext /\ UNCHANGED <<libraryVars, netbootVars, bootpdVars, rtadvdVars, bsdpVars>>

daemonsVars == <<libraryVars, netbootVars, bootpdVars, rtadvdVars, bsdpVars, sixVars, part>>
DaemonsSpec == DaemonsInit /\ [][DaemonsNext]_daemonsVars
=============================================================================
