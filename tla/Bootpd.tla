-------------------------------- MODULE Bootpd --------------------------------
(***************************************************************************)
(* The main program of bootpd (bootpd.c) with the host tables it consults  *)
(* (bootpdfile.c, bootplookup.c): reading the configuration, receiving a   *)
(* packet, choosing the services that see it, answering BOOTP requests,    *)
(* relaying, and turning DHCP off where another server has been detected.  *)
(* What the DHCP and NetBoot handlers do is in DHCPServer and NetBoot;     *)
(* here they are names.                                                    *)
(*                                                                         *)
(* The process is one thread.  A signal, or a change of an address, only   *)
(* marks the configuration as old: the next packet reads it again, before  *)
(* the packet is looked at.  launchd starts the process again for the next *)
(* packet after it has exited.                                             *)
(***************************************************************************)
EXTENDS Integers, Sequences, SequencesExt, FiniteSets, FiniteSetsExt

CONSTANTS
    Interface,   \* the interfaces of the host
    NetOf,       \* [address -> net]
    Broadcast,   \* [net -> its broadcast address]
    Plist,       \* the configurations the administrator writes
    Tab,         \* the contents of bootptab, sequences of lines
    Directory,   \* the answers of Open Directory: [hw, addr, boot], sequences of both
    Resolver,    \* the possible lists of DNS servers of the host
    Route,       \* its possible routes: [default, link], link a net per interface
    Packet,      \* the packets that arrive
    MaxHops,     \* S_max_hops
    BootfileMustExist, \* the -b flag
    MaxTime      \* bound on the seconds in which bootptab is changed

ASSUME BootpdAssumption ==
    /\ MaxHops \in Nat
    /\ \A p \in Packet : p.in \in Interface /\ p.hops \in Nat

NoAddr == "no address"
NotSet == -1     \* a number that is absent or has the wrong type
Addr == DOMAIN NetOf
NetBootService == {"netboot", "old_netboot"}
Service == {"bootp", "dhcp", "relay"} \cup NetBootService     \* SERVICE_ALL

VARIABLES
    sys,    \* the host: [addr, plist, tab, mtime, od, dns, route]
    daemon, \* the process, see Started
    seen,   \* interfaces on which another server was detected since the last
            \* reading of the configuration
    out     \* what the packet of this step led to

bootpdVars == <<sys, daemon, seen, out>>

Silent == [handlers |-> {}, relayed |-> {}, yiaddr |-> NoAddr, opts |-> <<>>, via |-> NoAddr]

\* The process as main leaves it: the first packet acts as if signalled.
Started == [sighup |-> TRUE, which |-> {}, ifs |-> [i \in Interface |->
                [addr |-> NoAddr, flags |-> {}]],
            relays |-> {}, allow |-> {}, deny |-> {}, threshold |-> 0,
            use_od |-> FALSE, own_options |-> FALSE, ipv6_wait |-> 0, subnets |-> <<>>,
            listed |-> FALSE, default |-> NoAddr, link |-> [i \in Interface |-> {}],
            dns |-> <<>>, hosts |-> <<>>, modtime |-> 0,
            port |-> "null", procs |-> {}, last_publish |-> FALSE, published |-> {}]

-----------------------------------------------------------------------------
(* The configuration.  A property is [kind, on, names].                    *)

\* Mutant: the new list of interfaces inherits the flags of the old one.
KeepFlags(d) ==
    [d EXCEPT !.ifs = [i \in Interface |->
        [addr |-> sys.addr[i], flags |-> d.ifs[i].flags]]]
\* A new list of interfaces, with no flag set.
S_get_interfaces(d) ==
    [d EXCEPT !.ifs = [i \in Interface |-> [addr |-> sys.addr[i], flags |-> {}]]]

\* Without an interface to serve the process gives up.
S_log_interfaces(d) == \E i \in Interface : d.ifs[i].addr # NoAddr

S_get_network_routes(d) ==
    [d EXCEPT !.default = sys.route.default, !.link = sys.route.link]
\* The resolver's servers, loopback and wildcard addresses left out.
S_get_dns(d) == [d EXCEPT !.dns = SelectSeq(sys.dns, LAMBDA a : a \in Addr)]

\* A service is on everywhere, or on the interfaces that are named.
Everywhere(prop) == \/ prop.kind = "bool" /\ prop.on
                    \/ prop.kind = "array" /\ prop.names = {}
Names(prop, i) == prop.kind \in {"array", "string"} /\ i \in prop.names
S_service_enable(d, prop, S) ==
    [d EXCEPT !.which = @ \cup {s \in S : Everywhere(prop[s])},
              !.ifs = [i \in Interface |-> [d.ifs[i] EXCEPT
                        !.flags = @ \cup {s \in S : Names(prop[s], i)}]]]

S_service_disable(d, S) ==
    [d EXCEPT !.which = @ \ S,
              !.ifs = [i \in Interface |-> [d.ifs[i] EXCEPT !.flags = @ \ S]]]
S_service_is_enabled(d, S) ==
    d.which \cap S # {} \/ \E i \in Interface : d.ifs[i].flags \cap S # {}
S_disable_netboot(d) == S_service_disable(d, NetBootService)

\* Strings that are no addresses are left out of both lists.
S_make_ether_list(list) == {a \in list : a # "bad"}
S_refresh_allow_deny(d, plist) ==
    [d EXCEPT !.allow = S_make_ether_list(plist.allow), !.deny = S_make_ether_list(plist.deny)]

\* The relays are the addresses of the list that are no interface's; those
\* to which a whole net listens are among them.
ifl_find_ip(d, ip) == \E i \in Interface : d.ifs[i].addr = ip
S_update_relay_ip_list(d, list) ==
    [d EXCEPT !.relays = {ip \in ToSet(list) \cap (Addr \cup Range(Broadcast)) : ~ifl_find_ip(d, ip)}]

\* A number or a Boolean of the plist, with its default; the wrong type
\* leaves the default.
set_number_from_plist(prop, def) == IF prop # NotSet THEN prop ELSE def
S_get_plist_boolean(prop, def) == IF prop # NotSet THEN prop # 0 ELSE def
\* The number passes through a variable that is 0 or 1.
S_get_plist_uint32(prop, def) ==
    IF set_number_from_plist(prop, def) # 0 THEN 1 ELSE 0

\* The whole of the configuration.  A list of relays that is no longer
\* there leaves the previous one.
Property == Service \cup {"ignore_allow_deny", "detect_other", "ipv6_only"}
S_update_services(d, plist) ==
    LET d1 == S_service_enable([d EXCEPT !.which = {}], plist.prop, Property)
        d2 == IF plist.relays.kind = "array"
              THEN S_update_relay_ip_list(d1, plist.relays.list) ELSE d1
        d3 == [S_refresh_allow_deny(d2, plist) EXCEPT
                  !.threshold = set_number_from_plist(plist.threshold, 0),
                  !.use_od = S_get_plist_boolean(plist.use_od, FALSE),
                  !.own_options = S_get_plist_boolean(plist.own_options, TRUE),
                  !.ipv6_wait = S_get_plist_uint32(plist.ipv6_wait, 0),
                  !.listed = plist.relays.kind = "array",
                  !.subnets = plist.subnets]
    IN  IF S_service_is_enabled(d3, NetBootService) /\ ~plist.bsdp_ok
        THEN S_disable_netboot(d3) ELSE d3

-----------------------------------------------------------------------------
(* bootptab and Open Directory.                                            *)

\* The fields of a line, separated by blanks: a field that is missing is
\* empty, one that is too long is cut.
S_getfield(line, f) == IF f \in DOMAIN line THEN line[f] ELSE "empty"
Good(line) ==
    /\ S_getfield(line, "hw") \notin {"empty", "bad", "zero"}
    /\ S_getfield(line, "ip") \in Addr

\* The file is read if the second of its last change is a new one; the
\* entries in front of the line with the % are no hosts, later entries are
\* found first.  A file that has gone leaves the table alone.
bootp_readtab(d) ==
    IF sys.tab = <<"gone">> \/ sys.mtime = d.modtime THEN d
    ELSE [d EXCEPT !.modtime = sys.mtime,
                   !.hosts = Reverse(SelectSeq(sys.tab, LAMBDA l : Good(l)))]

\* Two nets that have entries, and share a wire: [tags, supernet] each.
SubnetListAreAddressesOnSameSupernet(subnets, m, n) ==
    /\ {m, n} \subseteq DOMAIN subnets
    /\ m = n \/ (subnets[m].supernet # "none" /\ subnets[m].supernet = subnets[n].supernet)
ip_address_reachable(d, ip, p) ==
    IF p.giaddr # NoAddr
    THEN SubnetListAreAddressesOnSameSupernet(d.subnets, NetOf[ip], NetOf[p.giaddr])
    ELSE NetOf[ip] \in {NetOf[d.ifs[p.in].addr]} \cup d.link[p.in]

FirstHost(s) == IF s = <<>> THEN [ip |-> NoAddr, boot |-> "none"] ELSE Head(s)
bootp_getbyhw_file(d, p) ==
    FirstHost(SelectSeq(d.hosts, LAMBDA h : h.hw = p.hw /\ ip_address_reachable(d, h.ip, p)))
bootp_getbyip_file(d, p) == FirstHost(SelectSeq(d.hosts, LAMBDA h : h.ip = p.ciaddr))

\* A lookup: the port is found when there is none, the number of the
\* procedure is asked for once per port, and a dead port is looked up again.
\* The names and addresses of the answer are paired in turn; where there are
\* none of the one, the entries have only the other.
Pairs(r) ==
    LET At(list, k, missing) == IF list = <<>> THEN missing ELSE list[((k - 1) % Len(list)) + 1]
    IN  [k \in 1..Max({Len(r.hw), Len(r.addr)}) |->
            [hw |-> At(r.hw, k, "none"), ip |-> At(r.addr, k, NoAddr), boot |-> r.boot]]
dolookup(d, proc) ==
    LET live == IF d.port = "live" THEN d ELSE [d EXCEPT !.port = "live", !.procs = {}]
    IN  IF ~sys.od THEN [d |-> [d EXCEPT !.port = "null", !.procs = {}], ok |-> FALSE]
        ELSE [d |-> [live EXCEPT !.procs = @ \cup {proc}], ok |-> TRUE]
getbootpbyhw(d) == dolookup(d, "getbootpbyhw")
getbootpbyaddr(d) == dolookup(d, "getbootpbyaddr")
bootp_getbyhw_ds(d, p, r) ==
    IF ~getbootpbyhw(d).ok THEN FirstHost(<<>>)
    ELSE FirstHost(SelectSeq(Pairs(r), LAMBDA h :
            /\ h.hw = p.hw /\ h.ip \in Addr
            /\ ip_address_reachable(d, h.ip, p)))
bootp_getbyip_ds(d, p, r) ==
    IF ~getbootpbyaddr(d).ok THEN FirstHost(<<>>)
    ELSE FirstHost(SelectSeq(Pairs(r), LAMBDA h : h.ip = p.ciaddr))

-----------------------------------------------------------------------------
(* Which services see a packet.                                            *)

is_service_enabled(d, i, S, off) ==
    /\ d.ifs[i].flags \cap off = {}
    /\ (d.which \cup d.ifs[i].flags) \cap S # {}
bootp_enabled(d, i) == is_service_enabled(d, i, {"bootp"}, {})
dhcp_enabled(d, i) == is_service_enabled(d, i, {"dhcp"}, {"dhcp_disabled"})
netboot_enabled(d, i) == is_service_enabled(d, i, {"netboot"}, {})
old_netboot_enabled(d, i) == is_service_enabled(d, i, {"old_netboot"}, {})
relay_enabled(d, i) == is_service_enabled(d, i, {"relay"}, {})
ignore_allow_deny(d, i) == "ignore_allow_deny" \in d.which \cup d.ifs[i].flags
detect_other_dhcp_server(d, i) == "detect_other" \in d.which \cup d.ifs[i].flags
ipv6_only_preferred(d, i) == "ipv6_only" \in d.which \cup d.ifs[i].flags

\* A packet is for an interface that has an address and any service; none
\* counts where another server was detected.
S_which_interface(d, i) ==
    /\ d.ifs[i].addr # NoAddr
    /\ is_service_enabled(d, i, Service, {"dhcp_disabled"})

S_ok_to_respond(d, p) ==
    \/ p.hw = "not ethernet" \/ ignore_allow_deny(d, p.in)
    \/ p.hw \notin d.deny /\ (d.allow # {} => p.hw \in d.allow)

S_copy_disabled_interfaces(d) == {i \in Interface : "dhcp_disabled" \in d.ifs[i].flags}
S_publish_disabled_interfaces(d, publish) ==
    IF ~publish /\ ~d.last_publish THEN d
    ELSE [d EXCEPT !.last_publish = publish,
                   !.published = IF publish THEN S_copy_disabled_interfaces(d) ELSE {}]

disable_dhcp_on_interface(d, i) ==
    S_publish_disabled_interfaces(
        [d EXCEPT !.ifs[i].flags = (@ \ {"dhcp"}) \cup {"dhcp_disabled"}], TRUE)

-----------------------------------------------------------------------------
(* BOOTP requests and relayed packets.                                     *)

\* The boot file of the request, or else of the host; FALSE if it has to
\* exist and does not, neither for this host nor for all.
bootp_add_bootfile(p, host) ==
    LET file == IF p.file # "none" THEN p.file ELSE host.boot
    IN  file = "missing" => ~BootfileMustExist

\* Where the value of an option comes from: the name of the host, the
\* subnet's entry, or the server's own configuration, of which the mask and
\* the router are of use only on a net of the interface.
add_subnet_options(d, i, ip, tag) ==
    LET net   == NetOf[ip]
        local == d.own_options /\ net = NetOf[d.ifs[i].addr]
    IN  CASE tag = "host_name" -> "host"
          [] tag # "host_name" /\ net \in DOMAIN d.subnets /\ tag \in d.subnets[net].tags -> "subnet"
          [] OTHER ->
                IF \/ tag = "subnet_mask" /\ local
                   \/ tag = "router" /\ local /\ d.default # NoAddr /\ NetOf[d.default] = net
                   \/ tag = "domain_name_server" /\ d.own_options /\ d.dns # <<>>
                   \/ tag = "ipv6_only_preferred" /\ ipv6_only_preferred(d, i)
                THEN "server" ELSE "none"

\* The address in the reply, or NoAddr if there is none, and the process
\* with its connection to the directory.
bootp_request(d, p, r) ==
    LET byhw == p.ciaddr = NoAddr
        infile == IF byhw THEN bootp_getbyhw_file(d, p) ELSE bootp_getbyip_file(d, p)
        ask    == infile.ip = NoAddr /\ d.use_od
        host   == CASE ~ask -> infile
                    [] ask /\ byhw -> bootp_getbyhw_ds(d, p, r)
                    [] OTHER -> bootp_getbyip_ds(d, p, r)
    IN  IF p.secs < d.threshold THEN [d |-> d, ip |-> NoAddr]
        ELSE [d |-> CASE ask /\ byhw -> getbootpbyhw(d).d
                      [] ask /\ ~byhw -> getbootpbyaddr(d).d
                      [] OTHER -> d,
              ip |-> IF host.ip # NoAddr /\ bootp_add_bootfile(p, host) THEN host.ip ELSE NoAddr]

\* A request goes to every relay with one more hop and the address of the
\* interface it came in on, but not back to all of the net it came from; a
\* reply to the client behind the gateway we are.
S_relay_packet(d, p) ==
    CASE p.op = "request" /\ p.hops < MaxHops /\ p.secs >= d.threshold ->
            {[to |-> ip, hops |-> p.hops + 1,
              giaddr |-> IF p.giaddr = NoAddr THEN d.ifs[p.in].addr ELSE p.giaddr] :
                ip \in {ip \in d.relays : ip # Broadcast[NetOf[d.ifs[p.in].addr]]}}
      [] p.op = "reply" /\ p.giaddr # NoAddr /\ ifl_find_ip(d, p.giaddr) ->
            {[to |-> "client", hops |-> p.hops, giaddr |-> p.giaddr]}
      [] OTHER -> {}

\* The handlers that a request reaches.
Handlers(d, p) ==
    LET i    == p.in
        nb   == p.dhcp /\ (netboot_enabled(d, i) \/ old_netboot_enabled(d, i))
        dhcp == p.dhcp /\ (dhcp_enabled(d, i) \/ old_netboot_enabled(d, i))
    IN  IF p.op # "request" \/ ~p.tous THEN {}
        ELSE {h \in {"bsdp", "bsdp_dhcp", "dhcp", "old_netboot", "bootp"} :
                CASE h = "bsdp" -> nb /\ (p.bsdp = "new" \/ (p.bsdp = "old" /\ old_netboot_enabled(d, i)))
                  [] h = "bsdp_dhcp" -> nb /\ p.bsdp = "no"
                  [] h = "dhcp" -> dhcp
                  [] h = "old_netboot" -> ~dhcp /\ old_netboot_enabled(d, i) /\ p.bsdp = "old"
                  [] h = "bootp" -> /\ ~dhcp /\ bootp_enabled(d, i)
                                    /\ ~(old_netboot_enabled(d, i) /\ p.bsdp = "old")}

\* The handler of DHCP requests runs with and without the DHCP service; one
\* that sees the client choose another server turns it off.
Detected(d, p) ==
    "dhcp" \in Handlers(d, p) /\ p.selects_other /\ detect_other_dhcp_server(d, p.in)
Dispatched(d, p, ip, after) ==
    [d |-> after,
     out |-> [handlers |-> IF dhcp_enabled(d, p.in) /\ ~Detected(d, p) THEN Handlers(d, p)
                           ELSE Handlers(d, p) \ {"dhcp"},
              yiaddr |-> ip, via |-> p.in,
              opts |-> IF ip = NoAddr THEN <<>>
                       ELSE [t \in {"subnet_mask", "router", "domain_name_server", "host_name"} |->
                                add_subnet_options(d, p.in, ip, t)],
              relayed |-> IF after.relays # {} /\ relay_enabled(after, p.in)
                          THEN S_relay_packet(after, p) ELSE {}]]
AfterBOOTP(d, p, b) ==
    Dispatched(d, p, b.ip, IF Detected(d, p) THEN disable_dhcp_on_interface(b.d, p.in) ELSE b.d)
S_dispatch_request(d, p, r) ==
    AfterBOOTP(d, p, IF "bootp" \in Handlers(d, p) THEN bootp_request(d, p, r) ELSE [d |-> d, ip |-> NoAddr])

-----------------------------------------------------------------------------

Refresh(d) ==
    [S_get_dns(S_update_services(S_publish_disabled_interfaces(
        S_get_network_routes(S_get_interfaces(bootp_readtab(d))), FALSE), sys.plist))
     EXCEPT !.sighup = FALSE]

Becomes(r) == daemon' = r.d /\ out' = r.out
Take(d, old, p, r) ==
    IF p.full /\ S_which_interface(d, p.in) /\ S_ok_to_respond(d, p)
    THEN /\ Becomes(S_dispatch_request(d, p, r))
         /\ seen' = IF Detected(d, p) THEN old \cup {p.in} ELSE old
    ELSE daemon' = d /\ seen' = old /\ out' = Silent

\* A packet arrives.  The process reads its configuration first if it was
\* signalled, and exits if there is no interface to serve.
S_receive_packet(p, r) ==
    /\ UNCHANGED sys
    /\ CASE ~daemon.sighup -> Take(daemon, seen, p, r)
         [] daemon.sighup /\ S_log_interfaces(S_get_interfaces(daemon)) -> Take(Refresh(daemon), {}, p, r)
         [] OTHER -> daemon' = Started /\ seen' = {} /\ out' = Silent

\* SIGHUP, and the notification that an IPv4 address has changed.
install_sighup_handler ==
    /\ ~daemon.sighup
    /\ daemon' = [daemon EXCEPT !.sighup = TRUE]
    /\ UNCHANGED <<sys, seen>> /\ out' = Silent
S_ipv4_address_changed(i, a) ==
    /\ a \notin {sys.addr[j] : j \in Interface} \/ a = NoAddr
    /\ sys.addr[i] # a
    /\ sys' = [sys EXCEPT !.addr[i] = a]
    /\ daemon' = [daemon EXCEPT !.sighup = TRUE]
    /\ UNCHANGED seen /\ out' = Silent

\* Nothing has come for MAXIDLE seconds.
idle_exit == daemon' = Started /\ seen' = {} /\ out' = Silent /\ UNCHANGED sys

\* The administrator changes a file, the directory service comes and goes.
EditPlist(p) == /\ sys.plist # p /\ sys' = [sys EXCEPT !.plist = p]
                /\ UNCHANGED <<daemon, seen>> /\ out' = Silent
EditTab(t) == /\ sys.mtime < MaxTime /\ sys.tab # t
              /\ \E n \in {sys.mtime, sys.mtime + 1} :
                    sys' = [sys EXCEPT !.tab = t, !.mtime = n]
              /\ UNCHANGED <<daemon, seen>> /\ out' = Silent
DirectoryService ==
    /\ sys' = [sys EXCEPT !.od = ~@]
    /\ daemon' = [daemon EXCEPT !.port = IF @ = "live" THEN "stale" ELSE @]
    /\ UNCHANGED seen /\ out' = Silent

BootpdInit ==
    /\ \E a \in [Interface -> Addr \cup {NoAddr}], p \in Plist, t \in Tab,
          n \in Resolver, ro \in Route :
          /\ \A i, j \in Interface : i # j /\ a[i] = a[j] => a[i] = NoAddr
          /\ sys = [addr |-> a, plist |-> p, tab |-> t, mtime |-> 1, od |-> TRUE,
                    dns |-> n, route |-> ro]
    /\ daemon = Started /\ seen = {} /\ out = Silent

BootpdNext ==
    \/ \E p \in Packet, r \in Directory : S_receive_packet(p, r)
    \/ install_sighup_handler
    \/ \E i \in Interface, a \in Addr \cup {NoAddr} : S_ipv4_address_changed(i, a)
    \/ idle_exit
    \/ \E p \in Plist : EditPlist(p)
    \/ \E t \in Tab : EditTab(t)
    \/ DirectoryService

BootpdSpec == BootpdInit /\ [][BootpdNext]_bootpdVars

-----------------------------------------------------------------------------

\* The interfaces that the dynamic store lists as having DHCP turned off are
\* those on which another server has been detected since the configuration
\* was last read: what S_publish_disabled_interfaces removes, adds and
\* remembers keeps up with the flags of the interfaces, which a new list of
\* interfaces loses.
PublishedIsDisabled == daemon.published = seen

\* On an interface where another DHCP server was detected bootpd answers no
\* DHCP request before it reads its configuration again, also when DHCP is
\* on for all interfaces.
YieldsToOtherServer ==
    out.via \in seen => "dhcp" \notin out.handlers

\* Requests are relayed to other hosts only, and never beyond the greatest
\* number of hops, which replies are not held to: the addresses of the
\* interfaces are known before the list of relays is read, and an address that
\* is assigned later makes the list be read again.
RelaysElsewhere ==
    \A q \in out.relayed : q.to # "client" =>
        /\ q.hops <= MaxHops
        /\ daemon.listed /\ ~daemon.sighup => \A i \in Interface : q.to # sys.addr[i]

\* bootpd does not get in the way of other servers: it says where it keeps
\* silent, keeps silent there, and relays to others only.
YieldsToOthers == PublishedIsDisabled /\ YieldsToOtherServer /\ RelaysElsewhere
=============================================================================
