----------------------------- MODULE NetworkInfo -----------------------------
(***************************************************************************)
(* What the agent makes of what the network announces: the options of a    *)
(* DHCP lease, of a DHCPv6 reply and of a router advertisement, merged     *)
(* into the DNS, captive portal and PvD entities of a service              *)
(* (sysconfig.c), with the accessors of those options                      *)
(* (DHCPv6Options.c, RouterAdvertisement.c) and the parsers of encrypted   *)
(* resolvers (DNSEncryptedServers.c).                                      *)
(*                                                                         *)
(* A DHCPv6 option is [code, len, data].  An option of a router             *)
(* advertisement is [type, units, lifetime, body], units its length in      *)
(* eights of bytes.  One encrypted resolver is a record of the fields its  *)
(* parsers read, the lengths as they stand in the packet.                  *)
(***************************************************************************)
EXTENDS Options, FiniteSets, TLC

CONSTANTS
    Lease,       \* the options of a DHCP lease, sequences of [tag, val]
    Reply6,      \* DHCPv6 replies: [opts, stray], stray the bytes behind them
    Advert,      \* options of router advertisements
    OK4, OK6,    \* the options the agent asks for and accepts
    MaxNow       \* bound on the time

Infinite == 1000        \* stands for RA_OPT_INFINITE_LIFETIME
DNSTag == 6
DomainTag == 15
CaptiveTag == 114
SearchTag == 119
DNRTag == 162

VARIABLES
    info,       \* [v4, v6, ra]: the options in use
    published,  \* the entities in the dynamic store
    timer,      \* when the service looks again at the advertisement, or 0
    now

infoVars == <<info, published, timer, now>>

-----------------------------------------------------------------------------
(* Encrypted resolvers: [prio, adn, addrs, svc], or NoServer.              *)

NoServer == [prio |-> 0, adn |-> "bad", addrs |-> <<>>, svc |-> 0]
Unusable == {"any", "loopback", "multicast"}

\* The priority is stored as a signed short.
Signed(prio) == IF prio >= 32768 THEN prio - 65536 ELSE prio

\* The addresses in the announced length, without the unusable ones.
Usable(d, n) == SelectSeq(SubSeq(d.addrs, 1, n), LAMBDA a : a \notin Unusable)
GoodName(d, left) == d.adn_len \in 1 .. 255 /\ d.adn_len <= left /\ d.adn # "bad"
DNSEncryptedServerEntryCreate(d, addrs, svc) ==
    [prio |-> Signed(d.prio), adn |-> d.adn, addrs |-> addrs, svc |-> svc]

\* One of several resolvers in a DHCP option; rest bytes are left of it.
DNSEncryptedServerCreateWithDHCPv4Data(d, rest) ==
    LET left == d.len - 3 - d.adn_len - 1
        addrs == Usable(d, d.addr_len \div 4)
    IN IF rest < 9 \/ d.len + 2 > rest \/ d.len < 3 \/ ~GoodName(d, d.len - 3)
          \/ left < d.addr_len \/ d.addr_len % 4 # 0 \/ addrs = <<>>
         THEN NoServer
         ELSE DNSEncryptedServerEntryCreate(d, addrs, left - d.addr_len)

\* The length of the addresses is kept in eight bits.
DNSEncryptedServerCreateWithDHCPv6Data(d, len) ==
    LET left == len - 4 - d.adn_len - 2
        addr_len == d.addr_len % 256
        addrs == Usable(d, addr_len \div 16)
    IN IF len < 23 \/ ~GoodName(d, len - 4) \/ left < addr_len \/ addr_len % 16 # 0 \/ addrs = <<>>
         THEN NoServer
         ELSE DNSEncryptedServerEntryCreate(d, addrs, left - addr_len)

DNSEncryptedServerCreateWithRAData(d, len) ==
    LET left == len - 8 - d.adn_len - 2
        addr_len == d.addr_len % 256
        addrs == Usable(d, addr_len \div 16)
    IN IF len < 29 \/ ~GoodName(d, len - 8) \/ left < addr_len \/ addr_len % 16 # 0
          \/ addrs = <<>> \/ left - addr_len < 2 + d.svc_len
         THEN NoServer
         ELSE DNSEncryptedServerEntryCreate(d, addrs, d.svc_len)

\* Two entries are the same if their addresses are, in any order.
DNSEncryptedServerListCompareEntries(s, t) ==
    /\ s.adn = t.adn /\ s.prio = t.prio /\ s.svc = t.svc
    /\ Len(s.addrs) = Len(t.addrs) /\ Range(t.addrs) \subseteq Range(s.addrs)

DNSEncryptedServerListAppendUniqueEntry(list, s) ==
    IF \E i \in DOMAIN list : DNSEncryptedServerListCompareEntries(list[i], s)
      THEN list ELSE Append(list, s)

my_CFMutableArrayMergeArray(merge, list) ==
    merge \o SelectSeq(list, LAMBDA s :
        ~\E i \in DOMAIN merge : DNSEncryptedServerListCompareEntries(merge[i], s))

DNSEncryptedServerListSortByServicePriority(list) == SortSeq(list, LAMBDA s, t : s.prio < t.prio)

\* All the resolvers of a DHCP option, or none if one of them is wrong.
DNSEncryptedServerListCreateWithDHCPv4Data(data) ==
    LET Size(i) == FoldLeft(LAMBDA n, d : n + d.size, 0, SubSeq(data, i, Len(data)))
        s == [i \in DOMAIN data |-> DNSEncryptedServerCreateWithDHCPv4Data(data[i], Size(i))]
    IN IF \E i \in DOMAIN data : s[i] = NoServer THEN <<>>
       ELSE DNSEncryptedServerListSortByServicePriority(
              FoldLeft(DNSEncryptedServerListAppendUniqueEntry, <<>>, s))

-----------------------------------------------------------------------------
(* DHCPv6 options.                                                         *)

\* None of the options of a packet that ends inside one.
DHCPv6OptionListParse(p) == IF p.stray # 0 THEN <<>> ELSE p.opts

\* The first option with a code at or behind an index, 0 if there is none.
Find6(opts, code, start) ==
    LET is == { i \in start .. Len(opts) : opts[i].code = code }
    IN IF is = {} THEN 0 ELSE CHOOSE i \in is : \A j \in is : i <= j
DHCPv6OptionListGetOptionDataAndLength(opts, code) ==
    LET i == Find6(opts, code, 1) IN IF i = 0 THEN <<>> ELSE opts[i].data

\* The loop takes one resolver after the other while options are left: it
\* ends well only behind the last option of the packet.
RECURSIVE NextDNR6(_, _, _, _)
NextDNR6(opts, i, entries, success) ==
    IF i > Len(opts) THEN IF success THEN entries ELSE <<>>
    ELSE LET k == Find6(opts, "dnr", i)
             s == DNSEncryptedServerCreateWithDHCPv6Data(opts[k].data, opts[k].len)
         IN IF k = 0 THEN <<>>
            ELSE IF opts[k].len = 0 \/ s = NoServer THEN <<>>
            ELSE NextDNR6(opts, k + 1, DNSEncryptedServerListAppendUniqueEntry(entries, s), TRUE)
DHCPv6OptionDNRCopyAllDNSEncryptedServers(opts) ==
    DNSEncryptedServerListSortByServicePriority(NextDNR6(opts, 1, <<>>, FALSE))

-----------------------------------------------------------------------------
(* Router advertisements: [opts, received].                                *)

\* An option of no length, or one that does not fit, spoils the packet: no
\* advertisement is made of it.
parse_nd_options(opts) == \A i \in DOMAIN opts : opts[i].units # 0
RouterAdvertisementCreate(opts, time) ==
    IF parse_nd_options(opts) THEN {[opts |-> opts, received |-> time]} ELSE {}

OfType(ra, type) == SelectSeq(ra.opts, LAMBDA o : o.type = type)
Bytes(o) == o.units * 8

RouterAdvertisementLifetimeHasExpired(ra, time, lifetime) ==
    lifetime = 0 \/ (lifetime # Infinite /\ (ra.received > time \/ time - ra.received >= lifetime))

\* The first option whose lifetime is not zero, none if a shorter one than
\* allowed comes before it.
FirstLive(s, min) ==
    LET stop == { i \in DOMAIN s : Bytes(s[i]) < min \/ s[i].lifetime # 0 }
        i == CHOOSE i \in stop : \A j \in stop : i <= j
    IN IF stop = {} THEN <<>> ELSE IF Bytes(s[i]) < min THEN <<>> ELSE <<s[i]>>
find_rdnss(ra) == FirstLive(OfType(ra, "rdnss"), 24)
find_dnssl(ra) == FirstLive(OfType(ra, "dnssl"), 16)

\* The names of a list, its padding taken off; padding alone is the root.
get_dnssl_domains(o) == IF o.body = <<>> THEN <<"root">> ELSE o.body

find_source_link_address(ra) ==
    LET s == OfType(ra, "source")
    IN IF s = <<>> THEN <<>> ELSE IF Bytes(s[1]) < 8 THEN <<>> ELSE <<s[1].body>>

get_captive_portal(o) == IF Bytes(o) <= 2 \/ o.body = <<"nul">> THEN <<>> ELSE o.body
find_captive_portal(ra) ==
    LET s == OfType(ra, "captive") IN IF s = <<>> THEN <<>> ELSE get_captive_portal(s[1])

\* The prefixes, none if one option is too short.
copy_prefixes_array(ra) ==
    LET s == OfType(ra, "prefix")
    IN IF \E i \in DOMAIN s : Bytes(s[i]) % 256 < 32 THEN <<>>
       ELSE [i \in DOMAIN s |-> s[i].body.prefix]

pref64_plc_get_prefix_length == <<96, 64, 56, 48, 40, 32>>
get_pref64(o) == Bytes(o) >= 16 /\ o.body.plc + 1 \in DOMAIN pref64_plc_get_prefix_length
find_pref64(ra) == LET s == SelectSeq(OfType(ra, "pref64"), get_pref64) IN IF s = <<>> THEN s ELSE <<s[1]>>

get_pvd_option(o) == IF Bytes(o) % 256 < 6 THEN <<>> ELSE <<o.body>>
find_pvd_options(ra) ==
    LET s == OfType(ra, "pvd") IN IF s = <<>> THEN <<>> ELSE get_pvd_option(s[1])

\* The next resolver and its length, which is kept in eight bits.
find_dnr_option(opts, start) ==
    LET is == { i \in start .. Len(opts) : opts[i].type = "dnr" }
        i == CHOOSE i \in is : \A j \in is : i <= j
    IN IF is = {} THEN 0 ELSE IF Bytes(opts[i]) % 256 < 10 THEN 0 ELSE i

RECURSIVE NextDNR(_, _, _, _, _)
NextDNR(ra, time, i, entries, success) ==
    IF i > Len(ra.opts) THEN IF success THEN entries ELSE <<>>
    ELSE LET k == find_dnr_option(ra.opts, i)
             o == ra.opts[k]
             s == DNSEncryptedServerCreateWithRAData(o.body, (Bytes(o) - 2) % 256)
         IN IF k = 0 THEN <<>>
            ELSE IF RouterAdvertisementLifetimeHasExpired(ra, time, o.lifetime) THEN <<>>
            ELSE IF s = NoServer THEN <<>>
            ELSE NextDNR(ra, time, k + 1, DNSEncryptedServerListAppendUniqueEntry(entries, s), TRUE)
RouterAdvertisementCopyAllDNSEncryptedServers(ra, time) ==
    DNSEncryptedServerListSortByServicePriority(NextDNR(ra, time, 1, <<>>, FALSE))

\* Mutant: the search list has no part in it.
ServersExpiry(ra, time) ==
    LET r == find_rdnss(ra)
    IN IF r = <<>> THEN 0
       ELSE IF RouterAdvertisementLifetimeHasExpired(ra, time, r[1].lifetime) \/ r[1].lifetime = Infinite
         THEN 0
       ELSE ra.received + r[1].lifetime
\* When the DNS information of an advertisement expires, 0 if it does not or
\* has.  Encrypted resolvers, which have lifetimes of their own, do not count.
RouterAdvertisementGetDNSExpirationTime(ra, time) ==
    LET r == find_rdnss(ra)
        d == find_dnssl(ra)
        searched == { o.lifetime : o \in { o \in Range(d) :
                        ~RouterAdvertisementLifetimeHasExpired(ra, time, o.lifetime) } }
        lifetime == Min({r[1].lifetime} \cup searched)
    IN IF r = <<>> THEN 0
       ELSE IF RouterAdvertisementLifetimeHasExpired(ra, time, r[1].lifetime) \/ lifetime = Infinite
         THEN 0
       ELSE ra.received + lifetime

-----------------------------------------------------------------------------
(* The entities.  A DNS entity is [servers, domain, search, encrypted];    *)
(* without servers there is none.                                          *)

NoEntity == [servers |-> <<>>, domain |-> "none", search |-> <<>>, encrypted |-> <<>>]

my_CFStringArrayMerge(merge, list) ==
    FoldLeft(LAMBDA acc, x : IF x \in Range(acc) THEN acc ELSE Append(acc, x), merge, list)
add_ipv6_addresses_to_array(list) == my_CFStringArrayMerge(<<>>, list)
createDNSServersArray(list) == SelectSeq(list, LAMBDA a : a \notin {"any", "broadcast"})

\* The words of the domain name option, only the first if there is a search
\* list, up to a nul that ends a word.
process_domain_name(parts, search_present) ==
    LET Read(st, p) ==
          IF st.stop THEN st
          ELSE IF p \notin {"space", "nul"} THEN [st EXCEPT !.word = Append(@, p)]
          ELSE IF st.word = <<>> THEN st
          ELSE IF search_present \/ p = "nul" THEN [st EXCEPT !.stop = TRUE]
          ELSE [st EXCEPT !.words = @ \o st.word, !.word = <<>>]
        Words(r) == r.words \o r.word
    IN Words(FoldLeft(Read, [stop |-> FALSE, word |-> <<>>, words |-> <<>>], parts))

Entity4(servers, words, search, encrypted) ==
    IF servers = <<>> THEN NoEntity
    ELSE [servers |-> servers,
          domain |-> IF Len(words) = 1 THEN words[1] ELSE "none",
          search |-> IF search # <<>> THEN search ELSE IF Len(words) > 1 THEN words ELSE <<>>,
          encrypted |-> DNSEncryptedServerListCreateWithDHCPv4Data(encrypted)]
DNSEntityCreateWithDHCPInfo(opts) ==
    LET Value(tag) == LET v == dhcpol_find(opts, tag) IN IF tag \in OK4 /\ v # <<>> THEN v[1] ELSE <<>>
        All(tag) == IF tag \in OK4 THEN dhcpol_option_copy(opts, tag) ELSE <<>>
    IN Entity4(createDNSServersArray(Value(DNSTag)),
               process_domain_name(Value(DomainTag), All(SearchTag) # <<>>), All(SearchTag), All(DNRTag))

my_DHCPv6OptionListCopyDNSInfo(opts) ==
    LET servers == DHCPv6OptionListGetOptionDataAndLength(opts, "dns")
    IN IF servers = <<>> THEN NoEntity
       ELSE [servers |-> add_ipv6_addresses_to_array(servers), domain |-> "none",
             search |-> IF "search" \in OK6
                          THEN DHCPv6OptionListGetOptionDataAndLength(opts, "search") ELSE <<>>,
             encrypted |-> IF "dnr" \in OK6
                             THEN DHCPv6OptionDNRCopyAllDNSEncryptedServers(opts) ELSE <<>>]

EntityOf(ra, time, r, d) ==
    IF r = <<>> THEN NoEntity
       ELSE IF RouterAdvertisementLifetimeHasExpired(ra, time, r[1].lifetime) THEN NoEntity
       ELSE [servers |-> add_ipv6_addresses_to_array(r[1].body), domain |-> "none",
             search |-> IF "search" \notin OK6 \/ d = <<>> THEN <<>>
                        ELSE IF RouterAdvertisementLifetimeHasExpired(ra, time, d[1].lifetime) THEN <<>>
                        ELSE get_dnssl_domains(d[1]),
             encrypted |-> IF "dnr" \in OK6
                             THEN RouterAdvertisementCopyAllDNSEncryptedServers(ra, time) ELSE <<>>]
my_RouterAdvertisementCopyDNSInfo(ra, time) == EntityOf(ra, time, find_rdnss(ra), find_dnssl(ra))

Merged6(a, b) ==
    IF "dns" \notin OK6 THEN NoEntity
       ELSE [servers |-> my_CFStringArrayMerge(a.servers, b.servers), domain |-> "none",
             search |-> IF a.search = <<>> THEN b.search
                        ELSE my_CFStringArrayMerge(a.search, b.search),
             encrypted |-> DNSEncryptedServerListSortByServicePriority(
                             my_CFMutableArrayMergeArray(a.encrypted, b.encrypted))]
DNSEntityCreateWithIPv6Info(opts, ra, time) ==
    Merged6(my_DHCPv6OptionListCopyDNSInfo(opts), my_RouterAdvertisementCopyDNSInfo(ra, time))

merge_dict_arrays(one, two) == one \o SelectSeq(two, LAMBDA x : x \notin Range(one))

Merged(a, b) ==
       [servers |-> merge_dict_arrays(a.servers, b.servers), domain |-> a.domain,
        search |-> merge_dict_arrays(a.search, b.search),
        encrypted |-> merge_dict_arrays(a.encrypted, b.encrypted)]
DNSEntityCreateWithInfo(v4, v6, ra, time) ==
    Merged(DNSEntityCreateWithDHCPInfo(v4), DNSEntityCreateWithIPv6Info(v6, ra, time))

CaptivePortalCopyWithDHCPInfo(opts) ==
    LET v == dhcpol_find(opts, CaptiveTag) IN IF CaptiveTag \in OK4 /\ v # <<>> THEN v[1] ELSE <<>>
CaptivePortalCopyWithIPv6Info(opts, ra) ==
    LET v == DHCPv6OptionListGetOptionDataAndLength(opts, "captive")
    IN IF "captive" \notin OK6 THEN <<>> ELSE IF v # <<>> THEN v ELSE find_captive_portal(ra)
CaptivePortalEntityCreateWithInfo(v4, v6, ra) ==
    LET a == CaptivePortalCopyWithDHCPInfo(v4)
    IN IF a # <<>> THEN a ELSE CaptivePortalCopyWithIPv6Info(v6, ra)

\* A domain whose advertisement nests another one is not published; what a
\* server knows about it only with the H flag.
PvDEntityCreateWithInfo(ra) ==
    LET p == find_pvd_options(ra)
    IN IF p = <<>> THEN {} ELSE IF p[1].ra \/ p[1].id = "bad" THEN {}
       ELSE {p[1].id} \cup (IF p[1].http THEN {"http"} ELSE {})
                      \cup (IF p[1].legacy THEN {"legacy"} ELSE {})

\* The network is known by the first prefix and the router's address; without
\* a prefix, by the first 64 bits of the address DHCPv6 has granted, if any.
DHCPv6ClientCopyAddresses(opts) == DHCPv6OptionListGetOptionDataAndLength(opts, "ia_na")
create_signature(ra, dhcp_addresses) ==
    LET from == find_source_link_address(ra)
        prefixes == copy_prefixes_array(ra)
    IN IF from = <<>> THEN <<>>
       ELSE IF prefixes # <<>> THEN <<prefixes[1], from[1]>>
       ELSE IF dhcp_addresses # <<>> THEN <<dhcp_addresses[1].net64, from[1]>> ELSE <<>>

\* A prefix is withdrawn by an advertisement that gives it no lifetime, not
\* when its lifetime ends: nothing sets a timer for it, and publishing again
\* does not look at the time.
copy_nat64_prefix(ra) ==
    LET p == find_pref64(ra)
    IN IF p = <<>> THEN 0 ELSE IF p[1].lifetime = 0 THEN 0 ELSE pref64_plc_get_prefix_length[p[1].body.plc + 1]

-----------------------------------------------------------------------------
(* The service: every change of what was heard is published.               *)

NoRA == [opts |-> <<>>, received |-> 0]

ServicePublish(n, time) ==
    [dns |-> DNSEntityCreateWithInfo(n.v4, n.v6, n.ra, time),
     captive |-> CaptivePortalEntityCreateWithInfo(n.v4, n.v6, n.ra),
     pvd |-> PvDEntityCreateWithInfo(n.ra),
     signature |-> create_signature(n.ra, DHCPv6ClientCopyAddresses(n.v6)),
     nat64 |-> copy_nat64_prefix(n.ra)]

InfoInit ==
    /\ info = [v4 |-> <<>>, v6 |-> <<>>, ra |-> NoRA]
    /\ now = 0 /\ timer = 0
    /\ published = ServicePublish([v4 |-> <<>>, v6 |-> <<>>, ra |-> NoRA], 0)

Heard(n) == info' = n /\ published' = ServicePublish(n, now) /\ UNCHANGED now

HearLease == \E l \in Lease : Heard([info EXCEPT !.v4 = l]) /\ UNCHANGED timer
HearReply ==
    \E p \in Reply6 : Heard([info EXCEPT !.v6 = DHCPv6OptionListParse(p)]) /\ UNCHANGED timer
\* A malformed packet is dropped.
HearAdvert ==
    \E o \in Advert : \E ra \in RouterAdvertisementCreate(o, now) :
      Heard([info EXCEPT !.ra = ra]) /\ timer' = RouterAdvertisementGetDNSExpirationTime(ra, now)

\* The router's lifetime has become zero.
LoseRouter == Heard([info EXCEPT !.ra = NoRA]) /\ timer' = 0

rtadv_acquired ==
    /\ timer # 0 /\ timer <= now
    /\ Heard(info) /\ timer' = RouterAdvertisementGetDNSExpirationTime(info.ra, now)

Passes == now < MaxNow /\ now' = now + 1 /\ UNCHANGED <<info, published, timer>>

InfoNext == HearLease \/ HearReply \/ HearAdvert \/ LoseRouter \/ rtadv_acquired \/ Passes

-----------------------------------------------------------------------------

\* The address of a server or the name of a search list that came with a
\* lifetime is published only while the lifetime lasts, or until the timer
\* that is due has run: the timer of rtadv.c is set for the first of several
\* lifetimes to end and is set again for the next one, whatever DHCP and
\* DHCPv6 publish in between.  Nothing like it holds of the prefix for NAT64,
\* which stays published when its lifetime has ended.
LapsedIsWithdrawn ==
    LET Lives(o) == o.lifetime = Infinite \/ now - info.ra.received < o.lifetime
        live(type) == UNION { Range(o.body) : o \in { o \in Range(OfType(info.ra, type)) : Lives(o) } }
        told4(tag) == UNION { Range(o.val) : o \in { o \in Range(info.v4) : o.tag = tag } }
        told6(code) == UNION { Range(o.data) : o \in { o \in Range(info.v6) : o.code = code } }
        due == timer # 0 /\ timer <= now
        dns == published.dns
    IN /\ due \/ Range(dns.servers) \subseteq told4(DNSTag) \cup told6("dns") \cup live("rdnss")
       /\ due \/ Range(dns.search) \subseteq
            told4(SearchTag) \cup told4(DomainTag) \cup told6("search") \cup live("dnssl") \cup {"root"}

\* No resolver is published twice, none without an address and none of a
\* message in which one is malformed; those of IPv4 come before those of
\* IPv6, both in the order of their priority.
EncryptedServersConsistent ==
    LET e == published.dns.encrypted
        names6 == { o.data.adn : o \in { o \in Range(info.v6) : o.code = "dnr" } }
    IN /\ \A i, j \in DOMAIN e : i # j => ~DNSEncryptedServerListCompareEntries(e[i], e[j])
       /\ \A i \in DOMAIN e : e[i].addrs # <<>> /\ e[i].adn # "bad"
       /\ Cardinality({ i \in 1 .. Len(e) - 1 : e[i].prio > e[i + 1].prio }) <= 1
       /\ "bad" \in names6 => DHCPv6OptionDNRCopyAllDNSEncryptedServers(info.v6) = <<>>
       /\ published.dns.servers = <<>> => published.dns = NoEntity

\* The servers and search lists of lapsed advertisements are withdrawn, and the
\* encrypted resolvers, whose lifetimes no timer watches, are consistent.
PublishesWhatLives == LapsedIsWithdrawn /\ EncryptedServersConsistent

\* "ignores all DNR instances if any failed parsing", and none otherwise:
\* the resolvers of a DHCPv6 reply that are all well formed are published.
WellFormedArePublished ==
    LET d == { o \in Range(info.v6) : o.code = "dnr" }
        Good(o) == DNSEncryptedServerCreateWithDHCPv6Data(o.data, o.len) # NoServer
    IN d # {} /\ (\A o \in d : Good(o)) => DHCPv6OptionDNRCopyAllDNSEncryptedServers(info.v6) # <<>>
=============================================================================
