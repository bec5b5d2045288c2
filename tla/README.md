# Verification of bootp

A TLA+ development for Apple's `bootp` project: the DHCP/BOOTP/NetBoot server
`bootpd`, the IPConfiguration agent (the DHCP, DHCPv6, SLAAC, link-local and
manual configuration client of the system) and the libraries and tools around
them, with the other programs of the repository. TLC checks small instances;
TLAPS proves invariants of the DHCP server, the DHCP client, the ARP session, the
DHCPv6 client and server, the automatic IPv6 service, the shared sockets, the
notifications of an interface, the framework's service objects, the dispatch of
`bootpd`, `rtadvd` and the NetBoot client, and the refinement of the promises of the
ARP and DHCPv6 clients, for every instance. Paths below are relative to the repository
(`src/`).

## 1. The system

### Server side

| Component | State | Operations | Interacts with |
|---|---|---|---|
| DHCP server, `bootpd.tproj/dhcpd.c` | lease database `S_leases`, offers `S_pending_hosts` | `dhcp_request` per message type, `dhcp_bootp_allocate`, `dhcp_init` | subnet list, bootptab, lease file, `bootpd.c` |
| Subnet list, `bootplib/subnets.c` | entries with range, lease limits and cursor `nextip` | acquire an address, find the entry of an address | read from `bootpd.plist` on reload |
| Property-list cache, `bootplib/NICache.c`, `hostlist.c`, `bootpdfile.c` | ordered list of entries, its file | lookup, add, change, write, read | DHCP and NetBoot server |
| Dispatch, `bootpd.tproj/bootpd.c` | interfaces, services per interface, idle time | receive loop, SIGHUP, plain BOOTP, relay, option assembly | all of the above |
| NetBoot server, `bsdpd.c`, `macNC.c`, `AFPUsers.c` | client bindings, AFP user pool, image list | BSDP list / select, boot | the same database class, the file system |
| Directory lookup, `bootplookup.c` | none | host by address or hardware address | Open Directory |

### Client side (IPConfiguration agent, `IPConfiguration.bproj`)

| Component | State | Operations | Interacts with |
|---|---|---|---|
| DHCP method, `dhcp.c` | `Service_dhcp_t`: state, timer, saved packet, lease, lease list | `dhcp_thread` events; INIT, SELECT, INIT-REBOOT, BOUND, RENEW, REBIND, DECLINE, UNBOUND | timer, ARP client, BOOTP socket, service record |
| Lease list, `DHCPLease.c` | leases by router, the file of the last one | find, update, mark after a NAK, drop stale, read, write | `dhcp.c` |
| Service and interface management, `ipconfigd.c`, `server.c`, `sysconfig.c` | interface list, services, router record, published dictionary, sleep/wake and link state | create and remove services, deliver events, publish, elect | every method |
| Timers, `timer.c` | one callout per owner | set, cancel, expire | every method |
| ARP client, `arp_session.c` | one session per interface: the clients, a counted BPF descriptor; per client the request, its timer and callback | probe, announce, resolve, detect, defend, cancel; read, retransmit, call back | DHCP, link-local, manual, failover |
| BOOTP socket, `bootp_session.c` | shared socket, one receive callback per client | open, close, transmit, deliver | DHCP, INFORM |
| DHCPv6, `DHCPv6Client.c`, `DHCPv6Socket.c` | state, server, addresses, timers | Solicit, Request, Confirm, Renew, Rebind, Release, Decline, Inform | router advertisements, services |
| Router advertisements, `rtadv.c`, `RTADVSocket.c`, `CGA.c` | advertisements, CLAT46, addresses | solicit, collect, publish, start DHCPv6 | DHCPv6, services |
| Other methods, `linklocal.c`, `linklocal_v6.c`, `manual.c`, `manual_v6.c`, `failover.c`, `stf.c` | address being probed, collisions | start, ARP result, link change | ARP client |
| Wi-Fi information, `wireless.c` | SSID, BSSID, network ID | snapshot, compare | `ipconfigd.c`, `dhcp.c` |
| Interface configuration, `ifutil.c`, `bootplib/interfaces.c` | kernel state | ioctls, routes | every method |

### Around them

The `IPConfiguration` framework (`IPConfigurationService.c`,
`DHCPv6PDService.c`: a client handle over the agent's Mach interface and the
dynamic store), `IPConfigurationHelper` (fetches provisioning domain data),
`BSDPClient` and `bsdpc.tproj` (NetBoot client), `dhcp6d.tproj` (a stateless
DHCPv6 responder), `rtadvd` (a router advertisement daemon derived from KAME),
option encoding in `bootplib`, and command-line tools.

### What is hard in it

- The server handles a packet to its end before it reads the next, but offers,
  leases, declines, reclaims, reloads and restarts interleave between packets,
  and the memory, the file and the cursor must stay consistent. What makes it
  correct: no address has two owners, no live lease is taken away, an ACK is
  backed by the file, a client has one lease per net.
- The client runs on one dispatch queue, but its events (timer, packet, ARP
  result, link, SSID, roam, sleep, wake, user) come in any order, and one timer,
  one ARP request and one receive callback serve all states. What makes it
  correct: it never stalls, renews in time, stops using an expired lease,
  and uses an address only on the network and after the ACK it belongs to.
- The ARP clients of an interface share a descriptor, and answer through a
  callback that is queued behind timers and reads that are already waiting.
  What makes it correct: each request is answered once or withdrawn, with what
  was heard, and the descriptor is open exactly while somebody needs it.
- The agent is told that something changed, not what: link, Wi-Fi, power and
  address notifications are handled late and in any order, and two services of
  an interface may stand for one identifier in the dynamic store. What makes it
  correct: services are woken once, know the network they are on, publish what
  the interface has, and no interface is left down.
- Descriptors, CLAT46 addresses, AFP users and host numbers are pools shared by
  many: each use is undone once, whatever fails in between.
- Objects of the framework outlive the agent, which may die between any two
  calls: their services come back once, and none outlives its object.
- The codecs of the library parse what the network sends: what is encoded is
  decoded to the same, and what lapses is no longer published.
- Memory of other networks: the client keeps leases by router MAC, remembers the
  last router's MAC and flags across link changes, sleep and wake.

`PROJECT.json` lists every component with its status and every hazard at its
line.

## 2. Modules

| Module | What it is | Code |
|---|---|---|
| `DHCPServer`, `DHCPServer_proofs` | the DHCP server, its lease database and file, offers, allocation, reload, restart; theorems | `dhcpd.c`, `subnets.c`, `NICache.c`, `hostlist.c` |
| `DHCPClient`, `DHCPClient_proofs` | the DHCP method of the agent with lease list, router record, sleep/wake/link events; theorems | `dhcp.c`, `DHCPLease.c` |
| `ARPRequests` | what the ARP client promises its users: one answer per request | |
| `ARPSession`, `ARPSession_proofs` | the ARP clients of one interface; implements `ARPRequests`; theorems | `arp_session.c` |
| `DHCPv6Service` | what the DHCPv6 client promises the router advertisement service | |
| `DHCPv6Client`, `DHCPv6Client_proofs` | the DHCPv6 client; implements `DHCPv6Service`; theorems | `DHCPv6Client.c` |
| `SharedSocket` | the descriptor shared by the clients of a protocol | `bootp_session.c`, `DHCPv6Socket.c`, `RTADVSocket.c` |
| `InterfaceState` | link, Wi-Fi, power and address notifications of an interface | `ipconfigd.c`, `wireless.c` |
| `ServiceList` | configuration, publication, election and removal of services; ranks | `ipconfigd.c`, `manual.c`, `linklocal.c`, `failover.c` |
| `Agent_proofs` | theorems of `InterfaceState` and `ServiceList` | |
| `Rtadv` | the automatic IPv6 service, over `DHCPv6Service` | `rtadv.c`, `PvDInfoContext.c` |
| `Rtadv_proofs` | theorems about `SharedSocket` and `Rtadv` | |
| `IPConfigurationService`, `IPConfigurationService_proofs` | service objects of the framework and the agent they call; theorems | `IPConfigurationService.c`, `DHCPv6PDService.c`, `ObjectWrapper.c`, `server.c`, `ipconfigd.c` |
| `DNSNames` | lists of domain names, encoder and decoder | `DNSNameList.c` |
| `Options` | the option area, option strings, classless routes; extends `DNSNames` | `dhcp_options.c`, `IPv4ClasslessRoute.c` |
| `NetworkInfo` | what of leases, replies and advertisements is published; extends `Options` | `sysconfig.c`, `RouterAdvertisement.c`, `DHCPv6Options.c`, `DNSEncryptedServers.c` |
| `NBImages`, `NetBoot` | the image list; the NetBoot server over it | `nbimages.c`, `nbsp.c`, `bsdpd.c`, `macNC.c`, `AFPUsers.c` |
| `Bootpd` | configuration, dispatch, BOOTP replies, relay | `bootpd.c`, `bootpdfile.c`, `bootplookup.c` |
| `Rtadvd` | the router advertisement daemon | `rtadvd.c`, `config.c`, `timer.c`, `if.c` |
| `BSDPClient` | the NetBoot client library | `BSDPClient.c` |
| `DHCPv6Server` | the stateless DHCPv6 server | `DHCPv6Server.c` |
| `Daemons_proofs` | theorems about `DHCPv6Server`, `BSDPClient`, `NetBoot`, `Bootpd` and `Rtadvd` | |
| `MC*`, `*.cfg` | instances for TLC | |

The last three `MC` modules each hold several components that share no state:
`MCAgent` (`InterfaceState`, `ServiceList`, `IPConfigurationService`, `Rtadv`),
`MCSessions` (`ARPSession`, `DHCPv6Client`, `SharedSocket`) and `MCDaemons`
(`MCLibrary` with `DNSNames`, `Options`, `NetworkInfo`; `NetBoot`, `Bootpd`,
`Rtadvd`, `BSDPClient`, `DHCPv6Server`). A variable `part`, chosen initially,
says which component a behaviour is about; the others stay in one initial state.
The state space is the sum of theirs, not the product, and every property is
checked in all of them.

How components meet: `Rtadv` calls the DHCPv6 client through `DHCPv6Service`,
which `DHCPv6Client` is shown to implement; the methods use the ARP client as
`ARPRequests` promises, which `ARPSession` is shown to implement; `NetBoot` and
`Bootpd` call the handlers of each other by name; `NetworkInfo` uses the codecs of
`Options` and `DNSNames` unchanged.

In all of them a handler that runs to its end on one queue, or in one
single-threaded process, is one action, written as a function from the state
record to the state record with the name of the C function, and the handlers
it calls are the functions it is composed of. What system calls answer is chosen
by the event.

### DHCPServer

| Variable | Code |
|---|---|
| `leases` | `S_leases`: entries with address, identifier and expiry |
| `disk` | `/var/db/dhcpd_leases` |
| `pending` | `S_pending_hosts`; `hostbyaddr` keeps one per client |
| `nextip` | the cursor of each subnet entry |
| `subnets`, `allocates`, `static` | `bootpd.plist` and bootptab as last read |
| `enabled` | nets with the DHCP service on; `SERVICE_DETECT_OTHER_DHCP_SERVER` turns one off |
| `now` | arrival time of the packet in seconds |
| `reply` | the reply of the last handler and whose packet it was |
| `reclaimed` | history: what `DHCPLeases_reclaim` has taken |

Actions: `Discover`, `SelectOther`, `SelectUs`, `ReRequest`, `Decline`,
`Release`, `Inform` are the branches of `dhcp_request`, each from the lookup of
the binding to the commit and the reply; `BootpAllocate` is
`dhcp_bootp_allocate`; `Sighup` and `Restart` reload configuration and
database; `Tick` is time between packets. A write may fail when `DiskMayFail`.

Abstractions: the C list is kept in order of use, and the order decides only
which of several expired entries is reclaimed and which of several bindings is
found first: both are choices. Addresses are numbers, a net is a broadcast
domain, giaddr and interface address are one "net", and a subnet entry lies in
one net. The option area, logging and the threshold on `dp_secs` (which only
suppresses replies) are left out. A file cut off in the middle is not modelled.

### DHCPClient

One service on one interface. `svc` is `Service_dhcp_t` with the parts of the
service record the method uses: published state, active address, router record
(`ia`, `hw`, `verified` flags and the MAC left in memory), the timer with the
function it will call, the receive callback, the ARP request under way, the
lease list and the lease file. A handler that calls another is a function from
service record to service record, with the name of the C function, so that an
action is one event handled to its end as on the dispatch queue.

Actions: one per timer callback (`Timer*`), `Receive` for packets in each
state, `ArpBound`, `ArpResolve`, `ArpRouter`, `ArpCheck` for ARP results,
`ArpCollision`, and one per event of `dhcp_thread` (`LinkChanged`,
`LinkTimerExpired`, `Renew`, `Sleep`, `Wake`, `BssidChanged`, `ForgetSSID`,
`Start`, `Stop`). `Reboot`, `Move` and `Tick` are the machine, the network and
the clock. Results in time and replies are `Quiet`; errors, collisions, sleep,
moves and user requests are a `Disturbance`, of which `MaxEvents` may happen.

Abstractions: all addresses are private and all routers have the same IP
address, so only the router's MAC (named by its network) tells networks apart.
Replies carry an address, a lease time, a rating, and whether they name a router
or ask for IPv6 only. T1 and T2 are derived from the lease time. Left out:
link-local fallback, the clock being set, active-during-sleep, transaction
ids, server identity, NetBoot, the doubling of the retry interval, and link
events between the notice of sleep and sleep itself.

### ARPSession

| Variable | Code |
|---|---|
| `client[c]` | `arp_client`: `func` is set, `command`, `command_status`, `fd_open`, target or detect list, `try`, `conflict_count`, `skip_first`, the timer with the function it will call, the queued callback |
| `refcount`, `fd` | `read_fd_refcount`, `read_fd` |
| `live`, `created` | the client list, in order of creation |
| `heard`, `result` | history: a matching packet was read; the answer to the last request |

Actions: `New`, `Free`, `Cancel`, `Defend` and the four requests are the calls of
the configuration methods; `Fire` puts an expired timer on the dispatch queue
and `Timer` runs it; `Read` is `arp_if_session_read` for one packet, `ReadFailed`
its failure; `Callback` is `arp_client_do_callback`. Of the order of the serial
queue the model keeps what can be observed: a timer that fired first runs before
the callback (`ready`), a callback queued while nothing could be read runs before
the next read (`"next"`). Between two packets of one buffer other work is
allowed, which only adds behaviours. A packet is its operation, its addresses,
whether this host sent it and whether it carries the recorded hardware address.
`ARPRequests` sees of this `req`: idle, waiting, heard of, or the answer.
`DHCPClient` uses the ARP client the way `ARPRequests` describes it.

### DHCPv6Client and DHCPv6Service

`c` is `struct DHCPv6Client`: mode, state, addresses, saved packet, lease, the timer
with its function and event, the receive callback, counters and the pending
notification. `user` is the owner: the router advertisement service or the
prefix delegation service. Actions: the calls of the owner (`RouterSays`,
`DHCPv6ClientRelease`), link, roam, sleep, wake and duplicate detection
events, `Timeout`, `DHCPv6SocketDemux` for packets, and the deferred
notification. Time is relative: a retransmission takes one tick. Transaction
identifiers are not reused, so only answers to the exchange under way are heard.
The packet is its type, its IA, its preference and status, and the list of
options that a message carries. `DHCPv6Service` has the mode, whether an exchange is
under way, whether information is there, and the address.

### SharedSocket

One module for the three socket files, because their skeletons agree and their
differences matter: `fam` says which one it is. `users` is the count, `read_fd`
the descriptor of the dispatch source, `cancelling` the descriptors whose cancel
handler has yet to run, `closing` the delayed close. A bootp or dhcpv6 socket whose
source is cancelled while users come is revived by the cancel handler; an rtadv
socket is replaced.

### InterfaceState, ServiceList, Rtadv, IPConfigurationService

`InterfaceState`: `air` is what the link and Wi-Fi are, `keys` the
notifications on their way, `f` the agent's `IFState` with the generation
counters of `the wake` and the kernel's IPv6 state. A handler reads `air` when
it runs, not when the notification was sent.

`ServiceList`: `ag` holds per interface the lists of IPv4 and IPv6 services, the
flags of disable-until-needed, the addresses in the kernel, the published
entities and `attn`, the work that is left for `perform_async_work`. The methods
appear as their start and results (`Probe`, `linklocal_allocate`, `Dhcp`,
`Rtadv`): success, failure, conflict.

`Rtadv`: `s` is `Service_rtadv_t` with the published state, the timer, the receive
callback, the advertisement in use, the provisioning domain and the CLAT46 table, and
`addr`, the autoconfigured address, because a handler that flushes the prefixes takes
it away in its middle; `k` is what else the kernel has, with the address events
that are on their way to the agent. `Routers` and `Domains` are the names that
advertisements use. A disturbance is a link, wake or router expiry event, a
failing system call, or an address that goes away; `MaxEvents` may happen.

`IPConfigurationService`: each object has two threads, the client's and its serial
queue, with a program counter each; a call to the agent is a step. The agent may die
between any two steps. Both validators of the options, the framework's and the
agent's, are modelled, and TLC evaluates (`ValidatorsAgree`) that every accepted
sample is understood. Services of the configuration (`Configured`) are there before the
first object and only the configuration removes them.

### DNSNames, Options, NetworkInfo

Pure algorithms as operators, with small machines that feed them: a list of names
that grows, an option area that fills, and announcements that arrive and lapse. Bytes
are kept as numbers, since offsets, lengths and truncation are what the properties
are about. The decoder of `DNSNames` is a loop that is followed turn by turn,
so that its end is a property and not an assumption.

There are two conversions of option data back to text. `dhcptag_to_str`, behind
`ipconfig getoption`, converts only the first of several addresses, knows neither
names nor routes, and reads a bool as an int: the three bytes behind the option
(`Behind`, any of 0 and 1) are part of what it shows, so that a bool that is not set
may be shown as another number. `ConvertsFirst` claims no more than that.
`dhcptype_print_cfstr`, behind `getpacket` and `netbootoption`, looks at one byte of a
bool and shows all there is: `PrintsBack` says that it gives the strings back.

What lapses is withdrawn (`LapsedIsWithdrawn`) for the DNS servers and the search
list of an advertisement, for which `rtadv.c` sets its timer. The other parts have no
timer: an encrypted resolver counts no lifetime of its own towards it, and the NAT64
prefix is looked at for a lifetime of zero only (`copy_nat64_prefix`), so that it stays
published when its lifetime has ended, until an advertisement takes it back or
the router is lost. An advertisement with a malformed option is dropped, and the one in
use stays.

### NBImages, NetBoot, Bootpd, Rtadvd, BSDPClient, DHCPv6Server

`NetBoot`: the list of clients and its file, host numbers, users, shadow
directories per volume, images, and what each client was told when it booted
(`booted`). The steps of one request that may fail (password, options, directories,
writes, the size of the reply) are the record `e`; one request may be disturbed,
and a restart may follow it. Ages are relative.

`Bootpd`: `sys` is the host (addresses, configuration, tables, directory, routes),
`daemon` the process, `out` what the packet of the step led to. The DHCP and
NetBoot handlers are names here. Relays are a set: a packet goes to each of them but the
broadcast address of the net it came from. Directory answers may lack the hardware
addresses, and a boot file may have to exist.
The hop limit holds for requests, not for the replies that are relayed back.

`Rtadvd`: the configuration with its checks, the length of a packet as it is
computed and as it is written, one interface with its timer, its prefixes and their
timers, and the messages of the routing socket, which are older than the state
that their handler reads. `at` says where the main loop is: at its top, where the
timers are run, the newest first, or in `select`, after which the routing socket and
the packet socket are read in this order. What the kernel did before the daemon
opened its routing socket is not reported to it, and the flags of an interface may be
refused when they are asked for. An entry of the configuration has fewer than 256
resolvers, because an entry of the capability file is at most `BUFSIZ` bytes.

`BSDPClient` and `DHCPv6Server`: the structure of the code, the packets on their
way, and for the server the interfaces as the kernel has them, which change before the
store says so. The server reads its configuration before it sets up the notifications:
a change between the two is not told of, `unseen` remembers it, and the list of
interfaces may be wrong until the next notification or SIGHUP.

## 3. Runs

| Run | Result | Properties | What it shows |
|---|---|---|---|
| `server_handlers` | pass | `AckAfterCommit` | all requests of one client with a failing disk and a subnet that may stop allocating |
| `server_two` | pass | `FileIsCurrent`, `OneOwnerUntilReclaimed`, `LiveOfferKept`, `OneLeasePerNet`, `LiveLeaseKept` | two clients compete for two addresses of one net; or they roam between two nets and select this or another server, one of them bound in bootptab now and then |
| `client_lifetime` | pass | `PublishedIsBacked`, `NeverStalls`, `RenewsOnceRouterKnown`, `StopsAtExpiry` | a wired client, two servers, a whole lease |
| `client_wifi` | pass | `AddressAcknowledged`, `BoundToThisNetwork`, `OneLeasePerRouter` | a Wi-Fi client between two networks |
| `agent` | pass | `AtMostOneWake`, `ServicesKnowNetwork` | interface: one wake between two sleeps; after all changes the services know the network |
| | | `PublishedIsConfigured`, `NeverLeftDown` | services: a published address is on the interface and belongs to the service or its child; no interface stays down when nothing better serves |
| | | `ServicesFollowObjects`, `ToldGoneIsGone` | objects: a service per live object, none for a dead one, and a handler that hears its service is gone can rely on it |
| | | `InactiveIsClean`, `ListensToRouters` | automatic IPv6: nothing is left behind after giving up, CLAT46 uses are counted, no order of events leaves it deaf |
| `sessions` | pass | `AnswerPending`, `FdCounted`, `ImplementsRequests` | two ARP clients share a descriptor and implement `ARPRequests` |
| | | `StatefulNeverStalls`, `GrantedByReply`, `DuplicateDeclined`, `NeverSilent`, `ExchangesEnd`, `ServesRouterAdvertisement` | a DHCPv6 client never stalls or waits for the answer to nothing, uses what a REPLY granted, declines duplicates, ends its exchanges and implements `DHCPv6Service` |
| | | `Counted`, `ListensAgain` | three users of a socket of each family: counted, closed when unused, and open again after every failure |
| `daemons` | pass | `NamesSurvive`, `OptionsSurvive`, `PublishesWhatLives` | the library: encoding and decoding agree, the decoder stays inside, DNS servers and search lists that have lapsed are withdrawn and encrypted resolvers are consistent |
| | | `BootsHold` | NetBoot: clients that run have numbers and users of their own, are still served, and were offered the default |
| | | `YieldsToOthers` | bootpd says where it keeps silent, keeps silent there, and relays to others only |
| | | `AdvertisesInTime` | rtadvd: an awaited advertisement is near, none comes too soon, the daemon's own assertions hold |
| | | `RequestsAreAnswered` | BSDP client: every request ends, with an answer to it |
| | | `ServesWhereItListens` | DHCPv6 server: memberships follow the list of interfaces |
| `client_renewal` | violation | `RenewsAtT1` | the timer for T1 is taken by the router retry |
| `client_forget` | violation | `NeverStalls` | on Wi-Fi, a forgotten network leaves INIT without a timer |
| `client_roam` | violation | `AddressOfThisNetwork` | a stale MAC address makes the client keep the lease of another Wi-Fi network |
| `arp_overtaken` | violation | `InUseReported` | the last timer overtakes the answer |
| `library_dnr` | violation | `WellFormedArePublished` | an option behind the resolvers makes them disappear |

The type invariant of a module is the first conjunct of one of its properties
(`TypeOK` in `PublishedIsBacked`, `V6TypeOK` in `GrantedByReply`, `RtadvTypeOK`
in `InactiveIsClean`, `SocketTypeOK` in `Counted`); that of `DHCPServer`, of
`DHCPClient` and of `ARPSession` is proved (section 5).

### Bounds and why they suffice

- `server_handlers`: one client, one address, time 0..2, leases of 1 to 2
  seconds: expiry before, at and after the arrival time, and options below,
  inside and above the limits. One client is enough for what a handler does to
  its own lease.
- `server_two`: two settings with states of their own. One net: two clients for a
  conflict, two addresses so that the cursor moves, wraps and is exhausted; time
  0..1 with a pending time of 1 lets an offer become stale, a released lease
  expire and a declined address come free. Two nets: one address and one subnet
  entry per net, time 0..2 and leases of one second, so that leases expire and are
  reclaimed while the client is on the other net; an infinite lease is the same as
  the longest one. bootptab binds one client to the address of the second net or
  nobody to any, and a reload switches.
- `client_lifetime`: a lease of 4 seconds (T1 = 2, T2 = 3), all waits 1 second,
  one retry, time 0..7: a whole lease, its renewal and the time after it, with
  two disturbances at any point.
- `client_wifi`: two networks, time 0..4, three disturbances: leave, return and
  one more (forget, sleep, roam, power loss). `client_roam` allows six, with an
  infinite lease, ideal offers and no retries.
- `agent`: two Wi-Fi networks with three access points between them, one duplicate
  address and one wake event per wake of the system, so that a notification of before a sleep meets one of
  after; two interfaces with two configured services, a dynamic one and a
  link-local child, and two changes of configuration or carrier, enough for an
  election to be lost and won back; two objects, so that one replaces the
  other's service, and one death of the agent, after which each step of a
  re-creation can meet a release; for `Rtadv` two routers, five disturbances,
  two CLAT46 addresses and two interfaces, so that an address is shared only
  when none is free.
- `sessions`: two ARP clients, one of them with `probes_are_collisions`, three
  requests, one probe, announcement and conflict retry and two detections:
  every counter is met below, at and beyond its limit; a DHCPv6 lease of 3 ticks
  (T1 = 1, T2 = 2), two retries, two networks, two addresses and two disturbances; `Answers` holds
  the packets a server may send that the client tells apart;
  three users and three descriptors, one more than can be in use at once
  (one read, others in cancellation).
- `daemons`: names of up to three labels over five byte values, among them the
  length that is too long (64) and the byte of a pointer (192), received
  lists of 6 bytes and 24 turns of the decoder; option areas of 12 and 17 bytes, so
  that the third option, the vendor area or the end tag does not fit; lifetimes 0
  to 3 and one that never lapses, up to time 3; two NetBoot clients, one user, two
  volumes, two host numbers, one disturbed request and then one restart, so that
  every pool is exhausted and a reload falls between two boots; two interfaces, a relay loop of 2 hops, one change of
  bootptab within the second; two routing messages, a waiting host, and
  lifetimes that are over for up to `MaxPast` ticks; two
  BSDP requests and at most three packets on their way, so that the answer to the
  first meets the second; two
  interfaces, two indices and two boots of the DHCPv6 server.

`CHECK_DEADLOCK FALSE` is set because the clock stops at `MaxTime` and
disturbances at `MaxEvents`, and because an ARP session without requests, a
daemon that has exited and a buffer that is full may rest. Distinct states of the
passing runs: 40 thousand, 710 thousand, 2 million, 3 million,
1.6 million, 108 thousand and 620 thousand.

### Fairness

`ARPSession` assumes weak fairness of `Fire`, `Timer` and `Callback` of every
client: a dispatch timer that is set fires, and the agent's serial queue runs
what is on it, since no handler waits. Nothing is assumed of packets, sends or
users. Under it `ImplementsRequests` includes that every request that is not
withdrawn or replaced is answered.

`DHCPv6Client` assumes weak fairness of its timer, of queued address events, of its
notification, of the clock and of waking up; never of a reply. Under it
`ExchangesEnd` says that Confirm, Request and Decline end without any answer.

`SharedSocket` assumes weak fairness of the delayed close and of the cancel
handlers, both of which the dispatch library runs; under it `ListensAgain`
holds. Opening is not assumed to succeed.

All other properties are safety or action properties. What must eventually happen
is stated as "something that will make it happen is pending" (`NeverStalls`,
`StatefulNeverStalls`, `ListensToRouters`, `RequestsAreAnswered`) and as deadlines on the clock
(`RenewsOnceRouterKnown`, `StopsAtExpiry`, `AdvertisesInTime`), where a due
callback comes before the next tick.

## 4. Findings

- `client_renewal`: `dhcp_bound` sets the service's timer for T1 and starts to
  resolve the router. If the router does not answer in time,
  `dhcp_resolve_router_callback` uses the same timer for its 60-second retry and
  nobody sets RENEW again: BOUND is not left at T1. `RenewsOnceRouterKnown` is
  the property with that case excluded, and it passes.
- `client_forget`: forgetting the SSID in the first try of INIT releases the
  lease, which cancels every pending event, and sets `dhcp_check_link` on the
  timer; that function returns early in INIT with `try == 1`. The client stays
  in INIT with no timer and no receive callback until the next link event.
- `client_roam`: a Wi-Fi client goes to a network whose lease was saved while its
  router was being resolved, and so names no router MAC. `switch_to_lease` clears
  the flags of the router; the bytes in memory are still those of the router of the
  network before. An ACK is gathered and the router answers ARP: `dhcp_arp_router`
  marks all of it valid, the stale MAC address included. Back on the other network,
  `dhcp_check_link_with_status` "tries to switch" to its lease, but `switch_to_lease`
  finds the same address and router, and its FALSE is ignored: the client uses the
  address with the lease of the wrong network until a reply replaces it. This needs
  six disturbances and 27 steps, so `client_wifi` does not reach it. What the code
  does keep is `BoundToThisNetwork`: once the address is in use and defended in
  BOUND, RENEW or REBIND, its lease is of the SSID the client was told of. This
  form is proved for every instance (section 5).
- `arp_overtaken`: a reply is read and its callback queued while the last timer
  of the request is already on the queue. The timer runs first and sets the
  status to "not in use" without looking at it, and that is what the callback
  reports, although the comment of `arp_if_session_read` promises an in-use
  result.
- `library_dnr`: `DHCPv6OptionDNRCopyAllDNSEncryptedServers` clears `success` on
  every turn and searches again while options are left. If any other option
  follows the last resolver option, the search finds nothing, and all resolvers are
  discarded although the comment speaks of those that "failed parsing".
  `RouterAdvertisementCopyAllDNSEncryptedServers` has the same loop.

Seen while modelling. The properties exclude or weaken for these, and the
definitions that do so say it:

- an expired lease that was just offered to its old client may be reclaimed for
  another, since reclaiming looks at neither offers nor bootptab; hence
  `OneOwnerUntilReclaimed` speaks of addresses that were never reclaimed and
  never in bootptab;
- `SubnetAcquireAddress` does not wrap within one request (`subnets.c:270`), so that
  an expired lease is reclaimed while an address before the cursor is free;
- an offer made while bootptab bound the client outlives the reload that
  removes the binding, and its infinite lease is then granted from the pool;
  hence `server_handlers` has no bootptab;
- `S_create_host` does not make the ACK depend on the write; hence
  `AckAfterCommit` speaks of leases that are extended or changed;
- `PLCache_write` checks neither `fclose` nor `rename` (`NICache.c:424`);
- a conflict that is retried ends the scan of the clients with `goto
  next_packet`, so that clients behind it miss the packet; hence `ARPRequests`
  allows "not in use" for an address that was heard of;
- a DHCPv6 client that gave up soliciting and slept stays in the Solicit state,
  and `DHCPv6ClientHandleWake` takes it to be soliciting (`DHCPv6Client.c:2295`,
  `:2303`); a stateless client stops when its link is down in the middle of
  INFORM (`:3137`); hence `StatefulNeverStalls` names the first and leaves out the second;
- a prefix delegation client that the link timer stopped has no mode, and a wake
  starts it again without sending anything (`DHCPv6Client.c:3288`); and a roam that
  clears an expired lease in Bound leaves the DECLINE of a duplicate without a
  server to send it to: it is silent; hence the exception in `NeverSilent`, which
  also speaks of the client of the router advertisement service only;
- a link notification handled after an early wake and the next sleep wakes the
  services while the system sleeps (`ipconfigd.c:9067`);
- `rtadv_enable` refused in the middle of a handler does not stop the handler;
  hence `refused` in `InactiveIsClean` and `ListensToRouters`. On cellular, a
  renewal that waits for the link-local address is remembered in `rtadv->renew`,
  which giving up does not clear: an inactive service then publishes the address
  that its DHCPv6 client has kept; hence `Cellular` in `InactiveIsClean`. The
  proof of the invariant showed this, no run had reached it. A DNS lifetime that
  lapses during sleep is noticed by its timer only, not in
  `rtadv_handle_wake` (`rtadv.c:1858`);
- a link-local service that is freed when another displaces it
  (`ipconfigd.c:1700`), or with the services that are not dynamic, stays the
  `child_serviceID` of its parent. When that parent fails later,
  `service_publish_failure_sync` (`:4309`) takes the link-local service of another
  parent for its child, publishes that, and leaves its own entity, with the address
  that it lost, in the store; hence `ag.misled` in `PublishedIsConfigured`. Looking
  for the inductive invariant showed this; it takes nine steps, on an instance larger
  than that of `agent`;
- `link_key_changed` returns after processing an early wake
  (`ipconfigd.c:9071`), so that IPv6 link-local is not restarted there;
- `need_reconnect` re-creates a service with `ClearState` still set
  (`IPConfigurationService.c:1134`), although the comment at `:907` rules that out;
  and options that are absent give an IPv4 DHCP service, where the header
  announces an automatic one;
- `S_which_interface` disables all services, not only DHCP, on an interface with
  another DHCP server (`bootpd.c:2306`); `S_get_plist_uint32` takes a number
  for a Boolean, so that it becomes 0 or 1 (`bootpd.c:868`);
- the lifetime of an advertised search list counts only if it is shorter than
  that of the servers and not over, and without servers the list has no expiry
  (`RouterAdvertisement.c:1614`);
- `rtadvd` refuses its own default for `mininterval` with a small `maxinterval`
  (`config.c:257`), and a daemon that starts with its interface down does not
  keep the pause between its first advertisements; hence `rai.old` in
  `AdvertisesInTime`;
- the answer of a BSDP server may call the SELECT callback twice
  (`BSDPClient.c:1402`), and the list callback may run again after its time-out;
- a multicast membership that is refused once is never asked for again
  (`DHCPv6Server.c:755`); hence `missed` in `ServesWhereItListens`.

## 5. Proofs

`DHCPServer_proofs` proves, for every set of clients, addresses, nets and
subnet entries, every set of configurations, static tables and inputs, every
lease limit and every `MaxTime`:

- `TypeCorrect`: `Spec => []TypeOK`
- `FileCorrect`: `Spec => []FileIsCurrent`
- `OneOwner`: `Spec => []OneOwnerUntilReclaimed`
- `LiveLeases`: `Spec => LiveLeaseKept` (an action property)
- `LiveOffers`: `Spec => LiveOfferKept` (an action property)
- `OneLeaseOfClient`: `Spec => []OneLeasePerNet`, if `SelectsOnWire`
- `CommittedBeforeAck`: `Spec => AckAfterCommit` (an action property), if `SelectsOnWire`

Assumptions: `ServerAssumption` (constants are numbers and functions of the right
kind, subnet ranges lie in one net, `0 < LeaseMin <= LeaseMax <= Infinite`,
allocating entries are configured entries) and `InputsAssumption` (inputs are
requests). TLC evaluates both in every server run.

Argument. The inductive invariant `Ind` is `TypeOK /\ FileIsCurrent /\
OneOwnerUntilReclaimed`. One owner is not inductive alone: `Sighup` and
`Restart` replace the database by the file, so the file must equal the database,
and a step must be known to read typed entries. `Narrow` says that a step gives
no address, reclaimed and static ones aside, an owner it did not have unless it
had none; `NarrowKeepsOneOwner` turns it into preservation, and each action has
one lemma (`DiscoverStep`, `SelectUsStep`, ...) that proves types, file and
`Narrow`. The lemmas before them say what `Lookup`, `acquire_ip`, `DropStale`,
`Allocations`, `Keep` and `Commit` return. `LiveLeaseKept` follows from `Ind`
with one `...Takes` lemma per handler: an entry that disappears belongs to the
sender or was reclaimable. `LiveOfferKept` follows in the same way from what
`AllocationDrops` says of the only handlers that touch other clients' offers.

`SelectsOnWire` says that a client which selects this server has no address yet and
takes an offer of the wire it is on: the server identifier is compared with the
address of the interface the packet came in on, and the selecting client of the
protocol leaves `ciaddr` empty. The server itself does not look: a request outside it
would create an entry on another net beside the one the client has. TLC evaluates
the condition for the inputs of both server runs. The invariant `IndLease` adds to
`Ind` that a client has one lease per net in the database and in the file (`Sighup`
and `Restart` put the file in its place) and that the cursor of every subnet
entry lies in its range, so that a scan from it ends in an address of the net.
An ACK that extends or changes a lease follows the write, which is what the
`...Acked` lemmas say of each handler; that the entry is the client's only one on the
net is what makes the entry looked up the entry that changed.

`ARPSession_proofs` proves, for every number of clients, every set of addresses
and packets, every number of tries, retries and requests:

- `NoRequestLost`: `Spec => []AnswerPending`
- `DescriptorCounted`: `Spec => []FdCounted`
- `RequestsAnswered`: `Spec => Requests!Safe`: every step is a step of `ARPRequests` or a
  stutter (the safety of `ImplementsRequests`; that an answer comes in the end stays with TLC)

Assumption: `SessionAssumption` (the constants have their types, detect lists are
not empty), evaluated by TLC in both ARP runs. The inductive invariant `IndInv`
(`SessionInvariance`) adds to the two: a timer on the queue is a timer that is
set, a client holds the descriptor only for a request, a request without the
descriptor has a callback that runs before the next read (otherwise a packet
could set a timer for a client that cannot send), and only clients that exist
have requests. The count is handled through `Good(s, n)`: a session in which `n`
other clients hold the descriptor; opening and closing keep it (`OpenFd`,
`CloseFd`), and `BecomesFacts` turns it into the cardinality of the holders. For the
refinement each handler says which request it asks, withdraws or answers: timers and
packets change none (`SameFuncs`), a packet is heard by all clients whose request it
matches, those behind a retry included, and "in use" needs `Heard`.

`Rtadv_proofs` proves `SocketsCounted`, `SocketSpec => []Counted`, for
every number of users and descriptors and each of the three families, from
`FdAssumption` ("no descriptor" is not one); the sets need not be finite. The
invariant `SocketInv` says `Counted` without cardinalities of cancellations (two of
a bootp or dhcpv6 socket are the same one), and that the set of users stays finite,
which is what makes the count a number: `CountOpen` and `CountClose` are the two
lemmas about it, and a step of each action follows from one of them.

It also proves, for every set of routers, domains and advertisements, every number of
CLAT46 addresses, solicitations and disturbances, on cellular or not:

- `RtadvClean`: `RtadvSpec => []InactiveIsClean`, with the type invariant
- `RtadvListens`: `RtadvSpec => []ListensToRouters`

Assumption: `RtadvAssumption` (constants of their types, no advertisement without a
router, at least one CLAT46 address), evaluated by TLC in `agent`. Every handler is a
function from service record to service record and has one lemma. The invariant
`RtadvInv` says of the record that it is in one of three situations (`Live`): it hears
routers or was refused (`Hears`), it is about to start again (`Restarts`), or it has
given up and kept nothing (`Gone`). What `InactiveIsClean` says is the third; the
property alone is not inductive, because a service with an advertisement and without
a receive callback would have nothing to give back its address. That a service which
has given up is not left so with the address ready is `Pending`: the address event is
still on its way. The count of CLAT46 addresses is stated without cardinalities
(`Held`): the table has one for us and one for the other interface, which are the same
address only when there is no second; `RtadvInvImplies` turns it into the property.

`DHCPv6Client_proofs` proves, for every set of networks, addresses and
packets, every lease time, retry limit and number of disturbances:

- `OnlyReplyGrants`: `V6Spec => []GrantedByReply`, with the type invariant
- `DuplicatesAreDeclined`: `V6Spec => []DuplicateDeclined`
- `ClientSpeaks`: `V6Spec => []NeverSilent`
- `ClientIsDriven`: `V6Spec => []StatefulNeverStalls`
- `ClientServes`: `V6Spec => ServesRouterAdvertisement`: every step is a step of
  `DHCPv6Service` or a stutter (its safety; the liveness of the exchanges stays
  with `ExchangesEnd`)

Assumption: `DHCPv6Assumption` (constants of their types), evaluated by TLC in
`sessions`. The invariant `V6Inv` (`ClientInvariance`) is a statement about the
client record alone, which the handlers, being functions from record to record,
each preserve: `Sound` says what a state holds (`Held`), that a lease in use came
from a REPLY (`Granted`), which fields change together (`Together`) and what the
next message needs (`Spoken`); `Driven` says which timer or callback each state
waits for. `Going`, that something drives the client, is part of the invariant only
while the link is up and the system awake, because a sleeping client may have lost
its timer: `DHCPv6ClientHandleWake` restores it, and for that it needs what
`Driven` keeps in the meantime. A handler has one lemma, which says that it turns a
sound client into a sound one, and an action one more.

`DHCPClient_proofs` proves, for every set of networks, addresses and replies,
every lease time, waiting time, threshold and retry limit:

- `ClientTypes`: `Spec => []TypeOK`
- `OnlyAcknowledged`: `Spec => []AddressAcknowledged`
- `OneLease`: `Spec => []OneLeasePerRouter`
- `BoundHere`: `Spec => []BoundToThisNetwork`
- `WiredPublishedIsBacked`: `Spec => []PublishedIsBacked`, if `~Wireless`
- `WiredNeverStalls`: `Spec => []NeverStalls`, if `~Wireless`

Assumption: `ClientAssumption` (constants of their types, waiting times not 0),
evaluated by TLC in every client run. The last two are about wired interfaces
because they fail on Wi-Fi: `client_forget` shows the stall, and `switch_to_lease`
and `dhcp_check_link_with_status` remove an address there without publishing it.

Argument. The handlers are functions from service record to service record, and so
the invariant `ClientInv` (`ClientInvariance`) is about a record `d` and the set of
acknowledged addresses: `Base` says what a lease, a router's record, the address in
use and every entry of the list and the file rest on, `Phase` which timer, receive
callback and ARP request belong to which state and what they may rely on when they
come (the gathered packet of INIT-REBOOT is an ACK, a resolve has an address), `Driven`
what keeps a wired client going, and `Linked` and `Unlinked` what is left without a
link (a DECLINE waits, and the link timer comes before it). None of the properties
is inductive alone: that a recovered or switched-to lease was acknowledged needs
every entry with a router to be (one saved at sleep from a mere OFFER names none), and
that needs "the router's MAC is known" to imply an ACK. Each handler has a lemma
(`BoundStep`, `InitRebootDataStep`, `CheckLinkStep`, ...) that says what record it takes and that
it returns a good one; an action has one more. `Select`, which filters the list, is a
recursive function: that it exists and what it picks is shown by looking at the
least turn at which it would not (`Least`, `TurnsExist`, `SelectPicks`), so that no
induction theorem is needed.

`Daemons_proofs` proves, for the programs that share nothing but a module:

- `ServerListens`: `SixSpec => []ServesWhereItListens`
- `BSDPRequestsAnswered`: `BSDPSpec => []RequestsAreAnswered`
- `BootpdYields`: `BootpdSpec => []YieldsToOthers`
- `RtadvdAdvertises`: `RtadvdSpec => []AdvertisesInTime`
- `RunningClientsKept`: `NetBootSpec => [](RunningClientsApart /\ RunningClientServed)`,
  which is `BootsHold` without `DefaultOffered`

The first two need no assumption; `BootpdAssumption` and `RtadvdAssumption` (constants
of their types, intervals of the protocol in their order, fewer than 256 resolvers)
and `NetBootAssumption` (a positive age time, a name that is no user's) are evaluated
by TLC in `daemons`.

The DHCPv6 server: `SixInv` adds to the property the shape of the record; its one
idea is `Listens`: the groups joined are the listed interfaces without those in
`missed`, which the kernel refused or took back, and joining and leaving by difference
keeps that (`EnablesWhatIsListed`). The BSDP client: `BSDPInv` says that a timer is one
for the state, that a request without a timer was told of, and that what was told
is about this request and passes the filter; the callback may itself start a
request, which is why it is said of the record and of `told` at once (`Accounted`).
`bootpd`: `BootpdInv` says that what is listed as turned off is what is flagged
on the interfaces and what was seen (`Published`), and that a configuration which is
not marked as old was made for the addresses the host has now (`Current`); without
the second a relay could be the host itself. `rtadvd`: the messages about a prefix take
turns (`Alternates`), between what the daemon thinks of it and what the kernel has, so
that a withdrawn prefix is not withdrawn again, which is what the daemon asserts; an
interface that is up has a timer that covers the pause between advertisements
(`Paced`), and what is waited for has a short one (`Prompt`). A pass over the timers
is followed in the order in which the code makes it. The NetBoot server: `NetBootInv`
says that in the list and in the file no two entries have an identifier, a number or a
user in common (`Apart`), that numbers are below the next one (`Numbered`), and that
what a running client was told is held by an entry that has not aged (`Holds`), in the
file while the service is off (`Live`). A request changes its record in steps any of
which may fail, so each step has a lemma about what it leaves alone: a user is got
that no entry has and only aged ones lost (`Obtained`, from `Reclaims` and `FreeUser`),
the password and the directories of one user and one number are written (`Served`,
`OnlyOf`), and the sum is `Binds`: what other running clients have is theirs
still, and a client for which all went well has an entry, its password and its shadow
(`Updates`, `Creates`). `Finishes`, `Forgets`, `Restarts` and `Ticks` carry it
through the end of a request, a removal, a reload and the clock.

`Agent_proofs` proves, for every set of access points and every number of
collisions, from `InterfaceAssumption` (each access point has a network), evaluated by TLC in `agent`:

- `OneWake`: `InterfaceSpec => []AtMostOneWake`
- `NetworkIsTold`: `InterfaceSpec => []ServicesKnowNetwork`

`ServicesKnowNetwork` speaks of the air, and the agent of what it read last: the
invariant `InterfaceInv` (`InterfaceInvariance`) says when they agree (`Read`: unless
a link notification is queued), what the agent's knowledge means for the services
(`Known`, `Seen`), and that a link that went away behind their back will be told
(`Waits`: by the link timer, at the wake that is suppressed, or it is the same network
again). Without `Waits` a wake handled on a stale link would leave services that
believe in the old network. `Once` is what makes the count of wakes inductive: one
that is still due was not delivered.

It also proves, for every list of interfaces, every set of configurations and
identifiers and every number of changes:

- `PublishedConfigured`: `ServiceSpec => []PublishedIsConfigured`, from the invariant
  `ServiceInv` (`ServicesFit`)

Assumption: `ServiceAssumption` (the identifier of a link-local service is not that of a
configured one, entries of a configuration have a known method), evaluated by TLC in
`agent`. `PublishedIsConfigured` alone says nothing of a service that is about to go;
`ServiceInv` is `J(ag, {})`, and `J(a, X)` says of a state `a` of the agent: services have
identifiers of their own on an interface and a service without a configuration is the
link-local child of one that has (`Shape`, `Kin`); a service with an address has it in
the kernel (`Assigned`); a child has no entity of its own (`NoEntity`); and every entity
stands for a service with its address, or for the child of one without an address
(`Backed`), but those of `X`. `X` is what a handler owes: taking the address from a
service leaves its entity, and that of the parent that it stands for, for the publication
or the failure that follows in the same handler (`RemoveFacts`, `SetAddressFacts`, then
`PublishFacts`, `FailureFacts`). That the parent must have no address is what lets a
child's entity go with the child and not be mistaken for the parent's. Each handler has one
lemma of the form "`J(a, X)` before, `J(r, Y)` after". Loops over services, entries and
interfaces are recursive functions of the turn; that such a function exists and stays in
a set that the turns keep is shown once (`LoopExists`, `LoopRuns`, `LoopStays`), by
looking at the least turn at which it would not.

`IPConfigurationService_proofs` proves, for every set of objects, requests, allowed
processes and configured services and every number of restarts of the agent, without
assumptions:

- `ObjectsHaveServices`: `ServicesSpec => []ServicesFollowObjects`
- `ToldTheTruth`: `ServicesSpec => []ToldGoneIsGone`

`ServicesFollowObjects` speaks of objects with nothing under way; the invariant
`ServicesInv` (`ServicesInvariance`) says what is under way for the others. `Followed`:
a started object has its service or lost it, or one of the pending things will create
it (the agent is down, the restart is not seen yet, a reconnect block is queued, the
queue is at work, or it will reconnect once started). `Owned`: a service belongs to
an object that was started or to a process that exited and that the agent will see
end. `Gone`: nothing pending creates a service behind a handler that was told it is
gone; this is where the order of the serial queue counts, and it needs `Blocks` (the
queue holds a block of the client exactly while the client waits for it, one at most)
and `Threaded` (the queue re-creates services only of started objects, the client
adds one only before that). `Appended` and `Taken` say what queueing and taking a
block do; `OneObject` reduces a step to the one object it is about. An agent that dies
changes all objects at once and has its own argument.

Only model-checked: the other properties of section 3. Of `DHCPClient` these are the
two deadlines `RenewsOnceRouterKnown` and `StopsAtExpiry`, which hold only if the
waits are short against the lease. `DNSNames`, `Options`, `NetworkInfo` and
`DefaultOffered` (the image list of `NetBoot`) are about what folds over sequences
compute, which is out of the prover's reach together with liveness under fairness and
`ENABLED`. `NeverLeftDown`, which compares the ranks of services in the order of
the configuration, is not proved.

## 6. Next

1. A DHCP exchange: clients that follow the protocol and `DHCPServer` over a
   network that loses and duplicates messages, with restarts.
2. The packets and timers of `linklocal.c`, `manual.c` and `failover.c` over
   `ARPRequests`; `PvDInfoRequest` and the helper's answers.

## 7. Not modelled, and why

System calls on interfaces and routes (`ifutil.c`, `interfaces.c`), key material
(`CGA.c`), HTTP fetches (`IPConfigurationHelper`) and the command-line tools are
I/O without state of their own; their results are inputs of the models. In
`rtadvd`, router renumbering, the dump file and the capability database are vendored
parsing and printing code. Packet layout beyond the option codecs, log messages,
the awd and symptom reports, NetBoot boot interfaces in the agent, 6to4, and the
clock being set are left out. A lease file that is cut off in the middle is not
modelled: the file is the old or the new database.
