----------------------------- MODULE DHCPServer -----------------------------
(***************************************************************************)
(* The DHCP server of bootpd: bootpd.tproj/dhcpd.c with the parts of       *)
(* bootpd.c, subnets.c, hostlist.c and NICache.c it calls.                 *)
(*                                                                         *)
(* The server keeps a lease database in memory (S_leases), a copy of it    *)
(* in /var/db/dhcpd_leases, a list of offers that wait for a REQUEST       *)
(* (S_pending_hosts), and one allocation cursor per subnet entry (nextip). *)
(* A packet is handled to the end before the next one is read, so every    *)
(* handler is one action; time passes between packets.                     *)
(*                                                                         *)
(* The database is a set of entries.  The C list is ordered by recency and *)
(* the order decides only which of several expired entries is reclaimed    *)
(* and which of several bindings of one client is found first: both are    *)
(* \E choices here.                                                        *)
(***************************************************************************)
EXTENDS Integers, FiniteSets, FiniteSetsExt

CONSTANTS
    Client,        \* client identifiers (idstr)
    NoClient,      \* an entry whose identifier property was deleted
    Net,           \* broadcast domains the server answers on
    MaxAddr,       \* addresses are 1..MaxAddr; 0 is 0.0.0.0
    NetOf,         \* the net an address is directly reachable on
    NumSubnets,    \* subnet entries are numbered in list order
    First, Last,   \* net_range of each subnet entry
    LeaseMin, LeaseMax,
    Infinite,      \* DHCP_INFINITE_LEASE
    PendingSecs,   \* DEFAULT_PENDING_SECS
    DeclineWait,   \* DHCP_DECLINE_WAIT_SECS
    Inputs,        \* the requests that may arrive, a subset of Request
    Configs,       \* the contents bootpd.plist can have
    StaticTables,  \* the contents bootptab can have
    DetectOther,   \* SERVICE_DETECT_OTHER_DHCP_SERVER
    DiskMayFail,   \* PLCache_write may fail
    MaxTime        \* bound on the clock

Addr == 1..MaxAddr
NoAddr == 0
Subnet == 1..NumSubnets
NoOption == -1
Never == -1       \* DHCP_INFINITE_TIME as it is written to an entry
V6Lease == 1      \* the lease of an answer without an address (3600 s)

ASSUME ServerAssumption ==
    /\ NoClient \notin Client
    /\ MaxAddr \in Nat /\ NumSubnets \in Nat /\ MaxTime \in Nat
    /\ NetOf \in [Addr -> Net]
    /\ First \in [Subnet -> Addr] /\ Last \in [Subnet -> Addr]
    /\ \A s \in Subnet : \A a \in First[s]..Last[s] : NetOf[a] = NetOf[First[s]]
    /\ LeaseMin \in Nat \ {0} /\ LeaseMax \in Nat /\ Infinite \in Nat
    /\ LeaseMin <= LeaseMax /\ LeaseMax <= Infinite
    /\ PendingSecs \in Nat /\ DeclineWait \in Nat
    /\ StaticTables \subseteq [Client -> Addr \cup {NoAddr}]
    /\ Configs \subseteq {k \in [subnets : SUBSET Subnet, allocates : SUBSET Subnet] :
                            k.allocates \subseteq k.subnets}
    /\ DetectOther \in BOOLEAN /\ DiskMayFail \in BOOLEAN

VARIABLES
    leases,     \* S_leases: set of entries
    disk,       \* the entries in DHCP_LEASES_FILE
    pending,    \* S_pending_hosts, one offer per client
    nextip,     \* allocation cursor of each subnet entry
    subnets,    \* the subnet entries of bootpd.plist
    allocates,  \* those of them with "allocate" true
    static,     \* bootptab
    enabled,    \* nets on which DHCP service is enabled
    now,        \* S_lastmsgtime
    reply,      \* whom the last step served and the reply it sent
    reclaimed   \* history: addresses DHCPLeases_reclaim has taken

vars == <<leases, disk, pending, nextip, subnets, allocates, static, enabled,
          now, reply, reclaimed>>
config == <<subnets, allocates, static>>

Entry == [ip : Addr, id : Client \cup {NoClient}, expiry : Int]
Offer == [ip : Addr \cup {NoAddr}, lease : Nat, tv : Nat]
NoOffer == [ip |-> NoAddr, lease |-> 0, tv |-> 0]

Reply == [type : {"none", "offer", "ack", "nak"}, id : Client \cup {NoClient},
          ip : Addr \cup {NoAddr}, lease : Nat]
Answer(t, c, a, l) == [type |-> t, id |-> c, ip |-> a, lease |-> l]
NoReply(c) == Answer("none", c, NoAddr, 0)

-----------------------------------------------------------------------------
(* Requests: "server" is the server identifier option (absent, our own,    *)
(* another's) and "bcast" says the packet was broadcast or relayed.        *)

Request ==
    [type : {"discover", "request", "decline", "release", "inform"},
     id : Client, net : Net, ciaddr : Addr \cup {NoAddr},
     reqip : Addr \cup {NoAddr}, server : {"none", "us", "other"},
     bcast : BOOLEAN, lease : Nat \cup {NoOption}, v6only : BOOLEAN]

ASSUME InputsAssumption == Inputs \subseteq Request

\* A client that selects this server has no address yet, and takes an offer
\* of the wire it is on: the server identifier is compared with the address
\* of the interface the request came in on.  The server creates the entry for
\* the offer without another look at its net.
SelectsOnWire ==
    \A r \in Inputs : r.type = "request" /\ r.server = "us" =>
        r.ciaddr = NoAddr /\ (r.reqip # NoAddr => NetOf[r.reqip] = r.net)

-----------------------------------------------------------------------------
(* Subnets and bindings                                                    *)

net_range(s) == First[s]..Last[s]

\* SubnetListGetSubnetForAddress(..., TRUE) finds an entry
Configured(a) == \E s \in subnets : a \in net_range(s)

\* SubnetDoesAllocate of that entry
Allocatable(a) == \E s \in subnets \cap allocates : a \in net_range(s)

StaticAddrs(t) == {t[c] : c \in Client} \ {NoAddr}

\* subnet_match: a binding applies to the request
subnet_match(r, a) == a = r.ciaddr \/ NetOf[a] = r.net

\* S_lease_time_expiry: "0xffffffffffffffff" overflows strtol and reads as 0
S_lease_time_expiry(v) == IF v = Never THEN 0 ELSE v

Clamp(l, lo, hi) == IF l > hi THEN hi ELSE IF l < lo THEN lo ELSE l

\* The outcomes of PLCache_write(l) over a file that holds d
Saved(d, l) == IF DiskMayFail THEN {d, l} ELSE {l}

Binding(kind, a, x, orphan, l) ==
    [kind |-> kind, ip |-> a, expiry |-> x, orphan |-> orphan, leases |-> l]

\* Static binding first, then an applicable lease; a lease whose subnet no
\* longer allocates is removed and leaves the client an orphan.
Lookup(r) ==
    IF static[r.id] # NoAddr /\ subnet_match(r, static[r.id])
    THEN {Binding("permanent", static[r.id], Never, FALSE, leases)}
    ELSE LET found == {e \in leases : e.id = r.id /\ subnet_match(r, e.ip)}
         IN  IF found = {}
             THEN {Binding("none", NoAddr, 0, FALSE, leases)}
             ELSE {IF Allocatable(e.ip)
                   THEN Binding("temporary", e.ip, e.expiry, FALSE, leases)
                   ELSE Binding("none", NoAddr, 0, TRUE, leases \ {e}) :
                      e \in found}

DiskAfterLookup(b) == IF b.orphan THEN Saved(disk, b.leases) ELSE {disk}

EntryOf(r, b) == [ip |-> b.ip, id |-> r.id, expiry |-> b.expiry]
\* Mutant: the old entry is left behind
WithExpiry_Adds(r, b, x) == b.leases \cup {[EntryOf(r, b) EXCEPT !.expiry = x]}

WithExpiry(r, b, x) == (b.leases \ {EntryOf(r, b)})
                          \cup {[EntryOf(r, b) EXCEPT !.expiry = x]}

\* The lease of a client that is already bound on this subnet
BoundLease(r, b) ==
    LET expiry == S_lease_time_expiry(b.expiry)
    IN  CASE b.kind = "permanent" -> Infinite
          [] b.kind # "permanent" /\ r.lease # NoOption
                -> Clamp(r.lease, LeaseMin, LeaseMax)
          [] b.kind # "permanent" /\ r.lease = NoOption
                /\ now + LeaseMin >= expiry -> LeaseMin
          [] OTHER -> expiry - now

-----------------------------------------------------------------------------
(* Allocation                                                              *)

\* Mutant: offers are not consulted
S_ipinuse_NoPending(a, l, p) ==
    a \in StaticAddrs(static) \/ \E e \in l : e.ip = a

\* S_ipinuse, given the leases l and the offers p
S_ipinuse(a, l, p) ==
    \/ a \in StaticAddrs(static)
    \/ \E e \in l : e.ip = a
    \/ \E c \in Client : p[c].ip = a /\ now - p[c].tv < PendingSecs

\* The subnet entries SubnetListAcquireAddress tries, and where each starts
Eligible(n) == {s \in subnets \cap allocates : NetOf[First[s]] = n}
ScanStart(s) == IF nextip[s] = Last[s] + 1 THEN First[s] ELSE nextip[s]
FreeIn(s, l, p) == {a \in ScanStart(s)..Last[s] : ~S_ipinuse(a, l, p)}
WithFree(n, l, p) == {s \in Eligible(n) : FreeIn(s, l, p) # {}}

\* acquire_ip: the address found, NoAddr when every scan ran off its end
acquire_ip(n, l, p) ==
    IF WithFree(n, l, p) = {} THEN NoAddr
    ELSE Min(FreeIn(Min(WithFree(n, l, p)), l, p))

\* ... and where it leaves the cursors
CursorsAfter(n, l, p) ==
    [s \in Subnet |->
        CASE s \notin Eligible(n) -> nextip[s]
          [] s \in Eligible(n) /\ \A t \in WithFree(n, l, p) : s < t
                -> Last[s] + 1
          [] s \in WithFree(n, l, p) /\ \A t \in WithFree(n, l, p) : s <= t
                -> acquire_ip(n, l, p)
          [] OTHER -> nextip[s]]

\* Mutant: the stale offer stays in the list
DropStale_Kept(p, a) == {p}
\* A stale offer of the address found is dropped, the newest one first
DropStale(p, a) ==
    LET stale == {c \in Client : p[c].ip = a}
        newest == {c \in stale : \A d \in stale : p[d].tv <= p[c].tv}
    IN  IF stale = {} THEN {p}
        ELSE {[p EXCEPT ![c] = NoOffer] : c \in newest}

\* Mutant: a lease in its last second
Reclaimable_Early(n, l) ==
    {e \in l : NetOf[e.ip] = n /\ e.expiry # Never /\ now >= e.expiry}

\* DHCPLeases_reclaim: an expired lease reachable from the request's net;
\* an unreadable expiry is skipped
Reclaimable(n, l) ==
    {e \in l : NetOf[e.ip] = n /\ e.expiry # Never /\ now > e.expiry}

\* acquire_ip, then DHCPLeases_reclaim: what a new allocation on net n does
Allocation(a, l, d, p, taken) ==
    [ip |-> a, leases |-> l, disk |-> d, pending |-> p, taken |-> taken]
Allocations(n, l, d, p) ==
    LET a == acquire_ip(n, l, p)
        expired == Reclaimable(n, l)
    IN  IF a # NoAddr
        THEN {Allocation(a, l, d, q, {}) : q \in DropStale(p, a)}
        ELSE IF expired = {}
        THEN {Allocation(NoAddr, l, d, p, {})}
        ELSE UNION {{Allocation(IF Configured(e.ip) THEN e.ip ELSE NoAddr,
                                l \ {e}, w, p, {e.ip}) :
                        w \in Saved(d, l \ {e})} : e \in expired}

-----------------------------------------------------------------------------
(* Handlers: dhcp_request for each message type.  A reply withheld by      *)
(* reply_threshold_seconds or not transmitted is a lost message: the state *)
(* has changed all the same.                                               *)

Send(rep) == reply' = rep
Silent(c) == reply' = NoReply(c)

Keep(b) == leases' = b.leases /\ disk' \in DiskAfterLookup(b)

\* Mutants: the reply does not depend on the write; nothing is written
Commit_AnyReply(b, l, rep) ==
    leases' = l /\ disk' \in Saved(disk, l) /\ Send(rep)
Commit_NoWrite(b, l, rep) == leases' = l /\ disk' = disk /\ Send(rep)

\* "if (binding == temporary && modified) S_commit_mods": the reply is sent
\* only when the file was written
Commit(b, l, rep) ==
    /\ leases' = l
    /\ IF l = b.leases THEN disk' = disk /\ Send(rep)
       ELSE \/ disk' = l /\ Send(rep)
            \/ DiskMayFail /\ disk' = disk /\ Silent(rep.id)

Discover(r) ==
    /\ r.type = "discover" /\ r.net \in enabled
    /\ \E b \in Lookup(r) :
         LET p == [pending EXCEPT ![r.id] = NoOffer] IN
         \/ /\ r.v6only
            /\ Keep(b) /\ pending' = p
            /\ Send(Answer("offer", r.id, NoAddr, V6Lease))
            /\ UNCHANGED <<nextip, reclaimed>>
         \/ /\ ~r.v6only /\ b.kind # "none"
            /\ Keep(b)
            /\ pending' = [p EXCEPT ![r.id] =
                    [ip |-> b.ip, lease |-> BoundLease(r, b), tv |-> now]]
            /\ Send(Answer("offer", r.id, b.ip, BoundLease(r, b)))
            /\ UNCHANGED <<nextip, reclaimed>>
         \/ /\ ~r.v6only /\ b.kind = "none"
            /\ \E d \in DiskAfterLookup(b) :
               \E w \in Allocations(r.net, b.leases, d, p) :
                 LET l == IF r.lease = NoOption THEN LeaseMin
                          ELSE Clamp(r.lease, LeaseMin, LeaseMax) IN
                 /\ leases' = w.leases /\ disk' = w.disk
                 /\ nextip' = CursorsAfter(r.net, b.leases, p)
                 /\ reclaimed' = reclaimed \cup w.taken
                 /\ IF w.ip = NoAddr
                    THEN pending' = w.pending /\ Silent(r.id)
                    ELSE /\ pending' = [w.pending EXCEPT ![r.id] =
                                [ip |-> w.ip, lease |-> l, tv |-> now]]
                         /\ Send(Answer("offer", r.id, w.ip, l))
    /\ UNCHANGED <<config, enabled, now>>

\* REQUEST that selects another server
SelectOther(r) ==
    /\ r.type = "request" /\ r.server = "other" /\ r.net \in enabled
    /\ \E b \in Lookup(r) :
         /\ IF b.kind = "temporary"
            THEN /\ leases' = b.leases \ {EntryOf(r, b)}
                 /\ disk' \in Saved(disk, leases')
            ELSE Keep(b)
         /\ pending' = [pending EXCEPT ![r.id] = NoOffer]
    /\ enabled' = IF DetectOther THEN enabled \ {r.net} ELSE enabled
    /\ Silent(r.id)
    /\ UNCHANGED <<config, nextip, now, reclaimed>>

\* REQUEST that selects this server: the pending offer wins over the
\* binding; a REQUEST without either is ignored
SelectUs(r) ==
    /\ r.type = "request" /\ r.server = "us" /\ r.net \in enabled
    /\ \E b \in Lookup(r) :
         LET hp == pending[r.id]
             offered == hp.ip # NoAddr
             ip == IF offered THEN hp.ip ELSE b.ip
             lease == IF offered THEN hp.lease ELSE BoundLease(r, b)
             expiry == CASE offered /\ hp.lease = Infinite -> Infinite
                         [] offered /\ hp.lease # Infinite -> hp.lease + now
                         [] OTHER -> S_lease_time_expiry(b.expiry)
             ack == Answer("ack", r.id, ip, lease)
         IN
         CASE b.kind = "none" /\ ~offered -> Keep(b) /\ Silent(r.id)
           [] (b.kind # "none" \/ offered) /\ r.reqip # ip ->
                Keep(b) /\ Send(Answer("nak", r.id, NoAddr, 0))
           [] b.kind = "temporary" /\ r.reqip = ip ->
                Commit(b, WithExpiry(r, b, expiry), ack)
           [] b.kind = "permanent" /\ r.reqip = ip -> Keep(b) /\ Send(ack)
           [] b.kind = "none" /\ offered /\ r.reqip = ip /\ ~Configured(ip) ->
                Keep(b) /\ Send(Answer("nak", r.id, NoAddr, 0))
           [] b.kind = "none" /\ offered /\ r.reqip = ip /\ Configured(ip) ->
                \E d \in DiskAfterLookup(b) :
                  /\ leases' = b.leases
                        \cup {[ip |-> ip, id |-> r.id, expiry |-> expiry]}
                  /\ disk' \in Saved(d, leases')
                  /\ Send(ack)
    /\ UNCHANGED <<config, pending, nextip, enabled, now, reclaimed>>

\* INIT-REBOOT, RENEW and REBIND
ReRequest(r) ==
    /\ r.type = "request" /\ r.server = "none" /\ r.net \in enabled
    /\ \E b \in Lookup(r) :
         LET reboot == r.reqip # NoAddr
             named == IF reboot THEN r.reqip ELSE r.ciaddr
             nak == Answer("nak", r.id, NoAddr, 0)
             ip == IF reboot \/ r.bcast THEN b.ip ELSE r.ciaddr
             expiry == IF LeaseMax = Infinite THEN Never ELSE LeaseMax + now
         IN
         CASE r.v6only ->
                Keep(b) /\ Send(Answer("ack", r.id, NoAddr, V6Lease))
           [] ~r.v6only /\ named = NoAddr -> Keep(b) /\ Silent(r.id)
           [] ~r.v6only /\ named # NoAddr /\ b.kind = "none" ->
                Keep(b) /\ (IF b.orphan THEN Send(nak) ELSE Silent(r.id))
           [] ~r.v6only /\ b.kind # "none" /\ reboot /\ named # b.ip ->
                Keep(b) /\ Send(nak)
           [] ~r.v6only /\ named # NoAddr /\ b.kind # "none" /\ ~reboot
                /\ r.bcast /\ named # b.ip -> Keep(b) /\ Silent(r.id)
           [] OTHER ->
                IF b.kind = "permanent"
                THEN Keep(b) /\ Send(Answer("ack", r.id, ip, Infinite))
                ELSE Commit(b, WithExpiry(r, b, expiry),
                            Answer("ack", r.id, ip, LeaseMax))
    /\ UNCHANGED <<config, pending, nextip, enabled, now, reclaimed>>

\* DECLINE: the address stays in the database without an owner
Decline(r) ==
    /\ r.type = "decline" /\ r.net \in enabled
    /\ \E b \in Lookup(r) :
         IF r.server = "us" /\ b.kind = "temporary" /\ r.reqip = b.ip
         THEN Commit(b, (b.leases \ {EntryOf(r, b)})
                           \cup {[ip |-> b.ip, id |-> NoClient,
                                  expiry |-> now + DeclineWait]}, NoReply(r.id))
         ELSE Keep(b) /\ Silent(r.id)
    /\ UNCHANGED <<config, pending, nextip, enabled, now, reclaimed>>

\* RELEASE: the lease expires now
Release(r) ==
    /\ r.type = "release" /\ r.net \in enabled
    /\ \E b \in Lookup(r) :
         IF b.kind = "temporary"
         THEN Commit(b, WithExpiry(r, b, now), NoReply(r.id))
         ELSE Keep(b) /\ Silent(r.id)
    /\ UNCHANGED <<config, pending, nextip, enabled, now, reclaimed>>

Inform(r) ==
    /\ r.type = "inform" /\ r.net \in enabled
    /\ \E b \in Lookup(r) : Keep(b)
    /\ Send(Answer("ack", r.id, r.ciaddr, 0))
    /\ UNCHANGED <<config, pending, nextip, enabled, now, reclaimed>>

Handle(r) ==
    \/ Discover(r) \/ SelectOther(r) \/ SelectUs(r) \/ ReRequest(r)
    \/ Decline(r) \/ Release(r) \/ Inform(r)

\* dhcp_bootp_allocate: an address for a NetBoot 1.0 client, taken from the
\* same database without an offer
BootpAllocate(c, n) ==
    LET isStatic == static[c] # NoAddr /\ NetOf[static[c]] = n
        found == {e \in leases : e.id = c /\ NetOf[e.ip] = n}
        x == LeaseMax + now
    IN
    /\ ~isStatic
    /\ \/ \E e \in found :
            /\ Configured(e.ip)
            /\ leases' = (leases \ {e}) \cup {[e EXCEPT !.expiry = x]}
            /\ IF leases' = leases THEN disk' = disk
               ELSE disk' \in Saved(disk, leases')
            /\ UNCHANGED <<pending, nextip, reclaimed>>
       \/ \E gone \in IF found = {} THEN {{}}
                      ELSE {{e} : e \in {f \in found : ~Configured(f.ip)}} :
          \E w \in Allocations(n, leases \ gone, disk, pending) :
            /\ leases' = IF w.ip = NoAddr THEN w.leases
                         ELSE w.leases \cup {[ip |-> w.ip, id |-> c,
                                              expiry |-> x]}
            /\ disk' \in IF gone = {} /\ w.ip = NoAddr THEN {w.disk}
                         ELSE Saved(w.disk, leases')
            /\ pending' = w.pending
            /\ nextip' = CursorsAfter(n, leases \ gone, pending)
            /\ reclaimed' = reclaimed \cup w.taken
    /\ Silent(c)
    /\ UNCHANGED <<config, enabled, now>>

-----------------------------------------------------------------------------
(* Configuration, restart, time                                            *)

Reload ==
    /\ \E k \in Configs : subnets' = k.subnets /\ allocates' = k.allocates
    /\ static' \in StaticTables
    /\ nextip' = First
    /\ leases' = disk
    /\ enabled' = Net
    /\ reply' = NoReply(NoClient)

\* SIGHUP: bootp_readtab, S_get_interfaces and S_update_services, which
\* ends in dhcp_init
Sighup == Reload /\ UNCHANGED <<disk, pending, now, reclaimed>>

\* A crash, or idle_exit, and the relaunch of the daemon
Restart ==
    /\ Reload
    /\ pending' = [c \in Client |-> NoOffer]
    /\ UNCHANGED <<disk, now, reclaimed>>

Tick ==
    /\ now < MaxTime
    /\ now' = now + 1
    /\ reply' = NoReply(NoClient)
    /\ UNCHANGED <<leases, disk, pending, nextip, config, enabled, reclaimed>>

Init ==
    /\ leases = {} /\ disk = {}
    /\ pending = [c \in Client |-> NoOffer]
    /\ nextip = First
    /\ \E k \in Configs : subnets = k.subnets /\ allocates = k.allocates
    /\ static \in StaticTables
    /\ enabled = Net
    /\ now = 0
    /\ reply = NoReply(NoClient)
    /\ reclaimed = {}

Next ==
    \/ \E r \in Inputs : Handle(r)
    \/ \E c \in Client, n \in Net : BootpAllocate(c, n)
    \/ Sighup \/ Restart \/ Tick

Spec == Init /\ [][Next]_vars

-----------------------------------------------------------------------------
(* Properties                                                              *)

\* Every variable has its type.
TypeOK ==
    /\ leases \subseteq Entry /\ disk \subseteq Entry
    /\ pending \in [Client -> Offer]
    /\ nextip \in [Subnet -> Nat]
    /\ subnets \subseteq Subnet /\ allocates \subseteq subnets
    /\ static \in StaticTables
    /\ enabled \subseteq Net
    /\ now \in Nat
    /\ reply \in Reply
    /\ reclaimed \subseteq Addr

\* The addresses some bootptab binds
EverStatic == UNION {StaticAddrs(t) : t \in StaticTables}

\* The clients an address is leased or offered to
Owners(a) == {c \in Client : \/ pending[c].ip = a
                             \/ \E e \in leases : e.ip = a /\ e.id = c}

\* While PLCache_write succeeds the file is the database: whatever a handler
\* did to S_leases is in DHCP_LEASES_FILE before the next packet is read.
FileIsCurrent == ~DiskMayFail => disk = leases

\* An address that never appeared in bootptab and was never taken back by
\* DHCPLeases_reclaim belongs to at most one client, through offers, leases,
\* declines, reloads and restarts: reclaiming is the only way to give an
\* address to two clients.
OneOwnerUntilReclaimed ==
    ~DiskMayFail =>
      \A a \in Addr \ (EverStatic \cup reclaimed) :
        \A c, d \in Owners(a) : c = d

\* A client holds at most one lease on a net, however its DISCOVERs,
\* REQUESTs, BOOTP allocations and the reclaiming of its expired lease
\* interleave: S_create_host never adds a second entry beside the first.
OneLeasePerNet ==
    \A e, f \in leases :
      e.id = f.id /\ e.id # NoClient /\ NetOf[e.ip] = NetOf[f.ip] => e = f

\* A lease entry that has not expired, a declined address included, is
\* changed or removed only by a packet of its own client: no handler of
\* another client's packet takes it away.
LiveLeaseKept ==
    [][reply'.id # NoClient =>
         \A e \in leases :
           (e.expiry = Never \/ now <= e.expiry) /\ e \notin leases'
             => e.id = reply'.id]_vars

\* An offer younger than DEFAULT_PENDING_SECS is withdrawn only by a packet
\* of the client it was made to: no scan for a free address, for a DISCOVER
\* or for BOOTP, passes over the list of offers and takes it.
LiveOfferKept ==
    [][reply'.id # NoClient =>
         \A c \in Client :
           /\ pending[c].ip # NoAddr /\ now - pending[c].tv < PendingSecs
           /\ pending'[c] # pending[c]
           => c = reply'.id]_vars

\* A handler that extends or changes a lease whose subnet still allocates
\* answers with an ACK only when the changed database is in the file
\* (S_commit_mods before the reply).
AckAfterCommit ==
    [][\A e \in leases' \ leases :
         /\ \E f \in leases : f.ip = e.ip /\ f.id = e.id
         /\ Allocatable(e.ip) /\ reply'.type = "ack"
         => disk' = leases']_vars
=============================================================================
