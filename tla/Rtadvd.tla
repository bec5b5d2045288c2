------------------------------- MODULE Rtadvd -------------------------------
(***************************************************************************)
(* The router advertisement daemon (rtadvd): what it reads from its        *)
(* configuration, the advertisements it makes of it, and the main loop in  *)
(* which timers, solicitations and the messages of the routing socket      *)
(* meet.  One interface; the interfaces share nothing but the loop.        *)
(*                                                                         *)
(* Time is relative: a timer is the time left, `since' the time since the  *)
(* last advertisement, up to MIN_DELAY_BETWEEN_RAS.  A domain name is the  *)
(* sequence of the lengths of its labels.  The daemon runs without -s, and *)
(* one read of the routing socket returns one message, whole and in order. *)
(***************************************************************************)
EXTENDS Integers, Sequences, FiniteSets, SequencesExt

CONSTANTS
    Config,                   \* entries of rtadvd.conf
    Pfx,                      \* prefixes
    Own,                      \* those the interface has when the daemon starts
    MIN_DELAY_BETWEEN_RAS,
    MAX_RA_DELAY_TIME,
    MAX_INITIAL_RTR_ADVERT_INTERVAL,
    PrefixTimo,               \* prefix_timo of config.c
    OtherRA,                  \* advertisements of other routers
    MaxMsgs, MaxWaiting,      \* bounds: the routing socket, unanswered solicitations
    MaxPast                   \* bound: the time a lifetime is over, more than any clock skew

\* An entry is at most BUFSIZ bytes (advcap.c), which 256 resolvers do not fit in.
ASSUME RtadvdAssumption ==
    /\ IsFiniteSet(Pfx) /\ Own \subseteq Pfx
    /\ MIN_DELAY_BETWEEN_RAS \in 1 .. 3 /\ MAX_RA_DELAY_TIME \in Nat \ {0}
    /\ MAX_INITIAL_RTR_ADVERT_INTERVAL \in Nat
    /\ MAX_INITIAL_RTR_ADVERT_INTERVAL >= MIN_DELAY_BETWEEN_RAS
    /\ PrefixTimo \in Nat /\ MaxMsgs \in Nat /\ MaxPast \in Nat
    /\ \A c \in Config :
        /\ c.maxinterval \in Int /\ c.mininterval \in Int /\ c.rltime \in Int
        /\ c.capport \in Int /\ Len(c.dnr) \in 0 .. 255
        /\ \A a \in c.addrs : a.vltime \in Int /\ a.pltime \in Int

MAX_INITIAL_RTR_ADVERTISEMENTS == 3
NoTimer == -1

VARIABLES
    conf,    \* the configuration in use
    rai,     \* struct rainfo: the interface
    kernel,  \* [up, routes]: the interface as the kernel has it
    msgs,    \* what the routing socket still holds
    sent,    \* what the last advertisement said of the router and of each prefix
    at,      \* the main loop: at its top, in select, with only `sock' left to read
    status   \* running, exited (by its own choice), stopped (SIGTERM)

rtadvdVars == <<conf, rai, kernel, msgs, sent, at, status>>

-----------------------------------------------------------------------------
(* The configuration.  -1 is a capability that is not there.               *)

Default(v, d) == IF v < 0 THEN d ELSE v
SumOf(s) == FoldLeft(+, 0, s)

Interval(c) == Default(c.maxinterval, 600)
MinInterval(c) == Default(c.mininterval, Interval(c) \div 3)
IntervalsOK(c) ==
    /\ Interval(c) \in 4 .. 1800
    /\ MinInterval(c) \in 3 .. (Interval(c) * 3) \div 4

\* Both preferences, by letters or by number, is the reserved one.
RaFlagsOK(c) == ~({"h", "l"} \subseteq c.raflags)
HopLimit(c) == Default(c.chlim, 64) % 256
ReachableTime(c) == Default(c.rtime, 0)
ReachableTimeOK(c) == ReachableTime(c) <= 3600000
RetransTimer(c) == Default(c.retrans, 0)
Clockskew(c) == Default(c.clockskew, 0)

\* A router lifetime takes forwarding; it is kept in 16 bits.
Lifetime(c) == Default(c.rltime, Interval(c) * 3)
LifetimeOK(c) == Lifetime(c) = 0 \/ (Lifetime(c) \in Interval(c) .. 9000 /\ c.forwarding)

AdvLinkOpt(c) == c.lladdr # "none"

\* The MTU of the interface itself, "auto", is not checked.
AutoMTU == -2
LinkMTU(c) == IF c.mtu = AutoMTU THEN c.phymtu ELSE Default(c.mtu, 0)
LinkMTUOK(c) == c.mtu = AutoMTU \/ LinkMTU(c) = 0 \/ LinkMTU(c) \in 1280 .. c.phymtu

\* Prefixes, from the configuration or else from the addresses.  A lifetime
\* that is to be counted down has an expiration.
NoExpire == -MaxPast - 1
NewPrefix(vl, vlexpire, pl, plexpire) ==
    [in |-> TRUE, timer |-> NoTimer, late |-> FALSE, vl |-> vl, vlexpire |-> vlexpire, pl |-> pl, plexpire |-> plexpire]
NoPrefix == [NewPrefix(0, NoExpire, 0, NoExpire) EXCEPT !.in = FALSE]
DEF_ADVVALIDLIFETIME == 9
DEF_ADVPREFERREDLIFETIME == 6
DefaultPrefix == NewPrefix(DEF_ADVVALIDLIFETIME, NoExpire, DEF_ADVPREFERREDLIFETIME, NoExpire)
get_prefix == [p \in Pfx |-> IF p \in Own THEN DefaultPrefix ELSE NoPrefix]
PrefixesOK(c) == \A a \in c.addrs : a.prefix \in Pfx /\ ~a.multicast /\ a.plen \in 0 .. 128
PrefixOf(a) ==
    LET vl == Default(a.vltime, DEF_ADVVALIDLIFETIME)
        pl == Default(a.pltime, DEF_ADVPREFERREDLIFETIME)
    IN NewPrefix(vl, IF a.vltimedecr THEN vl ELSE NoExpire, pl, IF a.pltimedecr THEN pl ELSE NoExpire)
PrefixList(c) ==
    IF c.addrs = {} THEN get_prefix
    ELSE [p \in Pfx |-> IF \E a \in c.addrs : a.prefix = p THEN PrefixOf(CHOOSE a \in c.addrs : a.prefix = p)
                       ELSE NoPrefix]

RoutesOK(c) == \A i \in DOMAIN c.routes : c.routes[i] \in 0 .. 128

\* As many addresses and domains as the counts say, none of them multicast.
RDNSSOK(c) == c.rdnssaddrs <= Len(c.rdnss) /\ "multicast" \notin Range(c.rdnss)
DNSSLOK(c) == c.dnssldomains <= Len(c.dnssl)

\* The next multiple of eight, which is eight more for one that is a multiple.
RoundUp(n) == n + (8 - (n % 8))
DomainLength(d) == SumOf(d) + Len(d) - 1
DNSSLOptionLength(c) ==
    LET d == SubSeq(c.dnssl, 1, Default(c.dnssldomains, 0))
    IN IF c.dnssldomains < 0 THEN 8
       ELSE RoundUp(8 + SumOf([i \in DOMAIN d |-> IF DomainLength(d[i]) > 0 THEN DomainLength(d[i]) + 2 ELSE 0]))
CapportOptionLength(c) == IF c.capport < 0 THEN 0 ELSE RoundUp(2 + c.capport)

pref64_prefix_length_get_plc(len) == len \in {96, 64, 56, 48, 40, 32}
Pref64OK(c) == c.pref64len = 0 \/ (pref64_prefix_length_get_plc(c.pref64len) /\ c.pref64lifetime <= 65528)

PvdOptionLength(c) == IF c.pvdid = <<>> THEN 0 ELSE RoundUp(6 + DomainLength(c.pvdid))

\* A label is cut to six bits of its length, an empty one left out.
encode_domain(d) == 1 + SumOf([i \in DOMAIN d |-> IF d[i] % 64 > 0 THEN (d[i] % 64) + 1 ELSE 0])
DNRLength(e) == 10 + encode_domain(e.adn) + 2 + 16 * e.addrs + 2 + e.svc
DNROK(c) == \A i \in DOMAIN c.dnr : c.dnr[i].addrs > 0

Valid(c) ==
    /\ IntervalsOK(c) /\ RaFlagsOK(c) /\ LifetimeOK(c) /\ ReachableTimeOK(c) /\ ~c.mobile
    /\ PrefixesOK(c) /\ LinkMTUOK(c) /\ RoutesOK(c) /\ RDNSSOK(c) /\ DNSSLOK(c) /\ Pref64OK(c) /\ DNROK(c)

-----------------------------------------------------------------------------
(* The advertisement.                                                      *)

lladdropt_length(c) == IF c.lladdr = "ether" THEN 8 ELSE 0
RouteLength(plen) == 8 + ((plen + 63) \div 64) * 8
Count(r) == Cardinality({ p \in Pfx : r.prefix[p].in })

\* The length it is given: the number of resolvers is kept in eight bits.
Packlen(r, c) ==
    16 + (IF AdvLinkOpt(c) THEN lladdropt_length(c) ELSE 0)
    + 32 * r.pfxs + (IF LinkMTU(c) # 0 THEN 8 ELSE 0)
    + SumOf([i \in DOMAIN c.routes |-> RouteLength(c.routes[i])])
    + (IF c.rdnssaddrs > 0 THEN 8 + 16 * c.rdnssaddrs ELSE 0)
    + (IF c.dnssldomains > 0 THEN DNSSLOptionLength(c) ELSE 0)
    + CapportOptionLength(c) + (IF c.pref64len # 0 THEN 16 ELSE 0) + PvdOptionLength(c)
    + (IF Len(c.dnr) % 256 # 0 THEN SumOf([i \in DOMAIN c.dnr |-> RoundUp(DNRLength(c.dnr[i]))]) ELSE 0)

\* The length it gets: an option is written to its end, and all resolvers are.
CapportWritten(c) ==
    IF c.capport < 0 THEN 0 ELSE 2 + c.capport + (CapportOptionLength(c) - 2 - c.capport)
DNRWritten(c) ==
    IF Len(c.dnr) = 0 THEN 0 ELSE SumOf([i \in DOMAIN c.dnr |-> RoundUp(DNRLength(c.dnr[i]))])
Written(r, c) ==
    16 + (IF AdvLinkOpt(c) THEN lladdropt_length(c) ELSE 0)
    + 32 * Count(r) + (IF LinkMTU(c) # 0 THEN 8 ELSE 0)
    + SumOf([i \in DOMAIN c.routes |-> RouteLength(c.routes[i])])
    + (IF c.rdnssaddrs > 0 THEN 8 + 16 * c.rdnssaddrs ELSE 0)
    + (IF c.dnssldomains > 0 THEN DNSSLOptionLength(c) ELSE 0)
    + CapportWritten(c) + (IF c.pref64len # 0 THEN 16 ELSE 0) + PvdOptionLength(c) + DNRWritten(c)

\* The lifetimes of a prefix: none for one that was withdrawn, what is left
\* of one that is counted down, and the preferred one within the valid one.
Left(life, expire) == IF expire = NoExpire THEN life ELSE Max({expire, 0})
PrefixLifetime(p) ==
    LET valid == IF p.timer # NoTimer THEN 0 ELSE Left(p.vl, p.vlexpire)
        preferred == IF p.timer # NoTimer THEN 0 ELSE Left(p.pl, p.plexpire)
    IN [valid |-> valid, preferred |-> Min({preferred, valid})]

\* What an advertisement tells; the daemon gives up if the lengths differ.
Nothing == [valid |-> NoTimer, preferred |-> NoTimer]
Tells(r) ==
    [router |-> r.lifetime,
     prefix |-> [p \in Pfx |-> IF r.prefix[p].in THEN PrefixLifetime(r.prefix[p]) ELSE Nothing]]
make_packet(r, c) == Packlen(r, c) = Written(r, c)

-----------------------------------------------------------------------------
(* Timers.  Functions of the random number rnd.                            *)

ra_timer_update(r, c, rnd) ==
    LET interval == MinInterval(c) + (rnd % (Interval(c) - MinInterval(c)))
        capped == IF r.initcounter < MAX_INITIAL_RTR_ADVERTISEMENTS
                    THEN Min({interval, MAX_INITIAL_RTR_ADVERT_INTERVAL}) ELSE interval
    IN IF r.initcounter = 0 THEN 0 ELSE capped

\* Mutant: the pause behind the last advertisement is forgotten.
ShortDelayOnly(r, rnd) ==
    IF r.timer = NoTimer THEN r
    ELSE [r EXCEPT !.timer = Min({rnd % MAX_RA_DELAY_TIME, r.timer})]
\* Before the pause after the last advertisement is over, the delay counts
\* from its end.
set_short_delay(r, rnd) ==
    LET interval == Min({rnd % MAX_RA_DELAY_TIME, r.timer})
    IN IF r.timer = NoTimer THEN r
       ELSE [r EXCEPT !.timer = IF r.since < MIN_DELAY_BETWEEN_RAS
                                  THEN interval + (MIN_DELAY_BETWEEN_RAS - r.since) ELSE interval]

\* Nothing is sent on an interface that is down; what was asked for stays.
ra_output(r) ==
    IF ~r.up THEN r
    ELSE [r EXCEPT !.initcounter = Min({@ + 1, MAX_INITIAL_RTR_ADVERTISEMENTS}),
                   !.waiting = 0, !.since = 0]

delete_prefix(r, S) ==
    [r EXCEPT !.prefix = [p \in Pfx |-> IF p \in S THEN NoPrefix ELSE r.prefix[p]],
              !.pfxs = @ - Cardinality(S)]

-----------------------------------------------------------------------------

NewInterface(c) ==
    [up |-> TRUE, timer |-> NoTimer, old |-> NoTimer, since |-> MIN_DELAY_BETWEEN_RAS,
     initcounter |-> 0, waiting |-> 0, lifetime |-> Lifetime(c), prefix |-> PrefixList(c), pfxs |-> 0,
     inconsistent |-> FALSE]

\* getconfig: the timer is set whether the interface is up or not.
getconfig(c, up) ==
    LET r == NewInterface(c)
    IN [r EXCEPT !.up = up, !.timer = 0, !.pfxs = Count(r)]

\* The routing socket is opened after the addresses were read, and what
\* changed in between is never told.
RtadvdInit ==
    /\ conf \in Config
    /\ kernel \in [up : BOOLEAN, routes : SUBSET Pfx]
    /\ \E up \in BOOLEAN : rai = getconfig(conf, up)
    /\ status = IF Valid(conf) /\ make_packet(rai, conf) THEN "running" ELSE "exited"
    /\ msgs = <<>> /\ at = "top"
    /\ sent = [router |-> NoTimer, prefix |-> [p \in Pfx |-> Nothing]]

Running == status = "running"

\* The kernel changes and says so on the routing socket.  What the loop does
\* out of select looks neither at the kernel nor at the socket.
Post(m) == msgs' = Append(msgs, m) /\ UNCHANGED <<conf, rai, sent, at, status>>
AddRoute(p) ==
    /\ Running /\ at = "select" /\ Len(msgs) < MaxMsgs /\ p \notin kernel.routes /\ kernel.up
    /\ kernel' = [kernel EXCEPT !.routes = @ \cup {p}] /\ Post([type |-> "RTM_ADD", p |-> p])
DeleteRoute(p) ==
    /\ Running /\ at = "select" /\ Len(msgs) < MaxMsgs /\ p \in kernel.routes
    /\ kernel' = [kernel EXCEPT !.routes = @ \ {p}] /\ Post([type |-> "RTM_DELETE", p |-> p])
LinkChanges ==
    /\ Running /\ at = "select" /\ Len(msgs) < MaxMsgs
    /\ kernel' = [kernel EXCEPT !.up = ~@] /\ Post([type |-> "RTM_IFINFO", up |-> ~kernel.up])
\* An address, or a route whose length is not that of a prefix.
AddressChanges ==
    /\ Running /\ at = "select" /\ Len(msgs) < MaxMsgs
    /\ UNCHANGED kernel /\ Post([type |-> "RTM_NEWADDR"])

\* A message is older than the flags that if_getflags reads; an interface
\* whose flags it cannot read is not up.
if_getflags(ok) == ok /\ kernel.up
NewFlags(m, ok) == IF m.type = "RTM_IFINFO" THEN m.up ELSE if_getflags(ok)

\* A prefix that comes back is no longer withdrawn.
update_prefix(r, p) == [r EXCEPT !.prefix[p].timer = NoTimer, !.prefix[p].late = FALSE]
make_prefix(r, p) == [r EXCEPT !.prefix[p] = DefaultPrefix, !.pfxs = @ + 1]
invalidate_prefix(r, p) == [r EXCEPT !.prefix[p].timer = PrefixTimo]

\* What a message does to the list of prefixes; r as it is if nothing.
Applied(r, m) ==
    IF m.type = "RTM_ADD"
      THEN IF ~r.prefix[m.p].in THEN make_prefix(r, m.p)
           ELSE IF r.prefix[m.p].timer # NoTimer THEN update_prefix(r, m.p) ELSE r
    ELSE IF m.type = "RTM_DELETE" /\ r.prefix[m.p].in THEN invalidate_prefix(r, m.p)
    ELSE r

\* A new timer, before those of the withdrawn prefixes and before the one of
\* an interface that was down when the daemon started, which nobody removes.
restarted(r) ==
    [r EXCEPT !.initcounter = 0, !.waiting = 0, !.timer = 0, !.old = IF r.timer # NoTimer THEN r.timer ELSE @,
              !.prefix = [p \in Pfx |-> [r.prefix[p] EXCEPT !.late = r.prefix[p].timer # NoTimer]]]

\* invalidate_prefix of a prefix that has a timer ends the daemon; only
\* make_prefix makes a packet.
rtmsg_input(ok, rnd) ==
    LET m == Head(msgs)
        a == Applied(rai, m)
        failed == m.type = "RTM_DELETE" /\ rai.prefix[m.p].timer # NoTimer
        r == [a EXCEPT !.up = NewFlags(m, ok)]
    IN /\ Running /\ at = "select" /\ msgs # <<>> /\ msgs' = Tail(msgs)
       /\ rai' = IF rai.up /\ ~r.up THEN [r EXCEPT !.timer = NoTimer]
                 ELSE IF ~rai.up /\ r.up THEN restarted(r)
                 ELSE IF a # rai /\ r.up THEN set_short_delay([r EXCEPT !.initcounter = 0], rnd)
                 ELSE r
       /\ at' \in {"socket", "top"}
       /\ status' = IF failed \/ (a.pfxs > rai.pfxs /\ ~make_packet(a, conf)) THEN "exited" ELSE status
       /\ UNCHANGED <<conf, kernel, sent>>

\* A solicitation: while another one waits, the timer stays as it is.
rs_input(rnd) ==
    LET r == [rai EXCEPT !.waiting = @ + 1] IN IF rai.waiting > 0 THEN r ELSE set_short_delay(r, rnd)

\* The advertisement of another router.  Of a prefix that is ours and not
\* withdrawn, a lifetime that is counted down may be longer than ours by the
\* clock skew, if there is one; another preferred lifetime is only logged.
TooLong(life, expire) == Clockskew(conf) # 0 /\ life - expire > Clockskew(conf)
prefix_check(p, adv) ==
    LET own == rai.prefix[p]
    IN /\ own.in /\ own.timer = NoTimer
       /\ \/ own.plexpire # NoExpire /\ TooLong(adv.pl, own.plexpire)
          \/ own.vlexpire # NoExpire /\ TooLong(adv.vl, own.vlexpire)
          \/ own.vlexpire = NoExpire /\ adv.vl # own.vl
Differ(theirs, ours) == theirs # 0 /\ ours # 0 /\ theirs # ours
ra_input(adv) ==
    [rai EXCEPT !.inconsistent =
        \/ @ \/ Differ(adv.chlim, HopLimit(conf)) \/ adv.raflags # conf.raflags \cap {"m", "o"}
        \/ Differ(adv.rtime, ReachableTime(conf)) \/ Differ(adv.retrans, RetransTimer(conf))
        \/ Differ(adv.mtu, LinkMTU(conf)) \/ \E p \in adv.prefixes : prefix_check(p, adv)]

\* A packet that is not valid, of another type, or on an interface that is
\* not up is dropped.
rtadvd_input(rnd) ==
    /\ Running /\ (at = "socket" \/ (at = "select" /\ msgs = <<>>))
    /\ at' = "top"
    /\ \/ UNCHANGED rai
       \/ rai.up /\ rai.waiting < MaxWaiting /\ rai' = rs_input(rnd)
       \/ rai.up /\ \E adv \in OtherRA : rai' = ra_input(adv)
    /\ UNCHANGED <<conf, kernel, msgs, sent, status>>

\* One pass over the timers, the newest first.  What a pass has done is the
\* interface, what was sent, and whether the daemon gave up.
prefix_timeout(x, late) ==
    [x EXCEPT !.rai = delete_prefix(@, { p \in Pfx : @.prefix[p].timer = 0 /\ @.prefix[p].late = late })]

\* A timer whose function finds no timer in the interface is left as it is.
ra_timeout(x, which, rnd) ==
    LET o == ra_output(x.rai)
    IN IF x.rai[which] # 0 THEN x
       ELSE [rai |-> IF x.rai.timer = NoTimer THEN o ELSE [o EXCEPT ![which] = ra_timer_update(o, conf, rnd)],
             sent |-> IF o.up THEN Tells(x.rai) ELSE x.sent,
             status |-> IF o.up /\ ~make_packet(x.rai, conf) THEN "exited" ELSE x.status]

rtadvd_check_timer(rnd) ==
    LET new == prefix_timeout([rai |-> rai, sent |-> sent, status |-> status], FALSE)
        done == ra_timeout(prefix_timeout(ra_timeout(new, "timer", rnd), TRUE), "old", rnd)
    IN /\ Running /\ at = "top" /\ at' = "select"
       /\ rai' = done.rai /\ sent' = done.sent /\ status' = done.status
       /\ UNCHANGED <<conf, kernel, msgs>>

\* Time passes in select, when there is nothing to do.  A daemon whose
\* interface is down and whose first advertisement is due goes round and round.
Due == rai.timer = 0 \/ rai.old = 0
PrefixDue == \E p \in Pfx : rai.prefix[p].timer = 0
Less(t) == IF t > 0 THEN t - 1 ELSE t
Sooner(t) == IF t > -MaxPast THEN t - 1 ELSE t
Tick ==
    /\ Running /\ at = "select" /\ msgs = <<>>
    /\ ~(rai.up /\ Due) /\ ~PrefixDue
    /\ rai' = [rai EXCEPT !.timer = Less(@), !.old = Less(@),
                          !.since = Min({@ + 1, MIN_DELAY_BETWEEN_RAS}),
                          !.prefix = [p \in Pfx |-> [rai.prefix[p] EXCEPT
                              !.timer = Less(@), !.vlexpire = Sooner(@), !.plexpire = Sooner(@)]]]
    /\ UNCHANGED <<conf, kernel, msgs, sent, at, status>>

\* The timeout of select.  A signal ends it too, and the pass finds nothing.
Wake ==
    /\ Running /\ at = "select" /\ (Due \/ PrefixDue)
    /\ at' = "top" /\ UNCHANGED <<conf, rai, kernel, msgs, sent, status>>

\* SIGTERM, which ends select: the last advertisement takes the router back,
\* and the routing socket goes with the daemon.
die ==
    LET r == [rai EXCEPT !.lifetime = 0]
    IN /\ Running /\ at \in {"top", "select"}
       /\ status' = IF make_packet(r, conf) THEN "stopped" ELSE "exited"
       /\ rai' = ra_output(r) /\ sent' = IF r.up THEN Tells(r) ELSE sent
       /\ msgs' = <<>>
       /\ UNCHANGED <<conf, kernel, at>>

RtadvdNext ==
    \/ \E p \in Pfx : AddRoute(p) \/ DeleteRoute(p)
    \/ LinkChanges \/ AddressChanges
    \/ \E rnd \in {0, 1} : (\E ok \in BOOLEAN : rtmsg_input(ok, rnd)) \/ rtadvd_input(rnd) \/ rtadvd_check_timer(rnd)
    \/ Wake \/ Tick \/ die

RtadvdSpec == RtadvdInit /\ [][RtadvdNext]_rtadvdVars

-----------------------------------------------------------------------------

\* The daemon's own assumptions hold: a prefix that is withdrawn has no timer
\* yet (config.c "assumption failure: timer already exists"), and a packet
\* has the length that was computed for it ("computed size %lu != populated
\* size"), however the messages of the routing socket, its delays and the
\* timers of the prefixes interleave.
AssumptionsHold ==
    /\ status = "exited" => ~Valid(conf)
    /\ rai.pfxs = Count(rai)
    /\ Running => Interval(conf) > MinInterval(conf)

\* An advertisement that somebody waits for (a solicitation, a prefix that
\* came or went and the hosts have not heard of) is at most the pause and the
\* random delay away, and none is closer to the last one than the pause,
\* except the first after the interface came up.  The pause holds only if the
\* interface was up when the daemon started (see rai.old), and all of it on the
\* daemon's own assumptions.
AdvertisesInTime ==
    LET fixed(p) == rai.prefix[p].vlexpire = NoExpire /\ rai.prefix[p].plexpire = NoExpire
        told(p) == rai.prefix[p].in /\ fixed(p) => sent.prefix[p] = PrefixLifetime(rai.prefix[p])
        wanted == rai.waiting > 0 \/ \E p \in Pfx : ~told(p)
    IN /\ AssumptionsHold
       /\ Running /\ rai.up =>
         /\ rai.timer # NoTimer
         /\ wanted => rai.timer < MIN_DELAY_BETWEEN_RAS + MAX_RA_DELAY_TIME
         /\ \/ rai.old # NoTimer
            \/ rai.timer + rai.since >= MIN_DELAY_BETWEEN_RAS
            \/ rai.timer = 0 /\ rai.initcounter = 0
=============================================================================
