------------------------------- MODULE Rtadv -------------------------------
(***************************************************************************)
(* The automatic IPv6 service of the IPConfiguration agent (rtadv.c) on    *)
(* one interface: it solicits routers, follows the advertisements of one   *)
(* of them, drives a DHCPv6 client, fetches provisioning domain (PvD)      *)
(* information, sets up CLAT46 and publishes what it learned.  The DHCPv6  *)
(* client is the one DHCPv6Service promises.                               *)
(*                                                                         *)
(* The agent handles one event after the other, so an event is an action   *)
(* and a handler a function from s, the state of the service, to s.  What  *)
(* system calls answer is a record e that the event chooses.               *)
(***************************************************************************)
EXTENDS Naturals, FiniteSets

CONSTANTS
    Routers,     \* link-local addresses of routers, the sources of advertisements
    Domains,     \* names of provisioning domains
    Adverts,     \* router advertisements that may arrive
    ClatCount,   \* CLAT46_ADDRESS_COUNT
    MaxRS,       \* MAX_RTR_SOLICITATIONS
    Cellular,    \* if_ift_type = IFT_CELLULAR
    MaxEvents    \* bound on the disturbances

NoPvD == [id |-> "", seq |-> 0]
NoRA == [src |-> "", life0 |-> TRUE, flags |-> "None", dns |-> "none", pvd |-> NoPvD,
         prefix |-> FALSE, pref64 |-> FALSE]
Domain == Domains \cup {""}
RA == [src : Routers \cup {""}, life0 : BOOLEAN, flags : {"None", "Stateless", "Address"},
       dns : {"none", "live", "expired"}, pvd : [id : Domain, seq : Nat],
       prefix : BOOLEAN, pref64 : BOOLEAN]

ASSUME RtadvAssumption ==
    /\ Adverts \subseteq RA /\ \A a \in Adverts : a.dns # "expired" /\ a.src # ""
    /\ "" \notin Routers \cup Domains
    /\ ClatCount \in Nat \ {0} /\ MaxRS \in Nat \ {0}
    /\ Cellular \in BOOLEAN /\ MaxEvents \in Nat

Clat == 1..ClatCount

VARIABLES
    s,       \* the service: Service_rtadv_t, its published state, the DHCPv6
             \* client as it sees it, the table of CLAT46 addresses, and addr,
             \* the autoconfigured address, which handlers flush
    k,       \* the kernel: link-local address, whether an IPv4 service of the
             \* interface is published, events on their way
    other,   \* the CLAT46 address of another interface, or 0
    events

rtadvVars == <<s, k, other, events>>

NoContext == [id |-> "", seq |-> 0, ok |-> FALSE, exp |-> "none"]
NoTimer == [fn |-> "none", at |-> "now"]
Unpublished == [on |-> FALSE, v6 |-> {}, ra |-> FALSE, pvd |-> ""]
NoService ==
    [run |-> FALSE, link |-> FALSE, st |-> "Inactive", try |-> 0, ra |-> NoRA, tm |-> NoTimer, rx |-> "none",
     renew |-> FALSE, auto |-> FALSE, nat64 |-> FALSE, pref64 |-> FALSE, pvd |-> NoContext,
     req |-> FALSE, clat |-> 0, clat_on |-> FALSE, plat |-> "unknown", report |-> FALSE,
     busy |-> FALSE, pub |-> Unpublished, refused |-> FALSE, addr |-> "none",
     d |-> [mode |-> "None", active |-> FALSE, info |-> FALSE, ip |-> FALSE],
     use |-> [i \in Clat |-> 0]]

\* The advertisements the service may hold: those that arrive, with their DNS
\* information live or expired.
Known == Adverts \cup {NoRA} \cup {[a EXCEPT !.dns = "expired"] : a \in Adverts}
ServiceType ==
    [run : BOOLEAN, link : BOOLEAN, st : {"Inactive", "Solicit", "Acquired", "Restart"},
     try : 0..MaxRS + 2, ra : Known,
     tm : [fn : {"none", "start", "solicit", "acquired", "restart"}, at : {"now", "dns", "pvd"}],
     rx : {"none", "solicit", "acquired"}, renew : BOOLEAN, auto : BOOLEAN,
     nat64 : BOOLEAN, pref64 : BOOLEAN,
     pvd : [id : Domain, seq : Nat, ok : BOOLEAN, exp : {"none", "before", "after", "past"}],
     req : BOOLEAN, clat : 0..ClatCount, clat_on : BOOLEAN,
     plat : {"unknown", "found", "failed"}, report : BOOLEAN, busy : BOOLEAN,
     pub : [on : BOOLEAN, v6 : SUBSET {"auto", "dhcp"}, ra : BOOLEAN, pvd : Domain],
     refused : BOOLEAN, addr : {"none", "tentative", "ready"},
     d : [mode : {"None", "Stateless", "Address"}, active : BOOLEAN, info : BOOLEAN, ip : BOOLEAN],
     use : [Clat -> Nat]]
\* The types: among others, a service never has more solicitations out than
\* MAX_RTR_SOLICITATIONS and its final wait, nor an advertisement nobody sent.
RtadvTypeOK ==
    /\ s \in ServiceType
    /\ k \in [ll : {"none", "tentative", "ready"}, v4 : BOOLEAN, ev : SUBSET {"addr", "v4"}]
    /\ other \in 0..ClatCount /\ events \in Nat

\* What one event finds: inet6_rtadv_enable and the CLAT46 ioctl succeed, ten
\* seconds have passed since the last fetch, and the DHCPv6 client still has
\* the information of an earlier time.  At most one of them is otherwise.
Env == {e \in [enable : BOOLEAN, clat : BOOLEAN, late : BOOLEAN, keep : BOOLEAN] :
          Cardinality({x \in DOMAIN e : ~e[x]}) <= 1}

-----------------------------------------------------------------------------
(* CLAT46 addresses, shared by all interfaces.                               *)

\* The first address nobody uses; the first of all when every one is used.
S_clat46_address_allocate(use) ==
    LET free == {i \in Clat : use[i] = 0}
    IN  IF free = {} THEN 1 ELSE CHOOSE i \in free : \A j \in free : i <= j
S_clat46_address_release(use, i) == IF use[i] = 0 THEN use ELSE [use EXCEPT ![i] = @ - 1]

rtadv_set_clat46_address(t, e) ==
    LET i == S_clat46_address_allocate(t.use)
    IN  IF t.clat_on \/ ~e.clat THEN t
        ELSE [t EXCEPT !.clat = i, !.use[i] = @ + 1, !.clat_on = TRUE]
rtadv_remove_clat46_address_only(t) ==
    IF t.clat = 0 THEN t
    ELSE [t EXCEPT !.use = S_clat46_address_release(t.use, t.clat), !.clat = 0]
rtadv_remove_clat46_address(t) == [rtadv_remove_clat46_address_only(t) EXCEPT !.clat_on = FALSE]

\* The prefix of the advertisement at hand is what counts: a request to
\* remove it while the advertisement carries one sets it again.
rtadv_set_nat64_prefixlist(t, given) ==
    IF t.ra = NoRA \/ ~t.ra.pref64 THEN [t EXCEPT !.nat64 = FALSE, !.pref64 = FALSE]
    ELSE IF given /\ t.nat64 THEN t
    ELSE [t EXCEPT !.nat64 = @ \/ given, !.pref64 = TRUE]

-----------------------------------------------------------------------------
(* Provisioning domains.                                                     *)

\* What failed is remembered by its name, if the caller wants it.
PvDInfoContextFlush(c, persist) ==
    IF persist /\ ~c.ok THEN [NoContext EXCEPT !.id = c.id] ELSE NoContext
rtadv_pvd_flush(t) == [t EXCEPT !.req = FALSE, !.pvd = PvDInfoContextFlush(@, FALSE)]

\* An advertisement without a prefix is not enough for a request.
new_pvd_info_request(t) ==
    LET f == rtadv_pvd_flush(t)
    IN  IF ~t.ra.prefix THEN f
        ELSE [f EXCEPT !.req = TRUE, !.pvd.id = t.ra.pvd.id, !.pvd.seq = t.ra.pvd.seq]

\* A new domain is fetched at once; the same one again if the last fetch went
\* well and is ten seconds old, for a new sequence number or when it expired.
rtadv_pvd_additional_info_schedule_fetch(t, e) ==
    CASE t.ra.pvd = NoPvD -> [t EXCEPT !.pvd = PvDInfoContextFlush(@, TRUE)]
      [] t.ra.pvd # NoPvD /\ t.pvd.id # t.ra.pvd.id -> new_pvd_info_request(t)
      [] OTHER -> IF t.pvd.ok /\ e.late /\ (t.pvd.seq # t.ra.pvd.seq \/ t.pvd.exp = "past")
                    THEN new_pvd_info_request(t) ELSE t

-----------------------------------------------------------------------------
(* The state of the service.                                                 *)

rtadv_set_state(t, st) == [t EXCEPT !.st = st]
rtadv_cancel_pending_events(t) == [t EXCEPT !.tm = NoTimer, !.rx = "none"]
timer_set(t, f, at) == [t EXCEPT !.tm = [fn |-> f, at |-> at]]

\* The report of success is made once per solicitation.
rtadv_submit_awd_report(t, success) ==
    IF success /\ (t.report \/ t.ra = NoRA) THEN t ELSE [t EXCEPT !.report = success]
rtadv_submit_awd_success_report(t) ==
    IF t.d.active THEN t ELSE rtadv_submit_awd_report(t, TRUE)

\* Mutant: the failure leaves the timer and the receive callback armed.
FailedStaysArmed(t) ==
    LET u == [rtadv_set_state(t, "Inactive") EXCEPT !.try = 0, !.ra = NoRA]
        n == rtadv_set_nat64_prefixlist(rtadv_pvd_flush(u), FALSE)
    IN  [rtadv_remove_clat46_address_only(n) EXCEPT !.pub = Unpublished, !.clat_on = FALSE,
                                                    !.busy = FALSE]
rtadv_failed(t) ==
    LET u == [rtadv_set_state(t, "Inactive") EXCEPT !.try = 0, !.ra = NoRA]
        n == rtadv_set_nat64_prefixlist(rtadv_cancel_pending_events(rtadv_pvd_flush(u)), FALSE)
    IN  [rtadv_remove_clat46_address_only(n) EXCEPT !.pub = Unpublished, !.clat_on = FALSE,
                                                    !.busy = FALSE]
inet6_flush_prefixes(t) == [t EXCEPT !.addr = "none"]
rtadv_inactive(t) == rtadv_failed(inet6_flush_prefixes(t))

DHCPv6ClientStop(t) ==
    [t EXCEPT !.d = [mode |-> "None", active |-> FALSE, info |-> FALSE, ip |-> FALSE]]
DHCPv6ClientStart(t, m, e) ==
    [t EXCEPT !.d = [mode |-> m, active |-> TRUE, info |-> m = "Address" /\ e.keep, ip |-> FALSE]]
rtadv_flush(t) == rtadv_failed(DHCPv6ClientStop(inet6_flush_prefixes(t)))

\* A solicitation goes out, then the wait for the last one is longer, then
\* the service only listens.
rtadv_solicit_timeout(t) ==
    LET n == t.try + 1
        u == [t EXCEPT !.try = IF n > MaxRS + 2 THEN @ ELSE n,
                       !.busy = @ /\ ~(n > 1 /\ k.v4)]
    IN  CASE n > 1 /\ ~t.link -> rtadv_inactive(t)
          [] ~(n > 1 /\ ~t.link) /\ n <= MaxRS + 1 -> timer_set(u, "solicit", "now")
          [] OTHER -> [u EXCEPT !.busy = @ /\ n # MaxRS + 2]

rtadv_solicit_start(t, e) ==
    LET b == [rtadv_set_state(t, "Solicit") EXCEPT !.plat = "unknown", !.busy = TRUE, !.report = FALSE]
        u == [rtadv_cancel_pending_events(rtadv_remove_clat46_address(b)) EXCEPT !.rx = "solicit"]
    IN  IF ~e.enable THEN [rtadv_failed(u) EXCEPT !.refused = TRUE]
        ELSE rtadv_solicit_timeout([u EXCEPT !.try = 0, !.ra = NoRA, !.auto = FALSE, !.refused = FALSE])

rtadv_restart_start(t) == timer_set(rtadv_set_state(t, "Restart"), "restart", "now")

\* CLAT46 is for an interface that knows a NAT64 prefix and has no IPv4.
ClatDecision(t, e) ==
    LET avail == t.ra.pref64 \/ t.plat = "found"
        n == IF t.ra.pref64 THEN rtadv_set_nat64_prefixlist(t, TRUE) ELSE t
        g == rtadv_set_nat64_prefixlist(n, FALSE)
    IN  IF avail /\ ~k.v4 THEN rtadv_set_clat46_address(n, e)
        ELSE IF g.clat # 0 THEN rtadv_remove_clat46_address(g) ELSE g

\* The addresses of the interface are published with what is known, unless
\* there is none or the autoconfigured ones are gone.
Publish(t, e) ==
    LET list == (IF t.addr = "ready" THEN {"auto"} ELSE {}) \cup (IF t.d.ip THEN {"dhcp"} ELSE {})
        a == [t EXCEPT !.auto = t.addr # "none"]
        c == IF t.ra = NoRA THEN a ELSE ClatDecision(a, e)
        p == [c EXCEPT !.pub = [on |-> TRUE, v6 |-> list, ra |-> t.ra # NoRA,
                                pvd |-> IF t.ra # NoRA /\ t.pvd.ok THEN t.pvd.id ELSE ""]]
        q == IF t.ra = NoRA THEN p
             ELSE [rtadv_submit_awd_success_report(p) EXCEPT !.busy = @ /\ t.d.active]
    IN  CASE t.addr = "none" /\ t.auto -> rtadv_restart_start(rtadv_submit_awd_report(t, FALSE))
          [] ~(t.addr = "none" /\ t.auto) /\ list = {} -> t
          [] OTHER -> [q EXCEPT !.renew = FALSE]

\* Mutant: the solicitation is left to the next timer.
AddressChangedLazily(t, e) ==
    IF k.ll # "ready" \/ t.try = 0 THEN t ELSE Publish(t, e)
rtadv_address_changed_common(t, e) ==
    LET z == t.try = 0
        u == IF z /\ t.link THEN rtadv_solicit_start(t, e) ELSE t
    IN  IF k.ll # "ready" THEN t
        ELSE IF z /\ ~u.renew THEN u ELSE Publish(u, e)
rtadv_address_changed(t, e) == rtadv_address_changed_common(t, e)

\* The timer is set for the earlier of the two expirations.  The one of the
\* domain counts only if there is one of DNS.
SetExpiration(t, ra) ==
    IF ra = NoRA \/ ra.dns # "live" THEN t
    ELSE timer_set(t, "acquired",
                   IF t.pvd.ok /\ t.pvd.exp \in {"before", "past"} THEN "pvd" ELSE "dns")

\* The flags of the advertisement start, change or stop the DHCPv6 client.
KickDHCPv6(t, e) ==
    IF t.ra # NoRA /\ t.ra.flags # "None"
      THEN IF t.d.mode = t.ra.flags THEN t ELSE DHCPv6ClientStart(DHCPv6ClientStop(t), t.ra.flags, e)
    ELSE IF t.d.active THEN DHCPv6ClientStop(t) ELSE t

\* One router is followed; the others are ignored until it is gone.
rtadv_acquired_data(t, ra, e) ==
    LET u == KickDHCPv6([t EXCEPT !.tm = NoTimer, !.ra = IF ra.life0 THEN NoRA ELSE ra], e)
        v == rtadv_address_changed(u, e)
        w == IF v.ra = NoRA THEN v ELSE rtadv_pvd_additional_info_schedule_fetch(v, e)
    IN  IF (t.ra # NoRA /\ t.ra.src # ra.src) \/ (t.ra = NoRA /\ ra.life0) THEN t
        ELSE SetExpiration(w, u.ra)
rtadv_acquired_start(t, ra, e) ==
    rtadv_acquired_data([rtadv_set_state(t, "Acquired") EXCEPT !.tm = NoTimer, !.rx = "acquired"], ra, e)
rtadv_acquired_timeout(t, e) ==
    LET f == IF t.pvd.ok /\ t.pvd.exp = "past" THEN rtadv_pvd_additional_info_schedule_fetch(t, e) ELSE t
        v == rtadv_address_changed(f, e)
    IN  IF t.ra = NoRA THEN t ELSE SetExpiration(v, v.ra)

rtadv_solicit_data(t, ra, e) == IF ra.life0 THEN t ELSE rtadv_acquired_start(t, ra, e)

\* The interface is busy from the first address event on.
rtadv_init(t, e) == [rtadv_address_changed([t EXCEPT !.try = 0], e) EXCEPT !.busy = TRUE]

\* What a wake on the same network finds: nothing to do unless there is both
\* DNS and a domain; expired DNS asks for a new start.
WakeNeedsInit(t) == t.ra # NoRA /\ t.pvd.ok /\ t.ra.dns = "expired"
rtadv_handle_wake(t, e) ==
    CASE t.ra = NoRA \/ t.ra.dns = "none" \/ ~t.pvd.ok -> t
      [] WakeNeedsInit(t) -> [t EXCEPT !.tm = NoTimer]
      [] OTHER -> LET early == t.pvd.exp \in {"before", "past"}
                      f == IF early THEN rtadv_pvd_additional_info_schedule_fetch(t, e) ELSE t
                  IN  timer_set(f, "acquired", IF early THEN "pvd" ELSE "dns")

-----------------------------------------------------------------------------
(* Events.                                                                    *)

RtadvInit ==
    /\ s \in {NoService, [NoService EXCEPT !.link = TRUE]} /\ other = 0 /\ events = MaxEvents
    /\ k = [ll |-> "none", v4 |-> FALSE, ev |-> {}]

Disturb == events > 0 /\ events' = events - 1

\* The event of an address that came or went, among the events ev.
Tells(ev) == k' = [k EXCEPT !.ev = IF s'.addr = s.addr THEN ev ELSE ev \cup {"addr"}]

\* The service starts from its timer, after the call that created it.
rtadv_schedule_start ==
    /\ ~s.run /\ Disturb
    /\ s' = timer_set(rtadv_set_nat64_prefixlist([NoService EXCEPT !.run = TRUE, !.link = s.link, !.use = s.use], FALSE),
                      "start", "now")
    /\ UNCHANGED <<k, other>>

\* The prefixes are flushed, and the addresses with them.
rtadv_stop ==
    /\ s.run /\ Disturb
    /\ s' = [NoService EXCEPT !.link = s.link, !.use = rtadv_failed(s).use]
    /\ Tells(k.ev) /\ UNCHANGED other

\* The kernel assigns or loses an address; the event of it comes later.  The
\* agent starts the link-local address on an active link only.
KernelChanges(ll, addr) ==
    /\ Disturb
    /\ k.ll = "none" /\ ll # "none" => s.link
    /\ addr # "none" => ll = "ready" /\ (s.addr # "none" \/ s.ra.prefix)
    /\ <<ll, addr>> # <<k.ll, s.addr>>
    /\ s' = [s EXCEPT !.addr = addr]
    /\ k' = [k EXCEPT !.ll = ll, !.ev = @ \cup {"addr"}]
    /\ UNCHANGED other
\* IFEventID_ipv6_address_changed_e and IFEventID_ipv4_publish_e.
AddressEvent(ev, e) ==
    /\ ev \in k.ev
    /\ s' = IF s.run THEN rtadv_address_changed_common(s, e) ELSE s
    /\ Tells(k.ev \ {ev})
    /\ UNCHANGED <<other, events>>

\* IFEventID_wake_e, IFEventID_renew_e and IFEventID_link_status_changed_e;
\* the link is the one the event is about.  On a wake on the same network
\* the handler decides whether to start again; when the link was lost before
\* the sleep, the agent has handled the expired link timer first.
LinkEvent(ev, up, changed, e) ==
    LET l == [s EXCEPT !.link = up]
        woke == ev = "wake" /\ ~changed
        f == IF changed THEN rtadv_flush(l) ELSE IF woke THEN rtadv_handle_wake(l, e) ELSE l
        need == \/ changed \/ ev = "renew"
                \/ (woke => WakeNeedsInit(s)) /\ ~(f.try = 1 /\ f.ra = NoRA)
        r == [f EXCEPT !.renew = @ \/ (ev = "renew" /\ Cellular)]
    IN  /\ s.run /\ Disturb
        /\ woke /\ up /\ ~s.link => k.ll = "none"
        /\ s' = IF ~up THEN [l EXCEPT !.try = 0]
                ELSE IF need THEN rtadv_init(r, e) ELSE r
        /\ Tells(k.ev) /\ UNCHANGED other

\* The link was inactive for too long, or the interface came back: the agent
\* stops the link-local address with the event (process_link_timer_expired).
LinkTimerExpired ==
    /\ s.run /\ Disturb
    /\ s' = DHCPv6ClientStop(rtadv_inactive(s))
    /\ k' = [k EXCEPT !.ll = "none", !.ev = @ \cup {"addr"}]
    /\ UNCHANGED other

\* Without any default router the service waits a second.
rtadv_router_expired(left, e) ==
    /\ s.run /\ s.ra # NoRA /\ Disturb
    /\ LET t == rtadv_submit_awd_report(s, FALSE)
       IN  s' = IF left THEN rtadv_solicit_start(t, e) ELSE rtadv_restart_start(t)
    /\ UNCHANGED <<k, other>>

\* Without CLAT46 in the configuration of the interface the outcome does not
\* matter.
PLATDiscoveryComplete(found, configured, e) ==
    /\ s.run /\ s.plat = "unknown" /\ s.pub.on /\ Disturb
    /\ LET t == [s EXCEPT !.plat = IF found THEN "found" ELSE "failed"]
       IN  s' = IF found \/ ~configured THEN rtadv_address_changed(t, e) ELSE rtadv_submit_awd_report(t, FALSE)
    /\ UNCHANGED <<k, other>>

\* An IPv4 service of the interface is published or removed; the event of it
\* comes with the next asynchronous work (IPv4ServicePublishProcess).
IPv4Publish ==
    /\ s.run /\ Disturb
    /\ k' = [k EXCEPT !.v4 = ~@, !.ev = @ \cup {"v4"}]
    /\ UNCHANGED <<s, other>>

\* RTADVSocketDemux: the function that receives gets the advertisement.
Receive(ra, e) ==
    /\ s.rx # "none" /\ Disturb
    /\ s' = IF s.rx = "solicit" THEN rtadv_solicit_data(s, ra, e) ELSE rtadv_acquired_data(s, ra, e)
    /\ UNCHANGED <<k, other>>

\* The answer of the helper: the information, no connection, or a failure.
rtadv_pvd_additional_info_request_callback(res, exp, e) ==
    /\ s.req
    /\ LET c == CASE res = "obtained" -> [s.pvd EXCEPT !.ok = TRUE, !.exp = exp]
                  [] res = "idle" -> PvDInfoContextFlush(s.pvd, FALSE)
                  [] res = "failed" -> PvDInfoContextFlush([s.pvd EXCEPT !.ok = FALSE], TRUE)
       IN  s' = [rtadv_address_changed([s EXCEPT !.pvd = c], e) EXCEPT !.req = FALSE]
    /\ UNCHANGED <<k, other, events>>

ExpireDNS ==
    /\ s.ra.dns = "live" /\ s.pvd.exp # "before"
    /\ s' = [s EXCEPT !.ra.dns = "expired"]
    /\ UNCHANGED <<k, other, events>>
ExpirePvD ==
    /\ s.pvd.exp = "before" \/ (s.pvd.exp = "after" /\ s.ra.dns # "live")
    /\ s' = [s EXCEPT !.pvd.exp = "past"]
    /\ UNCHANGED <<k, other, events>>

Due ==
    /\ s.tm.fn # "none"
    /\ s.tm.at = "dns" => s.ra.dns # "live"
    /\ s.tm.at = "pvd" => s.pvd.exp \notin {"before", "after"}
Timer(e) ==
    /\ Due
    /\ LET t == [s EXCEPT !.tm = NoTimer]
       IN  s' = CASE s.tm.fn = "start" -> rtadv_init(t, e)
                  [] s.tm.fn = "solicit" -> rtadv_solicit_timeout(t)
                  [] s.tm.fn = "acquired" -> rtadv_acquired_timeout(t, e)
                  [] s.tm.fn = "restart" -> rtadv_solicit_start(t, e)
    /\ Tells(k.ev) /\ UNCHANGED <<other, events>>

\* The DHCPv6 client works on its own and may tell (rtadv_dhcp_callback).
DHCPv6 == INSTANCE DHCPv6Service WITH Addr <- {TRUE}, NoAddr <- FALSE, mode <- s.d.mode,
              active <- s.d.active, info <- s.d.info, ip <- s.d.ip
rtadv_dhcp_callback(d, tell, e) ==
    /\ s.run /\ Disturb
    /\ LET t == [s EXCEPT !.d = d] IN s' = IF tell THEN rtadv_address_changed(t, e) ELSE t
    /\ DHCPv6!Work
    /\ UNCHANGED <<k, other>>

\* Another interface takes and gives back a CLAT46 address.
OtherInterface ==
    /\ Disturb
    /\ IF other = 0
         THEN LET i == S_clat46_address_allocate(s.use)
              IN  other' = i /\ s' = [s EXCEPT !.use[i] = @ + 1]
         ELSE other' = 0 /\ s' = [s EXCEPT !.use = S_clat46_address_release(@, other)]
    /\ UNCHANGED k

Client == [mode : {"Stateless", "Address"}, active : BOOLEAN, info : BOOLEAN, ip : BOOLEAN]

RtadvNext ==
    \/ rtadv_schedule_start \/ rtadv_stop \/ LinkTimerExpired
    \/ \E ll \in {"none", "tentative", "ready"}, addr \in {"none", "tentative", "ready"} :
          KernelChanges(ll, addr)
    \/ ExpireDNS \/ ExpirePvD \/ OtherInterface \/ IPv4Publish
    \/ \E e \in Env :
          \/ AddressEvent("addr", e) \/ AddressEvent("v4", e) \/ Timer(e)
          \/ \E ev \in {"wake", "renew", "link"}, up, changed \in BOOLEAN :
                LinkEvent(ev, up, changed, e)
          \/ \E b \in BOOLEAN : rtadv_router_expired(b, e)
          \/ \E b, c \in BOOLEAN : PLATDiscoveryComplete(b, c, e)
          \/ \E ra \in Adverts : Receive(ra, e)
          \/ \E res \in {"obtained", "idle", "failed"}, exp \in {"none", "before", "after"} :
                rtadv_pvd_additional_info_request_callback(res, exp, e)
          \/ \E d \in Client, tell \in BOOLEAN : rtadv_dhcp_callback(d, tell, e)

RtadvSpec == RtadvInit /\ [][RtadvNext]_rtadvVars

-----------------------------------------------------------------------------

\* The table of CLAT46 addresses counts its users, and two interfaces share an
\* address only when all are taken.
ClatCounted ==
    \A i \in Clat :
        /\ s.use[i] = Cardinality({x \in {"us", "other"} : i = IF x = "us" THEN s.clat ELSE other})
        /\ s.use[i] > 1 => \A j \in Clat : s.use[j] > 0

\* Nothing is left behind, whatever fails on the way: the CLAT46 addresses in
\* use are counted, and when the service has given up there is no publication,
\* no CLAT46 address, no NAT64 prefix and no pending event.  Two cases are left
\* out: a refused rtadv_enable in the middle of a handler lets the handler go
\* on and publish or set its timer; and on cellular a renewal that still waits
\* for the link-local address (rtadv->renew) makes an inactive service publish
\* the address that its DHCPv6 client has kept.
InactiveIsClean ==
    /\ RtadvTypeOK /\ ClatCounted
    /\ s.st = "Inactive" /\ ~s.refused =>
        /\ Cellular \/ ~s.pub.on
        /\ s.clat = 0 /\ ~s.clat_on /\ ~s.pref64 /\ ~s.req
        /\ s.rx = "none" /\ s.tm.fn \in {"none", "start"}

\* While the link is active and the link-local address is ready, the service
\* hears routers or has a timer, unless the kernel refused to enable router
\* advertisements: link changes, restarts and wakes in any order never leave
\* it deaf.
ListensToRouters ==
    s.run /\ s.link /\ k.ll = "ready" /\ k.ev = {} =>
        s.rx # "none" \/ s.tm.fn # "none" \/ s.refused
=============================================================================
