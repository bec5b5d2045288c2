----------------------------- MODULE DHCPClient -----------------------------
(***************************************************************************)
(* The DHCP client of the IPConfiguration agent: dhcp.c, with the lease    *)
(* list of DHCPLease.c, the router state of ipconfigd.c, the one-shot      *)
(* timer of timer.c and the asynchronous requests of arp_session.c.        *)
(*                                                                         *)
(* One service on one interface.  Every event (timer, packet, ARP result,  *)
(* link, sleep, wake, user) is handled to its end on one dispatch queue,   *)
(* so an event is one action, and a handler that calls another is a        *)
(* function from service record to service record.                         *)
(*                                                                         *)
(* All addresses are private and every network's router has the same IP    *)
(* address: the case in which only its MAC tells two networks apart.  A    *)
(* router's MAC is named by its network.  The wall clock is never set.     *)
(***************************************************************************)
EXTENDS Integers, Sequences, SequencesExt

CONSTANTS
    Net, NoNet,
    MaxAddr,        \* addresses are 1..MaxAddr; 0 is 0.0.0.0
    Replies,        \* the replies a server may send, a subset of Reply
    Infinite,       \* DHCP_INFINITE_LEASE
    Wireless,       \* if_is_wireless
    Isolated,       \* interface_is_isolated
    MacOS,          \* TARGET_OS_OSX
    MaxRating,      \* the rating of an ideal OFFER
    RetrySecs,      \* wait_secs, its doubling left out
    GatherSecs,     \* G_gather_secs
    MaxRetries,     \* G_max_retries
    RebootRetries,  \* G_dhcp_init_reboot_retry_count
    SelectRetries,  \* G_dhcp_select_retry_count
    RouterArpAt,    \* G_dhcp_router_arp_at_retry_count
    MinWait,        \* RENEW_REBIND_MIN_WAIT_SECS
    RouterRetry,    \* seconds between two attempts to resolve the router
    InitRetry,      \* INIT_RETRY_INTERVAL_SECS, and the other waits for INIT
    ArpSecs,        \* how long a probe or a detection may take
    ResolveSecs,    \* S_discover_router_mac_address_secs
    WakeSkew,       \* G_wake_skew_secs
    StartThreshold, \* G_router_arp_wifi_lease_start_threshold_secs
    WriteThreshold, \* G_dhcp_lease_write_t1_threshold_secs
    MaxTime,        \* bound on the clock
    MaxEvents       \* bound on the number of disturbances

Addr == 1..MaxAddr
NoAddr == 0

Reply == [type : {"offer", "ack", "nak"}, ip : Addr, rating : 1..MaxRating,
          len : Nat \ {0}, rtr : BOOLEAN, v6 : BOOLEAN]

ASSUME ClientAssumption ==
    /\ NoNet \notin Net /\ Replies \subseteq Reply
    /\ Wireless \in BOOLEAN /\ Isolated \in BOOLEAN /\ MacOS \in BOOLEAN
    /\ {MaxAddr, MaxRating, Infinite, MaxRetries, RebootRetries, SelectRetries,
        RouterArpAt, StartThreshold, WriteThreshold, MaxTime, MaxEvents} \subseteq Nat
    /\ {RetrySecs, GatherSecs, MinWait, RouterRetry, InitRetry, ArpSecs,
        ResolveSecs, WakeSkew} \subseteq Nat \ {0}

VARIABLES
    svc,       \* Service_dhcp_t, the service's address and router, the lease file
    net,       \* the network the interface is attached to, NoNet for none
    linkTimer, \* the link inactive timer runs
    asleep,
    now,       \* timer_current_secs
    acked,     \* history: <<network, address>> pairs a server acknowledged
    events     \* disturbances so far

vars == <<svc, net, linkTimer, asleep, now, acked, events>>
world == <<net, linkTimer, asleep, now>>

-----------------------------------------------------------------------------
(* The service record                                                      *)

NoTimer == [fn |-> "none", left |-> 0]
NoArp == [op |-> "none", info |-> {}, left |-> 0]
NoLease == [valid |-> FALSE, net |-> NoNet, start |-> 0, len |-> 0]
NoRouter == [ia |-> FALSE, hw |-> FALSE, verified |-> FALSE, mac |-> NoNet]
NoFile == [ip |-> NoAddr]

\* "known" is the link status and SSID the interface last reported
Stopped(file, known) ==
    [known |-> known, state |-> "stopped", timer |-> NoTimer, recv |-> "none", arp |-> NoArp,
     lease |-> NoLease,
     saved |-> [ip |-> NoAddr, rating |-> 0, rtr |-> FALSE, opts |-> FALSE,
                src |-> NoNet],
     rrt |-> 0, try |-> 0, gathering |-> FALSE, got_nak |-> FALSE,
     rto |-> FALSE, needs_write |-> FALSE, collisions |-> FALSE, busy |-> FALSE,
     router |-> NoRouter, active |-> NoAddr, published |-> FALSE,
     list |-> <<>>, file |-> file]

SSID(d) == IF Wireless THEN d.known ELSE NoNet
Link(d) == d.known # NoNet

\* dhcp_set_lease_params, with T1 and T2 as dhcp_get_lease_from_options
\* derives them from the lease time
T1(l) == IF l.len = Infinite THEN 0 ELSE l.start + l.len \div 2
T2(l) == IF l.len = Infinite THEN 0 ELSE l.start + (7 * l.len) \div 8
Expiration(l) == IF l.len = Infinite THEN 0 ELSE l.start + l.len
Expired(l) == l.len # Infinite /\ now >= l.start + l.len

Arm(d, f, secs) == [d EXCEPT !.timer = [fn |-> f, left |-> secs]]
dhcp_cancel_pending_events(d) ==
    [d EXCEPT !.timer = NoTimer, !.recv = "none", !.arp = NoArp]
service_remove_address(d) == [d EXCEPT !.active = NoAddr]
dhcp_publish_success(d) == [d EXCEPT !.published = TRUE]
service_publish_failure(d) == [d EXCEPT !.published = FALSE]
dhcp_invalidate_lease(d) == [d EXCEPT !.lease.valid = FALSE, !.lease.net = NoNet]

\* The flags are cleared, the MAC address stays in memory
service_router_clear(d) ==
    [d EXCEPT !.router.ia = FALSE, !.router.hw = FALSE, !.router.verified = FALSE]
service_router_clear_arp_verified(d) == [d EXCEPT !.router.verified = FALSE]
service_router_all_valid(d) == d.router.ia /\ d.router.hw /\ d.router.verified
service_router_set_all_valid(d) ==
    [d EXCEPT !.router.ia = TRUE, !.router.hw = TRUE, !.router.verified = TRUE]
RouterMAC(d) == IF d.router.ia /\ d.router.hw THEN d.router.mac ELSE NoNet

dhcp_inactive(d) ==
    [service_publish_failure(service_remove_address(dhcp_cancel_pending_events(d)))
        EXCEPT !.state = "inactive", !.busy = FALSE]
\* dhcp_failed also frees the parsed options of the saved packet
dhcp_failed(d) == [dhcp_inactive(d) EXCEPT !.saved.opts = FALSE]

\* dhcp_get_router_address of the saved options
HasRouter(d) == d.saved.opts /\ d.saved.rtr

-----------------------------------------------------------------------------
(* The lease list                                                          *)

\* The leases of l that are in keep, in their order
Select(l, keep) ==
    LET f[i \in 0..Len(l)] ==
            IF i = 0 THEN <<>>
            ELSE IF l[i] \in keep THEN Append(f[i - 1], l[i]) ELSE f[i - 1]
    IN  f[Len(l)]

RemoveStaleLeases(l) == Select(l, {e \in Range(l) : ~Expired(e)})

\* The positions of the leases that match: at most one
FindLease(l, ip, ia, hw) ==
    {i \in 1..Len(l) : l[i].ip = ip /\ l[i].ia = ia /\ (ia => l[i].hw = hw)}
FindLeaseForWiFi(l, n) == {i \in 1..Len(l) : l[i].net = n}

\* DHCPLeaseListWrite: only the last lease is written, none removes the file
DHCPLeaseListWrite(d) ==
    LET l == RemoveStaleLeases(d.list)
    IN  [d EXCEPT !.list = l, !.file = IF l = <<>> THEN NoFile ELSE Last(l)]

\* Mutant: the lease for the same router stays
UpdateLease_KeepsOld(l, e) ==
    Append(Select(l, {x \in Range(l) : x.hw # NoNet}), e)
\* DHCPLeaseListUpdateLease: leases without a router, NAK'd ones and the one
\* for the same router make room for the new one
UpdateLease(l, e) ==
    LET kept == Select(l, {x \in Range(l) :
                    x.hw # NoNet /\ IF e.hw = NoNet THEN ~x.nak ELSE x.hw # e.hw})
    IN  Append([i \in 1..Len(kept) |-> [kept[i] EXCEPT !.nak = FALSE]], e)

dhcp_lease_save(d, write) ==
    LET e == [ip |-> d.saved.ip, ia |-> d.router.ia, hw |-> RouterMAC(d),
              start |-> d.lease.start, len |-> d.lease.len, net |-> d.lease.net,
              rtr |-> d.saved.rtr, src |-> d.saved.src,
              nak |-> FALSE, tentative |-> FALSE]
        s == [d EXCEPT !.list = UpdateLease(d.list, e)]
    IN  IF write THEN DHCPLeaseListWrite(s) ELSE s

\* After a NAK from a known router the lease is only marked: the NAK may
\* come from a server of another network
dhcp_lease_clear(d, nak) ==
    LET where == FindLease(d.list, d.saved.ip, d.router.ia, RouterMAC(d))
    IN  IF nak /\ RouterMAC(d) # NoNet
        THEN [d EXCEPT !.list = [i \in 1..Len(d.list) |->
                 IF i \in where THEN [d.list[i] EXCEPT !.nak = TRUE] ELSE d.list[i]]]
        ELSE DHCPLeaseListWrite(IF where = {} THEN d
                 ELSE [d EXCEPT !.list = RemoveAt(d.list, CHOOSE i \in where : TRUE)])

SameLease(d, e) == e.ip = d.saved.ip /\ RouterMAC(d) # NoNet
                     /\ e.ia /\ e.hw = RouterMAC(d)

switch_to_lease(d, e) ==
    IF SameLease(d, e) THEN d
    ELSE [service_remove_address(d) EXCEPT
            !.saved = [ip |-> e.ip, rating |-> 0, rtr |-> e.rtr, opts |-> TRUE,
                       src |-> e.src],
            !.lease = [valid |-> TRUE, net |-> e.net, start |-> e.start, len |-> e.len],
            !.router = [ia |-> e.ia, hw |-> e.ia /\ e.hw # NoNet, verified |-> FALSE,
                        mac |-> IF e.ia /\ e.hw # NoNet THEN e.hw ELSE @.mac]]

\* recover_lease: the lease in the file, its router taken from the packet
recover_lease(d) ==
    LET e == [d.file EXCEPT !.ia = d.file.rtr, !.hw = IF d.file.rtr THEN @ ELSE NoNet,
                            !.nak = FALSE, !.tentative = TRUE]
    IN  IF d.file = NoFile \/ Expired(d.file) THEN d
        ELSE switch_to_lease([d EXCEPT !.list = <<e>>], e)

-----------------------------------------------------------------------------
(* Leaving a lease                                                         *)

dhcp_decline(d) ==
    Arm([dhcp_invalidate_lease(service_router_clear(service_remove_address(
            dhcp_cancel_pending_events(d))))
            EXCEPT !.state = "decline", !.saved.ip = NoAddr, !.busy = FALSE],
        "init_start", InitRetry)

dhcp_unbound(d, nak) ==
    Arm([dhcp_invalidate_lease(service_router_clear(service_remove_address(
            dhcp_lease_clear(dhcp_cancel_pending_events(d), nak))))
            EXCEPT !.state = "unbound", !.saved.ip = NoAddr, !.got_nak = FALSE,
                   !.busy = FALSE],
        "init_start", 0)

\* Mutant: the retry timer is not set
dhcp_no_server_Once(d) ==
    [service_publish_failure(dhcp_cancel_pending_events(d)) EXCEPT !.busy = FALSE]
dhcp_no_server(d) ==
    Arm([service_publish_failure(dhcp_cancel_pending_events(d)) EXCEPT !.busy = FALSE],
        "init_start", InitRetry)

dhcp_wait(d) == Arm(dhcp_failed(d), "wait", InitRetry)

dhcp_release(d) ==
    IF ~d.lease.valid THEN d
    ELSE LET r == dhcp_cancel_pending_events(service_router_clear(
                      dhcp_invalidate_lease(dhcp_lease_clear(d, FALSE))))
         IN  IF Link(d) THEN [r EXCEPT !.saved.ip = NoAddr] ELSE r

\* Mutant: the failure is not published
dhcp_check_lease_Quiet(d) ==
    IF d.lease.valid /\ Expired(d.lease)
    THEN service_remove_address(service_router_clear(dhcp_invalidate_lease(d)))
    ELSE d
\* dhcp_check_lease: an expired lease is given up
dhcp_check_lease(d) ==
    IF d.lease.valid /\ Expired(d.lease)
    THEN service_publish_failure(service_remove_address(service_router_clear(
             dhcp_invalidate_lease(d))))
    ELSE d

-----------------------------------------------------------------------------
(* BOUND                                                                   *)

\* service_update_router_address and service_resolve_router: FALSE when there
\* is no router, or it is known already
MustResolve(d) == HasRouter(d) /\ ~service_router_all_valid(d)

service_resolve_router(d) ==
    [d EXCEPT !.router.ia = TRUE, !.router.verified = FALSE,
              !.arp = [op |-> "resolve", info |-> {}, left |-> ResolveSecs]]

\* RENEW is due at T1
LateForT1(d) == d.lease.len # Infinite /\ T1(d.lease) < now
\* Mutant: T2 is taken for T1
ScheduleRenew_AtT2(d) ==
    IF d.lease.len = Infinite THEN d
    ELSE Arm([d EXCEPT !.rrt = T2(d.lease)], "renew_start",
             IF T2(d.lease) < now THEN 0 ELSE T2(d.lease) - now)
ScheduleRenew(d) ==
    IF d.lease.len = Infinite THEN d
    ELSE Arm([d EXCEPT !.rrt = T1(d.lease)], "renew_start",
             IF LateForT1(d) THEN 0 ELSE T1(d.lease) - now)

\* The part of dhcp_bound that uses the address
UseAddress(d) ==
    LET a == ScheduleRenew([d EXCEPT
                 !.lease.valid = TRUE, !.lease.net = SSID(d),
                 !.active = d.saved.ip, !.collisions = TRUE, !.rto = FALSE])
        b == IF LateForT1(d) \/ (HasRouter(d) /\ service_router_all_valid(d)) THEN a
             ELSE service_router_clear(a)
    IN  IF ~LateForT1(d) /\ MustResolve(d)
        THEN service_resolve_router(b)
        ELSE [dhcp_publish_success(dhcp_lease_save(b, b.needs_write))
                 EXCEPT !.needs_write = FALSE, !.busy = FALSE]

dhcp_bound(d) ==
    LET b == [dhcp_cancel_pending_events(d) EXCEPT
                 !.state = "bound", !.collisions = FALSE,
                 !.needs_write = IF d.state \in {"renew", "rebind"}
                                 THEN T1(d.lease) - now > WriteThreshold ELSE TRUE]
        arp(op) == [b EXCEPT !.arp = [op |-> op, info |-> {}, left |-> ArpSecs]]
    IN  CASE d.state \in {"renew", "rebind"} -> UseAddress(b)
          [] d.state = "select" /\ ~Isolated -> arp("probe")
          [] d.state \in {"init", "init_reboot"} /\ d.active = d.saved.ip
                -> arp("announce")
          [] OTHER -> UseAddress(b)

\* dhcp_bound, IFEventID_arp_e
dhcp_bound_arp(d, result) ==
    CASE result = "error" -> dhcp_failed(d)
      [] result = "in_use" ->
            dhcp_decline(service_publish_failure(service_router_clear(
                dhcp_invalidate_lease(dhcp_lease_clear(d, FALSE)))))
      [] result = "not_in_use" -> UseAddress(dhcp_cancel_pending_events(d))

\* dhcp_resolve_router_callback: the retry is set on the service's one timer
dhcp_resolve_router_callback(d, result) ==
    LET b == [d EXCEPT !.busy = FALSE]
        retry == Arm(b, "router_retry", RouterRetry)
        ok == service_router_set_all_valid([b EXCEPT !.router.mac = net])
    IN  CASE result = "error" -> b
          [] result = "not_in_use" ->
                IF d.rto THEN retry
                ELSE dhcp_lease_save(dhcp_publish_success(
                         [retry EXCEPT !.rto = TRUE]), TRUE)
          [] result = "in_use" ->
                [dhcp_publish_success(dhcp_lease_save(ok, ok.needs_write))
                    EXCEPT !.needs_write = FALSE]

-----------------------------------------------------------------------------
(* RENEW and REBIND                                                        *)

\* Mutant: the expiration is not tested
dhcp_renew_timeout_NoEnd(d) ==
    Arm([d EXCEPT !.state = "rebind", !.rrt = now + MinWait], "renew_timeout", MinWait)
dhcp_renew_timeout(d) ==
    LET rebind == now >= T2(d.lease)
        half == ((IF rebind THEN Expiration(d.lease) ELSE T2(d.lease)) - now) \div 2
        wait == IF half < MinWait THEN MinWait ELSE half
    IN  IF now >= Expiration(d.lease)
        THEN dhcp_unbound(service_publish_failure(d), FALSE)
        ELSE Arm([d EXCEPT !.state = IF rebind THEN "rebind" ELSE "renew",
                           !.rrt = now + wait],
                 "renew_timeout", wait)

dhcp_renew_rebind(d) ==
    dhcp_renew_timeout([dhcp_cancel_pending_events(d) EXCEPT
                           !.state = "renew", !.try = 0, !.recv = "renew"])

-----------------------------------------------------------------------------
(* INIT, SELECT, INIT-REBOOT                                               *)

dhcp_select_timeout(d) ==
    Arm([d EXCEPT !.try = @ + 1], "select", RetrySecs)

dhcp_select(d) ==
    dhcp_select_timeout([dhcp_cancel_pending_events(d) EXCEPT
        !.state = "select", !.try = 0, !.gathering = FALSE, !.recv = "select"])

\* dhcp_arp_router: ask the routers of all usable leases by unicast
Detectable(d, e) ==
    /\ e.hw # NoNet
    /\ Wireless => e.net = d.known /\ e.start >= now - StartThreshold
    /\ e.tentative => ~MacOS \/ d.state = "init"

dhcp_arp_router(d) ==
    LET l == RemoveStaleLeases(d.list)
        info == {[ip |-> e.ip, hw |-> e.hw] : e \in {x \in Range(l) : Detectable(d, x)}}
        a == [d EXCEPT !.list = l]
    IN  CASE d.router.verified -> d
          [] ~d.router.verified /\ info = {} -> a
          [] OTHER -> [a EXCEPT !.arp = [op |-> "router", info |-> info,
                                         left |-> ArpSecs]]

\* Mutant: SELECT is skipped
dhcp_init_timeout_BindsOffer(d) ==
    IF d.gathering THEN dhcp_bound(d) ELSE Arm([d EXCEPT !.try = @ + 1], "init", RetrySecs)
dhcp_init_timeout(d) ==
    LET b == [d EXCEPT !.try = @ + 1]
        c == IF b.try >= RouterArpAt + 1 /\ ~service_router_all_valid(b)
             THEN dhcp_arp_router(b) ELSE b
    IN  CASE d.gathering -> dhcp_select(d)
          [] ~d.gathering /\ b.try > 1 /\ ~Link(d) -> dhcp_inactive(b)
          [] ~d.gathering /\ ~(b.try > 1 /\ ~Link(d)) /\ b.try > MaxRetries + 1 ->
                IF service_router_all_valid(c) THEN dhcp_bound(c)
                ELSE dhcp_no_server(c)
          [] OTHER -> Arm(c, "init", RetrySecs)

dhcp_init(d) ==
    dhcp_init_timeout([dhcp_cancel_pending_events(d) EXCEPT
        !.state = "init", !.rto = FALSE, !.try = 0, !.gathering = FALSE,
        !.saved.rating = 0, !.got_nak = FALSE, !.recv = "init", !.busy = TRUE])

dhcp_init_reboot_timeout(d) ==
    LET b == [d EXCEPT !.try = @ + 1]
        c == dhcp_arp_router(b)
    IN  CASE d.gathering -> dhcp_bound(d)
          [] ~d.gathering /\ b.try > 1 /\ ~Link(d) -> dhcp_inactive(b)
          [] ~d.gathering /\ ~(b.try > 1 /\ ~Link(d)) /\ b.try > RebootRetries + 1 ->
                dhcp_init(service_publish_failure(service_remove_address(c)))
          [] OTHER -> Arm(c, "init_reboot", RetrySecs)

dhcp_init_reboot(d) ==
    dhcp_init_reboot_timeout([dhcp_cancel_pending_events(d) EXCEPT
        !.state = "init_reboot", !.rto = FALSE, !.try = 0, !.gathering = FALSE,
        !.saved.rating = 0, !.got_nak = FALSE, !.recv = "init_reboot",
        !.busy = TRUE])

\* dhcp_select, IFEventID_timeout_e
dhcp_select_retry(d) ==
    IF d.try + 1 > SelectRetries + 1 THEN dhcp_init(d) ELSE dhcp_select_timeout(d)

-----------------------------------------------------------------------------
(* Replies.  A packet with another xid, or of a type the state does not    *)
(* expect, changes nothing and has no action.                              *)

SavePacket(d, p, rating) ==
    [d EXCEPT !.saved = [ip |-> p.ip, rating |-> rating, rtr |-> p.rtr,
                         opts |-> TRUE, src |-> net],
              !.lease.start = now, !.lease.len = p.len]

Gather(d, fn) ==
    IF d.gathering THEN d ELSE Arm([d EXCEPT !.gathering = TRUE], fn, GatherSecs)

dhcp_init_data(d, p) ==
    LET s == SavePacket(service_router_clear(d), p, p.rating)
    IN  CASE p.v6 /\ ~d.gathering -> dhcp_wait(d)
          [] ~(p.v6 /\ ~d.gathering) /\ p.rating <= d.saved.rating -> d
          [] OTHER -> IF p.rating = MaxRating \/ Isolated THEN dhcp_select(s)
                      ELSE Gather(s, "init")

dhcp_select_data(d, p) ==
    IF p.type = "nak"
    THEN Arm(dhcp_cancel_pending_events(d), "init_start", InitRetry)
    ELSE dhcp_bound(SavePacket(d, p, 0))

dhcp_init_reboot_data(d, p) ==
    LET s == SavePacket(service_router_clear(d), p, p.rating)
    IN  CASE p.type = "nak" ->
                IF d.arp.op # "none" THEN [d EXCEPT !.got_nak = TRUE]
                ELSE dhcp_unbound(service_publish_failure(d), TRUE)
          [] p.type = "ack" /\ p.v6 /\ ~d.gathering -> dhcp_wait(d)
          [] p.type = "ack" /\ ~(p.v6 /\ ~d.gathering)
                /\ (p.ip # d.saved.ip \/ p.rating <= d.saved.rating) -> d
          [] OTHER -> IF Isolated \/ (p.rating = MaxRating /\ service_router_all_valid(s))
                      THEN dhcp_bound(s) ELSE Gather(s, "init_reboot")

dhcp_renew_data(d, p) ==
    IF p.type = "nak" \/ p.ip # d.saved.ip
    THEN dhcp_unbound(service_publish_failure(d), FALSE)
    ELSE dhcp_bound(SavePacket(d, p, 0))

-----------------------------------------------------------------------------
(* ARP results                                                             *)

\* dhcp_arp_router, IFEventID_arp_e: the router of a lease answered (f), or
\* none did ({})
dhcp_arp_router_result(d, f) ==
    LET where == {i \in 1..Len(d.list) : \E x \in f :
                     i \in FindLease(d.list, x.ip, TRUE, x.hw)}
        e == d.list[CHOOSE i \in where : TRUE]
        s == switch_to_lease(d, e)
        use(x) == dhcp_publish_success([service_router_set_all_valid(x)
                      EXCEPT !.active = x.saved.ip])
    IN  CASE f = {} \/ where = {} ->
                IF d.got_nak THEN dhcp_unbound(service_publish_failure(d), f = {})
                ELSE d
          [] where # {} /\ d.state = "init" ->
                IF d.gathering THEN d ELSE service_router_set_all_valid(s)
          [] where # {} /\ d.state = "init_reboot" /\ d.gathering ->
                IF e.ip # d.saved.ip \/ ~HasRouter(d) THEN d ELSE use(d)
          [] where # {} /\ d.state = "init_reboot" /\ ~d.gathering ->
                IF ~SameLease(d, e) THEN use([s EXCEPT !.try = 0])
                ELSE IF d.got_nak
                THEN dhcp_unbound(service_publish_failure(d), FALSE)
                ELSE use(d)
          [] OTHER -> d

\* Continue towards RENEW, when the lease has an end
ResumeRenewal(d, skew) ==
    CASE d.lease.len = Infinite -> d
      [] d.lease.len # Infinite /\ d.rrt - now >= skew
            -> Arm(d, "renew_start", d.rrt - now)
      [] OTHER -> dhcp_renew_rebind(d)

\* dhcp_check_router
dhcp_check_router(d) ==
    [d EXCEPT !.busy = TRUE, !.router.verified = FALSE,
              !.arp = [op |-> "check", info |-> {[ip |-> d.saved.ip, hw |-> d.router.mac]},
                       left |-> ArpSecs]]

-----------------------------------------------------------------------------
(* Link                                                                    *)

\* A lease of another Wi-Fi network is exchanged for the last one of this
ForThisNetwork(d) ==
    LET where == FindLeaseForWiFi(d.list, SSID(d))
        last == CHOOSE i \in where : \A j \in where : j <= i
        s == IF where # {} THEN switch_to_lease(d, d.list[last])
             ELSE service_remove_address(service_router_clear(dhcp_invalidate_lease(d)))
    IN  IF d.lease.valid /\ d.lease.net # NoNet /\ d.lease.net # SSID(d)
        THEN [s EXCEPT !.try = 0] ELSE d

\* dhcp_check_link_with_status
dhcp_check_link(d, renew) ==
    LET s == dhcp_check_lease(ForThisNetwork(d))
    IN  IF ~Link(d)
        THEN [dhcp_cancel_pending_events(d) EXCEPT !.try = 0, !.state = "inactive"]
        ELSE IF s.lease.valid
        THEN IF renew \/ s.state # "init_reboot" \/ s.try # 1
             THEN dhcp_init_reboot(s) ELSE s
        ELSE IF renew \/ s.state # "init" \/ s.try # 1
             THEN dhcp_init(s) ELSE s

-----------------------------------------------------------------------------
(* Actions: timers                                                         *)

Fires(f) == ~asleep /\ svc.timer = [fn |-> f, left |-> 0]
Popped == [svc EXCEPT !.timer = NoTimer]

\* dhcp_delayed_start, dhcp_wait and the retry after a forgotten network
TimerCheckLink ==
    /\ \/ Fires("delayed_start") \/ Fires("wait") \/ Fires("check_link")
    /\ svc' = dhcp_check_link(Popped, FALSE)
    /\ UNCHANGED <<world, acked>>
TimerInitStart ==
    Fires("init_start") /\ svc' = dhcp_init(Popped) /\ UNCHANGED <<world, acked>>
TimerInit ==
    Fires("init") /\ svc' = dhcp_init_timeout(Popped) /\ UNCHANGED <<world, acked>>
TimerInitReboot ==
    /\ Fires("init_reboot")
    /\ svc' = dhcp_init_reboot_timeout(Popped) /\ UNCHANGED <<world, acked>>
TimerSelect ==
    Fires("select") /\ svc' = dhcp_select_retry(Popped) /\ UNCHANGED <<world, acked>>
TimerRenewStart ==
    Fires("renew_start") /\ svc' = dhcp_renew_rebind(Popped) /\ UNCHANGED <<world, acked>>
TimerRenew ==
    Fires("renew_timeout") /\ svc' = dhcp_renew_timeout(Popped) /\ UNCHANGED <<world, acked>>
\* dhcp_resolve_router_retry
TimerRouterRetry ==
    /\ Fires("router_retry")
    /\ svc' = IF Popped.router.ia THEN service_resolve_router(Popped) ELSE Popped
    /\ UNCHANGED <<world, acked>>

-----------------------------------------------------------------------------
(* Actions: packets and ARP results                                        *)

Receive(p) ==
    /\ ~asleep /\ net # NoNet
    /\ \/ svc.recv = "init" /\ p.type = "offer" /\ svc' = dhcp_init_data(svc, p)
       \/ svc.recv = "select" /\ p.type # "offer" /\ svc' = dhcp_select_data(svc, p)
       \/ svc.recv = "init_reboot" /\ p.type # "offer"
             /\ svc' = dhcp_init_reboot_data(svc, p)
       \/ svc.recv = "renew" /\ p.type # "offer" /\ svc' = dhcp_renew_data(svc, p)
    /\ acked' = IF p.type = "ack" THEN acked \cup {<<net, p.ip>>} ELSE acked
    /\ UNCHANGED world

\* The result of an ARP request; silence is known when its time is over
ArpResult(ops, result) ==
    /\ ~asleep /\ svc.arp.op \in ops
    /\ result = "not_in_use" => svc.arp.left = 0
    /\ result = "in_use" => net # NoNet
ArpDone == [svc EXCEPT !.arp = NoArp]

ArpBound(result) ==
    /\ ArpResult({"probe", "announce"}, result)
    /\ svc' = dhcp_bound_arp(ArpDone, result)
    /\ UNCHANGED <<world, acked>>
ArpResolve(result) ==
    /\ ArpResult({"resolve"}, result)
    /\ svc' = dhcp_resolve_router_callback(ArpDone, result)
    /\ UNCHANGED <<world, acked>>
ArpRouter(result) ==
    /\ ArpResult({"router"}, result)
    /\ \/ result # "in_use" /\ svc' = dhcp_arp_router_result(ArpDone, {})
       \/ /\ result = "in_use"
          /\ \E x \in svc.arp.info :
               x.hw = net /\ svc' = dhcp_arp_router_result(ArpDone, {x})
    /\ UNCHANGED <<world, acked>>
ArpCheck(result) ==
    LET d == [ArpDone EXCEPT !.busy = FALSE] IN
    /\ ArpResult({"check"}, result)
    /\ \/ result # "in_use" /\ svc' = dhcp_check_link(d, FALSE)
       \/ /\ result = "in_use" /\ \E x \in svc.arp.info : x.hw = net
          /\ svc' = ResumeRenewal(d, 1)
    /\ UNCHANGED <<world, acked>>

\* IFEventID_arp_collision_e that was not defended
ArpCollision ==
    /\ ~asleep /\ svc.collisions /\ svc.active = svc.saved.ip /\ svc.active # NoAddr
    /\ svc' = dhcp_decline(service_publish_failure(dhcp_lease_clear(svc, FALSE)))
    /\ UNCHANGED <<world, acked>>

-----------------------------------------------------------------------------
(* Actions: dhcp_thread                                                    *)

Running == svc.state # "stopped" /\ ~asleep

\* link_key_changed, config_method_media and IFEventID_link_status_changed_e
LinkChanged ==
    LET d == service_router_clear_arp_verified([svc EXCEPT !.known = net])
        moved == Wireless /\ Link(d)
    IN
    /\ Running /\ svc.known # net
    /\ svc' = dhcp_check_link(IF moved THEN service_publish_failure(
                                              service_remove_address(d)) ELSE d, FALSE)
    /\ linkTimer' = ~Link(d)
    /\ UNCHANGED <<net, asleep, now, acked>>

LinkTimerExpired ==
    /\ Running /\ linkTimer
    /\ svc' = dhcp_inactive(svc) /\ linkTimer' = FALSE
    /\ UNCHANGED <<net, asleep, now, acked>>

\* config_method_renew and IFEventID_renew_e
Renew ==
    /\ Running
    /\ svc' = dhcp_check_link(service_router_clear_arp_verified(svc), TRUE)
    /\ UNCHANGED <<world, acked>>

\* IFEventID_sleep_e, IFEventID_power_off_e
Sleep ==
    /\ Running
    /\ asleep' = TRUE
    /\ svc' = IF svc.lease.valid THEN dhcp_lease_save(svc, TRUE) ELSE svc
    /\ UNCHANGED <<net, linkTimer, now, acked>>

IsBound(d) == d.state \in {"bound", "renew", "rebind"}

\* service_populate_router_arpinfo and dhcp_check_router
CheckRouter(d) == IF d.router.ia THEN dhcp_check_router(d)
                  ELSE service_router_clear_arp_verified(d)

\* IFEventID_wake_e on the network the client knew
WakeOnSameNetwork(d, roamed) ==
    LET c == dhcp_check_lease(d)
    IN  CASE ~c.lease.valid -> dhcp_init(c)
          [] c.lease.valid /\ (~IsBound(c) \/ ~c.published \/ c.rto)
                -> dhcp_init_reboot(c)
          [] c.lease.valid /\ IsBound(c) /\ c.published /\ ~c.rto ->
                IF roamed /\ c.router.ia THEN dhcp_check_router(c)
                ELSE ResumeRenewal(IF roamed THEN CheckRouter(c) ELSE c, WakeSkew)

\* Mutant: a wake on another SSID is taken for one on the same network
Wake_IgnoresSSID(same, roamed) ==
    LET d == [svc EXCEPT !.known = net]
    IN
    /\ asleep /\ svc.state # "stopped" /\ asleep' = FALSE
    /\ linkTimer' = IF net = svc.known THEN linkTimer ELSE ~Link(d)
    /\ svc' = WakeOnSameNetwork(d, roamed)
    /\ UNCHANGED <<net, now, acked>>
\* S_ifstate_process_wake and IFEventID_wake_e, with the link event that
\* comes with them when the link went down or up.  "same" is the driver's
\* wake_on_same_network.
Wake(same, roamed) ==
    LET d == [svc EXCEPT !.known = net]
        moved == \/ ~Link(d)
                 \/ IF Wireless THEN net # svc.known ELSE ~same
        woken == CASE same /\ ~Link(d) -> svc
                   [] ~(same /\ ~Link(d)) /\ moved ->
                         dhcp_check_link(service_publish_failure(
                                            service_remove_address(d)), FALSE)
                   [] OTHER -> WakeOnSameNetwork(d, roamed)
    IN
    /\ asleep /\ svc.state # "stopped"
    /\ same => net = svc.known
    /\ roamed => Wireless /\ ~moved
    /\ asleep' = FALSE
    /\ linkTimer' = IF net = svc.known THEN linkTimer ELSE ~Link(d)
    /\ svc' = IF Link(svc) = Link(d) THEN woken
              ELSE service_router_clear_arp_verified(woken)
    /\ UNCHANGED <<net, now, acked>>

\* config_method_bssid_changed and IFEventID_bssid_changed_e
BssidChanged ==
    /\ Running /\ Wireless /\ Link(svc)
    /\ svc' = IF IsBound(svc) /\ svc.published THEN CheckRouter(svc)
              ELSE service_router_clear_arp_verified(svc)
    /\ UNCHANGED <<world, acked>>

\* IFEventID_forget_ssid_e
ForgetSSID(n) ==
    LET d == [svc EXCEPT !.list = Select(@, {e \in Range(@) : e.net # n})]
        r == service_publish_failure(service_remove_address(dhcp_release(d)))
    IN
    /\ Running /\ Wireless
    /\ svc' = IF d.lease.net # n THEN d
              ELSE Arm([r EXCEPT !.saved.opts = FALSE, !.lease.net = NoNet,
                                 !.busy = FALSE], "check_link", 1)
    /\ UNCHANGED <<world, acked>>

\* IFEventID_start_e
Start ==
    /\ svc.state = "stopped" /\ ~asleep
    /\ svc' = Arm(recover_lease([Stopped(svc.file, net) EXCEPT !.state = "inactive"]),
                  "delayed_start", 0)
    /\ linkTimer' = (linkTimer /\ net = NoNet)
    /\ UNCHANGED <<net, asleep, now, acked>>

\* IFEventID_stop_e
Stop ==
    /\ Running
    /\ svc' = Stopped(dhcp_release(svc).file, svc.known)
    /\ UNCHANGED <<world, acked>>

-----------------------------------------------------------------------------
(* Actions: the machine, the network and the clock                         *)

\* The machine loses power and restarts
Reboot ==
    /\ svc' = Stopped(svc.file, net)
    /\ asleep' = FALSE /\ linkTimer' = FALSE
    /\ UNCHANGED <<net, now, acked>>

\* A cable is pulled before it is plugged in elsewhere
Move(n) ==
    /\ n # net
    /\ Wireless \/ asleep \/ net = NoNet \/ n = NoNet
    /\ net' = n
    /\ UNCHANGED <<svc, linkTimer, asleep, now, acked>>

\* Timers and ARP requests do not run while the machine sleeps; otherwise a
\* callback that is due comes first
Tick ==
    /\ now < MaxTime
    /\ now' = now + 1
    /\ \/ asleep /\ UNCHANGED svc
       \/ /\ ~asleep /\ ~linkTimer
          /\ svc.state # "stopped" => svc.known = net
          /\ svc.timer.fn # "none" => svc.timer.left > 0
          /\ svc.arp.op # "none" => svc.arp.left > 0
          /\ svc' = [svc EXCEPT
                       !.timer.left = IF svc.timer.fn = "none" THEN 0 ELSE @ - 1,
                       !.arp.left = IF svc.arp.op = "none" THEN 0 ELSE @ - 1]
    /\ UNCHANGED <<net, linkTimer, asleep, acked>>

Init ==
    /\ net \in Net /\ svc = Stopped(NoFile, net)
    /\ linkTimer = FALSE /\ asleep = FALSE /\ now = 0 /\ acked = {} /\ events = 0

\* What the client does by itself, and what it meets
Quiet ==
    \/ TimerCheckLink \/ TimerInitStart \/ TimerInit \/ TimerInitReboot
    \/ TimerSelect \/ TimerRenewStart \/ TimerRenew \/ TimerRouterRetry
    \/ \E p \in Replies : Receive(p)
    \/ \E r \in {"in_use", "not_in_use"} :
          ArpBound(r) \/ ArpResolve(r) \/ ArpRouter(r) \/ ArpCheck(r)
    \/ LinkChanged \/ LinkTimerExpired \/ Start \/ Tick
    \/ \E same, roamed \in BOOLEAN : Wake(same, roamed)
Disturbance ==
    \/ ArpBound("error") \/ ArpResolve("error")
    \/ ArpRouter("error") \/ ArpCheck("error")
    \/ ArpCollision \/ Renew \/ Sleep \/ BssidChanged \/ Stop \/ Reboot
    \/ \E n \in Net : ForgetSSID(n)
    \/ \E n \in Net \cup {NoNet} : Move(n)

Next ==
    \/ Quiet /\ UNCHANGED events
    \/ events < MaxEvents /\ Disturbance /\ events' = events + 1

Spec == Init /\ [][Next]_vars

-----------------------------------------------------------------------------
(* Properties                                                              *)

NetOrNone == Net \cup {NoNet}
Entry == [ip : Addr, ia : BOOLEAN, hw : NetOrNone, start : Nat, len : Nat,
          net : NetOrNone, rtr : BOOLEAN, src : Net, nak : BOOLEAN,
          tentative : BOOLEAN]
Timers == {"none", "delayed_start", "wait", "check_link", "init_start", "init",
           "init_reboot", "select", "renew_start", "renew_timeout", "router_retry"}
Timer == [fn : Timers, left : Nat]
ArpRequest == [op : {"none", "probe", "announce", "resolve", "router", "check"},
               info : SUBSET [ip : Addr, hw : NetOrNone], left : Nat]
Lease == [valid : BOOLEAN, net : NetOrNone, start : Nat, len : Nat]
Saved == [ip : Addr \cup {NoAddr}, rating : 0..MaxRating, rtr : BOOLEAN,
          opts : BOOLEAN, src : NetOrNone]
Router == [ia : BOOLEAN, hw : BOOLEAN, verified : BOOLEAN, mac : NetOrNone]
Service ==
    [known : NetOrNone,
     state : {"stopped", "inactive", "init", "select", "init_reboot", "bound",
              "renew", "rebind", "decline", "unbound"},
     timer : Timer,
     recv : {"none", "init", "select", "init_reboot", "renew"},
     arp : ArpRequest, lease : Lease, saved : Saved,
     rrt : Nat, try : Nat, gathering : BOOLEAN, got_nak : BOOLEAN, rto : BOOLEAN,
     needs_write : BOOLEAN, collisions : BOOLEAN, busy : BOOLEAN,
     router : Router, active : Addr \cup {NoAddr}, published : BOOLEAN,
     list : Seq(Entry), file : {NoFile} \cup Entry]

(* Every field has its type.  In particular what _dhcp_lease_save puts     *)
(* into the list and the file is a lease with an address and a server.     *)
TypeOK ==
    /\ svc \in Service
    /\ net \in NetOrNone /\ linkTimer \in BOOLEAN /\ asleep \in BOOLEAN
    /\ now \in 0..MaxTime /\ events \in 0..MaxEvents
    /\ acked \subseteq Net \X Addr

\* The link is up and no ARP request is under way
Settled == Running /\ Link(svc) /\ svc.arp = NoArp
Finite == svc.lease.len # Infinite

(* A client in BOUND leaves it for RENEW at T1 (dhcp_bound sets the timer, *)
(* the wake event and the router check set it again): no second passes in  *)
(* BOUND after T1.  This needs the router's MAC address to be resolved at  *)
(* the first attempt, for dhcp_resolve_router_callback takes the timer.    *)
RenewsOnceRouterKnown ==
    [][/\ now' > now /\ Settled /\ svc.state = "bound" /\ svc.published
       /\ Finite /\ ~svc.rto
       => now < T1(svc.lease)]_vars

(* The same without the exception: what dhcp_bound says of its timer.      *)
RenewsAtT1 ==
    [][/\ now' > now /\ Settled /\ svc.state = "bound" /\ svc.published /\ Finite
       => now < T1(svc.lease)]_vars

(* Whatever sleeps, link changes and lost replies came before, a client    *)
(* that holds its address in BOUND, RENEW or REBIND gives it up no later   *)
(* than RENEW_REBIND_MIN_WAIT_SECS after the lease has expired.            *)
StopsAtExpiry ==
    [][/\ now' > now /\ Running /\ IsBound(svc) /\ svc.active # NoAddr
       /\ Finite /\ ~svc.rto
       => now < Expiration(svc.lease) + MinWait]_vars

(* The busy flag holds up everyone who waits for the network: while it is  *)
(* set something is pending that will clear it.                            *)
BusyHasWork ==
    svc.busy /\ Running =>
        svc.timer.fn # "none" \/ svc.arp # NoArp \/ linkTimer

(* No order of events leaves a client that is on a link, and did not fail, *)
(* without a timer or an ARP request that will take it further; only an    *)
(* infinite lease needs none; and the busy flag, which holds up everyone   *)
(* who waits for the network, is cleared by something that is pending.     *)
NeverStalls ==
    /\ BusyHasWork
    /\ Settled /\ svc.known = net /\ svc.state # "inactive" /\ ~svc.rto =>
        svc.timer.fn # "none" \/ (svc.state = "bound" /\ ~Finite)

(* An address is on the interface only if a server of the network the      *)
(* saved packet came from acknowledged it: an OFFER alone, a lease saved   *)
(* at sleep or read back after a restart never suffices.                   *)
AddressAcknowledged ==
    svc.active # NoAddr => <<svc.saved.src, svc.active>> \in acked

(* On Wi-Fi, the address on the interface belongs to the SSID the client   *)
(* was last told of, through every change of network, roam and sleep.      *)
AddressOfThisNetwork ==
    Wireless /\ Running /\ svc.active # NoAddr => svc.known \in {svc.lease.net, NoNet}

(* On Wi-Fi, a client in BOUND, RENEW or REBIND that has taken its address *)
(* into use, and defends it, holds a lease of the SSID it was last told    *)
(* of, through every change of network, roam and sleep; before that it may *)
(* use an address that only the answer of a router confirmed.              *)
BoundToThisNetwork ==
    Wireless /\ Running /\ IsBound(svc) /\ svc.collisions /\ svc.active # NoAddr
        => svc.lease.net = svc.known

(* What is published is backed: an address on the interface, a lease that  *)
(* was not invalidated, and it is the address of the saved packet.  And    *)
(* what is saved at sleep and read back has the types of a lease.          *)
PublishedIsBacked ==
    /\ TypeOK
    /\ svc.published => svc.lease.valid /\ svc.active # NoAddr /\ svc.active = svc.saved.ip

(* The list never holds two leases for one router, nor two without one, so *)
(* that a router's ARP answer identifies one lease.                        *)
OneLeasePerRouter ==
    \A i, j \in DOMAIN svc.list : svc.list[i].hw = svc.list[j].hw => i = j
=============================================================================
