---------------------------- MODULE DHCPv6Client ----------------------------
(***************************************************************************)
(* The DHCPv6 client of the IPConfiguration agent (DHCPv6Client.c): one    *)
(* client on one interface, used by the router advertisement service (for  *)
(* information or an address) or by the prefix delegation service.         *)
(*                                                                         *)
(* Every event is handled to its end on one queue, so an event is one      *)
(* action and a handler is a function from client record to client record. *)
(* Time is relative: a timer and a lease count the ticks that are left or  *)
(* have passed.  Every retransmission takes one tick, an initial random    *)
(* delay less than one.  Transaction identifiers are never reused, so the  *)
(* client hears only answers to the exchange under way.                    *)
(***************************************************************************)
EXTENDS Integers

CONSTANTS
    IAAddr, NoIA,  \* addresses or delegated prefixes
    Net,           \* networks, told apart by their SSID
    Wireless,      \* if_is_wireless
    HostName,      \* there is a host name, and privacy does not withhold it
    T1, T2, Valid, \* ticks of a finite lease
    ReqMaxRC,      \* DHCPv6_REQ_MAX_RC
    DecMaxRC,      \* DHCPv6_DEC_MAX_RC
    ConfirmTicks,  \* DHCPv6_CNF_MAX_RD
    WakeSkew,      \* G_wake_skew_secs
    Answers,       \* the packets that servers send
    MaxEvents      \* bound on the disturbances

StatusCode == {"Success", "NoAddrsAvail", "NotOnLink", "Other"}
\* What a server sends: the assignment it offers, how long, how eagerly.
ServerPacket == [type : {"ADVERTISE", "REPLY"}, ia : IAAddr \cup {NoIA},
           inf : BOOLEAN, pref : {0, 1, 255}, code : StatusCode]

ASSUME DHCPv6Assumption ==
    /\ NoIA \notin IAAddr /\ Wireless \in BOOLEAN /\ HostName \in BOOLEAN
    /\ {T1, T2, Valid, ReqMaxRC, DecMaxRC, ConfirmTicks, WakeSkew} \subseteq Nat \ {0}
    /\ T1 < T2 /\ T2 < Valid /\ MaxEvents \in Nat
    /\ Answers \subseteq ServerPacket

Stateful == {"Address", "Prefix"}
Mode == {"None", "Stateless"} \cup Stateful
NoPacket == [type |-> "NONE", ia |-> NoIA, inf |-> FALSE, pref |-> 0, code |-> "Other"]
NoMsg == [type |-> "none", opts |-> {}]
NoTimer == [fn |-> "None", ev |-> "start", left |-> 0]
NoNet == "nowhere"
NoLease == [valid |-> FALSE, inf |-> FALSE, age |-> Valid, net |-> NoNet]

VARIABLES
    c,       \* struct DHCPv6Client
    user,    \* the service that owns it: "rtadv" or "pd"
    link,    \* the interface is active
    asleep,
    kevent,  \* an address event of the kernel is queued
    events   \* disturbances that may still come

v6vars == <<c, user, link, asleep, kevent, events>>

Dad == {"none", "tentative", "ready", "duplicated"}
Exchange == {"Inform", "Solicit", "Request", "RenewRebind", "Confirm", "Decline"}
CState == {"Inactive", "Inform", "InformComplete", "Solicit", "Request", "Bound",
           "Renew", "Rebind", "Confirm", "Decline", "Unbound", "Release"}

MsgType == {"none", "INFORMATION_REQUEST", "SOLICIT", "REQUEST", "RENEW", "REBIND",
            "CONFIRM", "DECLINE", "RELEASE"}
Option == {"CLIENTID", "SERVERID", "CLIENT_FQDN", "ORO", "IA", "assignment"}

\* What is kept of a server is one of its packets.
Message == [type : MsgType, opts : SUBSET Option]
V6Lease == [valid : BOOLEAN, inf : BOOLEAN, age : 0..Valid, net : Net \cup {NoNet}]
V6Timer == [fn : Exchange \cup {"None"}, ev : {"start", "timeout"}, left : Nat]
V6Client ==
    [mode : Mode, saved_mode : Mode, cs : CState, ip : IAAddr \cup {NoIA},
     pd : IAAddr \cup {NoIA}, sv : ServerPacket \cup {NoPacket}, lease : V6Lease, tm : V6Timer,
     rx : Exchange \cup {"None"}, try : Nat, waited : Nat, rrt : Nat, note : BOOLEAN,
     dad : Dad, net : Net, wire : Message]
V6TypeOK ==
    /\ c \in V6Client
    /\ user \in {"rtadv", "pd"}
    /\ link \in BOOLEAN /\ asleep \in BOOLEAN /\ kevent \in BOOLEAN /\ events \in Nat

-----------------------------------------------------------------------------
(* Pieces of the client.  dad is the kernel's view of its address.          *)

DHCPv6ClientClearLease(s) == [s EXCEPT !.lease = NoLease]
DHCPv6ClientClearPacket(s) ==
    [s EXCEPT !.lease = NoLease, !.sv = NoPacket, !.saved_mode = "None"]
DHCPv6ClientCancelPendingEvents(s) == [s EXCEPT !.rx = "None", !.tm = NoTimer]
DHCPv6ClientPostNotification(s) == [s EXCEPT !.note = TRUE]
DHCPv6ClientRemoveAddress(s) ==
    IF s.ip = NoIA THEN s ELSE [s EXCEPT !.ip = NoIA, !.dad = "none"]
DHCPv6ClientSetState(s, cs) == [s EXCEPT !.cs = cs]

\* An exchange starts over with a new transaction identifier.
Begin(s, f) == [s EXCEPT !.rx = f, !.try = 0, !.waited = 0, !.wire = NoMsg]
set_timer(s, f, ev, left) == [s EXCEPT !.tm = [fn |-> f, ev |-> ev, left |-> left]]
\* The next transmission, with the counter held at the largest value compared.
DHCPv6ClientNextRetransmit(s) ==
    [s EXCEPT !.try = IF @ > ReqMaxRC + DecMaxRC THEN @ ELSE @ + 1]
Again(s, f, left) == set_timer(DHCPv6ClientNextRetransmit(s), f, "timeout", left)

DHCPv6ClientInactive(s) ==
    DHCPv6ClientPostNotification(DHCPv6ClientRemoveAddress(
        DHCPv6ClientClearPacket(DHCPv6ClientCancelPendingEvents(s))))

DHCPv6ClientLeaseOnSameNetwork(s) == ~Wireless \/ s.lease.net = s.net
Expired(s) == ~s.lease.inf /\ s.lease.age >= Valid
\* The test clears what it finds expired.
\* Mutant: an assignment that was only offered counts.
LeaseNotExpired(s) == ~Expired(s)
DHCPv6ClientLeaseStillValid(s) == s.lease.valid /\ ~Expired(s)
Tested(s) == IF s.lease.valid /\ Expired(s) THEN DHCPv6ClientClearPacket(s) ELSE s
DHCPv6ClientSavedInfoValid(s) == s.saved_mode = s.mode

\* A packet without an assignment is kept in stateless mode only.
DHCPv6ClientSavePacket(s, p) ==
    LET k == [DHCPv6ClientClearPacket(s) EXCEPT !.sv = p, !.lease.net = s.net]
    IN  CASE s.mode \notin Stateful -> [k EXCEPT !.saved_mode = s.mode]
          [] s.mode \in Stateful /\ p.ia = NoIA -> k
          [] OTHER -> [k EXCEPT !.saved_mode = s.mode, !.lease.age = 0, !.lease.inf = p.inf]
-----------------------------------------------------------------------------
(* Messages: the type and the options that tell them apart.  Nothing is put  *)
(* on the wire when the client is not in a state to send.                    *)

fqdn_message_type_ok(t) == t \in {"SOLICIT", "REQUEST", "RENEW", "REBIND"}
oro_message_type_ok(t) == fqdn_message_type_ok(t) \/ t = "INFORMATION_REQUEST"
DHCPv6ClientAddFQDNOption(s, t) ==
    IF s.mode = "Address" /\ fqdn_message_type_ok(t) /\ HostName THEN {"CLIENT_FQDN"} ELSE {}
DHCPv6ClientAddOptionRequestOption(s, t) ==
    IF s.mode # "Prefix" /\ oro_message_type_ok(t) THEN {"ORO"} ELSE {}
DHCPv6ClientMakePacket(s, t) ==
    {"CLIENTID"} \cup DHCPv6ClientAddFQDNOption(s, t) \cup DHCPv6ClientAddOptionRequestOption(s, t)

\* IA_NA or IA_PD; a SOLICIT leaves it empty.
add_ia_na_option(is_solicit) == IF is_solicit THEN {"IA"} ELSE {"IA", "assignment"}
add_ia_pd_option(is_solicit) == add_ia_na_option(is_solicit)
AddIA(s, is_solicit) ==
    IF s.mode = "Address" THEN add_ia_na_option(is_solicit) ELSE add_ia_pd_option(is_solicit)

DHCPv6ClientSendInform(s) ==
    [s EXCEPT !.wire = [type |-> "INFORMATION_REQUEST",
                        opts |-> DHCPv6ClientMakePacket(s, "INFORMATION_REQUEST")]]
DHCPv6ClientSendSolicit(s) ==
    IF s.mode \notin Stateful THEN s
    ELSE [s EXCEPT !.wire = [type |-> "SOLICIT",
                             opts |-> DHCPv6ClientMakePacket(s, "SOLICIT") \cup AddIA(s, TRUE)]]

\* Everything else is about the assignment of the packet at hand.  A prefix
\* is confirmed with a REBIND.
DHCPv6ClientSendPacket(s) ==
    LET t == CASE s.cs = "Request" -> "REQUEST" [] s.cs = "Renew" -> "RENEW"
               [] s.cs = "Rebind" -> "REBIND"   [] s.cs = "Release" -> "RELEASE"
               [] s.cs = "Confirm" -> IF s.mode = "Prefix" THEN "REBIND" ELSE "CONFIRM"
               [] s.cs = "Decline" -> "DECLINE" [] OTHER -> "none"
    IN  IF s.mode \notin Stateful \/ ~DHCPv6ClientSavedInfoValid(s) \/ s.sv.ia = NoIA \/ t = "none"
        THEN s
        ELSE [s EXCEPT !.wire = [type |-> t, opts |->
                  DHCPv6ClientMakePacket(s, t) \cup AddIA(s, FALSE)
                    \cup (IF t \in {"REBIND", "CONFIRM"} THEN {} ELSE {"SERVERID"})]]
-----------------------------------------------------------------------------
(* The states: X_start enters one, X_timeout is its timer, X_data an answer. *)

DHCPv6Client_Solicit_start(s) ==
    set_timer(Begin(DHCPv6ClientClearPacket(DHCPv6ClientSetState(s, "Solicit")), "Solicit"),
                      "Solicit", "timeout", 0)

DHCPv6Client_Unbound(s) ==
    DHCPv6Client_Solicit_start(DHCPv6ClientPostNotification(DHCPv6ClientClearPacket(
        DHCPv6ClientRemoveAddress(DHCPv6ClientCancelPendingEvents(
            DHCPv6ClientSetState(s, "Unbound"))))))

DHCPv6Client_Decline_timeout(s) ==
    IF s.try >= DecMaxRC THEN DHCPv6Client_Solicit_start(s)
    ELSE DHCPv6ClientSendPacket(Again(s, "Decline", 1))
DHCPv6Client_Decline_start(s) ==
    DHCPv6Client_Decline_timeout(Begin(DHCPv6ClientPostNotification(DHCPv6ClientClearLease(
        DHCPv6ClientCancelPendingEvents(DHCPv6ClientRemoveAddress(
            DHCPv6ClientSetState(s, "Decline"))))), "Decline"))

\* Only a bound client looks at its address: a duplicate is declined.
DHCPv6ClientHandleAddressChanged(s) ==
    CASE s.cs # "Bound" \/ s.ip = NoIA \/ s.dad = "tentative" -> s
      [] s.cs = "Bound" /\ s.ip # NoIA /\ s.dad = "duplicated" -> DHCPv6Client_Decline_start(s)
      [] OTHER -> DHCPv6ClientPostNotification(s)

\* Mutant: no look at the address after it was assigned.
BoundAddressUnseen(s) ==
    DHCPv6ClientPostNotification(
        [s EXCEPT !.ip = s.sv.ia, !.dad = IF s.ip = s.sv.ia THEN @ ELSE "tentative"])
\* The kernel starts duplicate detection for an address that is new to it,
\* and leaves one that it already has as it is.
DHCPv6ClientBoundAddress(s) ==
    DHCPv6ClientHandleAddressChanged(DHCPv6ClientPostNotification(
        [s EXCEPT !.ip = s.sv.ia, !.dad = IF s.ip = s.sv.ia THEN @ ELSE "tentative"]))
DHCPv6ClientBoundPrefix(s) == DHCPv6ClientPostNotification([s EXCEPT !.pd = s.sv.ia])

\* When to renew, at once if T1 has passed.
RenewIn(s) == IF s.lease.valid /\ s.lease.age < T1 THEN T1 - s.lease.age ELSE 1

\* The timer is set from the lease as it was on entry, also when the address
\* turned out to be a duplicate and the state is Decline by now.
DHCPv6Client_Bound(s) ==
    LET b == DHCPv6ClientCancelPendingEvents([DHCPv6ClientSetState(s, "Bound")
                                                EXCEPT !.lease.valid = TRUE])
        w == IF s.mode = "Address" THEN DHCPv6ClientBoundAddress(b) ELSE DHCPv6ClientBoundPrefix(b)
        t == RenewIn(w)
    IN  IF Expired(b) THEN DHCPv6Client_Unbound(b)
        ELSE IF b.lease.inf THEN w
        ELSE [set_timer(w, "RenewRebind", "start", t) EXCEPT !.rrt = t]

DHCPv6Client_RenewRebind_timeout(s) ==
    LET r == IF s.lease.age < T2 \/ s.cs = "Rebind" THEN s
             ELSE DHCPv6ClientSetState(Begin(s, "RenewRebind"), "Rebind")
    IN  IF ~DHCPv6ClientLeaseStillValid(s) THEN DHCPv6Client_Unbound(Tested(s))
        ELSE DHCPv6ClientSendPacket([Again(r, "RenewRebind", 1) EXCEPT !.rrt = 1])
DHCPv6Client_RenewRebind_start(s) ==
    DHCPv6Client_RenewRebind_timeout(Begin(DHCPv6ClientCancelPendingEvents(
        DHCPv6ClientSetState(s, "Renew")), "RenewRebind"))
DHCPv6Client_RenewRebind_data(s, p) ==
    CASE p.type # "REPLY" -> s
      [] p.type = "REPLY" /\ (p.code # "Success" \/ p.ia = NoIA) -> DHCPv6Client_Unbound(s)
      [] OTHER -> DHCPv6Client_Bound(DHCPv6ClientSavePacket(s, p))

DHCPv6Client_Confirm_start(s) ==
    set_timer(Begin(DHCPv6ClientCancelPendingEvents(DHCPv6ClientSetState(s, "Confirm")),
                            "Confirm"), "Confirm", "timeout", 0)
DHCPv6Client_Confirm_timeout(s) ==
    CASE s.try > 0 /\ ~link -> DHCPv6ClientInactive(s)
      [] s.try > 0 /\ link /\ s.waited >= ConfirmTicks ->
            IF DHCPv6ClientLeaseStillValid(s) THEN DHCPv6Client_Bound(s)
            ELSE DHCPv6Client_Solicit_start(Tested(s))
      [] OTHER -> DHCPv6ClientSendPacket(Again(s, "Confirm", 1))
DHCPv6Client_Confirm_data(s, p) ==
    CASE p.type # "REPLY" -> s
      [] p.type = "REPLY" /\ p.code # "Success" -> DHCPv6Client_Unbound(s)
      [] OTHER -> DHCPv6Client_Bound(IF s.mode = "Prefix" /\ p.ia # NoIA
                                       THEN DHCPv6ClientSavePacket(s, p) ELSE s)

\* Mutants: the request is given up for good; the request is never given up.
RequestGivesUp(s) ==
    IF s.try >= ReqMaxRC THEN DHCPv6ClientInactive(s)
    ELSE DHCPv6ClientSendPacket(Again(s, "Request", 1))
RequestForever(s) == DHCPv6ClientSendPacket(Again(s, "Request", 1))
DHCPv6Client_Request_timeout(s) ==
    IF s.try >= ReqMaxRC THEN DHCPv6Client_Solicit_start(s)
    ELSE DHCPv6ClientSendPacket(Again(s, "Request", 1))
DHCPv6Client_Request_start(s) ==
    DHCPv6Client_Request_timeout(Begin(DHCPv6ClientSetState(s, "Request"), "Request"))
DHCPv6Client_Request_data(s, p) ==
    CASE p.type # "REPLY" \/ p.code = "NoAddrsAvail" -> s
      [] p.type = "REPLY" /\ p.code = "NotOnLink" ->
            DHCPv6Client_Solicit_start(DHCPv6ClientRemoveAddress(s))
      [] p.type = "REPLY" /\ p.code \in {"Success", "Other"} /\ p.ia = NoIA -> s
      [] OTHER -> DHCPv6Client_Bound(DHCPv6ClientSavePacket(s, p))

DHCPv6Client_Solicit_timeout(s) ==
    CASE s.try > 0 /\ ~link -> DHCPv6ClientInactive(s)
      [] ~(s.try > 0 /\ ~link) /\ s.sv # NoPacket -> DHCPv6Client_Request_start(s)
      [] OTHER -> DHCPv6ClientSendSolicit(Again(s, "Solicit", 1))
\* The best ADVERTISE so far is kept; a later one ends the wait.
DHCPv6Client_Solicit_data(s, p) ==
    LET k == DHCPv6ClientSavePacket(s, p)
    IN  IF \/ p.type # "ADVERTISE" \/ p.code = "NoAddrsAvail"
           \/ s.mode \notin Stateful \/ p.ia = NoIA
           \/ s.sv # NoPacket /\ s.sv.pref >= p.pref
        THEN s
        ELSE IF s.try > 1 \/ p.pref = 255 THEN DHCPv6Client_Request_start(k) ELSE k

DHCPv6Client_Inform_start(s) ==
    set_timer(Begin(DHCPv6ClientClearPacket(DHCPv6ClientSetState(s, "Inform")), "Inform"),
                      "Inform", "timeout", 0)
DHCPv6Client_Inform_timeout(s) ==
    IF s.try > 0 /\ ~link THEN DHCPv6ClientInactive(s)
    ELSE DHCPv6ClientSendInform(Again(s, "Inform", 1))
DHCPv6Client_InformComplete(s) ==
    DHCPv6ClientCancelPendingEvents(DHCPv6ClientSetState(s, "InformComplete"))
DHCPv6Client_Inform_data(s, p) ==
    IF p.type # "REPLY" THEN s
    ELSE DHCPv6Client_InformComplete(DHCPv6ClientPostNotification(DHCPv6ClientSavePacket(s, p)))

-----------------------------------------------------------------------------
(* What the owner of the client calls.                                      *)

\* Mutant: the address stays on the interface.
StopKeepsAddress(s) ==
    DHCPv6ClientPostNotification([DHCPv6ClientCancelPendingEvents(s)
        EXCEPT !.pd = NoIA, !.cs = "Inactive", !.mode = "None"])
DHCPv6ClientStop(s) ==
    DHCPv6ClientPostNotification([DHCPv6ClientCancelPendingEvents(DHCPv6ClientRemoveAddress(s))
        EXCEPT !.pd = NoIA, !.cs = "Inactive", !.mode = "None"])

DHCPv6ClientStartInternal(s) ==
    CASE s.mode = "None" -> s
      [] s.mode = "Stateless" -> DHCPv6Client_Inform_start(s)
      [] s.mode \in Stateful ->
            IF /\ DHCPv6ClientSavedInfoValid(s) /\ DHCPv6ClientLeaseStillValid(s)
               /\ DHCPv6ClientLeaseOnSameNetwork(s)
            THEN DHCPv6Client_Confirm_start(s)
            ELSE DHCPv6Client_Solicit_start(IF DHCPv6ClientSavedInfoValid(s) THEN Tested(s) ELSE s)

\* The mode is changed only from None.
DHCPv6ClientSetMode(s, m) == IF s.mode = "None" THEN [s EXCEPT !.mode = m] ELSE s
DHCPv6ClientDiscardInformation(s) ==
    IF s.mode = "None" THEN DHCPv6ClientClearPacket(s) ELSE s

\* Mutant: a bound client confirms its address, whatever became of the lease.
RoamAlwaysConfirms(s) ==
    IF s.cs \in {"Bound", "Renew", "Rebind"} THEN DHCPv6Client_Confirm_start(Tested(s)) ELSE Tested(s)
DHCPv6ClientHandleRoam(s) ==
    IF DHCPv6ClientLeaseStillValid(s) /\ s.cs \in {"Bound", "Renew", "Rebind"}
      THEN DHCPv6Client_Confirm_start(s) ELSE Tested(s)

\* IFEventID_renew_e and IFEventID_link_status_changed_e, as each user of the
\* client passes them on.
HandleLinkStatusRenew(s, up) ==
    LET p == IF user = "pd" THEN DHCPv6ClientSetMode(s, "Prefix") ELSE s
    IN  IF up /\ (user = "pd" \/ s.mode = "Address") THEN DHCPv6ClientStartInternal(p) ELSE p

\* changed: the interface woke up on another network, or cannot tell.
DHCPv6ClientHandleWake(s, up, changed, roamed) ==
    LET r == DHCPv6ClientRemoveAddress(s)
    IN  CASE ~up -> r
          [] up /\ changed -> IF s.cs = "Solicit" THEN r ELSE DHCPv6Client_Solicit_start(r)
          [] up /\ ~changed /\ ~DHCPv6ClientLeaseStillValid(s) ->
                IF s.cs = "Solicit" THEN Tested(s) ELSE DHCPv6Client_Unbound(Tested(s))
          [] OTHER ->
                IF s.cs \notin {"Bound", "Renew", "Rebind"} \/ roamed
                  THEN DHCPv6Client_Confirm_start(s)
                ELSE IF s.lease.inf THEN s
                ELSE IF s.rrt >= WakeSkew
                  THEN set_timer(s, "RenewRebind", "start", s.rrt)
                ELSE DHCPv6Client_RenewRebind_start(s)

-----------------------------------------------------------------------------
(* Events.                                                                   *)

NewClient(m, n) ==
    [mode |-> m, saved_mode |-> "None", cs |-> "Inactive", ip |-> NoIA, pd |-> NoIA,
     sv |-> NoPacket, lease |-> NoLease, tm |-> NoTimer, rx |-> "None", try |-> 0,
     waited |-> 0, rrt |-> 0, note |-> FALSE, dad |-> "none", net |-> n, wire |-> NoMsg]

\* A prefix delegation client starts at once if the link is active.
dhcpv6_pd_start(n, up) ==
    IF up THEN DHCPv6ClientStartInternal(NewClient("Prefix", n)) ELSE NewClient("Prefix", n)

V6Init ==
    /\ user \in {"rtadv", "pd"} /\ link \in BOOLEAN
    /\ asleep = FALSE /\ kevent = FALSE /\ events = MaxEvents
    /\ \E n \in Net :
         c = IF user = "rtadv" THEN NewClient("None", n) ELSE dhcpv6_pd_start(n, link)

Disturb == events > 0 /\ events' = events - 1
\* The notification is on the queue before any later timer or packet.
Ready == ~asleep /\ ~c.note

\* rtadv_acquired: the flags of a router advertisement start, change or stop
\* the client.  A client that is not receiving counts as stopped already.
RouterSays(m) ==
    /\ Ready /\ user = "rtadv" /\ link /\ Disturb
    /\ c' = IF m # "None"
             THEN IF c.mode = m THEN c
                  ELSE DHCPv6ClientStartInternal(DHCPv6ClientSetMode(DHCPv6ClientStop(c), m))
             ELSE IF c.rx # "None" THEN DHCPv6ClientStop(c) ELSE c
    /\ UNCHANGED <<user, link, asleep, kevent>>

\* An event of the link on the network of before, or a request to renew.
DHCPv6ClientHandleLinkStatusRenew(up) ==
    /\ ~asleep /\ Disturb
    /\ link' = up
    /\ c' = HandleLinkStatusRenew(c, up)
    /\ UNCHANGED <<user, asleep, kevent>>

\* The same on another network: rtadv_flush stops the client and discards
\* what it knows; prefix delegation starts over.
NetworkChanged(n) ==
    /\ ~asleep /\ Disturb /\ n # c.net /\ Wireless
    /\ link' = TRUE
    /\ LET s == [c EXCEPT !.net = n]
       IN  c' = IF user = "rtadv" THEN DHCPv6ClientDiscardInformation(DHCPv6ClientStop(s))
                ELSE DHCPv6ClientStartInternal(DHCPv6ClientSetMode(s, "Prefix"))
    /\ UNCHANGED <<user, asleep, kevent>>

LinkTimerExpired ==
    /\ ~asleep /\ ~link /\ Disturb
    /\ c' = DHCPv6ClientStop(c)
    /\ UNCHANGED <<user, link, asleep, kevent>>

\* The service stops: a lease that is still good is released, best effort,
\* and the client is freed; the next start creates another.
DHCPv6Client_Release(s) ==
    DHCPv6ClientSendPacket(Begin(DHCPv6ClientCancelPendingEvents(DHCPv6ClientRemoveAddress(
        DHCPv6ClientSetState(s, "Release"))), "None"))
DHCPv6ClientSendRelease(s) ==
    IF link /\ DHCPv6ClientLeaseStillValid(s) THEN DHCPv6Client_Release(s) ELSE s
DHCPv6ClientRelease ==
    /\ ~asleep /\ Disturb
    /\ LET r == IF c.mode \in Stateful THEN DHCPv6ClientSendRelease(c) ELSE c
           m == IF r.wire.type = "RELEASE" THEN r.wire ELSE NoMsg
       IN  c' = IF user = "rtadv" THEN [NewClient("None", c.net) EXCEPT !.wire = m]
                ELSE [dhcpv6_pd_start(c.net, link) EXCEPT !.wire = m]
    /\ UNCHANGED <<user, link, asleep, kevent>>

Roam ==
    /\ ~asleep /\ link /\ Disturb
    /\ c' = IF user = "pd" \/ c.mode = "Address" THEN DHCPv6ClientHandleRoam(c) ELSE c
    /\ UNCHANGED <<user, link, asleep, kevent>>

Sleep ==
    /\ ~asleep /\ Disturb /\ asleep' = TRUE
    /\ UNCHANGED <<c, user, link, kevent>>

\* The interface tells whether it woke up on the same network.  An inactive
\* one that did says no more; the service of router advertisements flushes
\* the client itself when the network changed, and asks a stateful one only.
WakeEvent(s, up, n, same, roamed) ==
    LET t == [s EXCEPT !.net = n]
        changed == IF Wireless THEN n # s.net ELSE ~same
    IN  CASE ~up /\ same -> s
          [] ~(~up /\ same) /\ user = "rtadv" /\ up /\ n # s.net ->
                DHCPv6ClientDiscardInformation(DHCPv6ClientStop(t))
          [] OTHER -> IF user = "pd" \/ s.mode = "Address"
                        THEN DHCPv6ClientHandleWake(t, up, changed, roamed) ELSE t

\* The first event of the link after the wake stands for the wake, and is
\* passed on as an event of the link unless the network is the same.
Wake(up, n, same, roamed, both) ==
    /\ asleep /\ asleep' = FALSE
    /\ link' = up
    /\ n # c.net => Wireless /\ ~same
    /\ up # link /\ ~same => both
    /\ LET w == WakeEvent(c, up, n, same, roamed)
       IN  c' = IF both THEN HandleLinkStatusRenew(w, up) ELSE w
    /\ UNCHANGED <<user, kevent, events>>

\* Duplicate detection ends, and the event is queued.
DadDone(res) ==
    /\ c.dad = "tentative" /\ c.ip # NoIA
    /\ c' = [c EXCEPT !.dad = res] /\ kevent' = TRUE
    /\ UNCHANGED <<user, link, asleep, events>>

AddressChanged ==
    /\ Ready /\ kevent /\ kevent' = FALSE
    /\ c' = IF c.mode = "Address" THEN DHCPv6ClientHandleAddressChanged(c) ELSE c
    /\ UNCHANGED <<user, link, asleep, events>>

Timeout ==
    /\ Ready /\ c.tm.fn # "None" /\ c.tm.left = 0
    /\ LET s == [c EXCEPT !.tm = NoTimer]
       IN  c' = CASE c.tm.fn = "Inform" -> DHCPv6Client_Inform_timeout(s)
                  [] c.tm.fn = "Solicit" -> DHCPv6Client_Solicit_timeout(s)
                  [] c.tm.fn = "Request" -> DHCPv6Client_Request_timeout(s)
                  [] c.tm.fn = "Decline" -> DHCPv6Client_Decline_timeout(s)
                  [] c.tm.fn = "Confirm" -> DHCPv6Client_Confirm_timeout(s)
                  [] OTHER -> IF c.tm.ev = "start" THEN DHCPv6Client_RenewRebind_start(s)
                              ELSE DHCPv6Client_RenewRebind_timeout(s)
    /\ UNCHANGED <<user, link, asleep, kevent, events>>

\* DHCPv6SocketDemux gives an answer to the function that waits for it.
DHCPv6SocketDemux(p) ==
    /\ Ready /\ link /\ c.try > 0 /\ c.rx # "None"
    /\ c' = CASE c.rx = "Inform" -> DHCPv6Client_Inform_data(c, p)
              [] c.rx = "Solicit" -> DHCPv6Client_Solicit_data(c, p)
              [] c.rx = "Request" -> DHCPv6Client_Request_data(c, p)
              [] c.rx = "Confirm" -> DHCPv6Client_Confirm_data(c, p)
              [] c.rx = "RenewRebind" -> DHCPv6Client_RenewRebind_data(c, p)
              [] OTHER -> IF p.type = "REPLY" THEN DHCPv6Client_Solicit_start(c) ELSE c
    /\ UNCHANGED <<user, link, asleep, kevent, events>>

DHCPv6ClientDeliverNotification ==
    /\ ~asleep /\ c.note
    /\ c' = [c EXCEPT !.note = FALSE]
    /\ UNCHANGED <<user, link, asleep, kevent, events>>

Less(n) == IF n = 0 THEN 0 ELSE n - 1
\* Time passes: never past a timer that is due, except while asleep.
Tick ==
    /\ asleep \/ c.tm.fn = "None" \/ c.tm.left > 0
    /\ c' = [c EXCEPT !.tm.left = Less(@), !.rrt = Less(@),
                      !.waited = IF @ < ConfirmTicks /\ c.cs = "Confirm" THEN @ + 1 ELSE @,
                      !.lease.age = IF @ < Valid THEN @ + 1 ELSE @]
    /\ UNCHANGED <<user, link, asleep, kevent, events>>

V6Next ==
    \/ \E m \in {"None", "Stateless", "Address"} : RouterSays(m)
    \/ \E up \in BOOLEAN : DHCPv6ClientHandleLinkStatusRenew(up)
    \/ \E n \in Net : NetworkChanged(n)
    \/ LinkTimerExpired \/ DHCPv6ClientRelease \/ Roam \/ Sleep
    \/ \E up, same, roamed, both \in BOOLEAN, n \in Net : Wake(up, n, same, roamed, both)
    \/ \E res \in {"ready", "duplicated"} : DadDone(res)
    \/ AddressChanged \/ Timeout \/ DHCPv6ClientDeliverNotification \/ Tick
    \/ \E p \in Answers : DHCPv6SocketDemux(p)

\* Timers fire, queued events are handled, the clock goes on and the machine
\* wakes up; no answer of a server is ever assumed.
V6Fairness ==
    /\ WF_v6vars(Timeout) /\ WF_v6vars(AddressChanged) /\ WF_v6vars(Tick)
    /\ WF_v6vars(DHCPv6ClientDeliverNotification)
    /\ WF_v6vars(\E up, same, roamed, both \in BOOLEAN, n \in Net : Wake(up, n, same, roamed, both))

V6Spec == V6Init /\ [][V6Next]_v6vars /\ V6Fairness

-----------------------------------------------------------------------------

\* A stateful client on an active link always has a timer to carry it on,
\* unless it holds a lease forever, or it gave up soliciting on an inactive
\* link and then slept: DHCPv6ClientHandleWake takes it to be soliciting still.
StatefulNeverStalls ==
    link /\ ~asleep /\ c.mode \in Stateful =>
        \/ c.tm.fn # "None"
        \/ c.cs = "Bound" /\ c.lease.inf
        \/ c.cs = "Solicit" /\ c.rx = "None"

\* Only a REPLY grants: wake, roam, restart and confirmation never turn an
\* ADVERTISE, or nothing at all, into a lease, and a bound client uses the
\* address of its lease.
GrantedByReply ==
    /\ V6TypeOK
    /\ c.lease.valid =>
        /\ c.sv.type = "REPLY" /\ c.sv.ia # NoIA /\ c.saved_mode \in Stateful
        /\ c.ip # NoIA => c.ip = c.sv.ia

\* A client never stays bound to an address that is a duplicate: whatever
\* state it was in when duplicate detection ended, it declines the address as
\* soon as it is bound and has seen the event.
DuplicateDeclined ==
    c.cs = "Bound" /\ c.mode = "Address" /\ c.dad = "duplicated" => kevent

\* The client of the router advertisement service never waits for the answer
\* to a message it did not send: what it keeps of the packets is enough for
\* every exchange it starts, whatever was cleared on the way.  The exception
\* is the DECLINE of a lease that had expired and that a roam cleared.
NeverSilent ==
    user = "rtadv" /\ c.rx # "None" /\ c.try > 0 =>
        \/ /\ c.wire.type # "none"
           /\ c.rx \notin {"Inform", "Solicit"} => "assignment" \in c.wire.opts
        \/ c.rx = "Decline" /\ c.sv = NoPacket

\* Confirm, Request and Decline come to an end without any answer, also when
\* the link goes down or the machine sleeps in the middle of the exchange.
ExchangesEnd ==
    \A f \in {"Confirm", "Request", "Decline"} : (c.rx = f) ~> (c.rx # f)

\* The client keeps what the router advertisement service relies on.
Abstract == INSTANCE DHCPv6Service WITH
    Addr <- IAAddr, NoAddr <- NoIA,
    mode <- IF user = "rtadv" THEN c.mode ELSE "None",
    active <- user = "rtadv" /\ c.rx # "None",
    info <- user = "rtadv" /\ c.sv # NoPacket /\ DHCPv6ClientSavedInfoValid(c) /\ c.mode # "None",
    ip <- IF user = "rtadv" THEN c.ip ELSE NoIA
ServesRouterAdvertisement == Abstract!Spec

=============================================================================
