--------------------------- MODULE InterfaceState ---------------------------
(***************************************************************************)
(* How the IPConfiguration agent follows one Wi-Fi interface (ipconfigd.c): *)
(* link and Wi-Fi changes reported by the dynamic store, sleep and wake,   *)
(* the inactive link timer, the IPv6 link-local address, and the events    *)
(* the services of the interface get from all this.                        *)
(*                                                                         *)
(* The store tells which keys changed, not how: a handler reads the state  *)
(* of the link, of Wi-Fi and of the kernel when it runs.  A handler is a   *)
(* function from f, the agent's state with the state of the kernel it      *)
(* drives, to f.                                                           *)
(***************************************************************************)
EXTENDS Naturals, FiniteSets

CONSTANTS
    AccessPoints,    \* where the interface may be: [net, bss]
    MaxCollisions    \* IPV6_LL_MAX_COLLISION_COUNT

NoNetwork == "no network"
None == [net |-> NoNetwork, bss |-> 0]

ASSUME InterfaceAssumption ==
    /\ IsFiniteSet(AccessPoints) /\ \A p \in AccessPoints : p.net # NoNetwork
    /\ MaxCollisions \in Nat

VARIABLES
    air,    \* the link as it is: active, whether the driver takes the last
            \* wake for one on the same network, and the last access point
    keys,   \* keys of the dynamic store whose change is on its way
    f       \* the agent's IFState, power state, and the kernel's IPv6 state

interfaceVars == <<air, keys, f>>

\* v4 and v6: services and services_v6 exist.  due: wake_generation is not
\* S_wake_generation.  told and lost are what the services were told last, the
\* network they are on and whether the link timer expired for them; wakes is
\* history, the wake events they got for this wake.
Start ==
    [active |-> FALSE, same |-> FALSE, wifi |-> None, timer |-> FALSE,
     suppressed |-> FALSE, due |-> FALSE, disabled |-> FALSE, collisions |-> 0, adverts |-> FALSE,
     awake |-> TRUE, maint |-> TRUE, sent |-> TRUE,
     v4 |-> FALSE, v6 |-> FALSE, attached |-> FALSE, ll |-> "none",
     told |-> NoNetwork, lost |-> TRUE, wakes |-> 0]

-----------------------------------------------------------------------------
(* Wi-Fi information.                                                        *)

WiFiInfoCopy == IF air.active THEN air.at ELSE None

WiFiInfoCompare(a, b) ==
    CASE a = None \/ b = None -> IF a = b THEN "unknown" ELSE "changed"
      [] OTHER -> IF a.net # b.net THEN "changed" ELSE IF a.bss # b.bss THEN "roamed" ELSE "same"

IFState_set_wifi_info(t, info) == [t EXCEPT !.wifi = info]

\* Mutant: another network is taken for a roam.
InfoMissesChange(t) == IF WiFiInfoCopy = None \/ WiFiInfoCopy = t.wifi THEN "none" ELSE "roamed"
\* What the event says of the network.
LinkInfo(t) ==
    IF WiFiInfoCopy = None THEN "none"
    ELSE LET r == WiFiInfoCompare(t.wifi, WiFiInfoCopy) IN IF r \in {"changed", "roamed"} THEN r ELSE "none"
\* No information is remembered as none only when the link is inactive.
IFState_update_link_event_data(t) ==
    IF WiFiInfoCopy # None \/ ~t.active THEN IFState_set_wifi_info(t, WiFiInfoCopy) ELSE t

-----------------------------------------------------------------------------
(* Events to the services.                                                   *)

Services(t) == t.v4 \/ t.v6
\* A service keeps to the network it knows unless the event says that it
\* changed or the link timer had expired.
Hear(t, info) ==
    IF Services(t) /\ t.active
      THEN [t EXCEPT !.told = IF info = "changed" \/ t.lost THEN t.wifi.net ELSE @, !.lost = FALSE]
    ELSE t
config_method_media(t, info) == Hear(t, info)
WakeEvent(t, info) == IF Services(t) THEN [Hear(t, info) EXCEPT !.wakes = @ + 1] ELSE t
LinkTimerEvent(t) == [t EXCEPT !.lost = TRUE]

-----------------------------------------------------------------------------
(* The IPv6 link-local address.                                              *)

inet6_linklocal_stop(t) == [t EXCEPT !.ll = "none"]
IFState_attach_IPv6(t) ==
    [t EXCEPT !.attached = TRUE, !.ll = IF t.active /\ @ = "none" THEN "tentative" ELSE @]
IFState_detach_IPv6(t) == IF t.v6 THEN t ELSE [t EXCEPT !.ll = "none", !.attached = FALSE]

process_link_timer_expired(t) ==
    IF t.v6 THEN inet6_linklocal_stop(LinkTimerEvent(t)) ELSE LinkTimerEvent(t)

\* A duplicated address is replaced, a bounded number of times per link event.
handle_ipv6_linklocal_duplicated(t) ==
    IF ~t.v6 \/ t.ll # "duplicated" \/ t.collisions = MaxCollisions THEN t
    ELSE IFState_attach_IPv6(inet6_linklocal_stop([t EXCEPT !.collisions = @ + 1]))

\* Addresses a sleep proxy answered for are announced as they become ready,
\* for a minute after the wake.
S_process_neighbor_adverts(t, stale) ==
    IF t.adverts /\ (stale \/ t.ll = "ready") THEN [t EXCEPT !.adverts = FALSE] ELSE t

-----------------------------------------------------------------------------
(* Sleep and wake.                                                           *)

\* Mutant: a wake that was handled is not remembered.
WakeUnremembered(t) ==
    IF ~t.active /\ t.same THEN t
    ELSE LET u == IF t.suppressed THEN process_link_timer_expired([t EXCEPT !.suppressed = FALSE]) ELSE t
         IN  WakeEvent(IFState_update_link_event_data(u), LinkInfo(u))
\* The first of the wake and of the link event after it is the wake.  An
\* inactive link that will be the same network is left for its link event.
S_ifstate_process_wake(t) ==
    IF ~t.active /\ t.same THEN t
    ELSE LET u == IF t.suppressed THEN process_link_timer_expired([t EXCEPT !.suppressed = FALSE]) ELSE t
             v == IFState_update_link_event_data([u EXCEPT !.due = FALSE])
             w == IF t.v6 /\ (t.suppressed \/ ~v.attached) THEN IFState_attach_IPv6(v) ELSE v
         IN  IF t.disabled THEN v ELSE WakeEvent([w EXCEPT !.adverts = t.v6], LinkInfo(u))

S_deliver_wake_event(t) == IF t.due THEN S_ifstate_process_wake(t) ELSE t

\* S_wake_generation moves on.
NewWake(t) == [t EXCEPT !.awake = TRUE, !.due = TRUE, !.wakes = 0]

\* new_power_changed: the CPU runs with or without the early notification, or
\* not at all.
new_power_changed(t, cpu, early) ==
    LET u == IF t.awake THEN t ELSE NewWake(t)
    IN  IF ~cpu THEN [t EXCEPT !.awake = FALSE, !.sent = FALSE, !.adverts = FALSE]
        ELSE IF early \/ t.sent THEN u
        ELSE [S_deliver_wake_event(u) EXCEPT !.sent = TRUE]
\* power_changed, without maintenance wakes.
power_changed(t, on) ==
    CASE on /\ ~t.awake -> S_deliver_wake_event(NewWake(t))
      [] ~on /\ t.awake -> [t EXCEPT !.awake = FALSE, !.adverts = FALSE]
      [] OTHER -> t

-----------------------------------------------------------------------------
(* Changes of keys.                                                          *)

if_link_copy(t) == [t EXCEPT !.active = air.active, !.same = air.same]

LinkTimer(t) ==
    [t EXCEPT !.timer = ~t.active /\ t.awake, !.suppressed = ~t.active /\ ~t.awake]
\* Both protocols are attached again; one that was gone, or a new link
\* address, makes the services start over.
Reattach(t, address) ==
    LET s == IF address /\ ~t.disabled THEN inet6_linklocal_stop(t) ELSE t
        u == IF t.v6 /\ ~t.disabled THEN IFState_attach_IPv6(s) ELSE s
    IN  IF address \/ (u.attached /\ ~t.attached) THEN LinkTimerEvent(u) ELSE u

link_key_changed(t, address) ==
    LET u == if_link_copy([t EXCEPT !.collisions = 0])
        woke == ~address /\ t.due
        v == IF woke THEN S_ifstate_process_wake(u) ELSE u
        w == Reattach(LinkTimer(IFState_update_link_event_data(v)), address)
    IN  IF woke /\ u.same THEN v ELSE config_method_media(w, LinkInfo(v))

\* Detaching: the services go at once.
Detaching(t) ==
    [t EXCEPT !.v4 = FALSE, !.v6 = FALSE, !.ll = "none", !.attached = FALSE, !.lost = TRUE, !.told = NoNetwork]

ap_key_changed(t) ==
    IF ~air.active \/ ~t.active \/ WiFiInfoCompare(t.wifi, WiFiInfoCopy) # "roamed" THEN t
    ELSE IFState_set_wifi_info(t, WiFiInfoCopy)

ipv6_interface_address_changed(t, stale) ==
    S_process_neighbor_adverts(handle_ipv6_linklocal_duplicated(t), stale)

-----------------------------------------------------------------------------

InterfaceInit ==
    /\ air \in [active : {TRUE}, same : {FALSE}, at : AccessPoints]
    /\ keys = {}
    /\ f \in {[Start EXCEPT !.maint = b] : b \in BOOLEAN}

\* IFState_service_add and IFState_init: the first service makes the state.
ServiceAdded(v6) ==
    LET t == IF Services(f) THEN f
             ELSE IFState_set_wifi_info(if_link_copy([f EXCEPT !.due = FALSE]), WiFiInfoCopy)
        u == [t EXCEPT !.v6 = @ \/ v6, !.v4 = @ \/ ~v6]
    IN  /\ ~(IF v6 THEN f.v6 ELSE f.v4)
        /\ f' = [(IF v6 /\ ~t.disabled THEN IFState_attach_IPv6(u) ELSE u)
                   EXCEPT !.told = IF Services(f) THEN @ ELSE t.wifi.net, !.lost = IF Services(f) THEN @ ELSE ~t.active]
        /\ UNCHANGED <<air, keys>>
RemoveServices(v6) ==
    /\ IF v6 THEN f.v6 ELSE f.v4
    /\ LET t == IFState_detach_IPv6([f EXCEPT !.v6 = @ /\ ~v6, !.v4 = @ /\ v6])
       IN  f' = IF Services(t) THEN t ELSE Detaching(t)
    /\ UNCHANGED <<air, keys>>

\* The link changes, roams or joins another network; at a wake the driver
\* says whether the network is the one of before the sleep.
LinkUp(at) ==
    /\ ~air.active \/ air.at # at
    /\ ~f.disabled
    /\ air' = [active |-> TRUE, same |-> air.same /\ at.net = air.at.net, at |-> at]
    /\ keys' = keys \cup (IF air.active /\ at.net = air.at.net THEN {"AirPort"} ELSE {"Link", "AirPort"})
    /\ UNCHANGED f
\* The network counts for the next wake only if it was left asleep.
Left == [air EXCEPT !.active = FALSE, !.at = IF f.awake /\ ~air.same THEN None ELSE @]
LinkDown ==
    /\ air.active /\ air' = Left
    /\ keys' = keys \cup {"Link", "AirPort"}
    /\ UNCHANGED f

\* A link event of the interface with the outcome of the handler.
Link(address) ==
    /\ "Link" \in keys /\ keys' = keys \ {"Link"}
    /\ f' = IF Services(f) THEN link_key_changed(f, address) ELSE f
    /\ UNCHANGED air
Detach == Services(f) /\ f' = Detaching(f) /\ UNCHANGED <<air, keys>>
AirPort ==
    /\ "AirPort" \in keys /\ keys' = keys \ {"AirPort"}
    /\ f' = IF Services(f) THEN ap_key_changed(f) ELSE f
    /\ UNCHANGED air
IPv6Changed(stale) ==
    /\ "IPv6" \in keys /\ keys' = keys \ {"IPv6"}
    /\ f' = ipv6_interface_address_changed(f, stale)
    /\ UNCHANGED air

link_timer_expired ==
    /\ f.timer
    /\ f' = process_link_timer_expired([f EXCEPT !.timer = FALSE])
    /\ UNCHANGED <<air, keys>>

\* The system sleeps and wakes; the driver compares the networks at the wake.
\* A link timer of a tenth of a second has run out by then.
PowerChanges(cpu, early) ==
    f' = (IF f.maint THEN new_power_changed(f, cpu, early) ELSE power_changed(f, cpu)) /\ f' # f
Sleep == PowerChanges(FALSE, FALSE) /\ UNCHANGED <<air, keys>>
Wake(early, same) ==
    /\ PowerChanges(TRUE, early)
    /\ IF f.awake THEN ~same /\ UNCHANGED <<air, keys>>
       ELSE /\ ~f.timer /\ (same => air.at # None)
            /\ air' = [air EXCEPT !.same = same] /\ keys' = keys \cup {"Link"}

\* Duplicate address detection ends; the kernel may lose IPv6 while asleep.
Kernel(ll) ==
    /\ IF ll = "none" THEN ~f.awake /\ f.ll # "none" ELSE f.ll = "tentative"
    /\ f' = [f EXCEPT !.ll = ll, !.attached = @ /\ ll # "none"]
    /\ keys' = keys \cup {"IPv6"} /\ UNCHANGED air

\* DisableUntilNeededProcess, as this interface sees it: an interface that is
\* down has no link.
Disable(on) ==
    /\ Services(f) /\ f.disabled # on
    /\ LET t == [f EXCEPT !.disabled = on] IN f' = IF ~on /\ f.v6 THEN IFState_attach_IPv6(t) ELSE t
    /\ IF on /\ air.active
         THEN air' = Left /\ keys' = keys \cup {"Link", "AirPort"}
         ELSE UNCHANGED <<air, keys>>

InterfaceNext ==
    \/ \E b \in BOOLEAN : ServiceAdded(b) \/ RemoveServices(b) \/ Link(b) \/ Disable(b) \/ IPv6Changed(b)
    \/ \E at \in AccessPoints : LinkUp(at)
    \/ LinkDown \/ AirPort \/ Detach \/ link_timer_expired
    \/ Sleep \/ \E early, same \in BOOLEAN : Wake(early, same)
    \/ \E ll \in {"none", "ready", "duplicated"} : Kernel(ll)

InterfaceSpec == InterfaceInit /\ [][InterfaceNext]_interfaceVars

-----------------------------------------------------------------------------

\* However wake notifications, early wakes and link events interleave, the
\* services get at most one wake event for each wake of the system.
AtMostOneWake == f.wakes <= 1

\* Once every change is handled, services that were not told that the link is
\* gone have been told of the network the interface is on.
ServicesKnowNetwork ==
    Services(f) /\ keys \cap {"Link", "AirPort"} = {} /\ ~f.due /\ f.awake /\ ~f.disabled =>
        f.lost \/ ~air.active \/ f.told = air.at.net
=============================================================================
