---------------------------- MODULE Agent_proofs ----------------------------
(***************************************************************************)
(* Proofs about two parts of the IPConfiguration agent: InterfaceState, for *)
(* every set of access points and every number of collisions, and          *)
(* ServiceList, for every list of interfaces, every set of configurations  *)
(* and every number of changes.  They share no state; their modules are    *)
(* extended side by side.                                                  *)
(***************************************************************************)
EXTENDS InterfaceState, ServiceList, SequenceTheorems, WellFoundedInduction, NaturalsInduction, TLAPS


\* What the agent knows of Wi-Fi, and the networks a service can be told of.
Info == AccessPoints \cup {None}
Nets == {p.net : p \in Info}

IFState ==
    [active : BOOLEAN, same : BOOLEAN, wifi : Info, timer : BOOLEAN,
     suppressed : BOOLEAN, due : BOOLEAN, disabled : BOOLEAN, collisions : Nat, adverts : BOOLEAN,
     awake : BOOLEAN, maint : BOOLEAN, sent : BOOLEAN,
     v4 : BOOLEAN, v6 : BOOLEAN, attached : BOOLEAN, ll : {"none", "tentative", "ready", "duplicated"},
     told : Nets, lost : BOOLEAN, wakes : Nat]

-----------------------------------------------------------------------------
(* The inductive invariant.                                                *)

\* A service that was not told that the link is gone knows the network that
\* the agent remembers.
Known(t) == Services(t) /\ ~t.lost /\ t.wifi # None => t.told = t.wifi.net
\* A link that is active has a network.
Seen(t) == Services(t) /\ t.active => t.wifi # None
\* Services of an inactive link will be told that it is gone, or the link
\* waits for its event: by the timer, at the wake, or when the link is the
\* same network.
Waits(t) ==
    Services(t) /\ ~t.active /\ ~t.lost =>
        /\ t.timer \/ t.suppressed \/ (t.due /\ t.same)
        /\ t.due => t.suppressed \/ t.same
\* A wake that is due was not delivered.
Once(t) == t.wakes <= 1 /\ (t.due => t.wakes = 0)

Fit(t) == Known(t) /\ Seen(t) /\ Waits(t) /\ Once(t)

AirOK == air \in [active : BOOLEAN, same : BOOLEAN, at : Info] /\ (air.active => air.at \in AccessPoints)
Read(t) == t.active = air.active /\ (air.active => t.wifi.net = air.at.net)

\* What was read of the link is what it is, unless its change is on its way.
InterfaceInv ==
    /\ f \in IFState /\ AirOK /\ (f.disabled => ~air.active) /\ Fit(f)
    /\ Services(f) /\ "Link" \notin keys => Read(f)

-----------------------------------------------------------------------------
(* What the operators change.                                              *)

\* All but what IPv6 keeps for itself.
SameBut(t, u) ==
    /\ u.active = t.active /\ u.same = t.same /\ u.wifi = t.wifi /\ u.timer = t.timer
    /\ u.suppressed = t.suppressed /\ u.due = t.due /\ u.disabled = t.disabled
    /\ u.awake = t.awake /\ u.v4 = t.v4 /\ u.v6 = t.v6 /\ u.told = t.told /\ u.wakes = t.wakes

LEMMA Names ==
    /\ None \in Info /\ NoNetwork \in Nets /\ None.net = NoNetwork /\ None \notin AccessPoints
    /\ \A p \in Info : p.net \in Nets /\ (p # None => p \in AccessPoints /\ p.net # NoNetwork)
<1>1. None.net = NoNetwork
  BY DEF None
<1>2. None \in Info /\ \A p \in Info : p.net \in Nets
  BY DEF Info, Nets
<1>3. \A p \in Info : p # None => p \in AccessPoints /\ p.net # NoNetwork
  BY InterfaceAssumption DEF Info
<1>4. None \notin AccessPoints
  BY <1>1, InterfaceAssumption
<1>5. NoNetwork \in Nets
  BY <1>1, <1>2
<1> QED BY <1>1, <1>2, <1>3, <1>4, <1>5

LEMMA StopFacts ==
    ASSUME NEW t \in IFState
    PROVE  /\ inet6_linklocal_stop(t) \in IFState /\ SameBut(t, inet6_linklocal_stop(t))
           /\ inet6_linklocal_stop(t).lost = t.lost
  BY DEF inet6_linklocal_stop, IFState, SameBut

LEMMA AttachFacts ==
    ASSUME NEW t \in IFState
    PROVE  /\ IFState_attach_IPv6(t) \in IFState /\ SameBut(t, IFState_attach_IPv6(t))
           /\ IFState_attach_IPv6(t).lost = t.lost
<1>1. PICK l \in {"none", "tentative", "ready", "duplicated"} :
         IFState_attach_IPv6(t) = [t EXCEPT !.attached = TRUE, !.ll = l]
  BY DEF IFState_attach_IPv6, IFState
<1> QED BY <1>1 DEF IFState, SameBut

LEMMA DetachFacts ==
    ASSUME NEW t \in IFState
    PROVE  /\ IFState_detach_IPv6(t) \in IFState /\ SameBut(t, IFState_detach_IPv6(t))
           /\ IFState_detach_IPv6(t).lost = t.lost
<1>1. PICK u : u = [t EXCEPT !.ll = "none", !.attached = FALSE]
  OBVIOUS
<1>2. u \in IFState /\ SameBut(t, u) /\ u.lost = t.lost
  BY <1>1 DEF IFState, SameBut
<1> QED BY <1>1, <1>2 DEF IFState_detach_IPv6, SameBut

LEMMA LinkTimerFacts ==
    ASSUME NEW t \in IFState
    PROVE  /\ LinkTimerEvent(t) \in IFState /\ SameBut(t, LinkTimerEvent(t)) /\ LinkTimerEvent(t).lost
  BY DEF LinkTimerEvent, IFState, SameBut

LEMMA ExpiredFacts ==
    ASSUME NEW t \in IFState
    PROVE  /\ process_link_timer_expired(t) \in IFState /\ SameBut(t, process_link_timer_expired(t))
           /\ process_link_timer_expired(t).lost
  BY LinkTimerFacts, StopFacts DEF process_link_timer_expired, SameBut

LEMMA DuplicatedFacts ==
    ASSUME NEW t \in IFState
    PROVE  /\ handle_ipv6_linklocal_duplicated(t) \in IFState
           /\ SameBut(t, handle_ipv6_linklocal_duplicated(t))
           /\ handle_ipv6_linklocal_duplicated(t).lost = t.lost
<1>1. PICK u : u = [t EXCEPT !.collisions = t.collisions + 1]
  OBVIOUS
<1>2. u \in IFState /\ SameBut(t, u) /\ u.lost = t.lost
  BY <1>1 DEF IFState, SameBut
<1>3. handle_ipv6_linklocal_duplicated(t) \in {t, IFState_attach_IPv6(inet6_linklocal_stop(u))}
  BY <1>1 DEF handle_ipv6_linklocal_duplicated
<1> QED BY <1>2, <1>3, StopFacts, AttachFacts DEF SameBut

LEMMA AdvertFacts ==
    ASSUME NEW t \in IFState, NEW b \in BOOLEAN
    PROVE  /\ S_process_neighbor_adverts(t, b) \in IFState /\ SameBut(t, S_process_neighbor_adverts(t, b))
           /\ S_process_neighbor_adverts(t, b).lost = t.lost
<1>1. PICK u : u = [t EXCEPT !.adverts = FALSE]
  OBVIOUS
<1>2. u \in IFState /\ SameBut(t, u) /\ u.lost = t.lost
  BY <1>1 DEF IFState, SameBut
<1> QED BY <1>1, <1>2 DEF S_process_neighbor_adverts, SameBut

-----------------------------------------------------------------------------
(* Wi-Fi information.                                                      *)

LEMMA CopyFacts ==
    ASSUME air.active => air.at \in AccessPoints
    PROVE  /\ WiFiInfoCopy \in Info /\ (WiFiInfoCopy # None <=> air.active)
           /\ air.active => WiFiInfoCopy = air.at
<1>1. CASE air.active
  BY <1>1, Names DEF WiFiInfoCopy, Info
<1>2. CASE ~air.active
  BY <1>2, Names DEF WiFiInfoCopy
<1> QED BY <1>1, <1>2

\* An event that does not tell of another network finds the one remembered.
LEMMA LinkInfoFacts ==
    ASSUME NEW t \in IFState, air.active => air.at \in AccessPoints,
           LinkInfo(t) # "changed", air.active
    PROVE  t.wifi # None /\ t.wifi.net = air.at.net
<1>1. WiFiInfoCopy = air.at /\ WiFiInfoCopy # None
  BY CopyFacts
<1>2. WiFiInfoCompare(t.wifi, air.at) # "changed"
  BY <1>1 DEF LinkInfo
<1> QED BY <1>1, <1>2 DEF WiFiInfoCompare

LEMMA UpdateFacts ==
    ASSUME NEW t \in IFState, air.active => air.at \in AccessPoints
    PROVE  LET u == IFState_update_link_event_data(t)
           IN  /\ u = [t EXCEPT !.wifi = u.wifi]
               /\ u \in IFState
               /\ u.wifi = IF air.active THEN air.at ELSE IF t.active THEN t.wifi ELSE None
<1> DEFINE w == IF air.active THEN air.at ELSE IF t.active THEN t.wifi ELSE None
<1>1. IFState_update_link_event_data(t) = IF air.active \/ ~t.active THEN [t EXCEPT !.wifi = w] ELSE t
  BY CopyFacts DEF IFState_update_link_event_data, IFState_set_wifi_info
<1>2. w \in Info
  BY DEF Info, IFState
<1>3. IFState_update_link_event_data(t) = [t EXCEPT !.wifi = w]
  BY <1>1 DEF IFState
<1> HIDE DEF w
<1>4. [t EXCEPT !.wifi = w] \in IFState /\ [t EXCEPT !.wifi = w].wifi = w
  BY <1>2 DEF IFState
<1> QED BY <1>3, <1>4 DEF w

LEMMA HearFacts ==
    ASSUME NEW t \in IFState, NEW info
    PROVE  LET u == Hear(t, info)
           IN  /\ u \in IFState
               /\ u = [t EXCEPT !.told = u.told, !.lost = u.lost]
               /\ ~(Services(t) /\ t.active) => u = t
               /\ Services(t) /\ t.active =>
                     ~u.lost /\ u.told = IF info = "changed" \/ t.lost THEN t.wifi.net ELSE t.told
<1>1. CASE ~(Services(t) /\ t.active)
  <2>1. Hear(t, info) = t
    BY <1>1 DEF Hear
  <2>2. t = [t EXCEPT !.told = t.told, !.lost = t.lost]
    BY DEF IFState
  <2> QED BY <1>1, <2>1, <2>2
<1>2. CASE Services(t) /\ t.active
  <2> DEFINE w == IF info = "changed" \/ t.lost THEN t.wifi.net ELSE t.told
  <2>1. Hear(t, info) = [t EXCEPT !.told = w, !.lost = FALSE]
    BY <1>2 DEF Hear
  <2>2. w \in Nets
    BY Names DEF IFState
  <2> HIDE DEF w
  <2>3. /\ [t EXCEPT !.told = w, !.lost = FALSE] \in IFState
        /\ [t EXCEPT !.told = w, !.lost = FALSE].told = w /\ ~[t EXCEPT !.told = w, !.lost = FALSE].lost
    BY <2>2 DEF IFState
  <2>4. Hear(t, info) = [t EXCEPT !.told = Hear(t, info).told, !.lost = Hear(t, info).lost]
    BY <2>1, <2>2, <2>3 DEF IFState
  <2> QED BY <1>2, <2>1, <2>3, <2>4 DEF w
<1> QED BY <1>1, <1>2

-----------------------------------------------------------------------------
(* A wake is delivered.                                                    *)

\* What is remembered of Wi-Fi once the link event data is updated.
Remembered(t) == IF air.active THEN air.at ELSE IF t.active THEN t.wifi ELSE None

LEMMA WakeEventFacts ==
    ASSUME NEW t \in IFState, NEW info
    PROVE  LET u == WakeEvent(t, info)
           IN  /\ u \in IFState /\ u.wakes \in {t.wakes, t.wakes + 1}
               /\ SameBut([t EXCEPT !.told = u.told, !.wakes = u.wakes], u)
               /\ ~(Services(t) /\ t.active) => u.told = t.told /\ u.lost = t.lost
               /\ Services(t) /\ t.active =>
                     ~u.lost /\ u.told = IF info = "changed" \/ t.lost THEN t.wifi.net ELSE t.told
<1>1. PICK h : h = Hear(t, info)
  OBVIOUS
<1>2. /\ h \in IFState /\ h = [t EXCEPT !.told = h.told, !.lost = h.lost]
      /\ ~(Services(t) /\ t.active) => h = t
      /\ Services(t) /\ t.active =>
            ~h.lost /\ h.told = IF info = "changed" \/ t.lost THEN t.wifi.net ELSE t.told
  BY <1>1, HearFacts
<1>3. PICK w : w = [h EXCEPT !.wakes = h.wakes + 1]
  OBVIOUS
<1>4. /\ w \in IFState /\ SameBut([h EXCEPT !.wakes = w.wakes], w) /\ w.wakes = h.wakes + 1
      /\ w.told = h.told /\ w.lost = h.lost
  BY <1>2, <1>3 DEF IFState, SameBut
<1>5. SameBut([t EXCEPT !.told = h.told, !.wakes = h.wakes], h) /\ h.wakes = t.wakes
  BY <1>2 DEF IFState, SameBut
<1>6. SameBut([t EXCEPT !.told = w.told, !.wakes = w.wakes], w) /\ w.wakes = t.wakes + 1
  BY <1>4, <1>5, <1>2 DEF IFState, SameBut
<1>7. WakeEvent(t, info) = IF Services(t) THEN w ELSE t
  BY <1>1, <1>3 DEF WakeEvent
<1>8. SameBut([t EXCEPT !.told = t.told, !.wakes = t.wakes], t)
  BY DEF IFState, SameBut
<1>9. CASE Services(t)
  BY <1>2, <1>4, <1>6, <1>7, <1>9
<1>10. CASE ~Services(t)
  BY <1>7, <1>8, <1>10
<1> QED BY <1>9, <1>10

LEMMA WakeFacts ==
    ASSUME NEW t \in IFState, air.active => air.at \in AccessPoints, t.active \/ ~t.same
    PROVE  LET r == S_ifstate_process_wake(t)
           IN  /\ r \in IFState
               /\ r.active = t.active /\ r.same = t.same /\ r.timer = t.timer /\ r.disabled = t.disabled
               /\ r.awake = t.awake /\ r.v4 = t.v4 /\ r.v6 = t.v6
               /\ ~r.due /\ ~r.suppressed /\ r.wakes \in {t.wakes, t.wakes + 1}
               /\ r.wifi = Remembered(t)
               /\ ~(Services(t) /\ t.active /\ ~t.disabled) =>
                     r.told = t.told /\ (r.lost <=> t.lost \/ t.suppressed)
               /\ Services(t) /\ t.active /\ ~t.disabled =>
                     /\ ~r.lost
                     /\ r.told = IF LinkInfo(t) = "changed" \/ t.lost \/ t.suppressed THEN r.wifi.net ELSE t.told
<1>1. PICK e : e = [t EXCEPT !.suppressed = FALSE]
  OBVIOUS
<1>2. e \in IFState /\ SameBut([t EXCEPT !.suppressed = FALSE], e) /\ e.lost = t.lost
  BY <1>1 DEF IFState, SameBut
<1>3. PICK u : u = IF t.suppressed THEN process_link_timer_expired(e) ELSE t
  OBVIOUS
<1>4. u \in IFState /\ SameBut([t EXCEPT !.suppressed = FALSE], u) /\ (u.lost <=> t.lost \/ t.suppressed)
  <2>1. CASE t.suppressed
    BY <1>2, <1>3, <2>1, ExpiredFacts DEF SameBut
  <2>2. CASE ~t.suppressed
    BY <1>3, <2>2 DEF IFState, SameBut
  <2> QED BY <2>1, <2>2
<1>5. PICK d : d = [u EXCEPT !.due = FALSE]
  OBVIOUS
<1>6. /\ d \in IFState /\ (d.lost <=> t.lost \/ t.suppressed)
      /\ d.active = t.active /\ d.same = t.same /\ d.timer = t.timer /\ d.disabled = t.disabled
      /\ d.awake = t.awake /\ d.v4 = t.v4 /\ d.v6 = t.v6 /\ ~d.due /\ ~d.suppressed /\ d.wakes = t.wakes
      /\ d.told = t.told /\ d.wifi = t.wifi
  BY <1>4, <1>5 DEF IFState, SameBut
<1>7. PICK v : v = IFState_update_link_event_data(d)
  OBVIOUS
<1>8. /\ v \in IFState /\ (v.lost <=> t.lost \/ t.suppressed)
      /\ v.active = t.active /\ v.same = t.same /\ v.timer = t.timer /\ v.disabled = t.disabled
      /\ v.awake = t.awake /\ v.v4 = t.v4 /\ v.v6 = t.v6 /\ ~v.due /\ ~v.suppressed /\ v.wakes = t.wakes
      /\ v.told = t.told /\ v.wifi = Remembered(t)
  <2>1. v = [d EXCEPT !.wifi = v.wifi] /\ v \in IFState /\ v.wifi = Remembered(t)
    BY <1>6, <1>7, UpdateFacts DEF Remembered
  <2> QED BY <1>6, <2>1 DEF IFState
<1>9. PICK w : w = IF t.v6 /\ (t.suppressed \/ ~v.attached) THEN IFState_attach_IPv6(v) ELSE v
  OBVIOUS
<1>10. w \in IFState /\ SameBut(v, w) /\ w.lost = v.lost
  BY <1>8, <1>9, AttachFacts DEF SameBut
<1>11. PICK x : x = [w EXCEPT !.adverts = t.v6]
  OBVIOUS
<1>12. x \in IFState /\ SameBut(v, x) /\ x.lost = v.lost
  BY <1>10, <1>11 DEF IFState, SameBut
<1>13. S_ifstate_process_wake(t) = IF t.disabled THEN v ELSE WakeEvent(x, LinkInfo(u))
  BY <1>1, <1>3, <1>5, <1>7, <1>9, <1>11 DEF S_ifstate_process_wake
<1>14. LinkInfo(u) = LinkInfo(t)
  <2>1. u.wifi = t.wifi
    BY <1>5, <1>6 DEF IFState
  <2> QED BY <2>1 DEF LinkInfo
<1>15. CASE t.disabled
  BY <1>8, <1>13, <1>15
<1>16. CASE ~t.disabled
  <2>1. PICK r : r = WakeEvent(x, LinkInfo(t))
    OBVIOUS
  <2>2. /\ r \in IFState /\ r.wakes \in {x.wakes, x.wakes + 1}
        /\ SameBut([x EXCEPT !.told = r.told, !.wakes = r.wakes], r)
        /\ ~(Services(x) /\ x.active) => r.told = x.told /\ r.lost = x.lost
        /\ Services(x) /\ x.active =>
              ~r.lost /\ r.told = IF LinkInfo(t) = "changed" \/ x.lost THEN x.wifi.net ELSE x.told
    BY <1>12, <2>1, WakeEventFacts
  <2>3. /\ r.active = t.active /\ r.same = t.same /\ r.timer = t.timer /\ r.disabled = t.disabled
        /\ r.awake = t.awake /\ r.v4 = t.v4 /\ r.v6 = t.v6
        /\ ~r.due /\ ~r.suppressed /\ r.wifi = Remembered(t)
    BY <1>8, <1>12, <2>2 DEF SameBut, IFState
  <2>4. x.wakes = t.wakes /\ (Services(x) <=> Services(t)) /\ x.active = t.active
        /\ x.told = t.told /\ (x.lost <=> t.lost \/ t.suppressed) /\ x.wifi = Remembered(t)
    BY <1>8, <1>12 DEF SameBut, Services
  <2>5. S_ifstate_process_wake(t) = r
    BY <1>13, <1>14, <1>16, <2>1
  <2> QED BY <1>16, <2>2, <2>3, <2>4, <2>5
<1> QED BY <1>15, <1>16

-----------------------------------------------------------------------------
(* The handlers keep the invariant of the agent's state.                   *)

\* What IPv6 does on its own disturbs nothing, nor does telling services that
\* the link is gone.
LEMMA SameFits ==
    ASSUME NEW t \in IFState, NEW u \in IFState, SameBut(t, u), u.lost = t.lost \/ u.lost, Fit(t)
    PROVE  Fit(u) /\ (Read(t) => Read(u)) /\ (Services(u) <=> Services(t)) /\ u.disabled = t.disabled
  BY DEF SameBut, Fit, Known, Seen, Waits, Once, Read, Services, IFState

LEMMA Delivered ==
    ASSUME NEW t \in IFState, AirOK, t.disabled => ~air.active, Fit(t)
    PROVE  LET r == S_deliver_wake_event(t)
           IN  /\ r \in IFState /\ Fit(r) /\ r.disabled = t.disabled
               /\ (Services(r) <=> Services(t)) /\ (Read(t) => Read(r))
<1>1. CASE ~t.due \/ (~t.active /\ t.same)
  <2>1. S_deliver_wake_event(t) = t
    BY <1>1 DEF S_deliver_wake_event, S_ifstate_process_wake
  <2> QED BY <2>1
<1>2. CASE t.due /\ (t.active \/ ~t.same)
  <2>1. PICK r : r = S_ifstate_process_wake(t)
    OBVIOUS
  <2>2. S_deliver_wake_event(t) = r
    BY <1>2, <2>1 DEF S_deliver_wake_event
  <2>3. air.active => air.at \in AccessPoints
    BY DEF AirOK
  <2>4. /\ r \in IFState
        /\ r.active = t.active /\ r.same = t.same /\ r.timer = t.timer /\ r.disabled = t.disabled
        /\ r.awake = t.awake /\ r.v4 = t.v4 /\ r.v6 = t.v6
        /\ ~r.due /\ ~r.suppressed /\ r.wakes \in {t.wakes, t.wakes + 1}
        /\ r.wifi = Remembered(t)
        /\ ~(Services(t) /\ t.active /\ ~t.disabled) =>
              r.told = t.told /\ (r.lost <=> t.lost \/ t.suppressed)
        /\ Services(t) /\ t.active /\ ~t.disabled =>
              /\ ~r.lost
              /\ r.told = IF LinkInfo(t) = "changed" \/ t.lost \/ t.suppressed THEN r.wifi.net ELSE t.told
    BY <1>2, <2>1, <2>3, WakeFacts
  <2>5. (Services(r) <=> Services(t)) /\ (Read(t) => Read(r))
    BY <2>4 DEF Services, Read, Remembered
  <2>6. Once(r)
    BY <1>2, <2>4 DEF Fit, Once, IFState
  <2>7. Seen(r)
    <3>1. air.active => air.at # None
      BY <2>3, Names
    <3> QED BY <2>4, <3>1 DEF Fit, Seen, Services, Remembered
  <2>8. Waits(r)
    BY <1>2, <2>4 DEF Fit, Waits, Services
  <2>9. Known(r)
    <3> SUFFICES ASSUME Services(t), ~r.lost, r.wifi # None PROVE r.told = r.wifi.net
      BY <2>5 DEF Known
    <3>1. CASE ~t.active
      BY <1>2, <2>4, <3>1 DEF Fit, Waits
    <3>2. CASE t.active /\ t.disabled
      BY <2>4, <3>2 DEF Fit, Known, Remembered
    <3>3. CASE t.active /\ ~t.disabled /\ (LinkInfo(t) = "changed" \/ t.lost \/ t.suppressed)
      BY <2>4, <3>3
    <3>4. CASE t.active /\ ~t.disabled /\ ~(LinkInfo(t) = "changed" \/ t.lost \/ t.suppressed)
      <4>1. r.told = t.told /\ t.told = t.wifi.net
        BY <2>4, <3>4 DEF Fit, Known, Seen
      <4>2. CASE air.active
        BY <2>3, <2>4, <3>4, <4>1, <4>2, LinkInfoFacts DEF Remembered
      <4>3. CASE ~air.active
        BY <2>4, <3>4, <4>1, <4>3 DEF Remembered
      <4> QED BY <4>2, <4>3
    <3> QED BY <3>1, <3>2, <3>3, <3>4
  <2> QED BY <2>2, <2>4, <2>5, <2>6, <2>7, <2>8, <2>9 DEF Fit
<1> QED BY <1>1, <1>2

LEMMA ReattachFacts ==
    ASSUME NEW t \in IFState, NEW address \in BOOLEAN
    PROVE  LET w == Reattach(t, address)
           IN  w \in IFState /\ SameBut(t, w) /\ (w.lost = t.lost \/ w.lost) /\ (address => w.lost)
<1>1. PICK s : s = IF address /\ ~t.disabled THEN inet6_linklocal_stop(t) ELSE t
  OBVIOUS
<1>2. s \in IFState /\ SameBut(t, s) /\ s.lost = t.lost
  BY <1>1, StopFacts DEF SameBut
<1>3. PICK u : u = IF t.v6 /\ ~t.disabled THEN IFState_attach_IPv6(s) ELSE s
  OBVIOUS
<1>4. u \in IFState /\ SameBut(t, u) /\ u.lost = t.lost
  BY <1>2, <1>3, AttachFacts DEF SameBut
<1>5. Reattach(t, address) = IF address \/ (u.attached /\ ~t.attached) THEN LinkTimerEvent(u) ELSE u
  BY <1>1, <1>3 DEF Reattach
<1>6. CASE address \/ (u.attached /\ ~t.attached)
  BY <1>4, <1>5, <1>6, LinkTimerFacts DEF SameBut
<1>7. CASE ~(address \/ (u.attached /\ ~t.attached))
  BY <1>4, <1>5, <1>7
<1> QED BY <1>6, <1>7

LEMMA CopiedFacts ==
    ASSUME NEW t \in IFState, AirOK
    PROVE  LET u == if_link_copy(t)
           IN  /\ u \in IFState /\ u.active = air.active /\ u.same = air.same
               /\ SameBut([t EXCEPT !.active = air.active, !.same = air.same], u)
               /\ u.lost = t.lost /\ (Services(u) <=> Services(t))
               /\ u.due = t.due /\ u.disabled = t.disabled /\ u.wifi = t.wifi /\ u.wakes = t.wakes
               /\ u.told = t.told /\ u.awake = t.awake
<1>1. PICK u : u = [t EXCEPT !.active = air.active, !.same = air.same]
  OBVIOUS
<1>2. air.active \in BOOLEAN /\ air.same \in BOOLEAN
  BY DEF AirOK
<1>3. if_link_copy(t) = u
  BY <1>1 DEF if_link_copy
<1>4. /\ u \in IFState /\ u.active = air.active /\ u.same = air.same /\ u.lost = t.lost
      /\ u.due = t.due /\ u.disabled = t.disabled /\ u.wifi = t.wifi /\ u.wakes = t.wakes
      /\ u.told = t.told /\ u.awake = t.awake /\ u.v4 = t.v4 /\ u.v6 = t.v6
  BY <1>1, <1>2 DEF IFState
<1>5. SameBut(u, u)
  BY DEF SameBut
<1> QED BY <1>1, <1>3, <1>4, <1>5 DEF Services

LEMMA LinkTimerSet ==
    ASSUME NEW t \in IFState
    PROVE  LET u == LinkTimer(t)
           IN  /\ u \in IFState /\ u.timer = (~t.active /\ t.awake) /\ u.suppressed = (~t.active /\ ~t.awake)
               /\ u.active = t.active /\ u.same = t.same /\ u.wifi = t.wifi /\ u.due = t.due
               /\ u.disabled = t.disabled /\ u.v4 = t.v4 /\ u.v6 = t.v6 /\ u.told = t.told
               /\ u.lost = t.lost /\ u.wakes = t.wakes
<1>1. PICK a \in BOOLEAN : a = (~t.active /\ t.awake)
  OBVIOUS
<1>2. PICK b \in BOOLEAN : b = (~t.active /\ ~t.awake)
  OBVIOUS
<1>3. LinkTimer(t) = [t EXCEPT !.timer = a, !.suppressed = b]
  BY <1>1, <1>2 DEF LinkTimer
<1>4. PICK u : u = [t EXCEPT !.timer = a, !.suppressed = b]
  OBVIOUS
<1>5. /\ u \in IFState /\ u.timer = a /\ u.suppressed = b
      /\ u.active = t.active /\ u.same = t.same /\ u.wifi = t.wifi /\ u.due = t.due
      /\ u.disabled = t.disabled /\ u.v4 = t.v4 /\ u.v6 = t.v6 /\ u.told = t.told
      /\ u.lost = t.lost /\ u.wakes = t.wakes
  BY <1>4 DEF IFState
<1> QED BY <1>1, <1>2, <1>3, <1>4, <1>5

\* The link event of an interface that has services: what it reads is what
\* the link is, and the services know it, will know it, or know that it went.
LEMMA LinkEvent ==
    ASSUME NEW t \in IFState, NEW address \in BOOLEAN, AirOK, t.disabled => ~air.active,
           Fit(t), Services(t)
    PROVE  LET r == link_key_changed(t, address)
           IN  r \in IFState /\ Fit(r) /\ Read(r) /\ r.disabled = t.disabled
<1>1. (air.active => air.at \in AccessPoints) /\ (air.active => air.at # None)
  BY Names DEF AirOK
<1>2. PICK z : z = [t EXCEPT !.collisions = 0]
  OBVIOUS
<1>3. z \in IFState /\ SameBut(t, z) /\ z.lost = t.lost
  BY <1>2 DEF IFState, SameBut
<1>4. PICK u : u = if_link_copy(z)
  OBVIOUS
<1>5. /\ u \in IFState /\ u.active = air.active /\ u.same = air.same /\ u.lost = t.lost
      /\ Services(u) /\ u.due = t.due /\ u.disabled = t.disabled /\ u.wifi = t.wifi
      /\ u.wakes = t.wakes /\ u.told = t.told /\ u.awake = t.awake
  BY <1>3, <1>4, CopiedFacts DEF SameBut, Services
<1>6. PICK woke \in BOOLEAN : woke = (~address /\ t.due)
  OBVIOUS
<1>7. PICK v : v = IF woke THEN S_ifstate_process_wake(u) ELSE u
  OBVIOUS
<1>8. PICK m : m = IFState_update_link_event_data(v)
  OBVIOUS
<1>9. PICK l : l = LinkTimer(m)
  OBVIOUS
<1>10. PICK w : w = Reattach(l, address)
  OBVIOUS
<1>11. PICK h : h = Hear(w, LinkInfo(v))
  OBVIOUS
<1>12. link_key_changed(t, address) = IF woke /\ u.same THEN v ELSE h
  <2>1. u.due = t.due
    BY <1>5
  <2> QED BY <1>2, <1>4, <1>6, <1>7, <1>8, <1>9, <1>10, <1>11, <2>1 DEF link_key_changed, config_method_media
<1>13. air.active /\ LinkInfo(u) # "changed" /\ ~t.lost => t.told = air.at.net
  <2> SUFFICES ASSUME air.active, LinkInfo(u) # "changed", ~t.lost PROVE t.told = air.at.net
    OBVIOUS
  <2>1. t.wifi # None /\ t.wifi.net = air.at.net
    BY <1>1, <1>5, LinkInfoFacts
  <2> QED BY <2>1 DEF Fit, Known
<1>14. CASE woke /\ ~u.active /\ u.same
  <2>1. link_key_changed(t, address) = u
    BY <1>7, <1>12, <1>14 DEF S_ifstate_process_wake
  <2>2. t.due /\ t.wakes = 0
    BY <1>6, <1>14 DEF Fit, Once
  <2>3. Fit(u)
    BY <1>5, <1>14, <2>2 DEF Fit, Known, Seen, Waits, Once
  <2>4. Read(u)
    BY <1>5, <1>14 DEF Read
  <2> QED BY <1>5, <2>1, <2>3, <2>4
<1>15. CASE ~(woke /\ ~u.active /\ u.same)
  <2>1. /\ v \in IFState /\ v.active = air.active /\ v.same = air.same /\ v.disabled = t.disabled
        /\ v.awake = t.awake /\ Services(v) /\ (v.due => t.due /\ ~woke)
        /\ v.wakes <= 1 /\ (v.due => v.wakes = 0)
        /\ (air.active /\ LinkInfo(v) # "changed" /\ ~v.lost => v.told = air.at.net)
        /\ woke => (v.wifi = Remembered(u)) /\ (air.active => ~v.lost /\ v.told = air.at.net)
    <3>1. CASE ~woke
      BY <1>5, <1>7, <1>13, <3>1 DEF Fit, Once, IFState
    <3>2. CASE woke
      <4>1. /\ v \in IFState
            /\ v.active = u.active /\ v.same = u.same /\ v.timer = u.timer /\ v.disabled = u.disabled
            /\ v.awake = u.awake /\ v.v4 = u.v4 /\ v.v6 = u.v6
            /\ ~v.due /\ ~v.suppressed /\ v.wakes \in {u.wakes, u.wakes + 1}
            /\ v.wifi = Remembered(u)
            /\ Services(u) /\ u.active /\ ~u.disabled =>
                  /\ ~v.lost
                  /\ v.told = IF LinkInfo(u) = "changed" \/ u.lost \/ u.suppressed THEN v.wifi.net ELSE u.told
        BY <1>1, <1>5, <1>7, <1>15, <3>2, WakeFacts
      <4>2. t.wakes = 0 /\ v.wakes <= 1 /\ Services(v)
        BY <1>5, <1>6, <3>2, <4>1 DEF Fit, Once, Services, IFState
      <4>3. air.active => ~v.lost /\ v.told = air.at.net
        BY <1>5, <1>13, <4>1 DEF Remembered
      <4> QED BY <1>5, <3>2, <4>1, <4>2, <4>3
    <3> QED BY <3>1, <3>2
  <2>2. CASE woke /\ u.same
    <3>1. u.active /\ air.active /\ v.wifi = air.at
      BY <1>5, <1>15, <2>1, <2>2 DEF Remembered
    <3>2. link_key_changed(t, address) = v
      BY <1>12, <2>2
    <3>3. Fit(v)
      BY <1>1, <2>1, <2>2, <3>1 DEF Fit, Known, Seen, Waits, Once
    <3>4. Read(v)
      BY <2>1, <3>1 DEF Read
    <3> QED BY <2>1, <3>2, <3>3, <3>4
  <2>3. CASE ~(woke /\ u.same)
    <3>1. /\ m \in IFState /\ m.wifi = Remembered(v) /\ m.active = v.active /\ m.same = v.same
          /\ m.due = v.due /\ m.disabled = v.disabled /\ m.awake = v.awake /\ m.v4 = v.v4 /\ m.v6 = v.v6
          /\ m.told = v.told /\ m.lost = v.lost /\ m.wakes = v.wakes
      <4>1. m = [v EXCEPT !.wifi = m.wifi] /\ m \in IFState /\ m.wifi = Remembered(v)
        BY <1>1, <1>8, <2>1, UpdateFacts DEF Remembered
      <4> QED BY <2>1, <4>1 DEF IFState
    <3>2. /\ l \in IFState /\ l.timer = (~m.active /\ m.awake) /\ l.suppressed = (~m.active /\ ~m.awake)
          /\ l.active = m.active /\ l.same = m.same /\ l.wifi = m.wifi /\ l.due = m.due
          /\ l.disabled = m.disabled /\ l.v4 = m.v4 /\ l.v6 = m.v6 /\ l.told = m.told
          /\ l.lost = m.lost /\ l.wakes = m.wakes
      BY <1>9, <3>1, LinkTimerSet
    <3>3. w \in IFState /\ SameBut(l, w) /\ (w.lost = l.lost \/ w.lost) /\ (address => w.lost)
      BY <1>10, <3>2, ReattachFacts
    <3>4. /\ w.active = air.active /\ w.same = air.same /\ w.disabled = t.disabled
          /\ w.timer = (~air.active /\ t.awake) /\ w.suppressed = (~air.active /\ ~t.awake)
          /\ w.due = v.due /\ w.wakes = v.wakes /\ w.told = v.told /\ (w.lost = v.lost \/ w.lost)
          /\ w.wifi = (IF air.active THEN air.at ELSE None) /\ Services(w)
      BY <2>1, <3>1, <3>2, <3>3 DEF SameBut, Remembered, Services
    <3>5. /\ h \in IFState /\ h = [w EXCEPT !.told = h.told, !.lost = h.lost]
          /\ ~air.active => h = w
          /\ air.active =>
                ~h.lost /\ h.told = IF LinkInfo(v) = "changed" \/ w.lost THEN w.wifi.net ELSE w.told
      BY <1>11, <3>3, <3>4, HearFacts
    <3>6. /\ h.active = air.active /\ h.same = air.same /\ h.disabled = t.disabled
          /\ h.timer = w.timer /\ h.suppressed = w.suppressed /\ h.due = v.due /\ h.wakes = v.wakes
          /\ h.wifi = w.wifi /\ Services(h)
      BY <3>3, <3>4, <3>5 DEF IFState, Services
    <3>7. Read(h)
      BY <3>4, <3>6 DEF Read
    <3>8. Seen(h) /\ Once(h)
      BY <1>1, <2>1, <3>4, <3>6 DEF Seen, Once
    <3>9. Known(h)
      <4>1. CASE air.active
        BY <2>1, <3>4, <3>5, <3>6, <4>1 DEF Known
      <4>2. CASE ~air.active
        BY <3>4, <3>6, <4>2 DEF Known
      <4> QED BY <4>1, <4>2
    <3>10. Waits(h)
      <4> SUFFICES ASSUME ~air.active, ~h.lost PROVE (h.timer \/ h.suppressed) /\ ~h.due
        BY <3>6 DEF Waits
      <4>1. h = w /\ ~address
        BY <3>3, <3>5
      <4>2. h.timer \/ h.suppressed
        BY <3>4, <4>1 DEF IFState
      <4> QED BY <1>6, <2>1, <3>6, <4>1, <4>2
    <3>11. link_key_changed(t, address) = h
      BY <1>12, <2>3
    <3> QED BY <3>5, <3>6, <3>7, <3>8, <3>9, <3>10, <3>11 DEF Fit
  <2> QED BY <2>2, <2>3
<1> QED BY <1>14, <1>15

-----------------------------------------------------------------------------
(* Steps.                                                                  *)

\* A step that leaves the link alone and loses no change of it.
LEMMA Kept ==
    ASSUME InterfaceInv, UNCHANGED air, "Link" \in keys => "Link" \in keys',
           f' \in IFState, Fit(f'), f'.disabled = f.disabled, Services(f') <=> Services(f),
           Read(f) => Read(f')
    PROVE  InterfaceInv'
<1>1. AirOK' /\ (f'.disabled => ~air'.active)
  BY DEF InterfaceInv, AirOK
<1>2. Fit(f)'
  BY DEF Fit, Known, Seen, Waits, Once, Services
<1>3. (Services(f) /\ "Link" \notin keys => Read(f))'
  BY DEF InterfaceInv, Services, Read
<1> QED BY <1>1, <1>2, <1>3 DEF InterfaceInv

\* A step that changes the link, with its change on its way.
LEMMA Moved ==
    ASSUME InterfaceInv, air' \in [active : BOOLEAN, same : BOOLEAN, at : Info],
           air'.active => air'.at \in AccessPoints,
           f' \in IFState, Fit(f'), f'.disabled => ~air'.active,
           Services(f') /\ "Link" \notin keys' =>
               f'.active = air'.active /\ (air'.active => f'.wifi.net = air'.at.net)
    PROVE  InterfaceInv'
<1>1. AirOK'
  BY DEF AirOK
<1>2. Fit(f)'
  BY DEF Fit, Known, Seen, Waits, Once, Services
<1>3. (Services(f) /\ "Link" \notin keys => Read(f))'
  BY DEF Services, Read
<1> QED BY <1>1, <1>2, <1>3 DEF InterfaceInv

LEMMA StepServiceAdded == ASSUME NEW v6 \in BOOLEAN, InterfaceInv, ServiceAdded(v6) PROVE InterfaceInv'
<1>1. PICK d : d = [f EXCEPT !.due = FALSE]
  OBVIOUS
<1>2. PICK c : c = if_link_copy(d)
  OBVIOUS
<1>3. PICK i : i = [c EXCEPT !.wifi = WiFiInfoCopy]
  OBVIOUS
<1>4. PICK t : t = IF Services(f) THEN f ELSE i
  OBVIOUS
<1>5. PICK u : u = [t EXCEPT !.v6 = @ \/ v6, !.v4 = @ \/ ~v6]
  OBVIOUS
<1>6. PICK w : w = IF v6 /\ ~t.disabled THEN IFState_attach_IPv6(u) ELSE u
  OBVIOUS
<1>7. /\ f' = [w EXCEPT !.told = IF Services(f) THEN @ ELSE t.wifi.net,
                        !.lost = IF Services(f) THEN @ ELSE ~t.active]
      /\ UNCHANGED <<air, keys>>
  BY <1>1, <1>2, <1>3, <1>4, <1>5, <1>6 DEF ServiceAdded, IFState_set_wifi_info
<1>8. d \in IFState /\ d.disabled = f.disabled /\ d.wakes = f.wakes /\ ~d.due
  BY <1>1 DEF InterfaceInv, IFState
<1>9. /\ c \in IFState /\ c.active = air.active /\ c.disabled = f.disabled /\ ~c.due /\ c.wakes = f.wakes
  BY <1>2, <1>8, CopiedFacts DEF InterfaceInv
<1>10. /\ WiFiInfoCopy \in Info /\ (WiFiInfoCopy # None <=> air.active)
       /\ air.active => WiFiInfoCopy = air.at
  BY CopyFacts DEF InterfaceInv, AirOK
<1>11. /\ i \in IFState /\ i.active = air.active /\ i.disabled = f.disabled /\ ~i.due /\ i.wakes = f.wakes
       /\ i.wifi = WiFiInfoCopy
  BY <1>3, <1>9, <1>10 DEF IFState
<1>12. t \in IFState /\ t.disabled = f.disabled
  BY <1>4, <1>11 DEF InterfaceInv
<1>13. PICK b4 \in BOOLEAN, b6 \in BOOLEAN : u = [t EXCEPT !.v6 = b6, !.v4 = b4] /\ (b4 \/ b6)
  <2>1. PICK b6 \in BOOLEAN : b6 = (t.v6 \/ v6)
    OBVIOUS
  <2>2. PICK b4 \in BOOLEAN : b4 = (t.v4 \/ ~v6)
    OBVIOUS
  <2> QED BY <1>5, <2>1, <2>2
<1>14. /\ u \in IFState /\ Services(u) /\ u.active = t.active /\ u.same = t.same /\ u.wifi = t.wifi
       /\ u.timer = t.timer /\ u.suppressed = t.suppressed /\ u.due = t.due /\ u.disabled = t.disabled
       /\ u.told = t.told /\ u.lost = t.lost /\ u.wakes = t.wakes
  BY <1>12, <1>13 DEF IFState, Services
<1>15. w \in IFState /\ SameBut(u, w) /\ w.lost = u.lost
  BY <1>6, <1>14, AttachFacts DEF SameBut
<1>16. CASE Services(f)
  <2>1. f' = [w EXCEPT !.told = w.told, !.lost = w.lost]
    BY <1>7, <1>16
  <2>2. f' = w
    BY <1>15, <2>1 DEF IFState
  <2>3. t = f
    BY <1>4, <1>16
  <2>4. Fit(u)
    BY <1>14, <1>16, <2>3 DEF InterfaceInv, Fit, Known, Seen, Waits, Once
  <2>5. Fit(w)
    BY <1>14, <1>15, <2>4, SameFits
  <2>6. Services(w) /\ w.disabled = f.disabled /\ (Read(f) => Read(w))
    BY <1>14, <1>15, <2>3 DEF SameBut, Read, Services
  <2> QED BY <1>7, <1>15, <1>16, <2>2, <2>5, <2>6, Kept
<1>17. CASE ~Services(f)
  <2>1. PICK b \in BOOLEAN : b = ~t.active
    OBVIOUS
  <2>2. PICK n : n = t.wifi.net
    OBVIOUS
  <2>3. f' = [w EXCEPT !.told = n, !.lost = b]
    BY <1>7, <1>17, <2>1, <2>2
  <2>4. n \in Nets
    BY <1>12, <2>2, Names DEF IFState
  <2>5. PICK g : g = [w EXCEPT !.told = n, !.lost = b]
    OBVIOUS
  <2>6. /\ g \in IFState /\ g.told = n /\ g.lost = b /\ g.wifi = w.wifi /\ g.active = w.active /\ g.due = w.due
        /\ g.wakes = w.wakes /\ g.disabled = w.disabled
    BY <1>15, <2>4, <2>5 DEF IFState
  <2>7. /\ g.told = g.wifi.net /\ g.lost = ~g.active /\ g.active = air.active /\ g.wifi = WiFiInfoCopy
        /\ ~g.due /\ g.wakes = f.wakes /\ g.disabled = f.disabled
    BY <1>4, <1>11, <1>14, <1>15, <1>17, <2>1, <2>2, <2>6 DEF SameBut
  <2>8. Fit(g)
    BY <1>10, <2>7 DEF InterfaceInv, Fit, Known, Seen, Waits, Once
  <2>9. g.active = air.active /\ (air.active => g.wifi.net = air.at.net)
    BY <1>10, <2>7
  <2> QED BY <1>7, <2>3, <2>5, <2>6, <2>7, <2>8, <2>9, Moved DEF InterfaceInv, AirOK
<1> QED BY <1>16, <1>17

LEMMA DetachingFacts ==
    ASSUME NEW t \in IFState
    PROVE  LET g == Detaching(t)
           IN  g \in IFState /\ ~Services(g) /\ g.disabled = t.disabled /\ g.wakes = t.wakes /\ g.due = t.due
<1>1. PICK g : g = [t EXCEPT !.v4 = FALSE, !.v6 = FALSE, !.ll = "none", !.attached = FALSE,
                            !.lost = TRUE, !.told = NoNetwork]
  OBVIOUS
<1>2. g \in IFState /\ ~Services(g) /\ g.disabled = t.disabled /\ g.wakes = t.wakes /\ g.due = t.due
  BY <1>1, Names DEF IFState, Services
<1> QED BY <1>1, <1>2 DEF Detaching

LEMMA StepRemoveServices == ASSUME NEW v6 \in BOOLEAN, InterfaceInv, RemoveServices(v6) PROVE InterfaceInv'
<1>1. PICK b6 \in BOOLEAN : b6 = (f.v6 /\ ~v6)
  OBVIOUS
<1>2. PICK b4 \in BOOLEAN : b4 = (f.v4 /\ v6)
  OBVIOUS
<1>3. PICK u : u = [f EXCEPT !.v6 = b6, !.v4 = b4]
  OBVIOUS
<1>4. PICK t : t = IFState_detach_IPv6(u)
  OBVIOUS
<1>5. f' = (IF Services(t) THEN t ELSE Detaching(t)) /\ UNCHANGED <<air, keys>>
  BY <1>1, <1>2, <1>3, <1>4 DEF RemoveServices
<1>6. /\ u \in IFState /\ (Services(u) => Services(f)) /\ u.active = f.active /\ u.same = f.same
      /\ u.wifi = f.wifi /\ u.timer = f.timer /\ u.suppressed = f.suppressed /\ u.due = f.due
      /\ u.disabled = f.disabled /\ u.told = f.told /\ u.lost = f.lost /\ u.wakes = f.wakes
  <2>1. /\ u \in IFState /\ u.v6 = b6 /\ u.v4 = b4 /\ u.active = f.active /\ u.same = f.same
        /\ u.wifi = f.wifi /\ u.timer = f.timer /\ u.suppressed = f.suppressed /\ u.due = f.due
        /\ u.disabled = f.disabled /\ u.told = f.told /\ u.lost = f.lost /\ u.wakes = f.wakes
    BY <1>3 DEF InterfaceInv, IFState
  <2>2. Services(u) => Services(f)
    BY <1>1, <1>2, <2>1 DEF Services
  <2> QED BY <2>1, <2>2
<1>7. Fit(u) /\ (Read(f) => Read(u))
  BY <1>6 DEF InterfaceInv, Fit, Known, Seen, Waits, Once, Read
<1>8. t \in IFState /\ SameBut(u, t) /\ t.lost = u.lost
  BY <1>4, <1>6, DetachFacts
<1>9. Fit(t) /\ (Read(u) => Read(t)) /\ (Services(t) <=> Services(u)) /\ t.disabled = f.disabled
  BY <1>6, <1>7, <1>8, SameFits
<1>10. CASE Services(t)
  BY <1>5, <1>6, <1>7, <1>8, <1>9, <1>10, Kept
<1>11. CASE ~Services(t)
  <2>1. PICK g : g = Detaching(t)
    OBVIOUS
  <2>2. g \in IFState /\ ~Services(g) /\ g.disabled = f.disabled /\ g.wakes = t.wakes /\ g.due = t.due
    BY <1>8, <1>9, <2>1, DetachingFacts
  <2>3. Fit(g)
    BY <1>9, <2>2 DEF Fit, Known, Seen, Waits, Once
  <2> QED BY <1>5, <1>11, <2>1, <2>2, <2>3, Moved DEF InterfaceInv, AirOK
<1> QED BY <1>10, <1>11

LEMMA StepDetach == InterfaceInv /\ Detach => InterfaceInv'
<1> SUFFICES ASSUME InterfaceInv, Detach PROVE InterfaceInv'
  OBVIOUS
<1>1. PICK g : g = Detaching(f)
  OBVIOUS
<1>2. f' = g /\ UNCHANGED <<air, keys>>
  BY <1>1 DEF Detach
<1>3. g \in IFState /\ ~Services(g) /\ g.disabled = f.disabled /\ g.wakes = f.wakes /\ g.due = f.due
  BY <1>1, DetachingFacts DEF InterfaceInv
<1>4. Fit(g)
  BY <1>3 DEF InterfaceInv, Fit, Known, Seen, Waits, Once
<1> QED BY <1>2, <1>3, <1>4, Moved DEF InterfaceInv, AirOK

LEMMA StepLinkUp == ASSUME NEW at \in AccessPoints, InterfaceInv, LinkUp(at) PROVE InterfaceInv'
<1>1. /\ ~f.disabled /\ UNCHANGED f
      /\ air' = [active |-> TRUE, same |-> air.same /\ at.net = air.at.net, at |-> at]
      /\ "Link" \notin keys' => "Link" \notin keys /\ air.active /\ at.net = air.at.net
  BY DEF LinkUp
<1>2. PICK b \in BOOLEAN : b = (air.same /\ at.net = air.at.net)
  OBVIOUS
<1>3. PICK a : a = [active |-> TRUE, same |-> b, at |-> at]
  OBVIOUS
<1>4. a \in [active : BOOLEAN, same : BOOLEAN, at : Info] /\ a.active /\ a.at = at
  BY <1>3 DEF Info
<1>5. air' = a
  BY <1>1, <1>2, <1>3
<1>6. Services(f) /\ "Link" \notin keys' => f.active = air'.active /\ f.wifi.net = air'.at.net
  BY <1>1, <1>4, <1>5 DEF InterfaceInv, Read, AirOK, IFState
<1>7. f' \in IFState /\ Fit(f')
  BY <1>1 DEF InterfaceInv
<1> QED BY <1>1, <1>4, <1>5, <1>6, <1>7, Moved

LEMMA LeftFacts ==
    ASSUME InterfaceInv
    PROVE  Left \in [active : BOOLEAN, same : BOOLEAN, at : Info] /\ ~Left.active
<1>1. PICK p : p = IF f.awake /\ ~air.same THEN None ELSE air.at
  OBVIOUS
<1>2. PICK a : a = [air EXCEPT !.active = FALSE, !.at = p]
  OBVIOUS
<1>3. Left = a
  BY <1>1, <1>2 DEF Left
<1>4. p \in Info
  BY <1>1, Names DEF InterfaceInv, AirOK
<1>5. a \in [active : BOOLEAN, same : BOOLEAN, at : Info] /\ ~a.active
  BY <1>2, <1>4 DEF InterfaceInv, AirOK
<1> QED BY <1>3, <1>5

LEMMA StepLinkDown == InterfaceInv /\ LinkDown => InterfaceInv'
<1> SUFFICES ASSUME InterfaceInv, LinkDown PROVE InterfaceInv'
  OBVIOUS
<1>1. air' = Left /\ "Link" \in keys' /\ UNCHANGED f
  BY DEF LinkDown
<1>2. f' \in IFState /\ Fit(f')
  BY <1>1 DEF InterfaceInv
<1> QED BY <1>1, <1>2, LeftFacts, Moved

LEMMA StepLink == ASSUME NEW address \in BOOLEAN, InterfaceInv, Link(address) PROVE InterfaceInv'
<1>1. UNCHANGED air /\ f' = IF Services(f) THEN link_key_changed(f, address) ELSE f
  BY DEF Link
<1>2. CASE Services(f)
  <2>1. PICK r : r = link_key_changed(f, address)
    OBVIOUS
  <2>2. r \in IFState /\ Fit(r) /\ Read(r) /\ r.disabled = f.disabled
    BY <1>2, <2>1, LinkEvent DEF InterfaceInv
  <2> QED BY <1>1, <1>2, <2>1, <2>2, Moved DEF InterfaceInv, AirOK, Read
<1>3. CASE ~Services(f)
  BY <1>1, <1>3, Moved DEF InterfaceInv, AirOK
<1> QED BY <1>2, <1>3

LEMMA StepAirPort == InterfaceInv /\ AirPort => InterfaceInv'
<1> SUFFICES ASSUME InterfaceInv, AirPort PROVE InterfaceInv'
  OBVIOUS
<1>1. /\ UNCHANGED air /\ ("Link" \in keys => "Link" \in keys')
      /\ f' = IF Services(f) THEN ap_key_changed(f) ELSE f
  BY DEF AirPort
<1>2. CASE f' = f
  BY <1>1, <1>2, Kept DEF InterfaceInv
<1>3. CASE f' # f
  <2>1. /\ air.active /\ f.active /\ WiFiInfoCompare(f.wifi, WiFiInfoCopy) = "roamed"
        /\ f' = [f EXCEPT !.wifi = WiFiInfoCopy]
    BY <1>1, <1>3 DEF ap_key_changed, IFState_set_wifi_info
  <2>2. WiFiInfoCopy = air.at /\ WiFiInfoCopy \in Info /\ WiFiInfoCopy # None
    BY <2>1, CopyFacts DEF InterfaceInv, AirOK
  <2>3. f.wifi # None /\ f.wifi.net = air.at.net
    BY <2>1, <2>2 DEF WiFiInfoCompare
  <2>4. PICK g : g = [f EXCEPT !.wifi = air.at]
    OBVIOUS
  <2>5. /\ g \in IFState /\ g.wifi = air.at /\ g.active = f.active /\ g.same = f.same /\ g.timer = f.timer
        /\ g.suppressed = f.suppressed /\ g.due = f.due /\ g.disabled = f.disabled /\ g.v4 = f.v4 /\ g.v6 = f.v6
        /\ g.told = f.told /\ g.lost = f.lost /\ g.wakes = f.wakes
    BY <2>2, <2>4 DEF InterfaceInv, IFState
  <2>6. Fit(g)
    BY <2>2, <2>3, <2>5 DEF InterfaceInv, Fit, Known, Seen, Waits, Once, Services
  <2>7. (Services(g) <=> Services(f)) /\ (Read(f) => Read(g))
    BY <2>5 DEF Services, Read
  <2> QED BY <1>1, <2>1, <2>2, <2>4, <2>5, <2>6, <2>7, Kept
<1> QED BY <1>2, <1>3

LEMMA StepIPv6Changed == ASSUME NEW stale \in BOOLEAN, InterfaceInv, IPv6Changed(stale) PROVE InterfaceInv'
<1>1. /\ UNCHANGED air /\ ("Link" \in keys => "Link" \in keys')
      /\ f' = S_process_neighbor_adverts(handle_ipv6_linklocal_duplicated(f), stale)
  BY DEF IPv6Changed, ipv6_interface_address_changed
<1>2. PICK d : d = handle_ipv6_linklocal_duplicated(f)
  OBVIOUS
<1>3. d \in IFState /\ SameBut(f, d) /\ d.lost = f.lost
  BY <1>2, DuplicatedFacts DEF InterfaceInv
<1>4. f' \in IFState /\ SameBut(d, f') /\ f'.lost = d.lost
  BY <1>1, <1>2, <1>3, AdvertFacts
<1>5. SameBut(f, f') /\ f'.lost = f.lost
  BY <1>3, <1>4 DEF SameBut
<1>6. Fit(f') /\ (Read(f) => Read(f')) /\ (Services(f') <=> Services(f)) /\ f'.disabled = f.disabled
  BY <1>4, <1>5, SameFits DEF InterfaceInv
<1> QED BY <1>1, <1>4, <1>6, Kept

LEMMA StepTimer == InterfaceInv /\ link_timer_expired => InterfaceInv'
<1> SUFFICES ASSUME InterfaceInv, link_timer_expired PROVE InterfaceInv'
  OBVIOUS
<1>1. PICK d : d = [f EXCEPT !.timer = FALSE]
  OBVIOUS
<1>2. UNCHANGED <<air, keys>> /\ f' = process_link_timer_expired(d)
  BY <1>1 DEF link_timer_expired
<1>3. /\ d \in IFState /\ d.active = f.active /\ d.wifi = f.wifi /\ d.due = f.due /\ d.disabled = f.disabled
      /\ d.v4 = f.v4 /\ d.v6 = f.v6 /\ d.wakes = f.wakes
  BY <1>1 DEF InterfaceInv, IFState
<1>4. f' \in IFState /\ SameBut(d, f') /\ f'.lost
  BY <1>2, <1>3, ExpiredFacts
<1>5. Fit(f') /\ (Read(f) => Read(f')) /\ (Services(f') <=> Services(f)) /\ f'.disabled = f.disabled
  BY <1>3, <1>4 DEF SameBut, InterfaceInv, Fit, Known, Seen, Waits, Once, Read, Services
<1> QED BY <1>2, <1>4, <1>5, Kept

LEMMA StepSleep == InterfaceInv /\ Sleep => InterfaceInv'
<1> SUFFICES ASSUME InterfaceInv, Sleep PROVE InterfaceInv'
  OBVIOUS
<1>1. PICK a : a = [f EXCEPT !.awake = FALSE, !.sent = FALSE, !.adverts = FALSE]
  OBVIOUS
<1>2. PICK b : b = [f EXCEPT !.awake = FALSE, !.adverts = FALSE]
  OBVIOUS
<1>3. UNCHANGED <<air, keys>> /\ f' \in {a, b, f}
  BY <1>1, <1>2 DEF Sleep, PowerChanges, new_power_changed, power_changed
<1>4. f \in IFState
  BY DEF InterfaceInv
<1>6. /\ a \in IFState /\ a.active = f.active /\ a.same = f.same /\ a.wifi = f.wifi /\ a.timer = f.timer
      /\ a.suppressed = f.suppressed /\ a.due = f.due /\ a.disabled = f.disabled
      /\ a.v4 = f.v4 /\ a.v6 = f.v6 /\ a.told = f.told /\ a.lost = f.lost /\ a.wakes = f.wakes
  BY <1>1, <1>4 DEF IFState
<1>7. /\ b \in IFState /\ b.active = f.active /\ b.same = f.same /\ b.wifi = f.wifi /\ b.timer = f.timer
      /\ b.suppressed = f.suppressed /\ b.due = f.due /\ b.disabled = f.disabled
      /\ b.v4 = f.v4 /\ b.v6 = f.v6 /\ b.told = f.told /\ b.lost = f.lost /\ b.wakes = f.wakes
  BY <1>2, <1>4 DEF IFState
<1>5. f' \in IFState /\ Fit(f') /\ (Read(f) => Read(f')) /\ (Services(f') <=> Services(f)) /\ f'.disabled = f.disabled
  BY <1>3, <1>6, <1>7 DEF InterfaceInv, Fit, Known, Seen, Waits, Once, Read, Services
<1> QED BY <1>3, <1>5, Kept

\* A wake is new only when the system was asleep, and the link timer does not
\* run then.
LEMMA StepWake ==
    ASSUME NEW early \in BOOLEAN, NEW same \in BOOLEAN, InterfaceInv, Wake(early, same) PROVE InterfaceInv'
<1>1. PICK n : n = NewWake(f)
  OBVIOUS
<1>2. /\ n \in IFState /\ n.active = f.active /\ n.same = f.same /\ n.wifi = f.wifi /\ n.timer = f.timer
      /\ n.suppressed = f.suppressed /\ n.due /\ n.disabled = f.disabled /\ n.v4 = f.v4 /\ n.v6 = f.v6
      /\ n.told = f.told /\ n.lost = f.lost /\ n.wakes = 0
  BY <1>1 DEF InterfaceInv, IFState, NewWake
<1>3. ~f.timer => Fit(n)
  BY <1>2 DEF InterfaceInv, Fit, Known, Seen, Waits, Once, Services
<1>4. PICK u : u = IF f.awake THEN f ELSE n
  OBVIOUS
<1>5. ~f.awake => ~f.timer
  BY DEF Wake
<1>6. /\ u \in IFState /\ Fit(u) /\ u.disabled = f.disabled /\ (Services(u) <=> Services(f))
      /\ (Read(f) => Read(u))
  BY <1>2, <1>3, <1>4, <1>5 DEF InterfaceInv, Services, Read
<1>7. PICK r : r = S_deliver_wake_event(u)
  OBVIOUS
<1>8. /\ r \in IFState /\ Fit(r) /\ r.disabled = f.disabled /\ (Services(r) <=> Services(f))
      /\ (Read(f) => Read(r))
  BY <1>6, <1>7, Delivered DEF InterfaceInv
<1>9. PICK z : z = [r EXCEPT !.sent = TRUE]
  OBVIOUS
<1>10. z \in IFState /\ SameBut(r, z) /\ z.lost = r.lost
  BY <1>8, <1>9 DEF IFState, SameBut
<1>11. /\ Fit(z) /\ z.disabled = f.disabled /\ (Services(z) <=> Services(f)) /\ (Read(f) => Read(z))
  BY <1>8, <1>10, SameFits
<1>12. f' \in {u, r, z}
  <2>1. f' = IF f.maint THEN new_power_changed(f, TRUE, early) ELSE power_changed(f, TRUE)
    BY DEF Wake, PowerChanges
  <2>2. new_power_changed(f, TRUE, early) \in {u, z}
    BY <1>1, <1>4, <1>7, <1>9 DEF new_power_changed
  <2>3. power_changed(f, TRUE) \in {u, r}
    BY <1>1, <1>4, <1>7 DEF power_changed
  <2> QED BY <2>1, <2>2, <2>3
<1>13. /\ f' \in IFState /\ Fit(f') /\ f'.disabled = f.disabled /\ (Services(f') <=> Services(f))
       /\ (Read(f) => Read(f'))
  BY <1>6, <1>8, <1>10, <1>11, <1>12
<1>14. CASE f.awake
  BY <1>13, <1>14, Kept DEF Wake
<1>15. CASE ~f.awake
  <2>1. air' = [air EXCEPT !.same = same] /\ "Link" \in keys'
    BY <1>15 DEF Wake
  <2>2. PICK a : a = [air EXCEPT !.same = same]
    OBVIOUS
  <2>3. a \in [active : BOOLEAN, same : BOOLEAN, at : Info] /\ a.active = air.active /\ a.at = air.at
    BY <2>2 DEF InterfaceInv, AirOK
  <2> QED BY <1>13, <2>1, <2>2, <2>3, Moved DEF InterfaceInv, AirOK
<1> QED BY <1>14, <1>15

LEMMA StepKernel ==
    ASSUME NEW ll \in {"none", "ready", "duplicated"}, InterfaceInv, Kernel(ll) PROVE InterfaceInv'
<1>1. PICK b \in BOOLEAN : b = (f.attached /\ ll # "none")
  OBVIOUS
<1>2. PICK g : g = [f EXCEPT !.ll = ll, !.attached = b]
  OBVIOUS
<1>3. f' = g /\ UNCHANGED air /\ ("Link" \in keys => "Link" \in keys')
  BY <1>1, <1>2 DEF Kernel
<1>4. g \in IFState /\ SameBut(f, g) /\ g.lost = f.lost
  BY <1>2 DEF InterfaceInv, IFState, SameBut
<1>5. Fit(g) /\ (Read(f) => Read(g)) /\ (Services(g) <=> Services(f)) /\ g.disabled = f.disabled
  BY <1>4, SameFits DEF InterfaceInv
<1> QED BY <1>3, <1>4, <1>5, Kept

LEMMA StepDisable == ASSUME NEW on \in BOOLEAN, InterfaceInv, Disable(on) PROVE InterfaceInv'
<1>1. PICK t : t = [f EXCEPT !.disabled = on]
  OBVIOUS
<1>2. f' = IF ~on /\ f.v6 THEN IFState_attach_IPv6(t) ELSE t
  BY <1>1 DEF Disable
<1>3. /\ t \in IFState /\ t.active = f.active /\ t.same = f.same /\ t.wifi = f.wifi /\ t.timer = f.timer
      /\ t.suppressed = f.suppressed /\ t.due = f.due /\ t.disabled = on /\ t.v4 = f.v4 /\ t.v6 = f.v6
      /\ t.told = f.told /\ t.lost = f.lost /\ t.wakes = f.wakes
  BY <1>1 DEF InterfaceInv, IFState
<1>4. Fit(t) /\ (Services(t) <=> Services(f)) /\ (Read(f) => Read(t))
  BY <1>3 DEF InterfaceInv, Fit, Known, Seen, Waits, Once, Services, Read
<1>5. f' \in IFState /\ SameBut(t, f') /\ f'.lost = t.lost
  BY <1>2, <1>3, AttachFacts DEF SameBut
<1>6. /\ Fit(f') /\ (Services(f') <=> Services(f)) /\ (Read(f) => Read(f')) /\ f'.disabled = on
  BY <1>3, <1>4, <1>5, SameFits
<1>7. CASE on /\ air.active
  <2>1. air' = Left /\ "Link" \in keys'
    BY <1>7 DEF Disable
  <2> QED BY <1>5, <1>6, <2>1, LeftFacts, Moved
<1>8. CASE ~(on /\ air.active)
  <2>1. UNCHANGED <<air, keys>>
    BY <1>8 DEF Disable
  <2> QED BY <1>5, <1>6, <1>8, <2>1, Moved DEF InterfaceInv, AirOK, Read
<1> QED BY <1>7, <1>8

LEMMA Initially == InterfaceInit => InterfaceInv
<1> SUFFICES ASSUME InterfaceInit PROVE InterfaceInv
  OBVIOUS
<1>1. PICK b \in BOOLEAN : f = [Start EXCEPT !.maint = b]
  BY DEF InterfaceInit
<1>2. f \in IFState /\ ~f.v4 /\ ~f.v6 /\ ~f.disabled /\ f.wakes = 0
  <2>1. Start \in IFState /\ ~Start.v4 /\ ~Start.v6 /\ ~Start.disabled /\ Start.wakes = 0
    BY Names DEF Start, IFState
  <2> QED BY <1>1, <2>1 DEF IFState
<1>3. AirOK
  BY DEF InterfaceInit, AirOK, Info
<1>4. Fit(f) /\ ~Services(f)
  BY <1>2 DEF Fit, Known, Seen, Waits, Once, Services
<1> QED BY <1>2, <1>3, <1>4 DEF InterfaceInv

-----------------------------------------------------------------------------

\* The agent's account of an interface: what it remembers of Wi-Fi and has
\* told the services, which wakes are due, and what a link that is down waits
\* for.
THEOREM InterfaceInvariance == InterfaceSpec => []InterfaceInv
<1>1. InterfaceInv /\ [InterfaceNext]_interfaceVars => InterfaceInv'
  <2> SUFFICES ASSUME InterfaceInv, [InterfaceNext]_interfaceVars PROVE InterfaceInv'
    OBVIOUS
  <2>1. CASE UNCHANGED interfaceVars
    BY <2>1, Kept DEF interfaceVars, InterfaceInv
  <2>2. CASE \E b \in BOOLEAN : ServiceAdded(b) \/ RemoveServices(b) \/ Link(b) \/ Disable(b) \/ IPv6Changed(b)
    BY <2>2, StepServiceAdded, StepRemoveServices, StepLink, StepDisable, StepIPv6Changed
  <2>3. CASE \E at \in AccessPoints : LinkUp(at)
    BY <2>3, StepLinkUp
  <2>4. CASE LinkDown \/ AirPort \/ Detach \/ link_timer_expired \/ Sleep
    BY <2>4, StepLinkDown, StepAirPort, StepDetach, StepTimer, StepSleep
  <2>5. CASE \E early, same \in BOOLEAN : Wake(early, same)
    BY <2>5, StepWake
  <2>6. CASE \E ll \in {"none", "ready", "duplicated"} : Kernel(ll)
    BY <2>6, StepKernel
  <2> QED BY <2>1, <2>2, <2>3, <2>4, <2>5, <2>6 DEF InterfaceNext
<1> QED BY <1>1, Initially, PTL DEF InterfaceSpec

\* However wake notifications, early wakes and link events interleave, the
\* services of an interface get at most one wake event for each wake.
THEOREM OneWake == InterfaceSpec => []AtMostOneWake
<1>1. InterfaceInv => AtMostOneWake
  BY DEF InterfaceInv, Fit, Once, AtMostOneWake
<1> QED BY <1>1, InterfaceInvariance, PTL

\* Once every change of the link is handled, services that were not told that
\* it is gone have been told of the network that the interface is on.
THEOREM NetworkIsTold == InterfaceSpec => []ServicesKnowNetwork
<1>1. InterfaceInv => ServicesKnowNetwork
  <2> SUFFICES ASSUME InterfaceInv, Services(f), "Link" \notin keys, ~f.lost, air.active
               PROVE  f.told = air.at.net
    BY DEF ServicesKnowNetwork
  <2>1. f.active /\ f.wifi.net = air.at.net
    BY DEF InterfaceInv, Read
  <2> QED BY <2>1 DEF InterfaceInv, Fit, Known, Seen
<1> QED BY <1>1, InterfaceInvariance, PTL

-----------------------------------------------------------------------------
-----------------------------------------------------------------------------
(* ServiceList: services, their addresses and what is published.            *)

Addr ==
    {NoAddr, "leased", "static", "old"} \cup LinkLocals
      \cup UNION {UNION {{Setups[n].conf[i][m].want : m \in DOMAIN Setups[n].conf[i]} : i \in NetIf} : n \in DOMAIN Setups}
Status == {"success", "failure", "no server"}

Service ==
    [id : IDs, method : Methods, want : Addr, dynamic : BOOLEAN, parent : IDs \cup {NoID},
     child : BOOLEAN, addr : Addr, ready : BOOLEAN, status : Status, wait : {"start", "none"},
     allocate : BOOLEAN]
Interface ==
    [v4 : Seq(Service), v6 : Seq(Service), requested : BOOLEAN, disabled : BOOLEAN,
     scrubbed : BOOLEAN, ll : Addr]
Agent ==
    [list : SUBSET NetIf, if : [NetIf -> Interface], attn : SUBSET {"linklocal", "disable", "publish"},
     kernel : SUBSET (NetIf \X Addr), store : [IDs -> Addr], last : SUBSET IDs, misled : SUBSET IDs]

\* The services of an interface, whatever their order.
El(a, i) == ToSet(a.if[i].v4)
El6(a, i) == ToSet(a.if[i].v6)

Rest(a, b) == b.store = a.store /\ b.misled = a.misled

LEMMA Least ==
    ASSUME NEW T, T \subseteq Nat, T # {}
    PROVE \E x \in T : \A y \in T : x <= y
<1>1. \E x \in T : \A y \in T : <<y, x>> \notin OpToRel(<,Nat)
  BY NatLessThanWellFounded, WFMin
<1>2. \A x,y \in Nat : <<y,x>> \notin OpToRel(<,Nat) => x <= y
  BY DEF OpToRel
<1> QED BY <1>1, <1>2

-----------------------------------------------------------------------------

LEMMA PutElements ==
    ASSUME NEW S, NEW list \in Seq(S), NEW t \in S
    PROVE  /\ Put(list, t) \in Seq(S)
           /\ ToSet(Put(list, t)) = {IF s.id = t.id THEN t ELSE s : s \in ToSet(list)}
<1>1. Len(list) \in Nat /\ DOMAIN list = 1..Len(list) /\ \A n \in 1..Len(list) : list[n] \in S
  BY LenProperties
<1>2. \A n \in 1..Len(list) : (IF list[n].id = t.id THEN t ELSE list[n]) \in S
  BY <1>1
<1>3. Put(list, t) \in Seq(S)
  BY <1>1, <1>2, IsASeq DEF Put
<1>4. DOMAIN Put(list, t) = 1..Len(list)
  BY <1>1 DEF Put
<1>5. \A n \in 1..Len(list) : Put(list, t)[n] = IF list[n].id = t.id THEN t ELSE list[n]
  BY <1>1 DEF Put
<1>6. ToSet(Put(list, t)) = {IF s.id = t.id THEN t ELSE s : s \in ToSet(list)}
  BY <1>1, <1>4, <1>5 DEF ToSet
<1> QED BY <1>3, <1>6

LEMMA AppendElements ==
    ASSUME NEW S, NEW list \in Seq(S), NEW t \in S
    PROVE  Append(list, t) \in Seq(S) /\ ToSet(Append(list, t)) = ToSet(list) \cup {t}
<1>1. Len(list) \in Nat /\ DOMAIN list = 1..Len(list)
  BY LenProperties
<1>2. PICK r : r = Append(list, t)
  OBVIOUS
<1>3. /\ r \in Seq(S) /\ DOMAIN r = 1..Len(list) + 1 /\ r[Len(list) + 1] = t
      /\ \A n \in 1..Len(list) : r[n] = list[n]
  BY <1>1, <1>2, AppendProperties, LenProperties
<1>4. ToSet(r) = ToSet(list) \cup {t}
  BY <1>1, <1>3 DEF ToSet
<1> QED BY <1>2, <1>3, <1>4

-----------------------------------------------------------------------------
(* Loops are recursive functions over the turns: that one exists, and what *)
(* it keeps, is shown by looking at the least turn at which it would not.  *)

Loop(G, a, fn, n) == fn = [m \in 0..n |-> IF m = 0 THEN a ELSE G[m][fn[m - 1]]]

LEMMA LoopExists ==
    ASSUME NEW G, NEW a, NEW n \in Nat
    PROVE  \E fn : Loop(G, a, fn, n)
<1> DEFINE T == {m \in Nat : ~ \E fn : Loop(G, a, fn, m)}
<1>1. SUFFICES ASSUME T # {} PROVE FALSE
  OBVIOUS
<1>2. PICK m \in T : \A y \in T : m <= y
  BY <1>1, Least
<1>3. CASE m = 0
  <2>1. Loop(G, a, [k \in 0..0 |-> a], 0)
    BY DEF Loop
  <2> QED BY <2>1, <1>2, <1>3
<1>4. CASE m # 0
  <2>1. PICK g : Loop(G, a, g, m - 1)
    BY <1>2, <1>4
  <2> DEFINE h == [k \in 0..m |-> IF k < m THEN g[k] ELSE G[m][g[m - 1]]]
  <2>2. m \in Nat /\ m > 0
    BY <1>4, <1>2
  <2>3. \A k \in 0..m-1 : g[k] = IF k = 0 THEN a ELSE G[k][g[k - 1]]
    BY <2>1 DEF Loop
  <2>4. \A k \in 0..m : h[k] = IF k = 0 THEN a ELSE G[k][h[k - 1]]
    <3> TAKE k \in 0..m
    <3>1. CASE k < m
      <4>1. k = 0 \/ k - 1 \in 0..m
        BY <2>2
      <4>2. h[k] = g[k] /\ (k # 0 => h[k - 1] = g[k - 1])
        BY <2>2, <3>1, <4>1
      <4> QED BY <2>2, <2>3, <3>1, <4>2
    <3>2. CASE k = m
      <4>1. m - 1 \in 0..m /\ m - 1 < m /\ m \in 0..m
        BY <2>2
      <4>2. h[m - 1] = g[m - 1] /\ h[m] = G[m][g[m - 1]]
        BY <4>1
      <4> QED BY <2>2, <3>2, <4>2
    <3> QED BY <2>2, <3>1, <3>2
  <2>5. h = [k \in 0..m |-> h[k]]
    OBVIOUS
  <2>6. Loop(G, a, h, m)
    <3> HIDE DEF h
    <3> QED BY <2>4, <2>5 DEF Loop
  <2> QED BY <2>6, <1>2
<1> QED BY <1>3, <1>4

LEMMA Carried ==
    ASSUME NEW n \in Nat, NEW fn, NEW T, fn[0] \in T[0],
           \A m \in 1..n : fn[m - 1] \in T[m - 1] => fn[m] \in T[m]
    PROVE  \A m \in 0..n : fn[m] \in T[m]
<1> DEFINE Bad == {m \in 0..n : fn[m] \notin T[m]}
<1>1. SUFFICES ASSUME Bad # {} PROVE FALSE
  OBVIOUS
<1>2. Bad \subseteq Nat
  OBVIOUS
<1>3. PICK m \in Bad : \A y \in Bad : m <= y
  <2> HIDE DEF Bad
  <2> QED BY <1>1, <1>2, Least
<1>4. m # 0 /\ m \in 1..n /\ m - 1 \in 0..n /\ m - 1 \notin Bad
  BY <1>3
<1> QED BY <1>3, <1>4

\* G keeps T from turn to turn; fn goes through T; fn is a run of G inside T.
Carries(G, T, n) == \A m \in 1..n : \A r \in T[m - 1] : G[m][r] \in T[m]
Follows(fn, G, T, n) == \A m \in 1..n : fn[m - 1] \in T[m - 1] => fn[m] = G[m][fn[m - 1]]

LEMMA LoopEnds ==
    ASSUME NEW n \in Nat, NEW T, NEW G, NEW fn, fn[0] \in T[0], Carries(G, T, n), Follows(fn, G, T, n)
    PROVE  \A m \in 0..n : fn[m] \in T[m]
<1>1. \A m \in 1..n : fn[m - 1] \in T[m - 1] => fn[m] \in T[m]
  BY DEF Carries, Follows
<1> QED BY <1>1, Carried

LEMMA LoopRuns ==
    ASSUME NEW n \in Nat, NEW T, NEW G, NEW a, a \in T[0], Carries(G, T, n)
    PROVE  \E fn : Loop(G, a, fn, n) /\ \A m \in 0..n : fn[m] \in T[m]
<1>1. PICK fn : Loop(G, a, fn, n)
  BY LoopExists
<1>2. fn[0] = a /\ \A m \in 1..n : fn[m] = G[m][fn[m - 1]]
  BY <1>1 DEF Loop
<1>3. Follows(fn, G, T, n)
  BY <1>2 DEF Follows
<1>4. \A m \in 0..n : fn[m] \in T[m]
  BY <1>2, <1>3, LoopEnds
<1> QED BY <1>1, <1>4

\* The same for turns that all stay in one set.
LEMMA Stays ==
    ASSUME NEW n \in Nat, NEW S, NEW fn, fn[0] \in S, \A m \in 1..n : fn[m - 1] \in S => fn[m] \in S
    PROVE  fn[n] \in S /\ \A m \in 0..n : fn[m] \in S
<1> DEFINE T == [m \in 0..n |-> S]
<1>1. fn[0] \in T[0] /\ \A m \in 1..n : fn[m - 1] \in T[m - 1] => fn[m] \in T[m]
  OBVIOUS
<1>2. \A m \in 0..n : T[m] = S
  OBVIOUS
<1> HIDE DEF T
<1>3. \A m \in 0..n : fn[m] \in T[m]
  BY <1>1, Carried
<1> QED BY <1>2, <1>3

LEMMA LoopStays ==
    ASSUME NEW n \in Nat, NEW S, NEW G, NEW a \in S, \A m \in 1..n : \A b \in S : G[m][b] \in S
    PROVE  \E fn : Loop(G, a, fn, n) /\ \A m \in 0..n : fn[m] \in S
<1>1. PICK fn : Loop(G, a, fn, n)
  BY LoopExists
<1>2. fn[0] = a /\ \A m \in 1..n : fn[m] = G[m][fn[m - 1]]
  BY <1>1 DEF Loop
<1>3. \A m \in 0..n : fn[m] \in S
  BY <1>2, Stays
<1> QED BY <1>1, <1>3

\* The elements of a list that are in keep.
LEMMA OnlyElements ==
    ASSUME NEW S, NEW list \in Seq(S), NEW keep
    PROVE  Only(list, keep) \in Seq(S) /\ ToSet(Only(list, keep)) = ToSet(list) \cap keep
<1> DEFINE N == Len(list)
           T == [m \in 0..N |-> {r \in Seq(S) : ToSet(r) = {list[k] : k \in 1..m} \cap keep}]
           Turn(m, r) == IF list[m] \in keep THEN Append(r, list[m]) ELSE r
           G == [m \in 1..N |-> [r \in T[m - 1] |-> Turn(m, r)]]
           Runs(fn) == fn = [m \in 0..N |-> IF m = 0 THEN <<>> ELSE Turn(m, fn[m - 1])]
           g == CHOOSE fn : Runs(fn)
<1>1. N \in Nat /\ DOMAIN list = 1..N /\ \A k \in 1..N : list[k] \in S
  BY LenProperties
<1>2. <<>> \in T[0]
  <2>1. ToSet(<<>>) = {}
    BY DEF ToSet
  <2>2. {list[k] : k \in 1..0} = {}
    OBVIOUS
  <2> QED BY <1>1, <2>1, <2>2
<1>3. \A m \in 1..N : \A r \in T[m - 1] : G[m][r] = Turn(m, r) /\ Turn(m, r) \in T[m]
  <2> SUFFICES ASSUME NEW m \in 1..N, NEW r \in T[m - 1]
               PROVE  G[m][r] = Turn(m, r) /\ Turn(m, r) \in T[m]
    OBVIOUS
  <2>1. m - 1 \in 0..N /\ m \in 0..N /\ list[m] \in S
    BY <1>1
  <2>2. r \in Seq(S) /\ ToSet(r) = {list[k] : k \in 1..(m - 1)} \cap keep
    BY <2>1
  <2>3. {list[k] : k \in 1..m} = {list[k] : k \in 1..(m - 1)} \cup {list[m]}
    <3>1. \A k : k \in 1..m <=> k \in 1..(m - 1) \/ k = m
      BY <1>1
    <3> QED BY <3>1
  <2>4. Append(r, list[m]) \in Seq(S) /\ ToSet(Append(r, list[m])) = ToSet(r) \cup {list[m]}
    BY <2>1, <2>2, AppendElements
  <2>5. Turn(m, r) \in Seq(S) /\ ToSet(Turn(m, r)) = {list[k] : k \in 1..m} \cap keep
    BY <2>2, <2>3, <2>4
  <2>6. G[m][r] = Turn(m, r)
    <3> HIDE DEF T, Turn
    <3> QED OBVIOUS
  <2> QED BY <2>1, <2>5, <2>6
<1>4. Only(list, keep) = g[N]
  <2> HIDE DEF T
  <2> QED BY DEF Only
<1>5. {list[k] : k \in 1..N} = ToSet(list)
  BY <1>1 DEF ToSet
<1>6. \A x : x \in T[N] => x \in Seq(S) /\ ToSet(x) = {list[k] : k \in 1..N} \cap keep
  BY <1>1
<1>7. g[N] \in T[N]
  <2> HIDE DEF T, Turn, G, N
  <2>1. Carries(G, T, N)
    BY <1>3 DEF Carries
  <2>2. \E fn : Runs(fn)
    <3>1. PICK fn : Loop(G, <<>>, fn, N) /\ \A m \in 0..N : fn[m] \in T[m]
      BY <1>1, <1>2, <2>1, LoopRuns
    <3>2. \A m \in 1..N : m - 1 \in 0..N /\ m # 0
      BY <1>1
    <3>3. \A m \in 1..N : G[m][fn[m - 1]] = Turn(m, fn[m - 1])
      BY <1>3, <3>1, <3>2
    <3>4. \A m \in 0..N : m \in 1..N \/ m = 0
      BY <1>1
    <3>5. fn = [m \in 0..N |-> IF m = 0 THEN <<>> ELSE Turn(m, fn[m - 1])]
      BY <3>1, <3>3, <3>4 DEF Loop
    <3> QED BY <3>5
  <2>3. g = [m \in 0..N |-> IF m = 0 THEN <<>> ELSE Turn(m, g[m - 1])]
    BY <2>2
  <2> HIDE DEF g, Runs
  <2>4. g[0] = <<>> /\ \A m \in 1..N : g[m] = Turn(m, g[m - 1])
    BY <1>1, <2>3
  <2>5. Follows(g, G, T, N)
    BY <1>3, <2>4 DEF Follows
  <2>6. \A m \in 0..N : g[m] \in T[m]
    BY <1>1, <1>2, <2>1, <2>4, <2>5, LoopEnds
  <2> QED BY <1>1, <2>6
<1> QED BY <1>1, <1>4, <1>5, <1>6, <1>7

-----------------------------------------------------------------------------
(* The inductive invariant.                                                *)

Unique(a, i) == \A s, t \in El(a, i) : s.id = t.id => s = t

\* A service without a configuration is the link-local child of one that has.
Kin(i, s) ==
    /\ IsV4(s.method)
    /\ s.id \in ServiceIDs => s.parent = NoID
    /\ s.id \notin ServiceIDs => s.id = LLID(i) /\ s.method = "linklocal" /\ s.parent \in ServiceIDs
    /\ s.method = "linklocal" => ~s.child

Shape(a) ==
    \A i \in NetIf : /\ Unique(a, i) /\ \A s \in El(a, i) : Kin(i, s)
                     /\ \A s \in El6(a, i) : ~IsV4(s.method)

Assigned(a) == \A i \in NetIf : \A s \in El(a, i) : s.addr # NoAddr => <<i, s.addr>> \in a.kernel

\* Children publish under their parent's identifier.
NoEntity(a) == \A i \in NetIf : a.store[LLID(i)] = NoAddr

Free(a, i, id) == \E p \in El(a, i) : p.id = id /\ p.addr = NoAddr
\* Service s of interface i is the one that the entity of id stands for.
Serves(a, i, s, id) == s.id = id \/ (s.parent = id /\ Free(a, i, id))

\* Every entity stands for a service, but those in X: the ones a handler is
\* about to publish or clear.
Backs(a, id) == \E i \in NetIf : \E s \in El(a, i) : s.addr = a.store[id] /\ Serves(a, i, s, id)
Backed(a, X) == \A id \in IDs \ (a.misled \cup X) : a.store[id] # NoAddr => Backs(a, id)

J(a, X) == a \in Agent /\ Shape(a) /\ Assigned(a) /\ NoEntity(a) /\ Backed(a, X)
ServiceInv == J(ag, {}) /\ setup \in DOMAIN Setups

\* The entities that a change of s concerns.
Dep(a, i, s) == {s.id} \cup {id \in {s.parent} : Free(a, i, id)}

\* What a change of one service leaves alone.
Like(s, t) == s.id = t.id /\ s.method = t.method /\ s.parent = t.parent /\ s.addr = t.addr
Swapped(a, b, i, s, t) ==
    /\ El(b, i) = (El(a, i) \ {s}) \cup {t}
    /\ \A j \in NetIf \ {i} : El(b, j) = El(a, j)
    /\ \A j \in NetIf : El6(b, j) = El6(a, j)

-----------------------------------------------------------------------------
(* Types.                                                                  *)

LEMMA Identifiers ==
    /\ NoAddr \in Addr /\ "static" \in Addr /\ "leased" \in Addr /\ "old" \in Addr /\ LinkLocals \subseteq Addr
    /\ NoID \notin IDs /\ ServiceIDs \subseteq IDs /\ "dynamic" \in ServiceIDs
    /\ \A i \in NetIf : LLID(i) \in IDs \ ServiceIDs
<1>1. NoID \notin IDs
  BY ServiceAssumption DEF IDs, LLID
<1> QED BY <1>1, ServiceAssumption DEF Addr, IDs, LLID

LEMMA Elements ==
    ASSUME NEW a \in Agent, NEW i \in NetIf
    PROVE  /\ a.if[i] \in Interface /\ a.if[i].v4 \in Seq(Service) /\ a.if[i].v6 \in Seq(Service)
           /\ El(a, i) \subseteq Service /\ El6(a, i) \subseteq Service
<1>1. a.if[i] \in Interface /\ a.if[i].v4 \in Seq(Service) /\ a.if[i].v6 \in Seq(Service)
  BY DEF Agent, Interface
<1>2. \A l \in Seq(Service) : ToSet(l) \subseteq Service
  BY LenProperties, ElementOfSeq DEF ToSet
<1> QED BY <1>1, <1>2 DEF El, El6

\* Looking a service up finds it.
LEMMA Found ==
    ASSUME NEW list, NEW id, HasID(list, id)
    PROVE  GetID(list, id) \in ToSet(list) /\ GetID(list, id).id = id
<1> DEFINE n == CHOOSE n \in DOMAIN list : list[n].id = id
<1>1. n \in DOMAIN list /\ list[n].id = id
  BY DEF HasID
<1> QED BY <1>1 DEF GetID, ToSet

LEMMA Has ==
    ASSUME NEW list, NEW s \in ToSet(list)
    PROVE  HasID(list, s.id)
  BY DEF HasID, ToSet

LEMMA FoundV4 ==
    ASSUME NEW a, NEW i \in NetIf, NEW id
    PROVE  /\ IFStateGetServiceWithID(a, i, id, TRUE) <=> \E s \in El(a, i) : s.id = id
           /\ IFStateGetServiceWithID(a, i, id, TRUE) => The(a, i, id) \in El(a, i) /\ The(a, i, id).id = id
           /\ IFStateGetServiceWithID(a, i, id, FALSE) =>
                  GetID(a.if[i].v6, id) \in El6(a, i) /\ GetID(a.if[i].v6, id).id = id
  BY Found, Has DEF IFStateGetServiceWithID, Of, The, El, El6

LEMMA TheOne ==
    ASSUME NEW a, Shape(a), NEW i \in NetIf, NEW s \in El(a, i)
    PROVE  The(a, i, s.id) = s /\ IFStateGetServiceWithID(a, i, s.id, TRUE)
<1>1. IFStateGetServiceWithID(a, i, s.id, TRUE)
  BY FoundV4
<1>2. The(a, i, s.id) \in El(a, i) /\ The(a, i, s.id).id = s.id
  BY <1>1, FoundV4
<1>3. Unique(a, i)
  BY DEF Shape
<1>4. The(a, i, s.id) = s
  BY <1>2, <1>3 DEF Unique
<1> QED BY <1>1, <1>4

-----------------------------------------------------------------------------
(* What the elementary steps change.                                       *)

\* All but the lists of IPv4 services, the store and the kernel.
LEMMA SetV4 ==
    ASSUME NEW a \in Agent, NEW i \in NetIf, NEW list \in Seq(Service), NEW b,
           b = [a EXCEPT !.if[i].v4 = list]
    PROVE  /\ b \in Agent /\ Rest(a, b) /\ b.kernel = a.kernel /\ El(b, i) = ToSet(list)
           /\ \A j \in NetIf \ {i} : El(b, j) = El(a, j)
           /\ \A j \in NetIf : El6(b, j) = El6(a, j)
<1>1. b \in Agent /\ Rest(a, b) /\ b.kernel = a.kernel
  BY DEF Agent, Interface, Rest
<1>2. b.if[i].v4 = list /\ \A j \in NetIf \ {i} : b.if[j].v4 = a.if[j].v4
  BY DEF Agent, Interface
<1>3. \A j \in NetIf : b.if[j].v6 = a.if[j].v6
  BY DEF Agent, Interface
<1> QED BY <1>1, <1>2, <1>3 DEF El, El6

LEMMA SetV6 ==
    ASSUME NEW a \in Agent, NEW i \in NetIf, NEW list \in Seq(Service), NEW b,
           b = [a EXCEPT !.if[i].v6 = list]
    PROVE  /\ b \in Agent /\ Rest(a, b) /\ b.kernel = a.kernel /\ El6(b, i) = ToSet(list)
           /\ \A j \in NetIf \ {i} : El6(b, j) = El6(a, j)
           /\ \A j \in NetIf : El(b, j) = El(a, j)
<1>1. b \in Agent /\ Rest(a, b) /\ b.kernel = a.kernel
  BY DEF Agent, Interface, Rest
<1>2. b.if[i].v6 = list /\ \A j \in NetIf \ {i} : b.if[j].v6 = a.if[j].v6
  BY DEF Agent, Interface
<1>3. \A j \in NetIf : b.if[j].v4 = a.if[j].v4
  BY DEF Agent, Interface
<1> QED BY <1>1, <1>2, <1>3 DEF El, El6

\* The same lists.
Lists(a, b) == \A j \in NetIf : El(b, j) = El(a, j) /\ El6(b, j) = El6(a, j)

LEMMA SameIf ==
    ASSUME NEW a, NEW b, b.if = a.if
    PROVE  Lists(a, b)
  BY DEF Lists, El, El6

LEMMA AttentionFacts ==
    ASSUME NEW a \in Agent, NEW what \in SUBSET {"linklocal", "disable", "publish"}, NEW b, b = Attention(a, what)
    PROVE  b \in Agent /\ Rest(a, b) /\ b.kernel = a.kernel /\ Lists(a, b)
<1>1. b \in Agent /\ Rest(a, b) /\ b.kernel = a.kernel /\ b.if = a.if
  BY DEF Agent, Attention, Rest
<1> QED BY <1>1, SameIf

LEMMA KernelFacts ==
    ASSUME NEW a \in Agent, NEW k \in SUBSET (NetIf \X Addr), NEW b, b = [a EXCEPT !.kernel = k]
    PROVE  b \in Agent /\ Rest(a, b) /\ b.kernel = k /\ Lists(a, b)
<1>1. b \in Agent /\ Rest(a, b) /\ b.kernel = k /\ b.if = a.if
  BY DEF Agent, Rest
<1> QED BY <1>1, SameIf

LEMMA SetFacts ==
    ASSUME NEW a \in Agent, NEW i \in NetIf, NEW t \in Service, IsV4(t.method), NEW b, b = Set(a, i, t)
    PROVE  /\ b \in Agent /\ Rest(a, b) /\ b.kernel = a.kernel
           /\ El(b, i) = {IF s.id = t.id THEN t ELSE s : s \in El(a, i)}
           /\ \A j \in NetIf \ {i} : El(b, j) = El(a, j)
           /\ \A j \in NetIf : El6(b, j) = El6(a, j)
<1>1. b = [a EXCEPT !.if[i].v4 = Put(a.if[i].v4, t)]
  BY DEF Set
<1>2. Put(a.if[i].v4, t) \in Seq(Service) /\ ToSet(Put(a.if[i].v4, t)) = {IF s.id = t.id THEN t ELSE s : s \in El(a, i)}
  BY Elements, PutElements DEF El
<1> QED BY <1>1, <1>2, SetV4

LEMMA Set6Facts ==
    ASSUME NEW a \in Agent, NEW i \in NetIf, NEW t \in Service, ~IsV4(t.method), NEW b, b = Set(a, i, t)
    PROVE  /\ b \in Agent /\ Rest(a, b) /\ b.kernel = a.kernel
           /\ El6(b, i) = {IF s.id = t.id THEN t ELSE s : s \in El6(a, i)}
           /\ \A j \in NetIf \ {i} : El6(b, j) = El6(a, j)
           /\ \A j \in NetIf : El(b, j) = El(a, j)
<1>1. b = [a EXCEPT !.if[i].v6 = Put(a.if[i].v6, t)]
  BY DEF Set
<1>2. Put(a.if[i].v6, t) \in Seq(Service) /\ ToSet(Put(a.if[i].v6, t)) = {IF s.id = t.id THEN t ELSE s : s \in El6(a, i)}
  BY Elements, PutElements DEF El6
<1> QED BY <1>1, <1>2, SetV6

\* A service that there is takes its new place.
LEMMA Swaps ==
    ASSUME NEW a \in Agent, Shape(a), NEW i \in NetIf, NEW s \in El(a, i),
           NEW t \in Service, t.id = s.id, Kin(i, t), NEW b, b = Set(a, i, t)
    PROVE  b \in Agent /\ Rest(a, b) /\ b.kernel = a.kernel /\ Swapped(a, b, i, s, t) /\ Shape(b)
<1>1. IsV4(t.method)
  BY DEF Kin
<1>2. /\ b \in Agent /\ Rest(a, b) /\ b.kernel = a.kernel
      /\ El(b, i) = {IF u.id = t.id THEN t ELSE u : u \in El(a, i)}
      /\ \A j \in NetIf \ {i} : El(b, j) = El(a, j)
      /\ \A j \in NetIf : El6(b, j) = El6(a, j)
  BY <1>1, SetFacts
<1>3. \A u \in El(a, i) : u.id = t.id => u = s
  BY DEF Shape, Unique
<1>4. El(b, i) = (El(a, i) \ {s}) \cup {t}
  BY <1>2, <1>3
<1>5. Unique(b, i) /\ \A u \in El(b, i) : Kin(i, u)
  BY <1>3, <1>4 DEF Shape, Unique
<1>6. Shape(b)
  BY <1>2, <1>5 DEF Shape, Unique
<1> QED BY <1>2, <1>4, <1>6 DEF Swapped

-----------------------------------------------------------------------------
(* What keeps the invariant.                                               *)

LEMMA Weaker ==
    ASSUME NEW a, NEW X, NEW Y, J(a, X), X \subseteq Y
    PROVE  J(a, Y)
  BY DEF J, Backed

\* The identifier of a child has no entity.
LEMMA NoChildEntity ==
    ASSUME NEW a, NEW X, NEW i \in NetIf, J(a, X)
    PROVE  J(a, X \ {LLID(i)})
  BY DEF J, Backed, NoEntity

LEMMA SameBacks ==
    ASSUME NEW a, NEW b, Lists(a, b), NEW id, b.store[id] = a.store[id], Backs(a, id)
    PROVE  Backs(b, id)
  BY DEF Lists, Backs, Serves, Free

LEMMA SameServices ==
    ASSUME NEW a, NEW X, J(a, X), NEW b \in Agent, Lists(a, b), Rest(a, b), a.kernel \subseteq b.kernel
    PROVE  J(b, X)
<1>1. Shape(b)
  BY DEF J, Shape, Lists, Unique
<1>2. Assigned(b)
  BY DEF J, Assigned, Lists
<1>3. NoEntity(b)
  BY DEF J, NoEntity, Rest
<1>4. Backed(b, X)
  BY SameBacks DEF J, Backed, Rest
<1> QED BY <1>1, <1>2, <1>3, <1>4 DEF J

\* An address that no service of the interface has may go.
LEMMA Unassigned ==
    ASSUME NEW a, NEW X, J(a, X), NEW b \in Agent, Lists(a, b), Rest(a, b),
           \A i \in NetIf : \A s \in El(a, i) : s.addr # NoAddr /\ <<i, s.addr>> \in a.kernel => <<i, s.addr>> \in b.kernel
    PROVE  J(b, X)
<1>1. Shape(b)
  BY DEF J, Shape, Lists, Unique
<1>2. Assigned(b)
  BY DEF J, Assigned, Lists
<1>3. NoEntity(b)
  BY DEF J, NoEntity, Rest
<1>4. Backed(b, X)
  BY SameBacks DEF J, Backed, Rest
<1> QED BY <1>1, <1>2, <1>3, <1>4 DEF J

\* A service changes its address: only entities that concern it are not
\* backed by another.
LEMMA SwapBacked ==
    ASSUME NEW a, NEW b, NEW i \in NetIf, NEW s \in El(a, i), NEW t, Swapped(a, b, i, s, t),
           t.id = s.id, t.parent = s.parent, NEW X, Backed(a, X), Rest(a, b)
    PROVE  Backed(b, X \cup Dep(a, i, s)) /\ (t.addr = s.addr => Backed(b, X))
<1>1. ASSUME NEW id, NEW j \in NetIf, NEW w \in El(a, j), w.addr = a.store[id], Serves(a, j, w, id),
             id \notin Dep(a, i, s)
      PROVE  Backs(b, id)
  <2>1. w \in El(b, j)
    BY <1>1 DEF Swapped, Serves, Dep
  <2>2. Serves(b, j, w, id)
    BY <1>1 DEF Swapped, Serves, Dep, Free
  <2>3. w.addr = b.store[id]
    BY <1>1 DEF Rest
  <2> QED BY <2>1, <2>2, <2>3 DEF Backs
<1>2. Backed(b, X \cup Dep(a, i, s))
  BY <1>1 DEF Backed, Backs, Rest
<1>3. ASSUME t.addr = s.addr, NEW id, NEW j \in NetIf, NEW w \in El(a, j), w.addr = a.store[id], Serves(a, j, w, id)
      PROVE  Backs(b, id)
  <2>1. PICK v \in El(b, j) : v.id = w.id /\ v.parent = w.parent /\ v.addr = w.addr
    BY <1>3 DEF Swapped
  <2>2. Free(a, j, id) => Free(b, j, id)
    BY <1>3 DEF Swapped, Free
  <2>3. Serves(b, j, v, id)
    BY <1>3, <2>1, <2>2 DEF Serves
  <2>4. v.addr = b.store[id]
    BY <1>3, <2>1 DEF Rest
  <2> QED BY <2>1, <2>3, <2>4 DEF Backs
<1>4. t.addr = s.addr => Backed(b, X)
  BY <1>3 DEF Backed, Backs, Rest
<1> QED BY <1>2, <1>4

\* A change that leaves the address, the parent and the method alone.
LEMMA Touch ==
    ASSUME NEW a, NEW X, J(a, X), NEW i \in NetIf, NEW s \in El(a, i),
           NEW t \in Service, Like(s, t), t.method = "linklocal" => ~t.child, NEW b, b = Set(a, i, t)
    PROVE  J(b, X) /\ Swapped(a, b, i, s, t) /\ Rest(a, b) /\ b.kernel = a.kernel
<1>1. Kin(i, s)
  BY DEF J, Shape
<1>2. Kin(i, t)
  BY <1>1 DEF Kin, Like
<1>3. b \in Agent /\ Rest(a, b) /\ b.kernel = a.kernel /\ Swapped(a, b, i, s, t) /\ Shape(b)
  BY <1>2, Swaps DEF J, Like
<1>4. Assigned(b)
  BY <1>3 DEF J, Assigned, Swapped, Like
<1>5. NoEntity(b)
  BY <1>3 DEF J, NoEntity, Rest
<1>6. Backed(b, X)
  BY <1>3, SwapBacked DEF J, Like
<1> QED BY <1>3, <1>4, <1>5, <1>6 DEF J

\* What concerns a service.
LEMMA DepFacts ==
    ASSUME NEW a, NEW i \in NetIf, NEW s, Kin(i, s)
    PROVE  /\ s.parent = NoID => \A id \in Dep(a, i, s) : id = s.id \/ id = NoID
           /\ s.parent # NoID => s.id = LLID(i) /\ s.method = "linklocal" /\ s.parent \in ServiceIDs
           /\ s.method # "linklocal" => s.parent = NoID /\ s.id \in ServiceIDs
           /\ s.parent # s.id \/ s.parent = NoID
  BY Identifiers DEF Dep, Kin

\* A change of a service does not change what it concerns.
LEMMA SameDep ==
    ASSUME NEW a, NEW b, NEW i \in NetIf, NEW s \in El(a, i), NEW t, Swapped(a, b, i, s, t),
           t.id = s.id, t.parent = s.parent, Kin(i, s), s \in Service
    PROVE  Dep(b, i, t) = Dep(a, i, s)
<1>1. s.parent # s.id
  BY Identifiers DEF Kin, Service
<1>2. Free(b, i, s.parent) <=> Free(a, i, s.parent)
  BY <1>1 DEF Free, Swapped
<1> QED BY <1>2 DEF Dep

-----------------------------------------------------------------------------
(* Publishing and assigning.                                               *)

LEMMA Fields ==
    ASSUME NEW s \in Service
    PROVE  s.status \in Status /\ s.id \in IDs /\ s.addr \in Addr /\ s.parent \in IDs \cup {NoID}
  BY DEF Service

LEMMA ReadyField ==
    ASSUME NEW s \in Service, NEW r \in BOOLEAN, NEW st \in Status,
           NEW t, t = [s EXCEPT !.ready = r, !.status = st]
    PROVE  t \in Service /\ Like(s, t) /\ t.child = s.child /\ t.status = st
  BY DEF Service, Like

LEMMA AddrField ==
    ASSUME NEW s \in Service, NEW x \in Addr, NEW t, t = [s EXCEPT !.addr = x]
    PROVE  /\ t \in Service /\ t.addr = x /\ t.id = s.id /\ t.parent = s.parent
           /\ t.method = s.method /\ t.child = s.child
  BY DEF Service

LEMMA WaitField ==
    ASSUME NEW s \in Service, NEW w \in {"start", "none"}, NEW t, t = [s EXCEPT !.wait = w]
    PROVE  t \in Service /\ Like(s, t) /\ t.child = s.child
  BY DEF Service, Like

LEMMA ChildField ==
    ASSUME NEW s \in Service, NEW c \in BOOLEAN, NEW t, t = [s EXCEPT !.child = c]
    PROVE  t \in Service /\ Like(s, t)
  BY DEF Service, Like

LEMMA AllocateField ==
    ASSUME NEW s \in Service, NEW l \in BOOLEAN, NEW t, t = [s EXCEPT !.allocate = l, !.wait = "start"]
    PROVE  t \in Service /\ Like(s, t) /\ t.child = s.child
  BY DEF Service, Like

LEMMA ClearFacts ==
    ASSUME NEW a, NEW X, J(a, X), NEW i \in NetIf, NEW id \in IDs, NEW b, b = ClearEntity(a, i, id, TRUE)
    PROVE  J(b, X \ {id}) /\ Lists(a, b) /\ b.kernel = a.kernel
<1>1. /\ b \in Agent /\ b.store = [a.store EXCEPT ![id] = NoAddr] /\ b.misled = a.misled \ {id}
      /\ b.kernel = a.kernel /\ b.if = a.if
  BY Identifiers DEF ClearEntity, setDisableUntilNeededNeedsAttention, Attention, J, Agent
<1>2. Lists(a, b)
  BY <1>1, SameIf
<1>3. \A x \in IDs : b.store[x] = IF x = id THEN NoAddr ELSE a.store[x]
  BY <1>1 DEF J, Agent
<1>4. Shape(b)
  BY <1>2 DEF J, Shape, Lists, Unique
<1>5. Assigned(b)
  BY <1>1, <1>2 DEF J, Assigned, Lists
<1>6. NoEntity(b)
  BY <1>3, Identifiers DEF J, NoEntity
<1>7. Backed(b, X \ {id})
  <2> SUFFICES ASSUME NEW x \in IDs \ (b.misled \cup (X \ {id})), b.store[x] # NoAddr
               PROVE  Backs(b, x)
    BY DEF Backed
  <2>1. x # id /\ x \notin a.misled \cup X /\ b.store[x] = a.store[x]
    BY <1>1, <1>3
  <2>2. Backs(a, x)
    BY <2>1 DEF J, Backed
  <2> QED BY <1>2, <2>1, <2>2, SameBacks
<1> QED BY <1>1, <1>2, <1>4, <1>5, <1>6, <1>7 DEF J

\* service_publish_clear
LEMMA PublishClearFacts ==
    ASSUME NEW a, NEW X, J(a, X), NEW i \in NetIf, NEW s \in El(a, i), NEW st \in Status,
           NEW b, b = service_publish_clear(a, i, s.id, st)
    PROVE  /\ J(b, X \ {s.id}) /\ b.kernel = a.kernel
           /\ Swapped(a, b, i, s, [s EXCEPT !.ready = FALSE, !.status = st])
<1> DEFINE t == [s EXCEPT !.ready = FALSE, !.status = st]
           c == Set(a, i, t)
<1>1. The(a, i, s.id) = s /\ s \in Service /\ Kin(i, s)
  BY TheOne, Elements DEF J, Shape
<1>2. t \in Service /\ Like(s, t) /\ t.child = s.child /\ s.id \in IDs
  BY <1>1 DEF Service, Like
<1>3. t.method = "linklocal" => ~t.child
  BY <1>1, <1>2 DEF Like, Kin
<1>4. J(c, X) /\ Swapped(a, c, i, s, t) /\ c.kernel = a.kernel
  <2> HIDE DEF t
  <2> QED BY <1>2, <1>3, Touch
<1>5. b = ClearEntity(c, i, s.id, TRUE)
  BY <1>1 DEF service_publish_clear, service_clear
<1>6. J(b, X \ {s.id}) /\ Lists(c, b) /\ b.kernel = c.kernel
  <2> HIDE DEF t, c
  <2>1. J(c, X) /\ s.id \in IDs
    BY <1>2, <1>4
  <2> QED BY <2>1, <1>5, ClearFacts, Zenon
<1>7. Swapped(a, b, i, s, t)
  <2> HIDE DEF t, c
  <2> QED BY <1>4, <1>6 DEF Swapped, Lists
<1> QED BY <1>4, <1>6, <1>7

\* service_clear
LEMMA ServiceClearFacts ==
    ASSUME NEW a, NEW X, J(a, X), NEW i \in NetIf, NEW s \in El(a, i), NEW st \in Status, NEW r \in BOOLEAN,
           NEW b, b = Set(a, i, [The(a, i, s.id) EXCEPT !.ready = r, !.status = st])
    PROVE  /\ J(b, X) /\ b.kernel = a.kernel /\ Rest(a, b)
           /\ Swapped(a, b, i, s, [s EXCEPT !.ready = r, !.status = st])
<1> DEFINE t == [s EXCEPT !.ready = r, !.status = st]
<1>1. The(a, i, s.id) = s /\ s \in Service /\ Kin(i, s)
  BY TheOne, Elements DEF J, Shape
<1>2. t \in Service /\ Like(s, t) /\ t.child = s.child
  BY <1>1 DEF Service, Like
<1>3. t.method = "linklocal" => ~t.child
  BY <1>1, <1>2 DEF Like, Kin
<1>4. b = Set(a, i, t)
  BY <1>1
<1> HIDE DEF t
<1>5. J(b, X) /\ Swapped(a, b, i, s, t) /\ b.kernel = a.kernel /\ Rest(a, b)
  BY <1>2, <1>3, <1>4, Touch
<1> QED BY <1>5 DEF t

\* A new address for a service, before the interface has it.
LEMMA NewAddress ==
    ASSUME NEW a, NEW X, J(a, X), NEW i \in NetIf, NEW s \in El(a, i), NEW addr \in Addr,
           NEW b, b = Set(a, i, [s EXCEPT !.addr = addr])
    PROVE  /\ b \in Agent /\ Shape(b) /\ NoEntity(b) /\ Backed(b, X \cup Dep(a, i, s))
           /\ Rest(a, b) /\ b.kernel = a.kernel
           /\ Swapped(a, b, i, s, [s EXCEPT !.addr = addr])
<1> DEFINE t == [s EXCEPT !.addr = addr]
<1>1. s \in Service /\ Kin(i, s)
  BY Elements DEF J, Shape
<1>2. /\ t \in Service /\ t.addr = addr /\ t.id = s.id /\ t.parent = s.parent
      /\ t.method = s.method /\ t.child = s.child
  BY <1>1, AddrField
<1> HIDE DEF t
<1>3. Kin(i, t)
  BY <1>1, <1>2 DEF Kin
<1>4. b = Set(a, i, t)
  BY DEF t
<1>5. b \in Agent /\ Rest(a, b) /\ b.kernel = a.kernel /\ Swapped(a, b, i, s, t) /\ Shape(b)
  BY <1>2, <1>3, <1>4, Swaps DEF J
<1>6. NoEntity(b)
  BY <1>5 DEF J, NoEntity, Rest
<1>7. Backed(b, X \cup Dep(a, i, s))
  BY <1>2, <1>5, SwapBacked DEF J
<1> QED BY <1>5, <1>6, <1>7 DEF t

LEMMA WithIP ==
    ASSUME NEW a, NEW i \in NetIf, NEW addr
    PROVE  IFState_service_with_ip(a, i, addr) <=> \E s \in El(a, i) : s.addr = addr
  BY DEF IFState_service_with_ip, El, ToSet

LEMMA Attended ==
    ASSUME NEW a, NEW X, J(a, X), NEW what \in SUBSET {"linklocal", "disable", "publish"}, NEW b, b = Attention(a, what)
    PROVE  J(b, X) /\ Lists(a, b) /\ Rest(a, b) /\ b.kernel = a.kernel
<1>1. b \in Agent /\ Rest(a, b) /\ b.kernel = a.kernel /\ Lists(a, b)
  BY AttentionFacts DEF J
<1> QED BY <1>1, SameServices

LEMMA SwapThen ==
    ASSUME NEW a, NEW b, NEW c, NEW i \in NetIf, NEW s, NEW t, Swapped(a, b, i, s, t), Lists(b, c)
    PROVE  Swapped(a, c, i, s, t)
  BY DEF Swapped, Lists

LEMMA SwapTwice ==
    ASSUME NEW a, Shape(a), NEW b, NEW c, NEW i \in NetIf, NEW s \in El(a, i), NEW t, NEW u,
           Swapped(a, b, i, s, t), Swapped(b, c, i, t, u), t.id = s.id
    PROVE  Swapped(a, c, i, s, u)
<1>1. t \notin El(a, i) \ {s}
  BY DEF Shape, Unique
<1> QED BY <1>1 DEF Swapped

\* service_remove_address
LEMMA RemoveFacts ==
    ASSUME NEW a, NEW X, J(a, X), NEW i \in NetIf, NEW s \in El(a, i), NEW r, r = service_remove_address(a, i, s.id)
    PROVE  J(r, X \cup Dep(a, i, s)) /\ Swapped(a, r, i, s, [s EXCEPT !.addr = NoAddr])
<1> DEFINE t == [s EXCEPT !.addr = NoAddr]
           b == Set(a, i, t)
           c == IF IFState_service_with_ip(b, i, s.addr) THEN b ELSE [b EXCEPT !.kernel = @ \ {<<i, s.addr>>}]
           d == IF s.addr = NoAddr THEN a ELSE c
<1>1. The(a, i, s.id) = s /\ s \in Service
  BY TheOne, Elements DEF J
<1>2. r = Attention(d, {"linklocal"})
  BY <1>1 DEF service_remove_address, linklocal_set_needs_attention
<1>3. CASE s.addr = NoAddr
  <2>1. t = s
    BY <1>1, <1>3 DEF Service
  <2>2. Swapped(a, a, i, s, s)
    BY DEF Swapped
  <2>3. J(a, X \cup Dep(a, i, s)) /\ d = a
    BY <1>3, Weaker
  <2>4. J(r, X \cup Dep(a, i, s)) /\ Lists(a, r)
    <3> HIDE DEF d
    <3> QED BY <1>2, <2>3, Attended
  <2>5. Swapped(a, r, i, s, s)
    BY <2>2, <2>4, SwapThen
  <2> QED BY <2>1, <2>4, <2>5
<1>4. CASE s.addr # NoAddr
  <2>1. /\ b \in Agent /\ Shape(b) /\ NoEntity(b) /\ Backed(b, X \cup Dep(a, i, s))
        /\ Rest(a, b) /\ b.kernel = a.kernel /\ Swapped(a, b, i, s, t)
    BY Identifiers, NewAddress
  <2>2. t.addr = NoAddr
    BY <1>1, Identifiers, AddrField
  <2> HIDE DEF b, t
  <2>3. Assigned(b)
    BY <2>1, <2>2 DEF Assigned, Swapped, J
  <2>4. J(b, X \cup Dep(a, i, s))
    BY <2>1, <2>3 DEF J
  <2>5. J(c, X \cup Dep(a, i, s)) /\ Lists(b, c)
    <3>1. CASE IFState_service_with_ip(b, i, s.addr)
      BY <2>4, <3>1 DEF Lists
    <3>2. CASE ~IFState_service_with_ip(b, i, s.addr)
      <4>1. b.kernel \in SUBSET (NetIf \X Addr)
        BY <2>1 DEF Agent
      <4>2. c = [b EXCEPT !.kernel = b.kernel \ {<<i, s.addr>>}]
        BY <3>2
      <4> HIDE DEF c
      <4>3. c \in Agent /\ Rest(b, c) /\ c.kernel = b.kernel \ {<<i, s.addr>>} /\ Lists(b, c)
        BY <2>1, <4>1, <4>2, KernelFacts
      <4>4. \A j \in NetIf : \A w \in El(b, j) : <<j, w.addr>> # <<i, s.addr>>
        BY <3>2, WithIP
      <4> QED BY <2>4, <4>3, <4>4, Unassigned
    <3> QED BY <3>1, <3>2
  <2>6. d = c
    BY <1>4
  <2>7. J(r, X \cup Dep(a, i, s)) /\ Lists(c, r)
    <3> HIDE DEF c, d
    <3> QED BY <1>2, <2>5, <2>6, Attended
  <2>8. Swapped(a, r, i, s, t)
    <3> HIDE DEF c
    <3>1. Swapped(a, c, i, s, t)
      BY <2>1, <2>5, SwapThen
    <3> QED BY <3>1, <2>7, SwapThen
  <2> QED BY <2>7, <2>8 DEF t
<1> QED BY <1>3, <1>4

\* service_set_address
LEMMA SetAddressFacts ==
    ASSUME NEW a, NEW X, J(a, X), NEW i \in NetIf, NEW s \in El(a, i), NEW addr \in Addr,
           NEW r, r = service_set_address(a, i, s.id, addr)
    PROVE  J(r, X \cup Dep(a, i, s)) /\ Swapped(a, r, i, s, [s EXCEPT !.addr = addr])
<1> DEFINE D == X \cup Dep(a, i, s)
           b == IF s.addr \notin {NoAddr, addr} THEN service_remove_address(a, i, s.id) ELSE a
           c == Set(b, i, [The(b, i, s.id) EXCEPT !.addr = addr])
           d == [c EXCEPT !.kernel = @ \cup {<<i, addr>>}]
<1>1. The(a, i, s.id) = s /\ s \in Service /\ Kin(i, s)
  BY TheOne, Elements DEF J, Shape
<1>2. r = Attention(d, {"linklocal"})
  BY <1>1 DEF service_set_address, linklocal_set_needs_attention
<1>3. PICK t \in Service : /\ J(b, D) /\ Swapped(a, b, i, s, t) /\ t.id = s.id /\ t.parent = s.parent
                           /\ [t EXCEPT !.addr = addr] = [s EXCEPT !.addr = addr]
  <2>1. CASE s.addr \notin {NoAddr, addr}
    <3> DEFINE u == [s EXCEPT !.addr = NoAddr]
    <3>1. J(b, D) /\ Swapped(a, b, i, s, u)
      BY <2>1, RemoveFacts
    <3>2. u \in Service /\ u.id = s.id /\ u.parent = s.parent
      BY <1>1, Identifiers, AddrField
    <3>3. [u EXCEPT !.addr = addr] = [s EXCEPT !.addr = addr]
      BY <1>1 DEF Service
    <3> QED BY <3>1, <3>2, <3>3
  <2>2. CASE s.addr \in {NoAddr, addr}
    <3>1. J(b, D) /\ b = a
      BY <2>2, Weaker
    <3>2. Swapped(a, a, i, s, s)
      BY DEF Swapped
    <3> QED BY <1>1, <3>1, <3>2
  <2> QED BY <2>1, <2>2
<1> HIDE DEF b
<1>4. t \in El(b, i)
  BY <1>3 DEF Swapped
<1>5. The(b, i, s.id) = t
  BY <1>3, <1>4, TheOne DEF J
<1>6. Dep(b, i, t) = Dep(a, i, s)
  <2> HIDE DEF c, d, D
  <2>1. Swapped(a, b, i, s, t) /\ t.id = s.id /\ t.parent = s.parent
    BY <1>3
  <2> QED BY <1>1, <2>1, SameDep
<1> DEFINE u == [s EXCEPT !.addr = addr]
<1>7. c = Set(b, i, [t EXCEPT !.addr = addr])
  BY <1>5
<1>8. /\ c \in Agent /\ Shape(c) /\ NoEntity(c) /\ Backed(c, D \cup Dep(b, i, t))
      /\ Rest(b, c) /\ c.kernel = b.kernel /\ Swapped(b, c, i, t, [t EXCEPT !.addr = addr])
  <2> HIDE DEF c, d, D, u
  <2>1. J(b, D)
    BY <1>3
  <2> QED BY <2>1, <1>4, <1>7, NewAddress
<1>9. u.addr = addr /\ Swapped(b, c, i, t, u) /\ Backed(c, D)
  <2>1. D \cup Dep(b, i, t) = D
    BY <1>6
  <2>2. u.addr = addr
    BY <1>1, AddrField
  <2> HIDE DEF c, D
  <2> QED BY <1>3, <1>8, <2>1, <2>2
<1>10. Swapped(a, c, i, s, u)
  <2> HIDE DEF c, u
  <2> QED BY <1>3, <1>9, SwapTwice DEF J
<1> HIDE DEF c, u, D
<1>11. c.kernel \cup {<<i, addr>>} \in SUBSET (NetIf \X Addr)
  BY <1>8 DEF Agent
<1>12. d \in Agent /\ Rest(c, d) /\ d.kernel = c.kernel \cup {<<i, addr>>} /\ Lists(c, d)
  BY <1>8, <1>11, KernelFacts
<1> HIDE DEF d
<1>13. Assigned(d)
  BY <1>3, <1>8, <1>9, <1>12 DEF J, Assigned, Swapped, Lists
<1>0. Shape(d) /\ NoEntity(d)
  BY <1>8, <1>12 DEF Shape, NoEntity, Unique, Lists, Rest
<1>15. Backed(d, D)
  BY <1>9, <1>12, SameBacks DEF Backed, Rest
<1>16. J(d, D)
  BY <1>12, <1>13, <1>0, <1>15 DEF J
<1>17. J(r, D) /\ Lists(d, r)
  BY <1>2, <1>16, Attended
<1>18. Swapped(a, r, i, s, u)
  <2>1. Swapped(a, d, i, s, u)
    BY <1>10, <1>12, SwapThen
  <2> QED BY <2>1, <1>17, SwapThen
<1> QED BY <1>17, <1>18 DEF D, u

LEMMA FreeThe ==
    ASSUME NEW a, Shape(a), NEW i \in NetIf, NEW id
    PROVE  Free(a, i, id) <=> IFStateGetServiceWithID(a, i, id, TRUE) /\ The(a, i, id).addr = NoAddr
<1>1. Free(a, i, id) => IFStateGetServiceWithID(a, i, id, TRUE) /\ The(a, i, id).addr = NoAddr
  BY TheOne DEF Free
<1>2. ASSUME IFStateGetServiceWithID(a, i, id, TRUE), The(a, i, id).addr = NoAddr
      PROVE  Free(a, i, id)
  <2>1. The(a, i, id) \in El(a, i) /\ The(a, i, id).id = id
    BY <1>2, FoundV4
  <2> QED BY <1>2, <2>1 DEF Free
<1> QED BY <1>1, <1>2

\* Flags of an interface change, not its services.
LEMMA SameV ==
    ASSUME NEW a, NEW b, \A j \in NetIf : b.if[j].v4 = a.if[j].v4 /\ b.if[j].v6 = a.if[j].v6
    PROVE  Lists(a, b)
  BY DEF Lists, El, El6

LEMMA ScrubFacts ==
    ASSUME NEW a, NEW X, J(a, X), NEW i \in NetIf, NEW r, r = service_scrub_old_ipv4_addresses(a, i)
    PROVE  J(r, X) /\ Lists(a, r)
<1> DEFINE b == [a EXCEPT !.if[i].scrubbed = TRUE]
           K == {k \in b.kernel : k[1] # i \/ IFState_service_with_ip(a, i, k[2])}
           c == [b EXCEPT !.kernel = K]
<1>1. r = b \/ r = c
  BY DEF service_scrub_old_ipv4_addresses
<1>2. b \in Agent /\ Rest(a, b) /\ b.kernel = a.kernel
  BY DEF J, Agent, Interface, Rest
<1>3. Lists(a, b)
  <2>1. \A j \in NetIf : b.if[j].v4 = a.if[j].v4 /\ b.if[j].v6 = a.if[j].v6
    BY DEF J, Agent, Interface
  <2> QED BY <2>1, SameV
<1> HIDE DEF b
<1>4. J(b, X)
  BY <1>2, <1>3, SameServices
<1>5. K \in SUBSET (NetIf \X Addr)
  BY <1>2 DEF Agent
<1>6. c \in Agent /\ Rest(b, c) /\ c.kernel = K /\ Lists(b, c)
  <2> HIDE DEF K
  <2> QED BY <1>2, <1>5, KernelFacts
<1>7. \A j \in NetIf : \A s \in El(b, j) : s.addr # NoAddr /\ <<j, s.addr>> \in b.kernel => <<j, s.addr>> \in c.kernel
  <2> SUFFICES ASSUME NEW j \in NetIf, NEW s \in El(b, j), <<j, s.addr>> \in b.kernel
               PROVE  <<j, s.addr>> \in K
    BY <1>6
  <2>1. j = i => IFState_service_with_ip(a, i, s.addr)
    BY <1>3, WithIP DEF Lists
  <2> QED BY <2>1
<1>8. J(c, X)
  <2> HIDE DEF c
  <2> QED BY <1>4, <1>6, <1>7, Unassigned
<1>9. Lists(a, c)
  BY <1>3, <1>6 DEF Lists
<1> QED BY <1>1, <1>3, <1>4, <1>8, <1>9

\* ServicePublishSuccessIPv4
LEMMA PublishFacts ==
    ASSUME NEW a, NEW X, NEW i \in NetIf, NEW s \in El(a, i), J(a, X \cup Dep(a, i, s)),
           NEW r, r = ServicePublishSuccessIPv4(a, i, s.id)
    PROVE  J(r, X) /\ Swapped(a, r, i, s, [s EXCEPT !.ready = TRUE, !.status = "success"])
<1> DEFINE D == X \cup Dep(a, i, s)
           t == [s EXCEPT !.ready = TRUE, !.status = "success"]
           b == Set(a, i, t)
           c == IF ServiceIsPublished(s) THEN b ELSE Attention(b, {"publish"})
           as == IF s.parent = NoID THEN s.id ELSE s.parent
           e == [c EXCEPT !.store[as] = s.addr, !.misled = @ \ {as}]
           d == [Attention(e, {"disable"}) EXCEPT !.last = IF s.method = "linklocal" THEN @ ELSE @ \ {as}]
<1>1. The(a, i, s.id) = s /\ s \in Service /\ Kin(i, s) /\ Shape(a)
  BY TheOne, Elements DEF J, Shape
<1>2. r = IF s.parent # NoID /\ ~Free(a, i, s.parent) THEN c
          ELSE IF s.parent = NoID THEN service_scrub_old_ipv4_addresses(d, i) ELSE d
  <2>1. Free(a, i, s.parent) <=> IFStateGetServiceWithID(a, i, s.parent, TRUE) /\ The(a, i, s.parent).addr = NoAddr
    BY <1>1, FreeThe
  <2>2. r = IF s.parent # NoID /\ (~IFStateGetServiceWithID(a, i, s.parent, TRUE) \/ The(a, i, s.parent).addr # NoAddr)
              THEN c ELSE IF s.parent = NoID THEN service_scrub_old_ipv4_addresses(d, i) ELSE d
    BY <1>1, Zenon DEF ServicePublishSuccessIPv4, setDisableUntilNeededNeedsAttention
  <2> HIDE DEF c, d
  <2> QED BY <2>1, <2>2
<1>3. t \in Service /\ Like(s, t) /\ t.child = s.child /\ s.addr \in Addr
  BY <1>1 DEF Service, Like, Status
<1>4. J(b, D) /\ Swapped(a, b, i, s, t) /\ Rest(a, b)
  <2>1. t.method = "linklocal" => ~t.child
    BY <1>1, <1>3 DEF Kin, Like
  <2> HIDE DEF t, D
  <2> QED BY <1>3, <2>1, Touch DEF D
<1> HIDE DEF b
<1>5. J(c, D) /\ Swapped(a, c, i, s, t) /\ Rest(a, c)
  <2>1. CASE ServiceIsPublished(s)
    BY <1>4, <2>1
  <2>2. CASE ~ServiceIsPublished(s)
    <3>1. c = Attention(b, {"publish"})
      BY <2>2
    <3> HIDE DEF c, D, t
    <3>2. J(c, D) /\ Lists(b, c) /\ Rest(b, c)
      BY <3>1, <1>4, Attended
    <3>3. Swapped(a, c, i, s, t)
      BY <3>2, <1>4, SwapThen
    <3> QED BY <3>2, <3>3, <1>4 DEF Rest
  <2> QED BY <2>1, <2>2
<1> HIDE DEF c, t
<1>6. s.parent # NoID => s.id = LLID(i)
  BY <1>1, DepFacts
<1>7. CASE s.parent # NoID /\ ~Free(a, i, s.parent)
  <2>1. r = c
    BY <1>7, <1>2
  <2>2. D \ {LLID(i)} \subseteq X
    BY <1>6, <1>7 DEF Dep
  <2>3. J(c, X)
    <3>1. J(c, D \ {LLID(i)})
      BY <1>5, NoChildEntity
    <3> HIDE DEF D
    <3> QED BY <2>2, <3>1, Weaker
  <2> QED BY <2>1, <2>3, <1>5 DEF t
<1>8. CASE s.parent = NoID \/ Free(a, i, s.parent)
  <2>1. as \in ServiceIDs /\ as \in IDs
    BY <1>1, Identifiers DEF Kin
  <2>2. c \in Agent
    BY <1>5 DEF J
  <2> HIDE DEF D
  <2>3. /\ d \in Agent /\ d.store = [c.store EXCEPT ![as] = s.addr] /\ d.misled = c.misled \ {as}
        /\ d.kernel = c.kernel /\ d.if = c.if
    <3> HIDE DEF as
    <3>1. /\ e \in Agent /\ e.store = [c.store EXCEPT ![as] = s.addr] /\ e.misled = c.misled \ {as}
          /\ e.kernel = c.kernel /\ e.if = c.if
      BY <2>1, <2>2, <1>3 DEF Agent
    <3> HIDE DEF e
    <3> QED BY <3>1 DEF Attention, Agent
  <2> HIDE DEF d
  <2>4. Lists(c, d)
    BY <2>3, SameIf
  <2>5. \A x \in IDs : d.store[x] = IF x = as THEN s.addr ELSE c.store[x]
    <3> HIDE DEF as
    <3> QED BY <2>2, <2>3 DEF Agent
  <2>6. Shape(d) /\ Assigned(d)
    BY <1>5, <2>3, <2>4 DEF J, Shape, Assigned, Lists, Unique
  <2>7. NoEntity(d)
    BY <1>5, <2>1, <2>5, Identifiers DEF J, NoEntity
  <2>8. t \in El(d, i) /\ t.addr = s.addr /\ Serves(d, i, t, as)
    <3>1. t \in El(d, i) /\ t.addr = s.addr
      BY <1>3, <1>5, <2>4 DEF Swapped, Lists, Like
    <3>0. t.id = s.id /\ t.parent = s.parent
      BY <1>3 DEF Like
    <3>2. CASE s.parent = NoID
      BY <3>0, <3>1, <3>2 DEF Serves
    <3>3. CASE s.parent # NoID
      <4>1. PICK p \in El(a, i) : p.id = s.parent /\ p.addr = NoAddr
        BY <1>8, <3>3 DEF Free
      <4>2. p # s
        BY <1>1, <4>1, <3>3, DepFacts
      <4>3. p \in El(d, i)
        BY <4>1, <4>2, <1>5, <2>4 DEF Swapped, Lists
      <4>4. as = s.parent /\ Free(d, i, s.parent)
        BY <3>3, <4>1, <4>3 DEF Free
      <4> QED BY <3>0, <3>1, <4>4 DEF Serves
    <3> QED BY <3>1, <3>2, <3>3
  <2>9. Backed(d, X)
    <3> SUFFICES ASSUME NEW x \in IDs \ (d.misled \cup X), d.store[x] # NoAddr
                 PROVE  Backs(d, x)
      BY DEF Backed
    <3>1. CASE x = as
      <4>1. t.addr = d.store[x]
        BY <3>1, <2>5, <2>8
      <4> QED BY <4>1, <3>1, <2>8 DEF Backs
    <3>2. CASE x # as
      <4>1. d.store[x] = c.store[x] /\ x \notin c.misled
        BY <3>2, <2>3, <2>5
      <4>2. x # s.id
        BY <3>2, <1>6, <2>7 DEF NoEntity
      <4>3. x \notin D
        BY <3>2, <4>2, <1>1, DepFacts, Identifiers DEF D, Dep
      <4>4. Backs(c, x)
        BY <1>5, <4>1, <4>3 DEF J, Backed
      <4> QED BY <2>4, <4>1, <4>4, SameBacks
    <3> QED BY <3>1, <3>2
  <2>10. J(d, X)
    BY <2>3, <2>6, <2>7, <2>9 DEF J
  <2>11. Swapped(a, d, i, s, t)
    BY <1>5, <2>4, SwapThen
  <2>12. CASE s.parent = NoID
    <3>1. J(r, X) /\ Lists(d, r)
      BY <1>2, <2>10, <2>12, ScrubFacts
    <3> QED BY <3>1, <2>11, SwapThen DEF t
  <2>13. CASE s.parent # NoID
    BY <1>2, <1>8, <2>10, <2>11, <2>13 DEF t
  <2> QED BY <2>12, <2>13
<1> QED BY <1>7, <1>8

-----------------------------------------------------------------------------
(* Failing.                                                                *)

\* No service is lost.
Keeps(a, b) == \A j \in NetIf : \A s \in El(a, j) : \E t \in El(b, j) : t.id = s.id

LEMMA KeepsTwice ==
    ASSUME NEW a, NEW b, NEW c, Keeps(a, b), Keeps(b, c)
    PROVE  Keeps(a, c)
<1> SUFFICES ASSUME NEW j \in NetIf, NEW s \in El(a, j)
             PROVE  \E t \in El(c, j) : t.id = s.id
  BY DEF Keeps
<1>1. PICK u \in El(b, j) : u.id = s.id
  BY DEF Keeps
<1>2. PICK t \in El(c, j) : t.id = u.id
  BY DEF Keeps
<1> QED BY <1>1, <1>2

LEMMA SwapKeeps ==
    ASSUME NEW a, NEW b, NEW i \in NetIf, NEW s, NEW t, Swapped(a, b, i, s, t), t.id = s.id
    PROVE  Keeps(a, b)
  BY DEF Swapped, Keeps

LEMMA SameKeeps ==
    ASSUME NEW a, NEW b, Lists(a, b)
    PROVE  Keeps(a, b)
  BY DEF Lists, Keeps

\* A service whose parent is not free concerns its own entity only.
LEMMA DepOne ==
    ASSUME NEW a \in Agent, NEW i \in NetIf, NEW s, s.parent = NoID \/ ~Free(a, i, s.parent)
    PROVE  Dep(a, i, s) = {s.id}
<1>1. ~Free(a, i, NoID)
  BY Identifiers, Elements DEF Free, Service
<1> QED BY <1>1 DEF Dep

LEMMA MisledFacts ==
    ASSUME NEW a, NEW X, NEW m \in SUBSET IDs, a.misled \subseteq m, J(a, X \cup m),
           NEW b, b = [a EXCEPT !.misled = m]
    PROVE  J(b, X) /\ Lists(a, b)
<1>1. b \in Agent /\ b.misled = m /\ b.store = a.store /\ b.kernel = a.kernel /\ b.if = a.if
  BY DEF J, Agent
<1>2. Lists(a, b)
  BY <1>1, SameIf
<1>3. Shape(b) /\ Assigned(b) /\ NoEntity(b)
  BY <1>1, <1>2 DEF J, Shape, Assigned, NoEntity, Lists, Unique
<1>4. Backed(b, X)
  <2> SUFFICES ASSUME NEW x \in IDs \ (b.misled \cup X), b.store[x] # NoAddr
               PROVE  Backs(b, x)
    BY DEF Backed
  <2>1. Backs(a, x)
    BY <1>1 DEF J, Backed
  <2> QED BY <1>1, <1>2, <2>1, SameBacks
<1> QED BY <1>1, <1>2, <1>3, <1>4 DEF J

\* A service gives way to the link-local service of its interface.
LEMMA GivesFacts ==
    ASSUME NEW a, NEW X, NEW i \in NetIf, NEW s \in El(a, i), J(a, X \cup {s.id}),
           s.child, s.addr = NoAddr, NEW ll \in El(a, i), ll.id = LLID(i),
           NEW r, r = [service_clear(ServicePublishSuccessIPv4(a, i, LLID(i)), i, s.id, "success")
                         EXCEPT !.misled = IF ll.parent = s.id THEN @ ELSE @ \cup {s.id}]
    PROVE  J(r, X) /\ Keeps(a, r)
<1> DEFINE P == ServicePublishSuccessIPv4(a, i, LLID(i))
           Q == service_clear(P, i, s.id, "success")
           Y == IF ll.parent = s.id THEN X ELSE X \cup {s.id}
           u == [ll EXCEPT !.ready = TRUE, !.status = "success"]
           v == [s EXCEPT !.ready = FALSE, !.status = "success"]
<1>1. Kin(i, s) /\ Kin(i, ll) /\ s \in Service /\ ll \in Service
  BY Elements DEF J, Shape
<1>2. s.id \in ServiceIDs /\ s.id \in IDs /\ s # ll
  BY <1>1, Identifiers DEF Kin
<1>3. u.id = ll.id /\ v.id = s.id
  BY <1>1 DEF Service
<1>4. J(a, Y \cup Dep(a, i, ll))
  <2>1. CASE ll.parent = s.id
    <3>1. s.id \in Dep(a, i, ll)
      BY <2>1 DEF Dep, Free
    <3>2. X \cup {s.id} \subseteq Y \cup Dep(a, i, ll)
      BY <2>1, <3>1
    <3> HIDE DEF Y
    <3> QED BY <3>2, Weaker
  <2>2. CASE ll.parent # s.id
    <3>1. X \cup {s.id} \subseteq Y \cup Dep(a, i, ll)
      BY <2>2
    <3> HIDE DEF Y
    <3> QED BY <3>1, Weaker
  <2> QED BY <2>1, <2>2
<1>5. J(P, Y) /\ Swapped(a, P, i, ll, u)
  <2> HIDE DEF Y
  <2>1. P = ServicePublishSuccessIPv4(a, i, ll.id)
    OBVIOUS
  <2> HIDE DEF P
  <2> QED BY <1>4, <2>1, PublishFacts
<1> HIDE DEF P, u
<1>6. s \in El(P, i)
  BY <1>2, <1>5 DEF Swapped
<1>7. Q = Set(P, i, [The(P, i, s.id) EXCEPT !.ready = FALSE, !.status = "success"])
  BY DEF service_clear
<1>8. J(Q, Y) /\ Swapped(P, Q, i, s, v)
  <2>1. "success" \in Status /\ FALSE \in BOOLEAN
    BY DEF Status
  <2> HIDE DEF Q, Y
  <2> QED BY <1>5, <1>6, <1>7, <2>1, ServiceClearFacts
<1> DEFINE m == IF ll.parent = s.id THEN Q.misled ELSE Q.misled \cup {s.id}
<1> HIDE DEF Q, v
<1>9. r = [Q EXCEPT !.misled = m]
  BY DEF Q, P
<1>10. m \in SUBSET IDs /\ Q.misled \subseteq m
  BY <1>2, <1>8 DEF J, Agent
<1>11. J(Q, X \cup m)
  <2>1. Y \subseteq X \cup m
    OBVIOUS
  <2> HIDE DEF Y, m
  <2> QED BY <1>8, <2>1, Weaker
<1>12. J(r, X) /\ Lists(Q, r)
  <2> HIDE DEF m
  <2> QED BY <1>9, <1>10, <1>11, MisledFacts
<1>13. Keeps(a, P) /\ Keeps(P, Q) /\ Keeps(Q, r)
  BY <1>3, <1>5, <1>8, <1>12, SwapKeeps, SameKeeps
<1>0. Keeps(a, Q)
  BY <1>13, KeepsTwice
<1> QED BY <1>12, <1>13, <1>0, KeepsTwice

\* service_publish_failure_sync
LEMMA FailureFacts ==
    ASSUME NEW a, NEW X, NEW i \in NetIf, NEW s \in El(a, i), J(a, X \cup Dep(a, i, s)),
           s.addr = NoAddr \/ ~s.child, NEW st \in Status,
           NEW r, r = service_publish_failure_sync(a, i, s.id, st)
    PROVE  J(r, X) /\ Keeps(a, r)
<1> DEFINE ll == The(a, i, LLID(i))
           p == The(a, i, s.parent)
           D == X \cup Dep(a, i, s)
           gives == s.child /\ IFStateGetServiceWithID(a, i, LLID(i), TRUE) /\ ll.addr # NoAddr
           takes == s.parent # NoID /\ Free(a, i, s.parent)
           left == [service_clear(ServicePublishSuccessIPv4(a, i, LLID(i)), i, s.id, "success")
                      EXCEPT !.misled = IF ll.parent = s.id THEN @ ELSE @ \cup {s.id}]
           b == CASE gives -> left
                  [] ~gives /\ takes -> service_publish_clear(a, i, s.parent, p.status)
                  [] OTHER -> service_publish_clear(a, i, s.id, "success")
<1>1. The(a, i, s.id) = s /\ s \in Service /\ Kin(i, s) /\ Shape(a) /\ a \in Agent
  BY TheOne, Elements DEF J, Shape
<1>2. r = Told(b, i, s.id, st)
  <2>1. takes <=> /\ s.parent # NoID /\ IFStateGetServiceWithID(a, i, s.parent, TRUE)
                  /\ p.addr = NoAddr
    BY <1>1, FreeThe
  <2> DEFINE old == /\ s.parent # NoID /\ IFStateGetServiceWithID(a, i, s.parent, TRUE)
                    /\ p.addr = NoAddr
             c == CASE gives -> left
                    [] ~gives /\ old -> service_publish_clear(a, i, s.parent, p.status)
                    [] OTHER -> service_publish_clear(a, i, s.id, "success")
  <2>2. r = Told(c, i, s.id, st)
    BY <1>1 DEF service_publish_failure_sync
  <2> HIDE DEF gives, left, takes, p, old
  <2>3. takes <=> old
    BY <2>1 DEF old
  <2>4. b = c
    BY <2>3
  <2> QED BY <2>2, <2>4
<1>3. J(b, X) /\ Keeps(a, b)
  <2>1. CASE gives
    <3>1. b = left
      BY <2>1
    <3>2. ll \in El(a, i) /\ ll.id = LLID(i)
      BY <2>1, FoundV4
    <3>3. s.parent = NoID /\ s.addr = NoAddr /\ s.child
      BY <1>1, <2>1 DEF Kin
    <3>4. J(a, X \cup {s.id})
      BY <1>1, <3>3, DepOne
    <3> HIDE DEF b, ll
    <3> QED BY <3>1, <3>2, <3>3, <3>4, GivesFacts
  <2>2. CASE ~gives /\ takes
    <3>1. b = service_publish_clear(a, i, s.parent, p.status)
      <4> HIDE DEF gives, takes, left, p
      <4> QED BY <2>2
    <3>2. p \in El(a, i) /\ p.id = s.parent
      <4>1. IFStateGetServiceWithID(a, i, s.parent, TRUE)
        BY <1>1, <2>2, FreeThe
      <4> QED BY <4>1, FoundV4
    <3>3. p.status \in Status
      BY <1>1, <3>2, Elements, Fields
    <3> DEFINE q == [p EXCEPT !.ready = FALSE, !.status = p.status]
    <3>4. J(b, D \ {p.id}) /\ Swapped(a, b, i, p, q)
      <4>1. b = service_publish_clear(a, i, p.id, p.status)
        BY <3>1, <3>2
      <4> HIDE DEF b, p, D
      <4>2. J(a, D)
        BY DEF D
      <4> QED BY <4>1, <4>2, <3>2, <3>3, PublishClearFacts
    <3>5. s.id = LLID(i)
      BY <1>1, <2>2, DepFacts
    <3>6. (D \ {p.id}) \ {LLID(i)} \subseteq X
      BY <3>2, <3>5 DEF Dep
    <3>7. J(b, X)
      <4> HIDE DEF b, D, p
      <4>1. J(b, (D \ {p.id}) \ {LLID(i)})
        BY <3>4, NoChildEntity
      <4> QED BY <3>6, <4>1, Weaker
    <3>8. q.id = p.id
      BY <1>1, <3>2, Elements DEF Service
    <3>9. Keeps(a, b)
      <4> HIDE DEF b, p, q
      <4> QED BY <3>4, <3>8, SwapKeeps
    <3> QED BY <3>7, <3>9
  <2>3. CASE ~gives /\ ~takes
    <3>1. b = service_publish_clear(a, i, s.id, "success")
      <4> HIDE DEF gives, takes, left, p
      <4> QED BY <2>3
    <3> DEFINE q == [s EXCEPT !.ready = FALSE, !.status = "success"]
    <3>2. "success" \in Status
      BY DEF Status
    <3>3. J(b, D \ {s.id}) /\ Swapped(a, b, i, s, q)
      <4> HIDE DEF b, D
      <4>1. J(a, D)
        BY DEF D
      <4> QED BY <4>1, <3>1, <3>2, PublishClearFacts
    <3>4. D \ {s.id} \subseteq X
      BY <1>1, <2>3, DepOne
    <3>5. J(b, X)
      <4> HIDE DEF b, D
      <4> QED BY <3>3, <3>4, Weaker
    <3>6. q.id = s.id
      BY <1>1 DEF Service
    <3>7. Keeps(a, b)
      <4> HIDE DEF b, q
      <4> QED BY <3>3, <3>6, SwapKeeps
    <3> QED BY <3>5, <3>7
  <2> QED BY <2>1, <2>2, <2>3
<1> HIDE DEF b
<1>4. PICK u \in El(b, i) : u.id = s.id
  BY <1>3 DEF Keeps
<1>5. r = Set(b, i, [The(b, i, u.id) EXCEPT !.ready = TRUE, !.status = st])
  BY <1>2, <1>4 DEF Told
<1> DEFINE v == [u EXCEPT !.ready = TRUE, !.status = st]
<1>6. J(r, X) /\ Swapped(b, r, i, u, v)
  <2>1. The(b, i, u.id) = u /\ u \in Service /\ Kin(i, u)
    BY <1>3, TheOne, Elements DEF J, Shape
  <2>2. v \in Service /\ Like(u, v) /\ v.child = u.child
    BY <2>1 DEF Service, Like
  <2>3. v.method = "linklocal" => ~v.child
    BY <2>1, <2>2 DEF Kin, Like
  <2>4. r = Set(b, i, v)
    BY <1>5, <2>1
  <2> HIDE DEF v
  <2> QED BY <1>3, <2>2, <2>3, <2>4, Touch
<1>7. v.id = u.id
  BY <1>3, Elements DEF Service, J
<1>8. Keeps(b, r)
  <2> HIDE DEF v
  <2> QED BY <1>6, <1>7, SwapKeeps
<1> QED BY <1>3, <1>6, <1>8, KeepsTwice

-----------------------------------------------------------------------------
(* Freeing.                                                                *)

\* The services in ids are gone, the others are there, and what they publish
\* did not change.
Freed(a, b, i, ids) ==
    /\ \A t \in El(b, i) : t.id \notin ids /\ \E u \in El(a, i) : Like(t, u)
    /\ \A u \in El(a, i) : u.id \notin ids => \E t \in El(b, i) : Like(t, u)
    /\ \A j \in NetIf \ {i} : El(b, j) = El(a, j)

\* s is, or was, a service of the interface.
Fits(a, i, s) == IsV4(s.method) => Kin(i, s) /\ \A t \in El(a, i) : t.id = s.id => Like(t, s)
Gone(s) == IF IsV4(s.method) THEN {s.id} ELSE {}

LEMMA FreedSame ==
    ASSUME NEW a, NEW b, Lists(a, b), NEW i \in NetIf
    PROVE  Freed(a, b, i, {})
  BY DEF Lists, Freed, Like

LEMMA FreedTwice ==
    ASSUME NEW a, NEW b, NEW c, NEW i \in NetIf, NEW I, NEW K, Freed(a, b, i, I), Freed(b, c, i, K)
    PROVE  Freed(a, c, i, I \cup K)
<1>1. ASSUME NEW t \in El(c, i)
      PROVE  t.id \notin I \cup K /\ \E u \in El(a, i) : Like(t, u)
  <2>1. PICK w \in El(b, i) : Like(t, w)
    BY DEF Freed
  <2>2. PICK u \in El(a, i) : Like(w, u)
    BY DEF Freed
  <2>3. t.id \notin I /\ t.id \notin K
    BY <2>1 DEF Freed, Like
  <2>4. Like(t, u)
    BY <2>1, <2>2 DEF Like
  <2> QED BY <2>3, <2>4
<1>2. ASSUME NEW u \in El(a, i), u.id \notin I \cup K
      PROVE  \E t \in El(c, i) : Like(t, u)
  <2>1. PICK w \in El(b, i) : Like(w, u)
    BY <1>2 DEF Freed
  <2>2. w.id \notin K
    BY <1>2, <2>1 DEF Like
  <2>3. PICK t \in El(c, i) : Like(t, w)
    BY <2>2 DEF Freed
  <2>4. Like(t, u)
    BY <2>1, <2>3 DEF Like
  <2> QED BY <2>4
<1>3. \A j \in NetIf \ {i} : El(c, j) = El(a, j)
  BY DEF Freed
<1> QED BY <1>1, <1>2, <1>3 DEF Freed

LEMMA FitsStill ==
    ASSUME NEW a, NEW b, NEW i \in NetIf, NEW I, Freed(a, b, i, I), NEW s, Fits(a, i, s)
    PROVE  Fits(b, i, s)
  BY DEF Fits, Freed, Like

LEMMA WithoutElements ==
    ASSUME NEW list \in Seq(Service), NEW id
    PROVE  Without(list, id) \in Seq(Service) /\ ToSet(Without(list, id)) = {s \in ToSet(list) : s.id # id}
<1> DEFINE K == {s \in ToSet(list) : s.id # id}
<1>1. Without(list, id) = Only(list, K)
  BY DEF Without
<1> HIDE DEF K
<1>2. Without(list, id) \in Seq(Service) /\ ToSet(Without(list, id)) = ToSet(list) \cap K
  BY <1>1, OnlyElements
<1> QED BY <1>2 DEF K

\* The service leaves the list.
LEMMA Leaves ==
    ASSUME NEW a, NEW X, J(a, X), NEW i \in NetIf, NEW s \in Service, IsV4(s.method), Fits(a, i, s),
           NEW b, b = [a EXCEPT !.if[i].v4 = Without(@, s.id)]
    PROVE  /\ J(b, X \cup Dep(a, i, s)) /\ El(b, i) = {t \in El(a, i) : t.id # s.id}
           /\ \A j \in NetIf \ {i} : El(b, j) = El(a, j)
<1>1. b = [a EXCEPT !.if[i].v4 = Without(a.if[i].v4, s.id)]
  OBVIOUS
<1>2. Without(a.if[i].v4, s.id) \in Seq(Service) /\ ToSet(Without(a.if[i].v4, s.id)) = {t \in El(a, i) : t.id # s.id}
  BY Elements, WithoutElements DEF J, El
<1>3. /\ b \in Agent /\ Rest(a, b) /\ b.kernel = a.kernel /\ El(b, i) = {t \in El(a, i) : t.id # s.id}
      /\ \A j \in NetIf \ {i} : El(b, j) = El(a, j)
      /\ \A j \in NetIf : El6(b, j) = El6(a, j)
  BY <1>1, <1>2, SetV4 DEF J
<1>4. \A j \in NetIf : El(b, j) \subseteq El(a, j)
  BY <1>3
<1>5. Shape(b) /\ Assigned(b) /\ NoEntity(b)
  BY <1>3, <1>4 DEF J, Shape, Unique, Assigned, NoEntity, Rest
<1>6. ASSUME NEW id, NEW j \in NetIf, NEW w \in El(a, j), w.addr = a.store[id], Serves(a, j, w, id),
             id \notin Dep(a, i, s)
      PROVE  Backs(b, id)
  <2>1. j = i => w.id # s.id
    BY <1>6 DEF Fits, Like, Serves, Dep
  <2>2. w \in El(b, j)
    BY <1>3, <2>1
  <2>3. id # s.id
    BY <1>6 DEF Dep
  <2>4. Serves(b, j, w, id)
    BY <1>3, <1>6, <2>3 DEF Serves, Free
  <2> QED BY <1>3, <1>6, <2>2, <2>4 DEF Backs, Rest
<1>7. Backed(b, X \cup Dep(a, i, s))
  BY <1>3, <1>6 DEF J, Backed, Backs, Rest
<1> QED BY <1>3, <1>5, <1>7 DEF J

\* ServiceFree of an IPv4 service.
LEMMA FreeV4Facts ==
    ASSUME NEW a, NEW X, J(a, X), NEW i \in NetIf, NEW s \in Service, IsV4(s.method), Fits(a, i, s),
           NEW r, r = ServiceFree(a, i, s)
    PROVE  J(r, X) /\ Freed(a, r, i, {s.id})
<1> DEFINE b == [a EXCEPT !.if[i].v4 = Without(@, s.id)]
           c == IF s.addr = NoAddr \/ IFState_service_with_ip(b, i, s.addr) THEN b
                ELSE [b EXCEPT !.kernel = @ \ {<<i, s.addr>>}]
           d == Attention(c, {"linklocal"})
           D == X \cup Dep(a, i, s)
           p == The(d, i, s.parent)
           takes == s.method = "linklocal" /\ s.parent # NoID /\ Free(d, i, s.parent)
           e == IF takes THEN service_publish_clear(d, i, s.parent, p.status) ELSE d
<1>1. /\ J(b, D) /\ El(b, i) = {t \in El(a, i) : t.id # s.id}
      /\ \A j \in NetIf \ {i} : El(b, j) = El(a, j)
  BY Leaves
<1>2. Kin(i, s) /\ a \in Agent /\ s.id \in IDs
  BY Fields DEF Fits, J
<1>3. Freed(a, b, i, {s.id})
  BY <1>1 DEF Freed, Like
<1>4. J(c, D) /\ Lists(b, c)
  <2> HIDE DEF b, D
  <2>1. CASE s.addr = NoAddr \/ IFState_service_with_ip(b, i, s.addr)
    BY <1>1, <2>1 DEF Lists
  <2>2. CASE ~(s.addr = NoAddr \/ IFState_service_with_ip(b, i, s.addr))
    <3>1. b.kernel \in SUBSET (NetIf \X Addr) /\ b \in Agent
      BY <1>1 DEF J, Agent
    <3>2. c = [b EXCEPT !.kernel = b.kernel \ {<<i, s.addr>>}]
      BY <2>2
    <3> HIDE DEF c
    <3>3. c \in Agent /\ Rest(b, c) /\ c.kernel = b.kernel \ {<<i, s.addr>>} /\ Lists(b, c)
      BY <3>1, <3>2, KernelFacts
    <3>4. \A j \in NetIf : \A w \in El(b, j) : <<j, w.addr>> # <<i, s.addr>>
      BY <2>2, WithIP
    <3> QED BY <1>1, <3>3, <3>4, Unassigned
  <2> QED BY <2>1, <2>2
<1> HIDE DEF b, c, D
<1>5. J(d, D) /\ Lists(c, d)
  <2>1. {"linklocal"} \in SUBSET {"linklocal", "disable", "publish"}
    OBVIOUS
  <2> HIDE DEF d
  <2> QED BY <1>4, <2>1, Attended DEF d
<1> HIDE DEF d
<1>6. /\ El(d, i) = {t \in El(a, i) : t.id # s.id}
      /\ \A j \in NetIf \ {i} : El(d, j) = El(a, j)
  BY <1>1, <1>4, <1>5 DEF Lists
<1>7. r = ClearEntity(e, i, s.id, TRUE)
  <2> DEFINE old == s.method = "linklocal" /\ s.parent # NoID /\ IFStateGetServiceWithID(d, i, s.parent, TRUE)
             fn == IF old THEN IF p.addr = NoAddr THEN service_publish_clear(d, i, s.parent, p.status) ELSE d
                  ELSE d
  <2>1. r = ClearEntity(fn, i, s.id, TRUE)
    BY DEF ServiceFree, Unlisted, Stopped, linklocal_set_needs_attention, b, c, d
  <2>2. takes <=> old /\ p.addr = NoAddr
    BY <1>5, FreeThe DEF J
  <2> HIDE DEF takes, old, p
  <2>3. e = fn
    BY <2>2
  <2> QED BY <2>1, <2>3
<1>8. Free(a, i, s.parent) /\ s.parent # NoID => Free(d, i, s.parent)
  BY <1>2, <1>6, DepFacts DEF Free
<1>9. J(e, X \cup {s.id}) /\ Freed(d, e, i, {})
  <2>1. CASE takes
    <3>1. e = service_publish_clear(d, i, s.parent, p.status)
      <4> HIDE DEF takes, p
      <4> QED BY <2>1
    <3>2. p \in El(d, i) /\ p.id = s.parent
      <4>1. IFStateGetServiceWithID(d, i, s.parent, TRUE)
        BY <1>5, <2>1, FreeThe DEF J
      <4> QED BY <4>1, FoundV4
    <3>3. p.status \in Status /\ p \in Service
      BY <1>5, <3>2, Elements, Fields DEF J
    <3> DEFINE q == [p EXCEPT !.ready = FALSE, !.status = p.status]
    <3>4. J(e, D \ {p.id}) /\ Swapped(d, e, i, p, q)
      <4>1. e = service_publish_clear(d, i, p.id, p.status)
        BY <3>1, <3>2
      <4> HIDE DEF e, p
      <4> QED BY <1>5, <4>1, <3>2, <3>3, PublishClearFacts
    <3>5. D \ {p.id} \subseteq X \cup {s.id}
      BY <3>2 DEF D, Dep
    <3>6. Like(q, p)
      BY <3>3 DEF Like, Service
    <3> HIDE DEF e, p, q
    <3>7. Freed(d, e, i, {})
      BY <3>4, <3>6, <3>2 DEF Freed, Swapped, Like
    <3> QED BY <3>4, <3>5, <3>7, Weaker
  <2>2. CASE ~takes
    <3>1. e = d
      <4> HIDE DEF takes
      <4> QED BY <2>2
    <3>2. s.parent = NoID \/ ~Free(a, i, s.parent)
      BY <1>2, <1>8, <2>2, DepFacts
    <3>3. D \subseteq X \cup {s.id}
      BY <1>2, <3>2, DepOne DEF D
    <3>4. Freed(d, d, i, {})
      BY FreedSame DEF Lists
    <3> HIDE DEF e
    <3> QED BY <1>5, <3>1, <3>3, <3>4, Weaker
  <2> QED BY <2>1, <2>2
<1> HIDE DEF e
<1>10. J(r, (X \cup {s.id}) \ {s.id}) /\ Lists(e, r)
  BY <1>2, <1>7, <1>9, ClearFacts, Zenon
<1>11. J(r, X)
  <2>1. (X \cup {s.id}) \ {s.id} \subseteq X
    OBVIOUS
  <2> QED BY <1>10, <2>1, Weaker
<1>12. Freed(b, c, i, {}) /\ Freed(c, d, i, {}) /\ Freed(e, r, i, {})
  BY <1>4, <1>5, <1>10, FreedSame
<1>13. Freed(a, r, i, {s.id})
  <2>1. Freed(a, c, i, {s.id} \cup {})
    BY <1>3, <1>12, FreedTwice
  <2>2. Freed(a, d, i, {s.id} \cup {} \cup {})
    BY <2>1, <1>12, FreedTwice
  <2>3. Freed(a, e, i, {s.id} \cup {} \cup {} \cup {})
    BY <2>2, <1>9, FreedTwice
  <2>4. Freed(a, r, i, {s.id} \cup {} \cup {} \cup {} \cup {})
    BY <2>3, <1>12, FreedTwice
  <2>5. {s.id} \cup {} \cup {} \cup {} \cup {} = {s.id}
    OBVIOUS
  <2> QED BY <2>4, <2>5
<1> QED BY <1>11, <1>13

\* IPv6 services: nothing that the invariant speaks of.
LEMMA Clear6Facts ==
    ASSUME NEW a, NEW X, J(a, X), NEW i \in NetIf, NEW id, NEW b, b = ClearEntity(a, i, id, FALSE)
    PROVE  J(b, X) /\ Lists(a, b)
<1>1. b \in Agent /\ Rest(a, b) /\ b.kernel = a.kernel /\ b.if = a.if
  BY DEF ClearEntity, setDisableUntilNeededNeedsAttention, Attention, J, Agent, Rest
<1> QED BY <1>1, SameIf, SameServices

\* IPv6 lists change, and all services in them are for IPv6.
LEMMA Other6 ==
    ASSUME NEW a, NEW X, J(a, X), NEW b \in Agent, Rest(a, b), b.kernel = a.kernel,
           \A j \in NetIf : El(b, j) = El(a, j) /\ \A s \in El6(b, j) : ~IsV4(s.method)
    PROVE  J(b, X)
<1>1. Shape(b) /\ Assigned(b) /\ NoEntity(b)
  BY DEF J, Shape, Unique, Assigned, NoEntity, Rest
<1>2. \A id : Backs(a, id) => Backs(b, id)
  BY DEF Backs, Serves, Free, Rest
<1>3. Backed(b, X)
  BY <1>2 DEF J, Backed, Rest
<1> QED BY <1>1, <1>3 DEF J

LEMMA FreeV6Facts ==
    ASSUME NEW a, NEW X, J(a, X), NEW i \in NetIf, NEW s \in Service, ~IsV4(s.method),
           NEW r, r = ServiceFree(a, i, s)
    PROVE  J(r, X) /\ Freed(a, r, i, {})
<1> DEFINE list == Without(a.if[i].v6, s.id)
           b == [a EXCEPT !.if[i].v6 = list]
<1>1. list \in Seq(Service) /\ ToSet(list) \subseteq El6(a, i)
  BY Elements, WithoutElements DEF J, El6
<1>2. r = ClearEntity(b, i, s.id, FALSE)
  BY DEF ServiceFree, Unlisted, Stopped
<1> HIDE DEF list
<1>3. /\ b \in Agent /\ Rest(a, b) /\ b.kernel = a.kernel /\ El6(b, i) = ToSet(list)
      /\ \A j \in NetIf \ {i} : El6(b, j) = El6(a, j)
      /\ \A j \in NetIf : El(b, j) = El(a, j)
  BY <1>1, SetV6 DEF J
<1> HIDE DEF b
<1>4. J(b, X)
  <2>1. \A j \in NetIf : \A t \in El6(b, j) : ~IsV4(t.method)
    BY <1>1, <1>3 DEF J, Shape
  <2> QED BY <1>3, <2>1, Other6
<1>5. J(r, X) /\ Lists(b, r)
  BY <1>2, <1>4, Clear6Facts, Zenon
<1>6. Freed(a, r, i, {})
  BY <1>3, <1>5 DEF Freed, Lists, Like
<1> QED BY <1>5, <1>6

\* ServiceFree
LEMMA FreeFacts ==
    ASSUME NEW a, NEW X, J(a, X), NEW i \in NetIf, NEW s \in Service, Fits(a, i, s),
           NEW r, r = ServiceFree(a, i, s)
    PROVE  J(r, X) /\ Freed(a, r, i, Gone(s))
<1>1. CASE IsV4(s.method)
  BY <1>1, FreeV4Facts DEF Gone
<1>2. CASE ~IsV4(s.method)
  BY <1>2, FreeV6Facts DEF Gone
<1> QED BY <1>1, <1>2

AllGone(list, n) == UNION {Gone(list[k]) : k \in 1..n}

\* FreeAll
LEMMA FreeAllFacts ==
    ASSUME NEW a, NEW X, J(a, X), NEW i \in NetIf, NEW list \in Seq(Service),
           \A s \in ToSet(list) : Fits(a, i, s)
    PROVE  J(FreeAll(a, i, list), X) /\ Freed(a, FreeAll(a, i, list), i, AllGone(list, Len(list)))
<1> DEFINE N == Len(list)
           T == [m \in 0..N |-> {b \in Agent : J(b, X) /\ Freed(a, b, i, AllGone(list, m))}]
           Turn(m, b) == ServiceFree(b, i, list[m])
           G == [m \in 1..N |-> [b \in T[m - 1] |-> Turn(m, b)]]
           Runs(fn) == fn = [m \in 0..N |-> IF m = 0 THEN a ELSE Turn(m, fn[m - 1])]
           g == CHOOSE fn : Runs(fn)
<1>1. N \in Nat /\ DOMAIN list = 1..N /\ \A k \in 1..N : list[k] \in Service /\ list[k] \in ToSet(list)
  BY LenProperties DEF ToSet
<1>2. a \in T[0]
  <2>1. AllGone(list, 0) = {}
    BY DEF AllGone
  <2>2. Freed(a, a, i, {})
    BY FreedSame DEF Lists
  <2>3. a \in Agent
    BY DEF J
  <2> HIDE DEF N
  <2>4. 0 \in 0..N
    BY <1>1
  <2>5. Freed(a, a, i, AllGone(list, 0))
    BY <2>1, <2>2, Zenon
  <2> QED BY <2>3, <2>4, <2>5
<1>3. \A m \in 1..N : \A b \in T[m - 1] : G[m][b] = Turn(m, b) /\ Turn(m, b) \in T[m]
  <2> SUFFICES ASSUME NEW m \in 1..N, NEW b \in T[m - 1]
               PROVE  G[m][b] = Turn(m, b) /\ Turn(m, b) \in T[m]
    OBVIOUS
  <2>1. m - 1 \in 0..N /\ m \in 0..N /\ list[m] \in Service /\ list[m] \in ToSet(list)
    BY <1>1
  <2>2. J(b, X) /\ Freed(a, b, i, AllGone(list, m - 1))
    BY <2>1
  <2>3. Fits(b, i, list[m])
    BY <2>1, <2>2, FitsStill
  <2>4. J(Turn(m, b), X) /\ Freed(b, Turn(m, b), i, Gone(list[m]))
    <3>1. Turn(m, b) = ServiceFree(b, i, list[m])
      OBVIOUS
    <3> HIDE DEF Turn
    <3> QED BY <3>1, <2>1, <2>2, <2>3, FreeFacts
  <2>5. AllGone(list, m) = AllGone(list, m - 1) \cup Gone(list[m])
    <3>1. \A k : k \in 1..m <=> k \in 1..(m - 1) \/ k = m
      BY <1>1
    <3> QED BY <3>1 DEF AllGone
  <2>6. Freed(a, Turn(m, b), i, AllGone(list, m))
    <3> HIDE DEF Turn
    <3> QED BY <2>2, <2>4, <2>5, FreedTwice
  <2>7. G[m][b] = Turn(m, b)
    <3> HIDE DEF T, Turn
    <3> QED OBVIOUS
  <2>8. Turn(m, b) \in Agent
    BY <2>4 DEF J
  <2> HIDE DEF Turn, G
  <2> QED BY <2>1, <2>4, <2>6, <2>7, <2>8
<1>4. FreeAll(a, i, list) = g[N]
  <2> HIDE DEF T
  <2> QED BY DEF FreeAll
<1>5. \A x : x \in T[N] => J(x, X) /\ Freed(a, x, i, AllGone(list, N))
  BY <1>1
<1>6. g[N] \in T[N]
  <2> HIDE DEF T, Turn, G, N
  <2>1. Carries(G, T, N)
    BY <1>3 DEF Carries
  <2>2. \E fn : Runs(fn)
    <3>1. PICK fn : Loop(G, a, fn, N) /\ \A m \in 0..N : fn[m] \in T[m]
      BY <1>1, <1>2, <2>1, LoopRuns
    <3>2. \A m \in 1..N : m - 1 \in 0..N /\ m # 0
      BY <1>1
    <3>3. \A m \in 1..N : G[m][fn[m - 1]] = Turn(m, fn[m - 1])
      BY <1>3, <3>1, <3>2
    <3>4. \A m \in 0..N : m \in 1..N \/ m = 0
      BY <1>1
    <3>5. fn = [m \in 0..N |-> IF m = 0 THEN a ELSE Turn(m, fn[m - 1])]
      BY <3>1, <3>3, <3>4 DEF Loop
    <3> QED BY <3>5
  <2>3. g = [m \in 0..N |-> IF m = 0 THEN a ELSE Turn(m, g[m - 1])]
    BY <2>2
  <2> HIDE DEF g, Runs
  <2>4. g[0] = a /\ \A m \in 1..N : g[m] = Turn(m, g[m - 1])
    BY <1>1, <2>3
  <2>5. Follows(g, G, T, N)
    BY <1>3, <2>4 DEF Follows
  <2>6. \A m \in 0..N : g[m] \in T[m]
    BY <1>1, <1>2, <2>1, <2>4, <2>5, LoopEnds
  <2> QED BY <1>1, <2>6
<1> QED BY <1>4, <1>5, <1>6

-----------------------------------------------------------------------------
(* Creating.                                                               *)

LEMMA Lookup ==
    ASSUME NEW a, NEW X, J(a, X), NEW i \in NetIf, NEW s \in El(a, i)
    PROVE  Fits(a, i, s) /\ s \in Service /\ Kin(i, s)
<1>1. Kin(i, s) /\ s \in Service
  BY Elements DEF J, Shape
<1>2. \A t \in El(a, i) : t.id = s.id => Like(t, s)
  BY DEF J, Shape, Unique, Like
<1> QED BY <1>1, <1>2 DEF Fits

LEMMA LinkLocalElements ==
    ASSUME NEW a \in Agent, NEW i \in NetIf
    PROVE  /\ LinkLocalServices(a, i) \in Seq(Service)
           /\ ToSet(LinkLocalServices(a, i)) = {s \in El(a, i) : s.method = "linklocal"}
<1> DEFINE K == {s \in ToSet(a.if[i].v4) : s.method = "linklocal"}
<1>1. LinkLocalServices(a, i) = Only(a.if[i].v4, K)
  BY DEF LinkLocalServices
<1> HIDE DEF K
<1>2. a.if[i].v4 \in Seq(Service)
  BY Elements
<1>3. LinkLocalServices(a, i) \in Seq(Service) /\ ToSet(LinkLocalServices(a, i)) = El(a, i) \cap K
  BY <1>1, <1>2, OnlyElements DEF El
<1> QED BY <1>3 DEF K, El

LEMMA GoneAll ==
    ASSUME NEW list \in Seq(Service), NEW id
    PROVE  id \in AllGone(list, Len(list)) <=> \E s \in ToSet(list) : IsV4(s.method) /\ s.id = id
<1>1. DOMAIN list = 1..Len(list)
  BY LenProperties
<1> QED BY <1>1 DEF AllGone, Gone, ToSet

\* A new link-local service takes the place of those there are.
LEMMA FreeLinkLocals ==
    ASSUME NEW a, NEW X, J(a, X), NEW i \in NetIf, NEW b, b = FreeAll(a, i, LinkLocalServices(a, i))
    PROVE  /\ J(b, X) /\ \A t \in El(b, i) : t.method # "linklocal" /\ \E u \in El(a, i) : Like(t, u)
           /\ \A u \in El(a, i) : u.method # "linklocal" => \E t \in El(b, i) : Like(t, u)
<1> DEFINE list == LinkLocalServices(a, i)
<1>1. list \in Seq(Service) /\ ToSet(list) = {s \in El(a, i) : s.method = "linklocal"}
  BY LinkLocalElements DEF J
<1>2. \A s \in ToSet(list) : Fits(a, i, s)
  BY <1>1, Lookup
<1> HIDE DEF list
<1>3. J(b, X) /\ Freed(a, b, i, AllGone(list, Len(list)))
  BY <1>1, <1>2, FreeAllFacts DEF list
<1>4. \A u \in El(a, i) : u.id \in AllGone(list, Len(list)) <=> u.method = "linklocal"
  <2> TAKE u \in El(a, i)
  <2>1. u.method = "linklocal" => u.id \in AllGone(list, Len(list))
    <3>1. IsV4("linklocal")
      BY DEF IsV4
    <3> QED BY <1>1, <3>1, GoneAll
  <2>2. ASSUME u.id \in AllGone(list, Len(list)) PROVE u.method = "linklocal"
    <3>1. PICK s \in ToSet(list) : s.id = u.id
      BY <1>1, <2>2, GoneAll
    <3> QED BY <1>1, <3>1 DEF J, Shape, Unique
  <2> QED BY <2>1, <2>2
<1>5. \A t \in El(b, i) : t.method # "linklocal" /\ \E u \in El(a, i) : Like(t, u)
  <2> TAKE t \in El(b, i)
  <2>1. PICK u \in El(a, i) : Like(t, u)
    BY <1>3 DEF Freed
  <2>2. t.id \notin AllGone(list, Len(list))
    BY <1>3 DEF Freed
  <2>3. u.method # "linklocal"
    BY <1>4, <2>1, <2>2 DEF Like
  <2> QED BY <2>1, <2>3 DEF Like
<1>6. \A u \in El(a, i) : u.method # "linklocal" => \E t \in El(b, i) : Like(t, u)
  BY <1>3, <1>4 DEF Freed
<1> QED BY <1>3, <1>5, <1>6

\* A new service without an address joins the list.
LEMMA ListedFacts ==
    ASSUME NEW a, NEW X, J(a, X), NEW i \in NetIf, NEW s \in Service, s.addr = NoAddr, Kin(i, s),
           \A t \in El(a, i) : t.id # s.id, NEW r, r = Listed(a, i, s)
    PROVE  J(r, X)
<1> DEFINE l == Append(a.if[i].v4, s)
<1>1. r = [a EXCEPT !.if[i].v4 = l]
  BY DEF Listed, Kin
<1>2. l \in Seq(Service) /\ ToSet(l) = El(a, i) \cup {s}
  BY Elements, AppendElements DEF J, El
<1> HIDE DEF l
<1>3. /\ r \in Agent /\ Rest(a, r) /\ r.kernel = a.kernel /\ El(r, i) = El(a, i) \cup {s}
      /\ \A j \in NetIf \ {i} : El(r, j) = El(a, j)
      /\ \A j \in NetIf : El6(r, j) = El6(a, j)
  BY <1>1, <1>2, SetV4 DEF J
<1>4. Shape(r)
  <2>1. Unique(r, i) /\ \A t \in El(r, i) : Kin(i, t)
    BY <1>3 DEF J, Shape, Unique
  <2> QED BY <1>3, <2>1 DEF J, Shape, Unique
<1>5. Assigned(r) /\ NoEntity(r)
  BY <1>3 DEF J, Assigned, NoEntity, Rest
<1>6. \A j \in NetIf : El(a, j) \subseteq El(r, j)
  BY <1>3
<1>7. \A id : Backs(a, id) => Backs(r, id)
  BY <1>3, <1>6 DEF Backs, Serves, Free, Rest
<1>8. Backed(r, X)
  BY <1>3, <1>7 DEF J, Backed, Rest
<1> QED BY <1>3, <1>4, <1>5, <1>8 DEF J

LEMMA Listed6Facts ==
    ASSUME NEW a, NEW X, J(a, X), NEW i \in NetIf, NEW s \in Service, ~IsV4(s.method), NEW r, r = Listed(a, i, s)
    PROVE  J(r, X)
<1> DEFINE l == Append(a.if[i].v6, s)
<1>1. r = [a EXCEPT !.if[i].v6 = l]
  BY DEF Listed
<1>2. l \in Seq(Service) /\ ToSet(l) = El6(a, i) \cup {s}
  BY Elements, AppendElements DEF J, El6
<1> HIDE DEF l
<1>3. /\ r \in Agent /\ Rest(a, r) /\ r.kernel = a.kernel /\ El6(r, i) = El6(a, i) \cup {s}
      /\ \A j \in NetIf \ {i} : El6(r, j) = El6(a, j)
      /\ \A j \in NetIf : El(r, j) = El(a, j)
  BY <1>1, <1>2, SetV6 DEF J
<1>4. \A j \in NetIf : \A t \in El6(r, j) : ~IsV4(t.method)
  BY <1>3 DEF J, Shape
<1> QED BY <1>3, <1>4, Other6

\* The parent of a new service is another service of the interface.
Parented(a, i, s) == s.parent = NoID \/ \E p \in El(a, i) : p.id = s.parent /\ p.method # "linklocal"

LEMMA WithChildFacts ==
    ASSUME NEW a, NEW X, J(a, X), NEW i \in NetIf, NEW s, Parented(a, i, s), NEW b, b = WithChild(a, i, s.parent)
    PROVE  J(b, X) /\ \A t \in El(b, i) : \E u \in El(a, i) : t.id = u.id
<1>1. CASE s.parent = NoID
  BY <1>1 DEF WithChild
<1>2. CASE s.parent # NoID
  <2>1. PICK p \in El(a, i) : p.id = s.parent /\ p.method # "linklocal"
    BY <1>2 DEF Parented
  <2> DEFINE q == [p EXCEPT !.child = TRUE]
  <2>2. The(a, i, s.parent) = p /\ p \in Service
    BY <2>1, TheOne, Lookup DEF J
  <2>3. q \in Service /\ Like(p, q)
    BY <2>2 DEF Service, Like
  <2>4. b = Set(a, i, q)
    BY <1>2, <2>2 DEF WithChild
  <2> HIDE DEF q
  <2>5. J(b, X) /\ Swapped(a, b, i, p, q)
    BY <2>1, <2>3, <2>4, Touch DEF Like
  <2> QED BY <2>3, <2>5 DEF Swapped, Like
<1> QED BY <1>1, <1>2

\* ServiceCreate
LEMMA CreateFacts ==
    ASSUME NEW a, NEW X, J(a, X), NEW i \in NetIf, NEW s \in Service, s.addr = NoAddr, Kin(i, s),
           \A t \in El(a, i) : t.id = s.id => t.method = "linklocal" /\ s.method = "linklocal",
           Parented(a, i, s), NEW r, r = ServiceCreate(a, i, s)
    PROVE  J(r, X)
<1> DEFINE b == IF s.method = "linklocal" THEN FreeAll(a, i, LinkLocalServices(a, i)) ELSE a
           c == WithChild(b, i, s.parent)
<1>1. r = Listed(c, i, s)
  BY DEF ServiceCreate
<1>2. J(b, X) /\ Parented(b, i, s) /\ \A t \in El(b, i) : t.id # s.id
  <2>1. CASE s.method # "linklocal"
    BY <2>1
  <2>2. CASE s.method = "linklocal"
    <3>1. b = FreeAll(a, i, LinkLocalServices(a, i))
      BY <2>2
    <3> HIDE DEF b
    <3>2. /\ J(b, X) /\ \A t \in El(b, i) : t.method # "linklocal" /\ \E u \in El(a, i) : Like(t, u)
          /\ \A u \in El(a, i) : u.method # "linklocal" => \E t \in El(b, i) : Like(t, u)
      BY <3>1, FreeLinkLocals
    <3>3. Parented(b, i, s)
      BY <3>2 DEF Parented, Like
    <3>4. \A t \in El(b, i) : t.id # s.id
      BY <3>2 DEF Like
    <3> QED BY <3>2, <3>3, <3>4
  <2> QED BY <2>1, <2>2
<1> HIDE DEF b
<1>3. J(c, X) /\ \A t \in El(c, i) : t.id # s.id
  BY <1>2, WithChildFacts
<1> HIDE DEF c
<1> QED BY <1>1, <1>3, ListedFacts

\* IFState_service_add
LEMMA AddFacts ==
    ASSUME NEW a, NEW X, J(a, X), NEW i \in NetIf, NEW s \in Service, s.addr = NoAddr, NEW r, r = IFState_service_add(a, i, s),
           IF IsV4(s.method)
             THEN /\ Kin(i, s) /\ Parented(a, i, s)
                  /\ \A t \in El(a, i) : t.id = s.id => t.method = "linklocal" /\ s.method = "linklocal"
             ELSE s.parent = NoID
    PROVE  J(r, X)
<1> DEFINE d == [a EXCEPT !.if[i].disabled = TRUE]
           b == IF s.parent = NoID /\ a.if[i].requested THEN d ELSE a
<1>1. r = ServiceCreate(b, i, s)
  BY DEF IFState_service_add
<1>2. J(d, X) /\ Lists(a, d)
  <2>1. d \in Agent /\ Rest(a, d) /\ d.kernel = a.kernel
    BY DEF J, Agent, Interface, Rest
  <2>2. \A j \in NetIf : d.if[j].v4 = a.if[j].v4 /\ d.if[j].v6 = a.if[j].v6
    BY DEF J, Agent, Interface
  <2> HIDE DEF d
  <2>3. Lists(a, d)
    BY <2>2, SameV
  <2> QED BY <2>1, <2>3, SameServices
<1>3. J(b, X) /\ Lists(a, b)
  <2>1. Lists(a, a)
    BY DEF Lists
  <2> HIDE DEF d
  <2> QED BY <1>2, <2>1
<1> HIDE DEF b
<1>4. CASE IsV4(s.method)
  <2>1. Parented(b, i, s) /\ \A t \in El(b, i) : t.id = s.id => t.method = "linklocal" /\ s.method = "linklocal"
    BY <1>3, <1>4 DEF Parented, Lists
  <2> QED BY <1>1, <1>3, <1>4, <2>1, CreateFacts
<1>5. CASE ~IsV4(s.method)
  <2>1. s.method # "linklocal"
    BY <1>5 DEF IsV4
  <2>2. r = Listed(b, i, s)
    BY <1>1, <1>5, <2>1 DEF ServiceCreate, WithChild
  <2> QED BY <1>3, <1>5, <2>2, Listed6Facts
<1> QED BY <1>4, <1>5

-----------------------------------------------------------------------------
(* Configuration.                                                          *)

LEMMA AllFit ==
    ASSUME NEW a, NEW X, J(a, X), NEW i \in NetIf, NEW list, list = a.if[i].v4 \/ list = a.if[i].v6
    PROVE  list \in Seq(Service) /\ \A s \in ToSet(list) : Fits(a, i, s)
<1>1. CASE list = a.if[i].v4
  BY <1>1, Elements, Lookup DEF J, El
<1>2. CASE list = a.if[i].v6
  BY <1>2, Elements DEF J, El6, Shape, Fits
<1> QED BY <1>1, <1>2

LEMMA FreeOnly ==
    ASSUME NEW a, NEW X, J(a, X), NEW i \in NetIf, NEW list, list = a.if[i].v4 \/ list = a.if[i].v6, NEW keep
    PROVE  J(FreeAll(a, i, Only(list, keep)), X)
<1> DEFINE l == Only(list, keep)
<1>1. list \in Seq(Service) /\ \A s \in ToSet(list) : Fits(a, i, s)
  BY AllFit
<1>2. l \in Seq(Service) /\ ToSet(l) = ToSet(list) \cap keep
  BY <1>1, OnlyElements
<1> HIDE DEF l
<1>3. \A s \in ToSet(l) : Fits(a, i, s)
  BY <1>1, <1>2
<1>4. J(FreeAll(a, i, l), X)
  BY <1>2, <1>3, FreeAllFacts
<1> QED BY <1>4 DEF l

LEMMA OfFacts ==
    ASSUME NEW a, NEW i, NEW v4
    PROVE  Of(a, i, v4) = a.if[i].v4 \/ Of(a, i, v4) = a.if[i].v6
  BY DEF Of

LEMMA NonDynamicFacts ==
    ASSUME NEW a, NEW X, J(a, X), NEW i \in NetIf
    PROVE  /\ J(IFStateFreeIPv4Services(a, i, FALSE), X) /\ J(IFStateFreeIPv6Services(a, i, FALSE), X)
<1>1. IFStateFreeIPv4Services(a, i, FALSE) = FreeAll(a, i, Only(a.if[i].v4, {s \in ToSet(a.if[i].v4) : ~s.dynamic}))
  BY DEF IFStateFreeIPv4Services, S_FreeNonDynamicServices, Of
<1>2. IFStateFreeIPv6Services(a, i, FALSE) = FreeAll(a, i, Only(a.if[i].v6, {s \in ToSet(a.if[i].v6) : ~s.dynamic}))
  BY DEF IFStateFreeIPv6Services, S_FreeNonDynamicServices, Of
<1> QED BY <1>1, <1>2, FreeOnly

\* The entries of the list that the agent works on are of the configuration.
LEMMA ListInitFacts ==
    ASSUME NEW a, NEW i, NEW conf, conf \in Seq(ToSet(conf)), NEW v4
    PROVE  ServiceConfigListInit(a, i, conf, v4) \in Seq(ToSet(conf))
<1> DEFINE C == ToSet(conf)
           K == {c \in C : IsV4(c.method) = v4}
           mine == Only(conf, K)
           N == Len(mine)
           T == [m \in 0..N |-> Seq(C)]
           Superfluous(scl, c) ==
              \/ \E n \in DOMAIN scl : SameConfig(scl[n], c)
              \/ IFStateGetServiceMatchingMethod(a, i, c.method, c.want, TRUE) # <<>>
           Turn(m, r) == IF Superfluous(r, mine[m]) THEN r ELSE Append(r, mine[m])
           G == [m \in 1..N |-> [r \in T[m - 1] |-> Turn(m, r)]]
           Runs(fn) == fn = [m \in 0..N |-> IF m = 0 THEN <<>> ELSE Turn(m, fn[m - 1])]
           g == CHOOSE fn : Runs(fn)
<1>1. mine \in Seq(C)
  <2> HIDE DEF K
  <2> QED BY OnlyElements
<1>2. ServiceConfigListInit(a, i, conf, v4) = g[N]
  <2> HIDE DEF T
  <2> QED BY DEF ServiceConfigListInit
<1> HIDE DEF mine, C, Superfluous
<1>3. N \in Nat /\ \A k \in 1..N : mine[k] \in C
  BY <1>1, LenProperties, ElementOfSeq
<1>4. <<>> \in T[0]
  <2>1. <<>> \in Seq(C) /\ 0 \in 0..N
    BY <1>3
  <2> QED BY <2>1
<1>5. \A m \in 1..N : \A r \in T[m - 1] : G[m][r] = Turn(m, r) /\ Turn(m, r) \in T[m]
  <2> SUFFICES ASSUME NEW m \in 1..N, NEW r \in T[m - 1]
               PROVE  G[m][r] = Turn(m, r) /\ Turn(m, r) \in T[m]
    OBVIOUS
  <2>1. m - 1 \in 0..N /\ m \in 0..N /\ mine[m] \in C
    BY <1>3
  <2>2. r \in Seq(C)
    BY <2>1
  <2>3. Append(r, mine[m]) \in Seq(C)
    BY <2>1, <2>2, AppendElements
  <2>4. Turn(m, r) \in Seq(C)
    BY <2>2, <2>3
  <2>5. G[m][r] = Turn(m, r)
    <3> HIDE DEF T, Turn
    <3> QED OBVIOUS
  <2> QED BY <2>1, <2>4, <2>5
<1>6. \A x : x \in T[N] => x \in Seq(C)
  BY <1>3
<1>7. g[N] \in T[N]
  <2> HIDE DEF T, Turn, G, N
  <2>1. Carries(G, T, N)
    BY <1>5 DEF Carries
  <2>2. \E fn : Runs(fn)
    <3>1. PICK fn : Loop(G, <<>>, fn, N) /\ \A m \in 0..N : fn[m] \in T[m]
      BY <1>3, <1>4, <2>1, LoopRuns
    <3>2. \A m \in 1..N : m - 1 \in 0..N /\ m # 0
      BY <1>3
    <3>3. \A m \in 1..N : G[m][fn[m - 1]] = Turn(m, fn[m - 1])
      BY <1>5, <3>1, <3>2
    <3>4. \A m \in 0..N : m \in 1..N \/ m = 0
      BY <1>3
    <3>5. fn = [m \in 0..N |-> IF m = 0 THEN <<>> ELSE Turn(m, fn[m - 1])]
      BY <3>1, <3>3, <3>4 DEF Loop
    <3> QED BY <3>5
  <2>3. g = [m \in 0..N |-> IF m = 0 THEN <<>> ELSE Turn(m, g[m - 1])]
    BY <2>2
  <2> HIDE DEF g, Runs
  <2>4. g[0] = <<>> /\ \A m \in 1..N : g[m] = Turn(m, g[m - 1])
    BY <1>3, <2>3
  <2>5. Follows(g, G, T, N)
    BY <1>5, <2>4 DEF Follows
  <2>6. \A m \in 0..N : g[m] \in T[m]
    BY <1>3, <1>4, <2>1, <2>4, <2>5, LoopEnds
  <2> QED BY <1>3, <2>6
<1> QED BY <1>2, <1>6, <1>7 DEF C

IsEntry(c) == c.id \in ServiceIDs /\ c.method \in Methods /\ c.want \in Addr

LEMMA SetupEntries ==
    ASSUME NEW n \in DOMAIN Setups, NEW i \in NetIf
    PROVE  Setups[n].conf[i] \in Seq(ToSet(Setups[n].conf[i])) /\ \A c \in ToSet(Setups[n].conf[i]) : IsEntry(c)
<1> DEFINE conf == Setups[n].conf[i]
<1>1. conf \in Seq(ToSet(conf)) /\ \A m \in DOMAIN conf : conf[m].id \in ServiceIDs /\ conf[m].method \in Methods
  BY ServiceAssumption
<1>2. \A m \in DOMAIN conf : conf[m].want \in Addr
  BY DEF Addr
<1> HIDE DEF conf
<1>3. \A c \in ToSet(conf) : IsEntry(c)
  BY <1>1, <1>2 DEF ToSet, IsEntry
<1> QED BY <1>1, <1>3 DEF conf

LEMMA NewFacts ==
    ASSUME NEW id \in IDs, NEW method \in Methods, NEW want \in Addr, NEW dynamic \in BOOLEAN,
           NEW parent \in IDs \cup {NoID}, NEW s, s = NewService(id, method, want, dynamic, parent)
    PROVE  /\ s \in Service /\ s.id = id /\ s.method = method /\ s.parent = parent /\ s.addr = NoAddr
           /\ s.child = FALSE
  BY Identifiers DEF NewService, Service, Status

\* A service that is looked up and freed.
LEMMA FreeFound ==
    ASSUME NEW a, NEW X, J(a, X), NEW i \in NetIf, NEW id, NEW v4 \in BOOLEAN, HasID(Of(a, i, v4), id),
           NEW r, r = ServiceFree(a, i, GetID(Of(a, i, v4), id))
    PROVE  /\ J(r, X) /\ Freed(a, r, i, IF v4 THEN {id} ELSE {})
<1> DEFINE s == GetID(Of(a, i, v4), id)
<1>1. s \in ToSet(Of(a, i, v4)) /\ s.id = id
  BY Found
<1>2. Fits(a, i, s) /\ s \in Service
  <2>1. Of(a, i, v4) \in Seq(Service) /\ \A u \in ToSet(Of(a, i, v4)) : Fits(a, i, u)
    BY AllFit, OfFacts
  <2>2. \A l \in Seq(Service) : ToSet(l) \subseteq Service
    BY LenProperties, ElementOfSeq DEF ToSet
  <2> HIDE DEF s
  <2> QED BY <1>1, <2>1, <2>2
<1>3. Gone(s) = IF v4 THEN {id} ELSE {}
  <2>1. CASE v4
    <3>1. s \in El(a, i)
      BY <1>1, <2>1 DEF Of, El
    <3> HIDE DEF s
    <3> QED BY <1>1, <2>1, <3>1 DEF Gone, J, Shape, Kin
  <2>2. CASE ~v4
    <3>1. s \in El6(a, i)
      BY <1>1, <2>2 DEF Of, El6
    <3> HIDE DEF s
    <3> QED BY <1>1, <2>2, <3>1 DEF Gone, J, Shape
  <2> QED BY <2>1, <2>2
<1> HIDE DEF s
<1>4. J(r, X) /\ Freed(a, r, i, Gone(s))
  BY <1>2, FreeFacts DEF s
<1> QED BY <1>3, <1>4

LEMMA SetServiceFacts ==
    ASSUME NEW a, NEW X, J(a, X), NEW i \in NetIf, NEW c, IsEntry(c), NEW r, r = S_set_service(a, i, c)
    PROVE  J(r, X)
<1> DEFINE v4 == IsV4(c.method)
           here == HasID(Of(a, i, v4), c.id)
           others == {j \in NetIf : HasID(Of(a, j, v4), c.id)}
           k == CHOOSE j \in others : TRUE
           b == IF here THEN ServiceFree(a, i, GetID(Of(a, i, v4), c.id))
                ELSE IF others # {} THEN ServiceFree(a, k, GetID(Of(a, k, v4), c.id)) ELSE a
           s == NewService(c.id, c.method, c.want, FALSE, NoID)
<1>1. r = a \/ r = IFState_service_add(b, i, s)
  BY Zenon DEF S_set_service, IFStateGetServiceWithID, IFStateFreeServiceWithID
<1>2. /\ s \in Service /\ s.id = c.id /\ s.method = c.method /\ s.parent = NoID /\ s.addr = NoAddr
      /\ s.child = FALSE
  BY Identifiers DEF IsEntry, NewService, Service, Status
<1> HIDE DEF s
<1>3. v4 => ((\E t \in El(a, i) : t.id = c.id) => here)
  BY Has DEF Of, El
<1>4. J(b, X) /\ (v4 => \A t \in El(b, i) : t.id # c.id)
  <2> HIDE DEF v4
  <2>0. v4 \in BOOLEAN
    BY DEF v4, IsV4
  <2>1. CASE here
    <3>1. b = ServiceFree(a, i, GetID(Of(a, i, v4), c.id))
      BY <2>1
    <3>2. J(b, X) /\ Freed(a, b, i, IF v4 THEN {c.id} ELSE {})
      <4> HIDE DEF b
      <4> QED BY <2>0, <2>1, <3>1, FreeFound
    <3> HIDE DEF b
    <3> QED BY <3>2 DEF Freed
  <2>2. CASE ~here /\ others # {}
    <3>1. b = ServiceFree(a, k, GetID(Of(a, k, v4), c.id)) /\ k \in NetIf /\ HasID(Of(a, k, v4), c.id)
      <4>1. k \in others
        BY <2>2
      <4> QED BY <2>2, <4>1
    <3> HIDE DEF b, k
    <3>2. J(b, X) /\ Freed(a, b, k, IF v4 THEN {c.id} ELSE {})
      BY <2>0, <3>1, FreeFound
    <3>3. k # i
      BY <2>2, <3>1
    <3> QED BY <1>3, <2>2, <3>2, <3>3 DEF Freed
  <2>3. CASE ~here /\ others = {}
    <3>1. b = a
      BY <2>3
    <3> HIDE DEF b
    <3> QED BY <1>3, <2>3, <3>1
  <2> QED BY <2>1, <2>2, <2>3
<1> HIDE DEF b
<1>5. J(IFState_service_add(b, i, s), X)
  <2>1. v4 => Kin(i, s) /\ Parented(b, i, s)
    BY <1>2 DEF Kin, Parented, IsEntry
  <2> QED BY <1>2, <1>4, <2>1, AddFacts
<1> QED BY <1>1, <1>5
LEMMA InactiveFacts ==
    ASSUME NEW a, NEW X, J(a, X), NEW i \in NetIf, NEW scl, NEW v4, NEW r,
           r = ServiceConfigListFreeInactiveServices(a, i, scl, v4)
    PROVE  J(r, X)
<1> DEFINE K == {s \in ToSet(Of(a, i, v4)) : ~s.dynamic /\ s.parent = NoID /\ ~HasID(scl, s.id)}
<1>1. r = FreeAll(a, i, Only(Of(a, i, v4), K))
  BY DEF ServiceConfigListFreeInactiveServices
<1> HIDE DEF K
<1> QED BY <1>1, OfFacts, FreeOnly

LEMMA RequestedFacts ==
    ASSUME NEW a, NEW X, J(a, X), NEW i \in NetIf, NEW want \in BOOLEAN, NEW r,
           r = IFStateSetDisableUntilNeededRequested(a, i, want)
    PROVE  J(r, X)
<1> DEFINE b == [a EXCEPT !.if[i].requested = want]
<1>1. r = a \/ r = Attention(b, {"disable"})
  BY Zenon DEF IFStateSetDisableUntilNeededRequested, setDisableUntilNeededNeedsAttention
<1>2. b \in Agent /\ Rest(a, b) /\ b.kernel = a.kernel
  BY DEF J, Agent, Interface, Rest
<1>3. \A j \in NetIf : b.if[j].v4 = a.if[j].v4 /\ b.if[j].v6 = a.if[j].v6
  BY DEF J, Agent, Interface
<1> HIDE DEF b
<1>4. J(b, X)
  BY <1>2, <1>3, SameV, SameServices
<1> QED BY <1>1, <1>4, Attended

\* interface_configuration_changed
LEMMA InterfaceChangedFacts ==
    ASSUME NEW a, NEW X, J(a, X), NEW i \in NetIf, NEW n \in DOMAIN Setups, NEW v4,
           NEW r, r = interface_configuration_changed(a, i, Setups[n], v4)
    PROVE  J(r, X)
<1> DEFINE scl == ServiceConfigListInit(a, i, Setups[n].conf[i], v4)
           want == i \in Setups[n].need
           a0 == IFStateSetDisableUntilNeededRequested(ServiceConfigListFreeInactiveServices(a, i, scl, v4), i, want)
<1> DEFINE N == Len(scl)
           S == {b \in Agent : J(b, X)}
           Turn(m, b) == S_set_service(b, i, scl[m])
           G == [m \in 1..N |-> [b \in S |-> Turn(m, b)]]
           Runs(fn) == fn = [m \in 0..N |-> IF m = 0 THEN a0 ELSE Turn(m, fn[m - 1])]
           g == CHOOSE fn : Runs(fn)
<1>0. scl \in Seq(ToSet(Setups[n].conf[i])) /\ \A c \in ToSet(Setups[n].conf[i]) : IsEntry(c)
  BY SetupEntries, ListInitFacts
<1> HIDE DEF scl
<1>1. N \in Nat /\ \A m \in 1..N : IsEntry(scl[m])
  BY <1>0, LenProperties, ElementOfSeq
<1>2. a0 \in S
  <2>1. J(ServiceConfigListFreeInactiveServices(a, i, scl, v4), X)
    BY InactiveFacts
  <2>2. J(a0, X)
    <3>1. want \in BOOLEAN
      OBVIOUS
    <3> HIDE DEF want
    <3> QED BY <2>1, <3>1, RequestedFacts
  <2> QED BY <2>2 DEF J
<1> HIDE DEF a0
<1>3. \A m \in 1..N : \A b \in S : Turn(m, b) \in S
  <2> SUFFICES ASSUME NEW m \in 1..N, NEW b \in S PROVE Turn(m, b) \in S
    OBVIOUS
  <2>1. J(Turn(m, b), X)
    BY <1>1, SetServiceFacts
  <2> QED BY <2>1 DEF J
<1>4. CASE scl = <<>>
  <2>1. r = IFStateFreeIPv4Services(a, i, FALSE) \/ r = IFStateFreeIPv6Services(a, i, FALSE)
    BY <1>4, Zenon DEF interface_configuration_changed, scl
  <2> QED BY <2>1, NonDynamicFacts
<1>7. scl # <<>> => r = g[N]
  BY Zenon DEF interface_configuration_changed, scl, a0, want
<1> HIDE DEF Turn, S, N
<1>5. \E fn : Runs(fn)
  <2>1. \A m \in 1..N : \A b \in S : G[m][b] = Turn(m, b)
    OBVIOUS
  <2>2. PICK fn : Loop(G, a0, fn, N) /\ \A m \in 0..N : fn[m] \in S
    BY <1>1, <1>2, <1>3, <2>1, LoopStays
  <2>3. \A m \in 0..N : m = 0 \/ (m \in 1..N /\ m - 1 \in 0..N)
    BY <1>1
  <2>4. fn = [m \in 0..N |-> IF m = 0 THEN a0 ELSE Turn(m, fn[m - 1])]
    BY <2>1, <2>2, <2>3 DEF Loop
  <2> QED BY <2>4
<1>6. g[N] \in S
  <2>1. g = [m \in 0..N |-> IF m = 0 THEN a0 ELSE Turn(m, g[m - 1])]
    BY <1>5
  <2> HIDE DEF g, Runs
  <2>2. g[0] = a0 /\ \A m \in 1..N : g[m] = Turn(m, g[m - 1])
    BY <1>1, <2>1
  <2> QED BY <1>1, <1>2, <1>3, <2>2, Stays
<1> QED BY <1>4, <1>6, <1>7 DEF S

LEMMA BothFacts ==
    ASSUME NEW a, NEW X, J(a, X), NEW i \in NetIf, NEW n \in DOMAIN Setups, NEW r, r = BothChanged(a, i, Setups[n])
    PROVE  J(r, X)
<1> DEFINE b == interface_configuration_changed(a, i, Setups[n], TRUE)
<1>1. J(b, X)
  BY InterfaceChangedFacts
<1>2. r = interface_configuration_changed(b, i, Setups[n], FALSE)
  BY DEF BothChanged
<1> HIDE DEF b
<1> QED BY <1>1, <1>2, InterfaceChangedFacts

LEMMA InterfacesFacts ==
    Len(Interfaces) \in Nat /\ \A m \in 1..Len(Interfaces) : Interfaces[m] \in NetIf
  BY ServiceAssumption, LenProperties, ElementOfSeq

\* handle_configuration_changed
LEMMA ConfigurationFacts ==
    ASSUME NEW a, NEW X, J(a, X), NEW n \in DOMAIN Setups, NEW r, r = handle_configuration_changed(a, Setups[n])
    PROVE  J(r, X)
<1> DEFINE N == Len(Interfaces)
           S == {b \in Agent : J(b, X)}
           Turn(m, b) == IF Interfaces[m] \in a.list THEN BothChanged(b, Interfaces[m], Setups[n]) ELSE b
           G == [m \in 1..N |-> [b \in S |-> Turn(m, b)]]
           Runs(fn) == fn = [m \in 0..N |-> IF m = 0 THEN a ELSE Turn(m, fn[m - 1])]
           g == CHOOSE fn : Runs(fn)
<1>1. N \in Nat /\ \A m \in 1..N : Interfaces[m] \in NetIf
  BY InterfacesFacts
<1>2. a \in S
  BY DEF J
<1>3. \A m \in 1..N : \A b \in S : Turn(m, b) \in S
  <2> SUFFICES ASSUME NEW m \in 1..N, NEW b \in S PROVE Turn(m, b) \in S
    OBVIOUS
  <2>1. J(BothChanged(b, Interfaces[m], Setups[n]), X)
    BY <1>1, BothFacts
  <2> QED BY <2>1 DEF J
<1>4. r = g[N]
  BY DEF handle_configuration_changed
<1> HIDE DEF Turn, S, N
<1>5. \E fn : Runs(fn)
  <2>1. \A m \in 1..N : \A b \in S : G[m][b] = Turn(m, b)
    OBVIOUS
  <2>2. PICK fn : Loop(G, a, fn, N) /\ \A m \in 0..N : fn[m] \in S
    BY <1>1, <1>2, <1>3, <2>1, LoopStays
  <2>3. \A m \in 0..N : m = 0 \/ (m \in 1..N /\ m - 1 \in 0..N)
    BY <1>1
  <2>4. fn = [m \in 0..N |-> IF m = 0 THEN a ELSE Turn(m, fn[m - 1])]
    BY <2>1, <2>2, <2>3 DEF Loop
  <2> QED BY <2>4
<1>6. g[N] \in S
  <2>1. g = [m \in 0..N |-> IF m = 0 THEN a ELSE Turn(m, g[m - 1])]
    BY <1>5
  <2> HIDE DEF g, Runs
  <2>2. g[0] = a /\ \A m \in 1..N : g[m] = Turn(m, g[m - 1])
    BY <1>1, <2>1
  <2> QED BY <1>1, <1>2, <1>3, <2>2, Stays
<1> QED BY <1>4, <1>6 DEF S

-----------------------------------------------------------------------------
(* The election.                                                           *)

LEMMA BestFacts ==
    ASSUME NEW list \in Seq(Service), NEW order, NEW r, r = BestParent(list, order)
    PROVE  r = <<>> \/ \E s \in ToSet(list) : s.method # "linklocal" /\ r = <<s>>
<1> DEFINE Replaces(s, best) ==
              \/ best = <<>>
              \/ ServiceGetRank(s.id, order) < ServiceGetRank(best[1].id, order)
              \/ best[1].addr = NoAddr /\ s.addr # NoAddr
<1> DEFINE N == Len(list)
           S == {<<>>} \cup {<<s>> : s \in {t \in ToSet(list) : t.method # "linklocal"}}
           Turn(m, b) == IF ReadyToParent(list[m]) /\ Replaces(list[m], b) THEN <<list[m]>> ELSE b
           G == [m \in 1..N |-> [b \in S |-> Turn(m, b)]]
           Runs(fn) == fn = [m \in 0..N |-> IF m = 0 THEN <<>> ELSE Turn(m, fn[m - 1])]
           g == CHOOSE fn : Runs(fn)
<1>1. N \in Nat /\ \A m \in 1..N : list[m] \in ToSet(list)
  BY LenProperties DEF ToSet
<1>2. <<>> \in S
  OBVIOUS
<1>3. \A m \in 1..N : \A b \in S : Turn(m, b) \in S
  <2> SUFFICES ASSUME NEW m \in 1..N, NEW b \in S PROVE Turn(m, b) \in S
    OBVIOUS
  <2>1. Turn(m, b) = b \/ (ReadyToParent(list[m]) /\ Turn(m, b) = <<list[m]>>)
    OBVIOUS
  <2> HIDE DEF Replaces, Turn
  <2>2. ReadyToParent(list[m]) => list[m].method # "linklocal"
    BY DEF ReadyToParent
  <2> QED BY <1>1, <2>1, <2>2
<1>4. r = g[N]
  BY DEF BestParent
<1> HIDE DEF Turn, S, N
<1>5. \E fn : Runs(fn)
  <2>1. \A m \in 1..N : \A b \in S : G[m][b] = Turn(m, b)
    OBVIOUS
  <2>2. PICK fn : Loop(G, <<>>, fn, N) /\ \A m \in 0..N : fn[m] \in S
    BY <1>1, <1>2, <1>3, <2>1, LoopStays
  <2>3. \A m \in 0..N : m = 0 \/ (m \in 1..N /\ m - 1 \in 0..N)
    BY <1>1
  <2>4. fn = [m \in 0..N |-> IF m = 0 THEN <<>> ELSE Turn(m, fn[m - 1])]
    BY <2>1, <2>2, <2>3 DEF Loop
  <2> QED BY <2>4
<1>6. g[N] \in S
  <2>1. g = [m \in 0..N |-> IF m = 0 THEN <<>> ELSE Turn(m, g[m - 1])]
    BY <1>5
  <2> HIDE DEF g, Runs
  <2>2. g[0] = <<>> /\ \A m \in 1..N : g[m] = Turn(m, g[m - 1])
    BY <1>1, <2>1
  <2>3. g[0] \in S
    BY <1>2, <2>2
  <2>4. \A m \in 1..N : g[m - 1] \in S => g[m] \in S
    BY <1>3, <2>2
  <2> QED BY <1>1, <2>3, <2>4, Stays
<1>7. \A x \in S : x = <<>> \/ \E s \in ToSet(list) : s.method # "linklocal" /\ x = <<s>>
  BY DEF S
<1> HIDE DEF g
<1> QED BY <1>4, <1>6, <1>7

\* The parent lets go of its link-local child, which then goes.
LEMMA ChildGoes ==
    ASSUME NEW a, NEW X, J(a, X), NEW i \in NetIf, NEW l \in El(a, i), l.parent # NoID,
           \E p \in El(a, i) : p.id = l.parent,
           NEW b, b = ServiceFree(Set(a, i, [The(a, i, l.parent) EXCEPT !.child = FALSE]), i, l)
    PROVE  /\ J(b, X)
           /\ \A t \in El(a, i) : t.id # l.id => \E u \in El(b, i) : u.id = t.id /\ u.method = t.method
<1> DEFINE p == The(a, i, l.parent)
           q == [p EXCEPT !.child = FALSE]
           c == Set(a, i, q)
<1>1. p \in El(a, i) /\ p.id = l.parent /\ p \in Service /\ Kin(i, p) /\ Kin(i, l) /\ l \in Service
  BY FoundV4, Lookup
<1>2. l.id # p.id
  BY <1>1, DepFacts
<1>3. b = ServiceFree(c, i, l)
  OBVIOUS
<1> HIDE DEF p
<1>4. q \in Service /\ Like(p, q) /\ q.child = FALSE
  BY <1>1 DEF Service, Like
<1> HIDE DEF q
<1>5. J(c, X) /\ Swapped(a, c, i, p, q)
  BY <1>1, <1>4, Touch
<1> HIDE DEF c
<1>6. l \in El(c, i)
  BY <1>2, <1>5 DEF Swapped
<1>7. J(b, X) /\ Freed(c, b, i, Gone(l))
  BY <1>1, <1>3, <1>5, <1>6, Lookup, FreeFacts
<1>8. \A t \in El(a, i) : t.id # l.id => \E u \in El(b, i) : u.id = t.id /\ u.method = t.method
  <2> SUFFICES ASSUME NEW t \in El(a, i), t.id # l.id PROVE \E u \in El(b, i) : u.id = t.id /\ u.method = t.method
    OBVIOUS
  <2>1. PICK v \in El(c, i) : v.id = t.id /\ v.method = t.method
    BY <1>4, <1>5 DEF Swapped, Like
  <2>2. v.id \notin Gone(l)
    BY <2>1 DEF Gone
  <2>3. PICK u \in El(b, i) : Like(u, v)
    BY <1>7, <2>2 DEF Freed
  <2> QED BY <2>1, <2>3 DEF Like
<1> QED BY <1>7, <1>8

LEMMA FirstLinkLocal ==
    ASSUME NEW a, NEW X, J(a, X), NEW i \in NetIf, LinkLocalServices(a, i) # <<>>
    PROVE  LinkLocalServices(a, i)[1] \in El(a, i) /\ LinkLocalServices(a, i)[1].method = "linklocal"
<1> DEFINE lls == LinkLocalServices(a, i)
<1>1. lls \in Seq(Service) /\ ToSet(lls) = {s \in El(a, i) : s.method = "linklocal"}
  BY LinkLocalElements DEF J
<1> HIDE DEF lls
<1>2. lls # <<>> => 1 \in DOMAIN lls
  BY <1>1
<1>3. lls # <<>> => lls[1] \in ToSet(lls)
  BY <1>2 DEF ToSet
<1> QED BY <1>1, <1>3 DEF lls

\* linklocal_start
LEMMA StartFacts ==
    ASSUME NEW a, NEW X, J(a, X), NEW i \in NetIf, NEW parent, parent.id \in ServiceIDs,
           \E p \in El(a, i) : p.id = parent.id /\ p.method # "linklocal",
           NEW r, r = linklocal_start(a, i, parent)
    PROVE  J(r, X)
<1> DEFINE quiet == parent.addr # NoAddr /\ i \in Wireless
           s == [NewService(LLID(i), "linklocal", NoAddr, FALSE, parent.id)
                   EXCEPT !.allocate = parent.addr = NoAddr, !.ready = quiet, !.wait = IF quiet THEN "none" ELSE @]
<1>1. r = IFState_service_add(a, i, s)
  BY DEF linklocal_start
<1>2. /\ s \in Service /\ s.id = LLID(i) /\ s.method = "linklocal" /\ s.parent = parent.id /\ s.addr = NoAddr
      /\ s.child = FALSE
  BY Identifiers DEF NewService, Service, Status, Methods
<1> HIDE DEF s
<1>3. IsV4(s.method) /\ Kin(i, s) /\ Parented(a, i, s)
  BY <1>2, Identifiers DEF Kin, Parented, IsV4
<1>4. \A t \in El(a, i) : t.id = s.id => t.method = "linklocal" /\ s.method = "linklocal"
  BY <1>2, Identifiers, Lookup DEF Kin
<1> QED BY <1>1, <1>2, <1>3, <1>4, AddFacts

LEMMA ElectParentFacts ==
    ASSUME NEW a, NEW X, J(a, X), NEW i \in NetIf, NEW best,
           best = <<>> \/ \E s \in El(a, i) : s.method # "linklocal" /\ best = <<s>>,
           ~Orphaned(a, i), NEW r, r = ElectParent(a, i, best)
    PROVE  J(r, X)
<1> DEFINE lls == LinkLocalServices(a, i)
           l == lls[1]
           parent == IF lls = <<>> THEN NoID ELSE l.parent
           b == IF parent = NoID THEN a
                ELSE ServiceFree(Set(a, i, [The(a, i, parent) EXCEPT !.child = FALSE]), i, l)
<1>1. \/ r = a
      \/ best = <<>> /\ r = b
      \/ best # <<>> /\ r = linklocal_start(b, i, best[1])
  BY Zenon DEF ElectParent
<1>2. lls # <<>> => l \in El(a, i) /\ l.method = "linklocal"
  BY FirstLinkLocal
<1>5. parent # NoID => IFStateGetServiceWithID(a, i, parent, TRUE)
  BY DEF Orphaned
<1> HIDE DEF lls, l
<1>3. J(b, X) /\ \A t \in El(a, i) : t.method # "linklocal" => \E u \in El(b, i) : u.id = t.id /\ u.method = t.method
  <2>1. CASE parent = NoID
    <3>1. b = a
      BY <2>1
    <3> HIDE DEF b
    <3> QED BY <3>1
  <2>2. CASE parent # NoID
    <3>1. l \in El(a, i) /\ l.method = "linklocal" /\ l.parent # NoID /\ parent = l.parent
      BY <1>2, <2>2
    <3> HIDE DEF parent
    <3>4. b = ServiceFree(Set(a, i, [The(a, i, l.parent) EXCEPT !.child = FALSE]), i, l)
      BY <2>2, <3>1
    <3>5. \E p \in El(a, i) : p.id = l.parent
      BY <1>5, <3>1, FoundV4
    <3> HIDE DEF b
    <3> HIDE DEF b, parent
    <3>2. /\ J(b, X)
          /\ \A t \in El(a, i) : t.id # l.id => \E u \in El(b, i) : u.id = t.id /\ u.method = t.method
      BY <3>1, <3>4, <3>5, ChildGoes
    <3>3. \A t \in El(a, i) : t.method # "linklocal" => t.id # l.id
      BY <3>1 DEF J, Shape, Unique
    <3> QED BY <3>2, <3>3
  <2> QED BY <2>1, <2>2
<1> HIDE DEF b, parent
<1>4. CASE best # <<>> /\ r = linklocal_start(b, i, best[1])
  <2>1. PICK s \in El(a, i) : s.method # "linklocal" /\ best = <<s>>
    BY <1>4
  <2>2. r = linklocal_start(b, i, s)
    BY <1>4, <2>1
  <2>3. s.id \in ServiceIDs
    BY <2>1, Lookup DEF Kin
  <2>4. \E p \in El(b, i) : p.id = s.id /\ p.method # "linklocal"
    BY <1>3, <2>1
  <2> QED BY <1>3, <2>2, <2>3, <2>4, StartFacts
<1> QED BY <1>1, <1>3, <1>4

\* Elect: the child of a service that is gone goes first.
LEMMA ElectFacts ==
    ASSUME NEW a, NEW X, J(a, X), NEW i \in NetIf, NEW order, NEW r, r = Elect(a, i, order)
    PROVE  J(r, X)
<1> DEFINE lls == LinkLocalServices(a, i)
           l == lls[1]
           b == IF Orphaned(a, i) THEN ServiceFree(a, i, l) ELSE a
           best == BestParent(b.if[i].v4, order)
<1>1. r = ElectParent(b, i, best)
  BY DEF Elect, ElectIn
<1>3. lls # <<>> => l \in El(a, i) /\ l.method = "linklocal"
  BY FirstLinkLocal
<1>4. J(b, X) /\ ~Orphaned(b, i)
  <2>1. CASE Orphaned(a, i)
    <3>1. lls # <<>> /\ l.parent # NoID
      BY <2>1 DEF Orphaned
    <3>2. b = ServiceFree(a, i, l)
      BY <2>1
    <3> HIDE DEF lls, l, b
    <3>3. l \in El(a, i) /\ l \in Service /\ Fits(a, i, l) /\ Kin(i, l)
      BY <1>3, <3>1, Lookup
    <3>4. J(b, X) /\ Freed(a, b, i, Gone(l))
      BY <3>2, <3>3, FreeFacts
    <3>5. l.id \in Gone(l) /\ l.id = LLID(i)
      BY <3>1, <3>3, DepFacts DEF Gone, Kin
    <3>6. \A t \in El(b, i) : t.parent = NoID
      <4> TAKE t \in El(b, i)
      <4>1. Kin(i, t)
        BY <3>4, Lookup
      <4>2. t.id # l.id
        BY <3>4, <3>5 DEF Freed
      <4> QED BY <3>5, <4>1, <4>2, DepFacts
    <3>7. LinkLocalServices(b, i) # <<>> => LinkLocalServices(b, i)[1] \in El(b, i)
      BY <3>4, FirstLinkLocal
    <3>8. ~Orphaned(b, i)
      BY <3>6, <3>7 DEF Orphaned
    <3> QED BY <3>4, <3>8
  <2>2. CASE ~Orphaned(a, i)
    BY <2>2
  <2> QED BY <2>1, <2>2
<1>5. b.if[i].v4 \in Seq(Service) /\ ToSet(b.if[i].v4) = El(b, i)
  BY <1>4, Elements DEF J, El
<1> HIDE DEF b
<1>6. best = <<>> \/ \E s \in El(b, i) : s.method # "linklocal" /\ best = <<s>>
  BY <1>5, BestFacts
<1> HIDE DEF best
<1> QED BY <1>1, <1>4, <1>6, ElectParentFacts

\* linklocal_elect
LEMMA ElectionFacts ==
    ASSUME NEW a, NEW X, J(a, X), NEW order, NEW r, r = linklocal_elect(a, order)
    PROVE  J(r, X)
<1> DEFINE N == Len(Interfaces)
           S == {b \in Agent : J(b, X)}
           Turn(m, b) == Elect(b, Interfaces[m], order)
           G == [m \in 1..N |-> [b \in S |-> Turn(m, b)]]
           Runs(fn) == fn = [m \in 0..N |-> IF m = 0 THEN a ELSE Turn(m, fn[m - 1])]
           g == CHOOSE fn : Runs(fn)
<1>1. N \in Nat /\ \A m \in 1..N : Interfaces[m] \in NetIf
  BY InterfacesFacts
<1>2. a \in S
  BY DEF J
<1>3. \A m \in 1..N : \A b \in S : Turn(m, b) \in S
  <2> SUFFICES ASSUME NEW m \in 1..N, NEW b \in S PROVE Turn(m, b) \in S
    OBVIOUS
  <2>1. J(Elect(b, Interfaces[m], order), X)
    BY <1>1, ElectFacts
  <2> QED BY <2>1 DEF J
<1>4. r = g[N]
  BY DEF linklocal_elect
<1> HIDE DEF Turn, S, N
<1>5. \E fn : Runs(fn)
  <2>1. \A m \in 1..N : \A b \in S : G[m][b] = Turn(m, b)
    OBVIOUS
  <2>2. PICK fn : Loop(G, a, fn, N) /\ \A m \in 0..N : fn[m] \in S
    BY <1>1, <1>2, <1>3, <2>1, LoopStays
  <2>3. \A m \in 0..N : m = 0 \/ (m \in 1..N /\ m - 1 \in 0..N)
    BY <1>1
  <2>4. fn = [m \in 0..N |-> IF m = 0 THEN a ELSE Turn(m, fn[m - 1])]
    BY <2>1, <2>2, <2>3 DEF Loop
  <2> QED BY <2>4
<1>6. g[N] \in S
  <2>1. g = [m \in 0..N |-> IF m = 0 THEN a ELSE Turn(m, g[m - 1])]
    BY <1>5
  <2> HIDE DEF g, Runs
  <2>2. g[0] = a /\ \A m \in 1..N : g[m] = Turn(m, g[m - 1])
    BY <1>1, <2>1
  <2>3. g[0] \in S /\ \A m \in 1..N : g[m - 1] \in S => g[m] \in S
    BY <1>2, <1>3, <2>2
  <2> QED BY <1>1, <2>3, Stays
<1> QED BY <1>4, <1>6 DEF S

-----------------------------------------------------------------------------
(* Disabling and notification.                                             *)

\* DisableUntilNeededProcess
LEMMA DisableFacts ==
    ASSUME NEW a, NEW X, J(a, X), NEW order, NEW r, r = DisableUntilNeededProcess(a, order)
    PROVE  J(r, X)
<1> DEFINE down(i) == a.if[i].requested /\ Unneeded(a, order, i)
           k(i) == [a.if[i] EXCEPT !.disabled = down(i)]
<1>1. r = [a EXCEPT !.if = [i \in NetIf |-> k(i)]]
  BY DEF DisableUntilNeededProcess
<1>2. \A i \in NetIf : down(i) \in BOOLEAN
  BY DEF J, Agent, Interface
<1>3. \A i \in NetIf : k(i) \in Interface /\ k(i).v4 = a.if[i].v4 /\ k(i).v6 = a.if[i].v6
  <2> TAKE i \in NetIf
  <2>1. a.if[i] \in Interface /\ down(i) \in BOOLEAN
    BY <1>2, Elements DEF J
  <2> HIDE DEF down
  <2> QED BY <2>1 DEF Interface
<1> HIDE DEF k
<1>4. r \in Agent /\ Rest(a, r) /\ r.kernel = a.kernel /\ \A i \in NetIf : r.if[i] = k(i)
  BY <1>1, <1>3 DEF J, Agent, Rest
<1>5. Lists(a, r)
  BY <1>3, <1>4, SameV
<1> QED BY <1>4, <1>5, SameServices

\* Identifiers of IPv6 services stay.
Keeps6(a, b, i) == \A s \in El6(a, i) : \E t \in El6(b, i) : t.id = s.id

\* ServicePublishSuccessIPv6
LEMMA Publish6Facts ==
    ASSUME NEW a, NEW X, J(a, X), NEW i \in NetIf, NEW id, \E s \in El6(a, i) : s.id = id,
           NEW r, r = ServicePublishSuccessIPv6(a, i, id)
    PROVE  J(r, X) /\ Keeps6(a, r, i)
<1> DEFINE s == GetID(a.if[i].v6, id)
           t == [s EXCEPT !.ready = TRUE, !.status = "success"]
           b == Set(a, i, t)
           l == IF service_interface_ipv4_published(a, i) THEN b.last \ {id} ELSE b.last \cup {id}
           c == [b EXCEPT !.last = l]
<1>1. r = Attention(c, {"disable"})
  BY DEF ServicePublishSuccessIPv6, setDisableUntilNeededNeedsAttention
<1>2. s \in El6(a, i) /\ s.id = id /\ s \in Service
  <2>1. HasID(a.if[i].v6, id)
    BY Has DEF El6
  <2> QED BY <2>1, Found, Elements DEF J, El6
<1>3. ~IsV4(s.method) /\ id \in IDs
  BY <1>2, Fields DEF J, Shape
<1> HIDE DEF s
<1>4. t \in Service /\ t.method = s.method /\ t.id = id
  BY <1>2 DEF Service, Status
<1> HIDE DEF t
<1>5. /\ b \in Agent /\ Rest(a, b) /\ b.kernel = a.kernel
      /\ El6(b, i) = {IF u.id = t.id THEN t ELSE u : u \in El6(a, i)}
      /\ \A j \in NetIf \ {i} : El6(b, j) = El6(a, j)
      /\ \A j \in NetIf : El(b, j) = El(a, j)
  BY <1>3, <1>4, Set6Facts DEF J
<1>6. \A j \in NetIf : \A u \in El6(b, j) : ~IsV4(u.method)
  <2>1. \A u \in El6(b, i) : u = t \/ u \in El6(a, i)
    BY <1>5
  <2> QED BY <1>3, <1>4, <1>5, <2>1 DEF J, Shape
<1>7. J(b, X) /\ Keeps6(a, b, i)
  <2>1. J(b, X)
    BY <1>5, <1>6, Other6
  <2> QED BY <1>5, <2>1 DEF Keeps6
<1> HIDE DEF b
<1>8. J(c, X) /\ Lists(b, c)
  <2>1. l \in SUBSET IDs
    BY <1>3, <1>5 DEF Agent
  <2> HIDE DEF l
  <2>2. c \in Agent /\ Rest(b, c) /\ c.kernel = b.kernel /\ c.if = b.if
    BY <1>5, <2>1 DEF Agent, Rest
  <2> HIDE DEF c
  <2>3. Lists(b, c)
    BY <2>2, SameIf
  <2> QED BY <1>7, <2>2, <2>3, SameServices
<1> HIDE DEF c
<1>9. J(r, X) /\ Lists(c, r)
  BY <1>1, <1>8, Attended
<1> QED BY <1>7, <1>8, <1>9 DEF Lists, Keeps6

LEMMA PublishAgainFacts ==
    ASSUME NEW a, NEW X, J(a, X), NEW i \in NetIf, NEW r, r = PublishAgain(a, i)
    PROVE  J(r, X)
<1> DEFINE list == a.if[i].v6
<1> DEFINE N == Len(list)
           S == {b \in Agent : J(b, X) /\ Keeps6(a, b, i)}
           Turn(m, b) == IF ServiceIsPublished(list[m]) THEN ServicePublishSuccessIPv6(b, i, list[m].id) ELSE b
           G == [m \in 1..N |-> [b \in S |-> Turn(m, b)]]
           Runs(fn) == fn = [m \in 0..N |-> IF m = 0 THEN a ELSE Turn(m, fn[m - 1])]
           g == CHOOSE fn : Runs(fn)
<1>1. N \in Nat /\ \A m \in 1..N : list[m] \in El6(a, i)
  BY Elements, LenProperties DEF J, El6, ToSet
<1>2. a \in S
  BY DEF J, Keeps6
<1>3. \A m \in 1..N : \A b \in S : Turn(m, b) \in S
  <2> SUFFICES ASSUME NEW m \in 1..N, NEW b \in S PROVE Turn(m, b) \in S
    OBVIOUS
  <2> DEFINE id == list[m].id
             c == ServicePublishSuccessIPv6(b, i, id)
  <2>1. J(b, X) /\ Keeps6(a, b, i) /\ \E s \in El6(b, i) : s.id = id
    BY <1>1 DEF Keeps6
  <2>2. Turn(m, b) = b \/ Turn(m, b) = c
    OBVIOUS
  <2> HIDE DEF id
  <2>3. J(c, X) /\ Keeps6(b, c, i)
    BY <2>1, Publish6Facts
  <2> HIDE DEF c, Turn
  <2>4. Keeps6(a, c, i)
    BY <2>1, <2>3 DEF Keeps6
  <2> QED BY <2>2, <2>3, <2>4 DEF J
<1>4. r = g[N]
  BY DEF PublishAgain
<1> HIDE DEF Turn, S, N
<1>5. \E fn : Runs(fn)
  <2>1. \A m \in 1..N : \A b \in S : G[m][b] = Turn(m, b)
    OBVIOUS
  <2>2. PICK fn : Loop(G, a, fn, N) /\ \A m \in 0..N : fn[m] \in S
    BY <1>1, <1>2, <1>3, <2>1, LoopStays
  <2>3. \A m \in 0..N : m = 0 \/ (m \in 1..N /\ m - 1 \in 0..N)
    BY <1>1
  <2>4. fn = [m \in 0..N |-> IF m = 0 THEN a ELSE Turn(m, fn[m - 1])]
    BY <2>1, <2>2, <2>3 DEF Loop
  <2> QED BY <2>4
<1>6. g[N] \in S
  <2>1. g = [m \in 0..N |-> IF m = 0 THEN a ELSE Turn(m, g[m - 1])]
    BY <1>5
  <2> HIDE DEF g, Runs
  <2>2. g[0] = a /\ \A m \in 1..N : g[m] = Turn(m, g[m - 1])
    BY <1>1, <2>1
  <2>3. g[0] \in S /\ \A m \in 1..N : g[m - 1] \in S => g[m] \in S
    BY <1>2, <1>3, <2>2
  <2> QED BY <1>1, <2>3, Stays
<1> QED BY <1>4, <1>6 DEF S

LEMMA NotifyFacts ==
    ASSUME NEW a, NEW X, J(a, X), NEW r, r = IPv4ServicePublishProcess(a)
    PROVE  J(r, X)
<1> DEFINE N == Len(Interfaces)
           S == {b \in Agent : J(b, X)}
           Turn(m, b) == PublishAgain(b, Interfaces[m])
           G == [m \in 1..N |-> [b \in S |-> Turn(m, b)]]
           Runs(fn) == fn = [m \in 0..N |-> IF m = 0 THEN a ELSE Turn(m, fn[m - 1])]
           g == CHOOSE fn : Runs(fn)
<1>1. N \in Nat /\ \A m \in 1..N : Interfaces[m] \in NetIf
  BY InterfacesFacts
<1>2. a \in S
  BY DEF J
<1>3. \A m \in 1..N : \A b \in S : Turn(m, b) \in S
  <2> SUFFICES ASSUME NEW m \in 1..N, NEW b \in S PROVE Turn(m, b) \in S
    OBVIOUS
  <2>1. J(PublishAgain(b, Interfaces[m]), X)
    BY <1>1, PublishAgainFacts
  <2> QED BY <2>1 DEF J
<1>4. r = g[N]
  BY DEF IPv4ServicePublishProcess
<1> HIDE DEF Turn, S, N
<1>5. \E fn : Runs(fn)
  <2>1. \A m \in 1..N : \A b \in S : G[m][b] = Turn(m, b)
    OBVIOUS
  <2>2. PICK fn : Loop(G, a, fn, N) /\ \A m \in 0..N : fn[m] \in S
    BY <1>1, <1>2, <1>3, <2>1, LoopStays
  <2>3. \A m \in 0..N : m = 0 \/ (m \in 1..N /\ m - 1 \in 0..N)
    BY <1>1
  <2>4. fn = [m \in 0..N |-> IF m = 0 THEN a ELSE Turn(m, fn[m - 1])]
    BY <2>1, <2>2, <2>3 DEF Loop
  <2> QED BY <2>4
<1>6. g[N] \in S
  <2>1. g = [m \in 0..N |-> IF m = 0 THEN a ELSE Turn(m, g[m - 1])]
    BY <1>5
  <2> HIDE DEF g, Runs
  <2>2. g[0] = a /\ \A m \in 1..N : g[m] = Turn(m, g[m - 1])
    BY <1>1, <2>1
  <2>3. g[0] \in S /\ \A m \in 1..N : g[m - 1] \in S => g[m] \in S
    BY <1>2, <1>3, <2>2
  <2> QED BY <1>1, <2>3, Stays
<1> QED BY <1>4, <1>6 DEF S

\* The work that is due is taken off the list before it is done.
LEMMA TakenOff ==
    ASSUME NEW a, NEW X, J(a, X), NEW what, NEW b, b = [a EXCEPT !.attn = @ \ what]
    PROVE  J(b, X)
<1>1. b \in Agent /\ Rest(a, b) /\ b.kernel = a.kernel /\ b.if = a.if
  BY DEF J, Agent, Rest
<1> QED BY <1>1, SameIf, SameServices

\* perform_async_work_requiring_store
LEMMA WorkFacts ==
    ASSUME NEW a, NEW X, J(a, X), NEW order, NEW r, r = perform_async_work_requiring_store(a, order)
    PROVE  J(r, X)
<1> DEFINE none == [a EXCEPT !.attn = {}]
           b == IF "linklocal" \in a.attn THEN linklocal_elect(none, order) ELSE none
           b1 == [b EXCEPT !.attn = @ \ {"disable"}]
           c == IF "disable" \in a.attn THEN DisableUntilNeededProcess(b1, order) ELSE b
           c1 == [c EXCEPT !.attn = @ \ {"publish"}]
<1>1. r = c \/ r = IPv4ServicePublishProcess(c1)
  BY Zenon DEF perform_async_work_requiring_store
<1>2. J(none, X)
  <2>1. none = [a EXCEPT !.attn = @ \ a.attn]
    BY DEF J, Agent
  <2> HIDE DEF none
  <2> QED BY <2>1, TakenOff
<1> HIDE DEF none
<1>3. J(b, X)
  BY <1>2, ElectionFacts
<1> HIDE DEF b
<1>4. J(b1, X)
  BY <1>3, TakenOff
<1> HIDE DEF b1
<1>5. J(c, X)
  BY <1>3, <1>4, DisableFacts
<1> HIDE DEF c
<1>6. J(c1, X)
  BY <1>5, TakenOff
<1> HIDE DEF c1
<1> QED BY <1>1, <1>5, <1>6, NotifyFacts

-----------------------------------------------------------------------------
(* Methods.                                                                *)

LEMMA WaitFacts ==
    ASSUME NEW a, NEW X, J(a, X), NEW i \in NetIf, NEW s \in El(a, i), NEW what \in {"start", "none"},
           NEW b, b = Wait(a, i, s.id, what)
    PROVE  /\ J(b, X) /\ Swapped(a, b, i, s, [s EXCEPT !.wait = what])
           /\ [s EXCEPT !.wait = what] \in Service /\ Like(s, [s EXCEPT !.wait = what])
           /\ [s EXCEPT !.wait = what].child = s.child
<1> DEFINE t == [s EXCEPT !.wait = what]
<1>1. s \in Service /\ Kin(i, s)
  BY Lookup
<1>2. The(a, i, s.id) = s
  BY TheOne DEF J
<1>3. b = Set(a, i, t)
  BY <1>2 DEF Wait
<1>4. t \in Service /\ Like(s, t) /\ t.child = s.child
  BY <1>1, WaitField
<1> HIDE DEF t
<1>5. t.method = "linklocal" => ~t.child
  BY <1>1, <1>4 DEF Like, Kin
<1>6. J(b, X) /\ Swapped(a, b, i, s, t)
  BY <1>3, <1>4, <1>5, Touch
<1> QED BY <1>4, <1>6 DEF t

\* A method that loses its address: Inactive, Conflict and linklocal_failed.
LEMMA LosesFacts ==
    ASSUME NEW a, NEW X, J(a, X), NEW i \in NetIf, NEW s \in El(a, i), NEW what \in {"start", "none"},
           NEW st \in Status,
           NEW r, r = service_publish_failure_sync(
                          service_remove_address(Wait(a, i, s.id, what), i, s.id), i, s.id, st)
    PROVE  J(r, X) /\ Keeps(a, r)
<1> DEFINE b == Wait(a, i, s.id, what)
           t == [s EXCEPT !.wait = what]
           c == service_remove_address(b, i, s.id)
           u == [t EXCEPT !.addr = NoAddr]
<1>1. r = service_publish_failure_sync(c, i, s.id, st)
  OBVIOUS
<1>2. J(b, X) /\ Swapped(a, b, i, s, t) /\ t \in Service /\ Like(s, t)
  BY WaitFacts
<1> HIDE DEF b, t
<1>3. t \in El(b, i) /\ t.id = s.id /\ Kin(i, t)
  BY <1>2, Lookup DEF Swapped, Like
<1>4. J(c, X \cup Dep(b, i, t)) /\ Swapped(b, c, i, t, u)
  BY <1>2, <1>3, RemoveFacts
<1>5. u.id = t.id /\ u.parent = t.parent /\ u.addr = NoAddr
  BY <1>2, Identifiers, AddrField
<1> HIDE DEF c, u
<1>6. Dep(c, i, u) = Dep(b, i, t)
  BY <1>2, <1>3, <1>4, <1>5, SameDep
<1>7. u \in El(c, i)
  BY <1>4 DEF Swapped
<1>8. J(r, X) /\ Keeps(c, r)
  BY <1>1, <1>3, <1>4, <1>5, <1>6, <1>7, FailureFacts
<1>9. Keeps(a, b) /\ Keeps(b, c)
  BY <1>2, <1>3, <1>4, <1>5, SwapKeeps
<1> QED BY <1>8, <1>9, KeepsTwice

\* Acquire
LEMMA AcquireFacts ==
    ASSUME NEW a, NEW X, J(a, X), NEW i \in NetIf, NEW s \in El(a, i), NEW addr \in Addr,
           NEW r, r = Acquire(a, i, s.id, addr)
    PROVE  J(r, X)
<1> DEFINE b == Wait(a, i, s.id, "none")
           t == [s EXCEPT !.wait = "none"]
           c == service_set_address(b, i, s.id, addr)
           u == [t EXCEPT !.addr = addr]
<1>1. r = ServicePublishSuccessIPv4(c, i, s.id)
  BY DEF Acquire
<1>2. J(b, X) /\ Swapped(a, b, i, s, t) /\ t \in Service /\ Like(s, t)
  BY WaitFacts
<1> HIDE DEF b, t
<1>3. t \in El(b, i) /\ t.id = s.id /\ Kin(i, t)
  BY <1>2, Lookup DEF Swapped, Like
<1>4. J(c, X \cup Dep(b, i, t)) /\ Swapped(b, c, i, t, u)
  BY <1>2, <1>3, SetAddressFacts
<1>5. u.id = t.id /\ u.parent = t.parent
  BY <1>2, AddrField
<1> HIDE DEF c, u
<1>6. Dep(c, i, u) = Dep(b, i, t)
  BY <1>2, <1>3, <1>4, <1>5, SameDep
<1>7. u \in El(c, i)
  BY <1>4 DEF Swapped
<1> QED BY <1>1, <1>3, <1>4, <1>5, <1>6, <1>7, PublishFacts

\* The link-local service is told to allocate an address, or not to.
LEMMA ChangedFacts ==
    ASSUME NEW a, NEW X, J(a, X), NEW i \in NetIf, NEW l \in El(a, i), NEW allocate \in BOOLEAN,
           NEW b, b = Set(a, i, [l EXCEPT !.allocate = allocate, !.wait = "start"])
    PROVE  /\ J(b, X) /\ \A s \in El(a, i) : \E t \in El(b, i) : Like(s, t)
           /\ Keeps(a, b)
<1> DEFINE t == [l EXCEPT !.allocate = allocate, !.wait = "start"]
<1>1. l \in Service /\ Kin(i, l)
  BY Lookup
<1>2. t \in Service /\ Like(l, t) /\ t.child = l.child
  BY <1>1, AllocateField
<1> HIDE DEF t
<1>3. J(b, X) /\ Swapped(a, b, i, l, t)
  BY <1>1, <1>2, Touch DEF t, Like, Kin
<1>4. \A s \in El(a, i) : \E u \in El(b, i) : Like(s, u)
  BY <1>2, <1>3 DEF Swapped, Like
<1>5. Keeps(a, b)
  BY <1>2, <1>3, SwapKeeps DEF Like
<1> QED BY <1>3, <1>4, <1>5

\* linklocal_service_change
LEMMA AskFacts ==
    ASSUME NEW a, NEW X, J(a, X), NEW i \in NetIf, NEW id, NEW r, r = linklocal_service_change(a, i, id, TRUE)
    PROVE  J(r, X) /\ \A s \in El(a, i) : \E t \in El(r, i) : Like(s, t)
<1> DEFINE lls == LinkLocalServices(a, i)
           l == lls[1]
           changed == Set(a, i, [l EXCEPT !.allocate = TRUE, !.wait = "start"])
<1>1. r = a \/ r = Attention(a, {"linklocal"}) \/ (lls # <<>> /\ r = changed)
  BY Zenon DEF linklocal_service_change, linklocal_set_needs_attention
<1>2. CASE r = a \/ r = Attention(a, {"linklocal"})
  <2>1. J(a, X) /\ Lists(a, a)
    BY DEF Lists
  <2>2. PICK b : b = Attention(a, {"linklocal"})
    OBVIOUS
  <2>3. J(b, X) /\ Lists(a, b)
    BY <2>2, Attended
  <2>4. J(r, X) /\ Lists(a, r)
    BY <1>2, <2>1, <2>2, <2>3, Zenon
  <2> QED BY <2>4 DEF Lists, Like
<1>3. CASE lls # <<>> /\ r = changed
  <2>1. l \in El(a, i)
    BY <1>3, FirstLinkLocal
  <2> DEFINE yes == TRUE
  <2>2. yes \in BOOLEAN /\ r = Set(a, i, [l EXCEPT !.allocate = yes, !.wait = "start"])
    BY <1>3
  <2> HIDE DEF lls, l, yes, changed
  <2> QED BY <2>1, <2>2, ChangedFacts
<1> QED BY <1>1, <1>2, <1>3

LEMMA LetGoFacts ==
    ASSUME NEW a, NEW X, J(a, X), NEW i \in NetIf, NEW id, NEW r, r = linklocal_service_change(a, i, id, FALSE)
    PROVE  J(r, X) /\ Keeps(a, r)
<1> DEFINE lls == LinkLocalServices(a, i)
           l == lls[1]
           no == FALSE
           b == Set(a, i, [l EXCEPT !.allocate = no, !.wait = "start"])
           c == linklocal_failed(b, i, "success")
<1>1. \/ r = a \/ r = Attention(a, {"linklocal"})
      \/ lls # <<>> /\ l.parent # NoID /\ r = Wait(c, i, LLID(i), "start")
  BY Zenon DEF linklocal_service_change, linklocal_set_needs_attention
<1>2. CASE r = a \/ r = Attention(a, {"linklocal"})
  <2>1. J(a, X) /\ Lists(a, a)
    BY DEF Lists
  <2>2. PICK v : v = Attention(a, {"linklocal"})
    OBVIOUS
  <2>3. J(v, X) /\ Lists(a, v)
    BY <2>2, Attended
  <2>4. J(r, X) /\ Lists(a, r)
    BY <1>2, <2>1, <2>2, <2>3, Zenon
  <2> QED BY <2>4, SameKeeps
<1>3. CASE lls # <<>> /\ l.parent # NoID /\ r = Wait(c, i, LLID(i), "start")
  <2>1. l \in El(a, i) /\ no \in BOOLEAN
    BY <1>3, FirstLinkLocal
  <2> HIDE DEF lls, l, no
  <2>2. J(b, X) /\ Keeps(a, b)
    BY <2>1, ChangedFacts
  <2> HIDE DEF b
  <2>3. l.id = LLID(i)
    BY <1>3, <2>1, Lookup, DepFacts
  <2>4. PICK s \in El(b, i) : s.id = LLID(i)
    BY <2>1, <2>2, <2>3 DEF Keeps
  <2>5. J(c, X) /\ Keeps(b, c)
    BY <2>2, <2>4, LosesFacts DEF linklocal_failed, Status
  <2> HIDE DEF c
  <2>6. PICK t \in El(c, i) : t.id = LLID(i)
    BY <2>4, <2>5 DEF Keeps
  <2> DEFINE what == "start"
             u == [t EXCEPT !.wait = what]
  <2>7. J(r, X) /\ Swapped(c, r, i, t, u) /\ Like(t, u)
    <3>1. what \in {"start", "none"} /\ r = Wait(c, i, t.id, what)
      BY <1>3, <2>6
    <3> HIDE DEF what
    <3> QED BY <2>5, <2>6, <3>1, WaitFacts
  <2> HIDE DEF u
  <2>8. Keeps(c, r)
    BY <2>7, SwapKeeps DEF Like
  <2> QED BY <2>2, <2>5, <2>7, <2>8, KeepsTwice
<1> QED BY <1>1, <1>2, <1>3

LEMMA BoundFacts ==
    ASSUME NEW a, NEW X, J(a, X), NEW i \in NetIf, NEW s \in El(a, i), s.method = "dhcp", NEW addr \in Addr,
           NEW r, r = dhcp_bound(a, i, s.id, addr)
    PROVE  J(r, X)
<1> DEFINE b == Wait(a, i, s.id, "none")
           t == [s EXCEPT !.wait = "none"]
           c == service_set_address(b, i, s.id, addr)
           d == linklocal_service_change(c, i, s.id, FALSE)
           u == [t EXCEPT !.addr = addr]
<1>1. r = ServicePublishSuccessIPv4(d, i, s.id)
  BY DEF dhcp_bound
<1>2. J(b, X) /\ Swapped(a, b, i, s, t) /\ t \in Service /\ Like(s, t)
  BY WaitFacts
<1> HIDE DEF b, t
<1>3. t \in El(b, i) /\ t.id = s.id /\ Kin(i, t)
  BY <1>2, Lookup DEF Swapped, Like
<1>4. J(c, X \cup Dep(b, i, t)) /\ Swapped(b, c, i, t, u)
  BY <1>2, <1>3, SetAddressFacts
<1>5. u.id = t.id
  BY <1>2, AddrField
<1> HIDE DEF c, u
<1>6. Dep(b, i, t) = {s.id}
  <2>1. t.parent = NoID
    BY <1>2, <1>3, DepFacts DEF Like
  <2> QED BY <1>2, <1>3, <2>1, DepOne DEF J
<1>7. J(d, X \cup {s.id}) /\ Keeps(c, d)
  BY <1>4, <1>6, LetGoFacts
<1> HIDE DEF d
<1>8. PICK v \in El(d, i) : v.id = s.id
  BY <1>3, <1>4, <1>5, <1>7 DEF Swapped, Keeps
<1>9. J(d, X \cup Dep(d, i, v))
  BY <1>7, <1>8, Weaker DEF Dep
<1> QED BY <1>1, <1>8, <1>9, PublishFacts

LEMMA NoServerFacts ==
    ASSUME NEW a, NEW X, J(a, X), NEW i \in NetIf, NEW s \in El(a, i), s.addr = NoAddr,
           NEW r, r = dhcp_no_server(a, i, s.id)
    PROVE  J(r, X)
<1> DEFINE b == Wait(a, i, s.id, "start")
           t == [s EXCEPT !.wait = "start"]
           c == linklocal_service_change(b, i, s.id, TRUE)
<1>1. r = service_publish_failure_sync(c, i, s.id, "no server")
  BY DEF dhcp_no_server
<1>2. J(b, X) /\ Swapped(a, b, i, s, t) /\ Like(s, t)
  BY WaitFacts
<1> HIDE DEF b, t
<1>3. J(c, X) /\ \A u \in El(b, i) : \E v \in El(c, i) : Like(u, v)
  BY <1>2, AskFacts
<1> HIDE DEF c
<1>4. PICK v \in El(c, i) : v.id = s.id /\ v.addr = NoAddr
  <2>1. t \in El(b, i)
    BY <1>2 DEF Swapped
  <2>2. PICK v \in El(c, i) : Like(t, v)
    BY <1>3, <2>1
  <2> QED BY <1>2, <2>2 DEF Like
<1>5. J(c, X \cup Dep(c, i, v))
  BY <1>3, Weaker
<1>6. "no server" \in Status
  BY DEF Status
<1> QED BY <1>1, <1>4, <1>5, <1>6, FailureFacts

\* An IPv6 service changes, and its entity goes.
LEMMA Gone6Facts ==
    ASSUME NEW a, NEW X, J(a, X), NEW i \in NetIf, NEW t \in Service, ~IsV4(t.method), NEW id,
           NEW r, r = ClearEntity(Set(a, i, t), i, id, FALSE)
    PROVE  J(r, X)
<1> DEFINE b == Set(a, i, t)
<1>1. /\ b \in Agent /\ Rest(a, b) /\ b.kernel = a.kernel
      /\ El6(b, i) = {IF u.id = t.id THEN t ELSE u : u \in El6(a, i)}
      /\ \A j \in NetIf \ {i} : El6(b, j) = El6(a, j)
      /\ \A j \in NetIf : El(b, j) = El(a, j)
  BY Set6Facts DEF J
<1>2. r = ClearEntity(b, i, id, FALSE)
  OBVIOUS
<1> HIDE DEF b
<1>3. \A j \in NetIf : \A u \in El6(b, j) : ~IsV4(u.method)
  <2>1. \A u \in El6(b, i) : u = t \/ u \in El6(a, i)
    BY <1>1
  <2> QED BY <1>1, <2>1 DEF J, Shape
<1>4. J(b, X)
  BY <1>1, <1>3, Other6
<1> QED BY <1>2, <1>4, Clear6Facts

\* service_list_event: every service is told that the link is gone.
LEMMA EachFacts ==
    ASSUME NEW a, NEW X, J(a, X), NEW i \in NetIf, NEW r, r = EachInactive(a, i)
    PROVE  J(r, X)
<1> DEFINE list == a.if[i].v4
<1> DEFINE N == Len(list)
           S == {b \in Agent : J(b, X) /\ Keeps(a, b)}
           Turn(m, b) == Inactive(b, i, list[m].id)
           G == [m \in 1..N |-> [b \in S |-> Turn(m, b)]]
           Runs(fn) == fn = [m \in 0..N |-> IF m = 0 THEN a ELSE Turn(m, fn[m - 1])]
           g == CHOOSE fn : Runs(fn)
<1>1. N \in Nat /\ \A m \in 1..N : list[m] \in El(a, i)
  BY Elements, LenProperties DEF J, El, ToSet
<1>2. a \in S
  BY DEF J, Keeps
<1>3. \A m \in 1..N : \A b \in S : Turn(m, b) \in S
  <2> SUFFICES ASSUME NEW m \in 1..N, NEW b \in S PROVE Turn(m, b) \in S
    OBVIOUS
  <2> DEFINE id == list[m].id
             c == Inactive(b, i, id)
  <2>1. J(b, X) /\ Keeps(a, b)
    OBVIOUS
  <2>2. PICK s \in El(b, i) : s.id = id
    BY <1>1 DEF Keeps
  <2>3. Turn(m, b) = c
    OBVIOUS
  <2> HIDE DEF id
  <2>4. J(c, X) /\ Keeps(b, c)
    BY <2>1, <2>2, LosesFacts DEF Inactive, Status
  <2> HIDE DEF c, Turn
  <2>5. Keeps(a, c)
    BY <2>1, <2>4, KeepsTwice
  <2> QED BY <2>3, <2>4, <2>5 DEF J
<1>4. r = g[N]
  BY DEF EachInactive
<1> HIDE DEF Turn, S, N
<1>5. \E fn : Runs(fn)
  <2>1. \A m \in 1..N : \A b \in S : G[m][b] = Turn(m, b)
    OBVIOUS
  <2>2. PICK fn : Loop(G, a, fn, N) /\ \A m \in 0..N : fn[m] \in S
    BY <1>1, <1>2, <1>3, <2>1, LoopStays
  <2>3. \A m \in 0..N : m = 0 \/ (m \in 1..N /\ m - 1 \in 0..N)
    BY <1>1
  <2>4. fn = [m \in 0..N |-> IF m = 0 THEN a ELSE Turn(m, fn[m - 1])]
    BY <2>1, <2>2, <2>3 DEF Loop
  <2> QED BY <2>4
<1>6. g[N] \in S
  <2>1. g = [m \in 0..N |-> IF m = 0 THEN a ELSE Turn(m, g[m - 1])]
    BY <1>5
  <2> HIDE DEF g, Runs
  <2>2. g[0] = a /\ \A m \in 1..N : g[m] = Turn(m, g[m - 1])
    BY <1>1, <2>1
  <2>3. g[0] \in S /\ \A m \in 1..N : g[m - 1] \in S => g[m] \in S
    BY <1>2, <1>3, <2>2
  <2> QED BY <1>1, <2>3, Stays
<1> QED BY <1>4, <1>6 DEF S

LEMMA Each6Facts ==
    ASSUME NEW a, NEW X, J(a, X), NEW i \in NetIf, NEW r, r = EachInactive6(a, i)
    PROVE  J(r, X)
<1> DEFINE list == a.if[i].v6
<1> DEFINE N == Len(list)
           S == {b \in Agent : J(b, X)}
           Turn(m, b) == Inactive6(b, i, list[m])
           G == [m \in 1..N |-> [b \in S |-> Turn(m, b)]]
           Runs(fn) == fn = [m \in 0..N |-> IF m = 0 THEN a ELSE Turn(m, fn[m - 1])]
           g == CHOOSE fn : Runs(fn)
<1>1. N \in Nat /\ \A m \in 1..N : list[m] \in Service /\ ~IsV4(list[m].method)
  <2>1. list \in Seq(Service) /\ \A s \in ToSet(list) : ~IsV4(s.method)
    BY Elements DEF J, Shape, El6
  <2> HIDE DEF list
  <2> QED BY <2>1, LenProperties DEF ToSet
<1>2. a \in S
  BY DEF J
<1>3. \A m \in 1..N : \A b \in S : Turn(m, b) \in S
  <2> SUFFICES ASSUME NEW m \in 1..N, NEW b \in S PROVE Turn(m, b) \in S
    OBVIOUS
  <2> DEFINE s == list[m]
             t == [s EXCEPT !.ready = TRUE, !.status = "failure"]
  <2>1. s \in Service /\ ~IsV4(s.method) /\ J(b, X)
    BY <1>1
  <2>2. Turn(m, b) = ClearEntity(Set(b, i, t), i, s.id, FALSE)
    BY DEF Inactive6
  <2> HIDE DEF s, Turn
  <2>3. t \in Service /\ t.method = s.method
    BY <2>1 DEF Service, Status
  <2> HIDE DEF t
  <2>4. J(Turn(m, b), X)
    BY <2>1, <2>2, <2>3, Gone6Facts
  <2> QED BY <2>4 DEF J
<1>4. r = g[N]
  BY DEF EachInactive6
<1> HIDE DEF Turn, S, N
<1>5. \E fn : Runs(fn)
  <2>1. \A m \in 1..N : \A b \in S : G[m][b] = Turn(m, b)
    OBVIOUS
  <2>2. PICK fn : Loop(G, a, fn, N) /\ \A m \in 0..N : fn[m] \in S
    BY <1>1, <1>2, <1>3, <2>1, LoopStays
  <2>3. \A m \in 0..N : m = 0 \/ (m \in 1..N /\ m - 1 \in 0..N)
    BY <1>1
  <2>4. fn = [m \in 0..N |-> IF m = 0 THEN a ELSE Turn(m, fn[m - 1])]
    BY <2>1, <2>2, <2>3 DEF Loop
  <2> QED BY <2>4
<1>6. g[N] \in S
  <2>1. g = [m \in 0..N |-> IF m = 0 THEN a ELSE Turn(m, g[m - 1])]
    BY <1>5
  <2> HIDE DEF g, Runs
  <2>2. g[0] = a /\ \A m \in 1..N : g[m] = Turn(m, g[m - 1])
    BY <1>1, <2>1
  <2>3. g[0] \in S /\ \A m \in 1..N : g[m - 1] \in S => g[m] \in S
    BY <1>2, <1>3, <2>2
  <2> QED BY <1>1, <2>3, Stays
<1> QED BY <1>4, <1>6 DEF S

-----------------------------------------------------------------------------
(* Actions.                                                                *)

\* The link-local address that is remembered.
LEMMA RememberFacts ==
    ASSUME NEW a, NEW X, J(a, X), NEW i \in NetIf, NEW addr \in Addr, NEW b, b = [a EXCEPT !.if[i].ll = addr]
    PROVE  J(b, X)
<1>1. b \in Agent /\ Rest(a, b) /\ b.kernel = a.kernel
  BY DEF J, Agent, Interface, Rest
<1>2. \A j \in NetIf : b.if[j].v4 = a.if[j].v4 /\ b.if[j].v6 = a.if[j].v6
  BY DEF J, Agent, Interface
<1> QED BY <1>1, <1>2, SameV, SameServices

LEMMA InterfaceListFacts ==
    ASSUME NEW a, NEW X, J(a, X), NEW l \in SUBSET NetIf, NEW b, b = [a EXCEPT !.list = l]
    PROVE  J(b, X)
<1>1. b \in Agent /\ Rest(a, b) /\ b.kernel = a.kernel /\ b.if = a.if
  BY DEF J, Agent, Rest
<1> QED BY <1>1, SameIf, SameServices

\* The link comes back: every service starts again.
LEMMA LinkBackFacts ==
    ASSUME NEW a, NEW X, J(a, X), NEW i \in NetIf,
           NEW b, b = [a EXCEPT !.if[i].v4 = [n \in DOMAIN @ |-> [@[n] EXCEPT !.wait = "start"]]]
    PROVE  J(b, X)
<1> DEFINE l == a.if[i].v4
           again(s) == [s EXCEPT !.wait = "start"]
           k == [n \in DOMAIN l |-> again(l[n])]
<1>1. b = [a EXCEPT !.if[i].v4 = k]
  OBVIOUS
<1>0. PICK q : q = k
  OBVIOUS
<1>2. l \in Seq(Service) /\ ToSet(l) = El(a, i)
  BY Elements DEF J, El
<1>3. \A s \in Service : again(s) \in Service /\ Like(s, again(s)) /\ again(s).child = s.child
  BY WaitField
<1> HIDE DEF again, l
<1>4. Len(l) \in Nat /\ DOMAIN l = 1..Len(l) /\ \A n \in 1..Len(l) : l[n] \in Service
  BY <1>2, LenProperties
<1>5. k \in Seq(Service) /\ ToSet(k) = {again(s) : s \in El(a, i)}
  <2>1. k \in Seq(Service)
    BY <1>3, <1>4, IsASeq
  <2>2. DOMAIN k = 1..Len(l) /\ \A n \in 1..Len(l) : k[n] = again(l[n])
    BY <1>4
  <2>3. ToSet(k) = {again(s) : s \in ToSet(l)}
    BY <1>4, <2>2 DEF ToSet
  <2> QED BY <1>2, <2>1, <2>3
<1> HIDE DEF k
<1>6. /\ b \in Agent /\ Rest(a, b) /\ b.kernel = a.kernel /\ El(b, i) = {again(s) : s \in El(a, i)}
      /\ \A j \in NetIf \ {i} : El(b, j) = El(a, j)
      /\ \A j \in NetIf : El6(b, j) = El6(a, j)
  <2>1. a \in Agent /\ q \in Seq(Service) /\ q = k
    BY <1>5, <1>0 DEF J
  <2>3. b = [a EXCEPT !.if[i].v4 = q]
    BY <1>1, <2>1
  <2>2. /\ b \in Agent /\ Rest(a, b) /\ b.kernel = a.kernel /\ El(b, i) = ToSet(q)
        /\ \A j \in NetIf \ {i} : El(b, j) = El(a, j)
        /\ \A j \in NetIf : El6(b, j) = El6(a, j)
    BY <2>1, <2>3, SetV4
  <2> QED BY <1>5, <2>1, <2>2
<1>7. \A j \in NetIf : \A s \in El(a, j) : s \in Service
  BY Elements DEF J
<1>8. \A j \in NetIf : \A s \in El(a, j) : \E t \in El(b, j) : Like(s, t) /\ t.child = s.child
  <2> TAKE j \in NetIf
  <2> TAKE s \in El(a, j)
  <2>1. CASE j = i
    BY <1>3, <1>6, <1>7, <2>1
  <2>2. CASE j # i
    BY <1>6, <2>2 DEF Like
  <2> QED BY <2>1, <2>2
<1>9. \A j \in NetIf : \A t \in El(b, j) : \E s \in El(a, j) : Like(s, t) /\ t.child = s.child /\ (t = s \/ t = again(s))
  <2> TAKE j \in NetIf
  <2> TAKE t \in El(b, j)
  <2>1. CASE j = i
    BY <1>3, <1>6, <1>7, <2>1
  <2>2. CASE j # i
    BY <1>6, <2>2 DEF Like
  <2> QED BY <2>1, <2>2
<1>10. Shape(b)
  <2> SUFFICES ASSUME NEW j \in NetIf PROVE /\ Unique(b, j) /\ \A s \in El(b, j) : Kin(j, s)
                                            /\ \A s \in El6(b, j) : ~IsV4(s.method)
    BY DEF Shape
  <2>1. \A s \in El(b, j) : Kin(j, s)
    BY <1>9 DEF J, Shape, Kin, Like
  <2>2. Unique(b, j)
    <3>1. CASE j = i
      <4>1. \A s, t \in El(a, i) : again(s).id = again(t).id => s = t
        BY <1>3, <1>7 DEF J, Shape, Unique, Like
      <4> QED BY <1>6, <3>1, <4>1 DEF Unique
    <3>2. CASE j # i
      BY <1>6, <3>2 DEF J, Shape, Unique
    <3> QED BY <3>1, <3>2
  <2> QED BY <1>6, <2>1, <2>2 DEF J, Shape
<1>11. Assigned(b) /\ NoEntity(b)
  BY <1>6, <1>9 DEF J, Assigned, NoEntity, Rest, Like
<1>12. \A id : Backs(a, id) => Backs(b, id)
  <2> SUFFICES ASSUME NEW id, NEW j \in NetIf, NEW s \in El(a, j), s.addr = a.store[id], Serves(a, j, s, id)
               PROVE  Backs(b, id)
    BY DEF Backs
  <2>1. \A u \in El(a, j) : \E t \in El(b, j) : t.id = u.id /\ t.addr = u.addr /\ t.parent = u.parent
    BY <1>8 DEF Like
  <2>2. Free(a, j, id) => Free(b, j, id)
    BY <2>1 DEF Free
  <2>3. PICK t \in El(b, j) : t.id = s.id /\ t.addr = s.addr /\ t.parent = s.parent
    BY <2>1
  <2>4. Serves(b, j, t, id)
    BY <2>2, <2>3 DEF Serves
  <2>5. b.store = a.store
    BY <1>6 DEF Rest
  <2> QED BY <2>3, <2>4, <2>5 DEF Backs
<1>13. Backed(b, X)
  BY <1>6, <1>12 DEF J, Backed, Rest
<1> QED BY <1>6, <1>10, <1>11, <1>13 DEF J

\* All services of an interface go.
LEMMA EmptyFacts ==
    ASSUME NEW a, NEW X, J(a, X), NEW i \in NetIf,
           NEW c, c = IFStateFreeIPv6Services(IFStateFreeIPv4Services(a, i, TRUE), i, TRUE)
    PROVE  J(c, X) /\ El(c, i) = {}
<1> DEFINE l == a.if[i].v4
           b == FreeAll(a, i, l)
           m == b.if[i].v6
<1>1. c = FreeAll(b, i, m)
  BY DEF IFStateFreeIPv6Services, IFStateFreeIPv4Services
<1>2. l \in Seq(Service) /\ ToSet(l) = El(a, i) /\ \A s \in ToSet(l) : Fits(a, i, s)
  BY AllFit DEF El
<1> HIDE DEF l
<1>3. J(b, X) /\ Freed(a, b, i, AllGone(l, Len(l)))
  BY <1>2, FreeAllFacts
<1> HIDE DEF b
<1>4. El(b, i) = {}
  <2> SUFFICES ASSUME NEW t \in El(b, i) PROVE FALSE
    OBVIOUS
  <2>1. PICK u \in El(a, i) : Like(t, u)
    BY <1>3 DEF Freed
  <2>2. t.id \notin AllGone(l, Len(l))
    BY <1>3 DEF Freed
  <2>3. IsV4(u.method)
    BY <2>1, Lookup DEF Kin
  <2> QED BY <1>2, <2>1, <2>2, <2>3, GoneAll DEF Like
<1>5. m \in Seq(Service) /\ \A s \in ToSet(m) : Fits(b, i, s)
  BY <1>3, AllFit
<1> HIDE DEF m
<1>6. J(c, X) /\ Freed(b, c, i, AllGone(m, Len(m)))
  BY <1>1, <1>3, <1>5, FreeAllFacts
<1> QED BY <1>4, <1>6 DEF Freed

\* What is left of an interface that is detached.
LEMMA DetachedFacts ==
    ASSUME NEW a, NEW X, J(a, X), NEW i \in NetIf, El(a, i) = {},
           NEW d, d = [a EXCEPT !.if[i] = NewState, !.kernel = {k \in @ : k[1] # i}]
    PROVE  J(d, X)
<1>1. NewState \in Interface /\ NewState.v4 = <<>> /\ NewState.v6 = <<>>
  BY Identifiers DEF NewState, Interface
<1>2. d \in Agent /\ Rest(a, d) /\ d.kernel = {k \in a.kernel : k[1] # i}
  BY <1>1 DEF J, Agent, Rest
<1>3. d.if[i] = NewState /\ \A j \in NetIf \ {i} : d.if[j] = a.if[j]
  BY DEF J, Agent
<1>4. El(d, i) = {} /\ El6(d, i) = {} /\ \A j \in NetIf \ {i} : El(d, j) = El(a, j) /\ El6(d, j) = El6(a, j)
  BY <1>1, <1>3 DEF El, El6, ToSet
<1>5. \A j \in NetIf : El(d, j) = El(a, j)
  BY <1>4
<1>6. Shape(d)
  BY <1>4, <1>5 DEF J, Shape, Unique
<1>7. Assigned(d)
  <2> SUFFICES ASSUME NEW j \in NetIf, NEW s \in El(d, j), s.addr # NoAddr PROVE <<j, s.addr>> \in d.kernel
    BY DEF Assigned
  <2>1. <<j, s.addr>> \in a.kernel /\ j # i
    BY <1>4, <1>5 DEF J, Assigned
  <2> QED BY <1>2, <2>1
<1>8. NoEntity(d)
  BY <1>2 DEF J, NoEntity, Rest
<1>9. \A id : Backs(a, id) => Backs(d, id)
  BY <1>2, <1>5 DEF Backs, Serves, Free, Rest
<1>10. Backed(d, X)
  BY <1>2, <1>9 DEF J, Backed, Rest
<1> QED BY <1>2, <1>6, <1>7, <1>8, <1>10 DEF J

\* What an action keeps.
StillHolds == J(ag', {}) /\ setup' \in DOMAIN Setups

LEMMA ConfigurationStep ==
    ASSUME ServiceInv, NEW n \in DOMAIN Setups, configuration_changed(n)
    PROVE  StillHolds
<1> DEFINE b == handle_configuration_changed(ag, Setups[n])
<1>1. J(b, {})
  BY ConfigurationFacts DEF ServiceInv
<1>2. setup' \in DOMAIN Setups /\ (ag' = b \/ ag' = Attention(b, {"linklocal", "disable"}))
  BY DEF configuration_changed
<1> HIDE DEF b
<1>3. PICK c : c = Attention(b, {"linklocal", "disable"})
  OBVIOUS
<1>4. J(c, {})
  BY <1>1, <1>3, Attended
<1> QED BY <1>1, <1>2, <1>3, <1>4 DEF StillHolds

LEMMA WorkStep ==
    ASSUME ServiceInv, perform_async_work
    PROVE  StillHolds
<1>1. ag' = perform_async_work_requiring_store(ag, Order) /\ setup' = setup
  BY DEF perform_async_work
<1> QED BY <1>1, WorkFacts DEF ServiceInv, StillHolds

LEMMA ChangeStep ==
    ASSUME ServiceInv, NEW i \in NetIf, handle_change(i)
    PROVE  StillHolds
<1> DEFINE l == IF i \in ag.list THEN ag.list \ {i} ELSE ag.list \cup {i}
           b == [ag EXCEPT !.list = l]
           c == IFStateFreeIPv6Services(IFStateFreeIPv4Services(b, i, TRUE), i, TRUE)
           d == [c EXCEPT !.if[i] = NewState, !.kernel = {k \in @ : k[1] # i}]
           e == IF i \in ag.list THEN d ELSE b
<1>1. ag' = handle_configuration_changed(e, Setups[setup]) /\ setup' = setup
  BY Zenon DEF handle_change, Conf
<1>2. setup \in DOMAIN Setups /\ J(ag, {}) /\ l \in SUBSET NetIf
  BY DEF ServiceInv, J, Agent
<1> HIDE DEF l
<1>3. J(b, {})
  BY <1>2, InterfaceListFacts
<1> HIDE DEF b
<1>4. J(c, {}) /\ El(c, i) = {}
  BY <1>3, EmptyFacts
<1> HIDE DEF c
<1>5. J(d, {})
  BY <1>4, DetachedFacts
<1> HIDE DEF d
<1>6. J(e, {})
  BY <1>3, <1>5
<1> HIDE DEF e
<1> QED BY <1>1, <1>2, <1>6, ConfigurationFacts DEF StillHolds

LEMMA AddStep ==
    ASSUME ServiceInv, NEW i \in NetIf, NEW add_only,
           add_or_set_service(i, "dynamic", "manual", "static", add_only)
    PROVE  StillHolds
<1> DEFINE K == {s \in El(ag, i) : /\ FALSE => s.dynamic
                                   /\ IF ipconfig_method_is_manual("manual")
                                        THEN ipconfig_method_is_manual(s.method) /\ s.want = "static"
                                        ELSE s.method = "manual"}
           found == IFStateGetServiceMatchingMethod(ag, i, "manual", "static", FALSE)
           b == IF found = <<>> THEN ag ELSE ServiceFree(ag, i, found[1])
           s == NewService("dynamic", "manual", "static", TRUE, NoID)
<1>1. J(ag, {}) /\ setup' = setup /\ setup \in DOMAIN Setups
  BY DEF ServiceInv, add_or_set_service
<1>2. ag' = ag \/ ag' = IFState_service_add(b, i, s)
  BY Zenon DEF add_or_set_service
<1>3. \A t \in El(ag, i) : t.id # "dynamic"
  <2>1. ~HasID(ag.if[i].v4, "dynamic")
    BY DEF add_or_set_service, Of
  <2> QED BY <2>1, Has DEF El
<1>4. found # <<>> => found[1] \in El(ag, i)
  <2>1. found = Only(ag.if[i].v4, K)
    BY DEF IFStateGetServiceMatchingMethod, Of, IsV4, El
  <2> HIDE DEF K, found
  <2>2. found \in Seq(Service) /\ ToSet(found) = El(ag, i) \cap K
    BY <1>1, <2>1, Elements, OnlyElements DEF J, El
  <2>3. found # <<>> => 1 \in DOMAIN found
    BY <2>2
  <2>4. found # <<>> => found[1] \in ToSet(found)
    BY <2>3 DEF ToSet
  <2> QED BY <2>2, <2>4
<1> HIDE DEF found
<1>5. J(b, {}) /\ \A t \in El(b, i) : t.id # "dynamic"
  <2>1. CASE found = <<>>
    <3>1. b = ag
      BY <2>1
    <3> HIDE DEF b
    <3> QED BY <1>1, <1>3, <3>1
  <2>2. CASE found # <<>>
    <3> DEFINE fn == found[1]
    <3>1. b = ServiceFree(ag, i, fn) /\ fn \in El(ag, i)
      BY <1>4, <2>2
    <3> HIDE DEF b, fn
    <3>2. J(b, {}) /\ Freed(ag, b, i, Gone(fn))
      BY <1>1, <3>1, Lookup, FreeFacts
    <3> QED BY <1>3, <3>2 DEF Freed, Like
  <2> QED BY <2>1, <2>2
<1> HIDE DEF b
<1>6. s \in Service /\ s.id = "dynamic" /\ s.method = "manual" /\ s.parent = NoID /\ s.addr = NoAddr
  BY Identifiers DEF NewService, Service, Status, Methods
<1> HIDE DEF s
<1>7. IsV4(s.method) /\ Kin(i, s) /\ Parented(b, i, s)
  BY <1>6, Identifiers DEF Kin, Parented, IsV4
<1>8. J(IFState_service_add(b, i, s), {})
  BY <1>5, <1>6, <1>7, AddFacts
<1> QED BY <1>1, <1>2, <1>8 DEF StillHolds

LEMMA RemoveStep ==
    ASSUME ServiceInv, NEW i \in NetIf, NEW v4 \in BOOLEAN, NEW id, S_remove_service(i, v4, id)
    PROVE  StillHolds
<1>1. HasID(Of(ag, i, v4), id) /\ ag' = ServiceFree(ag, i, GetID(Of(ag, i, v4), id)) /\ setup' = setup
  BY DEF S_remove_service, IFStateGetServiceWithID, IFStateFreeServiceWithID
<1>2. PICK r : r = ServiceFree(ag, i, GetID(Of(ag, i, v4), id))
  OBVIOUS
<1>3. J(r, {})
  BY <1>1, <1>2, FreeFound DEF ServiceInv
<1> QED BY <1>1, <1>2, <1>3 DEF ServiceInv, StillHolds

\* The service that an action is about.
LEMMA About ==
    ASSUME ServiceInv, NEW i \in NetIf, NEW id, IFStateGetServiceWithID(ag, i, id, TRUE)
    PROVE  /\ J(ag, {}) /\ setup \in DOMAIN Setups
           /\ The(ag, i, id) \in El(ag, i) /\ The(ag, i, id).id = id /\ The(ag, i, id).want \in Addr
<1>1. The(ag, i, id) \in El(ag, i) /\ The(ag, i, id).id = id
  BY FoundV4
<1>2. The(ag, i, id) \in Service
  BY <1>1, Lookup DEF ServiceInv
<1> QED BY <1>1, <1>2 DEF ServiceInv, Service

LEMMA ConflictFacts ==
    ASSUME NEW a, NEW X, J(a, X), NEW i \in NetIf, NEW s \in El(a, i)
    PROVE  J(Conflict(a, i, s.id), X) /\ J(Inactive(a, i, s.id), X)
<1> DEFINE start == "start"
           none == "none"
           st == "failure"
<1>1. start \in {"start", "none"} /\ none \in {"start", "none"} /\ st \in Status
  BY DEF Status
<1>2. /\ Conflict(a, i, s.id) =
           service_publish_failure_sync(service_remove_address(Wait(a, i, s.id, start), i, s.id), i, s.id, st)
      /\ Inactive(a, i, s.id) =
           service_publish_failure_sync(service_remove_address(Wait(a, i, s.id, none), i, s.id), i, s.id, st)
  BY DEF Conflict, Inactive
<1> HIDE DEF start, none, st
<1> QED BY <1>1, <1>2, LosesFacts

LEMMA ProbeStep ==
    ASSUME ServiceInv, NEW i \in NetIf, NEW id, NEW in_use, Probe(i, id, in_use)
    PROVE  StillHolds
<1> DEFINE s == The(ag, i, id)
<1>1. /\ IFStateGetServiceWithID(ag, i, id, TRUE) /\ setup' = setup
      /\ ag' = Conflict(ag, i, id) \/ ag' = Inactive(ag, i, id) \/ ag' = Acquire(ag, i, id, s.want)
  BY DEF Probe
<1>2. J(ag, {}) /\ setup \in DOMAIN Setups /\ s \in El(ag, i) /\ s.id = id /\ s.want \in Addr
  BY <1>1, About
<1> HIDE DEF s
<1>3. J(Conflict(ag, i, id), {}) /\ J(Inactive(ag, i, id), {})
  BY <1>2, ConflictFacts
<1>4. J(Acquire(ag, i, id, s.want), {})
  BY <1>2, AcquireFacts
<1> QED BY <1>1, <1>2, <1>3, <1>4 DEF StillHolds

LEMMA AllocateStep ==
    ASSUME ServiceInv, NEW i \in NetIf, NEW id, NEW addr \in LinkLocals, NEW in_use,
           linklocal_allocate(i, id, addr, in_use)
    PROVE  StillHolds
<1> DEFINE s == The(ag, i, id)
           c == Conflict(ag, i, id)
           d == Acquire(ag, i, id, addr)
           c1 == [c EXCEPT !.if[i].ll = NoAddr]
           d1 == [d EXCEPT !.if[i].ll = addr]
<1>1. /\ IFStateGetServiceWithID(ag, i, id, TRUE) /\ setup' = setup
      /\ ag' = c1 \/ ag' = Inactive(ag, i, id) \/ ag' = d1
  BY DEF linklocal_allocate
<1>2. J(ag, {}) /\ setup \in DOMAIN Setups /\ s \in El(ag, i) /\ s.id = id /\ addr \in Addr /\ NoAddr \in Addr
  BY <1>1, About, Identifiers
<1> HIDE DEF s
<1>3. J(c, {}) /\ J(Inactive(ag, i, id), {})
  BY <1>2, ConflictFacts
<1>4. J(d, {})
  BY <1>2, AcquireFacts
<1> HIDE DEF c, d
<1>5. J(c1, {}) /\ J(d1, {})
  BY <1>2, <1>3, <1>4, RememberFacts
<1> QED BY <1>1, <1>2, <1>3, <1>5 DEF StillHolds

LEMMA ProxyStep ==
    ASSUME ServiceInv, NEW i \in NetIf, NEW in_use, linklocal_detect_proxy_arp(i, in_use)
    PROVE  StillHolds
<1> DEFINE s == The(ag, i, LLID(i))
           st == IF in_use THEN "failure" ELSE "success"
           none == "none"
           failure == "failure"
           b == Wait(ag, i, LLID(i), none)
           t == [s EXCEPT !.wait = none]
           c == service_publish_failure_sync(service_remove_address(b, i, LLID(i)), i, LLID(i), failure)
           d == service_publish_failure_sync(b, i, LLID(i), st)
<1>1. /\ IFStateGetServiceWithID(ag, i, LLID(i), TRUE) /\ setup' = setup
      /\ ag' = Attention(c, {"linklocal"}) \/ ag' = Attention(d, {"linklocal"})
  BY DEF linklocal_detect_proxy_arp, linklocal_set_needs_attention, linklocal_failed
<1>2. J(ag, {}) /\ setup \in DOMAIN Setups /\ s \in El(ag, i) /\ s.id = LLID(i)
  BY <1>1, About
<1>3. none \in {"start", "none"} /\ failure \in Status /\ st \in Status
  BY DEF Status
<1> HIDE DEF s, none, failure, st
<1>4. J(c, {})
  BY <1>2, <1>3, LosesFacts
<1>5. J(b, {}) /\ Swapped(ag, b, i, s, t) /\ Like(s, t) /\ t \in Service
  BY <1>2, <1>3, WaitFacts
<1> HIDE DEF b, t
<1>6. t \in El(b, i) /\ t.id = LLID(i)
  BY <1>2, <1>5 DEF Swapped, Like
<1>7. ~t.child
  BY <1>5, <1>6, Lookup, Identifiers DEF Kin
<1>8. J(b, {} \cup Dep(b, i, t))
  BY <1>5, Weaker
<1>9. J(d, {})
  BY <1>3, <1>6, <1>7, <1>8, FailureFacts
<1> HIDE DEF c, d
<1>10. PICK c1, d1 : c1 = Attention(c, {"linklocal"}) /\ d1 = Attention(d, {"linklocal"})
  OBVIOUS
<1>11. J(c1, {}) /\ J(d1, {})
  BY <1>4, <1>9, <1>10, Attended
<1> QED BY <1>1, <1>2, <1>10, <1>11 DEF StillHolds

LEMMA DhcpStep ==
    ASSUME ServiceInv, NEW i \in NetIf, NEW id, NEW addr \in {NoAddr, "leased"}, Dhcp(i, id, addr)
    PROVE  StillHolds
<1> DEFINE s == The(ag, i, id)
<1>1. /\ IFStateGetServiceWithID(ag, i, id, TRUE) /\ setup' = setup /\ s.method = "dhcp"
      /\ \/ ag' = Conflict(ag, i, id)
         \/ ag' = dhcp_bound(ag, i, id, addr)
         \/ s.addr = NoAddr /\ ag' = dhcp_no_server(ag, i, id)
  BY DEF Dhcp
<1>2. J(ag, {}) /\ setup \in DOMAIN Setups /\ s \in El(ag, i) /\ s.id = id /\ addr \in Addr
  BY <1>1, About, Identifiers
<1> HIDE DEF s
<1>3. J(Conflict(ag, i, id), {})
  BY <1>2, ConflictFacts
<1>4. J(dhcp_bound(ag, i, id, addr), {})
  BY <1>1, <1>2, BoundFacts
<1>5. s.addr = NoAddr => J(dhcp_no_server(ag, i, id), {})
  BY <1>2, NoServerFacts
<1> QED BY <1>1, <1>2, <1>3, <1>4, <1>5 DEF StillHolds

LEMMA RtadvStep ==
    ASSUME ServiceInv, NEW i \in NetIf, NEW id, Rtadv(i, id)
    PROVE  StillHolds
<1> DEFINE s == GetID(ag.if[i].v6, id)
           t == [s EXCEPT !.status = "failure"]
           b == ServicePublishSuccessIPv6(ag, i, id)
           c == ClearEntity(Set(ag, i, t), i, id, FALSE)
<1>1. HasID(ag.if[i].v6, id) /\ setup' = setup /\ (ag' = c \/ ag' = b)
  BY DEF Rtadv, IFStateGetServiceWithID, Of
<1>2. s \in El6(ag, i) /\ s.id = id
  BY <1>1, Found DEF El6
<1>3. J(ag, {}) /\ setup \in DOMAIN Setups /\ s \in Service /\ ~IsV4(s.method)
  <2> HIDE DEF s
  <2> QED BY <1>2, Elements DEF ServiceInv, J, Shape
<1> HIDE DEF s
<1>4. t \in Service /\ t.method = s.method
  BY <1>3 DEF Service, Status
<1> HIDE DEF t
<1>5. J(c, {})
  BY <1>3, <1>4, Gone6Facts
<1>6. J(b, {})
  BY <1>2, <1>3, Publish6Facts
<1> HIDE DEF b, c
<1> QED BY <1>1, <1>3, <1>5, <1>6 DEF StillHolds

LEMMA CollisionStep ==
    ASSUME ServiceInv, NEW i \in NetIf, NEW id, arp_collision(i, id)
    PROVE  StillHolds
<1> DEFINE c == Conflict(ag, i, id)
           ll == IF The(ag, i, id).method = "linklocal" THEN NoAddr ELSE c.if[i].ll
           d == [c EXCEPT !.if[i].ll = ll]
<1>1. IFStateGetServiceWithID(ag, i, id, TRUE) /\ setup' = setup /\ ag' = d
  BY DEF arp_collision
<1>2. J(ag, {}) /\ setup \in DOMAIN Setups
  BY DEF ServiceInv
<1>3. J(c, {})
  BY <1>1, About, ConflictFacts
<1> HIDE DEF c
<1>4. ll \in Addr
  BY <1>3, Identifiers DEF J, Agent, Interface
<1> HIDE DEF ll
<1>5. J(d, {})
  BY <1>3, <1>4, RememberFacts
<1> QED BY <1>1, <1>2, <1>5 DEF StillHolds

LEMMA CarrierStep ==
    ASSUME ServiceInv, NEW i \in NetIf, CarrierChanges(i)
    PROVE  StillHolds
<1> DEFINE b == [ag EXCEPT !.if[i].v4 = [n \in DOMAIN @ |-> [@[n] EXCEPT !.wait = "start"]]]
<1>1. setup' = setup /\ (ag' = ag \/ ag' = b)
  BY DEF CarrierChanges
<1>2. J(ag, {}) /\ setup \in DOMAIN Setups
  BY DEF ServiceInv
<1>3. J(b, {})
  BY <1>2, LinkBackFacts
<1> HIDE DEF b
<1> QED BY <1>1, <1>2, <1>3 DEF StillHolds

LEMMA EventStep ==
    ASSUME ServiceInv, NEW i \in NetIf, service_list_event(i)
    PROVE  StillHolds
<1> DEFINE b == EachInactive(ag, i)
<1>1. ag' = EachInactive6(b, i) /\ setup' = setup
  BY DEF service_list_event
<1>2. J(b, {})
  BY EachFacts DEF ServiceInv
<1> HIDE DEF b
<1> QED BY <1>1, <1>2, Each6Facts DEF ServiceInv, StillHolds

-----------------------------------------------------------------------------

LEMMA FreshFacts == J(FreshAgent, {})
<1> DEFINE a == FreshAgent
<1>1. NewState \in Interface /\ NewState.v4 = <<>> /\ NewState.v6 = <<>>
  BY Identifiers DEF NewState, Interface
<1>2. Interfaces[1] \in NetIf
  BY ServiceAssumption, InterfacesFacts
<1>3. a \in Agent /\ a.misled = {} /\ \A id \in IDs : a.store[id] = NoAddr
  BY <1>1, <1>2, Identifiers DEF FreshAgent, Agent
<1>4. \A i \in NetIf : El(a, i) = {} /\ El6(a, i) = {}
  BY <1>1 DEF FreshAgent, El, El6, ToSet
<1> HIDE DEF a
<1>5. Shape(a) /\ Assigned(a)
  BY <1>4 DEF Shape, Unique, Assigned
<1>6. NoEntity(a) /\ Backed(a, {})
  BY <1>3, Identifiers DEF NoEntity, Backed
<1>7. J(a, {})
  BY <1>3, <1>5, <1>6 DEF J
<1> QED BY <1>7 DEF a

LEMMA ServiceInitial == ServiceInit => ServiceInv
<1>1. 1 \in DOMAIN Setups
  BY ServiceAssumption
<1> QED BY <1>1, FreshFacts, ConfigurationFacts DEF ServiceInit, ServiceInv

LEMMA ServiceStep ==
    ASSUME ServiceInv, [ServiceNext]_agentVars
    PROVE  StillHolds
<1>1. CASE UNCHANGED agentVars
  BY <1>1 DEF agentVars, ServiceInv, StillHolds
<1>2. CASE ServiceNext
  BY <1>2, ConfigurationStep, WorkStep, ChangeStep, AddStep, RemoveStep, ProbeStep, AllocateStep, ProxyStep,
     DhcpStep, RtadvStep, CollisionStep, CarrierStep, EventStep DEF ServiceNext
<1> QED BY <1>1, <1>2

\* At every moment the entities, the services and the kernel's addresses of
\* the agent fit together: identifiers are unique on an interface, a service
\* with an address has it in the kernel, and an entity that is not misled
\* stands for a service, or for the child of one that has no address.
THEOREM ServicesFit == ServiceSpec => []ServiceInv
<1>1. ServiceInit => ServiceInv
  BY ServiceInitial
<1>2. ServiceInv /\ [ServiceNext]_agentVars => ServiceInv'
  BY ServiceStep DEF ServiceInv, StillHolds
<1> QED BY <1>1, <1>2, PTL DEF ServiceSpec

\* PublishedIsConfigured holds for every list of interfaces and every set of
\* configurations: what the store says of a service is an address that the
\* interface has, of the service or of its child.
THEOREM PublishedConfigured == ServiceSpec => []PublishedIsConfigured
<1>1. ServiceInv => PublishedIsConfigured
  <2> SUFFICES ASSUME J(ag, {}), NEW id \in IDs \ ag.misled, ag.store[id] # NoAddr
               PROVE  \E i \in NetIf :
                         /\ <<i, ag.store[id]>> \in ag.kernel
                         /\ \E n \in DOMAIN ag.if[i].v4 : LET s == ag.if[i].v4[n]
                                IN  s.addr = ag.store[id] /\ id \in {s.id, s.parent}
    BY DEF ServiceInv, PublishedIsConfigured
  <2>0. PICK i \in NetIf : \E s \in El(ag, i) : s.addr = ag.store[id] /\ Serves(ag, i, s, id)
    BY DEF J, Backed, Backs
  <2>1. PICK s \in El(ag, i) : s.addr = ag.store[id] /\ Serves(ag, i, s, id)
    BY <2>0
  <2>2. <<i, ag.store[id]>> \in ag.kernel
    BY <2>1 DEF J, Assigned
  <2>3. PICK n \in DOMAIN ag.if[i].v4 : ag.if[i].v4[n] = s
    BY <2>1 DEF El, ToSet
  <2>4. id \in {s.id, s.parent}
    BY <2>1 DEF Serves
  <2> QED BY <2>1, <2>2, <2>3, <2>4
<1> QED BY <1>1, ServicesFit, PTL
=============================================================================
