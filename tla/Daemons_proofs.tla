---------------------------- MODULE Daemons_proofs ----------------------------
(***************************************************************************)
(* Proofs about the other programs of the repository: the DHCPv6 server,   *)
(* the BSDP client, the dispatch of bootpd, the router advertisement       *)
(* daemon and the NetBoot server.  They share no state; their modules are  *)
(* extended side by side.                                                  *)
(***************************************************************************)
EXTENDS DHCPv6Server, BSDPClient, Bootpd, Rtadvd, NetBoot, FiniteSetTheorems, SequenceTheorems,
        WellFoundedInduction, TLAPS

-----------------------------------------------------------------------------
(* The DHCPv6 server, for every set of interfaces, configurations and      *)
(* packets, and every number of restarts.                                  *)
(*                                                                         *)
(* The inductive invariant: what ServesWhereItListens says, and that the   *)
(* server is a record of its fields or none.                               *)

Serving(s) ==
    /\ s = [running |-> s.running, store |-> s.store, duid |-> s.duid, options |-> s.options,
            enabled_interfaces |-> s.enabled_interfaces, if_indices |-> s.if_indices]
    /\ s.running

SixInv ==
    /\ six = NoServer6 \/ Serving(six)
    /\ ServesWhereItListens

\* The interfaces whose group the server has joined, when some were refused.
Listens(s, g, m) == g = (Range(s.if_indices) \ {0}) \ m

\* DHCPv6ServerSetEnabledInterfaces joins what is new, leaves what is gone
\* and remembers what was refused.
LEMMA EnablesWhatIsListed ==
    ASSUME NEW s, Serving(s), Listens(s, groups, missed), NEW names, NEW refused,
           DHCPv6ServerSetEnabledInterfaces(s, names, refused)
    PROVE  /\ Serving(six') /\ six'.duid = s.duid /\ six'.running
           /\ six'.if_indices = create_if_indices(names) /\ six'.enabled_interfaces = names
           /\ Listens(six', groups', missed')
<1> DEFINE indices == create_if_indices(names)
<1>1. /\ Serving(six') /\ six'.duid = s.duid /\ six'.running
      /\ six'.if_indices = indices /\ six'.enabled_interfaces = names
  <2>1. six' = [s EXCEPT !.if_indices = indices, !.enabled_interfaces = names]
    BY DEF DHCPv6ServerSetEnabledInterfaces
  <2> HIDE DEF indices
  <2> QED BY <2>1 DEF Serving
<1> DEFINE new == Range(indices)
           old == Range(s.if_indices)
<1>2. /\ groups' = (groups \cup ({i \in new : i # 0 /\ i \notin old} \ refused))
                     \ {i \in old : i # 0 /\ i \notin new}
      /\ missed' = ((missed \cap new) \ {i \in new : i # 0 /\ i \notin old})
                     \cup ({i \in new : i # 0 /\ i \notin old} \cap refused)
  BY DEF DHCPv6ServerSetEnabledInterfaces, DHCPv6ServerEnableMulticastForAddedInterfaces,
         DHCPv6ServerDisableMulticastForRemovedInterfaces, DHCPv6ServerInterfaceIsEnabled,
         IFIndexListContainsItem
<1>3. groups = (old \ {0}) \ missed
  BY DEF Listens
<1>4. groups' = (new \ {0}) \ missed'
  <2> HIDE DEF new, old
  <2> QED BY <1>2, <1>3
<1> QED BY <1>1, <1>4 DEF Listens

LEMMA StepConfiguration ==
    ASSUME NEW s, Serving(s), Listens(s, groups, missed), NEW refused,
           DHCPv6ServerUpdateConfiguration(s, refused)
    PROVE  /\ Serving(six') /\ six'.duid = s.duid /\ six'.running
           /\ six'.if_indices = create_if_indices(six'.enabled_interfaces)
           /\ Listens(six', groups', missed')
<1>1. PICK p : DHCPv6ServerSetConfiguration(s, p, refused)
  BY DEF DHCPv6ServerUpdateConfiguration
<1>2. PICK t : t = [s EXCEPT !.options = DHCPv6ServerSetGlobalOptions(p)]
  OBVIOUS
<1>3. Serving(t) /\ t.if_indices = s.if_indices /\ t.duid = s.duid
  BY <1>2 DEF Serving
<1>4. DHCPv6ServerSetEnabledInterfaces(t, p.enabled_interfaces, refused)
  BY <1>1, <1>2 DEF DHCPv6ServerSetConfiguration
<1>5. Listens(t, groups, missed)
  BY <1>3 DEF Listens
<1> QED BY <1>3, <1>4, <1>5, EnablesWhatIsListed

LEMMA StepCreate == SixInv /\ DHCPv6ServerCreate => SixInv'
<1> SUFFICES ASSUME SixInv, DHCPv6ServerCreate PROVE SixInv'
  OBVIOUS
<1>1. PICK written \in BOOLEAN, refused \in SUBSET Present :
         /\ duidFile' = CopyServerDUID(written).file
         /\ DHCPv6ServerUpdateConfiguration(
              [running |-> TRUE, store |-> FALSE, duid |-> CopyServerDUID(written).duid, options |-> {},
               enabled_interfaces |-> <<>>, if_indices |-> <<>>], refused)
  BY DEF DHCPv6ServerCreate
<1>2. ~six.running /\ UNCHANGED ifnet
  BY DEF DHCPv6ServerCreate
<1>3. PICK s : s = [running |-> TRUE, store |-> FALSE, duid |-> CopyServerDUID(written).duid, options |-> {},
                    enabled_interfaces |-> <<>>, if_indices |-> <<>>]
  OBVIOUS
<1>4. Serving(s) /\ s.if_indices = <<>> /\ s.duid = CopyServerDUID(written).duid
  BY <1>3 DEF Serving
<1>5. Listens(s, groups, missed)
  <2>1. groups = {}
    BY <1>2 DEF SixInv, ServesWhereItListens
  <2>2. Range(s.if_indices) = {}
    BY <1>4 DEF Range
  <2> QED BY <2>1, <2>2 DEF Listens
<1>6. /\ Serving(six') /\ six'.duid = s.duid /\ six'.running
      /\ six'.if_indices = create_if_indices(six'.enabled_interfaces)
      /\ Listens(six', groups', missed')
  BY <1>1, <1>3, <1>4, <1>5, StepConfiguration
<1>7. duidFile' # 0 => six'.duid = duidFile'
  BY <1>1, <1>4, <1>6 DEF CopyServerDUID
<1>8. six'.if_indices = create_if_indices(six.enabled_interfaces)'
  BY <1>2, <1>6 DEF create_if_indices, my_if_nametoindex
<1> QED BY <1>6, <1>7, <1>8 DEF SixInv, ServesWhereItListens, Listens

LEMMA StepRelease == SixInv /\ DHCPv6ServerRelease => SixInv'
  BY DEF SixInv, DHCPv6ServerRelease, ServesWhereItListens, NoServer6

LEMMA StepEnableNotifications == SixInv /\ DHCPv6ServerEnableNotifications => SixInv'
<1> SUFFICES ASSUME SixInv, DHCPv6ServerEnableNotifications PROVE SixInv'
  OBVIOUS
<1>1. /\ six.running /\ six' = [six EXCEPT !.store = TRUE]
      /\ UNCHANGED <<ifnet, groups, missed, duidFile, stale, unseen>>
  BY DEF DHCPv6ServerEnableNotifications
<1>2. Serving(six)
  BY <1>1 DEF SixInv, NoServer6
<1>3. /\ Serving(six') /\ six'.running /\ six'.duid = six.duid /\ six'.if_indices = six.if_indices
      /\ six'.enabled_interfaces = six.enabled_interfaces
  BY <1>1, <1>2 DEF Serving
<1> QED BY <1>1, <1>3 DEF SixInv, ServesWhereItListens, create_if_indices, my_if_nametoindex

\* A server that runs is told of a change of the interfaces, or it is noted
\* that it was not.
LEMMA ChangeIsNoted == StoreChange => (six.running => stale' \/ unseen')
  BY DEF StoreChange, Watching

LEMMA StepNotification == SixInv /\ DHCPv6ServerHandleNotification => SixInv'
<1> SUFFICES ASSUME SixInv, DHCPv6ServerHandleNotification PROVE SixInv'
  OBVIOUS
<1>1. PICK refused : DHCPv6ServerSetEnabledInterfaces(six, six.enabled_interfaces, refused)
  BY DEF DHCPv6ServerHandleNotification
<1>2. six.running /\ UNCHANGED <<ifnet, duidFile>>
  BY DEF DHCPv6ServerHandleNotification, Watching
<1>3. Serving(six) /\ Listens(six, groups, missed) /\ (duidFile # 0 => six.duid = duidFile)
  BY <1>2 DEF SixInv, ServesWhereItListens, Listens, NoServer6
<1>4. /\ Serving(six') /\ six'.duid = six.duid /\ six'.running
      /\ six'.if_indices = create_if_indices(six'.enabled_interfaces)
      /\ Listens(six', groups', missed')
  <2>1. PICK names : names = six.enabled_interfaces
    OBVIOUS
  <2>2. DHCPv6ServerSetEnabledInterfaces(six, names, refused)
    BY <1>1, <2>1
  <2> QED BY <1>3, <2>2, EnablesWhatIsListed
<1>5. six'.if_indices = create_if_indices(six.enabled_interfaces)'
  BY <1>2, <1>4 DEF create_if_indices, my_if_nametoindex
<1> QED BY <1>2, <1>3, <1>4, <1>5 DEF SixInv, ServesWhereItListens, Listens

LEMMA StepSIGHUP == SixInv /\ HandleSIGHUP => SixInv'
<1> SUFFICES ASSUME SixInv, HandleSIGHUP PROVE SixInv'
  OBVIOUS
<1>1. PICK refused : DHCPv6ServerUpdateConfiguration(six, refused)
  BY DEF HandleSIGHUP
<1>2. six.running /\ UNCHANGED <<ifnet, duidFile>>
  BY DEF HandleSIGHUP, Watching
<1>3. Serving(six) /\ Listens(six, groups, missed) /\ (duidFile # 0 => six.duid = duidFile)
  BY <1>2 DEF SixInv, ServesWhereItListens, Listens, NoServer6
<1>4. /\ Serving(six') /\ six'.duid = six.duid /\ six'.running
      /\ six'.if_indices = create_if_indices(six'.enabled_interfaces)
      /\ Listens(six', groups', missed')
  BY <1>1, <1>3, StepConfiguration
<1>5. six'.if_indices = create_if_indices(six.enabled_interfaces)'
  BY <1>2, <1>4 DEF create_if_indices, my_if_nametoindex
<1> QED BY <1>2, <1>3, <1>4, <1>5 DEF SixInv, ServesWhereItListens, Listens

LEMMA StepDetach == ASSUME NEW n \in IfName, SixInv, Detach(n) PROVE SixInv'
<1>1. /\ UNCHANGED <<six, duidFile>> /\ groups' = groups \ {ifnet[n]}
      /\ six.running => stale' \/ unseen'
      /\ missed' = IF six.running /\ DHCPv6ServerInterfaceIsEnabled(six, ifnet[n])
                     THEN missed \cup {ifnet[n]} ELSE missed
  BY ChangeIsNoted DEF Detach
<1>2. groups' = IF six'.running THEN (Range(six'.if_indices) \ {0}) \ missed' ELSE {}
  <2>1. CASE ~six.running
    BY <1>1, <2>1 DEF SixInv, ServesWhereItListens
  <2>2. CASE six.running
    <3>1. groups = (Range(six.if_indices) \ {0}) \ missed
      BY <2>2 DEF SixInv, ServesWhereItListens
    <3>2. missed' = IF ifnet[n] \in Range(six.if_indices) THEN missed \cup {ifnet[n]} ELSE missed
      BY <1>1, <2>2 DEF DHCPv6ServerInterfaceIsEnabled, IFIndexListContainsItem
    <3> QED BY <1>1, <2>2, <3>1, <3>2
  <2> QED BY <2>1, <2>2
<1> QED BY <1>1, <1>2 DEF SixInv, ServesWhereItListens

LEMMA StepOthers ==
    ASSUME SixInv, \/ Reload \/ DHCPv6ServerReceive \/ UNCHANGED sixVars
                   \/ \E n \in IfName : Attach(n)
    PROVE  SixInv'
<1>1. UNCHANGED <<six, groups, missed, duidFile>>
  BY DEF Reload, DHCPv6ServerReceive, sixVars, Attach
<1>2. (six.running => stale' \/ unseen') \/ UNCHANGED <<stale, unseen, ifnet>>
  BY ChangeIsNoted DEF Reload, DHCPv6ServerReceive, sixVars, Attach
<1> QED BY <1>1, <1>2 DEF SixInv, ServesWhereItListens, create_if_indices, my_if_nametoindex

LEMMA SixInvariance == SixSpec => []SixInv
<1>1. SixInit => SixInv
  BY DEF SixInit, SixInv, ServesWhereItListens, NoServer6
<1>2. SixInv /\ [SixNext]_sixVars => SixInv'
  BY StepCreate, StepEnableNotifications, StepRelease, StepNotification, StepSIGHUP,
     StepDetach, StepOthers DEF SixNext
<1> QED BY <1>1, <1>2, PTL DEF SixSpec

\* Whatever order interfaces come and go in, the configuration is reloaded and
\* the store tells of it, dhcp6d has joined the group on exactly the interfaces
\* of its list, except where it was refused; and it keeps its DUID.
THEOREM ServerListens == SixSpec => []ServesWhereItListens
<1>1. SixInv => ServesWhereItListens
  BY DEF SixInv
<1> QED BY <1>1, SixInvariance, PTL
-----------------------------------------------------------------------------
(* The BSDP client, for every machine, filter and answer, and every number *)
(* of requests.                                                            *)
(*                                                                         *)
(* The inductive invariant: a timer belongs to the state, an answer that   *)
(* was got has been told, and what was told is about the request.          *)

BSDPShape(c) ==
    c = [state |-> c.state, xid |-> c.xid, try |-> c.try, wait |-> c.wait, timer |-> c.timer, got |-> c.got,
         arch |-> c.arch, system_id |-> c.system_id, old_firmware |-> c.old_firmware, our_ip |-> c.our_ip,
         attrs |-> c.attrs, server |-> c.server, image |-> c.image]

\* The request is of the kind of the state, and a timer is one for it.
KindOf(c) == IF c.state = "List" THEN "list" ELSE "select"
Requesting(c) ==
    /\ BSDPShape(c) /\ c.state \in {"Init", "List", "Select"}
    /\ c.timer \in {Unset, "list", "select"}
    /\ c.timer = "list" => c.state = "List"
    /\ c.timer = "select" => c.state = "Select"

\* The caller was told about this request, in images that pass its filter.
ToldOf(c, t) ==
    /\ t.status # "none" => t.xid = c.xid /\ t.kind = KindOf(c)
    /\ \A i \in t.images : c.attrs = <<>> \/ i.attr \in Range(c.attrs)

Accounted(c, t) ==
    /\ Requesting(c) /\ ToldOf(c, t)
    /\ c.state # "Init" /\ c.timer = Unset => t.status # "none"
    /\ c.state = "List" /\ c.got => t.status # "none"

BSDPInv == bsdp = NoBSDPClient \/ Accounted(bsdp, told)

\* Every outcome of sending is told, if any is.
LEMMA SendStatusIsOne ==
    ASSUME NEW c, NEW n, NEW s \in SendStatus(c, n)
    PROVE  s # "none"
  BY DEF SendStatus

\* Before anything is told, a client only has to be one.
LEMMA NothingTold ==
    ASSUME NEW c, Requesting(c), c.timer # Unset \/ c.state = "Init", c.state = "List" => c.got = FALSE
    PROVE  Accounted(c, NoReport)
  BY DEF Accounted, ToldOf, NoReport

\* A new request, or none.
LEMMA NewRequest ==
    ASSUME NEW b, Requesting(b), NEW x, NEW i
    PROVE  LET d == [Idle(b) EXCEPT !.xid = x, !.image = i]
           IN  /\ Accounted(Idle(b), NoReport) /\ Accounted(d, NoReport)
               /\ Accounted([Begin(d, "List", "list") EXCEPT !.got = FALSE], NoReport)
               /\ Accounted(Begin(d, "Select", "select"), NoReport)
<1>1. PICK e : e = [b EXCEPT !.timer = Unset]
  OBVIOUS
<1>2. BSDPShape(e) /\ e.timer = Unset
  BY <1>1 DEF Requesting, BSDPShape
<1>3. Idle(b) = [e EXCEPT !.state = "Init"]
  BY <1>1 DEF Idle, BSDPClientCancelTimer
<1>4. PICK f : f = Idle(b)
  OBVIOUS
<1>5. BSDPShape(f) /\ f.state = "Init" /\ f.timer = Unset
  BY <1>2, <1>3, <1>4 DEF BSDPShape
<1>6. PICK d : d = [f EXCEPT !.xid = x, !.image = i]
  OBVIOUS
<1>7. BSDPShape(d) /\ d.state = "Init" /\ d.timer = Unset
  BY <1>5, <1>6 DEF BSDPShape
<1>8. PICK g : g = [d EXCEPT !.timer = "list"]
  OBVIOUS
<1>9. PICK h : h = [d EXCEPT !.timer = "select"]
  OBVIOUS
<1>10. PICK l : l = [Begin(d, "List", "list") EXCEPT !.got = FALSE]
  OBVIOUS
<1>11. BSDPShape(l) /\ l.state = "List" /\ l.timer = "list" /\ l.got = FALSE
  <2>1. BSDPShape(g) /\ g.timer = "list"
    BY <1>7, <1>8 DEF BSDPShape
  <2>2. PICK m : m = [g EXCEPT !.state = "List", !.try = 1, !.wait = INITIAL_TIMEOUT_SECS]
    OBVIOUS
  <2>3. BSDPShape(m) /\ m.timer = "list" /\ m.state = "List"
    BY <2>1, <2>2 DEF BSDPShape
  <2>4. l = [m EXCEPT !.got = FALSE]
    BY <1>8, <1>10, <2>2 DEF Begin, BSDPClientSetTimer
  <2> QED BY <2>3, <2>4 DEF BSDPShape
<1>12. PICK n : n = Begin(d, "Select", "select")
  OBVIOUS
<1>13. BSDPShape(n) /\ n.state = "Select" /\ n.timer = "select"
  <2>1. BSDPShape(h) /\ h.timer = "select"
    BY <1>7, <1>9 DEF BSDPShape
  <2>2. n = [h EXCEPT !.state = "Select", !.try = 1, !.wait = INITIAL_TIMEOUT_SECS]
    BY <1>9, <1>12 DEF Begin, BSDPClientSetTimer
  <2> QED BY <2>1, <2>2 DEF BSDPShape
<1>14. Accounted(f, NoReport) /\ Accounted(d, NoReport)
  BY <1>5, <1>7, NothingTold DEF Requesting, Unset
<1>15. Accounted(l, NoReport) /\ Accounted(n, NoReport)
  BY <1>11, <1>13, NothingTold DEF Requesting, Unset
<1> QED BY <1>4, <1>6, <1>10, <1>12, <1>14, <1>15

LEMMA StepCreateClient == BSDPInv /\ BSDPClientCreateWithInterfaceAndAttributes => BSDPInv'
<1> SUFFICES ASSUME BSDPClientCreateWithInterfaceAndAttributes PROVE BSDPInv'
  OBVIOUS
<1>1. PICK m, attrs, ip : bsdp' = NewClient(m, attrs, ip)
  BY DEF BSDPClientCreateWithInterfaceAndAttributes
<1>2. told' = NoReport
  BY DEF BSDPClientCreateWithInterfaceAndAttributes
<1>3. /\ BSDPShape(bsdp') /\ bsdp'.state = "Init" /\ bsdp'.timer = Unset
  BY <1>1 DEF NewClient, BSDPShape
<1> QED BY <1>2, <1>3 DEF BSDPInv, Accounted, Requesting, ToldOf, NoReport, Unset

LEMMA StepList == BSDPInv /\ BSDPClientList => BSDPInv'
<1> SUFFICES ASSUME BSDPInv, BSDPClientList PROVE BSDPInv'
  OBVIOUS
<1>1. Requesting(bsdp) /\ told' = NoReport
  BY DEF BSDPInv, BSDPClientList, Accounted
<1>2. CASE Invalid(bsdp)
  BY <1>1, <1>2, NewRequest DEF Invalid, BSDPInv
<1>3. CASE ~Invalid(bsdp)
  <2>1. PICK c : /\ c = [Idle(bsdp) EXCEPT !.xid = @ + 1]
                 /\ \/ bsdp' = [Begin(c, "List", "list") EXCEPT !.got = FALSE]
                    \/ bsdp' = c
    BY <1>3 DEF BSDPClientList
  <2>2. PICK x, i : x = Idle(bsdp).xid + 1 /\ i = Idle(bsdp).image
    OBVIOUS
  <2>3. c = [Idle(bsdp) EXCEPT !.xid = x, !.image = i]
    <3>1. BSDPShape(Idle(bsdp))
      BY <1>1, NewRequest DEF Accounted, Requesting
    <3> QED BY <2>1, <2>2, <3>1 DEF BSDPShape
  <2>4. Accounted(c, NoReport) /\ Accounted([Begin(c, "List", "list") EXCEPT !.got = FALSE], NoReport)
    BY <1>1, <2>3, NewRequest
  <2> QED BY <1>1, <2>1, <2>4 DEF BSDPInv
<1> QED BY <1>2, <1>3

LEMMA StepSelect == BSDPInv /\ BSDPClientSelect => BSDPInv'
<1> SUFFICES ASSUME BSDPInv, BSDPClientSelect PROVE BSDPInv'
  OBVIOUS
<1>1. Requesting(bsdp) /\ told' = NoReport
  BY DEF BSDPInv, BSDPClientSelect, Accounted
<1>2. PICK s, named :
        /\ named = [bsdp EXCEPT !.server = s]
        /\ \/ Invalid(named)
           \/ \E image, c : /\ c = [Idle(named) EXCEPT !.xid = @ + 1, !.image = image]
                            /\ bsdp' = Begin(c, "Select", "select") \/ bsdp' = c
  BY DEF BSDPClientSelect
<1>3. Requesting(named)
  BY <1>1, <1>2 DEF Requesting, BSDPShape
<1>4. CASE Invalid(named)
  BY <1>1, <1>3, <1>4, NewRequest DEF Invalid, BSDPInv
<1>5. CASE ~Invalid(named)
  <2>1. PICK image, c : /\ c = [Idle(named) EXCEPT !.xid = @ + 1, !.image = image]
                        /\ bsdp' = Begin(c, "Select", "select") \/ bsdp' = c
    BY <1>2, <1>5
  <2>2. Accounted(c, NoReport) /\ Accounted(Begin(c, "Select", "select"), NoReport)
    BY <1>3, <2>1, NewRequest
  <2> QED BY <1>1, <2>1, <2>2 DEF BSDPInv
<1> QED BY <1>4, <1>5

\* What a timer leaves of the request: all but the timer and the tries.
Same(b, c) ==
    /\ BSDPShape(c) /\ c.state = b.state /\ c.timer = Unset
    /\ c.xid = b.xid /\ c.got = b.got /\ c.attrs = b.attrs

LEMMA Expired ==
    ASSUME NEW b, Requesting(b), NEW t, NEW w
    PROVE  Same(b, Fired(b)) /\ Same(b, [Fired(b) EXCEPT !.try = t, !.wait = w])
<1>1. PICK f : f = Fired(b)
  OBVIOUS
<1>2. Same(b, f)
  BY <1>1 DEF Fired, Requesting, BSDPShape, Same
<1>3. PICK g : g = [f EXCEPT !.try = t, !.wait = w]
  OBVIOUS
<1>4. Same(b, g)
  BY <1>2, <1>3 DEF BSDPShape, Same
<1> QED BY <1>1, <1>2, <1>3, <1>4

\* After a timer the request has been told about, now or before, or has a
\* timer of its kind again.
LEMMA AfterTimer ==
    ASSUME NEW b, NEW t, Accounted(b, t), NEW c, Same(b, c), b.state # "Init"
    PROVE  /\ \A s : s # "none" =>
                Accounted(c, [status |-> s, xid |-> c.xid, kind |-> KindOf(b), images |-> {}])
           /\ b.state = "List" /\ b.got => Accounted(c, t)
           /\ Accounted(BSDPClientSetTimer(c, KindOf(b)), t)
<1>1. Requesting(c) /\ KindOf(c) = KindOf(b)
  BY DEF Accounted, Requesting, Same, KindOf, Unset
<1>2. ToldOf(c, t)
  BY <1>1 DEF Accounted, ToldOf, Same
<1>3. ASSUME NEW s, s # "none"
      PROVE  Accounted(c, [status |-> s, xid |-> c.xid, kind |-> KindOf(b), images |-> {}])
  <2>1. PICK u : u = [status |-> s, xid |-> c.xid, kind |-> KindOf(b), images |-> {}]
    OBVIOUS
  <2>2. u.status = s /\ u.xid = c.xid /\ u.kind = KindOf(b) /\ u.images = {}
    BY <2>1
  <2> QED BY <1>1, <1>3, <2>1, <2>2 DEF Accounted, ToldOf
<1>4. b.state = "List" /\ b.got => Accounted(c, t)
  BY <1>1, <1>2 DEF Accounted, Same
<1>5. Accounted(BSDPClientSetTimer(c, KindOf(b)), t)
  <2>1. PICK d : d = [c EXCEPT !.timer = KindOf(b)]
    OBVIOUS
  <2>2. /\ BSDPShape(d) /\ d.state = c.state /\ d.timer = KindOf(b) /\ d.xid = c.xid
        /\ d.got = c.got /\ d.attrs = c.attrs
    BY <2>1 DEF BSDPShape, Same
  <2>3. Requesting(d) /\ KindOf(d) = KindOf(b) /\ d.timer # Unset
    BY <1>1, <2>2 DEF Accounted, Requesting, Same, KindOf, Unset
  <2>4. ToldOf(d, t)
    BY <1>1, <1>2, <2>2, <2>3 DEF ToldOf
  <2>5. Accounted(d, t)
    BY <2>2, <2>3, <2>4 DEF Accounted, Same
  <2> QED BY <2>1, <2>5 DEF BSDPClientSetTimer
<1> QED BY <1>3, <1>4, <1>5

LEMMA StepTimeout == BSDPInv /\ (BSDPClientListTimeout \/ BSDPClientSelectTimeout) => BSDPInv'
<1> SUFFICES ASSUME BSDPInv, BSDPClientListTimeout \/ BSDPClientSelectTimeout PROVE BSDPInv'
  OBVIOUS
<1>1. Accounted(bsdp, told) /\ Requesting(bsdp)
  BY DEF BSDPInv, BSDPClientListTimeout, BSDPClientSelectTimeout, Accounted
<1>2. bsdp.state # "Init" /\ (BSDPClientListTimeout => KindOf(bsdp) = "list")
      /\ (BSDPClientSelectTimeout => KindOf(bsdp) = "select")
  BY <1>1 DEF BSDPClientListTimeout, BSDPClientSelectTimeout, Requesting, KindOf, Unset
<1>3. CASE BSDPClientListTimeout
  <2>1. CASE bsdp.try = LIST_MAX_TRIES
    <3>1. bsdp' = Fired(bsdp) /\ IF bsdp.got THEN UNCHANGED told ELSE Report(bsdp.xid, "list", "TimedOut", {})
      BY <1>3, <2>1 DEF BSDPClientListTimeout
    <3>2. Same(bsdp, bsdp')
      BY <1>1, <3>1, Expired
    <3>3. CASE bsdp.got
      <4>1. bsdp.state = "List"
        BY <1>3, <1>1 DEF BSDPClientListTimeout, Requesting
      <4> QED BY <1>1, <1>2, <3>1, <3>2, <3>3, <4>1, AfterTimer DEF BSDPInv
    <3>4. CASE ~bsdp.got
      <4>1. told' = [status |-> "TimedOut", xid |-> bsdp'.xid, kind |-> KindOf(bsdp), images |-> {}]
        BY <1>2, <1>3, <3>1, <3>2, <3>4 DEF Report, Same
      <4> QED BY <1>1, <1>2, <3>2, <4>1, AfterTimer DEF BSDPInv
    <3> QED BY <3>3, <3>4
  <2>2. CASE bsdp.try # LIST_MAX_TRIES
    <3>1. PICK c, stat :
            /\ c = [Doubled(bsdp) EXCEPT !.wait = IF @ > MAX_WAIT_SECS THEN MAX_WAIT_SECS ELSE @]
            /\ stat \in BSDPClientSendListRequest(c)
            /\ IF stat = "OK" THEN bsdp' = BSDPClientSetTimer(c, "list") /\ UNCHANGED told
               ELSE bsdp' = c /\ Report(c.xid, "list", stat, {})
      BY <1>3, <2>2 DEF BSDPClientListTimeout
    <3>2. Same(bsdp, c)
      <4>1. PICK f : f = Fired(bsdp)
        OBVIOUS
      <4>2. PICK t, w : t = f.try + 1 /\ w = IF f.wait * 2 > MAX_WAIT_SECS THEN MAX_WAIT_SECS ELSE f.wait * 2
        OBVIOUS
      <4>3. Same(bsdp, f)
        BY <1>1, <4>1, Expired
      <4>4. c = [f EXCEPT !.try = t, !.wait = w]
        <5>1. PICK e : e = [f EXCEPT !.try = @ + 1, !.wait = @ * 2]
          OBVIOUS
        <5>2. e.wait = f.wait * 2 /\ e.try = t /\ BSDPShape(e)
          BY <4>2, <4>3, <5>1 DEF Same, BSDPShape
        <5>3. c = [e EXCEPT !.wait = w]
          BY <3>1, <4>1, <4>2, <5>1, <5>2 DEF Doubled
        <5> QED BY <4>2, <4>3, <5>1, <5>3 DEF Same, BSDPShape
      <4> QED BY <1>1, <4>1, <4>4, Expired
    <3>3. stat # "none"
      BY <3>1, SendStatusIsOne DEF BSDPClientSendListRequest
    <3>4. CASE stat = "OK"
      BY <1>1, <1>2, <1>3, <3>1, <3>2, <3>4, AfterTimer DEF BSDPInv
    <3>5. CASE stat # "OK"
      <4>1. told' = [status |-> stat, xid |-> c.xid, kind |-> KindOf(bsdp), images |-> {}]
        BY <1>2, <1>3, <3>1, <3>5 DEF Report
      <4> QED BY <1>1, <1>2, <3>1, <3>2, <3>3, <3>5, <4>1, AfterTimer DEF BSDPInv
    <3> QED BY <3>4, <3>5
  <2> QED BY <2>1, <2>2
<1>4. CASE BSDPClientSelectTimeout
  <2>1. CASE bsdp.try = SELECT_MAX_TRIES
    <3>1. bsdp' = Fired(bsdp) /\ Report(bsdp.xid, "select", "TimedOut", {})
      BY <1>4, <2>1 DEF BSDPClientSelectTimeout
    <3>2. Same(bsdp, bsdp')
      BY <1>1, <3>1, Expired
    <3>3. told' = [status |-> "TimedOut", xid |-> bsdp'.xid, kind |-> KindOf(bsdp), images |-> {}]
      BY <1>2, <1>4, <3>1, <3>2 DEF Report, Same
    <3> QED BY <1>1, <1>2, <3>2, <3>3, AfterTimer DEF BSDPInv
  <2>2. CASE bsdp.try # SELECT_MAX_TRIES
    <3>1. PICK c, stat :
            /\ c = Doubled(bsdp)
            /\ stat \in BSDPClientSendSelectRequest(c)
            /\ IF stat = "OK" THEN bsdp' = BSDPClientSetTimer(c, "select") /\ UNCHANGED told
               ELSE bsdp' = c /\ Report(c.xid, "select", stat, {})
      BY <1>4, <2>2 DEF BSDPClientSelectTimeout
    <3>2. Same(bsdp, c)
      <4>1. PICK f : f = Fired(bsdp)
        OBVIOUS
      <4>2. PICK t, w : t = f.try + 1 /\ w = f.wait * 2
        OBVIOUS
      <4>3. c = [f EXCEPT !.try = t, !.wait = w]
        BY <3>1, <4>1, <4>2 DEF Doubled
      <4> QED BY <1>1, <4>1, <4>3, Expired
    <3>3. stat # "none"
      BY <3>1, SendStatusIsOne DEF BSDPClientSendSelectRequest
    <3>4. CASE stat = "OK"
      BY <1>1, <1>2, <1>4, <3>1, <3>2, <3>4, AfterTimer DEF BSDPInv
    <3>5. CASE stat # "OK"
      <4>1. told' = [status |-> stat, xid |-> c.xid, kind |-> KindOf(bsdp), images |-> {}]
        BY <1>2, <1>4, <3>1, <3>5 DEF Report
      <4> QED BY <1>1, <1>2, <3>1, <3>2, <3>3, <3>5, <4>1, AfterTimer DEF BSDPInv
    <3> QED BY <3>4, <3>5
  <2> QED BY <2>1, <2>2
<1> QED BY <1>3, <1>4

\* The images of a list that are shown pass the filter of the client.
LEMMA ShownPass ==
    ASSUME NEW c, NEW list, NEW image \in BSDPClientCreateImageList(c, list)
    PROVE  c.attrs = <<>> \/ image.attr \in Range(c.attrs)
  BY DEF BSDPClientCreateImageList, Shown, attributes_match

LEMMA StepAnswer == BSDPInv /\ BSDPClientProcess => BSDPInv'
<1> SUFFICES ASSUME BSDPInv, BSDPClientProcess PROVE BSDPInv'
  OBVIOUS
<1>1. Accounted(bsdp, told) /\ Requesting(bsdp)
  BY DEF BSDPInv, BSDPClientProcess, Accounted
<1>2. PICK p : IF bsdp.state = "List" /\ Accepts(bsdp, p) /\ p.kind = "list" THEN BSDPClientProcessList(p)
               ELSE IF bsdp.state = "Select" /\ Accepts(bsdp, p) /\ p.kind \in {"select", "failed"}
                 THEN BSDPClientProcessSelect(p)
               ELSE UNCHANGED <<bsdp, told>>
  BY DEF BSDPClientProcess
<1>3. CASE UNCHANGED <<bsdp, told>>
  BY <1>1, <1>3 DEF BSDPInv
<1>4. CASE bsdp.state = "List" /\ p.xid = bsdp.xid /\ BSDPClientProcessList(p) /\ ~UNCHANGED <<bsdp, told>>
  <2>1. PICK list : list = BSDPClientCreateImageList(bsdp, p.list)
    OBVIOUS
  <2>2. bsdp' = [bsdp EXCEPT !.got = TRUE] /\ Report(p.xid, "list", "OK", list)
    BY <1>4, <2>1 DEF BSDPClientProcessList
  <2>3. /\ BSDPShape(bsdp') /\ bsdp'.state = bsdp.state /\ bsdp'.timer = bsdp.timer /\ bsdp'.xid = bsdp.xid
        /\ bsdp'.attrs = bsdp.attrs
    BY <1>1, <2>2 DEF Requesting, BSDPShape
  <2>4. told'.status = "OK" /\ told'.xid = p.xid /\ told'.kind = "list" /\ told'.images = list
    BY <2>2 DEF Report
  <2>5. ToldOf(bsdp', told')
    BY <1>4, <2>1, <2>3, <2>4, ShownPass DEF ToldOf, KindOf
  <2>6. Requesting(bsdp')
    BY <1>1, <2>3 DEF Requesting
  <2> QED BY <2>4, <2>5, <2>6 DEF BSDPInv, Accounted
<1>5. CASE bsdp.state = "Select" /\ p.xid = bsdp.xid /\ BSDPClientProcessSelect(p)
  <2>1. bsdp' = [bsdp EXCEPT !.timer = Unset]
    BY <1>5 DEF BSDPClientProcessSelect, BSDPClientCancelTimer
  <2>2. /\ BSDPShape(bsdp') /\ bsdp'.state = bsdp.state /\ bsdp'.timer = Unset /\ bsdp'.xid = bsdp.xid
    BY <1>1, <2>1 DEF Requesting, BSDPShape
  <2>3. told'.status # "none" /\ told'.xid = p.xid /\ told'.kind = "select" /\ told'.images = {}
    BY <1>5 DEF BSDPClientProcessSelect, Report
  <2>4. Requesting(bsdp')
    BY <1>1, <1>5, <2>2 DEF Requesting, Unset
  <2>5. ToldOf(bsdp', told')
    BY <1>5, <2>2, <2>3 DEF ToldOf, KindOf
  <2> QED BY <2>3, <2>4, <2>5 DEF BSDPInv, Accounted
<1> QED BY <1>2, <1>3, <1>4, <1>5 DEF Accepts

LEMMA StepElsewhere ==
    BSDPInv /\ (BSDPClientFree \/ BSDPServerAnswers \/ Lost \/ UNCHANGED bsdpVars) => BSDPInv'
  BY DEF BSDPInv, BSDPClientFree, BSDPServerAnswers, Lost, bsdpVars

LEMMA BSDPInvariance == BSDPSpec => []BSDPInv
<1>1. BSDPInit => BSDPInv
  BY DEF BSDPInit, BSDPInv
<1>2. BSDPInv /\ [BSDPNext]_bsdpVars => BSDPInv'
  BY StepCreateClient, StepList, StepSelect, StepTimeout, StepAnswer, StepElsewhere DEF BSDPNext
<1> QED BY <1>1, <1>2, PTL DEF BSDPSpec

\* Whatever packets are lost, late, repeated or spoilt, and however the caller
\* mixes its calls, a request that was sent has a timer or its end has been
\* told, what was told is about the current request, and the images shown pass
\* the filter (BSDPClientProcess, the timeouts).
THEOREM BSDPRequestsAnswered == BSDPSpec => []RequestsAreAnswered
<1>1. BSDPInv => RequestsAreAnswered
  BY DEF BSDPInv, RequestsAreAnswered, Accounted, Requesting, ToldOf, KindOf
<1> QED BY <1>1, BSDPInvariance, PTL

-----------------------------------------------------------------------------
(* bootpd, for every configuration, packet, and change of an address.      *)
(*                                                                         *)
(* The inductive invariant: the interfaces that are listed as having DHCP  *)
(* turned off are those with the flag and those where a server was seen;   *)
(* nothing is listed that publishing does not know of; and a configuration *)
(* that is not old was made for the addresses the host has.                *)

DaemonFields == DOMAIN Started
DaemonShape(d) ==
    /\ d = [x \in DaemonFields |-> d[x]]
    /\ d.ifs = [i \in Interface |-> [addr |-> d.ifs[i].addr, flags |-> d.ifs[i].flags]]

Unflagged(d) == \A i \in Interface : d.ifs[i].addr = sys.addr[i] /\ d.ifs[i].flags = {}

LEMMA FieldsOfDaemon ==
    /\ "sighup" \in DaemonFields /\ "which" \in DaemonFields /\ "ifs" \in DaemonFields
    /\ "relays" \in DaemonFields /\ "allow" \in DaemonFields /\ "deny" \in DaemonFields
    /\ "threshold" \in DaemonFields /\ "use_od" \in DaemonFields /\ "own_options" \in DaemonFields
    /\ "ipv6_wait" \in DaemonFields /\ "subnets" \in DaemonFields /\ "listed" \in DaemonFields
    /\ "default" \in DaemonFields /\ "link" \in DaemonFields /\ "dns" \in DaemonFields
    /\ "hosts" \in DaemonFields /\ "modtime" \in DaemonFields /\ "port" \in DaemonFields
    /\ "procs" \in DaemonFields /\ "last_publish" \in DaemonFields /\ "published" \in DaemonFields
  BY DEF DaemonFields, Started

Published(d, s) ==
    /\ d.published = s /\ s = S_copy_disabled_interfaces(d)
    /\ d.last_publish \in BOOLEAN /\ (d.last_publish = FALSE => s = {})

\* What the host is to the process: its addresses, and the relays elsewhere.
Current(d) ==
    /\ \A i \in Interface : d.ifs[i].addr = sys.addr[i]
    /\ d.listed => \A i \in Interface : sys.addr[i] \notin d.relays

Configured(d) == d.sighup = FALSE /\ Current(d)

BootpdInv ==
    /\ DaemonShape(daemon) /\ Published(daemon, seen)
    /\ daemon.sighup \/ Configured(daemon)
    /\ YieldsToOtherServer /\ RelaysElsewhere

LEMMA FlagsReplaced ==
    ASSUME NEW a, NEW g, a = [addr |-> a.addr, flags |-> a.flags]
    PROVE  [a EXCEPT !.flags = g] = [addr |-> a.addr, flags |-> g]
  OBVIOUS

LEMMA StartedIsPublished == DaemonShape(Started) /\ Published(Started, {}) /\ Started.sighup
  BY DEF DaemonShape, DaemonFields, Published, Started, S_copy_disabled_interfaces

\* A step that says nothing about a packet.
LEMMA SilentIsRight ==
    out' = Silent => YieldsToOtherServer' /\ RelaysElsewhere'
  BY DEF Silent, YieldsToOtherServer, RelaysElsewhere

\* The tables and the routes are read beside the interfaces.
LEMMA ReadsTables ==
    ASSUME NEW d, DaemonShape(d), NEW s, Published(d, s)
    PROVE  LET e == S_get_network_routes(S_get_interfaces(bootp_readtab(d)))
           IN  /\ DaemonShape(e) /\ e.published = s /\ e.last_publish = d.last_publish
               /\ Unflagged(e)
<1> DEFINE e1 == bootp_readtab(d)
           e2 == S_get_interfaces(e1)
           e3 == S_get_network_routes(e2)
<1>1. DaemonShape(e1) /\ e1.published = s /\ e1.last_publish = d.last_publish
  BY FieldsOfDaemon DEF DaemonShape, Published, bootp_readtab
<1>2. /\ DaemonShape(e2) /\ e2.published = s /\ e2.last_publish = d.last_publish
      /\ Unflagged(e2)
  <2> HIDE DEF e1
  <2> QED BY <1>1, FieldsOfDaemon DEF DaemonShape, Unflagged, S_get_interfaces
<1>3. /\ DaemonShape(e3) /\ e3.published = s /\ e3.last_publish = d.last_publish
      /\ Unflagged(e3)
  <2> HIDE DEF e2
  <2> QED BY <1>2, FieldsOfDaemon DEF DaemonShape, Unflagged, S_get_network_routes
<1> QED BY <1>3

\* The new interfaces carry no flag, and nothing is listed any more.
LEMMA Unlists ==
    ASSUME NEW e, DaemonShape(e),
           e.last_publish \in BOOLEAN, e.last_publish = FALSE => e.published = {},
           Unflagged(e)
    PROVE  LET f == S_publish_disabled_interfaces(e, FALSE)
           IN  DaemonShape(f) /\ f.published = {} /\ f.ifs = e.ifs /\ f.last_publish = FALSE
<1>1. CASE e.last_publish = FALSE
  BY <1>1 DEF S_publish_disabled_interfaces
<1>2. CASE e.last_publish = TRUE
  <2>1. S_publish_disabled_interfaces(e, FALSE) = [e EXCEPT !.last_publish = FALSE, !.published = {}]
    BY <1>2 DEF S_publish_disabled_interfaces
  <2> QED BY <2>1, FieldsOfDaemon DEF DaemonShape
<1> QED BY <1>1, <1>2

\* The configuration sets no flag that turns DHCP off, and takes the relays
\* that are no addresses of the interfaces.
LEMMA Configures ==
    ASSUME NEW f, DaemonShape(f), f.published = {}, f.last_publish = FALSE, NEW plist,
           Unflagged(f)
    PROVE  LET g == S_update_services(f, plist)
           IN  DaemonShape(g) /\ Published(g, {}) /\ Current(g)
<1> DEFINE f1 == [f EXCEPT !.which = {}]
           d1 == S_service_enable(f1, plist.prop, Property)
           d2 == IF plist.relays.kind = "array" THEN S_update_relay_ip_list(d1, plist.relays.list) ELSE d1
           d3 == [S_refresh_allow_deny(d2, plist) EXCEPT
                    !.threshold = set_number_from_plist(plist.threshold, 0),
                    !.use_od = S_get_plist_boolean(plist.use_od, FALSE),
                    !.own_options = S_get_plist_boolean(plist.own_options, TRUE),
                    !.ipv6_wait = S_get_plist_uint32(plist.ipv6_wait, 0),
                    !.listed = plist.relays.kind = "array",
                    !.subnets = plist.subnets]
           Right(d) == /\ DaemonShape(d) /\ d.published = {} /\ d.last_publish = FALSE
                       /\ \A i \in Interface : /\ d.ifs[i].addr = sys.addr[i]
                                               /\ "dhcp_disabled" \notin d.ifs[i].flags
<1>1. Right(f1) /\ f1.ifs = f.ifs
  <2>1. DaemonShape(f1) /\ f1.ifs = f.ifs /\ f1.published = {} /\ f1.last_publish = FALSE
    BY FieldsOfDaemon DEF DaemonShape
  <2> HIDE DEF f1
  <2> QED BY <2>1 DEF Unflagged
<1>2. Right(d1)
  <2> DEFINE which == f1.which \cup {s \in Property : Everywhere(plist.prop[s])}
             named(i) == {s \in Property : Names(plist.prop[s], i)}
             ifs == [i \in Interface |-> [f1.ifs[i] EXCEPT !.flags = @ \cup named(i)]]
  <2> HIDE DEF f1
  <2>1. d1 = [f1 EXCEPT !.which = which, !.ifs = ifs]
    BY DEF S_service_enable
  <2>2. \A i \in Interface : f1.ifs[i].addr = sys.addr[i] /\ f1.ifs[i].flags = {}
    BY <1>1 DEF Unflagged
  <2>3. ifs = [i \in Interface |-> [addr |-> sys.addr[i], flags |-> named(i)]]
    <3>1. ASSUME NEW i \in Interface
          PROVE  [f1.ifs[i] EXCEPT !.flags = @ \cup named(i)] = [addr |-> sys.addr[i], flags |-> named(i)]
      <4> HIDE DEF named
      <4>1. f1.ifs[i].flags \cup named(i) = named(i)
        BY <2>2
      <4>2. f1.ifs[i] = [addr |-> f1.ifs[i].addr, flags |-> f1.ifs[i].flags]
        BY <1>1 DEF DaemonShape
      <4>3. [f1.ifs[i] EXCEPT !.flags = named(i)] = [addr |-> f1.ifs[i].addr, flags |-> named(i)]
        BY <4>2, FlagsReplaced
      <4> QED BY <2>2, <4>1, <4>3
    <3> HIDE DEF named
    <3> QED BY <3>1
  <2>4. \A i \in Interface : "dhcp_disabled" \notin named(i)
    BY DEF Property, Service, NetBootService
  <2> HIDE DEF which, ifs, named
  <2>5. DaemonShape(d1) /\ d1.published = {} /\ d1.last_publish = FALSE /\ d1.ifs = ifs
    <3> HIDE DEF d1
    <3>1. ifs = [i \in Interface |-> [addr |-> ifs[i].addr, flags |-> ifs[i].flags]]
      BY <2>3
    <3> QED BY <1>1, <2>1, <3>1, FieldsOfDaemon DEF DaemonShape
  <2> HIDE DEF d1
  <2> QED BY <2>3, <2>4, <2>5
<1>3. Right(d2) /\ (plist.relays.kind = "array" => \A i \in Interface : sys.addr[i] \notin d2.relays)
  <2> HIDE DEF d1
  <2> QED BY <1>2, FieldsOfDaemon DEF DaemonShape, S_update_relay_ip_list, ifl_find_ip
<1>4. Right(d3) /\ (d3.listed => \A i \in Interface : sys.addr[i] \notin d3.relays)
  <2> HIDE DEF d2
  <2> QED BY <1>3, FieldsOfDaemon DEF DaemonShape, S_refresh_allow_deny
<1>5. DaemonShape(d3) /\ Published(d3, {}) /\ Current(d3)
  BY <1>4 DEF Published, Current, S_copy_disabled_interfaces
<1>6. LET g == S_disable_netboot(d3) IN DaemonShape(g) /\ Published(g, {}) /\ Current(g)
  <2> DEFINE g == S_disable_netboot(d3)
             which == d3.which \ NetBootService
             ifs == [i \in Interface |-> [d3.ifs[i] EXCEPT !.flags = @ \ NetBootService]]
  <2> HIDE DEF d3
  <2>1. g = [d3 EXCEPT !.which = which, !.ifs = ifs]
    BY FieldsOfDaemon DEF S_disable_netboot, S_service_disable, DaemonShape
  <2>2. ifs = [i \in Interface |-> [addr |-> d3.ifs[i].addr, flags |-> d3.ifs[i].flags \ NetBootService]]
    <3>1. ASSUME NEW i \in Interface
          PROVE  [d3.ifs[i] EXCEPT !.flags = @ \ NetBootService]
                    = [addr |-> d3.ifs[i].addr, flags |-> d3.ifs[i].flags \ NetBootService]
      <4>1. d3.ifs[i] = [addr |-> d3.ifs[i].addr, flags |-> d3.ifs[i].flags]
        BY <1>4 DEF DaemonShape
      <4> QED BY <4>1, FlagsReplaced
    <3> QED BY <3>1
  <2> HIDE DEF which, ifs, g
  <2>3. /\ DaemonShape(g) /\ g.published = {} /\ g.last_publish = FALSE /\ g.ifs = ifs
        /\ g.listed = d3.listed /\ g.relays = d3.relays
    <3>1. ifs = [i \in Interface |-> [addr |-> ifs[i].addr, flags |-> ifs[i].flags]]
      BY <2>2
    <3> QED BY <1>4, <2>1, <3>1, FieldsOfDaemon DEF DaemonShape
  <2>4. \A i \in Interface : g.ifs[i].addr = sys.addr[i] /\ "dhcp_disabled" \notin g.ifs[i].flags
    BY <1>4, <2>2, <2>3
  <2>5. DaemonShape(g) /\ Published(g, {}) /\ Current(g)
    BY <1>4, <2>3, <2>4 DEF Published, Current, S_copy_disabled_interfaces
  <2> QED BY <2>5 DEF g
<1>7. S_update_services(f, plist) = d3 \/ S_update_services(f, plist) = S_disable_netboot(d3)
  BY DEF S_update_services
<1> HIDE DEF d3
<1> QED BY <1>5, <1>6, <1>7

LEMMA RefreshIsCurrent ==
    ASSUME NEW d, DaemonShape(d), NEW s, Published(d, s)
    PROVE  DaemonShape(Refresh(d)) /\ Published(Refresh(d), {}) /\ Configured(Refresh(d))
<1> DEFINE e == S_get_network_routes(S_get_interfaces(bootp_readtab(d)))
           f == S_publish_disabled_interfaces(e, FALSE)
           g == S_update_services(f, sys.plist)
           h == S_get_dns(g)
<1>1. /\ DaemonShape(e) /\ e.published = s /\ e.last_publish = d.last_publish
      /\ Unflagged(e)
  BY ReadsTables
<1>2. DaemonShape(f) /\ f.published = {} /\ f.ifs = e.ifs /\ f.last_publish = FALSE
  <2> HIDE DEF e
  <2> QED BY <1>1, Unlists DEF Published
<1>3. DaemonShape(g) /\ Published(g, {}) /\ Current(g)
  <2> HIDE DEF e, f
  <2>1. Unflagged(f)
    BY <1>1, <1>2 DEF Unflagged
  <2> QED BY <1>2, <2>1, Configures
<1>4. DaemonShape(h) /\ Published(h, {}) /\ Current(h)
  <2> HIDE DEF g
  <2> QED BY <1>3, FieldsOfDaemon DEF DaemonShape, Published, Current, S_copy_disabled_interfaces, S_get_dns
<1>5. Refresh(d) = [h EXCEPT !.sighup = FALSE]
  BY DEF Refresh
<1> HIDE DEF h
<1> QED BY <1>4, <1>5, FieldsOfDaemon DEF DaemonShape, Published, Current, Configured, S_copy_disabled_interfaces

\* The lookups of a BOOTP request change the connection to the directory only.
LEMMA LooksUp ==
    ASSUME NEW d, DaemonShape(d), NEW s, Published(d, s), Configured(d), NEW p, NEW r
    PROVE  LET e == bootp_request(d, p, r).d
           IN  /\ DaemonShape(e) /\ Published(e, s) /\ Configured(e)
               /\ e.relays = d.relays /\ e.listed = d.listed /\ e.ifs = d.ifs /\ e.threshold = d.threshold
<1> DEFINE Unmoved(e) == /\ DaemonShape(e) /\ e.published = d.published /\ e.last_publish = d.last_publish
                      /\ e.sighup = d.sighup
                      /\ e.relays = d.relays /\ e.listed = d.listed /\ e.ifs = d.ifs /\ e.threshold = d.threshold
<1>1. Unmoved(d)
  OBVIOUS
<1>2. ASSUME NEW proc PROVE Unmoved(dolookup(d, proc).d)
  <2>1. CASE ~sys.od
    BY <2>1, <1>1, FieldsOfDaemon DEF dolookup, DaemonShape
  <2>2. CASE sys.od
    <3> DEFINE live == IF d.port = "live" THEN d ELSE [d EXCEPT !.port = "live", !.procs = {}]
    <3>1. Unmoved(live)
      BY <1>1, FieldsOfDaemon DEF DaemonShape
    <3>2. dolookup(d, proc).d = [live EXCEPT !.procs = @ \cup {proc}]
      BY <2>2 DEF dolookup
    <3> HIDE DEF live
    <3> QED BY <3>1, <3>2, FieldsOfDaemon DEF DaemonShape
  <2> QED BY <2>1, <2>2
<1>3. Unmoved(getbootpbyhw(d).d) /\ Unmoved(getbootpbyaddr(d).d)
  BY <1>2 DEF getbootpbyhw, getbootpbyaddr
<1>4. Unmoved(bootp_request(d, p, r).d)
  <2>1. bootp_request(d, p, r).d \in {d, getbootpbyhw(d).d, getbootpbyaddr(d).d}
    BY DEF bootp_request
  <2> HIDE DEF Unmoved
  <2> QED BY <1>1, <1>3, <2>1
<1> QED BY <1>4 DEF Published, Configured, Current, S_copy_disabled_interfaces

\* Turning DHCP off on an interface lists it.
LEMMA TurnsOff ==
    ASSUME NEW d, DaemonShape(d), NEW s, Published(d, s), Configured(d), NEW i \in Interface
    PROVE  LET e == disable_dhcp_on_interface(d, i)
           IN  /\ DaemonShape(e) /\ Published(e, s \cup {i}) /\ Configured(e)
               /\ e.relays = d.relays /\ e.listed = d.listed /\ e.threshold = d.threshold
<1> DEFINE c == [d EXCEPT !.ifs[i].flags = (@ \ {"dhcp"}) \cup {"dhcp_disabled"}]
           e == S_publish_disabled_interfaces(c, TRUE)
<1>1. /\ DaemonShape(c) /\ Configured(c) /\ c.relays = d.relays /\ c.listed = d.listed /\ c.threshold = d.threshold
      /\ S_copy_disabled_interfaces(c) = s \cup {i}
  <2>1. /\ DaemonShape(c) /\ c.relays = d.relays /\ c.listed = d.listed /\ c.threshold = d.threshold
        /\ c.sighup = d.sighup
        /\ \A j \in Interface : /\ c.ifs[j].addr = d.ifs[j].addr
                                /\ j # i => c.ifs[j].flags = d.ifs[j].flags
        /\ "dhcp_disabled" \in c.ifs[i].flags
    <3> DEFINE ifs == [d.ifs EXCEPT ![i].flags = (@ \ {"dhcp"}) \cup {"dhcp_disabled"}]
    <3>1. c = [d EXCEPT !.ifs = ifs]
      OBVIOUS
    <3>2. ifs = [j \in Interface |-> [addr |-> d.ifs[j].addr,
                    flags |-> IF j = i THEN (d.ifs[j].flags \ {"dhcp"}) \cup {"dhcp_disabled"} ELSE d.ifs[j].flags]]
      <4>1. d.ifs[i] = [addr |-> d.ifs[i].addr, flags |-> d.ifs[i].flags]
        BY DEF DaemonShape
      <4>2. [d.ifs[i] EXCEPT !.flags = (@ \ {"dhcp"}) \cup {"dhcp_disabled"}]
                = [addr |-> d.ifs[i].addr, flags |-> (d.ifs[i].flags \ {"dhcp"}) \cup {"dhcp_disabled"}]
        BY <4>1, FlagsReplaced
      <4> QED BY <4>2 DEF DaemonShape
    <3> HIDE DEF ifs, c
    <3>3. /\ DaemonShape(c) /\ c.relays = d.relays /\ c.listed = d.listed /\ c.threshold = d.threshold
          /\ c.sighup = d.sighup /\ c.ifs = ifs
      BY <3>1, <3>2, FieldsOfDaemon DEF DaemonShape
    <3> QED BY <3>2, <3>3
  <2> HIDE DEF c
  <2> QED BY <2>1 DEF Configured, Current, Published, S_copy_disabled_interfaces
<1>2. e = [c EXCEPT !.last_publish = TRUE, !.published = S_copy_disabled_interfaces(c)]
  BY DEF S_publish_disabled_interfaces
<1>3. disable_dhcp_on_interface(d, i) = e
  BY DEF disable_dhcp_on_interface
<1> HIDE DEF c
<1>4. /\ DaemonShape(e) /\ e.ifs = c.ifs /\ e.published = s \cup {i} /\ e.last_publish = TRUE
      /\ e.relays = c.relays /\ e.listed = c.listed /\ e.threshold = c.threshold /\ e.sighup = c.sighup
  BY <1>1, <1>2, FieldsOfDaemon DEF DaemonShape
<1> HIDE DEF e
<1>5. S_copy_disabled_interfaces(e) = S_copy_disabled_interfaces(c)
  BY <1>4 DEF S_copy_disabled_interfaces
<1>6. Published(e, s \cup {i})
  BY <1>1, <1>4, <1>5 DEF Published
<1>7. Configured(e)
  BY <1>1, <1>4 DEF Configured, Current
<1> QED BY <1>1, <1>3, <1>4, <1>6, <1>7

\* What a request that is relayed, and a reply, says of the relays.
LEMMA RelaysToRelays ==
    ASSUME NEW d, NEW p \in Packet, NEW q \in S_relay_packet(d, p)
    PROVE  q.to = "client" \/ (q.to \in d.relays /\ q.hops <= MaxHops)
<1>1. CASE p.op = "request" /\ p.hops < MaxHops /\ p.secs >= d.threshold
  <2>1. PICK ip \in d.relays : q.to = ip /\ q.hops = p.hops + 1
    <3> DEFINE others == {ip \in d.relays : ip # Broadcast[NetOf[d.ifs[p.in].addr]]}
    <3>1. PICK ip \in others : q.to = ip /\ q.hops = p.hops + 1
      BY <1>1 DEF S_relay_packet
    <3> QED BY <3>1
  <2> QED BY <1>1, <2>1, BootpdAssumption
<1>2. CASE ~(p.op = "request" /\ p.hops < MaxHops /\ p.secs >= d.threshold)
  <2>1. q.to = "client"
    BY <1>2 DEF S_relay_packet
  <2> QED BY <2>1
<1> QED BY <1>1, <1>2

\* A packet that reaches the handlers, with the configuration that is in force.
LEMMA Dispatches ==
    ASSUME NEW d, DaemonShape(d), NEW s, Published(d, s), Configured(d),
           NEW p \in Packet, NEW r, S_which_interface(d, p.in), UNCHANGED sys,
           Becomes(S_dispatch_request(d, p, r)),
           seen' = IF Detected(d, p) THEN s \cup {p.in} ELSE s
    PROVE  BootpdInv'
<1> DEFINE b == IF "bootp" \in Handlers(d, p) THEN bootp_request(d, p, r) ELSE [d |-> d, ip |-> NoAddr]
           after == IF Detected(d, p) THEN disable_dhcp_on_interface(b.d, p.in) ELSE b.d
<1>1. p.in \in Interface
  BY BootpdAssumption
<1>2. DaemonShape(b.d) /\ Published(b.d, s) /\ Configured(b.d)
  <2>1. CASE "bootp" \in Handlers(d, p)
    BY <2>1, LooksUp
  <2>2. CASE "bootp" \notin Handlers(d, p)
    BY <2>2
  <2> QED BY <2>1, <2>2
<1>3. DaemonShape(after) /\ Published(after, seen') /\ Configured(after)
  <2> HIDE DEF b
  <2>1. CASE Detected(d, p)
    BY <1>1, <1>2, <2>1, TurnsOff
  <2>2. CASE ~Detected(d, p)
    BY <1>2, <2>2
  <2> QED BY <2>1, <2>2
<1>4. daemon' = after /\ out' = Dispatched(d, p, b.ip, after).out
  BY DEF Becomes, S_dispatch_request, AfterBOOTP, Dispatched
<1> HIDE DEF b, after
<1>5. /\ out'.via = p.in
      /\ out'.handlers = IF dhcp_enabled(d, p.in) /\ ~Detected(d, p) THEN Handlers(d, p) ELSE Handlers(d, p) \ {"dhcp"}
      /\ \A q \in out'.relayed : q \in S_relay_packet(after, p)
  BY <1>4 DEF Dispatched
<1>6. YieldsToOtherServer'
  <2>1. CASE Detected(d, p)
    BY <1>5, <2>1 DEF YieldsToOtherServer
  <2>2. CASE ~Detected(d, p)
    <3>1. p.in \notin s
      BY <1>1 DEF S_which_interface, is_service_enabled, Published, S_copy_disabled_interfaces
    <3> QED BY <1>5, <2>2, <3>1 DEF YieldsToOtherServer
  <2> QED BY <2>1, <2>2
<1>7. RelaysElsewhere'
  <2> SUFFICES ASSUME NEW q \in out'.relayed, q.to # "client"
               PROVE  /\ q.hops <= MaxHops
                      /\ daemon'.listed /\ ~daemon'.sighup => \A i \in Interface : q.to # sys'.addr[i]
    BY DEF RelaysElsewhere
  <2>1. q.to \in after.relays /\ q.hops <= MaxHops
    BY <1>5, RelaysToRelays
  <2> QED BY <1>3, <1>4, <2>1 DEF Configured, Current
<1>8. Configured(daemon)'
  BY <1>3, <1>4 DEF Configured, Current
<1> QED BY <1>3, <1>4, <1>6, <1>7, <1>8 DEF BootpdInv, Published, S_copy_disabled_interfaces

LEMMA Takes ==
    ASSUME NEW d, DaemonShape(d), NEW s, Published(d, s), Configured(d),
           NEW p \in Packet, NEW r, UNCHANGED sys, Take(d, s, p, r)
    PROVE  BootpdInv'
<1>1. CASE p.full /\ S_which_interface(d, p.in) /\ S_ok_to_respond(d, p)
  BY <1>1, Dispatches DEF Take
<1>2. CASE ~(p.full /\ S_which_interface(d, p.in) /\ S_ok_to_respond(d, p))
  <2>1. daemon' = d /\ seen' = s /\ out' = Silent
    BY <1>2 DEF Take
  <2>2. DaemonShape(daemon)' /\ Published(daemon, seen)'
    BY <2>1 DEF Published, S_copy_disabled_interfaces
  <2>3. Configured(daemon)'
    BY <2>1 DEF Configured, Current
  <2> QED BY <2>1, <2>2, <2>3, SilentIsRight DEF BootpdInv
<1> QED BY <1>1, <1>2

LEMMA StepStarted ==
    daemon' = Started /\ seen' = {} /\ out' = Silent => BootpdInv'
  BY StartedIsPublished, SilentIsRight DEF BootpdInv

LEMMA StepReceive ==
    ASSUME BootpdInv, NEW p \in Packet, NEW r, S_receive_packet(p, r)
    PROVE  BootpdInv'
<1>1. CASE ~daemon.sighup
  <2>1. Configured(daemon)
    BY <1>1 DEF BootpdInv
  <2> QED BY <1>1, <2>1, Takes DEF BootpdInv, S_receive_packet
<1>2. CASE daemon.sighup /\ S_log_interfaces(S_get_interfaces(daemon))
  <2>1. Take(Refresh(daemon), {}, p, r) /\ UNCHANGED sys
    BY <1>2 DEF S_receive_packet
  <2>2. DaemonShape(Refresh(daemon)) /\ Published(Refresh(daemon), {}) /\ Configured(Refresh(daemon))
    BY RefreshIsCurrent DEF BootpdInv
  <2> QED BY <2>1, <2>2, Takes
<1>3. CASE daemon.sighup /\ ~S_log_interfaces(S_get_interfaces(daemon))
  BY <1>3, StepStarted DEF S_receive_packet
<1> QED BY <1>1, <1>2, <1>3

\* Making the configuration old keeps what is listed.
LEMMA Signals ==
    ASSUME BootpdInv, daemon' = [daemon EXCEPT !.sighup = TRUE], UNCHANGED seen, out' = Silent
    PROVE  BootpdInv'
<1>1. /\ DaemonShape(daemon') /\ daemon'.sighup /\ daemon'.ifs = daemon.ifs
      /\ daemon'.published = daemon.published /\ daemon'.last_publish = daemon.last_publish
  BY FieldsOfDaemon DEF BootpdInv, DaemonShape
<1> QED BY <1>1, SilentIsRight DEF BootpdInv, Published, S_copy_disabled_interfaces

LEMMA StepSignal ==
    ASSUME BootpdInv,
           install_sighup_handler \/ \E i \in Interface, a \in Addr \cup {NoAddr} : S_ipv4_address_changed(i, a)
    PROVE  BootpdInv'
  BY Signals DEF install_sighup_handler, S_ipv4_address_changed

LEMMA StepExit == idle_exit => BootpdInv'
  BY StepStarted DEF idle_exit

\* What stands outside of the process.
HostShape ==
    sys = [addr |-> sys.addr, plist |-> sys.plist, tab |-> sys.tab, mtime |-> sys.mtime,
           od |-> sys.od, dns |-> sys.dns, route |-> sys.route]

LEMMA HostStep == HostShape /\ [BootpdNext]_bootpdVars => HostShape'
<1> SUFFICES ASSUME HostShape, [BootpdNext]_bootpdVars PROVE HostShape'
  OBVIOUS
<1>1. CASE UNCHANGED sys
  BY <1>1 DEF HostShape
<1>2. ASSUME NEW i \in Interface, NEW a \in Addr \cup {NoAddr}, S_ipv4_address_changed(i, a) PROVE HostShape'
  BY <1>2 DEF HostShape, S_ipv4_address_changed
<1>3. ASSUME NEW p \in Plist, EditPlist(p) PROVE HostShape'
  BY <1>3 DEF HostShape, EditPlist
<1>4. ASSUME NEW t \in Tab, EditTab(t) PROVE HostShape'
  BY <1>4 DEF HostShape, EditTab
<1>5. CASE DirectoryService
  BY <1>5 DEF HostShape, DirectoryService
<1> QED BY <1>1, <1>2, <1>3, <1>4, <1>5
      DEF BootpdNext, bootpdVars, S_receive_packet, install_sighup_handler, idle_exit

\* What changes behind the process leaves the addresses and the flags alone.
LEMMA Behind ==
    ASSUME BootpdInv, DaemonShape(daemon'), UNCHANGED seen, out' = Silent, sys'.addr = sys.addr,
           daemon'.ifs = daemon.ifs, daemon'.published = daemon.published, daemon'.sighup = daemon.sighup,
           daemon'.last_publish = daemon.last_publish, daemon'.listed = daemon.listed,
           daemon'.relays = daemon.relays
    PROVE  BootpdInv'
<1>1. Published(daemon, seen)'
  BY DEF BootpdInv, Published, S_copy_disabled_interfaces
<1>2. daemon'.sighup \/ Configured(daemon)'
  BY DEF BootpdInv, Configured, Current
<1> QED BY <1>1, <1>2, SilentIsRight DEF BootpdInv

LEMMA StepEdit ==
    ASSUME BootpdInv, HostShape, (\E p \in Plist : EditPlist(p)) \/ (\E t \in Tab : EditTab(t))
    PROVE  BootpdInv'
<1>1. sys'.addr = sys.addr /\ UNCHANGED <<daemon, seen>> /\ out' = Silent
  BY DEF HostShape, EditPlist, EditTab
<1>2. DaemonShape(daemon')
  BY <1>1 DEF BootpdInv
<1> QED BY <1>1, <1>2, Behind

LEMMA StepDirectory == BootpdInv /\ HostShape /\ DirectoryService => BootpdInv'
<1> SUFFICES ASSUME BootpdInv, HostShape, DirectoryService PROVE BootpdInv'
  OBVIOUS
<1>1. sys'.addr = sys.addr /\ UNCHANGED seen /\ out' = Silent
  BY DEF HostShape, DirectoryService
<1> DEFINE port == IF daemon.port = "live" THEN "stale" ELSE daemon.port
<1>2. daemon' = [daemon EXCEPT !.port = port]
  BY DEF DirectoryService
<1> HIDE DEF port
<1>3. /\ DaemonShape(daemon') /\ daemon'.ifs = daemon.ifs /\ daemon'.published = daemon.published
      /\ daemon'.sighup = daemon.sighup /\ daemon'.last_publish = daemon.last_publish
      /\ daemon'.listed = daemon.listed /\ daemon'.relays = daemon.relays
  BY <1>2, FieldsOfDaemon DEF BootpdInv, DaemonShape
<1> QED BY <1>1, <1>3, Behind

LEMMA BootpdStutters == BootpdInv /\ UNCHANGED bootpdVars => BootpdInv'
<1> SUFFICES ASSUME BootpdInv, UNCHANGED bootpdVars PROVE BootpdInv'
  OBVIOUS
<1>1. UNCHANGED <<sys, daemon, seen, out>>
  BY DEF bootpdVars
<1>2. Published(daemon, seen)'
  BY <1>1 DEF BootpdInv, Published, S_copy_disabled_interfaces
<1>3. daemon'.sighup \/ Configured(daemon)'
  BY <1>1 DEF BootpdInv, Configured, Current
<1>4. YieldsToOtherServer' /\ RelaysElsewhere'
  BY <1>1 DEF BootpdInv, YieldsToOtherServer, RelaysElsewhere
<1> QED BY <1>1, <1>2, <1>3, <1>4 DEF BootpdInv

LEMMA BootpdInvariance == BootpdSpec => [](BootpdInv /\ HostShape)
<1>1. BootpdInit => BootpdInv /\ HostShape
  <2> SUFFICES ASSUME BootpdInit PROVE BootpdInv /\ HostShape
    OBVIOUS
  <2>1. HostShape
    BY DEF BootpdInit, HostShape
  <2>2. daemon = Started /\ seen = {} /\ out = Silent
    BY DEF BootpdInit
  <2>3. YieldsToOtherServer /\ RelaysElsewhere
    BY <2>2 DEF YieldsToOtherServer, RelaysElsewhere, Silent
  <2> QED BY <2>1, <2>2, <2>3, StartedIsPublished DEF BootpdInv
<1>2. BootpdInv /\ HostShape /\ [BootpdNext]_bootpdVars => (BootpdInv /\ HostShape)'
  BY HostStep, StepReceive, StepSignal, StepExit, StepEdit, StepDirectory, BootpdStutters DEF BootpdNext
<1> QED BY <1>1, <1>2, PTL DEF BootpdSpec

\* bootpd lists exactly the interfaces on which it saw another DHCP server
\* since it last read its configuration, hands no DHCP request to its handler
\* there, and relays requests to other hosts and within the number of hops
\* (disable_dhcp_on_interface, S_publish_disabled_interfaces, S_relay_packet).
THEOREM BootpdYields == BootpdSpec => []YieldsToOthers
<1>1. BootpdInv => YieldsToOthers
  BY DEF BootpdInv, YieldsToOthers, Published, PublishedIsDisabled
<1> QED BY <1>1, BootpdInvariance, PTL

-----------------------------------------------------------------------------
(* rtadvd, for every entry of its configuration, every set of prefixes and *)
(* every length of the routing socket's queue.                             *)
(*                                                                         *)
(* The inductive invariant says three things.  The messages about a prefix *)
(* take turns, between what the daemon thinks of the prefix (its timer     *)
(* runs if it was withdrawn) and what the kernel has; so no prefix that is *)
(* withdrawn is withdrawn again.  The interface that is up has a timer,    *)
(* which with the pause already made covers the pause, unless another      *)
(* timer was left behind or the interface has just come up.  And what is   *)
(* waited for has a short timer.                                           *)

IsAbout(m, t, p) == m.type = t /\ m.p = p
Alternates(ms, routes, prefix) ==
    \A p \in Pfx :
        /\ \A j, k \in 1 .. Len(ms) :
              j < k /\ IsAbout(ms[j], "RTM_DELETE", p) /\ IsAbout(ms[k], "RTM_DELETE", p)
                => \E l \in j + 1 .. k - 1 : IsAbout(ms[l], "RTM_ADD", p)
        /\ prefix[p].timer # NoTimer =>
              \A k \in 1 .. Len(ms) : IsAbout(ms[k], "RTM_DELETE", p)
                => \E l \in 1 .. k - 1 : IsAbout(ms[l], "RTM_ADD", p)
        /\ p \in routes =>
              \A j \in 1 .. Len(ms) : IsAbout(ms[j], "RTM_DELETE", p)
                => \E l \in j + 1 .. Len(ms) : IsAbout(ms[l], "RTM_ADD", p)
        /\ p \in routes /\ prefix[p].timer # NoTimer =>
              \E l \in 1 .. Len(ms) : IsAbout(ms[l], "RTM_ADD", p)

PrefixType == [in : BOOLEAN, timer : Int, late : BOOLEAN, vl : Int, vlexpire : Int, pl : Int, plexpire : Int]
RaiType ==
    [up : BOOLEAN, timer : Int, old : Int, since : Int, initcounter : Int, waiting : Int, lifetime : Int,
     prefix : [Pfx -> PrefixType], pfxs : Int, inconsistent : BOOLEAN]
RtMsg == [type : {"RTM_ADD", "RTM_DELETE"}, p : Pfx] \cup [type : {"RTM_IFINFO"}, up : BOOLEAN]
         \cup [type : {"RTM_NEWADDR"}]

PrefixOK(x) ==
    /\ ~x.in => x.timer = NoTimer
    /\ x.timer >= NoTimer
    /\ x.vlexpire = NoExpire \/ x.vlexpire >= -MaxPast
    /\ x.plexpire = NoExpire \/ x.plexpire >= -MaxPast

RaiOK(r) ==
    /\ r \in RaiType
    /\ \A p \in Pfx : PrefixOK(r.prefix[p])
    /\ r.timer >= NoTimer /\ r.old >= NoTimer /\ r.initcounter >= 0
    /\ r.since \in 0 .. MIN_DELAY_BETWEEN_RAS
    /\ r.pfxs = Count(r)

Paced(r) ==
    r.up => /\ r.timer # NoTimer
            /\ \/ r.old # NoTimer
               \/ r.timer + r.since >= MIN_DELAY_BETWEEN_RAS
               \/ r.timer = 0 /\ r.initcounter = 0

Fixed(x) == x.vlexpire = NoExpire /\ x.plexpire = NoExpire
Heard(r, s) ==
    /\ ~(r.waiting > 0)
    /\ \A p \in Pfx : r.prefix[p].in /\ Fixed(r.prefix[p]) => s.prefix[p] = PrefixLifetime(r.prefix[p])
Prompt(r, s) == r.up /\ ~Heard(r, s) => r.timer < MIN_DELAY_BETWEEN_RAS + MAX_RA_DELAY_TIME

Busy(r, s) ==
    RaiOK(r) /\ Alternates(msgs, kernel.routes, r.prefix) /\ Paced(r) /\ Prompt(r, s)

RtadvdInv ==
    /\ conf \in Config /\ status \in {"running", "exited", "stopped"}
    /\ msgs \in Seq(RtMsg) /\ kernel \in [up : BOOLEAN, routes : SUBSET Pfx]
    /\ RaiOK(rai)
    /\ status = "exited" => ~Valid(conf)
    /\ Running => Valid(conf) /\ Busy(rai, sent)

-----------------------------------------------------------------------------

LEMMA MinOfTwo ==
    ASSUME NEW a \in Int, NEW b \in Int
    PROVE  Min({a, b}) \in {a, b} /\ Min({a, b}) <= a /\ Min({a, b}) <= b
<1>1. \E x \in {a, b} : \A y \in {a, b} : x <= y
  OBVIOUS
<1> QED BY <1>1 DEF Min

LEMMA IntervalsFit ==
    ASSUME NEW c \in Config, Valid(c)
    PROVE  /\ Interval(c) \in Nat /\ MinInterval(c) \in Nat
           /\ MinInterval(c) >= 3 /\ Interval(c) > MinInterval(c)
  BY RtadvdAssumption DEF Valid, IntervalsOK, Interval, MinInterval, Default

\* The interval to the next advertisement, at least the pause behind one.
LEMMA NextInterval ==
    ASSUME NEW c \in Config, Valid(c), NEW r \in RaiType, r.initcounter >= 0, NEW rnd \in {0, 1}
    PROVE  /\ ra_timer_update(r, c, rnd) \in Nat
           /\ r.initcounter # 0 => ra_timer_update(r, c, rnd) >= MIN_DELAY_BETWEEN_RAS
<1> DEFINE span == Interval(c) - MinInterval(c)
           interval == MinInterval(c) + (rnd % span)
<1>1. span \in Nat /\ span > 0 /\ MinInterval(c) >= 3 /\ MinInterval(c) \in Nat
  BY IntervalsFit
<1>2. rnd % span \in Nat
  BY <1>1
<1>3. interval \in Nat /\ interval >= 3
  BY <1>1, <1>2
<1> HIDE DEF span, interval
<1>4. Min({interval, MAX_INITIAL_RTR_ADVERT_INTERVAL}) \in {interval, MAX_INITIAL_RTR_ADVERT_INTERVAL}
  <2>1. MAX_INITIAL_RTR_ADVERT_INTERVAL \in Int /\ interval \in Int
    BY <1>3, RtadvdAssumption
  <2> QED BY <2>1, MinOfTwo, Zenon
<1>5. ra_timer_update(r, c, rnd) \in {0, interval, MAX_INITIAL_RTR_ADVERT_INTERVAL}
  BY <1>4 DEF ra_timer_update, span, interval
<1>6. r.initcounter # 0 => ra_timer_update(r, c, rnd) \in {interval, MAX_INITIAL_RTR_ADVERT_INTERVAL}
  BY <1>4 DEF ra_timer_update, span, interval
<1> QED BY <1>3, <1>5, <1>6, RtadvdAssumption

\* The delay of an answer: short, and outside of the pause.
LEMMA ShortDelay ==
    ASSUME NEW r \in RaiType, r.timer >= 0, r.since \in 0 .. MIN_DELAY_BETWEEN_RAS, NEW rnd \in {0, 1}
    PROVE  \E t \in Nat : /\ set_short_delay(r, rnd) = [r EXCEPT !.timer = t]
                          /\ t < MIN_DELAY_BETWEEN_RAS + MAX_RA_DELAY_TIME
                          /\ t + r.since >= MIN_DELAY_BETWEEN_RAS
<1> DEFINE delay == rnd % MAX_RA_DELAY_TIME
           interval == Min({delay, r.timer})
           t == IF r.since < MIN_DELAY_BETWEEN_RAS
                THEN interval + (MIN_DELAY_BETWEEN_RAS - r.since) ELSE interval
<1>1. delay \in Nat /\ delay < MAX_RA_DELAY_TIME
  BY RtadvdAssumption
<1>2. r.timer \in Nat
  BY DEF RaiType
<1> HIDE DEF delay
<1>3. interval \in Nat /\ interval <= delay
  <2>1. delay \in Int /\ r.timer \in Int
    BY <1>1, <1>2
  <2>2. interval \in {delay, r.timer} /\ interval <= delay
    BY <2>1, MinOfTwo, Zenon
  <2> QED BY <1>1, <1>2, <2>2
<1>4. set_short_delay(r, rnd) = [r EXCEPT !.timer = t]
  BY DEF set_short_delay, NoTimer, delay
<1> HIDE DEF interval
<1>5. /\ t \in Nat /\ t < MIN_DELAY_BETWEEN_RAS + MAX_RA_DELAY_TIME
      /\ t + r.since >= MIN_DELAY_BETWEEN_RAS
  BY <1>1, <1>3, RtadvdAssumption
<1> QED BY <1>4, <1>5

\* A packet has the length that was computed for it.
LEMMA PacketFits ==
    ASSUME NEW c \in Config, NEW r, r.pfxs = Count(r)
    PROVE  make_packet(r, c)
<1>1. CapportWritten(c) = CapportOptionLength(c)
  <2>1. c.capport \in Int
    BY RtadvdAssumption
  <2>2. ASSUME ~(c.capport < 0)
        PROVE  2 + c.capport + (RoundUp(2 + c.capport) - 2 - c.capport) = RoundUp(2 + c.capport)
    <3> DEFINE k == c.capport
    <3>1. k \in Nat
      BY <2>1, <2>2
    <3> HIDE DEF k
    <3>2. 2 + k + (RoundUp(2 + k) - 2 - k) = RoundUp(2 + k)
      BY <3>1 DEF RoundUp
    <3> QED BY <3>2 DEF k
  <2> QED BY <2>2 DEF CapportWritten, CapportOptionLength
<1>2. DNRWritten(c) = IF Len(c.dnr) % 256 # 0
                      THEN SumOf([i \in DOMAIN c.dnr |-> RoundUp(DNRLength(c.dnr[i]))]) ELSE 0
  <2>1. Len(c.dnr) \in 0 .. 255
    BY RtadvdAssumption
  <2>2. Len(c.dnr) % 256 = Len(c.dnr)
    <3> DEFINE n == Len(c.dnr)
    <3>1. n \in 0 .. 255
      BY <2>1
    <3> HIDE DEF n
    <3>2. n % 256 = n
      BY <3>1
    <3> QED BY <3>2 DEF n
  <2> QED BY <2>2 DEF DNRWritten
<1> QED BY <1>1, <1>2 DEF make_packet, Packlen, Written

\* The number of prefixes.
In(r) == { p \in Pfx : r.prefix[p].in }

LEMMA NewPrefixOK ==
    ASSUME NEW vl \in Int, NEW vlexpire \in Int, NEW pl \in Int, NEW plexpire \in Int,
           vlexpire = NoExpire \/ vlexpire >= -MaxPast, plexpire = NoExpire \/ plexpire >= -MaxPast
    PROVE  LET new == NewPrefix(vl, vlexpire, pl, plexpire)
           IN  new \in PrefixType /\ PrefixOK(new) /\ new.in = TRUE /\ new.timer = NoTimer
  BY DEF NewPrefix, PrefixType, PrefixOK, NoTimer

LEMMA InIsFinite == ASSUME NEW r PROVE IsFiniteSet(In(r)) /\ Count(r) = Cardinality(In(r)) /\ Count(r) \in Nat
<1>1. IsFiniteSet(In(r))
  BY FS_Subset, RtadvdAssumption DEF In
<1> QED BY <1>1, FS_CardinalityType DEF In, Count

LEMMA SamePrefixes ==
    ASSUME NEW r, NEW s, \A p \in Pfx : s.prefix[p].in = r.prefix[p].in
    PROVE  Count(s) = Count(r)
  BY DEF Count

\* Deleting prefixes.
LEMMA Deletes ==
    ASSUME NEW r, RaiOK(r), NEW S \in SUBSET Pfx, \A p \in S : r.prefix[p].timer # NoTimer
    PROVE  LET d == delete_prefix(r, S)
           IN  /\ RaiOK(d)
               /\ d = [r EXCEPT !.prefix = d.prefix, !.pfxs = d.pfxs]
               /\ \A p \in Pfx : \/ d.prefix[p] = r.prefix[p]
                                 \/ d.prefix[p].in = FALSE /\ d.prefix[p].timer = NoTimer
<1> DEFINE prefix == [p \in Pfx |-> IF p \in S THEN NoPrefix ELSE r.prefix[p]]
           pfxs == r.pfxs - Cardinality(S)
           d == delete_prefix(r, S)
<1>1. d = [r EXCEPT !.prefix = prefix, !.pfxs = pfxs]
  BY DEF delete_prefix
<1>2. /\ NoPrefix \in PrefixType /\ NoPrefix.in = FALSE /\ NoPrefix.timer = NoTimer /\ PrefixOK(NoPrefix)
  <2>1. NoExpire \in Int
    BY RtadvdAssumption DEF NoExpire
  <2> DEFINE new == NewPrefix(0, NoExpire, 0, NoExpire)
  <2>2. new \in PrefixType /\ PrefixOK(new) /\ new.timer = NoTimer
    <3>1. 0 \in Int
      OBVIOUS
    <3> QED BY <2>1, <3>1, NewPrefixOK, Zenon
  <2>3. NoPrefix = [new EXCEPT !.in = FALSE]
    BY DEF NoPrefix
  <2> HIDE DEF new
  <2> QED BY <2>2, <2>3 DEF PrefixType, PrefixOK
<1>3. prefix \in [Pfx -> PrefixType] /\ \A p \in Pfx : PrefixOK(prefix[p])
  BY <1>2 DEF RaiOK, RaiType
<1>4. S \subseteq In(r) /\ IsFiniteSet(S) /\ Cardinality(S) \in Nat
  <2>1. S \subseteq In(r)
    BY DEF In, RaiOK, PrefixOK
  <2> QED BY <2>1, FS_Subset, FS_CardinalityType, RtadvdAssumption
<1> HIDE DEF d
<1>5. pfxs \in Int
  BY <1>4 DEF RaiOK, RaiType
<1> HIDE DEF pfxs
<1>6. d \in RaiType /\ d.prefix = prefix /\ d.pfxs = pfxs
  BY <1>1, <1>3, <1>5 DEF RaiOK, RaiType
<1>7. In(d) = In(r) \ S
  BY <1>2, <1>6 DEF In
<1>8. Count(d) = Count(r) - Cardinality(S)
  <2>1. In(r) = In(d) \cup S /\ In(d) \cap S = {}
    BY <1>4, <1>7
  <2>2. Cardinality(In(r)) = Cardinality(In(d)) + Cardinality(S) - Cardinality({})
    BY <1>4, <2>1, InIsFinite, FS_Union
  <2> QED BY <1>4, <2>2, InIsFinite, FS_EmptySet
<1>9. RaiOK(d)
  <2>1. /\ d.timer = r.timer /\ d.old = r.old /\ d.initcounter = r.initcounter /\ d.since = r.since
    BY <1>1, <1>6 DEF RaiOK, RaiType
  <2>2. d.pfxs = Count(d)
    BY <1>6, <1>8 DEF RaiOK, pfxs
  <2> QED BY <1>3, <1>6, <2>1, <2>2 DEF RaiOK
<1>10. d = [r EXCEPT !.prefix = d.prefix, !.pfxs = d.pfxs]
  BY <1>1, <1>6
<1>11. \A p \in Pfx : d.prefix[p] = r.prefix[p] \/ (d.prefix[p].in = FALSE /\ d.prefix[p].timer = NoTimer)
  BY <1>2, <1>6
<1> QED BY <1>9, <1>10, <1>11 DEF d

\* What a change of the timers leaves of the turns.
LEMMA FewerTimers ==
    ASSUME NEW ms, NEW routes, NEW f, NEW g, Alternates(ms, routes, f),
           \A p \in Pfx : g[p].timer # NoTimer => f[p].timer # NoTimer
    PROVE  Alternates(ms, routes, g)
  BY DEF Alternates

-----------------------------------------------------------------------------
(* A pass over the timers.                                                 *)

PassOK(x) ==
    /\ x = [rai |-> x.rai, sent |-> x.sent, status |-> x.status]
    /\ x.status = "running" /\ Busy(x.rai, x.sent)

LEMMA PassOverPrefixes ==
    ASSUME NEW x, PassOK(x), NEW late \in BOOLEAN
    PROVE  PassOK(prefix_timeout(x, late))
<1> DEFINE r == x.rai
           S == { p \in Pfx : r.prefix[p].timer = 0 /\ r.prefix[p].late = late }
           d == delete_prefix(r, S)
<1>1. S \in SUBSET Pfx /\ \A p \in S : r.prefix[p].timer # NoTimer
  BY DEF NoTimer
<1>2. RaiOK(r)
  BY DEF PassOK, Busy
<1>3. /\ RaiOK(d) /\ d = [r EXCEPT !.prefix = d.prefix, !.pfxs = d.pfxs]
      /\ \A p \in Pfx : \/ d.prefix[p] = r.prefix[p]
                        \/ d.prefix[p].in = FALSE /\ d.prefix[p].timer = NoTimer
  <2> HIDE DEF S
  <2> QED BY <1>1, <1>2, Deletes
<1>4. prefix_timeout(x, late) = [x EXCEPT !.rai = d]
  BY DEF prefix_timeout
<1> HIDE DEF d
<1>5. /\ d.up = r.up /\ d.timer = r.timer /\ d.old = r.old /\ d.since = r.since
      /\ d.initcounter = r.initcounter /\ d.waiting = r.waiting
  BY <1>2, <1>3 DEF RaiOK, RaiType
<1>6. Alternates(msgs, kernel.routes, d.prefix)
  <2>1. Alternates(msgs, kernel.routes, r.prefix)
    BY DEF PassOK, Busy
  <2> QED BY <2>1, <1>3, FewerTimers
<1>7. Paced(d)
  BY <1>5 DEF PassOK, Busy, Paced
<1>8. Prompt(d, x.sent)
  <2>1. Heard(r, x.sent) => Heard(d, x.sent)
    BY <1>3, <1>5 DEF Heard
  <2> QED BY <2>1, <1>5 DEF PassOK, Busy, Prompt
<1> HIDE DEF r
<1>9. Busy(d, x.sent)
  BY <1>3, <1>6, <1>7, <1>8 DEF Busy
<1> QED BY <1>4, <1>9 DEF PassOK

\* What was sent is what the interface says.
LEMMA Sends ==
    ASSUME NEW r, RaiOK(r), r.up
    PROVE  /\ RaiOK(ra_output(r)) /\ ra_output(r).initcounter # 0
           /\ ra_output(r).waiting = 0 /\ ra_output(r).since = 0
           /\ ra_output(r).prefix = r.prefix /\ ra_output(r).up = r.up
           /\ ra_output(r).timer = r.timer /\ ra_output(r).old = r.old
           /\ Heard(ra_output(r), Tells(r))
<1> DEFINE n == Min({r.initcounter + 1, MAX_INITIAL_RTR_ADVERTISEMENTS})
           o == ra_output(r)
<1>1. n \in Nat /\ n # 0
  <2>1. r.initcounter + 1 \in Int /\ r.initcounter + 1 > 0 /\ MAX_INITIAL_RTR_ADVERTISEMENTS = 3
    BY DEF RaiOK, RaiType, MAX_INITIAL_RTR_ADVERTISEMENTS
  <2>2. 3 \in Int
    OBVIOUS
  <2>3. n \in {r.initcounter + 1, 3}
    BY <2>1, <2>2, MinOfTwo, Zenon
  <2> QED BY <2>1, <2>3
<1>2. o = [r EXCEPT !.initcounter = n, !.waiting = 0, !.since = 0]
  BY DEF ra_output
<1> HIDE DEF n, o
<1>3. o \in RaiType /\ o.initcounter = n /\ o.waiting = 0 /\ o.since = 0 /\ o.prefix = r.prefix
      /\ o.up = r.up /\ o.timer = r.timer /\ o.old = r.old /\ o.pfxs = r.pfxs
  <2>1. r \in RaiType
    BY DEF RaiOK
  <2>2. 0 \in Int /\ n \in Int
    BY <1>1
  <2> QED BY <1>2, <2>1, <2>2 DEF RaiType
<1>4. Count(o) = Count(r)
  BY <1>3, SamePrefixes
<1>5. RaiOK(o)
  BY <1>1, <1>3, <1>4, RtadvdAssumption DEF RaiOK
<1>6. Heard(o, Tells(r))
  <2>1. \A p \in Pfx : r.prefix[p].in => Tells(r).prefix[p] = PrefixLifetime(r.prefix[p])
    BY DEF Tells
  <2> QED BY <1>3, <2>1 DEF Heard
<1> QED BY <1>1, <1>3, <1>5, <1>6 DEF o

LEMMA PassOverTimer ==
    ASSUME NEW x, PassOK(x), conf \in Config, Valid(conf), NEW which \in {"timer", "old"}, NEW rnd \in {0, 1}
    PROVE  PassOK(ra_timeout(x, which, rnd))
<1> DEFINE r == x.rai
           o == ra_output(r)
           u == ra_timer_update(o, conf, rnd)
           e == IF r.timer = NoTimer THEN o ELSE [o EXCEPT ![which] = u]
           said == IF o.up THEN Tells(r) ELSE x.sent
<1>0. RaiOK(r) /\ Alternates(msgs, kernel.routes, r.prefix) /\ Paced(r) /\ Prompt(r, x.sent)
  BY DEF PassOK, Busy
<1>1. CASE r[which] # 0
  <2>1. ra_timeout(x, which, rnd) = x
    BY <1>1 DEF ra_timeout
  <2> QED BY <2>1
<1>2. CASE r[which] = 0
  <2>1. /\ RaiOK(o) /\ o.prefix = r.prefix /\ o.up = r.up /\ o.timer = r.timer /\ o.old = r.old
        /\ r.up => o.initcounter # 0 /\ Heard(o, Tells(r)) /\ o.since = 0
        /\ ~r.up => o = r
    <3>1. CASE r.up
      BY <3>1, <1>0, Sends
    <3>2. CASE ~r.up
      <4>1. o = r
        BY <3>2 DEF ra_output
      <4> QED BY <3>2, <4>1, <1>0
    <3> QED BY <3>1, <3>2
  <2>2. make_packet(r, conf)
    BY <1>0, PacketFits DEF RaiOK
  <2>3. ra_timeout(x, which, rnd) = [rai |-> e, sent |-> said, status |-> x.status]
    BY <1>2, <2>2 DEF ra_timeout
  <2>4. u \in Nat /\ (r.up => u >= MIN_DELAY_BETWEEN_RAS)
    BY <2>1, NextInterval DEF RaiOK
  <2>5. r.up => r.timer # NoTimer
    BY <1>0 DEF Paced
  <2> HIDE DEF o, u
  <2>6. /\ e \in RaiType /\ e.prefix = r.prefix /\ e.up = r.up /\ e.pfxs = o.pfxs /\ e.since = o.since
        /\ e.initcounter = o.initcounter /\ e.waiting = o.waiting
        /\ e.timer >= NoTimer /\ e.old >= NoTimer
        /\ r.up => \/ e.timer = u /\ which = "timer"
                   \/ e.old = u /\ e.timer = r.timer
    <3>1. CASE r.timer = NoTimer
      BY <2>1, <2>5, <3>1 DEF RaiOK
    <3>2. CASE r.timer # NoTimer /\ which = "timer"
      <4>1. e = [o EXCEPT !.timer = u]
        BY <3>2
      <4> HIDE DEF e
      <4> QED BY <2>1, <2>4, <3>2, <4>1 DEF RaiOK, RaiType, NoTimer
    <3>3. CASE r.timer # NoTimer /\ which = "old"
      <4>1. e = [o EXCEPT !.old = u]
        BY <3>3
      <4> HIDE DEF e
      <4> QED BY <2>1, <2>4, <3>3, <4>1 DEF RaiOK, RaiType, NoTimer
    <3> QED BY <3>1, <3>2, <3>3
  <2> HIDE DEF e
  <2>7. RaiOK(e)
    <3>1. Count(e) = Count(o)
      BY <2>1, <2>6, SamePrefixes
    <3> QED BY <2>1, <2>6, <3>1 DEF RaiOK
  <2>8. Paced(e)
    <3>1. u # NoTimer
      BY <2>4 DEF NoTimer
    <3> QED BY <2>1, <2>4, <2>5, <2>6, <3>1, RtadvdAssumption DEF Paced
  <2>9. r.up => Heard(e, said)
    BY <2>1, <2>6 DEF Heard
  <2>10. Busy(e, said)
    BY <1>0, <2>6, <2>7, <2>8, <2>9 DEF Busy, Prompt
  <2> HIDE DEF said
  <2> QED BY <2>3, <2>10 DEF PassOK
<1> QED BY <1>1, <1>2

LEMMA StepPass ==
    ASSUME RtadvdInv, NEW rnd \in {0, 1}, rtadvd_check_timer(rnd)
    PROVE  RtadvdInv'
<1> DEFINE x0 == [rai |-> rai, sent |-> sent, status |-> status]
           x1 == prefix_timeout(x0, FALSE)
           x2 == ra_timeout(x1, "timer", rnd)
           x3 == prefix_timeout(x2, TRUE)
           x4 == ra_timeout(x3, "old", rnd)
<1>1. conf \in Config /\ Valid(conf) /\ status = "running"
  BY DEF rtadvd_check_timer, RtadvdInv, Running
<1>2. PassOK(x0)
  BY <1>1 DEF PassOK, RtadvdInv, Running
<1> HIDE DEF x0
<1>3. PassOK(x1)
  BY <1>2, PassOverPrefixes
<1> HIDE DEF x1
<1>4. PassOK(x2)
  BY <1>1, <1>3, PassOverTimer
<1> HIDE DEF x2
<1>5. PassOK(x3)
  BY <1>4, PassOverPrefixes
<1> HIDE DEF x3
<1>6. PassOK(x4)
  BY <1>1, <1>5, PassOverTimer
<1> HIDE DEF x4
<1>7. /\ rai' = x4.rai /\ sent' = x4.sent /\ status' = x4.status
      /\ UNCHANGED <<conf, kernel, msgs>>
  BY DEF rtadvd_check_timer, x4, x3, x2, x1, x0
<1>8. Busy(rai', sent') /\ status' = "running" /\ RaiOK(rai')
  BY <1>6, <1>7 DEF PassOK, Busy
<1>9. Busy(rai, sent)'
  BY <1>7, <1>8 DEF Busy
<1> QED BY <1>1, <1>7, <1>8, <1>9 DEF RtadvdInv, Running

-----------------------------------------------------------------------------
(* The routing socket.                                                     *)

LEMMA AppendIsAbout ==
    ASSUME NEW ms \in Seq(RtMsg), NEW m \in RtMsg
    PROVE  /\ Len(Append(ms, m)) = Len(ms) + 1 /\ Append(ms, m) \in Seq(RtMsg)
           /\ \A k \in 1 .. Len(ms) : Append(ms, m)[k] = ms[k]
           /\ Append(ms, m)[Len(ms) + 1] = m
           /\ Len(ms) \in Nat
  OBVIOUS

\* A message that is not about a prefix.
LEMMA TurnsOfOthers ==
    ASSUME NEW ms \in Seq(RtMsg), NEW m \in RtMsg, NEW routes, NEW prefix, Alternates(ms, routes, prefix),
           m.type \notin {"RTM_ADD", "RTM_DELETE"}
    PROVE  Alternates(Append(ms, m), routes, prefix)
<1> DEFINE ns == Append(ms, m)
<1>1. /\ Len(ns) = Len(ms) + 1 /\ Len(ms) \in Nat
      /\ \A k \in 1 .. Len(ms) : ns[k] = ms[k]
      /\ ns[Len(ms) + 1] = m
  BY AppendIsAbout
<1> HIDE DEF ns
<1>2. \A k \in 1 .. Len(ns), p \in Pfx : IsAbout(ns[k], "RTM_DELETE", p) => k \in 1 .. Len(ms) /\ IsAbout(ms[k], "RTM_DELETE", p)
  BY <1>1 DEF IsAbout
<1>3. \A l \in 1 .. Len(ms), p \in Pfx : IsAbout(ms[l], "RTM_ADD", p) => l \in 1 .. Len(ns) /\ IsAbout(ns[l], "RTM_ADD", p)
  BY <1>1 DEF IsAbout
<1>4. ASSUME NEW p \in Pfx
      PROVE  /\ \A j, k \in 1 .. Len(ns) :
                   j < k /\ IsAbout(ns[j], "RTM_DELETE", p) /\ IsAbout(ns[k], "RTM_DELETE", p)
                     => \E l \in j + 1 .. k - 1 : IsAbout(ns[l], "RTM_ADD", p)
             /\ prefix[p].timer # NoTimer =>
                   \A k \in 1 .. Len(ns) : IsAbout(ns[k], "RTM_DELETE", p)
                     => \E l \in 1 .. k - 1 : IsAbout(ns[l], "RTM_ADD", p)
             /\ p \in routes =>
                   \A j \in 1 .. Len(ns) : IsAbout(ns[j], "RTM_DELETE", p)
                     => \E l \in j + 1 .. Len(ns) : IsAbout(ns[l], "RTM_ADD", p)
             /\ p \in routes /\ prefix[p].timer # NoTimer =>
                   \E l \in 1 .. Len(ns) : IsAbout(ns[l], "RTM_ADD", p)
  <2>1. \A j, k \in 1 .. Len(ns) :
            j < k /\ IsAbout(ns[j], "RTM_DELETE", p) /\ IsAbout(ns[k], "RTM_DELETE", p)
              => \E l \in j + 1 .. k - 1 : IsAbout(ns[l], "RTM_ADD", p)
    BY <1>1, <1>2 DEF Alternates
  <2>2. prefix[p].timer # NoTimer =>
            \A k \in 1 .. Len(ns) : IsAbout(ns[k], "RTM_DELETE", p)
              => \E l \in 1 .. k - 1 : IsAbout(ns[l], "RTM_ADD", p)
    BY <1>1, <1>2 DEF Alternates
  <2>3. p \in routes =>
            \A j \in 1 .. Len(ns) : IsAbout(ns[j], "RTM_DELETE", p)
              => \E l \in j + 1 .. Len(ns) : IsAbout(ns[l], "RTM_ADD", p)
    BY <1>1, <1>2 DEF Alternates
  <2>4. p \in routes /\ prefix[p].timer # NoTimer =>
            \E l \in 1 .. Len(ns) : IsAbout(ns[l], "RTM_ADD", p)
    BY <1>3 DEF Alternates
  <2> QED BY <2>1, <2>2, <2>3, <2>4
<1>5. Alternates(ns, routes, prefix)
  BY <1>4 DEF Alternates
<1> QED BY <1>5 DEF ns

\* A route that was not there is added.
LEMMA TurnsOfAdd ==
    ASSUME NEW ms \in Seq(RtMsg), NEW q \in Pfx, NEW m \in RtMsg, m.type = "RTM_ADD", m.p = q,
           NEW routes, NEW prefix, Alternates(ms, routes, prefix)
    PROVE  Alternates(Append(ms, m), routes \cup {q}, prefix)
<1> DEFINE ns == Append(ms, m)
<1>1. /\ Len(ns) = Len(ms) + 1 /\ Len(ms) \in Nat
      /\ \A k \in 1 .. Len(ms) : ns[k] = ms[k]
      /\ ns[Len(ms) + 1] = m
  BY AppendIsAbout
<1> HIDE DEF ns
<1>2. \A k \in 1 .. Len(ns), p \in Pfx : IsAbout(ns[k], "RTM_DELETE", p) => k \in 1 .. Len(ms) /\ IsAbout(ms[k], "RTM_DELETE", p)
  BY <1>1 DEF IsAbout
<1>3. \A l \in 1 .. Len(ms), p \in Pfx : IsAbout(ms[l], "RTM_ADD", p) => l \in 1 .. Len(ns) /\ IsAbout(ns[l], "RTM_ADD", p)
  BY <1>1 DEF IsAbout
<1>4. IsAbout(ns[Len(ns)], "RTM_ADD", q)
  BY <1>1 DEF IsAbout
<1>5. \A p \in routes \cup {q} : p \in routes \/ p = q
  OBVIOUS
<1> QED BY <1>1, <1>2, <1>3, <1>4, <1>5 DEF Alternates

\* A route that was there is deleted.
LEMMA TurnsOfDelete ==
    ASSUME NEW ms \in Seq(RtMsg), NEW q \in Pfx, NEW m \in RtMsg, m.type = "RTM_DELETE", m.p = q,
           NEW routes, q \in routes, NEW prefix, Alternates(ms, routes, prefix)
    PROVE  Alternates(Append(ms, m), routes \ {q}, prefix)
<1> DEFINE ns == Append(ms, m)
<1>1. /\ Len(ns) = Len(ms) + 1 /\ Len(ms) \in Nat
      /\ \A k \in 1 .. Len(ms) : ns[k] = ms[k]
      /\ ns[Len(ms) + 1] = m
  BY AppendIsAbout
<1> HIDE DEF ns
<1>2. \A k \in 1 .. Len(ns), p \in Pfx : IsAbout(ns[k], "RTM_DELETE", p) =>
        \/ k \in 1 .. Len(ms) /\ IsAbout(ms[k], "RTM_DELETE", p)
        \/ k = Len(ms) + 1 /\ p = q
  BY <1>1 DEF IsAbout
<1>3. \A l \in 1 .. Len(ms), p \in Pfx : IsAbout(ms[l], "RTM_ADD", p) => l \in 1 .. Len(ns) /\ IsAbout(ns[l], "RTM_ADD", p)
  BY <1>1 DEF IsAbout
<1> SUFFICES ASSUME NEW p \in Pfx
             PROVE  /\ \A j, k \in 1 .. Len(ns) :
                          j < k /\ IsAbout(ns[j], "RTM_DELETE", p) /\ IsAbout(ns[k], "RTM_DELETE", p)
                            => \E l \in j + 1 .. k - 1 : IsAbout(ns[l], "RTM_ADD", p)
                    /\ prefix[p].timer # NoTimer =>
                          \A k \in 1 .. Len(ns) : IsAbout(ns[k], "RTM_DELETE", p)
                            => \E l \in 1 .. k - 1 : IsAbout(ns[l], "RTM_ADD", p)
                    /\ p \in routes \ {q} =>
                          \A j \in 1 .. Len(ns) : IsAbout(ns[j], "RTM_DELETE", p)
                            => \E l \in j + 1 .. Len(ns) : IsAbout(ns[l], "RTM_ADD", p)
                    /\ p \in routes \ {q} /\ prefix[p].timer # NoTimer =>
                          \E l \in 1 .. Len(ns) : IsAbout(ns[l], "RTM_ADD", p)
  BY DEF Alternates, ns
<1>4. ASSUME NEW j \in 1 .. Len(ns), NEW k \in 1 .. Len(ns),
             j < k, IsAbout(ns[j], "RTM_DELETE", p), IsAbout(ns[k], "RTM_DELETE", p)
      PROVE  \E l \in j + 1 .. k - 1 : IsAbout(ns[l], "RTM_ADD", p)
  <2>1. j \in 1 .. Len(ms) /\ IsAbout(ms[j], "RTM_DELETE", p)
    BY <1>1, <1>2, <1>4
  <2>2. CASE k \in 1 .. Len(ms) /\ IsAbout(ms[k], "RTM_DELETE", p)
    <3>1. PICK l \in j + 1 .. k - 1 : IsAbout(ms[l], "RTM_ADD", p)
      BY <1>4, <2>1, <2>2 DEF Alternates
    <3> QED BY <1>3, <2>1, <2>2, <3>1
  <2>3. CASE k = Len(ms) + 1 /\ p = q
    <3>1. PICK l \in j + 1 .. Len(ms) : IsAbout(ms[l], "RTM_ADD", p)
      BY <2>1, <2>3 DEF Alternates
    <3> QED BY <1>1, <1>3, <2>1, <2>3, <3>1
  <2> QED BY <1>2, <1>4, <2>2, <2>3
<1>5. ASSUME prefix[p].timer # NoTimer, NEW k \in 1 .. Len(ns), IsAbout(ns[k], "RTM_DELETE", p)
      PROVE  \E l \in 1 .. k - 1 : IsAbout(ns[l], "RTM_ADD", p)
  <2>1. CASE k \in 1 .. Len(ms) /\ IsAbout(ms[k], "RTM_DELETE", p)
    <3>1. PICK l \in 1 .. k - 1 : IsAbout(ms[l], "RTM_ADD", p)
      BY <1>5, <2>1 DEF Alternates
    <3> QED BY <1>1, <1>3, <2>1, <3>1
  <2>2. CASE k = Len(ms) + 1 /\ p = q
    <3>1. PICK l \in 1 .. Len(ms) : IsAbout(ms[l], "RTM_ADD", p)
      BY <1>5, <2>2 DEF Alternates
    <3> QED BY <1>1, <1>3, <2>2, <3>1
  <2> QED BY <1>2, <1>5, <2>1, <2>2
<1>6. ASSUME p \in routes \ {q}, NEW j \in 1 .. Len(ns), IsAbout(ns[j], "RTM_DELETE", p)
      PROVE  \E l \in j + 1 .. Len(ns) : IsAbout(ns[l], "RTM_ADD", p)
  <2>1. j \in 1 .. Len(ms) /\ IsAbout(ms[j], "RTM_DELETE", p)
    BY <1>2, <1>6
  <2>2. PICK l \in j + 1 .. Len(ms) : IsAbout(ms[l], "RTM_ADD", p)
    BY <1>6, <2>1 DEF Alternates
  <2> QED BY <1>1, <1>3, <2>1, <2>2
<1>7. p \in routes \ {q} /\ prefix[p].timer # NoTimer => \E l \in 1 .. Len(ns) : IsAbout(ns[l], "RTM_ADD", p)
  BY <1>3 DEF Alternates
<1> QED BY <1>4, <1>5, <1>6, <1>7

\* The first message is read: the turns of the rest, with the timer that it
\* starts or ends.
LEMMA TurnsOfTail ==
    ASSUME NEW ms \in Seq(RtMsg), ms # <<>>, NEW routes, NEW f, NEW g, Alternates(ms, routes, f),
           \A p \in Pfx : /\ g[p].timer # NoTimer => f[p].timer # NoTimer \/ IsAbout(Head(ms), "RTM_DELETE", p)
                          /\ IsAbout(Head(ms), "RTM_ADD", p) => g[p].timer = NoTimer
    PROVE  Alternates(Tail(ms), routes, g)
<1> DEFINE ns == Tail(ms)
<1>1. /\ Len(ms) \in Nat /\ Len(ms) >= 1 /\ Len(ns) = Len(ms) - 1 /\ Head(ms) = ms[1]
      /\ \A k \in 1 .. Len(ns) : ns[k] = ms[k + 1]
  OBVIOUS
<1> HIDE DEF ns
<1> SUFFICES ASSUME NEW p \in Pfx
             PROVE  /\ \A j, k \in 1 .. Len(ns) :
                          j < k /\ IsAbout(ns[j], "RTM_DELETE", p) /\ IsAbout(ns[k], "RTM_DELETE", p)
                            => \E l \in j + 1 .. k - 1 : IsAbout(ns[l], "RTM_ADD", p)
                    /\ g[p].timer # NoTimer =>
                          \A k \in 1 .. Len(ns) : IsAbout(ns[k], "RTM_DELETE", p)
                            => \E l \in 1 .. k - 1 : IsAbout(ns[l], "RTM_ADD", p)
                    /\ p \in routes =>
                          \A j \in 1 .. Len(ns) : IsAbout(ns[j], "RTM_DELETE", p)
                            => \E l \in j + 1 .. Len(ns) : IsAbout(ns[l], "RTM_ADD", p)
                    /\ p \in routes /\ g[p].timer # NoTimer =>
                          \E l \in 1 .. Len(ns) : IsAbout(ns[l], "RTM_ADD", p)
  BY DEF Alternates, ns
<1>2. \A l \in 2 .. Len(ms) : IsAbout(ms[l], "RTM_ADD", p) => l - 1 \in 1 .. Len(ns) /\ IsAbout(ns[l - 1], "RTM_ADD", p)
  <2> SUFFICES ASSUME NEW l \in 2 .. Len(ms), IsAbout(ms[l], "RTM_ADD", p)
               PROVE  l - 1 \in 1 .. Len(ns) /\ IsAbout(ns[l - 1], "RTM_ADD", p)
    OBVIOUS
  <2>1. l - 1 \in 1 .. Len(ns) /\ (l - 1) + 1 = l
    BY <1>1
  <2> QED BY <1>1, <2>1
<1>3. ASSUME NEW j \in 1 .. Len(ns), NEW k \in 1 .. Len(ns),
             j < k, IsAbout(ns[j], "RTM_DELETE", p), IsAbout(ns[k], "RTM_DELETE", p)
      PROVE  \E l \in j + 1 .. k - 1 : IsAbout(ns[l], "RTM_ADD", p)
  <2>1. /\ j + 1 \in 1 .. Len(ms) /\ k + 1 \in 1 .. Len(ms) /\ j + 1 < k + 1
        /\ IsAbout(ms[j + 1], "RTM_DELETE", p) /\ IsAbout(ms[k + 1], "RTM_DELETE", p)
    BY <1>1, <1>3
  <2>2. PICK l \in (j + 1) + 1 .. (k + 1) - 1 : IsAbout(ms[l], "RTM_ADD", p)
    BY <2>1 DEF Alternates
  <2>3. l \in 2 .. Len(ms) /\ l - 1 \in j + 1 .. k - 1
    BY <1>1, <2>1, <2>2
  <2> QED BY <1>2, <2>2, <2>3
\* Before the next DELETE there is an ADD, which is not the message read.
<1>4. ASSUME g[p].timer # NoTimer, NEW k \in 1 .. Len(ns), IsAbout(ns[k], "RTM_DELETE", p)
      PROVE  \E l \in 1 .. k - 1 : IsAbout(ns[l], "RTM_ADD", p)
  <2>1. k + 1 \in 2 .. Len(ms) /\ IsAbout(ms[k + 1], "RTM_DELETE", p) /\ 1 \in 1 .. Len(ms) /\ 1 < k + 1
    BY <1>1, <1>4
  <2>2. ~IsAbout(ms[1], "RTM_ADD", p)
    BY <1>1, <1>4
  <2>3. CASE f[p].timer # NoTimer
    <3>1. PICK l \in 1 .. (k + 1) - 1 : IsAbout(ms[l], "RTM_ADD", p)
      BY <2>1, <2>3 DEF Alternates
    <3>2. l # 1
      BY <2>2, <3>1
    <3>3. l \in 2 .. Len(ms) /\ l - 1 \in 1 .. k - 1
      BY <1>1, <2>1, <3>1, <3>2
    <3> QED BY <1>2, <3>1, <3>3
  <2>4. CASE IsAbout(ms[1], "RTM_DELETE", p)
    <3>1. PICK l \in 1 + 1 .. (k + 1) - 1 : IsAbout(ms[l], "RTM_ADD", p)
      BY <2>1, <2>4 DEF Alternates
    <3>2. l \in 2 .. Len(ms) /\ l - 1 \in 1 .. k - 1
      BY <1>1, <2>1, <3>1
    <3> QED BY <1>2, <3>1, <3>2
  <2> QED BY <1>1, <1>4, <2>3, <2>4
<1>5. ASSUME p \in routes, NEW j \in 1 .. Len(ns), IsAbout(ns[j], "RTM_DELETE", p)
      PROVE  \E l \in j + 1 .. Len(ns) : IsAbout(ns[l], "RTM_ADD", p)
  <2>1. j + 1 \in 1 .. Len(ms) /\ IsAbout(ms[j + 1], "RTM_DELETE", p)
    BY <1>1, <1>5
  <2>2. PICK l \in (j + 1) + 1 .. Len(ms) : IsAbout(ms[l], "RTM_ADD", p)
    BY <1>5, <2>1 DEF Alternates
  <2>3. l \in 2 .. Len(ms) /\ l - 1 \in j + 1 .. Len(ns)
    BY <1>1, <2>1, <2>2
  <2> QED BY <1>2, <2>2, <2>3
<1>6. ASSUME p \in routes, g[p].timer # NoTimer PROVE \E l \in 1 .. Len(ns) : IsAbout(ns[l], "RTM_ADD", p)
  <2>1. ~IsAbout(ms[1], "RTM_ADD", p) /\ 1 \in 1 .. Len(ms)
    BY <1>1, <1>6
  <2>2. CASE f[p].timer # NoTimer
    <3>1. PICK l \in 1 .. Len(ms) : IsAbout(ms[l], "RTM_ADD", p)
      BY <1>6, <2>2 DEF Alternates
    <3>2. l \in 2 .. Len(ms)
      <4>1. l # 1
        BY <2>1, <3>1
      <4> QED BY <1>1, <3>1, <4>1
    <3> QED BY <1>2, <3>1, <3>2
  <2>3. CASE IsAbout(ms[1], "RTM_DELETE", p)
    <3>1. PICK l \in 1 + 1 .. Len(ms) : IsAbout(ms[l], "RTM_ADD", p)
      BY <1>6, <2>1, <2>3 DEF Alternates
    <3> QED BY <1>2, <3>1
  <2> QED BY <1>1, <1>6, <2>2, <2>3
<1> QED BY <1>3, <1>4, <1>5, <1>6

\* The kernel changes.
LEMMA StepPosts ==
    ASSUME RtadvdInv, NEW m \in RtMsg, Running, Post(m), kernel' \in [up : BOOLEAN, routes : SUBSET Pfx],
           Alternates(Append(msgs, m), kernel'.routes, rai.prefix)
    PROVE  RtadvdInv'
<1>1. msgs' = Append(msgs, m) /\ UNCHANGED <<conf, rai, sent, at, status>>
  BY DEF Post
<1>2. msgs' \in Seq(RtMsg)
  BY <1>1 DEF RtadvdInv
<1>3. Busy(rai, sent)'
  BY <1>1 DEF RtadvdInv, Busy
<1> QED BY <1>1, <1>2, <1>3 DEF RtadvdInv, Running

LEMMA StepKernel ==
    ASSUME RtadvdInv, (\E p \in Pfx : AddRoute(p) \/ DeleteRoute(p)) \/ LinkChanges \/ AddressChanges
    PROVE  RtadvdInv'
<1>1. Running /\ msgs \in Seq(RtMsg) /\ Alternates(msgs, kernel.routes, rai.prefix)
      /\ kernel \in [up : BOOLEAN, routes : SUBSET Pfx]
  BY DEF RtadvdInv, Busy, AddRoute, DeleteRoute, LinkChanges, AddressChanges
<1>2. ASSUME NEW p \in Pfx, AddRoute(p) PROVE RtadvdInv'
  <2> DEFINE m == [type |-> "RTM_ADD", p |-> p]
  <2>1. m \in RtMsg /\ m.type = "RTM_ADD" /\ m.p = p
    BY DEF RtMsg
  <2>2. kernel' = [kernel EXCEPT !.routes = @ \cup {p}] /\ Post(m)
    BY <1>2 DEF AddRoute
  <2> HIDE DEF m
  <2>3. kernel' \in [up : BOOLEAN, routes : SUBSET Pfx] /\ kernel'.routes = kernel.routes \cup {p}
    BY <1>1, <2>2
  <2>4. Alternates(Append(msgs, m), kernel'.routes, rai.prefix)
    BY <1>1, <2>1, <2>3, TurnsOfAdd
  <2> QED BY <1>1, <2>1, <2>2, <2>3, <2>4, StepPosts
<1>3. ASSUME NEW p \in Pfx, DeleteRoute(p) PROVE RtadvdInv'
  <2> DEFINE m == [type |-> "RTM_DELETE", p |-> p]
  <2>1. m \in RtMsg /\ m.type = "RTM_DELETE" /\ m.p = p
    BY DEF RtMsg
  <2>2. kernel' = [kernel EXCEPT !.routes = @ \ {p}] /\ Post(m) /\ p \in kernel.routes
    BY <1>3 DEF DeleteRoute
  <2> HIDE DEF m
  <2>3. kernel' \in [up : BOOLEAN, routes : SUBSET Pfx] /\ kernel'.routes = kernel.routes \ {p}
    BY <1>1, <2>2
  <2>4. Alternates(Append(msgs, m), kernel'.routes, rai.prefix)
    BY <1>1, <2>1, <2>2, <2>3, TurnsOfDelete
  <2> QED BY <1>1, <2>1, <2>2, <2>3, <2>4, StepPosts
<1>4. CASE LinkChanges
  <2> DEFINE m == [type |-> "RTM_IFINFO", up |-> ~kernel.up]
  <2>1. m \in RtMsg /\ m.type \notin {"RTM_ADD", "RTM_DELETE"}
    BY DEF RtMsg
  <2>2. kernel' = [kernel EXCEPT !.up = ~@] /\ Post(m)
    BY <1>4 DEF LinkChanges
  <2> HIDE DEF m
  <2>3. kernel' \in [up : BOOLEAN, routes : SUBSET Pfx] /\ kernel'.routes = kernel.routes
    BY <1>1, <2>2
  <2>4. Alternates(Append(msgs, m), kernel'.routes, rai.prefix)
    BY <1>1, <2>1, <2>3, TurnsOfOthers
  <2> QED BY <1>1, <2>1, <2>2, <2>3, <2>4, StepPosts
<1>5. CASE AddressChanges
  <2> DEFINE m == [type |-> "RTM_NEWADDR"]
  <2>1. m \in RtMsg /\ m.type \notin {"RTM_ADD", "RTM_DELETE"}
    BY DEF RtMsg
  <2>2. kernel' = kernel /\ Post(m)
    BY <1>5 DEF AddressChanges
  <2> HIDE DEF m
  <2>3. Alternates(Append(msgs, m), kernel'.routes, rai.prefix)
    BY <1>1, <2>1, <2>2, TurnsOfOthers
  <2> QED BY <1>1, <2>1, <2>2, <2>3, StepPosts
<1> QED BY <1>2, <1>3, <1>4, <1>5

LEMMA DefaultPrefixOK ==
    DefaultPrefix \in PrefixType /\ PrefixOK(DefaultPrefix) /\ DefaultPrefix.in = TRUE /\ DefaultPrefix.timer = NoTimer
<1>1. NoExpire \in Int /\ 9 \in Int /\ 6 \in Int
  BY RtadvdAssumption DEF NoExpire
<1>2. LET new == NewPrefix(9, NoExpire, 6, NoExpire)
      IN  new \in PrefixType /\ PrefixOK(new) /\ new.in = TRUE /\ new.timer = NoTimer
  BY <1>1 DEF NewPrefix, PrefixType, PrefixOK, NoTimer
<1> QED BY <1>2 DEF DefaultPrefix, DEF_ADVVALIDLIFETIME, DEF_ADVPREFERREDLIFETIME

WithPrefix(r, q, x) ==
    [r EXCEPT !.prefix[q] = x, !.pfxs = IF r.prefix[q].in THEN r.pfxs ELSE r.pfxs + 1]
OneChanged(a, r, q, x) ==
    /\ RaiOK(a) /\ a.prefix[q] = x /\ a.up = r.up /\ a.timer = r.timer /\ a.old = r.old
    /\ a.since = r.since /\ a.initcounter = r.initcounter /\ a.waiting = r.waiting
    /\ \A p \in Pfx : p # q => a.prefix[p] = r.prefix[p]

\* A change of one prefix that is on the list, or gets there.
LEMMA OnePrefix ==
    ASSUME NEW r, RaiOK(r), NEW q \in Pfx, NEW x \in PrefixType, PrefixOK(x), x.in = TRUE,
           NEW a, a = WithPrefix(r, q, x)
    PROVE  OneChanged(a, r, q, x)
<1> DEFINE n == IF r.prefix[q].in THEN r.pfxs ELSE r.pfxs + 1
<1>1. r \in RaiType /\ n \in Int
  BY DEF RaiOK, RaiType
<1>2. /\ a \in RaiType /\ a.prefix[q] = x /\ a.pfxs = n /\ a.up = r.up /\ a.timer = r.timer /\ a.old = r.old
      /\ a.since = r.since /\ a.initcounter = r.initcounter /\ a.waiting = r.waiting
      /\ \A p \in Pfx : p # q => a.prefix[p] = r.prefix[p]
  BY <1>1 DEF RaiType, WithPrefix
<1>3. Count(a) = n
  <2>1. In(a) = In(r) \cup {q}
    BY <1>2 DEF In
  <2>2. Cardinality(In(a)) = IF q \in In(r) THEN Cardinality(In(r)) ELSE Cardinality(In(r)) + 1
    BY <2>1, InIsFinite, FS_AddElement
  <2>3. r.pfxs = Cardinality(In(r)) /\ Cardinality(In(a)) = Count(a)
    BY InIsFinite DEF RaiOK
  <2>4. q \in In(r) <=> r.prefix[q].in
    BY DEF In
  <2> QED BY <2>2, <2>3, <2>4
<1>4. \A p \in Pfx : PrefixOK(a.prefix[p])
  BY <1>2 DEF RaiOK
<1>5. RaiOK(a)
  BY <1>2, <1>3, <1>4 DEF RaiOK
<1> QED BY <1>2, <1>5 DEF OneChanged

LEMMA TimerOfPrefix ==
    ASSUME NEW y \in PrefixType, PrefixOK(y), y.in = TRUE
    PROVE  /\ LET x == [y EXCEPT !.timer = NoTimer, !.late = FALSE]
              IN  x \in PrefixType /\ PrefixOK(x) /\ x.in = TRUE /\ x.timer = NoTimer
           /\ LET x == [y EXCEPT !.timer = PrefixTimo]
              IN  x \in PrefixType /\ PrefixOK(x) /\ x.in = TRUE
<1>1. NoTimer \in Int /\ PrefixTimo \in Int /\ PrefixTimo >= NoTimer
  BY RtadvdAssumption DEF NoTimer
<1> DEFINE x == [y EXCEPT !.timer = NoTimer, !.late = FALSE]
           z == [y EXCEPT !.timer = PrefixTimo]
<1>2. /\ x \in PrefixType /\ x.in = TRUE /\ x.timer = NoTimer
      /\ x.vlexpire = y.vlexpire /\ x.plexpire = y.plexpire
  BY <1>1 DEF PrefixType
<1>3. /\ z \in PrefixType /\ z.in = TRUE /\ z.timer = PrefixTimo
      /\ z.vlexpire = y.vlexpire /\ z.plexpire = y.plexpire
  BY <1>1 DEF PrefixType
<1> HIDE DEF x, z
<1>4. NoTimer >= NoTimer
  BY <1>1
<1>5. PrefixOK(x)
  BY <1>2, <1>4 DEF PrefixOK
<1>6. PrefixOK(z)
  BY <1>1, <1>3 DEF PrefixOK
<1> QED BY <1>2, <1>3, <1>5, <1>6 DEF x, z

\* What a message does to the prefixes, and that it is no second withdrawal.
LEMMA Applies ==
    ASSUME RtadvdInv, Running, msgs # <<>>
    PROVE  LET a == Applied(rai, Head(msgs))
               m == Head(msgs)
           IN  /\ ~(m.type = "RTM_DELETE" /\ rai.prefix[m.p].timer # NoTimer)
               /\ RaiOK(a) /\ Alternates(Tail(msgs), kernel.routes, a.prefix)
               /\ a.up = rai.up /\ a.timer = rai.timer /\ a.old = rai.old /\ a.since = rai.since
               /\ a.initcounter = rai.initcounter /\ a.waiting = rai.waiting
<1> DEFINE m == Head(msgs)
           a == Applied(rai, m)
           Kept(b) == /\ b.up = rai.up /\ b.timer = rai.timer /\ b.old = rai.old /\ b.since = rai.since
                      /\ b.initcounter = rai.initcounter /\ b.waiting = rai.waiting
<1>1. /\ m \in RtMsg /\ RaiOK(rai) /\ Alternates(msgs, kernel.routes, rai.prefix) /\ msgs \in Seq(RtMsg)
      /\ m = msgs[1] /\ 1 \in 1 .. Len(msgs)
  BY DEF RtadvdInv, Busy
<1>2. ~(m.type = "RTM_DELETE" /\ rai.prefix[m.p].timer # NoTimer)
  <2> SUFFICES ASSUME m.type = "RTM_DELETE", rai.prefix[m.p].timer # NoTimer PROVE FALSE
    OBVIOUS
  <2>1. m.p \in Pfx
    BY <1>1 DEF RtMsg
  <2>2. IsAbout(msgs[1], "RTM_DELETE", m.p)
    BY <1>1 DEF IsAbout
  <2>3. \E l \in 1 .. 1 - 1 : IsAbout(msgs[l], "RTM_ADD", m.p)
    BY <1>1, <2>1, <2>2 DEF Alternates
  <2> QED BY <2>3
<1>3. CASE m.type = "RTM_ADD" /\ ~rai.prefix[m.p].in
  <2>1. m.p \in Pfx
    BY <1>1, <1>3 DEF RtMsg
  <2>2. a = [rai EXCEPT !.prefix[m.p] = DefaultPrefix, !.pfxs = rai.pfxs + 1]
    BY <1>3 DEF Applied, make_prefix
  <2>3. rai.pfxs + 1 \in Int
    BY <1>1 DEF RaiOK, RaiType
  <2> HIDE DEF a
  <2>4. RaiOK(a) /\ Kept(a) /\ a.prefix[m.p] = DefaultPrefix /\ \A p \in Pfx : p # m.p => a.prefix[p] = rai.prefix[p]
    <3>1. rai.pfxs + 1 = IF rai.prefix[m.p].in THEN rai.pfxs ELSE rai.pfxs + 1
      BY <1>3
    <3> DEFINE q == m.p
    <3>2. q \in Pfx
      BY <2>1
    <3>3. a = WithPrefix(rai, q, DefaultPrefix)
      BY <2>2, <3>1 DEF WithPrefix
    <3> HIDE DEF m, q
    <3>4. OneChanged(a, rai, q, DefaultPrefix)
      BY <1>1, <3>2, <3>3, OnePrefix, DefaultPrefixOK
    <3> QED BY <3>4 DEF q, OneChanged
  <2>5. Alternates(Tail(msgs), kernel.routes, a.prefix)
    BY <1>1, <1>3, <2>4, TurnsOfTail, DefaultPrefixOK DEF IsAbout
  <2> QED BY <1>2, <2>4, <2>5 DEF a
<1>4. CASE m.type = "RTM_ADD" /\ rai.prefix[m.p].in /\ rai.prefix[m.p].timer # NoTimer
  <2> DEFINE x == [rai.prefix[m.p] EXCEPT !.timer = NoTimer, !.late = FALSE]
  <2>1. m.p \in Pfx
    BY <1>1, <1>4 DEF RtMsg
  <2>2. rai.prefix[m.p] \in PrefixType /\ PrefixOK(rai.prefix[m.p])
    BY <1>1, <2>1 DEF RaiOK, RaiType
  <2>3. x \in PrefixType /\ PrefixOK(x) /\ x.in = TRUE /\ x.timer = NoTimer
    <3>1. rai.prefix[m.p].in = TRUE
      BY <1>4, <2>2 DEF PrefixType
    <3> HIDE DEF m
    <3> QED BY <2>2, <3>1, TimerOfPrefix
  <2>4. a = [rai EXCEPT !.prefix[m.p] = x, !.pfxs = rai.pfxs]
    BY <1>1, <1>4, <2>1 DEF Applied, update_prefix, RaiOK, RaiType, PrefixType
  <2> HIDE DEF a, x
  <2>5. rai.pfxs \in Int
    BY <1>1 DEF RaiOK, RaiType
  <2>6. RaiOK(a) /\ Kept(a) /\ a.prefix[m.p] = x /\ \A p \in Pfx : p # m.p => a.prefix[p] = rai.prefix[p]
    <3>1. rai.pfxs = IF rai.prefix[m.p].in THEN rai.pfxs ELSE rai.pfxs + 1
      BY <1>4
    <3> DEFINE q == m.p
    <3>2. q \in Pfx
      BY <2>1
    <3>3. a = WithPrefix(rai, q, x)
      BY <2>4, <3>1 DEF WithPrefix
    <3> HIDE DEF m, q
    <3>4. OneChanged(a, rai, q, x)
      BY <1>1, <2>3, <3>2, <3>3, OnePrefix
    <3> QED BY <3>4 DEF q, OneChanged
  <2>7. Alternates(Tail(msgs), kernel.routes, a.prefix)
    BY <1>1, <1>4, <2>3, <2>6, TurnsOfTail DEF IsAbout
  <2> QED BY <1>2, <2>6, <2>7 DEF a
<1>5. CASE m.type = "RTM_DELETE" /\ rai.prefix[m.p].in
  <2> DEFINE x == [rai.prefix[m.p] EXCEPT !.timer = PrefixTimo]
  <2>1. m.p \in Pfx
    BY <1>1, <1>5 DEF RtMsg
  <2>2. rai.prefix[m.p] \in PrefixType /\ PrefixOK(rai.prefix[m.p])
    BY <1>1, <2>1 DEF RaiOK, RaiType
  <2>3. x \in PrefixType /\ PrefixOK(x) /\ x.in = TRUE
    <3>1. rai.prefix[m.p].in = TRUE
      BY <1>5, <2>2 DEF PrefixType
    <3> HIDE DEF m
    <3> QED BY <2>2, <3>1, TimerOfPrefix
  <2>4. a = [rai EXCEPT !.prefix[m.p] = x, !.pfxs = rai.pfxs]
    BY <1>1, <1>5, <2>1 DEF Applied, invalidate_prefix, RaiOK, RaiType, PrefixType
  <2> HIDE DEF a, x
  <2>5. rai.pfxs \in Int
    BY <1>1 DEF RaiOK, RaiType
  <2>6. RaiOK(a) /\ Kept(a) /\ a.prefix[m.p] = x /\ \A p \in Pfx : p # m.p => a.prefix[p] = rai.prefix[p]
    <3>1. rai.pfxs = IF rai.prefix[m.p].in THEN rai.pfxs ELSE rai.pfxs + 1
      BY <1>5
    <3> DEFINE q == m.p
    <3>2. q \in Pfx
      BY <2>1
    <3>3. a = WithPrefix(rai, q, x)
      BY <2>4, <3>1 DEF WithPrefix
    <3> HIDE DEF m, q
    <3>4. OneChanged(a, rai, q, x)
      BY <1>1, <2>3, <3>2, <3>3, OnePrefix
    <3> QED BY <3>4 DEF q, OneChanged
  <2>7. Alternates(Tail(msgs), kernel.routes, a.prefix)
    BY <1>1, <1>5, <2>6, TurnsOfTail DEF IsAbout
  <2> QED BY <1>2, <2>6, <2>7 DEF a
<1>6. CASE /\ ~(m.type = "RTM_ADD" /\ ~rai.prefix[m.p].in)
           /\ ~(m.type = "RTM_ADD" /\ rai.prefix[m.p].in /\ rai.prefix[m.p].timer # NoTimer)
           /\ ~(m.type = "RTM_DELETE" /\ rai.prefix[m.p].in)
  <2>1. a = rai
    BY <1>6 DEF Applied
  <2>2. \A p \in Pfx : IsAbout(m, "RTM_ADD", p) => rai.prefix[p].timer = NoTimer
    BY <1>6 DEF IsAbout
  <2>3. Alternates(Tail(msgs), kernel.routes, rai.prefix)
    BY <1>1, <2>2, TurnsOfTail
  <2> QED BY <1>1, <1>2, <2>1, <2>3
<1> QED BY <1>3, <1>4, <1>5, <1>6

\* An interface with nothing but its own timers and counters changed.
LEMMA SameLists ==
    ASSUME NEW r, RaiOK(r), NEW s \in RaiType, s.prefix = r.prefix, s.pfxs = r.pfxs,
           s.timer >= NoTimer, s.old >= NoTimer, s.initcounter >= 0, s.since \in 0 .. MIN_DELAY_BETWEEN_RAS
    PROVE  RaiOK(s)
<1>1. Count(s) = Count(r)
  BY SamePrefixes
<1> QED BY <1>1 DEF RaiOK

\* A short delay leaves the interface paced and prompt.
LEMMA ShortDelayOK ==
    ASSUME NEW r, RaiOK(r), r.timer # NoTimer, NEW rnd \in {0, 1}, NEW x
    PROVE  LET s == set_short_delay(r, rnd)
           IN  RaiOK(s) /\ Paced(s) /\ Prompt(s, x) /\ s.prefix = r.prefix /\ s.up = r.up
<1> DEFINE s == set_short_delay(r, rnd)
<1>1. r \in RaiType /\ r.timer >= 0 /\ r.since \in 0 .. MIN_DELAY_BETWEEN_RAS
  BY DEF RaiOK, RaiType, NoTimer
<1>2. PICK t \in Nat : /\ s = [r EXCEPT !.timer = t]
                       /\ t < MIN_DELAY_BETWEEN_RAS + MAX_RA_DELAY_TIME
                       /\ t + r.since >= MIN_DELAY_BETWEEN_RAS
  BY <1>1, ShortDelay
<1> HIDE DEF s
<1>3. /\ s \in RaiType /\ s.timer = t /\ s.prefix = r.prefix /\ s.pfxs = r.pfxs /\ s.up = r.up /\ s.old = r.old
      /\ s.since = r.since /\ s.initcounter = r.initcounter
  BY <1>1, <1>2 DEF RaiType
<1>4. t # NoTimer /\ t >= NoTimer
  BY DEF NoTimer
<1>5. RaiOK(s)
  BY <1>3, <1>4, SameLists DEF RaiOK
<1>6. Paced(s) /\ Prompt(s, x)
  BY <1>2, <1>3, <1>4 DEF Paced, Prompt
<1> QED BY <1>3, <1>5, <1>6 DEF s

\* A new timer and the prefixes' marks.
Anew(s, r, old, prefix) ==
    /\ s \in RaiType /\ s.prefix = prefix /\ s.pfxs = r.pfxs /\ s.timer = 0 /\ s.old = old
    /\ s.initcounter = 0 /\ s.since = r.since /\ s.up = r.up /\ s.waiting = 0

LEMMA RestartOK ==
    ASSUME NEW r \in RaiType, NEW old \in Int, NEW prefix \in [Pfx -> PrefixType]
    PROVE  Anew([r EXCEPT !.initcounter = 0, !.waiting = 0, !.timer = 0, !.old = old, !.prefix = prefix], r, old, prefix)
<1> DEFINE q == [r EXCEPT !.initcounter = 0, !.waiting = 0, !.timer = 0]
<1>1. q \in RaiType /\ q.initcounter = 0 /\ q.waiting = 0 /\ q.timer = 0 /\ q.pfxs = r.pfxs /\ q.since = r.since /\ q.up = r.up
  <2>1. 0 \in Int
    OBVIOUS
  <2> QED BY <2>1 DEF RaiType
<1>2. [r EXCEPT !.initcounter = 0, !.waiting = 0, !.timer = 0, !.old = old, !.prefix = prefix]
         = [q EXCEPT !.old = old, !.prefix = prefix]
  BY DEF RaiType
<1> HIDE DEF q
<1>3. Anew([q EXCEPT !.old = old, !.prefix = prefix], r, old, prefix)
  BY <1>1 DEF RaiType, Anew
<1> QED BY <1>2, <1>3

\* The timers.
WithTimers(s, r, timer, old, since, prefix) ==
    /\ s \in RaiType /\ s.timer = timer /\ s.old = old /\ s.since = since /\ s.prefix = prefix
    /\ s.up = r.up /\ s.waiting = r.waiting /\ s.initcounter = r.initcounter /\ s.pfxs = r.pfxs

LEMMA TimersSet ==
    ASSUME NEW r \in RaiType, NEW timer \in Int, NEW old \in Int, NEW since \in 0 .. MIN_DELAY_BETWEEN_RAS,
           NEW prefix \in [Pfx -> PrefixType]
    PROVE  WithTimers([r EXCEPT !.timer = timer, !.old = old, !.since = since, !.prefix = prefix],
                      r, timer, old, since, prefix)
<1>1. since \in Int
  BY RtadvdAssumption
<1> QED BY <1>1 DEF RaiType, WithTimers

\* A message of the routing socket.
LEMMA StepMessage ==
    ASSUME RtadvdInv, NEW ok \in BOOLEAN, NEW rnd \in {0, 1}, rtmsg_input(ok, rnd)
    PROVE  RtadvdInv'
<1> DEFINE m == Head(msgs)
           a == Applied(rai, m)
           up == NewFlags(m, ok)
           r == [a EXCEPT !.up = up]
<1>1. /\ Running /\ msgs # <<>> /\ msgs' = Tail(msgs) /\ UNCHANGED <<conf, kernel, sent>>
      /\ Valid(conf) /\ conf \in Config /\ msgs \in Seq(RtMsg) /\ m \in RtMsg
      /\ kernel \in [up : BOOLEAN, routes : SUBSET Pfx]
  BY DEF rtmsg_input, RtadvdInv, Running
<1>2. /\ ~(m.type = "RTM_DELETE" /\ rai.prefix[m.p].timer # NoTimer)
      /\ RaiOK(a) /\ Alternates(Tail(msgs), kernel.routes, a.prefix)
      /\ a.up = rai.up /\ a.timer = rai.timer /\ a.old = rai.old /\ a.since = rai.since
      /\ a.initcounter = rai.initcounter /\ a.waiting = rai.waiting
  BY <1>1, Applies
<1>3. up \in BOOLEAN
  BY <1>1 DEF NewFlags, if_getflags, RtMsg
<1>4. make_packet(a, conf)
  BY <1>1, <1>2, PacketFits DEF RaiOK
<1>5. status' = status
  BY <1>2, <1>4 DEF rtmsg_input
<1>6. rai' = IF rai.up /\ ~r.up THEN [r EXCEPT !.timer = NoTimer]
             ELSE IF ~rai.up /\ r.up THEN restarted(r)
             ELSE IF a # rai /\ r.up THEN set_short_delay([r EXCEPT !.initcounter = 0], rnd)
             ELSE r
  BY DEF rtmsg_input
<1> HIDE DEF m, a, up
<1>7. /\ RaiOK(r) /\ r.up = up /\ r.prefix = a.prefix /\ r.timer = rai.timer /\ r.old = rai.old
      /\ r.since = rai.since /\ r.initcounter = rai.initcounter /\ r.waiting = rai.waiting
  <2>1. /\ r \in RaiType /\ r.up = up /\ r.prefix = a.prefix /\ r.timer = a.timer /\ r.old = a.old
        /\ r.since = a.since /\ r.initcounter = a.initcounter /\ r.waiting = a.waiting /\ r.pfxs = a.pfxs
    BY <1>2, <1>3 DEF RaiOK, RaiType
  <2> HIDE DEF r
  <2>2. RaiOK(r)
    BY <1>2, <2>1, SameLists DEF RaiOK
  <2> QED BY <1>2, <2>1, <2>2
<1>8. rai.up \in BOOLEAN /\ Paced(rai) /\ Prompt(rai, sent)
  BY <1>1 DEF RtadvdInv, Busy, RaiOK, RaiType
<1>9. a = rai => r.pfxs = rai.pfxs /\ r.prefix = rai.prefix
  BY <1>2 DEF RaiOK, RaiType
<1> HIDE DEF r
<1>10. /\ RaiOK(rai') /\ Paced(rai') /\ Prompt(rai', sent)
       /\ \A p \in Pfx : rai'.prefix[p].timer = a.prefix[p].timer
  <2>1. CASE rai.up /\ ~r.up
    <3>1. rai' = [r EXCEPT !.timer = NoTimer]
      BY <1>6, <2>1
    <3>2. /\ rai' \in RaiType /\ rai'.prefix = r.prefix /\ rai'.pfxs = r.pfxs /\ rai'.timer = NoTimer
          /\ rai'.old = r.old /\ rai'.initcounter = r.initcounter /\ rai'.since = r.since /\ rai'.up = r.up
      BY <3>1, <1>7 DEF RaiOK, RaiType, NoTimer
    <3>3. NoTimer >= NoTimer
      BY DEF NoTimer
    <3>4. RaiOK(rai')
      BY <1>7, <3>2, <3>3, SameLists DEF RaiOK
    <3> QED BY <1>7, <2>1, <3>2, <3>4 DEF Paced, Prompt
  <2>2. CASE ~rai.up /\ r.up
    <3> DEFINE old == IF r.timer # NoTimer THEN r.timer ELSE r.old
               prefix == [p \in Pfx |-> [r.prefix[p] EXCEPT !.late = r.prefix[p].timer # NoTimer]]
    <3>1. rai' = [r EXCEPT !.initcounter = 0, !.waiting = 0, !.timer = 0, !.old = old, !.prefix = prefix]
      BY <1>6, <2>2 DEF restarted
    <3>2. r \in RaiType /\ \A p \in Pfx : r.prefix[p] \in PrefixType /\ PrefixOK(r.prefix[p])
      BY <1>7 DEF RaiOK, RaiType
    <3>3. \A p \in Pfx : /\ prefix[p] \in PrefixType /\ PrefixOK(prefix[p]) /\ prefix[p].in = r.prefix[p].in
                         /\ prefix[p].timer = r.prefix[p].timer
      <4> SUFFICES ASSUME NEW p \in Pfx
                   PROVE  /\ prefix[p] \in PrefixType /\ PrefixOK(prefix[p]) /\ prefix[p].in = r.prefix[p].in
                          /\ prefix[p].timer = r.prefix[p].timer
        OBVIOUS
      <4> DEFINE y == r.prefix[p]
                 z == [y EXCEPT !.late = y.timer # NoTimer]
      <4>1. y \in PrefixType /\ PrefixOK(y)
        BY <3>2
      <4>2. prefix[p] = z
        OBVIOUS
      <4> HIDE DEF y
      <4>3. z \in PrefixType /\ z.in = y.in /\ z.timer = y.timer /\ z.vlexpire = y.vlexpire /\ z.plexpire = y.plexpire
        BY <4>1 DEF PrefixType
      <4> HIDE DEF z
      <4> QED BY <4>1, <4>2, <4>3 DEF PrefixOK, y
    <3>4. prefix \in [Pfx -> PrefixType]
      BY <3>3
    <3>5. old \in Int /\ old >= NoTimer
      BY <1>7 DEF RaiOK, RaiType
    <3> HIDE DEF old, prefix
    <3>6. /\ rai' \in RaiType /\ rai'.prefix = prefix /\ rai'.pfxs = r.pfxs /\ rai'.timer = 0 /\ rai'.old = old
          /\ rai'.initcounter = 0 /\ rai'.since = r.since /\ rai'.up = r.up /\ rai'.waiting = 0
      <4>1. Anew(rai', r, old, prefix)
        BY <3>1, <3>2, <3>4, <3>5, RestartOK, Zenon
      <4> QED BY <4>1 DEF Anew
    <3>7. Count(rai') = Count(r)
      BY <3>3, <3>6, SamePrefixes
    <3>8. RaiOK(rai')
      BY <1>7, <3>3, <3>5, <3>6, <3>7 DEF RaiOK, NoTimer
    <3>9. Paced(rai') /\ Prompt(rai', sent)
      BY <3>6, RtadvdAssumption DEF Paced, Prompt, NoTimer
    <3> QED BY <1>7, <3>3, <3>6, <3>8, <3>9
  <2>3. CASE rai.up /\ r.up /\ a # rai
    <3> DEFINE s == [r EXCEPT !.initcounter = 0]
    <3>1. rai' = set_short_delay(s, rnd)
      BY <1>6, <2>3
    <3>2. /\ s \in RaiType /\ s.prefix = r.prefix /\ s.pfxs = r.pfxs /\ s.timer = r.timer
          /\ s.old = r.old /\ s.initcounter = 0 /\ s.since = r.since /\ s.up = r.up
      BY <1>7 DEF RaiOK, RaiType
    <3> HIDE DEF s
    <3>3. RaiOK(s)
      BY <1>7, <3>2, SameLists DEF RaiOK
    <3>4. s.timer # NoTimer
      BY <1>7, <1>8, <2>3, <3>2 DEF Paced
    <3>5. RaiOK(rai') /\ Paced(rai') /\ Prompt(rai', sent) /\ rai'.prefix = s.prefix
      BY <3>1, <3>3, <3>4, ShortDelayOK
    <3> QED BY <1>7, <3>2, <3>5
  <2>4. CASE /\ ~(rai.up /\ ~r.up) /\ ~(~rai.up /\ r.up) /\ ~(rai.up /\ r.up /\ a # rai)
    <3>1. rai' = r
      BY <1>6, <2>4
    <3>2. r.up = rai.up
      BY <1>3, <1>7, <1>8, <2>4
    <3>3. r.up => a = rai
      BY <2>4, <3>2
    <3>4. Paced(r) /\ Prompt(r, sent)
      BY <1>7, <1>8, <1>9, <3>2, <3>3 DEF Paced, Prompt, Heard
    <3> QED BY <1>7, <3>1, <3>4
  <2> QED BY <2>1, <2>2, <2>3, <2>4
<1>11. Alternates(Tail(msgs), kernel.routes, rai'.prefix)
  BY <1>2, <1>10, FewerTimers
<1>12. Busy(rai, sent)'
  BY <1>1, <1>10, <1>11 DEF Busy
<1>13. msgs' \in Seq(RtMsg)
  BY <1>1
<1> QED BY <1>1, <1>5, <1>10, <1>12, <1>13 DEF RtadvdInv, Running

\* A packet.
LEMMA StepPacket ==
    ASSUME RtadvdInv, NEW rnd \in {0, 1}, rtadvd_input(rnd)
    PROVE  RtadvdInv'
<1>1. /\ Running /\ UNCHANGED <<conf, kernel, msgs, sent, status>> /\ RaiOK(rai)
      /\ Alternates(msgs, kernel.routes, rai.prefix) /\ Paced(rai) /\ Prompt(rai, sent)
  BY DEF rtadvd_input, RtadvdInv, Busy
<1>2. RaiOK(rai') /\ Paced(rai') /\ Prompt(rai', sent) /\ rai'.prefix = rai.prefix
  <2>1. CASE UNCHANGED rai
    BY <1>1, <2>1
  <2>2. CASE rai.up /\ rai' = rs_input(rnd)
    <3> DEFINE r == [rai EXCEPT !.waiting = @ + 1]
    <3>1. /\ r \in RaiType /\ r.prefix = rai.prefix /\ r.pfxs = rai.pfxs /\ r.timer = rai.timer
          /\ r.old = rai.old /\ r.initcounter = rai.initcounter /\ r.since = rai.since /\ r.up = rai.up
      BY <1>1 DEF RaiOK, RaiType
    <3>2. rai' = IF rai.waiting > 0 THEN r ELSE set_short_delay(r, rnd)
      BY <2>2 DEF rs_input
    <3> HIDE DEF r
    <3>3. RaiOK(r) /\ r.timer # NoTimer
      BY <1>1, <2>2, <3>1, SameLists DEF RaiOK, Paced
    <3>4. CASE rai.waiting > 0
      <4>1. Prompt(r, sent)
        BY <1>1, <2>2, <3>1, <3>4 DEF Prompt, Heard
      <4>2. Paced(r)
        BY <1>1, <3>1 DEF Paced
      <4> QED BY <3>1, <3>2, <3>3, <3>4, <4>1, <4>2
    <3>5. CASE ~(rai.waiting > 0)
      BY <3>1, <3>2, <3>3, <3>5, ShortDelayOK
    <3> QED BY <3>4, <3>5
  <2>3. CASE rai.up /\ \E adv \in OtherRA : rai' = ra_input(adv)
    <3>1. PICK b \in BOOLEAN : rai' = [rai EXCEPT !.inconsistent = b]
      BY <2>3 DEF ra_input
    <3>2. /\ rai' \in RaiType /\ rai'.prefix = rai.prefix /\ rai'.pfxs = rai.pfxs /\ rai'.timer = rai.timer
          /\ rai'.old = rai.old /\ rai'.initcounter = rai.initcounter /\ rai'.since = rai.since
          /\ rai'.up = rai.up /\ rai'.waiting = rai.waiting
      BY <1>1, <3>1 DEF RaiOK, RaiType
    <3>3. RaiOK(rai')
      BY <1>1, <3>2, SameLists DEF RaiOK
    <3> QED BY <1>1, <3>2, <3>3 DEF Paced, Prompt, Heard
  <2> QED BY <2>1, <2>2, <2>3 DEF rtadvd_input
<1>3. Busy(rai, sent)'
  BY <1>1, <1>2 DEF Busy
<1> QED BY <1>1, <1>2, <1>3 DEF RtadvdInv, Running

-----------------------------------------------------------------------------
(* The time, and the end.                                                  *)

\* A prefix a while later: what is counted down is less, what is not stays.
Elapsed(z, y) ==
    /\ z \in PrefixType /\ PrefixOK(z) /\ z.in = y.in
    /\ z.timer # NoTimer => y.timer # NoTimer
    /\ Fixed(z) => Fixed(y) /\ PrefixLifetime(z) = PrefixLifetime(y)

Later(y) == [y EXCEPT !.timer = Less(@), !.vlexpire = Sooner(@), !.plexpire = Sooner(@)]

LEMMA LessTime ==
    ASSUME NEW t \in Int, t >= NoTimer
    PROVE  Less(t) \in Int /\ Less(t) >= NoTimer /\ (Less(t) # NoTimer <=> t # NoTimer) /\ Less(t) <= t
  BY DEF Less, NoTimer

LEMMA SoonerTime ==
    ASSUME NEW t \in Int, t = NoExpire \/ t >= -MaxPast
    PROVE  /\ Sooner(t) \in Int /\ (Sooner(t) = NoExpire \/ Sooner(t) >= -MaxPast)
           /\ Sooner(t) = NoExpire <=> t = NoExpire
  BY RtadvdAssumption DEF Sooner, NoExpire

LEMMA LaterOK ==
    ASSUME NEW y \in PrefixType, PrefixOK(y)
    PROVE  Elapsed(Later(y), y)
<1> DEFINE z == Later(y)
           t == Less(y.timer)
           v == Sooner(y.vlexpire)
           w == Sooner(y.plexpire)
<1>1. /\ t \in Int /\ t >= NoTimer /\ (t # NoTimer <=> y.timer # NoTimer)
      /\ y.timer = NoTimer => t = NoTimer
  BY LessTime DEF PrefixType, PrefixOK
<1>2. /\ v \in Int /\ (v = NoExpire \/ v >= -MaxPast) /\ (v = NoExpire <=> y.vlexpire = NoExpire)
  BY SoonerTime DEF PrefixType, PrefixOK
<1>3. /\ w \in Int /\ (w = NoExpire \/ w >= -MaxPast) /\ (w = NoExpire <=> y.plexpire = NoExpire)
  BY SoonerTime DEF PrefixType, PrefixOK
<1>4. z = [y EXCEPT !.timer = t, !.vlexpire = v, !.plexpire = w]
  BY DEF Later
<1> HIDE DEF t, v, w, z
<1>5. /\ z \in PrefixType /\ z.timer = t /\ z.vlexpire = v /\ z.plexpire = w /\ z.in = y.in /\ z.late = y.late
      /\ z.vl = y.vl /\ z.pl = y.pl
  BY <1>1, <1>2, <1>3, <1>4 DEF PrefixType
<1>6. PrefixOK(z)
  BY <1>1, <1>2, <1>3, <1>5 DEF PrefixOK
<1>7. ASSUME Fixed(z) PROVE Fixed(y) /\ PrefixLifetime(z) = PrefixLifetime(y)
  <2>1. /\ z.vlexpire = NoExpire /\ z.plexpire = NoExpire /\ y.vlexpire = NoExpire /\ y.plexpire = NoExpire
        /\ (z.timer # NoTimer <=> y.timer # NoTimer)
    BY <1>1, <1>2, <1>3, <1>5, <1>7 DEF Fixed
  <2> QED BY <1>5, <2>1 DEF Fixed, PrefixLifetime, Left
<1>8. Elapsed(z, y)
  BY <1>1, <1>5, <1>6, <1>7 DEF Elapsed
<1> QED BY <1>8 DEF z

LEMMA StepTick ==
    ASSUME RtadvdInv, Tick
    PROVE  RtadvdInv'
<1> DEFINE timer == Less(rai.timer)
           old == Less(rai.old)
           since == Min({rai.since + 1, MIN_DELAY_BETWEEN_RAS})
           prefix == [p \in Pfx |-> Later(rai.prefix[p])]
<1>1. /\ Running /\ UNCHANGED <<conf, kernel, msgs, sent, at, status>> /\ RaiOK(rai) /\ rai \in RaiType
      /\ Alternates(msgs, kernel.routes, rai.prefix) /\ Paced(rai) /\ Prompt(rai, sent)
      /\ rai.up => rai.timer # 0
  BY DEF Tick, Due, RtadvdInv, Busy, RaiOK
<1>2. rai' = [rai EXCEPT !.timer = timer, !.old = old, !.since = since, !.prefix = prefix]
  BY DEF Tick, Later
<1>3. /\ timer \in Int /\ timer >= NoTimer /\ (timer # NoTimer <=> rai.timer # NoTimer)
      /\ timer <= rai.timer
  BY <1>1, LessTime DEF RaiOK, RaiType
<1>4. /\ old \in Int /\ old >= NoTimer /\ (old # NoTimer <=> rai.old # NoTimer)
  BY <1>1, LessTime DEF RaiOK, RaiType
<1>5. since \in 0 .. MIN_DELAY_BETWEEN_RAS /\ (since = rai.since + 1 \/ since = MIN_DELAY_BETWEEN_RAS)
  <2>1. rai.since \in 0 .. MIN_DELAY_BETWEEN_RAS /\ MIN_DELAY_BETWEEN_RAS \in Int /\ MIN_DELAY_BETWEEN_RAS >= 1
    BY <1>1, RtadvdAssumption DEF RaiOK
  <2>2. rai.since + 1 \in Int
    BY <2>1
  <2>3. since \in {rai.since + 1, MIN_DELAY_BETWEEN_RAS} /\ since <= MIN_DELAY_BETWEEN_RAS
    BY <2>1, <2>2, MinOfTwo, Zenon
  <2> QED BY <2>1, <2>3
<1>6. \A p \in Pfx : Elapsed(prefix[p], rai.prefix[p])
  BY <1>1, LaterOK DEF RaiOK, RaiType
<1>7. rai.timer > 0 => timer = rai.timer - 1
  BY DEF Less
<1> HIDE DEF timer, old, since
<1>8. prefix \in [Pfx -> PrefixType]
  BY <1>6 DEF Elapsed
<1> HIDE DEF prefix
<1>9. /\ rai' \in RaiType /\ rai'.timer = timer /\ rai'.old = old /\ rai'.since = since /\ rai'.prefix = prefix
      /\ rai'.up = rai.up /\ rai'.waiting = rai.waiting /\ rai'.initcounter = rai.initcounter /\ rai'.pfxs = rai.pfxs
  <2>1. WithTimers(rai', rai, timer, old, since, prefix)
    BY <1>1, <1>2, <1>3, <1>4, <1>5, <1>8, TimersSet, Zenon
  <2> QED BY <2>1 DEF WithTimers
<1>10. RaiOK(rai')
  <2>1. Count(rai') = Count(rai)
    BY <1>6, <1>9, SamePrefixes DEF Elapsed
  <2> QED BY <1>1, <1>3, <1>4, <1>5, <1>6, <1>9, <2>1 DEF RaiOK, Elapsed
<1>11. Alternates(msgs, kernel.routes, rai'.prefix)
  BY <1>1, <1>6, <1>9, FewerTimers DEF Elapsed
<1>12. Paced(rai')
  <2> SUFFICES ASSUME rai.up PROVE Paced(rai')
    BY <1>9 DEF Paced
  <2>1. rai.timer # NoTimer /\ rai.timer >= NoTimer /\ rai.timer \in Int /\ rai.timer # 0
    BY <1>1 DEF Paced, RaiOK, RaiType
  <2>2. rai.timer > 0 /\ timer = rai.timer - 1 /\ timer # NoTimer
    BY <2>1, <1>3, <1>7 DEF NoTimer
  <2>3. CASE rai.old # NoTimer
    BY <1>4, <1>9, <2>2, <2>3 DEF Paced
  <2>4. CASE rai.old = NoTimer
    <3>1. rai.timer + rai.since >= MIN_DELAY_BETWEEN_RAS
      BY <1>1, <2>2, <2>4 DEF Paced
    <3>2. timer + since >= MIN_DELAY_BETWEEN_RAS
      <4>1. rai.since \in Int /\ MIN_DELAY_BETWEEN_RAS \in Int
        BY <1>1, RtadvdAssumption DEF RaiOK, RaiType
      <4> QED BY <1>5, <2>1, <2>2, <3>1, <4>1
    <3> QED BY <1>9, <2>2, <3>2 DEF Paced
  <2> QED BY <2>3, <2>4
<1>13. Prompt(rai', sent)
  <2>1. Heard(rai, sent) => Heard(rai', sent)
    BY <1>6, <1>9 DEF Heard, Elapsed
  <2>2. rai.timer \in Int
    BY <1>1 DEF RaiType
  <2> QED BY <1>1, <1>3, <1>9, <2>1, <2>2, RtadvdAssumption DEF Prompt
<1>14. Busy(rai, sent)'
  BY <1>1, <1>10, <1>11, <1>12, <1>13 DEF Busy
<1> QED BY <1>1, <1>10, <1>14 DEF RtadvdInv, Running

\* SIGTERM: the last packet has its length, too.
LEMMA StepDie ==
    ASSUME RtadvdInv, die
    PROVE  RtadvdInv'
<1> DEFINE r == [rai EXCEPT !.lifetime = 0]
<1>1. /\ Running /\ UNCHANGED <<conf, kernel, at>> /\ conf \in Config /\ RaiOK(rai) /\ rai' = ra_output(r)
      /\ status' = IF make_packet(r, conf) THEN "stopped" ELSE "exited"
      /\ msgs' = <<>>
  BY DEF die, RtadvdInv
<1>2. /\ r \in RaiType /\ r.prefix = rai.prefix /\ r.pfxs = rai.pfxs /\ r.timer = rai.timer
      /\ r.old = rai.old /\ r.initcounter = rai.initcounter /\ r.since = rai.since
  BY <1>1 DEF RaiOK, RaiType
<1> HIDE DEF r
<1>3. RaiOK(r)
  BY <1>1, <1>2, SameLists DEF RaiOK
<1>4. status' = "stopped"
  BY <1>1, <1>3, PacketFits DEF RaiOK
<1>5. RaiOK(rai')
  <2>1. CASE r.up
    BY <1>1, <1>3, <2>1, Sends
  <2>2. CASE ~r.up
    BY <1>1, <1>3, <2>2 DEF ra_output
  <2> QED BY <2>1, <2>2
<1> QED BY <1>1, <1>4, <1>5 DEF RtadvdInv, Running

-----------------------------------------------------------------------------

NewPrefixes(f) == f \in [Pfx -> PrefixType] /\ \A p \in Pfx : PrefixOK(f[p]) /\ f[p].timer = NoTimer

LEMMA PrefixOfOK ==
    ASSUME NEW c \in Config, NEW a \in c.addrs
    PROVE  PrefixOf(a) \in PrefixType /\ PrefixOK(PrefixOf(a)) /\ PrefixOf(a).timer = NoTimer
<1> DEFINE vl == Default(a.vltime, DEF_ADVVALIDLIFETIME)
           pl == Default(a.pltime, DEF_ADVPREFERREDLIFETIME)
           v == IF a.vltimedecr THEN vl ELSE NoExpire
           w == IF a.pltimedecr THEN pl ELSE NoExpire
<1>1. vl \in Nat /\ pl \in Nat /\ NoExpire \in Int /\ MaxPast \in Nat
  BY RtadvdAssumption DEF Default, DEF_ADVVALIDLIFETIME, DEF_ADVPREFERREDLIFETIME, NoExpire
<1>2. PrefixOf(a) = NewPrefix(vl, v, pl, w)
  BY DEF PrefixOf
<1> HIDE DEF vl, pl
<1>3. /\ v \in Int /\ (v = NoExpire \/ v >= -MaxPast)
      /\ w \in Int /\ (w = NoExpire \/ w >= -MaxPast)
      /\ vl \in Int /\ pl \in Int
  BY <1>1
<1> HIDE DEF v, w
<1>4. LET new == NewPrefix(vl, v, pl, w)
      IN  new \in PrefixType /\ PrefixOK(new) /\ new.in = TRUE /\ new.timer = NoTimer
  BY <1>3 DEF NewPrefix, PrefixType, PrefixOK, NoTimer
<1> QED BY <1>2, <1>4

LEMMA PrefixListOK ==
    ASSUME NEW c \in Config
    PROVE  NewPrefixes(PrefixList(c))
<1>1. NoPrefix \in PrefixType /\ PrefixOK(NoPrefix) /\ NoPrefix.timer = NoTimer
  <2> DEFINE new == NewPrefix(0, NoExpire, 0, NoExpire)
  <2>1. new \in PrefixType /\ PrefixOK(new) /\ new.timer = NoTimer
    <3>1. 0 \in Int /\ NoExpire \in Int
      BY RtadvdAssumption DEF NoExpire
    <3> QED BY <3>1, NewPrefixOK, Zenon
  <2>2. NoPrefix = [new EXCEPT !.in = FALSE]
    BY DEF NoPrefix
  <2> HIDE DEF new
  <2> QED BY <2>1, <2>2 DEF PrefixType, PrefixOK
<1>2. CASE c.addrs = {}
  <2>1. PrefixList(c) = [p \in Pfx |-> IF p \in Own THEN DefaultPrefix ELSE NoPrefix]
    BY <1>2 DEF PrefixList, get_prefix
  <2> QED BY <1>1, <2>1, DefaultPrefixOK DEF NewPrefixes
<1>3. CASE c.addrs # {}
  <2> DEFINE f == [p \in Pfx |-> IF \E a \in c.addrs : a.prefix = p
                                THEN PrefixOf(CHOOSE a \in c.addrs : a.prefix = p) ELSE NoPrefix]
  <2>1. PrefixList(c) = f
    BY <1>3 DEF PrefixList
  <2>2. \A p \in Pfx : f[p] = NoPrefix \/ \E a \in c.addrs : f[p] = PrefixOf(a)
    OBVIOUS
  <2>3. f = [p \in Pfx |-> f[p]]
    OBVIOUS
  <2> HIDE DEF f
  <2>4. \A p \in Pfx : f[p] \in PrefixType /\ PrefixOK(f[p]) /\ f[p].timer = NoTimer
    BY <1>1, <2>2, PrefixOfOK
  <2> QED BY <2>1, <2>3, <2>4 DEF NewPrefixes
<1> QED BY <1>2, <1>3

LEMMA ConfigOK ==
    ASSUME NEW c \in Config, NEW up \in BOOLEAN
    PROVE  LET r == getconfig(c, up)
           IN  /\ RaiOK(r) /\ r.timer = 0 /\ r.initcounter = 0
               /\ \A p \in Pfx : r.prefix[p].timer = NoTimer
<1> DEFINE n == NewInterface(c)
           k == Count(n)
           r == getconfig(c, up)
           f == PrefixList(c)
<1>1. NewPrefixes(f)
  BY PrefixListOK
<1>2. Lifetime(c) \in Int /\ MIN_DELAY_BETWEEN_RAS \in Int /\ NoTimer \in Int /\ 0 \in Int /\ k \in Int
  <2>1. k \in Int
    BY InIsFinite
  <2>2. Lifetime(c) \in Int
    BY RtadvdAssumption DEF Lifetime, Interval, Default
  <2> QED BY <2>1, <2>2, RtadvdAssumption DEF NoTimer
<1>3. r = [n EXCEPT !.up = up, !.timer = 0, !.pfxs = k]
  BY DEF getconfig
<1>4. /\ n \in RaiType /\ n.prefix = f /\ n.old = NoTimer /\ n.since = MIN_DELAY_BETWEEN_RAS /\ n.initcounter = 0
  BY <1>1, <1>2 DEF NewInterface, RaiType, NewPrefixes
<1> HIDE DEF n, k, r, f
<1>5. /\ r \in RaiType /\ r.prefix = f /\ r.old = NoTimer /\ r.since = MIN_DELAY_BETWEEN_RAS /\ r.initcounter = 0
      /\ r.timer = 0 /\ r.pfxs = k
  BY <1>2, <1>3, <1>4 DEF RaiType
<1>6. k = Count(r)
  BY <1>4, <1>5, SamePrefixes DEF k
<1>7. RaiOK(r)
  BY <1>1, <1>5, <1>6, RtadvdAssumption DEF RaiOK, NewPrefixes, NoTimer
<1> QED BY <1>1, <1>5, <1>7 DEF NewPrefixes, r

LEMMA InvInit == RtadvdInit => RtadvdInv
<1> SUFFICES ASSUME RtadvdInit PROVE RtadvdInv
  OBVIOUS
<1>1. PICK up \in BOOLEAN : rai = getconfig(conf, up)
  BY DEF RtadvdInit
<1>2. /\ conf \in Config /\ kernel \in [up : BOOLEAN, routes : SUBSET Pfx] /\ msgs = <<>>
      /\ status = IF Valid(conf) /\ make_packet(rai, conf) THEN "running" ELSE "exited"
  BY DEF RtadvdInit
<1>3. /\ RaiOK(rai) /\ rai.timer = 0 /\ rai.initcounter = 0
      /\ \A p \in Pfx : rai.prefix[p].timer = NoTimer
  BY <1>1, <1>2, ConfigOK
<1>4. make_packet(rai, conf)
  BY <1>2, <1>3, PacketFits DEF RaiOK
<1>5. Paced(rai) /\ Prompt(rai, sent)
  BY <1>3, RtadvdAssumption DEF Paced, Prompt, NoTimer
<1>6. Alternates(msgs, kernel.routes, rai.prefix)
  <2>1. \A k \in 1 .. Len(msgs) : FALSE
    BY <1>2
  <2> QED BY <1>3, <2>1 DEF Alternates
<1>7. msgs \in Seq(RtMsg)
  BY <1>2
<1> QED BY <1>2, <1>3, <1>4, <1>5, <1>6, <1>7 DEF RtadvdInv, Busy, Running

LEMMA InvNext == RtadvdInv /\ [RtadvdNext]_rtadvdVars => RtadvdInv'
<1> SUFFICES ASSUME RtadvdInv, [RtadvdNext]_rtadvdVars PROVE RtadvdInv'
  OBVIOUS
<1>1. CASE \E p \in Pfx : AddRoute(p) \/ DeleteRoute(p)
  BY <1>1, StepKernel
<1>2. CASE LinkChanges \/ AddressChanges
  BY <1>2, StepKernel
<1>3. ASSUME NEW rnd \in {0, 1}, NEW ok \in BOOLEAN, rtmsg_input(ok, rnd) PROVE RtadvdInv'
  BY <1>3, StepMessage
<1>4. ASSUME NEW rnd \in {0, 1}, rtadvd_input(rnd) PROVE RtadvdInv'
  BY <1>4, StepPacket
<1>5. ASSUME NEW rnd \in {0, 1}, rtadvd_check_timer(rnd) PROVE RtadvdInv'
  BY <1>5, StepPass
<1>6. CASE Wake
  <2>1. UNCHANGED <<conf, rai, kernel, msgs, sent, status>>
    BY <1>6 DEF Wake
  <2> QED BY <2>1 DEF RtadvdInv, Busy, Running
<1>7. CASE Tick
  BY <1>7, StepTick
<1>8. CASE die
  BY <1>8, StepDie
<1>9. CASE UNCHANGED rtadvdVars
  <2>1. UNCHANGED <<conf, rai, kernel, msgs, sent, status>>
    BY <1>9 DEF rtadvdVars
  <2> QED BY <2>1 DEF RtadvdInv, Busy, Running
<1> QED BY <1>1, <1>2, <1>3, <1>4, <1>5, <1>6, <1>7, <1>8, <1>9 DEF RtadvdNext

LEMMA InvAdvertises == RtadvdInv => AdvertisesInTime
<1> SUFFICES ASSUME RtadvdInv PROVE AdvertisesInTime
  OBVIOUS
<1>1. AssumptionsHold
  <2>1. Running => Interval(conf) > MinInterval(conf)
    BY IntervalsFit DEF RtadvdInv
  <2> QED BY <2>1 DEF RtadvdInv, RaiOK, AssumptionsHold
<1>2. ASSUME Running, rai.up
      PROVE  /\ rai.timer # NoTimer
             /\ rai.timer >= MIN_DELAY_BETWEEN_RAS + MAX_RA_DELAY_TIME => Heard(rai, sent)
             /\ \/ rai.old # NoTimer
                \/ rai.timer + rai.since >= MIN_DELAY_BETWEEN_RAS
                \/ rai.timer = 0 /\ rai.initcounter = 0
  <2>1. Paced(rai) /\ Prompt(rai, sent) /\ rai.timer \in Int
    BY <1>2 DEF RtadvdInv, Busy, RaiOK, RaiType
  <2> QED BY <1>2, <2>1, RtadvdAssumption DEF Paced, Prompt
<1>3. ASSUME Running, rai.up,
             rai.waiting > 0 \/ \E p \in Pfx : ~(rai.prefix[p].in /\ Fixed(rai.prefix[p])
                                                  => sent.prefix[p] = PrefixLifetime(rai.prefix[p]))
      PROVE  rai.timer < MIN_DELAY_BETWEEN_RAS + MAX_RA_DELAY_TIME
  <2>1. ~Heard(rai, sent)
    BY <1>3 DEF Heard
  <2> QED BY <1>3, <2>1 DEF RtadvdInv, Busy, Prompt
<1> QED BY <1>1, <1>2, <1>3 DEF AdvertisesInTime, Fixed

\* rtadvd.c: whoever waits for an advertisement gets one soon, and no two
\* follow each other too closely; and the daemon never gives up on its own
\* assumptions (config.c, "timer already exists", "computed size").
THEOREM RtadvdAdvertises == RtadvdSpec => []AdvertisesInTime
<1>1. RtadvdSpec => []RtadvdInv
  BY InvInit, InvNext, PTL DEF RtadvdSpec
<1> QED BY <1>1, InvAdvertises, PTL

-----------------------------------------------------------------------------
(* The NetBoot server, for every set of clients, users, images and         *)
(* volumes, every age time, and any number of disturbed requests.          *)
(*                                                                         *)
(* The inductive invariant: in the list, and in the file, no two entries   *)
(* have an identifier, a number or a user in common; every number is below *)
(* the next one; and each client that booted is held by an entry of the    *)
(* list (of the file while the service is off) that has not aged, has the  *)
(* number and the user it was told, and its password and its shadow file   *)
(* are those.                                                              *)
(*                                                                         *)
(* First, numbers that are least or greatest of a set.                     *)

\* The least of a set of numbers is one of them.
LEMMA LeastIn ==
    ASSUME NEW S, S \subseteq Nat, S # {}
    PROVE  Min(S) \in S
<1>1. \E x \in S : \A y \in S : <<y, x>> \notin OpToRel(<, Nat)
  BY NatLessThanWellFounded, WFMin
<1>2. \A x, y \in Nat : <<y, x>> \notin OpToRel(<, Nat) => x <= y
  BY DEF OpToRel
<1>3. \E x \in S : \A y \in S : x <= y
  BY <1>1, <1>2
<1> QED BY <1>3 DEF Min

\* The greatest of a set of numbers that is bounded is one of them.
LEMMA GreatestIn ==
    ASSUME NEW S, NEW b \in Nat, S \subseteq 0 .. b, S # {}
    PROVE  \E z \in S : \A y \in S : z >= y
<1> DEFINE R == {b - x : x \in S}
<1>1. R \subseteq Nat /\ R # {}
  <2>1. \A x \in S : b - x \in Nat
    OBVIOUS
  <2> QED BY <2>1
<1>2. Min(R) \in R /\ \A y \in R : Min(R) <= y
  <2>1. \E x \in R : \A y \in R : <<y, x>> \notin OpToRel(<, Nat)
    BY <1>1, NatLessThanWellFounded, WFMin
  <2>2. \A x, y \in Nat : <<y, x>> \notin OpToRel(<, Nat) => x <= y
    BY DEF OpToRel
  <2> HIDE DEF R
  <2>3. \E x \in R : \A y \in R : x <= y
    BY <1>1, <2>1, <2>2
  <2> QED BY <2>3 DEF Min
<1>3. PICK z \in S : Min(R) = b - z
  BY <1>2
<1>4. \A y \in S : b - z <= b - y
  BY <1>2, <1>3
<1>5. \A y \in S : y \in Nat
  OBVIOUS
<1> QED BY <1>4, <1>5

-----------------------------------------------------------------------------
(* Directories and shadow files.                                           *)

Vols == DOMAIN Volumes
Nums == 1 .. MaxNumber
Name == User \cup {NoUser}
Dirs == [Vols -> [Nums -> Name \cup {"none", "empty", "root"}]]

\* A volume that is found is one of those that were looked for.
LEMMA FirstFound ==
    ASSUME NEW order, NEW P
    PROVE  First(order, P) = 0 \/ First(order, P) \in P
<1> DEFINE I == {i \in 1 .. Len(order) : order[i] \in P}
<1>1. CASE I = {}
  BY <1>1 DEF First, SelectInSeq
<1>2. CASE I # {}
  <2>1. I \subseteq Nat
    OBVIOUS
  <2>2. Min(I) \in I
    BY <1>2, <2>1, LeastIn
  <2>3. SelectInSeq(order, LAMBDA v : v \in P) = Min(I)
    BY <1>2 DEF SelectInSeq
  <2> HIDE DEF I
  <2>4. Min(I) # 0 /\ order[Min(I)] \in P
    BY <2>2 DEF I
  <2> QED BY <2>3, <2>4 DEF First
<1> QED BY <1>1, <1>2

\* What is done for one number leaves the directories of the others alone.
OnlyOf(d, x, n) == x \in Dirs /\ \A v \in Vols : \A m \in Nums \ {n} : x[v][m] = d[v][m]
\* When all goes well the shadow of the number is there and has the owner.
Shadows(r, n, u) == r.ok => \E v \in Vols : r.d[v][n] = u

LEMMA Stored ==
    ASSUME NEW d \in Dirs, NEW v \in Vols, NEW n \in Nums, NEW w \in Name \cup {"none", "empty", "root"},
           NEW x, x = [d EXCEPT ![v][n] = w]
    PROVE  OnlyOf(d, x, n) /\ x[v][n] = w
BY DEF OnlyOf, Dirs

LEMMA Further ==
    ASSUME NEW a, NEW b, NEW c, NEW n, OnlyOf(a, b, n), OnlyOf(b, c, n)
    PROVE  OnlyOf(a, c, n)
BY DEF OnlyOf

LEMMA CreateFile ==
    ASSUME NEW d \in Dirs, NEW v \in Vols, NEW n \in Nums, NEW u \in Name, NEW e,
           NEW r, r = S_create_shadow_file(d, v, n, u, e)
    PROVE  OnlyOf(d, r.d, n) /\ Shadows(r, n, u) /\ r.ok \in BOOLEAN
<1>1. CASE e.fail = "create"
  <2>1. r.d = [d EXCEPT ![v][n] = "root"] /\ r.ok = FALSE
    BY <1>1 DEF S_create_shadow_file
  <2>2. OnlyOf(d, r.d, n)
    BY <2>1, Stored
  <2> QED BY <2>1, <2>2, Zenon DEF Shadows
<1>2. CASE e.fail # "create"
  <2>1. r.d = [d EXCEPT ![v][n] = u] /\ r.ok = TRUE
    BY <1>2 DEF S_create_shadow_file
  <2>2. OnlyOf(d, r.d, n) /\ r.d[v][n] = u
    BY <2>1, Stored
  <2> QED BY <2>1, <2>2, Zenon DEF Shadows
<1> QED BY <1>1, <1>2

LEMMA CreateDir ==
    ASSUME NEW d \in Dirs, NEW n \in Nums, NEW u \in Name, NEW vols, vols \subseteq Vols, NEW e,
           NEW r, r = S_create_volume_dir(d, n, u, vols, e)
    PROVE  OnlyOf(d, r.d, n) /\ Shadows(r, n, u) /\ r.ok \in BOOLEAN
<1> DEFINE P == {v \in vols : S_freespace(v, e)}
           w == First(Rotated(n), P)
<1>1. r = CreateOn(d, w, n, u, e)
  BY DEF S_create_volume_dir, S_find_volume_with_space
<1>2. w = 0 \/ w \in P
  BY FirstFound
<1> HIDE DEF w
<1>3. CASE w = 0 \/ e.fail = "mkdir"
  <2>1. r.d = d /\ r.ok = FALSE
    BY <1>1, <1>3 DEF CreateOn
  <2>2. OnlyOf(d, r.d, n)
    BY <2>1 DEF OnlyOf
  <2> QED BY <2>1, <2>2, Zenon DEF Shadows
<1>4. CASE ~(w = 0 \/ e.fail = "mkdir")
  <2>1. r = S_create_shadow_file(d, w, n, u, e) /\ w \in Vols
    BY <1>1, <1>2, <1>4 DEF CreateOn
  <2> QED BY <2>1, CreateFile
<1> QED BY <1>3, <1>4

LEMMA AllocateShadow ==
    ASSUME NEW d \in Dirs, NEW n \in Nums, NEW u \in Name, NEW vols, vols \subseteq Vols, NEW e,
           NEW r, r = macNC_allocate_shadow(d, n, u, vols, e)
    PROVE  OnlyOf(d, r.d, n) /\ Shadows(r, n, u) /\ r.ok \in BOOLEAN
<1> DEFINE P == {x \in vols : d[x][n] # "none"}
           w == First(Rotated(n), P)
<1>1. r = AllocateOn(d, w, n, u, vols, e)
  BY DEF macNC_allocate_shadow
<1>2. w = 0 \/ w \in P
  BY FirstFound
<1> HIDE DEF w
<1> DEFINE replace == d[w][n] = "empty" \/ (e.grow /\ ~S_freespace(w, e))
<1>3. CASE w = 0
  <2>1. r = S_create_volume_dir(d, n, u, vols, e)
    BY <1>1, <1>3 DEF AllocateOn
  <2> QED BY <2>1, CreateDir
<1>4. CASE w # 0 /\ replace
  <2> DEFINE gone == S_remove_shadow(d, w, n, e)
  <2>1. r = Replaced(gone, n, u, vols, e) /\ w \in Vols
    BY <1>1, <1>2, <1>4 DEF AllocateOn
  <2>2. OnlyOf(d, gone.d, n) /\ gone.ok \in BOOLEAN
    BY <2>1, Stored DEF S_remove_shadow
  <2> HIDE DEF gone
  <2>3. CASE gone.ok
    <3>1. r = S_create_volume_dir(gone.d, n, u, vols, e) /\ gone.d \in Dirs
      BY <2>1, <2>2, <2>3 DEF Replaced, OnlyOf
    <3> QED BY <2>2, <3>1, CreateDir, Further
  <2>4. CASE ~gone.ok
    BY <2>1, <2>2, <2>4 DEF Replaced, Shadows
  <2> QED BY <2>3, <2>4
<1>5. CASE w # 0 /\ ~replace /\ e.grow
  <2>1. r = S_create_shadow_file(d, w, n, u, e) /\ w \in Vols
    BY <1>1, <1>2, <1>5 DEF AllocateOn
  <2> QED BY <2>1, CreateFile
<1>6. CASE w # 0 /\ ~replace /\ ~e.grow
  <2>1. r = [d |-> [d EXCEPT ![w][n] = u], ok |-> TRUE]
    BY <1>1, <1>6, Zenon DEF AllocateOn
  <2>2. r.d = [d EXCEPT ![w][n] = u] /\ r.ok = TRUE /\ w \in Vols
    BY <1>2, <1>6, <2>1
  <2>3. OnlyOf(d, r.d, n) /\ r.d[w][n] = u
    BY <2>2, Stored
  <2> QED BY <2>2, <2>3, Zenon DEF Shadows
<1> QED BY <1>3, <1>4, <1>5, <1>6

\* The image is prepared on the volumes: a shadow that the reply names is
\* there and is the user's.
LEMMA Prepares ==
    ASSUME NEW d \in Dirs, NEW n \in Nums, NEW u \in Name, NEW image, NEW e,
           NEW r, r = Prepare(d, image, n, u, e)
    PROVE  /\ OnlyOf(d, r.d, n) /\ r.ok \in BOOLEAN
           /\ TellsShadow(image, e) => Shadows(r, n, u)
<1> DEFINE q == CASE image.type = "Classic" -> macNC_allocate(d, n, u, e)
                  [] image.type \in {"NFS", "HTTP"} -> X_netboot(d, image, n, u, e)
                  [] OTHER -> [d |-> d, ok |-> TRUE]
           none == [d |-> d, ok |-> FALSE]
           done == [d |-> d, ok |-> TRUE]
           Right(x) == /\ OnlyOf(d, x.d, n) /\ x.ok \in BOOLEAN
                       /\ TellsShadow(image, e) => Shadows(x, n, u)
<1>1. r.d = q.d /\ r.ok = (q.ok /\ S_add_bootfile(e))
  BY DEF Prepare
<1>2. Right(none)
  BY DEF OnlyOf, Shadows
<1>3. ~TellsShadow(image, e) => Right(done)
  BY DEF OnlyOf
<1>4. \A vols : vols \subseteq Vols => Right(macNC_allocate_shadow(d, n, u, vols, e))
  BY AllocateShadow
<1>5. HfsVolumes \subseteq Vols
  BY DEF HfsVolumes, Vols
<1>6. Right(q)
  <2>1. CASE image.type = "Classic"
    <3>1. q = macNC_allocate(d, n, u, e)
      BY <2>1
    <3>2. \/ q = none \/ q = macNC_allocate_shadow(d, n, u, HfsVolumes, e)
          \/ e.private /\ q = done
      BY <3>1 DEF macNC_allocate, S_add_image_options
    <3>3. e.private => ~TellsShadow(image, e)
      BY <2>1 DEF TellsShadow
    <3> HIDE DEF Right, none, done, q
    <3> QED BY <1>2, <1>3, <1>4, <1>5, <3>2, <3>3
  <2>2. CASE image.type \in {"NFS", "HTTP"}
    <3>1. q = X_netboot(d, image, n, u, e)
      BY <2>2
    <3>2. \/ q = none \/ q = macNC_allocate_shadow(d, n, u, Vols, e)
          \/ ~image.diskless /\ q = done
      BY <3>1, Zenon DEF X_netboot, Vols
    <3>3. ~image.diskless => ~TellsShadow(image, e)
      BY <2>2 DEF TellsShadow
    <3> HIDE DEF Right, none, done, q
    <3> QED BY <1>2, <1>3, <1>4, <3>2, <3>3
  <2>3. CASE image.type \notin {"Classic", "NFS", "HTTP"}
    <3>1. q = done
      BY <2>3
    <3>2. ~TellsShadow(image, e)
      BY <2>3 DEF TellsShadow
    <3> HIDE DEF Right, done, q
    <3> QED BY <1>3, <3>1, <3>2
  <2> QED BY <2>1, <2>2, <2>3
<1> HIDE DEF q
<1>7. S_add_bootfile(e) \in BOOLEAN
  BY DEF S_add_bootfile
<1> QED BY <1>1, <1>6, <1>7 DEF Shadows

LEMMA Unlinks ==
    ASSUME NEW d \in Dirs, NEW n \in Nums, NEW x, x = macNC_unlink_shadow(d, n)
    PROVE  OnlyOf(d, x, n)
<1> DEFINE P == {v \in Vols : d[v][n] \notin {"none", "empty"}}
           w == First(Rotated(n), P)
<1>1. x = IF w = 0 THEN d ELSE [d EXCEPT ![w][n] = "empty"]
  BY DEF macNC_unlink_shadow, Vols
<1>2. w = 0 \/ w \in P
  BY FirstFound
<1> HIDE DEF w
<1>3. CASE w = 0
  BY <1>1, <1>3 DEF OnlyOf
<1>4. CASE w # 0
  BY <1>1, <1>2, <1>4, Stored
<1> QED BY <1>3, <1>4

-----------------------------------------------------------------------------
(* Lists of clients.                                                       *)

EntryIn(T) ==
    [id : DOMAIN Client, number : Nums, image : T, user : Name, bound : BOOLEAN, age : Nat]

\* No two entries have an identifier, a number or a user in common.
Apart(list) ==
    \A i, j \in DOMAIN list : i # j =>
        /\ list[i].id # list[j].id /\ list[i].number # list[j].number
        /\ list[i].user # NoUser => list[i].user # list[j].user

Passwords == [User -> DOMAIN Client \cup {NoOne}]

\* The state of a request is a record of its fields.
Req(s) ==
    s = [clients |-> s.clients, next |-> s.next, dirs |-> s.dirs, pw |-> s.pw, fresh |-> s.fresh,
         user |-> s.user, ok |-> s.ok]

\* Entries stay where they are; only aged ones are changed, and only their
\* directories.
Follows(L, d, M, x) ==
    /\ DOMAIN M = DOMAIN L
    /\ \A j \in DOMAIN L : /\ M[j].id = L[j].id /\ M[j].number = L[j].number
                           /\ M[j] = L[j] \/ Aged(L[j])
    /\ x \in Dirs
    /\ \A v \in Vols : \A m \in Nums : x[v][m] = d[v][m] \/ \E j \in DOMAIN L : Aged(L[j]) /\ L[j].number = m

LEMMA FreeUser ==
    ASSUME NEW s, users \in Seq(User), NEW u, u = S_next_afp_user(s), u # NoUser
    PROVE  u \in User /\ \A j \in DOMAIN s.clients : s.clients[j].user # u
<1> DEFINE free == {i \in DOMAIN users : \A j \in DOMAIN s.clients : s.clients[j].user # users[i]}
<1>1. DOMAIN users = 1 .. Len(users) /\ \A i \in DOMAIN users : users[i] \in User
  BY LenProperties
<1>2. u = IF free = {} THEN NoUser ELSE users[Min(free)]
  BY DEF S_next_afp_user
<1>3. free # {} /\ free \subseteq Nat
  BY <1>1, <1>2
<1>4. Min(free) \in free
  BY <1>3, LeastIn
<1>5. u = users[Min(free)]
  BY <1>2, <1>3
<1> QED BY <1>1, <1>4, <1>5

\* A user was got that no entry has, and that only aged ones had, or none.
Obtained(s, r, T) ==
    /\ Req(r) /\ r.next = s.next /\ r.pw = s.pw
    /\ r.clients \in Seq(EntryIn(T)) /\ Apart(r.clients)
    /\ Follows(s.clients, s.dirs, r.clients, r.dirs)
    /\ \/ r.ok = TRUE /\ r.user \in User
       \/ r.ok = FALSE /\ r.user = NoUser
    /\ r.user # NoUser => \A j \in DOMAIN s.clients :
           r.clients[j].user # r.user /\ (s.clients[j].user = r.user => Aged(s.clients[j]))

\* The user that is reclaimed is one of a client that is aged, and no entry
\* has it any more.
LEMMA Reclaims ==
    ASSUME NEW s, Req(s), NEW T, s.clients \in Seq(EntryIn(T)), Apart(s.clients), s.dirs \in Dirs,
           NEW r, r = S_reclaim_afp_user(s)
    PROVE  Obtained(s, r, T)
<1> DEFINE L == s.clients
           Old(x) == x.user # NoUser /\ Aged(x)
           H == {i \in DOMAIN L : Old(L[i]) /\ AFPUserList_lookup(L[i].user)} \cup {0}
           hit == Max(H)
           M == [i \in DOMAIN L |-> IF i >= hit /\ Old(L[i])
                                    THEN [L[i] EXCEPT !.user = NoUser, !.bound = FALSE] ELSE L[i]]
           user == IF hit = 0 THEN NoUser ELSE L[hit].user
           x == IF hit = 0 THEN s.dirs ELSE macNC_unlink_shadow(s.dirs, L[hit].number)
<1>1. r = [s EXCEPT !.user = user, !.clients = M, !.dirs = x, !.ok = hit # 0]
  BY DEF S_reclaim_afp_user
<1>2. DOMAIN L = 1 .. Len(L) /\ Len(L) \in Nat /\ \A i \in DOMAIN L : L[i] \in EntryIn(T)
  BY LenProperties
<1>3. hit \in H
  <2>1. H \subseteq 0 .. Len(L) /\ H # {}
    BY <1>2
  <2> HIDE DEF H
  <2> QED BY <1>2, <2>1, GreatestIn DEF Max
<1> HIDE DEF hit
<1>4. hit = 0 \/ (hit \in DOMAIN L /\ Old(L[hit]))
  BY <1>3
<1>5. /\ Req(r) /\ r.next = s.next /\ r.pw = s.pw /\ r.clients = M /\ r.dirs = x /\ r.user = user
      /\ r.ok = (hit # 0)
  <2> HIDE DEF M, x, user, L, H, Old
  <2> QED BY <1>1 DEF Req
<1>6. \A j \in DOMAIN L : M[j] \in EntryIn(T) /\ M[j].id = L[j].id /\ M[j].number = L[j].number
                          /\ (M[j].user = NoUser \/ M[j].user = L[j].user)
                          /\ (M[j] = L[j] \/ Aged(L[j]))
  <2> SUFFICES ASSUME NEW j \in DOMAIN L
               PROVE  M[j] \in EntryIn(T) /\ M[j].id = L[j].id /\ M[j].number = L[j].number
                          /\ (M[j].user = NoUser \/ M[j].user = L[j].user)
                          /\ (M[j] = L[j] \/ Aged(L[j]))
    OBVIOUS
  <2>1. PICK y \in EntryIn(T) : y = L[j]
    BY <1>2
  <2>2. M[j] = y \/ (M[j] = [y EXCEPT !.user = NoUser, !.bound = FALSE] /\ Aged(y))
    BY <2>1
  <2> HIDE DEF M, L
  <2> QED BY <2>1, <2>2 DEF EntryIn, Name
<1>7. M \in Seq(EntryIn(T)) /\ DOMAIN M = DOMAIN L
  <2>1. M = [j \in 1 .. Len(L) |-> M[j]]
    BY <1>2
  <2>2. DOMAIN M = DOMAIN L
    OBVIOUS
  <2> HIDE DEF M, L
  <2> QED BY <1>2, <1>6, <2>1, <2>2, IsASeq
<1>8. Apart(M)
  <2> HIDE DEF M
  <2> QED BY <1>6, <1>7 DEF Apart
<1>9. hit # 0 => user \in User /\ user # NoUser
  BY <1>2, <1>4 DEF EntryIn, Name
<1>10. Follows(L, s.dirs, M, x)
  <2>1. hit # 0 => OnlyOf(s.dirs, x, L[hit].number)
    <3>1. hit # 0 => L[hit].number \in Nums
      BY <1>2, <1>4 DEF EntryIn
    <3> HIDE DEF L
    <3> QED BY <3>1, Unlinks
  <2>2. x \in Dirs /\ \A v \in Vols : \A m \in Nums :
            x[v][m] = s.dirs[v][m] \/ \E j \in DOMAIN L : Aged(L[j]) /\ L[j].number = m
    BY <1>4, <2>1 DEF OnlyOf
  <2> HIDE DEF M, L, x
  <2> QED BY <1>6, <1>7, <2>2 DEF Follows
<1>11. hit # 0 => \A j \in DOMAIN L : M[j].user # user /\ (L[j].user = user => Aged(L[j]))
  <2> SUFFICES ASSUME hit # 0, NEW j \in DOMAIN L
               PROVE  M[j].user # user /\ (L[j].user = user => Aged(L[j]))
    OBVIOUS
  <2>1. hit \in DOMAIN L /\ Old(L[hit]) /\ user = L[hit].user
    BY <1>4
  <2>2. CASE j = hit
    <3>1. M[j].user = NoUser
      <4>1. M[j] = [L[j] EXCEPT !.user = NoUser, !.bound = FALSE] /\ L[j] \in EntryIn(T)
        <5>1. j >= hit /\ Old(L[j])
          BY <1>2, <2>1, <2>2
        <5> QED BY <1>2, <5>1
      <4> HIDE DEF M, L
      <4> QED BY <4>1 DEF EntryIn
    <3> HIDE DEF M, L, user
    <3> QED BY <1>9, <2>1, <2>2, <3>1
  <2>3. CASE j # hit
    <3>1. L[j].user # user
      BY <2>1, <2>3 DEF Apart
    <3> HIDE DEF M, L, user
    <3> QED BY <1>6, <1>9, <3>1
  <2> QED BY <2>2, <2>3
<1>12. user = NoUser \/ hit # 0
  OBVIOUS
<1>13. \/ r.ok = TRUE /\ r.user \in User
       \/ r.ok = FALSE /\ r.user = NoUser
  BY <1>5, <1>9, <1>12
<1> HIDE DEF M, x, user, L
<1>14. r.user # NoUser => \A j \in DOMAIN L : M[j].user # r.user /\ (L[j].user = r.user => Aged(L[j]))
  BY <1>5, <1>11, <1>12
<1> QED BY <1>5, <1>7, <1>8, <1>10, <1>13, <1>14 DEF L, Obtained

\* A user for a client that has none.
LEMMA Obtains ==
    ASSUME NEW s, Req(s), s.ok = TRUE, NEW T, s.clients \in Seq(EntryIn(T)), Apart(s.clients), s.dirs \in Dirs,
           users \in Seq(User), NEW r, r = Obtain(s)
    PROVE  Obtained(s, r, T)
<1> DEFINE u == S_next_afp_user(s)
<1>1. CASE u # NoUser
  <2>1. r = [s EXCEPT !.user = u]
    BY <1>1 DEF Obtain
  <2>2. u \in User /\ \A j \in DOMAIN s.clients : s.clients[j].user # u
    BY <1>1, FreeUser
  <2> HIDE DEF u
  <2>3. /\ Req(r) /\ r.next = s.next /\ r.pw = s.pw /\ r.clients = s.clients /\ r.dirs = s.dirs
        /\ r.user = u /\ r.ok = s.ok
    BY <2>1 DEF Req
  <2>4. Follows(s.clients, s.dirs, r.clients, r.dirs)
    BY <2>3 DEF Follows
  <2> QED BY <2>2, <2>3, <2>4 DEF Obtained
<1>2. CASE u = NoUser
  <2>1. r = S_reclaim_afp_user(s)
    BY <1>2 DEF Obtain
  <2> HIDE DEF u
  <2> QED BY <2>1, Reclaims
<1> QED BY <1>1, <1>2

-----------------------------------------------------------------------------
(* The password and the shadow of a client that is bound.                  *)

\* The client has its password and its shadow unless something failed; the
\* users and the numbers of others are left alone.
Served(s, r, c, image, n, e) ==
    /\ Req(r) /\ r.next = s.next /\ r.user = s.user /\ r.clients = s.clients
    /\ r.ok \in BOOLEAN
    /\ OnlyOf(s.dirs, r.dirs, n)
    /\ r.pw \in Passwords /\ \A u \in User : u # s.user => r.pw[u] = s.pw[u]
    /\ r.ok = TRUE /\ s.user \in User /\ NeedsUser(image) => r.pw[s.user] = c
    /\ r.ok = TRUE /\ TellsShadow(image, e) => \E v \in Vols : r.dirs[v][n] = s.user

LEMMA Serves ==
    ASSUME NEW s, Req(s), s.dirs \in Dirs, s.pw \in Passwords, NEW image, NEW e, NEW c \in DOMAIN Client,
           \/ s.ok = TRUE /\ s.user \in User
           \/ s.ok = TRUE /\ s.user = NoUser /\ ~NeedsUser(image)
           \/ s.ok = FALSE /\ s.user = NoUser,
           NEW n \in Nums, NEW r, r = Serve(s, c, image, n, e)
    PROVE  Served(s, r, c, image, n, e)
<1> DEFINE sets == NeedsUser(image) /\ s.ok
           p == IF sets THEN AFPUser_set_random_password(s, s.user, c, e) ELSE s
<1>1. r = ServeUser(p, image, n, e)
  BY DEF Serve
<1>2. /\ Req(p) /\ p.next = s.next /\ p.user = s.user /\ p.clients = s.clients /\ p.dirs = s.dirs
      /\ p.ok \in BOOLEAN
      /\ p.pw \in Passwords /\ \A u \in User : u # s.user => p.pw[u] = s.pw[u]
      /\ p.ok = TRUE /\ s.user \in User /\ NeedsUser(image) => p.pw[s.user] = c
  <2>1. CASE s.ok = TRUE /\ NeedsUser(image)
    <3>1. s.user \in User /\ p = AFPUser_set_random_password(s, s.user, c, e)
      BY <2>1
    <3>2. \/ p = [s EXCEPT !.pw[s.user] = c]
          \/ p = [s EXCEPT !.fresh = @ \ {s.user}, !.ok = FALSE]
          \/ p = [s EXCEPT !.fresh = @ \cup {s.user}, !.pw[s.user] = c]
      BY <3>1, Zenon DEF AFPUser_set_random_password
    <3> DEFINE q == [s.pw EXCEPT ![s.user] = c]
    <3>3. q \in Passwords /\ q[s.user] = c /\ \A u \in User : u # s.user => q[u] = s.pw[u]
      BY <3>1 DEF Passwords
    <3> HIDE DEF p, q
    <3>4. /\ Req(p) /\ p.next = s.next /\ p.user = s.user /\ p.clients = s.clients /\ p.dirs = s.dirs
          /\ \/ p.ok = TRUE /\ p.pw = q
             \/ p.ok = FALSE /\ p.pw = s.pw
      BY <2>1, <3>2 DEF Req, q
    <3> QED BY <3>3, <3>4
  <2>2. CASE s.ok = TRUE /\ ~NeedsUser(image)
    BY <2>2
  <2>3. CASE s.ok = FALSE
    BY <2>3
  <2> QED BY <2>1, <2>2, <2>3
<1> HIDE DEF p
<1>3. s.user \in Name
  BY DEF Name
<1>4. CASE p.ok = TRUE
  <2> DEFINE x == Prepare(p.dirs, image, n, p.user, e)
  <2>1. r = [p EXCEPT !.dirs = x.d, !.ok = x.ok]
    BY <1>1, <1>4 DEF ServeUser, Prepared
  <2>2. /\ OnlyOf(s.dirs, x.d, n) /\ x.ok \in BOOLEAN
        /\ TellsShadow(image, e) => Shadows(x, n, s.user)
    BY <1>2, <1>3, Prepares
  <2> HIDE DEF x
  <2>3. /\ Req(r) /\ r.next = p.next /\ r.user = p.user /\ r.clients = p.clients /\ r.pw = p.pw
        /\ r.dirs = x.d /\ r.ok = x.ok
    BY <1>2, <2>1 DEF Req
  <2>4. r.ok = TRUE /\ TellsShadow(image, e) => \E v \in Vols : r.dirs[v][n] = s.user
    BY <2>2, <2>3 DEF Shadows
  <2> QED BY <1>2, <1>4, <2>2, <2>3, <2>4 DEF Served
<1>5. CASE p.ok = FALSE
  <2>1. r = p
    BY <1>1, <1>5 DEF ServeUser
  <2> QED BY <1>2, <1>5, <2>1 DEF OnlyOf, Served
<1> QED BY <1>2, <1>4, <1>5

-----------------------------------------------------------------------------
(* Binding a client.                                                       *)

Numbered(list, n) == n \in Nat \ {0} /\ \A i \in DOMAIN list : list[i].number < n

\* What other clients have is theirs still unless they are aged; a client for
\* which all went well has an entry that says so, its password and its shadow.
Binds(c, s, image, e, T) ==
    /\ s.clients \in Seq(EntryIn(T)) /\ Apart(s.clients) /\ Numbered(s.clients, s.next)
    /\ s.pw \in Passwords /\ s.dirs \in Dirs /\ s.user \in Name
    /\ \A i \in DOMAIN clients : clients[i].id # c /\ ~Aged(clients[i]) =>
         /\ \E j \in DOMAIN s.clients : s.clients[j] = clients[i]
         /\ \A v \in Vols : s.dirs[v][clients[i].number] = dirs[v][clients[i].number]
         /\ clients[i].user \in User => s.pw[clients[i].user] = pw[clients[i].user]
    /\ s.ok = TRUE => \E j \in DOMAIN s.clients :
         /\ s.clients[j].id = c /\ s.clients[j].user = s.user /\ ~Aged(s.clients[j])
         /\ s.user \in User => s.pw[s.user] = c
         /\ s.user \in User /\ TellsShadow(image, e) => \E v \in Vols : s.dirs[v][s.clients[j].number] = s.user

Differs(L, M, i, y, T) ==
    /\ M \in Seq(EntryIn(T)) /\ Apart(M) /\ DOMAIN M = DOMAIN L
    /\ M[i] = y /\ \A j \in DOMAIN L : j # i => M[j] = L[j]

\* One entry is changed: it keeps its identifier and its number, and has a
\* user that no other entry has.
LEMMA Changed ==
    ASSUME NEW T, NEW L \in Seq(EntryIn(T)), Apart(L), NEW i \in DOMAIN L, NEW y \in EntryIn(T),
           y.id = L[i].id, y.number = L[i].number,
           y.user = NoUser \/ \A j \in DOMAIN L : j # i => L[j].user # y.user,
           NEW M, M = [L EXCEPT ![i] = y]
    PROVE  Differs(L, M, i, y, T)
<1>1. DOMAIN L = 1 .. Len(L) /\ Len(L) \in Nat /\ \A j \in DOMAIN L : L[j] \in EntryIn(T)
  BY LenProperties
<1>2. DOMAIN M = DOMAIN L /\ M[i] = y /\ \A j \in DOMAIN L : j # i => M[j] = L[j]
  OBVIOUS
<1>3. \A j \in DOMAIN L : M[j] \in EntryIn(T)
  BY <1>1, <1>2
<1>4. M = [j \in 1 .. Len(L) |-> M[j]]
  BY <1>1
<1>5. M \in Seq(EntryIn(T))
  BY <1>1, <1>3, <1>4, IsASeq
<1>6. Apart(M)
  BY <1>2 DEF Apart
<1> QED BY <1>2, <1>5, <1>6 DEF Differs

\* What is got for entry i: a user that no other client has, unless it is
\* aged, and what was done to the others for it.
Got(s, i, image, T) ==
    /\ Req(s) /\ s.next = next /\ s.pw = pw
    /\ s.clients \in Seq(EntryIn(T)) /\ DOMAIN s.clients = DOMAIN clients /\ Apart(s.clients)
    /\ \A j \in DOMAIN clients : /\ s.clients[j].id = clients[j].id
                                 /\ s.clients[j].number = clients[j].number
                                 /\ j # i => s.clients[j] = clients[j] \/ Aged(clients[j])
    /\ s.dirs \in Dirs
    /\ \A j \in DOMAIN clients : j # i /\ ~Aged(clients[j]) =>
          \A v \in Vols : s.dirs[v][clients[j].number] = dirs[v][clients[j].number]
    /\ \/ s.ok = TRUE /\ s.user \in User /\ NeedsUser(image)
       \/ s.ok = TRUE /\ s.user = NoUser /\ ~NeedsUser(image)
       \/ s.ok = FALSE /\ s.user = NoUser
    /\ s.user # NoUser => \A j \in DOMAIN clients : j # i =>
          s.clients[j].user # s.user /\ (clients[j].user = s.user => Aged(clients[j]))

LEMMA Gets ==
    ASSUME NEW T, clients \in Seq(EntryIn(T)), Apart(clients), users \in Seq(User),
           pw \in Passwords, dirs \in Dirs, NetBootAssumption,
           NEW image, NEW i \in DOMAIN clients, NEW keeps \in BOOLEAN,
           keeps => NeedsUser(image) /\ clients[i].user # NoUser,
           NEW cleared, cleared = [State EXCEPT !.clients[i].user = NoUser],
           NEW got,
           \/ keeps /\ got = [State EXCEPT !.user = clients[i].user]
           \/ ~keeps /\ NeedsUser(image) /\ got = Obtain(cleared)
           \/ ~keeps /\ ~NeedsUser(image) /\ got = cleared
    PROVE  Got(got, i, image, T)
<1>1. DOMAIN clients = 1 .. Len(clients) /\ \A j \in DOMAIN clients : clients[j] \in EntryIn(T)
  BY LenProperties
<1>2. PICK x \in EntryIn(T) : x = clients[i]
  BY <1>1
<1>3. PICK y : y = [x EXCEPT !.user = NoUser]
  OBVIOUS
<1>4. y \in EntryIn(T) /\ y.id = x.id /\ y.number = x.number /\ y.user = NoUser
  BY <1>3 DEF EntryIn, Name
<1>5. PICK L : L = [clients EXCEPT ![i] = y]
  OBVIOUS
<1>6. /\ L \in Seq(EntryIn(T)) /\ Apart(L) /\ DOMAIN L = DOMAIN clients
      /\ L[i] = y /\ \A j \in DOMAIN clients : j # i => L[j] = clients[j]
  BY <1>2, <1>4, <1>5, Changed DEF Differs
<1>7. PICK s : s = State
  OBVIOUS
<1>8. /\ Req(s) /\ s.clients = clients /\ s.dirs = dirs /\ s.next = next
      /\ s.pw = pw /\ s.ok = TRUE /\ s.user = NoUser
  BY <1>7 DEF State, Req
<1>9. cleared = [s EXCEPT !.clients = L]
  BY <1>2, <1>3, <1>5, <1>7, <1>8
<1>10. /\ Req(cleared) /\ cleared.clients = L /\ cleared.dirs = dirs /\ cleared.next = next
       /\ cleared.pw = pw /\ cleared.ok = TRUE /\ cleared.user = NoUser
  BY <1>8, <1>9 DEF Req
<1>11. \A j \in DOMAIN clients : clients[j].number \in Nums
  BY <1>1 DEF EntryIn
<1>12. CASE keeps
  <2>1. clients[i].user \in User /\ clients[i].user # NoUser
    BY <1>1, <1>12 DEF EntryIn, Name
  <2>2. got = [s EXCEPT !.user = clients[i].user]
    BY <1>7, <1>12
  <2>3. /\ Req(got) /\ got.clients = clients /\ got.dirs = dirs /\ got.next = next
        /\ got.pw = pw /\ got.ok = TRUE /\ got.user = clients[i].user
    BY <1>8, <2>2 DEF Req
  <2>4. \A j \in DOMAIN clients : j # i => clients[j].user # clients[i].user
    BY <2>1 DEF Apart
  <2> QED BY <1>12, <2>1, <2>3, <2>4 DEF Got
<1>13. CASE ~keeps /\ NeedsUser(image)
  <2>1. got = Obtain(cleared)
    BY <1>13
  <2>2. /\ Req(got) /\ got.next = next /\ got.pw = pw
        /\ got.clients \in Seq(EntryIn(T)) /\ Apart(got.clients)
        /\ Follows(L, dirs, got.clients, got.dirs)
        /\ \/ got.ok = TRUE /\ got.user \in User
           \/ got.ok = FALSE /\ got.user = NoUser
        /\ got.user # NoUser => \A j \in DOMAIN L :
               got.clients[j].user # got.user /\ (L[j].user = got.user => Aged(L[j]))
    <3>1. /\ cleared.clients \in Seq(EntryIn(T)) /\ Apart(cleared.clients) /\ cleared.dirs \in Dirs
          /\ Req(cleared) /\ cleared.ok = TRUE
      BY <1>6, <1>10
    <3>2. Obtained(cleared, got, T)
      BY <2>1, <3>1, Obtains
    <3> QED BY <1>10, <3>2 DEF Obtained
  <2>3. \A j \in DOMAIN clients :
            /\ got.clients[j].id = clients[j].id /\ got.clients[j].number = clients[j].number
            /\ j # i => got.clients[j] = clients[j] \/ Aged(clients[j])
    BY <1>2, <1>4, <1>6, <2>2 DEF Follows
  <2>4. got.dirs \in Dirs /\ DOMAIN got.clients = DOMAIN clients
    BY <1>6, <2>2 DEF Follows
  <2>5. \A j \in DOMAIN clients : L[j].number = clients[j].number
    BY <1>2, <1>4, <1>6
  <2>7. \A j \in DOMAIN clients : j # i /\ ~Aged(clients[j]) =>
            \A v \in Vols : got.dirs[v][clients[j].number] = dirs[v][clients[j].number]
    <3> SUFFICES ASSUME NEW j \in DOMAIN clients, j # i, ~Aged(clients[j]), NEW v \in Vols
                 PROVE  got.dirs[v][clients[j].number] = dirs[v][clients[j].number]
      OBVIOUS
    <3>1. ASSUME NEW k \in DOMAIN L, Aged(L[k]) PROVE L[k].number # clients[j].number
      <4>1. k # j
        BY <1>6, <3>1
      <4> QED BY <1>6, <2>5, <4>1 DEF Apart
    <3>2. \/ got.dirs[v][clients[j].number] = dirs[v][clients[j].number]
          \/ \E k \in DOMAIN L : Aged(L[k]) /\ L[k].number = clients[j].number
      BY <1>11, <2>2 DEF Follows
    <3> QED BY <3>1, <3>2
  <2>8. got.user # NoUser => \A j \in DOMAIN clients : j # i =>
            got.clients[j].user # got.user /\ (clients[j].user = got.user => Aged(clients[j]))
    BY <1>6, <2>2
  <2> QED BY <1>13, <2>2, <2>3, <2>4, <2>7, <2>8 DEF Got
<1>14. CASE ~keeps /\ ~NeedsUser(image)
  <2>1. got = cleared
    BY <1>14
  <2>2. \A j \in DOMAIN clients :
            /\ L[j].id = clients[j].id /\ L[j].number = clients[j].number
            /\ j # i => L[j] = clients[j]
    BY <1>2, <1>4, <1>6
  <2> QED BY <1>6, <1>10, <1>14, <2>1, <2>2 DEF Got
<1> QED BY <1>12, <1>13, <1>14

LEMMA Updates ==
    ASSUME NEW T, clients \in Seq(EntryIn(T)), Apart(clients), Numbered(clients, next), users \in Seq(User),
           pw \in Passwords, dirs \in Dirs, NetBootAssumption,
           NEW image, image.id \in T, NEW e, NEW i \in DOMAIN clients,
           NEW r, r = UpdateEntry(i, image, e)
    PROVE  Binds(clients[i].id, r, image, e, T)
<1> DEFINE had == clients[i].user
           c == clients[i].id
           n == clients[i].number
           keeps == NeedsUser(image) /\ had # NoUser /\ AFPUserList_lookup(had)
           cleared == [State EXCEPT !.clients[i].user = NoUser]
           took == CASE keeps -> [State EXCEPT !.user = had]
                     [] ~keeps /\ NeedsUser(image) -> Obtain(cleared)
                     [] OTHER -> cleared
<1>1. PICK got : got = took
  OBVIOUS
<1>2. PICK named : named = Named(got, i)
  OBVIOUS
<1>3. PICK served : served = Serve(named, c, image, n, e)
  OBVIOUS
<1>4. r = Rebound(served, i, image)
  BY <1>1, <1>2, <1>3 DEF UpdateEntry
<1>5. Got(got, i, image, T)
  <2>1. keeps \in BOOLEAN /\ (keeps => NeedsUser(image) /\ clients[i].user # NoUser)
    OBVIOUS
  <2>2. \/ keeps /\ got = [State EXCEPT !.user = clients[i].user]
        \/ ~keeps /\ NeedsUser(image) /\ got = Obtain(cleared)
        \/ ~keeps /\ ~NeedsUser(image) /\ got = cleared
    <3> HIDE DEF keeps, cleared
    <3> QED BY <1>1, Zenon
  <2> HIDE DEF keeps
  <2> QED BY <2>1, <2>2, Gets
<1>6. \A j \in DOMAIN clients : clients[j] \in EntryIn(T)
  BY LenProperties
<1>7. c \in DOMAIN Client /\ n \in Nums /\ had \in Name
  BY <1>6 DEF EntryIn
<1>8. PICK G : G = got.clients
  OBVIOUS
<1>9. /\ G \in Seq(EntryIn(T)) /\ DOMAIN G = DOMAIN clients /\ Apart(G)
      /\ G[i].id = c /\ G[i].number = n
      /\ got.user # NoUser => \A j \in DOMAIN G : j # i => G[j].user # got.user
      /\ got.user \in Name
  BY <1>5, <1>8 DEF Got, Name
<1>10. PICK y \in EntryIn(T) : y = G[i]
  BY <1>9, LenProperties
<1>11. PICK z : z = [y EXCEPT !.user = got.user]
  OBVIOUS
<1>12. z \in EntryIn(T) /\ z.id = c /\ z.number = n /\ z.user = got.user
  BY <1>9, <1>10, <1>11 DEF EntryIn
<1>13. PICK M : M = [G EXCEPT ![i] = z]
  OBVIOUS
<1>14. /\ M \in Seq(EntryIn(T)) /\ Apart(M) /\ DOMAIN M = DOMAIN clients
       /\ M[i] = z /\ \A j \in DOMAIN clients : j # i => M[j] = G[j]
  <2>1. z.user = NoUser \/ \A j \in DOMAIN G : j # i => G[j].user # z.user
    BY <1>9, <1>12
  <2>2. Differs(G, M, i, z, T)
    BY <1>9, <1>12, <1>13, <2>1, Changed
  <2> QED BY <1>9, <2>2 DEF Differs
<1>15. /\ Req(named) /\ named.next = next /\ named.pw = pw /\ named.clients = M /\ named.dirs = got.dirs
       /\ named.user = got.user /\ named.ok = got.ok
  <2>1. named = [got EXCEPT !.clients = M]
    BY <1>2, <1>8, <1>10, <1>11, <1>13 DEF Named
  <2> QED BY <1>5, <2>1 DEF Req, Got
<1>16. /\ Req(served) /\ served.next = next /\ served.user = got.user /\ served.clients = M
       /\ served.ok \in BOOLEAN
       /\ OnlyOf(got.dirs, served.dirs, n)
       /\ served.pw \in Passwords /\ \A u \in User : u # got.user => served.pw[u] = pw[u]
       /\ served.ok = TRUE /\ got.user \in User /\ NeedsUser(image) => served.pw[got.user] = c
       /\ served.ok = TRUE /\ TellsShadow(image, e) => \E v \in Vols : served.dirs[v][n] = got.user
  <2>1. /\ named.dirs \in Dirs /\ named.pw \in Passwords
        /\ \/ named.ok = TRUE /\ named.user \in User
           \/ named.ok = TRUE /\ named.user = NoUser /\ ~NeedsUser(image)
           \/ named.ok = FALSE /\ named.user = NoUser
    BY <1>5, <1>15 DEF Got
  <2>2. Served(named, served, c, image, n, e)
    <3> HIDE DEF c, n
    <3> QED BY <1>3, <1>7, <1>15, <2>1, Serves
  <2> QED BY <1>15, <2>2 DEF Served
<1>17. PICK w : w = IF served.ok = TRUE THEN [z EXCEPT !.image = image.id, !.age = 0, !.bound = TRUE] ELSE z
  OBVIOUS
<1>18. /\ w \in EntryIn(T) /\ w.id = c /\ w.number = n /\ w.user = got.user
       /\ served.ok = TRUE => w.age = 0
  BY <1>12, <1>17 DEF EntryIn
<1>19. PICK N : N = [M EXCEPT ![i] = w]
  OBVIOUS
<1>20. /\ N \in Seq(EntryIn(T)) /\ Apart(N) /\ DOMAIN N = DOMAIN clients
       /\ N[i] = w /\ \A j \in DOMAIN clients : j # i => N[j] = M[j]
  <2>1. w.user = NoUser \/ \A j \in DOMAIN M : j # i => M[j].user # w.user
    BY <1>9, <1>14, <1>18
  <2>2. Differs(M, N, i, w, T)
    BY <1>12, <1>14, <1>18, <1>19, <2>1, Changed
  <2> QED BY <1>14, <2>2 DEF Differs
<1>21. /\ r.clients = N /\ r.next = next /\ r.user = got.user /\ r.dirs = served.dirs /\ r.pw = served.pw
       /\ r.ok = served.ok
  <2>1. CASE served.ok = TRUE
    <3>1. r = [served EXCEPT !.clients = N]
      BY <1>4, <1>14, <1>16, <1>17, <1>19, <2>1 DEF Rebound
    <3> QED BY <1>16, <3>1 DEF Req
  <2>2. CASE served.ok = FALSE
    <3>1. r = served /\ w = z
      BY <1>4, <1>17, <2>2 DEF Rebound
    <3>2. N = M
      BY <1>14, <1>19, <3>1
    <3> QED BY <1>16, <3>1, <3>2
  <2> QED BY <1>16, <2>1, <2>2
<1> HIDE DEF c, n, had, keeps, cleared, took
<1>22. Numbered(r.clients, r.next)
  <2>1. \A j \in DOMAIN clients : N[j].number = clients[j].number
    BY <1>5, <1>8, <1>14, <1>18, <1>20 DEF Got, n
  <2> QED BY <1>20, <1>21, <2>1 DEF Numbered
<1>23. \A j \in DOMAIN clients : j # i /\ ~Aged(clients[j]) =>
          /\ N[j] = clients[j]
          /\ \A v \in Vols : r.dirs[v][clients[j].number] = dirs[v][clients[j].number]
          /\ clients[j].user \in User => r.pw[clients[j].user] = pw[clients[j].user]
  <2> SUFFICES ASSUME NEW j \in DOMAIN clients, j # i, ~Aged(clients[j])
               PROVE  /\ N[j] = clients[j]
                      /\ \A v \in Vols : r.dirs[v][clients[j].number] = dirs[v][clients[j].number]
                      /\ clients[j].user \in User => r.pw[clients[j].user] = pw[clients[j].user]
    OBVIOUS
  <2>1. N[j] = clients[j]
    BY <1>5, <1>8, <1>14, <1>20 DEF Got
  <2>2. clients[j].number # n /\ clients[j].number \in Nums
    BY <1>6 DEF Apart, EntryIn, n
  <2>3. \A v \in Vols : r.dirs[v][clients[j].number] = dirs[v][clients[j].number]
    BY <1>5, <1>16, <1>21, <2>2 DEF Got, OnlyOf
  <2>4. clients[j].user \in User => clients[j].user # got.user
    <3>1. got.user # NoUser => clients[j].user # got.user
      BY <1>5 DEF Got
    <3> QED BY <3>1 DEF NetBootAssumption
  <2> QED BY <1>16, <1>21, <2>1, <2>3, <2>4
<1>24. r.ok = TRUE =>
         /\ N[i].id = c /\ N[i].user = r.user /\ ~Aged(N[i])
         /\ r.user \in User => r.pw[r.user] = c
         /\ r.user \in User /\ TellsShadow(image, e) => \E v \in Vols : r.dirs[v][N[i].number] = r.user
  <2>1. got.user \in User => NeedsUser(image)
    BY <1>5 DEF Got, NetBootAssumption
  <2>2. w.age = 0 => ~Aged(w)
    BY DEF Aged, NetBootAssumption
  <2> QED BY <1>16, <1>18, <1>20, <1>21, <2>1, <2>2
<1>25. r.dirs \in Dirs /\ r.pw \in Passwords /\ r.user \in Name
  BY <1>9, <1>16, <1>21 DEF OnlyOf
<1>26. \A j \in DOMAIN clients : clients[j].id # c /\ ~Aged(clients[j]) =>
         /\ \E k \in DOMAIN r.clients : r.clients[k] = clients[j]
         /\ \A v \in Vols : r.dirs[v][clients[j].number] = dirs[v][clients[j].number]
         /\ clients[j].user \in User => r.pw[clients[j].user] = pw[clients[j].user]
  BY <1>20, <1>21, <1>23 DEF c
<1>27. Binds(c, r, image, e, T)
  BY <1>20, <1>21, <1>22, <1>24, <1>25, <1>26 DEF Binds
<1> QED BY <1>27 DEF c

\* An entry at the head of a list with an identifier, a number and a user
\* that the others do not have.
Heads(L, M, y, T) ==
    /\ M \in Seq(EntryIn(T)) /\ Apart(M) /\ 1 \in DOMAIN M /\ M[1] = y
    /\ \A j \in DOMAIN L : j + 1 \in DOMAIN M /\ M[j + 1] = L[j]
    /\ \A j \in DOMAIN M : M[j] = y \/ \E k \in DOMAIN L : M[j] = L[k]

LEMMA Headed ==
    ASSUME NEW T, NEW L \in Seq(EntryIn(T)), Apart(L), NEW y \in EntryIn(T),
           \A j \in DOMAIN L : /\ L[j].id # y.id /\ L[j].number # y.number
                               /\ y.user # NoUser => L[j].user # y.user,
           NEW M, M = <<y>> \o L
    PROVE  Heads(L, M, y, T)
<1>1. DOMAIN L = 1 .. Len(L) /\ Len(L) \in Nat
  BY LenProperties
<1>2. <<y>> \in Seq(EntryIn(T)) /\ Len(<<y>>) = 1 /\ <<y>>[1] = y
  OBVIOUS
<1>3. /\ M \in Seq(EntryIn(T)) /\ Len(M) = 1 + Len(L)
      /\ \A j \in 1 .. Len(M) : M[j] = IF j <= 1 THEN y ELSE L[j - 1]
  <2>1. PICK h \in Seq(EntryIn(T)) : h = <<y>>
    BY <1>2
  <2>2. h \o L \in Seq(EntryIn(T)) /\ Len(h \o L) = Len(h) + Len(L)
        /\ \A j \in 1 .. Len(h) + Len(L) : (h \o L)[j] = IF j <= Len(h) THEN h[j] ELSE L[j - Len(h)]
    BY ConcatProperties
  <2>3. Len(h) = 1 /\ h[1] = y
    BY <1>2, <2>1
  <2> QED BY <1>1, <2>1, <2>2, <2>3
<1>4. DOMAIN M = 1 .. 1 + Len(L)
  BY <1>3, LenProperties
<1>5. M[1] = y /\ 1 \in DOMAIN M
  BY <1>1, <1>3, <1>4
<1>6. \A j \in DOMAIN L : j + 1 \in DOMAIN M /\ M[j + 1] = L[j]
  BY <1>1, <1>3, <1>4
<1>7. \A j \in DOMAIN M : j = 1 \/ (j - 1 \in DOMAIN L /\ M[j] = L[j - 1])
  BY <1>1, <1>3, <1>4
<1>8. Apart(M)
  <2> SUFFICES ASSUME NEW i \in DOMAIN M, NEW j \in DOMAIN M, i # j
               PROVE  /\ M[i].id # M[j].id /\ M[i].number # M[j].number
                      /\ M[i].user # NoUser => M[i].user # M[j].user
    BY DEF Apart
  <2>1. CASE i = 1
    BY <1>5, <1>7, <2>1
  <2>2. CASE j = 1
    BY <1>5, <1>7, <2>2
  <2>3. CASE i # 1 /\ j # 1
    <3>1. i - 1 # j - 1
      BY <1>1, <1>4
    <3> QED BY <1>7, <2>3, <3>1 DEF Apart
  <2> QED BY <2>1, <2>2, <2>3
<1>9. \A j \in DOMAIN M : M[j] = y \/ \E k \in DOMAIN L : M[j] = L[k]
  BY <1>5, <1>7
<1> QED BY <1>3, <1>5, <1>6, <1>8, <1>9 DEF Heads

\* A new entry at the head of the list.
LEMMA Creates ==
    ASSUME NEW T, clients \in Seq(EntryIn(T)), Apart(clients), Numbered(clients, next), users \in Seq(User),
           pw \in Passwords, dirs \in Dirs, NetBootAssumption,
           NEW image, image.id \in T, NEW e, NEW c \in DOMAIN Client, ~Known(c), next <= MaxNumber,
           NEW r, r = S_client_create(c, image, e)
    PROVE  Binds(c, r, image, e, T)
<1>1. PICK s : s = State
  OBVIOUS
<1>2. /\ Req(s) /\ s.clients = clients /\ s.dirs = dirs /\ s.next = next
      /\ s.pw = pw /\ s.ok = TRUE /\ s.user = NoUser
  BY <1>1 DEF State, Req
<1>3. PICK got : got = IF NeedsUser(image) THEN Obtain(s) ELSE s
  OBVIOUS
<1>4. PICK served : served = Serve(got, c, image, next, e)
  OBVIOUS
<1>5. r = Created(served, c, image)
  BY <1>1, <1>3, <1>4 DEF S_client_create
<1>6. next \in Nums /\ \A j \in DOMAIN clients : clients[j].number \in Nums /\ clients[j] \in EntryIn(T)
  <2>1. \A j \in DOMAIN clients : clients[j] \in EntryIn(T)
    BY LenProperties
  <2>2. \A x \in EntryIn(T) : x.number \in Nums
    BY DEF EntryIn
  <2>3. next \in Nums
    BY DEF Numbered, Nums, NetBootAssumption
  <2> QED BY <2>1, <2>2, <2>3
<1>7. /\ Req(got) /\ got.next = next /\ got.pw = pw
      /\ got.clients \in Seq(EntryIn(T)) /\ Apart(got.clients)
      /\ Follows(clients, dirs, got.clients, got.dirs)
      /\ \/ got.ok = TRUE /\ got.user \in User /\ NeedsUser(image)
         \/ got.ok = TRUE /\ got.user = NoUser /\ ~NeedsUser(image)
         \/ got.ok = FALSE /\ got.user = NoUser
      /\ got.user # NoUser => \A j \in DOMAIN clients :
             got.clients[j].user # got.user /\ (clients[j].user = got.user => Aged(clients[j]))
  <2>1. CASE NeedsUser(image)
    <3>1. got = Obtain(s)
      BY <1>3, <2>1
    <3>2. Obtained(s, got, T)
      BY <1>2, <3>1, Obtains
    <3> QED BY <1>2, <2>1, <3>2 DEF Obtained
  <2>2. CASE ~NeedsUser(image)
    <3>1. got = s
      BY <1>3, <2>2
    <3> QED BY <1>2, <2>2, <3>1 DEF Follows
  <2> QED BY <2>1, <2>2
<1>8. Served(got, served, c, image, next, e)
  <2>1. got.dirs \in Dirs /\ got.pw \in Passwords
    BY <1>7 DEF Follows
  <2> QED BY <1>4, <1>6, <1>7, <2>1, Serves
<1>9. PICK L : L = got.clients
  OBVIOUS
<1>10. /\ L \in Seq(EntryIn(T)) /\ Apart(L) /\ DOMAIN L = DOMAIN clients
       /\ \A j \in DOMAIN L : L[j].id # c /\ L[j].number < next
  <2>1. \A j \in DOMAIN clients : clients[j].id # c
    BY DEF Known
  <2> QED BY <1>7, <1>9, <2>1 DEF Follows, Numbered
<1>11. PICK y : y = [id |-> c, number |-> next, image |-> image.id, user |-> got.user, bound |-> TRUE, age |-> 0]
  OBVIOUS
<1>12. y \in EntryIn(T) /\ y.id = c /\ y.number = next /\ y.user = got.user /\ y.age = 0
  BY <1>6, <1>7, <1>11 DEF EntryIn, Name
<1>13. PICK M : M = <<y>> \o L
  OBVIOUS
<1>14. /\ M \in Seq(EntryIn(T)) /\ Apart(M) /\ 1 \in DOMAIN M /\ M[1] = y
       /\ \A j \in DOMAIN L : j + 1 \in DOMAIN M /\ M[j + 1] = L[j]
       /\ \A j \in DOMAIN M : M[j] = y \/ \E k \in DOMAIN L : M[j] = L[k]
  <2>1. \A j \in DOMAIN L : /\ L[j].id # y.id /\ L[j].number # y.number
                            /\ y.user # NoUser => L[j].user # y.user
    <3>1. next \in Nat /\ \A j \in DOMAIN L : L[j].number \in Nat
      <4>1. \A j \in DOMAIN L : L[j].number = clients[j].number
        BY <1>7, <1>9, <1>10 DEF Follows
      <4>2. \A m \in Nums : m \in Nat
        BY DEF Nums
      <4> QED BY <1>6, <1>10, <4>1, <4>2
    <3>2. \A j \in DOMAIN L : L[j].number # next
      BY <1>10, <3>1
    <3> QED BY <1>7, <1>9, <1>10, <1>12, <3>2
  <2>2. Heads(L, M, y, T)
    BY <1>10, <1>12, <1>13, <2>1, Headed
  <2> QED BY <2>2 DEF Heads
<1>15. \A j \in DOMAIN clients : ~Aged(clients[j]) =>
          /\ L[j] = clients[j]
          /\ \A v \in Vols : served.dirs[v][clients[j].number] = dirs[v][clients[j].number]
          /\ clients[j].user \in User => served.pw[clients[j].user] = pw[clients[j].user]
  <2> SUFFICES ASSUME NEW j \in DOMAIN clients, ~Aged(clients[j])
               PROVE  /\ L[j] = clients[j]
                      /\ \A v \in Vols : served.dirs[v][clients[j].number] = dirs[v][clients[j].number]
                      /\ clients[j].user \in User => served.pw[clients[j].user] = pw[clients[j].user]
    OBVIOUS
  <2>1. L[j] = clients[j]
    BY <1>7, <1>9 DEF Follows
  <2>2. \A v \in Vols : got.dirs[v][clients[j].number] = dirs[v][clients[j].number]
    <3>1. ASSUME NEW k \in DOMAIN clients, Aged(clients[k]) PROVE clients[k].number # clients[j].number
      <4>1. k # j
        BY <3>1
      <4> QED BY <4>1 DEF Apart
    <3>2. \A v \in Vols : \/ got.dirs[v][clients[j].number] = dirs[v][clients[j].number]
                          \/ \E k \in DOMAIN clients : Aged(clients[k]) /\ clients[k].number = clients[j].number
      BY <1>6, <1>7 DEF Follows
    <3> QED BY <3>1, <3>2
  <2>3. clients[j].number # next
    BY <1>6 DEF Numbered
  <2>4. \A v \in Vols : served.dirs[v][clients[j].number] = got.dirs[v][clients[j].number]
    BY <1>6, <1>8, <2>3 DEF Served, OnlyOf
  <2>5. clients[j].user \in User => clients[j].user # got.user
    <3>1. got.user # NoUser => clients[j].user # got.user
      BY <1>7
    <3> QED BY <3>1 DEF NetBootAssumption
  <2> QED BY <1>7, <1>8, <2>1, <2>2, <2>4, <2>5 DEF Served
<1>16. /\ served.dirs \in Dirs /\ served.pw \in Passwords /\ served.user = got.user /\ got.user \in Name
       /\ Req(served) /\ served.clients = L /\ served.next = next /\ served.ok \in BOOLEAN
  BY <1>7, <1>8, <1>9 DEF Served, OnlyOf, Name
<1>17. CASE served.ok = TRUE
  <2>1. r = [served EXCEPT !.clients = M, !.next = next + 1]
    BY <1>5, <1>11, <1>13, <1>16, <1>17 DEF Created
  <2>2. /\ r.clients = M /\ r.next = next + 1 /\ r.dirs = served.dirs /\ r.pw = served.pw
        /\ r.user = got.user /\ r.ok = TRUE
    BY <1>16, <1>17, <2>1 DEF Req
  <2>3. Numbered(M, next + 1)
    <3>1. \A j \in DOMAIN L : L[j].number \in Nat
      <4>1. \A j \in DOMAIN L : L[j] \in EntryIn(T)
        BY <1>10, LenProperties
      <4>2. \A x \in EntryIn(T) : x.number \in Nat
        BY DEF EntryIn, Nums
      <4> QED BY <4>1, <4>2
    <3>2. next \in Nat \ {0}
      BY DEF Numbered
    <3>3. ASSUME NEW j \in DOMAIN M PROVE M[j].number < next + 1
      <4>1. CASE M[j] = y
        BY <1>12, <3>2, <4>1
      <4>2. CASE \E k \in DOMAIN L : M[j] = L[k]
        BY <1>10, <3>1, <3>2, <4>2
      <4> QED BY <1>14, <4>1, <4>2
    <3> QED BY <3>2, <3>3 DEF Numbered
  <2>4. got.user \in User => NeedsUser(image)
    BY <1>7 DEF NetBootAssumption
  <2>5. ~Aged(y)
    BY <1>12 DEF Aged, NetBootAssumption
  <2>6. /\ M[1].id = c /\ M[1].user = r.user /\ ~Aged(M[1])
        /\ r.user \in User => r.pw[r.user] = c
        /\ r.user \in User /\ TellsShadow(image, e) => \E v \in Vols : r.dirs[v][M[1].number] = r.user
    BY <1>8, <1>12, <1>14, <1>17, <2>2, <2>4, <2>5 DEF Served
  <2>7. \A i \in DOMAIN clients : clients[i].id # c /\ ~Aged(clients[i]) =>
         /\ \E j \in DOMAIN r.clients : r.clients[j] = clients[i]
         /\ \A v \in Vols : r.dirs[v][clients[i].number] = dirs[v][clients[i].number]
         /\ clients[i].user \in User => r.pw[clients[i].user] = pw[clients[i].user]
    BY <1>10, <1>14, <1>15, <2>2
  <2>8. r.ok = TRUE => \E j \in DOMAIN r.clients :
         /\ r.clients[j].id = c /\ r.clients[j].user = r.user /\ ~Aged(r.clients[j])
         /\ r.user \in User => r.pw[r.user] = c
         /\ r.user \in User /\ TellsShadow(image, e) => \E v \in Vols : r.dirs[v][r.clients[j].number] = r.user
    BY <1>14, <2>2, <2>6
  <2> QED BY <1>14, <1>16, <2>2, <2>3, <2>7, <2>8 DEF Binds
<1>18. CASE served.ok = FALSE
  <2>1. r = served
    BY <1>5, <1>18 DEF Created
  <2>2. Numbered(L, next)
    BY <1>10 DEF Numbered
  <2>3. \A i \in DOMAIN clients : clients[i].id # c /\ ~Aged(clients[i]) =>
         /\ \E j \in DOMAIN r.clients : r.clients[j] = clients[i]
         /\ \A v \in Vols : r.dirs[v][clients[i].number] = dirs[v][clients[i].number]
         /\ clients[i].user \in User => r.pw[clients[i].user] = pw[clients[i].user]
    BY <1>10, <1>15, <1>16, <2>1
  <2> QED BY <1>10, <1>16, <1>18, <2>1, <2>2, <2>3 DEF Binds
<1> QED BY <1>16, <1>17, <1>18

-----------------------------------------------------------------------------
(* The invariant.                                                          *)

Told == [number : Nat, user : Name, shadow : BOOLEAN]

\* Client c was told b when it booted: an entry of the list that is not aged
\* is for it, with that number and user; the user has its password, and the
\* shadow file it was told of is there.
Holds(c, b, list, p, d) ==
    /\ \E i \in DOMAIN list : /\ list[i].id = c /\ ~Aged(list[i]) /\ list[i].number = b.number
                              /\ b.user # NoUser => list[i].user = b.user
    /\ b.user # NoUser => /\ p[b.user] = c
                          /\ b.shadow => \E v \in Vols : d[v][b.number] = b.user

\* While the service is off the list is in the file only.
Live == IF images = <<>> THEN file ELSE clients

Lists(T) ==
    /\ clients \in Seq(EntryIn(T)) /\ Apart(clients) /\ Numbered(clients, next)
    /\ file \in Seq(EntryIn(T)) /\ Apart(file)
    /\ users \in Seq(User) /\ pw \in Passwords /\ dirs \in Dirs
    /\ booted \in [DOMAIN Client -> Told]
    /\ images = <<>> => clients = <<>>

AllHold == \A c \in DOMAIN Client : Booted(c) => Holds(c, booted[c], Live, pw, dirs)

NetBootInv == (\E T : Lists(T)) /\ AllHold

LEMMA WiderSeq ==
    ASSUME NEW T, NEW U, T \subseteq U, NEW L \in Seq(EntryIn(T))
    PROVE  L \in Seq(EntryIn(U))
<1>1. DOMAIN L = 1 .. Len(L) /\ Len(L) \in Nat /\ L \in [1 .. Len(L) -> EntryIn(T)]
  BY LenProperties
<1>2. EntryIn(T) \subseteq EntryIn(U)
  BY DEF EntryIn
<1>3. \A i \in 1 .. Len(L) : L[i] \in EntryIn(U)
  BY <1>1, <1>2
<1>4. L = [i \in 1 .. Len(L) |-> L[i]]
  BY <1>1
<1>5. [i \in 1 .. Len(L) |-> L[i]] \in Seq(EntryIn(U))
  BY <1>1, <1>3, IsASeq
<1> QED BY <1>4, <1>5

\* A new kind of image does not disturb the lists.
LEMMA Wider ==
    ASSUME NEW T, NEW t, Lists(T)
    PROVE  \E U : t \in U /\ Lists(U)
<1> DEFINE U == T \cup {t}
<1>1. clients \in Seq(EntryIn(U)) /\ file \in Seq(EntryIn(U))
  BY WiderSeq DEF Lists
<1>2. Lists(U)
  BY <1>1 DEF Lists
<1> QED BY <1>2

\* What the clients were told is as far apart as their entries.
LEMMA InvImplies ==
    ASSUME NetBootInv, NetBootAssumption
    PROVE  RunningClientsApart /\ RunningClientServed
<1>1. PICK T : Lists(T)
  BY DEF NetBootInv
<1>2. Live \in Seq(EntryIn(T)) /\ Apart(Live)
  BY <1>1 DEF Live, Lists
<1>3. RunningClientsApart
  <2> SUFFICES ASSUME NEW c \in DOMAIN Client, NEW d \in DOMAIN Client, c # d, Booted(c), Booted(d)
               PROVE  /\ booted[c].number # booted[d].number
                      /\ booted[c].user # NoUser => booted[c].user # booted[d].user
    BY DEF RunningClientsApart
  <2>1. PICK i \in DOMAIN Live : /\ Live[i].id = c /\ Live[i].number = booted[c].number
                                 /\ booted[c].user # NoUser => Live[i].user = booted[c].user
    BY DEF NetBootInv, AllHold, Holds
  <2>2. PICK j \in DOMAIN Live : /\ Live[j].id = d /\ Live[j].number = booted[d].number
                                 /\ booted[d].user # NoUser => Live[j].user = booted[d].user
    BY DEF NetBootInv, AllHold, Holds
  <2>3. i # j
    BY <2>1, <2>2
  <2> QED BY <1>2, <2>1, <2>2, <2>3 DEF Apart
<1>4. RunningClientServed
  BY DEF NetBootInv, AllHold, Holds, RunningClientServed, Vols
<1> QED BY <1>3, <1>4

\* A list that keeps the entries of the clients that run, and leaves their
\* numbers and users alone, keeps what they were told.
LEMMA StillHolds ==
    ASSUME NEW T, Lists(T), NEW c \in DOMAIN Client, booted[c] \in Told,
           NEW L, NEW p, NEW d, Holds(c, booted[c], clients, pw, dirs),
           \A i \in DOMAIN clients : clients[i].id = c /\ ~Aged(clients[i]) =>
             /\ \E j \in DOMAIN L : L[j] = clients[i]
             /\ \A v \in Vols : d[v][clients[i].number] = dirs[v][clients[i].number]
             /\ clients[i].user \in User => p[clients[i].user] = pw[clients[i].user]
    PROVE  Holds(c, booted[c], L, p, d)
<1>1. PICK i \in DOMAIN clients : /\ clients[i].id = c /\ ~Aged(clients[i])
                                  /\ clients[i].number = booted[c].number
                                  /\ booted[c].user # NoUser => clients[i].user = booted[c].user
  BY DEF Holds
<1>2. PICK j \in DOMAIN L : L[j] = clients[i]
  BY <1>1
<1>3. /\ \A v \in Vols : d[v][booted[c].number] = dirs[v][booted[c].number]
      /\ clients[i].user \in User => p[clients[i].user] = pw[clients[i].user]
  BY <1>1
<1>4. booted[c].user # NoUser => booted[c].user \in User /\ clients[i].user = booted[c].user
  BY <1>1 DEF Told, Name
<1>5. \E k \in DOMAIN L : /\ L[k].id = c /\ ~Aged(L[k]) /\ L[k].number = booted[c].number
                          /\ booted[c].user # NoUser => L[k].user = booted[c].user
  BY <1>1, <1>2
<1>6. booted[c].user # NoUser => /\ p[booted[c].user] = c
                                 /\ booted[c].shadow => \E v \in Vols : d[v][booted[c].number] = booted[c].user
  BY <1>3, <1>4 DEF Holds
<1> QED BY <1>5, <1>6 DEF Holds

\* The end of a request keeps the invariant.
LEMMA Finishes ==
    ASSUME NEW T, Lists(T), AllHold, images # <<>>, NetBootAssumption,
           NEW c \in DOMAIN Client, NEW s, NEW image, NEW e,
           Binds(c, s, image, e, T), Finish(c, s, image, e)
    PROVE  NetBootInv'
<1> DEFINE n == (CHOOSE x \in Range(s.clients) : x.id = c).number
           tells == IF s.ok /\ e.fail # "reply"
                   THEN [number |-> n, user |-> s.user, shadow |-> TellsShadow(image, e)] ELSE NoBoot
<1>1. /\ clients' = s.clients /\ next' = s.next /\ dirs' = s.dirs /\ pw' = s.pw
      /\ file' \in {s.clients, file} /\ booted' = [booted EXCEPT ![c] = tells]
      /\ images' = images /\ users' = users
  BY DEF Finish
<1>2. s.ok = TRUE => \E j \in DOMAIN s.clients :
         /\ s.clients[j].id = c /\ s.clients[j].user = s.user /\ ~Aged(s.clients[j]) /\ n = s.clients[j].number
         /\ s.user \in User => s.pw[s.user] = c
         /\ s.user \in User /\ TellsShadow(image, e) => \E v \in Vols : s.dirs[v][s.clients[j].number] = s.user
  <2> HAVE s.ok = TRUE
  <2>1. PICK j \in DOMAIN s.clients :
         /\ s.clients[j].id = c /\ s.clients[j].user = s.user /\ ~Aged(s.clients[j])
         /\ s.user \in User => s.pw[s.user] = c
         /\ s.user \in User /\ TellsShadow(image, e) => \E v \in Vols : s.dirs[v][s.clients[j].number] = s.user
    BY DEF Binds
  <2>2. \A x \in Range(s.clients) : x.id = c => x = s.clients[j]
    BY <2>1 DEF Range, Binds, Apart
  <2>3. s.clients[j] \in Range(s.clients)
    BY DEF Range
  <2>4. n = s.clients[j].number
    BY <2>1, <2>2, <2>3
  <2> QED BY <2>1, <2>4
<1> HIDE DEF n
<1>3. tells \in Told
  <2>1. s.ok = TRUE => n \in Nat
    <3>1. \A j \in DOMAIN s.clients : s.clients[j] \in EntryIn(T)
      BY LenProperties DEF Binds
    <3>2. \A x \in EntryIn(T) : x.number \in Nat
      BY DEF EntryIn, Nums
    <3> QED BY <1>2, <3>1, <3>2
  <2>2. NoBoot \in Told
    BY DEF NoBoot, Told, Name
  <2>3. s.user \in Name /\ TellsShadow(image, e) \in BOOLEAN
    BY DEF Binds, TellsShadow
  <2> QED BY <2>1, <2>2, <2>3 DEF Told
<1>4. Lists(T)'
  <2>1. booted' \in [DOMAIN Client -> Told]
    BY <1>1, <1>3 DEF Lists
  <2> HIDE DEF tells
  <2> QED BY <1>1, <2>1 DEF Lists, Binds
<1>5. ASSUME NEW d \in DOMAIN Client, Booted(d)'
      PROVE  Holds(d, booted'[d], clients', pw', dirs')
  <2>1. CASE d = c
    <3>1. booted'[d] = tells
      BY <1>1, <2>1 DEF Lists
    <3>2. s.ok = TRUE /\ tells = [number |-> n, user |-> s.user, shadow |-> TellsShadow(image, e)]
      BY <1>5, <3>1 DEF Booted
    <3>3. s.user # NoUser => s.user \in User
      BY DEF Binds, Name
    <3> HIDE DEF tells
    <3> QED BY <1>1, <1>2, <2>1, <3>1, <3>2, <3>3 DEF Holds
  <2>2. CASE d # c
    <3>1. booted'[d] = booted[d] /\ booted[d] \in Told
      BY <1>1, <2>2 DEF Lists
    <3>2. Holds(d, booted[d], clients, pw, dirs)
      BY <1>5, <3>1 DEF AllHold, Booted, Live
    <3>3. \A i \in DOMAIN clients : clients[i].id = d /\ ~Aged(clients[i]) =>
             /\ \E j \in DOMAIN s.clients : s.clients[j] = clients[i]
             /\ \A v \in Vols : s.dirs[v][clients[i].number] = dirs[v][clients[i].number]
             /\ clients[i].user \in User => s.pw[clients[i].user] = pw[clients[i].user]
      BY <2>2 DEF Binds
    <3>4. Holds(d, booted[d], s.clients, s.pw, s.dirs)
      BY <3>1, <3>2, <3>3, StillHolds
    <3> QED BY <1>1, <3>1, <3>4
  <2> QED BY <2>1, <2>2
<1>6. Live' = clients'
  BY <1>1 DEF Live
<1> QED BY <1>4, <1>5, <1>6 DEF NetBootInv, AllHold

LEMMA NotAnswered ==
    ASSUME NetBootInv, NEW c \in DOMAIN Client, NoAnswer(c)
    PROVE  NetBootInv'
<1>1. PICK T : Lists(T)
  BY DEF NetBootInv
<1>2. NoBoot \in Told
  BY DEF NoBoot, Told, Name
<1>3. Lists(T)'
  BY <1>1, <1>2 DEF Lists, NoAnswer
<1>4. \A d \in DOMAIN Client : Booted(d)' => Booted(d) /\ booted'[d] = booted[d]
  BY <1>1 DEF Lists, NoAnswer, Booted
<1>5. Live' = Live /\ pw' = pw /\ dirs' = dirs
  BY DEF NoAnswer, Live
<1> QED BY <1>3, <1>4, <1>5 DEF NetBootInv, AllHold

\* An entry is removed: the others stay.
LEMMA Removed ==
    ASSUME NEW T, NEW L \in Seq(EntryIn(T)), Apart(L), NEW i \in DOMAIN L, NEW M, M = RemoveAt(L, i)
    PROVE  /\ M \in Seq(EntryIn(T)) /\ Apart(M)
           /\ \A j \in DOMAIN M : \E k \in DOMAIN L : M[j] = L[k]
           /\ \A k \in DOMAIN L : k # i => \E j \in DOMAIN M : M[j] = L[k]
<1>1. DOMAIN L = 1 .. Len(L) /\ Len(L) \in Nat /\ \A j \in DOMAIN L : L[j] \in EntryIn(T)
  BY LenProperties
<1>2. PICK a : a = SubSeq(L, 1, i - 1)
  OBVIOUS
<1>3. a \in Seq(EntryIn(T)) /\ Len(a) = i - 1 /\ \A j \in 1 .. i - 1 : a[j] = L[j]
  <2>1. /\ a \in Seq(EntryIn(T)) /\ Len(a) = IF 1 <= i - 1 THEN i - 1 - 1 + 1 ELSE 0
        /\ \A j \in 1 .. i - 1 - 1 + 1 : a[j] = L[1 + j - 1]
    BY <1>1, <1>2, SubSeqProperties
  <2> QED BY <1>1, <2>1
<1>4. PICK b : b = SubSeq(L, i + 1, Len(L))
  OBVIOUS
<1>5. b \in Seq(EntryIn(T)) /\ Len(b) = Len(L) - i /\ \A j \in 1 .. Len(L) - i : b[j] = L[i + j]
  <2>1. /\ b \in Seq(EntryIn(T)) /\ Len(b) = IF i + 1 <= Len(L) THEN Len(L) - (i + 1) + 1 ELSE 0
        /\ \A j \in 1 .. Len(L) - (i + 1) + 1 : b[j] = L[i + 1 + j - 1]
    BY <1>1, <1>4, SubSeqProperties
  <2>2. Len(L) - (i + 1) + 1 = Len(L) - i /\ \A j \in 1 .. Len(L) - i : i + 1 + j - 1 = i + j
    BY <1>1
  <2>3. \A j \in 1 .. Len(L) - i : b[j] = L[i + j]
    BY <2>1, <2>2
  <2>4. Len(b) = Len(L) - i
    BY <1>1, <2>1
  <2> QED BY <2>1, <2>3, <2>4
<1>6. /\ M \in Seq(EntryIn(T)) /\ Len(M) = Len(a) + Len(b)
      /\ \A j \in 1 .. Len(a) + Len(b) : M[j] = IF j <= Len(a) THEN a[j] ELSE b[j - Len(a)]
  <2>1. M = a \o b
    BY <1>2, <1>4 DEF RemoveAt
  <2>2. a \in Seq(EntryIn(T)) /\ b \in Seq(EntryIn(T))
    BY <1>3, <1>5
  <2>3. /\ a \o b \in Seq(EntryIn(T)) /\ Len(a \o b) = Len(a) + Len(b)
        /\ \A j \in 1 .. Len(a) + Len(b) : (a \o b)[j] = IF j <= Len(a) THEN a[j] ELSE b[j - Len(a)]
    BY <2>2, ConcatProperties
  <2> QED BY <2>1, <2>3
<1>7. DOMAIN M = 1 .. Len(L) - 1
  <2>1. DOMAIN M = 1 .. Len(M)
    BY <1>6, LenProperties
  <2> QED BY <1>1, <1>3, <1>5, <1>6, <2>1
<1> DEFINE from(j) == IF j < i THEN j ELSE j + 1
<1>8. \A j \in DOMAIN M : from(j) \in DOMAIN L /\ from(j) # i /\ M[j] = L[from(j)]
  <2> SUFFICES ASSUME NEW j \in DOMAIN M PROVE from(j) \in DOMAIN L /\ from(j) # i /\ M[j] = L[from(j)]
    OBVIOUS
  <2>1. CASE j < i
    BY <1>1, <1>3, <1>5, <1>6, <1>7, <2>1
  <2>2. CASE ~(j < i)
    <3>1. M[j] = b[j - (i - 1)] /\ j - (i - 1) \in 1 .. Len(L) - i
      BY <1>1, <1>3, <1>5, <1>6, <1>7, <2>2
    <3>2. i + (j - (i - 1)) = j + 1
      BY <1>1, <1>7
    <3> QED BY <1>1, <1>5, <1>7, <2>2, <3>1, <3>2
  <2> QED BY <2>1, <2>2
<1>9. \A j, k \in DOMAIN M : j # k => from(j) # from(k)
  BY <1>1, <1>7
<1>10. \A k \in DOMAIN L : k # i => \E j \in DOMAIN M : from(j) = k
  <2> SUFFICES ASSUME NEW k \in DOMAIN L, k # i PROVE \E j \in DOMAIN M : from(j) = k
    OBVIOUS
  <2>1. CASE k < i
    BY <1>1, <1>7, <2>1
  <2>2. CASE k > i
    <3>1. k - 1 \in DOMAIN M /\ from(k - 1) = k
      BY <1>1, <1>7, <2>2
    <3> QED BY <3>1
  <2> QED BY <1>1, <2>1, <2>2
<1> HIDE DEF from
<1>11. Apart(M)
  BY <1>8, <1>9 DEF Apart
<1>12. \A k \in DOMAIN L : k # i => \E j \in DOMAIN M : M[j] = L[k]
  BY <1>8, <1>10
<1> QED BY <1>6, <1>8, <1>11, <1>12

LEMMA Forgets ==
    ASSUME NetBootInv, images # <<>>, NetBootAssumption, NEW c \in DOMAIN Client, NEW e, Known(c), S_client_remove(c, e)
    PROVE  NetBootInv'
<1>1. PICK T : Lists(T)
  BY DEF NetBootInv
<1>2. PICK i : i = Entry(c)
  OBVIOUS
<1>3. i \in DOMAIN clients /\ clients[i].id = c
  BY <1>2 DEF Entry, Known
<1>4. \A j \in DOMAIN clients : clients[j] \in EntryIn(T)
  BY <1>1, LenProperties DEF Lists
<1>5. clients' = RemoveAt(clients, i) /\ dirs' = macNC_unlink_shadow(dirs, clients[i].number)
      /\ file' \in {clients', file} /\ booted' = [booted EXCEPT ![c] = NoBoot]
      /\ next' = next /\ images' = images /\ users' = users /\ pw' = pw
  BY <1>2 DEF S_client_remove
<1>6. /\ clients' \in Seq(EntryIn(T)) /\ Apart(clients')
      /\ \A j \in DOMAIN clients' : \E k \in DOMAIN clients : clients'[j] = clients[k]
      /\ \A k \in DOMAIN clients : k # i => \E j \in DOMAIN clients' : clients'[j] = clients[k]
  BY <1>1, <1>3, <1>5, Removed DEF Lists
<1>7. OnlyOf(dirs, dirs', clients[i].number)
  <2>1. clients[i].number \in Nums /\ dirs \in Dirs
    BY <1>1, <1>3, <1>4 DEF EntryIn, Lists
  <2> QED BY <1>5, <2>1, Unlinks
<1>8. NoBoot \in Told
  BY DEF NoBoot, Told, Name
<1>9. Lists(T)'
  <2>1. Numbered(clients', next')
    BY <1>1, <1>5, <1>6 DEF Numbered, Lists
  <2>2. booted' \in [DOMAIN Client -> Told]
    BY <1>1, <1>5, <1>8 DEF Lists
  <2>3. dirs' \in Dirs
    BY <1>7 DEF OnlyOf
  <2> QED BY <1>1, <1>5, <1>6, <2>1, <2>2, <2>3 DEF Lists
<1>10. ASSUME NEW d \in DOMAIN Client, Booted(d)'
       PROVE  Holds(d, booted'[d], clients', pw', dirs')
  <2>1. d # c /\ booted'[d] = booted[d] /\ booted[d] \in Told
    BY <1>1, <1>5, <1>10 DEF Lists, Booted
  <2>2. Holds(d, booted[d], clients, pw, dirs)
    BY <1>10, <2>1 DEF NetBootInv, AllHold, Booted, Live
  <2>3. \A j \in DOMAIN clients : clients[j].id = d /\ ~Aged(clients[j]) =>
             /\ \E k \in DOMAIN clients' : clients'[k] = clients[j]
             /\ \A v \in Vols : dirs'[v][clients[j].number] = dirs[v][clients[j].number]
             /\ clients[j].user \in User => pw'[clients[j].user] = pw[clients[j].user]
    <3> SUFFICES ASSUME NEW j \in DOMAIN clients, clients[j].id = d
                 PROVE  /\ \E k \in DOMAIN clients' : clients'[k] = clients[j]
                        /\ \A v \in Vols : dirs'[v][clients[j].number] = dirs[v][clients[j].number]
                        /\ pw' = pw
      OBVIOUS
    <3>1. j # i
      BY <1>3, <2>1
    <3>2. clients[j].number # clients[i].number /\ clients[j].number \in Nums
      BY <1>1, <1>3, <1>4, <3>1 DEF Lists, Apart, EntryIn
    <3> QED BY <1>5, <1>6, <1>7, <3>1, <3>2 DEF OnlyOf
  <2> QED BY <1>1, <2>1, <2>2, <2>3, StillHolds
<1>11. Live' = clients'
  BY <1>5 DEF Live
<1> QED BY <1>9, <1>10, <1>11 DEF NetBootInv, AllHold

LEMMA Binding ==
    ASSUME NetBootInv, images # <<>>, NetBootAssumption, NEW c \in DOMAIN Client, NEW image, NEW e, Bind(c, image, e)
    PROVE  NetBootInv'
<1>1. PICK T : image.id \in T /\ Lists(T)
  BY Wider DEF NetBootInv
<1>2. PICK s : s = IF Known(c) THEN S_client_update(c, image, e) ELSE S_client_create(c, image, e)
  OBVIOUS
<1>3. Binds(c, s, image, e, T)
  <2>1. CASE Known(c)
    <3>1. PICK i : i = Entry(c)
      OBVIOUS
    <3>2. i \in DOMAIN clients /\ clients[i].id = c
      BY <2>1, <3>1 DEF Entry, Known
    <3>3. s = UpdateEntry(i, image, e)
      BY <1>2, <2>1, <3>1 DEF S_client_update
    <3>4. Binds(clients[i].id, s, image, e, T)
      BY <1>1, <3>2, <3>3, Updates DEF Lists
    <3> QED BY <3>2, <3>4
  <2>2. CASE ~Known(c)
    BY <1>1, <1>2, <2>2, Creates DEF Lists, Bind
  <2> QED BY <2>1, <2>2
<1>4. Finish(c, s, image, e)
  BY <1>2 DEF Bind
<1> QED BY <1>1, <1>3, <1>4, Finishes DEF NetBootInv

\* The next number after a start is above every number of the list.
LEMMA AboveAll ==
    ASSUME NEW T, NEW L \in Seq(EntryIn(T)), NetBootAssumption
    PROVE  Numbered(L, S_host_number_max(L) + 1)
<1>1. DOMAIN L = 1 .. Len(L) /\ Len(L) \in Nat /\ \A i \in DOMAIN L : L[i] \in EntryIn(T)
  BY LenProperties
<1>2. \A x \in EntryIn(T) : x.number \in 0 .. MaxNumber
  BY DEF EntryIn, Nums, NetBootAssumption
<1>3. CASE L = <<>>
  BY <1>3 DEF Numbered, S_host_number_max
<1>4. CASE L # <<>>
  <2> DEFINE S == {x.number : x \in Range(L)}
             Top(x) == \A y \in Range(L) : x.number >= y.number
  <2>1. Range(L) # {}
    <3>1. Len(L) # 0
      BY <1>4, EmptySeq
    <3>2. 1 \in DOMAIN L
      BY <1>1, <3>1
    <3> QED BY <3>2 DEF Range
  <2>2. \A x \in Range(L) : x.number \in 0 .. MaxNumber
    BY <1>1, <1>2 DEF Range
  <2>3. S \subseteq 0 .. MaxNumber /\ S # {}
    BY <2>1, <2>2
  <2>4. \E z \in S : \A y \in S : z >= y
    <3> HIDE DEF S
    <3> QED BY <2>3, GreatestIn DEF NetBootAssumption
  <2>5. \E x \in Range(L) : Top(x)
    BY <2>4
  <2>6. PICK x : x = CHOOSE z \in Range(L) : Top(z)
    OBVIOUS
  <2>7. x \in Range(L) /\ Top(x)
    BY <2>5, <2>6
  <2>8. S_host_number_max(L) = x.number
    BY <1>4, <2>6 DEF S_host_number_max
  <2>9. \A i \in DOMAIN L : L[i] \in Range(L)
    BY DEF Range
  <2>10. x.number + 1 \in Nat \ {0} /\ \A i \in DOMAIN L : L[i].number < x.number + 1
    BY <2>2, <2>7, <2>9
  <2> QED BY <2>8, <2>10 DEF Numbered
<1> QED BY <1>3, <1>4

LEMMA UsersListed ==
    ASSUME NEW us \in UserLists
    PROVE  us \in Seq(User)
<1>1. PICK k \in 0 .. Cardinality(User) : us \in [1 .. k -> User]
  BY DEF UserLists
<1>2. k \in Nat
  OBVIOUS
<1>3. us = [i \in 1 .. k |-> us[i]] /\ \A i \in 1 .. k : us[i] \in User
  BY <1>1
<1>4. [i \in 1 .. k |-> us[i]] \in Seq(User)
  BY <1>2, <1>3, IsASeq
<1> QED BY <1>3, <1>4

\* Whatever is found on the disks, a client that is still known has what it
\* was told.
LEMMA Restarts ==
    ASSUME NetBootInv, NetBootAssumption, bsdp_init
    PROVE  NetBootInv'
<1>1. PICK T : Lists(T)
  BY DEF NetBootInv
<1>2. PICK us \in UserLists :
        /\ IF images' = <<>> THEN users' = <<>> /\ clients' = <<>> /\ UNCHANGED next
           ELSE users' = us /\ clients' = file /\ next' = S_host_number_max(file) + 1
        /\ booted' = [c \in DOMAIN Client |-> IF StillServed(c, us) THEN booted[c] ELSE NoBoot]
        /\ UNCHANGED <<file, pw, dirs>>
  BY DEF bsdp_init
<1>3. us \in Seq(User)
  BY UsersListed
<1>4. NoBoot \in Told
  BY DEF NoBoot, Told, Name
<1>5. /\ clients' \in Seq(EntryIn(T)) /\ Apart(clients') /\ Numbered(clients', next')
      /\ users' \in Seq(User) /\ (images' = <<>> => clients' = <<>>)
  <2>1. CASE images' = <<>>
    <3>1. clients' = <<>> /\ users' = <<>> /\ next' = next
      BY <1>2, <2>1
    <3> QED BY <1>1, <2>1, <3>1 DEF Lists, Apart, Numbered
  <2>2. CASE images' # <<>>
    <3>1. clients' = file /\ users' = us /\ next' = S_host_number_max(file) + 1
      BY <1>2, <2>2
    <3>2. file \in Seq(EntryIn(T)) /\ Apart(file)
      BY <1>1 DEF Lists
    <3>3. Numbered(file, S_host_number_max(file) + 1)
      BY <3>2, AboveAll
    <3> QED BY <1>3, <2>2, <3>1, <3>2, <3>3
  <2> QED BY <2>1, <2>2
<1>6. Lists(T)'
  <2>1. booted' \in [DOMAIN Client -> Told]
    BY <1>1, <1>2, <1>4 DEF Lists
  <2> QED BY <1>1, <1>2, <1>5, <2>1 DEF Lists
<1>7. Live' = file
  BY <1>2 DEF Live
<1>8. ASSUME NEW c \in DOMAIN Client, Booted(c)'
      PROVE  Holds(c, booted'[c], file, pw, dirs)
  <2>1. booted'[c] = booted[c] /\ Booted(c) /\ StillServed(c, us)
    BY <1>2, <1>8 DEF Booted
  <2>2. Holds(c, booted[c], Live, pw, dirs)
    BY <2>1 DEF NetBootInv, AllHold
  <2>3. CASE images = <<>>
    BY <2>1, <2>2, <2>3 DEF Live
  <2>4. CASE images # <<>>
    <3>1. Holds(c, booted[c], clients, pw, dirs)
      BY <2>2, <2>4 DEF Live
    <3>2. \A i \in DOMAIN clients : clients[i].id = c => \E j \in DOMAIN file : file[j] = clients[i]
      BY <2>1 DEF StillServed, Range
    <3>3. booted[c] \in Told
      BY <1>1 DEF Lists
    <3>4. Holds(c, booted[c], file, pw, dirs)
      BY <1>1, <3>1, <3>2, <3>3, StillHolds
    <3> QED BY <2>1, <3>4
  <2> QED BY <2>3, <2>4
<1>9. pw' = pw /\ dirs' = dirs
  BY <1>2
<1> QED BY <1>6, <1>7, <1>8, <1>9 DEF NetBootInv, AllHold

\* The clock.
LEMMA Ages ==
    ASSUME NEW T, NEW L \in Seq(EntryIn(T)), Apart(L), NetBootAssumption, NEW M, M = Older(L)
    PROVE  /\ M \in Seq(EntryIn(T)) /\ Apart(M) /\ DOMAIN M = DOMAIN L
           /\ \A i \in DOMAIN L : /\ M[i].id = L[i].id /\ M[i].number = L[i].number /\ M[i].user = L[i].user
                                  /\ L[i].age + 1 < AgeTime => ~Aged(M[i])
<1>1. DOMAIN L = 1 .. Len(L) /\ Len(L) \in Nat /\ \A i \in DOMAIN L : L[i] \in EntryIn(T)
  BY LenProperties
<1>2. DOMAIN M = DOMAIN L /\ M = [i \in 1 .. Len(L) |-> M[i]]
  BY <1>1 DEF Older
<1>3. \A i \in DOMAIN L : /\ M[i] \in EntryIn(T) /\ M[i].id = L[i].id /\ M[i].number = L[i].number
                          /\ M[i].user = L[i].user
                          /\ L[i].age + 1 < AgeTime => ~Aged(M[i])
  <2> SUFFICES ASSUME NEW i \in DOMAIN L
               PROVE  /\ M[i] \in EntryIn(T) /\ M[i].id = L[i].id /\ M[i].number = L[i].number
                      /\ M[i].user = L[i].user
                      /\ L[i].age + 1 < AgeTime => ~Aged(M[i])
    OBVIOUS
  <2>1. PICK x \in EntryIn(T) : x = L[i]
    BY <1>1
  <2>2. PICK a : a = IF x.age < AgeTime THEN x.age + 1 ELSE x.age
    OBVIOUS
  <2>3. M[i] = [x EXCEPT !.age = a]
    BY <2>1, <2>2 DEF Older
  <2>4. x.age \in Nat /\ a \in Nat
    BY <2>2 DEF EntryIn
  <2>5. M[i].age = a /\ M[i] \in EntryIn(T) /\ M[i].id = x.id /\ M[i].number = x.number /\ M[i].user = x.user
    BY <2>3, <2>4 DEF EntryIn
  <2>6. x.age + 1 < AgeTime => ~(a >= AgeTime)
    BY <2>2, <2>4 DEF NetBootAssumption
  <2> QED BY <2>1, <2>5, <2>6 DEF Aged
<1>4. M \in Seq(EntryIn(T))
  BY <1>1, <1>2, <1>3, IsASeq
<1>5. Apart(M)
  <2>1. DOMAIN M = DOMAIN L
    BY <1>2
  <2>2. \A i \in DOMAIN L : M[i].id = L[i].id /\ M[i].number = L[i].number /\ M[i].user = L[i].user
    BY <1>3
  <2> QED BY <2>1, <2>2 DEF Apart
<1> QED BY <1>2, <1>3, <1>4, <1>5

LEMMA Ticks ==
    ASSUME NetBootInv, NetBootAssumption, AgeTick
    PROVE  NetBootInv'
<1>1. PICK T : Lists(T)
  BY DEF NetBootInv
<1>2. /\ clients' = Older(clients) /\ file' = Older(file)
      /\ booted' = [c \in DOMAIN Client |->
                    IF \E x \in Range(clients) : x.id = c /\ x.age + 1 < AgeTime THEN booted[c] ELSE NoBoot]
      /\ next' = next /\ images' = images /\ users' = users /\ pw' = pw /\ dirs' = dirs
  BY DEF AgeTick
<1>3. /\ clients' \in Seq(EntryIn(T)) /\ Apart(clients') /\ DOMAIN clients' = DOMAIN clients
      /\ \A i \in DOMAIN clients : /\ clients'[i].id = clients[i].id /\ clients'[i].number = clients[i].number
                                   /\ clients'[i].user = clients[i].user
                                   /\ clients[i].age + 1 < AgeTime => ~Aged(clients'[i])
  BY <1>1, <1>2, Ages DEF Lists
<1>4. file' \in Seq(EntryIn(T)) /\ Apart(file')
  BY <1>1, <1>2, Ages DEF Lists
<1>5. NoBoot \in Told
  BY DEF NoBoot, Told, Name
<1>6. Lists(T)'
  <2>1. Numbered(clients', next')
    BY <1>1, <1>2, <1>3 DEF Lists, Numbered
  <2>2. booted' \in [DOMAIN Client -> Told]
    BY <1>1, <1>2, <1>5 DEF Lists
  <2>3. images = <<>> => clients' = <<>>
    BY <1>1, <1>2 DEF Lists, Older
  <2> QED BY <1>1, <1>2, <1>3, <1>4, <2>1, <2>2, <2>3 DEF Lists
<1>7. ASSUME NEW c \in DOMAIN Client, Booted(c)'
      PROVE  Holds(c, booted'[c], Live', pw, dirs)
  <2>1. /\ booted'[c] = booted[c] /\ Booted(c)
        /\ \E x \in Range(clients) : x.id = c /\ x.age + 1 < AgeTime
    BY <1>2, <1>7 DEF Booted
  <2>2. PICK j \in DOMAIN clients : clients[j].id = c /\ clients[j].age + 1 < AgeTime
    BY <2>1 DEF Range
  <2>3. images # <<>>
    BY <1>1, <2>2 DEF Lists
  <2>4. Live = clients /\ Live' = clients'
    BY <1>2, <2>3 DEF Live
  <2>5. Holds(c, booted[c], clients, pw, dirs)
    BY <2>1, <2>4 DEF NetBootInv, AllHold
  <2>6. PICK i \in DOMAIN clients : /\ clients[i].id = c /\ clients[i].number = booted[c].number
                                    /\ booted[c].user # NoUser => clients[i].user = booted[c].user
    BY <2>5 DEF Holds
  <2>7. i = j
    BY <1>1, <2>2, <2>6 DEF Lists, Apart
  <2>8. /\ clients'[i].id = c /\ ~Aged(clients'[i]) /\ clients'[i].number = booted[c].number
        /\ booted[c].user # NoUser => clients'[i].user = booted[c].user
    BY <1>3, <2>2, <2>6, <2>7
  <2> QED BY <1>3, <2>1, <2>4, <2>5, <2>8 DEF Holds
<1> QED BY <1>2, <1>6, <1>7 DEF NetBootInv, AllHold

-----------------------------------------------------------------------------
(* The steps.                                                              *)

\* A REQUEST for an address writes the list.
LEMMA AddressTold ==
    ASSUME NetBootInv, images # <<>>, NEW c \in DOMAIN Client, NEW e, bsdp_dhcp_request(c, e)
    PROVE  NetBootInv'
<1>1. PICK T : Lists(T)
  BY DEF NetBootInv
<1>2. /\ file' \in {clients, file} /\ clients' = clients /\ next' = next /\ images' = images
      /\ users' = users /\ pw' = pw /\ dirs' = dirs /\ booted' = booted
  BY DEF bsdp_dhcp_request
<1>3. Lists(T)'
  BY <1>1, <1>2 DEF Lists
<1>4. Live' = Live
  BY <1>2 DEF Live
<1> QED BY <1>2, <1>3, <1>4 DEF NetBootInv, AllHold, Booted

LEMMA Requests ==
    ASSUME NetBootInv, NetBootAssumption, images # <<>>, NEW c \in DOMAIN Client, NEW e, ClientRequest(c, e)
    PROVE  NetBootInv'
<1>1. ASSUME NEW filter \in Filters, Discover(c, filter, e) PROVE NetBootInv'
  <2>1. PICK image : \/ Known(c) /\ Finish(c, S_client_update(c, image, e), image, e)
                     \/ NoAnswer(c)
    BY <1>1 DEF Discover
  <2>2. CASE Known(c) /\ Finish(c, S_client_update(c, image, e), image, e)
    <3>1. Bind(c, image, e)
      BY <2>2 DEF Bind
    <3> QED BY <3>1, Binding
  <2>3. CASE NoAnswer(c)
    BY <2>3, NotAnswered
  <2> QED BY <2>1, <2>2, <2>3
<1>2. ASSUME NEW mine \in BOOLEAN, NEW chosen, Select(c, mine, chosen, e) PROVE NetBootInv'
  <2>1. \/ Known(c) /\ S_client_remove(c, e)
        \/ NoAnswer(c)
        \/ \E image : Bind(c, image, e)
        \/ bsdp_init
    BY <1>2, Zenon DEF Select
  <2> QED BY <2>1, Forgets, NotAnswered, Binding, Restarts
<1>3. ASSUME List(c) PROVE NetBootInv'
  BY <1>3, NotAnswered DEF List
<1>4. ASSUME old_netboot_request(c, e) PROVE NetBootInv'
  <2>1. NoAnswer(c) \/ \E image : Bind(c, image, e)
    BY <1>4, Zenon DEF old_netboot_request
  <2> QED BY <2>1, NotAnswered, Binding
<1> QED BY <1>1, <1>2, <1>3, <1>4, AddressTold DEF ClientRequest

LEMMA NetBootStart ==
    ASSUME NetBootInit, NetBootAssumption
    PROVE  NetBootInv
<1>1. users \in Seq(User)
  BY UsersListed DEF NetBootInit
<1>2. clients \in Seq(EntryIn({})) /\ file \in Seq(EntryIn({}))
  BY DEF NetBootInit
<1>3. Apart(clients) /\ Apart(file) /\ Numbered(clients, next)
  BY DEF NetBootInit, Apart, Numbered
<1>4. pw \in Passwords /\ dirs \in Dirs
  BY DEF NetBootInit, Passwords, Dirs, Vols, Nums
<1>5. NoBoot \in Told
  BY DEF NoBoot, Told, Name
<1>6. booted \in [DOMAIN Client -> Told] /\ \A c \in DOMAIN Client : ~Booted(c)
  BY <1>5 DEF NetBootInit, Booted
<1>7. Lists({})
  BY <1>1, <1>2, <1>3, <1>4, <1>6 DEF Lists, NetBootInit
<1> QED BY <1>6, <1>7 DEF NetBootInv, AllHold

LEMMA NetBootStep ==
    ASSUME NetBootInv, NetBootAssumption, [NetBootNext]_netbootVars
    PROVE  NetBootInv'
<1>1. CASE images # <<>> /\ \E c \in DOMAIN Client : ClientRequest(c, Fine)
  BY <1>1, Requests
<1>2. CASE images # <<>> /\ \E c \in DOMAIN Client, e \in Env : ClientRequest(c, e)
  BY <1>2, Requests
<1>3. CASE bsdp_init
  BY <1>3, Restarts
<1>4. CASE AgeTick
  BY <1>4, Ticks
<1>5. CASE UNCHANGED netbootVars
  <2>1. /\ clients' = clients /\ file' = file /\ next' = next /\ images' = images
        /\ users' = users /\ pw' = pw /\ dirs' = dirs /\ booted' = booted
    BY <1>5 DEF netbootVars
  <2>2. ASSUME NEW T, Lists(T) PROVE Lists(T)'
    BY <2>1, <2>2 DEF Lists
  <2>3. AllHold'
    BY <2>1 DEF NetBootInv, AllHold, Booted, Live
  <2> QED BY <2>2, <2>3 DEF NetBootInv
<1> QED BY <1>1, <1>2, <1>3, <1>4, <1>5 DEF NetBootNext

\* What a client was told when it booted holds for as long as it may rely on
\* it: bsdpd.c keeps the numbers and the users of running clients apart, and
\* leaves their passwords and their shadow files alone, whatever fails, is
\* reclaimed, removed or read from the file.
THEOREM RunningClientsKept == NetBootSpec => [](RunningClientsApart /\ RunningClientServed)
<1>1. NetBootInit => NetBootInv
  BY NetBootStart, NetBootAssumption
<1>2. NetBootInv /\ [NetBootNext]_netbootVars => NetBootInv'
  BY NetBootStep, NetBootAssumption
<1>3. NetBootInv => RunningClientsApart /\ RunningClientServed
  BY InvImplies, NetBootAssumption
<1> QED BY <1>1, <1>2, <1>3, PTL DEF NetBootSpec
=============================================================================
