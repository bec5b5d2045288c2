----------------------------- MODULE ServiceList -----------------------------
(***************************************************************************)
(* The services of the IPConfiguration agent (ipconfigd.c): how they follow *)
(* the configuration, how they publish their IPv4 address under their own  *)
(* or their parent's identifier, how the link-local service of an interface *)
(* is elected, and how interfaces are disabled while a better one serves.  *)
(*                                                                         *)
(* Everything runs on one queue; a handler is a function from ag, the      *)
(* agent's state with the kernel's addresses and the published entities,   *)
(* to ag.  What the link-local election, the disabling of interfaces and   *)
(* the notification of IPv6 need to look at is left in ag.attn for the     *)
(* asynchronous work, which runs later.                                    *)
(***************************************************************************)
EXTENDS Naturals, FiniteSets, Sequences, SequencesExt

CONSTANTS
    Interfaces,     \* interfaces, in the order of the interface list
    ServiceIDs,     \* identifiers of configured and dynamic services
    Setups,         \* configurations: services, wishes and order
    LinkLocalID,    \* identifier of the link-local service of an interface
    Wireless,       \* interfaces where proxy ARP is not probed for
    LinkLocals,     \* IPv4 link-local addresses
    MaxChanges      \* bound on the changes of configuration, links and clients

NoAddr == "no address"
NoID == "no service"
NetIf == ToSet(Interfaces)
Methods == {"manual", "failover", "dhcp", "linklocal", "automatic"}

ASSUME ServiceAssumption ==
    /\ Interfaces \in Seq(NetIf) /\ Interfaces # <<>>
    /\ NoID \notin ServiceIDs /\ "dynamic" \in ServiceIDs
    /\ \A i \in NetIf : LinkLocalID[i] \notin ServiceIDs /\ LinkLocalID[i] # NoID
    /\ 1 \in DOMAIN Setups
    /\ \A n \in DOMAIN Setups : \A i \in NetIf :
        LET conf == Setups[n].conf[i]
        IN  /\ conf \in Seq(ToSet(conf))
            /\ \A m \in DOMAIN conf : conf[m].id \in ServiceIDs /\ conf[m].method \in Methods

RankNone == Cardinality(ServiceIDs) + 2

\* The identifier a link-local service gets when it has no configuration.
LLID(i) == LinkLocalID[i]
IDs == ServiceIDs \cup {LLID(i) : i \in NetIf}

VARIABLES
    ag,      \* the agent, with misled, the services whose entity stayed when
             \* they failed
    setup,   \* which configuration is in force
    carrier, \* interfaces whose link is active
    changes  \* changes of configuration, links and clients so far

agentVars == <<ag, setup, carrier, changes>>

\* A service.  wait is what the method waits for: an ARP probe, a timer, an
\* answer of the DHCP server.
NewService(id, method, want, dynamic, parent) ==
    [id |-> id, method |-> method, want |-> want, dynamic |-> dynamic, parent |-> parent,
     child |-> FALSE, addr |-> NoAddr, ready |-> FALSE, status |-> "success",
     wait |-> "start", allocate |-> TRUE]

NewState ==
    [v4 |-> <<>>, v6 |-> <<>>, requested |-> FALSE, disabled |-> FALSE, scrubbed |-> FALSE, ll |-> NoAddr]

ServiceIsPublished(s) == s.ready /\ s.status = "success"
IsV4(method) == method # "automatic"
ipconfig_method_is_manual(method) == method \in {"manual", "failover"}

-----------------------------------------------------------------------------
(* Looking services up.                                                      *)

\* The elements of a list that are in keep, in their order.
Only(list, keep) ==
    LET picked[n \in 0..Len(list)] ==
            IF n = 0 THEN <<>>
            ELSE IF list[n] \in keep THEN Append(picked[n - 1], list[n]) ELSE picked[n - 1]
    IN  picked[Len(list)]

Of(a, i, v4) == IF v4 THEN a.if[i].v4 ELSE a.if[i].v6
HasID(list, id) == \E n \in DOMAIN list : list[n].id = id
GetID(list, id) == list[CHOOSE n \in DOMAIN list : list[n].id = id]
IFStateGetServiceWithID(a, i, id, v4) == HasID(Of(a, i, v4), id)
The(a, i, id) == GetID(a.if[i].v4, id)

Put(list, s) == [n \in DOMAIN list |-> IF list[n].id = s.id THEN s ELSE list[n]]
Set(a, i, s) == IF IsV4(s.method) THEN [a EXCEPT !.if[i].v4 = Put(@, s)] ELSE [a EXCEPT !.if[i].v6 = Put(@, s)]

IFState_service_with_ip(a, i, addr) == \E n \in DOMAIN a.if[i].v4 : a.if[i].v4[n].addr = addr
service_is_using_ip(a, i, id, addr) ==
    \E j \in NetIf : \E n \in DOMAIN a.if[j].v4 :
        a.if[j].v4[n].addr = addr /\ ~(j = i /\ a.if[j].v4[n].id = id)

IFStateGetServiceMatchingMethod(a, i, method, want, dynamic) ==
    LET list == Of(a, i, IsV4(method))
    IN  Only(list, {s \in ToSet(list) :
            /\ dynamic => s.dynamic
            /\ IF ipconfig_method_is_manual(method)
                 THEN ipconfig_method_is_manual(s.method) /\ s.want = want
                 ELSE s.method = method})

-----------------------------------------------------------------------------
(* Addresses and publication.                                                *)

Attention(a, what) == [a EXCEPT !.attn = @ \cup what]
linklocal_set_needs_attention(a) == Attention(a, {"linklocal"})
setDisableUntilNeededNeedsAttention(a) == Attention(a, {"disable"})

service_remove_address(a, i, id) ==
    LET s == The(a, i, id)
        b == Set(a, i, [s EXCEPT !.addr = NoAddr])
        c == IF IFState_service_with_ip(b, i, s.addr) THEN b ELSE [b EXCEPT !.kernel = @ \ {<<i, s.addr>>}]
    IN  linklocal_set_needs_attention(IF s.addr = NoAddr THEN a ELSE c)

service_set_address(a, i, id, addr) ==
    LET old == The(a, i, id).addr
        b == IF old \notin {NoAddr, addr} THEN service_remove_address(a, i, id) ELSE a
        c == Set(b, i, [The(b, i, id) EXCEPT !.addr = addr])
    IN  linklocal_set_needs_attention([c EXCEPT !.kernel = @ \cup {<<i, addr>>}])

service_clear(a, i, id, status) == Set(a, i, [The(a, i, id) EXCEPT !.ready = FALSE, !.status = status])
\* The entity of the service goes; of IPv6 only the rank is kept here.
ClearEntity(a, i, id, v4) ==
    LET b == setDisableUntilNeededNeedsAttention(a)
    IN  IF v4 THEN Attention([b EXCEPT !.store[id] = NoAddr, !.misled = @ \ {id}], {"publish"})
        ELSE [b EXCEPT !.last = @ \ {id}]
service_publish_clear(a, i, id, status) == ClearEntity(service_clear(a, i, id, status), i, id, TRUE)

\* Addresses of an earlier agent go once, when the first service of the
\* interface is published and it is the only one but for link-local.
service_scrub_old_ipv4_addresses(a, i) ==
    LET list == a.if[i].v4
        extra == IF \E n \in DOMAIN list : list[n].method = "linklocal" THEN 2 ELSE 1
        b == [a EXCEPT !.if[i].scrubbed = TRUE]
    IN  IF a.if[i].scrubbed \/ Len(list) > extra THEN b
        ELSE [b EXCEPT !.kernel = {k \in @ : k[1] # i \/ IFState_service_with_ip(a, i, k[2])}]

\* A child publishes under its parent's identifier, and only while the parent
\* has no address.
ServicePublishSuccessIPv4(a, i, id) ==
    LET s == The(a, i, id)
        b == Set(a, i, [s EXCEPT !.ready = TRUE, !.status = "success"])
        c == IF ServiceIsPublished(s) THEN b ELSE Attention(b, {"publish"})
        as == IF s.parent = NoID THEN id ELSE s.parent
        d == [setDisableUntilNeededNeedsAttention([c EXCEPT !.store[as] = s.addr, !.misled = @ \ {as}])
                EXCEPT !.last = IF s.method = "linklocal" THEN @ ELSE @ \ {as}]
    IN  IF s.parent # NoID /\ (~IFStateGetServiceWithID(a, i, s.parent, TRUE) \/ The(a, i, s.parent).addr # NoAddr)
          THEN c
        ELSE IF s.parent = NoID THEN service_scrub_old_ipv4_addresses(d, i) ELSE d

Told(a, i, id, status) == Set(a, i, [The(a, i, id) EXCEPT !.ready = TRUE, !.status = status])
\* Mutant: the child's address is not looked at.
FailureForgetsChild(a, i, id, status) ==
    Told(service_publish_clear(a, i, id, "success"), i, id, status)
\* A service that fails gives way to its child, if that has an address; a
\* child that fails takes what it published under its parent's identifier.  A
\* child that was freed is not forgotten: the service then gives way to the
\* child of another, and its own entity stays (misled).
service_publish_failure_sync(a, i, id, status) ==
    LET s == The(a, i, id)
        ll == The(a, i, LLID(i))
        gives == s.child /\ IFStateGetServiceWithID(a, i, LLID(i), TRUE) /\ ll.addr # NoAddr
        left == [service_clear(ServicePublishSuccessIPv4(a, i, LLID(i)), i, id, "success")
                   EXCEPT !.misled = IF ll.parent = id THEN @ ELSE @ \cup {id}]
        takes == /\ s.parent # NoID /\ IFStateGetServiceWithID(a, i, s.parent, TRUE)
                 /\ The(a, i, s.parent).addr = NoAddr
    IN  Told(CASE gives -> left
               [] ~gives /\ takes -> service_publish_clear(a, i, s.parent, The(a, i, s.parent).status)
               [] OTHER -> service_publish_clear(a, i, id, "success"), i, id, status)

service_interface_ipv4_published(a, i) ==
    \E n \in DOMAIN a.if[i].v4 : a.if[i].v4[n].method # "linklocal" /\ ServiceIsPublished(a.if[i].v4[n])

\* IPv6 without IPv4 on the interface goes last.
ServicePublishSuccessIPv6(a, i, id) ==
    LET b == Set(a, i, [GetID(a.if[i].v6, id) EXCEPT !.ready = TRUE, !.status = "success"])
    IN  setDisableUntilNeededNeedsAttention(
          [b EXCEPT !.last = IF service_interface_ipv4_published(a, i) THEN @ \ {id} ELSE @ \cup {id}])

-----------------------------------------------------------------------------
(* Services come and go.                                                     *)

Without(list, id) == Only(list, {s \in ToSet(list) : s.id # id})
Unlisted(a, i, s) ==
    IF IsV4(s.method) THEN [a EXCEPT !.if[i].v4 = Without(@, s.id)] ELSE [a EXCEPT !.if[i].v6 = Without(@, s.id)]
\* ServiceFree: the service is out of the list already.  The method's stop
\* removes the address; link-local's stop also unpublishes it.
Stopped(b, i, s) ==
    LET c == IF s.addr = NoAddr \/ IFState_service_with_ip(b, i, s.addr) THEN b
             ELSE [b EXCEPT !.kernel = @ \ {<<i, s.addr>>}]
        d == linklocal_set_needs_attention(c)
        takes == s.method = "linklocal" /\ s.parent # NoID /\ IFStateGetServiceWithID(d, i, s.parent, TRUE)
        e == IF takes
               THEN IF The(d, i, s.parent).addr = NoAddr
                      THEN service_publish_clear(d, i, s.parent, The(d, i, s.parent).status) ELSE d
               ELSE d
    IN  IF IsV4(s.method) THEN ClearEntity(e, i, s.id, TRUE) ELSE ClearEntity(b, i, s.id, FALSE)
ServiceFree(a, i, s) == Stopped(Unlisted(a, i, s), i, s)

FreeAll(a, i, list) ==
    LET freed[n \in 0..Len(list)] == IF n = 0 THEN a ELSE ServiceFree(freed[n - 1], i, list[n])
    IN  freed[Len(list)]
S_FreeNonDynamicServices(a, i, v4) ==
    FreeAll(a, i, Only(Of(a, i, v4), {s \in ToSet(Of(a, i, v4)) : ~s.dynamic}))
IFStateFreeIPv4Services(a, i, all) == IF all THEN FreeAll(a, i, a.if[i].v4) ELSE S_FreeNonDynamicServices(a, i, TRUE)
IFStateFreeIPv6Services(a, i, all) == IF all THEN FreeAll(a, i, a.if[i].v6) ELSE S_FreeNonDynamicServices(a, i, FALSE)
IFStateFreeServiceWithID(a, i, id, v4) == ServiceFree(a, i, GetID(Of(a, i, v4), id))

WithChild(a, i, parent) ==
    IF parent # NoID THEN Set(a, i, [The(a, i, parent) EXCEPT !.child = TRUE]) ELSE a
Listed(a, i, s) ==
    IF IsV4(s.method) THEN [a EXCEPT !.if[i].v4 = Append(@, s)] ELSE [a EXCEPT !.if[i].v6 = Append(@, s)]
LinkLocalServices(a, i) == Only(a.if[i].v4, {s \in ToSet(a.if[i].v4) : s.method = "linklocal"})
\* ServiceCreate: a new link-local service takes the place of the one there is.
ServiceCreate(a, i, s) ==
    Listed(WithChild(IF s.method = "linklocal" THEN FreeAll(a, i, LinkLocalServices(a, i)) ELSE a, i, s.parent), i, s)

\* An interface that is to be disabled is taken down as soon as it has a
\* service; whether it is needed is decided later.
IFState_service_add(a, i, s) ==
    ServiceCreate(IF s.parent = NoID /\ a.if[i].requested THEN [a EXCEPT !.if[i].disabled = TRUE] ELSE a, i, s)

-----------------------------------------------------------------------------
(* Configuration.                                                            *)

\* Two services with the same method, or one that a dynamic service has, are
\* one too many.
SameConfig(c, d) ==
    IF ipconfig_method_is_manual(c.method) THEN ipconfig_method_is_manual(d.method) /\ c.want = d.want
    ELSE c.method = d.method
ServiceConfigListInit(a, i, conf, v4) ==
    LET mine == Only(conf, {c \in ToSet(conf) : IsV4(c.method) = v4})
        Superfluous(scl, c) ==
            \/ \E n \in DOMAIN scl : SameConfig(scl[n], c)
            \/ IFStateGetServiceMatchingMethod(a, i, c.method, c.want, TRUE) # <<>>
        scl[n \in 0..Len(mine)] ==
            IF n = 0 THEN <<>>
            ELSE IF Superfluous(scl[n - 1], mine[n]) THEN scl[n - 1] ELSE Append(scl[n - 1], mine[n])
    IN  scl[Len(mine)]
ServiceConfigListFreeInactiveServices(a, i, scl, v4) ==
    FreeAll(a, i, Only(Of(a, i, v4),
                       {s \in ToSet(Of(a, i, v4)) : ~s.dynamic /\ s.parent = NoID /\ ~HasID(scl, s.id)}))

S_set_service(a, i, c) ==
    LET v4 == IsV4(c.method)
        here == IFStateGetServiceWithID(a, i, c.id, v4)
        others == {j \in NetIf : IFStateGetServiceWithID(a, j, c.id, v4)}
        same == here /\ (LET s == GetID(Of(a, i, v4), c.id) IN s.method = c.method /\ s.want = c.want)
        b == IF here THEN IFStateFreeServiceWithID(a, i, c.id, v4)
             ELSE IF others # {} THEN IFStateFreeServiceWithID(a, CHOOSE j \in others : TRUE, c.id, v4) ELSE a
    IN  IF same THEN a
        ELSE IFState_service_add(b, i, NewService(c.id, c.method, c.want, FALSE, NoID))

IFStateSetDisableUntilNeededRequested(a, i, want) ==
    IF a.if[i].requested = want THEN a
    ELSE setDisableUntilNeededNeedsAttention([a EXCEPT !.if[i].requested = want])

interface_configuration_changed(a, i, c, v4) ==
    LET scl == ServiceConfigListInit(a, i, c.conf[i], v4)
        b == IFStateSetDisableUntilNeededRequested(ServiceConfigListFreeInactiveServices(a, i, scl, v4), i, i \in c.need)
        done[n \in 0..Len(scl)] == IF n = 0 THEN b ELSE S_set_service(done[n - 1], i, scl[n])
    IN  IF scl = <<>>
          THEN IF v4 THEN IFStateFreeIPv4Services(a, i, FALSE) ELSE IFStateFreeIPv6Services(a, i, FALSE)
        ELSE done[Len(scl)]
BothChanged(a, i, c) ==
    interface_configuration_changed(interface_configuration_changed(a, i, c, TRUE), i, c, FALSE)
handle_configuration_changed(a, c) ==
    LET done[n \in 0..Len(Interfaces)] ==
            IF n = 0 THEN a
            ELSE IF Interfaces[n] \in a.list THEN BothChanged(done[n - 1], Interfaces[n], c) ELSE done[n - 1]
    IN  done[Len(Interfaces)]

-----------------------------------------------------------------------------
(* The asynchronous work: election, disabling, notification.                 *)

ServiceGetRank(id, order) ==
    IF \E n \in DOMAIN order : order[n] = id THEN CHOOSE n \in DOMAIN order : order[n] = id ELSE Len(order) + 1

ReadyToParent(s) ==
    s.method # "linklocal" /\ (s.addr # NoAddr \/ (s.method = "dhcp" /\ s.status = "no server"))
\* Each service in turn replaces the best so far if it ranks higher, or has an
\* address that the best one lacks.
BestParent(list, order) ==
    LET Replaces(s, best) ==
            \/ best = <<>>
            \/ ServiceGetRank(s.id, order) < ServiceGetRank(best[1].id, order)
            \/ best[1].addr = NoAddr /\ s.addr # NoAddr
        best[n \in 0..Len(list)] ==
            IF n = 0 THEN <<>>
            ELSE IF ReadyToParent(list[n]) /\ Replaces(list[n], best[n - 1]) THEN <<list[n]>> ELSE best[n - 1]
    IN  best[Len(list)]

linklocal_start(a, i, parent) ==
    LET s == NewService(LLID(i), "linklocal", NoAddr, FALSE, parent.id)
        quiet == parent.addr # NoAddr /\ i \in Wireless
    IN  IFState_service_add(a, i, [s EXCEPT !.allocate = parent.addr = NoAddr, !.ready = quiet,
                                            !.wait = IF quiet THEN "none" ELSE @])

\* The child of a service that is gone goes first.
Orphaned(a, i) ==
    LET lls == LinkLocalServices(a, i)
    IN  lls # <<>> /\ lls[1].parent # NoID /\ ~IFStateGetServiceWithID(a, i, lls[1].parent, TRUE)
ElectParent(a, i, best) ==
    LET lls == LinkLocalServices(a, i)
        parent == IF lls = <<>> THEN NoID ELSE lls[1].parent
        b == IF parent = NoID THEN a
             ELSE ServiceFree(Set(a, i, [The(a, i, parent) EXCEPT !.child = FALSE]), i, lls[1])
    IN  IF (lls # <<>> /\ parent = NoID) \/ parent = (IF best = <<>> THEN NoID ELSE best[1].id) THEN a
        ELSE IF best = <<>> THEN b ELSE linklocal_start(b, i, best[1])
ElectIn(a, i, order) == ElectParent(a, i, BestParent(a.if[i].v4, order))
Elect(a, i, order) ==
    ElectIn(IF Orphaned(a, i) THEN ServiceFree(a, i, LinkLocalServices(a, i)[1]) ELSE a, i, order)
linklocal_elect(a, order) ==
    LET elected[n \in 0..Len(Interfaces)] == IF n = 0 THEN a ELSE Elect(elected[n - 1], Interfaces[n], order)
    IN  elected[Len(Interfaces)]

service_list_get_rank(list, order) ==
    LET ranks == {ServiceGetRank(list[n].id, order) : n \in {m \in DOMAIN list : list[m].parent = NoID}}
    IN  IF ranks = {} THEN RankNone ELSE CHOOSE r \in ranks : \A q \in ranks : r <= q
ListReady(list) ==
    \E n \in DOMAIN list : list[n].parent = NoID /\ list[n].method # "linklocal" /\ ServiceIsPublished(list[n])
IFStateComputeRank(a, i, order) ==
    LET r4 == service_list_get_rank(a.if[i].v4, order)
        r6 == service_list_get_rank(a.if[i].v6, order)
    IN  IF r4 < r6 THEN r4 ELSE r6
ServicesReady(a, i) == ListReady(a.if[i].v4) \/ ListReady(a.if[i].v6)
\* The ranked list keeps interfaces of the same rank in their order.
Better(a, order, j, i) ==
    LET before == \E m, n \in DOMAIN Interfaces : m < n /\ Interfaces[m] = j /\ Interfaces[n] = i
        rj == IFStateComputeRank(a, j, order)
        ri == IFStateComputeRank(a, i, order)
    IN  rj < ri \/ (rj = ri /\ before)
Unneeded(a, order, i) == \E j \in NetIf : Better(a, order, j, i) /\ ServicesReady(a, j)

\* Mutant: an interface that was disabled is not looked at again.
DisabledForGood(a, order) ==
    [a EXCEPT !.if = [i \in NetIf |-> [@[i] EXCEPT !.disabled = @ \/ (a.if[i].requested /\ Unneeded(a, order, i))]]]
DisableUntilNeededProcess(a, order) ==
    [a EXCEPT !.if = [i \in NetIf |-> [@[i] EXCEPT !.disabled = a.if[i].requested /\ Unneeded(a, order, i)]]]

PublishAgain(a, i) ==
    LET list == a.if[i].v6
        done[n \in 0..Len(list)] ==
            IF n = 0 THEN a
            ELSE IF ServiceIsPublished(list[n]) THEN ServicePublishSuccessIPv6(done[n - 1], i, list[n].id)
            ELSE done[n - 1]
    IN  done[Len(list)]
IPv4ServicePublishProcess(a) ==
    LET done[n \in 0..Len(Interfaces)] == IF n = 0 THEN a ELSE PublishAgain(done[n - 1], Interfaces[n])
    IN  done[Len(Interfaces)]

perform_async_work_requiring_store(a, order) ==
    LET none == [a EXCEPT !.attn = {}]
        Disabled(b) == IF "disable" \in a.attn
                         THEN DisableUntilNeededProcess([b EXCEPT !.attn = @ \ {"disable"}], order) ELSE b
        Published(c) == IF "publish" \in a.attn \cup c.attn
                          THEN IPv4ServicePublishProcess([c EXCEPT !.attn = @ \ {"publish"}]) ELSE c
    IN  Published(Disabled(IF "linklocal" \in a.attn THEN linklocal_elect(none, order) ELSE none))

-----------------------------------------------------------------------------
(* Methods.                                                                  *)

Wait(a, i, id, what) == Set(a, i, [The(a, i, id) EXCEPT !.wait = what])
Inactive(a, i, id) ==
    service_publish_failure_sync(service_remove_address(Wait(a, i, id, "none"), i, id), i, id, "failure")
Conflict(a, i, id) ==
    service_publish_failure_sync(service_remove_address(Wait(a, i, id, "start"), i, id), i, id, "failure")
Acquire(a, i, id, addr) ==
    ServicePublishSuccessIPv4(service_set_address(Wait(a, i, id, "none"), i, id, addr), i, id)

linklocal_failed(a, i, status) ==
    service_publish_failure_sync(service_remove_address(Wait(a, i, LLID(i), "none"), i, LLID(i)), i, LLID(i), status)

\* What DHCP asks of link-local: it allocates or lets go of an address, if the
\* service that asks is its parent; otherwise there is an election.
linklocal_service_change(a, i, id, allocate) ==
    LET lls == LinkLocalServices(a, i)
        changed == Set(a, i, [lls[1] EXCEPT !.allocate = allocate, !.wait = "start"])
    IN  IF lls # <<>> /\ lls[1].parent = NoID THEN a
        ELSE IF lls = <<>> \/ lls[1].parent # id THEN linklocal_set_needs_attention(a)
        ELSE IF lls[1].allocate = allocate THEN a
        ELSE IF allocate THEN changed
        ELSE Wait(linklocal_failed(changed, i, "success"), i, LLID(i), "start")

dhcp_bound(a, i, id, addr) ==
    ServicePublishSuccessIPv4(
        linklocal_service_change(service_set_address(Wait(a, i, id, "none"), i, id, addr), i, id, FALSE), i, id)
dhcp_no_server(a, i, id) ==
    service_publish_failure_sync(linklocal_service_change(Wait(a, i, id, "start"), i, id, TRUE), i, id, "no server")

-----------------------------------------------------------------------------
(* Actions.                                                                  *)

\* configure_from_cache, with an address an earlier agent left behind.
FreshAgent ==
    [list |-> NetIf, if |-> [i \in NetIf |-> NewState], attn |-> {}, kernel |-> {<<Interfaces[1], "old">>},
     store |-> [id \in IDs |-> NoAddr], last |-> {}, misled |-> {}]
ServiceInit ==
    /\ setup = 1 /\ carrier = NetIf /\ changes = 0
    /\ ag = handle_configuration_changed(FreshAgent, Setups[1])

Change == changes < MaxChanges /\ changes' = changes + 1
Conf == Setups[setup]
Order == Conf.order

\* handle_change: the setup keys changed, with the service order or not.
configuration_changed(n) ==
    /\ n # setup /\ setup' = n
    /\ LET b == handle_configuration_changed(ag, Setups[n])
       IN  ag' = IF Setups[n].order = Order THEN b ELSE Attention(b, {"linklocal", "disable"})
    /\ Change /\ UNCHANGED carrier

\* An interface is detached, or comes back.
handle_change(i) ==
    /\ LET b == [ag EXCEPT !.list = IF i \in @ THEN @ \ {i} ELSE @ \cup {i}]
           c == IFStateFreeIPv6Services(IFStateFreeIPv4Services(b, i, TRUE), i, TRUE)
           d == [c EXCEPT !.if[i] = NewState, !.kernel = {k \in @ : k[1] # i}]
       IN  ag' = handle_configuration_changed(IF i \in ag.list THEN d ELSE b, Conf)
    /\ carrier' = IF i \in ag.list THEN carrier \ {i} ELSE carrier \cup {i}
    /\ Change /\ UNCHANGED setup

perform_async_work ==
    /\ ag.attn # {}
    /\ ag' = perform_async_work_requiring_store(ag, Order)
    /\ UNCHANGED <<setup, carrier, changes>>

\* IPConfigurationService API: a dynamic service with an IPv4 or IPv6 method.
add_or_set_service(i, id, method, want, add_only) ==
    LET found == IFStateGetServiceMatchingMethod(ag, i, method, want, FALSE)
        same == found # <<>> /\ found[1].method = method /\ found[1].want = want
        b == IF found = <<>> THEN ag ELSE ServiceFree(ag, i, found[1])
        taken == \E j \in NetIf : HasID(Of(ag, j, TRUE), id) \/ HasID(Of(ag, j, FALSE), id)
    IN  /\ i \in ag.list /\ ~taken
        /\ ag' = (IF found # <<>> /\ (add_only \/ same) THEN ag
                  ELSE IFState_service_add(b, i, NewService(id, method, want, TRUE, NoID)))
        /\ Change /\ UNCHANGED <<setup, carrier>>
\* S_remove_service_with_id_str, for a client or because its process exited.
S_remove_service(i, v4, id) ==
    /\ IFStateGetServiceWithID(ag, i, id, v4)
    /\ GetID(Of(ag, i, v4), id).dynamic
    /\ ag' = IFStateFreeServiceWithID(ag, i, id, v4)
    /\ Change /\ UNCHANGED <<setup, carrier>>

\* An ARP probe of a manual, failover or link-local service ends.
Probe(i, id, in_use) ==
    /\ IFStateGetServiceWithID(ag, i, id, TRUE)
    /\ LET s == The(ag, i, id)
       IN  /\ ipconfig_method_is_manual(s.method) /\ s.wait = "start"
           /\ ag' = CASE in_use -> Conflict(ag, i, id)
                      [] ~in_use /\ i \notin carrier -> Inactive(ag, i, id)
                      [] OTHER -> Acquire(ag, i, id, s.want)
    /\ UNCHANGED <<setup, carrier, changes>>
linklocal_allocate(i, id, addr, in_use) ==
    /\ IFStateGetServiceWithID(ag, i, id, TRUE)
    /\ LET s == The(ag, i, id)
           used == in_use \/ service_is_using_ip(ag, i, id, addr)
           b == [Acquire(ag, i, id, addr) EXCEPT !.if[i].ll = addr]
       IN  /\ s.method = "linklocal" /\ s.wait = "start" /\ s.allocate
           /\ ag.if[i].ll # NoAddr => addr = ag.if[i].ll
           /\ ag' = CASE used -> [Conflict(ag, i, id) EXCEPT !.if[i].ll = NoAddr]
                      [] ~used /\ i \notin carrier -> Inactive(ag, i, id)
                      [] OTHER -> b
    /\ UNCHANGED <<setup, carrier, changes>>
linklocal_detect_proxy_arp(i, in_use) ==
    /\ IFStateGetServiceWithID(ag, i, LLID(i), TRUE)
    /\ LET s == The(ag, i, LLID(i))
       IN  /\ s.wait = "start" /\ ~s.allocate
           /\ ag' = linklocal_set_needs_attention(
                      IF ~in_use /\ i \notin carrier THEN linklocal_failed(ag, i, "failure")
                      ELSE service_publish_failure_sync(Wait(ag, i, LLID(i), "none"), i, LLID(i),
                                                        IF in_use THEN "failure" ELSE "success"))
    /\ UNCHANGED <<setup, carrier, changes>>

\* DHCP binds an address, finds no server, or loses its lease.
Dhcp(i, id, addr) ==
    /\ IFStateGetServiceWithID(ag, i, id, TRUE) /\ The(ag, i, id).method = "dhcp" /\ i \in carrier
    /\ LET s == The(ag, i, id)
       IN  ag' = CASE s.addr # NoAddr -> Conflict(ag, i, id)
                   [] s.addr = NoAddr /\ addr # NoAddr -> dhcp_bound(ag, i, id, addr)
                   [] OTHER -> dhcp_no_server(ag, i, id)
    /\ ag' # ag /\ UNCHANGED <<setup, carrier, changes>>
\* Router advertisements give IPv6 its addresses, or take them.
Rtadv(i, id) ==
    /\ IFStateGetServiceWithID(ag, i, id, FALSE)
    /\ LET s == GetID(ag.if[i].v6, id)
       IN  ag' = IF ServiceIsPublished(s)
                   THEN ClearEntity(Set(ag, i, [s EXCEPT !.status = "failure"]), i, id, FALSE)
                 ELSE ServicePublishSuccessIPv6(ag, i, id)
    /\ i \in carrier /\ UNCHANGED <<setup, carrier, changes>>

\* arp_collision: the address is taken by somebody else and not defended.
arp_collision(i, id) ==
    /\ IFStateGetServiceWithID(ag, i, id, TRUE)
    /\ LET s == The(ag, i, id)
       IN  /\ s.addr # NoAddr /\ s.wait = "none" /\ s.method # "dhcp"
           /\ ag' = [Conflict(ag, i, id) EXCEPT !.if[i].ll = IF s.method = "linklocal" THEN NoAddr ELSE @]
    /\ Change /\ UNCHANGED <<setup, carrier>>

\* The link of an interface that is down is inactive; it comes back up.
CarrierChanges(i) ==
    /\ i \in ag.list /\ (i \notin carrier => ~ag.if[i].disabled)
    /\ IF (i \in carrier) = ag.if[i].disabled THEN UNCHANGED changes ELSE Change
    /\ carrier' = IF i \in carrier THEN carrier \ {i} ELSE carrier \cup {i}
    /\ ag' = IF i \in carrier THEN ag
             ELSE [ag EXCEPT !.if[i].v4 = [n \in DOMAIN @ |-> [@[n] EXCEPT !.wait = "start"]]]
    /\ UNCHANGED setup
\* The link timer expires for every service.
EachInactive(a, i) ==
    LET list == a.if[i].v4
        done[n \in 0..Len(list)] == IF n = 0 THEN a ELSE Inactive(done[n - 1], i, list[n].id)
    IN  done[Len(list)]
Inactive6(a, i, s) == ClearEntity(Set(a, i, [s EXCEPT !.ready = TRUE, !.status = "failure"]), i, s.id, FALSE)
EachInactive6(a, i) ==
    LET list == a.if[i].v6
        done[n \in 0..Len(list)] == IF n = 0 THEN a ELSE Inactive6(done[n - 1], i, list[n])
    IN  done[Len(list)]
service_list_event(i) ==
    /\ i \in ag.list \ carrier
    /\ ag' = EachInactive6(EachInactive(ag, i), i)
    /\ ag' # ag /\ UNCHANGED <<setup, carrier, changes>>

ServiceNext ==
    \/ \E n \in DOMAIN Setups : configuration_changed(n)
    \/ perform_async_work
    \/ \E i \in NetIf :
         \/ handle_change(i) \/ CarrierChanges(i) \/ service_list_event(i)
         \/ \E in_use \in BOOLEAN : linklocal_detect_proxy_arp(i, in_use)
         \/ \E id \in IDs :
              \/ arp_collision(i, id) \/ Rtadv(i, id)
              \/ \E in_use \in BOOLEAN : Probe(i, id, in_use)
              \/ \E addr \in LinkLocals, in_use \in BOOLEAN : linklocal_allocate(i, id, addr, in_use)
              \/ \E addr \in {NoAddr, "leased"} : Dhcp(i, id, addr)
              \/ \E v4 \in BOOLEAN : S_remove_service(i, v4, id)
         \/ \E add_only \in BOOLEAN :
              add_or_set_service(i, "dynamic", "manual", "static", add_only)

ServiceSpec == ServiceInit /\ [][ServiceNext]_agentVars

-----------------------------------------------------------------------------

\* Every published IPv4 address is that of the service it is published for, or
\* of its link-local child, and the interface has it.  Left out are services
\* that gave way to the link-local service of another, taking it for the child
\* they once had.
PublishedIsConfigured ==
    \A id \in IDs \ ag.misled : ag.store[id] # NoAddr =>
        \E i \in NetIf :
            /\ <<i, ag.store[id]>> \in ag.kernel
            /\ \E n \in DOMAIN ag.if[i].v4 : LET s == ag.if[i].v4[n]
                   IN  s.addr = ag.store[id] /\ id \in {s.id, s.parent}

\* An interface is not left down when nothing better serves: once its services
\* know that the link is gone and the work that is due is done, an interface
\* that is down is one that a better interface makes unneeded.
NeverLeftDown ==
    \A i \in NetIf :
        LET all == ag.if[i].v4 \o ag.if[i].v6
        IN  /\ ag.if[i].disabled /\ ag.attn = {} /\ i \notin carrier
            /\ \A n \in DOMAIN all : all[n].ready /\ all[n].status # "success"
            => ag.if[i].requested /\ Unneeded(ag, Order, i)
=============================================================================
