----------------------- MODULE IPConfigurationService -----------------------
(***************************************************************************)
(* The framework's service objects and the agent that keeps their          *)
(* services.  A client creates an object from options, starts it and       *)
(* releases it; the agent, part of configd, may die at any time and comes  *)
(* back without its services, and every object re-creates its own when the *)
(* store tells it, on the object's serial queue.                           *)
(*                                                                         *)
(* Each object has two threads: the client's (for a delegated prefix, the  *)
(* queue of DHCPv6PDService) and the object's queue.  A call to the agent  *)
(* is one step; what happens between two of them is arbitrary.  A client   *)
(* resumes the service of a delegated prefix once.                         *)
(*                                                                         *)
(* A property list maps keys to values [t, s, n, l]: the type, and the     *)
(* string, number (1 for true) or list of strings it holds.                *)
(***************************************************************************)
EXTENDS Integers, Sequences, FiniteSets, SequencesExt

CONSTANTS
    Obj,         \* the objects; each is its own process and its own service ID
    Allowed,     \* the processes with the entitlement
    Requests,    \* what objects are created from: [pd, options]
    Samples,     \* options that show what is accepted
    IPv4, IPv6,  \* strings that are addresses; "0" is the zero address
    LinkLocal,   \* the link-local ones among IPv6
    Configured,  \* services of the network configuration; only that removes them
    MaxRestarts  \* bound: times the agent dies

VARIABLES
    obj,      \* the objects
    th,       \* [Obj -> [client, queue]]: where the threads are
    todo,     \* what the object's queue has been given
    agent,    \* the agent: up, the interface present, the services
    unseen,   \* objects the store has not yet told that configd came back
    exited,   \* processes whose end the agent has not yet seen
    lost,     \* history: objects whose service was replaced, or is refused
    told,     \* history: what handlers were last told
    restarts

objVars == <<obj, th, todo, agent, unseen, exited, lost, told, restarts>>

-----------------------------------------------------------------------------
(* Options and the configuration made of them.                               *)

Has(d, k) == k \in DOMAIN d
Is(d, k, type) == Has(d, k) /\ d[k].t = type
IfIs(d, k, type) == Has(d, k) => d[k].t = type

plist_validate_bool(d, k) == IfIs(d, k, "boolean")
plist_validate_array(d, k, count) == Has(d, k) => d[k].t = "array" /\ Len(d[k].l) = count

ipv4_config_is_valid(c) ==
    /\ Is(c, "ConfigMethod", "string")
    /\ \/ /\ c["ConfigMethod"].s = "Manual"
          /\ Is(c, "Addresses", "array") /\ c["Addresses"].l # <<>>
          /\ \A k \in {"SubnetMasks", "DestAddresses"} : plist_validate_array(c, k, Len(c["Addresses"].l))
          /\ IfIs(c, "Router", "string")
          /\ DOMAIN c \subseteq {"ConfigMethod", "Addresses", "SubnetMasks", "DestAddresses", "Router"}
       \/ /\ c["ConfigMethod"].s = "DHCP" /\ IfIs(c, "DHCPClientID", "string")
          /\ DOMAIN c \subseteq {"ConfigMethod", "DHCPClientID"}
       \/ c["ConfigMethod"].s = "LinkLocal" /\ DOMAIN c = {"ConfigMethod"}

ipv6_config_is_valid(c) ==
    /\ Is(c, "ConfigMethod", "string")
    /\ \/ /\ c["ConfigMethod"].s = "Manual"
          /\ Is(c, "Addresses", "array") /\ Is(c, "PrefixLength", "array")
          /\ c["Addresses"].l # <<>> /\ Len(c["Addresses"].l) = Len(c["PrefixLength"].l)
          /\ IfIs(c, "Router", "string")
          /\ DOMAIN c \subseteq {"ConfigMethod", "Addresses", "PrefixLength", "Router"}
       \/ c["ConfigMethod"].s \in {"Automatic", "LinkLocal"} /\ DOMAIN c = {"ConfigMethod"}
       \/ /\ c["ConfigMethod"].s = "DHCPv6PD"
          /\ IfIs(c, "RequestedPrefix", "string") /\ IfIs(c, "RequestedPrefixLength", "number")
          /\ DOMAIN c \subseteq {"ConfigMethod", "RequestedPrefix", "RequestedPrefixLength"}

init_ipv4_params(o) == ipv4_config_is_valid(o.v4)
init_ipv6_params(o) ==
    /\ \A k \in {"PerformNUD", "EnableDAD", "EnableCLAT46", "EnableDHCPv6"} : plist_validate_bool(o.plain, k)
    /\ o.v6 # <<>> => ipv6_config_is_valid(o.v6)
    /\ Has(o.plain, "IPv6LinkLocalAddress")
         => Is(o.plain, "IPv6LinkLocalAddress", "string") /\ o.plain["IPv6LinkLocalAddress"].s \in LinkLocal

\* Options are [given, plain, v4, v6]; an entity that is not there is <<>>.
OptionsValid(o) ==
    /\ \A k \in {"NoPublish", "ClearState", "EnableL4S"} : plist_validate_bool(o.plain, k)
    /\ IfIs(o.plain, "MTU", "number") /\ IfIs(o.plain, "APNName", "string")
    /\ IF o.v4 # <<>> THEN init_ipv4_params(o) ELSE init_ipv6_params(o)

String(str) == [t |-> "string", s |-> str, n |-> 0, l |-> <<>>]
createIPv6Entity(o) ==
    LET entity == IF o.v6 # <<>> THEN o.v6 ELSE "ConfigMethod" :> String("Automatic")
    IN  IF Has(o.plain, "IPv6LinkLocalAddress")
          THEN entity @@ ("LinkLocalAddress" :> o.plain["IPv6LinkLocalAddress"]) ELSE entity
createIPv4Entity(o) ==
    IF o.v4 # <<>> THEN o.v4 ELSE "ConfigMethod" :> String("DHCP")

\* Without options at all the configuration is not an IPv6 one.
IsIPv6(o) == o.given /\ o.v4 = <<>>
config_dict_create(o) ==
    [ipv6 |-> IsIPv6(o),
     dict |-> IF IsIPv6(o) THEN createIPv6Entity(o) ELSE createIPv4Entity(o),
     clear |-> Has(o.plain, "ClearState") => o.plain["ClearState"].n = 1]
remove_clear_state(c) == [c EXCEPT !.clear = FALSE]

-----------------------------------------------------------------------------
(* The agent: a configuration is a method and, for a manual one, an address. *)

plist_array_get_ip_address(d, k) == Is(d, k, "array") /\ d[k].l # <<>> /\ Head(d[k].l) \in IPv4

ipconfig_method_from_cfstring(m) == IF m = "BOOTP" THEN "DHCP" ELSE m
method_info_from_dict(d) ==
    LET m == ipconfig_method_from_cfstring(d["ConfigMethod"].s)
        manual == m \in {"Manual", "INFORM", "Failover"}
        ok == /\ m \in {"DHCP", "Manual", "INFORM", "LinkLocal", "Failover"}
              /\ manual => /\ plist_array_get_ip_address(d, "Addresses") /\ Head(d["Addresses"].l) # "0"
                           /\ \A k \in {"SubnetMasks", "DestAddresses"} \cap DOMAIN d : plist_array_get_ip_address(d, k)
    IN  [ok |-> ok, key |-> <<"v4", m, IF ok /\ manual THEN Head(d["Addresses"].l) ELSE "">>]

method_info_from_ipv6_dict(d) ==
    LET m == d["ConfigMethod"].s
        ok == /\ m \in {"Manual", "Automatic", "RouterAdvertisement", "6to4", "LinkLocal", "DHCPv6PD"}
              /\ m = "Manual" =>
                   /\ Is(d, "Addresses", "array") /\ d["Addresses"].l # <<>> /\ Head(d["Addresses"].l) \in IPv6
                   /\ Is(d, "PrefixLength", "array") =>
                        Len(d["PrefixLength"].l) = Len(d["Addresses"].l) /\ Head(d["PrefixLength"].l) = "number"
                   /\ Is(d, "Router", "string") => d["Router"].s \in IPv6
              /\ m = "6to4" /\ Has(d, "Relay") => d["Relay"].t = "string" /\ d["Relay"].s # ""
              /\ m = "DHCPv6PD" =>
                   /\ Has(d, "RequestedPrefix") => d["RequestedPrefix"].t = "string" /\ d["RequestedPrefix"].s \in IPv6
                   /\ Has(d, "RequestedPrefixLength") => d["RequestedPrefixLength"].t = "number" /\ d["RequestedPrefixLength"].n <= 128
    IN  [ok |-> ok, key |-> <<"v6", m, IF ok /\ m = "Manual" THEN Head(d["Addresses"].l) ELSE "">>]

ipconfig_method_info_from_plist(c) ==
    IF c.ipv6 THEN method_info_from_ipv6_dict(c.dict) ELSE method_info_from_dict(c.dict)

NewAgent == [up |-> TRUE, present |-> TRUE, list |-> {}]
\* The methods of an address and those that ask for one are of a kind each.
Kind(key) ==
    IF key[1] = "v6" THEN key
    ELSE <<"v4", IF key[2] \in {"Manual", "INFORM", "Failover"} THEN "Manual"
                 ELSE IF key[2] = "BOOTP" THEN "DHCP" ELSE key[2], key[3]>>
ServicesOfKind(a, key) == { s \in a.list : Kind(s.key) = Kind(key) }
ServicesWithMethod(a, key) == { s \in a.list : s.key = key }
S_find_service_with_id(a, o) == { s \in a.list : s.id = o }

\* The service is added if the interface is there and no service, configured
\* or added by a client, is of its kind.
AddOrSetService(a, o, key) ==
    IF ~a.present THEN [status |-> "failed", agent |-> a]
    ELSE IF ServicesOfKind(a, key) # {} \/ \E k \in Configured : Kind(k) = Kind(key)
      THEN [status |-> "duplicate", agent |-> a]
      ELSE [status |-> "success", agent |-> [a EXCEPT !.list = @ \cup {[id |-> o, key |-> key]}]]

\* _ipconfig_add_service: "success", "duplicate" or another failure
add_service(a, o) ==
    LET info == ipconfig_method_info_from_plist(obj[o].config)
    IN  IF o \in Allowed /\ info.ok THEN AddOrSetService(a, o, info.key)
        ELSE [status |-> "failed", agent |-> a]

\* _ipconfig_remove_service: the service with that very method, whoever's it
\* is, unless it is a configured one
remove_service(a, o) ==
    LET found == IF o \in Allowed THEN ServicesWithMethod(a, ipconfig_method_info_from_plist(obj[o].config).key)
                 ELSE {}
    IN  [status |-> IF found # {} THEN "success" ELSE "failed", agent |-> [a EXCEPT !.list = @ \ found]]
remove_service_with_id(a, o) ==
    IF o \in Allowed THEN [a EXCEPT !.list = @ \ S_find_service_with_id(a, o)] ELSE a

\* The agent sees that the process of a service has ended.
ServiceHandleProcessExit ==
    /\ agent.up
    /\ \E o \in exited : /\ agent' = [agent EXCEPT !.list = @ \ S_find_service_with_id(agent, o)]
                         /\ exited' = exited \ {o}
    /\ UNCHANGED <<obj, th, todo, unseen, lost, told, restarts>>

\* The interface goes, with its services, and comes back.
Owners(a) == { s.id : s \in a.list }
InterfaceDetach ==
    /\ agent.up /\ agent.present
    /\ agent' = [agent EXCEPT !.present = FALSE, !.list = {}]
    /\ lost' = lost \cup Owners(agent) /\ exited' = {}
    /\ UNCHANGED <<obj, th, todo, unseen, told, restarts>>
InterfaceAttach ==
    /\ agent.up /\ ~agent.present
    /\ agent' = [agent EXCEPT !.present = TRUE]
    /\ UNCHANGED <<obj, th, todo, unseen, exited, lost, told, restarts>>

\* configd dies, and launchd starts it; the store's sessions then find out.
AgentDies ==
    /\ agent.up /\ restarts < MaxRestarts
    /\ agent' = [agent EXCEPT !.up = FALSE, !.list = {}]
    /\ restarts' = restarts + 1 /\ exited' = {}
    /\ UNCHANGED <<obj, th, todo, unseen, lost, told>>
AgentStarts ==
    /\ ~agent.up /\ agent' = [agent EXCEPT !.up = TRUE]
    /\ unseen' = unseen \cup { o \in Obj : obj[o].life = "live" }
    /\ told' = [o \in Obj |-> IF told[o] = "gone" THEN "restarting" ELSE told[o]]
    /\ UNCHANGED <<obj, th, todo, exited, lost, restarts>>
StoreDisconnects(o) ==
    /\ o \in unseen /\ unseen' = unseen \ {o}
    /\ todo' = [todo EXCEPT ![o] = Append(@, "reconnect")]
    /\ UNCHANGED <<obj, th, agent, exited, lost, told, restarts>>

-----------------------------------------------------------------------------
(* The object.                                                               *)

NoConfig == [ipv6 |-> FALSE, dict |-> <<>>, clear |-> FALSE]
NoObject == [life |-> "none", pd |-> FALSE, config |-> NoConfig, server |-> FALSE,
             need_reconnect |-> FALSE, wrapper |-> FALSE, listening |-> FALSE]
Idle == [pc |-> "idle", ok |-> TRUE]

At(o, t, pc) == th[o][t].pc = pc
Go(o, t, pc, ok) == [th EXCEPT ![o][t] = [pc |-> pc, ok |-> ok]]

\* Without configd there is no store and so no object.
IPConfigurationServiceCreateInternal(o, pd, options) ==
    /\ obj[o].life = "none" /\ agent.up /\ OptionsValid(options)
    /\ obj' = [obj EXCEPT ![o] = [NoObject EXCEPT !.life = "live", !.pd = pd, !.wrapper = TRUE,
                                  !.config = config_dict_create(options)]]

\* IPConfigurationServiceCreate starts the object it has made.
IPConfigurationServiceCreate(o, options) ==
    /\ IPConfigurationServiceCreateInternal(o, FALSE, options)
    /\ th' = Go(o, "client", "add", TRUE)
    /\ UNCHANGED <<todo, agent, unseen, exited, lost, told, restarts>>
DHCPv6PDServiceCreate(o, options) ==
    /\ IPConfigurationServiceCreateInternal(o, TRUE, options)
    /\ UNCHANGED <<th, todo, agent, unseen, exited, lost, told, restarts>>

\* DHCPv6PDServiceResumeSync: listen, then start
DHCPv6PDServiceResume(o) ==
    /\ obj[o].life = "live" /\ obj[o].pd /\ ~obj[o].server /\ At(o, "client", "idle")
    /\ obj' = [obj EXCEPT ![o].listening = TRUE]
    /\ told' = [told EXCEPT ![o] = "nothing"]
    /\ th' = Go(o, "client", "add", TRUE)
    /\ UNCHANGED <<todo, agent, unseen, exited, lost, restarts>>

\* The end of create_service.  In the client it is IPConfigurationServiceStart,
\* which goes on with a block for the queue, or fails: then the object is
\* released (of a delegated prefix by DHCPv6PDServiceInvalidate).  In the queue
\* the result is ignored.
Created(o, t, ok) ==
    \/ /\ t = "client" /\ ok
       /\ todo' = [todo EXCEPT ![o] = Append(@, "start")] /\ th' = Go(o, t, "waits", TRUE)
       /\ UNCHANGED <<obj, told>>
    \/ /\ t = "client" /\ ~ok
       /\ todo' = [todo EXCEPT ![o] = Append(@, "clear")] /\ th' = Go(o, t, "clears", TRUE)
       /\ UNCHANGED <<obj, told>>
    \/ /\ t = "queue"
       /\ th' = [th EXCEPT ![o] = [client |-> IF Head(todo[o]) = "start" THEN Idle ELSE @.client, queue |-> Idle]]
       /\ todo' = [todo EXCEPT ![o] = Tail(@)]
       /\ UNCHANGED <<obj, told>>

\* A call that fails leaves the status as it is, "success" at first; without
\* configd the client may not even get its port.  The agent may fail to start
\* the service, if there is none of its kind.
AddService(o, t) ==
    /\ th[o][t].pc \in {"add", "again"}
    /\ LET r == add_service(agent, o)
           first == At(o, t, "add")
       IN \/ /\ agent.up /\ r.status = "success"
             /\ agent' = r.agent /\ lost' = lost \ {o} /\ Created(o, t, TRUE)
          \/ /\ agent.up /\ r.status = "duplicate" /\ first
             /\ th' = Go(o, t, "remove", FALSE)
             /\ UNCHANGED <<agent, lost, obj, todo, told>>
          \/ /\ agent.up /\ (r.status # "duplicate" \/ ~first)
             /\ lost' = lost \cup {o} /\ Created(o, t, FALSE) /\ UNCHANGED agent
          \/ ~agent.up /\ Created(o, t, th[o][t].ok) /\ UNCHANGED <<agent, lost>>
          \/ ~agent.up /\ t = "client" /\ first /\ Created(o, t, FALSE) /\ UNCHANGED <<agent, lost>>
    /\ UNCHANGED <<unseen, exited, restarts>>
RemoveDuplicate(o, t) ==
    /\ At(o, t, "remove")
    /\ LET r == remove_service(agent, o)
       IN \/ /\ agent.up
             /\ agent' = r.agent /\ lost' = lost \cup (Owners(agent) \ Owners(r.agent))
             /\ th' = Go(o, t, "again", r.status = "success")
          \/ ~agent.up /\ th' = Go(o, t, "again", FALSE) /\ UNCHANGED <<agent, lost>>
    /\ UNCHANGED <<obj, todo, unseen, exited, told, restarts>>

\* The queue runs what it was given.
Runs(o, what) == At(o, "queue", "idle") /\ todo[o] # <<>> /\ Head(todo[o]) = what
Done(o) == todo' = [todo EXCEPT ![o] = Tail(@)]

IPConfigurationServiceStoreReconnect(o) ==
    /\ Runs(o, "reconnect")
    /\ \/ ~obj[o].wrapper /\ Done(o) /\ UNCHANGED <<obj, th>>
       \/ /\ obj[o].wrapper /\ ~obj[o].server
          /\ obj' = [obj EXCEPT ![o].need_reconnect = TRUE] /\ Done(o) /\ UNCHANGED th
       \/ /\ obj[o].wrapper /\ obj[o].server
          /\ obj' = [obj EXCEPT ![o].config = remove_clear_state(@)]
          /\ th' = Go(o, "queue", "add", TRUE) /\ UNCHANGED todo
    /\ UNCHANGED <<agent, unseen, exited, lost, told, restarts>>

IPConfigurationServiceStart(o) ==
    /\ Runs(o, "start")
    /\ obj' = [obj EXCEPT ![o].server = TRUE]
    /\ \/ obj[o].need_reconnect /\ th' = Go(o, "queue", "add", TRUE) /\ UNCHANGED todo
       \/ ~obj[o].need_reconnect /\ th' = Go(o, "client", "idle", TRUE) /\ Done(o)
    /\ UNCHANGED <<agent, unseen, exited, lost, told, restarts>>

\* A key of the store has changed: the handler gets the information, or, if
\* there is none, is told whether there still is a service.
DHCPv6PDServiceStoreChange(o) ==
    /\ obj[o].life = "live" /\ obj[o].listening /\ At(o, "client", "idle")
    /\ \/ /\ S_find_service_with_id(agent, o) # {} /\ agent.up
          /\ told' = [told EXCEPT ![o] = "prefix"] /\ UNCHANGED <<th, todo>>
       \/ /\ todo' = [todo EXCEPT ![o] = Append(@, "valid")] /\ th' = Go(o, "client", "waits", TRUE)
          /\ UNCHANGED told
    /\ UNCHANGED <<obj, agent, unseen, exited, lost, restarts>>

\* The object is about to hear, or has heard and not acted on it, that configd came back.
Restarting(o) == ~agent.up \/ o \in unseen \/ "reconnect" \in Range(Tail(todo[o]))
Answer(o) ==
    IF agent.up /\ S_find_service_with_id(agent, o) # {} THEN "valid"
    ELSE IF Restarting(o) THEN "restarting" ELSE "gone"
\* Mutant: the agent is asked without waiting for the queue.
AsksAtOnce(o) ==
    /\ todo[o] # <<>> /\ Last(todo[o]) = "valid"
    /\ told' = [told EXCEPT ![o] = Answer(o)]
    /\ todo' = [todo EXCEPT ![o] = Front(@)] /\ th' = Go(o, "client", "idle", TRUE)
    /\ UNCHANGED <<obj, agent, unseen, exited, lost, restarts>>
IPConfigurationServiceIsValid(o) ==
    /\ Runs(o, "valid")
    /\ told' = [told EXCEPT ![o] = Answer(o)]
    /\ Done(o) /\ th' = Go(o, "client", "idle", TRUE)
    /\ UNCHANGED <<obj, agent, unseen, exited, lost, restarts>>

\* Release of the last reference: the wrapper is cleared on the queue, after
\* what is there; then the store forgets the object, and the agent its service.
\* Mutant: the queue is not waited for.
DeallocateAtOnce(o) ==
    /\ obj[o].life = "live" /\ At(o, "client", "idle") /\ obj[o].server
    /\ obj' = [obj EXCEPT ![o].wrapper = FALSE] /\ th' = Go(o, "client", "removes", TRUE)
    /\ UNCHANGED <<todo, agent, unseen, exited, lost, told, restarts>>
Deallocate(o) ==
    /\ obj[o].life = "live" /\ At(o, "client", "idle") /\ (obj[o].pd \/ obj[o].server)
    /\ todo' = [todo EXCEPT ![o] = Append(@, "clear")] /\ th' = Go(o, "client", "clears", TRUE)
    /\ UNCHANGED <<obj, agent, unseen, exited, lost, told, restarts>>
ObjectWrapperClearObject(o) ==
    /\ Runs(o, "clear")
    /\ obj' = [obj EXCEPT ![o].wrapper = FALSE]
    /\ Done(o) /\ th' = Go(o, "client", "removes", TRUE)
    /\ UNCHANGED <<agent, unseen, exited, lost, told, restarts>>
\* The handler of one that could not be started is told so.
DHCPv6PDServiceInvalidate(o) == IF obj[o].listening /\ ~obj[o].server THEN "failed" ELSE "nothing"
RemoveService(o) ==
    /\ At(o, "client", "removes")
    /\ obj' = [obj EXCEPT ![o] = [NoObject EXCEPT !.life = "gone", !.config = obj[o].config]]
    /\ th' = Go(o, "client", "idle", TRUE)
    /\ unseen' = unseen \ {o} /\ told' = [told EXCEPT ![o] = DHCPv6PDServiceInvalidate(o)]
    /\ todo' = [todo EXCEPT ![o] = IF At(o, "queue", "idle") THEN <<>> ELSE @]
    /\ agent' = IF agent.up /\ obj[o].server THEN remove_service_with_id(agent, o) ELSE agent
    /\ UNCHANGED <<exited, lost, restarts>>

\* The process ends, and with it its threads.
ProcessExits(o) ==
    /\ obj[o].life = "live"
    /\ obj' = [obj EXCEPT ![o] = [NoObject EXCEPT !.life = "gone"]]
    /\ th' = [th EXCEPT ![o] = [client |-> Idle, queue |-> Idle]]
    /\ todo' = [todo EXCEPT ![o] = <<>>] /\ unseen' = unseen \ {o}
    /\ told' = [told EXCEPT ![o] = "nothing"]
    /\ exited' = exited \cup ({o} \cap Owners(agent))
    /\ UNCHANGED <<agent, lost, restarts>>

ServicesInit ==
    /\ obj = [o \in Obj |-> NoObject] /\ th = [o \in Obj |-> [client |-> Idle, queue |-> Idle]]
    /\ todo = [o \in Obj |-> <<>>] /\ agent = NewAgent /\ unseen = {} /\ exited = {} /\ lost = {}
    /\ told = [o \in Obj |-> "nothing"] /\ restarts = 0

ServicesNext ==
    \/ ServiceHandleProcessExit \/ InterfaceDetach \/ InterfaceAttach \/ AgentDies \/ AgentStarts
    \/ \E o \in Obj :
         \/ \E r \in Requests : IF r.pd THEN DHCPv6PDServiceCreate(o, r.options) ELSE IPConfigurationServiceCreate(o, r.options)
         \/ StoreDisconnects(o) \/ DHCPv6PDServiceResume(o) \/ DHCPv6PDServiceStoreChange(o)
         \/ \E t \in {"client", "queue"} : AddService(o, t) \/ RemoveDuplicate(o, t)
         \/ IPConfigurationServiceStoreReconnect(o) \/ IPConfigurationServiceStart(o)
         \/ IPConfigurationServiceIsValid(o)
         \/ Deallocate(o) \/ ObjectWrapperClearObject(o) \/ RemoveService(o) \/ ProcessExits(o)

ServicesSpec == ServicesInit /\ [][ServicesNext]_objVars

-----------------------------------------------------------------------------

\* What the framework accepts the agent understands, if the addresses in it
\* are addresses and the prefix lengths numbers, which only the agent looks at.
StringsOf(d) == UNION { {d[k].s} \cup Range(d[k].l) : k \in DOMAIN d \ {"ConfigMethod", "DHCPClientID"} }
AcceptedIsUnderstood ==
    \A o \in Samples : OptionsValid(o) /\ o.given =>
        LET c == config_dict_create(o)
            addresses == IF c.ipv6 THEN IPv6 \cup {"number", ""} ELSE (IPv4 \ {"0"}) \cup {""}
        IN  ipconfig_method_info_from_plist(c).ok \/ ~(StringsOf(c.dict) \subseteq addresses)
                \/ (Has(c.dict, "RequestedPrefixLength") /\ c.dict["RequestedPrefixLength"].n > 128)

Settled(o) ==
    /\ agent.up /\ o \notin unseen /\ todo[o] = <<>>
    /\ At(o, "client", "idle") /\ At(o, "queue", "idle")

\* However starts, releases, exits and deaths of the agent interleave: once
\* nothing is under way for an object that was started, the agent has its
\* service, unless another client replaced it or the agent refused it (the
\* interface is gone); no service outlives its object; and there is one
\* service of a kind.
ServicesFollowObjects ==
    /\ \A o \in Obj : obj[o].life = "live" /\ obj[o].server /\ Settled(o) => o \in Owners(agent) \cup lost
    /\ \A o \in Owners(agent) : obj[o].life = "live" \/ o \in exited
    /\ \A s, u \in agent.list : Kind(s.key) = Kind(u.key) => s = u

\* A handler that is told its service is gone, with no restart of the agent to
\* account for it, is told the truth: asking waits for a re-creation that is
\* under way, so no service appears later behind a handler that gave up.
ToldGoneIsGone == \A o \in Obj : told[o] = "gone" => o \notin Owners(agent)
=============================================================================
