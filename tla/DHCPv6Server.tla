---------------------------- MODULE DHCPv6Server ----------------------------
(***************************************************************************)
(* The stateless DHCPv6 server (dhcp6d): the interfaces it is configured   *)
(* for and joins the multicast group on, its DUID on disk, and its answers *)
(* to INFORMATION-REQUEST.  Interfaces come and go, with the same number   *)
(* or another; the store says so later, once for several changes.          *)
(*                                                                         *)
(* An option is [code, len]; lengths are in bytes.                         *)
(***************************************************************************)
EXTENDS Integers, Sequences, FiniteSets, SequencesExt

CONSTANTS
    IfName,      \* interface names
    MaxIfIndex,  \* interfaces are numbered from 1; 0 is none
    Plists,      \* contents of the configuration file
    Request6,    \* packets that may arrive
    ReplySize,   \* the room for options in a reply
    MaxBoots     \* bound: starts of the daemon

VARIABLES
    six,     \* struct DHCPv6Server, or NoServer6
    ifnet,   \* the interfaces: name -> number
    groups,  \* the interfaces the socket has joined the group on
    plist6,  \* the configuration file
    duidFile,\* the DUID file; 0 if there is none
    stale,   \* the store has a change to tell the server of
    unseen,  \* history: an interface came or went before the server was listening to the store
    missed,  \* history: interfaces whose membership was refused, or lost behind the server's back
    reply6,  \* the last reply
    boots

sixVars == <<six, ifnet, groups, plist6, duidFile, stale, unseen, missed, reply6, boots>>

NoServer6 == [running |-> FALSE]
Watching == six.running /\ six.store    \* the store is set up: the run loop is reached
NoReply == [sent |-> FALSE]

-----------------------------------------------------------------------------

IFIndexListContainsItem(list, i) == i \in Range(list)
DHCPv6ServerInterfaceIsEnabled(s, i) == IFIndexListContainsItem(s.if_indices, i)
my_if_nametoindex(name) == ifnet[name]
create_if_indices(names) == [k \in DOMAIN names |-> my_if_nametoindex(names[k])]

\* The interfaces whose group is to be joined, and left
DHCPv6ServerEnableMulticastForAddedInterfaces(s, indices) ==
    { i \in Range(indices) : i # 0 /\ ~DHCPv6ServerInterfaceIsEnabled(s, i) }
\* Mutant: without a new list there is nothing to compare with.
RemovedFromList(s, indices) ==
    IF indices = <<>> THEN {} ELSE { i \in Range(s.if_indices) : i # 0 /\ ~IFIndexListContainsItem(indices, i) }
DHCPv6ServerDisableMulticastForRemovedInterfaces(s, indices) ==
    { i \in Range(s.if_indices) : i # 0 /\ ~IFIndexListContainsItem(indices, i) }

Present == { ifnet[n] : n \in IfName } \ {0}

\* set_multicast_for_interface fails on an interface that is gone, and joining
\* may fail on any: those that failed are not tried again.
DHCPv6ServerSetEnabledInterfaces(s, names, refused) ==
    LET indices == create_if_indices(names)
        add == DHCPv6ServerEnableMulticastForAddedInterfaces(s, indices)
        remove == DHCPv6ServerDisableMulticastForRemovedInterfaces(s, indices)
    IN /\ six' = [s EXCEPT !.if_indices = indices, !.enabled_interfaces = names]
       /\ groups' = (groups \cup (add \ refused)) \ remove
       /\ missed' = ((missed \cap Range(indices)) \ add) \cup (add \cap refused)

\* An entry of the options that is not valid leaves the server without any.
DHCPv6ServerSetGlobalOptions(p) ==
    IF p.options_ok THEN p.options ELSE {}

\* The configuration is the file's, or empty if there is no dictionary in it.
DHCPv6ServerSetConfiguration(s, p, refused) ==
    DHCPv6ServerSetEnabledInterfaces([s EXCEPT !.options = DHCPv6ServerSetGlobalOptions(p)],
                                     p.enabled_interfaces, refused)
NoPlist == [enabled_interfaces |-> <<>>, options |-> {}, options_ok |-> TRUE]
DHCPv6ServerUpdateConfiguration(s, refused) ==
    DHCPv6ServerSetConfiguration(s, IF plist6.readable THEN plist6 ELSE NoPlist, refused)

-----------------------------------------------------------------------------

\* The DUID is read from the file, or made anew from an interface (its time
\* is the start of the daemon) and written, which may fail.
CopyServerDUID(written) ==
    IF duidFile # 0 THEN [duid |-> duidFile, file |-> duidFile]
    ELSE [duid |-> boots + 1, file |-> IF written THEN boots + 1 ELSE 0]

\* The daemon starts: the configuration first, then the notifications, and
\* only then the run loop, which takes packets, changes and signals.
DHCPv6ServerCreate ==
    /\ ~six.running /\ boots < MaxBoots
    /\ duidFile # 0 \/ Present # {}
    /\ \E written \in BOOLEAN, refused \in SUBSET Present :
         LET d == CopyServerDUID(written)
         IN /\ duidFile' = d.file
            /\ DHCPv6ServerUpdateConfiguration(
                 [running |-> TRUE, store |-> FALSE, duid |-> d.duid, options |-> {},
                  enabled_interfaces |-> <<>>, if_indices |-> <<>>], refused)
    /\ stale' = FALSE /\ unseen' = FALSE /\ boots' = boots + 1
    /\ UNCHANGED <<ifnet, plist6, reply6>>
\* What changed in between is not told of.
DHCPv6ServerEnableNotifications ==
    /\ six.running /\ ~six.store
    /\ six' = [six EXCEPT !.store = TRUE]
    /\ UNCHANGED <<ifnet, groups, plist6, duidFile, stale, unseen, missed, reply6, boots>>

\* The daemon is gone, wherever it was.
DHCPv6ServerRelease ==
    /\ six.running /\ six' = NoServer6
    /\ groups' = {} /\ missed' = {} /\ stale' = FALSE /\ unseen' = FALSE /\ reply6' = NoReply
    /\ UNCHANGED <<ifnet, plist6, duidFile, boots>>

\* The store tells of the interfaces.
DHCPv6ServerHandleNotification ==
    /\ Watching /\ stale /\ stale' = FALSE /\ unseen' = FALSE
    /\ \E refused \in SUBSET Present :
         DHCPv6ServerSetEnabledInterfaces(six, six.enabled_interfaces, refused)
    /\ UNCHANGED <<ifnet, plist6, duidFile, reply6, boots>>

\* The administrator changes the file.
Reload ==
    /\ \E p \in Plists : plist6' = p
    /\ UNCHANGED <<six, ifnet, groups, duidFile, stale, unseen, missed, reply6, boots>>
HandleSIGHUP ==
    /\ Watching /\ unseen' = FALSE
    /\ \E refused \in SUBSET Present : DHCPv6ServerUpdateConfiguration(six, refused)
    /\ UNCHANGED <<ifnet, plist6, duidFile, stale, reply6, boots>>

\* A change is told to a server that listens to the store; a server that only
\* has its configuration misses it.
StoreChange ==
    /\ stale' = (stale \/ Watching)
    /\ unseen' = (unseen \/ (six.running /\ ~six.store))
\* An interface goes, and with it the membership; one comes, with its old
\* number or another.
Detach(n) ==
    /\ ifnet[n] # 0
    /\ ifnet' = [ifnet EXCEPT ![n] = 0] /\ StoreChange
    /\ groups' = groups \ {ifnet[n]}
    /\ missed' = IF six.running /\ DHCPv6ServerInterfaceIsEnabled(six, ifnet[n])
                   THEN missed \cup {ifnet[n]} ELSE missed
    /\ UNCHANGED <<six, plist6, duidFile, reply6, boots>>
Attach(n) ==
    /\ ifnet[n] = 0
    /\ \E i \in (1 .. MaxIfIndex) \ Present : ifnet' = [ifnet EXCEPT ![n] = i]
    /\ StoreChange
    /\ UNCHANGED <<six, groups, plist6, duidFile, missed, reply6, boots>>

-----------------------------------------------------------------------------

\* Options of a reply in order; without room for one there is no reply.
OptionLength(o) == 4 + o.len
Room(opts) == FoldLeft(LAMBDA n, o : n + OptionLength(o), 0, opts) <= ReplySize
Requested(s, q) == SelectSeq([k \in DOMAIN q.oro |-> [code |-> q.oro[k], len |-> 0]],
                             LAMBDA o : \E c \in s.options : c.code = o.code)
WithLength(s, o) == CHOOSE c \in s.options : c.code = o.code
ReplyOptions(s, q) ==
    (IF q.clientid.len > 0 THEN <<[code |-> "CLIENTID", len |-> q.clientid.len]>> ELSE <<>>)
    \o <<[code |-> "SERVERID", len |-> 14]>>
    \o [k \in DOMAIN Requested(s, q) |-> WithLength(s, Requested(s, q)[k])]

\* For an enabled interface, a request that parses, with valid identifiers,
\* for this server or for any
Answered(s, q, i) ==
    /\ DHCPv6ServerInterfaceIsEnabled(s, i)
    /\ q.msg = "INFORMATION_REQUEST" /\ q.parses
    /\ q.serverid \in {0, s.duid}
    /\ q.clientid.len > 0 => q.clientid.valid
    /\ Room(ReplyOptions(s, q))

DHCPv6ServerProcessRequest(q, i) ==
    reply6' = IF Answered(six, q, i)
                THEN [sent |-> TRUE, opts |-> ReplyOptions(six, q), duid |-> six.duid, to |-> q, on |-> i]
                ELSE reply6

\* What was sent to the group arrives where the socket has joined it.
DHCPv6ServerReceive ==
    /\ Watching
    /\ \E q \in Request6, i \in groups : DHCPv6ServerProcessRequest(q, i)
    /\ UNCHANGED <<six, ifnet, groups, plist6, duidFile, stale, unseen, missed, boots>>

SixInit ==
    /\ six = NoServer6 /\ groups = {} /\ duidFile = 0 /\ missed = {}
    /\ stale = FALSE /\ unseen = FALSE
    /\ ifnet = [n \in IfName |-> 0]
    /\ plist6 \in Plists /\ reply6 = NoReply /\ boots = 0

SixNext ==
    \/ DHCPv6ServerCreate \/ DHCPv6ServerEnableNotifications \/ DHCPv6ServerRelease
    \/ DHCPv6ServerHandleNotification
    \/ Reload \/ HandleSIGHUP \/ DHCPv6ServerReceive
    \/ \E n \in IfName : Detach(n) \/ Attach(n)

SixSpec == SixInit /\ [][SixNext]_sixVars

-----------------------------------------------------------------------------

\* The server listens where it serves: it has joined the group on exactly the
\* interfaces of its list, whatever order their changes, the changes of the
\* configuration and the notifications come in, except where the kernel
\* refused the membership or took it back before the server knew; once the
\* store has told it everything, the list is that of the configured names,
\* unless an interface came or went between the reading of the configuration
\* and the setting up of the notifications, which only the next notification
\* or SIGHUP makes up for.  It is the same server to its clients after a restart if its DUID was kept.
ServesWhereItListens ==
    /\ groups = IF six.running THEN (Range(six.if_indices) \ {0}) \ missed ELSE {}
    /\ six.running /\ ~stale /\ ~unseen => six.if_indices = create_if_indices(six.enabled_interfaces)
    /\ six.running /\ duidFile # 0 => six.duid = duidFile
=============================================================================
