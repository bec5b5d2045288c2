----------------------------- MODULE BSDPClient -----------------------------
(***************************************************************************)
(* The Boot Server Discovery Protocol client (BSDPClient.c), which startup *)
(* disk selection uses to list the images of the NetBoot servers and to    *)
(* select one.  The caller lists and selects whenever it likes, from its   *)
(* callbacks too; the network loses, delays, repeats and spoils packets.   *)
(*                                                                         *)
(* An image is [attr, index, name, text], where name is the length of its  *)
(* name and text tells whether that is UTF-8; an image list has a length   *)
(* of its own, which may be too short.                                     *)
(***************************************************************************)
EXTENDS Integers, Sequences, FiniteSets, SequencesExt

CONSTANTS
    Machine,     \* machines and networks the client may be created on
    Asked,       \* attributes a caller may filter by: sequences
    BSDPServer,
    Listing,     \* what a server may answer to LIST
    MaxXid,      \* bound: requests of one client
    MaxAir,      \* bound: packets on their way
    LIST_MAX_TRIES, SELECT_MAX_TRIES, MAX_WAIT_SECS, INITIAL_TIMEOUT_SECS, MAX_ATTRS

VARIABLES
    bsdp,   \* struct BSDPClient_s, or NoBSDPClient
    air,    \* packets that may still arrive
    told    \* history: what the caller was told of its current request

bsdpVars == <<bsdp, air, told>>

NoBSDPClient == [state |-> "none"]
Unset == "none"
NoAttributes == 0
NetBoot2InfoVersion == 208896
DescrSize == 5           \* sizeof(bsdp_image_description_t)
OptionsSize == 308       \* DHCP_PACKET_OPTIONS_MIN without the magic number
ClassIdMax == 254        \* DHCP_OPTION_SIZE_MAX without the NUL

-----------------------------------------------------------------------------

\* What the DHCP service of the interface has for an address, which may be
\* unusable: the first the store names that has a DHCP entity decides, and
\* the store names them in no order.
get_dhcp_address(m) ==
    LET matching == { s \in m.services : s.ifname = "en0" /\ s.dhcp }
    IN IF matching = {} THEN {Unset} ELSE { s.addr : s \in matching }

\* The firmware counts on a PowerPC only, which has a boot ROM of version rom,
\* if it has one.  model is the length of the model, 0 if there is none.
NetBootVersionGet(m) == IF m.rom = 0 THEN 0 ELSE IF m.rom < NetBoot2InfoVersion THEN 1 ELSE 2
SystemIdentifierCopy(m) == m.model
CopyNetBootVersionAndSystemIdentifier(m) ==
    LET version == IF m.arch = "ppc" THEN NetBootVersionGet(m) ELSE 2
    IN [version |-> version,
        status |-> IF version = 0 THEN "UnsupportedFirmware"
                   ELSE IF SystemIdentifierCopy(m) = 0 THEN "AllocationError" ELSE "OK"]

CreateStatus(m) ==
    LET this_status == CopyNetBootVersionAndSystemIdentifier(m).status
    IN IF this_status # "OK" THEN this_status
       ELSE IF ~m.present THEN "NoSuchInterface"
       ELSE IF ~m.ethernet THEN "InvalidArgument"
       ELSE IF m.inet = Unset THEN "InterfaceNotConfigured"
       ELSE IF m.socket # "OK" THEN m.socket ELSE "OK"

\* S_open_socket: without a privileged port the client is not made.
NewClient(m, attrs, ip) ==
    [state |-> "Init", xid |-> 0, try |-> 0, wait |-> 0, timer |-> Unset, got |-> FALSE,
     arch |-> m.arch, system_id |-> SystemIdentifierCopy(m),
     old_firmware |-> CopyNetBootVersionAndSystemIdentifier(m).version = 1, our_ip |-> ip,
     attrs |-> SubSeq(attrs, 1, IF Len(attrs) > MAX_ATTRS THEN MAX_ATTRS ELSE Len(attrs)),
     server |-> "none", image |-> 0]

NoReport == [status |-> "none", xid |-> 0, kind |-> "none", images |-> {}]

BSDPClientCreateWithInterfaceAndAttributes ==
    /\ bsdp = NoBSDPClient
    /\ \E m \in Machine, attrs \in Asked :
         /\ CreateStatus(m) = "OK"
         /\ \E ip \in get_dhcp_address(m) :
              bsdp' = NewClient(m, attrs, IF ip = Unset THEN m.inet ELSE ip)
    /\ told' = NoReport /\ UNCHANGED air

BSDPClientFree ==
    /\ bsdp # NoBSDPClient
    /\ bsdp' = NoBSDPClient /\ air' = {} /\ told' = NoReport

-----------------------------------------------------------------------------
(* Requests.                                                               *)

\* The class identifier, "AAPLBSDPC/<architecture>/<model>", is cut to an
\* option's size.  With it go message type, parameters and message size; then
\* come the vendor options and the end.
vendor_class_id(c) ==
    LET len == (IF c.arch = "i386" THEN 15 ELSE 14) + c.system_id
    IN IF len > ClassIdMax THEN ClassIdMax ELSE len
make_bsdp_request(c) == 3 + 4 + 4 + 2 + vendor_class_id(c)
ListOptions(c) ==
    3 + 4 + (IF c.old_firmware THEN 2 ELSE 0) + 4 + 4
    + (IF c.attrs # <<>> THEN 2 + 2 * Len(c.attrs) ELSE 0)
SelectOptions(c) == 3 + 4 + (IF c.old_firmware THEN 2 ELSE 0) + 4 + 6 + 6
Fits(c, vendor) == make_bsdp_request(c) + 2 + vendor + 1 <= OptionsSize

\* The outcomes of sending: not built, not transmitted, or on its way.
SendStatus(c, vendor) ==
    IF Fits(c, vendor) THEN {"OK", "TransmitFailed"} ELSE {"AllocationError"}
BSDPClientSendListRequest(c) == SendStatus(c, ListOptions(c))
BSDPClientSendSelectRequest(c) == SendStatus(c, SelectOptions(c))

Request(c, kind) ==
    [to |-> "servers", kind |-> kind, xid |-> c.xid, ciaddr |-> c.our_ip,
     server |-> c.server, image |-> c.image]
OnAir(c, kind, status) == IF status = "OK" THEN air \cup {Request(c, kind)} ELSE air

BSDPClientCancelTimer(c) == [c EXCEPT !.timer = Unset]
BSDPClientSetTimer(c, callback) == [c EXCEPT !.timer = callback]

\* The number of a request is new.  One that could not be sent, or without a
\* callback (Invalid), leaves the client idle; the server's address, if it is
\* one, is noted even then.
Idle(c) == [BSDPClientCancelTimer(c) EXCEPT !.state = "Init"]
Begin(c, state, callback) ==
    [BSDPClientSetTimer(c, callback) EXCEPT !.state = state, !.try = 1, !.wait = INITIAL_TIMEOUT_SECS]

Invalid(c) == bsdp' = Idle(c) /\ UNCHANGED air
BSDPClientList ==
    /\ bsdp # NoBSDPClient /\ bsdp.xid < MaxXid
    /\ \/ Invalid(bsdp)
       \/ LET c == [Idle(bsdp) EXCEPT !.xid = @ + 1]
          IN \E status \in BSDPClientSendListRequest(c) :
               /\ bsdp' = IF status = "OK" THEN [Begin(c, "List", "list") EXCEPT !.got = FALSE] ELSE c
               /\ air' = OnAir(c, "list", status)
    /\ told' = NoReport

BSDPClientSelect ==
    /\ bsdp # NoBSDPClient /\ bsdp.xid < MaxXid
    /\ \E s \in BSDPServer \cup {bsdp.server} :
         LET named == [bsdp EXCEPT !.server = s]
         IN \/ Invalid(named)
            \/ \E image \in 1 .. 2 :
                 LET c == [Idle(named) EXCEPT !.xid = @ + 1, !.image = image]
                 IN \E status \in BSDPClientSendSelectRequest(c) :
                      /\ bsdp' = IF status = "OK" THEN Begin(c, "Select", "select") ELSE c
                      /\ air' = OnAir(c, "select", status)
    /\ told' = NoReport

-----------------------------------------------------------------------------
(* Timers and answers.  Report is the call of the callback.                *)

Report(xid, kind, status, images) ==
    told' = [status |-> status, xid |-> xid, kind |-> kind, images |-> images]

Fired(c) == [c EXCEPT !.timer = Unset]
Doubled(c) == [Fired(c) EXCEPT !.try = @ + 1, !.wait = @ * 2]

\* After the last try only a caller without any answer is told.
BSDPClientListTimeout ==
    /\ bsdp # NoBSDPClient /\ bsdp.timer = "list"
    /\ IF bsdp.try = LIST_MAX_TRIES
         THEN /\ bsdp' = Fired(bsdp) /\ UNCHANGED air
              /\ IF bsdp.got THEN UNCHANGED told ELSE Report(bsdp.xid, "list", "TimedOut", {})
         ELSE LET c == [Doubled(bsdp) EXCEPT !.wait = IF @ > MAX_WAIT_SECS THEN MAX_WAIT_SECS ELSE @]
              IN \E status \in BSDPClientSendListRequest(c) :
                   /\ air' = OnAir(c, "list", status)
                   /\ IF status = "OK"
                        THEN bsdp' = BSDPClientSetTimer(c, "list") /\ UNCHANGED told
                        ELSE bsdp' = c /\ Report(c.xid, "list", status, {})

BSDPClientSelectTimeout ==
    /\ bsdp # NoBSDPClient /\ bsdp.timer = "select"
    /\ IF bsdp.try = SELECT_MAX_TRIES
         THEN bsdp' = Fired(bsdp) /\ Report(bsdp.xid, "select", "TimedOut", {}) /\ UNCHANGED air
         ELSE LET c == Doubled(bsdp)
              IN \E status \in BSDPClientSendSelectRequest(c) :
                   /\ air' = OnAir(c, "select", status)
                   /\ IF status = "OK"
                        THEN bsdp' = BSDPClientSetTimer(c, "select") /\ UNCHANGED told
                        ELSE bsdp' = c /\ Report(c.xid, "select", status, {})

\* No filter matches everything.
attributes_match(attr, attrs) == attrs = <<>> \/ attr \in Range(attrs)

\* An image whose name is longer than what is left spoils the list; one
\* without a name at the end is not seen, nor the null image, nor one whose
\* name is not text.
Shown(d, attrs) == (d.index # 0 \/ d.attr # NoAttributes) /\ attributes_match(d.attr, attrs) /\ d.text
this_len(d) == DescrSize + d.name
LengthLeft(list, i) == FoldLeft(LAMBDA n, d : n - this_len(d), list.len, SubSeq(list.descrs, 1, i - 1))
BSDPClientCreateImageList(c, list) ==
    LET seen == { i \in DOMAIN list.descrs : LengthLeft(list, i) > DescrSize }
    IN IF \E i \in seen : LengthLeft(list, i) < this_len(list.descrs[i]) THEN {}
       ELSE { [attr |-> list.descrs[i].attr, index |-> list.descrs[i].index] :
                i \in { i \in seen : Shown(list.descrs[i], c.attrs) } }

BSDPClientProcessList(p) ==
    LET images == BSDPClientCreateImageList(bsdp, p.list)
    IN IF images = {} THEN UNCHANGED <<bsdp, told>>
       ELSE bsdp' = [bsdp EXCEPT !.got = TRUE] /\ Report(p.xid, "list", "OK", images)

BSDPClientProcessSelect(p) ==
    /\ bsdp' = BSDPClientCancelTimer(bsdp)
    /\ Report(p.xid, "select", IF p.kind = "select" THEN "OK" ELSE "ServerSentFailure", {})

\* Mutant: any answer for this computer will do.
AcceptAnyXid(c, p) == p.fault = "none" /\ p.ciaddr = c.our_ip
\* The packet is long enough, for this client and request, parses, and is a
\* BSDP ACK with the identifier of the server and a message type.
Accepts(c, p) == p.fault = "none" /\ p.xid = c.xid /\ p.ciaddr = c.our_ip

BSDPClientProcess ==
    /\ bsdp # NoBSDPClient
    /\ \E p \in { p \in air : p.to = "client" } :
         IF bsdp.state = "List" /\ Accepts(bsdp, p) /\ p.kind = "list" THEN BSDPClientProcessList(p)
         ELSE IF bsdp.state = "Select" /\ Accepts(bsdp, p) /\ p.kind \in {"select", "failed"}
           THEN BSDPClientProcessSelect(p)
         ELSE UNCHANGED <<bsdp, told>>
    /\ UNCHANGED air

\* A server answers what it reads; LIST goes to all, SELECT to one.  The
\* answers to a request of the same number are the same as far as they count.
BSDPServerAnswers ==
    /\ Cardinality(air) < MaxAir
    /\ \E q \in { q \in air : q.to = "servers" }, s \in BSDPServer, fault \in {"none", "spoilt"} :
         \/ /\ q.kind = "list"
            /\ \E list \in Listing :
                 air' = air \cup {[to |-> "client", kind |-> "list", xid |-> q.xid, ciaddr |-> q.ciaddr,
                                   server |-> s, list |-> list, fault |-> fault]}
         \/ /\ q.kind = "select" /\ q.server = s
            /\ \E kind \in {"select", "failed"} :
                 air' = air \cup {[to |-> "client", kind |-> kind, xid |-> q.xid, ciaddr |-> q.ciaddr,
                                   server |-> s, list |-> [len |-> 0, descrs |-> <<>>], fault |-> fault]}
    /\ UNCHANGED <<bsdp, told>>

\* A packet is lost.
Lost ==
    /\ \E p \in air : air' = air \ {p}
    /\ UNCHANGED <<bsdp, told>>

BSDPInit == bsdp = NoBSDPClient /\ air = {} /\ told = NoReport

BSDPNext ==
    \/ BSDPClientCreateWithInterfaceAndAttributes \/ BSDPClientFree
    \/ BSDPClientList \/ BSDPClientSelect
    \/ BSDPClientListTimeout \/ BSDPClientSelectTimeout
    \/ BSDPClientProcess \/ BSDPServerAnswers \/ Lost

BSDPSpec == BSDPInit /\ [][BSDPNext]_bsdpVars

-----------------------------------------------------------------------------

\* Nobody waits for ever and nobody is told of something else: a request that
\* was sent has a timer or the caller has been told how it ended, what it was
\* told is about this request (an answer to an earlier one, of the same kind
\* or not, may still arrive), and the images it was shown pass its filter.
RequestsAreAnswered ==
    bsdp # NoBSDPClient =>
      /\ bsdp.state # "Init" /\ bsdp.timer = Unset => told.status # "none"
      /\ told.status # "none" => /\ told.xid = bsdp.xid
                                 /\ told.kind = IF bsdp.state = "List" THEN "list" ELSE "select"
      /\ \A i \in told.images : bsdp.attrs = <<>> \/ i.attr \in Range(bsdp.attrs)
=============================================================================
