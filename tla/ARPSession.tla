----------------------------- MODULE ARPSession -----------------------------
(***************************************************************************)
(* The ARP clients of one interface: IPConfiguration.bproj/arp_session.c   *)
(* with the one-shot timer of timer.c.                                     *)
(*                                                                         *)
(* The clients share one BPF descriptor, counted in read_fd_refcount.  A   *)
(* request sends packets until its tries are used up, a matching packet is *)
(* read or an error occurs; the answer is then given by a callback that is *)
(* put on the agent's dispatch queue.                                      *)
(*                                                                         *)
(* The queue is serial and first-in first-out.  Of that order three cases  *)
(* matter: a timer that fired before the callback was queued runs before   *)
(* it ("ready"); a timer that fires later never runs, for the callback     *)
(* cancels it; and a callback that was queued while no read could be       *)
(* waiting, because the descriptor was closed or was being read, runs      *)
(* before the next read ("next").                                          *)
(***************************************************************************)
EXTENDS Integers, FiniteSets

CONSTANTS
    MaxClients,      \* clients are 1..MaxClients in the order of creation
    Collisions,      \* the clients with probes_are_collisions
    Addr, NoAddr,
    Packets,         \* the ARP packets that may be read, a subset of Packet
    Lists,           \* the lists a client may detect; no caller has an empty one
    ProbeCount, GratuitousCount,
    ResolveSecs,
    DetectCount,
    ConflictRetries, \* default_conflict_retry_count
    MaxAsks          \* bound on the number of requests

Client == 1..MaxClients

\* "ours": sent by this host.  "exact": the hardware address and the target
\* are the ones recorded with the address in a detect list.
Packet == [op : {"request", "reply"}, src : Addr \cup {NoAddr},
           dst : Addr, ours : BOOLEAN, exact : BOOLEAN]

ASSUME SessionAssumption ==
    /\ MaxClients \in Nat /\ Collisions \subseteq Client
    /\ NoAddr \notin Addr
    /\ Packets \subseteq Packet
    /\ Lists \subseteq SUBSET Addr /\ {} \notin Lists
    /\ ProbeCount \in Nat /\ GratuitousCount \in Nat
    /\ ResolveSecs \in Nat \ {0} /\ DetectCount \in Nat
    /\ ConflictRetries \in Nat /\ MaxAsks \in Nat

VARIABLES
    client,    \* the arp_client of each client
    refcount,  \* read_fd_refcount
    fd,        \* read_fd, open or closed
    live,      \* the clients that exist
    created,   \* how many were created
    heard,     \* history: a packet that matches the request was read
    result,    \* history: the answer to the last request
    asks       \* requests so far

ses == <<client, refcount, fd>>
vars == <<client, refcount, fd, live, created, heard, result, asks>>

-----------------------------------------------------------------------------
(* The client                                                              *)

Timers == {"none", "probe_start", "probe", "resolve", "detect"}
Status == {"none", "unknown", "not_in_use", "in_use", "error"}

Fresh == [func |-> FALSE, command |-> "none", status |-> "none",
          fd_open |-> FALSE, targets |-> {}, try |-> 0, conflicts |-> 0,
          skip |-> FALSE, timer |-> "none", ready |-> FALSE,
          callback |-> "none"]

timer_callout_set(k, f) == [k EXCEPT !.timer = f, !.ready = FALSE]
timer_cancel(k) == [k EXCEPT !.timer = "none", !.ready = FALSE]

arp_client_schedule_callback(k, status) ==
    [k EXCEPT !.callback = "queued", !.status = status]
BeforeNextRead(k) == [k EXCEPT !.callback = "next"]

\* One attempt of a request: the tries are used up, the packet is sent, or
\* it cannot be sent
Retransmit(k, tries, f, sent) ==
    LET t == [k EXCEPT !.try = @ + 1]
    IN  IF tries - k.try <= 0 THEN arp_client_schedule_callback(k, "not_in_use")
        ELSE IF sent THEN timer_callout_set(t, f)
        ELSE arp_client_schedule_callback(t, "error")

\* An announcement may be counted as sent without being sent
arp_client_probe_retransmit(k, sent) ==
    LET r == Retransmit(k, ProbeCount + GratuitousCount, "probe", sent \/ k.skip)
    IN  IF r.timer = "probe" THEN [r EXCEPT !.skip = FALSE] ELSE r
arp_client_resolve_retransmit(k, sent) ==
    Retransmit(k, ResolveSecs, "resolve", sent)
arp_client_detect_retransmit(k, sent) ==
    Retransmit(k, DetectCount, "detect", sent)
arp_client_probe_start(k, sent) ==
    arp_client_probe_retransmit([k EXCEPT !.try = 0, !.status = "unknown"], sent)

-----------------------------------------------------------------------------
(* The descriptor.  A session is a record of client c, the count and the   *)
(* descriptor.                                                             *)

Session(c) == [k |-> client[c], refcount |-> refcount, fd |-> fd]

arp_client_close_fd(s) ==
    IF ~s.k.fd_open \/ s.refcount <= 0 THEN s
    ELSE [k |-> [s.k EXCEPT !.fd_open = FALSE], refcount |-> s.refcount - 1,
          fd |-> IF s.refcount = 1 THEN "closed" ELSE s.fd]

\* "opened": bpf_new and what follows it succeed
arp_client_open_fd(s, opened) ==
    LET o == [k |-> [s.k EXCEPT !.fd_open = TRUE], refcount |-> s.refcount + 1,
              fd |-> s.fd]
    IN  CASE s.k.fd_open -> s
          [] ~s.k.fd_open /\ o.refcount > 1 -> o
          [] ~s.k.fd_open /\ o.refcount <= 1 ->
                IF opened THEN [o EXCEPT !.fd = "open"] ELSE arp_client_close_fd(o)

\* Mutant: the descriptor is not given back
arp_client_cancel_KeepsFd(s) ==
    [s EXCEPT !.k = [timer_cancel(s.k) EXCEPT
                        !.func = FALSE, !.status = "none", !.callback = "none"]]
arp_client_cancel(s) ==
    LET r == arp_client_close_fd(s)
    IN  [r EXCEPT !.k = [timer_cancel(r.k) EXCEPT
                            !.func = FALSE, !.status = "none", !.callback = "none"]]

\* Mutant: the timer of the request is left running
arp_client_callback_KeepsTimer(s) ==
    LET r == arp_client_close_fd(s)
    IN  [r EXCEPT !.k.func = FALSE, !.k.callback = "none"]
\* The answer: the function is forgotten before it is called
arp_client_callback(s) ==
    LET r == arp_client_close_fd(s)
    IN  [r EXCEPT !.k = [timer_cancel(r.k) EXCEPT
                            !.func = FALSE, !.callback = "none"]]

\* A status without a case of its own is reported as not in use
Reported(k) == IF k.status \in {"in_use", "error"} THEN k.status ELSE "not_in_use"

-----------------------------------------------------------------------------
(* Actions: the configuration methods                                      *)

Becomes(c, s) ==
    /\ client' = [client EXCEPT ![c] = s.k]
    /\ refcount' = s.refcount /\ fd' = s.fd

\* arp_client_init
New ==
    /\ created < MaxClients
    /\ created' = created + 1
    /\ live' = live \cup {created + 1}
    /\ UNCHANGED <<ses, heard, result, asks>>

\* arp_client_cancel
Cancel(c) ==
    /\ c \in live
    /\ Becomes(c, arp_client_cancel(Session(c)))
    /\ result' = [result EXCEPT ![c] = "idle"]
    /\ UNCHANGED <<live, created, heard, asks>>

\* arp_client_free; the session of the interface goes with its last client
Free(c) ==
    /\ c \in live
    /\ Becomes(c, arp_client_cancel(Session(c)))
    /\ live' = live \ {c}
    /\ result' = [result EXCEPT ![c] = "idle"]
    /\ UNCHANGED <<created, heard, asks>>

\* What all requests have in common: the old one is cancelled, its
\* successor b opens the descriptor and makes its first attempt, or reports
\* the failure
Asked(c) == [arp_client_cancel(Session(c)).k EXCEPT
                !.func = TRUE, !.try = 0, !.conflicts = 0]

Opening(c, b, opened) ==
    arp_client_open_fd([arp_client_cancel(Session(c)) EXCEPT !.k = b], opened)
Opened(c, b, opened) == [Opening(c, b, opened).k EXCEPT !.status = "unknown"]

Outcome(o, tried) ==
    IF o.k.fd_open THEN tried
    ELSE BeforeNextRead(arp_client_schedule_callback(o.k, "error"))

Request(c, b, opened, tried) ==
    LET o == Opening(c, b, opened) IN
    /\ c \in live /\ asks < MaxAsks
    /\ Becomes(c, [o EXCEPT !.k = Outcome(o, tried)])
    /\ heard' = [heard EXCEPT ![c] = FALSE]
    /\ result' = [result EXCEPT ![c] = "idle"]
    /\ asks' = asks + 1
    /\ UNCHANGED <<live, created>>

arp_client_probe(c, a, opened, sent) ==
    LET b == [Asked(c) EXCEPT !.targets = {a}, !.skip = FALSE]
        k == [Opened(c, b, opened) EXCEPT !.command = "probe"]
    IN  Request(c, b, opened, arp_client_probe_retransmit(k, sent))

arp_client_announce(c, a, skip, opened, sent) ==
    LET b == [Asked(c) EXCEPT !.targets = {a}, !.skip = skip, !.try = ProbeCount]
        k == [Opened(c, b, opened) EXCEPT !.command = "probe"]
    IN  Request(c, b, opened, arp_client_probe_retransmit(k, sent))

arp_client_resolve(c, a, opened, sent) ==
    LET b == [Asked(c) EXCEPT !.targets = {a}]
        k == [Opened(c, b, opened) EXCEPT !.command = "resolve"]
    IN  Request(c, b, opened, arp_client_resolve_retransmit(k, sent))

arp_client_detect(c, list, opened, sent) ==
    LET b == Asked(c)
        k == [Opened(c, b, opened) EXCEPT !.command = "detect", !.targets = list]
    IN  Request(c, b, opened, arp_client_detect_retransmit(k, sent))

\* arp_client_defend: one packet, without an answer
Defend(c, opened) ==
    LET s == arp_client_cancel(Session(c)) IN
    /\ c \in live
    /\ Becomes(c, arp_client_close_fd(arp_client_open_fd(s, opened)))
    /\ result' = [result EXCEPT ![c] = "idle"]
    /\ UNCHANGED <<live, created, heard, asks>>

-----------------------------------------------------------------------------
(* Actions: the dispatch queue                                             *)

\* A timer fires; behind a queued callback it would find itself cancelled
Fire(c) ==
    /\ c \in live /\ client[c].timer # "none"
    /\ ~client[c].ready /\ client[c].callback = "none"
    /\ client' = [client EXCEPT ![c].ready = TRUE]
    /\ UNCHANGED <<refcount, fd, live, created, heard, result, asks>>

\* timer_callout_process
Timer(c, sent) ==
    LET k == timer_cancel(client[c]) IN
    /\ c \in live /\ client[c].ready
    /\ client' = [client EXCEPT ![c] =
                    CASE client[c].timer = "probe_start" -> arp_client_probe_start(k, sent)
                      [] client[c].timer = "probe" -> arp_client_probe_retransmit(k, sent)
                      [] client[c].timer = "resolve" -> arp_client_resolve_retransmit(k, sent)
                      [] client[c].timer = "detect" -> arp_client_detect_retransmit(k, sent)]
    /\ UNCHANGED <<refcount, fd, live, created, heard, result, asks>>

\* arp_client_do_callback
Callback(c) ==
    /\ c \in live /\ client[c].callback # "none" /\ ~client[c].ready
    /\ Becomes(c, arp_client_callback(Session(c)))
    /\ result' = [result EXCEPT ![c] = Reported(client[c])]
    /\ UNCHANGED <<live, created, heard, asks>>

\* The criteria of arp_if_session_read
Matches(c, p) ==
    LET k == client[c] IN
    CASE k.command = "probe" ->
            /\ ~p.ours
            /\ \/ p.src \in k.targets
               \/ /\ c \in Collisions /\ p.op = "request" /\ p.src = NoAddr
                  /\ p.dst \in k.targets
      [] k.command = "resolve" -> p.op = "reply" /\ p.src \in k.targets
      [] k.command = "detect" -> p.op = "reply" /\ p.src \in k.targets /\ p.exact
      [] OTHER -> FALSE

Active == {c \in live : client[c].func}

\* A conflict that is not the last one starts the probes again
CountsConflict(c) == client[c].command = "probe" /\ c \notin Collisions
Retries(c) == CountsConflict(c) /\ client[c].conflicts < ConflictRetries

\* The client after a packet that matches
Matched(c) ==
    LET k == IF CountsConflict(c) THEN [client[c] EXCEPT !.conflicts = @ + 1]
             ELSE client[c]
    IN  IF Retries(c) THEN timer_callout_set([k EXCEPT !.status = "in_use"], "probe_start")
        ELSE arp_client_schedule_callback(k, "in_use")

CanRead == fd = "open" /\ \A c \in live : client[c].callback # "next"

\* Mutant: the address in the packet is not compared
Read_Any(p) ==
    /\ CanRead
    /\ client' = [c \in Client |-> IF c \in Active /\ client[c].status # "in_use"
                                  THEN Matched(c) ELSE client[c]]
    /\ heard' = [c \in Client |-> heard[c] \/ (c \in Active /\ Matches(c, p))]
    /\ UNCHANGED <<refcount, fd, live, created, result, asks>>

\* arp_if_session_read, for one packet: the clients are scanned in order,
\* and the scan ends at one that retries
Read(p) ==
    LET new == {c \in Active : client[c].status # "in_use" /\ Matches(c, p)}
        seen == {c \in new : \A d \in new : d < c => ~Retries(d)}
    IN
    /\ CanRead
    /\ client' = [c \in Client |-> IF c \in seen THEN Matched(c) ELSE client[c]]
    /\ heard' = [c \in Client |-> heard[c] \/ (c \in Active /\ Matches(c, p))]
    /\ UNCHANGED <<refcount, fd, live, created, result, asks>>

\* ... and its failure
ReadFailed ==
    /\ CanRead
    /\ client' = [c \in Client |-> IF c \in Active
                    THEN BeforeNextRead(arp_client_schedule_callback(client[c], "error"))
                    ELSE client[c]]
    /\ UNCHANGED <<refcount, fd, live, created, heard, result, asks>>

-----------------------------------------------------------------------------

Init ==
    /\ client = [c \in Client |-> Fresh]
    /\ refcount = 0 /\ fd = "closed"
    /\ live = {} /\ created = 0
    /\ heard = [c \in Client |-> FALSE]
    /\ result = [c \in Client |-> "idle"]
    /\ asks = 0

Ask(c) ==
    \E opened, sent \in BOOLEAN :
      \/ \E a \in Addr :
           \/ arp_client_probe(c, a, opened, sent)
           \/ \E skip \in BOOLEAN : arp_client_announce(c, a, skip, opened, sent)
           \/ arp_client_resolve(c, a, opened, sent)
      \/ \E list \in Lists : arp_client_detect(c, list, opened, sent)

Next ==
    \/ New \/ ReadFailed
    \/ \E p \in Packets : Read(p)
    \/ \E c \in Client :
         \/ Ask(c) \/ Cancel(c) \/ Free(c) \/ Fire(c) \/ Callback(c)
         \/ \E b \in BOOLEAN : Defend(c, b) \/ Timer(c, b)

\* Timers that are set fire, and the queue is served
Fairness ==
    \A c \in Client :
      /\ WF_vars(Fire(c)) /\ WF_vars(Callback(c))
      /\ WF_vars(\E b \in BOOLEAN : Timer(c, b))

Spec == Init /\ [][Next]_vars /\ Fairness

-----------------------------------------------------------------------------
(* Properties                                                              *)

ClientRecord ==
    [func : BOOLEAN, command : {"none", "probe", "resolve", "detect"},
     status : Status, fd_open : BOOLEAN, targets : SUBSET Addr, try : Nat,
     conflicts : Nat, skip : BOOLEAN, timer : Timers, ready : BOOLEAN,
     callback : {"none", "queued", "next"}]

\* Every variable has its type.
TypeOK ==
    /\ client \in [Client -> ClientRecord]
    /\ refcount \in Nat /\ fd \in {"open", "closed"}
    /\ live \subseteq Client /\ created \in 0..MaxClients
    /\ heard \in [Client -> BOOLEAN]
    /\ result \in [Client -> {"idle", "in_use", "not_in_use", "error"}]
    /\ asks \in 0..MaxAsks

\* A request that is under way has a timer or a queued callback, whatever
\* was read, sent, cancelled or asked anew; and neither of them outlives its
\* request, so that arp_client_callback never calls a null function.
AnswerPending ==
    \A c \in Client :
      client[c].func <=> client[c].timer # "none" \/ client[c].callback # "none"

\* read_fd_refcount is the number of clients that hold the descriptor, which
\* is open exactly while there is one, and every client that may still
\* transmit holds it.
FdCounted ==
    /\ refcount = Cardinality({c \in Client : client[c].fd_open})
    /\ fd = "open" <=> refcount > 0
    /\ \A c \in Client : client[c].timer # "none" => client[c].fd_open
    /\ \A c \in Client \ live : ~client[c].fd_open

\* What arp_if_session_read says of its clients: a request to resolve or to
\* detect whose packet was read is not answered "not in use".
InUseReported ==
    \A c \in Client :
      result[c] = "not_in_use" /\ client[c].command \in {"resolve", "detect"}
        => ~heard[c]

\* The request of a client as its user sees it
req == [c \in Client |->
          IF ~client[c].func THEN result[c]
          ELSE IF heard[c] THEN "heard" ELSE "waiting"]
Requests == INSTANCE ARPRequests WITH Client <- Client, req <- req

\* Every request is answered once, or withdrawn, and "in use" is only said
\* of an address that was heard of: the session implements ARPRequests.
ImplementsRequests == Requests!Spec
=============================================================================
