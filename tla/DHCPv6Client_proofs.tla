------------------------ MODULE DHCPv6Client_proofs ------------------------
(***************************************************************************)
(* Proofs about DHCPv6Client, for every set of addresses, networks and     *)
(* packets, every length of a lease and every number of retransmissions.   *)
(***************************************************************************)
EXTENDS DHCPv6Client, TLAPS

\* An address is one of a stateful client, and duplicate detection is about
\* it; the router advertisement service asks for no prefix.
Held(s) ==
    /\ s.mode # "Address" => s.ip = NoIA
    /\ s.dad = "none" <=> s.ip = NoIA
    /\ user = "rtadv" => s.mode # "Prefix" /\ s.saved_mode # "Prefix"

\* What the client keeps is an assignment that a REPLY granted.
Backed(s) == s.sv.type = "REPLY" /\ s.sv.ia # NoIA /\ s.saved_mode \in Stateful

\* A lease is backed, and so is one that is being confirmed, unless it has
\* expired: an exchange may go on while the packet is cleared.
Granted(s) ==
    /\ s.lease.valid => Backed(s) /\ s.ip \in {NoIA, s.sv.ia}
    /\ s.rx = "Confirm" => Backed(s) \/ Expired(s)
    /\ s.rx = "Confirm" /\ s.try = 0 => Backed(s)
    /\ s.cs = "Bound" => Backed(s) \/ s.sv = NoPacket

\* The callback, the timer and the state are of one exchange; only the timer
\* for T1 is set outside of it.
Together(s) ==
    /\ \/ s.rx \in {"None", s.cs}
       \/ s.rx = "RenewRebind" /\ s.cs \in {"Renew", "Rebind"}
    /\ \/ s.tm.fn \in {"None", s.rx}
       \/ s.tm.fn = "RenewRebind" /\ s.tm.ev = "start" /\ s.cs \in {"Bound", "Renew", "Rebind", "Decline"}
    /\ s.rx = "Confirm" /\ s.try = 0 => s.tm \in {NoTimer, [fn |-> "Confirm", ev |-> "timeout", left |-> 0]}
    /\ s.rx \in {"Request", "Decline", "RenewRebind"} => s.try > 0
    /\ s.rx = "Inform" => s.mode = "Stateless"

\* What was sent, or that there is enough to send it.
Spoken(s) ==
    user = "rtadv" =>
        /\ s.rx # "None" => s.mode = IF s.rx = "Inform" THEN "Stateless" ELSE "Address"
        /\ s.tm.fn # "None" => s.mode = IF s.tm.fn = "Inform" THEN "Stateless" ELSE "Address"
        /\ s.rx = "Solicit" /\ s.sv # NoPacket => s.sv.ia # NoIA /\ s.saved_mode = s.mode
        /\ s.rx # "None" /\ s.try > 0 =>
              \/ /\ s.wire.type # "none"
                 /\ s.rx \notin {"Inform", "Solicit"} => "assignment" \in s.wire.opts
              \/ s.rx = "Decline" /\ s.sv = NoPacket

Sound(s) == Held(s) /\ Granted(s) /\ Together(s) /\ Spoken(s)

\* States that a timer carries on, whatever the link does, and when it is up.
Driven(s) ==
    /\ s.cs \in {"Bound", "Request", "Decline", "Renew", "Rebind"} =>
          s.tm.fn # "None" \/ (s.cs = "Bound" /\ s.lease.inf)
    /\ s.cs = "Solicit" => s.tm.fn # "None" \/ s.rx = "None"
    /\ s.rx = "Confirm" /\ s.try = 0 => s.tm # NoTimer

\* What carries a client on, and what one that is about to confirm holds.
Going(s) ==
    /\ s.mode \in Stateful =>
          s.tm.fn # "None" \/ (s.cs = "Bound" /\ s.lease.inf) \/ (s.cs = "Solicit" /\ s.rx = "None")
    /\ s.rx = "Confirm" /\ s.try = 0 => DHCPv6ClientLeaseStillValid(s)

V6Inv ==
    /\ V6TypeOK /\ Sound(c) /\ Driven(c)
    /\ link /\ ~asleep => Going(c)
    /\ DuplicateDeclined

-----------------------------------------------------------------------------
(* Messages                                                                *)

\* Membership of the client's type, in two halves: its fields and their types.
Whole(t) ==
    t = [mode |-> t.mode, saved_mode |-> t.saved_mode, cs |-> t.cs, ip |-> t.ip, pd |-> t.pd,
         sv |-> t.sv, lease |-> t.lease, tm |-> t.tm, rx |-> t.rx, try |-> t.try,
         waited |-> t.waited, rrt |-> t.rrt, note |-> t.note, dad |-> t.dad, net |-> t.net,
         wire |-> t.wire]
Typed(t) ==
    /\ t.mode \in Mode /\ t.saved_mode \in Mode /\ t.cs \in CState
    /\ t.ip \in IAAddr \cup {NoIA} /\ t.pd \in IAAddr \cup {NoIA}
    /\ t.sv \in ServerPacket \cup {NoPacket} /\ t.lease \in V6Lease /\ t.tm \in V6Timer
    /\ t.rx \in Exchange \cup {"None"} /\ t.try \in Nat /\ t.waited \in Nat /\ t.rrt \in Nat
    /\ t.note \in BOOLEAN /\ t.dad \in Dad /\ t.net \in Net /\ t.wire \in Message

LEMMA Members == ASSUME NEW t PROVE t \in V6Client <=> Whole(t) /\ Typed(t)
<1>1. t \in V6Client => Whole(t)
  BY DEF V6Client, Whole
<1>2. t \in V6Client => Typed(t)
  BY DEF V6Client, Typed
<1>3. Whole(t) /\ Typed(t) => t \in V6Client
  BY DEF V6Client, Whole, Typed
<1> QED BY <1>1, <1>2, <1>3

LEMMA Kinds ==
    /\ NoLease \in V6Lease /\ NoTimer \in V6Timer /\ NoMsg \in Message
    /\ \A f \in Exchange, ev \in {"start", "timeout"}, n \in Nat :
          [fn |-> f, ev |-> ev, left |-> n] \in V6Timer
    /\ Mode = {"None", "Stateless", "Address", "Prefix"}
    /\ {"Inform", "Solicit", "Request", "RenewRebind", "Confirm", "Decline"} \subseteq Exchange
    /\ {"Inactive", "Inform", "InformComplete", "Solicit", "Request", "Bound",
        "Renew", "Rebind", "Confirm", "Decline", "Unbound", "Release"} \subseteq CState
    /\ {"none", "tentative", "ready", "duplicated"} \subseteq Dad
  BY DHCPv6Assumption DEF NoLease, V6Lease, NoTimer, V6Timer, NoMsg, Message, MsgType, Mode, Stateful, Exchange, CState, Dad

LEMMA SendPacketFacts ==
    ASSUME NEW s \in V6Client
    PROVE  \E w \in Message :
              /\ DHCPv6ClientSendPacket(s) = [s EXCEPT !.wire = w]
              /\ \/ /\ s.mode \in Stateful /\ s.saved_mode = s.mode /\ s.sv.ia # NoIA
                    /\ s.cs \in {"Request", "Renew", "Rebind", "Release", "Confirm", "Decline"}
                    /\ w.type # "none" /\ "assignment" \in w.opts
                 \/ /\ ~(/\ s.mode \in Stateful /\ s.saved_mode = s.mode /\ s.sv.ia # NoIA
                         /\ s.cs \in {"Request", "Renew", "Rebind", "Release", "Confirm", "Decline"})
                    /\ w = s.wire
<1> DEFINE t == CASE s.cs = "Request" -> "REQUEST" [] s.cs = "Renew" -> "RENEW"
               [] s.cs = "Rebind" -> "REBIND"   [] s.cs = "Release" -> "RELEASE"
               [] s.cs = "Confirm" -> IF s.mode = "Prefix" THEN "REBIND" ELSE "CONFIRM"
               [] s.cs = "Decline" -> "DECLINE" [] OTHER -> "none"
           o == DHCPv6ClientMakePacket(s, t) \cup AddIA(s, FALSE)
                    \cup (IF t \in {"REBIND", "CONFIRM"} THEN {} ELSE {"SERVERID"})
           x == s.mode \notin Stateful \/ ~DHCPv6ClientSavedInfoValid(s) \/ s.sv.ia = NoIA \/ t = "none"
<1>1. /\ t \in MsgType
      /\ t # "none" <=> s.cs \in {"Request", "Renew", "Rebind", "Release", "Confirm", "Decline"}
  BY DEF V6Client, CState, MsgType
<1>2. o \in SUBSET Option /\ "assignment" \in o
  BY DEF DHCPv6ClientMakePacket, DHCPv6ClientAddFQDNOption, DHCPv6ClientAddOptionRequestOption,
         AddIA, add_ia_na_option, add_ia_pd_option, Option
<1>3. DHCPv6ClientSendPacket(s) = IF x THEN s ELSE [s EXCEPT !.wire = [type |-> t, opts |-> o]]
  BY DEF DHCPv6ClientSendPacket
<1>4. CASE x
  <2>1. s = [s EXCEPT !.wire = s.wire] /\ s.wire \in Message
    BY DEF V6Client
  <2> QED BY <2>1, <1>1, <1>3, <1>4 DEF DHCPv6ClientSavedInfoValid
<1>5. CASE ~x
  <2>1. [type |-> t, opts |-> o] \in Message
    BY <1>1, <1>2 DEF Message
  <2> HIDE DEF t, o
  <2> QED BY <2>1, <1>1, <1>2, <1>3, <1>5 DEF DHCPv6ClientSavedInfoValid
<1> QED BY <1>4, <1>5

-----------------------------------------------------------------------------
(* The exchanges                                                           *)

LEMMA Resent ==
    ASSUME NEW s \in V6Client, NEW w \in Message
    PROVE  [s EXCEPT !.wire = w] \in V6Client
  BY DEF V6Client

\* What a handler may do to the mode and the address on its way from s to t:
\* a new address comes with the assignment that backs it and ends the
\* exchange, and a client is not bound to a duplicate that it could see.
Steps(s, t) ==
    /\ t.mode = s.mode
    /\ t.ip \notin {s.ip, NoIA} => t.rx = "None" /\ Backed(t)
    /\ t.cs = "Bound" /\ t.dad = "duplicated" /\ t.mode = "Address" =>
          s.cs = "Bound" /\ s.dad = "duplicated"

\* Only the router advertisement service asks for information only.
Asks(s) == user = "rtadv" => s.mode = "Address"

LEMMA GoingOn ==
    ASSUME NEW s \in V6Client, Together(s), Driven(s),
           s.cs \in {"Bound", "Request", "Decline", "Renew", "Rebind", "Solicit"}
    PROVE  Going(s)
  BY DEF Together, Driven, Going

\* A message of an exchange about an assignment: it is sent, or what was sent
\* before is on the wire, or there is nothing to decline.
Same(s, t) ==
    /\ t.mode = s.mode /\ t.saved_mode = s.saved_mode /\ t.cs = s.cs /\ t.ip = s.ip /\ t.pd = s.pd
    /\ t.sv = s.sv /\ t.lease = s.lease /\ t.tm = s.tm /\ t.rx = s.rx /\ t.try = s.try
    /\ t.note = s.note /\ t.dad = s.dad /\ t.net = s.net
LEMMA SendStep ==
    ASSUME NEW u \in V6Client, Held(u), Granted(u), Together(u), Driven(u), Asks(u),
           u.cs \in {"Request", "Renew", "Rebind", "Confirm", "Decline"},
           u.rx \in {"Request", "RenewRebind", "Confirm", "Decline"},
           user = "rtadv" =>
               \/ u.sv.ia # NoIA /\ u.saved_mode = "Address"
               \/ u.wire.type # "none" /\ "assignment" \in u.wire.opts
               \/ u.rx = "Decline" /\ u.sv = NoPacket,
           NEW t, t = DHCPv6ClientSendPacket(u)
    PROVE  t \in V6Client /\ Sound(t) /\ Driven(t) /\ Same(u, t)
<1>1. PICK w \in Message :
        /\ t = [u EXCEPT !.wire = w]
        /\ \/ w.type # "none" /\ "assignment" \in w.opts
           \/ w = u.wire /\ ~(u.mode \in Stateful /\ u.saved_mode = u.mode /\ u.sv.ia # NoIA)
  BY SendPacketFacts
<1>2. t \in V6Client /\ Same(u, t) /\ t.wire = w
  BY <1>1, Resent DEF V6Client, Same
<1>3. Held(t) /\ Granted(t) /\ Together(t) /\ Driven(t)
  BY <1>2 DEF Same, Held, Granted, Together, Driven, Backed, Expired
<1>4. Spoken(t)
  BY <1>1, <1>2 DEF Same, Spoken, Asks, Stateful, Together
<1> QED BY <1>2, <1>3, <1>4 DEF Sound

LEMMA SolicitStart ==
    ASSUME NEW s \in V6Client, Held(s), Asks(s),
           NEW t, t = DHCPv6Client_Solicit_start(s)
    PROVE  /\ t \in V6Client /\ Sound(t) /\ Driven(t) /\ Steps(s, t)
           /\ t.tm.fn = "Solicit" /\ t.cs = "Solicit" /\ t.rx = "Solicit" /\ t.ip = s.ip
<1>1. t = [s EXCEPT !.cs = "Solicit", !.lease = NoLease, !.sv = NoPacket, !.saved_mode = "None",
                    !.rx = "Solicit", !.try = 0, !.waited = 0, !.wire = NoMsg,
                    !.tm = [fn |-> "Solicit", ev |-> "timeout", left |-> 0]]
  BY DEF V6Client, DHCPv6Client_Solicit_start, set_timer, Begin, DHCPv6ClientClearPacket, DHCPv6ClientSetState
<1>2. t \in V6Client
  <2>1. Whole(t)
    BY <1>1 DEF V6Client, Whole
  <2>2. Typed(t)
    BY <1>1, Kinds DEF V6Client, Typed
  <2> QED BY <2>1, <2>2, Members
<1>3. Held(t) /\ Granted(t) /\ Together(t) /\ Driven(t)
  BY <1>1 DEF V6Client, Held, Granted, Together, Driven, Backed, NoLease, NoTimer
<1>4. Spoken(t) /\ Steps(s, t)
  BY <1>1 DEF V6Client, Spoken, Steps, Asks
<1>5. t.tm.fn = "Solicit" /\ t.cs = "Solicit" /\ t.rx = "Solicit" /\ t.ip = s.ip
  BY <1>1 DEF V6Client
<1> QED BY <1>2, <1>3, <1>4, <1>5 DEF Sound

LEMMA UnboundStart ==
    ASSUME NEW s \in V6Client, Held(s), Asks(s),
           NEW t, t = DHCPv6Client_Unbound(s)
    PROVE  /\ t \in V6Client /\ Sound(t) /\ Driven(t) /\ Steps(s, t)
           /\ t.tm.fn = "Solicit" /\ t.cs = "Solicit" /\ t.ip = NoIA
<1>0. PICK u : u = [s EXCEPT !.cs = "Unbound", !.rx = "None", !.tm = NoTimer, !.ip = NoIA, !.dad = "none",
                             !.lease = NoLease, !.sv = NoPacket, !.saved_mode = "None", !.note = TRUE]
  OBVIOUS
<1>1. t = DHCPv6Client_Solicit_start(u)
  BY <1>0 DEF V6Client, Held, DHCPv6Client_Unbound, DHCPv6ClientPostNotification, DHCPv6ClientClearPacket,
         DHCPv6ClientRemoveAddress, DHCPv6ClientCancelPendingEvents, DHCPv6ClientSetState
<1>2. u \in V6Client
  <2>1. Whole(u)
    BY <1>0 DEF V6Client, Whole
  <2>2. Typed(u)
    BY <1>0, Kinds DEF V6Client, Typed
  <2> QED BY <2>1, <2>2, Members
<1>3. Held(u) /\ Asks(u) /\ u.ip = NoIA /\ u.mode = s.mode
  BY <1>0 DEF V6Client, Held, Asks
<1>4. /\ t \in V6Client /\ Sound(t) /\ Driven(t) /\ Steps(u, t)
      /\ t.tm.fn = "Solicit" /\ t.cs = "Solicit" /\ t.ip = u.ip
  BY <1>1, <1>2, <1>3, SolicitStart
<1> QED BY <1>3, <1>4 DEF Steps

\* A client declines what it was granted, or has nothing left to decline.
LEMMA DeclineStart ==
    ASSUME NEW s \in V6Client, Held(s), Asks(s), Backed(s) \/ s.sv = NoPacket,
           NEW t, t = DHCPv6Client_Decline_start(s)
    PROVE  /\ t \in V6Client /\ Sound(t) /\ Driven(t) /\ Steps(s, t)
           /\ t.tm.fn = "Decline" /\ t.cs = "Decline" /\ t.ip = NoIA /\ t.lease = NoLease
<1>0. PICK u : u = [s EXCEPT !.cs = "Decline", !.rx = "Decline", !.try = 1, !.waited = 0, !.wire = NoMsg,
                             !.tm = [fn |-> "Decline", ev |-> "timeout", left |-> 1],
                             !.ip = NoIA, !.dad = "none", !.lease = NoLease, !.note = TRUE]
  OBVIOUS
<1>1. t = DHCPv6ClientSendPacket(u)
  <2>1. ~(0 >= DecMaxRC) /\ ~(0 > ReqMaxRC + DecMaxRC) /\ 0 + 1 = 1
    BY DHCPv6Assumption
  <2>2. PICK v : v = [s EXCEPT !.cs = "Decline", !.rx = "Decline", !.try = 0, !.waited = 0, !.wire = NoMsg,
                               !.tm = NoTimer, !.ip = NoIA, !.dad = "none", !.lease = NoLease, !.note = TRUE]
    OBVIOUS
  <2>3. t = DHCPv6Client_Decline_timeout(v)
    BY <2>2 DEF V6Client, Held, DHCPv6Client_Decline_start, Begin, DHCPv6ClientPostNotification,
         DHCPv6ClientClearLease, DHCPv6ClientRemoveAddress, DHCPv6ClientCancelPendingEvents, DHCPv6ClientSetState
  <2>4. v.try = 0
    BY <2>2 DEF V6Client
  <2>5. t = DHCPv6ClientSendPacket(Again(v, "Decline", 1))
    BY <2>1, <2>3, <2>4 DEF DHCPv6Client_Decline_timeout
  <2>6. Again(v, "Decline", 1) = u
    BY <1>0, <2>1, <2>2, <2>4 DEF V6Client, Again, set_timer, DHCPv6ClientNextRetransmit
  <2> QED
    BY <2>5, <2>6
<1>2. u \in V6Client
  <2>1. Whole(u)
    BY <1>0 DEF V6Client, Whole
  <2>2. Typed(u)
    BY <1>0, Kinds DEF V6Client, Typed
  <2> QED BY <2>1, <2>2, Members
<1>3. /\ u.cs = "Decline" /\ u.rx = "Decline" /\ u.try = 1 /\ u.ip = NoIA /\ u.dad = "none"
      /\ u.tm = [fn |-> "Decline", ev |-> "timeout", left |-> 1] /\ u.lease = NoLease
      /\ u.mode = s.mode /\ u.saved_mode = s.saved_mode /\ u.sv = s.sv /\ u.wire = NoMsg
  BY <1>0 DEF V6Client
<1>4. PICK w \in Message :
        /\ t = [u EXCEPT !.wire = w]
        /\ u.mode \in Stateful /\ u.saved_mode = u.mode /\ u.sv.ia # NoIA =>
              w.type # "none" /\ "assignment" \in w.opts
  BY <1>1, <1>2, <1>3, SendPacketFacts
<1>5. t \in V6Client
  BY <1>2, <1>4, Resent
<1>6. Held(t) /\ Granted(t) /\ Together(t) /\ Driven(t) /\ Steps(s, t)
  BY <1>2, <1>3, <1>4 DEF V6Client, Held, Granted, Together, Driven, Steps, Backed, NoLease, NoTimer
<1>7. Spoken(t)
  <2>1. user = "rtadv" => s.mode = "Address" /\ s.mode \in Stateful /\ s.saved_mode # "Prefix"
    BY DEF Asks, Held, Stateful
  <2>2. user = "rtadv" /\ s.sv # NoPacket => s.sv.ia # NoIA /\ s.saved_mode = s.mode
    BY <2>1 DEF Backed, Stateful
  <2> QED BY <1>2, <1>3, <1>4, <2>1, <2>2 DEF V6Client, Spoken
<1> QED BY <1>2, <1>3, <1>4, <1>5, <1>6, <1>7 DEF Sound, V6Client

\* The address or the prefix is taken; an address that the kernel has already
\* found to be a duplicate is declined on the spot.
LEMMA BoundStep ==
    ASSUME NEW b \in V6Client, Held(b), Asks(b), Backed(b), b.cs = "Bound", b.rx = "None", b.tm = NoTimer,
           NEW w, w = IF b.mode = "Address" THEN DHCPv6ClientBoundAddress(b) ELSE DHCPv6ClientBoundPrefix(b)
    PROVE  /\ w \in V6Client /\ Sound(w) /\ w.mode = b.mode
           /\ w.ip \notin {b.ip, NoIA} => w.rx = "None" /\ Backed(w)
           /\ \/ /\ w.cs = "Bound" /\ w.tm = NoTimer /\ w.rx = "None" /\ w.lease.inf = b.lease.inf
                 /\ w.mode = "Address" => w.dad # "duplicated"
              \/ w.cs = "Decline" /\ w.tm.fn = "Decline" /\ Driven(w)
<1>1. CASE b.mode = "Address"
  <2>0. PICK v : v = [b EXCEPT !.ip = b.sv.ia, !.dad = IF b.ip = b.sv.ia THEN b.dad ELSE "tentative", !.note = TRUE]
    OBVIOUS
  <2>1. w = DHCPv6ClientHandleAddressChanged(v)
    BY <1>1, <2>0 DEF V6Client, DHCPv6ClientBoundAddress, DHCPv6ClientPostNotification
  <2>2. b.sv.ia \in IAAddr \cup {NoIA}
    BY DEF V6Client, ServerPacket, NoPacket
  <2>3. v \in V6Client
    <3>1. Whole(v)
      BY <2>0 DEF V6Client, Whole
    <3>2. Typed(v)
      BY <2>0, <2>2, Kinds DEF V6Client, Typed
    <3> QED BY <3>1, <3>2, Members
  <2>4. /\ v.mode = b.mode /\ v.saved_mode = b.saved_mode /\ v.sv = b.sv /\ v.cs = b.cs /\ v.rx = b.rx
        /\ v.tm = b.tm /\ v.lease = b.lease /\ v.ip = b.sv.ia /\ v.ip # NoIA /\ v.dad # "none" /\ v.note
        /\ v.ip # b.ip => v.dad = "tentative"
    BY <2>0 DEF V6Client, Backed, Held
  <2>5. Held(v) /\ Asks(v) /\ Backed(v)
    BY <1>1, <2>4 DEF Held, Asks, Backed
  <2>6. CASE v.dad = "duplicated"
    <3>1. w = DHCPv6Client_Decline_start(v)
      BY <2>1, <2>4, <2>6 DEF DHCPv6ClientHandleAddressChanged
    <3>2. /\ w \in V6Client /\ Sound(w) /\ Driven(w) /\ Steps(v, w)
          /\ w.tm.fn = "Decline" /\ w.cs = "Decline" /\ w.ip = NoIA
      BY <2>3, <2>5, <3>1, DeclineStart
    <3> QED BY <2>4, <3>2 DEF Steps
  <2>7. CASE v.dad # "duplicated"
    <3>1. v = [v EXCEPT !.note = TRUE]
      BY <2>3, <2>4 DEF V6Client
    <3>2. w \in {v, DHCPv6ClientPostNotification(v)}
      BY <2>1, <2>4, <2>7 DEF DHCPv6ClientHandleAddressChanged
    <3>3. w = v
      BY <3>1, <3>2 DEF DHCPv6ClientPostNotification
    <3>4. Sound(v)
      BY <2>4, <2>5 DEF Sound, Granted, Together, Spoken, Backed, NoTimer
    <3> QED BY <2>3, <2>4, <2>5, <2>7, <3>3, <3>4
  <2> QED BY <2>6, <2>7
<1>2. CASE b.mode # "Address"
  <2>1. w = [b EXCEPT !.pd = b.sv.ia, !.note = TRUE]
    BY <1>2 DEF V6Client, DHCPv6ClientBoundPrefix, DHCPv6ClientPostNotification
  <2>2. b.sv.ia \in IAAddr \cup {NoIA}
    BY DEF V6Client, ServerPacket, NoPacket
  <2>3. w \in V6Client
    <3>1. Whole(w)
      BY <2>1 DEF V6Client, Whole
    <3>2. Typed(w)
      BY <2>1, <2>2, Kinds DEF V6Client, Typed
    <3> QED BY <3>1, <3>2, Members
  <2>4. /\ w.mode = b.mode /\ w.saved_mode = b.saved_mode /\ w.sv = b.sv /\ w.cs = b.cs /\ w.rx = b.rx
        /\ w.tm = b.tm /\ w.lease = b.lease /\ w.ip = b.ip /\ w.dad = b.dad
    BY <2>1 DEF V6Client
  <2>5. Held(w) /\ Granted(w) /\ Together(w) /\ Spoken(w)
    BY <1>2, <2>4 DEF Held, Granted, Together, Spoken, Backed, NoTimer
  <2> QED BY <1>2, <2>3, <2>4, <2>5 DEF Sound
<1> QED BY <1>1, <1>2

\* Bound, with an assignment that is good or on the way out.
LEMMA BoundStart ==
    ASSUME NEW s \in V6Client, Held(s), Asks(s), Backed(s) \/ Expired(s),
           NEW t, t = DHCPv6Client_Bound(s)
    PROVE  /\ t \in V6Client /\ Sound(t) /\ Driven(t) /\ Steps(s, t)
           /\ t.cs \in {"Bound", "Decline", "Solicit"}
<1>0. PICK b : b = [s EXCEPT !.cs = "Bound", !.lease.valid = TRUE, !.rx = "None", !.tm = NoTimer]
  OBVIOUS
<1>1. b \in V6Client
  <2>1. Whole(b)
    BY <1>0 DEF V6Client, Whole
  <2>2. b.lease \in V6Lease
    BY <1>0 DEF V6Client, V6Lease
  <2>3. Typed(b)
    BY <1>0, <2>2, Kinds DEF V6Client, Typed
  <2> QED BY <2>1, <2>3, Members
<1>2. /\ b.mode = s.mode /\ b.ip = s.ip /\ b.dad = s.dad /\ b.sv = s.sv /\ b.saved_mode = s.saved_mode
      /\ b.cs = "Bound" /\ b.rx = "None" /\ b.tm = NoTimer
      /\ b.lease.inf = s.lease.inf /\ b.lease.age = s.lease.age
  BY <1>0 DEF V6Client, V6Lease
<1>3. Held(b) /\ Asks(b) /\ (Backed(b) \/ Expired(b)) /\ (\A x : Steps(b, x) /\ x.cs # "Bound" => Steps(s, x))
  BY <1>2 DEF Held, Asks, Backed, Expired, Steps
<1>4. b = DHCPv6ClientCancelPendingEvents([DHCPv6ClientSetState(s, "Bound") EXCEPT !.lease.valid = TRUE])
  BY <1>0 DEF V6Client, DHCPv6ClientCancelPendingEvents, DHCPv6ClientSetState
<1>5. CASE Expired(b)
  <2>1. t = DHCPv6Client_Unbound(b)
    BY <1>4, <1>5 DEF DHCPv6Client_Bound
  <2>2. t \in V6Client /\ Sound(t) /\ Driven(t) /\ Steps(b, t) /\ t.cs = "Solicit"
    BY <2>1, <1>1, <1>3, UnboundStart
  <2> QED BY <2>2, <1>3
<1>6. CASE ~Expired(b)
  <2>1. Backed(b)
    BY <1>3, <1>6
  <2>2. PICK w : w = IF s.mode = "Address" THEN DHCPv6ClientBoundAddress(b) ELSE DHCPv6ClientBoundPrefix(b)
    OBVIOUS
  <2>3. /\ w \in V6Client /\ Sound(w) /\ Steps(s, w)
        /\ \/ w.cs = "Bound" /\ w.tm = NoTimer /\ w.rx = "None" /\ w.lease.inf = b.lease.inf
           \/ w.cs = "Decline" /\ w.tm.fn = "Decline" /\ Driven(w)
    <3>1. w = IF b.mode = "Address" THEN DHCPv6ClientBoundAddress(b) ELSE DHCPv6ClientBoundPrefix(b)
      BY <1>2, <2>2
    <3>2. /\ w \in V6Client /\ Sound(w) /\ w.mode = b.mode
          /\ w.ip \notin {b.ip, NoIA} => w.rx = "None" /\ Backed(w)
          /\ \/ /\ w.cs = "Bound" /\ w.tm = NoTimer /\ w.rx = "None" /\ w.lease.inf = b.lease.inf
                /\ w.mode = "Address" => w.dad # "duplicated"
             \/ w.cs = "Decline" /\ w.tm.fn = "Decline" /\ Driven(w)
      BY <1>1, <1>2, <1>3, <2>1, <3>1, BoundStep
    <3> QED BY <1>2, <3>2 DEF Steps
  <2>4. CASE b.lease.inf
    <3>1. t = w
      BY <1>4, <1>6, <2>2, <2>4 DEF DHCPv6Client_Bound
    <3> QED BY <2>3, <2>4, <3>1 DEF Driven
  <2>5. CASE ~b.lease.inf
    <3>1. RenewIn(w) \in Nat
      BY <2>3, DHCPv6Assumption DEF V6Client, V6Lease, RenewIn
    <3>2. t = [w EXCEPT !.tm = [fn |-> "RenewRebind", ev |-> "start", left |-> RenewIn(w)], !.rrt = RenewIn(w)]
      BY <1>4, <1>6, <2>2, <2>3, <2>5 DEF V6Client, DHCPv6Client_Bound, set_timer
    <3>3. t \in V6Client
      <4>1. Whole(t)
        BY <2>3, <3>2 DEF V6Client, Whole
      <4>2. Typed(t)
        BY <2>3, <3>1, <3>2, Kinds DEF V6Client, Typed
      <4> QED BY <4>1, <4>2, Members
    <3>4. /\ t.mode = w.mode /\ t.saved_mode = w.saved_mode /\ t.cs = w.cs /\ t.ip = w.ip /\ t.dad = w.dad
          /\ t.sv = w.sv /\ t.lease = w.lease /\ t.rx = w.rx /\ t.try = w.try /\ t.wire = w.wire
          /\ t.tm = [fn |-> "RenewRebind", ev |-> "start", left |-> RenewIn(w)]
      BY <2>3, <3>2 DEF V6Client
    <3>5. Held(t) /\ Granted(t) /\ Steps(s, t)
      BY <2>3, <3>4 DEF Sound, Held, Granted, Steps, Backed, Expired
    <3>6. Together(t) /\ Driven(t)
      BY <2>3, <3>4 DEF Sound, Together, Driven, NoTimer
    <3>7. Spoken(t)
      BY <1>3, <2>3, <3>4, <1>2 DEF Sound, Spoken, Steps, Asks
    <3> QED BY <2>3, <3>3, <3>4, <3>5, <3>6, <3>7 DEF Sound
  <2> QED BY <2>4, <2>5, <1>1 DEF V6Client, V6Lease
<1> QED BY <1>5, <1>6

\* The next message of the exchange, and the timer for the one after it.
LEMMA AgainFields ==
    ASSUME NEW s \in V6Client, NEW f \in Exchange, NEW u, u = Again(s, f, 1)
    PROVE  /\ u \in V6Client /\ u.tm = [fn |-> f, ev |-> "timeout", left |-> 1] /\ u.try > 0
           /\ u.mode = s.mode /\ u.saved_mode = s.saved_mode /\ u.cs = s.cs /\ u.ip = s.ip /\ u.dad = s.dad
           /\ u.sv = s.sv /\ u.lease = s.lease /\ u.rx = s.rx /\ u.wire = s.wire /\ u.pd = s.pd
           /\ u.note = s.note /\ u.net = s.net
<1>1. PICK n \in Nat \ {0} : n = IF s.try > ReqMaxRC + DecMaxRC THEN s.try ELSE s.try + 1
  <2>1. s.try \in Nat /\ ReqMaxRC \in Nat /\ DecMaxRC \in Nat
    BY DHCPv6Assumption DEF V6Client
  <2> QED BY <2>1
<1>2. u = [s EXCEPT !.try = n, !.tm = [fn |-> f, ev |-> "timeout", left |-> 1]]
  BY <1>1 DEF V6Client, Again, set_timer, DHCPv6ClientNextRetransmit
<1>3. u \in V6Client
  <2>1. Whole(u)
    BY <1>2 DEF V6Client, Whole
  <2>2. Typed(u)
    <3>1. [fn |-> f, ev |-> "timeout", left |-> 1] \in V6Timer /\ n \in Nat
      BY Kinds
    <3> QED BY <1>2, <3>1 DEF V6Client, Typed
  <2> QED BY <2>1, <2>2, Members
<1>4. /\ u.mode = s.mode /\ u.saved_mode = s.saved_mode /\ u.cs = s.cs /\ u.ip = s.ip /\ u.dad = s.dad
      /\ u.sv = s.sv /\ u.lease = s.lease /\ u.rx = s.rx /\ u.wire = s.wire /\ u.pd = s.pd
      /\ u.note = s.note /\ u.net = s.net
  BY <1>2 DEF V6Client
<1>5. u.tm = [fn |-> f, ev |-> "timeout", left |-> 1] /\ u.try = n
  BY <1>2 DEF V6Client
<1>6. n > 0
  OBVIOUS
<1> QED BY <1>3, <1>4, <1>5, <1>6

\* A test of the lease keeps it or clears what had expired.
LEMMA TestedFields ==
    ASSUME NEW s \in V6Client, NEW t, t = Tested(s)
    PROVE  /\ t \in V6Client
           /\ \/ t = s /\ (s.lease.valid => DHCPv6ClientLeaseStillValid(s))
              \/ /\ s.lease.valid /\ ~DHCPv6ClientLeaseStillValid(s)
                 /\ t.lease = NoLease /\ t.sv = NoPacket /\ t.saved_mode = "None" /\ Expired(t)
           /\ t.mode = s.mode /\ t.cs = s.cs /\ t.ip = s.ip /\ t.dad = s.dad /\ t.tm = s.tm
           /\ t.rx = s.rx /\ t.try = s.try /\ t.wire = s.wire /\ t.pd = s.pd /\ t.net = s.net
           /\ t.note = s.note
<1>1. CASE s.lease.valid /\ Expired(s)
  <2>1. t = [s EXCEPT !.lease = NoLease, !.sv = NoPacket, !.saved_mode = "None"]
    BY <1>1 DEF Tested, DHCPv6ClientClearPacket
  <2>2. t \in V6Client
    <3>1. Whole(t)
      BY <2>1 DEF V6Client, Whole
    <3>2. Typed(t)
      BY <2>1, Kinds DEF V6Client, Typed
    <3> QED BY <3>1, <3>2, Members
  <2>3. /\ t.mode = s.mode /\ t.cs = s.cs /\ t.ip = s.ip /\ t.dad = s.dad /\ t.tm = s.tm
        /\ t.rx = s.rx /\ t.try = s.try /\ t.wire = s.wire /\ t.pd = s.pd /\ t.net = s.net
        /\ t.note = s.note /\ t.lease = NoLease /\ t.sv = NoPacket /\ t.saved_mode = "None"
    BY <2>1 DEF V6Client
  <2>4. Expired(t)
    BY <2>3, DHCPv6Assumption DEF Expired, NoLease
  <2> QED BY <1>1, <2>2, <2>3, <2>4 DEF DHCPv6ClientLeaseStillValid
<1>2. CASE ~(s.lease.valid /\ Expired(s))
  BY <1>2 DEF Tested, DHCPv6ClientLeaseStillValid
<1> QED BY <1>1, <1>2

\* What makes an assignment of a lease, in every handler.
LeaseBacked(s) == s.lease.valid => Backed(s) /\ s.ip \in {NoIA, s.sv.ia}

LEMMA RenewRebindTimeout ==
    ASSUME NEW s \in V6Client, Held(s), Asks(s), LeaseBacked(s), s.rx = "RenewRebind",
           s.cs \in {"Renew", "Rebind"},
           NEW t, t = DHCPv6Client_RenewRebind_timeout(s)
    PROVE  /\ t \in V6Client /\ Sound(t) /\ Driven(t) /\ Steps(s, t)
           /\ t.cs \in {"Renew", "Rebind", "Solicit"} /\ t.ip \in {s.ip, NoIA}
<1>1. CASE ~DHCPv6ClientLeaseStillValid(s)
  <2>1. PICK v : v = Tested(s)
    OBVIOUS
  <2>2. v \in V6Client /\ Held(v) /\ Asks(v) /\ v.ip = s.ip /\ v.mode = s.mode
    BY <2>1, TestedFields DEF Held, Asks
  <2>3. t = DHCPv6Client_Unbound(v)
    BY <1>1, <2>1 DEF DHCPv6Client_RenewRebind_timeout
  <2>4. t \in V6Client /\ Sound(t) /\ Driven(t) /\ Steps(v, t) /\ t.cs = "Solicit" /\ t.ip = NoIA
    BY <2>2, <2>3, UnboundStart
  <2> QED BY <2>2, <2>4 DEF Steps
<1>2. CASE DHCPv6ClientLeaseStillValid(s)
  <2>1. PICK r : r = IF s.lease.age < T2 \/ s.cs = "Rebind" THEN s
                     ELSE DHCPv6ClientSetState(Begin(s, "RenewRebind"), "Rebind")
    OBVIOUS
  <2>2. /\ r \in V6Client /\ r.mode = s.mode /\ r.saved_mode = s.saved_mode /\ r.ip = s.ip /\ r.dad = s.dad
        /\ r.sv = s.sv /\ r.lease = s.lease /\ r.rx = "RenewRebind" /\ r.cs \in {"Renew", "Rebind"}
    <3>1. CASE r = s
      BY <3>1
    <3>2. CASE r = [s EXCEPT !.rx = "RenewRebind", !.try = 0, !.waited = 0, !.wire = NoMsg, !.cs = "Rebind"]
      <4>1. Whole(r)
        BY <3>2 DEF V6Client, Whole
      <4>2. Typed(r)
        BY <3>2, Kinds DEF V6Client, Typed
      <4> QED BY <3>2, <4>1, <4>2, Members DEF V6Client
    <3> QED BY <2>1, <3>1, <3>2 DEF DHCPv6ClientSetState, Begin
  <2>3. PICK a : a = Again(r, "RenewRebind", 1)
    OBVIOUS
  <2>4. PICK u : u = [a EXCEPT !.rrt = 1]
    OBVIOUS
  <2>5. /\ a \in V6Client /\ a.tm = [fn |-> "RenewRebind", ev |-> "timeout", left |-> 1] /\ a.try > 0
        /\ a.mode = r.mode /\ a.saved_mode = r.saved_mode /\ a.cs = r.cs /\ a.ip = r.ip /\ a.dad = r.dad
        /\ a.sv = r.sv /\ a.lease = r.lease /\ a.rx = r.rx
    BY <2>2, <2>3, Kinds, AgainFields
  <2>6. /\ u \in V6Client /\ u.tm = [fn |-> "RenewRebind", ev |-> "timeout", left |-> 1] /\ u.try > 0
        /\ u.mode = s.mode /\ u.saved_mode = s.saved_mode /\ u.ip = s.ip /\ u.dad = s.dad
        /\ u.sv = s.sv /\ u.lease = s.lease /\ u.rx = "RenewRebind" /\ u.cs \in {"Renew", "Rebind"}
    BY <2>2, <2>4, <2>5 DEF V6Client
  <2>7. Backed(s) /\ s.ip \in {NoIA, s.sv.ia}
    BY <1>2 DEF LeaseBacked, DHCPv6ClientLeaseStillValid
  <2>8. Held(u) /\ Granted(u) /\ Together(u) /\ Driven(u) /\ Asks(u)
    BY <2>6, <2>7 DEF Held, Granted, Together, Driven, Asks, Backed, NoTimer
  <2>9. user = "rtadv" => u.sv.ia # NoIA /\ u.saved_mode = "Address"
    BY <2>6, <2>7 DEF Held, Backed, Stateful
  <2>10. t = DHCPv6ClientSendPacket(u)
    BY <1>2, <2>1, <2>3, <2>4 DEF DHCPv6Client_RenewRebind_timeout
  <2>11. t \in V6Client /\ Sound(t) /\ Driven(t) /\ Same(u, t)
    BY <2>6, <2>8, <2>9, <2>10, SendStep
  <2> QED BY <2>6, <2>11 DEF Same, Steps
<1> QED BY <1>1, <1>2

LEMMA RenewRebindStart ==
    ASSUME NEW s \in V6Client, Held(s), Asks(s), LeaseBacked(s),
           NEW t, t = DHCPv6Client_RenewRebind_start(s)
    PROVE  /\ t \in V6Client /\ Sound(t) /\ Driven(t) /\ Steps(s, t)
           /\ t.cs \in {"Renew", "Rebind", "Solicit"} /\ t.ip \in {s.ip, NoIA}
<1>0. PICK u : u = [s EXCEPT !.cs = "Renew", !.rx = "RenewRebind", !.tm = NoTimer, !.try = 0, !.waited = 0,
                             !.wire = NoMsg]
  OBVIOUS
<1>1. u \in V6Client
  <2>1. Whole(u)
    BY <1>0 DEF V6Client, Whole
  <2>2. Typed(u)
    BY <1>0, Kinds DEF V6Client, Typed
  <2> QED BY <2>1, <2>2, Members
<1>2. t = DHCPv6Client_RenewRebind_timeout(u)
  BY <1>0 DEF V6Client, DHCPv6Client_RenewRebind_start, Begin, DHCPv6ClientCancelPendingEvents, DHCPv6ClientSetState
<1>3. /\ u.rx = "RenewRebind" /\ u.cs = "Renew" /\ u.mode = s.mode /\ u.saved_mode = s.saved_mode
      /\ u.ip = s.ip /\ u.dad = s.dad /\ u.sv = s.sv /\ u.lease = s.lease
  BY <1>0 DEF V6Client
<1>4. Held(u) /\ Asks(u) /\ LeaseBacked(u)
  BY <1>3 DEF Held, Asks, LeaseBacked, Backed
<1>5. /\ t \in V6Client /\ Sound(t) /\ Driven(t) /\ Steps(u, t) /\ t.cs \in {"Renew", "Rebind", "Solicit"}
      /\ t.ip \in {u.ip, NoIA}
  BY <1>1, <1>2, <1>3, <1>4, RenewRebindTimeout
<1> QED BY <1>3, <1>5 DEF Steps

LEMMA ConfirmStart ==
    ASSUME NEW s \in V6Client, Held(s), Asks(s), LeaseBacked(s), Backed(s),
           NEW t, t = DHCPv6Client_Confirm_start(s)
    PROVE  /\ t \in V6Client /\ Sound(t) /\ Driven(t) /\ Steps(s, t)
           /\ t.cs = "Confirm" /\ t.rx = "Confirm" /\ t.tm.fn = "Confirm" /\ t.lease = s.lease /\ t.ip = s.ip
<1>0. t = [s EXCEPT !.cs = "Confirm", !.rx = "Confirm", !.try = 0, !.waited = 0, !.wire = NoMsg,
                    !.tm = [fn |-> "Confirm", ev |-> "timeout", left |-> 0]]
  BY DEF V6Client, DHCPv6Client_Confirm_start, Begin, set_timer, DHCPv6ClientCancelPendingEvents, DHCPv6ClientSetState
<1>1. t \in V6Client
  <2>1. Whole(t)
    BY <1>0 DEF V6Client, Whole
  <2>2. Typed(t)
    BY <1>0, Kinds DEF V6Client, Typed
  <2> QED BY <2>1, <2>2, Members
<1>2. /\ t.cs = "Confirm" /\ t.rx = "Confirm" /\ t.try = 0 /\ t.tm = [fn |-> "Confirm", ev |-> "timeout", left |-> 0]
      /\ t.mode = s.mode /\ t.saved_mode = s.saved_mode
      /\ t.ip = s.ip /\ t.dad = s.dad /\ t.sv = s.sv /\ t.lease = s.lease
  BY <1>0 DEF V6Client
<1>3. Held(t) /\ Granted(t) /\ Together(t) /\ Spoken(t) /\ Driven(t) /\ Steps(s, t)
  BY <1>2 DEF Held, Granted, Together, Spoken, Driven, Steps, Asks, LeaseBacked, Backed, NoTimer
<1> QED BY <1>1, <1>2, <1>3 DEF Sound

Good(s, t) == t \in V6Client /\ Sound(t) /\ Driven(t) /\ Steps(s, t)

LEMMA SavePacketFields ==
    ASSUME NEW s \in V6Client, NEW p \in ServerPacket, NEW t, t = DHCPv6ClientSavePacket(s, p)
    PROVE  /\ t \in V6Client /\ t.sv = p /\ ~t.lease.valid
           /\ s.mode \in Stateful /\ p.ia # NoIA => t.saved_mode = s.mode
           /\ s.mode \notin Stateful => Expired(t) /\ t.saved_mode = s.mode
           /\ s.mode \in Stateful /\ p.ia = NoIA => t.saved_mode = "None"
           /\ t.mode = s.mode /\ t.cs = s.cs /\ t.ip = s.ip /\ t.dad = s.dad /\ t.tm = s.tm
           /\ t.rx = s.rx /\ t.try = s.try /\ t.wire = s.wire /\ t.pd = s.pd /\ t.net = s.net
           /\ t.note = s.note
<1>1. PICK m, l : /\ t = [s EXCEPT !.lease = l, !.sv = p, !.saved_mode = m]
                  /\ l \in V6Lease /\ ~l.valid /\ m \in {s.mode, "None"}
                  /\ s.mode \in Stateful /\ p.ia # NoIA => m = s.mode
                  /\ s.mode \notin Stateful => m = s.mode /\ ~l.inf /\ l.age = Valid
                  /\ s.mode \in Stateful /\ p.ia = NoIA => m = "None"
  <2>1. PICK k : k = [NoLease EXCEPT !.net = s.net]
    OBVIOUS
  <2>2. /\ k \in V6Lease /\ ~k.valid /\ ~k.inf /\ k.age = Valid
    <3>1. Valid \in Nat /\ Valid \in 0..Valid /\ s.net \in Net \cup {NoNet}
      BY DHCPv6Assumption DEF V6Client
    <3>2. k = [valid |-> FALSE, inf |-> FALSE, age |-> Valid, net |-> s.net]
      BY <2>1 DEF NoLease
    <3> QED BY <3>1, <3>2 DEF V6Lease
  <2>3. PICK r : r = [s EXCEPT !.lease = k, !.sv = p, !.saved_mode = "None"]
    OBVIOUS
  <2>4. r = [DHCPv6ClientClearPacket(s) EXCEPT !.sv = p, !.lease.net = s.net]
    BY <2>1, <2>3 DEF V6Client, DHCPv6ClientClearPacket
  <2>5. CASE s.mode \notin Stateful
    <3>1. t = [s EXCEPT !.lease = k, !.sv = p, !.saved_mode = s.mode]
      BY <2>3, <2>4, <2>5 DEF V6Client, DHCPv6ClientSavePacket
    <3> QED BY <2>2, <2>5, <3>1
  <2>6. CASE s.mode \in Stateful /\ p.ia = NoIA
    <3>1. t = r
      BY <2>3, <2>4, <2>6 DEF DHCPv6ClientSavePacket
    <3> QED BY <2>2, <2>3, <2>6, <3>1
  <2>7. CASE s.mode \in Stateful /\ p.ia # NoIA
    <3>1. PICK l : l = [k EXCEPT !.age = 0, !.inf = p.inf]
      OBVIOUS
    <3>2. l \in V6Lease /\ ~l.valid
      <4>1. Valid \in Nat /\ 0 \in 0..Valid
        BY DHCPv6Assumption
      <4>2. p.inf \in BOOLEAN
        BY DEF ServerPacket
      <4>3. l = [valid |-> k.valid, inf |-> p.inf, age |-> 0, net |-> k.net]
        BY <2>2, <3>1 DEF V6Lease
      <4> QED BY <2>2, <4>1, <4>2, <4>3 DEF V6Lease
    <3>3. t = [r EXCEPT !.saved_mode = s.mode, !.lease.age = 0, !.lease.inf = p.inf]
      BY <2>3, <2>4, <2>7 DEF V6Client, DHCPv6ClientSavePacket
    <3>4. t = [s EXCEPT !.lease = l, !.sv = p, !.saved_mode = s.mode]
      BY <2>3, <3>1, <3>3 DEF V6Client
    <3> QED BY <2>7, <3>2, <3>4
  <2> QED BY <2>5, <2>6, <2>7
<1>2. /\ t.sv = p /\ t.lease = l /\ t.saved_mode = m
      /\ t.mode = s.mode /\ t.cs = s.cs /\ t.ip = s.ip /\ t.dad = s.dad /\ t.tm = s.tm
      /\ t.rx = s.rx /\ t.try = s.try /\ t.wire = s.wire /\ t.pd = s.pd /\ t.net = s.net
      /\ t.note = s.note
  BY <1>1 DEF V6Client
<1>3. t \in V6Client
  <2>1. Whole(t)
    BY <1>1 DEF V6Client, Whole
  <2>2. Typed(t)
    BY <1>1, Kinds DEF V6Client, Typed
  <2> QED BY <2>1, <2>2, Members
<1>4. s.mode \notin Stateful => Expired(t)
  BY <1>1, <1>2, DHCPv6Assumption DEF Expired
<1> QED BY <1>1, <1>2, <1>3, <1>4

LEMMA RequestTimeout ==
    ASSUME NEW s \in V6Client, Held(s), Asks(s), LeaseBacked(s), s.cs = "Request", s.rx = "Request",
           user = "rtadv" => \/ s.sv.ia # NoIA /\ s.saved_mode = "Address"
                             \/ s.wire.type # "none" /\ "assignment" \in s.wire.opts,
           NEW t, t = DHCPv6Client_Request_timeout(s)
    PROVE  Good(s, t) /\ Going(t)
<1>1. CASE s.try >= ReqMaxRC
  <2>1. t = DHCPv6Client_Solicit_start(s)
    BY <1>1 DEF DHCPv6Client_Request_timeout
  <2> QED BY <2>1, SolicitStart, GoingOn DEF Good, Sound
<1>2. CASE ~(s.try >= ReqMaxRC)
  <2>1. PICK u : u = Again(s, "Request", 1)
    OBVIOUS
  <2>2. /\ u \in V6Client /\ u.tm = [fn |-> "Request", ev |-> "timeout", left |-> 1] /\ u.try > 0
        /\ u.mode = s.mode /\ u.saved_mode = s.saved_mode /\ u.cs = s.cs /\ u.ip = s.ip /\ u.dad = s.dad
        /\ u.sv = s.sv /\ u.lease = s.lease /\ u.rx = s.rx /\ u.wire = s.wire
    BY <2>1, Kinds, AgainFields
  <2>3. Held(u) /\ Granted(u) /\ Together(u) /\ Driven(u) /\ Asks(u)
    BY <2>2 DEF Held, Granted, Together, Driven, Asks, LeaseBacked, Backed
  <2>4. t = DHCPv6ClientSendPacket(u)
    BY <1>2, <2>1 DEF DHCPv6Client_Request_timeout
  <2>5. t \in V6Client /\ Sound(t) /\ Driven(t) /\ Same(u, t)
    BY <2>2, <2>3, <2>4, SendStep
  <2>6. Steps(s, t) /\ t.cs = "Request"
    BY <2>2, <2>5 DEF Same, Steps
  <2> QED BY <2>5, <2>6, GoingOn DEF Good, Sound
<1> QED BY <1>1, <1>2

LEMMA RequestStart ==
    ASSUME NEW s \in V6Client, Held(s), Asks(s), LeaseBacked(s),
           user = "rtadv" => s.sv.ia # NoIA /\ s.saved_mode = "Address",
           NEW t, t = DHCPv6Client_Request_start(s)
    PROVE  Good(s, t) /\ Going(t)
<1>0. PICK u : u = [s EXCEPT !.cs = "Request", !.rx = "Request", !.try = 0, !.waited = 0, !.wire = NoMsg]
  OBVIOUS
<1>1. u \in V6Client
  <2>1. Whole(u)
    BY <1>0 DEF V6Client, Whole
  <2>2. Typed(u)
    BY <1>0, Kinds DEF V6Client, Typed
  <2> QED BY <2>1, <2>2, Members
<1>2. t = DHCPv6Client_Request_timeout(u)
  BY <1>0 DEF V6Client, DHCPv6Client_Request_start, Begin, DHCPv6ClientSetState
<1>3. /\ u.cs = "Request" /\ u.rx = "Request" /\ u.mode = s.mode /\ u.saved_mode = s.saved_mode
      /\ u.ip = s.ip /\ u.dad = s.dad /\ u.sv = s.sv /\ u.lease = s.lease
  BY <1>0 DEF V6Client
<1>4. Held(u) /\ Asks(u) /\ LeaseBacked(u)
  BY <1>3 DEF Held, Asks, LeaseBacked, Backed
<1>5. Good(u, t) /\ Going(t)
  BY <1>1, <1>2, <1>3, <1>4, RequestTimeout
<1> QED BY <1>3, <1>5 DEF Good, Steps

LEMMA RemoveAddressFields ==
    ASSUME NEW s \in V6Client, Held(s), NEW t, t = DHCPv6ClientRemoveAddress(s)
    PROVE  /\ t \in V6Client /\ t.ip = NoIA /\ t.dad = "none"
           /\ t.mode = s.mode /\ t.saved_mode = s.saved_mode /\ t.cs = s.cs /\ t.sv = s.sv
           /\ t.lease = s.lease /\ t.tm = s.tm /\ t.rx = s.rx /\ t.try = s.try /\ t.wire = s.wire
           /\ t.net = s.net /\ t.pd = s.pd /\ t.note = s.note
<1>1. CASE s.ip = NoIA
  BY <1>1 DEF Held, DHCPv6ClientRemoveAddress
<1>2. CASE s.ip # NoIA
  <2>1. t = [s EXCEPT !.ip = NoIA, !.dad = "none"]
    BY <1>2 DEF DHCPv6ClientRemoveAddress
  <2>2. Whole(t)
    BY <2>1 DEF V6Client, Whole
  <2>3. Typed(t)
    BY <2>1, Kinds DEF V6Client, Typed
  <2> QED BY <2>1, <2>2, <2>3, Members DEF V6Client
<1> QED BY <1>1, <1>2

\* An answer that grants leads to a bound client.
LEMMA SavedIsBound ==
    ASSUME NEW s \in V6Client, Held(s), Asks(s), NEW p \in ServerPacket, p.type = "REPLY", p.ia # NoIA,
           NEW t, t = DHCPv6Client_Bound(DHCPv6ClientSavePacket(s, p))
    PROVE  Good(s, t) /\ Going(t)
<1>1. PICK k : k = DHCPv6ClientSavePacket(s, p)
  OBVIOUS
<1>2. /\ k \in V6Client /\ k.sv = p /\ ~k.lease.valid
      /\ s.mode \in Stateful => k.saved_mode = s.mode
      /\ s.mode \notin Stateful => Expired(k) /\ k.saved_mode = s.mode
      /\ k.mode = s.mode /\ k.cs = s.cs /\ k.ip = s.ip /\ k.dad = s.dad
  BY <1>1, SavePacketFields
<1>3. Held(k) /\ Asks(k) /\ (Backed(k) \/ Expired(k))
  BY <1>2 DEF Held, Asks, Backed, Stateful
<1>4. t \in V6Client /\ Sound(t) /\ Driven(t) /\ Steps(k, t) /\ t.cs \in {"Bound", "Decline", "Solicit"}
  BY <1>1, <1>2, <1>3, BoundStart
<1>5. Steps(s, t)
  BY <1>2, <1>4 DEF Steps
<1> QED BY <1>4, <1>5, GoingOn DEF Good, Sound

\* A packet that is not taken changes nothing.
LEMMA Stays ==
    ASSUME NEW s \in V6Client, Sound(s), Driven(s)
    PROVE  Good(s, s)
  BY DEF Good, Steps, Sound

LEMMA RequestData ==
    ASSUME NEW s \in V6Client, Sound(s), Driven(s), Asks(s), s.rx = "Request", NEW p \in ServerPacket,
           NEW t, t = DHCPv6Client_Request_data(s, p)
    PROVE  Good(s, t) /\ Going(t)
<1>1. CASE t = s
  <2>1. s.cs = "Request"
    BY DEF Sound, Together
  <2> QED BY <1>1, <2>1, Stays, GoingOn DEF Sound
<1>2. CASE t = DHCPv6Client_Solicit_start(DHCPv6ClientRemoveAddress(s))
  <2>1. PICK r : r = DHCPv6ClientRemoveAddress(s)
    OBVIOUS
  <2>2. r \in V6Client /\ r.ip = NoIA /\ r.dad = "none" /\ r.mode = s.mode /\ r.saved_mode = s.saved_mode
    BY <2>1, RemoveAddressFields DEF Sound
  <2>3. Held(r) /\ Asks(r)
    BY <2>2 DEF Sound, Held, Asks
  <2>4. /\ t \in V6Client /\ Sound(t) /\ Driven(t) /\ Steps(r, t) /\ t.cs = "Solicit" /\ t.ip = r.ip
    BY <1>2, <2>1, <2>2, <2>3, SolicitStart
  <2>5. Steps(s, t)
    BY <2>2, <2>4 DEF Steps
  <2> QED BY <2>4, <2>5, GoingOn DEF Good, Sound
<1>3. CASE p.type = "REPLY" /\ p.ia # NoIA /\ t = DHCPv6Client_Bound(DHCPv6ClientSavePacket(s, p))
  BY <1>3, SavedIsBound DEF Sound
<1>4. p.type \in {"ADVERTISE", "REPLY"} /\ p.code \in {"Success", "NoAddrsAvail", "NotOnLink", "Other"}
  BY DEF ServerPacket, StatusCode
<1> QED BY <1>1, <1>2, <1>3, <1>4 DEF DHCPv6Client_Request_data

LEMMA RenewRebindData ==
    ASSUME NEW s \in V6Client, Sound(s), Driven(s), Asks(s), s.rx = "RenewRebind", NEW p \in ServerPacket,
           NEW t, t = DHCPv6Client_RenewRebind_data(s, p)
    PROVE  Good(s, t) /\ Going(t)
<1>1. CASE t = s
  <2>1. s.cs \in {"Renew", "Rebind"}
    BY DEF Sound, Together, V6Client, CState
  <2> QED BY <1>1, <2>1, Stays, GoingOn DEF Sound
<1>2. CASE t = DHCPv6Client_Unbound(s)
  BY <1>2, UnboundStart, GoingOn DEF Good, Sound
<1>3. CASE p.type = "REPLY" /\ p.ia # NoIA /\ t = DHCPv6Client_Bound(DHCPv6ClientSavePacket(s, p))
  BY <1>3, SavedIsBound DEF Sound
<1> QED BY <1>1, <1>2, <1>3 DEF DHCPv6Client_RenewRebind_data

LEMMA ConfirmData ==
    ASSUME NEW s \in V6Client, Sound(s), Driven(s), Asks(s), s.rx = "Confirm", NEW p \in ServerPacket,
           NEW t, t = DHCPv6Client_Confirm_data(s, p)
    PROVE  t = s \/ (Good(s, t) /\ Going(t))
<1>1. CASE t = DHCPv6Client_Unbound(s)
  BY <1>1, UnboundStart, GoingOn DEF Good, Sound
<1>2. CASE p.type = "REPLY" /\ p.ia # NoIA /\ t = DHCPv6Client_Bound(DHCPv6ClientSavePacket(s, p))
  BY <1>2, SavedIsBound DEF Sound
<1>3. CASE t = DHCPv6Client_Bound(s)
  <2>1. Backed(s) \/ Expired(s)
    BY DEF Sound, Granted
  <2> QED BY <1>3, <2>1, BoundStart, GoingOn DEF Good, Sound
<1> QED BY <1>1, <1>2, <1>3 DEF DHCPv6Client_Confirm_data

\* Nothing is kept of an exchange that is given up on an inactive link.
LEMMA InactiveGood ==
    ASSUME NEW s \in V6Client, Sound(s), s.cs \in {"Inform", "Solicit", "Confirm"},
           NEW t, t = DHCPv6ClientInactive(s)
    PROVE  Good(s, t)
<1>0. t = [s EXCEPT !.rx = "None", !.tm = NoTimer, !.ip = NoIA, !.dad = "none",
                    !.lease = NoLease, !.sv = NoPacket, !.saved_mode = "None", !.note = TRUE]
  BY DEF V6Client, Sound, Held, DHCPv6ClientInactive, DHCPv6ClientPostNotification, DHCPv6ClientClearPacket,
         DHCPv6ClientRemoveAddress, DHCPv6ClientCancelPendingEvents
<1>1. t \in V6Client
  <2>1. Whole(t)
    BY <1>0 DEF V6Client, Whole
  <2>2. Typed(t)
    BY <1>0, Kinds DEF V6Client, Typed
  <2> QED BY <2>1, <2>2, Members
<1>2. /\ t.cs = s.cs /\ t.rx = "None" /\ t.tm = NoTimer /\ t.mode = s.mode /\ t.saved_mode = "None"
      /\ t.ip = NoIA /\ t.dad = "none" /\ t.sv = NoPacket /\ t.lease = NoLease
  BY <1>0 DEF V6Client
<1>3. Held(t) /\ Granted(t) /\ Together(t) /\ Spoken(t) /\ Driven(t) /\ Steps(s, t)
  BY <1>2 DEF Sound, Held, Granted, Together, Spoken, Driven, Steps, NoTimer, NoLease
<1> QED BY <1>1, <1>3 DEF Good, Sound

LEMMA SolicitTimeout ==
    ASSUME NEW s \in V6Client, Sound(s), Asks(s), s.rx = "Solicit",
           NEW t, t = DHCPv6Client_Solicit_timeout(s)
    PROVE  Good(s, t) /\ (link => Going(t))
<1>1. s.cs = "Solicit"
  BY DEF Sound, Together
<1>2. CASE ~link /\ t = DHCPv6ClientInactive(s)
  BY <1>1, <1>2, InactiveGood
<1>3. CASE s.sv # NoPacket /\ t = DHCPv6Client_Request_start(s)
  <2>1. user = "rtadv" => s.sv.ia # NoIA /\ s.saved_mode = "Address"
    BY <1>3 DEF Sound, Spoken, Asks
  <2>2. Held(s) /\ LeaseBacked(s)
    BY DEF Sound, Granted, LeaseBacked
  <2> QED BY <1>3, <2>1, <2>2, RequestStart
<1>4. CASE t = DHCPv6ClientSendSolicit(Again(s, "Solicit", 1)) /\ s.sv = NoPacket
  <2>1. PICK u : u = Again(s, "Solicit", 1)
    OBVIOUS
  <2>2. /\ u \in V6Client /\ u.tm = [fn |-> "Solicit", ev |-> "timeout", left |-> 1] /\ u.try > 0
        /\ u.mode = s.mode /\ u.saved_mode = s.saved_mode /\ u.cs = s.cs /\ u.ip = s.ip /\ u.dad = s.dad
        /\ u.sv = s.sv /\ u.lease = s.lease /\ u.rx = s.rx
    BY <2>1, Kinds, AgainFields
  <2>3. PICK w \in Message : t = [u EXCEPT !.wire = w] /\ (s.mode \in Stateful => w.type = "SOLICIT")
    <3>1. CASE u.mode \notin Stateful
      <4>1. t = [u EXCEPT !.wire = u.wire] /\ u.wire \in Message
        BY <1>4, <2>1, <2>2, <3>1 DEF V6Client, DHCPv6ClientSendSolicit
      <4> QED BY <2>2, <3>1, <4>1
    <3>2. CASE u.mode \in Stateful
      <4>1. PICK o : o = DHCPv6ClientMakePacket(u, "SOLICIT") \cup AddIA(u, TRUE)
        OBVIOUS
      <4>2. o \in SUBSET Option
        BY <4>1 DEF DHCPv6ClientMakePacket, DHCPv6ClientAddFQDNOption, DHCPv6ClientAddOptionRequestOption,
                    AddIA, add_ia_na_option, add_ia_pd_option, Option
      <4>3. [type |-> "SOLICIT", opts |-> o] \in Message
        BY <4>2 DEF Message, MsgType
      <4>4. t = [u EXCEPT !.wire = [type |-> "SOLICIT", opts |-> o]]
        BY <1>4, <2>1, <3>2, <4>1 DEF DHCPv6ClientSendSolicit
      <4> QED BY <4>3, <4>4
    <3> QED BY <3>1, <3>2
  <2>4. /\ t \in V6Client /\ t.tm = u.tm /\ t.try = u.try /\ t.wire = w
        /\ t.mode = s.mode /\ t.saved_mode = s.saved_mode /\ t.cs = "Solicit" /\ t.ip = s.ip /\ t.dad = s.dad
        /\ t.sv = NoPacket /\ t.lease = s.lease /\ t.rx = "Solicit"
    BY <1>1, <1>4, <2>2, <2>3, Resent DEF V6Client
  <2>5. Held(t) /\ Granted(t) /\ Together(t) /\ Driven(t) /\ Steps(s, t)
    BY <1>4, <2>2, <2>4 DEF Sound, Held, Granted, Together, Driven, Steps, Backed, Expired
  <2>6. Spoken(t)
    BY <2>2, <2>3, <2>4 DEF Spoken, Asks, Stateful
  <2> QED BY <2>4, <2>5, <2>6, GoingOn DEF Good, Sound
<1> QED BY <1>2, <1>3, <1>4 DEF DHCPv6Client_Solicit_timeout

LEMMA SolicitData ==
    ASSUME NEW s \in V6Client, Sound(s), Driven(s), Asks(s), s.rx = "Solicit", NEW p \in ServerPacket,
           NEW t, t = DHCPv6Client_Solicit_data(s, p)
    PROVE  Good(s, t) /\ Going(t)
<1>1. s.cs = "Solicit"
  BY DEF Sound, Together
<1>2. CASE t = s
  BY <1>1, <1>2, Stays, GoingOn DEF Sound
<1>3. PICK k : k = DHCPv6ClientSavePacket(s, p)
  OBVIOUS
<1>4. CASE t # s
  <2>1. s.mode \in Stateful /\ p.ia # NoIA /\ t \in {k, DHCPv6Client_Request_start(k)}
    BY <1>3, <1>4 DEF DHCPv6Client_Solicit_data
  <2>2. /\ k \in V6Client /\ k.sv = p /\ ~k.lease.valid /\ k.saved_mode = s.mode
        /\ k.mode = s.mode /\ k.cs = s.cs /\ k.ip = s.ip /\ k.dad = s.dad /\ k.tm = s.tm
        /\ k.rx = s.rx /\ k.try = s.try /\ k.wire = s.wire
    BY <1>3, <2>1, SavePacketFields
  <2>3. Held(k) /\ Asks(k) /\ LeaseBacked(k)
    BY <2>2 DEF Sound, Held, Asks, LeaseBacked
  <2>4. CASE t = k
    <3>1. Granted(k) /\ Together(k) /\ Driven(k) /\ Steps(s, k)
      BY <1>1, <2>2 DEF Sound, Granted, Together, Driven, Steps
    <3>2. Spoken(k)
      BY <2>1, <2>2 DEF Sound, Spoken
    <3> QED BY <1>1, <2>2, <2>3, <2>4, <3>1, <3>2, GoingOn DEF Good, Sound
  <2>5. CASE t = DHCPv6Client_Request_start(k)
    <3>1. user = "rtadv" => k.sv.ia # NoIA /\ k.saved_mode = "Address"
      BY <2>1, <2>2 DEF Asks
    <3>2. Good(k, t) /\ Going(t)
      BY <2>2, <2>3, <2>5, <3>1, RequestStart
    <3> QED BY <2>2, <3>2 DEF Good, Steps
  <2> QED BY <2>1, <2>4, <2>5
<1> QED BY <1>2, <1>4

LEMMA DeclineTimeout ==
    ASSUME NEW s \in V6Client, Sound(s), Asks(s), s.rx = "Decline",
           NEW t, t = DHCPv6Client_Decline_timeout(s)
    PROVE  Good(s, t) /\ Going(t)
<1>1. CASE s.try >= DecMaxRC
  <2>1. t = DHCPv6Client_Solicit_start(s)
    BY <1>1 DEF DHCPv6Client_Decline_timeout
  <2> QED BY <2>1, SolicitStart, GoingOn DEF Good, Sound
<1>2. CASE ~(s.try >= DecMaxRC)
  <2>1. PICK u : u = Again(s, "Decline", 1)
    OBVIOUS
  <2>2. /\ u \in V6Client /\ u.tm = [fn |-> "Decline", ev |-> "timeout", left |-> 1] /\ u.try > 0
        /\ u.mode = s.mode /\ u.saved_mode = s.saved_mode /\ u.cs = s.cs /\ u.ip = s.ip /\ u.dad = s.dad
        /\ u.sv = s.sv /\ u.lease = s.lease /\ u.rx = s.rx /\ u.wire = s.wire
    BY <2>1, Kinds, AgainFields
  <2>3. s.cs = "Decline" /\ s.try > 0
    BY DEF Sound, Together
  <2>4. Held(u) /\ Granted(u) /\ Together(u) /\ Driven(u) /\ Asks(u)
    BY <2>2, <2>3 DEF Sound, Held, Granted, Together, Driven, Asks, Backed
  <2>5. user = "rtadv" =>
            \/ u.wire.type # "none" /\ "assignment" \in u.wire.opts
            \/ u.rx = "Decline" /\ u.sv = NoPacket
    BY <2>2, <2>3 DEF Sound, Spoken
  <2>6. t = DHCPv6ClientSendPacket(u)
    BY <1>2, <2>1 DEF DHCPv6Client_Decline_timeout
  <2>7. t \in V6Client /\ Sound(t) /\ Driven(t) /\ Same(u, t)
    BY <2>2, <2>3, <2>4, <2>5, <2>6, SendStep
  <2>8. Steps(s, t) /\ t.cs = "Decline"
    BY <2>2, <2>3, <2>7 DEF Same, Steps
  <2> QED BY <2>7, <2>8, GoingOn DEF Good, Sound
<1> QED BY <1>1, <1>2

LEMMA ConfirmTimeout ==
    ASSUME NEW s \in V6Client, Sound(s), Asks(s), s.rx = "Confirm",
           NEW t, t = DHCPv6Client_Confirm_timeout(s)
    PROVE  Good(s, t) /\ (link => Going(t))
<1>1. s.cs = "Confirm"
  BY DEF Sound, Together
<1>2. CASE ~link /\ t = DHCPv6ClientInactive(s)
  BY <1>1, <1>2, InactiveGood
<1>3. CASE DHCPv6ClientLeaseStillValid(s) /\ t = DHCPv6Client_Bound(s)
  <2>1. Backed(s)
    BY <1>3 DEF Sound, Granted, DHCPv6ClientLeaseStillValid
  <2> QED BY <1>3, <2>1, BoundStart, GoingOn DEF Good, Sound
<1>4. CASE t = DHCPv6Client_Solicit_start(Tested(s))
  <2>1. PICK v : v = Tested(s)
    OBVIOUS
  <2>2. v \in V6Client /\ v.mode = s.mode /\ v.ip = s.ip /\ v.dad = s.dad /\ v.saved_mode \in {s.saved_mode, "None"}
    BY <2>1, TestedFields
  <2>3. Held(v) /\ Asks(v)
    BY <2>2 DEF Sound, Held, Asks
  <2>4. t \in V6Client /\ Sound(t) /\ Driven(t) /\ Steps(v, t) /\ t.cs = "Solicit" /\ t.ip = v.ip
    BY <1>4, <2>1, <2>2, <2>3, SolicitStart
  <2> QED BY <2>2, <2>4, GoingOn DEF Good, Sound, Steps
<1>5. CASE t = DHCPv6ClientSendPacket(Again(s, "Confirm", 1))
  <2>1. PICK u : u = Again(s, "Confirm", 1)
    OBVIOUS
  <2>2. /\ u \in V6Client /\ u.tm = [fn |-> "Confirm", ev |-> "timeout", left |-> 1] /\ u.try > 0
        /\ u.mode = s.mode /\ u.saved_mode = s.saved_mode /\ u.cs = s.cs /\ u.ip = s.ip /\ u.dad = s.dad
        /\ u.sv = s.sv /\ u.lease = s.lease /\ u.rx = s.rx /\ u.wire = s.wire
    BY <2>1, Kinds, AgainFields
  <2>3. Held(u) /\ Granted(u) /\ Together(u) /\ Driven(u) /\ Asks(u)
    BY <1>1, <2>2 DEF Sound, Held, Granted, Together, Driven, Asks, Backed, Expired
  <2>4. user = "rtadv" =>
            \/ u.sv.ia # NoIA /\ u.saved_mode = "Address"
            \/ u.wire.type # "none" /\ "assignment" \in u.wire.opts
    <3>1. CASE s.try = 0
      <4>1. Backed(s) /\ Held(s)
        BY <3>1 DEF Sound, Granted
      <4> QED BY <2>2, <4>1 DEF Backed, Held, Stateful
    <3>2. CASE s.try > 0
      BY <2>2, <3>2 DEF Sound, Spoken
    <3> QED BY <3>1, <3>2 DEF V6Client
  <2>5. t \in V6Client /\ Sound(t) /\ Driven(t) /\ Same(u, t)
    BY <1>1, <1>5, <2>1, <2>2, <2>3, <2>4, SendStep
  <2>6. Steps(s, t) /\ t.try > 0 /\ t.tm.fn = "Confirm"
    BY <1>1, <2>2, <2>5 DEF Same, Steps
  <2>7. Going(t)
    BY <2>6 DEF Going
  <2> QED BY <2>5, <2>6, <2>7 DEF Good
<1> QED BY <1>2, <1>3, <1>4, <1>5 DEF DHCPv6Client_Confirm_timeout

LEMMA InformStart ==
    ASSUME NEW s \in V6Client, Held(s), s.mode = "Stateless",
           NEW t, t = DHCPv6Client_Inform_start(s)
    PROVE  Good(s, t) /\ Going(t) /\ t.rx = "Inform" /\ t.ip = s.ip /\ t.sv = NoPacket
<1>1. t = [s EXCEPT !.cs = "Inform", !.lease = NoLease, !.sv = NoPacket, !.saved_mode = "None",
                    !.rx = "Inform", !.try = 0, !.waited = 0, !.wire = NoMsg,
                    !.tm = [fn |-> "Inform", ev |-> "timeout", left |-> 0]]
  BY DEF V6Client, DHCPv6Client_Inform_start, set_timer, Begin, DHCPv6ClientClearPacket, DHCPv6ClientSetState
<1>2. t \in V6Client
  <2>1. Whole(t)
    BY <1>1 DEF V6Client, Whole
  <2>2. Typed(t)
    BY <1>1, Kinds DEF V6Client, Typed
  <2> QED BY <2>1, <2>2, Members
<1>3. /\ t.cs = "Inform" /\ t.rx = "Inform" /\ t.try = 0 /\ t.lease = NoLease /\ t.sv = NoPacket
      /\ t.saved_mode = "None" /\ t.mode = s.mode /\ t.ip = s.ip /\ t.dad = s.dad
      /\ t.tm = [fn |-> "Inform", ev |-> "timeout", left |-> 0]
  BY <1>1 DEF V6Client
<1>4. Held(t) /\ Granted(t) /\ Together(t) /\ Driven(t) /\ Steps(s, t) /\ Spoken(t) /\ Going(t)
  BY <1>3 DEF Held, Granted, Together, Driven, Steps, Spoken, Going, NoLease
<1> QED BY <1>2, <1>3, <1>4 DEF Good, Sound

LEMMA InformTimeout ==
    ASSUME NEW s \in V6Client, Sound(s), s.rx = "Inform",
           NEW t, t = DHCPv6Client_Inform_timeout(s)
    PROVE  Good(s, t) /\ (link => Going(t))
<1>1. s.cs = "Inform" /\ s.mode = "Stateless"
  BY DEF Sound, Together
<1>2. CASE ~link /\ t = DHCPv6ClientInactive(s)
  BY <1>1, <1>2, InactiveGood
<1>3. CASE t = DHCPv6ClientSendInform(Again(s, "Inform", 1))
  <2>1. PICK u : u = Again(s, "Inform", 1)
    OBVIOUS
  <2>2. /\ u \in V6Client /\ u.tm = [fn |-> "Inform", ev |-> "timeout", left |-> 1] /\ u.try > 0
        /\ u.mode = s.mode /\ u.saved_mode = s.saved_mode /\ u.cs = s.cs /\ u.ip = s.ip /\ u.dad = s.dad
        /\ u.sv = s.sv /\ u.lease = s.lease /\ u.rx = s.rx
    BY <2>1, Kinds, AgainFields
  <2>3. PICK o : o = DHCPv6ClientMakePacket(u, "INFORMATION_REQUEST")
    OBVIOUS
  <2>4. o \in SUBSET Option
    BY <2>3 DEF DHCPv6ClientMakePacket, DHCPv6ClientAddFQDNOption, DHCPv6ClientAddOptionRequestOption, Option
  <2>5. PICK w \in Message : w = [type |-> "INFORMATION_REQUEST", opts |-> o]
    BY <2>4 DEF Message, MsgType
  <2>6. t = [u EXCEPT !.wire = w]
    BY <1>3, <2>1, <2>3, <2>5 DEF DHCPv6ClientSendInform
  <2>7. /\ t \in V6Client /\ t.tm = u.tm /\ t.try = u.try /\ t.wire.type # "none"
        /\ t.mode = "Stateless" /\ t.saved_mode = s.saved_mode /\ t.cs = "Inform" /\ t.ip = s.ip /\ t.dad = s.dad
        /\ t.sv = s.sv /\ t.lease = s.lease /\ t.rx = "Inform"
    BY <1>1, <2>2, <2>5, <2>6, Resent DEF V6Client
  <2>8. Held(t) /\ Granted(t) /\ Together(t) /\ Driven(t) /\ Steps(s, t) /\ Spoken(t) /\ Going(t)
    BY <1>1, <2>2, <2>7 DEF Sound, Held, Granted, Together, Driven, Steps, Spoken, Going, Backed, Stateful
  <2> QED BY <2>7, <2>8 DEF Good, Sound
<1> QED BY <1>2, <1>3 DEF DHCPv6Client_Inform_timeout

LEMMA InformData ==
    ASSUME NEW s \in V6Client, Sound(s), Driven(s), s.rx = "Inform", NEW p \in ServerPacket,
           NEW t, t = DHCPv6Client_Inform_data(s, p)
    PROVE  t = s \/ (Good(s, t) /\ Going(t))
<1>1. CASE t # s
  <2>1. PICK k : k = DHCPv6ClientSavePacket(s, p)
    OBVIOUS
  <2>2. /\ k \in V6Client /\ k.sv = p /\ ~k.lease.valid
        /\ k.mode = s.mode /\ k.cs = s.cs /\ k.ip = s.ip /\ k.dad = s.dad /\ k.saved_mode \in {s.mode, "None"}
    BY <2>1, SavePacketFields
  <2>3. t = [k EXCEPT !.note = TRUE, !.cs = "InformComplete", !.rx = "None", !.tm = NoTimer]
    BY <1>1, <2>1, <2>2 DEF V6Client, DHCPv6Client_Inform_data, DHCPv6Client_InformComplete,
       DHCPv6ClientPostNotification, DHCPv6ClientSetState, DHCPv6ClientCancelPendingEvents
  <2>4. t \in V6Client
    <3>1. Whole(t)
      BY <2>2, <2>3 DEF V6Client, Whole
    <3>2. "InformComplete" \in CState
      BY DEF CState
    <3>3. Typed(t)
      BY <2>2, <2>3, <3>2, Kinds DEF V6Client, Typed
    <3> QED BY <3>1, <3>3, Members
  <2>5. /\ t.cs = "InformComplete" /\ t.rx = "None" /\ t.tm = NoTimer /\ t.mode = s.mode
        /\ t.ip = s.ip /\ t.dad = s.dad /\ t.saved_mode \in {s.mode, "None"} /\ ~t.lease.valid
    BY <2>2, <2>3 DEF V6Client
  <2>6. s.mode = "Stateless"
    BY DEF Sound, Together
  <2>7. Held(t) /\ Granted(t) /\ Together(t) /\ Driven(t) /\ Steps(s, t) /\ Spoken(t) /\ Going(t)
    BY <2>5, <2>6 DEF Sound, Held, Granted, Together, Driven, Steps, Spoken, Going, Stateful, NoTimer
  <2> QED BY <2>4, <2>7 DEF Good, Sound
<1> QED BY <1>1

-----------------------------------------------------------------------------
(* What the owner of the client calls                                      *)

\* A client that was stopped keeps the packet and nothing else.
LEMMA StopFields ==
    ASSUME NEW s \in V6Client, Sound(s), NEW t, t = DHCPv6ClientStop(s)
    PROVE  /\ t \in V6Client /\ Sound(t) /\ Driven(t)
           /\ t.mode = "None" /\ t.cs = "Inactive" /\ t.rx = "None" /\ t.tm = NoTimer
           /\ t.ip = NoIA /\ t.dad = "none" /\ t.sv = s.sv /\ t.lease = s.lease /\ t.saved_mode = s.saved_mode
<1>1. PICK r : r = DHCPv6ClientRemoveAddress(s)
  OBVIOUS
<1>2. /\ r \in V6Client /\ r.ip = NoIA /\ r.dad = "none"
      /\ r.saved_mode = s.saved_mode /\ r.sv = s.sv /\ r.lease = s.lease
  BY <1>1, RemoveAddressFields DEF Sound
<1>3. t = [r EXCEPT !.rx = "None", !.tm = NoTimer, !.pd = NoIA, !.cs = "Inactive", !.mode = "None", !.note = TRUE]
  BY <1>1, <1>2 DEF V6Client, DHCPv6ClientStop, DHCPv6ClientPostNotification, DHCPv6ClientCancelPendingEvents
<1>4. t \in V6Client
  <2>1. Whole(t)
    BY <1>2, <1>3 DEF V6Client, Whole
  <2>2. Typed(t)
    BY <1>2, <1>3, Kinds DEF V6Client, Typed
  <2> QED BY <2>1, <2>2, Members
<1>5. /\ t.mode = "None" /\ t.cs = "Inactive" /\ t.rx = "None" /\ t.tm = NoTimer
      /\ t.ip = NoIA /\ t.dad = "none" /\ t.sv = s.sv /\ t.lease = s.lease /\ t.saved_mode = s.saved_mode
  BY <1>2, <1>3 DEF V6Client
<1>6. Held(t) /\ Granted(t) /\ Together(t) /\ Driven(t) /\ Spoken(t)
  BY <1>5 DEF Sound, Held, Granted, Together, Driven, Spoken, Backed, NoTimer
<1> QED BY <1>4, <1>5, <1>6 DEF Sound

LEMMA StartGood ==
    ASSUME NEW s \in V6Client, Sound(s), s.mode # "None", NEW t, t = DHCPv6ClientStartInternal(s)
    PROVE  /\ Good(s, t) /\ Going(t) /\ t.rx # "None" /\ t.ip = s.ip
           /\ s.mode = "Stateless" => t.sv = NoPacket
<1>1. CASE s.mode = "Stateless"
  <2>1. t = DHCPv6Client_Inform_start(s)
    BY <1>1 DEF DHCPv6ClientStartInternal, Stateful
  <2> QED BY <1>1, <2>1, InformStart DEF Sound
<1>2. CASE s.mode \in Stateful
  <2>1. Asks(s) /\ Held(s)
    BY <1>2 DEF Asks, Sound, Held, Stateful
  <2>2. CASE DHCPv6ClientSavedInfoValid(s) /\ DHCPv6ClientLeaseStillValid(s) /\ DHCPv6ClientLeaseOnSameNetwork(s)
    <3>1. t = DHCPv6Client_Confirm_start(s)
      BY <1>2, <2>2 DEF DHCPv6ClientStartInternal, Stateful
    <3>2. LeaseBacked(s) /\ Backed(s)
      BY <2>2 DEF Sound, Granted, LeaseBacked, DHCPv6ClientLeaseStillValid
    <3>3. /\ t \in V6Client /\ Sound(t) /\ Driven(t) /\ Steps(s, t) /\ t.tm.fn = "Confirm"
          /\ t.rx = "Confirm" /\ t.ip = s.ip /\ t.lease = s.lease
      BY <2>1, <3>1, <3>2, ConfirmStart
    <3> QED BY <1>2, <2>2, <3>3 DEF Good, Going, DHCPv6ClientLeaseStillValid, Expired, Stateful
  <2>3. CASE ~(DHCPv6ClientSavedInfoValid(s) /\ DHCPv6ClientLeaseStillValid(s) /\ DHCPv6ClientLeaseOnSameNetwork(s))
    <3>1. PICK v : v = IF DHCPv6ClientSavedInfoValid(s) THEN Tested(s) ELSE s
      OBVIOUS
    <3>2. v \in V6Client /\ v.mode = s.mode /\ v.ip = s.ip /\ v.dad = s.dad /\ v.saved_mode \in {s.saved_mode, "None"}
      BY <3>1, TestedFields
    <3>3. t = DHCPv6Client_Solicit_start(v)
      BY <1>2, <2>3, <3>1 DEF DHCPv6ClientStartInternal, Stateful
    <3>4. Held(v) /\ Asks(v)
      BY <2>1, <3>2 DEF Held, Asks
    <3>5. t \in V6Client /\ Sound(t) /\ Driven(t) /\ Steps(v, t) /\ t.cs = "Solicit" /\ t.rx = "Solicit" /\ t.ip = v.ip
      BY <3>2, <3>3, <3>4, SolicitStart
    <3> QED BY <1>2, <3>2, <3>5, GoingOn DEF Good, Sound, Steps, Stateful
  <2> QED BY <2>2, <2>3
<1> QED BY <1>1, <1>2, Kinds DEF V6Client, Stateful

\* A lease that was tested is good, or what was kept is gone.
LEMMA TestedGood ==
    ASSUME NEW s \in V6Client, Sound(s), Driven(s), s.rx = "Confirm" => s.try > 0 \/ DHCPv6ClientLeaseStillValid(s),
           NEW t, t = Tested(s)
    PROVE  Good(s, t) /\ (Going(s) => Going(t)) /\ t.ip = s.ip
<1>1. CASE t = s
  BY <1>1, Stays
<1>2. CASE t # s
  <2>1. /\ t \in V6Client /\ s.lease.valid /\ ~DHCPv6ClientLeaseStillValid(s)
        /\ t.lease = NoLease /\ t.sv = NoPacket /\ t.saved_mode = "None" /\ Expired(t)
        /\ t.mode = s.mode /\ t.cs = s.cs /\ t.ip = s.ip /\ t.dad = s.dad /\ t.tm = s.tm
        /\ t.rx = s.rx /\ t.try = s.try /\ t.wire = s.wire
    BY <1>2, TestedFields
  <2>2. ~s.lease.inf
    BY <2>1 DEF DHCPv6ClientLeaseStillValid, Expired
  <2>3. s.rx = "Confirm" => ~(s.try = 0)
    BY <2>1 DEF V6Client
  <2>4. Held(t) /\ Granted(t) /\ Together(t) /\ Steps(s, t)
    BY <2>1, <2>3 DEF Sound, Held, Granted, Together, Steps, NoLease
  <2>5. Driven(t) /\ (Going(s) => Going(t))
    BY <2>1, <2>2, <2>3 DEF Driven, Going
  <2>6. Spoken(t)
    BY <2>1 DEF Sound, Spoken
  <2> QED BY <2>1, <2>4, <2>5, <2>6 DEF Good, Sound
<1> QED BY <1>1, <1>2

LEMMA RoamGood ==
    ASSUME NEW s \in V6Client, Sound(s), Driven(s), Asks(s), Going(s), NEW t, t = DHCPv6ClientHandleRoam(s)
    PROVE  Good(s, t) /\ Going(t)
<1>1. CASE t = DHCPv6Client_Confirm_start(s) /\ DHCPv6ClientLeaseStillValid(s)
  <2>1. Held(s) /\ LeaseBacked(s) /\ Backed(s)
    BY <1>1 DEF Sound, Granted, LeaseBacked, DHCPv6ClientLeaseStillValid
  <2>2. t \in V6Client /\ Sound(t) /\ Driven(t) /\ Steps(s, t) /\ t.tm.fn = "Confirm" /\ t.lease = s.lease
    BY <1>1, <2>1, ConfirmStart
  <2> QED BY <1>1, <2>2 DEF Good, Going, DHCPv6ClientLeaseStillValid, Expired
<1>2. CASE t = Tested(s)
  <2>1. s.rx = "Confirm" => s.try > 0 \/ DHCPv6ClientLeaseStillValid(s)
    BY DEF Going, V6Client
  <2> QED BY <1>2, <2>1, TestedGood
<1> QED BY <1>1, <1>2 DEF DHCPv6ClientHandleRoam

\* An event of the link; prefix delegation sets its mode.
LEMMA LinkGood ==
    ASSUME NEW s \in V6Client, Sound(s), Driven(s), NEW up \in BOOLEAN, NEW t, t = HandleLinkStatusRenew(s, up)
    PROVE  /\ t \in V6Client /\ Sound(t) /\ Driven(t)
           /\ user = "rtadv" => Steps(s, t) /\ t.ip = s.ip /\ (s.mode = "None" => t = s)
           /\ t.cs = "Bound" /\ t.mode = "Address" /\ t.dad = "duplicated" =>
                 s.cs = "Bound" /\ s.mode = "Address" /\ s.dad = "duplicated"
           /\ up /\ user \in {"rtadv", "pd"} => Going(t)
<1>1. PICK q : q = IF user = "pd" THEN DHCPv6ClientSetMode(s, "Prefix") ELSE s
  OBVIOUS
<1>2. /\ q \in V6Client /\ Sound(q) /\ Driven(q)
      /\ user # "pd" => q = s
      /\ user = "pd" => q.mode # "None"
      /\ q = s \/ (s.mode = "None" /\ q.mode = "Prefix" /\ user = "pd")
  <2>1. CASE q = s /\ (user = "pd" => s.mode # "None")
    BY <2>1
  <2>2. CASE user = "pd" /\ s.mode = "None" /\ q = [s EXCEPT !.mode = "Prefix"]
    <3>1. Whole(q)
      BY <2>2 DEF V6Client, Whole
    <3>2. Typed(q)
      BY <2>2, Kinds DEF V6Client, Typed
    <3>3. /\ q.mode = "Prefix" /\ q.saved_mode = s.saved_mode /\ q.cs = s.cs /\ q.ip = s.ip /\ q.dad = s.dad
          /\ q.sv = s.sv /\ q.lease = s.lease /\ q.tm = s.tm /\ q.rx = s.rx /\ q.try = s.try /\ q.wire = s.wire
      BY <2>2 DEF V6Client
    <3>4. Held(q) /\ Granted(q) /\ Together(q) /\ Driven(q) /\ Spoken(q)
      BY <2>2, <3>3 DEF Sound, Held, Granted, Together, Driven, Spoken, Backed, Expired
    <3> QED BY <2>2, <3>1, <3>2, <3>3, <3>4, Members DEF Sound
  <2> QED BY <1>1, <2>1, <2>2 DEF DHCPv6ClientSetMode
<1>3. CASE up /\ (user = "pd" \/ s.mode = "Address")
  <2>1. t = DHCPv6ClientStartInternal(q) /\ q.mode # "None"
    BY <1>1, <1>2, <1>3 DEF HandleLinkStatusRenew
  <2>2. Good(q, t) /\ Going(t) /\ t.ip = q.ip
    BY <1>2, <2>1, StartGood
  <2> QED BY <1>2, <1>3, <2>2 DEF Good, Steps
<1>4. CASE ~(up /\ (user = "pd" \/ s.mode = "Address"))
  <2>1. t = q
    BY <1>1, <1>4 DEF HandleLinkStatusRenew
  <2>2. up /\ user \in {"rtadv", "pd"} => Going(t)
    BY <1>2, <1>4, <2>1, Kinds DEF Going, Sound, Held, Spoken, Stateful, V6Client
  <2> QED BY <1>2, <2>1, <2>2, Stays DEF Good
<1> QED BY <1>3, <1>4

\* A wake on the same network or on another one.
LEMMA WakeGood ==
    ASSUME NEW s \in V6Client, Sound(s), Driven(s), Asks(s), NEW up \in BOOLEAN, NEW changed \in BOOLEAN,
           NEW roamed \in BOOLEAN, NEW t, t = DHCPv6ClientHandleWake(s, up, changed, roamed)
    PROVE  Good(s, t) /\ (up => Going(t)) /\ t.ip \in {s.ip, NoIA}
<1>1. PICK r : r = DHCPv6ClientRemoveAddress(s)
  OBVIOUS
<1>2. /\ r \in V6Client /\ r.ip = NoIA /\ r.dad = "none"
      /\ r.mode = s.mode /\ r.saved_mode = s.saved_mode /\ r.cs = s.cs /\ r.sv = s.sv
      /\ r.lease = s.lease /\ r.tm = s.tm /\ r.rx = s.rx /\ r.try = s.try /\ r.wire = s.wire
  BY <1>1, RemoveAddressFields DEF Sound
<1>3. Held(r) /\ Granted(r) /\ Together(r) /\ Spoken(r) /\ Driven(r) /\ Steps(s, r) /\ Asks(r)
  BY <1>2 DEF Sound, Held, Granted, Together, Spoken, Driven, Steps, Asks, Backed, Expired
<1>4. CASE ~up \/ (changed /\ s.cs = "Solicit")
  <2>1. t = r
    BY <1>1, <1>4 DEF DHCPv6ClientHandleWake
  <2> QED BY <1>2, <1>3, <1>4, <2>1, GoingOn DEF Good, Sound
<1>5. CASE up /\ changed /\ s.cs # "Solicit"
  <2>1. t = DHCPv6Client_Solicit_start(r)
    BY <1>1, <1>5 DEF DHCPv6ClientHandleWake
  <2>2. t \in V6Client /\ Sound(t) /\ Driven(t) /\ Steps(r, t) /\ t.cs = "Solicit" /\ t.ip = r.ip
    BY <1>2, <1>3, <2>1, SolicitStart
  <2> QED BY <1>2, <2>2, GoingOn DEF Good, Sound, Steps
<1>6. CASE up /\ ~changed /\ ~DHCPv6ClientLeaseStillValid(s)
  <2>1. PICK v : v = Tested(s)
    OBVIOUS
  <2>2. /\ v \in V6Client /\ v.mode = s.mode /\ v.ip = s.ip /\ v.dad = s.dad /\ v.cs = s.cs
        /\ v = s \/ v.saved_mode = "None"
    BY <2>1, TestedFields
  <2>3. CASE s.cs = "Solicit"
    <3>1. t = v
      BY <1>6, <2>1, <2>3 DEF DHCPv6ClientHandleWake
    <3>2. s.rx # "Confirm"
      BY <2>3 DEF Sound, Together
    <3>3. Good(s, t)
      BY <2>1, <3>1, <3>2, TestedGood
    <3> QED BY <2>2, <2>3, <3>1, <3>3, GoingOn DEF Good, Sound
  <2>4. CASE s.cs # "Solicit"
    <3>1. t = DHCPv6Client_Unbound(v)
      BY <1>6, <2>1, <2>4 DEF DHCPv6ClientHandleWake
    <3>2. Held(v) /\ Asks(v)
      BY <2>2 DEF Sound, Held, Asks
    <3>3. t \in V6Client /\ Sound(t) /\ Driven(t) /\ Steps(v, t) /\ t.cs = "Solicit" /\ t.ip = NoIA
      BY <2>2, <3>1, <3>2, UnboundStart
    <3> QED BY <2>2, <3>3, GoingOn DEF Good, Sound, Steps
  <2> QED BY <2>3, <2>4
<1>7. CASE up /\ ~changed /\ DHCPv6ClientLeaseStillValid(s)
  <2>1. Held(s) /\ LeaseBacked(s) /\ Backed(s)
    BY <1>7 DEF Sound, Granted, LeaseBacked, DHCPv6ClientLeaseStillValid
  <2>2. CASE t = DHCPv6Client_Confirm_start(s)
    <3>1. t \in V6Client /\ Sound(t) /\ Driven(t) /\ Steps(s, t) /\ t.tm.fn = "Confirm" /\ t.lease = s.lease /\ t.ip = s.ip
      BY <2>1, <2>2, ConfirmStart
    <3> QED BY <1>7, <3>1 DEF Good, Going, DHCPv6ClientLeaseStillValid, Expired
  <2>3. CASE t = s /\ s.cs \in {"Bound", "Renew", "Rebind"}
    BY <2>3, Stays, GoingOn DEF Sound
  <2>4. CASE t = set_timer(s, "RenewRebind", "start", s.rrt) /\ s.cs \in {"Bound", "Renew", "Rebind"}
    <3>1. PICK x : x = [fn |-> "RenewRebind", ev |-> "start", left |-> s.rrt]
      OBVIOUS
    <3>2. t = [s EXCEPT !.tm = x]
      BY <2>4, <3>1 DEF set_timer
    <3>3. s.rrt \in Nat
      BY DEF V6Client
    <3>4. x \in V6Timer
      BY <3>1, <3>3, Kinds
    <3>5. /\ t \in V6Client /\ t.tm = x /\ t.mode = s.mode /\ t.saved_mode = s.saved_mode /\ t.cs = s.cs
          /\ t.ip = s.ip /\ t.dad = s.dad /\ t.sv = s.sv /\ t.lease = s.lease /\ t.rx = s.rx
          /\ t.try = s.try /\ t.wire = s.wire
      BY <3>2, <3>4 DEF V6Client
    <3>6. s.rx \in {"None", "RenewRebind"}
      BY <2>4 DEF Sound, Together, V6Client, Exchange
    <3>7. Held(t) /\ Granted(t) /\ Together(t) /\ Driven(t) /\ Steps(s, t)
      BY <2>4, <3>1, <3>5, <3>6 DEF Sound, Held, Granted, Together, Driven, Steps, Backed, Expired
    <3>8. Spoken(t)
      BY <3>1, <3>5 DEF Sound, Spoken, Asks
    <3> QED BY <2>4, <3>5, <3>7, <3>8, GoingOn DEF Good, Sound
  <2>5. CASE t = DHCPv6Client_RenewRebind_start(s)
    BY <2>1, <2>5, RenewRebindStart, GoingOn DEF Good, Sound
  <2> QED BY <1>7, <2>2, <2>3, <2>4, <2>5 DEF DHCPv6ClientHandleWake
<1> QED BY <1>4, <1>5, <1>6, <1>7

\* A bound client that sees its address no longer keeps a duplicate.
LEMMA AddressGood ==
    ASSUME NEW s \in V6Client, Sound(s), Driven(s), s.mode = "Address",
           NEW t, t = DHCPv6ClientHandleAddressChanged(s)
    PROVE  /\ Good(s, t) /\ (Going(s) => Going(t))
           /\ ~(t.cs = "Bound" /\ t.dad = "duplicated")
<1>1. CASE s.cs = "Bound" /\ s.dad = "duplicated"
  <2>1. s.ip # NoIA /\ Asks(s) /\ Held(s) /\ (Backed(s) \/ s.sv = NoPacket)
    BY <1>1 DEF Sound, Held, Granted, Asks
  <2>2. t = DHCPv6Client_Decline_start(s)
    BY <1>1, <2>1 DEF DHCPv6ClientHandleAddressChanged
  <2>3. t \in V6Client /\ Sound(t) /\ Driven(t) /\ Steps(s, t) /\ t.cs = "Decline"
    BY <2>1, <2>2, DeclineStart
  <2> QED BY <2>3, GoingOn DEF Good, Sound
<1>2. CASE ~(s.cs = "Bound" /\ s.dad = "duplicated")
  <2>1. t = s \/ t = [s EXCEPT !.note = TRUE]
    BY <1>2 DEF DHCPv6ClientHandleAddressChanged, DHCPv6ClientPostNotification
  <2>2. CASE t = s
    BY <1>2, <2>2, Stays
  <2>3. CASE t = [s EXCEPT !.note = TRUE]
    <3>1. /\ t \in V6Client /\ t.tm = s.tm /\ t.mode = s.mode /\ t.saved_mode = s.saved_mode /\ t.cs = s.cs
          /\ t.ip = s.ip /\ t.dad = s.dad /\ t.sv = s.sv /\ t.lease = s.lease /\ t.rx = s.rx
          /\ t.try = s.try /\ t.wire = s.wire
      BY <2>3 DEF V6Client
    <3>2. Held(t) /\ Granted(t) /\ Together(t) /\ Spoken(t)
      BY <3>1 DEF Sound, Held, Granted, Together, Spoken, Backed, Expired
    <3>3. Driven(t) /\ (Going(s) => Going(t)) /\ Steps(s, t)
      BY <3>1 DEF Driven, Going, Steps, DHCPv6ClientLeaseStillValid, Expired
    <3> QED BY <1>2, <3>1, <3>2, <3>3 DEF Good, Sound
  <2> QED BY <2>1, <2>2, <2>3
<1> QED BY <1>1, <1>2

-----------------------------------------------------------------------------
(* The events                                                              *)

LEMMA NewClientGood ==
    ASSUME NEW m \in {"None", "Prefix"}, user = "rtadv" => m = "None", NEW n \in Net, NEW t, t = NewClient(m, n)
    PROVE  /\ t \in V6Client /\ Sound(t) /\ Driven(t) /\ t.mode = m /\ t.cs = "Inactive" /\ t.rx = "None"
           /\ t.ip = NoIA /\ t.sv = NoPacket
<1>1. t \in V6Client
  <2>1. Whole(t)
    BY DEF NewClient, Whole
  <2>2. Typed(t)
    BY Kinds DEF NewClient, Typed
  <2> QED BY <2>1, <2>2, Members
<1>2. Held(t) /\ Granted(t) /\ Together(t) /\ Spoken(t) /\ Driven(t)
  BY DEF NewClient, Held, Granted, Together, Spoken, Driven, NoLease, NoTimer
<1> QED BY <1>1, <1>2 DEF NewClient, Sound

LEMMA PdStartGood ==
    ASSUME user = "pd", NEW n \in Net, NEW up \in BOOLEAN, NEW t, t = dhcpv6_pd_start(n, up)
    PROVE  /\ t \in V6Client /\ Sound(t) /\ Driven(t) /\ (up => Going(t))
           /\ ~(t.cs = "Bound" /\ t.mode = "Address" /\ t.dad = "duplicated")
<1>1. PICK s : s = NewClient("Prefix", n)
  OBVIOUS
<1>2. s \in V6Client /\ Sound(s) /\ Driven(s) /\ s.mode = "Prefix" /\ s.cs = "Inactive"
  BY <1>1, NewClientGood
<1>3. CASE up
  <2>1. t = DHCPv6ClientStartInternal(s)
    BY <1>1, <1>3 DEF dhcpv6_pd_start
  <2>2. Good(s, t) /\ Going(t)
    BY <1>2, <2>1, StartGood
  <2> QED BY <1>2, <2>2 DEF Good, Steps
<1>4. CASE ~up
  <2>1. t = s
    BY <1>1, <1>4 DEF dhcpv6_pd_start
  <2> QED BY <1>2, <1>4, <2>1
<1> QED BY <1>3, <1>4

LEMMA InitV6Inv == V6Init => V6Inv
<1> SUFFICES ASSUME V6Init PROVE V6Inv
  OBVIOUS
<1>1. PICK n \in Net : c = IF user = "rtadv" THEN NewClient("None", n) ELSE dhcpv6_pd_start(n, link)
  BY DEF V6Init
<1>2. /\ c \in V6Client /\ Sound(c) /\ Driven(c) /\ (link => Going(c))
      /\ ~(c.cs = "Bound" /\ c.mode = "Address" /\ c.dad = "duplicated")
  <2>1. CASE user = "rtadv"
    <3>1. c \in V6Client /\ Sound(c) /\ Driven(c) /\ c.mode = "None" /\ c.cs = "Inactive" /\ c.rx = "None"
      BY <1>1, <2>1, NewClientGood
    <3> QED BY <3>1 DEF Going, Stateful
  <2>2. CASE user = "pd"
    BY <1>1, <2>2, PdStartGood DEF V6Init
  <2> QED BY <2>1, <2>2 DEF V6Init
<1>3. MaxEvents \in Nat
  BY DHCPv6Assumption
<1> QED BY <1>2, <1>3 DEF V6Init, V6Inv, V6TypeOK, DuplicateDeclined

\* What a step has to show of the client, and of the queue of events.
LEMMA StepKeeps ==
    ASSUME V6Inv, NEW t \in V6Client, c' = t, Sound(t), Driven(t), link' /\ ~asleep' => Going(t),
           user' = user, link' \in BOOLEAN, asleep' \in BOOLEAN, kevent' \in BOOLEAN,
           events' = events \/ Disturb,
           \/ kevent'
           \/ ~(t.cs = "Bound" /\ t.mode = "Address" /\ t.dad = "duplicated")
           \/ kevent' = kevent /\ c.cs = "Bound" /\ c.mode = "Address" /\ c.dad = "duplicated"
    PROVE  V6Inv'
<1>1. Sound(c)'
  BY DEF Sound, Held, Granted, Together, Spoken, Backed, Expired
<1>2. Driven(c)' /\ (link' /\ ~asleep' => Going(c)')
  BY DEF Driven, Going, DHCPv6ClientLeaseStillValid, Expired
<1>3. events' \in Nat
  BY DEF V6Inv, V6TypeOK, Disturb
<1>4. V6TypeOK' /\ DuplicateDeclined'
  BY <1>3 DEF V6Inv, V6TypeOK, DuplicateDeclined
<1> QED BY <1>1, <1>2, <1>4 DEF V6Inv

\* A client that was stopped takes the mode it is asked for.
LEMMA SetModeFields ==
    ASSUME NEW s \in V6Client, Sound(s), user = "rtadv", NEW m \in {"None", "Stateless", "Address"},
           NEW q, q = DHCPv6ClientSetMode(DHCPv6ClientStop(s), m)
    PROVE  q \in V6Client /\ q.mode = m /\ q.cs = "Inactive" /\ q.ip = NoIA /\ Sound(q)
<1>1. PICK r : r = DHCPv6ClientStop(s)
  OBVIOUS
<1>2. /\ r \in V6Client /\ Sound(r)
      /\ r.mode = "None" /\ r.cs = "Inactive" /\ r.rx = "None" /\ r.tm = NoTimer /\ r.ip = NoIA /\ r.dad = "none"
  BY <1>1, StopFields
<1>3. q = [r EXCEPT !.mode = m]
  BY <1>1, <1>2 DEF DHCPv6ClientSetMode
<1>4. q \in V6Client
  <2>1. Whole(q)
    BY <1>2, <1>3 DEF V6Client, Whole
  <2>2. Typed(q)
    BY <1>2, <1>3, Kinds DEF V6Client, Typed
  <2> QED BY <2>1, <2>2, Members
<1>5. /\ q.mode = m /\ q.saved_mode = r.saved_mode /\ q.cs = r.cs /\ q.ip = r.ip /\ q.dad = r.dad
      /\ q.sv = r.sv /\ q.lease = r.lease /\ q.tm = r.tm /\ q.rx = r.rx /\ q.try = r.try
  BY <1>2, <1>3 DEF V6Client
<1>6. Held(q) /\ Granted(q) /\ Together(q) /\ Spoken(q)
  BY <1>2, <1>5 DEF Sound, Held, Granted, Together, Spoken, Backed, Expired, NoTimer
<1> QED BY <1>2, <1>4, <1>5, <1>6 DEF Sound

LEMMA RouterSaysInv == V6Inv /\ (\E m \in {"None", "Stateless", "Address"} : RouterSays(m)) => V6Inv'
<1> SUFFICES ASSUME V6Inv, NEW m \in {"None", "Stateless", "Address"}, RouterSays(m) PROVE V6Inv'
  OBVIOUS
<1>1. PICK t : t = c'
  OBVIOUS
<1>2. c \in V6Client /\ Sound(c) /\ Driven(c) /\ (link => Going(c)) /\ DuplicateDeclined
      /\ user = "rtadv" /\ link \in BOOLEAN /\ asleep = FALSE /\ kevent \in BOOLEAN
  BY DEF V6Inv, V6TypeOK, RouterSays, Ready
<1>3. CASE t = c
  BY <1>1, <1>2, <1>3, StepKeeps DEF RouterSays, DuplicateDeclined
<1>4. PICK s : s = DHCPv6ClientStop(c)
  OBVIOUS
<1>5. /\ s \in V6Client /\ Sound(s) /\ Driven(s)
      /\ s.mode = "None" /\ s.cs = "Inactive" /\ s.rx = "None" /\ s.tm = NoTimer
      /\ s.ip = NoIA /\ s.dad = "none" /\ s.sv = c.sv /\ s.lease = c.lease /\ s.saved_mode = c.saved_mode
  BY <1>2, <1>4, StopFields
<1>6. CASE t = s
  BY <1>1, <1>2, <1>5, <1>6, StepKeeps DEF RouterSays, Going, Stateful
<1>7. CASE m # "None" /\ t = DHCPv6ClientStartInternal(DHCPv6ClientSetMode(s, m))
  <2>1. PICK q : q = DHCPv6ClientSetMode(s, m)
    OBVIOUS
  <2>2. t = DHCPv6ClientStartInternal(q)
    BY <1>7, <2>1
  <2>3. q \in V6Client /\ q.mode = m /\ q.cs = "Inactive" /\ q.ip = NoIA /\ Sound(q)
    BY <1>2, <1>4, <2>1, SetModeFields
  <2>4. Good(q, t) /\ Going(t)
    BY <1>7, <2>2, <2>3, StartGood
  <2>5. ~(t.cs = "Bound" /\ t.mode = "Address" /\ t.dad = "duplicated")
    BY <2>3, <2>4 DEF Good, Steps
  <2> QED BY <1>1, <1>2, <2>4, <2>5, StepKeeps DEF RouterSays, Good
<1> QED BY <1>1, <1>3, <1>4, <1>6, <1>7 DEF RouterSays

LEMMA LinkInv == V6Inv /\ (\E up \in BOOLEAN : DHCPv6ClientHandleLinkStatusRenew(up)) => V6Inv'
<1> SUFFICES ASSUME V6Inv, NEW up \in BOOLEAN, DHCPv6ClientHandleLinkStatusRenew(up) PROVE V6Inv'
  OBVIOUS
<1>1. PICK t : t = HandleLinkStatusRenew(c, up)
  OBVIOUS
<1>2. c \in V6Client /\ Sound(c) /\ Driven(c) /\ user \in {"rtadv", "pd"} /\ kevent \in BOOLEAN
  BY DEF V6Inv, V6TypeOK
<1>3. c' = t /\ link' = up /\ user' = user /\ asleep' = FALSE /\ kevent' = kevent /\ Disturb
  BY <1>1 DEF DHCPv6ClientHandleLinkStatusRenew, V6Inv, V6TypeOK
<1>4. /\ t \in V6Client /\ Sound(t) /\ Driven(t)
      /\ t.cs = "Bound" /\ t.mode = "Address" /\ t.dad = "duplicated" =>
            c.cs = "Bound" /\ c.mode = "Address" /\ c.dad = "duplicated"
      /\ up => Going(t)
  BY <1>1, <1>2, LinkGood
<1> QED BY <1>2, <1>3, <1>4, StepKeeps

LEMMA FlushFields ==
    ASSUME NEW s \in V6Client, Sound(s), NEW t, t = DHCPv6ClientDiscardInformation(DHCPv6ClientStop(s))
    PROVE  /\ t \in V6Client /\ Sound(t) /\ Driven(t) /\ t.mode = "None" /\ t.cs = "Inactive"
           /\ t.rx = "None" /\ t.ip = NoIA /\ t.sv = NoPacket
<1>1. PICK q : q = DHCPv6ClientStop(s)
  OBVIOUS
<1>2. /\ q \in V6Client /\ Sound(q) /\ q.mode = "None" /\ q.cs = "Inactive" /\ q.rx = "None"
      /\ q.tm = NoTimer /\ q.ip = NoIA /\ q.dad = "none"
  BY <1>1, StopFields
<1>3. t = [q EXCEPT !.lease = NoLease, !.sv = NoPacket, !.saved_mode = "None"]
  BY <1>1, <1>2 DEF DHCPv6ClientDiscardInformation, DHCPv6ClientClearPacket
<1>4. t \in V6Client
  <2>1. Whole(t)
    BY <1>2, <1>3 DEF V6Client, Whole
  <2>2. Typed(t)
    BY <1>2, <1>3, Kinds DEF V6Client, Typed
  <2> QED BY <2>1, <2>2, Members
<1>5. /\ t.mode = "None" /\ t.cs = "Inactive" /\ t.rx = "None" /\ t.tm = NoTimer /\ t.ip = NoIA
      /\ t.dad = "none" /\ t.sv = NoPacket /\ t.lease = NoLease /\ t.saved_mode = "None"
  BY <1>2, <1>3 DEF V6Client
<1>6. Held(t) /\ Granted(t) /\ Together(t) /\ Driven(t) /\ Spoken(t)
  BY <1>5 DEF Held, Granted, Together, Driven, Spoken, NoTimer, NoLease
<1> QED BY <1>4, <1>5, <1>6 DEF Sound

\* The client of before on another network.
LEMMA ElsewhereGood ==
    ASSUME NEW s \in V6Client, Sound(s), Driven(s), NEW n \in Net, NEW t, t = [s EXCEPT !.net = n]
    PROVE  /\ t \in V6Client /\ Sound(t) /\ Driven(t)
           /\ t.mode = s.mode /\ t.saved_mode = s.saved_mode /\ t.cs = s.cs /\ t.ip = s.ip
           /\ t.dad = s.dad /\ t.sv = s.sv /\ t.lease = s.lease /\ t.tm = s.tm /\ t.rx = s.rx
           /\ t.try = s.try /\ t.wire = s.wire
<1>1. t \in V6Client
  BY DEF V6Client
<1>2. /\ t.mode = s.mode /\ t.saved_mode = s.saved_mode /\ t.cs = s.cs /\ t.ip = s.ip
      /\ t.dad = s.dad /\ t.sv = s.sv /\ t.lease = s.lease /\ t.tm = s.tm /\ t.rx = s.rx
      /\ t.try = s.try /\ t.wire = s.wire
  BY DEF V6Client
<1>3. Held(t) /\ Granted(t) /\ Together(t) /\ Driven(t) /\ Spoken(t)
  BY <1>2 DEF Sound, Held, Granted, Together, Driven, Spoken, Backed, Expired
<1> QED BY <1>1, <1>2, <1>3 DEF Sound

LEMMA NetworkInv == V6Inv /\ (\E n \in Net : NetworkChanged(n)) => V6Inv'
<1> SUFFICES ASSUME V6Inv, NEW n \in Net, NetworkChanged(n) PROVE V6Inv'
  OBVIOUS
<1>1. PICK s : s = [c EXCEPT !.net = n]
  OBVIOUS
<1>2. /\ s \in V6Client /\ Sound(s) /\ Driven(s)
      /\ s.mode = c.mode /\ s.cs = c.cs /\ s.dad = c.dad
  BY <1>1, ElsewhereGood DEF V6Inv, V6TypeOK
<1>3. PICK t : t = c'
  OBVIOUS
<1>4. link' = TRUE /\ user' = user /\ asleep' = FALSE /\ kevent' = kevent /\ Disturb /\ kevent \in BOOLEAN
      /\ user \in {"rtadv", "pd"}
  BY DEF NetworkChanged, V6Inv, V6TypeOK
<1>5. CASE user = "rtadv"
  <2>1. t = DHCPv6ClientDiscardInformation(DHCPv6ClientStop(s))
    BY <1>1, <1>3, <1>5 DEF NetworkChanged
  <2>2. /\ t \in V6Client /\ Sound(t) /\ Driven(t) /\ t.mode = "None" /\ t.rx = "None"
    BY <1>2, <2>1, FlushFields
  <2> QED BY <1>3, <1>4, <2>2, StepKeeps DEF Going, Stateful
<1>6. CASE user = "pd"
  <2>1. t = HandleLinkStatusRenew(s, TRUE)
    BY <1>1, <1>3, <1>6 DEF NetworkChanged, HandleLinkStatusRenew
  <2>2. /\ t \in V6Client /\ Sound(t) /\ Driven(t) /\ Going(t)
        /\ t.cs = "Bound" /\ t.mode = "Address" /\ t.dad = "duplicated" =>
              c.cs = "Bound" /\ c.mode = "Address" /\ c.dad = "duplicated"
    BY <1>2, <1>4, <2>1, LinkGood
  <2> QED BY <1>3, <1>4, <2>2, StepKeeps
<1> QED BY <1>4, <1>5, <1>6

LEMMA LinkTimerInv == V6Inv /\ LinkTimerExpired => V6Inv'
<1> SUFFICES ASSUME V6Inv, LinkTimerExpired PROVE V6Inv'
  OBVIOUS
<1>1. PICK t : t = DHCPv6ClientStop(c)
  OBVIOUS
<1>2. t \in V6Client /\ Sound(t) /\ Driven(t) /\ t.cs = "Inactive"
  BY <1>1, StopFields DEF V6Inv, V6TypeOK
<1> QED BY <1>1, <1>2, StepKeeps DEF LinkTimerExpired, V6Inv, V6TypeOK

LEMMA RoamInv == V6Inv /\ Roam => V6Inv'
<1> SUFFICES ASSUME V6Inv, Roam PROVE V6Inv'
  OBVIOUS
<1>1. PICK t : t = c'
  OBVIOUS
<1>2. c \in V6Client /\ Sound(c) /\ Driven(c) /\ Going(c) /\ user \in {"rtadv", "pd"} /\ kevent \in BOOLEAN
  BY DEF V6Inv, V6TypeOK, Roam
<1>3. link' = TRUE /\ user' = user /\ asleep' = FALSE /\ kevent' = kevent /\ Disturb
  BY DEF Roam, V6Inv, V6TypeOK
<1>4. CASE t = c
  BY <1>1, <1>2, <1>3, <1>4, StepKeeps
<1>5. CASE (user = "pd" \/ c.mode = "Address") /\ t = DHCPv6ClientHandleRoam(c)
  <2>1. Good(c, t) /\ Going(t)
    BY <1>2, <1>5, RoamGood DEF Asks
  <2> QED BY <1>1, <1>3, <2>1, <1>2, StepKeeps DEF Good, Steps
<1> QED BY <1>1, <1>4, <1>5 DEF Roam

\* A new client, whatever the last message of the old one.
LEMMA ReleaseInv == V6Inv /\ DHCPv6ClientRelease => V6Inv'
<1> SUFFICES ASSUME V6Inv, DHCPv6ClientRelease PROVE V6Inv'
  OBVIOUS
<1>1. c \in V6Client /\ Sound(c) /\ user \in {"rtadv", "pd"} /\ link \in BOOLEAN /\ c.net \in Net /\ kevent \in BOOLEAN
  BY DEF V6Inv, V6TypeOK, V6Client
<1>2. PICK r : r = IF c.mode \in Stateful THEN DHCPv6ClientSendRelease(c) ELSE c
  OBVIOUS
<1>3. r.wire \in Message
  <2>1. CASE r = c
    BY <1>1, <2>1 DEF V6Client
  <2>2. CASE r = DHCPv6Client_Release(c)
    <3>1. PICK q : q = [c EXCEPT !.cs = "Release"]
      OBVIOUS
    <3>2. q \in V6Client
      BY <1>1, <3>1, Kinds DEF V6Client
    <3>3. Held(q)
      BY <1>1, <3>1 DEF Sound, Held, V6Client
    <3>4. PICK a : a = DHCPv6ClientRemoveAddress(q)
      OBVIOUS
    <3>5. a \in V6Client
      BY <3>2, <3>3, <3>4, RemoveAddressFields
    <3>6. PICK u : u = [a EXCEPT !.rx = "None", !.tm = NoTimer, !.try = 0, !.waited = 0, !.wire = NoMsg]
      OBVIOUS
    <3>7. u \in V6Client
      <4>1. Whole(u)
        BY <3>5, <3>6 DEF V6Client, Whole
      <4>2. Typed(u)
        BY <3>5, <3>6, Kinds DEF V6Client, Typed
      <4> QED BY <4>1, <4>2, Members
    <3>8. r = DHCPv6ClientSendPacket(u)
      BY <2>2, <3>1, <3>4, <3>5, <3>6 DEF V6Client, DHCPv6Client_Release, Begin, DHCPv6ClientSetState, DHCPv6ClientCancelPendingEvents
    <3>9. \E w \in Message : r = [u EXCEPT !.wire = w]
      BY <3>7, <3>8, SendPacketFacts
    <3> QED BY <3>7, <3>9 DEF V6Client
  <2> QED BY <1>2, <2>1, <2>2 DEF DHCPv6ClientSendRelease
<1>4. PICK m \in Message : m = IF r.wire.type = "RELEASE" THEN r.wire ELSE NoMsg
  BY <1>3, Kinds
<1>5. PICK s : s = IF user = "rtadv" THEN NewClient("None", c.net) ELSE dhcpv6_pd_start(c.net, link)
  OBVIOUS
<1>6. /\ s \in V6Client /\ Sound(s) /\ Driven(s) /\ (link => Going(s))
      /\ ~(s.cs = "Bound" /\ s.mode = "Address" /\ s.dad = "duplicated")
      /\ user = "rtadv" => s.rx = "None"
  <2>1. CASE user = "rtadv"
    BY <1>1, <1>5, <2>1, NewClientGood DEF Going, Stateful
  <2>2. CASE user = "pd"
    BY <1>1, <1>5, <2>2, PdStartGood
  <2> QED BY <1>1, <2>1, <2>2
<1>7. PICK t : t = [s EXCEPT !.wire = m]
  OBVIOUS
<1>8. c' = t
  BY <1>2, <1>4, <1>5, <1>7 DEF DHCPv6ClientRelease
<1>9. /\ t \in V6Client /\ t.mode = s.mode /\ t.saved_mode = s.saved_mode /\ t.cs = s.cs /\ t.ip = s.ip
      /\ t.dad = s.dad /\ t.sv = s.sv /\ t.lease = s.lease /\ t.tm = s.tm /\ t.rx = s.rx /\ t.try = s.try
  BY <1>6, <1>7 DEF V6Client
<1>10. Sound(t) /\ Driven(t) /\ (link => Going(t))
  BY <1>6, <1>9 DEF Sound, Held, Granted, Together, Spoken, Driven, Going, Backed, Expired, DHCPv6ClientLeaseStillValid
<1> QED BY <1>1, <1>6, <1>8, <1>9, <1>10, StepKeeps DEF DHCPv6ClientRelease, V6Inv, V6TypeOK

LEMMA SleepInv == V6Inv /\ Sleep => V6Inv'
  BY StepKeeps DEF V6Inv, V6TypeOK, Sleep, DuplicateDeclined

LEMMA WakeInv ==
    V6Inv /\ (\E up, same, roamed, both \in BOOLEAN, n \in Net : Wake(up, n, same, roamed, both)) => V6Inv'
<1> SUFFICES ASSUME V6Inv, NEW up \in BOOLEAN, NEW same \in BOOLEAN, NEW roamed \in BOOLEAN, NEW both \in BOOLEAN,
                    NEW n \in Net, Wake(up, n, same, roamed, both)
             PROVE  V6Inv'
  OBVIOUS
<1>1. /\ c \in V6Client /\ Sound(c) /\ Driven(c) /\ user \in {"rtadv", "pd"} /\ kevent \in BOOLEAN
      /\ user' = user /\ link' = up /\ asleep' = FALSE /\ kevent' = kevent /\ events' = events
  BY DEF V6Inv, V6TypeOK, Wake
<1>2. PICK s : s = [c EXCEPT !.net = n]
  OBVIOUS
<1>3. /\ s \in V6Client /\ Sound(s) /\ Driven(s)
      /\ s.mode = c.mode /\ s.cs = c.cs /\ s.dad = c.dad /\ s.rx = c.rx /\ s.ip = c.ip
  BY <1>1, <1>2, ElsewhereGood
<1>4. PICK w : w = WakeEvent(c, up, n, same, roamed)
  OBVIOUS
<1>5. /\ w \in V6Client /\ Sound(w) /\ Driven(w)
      /\ up => Going(w)
      /\ w.cs = "Bound" /\ w.mode = "Address" /\ w.dad = "duplicated" =>
            c.cs = "Bound" /\ c.mode = "Address" /\ c.dad = "duplicated"
  <2>1. CASE ~up /\ w = c
    BY <1>1, <2>1
  <2>2. CASE w = DHCPv6ClientDiscardInformation(DHCPv6ClientStop(s))
    <3>1. w \in V6Client /\ Sound(w) /\ Driven(w) /\ w.mode = "None" /\ w.rx = "None"
      BY <1>3, <2>2, FlushFields
    <3> QED BY <3>1 DEF Going, Stateful
  <2>3. CASE user = "rtadv" /\ s.mode # "Address" /\ w = s
    <3>1. s.mode \notin Stateful /\ s.rx # "Confirm"
      BY <1>3, <2>3 DEF Sound, Held, Spoken, Stateful
    <3> QED BY <1>3, <2>3, <3>1 DEF Going
  <2>4. CASE /\ user = "pd" \/ s.mode = "Address"
             /\ \E changed \in BOOLEAN : w = DHCPv6ClientHandleWake(s, up, changed, roamed)
    <3>1. Asks(s)
      BY <2>4 DEF Asks
    <3>2. Good(s, w) /\ (up => Going(w))
      BY <1>3, <2>4, <3>1, WakeGood
    <3> QED BY <1>3, <3>2 DEF Good, Steps
  <2>5. (IF Wireless THEN n # c.net ELSE ~same) \in BOOLEAN
    OBVIOUS
  <2> QED BY <1>1, <1>2, <1>3, <1>4, <2>1, <2>2, <2>3, <2>4, <2>5 DEF WakeEvent
<1>6. CASE ~both
  <2>1. c' = w
    BY <1>4, <1>6 DEF Wake
  <2> QED BY <1>1, <1>5, <2>1, StepKeeps
<1>7. CASE both
  <2>1. PICK t : t = HandleLinkStatusRenew(w, up)
    OBVIOUS
  <2>2. c' = t
    BY <1>4, <1>7, <2>1 DEF Wake
  <2>3. /\ t \in V6Client /\ Sound(t) /\ Driven(t) /\ (up => Going(t))
        /\ t.cs = "Bound" /\ t.mode = "Address" /\ t.dad = "duplicated" =>
              w.cs = "Bound" /\ w.mode = "Address" /\ w.dad = "duplicated"
    BY <1>1, <1>5, <2>1, LinkGood
  <2> QED BY <1>1, <1>5, <2>2, <2>3, StepKeeps
<1> QED BY <1>6, <1>7

LEMMA DadInv == V6Inv /\ (\E res \in {"ready", "duplicated"} : DadDone(res)) => V6Inv'
<1> SUFFICES ASSUME V6Inv, NEW res \in {"ready", "duplicated"}, DadDone(res) PROVE V6Inv'
  OBVIOUS
<1>1. c \in V6Client /\ Sound(c) /\ Driven(c) /\ c.ip # NoIA
  BY DEF V6Inv, V6TypeOK, DadDone
<1>2. PICK t : t = [c EXCEPT !.dad = res]
  OBVIOUS
<1>3. /\ t \in V6Client /\ t.mode = c.mode /\ t.saved_mode = c.saved_mode /\ t.cs = c.cs /\ t.ip = c.ip
      /\ t.dad = res /\ t.sv = c.sv /\ t.lease = c.lease /\ t.tm = c.tm /\ t.rx = c.rx /\ t.try = c.try
      /\ t.wire = c.wire
  BY <1>1, <1>2, Kinds DEF V6Client
<1>4. Sound(t) /\ Driven(t) /\ (Going(c) => Going(t))
  BY <1>1, <1>3 DEF Sound, Held, Granted, Together, Spoken, Driven, Going, Backed, Expired, DHCPv6ClientLeaseStillValid
<1> QED BY <1>2, <1>3, <1>4, StepKeeps DEF DadDone, V6Inv, V6TypeOK

LEMMA AddressInv == V6Inv /\ AddressChanged => V6Inv'
<1> SUFFICES ASSUME V6Inv, AddressChanged PROVE V6Inv'
  OBVIOUS
<1>1. /\ c \in V6Client /\ Sound(c) /\ Driven(c) /\ (link => Going(c)) /\ asleep = FALSE /\ link \in BOOLEAN
      /\ user' = user /\ link' = link /\ asleep' = asleep /\ kevent' = FALSE /\ events' = events
  BY DEF V6Inv, V6TypeOK, AddressChanged, Ready
<1>2. CASE c.mode = "Address"
  <2>1. PICK t : t = DHCPv6ClientHandleAddressChanged(c)
    OBVIOUS
  <2>2. Good(c, t) /\ (Going(c) => Going(t)) /\ ~(t.cs = "Bound" /\ t.dad = "duplicated")
    BY <1>1, <1>2, <2>1, AddressGood
  <2>3. c' = t
    BY <1>2, <2>1 DEF AddressChanged
  <2> QED BY <1>1, <2>2, <2>3, StepKeeps DEF Good
<1>3. CASE c.mode # "Address"
  <2>1. c' = c
    BY <1>3 DEF AddressChanged
  <2> QED BY <1>1, <1>3, <2>1, StepKeeps
<1> QED BY <1>2, <1>3

LEMMA TimeoutGood ==
    ASSUME V6Inv, Timeout, NEW t, t = c'
    PROVE  Good(c, t) /\ (link => Going(t)) /\ (user = "rtadv" => c.mode # "None")
<1>1. c \in V6Client /\ Sound(c) /\ c.tm.fn # "None"
  BY DEF V6Inv, V6TypeOK, Timeout
<1>2. PICK s : s = [c EXCEPT !.tm = NoTimer]
  OBVIOUS
<1>3. /\ s \in V6Client /\ s.mode = c.mode /\ s.saved_mode = c.saved_mode /\ s.cs = c.cs /\ s.ip = c.ip
      /\ s.dad = c.dad /\ s.sv = c.sv /\ s.lease = c.lease /\ s.tm = NoTimer /\ s.rx = c.rx /\ s.try = c.try
      /\ s.wire = c.wire
  BY <1>1, <1>2, Kinds DEF V6Client
<1>4. Sound(s)
  BY <1>1, <1>3 DEF Sound, Held, Granted, Together, Spoken, Backed, Expired, NoTimer
<1>5. c.tm.fn # "Inform" => Asks(s)
  BY <1>1, <1>3 DEF Sound, Spoken, Asks
<1>6. \/ c.tm.fn = c.rx
      \/ c.tm.fn = "RenewRebind" /\ c.tm.ev = "start"
  BY <1>1 DEF Sound, Together
<1>7. Good(s, t) /\ (link => Going(t))
  <2>1. CASE c.tm.fn = "Inform"
    <3>1. t = DHCPv6Client_Inform_timeout(s)
      BY <1>2, <2>1 DEF Timeout
    <3> QED BY <1>3, <1>4, <1>6, <2>1, <3>1, InformTimeout
  <2>2. CASE c.tm.fn = "Solicit"
    <3>1. t = DHCPv6Client_Solicit_timeout(s)
      BY <1>2, <2>2 DEF Timeout
    <3> QED BY <1>3, <1>4, <1>5, <1>6, <2>2, <3>1, SolicitTimeout
  <2>3. CASE c.tm.fn = "Request"
    <3>1. t = DHCPv6Client_Request_timeout(s)
      BY <1>2, <2>3 DEF Timeout
    <3>2. s.rx = "Request" /\ s.cs = "Request" /\ s.try > 0 /\ Held(s) /\ LeaseBacked(s)
      BY <1>3, <1>4, <1>6, <2>3 DEF Sound, Together, Granted, LeaseBacked
    <3>3. user = "rtadv" => s.wire.type # "none" /\ "assignment" \in s.wire.opts
      BY <1>4, <3>2 DEF Sound, Spoken
    <3> QED BY <1>3, <1>5, <2>3, <3>1, <3>2, <3>3, RequestTimeout
  <2>4. CASE c.tm.fn = "Decline"
    <3>1. t = DHCPv6Client_Decline_timeout(s)
      BY <1>2, <2>4 DEF Timeout
    <3> QED BY <1>3, <1>4, <1>5, <1>6, <2>4, <3>1, DeclineTimeout
  <2>5. CASE c.tm.fn = "Confirm"
    <3>1. t = DHCPv6Client_Confirm_timeout(s)
      BY <1>2, <2>5 DEF Timeout
    <3> QED BY <1>3, <1>4, <1>5, <1>6, <2>5, <3>1, ConfirmTimeout
  <2>6. CASE c.tm.fn = "RenewRebind"
    <3>0. Held(s) /\ LeaseBacked(s) /\ Asks(s)
      BY <1>4, <1>5, <2>6 DEF Sound, Granted, LeaseBacked
    <3>1. CASE c.tm.ev = "start"
      <4>1. t = DHCPv6Client_RenewRebind_start(s)
        BY <1>2, <2>6, <3>1 DEF Timeout
      <4> QED BY <1>3, <3>0, <4>1, RenewRebindStart, GoingOn DEF Good, Sound
    <3>2. CASE c.tm.ev # "start"
      <4>1. t = DHCPv6Client_RenewRebind_timeout(s)
        BY <1>2, <2>6, <3>2 DEF Timeout
      <4>2. s.rx = "RenewRebind" /\ s.cs \in {"Renew", "Rebind"}
        BY <1>3, <1>4, <1>6, <2>6, <3>2 DEF Sound, Together, V6Client, CState
      <4> QED BY <1>3, <3>0, <4>1, <4>2, RenewRebindTimeout, GoingOn DEF Good, Sound
    <3> QED BY <3>1, <3>2
  <2>7. c.tm.fn \in {"Inform", "Solicit", "Request", "RenewRebind", "Confirm", "Decline"}
    BY <1>1 DEF V6Client, V6Timer, Exchange
  <2> QED BY <2>1, <2>2, <2>3, <2>4, <2>5, <2>6, <2>7
<1>8. user = "rtadv" => c.mode # "None"
  BY <1>1 DEF Sound, Spoken
<1> QED BY <1>3, <1>7, <1>8 DEF Good, Steps

LEMMA TimeoutInv == V6Inv /\ Timeout => V6Inv'
<1> SUFFICES ASSUME V6Inv, Timeout PROVE V6Inv'
  OBVIOUS
<1>1. PICK t : t = c'
  OBVIOUS
<1>2. Good(c, t) /\ (link => Going(t))
  BY <1>1, TimeoutGood
<1> QED BY <1>1, <1>2, StepKeeps DEF Timeout, Ready, V6Inv, V6TypeOK, Good, Steps

LEMMA AnswerGood ==
    ASSUME V6Inv, NEW p \in Answers, DHCPv6SocketDemux(p), NEW t, t = c'
    PROVE  (t = c \/ (Good(c, t) /\ Going(t))) /\ (user = "rtadv" => c.mode # "None")
<1>1. c \in V6Client /\ Sound(c) /\ Driven(c) /\ Going(c) /\ c.rx # "None" /\ p \in ServerPacket
  BY DHCPv6Assumption DEF V6Inv, V6TypeOK, DHCPv6SocketDemux, Ready
<1>2. c.rx # "Inform" => Asks(c)
  BY <1>1 DEF Sound, Spoken, Asks
<1>3. t = c \/ (Good(c, t) /\ Going(t))
  <2>1. CASE c.rx = "Inform"
    <3>1. t = DHCPv6Client_Inform_data(c, p)
      BY <2>1 DEF DHCPv6SocketDemux
    <3> QED BY <1>1, <2>1, <3>1, InformData
  <2>2. CASE c.rx = "Solicit"
    <3>1. t = DHCPv6Client_Solicit_data(c, p)
      BY <2>2 DEF DHCPv6SocketDemux
    <3> QED BY <1>1, <1>2, <2>2, <3>1, SolicitData
  <2>3. CASE c.rx = "Request"
    <3>1. t = DHCPv6Client_Request_data(c, p)
      BY <2>3 DEF DHCPv6SocketDemux
    <3> QED BY <1>1, <1>2, <2>3, <3>1, RequestData
  <2>4. CASE c.rx = "Confirm"
    <3>1. t = DHCPv6Client_Confirm_data(c, p)
      BY <2>4 DEF DHCPv6SocketDemux
    <3> QED BY <1>1, <1>2, <2>4, <3>1, ConfirmData
  <2>5. CASE c.rx = "RenewRebind"
    <3>1. t = DHCPv6Client_RenewRebind_data(c, p)
      BY <2>5 DEF DHCPv6SocketDemux
    <3> QED BY <1>1, <1>2, <2>5, <3>1, RenewRebindData
  <2>6. CASE c.rx = "Decline"
    <3>1. t = c \/ t = DHCPv6Client_Solicit_start(c)
      BY <2>6 DEF DHCPv6SocketDemux
    <3> QED BY <1>1, <1>2, <2>6, <3>1, SolicitStart, GoingOn DEF Good, Sound
  <2>7. c.rx \in {"Inform", "Solicit", "Request", "RenewRebind", "Confirm", "Decline"}
    BY <1>1 DEF V6Client, Exchange
  <2> QED BY <2>1, <2>2, <2>3, <2>4, <2>5, <2>6, <2>7
<1>4. user = "rtadv" => c.mode # "None"
  BY <1>1 DEF Sound, Spoken
<1> QED BY <1>3, <1>4

LEMMA AnswerInv == V6Inv /\ (\E p \in Answers : DHCPv6SocketDemux(p)) => V6Inv'
<1> SUFFICES ASSUME V6Inv, NEW p \in Answers, DHCPv6SocketDemux(p) PROVE V6Inv'
  OBVIOUS
<1>1. /\ c \in V6Client /\ Sound(c) /\ Driven(c) /\ Going(c) /\ kevent \in BOOLEAN /\ link \in BOOLEAN
      /\ user' = user /\ link' = link /\ asleep' = FALSE /\ kevent' = kevent /\ events' = events
  BY DEF V6Inv, V6TypeOK, DHCPv6SocketDemux, Ready
<1>2. PICK t : t = c'
  OBVIOUS
<1>3. CASE t = c
  BY <1>1, <1>2, <1>3, StepKeeps DEF V6Inv, DuplicateDeclined
<1>4. CASE Good(c, t) /\ Going(t)
  BY <1>1, <1>2, <1>4, StepKeeps DEF Good, Steps
<1> QED BY <1>2, <1>3, <1>4, AnswerGood

LEMMA NotifyInv == V6Inv /\ DHCPv6ClientDeliverNotification => V6Inv'
<1> SUFFICES ASSUME V6Inv, DHCPv6ClientDeliverNotification PROVE V6Inv'
  OBVIOUS
<1>1. PICK t : t = [c EXCEPT !.note = FALSE]
  OBVIOUS
<1>2. c \in V6Client /\ Sound(c) /\ Driven(c)
  BY DEF V6Inv, V6TypeOK
<1>3. /\ t \in V6Client /\ t.mode = c.mode /\ t.saved_mode = c.saved_mode /\ t.cs = c.cs /\ t.ip = c.ip
      /\ t.dad = c.dad /\ t.sv = c.sv /\ t.lease = c.lease /\ t.tm = c.tm /\ t.rx = c.rx /\ t.try = c.try
      /\ t.wire = c.wire
  BY <1>1, <1>2 DEF V6Client
<1>4. Sound(t) /\ Driven(t) /\ (Going(c) => Going(t))
  BY <1>2, <1>3 DEF Sound, Held, Granted, Together, Spoken, Driven, Going, Backed, Expired, DHCPv6ClientLeaseStillValid
<1> QED BY <1>1, <1>3, <1>4, StepKeeps DEF DHCPv6ClientDeliverNotification, V6Inv, V6TypeOK, DuplicateDeclined

\* The clock never passes a timer that is due, so that the lease of a client
\* about to confirm it does not expire before its first message.
LEMMA TickInv == V6Inv /\ Tick => V6Inv'
<1> SUFFICES ASSUME V6Inv, Tick PROVE V6Inv'
  OBVIOUS
<1>1. c \in V6Client /\ Sound(c) /\ Driven(c) /\ c.tm \in V6Timer /\ c.lease \in V6Lease
  BY DEF V6Inv, V6TypeOK, V6Client
<1>2. PICK x : x = [c.tm EXCEPT !.left = Less(c.tm.left)]
  OBVIOUS
<1>3. PICK l : l = [c.lease EXCEPT !.age = IF c.lease.age < Valid THEN c.lease.age + 1 ELSE c.lease.age]
  OBVIOUS
<1>4. PICK i : i = IF c.waited < ConfirmTicks /\ c.cs = "Confirm" THEN c.waited + 1 ELSE c.waited
  OBVIOUS
<1>5. PICK r : r = Less(c.rrt)
  OBVIOUS
<1>6. PICK t : t = [c EXCEPT !.tm = x, !.rrt = r, !.waited = i, !.lease = l]
  OBVIOUS
<1>7. c' = t
  BY <1>1, <1>2, <1>3, <1>4, <1>5, <1>6 DEF V6Client, Tick
<1>8. /\ x \in V6Timer /\ x.fn = c.tm.fn /\ x.ev = c.tm.ev
      /\ c.tm.left = 0 => x = c.tm
  BY <1>1, <1>2 DEF V6Timer, Less
<1>9. /\ l \in V6Lease /\ l.valid = c.lease.valid /\ l.inf = c.lease.inf
      /\ c.lease.age >= Valid => l.age >= Valid
  <2>1. Valid \in Nat /\ c.lease.age \in 0..Valid
    BY <1>1, DHCPv6Assumption DEF V6Lease
  <2>2. (IF c.lease.age < Valid THEN c.lease.age + 1 ELSE c.lease.age) \in 0..Valid
    BY <2>1
  <2> QED BY <1>1, <1>3, <2>1, <2>2 DEF V6Lease
<1>10. r \in Nat /\ i \in Nat
  BY <1>1, <1>4, <1>5 DEF V6Client, Less
<1>11. t \in V6Client
  <2>1. Whole(t)
    BY <1>1, <1>6 DEF V6Client, Whole
  <2>2. Typed(t)
    BY <1>1, <1>6, <1>8, <1>9, <1>10 DEF V6Client, Typed
  <2> QED BY <2>1, <2>2, Members
<1>12. /\ t.mode = c.mode /\ t.saved_mode = c.saved_mode /\ t.cs = c.cs /\ t.ip = c.ip
       /\ t.dad = c.dad /\ t.sv = c.sv /\ t.lease = l /\ t.tm = x /\ t.rx = c.rx /\ t.try = c.try
       /\ t.wire = c.wire
  BY <1>1, <1>6 DEF V6Client
<1>13. c.rx = "Confirm" /\ c.try = 0 => x = c.tm
  BY <1>1, <1>8 DEF Sound, Together, NoTimer
<1>14. Expired(c) => Expired(t)
  BY <1>9, <1>12 DEF Expired
<1>15. Held(t) /\ Granted(t) /\ Together(t) /\ Spoken(t) /\ Driven(t)
  BY <1>1, <1>8, <1>9, <1>12, <1>13, <1>14 DEF Sound, Held, Granted, Together, Spoken, Driven, Backed
<1>16. Going(c) /\ ~asleep => Going(t)
  <2>1. ~asleep /\ c.rx = "Confirm" => ~(c.try = 0)
    BY <1>1 DEF Tick, Sound, Together, Driven, NoTimer
  <2> QED BY <1>8, <1>9, <1>12, <2>1 DEF Going
<1> QED BY <1>7, <1>11, <1>12, <1>15, <1>16, StepKeeps DEF Tick, Sound, V6Inv, V6TypeOK, DuplicateDeclined

LEMMA NextV6Inv == V6Inv /\ [V6Next]_v6vars => V6Inv'
<1> SUFFICES ASSUME V6Inv, [V6Next]_v6vars PROVE V6Inv'
  OBVIOUS
<1>1. CASE UNCHANGED v6vars
  BY <1>1 DEF V6Inv, V6TypeOK, v6vars, Sound, Held, Granted, Together, Spoken, Backed, Expired, Driven, Going,
              DHCPv6ClientLeaseStillValid, DuplicateDeclined
<1> QED BY <1>1, RouterSaysInv, LinkInv, NetworkInv, LinkTimerInv, ReleaseInv, RoamInv, SleepInv, WakeInv,
           DadInv, AddressInv, TimeoutInv, NotifyInv, TickInv, AnswerInv DEF V6Next

\* The inductive invariant, for all values of the constants.
THEOREM ClientInvariance == V6Spec => []V6Inv
<1> QED BY InitV6Inv, NextV6Inv, PTL DEF V6Spec

\* Only a REPLY grants a lease, and a bound client uses its address
\* (DHCPv6ClientSavePacket, DHCPv6Client_Bound and DHCPv6ClientHandleWake).
THEOREM OnlyReplyGrants == V6Spec => []GrantedByReply
<1>1. V6Inv => GrantedByReply
  BY DEF V6Inv, Sound, Granted, Backed, GrantedByReply
<1> QED BY <1>1, ClientInvariance, PTL

\* A bound client that sees a duplicate address declines it
\* (DHCPv6ClientHandleAddressChanged and DHCPv6ClientBoundAddress).
THEOREM DuplicatesAreDeclined == V6Spec => []DuplicateDeclined
<1>1. V6Inv => DuplicateDeclined
  BY DEF V6Inv
<1> QED BY <1>1, ClientInvariance, PTL

\* Before it waits for an answer the client sends a message
\* (DHCPv6ClientSendPacket, whose early returns send nothing).
THEOREM ClientSpeaks == V6Spec => []NeverSilent
<1>1. V6Inv => NeverSilent
  BY DEF V6Inv, Sound, Spoken, NeverSilent
<1> QED BY <1>1, ClientInvariance, PTL

\* A stateful client on an active link is carried on by a timer, by an endless
\* lease, or by the solicitation it gave up (DHCPv6ClientHandleWake).
THEOREM ClientIsDriven == V6Spec => []StatefulNeverStalls
<1>1. V6Inv => StatefulNeverStalls
  BY DEF V6Inv, Going, StatefulNeverStalls
<1> QED BY <1>1, ClientInvariance, PTL

-----------------------------------------------------------------------------
(* The client keeps what the router advertisement service relies on        *)

\* What the owner sees of a client.
Info(s) == s.sv # NoPacket /\ DHCPv6ClientSavedInfoValid(s) /\ s.mode # "None"

\* A client that goes on in its mode does the service's work.
LEMMA WorkStep ==
    ASSUME V6Inv, user = "rtadv", user' = user, NEW t \in V6Client, c' = t, Sound(t), c.mode # "None",
           t.mode = c.mode, t.ip \notin {c.ip, NoIA} => t.rx = "None" /\ Backed(t)
    PROVE  Abstract!Work
<1>1. t.mode # "Address" => t.ip = NoIA
  BY DEF Sound, Held
<1>2. t.ip \in IAAddr \cup {NoIA}
  BY DEF V6Client
<1>3. Backed(t) /\ t.ip # NoIA => Info(t)
  BY <1>1 DEF Sound, Held, Backed, Info, NoPacket, DHCPv6ClientSavedInfoValid, Stateful
<1> QED BY <1>1, <1>2, <1>3 DEF Abstract!Work, Info, DHCPv6ClientSavedInfoValid

\* A client that was stopped, with or without what it knew.
LEMMA StopStep ==
    ASSUME user = "rtadv", user' = user, NEW t, c' = t, t.mode = "None", t.rx = "None", t.ip = NoIA
    PROVE  Abstract!Stop
  BY DEF Abstract!Stop, DHCPv6ClientSavedInfoValid

\* Nothing that the owner sees has changed.
LEMMA SeenSame ==
    ASSUME user' = user,
           \/ user # "rtadv"
           \/ /\ c'.mode = c.mode /\ c'.rx = c.rx /\ c'.sv = c.sv /\ c'.saved_mode = c.saved_mode
              /\ c'.ip = c.ip
    PROVE  UNCHANGED Abstract!vars
  BY DEF Abstract!vars, DHCPv6ClientSavedInfoValid

LEMMA RouterSaysServes ==
    ASSUME V6Inv, NEW m \in {"None", "Stateless", "Address"}, RouterSays(m)
    PROVE  [Abstract!Next]_(Abstract!vars)
<1>1. PICK t : t = c'
  OBVIOUS
<1>2. c \in V6Client /\ Sound(c) /\ user = "rtadv" /\ user' = user
  BY DEF V6Inv, V6TypeOK, RouterSays
<1>3. CASE t = c
  BY <1>1, <1>2, <1>3, SeenSame
<1>4. PICK s : s = DHCPv6ClientStop(c)
  OBVIOUS
<1>5. /\ s \in V6Client /\ Sound(s)
      /\ s.mode = "None" /\ s.cs = "Inactive" /\ s.rx = "None" /\ s.tm = NoTimer
      /\ s.ip = NoIA /\ s.dad = "none" /\ s.sv = c.sv /\ s.lease = c.lease /\ s.saved_mode = c.saved_mode
  BY <1>2, <1>4, StopFields
<1>6. CASE t = s
  BY <1>1, <1>2, <1>5, <1>6, StopStep DEF Abstract!Next
<1>7. CASE m # "None" /\ t = DHCPv6ClientStartInternal(DHCPv6ClientSetMode(s, m))
  <2>1. PICK q : q = DHCPv6ClientSetMode(s, m)
    OBVIOUS
  <2>2. t = DHCPv6ClientStartInternal(q)
    BY <1>7, <2>1
  <2>3. q \in V6Client /\ q.mode = m /\ q.cs = "Inactive" /\ q.ip = NoIA /\ Sound(q)
    BY <1>2, <1>4, <2>1, SetModeFields
  <2>4. Good(q, t) /\ t.rx # "None" /\ t.ip = NoIA /\ (m = "Stateless" => t.sv = NoPacket)
    BY <1>7, <2>2, <2>3, StartGood
  <2>5. t.mode = m /\ m \in {"Stateless", "Address"}
    BY <1>7, <2>3, <2>4 DEF Good, Steps
  <2>6. Abstract!Start(m)
    BY <1>1, <1>2, <2>4, <2>5 DEF Abstract!Start, DHCPv6ClientSavedInfoValid
  <2> QED BY <2>5, <2>6 DEF Abstract!Next
<1> QED BY <1>1, <1>3, <1>4, <1>6, <1>7 DEF RouterSays

LEMMA WakeServes ==
    ASSUME V6Inv, NEW up \in BOOLEAN, NEW same \in BOOLEAN, NEW roamed \in BOOLEAN, NEW both \in BOOLEAN,
           NEW n \in Net, Wake(up, n, same, roamed, both)
    PROVE  [Abstract!Next]_(Abstract!vars)
<1>1. c \in V6Client /\ Sound(c) /\ Driven(c) /\ user \in {"rtadv", "pd"} /\ user' = user
  BY DEF V6Inv, V6TypeOK, Wake
<1>2. CASE user = "pd"
  BY <1>1, <1>2, SeenSame
<1>3. CASE user = "rtadv"
  <2>1. PICK s : s = [c EXCEPT !.net = n]
    OBVIOUS
  <2>2. /\ s \in V6Client /\ Sound(s) /\ Driven(s)
        /\ s.mode = c.mode /\ s.rx = c.rx /\ s.ip = c.ip /\ s.sv = c.sv /\ s.saved_mode = c.saved_mode
    BY <1>1, <2>1, ElsewhereGood
  <2>3. PICK w : w = WakeEvent(c, up, n, same, roamed)
    OBVIOUS
  <2>4. PICK t : t = c'
    OBVIOUS
  <2>5. t = w \/ t = HandleLinkStatusRenew(w, up)
    BY <2>3, <2>4 DEF Wake
  <2>6. CASE w = DHCPv6ClientDiscardInformation(DHCPv6ClientStop(s))
    <3>1. w \in V6Client /\ Sound(w) /\ Driven(w) /\ w.mode = "None" /\ w.rx = "None" /\ w.ip = NoIA
      BY <2>2, <2>6, FlushFields
    <3>2. t = w
      BY <1>3, <2>5, <3>1, LinkGood
    <3> QED BY <1>1, <1>3, <2>4, <3>1, <3>2, StopStep DEF Abstract!Next
  <2>7. CASE w = c \/ (w = s /\ s.mode # "Address")
    <3>1. w \in V6Client /\ Sound(w) /\ Driven(w) /\ w.mode = c.mode /\ w.ip = c.ip
      BY <1>1, <2>2, <2>7
    <3>2. CASE t = w
      BY <1>1, <2>2, <2>4, <2>7, <3>2, SeenSame
    <3>3. CASE t = HandleLinkStatusRenew(w, up) /\ t # w
      <4>1. t \in V6Client /\ Sound(t) /\ Steps(w, t) /\ t.ip = w.ip /\ w.mode # "None"
        BY <1>3, <3>1, <3>3, LinkGood
      <4> QED BY <1>1, <1>3, <2>4, <3>1, <4>1, WorkStep DEF Abstract!Next, Steps
    <3> QED BY <2>5, <3>2, <3>3
  <2>8. CASE s.mode = "Address" /\ (\E changed \in BOOLEAN : w = DHCPv6ClientHandleWake(s, up, changed, roamed))
    <3>1. Good(s, w) /\ w.ip \in {s.ip, NoIA}
      BY <2>2, <2>8, WakeGood DEF Asks
    <3>2. w \in V6Client /\ Sound(w) /\ Driven(w) /\ w.mode = "Address"
      BY <2>2, <2>8, <3>1 DEF Good, Steps
    <3>3. t \in V6Client /\ Sound(t) /\ t.mode = "Address" /\ t.ip \in {w.ip, NoIA}
      <4>1. CASE t = w
        BY <3>2, <4>1
      <4>2. CASE t = HandleLinkStatusRenew(w, up)
        BY <1>3, <3>2, <4>2, LinkGood DEF Steps
      <4> QED BY <2>5, <4>1, <4>2
    <3>4. t.ip \in {c.ip, NoIA}
      BY <2>2, <3>1, <3>3
    <3> QED BY <1>1, <1>3, <2>2, <2>4, <2>8, <3>3, <3>4, WorkStep DEF Abstract!Next
  <2>9. (IF Wireless THEN n # c.net ELSE ~same) \in BOOLEAN
    OBVIOUS
  <2> QED BY <1>3, <2>1, <2>2, <2>3, <2>6, <2>7, <2>8, <2>9 DEF WakeEvent
<1> QED BY <1>1, <1>2, <1>3

LEMMA StepServes == V6Inv /\ [V6Next]_v6vars => [Abstract!Next]_(Abstract!vars)
<1> SUFFICES ASSUME V6Inv, [V6Next]_v6vars PROVE [Abstract!Next]_(Abstract!vars)
  OBVIOUS
<1>0. c \in V6Client /\ Sound(c) /\ Driven(c) /\ (link /\ ~asleep => Going(c)) /\ user \in {"rtadv", "pd"}
  BY DEF V6Inv, V6TypeOK
<1>1. PICK t : t = c'
  OBVIOUS
<1>2. CASE UNCHANGED <<c, user>>
  BY <1>2, SeenSame
<1>3. CASE user' = user /\ user = "pd"
  BY <1>3, SeenSame
<1>4. ASSUME NEW m \in {"None", "Stateless", "Address"}, RouterSays(m) PROVE [Abstract!Next]_(Abstract!vars)
  BY <1>4, RouterSaysServes
<1>5. ASSUME NEW up \in BOOLEAN, DHCPv6ClientHandleLinkStatusRenew(up), user = "rtadv"
      PROVE  [Abstract!Next]_(Abstract!vars)
  <2>1. t = HandleLinkStatusRenew(c, up) /\ user' = user
    BY <1>1, <1>5 DEF DHCPv6ClientHandleLinkStatusRenew
  <2>2. t \in V6Client /\ Sound(t) /\ Steps(c, t) /\ (c.mode = "None" => t = c)
    BY <1>0, <1>5, <2>1, LinkGood
  <2>3. CASE t = c
    BY <1>1, <2>1, <2>3, SeenSame
  <2>4. CASE c.mode # "None"
    BY <1>1, <1>5, <2>1, <2>2, <2>4, WorkStep DEF Abstract!Next, Steps
  <2> QED BY <2>2, <2>3, <2>4
<1>6. ASSUME NEW n \in Net, NetworkChanged(n), user = "rtadv" PROVE [Abstract!Next]_(Abstract!vars)
  <2>1. PICK s : s = [c EXCEPT !.net = n]
    OBVIOUS
  <2>2. s \in V6Client /\ Sound(s)
    BY <1>0, <2>1, ElsewhereGood
  <2>3. t = DHCPv6ClientDiscardInformation(DHCPv6ClientStop(s)) /\ user' = user
    BY <1>1, <1>6, <2>1 DEF NetworkChanged
  <2>4. t.mode = "None" /\ t.rx = "None" /\ t.ip = NoIA
    BY <2>2, <2>3, FlushFields
  <2> QED BY <1>1, <1>6, <2>3, <2>4, StopStep DEF Abstract!Next
<1>7. ASSUME LinkTimerExpired, user = "rtadv" PROVE [Abstract!Next]_(Abstract!vars)
  <2>1. t = DHCPv6ClientStop(c) /\ user' = user
    BY <1>1, <1>7 DEF LinkTimerExpired
  <2>2. t.mode = "None" /\ t.rx = "None" /\ t.ip = NoIA
    BY <1>0, <2>1, StopFields
  <2> QED BY <1>1, <1>7, <2>1, <2>2, StopStep DEF Abstract!Next
<1>8. ASSUME DHCPv6ClientRelease, user = "rtadv" PROVE [Abstract!Next]_(Abstract!vars)
  <2>1. PICK s, m : s = NewClient("None", c.net) /\ t = [s EXCEPT !.wire = m] /\ user' = user
    BY <1>1, <1>8 DEF DHCPv6ClientRelease
  <2>2. t.mode = "None" /\ t.rx = "None" /\ t.ip = NoIA
    BY <2>1 DEF NewClient
  <2> QED BY <1>1, <1>8, <2>1, <2>2, StopStep DEF Abstract!Next
<1>9. ASSUME Roam, user = "rtadv", t # c PROVE [Abstract!Next]_(Abstract!vars)
  <2>1. c.mode = "Address" /\ t = DHCPv6ClientHandleRoam(c) /\ user' = user /\ Going(c)
    BY <1>0, <1>1, <1>9 DEF Roam
  <2>2. Good(c, t)
    BY <1>0, <2>1, RoamGood DEF Asks
  <2> QED BY <1>1, <1>9, <2>1, <2>2, WorkStep DEF Abstract!Next, Good, Steps
<1>10. ASSUME AddressChanged, user = "rtadv", t # c PROVE [Abstract!Next]_(Abstract!vars)
  <2>1. c.mode = "Address" /\ t = DHCPv6ClientHandleAddressChanged(c) /\ user' = user
    BY <1>1, <1>10 DEF AddressChanged
  <2>2. Good(c, t)
    BY <1>0, <2>1, AddressGood
  <2> QED BY <1>1, <1>10, <2>1, <2>2, WorkStep DEF Abstract!Next, Good, Steps
<1>11. ASSUME Timeout, user = "rtadv" PROVE [Abstract!Next]_(Abstract!vars)
  <2>1. Good(c, t) /\ c.mode # "None" /\ user' = user
    BY <1>1, <1>11, TimeoutGood DEF Timeout
  <2> QED BY <1>1, <1>11, <2>1, WorkStep DEF Abstract!Next, Good, Steps
<1>12. ASSUME NEW p \in Answers, DHCPv6SocketDemux(p), user = "rtadv", t # c PROVE [Abstract!Next]_(Abstract!vars)
  <2>1. Good(c, t) /\ c.mode # "None" /\ user' = user
    BY <1>1, <1>12, AnswerGood DEF DHCPv6SocketDemux
  <2> QED BY <1>1, <1>12, <2>1, WorkStep DEF Abstract!Next, Good, Steps
<1>13. CASE DHCPv6ClientDeliverNotification \/ Tick \/ \E res \in {"ready", "duplicated"} : DadDone(res)
  <2>1. /\ c'.mode = c.mode /\ c'.rx = c.rx /\ c'.sv = c.sv /\ c'.saved_mode = c.saved_mode
        /\ c'.ip = c.ip /\ user' = user
    BY <1>0, <1>13 DEF V6Client, DHCPv6ClientDeliverNotification, Tick, DadDone
  <2> QED BY <2>1, SeenSame
<1>14. user' = user
  BY DEF V6Next, v6vars, RouterSays, DHCPv6ClientHandleLinkStatusRenew, NetworkChanged, LinkTimerExpired,
         DHCPv6ClientRelease, Roam, Sleep, Wake, DadDone, AddressChanged, Timeout,
         DHCPv6ClientDeliverNotification, Tick, DHCPv6SocketDemux
<1>15. CASE Sleep \/ UNCHANGED v6vars
  BY <1>2, <1>15 DEF Sleep, v6vars
<1>16. ASSUME t = c PROVE [Abstract!Next]_(Abstract!vars)
  BY <1>1, <1>2, <1>14, <1>16
<1> QED BY <1>0, <1>3, <1>4, <1>5, <1>6, <1>7, <1>8, <1>9, <1>10, <1>11, <1>12, <1>13, <1>14, <1>15, <1>16,
           WakeServes DEF V6Next

\* The mode, the exchange, the information and the address that rtadv.c sees of
\* its client change as DHCPv6Service says, whatever the link, the kernel and
\* the servers do.
THEOREM ClientServes == V6Spec => ServesRouterAdvertisement
<1>1. V6Init => Abstract!Init
  BY DEF V6Init, NewClient, Abstract!Init, DHCPv6ClientSavedInfoValid
<1> QED BY <1>1, StepServes, ClientInvariance, PTL DEF V6Spec, ServesRouterAdvertisement, Abstract!Spec
=============================================================================
