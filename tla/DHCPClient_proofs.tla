------------------------- MODULE DHCPClient_proofs -------------------------
(***************************************************************************)
(* Proofs about DHCPClient, for every set of networks, addresses and       *)
(* replies, every lease time, waiting time and number of retries.          *)
(***************************************************************************)
EXTENDS DHCPClient, SequenceTheorems, WellFoundedInduction, TLAPS

-----------------------------------------------------------------------------
(* The inductive invariant.  A handler is a function from service record   *)
(* to service record, so its parts are about a record d and the set A of   *)
(* pairs of network and address that were acknowledged.                    *)

Acked(d, A) == <<d.saved.src, d.saved.ip>> \in A

\* A lease whose router is known was acknowledged; one that was saved at
\* sleep from a mere OFFER has no router.
EntryOK(e, A) ==
    /\ e \in Entry
    /\ e.hw # NoNet => e.ia /\ <<e.src, e.ip>> \in A
    /\ ~Wireless => e.net = NoNet

\* A list of such leases, at most one for a router and one without.
ListOK(l, A) ==
    /\ l \in Seq(Entry)
    /\ \A i \in 1..Len(l) : EntryOK(l[i], A)
    /\ \A i, j \in 1..Len(l) : l[i].hw = l[j].hw => i = j

Stored(l, f, A) ==
    /\ ListOK(l, A)
    /\ f \in {NoFile} \cup Entry
    /\ f # NoFile => EntryOK(f, A)

\* What the lease, the router's record and the address in use rest on.  On
\* Wi-Fi, an address is removed without a word when there is a lease of the
\* new network.
Keeps(d, A) ==
    /\ d.lease.valid => d.saved.ip # NoAddr /\ d.saved.src \in Net
    /\ ~d.lease.valid \/ ~Wireless => d.lease.net = NoNet
    /\ d.router.hw => d.router.ia /\ Acked(d, A)
    /\ d.router.ia => d.saved.ip # NoAddr
    /\ d.active # NoAddr => d.lease.valid /\ d.active = d.saved.ip /\ Acked(d, A)
    /\ ~Wireless /\ d.published => d.active # NoAddr

Base(d, A) == d \in Service /\ Stored(d.list, d.file, A) /\ Keeps(d, A)

\* Which callback, timer and ARP request belong to which state, and what
\* they may rely on when they come.
Belongs(d) ==
    /\ d.recv # "none" => d.recv = d.state \/ (d.recv = "renew" /\ d.state = "rebind")
    /\ d.timer.fn = "none" => d.timer = NoTimer
    /\ d.arp.op = "none" => d.arp = NoArp
    /\ d.timer.fn \in {"init", "select", "init_reboot"} => d.state = d.timer.fn
    /\ d.timer.fn \in {"delayed_start", "wait"} => d.state = "inactive"
    /\ d.timer.fn = "init_start" => d.state \in {"init", "select", "decline", "unbound"}
    /\ d.timer.fn = "renew_start" => IsBound(d)
    /\ d.timer.fn = "renew_timeout" => d.state \in {"renew", "rebind"}
    /\ d.timer.fn = "router_retry" => d.state = "bound" /\ d.rto
    /\ d.arp.op \in {"probe", "announce", "resolve"} => d.state = "bound"
    /\ d.arp.op = "check" => IsBound(d)
    /\ d.arp.op = "router" => d.state \in {"init", "init_reboot"}

Phase(d, A) ==
    /\ Belongs(d)
    /\ d.state \in {"stopped", "init", "select", "decline", "unbound"} => d.active = NoAddr
    /\ d.timer.fn \in {"delayed_start", "wait", "check_link"} => d.active = NoAddr /\ ~d.busy
    /\ d.timer.fn = "check_link" => Wireless /\ ~d.router.ia /\ d.arp.op = "none"
    /\ d.arp.op = "resolve" \/ d.timer.fn = "router_retry" => d.active # NoAddr
    /\ d.arp.op \in {"probe", "announce"} => Acked(d, A)
    /\ d.state = "init_reboot" /\ ("init_reboot" \in {d.timer.fn, d.recv} \/ d.arp.op = "router")
          => d.lease.valid /\ (d.gathering => Acked(d, A))
    /\ d.state = "decline" => ~d.lease.valid
    /\ Wireless /\ IsBound(d) /\ d.collisions /\ d.active # NoAddr => d.lease.net = d.known

\* Something that is pending takes the client further, and clears the flag
\* that others wait for.
Driven(d) == ~Wireless =>
    /\ d.state \in {"init", "select", "init_reboot", "renew", "rebind", "decline", "unbound"}
          => d.timer.fn # "none"
    /\ d.state = "bound" /\ d.arp.op \notin {"probe", "announce"} /\ ~d.rto
          => d.timer.fn # "none" \/ d.lease.len = Infinite
    /\ d.busy => d.state \notin {"stopped", "decline", "unbound"}
    /\ d.busy /\ d.state = "bound" => d.arp.op # "none"
    /\ d.busy /\ d.state = "inactive" => d.known = NoNet

\* What a client does without a link.
Linked(d) ==
    d.known = NoNet =>
        /\ d.state \in {"stopped", "inactive", "decline"}
        /\ d.state = "decline" => d.timer.fn = "init_start" /\ d.timer.left > 0

Good(d, A) == Base(d, A) /\ Phase(d, A) /\ Driven(d) /\ Linked(d)

Unlinked ==
    /\ linkTimer => svc.known = NoNet
    /\ svc.known = NoNet /\ (svc.active # NoAddr \/ svc.state = "decline" \/ svc.busy) => linkTimer

World ==
    /\ net \in NetOrNone /\ linkTimer \in BOOLEAN /\ asleep \in BOOLEAN
    /\ now \in 0..MaxTime /\ acked \subseteq Net \X Addr

Held == World /\ Good(svc, acked) /\ Unlinked
ClientInv == Held /\ events \in 0..MaxEvents

-----------------------------------------------------------------------------
(* Selecting from a list.  Select is a recursive function: that it exists, *)
(* and what it computes, is shown by looking at the least turn at which    *)
(* it would not.                                                           *)

\* A set of numbers has a least one: how an induction over numbers is done here.
LEMMA Least ==
    ASSUME NEW T, T \subseteq Nat, T # {}
    PROVE \E x \in T : \A y \in T : x <= y
<1>1. \E x \in T : \A y \in T : <<y, x>> \notin OpToRel(<,Nat)
  BY NatLessThanWellFounded, WFMin
<1>2. \A x,y \in Nat : <<y,x>> \notin OpToRel(<,Nat) => x <= y
  BY DEF OpToRel
<1> QED BY <1>1, <1>2

\* What Select computes after i turns.
Turns(l, good, f, n) ==
    f = [i \in 0..n |-> IF i = 0 THEN <<>>
                        ELSE IF l[i] \in good THEN Append(f[i - 1], l[i]) ELSE f[i - 1]]

LEMMA TurnsExist ==
    ASSUME NEW l, NEW good, NEW n \in Nat
    PROVE  \E f : Turns(l, good, f, n)
<1> DEFINE T == {m \in Nat : ~ \E f : Turns(l, good, f, m)}
<1>1. SUFFICES ASSUME T # {} PROVE FALSE
  OBVIOUS
<1>2. PICK m \in T : \A y \in T : m <= y
  BY <1>1, Least
<1>3. CASE m = 0
  <2>1. Turns(l, good, [i \in 0..0 |-> <<>>], 0)
    BY DEF Turns
  <2> QED BY <2>1, <1>2, <1>3
<1>4. CASE m # 0
  <2>1. PICK g : Turns(l, good, g, m - 1)
    BY <1>2, <1>4
  <2> DEFINE h == [i \in 0..m |-> IF i < m THEN g[i]
                     ELSE IF l[m] \in good THEN Append(g[m - 1], l[m]) ELSE g[m - 1]]
  <2>2. m \in Nat /\ m > 0
    BY <1>4, <1>2
  <2>3. \A i \in 0..m-1 : g[i] = IF i = 0 THEN <<>>
                     ELSE IF l[i] \in good THEN Append(g[i - 1], l[i]) ELSE g[i - 1]
    BY <2>1 DEF Turns
  <2>4. \A i \in 0..m : h[i] = IF i = 0 THEN <<>>
                     ELSE IF l[i] \in good THEN Append(h[i - 1], l[i]) ELSE h[i - 1]
    <3> TAKE i \in 0..m
    <3>1. CASE i < m
      <4>1. i = 0 \/ i - 1 \in 0..m
        BY <2>2
      <4>2. h[i] = g[i] /\ (i # 0 => h[i - 1] = g[i - 1])
        BY <2>2, <3>1, <4>1
      <4> QED BY <2>2, <2>3, <3>1, <4>2
    <3>2. CASE i = m
      <4>1. m - 1 \in 0..m /\ m - 1 < m /\ m \in 0..m
        BY <2>2
      <4>2. h[m - 1] = g[m - 1]
        BY <4>1
      <4>3. h[m] = IF l[m] \in good THEN Append(g[m - 1], l[m]) ELSE g[m - 1]
        BY <2>2, <4>1
      <4> QED BY <2>2, <3>2, <4>2, <4>3
    <3> QED BY <2>2, <3>1, <3>2
  <2>5. h = [i \in 0..m |-> h[i]]
    OBVIOUS
  <2>6. Turns(l, good, h, m)
    <3> HIDE DEF h
    <3> QED BY <2>4, <2>5 DEF Turns
  <2> QED BY <2>6, <1>2
<1> QED BY <1>3, <1>4

\* w picks the elements of s out of the first n of l, in order.
Picks(l, good, n, s, w) ==
    /\ Len(s) \in Nat /\ DOMAIN s = 1..Len(s)
    /\ w \in [1..Len(s) -> 1..n]
    /\ \A i \in 1..Len(s) : s[i] = l[w[i]] /\ s[i] \in good
    /\ \A i, j \in 1..Len(s) : i < j => w[i] < w[j]
    /\ \A k \in 1..n : l[k] \in good => \E i \in 1..Len(s) : w[i] = k

Picked(S, l, good, n, s) == s \in Seq(S) /\ \E w : Picks(l, good, n, s, w)

LEMMA PickedNext ==
    ASSUME NEW S, NEW l \in Seq(S), NEW good, NEW m \in 1..Len(l), NEW s, Picked(S, l, good, m - 1, s)
    PROVE  Picked(S, l, good, m, IF l[m] \in good THEN Append(s, l[m]) ELSE s)
<1>1. PICK w : Picks(l, good, m - 1, s, w)
  BY DEF Picked
<1>2. s \in Seq(S) /\ Len(l) \in Nat /\ l[m] \in S /\ Len(s) \in Nat
  BY LenProperties, ElementOfSeq DEF Picked
<1>3. CASE l[m] \notin good
  <2>1. Picks(l, good, m, s, w)
    BY <1>1, <1>2, <1>3 DEF Picks
  <2> QED BY <2>1, <1>2, <1>3 DEF Picked
<1>4. CASE l[m] \in good
  <2> DEFINE v == [i \in 1..Len(s) + 1 |-> IF i <= Len(s) THEN w[i] ELSE m]
  <2>1. PICK t : t = Append(s, l[m])
    OBVIOUS
  <2>2. /\ t \in Seq(S) /\ Len(t) = Len(s) + 1
        /\ \A i \in 1..Len(s) : t[i] = s[i]
        /\ t[Len(s) + 1] = l[m]
    BY <2>1, <1>2, AppendProperties
  <2>3. DOMAIN t = 1..Len(t)
    BY <2>2, LenProperties
  <2>4. v \in [1..Len(t) -> 1..m]
    BY <1>1, <1>2, <2>2 DEF Picks
  <2>5. /\ \A i \in 1..Len(s) : v[i] = w[i] /\ w[i] \in 1..m-1
        /\ v[Len(s) + 1] = m
    BY <1>1, <1>2 DEF Picks
  <2> HIDE DEF v
  <2>6. \A i \in 1..Len(t) : t[i] = l[v[i]] /\ t[i] \in good
    BY <1>1, <1>2, <1>4, <2>2, <2>5 DEF Picks
  <2>7. \A i, j \in 1..Len(t) : i < j => v[i] < v[j]
    BY <1>1, <1>2, <2>2, <2>5 DEF Picks
  <2>8. \A k \in 1..m : l[k] \in good => \E i \in 1..Len(t) : v[i] = k
    <3> SUFFICES ASSUME NEW k \in 1..m, l[k] \in good
                 PROVE  \E i \in 1..Len(t) : v[i] = k
      OBVIOUS
    <3>1. CASE k = m
      BY <1>2, <2>2, <2>5, <3>1
    <3>2. CASE k # m
      <4>1. k \in 1..m-1
        BY <3>2, <1>2
      <4>2. PICK i \in 1..Len(s) : w[i] = k
        BY <4>1, <1>1 DEF Picks
      <4>3. i \in 1..Len(t) /\ v[i] = k
        BY <4>2, <1>2, <2>2, <2>5
      <4> QED BY <4>3
    <3> QED BY <3>1, <3>2
  <2>9. Picks(l, good, m, t, v)
    BY <1>2, <2>2, <2>3, <2>4, <2>6, <2>7, <2>8 DEF Picks
  <2> QED BY <1>4, <2>1, <2>2, <2>9 DEF Picked
<1> QED BY <1>3, <1>4

LEMMA SelectPicks ==
    ASSUME NEW S, NEW l \in Seq(S), NEW good
    PROVE  Picked(S, l, good, Len(l), Select(l, good))
<1>0. Len(l) \in Nat
  BY LenProperties
<1>1. PICK f : Turns(l, good, f, Len(l)) /\ Select(l, good) = f[Len(l)]
  <2> DEFINE g == CHOOSE f : Turns(l, good, f, Len(l))
  <2>1. Turns(l, good, g, Len(l))
    BY TurnsExist, <1>0
  <2>2. Select(l, good) = g[Len(l)]
    BY DEF Select, Turns
  <2> QED BY <2>1, <2>2
<1>2. \A i \in 0..Len(l) : f[i] = IF i = 0 THEN <<>>
                     ELSE IF l[i] \in good THEN Append(f[i - 1], l[i]) ELSE f[i - 1]
  BY <1>1 DEF Turns
<1> DEFINE T == {n \in 0..Len(l) : ~Picked(S, l, good, n, f[n])}
<1>3. CASE T = {}
  BY <1>0, <1>1, <1>3
<1>4. CASE T # {}
  <2>0. T \subseteq Nat
    BY <1>0
  <2>1. PICK m \in T : \A y \in T : m <= y
    <3> HIDE DEF T
    <3> QED BY <2>0, <1>4, Least
  <2>2. CASE m = 0
    <3>1. f[0] = <<>>
      BY <1>2, <1>0
    <3>2. Picks(l, good, 0, <<>>, [i \in 1..0 |-> 1])
      BY DEF Picks
    <3>3. Picked(S, l, good, 0, <<>>)
      BY <3>2 DEF Picked
    <3> QED BY <3>1, <3>3, <2>1, <2>2
  <2>3. CASE m # 0
    <3>1. m - 1 \in 0..Len(l) /\ m - 1 \notin T /\ m \in 1..Len(l)
      BY <2>1, <2>3, <1>0
    <3>2. Picked(S, l, good, m, f[m])
      BY <3>1, PickedNext, <1>2
    <3> QED BY <3>2, <2>1
  <2> QED BY <2>2, <2>3
<1> QED BY <1>3, <1>4

-----------------------------------------------------------------------------
(* The service record: membership in two halves, its fields and their types. *)

Whole(t) ==
    t = [known |-> t.known, state |-> t.state, timer |-> t.timer, recv |-> t.recv, arp |-> t.arp,
         lease |-> t.lease, saved |-> t.saved, rrt |-> t.rrt, try |-> t.try,
         gathering |-> t.gathering, got_nak |-> t.got_nak, rto |-> t.rto,
         needs_write |-> t.needs_write, collisions |-> t.collisions, busy |-> t.busy,
         router |-> t.router, active |-> t.active, published |-> t.published,
         list |-> t.list, file |-> t.file]
States == {"stopped", "inactive", "init", "select", "init_reboot", "bound",
           "renew", "rebind", "decline", "unbound"}
Typed(t) ==
    /\ t.known \in NetOrNone /\ t.state \in States /\ t.timer \in Timer
    /\ t.recv \in {"none", "init", "select", "init_reboot", "renew"}
    /\ t.arp \in ArpRequest /\ t.lease \in Lease /\ t.saved \in Saved
    /\ t.rrt \in Nat /\ t.try \in Nat /\ t.gathering \in BOOLEAN /\ t.got_nak \in BOOLEAN
    /\ t.rto \in BOOLEAN /\ t.needs_write \in BOOLEAN /\ t.collisions \in BOOLEAN
    /\ t.busy \in BOOLEAN /\ t.router \in Router /\ t.active \in Addr \cup {NoAddr}
    /\ t.published \in BOOLEAN /\ t.list \in Seq(Entry) /\ t.file \in {NoFile} \cup Entry

LEMMA Members == ASSUME NEW t PROVE t \in Service <=> Whole(t) /\ Typed(t)
<1>1. t \in Service => Whole(t)
  BY DEF Service, Whole
<1>2. t \in Service => Typed(t)
  BY DEF Service, Typed, States
<1>3. Whole(t) /\ Typed(t) => t \in Service
  BY DEF Service, Whole, Typed, States
<1> QED BY <1>1, <1>2, <1>3

LEMMA Kinds ==
    /\ NoTimer \in Timer /\ NoTimer.fn = "none" /\ NoTimer.left = 0
    /\ NoArp \in ArpRequest /\ NoArp.op = "none"
    /\ \A f \in Timers, n \in Nat : [fn |-> f, left |-> n] \in Timer
    /\ Timers = {"none", "delayed_start", "wait", "check_link", "init_start", "init",
                 "init_reboot", "select", "renew_start", "renew_timeout", "router_retry"}
    /\ \A o \in {"none", "probe", "announce", "resolve", "router", "check"}, n \in Nat :
          \A i \in SUBSET [ip : Addr, hw : NetOrNone] :
              [op |-> o, info |-> i, left |-> n] \in ArpRequest
    /\ {} \in SUBSET [ip : Addr, hw : NetOrNone]
    /\ NoAddr \notin Addr
    /\ {RetrySecs, GatherSecs, MinWait, RouterRetry, InitRetry, ArpSecs,
        ResolveSecs, WakeSkew, MaxRetries, RebootRetries, SelectRetries, RouterArpAt, 0, 1} \subseteq Nat
    /\ InitRetry > 0
    /\ SSID([known |-> NoNet]) = NoNet
    /\ \A n \in Net : n # NoNet
  BY ClientAssumption DEF NoTimer, Timer, Timers, NoArp, ArpRequest, NoAddr, Addr, SSID

LEMMA Parts ==
    /\ \A l \in Lease, n \in NetOrNone, v \in BOOLEAN : [l EXCEPT !.valid = v, !.net = n] \in Lease
    /\ \A l \in Lease, m, n \in Nat : [l EXCEPT !.start = m, !.len = n] \in Lease
    /\ \A r \in Router : r.mac \in NetOrNone
    /\ \A s \in Saved, i \in Addr \cup {NoAddr} : [s EXCEPT !.ip = i] \in Saved
    /\ \A s \in Saved, b \in BOOLEAN : [s EXCEPT !.opts = b] \in Saved
    /\ \A s \in Saved : [s EXCEPT !.rating = 0] \in Saved
<1>1. \A l \in Lease, n \in NetOrNone, v \in BOOLEAN : [l EXCEPT !.valid = v, !.net = n] \in Lease
  BY DEF Lease
<1>2. \A l \in Lease, m, n \in Nat : [l EXCEPT !.start = m, !.len = n] \in Lease
  BY DEF Lease
<1>3. \A r \in Router : r.mac \in NetOrNone
  BY DEF Router
<1>4. \A s \in Saved, i \in Addr \cup {NoAddr} : [s EXCEPT !.ip = i] \in Saved
  BY DEF Saved
<1>5. \A s \in Saved, b \in BOOLEAN : [s EXCEPT !.opts = b] \in Saved
  BY DEF Saved
<1>6. \A s \in Saved : [s EXCEPT !.rating = 0] \in Saved
  BY ClientAssumption DEF Saved
<1> QED BY <1>1, <1>2, <1>3, <1>4, <1>5, <1>6

Acks == SUBSET (Net \X Addr)

\* What an acknowledgement is about.
LEMMA AckedFacts ==
    ASSUME NEW d, NEW A \in Acks, Acked(d, A)
    PROVE  d.saved.src \in Net /\ d.saved.ip \in Addr /\ d.saved.ip # NoAddr
  BY Kinds DEF Acked, Acks

\* More acknowledgements do not hurt.
LEMMA Mono ==
    ASSUME NEW d, NEW A, NEW B, A \subseteq B
    PROVE  /\ Base(d, A) => Base(d, B)
           /\ Good(d, A) => Good(d, B)
<1>1. \A e : EntryOK(e, A) => EntryOK(e, B)
  BY DEF EntryOK
<1>2. Base(d, A) => Base(d, B)
  BY <1>1 DEF Base, Stored, ListOK, Keeps, Acked
<1>3. Phase(d, A) => Phase(d, B)
  BY DEF Phase, Acked
<1> QED BY <1>2, <1>3 DEF Good

\* What Base is about.
Alike(d, t) ==
    /\ t.lease = d.lease /\ t.saved.ip = d.saved.ip /\ t.saved.src = d.saved.src
    /\ t.router = d.router /\ t.active = d.active /\ t.published = d.published
    /\ t.list = d.list /\ t.file = d.file
LEMMA SameBase ==
    ASSUME NEW A, NEW d, Base(d, A), NEW t \in Service, Alike(d, t)
    PROVE  Base(t, A)
  BY DEF Base, Stored, Keeps, Acked, Alike

\* A client that holds nothing.
LEMMA BareBase ==
    ASSUME NEW A, NEW t \in Service, Stored(t.list, t.file, A),
           ~t.lease.valid, t.lease.net = NoNet, ~t.router.ia, ~t.router.hw,
           t.active = NoAddr, ~t.published
    PROVE  Base(t, A)
  BY DEF Base, Keeps

-----------------------------------------------------------------------------
(* The lease list                                                          *)

LEMMA SelectLists ==
    ASSUME NEW A, NEW l, ListOK(l, A), NEW keep, NEW t, t = Select(l, keep)
    PROVE  /\ ListOK(t, A)
           /\ \A i \in 1..Len(t) : t[i] \in keep
<1>1. PICK w : Picks(l, keep, Len(l), t, w)
  BY SelectPicks DEF ListOK, Picked
<1>2. t \in Seq(Entry)
  BY SelectPicks DEF ListOK, Picked
<1>3. \A i \in 1..Len(t) : w[i] \in 1..Len(l) /\ t[i] = l[w[i]] /\ t[i] \in keep
  BY <1>1 DEF Picks
<1>4. \A i, j \in 1..Len(t) : w[i] = w[j] => i = j
  BY <1>1 DEF Picks
<1>5. \A i \in 1..Len(t) : EntryOK(t[i], A)
  BY <1>3 DEF ListOK
<1>6. \A i, j \in 1..Len(t) : t[i].hw = t[j].hw => i = j
  BY <1>3, <1>4 DEF ListOK
<1> QED BY <1>2, <1>3, <1>5, <1>6 DEF ListOK

Marked(e, b) == [e EXCEPT !.nak = b]
MarkIn(l, S, b) == [i \in 1..Len(l) |-> IF i \in S THEN Marked(l[i], b) ELSE l[i]]

\* Marking leases changes nothing else about them.
LEMMA Marks ==
    ASSUME NEW A, NEW l, ListOK(l, A), NEW S, NEW b \in BOOLEAN,
           NEW t, t = MarkIn(l, S, b)
    PROVE  ListOK(t, A) /\ Len(t) = Len(l) /\ \A i \in 1..Len(l) : t[i].hw = l[i].hw
<1>1. /\ Len(l) \in Nat
      /\ \A i \in 1..Len(l) : EntryOK(l[i], A) /\ l[i] \in Entry
  BY LenProperties DEF ListOK, EntryOK
<1>2. \A e \in Entry : Marked(e, b) \in Entry /\ Marked(e, b).hw = e.hw /\ Marked(e, b).ia = e.ia
         /\ Marked(e, b).src = e.src /\ Marked(e, b).ip = e.ip /\ Marked(e, b).net = e.net
  BY DEF Entry, Marked
<1>3. \A i \in 1..Len(l) : t[i] \in Entry /\ t[i].hw = l[i].hw /\ t[i].ia = l[i].ia
         /\ t[i].src = l[i].src /\ t[i].ip = l[i].ip /\ t[i].net = l[i].net
  BY <1>1, <1>2 DEF MarkIn
<1>4. t \in Seq(Entry) /\ Len(t) = Len(l)
  <2>1. \A i \in 1..Len(l) : (IF i \in S THEN Marked(l[i], b) ELSE l[i]) \in Entry
    BY <1>1, <1>2
  <2> QED BY <1>1, <2>1, IsASeq, LenProperties DEF MarkIn
<1>5. \A i \in 1..Len(l) : EntryOK(t[i], A)
  BY <1>1, <1>3 DEF EntryOK
<1> QED BY <1>3, <1>4, <1>5 DEF ListOK

\* One lease more, for a router that no other lease is for.
LEMMA AppendLists ==
    ASSUME NEW A, NEW l, ListOK(l, A), NEW e, EntryOK(e, A),
           \A i \in 1..Len(l) : l[i].hw # e.hw
    PROVE  ListOK(Append(l, e), A)
<1>1. l \in Seq(Entry) /\ e \in Entry /\ Len(l) \in Nat
  BY LenProperties DEF ListOK, EntryOK
<1>2. PICK t : t = Append(l, e)
  OBVIOUS
<1>3. /\ t \in Seq(Entry) /\ Len(t) = Len(l) + 1
      /\ \A i \in 1..Len(l) : t[i] = l[i]
      /\ t[Len(l) + 1] = e
  BY <1>1, <1>2, AppendProperties
<1>4. \A i \in 1..Len(t) : i \in 1..Len(l) \/ i = Len(l) + 1
  BY <1>1, <1>3
<1>5. \A i \in 1..Len(t) : EntryOK(t[i], A)
  BY <1>3, <1>4 DEF ListOK
<1>6. \A i, j \in 1..Len(t) : t[i].hw = t[j].hw => i = j
  BY <1>3, <1>4 DEF ListOK
<1> QED BY <1>2, <1>3, <1>5, <1>6 DEF ListOK

\* One lease less.
LEMMA RemoveLists ==
    ASSUME NEW A, NEW l, ListOK(l, A), NEW k \in 1..Len(l)
    PROVE  ListOK(RemoveAt(l, k), A)
<1>1. l \in Seq(Entry) /\ Len(l) \in Nat
  BY LenProperties DEF ListOK
<1>2. PICK a : a = SubSeq(l, 1, k - 1)
  OBVIOUS
<1>3. PICK b : b = SubSeq(l, k + 1, Len(l))
  OBVIOUS
<1>4. a \in Seq(Entry) /\ Len(a) = k - 1 /\ \A i \in 1..(k-1) : a[i] = l[i]
  BY <1>1, <1>2, SubSeqProperties
<1>5. b \in Seq(Entry) /\ Len(b) = Len(l) - k /\ \A i \in 1..(Len(l) - k) : b[i] = l[k + i]
  BY <1>1, <1>3, SubSeqProperties
<1>6. PICK t : t = a \o b
  OBVIOUS
<1>7. /\ t \in Seq(Entry) /\ Len(t) = Len(l) - 1
      /\ \A i \in 1..Len(t) : t[i] = IF i < k THEN l[i] ELSE l[i + 1]
  <2>1. /\ t \in Seq(Entry) /\ Len(t) = Len(a) + Len(b)
        /\ \A i \in 1..Len(a) + Len(b) : t[i] = IF i <= Len(a) THEN a[i] ELSE b[i - Len(a)]
    BY <1>4, <1>5, <1>6, ConcatProperties
  <2>2. ASSUME NEW i \in 1..Len(t) PROVE t[i] = IF i < k THEN l[i] ELSE l[i + 1]
    <3>1. CASE i < k
      BY <1>1, <1>4, <2>1, <3>1
    <3>2. CASE ~(i < k)
      <4>0. k \in Int /\ Len(t) = Len(l) - 1 /\ i \in Int /\ 1 <= i /\ i <= Len(l) - 1 /\ i >= k
        BY <1>1, <1>4, <1>5, <2>1, <3>2
      <4>1. i - (k - 1) \in 1..(Len(l) - k) /\ k + (i - (k - 1)) = i + 1
        BY <1>1, <4>0
      <4>2. t[i] = b[i - (k - 1)]
        <5>1. i \in 1..Len(a) + Len(b) /\ ~(i <= Len(a)) /\ i - Len(a) = i - (k - 1)
          BY <1>1, <1>4, <1>5, <4>0
        <5> QED BY <2>1, <5>1
      <4> QED BY <1>5, <3>2, <4>1, <4>2
    <3> QED BY <3>1, <3>2
  <2> QED BY <1>1, <1>4, <1>5, <2>1, <2>2
<1>8. \A i \in 1..Len(t) : \E j \in 1..Len(l) : t[i] = l[j] /\ j = IF i < k THEN i ELSE i + 1
  BY <1>1, <1>7
<1>9. ListOK(t, A)
  BY <1>7, <1>8, <1>1 DEF ListOK
<1> QED BY <1>2, <1>3, <1>6, <1>9 DEF RemoveAt

\* DHCPLeaseListUpdateLease keeps one lease for a router.
LEMMA UpdateLists ==
    ASSUME NEW A, NEW l, ListOK(l, A), NEW e, EntryOK(e, A)
    PROVE  ListOK(UpdateLease(l, e), A)
<1> DEFINE keep == {x \in Range(l) : x.hw # NoNet /\ IF e.hw = NoNet THEN ~x.nak ELSE x.hw # e.hw}
<1>1. PICK k : k = Select(l, keep)
  OBVIOUS
<1>2. ListOK(k, A) /\ \A i \in 1..Len(k) : k[i] \in keep
  BY <1>1, SelectLists
<1>3. \A i \in 1..Len(k) : k[i].hw # e.hw
  BY <1>2
<1>4. PICK m : m = [i \in 1..Len(k) |-> [k[i] EXCEPT !.nak = FALSE]]
  OBVIOUS
<1>5. PICK S, b : S = 1..Len(k) /\ b = FALSE /\ b \in BOOLEAN
  OBVIOUS
<1>6. ListOK(m, A) /\ Len(m) = Len(k) /\ \A i \in 1..Len(k) : m[i].hw = k[i].hw
  <2>1. m = MarkIn(k, S, b)
    BY <1>4, <1>5 DEF Marked, MarkIn
  <2> QED BY <1>2, <1>5, <2>1, Marks
<1>7. ListOK(Append(m, e), A)
  BY <1>3, <1>6, AppendLists
<1>8. UpdateLease(l, e) = Append(m, e)
  BY <1>1, <1>4 DEF UpdateLease
<1> QED BY <1>7, <1>8

Relist(d, l, f) == [d EXCEPT !.list = l, !.file = f]

LEMMA WriteStep ==
    ASSUME NEW A, NEW d, ListOK(d.list, A), NEW t, t = DHCPLeaseListWrite(d)
    PROVE  \E l, f : Stored(l, f, A) /\ t = Relist(d, l, f)
<1>1. PICK l : l = RemoveStaleLeases(d.list)
  OBVIOUS
<1>2. ListOK(l, A)
  BY <1>1, SelectLists DEF RemoveStaleLeases
<1>3. PICK f : f = IF l = <<>> THEN NoFile ELSE Last(l)
  OBVIOUS
<1>4. l \in Seq(Entry) /\ Len(l) \in Nat /\ (l # <<>> => Len(l) \in 1..Len(l))
  BY <1>2, LenProperties, EmptySeq DEF ListOK
<1>5. l # <<>> => EntryOK(l[Len(l)], A) /\ l[Len(l)] \in Entry
  BY <1>2, <1>4 DEF ListOK, EntryOK
<1>6. Stored(l, f, A)
  BY <1>2, <1>3, <1>5 DEF Stored, Last
<1>7. t = Relist(d, l, f)
  BY <1>1, <1>3 DEF DHCPLeaseListWrite, Relist
<1> QED BY <1>6, <1>7

LEMMA SaveStep ==
    ASSUME NEW A \in Acks, NEW d, Base(d, A), d.lease.valid, NEW write \in BOOLEAN,
           NEW t, t = dhcp_lease_save(d, write)
    PROVE  \E l, f : Stored(l, f, A) /\ t = Relist(d, l, f)
<1>0. Whole(d) /\ Typed(d) /\ Stored(d.list, d.file, A) /\ Keeps(d, A)
  BY Members DEF Base
<1>1. PICK e : e = [ip |-> d.saved.ip, ia |-> d.router.ia, hw |-> RouterMAC(d),
              start |-> d.lease.start, len |-> d.lease.len, net |-> d.lease.net,
              rtr |-> d.saved.rtr, src |-> d.saved.src,
              nak |-> FALSE, tentative |-> FALSE]
  OBVIOUS
<1>2. /\ d.saved.ip \in Addr /\ d.saved.src \in Net /\ d.saved.rtr \in BOOLEAN
      /\ d.lease.start \in Nat /\ d.lease.len \in Nat /\ d.lease.net \in NetOrNone
      /\ d.router.ia \in BOOLEAN /\ RouterMAC(d) \in NetOrNone
  BY <1>0 DEF Typed, Keeps, Saved, Lease, Router, RouterMAC, NetOrNone
<1>3. e \in Entry
  BY <1>1, <1>2 DEF Entry
<1>4. e.hw = RouterMAC(d) /\ e.ia = d.router.ia /\ e.net = d.lease.net /\ e.src = d.saved.src /\ e.ip = d.saved.ip
  BY <1>1
<1>5. EntryOK(e, A)
  BY <1>0, <1>3, <1>4 DEF EntryOK, Keeps, RouterMAC, Acked
<1>6. PICK s : s = [d EXCEPT !.list = UpdateLease(d.list, e)]
  OBVIOUS
<1>7. t = IF write THEN DHCPLeaseListWrite(s) ELSE s
  BY <1>1, <1>6 DEF dhcp_lease_save
<1>8. ListOK(UpdateLease(d.list, e), A)
  BY <1>0, <1>5, UpdateLists DEF Stored
<1>9. s.list = UpdateLease(d.list, e) /\ s = Relist(d, s.list, d.file)
  BY <1>0, <1>6 DEF Whole, Relist
<1>10. CASE write
  <2>0. ListOK(s.list, A) /\ t = DHCPLeaseListWrite(s)
    BY <1>7, <1>8, <1>9, <1>10
  <2>1. PICK l, f : Stored(l, f, A) /\ t = Relist(s, l, f)
    BY <2>0, WriteStep
  <2>2. t = Relist(d, l, f)
    BY <2>1, <1>0, <1>6 DEF Whole, Relist
  <2> QED BY <2>1, <2>2
<1>11. CASE ~write
  <2>1. Stored(s.list, d.file, A)
    BY <1>0, <1>8, <1>9 DEF Stored
  <2> QED BY <2>1, <1>7, <1>9, <1>11
<1> QED BY <1>10, <1>11

LEMMA ClearStep ==
    ASSUME NEW A, NEW d, Base(d, A), NEW nak \in BOOLEAN, NEW t, t = dhcp_lease_clear(d, nak)
    PROVE  \E l, f : Stored(l, f, A) /\ t = Relist(d, l, f)
<1>0. Whole(d) /\ Stored(d.list, d.file, A) /\ ListOK(d.list, A)
  BY Members DEF Base, Stored
<1> DEFINE where == FindLease(d.list, d.saved.ip, d.router.ia, RouterMAC(d))
<1>1. CASE nak /\ RouterMAC(d) # NoNet
  <2>1. PICK l : l = [i \in 1..Len(d.list) |->
                        IF i \in where THEN [d.list[i] EXCEPT !.nak = TRUE] ELSE d.list[i]]
    OBVIOUS
  <2>2. ListOK(l, A)
    <3>1. PICK S, b : S = where /\ b = TRUE /\ b \in BOOLEAN
      OBVIOUS
    <3>2. l = MarkIn(d.list, S, b)
      BY <2>1, <3>1 DEF Marked, MarkIn
    <3> QED BY <1>0, <3>1, <3>2, Marks
  <2>3. t = [d EXCEPT !.list = l]
    BY <1>1, <2>1 DEF dhcp_lease_clear
  <2>4. t = Relist(d, l, d.file)
    BY <1>0, <2>3 DEF Whole, Relist
  <2>5. Stored(l, d.file, A)
    BY <1>0, <2>2 DEF Stored
  <2> QED BY <2>4, <2>5
<1>2. CASE ~(nak /\ RouterMAC(d) # NoNet)
  <2>1. PICK k : k = CHOOSE i \in where : TRUE
    OBVIOUS
  <2>2. PICK s : s = IF where = {} THEN d ELSE [d EXCEPT !.list = RemoveAt(d.list, k)]
    OBVIOUS
  <2>3. t = DHCPLeaseListWrite(s)
    BY <1>2, <2>1, <2>2 DEF dhcp_lease_clear
  <2>4. where # {} => k \in 1..Len(d.list)
    BY <2>1 DEF FindLease
  <2>5. ListOK(s.list, A) /\ s = [d EXCEPT !.list = s.list]
    <3>1. CASE where = {}
      BY <1>0, <2>2, <3>1 DEF Whole
    <3>2. CASE where # {}
      <4>1. s.list = RemoveAt(d.list, k) /\ s = [d EXCEPT !.list = s.list]
        BY <1>0, <2>2, <3>2 DEF Whole
      <4> QED BY <1>0, <2>4, <3>2, <4>1, RemoveLists
    <3> QED BY <3>1, <3>2
  <2>6. PICK l, f : Stored(l, f, A) /\ t = Relist(s, l, f)
    <3> HIDE DEF where
    <3> QED BY <2>3, <2>5, WriteStep
  <2>7. t = Relist(d, l, f)
    BY <1>0, <2>5, <2>6 DEF Whole, Relist
  <2> QED BY <2>6, <2>7
<1> QED BY <1>1, <1>2

-----------------------------------------------------------------------------
(* What the handlers do to a good client.                                  *)

\* All fields but the list and the file.
SameRest(d, t) ==
    /\ t.known = d.known /\ t.state = d.state /\ t.timer = d.timer /\ t.recv = d.recv
    /\ t.arp = d.arp /\ t.lease = d.lease /\ t.saved = d.saved /\ t.rrt = d.rrt /\ t.try = d.try
    /\ t.gathering = d.gathering /\ t.got_nak = d.got_nak /\ t.rto = d.rto
    /\ t.needs_write = d.needs_write /\ t.collisions = d.collisions /\ t.busy = d.busy
    /\ t.router = d.router /\ t.active = d.active /\ t.published = d.published

LEMMA RelistFacts ==
    ASSUME NEW A, NEW d \in Service, NEW l, NEW f, Stored(l, f, A), NEW t, t = Relist(d, l, f)
    PROVE  t \in Service /\ SameRest(d, t) /\ t.list = l /\ t.file = f
<1>0. Whole(d) /\ Typed(d)
  BY Members
<1>1. Whole(t) /\ SameRest(d, t) /\ t.list = l /\ t.file = f
  BY <1>0 DEF Relist, Whole, SameRest
<1>2. l \in Seq(Entry) /\ f \in {NoFile} \cup Entry
  BY DEF Stored, ListOK
<1>3. Typed(t)
  BY <1>0, <1>1, <1>2 DEF Typed, SameRest
<1> QED BY <1>1, <1>3, Members

\* A step that only changes the list and the file.
LEMMA Relisted ==
    ASSUME NEW A, NEW d, Base(d, A), NEW l, NEW f, Stored(l, f, A), NEW t, t = Relist(d, l, f)
    PROVE  /\ Base(t, A) /\ SameRest(d, t) /\ t.list = l /\ t.file = f
           /\ Good(d, A) => Good(t, A)
<1>1. t \in Service /\ SameRest(d, t) /\ t.list = l /\ t.file = f
  BY RelistFacts DEF Base
<1>2. Base(t, A)
  BY <1>1 DEF Base, Keeps, Acked, SameRest
<1>3. Good(d, A) => Phase(t, A) /\ Driven(t) /\ Linked(t)
  BY <1>1 DEF Good, Phase, Belongs, IsBound, Driven, Linked, Acked, SameRest
<1> QED BY <1>1, <1>2, <1>3 DEF Good

\* service_router_clear_arp_verified
LEMMA Unverified ==
    ASSUME NEW A, NEW d, Base(d, A), NEW t, t = service_router_clear_arp_verified(d)
    PROVE  /\ Base(t, A)
           /\ Good(d, A) => Good(t, A)
           /\ t.known = d.known /\ t.state = d.state /\ t.timer = d.timer /\ t.arp = d.arp
           /\ t.recv = d.recv /\ t.lease = d.lease /\ t.saved = d.saved /\ t.rrt = d.rrt /\ t.try = d.try
           /\ t.gathering = d.gathering /\ t.rto = d.rto /\ t.busy = d.busy /\ t.active = d.active
           /\ t.collisions = d.collisions /\ t.published = d.published
           /\ t.router.ia = d.router.ia /\ t.router.hw = d.router.hw /\ t.list = d.list /\ t.file = d.file
<1>0. Whole(d) /\ Typed(d) /\ Stored(d.list, d.file, A) /\ Keeps(d, A)
  BY Members DEF Base
<1>1. /\ Whole(t) /\ SameRest(d, [t EXCEPT !.router = d.router])
      /\ t.list = d.list /\ t.file = d.file
  BY <1>0 DEF service_router_clear_arp_verified, Whole, SameRest
<1>2. /\ t.known = d.known /\ t.state = d.state /\ t.timer = d.timer /\ t.arp = d.arp
      /\ t.recv = d.recv /\ t.lease = d.lease /\ t.saved = d.saved /\ t.rrt = d.rrt /\ t.try = d.try
      /\ t.gathering = d.gathering /\ t.rto = d.rto /\ t.busy = d.busy /\ t.active = d.active
      /\ t.collisions = d.collisions /\ t.published = d.published /\ t.got_nak = d.got_nak
      /\ t.needs_write = d.needs_write
  BY <1>0 DEF service_router_clear_arp_verified, Whole
<1>3. t.router.ia = d.router.ia /\ t.router.hw = d.router.hw /\ t.router \in Router
  BY <1>0 DEF service_router_clear_arp_verified, Whole, Typed, Router
<1>4. t \in Service
  BY <1>0, <1>1, <1>2, <1>3, Members DEF Typed
<1>5. Base(t, A)
  BY <1>0, <1>1, <1>2, <1>3, <1>4 DEF Base, Keeps, Acked
<1>6. Good(d, A) => Phase(t, A) /\ Driven(t) /\ Linked(t)
  BY <1>2, <1>3 DEF Good, Phase, Belongs, IsBound, Driven, Linked, Acked
<1> QED BY <1>1, <1>2, <1>3, <1>5, <1>6 DEF Good

LEMMA SelectStep ==
    ASSUME NEW A, NEW d, Base(d, A), d.known # NoNet, d.active = NoAddr,
           NEW t, t = dhcp_select(d)
    PROVE  Good(t, A) /\ t.known = d.known
<1>0. Whole(d) /\ Typed(d)
  BY Members DEF Base
<1>a. PICK u : u = [dhcp_cancel_pending_events(d) EXCEPT
                       !.state = "select", !.try = 0, !.gathering = FALSE, !.recv = "select"]
  OBVIOUS
<1>b. t = dhcp_select_timeout(u)
  BY <1>a DEF dhcp_select
<1>c. u = [d EXCEPT !.timer = NoTimer, !.recv = "select", !.arp = NoArp,
                    !.state = "select", !.try = 0, !.gathering = FALSE]
  BY <1>0, <1>a DEF Whole, dhcp_cancel_pending_events
<1>e1. Whole(u)
  BY <1>0, <1>c DEF Whole
<1>e2. u.try = 0
  BY <1>0, <1>c DEF Whole
<1>e3. 0 + 1 = 1
  OBVIOUS
<1>e. Whole(u) /\ u.try = 0 /\ 0 + 1 = 1
  BY <1>e1, <1>e2, <1>e3
<1>f. t = [[u EXCEPT !.try = 1] EXCEPT !.timer = [fn |-> "select", left |-> RetrySecs]]
  BY <1>b, <1>e DEF dhcp_select_timeout, Arm
<1>d. t = [u EXCEPT !.timer = [fn |-> "select", left |-> RetrySecs], !.try = 1]
  BY <1>e, <1>f DEF Whole
<1>1. t = [d EXCEPT !.timer = [fn |-> "select", left |-> RetrySecs], !.recv = "select", !.arp = NoArp,
                    !.state = "select", !.try = 1, !.gathering = FALSE]
  BY <1>0, <1>c, <1>d DEF Whole
<1>2. /\ t.timer = [fn |-> "select", left |-> RetrySecs] /\ t.recv = "select" /\ t.arp = NoArp
      /\ t.state = "select" /\ t.try = 1 /\ t.gathering = FALSE
      /\ t.known = d.known /\ Alike(d, t) /\ t.rto = d.rto /\ t.busy = d.busy
      /\ t.collisions = d.collisions
  BY <1>0, <1>1 DEF Whole, Alike
<1>3. t \in Service
  <2>1. Whole(t)
    BY <1>0, <1>1 DEF Whole
  <2>2. Typed(t)
    BY <1>0, <1>1, Kinds DEF Whole, Typed, States
  <2> QED BY <2>1, <2>2, Members
<1>4. Base(t, A)
  BY <1>2, <1>3, SameBase
<1>5. Phase(t, A) /\ Driven(t) /\ Linked(t)
  BY <1>2, Kinds DEF Phase, Belongs, IsBound, Driven, Linked, Alike
<1> QED BY <1>2, <1>4, <1>5 DEF Good

\* dhcp_inactive, dhcp_failed and dhcp_wait: the client holds nothing.
LEMMA InactiveStep ==
    ASSUME NEW A, NEW d, Base(d, A), NEW t, t = dhcp_inactive(d)
    PROVE  /\ Good(t, A) /\ t.known = d.known /\ t.state = "inactive"
           /\ t.timer = NoTimer /\ t.arp = NoArp /\ t.recv = "none"
           /\ t.active = NoAddr /\ ~t.published /\ ~t.busy
<1>0. Whole(d) /\ Typed(d)
  BY Members DEF Base
<1>1. t = [d EXCEPT !.timer = NoTimer, !.recv = "none", !.arp = NoArp, !.active = NoAddr,
                    !.published = FALSE, !.state = "inactive", !.busy = FALSE]
  BY <1>0 DEF Whole, dhcp_inactive, service_publish_failure, service_remove_address,
       dhcp_cancel_pending_events
<1>2. Whole(t)
  BY <1>0, <1>1 DEF Whole
<1>3. /\ t.timer = NoTimer /\ t.recv = "none" /\ t.arp = NoArp /\ t.active = NoAddr
      /\ t.published = FALSE /\ t.state = "inactive" /\ t.busy = FALSE
      /\ t.known = d.known /\ t.lease = d.lease /\ t.saved = d.saved /\ t.router = d.router
      /\ t.list = d.list /\ t.file = d.file
  BY <1>0, <1>1 DEF Whole
<1>4. Typed(t)
  BY <1>0, <1>1, Kinds DEF Whole, Typed, States
<1>5. Base(t, A)
  BY <1>2, <1>3, <1>4, Members DEF Base, Stored, Keeps, Acked
<1>6. Phase(t, A) /\ Driven(t) /\ Linked(t)
  BY <1>3, Kinds DEF Phase, Belongs, IsBound, Driven, Linked
<1> QED BY <1>3, <1>5, <1>6 DEF Good

LEMMA FailedStep ==
    ASSUME NEW A, NEW d, Base(d, A), NEW t, t = dhcp_failed(d)
    PROVE  /\ Good(t, A) /\ t.known = d.known /\ t.state = "inactive"
           /\ t.timer = NoTimer /\ t.arp = NoArp /\ t.recv = "none"
           /\ t.active = NoAddr /\ ~t.published /\ ~t.busy
<1>1. PICK u : u = dhcp_inactive(d)
  OBVIOUS
<1>2. /\ Good(u, A) /\ u.known = d.known /\ u.state = "inactive"
      /\ u.timer = NoTimer /\ u.arp = NoArp /\ u.recv = "none"
      /\ u.active = NoAddr /\ ~u.published /\ ~u.busy
  BY <1>1, InactiveStep
<1>3. Base(u, A) /\ Whole(u) /\ Typed(u)
  BY <1>2, Members DEF Good, Base
<1>4. t = [u EXCEPT !.saved = [u.saved EXCEPT !.opts = FALSE]]
  BY <1>1, <1>3 DEF dhcp_failed, Whole
<1>5. Whole(t)
  BY <1>3, <1>4 DEF Whole
<1>6. /\ t.timer = NoTimer /\ t.recv = "none" /\ t.arp = NoArp /\ t.active = NoAddr
      /\ ~t.published /\ t.state = "inactive" /\ ~t.busy
      /\ t.known = d.known /\ t.lease = u.lease /\ t.router = u.router
      /\ t.list = u.list /\ t.file = u.file /\ t.saved = [u.saved EXCEPT !.opts = FALSE]
  BY <1>2, <1>3, <1>4 DEF Whole
<1>7. t.saved \in Saved /\ t.saved.ip = u.saved.ip /\ t.saved.src = u.saved.src
  BY <1>3, <1>6 DEF Typed, Saved
<1>8. Typed(t)
  BY <1>3, <1>4, <1>7 DEF Whole, Typed
<1>9. Base(t, A)
  BY <1>2, <1>3, <1>5, <1>6, <1>7, <1>8, Members DEF Base, Stored, Keeps, Acked
<1>10. Phase(t, A) /\ Driven(t) /\ Linked(t)
  BY <1>6, Kinds DEF Phase, Belongs, IsBound, Driven, Linked
<1> QED BY <1>6, <1>9, <1>10 DEF Good

LEMMA WaitStep ==
    ASSUME NEW A, NEW d, Base(d, A), NEW t, t = dhcp_wait(d)
    PROVE  /\ Good(t, A) /\ t.known = d.known /\ t.active = NoAddr /\ ~t.busy
           /\ t.state = "inactive"
<1>1. PICK u : u = dhcp_failed(d)
  OBVIOUS
<1>2. /\ Good(u, A) /\ u.known = d.known /\ u.state = "inactive"
      /\ u.timer = NoTimer /\ u.arp = NoArp /\ u.recv = "none"
      /\ u.active = NoAddr /\ ~u.published /\ ~u.busy
  BY <1>1, FailedStep
<1>3. Base(u, A) /\ Whole(u) /\ Typed(u)
  BY <1>2, Members DEF Good, Base
<1>4. t = [u EXCEPT !.timer = [fn |-> "wait", left |-> InitRetry]]
  BY <1>1 DEF dhcp_wait, Arm
<1>5. Whole(t) /\ Alike(u, t) /\ t.timer = [fn |-> "wait", left |-> InitRetry]
  BY <1>3, <1>4 DEF Whole, Alike
<1>6. /\ t.recv = "none" /\ t.arp = NoArp /\ t.active = NoAddr
      /\ t.state = "inactive" /\ ~t.busy /\ t.known = d.known
  BY <1>2, <1>3, <1>4 DEF Whole
<1>7. Typed(t)
  BY <1>3, <1>4, Kinds DEF Whole, Typed
<1>8. Base(t, A)
  BY <1>3, <1>5, <1>7, Members, SameBase
<1>9. Phase(t, A) /\ Driven(t) /\ Linked(t)
  BY <1>5, <1>6, Kinds DEF Phase, Belongs, IsBound, Driven, Linked
<1> QED BY <1>6, <1>8, <1>9 DEF Good

\* dhcp_no_server
LEMMA NoServerStep ==
    ASSUME NEW A, NEW d, Base(d, A), d.known # NoNet, d.state = "init", d.active = NoAddr,
           NEW t, t = dhcp_no_server(d)
    PROVE  Good(t, A) /\ t.known = d.known
<1>0. Whole(d) /\ Typed(d)
  BY Members DEF Base
<1>1. t = [d EXCEPT !.timer = [fn |-> "init_start", left |-> InitRetry], !.recv = "none",
                    !.arp = NoArp, !.published = FALSE, !.busy = FALSE]
  BY <1>0 DEF Whole, dhcp_no_server, service_publish_failure, dhcp_cancel_pending_events, Arm
<1>2. Whole(t)
  BY <1>0, <1>1 DEF Whole
<1>3. /\ t.timer = [fn |-> "init_start", left |-> InitRetry] /\ t.recv = "none" /\ t.arp = NoArp
      /\ t.published = FALSE /\ t.busy = FALSE /\ t.state = d.state /\ t.active = d.active
      /\ t.known = d.known /\ t.lease = d.lease /\ t.saved = d.saved /\ t.router = d.router
      /\ t.list = d.list /\ t.file = d.file
  BY <1>0, <1>1 DEF Whole
<1>4. Typed(t)
  BY <1>0, <1>1, Kinds DEF Whole, Typed
<1>5. Base(t, A)
  BY <1>2, <1>3, <1>4, Members DEF Base, Stored, Keeps, Acked
<1>6. Phase(t, A) /\ Driven(t) /\ Linked(t)
  BY <1>3, Kinds DEF Phase, Belongs, IsBound, Driven, Linked
<1> QED BY <1>3, <1>5, <1>6 DEF Good

\* What leaving a lease does to the parts of the record.
RouterOff(r) == [r EXCEPT !.ia = FALSE, !.hw = FALSE, !.verified = FALSE]
LeaseOff(l) == [l EXCEPT !.valid = FALSE, !.net = NoNet]
Unaddressed(s) == [s EXCEPT !.ip = NoAddr]
LEMMA Offs ==
    /\ \A r \in Router : /\ RouterOff(r) \in Router /\ RouterOff(r).mac = r.mac
                         /\ ~RouterOff(r).ia /\ ~RouterOff(r).hw /\ ~RouterOff(r).verified
    /\ \A l \in Lease : LeaseOff(l) \in Lease /\ ~LeaseOff(l).valid /\ LeaseOff(l).net = NoNet
    /\ \A s \in Saved : Unaddressed(s) \in Saved /\ Unaddressed(s).ip = NoAddr
<1>1. \A r \in Router : /\ RouterOff(r) \in Router /\ RouterOff(r).mac = r.mac
                        /\ ~RouterOff(r).ia /\ ~RouterOff(r).hw /\ ~RouterOff(r).verified
  BY DEF RouterOff, Router
<1>2. \A l \in Lease : LeaseOff(l) \in Lease /\ ~LeaseOff(l).valid /\ LeaseOff(l).net = NoNet
  BY DEF LeaseOff, Lease, NetOrNone
<1>3. \A s \in Saved : Unaddressed(s) \in Saved /\ Unaddressed(s).ip = NoAddr
  BY DEF Unaddressed, Saved
<1> QED BY <1>1, <1>2, <1>3

LEMMA DeclineStep ==
    ASSUME NEW A, NEW d \in Service, Stored(d.list, d.file, A), ~d.published, NEW t, t = dhcp_decline(d)
    PROVE  /\ Good(t, A) /\ t.known = d.known /\ t.state = "decline" /\ t.active = NoAddr /\ ~t.busy
<1>0. Whole(d) /\ Typed(d) /\ Stored(d.list, d.file, A)
  BY Members
<1>1. PICK u : u = [d EXCEPT !.timer = NoTimer, !.recv = "none", !.arp = NoArp, !.active = NoAddr]
  OBVIOUS
<1>2. PICK v : v = [u EXCEPT !.router = RouterOff(d.router), !.lease = LeaseOff(d.lease)]
  OBVIOUS
<1>3. u = service_remove_address(dhcp_cancel_pending_events(d)) /\ Whole(u)
  BY <1>0, <1>1 DEF Whole, service_remove_address, dhcp_cancel_pending_events
<1>4. u.router = d.router /\ u.lease = d.lease
  BY <1>0, <1>1 DEF Whole
<1>5. v = dhcp_invalidate_lease(service_router_clear(u)) /\ Whole(v)
  BY <1>2, <1>3, <1>4 DEF Whole, dhcp_invalidate_lease, service_router_clear, RouterOff, LeaseOff
<1>6. v.saved = d.saved
  BY <1>0, <1>1, <1>2 DEF Whole
<1>7. t = [v EXCEPT !.state = "decline", !.saved = Unaddressed(d.saved), !.busy = FALSE,
                    !.timer = [fn |-> "init_start", left |-> InitRetry]]
  BY <1>3, <1>5, <1>6 DEF Whole, dhcp_decline, Arm, Unaddressed
<1>8. Whole(t)
  BY <1>5, <1>7 DEF Whole
<1>9. /\ t.timer = [fn |-> "init_start", left |-> InitRetry] /\ t.recv = "none" /\ t.arp = NoArp
      /\ t.active = NoAddr /\ t.state = "decline" /\ t.busy = FALSE /\ t.known = d.known
      /\ t.lease = LeaseOff(d.lease) /\ t.saved = Unaddressed(d.saved)
      /\ t.router = RouterOff(d.router) /\ t.list = d.list /\ t.file = d.file
      /\ t.published = d.published
  BY <1>0, <1>1, <1>2, <1>3, <1>5, <1>7 DEF Whole
<1>10. /\ t.rrt = d.rrt /\ t.try = d.try /\ t.gathering = d.gathering /\ t.got_nak = d.got_nak
       /\ t.rto = d.rto /\ t.needs_write = d.needs_write /\ t.collisions = d.collisions
  BY <1>0, <1>1, <1>2, <1>3, <1>5, <1>7 DEF Whole
<1>11. /\ t.lease \in Lease /\ ~t.lease.valid /\ t.lease.net = NoNet /\ t.saved \in Saved
       /\ t.router \in Router /\ ~t.router.ia /\ ~t.router.hw
  BY <1>0, <1>9, Offs DEF Typed
<1>12. t \in Service
  BY <1>0, <1>8, <1>9, <1>10, <1>11, Kinds, Members DEF Typed, States
<1>13. Base(t, A)
  BY <1>0, <1>9, <1>11, <1>12, BareBase
<1>14. Phase(t, A) /\ Driven(t) /\ Linked(t)
  BY <1>9, <1>11, Kinds DEF Phase, Belongs, IsBound, Driven, Linked
<1> QED BY <1>9, <1>13, <1>14 DEF Good

LEMMA CancelFacts ==
    ASSUME NEW A, NEW d, Base(d, A), NEW t, t = dhcp_cancel_pending_events(d)
    PROVE  /\ Base(t, A) /\ Alike(d, t) /\ t.timer = NoTimer /\ t.recv = "none" /\ t.arp = NoArp
           /\ t.known = d.known /\ t.state = d.state /\ t.saved = d.saved /\ t.rrt = d.rrt /\ t.try = d.try
           /\ t.gathering = d.gathering /\ t.got_nak = d.got_nak /\ t.rto = d.rto
           /\ t.needs_write = d.needs_write /\ t.collisions = d.collisions /\ t.busy = d.busy
<1>0. Whole(d) /\ Typed(d)
  BY Members DEF Base
<1>1. t = [d EXCEPT !.timer = NoTimer, !.recv = "none", !.arp = NoArp]
  BY DEF dhcp_cancel_pending_events
<1>2. Whole(t)
  BY <1>0, <1>1 DEF Whole
<1>3. /\ Alike(d, t) /\ t.timer = NoTimer /\ t.recv = "none" /\ t.arp = NoArp
      /\ t.known = d.known /\ t.state = d.state /\ t.saved = d.saved /\ t.rrt = d.rrt /\ t.try = d.try
      /\ t.gathering = d.gathering /\ t.got_nak = d.got_nak /\ t.rto = d.rto
      /\ t.needs_write = d.needs_write /\ t.collisions = d.collisions /\ t.busy = d.busy
  BY <1>0, <1>1 DEF Whole, Alike
<1>4. Typed(t)
  BY <1>0, <1>1, Kinds DEF Whole, Typed
<1> QED BY <1>2, <1>3, <1>4, Members, SameBase

LEMMA UnboundStep ==
    ASSUME NEW A, NEW d, Base(d, A), ~d.published, d.known # NoNet, NEW nak \in BOOLEAN,
           NEW t, t = dhcp_unbound(d, nak)
    PROVE  Good(t, A) /\ t.known = d.known
<1>1. PICK c : c = dhcp_cancel_pending_events(d)
  OBVIOUS
<1>2. /\ Base(c, A) /\ c.timer = NoTimer /\ c.recv = "none" /\ c.arp = NoArp /\ c.known = d.known
      /\ ~c.published
  BY <1>1, CancelFacts DEF Alike
<1>3. PICK e : e = dhcp_lease_clear(c, nak)
  OBVIOUS
<1>4. PICK l, f : Stored(l, f, A) /\ e = Relist(c, l, f)
  BY <1>2, <1>3, ClearStep
<1>5. /\ Base(e, A) /\ e.timer = NoTimer /\ e.recv = "none" /\ e.arp = NoArp /\ e.known = d.known
      /\ ~e.published
  BY <1>2, <1>4, Relisted DEF SameRest
<1>6. Whole(e) /\ Typed(e) /\ Stored(e.list, e.file, A)
  BY <1>5, Members DEF Base
<1>7. PICK v : v = [e EXCEPT !.active = NoAddr, !.router = RouterOff(e.router), !.lease = LeaseOff(e.lease)]
  OBVIOUS
<1>8. v = dhcp_invalidate_lease(service_router_clear(service_remove_address(e))) /\ Whole(v) /\ v.saved = e.saved
  BY <1>6, <1>7 DEF Whole, dhcp_invalidate_lease, service_router_clear, service_remove_address, RouterOff, LeaseOff
<1>9. t = [v EXCEPT !.state = "unbound", !.saved = Unaddressed(e.saved), !.got_nak = FALSE, !.busy = FALSE,
                    !.timer = [fn |-> "init_start", left |-> 0]]
  BY <1>1, <1>3, <1>8 DEF Whole, dhcp_unbound, Arm, Unaddressed
<1>10. Whole(t)
  BY <1>8, <1>9 DEF Whole
<1>11. /\ t.timer = [fn |-> "init_start", left |-> 0] /\ t.recv = e.recv /\ t.arp = e.arp
       /\ t.active = NoAddr /\ t.state = "unbound" /\ t.busy = FALSE /\ t.known = e.known
       /\ t.lease = LeaseOff(e.lease) /\ t.saved = Unaddressed(e.saved)
       /\ t.router = RouterOff(e.router) /\ t.list = e.list /\ t.file = e.file
       /\ t.published = e.published
  BY <1>6, <1>7, <1>8, <1>9 DEF Whole
<1>12. /\ t.rrt = e.rrt /\ t.try = e.try /\ t.gathering = e.gathering /\ t.got_nak = FALSE
       /\ t.rto = e.rto /\ t.needs_write = e.needs_write /\ t.collisions = e.collisions
  BY <1>6, <1>7, <1>8, <1>9 DEF Whole
<1>13. /\ t.lease \in Lease /\ ~t.lease.valid /\ t.lease.net = NoNet /\ t.saved \in Saved
       /\ t.router \in Router /\ ~t.router.ia /\ ~t.router.hw
  BY <1>6, <1>11, Offs DEF Typed
<1>14. t \in Service
  BY <1>6, <1>10, <1>11, <1>12, <1>13, Kinds, Members DEF Typed, States
<1>15. Base(t, A)
  BY <1>5, <1>6, <1>11, <1>13, <1>14, BareBase
<1>16. Phase(t, A) /\ Driven(t) /\ Linked(t)
  BY <1>5, <1>11, <1>13, Kinds DEF Phase, Belongs, IsBound, Driven, Linked
<1> QED BY <1>5, <1>11, <1>15, <1>16 DEF Good

\* The fields of the protocol's control.
SameControl(d, t) ==
    /\ t.known = d.known /\ t.state = d.state /\ t.timer = d.timer /\ t.recv = d.recv
    /\ t.arp = d.arp /\ t.rrt = d.rrt /\ t.try = d.try
    /\ t.gathering = d.gathering /\ t.got_nak = d.got_nak /\ t.rto = d.rto
    /\ t.needs_write = d.needs_write /\ t.collisions = d.collisions /\ t.busy = d.busy

\* service_publish_failure, alone and with service_remove_address
LEMMA FailureFacts ==
    ASSUME NEW A, NEW d, Base(d, A), NEW t, t = service_publish_failure(d)
    PROVE  /\ Base(t, A) /\ SameControl(d, t) /\ ~t.published /\ t.active = d.active
           /\ t.lease = d.lease /\ t.saved = d.saved /\ t.router = d.router
           /\ t.list = d.list /\ t.file = d.file
<1>0. Whole(d) /\ Typed(d)
  BY Members DEF Base
<1>1. t = [d EXCEPT !.published = FALSE]
  BY DEF service_publish_failure
<1>2. Whole(t)
  BY <1>0, <1>1 DEF Whole
<1>3. /\ SameControl(d, t) /\ t.published = FALSE /\ t.active = d.active
      /\ t.lease = d.lease /\ t.saved = d.saved /\ t.router = d.router
      /\ t.list = d.list /\ t.file = d.file
  BY <1>0, <1>1 DEF Whole, SameControl
<1>4. Typed(t)
  BY <1>0, <1>3 DEF Typed, SameControl
<1>5. Base(t, A)
  BY <1>2, <1>3, <1>4, Members DEF Base, Stored, Keeps, Acked
<1> QED BY <1>3, <1>5

LEMMA DroppedFacts ==
    ASSUME NEW A, NEW d, Base(d, A), NEW t, t = service_publish_failure(service_remove_address(d))
    PROVE  /\ Base(t, A) /\ SameControl(d, t) /\ ~t.published /\ t.active = NoAddr
           /\ t.lease = d.lease /\ t.saved = d.saved /\ t.router = d.router
           /\ t.list = d.list /\ t.file = d.file
<1>0. Whole(d) /\ Typed(d)
  BY Members DEF Base
<1>1. t = [d EXCEPT !.active = NoAddr, !.published = FALSE]
  BY DEF service_publish_failure, service_remove_address
<1>2. Whole(t)
  BY <1>0, <1>1 DEF Whole
<1>3. /\ SameControl(d, t) /\ t.published = FALSE /\ t.active = NoAddr
      /\ t.lease = d.lease /\ t.saved = d.saved /\ t.router = d.router
      /\ t.list = d.list /\ t.file = d.file
  BY <1>0, <1>1 DEF Whole, SameControl
<1>4. Typed(t)
  BY <1>0, <1>3 DEF Typed, SameControl
<1>5. Base(t, A)
  BY <1>2, <1>3, <1>4, Members DEF Base, Stored, Keeps, Acked
<1> QED BY <1>3, <1>5

\* dhcp_arp_router drops stale leases, and may start a detection.
LEMMA ArpRouterStep ==
    ASSUME NEW A, NEW d, Base(d, A), NEW t, t = dhcp_arp_router(d)
    PROVE  /\ Base(t, A) /\ (t.arp = d.arp \/ t.arp.op = "router")
           /\ t.known = d.known /\ t.state = d.state /\ t.timer = d.timer /\ t.recv = d.recv
           /\ t.try = d.try /\ t.gathering = d.gathering /\ t.rto = d.rto /\ t.busy = d.busy
           /\ t.collisions = d.collisions
           /\ t.lease = d.lease /\ t.saved = d.saved /\ t.router = d.router
           /\ t.active = d.active /\ t.published = d.published
<1>0. Whole(d) /\ Typed(d) /\ Stored(d.list, d.file, A)
  BY Members DEF Base
<1>1. PICK l : l = RemoveStaleLeases(d.list)
  OBVIOUS
<1>a. ListOK(l, A)
  BY <1>0, <1>1, SelectLists DEF RemoveStaleLeases, Stored
<1>2. ListOK(l, A) /\ Len(l) \in Nat /\ l \in Seq(Entry) /\ DOMAIN l = 1..Len(l)
  BY <1>a, LenProperties DEF ListOK
<1>3. PICK info : info = {[ip |-> e.ip, hw |-> e.hw] : e \in {x \in Range(l) : Detectable(d, x)}}
  OBVIOUS
<1>4. info \in SUBSET [ip : Addr, hw : NetOrNone]
  <2>0. \A i \in 1..Len(l) : l[i].ip \in Addr /\ l[i].hw \in NetOrNone
    BY <1>2 DEF ListOK, EntryOK, Entry
  <2>1. \A e \in Range(l) : e.ip \in Addr /\ e.hw \in NetOrNone
    BY <1>2, <2>0 DEF Range
  <2> QED BY <1>3, <2>1
<1>5. PICK a : a = [op |-> "router", info |-> info, left |-> ArpSecs]
  OBVIOUS
<1>6. a \in ArpRequest /\ a.op = "router"
  BY <1>4, <1>5, Kinds
<1>7. PICK m, b : /\ t = [d EXCEPT !.list = m, !.arp = b]
                  /\ ListOK(m, A)
                  /\ b \in ArpRequest /\ (b = d.arp \/ b.op = "router")
  <2>1. d = [d EXCEPT !.list = d.list, !.arp = d.arp]
    BY <1>0 DEF Whole
  <2>2. [d EXCEPT !.list = l] = [d EXCEPT !.list = l, !.arp = d.arp]
    BY <1>0 DEF Whole
  <2>3. [[d EXCEPT !.list = l] EXCEPT !.arp = a] = [d EXCEPT !.list = l, !.arp = a]
    BY <1>0 DEF Whole
  <2>4. t = [d EXCEPT !.list = d.list, !.arp = d.arp] \/ t = [d EXCEPT !.list = l, !.arp = d.arp]
           \/ t = [d EXCEPT !.list = l, !.arp = a]
    BY <1>1, <1>3, <1>5, <2>1, <2>2, <2>3 DEF dhcp_arp_router
  <2> QED BY <1>0, <1>2, <1>6, <2>4 DEF Typed, Stored
<1>8. Whole(t) /\ t.list = m /\ t.arp = b /\ t.file = d.file
  BY <1>0, <1>7 DEF Whole
<1>9. /\ t.known = d.known /\ t.state = d.state /\ t.timer = d.timer /\ t.recv = d.recv
      /\ t.try = d.try /\ t.gathering = d.gathering /\ t.rto = d.rto /\ t.busy = d.busy
      /\ t.collisions = d.collisions
      /\ t.lease = d.lease /\ t.saved = d.saved /\ t.router = d.router
      /\ t.active = d.active /\ t.published = d.published
      /\ t.rrt = d.rrt /\ t.got_nak = d.got_nak /\ t.needs_write = d.needs_write
  BY <1>0, <1>7 DEF Whole
<1>10. Typed(t)
  BY <1>0, <1>7, <1>8, <1>9 DEF Typed, ListOK
<1>11. Base(t, A)
  BY <1>0, <1>7, <1>8, <1>9, <1>10, Members DEF Base, Stored, Keeps, Acked
<1> QED BY <1>7, <1>8, <1>9, <1>11

LEMMA Times ==
    \A l \in Lease : /\ T1(l) \in Nat /\ T2(l) \in Nat /\ Expiration(l) \in Nat
                     /\ l.start \in Nat /\ l.len \in Nat
<1> SUFFICES ASSUME NEW l \in Lease
             PROVE  /\ T1(l) \in Nat /\ T2(l) \in Nat /\ Expiration(l) \in Nat
                    /\ l.start \in Nat /\ l.len \in Nat
  OBVIOUS
<1>1. l.start \in Nat /\ l.len \in Nat
  BY DEF Lease
<1>2. \A s, n \in Nat : s + n \div 2 \in Nat /\ s + (7 * n) \div 8 \in Nat /\ s + n \in Nat
  OBVIOUS
<1> QED BY <1>1, <1>2 DEF T1, T2, Expiration

-----------------------------------------------------------------------------
(* BOUND                                                                   *)

LEMMA RouterClearFacts ==
    ASSUME NEW A, NEW d, Base(d, A), NEW t, t = service_router_clear(d)
    PROVE  /\ Base(t, A) /\ SameControl(d, t) /\ t.router = RouterOff(d.router)
           /\ ~t.router.ia /\ ~t.router.hw /\ ~t.router.verified
           /\ t.lease = d.lease /\ t.saved = d.saved /\ t.active = d.active
           /\ t.published = d.published /\ t.list = d.list /\ t.file = d.file
<1>0. Whole(d) /\ Typed(d)
  BY Members DEF Base
<1>1. t = [d EXCEPT !.router = RouterOff(d.router)]
  BY <1>0 DEF Whole, service_router_clear, RouterOff
<1>2. Whole(t)
  BY <1>0, <1>1 DEF Whole
<1>3. /\ SameControl(d, t) /\ t.router = RouterOff(d.router)
      /\ t.lease = d.lease /\ t.saved = d.saved /\ t.active = d.active
      /\ t.published = d.published /\ t.list = d.list /\ t.file = d.file
  BY <1>0, <1>1 DEF Whole, SameControl
<1>4. t.router \in Router /\ ~t.router.ia /\ ~t.router.hw /\ ~t.router.verified
  BY <1>0, <1>3, Offs DEF Typed
<1>5. Typed(t)
  BY <1>0, <1>3, <1>4 DEF Typed, SameControl
<1>6. Base(t, A)
  BY <1>2, <1>3, <1>4, <1>5, Members DEF Base, Stored, Keeps, Acked
<1> QED BY <1>3, <1>4, <1>6

\* service_resolve_router: the router's address is the one of the saved packet
LEMMA ResolveFacts ==
    ASSUME NEW A, NEW d, Base(d, A), d.saved.ip # NoAddr, NEW t, t = service_resolve_router(d)
    PROVE  /\ Base(t, A) /\ t.arp.op = "resolve"
           /\ t.known = d.known /\ t.state = d.state /\ t.timer = d.timer /\ t.recv = d.recv
           /\ t.rto = d.rto /\ t.busy = d.busy /\ t.collisions = d.collisions
           /\ t.gathering = d.gathering
           /\ t.lease = d.lease /\ t.saved = d.saved /\ t.active = d.active
           /\ t.published = d.published /\ t.list = d.list /\ t.file = d.file
<1>0. Whole(d) /\ Typed(d)
  BY Members DEF Base
<1>a. PICK r : r = [d.router EXCEPT !.ia = TRUE, !.verified = FALSE]
  OBVIOUS
<1>b. r \in Router /\ r.hw = d.router.hw /\ r.ia = TRUE
  BY <1>0, <1>a DEF Typed, Router
<1>1. t = [d EXCEPT !.router = r, !.arp = [op |-> "resolve", info |-> {}, left |-> ResolveSecs]]
  BY <1>0, <1>a DEF Whole, service_resolve_router
<1>2. Whole(t)
  BY <1>0, <1>1 DEF Whole
<1>3. /\ t.arp = [op |-> "resolve", info |-> {}, left |-> ResolveSecs]
      /\ t.known = d.known /\ t.state = d.state /\ t.timer = d.timer /\ t.recv = d.recv
      /\ t.rto = d.rto /\ t.busy = d.busy /\ t.collisions = d.collisions
      /\ t.gathering = d.gathering
      /\ t.lease = d.lease /\ t.saved = d.saved /\ t.active = d.active
      /\ t.published = d.published /\ t.list = d.list /\ t.file = d.file
      /\ t.router = r
  BY <1>0, <1>1 DEF Whole
<1>4. t.rrt = d.rrt /\ t.try = d.try /\ t.got_nak = d.got_nak /\ t.needs_write = d.needs_write
  BY <1>0, <1>1 DEF Whole
<1>5. Typed(t)
  BY <1>0, <1>3, <1>4, <1>b, Kinds DEF Typed
<1>6. Base(t, A)
  BY <1>b, <1>2, <1>3, <1>5, Members DEF Base, Stored, Keeps, Acked
<1> QED BY <1>3, <1>6

\* The lease is saved and its address published.
LEMMA PublishFacts ==
    ASSUME NEW A \in Acks, NEW d, Base(d, A), d.lease.valid, d.active # NoAddr, NEW write \in BOOLEAN,
           NEW t, t = dhcp_publish_success(dhcp_lease_save(d, write))
    PROVE  /\ Base(t, A) /\ SameControl(d, t) /\ t.router = d.router
           /\ t.lease = d.lease /\ t.saved = d.saved /\ t.active = d.active /\ t.published
<1>1. PICK s : s = dhcp_lease_save(d, write)
  OBVIOUS
<1>2. PICK l, f : Stored(l, f, A) /\ s = Relist(d, l, f)
  BY <1>1, SaveStep
<1>3. Base(s, A) /\ SameRest(d, s)
  BY <1>2, Relisted
<1>4. Whole(s) /\ Typed(s)
  BY <1>3, Members DEF Base
<1>5. t = [s EXCEPT !.published = TRUE]
  BY <1>1 DEF dhcp_publish_success
<1>6. Whole(t)
  BY <1>4, <1>5 DEF Whole
<1>7. /\ SameControl(s, t) /\ t.router = s.router /\ t.lease = s.lease /\ t.saved = s.saved
      /\ t.active = s.active /\ t.published = TRUE /\ t.list = s.list /\ t.file = s.file
  BY <1>4, <1>5 DEF Whole, SameControl
<1>8. Typed(t)
  BY <1>4, <1>7 DEF Typed, SameControl
<1>9. Base(t, A)
  BY <1>3, <1>6, <1>7, <1>8, Members DEF Base, Stored, Keeps, Acked, SameRest
<1>10. SameControl(d, t)
  BY <1>3, <1>7 DEF SameControl, SameRest
<1> QED BY <1>3, <1>7, <1>9, <1>10 DEF SameRest

LeaseOn(l, n) == [l EXCEPT !.valid = TRUE, !.net = n]
Used(d) == [d EXCEPT !.lease.valid = TRUE, !.lease.net = SSID(d),
                     !.active = d.saved.ip, !.collisions = TRUE, !.rto = FALSE]

\* The address is taken into use, and the renewal scheduled.
LEMMA UseFirst ==
    ASSUME NEW A \in Acks, NEW d, Base(d, A), Acked(d, A), now \in Nat, d.timer = NoTimer,
           NEW t, t = ScheduleRenew(Used(d))
    PROVE  /\ Base(t, A) /\ t.lease.valid /\ t.lease.net = SSID(d) /\ t.active # NoAddr
           /\ t.active = d.saved.ip /\ ~t.rto /\ t.known = d.known /\ t.state = d.state
           /\ t.recv = d.recv /\ t.arp = d.arp /\ t.busy = d.busy /\ t.saved = d.saved
           /\ t.needs_write = d.needs_write
           /\ t.timer = NoTimer \/ t.timer.fn = "renew_start"
           /\ t.timer.fn # "none" \/ t.lease.len = Infinite
<1>0. Whole(d) /\ Typed(d)
  BY Members DEF Base
<1>1. PICK l : l = LeaseOn(d.lease, SSID(d))
  OBVIOUS
<1>2. /\ l \in Lease /\ l.valid /\ l.net = SSID(d) /\ l.len = d.lease.len /\ l.start = d.lease.start
      /\ SSID(d) \in NetOrNone
  <2>1. SSID(d) \in NetOrNone
    BY <1>0 DEF SSID, Typed, NetOrNone
  <2> QED BY <1>0, <1>1, <2>1 DEF Typed, LeaseOn, Lease
<1>3. PICK x : x = [d EXCEPT !.lease = l, !.active = d.saved.ip, !.collisions = TRUE, !.rto = FALSE]
  OBVIOUS
<1>4. t = ScheduleRenew(x)
  <2>1. x = Used(d)
    BY <1>0, <1>1, <1>3 DEF Whole, LeaseOn, Used
  <2> QED BY <2>1
<1>5. Whole(x) /\ x.lease = l /\ x.timer = d.timer
  BY <1>0, <1>3 DEF Whole
<1>6. PICK n, m \in Nat : t = IF l.len = Infinite THEN x
                 ELSE [x EXCEPT !.rrt = n, !.timer = [fn |-> "renew_start", left |-> m]]
  <2>1. T1(l) \in Nat
    BY <1>2, Times
  <2>2. PICK m : m = IF LateForT1(x) THEN 0 ELSE T1(l) - now
    OBVIOUS
  <2>3. LateForT1(x) <=> l.len # Infinite /\ T1(l) < now
    BY <1>5 DEF LateForT1
  <2>4. l.len # Infinite => m \in Nat
    BY <2>1, <2>2, <2>3
  <2>5. t = IF l.len = Infinite THEN x
            ELSE [x EXCEPT !.rrt = T1(l), !.timer = [fn |-> "renew_start", left |-> m]]
    <3>1. t = IF l.len = Infinite THEN x
            ELSE Arm([x EXCEPT !.rrt = T1(l)], "renew_start", m)
      BY <1>4, <1>5, <2>2 DEF ScheduleRenew
    <3> QED BY <3>1, <1>5 DEF Arm, Whole
  <2>6. CASE l.len = Infinite
    <3>1. \E n, k \in Nat : n = 0 /\ k = 0
      OBVIOUS
    <3> QED BY <2>5, <2>6, <3>1
  <2> QED BY <2>1, <2>4, <2>5, <2>6
<1>7. CASE l.len = Infinite
  <2>1. Whole(t) /\ t = x
    BY <1>5, <1>6, <1>7
  <2>2. /\ t.lease = l /\ t.active = d.saved.ip /\ t.collisions = TRUE /\ t.rto = FALSE
        /\ t.known = d.known /\ t.state = d.state /\ t.timer = d.timer
        /\ t.recv = d.recv /\ t.arp = d.arp /\ t.busy = d.busy /\ t.saved = d.saved
        /\ t.needs_write = d.needs_write /\ t.rrt = d.rrt /\ t.try = d.try
        /\ t.gathering = d.gathering /\ t.got_nak = d.got_nak
        /\ t.router = d.router /\ t.published = d.published /\ t.list = d.list /\ t.file = d.file
    BY <1>0, <1>3, <2>1 DEF Whole
  <2>3. t \in Service
    BY <1>0, <1>2, <2>1, <2>2, Members DEF Typed, Saved
  <2>4. Base(t, A)
    BY <1>2, <2>2, <2>3, AckedFacts DEF Base, Stored, Keeps, Acked, SSID
  <2> QED BY <1>2, <1>7, <2>2, <2>4, AckedFacts
<1>8. CASE l.len # Infinite
  <2>1. t = [x EXCEPT !.rrt = n, !.timer = [fn |-> "renew_start", left |-> m]]
    BY <1>6, <1>8
  <2>2. Whole(t)
    BY <1>5, <2>1 DEF Whole
  <2>a. /\ x.lease = l /\ x.active = d.saved.ip /\ x.collisions = TRUE /\ x.rto = FALSE
        /\ x.known = d.known /\ x.state = d.state
        /\ x.recv = d.recv /\ x.arp = d.arp /\ x.busy = d.busy /\ x.saved = d.saved
        /\ x.needs_write = d.needs_write /\ x.try = d.try
        /\ x.gathering = d.gathering /\ x.got_nak = d.got_nak
        /\ x.router = d.router /\ x.published = d.published /\ x.list = d.list /\ x.file = d.file
    BY <1>0, <1>3 DEF Whole
  <2>b. /\ t.lease = x.lease /\ t.active = x.active /\ t.collisions = x.collisions /\ t.rto = x.rto
        /\ t.known = x.known /\ t.state = x.state
        /\ t.recv = x.recv /\ t.arp = x.arp /\ t.busy = x.busy /\ t.saved = x.saved
        /\ t.needs_write = x.needs_write /\ t.try = x.try
        /\ t.gathering = x.gathering /\ t.got_nak = x.got_nak
        /\ t.router = x.router /\ t.published = x.published /\ t.list = x.list /\ t.file = x.file
    BY <1>5, <2>1 DEF Whole
  <2>c. t.timer = [fn |-> "renew_start", left |-> m]
    BY <1>5, <2>1 DEF Whole
  <2>3. /\ t.lease = l /\ t.active = d.saved.ip /\ t.collisions = TRUE /\ t.rto = FALSE
        /\ t.known = d.known /\ t.state = d.state /\ t.timer = [fn |-> "renew_start", left |-> m]
        /\ t.recv = d.recv /\ t.arp = d.arp /\ t.busy = d.busy /\ t.saved = d.saved
        /\ t.needs_write = d.needs_write /\ t.try = d.try
        /\ t.gathering = d.gathering /\ t.got_nak = d.got_nak
        /\ t.router = d.router /\ t.published = d.published /\ t.list = d.list /\ t.file = d.file
    BY <2>a, <2>b, <2>c
  <2>4. t.rrt = n
    BY <1>5, <2>1 DEF Whole
  <2>d. t.timer \in Timer /\ d.saved.ip \in Addr \cup {NoAddr}
    BY <1>0, <2>c, Kinds DEF Typed, Saved
  <2>e. Typed(t)
    BY <1>0, <1>2, <2>3, <2>4, <2>d DEF Typed
  <2>5. t \in Service
    BY <2>2, <2>e, Members
  <2>6. Base(t, A)
    BY <1>2, <2>3, <2>5, AckedFacts DEF Base, Stored, Keeps, Acked, SSID
  <2> QED BY <1>2, <2>3, <2>6, AckedFacts
<1> QED BY <1>7, <1>8

LEMMA UseStep ==
    ASSUME NEW A \in Acks, NEW d, Base(d, A), Acked(d, A), now \in Nat, d.known # NoNet,
           d.state = "bound", d.timer = NoTimer, d.arp = NoArp, d.recv = "none",
           NEW t, t = UseAddress(d)
    PROVE  Good(t, A) /\ t.known = d.known
<1>1. PICK a : a = ScheduleRenew(Used(d))
  OBVIOUS
<1>2. /\ Base(a, A) /\ a.lease.valid /\ a.lease.net = SSID(d) /\ a.active # NoAddr
      /\ ~a.rto /\ a.known = d.known /\ a.state = "bound"
      /\ a.recv = "none" /\ a.arp = NoArp /\ a.saved = d.saved
      /\ a.timer = NoTimer \/ a.timer.fn = "renew_start"
      /\ a.timer.fn # "none" \/ a.lease.len = Infinite
  BY <1>1, UseFirst
<1>3. PICK b : b = IF LateForT1(d) \/ (HasRouter(d) /\ service_router_all_valid(d)) THEN a
                   ELSE service_router_clear(a)
  OBVIOUS
<1>4. /\ Base(b, A) /\ b.lease.valid /\ b.lease.net = SSID(d) /\ b.active # NoAddr
      /\ ~b.rto /\ b.known = d.known /\ b.state = "bound"
      /\ b.recv = "none" /\ b.arp = NoArp /\ b.saved = d.saved
      /\ b.timer = NoTimer \/ b.timer.fn = "renew_start"
      /\ b.timer.fn # "none" \/ b.lease.len = Infinite
  <2>1. CASE b = a
    BY <1>2, <2>1
  <2>2. CASE b = service_router_clear(a)
    BY <1>2, <2>2, RouterClearFacts DEF SameControl
  <2> QED BY <1>3, <2>1, <2>2
<1>5. t = IF ~LateForT1(d) /\ MustResolve(d) THEN service_resolve_router(b)
          ELSE [dhcp_publish_success(dhcp_lease_save(b, b.needs_write))
                   EXCEPT !.needs_write = FALSE, !.busy = FALSE]
  BY <1>1, <1>3 DEF UseAddress, Used
<1>6. CASE ~LateForT1(d) /\ MustResolve(d)
  <2>1. b.saved.ip # NoAddr
    BY <1>4, AckedFacts
  <2>2. /\ Base(t, A) /\ t.arp.op = "resolve"
        /\ t.known = b.known /\ t.state = b.state /\ t.timer = b.timer /\ t.recv = b.recv
        /\ t.rto = b.rto /\ t.lease = b.lease /\ t.active = b.active
    BY <1>4, <1>5, <1>6, <2>1, ResolveFacts
  <2>3. Phase(t, A) /\ Driven(t) /\ Linked(t)
    BY <1>4, <2>2, Kinds DEF Phase, Belongs, IsBound, Driven, Linked, SSID
  <2> QED BY <1>4, <2>2, <2>3 DEF Good
<1>7. CASE ~(~LateForT1(d) /\ MustResolve(d))
  <2>1. PICK c : c = dhcp_publish_success(dhcp_lease_save(b, b.needs_write))
    OBVIOUS
  <2>2. b.needs_write \in BOOLEAN
    BY <1>4, Members DEF Base, Typed
  <2>3. /\ Base(c, A) /\ SameControl(b, c) /\ c.lease = b.lease /\ c.active = b.active
    BY <1>4, <2>1, <2>2, PublishFacts
  <2>4. Whole(c) /\ Typed(c)
    BY <2>3, Members DEF Base
  <2>5. t = [c EXCEPT !.needs_write = FALSE, !.busy = FALSE]
    BY <1>5, <1>7, <2>1
  <2>6. /\ Whole(t) /\ Alike(c, t) /\ t.busy = FALSE /\ t.arp = c.arp
        /\ t.known = c.known /\ t.state = c.state /\ t.timer = c.timer /\ t.recv = c.recv
        /\ t.rto = c.rto
    BY <2>4, <2>5 DEF Whole, Alike
  <2>7. Typed(t)
    BY <2>4, <2>5 DEF Whole, Typed
  <2>8. Base(t, A)
    BY <2>3, <2>6, <2>7, Members, SameBase
  <2>9. /\ t.known = d.known /\ t.state = "bound" /\ t.timer = b.timer /\ t.recv = "none"
        /\ t.arp = NoArp /\ ~t.rto /\ t.lease = b.lease /\ t.active # NoAddr
    BY <1>4, <2>3, <2>6 DEF Alike, SameControl
  <2>10. Phase(t, A) /\ Driven(t) /\ Linked(t)
    BY <1>4, <2>6, <2>9, Kinds DEF Phase, Belongs, IsBound, Driven, Linked, SSID
  <2> QED BY <2>8, <2>9, <2>10 DEF Good
<1> QED BY <1>6, <1>7

LEMMA BoundStep ==
    ASSUME NEW A \in Acks, NEW d, Base(d, A), Acked(d, A), now \in Nat, d.known # NoNet,
           NEW t, t = dhcp_bound(d)
    PROVE  Good(t, A) /\ t.known = d.known
<1>1. PICK c : c = dhcp_cancel_pending_events(d)
  OBVIOUS
<1>2. /\ Base(c, A) /\ Alike(d, c) /\ c.timer = NoTimer /\ c.recv = "none" /\ c.arp = NoArp
      /\ c.known = d.known /\ c.saved = d.saved
  BY <1>1, CancelFacts
<1>3. PICK w \in BOOLEAN : w = IF d.state \in {"renew", "rebind"}
                               THEN T1(d.lease) - now > WriteThreshold ELSE TRUE
  <2>1. (T1(d.lease) - now > WriteThreshold) \in BOOLEAN
    OBVIOUS
  <2> QED BY <2>1
<1>4. PICK b : b = [c EXCEPT !.state = "bound", !.collisions = FALSE, !.needs_write = w]
  OBVIOUS
<1>5. Whole(c) /\ Typed(c)
  BY <1>2, Members DEF Base
<1>6. /\ Whole(b) /\ Alike(c, b) /\ b.state = "bound" /\ b.collisions = FALSE /\ b.timer = c.timer
      /\ b.recv = c.recv /\ b.arp = c.arp /\ b.known = c.known /\ b.saved = c.saved
  BY <1>4, <1>5 DEF Whole, Alike
<1>7. Typed(b)
  BY <1>4, <1>5 DEF Whole, Typed, States
<1>8. Base(b, A) /\ Acked(b, A)
  BY <1>2, <1>6, <1>7, Members, SameBase DEF Acked
<1>9. t = UseAddress(b) \/ (\E op \in {"probe", "announce"} :
                t = [b EXCEPT !.arp = [op |-> op, info |-> {}, left |-> ArpSecs]])
  BY <1>1, <1>3, <1>4 DEF dhcp_bound
<1>10. CASE t = UseAddress(b)
  BY <1>2, <1>6, <1>8, <1>10, UseStep
<1>11. ASSUME NEW op \in {"probe", "announce"},
              t = [b EXCEPT !.arp = [op |-> op, info |-> {}, left |-> ArpSecs]]
       PROVE  Good(t, A) /\ t.known = d.known
  <2>1. /\ Whole(t) /\ Alike(b, t) /\ t.state = "bound" /\ t.collisions = FALSE /\ t.timer = b.timer
        /\ t.recv = b.recv /\ t.known = b.known /\ t.saved = b.saved
        /\ t.arp = [op |-> op, info |-> {}, left |-> ArpSecs]
    BY <1>6, <1>11 DEF Whole, Alike
  <2>2. Typed(t)
    BY <1>7, <1>6, <1>11, Kinds DEF Whole, Typed
  <2>3. Base(t, A) /\ Acked(t, A)
    BY <1>8, <2>1, <2>2, Members, SameBase DEF Acked
  <2>4. t.arp.op \in {"probe", "announce"} /\ t.timer = NoTimer /\ t.recv = "none" /\ t.known = d.known
    BY <1>2, <1>6, <2>1
  <2>5. Phase(t, A) /\ Driven(t) /\ Linked(t)
    BY <2>1, <2>3, <2>4, Kinds DEF Phase, Belongs, IsBound, Driven, Linked
  <2> QED BY <2>3, <2>4, <2>5 DEF Good
<1> QED BY <1>9, <1>10, <1>11

\* dhcp_bound, IFEventID_arp_e
LEMMA BoundArpStep ==
    ASSUME NEW A \in Acks, NEW d, Base(d, A), Acked(d, A), now \in Nat, d.known # NoNet,
           d.state = "bound", NEW result \in {"error", "in_use", "not_in_use"},
           NEW t, t = dhcp_bound_arp(d, result)
    PROVE  Good(t, A) /\ t.known = d.known
<1>1. CASE result = "error"
  <2>1. t = dhcp_failed(d)
    BY <1>1 DEF dhcp_bound_arp
  <2> QED BY <2>1, FailedStep
<1>2. CASE result = "not_in_use"
  <2>1. PICK c : c = dhcp_cancel_pending_events(d)
    OBVIOUS
  <2>2. t = UseAddress(c)
    BY <1>2, <2>1 DEF dhcp_bound_arp
  <2>3. /\ Base(c, A) /\ c.timer = NoTimer /\ c.recv = "none" /\ c.arp = NoArp
        /\ c.known = d.known /\ c.saved = d.saved /\ c.state = "bound"
    BY <2>1, CancelFacts
  <2> QED BY <2>2, <2>3, UseStep DEF Acked
<1>3. CASE result = "in_use"
  <2>1. PICK e : e = dhcp_lease_clear(d, FALSE)
    OBVIOUS
  <2>2. PICK no \in BOOLEAN : no = FALSE
    OBVIOUS
  <2>a. e = dhcp_lease_clear(d, no)
    BY <2>1, <2>2
  <2>3. PICK l, f : Stored(l, f, A) /\ e = Relist(d, l, f)
    BY <2>a, ClearStep
  <2>4. Base(e, A) /\ SameRest(d, e)
    BY <2>3, Relisted
  <2>5. Whole(e) /\ Typed(e) /\ Stored(e.list, e.file, A)
    BY <2>4, Members DEF Base
  <2>6. PICK v : v = [e EXCEPT !.lease = LeaseOff(e.lease), !.router = RouterOff(e.router),
                               !.published = FALSE]
    OBVIOUS
  <2>7. t = dhcp_decline(v)
    <3>1. v = service_publish_failure(service_router_clear(dhcp_invalidate_lease(e)))
      BY <2>5, <2>6 DEF Whole, service_publish_failure, service_router_clear,
           dhcp_invalidate_lease, RouterOff, LeaseOff
    <3> QED BY <1>3, <2>1, <3>1 DEF dhcp_bound_arp
  <2>8. Whole(v)
    BY <2>5, <2>6 DEF Whole
  <2>9. /\ v.lease = LeaseOff(e.lease) /\ v.router = RouterOff(e.router) /\ v.published = FALSE
        /\ SameControl(e, v) /\ v.saved = e.saved /\ v.active = e.active
        /\ v.list = e.list /\ v.file = e.file
    BY <2>5, <2>6 DEF Whole, SameControl
  <2>10. v.lease \in Lease /\ v.router \in Router
    BY <2>5, <2>9, Offs DEF Typed
  <2>11. v \in Service
    BY <2>5, <2>8, <2>9, <2>10, Members DEF Typed, SameControl
  <2>12. Stored(v.list, v.file, A) /\ ~v.published /\ v.known = d.known
    BY <2>4, <2>5, <2>9 DEF SameControl, SameRest
  <2> QED BY <2>7, <2>11, <2>12, DeclineStep
<1> QED BY <1>1, <1>2, <1>3

\* dhcp_resolve_router_callback
LEMMA ResolvedStep ==
    ASSUME NEW A \in Acks, NEW d, Base(d, A), Phase(d, A), net \in NetOrNone, d.known # NoNet,
           d.state = "bound", d.active # NoAddr, d.arp = NoArp,
           ~Wireless /\ ~d.rto => d.timer.fn # "none" \/ d.lease.len = Infinite,
           NEW result \in {"error", "in_use", "not_in_use"},
           NEW t, t = dhcp_resolve_router_callback(d, result)
    PROVE  Good(t, A) /\ t.known = d.known
<1>0. Whole(d) /\ Typed(d) /\ Acked(d, A) /\ d.lease.valid
  BY Members DEF Base, Keeps
<1>1. PICK b : b = [d EXCEPT !.busy = FALSE]
  OBVIOUS
<1>2. /\ Whole(b) /\ Alike(d, b) /\ b.busy = FALSE /\ b.known = d.known /\ b.state = "bound"
      /\ b.arp = NoArp /\ b.timer = d.timer /\ b.recv = d.recv /\ b.rto = d.rto
      /\ b.collisions = d.collisions /\ b.saved = d.saved
  BY <1>0, <1>1 DEF Whole, Alike
<1>3. Typed(b)
  BY <1>0, <1>1 DEF Whole, Typed
<1>4. Base(b, A)
  BY <1>2, <1>3, Members, SameBase
<1>5. CASE result = "error"
  <2>1. t = b
    BY <1>1, <1>5 DEF dhcp_resolve_router_callback
  <2>2. Phase(t, A) /\ Driven(t) /\ Linked(t)
    BY <1>2, <2>1, Kinds DEF Phase, Belongs, IsBound, Driven, Linked, Alike
  <2> QED BY <1>2, <1>4, <2>1, <2>2 DEF Good
<1>6. CASE result = "not_in_use"
  <2>1. PICK r : r = [b EXCEPT !.timer = [fn |-> "router_retry", left |-> RouterRetry], !.rto = TRUE]
    OBVIOUS
  <2>2. /\ Whole(r) /\ Alike(b, r) /\ r.timer = [fn |-> "router_retry", left |-> RouterRetry]
        /\ r.rto = TRUE /\ r.busy = FALSE /\ r.known = b.known /\ r.state = "bound"
        /\ r.arp = NoArp /\ r.recv = b.recv /\ r.collisions = b.collisions /\ r.saved = b.saved
    BY <1>2, <2>1 DEF Whole, Alike
  <2>3. Typed(r)
    BY <1>2, <1>3, <2>1, Kinds DEF Whole, Typed
  <2>4. Base(r, A)
    BY <1>4, <2>2, <2>3, Members, SameBase
  <2>5. Phase(r, A) /\ Driven(r) /\ Linked(r)
    BY <1>2, <2>2, Kinds DEF Phase, Belongs, IsBound, Driven, Linked, Alike
  <2>6. Good(r, A)
    BY <2>4, <2>5 DEF Good
  <2>7. CASE d.rto
    <3>1. t = r
      <4>1. t = Arm(b, "router_retry", RouterRetry)
        BY <1>1, <1>6, <2>7 DEF dhcp_resolve_router_callback
      <4>2. b.rto = TRUE
        BY <1>2, <1>0, <2>7 DEF Typed
      <4>3. b = [b EXCEPT !.rto = TRUE]
        BY <1>2, <4>2 DEF Whole
      <4> QED BY <1>2, <2>1, <4>1, <4>3 DEF Arm, Whole
    <3> QED BY <1>2, <2>2, <2>6, <3>1
  <2>8. CASE ~d.rto
    <3>1. PICK p : p = dhcp_publish_success(r)
      OBVIOUS
    <3>2. t = dhcp_lease_save(p, TRUE)
      <4>1. r = [Arm(b, "router_retry", RouterRetry) EXCEPT !.rto = TRUE]
        BY <1>2, <2>1 DEF Arm, Whole
      <4> QED BY <1>1, <1>6, <2>8, <3>1, <4>1 DEF dhcp_resolve_router_callback
    <3>3. p = [r EXCEPT !.published = TRUE]
      BY <3>1 DEF dhcp_publish_success
    <3>4. /\ Whole(p) /\ SameControl(r, p) /\ p.lease = r.lease /\ p.saved = r.saved /\ p.router = r.router
          /\ p.active = r.active /\ p.published = TRUE /\ p.list = r.list /\ p.file = r.file
      BY <2>2, <3>3 DEF Whole, SameControl
    <3>5. Typed(p)
      BY <2>3, <3>4 DEF Typed, SameControl
    <3>6. r.active # NoAddr /\ r.lease.valid
      BY <1>2, <1>0, <2>2 DEF Alike
    <3>7. Base(p, A)
      BY <2>4, <3>4, <3>5, <3>6, Members DEF Base, Stored, Keeps, Acked
    <3>8. Phase(p, A) /\ Driven(p) /\ Linked(p)
      BY <2>5, <3>4 DEF Phase, Belongs, IsBound, Driven, Linked, SameControl, Acked
    <3>9. Good(p, A) /\ p.lease.valid
      BY <3>4, <3>6, <3>7, <3>8 DEF Good
    <3>10. PICK yes \in BOOLEAN : yes = TRUE
      OBVIOUS
    <3>a. t = dhcp_lease_save(p, yes)
      BY <3>2, <3>10
    <3>11. PICK l, f : Stored(l, f, A) /\ t = Relist(p, l, f)
      BY <3>a, <3>9, SaveStep DEF Good
    <3>12. Good(t, A) /\ SameRest(p, t)
      BY <3>9, <3>11, Relisted DEF Good
    <3> QED BY <1>2, <2>2, <3>4, <3>12 DEF SameRest, SameControl
  <2> QED BY <2>7, <2>8
<1>7. CASE result = "in_use"
  <2>1. PICK r : r = [d.router EXCEPT !.ia = TRUE, !.hw = TRUE, !.verified = TRUE, !.mac = net]
    OBVIOUS
  <2>2. r \in Router /\ r.ia = TRUE /\ r.hw = TRUE
    BY <1>0, <2>1 DEF Typed, Router
  <2>3. PICK k : k = [b EXCEPT !.router = r]
    OBVIOUS
  <2>4. k = service_router_set_all_valid([b EXCEPT !.router.mac = net])
    BY <1>2, <2>1, <2>3 DEF Whole, Alike, service_router_set_all_valid
  <2>5. /\ Whole(k) /\ SameControl(b, k) /\ k.router = r /\ k.lease = b.lease /\ k.saved = b.saved
        /\ k.active = b.active /\ k.published = b.published /\ k.list = b.list /\ k.file = b.file
    BY <1>2, <2>3 DEF Whole, SameControl
  <2>6. Typed(k)
    BY <1>3, <2>2, <2>5 DEF Typed, SameControl
  <2>7. Acked(k, A) /\ k.saved.ip # NoAddr
    BY <1>0, <1>2, <2>5, AckedFacts DEF Acked
  <2>8. Base(k, A)
    BY <1>4, <2>2, <2>5, <2>6, <2>7, Members DEF Base, Stored, Keeps, Acked
  <2>9. PICK p : p = dhcp_publish_success(dhcp_lease_save(k, k.needs_write))
    OBVIOUS
  <2>10. k.lease.valid /\ k.active # NoAddr /\ k.needs_write \in BOOLEAN
    BY <1>0, <1>2, <2>5, <2>6 DEF Alike, Typed
  <2>11. /\ Base(p, A) /\ SameControl(k, p) /\ p.lease = k.lease /\ p.active = k.active
    BY <2>8, <2>9, <2>10, PublishFacts
  <2>12. Whole(p) /\ Typed(p)
    BY <2>11, Members DEF Base
  <2>13. t = [p EXCEPT !.needs_write = FALSE]
    BY <1>1, <1>7, <2>4, <2>9 DEF dhcp_resolve_router_callback
  <2>14. /\ Whole(t) /\ Alike(p, t) /\ t.known = p.known /\ t.state = p.state /\ t.timer = p.timer
         /\ t.recv = p.recv /\ t.arp = p.arp /\ t.rto = p.rto /\ t.busy = p.busy
         /\ t.collisions = p.collisions
    BY <2>12, <2>13 DEF Whole, Alike
  <2>15. Typed(t)
    BY <2>12, <2>13 DEF Whole, Typed
  <2>16. Base(t, A)
    BY <2>11, <2>14, <2>15, Members, SameBase
  <2>17. /\ t.known = d.known /\ t.state = "bound" /\ t.timer = d.timer /\ t.recv = d.recv
         /\ t.arp = NoArp /\ t.rto = d.rto /\ t.busy = FALSE /\ t.collisions = d.collisions
         /\ t.lease = d.lease /\ t.active = d.active
    BY <1>2, <2>5, <2>11, <2>14 DEF SameControl, Alike
  <2>18. Phase(t, A) /\ Driven(t) /\ Linked(t)
    BY <2>17, Kinds DEF Phase, Belongs, IsBound, Driven, Linked
  <2> QED BY <2>16, <2>17, <2>18 DEF Good
<1> QED BY <1>5, <1>6, <1>7

-----------------------------------------------------------------------------
(* RENEW and REBIND                                                        *)

Here(d) == Wireless /\ d.collisions /\ d.active # NoAddr => d.lease.net = d.known

LEMMA RenewTimeoutStep ==
    ASSUME NEW A \in Acks, NEW d, Base(d, A), Here(d), now \in Nat, d.known # NoNet,
           d.arp.op \in {"none", "check"}, d.arp.op = "none" => d.arp = NoArp,
           d.recv \in {"none", "renew"},
           NEW t, t = dhcp_renew_timeout(d)
    PROVE  Good(t, A) /\ t.known = d.known
<1>0. Whole(d) /\ Typed(d)
  BY Members DEF Base
<1>1. CASE now >= Expiration(d.lease)
  <2>1. PICK p : p = service_publish_failure(d)
    OBVIOUS
  <2>2. PICK no \in BOOLEAN : no = FALSE
    OBVIOUS
  <2>3. t = dhcp_unbound(p, no)
    BY <1>1, <2>1, <2>2 DEF dhcp_renew_timeout
  <2>4. Base(p, A) /\ p.known = d.known /\ ~p.published
    BY <2>1, FailureFacts DEF SameControl
  <2> QED BY <2>3, <2>4, UnboundStep
<1>2. CASE ~(now >= Expiration(d.lease))
  <2>1. PICK s \in {"renew", "rebind"} : s = IF now >= T2(d.lease) THEN "rebind" ELSE "renew"
    OBVIOUS
  <2>2. PICK half : half = ((IF now >= T2(d.lease) THEN Expiration(d.lease) ELSE T2(d.lease)) - now) \div 2
    OBVIOUS
  <2>3. half \in Int
    <3>1. d.lease \in Lease
      BY <1>0 DEF Typed
    <3>2. T2(d.lease) \in Nat /\ Expiration(d.lease) \in Nat
      BY <3>1, Times
    <3> QED BY <2>2, <3>2
  <2>4. PICK w : w = IF half < MinWait THEN MinWait ELSE half
    OBVIOUS
  <2>5. w \in Nat /\ now + w \in Nat
    <3>1. MinWait \in Nat
      BY Kinds
    <3> QED BY <3>1, <2>3, <2>4
  <2>6. t = Arm([d EXCEPT !.state = s, !.rrt = now + w], "renew_timeout", w)
    BY <1>2, <2>1, <2>2, <2>4 DEF dhcp_renew_timeout
  <2>7. PICK n : n = now + w
    OBVIOUS
  <2>8. t = [d EXCEPT !.state = s, !.rrt = n, !.timer = [fn |-> "renew_timeout", left |-> w]]
    BY <2>6, <2>7 DEF Arm
  <2>9. Whole(t)
    BY <1>0, <2>8 DEF Whole
  <2>10. /\ t.state = s /\ t.timer = [fn |-> "renew_timeout", left |-> w] /\ Alike(d, t)
         /\ t.known = d.known /\ t.recv = d.recv /\ t.arp = d.arp /\ t.rto = d.rto
         /\ t.busy = d.busy /\ t.collisions = d.collisions
    BY <1>0, <2>8 DEF Whole, Alike
  <2>11. Typed(t)
    BY <1>0, <2>5, <2>7, <2>8, Kinds DEF Whole, Typed, States
  <2>12. Base(t, A)
    BY <2>9, <2>10, <2>11, Members, SameBase
  <2>13. Phase(t, A) /\ Driven(t) /\ Linked(t)
    BY <2>10, Kinds DEF Here, Phase, Belongs, IsBound, Driven, Linked, Alike
  <2> QED BY <2>10, <2>12, <2>13 DEF Good
<1> QED BY <1>1, <1>2

LEMMA RenewRebindStep ==
    ASSUME NEW A \in Acks, NEW d, Base(d, A), Here(d), now \in Nat, d.known # NoNet,
           NEW t, t = dhcp_renew_rebind(d)
    PROVE  Good(t, A) /\ t.known = d.known
<1>1. PICK c : c = dhcp_cancel_pending_events(d)
  OBVIOUS
<1>2. /\ Base(c, A) /\ Alike(d, c) /\ c.arp = NoArp /\ c.known = d.known /\ c.collisions = d.collisions
  BY <1>1, CancelFacts
<1>3. Whole(c) /\ Typed(c)
  BY <1>2, Members DEF Base
<1>4. PICK u : u = [c EXCEPT !.state = "renew", !.try = 0, !.recv = "renew"]
  OBVIOUS
<1>5. t = dhcp_renew_timeout(u)
  BY <1>1, <1>4 DEF dhcp_renew_rebind
<1>6. Whole(u)
  BY <1>3, <1>4 DEF Whole
<1>7. Alike(c, u) /\ u.arp = c.arp /\ u.known = c.known /\ u.recv = "renew" /\ u.collisions = c.collisions
  BY <1>3, <1>4 DEF Whole, Alike
<1>8. Typed(u)
  BY <1>3, <1>4, Kinds DEF Whole, Typed, States
<1>9. Base(u, A)
  BY <1>2, <1>6, <1>7, <1>8, Members, SameBase
<1>10. Here(u) /\ u.arp = NoArp /\ u.arp.op = "none" /\ u.known = d.known
  BY <1>2, <1>7, Kinds DEF Here, Alike
<1> QED BY <1>5, <1>7, <1>9, <1>10, RenewTimeoutStep

\* ResumeRenewal: towards RENEW again, when the lease has an end.
LEMMA ResumeStep ==
    ASSUME NEW A \in Acks, NEW d, Good(d, A), now \in Nat, d.known # NoNet, IsBound(d),
           NEW skew \in Nat, NEW t, t = ResumeRenewal(d, skew)
    PROVE  Good(t, A) /\ t.known = d.known
<1>0. Whole(d) /\ Typed(d) /\ Base(d, A) /\ Here(d)
  BY Members DEF Good, Base, Phase, Here
<1>1. CASE d.lease.len = Infinite
  BY <1>1 DEF ResumeRenewal
<1>2. CASE d.lease.len # Infinite /\ d.rrt - now >= skew
  <2>1. PICK n : n = d.rrt - now
    OBVIOUS
  <2>2. n \in Nat
    <3>1. d.rrt \in Nat
      BY <1>0 DEF Typed
    <3> QED BY <1>2, <2>1, <3>1
  <2>3. t = [d EXCEPT !.timer = [fn |-> "renew_start", left |-> n]]
    BY <1>2, <2>1 DEF ResumeRenewal, Arm
  <2>4. Whole(t)
    BY <1>0, <2>3 DEF Whole
  <2>5. /\ Alike(d, t) /\ t.timer = [fn |-> "renew_start", left |-> n] /\ t.state = d.state
        /\ t.known = d.known /\ t.recv = d.recv /\ t.arp = d.arp /\ t.rto = d.rto
        /\ t.busy = d.busy /\ t.collisions = d.collisions /\ t.saved = d.saved /\ t.gathering = d.gathering
    BY <1>0, <2>3 DEF Whole, Alike
  <2>6. Typed(t)
    BY <1>0, <2>2, <2>3, Kinds DEF Whole, Typed
  <2>7. Base(t, A)
    BY <1>0, <2>4, <2>5, <2>6, Members, SameBase
  <2>8. Phase(t, A) /\ Driven(t) /\ Linked(t)
    BY <2>5, Kinds DEF Good, Phase, Belongs, IsBound, Driven, Linked, Alike, Acked
  <2> QED BY <2>5, <2>7, <2>8 DEF Good
<1>3. CASE d.lease.len # Infinite /\ ~(d.rrt - now >= skew)
  <2>1. t = dhcp_renew_rebind(d)
    BY <1>3 DEF ResumeRenewal
  <2> QED BY <1>0, <2>1, RenewRebindStep
<1> QED BY <1>1, <1>2, <1>3

-----------------------------------------------------------------------------
(* INIT and INIT-REBOOT                                                    *)

Tried(d) == [d EXCEPT !.try = @ + 1]
LEMMA TriedFacts ==
    ASSUME NEW A, NEW d, Base(d, A), NEW t, t = Tried(d)
    PROVE  /\ Base(t, A) /\ Alike(d, t) /\ t.known = d.known /\ t.state = d.state
           /\ t.timer = d.timer /\ t.recv = d.recv /\ t.arp = d.arp /\ t.rto = d.rto
           /\ t.gathering = d.gathering /\ t.saved = d.saved /\ t.busy = d.busy
           /\ t.collisions = d.collisions
<1>0. Whole(d) /\ Typed(d)
  BY Members DEF Base
<1>1. PICK n : n = d.try + 1
  OBVIOUS
<1>2. n \in Nat
  BY <1>0, <1>1 DEF Typed
<1>3. t = [d EXCEPT !.try = n]
  BY <1>1 DEF Tried
<1>4. Whole(t)
  BY <1>0, <1>3 DEF Whole
<1>5. /\ Alike(d, t) /\ t.known = d.known /\ t.state = d.state
      /\ t.timer = d.timer /\ t.recv = d.recv /\ t.arp = d.arp /\ t.rto = d.rto
      /\ t.gathering = d.gathering /\ t.saved = d.saved /\ t.busy = d.busy
      /\ t.collisions = d.collisions
  BY <1>0, <1>3 DEF Whole, Alike
<1>6. Typed(t)
  BY <1>0, <1>2, <1>3 DEF Whole, Typed
<1> QED BY <1>4, <1>5, <1>6, Members, SameBase

\* Arming the timer of a client in INIT or INIT-REBOOT.
LEMMA ArmInit ==
    ASSUME NEW A, NEW d, Base(d, A), d.known # NoNet, d.state \in {"init", "init_reboot"},
           d.state = "init" => d.active = NoAddr,
           d.state = "init_reboot" => d.lease.valid /\ (d.gathering => Acked(d, A)),
           d.arp = NoArp \/ d.arp.op = "router", d.recv \in {"none", d.state},
           NEW n \in Nat, NEW t, t = Arm(d, d.state, n)
    PROVE  Good(t, A) /\ t.known = d.known
<1>0. Whole(d) /\ Typed(d)
  BY Members DEF Base
<1>1. t = [d EXCEPT !.timer = [fn |-> d.state, left |-> n]]
  BY DEF Arm
<1>2. Whole(t)
  BY <1>0, <1>1 DEF Whole
<1>3. /\ Alike(d, t) /\ t.timer = [fn |-> d.state, left |-> n] /\ t.known = d.known
      /\ t.state = d.state /\ t.recv = d.recv /\ t.arp = d.arp /\ t.rto = d.rto
      /\ t.gathering = d.gathering /\ t.saved = d.saved /\ t.busy = d.busy
      /\ t.collisions = d.collisions
  BY <1>0, <1>1 DEF Whole, Alike
<1>4. d.state \in Timers
  BY Kinds
<1>5. Typed(t)
  BY <1>0, <1>1, <1>4, Kinds DEF Whole, Typed
<1>6. Base(t, A)
  BY <1>2, <1>3, <1>5, Members, SameBase
<1>7. t.timer.fn = d.state
  BY <1>3
<1>8. Phase(t, A) /\ Driven(t) /\ Linked(t)
  BY <1>3, <1>7, Kinds DEF Phase, Belongs, IsBound, Driven, Linked, Alike, Acked
<1> QED BY <1>3, <1>6, <1>8 DEF Good

LEMMA InitTimeoutStep ==
    ASSUME NEW A \in Acks, NEW d, Base(d, A), d.known # NoNet, d.state = "init", d.active = NoAddr,
           d.arp = NoArp \/ d.arp.op = "router", d.recv \in {"none", "init"}, now \in Nat,
           NEW t, t = dhcp_init_timeout(d)
    PROVE  Good(t, A) /\ t.known = d.known
<1>1. PICK b : b = Tried(d)
  OBVIOUS
<1>2. PICK c : c = IF b.try >= RouterArpAt + 1 /\ ~service_router_all_valid(b)
                   THEN dhcp_arp_router(b) ELSE b
  OBVIOUS
<1>3. /\ Base(b, A) /\ b.known = d.known /\ b.state = "init" /\ b.active = NoAddr
      /\ (b.arp = NoArp \/ b.arp.op = "router") /\ b.recv \in {"none", "init"}
  BY <1>1, TriedFacts DEF Alike
<1>4. /\ Base(c, A) /\ c.known = d.known /\ c.state = "init" /\ c.active = NoAddr
      /\ (c.arp = NoArp \/ c.arp.op = "router") /\ c.recv \in {"none", "init"}
  <2>1. CASE c = b
    BY <1>3, <2>1
  <2>2. CASE c = dhcp_arp_router(b)
    BY <1>3, <2>2, ArpRouterStep
  <2> QED BY <1>2, <2>1, <2>2
<1>5. Link(d)
  BY DEF Link
<1>6. \/ t = dhcp_select(d)
      \/ service_router_all_valid(c) /\ t = dhcp_bound(c)
      \/ t = dhcp_no_server(c)
      \/ t = Arm(c, "init", RetrySecs)
  BY <1>1, <1>2, <1>5 DEF dhcp_init_timeout, Tried
<1>7. CASE t = dhcp_select(d)
  BY <1>7, SelectStep
<1>8. CASE service_router_all_valid(c) /\ t = dhcp_bound(c)
  <2>1. Acked(c, A)
    BY <1>4, <1>8 DEF service_router_all_valid, Base, Keeps
  <2> QED BY <1>4, <1>8, <2>1, BoundStep
<1>9. CASE t = dhcp_no_server(c)
  BY <1>4, <1>9, NoServerStep
<1>10. CASE t = Arm(c, "init", RetrySecs)
  <2>1. t = Arm(c, c.state, RetrySecs) /\ RetrySecs \in Nat
    BY <1>4, <1>10, Kinds
  <2> QED BY <1>4, <2>1, ArmInit
<1> QED BY <1>6, <1>7, <1>8, <1>9, <1>10

\* dhcp_init and dhcp_init_reboot begin alike.
Begin(d, s) ==
    [dhcp_cancel_pending_events(d) EXCEPT
        !.state = s, !.rto = FALSE, !.try = 0, !.gathering = FALSE,
        !.saved.rating = 0, !.got_nak = FALSE, !.recv = s, !.busy = TRUE]
LEMMA BeginFacts ==
    ASSUME NEW A, NEW d, Base(d, A), NEW s \in {"init", "init_reboot"}, NEW t, t = Begin(d, s)
    PROVE  /\ Base(t, A) /\ t.state = s /\ t.recv = s /\ t.arp = NoArp /\ t.timer = NoTimer
           /\ ~t.gathering /\ t.known = d.known /\ t.active = d.active /\ t.lease = d.lease
<1>1. PICK c : c = dhcp_cancel_pending_events(d)
  OBVIOUS
<1>2. /\ Base(c, A) /\ c.timer = NoTimer /\ c.arp = NoArp /\ c.known = d.known
      /\ c.active = d.active /\ c.lease = d.lease
  BY <1>1, CancelFacts DEF Alike
<1>3. Whole(c) /\ Typed(c)
  BY <1>2, Members DEF Base
<1>4. PICK v : v = [c.saved EXCEPT !.rating = 0]
  OBVIOUS
<1>5. v \in Saved /\ v.ip = c.saved.ip /\ v.src = c.saved.src
  BY <1>3, <1>4, Parts DEF Typed, Saved
<1>6. t = [c EXCEPT !.state = s, !.rto = FALSE, !.try = 0, !.gathering = FALSE, !.saved = v,
                    !.got_nak = FALSE, !.recv = s, !.busy = TRUE]
  BY <1>1, <1>3, <1>4 DEF Begin, Whole
<1>7. Whole(t)
  BY <1>3, <1>6 DEF Whole
<1>8. /\ t.state = s /\ t.recv = s /\ t.arp = c.arp /\ t.timer = c.timer
      /\ t.gathering = FALSE /\ t.known = c.known /\ t.active = c.active /\ t.lease = c.lease
      /\ t.saved = v
  BY <1>3, <1>6 DEF Whole
<1>9. t.router = c.router /\ t.published = c.published /\ t.list = c.list /\ t.file = c.file
  BY <1>3, <1>6 DEF Whole
<1>10. Typed(t)
  <2>1. t.try = 0 /\ t.rto = FALSE /\ t.got_nak = FALSE /\ t.busy = TRUE
    BY <1>3, <1>6 DEF Whole
  <2>2. t.rrt = c.rrt /\ t.needs_write = c.needs_write /\ t.collisions = c.collisions
    BY <1>3, <1>6 DEF Whole
  <2>3. 0 \in Nat /\ s \in States
    BY DEF States
  <2> QED BY <1>3, <1>5, <1>8, <1>9, <2>1, <2>2, <2>3 DEF Typed
<1>11. Base(t, A)
  BY <1>2, <1>5, <1>7, <1>8, <1>9, <1>10, Members, SameBase DEF Alike
<1> QED BY <1>2, <1>8, <1>11

LEMMA InitStep ==
    ASSUME NEW A \in Acks, NEW d, Base(d, A), d.known # NoNet, d.active = NoAddr, now \in Nat,
           NEW t, t = dhcp_init(d)
    PROVE  Good(t, A) /\ t.known = d.known
<1>0. PICK s \in {"init", "init_reboot"} : s = "init"
  OBVIOUS
<1>1. PICK u : u = Begin(d, s)
  OBVIOUS
<1>2. t = dhcp_init_timeout(u)
  BY <1>0, <1>1 DEF dhcp_init, Begin
<1>3. /\ Base(u, A) /\ u.state = "init" /\ u.recv = "init" /\ u.arp = NoArp
      /\ u.known = d.known /\ u.active = d.active
  BY <1>0, <1>1, BeginFacts
<1> QED BY <1>2, <1>3, InitTimeoutStep

LEMMA InitRebootTimeoutStep ==
    ASSUME NEW A \in Acks, NEW d, Base(d, A), d.known # NoNet, d.state = "init_reboot", d.lease.valid,
           d.gathering => Acked(d, A),
           d.arp = NoArp \/ d.arp.op = "router", d.recv \in {"none", "init_reboot"}, now \in Nat,
           NEW t, t = dhcp_init_reboot_timeout(d)
    PROVE  Good(t, A) /\ t.known = d.known
<1>1. PICK b : b = Tried(d)
  OBVIOUS
<1>2. PICK c : c = dhcp_arp_router(b)
  OBVIOUS
<1>3. /\ Base(b, A) /\ b.known = d.known /\ b.state = "init_reboot" /\ b.lease = d.lease
      /\ (b.arp = NoArp \/ b.arp.op = "router") /\ b.recv \in {"none", "init_reboot"}
      /\ b.gathering = d.gathering /\ b.saved = d.saved
  BY <1>1, TriedFacts DEF Alike
<1>4. /\ Base(c, A) /\ c.known = d.known /\ c.state = "init_reboot" /\ c.lease = d.lease
      /\ (c.arp = NoArp \/ c.arp.op = "router") /\ c.recv \in {"none", "init_reboot"}
      /\ c.gathering = d.gathering /\ c.saved = d.saved
  BY <1>2, <1>3, ArpRouterStep
<1>5. Link(d)
  BY DEF Link
<1>6. PICK p : p = service_publish_failure(service_remove_address(c))
  OBVIOUS
<1>7. \/ d.gathering /\ t = dhcp_bound(d)
      \/ t = dhcp_init(p)
      \/ t = Arm(c, "init_reboot", RetrySecs)
  BY <1>1, <1>2, <1>5, <1>6 DEF dhcp_init_reboot_timeout, Tried
<1>8. CASE d.gathering /\ t = dhcp_bound(d)
  BY <1>8, BoundStep
<1>9. CASE t = dhcp_init(p)
  <2>1. Base(p, A) /\ p.known = d.known /\ p.active = NoAddr
    BY <1>4, <1>6, DroppedFacts DEF SameControl
  <2> QED BY <1>9, <2>1, InitStep
<1>10. CASE t = Arm(c, "init_reboot", RetrySecs)
  <2>1. t = Arm(c, c.state, RetrySecs) /\ RetrySecs \in Nat
    BY <1>4, <1>10, Kinds
  <2>2. c.lease.valid /\ (c.gathering => Acked(c, A))
    BY <1>4 DEF Acked
  <2> QED BY <1>4, <2>1, <2>2, ArmInit
<1> QED BY <1>7, <1>8, <1>9, <1>10

LEMMA InitRebootStep ==
    ASSUME NEW A \in Acks, NEW d, Base(d, A), d.known # NoNet, d.lease.valid, now \in Nat,
           NEW t, t = dhcp_init_reboot(d)
    PROVE  Good(t, A) /\ t.known = d.known
<1>0. PICK s \in {"init", "init_reboot"} : s = "init_reboot"
  OBVIOUS
<1>1. PICK u : u = Begin(d, s)
  OBVIOUS
<1>2. t = dhcp_init_reboot_timeout(u)
  BY <1>0, <1>1 DEF dhcp_init_reboot, Begin
<1>3. /\ Base(u, A) /\ u.state = "init_reboot" /\ u.recv = "init_reboot" /\ u.arp = NoArp
      /\ u.known = d.known /\ u.lease = d.lease /\ ~u.gathering
  BY <1>0, <1>1, BeginFacts
<1> QED BY <1>2, <1>3, InitRebootTimeoutStep

\* dhcp_select, IFEventID_timeout_e
LEMMA SelectRetryStep ==
    ASSUME NEW A \in Acks, NEW d, Base(d, A), d.known # NoNet, d.active = NoAddr, d.state = "select",
           d.arp = NoArp, d.recv \in {"none", "select"}, now \in Nat,
           NEW t, t = dhcp_select_retry(d)
    PROVE  Good(t, A) /\ t.known = d.known
<1>1. CASE t = dhcp_init(d)
  BY <1>1, InitStep
<1>2. CASE t = dhcp_select_timeout(d)
  <2>1. PICK b : b = Tried(d)
    OBVIOUS
  <2>2. /\ Base(b, A) /\ b.known = d.known /\ b.state = "select" /\ b.active = NoAddr
        /\ b.arp = NoArp /\ b.recv \in {"none", "select"}
    BY <2>1, TriedFacts DEF Alike
  <2>3. Whole(b) /\ Typed(b)
    BY <2>2, Members DEF Base
  <2>4. t = [b EXCEPT !.timer = [fn |-> "select", left |-> RetrySecs]]
    BY <1>2, <2>1 DEF dhcp_select_timeout, Arm, Tried
  <2>5. Whole(t)
    BY <2>3, <2>4 DEF Whole
  <2>6. /\ Alike(b, t) /\ t.timer = [fn |-> "select", left |-> RetrySecs] /\ t.known = b.known
        /\ t.state = b.state /\ t.recv = b.recv /\ t.arp = b.arp
    BY <2>3, <2>4 DEF Whole, Alike
  <2>7. Typed(t)
    BY <2>3, <2>4, Kinds DEF Whole, Typed
  <2>8. Base(t, A)
    BY <2>2, <2>5, <2>6, <2>7, Members, SameBase
  <2>9. Phase(t, A) /\ Driven(t) /\ Linked(t)
    BY <2>2, <2>6, Kinds DEF Phase, Belongs, IsBound, Driven, Linked, Alike
  <2> QED BY <2>2, <2>6, <2>8, <2>9 DEF Good
<1> QED BY <1>1, <1>2 DEF dhcp_select_retry

-----------------------------------------------------------------------------
(* Replies                                                                 *)

LEMMA SavePacketFacts ==
    ASSUME NEW A \in Acks, NEW d, Base(d, A), NEW p \in Reply, NEW r \in 0..MaxRating, net \in Net, now \in Nat,
           d.active # NoAddr \/ d.router.hw => <<net, p.ip>> \in A,
           d.active # NoAddr => p.ip = d.saved.ip,
           NEW t, t = SavePacket(d, p, r)
    PROVE  /\ Base(t, A) /\ SameControl(d, t) /\ t.saved.ip = p.ip /\ t.saved.src = net
           /\ t.lease.valid = d.lease.valid /\ t.lease.net = d.lease.net /\ t.router = d.router
           /\ t.active = d.active /\ t.published = d.published
<1>0. Whole(d) /\ Typed(d)
  BY Members DEF Base
<1>1. /\ p.ip \in Addr /\ p.len \in Nat /\ p.rtr \in BOOLEAN /\ p.ip # NoAddr
  BY Kinds DEF Reply
<1>2. PICK v : v = [ip |-> p.ip, rating |-> r, rtr |-> p.rtr, opts |-> TRUE, src |-> net]
  OBVIOUS
<1>3. v \in Saved /\ v.ip = p.ip /\ v.src = net
  BY <1>1, <1>2 DEF Saved, NetOrNone
<1>4. PICK l : l = [d.lease EXCEPT !.start = now, !.len = p.len]
  OBVIOUS
<1>5. l \in Lease /\ l.valid = d.lease.valid /\ l.net = d.lease.net
  BY <1>0, <1>1, <1>4 DEF Typed, Lease
<1>6. t = [d EXCEPT !.saved = v, !.lease = l]
  BY <1>0, <1>2, <1>4 DEF SavePacket, Whole
<1>7. Whole(t)
  BY <1>0, <1>6 DEF Whole
<1>8. /\ SameControl(d, t) /\ t.saved = v /\ t.lease = l /\ t.router = d.router
      /\ t.active = d.active /\ t.published = d.published /\ t.list = d.list /\ t.file = d.file
  BY <1>0, <1>6 DEF Whole, SameControl
<1>9. Typed(t)
  BY <1>0, <1>3, <1>5, <1>8 DEF Typed, SameControl
<1>10. Base(t, A)
  BY <1>1, <1>3, <1>5, <1>7, <1>8, <1>9, Members DEF Base, Stored, Keeps, Acked
<1> QED BY <1>3, <1>5, <1>8, <1>10

\* A client in INIT or INIT-REBOOT that saved a packet gathers more.
LEMMA GatherStep ==
    ASSUME NEW A \in Acks, NEW d, Base(d, A), Phase(d, A), Driven(d), d.known # NoNet,
           d.state \in {"init", "init_reboot"}, d.state = "init" => d.active = NoAddr,
           d.state = "init_reboot" => d.lease.valid /\ Acked(d, A),
           NEW t, t = Gather(d, d.state)
    PROVE  Good(t, A) /\ t.known = d.known
<1>0. Whole(d) /\ Typed(d)
  BY Members DEF Base
<1>1. CASE d.gathering
  <2>1. t = d
    BY <1>1 DEF Gather
  <2> QED BY <2>1, <1>1 DEF Good, Linked
<1>2. CASE ~d.gathering
  <2>1. PICK u : u = [d EXCEPT !.gathering = TRUE]
    OBVIOUS
  <2>2. t = Arm(u, d.state, GatherSecs)
    BY <1>2, <2>1 DEF Gather
  <2>3. /\ Whole(u) /\ Alike(d, u) /\ u.state = d.state /\ u.known = d.known /\ u.arp = d.arp
        /\ u.recv = d.recv /\ u.saved = d.saved
    BY <1>0, <2>1 DEF Whole, Alike
  <2>4. Typed(u)
    BY <1>0, <2>1 DEF Whole, Typed
  <2>5. Base(u, A)
    BY <2>3, <2>4, Members, SameBase
  <2>6. (u.arp = NoArp \/ u.arp.op = "router") /\ u.recv \in {"none", u.state}
    BY <1>0, <2>3, Kinds DEF Phase, Belongs, IsBound, Typed, ArpRequest
  <2>7. u.state = "init_reboot" => u.lease.valid /\ Acked(u, A)
    BY <2>3 DEF Alike, Acked
  <2>8. GatherSecs \in Nat /\ t = Arm(u, u.state, GatherSecs) /\ (u.state = "init" => u.active = NoAddr)
    BY <2>2, <2>3, Kinds DEF Alike
  <2> QED BY <2>3, <2>5, <2>6, <2>7, <2>8, ArmInit
<1> QED BY <1>1, <1>2

\* The packet is saved after the router's flags were cleared.
ClearAndSave(d, p) == SavePacket(service_router_clear(d), p, p.rating)
LEMMA ClearedSave ==
    ASSUME NEW A \in Acks, NEW B \in Acks, A \subseteq B, NEW d, Good(d, A),
           NEW p \in Reply, net \in Net, now \in Nat,
           d.state \in {"init", "init_reboot"},
           d.state = "init_reboot" => <<net, p.ip>> \in B /\ p.ip = d.saved.ip,
           NEW t, t = ClearAndSave(d, p)
    PROVE  /\ Base(t, B) /\ Phase(t, B) /\ Driven(t) /\ t.known = d.known /\ t.state = d.state
           /\ (t.state = "init" => t.active = NoAddr) /\ t.known # NoNet
           /\ t.lease.valid = d.lease.valid
           /\ t.saved.ip = p.ip /\ t.saved.src = net
<1>1. PICK c : c = service_router_clear(d)
  OBVIOUS
<1>2. /\ Base(c, A) /\ SameControl(d, c) /\ ~c.router.hw /\ ~c.router.ia
      /\ c.lease = d.lease /\ c.saved = d.saved /\ c.active = d.active
  BY <1>1, RouterClearFacts DEF Good
<1>3. Base(c, B)
  BY <1>2, Mono
<1>4. d.state = "init" => d.active = NoAddr
  BY DEF Good, Phase
<1>5. p.rating \in 0..MaxRating
  BY ClientAssumption DEF Reply
<1>6. c.active # NoAddr \/ c.router.hw => <<net, p.ip>> \in B
  BY <1>2, <1>4
<1>7. c.active # NoAddr => p.ip = c.saved.ip
  BY <1>2, <1>4
<1>8. t = SavePacket(c, p, p.rating)
  BY <1>1 DEF ClearAndSave
<1>9. /\ Base(t, B) /\ SameControl(c, t) /\ t.saved.ip = p.ip /\ t.saved.src = net
      /\ t.lease.valid = c.lease.valid /\ t.lease.net = c.lease.net
      /\ t.active = c.active /\ t.router = c.router
  BY <1>3, <1>5, <1>6, <1>7, <1>8, SavePacketFacts
<1>10. /\ t.known = d.known /\ t.state = d.state /\ t.timer = d.timer /\ t.recv = d.recv
       /\ t.arp = d.arp /\ t.gathering = d.gathering /\ t.rto = d.rto /\ t.busy = d.busy
       /\ t.collisions = d.collisions /\ t.active = d.active /\ t.lease.valid = d.lease.valid
       /\ t.lease.net = d.lease.net /\ ~t.router.ia
  BY <1>2, <1>9 DEF SameControl
<1>11. d.state = "init_reboot" => Acked(t, B)
  BY <1>9 DEF Acked
<1>12. Phase(t, B) /\ Driven(t) /\ t.known # NoNet
  BY <1>10, <1>11, Kinds DEF Good, Phase, Belongs, IsBound, Driven, Linked
<1> QED BY <1>4, <1>9, <1>10, <1>12

LEMMA InitDataStep ==
    ASSUME NEW A \in Acks, NEW d, Good(d, A), d.recv = "init", NEW p \in Reply, net \in Net, now \in Nat,
           NEW t, t = dhcp_init_data(d, p)
    PROVE  Good(t, A) /\ t.known = d.known
<1>0. d.state = "init" /\ d.active = NoAddr /\ Base(d, A)
  BY DEF Good, Phase, Belongs
<1>1. PICK s : s = ClearAndSave(d, p)
  OBVIOUS
<1>2. /\ Base(s, A) /\ Phase(s, A) /\ Driven(s) /\ s.known = d.known /\ s.state = d.state
      /\ (s.state = "init" => s.active = NoAddr) /\ s.known # NoNet
  <2>1. A \subseteq A
    OBVIOUS
  <2>2. d.state \in {"init", "init_reboot"}
    BY <1>0
  <2>3. d.state = "init_reboot" => <<net, p.ip>> \in A /\ p.ip = d.saved.ip
    BY <1>0
  <2> QED BY <1>1, <2>1, <2>2, <2>3, ClearedSave
<1>3. t = dhcp_wait(d) \/ t = d \/ t = dhcp_select(s) \/ t = Gather(s, s.state)
  BY <1>0, <1>1, <1>2 DEF dhcp_init_data, ClearAndSave
<1>4. CASE t = dhcp_wait(d)
  BY <1>0, <1>4, WaitStep
<1>5. CASE t = dhcp_select(s)
  BY <1>0, <1>2, <1>5, SelectStep
<1>6. CASE t = Gather(s, s.state)
  BY <1>0, <1>2, <1>6, GatherStep
<1> QED BY <1>3, <1>4, <1>5, <1>6

LEMMA SelectDataStep ==
    ASSUME NEW A \in Acks, NEW B \in Acks, A \subseteq B, NEW d, Good(d, A), d.recv = "select",
           NEW p \in Reply, net \in Net, now \in Nat, p.type # "nak" => <<net, p.ip>> \in B,
           NEW t, t = dhcp_select_data(d, p)
    PROVE  Good(t, B) /\ t.known = d.known
<1>0. d.state = "select" /\ d.active = NoAddr /\ Base(d, B) /\ d.known # NoNet
  BY Mono DEF Good, Phase, Belongs, Linked
<1>1. CASE p.type = "nak"
  <2>1. PICK c : c = dhcp_cancel_pending_events(d)
    OBVIOUS
  <2>2. /\ Base(c, B) /\ Alike(d, c) /\ c.recv = "none" /\ c.arp = NoArp
        /\ c.known = d.known /\ c.state = "select"
    BY <1>0, <2>1, CancelFacts
  <2>3. Whole(c) /\ Typed(c)
    BY <2>2, Members DEF Base
  <2>4. t = [c EXCEPT !.timer = [fn |-> "init_start", left |-> InitRetry]]
    BY <1>1, <2>1 DEF dhcp_select_data, Arm
  <2>5. Whole(t)
    BY <2>3, <2>4 DEF Whole
  <2>6. /\ Alike(c, t) /\ t.timer = [fn |-> "init_start", left |-> InitRetry] /\ t.known = c.known
        /\ t.state = c.state /\ t.recv = c.recv /\ t.arp = c.arp
    BY <2>3, <2>4 DEF Whole, Alike
  <2>7. Typed(t)
    BY <2>3, <2>4, Kinds DEF Whole, Typed
  <2>8. Base(t, B)
    BY <2>2, <2>5, <2>6, <2>7, Members, SameBase
  <2>9. t.active = NoAddr
    BY <1>0, <2>2, <2>6 DEF Alike
  <2>10. Phase(t, B) /\ Driven(t) /\ Linked(t)
    BY <1>0, <2>2, <2>6, <2>9, Kinds DEF Phase, Belongs, IsBound, Driven, Linked
  <2> QED BY <2>2, <2>6, <2>8, <2>10 DEF Good
<1>2. CASE p.type # "nak"
  <2>1. PICK z \in 0..MaxRating : z = 0
    BY ClientAssumption
  <2>2. PICK s : s = SavePacket(d, p, z)
    OBVIOUS
  <2>3. t = dhcp_bound(s)
    BY <1>2, <2>1, <2>2 DEF dhcp_select_data
  <2>4. /\ Base(s, B) /\ SameControl(d, s) /\ s.saved.ip = p.ip /\ s.saved.src = net
    BY <1>0, <1>2, <2>2, SavePacketFacts
  <2>5. Acked(s, B) /\ s.known = d.known
    BY <1>2, <2>4 DEF Acked, SameControl
  <2> QED BY <1>0, <2>3, <2>4, <2>5, BoundStep
<1> QED BY <1>1, <1>2

LEMMA InitRebootDataStep ==
    ASSUME NEW A \in Acks, NEW B \in Acks, A \subseteq B, NEW d, Good(d, A), d.recv = "init_reboot",
           NEW p \in Reply, net \in Net, now \in Nat, p.type \in {"ack", "nak"},
           p.type = "ack" => <<net, p.ip>> \in B,
           NEW t, t = dhcp_init_reboot_data(d, p)
    PROVE  Good(t, B) /\ t.known = d.known
<1>0. /\ d.state = "init_reboot" /\ d.lease.valid /\ Base(d, B) /\ d.known # NoNet
      /\ Good(d, B) /\ Whole(d) /\ Typed(d)
  BY Mono, Members DEF Good, Phase, Belongs, Linked, Base
<1>1. PICK s : s = ClearAndSave(d, p)
  OBVIOUS
<1>2. CASE p.type = "nak" /\ d.arp.op # "none"
  <2>1. t = [d EXCEPT !.got_nak = TRUE]
    BY <1>2 DEF dhcp_init_reboot_data
  <2>2. /\ Whole(t) /\ Alike(d, t) /\ t.known = d.known /\ t.state = d.state /\ t.timer = d.timer
        /\ t.recv = d.recv /\ t.arp = d.arp /\ t.gathering = d.gathering /\ t.rto = d.rto
        /\ t.busy = d.busy /\ t.collisions = d.collisions /\ t.saved = d.saved
    BY <1>0, <2>1 DEF Whole, Alike
  <2>3. Typed(t)
    BY <1>0, <2>1 DEF Whole, Typed
  <2>4. Base(t, B)
    BY <1>0, <2>2, <2>3, Members, SameBase
  <2>5. Phase(t, B) /\ Driven(t) /\ Linked(t)
    BY <1>0, <2>2 DEF Good, Phase, Belongs, IsBound, Driven, Linked, Alike, Acked
  <2> QED BY <2>2, <2>4, <2>5 DEF Good
<1>3. CASE p.type = "nak" /\ d.arp.op = "none"
  <2>1. PICK yes \in BOOLEAN : yes = TRUE
    OBVIOUS
  <2>2. PICK q : q = service_publish_failure(d)
    OBVIOUS
  <2>3. t = dhcp_unbound(q, yes)
    BY <1>3, <2>1, <2>2 DEF dhcp_init_reboot_data
  <2>4. Base(q, B) /\ ~q.published /\ q.known = d.known
    BY <1>0, <2>2, FailureFacts DEF SameControl
  <2> QED BY <1>0, <2>3, <2>4, UnboundStep
<1>4. CASE p.type = "ack"
  <2>1. \/ t = dhcp_wait(d)
        \/ t = d
        \/ p.ip = d.saved.ip /\ (t = dhcp_bound(s) \/ t = Gather(s, "init_reboot"))
    BY <1>1, <1>4 DEF dhcp_init_reboot_data, ClearAndSave
  <2>2. CASE t = dhcp_wait(d)
    BY <1>0, <2>2, WaitStep
  <2>3. CASE t = d
    BY <1>0, <2>3
  <2>4. CASE p.ip = d.saved.ip /\ (t = dhcp_bound(s) \/ t = Gather(s, "init_reboot"))
    <3>1. /\ Base(s, B) /\ Phase(s, B) /\ Driven(s) /\ s.known = d.known /\ s.state = d.state
          /\ (s.state = "init" => s.active = NoAddr) /\ s.known # NoNet
          /\ s.lease.valid = d.lease.valid
          /\ s.saved.ip = p.ip /\ s.saved.src = net
      <4>1. d.state \in {"init", "init_reboot"}
        BY <1>0
      <4>2. d.state = "init_reboot" => <<net, p.ip>> \in B /\ p.ip = d.saved.ip
        BY <1>4, <2>4
      <4> QED BY <1>1, <4>1, <4>2, ClearedSave
    <3>2. Acked(s, B)
      BY <1>4, <3>1 DEF Acked
    <3>3. CASE t = dhcp_bound(s)
      BY <3>1, <3>2, <3>3, BoundStep
    <3>4. CASE t = Gather(s, "init_reboot")
      <4>1. t = Gather(s, s.state)
        BY <1>0, <3>1, <3>4
      <4> QED BY <1>0, <3>1, <3>2, <4>1, GatherStep
    <3> QED BY <2>4, <3>3, <3>4
  <2> QED BY <2>1, <2>2, <2>3, <2>4
<1> QED BY <1>2, <1>3, <1>4

LEMMA RenewDataStep ==
    ASSUME NEW A \in Acks, NEW B \in Acks, A \subseteq B, NEW d, Good(d, A), d.recv = "renew",
           NEW p \in Reply, net \in Net, now \in Nat, p.type \in {"ack", "nak"},
           p.type = "ack" => <<net, p.ip>> \in B,
           NEW t, t = dhcp_renew_data(d, p)
    PROVE  Good(t, B) /\ t.known = d.known
<1>0. Base(d, B) /\ d.known # NoNet
  BY Mono DEF Good, Phase, Belongs, Linked
<1>1. CASE p.type = "nak" \/ p.ip # d.saved.ip
  <2>1. PICK no \in BOOLEAN : no = FALSE
    OBVIOUS
  <2>2. PICK q : q = service_publish_failure(d)
    OBVIOUS
  <2>3. t = dhcp_unbound(q, no)
    BY <1>1, <2>1, <2>2 DEF dhcp_renew_data
  <2>4. Base(q, B) /\ ~q.published /\ q.known = d.known
    BY <1>0, <2>2, FailureFacts DEF SameControl
  <2> QED BY <1>0, <2>3, <2>4, UnboundStep
<1>2. CASE ~(p.type = "nak" \/ p.ip # d.saved.ip)
  <2>1. PICK z \in 0..MaxRating : z = 0
    BY ClientAssumption
  <2>2. PICK s : s = SavePacket(d, p, z)
    OBVIOUS
  <2>3. t = dhcp_bound(s)
    BY <1>2, <2>1, <2>2 DEF dhcp_renew_data
  <2>4. /\ Base(s, B) /\ SameControl(d, s) /\ s.saved.ip = p.ip /\ s.saved.src = net
    BY <1>0, <1>2, <2>2, SavePacketFacts
  <2>5. Acked(s, B) /\ s.known = d.known
    BY <1>2, <2>4 DEF Acked, SameControl
  <2> QED BY <1>0, <2>3, <2>4, <2>5, BoundStep
<1> QED BY <1>1, <1>2

-----------------------------------------------------------------------------
(* Leases taken up and given up                                            *)

\* dhcp_check_lease
LEMMA CheckLeaseFacts ==
    ASSUME NEW A, NEW d, Base(d, A), NEW t, t = dhcp_check_lease(d)
    PROVE  /\ Base(t, A) /\ SameControl(d, t)
           /\ t.lease.valid => t = d
           /\ ~t.lease.valid => t.active = NoAddr
           /\ t.router.ia => d.router.ia
<1>0. Whole(d) /\ Typed(d)
  BY Members DEF Base
<1>1. CASE t = d
  BY <1>1 DEF SameControl, Base, Keeps
<1>2. CASE t = service_publish_failure(service_remove_address(service_router_clear(
             dhcp_invalidate_lease(d))))
  <2>1. t = [d EXCEPT !.lease = LeaseOff(d.lease), !.router = RouterOff(d.router),
                      !.active = NoAddr, !.published = FALSE]
    BY <1>0, <1>2 DEF Whole, service_publish_failure, service_remove_address,
         service_router_clear, dhcp_invalidate_lease, RouterOff, LeaseOff
  <2>2. Whole(t)
    BY <1>0, <2>1 DEF Whole
  <2>3. /\ SameControl(d, t) /\ t.lease = LeaseOff(d.lease) /\ t.router = RouterOff(d.router)
        /\ t.saved = d.saved /\ t.active = NoAddr /\ t.published = FALSE
        /\ t.list = d.list /\ t.file = d.file
    BY <1>0, <2>1 DEF Whole, SameControl
  <2>4. /\ t.lease \in Lease /\ ~t.lease.valid /\ t.lease.net = NoNet
        /\ t.router \in Router /\ ~t.router.ia /\ ~t.router.hw
    BY <1>0, <2>3, Offs DEF Typed
  <2>5. Typed(t)
    BY <1>0, <2>3, <2>4 DEF Typed, SameControl
  <2>6. t \in Service /\ Stored(t.list, t.file, A) /\ ~t.published
    BY <2>2, <2>3, <2>5, Members DEF Base
  <2>7. Base(t, A)
    BY <2>3, <2>4, <2>6, BareBase
  <2> QED BY <2>3, <2>4, <2>7
<1> QED BY <1>1, <1>2 DEF dhcp_check_lease

\* What Base asks of a record whose address is about to be set.
Rests(d, A) ==
    /\ d \in Service /\ Stored(d.list, d.file, A)
    /\ d.lease.valid => d.saved.ip # NoAddr /\ d.saved.src \in Net
    /\ ~d.lease.valid \/ ~Wireless => d.lease.net = NoNet
    /\ d.router.hw => d.router.ia /\ Acked(d, A)
    /\ d.router.ia => d.saved.ip # NoAddr
    /\ d.active # NoAddr => d.lease.valid /\ d.active = d.saved.ip /\ Acked(d, A)

\* switch_to_lease
LEMMA SwitchFacts ==
    ASSUME NEW A, NEW d, Base(d, A), NEW e, EntryOK(e, A), NEW t, t = switch_to_lease(d, e)
    PROVE  /\ Rests(t, A) /\ SameControl(d, t) /\ t.published = d.published
           /\ SameLease(d, e) => t = d
           /\ ~SameLease(d, e) => t.active = NoAddr /\ t.lease.valid
                                  /\ t.saved.src = e.src /\ t.saved.ip = e.ip
<1>0. Whole(d) /\ Typed(d) /\ e \in Entry
  BY Members DEF Base, EntryOK
<1>1. CASE SameLease(d, e)
  <2>1. t = d
    BY <1>1 DEF switch_to_lease
  <2> QED BY <1>1, <2>1 DEF Base, Keeps, Rests, SameControl
<1>2. CASE ~SameLease(d, e)
  <2>1. /\ e.ip \in Addr /\ e.src \in Net /\ e.rtr \in BOOLEAN /\ e.net \in NetOrNone
        /\ e.start \in Nat /\ e.len \in Nat /\ e.ia \in BOOLEAN /\ e.hw \in NetOrNone
        /\ e.ip # NoAddr
    BY <1>0, Kinds DEF Entry
  <2>2. PICK v : v = [ip |-> e.ip, rating |-> 0, rtr |-> e.rtr, opts |-> TRUE, src |-> e.src]
    OBVIOUS
  <2>3. v \in Saved /\ v.ip = e.ip /\ v.src = e.src
    BY <2>1, <2>2, ClientAssumption DEF Saved, NetOrNone
  <2>4. PICK l : l = [valid |-> TRUE, net |-> e.net, start |-> e.start, len |-> e.len]
    OBVIOUS
  <2>5. l \in Lease /\ l.valid /\ l.net = e.net
    BY <2>1, <2>4 DEF Lease
  <2>6. PICK h \in BOOLEAN : h = (e.ia /\ e.hw # NoNet)
    BY <2>1
  <2>7. PICK r : r = [ia |-> e.ia, hw |-> h, verified |-> FALSE,
                      mac |-> IF h THEN e.hw ELSE d.router.mac]
    OBVIOUS
  <2>8. r \in Router /\ (r.hw => r.ia /\ e.hw # NoNet)
    BY <1>0, <2>1, <2>6, <2>7 DEF Router, Typed
  <2>9. t = [d EXCEPT !.active = NoAddr, !.saved = v, !.lease = l, !.router = r]
    <3>1. PICK x : x = service_remove_address(d)
      OBVIOUS
    <3>2. x = [d EXCEPT !.active = NoAddr] /\ Whole(x) /\ x.router = d.router
      BY <1>0, <3>1 DEF service_remove_address, Whole
    <3>3. t = [x EXCEPT !.saved = v, !.lease = l, !.router = r]
      BY <1>2, <2>2, <2>4, <2>6, <2>7, <3>1, <3>2 DEF switch_to_lease
    <3> QED BY <1>0, <3>2, <3>3 DEF Whole
  <2>10. Whole(t)
    BY <1>0, <2>9 DEF Whole
  <2>11. /\ SameControl(d, t) /\ t.saved = v /\ t.lease = l /\ t.router = r /\ t.active = NoAddr
         /\ t.published = d.published /\ t.list = d.list /\ t.file = d.file
    BY <1>0, <2>9 DEF Whole, SameControl
  <2>12. Typed(t)
    BY <1>0, <2>3, <2>5, <2>8, <2>11 DEF Typed, SameControl
  <2>13. r.hw => Acked(t, A)
    BY <2>3, <2>8, <2>11 DEF EntryOK, Acked
  <2>14. Rests(t, A)
    BY <2>1, <2>3, <2>5, <2>8, <2>10, <2>11, <2>12, <2>13, Members DEF Rests, Base, EntryOK
  <2> QED BY <1>2, <2>3, <2>5, <2>11, <2>14
<1> QED BY <1>1, <1>2

\* The address of a lease whose router answered is taken into use.
UseFound(x) ==
    dhcp_publish_success([service_router_set_all_valid(x) EXCEPT !.active = x.saved.ip])
LEMMA UseFoundFacts ==
    ASSUME NEW A \in Acks, NEW d, Rests(d, A), d.lease.valid, Acked(d, A), NEW t, t = UseFound(d)
    PROVE  /\ Base(t, A) /\ SameControl(d, t) /\ t.lease = d.lease /\ t.saved = d.saved
<1>0. Whole(d) /\ Typed(d)
  BY Members DEF Rests
<1>1. PICK r : r = [d.router EXCEPT !.ia = TRUE, !.hw = TRUE, !.verified = TRUE]
  OBVIOUS
<1>2. r \in Router /\ r.ia = TRUE /\ r.hw = TRUE
  BY <1>0, <1>1 DEF Typed, Router
<1>3. PICK i \in Addr : i = d.saved.ip
  BY AckedFacts
<1>4. t = [d EXCEPT !.router = r, !.active = i, !.published = TRUE]
  BY <1>0, <1>1, <1>3 DEF UseFound, dhcp_publish_success, service_router_set_all_valid, Whole
<1>5. Whole(t)
  BY <1>0, <1>4 DEF Whole
<1>6. /\ SameControl(d, t) /\ t.router = r /\ t.active = i /\ t.published = TRUE
      /\ t.lease = d.lease /\ t.saved = d.saved /\ t.list = d.list /\ t.file = d.file
  BY <1>0, <1>4 DEF Whole, SameControl
<1>7. Typed(t)
  BY <1>0, <1>2, <1>6 DEF Typed, SameControl
<1>8. i # NoAddr
  BY Kinds
<1>9. Base(t, A)
  BY <1>2, <1>3, <1>5, <1>6, <1>7, <1>8, Members DEF Rests, Base, Keeps, Acked
<1> QED BY <1>6, <1>9

\* service_router_set_all_valid, for a client without an address
LEMMA AllValidFacts ==
    ASSUME NEW A \in Acks, NEW d, Base(d, A), Acked(d, A), NEW t, t = service_router_set_all_valid(d)
    PROVE  /\ Base(t, A) /\ SameControl(d, t) /\ t.lease = d.lease /\ t.saved = d.saved
           /\ t.active = d.active
<1>0. Whole(d) /\ Typed(d)
  BY Members DEF Base
<1>1. PICK r : r = [d.router EXCEPT !.ia = TRUE, !.hw = TRUE, !.verified = TRUE]
  OBVIOUS
<1>2. r \in Router /\ r.ia = TRUE /\ r.hw = TRUE
  BY <1>0, <1>1 DEF Typed, Router
<1>3. t = [d EXCEPT !.router = r]
  BY <1>0, <1>1 DEF service_router_set_all_valid, Whole
<1>4. Whole(t)
  BY <1>0, <1>3 DEF Whole
<1>5. /\ SameControl(d, t) /\ t.router = r /\ t.active = d.active /\ t.published = d.published
      /\ t.lease = d.lease /\ t.saved = d.saved /\ t.list = d.list /\ t.file = d.file
  BY <1>0, <1>3 DEF Whole, SameControl
<1>6. Typed(t)
  BY <1>0, <1>2, <1>5 DEF Typed, SameControl
<1>7. d.saved.ip # NoAddr
  BY AckedFacts
<1>8. Base(t, A)
  BY <1>2, <1>4, <1>5, <1>6, <1>7, Members DEF Base, Keeps, Acked
<1> QED BY <1>5, <1>8

\* A list that has leases of a network has a last one.
LEMMA LastOne ==
    ASSUME NEW l \in Seq(Entry), NEW n, FindLeaseForWiFi(l, n) # {}
    PROVE  /\ (CHOOSE i \in FindLeaseForWiFi(l, n) : \A j \in FindLeaseForWiFi(l, n) : j <= i) \in 1..Len(l)
<1>0. Len(l) \in Nat
  BY LenProperties
<1>1. PICK w : w = FindLeaseForWiFi(l, n)
  OBVIOUS
<1>2. w \subseteq 1..Len(l) /\ w # {}
  BY <1>1 DEF FindLeaseForWiFi
<1>3. PICK T : T = {Len(l) - i : i \in w}
  OBVIOUS
<1>4. T \subseteq Nat /\ T # {}
  <2>1. \A i \in 1..Len(l) : Len(l) - i \in Nat
    BY <1>0
  <2>2. PICK i : i \in w
    BY <1>2
  <2>3. Len(l) - i \in T
    BY <1>3, <2>2
  <2> QED BY <1>2, <1>3, <2>1, <2>3
<1>5. PICK x \in T : \A y \in T : x <= y
  BY <1>4, Least
<1>6. PICK i \in w : x = Len(l) - i
  BY <1>3
<1>7. \A j \in w : j <= i
  <2> SUFFICES ASSUME NEW j \in w PROVE j <= i
    OBVIOUS
  <2>1. Len(l) - j \in T
    BY <1>3
  <2>2. Len(l) - i <= Len(l) - j
    BY <1>5, <1>6, <2>1
  <2>3. i \in Int /\ j \in Int
    BY <1>0, <1>2
  <2> QED BY <1>0, <2>2, <2>3
<1>8. (CHOOSE k \in w : \A j \in w : j <= k) \in w
  BY <1>7
<1> QED BY <1>1, <1>2, <1>8

\* A lease of another Wi-Fi network is exchanged for one of this, or given up.
LEMMA ForThisNetworkFacts ==
    ASSUME NEW A, NEW d, Base(d, A), NEW t, t = ForThisNetwork(d)
    PROVE  /\ Base(t, A) /\ t.known = d.known /\ t.state = d.state
           /\ t = d \/ (Wireless /\ t.try = 0)
<1>0. Whole(d) /\ Typed(d) /\ Stored(d.list, d.file, A) /\ Keeps(d, A)
  BY Members DEF Base
<1>1. CASE t = d
  BY <1>1
<1>2. CASE t # d
  <2> DEFINE where == FindLeaseForWiFi(d.list, SSID(d))
  <2>1. PICK k : k = CHOOSE i \in where : \A j \in where : j <= i
    OBVIOUS
  <2>2. PICK s : s = IF where # {} THEN switch_to_lease(d, d.list[k])
                     ELSE service_remove_address(service_router_clear(dhcp_invalidate_lease(d)))
    OBVIOUS
  <2>3. /\ t = [s EXCEPT !.try = 0]
        /\ d.lease.valid /\ d.lease.net # NoNet
    BY <1>2, <2>1, <2>2 DEF ForThisNetwork
  <2>4. Wireless
    BY <1>0, <2>3, ClientAssumption DEF Keeps
  <2>5. Rests(s, A) /\ SameControl(d, s)
    <3>1. CASE where # {}
      <4>1. k \in 1..Len(d.list)
        BY <1>0, <2>1, <3>1, LastOne DEF Typed
      <4>2. PICK e : e = d.list[k]
        OBVIOUS
      <4>3. EntryOK(e, A)
        BY <1>0, <4>1, <4>2 DEF Stored, ListOK
      <4>4. s = switch_to_lease(d, e)
        BY <2>2, <3>1, <4>2
      <4> HIDE DEF where
      <4> QED BY <4>3, <4>4, SwitchFacts
    <3>2. CASE where = {}
      <4>1. s = [d EXCEPT !.lease = LeaseOff(d.lease), !.router = RouterOff(d.router), !.active = NoAddr]
        BY <1>0, <2>2, <3>2 DEF Whole, service_remove_address, service_router_clear,
             dhcp_invalidate_lease, RouterOff, LeaseOff
      <4>2. Whole(s)
        BY <1>0, <4>1 DEF Whole
      <4>3. /\ SameControl(d, s) /\ s.lease = LeaseOff(d.lease) /\ s.router = RouterOff(d.router)
            /\ s.saved = d.saved /\ s.active = NoAddr /\ s.published = d.published
            /\ s.list = d.list /\ s.file = d.file
        BY <1>0, <4>1 DEF Whole, SameControl
      <4>4. /\ s.lease \in Lease /\ ~s.lease.valid /\ s.lease.net = NoNet
            /\ s.router \in Router /\ ~s.router.ia /\ ~s.router.hw
        BY <1>0, <4>3, Offs DEF Typed
      <4>5. Typed(s)
        BY <1>0, <4>3, <4>4 DEF Typed, SameControl
      <4>6. s \in Service /\ Stored(s.list, s.file, A)
        BY <1>0, <4>2, <4>3, <4>5, Members
      <4> QED BY <4>3, <4>4, <4>6 DEF Rests
    <3> QED BY <3>1, <3>2
  <2>6. Base(s, A) /\ Whole(s) /\ Typed(s)
    BY <2>4, <2>5, Members DEF Rests, Base, Keeps
  <2>7. /\ Whole(t) /\ Alike(s, t) /\ t.known = s.known /\ t.state = s.state /\ t.try = 0
    BY <2>3, <2>6 DEF Whole, Alike
  <2>8. Typed(t)
    BY <2>3, <2>6 DEF Whole, Typed
  <2>9. Base(t, A)
    BY <2>6, <2>7, <2>8, Members, SameBase
  <2> QED BY <2>4, <2>5, <2>7, <2>9 DEF SameControl
<1> QED BY <1>1, <1>2

\* dhcp_check_link_with_status
LEMMA CheckLinkStep ==
    ASSUME NEW A \in Acks, NEW d, Base(d, A), now \in Nat,
           d.known # NoNet /\ d.state \in {"init", "init_reboot"} => Phase(d, A) /\ Driven(d),
           NEW renew \in BOOLEAN, NEW t, t = dhcp_check_link(d, renew)
    PROVE  /\ Good(t, A) /\ t.known = d.known
           /\ d.known = NoNet => t.active = d.active /\ t.busy = d.busy /\ t.state = "inactive"
<1>1. CASE d.known = NoNet
  <2>1. PICK c : c = dhcp_cancel_pending_events(d)
    OBVIOUS
  <2>2. /\ Base(c, A) /\ Alike(d, c) /\ c.timer = NoTimer /\ c.recv = "none" /\ c.arp = NoArp
        /\ c.known = d.known /\ c.busy = d.busy
    BY <2>1, CancelFacts
  <2>3. Whole(c) /\ Typed(c)
    BY <2>2, Members DEF Base
  <2>4. t = [c EXCEPT !.try = 0, !.state = "inactive"]
    BY <1>1, <2>1 DEF dhcp_check_link, Link
  <2>5. /\ Whole(t) /\ Alike(c, t) /\ t.timer = c.timer /\ t.recv = c.recv /\ t.arp = c.arp
        /\ t.known = c.known /\ t.busy = c.busy /\ t.state = "inactive"
    BY <2>3, <2>4 DEF Whole, Alike
  <2>6. Typed(t)
    BY <2>3, <2>4 DEF Whole, Typed, States
  <2>7. Base(t, A)
    BY <2>2, <2>5, <2>6, Members, SameBase
  <2>8. Phase(t, A) /\ Driven(t) /\ Linked(t)
    BY <1>1, <2>2, <2>5, Kinds DEF Phase, Belongs, IsBound, Driven, Linked
  <2> QED BY <2>2, <2>5, <2>7, <2>8 DEF Good, Alike
<1>2. CASE d.known # NoNet
  <2>1. PICK n : n = ForThisNetwork(d)
    OBVIOUS
  <2>2. Base(n, A) /\ n.known = d.known /\ n.state = d.state /\ (n = d \/ (Wireless /\ n.try = 0))
    BY <2>1, ForThisNetworkFacts
  <2>3. PICK s : s = dhcp_check_lease(n)
    OBVIOUS
  <2>4. /\ Base(s, A) /\ SameControl(n, s)
        /\ s.lease.valid => s = n
        /\ ~s.lease.valid => s.active = NoAddr
        /\ s.router.ia => n.router.ia
    BY <2>2, <2>3, CheckLeaseFacts
  <2>5. s.known = d.known /\ s.state = d.state /\ s.try = n.try
    BY <2>2, <2>4 DEF SameControl
  <2>6. \/ s.lease.valid /\ t = dhcp_init_reboot(s)
        \/ ~s.lease.valid /\ t = dhcp_init(s)
        \/ s.lease.valid /\ s.state = "init_reboot" /\ s.try = 1 /\ t = s
        \/ ~s.lease.valid /\ s.state = "init" /\ s.try = 1 /\ t = s
    BY <1>2, <2>1, <2>3 DEF dhcp_check_link, Link
  <2>7. CASE s.lease.valid /\ t = dhcp_init_reboot(s)
    BY <1>2, <2>4, <2>5, <2>7, InitRebootStep
  <2>8. CASE ~s.lease.valid /\ t = dhcp_init(s)
    BY <1>2, <2>4, <2>5, <2>8, InitStep
  <2>9. CASE s.state \in {"init", "init_reboot"} /\ s.try = 1 /\ t = s
                /\ (s.lease.valid \/ s.state = "init")
    <3>1. n = d /\ Phase(d, A) /\ Driven(d) /\ d.state \in {"init", "init_reboot"}
      BY <1>2, <2>2, <2>5, <2>9
    <3>2. /\ t.known = d.known /\ t.state = d.state /\ t.timer = d.timer /\ t.recv = d.recv
          /\ t.arp = d.arp /\ t.gathering = d.gathering /\ t.rto = d.rto /\ t.busy = d.busy
          /\ t.collisions = d.collisions /\ (t.router.ia => d.router.ia)
      BY <2>4, <2>9, <3>1 DEF SameControl
    <3>3. d.state = "init" => t.active = NoAddr
      BY <2>4, <2>9, <3>1 DEF Phase
    <3>4. d.state = "init_reboot" => t = d
      BY <2>4, <2>5, <2>9, <3>1
    <3>5. CASE d.state = "init_reboot"
      BY <1>2, <2>4, <2>9, <3>1, <3>4, <3>5 DEF Good, Linked
    <3>6. CASE d.state = "init"
      <4>1. Phase(t, A) /\ Driven(t) /\ Linked(t)
        BY <1>2, <3>1, <3>2, <3>3, <3>6, Kinds DEF Phase, Belongs, IsBound, Driven, Linked
      <4> QED BY <1>2, <2>4, <2>9, <3>2, <4>1 DEF Good
    <3> QED BY <3>1, <3>5, <3>6
  <2> QED BY <2>6, <2>7, <2>8, <2>9
<1> QED BY <1>1, <1>2

\* The result of dhcp_arp_router: the lease whose router answered, if any.
LEMMA ArpRouterResultStep ==
    ASSUME NEW A \in Acks, NEW d, Good(d, A), d.state \in {"init", "init_reboot"},
           d.state = "init_reboot" => d.lease.valid /\ (d.gathering => Acked(d, A)),
           d.timer.fn # "check_link", NEW f, \A x \in f : x.hw \in Net,
           NEW t, t = dhcp_arp_router_result(d, f)
    PROVE  Good(t, A) /\ t.known = d.known
<1>0. /\ Base(d, A) /\ Whole(d) /\ Typed(d) /\ Stored(d.list, d.file, A) /\ d.known # NoNet
      /\ (d.state = "init" => d.active = NoAddr)
  BY Members DEF Good, Base, Phase, Linked
<1> DEFINE where == {i \in 1..Len(d.list) : \E x \in f : i \in FindLease(d.list, x.ip, TRUE, x.hw)}
<1>1. PICK k : k = CHOOSE i \in where : TRUE
  OBVIOUS
<1>2. PICK e : e = d.list[k]
  OBVIOUS
<1>3. PICK s : s = switch_to_lease(d, e)
  OBVIOUS
<1>4. where # {} => EntryOK(e, A) /\ <<e.src, e.ip>> \in A
  <2> SUFFICES ASSUME where # {} PROVE EntryOK(e, A) /\ <<e.src, e.ip>> \in A
    OBVIOUS
  <2>1. k \in where
    BY <1>1
  <2>2. PICK x \in f : k \in FindLease(d.list, x.ip, TRUE, x.hw)
    BY <2>1
  <2>3. k \in 1..Len(d.list) /\ d.list[k].hw = x.hw
    BY <2>1, <2>2 DEF FindLease
  <2>4. e.hw # NoNet
    BY <1>2, <2>3, Kinds
  <2>5. EntryOK(e, A)
    BY <1>0, <1>2, <2>3 DEF Stored, ListOK
  <2> QED BY <2>4, <2>5 DEF EntryOK
<1>5. PICK q : q = service_publish_failure(d)
  OBVIOUS
<1>6. Base(q, A) /\ ~q.published /\ q.known = d.known
  BY <1>0, <1>5, FailureFacts DEF SameControl
<1>7. PICK u : u = [s EXCEPT !.try = 0]
  OBVIOUS
<1>8. \/ t = d
      \/ \E nak \in BOOLEAN : t = dhcp_unbound(q, nak)
      \/ where # {} /\ d.state = "init" /\ t = service_router_set_all_valid(s)
      \/ where # {} /\ d.state = "init_reboot" /\ d.gathering /\ t = UseFound(d)
      \/ where # {} /\ d.state = "init_reboot" /\ ~d.gathering /\ ~SameLease(d, e) /\ t = UseFound(u)
      \/ where # {} /\ d.state = "init_reboot" /\ ~d.gathering /\ SameLease(d, e) /\ t = UseFound(d)
  <2>1. PICK no \in BOOLEAN : no = (f = {})
    OBVIOUS
  <2>2. PICK nn \in BOOLEAN : nn = FALSE
    OBVIOUS
  <2>3. CASE f = {} \/ where = {}
    <3>1. t = IF d.got_nak THEN dhcp_unbound(q, no) ELSE d
      BY <1>5, <2>1, <2>3 DEF dhcp_arp_router_result
    <3> QED BY <3>1
  <2>4. CASE where # {} /\ d.state = "init"
    <3>0. f # {}
      BY <2>4
    <3>1. t = IF d.gathering THEN d ELSE service_router_set_all_valid(s)
      BY <1>1, <1>2, <1>3, <2>4, <3>0 DEF dhcp_arp_router_result
    <3> QED BY <2>4, <3>1
  <2>5. CASE where # {} /\ d.state = "init_reboot" /\ d.gathering
    <3>0. f # {}
      BY <2>5
    <3>1. t = IF e.ip # d.saved.ip \/ ~HasRouter(d) THEN d ELSE UseFound(d)
      BY <1>1, <1>2, <1>3, <2>5, <3>0 DEF dhcp_arp_router_result, UseFound
    <3> QED BY <2>5, <3>1
  <2>6. CASE where # {} /\ d.state = "init_reboot" /\ ~d.gathering
    <3>0. f # {}
      BY <2>6
    <3>1. CASE ~SameLease(d, e)
      <4>1. t = UseFound([s EXCEPT !.try = 0])
        BY <1>1, <1>2, <1>3, <2>6, <3>0, <3>1 DEF dhcp_arp_router_result, UseFound
      <4> QED BY <1>7, <2>6, <3>1, <4>1
    <3>2. CASE SameLease(d, e)
      <4>1. t = IF d.got_nak THEN dhcp_unbound(q, FALSE) ELSE UseFound(d)
        BY <1>1, <1>2, <1>3, <1>5, <2>6, <3>0, <3>2 DEF dhcp_arp_router_result, UseFound
      <4>2. t = dhcp_unbound(q, nn) \/ t = UseFound(d)
        BY <2>2, <4>1
      <4> QED BY <2>6, <3>2, <4>2
    <3> QED BY <3>1, <3>2
  <2> QED BY <2>3, <2>4, <2>5, <2>6
<1>9. where # {} => Rests(s, A) /\ SameControl(d, s) /\ s.published = d.published
          /\ (SameLease(d, e) => s = d)
          /\ (~SameLease(d, e) => s.active = NoAddr /\ s.lease.valid
                                  /\ s.saved.src = e.src /\ s.saved.ip = e.ip)
  <2> SUFFICES ASSUME where # {}
               PROVE  Rests(s, A) /\ SameControl(d, s) /\ s.published = d.published
                      /\ (SameLease(d, e) => s = d)
                      /\ (~SameLease(d, e) => s.active = NoAddr /\ s.lease.valid
                                  /\ s.saved.src = e.src /\ s.saved.ip = e.ip)
    OBVIOUS
  <2> HIDE DEF where
  <2> QED BY <1>0, <1>3, <1>4, SwitchFacts
<1> HIDE DEF where
<1>10. SameLease(d, e) => Acked(d, A)
  BY <1>0 DEF SameLease, RouterMAC, Base, Keeps
<1>11. CASE t = d
  BY <1>11
<1>12. ASSUME NEW nak \in BOOLEAN, t = dhcp_unbound(q, nak) PROVE Good(t, A) /\ t.known = d.known
  BY <1>0, <1>6, <1>12, UnboundStep
<1>13. CASE where # {} /\ d.state = "init" /\ t = service_router_set_all_valid(s)
  <2>1. Rests(s, A) /\ SameControl(d, s) /\ s.published = d.published /\ s.active = NoAddr /\ Acked(s, A)
    BY <1>0, <1>4, <1>9, <1>10, <1>13 DEF Acked
  <2>2. Base(s, A)
    BY <1>0, <1>13, <2>1 DEF Rests, Base, Keeps
  <2>3. Base(t, A) /\ SameControl(s, t) /\ t.active = s.active
    BY <1>13, <2>1, <2>2, AllValidFacts
  <2>4. Phase(t, A) /\ Driven(t) /\ Linked(t)
    BY <1>0, <1>13, <2>1, <2>3, Kinds DEF Good, Phase, Belongs, IsBound, Driven, Linked, SameControl
  <2> QED BY <2>1, <2>3, <2>4 DEF Good, SameControl
<1>14. ASSUME NEW w, Rests(w, A), Acked(w, A), w.lease.valid, d.state = "init_reboot",
              w.known = d.known, w.state = d.state, w.timer = d.timer, w.recv = d.recv,
              w.arp = d.arp, w.gathering = d.gathering, w.rto = d.rto, w.busy = d.busy,
              t = UseFound(w)
       PROVE  Good(t, A) /\ t.known = d.known
  <2>1. Base(t, A) /\ SameControl(w, t) /\ t.lease = w.lease /\ t.saved = w.saved
    BY <1>14, UseFoundFacts
  <2>2. /\ t.known = d.known /\ t.state = d.state /\ t.timer = d.timer /\ t.recv = d.recv
        /\ t.arp = d.arp /\ t.gathering = d.gathering /\ t.rto = d.rto /\ t.busy = d.busy
        /\ t.lease.valid /\ Acked(t, A)
    BY <1>14, <2>1 DEF SameControl, Acked
  <2>3. Phase(t, A) /\ Driven(t) /\ Linked(t)
    BY <1>0, <1>14, <2>2, Kinds DEF Good, Phase, Belongs, IsBound, Driven, Linked
  <2> QED BY <2>1, <2>2, <2>3 DEF Good
<1>15. CASE d.state = "init_reboot" /\ Acked(d, A) /\ t = UseFound(d)
  <2>1. Rests(d, A)
    BY <1>0 DEF Base, Keeps, Rests
  <2> QED BY <1>14, <1>15, <2>1
<1>16. CASE where # {} /\ d.state = "init_reboot" /\ ~d.gathering /\ ~SameLease(d, e) /\ t = UseFound(u)
  <2>1. /\ Rests(s, A) /\ SameControl(d, s) /\ s.lease.valid /\ Acked(s, A)
    BY <1>4, <1>9, <1>16 DEF Acked
  <2>2. Whole(s) /\ Typed(s)
    BY <2>1, Members DEF Rests
  <2>3. /\ Whole(u) /\ Alike(s, u) /\ u.known = s.known /\ u.state = s.state /\ u.timer = s.timer
        /\ u.recv = s.recv /\ u.arp = s.arp /\ u.gathering = s.gathering /\ u.rto = s.rto
        /\ u.busy = s.busy
    BY <1>7, <2>2 DEF Whole, Alike
  <2>4. Typed(u)
    BY <1>7, <2>2 DEF Whole, Typed
  <2>5. Rests(u, A) /\ Acked(u, A) /\ u.lease.valid
    BY <2>1, <2>3, <2>4, Members DEF Rests, Alike, Acked
  <2>6. /\ u.known = d.known /\ u.state = d.state /\ u.timer = d.timer
        /\ u.recv = d.recv /\ u.arp = d.arp /\ u.gathering = d.gathering /\ u.rto = d.rto
        /\ u.busy = d.busy
    BY <2>1, <2>3 DEF SameControl
  <2> QED BY <1>14, <1>16, <2>5, <2>6
<1> QED BY <1>8, <1>10, <1>11, <1>12, <1>13, <1>15, <1>16

\* dhcp_check_router
LEMMA CheckRouterStep ==
    ASSUME NEW A \in Acks, NEW d, Good(d, A), IsBound(d), d.router.ia, Wireless,
           NEW t, t = dhcp_check_router(d)
    PROVE  /\ Good(t, A) /\ t.known = d.known /\ t.state = d.state /\ t.lease = d.lease
<1>0. Base(d, A) /\ Whole(d) /\ Typed(d) /\ Keeps(d, A) /\ d.known # NoNet
  BY Members DEF Good, Base, IsBound, Linked
<1>1. PICK r : r = [d.router EXCEPT !.verified = FALSE]
  OBVIOUS
<1>2. r \in Router /\ r.ia = d.router.ia /\ r.hw = d.router.hw
  BY <1>0, <1>1 DEF Typed, Router
<1>3. PICK a : a = [op |-> "check", info |-> {[ip |-> d.saved.ip, hw |-> d.router.mac]}, left |-> ArpSecs]
  OBVIOUS
<1>4. a \in ArpRequest /\ a.op = "check"
  <2>1. d.saved.ip \in Addr /\ d.router.mac \in NetOrNone
    BY <1>0 DEF Keeps, Typed, Saved, Router
  <2>2. PICK i : i = {[ip |-> d.saved.ip, hw |-> d.router.mac]}
    OBVIOUS
  <2>3. i \in SUBSET [ip : Addr, hw : NetOrNone]
    BY <2>1, <2>2
  <2> QED BY <1>3, <2>2, <2>3, Kinds
<1>5. t = [d EXCEPT !.busy = TRUE, !.router = r, !.arp = a]
  BY <1>0, <1>1, <1>3 DEF dhcp_check_router, Whole
<1>6. Whole(t)
  BY <1>0, <1>5 DEF Whole
<1>7. /\ t.arp = a /\ t.router = r /\ t.lease = d.lease /\ t.saved = d.saved /\ t.active = d.active
      /\ t.published = d.published /\ t.list = d.list /\ t.file = d.file
      /\ t.known = d.known /\ t.state = d.state /\ t.timer = d.timer /\ t.recv = d.recv
      /\ t.rto = d.rto /\ t.collisions = d.collisions /\ t.gathering = d.gathering /\ t.busy = TRUE
  BY <1>0, <1>5 DEF Whole
<1>8. t.rrt = d.rrt /\ t.try = d.try /\ t.got_nak = d.got_nak /\ t.needs_write = d.needs_write
  BY <1>0, <1>5 DEF Whole
<1>9. Typed(t)
  BY <1>0, <1>2, <1>4, <1>7, <1>8 DEF Typed
<1>10. Base(t, A)
  BY <1>0, <1>2, <1>6, <1>7, <1>9, Members DEF Base, Keeps, Acked
<1>11. t.timer.fn \notin {"delayed_start", "wait"}
  BY <1>7 DEF Good, Phase, Belongs, IsBound
<1>12. Phase(t, A) /\ Driven(t) /\ Linked(t)
  BY <1>0, <1>4, <1>7, Kinds DEF Good, Phase, Belongs, IsBound, Driven, Linked
<1> QED BY <1>7, <1>10, <1>12 DEF Good

-----------------------------------------------------------------------------
(* Stopping, starting and forgetting                                       *)

LEMMA StoppedStep ==
    ASSUME NEW A, NEW f, f \in {NoFile} \cup Entry, f # NoFile => EntryOK(f, A),
           NEW k \in NetOrNone, NEW t, t = Stopped(f, k)
    PROVE  /\ Good(t, A) /\ t.known = k /\ t.state = "stopped" /\ t.active = NoAddr /\ ~t.busy
           /\ t.timer = NoTimer /\ t.arp = NoArp /\ t.recv = "none" /\ t.file = f
           /\ ~t.published /\ ~t.router.ia
<1>1. /\ t.known = k /\ t.state = "stopped" /\ t.timer = NoTimer /\ t.recv = "none" /\ t.arp = NoArp
      /\ t.lease = NoLease /\ t.rrt = 0 /\ t.try = 0 /\ t.gathering = FALSE /\ t.got_nak = FALSE
      /\ t.rto = FALSE /\ t.needs_write = FALSE /\ t.collisions = FALSE /\ t.busy = FALSE
      /\ t.router = NoRouter /\ t.active = NoAddr /\ t.published = FALSE /\ t.list = <<>> /\ t.file = f
  BY DEF Stopped
<1>2. t.saved = [ip |-> NoAddr, rating |-> 0, rtr |-> FALSE, opts |-> FALSE, src |-> NoNet]
  BY DEF Stopped
<1>3. Whole(t)
  BY DEF Stopped, Whole
<1>4. t.saved \in Saved /\ t.lease \in Lease /\ ~t.lease.valid /\ t.lease.net = NoNet
  <2>1. 0 \in 0..MaxRating
    BY ClientAssumption
  <2>2. NoLease \in Lease /\ ~NoLease.valid /\ NoLease.net = NoNet
    BY DEF NoLease, Lease, NetOrNone
  <2> QED BY <1>1, <1>2, <2>1, <2>2 DEF Saved, NetOrNone
<1>5. t.router \in Router /\ ~t.router.ia /\ ~t.router.hw
  BY <1>1 DEF NoRouter, Router, NetOrNone
<1>6. t.list \in Seq(Entry) /\ Stored(t.list, t.file, A)
  BY <1>1, EmptySeq DEF Stored, ListOK
<1>7. Typed(t)
  BY <1>1, <1>4, <1>5, <1>6, Kinds DEF Typed, States
<1>8. Base(t, A)
  BY <1>1, <1>3, <1>4, <1>5, <1>6, <1>7, Members, BareBase
<1>9. Phase(t, A) /\ Driven(t) /\ Linked(t)
  BY <1>1, Kinds DEF Phase, Belongs, IsBound, Driven, Linked
<1> QED BY <1>1, <1>5, <1>8, <1>9 DEF Good

\* recover_lease and IFEventID_start_e
Begun(f, k) == Arm(recover_lease([Stopped(f, k) EXCEPT !.state = "inactive"]), "delayed_start", 0)
LEMMA StartStep ==
    ASSUME NEW A, NEW f, f \in {NoFile} \cup Entry, f # NoFile => EntryOK(f, A), NEW k \in NetOrNone,
           NEW t, t = Begun(f, k)
    PROVE  /\ Good(t, A) /\ t.known = k /\ t.state = "inactive" /\ t.active = NoAddr /\ ~t.busy
<1>1. PICK s : s = Stopped(f, k)
  OBVIOUS
<1>2. /\ Good(s, A) /\ s.known = k /\ s.active = NoAddr /\ ~s.busy
      /\ s.timer = NoTimer /\ s.arp = NoArp /\ s.recv = "none" /\ s.file = f
      /\ ~s.published /\ ~s.router.ia
  BY <1>1, StoppedStep
<1>3. Base(s, A) /\ Whole(s) /\ Typed(s)
  BY <1>2, Members DEF Good, Base
<1>4. PICK i : i = [s EXCEPT !.state = "inactive"]
  OBVIOUS
<1>5. /\ Whole(i) /\ Alike(s, i) /\ i.known = s.known /\ i.busy = s.busy /\ i.timer = s.timer
      /\ i.arp = s.arp /\ i.recv = s.recv /\ i.state = "inactive" /\ i.file = s.file
  BY <1>3, <1>4 DEF Whole, Alike
<1>6. Typed(i)
  BY <1>3, <1>4 DEF Whole, Typed, States
<1>7. Base(i, A) /\ ~i.published /\ ~i.router.ia /\ i.active = NoAddr
  BY <1>2, <1>3, <1>5, <1>6, Members, SameBase DEF Alike
<1>8. PICK r : r = recover_lease(i)
  OBVIOUS
<1>9. /\ Base(r, A) /\ SameControl(i, r) /\ r.active = NoAddr
  <2>1. CASE r = i
    BY <1>7, <2>1 DEF SameControl
  <2>2. CASE r # i
    <3>1. PICK h : h = IF f.rtr THEN f.hw ELSE NoNet
      OBVIOUS
    <3>2. PICK e : e = [f EXCEPT !.ia = f.rtr, !.hw = h, !.nak = FALSE, !.tentative = TRUE]
      OBVIOUS
    <3>3. PICK x : x = [i EXCEPT !.list = <<e>>]
      OBVIOUS
    <3>4. f # NoFile /\ r = switch_to_lease(x, e)
      BY <1>2, <1>5, <1>8, <2>2, <3>1, <3>2, <3>3 DEF recover_lease
    <3>5. f \in Entry /\ EntryOK(f, A)
      BY <3>4
    <3>6. h \in NetOrNone /\ f.rtr \in BOOLEAN
      BY <3>1, <3>5 DEF Entry, NetOrNone
    <3>7. /\ e \in Entry /\ e.hw = h /\ e.ia = f.rtr /\ e.src = f.src /\ e.ip = f.ip /\ e.net = f.net
      BY <3>2, <3>5, <3>6 DEF Entry
    <3>8. EntryOK(e, A)
      BY <3>1, <3>5, <3>7 DEF EntryOK
    <3>9. ListOK(<<e>>, A)
      <4>1. PICK m : m = <<e>>
        OBVIOUS
      <4>2. m \in Seq(Entry) /\ Len(m) = 1 /\ m[1] = e
        BY <3>7, <4>1
      <4>3. \A n \in 1..Len(m) : n = 1
        BY <4>2
      <4> QED BY <3>8, <4>1, <4>2, <4>3 DEF ListOK
    <3>10. Stored(<<e>>, f, A)
      BY <3>5, <3>9 DEF Stored
    <3>11. x = Relist(i, <<e>>, f)
      BY <1>2, <1>5, <3>3 DEF Relist, Whole
    <3>12. PICK m : m = <<e>>
      OBVIOUS
    <3>13. Base(x, A) /\ SameRest(i, x)
      BY <1>7, <3>10, <3>11, <3>12, Relisted
    <3>14. /\ Rests(r, A) /\ SameControl(x, r) /\ r.published = x.published
           /\ SameLease(x, e) => r = x
           /\ ~SameLease(x, e) => r.active = NoAddr
      BY <3>4, <3>8, <3>13, SwitchFacts
    <3>15. r.active = NoAddr /\ ~r.published
      BY <1>7, <3>13, <3>14 DEF SameRest
    <3>16. Base(r, A)
      BY <3>14, <3>15 DEF Rests, Base, Keeps
    <3> QED BY <3>13, <3>14, <3>15, <3>16 DEF SameRest, SameControl
  <2> QED BY <2>1, <2>2
<1>10. Whole(r) /\ Typed(r)
  BY <1>9, Members DEF Base
<1>11. t = [r EXCEPT !.timer = [fn |-> "delayed_start", left |-> 0]]
  BY <1>1, <1>4, <1>8 DEF Begun, Arm
<1>12. /\ Whole(t) /\ Alike(r, t) /\ t.timer = [fn |-> "delayed_start", left |-> 0]
       /\ t.known = r.known /\ t.state = r.state /\ t.recv = r.recv /\ t.arp = r.arp /\ t.busy = r.busy
  BY <1>10, <1>11 DEF Whole, Alike
<1>13. Typed(t)
  BY <1>10, <1>11, Kinds DEF Whole, Typed
<1>14. Base(t, A)
  BY <1>9, <1>12, <1>13, Members, SameBase
<1>15. /\ t.known = k /\ t.state = "inactive" /\ t.recv = "none" /\ t.arp = NoArp /\ ~t.busy
       /\ t.active = NoAddr
  BY <1>2, <1>5, <1>9, <1>12 DEF SameControl, Alike
<1>16. Phase(t, A) /\ Driven(t) /\ Linked(t)
  BY <1>12, <1>15, Kinds DEF Phase, Belongs, IsBound, Driven, Linked
<1> QED BY <1>14, <1>15, <1>16 DEF Good

\* IFEventID_forget_ssid_e, for the network of the lease
Forgotten(d) ==
    Arm([service_publish_failure(service_remove_address(dhcp_release(d))) EXCEPT
            !.saved.opts = FALSE, !.lease.net = NoNet, !.busy = FALSE], "check_link", 1)
LEMMA ForgetStep ==
    ASSUME NEW A \in Acks, NEW d, Good(d, A), Wireless, d.lease.valid, NEW t, t = Forgotten(d)
    PROVE  /\ Good(t, A) /\ t.known = d.known /\ t.state = d.state /\ t.active = NoAddr /\ ~t.busy
<1>0. Base(d, A) /\ d.state # "decline"
  BY DEF Good, Phase
<1>1. PICK c : c = dhcp_lease_clear(d, FALSE)
  OBVIOUS
<1>2. PICK no \in BOOLEAN : no = FALSE
  OBVIOUS
<1>3. c = dhcp_lease_clear(d, no)
  BY <1>1, <1>2
<1>4. PICK l, f : Stored(l, f, A) /\ c = Relist(d, l, f)
  BY <1>0, <1>3, ClearStep
<1>5. Base(c, A) /\ SameRest(d, c)
  BY <1>0, <1>4, Relisted
<1>6. Whole(c) /\ Typed(c) /\ Stored(c.list, c.file, A)
  BY <1>5, Members DEF Base
<1>7. PICK v \in Saved : dhcp_release(d) =
          [c EXCEPT !.lease = LeaseOff(c.lease), !.router = RouterOff(c.router), !.timer = NoTimer,
                    !.recv = "none", !.arp = NoArp, !.saved = v]
  <2>1. PICK r : r = [c EXCEPT !.lease = LeaseOff(c.lease), !.router = RouterOff(c.router),
                               !.timer = NoTimer, !.recv = "none", !.arp = NoArp]
    OBVIOUS
  <2>2. r = dhcp_cancel_pending_events(service_router_clear(dhcp_invalidate_lease(c)))
    BY <1>6, <2>1 DEF Whole, dhcp_cancel_pending_events, service_router_clear,
         dhcp_invalidate_lease, LeaseOff, RouterOff
  <2>3. dhcp_release(d) = IF Link(d) THEN [r EXCEPT !.saved.ip = NoAddr] ELSE r
    BY <1>1, <2>2 DEF dhcp_release
  <2>4. Whole(r) /\ r.saved = c.saved
    BY <1>6, <2>1 DEF Whole
  <2>5. c.saved \in Saved /\ Unaddressed(c.saved) \in Saved
    BY <1>6, Offs DEF Typed
  <2>6. CASE Link(d)
    <3>1. dhcp_release(d) = [r EXCEPT !.saved = Unaddressed(c.saved)]
      BY <2>3, <2>4, <2>6 DEF Whole, Unaddressed
    <3>2. dhcp_release(d) =
             [c EXCEPT !.lease = LeaseOff(c.lease), !.router = RouterOff(c.router), !.timer = NoTimer,
                       !.recv = "none", !.arp = NoArp, !.saved = Unaddressed(c.saved)]
      BY <1>6, <2>1, <3>1 DEF Whole
    <3> QED BY <2>5, <3>2
  <2>7. CASE ~Link(d)
    <3>1. dhcp_release(d) =
             [c EXCEPT !.lease = LeaseOff(c.lease), !.router = RouterOff(c.router), !.timer = NoTimer,
                       !.recv = "none", !.arp = NoArp, !.saved = c.saved]
      BY <1>6, <2>1, <2>3, <2>7 DEF Whole
    <3> QED BY <2>5, <3>1
  <2> QED BY <2>6, <2>7
<1>8. PICK r : r = dhcp_release(d)
  OBVIOUS
<1>9. PICK w : w = [v EXCEPT !.opts = FALSE]
  OBVIOUS
<1>10. w \in Saved
  BY <1>9, Parts
<1>11. Whole(r) /\ r.lease = LeaseOff(c.lease) /\ r.saved = v
  BY <1>6, <1>7, <1>8 DEF Whole
<1>12. r.lease \in Lease /\ ~r.lease.valid /\ r.lease.net = NoNet
  BY <1>6, <1>11, Offs DEF Typed
<1>13. [r.lease EXCEPT !.net = NoNet] = r.lease
  BY <1>12 DEF Lease
<1>14. PICK x : x = service_publish_failure(service_remove_address(r))
  OBVIOUS
<1>15. /\ Whole(x) /\ x.saved = v /\ x.lease = r.lease /\ x.active = NoAddr /\ x.published = FALSE
       /\ x.router = r.router /\ SameControl(r, x) /\ x.list = r.list /\ x.file = r.file
  BY <1>11, <1>14 DEF Whole, service_publish_failure, service_remove_address, SameControl
<1>a. PICK y : y = [x EXCEPT !.saved.opts = FALSE, !.lease.net = NoNet, !.busy = FALSE]
  OBVIOUS
<1>b. y = [x EXCEPT !.saved = w, !.lease = r.lease, !.busy = FALSE]
  BY <1>9, <1>13, <1>15, <1>a DEF Whole
<1>c. t = [y EXCEPT !.timer = [fn |-> "check_link", left |-> 1]]
  BY <1>8, <1>14, <1>a DEF Forgotten, Arm
<1>d. Whole(y)
  BY <1>15, <1>b DEF Whole
<1>e. /\ y.saved = w /\ y.lease = r.lease /\ y.busy = FALSE /\ y.active = NoAddr /\ y.published = FALSE
      /\ y.router = r.router /\ y.list = r.list /\ y.file = r.file
      /\ y.recv = r.recv /\ y.arp = r.arp /\ y.known = r.known /\ y.state = r.state
      /\ y.rrt = r.rrt /\ y.try = r.try /\ y.gathering = r.gathering /\ y.got_nak = r.got_nak
      /\ y.rto = r.rto /\ y.needs_write = r.needs_write /\ y.collisions = r.collisions
  BY <1>15, <1>b DEF Whole, SameControl
<1>f. Whole(t)
  BY <1>c, <1>d DEF Whole
<1>g. /\ t.timer = [fn |-> "check_link", left |-> 1]
      /\ t.active = y.active /\ t.published = y.published
      /\ t.saved = y.saved /\ t.busy = y.busy /\ t.lease = y.lease /\ t.router = y.router
      /\ t.recv = y.recv /\ t.arp = y.arp /\ t.known = y.known /\ t.state = y.state
      /\ t.rrt = y.rrt /\ t.try = y.try /\ t.gathering = y.gathering /\ t.got_nak = y.got_nak
      /\ t.rto = y.rto /\ t.needs_write = y.needs_write /\ t.collisions = y.collisions
      /\ t.list = y.list /\ t.file = y.file
  BY <1>c, <1>d DEF Whole
<1>16. /\ t.timer = [fn |-> "check_link", left |-> 1] /\ t.active = NoAddr /\ t.published = FALSE
       /\ t.saved = w /\ t.busy = FALSE /\ t.lease = r.lease /\ t.router = r.router
       /\ t.recv = r.recv /\ t.arp = r.arp /\ t.known = r.known /\ t.state = r.state
       /\ t.rrt = r.rrt /\ t.try = r.try /\ t.gathering = r.gathering /\ t.got_nak = r.got_nak
       /\ t.rto = r.rto /\ t.needs_write = r.needs_write /\ t.collisions = r.collisions
       /\ t.list = r.list /\ t.file = r.file
  BY <1>e, <1>g
<1>17. /\ r.recv = "none" /\ r.arp = NoArp /\ r.known = c.known /\ r.state = c.state
       /\ r.router = RouterOff(c.router)
       /\ r.rrt = c.rrt /\ r.try = c.try /\ r.gathering = c.gathering /\ r.got_nak = c.got_nak
       /\ r.rto = c.rto /\ r.needs_write = c.needs_write /\ r.collisions = c.collisions
       /\ r.list = c.list /\ r.file = c.file
  BY <1>6, <1>7, <1>8 DEF Whole
<1>18. t.router \in Router /\ ~t.router.ia /\ ~t.router.hw
  BY <1>6, <1>16, <1>17, Offs DEF Typed
<1>19. Typed(t)
  <2>1. [fn |-> "check_link", left |-> 1] \in Timer
    BY Kinds
  <2>2. t.timer \in Timer /\ t.arp \in ArpRequest /\ t.recv = "none" /\ t.active = NoAddr
    BY <1>16, <1>17, <2>1, Kinds
  <2>3. t.lease \in Lease /\ t.saved \in Saved /\ t.router \in Router
    BY <1>10, <1>12, <1>16, <1>18
  <2>4. /\ t.known = c.known /\ t.state = c.state
        /\ t.rrt = c.rrt /\ t.try = c.try /\ t.gathering = c.gathering /\ t.got_nak = c.got_nak
        /\ t.rto = c.rto /\ t.needs_write = c.needs_write /\ t.collisions = c.collisions
        /\ t.list = c.list /\ t.file = c.file /\ t.busy = FALSE /\ t.published = FALSE
    BY <1>16, <1>17
  <2> QED BY <1>6, <2>2, <2>3, <2>4 DEF Typed
<1>20. t \in Service /\ Stored(t.list, t.file, A)
  BY <1>6, <1>f, <1>16, <1>17, <1>19, Members
<1>21. Base(t, A)
  BY <1>12, <1>16, <1>18, <1>20, BareBase
<1>22. t.state = d.state /\ t.known = d.known /\ t.recv = "none" /\ t.arp = NoArp
  BY <1>5, <1>16, <1>17 DEF SameRest
<1>23. t.timer.fn = "check_link"
  BY <1>16
<1>24. Phase(t, A) /\ Driven(t) /\ Linked(t)
  BY <1>0, <1>12, <1>16, <1>18, <1>22, <1>23, Kinds DEF Good, Phase, Belongs, IsBound, Driven, Linked
<1> QED BY <1>16, <1>21, <1>22, <1>24 DEF Good

-----------------------------------------------------------------------------
(* The actions                                                             *)

LEMMA HeldFacts ==
    ASSUME Held
    PROVE  /\ acked \in Acks /\ now \in Nat /\ net \in NetOrNone
           /\ Good(svc, acked) /\ Base(svc, acked) /\ Phase(svc, acked) /\ Driven(svc) /\ Linked(svc)
           /\ svc \in Service /\ Keeps(svc, acked) /\ Stored(svc.list, svc.file, acked)
  BY ClientAssumption DEF Held, World, Good, Base, Acks

\* A step of a client that has a link and keeps it.
LEMMA Settles ==
    ASSUME Held, UNCHANGED <<world, acked>>, svc.known # NoNet,
           Good(svc', acked), svc'.known = svc.known
    PROVE  Held'
<1>1. World'
  BY DEF Held, World, world
<1>2. Good(svc, acked)'
  OBVIOUS
<1>3. Unlinked'
  BY DEF Held, Unlinked, world
<1> QED BY <1>1, <1>2, <1>3 DEF Held

\* A timer that fires, and an ARP request that ends.
LEMMA PoppedFacts ==
    ASSUME NEW A, NEW d, Good(d, A), NEW t, t = [d EXCEPT !.timer = NoTimer]
    PROVE  /\ Base(t, A) /\ Phase(t, A) /\ Alike(d, t) /\ t.timer = NoTimer
           /\ t.known = d.known /\ t.state = d.state /\ t.recv = d.recv /\ t.arp = d.arp
           /\ t.gathering = d.gathering /\ t.rto = d.rto /\ t.collisions = d.collisions
           /\ t.busy = d.busy /\ t.saved = d.saved
<1>0. Whole(d) /\ Typed(d) /\ Base(d, A)
  BY Members DEF Good, Base
<1>1. /\ Whole(t) /\ Alike(d, t) /\ t.timer = NoTimer
      /\ t.known = d.known /\ t.state = d.state /\ t.recv = d.recv /\ t.arp = d.arp
      /\ t.gathering = d.gathering /\ t.rto = d.rto /\ t.collisions = d.collisions
      /\ t.busy = d.busy /\ t.saved = d.saved
  BY <1>0 DEF Whole, Alike
<1>2. Typed(t)
  BY <1>0, Kinds DEF Whole, Typed
<1>3. Base(t, A)
  BY <1>0, <1>1, <1>2, Members, SameBase
<1>4. Phase(t, A)
  BY <1>1, Kinds DEF Good, Phase, Belongs, IsBound, Alike, Acked
<1> QED BY <1>1, <1>3, <1>4

LEMMA DoneFacts ==
    ASSUME NEW A, NEW d, Good(d, A), NEW t, t = [d EXCEPT !.arp = NoArp]
    PROVE  /\ Base(t, A) /\ Phase(t, A) /\ Alike(d, t) /\ t.arp = NoArp
           /\ t.known = d.known /\ t.state = d.state /\ t.recv = d.recv /\ t.timer = d.timer
           /\ t.gathering = d.gathering /\ t.rto = d.rto /\ t.collisions = d.collisions
           /\ t.busy = d.busy /\ t.saved = d.saved
<1>0. Whole(d) /\ Typed(d) /\ Base(d, A)
  BY Members DEF Good, Base
<1>1. /\ Whole(t) /\ Alike(d, t) /\ t.arp = NoArp
      /\ t.known = d.known /\ t.state = d.state /\ t.recv = d.recv /\ t.timer = d.timer
      /\ t.gathering = d.gathering /\ t.rto = d.rto /\ t.collisions = d.collisions
      /\ t.busy = d.busy /\ t.saved = d.saved
  BY <1>0 DEF Whole, Alike
<1>2. Typed(t)
  BY <1>0, Kinds DEF Whole, Typed
<1>3. Base(t, A)
  BY <1>0, <1>1, <1>2, Members, SameBase
<1>4. Phase(t, A)
  BY <1>1, Kinds DEF Good, Phase, Belongs, IsBound, Alike, Acked
<1> QED BY <1>1, <1>3, <1>4

LEMMA StepTimerCheckLink == Held /\ TimerCheckLink => Held'
<1> SUFFICES ASSUME Held, TimerCheckLink PROVE Held'
  OBVIOUS
<1>0. acked \in Acks /\ now \in Nat /\ Good(svc, acked) /\ Phase(svc, acked)
  BY HeldFacts
<1>1. PICK no \in BOOLEAN : no = FALSE
  OBVIOUS
<1>2. PICK t : t = [svc EXCEPT !.timer = NoTimer]
  OBVIOUS
<1>3. svc' = dhcp_check_link(t, no) /\ UNCHANGED <<world, acked>>
  BY <1>1, <1>2 DEF TimerCheckLink, Popped
<1>4. svc.timer.fn \in {"delayed_start", "wait", "check_link"}
  BY DEF TimerCheckLink, Fires
<1>5. /\ Base(t, acked) /\ Phase(t, acked) /\ Alike(svc, t)
      /\ t.known = svc.known /\ t.state = svc.state /\ t.busy = svc.busy
  BY <1>0, <1>2, PoppedFacts
<1>6. t.known # NoNet /\ t.state \in {"init", "init_reboot"} => Driven(t)
  BY <1>0, <1>4, <1>5 DEF Phase, Belongs, Driven
<1>7. /\ Good(svc', acked) /\ svc'.known = svc.known
      /\ svc.known = NoNet => svc'.active = svc.active /\ svc'.busy = svc.busy /\ svc'.state = "inactive"
  BY <1>0, <1>3, <1>5, <1>6, CheckLinkStep DEF Alike
<1>8. svc.active = NoAddr /\ ~svc.busy
  BY <1>0, <1>4 DEF Phase
<1>9. World'
  BY <1>3 DEF Held, World, world
<1>10. Good(svc, acked)'
  BY <1>3, <1>7
<1>11. Unlinked'
  BY <1>3, <1>7, <1>8 DEF Held, Unlinked, world
<1> QED BY <1>9, <1>10, <1>11 DEF Held

LEMMA StepTimerInitStart == Held /\ TimerInitStart => Held'
<1> SUFFICES ASSUME Held, TimerInitStart PROVE Held'
  OBVIOUS
<1>0. acked \in Acks /\ now \in Nat /\ Good(svc, acked) /\ Phase(svc, acked) /\ Linked(svc)
  BY HeldFacts
<1>1. PICK t : t = [svc EXCEPT !.timer = NoTimer]
  OBVIOUS
<1>2. svc' = dhcp_init(t) /\ UNCHANGED <<world, acked>> /\ svc.timer.fn = "init_start" /\ svc.timer.left = 0
  BY <1>1 DEF TimerInitStart, Popped, Fires
<1>3. Base(t, acked) /\ Alike(svc, t) /\ t.known = svc.known
  BY <1>0, <1>1, PoppedFacts
<1>4. svc.known # NoNet /\ svc.active = NoAddr
  BY <1>0, <1>2 DEF Linked, Phase, Belongs
<1>5. Good(svc', acked) /\ svc'.known = svc.known
  BY <1>0, <1>2, <1>3, <1>4, InitStep DEF Alike
<1> QED BY <1>2, <1>4, <1>5, Settles

LEMMA StepTimerInit == Held /\ TimerInit => Held'
<1> SUFFICES ASSUME Held, TimerInit PROVE Held'
  OBVIOUS
<1>0. /\ acked \in Acks /\ now \in Nat /\ Good(svc, acked) /\ Phase(svc, acked) /\ Linked(svc)
      /\ svc \in Service
  BY HeldFacts
<1>1. PICK t : t = [svc EXCEPT !.timer = NoTimer]
  OBVIOUS
<1>2. svc' = dhcp_init_timeout(t) /\ UNCHANGED <<world, acked>> /\ svc.timer.fn = "init"
  BY <1>1 DEF TimerInit, Popped, Fires
<1>3. /\ Base(t, acked) /\ Alike(svc, t) /\ t.known = svc.known /\ t.state = svc.state
      /\ t.recv = svc.recv /\ t.arp = svc.arp
  BY <1>0, <1>1, PoppedFacts
<1>4. svc.state = "init" /\ svc.known # NoNet /\ svc.active = NoAddr
  BY <1>0, <1>2 DEF Linked, Phase, Belongs
<1>5. svc.arp.op \in {"none", "probe", "announce", "resolve", "router", "check"}
  BY <1>0 DEF Service, ArpRequest
<1>6. svc.arp = NoArp \/ svc.arp.op = "router"
  BY <1>0, <1>4, <1>5 DEF Phase, Belongs, IsBound
<1>7. svc.recv \in {"none", "init"}
  BY <1>0, <1>4 DEF Phase, Belongs
<1>8. Good(svc', acked) /\ svc'.known = svc.known
  BY <1>0, <1>2, <1>3, <1>4, <1>6, <1>7, InitTimeoutStep DEF Alike
<1> QED BY <1>2, <1>4, <1>8, Settles

LEMMA StepTimerInitReboot == Held /\ TimerInitReboot => Held'
<1> SUFFICES ASSUME Held, TimerInitReboot PROVE Held'
  OBVIOUS
<1>0. /\ acked \in Acks /\ now \in Nat /\ Good(svc, acked) /\ Phase(svc, acked) /\ Linked(svc)
      /\ svc \in Service
  BY HeldFacts
<1>1. PICK t : t = [svc EXCEPT !.timer = NoTimer]
  OBVIOUS
<1>2. svc' = dhcp_init_reboot_timeout(t) /\ UNCHANGED <<world, acked>> /\ svc.timer.fn = "init_reboot"
  BY <1>1 DEF TimerInitReboot, Popped, Fires
<1>3. /\ Base(t, acked) /\ Alike(svc, t) /\ t.known = svc.known /\ t.state = svc.state
      /\ t.recv = svc.recv /\ t.arp = svc.arp /\ t.gathering = svc.gathering
  BY <1>0, <1>1, PoppedFacts
<1>4. /\ svc.state = "init_reboot" /\ svc.known # NoNet
      /\ svc.lease.valid /\ (svc.gathering => Acked(svc, acked))
  BY <1>0, <1>2 DEF Linked, Phase, Belongs
<1>5. svc.arp.op \in {"none", "probe", "announce", "resolve", "router", "check"}
  BY <1>0 DEF Service, ArpRequest
<1>6. svc.arp = NoArp \/ svc.arp.op = "router"
  BY <1>0, <1>4, <1>5 DEF Phase, Belongs, IsBound
<1>7. svc.recv \in {"none", "init_reboot"}
  BY <1>0, <1>4 DEF Phase, Belongs
<1>8. t.lease.valid /\ (t.gathering => Acked(t, acked))
  BY <1>3, <1>4 DEF Alike, Acked
<1>9. Good(svc', acked) /\ svc'.known = svc.known
  BY <1>0, <1>2, <1>3, <1>4, <1>6, <1>7, <1>8, InitRebootTimeoutStep
<1> QED BY <1>2, <1>4, <1>9, Settles

LEMMA StepTimerSelect == Held /\ TimerSelect => Held'
<1> SUFFICES ASSUME Held, TimerSelect PROVE Held'
  OBVIOUS
<1>0. /\ acked \in Acks /\ now \in Nat /\ Good(svc, acked) /\ Phase(svc, acked) /\ Linked(svc)
      /\ svc \in Service
  BY HeldFacts
<1>1. PICK t : t = [svc EXCEPT !.timer = NoTimer]
  OBVIOUS
<1>2. svc' = dhcp_select_retry(t) /\ UNCHANGED <<world, acked>> /\ svc.timer.fn = "select"
  BY <1>1 DEF TimerSelect, Popped, Fires
<1>3. /\ Base(t, acked) /\ Alike(svc, t) /\ t.known = svc.known /\ t.state = svc.state
      /\ t.recv = svc.recv /\ t.arp = svc.arp
  BY <1>0, <1>1, PoppedFacts
<1>4. svc.state = "select" /\ svc.known # NoNet /\ svc.active = NoAddr
  BY <1>0, <1>2 DEF Linked, Phase, Belongs
<1>5. svc.arp.op \in {"none", "probe", "announce", "resolve", "router", "check"}
  BY <1>0 DEF Service, ArpRequest
<1>6. svc.arp = NoArp
  BY <1>0, <1>4, <1>5 DEF Phase, Belongs, IsBound
<1>7. svc.recv \in {"none", "select"}
  BY <1>0, <1>4 DEF Phase, Belongs
<1>8. Good(svc', acked) /\ svc'.known = svc.known
  BY <1>0, <1>2, <1>3, <1>4, <1>6, <1>7, SelectRetryStep DEF Alike
<1> QED BY <1>2, <1>4, <1>8, Settles

LEMMA StepTimerRenewStart == Held /\ TimerRenewStart => Held'
<1> SUFFICES ASSUME Held, TimerRenewStart PROVE Held'
  OBVIOUS
<1>0. /\ acked \in Acks /\ now \in Nat /\ Good(svc, acked) /\ Phase(svc, acked) /\ Linked(svc)
  BY HeldFacts
<1>1. PICK t : t = [svc EXCEPT !.timer = NoTimer]
  OBVIOUS
<1>2. svc' = dhcp_renew_rebind(t) /\ UNCHANGED <<world, acked>> /\ svc.timer.fn = "renew_start"
  BY <1>1 DEF TimerRenewStart, Popped, Fires
<1>3. /\ Base(t, acked) /\ Alike(svc, t) /\ t.known = svc.known /\ t.state = svc.state
      /\ t.collisions = svc.collisions
  BY <1>0, <1>1, PoppedFacts
<1>4. IsBound(svc) /\ svc.known # NoNet
  BY <1>0, <1>2 DEF Linked, Phase, Belongs, IsBound
<1>5. Here(t)
  BY <1>0, <1>3, <1>4 DEF Here, Phase, Alike
<1>6. Good(svc', acked) /\ svc'.known = svc.known
  BY <1>0, <1>2, <1>3, <1>4, <1>5, RenewRebindStep
<1> QED BY <1>2, <1>4, <1>6, Settles

LEMMA StepTimerRenew == Held /\ TimerRenew => Held'
<1> SUFFICES ASSUME Held, TimerRenew PROVE Held'
  OBVIOUS
<1>0. /\ acked \in Acks /\ now \in Nat /\ Good(svc, acked) /\ Phase(svc, acked) /\ Linked(svc)
      /\ svc \in Service
  BY HeldFacts
<1>1. PICK t : t = [svc EXCEPT !.timer = NoTimer]
  OBVIOUS
<1>2. svc' = dhcp_renew_timeout(t) /\ UNCHANGED <<world, acked>> /\ svc.timer.fn = "renew_timeout"
  BY <1>1 DEF TimerRenew, Popped, Fires
<1>3. /\ Base(t, acked) /\ Alike(svc, t) /\ t.known = svc.known /\ t.state = svc.state
      /\ t.collisions = svc.collisions /\ t.recv = svc.recv /\ t.arp = svc.arp
  BY <1>0, <1>1, PoppedFacts
<1>4. svc.state \in {"renew", "rebind"} /\ IsBound(svc) /\ svc.known # NoNet
  BY <1>0, <1>2 DEF Linked, Phase, Belongs, IsBound
<1>5. Here(t)
  BY <1>0, <1>3, <1>4 DEF Here, Phase, Alike
<1>6. /\ svc.arp.op \in {"none", "probe", "announce", "resolve", "router", "check"}
      /\ svc.recv \in {"none", "init", "select", "init_reboot", "renew"}
  BY <1>0 DEF Service, ArpRequest
<1>7. svc.arp.op \in {"none", "check"} /\ (svc.arp.op = "none" => svc.arp = NoArp)
  BY <1>0, <1>4, <1>6 DEF Phase, Belongs
<1>8. svc.recv \in {"none", "renew"}
  BY <1>0, <1>4, <1>6 DEF Phase, Belongs
<1>9. Good(svc', acked) /\ svc'.known = svc.known
  BY <1>0, <1>2, <1>3, <1>4, <1>5, <1>7, <1>8, RenewTimeoutStep
<1> QED BY <1>2, <1>4, <1>9, Settles

LEMMA StepTimerRouterRetry == Held /\ TimerRouterRetry => Held'
<1> SUFFICES ASSUME Held, TimerRouterRetry PROVE Held'
  OBVIOUS
<1>0. /\ acked \in Acks /\ now \in Nat /\ Good(svc, acked) /\ Phase(svc, acked) /\ Linked(svc)
      /\ Driven(svc) /\ Keeps(svc, acked)
  BY HeldFacts
<1>1. PICK t : t = [svc EXCEPT !.timer = NoTimer]
  OBVIOUS
<1>2. /\ svc' = IF t.router.ia THEN service_resolve_router(t) ELSE t
      /\ UNCHANGED <<world, acked>> /\ svc.timer.fn = "router_retry"
  BY <1>1 DEF TimerRouterRetry, Popped, Fires
<1>3. /\ Base(t, acked) /\ Phase(t, acked) /\ Alike(svc, t) /\ t.known = svc.known /\ t.state = svc.state
      /\ t.recv = svc.recv /\ t.arp = svc.arp /\ t.rto = svc.rto /\ t.busy = svc.busy
      /\ t.collisions = svc.collisions /\ t.timer = NoTimer
  BY <1>0, <1>1, PoppedFacts
<1>4. svc.state = "bound" /\ svc.rto /\ svc.known # NoNet /\ svc.active # NoAddr
  BY <1>0, <1>2 DEF Linked, Phase, Belongs
<1>5. Driven(t) /\ Linked(t)
  BY <1>0, <1>3, <1>4 DEF Driven, Linked, Alike
<1>6. CASE ~t.router.ia
  BY <1>2, <1>3, <1>4, <1>5, <1>6, Settles DEF Good
<1>7. CASE t.router.ia
  <2>1. t.saved.ip # NoAddr
    BY <1>3, <1>7 DEF Base, Keeps
  <2>2. svc' = service_resolve_router(t)
    BY <1>2, <1>7
  <2>3. PICK u : u = service_resolve_router(t)
    OBVIOUS
  <2>4. /\ Base(u, acked) /\ u.arp.op = "resolve"
        /\ u.known = t.known /\ u.state = t.state /\ u.timer = t.timer /\ u.recv = t.recv
        /\ u.rto = t.rto /\ u.busy = t.busy /\ u.collisions = t.collisions
        /\ u.lease = t.lease /\ u.saved = t.saved /\ u.active = t.active
    BY <1>3, <2>1, <2>3, ResolveFacts
  <2>5. Phase(u, acked) /\ Driven(u) /\ Linked(u)
    BY <1>3, <1>4, <2>4, Kinds DEF Phase, Belongs, IsBound, Driven, Linked, Alike
  <2> QED BY <1>2, <1>3, <1>4, <2>2, <2>3, <2>4, <2>5, Settles DEF Good
<1> QED BY <1>6, <1>7

LEMMA StepReceive == ASSUME NEW p \in Replies, Held, Receive(p) PROVE Held'
<1>0. /\ acked \in Acks /\ now \in Nat /\ Good(svc, acked) /\ Phase(svc, acked) /\ Linked(svc)
      /\ net \in Net
  BY HeldFacts DEF Receive, NetOrNone
<1>1. p \in Reply /\ p.type \in {"offer", "ack", "nak"} /\ p.ip \in Addr
  BY ClientAssumption DEF Reply
<1>2. PICK B : B = acked'
  OBVIOUS
<1>3. /\ B = IF p.type = "ack" THEN acked \cup {<<net, p.ip>>} ELSE acked
      /\ UNCHANGED world
  BY <1>2 DEF Receive
<1>4. B \in Acks /\ acked \subseteq B
  BY <1>0, <1>1, <1>3 DEF Acks
<1>5. p.type = "ack" => <<net, p.ip>> \in B
  BY <1>3
<1>6. svc.known # NoNet
  <2>1. svc.recv \in {"init", "select", "init_reboot", "renew"}
    BY DEF Receive
  <2> QED BY <1>0, <2>1 DEF Linked, Phase, Belongs
<1>7. Good(svc', B) /\ svc'.known = svc.known
  <2>1. CASE svc.recv = "init"
    <3>1. svc' = dhcp_init_data(svc, p)
      BY <2>1 DEF Receive
    <3>2. Good(svc', acked) /\ svc'.known = svc.known
      BY <1>0, <1>1, <2>1, <3>1, InitDataStep
    <3>3. Good(svc', B)
      BY <1>4, <3>2, Mono
    <3> QED BY <3>2, <3>3
  <2>2. CASE svc.recv = "select"
    <3>1. svc' = dhcp_select_data(svc, p) /\ p.type # "offer"
      BY <2>2 DEF Receive
    <3>2. p.type # "nak" => <<net, p.ip>> \in B
      BY <1>1, <1>5, <3>1
    <3>a. acked \subseteq B
      BY <1>4
    <3>b. B \in Acks
      BY <1>4
    <3>3. PICK t : t = svc'
      OBVIOUS
    <3>4. t = dhcp_select_data(svc, p)
      BY <3>1, <3>3
    <3>5. Good(t, B) /\ t.known = svc.known
      BY <1>0, <1>1, <2>2, <3>2, <3>4, <3>a, <3>b, SelectDataStep
    <3> QED BY <3>3, <3>5
  <2>3. CASE svc.recv = "init_reboot"
    <3>1. svc' = dhcp_init_reboot_data(svc, p) /\ p.type # "offer"
      BY <2>3 DEF Receive
    <3>2. p.type \in {"ack", "nak"}
      BY <1>1, <3>1
    <3>a. acked \subseteq B
      BY <1>4
    <3>b. B \in Acks
      BY <1>4
    <3>3. PICK t : t = svc'
      OBVIOUS
    <3>4. t = dhcp_init_reboot_data(svc, p)
      BY <3>1, <3>3
    <3>5. Good(t, B) /\ t.known = svc.known
      BY <1>0, <1>1, <1>5, <2>3, <3>2, <3>4, <3>a, <3>b, InitRebootDataStep
    <3> QED BY <3>3, <3>5
  <2>4. CASE svc.recv = "renew"
    <3>1. svc' = dhcp_renew_data(svc, p) /\ p.type # "offer"
      BY <2>4 DEF Receive
    <3>2. p.type \in {"ack", "nak"}
      BY <1>1, <3>1
    <3>a. acked \subseteq B
      BY <1>4
    <3>b. B \in Acks
      BY <1>4
    <3>3. PICK t : t = svc'
      OBVIOUS
    <3>4. t = dhcp_renew_data(svc, p)
      BY <3>1, <3>3
    <3>5. Good(t, B) /\ t.known = svc.known
      BY <1>0, <1>1, <1>5, <2>4, <3>2, <3>4, <3>a, <3>b, RenewDataStep
    <3> QED BY <3>3, <3>5
  <2> QED BY <2>1, <2>2, <2>3, <2>4 DEF Receive
<1>8. World'
  BY <1>2, <1>3, <1>4 DEF Held, World, world, Acks
<1>9. Good(svc, acked)'
  BY <1>2, <1>7
<1>10. Unlinked'
  BY <1>3, <1>6, <1>7 DEF Held, Unlinked, world
<1> QED BY <1>8, <1>9, <1>10 DEF Held

LEMMA StepArpBound ==
    ASSUME NEW result \in {"in_use", "not_in_use", "error"}, Held, ArpBound(result) PROVE Held'
<1>0. /\ acked \in Acks /\ now \in Nat /\ Good(svc, acked) /\ Phase(svc, acked) /\ Linked(svc)
  BY HeldFacts
<1>1. PICK t : t = [svc EXCEPT !.arp = NoArp]
  OBVIOUS
<1>2. /\ svc' = dhcp_bound_arp(t, result) /\ UNCHANGED <<world, acked>>
      /\ svc.arp.op \in {"probe", "announce"}
  BY <1>1 DEF ArpBound, ArpDone, ArpResult
<1>3. Base(t, acked) /\ t.known = svc.known /\ t.state = svc.state /\ t.saved = svc.saved
  BY <1>0, <1>1, DoneFacts
<1>4. svc.state = "bound" /\ svc.known # NoNet /\ Acked(t, acked)
  BY <1>0, <1>2, <1>3 DEF Linked, Phase, Belongs, Acked
<1>5. Good(svc', acked) /\ svc'.known = svc.known
  BY <1>0, <1>2, <1>3, <1>4, BoundArpStep
<1> QED BY <1>2, <1>4, <1>5, Settles

LEMMA StepArpResolve ==
    ASSUME NEW result \in {"in_use", "not_in_use", "error"}, Held, ArpResolve(result) PROVE Held'
<1>0. /\ acked \in Acks /\ now \in Nat /\ Good(svc, acked) /\ Phase(svc, acked) /\ Linked(svc)
      /\ Driven(svc) /\ net \in NetOrNone
  BY HeldFacts
<1>1. PICK t : t = [svc EXCEPT !.arp = NoArp]
  OBVIOUS
<1>2. /\ svc' = dhcp_resolve_router_callback(t, result) /\ UNCHANGED <<world, acked>>
      /\ svc.arp.op = "resolve"
  BY <1>1 DEF ArpResolve, ArpDone, ArpResult
<1>3. /\ Base(t, acked) /\ Phase(t, acked) /\ Alike(svc, t) /\ t.known = svc.known /\ t.state = svc.state
      /\ t.timer = svc.timer /\ t.rto = svc.rto /\ t.arp = NoArp
  BY <1>0, <1>1, DoneFacts
<1>4. svc.state = "bound" /\ svc.known # NoNet /\ t.active # NoAddr
  BY <1>0, <1>2, <1>3 DEF Linked, Phase, Belongs, Alike
<1>5. ~Wireless /\ ~t.rto => t.timer.fn # "none" \/ t.lease.len = Infinite
  BY <1>0, <1>2, <1>3, <1>4 DEF Driven, Alike
<1>6. Good(svc', acked) /\ svc'.known = svc.known
  BY <1>0, <1>2, <1>3, <1>4, <1>5, ResolvedStep
<1> QED BY <1>2, <1>4, <1>6, Settles

LEMMA StepArpRouter ==
    ASSUME NEW result \in {"in_use", "not_in_use", "error"}, Held, ArpRouter(result) PROVE Held'
<1>0. /\ acked \in Acks /\ Good(svc, acked) /\ Phase(svc, acked) /\ Linked(svc) /\ Driven(svc)
      /\ net \in NetOrNone
  BY HeldFacts
<1>1. PICK t : t = [svc EXCEPT !.arp = NoArp]
  OBVIOUS
<1>2. PICK f : svc' = dhcp_arp_router_result(t, f) /\ \A x \in f : x.hw \in Net
  <2>1. CASE result # "in_use"
    <3>1. PICK f : f = {}
      OBVIOUS
    <3> QED BY <1>1, <2>1, <3>1 DEF ArpRouter, ArpDone
  <2>2. CASE result = "in_use"
    <3>1. PICK x \in svc.arp.info : x.hw = net /\ svc' = dhcp_arp_router_result(t, {x})
      BY <1>1, <2>2 DEF ArpRouter, ArpDone
    <3>2. net \in Net
      BY <1>0, <2>2 DEF ArpRouter, ArpResult, NetOrNone
    <3>3. PICK f : f = {x}
      OBVIOUS
    <3> QED BY <3>1, <3>2, <3>3
  <2> QED BY <2>1, <2>2
<1>3. svc.arp.op = "router" /\ UNCHANGED <<world, acked>>
  BY DEF ArpRouter, ArpResult
<1>4. /\ Base(t, acked) /\ Phase(t, acked) /\ Alike(svc, t) /\ t.known = svc.known /\ t.state = svc.state
      /\ t.timer = svc.timer /\ t.rto = svc.rto /\ t.arp = NoArp /\ t.busy = svc.busy
      /\ t.gathering = svc.gathering
  BY <1>0, <1>1, DoneFacts
<1>5. /\ svc.state \in {"init", "init_reboot"} /\ svc.known # NoNet
      /\ svc.state = "init_reboot" => svc.lease.valid /\ (svc.gathering => Acked(svc, acked))
      /\ svc.timer.fn # "check_link"
  BY <1>0, <1>3 DEF Linked, Phase, Belongs
<1>6. Driven(t) /\ Linked(t)
  BY <1>0, <1>4, <1>5 DEF Driven, Linked
<1>7. t.state = "init_reboot" => t.lease.valid /\ (t.gathering => Acked(t, acked))
  BY <1>4, <1>5 DEF Alike, Acked
<1>8. Good(svc', acked) /\ svc'.known = svc.known
  <2>1. Good(t, acked)
    BY <1>4, <1>6 DEF Good
  <2> QED BY <1>0, <1>2, <1>4, <1>5, <1>7, <2>1, ArpRouterResultStep
<1> QED BY <1>3, <1>5, <1>8, Settles

LEMMA StepArpCheck ==
    ASSUME NEW result \in {"in_use", "not_in_use", "error"}, Held, ArpCheck(result) PROVE Held'
<1>0. /\ acked \in Acks /\ now \in Nat /\ Good(svc, acked) /\ Phase(svc, acked) /\ Linked(svc)
      /\ Driven(svc)
  BY HeldFacts
<1>1. PICK t : t = [svc EXCEPT !.arp = NoArp]
  OBVIOUS
<1>2. PICK u : u = [t EXCEPT !.busy = FALSE]
  OBVIOUS
<1>3. svc.arp.op = "check" /\ UNCHANGED <<world, acked>>
  BY DEF ArpCheck, ArpResult
<1>4. svc' = dhcp_check_link(u, FALSE) \/ svc' = ResumeRenewal(u, 1)
  BY <1>1, <1>2 DEF ArpCheck, ArpDone
<1>5. /\ Base(t, acked) /\ Phase(t, acked) /\ Alike(svc, t) /\ t.known = svc.known /\ t.state = svc.state
      /\ t.timer = svc.timer /\ t.rto = svc.rto /\ t.arp = NoArp /\ t.recv = svc.recv
      /\ t.collisions = svc.collisions
  BY <1>0, <1>1, DoneFacts
<1>6. Whole(t) /\ Typed(t)
  BY <1>5, Members DEF Base
<1>7. /\ Whole(u) /\ Alike(t, u) /\ u.known = t.known /\ u.state = t.state /\ u.timer = t.timer
      /\ u.rto = t.rto /\ u.arp = t.arp /\ u.recv = t.recv /\ u.collisions = t.collisions
      /\ u.gathering = t.gathering /\ ~u.busy
  BY <1>2, <1>6 DEF Whole, Alike
<1>8. Typed(u)
  BY <1>2, <1>6 DEF Whole, Typed
<1>9. Base(u, acked)
  BY <1>5, <1>7, <1>8, Members, SameBase
<1>10. IsBound(svc) /\ svc.known # NoNet
  BY <1>0, <1>3 DEF Phase, Belongs, Linked, IsBound
<1>11. Phase(u, acked)
  BY <1>5, <1>7 DEF Phase, Belongs, IsBound, Alike, Acked
<1>12. Driven(u) /\ Linked(u)
  BY <1>0, <1>3, <1>5, <1>7, <1>10 DEF Driven, Linked, Alike
<1>13. Good(svc', acked) /\ svc'.known = svc.known
  <2>1. CASE svc' = dhcp_check_link(u, FALSE)
    <3>1. PICK no \in BOOLEAN : no = FALSE
      OBVIOUS
    <3>2. svc' = dhcp_check_link(u, no)
      BY <2>1, <3>1
    <3> QED BY <1>0, <1>5, <1>7, <1>9, <1>11, <1>12, <3>2, CheckLinkStep
  <2>2. CASE svc' = ResumeRenewal(u, 1)
    <3>1. PICK one \in Nat : one = 1
      OBVIOUS
    <3>2. svc' = ResumeRenewal(u, one)
      BY <2>2, <3>1
    <3>3. Good(u, acked) /\ IsBound(u) /\ u.known # NoNet
      BY <1>5, <1>7, <1>9, <1>10, <1>11, <1>12 DEF Good, IsBound
    <3> QED BY <1>0, <1>5, <1>7, <3>2, <3>3, ResumeStep
  <2> QED BY <1>4, <2>1, <2>2
<1> QED BY <1>3, <1>10, <1>13, Settles

LEMMA StepArpCollision == Held /\ ArpCollision => Held'
<1> SUFFICES ASSUME Held, ArpCollision PROVE Held'
  OBVIOUS
<1>0. acked \in Acks /\ Base(svc, acked)
  BY HeldFacts
<1>1. PICK no \in BOOLEAN : no = FALSE
  OBVIOUS
<1>2. PICK c : c = dhcp_lease_clear(svc, no)
  OBVIOUS
<1>3. PICK u : u = service_publish_failure(c)
  OBVIOUS
<1>4. svc' = dhcp_decline(u) /\ UNCHANGED <<world, acked>> /\ svc.active # NoAddr
  BY <1>1, <1>2, <1>3 DEF ArpCollision
<1>5. PICK l, f : Stored(l, f, acked) /\ c = Relist(svc, l, f)
  BY <1>0, <1>2, ClearStep
<1>6. Base(c, acked) /\ SameRest(svc, c)
  BY <1>0, <1>5, Relisted
<1>7. Base(u, acked) /\ SameControl(c, u) /\ ~u.published
  BY <1>3, <1>6, FailureFacts
<1>8. Good(svc', acked) /\ svc'.known = u.known
  BY <1>4, <1>7, DeclineStep DEF Base
<1>9. svc'.known = svc.known
  BY <1>6, <1>7, <1>8 DEF SameRest, SameControl
<1>10. World'
  BY <1>4 DEF Held, World, world
<1>11. Good(svc, acked)'
  BY <1>4, <1>8
<1>12. Unlinked'
  BY <1>4, <1>9 DEF Held, Unlinked, world
<1> QED BY <1>10, <1>11, <1>12 DEF Held

LEMMA StepLinkTimerExpired == Held /\ LinkTimerExpired => Held'
<1> SUFFICES ASSUME Held, LinkTimerExpired PROVE Held'
  OBVIOUS
<1>0. acked \in Acks /\ Base(svc, acked)
  BY HeldFacts
<1>1. svc' = dhcp_inactive(svc) /\ linkTimer' = FALSE /\ UNCHANGED <<net, asleep, now, acked>>
  BY DEF LinkTimerExpired
<1>2. /\ Good(svc', acked) /\ svc'.known = svc.known /\ svc'.state = "inactive"
      /\ svc'.active = NoAddr /\ ~svc'.busy
  BY <1>0, <1>1, InactiveStep
<1>3. World'
  BY <1>1 DEF Held, World
<1>4. Good(svc, acked)'
  BY <1>1, <1>2
<1>5. Unlinked'
  BY <1>1, <1>2 DEF Unlinked
<1> QED BY <1>3, <1>4, <1>5 DEF Held

LEMMA StepRenew == Held /\ Renew => Held'
<1> SUFFICES ASSUME Held, Renew PROVE Held'
  OBVIOUS
<1>0. acked \in Acks /\ now \in Nat /\ Good(svc, acked) /\ Base(svc, acked)
  BY HeldFacts
<1>1. PICK yes \in BOOLEAN : yes = TRUE
  OBVIOUS
<1>2. PICK t : t = service_router_clear_arp_verified(svc)
  OBVIOUS
<1>3. svc' = dhcp_check_link(t, yes) /\ UNCHANGED <<world, acked>>
  BY <1>1, <1>2 DEF Renew
<1>4. Good(t, acked) /\ t.known = svc.known /\ t.active = svc.active /\ t.busy = svc.busy
  BY <1>0, <1>2, Unverified
<1>5. /\ Good(svc', acked) /\ svc'.known = t.known
      /\ t.known = NoNet => svc'.active = t.active /\ svc'.busy = t.busy /\ svc'.state = "inactive"
  BY <1>0, <1>3, <1>4, CheckLinkStep DEF Good
<1>6. World'
  BY <1>3 DEF Held, World, world
<1>7. Good(svc, acked)'
  BY <1>3, <1>5
<1>8. Unlinked'
  BY <1>3, <1>4, <1>5 DEF Held, Unlinked, world
<1> QED BY <1>6, <1>7, <1>8 DEF Held

LEMMA StepSleep == Held /\ Sleep => Held'
<1> SUFFICES ASSUME Held, Sleep PROVE Held'
  OBVIOUS
<1>0. acked \in Acks /\ Good(svc, acked) /\ Base(svc, acked)
  BY HeldFacts
<1>1. /\ svc' = IF svc.lease.valid THEN dhcp_lease_save(svc, TRUE) ELSE svc
      /\ asleep' = TRUE /\ UNCHANGED <<net, linkTimer, now, acked>>
  BY DEF Sleep
<1>2. /\ Good(svc', acked) /\ svc'.known = svc.known /\ svc'.active = svc.active
      /\ svc'.busy = svc.busy /\ svc'.state = svc.state
  <2>1. CASE svc.lease.valid
    <3>1. PICK yes \in BOOLEAN : yes = TRUE
      OBVIOUS
    <3>2. svc' = dhcp_lease_save(svc, yes)
      BY <1>1, <2>1, <3>1
    <3>3. PICK l, f : Stored(l, f, acked) /\ svc' = Relist(svc, l, f)
      BY <1>0, <2>1, <3>2, SaveStep
    <3> QED BY <1>0, <3>3, Relisted DEF SameRest
  <2>2. CASE ~svc.lease.valid
    BY <1>0, <1>1, <2>2
  <2> QED BY <2>1, <2>2
<1>3. World'
  BY <1>1 DEF Held, World
<1>4. Good(svc, acked)'
  BY <1>1, <1>2
<1>5. Unlinked'
  BY <1>1, <1>2 DEF Held, Unlinked
<1> QED BY <1>3, <1>4, <1>5 DEF Held

\* The network is another, or none; nothing else of the protocol changed.
Elsewhere(d, t, k) ==
    /\ t.known = k /\ t.state = d.state /\ t.timer = d.timer /\ t.recv = d.recv /\ t.arp = d.arp
    /\ t.gathering = d.gathering /\ t.rto = d.rto /\ t.collisions = d.collisions /\ t.busy = d.busy
    /\ t.lease = d.lease /\ t.saved = d.saved /\ t.router.ia = d.router.ia
    /\ t.active \in {d.active, NoAddr}

LEMMA ElsewhereFacts ==
    ASSUME NEW A, NEW d, Good(d, A), NEW k, NEW t, Elsewhere(d, t, k), d.state \in {"init", "init_reboot"}
    PROVE  Phase(t, A) /\ Driven(t)
<1>1. Phase(d, A) /\ Driven(d)
  BY DEF Good
<1>2. Phase(t, A)
  BY <1>1 DEF Phase, Belongs, IsBound, Acked, Elsewhere
<1>3. Driven(t)
  BY <1>1 DEF Driven, Elsewhere
<1> QED BY <1>2, <1>3

LEMMA ToldFacts ==
    ASSUME NEW A, NEW d, Good(d, A), NEW k \in NetOrNone, NEW t, t = [d EXCEPT !.known = k]
    PROVE  Base(t, A) /\ Elsewhere(d, t, k) /\ t.active = d.active
<1>0. Base(d, A) /\ Whole(d) /\ Typed(d)
  BY Members DEF Good, Base
<1>1. Whole(t) /\ Alike(d, t) /\ Elsewhere(d, t, k)
  BY <1>0 DEF Whole, Alike, Elsewhere
<1>2. Typed(t)
  BY <1>0 DEF Whole, Typed
<1>3. Base(t, A)
  BY <1>0, <1>1, <1>2, Members, SameBase
<1> QED BY <1>1, <1>3 DEF Alike

LEMMA StepLinkChanged == Held /\ LinkChanged => Held'
<1> SUFFICES ASSUME Held, LinkChanged PROVE Held'
  OBVIOUS
<1>0. acked \in Acks /\ now \in Nat /\ Good(svc, acked) /\ net \in NetOrNone
  BY HeldFacts
<1>1. PICK s : s = [svc EXCEPT !.known = net]
  OBVIOUS
<1>2. PICK d : d = service_router_clear_arp_verified(s)
  OBVIOUS
<1>3. Base(s, acked) /\ Elsewhere(svc, s, net) /\ s.active = svc.active
  BY <1>0, <1>1, ToldFacts
<1>4. Base(d, acked) /\ Elsewhere(svc, d, net) /\ d.active = svc.active
  BY <1>2, <1>3, Unverified DEF Elsewhere
<1>5. PICK u : u = service_publish_failure(service_remove_address(d))
  OBVIOUS
<1>6. Base(u, acked) /\ Elsewhere(svc, u, net)
  BY <1>4, <1>5, DroppedFacts DEF Elsewhere, SameControl
<1>7. PICK no \in BOOLEAN : no = FALSE
  OBVIOUS
<1>8. /\ svc' = dhcp_check_link(u, no) \/ svc' = dhcp_check_link(d, no)
      /\ linkTimer' = ~Link(d) /\ UNCHANGED <<net, asleep, now, acked>>
  <2>1. PICK m \in BOOLEAN : m = (Wireless /\ Link(d))
    OBVIOUS
  <2>2. svc' = dhcp_check_link(IF m THEN u ELSE d, no)
    BY <1>1, <1>2, <1>5, <1>7, <2>1 DEF LinkChanged
  <2>3. m \/ ~m
    OBVIOUS
  <2>4. linkTimer' = ~Link(d) /\ UNCHANGED <<net, asleep, now, acked>>
    BY <1>1, <1>2 DEF LinkChanged
  <2> QED BY <2>2, <2>4
<1>9. /\ svc.state \in {"init", "init_reboot"} =>
            Phase(d, acked) /\ Driven(d) /\ Phase(u, acked) /\ Driven(u)
  BY <1>0, <1>4, <1>6, ElsewhereFacts
<1>10. d.known = net /\ u.known = net /\ d.state = svc.state /\ u.state = svc.state
  BY <1>4, <1>6 DEF Elsewhere
<1>11. Good(svc', acked) /\ svc'.known = net
  <2>1. CASE svc' = dhcp_check_link(u, no)
    BY <1>0, <1>6, <1>9, <1>10, <2>1, CheckLinkStep
  <2>2. CASE svc' = dhcp_check_link(d, no)
    BY <1>0, <1>4, <1>9, <1>10, <2>2, CheckLinkStep
  <2> QED BY <1>8, <2>1, <2>2
<1>12. World'
  BY <1>8 DEF Held, World, Link
<1>13. Good(svc, acked)'
  BY <1>8, <1>11
<1>14. Unlinked'
  BY <1>8, <1>10, <1>11 DEF Unlinked, Link
<1> QED BY <1>12, <1>13, <1>14 DEF Held

LEMMA WakeStep ==
    ASSUME NEW A \in Acks, NEW d, Good(d, A), d.known # NoNet, now \in Nat,
           NEW roamed \in BOOLEAN, roamed => Wireless, NEW t, t = WakeOnSameNetwork(d, roamed)
    PROVE  Good(t, A) /\ t.known = d.known
<1>0. Base(d, A)
  BY DEF Good
<1>1. PICK c : c = dhcp_check_lease(d)
  OBVIOUS
<1>2. /\ Base(c, A) /\ c.known = d.known
      /\ c.lease.valid => c = d
      /\ ~c.lease.valid => c.active = NoAddr
  BY <1>0, <1>1, CheckLeaseFacts DEF SameControl
<1>3. CASE ~c.lease.valid
  <2>1. t = dhcp_init(c)
    BY <1>1, <1>3 DEF WakeOnSameNetwork
  <2> QED BY <1>2, <1>3, <2>1, InitStep
<1>4. CASE c.lease.valid /\ (~IsBound(c) \/ ~c.published \/ c.rto)
  <2>1. t = dhcp_init_reboot(c)
    BY <1>1, <1>4 DEF WakeOnSameNetwork
  <2> QED BY <1>2, <1>4, <2>1, InitRebootStep
<1>5. CASE c.lease.valid /\ IsBound(c) /\ c.published /\ ~c.rto
  <2>0. c = d /\ Good(c, A)
    BY <1>2, <1>5
  <2>1. t = IF roamed /\ c.router.ia THEN dhcp_check_router(c)
            ELSE ResumeRenewal(IF roamed THEN CheckRouter(c) ELSE c, WakeSkew)
    BY <1>1, <1>5 DEF WakeOnSameNetwork
  <2>2. CASE roamed /\ c.router.ia
    BY <1>5, <2>0, <2>1, <2>2, CheckRouterStep
  <2>3. CASE ~(roamed /\ c.router.ia)
    <3>1. PICK x : x = IF roamed THEN CheckRouter(c) ELSE c
      OBVIOUS
    <3>2. Good(x, A) /\ x.known = c.known /\ IsBound(x)
      <4>1. CASE ~roamed
        BY <1>5, <2>0, <3>1, <4>1
      <4>2. CASE roamed
        <5>1. x = service_router_clear_arp_verified(c)
          BY <2>3, <3>1, <4>2 DEF CheckRouter
        <5>2. Good(x, A) /\ x.known = c.known /\ x.state = c.state
          BY <1>2, <2>0, <5>1, Unverified
        <5> QED BY <1>5, <5>2 DEF IsBound
      <4> QED BY <4>1, <4>2
    <3>3. t = ResumeRenewal(x, WakeSkew) /\ WakeSkew \in Nat
      BY <2>1, <2>3, <3>1, Kinds
    <3> QED BY <1>2, <2>0, <3>2, <3>3, ResumeStep
  <2> QED BY <2>2, <2>3
<1> QED BY <1>3, <1>4, <1>5

LEMMA StepWake ==
    ASSUME NEW same \in BOOLEAN, NEW roamed \in BOOLEAN, Held, Wake(same, roamed)
    PROVE  Held'
<1>0. acked \in Acks /\ now \in Nat /\ Good(svc, acked) /\ Base(svc, acked) /\ net \in NetOrNone
  BY HeldFacts
<1>1. PICK d : d = [svc EXCEPT !.known = net]
  OBVIOUS
<1>2. Base(d, acked) /\ Elsewhere(svc, d, net)
  BY <1>0, <1>1, ToldFacts
<1>3. d.known = net /\ (Link(d) <=> net # NoNet)
  BY <1>2 DEF Elsewhere, Link
<1>4. PICK moved \in BOOLEAN :
          moved = (~Link(d) \/ IF Wireless THEN net # svc.known ELSE ~same)
  OBVIOUS
<1>5. PICK u : u = service_publish_failure(service_remove_address(d))
  OBVIOUS
<1>6. PICK no \in BOOLEAN : no = FALSE
  OBVIOUS
<1>7. PICK w : w = CASE same /\ ~Link(d) -> svc
                     [] ~(same /\ ~Link(d)) /\ moved -> dhcp_check_link(u, no)
                     [] OTHER -> WakeOnSameNetwork(d, roamed)
  OBVIOUS
<1>8. /\ svc' = IF Link(svc) = Link(d) THEN w ELSE service_router_clear_arp_verified(w)
      /\ linkTimer' = IF net = svc.known THEN linkTimer ELSE ~Link(d)
      /\ asleep' = FALSE /\ UNCHANGED <<net, now, acked>>
      /\ same => net = svc.known
      /\ roamed => Wireless /\ ~moved
  BY <1>1, <1>4, <1>5, <1>6, <1>7 DEF Wake
<1>9. /\ Good(w, acked) /\ w.known = net
      /\ net = NoNet /\ net = svc.known =>
            /\ w.active \in {svc.active, NoAddr} /\ w.busy = svc.busy
            /\ w.state \in {svc.state, "inactive"}
  <2>1. CASE same /\ ~Link(d)
    BY <1>0, <1>3, <1>7, <1>8, <2>1
  <2>2. CASE ~(same /\ ~Link(d)) /\ moved
    <3>1. Base(u, acked) /\ Elsewhere(svc, u, net)
      BY <1>2, <1>5, DroppedFacts DEF Elsewhere, SameControl
    <3>2. svc.state \in {"init", "init_reboot"} => Phase(u, acked) /\ Driven(u)
      BY <1>0, <3>1, ElsewhereFacts
    <3>3. u.known = net /\ u.state = svc.state /\ u.busy = svc.busy /\ u.active \in {svc.active, NoAddr}
      BY <3>1 DEF Elsewhere
    <3>4. w = dhcp_check_link(u, no)
      BY <1>7, <2>2
    <3>5. /\ Good(w, acked) /\ w.known = u.known
          /\ u.known = NoNet => w.active = u.active /\ w.busy = u.busy /\ w.state = "inactive"
      BY <1>0, <3>1, <3>2, <3>3, <3>4, CheckLinkStep
    <3> QED BY <3>3, <3>5
  <2>3. CASE ~(same /\ ~Link(d)) /\ ~moved
    <3>1. net # NoNet /\ net = svc.known
      BY <1>3, <1>4, <1>8, <2>3
    <3>2. d = svc
      BY <1>0, <1>1, <3>1, Members DEF Base, Whole
    <3>3. w = WakeOnSameNetwork(svc, roamed)
      BY <1>7, <2>3, <3>2
    <3>4. Good(w, acked) /\ w.known = svc.known
      BY <1>0, <1>8, <3>1, <3>3, WakeStep
    <3> QED BY <3>1, <3>4
  <2> QED BY <2>1, <2>2, <2>3
<1>10. PICK v : v = service_router_clear_arp_verified(w)
  OBVIOUS
<1>11. /\ Good(v, acked) /\ v.known = w.known /\ v.active = w.active /\ v.busy = w.busy
       /\ v.state = w.state
  BY <1>9, <1>10, Unverified DEF Good
<1>12. svc' = w \/ svc' = v
  BY <1>8, <1>10
<1>13. /\ Good(svc', acked) /\ svc'.known = net
       /\ net = NoNet /\ net = svc.known =>
            /\ svc'.active \in {svc.active, NoAddr} /\ svc'.busy = svc.busy
            /\ svc'.state \in {svc.state, "inactive"}
  BY <1>9, <1>11, <1>12
<1>14. World'
  BY <1>8 DEF Held, World, Link
<1>15. Good(svc, acked)'
  BY <1>8, <1>13
<1>16. Unlinked'
  BY <1>3, <1>8, <1>13 DEF Held, Unlinked
<1> QED BY <1>14, <1>15, <1>16 DEF Held

LEMMA StepBssidChanged == Held /\ BssidChanged => Held'
<1> SUFFICES ASSUME Held, BssidChanged PROVE Held'
  OBVIOUS
<1>0. acked \in Acks /\ Good(svc, acked) /\ Base(svc, acked)
  BY HeldFacts
<1>1. Wireless /\ svc.known # NoNet /\ UNCHANGED <<world, acked>>
  BY DEF BssidChanged, Link
<1>2. \/ svc' = service_router_clear_arp_verified(svc)
      \/ IsBound(svc) /\ svc.router.ia /\ svc' = dhcp_check_router(svc)
  BY DEF BssidChanged, CheckRouter
<1>3. Good(svc', acked) /\ svc'.known = svc.known
  <2>1. CASE svc' = service_router_clear_arp_verified(svc)
    BY <1>0, <2>1, Unverified
  <2>2. CASE IsBound(svc) /\ svc.router.ia /\ svc' = dhcp_check_router(svc)
    BY <1>0, <1>1, <2>2, CheckRouterStep
  <2> QED BY <1>2, <2>1, <2>2
<1> QED BY <1>1, <1>3, Settles

LEMMA StepForgetSSID == ASSUME NEW n \in Net, Held, ForgetSSID(n) PROVE Held'
<1>0. acked \in Acks /\ Good(svc, acked) /\ Base(svc, acked)
  BY HeldFacts
<1>1. Whole(svc) /\ Stored(svc.list, svc.file, acked)
  BY <1>0, Members DEF Base
<1>2. PICK l : l = Select(svc.list, {e \in Range(svc.list) : e.net # n})
  OBVIOUS
<1>3. PICK d : d = [svc EXCEPT !.list = l]
  OBVIOUS
<1>4. ListOK(l, acked)
  BY <1>1, <1>2, SelectLists DEF Stored
<1>5. Stored(l, svc.file, acked)
  BY <1>1, <1>4 DEF Stored
<1>6. d = Relist(svc, l, svc.file)
  BY <1>1, <1>3 DEF Relist, Whole
<1>7. Base(d, acked) /\ Good(d, acked) /\ SameRest(svc, d)
  <2>1. PICK f : f = svc.file
    OBVIOUS
  <2>2. Stored(l, f, acked) /\ d = Relist(svc, l, f)
    BY <1>5, <1>6, <2>1
  <2> QED BY <1>0, <2>2, Relisted
<1>8. /\ svc' = IF d.lease.net # n THEN d ELSE Forgotten(d)
      /\ Wireless /\ UNCHANGED <<world, acked>>
  BY <1>2, <1>3 DEF ForgetSSID, Forgotten
<1>9. /\ Good(svc', acked) /\ svc'.known = d.known /\ svc'.state = d.state
      /\ svc'.active \in {d.active, NoAddr} /\ (svc'.busy => d.busy)
  <2>1. CASE d.lease.net # n
    BY <1>7, <1>8, <2>1
  <2>2. CASE d.lease.net = n
    <3>1. d.lease.valid
      BY <1>7, <2>2, Kinds DEF Base, Keeps
    <3>2. svc' = Forgotten(d)
      BY <1>8, <2>2
    <3> QED BY <1>0, <1>7, <1>8, <3>1, <3>2, ForgetStep
  <2> QED BY <2>1, <2>2
<1>10. World'
  BY <1>8 DEF Held, World, world
<1>11. Good(svc, acked)'
  BY <1>8, <1>9
<1>12. Unlinked'
  BY <1>7, <1>8, <1>9 DEF Held, Unlinked, world, SameRest
<1> QED BY <1>10, <1>11, <1>12 DEF Held

LEMMA StepStart == Held /\ Start => Held'
<1> SUFFICES ASSUME Held, Start PROVE Held'
  OBVIOUS
<1>0. acked \in Acks /\ net \in NetOrNone /\ Stored(svc.list, svc.file, acked)
  BY HeldFacts
<1>1. /\ svc' = Begun(svc.file, net) /\ linkTimer' = (linkTimer /\ net = NoNet)
      /\ UNCHANGED <<net, asleep, now, acked>>
  BY DEF Start, Begun
<1>2. PICK f : f = svc.file
  OBVIOUS
<1>3. /\ Good(svc', acked) /\ svc'.known = net /\ svc'.state = "inactive"
      /\ svc'.active = NoAddr /\ ~svc'.busy
  <2>1. f \in {NoFile} \cup Entry /\ (f # NoFile => EntryOK(f, acked)) /\ svc' = Begun(f, net)
    BY <1>0, <1>1, <1>2 DEF Stored
  <2> QED BY <1>0, <2>1, StartStep
<1>4. World'
  BY <1>1 DEF Held, World
<1>5. Good(svc, acked)'
  BY <1>1, <1>3
<1>6. Unlinked'
  BY <1>1, <1>3 DEF Unlinked
<1> QED BY <1>4, <1>5, <1>6 DEF Held

LEMMA StepStop == Held /\ Stop => Held'
<1> SUFFICES ASSUME Held, Stop PROVE Held'
  OBVIOUS
<1>0. acked \in Acks /\ Good(svc, acked) /\ Base(svc, acked) /\ svc \in Service
  BY HeldFacts
<1>1. PICK f : f = dhcp_release(svc).file
  OBVIOUS
<1>2. svc' = Stopped(f, svc.known) /\ UNCHANGED <<world, acked>>
  BY <1>1 DEF Stop
<1>3. f \in {NoFile} \cup Entry /\ (f # NoFile => EntryOK(f, acked))
  <2>1. CASE ~svc.lease.valid
    <3>1. f = svc.file
      BY <1>1, <2>1 DEF dhcp_release
    <3> QED BY <1>0, <3>1 DEF Base, Stored
  <2>2. CASE svc.lease.valid
    <3>1. PICK no \in BOOLEAN : no = FALSE
      OBVIOUS
    <3>2. PICK c : c = dhcp_lease_clear(svc, no)
      OBVIOUS
    <3>3. PICK l, g : Stored(l, g, acked) /\ c = Relist(svc, l, g)
      BY <1>0, <3>2, ClearStep
    <3>4. Base(c, acked) /\ c.file = g
      BY <1>0, <3>3, Relisted
    <3>5. Whole(c)
      BY <3>4, Members DEF Base
    <3>6. PICK r : r = dhcp_cancel_pending_events(service_router_clear(dhcp_invalidate_lease(c)))
      OBVIOUS
    <3>7. Whole(r) /\ r.file = c.file
      BY <3>5, <3>6 DEF Whole, dhcp_cancel_pending_events, service_router_clear, dhcp_invalidate_lease
    <3>8. dhcp_release(svc) = IF Link(svc) THEN [r EXCEPT !.saved.ip = NoAddr] ELSE r
      BY <2>2, <3>1, <3>2, <3>6 DEF dhcp_release
    <3>9. f = r.file
      BY <1>1, <3>7, <3>8 DEF Whole
    <3> QED BY <3>3, <3>4, <3>7, <3>9 DEF Stored
  <2> QED BY <2>1, <2>2
<1>4. PICK k : k = svc.known
  OBVIOUS
<1>5. k \in NetOrNone /\ svc' = Stopped(f, k)
  BY <1>0, <1>2, <1>4 DEF Service
<1>a. f \in {NoFile} \cup Entry
  BY <1>3
<1>b. f # NoFile => EntryOK(f, acked)
  BY <1>3
<1>c. PICK t : t = svc'
  OBVIOUS
<1>d. t = Stopped(f, k)
  BY <1>5, <1>c
<1>e. /\ Good(t, acked) /\ t.known = k /\ t.state = "stopped" /\ t.active = NoAddr /\ ~t.busy
  BY <1>5, <1>a, <1>b, <1>d, StoppedStep
<1>6. /\ Good(svc', acked) /\ svc'.known = k /\ svc'.state = "stopped"
      /\ svc'.active = NoAddr /\ ~svc'.busy
  BY <1>c, <1>e
<1>7. World'
  BY <1>2 DEF Held, World, world
<1>8. Good(svc, acked)'
  BY <1>2, <1>6
<1>9. Unlinked'
  BY <1>2, <1>4, <1>6 DEF Held, Unlinked, world
<1> QED BY <1>7, <1>8, <1>9 DEF Held

LEMMA StepReboot == Held /\ Reboot => Held'
<1> SUFFICES ASSUME Held, Reboot PROVE Held'
  OBVIOUS
<1>0. acked \in Acks /\ net \in NetOrNone /\ Stored(svc.list, svc.file, acked)
  BY HeldFacts
<1>1. /\ svc' = Stopped(svc.file, net) /\ asleep' = FALSE /\ linkTimer' = FALSE
      /\ UNCHANGED <<net, now, acked>>
  BY DEF Reboot
<1>2. PICK f : f = svc.file
  OBVIOUS
<1>3. /\ Good(svc', acked) /\ svc'.state = "stopped" /\ svc'.active = NoAddr /\ ~svc'.busy
  <2>1. f \in {NoFile} \cup Entry /\ (f # NoFile => EntryOK(f, acked)) /\ svc' = Stopped(f, net)
    BY <1>0, <1>1, <1>2 DEF Stored
  <2> QED BY <1>0, <2>1, StoppedStep
<1>4. World'
  BY <1>1 DEF Held, World
<1>5. Good(svc, acked)'
  BY <1>1, <1>3
<1>6. Unlinked'
  BY <1>1, <1>3 DEF Unlinked
<1> QED BY <1>4, <1>5, <1>6 DEF Held

LEMMA StepMove == ASSUME NEW n \in Net \cup {NoNet}, Held, Move(n) PROVE Held'
<1>1. net' = n /\ UNCHANGED <<svc, linkTimer, asleep, now, acked>>
  BY DEF Move
<1>2. World'
  BY <1>1 DEF Held, World, NetOrNone
<1>3. Good(svc, acked)'
  BY <1>1 DEF Held
<1>4. Unlinked'
  BY <1>1 DEF Held, Unlinked
<1> QED BY <1>2, <1>3, <1>4 DEF Held

\* A second passes: what is armed comes closer.
Later(d) == [d EXCEPT !.timer.left = IF d.timer.fn = "none" THEN 0 ELSE @ - 1,
                      !.arp.left = IF d.arp.op = "none" THEN 0 ELSE @ - 1]
LEMMA LaterStep ==
    ASSUME NEW A, NEW d, Good(d, A), d.timer.fn # "none" => d.timer.left > 0,
           d.arp.op # "none" => d.arp.left > 0, d.known = NoNet => d.state # "decline",
           NEW t, t = Later(d)
    PROVE  Good(t, A) /\ t.known = d.known /\ t.state = d.state /\ t.active = d.active /\ t.busy = d.busy
<1>0. Base(d, A) /\ Whole(d) /\ Typed(d) /\ Phase(d, A) /\ Belongs(d)
  BY Members DEF Good, Base, Phase
<1>1. PICK x : x = [d.timer EXCEPT !.left = IF d.timer.fn = "none" THEN 0 ELSE @ - 1]
  OBVIOUS
<1>2. x \in Timer /\ x.fn = d.timer.fn /\ (x.fn = "none" => x = NoTimer)
  <2>1. d.timer \in Timer /\ d.timer.left \in Nat
    BY <1>0 DEF Typed, Timer
  <2>2. CASE d.timer.fn = "none"
    <3>1. d.timer = NoTimer
      BY <1>0, <2>2 DEF Belongs
    <3>2. x = NoTimer
      BY <1>1, <2>2, <3>1 DEF NoTimer
    <3> QED BY <2>2, <3>1, <3>2, Kinds
  <2>3. CASE d.timer.fn # "none"
    <3>1. d.timer.left - 1 \in Nat
      BY <2>1, <2>3
    <3> QED BY <1>1, <2>1, <2>3, <3>1 DEF Timer
  <2> QED BY <2>2, <2>3
<1>3. PICK y : y = [d.arp EXCEPT !.left = IF d.arp.op = "none" THEN 0 ELSE @ - 1]
  OBVIOUS
<1>4. y \in ArpRequest /\ y.op = d.arp.op /\ (y.op = "none" => y = NoArp)
  <2>1. d.arp \in ArpRequest /\ d.arp.left \in Nat
    BY <1>0 DEF Typed, ArpRequest
  <2>2. CASE d.arp.op = "none"
    <3>1. d.arp = NoArp
      BY <1>0, <2>2 DEF Belongs
    <3>2. y = NoArp
      BY <1>3, <2>2, <3>1 DEF NoArp
    <3> QED BY <2>2, <3>1, <3>2, Kinds
  <2>3. CASE d.arp.op # "none"
    <3>1. d.arp.left - 1 \in Nat
      BY <2>1, <2>3
    <3> QED BY <1>3, <2>1, <2>3, <3>1 DEF ArpRequest
  <2> QED BY <2>2, <2>3
<1>5. t = [d EXCEPT !.timer = x, !.arp = y]
  BY <1>0, <1>1, <1>3 DEF Later, Whole
<1>6. /\ Whole(t) /\ Alike(d, t) /\ t.timer = x /\ t.arp = y /\ t.known = d.known
      /\ t.state = d.state /\ t.recv = d.recv /\ t.gathering = d.gathering /\ t.rto = d.rto
      /\ t.collisions = d.collisions /\ t.busy = d.busy
  BY <1>0, <1>5 DEF Whole, Alike
<1>7. Typed(t)
  BY <1>0, <1>2, <1>4, <1>5 DEF Whole, Typed
<1>8. Base(t, A)
  BY <1>0, <1>6, <1>7, Members, SameBase
<1>9. Phase(t, A)
  BY <1>0, <1>2, <1>4, <1>6 DEF Phase, Belongs, IsBound, Alike, Acked
<1>10. Driven(t) /\ Linked(t)
  BY <1>2, <1>4, <1>6 DEF Good, Driven, Linked, Alike
<1> QED BY <1>6, <1>8, <1>9, <1>10 DEF Good, Alike

LEMMA StepTick == Held /\ Tick => Held'
<1> SUFFICES ASSUME Held, Tick PROVE Held'
  OBVIOUS
<1>0. acked \in Acks /\ now \in Nat /\ Good(svc, acked)
  BY HeldFacts
<1>1. /\ now < MaxTime /\ now' = now + 1 /\ UNCHANGED <<net, linkTimer, asleep, acked>>
  BY DEF Tick
<1>2. /\ Good(svc', acked) /\ svc'.known = svc.known /\ svc'.state = svc.state
      /\ svc'.active = svc.active /\ svc'.busy = svc.busy
  <2>1. CASE UNCHANGED svc
    BY <1>0, <2>1
  <2>2. CASE ~UNCHANGED svc
    <3>1. /\ ~linkTimer /\ svc' = Later(svc)
          /\ svc.timer.fn # "none" => svc.timer.left > 0
          /\ svc.arp.op # "none" => svc.arp.left > 0
      BY <2>2 DEF Tick, Later
    <3>2. svc.known = NoNet => svc.state # "decline"
      BY <3>1 DEF Held, Unlinked
    <3> QED BY <1>0, <3>1, <3>2, LaterStep
  <2> QED BY <2>1, <2>2
<1>3. World'
  BY <1>0, <1>1, ClientAssumption DEF Held, World
<1>4. Good(svc, acked)'
  BY <1>1, <1>2
<1>5. Unlinked'
  BY <1>1, <1>2 DEF Held, Unlinked
<1> QED BY <1>3, <1>4, <1>5 DEF Held

-----------------------------------------------------------------------------
(* The theorems                                                            *)

LEMMA InitHeld == Init => ClientInv
<1> SUFFICES ASSUME Init PROVE ClientInv
  OBVIOUS
<1>1. /\ net \in Net /\ svc = Stopped(NoFile, net) /\ linkTimer = FALSE /\ asleep = FALSE
      /\ now = 0 /\ acked = {} /\ events = 0
  BY DEF Init
<1>2. PICK f, A : f = NoFile /\ A = acked
  OBVIOUS
<1>3. /\ f \in {NoFile} \cup Entry /\ (f # NoFile => EntryOK(f, A)) /\ net \in NetOrNone
      /\ svc = Stopped(f, net)
  BY <1>1, <1>2 DEF NetOrNone
<1>4. Good(svc, A) /\ svc.known = net /\ svc.active = NoAddr /\ svc.state = "stopped" /\ ~svc.busy
  BY <1>3, StoppedStep
<1>5. World /\ events \in 0..MaxEvents
  <2>1. MaxTime \in Nat /\ MaxEvents \in Nat
    BY ClientAssumption
  <2>2. now \in 0..MaxTime /\ events \in 0..MaxEvents
    BY <1>1, <2>1
  <2>3. linkTimer \in BOOLEAN /\ asleep \in BOOLEAN /\ acked \subseteq Net \X Addr
    BY <1>1
  <2> QED BY <1>3, <2>2, <2>3 DEF World
<1>6. Unlinked
  BY <1>1, <1>4 DEF Unlinked
<1> QED BY <1>2, <1>4, <1>5, <1>6 DEF ClientInv, Held

LEMMA StepQuiet == Held /\ Quiet => Held'
<1> SUFFICES ASSUME Held, Quiet PROVE Held'
  OBVIOUS
<1>1. CASE TimerCheckLink
  BY <1>1, StepTimerCheckLink
<1>2. CASE TimerInitStart
  BY <1>2, StepTimerInitStart
<1>3. CASE TimerInit
  BY <1>3, StepTimerInit
<1>4. CASE TimerInitReboot
  BY <1>4, StepTimerInitReboot
<1>5. CASE TimerSelect
  BY <1>5, StepTimerSelect
<1>6. CASE TimerRenewStart
  BY <1>6, StepTimerRenewStart
<1>7. CASE TimerRenew
  BY <1>7, StepTimerRenew
<1>8. CASE TimerRouterRetry
  BY <1>8, StepTimerRouterRetry
<1>9. CASE \E p \in Replies : Receive(p)
  BY <1>9, StepReceive
<1>10. ASSUME NEW r \in {"in_use", "not_in_use", "error"},
              ArpBound(r) \/ ArpResolve(r) \/ ArpRouter(r) \/ ArpCheck(r)
       PROVE  Held'
  BY <1>10, StepArpBound, StepArpResolve, StepArpRouter, StepArpCheck
<1>11. CASE LinkChanged
  BY <1>11, StepLinkChanged
<1>12. CASE LinkTimerExpired
  BY <1>12, StepLinkTimerExpired
<1>13. CASE Start
  BY <1>13, StepStart
<1>14. CASE Tick
  BY <1>14, StepTick
<1>15. CASE \E same, roamed \in BOOLEAN : Wake(same, roamed)
  BY <1>15, StepWake
<1> QED BY <1>1, <1>2, <1>3, <1>4, <1>5, <1>6, <1>7, <1>8, <1>9, <1>10, <1>11, <1>12, <1>13,
           <1>14, <1>15 DEF Quiet

LEMMA StepDisturbance == Held /\ Disturbance => Held'
<1> SUFFICES ASSUME Held, Disturbance PROVE Held'
  OBVIOUS
<1>1. CASE ArpBound("error") \/ ArpResolve("error") \/ ArpRouter("error") \/ ArpCheck("error")
  <2>1. PICK r \in {"in_use", "not_in_use", "error"} : r = "error"
    OBVIOUS
  <2>2. ArpBound(r) \/ ArpResolve(r) \/ ArpRouter(r) \/ ArpCheck(r)
    BY <1>1, <2>1
  <2> QED BY <2>2, StepArpBound, StepArpResolve, StepArpRouter, StepArpCheck
<1>2. CASE ArpCollision
  BY <1>2, StepArpCollision
<1>3. CASE Renew
  BY <1>3, StepRenew
<1>4. CASE Sleep
  BY <1>4, StepSleep
<1>5. CASE BssidChanged
  BY <1>5, StepBssidChanged
<1>6. CASE Stop
  BY <1>6, StepStop
<1>7. CASE Reboot
  BY <1>7, StepReboot
<1>8. CASE \E n \in Net : ForgetSSID(n)
  BY <1>8, StepForgetSSID
<1>9. CASE \E n \in Net \cup {NoNet} : Move(n)
  BY <1>9, StepMove
<1> QED BY <1>1, <1>2, <1>3, <1>4, <1>5, <1>6, <1>7, <1>8, <1>9 DEF Disturbance

LEMMA NextHeld == ClientInv /\ [Next]_vars => ClientInv'
<1> SUFFICES ASSUME ClientInv, [Next]_vars PROVE ClientInv'
  OBVIOUS
<1>1. CASE Quiet /\ UNCHANGED events
  BY <1>1, StepQuiet DEF ClientInv
<1>2. CASE events < MaxEvents /\ Disturbance /\ events' = events + 1
  <2>1. events' \in 0..MaxEvents
    BY <1>2, ClientAssumption DEF ClientInv
  <2> QED BY <1>2, <2>1, StepDisturbance DEF ClientInv
<1>3. CASE UNCHANGED vars
  <2>1. Held'
    BY <1>3 DEF ClientInv, Held, World, Unlinked, vars
  <2> QED BY <1>3, <2>1 DEF ClientInv, vars
<1> QED BY <1>1, <1>2, <1>3 DEF Next

\* Whatever happens to the client, what it holds, what is pending and what
\* its file keeps stay in step.
THEOREM ClientInvariance == Spec => []ClientInv
  BY InitHeld, NextHeld, PTL DEF Spec

\* Every field keeps its type, whatever the packets and the events: what
\* _dhcp_lease_save writes at sleep is a lease with an address and a server.
THEOREM ClientTypes == Spec => []TypeOK
<1>1. ClientInv => TypeOK
  BY DEF ClientInv, Held, World, Good, Base, TypeOK
<1> QED BY <1>1, ClientInvariance, PTL

\* An address is used only after an acknowledgement by the network that the
\* saved packet came from, through dhcp_arp_router, sleep and recover_lease.
THEOREM OnlyAcknowledged == Spec => []AddressAcknowledged
<1>1. ClientInv => AddressAcknowledged
  BY DEF ClientInv, Held, Good, Base, Keeps, Acked, AddressAcknowledged
<1> QED BY <1>1, ClientInvariance, PTL

\* DHCPLeaseListUpdateLease keeps at most one lease for a router, and one
\* without.
THEOREM OneLease == Spec => []OneLeasePerRouter
<1>1. ClientInv => OneLeasePerRouter
  BY LenProperties DEF ClientInv, Held, Good, Base, Stored, ListOK, OneLeasePerRouter
<1> QED BY <1>1, ClientInvariance, PTL

\* On Wi-Fi, an address that is in use and defended has a lease of the SSID
\* the client was last told of.
THEOREM BoundHere == Spec => []BoundToThisNetwork
<1>1. ClientInv => BoundToThisNetwork
  BY DEF ClientInv, Held, Good, Phase, BoundToThisNetwork
<1> QED BY <1>1, ClientInvariance, PTL

\* On a wire, what is published is backed by a lease and the address of it.
THEOREM WiredPublishedIsBacked == ASSUME ~Wireless PROVE Spec => []PublishedIsBacked
<1>1. ClientInv => PublishedIsBacked
  BY DEF ClientInv, Held, World, Good, Base, Keeps, TypeOK, PublishedIsBacked
<1> QED BY <1>1, ClientInvariance, PTL

\* On a wire, a client on a link never waits for nothing.
THEOREM WiredNeverStalls == ASSUME ~Wireless PROVE Spec => []NeverStalls
<1>1. ClientInv => NeverStalls
  <2> SUFFICES ASSUME ClientInv PROVE NeverStalls
    OBVIOUS
  <2>1. Driven(svc) /\ Phase(svc, acked) /\ Unlinked /\ svc \in Service
    BY DEF ClientInv, Held, Good, Base
  <2>2. svc.state \in States
    BY <2>1 DEF Service, States
  <2>3. BusyHasWork
    BY <2>1, <2>2, Kinds DEF BusyHasWork, Driven, Unlinked, States, Running
  <2>4. Settled /\ svc.state # "inactive" /\ ~svc.rto =>
            svc.timer.fn # "none" \/ (svc.state = "bound" /\ ~Finite)
    BY <2>1, <2>2, Kinds DEF Settled, Running, Driven, States, Finite
  <2> QED BY <2>3, <2>4 DEF NeverStalls
<1> QED BY <1>1, ClientInvariance, PTL
=============================================================================
