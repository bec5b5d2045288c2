-------------------------- MODULE ARPSession_proofs --------------------------
(***************************************************************************)
(* Proofs about ARPSession, for every number of clients, every set of      *)
(* addresses and packets, and every number of tries and retries.           *)
(***************************************************************************)
EXTENDS ARPSession, FiniteSetTheorems, TLAPS

\* The clients that hold the descriptor
Holders == {c \in Client : client[c].fd_open}
Holds(k) == IF k.fd_open THEN 1 ELSE 0

\* A session in which n other clients hold the descriptor
Good(s, n) ==
    /\ s \in [k : ClientRecord, refcount : Nat, fd : {"open", "closed"}]
    /\ s.refcount = n + Holds(s.k)
    /\ s.fd = IF s.refcount > 0 THEN "open" ELSE "closed"

\* A client record whose timer and callback belong to a request
Sound(k) ==
    /\ k.func <=> k.timer # "none" \/ k.callback # "none"
    /\ k.timer # "none" => k.fd_open
    /\ k.ready => k.timer # "none"
    /\ k.fd_open => k.func
    /\ k.func /\ ~k.fd_open => k.callback = "next"

\* A request under way is one of a client that exists, and its status is
\* "in_use" only if a packet was heard
Heard ==
    \A c \in Client : client[c].func =>
        c \in live /\ (client[c].status = "in_use" => heard[c])

IndInv ==
    /\ TypeOK
    /\ refcount = Cardinality(Holders)
    /\ fd = IF refcount > 0 THEN "open" ELSE "closed"
    /\ \A c \in Client : Sound(client[c])
    /\ Heard

-----------------------------------------------------------------------------
(* The operators                                                           *)

\* timer_callout_set, timer_cancel and the scheduling of a callback return
\* client records.
LEMMA ClientOps ==
    ASSUME NEW k \in ClientRecord, NEW f \in Timers, NEW st \in Status
    PROVE  /\ timer_callout_set(k, f) \in ClientRecord
           /\ timer_cancel(k) \in ClientRecord
           /\ arp_client_schedule_callback(k, st) \in ClientRecord
           /\ BeforeNextRead(k) \in ClientRecord
<1>1. timer_callout_set(k, f) \in ClientRecord
  BY DEF timer_callout_set, ClientRecord
<1>2. timer_cancel(k) \in ClientRecord
  <2>1. "none" \in Timers
    BY DEF Timers
  <2> QED BY <2>1 DEF timer_cancel, ClientRecord
<1>3. arp_client_schedule_callback(k, st) \in ClientRecord
  BY DEF arp_client_schedule_callback, ClientRecord
<1>4. BeforeNextRead(k) \in ClientRecord
  BY DEF BeforeNextRead, ClientRecord
<1> QED BY <1>1, <1>2, <1>3, <1>4

\* The same request, whoever holds the descriptor
SameRequest(j, k) ==
    /\ j \in ClientRecord
    /\ j.func = k.func /\ j.status = k.status /\ j.timer = k.timer
    /\ j.ready = k.ready /\ j.callback = k.callback

\* Changing fd_open changes nothing else.
LEMMA SetFdOpen ==
    ASSUME NEW k \in ClientRecord, NEW b \in BOOLEAN
    PROVE  SameRequest([k EXCEPT !.fd_open = b], k)
           /\ [k EXCEPT !.fd_open = b].fd_open = b
BY DEF ClientRecord, SameRequest

\* Closing the descriptor keeps the count of the others, and the client no
\* longer holds it.
LEMMA CloseFd ==
    ASSUME NEW n \in Nat, NEW s, Good(s, n)
    PROVE  LET r == arp_client_close_fd(s)
           IN  Good(r, n) /\ r.k.fd_open = FALSE /\ SameRequest(r.k, s.k)
<1>0. s.k \in ClientRecord /\ s.k.fd_open \in BOOLEAN /\ s.fd \in {"open", "closed"}
      /\ s.refcount \in Nat /\ SameRequest(s.k, s.k)
  BY DEF Good, ClientRecord, SameRequest
<1>1. CASE s.k.fd_open = FALSE
  BY <1>0, <1>1 DEF arp_client_close_fd
<1>2. CASE s.k.fd_open = TRUE
  <2> DEFINE j == [s.k EXCEPT !.fd_open = FALSE]
  <2>1. s.refcount = n + 1
    BY <1>2 DEF Good, Holds
  <2>2. arp_client_close_fd(s) = [k |-> j, refcount |-> n, fd |-> IF n = 0 THEN "closed" ELSE s.fd]
    <3>1. s.k.fd_open /\ ~(s.refcount <= 0) /\ s.refcount - 1 = n
          /\ (s.refcount = 1 <=> n = 0)
      BY <1>2, <2>1
    <3> QED BY <3>1, Zenon DEF arp_client_close_fd
  <2>3. SameRequest(j, s.k) /\ j.fd_open = FALSE
    BY <1>0, SetFdOpen
  <2>4. s.fd = "open"
    BY <1>0, <2>1 DEF Good
  <2> HIDE DEF j
  <2> QED BY <2>2, <2>3, <2>4 DEF Good, Holds, SameRequest
<1> QED BY <1>0, <1>1, <1>2

\* Opening the descriptor makes the client one of its holders, or leaves the
\* count as it was.
LEMMA OpenFd ==
    ASSUME NEW n \in Nat, NEW s, Good(s, n), s.k.fd_open = FALSE,
           NEW opened \in BOOLEAN
    PROVE  LET r == arp_client_open_fd(s, opened)
           IN  Good(r, n) /\ SameRequest(r.k, s.k)
<1> DEFINE j == [s.k EXCEPT !.fd_open = TRUE]
           o == [k |-> j, refcount |-> n + 1, fd |-> s.fd]
<1>1. s.k \in ClientRecord /\ s.refcount = n
      /\ s.fd = IF n > 0 THEN "open" ELSE "closed"
  BY DEF Good, Holds
<1>2. SameRequest(j, s.k) /\ j.fd_open = TRUE /\ j \in ClientRecord
  BY <1>1, SetFdOpen DEF SameRequest
<1>3. arp_client_open_fd(s, opened) =
        IF n > 0 THEN o ELSE IF opened THEN [o EXCEPT !.fd = "open"]
        ELSE arp_client_close_fd(o)
  <2>1. ~s.k.fd_open /\ (n + 1 > 1 <=> n > 0) /\ (n + 1 <= 1 <=> ~(n > 0))
    OBVIOUS
  <2> QED BY <1>1, <2>1, Zenon DEF arp_client_open_fd
<1> HIDE DEF j
<1>4. CASE n > 0
  BY <1>1, <1>2, <1>3, <1>4 DEF Good, Holds
<1>5. CASE n = 0 /\ opened
  BY <1>1, <1>2, <1>3, <1>5 DEF Good, Holds
<1>6. CASE n = 0 /\ ~opened
  <2> DEFINE i == [j EXCEPT !.fd_open = FALSE]
  <2>1. arp_client_close_fd(o) = [k |-> i, refcount |-> 0, fd |-> "closed"]
    BY <1>1, <1>2, <1>6 DEF arp_client_close_fd
  <2>2. SameRequest(i, j) /\ i.fd_open = FALSE
    BY <1>2, SetFdOpen
  <2> HIDE DEF i
  <2> QED BY <1>2, <1>3, <1>6, <2>1, <2>2 DEF Good, Holds, SameRequest
<1> QED BY <1>4, <1>5, <1>6

\* A client without a request, and without the descriptor
Quiet(k) == /\ k \in ClientRecord /\ k.func = FALSE /\ k.fd_open = FALSE
            /\ k.timer = "none" /\ k.ready = FALSE /\ k.callback = "none"

\* After arp_client_cancel nothing of the request is left.
LEMMA CancelFacts ==
    ASSUME NEW n \in Nat, NEW s, Good(s, n)
    PROVE  LET r == arp_client_cancel(s) IN Good(r, n) /\ Quiet(r.k)
<1> DEFINE q == arp_client_close_fd(s)
           j == [timer_cancel(q.k) EXCEPT !.func = FALSE, !.status = "none",
                                          !.callback = "none"]
<1>1. Good(q, n) /\ q.k.fd_open = FALSE /\ q.k \in ClientRecord
  BY CloseFd DEF SameRequest
<1>2. Quiet(j)
  BY <1>1 DEF Quiet, timer_cancel, ClientRecord, Timers, Status
<1>3. arp_client_cancel(s) = [q EXCEPT !.k = j]
  BY DEF arp_client_cancel
<1> HIDE DEF q, j
<1> QED BY <1>1, <1>2, <1>3 DEF Good, Holds, Quiet

\* Neither is there when the answer is given.
LEMMA CallbackFacts ==
    ASSUME NEW n \in Nat, NEW s, Good(s, n)
    PROVE  LET r == arp_client_callback(s) IN Good(r, n) /\ Quiet(r.k)
<1> DEFINE q == arp_client_close_fd(s)
           j == [timer_cancel(q.k) EXCEPT !.func = FALSE, !.callback = "none"]
<1>1. Good(q, n) /\ q.k.fd_open = FALSE /\ q.k \in ClientRecord
  BY CloseFd DEF SameRequest
<1>2. Quiet(j)
  BY <1>1 DEF Quiet, timer_cancel, ClientRecord, Timers
<1>3. arp_client_callback(s) = [q EXCEPT !.k = j]
  BY DEF arp_client_callback
<1> HIDE DEF q, j
<1> QED BY <1>1, <1>2, <1>3 DEF Good, Holds, Quiet

\* A client whose request is about to make an attempt
Trying(k) == /\ k \in ClientRecord /\ k.func = TRUE /\ k.fd_open = TRUE
             /\ k.timer = "none" /\ k.ready = FALSE

\* After the attempt there is a timer or a callback.
Tried(r, k) == /\ r \in ClientRecord /\ Sound(r)
               /\ r.func = TRUE /\ r.fd_open = TRUE
               /\ r.status = "in_use" => k.status = "in_use"

\* One attempt leaves a client with a timer or a queued callback, and never
\* makes it in use.
LEMMA RetransmitFacts ==
    ASSUME NEW k, Trying(k), NEW tries \in Int,
           NEW f \in Timers \ {"none"}, NEW sent \in BOOLEAN
    PROVE  Tried(Retransmit(k, tries, f, sent), k)
<1> DEFINE t == [k EXCEPT !.try = @ + 1]
<1>1. Trying(t) /\ t.status = k.status
  BY DEF Trying, ClientRecord
<1>2. ASSUME NEW x, Trying(x), x.status = k.status, NEW st \in Status \ {"in_use"}
      PROVE  Tried(arp_client_schedule_callback(x, st), k)
  BY <1>2 DEF Trying, Tried, Sound, arp_client_schedule_callback, ClientRecord
<1>3. Tried(timer_callout_set(t, f), k)
  <2> HIDE DEF t
  <2> QED BY <1>1 DEF Trying, Tried, Sound, timer_callout_set, ClientRecord
<1>4. "not_in_use" \in Status \ {"in_use"} /\ "error" \in Status \ {"in_use"}
  BY DEF Status
<1>5. Tried(arp_client_schedule_callback(k, "not_in_use"), k)
  BY <1>2, <1>4
<1>6. Tried(arp_client_schedule_callback(t, "error"), k)
  <2> HIDE DEF t
  <2> QED BY <1>1, <1>2, <1>4
<1> QED BY <1>3, <1>5, <1>6 DEF Retransmit

\* So does an attempt of a probe, skipped or not, and its start.
LEMMA ProbeFacts ==
    ASSUME NEW k, Trying(k), NEW sent \in BOOLEAN
    PROVE  /\ Tried(arp_client_probe_retransmit(k, sent), k)
           /\ Tried(arp_client_resolve_retransmit(k, sent), k)
           /\ Tried(arp_client_detect_retransmit(k, sent), k)
           /\ Tried(arp_client_probe_start(k, sent), k)
<1>0. /\ {"probe", "resolve", "detect"} \subseteq Timers \ {"none"}
      /\ ProbeCount + GratuitousCount \in Int
      /\ ResolveSecs \in Int /\ DetectCount \in Int
  BY SessionAssumption DEF Timers
<1>1. ASSUME NEW j, Trying(j)
      PROVE  Tried(arp_client_probe_retransmit(j, sent), j)
  <2> DEFINE r == Retransmit(j, ProbeCount + GratuitousCount, "probe", sent \/ j.skip)
  <2>1. (sent \/ j.skip) \in BOOLEAN
    BY <1>1 DEF Trying, ClientRecord
  <2>2. Tried(r, j)
    BY <1>0, <1>1, <2>1, RetransmitFacts
  <2>3. Tried([r EXCEPT !.skip = FALSE], j)
    <3> HIDE DEF r
    <3> QED BY <2>2 DEF Tried, Sound, ClientRecord
  <2> QED BY <2>2, <2>3 DEF arp_client_probe_retransmit
<1>2. Tried(arp_client_resolve_retransmit(k, sent), k)
  BY <1>0, RetransmitFacts DEF arp_client_resolve_retransmit
<1>3. Tried(arp_client_detect_retransmit(k, sent), k)
  BY <1>0, RetransmitFacts DEF arp_client_detect_retransmit
<1>4. Tried(arp_client_probe_start(k, sent), k)
  <2> DEFINE j == [k EXCEPT !.try = 0, !.status = "unknown"]
  <2>1. Trying(j) /\ j.status = "unknown"
    BY DEF Trying, ClientRecord, Status
  <2>2. Tried(arp_client_probe_retransmit(j, sent), j)
    BY <1>1, <2>1
  <2>3. arp_client_probe_start(k, sent) = arp_client_probe_retransmit(j, sent)
    BY DEF arp_client_probe_start
  <2> HIDE DEF j
  <2> QED BY <2>1, <2>2, <2>3 DEF Tried
<1> QED BY <1>1, <1>2, <1>3, <1>4

-----------------------------------------------------------------------------
(* The count of the descriptor                                             *)

\* The session of a client as the actions take it.
LEMMA SessionFacts ==
    ASSUME IndInv, NEW c \in Client
    PROVE  /\ refcount - Holds(client[c]) \in Nat
           /\ Good(Session(c), refcount - Holds(client[c]))
<1>1. client[c] \in ClientRecord /\ refcount \in Nat /\ fd \in {"open", "closed"}
      /\ client[c].fd_open \in BOOLEAN
  BY DEF IndInv, TypeOK, ClientRecord
<1>2. client[c].fd_open => refcount > 0
  <2> SUFFICES ASSUME client[c].fd_open PROVE refcount > 0
    OBVIOUS
  <2>1. IsFiniteSet(Client)
    BY SessionAssumption, FS_Interval DEF Client
  <2>2. IsFiniteSet(Holders) /\ Holders # {}
    BY <2>1, FS_Subset DEF Holders
  <2>3. Cardinality(Holders) # 0 /\ Cardinality(Holders) \in Nat
    BY <2>2, FS_EmptySet, FS_CardinalityType
  <2> QED BY <2>3 DEF IndInv
<1>3. Holds(client[c]) = (IF client[c].fd_open THEN 1 ELSE 0)
  BY DEF Holds
<1> QED BY <1>1, <1>2, <1>3 DEF Good, Session, IndInv

\* A step that replaces the record of one client by a sound one, and moves
\* the count with it, keeps the count right.
LEMMA BecomesFacts ==
    ASSUME IndInv, NEW c \in Client, NEW s,
           Good(s, refcount - Holds(client[c])), Sound(s.k), Becomes(c, s)
    PROVE  /\ client' \in [Client -> ClientRecord]
           /\ refcount' \in Nat /\ fd' \in {"open", "closed"}
           /\ refcount' = Cardinality(Holders')
           /\ fd' = IF refcount' > 0 THEN "open" ELSE "closed"
           /\ \A d \in Client : Sound(client'[d])
<1>1. client \in [Client -> ClientRecord] /\ s.k \in ClientRecord
      /\ client[c].fd_open \in BOOLEAN /\ s.k.fd_open \in BOOLEAN
      /\ refcount = Cardinality(Holders) /\ refcount \in Nat
  BY DEF IndInv, TypeOK, Good, ClientRecord
<1>2. client' = [client EXCEPT ![c] = s.k] /\ refcount' = s.refcount /\ fd' = s.fd
  BY DEF Becomes
<1>3. IsFiniteSet(Holders)
  <2>1. IsFiniteSet(Client)
    BY SessionAssumption, FS_Interval DEF Client
  <2> QED BY <2>1, FS_Subset DEF Holders
<1>4. client'[c] = s.k /\ \A d \in Client \ {c} : client'[d] = client[d]
  BY <1>1, <1>2
<1>5. Holders' = IF s.k.fd_open THEN Holders \cup {c} ELSE Holders \ {c}
  BY <1>1, <1>4 DEF Holders
<1>6. refcount' = Cardinality(Holders')
  <2>1. s.refcount = refcount - Holds(client[c]) + Holds(s.k)
    BY DEF Good
  <2>2. c \in Holders <=> client[c].fd_open
    BY DEF Holders
  <2>3. CASE s.k.fd_open
    <3>1. Cardinality(Holders \cup {c}) =
            IF c \in Holders THEN Cardinality(Holders) ELSE Cardinality(Holders) + 1
      BY <1>3, FS_AddElement
    <3> QED BY <1>1, <1>2, <1>5, <2>1, <2>2, <2>3, <3>1 DEF Holds
  <2>4. CASE ~s.k.fd_open
    <3>1. Cardinality(Holders \ {c}) =
            IF c \in Holders THEN Cardinality(Holders) - 1 ELSE Cardinality(Holders)
      BY <1>3, FS_RemoveElement
    <3> QED BY <1>1, <1>2, <1>5, <2>1, <2>2, <2>4, <3>1 DEF Holds
  <2> QED BY <2>3, <2>4
<1>7. \A d \in Client : Sound(client'[d])
  BY <1>4 DEF IndInv
<1> QED BY <1>1, <1>2, <1>4, <1>6, <1>7 DEF Good

-----------------------------------------------------------------------------
(* Requests                                                                *)

\* A client whose new request has not opened the descriptor yet
Asking(k) == /\ k \in ClientRecord /\ k.func = TRUE /\ k.fd_open = FALSE
             /\ k.timer = "none" /\ k.ready = FALSE /\ k.callback = "none"

\* The first attempt of a request, with or without the descriptor, leaves a
\* sound client and the right count.
LEMMA RequestFacts ==
    ASSUME IndInv, NEW c \in Client, NEW b, Asking(b), NEW opened \in BOOLEAN,
           NEW x, NEW j,
           Trying([Opening(c, b, opened).k EXCEPT !.status = "unknown"])
             => j.status = "unknown" /\ Tried(x, j)
    PROVE  LET o == Opening(c, b, opened)
               k == Outcome(o, x)
           IN  /\ Good([o EXCEPT !.k = k], refcount - Holds(client[c]))
               /\ Sound(k) /\ k.func = TRUE /\ k.status # "in_use"
<1> DEFINE n == refcount - Holds(client[c])
           q == [arp_client_cancel(Session(c)) EXCEPT !.k = b]
           o == Opening(c, b, opened)
           k == Outcome(o, x)
<1>1. n \in Nat /\ Good(arp_client_cancel(Session(c)), n)
      /\ Quiet(arp_client_cancel(Session(c)).k)
  BY SessionFacts, CancelFacts
<1>2. Good(q, n) /\ q.k = b
  <2> HIDE DEF n
  <2> QED BY <1>1 DEF Good, Holds, Asking, Quiet
<1>3. Good(o, n) /\ SameRequest(o.k, b)
  <2>1. q.k.fd_open = FALSE
    BY <1>2 DEF Asking
  <2> HIDE DEF q, n
  <2>2. LET r == arp_client_open_fd(q, opened) IN Good(r, n) /\ SameRequest(r.k, q.k)
    BY <1>1, <1>2, <2>1, OpenFd
  <2>3. o = arp_client_open_fd(q, opened)
    BY DEF Opening, q
  <2> QED BY <1>2, <2>2, <2>3
<1>4. /\ o.k \in ClientRecord /\ o.k.func = TRUE /\ o.k.timer = "none"
      /\ o.k.ready = FALSE /\ o.k.callback = "none" /\ o.k.fd_open \in BOOLEAN
  <2>1. o.k \in ClientRecord
    BY <1>3 DEF SameRequest
  <2> HIDE DEF o
  <2> QED BY <1>3, <2>1 DEF SameRequest, Asking, ClientRecord
<1>5. k \in ClientRecord /\ Sound(k) /\ k.func = TRUE /\ k.status # "in_use"
      /\ k.fd_open = o.k.fd_open
  <2>1. CASE o.k.fd_open
    <3>0. k = x
      BY <2>1 DEF Outcome
    <3> HIDE DEF o, k
    <3>1. Trying([o.k EXCEPT !.status = "unknown"])
      BY <1>4, <2>1 DEF Trying, ClientRecord, Status
    <3>2. Tried(x, j) /\ j.status = "unknown"
      BY <3>1 DEF o
    <3> QED BY <2>1, <3>0, <3>2, <1>4 DEF Tried
  <2>2. CASE ~o.k.fd_open
    <3>0. k = BeforeNextRead(arp_client_schedule_callback(o.k, "error"))
      BY <2>2 DEF Outcome
    <3> HIDE DEF o, k
    <3> QED BY <1>4, <2>2, <3>0
            DEF BeforeNextRead, arp_client_schedule_callback, Sound, ClientRecord, Status
  <2> QED BY <2>1, <2>2
<1>6. Good([o EXCEPT !.k = k], n)
  <2> HIDE DEF o, k, n
  <2> QED BY <1>3, <1>5 DEF Good, Holds
<1> QED BY <1>5, <1>6

\* A request whose first attempt is a proper one preserves the invariant.
LEMMA RequestPreserves ==
    ASSUME IndInv, NEW c \in Client, NEW b, Asking(b), NEW opened \in BOOLEAN,
           NEW x, NEW j,
           Trying([Opening(c, b, opened).k EXCEPT !.status = "unknown"])
             => j.status = "unknown" /\ Tried(x, j),
           Request(c, b, opened, x)
    PROVE  IndInv' /\ client'[c].func
<1> DEFINE o == Opening(c, b, opened)
           k == Outcome(o, x)
           s == [o EXCEPT !.k = k]
<1>1. Good(s, refcount - Holds(client[c])) /\ Sound(k) /\ k.func = TRUE
      /\ k.status # "in_use"
  BY RequestFacts
<1>2. s.k = k
  <2>1. s \in [k : ClientRecord, refcount : Nat, fd : {"open", "closed"}]
    BY <1>1 DEF Good
  <2>2. o = arp_client_open_fd([arp_client_cancel(Session(c)) EXCEPT !.k = b], opened)
    BY DEF Opening
  <2>3. Good(o, refcount - Holds(client[c]))
    <3>1. refcount - Holds(client[c]) \in Nat
          /\ Good(arp_client_cancel(Session(c)), refcount - Holds(client[c]))
          /\ Quiet(arp_client_cancel(Session(c)).k)
      BY SessionFacts, CancelFacts
    <3> DEFINE q == [arp_client_cancel(Session(c)) EXCEPT !.k = b]
    <3>2. Good(q, refcount - Holds(client[c])) /\ q.k = b
      BY <3>1 DEF Good, Holds, Asking, Quiet
    <3>3. q.k.fd_open = FALSE
      BY <3>2 DEF Asking
    <3> HIDE DEF q
    <3>4. LET r == arp_client_open_fd(q, opened)
          IN  Good(r, refcount - Holds(client[c]))
      BY <3>1, <3>2, <3>3, OpenFd
    <3> QED BY <3>4, <2>2 DEF q
  <2> HIDE DEF o, k
  <2> QED BY <2>3 DEF Good
<1> HIDE DEF k, o
<1>3. Becomes(c, s) /\ c \in live /\ asks < MaxAsks /\ asks' = asks + 1
      /\ heard' = [heard EXCEPT ![c] = FALSE] /\ result' = [result EXCEPT ![c] = "idle"]
      /\ live' = live /\ created' = created
  BY DEF Request, o, k
<1>4. /\ client' \in [Client -> ClientRecord]
      /\ refcount' \in Nat /\ fd' \in {"open", "closed"}
      /\ refcount' = Cardinality(Holders')
      /\ fd' = IF refcount' > 0 THEN "open" ELSE "closed"
      /\ \A d \in Client : Sound(client'[d])
  <2> HIDE DEF s
  <2> QED BY <1>1, <1>2, <1>3, BecomesFacts
<1>5. TypeOK'
  <2>1. live \subseteq Client /\ created \in 0..MaxClients /\ asks \in 0..MaxAsks
        /\ heard \in [Client -> BOOLEAN]
        /\ result \in [Client -> {"idle", "in_use", "not_in_use", "error"}]
    BY DEF IndInv, TypeOK
  <2>2. asks' \in 0..MaxAsks
    BY <1>3, <2>1, SessionAssumption
  <2>3. heard' \in [Client -> BOOLEAN]
        /\ result' \in [Client -> {"idle", "in_use", "not_in_use", "error"}]
    BY <1>3, <2>1
  <2> QED BY <1>3, <1>4, <2>1, <2>2, <2>3 DEF TypeOK
<1>6. Heard'
  <2>1. client'[c] = k /\ \A d \in Client \ {c} : client'[d] = client[d]
    BY <1>2, <1>3 DEF Becomes, IndInv, TypeOK
  <2>2. \A d \in Client \ {c} : heard'[d] = heard[d]
    BY <1>3 DEF IndInv, TypeOK
  <2> QED BY <1>1, <1>3, <2>1, <2>2 DEF Heard, IndInv
<1>7. client'[c].func
  BY <1>1, <1>2, <1>3 DEF Becomes, IndInv, TypeOK
<1> QED BY <1>4, <1>5, <1>6, <1>7 DEF IndInv

\* What a request starts from
LEMMA AskedFacts ==
    ASSUME IndInv, NEW c \in Client
    PROVE  Asking(Asked(c))
<1>1. Quiet(arp_client_cancel(Session(c)).k)
  BY SessionFacts, CancelFacts
<1> QED BY <1>1 DEF Asked, Asking, Quiet, ClientRecord

\* Each of the four requests preserves the invariant.
LEMMA AskPreserves ==
    ASSUME IndInv, NEW c \in Client, Ask(c)
    PROVE  IndInv' /\ client'[c].func
<1>0. PICK opened, sent \in BOOLEAN :
        \/ \E a \in Addr :
             \/ arp_client_probe(c, a, opened, sent)
             \/ \E skip \in BOOLEAN : arp_client_announce(c, a, skip, opened, sent)
             \/ arp_client_resolve(c, a, opened, sent)
        \/ \E list \in Lists : arp_client_detect(c, list, opened, sent)
  BY DEF Ask
<1>1. Asking(Asked(c))
  BY AskedFacts
<1>2. ASSUME NEW k, Trying([k EXCEPT !.status = "unknown"]),
             NEW cmd \in {"probe", "resolve", "detect"}, NEW list \in SUBSET Addr
      PROVE  LET t == [k EXCEPT !.status = "unknown"]
                 j == [t EXCEPT !.command = cmd]
                 i == [t EXCEPT !.command = cmd, !.targets = list]
             IN  Trying(j) /\ j.status = "unknown" /\ Trying(i) /\ i.status = "unknown"
  <2> DEFINE t == [k EXCEPT !.status = "unknown"]
  <2>1. t.status = "unknown"
    BY <1>2 DEF Trying, ClientRecord
  <2> HIDE DEF t
  <2>2. Trying(t)
    BY <1>2 DEF t
  <2>3. LET j == [t EXCEPT !.command = cmd]
            i == [t EXCEPT !.command = cmd, !.targets = list]
        IN  Trying(j) /\ j.status = "unknown" /\ Trying(i) /\ i.status = "unknown"
    BY <2>1, <2>2 DEF Trying, ClientRecord
  <2> QED BY <2>3 DEF t
<1>3. ASSUME NEW a \in Addr, arp_client_probe(c, a, opened, sent)
      PROVE  IndInv' /\ client'[c].func
  <2> DEFINE b == [Asked(c) EXCEPT !.targets = {a}, !.skip = FALSE]
             k == Opening(c, b, opened).k
             j == [[k EXCEPT !.status = "unknown"] EXCEPT !.command = "probe"]
             x == arp_client_probe_retransmit(j, sent)
  <2>1. Asking(b)
    BY <1>1 DEF Asking, ClientRecord
  <2>2. Request(c, b, opened, x)
    BY <1>3 DEF arp_client_probe, Opened
  <2>3. ASSUME Trying([k EXCEPT !.status = "unknown"])
        PROVE  j.status = "unknown" /\ Tried(x, j)
    <3> HIDE DEF k
    <3>1. Trying(j) /\ j.status = "unknown"
      BY <1>2, <2>3
    <3> QED BY <3>1, ProbeFacts
  <2> HIDE DEF b, x, j
  <2> QED BY <2>1, <2>2, <2>3, RequestPreserves
<1>4. ASSUME NEW a \in Addr, NEW skip \in BOOLEAN, arp_client_announce(c, a, skip, opened, sent)
      PROVE  IndInv' /\ client'[c].func
  <2> DEFINE b == [Asked(c) EXCEPT !.targets = {a}, !.skip = skip, !.try = ProbeCount]
             k == Opening(c, b, opened).k
             j == [[k EXCEPT !.status = "unknown"] EXCEPT !.command = "probe"]
             x == arp_client_probe_retransmit(j, sent)
  <2>1. Asking(b)
    BY <1>1, <1>4, SessionAssumption DEF Asking, ClientRecord
  <2>2. Request(c, b, opened, x)
    BY <1>4 DEF arp_client_announce, Opened
  <2>3. ASSUME Trying([k EXCEPT !.status = "unknown"])
        PROVE  j.status = "unknown" /\ Tried(x, j)
    <3> HIDE DEF k
    <3>1. Trying(j) /\ j.status = "unknown"
      BY <1>2, <1>4, <2>3, SessionAssumption
    <3> QED BY <3>1, ProbeFacts
  <2> HIDE DEF b, x, j
  <2> QED BY <2>1, <2>2, <2>3, RequestPreserves
<1>5. ASSUME NEW a \in Addr, arp_client_resolve(c, a, opened, sent)
      PROVE  IndInv' /\ client'[c].func
  <2> DEFINE b == [Asked(c) EXCEPT !.targets = {a}]
             k == Opening(c, b, opened).k
             j == [[k EXCEPT !.status = "unknown"] EXCEPT !.command = "resolve"]
             x == arp_client_resolve_retransmit(j, sent)
  <2>1. Asking(b)
    BY <1>1, <1>5, SessionAssumption DEF Asking, ClientRecord
  <2>2. Request(c, b, opened, x)
    BY <1>5 DEF arp_client_resolve, Opened
  <2>3. ASSUME Trying([k EXCEPT !.status = "unknown"])
        PROVE  j.status = "unknown" /\ Tried(x, j)
    <3> HIDE DEF k
    <3>1. Trying(j) /\ j.status = "unknown"
      BY <1>2, <1>5, <2>3, SessionAssumption
    <3> QED BY <3>1, ProbeFacts
  <2> HIDE DEF b, x, j
  <2> QED BY <2>1, <2>2, <2>3, RequestPreserves
<1>6. ASSUME NEW list \in Lists, arp_client_detect(c, list, opened, sent)
      PROVE  IndInv' /\ client'[c].func
  <2> DEFINE b == Asked(c)
             k == Opening(c, b, opened).k
             j == [[k EXCEPT !.status = "unknown"] EXCEPT !.command = "detect", !.targets = list]
             x == arp_client_detect_retransmit(j, sent)
  <2>1. Asking(b)
    BY <1>1, <1>6, SessionAssumption DEF Asking, ClientRecord
  <2>2. Request(c, b, opened, x)
    BY <1>6 DEF arp_client_detect, Opened
  <2>3. ASSUME Trying([k EXCEPT !.status = "unknown"])
        PROVE  j.status = "unknown" /\ Tried(x, j)
    <3> HIDE DEF k
    <3>1. Trying(j) /\ j.status = "unknown"
      BY <1>2, <1>6, <2>3, SessionAssumption
    <3> QED BY <3>1, ProbeFacts
  <2> HIDE DEF b, x, j
  <2> QED BY <2>1, <2>2, <2>3, RequestPreserves
<1> QED BY <1>0, <1>3, <1>4, <1>5, <1>6

-----------------------------------------------------------------------------
(* The other actions                                                       *)

\* A client without a request is sound.
LEMMA QuietIsSound == ASSUME NEW k, Quiet(k) PROVE Sound(k)
BY DEF Quiet, Sound

\* A step that leaves one client without a request preserves the invariant.
LEMMA QuietPreserves ==
    ASSUME IndInv, NEW c \in Client, NEW s, Becomes(c, s),
           Good(s, refcount - Holds(client[c])), Quiet(s.k),
           live' = live \/ live' = live \ {c},
           UNCHANGED <<created, heard, asks>>,
           result' \in [Client -> {"idle", "in_use", "not_in_use", "error"}]
    PROVE  IndInv'
<1>1. /\ client' \in [Client -> ClientRecord]
      /\ refcount' \in Nat /\ fd' \in {"open", "closed"}
      /\ refcount' = Cardinality(Holders')
      /\ fd' = IF refcount' > 0 THEN "open" ELSE "closed"
      /\ \A d \in Client : Sound(client'[d])
  BY QuietIsSound, BecomesFacts
<1>2. TypeOK'
  <2>1. live \subseteq Client /\ created \in 0..MaxClients /\ asks \in 0..MaxAsks
        /\ heard \in [Client -> BOOLEAN]
    BY DEF IndInv, TypeOK
  <2> QED BY <1>1, <2>1 DEF TypeOK
<1>3. Heard'
  <2>1. client'[c] = s.k /\ s.k.func = FALSE
        /\ \A d \in Client \ {c} : client'[d] = client[d]
    BY DEF Becomes, IndInv, TypeOK, Quiet
  <2> QED BY <2>1 DEF Heard, IndInv
<1> QED BY <1>1, <1>2, <1>3 DEF IndInv

\* Cancelling, freeing, defending and answering leave no request.
LEMMA EndPreserves ==
    ASSUME IndInv, NEW c \in Client, NEW opened \in BOOLEAN,
           Cancel(c) \/ Free(c) \/ Defend(c, opened) \/ Callback(c)
    PROVE  IndInv'
<1> DEFINE n == refcount - Holds(client[c])
           q == arp_client_cancel(Session(c))
<1>0. result \in [Client -> {"idle", "in_use", "not_in_use", "error"}]
  BY DEF IndInv, TypeOK
<1>1. n \in Nat /\ Good(Session(c), n)
  BY SessionFacts
<1>2. Good(q, n) /\ Quiet(q.k)
  BY <1>1, CancelFacts
<1>3. CASE Cancel(c) \/ Free(c)
  <2>1. Becomes(c, q) /\ result' = [result EXCEPT ![c] = "idle"]
        /\ (live' = live \/ live' = live \ {c}) /\ UNCHANGED <<created, heard, asks>>
    BY <1>3 DEF Cancel, Free
  <2>2. result' \in [Client -> {"idle", "in_use", "not_in_use", "error"}]
    BY <1>0, <2>1
  <2> HIDE DEF q
  <2> QED BY <1>2, <2>1, <2>2, QuietPreserves
<1>4. CASE Defend(c, opened)
  <2> DEFINE o == arp_client_open_fd(q, opened)
             r == arp_client_close_fd(o)
  <2>1. Becomes(c, r) /\ result' = [result EXCEPT ![c] = "idle"] /\ live' = live
        /\ UNCHANGED <<created, heard, asks>>
    BY <1>4 DEF Defend
  <2> HIDE DEF q, n
  <2>2. Good(o, n) /\ SameRequest(o.k, q.k)
    BY <1>1, <1>2, OpenFd DEF Quiet
  <2> HIDE DEF o
  <2>3. Good(r, n) /\ r.k.fd_open = FALSE /\ SameRequest(r.k, o.k)
    BY <1>1, <2>2, CloseFd
  <2> HIDE DEF r
  <2>4. Quiet(r.k)
    BY <1>2, <2>2, <2>3 DEF Quiet, SameRequest
  <2>5. result' \in [Client -> {"idle", "in_use", "not_in_use", "error"}]
    BY <1>0, <2>1
  <2> QED BY <2>1, <2>3, <2>4, <2>5, QuietPreserves DEF n
<1>5. CASE Callback(c)
  <2> DEFINE r == arp_client_callback(Session(c))
  <2>1. Becomes(c, r) /\ result' = [result EXCEPT ![c] = Reported(client[c])]
        /\ live' = live /\ UNCHANGED <<created, heard, asks>>
    BY <1>5 DEF Callback
  <2>2. Good(r, n) /\ Quiet(r.k)
    BY <1>1, CallbackFacts
  <2>3. result' \in [Client -> {"idle", "in_use", "not_in_use", "error"}]
    <3>1. Reported(client[c]) \in {"in_use", "not_in_use", "error"}
      BY DEF Reported
    <3> QED BY <1>0, <2>1, <3>1
  <2> HIDE DEF r
  <2> QED BY <2>1, <2>2, <2>3, QuietPreserves
<1> QED BY <1>3, <1>4, <1>5

\* A step that leaves every client with the descriptor it has, sound and
\* with the request it has, preserves the invariant.
LEMMA KeepsPreserves ==
    ASSUME IndInv,
           client' \in [Client -> ClientRecord],
           \A c \in Client : /\ client'[c].fd_open = client[c].fd_open
                             /\ Sound(client'[c])
                             /\ client'[c].func => c \in live,
           \A c \in Client : client'[c].func /\ client'[c].status = "in_use" => heard'[c],
           heard' \in [Client -> BOOLEAN],
           UNCHANGED <<refcount, fd, live, created, result, asks>>
    PROVE  IndInv'
<1>1. Holders' = Holders
  BY DEF Holders
<1>2. TypeOK'
  BY DEF IndInv, TypeOK
<1>3. Heard'
  BY DEF Heard
<1> QED BY <1>1, <1>2, <1>3 DEF IndInv

\* No request begins or ends.
SameFuncs == \A d \in Client : client'[d].func = client[d].func

\* The timer that fires and the timer that runs.
LEMMA TimerPreserves ==
    ASSUME IndInv, NEW c \in Client, NEW sent \in BOOLEAN,
           Fire(c) \/ Timer(c, sent)
    PROVE  IndInv' /\ SameFuncs
<1>0. /\ client \in [Client -> ClientRecord] /\ heard \in [Client -> BOOLEAN]
      /\ \A d \in Client : Sound(client[d]) /\ (client[d].func => d \in live)
      /\ \A d \in Client : client[d].func /\ client[d].status = "in_use" => heard[d]
  BY DEF IndInv, TypeOK, Heard
<1>1. UNCHANGED <<refcount, fd, live, created, heard, result, asks>> /\ c \in live
  BY DEF Fire, Timer
<1>2. ASSUME NEW k, client' = [client EXCEPT ![c] = k], Tried(k, client[c]),
             client[c].func = TRUE, client[c].fd_open = TRUE
      PROVE  IndInv' /\ SameFuncs
  <2>1. client' \in [Client -> ClientRecord] /\ client'[c] = k
        /\ \A d \in Client \ {c} : client'[d] = client[d]
    BY <1>0, <1>2 DEF Tried
  <2>2. \A d \in Client : /\ client'[d].fd_open = client[d].fd_open
                          /\ Sound(client'[d])
                          /\ client'[d].func => d \in live
    BY <1>0, <1>1, <1>2, <2>1 DEF Tried
  <2>3. \A d \in Client : client'[d].func /\ client'[d].status = "in_use" => heard'[d]
    BY <1>0, <1>1, <1>2, <2>1 DEF Tried
  <2>4. SameFuncs
    BY <1>2, <2>1 DEF Tried, SameFuncs
  <2> QED BY <1>0, <1>1, <2>1, <2>2, <2>3, <2>4, KeepsPreserves
<1>3. CASE Fire(c)
  <2> DEFINE k == [client[c] EXCEPT !.ready = TRUE]
  <2>1. client' = [client EXCEPT ![c] = k] /\ client[c].timer # "none"
    BY <1>3 DEF Fire
  <2>2. Sound(client[c]) /\ client[c] \in ClientRecord
    BY <1>0
  <2>3. client[c].func = TRUE /\ client[c].fd_open = TRUE
    BY <2>1, <2>2 DEF Sound, ClientRecord
  <2>4. Tried(k, client[c])
    BY <2>1, <2>2, <2>3 DEF Tried, Sound, ClientRecord
  <2> HIDE DEF k
  <2> QED BY <1>2, <2>1, <2>3, <2>4
<1>4. CASE Timer(c, sent)
  <2> DEFINE j == timer_cancel(client[c])
  <2>1. client[c].ready /\ Sound(client[c]) /\ client[c] \in ClientRecord
    BY <1>0, <1>4 DEF Timer
  <2>2. client[c].timer \in Timers \ {"none"} /\ client[c].func = TRUE
        /\ client[c].fd_open = TRUE
    BY <2>1 DEF Sound, ClientRecord
  <2>3. Trying(j) /\ j.status = client[c].status
    <3>1. "none" \in Timers
      BY DEF Timers
    <3> QED BY <2>1, <2>2, <3>1 DEF Trying, timer_cancel, ClientRecord
  <2>4. PICK k : client' = [client EXCEPT ![c] = k] /\ Tried(k, j)
    <3>1. /\ Tried(arp_client_probe_start(j, sent), j)
          /\ Tried(arp_client_probe_retransmit(j, sent), j)
          /\ Tried(arp_client_resolve_retransmit(j, sent), j)
          /\ Tried(arp_client_detect_retransmit(j, sent), j)
      BY <2>3, ProbeFacts
    <3>2. client' = [client EXCEPT ![c] =
              CASE client[c].timer = "probe_start" -> arp_client_probe_start(j, sent)
                [] client[c].timer = "probe" -> arp_client_probe_retransmit(j, sent)
                [] client[c].timer = "resolve" -> arp_client_resolve_retransmit(j, sent)
                [] client[c].timer = "detect" -> arp_client_detect_retransmit(j, sent)]
      BY <1>4 DEF Timer
    <3> HIDE DEF j
    <3>3. CASE client[c].timer = "probe_start"
      BY <3>1, <3>2, <3>3
    <3>4. CASE client[c].timer = "probe"
      BY <3>1, <3>2, <3>4
    <3>5. CASE client[c].timer = "resolve"
      BY <3>1, <3>2, <3>5
    <3>6. CASE client[c].timer = "detect"
      BY <3>1, <3>2, <3>6
    <3> QED BY <2>2, <3>3, <3>4, <3>5, <3>6 DEF Timers
  <2> HIDE DEF j
  <2>5. Tried(k, client[c])
    BY <2>3, <2>4 DEF Tried
  <2> QED BY <1>2, <2>2, <2>4, <2>5
<1> QED BY <1>3, <1>4

\* A packet, and a failure to read one.
LEMMA ReadPreserves ==
    ASSUME IndInv, (\E p \in Packets : Read(p)) \/ ReadFailed
    PROVE  IndInv' /\ SameFuncs
<1>0. /\ client \in [Client -> ClientRecord] /\ heard \in [Client -> BOOLEAN]
      /\ \A d \in Client : Sound(client[d]) /\ (client[d].func => d \in live)
      /\ \A d \in Client : client[d].func /\ client[d].status = "in_use" => heard[d]
  BY DEF IndInv, TypeOK, Heard
<1>1. ASSUME NEW p \in Packets, Read(p)
      PROVE  IndInv' /\ SameFuncs
  <2> DEFINE new == {c \in Active : client[c].status # "in_use" /\ Matches(c, p)}
             seen == {c \in new : \A d \in new : d < c => ~Retries(d)}
  <2>1. /\ client' = [c \in Client |-> IF c \in seen THEN Matched(c) ELSE client[c]]
        /\ heard' = [c \in Client |-> heard[c] \/ (c \in Active /\ Matches(c, p))]
        /\ UNCHANGED <<refcount, fd, live, created, result, asks>>
    BY <1>1 DEF Read
  <2>2. ASSUME NEW c \in Client, c \in Active
        PROVE  /\ Matched(c) \in ClientRecord /\ Sound(Matched(c))
               /\ Matched(c).fd_open = client[c].fd_open
               /\ Matched(c).func = client[c].func
    <3> DEFINE k == IF CountsConflict(c) THEN [client[c] EXCEPT !.conflicts = @ + 1]
                    ELSE client[c]
    <3>0. client[c] \in ClientRecord /\ Sound(client[c]) /\ client[c].func = TRUE
          /\ c \in live
      BY <1>0, <2>2 DEF Active, ClientRecord
    <3>1. client[c].fd_open = TRUE
      BY <1>1, <3>0 DEF Read, CanRead, Sound, ClientRecord
    <3>2. k \in ClientRecord /\ Sound(k) /\ k.func = TRUE /\ k.fd_open = TRUE
      BY <3>0, <3>1 DEF Sound, ClientRecord
    <3>3. Matched(c) = IF Retries(c)
                       THEN timer_callout_set([k EXCEPT !.status = "in_use"], "probe_start")
                       ELSE arp_client_schedule_callback(k, "in_use")
      BY DEF Matched
    <3> HIDE DEF k
    <3>4. {"probe_start"} \subseteq Timers \ {"none"} /\ "in_use" \in Status
      BY DEF Timers, Status
    <3>5. LET t == timer_callout_set([k EXCEPT !.status = "in_use"], "probe_start")
          IN  t \in ClientRecord /\ Sound(t) /\ t.fd_open = TRUE /\ t.func = TRUE
      BY <3>2, <3>4 DEF timer_callout_set, Sound, ClientRecord
    <3>6. LET t == arp_client_schedule_callback(k, "in_use")
          IN  t \in ClientRecord /\ Sound(t) /\ t.fd_open = TRUE /\ t.func = TRUE
      BY <3>2, <3>4 DEF arp_client_schedule_callback, Sound, ClientRecord
    <3> QED BY <3>0, <3>1, <3>3, <3>5, <3>6
  <2>3. seen \subseteq Active
    OBVIOUS
  <2>4. \A c \in seen : heard'[c]
    <3> SUFFICES ASSUME NEW c \in seen PROVE heard'[c]
      OBVIOUS
    <3>1. c \in Active /\ Matches(c, p) /\ c \in Client
      BY DEF Active, IndInv, TypeOK
    <3>2. heard'[c] = (heard[c] \/ (c \in Active /\ Matches(c, p)))
      BY <2>1, <3>1, Zenon
    <3> QED BY <3>1, <3>2, Zenon
  <2> HIDE DEF seen
  <2>5. client' \in [Client -> ClientRecord]
    BY <1>0, <2>1, <2>2, <2>3
  <2>6. \A c \in Client : /\ client'[c].fd_open = client[c].fd_open
                          /\ Sound(client'[c])
                          /\ client'[c].func => c \in live
    BY <1>0, <2>1, <2>2, <2>3 DEF Active
  <2>7. \A c \in Client : client'[c].func /\ client'[c].status = "in_use" => heard'[c]
    BY <1>0, <2>1, <2>4
  <2>8. heard' \in [Client -> BOOLEAN]
    BY <1>0, <2>1
  <2>9. SameFuncs
    BY <1>0, <2>1, <2>2, <2>3 DEF SameFuncs
  <2> QED BY <2>1, <2>5, <2>6, <2>7, <2>8, <2>9, KeepsPreserves
<1>2. CASE ReadFailed
  <2>1. /\ client' = [c \in Client |-> IF c \in Active
                        THEN BeforeNextRead(arp_client_schedule_callback(client[c], "error"))
                        ELSE client[c]]
        /\ UNCHANGED <<refcount, fd, live, created, heard, result, asks>>
    BY <1>2 DEF ReadFailed
  <2>2. ASSUME NEW c \in Client, c \in Active
        PROVE  LET k == BeforeNextRead(arp_client_schedule_callback(client[c], "error"))
               IN  /\ k \in ClientRecord /\ Sound(k) /\ k.fd_open = client[c].fd_open
                   /\ k.func = client[c].func /\ k.status = "error"
    <3>1. client[c] \in ClientRecord /\ Sound(client[c]) /\ client[c].func = TRUE
      BY <1>0, <2>2 DEF Active, ClientRecord
    <3> QED BY <3>1 DEF BeforeNextRead, arp_client_schedule_callback, Sound,
                        ClientRecord, Status
  <2>3. client' \in [Client -> ClientRecord]
    BY <1>0, <2>1, <2>2
  <2>4. \A c \in Client : /\ client'[c].fd_open = client[c].fd_open
                          /\ Sound(client'[c])
                          /\ client'[c].func => c \in live
                          /\ client'[c].func /\ client'[c].status = "in_use" => heard'[c]
    BY <1>0, <2>1, <2>2
  <2>5. SameFuncs
    BY <1>0, <2>1, <2>2 DEF SameFuncs
  <2> QED BY <1>0, <2>1, <2>3, <2>4, <2>5, KeepsPreserves
<1> QED BY <1>1, <1>2

\* A new client has no request.
LEMMA NewPreserves ==
    ASSUME IndInv, New
    PROVE  IndInv'
<1>1. UNCHANGED <<client, refcount, fd, heard, result, asks>>
      /\ live' = live \cup {created + 1} /\ created' = created + 1 /\ created < MaxClients
  BY DEF New, ses
<1>2. TypeOK'
  <2>1. created \in 0..MaxClients /\ live \subseteq Client
    BY DEF IndInv, TypeOK
  <2>2. created' \in 0..MaxClients /\ live' \subseteq Client
    BY <1>1, <2>1, SessionAssumption DEF Client
  <2> QED BY <1>1, <2>2 DEF IndInv, TypeOK
<1>3. Heard'
  BY <1>1 DEF Heard, IndInv
<1>4. Holders' = Holders
  BY <1>1 DEF Holders
<1> QED BY <1>1, <1>2, <1>3, <1>4 DEF IndInv

\* The invariant holds at the start.
LEMMA InitIndInv == Init => IndInv
<1> SUFFICES ASSUME Init PROVE IndInv
  OBVIOUS
<1>1. \A c \in Client : client[c] = Fresh
  BY DEF Init
<1>2. Fresh \in ClientRecord /\ Sound(Fresh) /\ Fresh.func = FALSE
      /\ Fresh.fd_open = FALSE
  BY DEF Fresh, ClientRecord, Sound, Timers, Status
<1>3. TypeOK
  BY <1>2, SessionAssumption DEF Init, TypeOK
<1>4. Holders = {}
  BY <1>1, <1>2 DEF Holders
<1>5. refcount = Cardinality(Holders)
  BY <1>4, FS_EmptySet DEF Init
<1> QED BY <1>1, <1>2, <1>3, <1>5 DEF Init, IndInv, Heard

\* The count of the descriptor, the requests and what was heard of them are
\* inductive: every action of arp_session.c preserves them.
THEOREM SessionInvariance == Spec => []IndInv
<1>1. IndInv /\ [Next]_vars => IndInv'
  <2> SUFFICES ASSUME IndInv, [Next]_vars PROVE IndInv'
    OBVIOUS
  <2>1. CASE UNCHANGED vars
    BY <2>1 DEF vars, IndInv, TypeOK, Heard, Holders
  <2>2. CASE New
    BY <2>2, NewPreserves
  <2>3. CASE (\E p \in Packets : Read(p)) \/ ReadFailed
    BY <2>3, ReadPreserves
  <2>4. ASSUME NEW c \in Client, Ask(c) PROVE IndInv'
    BY <2>4, AskPreserves
  <2>5. ASSUME NEW c \in Client, NEW b \in BOOLEAN,
               Cancel(c) \/ Free(c) \/ Defend(c, b) \/ Callback(c)
        PROVE  IndInv'
    BY <2>5, EndPreserves
  <2>6. ASSUME NEW c \in Client, NEW b \in BOOLEAN, Fire(c) \/ Timer(c, b)
        PROVE  IndInv'
    BY <2>6, TimerPreserves
  <2> QED BY <2>1, <2>2, <2>3, <2>4, <2>5, <2>6 DEF Next
<1> QED BY <1>1, InitIndInv, PTL DEF Spec

\* No request of an ARP client is ever lost, and no timer or callback
\* outlives its request.
THEOREM NoRequestLost == Spec => []AnswerPending
<1>1. IndInv => AnswerPending
  BY DEF IndInv, Sound, AnswerPending
<1> QED BY <1>1, SessionInvariance, PTL

\* read_fd_refcount counts the clients that hold the descriptor, and the
\* descriptor is open exactly while it is held.
THEOREM DescriptorCounted == Spec => []FdCounted
<1>1. IndInv => FdCounted
  <2> SUFFICES ASSUME IndInv PROVE FdCounted
    OBVIOUS
  <2>1. refcount = Cardinality({c \in Client : client[c].fd_open})
    BY DEF IndInv, Holders
  <2>2. fd = "open" <=> refcount > 0
    BY DEF IndInv
  <2>3. \A c \in Client : Sound(client[c]) /\ (client[c].func => c \in live)
    BY DEF IndInv, Heard
  <2> QED BY <2>1, <2>2, <2>3 DEF FdCounted, Sound
<1> QED BY <1>1, SessionInvariance, PTL

-----------------------------------------------------------------------------
(* ARPRequests                                                             *)

\* A step that changes one client changes the request of that client.
LEMMA OneRequest ==
    ASSUME IndInv, NEW c \in Client, NEW k, client' = [client EXCEPT ![c] = k],
           \A d \in Client \ {c} : heard'[d] = heard[d] /\ result'[d] = result[d]
    PROVE  req' = [req EXCEPT ![c] = req'[c]]
<1>1. \A d \in Client \ {c} : client'[d] = client[d]
  BY DEF IndInv, TypeOK
<1> QED BY <1>1 DEF req

\* A call of a configuration method asks, or withdraws what was asked.
LEMMA CallsAsk ==
    ASSUME IndInv, NEW c \in Client, Ask(c)
    PROVE  Requests!Ask(c)
<1>1. PICK k : /\ client' = [client EXCEPT ![c] = k]
               /\ heard' = [heard EXCEPT ![c] = FALSE]
               /\ result' = [result EXCEPT ![c] = "idle"]
  <2>1. PICK b, opened, x : Request(c, b, opened, x)
    BY DEF Ask, arp_client_probe, arp_client_announce, arp_client_resolve, arp_client_detect
  <2> QED BY <2>1 DEF Request, Becomes
<1>2. heard \in [Client -> BOOLEAN] /\ DOMAIN result = Client
  BY DEF IndInv, TypeOK
<1>3. req' = [req EXCEPT ![c] = req'[c]]
  BY <1>1, <1>2, OneRequest
<1>4. client'[c].func /\ ~heard'[c]
  BY <1>1, <1>2, AskPreserves
<1>5. req'[c] = "waiting"
  BY <1>4 DEF req
<1> QED BY <1>3, <1>5 DEF Requests!Ask

\* Cancelling, freeing and defending withdraw it; the callback answers it.
LEMMA EndsRequest ==
    ASSUME IndInv, NEW c \in Client, NEW opened \in BOOLEAN
    PROVE  /\ Cancel(c) \/ Free(c) \/ Defend(c, opened) => Requests!Withdraw(c)
           /\ Callback(c) => Requests!Answer(c)
<1> DEFINE n == refcount - Holds(client[c])
           q == arp_client_cancel(Session(c))
           o == arp_client_close_fd(arp_client_open_fd(q, opened))
           r == arp_client_callback(Session(c))
<1>0. /\ heard \in [Client -> BOOLEAN] /\ DOMAIN result = Client
      /\ DOMAIN client = Client /\ Sound(client[c])
      /\ client[c].func /\ client[c].status = "in_use" => heard[c]
  BY DEF IndInv, TypeOK, Heard
<1>1. n \in Nat /\ Good(Session(c), n)
  BY SessionFacts
<1>2. Good(q, n) /\ Quiet(q.k)
  BY <1>1, CancelFacts
<1>3. Quiet(o.k)
  <2>1. ~q.k.fd_open /\ q.k.fd_open = FALSE
    BY <1>2 DEF Quiet
  <2> DEFINE t == arp_client_open_fd(q, opened)
  <2> HIDE DEF q
  <2>2. Good(t, n) /\ SameRequest(t.k, q.k)
    BY <1>1, <1>2, <2>1, OpenFd
  <2> HIDE DEF t
  <2>3. LET u == arp_client_close_fd(t)
        IN  u.k.fd_open = FALSE /\ SameRequest(u.k, t.k)
    BY <1>1, <2>2, CloseFd
  <2> QED BY <1>2, <2>2, <2>3 DEF Quiet, SameRequest, t
<1>4. Quiet(r.k)
  BY <1>1, CallbackFacts
<1>5. ASSUME NEW s, Quiet(s.k), Becomes(c, s), heard' = heard,
             NEW a, result' = [result EXCEPT ![c] = a]
      PROVE  req' = [req EXCEPT ![c] = a]
  <2>1. client' = [client EXCEPT ![c] = s.k]
    BY <1>5 DEF Becomes
  <2>2. req' = [req EXCEPT ![c] = req'[c]]
    BY <1>0, <1>5, <2>1, OneRequest
  <2>3. ~client'[c].func /\ result'[c] = a
    BY <1>0, <1>5, <2>1 DEF Quiet
  <2>4. req'[c] = a
    BY <2>3 DEF req
  <2> QED BY <2>2, <2>4
<1> HIDE DEF q, o, r
<1>6. ASSUME Cancel(c) \/ Free(c) \/ Defend(c, opened)
      PROVE  Requests!Withdraw(c)
  <2>1. PICK s : Quiet(s.k) /\ Becomes(c, s)
    BY <1>2, <1>3, <1>6 DEF Cancel, Free, Defend, q, o
  <2>2. heard' = heard /\ result' = [result EXCEPT ![c] = "idle"]
    BY <1>6 DEF Cancel, Free, Defend
  <2> QED BY <1>5, <2>1, <2>2 DEF Requests!Withdraw
<1>7. ASSUME Callback(c)
      PROVE  Requests!Answer(c)
  <2>1. Becomes(c, r) /\ heard' = heard /\ client[c].callback # "none"
        /\ result' = [result EXCEPT ![c] = Reported(client[c])]
    BY <1>7 DEF Callback, r
  <2>2. req' = [req EXCEPT ![c] = Reported(client[c])]
    BY <1>4, <1>5, <2>1
  <2>3. client[c].func
    BY <1>0, <2>1 DEF Sound
  <2>4. /\ req[c] \in Requests!Pending
        /\ Reported(client[c]) \in Requests!Result
        /\ Reported(client[c]) = "in_use" => req[c] = "heard"
    BY <1>0, <2>3 DEF req, Reported, Requests!Pending, Requests!Result
  <2> QED BY <2>2, <2>4 DEF Requests!Answer
<1> QED BY <1>6, <1>7

\* A timer changes no request.
LEMMA TimersKeepRequests ==
    ASSUME IndInv, NEW c \in Client, NEW sent \in BOOLEAN, Fire(c) \/ Timer(c, sent)
    PROVE  req' = req
<1>1. SameFuncs
  BY TimerPreserves
<1> QED BY <1>1 DEF Fire, Timer, req, SameFuncs

\* A packet is heard by the clients whose request it matches; whether the
\* scan reaches them changes only what they will answer.
LEMMA ReadHears ==
    ASSUME IndInv, NEW p \in Packets, Read(p)
    PROVE  \E S \in SUBSET Client : Requests!Hear(S)
<1> DEFINE S == {c \in Active : Matches(c, p)}
<1>1. /\ heard' = [c \in Client |-> heard[c] \/ (c \in Active /\ Matches(c, p))]
      /\ result' = result /\ heard \in [Client -> BOOLEAN] /\ live \subseteq Client
  BY DEF Read, IndInv, TypeOK
<1>2. \A c \in Client : client'[c].func = client[c].func
  BY ReadPreserves DEF SameFuncs
<1>3. S \in SUBSET Client /\ \A c \in S : client[c].func
  BY <1>1 DEF Active
<1>4. \A c \in S : req[c] \in Requests!Pending
  BY <1>3 DEF req, Requests!Pending
<1>5. \A c \in Client : heard'[c] = (heard[c] \/ c \in S)
  BY <1>1
<1> HIDE DEF S
<1>6. req' = [c \in Client |-> IF c \in S THEN "heard" ELSE req[c]]
  BY <1>1, <1>2, <1>3, <1>5 DEF req
<1> QED BY <1>3, <1>4, <1>6 DEF Requests!Hear

\* What is read, sent, lost and called back are the steps of ARPRequests: a
\* request is answered once, by its callback, unless it is withdrawn or
\* replaced, and "in use" only if a packet that matches it was read.
THEOREM RequestsAnswered == Spec => Requests!Safe
<1>1. Init => Requests!Init
  BY DEF Init, Requests!Init, req, Fresh
<1>2. IndInv /\ [Next]_vars => [Requests!Next]_req
  <2> SUFFICES ASSUME IndInv, [Next]_vars PROVE [Requests!Next]_req
    OBVIOUS
  <2>1. CASE UNCHANGED vars
    BY <2>1 DEF vars, ses, req
  <2>2. CASE New
    BY <2>2 DEF New, ses, req
  <2>3. ASSUME NEW p \in Packets, Read(p) PROVE Requests!Next
    BY <2>3, ReadHears DEF Requests!Next
  <2>4. CASE ReadFailed
    <3>1. \A c \in Client : client'[c].func = client[c].func
      BY <2>4, ReadPreserves DEF SameFuncs
    <3> QED BY <2>4, <3>1 DEF ReadFailed, req
  <2>5. ASSUME NEW c \in Client, Ask(c) PROVE Requests!Next
    BY <2>5, CallsAsk DEF Requests!Next
  <2>6. ASSUME NEW c \in Client, NEW b \in BOOLEAN,
               Cancel(c) \/ Free(c) \/ Defend(c, b) \/ Callback(c)
        PROVE  Requests!Next
    BY <2>6, EndsRequest DEF Requests!Next
  <2>7. ASSUME NEW c \in Client, NEW b \in BOOLEAN, Fire(c) \/ Timer(c, b)
        PROVE  req' = req
    BY <2>7, TimersKeepRequests
  <2> QED BY <2>1, <2>2, <2>3, <2>4, <2>5, <2>6, <2>7 DEF Next
<1> QED BY <1>1, <1>2, SessionInvariance, PTL DEF Spec, Requests!Safe
=============================================================================
