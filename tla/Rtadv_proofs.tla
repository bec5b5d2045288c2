---------------------------- MODULE Rtadv_proofs ----------------------------
(***************************************************************************)
(* Proofs about the automatic IPv6 service (Rtadv) and the socket it hears *)
(* routers on, which all services of a protocol share (SharedSocket), for  *)
(* every set of users, descriptors and advertisements.                     *)
(***************************************************************************)
EXTENDS SharedSocket, Rtadv, FiniteSetTheorems, TLAPS

-----------------------------------------------------------------------------
(* The shared socket                                                       *)

\* The descriptor and its cancellations: what Counted says of them, without
\* cardinalities.  A client that is a user has a descriptor or will get one.
Cancelled ==
    /\ read_fd \notin cancelling
    /\ fam # "rtadv" => /\ cancel_pending <=> cancelling # {}
                        /\ \A f, g \in cancelling : f = g
                        /\ cancel_pending => read_fd = NoFd

Served ==
    /\ fd_open # {} => read_fd # NoFd \/ (fam # "rtadv" /\ cancel_pending)
    /\ read_fd # NoFd /\ fd_open = {} => closing

UsersCounted ==
    /\ IsFiniteSet(fd_open) /\ users = Cardinality(fd_open)
    /\ fd_open \subseteq made

SocketInv == SocketTypeOK /\ Cancelled /\ Served /\ UsersCounted

-----------------------------------------------------------------------------
(* The count                                                               *)

\* Nobody is counted exactly when there is no user.
LEMMA ZeroUsers == UsersCounted => (users = 0 <=> fd_open = {}) /\ users \in Nat
BY FS_EmptySet, FS_CardinalityType DEF UsersCounted

\* A client that opens is counted, one that closes is no longer.
LEMMA CountOpen ==
    ASSUME UsersCounted, NEW c \in made \ fd_open,
           fd_open' = fd_open \cup {c}, users' = users + 1, made' = made
    PROVE  UsersCounted'
BY FS_AddElement DEF UsersCounted

\* Closing takes off the count whoever is on it, and one user less than the
\* last leaves users.
LEMMA CountClose ==
    ASSUME UsersCounted, NEW c, DHCPv6SocketCloseSocket(c),
           made' = made \/ made' = made \ {c}
    PROVE  /\ UsersCounted' /\ users' \in Nat
           /\ fd_open' = {} => fd_open = {} \/ closing'
           /\ fd_open = {} => UNCHANGED closing
<1>1. users = Cardinality(fd_open) /\ IsFiniteSet(fd_open) /\ users \in Nat
  BY ZeroUsers DEF UsersCounted
<1>2. fd_open' = fd_open \ {c}
  BY DEF DHCPv6SocketCloseSocket
<1>3. IsFiniteSet(fd_open')
      /\ Cardinality(fd_open') = IF c \in fd_open THEN users - 1 ELSE users
  BY <1>1, <1>2, FS_RemoveElement
<1>4. fd_open' \subseteq made'
  BY <1>2 DEF UsersCounted
<1>5. CASE c \in fd_open
  <2>1. users > 0
    BY <1>1, <1>5, ZeroUsers
  <2>2. users' = users - 1 /\ closing' = (closing \/ users = 1)
    BY <2>1, <1>5 DEF DHCPv6SocketCloseSocket
  <2>3. UsersCounted' /\ users' \in Nat
    BY <1>1, <1>3, <1>4, <1>5, <2>1, <2>2 DEF UsersCounted
  <2>4. fd_open' = {} => users = 1
    BY <1>1, <1>3, <1>5, <2>1, FS_EmptySet
  <2> QED BY <2>2, <2>3, <2>4, <1>5
<1>6. CASE c \notin fd_open
  <2>1. UNCHANGED <<users, closing>> /\ fd_open' = fd_open
    BY <1>2, <1>6 DEF DHCPv6SocketCloseSocket
  <2> QED BY <2>1, <1>1, <1>4 DEF UsersCounted
<1> QED BY <1>5, <1>6

\* All three families open and close in the same way.
LEMMA OneWay ==
    ASSUME SocketTypeOK, NEW c
    PROVE  /\ OpenSocket(c) => DHCPv6SocketOpenSocket(c)
           /\ CloseSocket(c) => DHCPv6SocketCloseSocket(c)
BY DEF SocketTypeOK, Family, OpenSocket, CloseSocket, bootp_client_open_socket,
       bootp_client_close_socket, RTADVSocketOpenSocket, RTADVSocketCloseSocket

-----------------------------------------------------------------------------
(* The steps                                                               *)

LEMMA InitStep ==
    ASSUME SocketInit
    PROVE  SocketInv
<1>1. SocketTypeOK
  BY DEF SocketInit, SocketTypeOK
<1>2. Cancelled /\ Served
  BY DEF SocketInit, Cancelled, Served
<1>3. UsersCounted
  BY FS_EmptySet DEF SocketInit, UsersCounted
<1> QED BY <1>1, <1>2, <1>3 DEF SocketInv

LEMMA CreateStep ==
    ASSUME SocketInv, NEW c \in User, Create(c)
    PROVE  SocketInv'
BY DEF Create, fdVars, SocketInv, SocketTypeOK, Cancelled, Served, UsersCounted

\* The first user opens a descriptor that is not in cancellation.
LEMMA OpenStep ==
    ASSUME SocketInv, NEW c \in made, DHCPv6SocketOpenSocket(c),
           rx' \subseteq User, UNCHANGED <<fam, made>>
    PROVE  SocketInv'
<1>1. c \notin fd_open /\ fd_open' = fd_open \cup {c} /\ users' = users + 1
      /\ closing' = FALSE /\ UNCHANGED <<cancelling, cancel_pending>>
  BY DEF DHCPv6SocketOpenSocket
<1>2. UsersCounted'
  BY <1>1, CountOpen DEF SocketInv
<1>3. \/ UNCHANGED read_fd /\ (users > 0 \/ read_fd # NoFd \/ (fam # "rtadv" /\ cancel_pending))
      \/ read_fd' \in Fd \ cancelling /\ (fam # "rtadv" => ~cancel_pending)
  BY DEF DHCPv6SocketOpenSocket, RTADVSocketOpenSocketFD, bootp_session_open_socket
<1>4. SocketTypeOK'
  <2>1. users' \in Nat /\ closing' \in BOOLEAN /\ cancel_pending' \in BOOLEAN
    <3>1. users' \in Nat
      BY <1>1 DEF SocketInv, SocketTypeOK
    <3>2. closing' \in BOOLEAN /\ cancel_pending' \in BOOLEAN
      BY <1>1 DEF SocketInv, SocketTypeOK
    <3> QED BY <3>1, <3>2
  <2>2. made' \subseteq User /\ fd_open' \subseteq User
    BY <1>1 DEF SocketInv, SocketTypeOK
  <2>3. read_fd' \in Fd \cup {NoFd} /\ cancelling' \subseteq Fd
    BY <1>1, <1>3 DEF SocketInv, SocketTypeOK
  <2> QED BY <2>1, <2>2, <2>3 DEF SocketInv, SocketTypeOK
<1>5. Cancelled'
  BY <1>1, <1>3, FdAssumption DEF SocketInv, Cancelled
<1>6. users > 0 => fd_open # {}
  BY ZeroUsers DEF SocketInv
<1>7. Served'
  BY <1>1, <1>3, <1>6, FdAssumption DEF SocketInv, Served
<1> QED BY <1>2, <1>4, <1>5, <1>7 DEF SocketInv

\* The last user starts the timer.
LEMMA CloseStep ==
    ASSUME SocketInv, NEW c \in User, DHCPv6SocketCloseSocket(c), UNCHANGED fam,
           rx' \subseteq User, made' = made \/ made' = made \ {c}
    PROVE  SocketInv'
<1>1. /\ UsersCounted' /\ users' \in Nat
      /\ fd_open' = {} => fd_open = {} \/ closing'
      /\ fd_open = {} => UNCHANGED closing
  BY CountClose DEF SocketInv
<1>2. fd_open' \subseteq fd_open /\ UNCHANGED <<read_fd, cancelling, cancel_pending>>
  BY DEF DHCPv6SocketCloseSocket
<1>3. closing' \in BOOLEAN
  BY DEF DHCPv6SocketCloseSocket, SocketInv, SocketTypeOK
<1>4. SocketTypeOK'
  BY <1>1, <1>2, <1>3 DEF SocketInv, SocketTypeOK
<1>5. Cancelled'
  BY <1>2 DEF SocketInv, Cancelled
<1>6. Served'
  BY <1>1, <1>2 DEF SocketInv, Served
<1> QED BY <1>1, <1>4, <1>5, <1>6 DEF SocketInv

LEMMA EnableReceiveStep ==
    ASSUME SocketInv, NEW c \in User, EnableReceive(c)
    PROVE  SocketInv'
<1>1. c \in made /\ rx' \subseteq User /\ UNCHANGED <<fam, made>>
  BY DEF EnableReceive, SocketInv, SocketTypeOK
<1>2. CASE OpenSocket(c)
  BY <1>1, <1>2, OneWay, OpenStep DEF SocketInv
<1>3. CASE OpenFails(c)
  BY <1>1, <1>3 DEF OpenFails, SocketInv, SocketTypeOK, Cancelled, Served, UsersCounted
<1>4. CASE UNCHANGED fd_open /\ UNCHANGED fdVars
  BY <1>1, <1>4 DEF fdVars, SocketInv, SocketTypeOK, Cancelled, Served, UsersCounted
<1> QED BY <1>2, <1>3, <1>4 DEF EnableReceive

LEMMA DisableReceiveStep ==
    ASSUME SocketInv, NEW c \in User, DisableReceive(c)
    PROVE  SocketInv'
<1>1. rx' \subseteq User /\ UNCHANGED <<fam, made>> /\ CloseSocket(c)
  BY DEF DisableReceive, SocketInv, SocketTypeOK
<1> QED BY <1>1, OneWay, CloseStep DEF SocketInv

LEMMA ReleaseStep ==
    ASSUME SocketInv, NEW c \in User, Release(c)
    PROVE  SocketInv'
<1>1. rx' \subseteq User /\ made' = made \ {c} /\ UNCHANGED fam /\ CloseSocket(c)
  BY DEF Release, SocketInv, SocketTypeOK
<1> QED BY <1>1, OneWay, CloseStep DEF SocketInv

\* A borrowed descriptor has no user, and the timer runs.
LEMMA BorrowStep ==
    ASSUME SocketInv, NEW c \in User, Borrow(c)
    PROVE  SocketInv'
<1>1. /\ closing' = (users = 0)
      /\ UNCHANGED <<fam, made, rx, fd_open, users, cancelling, cancel_pending>>
      /\ \/ users = 0 /\ ~cancel_pending /\ read_fd' \in Fd \ cancelling
         \/ UNCHANGED read_fd
  BY DEF Borrow
<1>2. users = 0 <=> fd_open = {}
  BY ZeroUsers DEF SocketInv
<1>3. SocketTypeOK'
  BY <1>1 DEF SocketInv, SocketTypeOK
<1>4. Cancelled'
  BY <1>1, FdAssumption DEF SocketInv, Cancelled
<1>5. Served'
  BY <1>1, <1>2 DEF SocketInv, Served
<1>6. UsersCounted'
  BY <1>1 DEF SocketInv, UsersCounted
<1> QED BY <1>3, <1>4, <1>5, <1>6 DEF SocketInv

\* Cancelling takes the descriptor away from its users only in a family that
\* brings it back.
LEMMA ScheduleCloseStep ==
    ASSUME SocketInv, read_fd # NoFd, closing' \in BOOLEAN,
           UNCHANGED <<fam, made, rx, fd_open, users>>,
           \/ fam = "rtadv" /\ fd_open = {} /\ RTADVSocketScheduleClose
           \/ fam # "rtadv" /\ DHCPv6SocketScheduleClose
    PROVE  SocketInv'
<1>1. read_fd \in Fd /\ {read_fd} \cap Fd = {read_fd}
  BY DEF SocketInv, SocketTypeOK
<1>2. CASE fam = "rtadv" /\ fd_open = {} /\ RTADVSocketScheduleClose
  <2>1. /\ cancelling' = cancelling \cup {read_fd} /\ read_fd' = NoFd
        /\ UNCHANGED cancel_pending
    BY <1>1, <1>2 DEF RTADVSocketScheduleClose
  <2>2. NoFd \notin cancelling'
    BY <2>1, <1>1, FdAssumption DEF SocketInv, SocketTypeOK
  <2> QED BY <1>1, <1>2, <2>1, <2>2
          DEF SocketInv, SocketTypeOK, Cancelled, Served, UsersCounted
<1>3. CASE fam # "rtadv" /\ DHCPv6SocketScheduleClose
  <2>1. ~cancel_pending /\ cancelling = {}
    BY <1>3 DEF SocketInv, SocketTypeOK, Cancelled
  <2>2. cancel_pending' = TRUE /\ cancelling' = {read_fd} /\ read_fd' = NoFd
    BY <1>1, <1>3, <2>1 DEF DHCPv6SocketScheduleClose
  <2> QED BY <1>1, <1>3, <2>2, FdAssumption
          DEF SocketInv, SocketTypeOK, Cancelled, Served, UsersCounted
<1> QED BY <1>2, <1>3

LEMMA DelayedCloseStep ==
    ASSUME SocketInv, DelayedClose
    PROVE  SocketInv'
<1>1. closing' = FALSE /\ UNCHANGED <<fam, made, rx, fd_open, users>>
  BY DEF DelayedClose
<1>2. users = 0 <=> fd_open = {}
  BY ZeroUsers DEF SocketInv
<1>3. CASE read_fd = NoFd \/ users > 0
  <2>1. UNCHANGED <<read_fd, cancelling, cancel_pending>>
    BY <1>3 DEF DelayedClose
  <2>2. SocketTypeOK' /\ Cancelled' /\ UsersCounted'
    BY <1>1, <2>1 DEF SocketInv, SocketTypeOK, Cancelled, UsersCounted
  <2>3. read_fd # NoFd => fd_open # {}
    <3>1. users > 0 => users # 0
      BY ZeroUsers DEF SocketInv
    <3> QED BY <1>2, <1>3, <3>1
  <2>4. Served'
    BY <1>1, <2>1, <2>3 DEF SocketInv, Served
  <2> QED BY <2>2, <2>4 DEF SocketInv
<1>4. CASE read_fd # NoFd /\ ~(users > 0)
  <2>1. fd_open = {}
    BY <1>2, <1>4, ZeroUsers DEF SocketInv
  <2>2. \/ fam = "rtadv" /\ RTADVSocketScheduleClose
        \/ fam # "rtadv" /\ DHCPv6SocketScheduleClose
    BY <1>4 DEF DelayedClose
  <2> QED BY <1>1, <1>4, <2>1, <2>2, ScheduleCloseStep
<1> QED BY <1>3, <1>4

LEMMA ReadFailsStep ==
    ASSUME SocketInv, ReadFails
    PROVE  SocketInv'
<1>1. closing' \in BOOLEAN
  BY DEF ReadFails, SocketInv, SocketTypeOK
<1> QED BY <1>1, ScheduleCloseStep DEF ReadFails

\* The handler of the one cancellation brings the descriptor back to whoever
\* came to use it.
LEMMA FDCompleteStep ==
    ASSUME SocketInv, NEW f \in Fd, FDComplete(f)
    PROVE  SocketInv'
<1>1. /\ f \in cancelling /\ cancelling' = cancelling \ {f}
      /\ UNCHANGED <<fam, made, rx, fd_open, users, closing>>
  BY DEF FDComplete
<1>2. CASE fam = "rtadv"
  <2>1. UNCHANGED <<cancel_pending, read_fd>>
    BY <1>2 DEF FDComplete, RTADVSocketFDComplete
  <2> QED BY <1>1, <1>2, <2>1
          DEF SocketInv, SocketTypeOK, Cancelled, Served, UsersCounted
<1>3. CASE fam # "rtadv"
  <2>1. cancel_pending' = FALSE /\ read_fd' = IF users > 0 THEN f ELSE read_fd
    BY <1>3 DEF FDComplete, bootp_session_fd_complete
  <2>2. cancelling' = {} /\ read_fd = NoFd
    BY <1>1, <1>3 DEF SocketInv, Cancelled
  <2>3. f # NoFd /\ (users > 0 <=> fd_open # {})
    BY FdAssumption, ZeroUsers DEF SocketInv
  <2> QED BY <1>1, <1>3, <2>1, <2>2, <2>3
          DEF SocketInv, SocketTypeOK, Cancelled, Served, UsersCounted
<1> QED BY <1>2, <1>3

-----------------------------------------------------------------------------
(* The theorem                                                             *)

\* Every step of the sockets keeps the invariant.
THEOREM SocketInvariance == SocketSpec => []SocketInv
<1>1. SocketInit => SocketInv
  BY InitStep
<1>2. SocketInv /\ [SocketNext]_socketVars => SocketInv'
  <2> SUFFICES ASSUME SocketInv, [SocketNext]_socketVars PROVE SocketInv'
    OBVIOUS
  <2>1. ASSUME NEW c \in User, Create(c) PROVE SocketInv'
    BY <2>1, CreateStep
  <2>2. ASSUME NEW c \in User, EnableReceive(c) PROVE SocketInv'
    BY <2>2, EnableReceiveStep
  <2>3. ASSUME NEW c \in User, DisableReceive(c) PROVE SocketInv'
    BY <2>3, DisableReceiveStep
  <2>4. ASSUME NEW c \in User, Release(c) PROVE SocketInv'
    BY <2>4, ReleaseStep
  <2>5. ASSUME NEW c \in User,
               \/ bootp_client_transmit(c) \/ DHCPv6SocketTransmit(c)
               \/ RTADVSocketSendSolicitation(c)
        PROVE SocketInv'
    BY <2>5, BorrowStep
       DEF bootp_client_transmit, DHCPv6SocketTransmit, RTADVSocketSendSolicitation
  <2>6. CASE DelayedClose
    BY <2>6, DelayedCloseStep
  <2>7. CASE ReadFails
    BY <2>7, ReadFailsStep
  <2>8. ASSUME NEW f \in Fd, FDComplete(f) PROVE SocketInv'
    BY <2>8, FDCompleteStep
  <2>9. CASE UNCHANGED socketVars
    BY <2>9 DEF socketVars, SocketInv, SocketTypeOK, Cancelled, Served, UsersCounted
  <2> QED BY <2>1, <2>2, <2>3, <2>4, <2>5, <2>6, <2>7, <2>8, <2>9 DEF SocketNext
<1> QED BY <1>1, <1>2, PTL DEF SocketSpec

\* The invariant says what Counted says: a set whose members are all equal has
\* at most one.
LEMMA InvCounted == SocketInv => Counted
<1> SUFFICES ASSUME SocketInv PROVE Counted
  OBVIOUS
<1>1. ASSUME fam # "rtadv" PROVE Cardinality(cancelling) <= 1
  <2>1. CASE cancelling = {}
    BY <2>1, FS_EmptySet
  <2>2. CASE cancelling # {}
    <3>1. PICK f \in cancelling : TRUE
      BY <2>2
    <3>2. cancelling = {} \cup {f}
      BY <1>1, <3>1 DEF SocketInv, Cancelled
    <3> QED BY <3>2, FS_EmptySet, FS_AddElement
  <2> QED BY <2>1, <2>2
<1> QED BY <1>1 DEF Counted, SocketInv, Cancelled, Served, UsersCounted

\* The users of a shared socket are counted: no descriptor is read and
\* cancelled at once or left open without a user and without a timer, and no
\* user is left without one, whatever opens, fails, closes and is cancelled
\* meanwhile (DHCPv6Socket.c, bootp_session.c, RTADVSocket.c).
THEOREM SocketsCounted == SocketSpec => []Counted
BY SocketInvariance, InvCounted, PTL

-----------------------------------------------------------------------------
(* The automatic service: its helpers.  Each of them keeps the state sound, *)
(* and leaves alone what the invariant relates.                             *)

\* Two users of an address count as two.
LEMMA PairCardinality == Cardinality({"us", "other"}) = 2
<1>1. IsFiniteSet({"us"}) /\ Cardinality({"us"}) = 1 BY FS_Singleton
<1>2. Cardinality({"us"} \cup {"other"}) = 2 BY <1>1, FS_AddElement
<1>3. {"us", "other"} = {"us"} \cup {"other"} OBVIOUS
<1>4. QED BY <1>2, <1>3

\* The CLAT46 addresses in use are ours and the other interface's, and the two
\* are the same only when there is no second one.
Held(t, o) ==
    /\ t.clat_on <=> t.clat # 0
    /\ \A i \in Clat : t.use[i] = (IF t.clat = i THEN 1 ELSE 0) + (IF o = i THEN 1 ELSE 0)
    /\ t.clat = o /\ o # 0 => ClatCount = 1
Sound(t, o) == t \in ServiceType /\ Held(t, o) /\ (t.renew => Cellular)

\* What a helper leaves alone.
Keeps(t, u) ==
    /\ u.run = t.run /\ u.link = t.link /\ u.refused = t.refused
    /\ u.st = t.st /\ u.try = t.try /\ u.ra = t.ra /\ u.tm = t.tm /\ u.rx = t.rx
\* and what most of them leave alone too.
KeepsMore(t, u) == Keeps(t, u) /\ u.req = t.req /\ u.clat = t.clat /\ u.pub = t.pub /\ u.renew = t.renew

\* The advertisements that the service may hold are well formed.
LEMMA NoRAKnown == NoRA \in Known /\ NoRA \in RA
  BY DEF Known, NoRA, RA, NoPvD, Domain

LEMMA AdvertsRA == Adverts \subseteq RA
  BY RtadvAssumption DEF RtadvAssumption

LEMMA KnownRA == Known \subseteq RA
<1>1. Adverts \subseteq RA BY RtadvAssumption DEF RtadvAssumption
<1>2. ASSUME NEW a \in Adverts PROVE [a EXCEPT !.dns = "expired"] \in RA
  <2>1. a \in RA BY <1>1
  <2>2. QED BY <2>1 DEF RA
<1>3. QED BY <1>1, <1>2, NoRAKnown DEF Known

\* The prefix of the advertisement decides, whoever asks.
LEMMA Nat64Keeps ==
    ASSUME NEW o, NEW t, Sound(t, o), NEW given \in BOOLEAN
    PROVE  LET u == rtadv_set_nat64_prefixlist(t, given)
           IN  Sound(u, o) /\ KeepsMore(t, u) /\ (t.ra = NoRA => ~u.pref64)
<1>1. t \in ServiceType BY DEF Sound
<1>2. CASE t.ra = NoRA \/ ~t.ra.pref64
  <2>1. rtadv_set_nat64_prefixlist(t, given) = [t EXCEPT !.nat64 = FALSE, !.pref64 = FALSE]
    BY <1>2 DEF rtadv_set_nat64_prefixlist
  <2> DEFINE u == [t EXCEPT !.nat64 = FALSE, !.pref64 = FALSE]
  <2>2. u \in ServiceType /\ KeepsMore(t, u) /\ ~u.pref64 /\ u.use = t.use /\ u.clat_on = t.clat_on
    BY <1>1 DEF ServiceType, KeepsMore, Keeps
  <2>3. QED BY <2>1, <2>2 DEF Sound, Held, KeepsMore
<1>3. CASE ~(t.ra = NoRA \/ ~t.ra.pref64) /\ given /\ t.nat64
  BY <1>3 DEF rtadv_set_nat64_prefixlist, KeepsMore, Keeps
<1>4. CASE ~(t.ra = NoRA \/ ~t.ra.pref64) /\ ~(given /\ t.nat64)
  <2> DEFINE u == [t EXCEPT !.nat64 = @ \/ given, !.pref64 = TRUE]
  <2>1. rtadv_set_nat64_prefixlist(t, given) = u BY <1>4 DEF rtadv_set_nat64_prefixlist
  <2>2. u \in ServiceType /\ KeepsMore(t, u) /\ u.use = t.use /\ u.clat_on = t.clat_on
    BY <1>1 DEF ServiceType, KeepsMore, Keeps
  <2>3. QED BY <1>4, <2>1, <2>2 DEF Sound, Held, KeepsMore
<1>5. QED BY <1>2, <1>3, <1>4

Contexts == [id : Domain, seq : Nat, ok : BOOLEAN, exp : {"none", "before", "after", "past"}]

\* A flushed context is one, and a flush ends the request.
LEMMA FlushedContext ==
    ASSUME NEW c \in Contexts, NEW b \in BOOLEAN PROVE PvDInfoContextFlush(c, b) \in Contexts
  BY DEF Contexts, PvDInfoContextFlush, NoContext, Domain

LEMMA PvDFlushKeeps ==
    ASSUME NEW o, NEW t, Sound(t, o)
    PROVE  LET u == rtadv_pvd_flush(t)
           IN  /\ Sound(u, o) /\ Keeps(t, u) /\ ~u.req
               /\ u.clat = t.clat /\ u.pub = t.pub /\ u.pref64 = t.pref64 /\ u.renew = t.renew
<1> DEFINE c == PvDInfoContextFlush(t.pvd, FALSE)
           u == [t EXCEPT !.req = FALSE, !.pvd = c]
<1>1. t \in ServiceType BY DEF Sound
<1>2. c \in Contexts BY <1>1, FlushedContext DEF ServiceType, Contexts
<1>3. rtadv_pvd_flush(t) = u BY <1>1 DEF rtadv_pvd_flush, ServiceType
<1> HIDE DEF c
<1>4. u \in ServiceType BY <1>1, <1>2 DEF ServiceType, Contexts
<1>5. Keeps(t, u) /\ ~u.req /\ u.use = t.use /\ u.clat_on = t.clat_on
      /\ u.clat = t.clat /\ u.pub = t.pub /\ u.pref64 = t.pref64 /\ u.renew = t.renew
  BY <1>1 DEF ServiceType, Keeps
<1>6. QED BY <1>3, <1>4, <1>5 DEF Sound, Held

\* A request and a fetch change nothing but the context.
LEMMA NewRequestKeeps ==
    ASSUME NEW o, NEW t, Sound(t, o)
    PROVE  LET u == new_pvd_info_request(t) IN Sound(u, o) /\ Keeps(t, u) /\ u.renew = t.renew
<1> DEFINE f == rtadv_pvd_flush(t)
           p == [f.pvd EXCEPT !.id = t.ra.pvd.id, !.seq = t.ra.pvd.seq]
           u == [f EXCEPT !.req = TRUE, !.pvd = p]
<1>1. Sound(f, o) /\ Keeps(t, f) /\ f.renew = t.renew BY PvDFlushKeeps
<1>2. t.ra \in RA BY KnownRA DEF Sound, ServiceType
<1> HIDE DEF f
<1>3. f \in ServiceType BY <1>1 DEF Sound
<1>4. f.pvd \in Contexts BY <1>3 DEF ServiceType, Contexts
<1>5. p \in Contexts BY <1>2, <1>4 DEF Contexts, RA
<1>6. [f EXCEPT !.req = TRUE, !.pvd.id = t.ra.pvd.id, !.pvd.seq = t.ra.pvd.seq] = u
  BY <1>3, <1>4 DEF ServiceType
<1> HIDE DEF p
<1>7. u \in ServiceType BY <1>3, <1>5 DEF ServiceType, Contexts
<1>8. Keeps(f, u) /\ u.use = f.use /\ u.clat_on = f.clat_on /\ u.clat = f.clat /\ u.renew = f.renew
  BY <1>3 DEF ServiceType, Keeps
<1> HIDE DEF u
<1>9. Sound(u, o) /\ Keeps(t, u) /\ u.renew = t.renew BY <1>1, <1>7, <1>8 DEF Sound, Held, Keeps
<1>10. new_pvd_info_request(t) = IF ~t.ra.prefix THEN f ELSE u BY <1>6 DEF new_pvd_info_request, f, u
<1>11. QED BY <1>1, <1>9, <1>10


LEMMA FetchKeeps ==
    ASSUME NEW o, NEW t, Sound(t, o), NEW e
    PROVE  LET u == rtadv_pvd_additional_info_schedule_fetch(t, e)
           IN  Sound(u, o) /\ Keeps(t, u) /\ u.renew = t.renew
<1> DEFINE c == PvDInfoContextFlush(t.pvd, TRUE)
           u == [t EXCEPT !.pvd = c]
<1>1. t \in ServiceType BY DEF Sound
<1>2. c \in Contexts BY <1>1, FlushedContext DEF ServiceType, Contexts
<1>3. [t EXCEPT !.pvd = PvDInfoContextFlush(@, TRUE)] = u BY <1>1 DEF ServiceType
<1> HIDE DEF c
<1>4. u \in ServiceType BY <1>1, <1>2 DEF ServiceType, Contexts
<1>5. Keeps(t, u) /\ u.use = t.use /\ u.clat_on = t.clat_on /\ u.clat = t.clat /\ u.renew = t.renew
  BY <1>1 DEF ServiceType, Keeps
<1> HIDE DEF u
<1>6. Sound(u, o) BY <1>4, <1>5 DEF Sound, Held
<1> DEFINE n == new_pvd_info_request(t)
<1>7. Sound(n, o) /\ Keeps(t, n) /\ n.renew = t.renew BY NewRequestKeeps
<1>8. Keeps(t, t) BY DEF Keeps
<1>9. rtadv_pvd_additional_info_schedule_fetch(t, e) \in {u, n, t}
  BY <1>3 DEF rtadv_pvd_additional_info_schedule_fetch
<1> HIDE DEF n
<1>10. QED BY <1>5, <1>6, <1>7, <1>8, <1>9

\* An allocation takes the first or the second address.
LEMMA Allocated ==
    ASSUME NEW use, NEW o \in 0..ClatCount,
           \A i \in Clat : use[i] = IF o = i THEN 1 ELSE 0
    PROVE  LET i == S_clat46_address_allocate(use)
           IN  i \in Clat /\ (i = o => ClatCount = 1)
<1> DEFINE free == {i \in Clat : use[i] = 0}
<1>0. ClatCount \in Nat \ {0} BY RtadvAssumption DEF RtadvAssumption
<1>1. ClatCount \in Nat /\ ClatCount >= 1 /\ 1 \in Clat BY <1>0 DEF Clat
<1>2. CASE free = {}
  <2>1. S_clat46_address_allocate(use) = 1 BY <1>2 DEF S_clat46_address_allocate
  <2>2. ClatCount >= 2 => 2 \in Clat BY <1>1 DEF Clat
  <2>3. ClatCount >= 2 => use[2] = 0 \/ use[1] = 0 BY <1>1, <2>2
  <2>4. QED BY <1>1, <1>2, <2>1, <2>2, <2>3
<1>3. CASE free # {}
  <2> DEFINE m == CHOOSE i \in free : \A j \in free : i <= j
             w == IF o = 1 THEN 2 ELSE 1
  <2>1. w \in free
    <3>1. CASE o = 1
      <4>1. ClatCount >= 2 BY <1>1, <1>3, <3>1 DEF Clat
      <4>2. QED BY <3>1, <4>1, <1>1 DEF Clat
    <3>2. CASE o # 1 BY <3>2, <1>1
    <3>3. QED BY <3>1, <3>2
  <2>2. \A j \in free : w <= j
    <3>1. SUFFICES ASSUME NEW j \in free, o = 1, j = 1 PROVE FALSE BY DEF Clat
    <3>2. use[j] = 1 BY <3>1, <1>1
    <3>3. QED BY <3>1, <3>2
  <2>3. m \in free BY <2>1, <2>2
  <2>4. S_clat46_address_allocate(use) = m BY <1>3 DEF S_clat46_address_allocate
  <2> HIDE DEF m
  <2>5. m \in Clat /\ use[m] = 0 BY <2>3
  <2>6. m # o BY <2>5
  <2>7. QED BY <2>4, <2>5, <2>6
<1>4. QED BY <1>2, <1>3

\* Taking a CLAT46 address keeps the table counted.
LEMMA SetClatKeeps ==
    ASSUME NEW o \in 0..ClatCount, NEW t, Sound(t, o), NEW e
    PROVE  LET u == rtadv_set_clat46_address(t, e)
           IN  Sound(u, o) /\ Keeps(t, u) /\ u.renew = t.renew /\ u.req = t.req
<1> DEFINE i == S_clat46_address_allocate(t.use)
           v == [t.use EXCEPT ![i] = @ + 1]
           u == [t EXCEPT !.clat = i, !.use = v, !.clat_on = TRUE]
<1>1. t \in ServiceType BY DEF Sound
<1>2. CASE t.clat_on \/ ~e.clat BY <1>2 DEF rtadv_set_clat46_address, Keeps
<1>3. CASE ~(t.clat_on \/ ~e.clat)
  <2>1. t.clat = 0 BY <1>3 DEF Sound, Held
  <2>2. \A j \in Clat : t.use[j] = IF o = j THEN 1 ELSE 0
    <3>1. \A j \in Clat : j # 0 BY DEF Clat
    <3>2. QED BY <2>1, <3>1 DEF Sound, Held
  <2>3. i \in Clat /\ (i = o => ClatCount = 1) BY <2>2, Allocated
  <2>4. i # 0 /\ i \in 0..ClatCount BY <2>3 DEF Clat
  <2>5. t.use \in [Clat -> Nat] BY <1>1 DEF ServiceType
  <2> HIDE DEF i
  <2>6. v \in [Clat -> Nat] BY <2>3, <2>5
  <2>7. \A j \in Clat : v[j] = (IF i = j THEN 1 ELSE 0) + (IF o = j THEN 1 ELSE 0)
    <3>1. SUFFICES ASSUME NEW j \in Clat
                   PROVE  v[j] = (IF i = j THEN 1 ELSE 0) + (IF o = j THEN 1 ELSE 0)
      OBVIOUS
    <3>2. v[j] = IF i = j THEN t.use[j] + 1 ELSE t.use[j] BY <2>3, <2>5
    <3>3. QED BY <2>2, <3>2
  <2>8. rtadv_set_clat46_address(t, e) = u BY <1>1, <1>3 DEF rtadv_set_clat46_address, ServiceType, i
  <2> HIDE DEF v
  <2>9. u \in ServiceType BY <1>1, <2>4, <2>6 DEF ServiceType
  <2>10. Keeps(t, u) /\ u.renew = t.renew /\ u.req = t.req /\ u.clat = i /\ u.use = v /\ u.clat_on = TRUE
    BY <1>1 DEF ServiceType, Keeps
  <2> HIDE DEF u
  <2>11. Held(u, o) BY <2>3, <2>4, <2>7, <2>10 DEF Held
  <2>12. Sound(u, o) BY <2>9, <2>10, <2>11 DEF Sound
  <2>13. QED BY <2>8, <2>10, <2>12
<1>4. QED BY <1>2, <1>3

\* What is left of the table when our address goes back.
LEMMA Released ==
    ASSUME NEW o \in 0..ClatCount, NEW t, Sound(t, o), t.clat # 0
    PROVE  LET v == S_clat46_address_release(t.use, t.clat)
           IN  v \in [Clat -> Nat] /\ \A i \in Clat : v[i] = IF o = i THEN 1 ELSE 0
<1> DEFINE c == t.clat
           v == S_clat46_address_release(t.use, c)
<1>0. ClatCount \in Nat \ {0} BY RtadvAssumption DEF RtadvAssumption
<1>1. t.use \in [Clat -> Nat] /\ c \in 0..ClatCount BY DEF Sound, ServiceType
<1>2. c \in Clat BY <1>0, <1>1 DEF Clat
<1>3. \A i \in Clat : t.use[i] = (IF c = i THEN 1 ELSE 0) + (IF o = i THEN 1 ELSE 0)
  BY DEF Sound, Held
<1> HIDE DEF c
<1>4. t.use[c] >= 1 /\ t.use[c] \in Nat /\ t.use[c] # 0 BY <1>2, <1>3
<1>5. v = [t.use EXCEPT ![c] = @ - 1] BY <1>4 DEF S_clat46_address_release
<1>6. v \in [Clat -> Nat] BY <1>1, <1>2, <1>4, <1>5
<1>7. ASSUME NEW i \in Clat PROVE v[i] = IF o = i THEN 1 ELSE 0
  <2>1. v[i] = IF i = c THEN t.use[i] - 1 ELSE t.use[i] BY <1>1, <1>2, <1>5
  <2>2. QED BY <1>3, <2>1
<1>8. QED BY <1>6, <1>7 DEF c

\* A service without CLAT46.
Freed(t, u, o) ==
    /\ u \in ServiceType /\ Keeps(t, u) /\ u.clat = 0
    /\ u.renew = t.renew /\ u.req = t.req /\ u.pub = t.pub /\ u.pref64 = t.pref64
    /\ \A i \in Clat : u.use[i] = IF o = i THEN 1 ELSE 0

\* Giving it back does too, but for the flag.
LEMMA RemoveOnly ==
    ASSUME NEW o \in 0..ClatCount, NEW t, Sound(t, o)
    PROVE  Freed(t, rtadv_remove_clat46_address_only(t), o)
<1> DEFINE v == S_clat46_address_release(t.use, t.clat)
           u == [t EXCEPT !.use = v, !.clat = 0]
<1>1. t \in ServiceType BY DEF Sound
<1>2. CASE t.clat = 0
  <2>1. \A i \in Clat : t.use[i] = (IF t.clat = i THEN 1 ELSE 0) + (IF o = i THEN 1 ELSE 0)
    BY DEF Sound, Held
  <2>2. \A i \in Clat : i # 0 BY DEF Clat
  <2>3. \A i \in Clat : t.use[i] = IF o = i THEN 1 ELSE 0 BY <1>2, <2>1, <2>2
  <2>4. rtadv_remove_clat46_address_only(t) = t BY <1>2 DEF rtadv_remove_clat46_address_only
  <2>5. QED BY <1>1, <1>2, <2>3, <2>4 DEF Freed, Keeps
<1>3. CASE t.clat # 0
  <2>1. v \in [Clat -> Nat] /\ \A i \in Clat : v[i] = IF o = i THEN 1 ELSE 0 BY <1>3, Released
  <2>2. rtadv_remove_clat46_address_only(t) = u BY <1>3 DEF rtadv_remove_clat46_address_only
  <2>3. 0 \in 0..ClatCount
    <3>1. ClatCount \in Nat \ {0} BY RtadvAssumption DEF RtadvAssumption
    <3>2. QED BY <3>1
  <2> HIDE DEF v
  <2>4. u \in ServiceType BY <1>1, <2>1, <2>3 DEF ServiceType
  <2>5. /\ Keeps(t, u) /\ u.clat = 0 /\ u.use = v
        /\ u.renew = t.renew /\ u.req = t.req /\ u.pub = t.pub /\ u.pref64 = t.pref64
    BY <1>1 DEF ServiceType, Keeps
  <2> HIDE DEF u
  <2>6. QED BY <2>1, <2>2, <2>4, <2>5 DEF Freed
<1>4. QED BY <1>2, <1>3

\* The interface gives up its address and CLAT46 with it.
LEMMA FreedSound ==
    ASSUME NEW o \in 0..ClatCount, NEW t, Sound(t, o), NEW w, Freed(t, w, o),
           NEW u, u \in ServiceType, u.clat = w.clat, u.use = w.use, u.clat_on = FALSE, u.renew = w.renew
    PROVE  Sound(u, o)
<1>1. \A i \in Clat : i # 0 BY DEF Clat
<1>2. u.clat = 0 /\ \A i \in Clat : u.use[i] = IF o = i THEN 1 ELSE 0 BY DEF Freed
<1>3. ~u.clat_on OBVIOUS
<1>4. \A i \in Clat : u.use[i] = (IF u.clat = i THEN 1 ELSE 0) + (IF o = i THEN 1 ELSE 0) BY <1>1, <1>2
<1>5. Held(u, o) BY ONLY <1>2, <1>3, <1>4 DEF Held
<1>6. QED BY <1>5 DEF Sound, Freed

LEMMA RemoveKeeps ==
    ASSUME NEW o \in 0..ClatCount, NEW t, Sound(t, o)
    PROVE  LET u == rtadv_remove_clat46_address(t)
           IN  /\ Sound(u, o) /\ Keeps(t, u) /\ u.renew = t.renew /\ u.clat = 0
               /\ u.req = t.req /\ u.pub = t.pub /\ u.pref64 = t.pref64
<1> DEFINE w == rtadv_remove_clat46_address_only(t)
           u == [w EXCEPT !.clat_on = FALSE]
<1>1. Freed(t, w, o) BY RemoveOnly
<1>2. rtadv_remove_clat46_address(t) = u BY DEF rtadv_remove_clat46_address
<1> HIDE DEF w
<1>3. w \in ServiceType BY <1>1 DEF Freed
<1>4. u \in ServiceType BY <1>3 DEF ServiceType
<1>5. /\ Keeps(w, u) /\ u.clat = w.clat /\ u.use = w.use /\ u.clat_on = FALSE /\ u.renew = w.renew
      /\ u.req = w.req /\ u.pub = w.pub /\ u.pref64 = w.pref64
  BY <1>3 DEF ServiceType, Keeps
<1> HIDE DEF u
<1>6. Sound(u, o) BY <1>1, <1>4, <1>5, FreedSound
<1>7. QED BY <1>1, <1>2, <1>5, <1>6 DEF Freed, Keeps

\* The service has given up.
Stopped(t) ==
    /\ t.st = "Inactive" /\ t.try = 0 /\ t.ra = NoRA /\ t.tm = NoTimer /\ t.rx = "none"
    /\ ~t.req /\ t.clat = 0 /\ ~t.pref64 /\ ~t.pub.on
SameLink(t, u) == u.run = t.run /\ u.link = t.link

\* rtadv_failed leaves nothing behind.
LEMMA FailedStops ==
    ASSUME NEW o \in 0..ClatCount, NEW t, Sound(t, o)
    PROVE  LET u == rtadv_failed(t)
           IN  Sound(u, o) /\ Stopped(u) /\ SameLink(t, u) /\ u.refused = t.refused
<1> DEFINE a == [rtadv_set_state(t, "Inactive") EXCEPT !.try = 0, !.ra = NoRA]
           b == rtadv_pvd_flush(a)
           c == rtadv_cancel_pending_events(b)
           n == rtadv_set_nat64_prefixlist(c, FALSE)
           w == rtadv_remove_clat46_address_only(n)
           u == [w EXCEPT !.pub = Unpublished, !.clat_on = FALSE, !.busy = FALSE]
<1>0. MaxRS \in Nat \ {0} BY RtadvAssumption DEF RtadvAssumption
<1>1. t \in ServiceType BY DEF Sound
<1>2. 0 \in 0..MaxRS + 2 BY <1>0
<1>3. a \in ServiceType BY <1>1, <1>2, NoRAKnown DEF ServiceType, rtadv_set_state
<1>4. /\ SameLink(t, a) /\ a.refused = t.refused /\ a.st = "Inactive" /\ a.try = 0 /\ a.ra = NoRA
      /\ a.renew = t.renew /\ a.clat = t.clat /\ a.clat_on = t.clat_on /\ a.use = t.use
  BY <1>1 DEF ServiceType, rtadv_set_state, SameLink
<1> HIDE DEF a
<1>5. Sound(a, o) BY <1>3, <1>4 DEF Sound, Held
<1>6. Sound(b, o) /\ Keeps(a, b) /\ ~b.req /\ b.renew = a.renew BY <1>5, PvDFlushKeeps
<1> HIDE DEF b
<1>7. b \in ServiceType BY <1>6 DEF Sound
<1>8. c \in ServiceType BY <1>7 DEF ServiceType, rtadv_cancel_pending_events, NoTimer
<1>9. /\ SameLink(b, c) /\ c.refused = b.refused /\ c.st = b.st /\ c.try = b.try /\ c.ra = b.ra /\ c.req = b.req
      /\ c.tm = NoTimer /\ c.rx = "none" /\ c.renew = b.renew
      /\ c.clat = b.clat /\ c.clat_on = b.clat_on /\ c.use = b.use
  BY <1>7 DEF ServiceType, rtadv_cancel_pending_events, SameLink
<1> HIDE DEF c
<1>10. Sound(c, o) BY <1>6, <1>8, <1>9 DEF Sound, Held
<1>11. c.ra = NoRA BY <1>4, <1>6, <1>9 DEF Keeps
<1>12. Sound(n, o) /\ KeepsMore(c, n) /\ ~n.pref64 BY <1>10, <1>11, Nat64Keeps
<1> HIDE DEF n
<1>13. Freed(n, w, o) BY <1>12, RemoveOnly
<1> HIDE DEF w
<1>14. w \in ServiceType BY <1>13 DEF Freed
<1>15. Unpublished \in [on : BOOLEAN, v6 : SUBSET {"auto", "dhcp"}, ra : BOOLEAN, pvd : Domain] /\ ~Unpublished.on
  BY DEF Unpublished, Domain
<1>16. u \in ServiceType BY <1>14, <1>15 DEF ServiceType
<1>17. /\ Keeps(w, u) /\ u.clat = w.clat /\ u.use = w.use /\ u.clat_on = FALSE /\ u.renew = w.renew
       /\ u.req = w.req /\ u.pub = Unpublished /\ u.pref64 = w.pref64
  BY <1>14 DEF ServiceType, Keeps
<1>18. rtadv_failed(t) = u BY DEF rtadv_failed, u, w, n, c, b, a
<1> HIDE DEF u
<1>19. Sound(u, o) BY <1>12, <1>13, <1>16, <1>17, FreedSound
<1>20. Stopped(u) BY <1>4, <1>6, <1>9, <1>12, <1>13, <1>15, <1>17 DEF Stopped, Keeps, KeepsMore, Freed
<1>21. SameLink(t, u) /\ u.refused = t.refused
  BY <1>4, <1>6, <1>9, <1>12, <1>13, <1>17 DEF SameLink, Keeps, KeepsMore, Freed
<1>22. QED BY <1>18, <1>19, <1>20, <1>21

\* Flushed prefixes and the DHCPv6 client are of no account.
LEMMA FlushKeeps ==
    ASSUME NEW o, NEW t, Sound(t, o)
    PROVE  LET u == inet6_flush_prefixes(t) IN Sound(u, o) /\ KeepsMore(t, u)
<1> DEFINE u == [t EXCEPT !.addr = "none"]
<1>1. t \in ServiceType BY DEF Sound
<1>2. u \in ServiceType BY <1>1 DEF ServiceType
<1>3. KeepsMore(t, u) /\ u.use = t.use /\ u.clat_on = t.clat_on BY <1>1 DEF ServiceType, KeepsMore, Keeps
<1> HIDE DEF u
<1>4. Sound(u, o) BY <1>2, <1>3 DEF Sound, Held, KeepsMore
<1>5. QED BY <1>3, <1>4 DEF inet6_flush_prefixes, u

LEMMA StopClientKeeps ==
    ASSUME NEW o, NEW t, Sound(t, o)
    PROVE  LET u == DHCPv6ClientStop(t) IN Sound(u, o) /\ KeepsMore(t, u) /\ u.pref64 = t.pref64
<1> DEFINE u == [t EXCEPT !.d = [mode |-> "None", active |-> FALSE, info |-> FALSE, ip |-> FALSE]]
<1>1. t \in ServiceType BY DEF Sound
<1>2. u \in ServiceType BY <1>1 DEF ServiceType
<1>3. KeepsMore(t, u) /\ u.use = t.use /\ u.clat_on = t.clat_on /\ u.pref64 = t.pref64
  BY <1>1 DEF ServiceType, KeepsMore, Keeps
<1> HIDE DEF u
<1>4. Sound(u, o) BY <1>2, <1>3 DEF Sound, Held, KeepsMore
<1>5. QED BY <1>3, <1>4 DEF DHCPv6ClientStop, u

LEMMA StartClientKeeps ==
    ASSUME NEW o, NEW t, Sound(t, o), NEW m \in {"None", "Stateless", "Address"}, NEW e
    PROVE  LET u == DHCPv6ClientStart(t, m, e) IN Sound(u, o) /\ KeepsMore(t, u)
<1> DEFINE i == m = "Address" /\ e.keep
           u == [t EXCEPT !.d = [mode |-> m, active |-> TRUE, info |-> i, ip |-> FALSE]]
<1>1. t \in ServiceType BY DEF Sound
<1>0. i \in BOOLEAN OBVIOUS
<1>5. DHCPv6ClientStart(t, m, e) = u BY DEF DHCPv6ClientStart
<1> HIDE DEF i
<1>2. u \in ServiceType BY <1>0, <1>1 DEF ServiceType
<1>3. KeepsMore(t, u) /\ u.use = t.use /\ u.clat_on = t.clat_on BY <1>1 DEF ServiceType, KeepsMore, Keeps
<1> HIDE DEF u
<1>4. Sound(u, o) BY <1>2, <1>3 DEF Sound, Held, KeepsMore
<1>6. QED BY <1>3, <1>4, <1>5

\* Nor do rtadv_inactive and rtadv_flush.
LEMMA InactiveStops ==
    ASSUME NEW o \in 0..ClatCount, NEW t, Sound(t, o)
    PROVE  LET u == rtadv_inactive(t)
           IN  Sound(u, o) /\ Stopped(u) /\ SameLink(t, u) /\ u.refused = t.refused
<1> DEFINE f == inet6_flush_prefixes(t)
<1>1. Sound(f, o) /\ KeepsMore(t, f) BY FlushKeeps
<1>2. rtadv_inactive(t) = rtadv_failed(f) BY DEF rtadv_inactive
<1> HIDE DEF f
<1> DEFINE u == rtadv_failed(f)
<1>3. Sound(u, o) /\ Stopped(u) /\ SameLink(f, u) /\ u.refused = f.refused BY <1>1, FailedStops
<1> HIDE DEF u
<1>4. SameLink(t, u) /\ u.refused = t.refused BY <1>1, <1>3 DEF SameLink, KeepsMore, Keeps
<1>5. QED BY <1>2, <1>3, <1>4 DEF u

LEMMA FlushStops ==
    ASSUME NEW o \in 0..ClatCount, NEW t, Sound(t, o)
    PROVE  LET u == rtadv_flush(t)
           IN  Sound(u, o) /\ Stopped(u) /\ SameLink(t, u) /\ u.refused = t.refused
<1> DEFINE f == inet6_flush_prefixes(t)
           g == DHCPv6ClientStop(f)
<1>1. Sound(f, o) /\ KeepsMore(t, f) BY FlushKeeps
<1>2. rtadv_flush(t) = rtadv_failed(g) BY DEF rtadv_flush
<1> HIDE DEF f
<1>3. Sound(g, o) /\ KeepsMore(f, g) BY <1>1, StopClientKeeps
<1> HIDE DEF g
<1> DEFINE u == rtadv_failed(g)
<1>4. Sound(u, o) /\ Stopped(u) /\ SameLink(g, u) /\ u.refused = g.refused BY <1>3, FailedStops
<1> HIDE DEF u
<1>5. SameLink(t, u) /\ u.refused = t.refused BY <1>1, <1>3, <1>4 DEF SameLink, KeepsMore, Keeps
<1>6. QED BY <1>2, <1>4, <1>5 DEF u

\* A service that hears routers, unless the kernel refused to; one that waits
\* to start again; one that has given up.
Hears(t) == t.refused \/ (t.rx # "none" /\ t.st # "Inactive")
Restarts(t) == t.st # "Inactive" /\ t.tm.fn = "restart" /\ t.ra = NoRA
Gone(t) ==
    /\ t.st = "Inactive" /\ t.try = 0 /\ t.ra = NoRA /\ t.rx = "none" /\ ~t.req
    /\ t.tm.fn \in {"none", "start"} /\ t.clat = 0 /\ ~t.pref64 /\ (Cellular \/ ~t.pub.on)
Live(t) == Hears(t) \/ Restarts(t) \/ Gone(t)
Awake(t) == t.refused \/ t.st # "Inactive"

\* A stopped service has given up.
LEMMA StoppedGone == ASSUME NEW t, Stopped(t) PROVE Gone(t)
  BY DEF Stopped, Gone, NoTimer

\* A timer, the count of tries and the busy flag are of no account to the rest.
TimerType == [fn : {"none", "start", "solicit", "acquired", "restart"}, at : {"now", "dns", "pvd"}]
Same(t, u) ==
    /\ SameLink(t, u) /\ u.refused = t.refused /\ u.st = t.st /\ u.rx = t.rx
    /\ u.ra = t.ra /\ u.renew = t.renew

LEMMA TimerKeeps ==
    ASSUME NEW o, NEW t, Sound(t, o), NEW m \in TimerType
    PROVE  LET u == [t EXCEPT !.tm = m]
           IN  /\ Sound(u, o) /\ Same(t, u) /\ u.tm = m /\ u.try = t.try /\ u.req = t.req
               /\ u.clat = t.clat /\ u.pref64 = t.pref64 /\ u.pub = t.pub
<1> DEFINE u == [t EXCEPT !.tm = m]
<1>1. t \in ServiceType BY DEF Sound
<1>2. u \in ServiceType BY <1>1 DEF ServiceType, TimerType
<1>3. /\ Same(t, u) /\ u.tm = m /\ u.try = t.try /\ u.use = t.use /\ u.clat = t.clat
      /\ u.clat_on = t.clat_on /\ u.req = t.req /\ u.pref64 = t.pref64 /\ u.pub = t.pub
  BY <1>1 DEF ServiceType, Same, SameLink
<1> HIDE DEF u
<1>4. Sound(u, o) BY <1>2, <1>3 DEF Sound, Held, Same
<1>5. QED BY <1>3, <1>4 DEF u

LEMMA TryKeeps ==
    ASSUME NEW o, NEW t, Sound(t, o), NEW n \in 0..MaxRS + 2, NEW b \in BOOLEAN
    PROVE  LET u == [t EXCEPT !.try = n, !.busy = b]
           IN  Sound(u, o) /\ Same(t, u) /\ u.tm = t.tm
<1> DEFINE u == [t EXCEPT !.try = n, !.busy = b]
<1>1. t \in ServiceType BY DEF Sound
<1>2. u \in ServiceType BY <1>1 DEF ServiceType
<1>3. Same(t, u) /\ u.tm = t.tm /\ u.use = t.use /\ u.clat = t.clat /\ u.clat_on = t.clat_on
  BY <1>1 DEF ServiceType, Same, SameLink
<1> HIDE DEF u
<1>4. Sound(u, o) BY <1>2, <1>3 DEF Sound, Held, Same
<1>5. QED BY <1>3, <1>4 DEF u

\* The wait for an answer goes on, or the link is gone and all is stopped.
LEMMA SolicitTimeout ==
    ASSUME NEW o \in 0..ClatCount, NEW t, Sound(t, o)
    PROVE  LET u == rtadv_solicit_timeout(t)
           IN  /\ Sound(u, o) /\ SameLink(t, u) /\ u.refused = t.refused
               /\ (Stopped(u) /\ ~u.link /\ t.try # 0) \/ Same(t, u)
<1> DEFINE n == t.try + 1
           x == IF n > MaxRS + 2 THEN t.try ELSE n
           b == t.busy /\ ~(n > 1 /\ k.v4)
           m == [fn |-> "solicit", at |-> "now"]
           y == [t EXCEPT !.try = x, !.busy = b]
           v == [y EXCEPT !.tm = m]
           c == y.busy /\ n # MaxRS + 2
           w == [y EXCEPT !.busy = c]
<1>0. MaxRS \in Nat \ {0} BY RtadvAssumption DEF RtadvAssumption
<1>1. t \in ServiceType BY DEF Sound
<1>2. t.try \in 0..MaxRS + 2 BY <1>1 DEF ServiceType
<1>3. x \in 0..MaxRS + 2 BY <1>0, <1>2
<1>4. b \in BOOLEAN /\ c \in BOOLEAN OBVIOUS
<1>5. m \in TimerType BY DEF TimerType
<1>6. t.try # 0 => n > 1 BY <1>2
<1>7. CASE n > 1 /\ ~t.link
  <2> DEFINE u == rtadv_inactive(t)
  <2>1. Sound(u, o) /\ Stopped(u) /\ SameLink(t, u) /\ u.refused = t.refused BY InactiveStops
  <2>2. rtadv_solicit_timeout(t) = u BY <1>7 DEF rtadv_solicit_timeout
  <2>3. t.try # 0 BY <1>2, <1>7
  <2> HIDE DEF u
  <2>4. QED BY <1>7, <2>1, <2>2, <2>3 DEF SameLink
<1>8. CASE ~(n > 1 /\ ~t.link) /\ n <= MaxRS + 1
  <2>1. rtadv_solicit_timeout(t) = v BY <1>8 DEF rtadv_solicit_timeout, timer_set
  <2> HIDE DEF x, b, m
  <2>2. Sound(y, o) /\ Same(t, y) BY <1>3, <1>4, TryKeeps
  <2> HIDE DEF y
  <2>3. Sound(v, o) /\ Same(y, v) BY <1>5, <2>2, TimerKeeps
  <2> HIDE DEF v
  <2>4. QED BY <2>1, <2>2, <2>3 DEF Same, SameLink
<1>9. CASE ~(n > 1 /\ ~t.link) /\ ~(n <= MaxRS + 1)
  <2>1. rtadv_solicit_timeout(t) = w BY <1>9 DEF rtadv_solicit_timeout
  <2> HIDE DEF x, b
  <2>2. Sound(y, o) /\ Same(t, y) BY <1>3, <1>4, TryKeeps
  <2> HIDE DEF y
  <2>3. y \in ServiceType BY <2>2 DEF Sound
  <2> HIDE DEF c
  <2>4. w \in ServiceType BY <1>4, <2>3 DEF ServiceType
  <2>5. Same(y, w) /\ w.use = y.use /\ w.clat = y.clat /\ w.clat_on = y.clat_on
    BY <2>3 DEF ServiceType, Same, SameLink
  <2> HIDE DEF w
  <2>6. Sound(w, o) BY <2>2, <2>4, <2>5 DEF Sound, Held, Same
  <2>7. QED BY <2>1, <2>2, <2>5, <2>6 DEF Same, SameLink
<1>10. QED BY <1>7, <1>8, <1>9

\* A start hears routers, unless the kernel refuses it.
LEMMA SolicitStart ==
    ASSUME NEW o \in 0..ClatCount, NEW t, Sound(t, o), NEW e
    PROVE  LET u == rtadv_solicit_start(t, e)
           IN  Sound(u, o) /\ SameLink(t, u) /\ (u.refused \/ (u.rx = "solicit" /\ u.st = "Solicit"))
<1> DEFINE b == [rtadv_set_state(t, "Solicit") EXCEPT !.plat = "unknown", !.busy = TRUE, !.report = FALSE]
           c == rtadv_remove_clat46_address(b)
           d == rtadv_cancel_pending_events(c)
           u == [d EXCEPT !.rx = "solicit"]
           f == rtadv_failed(u)
           g == [f EXCEPT !.refused = TRUE]
           v == [u EXCEPT !.try = 0, !.ra = NoRA, !.auto = FALSE, !.refused = FALSE]
           w == rtadv_solicit_timeout(v)
<1>0. MaxRS \in Nat \ {0} BY RtadvAssumption DEF RtadvAssumption
<1>1. t \in ServiceType BY DEF Sound
<1>2. b \in ServiceType BY <1>1 DEF ServiceType, rtadv_set_state
<1>3. /\ SameLink(t, b) /\ b.st = "Solicit" /\ b.renew = t.renew
      /\ b.use = t.use /\ b.clat = t.clat /\ b.clat_on = t.clat_on
  BY <1>1 DEF ServiceType, rtadv_set_state, SameLink
<1> HIDE DEF b
<1>4. Sound(b, o) BY <1>2, <1>3 DEF Sound, Held
<1>5. Sound(c, o) /\ Keeps(b, c) BY <1>4, RemoveKeeps
<1> HIDE DEF c
<1>6. c \in ServiceType BY <1>5 DEF Sound
<1>7. u \in ServiceType BY <1>6 DEF ServiceType, rtadv_cancel_pending_events, NoTimer
<1>8. /\ SameLink(c, u) /\ u.st = c.st /\ u.rx = "solicit" /\ u.renew = c.renew
      /\ u.use = c.use /\ u.clat = c.clat /\ u.clat_on = c.clat_on
  BY <1>6 DEF ServiceType, rtadv_cancel_pending_events, SameLink
<1>9. rtadv_solicit_start(t, e) = IF ~e.enable THEN g ELSE w BY DEF rtadv_solicit_start, b, c
<1> HIDE DEF d, u
<1>10. Sound(u, o) BY <1>5, <1>7, <1>8 DEF Sound, Held
<1>11. SameLink(t, u) /\ u.st = "Solicit" BY <1>3, <1>5, <1>8 DEF SameLink, Keeps
<1>12. Sound(g, o) /\ SameLink(t, g) /\ g.refused
  <2>1. Sound(f, o) /\ SameLink(u, f) BY <1>10, FailedStops
  <2> HIDE DEF f
  <2>2. f \in ServiceType BY <2>1 DEF Sound
  <2>3. g \in ServiceType BY <2>2 DEF ServiceType
  <2>4. /\ SameLink(f, g) /\ g.refused = TRUE /\ g.renew = f.renew
        /\ g.use = f.use /\ g.clat = f.clat /\ g.clat_on = f.clat_on
    BY <2>2 DEF ServiceType, SameLink
  <2> HIDE DEF g
  <2>5. Sound(g, o) BY <2>1, <2>3, <2>4 DEF Sound, Held
  <2>6. QED BY <1>11, <2>1, <2>4, <2>5 DEF SameLink
<1>13. Sound(w, o) /\ SameLink(t, w) /\ w.rx = "solicit" /\ w.st = "Solicit"
  <2>1. 0 \in 0..MaxRS + 2 BY <1>0
  <2>2. v \in ServiceType BY <1>7, <2>1, NoRAKnown DEF ServiceType
  <2>3. /\ SameLink(u, v) /\ v.st = u.st /\ v.rx = u.rx /\ v.try = 0 /\ v.renew = u.renew
        /\ v.use = u.use /\ v.clat = u.clat /\ v.clat_on = u.clat_on
    BY <1>7 DEF ServiceType, SameLink
  <2> HIDE DEF v
  <2>4. Sound(v, o) BY <1>10, <2>2, <2>3 DEF Sound, Held
  <2>5. Sound(w, o) /\ SameLink(v, w) /\ Same(v, w) BY <2>3, <2>4, SolicitTimeout
  <2> HIDE DEF w
  <2>6. QED BY <1>8, <1>11, <2>3, <2>5 DEF Same, SameLink
<1> HIDE DEF f, g, v, w
<1>14. QED BY <1>9, <1>12, <1>13

\* A restart waits on its timer and goes on hearing.
LEMMA RestartStart ==
    ASSUME NEW o, NEW t, Sound(t, o)
    PROVE  LET u == rtadv_restart_start(t)
           IN  /\ Sound(u, o) /\ SameLink(t, u) /\ u.refused = t.refused /\ u.st = "Restart"
               /\ u.tm.fn = "restart" /\ u.ra = t.ra /\ u.rx = t.rx
<1> DEFINE a == rtadv_set_state(t, "Restart")
           m == [fn |-> "restart", at |-> "now"]
           u == [a EXCEPT !.tm = m]
<1>1. t \in ServiceType BY DEF Sound
<1>2. a \in ServiceType BY <1>1 DEF ServiceType, rtadv_set_state
<1>3. /\ SameLink(t, a) /\ a.refused = t.refused /\ a.st = "Restart" /\ a.ra = t.ra /\ a.rx = t.rx
      /\ a.renew = t.renew /\ a.use = t.use /\ a.clat = t.clat /\ a.clat_on = t.clat_on
  BY <1>1 DEF ServiceType, rtadv_set_state, SameLink
<1>4. rtadv_restart_start(t) = u BY DEF rtadv_restart_start, timer_set
<1> HIDE DEF a
<1>5. Sound(a, o) BY <1>2, <1>3 DEF Sound, Held
<1>6. m \in TimerType /\ m.fn = "restart" BY DEF TimerType
<1> HIDE DEF m
<1>7. Sound(u, o) /\ Same(a, u) /\ u.tm = m BY <1>5, <1>6, TimerKeeps
<1> HIDE DEF u
<1>8. QED BY <1>3, <1>4, <1>6, <1>7 DEF Same, SameLink

\* Reports change nothing.
LEMMA ReportKeeps ==
    ASSUME NEW o, NEW t, Sound(t, o), NEW b \in BOOLEAN
    PROVE  LET u == rtadv_submit_awd_report(t, b) IN Sound(u, o) /\ KeepsMore(t, u) /\ u.pref64 = t.pref64
<1> DEFINE u == [t EXCEPT !.report = b]
<1>1. t \in ServiceType BY DEF Sound
<1>2. u \in ServiceType BY <1>1 DEF ServiceType
<1>3. KeepsMore(t, u) /\ u.use = t.use /\ u.clat_on = t.clat_on /\ u.pref64 = t.pref64
  BY <1>1 DEF ServiceType, KeepsMore, Keeps
<1> HIDE DEF u
<1>4. Sound(u, o) BY <1>2, <1>3 DEF Sound, Held, KeepsMore
<1>5. rtadv_submit_awd_report(t, b) \in {t, u} BY DEF rtadv_submit_awd_report, u
<1>6. KeepsMore(t, t) BY DEF KeepsMore, Keeps
<1>7. QED BY <1>3, <1>4, <1>5, <1>6

\* The decision on CLAT46 keeps the table counted.
LEMMA ClatDecisionKeeps ==
    ASSUME NEW o \in 0..ClatCount, NEW t, Sound(t, o), NEW e
    PROVE  LET u == ClatDecision(t, e)
           IN  Sound(u, o) /\ Keeps(t, u) /\ u.renew = t.renew /\ u.req = t.req
<1> DEFINE m == rtadv_set_nat64_prefixlist(t, TRUE)
           n == IF t.ra.pref64 THEN m ELSE t
           g == rtadv_set_nat64_prefixlist(n, FALSE)
           x == rtadv_set_clat46_address(n, e)
           y == rtadv_remove_clat46_address(g)
<1>1. Sound(m, o) /\ KeepsMore(t, m) BY Nat64Keeps
<1>2. ClatDecision(t, e) \in {x, y, g} BY DEF ClatDecision
<1> HIDE DEF m
<1>3. Sound(n, o) /\ KeepsMore(t, n) BY <1>1 DEF KeepsMore, Keeps
<1> HIDE DEF n
<1>4. Sound(g, o) /\ KeepsMore(n, g) BY <1>3, Nat64Keeps
<1> HIDE DEF g
<1>5. Sound(x, o) /\ Keeps(n, x) /\ x.renew = n.renew /\ x.req = n.req BY <1>3, SetClatKeeps
<1>6. Sound(y, o) /\ Keeps(g, y) /\ y.renew = g.renew /\ y.req = g.req BY <1>4, RemoveKeeps
<1> HIDE DEF x, y
<1>7. QED BY <1>2, <1>3, <1>4, <1>5, <1>6 DEF KeepsMore, Keeps

\* The last part of Publish, when there are addresses to publish.
Advertised(t, e) ==
    LET list == (IF t.addr = "ready" THEN {"auto"} ELSE {}) \cup (IF t.d.ip THEN {"dhcp"} ELSE {})
        a == [t EXCEPT !.auto = t.addr # "none"]
        c == IF t.ra = NoRA THEN a ELSE ClatDecision(a, e)
        p == [c EXCEPT !.pub = [on |-> TRUE, v6 |-> list, ra |-> t.ra # NoRA,
                                pvd |-> IF t.ra # NoRA /\ t.pvd.ok THEN t.pvd.id ELSE ""]]
        q == IF t.ra = NoRA THEN p
             ELSE [rtadv_submit_awd_success_report(p) EXCEPT !.busy = @ /\ t.d.active]
    IN  [q EXCEPT !.renew = FALSE]

\* A publication leaves the state as it was.
LEMMA AdvertisedKeeps ==
    ASSUME NEW o \in 0..ClatCount, NEW t, Sound(t, o), NEW e
    PROVE  LET u == Advertised(t, e)
           IN  /\ Sound(u, o) /\ Keeps(t, u)
               /\ t.ra = NoRA => u.req = t.req /\ u.clat = t.clat /\ u.pref64 = t.pref64
<1> DEFINE list == (IF t.addr = "ready" THEN {"auto"} ELSE {}) \cup (IF t.d.ip THEN {"dhcp"} ELSE {})
           a == [t EXCEPT !.auto = t.addr # "none"]
           cd == ClatDecision(a, e)
           c == IF t.ra = NoRA THEN a ELSE cd
           name == IF t.ra # NoRA /\ t.pvd.ok THEN t.pvd.id ELSE ""
           pb == [on |-> TRUE, v6 |-> list, ra |-> t.ra # NoRA, pvd |-> name]
           p == [c EXCEPT !.pub = pb]
           rp == rtadv_submit_awd_success_report(p)
           q == IF t.ra = NoRA THEN p ELSE [rp EXCEPT !.busy = @ /\ t.d.active]
           u == [q EXCEPT !.renew = FALSE]
           Like(x, y) == Sound(y, o) /\ Keeps(x, y) /\ (t.ra = NoRA => y.req = x.req /\ y.clat = x.clat /\ y.pref64 = x.pref64)
<1>1. t \in ServiceType BY DEF Sound
<1>2. Like(t, a)
  <2>1. a \in ServiceType BY <1>1 DEF ServiceType
  <2>2. /\ Keeps(t, a) /\ a.renew = t.renew /\ a.use = t.use /\ a.clat = t.clat /\ a.clat_on = t.clat_on
        /\ a.req = t.req /\ a.pref64 = t.pref64
    BY <1>1 DEF ServiceType, Keeps
  <2> HIDE DEF a
  <2>3. Sound(a, o) BY <2>1, <2>2 DEF Sound, Held
  <2>4. QED BY <2>2, <2>3
<1>3. name \in Domain
  <2>1. t.pvd \in Contexts BY <1>1 DEF ServiceType, Contexts
  <2>2. t.pvd.id \in Domain BY <2>1 DEF Contexts
  <2>3. "" \in Domain BY DEF Domain
  <2>4. QED BY <2>2, <2>3
<1>4. list \in SUBSET {"auto", "dhcp"} OBVIOUS
<1>5. Advertised(t, e) = u BY DEF Advertised
<1> HIDE DEF a, list, name
<1>6. Like(t, c)
  <2>1. Sound(cd, o) /\ Keeps(a, cd) BY <1>2, ClatDecisionKeeps
  <2> HIDE DEF cd
  <2>2. QED BY <1>2, <2>1 DEF Keeps
<1>7. pb \in [on : BOOLEAN, v6 : SUBSET {"auto", "dhcp"}, ra : BOOLEAN, pvd : Domain] BY <1>3, <1>4
<1> HIDE DEF cd, c, pb
<1>8. c \in ServiceType BY <1>6 DEF Sound
<1>9. Like(t, p)
  <2>1. p \in ServiceType BY <1>7, <1>8 DEF ServiceType
  <2>2. /\ Keeps(c, p) /\ p.renew = c.renew /\ p.use = c.use /\ p.clat = c.clat /\ p.clat_on = c.clat_on
        /\ p.req = c.req /\ p.pref64 = c.pref64
    BY <1>8 DEF ServiceType, Keeps
  <2> HIDE DEF p
  <2>3. Sound(p, o) BY <1>6, <2>1, <2>2 DEF Sound, Held
  <2>4. QED BY <1>6, <2>2, <2>3 DEF Keeps
<1> HIDE DEF p
<1>10. Like(t, q)
  <2>1. CASE t.ra = NoRA BY <1>9, <2>1
  <2>2. CASE t.ra # NoRA
    <3> DEFINE r == rtadv_submit_awd_report(p, TRUE)
               b == rp.busy /\ t.d.active
               z == [rp EXCEPT !.busy = b]
    <3>1. Sound(r, o) /\ KeepsMore(p, r) BY <1>9, ReportKeeps
    <3>2. rp \in {p, r} BY DEF rtadv_submit_awd_success_report
    <3>3. q = z BY <2>2
    <3> HIDE DEF r, rp
    <3>4. Sound(rp, o) /\ Keeps(p, rp) BY <1>9, <3>1, <3>2 DEF KeepsMore, Keeps
    <3>5. rp \in ServiceType /\ b \in BOOLEAN BY <3>4 DEF Sound
    <3> HIDE DEF b
    <3>6. z \in ServiceType BY <3>5 DEF ServiceType
    <3>7. Keeps(rp, z) /\ z.renew = rp.renew /\ z.use = rp.use /\ z.clat = rp.clat /\ z.clat_on = rp.clat_on
      BY <3>5 DEF ServiceType, Keeps
    <3> HIDE DEF z, q
    <3>8. Sound(z, o) BY <3>4, <3>6, <3>7 DEF Sound, Held
    <3>9. QED BY <1>9, <2>2, <3>3, <3>4, <3>7, <3>8 DEF Keeps
  <2>3. QED BY <2>1, <2>2
<1> HIDE DEF q
<1>11. q \in ServiceType BY <1>10 DEF Sound
<1>12. u \in ServiceType BY <1>11 DEF ServiceType
<1>13. /\ Keeps(q, u) /\ u.renew = FALSE /\ u.use = q.use /\ u.clat = q.clat /\ u.clat_on = q.clat_on
       /\ u.req = q.req /\ u.pref64 = q.pref64
  BY <1>11 DEF ServiceType, Keeps
<1> HIDE DEF u
<1>14. Sound(u, o) BY <1>10, <1>12, <1>13 DEF Sound, Held
<1>15. QED BY <1>5, <1>10, <1>13, <1>14 DEF Keeps

\* What a handler of an event promises: the service stays sound and alive,
\* and one that hears or is awake does not stop to.
Good(t, u, o) ==
    /\ Sound(u, o) /\ SameLink(t, u) /\ Live(u)
    /\ (Hears(t) => Hears(u)) /\ (Awake(t) => Awake(u))

\* Publish may restart a service; it never stops one.
LEMMA PublishGood ==
    ASSUME NEW o \in 0..ClatCount, NEW t, Sound(t, o), Live(t), Gone(t) => Cellular, NEW e
    PROVE  Good(t, Publish(t, e), o)
<1> DEFINE r == rtadv_submit_awd_report(t, FALSE)
           x == rtadv_restart_start(r)
           y == Advertised(t, e)
<1>1. Publish(t, e) \in {x, y, t} BY DEF Publish, Advertised
<1>2. Good(t, t, o) BY DEF Good, SameLink
<1>3. Good(t, x, o)
  <2>1. Sound(r, o) /\ KeepsMore(t, r) BY ReportKeeps
  <2> HIDE DEF r
  <2>2. /\ Sound(x, o) /\ SameLink(r, x) /\ x.refused = r.refused /\ x.st = "Restart"
        /\ x.tm.fn = "restart" /\ x.ra = r.ra /\ x.rx = r.rx
    BY <2>1, RestartStart
  <2> HIDE DEF x
  <2>3. x.refused = t.refused /\ x.ra = t.ra /\ x.rx = t.rx /\ SameLink(t, x)
    BY <2>1, <2>2 DEF KeepsMore, Keeps, SameLink
  <2>4. Live(x) BY <2>2, <2>3 DEF Live, Hears, Restarts, Gone
  <2>5. QED BY <2>2, <2>3, <2>4 DEF Good, Hears, Awake
<1>4. Good(t, y, o)
  <2>1. Sound(y, o) /\ Keeps(t, y) /\ (t.ra = NoRA => y.req = t.req /\ y.clat = t.clat /\ y.pref64 = t.pref64)
    BY AdvertisedKeeps
  <2> HIDE DEF y
  <2>2. Hears(t) => Hears(y) BY <2>1 DEF Keeps, Hears
  <2>3. Restarts(t) => Restarts(y) BY <2>1 DEF Keeps, Restarts
  <2>4. Gone(t) => Gone(y) BY <2>1 DEF Keeps, Gone
  <2>5. QED BY <2>1, <2>2, <2>3, <2>4 DEF Good, Live, Keeps, SameLink, Awake
<1> HIDE DEF x, y
<1>5. QED BY <1>1, <1>2, <1>3, <1>4

\* An address that is ready wakes an inactive service on an active link.
LEMMA AddressChangedGood ==
    ASSUME NEW o \in 0..ClatCount, NEW t, Sound(t, o), Live(t), NEW e
    PROVE  LET u == rtadv_address_changed_common(t, e)
           IN  Good(t, u, o) /\ (t.link /\ k.ll = "ready" => Awake(u))
<1> DEFINE a == rtadv_solicit_start(t, e)
           u == IF t.try = 0 /\ t.link THEN a ELSE t
           v == rtadv_address_changed_common(t, e)
           p == Publish(u, e)
<1>1. Good(t, t, o) BY DEF Good, SameLink
<1>2. Sound(a, o) /\ SameLink(t, a) /\ Hears(a) /\ Awake(a)
  <2>1. Sound(a, o) /\ SameLink(t, a) /\ (a.refused \/ (a.rx = "solicit" /\ a.st = "Solicit"))
    BY SolicitStart
  <2> HIDE DEF a
  <2>2. QED BY <2>1 DEF Hears, Awake
<1>3. v = IF k.ll # "ready" THEN t ELSE IF t.try = 0 /\ ~u.renew THEN u ELSE p
  BY DEF rtadv_address_changed_common
<1> HIDE DEF a
<1>4. Good(t, a, o) BY <1>2 DEF Good, Live
<1>5. Good(t, u, o) BY <1>1, <1>4
<1>6. t.link => Awake(u)
  <2>1. CASE t.try = 0 BY <1>2, <2>1
  <2>2. CASE t.try # 0 BY <2>2 DEF Live, Hears, Restarts, Gone, Awake
  <2>3. QED BY <2>1, <2>2
<1>7. ASSUME ~(t.try = 0 /\ ~u.renew) PROVE Gone(u) => Cellular
  <2>1. CASE t.try # 0 BY <2>1 DEF Gone
  <2>2. CASE u.renew BY <1>5, <2>2 DEF Good, Sound
  <2>3. QED BY <1>7, <2>1, <2>2
<1> HIDE DEF u, v
<1>8. ASSUME ~(t.try = 0 /\ ~u.renew) PROVE Good(u, p, o)
  <2>1. Sound(u, o) /\ Live(u) BY <1>5 DEF Good
  <2>2. QED BY <1>7, <1>8, <2>1, PublishGood
<1> HIDE DEF p
<1>9. ASSUME Good(u, p, o) PROVE Good(t, p, o) /\ (t.link => Awake(p))
  BY <1>5, <1>6, <1>9 DEF Good, SameLink
<1>10. QED BY <1>1, <1>3, <1>5, <1>6, <1>8, <1>9 DEF v

\* A handler of a service that hears routers.
Heard(t, u, o) == Sound(u, o) /\ SameLink(t, u) /\ Hears(u)

\* The steps of a handler that hears go on hearing.
LEMMA AddressChangedHeard ==
    ASSUME NEW o \in 0..ClatCount, NEW t, NEW u, Heard(t, u, o), NEW e
    PROVE  Heard(t, rtadv_address_changed(u, e), o)
<1> DEFINE v == rtadv_address_changed_common(u, e)
<1>1. Sound(u, o) /\ Live(u) /\ Hears(u) BY DEF Heard, Live
<1>2. Good(u, v, o) BY <1>1, AddressChangedGood
<1> HIDE DEF v
<1>3. Heard(t, v, o) BY <1>1, <1>2 DEF Good, Heard, SameLink
<1>4. QED BY <1>3 DEF rtadv_address_changed, v

LEMMA FetchHeard ==
    ASSUME NEW o, NEW t, NEW u, Heard(t, u, o), NEW e
    PROVE  Heard(t, rtadv_pvd_additional_info_schedule_fetch(u, e), o)
<1> DEFINE v == rtadv_pvd_additional_info_schedule_fetch(u, e)
<1>1. Sound(u, o) BY DEF Heard
<1>2. Sound(v, o) /\ Keeps(u, v) BY <1>1, FetchKeeps
<1> HIDE DEF v
<1>3. Heard(t, v, o) BY <1>2 DEF Heard, Keeps, SameLink, Hears
<1>4. QED BY <1>3 DEF v

LEMMA ExpirationHeard ==
    ASSUME NEW o, NEW t, NEW u, Heard(t, u, o), NEW ra
    PROVE  Heard(t, SetExpiration(u, ra), o)
<1> DEFINE at == IF u.pvd.ok /\ u.pvd.exp \in {"before", "past"} THEN "pvd" ELSE "dns"
           m == [fn |-> "acquired", at |-> at]
           v == [u EXCEPT !.tm = m]
<1>1. SetExpiration(u, ra) \in {u, v} BY DEF SetExpiration, timer_set
<1>2. m \in TimerType BY DEF TimerType
<1> HIDE DEF m
<1>3. Sound(u, o) BY DEF Heard
<1>4. Sound(v, o) /\ Same(u, v) BY <1>2, <1>3, TimerKeeps
<1> HIDE DEF v
<1>5. Heard(t, v, o) BY <1>4 DEF Heard, Same, SameLink, Hears
<1>6. QED BY <1>1, <1>5

LEMMA KickHeard ==
    ASSUME NEW o, NEW t, NEW u, Heard(t, u, o), NEW e
    PROVE  Heard(t, KickDHCPv6(u, e), o)
<1> DEFINE p == DHCPv6ClientStop(u)
           fl == u.ra.flags
           q == DHCPv6ClientStart(p, fl, e)
<1>1. KickDHCPv6(u, e) \in {u, p, q} BY DEF KickDHCPv6
<1>2. Sound(u, o) /\ u.ra \in RA BY KnownRA DEF Heard, Sound, ServiceType
<1>3. fl \in {"None", "Stateless", "Address"} BY <1>2 DEF RA
<1>4. Sound(p, o) /\ KeepsMore(u, p) BY <1>2, StopClientKeeps
<1> HIDE DEF p, fl
<1>5. Sound(q, o) /\ KeepsMore(p, q) BY <1>3, <1>4, StartClientKeeps
<1> HIDE DEF q
<1>6. Heard(t, p, o) BY <1>4 DEF Heard, KeepsMore, Keeps, SameLink, Hears
<1>7. Heard(t, q, o) BY <1>5, <1>6 DEF Heard, KeepsMore, Keeps, SameLink, Hears
<1>8. QED BY <1>1, <1>6, <1>7

\* Advertisements and the expiration of what they told keep a service hearing.
LEMMA AcquiredData ==
    ASSUME NEW o \in 0..ClatCount, NEW t0, NEW t, Heard(t0, t, o), NEW ra \in Adverts, NEW e
    PROVE  Heard(t0, rtadv_acquired_data(t, ra, e), o)
<1> DEFINE na == IF ra.life0 THEN NoRA ELSE ra
           a == [t EXCEPT !.tm = NoTimer, !.ra = na]
           u == KickDHCPv6(a, e)
           v == rtadv_address_changed(u, e)
           f == rtadv_pvd_additional_info_schedule_fetch(v, e)
           w == IF v.ra = NoRA THEN v ELSE f
           x == SetExpiration(w, u.ra)
<1>1. rtadv_acquired_data(t, ra, e) \in {t, x} BY DEF rtadv_acquired_data
<1>2. na \in Known BY DEF Known
<1> HIDE DEF na
<1>3. Sound(t, o) /\ t \in ServiceType BY DEF Heard, Sound
<1>4. a \in ServiceType BY <1>2, <1>3 DEF ServiceType, NoTimer
<1>5. /\ SameLink(t, a) /\ a.refused = t.refused /\ a.st = t.st /\ a.rx = t.rx /\ a.renew = t.renew
      /\ a.use = t.use /\ a.clat = t.clat /\ a.clat_on = t.clat_on
  BY <1>3 DEF ServiceType, SameLink
<1> HIDE DEF a
<1>6. Sound(a, o) BY <1>3, <1>4, <1>5 DEF Sound, Held
<1>7. Heard(t0, a, o) BY <1>5, <1>6 DEF Heard, SameLink, Hears
<1>8. Heard(t0, u, o) BY <1>7, KickHeard
<1> HIDE DEF u
<1>9. Heard(t0, v, o) BY <1>8, AddressChangedHeard
<1> HIDE DEF v
<1>10. Heard(t0, f, o) BY <1>9, FetchHeard
<1> HIDE DEF f
<1>11. Heard(t0, w, o) BY <1>9, <1>10
<1> HIDE DEF w
<1>12. Heard(t0, x, o) BY <1>11, ExpirationHeard
<1>13. QED BY <1>1, <1>12

LEMMA SolicitData ==
    ASSUME NEW o \in 0..ClatCount, NEW t, Sound(t, o), Hears(t), NEW ra \in Adverts, NEW e
    PROVE  Heard(t, rtadv_solicit_data(t, ra, e), o)
<1> DEFINE a == [rtadv_set_state(t, "Acquired") EXCEPT !.tm = NoTimer, !.rx = "acquired"]
           x == rtadv_acquired_data(a, ra, e)
<1>1. t \in ServiceType BY DEF Sound
<1>2. a \in ServiceType BY <1>1 DEF ServiceType, rtadv_set_state, NoTimer
<1>3. /\ SameLink(t, a) /\ a.refused = t.refused /\ a.st = "Acquired" /\ a.rx = "acquired" /\ a.renew = t.renew
      /\ a.use = t.use /\ a.clat = t.clat /\ a.clat_on = t.clat_on
  BY <1>1 DEF ServiceType, rtadv_set_state, SameLink
<1>4. rtadv_solicit_data(t, ra, e) \in {t, x} BY DEF rtadv_solicit_data, rtadv_acquired_start
<1> HIDE DEF a
<1>5. Sound(a, o) BY <1>2, <1>3 DEF Sound, Held
<1>6. Heard(t, a, o) BY <1>3, <1>5 DEF Heard, Hears
<1>7. Heard(t, x, o) BY <1>6, AcquiredData
<1>8. Heard(t, t, o) BY DEF Heard, SameLink
<1>9. QED BY <1>4, <1>7, <1>8

LEMMA AcquiredTimeout ==
    ASSUME NEW o \in 0..ClatCount, NEW t, Sound(t, o), Hears(t), NEW e
    PROVE  Heard(t, rtadv_acquired_timeout(t, e), o)
<1> DEFINE g == rtadv_pvd_additional_info_schedule_fetch(t, e)
           f == IF t.pvd.ok /\ t.pvd.exp = "past" THEN g ELSE t
           v == rtadv_address_changed(f, e)
           x == SetExpiration(v, v.ra)
<1>1. rtadv_acquired_timeout(t, e) \in {t, x} BY DEF rtadv_acquired_timeout
<1>2. Heard(t, t, o) BY DEF Heard, SameLink
<1>3. Heard(t, g, o) BY <1>2, FetchHeard
<1> HIDE DEF g
<1>4. Heard(t, f, o) BY <1>2, <1>3
<1> HIDE DEF f
<1>5. Heard(t, v, o) BY <1>4, AddressChangedHeard
<1> HIDE DEF v
<1>6. Heard(t, x, o) BY <1>5, ExpirationHeard
<1>7. QED BY <1>1, <1>2, <1>6

\* Who hears is alive, and promises add up.
LEMMA HeardGood == ASSUME NEW o, NEW t, NEW u, Heard(t, u, o) PROVE Good(t, u, o) /\ Awake(u)
<1>1. Awake(u) BY DEF Heard, Hears, Awake
<1>2. QED BY <1>1 DEF Heard, Good, Live

LEMMA GoodTwice ==
    ASSUME NEW o, NEW t, NEW u, NEW v, Good(t, u, o), Good(u, v, o) PROVE Good(t, v, o)
  BY DEF Good, SameLink

\* The first try of a start.
LEMMA FirstTryGood ==
    ASSUME NEW o, NEW t, Sound(t, o), Live(t)
    PROVE  LET u == [t EXCEPT !.try = 0] IN Good(t, u, o)
<1> DEFINE u == [t EXCEPT !.try = 0]
<1>0. MaxRS \in Nat \ {0} BY RtadvAssumption DEF RtadvAssumption
<1>1. t \in ServiceType /\ 0 \in 0..MaxRS + 2 BY <1>0 DEF Sound
<1>2. u \in ServiceType BY <1>1 DEF ServiceType
<1>3. /\ SameLink(t, u) /\ u.refused = t.refused /\ u.st = t.st /\ u.try = 0 /\ u.ra = t.ra /\ u.tm = t.tm
      /\ u.rx = t.rx /\ u.req = t.req /\ u.pref64 = t.pref64 /\ u.pub = t.pub
      /\ u.renew = t.renew /\ u.use = t.use /\ u.clat = t.clat /\ u.clat_on = t.clat_on
  BY <1>1 DEF ServiceType, SameLink
<1> HIDE DEF u
<1>4. Sound(u, o) BY <1>2, <1>3 DEF Sound, Held
<1>5. Good(t, u, o) BY <1>3, <1>4 DEF Good, Live, Hears, Restarts, Gone, Awake
<1>6. QED BY <1>5 DEF u

\* A start after an event and a wake keep the promise.
LEMMA InitGood ==
    ASSUME NEW o \in 0..ClatCount, NEW t, Sound(t, o), Live(t), NEW e
    PROVE  LET u == rtadv_init(t, e) IN Good(t, u, o) /\ (t.link /\ k.ll = "ready" => Awake(u))
<1> DEFINE a == [t EXCEPT !.try = 0]
           b == rtadv_address_changed_common(a, e)
           u == [b EXCEPT !.busy = TRUE]
<1>1. Good(t, a, o) BY FirstTryGood
<1>2. rtadv_init(t, e) = u BY DEF rtadv_init, rtadv_address_changed
<1> HIDE DEF a
<1>3. Sound(a, o) /\ Live(a) BY <1>1 DEF Good
<1>4. Good(a, b, o) /\ (a.link /\ k.ll = "ready" => Awake(b)) BY <1>3, AddressChangedGood
<1> HIDE DEF b
<1>5. b \in ServiceType BY <1>4 DEF Good, Sound
<1>6. u \in ServiceType BY <1>5 DEF ServiceType
<1>7. /\ KeepsMore(b, u) /\ u.pref64 = b.pref64 /\ u.use = b.use /\ u.clat_on = b.clat_on
  BY <1>5 DEF ServiceType, KeepsMore, Keeps
<1> HIDE DEF u
<1>8. Sound(u, o) BY <1>4, <1>6, <1>7 DEF Good, Sound, Held, KeepsMore
<1>9. Good(b, u, o) /\ (Awake(b) => Awake(u))
  BY <1>4, <1>7, <1>8 DEF KeepsMore, Keeps, Good, SameLink, Live, Hears, Restarts, Gone, Awake
<1>10. Good(a, u, o) BY <1>4, <1>9, GoodTwice
<1>11. Good(t, u, o) BY <1>1, <1>10, GoodTwice
<1>12. a.link = t.link BY <1>1 DEF Good, SameLink
<1>13. QED BY <1>2, <1>4, <1>9, <1>11, <1>12

LEMMA WakeGood ==
    ASSUME NEW o \in 0..ClatCount, NEW t, Sound(t, o), Live(t), NEW e
    PROVE  LET u == rtadv_handle_wake(t, e) IN Good(t, u, o) /\ (t.ra = NoRA => u = t)
<1> DEFINE x == [t EXCEPT !.tm = NoTimer]
           early == t.pvd.exp \in {"before", "past"}
           g == rtadv_pvd_additional_info_schedule_fetch(t, e)
           f == IF early THEN g ELSE t
           m == [fn |-> "acquired", at |-> IF early THEN "pvd" ELSE "dns"]
           y == [f EXCEPT !.tm = m]
           u == rtadv_handle_wake(t, e)
<1>1. u \in {t, x, y} /\ (t.ra = NoRA => u = t)
  <2> DEFINE idle == t.ra = NoRA \/ t.ra.dns = "none" \/ ~t.pvd.ok
  <2>1. CASE idle
    <3>1. u = t BY <2>1 DEF rtadv_handle_wake, WakeNeedsInit
    <3> HIDE DEF u, x, y
    <3>2. QED BY <3>1
  <2>2. CASE ~idle /\ WakeNeedsInit(t)
    <3>1. u = x BY <2>2 DEF rtadv_handle_wake
    <3> HIDE DEF u, x, y
    <3>2. QED BY <2>2, <3>1
  <2>3. CASE ~idle /\ ~WakeNeedsInit(t)
    <3>1. u = y BY <2>3 DEF rtadv_handle_wake, timer_set
    <3> HIDE DEF u, x, y
    <3>2. QED BY <2>3, <3>1
  <2>4. QED BY <2>1, <2>2, <2>3
<1>2. Good(t, t, o) BY DEF Good, SameLink
<1>3. ASSUME t.ra # NoRA PROVE Good(t, x, o) /\ Good(t, y, o)
  <2>1. Hears(t) BY <1>3 DEF Live, Restarts, Gone
  <2>2. Heard(t, t, o) BY <2>1 DEF Heard, SameLink
  <2>3. NoTimer \in TimerType /\ m \in TimerType BY DEF NoTimer, TimerType
  <2>4. Heard(t, g, o) BY <2>2, FetchHeard
  <2> HIDE DEF g, m, early
  <2>5. Heard(t, f, o) BY <2>2, <2>4
  <2> HIDE DEF f
  <2>6. Sound(x, o) /\ Same(t, x) BY <2>3, TimerKeeps
  <2>7. Sound(f, o) BY <2>5 DEF Heard
  <2>8. Sound(y, o) /\ Same(f, y) BY <2>3, <2>7, TimerKeeps
  <2> HIDE DEF x, y
  <2>9. Heard(t, x, o) BY <2>1, <2>6 DEF Heard, Same, Hears
  <2>10. Heard(t, y, o) BY <2>5, <2>8 DEF Heard, Same, SameLink, Hears
  <2>11. QED BY <2>9, <2>10, HeardGood
<1> HIDE DEF u, x, y
<1>4. QED BY <1>1, <1>2, <1>3 DEF u

-----------------------------------------------------------------------------
(* The invariant.                                                            *)

\* A service that does not run has nothing armed.
Unstarted(t) == ~t.run => t.tm.fn = "none" /\ t.rx = "none" /\ ~t.req /\ t.clat = 0
\* A service that has given up with the link active and the link-local address
\* ready is told of the address.
Pending == s.run /\ s.link /\ k.ll = "ready" /\ ~Awake(s) /\ s.tm.fn = "none" => "addr" \in k.ev
Surroundings ==
    /\ k \in [ll : {"none", "tentative", "ready"}, v4 : BOOLEAN, ev : SUBSET {"addr", "v4"}]
    /\ other \in 0..ClatCount /\ events \in Nat
RtadvInv == Surroundings /\ Sound(s, other) /\ Live(s) /\ Unstarted(s) /\ Pending

\* The invariant says what the properties say.
LEMMA RtadvInvImplies == RtadvInv => InactiveIsClean /\ ListensToRouters
<1> SUFFICES ASSUME RtadvInv PROVE InactiveIsClean /\ ListensToRouters OBVIOUS
<1>1. RtadvTypeOK BY DEF RtadvInv, Surroundings, Sound, RtadvTypeOK
<1>2. ClatCounted
  <2>1. SUFFICES ASSUME NEW i \in Clat
                 PROVE  /\ s.use[i] = Cardinality({x \in {"us", "other"} : i = IF x = "us" THEN s.clat ELSE other})
                        /\ s.use[i] > 1 => \A j \in Clat : s.use[j] > 0
    BY DEF ClatCounted
  <2> DEFINE U == {x \in {"us", "other"} : i = IF x = "us" THEN s.clat ELSE other}
  <2>2. s.use[i] = (IF s.clat = i THEN 1 ELSE 0) + (IF other = i THEN 1 ELSE 0)
    BY DEF RtadvInv, Sound, Held
  <2>3. s.use[i] = Cardinality(U)
    <3>1. CASE s.clat = i /\ other = i
      <4>1. U = {"us", "other"} BY <3>1
      <4>2. QED BY <2>2, <3>1, <4>1, PairCardinality
    <3>2. CASE s.clat = i /\ other # i
      <4>1. U = {"us"} BY <3>2
      <4> HIDE DEF U
      <4>2. Cardinality(U) = 1 BY <4>1, FS_Singleton
      <4>3. QED BY <2>2, <3>2, <4>2
    <3>3. CASE s.clat # i /\ other = i
      <4>1. U = {"other"} BY <3>3
      <4> HIDE DEF U
      <4>2. Cardinality(U) = 1 BY <4>1, FS_Singleton
      <4>3. QED BY <2>2, <3>3, <4>2
    <3>4. CASE s.clat # i /\ other # i
      <4>1. U = {} BY <3>4
      <4>2. QED BY <2>2, <3>4, <4>1, FS_EmptySet
    <3>5. QED BY <3>1, <3>2, <3>3, <3>4
  <2>4. ASSUME s.use[i] > 1, NEW j \in Clat PROVE s.use[j] > 0
    <3>1. s.clat = i /\ other = i BY <2>2, <2>4
    <3>2. i # 0 BY DEF Clat
    <3>3. ClatCount = 1 BY <3>1, <3>2 DEF RtadvInv, Sound, Held
    <3>4. j = i BY <3>3 DEF Clat
    <3>5. QED BY <2>2, <2>4, <3>4
  <2>5. QED BY <2>3, <2>4
<1>3. s.st = "Inactive" /\ ~s.refused => Gone(s) /\ (s.clat_on <=> s.clat # 0)
  BY DEF RtadvInv, Live, Hears, Restarts, Sound, Held
<1>4. InactiveIsClean BY <1>1, <1>2, <1>3 DEF InactiveIsClean, Gone
<1>5. ListensToRouters
  BY DEF RtadvInv, Live, Hears, Restarts, Gone, Pending, Awake, ListensToRouters
<1>6. QED BY <1>4, <1>5

\* A handler that ran on a running service, with the link-local address as it
\* was, gives the invariant when it leaves the service sound, alive and awake.
LEMMA Handled ==
    ASSUME Surroundings', Sound(s', other'), Live(s'), s'.run,
           s'.link /\ k'.ll = "ready" => Awake(s')
    PROVE  RtadvInv'
  BY DEF RtadvInv, Unstarted, Pending

\* What most steps need of the invariant.
LEMMA Typed == ASSUME RtadvInv PROVE s \in ServiceType /\ other \in 0..ClatCount /\ Sound(s, other) /\ Live(s)
  BY DEF RtadvInv, Surroundings, Sound

\* The initial states.
LEMMA InitInv == RtadvInit => RtadvInv
<1> SUFFICES ASSUME RtadvInit PROVE RtadvInv OBVIOUS
<1>0. ClatCount \in Nat \ {0} /\ MaxRS \in Nat \ {0} /\ MaxEvents \in Nat BY RtadvAssumption DEF RtadvAssumption
<1>1. 0 \in 0..MaxRS + 2 /\ 0 \in 0..ClatCount BY <1>0
<1>2. Surroundings BY <1>0, <1>1 DEF RtadvInit, Surroundings
<1> DEFINE z == [i \in Clat |-> 0]
           on == [NoService EXCEPT !.link = TRUE]
<1>3. z \in [Clat -> Nat] OBVIOUS
<1> HIDE DEF z
<1>4. NoService \in ServiceType
  BY <1>1, <1>3, NoRAKnown DEF NoService, ServiceType, NoTimer, NoContext, Unpublished, Domain, z
<1>5. on \in ServiceType BY <1>4 DEF ServiceType
<1>6. /\ NoService.use = z /\ NoService.clat = 0 /\ ~NoService.clat_on /\ ~NoService.renew
      /\ Stopped(NoService) /\ ~NoService.run
  BY DEF NoService, Stopped, Unpublished, z
<1>7. /\ on.use = z /\ on.clat = 0 /\ ~on.clat_on /\ ~on.renew /\ Stopped(on) /\ ~on.run
  BY <1>4, <1>6 DEF ServiceType, Stopped
<1>8. s \in {NoService, on} /\ other = 0 BY DEF RtadvInit
<1> HIDE DEF on
<1>9. s \in ServiceType /\ s.use = z /\ s.clat = 0 /\ ~s.clat_on /\ ~s.renew /\ Stopped(s) /\ ~s.run
  BY <1>4, <1>5, <1>6, <1>7, <1>8
<1>10. Held(s, other)
  <2>1. \A i \in Clat : i # 0 /\ z[i] = 0 BY DEF Clat, z
  <2>2. QED BY <1>8, <1>9, <2>1 DEF Held
<1>11. Sound(s, other) BY <1>9, <1>10 DEF Sound
<1>12. Live(s) BY <1>9, StoppedGone DEF Live
<1>13. Unstarted(s) /\ Pending BY <1>9 DEF Unstarted, Pending, Stopped, NoTimer
<1>14. QED BY <1>2, <1>11, <1>12, <1>13 DEF RtadvInv

\* A service that does not hold CLAT46 leaves the table to the other interface.
LEMMA Fresh ==
    ASSUME NEW o, NEW t \in ServiceType, t.clat = 0, ~t.clat_on, ~t.renew,
           \A i \in Clat : t.use[i] = IF o = i THEN 1 ELSE 0
    PROVE  Sound(t, o)
<1>1. \A i \in Clat : i # 0 BY DEF Clat
<1>2. \A i \in Clat : t.use[i] = (IF t.clat = i THEN 1 ELSE 0) + (IF o = i THEN 1 ELSE 0) BY <1>1
<1>3. Held(t, o) BY <1>2 DEF Held
<1>4. QED BY <1>3 DEF Sound

\* The service before it starts.
LEMMA NoServiceTyped == NoService \in ServiceType
<1>0. ClatCount \in Nat \ {0} /\ MaxRS \in Nat \ {0} BY RtadvAssumption DEF RtadvAssumption
<1>1. 0 \in 0..MaxRS + 2 /\ 0 \in 0..ClatCount BY <1>0
<1> DEFINE z == [i \in Clat |-> 0]
<1>2. z \in [Clat -> Nat] OBVIOUS
<1> HIDE DEF z
<1>3. QED
  BY <1>1, <1>2, NoRAKnown DEF NoService, ServiceType, NoTimer, NoContext, Unpublished, Domain, z

\* The service is created, and stopped.
LEMMA StartInv == ASSUME RtadvInv, rtadv_schedule_start PROVE RtadvInv'
<1> DEFINE N == [NoService EXCEPT !.run = TRUE, !.link = s.link, !.use = s.use]
           n == rtadv_set_nat64_prefixlist(N, FALSE)
           m == [fn |-> "start", at |-> "now"]
           u == [n EXCEPT !.tm = m]
<1>1. s \in ServiceType /\ other \in 0..ClatCount /\ Sound(s, other) BY Typed
<1>2. N \in ServiceType BY <1>1, NoServiceTyped DEF ServiceType
<1>3. /\ N.run /\ N.link = s.link /\ N.use = s.use /\ N.clat = 0 /\ ~N.clat_on /\ ~N.renew /\ Stopped(N)
  BY NoServiceTyped DEF ServiceType, NoService, Stopped, Unpublished
<1>4. s' = u /\ ~s.run /\ UNCHANGED <<k, other>> /\ events' \in Nat
  BY DEF rtadv_schedule_start, timer_set, Disturb, RtadvInv, Surroundings
<1> HIDE DEF N
<1>5. \A i \in Clat : N.use[i] = IF other = i THEN 1 ELSE 0
  <2>1. s.clat = 0 BY <1>4 DEF RtadvInv, Unstarted
  <2>2. \A i \in Clat : i # 0 BY DEF Clat
  <2>3. QED BY <1>1, <1>3, <2>1, <2>2 DEF Sound, Held
<1>6. Sound(N, other) BY <1>2, <1>3, <1>5, Fresh
<1>7. Sound(n, other) /\ KeepsMore(N, n) /\ ~n.pref64
  <2>1. N.ra = NoRA BY <1>3 DEF Stopped
  <2>2. QED BY <1>6, <2>1, Nat64Keeps
<1> HIDE DEF n
<1>8. m \in TimerType /\ m.fn = "start" BY DEF TimerType
<1> HIDE DEF m
<1>9. /\ Sound(u, other) /\ Same(n, u) /\ u.tm = m /\ u.try = n.try /\ u.req = n.req
      /\ u.clat = n.clat /\ u.pref64 = n.pref64 /\ u.pub = n.pub
  BY <1>7, <1>8, TimerKeeps
<1> HIDE DEF u
<1>10. Gone(u) /\ u.run
  BY <1>3, <1>7, <1>8, <1>9 DEF Stopped, Gone, Same, SameLink, KeepsMore, Keeps
<1>11. Surroundings' BY <1>4 DEF RtadvInv, Surroundings
<1>12. Sound(s', other') /\ Live(s') BY <1>4, <1>9, <1>10 DEF Live
<1>13. Unstarted(s') /\ Pending' BY <1>4, <1>8, <1>9, <1>10 DEF Unstarted, Pending
<1>14. QED BY <1>11, <1>12, <1>13 DEF RtadvInv

\* What a handler tells of addresses.
LEMMA EventsTyped ==
    ASSUME RtadvInv, NEW ev, Tells(ev), ev \subseteq {"addr", "v4"}
    PROVE  k' \in [ll : {"none", "tentative", "ready"}, v4 : BOOLEAN, ev : SUBSET {"addr", "v4"}] /\ k'.ll = k.ll
           /\ ev \subseteq k'.ev
<1>1. k \in [ll : {"none", "tentative", "ready"}, v4 : BOOLEAN, ev : SUBSET {"addr", "v4"}]
  BY DEF RtadvInv, Surroundings
<1>2. QED BY <1>1 DEF Tells

LEMMA StopInv == ASSUME RtadvInv, rtadv_stop PROVE RtadvInv'
<1> DEFINE f == rtadv_failed(s)
           N == [NoService EXCEPT !.link = s.link, !.use = f.use]
<1>1. s \in ServiceType /\ other \in 0..ClatCount /\ Sound(s, other) BY Typed
<1>2. Sound(f, other) /\ Stopped(f) BY <1>1, FailedStops
<1>3. s' = N /\ other' = other /\ events' \in Nat /\ Tells(k.ev)
  BY DEF rtadv_stop, Disturb, RtadvInv, Surroundings
<1> HIDE DEF f
<1>4. f \in ServiceType BY <1>2 DEF Sound
<1>5. N \in ServiceType BY <1>1, <1>4, NoServiceTyped DEF ServiceType
<1>6. /\ ~N.run /\ N.use = f.use /\ N.clat = 0 /\ ~N.clat_on /\ ~N.renew /\ Stopped(N)
  BY NoServiceTyped DEF ServiceType, NoService, Stopped, Unpublished
<1> HIDE DEF N
<1>7. \A i \in Clat : N.use[i] = IF other = i THEN 1 ELSE 0
  <2>1. \A i \in Clat : i # 0 BY DEF Clat
  <2>2. QED BY <1>2, <1>6, <2>1 DEF Stopped, Sound, Held
<1>8. Sound(N, other) BY <1>5, <1>6, <1>7, Fresh
<1>9. k.ev \subseteq {"addr", "v4"} BY DEF RtadvInv, Surroundings
<1>10. Surroundings' BY <1>1, <1>3, <1>9, EventsTyped DEF Surroundings
<1>11. Live(s') BY <1>3, <1>6, StoppedGone DEF Live
<1>12. Unstarted(s') /\ Pending' BY <1>3, <1>6 DEF Unstarted, Pending, Stopped, NoTimer
<1>13. Sound(s', other') BY <1>3, <1>8
<1>14. QED BY <1>10, <1>11, <1>12, <1>13 DEF RtadvInv

\* Fields that the invariant does not speak of.
Alike(t, u) ==
    KeepsMore(t, u) /\ u.pref64 = t.pref64 /\ u.use = t.use /\ u.clat_on = t.clat_on

LEMMA AlikeGood ==
    ASSUME NEW o, NEW t, Sound(t, o), Live(t), NEW u \in ServiceType, Alike(t, u)
    PROVE  Good(t, u, o) /\ (Unstarted(t) => Unstarted(u)) /\ u.tm = t.tm /\ (Awake(u) <=> Awake(t))
<1>1. Sound(u, o) BY DEF Alike, KeepsMore, Sound, Held
<1>2. QED
  BY <1>1 DEF Alike, KeepsMore, Keeps, Good, SameLink, Live, Hears, Restarts, Gone, Awake, Unstarted

\* The kernel changes an address, and the agent learns of it.
LEMMA KernelInv ==
    ASSUME RtadvInv, NEW ll \in {"none", "tentative", "ready"}, NEW addr \in {"none", "tentative", "ready"},
           KernelChanges(ll, addr)
    PROVE  RtadvInv'
<1> DEFINE u == [s EXCEPT !.addr = addr]
<1>1. s \in ServiceType /\ other \in 0..ClatCount /\ Sound(s, other) /\ Live(s) BY Typed
<1>2. u \in ServiceType BY <1>1 DEF ServiceType
<1>3. Alike(s, u) BY <1>1 DEF ServiceType, Alike, KeepsMore, Keeps
<1>4. s' = u /\ other' = other /\ events' \in Nat /\ k' = [k EXCEPT !.ll = ll, !.ev = @ \cup {"addr"}]
  BY DEF KernelChanges, Disturb, RtadvInv, Surroundings
<1> HIDE DEF u
<1>5. Good(s, u, other) /\ (Unstarted(s) => Unstarted(u)) BY <1>1, <1>2, <1>3, AlikeGood
<1>6. Surroundings' /\ "addr" \in k'.ev BY <1>4 DEF RtadvInv, Surroundings
<1>7. QED BY <1>4, <1>5, <1>6 DEF RtadvInv, Good, Pending

LEMMA AddressEventInv ==
    ASSUME RtadvInv, NEW ev, NEW e, AddressEvent(ev, e) PROVE RtadvInv'
<1> DEFINE u == rtadv_address_changed_common(s, e)
<1>1. s \in ServiceType /\ other \in 0..ClatCount /\ Sound(s, other) /\ Live(s) BY Typed
<1>2. s' = (IF s.run THEN u ELSE s) /\ Tells(k.ev \ {ev}) /\ other' = other /\ events' = events
  BY DEF AddressEvent
<1>3. k.ev \ {ev} \subseteq {"addr", "v4"} BY DEF RtadvInv, Surroundings
<1>4. Surroundings' /\ k'.ll = k.ll BY <1>1, <1>2, <1>3, EventsTyped DEF RtadvInv, Surroundings
<1>5. Good(s, u, other) /\ (s.link /\ k.ll = "ready" => Awake(u)) BY <1>1, AddressChangedGood
<1> HIDE DEF u
<1>6. CASE s.run BY <1>2, <1>4, <1>5, <1>6, Handled DEF Good, SameLink
<1>7. CASE ~s.run BY <1>1, <1>2, <1>4, <1>7 DEF RtadvInv, Pending
<1>8. QED BY <1>6, <1>7

\* A link event gives the service the state of the link.
LEMMA LinkKeeps ==
    ASSUME NEW o, NEW t, Sound(t, o), Live(t), NEW up \in BOOLEAN
    PROVE  LET u == [t EXCEPT !.link = up]
           IN  /\ Sound(u, o) /\ Live(u) /\ u.run = t.run /\ u.link = up /\ u.ra = t.ra
               /\ u.refused = t.refused /\ u.try = t.try
               /\ u.tm = t.tm /\ (Awake(u) <=> Awake(t)) /\ (Hears(u) <=> Hears(t))
<1> DEFINE u == [t EXCEPT !.link = up]
<1>1. t \in ServiceType BY DEF Sound
<1>2. u \in ServiceType BY <1>1 DEF ServiceType
<1>3. /\ u.run = t.run /\ u.link = up /\ u.refused = t.refused /\ u.st = t.st /\ u.try = t.try /\ u.ra = t.ra
      /\ u.tm = t.tm /\ u.rx = t.rx /\ u.req = t.req /\ u.pref64 = t.pref64 /\ u.pub = t.pub
      /\ u.renew = t.renew /\ u.use = t.use /\ u.clat = t.clat /\ u.clat_on = t.clat_on
  BY <1>1 DEF ServiceType
<1> HIDE DEF u
<1>4. Sound(u, o) BY <1>2, <1>3 DEF Sound, Held
<1>5. QED BY <1>3, <1>4 DEF Live, Hears, Restarts, Gone, Awake, u

LEMMA RenewKeeps ==
    ASSUME NEW o, NEW t, Sound(t, o), Live(t), NEW b, b => Cellular
    PROVE  LET u == [t EXCEPT !.renew = @ \/ b]
           IN  Good(t, u, o) /\ u.tm = t.tm /\ (Awake(u) <=> Awake(t))
<1> DEFINE c == t.renew \/ b
           u == [t EXCEPT !.renew = c]
<1>1. t \in ServiceType /\ c \in BOOLEAN BY DEF Sound
<1>0. c => Cellular BY DEF Sound
<1>6. [t EXCEPT !.renew = @ \/ b] = u OBVIOUS
<1> HIDE DEF c
<1>2. u \in ServiceType BY <1>1 DEF ServiceType
<1>3. Keeps(t, u) /\ u.req = t.req /\ u.clat = t.clat /\ u.pub = t.pub /\ u.renew = c
      /\ u.pref64 = t.pref64 /\ u.use = t.use /\ u.clat_on = t.clat_on
  BY <1>1 DEF ServiceType, Keeps
<1> HIDE DEF u
<1>4. Sound(u, o) BY <1>0, <1>2, <1>3 DEF Sound, Held
<1>5. Good(t, u, o) /\ u.tm = t.tm /\ (Awake(u) <=> Awake(t))
  BY <1>3, <1>4 DEF Keeps, Good, SameLink, Live, Hears, Restarts, Gone, Awake
<1>7. QED BY <1>5, <1>6

\* Link, wake and renewal events.
LEMMA LinkEventInv ==
    ASSUME RtadvInv, NEW ev \in {"wake", "renew", "link"}, NEW up \in BOOLEAN, NEW changed \in BOOLEAN, NEW e,
           LinkEvent(ev, up, changed, e)
    PROVE  RtadvInv'
<1> DEFINE l == [s EXCEPT !.link = up]
           woke == ev = "wake" /\ ~changed
           x == rtadv_flush(l)
           y == rtadv_handle_wake(l, e)
           f == IF changed THEN x ELSE IF woke THEN y ELSE l
           need == \/ changed \/ ev = "renew"
                   \/ (woke => WakeNeedsInit(s)) /\ ~(f.try = 1 /\ f.ra = NoRA)
           b == ev = "renew" /\ Cellular
           r == [f EXCEPT !.renew = @ \/ b]
           i == rtadv_init(r, e)
           z == [l EXCEPT !.try = 0]
<1>1. s \in ServiceType /\ other \in 0..ClatCount /\ Sound(s, other) /\ Live(s) BY Typed
<1>2. /\ s.run /\ (woke /\ up /\ ~s.link => k.ll = "none") /\ Tells(k.ev) /\ other' = other /\ events' \in Nat
      /\ s' = IF ~up THEN z ELSE IF need THEN i ELSE r
  BY DEF LinkEvent, Disturb, RtadvInv, Surroundings
<1>3. k.ev \subseteq {"addr", "v4"} BY DEF RtadvInv, Surroundings
<1>4. Surroundings' /\ k'.ll = k.ll /\ k.ev \subseteq k'.ev
  BY <1>1, <1>2, <1>3, EventsTyped DEF RtadvInv, Surroundings
<1>5. /\ Sound(l, other) /\ Live(l) /\ l.run = s.run /\ l.link = up /\ l.ra = s.ra /\ l.refused = s.refused
      /\ l.try = s.try /\ l.tm = s.tm /\ (Awake(l) <=> Awake(s)) /\ (Hears(l) <=> Hears(s))
  BY <1>1, LinkKeeps
<1> HIDE DEF l
<1>6. Sound(x, other) /\ Live(x) /\ SameLink(l, x)
  <2>1. Sound(x, other) /\ Stopped(x) /\ SameLink(l, x) BY <1>1, <1>5, FlushStops
  <2> HIDE DEF x
  <2>2. QED BY <2>1, StoppedGone DEF Live
<1>7. Good(l, y, other) /\ (l.ra = NoRA => y = l) BY <1>1, <1>5, WakeGood
<1> HIDE DEF x, y
<1>8. Sound(f, other) /\ Live(f) /\ SameLink(l, f) BY <1>5, <1>6, <1>7 DEF Good, SameLink
<1>9. b => Cellular OBVIOUS
<1>10. (~changed /\ ~woke => f = l) /\ (woke => f = y) OBVIOUS
<1>11. need <=> changed \/ ev = "renew" \/ ((woke => WakeNeedsInit(s)) /\ ~(f.try = 1 /\ f.ra = NoRA)) OBVIOUS
<1> HIDE DEF f, b, need
<1>12. Good(f, r, other) /\ r.tm = f.tm /\ (Awake(r) <=> Awake(f)) BY <1>8, <1>9, RenewKeeps
<1> HIDE DEF r
<1>13. Sound(r, other) /\ Live(r) /\ SameLink(l, r) BY <1>8, <1>12 DEF Good, SameLink
<1>14. Good(r, i, other) /\ (r.link /\ k.ll = "ready" => Awake(i)) BY <1>1, <1>13, InitGood
<1> HIDE DEF i
<1>15. CASE ~up
  <2>1. Good(l, z, other) BY <1>5, FirstTryGood
  <2> HIDE DEF z
  <2>2. s' = z /\ z.run /\ ~z.link BY <1>2, <1>5, <1>15, <2>1 DEF Good, SameLink
  <2>3. QED BY <1>2, <1>4, <2>1, <2>2, Handled DEF Good
<1>16. CASE up /\ need
  <2>1. s' = i BY <1>2, <1>16
  <2>2. i.run /\ i.link = r.link BY <1>2, <1>5, <1>13, <1>14 DEF Good, SameLink
  <2>3. QED BY <1>2, <1>4, <1>14, <2>1, <2>2, Handled DEF Good
<1>17. CASE up /\ ~need
  <2>1. s' = r /\ r.run /\ r.link BY <1>2, <1>5, <1>13, <1>17 DEF SameLink
  <2>2. CASE Awake(r) BY <1>2, <1>4, <1>13, <2>1, <2>2, Handled
  <2>3. CASE ~Awake(r)
    <3>1. ~Awake(f) /\ ~changed /\ ev # "renew" BY <1>11, <1>12, <1>17, <2>3
    <3>2. woke
      <4>1. SUFFICES ASSUME ~woke PROVE FALSE OBVIOUS
      <4>2. f = l /\ f.try = 1 BY <1>10, <1>11, <1>17, <3>1, <4>1
      <4>3. s.try = 1 /\ ~Awake(s) BY <1>5, <3>1, <4>2
      <4>4. QED BY <1>1, <4>3 DEF Live, Hears, Restarts, Gone, Awake
    <3>3. f = y BY <1>10, <3>2
    <3>4. s.ra = NoRA
      <4>1. ~Hears(y) BY <3>1, <3>3 DEF Hears, Awake
      <4>2. ~Hears(s) BY <1>5, <1>7, <4>1 DEF Good
      <4>3. QED BY <1>1, <4>2 DEF Live, Restarts, Gone
    <3>5. f = l BY <1>5, <1>7, <3>3, <3>4
    <3>6. r.tm = s.tm /\ ~Awake(s) BY <1>5, <1>12, <3>1, <3>5
    <3>7. CASE s.link
      <4>1. Pending' BY <1>2, <1>4, <2>1, <3>6, <3>7 DEF RtadvInv, Pending
      <4>2. Unstarted(s') BY <2>1 DEF Unstarted
      <4>3. QED BY <1>2, <1>4, <1>13, <2>1, <4>1, <4>2 DEF RtadvInv
    <3>8. CASE ~s.link
      <4>1. k'.ll = "none" BY <1>2, <1>4, <1>17, <3>2, <3>8
      <4>2. QED BY <1>2, <1>4, <1>13, <2>1, <4>1, Handled
    <3>9. QED BY <3>7, <3>8
  <2>4. QED BY <2>2, <2>3
<1>18. QED BY <1>15, <1>16, <1>17

\* The interface has been gone for too long.
LEMMA LinkTimerInv == ASSUME RtadvInv, LinkTimerExpired PROVE RtadvInv'
<1> DEFINE a == rtadv_inactive(s)
           u == DHCPv6ClientStop(a)
<1>1. s \in ServiceType /\ other \in 0..ClatCount /\ Sound(s, other) BY Typed
<1>2. /\ s.run /\ s' = u /\ other' = other /\ events' \in Nat
      /\ k' = [k EXCEPT !.ll = "none", !.ev = @ \cup {"addr"}]
  BY DEF LinkTimerExpired, Disturb, RtadvInv, Surroundings
<1>3. Sound(a, other) /\ Stopped(a) /\ SameLink(s, a) BY <1>1, InactiveStops
<1> HIDE DEF a
<1>4. Sound(u, other) /\ KeepsMore(a, u) /\ u.pref64 = a.pref64 BY <1>3, StopClientKeeps
<1> HIDE DEF u
<1>5. Stopped(u) /\ u.run = s.run BY <1>3, <1>4 DEF Stopped, KeepsMore, Keeps, SameLink
<1>6. Live(u) BY <1>5, StoppedGone DEF Live
<1>7. Surroundings' /\ k'.ll = "none" BY <1>1, <1>2 DEF RtadvInv, Surroundings
<1>8. QED BY <1>2, <1>4, <1>5, <1>6, <1>7, Handled

\* A router is gone.
LEMMA RouterExpiredInv ==
    ASSUME RtadvInv, NEW left \in BOOLEAN, NEW e, rtadv_router_expired(left, e) PROVE RtadvInv'
<1> DEFINE t == rtadv_submit_awd_report(s, FALSE)
           a == rtadv_solicit_start(t, e)
           r == rtadv_restart_start(t)
<1>1. s \in ServiceType /\ other \in 0..ClatCount /\ Sound(s, other) /\ Live(s) BY Typed
<1>2. s.run /\ s.ra # NoRA /\ s' = (IF left THEN a ELSE r) /\ UNCHANGED <<k, other>> /\ events' \in Nat
  BY DEF rtadv_router_expired, Disturb, RtadvInv, Surroundings
<1>3. Sound(t, other) /\ KeepsMore(s, t) BY <1>1, ReportKeeps
<1> HIDE DEF t
<1>4. Sound(a, other) /\ SameLink(t, a) /\ (a.refused \/ (a.rx = "solicit" /\ a.st = "Solicit"))
  BY <1>1, <1>3, SolicitStart
<1>5. /\ Sound(r, other) /\ SameLink(t, r) /\ r.refused = t.refused /\ r.st = "Restart"
      /\ r.tm.fn = "restart" /\ r.ra = t.ra /\ r.rx = t.rx
  BY <1>3, RestartStart
<1> HIDE DEF a, r
<1>6. Surroundings' BY <1>2 DEF RtadvInv, Surroundings
<1>7. Hears(s) BY <1>1, <1>2 DEF Live, Restarts, Gone
<1>8. Live(a) /\ Awake(a) /\ a.run BY <1>2, <1>3, <1>4 DEF Live, Hears, Awake, SameLink, KeepsMore, Keeps
<1>9. Live(r) /\ Awake(r) /\ r.run
  BY <1>2, <1>3, <1>5, <1>7 DEF Live, Hears, Awake, SameLink, KeepsMore, Keeps
<1>10. QED BY <1>2, <1>4, <1>5, <1>6, <1>8, <1>9, Handled

\* An event whose handler is rtadv_address_changed after a change of fields the
\* invariant does not speak of.
LEMMA AlikeHandled ==
    ASSUME RtadvInv, s.run, NEW u \in ServiceType, Alike(s, u), NEW e,
           \/ s' = u
           \/ s' = rtadv_address_changed(u, e),
           UNCHANGED <<k, other>>, events' \in Nat
    PROVE  RtadvInv'
<1> DEFINE v == rtadv_address_changed_common(u, e)
<1>1. s \in ServiceType /\ other \in 0..ClatCount /\ Sound(s, other) /\ Live(s) BY Typed
<1>2. Good(s, u, other) /\ (Unstarted(s) => Unstarted(u)) /\ u.tm = s.tm /\ (Awake(u) <=> Awake(s))
  BY <1>1, AlikeGood
<1>3. Surroundings' BY DEF RtadvInv, Surroundings
<1>4. CASE s' = u
  <2>1. Pending' BY <1>2, <1>4 DEF RtadvInv, Pending, Good, SameLink
  <2>2. QED BY <1>2, <1>3, <1>4, <2>1 DEF RtadvInv, Good
<1>5. CASE s' = v
  <2>1. Sound(u, other) /\ Live(u) BY <1>2 DEF Good
  <2>2. Good(u, v, other) /\ (u.link /\ k.ll = "ready" => Awake(v)) BY <1>1, <2>1, AddressChangedGood
  <2> HIDE DEF v
  <2>3. v.run /\ v.link = u.link BY <1>2, <2>2 DEF Good, SameLink
  <2>4. QED BY <1>3, <1>5, <2>2, <2>3, Handled DEF Good
<1>6. QED BY <1>4, <1>5 DEF rtadv_address_changed

\* The outcome of the search for a translator.
LEMMA PLATInv ==
    ASSUME RtadvInv, NEW found \in BOOLEAN, NEW configured \in BOOLEAN, NEW e,
           PLATDiscoveryComplete(found, configured, e)
    PROVE  RtadvInv'
<1> DEFINE p == IF found THEN "found" ELSE "failed"
           t == [s EXCEPT !.plat = p]
           r == rtadv_submit_awd_report(t, FALSE)
           w == [t EXCEPT !.report = FALSE]
<1>1. s \in ServiceType BY Typed
<1>2. p \in {"unknown", "found", "failed"} OBVIOUS
<1>3. /\ s.run /\ UNCHANGED <<k, other>> /\ events' \in Nat
      /\ s' = IF found \/ ~configured THEN rtadv_address_changed(t, e) ELSE w
  BY DEF PLATDiscoveryComplete, Disturb, RtadvInv, Surroundings, rtadv_submit_awd_report
<1> HIDE DEF p
<1>4. t \in ServiceType BY <1>1, <1>2 DEF ServiceType
<1>5. Alike(s, t) BY <1>1 DEF ServiceType, Alike, KeepsMore, Keeps
<1>6. w \in ServiceType BY <1>4 DEF ServiceType
<1>7. Alike(t, w) BY <1>4 DEF ServiceType, Alike, KeepsMore, Keeps
<1> HIDE DEF t, w
<1>8. Alike(s, w) BY <1>5, <1>7 DEF Alike, KeepsMore, Keeps
<1>9. CASE found \/ ~configured BY <1>3, <1>4, <1>5, <1>9, AlikeHandled
<1>10. CASE ~(found \/ ~configured) BY <1>3, <1>6, <1>8, <1>10, AlikeHandled
<1>11. QED BY <1>9, <1>10

\* An IPv4 service comes or goes.
LEMMA IPv4Inv == ASSUME RtadvInv, IPv4Publish PROVE RtadvInv'
<1>1. /\ s' = s /\ other' = other /\ events' \in Nat
      /\ k' = [k EXCEPT !.v4 = ~@, !.ev = @ \cup {"v4"}]
  BY DEF IPv4Publish, Disturb, RtadvInv, Surroundings
<1>2. Surroundings' /\ k'.ll = k.ll /\ k.ev \subseteq k'.ev BY <1>1 DEF RtadvInv, Surroundings
<1>3. QED BY <1>1, <1>2 DEF RtadvInv, Pending, Awake

\* The DHCPv6 client works on its own.
LEMMA DHCPv6Inv ==
    ASSUME RtadvInv, NEW d \in Client, NEW tell \in BOOLEAN, NEW e, rtadv_dhcp_callback(d, tell, e)
    PROVE  RtadvInv'
<1> DEFINE t == [s EXCEPT !.d = d]
<1>1. s \in ServiceType BY Typed
<1>2. /\ s.run /\ UNCHANGED <<k, other>> /\ events' \in Nat
      /\ s' = IF tell THEN rtadv_address_changed(t, e) ELSE t
  BY DEF rtadv_dhcp_callback, Disturb, RtadvInv, Surroundings
<1>3. d \in [mode : {"None", "Stateless", "Address"}, active : BOOLEAN, info : BOOLEAN, ip : BOOLEAN]
  BY DEF Client
<1>4. t \in ServiceType BY <1>1, <1>3 DEF ServiceType
<1>5. Alike(s, t) BY <1>1 DEF ServiceType, Alike, KeepsMore, Keeps
<1> HIDE DEF t
<1>6. QED BY <1>2, <1>4, <1>5, AlikeHandled

\* Information expires.
LEMMA ExpirePvDInv == ASSUME RtadvInv, ExpirePvD PROVE RtadvInv'
<1> DEFINE c == [s.pvd EXCEPT !.exp = "past"]
           t == [s EXCEPT !.pvd = c]
<1>1. s \in ServiceType /\ other \in 0..ClatCount /\ Sound(s, other) /\ Live(s) BY Typed
<1>2. s.pvd \in Contexts BY <1>1 DEF ServiceType, Contexts
<1>3. c \in Contexts BY <1>2 DEF Contexts
<1>4. s' = t /\ UNCHANGED <<k, other, events>> BY <1>1, <1>2 DEF ExpirePvD, ServiceType
<1> HIDE DEF c
<1>5. t \in ServiceType BY <1>1, <1>3 DEF ServiceType, Contexts
<1>6. Alike(s, t) BY <1>1 DEF ServiceType, Alike, KeepsMore, Keeps
<1> HIDE DEF t
<1>7. Good(s, t, other) /\ (Unstarted(s) => Unstarted(t)) /\ t.tm = s.tm /\ (Awake(t) <=> Awake(s))
  BY <1>1, <1>5, <1>6, AlikeGood
<1>8. QED BY <1>4, <1>7 DEF RtadvInv, Surroundings, Pending, Good, SameLink

LEMMA ExpiredDNS ==
    ASSUME NEW a \in Adverts PROVE [a EXCEPT !.dns = "expired"].dns = "expired"
<1>1. a \in RA BY AdvertsRA
<1>2. QED BY <1>1 DEF RA

LEMMA ExpireDNSInv == ASSUME RtadvInv, ExpireDNS PROVE RtadvInv'
<1> DEFINE ra == [s.ra EXCEPT !.dns = "expired"]
           t == [s EXCEPT !.ra = ra]
<1>1. s \in ServiceType /\ other \in 0..ClatCount /\ Sound(s, other) /\ Live(s) BY Typed
<1>2. s.ra.dns = "live" /\ s.ra \in Known /\ s.ra \in RA BY <1>1, KnownRA DEF ExpireDNS, ServiceType
<1>3. s.ra # NoRA
  <2>1. NoRA.dns = "none" BY DEF NoRA
  <2>2. QED BY <1>2, <2>1
<1>4. s.ra \in Adverts
  <2>1. SUFFICES ASSUME NEW a \in Adverts, s.ra = [a EXCEPT !.dns = "expired"] PROVE FALSE
    BY <1>2, <1>3 DEF Known
  <2>2. QED BY <1>2, <2>1, ExpiredDNS
<1>5. ra \in Known BY <1>4 DEF Known
<1>6. s' = t /\ UNCHANGED <<k, other, events>> BY <1>1, <1>2 DEF ExpireDNS, ServiceType, RA
<1> HIDE DEF ra
<1>7. t \in ServiceType BY <1>1, <1>5 DEF ServiceType
<1>8. /\ SameLink(s, t) /\ t.refused = s.refused /\ t.st = s.st /\ t.rx = s.rx /\ t.tm = s.tm
      /\ t.req = s.req /\ t.renew = s.renew /\ t.use = s.use /\ t.clat = s.clat /\ t.clat_on = s.clat_on
  BY <1>1 DEF ServiceType, SameLink
<1> HIDE DEF t
<1>9. Sound(t, other) BY <1>1, <1>7, <1>8 DEF Sound, Held
<1>10. Hears(s) BY <1>1, <1>3 DEF Live, Restarts, Gone
<1>11. Live(t) /\ Awake(t) BY <1>8, <1>10 DEF Live, Hears, Awake
<1>12. Unstarted(t) BY <1>8 DEF RtadvInv, Unstarted, SameLink
<1>13. QED BY <1>6, <1>9, <1>11, <1>12 DEF RtadvInv, Surroundings, Pending

\* An advertisement arrives.
LEMMA ReceiveInv == ASSUME RtadvInv, NEW ra \in Adverts, NEW e, Receive(ra, e) PROVE RtadvInv'
<1> DEFINE x == rtadv_solicit_data(s, ra, e)
           y == rtadv_acquired_data(s, ra, e)
<1>1. s \in ServiceType /\ other \in 0..ClatCount /\ Sound(s, other) /\ Live(s) BY Typed
<1>2. s.rx # "none" /\ s' \in {x, y} /\ UNCHANGED <<k, other>> /\ events' \in Nat
  BY DEF Receive, Disturb, RtadvInv, Surroundings
<1>3. s.run /\ Hears(s) BY <1>1, <1>2 DEF RtadvInv, Unstarted, Live, Restarts, Gone, Hears
<1>4. Heard(s, x, other) BY <1>1, <1>3, SolicitData
<1>5. Heard(s, s, other) BY <1>1, <1>3 DEF Heard, SameLink
<1>6. Heard(s, y, other) BY <1>1, <1>5, AcquiredData
<1> HIDE DEF x, y
<1>7. Heard(s, s', other) BY <1>2, <1>4, <1>6
<1>8. Good(s, s', other) /\ Awake(s') BY <1>7, HeardGood
<1>9. Surroundings' BY <1>2 DEF RtadvInv, Surroundings
<1>10. QED BY <1>2, <1>3, <1>8, <1>9, Handled DEF Good, SameLink

\* The answer about a provisioning domain arrives.
LEMMA CallbackInv ==
    ASSUME RtadvInv, NEW res \in {"obtained", "idle", "failed"}, NEW exp \in {"none", "before", "after"}, NEW e,
           rtadv_pvd_additional_info_request_callback(res, exp, e)
    PROVE  RtadvInv'
<1> DEFINE c1 == [s.pvd EXCEPT !.ok = TRUE, !.exp = exp]
           c2 == PvDInfoContextFlush(s.pvd, FALSE)
           c3 == PvDInfoContextFlush([s.pvd EXCEPT !.ok = FALSE], TRUE)
           c == CASE res = "obtained" -> c1 [] res = "idle" -> c2 [] res = "failed" -> c3
           t == [s EXCEPT !.pvd = c]
           v == rtadv_address_changed_common(t, e)
           u == [v EXCEPT !.req = FALSE]
<1>1. s \in ServiceType /\ other \in 0..ClatCount /\ Sound(s, other) /\ Live(s) BY Typed
<1>2. s.pvd \in Contexts BY <1>1 DEF ServiceType, Contexts
<1>3. c \in Contexts
  <2>1. c1 \in Contexts /\ [s.pvd EXCEPT !.ok = FALSE] \in Contexts BY <1>2 DEF Contexts
  <2>2. c2 \in Contexts /\ c3 \in Contexts BY <1>2, <2>1, FlushedContext
  <2> HIDE DEF c1, c2, c3
  <2>3. c = c1 \/ c = c2 \/ c = c3 OBVIOUS
  <2>4. QED BY <2>1, <2>2, <2>3
<1>4. s.req /\ s' = u /\ UNCHANGED <<k, other, events>>
  BY DEF rtadv_pvd_additional_info_request_callback, rtadv_address_changed
<1> HIDE DEF c
<1>5. t \in ServiceType BY <1>1, <1>3 DEF ServiceType, Contexts
<1>6. Alike(s, t) BY <1>1 DEF ServiceType, Alike, KeepsMore, Keeps
<1> HIDE DEF t
<1>7. Good(s, t, other) BY <1>1, <1>5, <1>6, AlikeGood
<1>8. s.run BY <1>4 DEF RtadvInv, Unstarted
<1>9. Sound(t, other) /\ Live(t) BY <1>7 DEF Good
<1>10. Good(t, v, other) /\ (t.link /\ k.ll = "ready" => Awake(v)) BY <1>1, <1>9, AddressChangedGood
<1> HIDE DEF v
<1>11. v \in ServiceType BY <1>10 DEF Good, Sound
<1>12. u \in ServiceType BY <1>11 DEF ServiceType
<1>13. /\ Keeps(v, u) /\ u.clat = v.clat /\ u.pub = v.pub /\ u.renew = v.renew /\ ~u.req
       /\ u.pref64 = v.pref64 /\ u.use = v.use /\ u.clat_on = v.clat_on
  BY <1>11 DEF ServiceType, Keeps
<1> HIDE DEF u
<1>14. Sound(u, other) BY <1>10, <1>12, <1>13 DEF Good, Sound, Held
<1>15. Live(u) /\ (Awake(u) <=> Awake(v))
  BY <1>10, <1>13 DEF Keeps, Good, Live, Hears, Restarts, Gone, Awake
<1>16. u.run /\ u.link = t.link BY <1>7, <1>8, <1>10, <1>13 DEF Keeps, Good, SameLink
<1>17. Surroundings' BY <1>4 DEF RtadvInv, Surroundings
<1>18. QED BY <1>4, <1>10, <1>14, <1>15, <1>16, <1>17, Handled

\* A timer expires.
LEMMA TimerInv == ASSUME RtadvInv, NEW e, Timer(e) PROVE RtadvInv'
<1> DEFINE t == [s EXCEPT !.tm = NoTimer]
           a == rtadv_init(t, e)
           b == rtadv_solicit_timeout(t)
           c == rtadv_acquired_timeout(t, e)
           d == rtadv_solicit_start(t, e)
           fn == s.tm.fn
<1>1. s \in ServiceType /\ other \in 0..ClatCount /\ Sound(s, other) /\ Live(s) BY Typed
<1>2. fn \in {"start", "solicit", "acquired", "restart"}
  <2>1. s.tm \in TimerType BY <1>1 DEF ServiceType, TimerType
  <2>2. fn \in {"none", "start", "solicit", "acquired", "restart"} BY <2>1 DEF TimerType
  <2>3. Due BY DEF Timer
  <2>4. fn # "none" BY <2>3 DEF Due
  <2>5. QED BY <2>2, <2>4
<1>3. /\ s' = CASE fn = "start" -> a [] fn = "solicit" -> b [] fn = "acquired" -> c [] fn = "restart" -> d
      /\ Tells(k.ev) /\ UNCHANGED <<other, events>>
  BY DEF Timer
<1>4. s.run BY <1>2 DEF RtadvInv, Unstarted
<1>5. k.ev \subseteq {"addr", "v4"} BY DEF RtadvInv, Surroundings
<1>6. Surroundings' /\ k'.ll = k.ll BY <1>1, <1>3, <1>5, EventsTyped DEF RtadvInv, Surroundings
<1>7. NoTimer \in TimerType /\ NoTimer.fn = "none" BY DEF TimerType, NoTimer
<1>8. /\ Sound(t, other) /\ Same(s, t) /\ t.tm = NoTimer /\ t.try = s.try /\ t.req = s.req
      /\ t.clat = s.clat /\ t.pref64 = s.pref64 /\ t.pub = s.pub
  BY <1>1, <1>7, TimerKeeps
<1> HIDE DEF t
<1>9. t.run /\ (Hears(s) => Hears(t)) BY <1>4, <1>8 DEF Same, SameLink, Hears
<1>10. CASE fn = "start"
  <2>1. Live(t)
    <3>1. ~Restarts(s) BY <1>10 DEF Restarts
    <3>2. Gone(s) => Gone(t) BY <1>7, <1>8 DEF Gone, Same
    <3>3. QED BY <1>1, <1>9, <3>1, <3>2 DEF Live
  <2>2. Good(t, a, other) /\ (t.link /\ k.ll = "ready" => Awake(a)) BY <1>1, <1>8, <2>1, InitGood
  <2>3. s' = a BY <1>3, <1>10
  <2> HIDE DEF a
  <2>4. a.run /\ a.link = t.link BY <1>9, <2>2 DEF Good, SameLink
  <2>5. QED BY <1>3, <1>6, <2>2, <2>3, <2>4, Handled DEF Good
<1>11. ASSUME fn \in {"solicit", "acquired"} PROVE Hears(t)
  BY <1>1, <1>9, <1>11 DEF Live, Restarts, Gone
<1>12. CASE fn = "solicit"
  <2>1. /\ Sound(b, other) /\ SameLink(t, b) /\ b.refused = t.refused
        /\ (Stopped(b) /\ ~b.link /\ t.try # 0) \/ Same(t, b)
    BY <1>1, <1>8, SolicitTimeout
  <2>2. s' = b BY <1>3, <1>12
  <2> HIDE DEF b
  <2>3. Hears(t) BY <1>11, <1>12
  <2>4. Live(b) /\ (b.link => Awake(b))
    <3>1. CASE Stopped(b) /\ ~b.link BY <3>1, StoppedGone DEF Live
    <3>2. CASE Same(t, b) BY <2>3, <3>2 DEF Same, Live, Hears, Awake
    <3>3. QED BY <2>1, <3>1, <3>2
  <2>5. b.run BY <1>9, <2>1 DEF SameLink
  <2>6. QED BY <1>3, <1>6, <2>1, <2>2, <2>4, <2>5, Handled
<1>13. CASE fn = "acquired"
  <2>1. Heard(t, c, other) BY <1>1, <1>8, <1>11, <1>13, AcquiredTimeout
  <2>2. s' = c BY <1>3, <1>13
  <2> HIDE DEF c
  <2>3. Good(t, c, other) /\ Awake(c) BY <2>1, HeardGood
  <2>4. c.run BY <1>9, <2>3 DEF Good, SameLink
  <2>5. QED BY <1>3, <1>6, <2>2, <2>3, <2>4, Handled DEF Good
<1>14. CASE fn = "restart"
  <2>1. Sound(d, other) /\ SameLink(t, d) /\ (d.refused \/ (d.rx = "solicit" /\ d.st = "Solicit"))
    BY <1>1, <1>8, SolicitStart
  <2>2. s' = d BY <1>3, <1>14
  <2> HIDE DEF d
  <2>3. Live(d) /\ Awake(d) /\ d.run BY <1>9, <2>1 DEF Live, Hears, Awake, SameLink
  <2>4. QED BY <1>3, <1>6, <2>1, <2>2, <2>3, Handled
<1>15. QED BY <1>2, <1>10, <1>12, <1>13, <1>14

\* Another interface takes a CLAT46 address or gives it back.
LEMMA OtherInv == ASSUME RtadvInv, OtherInterface PROVE RtadvInv'
<1> DEFINE i == S_clat46_address_allocate(s.use)
           v == [s.use EXCEPT ![i] = @ + 1]
           w == S_clat46_address_release(s.use, other)
           x == [s EXCEPT !.use = v]
           y == [s EXCEPT !.use = w]
<1>0. ClatCount \in Nat \ {0} BY RtadvAssumption DEF RtadvAssumption
<1>1. s \in ServiceType /\ other \in 0..ClatCount /\ Sound(s, other) /\ Live(s) BY Typed
<1>2. s.use \in [Clat -> Nat] /\ s.clat \in 0..ClatCount BY <1>1 DEF ServiceType
<1>3. \A j \in Clat : s.use[j] = (IF s.clat = j THEN 1 ELSE 0) + (IF other = j THEN 1 ELSE 0)
  BY <1>1 DEF Sound, Held
<1>4. \A j \in Clat : j # 0 /\ j \in 0..ClatCount BY DEF Clat
<1>5. UNCHANGED k /\ events' \in Nat BY DEF OtherInterface, Disturb, RtadvInv, Surroundings
<1>6. ASSUME NEW q \in [Clat -> Nat], s' = [s EXCEPT !.use = q], other' \in 0..ClatCount,
             \A j \in Clat : q[j] = (IF s.clat = j THEN 1 ELSE 0) + (IF other' = j THEN 1 ELSE 0),
             s.clat = other' /\ other' # 0 => ClatCount = 1
      PROVE  RtadvInv'
  <2> DEFINE u == [s EXCEPT !.use = q]
  <2>1. u \in ServiceType BY <1>1 DEF ServiceType
  <2>2. KeepsMore(s, u) /\ u.pref64 = s.pref64 /\ u.use = q /\ u.clat_on = s.clat_on
    BY <1>1 DEF ServiceType, KeepsMore, Keeps
  <2>3. s' = u BY <1>6
  <2> HIDE DEF u
  <2>4. Held(u, other') BY <1>1, <1>6, <2>2 DEF Sound, Held, KeepsMore
  <2>5. Sound(u, other') BY <1>1, <2>1, <2>2, <2>4 DEF Sound, KeepsMore
  <2>6. Live(u) /\ Unstarted(u) /\ (Awake(u) <=> Awake(s))
    BY <1>1, <2>2 DEF RtadvInv, KeepsMore, Keeps, Live, Hears, Restarts, Gone, Awake, Unstarted
  <2>7. Surroundings' BY <1>5, <1>6 DEF RtadvInv, Surroundings
  <2>8. Pending' BY <1>5, <2>2, <2>3, <2>6 DEF RtadvInv, Pending, KeepsMore, Keeps
  <2>9. QED BY <2>3, <2>5, <2>6, <2>7, <2>8 DEF RtadvInv
<1>7. CASE other = 0
  <2>1. other' = i /\ s' = x BY <1>7 DEF OtherInterface
  <2>2. \A j \in Clat : s.use[j] = IF s.clat = j THEN 1 ELSE 0 BY <1>3, <1>4, <1>7
  <2>3. i \in Clat /\ (i = s.clat => ClatCount = 1) BY <1>2, <2>2, Allocated
  <2> HIDE DEF i
  <2>4. v \in [Clat -> Nat] BY <1>2, <2>3
  <2>5. \A j \in Clat : v[j] = (IF s.clat = j THEN 1 ELSE 0) + (IF i = j THEN 1 ELSE 0)
    <3>1. SUFFICES ASSUME NEW j \in Clat
                   PROVE  v[j] = (IF s.clat = j THEN 1 ELSE 0) + (IF i = j THEN 1 ELSE 0)
      OBVIOUS
    <3>2. v[j] = IF i = j THEN s.use[j] + 1 ELSE s.use[j] BY <1>2, <2>3
    <3>3. QED BY <2>2, <3>2
  <2> HIDE DEF v
  <2>6. QED BY <1>4, <1>6, <2>1, <2>3, <2>4, <2>5
<1>8. CASE other # 0
  <2>1. other' = 0 /\ s' = y BY <1>1, <1>8 DEF OtherInterface, ServiceType
  <2>2. other \in Clat BY <1>0, <1>1, <1>8 DEF Clat
  <2>3. s.use[other] \in Nat /\ s.use[other] >= 1 BY <1>2, <1>3, <2>2
  <2>4. w = [s.use EXCEPT ![other] = @ - 1] BY <2>3 DEF S_clat46_address_release
  <2>5. w \in [Clat -> Nat] BY <1>2, <2>2, <2>3, <2>4
  <2>6. \A j \in Clat : w[j] = (IF s.clat = j THEN 1 ELSE 0) + (IF 0 = j THEN 1 ELSE 0)
    <3>1. SUFFICES ASSUME NEW j \in Clat
                   PROVE  w[j] = (IF s.clat = j THEN 1 ELSE 0) + (IF 0 = j THEN 1 ELSE 0)
      OBVIOUS
    <3>2. w[j] = IF other = j THEN s.use[j] - 1 ELSE s.use[j] BY <1>2, <2>2, <2>4
    <3>3. QED BY <1>3, <1>4, <3>2
  <2>7. 0 \in 0..ClatCount BY <1>0
  <2> HIDE DEF w
  <2>8. QED BY <1>6, <2>1, <2>5, <2>6, <2>7
<1>9. QED BY <1>7, <1>8

\* Every step keeps the invariant.
LEMMA RtadvStep == RtadvInv /\ [RtadvNext]_rtadvVars => RtadvInv'
<1> SUFFICES ASSUME RtadvInv, [RtadvNext]_rtadvVars PROVE RtadvInv' OBVIOUS
<1>1. CASE rtadv_schedule_start BY <1>1, StartInv
<1>2. CASE rtadv_stop BY <1>2, StopInv
<1>3. CASE LinkTimerExpired BY <1>3, LinkTimerInv
<1>4. CASE \E ll \in {"none", "tentative", "ready"}, addr \in {"none", "tentative", "ready"} :
              KernelChanges(ll, addr)
  BY <1>4, KernelInv
<1>5. CASE ExpireDNS BY <1>5, ExpireDNSInv
<1>6. CASE ExpirePvD BY <1>6, ExpirePvDInv
<1>7. CASE OtherInterface BY <1>7, OtherInv
<1>8. CASE IPv4Publish BY <1>8, IPv4Inv
<1>9. ASSUME NEW e \in Env, NEW ev, AddressEvent(ev, e) PROVE RtadvInv' BY <1>9, AddressEventInv
<1>10. ASSUME NEW e \in Env, Timer(e) PROVE RtadvInv' BY <1>10, TimerInv
<1>11. ASSUME NEW e \in Env, NEW ev \in {"wake", "renew", "link"}, NEW up \in BOOLEAN, NEW changed \in BOOLEAN,
              LinkEvent(ev, up, changed, e)
       PROVE  RtadvInv'
  BY <1>11, LinkEventInv
<1>12. ASSUME NEW e \in Env, NEW b \in BOOLEAN, rtadv_router_expired(b, e) PROVE RtadvInv'
  BY <1>12, RouterExpiredInv
<1>13. ASSUME NEW e \in Env, NEW b \in BOOLEAN, NEW c \in BOOLEAN, PLATDiscoveryComplete(b, c, e) PROVE RtadvInv'
  BY <1>13, PLATInv
<1>14. ASSUME NEW e \in Env, NEW ra \in Adverts, Receive(ra, e) PROVE RtadvInv' BY <1>14, ReceiveInv
<1>15. ASSUME NEW e \in Env, NEW res \in {"obtained", "idle", "failed"}, NEW exp \in {"none", "before", "after"},
              rtadv_pvd_additional_info_request_callback(res, exp, e)
       PROVE  RtadvInv'
  BY <1>15, CallbackInv
<1>16. ASSUME NEW e \in Env, NEW d \in Client, NEW tell \in BOOLEAN, rtadv_dhcp_callback(d, tell, e)
       PROVE  RtadvInv'
  BY <1>16, DHCPv6Inv
<1>17. CASE UNCHANGED rtadvVars
  BY <1>17 DEF rtadvVars, RtadvInv, Surroundings, Pending
<1>18. QED
  BY <1>1, <1>2, <1>3, <1>4, <1>5, <1>6, <1>7, <1>8, <1>9, <1>10, <1>11, <1>12, <1>13, <1>14, <1>15, <1>16,
     <1>17 DEF RtadvNext

\* rtadv_failed leaves nothing behind, on every interface and however the
\* events mix: no CLAT46 address, NAT64 prefix, request, timer or receive
\* function of a service that has given up, and no publication except by a
\* cellular renewal; and the CLAT46 addresses in use are counted (rtadv.c).
THEOREM RtadvClean == RtadvSpec => []InactiveIsClean
<1>1. RtadvSpec => []RtadvInv BY InitInv, RtadvStep, PTL DEF RtadvSpec
<1>2. QED BY <1>1, RtadvInvImplies, PTL

\* A running service on an active link with a link-local address hears routers
\* or has a timer, unless the kernel refused router advertisements: no order of
\* link changes, wakes, restarts and addresses leaves it deaf (rtadv.c).
THEOREM RtadvListens == RtadvSpec => []ListensToRouters
<1>1. RtadvSpec => []RtadvInv BY InitInv, RtadvStep, PTL DEF RtadvSpec
<1>2. QED BY <1>1, RtadvInvImplies, PTL
=============================================================================
