---------------------------- MODULE SharedSocket ----------------------------
(***************************************************************************)
(* The descriptors that the protocol engines of the agent share: one UDP   *)
(* socket for all BOOTP clients (bootp_session.c), one for all DHCPv6      *)
(* clients (DHCPv6Socket.c) and one ICMPv6 socket for all router           *)
(* solicitations (RTADVSocket.c).  Each is opened by its first user,       *)
(* counted, closed one second after its last, and wrapped in a dispatch    *)
(* source whose cancellation completes later on the same queue.  The three *)
(* differ: a bootp or dhcpv6 socket in cancellation is revived if it found *)
(* users meanwhile, an rtadv socket is always closed and replaced.         *)
(***************************************************************************)
EXTENDS Naturals, FiniteSets

CONSTANTS
    User,      \* the clients, at most one per interface
    Fd,        \* descriptors the kernel can hand out
    NoFd

ASSUME FdAssumption == NoFd \notin Fd

Family == {"bootp", "dhcpv6", "rtadv"}

VARIABLES
    fam,            \* which of the three this is
    made,           \* clients that exist
    rx,             \* clients with a receive function
    fd_open,        \* clients that count as users
    users,          \* read_fd_refcount
    read_fd,        \* the descriptor of the dispatch source, or NoFd
    cancelling,     \* descriptors whose cancel handler has yet to run
    cancel_pending, \* the flag of bootp_session and DHCPv6SocketGlobals
    closing         \* the timer of the delayed close is set

socketVars == <<fam, made, rx, fd_open, users, read_fd, cancelling,
          cancel_pending, closing>>
fdVars == <<users, read_fd, cancelling, cancel_pending, closing>>

\* The types of the variables; a client that listens need not be a user.
SocketTypeOK ==
    /\ fam \in Family
    /\ made \subseteq User /\ rx \subseteq User /\ fd_open \subseteq User
    /\ users \in Nat
    /\ read_fd \in Fd \cup {NoFd}
    /\ cancelling \subseteq Fd
    /\ cancel_pending \in BOOLEAN /\ closing \in BOOLEAN

SocketInit ==
    /\ fam \in Family
    /\ made = {} /\ rx = {} /\ fd_open = {}
    /\ users = 0 /\ read_fd = NoFd /\ cancelling = {}
    /\ cancel_pending = FALSE /\ closing = FALSE

-----------------------------------------------------------------------------

\* Mutant: the clients are told that there is a descriptor.
OpenIgnoresCancel == UNCHANGED read_fd
\* Opening the descriptor: a cancellation under way will bring the old one
\* back, otherwise the kernel hands out one that is not in use.
bootp_session_open_socket ==
    IF cancel_pending THEN UNCHANGED read_fd ELSE read_fd' \in Fd \ cancelling
RTADVSocketOpenSocketFD == read_fd' \in Fd \ cancelling

\* A client starts to use the descriptor.  Only the first one opens it, and
\* only if the last use is more than a second ago.
DHCPv6SocketOpenSocket(c) ==
    /\ c \notin fd_open
    /\ fd_open' = fd_open \cup {c}
    /\ users' = users + 1
    /\ closing' = FALSE
    /\ UNCHANGED <<cancelling, cancel_pending>>
    /\ IF users > 0 \/ read_fd # NoFd THEN UNCHANGED read_fd
       ELSE IF fam = "rtadv" THEN RTADVSocketOpenSocketFD
       ELSE bootp_session_open_socket

\* The clients of BOOTP and of router solicitations do the same.
bootp_client_open_socket(c) == DHCPv6SocketOpenSocket(c)
RTADVSocketOpenSocket(c) == DHCPv6SocketOpenSocket(c)
OpenSocket(c) ==
    CASE fam = "bootp" -> bootp_client_open_socket(c)
      [] fam = "dhcpv6" -> DHCPv6SocketOpenSocket(c)
      [] fam = "rtadv" -> RTADVSocketOpenSocket(c)

\* The descriptor cannot be opened: the client is taken off the count again,
\* which starts the timer of the delayed close.
OpenFails(c) ==
    /\ c \notin fd_open
    /\ users = 0 /\ read_fd = NoFd /\ ~cancel_pending
    /\ closing' = TRUE
    /\ UNCHANGED <<fd_open, users, read_fd, cancelling, cancel_pending>>

\* Mutant: the last client closes without the timer.
CloseWithoutTimer(c) ==
    /\ fd_open' = fd_open \ {c}
    /\ IF c \in fd_open /\ users > 0 THEN users' = users - 1 ELSE UNCHANGED users
    /\ UNCHANGED <<read_fd, cancelling, cancel_pending, closing>>
\* A client stops: the last one starts the timer.
DHCPv6SocketCloseSocket(c) ==
    /\ fd_open' = fd_open \ {c}
    /\ IF c \in fd_open /\ users > 0
         THEN users' = users - 1 /\ closing' = (closing \/ users = 1)
         ELSE UNCHANGED <<users, closing>>
    /\ UNCHANGED <<read_fd, cancelling, cancel_pending>>

bootp_client_close_socket(c) == DHCPv6SocketCloseSocket(c)
RTADVSocketCloseSocket(c) == DHCPv6SocketCloseSocket(c)
CloseSocket(c) ==
    CASE fam = "bootp" -> bootp_client_close_socket(c)
      [] fam = "dhcpv6" -> DHCPv6SocketCloseSocket(c)
      [] fam = "rtadv" -> RTADVSocketCloseSocket(c)

\* The release of the dispatch source, unless one is already under way.
DHCPv6SocketScheduleClose ==
    IF cancel_pending
      THEN UNCHANGED <<read_fd, cancelling, cancel_pending>>
      ELSE /\ cancel_pending' = TRUE
           /\ cancelling' = cancelling \cup ({read_fd} \cap Fd)
           /\ read_fd' = NoFd
RTADVSocketScheduleClose ==
    /\ cancelling' = cancelling \cup ({read_fd} \cap Fd)
    /\ read_fd' = NoFd
    /\ UNCHANGED cancel_pending

-----------------------------------------------------------------------------

\* A client is made for an interface.
Create(c) ==
    /\ c \notin made
    /\ made' = made \cup {c}
    /\ UNCHANGED <<fam, rx, fd_open>> /\ UNCHANGED fdVars

\* The receive function is set even if the descriptor cannot be opened.
EnableReceive(c) ==
    /\ c \in made
    /\ rx' = rx \cup {c}
    /\ UNCHANGED <<fam, made>>
    /\ \/ OpenSocket(c) \/ OpenFails(c)
       \/ c \in fd_open /\ UNCHANGED fd_open /\ UNCHANGED fdVars

DisableReceive(c) ==
    /\ c \in rx
    /\ rx' = rx \ {c}
    /\ CloseSocket(c)
    /\ UNCHANGED <<fam, made>>

\* Freeing a client disables its receive function as well.
Release(c) ==
    /\ c \in made
    /\ made' = made \ {c}
    /\ rx' = rx \ {c}
    /\ CloseSocket(c)
    /\ UNCHANGED fam

\* A client that is not receiving opens the descriptor for one packet and
\* gives it back: nobody uses it then, and the timer runs.
Borrow(c) ==
    /\ c \in made /\ c \notin fd_open
    /\ closing' = (users = 0)
    /\ \/ users = 0 /\ read_fd = NoFd /\ ~cancel_pending /\ read_fd' \in Fd \ cancelling
       \/ UNCHANGED read_fd
    /\ UNCHANGED <<fam, made, rx, fd_open, users, cancelling, cancel_pending>>

\* BOOTP does so for a unicast packet and goes on without a descriptor.
bootp_client_transmit(c) == fam = "bootp" /\ Borrow(c)

\* DHCPv6 drops the packet while the descriptor is on its way out.
DHCPv6SocketTransmit(c) ==
    /\ fam = "dhcpv6" /\ ~(read_fd = NoFd /\ cancel_pending)
    /\ Borrow(c)

RTADVSocketSendSolicitation(c) == fam = "rtadv" /\ Borrow(c)

\* One second without users.
DelayedClose ==
    /\ closing
    /\ closing' = FALSE
    /\ IF read_fd = NoFd \/ users > 0
         THEN UNCHANGED <<read_fd, cancelling, cancel_pending>>
         ELSE IF fam = "rtadv" THEN RTADVSocketScheduleClose
         ELSE DHCPv6SocketScheduleClose
    /\ UNCHANGED <<fam, made, rx, fd_open, users>>

\* A read that fails with ENOTCONN closes the descriptor under its users.
\* The rtadv read only logs the error.
ReadFails ==
    /\ fam # "rtadv" /\ read_fd # NoFd
    /\ DHCPv6SocketScheduleClose
    /\ UNCHANGED <<fam, made, rx, fd_open, users, closing>>

\* The cancel handler: revive the descriptor for the users it found
\* meanwhile, or close it.
bootp_session_fd_complete(f) ==
    /\ cancel_pending' = FALSE
    /\ read_fd' = IF users > 0 THEN f ELSE read_fd
RTADVSocketFDComplete(f) == UNCHANGED <<cancel_pending, read_fd>>

FDComplete(f) ==
    /\ f \in cancelling
    /\ cancelling' = cancelling \ {f}
    /\ IF fam = "rtadv" THEN RTADVSocketFDComplete(f) ELSE bootp_session_fd_complete(f)
    /\ UNCHANGED <<fam, made, rx, fd_open, users, closing>>

SocketNext ==
    \/ \E c \in User : \/ Create(c) \/ EnableReceive(c) \/ DisableReceive(c)
                         \/ Release(c) \/ bootp_client_transmit(c)
                         \/ DHCPv6SocketTransmit(c) \/ RTADVSocketSendSolicitation(c)
    \/ DelayedClose \/ ReadFails
    \/ \E f \in Fd : FDComplete(f)

\* The main queue runs timers that are due and cancel handlers.
SocketFairness ==
    /\ WF_socketVars(DelayedClose)
    /\ \A f \in Fd : WF_socketVars(FDComplete(f))

SocketSpec == SocketInit /\ [][SocketNext]_socketVars /\ SocketFairness

-----------------------------------------------------------------------------

\* What the sharing rests on, however opening, failing, closing and cancelling
\* interleave: the count is the number of users; no descriptor is read and
\* cancelled at once; a bootp or dhcpv6 socket has one descriptor at most, and
\* its flag stands for exactly the cancellation under way.  A user has a
\* descriptor or one that its cancel handler brings back
\* (RTADVSocketSendSolicitation takes the descriptor without a test), and a
\* descriptor nobody uses has a timer that will close it.
Counted ==
    /\ SocketTypeOK
    /\ users = Cardinality(fd_open) /\ fd_open \subseteq made
    /\ read_fd \notin cancelling
    /\ fam # "rtadv" => /\ cancel_pending <=> cancelling # {}
                        /\ Cardinality(cancelling) <= 1
                        /\ cancel_pending => read_fd = NoFd
    /\ fd_open # {} => read_fd # NoFd \/ (fam # "rtadv" /\ cancel_pending)
    /\ read_fd # NoFd /\ fd_open = {} => closing

\* An open client hears the network again after every failure of the
\* descriptor, however the cancellation and the new users interleave.
ListensAgain == (fd_open # {}) ~> (fd_open = {} \/ read_fd # NoFd)
=============================================================================
