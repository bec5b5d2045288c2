---------------------------- MODULE ARPRequests ----------------------------
(***************************************************************************)
(* What arp_session.h promises the configuration methods: a request        *)
(* (probe, announce, resolve, detect) is answered exactly once through its *)
(* callback, unless it is withdrawn or replaced first, and the answer is   *)
(* "in_use" only if a packet that matches the request arrived meanwhile.   *)
(***************************************************************************)
CONSTANT Client

\* The request of each client: none, waiting without or with a matching
\* packet, or the answer to the last one
VARIABLE req

Result == {"in_use", "not_in_use", "error"}
Pending == {"waiting", "heard"}

Init == req = [c \in Client |-> "idle"]

Ask(c) == req' = [req EXCEPT ![c] = "waiting"]

Withdraw(c) == req' = [req EXCEPT ![c] = "idle"]

\* One packet may match the requests of several clients
Hear(S) ==
    /\ \A c \in S : req[c] \in Pending
    /\ req' = [c \in Client |-> IF c \in S THEN "heard" ELSE req[c]]

Answer(c) ==
    /\ req[c] \in Pending
    /\ \E r \in Result :
         /\ r = "in_use" => req[c] = "heard"
         /\ req' = [req EXCEPT ![c] = r]

Next ==
    \/ \E c \in Client : Ask(c) \/ Withdraw(c) \/ Answer(c)
    \/ \E S \in SUBSET Client : Hear(S)

\* Answered at most once, and eventually
Safe == Init /\ [][Next]_req
Spec == Safe /\ \A c \in Client : WF_req(Answer(c))
=============================================================================
