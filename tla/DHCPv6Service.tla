--------------------------- MODULE DHCPv6Service ---------------------------
(***************************************************************************)
(* What the DHCPv6 client promises to the router advertisement service     *)
(* that owns it: rtadv.c sees the mode it asked for, whether an exchange is *)
(* under way, whether there is information, and the address.               *)
(***************************************************************************)
CONSTANTS Addr, NoAddr

VARIABLES mode, active, info, ip
vars == <<mode, active, info, ip>>

Init == mode = "None" /\ ~active /\ ~info /\ ip = NoAddr

\* A stopped client is silent and has no address; what it learned it keeps.
Stop == mode' = "None" /\ active' = FALSE /\ ip' = NoAddr /\ info' \in BOOLEAN

\* A client starts in the mode it is asked for, and has nothing to offer yet
\* but what it may confirm of an earlier time.
Start(m) ==
    /\ mode' = m /\ active' = TRUE /\ ip' = NoAddr
    /\ info' \in IF m = "Address" THEN BOOLEAN ELSE {FALSE}

\* While it runs it learns and forgets.  A stateless client has no address,
\* an address comes with the information of the same packet, and does not
\* change into another one while an exchange for it goes on.
Work ==
    /\ mode # "None" /\ UNCHANGED mode
    /\ active' \in BOOLEAN /\ info' \in BOOLEAN
    /\ ip' \in IF mode = "Address" THEN Addr \cup {NoAddr} ELSE {NoAddr}
    /\ ip' \notin {ip, NoAddr} => info' /\ ~active'

Next == Stop \/ Work \/ \E m \in {"Stateless", "Address"} : Start(m)
Spec == Init /\ [][Next]_vars
=============================================================================
