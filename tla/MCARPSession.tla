---------------------------- MODULE MCARPSession ----------------------------
(* Small instances of ARPSession.                                           *)
EXTENDS ARPSession

\* One address and NoAddr; the packets that the criteria tell apart
MCPackets ==
    {[op |-> "reply", src |-> a, dst |-> a, ours |-> o, exact |-> e] :
        a \in Addr, o, e \in BOOLEAN}
      \cup {[op |-> "request", src |-> s, dst |-> a, ours |-> FALSE, exact |-> FALSE] :
        a \in Addr, s \in Addr \cup {NoAddr}}

MCLists == {Addr}
=============================================================================
