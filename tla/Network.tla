------------------------------- MODULE Network -------------------------------
(***************************************************************************)
(* The table of TCP connections of kernel/net/network.c.                   *)
(*                                                                         *)
(* A slot keeps its state; addresses, ports, sequence numbers and buffers  *)
(* decide nothing.  No code receives a segment, so no slot is ever          *)
(* ESTABLISHED, and tcp_send and tcp_receive return -1 from every state    *)
(* reached here.                                                           *)
(***************************************************************************)
EXTENDS Integers, FiniteSets

CONSTANT MAX_CONNECTIONS    \* length of the array (64)

ASSUME NetworkAssumption == MAX_CONNECTIONS \in Nat

VARIABLE connections        \* the state of every slot

Slots == 0 .. MAX_CONNECTIONS - 1

ConnectionsTypeOK ==
    connections \in [Slots -> {"CLOSED", "LISTEN", "SYN_SENT", "FIN_WAIT"}]

AllClosed == [i \in Slots |-> "CLOSED"]

\* The first closed slot, if there is one.
FreeSlot ==
    {i \in Slots :
        connections[i] = "CLOSED" /\ \A j \in 0 .. i - 1 : connections[j] # "CLOSED"}

tcp_listen ==
    \E i \in FreeSlot : connections' = [connections EXCEPT ![i] = "LISTEN"]

tcp_connect ==
    \E i \in FreeSlot : connections' = [connections EXCEPT ![i] = "SYN_SENT"]

\* tcp_close looks at no state: an unused slot is closed like any other.
tcp_close(i) == connections' = [connections EXCEPT ![i] = "FIN_WAIT"]

NetworkNext ==
    \/ tcp_listen
    \/ tcp_connect
    \/ \E i \in Slots : tcp_close(i)

get_active_connections == Cardinality({i \in Slots : connections[i] # "CLOSED"})

-----------------------------------------------------------------------------
\* docs/technical.md:99 promises up to 64 connections at the same time: when all of
\* them are open and one is closed, there is a slot for another.
SimultaneousConnections ==
    [][(\A i \in Slots : connections[i] \in {"LISTEN", "SYN_SENT"})
           /\ (\E i \in Slots : connections'[i] = "FIN_WAIT")
        => FreeSlot' # {}]_connections
=============================================================================
