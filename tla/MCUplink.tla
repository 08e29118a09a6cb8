------------------------------ MODULE MCUplink ------------------------------
(***************************************************************************)
(* Instance of Uplink: the master and two nodes.  Every two nodes hear each*)
(* other, nodes 0 and 2 only weakly, so that node 2 may hand its SMEs to   *)
(* node 1 or to the master.                                                *)
(***************************************************************************)
EXTENDS Uplink

MCSuperframe == <<"DOWNLINK", "UPLINK", "UPLINK">>

MCRssi ==
    [s \in Nodes |-> [r \in Nodes |->
        CASE s = r -> NoSignal
          [] {s, r} = {0, 2} -> -90
          [] OTHER -> -60]]

MCNoSignal == -200

MCMinStrongRssi == -75
MCMinWeakRssi == -95

MCOrigin == [x \in Smes |-> 2]

\* Whatever waits to be sent, the sender fills the packets as the receiver
\* expects, and sends all that it announces.
ASSUME PacketsAgree ==
    \A topologies, smes \in 0 .. 6 :
        LET header == Allocation(topologies, smes)
            sent == Sent(header)
        IN  /\ sent[header.packets] = [topologies |-> header.topologies, smes |-> header.smes]
            /\ \A p \in 1 .. header.packets :
                  Acceptable(sent, p, header.topologies, header.smes)

=============================================================================
