--------------------------- MODULE MCStreamWakeup ---------------------------
(***************************************************************************)
(* Four schedules of node 1 for StreamWakeup: without streams; one woken   *)
(* up in every tile; two of which one is woken up before the repetition    *)
(* begins; two in a schedule of two superframes.                           *)
(***************************************************************************)
EXTENDS StreamWakeup

MCSuperframe == <<"downlink", "uplink">>
MCAdvance == 1 :> 1 @@ 2 :> 2

MCSend(i, p, o) ==
    [stream |-> [id |-> i, src |-> 1, dst |-> 2, period |-> p], tx |-> 1, rx |-> 2, offset |-> o]

MCSchedules ==
    <<[elements |-> <<>>, tiles |-> 2],
      [elements |-> <<MCSend(1, 1, 1)>>, tiles |-> 2],
      [elements |-> <<MCSend(2, 2, 1), MCSend(1, 2, 4)>>, tiles |-> 2],
      [elements |-> <<MCSend(1, 2, 5), MCSend(2, 4, 1)>>, tiles |-> 4]>>

=============================================================================
