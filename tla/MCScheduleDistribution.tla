----------------------- MODULE MCScheduleDistribution -----------------------
(***************************************************************************)
(* Small instances of ScheduleDistribution.                                *)
(***************************************************************************)
EXTENDS ScheduleDistribution

\* The default control superframe, a downlink and an uplink, with a timesync
\* every four of them.
Network(challenge, errors, last) ==
    [size |-> 2, downlinks |-> {0}, superframesPerSync |-> 4,
     doMasterChallenge |-> challenge, clockErrors |-> errors, lastTile |-> last]

\* Long enough for a node to synchronize and for two distributions; with a
\* clock that is out of its window; with challenges.
ThreeNetworks ==
    {Network(FALSE, FALSE, 54), Network(FALSE, TRUE, 40), Network(TRUE, FALSE, 36)}
OneNetwork == {Network(FALSE, FALSE, 40)}

\* Schedules of one packet and of two.
Short == [streams |-> 1, elements |-> 1, tiles |-> 4]
Long == [streams |-> 2, elements |-> 4, tiles |-> 2]
TwoSizes == {Short, Long}
OneLong == {Long}

=============================================================================
