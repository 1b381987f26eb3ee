---------------------------- MODULE MCConnection ----------------------------
(***************************************************************************)
(* Instances of Connection for TLC.                                        *)
(***************************************************************************)
EXTENDS ConnectionProperties

Scenario(d, l, f, s, suffices) ==
    [maxDrops |-> d, maxLoss |-> l, maxFlight |-> f,
     maxSessions |-> s, pauseSuffices |-> suffices]

\* Pauses that suffice and a lost datagram; pauses that do not; a sender that
\* dies.
LossOrDelay ==
    {Scenario(0, 1, 3, 3, TRUE), Scenario(0, 0, 2, 2, FALSE),
     Scenario(1, 0, 2, 1, FALSE)}

Delay == {Scenario(0, 0, 3, 3, FALSE)}

Drop == {Scenario(1, 0, 3, 3, TRUE)}
=============================================================================
