------------------------ MODULE MCTransmitDispatcher ------------------------
(* Instances of TransmitDispatcher for TLC: the service channel with        *)
(* real-time and plain sources.                                             *)
EXTENDS TransmitDispatcher

CONSTANTS service, video, audio, logs

Busy == {service, video, audio, logs}

Priorities ==
  [ch \in Channel |-> CASE ch = service -> eSafetyCritical
                        [] ch \in {video, audio} -> eRealTime
                        [] OTHER -> ePlainData]

=============================================================================
