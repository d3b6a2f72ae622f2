-------------------------- MODULE MCFrameTransfer --------------------------
(* Instances of FrameTransfer for TLC: the service channel and one data     *)
(* channel, written to by one device (OneWay) or both (BothWays).           *)
EXTENDS FrameTransfer

CONSTANTS car, phone, service, data

Devices == {car, phone}
Channels == {service, data}

OneWay == [n \in Devices |-> [ch \in Channels |->
             IF ch = service THEN 1 ELSE IF n = car THEN 2 ELSE 0]]
BothWays == [n \in Devices |-> [ch \in Channels |-> IF ch = service THEN 1 ELSE 2]]

=============================================================================
