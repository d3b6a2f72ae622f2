------------------------- MODULE MCChannelAllocation -------------------------
(* Instances of ChannelAllocation for TLC: one channel (the maps treat      *)
(* channels independently), one or two IPC directions per device.           *)
EXTENDS ChannelAllocation, TLC

CONSTANTS car, phone

\* The protocol has no distinguished side.
Devices == {car, phone}
Symmetry == Permutations(Devices)

=============================================================================
