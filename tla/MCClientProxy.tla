--------------------------- MODULE MCClientProxy ---------------------------
(* Instances of ClientProxy for TLC: one channel, one application and, in   *)
(* some runs, the watchdog's client per device.                             *)
EXTENDS ClientProxy, TLC

CONSTANTS car, phone

Devices == {car, phone}
Symmetry == Permutations(Devices)

\* What the state is to the clients: no timer fires here, and the counters only
\* bound how often something happens. With bounds that no search reaches, the
\* states are those of any number of calls and of forced deallocations.
View == <<requested, registry, opened, expiring, handling, net, ntf,
          channels, request, onDealloc, result, pc, forced > 0, failed>>

=============================================================================
