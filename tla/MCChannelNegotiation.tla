------------------------ MODULE MCChannelNegotiation ------------------------
(* Model checking ChannelNegotiation: who calls with which tags, how often. *)
EXTENDS ChannelNegotiation

CONSTANTS media, phone

\* The master's applications are the servers.
MCUses == [n \in {Master, Slave} |-> Name \X {IF n = Master THEN "SERVER" ELSE "CLIENT"}]

\* Each tag has a process of its own.
MCApp == [t \in Name \X {"SERVER", "CLIENT"} |-> t]

Bounds(forMedia, forPhone, nFaults, isTaken) ==
  [requests |-> [a \in Name |-> IF a = media THEN forMedia ELSE forPhone],
   faults |-> nFaults, taken |-> isTaken]

\* One tag alone, past a number that is taken, with room for retries; and two
\* that compete for numbers.
MCScenario == {Bounds(4, 0, 2, {1}), Bounds(2, 1, 1, {}), Bounds(2, 2, 0, {})}

=============================================================================
