-------------------------- MODULE ReliableChannel --------------------------
(***************************************************************************)
(* What the Connectivity Agent promises to those who send on a channel:    *)
(* the peer receives a prefix of what was written, in order, each item     *)
(* once.  Items are numbered from 1 per sender and channel.                *)
(***************************************************************************)
EXTENDS Naturals, Sequences

CONSTANTS Sender, Channel

VARIABLES written,  \* items written so far
          received  \* what the peer's consumer got, in its order

Init ==
  /\ written = [n \in Sender |-> [ch \in Channel |-> 0]]
  /\ received = [n \in Sender |-> [ch \in Channel |-> <<>>]]

Write(n, ch) ==
  /\ written' = [written EXCEPT ![n][ch] = @ + 1]
  /\ UNCHANGED received

Deliver(n, ch) ==
  LET item == Len(received[n][ch]) + 1
  IN /\ item <= written[n][ch]
     /\ received' = [received EXCEPT ![n][ch] = Append(@, item)]
     /\ UNCHANGED written

Next == \E n \in Sender, ch \in Channel : Write(n, ch) \/ Deliver(n, ch)

Spec == Init /\ [][Next]_<<written, received>>

=============================================================================
