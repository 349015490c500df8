---------------------------- MODULE Interconnect ----------------------------
(***************************************************************************)
(* What the ring of switches promises the caches: the packets of a flow    *)
(* (one source, one destination, one virtual lane) arrive once each and in *)
(* the order they were sent.  Nothing is said between flows.               *)
(***************************************************************************)
EXTENDS Naturals

CONSTANTS Flow, MaxPackets

VARIABLES
  sent,   \* the packets of each flow that were sent, which are numbered from 1
  rcvd,   \* the number of the last one that arrived
  chan    \* the numbers of those under way
vars == <<sent, rcvd, chan>>

Init ==
  /\ sent = [f \in Flow |-> 0]
  /\ rcvd = [f \in Flow |-> 0]
  /\ chan = [f \in Flow |-> {}]

Send(f) ==
  /\ sent[f] < MaxPackets[f]
  /\ sent' = [sent EXCEPT ![f] = @ + 1]
  /\ chan' = [chan EXCEPT ![f] = @ \cup {sent[f] + 1}]
  /\ UNCHANGED rcvd

\* The one sent first arrives.
Deliver(f) ==
  \E n \in chan[f] :
    /\ \A m \in chan[f] : n <= m
    /\ rcvd' = [rcvd EXCEPT ![f] = n]
    /\ chan' = [chan EXCEPT ![f] = @ \ {n}]
    /\ UNCHANGED sent

Next == \E f \in Flow : Send(f) \/ Deliver(f)

Spec == Init /\ [][Next]_vars
=============================================================================
