---------------------------- MODULE MCSwitches ----------------------------
(***************************************************************************)
(* The ring of four cores for TLC with the traffic of the L3s of two of    *)
(* them with the system agent: the requests meet in the switch between,    *)
(* for the same port and lane, and go on together to one queue; the        *)
(* replies come back through the same switches the other way.              *)
(***************************************************************************)
EXTENDS Switches

L3(i) == 3 * i + 2
SystemAgent == L3(NumCores)

Load(i) == [src |-> L3(i), dst |-> SystemAgent, lane |-> "request"]
Reply(i) == [src |-> SystemAgent, dst |-> L3(i), lane |-> "reply"]

Flows == {Load(2), Load(3), Reply(3)}
Packets == [f \in Flows |-> IF f = Load(3) THEN 2 ELSE 1]
=============================================================================
