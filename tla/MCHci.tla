------------------------------- MODULE MCHci -------------------------------
(* HciTransport in two builds: without low-power mode, a command and an    *)
(* ACL packet from the stack; with it, a segment that goes back to L2CAP.  *)
EXTENDS HciTransport

Packet(t, n) == [t |-> t, op |-> [src |-> "stack", n |-> n]]
Plain    == [hcilp |-> FALSE, scolen |-> 1, packets |-> {Packet("cmd", 2), Packet("acl", 3)}]
LowPower == [hcilp |-> TRUE, scolen |-> 0, packets |-> {Packet("part", 3)}]
MCBuilds == {Plain, LowPower}
PlainOnly == {Plain}
=============================================================================
