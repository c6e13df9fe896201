----------------------------- MODULE MCArpCache -----------------------------
(* Two hosts on two interfaces; main forwards from each to the other, and    *)
(* answers one with an ICMP message of its own; the NAT thread refuses an    *)
(* unsolicited segment of the second.                                        *)
EXTENDS ArpCache

CONSTANTS a, b, ra, rb

MCTraffic == {[src |-> a, dst |-> b, sender |-> ra], [src |-> b, dst |-> a, sender |-> rb]}
MCUnsolicited == {[src |-> rb, dst |-> b, sender |-> rb]}

=============================================================================
