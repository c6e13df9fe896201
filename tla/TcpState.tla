------------------------------ MODULE TcpState ------------------------------
(* The connection states of sr_nat.h and the transition function of          *)
(* sr_nat.c that the NAT applies to every TCP segment it recognises.         *)
(* A segment is the set of those of its flags the function reads.            *)
EXTENDS Naturals

(* The states a connection can be given.  LISTEN, TIME_WAIT, CLOST_WAIT and  *)
(* LAST_ACK are declared in sr_nat.h and assigned nowhere.  SYN_RCVD is      *)
(* returned by one branch of the transition function, for a segment with SYN *)
(* that earlier branches have already consumed, with ACK and without.        *)
TcpStates == {"CLOSED", "SYN_SENT", "SYN_RCVD", "ESTAB",
              "FIN_WAIT_1", "FIN_WAIT_2", "CLOSING"}

TcpFlags == {"SYN", "ACK", "FIN"}

(* A segment that asks to open a connection. *)
IsSyn(flags) == "SYN" \in flags /\ "ACK" \notin flags

(* Variant: the first FIN's acknowledgement closes the connection. *)
HalfClosed(state, flags) ==
  CASE state = "ESTAB"   /\ "FIN" \in flags -> "FIN_WAIT_1"
    [] state = "FIN_WAIT_1" /\ "ACK" \in flags -> "CLOSED"
    [] OTHER -> state

(* Variant: the connection stays in CLOSING. *)
ClosingKept(state, flags) ==
  CASE state = "ESTAB"   /\ "FIN" \in flags -> "FIN_WAIT_1"
    [] state = "FIN_WAIT_1" /\ "FIN" \in flags -> "CLOSING"
    [] state = "FIN_WAIT_1" /\ flags \cap {"FIN", "ACK"} = {"ACK"} -> "FIN_WAIT_2"
    [] state = "FIN_WAIT_2" /\ "FIN" \in flags -> "CLOSED"
    [] OTHER -> state

(* The branches for the end of a connection, in the order of the code.       *)
DetermineClose(state, flags) ==
  CASE state = "ESTAB"      /\ "FIN" \in flags                   -> "FIN_WAIT_1"
    [] state = "FIN_WAIT_1" /\ "FIN" \in flags                   -> "CLOSING"
    [] state = "CLOSING"    /\ "ACK" \in flags                   -> "CLOSED"
    [] state = "FIN_WAIT_1" /\ flags \cap {"FIN", "ACK"} = {"ACK"} -> "FIN_WAIT_2"
    [] state = "FIN_WAIT_2" /\ "FIN" \in flags                   -> "CLOSED"
    [] OTHER                                                     -> state

(* The branches are tried in the order of the code; a SYN without ACK comes  *)
(* first, whatever the state.  The direction of the segment is not a         *)
(* parameter: the code does not look at it.                                  *)
DetermineState(state, flags) ==
  IF IsSyn(flags) THEN "SYN_SENT"
  ELSE CASE state = "SYN_SENT" /\ "SYN" \in flags -> "ESTAB"
         [] state = "SYN_RCVD" /\ "ACK" \in flags -> "ESTAB"
         [] OTHER -> DetermineClose(state, flags)
=============================================================================
