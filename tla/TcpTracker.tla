----------------------------- MODULE TcpTracker -----------------------------
(* One TCP connection through the NAT: an internal client, an external       *)
(* server, the four links' directions between them and the router, which     *)
(* lose, repeat and reorder segments, and what the NAT makes of it.          *)
(*                                                                           *)
(* The two ends follow RFC 793 and are not part of the repository.  They     *)
(* carry no data, and are not reset: the NAT does not look at RST.           *)
EXTENDS TcpState, FiniteSets

CONSTANTS
  Ports,                       \* external ids that a mapping of the client can get
  MaxResent, MaxLost, MaxTwice \* bounds: segments sent again, lost, and repeated by a link

ASSUME TrackerAssumption ==
  /\ Ports \subseteq Nat \ {0} /\ Ports # {}
  /\ MaxResent \in Nat /\ MaxLost \in Nat /\ MaxTwice \in Nat

VARIABLES
  end,      \* the states of the two ends
  peer,     \* the port the server knows the client by, 0 before its first SYN
  net,      \* segments under way, with their hop
  conn,     \* state of the NAT's connection, "none" without one
  port,     \* external id of its mapping, 0 without one
  first,    \* flags of the segment that made the mapping
  fins,     \* FINs of each end that passed since then, 2 for more
  opened,   \* a SYN with ACK has passed since then
  resent, lost, twice,
  forgot    \* an idle connection was forgotten or an end gave up

nat == <<conn, port, first, fins, opened>>
faults == <<resent, lost, twice, forgot>>
vars == <<end, peer, net, nat, faults>>

Ends == {"c", "s"}
Hops == {"cn", "ns", "sn", "nc"}
EndStates == {"IDLE", "LISTEN", "SYN_SENT", "SYN_RCVD", "ESTAB", "FIN_WAIT_1", "FIN_WAIT_2",
              "CLOSING", "CLOSE_WAIT", "LAST_ACK", "TIME_WAIT", "DONE"}

(* fa: the segment acknowledges the receiver's FIN.                          *)
Segment == [hop : Hops, flags : SUBSET TcpFlags, fa : BOOLEAN, port : Ports \cup {0}]

-----------------------------------------------------------------------------
(* The ends *)

SawFin(state) == state \in {"CLOSE_WAIT", "LAST_ACK", "CLOSING", "TIME_WAIT"}

Sent(e, flags, state) ==
  [hop |-> IF e = "c" THEN "cn" ELSE "sn", flags |-> flags, fa |-> SawFin(state),
   port |-> IF e = "c" THEN 0 ELSE peer']

(* What an end in a state sends again when no acknowledgement comes.         *)
Unacknowledged(state) ==
  CASE state = "SYN_SENT" -> {{"SYN"}}
    [] state = "SYN_RCVD" -> {{"SYN", "ACK"}}
    [] state \in {"FIN_WAIT_1", "CLOSING", "LAST_ACK"} -> {{"FIN", "ACK"}}
    [] OTHER -> {}

Open ==
  /\ end["c"] = "IDLE"
  /\ end' = [end EXCEPT !["c"] = "SYN_SENT"]
  /\ UNCHANGED peer
  /\ net' = net \cup {Sent("c", {"SYN"}, "SYN_SENT")}
  /\ UNCHANGED <<nat, faults>>

Close(e) ==
  /\ end[e] \in {"ESTAB", "CLOSE_WAIT"}
  /\ end' = [end EXCEPT ![e] = IF @ = "ESTAB" THEN "FIN_WAIT_1" ELSE "LAST_ACK"]
  /\ UNCHANGED peer
  /\ net' = net \cup {Sent(e, {"FIN", "ACK"}, end[e])}
  /\ UNCHANGED <<nat, faults>>

Resend(e) ==
  /\ resent < MaxResent /\ resent' = resent + 1
  /\ UNCHANGED peer
  /\ \E flags \in Unacknowledged(end[e]) : net' = net \cup {Sent(e, flags, end[e])}
  /\ UNCHANGED <<end, nat, lost, twice, forgot>>

(* The state a segment takes an end to.                                      *)
After(state, m) ==
  LET fin == "FIN" \in m.flags IN
  CASE state = "LISTEN" /\ IsSyn(m.flags) -> "SYN_RCVD"
    [] state = "SYN_SENT" /\ m.flags = {"SYN", "ACK"} -> "ESTAB"
    [] state = "SYN_RCVD" /\ ~IsSyn(m.flags) -> IF fin THEN "CLOSE_WAIT" ELSE "ESTAB"
    [] state = "ESTAB" /\ fin -> "CLOSE_WAIT"
    [] state = "FIN_WAIT_1" /\ fin -> IF m.fa THEN "TIME_WAIT" ELSE "CLOSING"
    [] state = "FIN_WAIT_1" /\ ~fin /\ m.fa -> "FIN_WAIT_2"
    [] state = "FIN_WAIT_2" /\ fin -> "TIME_WAIT"
    [] state = "CLOSING" /\ m.fa -> "TIME_WAIT"
    [] state = "LAST_ACK" /\ m.fa -> "DONE"
    [] OTHER -> state

(* A SYN and a FIN are acknowledged, also when they come again.              *)
Reply(e, m, state) ==
  IF IsSyn(m.flags) THEN IF state = "SYN_RCVD" THEN {Sent(e, {"SYN", "ACK"}, state)} ELSE {}
  ELSE IF m.flags # {"ACK"} /\ state \notin {"IDLE", "LISTEN", "SYN_SENT", "DONE"}
       THEN {Sent(e, {"ACK"}, state)} ELSE {}

(* The server takes a segment from another port for another connection, on   *)
(* which it does not answer.                                                 *)
Receive(e, m) ==
  /\ m \in net /\ m.hop = IF e = "c" THEN "nc" ELSE "ns"
  /\ peer' = IF e = "s" /\ peer = 0 /\ IsSyn(m.flags) THEN m.port ELSE peer
  /\ IF e = "s" /\ m.port # peer'
     THEN net' = net \ {m} /\ UNCHANGED end
     ELSE LET to == After(end[e], m) IN
          /\ end' = [end EXCEPT ![e] = to]
          /\ net' = (net \ {m}) \cup Reply(e, m, to)
  /\ UNCHANGED <<nat, faults>>

(* The end of TIME_WAIT, which outlasts every segment, and of FIN_WAIT_2.    *)
Finish(e) ==
  /\ net = {}
  /\ \/ end[e] = "TIME_WAIT" /\ UNCHANGED forgot
     \/ (Unacknowledged(end[e]) # {} \/ end[e] = "FIN_WAIT_2") /\ forgot' = TRUE
  /\ end' = [end EXCEPT ![e] = "DONE"]
  /\ UNCHANGED <<peer, net, nat, resent, lost, twice>>

-----------------------------------------------------------------------------
(* The links *)

Lose(m) ==
  /\ m \in net /\ lost < MaxLost
  /\ net' = net \ {m} /\ lost' = lost + 1
  /\ UNCHANGED <<end, peer, nat, resent, twice, forgot>>

(* The segment m is taken by the NAT, S is what it sends, and the link may   *)
(* deliver m a second time.                                                  *)
Take(m, S) ==
  \/ net' = (net \ {m}) \cup S /\ UNCHANGED twice
  \/ twice < MaxTwice /\ twice' = twice + 1 /\ net' = net \cup S

-----------------------------------------------------------------------------
(* The NAT.  Between two segments its connection is there or not: the       *)
(* windows inside a handler are the subject of NatTable.                     *)

(* A FIN of an end passes, and a SYN with ACK. *)
Count(e, flags) ==
  /\ fins' = [fins EXCEPT ![e] = IF "FIN" \in flags /\ @ < 2 THEN @ + 1 ELSE @]
  /\ opened' = (opened \/ flags = {"SYN", "ACK"})

(* Variant: a segment of a connection that is going on makes it ESTAB. *)
InsertEstab(m) ==
  /\ conn = "none"
  /\ conn' = (IF IsSyn(m.flags) THEN "SYN_SENT" ELSE "ESTAB")
  /\ port' \in Ports /\ first' = m.flags
  /\ fins' = [e \in Ends |-> IF e = "c" /\ "FIN" \in m.flags THEN 1 ELSE 0]
  /\ opened' = FALSE

(* The first segment makes the mapping and the connection, in SYN_SENT       *)
(* whatever its flags are.                                                   *)
Insert(m) ==
  /\ conn = "none"
  /\ conn' = "SYN_SENT" /\ port' \in Ports /\ first' = m.flags
  /\ fins' = [e \in Ends |-> IF e = "c" /\ "FIN" \in m.flags THEN 1 ELSE 0]
  /\ opened' = FALSE

Update(e, m) ==
  /\ conn # "none"
  /\ conn' = DetermineState(conn, m.flags)
  /\ Count(e, m.flags)
  /\ UNCHANGED <<port, first>>

Outbound(m) ==
  /\ m \in net /\ m.hop = "cn"
  /\ Insert(m) \/ Update("c", m)
  /\ Take(m, {[m EXCEPT !.hop = "ns", !.port = port']})
  /\ UNCHANGED <<end, peer, resent, lost, forgot>>

(* Without a mapping the segment stays for the router itself.                *)
Inbound(m) ==
  /\ m \in net /\ m.hop = "sn"
  /\ \/ port = m.port /\ Update("s", m) /\ Take(m, {[m EXCEPT !.hop = "nc", !.port = 0]})
     \/ port # m.port /\ Take(m, {}) /\ UNCHANGED nat
  /\ UNCHANGED <<end, peer, resent, lost, forgot>>

(* Variant: the mapping stays without its connection. *)
FreeConnection == conn' = "none" /\ UNCHANGED <<port, first, fins, opened>>

Free == conn' = "none" /\ port' = 0 /\ UNCHANGED <<first, fins, opened>>

ClearClosed ==
  /\ conn = "CLOSED" /\ Free
  /\ UNCHANGED <<end, peer, net, faults>>

(* Variant: only an established connection is forgotten. *)
IdleEstab == conn = "ESTAB"

Idle == conn # "none"

(* Every timeout is longer than a segment takes and than an end waits before *)
(* it sends one again.                                                       *)
Forget ==
  /\ Idle /\ net = {} /\ \A e \in Ends : Unacknowledged(end[e]) = {}
  /\ Free /\ forgot' = TRUE
  /\ UNCHANGED <<end, peer, net, resent, lost, twice>>

-----------------------------------------------------------------------------
Init ==
  /\ end = [e \in Ends |-> IF e = "c" THEN "IDLE" ELSE "LISTEN"]
  /\ peer = 0 /\ net = {}
  /\ conn = "none" /\ port = 0 /\ first = {}
  /\ fins = [e \in Ends |-> 0] /\ opened = FALSE
  /\ resent = 0 /\ lost = 0 /\ twice = 0 /\ forgot = FALSE

Pass == \E m \in net : Outbound(m) \/ Inbound(m)
Deliver == \E m \in net, e \in Ends : Receive(e, m)

Next ==
  \/ Open
  \/ \E e \in Ends : Close(e) \/ Resend(e) \/ Finish(e)
  \/ Deliver \/ Pass
  \/ \E m \in net : Lose(m)
  \/ ClearClosed \/ Forget

Spec == Init /\ [][Next]_vars

(* Main handles what comes, the timeout thread goes round, links deliver and *)
(* the ends' timers run out.                                                 *)
FairSpec ==
  /\ Spec
  /\ WF_vars(Pass) /\ WF_vars(Deliver)
  /\ WF_vars(ClearClosed \/ Forget)
  /\ \A e \in Ends : WF_vars(Finish(e))

-----------------------------------------------------------------------------
TypeOK ==
  /\ end \in [Ends -> EndStates] /\ peer \in Ports \cup {0}
  /\ net \subseteq Segment
  /\ conn \in TcpStates \cup {"none"} /\ port \in Ports \cup {0}
  /\ (conn = "none") = (port = 0)
  /\ first \subseteq TcpFlags /\ fins \in [Ends -> 0 .. 2] /\ opened \in BOOLEAN
  /\ resent \in 0 .. MaxResent /\ lost \in 0 .. MaxLost /\ twice \in 0 .. MaxTwice
  /\ forgot \in BOOLEAN

HasClosed(e) ==
  end[e] \in {"FIN_WAIT_1", "FIN_WAIT_2", "CLOSING", "LAST_ACK", "TIME_WAIT", "DONE"}

(* _determine_state calls a connection CLOSED, and the next round frees it,  *)
(* only when neither end is going to send any more: unless a FIN of the same *)
(* end came twice, which the function takes for the FINs of both.            *)
ClosedMeansBoth ==
  conn = "CLOSED" /\ (\A e \in Ends : fins[e] < 2) => \A e \in Ends : HasClosed(e)

(* A connection is ESTAB, or further, only after an answer of the server to  *)
(* a SYN has passed through this very mapping: a mapping that a late segment *)
(* made anew is never more than SYN_SENT.                                    *)
EstabNeedsAnswer == conn \notin {"none", "SYN_SENT"} => opened /\ peer # 0

Orderly == resent = 0 /\ lost = 0 /\ twice = 0 /\ ~forgot
Over == net = {} /\ \A e \in Ends : end[e] \in {"TIME_WAIT", "DONE"}

(* A connection that ends in order, whoever closes first and whatever passes *)
(* whatever, is CLOSED or freed without a timeout; but for the last ACK that *)
(* came after the round, which has made a mapping of its own.                *)
OrderlyEndIsClosed ==
  Orderly /\ Over => conn \in {"CLOSED", "none"} \/ (conn = "SYN_SENT" /\ first = {"ACK"})

(* Whatever is lost or repeated, in the end nothing is kept in the table.    *)
Reclaimed == <>[](conn = "none")
=============================================================================
