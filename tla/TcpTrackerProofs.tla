-------------------------- MODULE TcpTrackerProofs --------------------------
(* Proofs about TcpTracker, for every set of ports and any number of         *)
(* segments lost, repeated and sent again.                                   *)
EXTENDS TcpTracker, TLAPS

(* The flags that the ends ever send. *)
Flags == {{"SYN"}, {"SYN", "ACK"}, {"ACK"}, {"FIN", "ACK"}}

(* A SYN with ACK comes from the server after it has learned the client's    *)
(* port, and what reaches the server has been given a port by the NAT.       *)
Wire ==
  \A m \in net :
    /\ m.flags \in Flags
    /\ m.hop = "ns" => m.port # 0
    /\ m.flags = {"SYN", "ACK"} => peer # 0

(* The client never listens; the server moves only when it knows the client. *)
Roles ==
  /\ end["c"] \notin {"LISTEN", "SYN_RCVD"}
  /\ end["s"] # "LISTEN" => peer # 0

TrackInv == TypeOK /\ Wire /\ Roles /\ EstabNeedsAnswer

-----------------------------------------------------------------------------
(* A state of an end leads to a state of an end, to SYN_RCVD only from       *)
(* LISTEN, by a SYN, and to LISTEN from no other.                            *)
LEMMA AfterType ==
  ASSUME NEW s \in EndStates, NEW m
  PROVE  /\ After(s, m) \in EndStates
         /\ After(s, m) = "LISTEN" => s = "LISTEN"
         /\ After(s, m) = "SYN_RCVD" => s \in {"LISTEN", "SYN_RCVD"}
         /\ s = "LISTEN" /\ After(s, m) # "LISTEN" => IsSyn(m.flags)
  BY DEF After, EndStates

(* What an end sends is a segment.                                           *)
LEMMA SentType ==
  ASSUME NEW e \in Ends, NEW flags \in Flags, NEW s \in EndStates, peer' \in Ports \cup {0}
  PROVE  /\ Sent(e, flags, s) \in Segment
         /\ Sent(e, flags, s).flags = flags
         /\ Sent(e, flags, s).hop # "ns"
  <1>1. flags \in SUBSET TcpFlags
    BY DEF Flags, TcpFlags
  <1>2. SawFin(s) \in BOOLEAN
    BY DEF SawFin
  <1> QED BY <1>1, <1>2 DEF Sent, Segment, Hops, Ends

(* An answer has known flags, and SYN with ACK only in SYN_RCVD.             *)
LEMMA ReplyType ==
  ASSUME NEW e \in Ends, NEW m, NEW s \in EndStates, peer' \in Ports \cup {0},
         NEW q \in Reply(e, m, s)
  PROVE  /\ q \in Segment /\ q.flags \in Flags /\ q.hop # "ns"
         /\ q.flags = {"SYN", "ACK"} => s = "SYN_RCVD"
  <1>1. CASE IsSyn(m.flags)
    <2>1. s = "SYN_RCVD" /\ q = Sent(e, {"SYN", "ACK"}, s)
      BY <1>1 DEF Reply
    <2>2. {"SYN", "ACK"} \in Flags
      BY DEF Flags
    <2> QED BY <2>1, <2>2, SentType
  <1>2. CASE ~IsSyn(m.flags)
    <2>1. q = Sent(e, {"ACK"}, s)
      BY <1>2 DEF Reply
    <2>2. {"ACK"} \in Flags /\ {"ACK"} # {"SYN", "ACK"}
      BY DEF Flags
    <2> QED BY <2>1, <2>2, SentType
  <1> QED BY <1>1, <1>2

(* So does what is sent again.                                               *)
LEMMA UnacknowledgedType ==
  ASSUME NEW s \in EndStates, NEW flags \in Unacknowledged(s)
  PROVE  /\ flags \in Flags
         /\ flags = {"SYN", "ACK"} => s = "SYN_RCVD"
  <1>1. /\ {"SYN"} # {"SYN", "ACK"} /\ {"FIN", "ACK"} # {"SYN", "ACK"}
        /\ {"SYN"} \in Flags /\ {"SYN", "ACK"} \in Flags /\ {"FIN", "ACK"} \in Flags
    BY DEF Flags
  <1> QED BY <1>1 DEF Unacknowledged

(* The transition function leaves SYN_SENT only with SYN and ACK.            *)
LEMMA DetermineStep ==
  ASSUME NEW s \in TcpStates, NEW flags \in Flags
  PROVE  /\ DetermineState(s, flags) \in TcpStates
         /\ s = "SYN_SENT" /\ DetermineState(s, flags) # "SYN_SENT" => flags = {"SYN", "ACK"}
  <1>1. DetermineState(s, flags) \in TcpStates
    BY DEF DetermineState, DetermineClose, TcpStates
  <1>2. ASSUME s = "SYN_SENT", DetermineState(s, flags) # "SYN_SENT"
        PROVE  flags = {"SYN", "ACK"}
    <2>1. "SYN" \in flags /\ ~IsSyn(flags)
      BY <1>2 DEF DetermineState, DetermineClose
    <2> QED BY <2>1 DEF Flags, IsSyn
  <1> QED BY <1>1, <1>2

-----------------------------------------------------------------------------
(* The initial state.                                                        *)
LEMMA InitTrack ==
  ASSUME Init
  PROVE  TrackInv
  <1>1. end \in [Ends -> EndStates]
    BY DEF Init, Ends, EndStates
  <1>2. fins \in [Ends -> 0 .. 2]
    BY DEF Init
  <1>3. resent \in 0 .. MaxResent /\ lost \in 0 .. MaxLost /\ twice \in 0 .. MaxTwice
    BY TrackerAssumption DEF Init
  <1>4. (conn = "none") = (port = 0)
    BY DEF Init
  <1>5. TypeOK
    BY <1>1, <1>2, <1>3, <1>4 DEF Init, TypeOK
  <1>6. Wire /\ Roles /\ EstabNeedsAnswer
    BY DEF Init, Wire, Roles, EstabNeedsAnswer, Ends
  <1> QED BY <1>5, <1>6 DEF TrackInv

(* A step of an end or of a link that leaves the NAT alone.                  *)
Outside ==
  /\ UNCHANGED nat
  /\ end' \in [Ends -> EndStates] /\ peer' \in Ports \cup {0}
  /\ resent' \in 0 .. MaxResent /\ lost' \in 0 .. MaxLost /\ twice' = twice
  /\ forgot' \in BOOLEAN
  /\ peer # 0 => peer' # 0
  /\ \A m \in net' \ net :
       /\ m \in Segment /\ m.flags \in Flags /\ m.hop # "ns"
       /\ m.flags = {"SYN", "ACK"} => peer' # 0

(* Such a step keeps the invariant, but for the ends' roles.                 *)
LEMMA OutsideKeeps ==
  ASSUME TrackInv, Outside, Roles'
  PROVE  TrackInv'
  <1>1. TypeOK'
    BY DEF Outside, TrackInv, TypeOK, nat
  <1>2. Wire'
    BY DEF Outside, TrackInv, Wire
  <1>3. EstabNeedsAnswer'
    BY DEF Outside, TrackInv, EstabNeedsAnswer, nat
  <1> QED BY <1>1, <1>2, <1>3 DEF TrackInv

(* Opening and closing.                                                      *)
LEMMA OpenKeeps ==
  ASSUME TrackInv, Open
  PROVE  TrackInv'
  <1>1. {"SYN"} \in Flags /\ {"SYN"} # {"SYN", "ACK"}
    BY DEF Flags
  <1>2. peer' \in Ports \cup {0} /\ "SYN_SENT" \in EndStates /\ "c" \in Ends
    BY DEF Open, TrackInv, TypeOK, EndStates, Ends
  <1>3. /\ Sent("c", {"SYN"}, "SYN_SENT") \in Segment
        /\ Sent("c", {"SYN"}, "SYN_SENT").flags = {"SYN"}
        /\ Sent("c", {"SYN"}, "SYN_SENT").hop # "ns"
    BY <1>1, <1>2, SentType
  <1>4. Outside
    BY <1>1, <1>2, <1>3 DEF Open, Outside, TrackInv, TypeOK, faults
  <1>5. Roles'
    BY DEF Open, TrackInv, TypeOK, Roles, Ends
  <1> QED BY <1>4, <1>5, OutsideKeeps

(* An end that closes sends a FIN, and does not move to LISTEN.              *)
LEMMA CloseKeeps ==
  ASSUME TrackInv, NEW e \in Ends, Close(e)
  PROVE  TrackInv'
  <1>1. {"FIN", "ACK"} \in Flags /\ {"FIN", "ACK"} # {"SYN", "ACK"}
    BY DEF Flags
  <1>2. peer' \in Ports \cup {0} /\ end[e] \in EndStates
    BY DEF Close, TrackInv, TypeOK
  <1>3. /\ Sent(e, {"FIN", "ACK"}, end[e]) \in Segment
        /\ Sent(e, {"FIN", "ACK"}, end[e]).flags = {"FIN", "ACK"}
        /\ Sent(e, {"FIN", "ACK"}, end[e]).hop # "ns"
    BY <1>1, <1>2, SentType
  <1>4. Outside
    <2>1. end' \in [Ends -> EndStates]
      BY DEF Close, TrackInv, TypeOK, EndStates
    <2> QED BY <1>1, <1>2, <1>3, <2>1 DEF Close, Outside, TrackInv, TypeOK, faults
  <1>5. Roles'
    BY DEF Close, TrackInv, TypeOK, Roles, Ends
  <1> QED BY <1>4, <1>5, OutsideKeeps

(* Sending again, giving up and losing a segment.                            *)
LEMMA ResendKeeps ==
  ASSUME TrackInv, NEW e \in Ends, Resend(e)
  PROVE  TrackInv'
  <1>1. PICK flags \in Unacknowledged(end[e]) : net' = net \cup {Sent(e, flags, end[e])}
    BY DEF Resend
  <1>2. peer' = peer /\ end' = end /\ peer' \in Ports \cup {0} /\ end[e] \in EndStates
    BY DEF Resend, TrackInv, TypeOK
  <1>3. flags \in Flags /\ (flags = {"SYN", "ACK"} => end[e] = "SYN_RCVD")
    BY <1>1, <1>2, UnacknowledgedType
  <1>4. /\ Sent(e, flags, end[e]) \in Segment
        /\ Sent(e, flags, end[e]).flags = flags
        /\ Sent(e, flags, end[e]).hop # "ns"
    BY <1>2, <1>3, SentType
  <1>5. end[e] = "SYN_RCVD" => peer # 0
    BY DEF TrackInv, Roles, Ends
  <1>6. resent' \in 0 .. MaxResent
    BY TrackerAssumption DEF Resend, TrackInv, TypeOK
  <1>7. Outside
    BY <1>1, <1>2, <1>3, <1>4, <1>5, <1>6 DEF Resend, Outside, TrackInv, TypeOK
  <1> QED BY <1>2, <1>7, OutsideKeeps DEF TrackInv, Roles

(* TIME_WAIT ends in CLOSED.                                                 *)
LEMMA FinishKeeps ==
  ASSUME TrackInv, NEW e \in Ends, Finish(e)
  PROVE  TrackInv'
  <1>1. end' \in [Ends -> EndStates]
    BY DEF Finish, TrackInv, TypeOK, EndStates
  <1>2. Outside
    BY <1>1 DEF Finish, Outside, TrackInv, TypeOK
  <1>3. end[e] \notin {"LISTEN", "IDLE"}
    BY DEF Finish, Unacknowledged
  <1>4. Roles'
    BY <1>3 DEF Finish, TrackInv, TypeOK, Roles, Ends
  <1> QED BY <1>2, <1>4, OutsideKeeps

(* A lost segment leaves the others as they were.                            *)
LEMMA LoseKeeps ==
  ASSUME TrackInv, NEW m \in net, Lose(m)
  PROVE  TrackInv'
  <1>1. lost' \in 0 .. MaxLost
    BY TrackerAssumption DEF Lose, TrackInv, TypeOK
  <1>2. Outside
    BY <1>1 DEF Lose, Outside, TrackInv, TypeOK
  <1>3. Roles'
    BY DEF Lose, TrackInv, Roles
  <1> QED BY <1>2, <1>3, OutsideKeeps

(* An end takes a segment: the server learns the client's port with its      *)
(* first SYN, before it answers it.                                          *)
LEMMA ReceiveKeeps ==
  ASSUME TrackInv, NEW m \in net, NEW e \in Ends, Receive(e, m)
  PROVE  TrackInv'
  <1>1. /\ m \in Segment /\ e \in {"c", "s"} /\ end[e] \in EndStates
        /\ m.hop = IF e = "c" THEN "nc" ELSE "ns"
        /\ peer' = IF e = "s" /\ peer = 0 /\ IsSyn(m.flags) THEN m.port ELSE peer
    BY DEF Receive, TrackInv, TypeOK, Ends
  <1>2. e = "s" => m.port # 0
    BY <1>1 DEF TrackInv, Wire
  <1>3. peer' \in Ports \cup {0} /\ (peer # 0 => peer' # 0)
    BY <1>1, <1>2 DEF TrackInv, TypeOK, Segment
  <1>4. UNCHANGED <<nat, faults>>
    BY DEF Receive
  <1>5. CASE e = "s" /\ m.port # peer'
    <2>1. net' = net \ {m} /\ end' = end
      BY <1>5 DEF Receive
    <2>2. Outside
      BY <1>3, <1>4, <2>1 DEF Outside, TrackInv, TypeOK, faults
    <2> QED BY <1>3, <2>1, <2>2, OutsideKeeps DEF TrackInv, Roles
  <1>6. CASE ~(e = "s" /\ m.port # peer')
    <2> DEFINE to == After(end[e], m)
    <2>1. end' = [end EXCEPT ![e] = to] /\ net' = (net \ {m}) \cup Reply(e, m, to)
      BY <1>6 DEF Receive
    <2>2. /\ to \in EndStates
          /\ to = "LISTEN" => end[e] = "LISTEN"
          /\ to = "SYN_RCVD" => end[e] \in {"LISTEN", "SYN_RCVD"}
      BY <1>1, AfterType
    <2> HIDE DEF to
    <2>3. e = "s" => peer' # 0
      BY <1>2, <1>6
    <2>4. end' \in [Ends -> EndStates]
      BY <2>1, <2>2 DEF TrackInv, TypeOK
    <2>5. Roles'
      BY <1>1, <1>3, <2>1, <2>2, <2>3 DEF TrackInv, TypeOK, Roles, Ends
    <2>6. to = "SYN_RCVD" => peer' # 0
      BY <1>1, <2>2, <2>3 DEF TrackInv, Roles
    <2>7. \A q \in Reply(e, m, to) :
            /\ q \in Segment /\ q.flags \in Flags /\ q.hop # "ns"
            /\ q.flags = {"SYN", "ACK"} => peer' # 0
      BY <1>3, <2>2, <2>6, ReplyType
    <2>8. Outside
      BY <1>3, <1>4, <2>1, <2>4, <2>7 DEF Outside, TrackInv, TypeOK, faults
    <2> QED BY <2>5, <2>8, OutsideKeeps
  <1> QED BY <1>5, <1>6

-----------------------------------------------------------------------------
(* A step of the NAT leaves the ends alone; what it sends has the flags of   *)
(* what it took.                                                             *)
Inner ==
  /\ UNCHANGED <<end, peer, resent, lost>>
  /\ conn' \in TcpStates \cup {"none"} /\ port' \in Ports \cup {0}
  /\ (conn' = "none") = (port' = 0)
  /\ first' \in SUBSET TcpFlags /\ fins' \in [Ends -> 0 .. 2] /\ opened' \in BOOLEAN
  /\ twice' \in 0 .. MaxTwice /\ forgot' \in BOOLEAN
  /\ \A m \in net' \ net :
       /\ m \in Segment /\ (m.hop = "ns" => m.port # 0)
       /\ \E n \in net : m.flags = n.flags
  /\ conn' \notin {"none", "SYN_SENT"} => opened' /\ peer # 0

(* Such a step keeps the invariant.                                          *)
LEMMA InnerKeeps ==
  ASSUME TrackInv, Inner
  PROVE  TrackInv'
  <1>1. TypeOK'
    BY DEF Inner, TrackInv, TypeOK
  <1>2. Wire'
    BY DEF Inner, TrackInv, Wire
  <1>3. Roles' /\ EstabNeedsAnswer'
    BY DEF Inner, TrackInv, Roles, EstabNeedsAnswer
  <1> QED BY <1>1, <1>2, <1>3 DEF TrackInv

(* What a link does with a segment that the NAT takes.                       *)
LEMMA TakeType ==
  ASSUME TrackInv, NEW m, NEW S, Take(m, S)
  PROVE  twice' \in 0 .. MaxTwice /\ net' \subseteq net \cup S
  BY TrackerAssumption DEF Take, TrackInv, TypeOK

(* A new connection starts in SYN_SENT.                                      *)
LEMMA InsertType ==
  ASSUME TrackInv, NEW m \in Segment, Insert(m)
  PROVE  /\ conn' = "SYN_SENT" /\ conn' \in TcpStates \cup {"none"}
         /\ port' \in Ports /\ port' # 0
         /\ first' \in SUBSET TcpFlags /\ fins' \in [Ends -> 0 .. 2] /\ opened' \in BOOLEAN
  <1>1. fins' \in [Ends -> 0 .. 2]
    BY DEF Insert
  <1> QED BY <1>1, TrackerAssumption DEF Insert, Segment, TcpStates

(* A connection that is there moves by the transition function, past         *)
(* SYN_SENT only when the SYN with ACK passes.                               *)
LEMMA UpdateType ==
  ASSUME TrackInv, NEW e \in Ends, NEW m \in net, Update(e, m)
  PROVE  /\ conn' \in TcpStates \cup {"none"} /\ conn' # "none"
         /\ port' = port /\ port' \in Ports /\ port' # 0
         /\ first' \in SUBSET TcpFlags /\ fins' \in [Ends -> 0 .. 2] /\ opened' \in BOOLEAN
         /\ conn' # "SYN_SENT" => opened' /\ peer # 0
  <1>1. /\ conn \in TcpStates /\ conn' = DetermineState(conn, m.flags) /\ m.flags \in Flags
        /\ port' = port /\ first' = first /\ port # 0 /\ port \in Ports
        /\ opened' = (opened \/ m.flags = {"SYN", "ACK"})
        /\ fins' = [fins EXCEPT ![e] = IF "FIN" \in m.flags /\ @ < 2 THEN @ + 1 ELSE @]
    BY DEF Update, Count, TrackInv, TypeOK, Wire
  <1>2. conn' \in TcpStates /\ (conn = "SYN_SENT" /\ conn' # "SYN_SENT" => m.flags = {"SYN", "ACK"})
    BY <1>1, DetermineStep
  <1>3. "none" \notin TcpStates
    BY DEF TcpStates
  <1>4. fins' \in [Ends -> 0 .. 2]
    BY <1>1 DEF TrackInv, TypeOK
  <1>5. opened' \in BOOLEAN /\ first' \in SUBSET TcpFlags
    BY <1>1 DEF TrackInv, TypeOK
  <1>6. m.flags = {"SYN", "ACK"} => peer # 0
    BY DEF TrackInv, Wire
  <1>7. conn' # "SYN_SENT" => opened' /\ peer # 0
    BY <1>1, <1>2, <1>3, <1>6 DEF TrackInv, EstabNeedsAnswer
  <1> QED BY <1>1, <1>2, <1>3, <1>4, <1>5, <1>7

(* nat_handle_tcp in both directions.                                        *)
LEMMA OutboundKeeps ==
  ASSUME TrackInv, NEW m \in net, Outbound(m)
  PROVE  TrackInv'
  <1> DEFINE q == [m EXCEPT !.hop = "ns", !.port = port']
  <1>1. m \in Segment /\ "c" \in Ends
    BY DEF TrackInv, TypeOK, Ends
  <1>2. /\ conn' \in TcpStates \cup {"none"} /\ conn' # "none"
        /\ port' \in Ports /\ port' # 0
        /\ first' \in SUBSET TcpFlags /\ fins' \in [Ends -> 0 .. 2] /\ opened' \in BOOLEAN
        /\ conn' # "SYN_SENT" => opened' /\ peer # 0
    BY <1>1, InsertType, UpdateType DEF Outbound
  <1>3. q \in Segment /\ q.flags = m.flags /\ q.port # 0
    BY <1>1, <1>2 DEF Segment, Hops
  <1> HIDE DEF q
  <1>4. Take(m, {q})
    BY DEF Outbound, q
  <1>5. twice' \in 0 .. MaxTwice /\ net' \subseteq net \cup {q}
    BY <1>4, TakeType
  <1>6. forgot' \in BOOLEAN /\ UNCHANGED <<end, peer, resent, lost>>
    BY DEF Outbound, TrackInv, TypeOK
  <1>7. Inner
    BY <1>2, <1>3, <1>5, <1>6 DEF Inner
  <1> QED BY <1>7, InnerKeeps

(* nat_handle_tcp for a segment of the server.                               *)
LEMMA InboundKeeps ==
  ASSUME TrackInv, NEW m \in net, Inbound(m)
  PROVE  TrackInv'
  <1> DEFINE q == [m EXCEPT !.hop = "nc", !.port = 0]
  <1>1. m \in Segment /\ "s" \in Ends
    BY DEF TrackInv, TypeOK, Ends
  <1>2. q \in Segment /\ q.flags = m.flags /\ q.hop # "ns"
    BY <1>1 DEF Segment, Hops
  <1>3. forgot' \in BOOLEAN /\ UNCHANGED <<end, peer, resent, lost>>
    BY DEF Inbound, TrackInv, TypeOK
  <1>4. CASE port = m.port /\ Update("s", m) /\ Take(m, {q})
    <2> HIDE DEF q
    <2>1. twice' \in 0 .. MaxTwice /\ net' \subseteq net \cup {q}
      BY <1>4, TakeType
    <2>2. Inner
      BY <1>1, <1>2, <1>3, <1>4, <2>1, UpdateType DEF Inner
    <2> QED BY <2>2, InnerKeeps
  <1>5. CASE port # m.port /\ Take(m, {}) /\ UNCHANGED nat
    <2>1. twice' \in 0 .. MaxTwice /\ net' \subseteq net
      BY <1>5, TakeType
    <2>2. Inner
      BY <1>3, <1>5, <2>1 DEF Inner, TrackInv, TypeOK, EstabNeedsAnswer, nat
    <2> QED BY <2>2, InnerKeeps
  <1> QED BY <1>4, <1>5 DEF Inbound

(* A round of the timeout thread.                                            *)
LEMMA FreeKeeps ==
  ASSUME TrackInv, ClearClosed \/ Forget
  PROVE  TrackInv'
  <1>1. /\ conn' = "none" /\ port' = 0 /\ UNCHANGED <<first, fins, opened>>
        /\ UNCHANGED <<end, peer, net, resent, lost, twice>>
        /\ forgot' \in BOOLEAN
    BY DEF ClearClosed, Forget, Free, faults, TrackInv, TypeOK
  <1>2. Inner
    BY <1>1 DEF Inner, TrackInv, TypeOK
  <1> QED BY <1>2, InnerKeeps

(* Every step keeps the invariant.                                           *)
LEMMA NextTrack ==
  ASSUME TrackInv, [Next]_vars
  PROVE  TrackInv'
  <1>1. CASE Open
    BY <1>1, OpenKeeps
  <1>2. CASE \E e \in Ends : Close(e) \/ Resend(e) \/ Finish(e)
    BY <1>2, CloseKeeps, ResendKeeps, FinishKeeps
  <1>3. CASE Deliver
    BY <1>3, ReceiveKeeps DEF Deliver
  <1>4. CASE Pass
    BY <1>4, OutboundKeeps, InboundKeeps DEF Pass
  <1>5. CASE \E m \in net : Lose(m)
    BY <1>5, LoseKeeps
  <1>6. CASE ClearClosed \/ Forget
    BY <1>6, FreeKeeps
  <1>7. CASE UNCHANGED vars
    BY <1>7 DEF vars, nat, faults, TrackInv, TypeOK, Wire, Roles, EstabNeedsAnswer
  <1> QED BY <1>1, <1>2, <1>3, <1>4, <1>5, <1>6, <1>7 DEF Next

(* The state of the connection is well typed, and a mapping never lacks its  *)
(* connection.                                                               *)
THEOREM TypesHold == Spec => []TypeOK
  <1>1. TrackInv => TypeOK
    BY DEF TrackInv
  <1> QED BY <1>1, InitTrack, NextTrack, PTL DEF Spec

(* However many segments are lost, repeated, reordered and sent again, and   *)
(* however often the mapping is freed and made anew, the NAT calls a         *)
(* connection ESTAB, and refreshes it for as long, only if the server has    *)
(* answered a SYN through this mapping.                                      *)
THEOREM EstabIsAnswered == Spec => []EstabNeedsAnswer
  <1>1. TrackInv => EstabNeedsAnswer
    BY DEF TrackInv
  <1> QED BY <1>1, InitTrack, NextTrack, PTL DEF Spec

-----------------------------------------------------------------------------
(* Whose segment it is, on either side of the NAT. *)
Sender(m) == IF m.hop \in {"cn", "ns"} THEN "c" ELSE "s"

(* A FIN that is under way or was counted comes from an end that has closed. *)
FinsKnown ==
  /\ \A m \in net : "FIN" \in m.flags => HasClosed(Sender(m))
  /\ \A e \in Ends : fins[e] > 0 => HasClosed(e)

(* The connection has gone as far towards its end as FINs have passed.       *)
FinsCounted ==
  /\ conn \in {"FIN_WAIT_1", "FIN_WAIT_2"} => fins["c"] + fins["s"] > 0
  /\ conn \in {"CLOSING", "CLOSED"} => fins["c"] + fins["s"] > 1

CloseInv == TrackInv /\ FinsKnown /\ FinsCounted

(* An end that has closed stays closed, whatever it receives.                *)
LEMMA ClosedStays ==
  ASSUME NEW state \in {"FIN_WAIT_1", "FIN_WAIT_2", "CLOSING", "LAST_ACK", "TIME_WAIT", "DONE"},
         NEW m
  PROVE  After(state, m) \in {"FIN_WAIT_1", "FIN_WAIT_2", "CLOSING", "LAST_ACK", "TIME_WAIT", "DONE"}
  BY DEF After

(* What an end sends is its own, and what it sends again has a FIN only when *)
(* it has closed.                                                            *)
LEMMA FinSent ==
  ASSUME NEW e \in Ends, NEW flags, NEW state
  PROVE  Sender(Sent(e, flags, state)) = e /\ Sent(e, flags, state).flags = flags
  BY DEF Sender, Sent, Ends

(* A reply has no FIN.                                                       *)
LEMMA NoFinReplied ==
  ASSUME NEW e \in Ends, NEW m, NEW state, NEW q \in Reply(e, m, state)
  PROVE  "FIN" \notin q.flags
  BY DEF Reply, Sent

(* A step of an end or a link: who has closed stays closed, and a new FIN is *)
(* of an end that has closed.                                                *)
OutsideFins ==
  /\ UNCHANGED nat
  /\ \A e \in Ends : HasClosed(e) => HasClosed(e)'
  /\ \A m \in net' \ net : "FIN" \in m.flags => HasClosed(Sender(m))'

(* Such a step keeps what is known of the FINs.                              *)
LEMMA OutsideCounts ==
  ASSUME CloseInv, OutsideFins
  PROVE  FinsKnown' /\ FinsCounted'
  <1>1. \A m : Sender(m) \in Ends
    BY DEF Sender, Ends
  <1>2. FinsKnown'
    BY <1>1 DEF CloseInv, FinsKnown, OutsideFins, nat, Sender
  <1>3. FinsCounted'
    BY DEF CloseInv, FinsCounted, OutsideFins, nat
  <1> QED BY <1>2, <1>3

(* The ends and the links take only such steps.                              *)
LEMMA EndsCount ==
  ASSUME CloseInv, Open \/ (\E e \in Ends : Close(e) \/ Resend(e) \/ Finish(e)) \/ Deliver
                   \/ (\E m \in net : Lose(m))
  PROVE  FinsKnown' /\ FinsCounted'
  <1> USE DEF HasClosed, Ends
  <1>0. end \in [Ends -> EndStates]
    BY DEF CloseInv, TrackInv, TypeOK
  <1>1. CASE Open
    <2>1. Sent("c", {"SYN"}, "SYN_SENT").flags = {"SYN"}
      BY DEF Sent
    <2>2. OutsideFins
      BY <1>0, <1>1, <2>1 DEF Open, OutsideFins
    <2> QED BY <2>2, OutsideCounts
  <1>2. ASSUME NEW e \in Ends, Close(e) PROVE FinsKnown' /\ FinsCounted'
    <2>1. Sender(Sent(e, {"FIN", "ACK"}, end[e])) = e
      BY FinSent
    <2>2. OutsideFins
      BY <1>0, <1>2, <2>1 DEF Close, OutsideFins
    <2> QED BY <2>2, OutsideCounts
  <1>3. ASSUME NEW e \in Ends, Resend(e) PROVE FinsKnown' /\ FinsCounted'
    <2>1. PICK flags \in Unacknowledged(end[e]) : net' = net \cup {Sent(e, flags, end[e])}
      BY <1>3 DEF Resend
    <2>2. "FIN" \in flags => HasClosed(e)
      BY <2>1 DEF Unacknowledged
    <2>3. OutsideFins
      BY <1>0, <1>3, <2>1, <2>2, FinSent DEF Resend, OutsideFins
    <2> QED BY <2>3, OutsideCounts
  <1>4. ASSUME NEW e \in Ends, Finish(e) PROVE FinsKnown' /\ FinsCounted'
    <2>1. OutsideFins
      BY <1>0, <1>4 DEF Finish, OutsideFins
    <2> QED BY <2>1, OutsideCounts
  <1>5. ASSUME NEW m \in net, NEW e \in Ends, Receive(e, m) PROVE FinsKnown' /\ FinsCounted'
    <2>1. CASE net' = net \ {m} /\ end' = end
      BY <1>5, <2>1, OutsideCounts DEF Receive, OutsideFins
    <2>2. CASE /\ end' = [end EXCEPT ![e] = After(end[e], m)]
               /\ net' = (net \ {m}) \cup Reply(e, m, After(end[e], m))
      <3>1. \A d \in Ends : HasClosed(d) => HasClosed(d)'
        BY <1>0, <2>2, ClosedStays
      <3>2. \A q \in net' \ net : "FIN" \notin q.flags
        BY <2>2, NoFinReplied
      <3> QED BY <1>5, <3>1, <3>2, OutsideCounts DEF Receive, OutsideFins
    <2> QED BY <1>5, <2>1, <2>2 DEF Receive
  <1>6. ASSUME NEW m \in net, Lose(m) PROVE FinsKnown' /\ FinsCounted'
    BY <1>6, OutsideCounts DEF Lose, OutsideFins
  <1> QED BY <1>1, <1>2, <1>3, <1>4, <1>5, <1>6 DEF Deliver

(* Every FIN that passes takes the connection one step further.              *)
LEMMA UpdateCounts ==
  ASSUME CloseInv, NEW e \in Ends, NEW m \in net, Sender(m) = e, Update(e, m)
  PROVE  FinsCounted' /\ \A d \in Ends : fins'[d] > 0 => HasClosed(d)
  <1>1. /\ conn' = DetermineState(conn, m.flags)
        /\ fins' = [fins EXCEPT ![e] = IF "FIN" \in m.flags /\ @ < 2 THEN @ + 1 ELSE @]
        /\ fins \in [Ends -> 0 .. 2] /\ "c" \in Ends /\ "s" \in Ends
    BY DEF Update, Count, CloseInv, TrackInv, TypeOK, Ends
  <1>2. \A d \in Ends : fins'[d] > 0 => HasClosed(d)
    BY <1>1 DEF CloseInv, FinsKnown
  <1>7. /\ fins["c"] \in Nat /\ fins["s"] \in Nat
        /\ fins'["c"] \in Nat /\ fins'["s"] \in Nat
    BY <1>1
  <1>3. fins'["c"] + fins'["s"] >= fins["c"] + fins["s"]
    BY <1>1
  <1>4. "FIN" \in m.flags => fins'["c"] + fins'["s"] > fins["c"] + fins["s"] \/ fins'["c"] + fins'["s"] > 1
    BY <1>1 DEF Ends
  <1>5. CASE "FIN" \notin m.flags
    <2>1. /\ conn' \in {"FIN_WAIT_1", "FIN_WAIT_2"} => conn \in {"FIN_WAIT_1", "FIN_WAIT_2"}
          /\ conn' \in {"CLOSING", "CLOSED"} => conn \in {"CLOSING", "CLOSED"}
      BY <1>1, <1>5 DEF DetermineState, DetermineClose
    <2> QED BY <1>1, <1>2, <1>3, <2>1 DEF FinsCounted, CloseInv
  <1>6. CASE "FIN" \in m.flags
    <2>1. conn' \in {"CLOSING", "CLOSED"} =>
            conn \in {"FIN_WAIT_1", "FIN_WAIT_2", "CLOSING", "CLOSED"}
      BY <1>1, <1>6 DEF DetermineState, DetermineClose
    <2>2. fins'["c"] + fins'["s"] > 0
      BY <1>4, <1>6, <1>7
    <2>3. conn' \in {"CLOSING", "CLOSED"} => fins'["c"] + fins'["s"] > 1
      BY <1>3, <1>4, <1>6, <1>7, <2>1 DEF FinsCounted, CloseInv
    <2> QED BY <1>2, <2>2, <2>3 DEF FinsCounted
  <1> QED BY <1>5, <1>6

(* The NAT counts a FIN when it passes, and forgets all with the mapping.    *)
LEMMA NatCounts ==
  ASSUME CloseInv, Pass \/ ClearClosed \/ Forget
  PROVE  FinsKnown' /\ FinsCounted'
  <1>0. "c" \in Ends /\ "s" \in Ends /\ net \subseteq Segment
    BY DEF Ends, CloseInv, TrackInv, TypeOK
  <1>1. ASSUME NEW m \in net, Outbound(m) PROVE FinsKnown' /\ FinsCounted'
    <2> DEFINE q == [m EXCEPT !.hop = "ns", !.port = port']
    <2>1. Sender(m) = "c" /\ end' = end
      BY <1>1 DEF Outbound, Sender
    <2>2. q.flags = m.flags /\ Sender(q) = "c"
      BY <1>0 DEF Segment, Sender
    <2> HIDE DEF q
    <2>3. net' \subseteq net \cup {q}
      BY <1>1 DEF Outbound, Take, q
    <2>4. \A n \in net' : "FIN" \in n.flags => HasClosed(Sender(n))'
      BY <2>1, <2>2, <2>3 DEF CloseInv, FinsKnown, HasClosed, Sender
    <2>5. FinsCounted' /\ \A d \in Ends : fins'[d] > 0 => HasClosed(d)
      <3>1. CASE Insert(m)
        BY <2>1, <3>1 DEF Insert, FinsCounted, CloseInv, FinsKnown, Ends
      <3>2. CASE Update("c", m)
        BY <1>0, <2>1, <3>2, UpdateCounts
      <3> QED BY <1>1, <3>1, <3>2 DEF Outbound
    <2> QED BY <2>1, <2>4, <2>5 DEF FinsKnown, HasClosed
  <1>2. ASSUME NEW m \in net, Inbound(m) PROVE FinsKnown' /\ FinsCounted'
    <2> DEFINE q == [m EXCEPT !.hop = "nc", !.port = 0]
    <2>1. Sender(m) = "s" /\ end' = end
      BY <1>2 DEF Inbound, Sender
    <2>2. q.flags = m.flags /\ Sender(q) = "s"
      BY <1>0 DEF Segment, Sender
    <2> HIDE DEF q
    <2>3. net' \subseteq net \cup {q}
      BY <1>2 DEF Inbound, Take, q
    <2>4. \A n \in net' : "FIN" \in n.flags => HasClosed(Sender(n))'
      BY <2>1, <2>2, <2>3 DEF CloseInv, FinsKnown, HasClosed, Sender
    <2>5. FinsCounted' /\ \A d \in Ends : fins'[d] > 0 => HasClosed(d)
      <3>1. CASE UNCHANGED nat
        BY <3>1 DEF nat, FinsCounted, CloseInv, FinsKnown
      <3>2. CASE Update("s", m)
        BY <1>0, <2>1, <3>2, UpdateCounts
      <3> QED BY <1>2, <3>1, <3>2 DEF Inbound
    <2> QED BY <2>1, <2>4, <2>5 DEF FinsKnown, HasClosed
  <1>3. CASE ClearClosed \/ Forget
    <2>1. conn' = "none" /\ UNCHANGED <<end, net, fins>>
      BY <1>3 DEF ClearClosed, Forget, Free
    <2> QED BY <2>1 DEF CloseInv, FinsKnown, FinsCounted, HasClosed, Sender
  <1> QED BY <1>1, <1>2, <1>3 DEF Pass

(* Nobody has closed yet.                                                    *)
LEMMA InitClose == ASSUME Init PROVE CloseInv
  <1>1. TrackInv
    BY InitTrack
  <1>2. FinsKnown /\ FinsCounted
    BY DEF Init, FinsKnown, FinsCounted
  <1> QED BY <1>1, <1>2 DEF CloseInv

(* Every step keeps the invariant.                                           *)
LEMMA NextClose == ASSUME CloseInv, [Next]_vars PROVE CloseInv'
  <1>1. TrackInv'
    BY NextTrack DEF CloseInv
  <1>2. FinsKnown' /\ FinsCounted'
    <2>1. CASE UNCHANGED vars
      BY <2>1 DEF vars, nat, CloseInv, FinsKnown, FinsCounted, HasClosed, Sender
    <2> QED BY <2>1, EndsCount, NatCounts DEF Next
  <1> QED BY <1>1, <1>2 DEF CloseInv

(* The NAT calls a connection CLOSED, and its next round frees it, only when *)
(* both ends have closed, unless a FIN of the same end has passed twice: at  *)
(* whatever ports, and however much is lost, repeated and sent again.        *)
THEOREM ClosedByBoth == Spec => []ClosedMeansBoth
  <1>1. CloseInv => ClosedMeansBoth
    <2> SUFFICES ASSUME CloseInv, conn = "CLOSED", \A e \in Ends : fins[e] < 2
                 PROVE  \A e \in Ends : HasClosed(e)
      BY DEF ClosedMeansBoth
    <2>1. fins \in [Ends -> 0 .. 2] /\ fins["c"] + fins["s"] > 1
      BY DEF CloseInv, TrackInv, TypeOK, FinsCounted
    <2>2. \A e \in Ends : fins[e] > 0
      BY <2>1 DEF Ends
    <2> QED BY <2>2 DEF CloseInv, FinsKnown
  <1> QED BY <1>1, InitClose, NextClose, PTL DEF Spec

-----------------------------------------------------------------------------
(* A connection on which nothing is lost, repeated or forgotten              *)

Other(e) == IF e = "c" THEN "s" ELSE "c"
Fin(m) == "FIN" \in m.flags

(* The links from an end to the NAT and from the NAT to the other end. *)
ToNat(e) == IF e = "c" THEN "cn" ELSE "sn"
FromNat(e) == IF e = "c" THEN "ns" ELSE "nc"

(* One segment is under way, and nothing else is.                            *)
Alone(hop, flags) == \E m \in net : net = {m} /\ m.hop = hop /\ m.flags = flags

(* The way of the SYN to the server and of its answer to the client.         *)
AtClient ==
  /\ end["c"] = "IDLE" /\ end["s"] = "LISTEN" /\ conn = "none" /\ net = {}
  /\ peer = 0
SynToNat ==
  /\ end["c"] = "SYN_SENT" /\ end["s"] = "LISTEN" /\ conn = "none" /\ Alone("cn", {"SYN"})
  /\ peer = 0
SynToServer ==
  /\ end["c"] = "SYN_SENT" /\ end["s"] = "LISTEN" /\ conn = "SYN_SENT" /\ Alone("ns", {"SYN"})
  /\ peer = 0 /\ \A m \in net : m.port = port
AnswerToNat ==
  /\ end["c"] = "SYN_SENT" /\ end["s"] = "SYN_RCVD" /\ conn = "SYN_SENT"
  /\ Alone("sn", {"SYN", "ACK"}) /\ peer = port /\ \A m \in net : m.port = port
AnswerToClient ==
  /\ end["c"] = "SYN_SENT" /\ end["s"] = "SYN_RCVD" /\ conn = "ESTAB"
  /\ Alone("nc", {"SYN", "ACK"}) /\ peer = port

Opening == AtClient \/ SynToNat \/ SynToServer \/ AnswerToNat \/ AnswerToClient

(* The states of an end that has closed, and of one that got the other's FIN. *)
Closed == {"FIN_WAIT_1", "FIN_WAIT_2", "CLOSING", "LAST_ACK", "TIME_WAIT", "DONE"}
Seen == {"CLOSE_WAIT", "LAST_ACK", "CLOSING", "TIME_WAIT", "DONE"}

(* The FIN of an end has passed the NAT; an end has got the other's FIN.     *)
Passed(e) == HasClosed(e) /\ \A m \in net : m.hop = ToNat(e) => ~Fin(m)
SeenFin(e) == end[e] \in Seen

(* The acknowledgement of an end's FIN has still to pass the NAT.            *)
Acking(e) ==
  \E m \in net : (m.hop = FromNat(e) /\ Fin(m)) \/ (m.hop = ToNat(Other(e)) /\ m.flags = {"ACK"})

Talking ==
  /\ end["c"] \notin {"IDLE", "LISTEN", "SYN_SENT", "SYN_RCVD"}
  /\ end["s"] \notin {"IDLE", "LISTEN", "SYN_SENT"}
  /\ \A m \in net : m.flags \in {{"ACK"}, {"FIN", "ACK"}}

(* Each end's FIN is under way at most once, and not when it has arrived.    *)
OneFin ==
  /\ \A m \in net : Fin(m) => HasClosed(Sender(m)) /\ ~SeenFin(Other(Sender(m)))
  /\ \A m, n \in net : Fin(m) /\ Fin(n) /\ Sender(m) = Sender(n) => m = n
  /\ \A e \in Ends : SeenFin(e) => HasClosed(Other(e))

(* The mapping is the one of the SYN until the connection is closed.         *)
SamePort ==
  /\ \A m \in net : m.hop = "sn" => m.port = peer
  /\ \A m \in net : m.hop = "ns" /\ Fin(m) => m.port = peer
  /\ conn \notin {"none", "SYN_SENT"} => port = peer

(* What the NAT makes of it depends on whose FIN has passed.                 *)
Tracked ==
  /\ ~Passed("c") /\ ~Passed("s") => conn = "ESTAB"
  /\ (Passed("c") <=> ~Passed("s")) => conn \in {"FIN_WAIT_1", "FIN_WAIT_2"}
  /\ Passed("c") /\ Passed("s") =>
       conn \in {"CLOSING", "CLOSED", "none"} \/ (conn = "SYN_SENT" /\ first = {"ACK"})
  /\ conn \in {"FIN_WAIT_1", "CLOSING"} => \E e \in Ends : Passed(e) /\ Acking(e)

Conversation == Talking /\ OneFin /\ SamePort /\ Tracked

OrderlyInv == TrackInv /\ (Orderly => Opening \/ Conversation)

(* A connection that ends in order ends with nothing to acknowledge.         *)
LEMMA OrderlyEnds ==
  ASSUME OrderlyInv
  PROVE  OrderlyEndIsClosed
  <1> SUFFICES ASSUME Orderly, Over
               PROVE  conn \in {"CLOSED", "none"} \/ (conn = "SYN_SENT" /\ first = {"ACK"})
    BY DEF OrderlyEndIsClosed
  <1>1. ~Opening
    BY DEF Over, Ends, Opening, AtClient, SynToNat, SynToServer, AnswerToNat, AnswerToClient
  <1>2. Passed("c") /\ Passed("s")
    BY DEF Over, Ends, Passed, HasClosed
  <1>3. ~ \E e \in Ends : Acking(e)
    BY DEF Over, Acking
  <1> QED BY <1>1, <1>2, <1>3 DEF OrderlyInv, Conversation, Tracked

(* A step after which the connection is still in order had no fault.         *)
LEMMA NoFault ==
  ASSUME TrackInv, [Next]_vars, Orderly'
  PROVE  Orderly
  <1>0. /\ resent \in Nat /\ lost \in Nat /\ twice \in Nat
        /\ resent' \in Nat /\ lost' \in Nat /\ twice' \in Nat
    BY NextTrack, TrackerAssumption DEF TrackInv, TypeOK
  <1>1. resent' >= resent /\ lost' >= lost /\ twice' >= twice /\ (forgot => forgot')
    <2>1. CASE UNCHANGED vars
      BY <1>0, <2>1 DEF vars, faults
    <2>2. CASE Open \/ (\E e \in Ends : Close(e)) \/ Deliver \/ ClearClosed
      BY <1>0, <2>2 DEF Open, Close, Deliver, Receive, ClearClosed, faults
    <2>3. CASE \E e \in Ends : Resend(e) \/ Finish(e)
      BY <1>0, <2>3 DEF Resend, Finish
    <2>4. CASE (\E m \in net : Lose(m)) \/ Forget
      BY <1>0, <2>4 DEF Lose, Forget
    <2>5. CASE Pass
      BY <1>0, <2>5 DEF Pass, Outbound, Inbound, Take
    <2> QED BY <2>1, <2>2, <2>3, <2>4, <2>5 DEF Next
  <1> QED BY <1>0, <1>1 DEF Orderly

(* The steps of a connection in order.                                       *)
Sends(m, q) == net' = (net \ {m}) \cup {q}
ToServer(m) == [m EXCEPT !.hop = "ns", !.port = port']
ToClient(m) == [m EXCEPT !.hop = "nc", !.port = 0]

OrderlyStep ==
  \/ Open \/ ClearClosed
  \/ \E e \in Ends : Close(e) \/ (Finish(e) /\ end[e] = "TIME_WAIT")
  \/ \E m \in net, e \in Ends : Receive(e, m)
  \/ \E m \in net : Outbound(m) /\ Sends(m, ToServer(m))
  \/ \E m \in net : Inbound(m) /\ port = m.port /\ Update("s", m) /\ Sends(m, ToClient(m))
  \/ \E m \in net : Inbound(m) /\ port # m.port /\ UNCHANGED nat /\ net' = net \ {m}

(* A step without a fault is one of these.                                   *)
LEMMA OrderlySteps ==
  ASSUME TrackInv, Next, Orderly'
  PROVE  OrderlyStep
  <1>0. /\ resent \in Nat /\ lost \in Nat /\ twice \in Nat
        /\ resent' = 0 /\ lost' = 0 /\ twice' = 0 /\ ~forgot'
    BY TrackerAssumption DEF TrackInv, TypeOK, Orderly
  <1>1. ~(\E e \in Ends : Resend(e)) /\ ~(\E m \in net : Lose(m)) /\ ~Forget
    BY <1>0 DEF Resend, Lose, Forget
  <1>2. \A e \in Ends : Finish(e) => end[e] = "TIME_WAIT"
    BY <1>0 DEF Finish
  <1>3. \A m, S : Take(m, S) => net' = (net \ {m}) \cup S
    BY <1>0 DEF Take
  <1>4. \A m \in net : Outbound(m) => Sends(m, ToServer(m))
    BY <1>3 DEF Outbound, Sends, ToServer
  <1>5. \A m \in net : Inbound(m) =>
          \/ port = m.port /\ Update("s", m) /\ Sends(m, ToClient(m))
          \/ port # m.port /\ UNCHANGED nat /\ net' = net \ {m}
    BY <1>3 DEF Inbound, Sends, ToClient
  <1> QED BY <1>1, <1>2, <1>4, <1>5 DEF Next, Deliver, Pass, OrderlyStep

(* What the translated segments are. *)
LEMMA Translated ==
  ASSUME NEW m \in Segment
  PROVE  /\ ToServer(m).hop = "ns" /\ ToServer(m).flags = m.flags /\ ToServer(m).port = port'
         /\ ToClient(m).hop = "nc" /\ ToClient(m).flags = m.flags
         /\ ToClient(m) \in Segment
         /\ port' \in Ports => ToServer(m) \in Segment
  BY DEF ToServer, ToClient, Segment, Hops

(* The SYN and its answer come through, and then the connection is ESTAB.    *)
LEMMA OpeningMoves ==
  ASSUME OrderlyInv, Opening, OrderlyStep
  PROVE  Opening' \/ Conversation'
  <1>0. /\ end \in [Ends -> EndStates] /\ net \subseteq Segment
        /\ "c" \in Ends /\ "s" \in Ends /\ \A e \in Ends : e = "c" \/ e = "s"
        /\ (conn = "none") = (port = 0)
    BY DEF OrderlyInv, TrackInv, TypeOK, Ends
  <1>1. /\ end["c"] \in {"IDLE", "SYN_SENT"} /\ end["s"] \in {"LISTEN", "SYN_RCVD"}
        /\ conn # "CLOSED"
    BY DEF Opening, AtClient, SynToNat, SynToServer, AnswerToNat, AnswerToClient
  <1>2. ~ClearClosed /\ ~(\E e \in Ends : Close(e) \/ (Finish(e) /\ end[e] = "TIME_WAIT"))
    BY <1>0, <1>1 DEF ClearClosed, Close
  <1>3. CASE AtClient
    <2>1. Open
      BY <1>2, <1>3 DEF AtClient, OrderlyStep
    <2>2. /\ Sent("c", {"SYN"}, "SYN_SENT").hop = "cn"
          /\ Sent("c", {"SYN"}, "SYN_SENT").flags = {"SYN"}
      BY DEF Sent
    <2>3. SynToNat'
      BY <1>0, <1>3, <2>1, <2>2 DEF AtClient, SynToNat, Open, Alone, nat
    <2> QED BY <2>3 DEF Opening
  <1>4. CASE SynToNat
    <2>1. PICK m \in net : net = {m} /\ m.hop = "cn" /\ m.flags = {"SYN"}
      BY <1>4 DEF SynToNat, Alone
    <2>2. Outbound(m) /\ Sends(m, ToServer(m))
      BY <1>0, <1>2, <1>4, <2>1 DEF SynToNat, OrderlyStep, Open, Receive, Inbound
    <2>3. conn' = "SYN_SENT" /\ UNCHANGED <<end, peer>>
      BY <1>4, <2>2 DEF SynToNat, Outbound, Insert, Update
    <2>4. ToServer(m).hop = "ns" /\ ToServer(m).flags = {"SYN"} /\ ToServer(m).port = port'
      BY <1>0, <2>1, Translated
    <2>5. net' = {ToServer(m)}
      BY <2>1, <2>2 DEF Sends
    <2>6. SynToServer'
      BY <1>4, <2>3, <2>4, <2>5 DEF SynToNat, SynToServer, Alone
    <2> QED BY <2>6 DEF Opening
  <1>5. CASE SynToServer
    <2>1. PICK m \in net : net = {m} /\ m.hop = "ns" /\ m.flags = {"SYN"} /\ m.port = port
      BY <1>5 DEF SynToServer, Alone
    <2>2. Receive("s", m)
      BY <1>0, <1>2, <1>5, <2>1 DEF SynToServer, OrderlyStep, Open, Receive, Inbound, Outbound
    <2>3. IsSyn(m.flags) /\ After("LISTEN", m) = "SYN_RCVD"
      BY <2>1 DEF IsSyn, After
    <2> DEFINE q == Sent("s", {"SYN", "ACK"}, "SYN_RCVD")
    <2>4. /\ peer' = port /\ UNCHANGED nat
          /\ end' = [end EXCEPT !["s"] = "SYN_RCVD"]
          /\ net' = (net \ {m}) \cup Reply("s", m, "SYN_RCVD")
      BY <1>5, <2>1, <2>2, <2>3 DEF SynToServer, Receive
    <2>5. Reply("s", m, "SYN_RCVD") = {q}
      BY <2>3 DEF Reply
    <2>6. q.hop = "sn" /\ q.flags = {"SYN", "ACK"} /\ q.port = peer'
      BY DEF Sent
    <2> HIDE DEF q
    <2>7. net' = {q}
      BY <2>1, <2>4, <2>5
    <2>8. AnswerToNat'
      BY <1>0, <1>5, <2>4, <2>6, <2>7 DEF SynToServer, AnswerToNat, Alone, nat
    <2> QED BY <2>8 DEF Opening
  <1>6. CASE AnswerToNat
    <2>1. PICK m \in net : /\ net = {m} /\ m.hop = "sn" /\ m.flags = {"SYN", "ACK"}
                           /\ m.port = port
      BY <1>6 DEF AnswerToNat, Alone
    <2>2. Inbound(m) /\ Update("s", m) /\ Sends(m, ToClient(m))
      BY <1>0, <1>2, <1>6, <2>1 DEF AnswerToNat, OrderlyStep, Open, Receive, Outbound
    <2>3. conn' = "ESTAB" /\ UNCHANGED <<end, peer, port>>
      <3>1. DetermineState("SYN_SENT", {"SYN", "ACK"}) = "ESTAB"
        BY DEF DetermineState, IsSyn
      <3> QED BY <1>6, <2>1, <2>2, <3>1 DEF AnswerToNat, Inbound, Update
    <2>4. ToClient(m).hop = "nc" /\ ToClient(m).flags = {"SYN", "ACK"}
      BY <1>0, <2>1, Translated
    <2>5. net' = {ToClient(m)}
      BY <2>1, <2>2 DEF Sends
    <2>6. AnswerToClient'
      BY <1>6, <2>3, <2>4, <2>5 DEF AnswerToNat, AnswerToClient, Alone
    <2> QED BY <2>6 DEF Opening
  <1>7. CASE AnswerToClient
    <2>1. PICK m \in net : net = {m} /\ m.hop = "nc" /\ m.flags = {"SYN", "ACK"}
      BY <1>7 DEF AnswerToClient, Alone
    <2>2. Receive("c", m)
      BY <1>0, <1>2, <1>7, <2>1 DEF AnswerToClient, OrderlyStep, Open, Receive, Inbound, Outbound
    <2>3. ~IsSyn(m.flags) /\ After("SYN_SENT", m) = "ESTAB"
      BY <2>1 DEF IsSyn, After
    <2> DEFINE q == Sent("c", {"ACK"}, "ESTAB")
    <2>4. /\ UNCHANGED <<peer, nat>>
          /\ end' = [end EXCEPT !["c"] = "ESTAB"]
          /\ net' = (net \ {m}) \cup Reply("c", m, "ESTAB")
      BY <1>7, <2>2, <2>3 DEF AnswerToClient, Receive
    <2>5. Reply("c", m, "ESTAB") = {q}
      BY <2>1, <2>3 DEF Reply
    <2>6. q.hop = "cn" /\ q.flags = {"ACK"}
      BY DEF Sent
    <2> HIDE DEF q
    <2>7. net' = {q} /\ end'["c"] = "ESTAB" /\ end'["s"] = "SYN_RCVD"
      BY <1>0, <1>7, <2>1, <2>4, <2>5 DEF AnswerToClient
    <2>8. Talking' /\ OneFin'
      BY <1>0, <2>6, <2>7 DEF Talking, OneFin, Fin, SeenFin, Seen
    <2>9. SamePort'
      BY <1>7, <2>4, <2>6, <2>7 DEF AnswerToClient, SamePort, nat
    <2>10. Tracked'
      BY <1>7, <2>4, <2>7 DEF AnswerToClient, Tracked, nat, Passed, HasClosed
    <2> QED BY <2>8, <2>9, <2>10 DEF Conversation
  <1> QED BY <1>3, <1>4, <1>5, <1>6, <1>7 DEF Opening

(* What a segment without SYN does to an end that has an open connection.    *)
LEMMA AfterTalk ==
  ASSUME NEW s \in EndStates \ {"IDLE", "LISTEN", "SYN_SENT"}, NEW m, ~IsSyn(m.flags)
  PROVE  /\ After(s, m) \in EndStates \ {"IDLE", "LISTEN", "SYN_SENT"}
         /\ s # "SYN_RCVD" => After(s, m) # "SYN_RCVD"
         /\ s \in Closed <=> After(s, m) \in Closed
         /\ s \in Seen => After(s, m) \in Seen
         /\ ~Fin(m) /\ s \notin Seen => After(s, m) \notin Seen
         /\ Fin(m) /\ s \notin Seen => After(s, m) \in Seen \ {"DONE"}
  BY DEF After, Fin, Closed, Seen, EndStates

(* An end closes, or the end of TIME_WAIT comes.                             *)
LEMMA CloseGoesOn ==
  ASSUME OrderlyInv, Conversation, NEW e \in Ends,
         Close(e) \/ (Finish(e) /\ end[e] = "TIME_WAIT")
  PROVE  Conversation'
  <1>0. /\ end \in [Ends -> EndStates] /\ Other(e) \in Ends
        /\ e \in {"c", "s"} /\ "c" \in Ends /\ "s" \in Ends
    BY DEF OrderlyInv, TrackInv, TypeOK, Ends, Other
  <1>1. CASE Close(e)
    <2> DEFINE q == Sent(e, {"FIN", "ACK"}, end[e])
    <2>1. /\ Fin(q) /\ q.flags = {"FIN", "ACK"} /\ Sender(q) = e /\ q.hop = ToNat(e)
          /\ q.hop = "sn" => q.port = peer
      BY <1>0, <1>1 DEF Close, Sent, Fin, Sender, ToNat
    <2> HIDE DEF q
    <2>2. /\ net' = net \cup {q} /\ UNCHANGED <<nat, peer>>
          /\ end[e] \in {"ESTAB", "CLOSE_WAIT"}
          /\ end' = [end EXCEPT ![e] = IF @ = "ESTAB" THEN "FIN_WAIT_1" ELSE "LAST_ACK"]
      BY <1>1 DEF Close, q
    <2>3. /\ ~HasClosed(e) /\ HasClosed(e)'
          /\ \A d \in Ends : SeenFin(d)' = SeenFin(d)
          /\ \A d \in Ends : d # e => (HasClosed(d)' = HasClosed(d))
      BY <1>0, <2>2 DEF HasClosed, SeenFin, Seen
    <2>4. Talking'
      BY <1>0, <2>1, <2>2 DEF Conversation, Talking
    <2>5. OneFin'
      <3>1. ~SeenFin(Other(e))
        BY <1>0, <2>3 DEF Conversation, OneFin, Other
      <3>2. \A n \in net : Fin(n) => Sender(n) # e
        BY <2>3 DEF Conversation, OneFin
      <3>3. \A n \in net' : Fin(n) => n = q \/ (n \in net /\ Sender(n) # e)
        BY <2>2, <3>2
      <3>4. \A n : Sender(n) \in Ends /\ Other(Sender(n)) \in Ends
        BY DEF Sender, Other, Ends
      <3>5. \A n \in net' : Fin(n) => HasClosed(Sender(n))' /\ ~SeenFin(Other(Sender(n)))'
        BY <2>1, <2>3, <3>1, <3>3, <3>4, <1>0 DEF Conversation, OneFin
      <3>6. \A d \in Ends : SeenFin(d)' => HasClosed(Other(d))'
        BY <2>3, <3>4, <1>0 DEF Conversation, OneFin, Other
      <3>7. \A n, k \in net' : Fin(n) /\ Fin(k) /\ Sender(n) = Sender(k) => n = k
        BY <2>1, <3>3 DEF Conversation, OneFin
      <3> QED BY <3>5, <3>6, <3>7 DEF OneFin, HasClosed, SeenFin
    <2>6. SamePort'
      BY <1>0, <2>1, <2>2 DEF Conversation, SamePort, nat, ToNat
    <2>7. ~Passed(e) /\ ~Passed(e)' /\ \A d \in Ends : d # e => (Passed(d)' = Passed(d))
      BY <1>0, <2>1, <2>2, <2>3 DEF Passed, ToNat, HasClosed, Ends
    <2>8. \A d \in Ends : Acking(d) => Acking(d)'
      BY <2>2 DEF Acking
    <2>9. \A d \in Ends : (Passed(d) <=> Passed(d)')
      BY <2>7
    <2>10. UNCHANGED <<conn, first>>
      BY <2>2 DEF nat
    <2>11. (\E d \in Ends : Passed(d) /\ Acking(d)) => \E d \in Ends : Passed(d)' /\ Acking(d)'
      BY <2>8, <2>9
    <2>12. Tracked'
      BY <1>0, <2>9, <2>10, <2>11 DEF Conversation, Tracked
    <2> QED BY <2>4, <2>5, <2>6, <2>12 DEF Conversation
  <1>2. CASE Finish(e) /\ end[e] = "TIME_WAIT"
    <2>1. /\ net = {} /\ net' = {} /\ UNCHANGED <<nat, peer>>
          /\ end' = [end EXCEPT ![e] = "DONE"]
      BY <1>2 DEF Finish
    <2>2. \A d \in Ends : HasClosed(d)' = HasClosed(d) /\ SeenFin(d)' = SeenFin(d)
      BY <1>0, <1>2, <2>1 DEF HasClosed, SeenFin, Seen
    <2>3. Talking' /\ OneFin' /\ SamePort'
      BY <1>0, <1>2, <2>1, <2>2 DEF Conversation, Talking, OneFin, SamePort, nat, HasClosed, SeenFin, Seen,
           Other, Ends
    <2>4. \A d \in Ends : Passed(d)' = Passed(d) /\ ~Acking(d)
      BY <2>1, <2>2 DEF Passed, Acking
    <2>5. Tracked'
      BY <1>0, <2>1, <2>4 DEF Conversation, Tracked, nat
    <2> QED BY <2>3, <2>5 DEF Conversation
  <1> QED BY <1>1, <1>2

(* A segment arrives at an end: a FIN is answered by its acknowledgement.    *)
LEMMA ReceiveGoesOn ==
  ASSUME OrderlyInv, Conversation, NEW e \in Ends, NEW m \in net, Receive(e, m)
  PROVE  Conversation'
  <1> DEFINE to == After(end[e], m)
             q == Sent(e, {"ACK"}, to)
  <1>0. /\ end \in [Ends -> EndStates] /\ net \subseteq Segment
        /\ e \in {"c", "s"} /\ "c" \in Ends /\ "s" \in Ends
        /\ \A d \in Ends : d = e \/ d = Other(e)
        /\ Other(e) \in Ends /\ Other(e) # e /\ Other(Other(e)) = e
    BY DEF OrderlyInv, TrackInv, TypeOK, Ends, Other
  <1>1. /\ m.hop = FromNat(Other(e)) /\ Sender(m) = Other(e)
        /\ \A d \in Ends : m.hop # ToNat(d)
        /\ \A d \in Ends : m.hop = FromNat(d) => d = Other(e)
    BY <1>0 DEF Receive, FromNat, ToNat, Other, Sender
  <1>2. ~IsSyn(m.flags) /\ m.flags \in {{"ACK"}, {"FIN", "ACK"}}
    BY DEF Conversation, Talking, IsSyn
  <1>3. peer' = peer /\ UNCHANGED nat
    BY <1>2 DEF Receive
  <1>4. end[e] \in EndStates \ {"IDLE", "LISTEN", "SYN_SENT"}
    BY <1>0 DEF Conversation, Talking
  <1>5. /\ to \in EndStates \ {"IDLE", "LISTEN", "SYN_SENT"}
        /\ end[e] # "SYN_RCVD" => to # "SYN_RCVD"
        /\ end[e] \in Closed <=> to \in Closed
        /\ end[e] \in Seen => to \in Seen
        /\ ~Fin(m) /\ end[e] \notin Seen => to \notin Seen
        /\ Fin(m) /\ end[e] \notin Seen => to \in Seen \ {"DONE"}
    BY <1>2, <1>4, AfterTalk
  <1>6. /\ q.flags = {"ACK"} /\ ~Fin(q) /\ q.hop = ToNat(e) /\ (q.hop = "sn" => q.port = peer)
        /\ q.hop # "ns"
    BY <1>0, <1>3 DEF Sent, Fin, ToNat
  <1>7. Fin(m) => /\ e = "s" => m.port = peer
                  /\ end[e] \notin Seen /\ HasClosed(Other(e))
                  /\ \A n \in net : Fin(n) /\ Sender(n) = Other(e) => n = m
    BY <1>0, <1>1 DEF Conversation, OneFin, SamePort, SeenFin, FromNat, Other
  <1>8. Reply(e, m, to) = IF Fin(m) /\ to # "DONE" THEN {q} ELSE {}
    BY <1>2, <1>5 DEF Reply, Fin
  <1> HIDE DEF to, q
  <1>9. CASE net' = net \ {m} /\ ~Fin(m) /\ (end' = end \/ end' = [end EXCEPT ![e] = to])
    <2>1. \A d \in Ends : HasClosed(d)' = HasClosed(d) /\ SeenFin(d)' = SeenFin(d)
      BY <1>0, <1>5, <1>9 DEF HasClosed, Closed, SeenFin
    <2>2. Talking'
      BY <1>0, <1>5, <1>9 DEF Conversation, Talking
    <2>3. OneFin'
      BY <1>0, <1>9, <2>1 DEF Conversation, OneFin, Sender, Ends, Other
    <2>4. SamePort'
      BY <1>3, <1>9 DEF Conversation, SamePort, nat
    <2>5. \A d \in Ends : Passed(d)' = Passed(d)
      BY <1>1, <1>9, <2>1 DEF Passed
    <2>6. \A d \in Ends : Acking(d) => Acking(d)'
      BY <1>0, <1>1, <1>9 DEF Acking, Other
    <2>7. Tracked'
      BY <1>0, <1>3, <2>5, <2>6 DEF Conversation, Tracked, nat
    <2> QED BY <2>2, <2>3, <2>4, <2>7 DEF Conversation
  <1>10. CASE net' = (net \ {m}) \cup {q} /\ Fin(m) /\ end' = [end EXCEPT ![e] = to]
    <2>1. /\ \A d \in Ends : HasClosed(d)' = HasClosed(d)
          /\ \A d \in Ends : d # e => (SeenFin(d)' = SeenFin(d))
      BY <1>0, <1>5, <1>10 DEF HasClosed, Closed, SeenFin
    <2>2. Talking'
      BY <1>0, <1>5, <1>6, <1>10 DEF Conversation, Talking
    <2>3. OneFin'
      <3>1. \A n \in net' : Fin(n) => n \in net /\ Sender(n) = e
        BY <1>0, <1>1, <1>6, <1>7, <1>10 DEF Sender, Ends
      <3>2. \A n \in net' : Fin(n) => HasClosed(Sender(n))' /\ ~SeenFin(Other(Sender(n)))'
        BY <1>0, <2>1, <3>1 DEF Conversation, OneFin
      <3>3. \A d \in Ends : SeenFin(d)' => HasClosed(Other(d))'
        BY <1>0, <1>7, <1>10, <2>1 DEF Conversation, OneFin
      <3>4. \A n, k \in net' : Fin(n) /\ Fin(k) /\ Sender(n) = Sender(k) => n = k
        BY <3>1 DEF Conversation, OneFin
      <3> QED BY <3>2, <3>3, <3>4 DEF OneFin, HasClosed, SeenFin
    <2>4. SamePort'
      BY <1>3, <1>6, <1>10 DEF Conversation, SamePort, nat
    <2>5. \A d \in Ends : Passed(d)' = Passed(d)
      BY <1>1, <1>6, <1>10, <2>1 DEF Passed
    <2>6. \A d \in Ends : Acking(d) => Acking(d)'
      BY <1>0, <1>1, <1>6, <1>10 DEF Acking, Other
    <2>7. Tracked'
      BY <1>0, <1>3, <2>5, <2>6 DEF Conversation, Tracked, nat
    <2> QED BY <2>2, <2>3, <2>4, <2>7 DEF Conversation
  <1>11. CASE e = "s" /\ m.port # peer' /\ net' = net \ {m} /\ end' = end
    BY <1>3, <1>7, <1>9, <1>11
  <1>12. CASE end' = [end EXCEPT ![e] = to] /\ net' = (net \ {m}) \cup Reply(e, m, to)
    <2>1. CASE Fin(m)
      BY <1>5, <1>7, <1>8, <1>10, <1>12, <2>1
    <2>2. CASE ~Fin(m)
      BY <1>8, <1>9, <1>12, <2>2
    <2> QED BY <2>1, <2>2
  <1> QED BY <1>11, <1>12 DEF Receive, to

(* A segment passes the NAT over its connection.                             *)
LEMMA UpdateGoesOn ==
  ASSUME OrderlyInv, Conversation, NEW e \in Ends, NEW m \in net, NEW q \in Segment,
         m.hop = ToNat(e), q.hop = FromNat(e), q.flags = m.flags, q.hop = "ns" => q.port = port,
         Update(e, m), Sends(m, q), UNCHANGED <<end, peer>>
  PROVE  Conversation'
  <1>0. /\ e \in {"c", "s"} /\ "c" \in Ends /\ "s" \in Ends
        /\ \A d \in Ends : d = e \/ d = Other(e)
        /\ Other(e) \in Ends /\ Other(e) # e /\ Other(Other(e)) = e
        /\ conn \in TcpStates
    BY DEF OrderlyInv, TrackInv, TypeOK, Ends, Other, Update
  <1>1. /\ Sender(m) = e /\ Sender(q) = e
        /\ Fin(q) = Fin(m) /\ m.flags \in {{"ACK"}, {"FIN", "ACK"}}
        /\ q.hop # "sn" /\ \A d \in Ends : q.hop # ToNat(d)
        /\ \A d \in Ends : m.hop # FromNat(d)
        /\ \A d \in Ends : m.hop = ToNat(d) => d = e
    BY <1>0 DEF Sender, ToNat, FromNat, Fin, Conversation, Talking
  <1>2. /\ conn # "none" /\ conn' = DetermineState(conn, m.flags)
        /\ UNCHANGED <<port, first>> /\ net' = (net \ {m}) \cup {q}
    BY DEF Update, Sends
  <1>3. \A d \in Ends : HasClosed(d)' = HasClosed(d) /\ SeenFin(d)' = SeenFin(d)
    BY DEF HasClosed, SeenFin
  <1>4. Talking'
    BY <1>1, <1>2 DEF Conversation, Talking
  <1>5. OneFin'
    <2>1. \A n \in net' : n = q \/ n \in net
      BY <1>2
    <2>2. \A n \in net' : Fin(n) => HasClosed(Sender(n)) /\ ~SeenFin(Other(Sender(n)))
      BY <1>1, <2>1 DEF Conversation, OneFin
    <2>3. \A n \in net' : Fin(n) /\ Fin(q) /\ Sender(n) = e => n = q
      BY <1>1, <1>2 DEF Conversation, OneFin
    <2>4. \A n, k \in net' : Fin(n) /\ Fin(k) /\ Sender(n) = Sender(k) => n = k
      BY <1>1, <2>1, <2>3 DEF Conversation, OneFin
    <2>5. \A d \in Ends : SeenFin(d) => HasClosed(Other(d))
      BY DEF Conversation, OneFin
    <2> QED BY <2>2, <2>4, <2>5 DEF OneFin, HasClosed, SeenFin
  <1>6. CASE Fin(m)
    <2>1. HasClosed(e) /\ ~Passed(e)
      BY <1>1, <1>6 DEF Conversation, OneFin, Passed
    <2>2. Passed(e)'
      <3>1. \A n \in net' : n.hop = ToNat(e) => n # q /\ n \in net \ {m} /\ Sender(n) = e
        BY <1>0, <1>1, <1>2 DEF Sender, ToNat
      <3>2. \A n \in net' : n.hop = ToNat(e) => ~Fin(n)
        BY <1>1, <1>6, <3>1 DEF Conversation, OneFin
      <3> QED BY <1>3, <2>1, <3>2 DEF Passed
    <2>9. Passed(Other(e)) <=> Passed(Other(e))'
      BY <1>0, <1>1, <1>2, <1>3 DEF Passed
    <2>3. Acking(e)'
      BY <1>1, <1>2, <1>6 DEF Acking
    <2>4. IF Passed(Other(e)) THEN conn \in {"FIN_WAIT_1", "FIN_WAIT_2"} ELSE conn = "ESTAB"
      BY <1>0, <2>1 DEF Conversation, Tracked
    <2>5. IF Passed(Other(e)) THEN conn' \in {"CLOSING", "CLOSED"} ELSE conn' = "FIN_WAIT_1"
      BY <1>1, <1>2, <1>6, <2>4 DEF DetermineState, DetermineClose, IsSyn, Fin
    <2>6. Tracked'
      BY <1>0, <2>2, <2>3, <2>5, <2>9 DEF Tracked
    <2>7. port = peer
      BY <2>4 DEF Conversation, SamePort
    <2>8. SamePort'
      BY <1>1, <1>2, <2>7 DEF Conversation, SamePort
    <2> QED BY <1>4, <1>5, <2>6, <2>8 DEF Conversation
  <1>7. CASE ~Fin(m)
    <2>1. m.flags = {"ACK"}
      BY <1>1, <1>7 DEF Fin
    <2>2. \A d \in Ends : Passed(d)' = Passed(d)
      BY <1>1, <1>2, <1>3, <1>7 DEF Passed
    <2>3. /\ conn = "FIN_WAIT_1" => conn' = "FIN_WAIT_2"
          /\ conn = "CLOSING" => conn' = "CLOSED"
          /\ conn \notin {"FIN_WAIT_1", "CLOSING", "SYN_RCVD"} => conn' = conn
      BY <2>1, <1>2 DEF DetermineState, DetermineClose, IsSyn
    <2>4. conn \in {"ESTAB", "FIN_WAIT_1", "FIN_WAIT_2", "CLOSING", "CLOSED", "SYN_SENT"}
      BY <1>2 DEF Conversation, Tracked
    <2>5. Tracked'
      BY <1>0, <1>2, <2>2, <2>3, <2>4 DEF Conversation, Tracked
    <2>6. SamePort'
      BY <1>1, <1>2, <1>7, <2>3, <2>4 DEF Conversation, SamePort
    <2> QED BY <1>4, <1>5, <2>5, <2>6 DEF Conversation
  <1> QED BY <1>6, <1>7

(* A segment of the client makes a mapping of its own: the last ACK.         *)
LEMMA InsertGoesOn ==
  ASSUME OrderlyInv, Conversation, NEW m \in net, NEW q \in Segment,
         m.hop = "cn", q.hop = "ns", q.flags = m.flags,
         Insert(m), Sends(m, q), UNCHANGED <<end, peer>>
  PROVE  Conversation'
  <1>1. Passed("c") /\ Passed("s")
    BY DEF Conversation, Tracked, Insert
  <1>2. /\ net' = (net \ {m}) \cup {q} /\ conn' = "SYN_SENT" /\ first' = {"ACK"}
        /\ m.flags = {"ACK"} /\ ~Fin(q)
    BY <1>1 DEF Sends, Insert, Passed, ToNat, Fin, Conversation, Talking
  <1>3. \A d \in Ends : HasClosed(d)' = HasClosed(d) /\ SeenFin(d)' = SeenFin(d)
    BY DEF HasClosed, SeenFin
  <1>4. Talking' /\ OneFin'
    BY <1>2, <1>3 DEF Conversation, Talking, OneFin, HasClosed, SeenFin
  <1>5. SamePort'
    BY <1>2 DEF Conversation, SamePort
  <1>6. Passed("c")' /\ Passed("s")'
    BY <1>1, <1>2, <1>3 DEF Passed, HasClosed
  <1>7. Tracked'
    BY <1>2, <1>6 DEF Tracked
  <1> QED BY <1>4, <1>5, <1>7 DEF Conversation

(* A segment of the server for which there is no mapping is the last ACK.    *)
LEMMA RefusedGoesOn ==
  ASSUME OrderlyInv, Conversation, NEW m \in net, m.hop = "sn", port # m.port,
         net' = net \ {m}, UNCHANGED <<end, peer, nat>>
  PROVE  Conversation'
  <1>1. conn \in {"none", "SYN_SENT"}
    BY DEF Conversation, SamePort
  <1>2. Passed("c") /\ Passed("s")
    BY <1>1 DEF Conversation, Tracked
  <1>3. Talking' /\ OneFin'
    BY DEF Conversation, Talking, OneFin, HasClosed, SeenFin
  <1>4. SamePort'
    BY DEF Conversation, SamePort, nat
  <1>5. Passed("c")' /\ Passed("s")'
    BY <1>2 DEF Passed, HasClosed
  <1>6. Tracked'
    BY <1>1, <1>2, <1>5 DEF Tracked, nat, Conversation
  <1> QED BY <1>3, <1>4, <1>6 DEF Conversation

(* The timeout thread frees a connection whose FINs have both passed.        *)
LEMMA ClearGoesOn ==
  ASSUME OrderlyInv, Conversation, ClearClosed
  PROVE  Conversation'
  <1>1. conn = "CLOSED" /\ conn' = "none" /\ UNCHANGED <<end, peer, net>>
    BY DEF ClearClosed, Free
  <1>2. Passed("c") /\ Passed("s")
    BY <1>1 DEF Conversation, Tracked
  <1>3. Talking' /\ OneFin' /\ SamePort'
    BY <1>1 DEF Conversation, Talking, OneFin, SamePort, HasClosed, SeenFin
  <1>4. Tracked'
    BY <1>1, <1>2 DEF Tracked, Passed, HasClosed
  <1> QED BY <1>3, <1>4 DEF Conversation

(* Every step of a conversation in order goes on with it.                    *)
LEMMA ConversationMoves ==
  ASSUME OrderlyInv, Conversation, OrderlyStep
  PROVE  Conversation'
  <1>0. /\ "c" \in Ends /\ "s" \in Ends /\ net \subseteq Segment
        /\ port \in Ports \cup {0} /\ (conn # "none" => port \in Ports)
    BY DEF Ends, OrderlyInv, TrackInv, TypeOK
  <1>1. ~Open
    BY DEF Open, Conversation, Talking
  <1>2. ASSUME NEW m \in net, Outbound(m), Sends(m, ToServer(m)) PROVE Conversation'
    <2> DEFINE q == ToServer(m)
    <2>1. /\ q \in Segment /\ q.hop = "ns" /\ q.flags = m.flags /\ q.port = port'
      <3>1. port' \in Ports
        BY <1>0, <1>2 DEF Outbound, Insert, Update
      <3> QED BY <1>0, <3>1, Translated
    <2>2. m.hop = "cn" /\ UNCHANGED <<end, peer>> /\ (Insert(m) \/ Update("c", m)) /\ Sends(m, q)
      BY <1>2 DEF Outbound
    <2> HIDE DEF q
    <2>3. Update("c", m) => q.port = port
      BY <2>1 DEF Update
    <2> QED BY <1>0, <2>1, <2>2, <2>3, InsertGoesOn, UpdateGoesOn DEF ToNat, FromNat
  <1>3. ASSUME NEW m \in net, Inbound(m), Update("s", m), Sends(m, ToClient(m))
        PROVE  Conversation'
    <2> DEFINE q == ToClient(m)
    <2>1. /\ q \in Segment /\ q.hop = "nc" /\ q.flags = m.flags
      BY <1>0, Translated
    <2>2. m.hop = "sn" /\ UNCHANGED <<end, peer>> /\ Sends(m, q)
      BY <1>3 DEF Inbound
    <2> HIDE DEF q
    <2> QED BY <1>0, <1>3, <2>1, <2>2, UpdateGoesOn DEF ToNat, FromNat
  <1>4. ASSUME NEW m \in net, Inbound(m), port # m.port, UNCHANGED nat, net' = net \ {m}
        PROVE  Conversation'
    BY <1>4, RefusedGoesOn DEF Inbound
  <1> QED BY <1>1, <1>2, <1>3, <1>4, CloseGoesOn, ReceiveGoesOn, ClearGoesOn DEF OrderlyStep

(* The client has not opened yet.                                            *)
LEMMA InitOrderly ==
  ASSUME Init
  PROVE  OrderlyInv
  BY InitTrack DEF Init, OrderlyInv, Opening, AtClient, Ends

(* Every step keeps the invariant.                                           *)
LEMMA NextOrderly ==
  ASSUME OrderlyInv, [Next]_vars
  PROVE  OrderlyInv'
  <1>1. TrackInv'
    BY NextTrack DEF OrderlyInv
  <1>2. ASSUME Orderly' PROVE (Opening \/ Conversation)'
    <2>1. Opening \/ Conversation
      BY <1>2, NoFault DEF OrderlyInv
    <2>2. CASE Next
      <3>1. OrderlyStep
        BY <1>2, <2>2, OrderlySteps DEF OrderlyInv
      <3> QED BY <2>1, <3>1, OpeningMoves, ConversationMoves
    <2>3. CASE UNCHANGED vars
      <3>1. UNCHANGED <<end, peer, net, conn, port, first>>
        BY <2>3 DEF vars, nat
      <3>2. Opening => Opening'
        BY <3>1 DEF Opening, AtClient, SynToNat, SynToServer, AnswerToNat, AnswerToClient, Alone
      <3>3. \A d \in Ends : Passed(d)' = Passed(d) /\ Acking(d)' = Acking(d)
                             /\ SeenFin(d)' = SeenFin(d) /\ HasClosed(d)' = HasClosed(d)
        BY <3>1 DEF Passed, Acking, SeenFin, HasClosed
      <3>4. Conversation => Conversation'
        BY <3>1, <3>3 DEF Conversation, Talking, OneFin, SamePort, Tracked, Passed, Acking,
             SeenFin, HasClosed
      <3> QED BY <2>1, <3>2, <3>4
    <2> QED BY <2>2, <2>3
  <1> QED BY <1>1, <1>2 DEF OrderlyInv

(* A connection that ends in order, whoever closes first and in whatever     *)
(* order the segments of both ends pass the NAT and the timeout thread goes  *)
(* round, ends without waiting for a timeout; only a last ACK that comes     *)
(* after the round has made a mapping again, which has to be idle first.     *)
THEOREM OrderlyEndCloses == Spec => []OrderlyEndIsClosed
  BY InitOrderly, NextOrderly, OrderlyEnds, PTL DEF Spec
=============================================================================
