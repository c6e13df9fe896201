---------------------------- MODULE IpPathProofs ----------------------------
(* Proofs about where the packets of IpPath go, for every set of hosts, of   *)
(* routes, of private nets and of packets that the hosts start: no private   *)
(* address leaves, and every answer reaches the host that asked.             *)
EXTENDS IpPacketProofs, FiniteSetTheorems

-----------------------------------------------------------------------------
(* Private addresses stay inside *)

Fields == {"about", "src", "dst", "proto", "type", "id", "ttl", "sum", "lsum"}

(* A packet has its fields; which values they take does not matter here.     *)
Shape(p) == DOMAIN p = Fields

(* What PrivateHidden says of one packet. *)
Hidden(p) ==
  nat /\ p.proto \in {"icmp", "tcp"} /\ ~IsPrivate(p.dst) => ~(IsPrivate(p.src) /\ p.src \in Host)

Frame(f) == f.link \in Host /\ Shape(f.pkt) /\ (f.dir = "out" => Hidden(f.pkt))
Waits(w) == w.link \in Host /\ Shape(w.pkt)

(* No frame on its way to a host shows a private address, and the packets    *)
(* that wait came from a link that has an address of the router.             *)
HideInv ==
  /\ \A f \in wire : Frame(f)
  /\ \A w \in waiting : Waits(w)
  /\ \A p \in unsol : Shape(p)
  /\ \A p \in got : Hidden(p)

-----------------------------------------------------------------------------
(* What the router writes into a packet besides its addresses                *)

(* The header checksum leaves the addresses and the protocol alone.          *)
LEMMA SummedFields ==
  ASSUME NEW p, Shape(p)
  PROVE  /\ Shape(Summed(p)) /\ Shape(WithHeaderSum(p))
         /\ Summed(p).src = p.src /\ Summed(p).dst = p.dst /\ Summed(p).proto = p.proto
         /\ WithHeaderSum(p).src = p.src /\ WithHeaderSum(p).dst = p.dst
         /\ WithHeaderSum(p).proto = p.proto
  BY DEF Shape, Fields, Summed, WithHeaderSum

(* So does taking one from the TTL.                                          *)
LEMMA AgedFields ==
  ASSUME NEW p, Shape(p)
  PROVE  /\ Shape(Aged(p))
         /\ Aged(p).src = p.src /\ Aged(p).dst = p.dst /\ Aged(p).proto = p.proto
  <1> DEFINE q == [p EXCEPT !.ttl = (p.ttl - 1) % TtlMod]
  <1>1. Shape(q) /\ q.src = p.src /\ q.dst = p.dst /\ q.proto = p.proto
    BY DEF Shape, Fields
  <1> HIDE DEF q
  <1>2. Aged(p) = WithHeaderSum(q)
    BY DEF Aged, q
  <1> QED BY <1>1, <1>2, SummedFields

(* An address of the router is no host's, nor is the broadcast address.      *)
LEMMA OwnAddress ==
  /\ \A h \in Host : IfAddr[h] \notin Host
  /\ Broadcast \notin Host
  /\ \A ip : NextHop(ip) \subseteq Host
  <1>1. \A ip : RtLookup(ip) \subseteq DOMAIN Rtable
    BY DEF RtLookup, Matching
  <1> QED BY <1>1, IpAssumption DEF RouterAddr, NextHop

(* The messages of sr_send_icmp come from an address of the router, but for  *)
(* an echo reply, which comes from the address that was asked.               *)
LEMMA IcmpFrames ==
  ASSUME NEW p, Shape(p), NEW link \in Host, NEW type,
         type = "reply" => p.dst \notin Host,
         NEW g \in Icmp(p, link, type)
  PROVE  Frame(g)
  <1> DEFINE src == IF type = "reply" THEN p.dst ELSE IfAddr[link]
             q == [p EXCEPT !.proto = "icmp", !.type = type, !.ttl = DefaultTtl, !.dst = p.src,
                            !.src = src, !.id = IF type = "reply" THEN p.id ELSE 0]
  <1>1. g = Out(Summed(q), link)
    BY DEF Icmp
  <1>2. Shape(q) /\ q.src = src
    BY DEF Shape, Fields
  <1>3. src \notin Host
    BY OwnAddress
  <1> HIDE DEF q, src
  <1>4. Shape(Summed(q)) /\ Summed(q).src \notin Host
    BY <1>2, <1>3, SummedFields
  <1> QED BY <1>1, <1>4 DEF Frame, Hidden, Out

-----------------------------------------------------------------------------
(* Steps of the router                                                       *)

(* f is taken off the wire; what is put on the wire, or made to wait, hides  *)
(* private addresses.                                                        *)
Keeps == (\A f \in wire' : Frame(f)) /\ (\A w \in waiting' : Waits(w))

(* sr_forward_ippacket for a packet that hides them already.                 *)
LEMMA ForwardKeeps ==
  ASSUME HideInv, NEW f \in wire, NEW q, Shape(q), Hidden(q), Forward(f, q)
  PROVE  Keeps
  <1>1. Frame(f) /\ f.link \in Host
    BY DEF HideInv, Frame
  <1>2. CASE NextHop(q.dst) = {} /\ Replace(f, Icmp(q, f.link, "net")) /\ UNCHANGED waiting
    <2>1. \A g \in Icmp(q, f.link, "net") : Frame(g)
      BY <1>1, IcmpFrames
    <2> QED BY <1>2, <2>1 DEF Keeps, HideInv, Replace
  <1>3. ASSUME NEW h \in NextHop(q.dst) \ Silent,
               Replace(f, {Out(Aged(q), h)}), UNCHANGED waiting
        PROVE  Keeps
    <2>1. Frame(Out(Aged(q), h))
      BY AgedFields, OwnAddress DEF Frame, Out, Hidden
    <2> QED BY <1>3, <2>1 DEF Keeps, HideInv, Replace
  <1>4. ASSUME Replace(f, {}), waiting' = waiting \cup {[pkt |-> Aged(q), link |-> f.link]}
        PROVE  Keeps
    BY <1>1, <1>4, AgedFields DEF Keeps, HideInv, Replace, Waits
  <1> QED BY <1>2, <1>3, <1>4 DEF Forward

(* A packet that is dropped, or answered with an ICMP error.                 *)
LEMMA DropKeeps ==
  ASSUME HideInv, NEW f \in wire, Drop(f)
  PROVE  Keeps
  BY DEF Drop, Replace, Keeps, HideInv

(* An ICMP message to the source of a packet hides private addresses.        *)
LEMMA ReturnKeeps ==
  ASSUME HideInv, NEW f \in wire, NEW type, type = "reply" => f.pkt.dst \notin Host,
         Return(f, type)
  PROVE  Keeps
  <1>1. f.link \in Host /\ Shape(f.pkt)
    BY DEF HideInv, Frame
  <1>2. \A g \in Icmp(f.pkt, f.link, type) : Frame(g)
    BY <1>1, IcmpFrames
  <1> QED BY <1>2 DEF Return, Replace, Keeps, HideInv

(* The rewritten packets: out with the router's address as source, in from   *)
(* an external host.                                                         *)
LEMMA TranslatedFields ==
  ASSUME NEW p, Shape(p), NEW id, NEW i
  PROVE  /\ \A h \in Host : Shape(TranslatedOut(p, id, h)) /\ Hidden(TranslatedOut(p, id, h))
         /\ Shape(TranslatedIn(p, i))
         /\ ~IsPrivate(p.src) => Hidden(TranslatedIn(p, i))
  <1>1. ASSUME NEW h \in Host
        PROVE  Shape(TranslatedOut(p, id, h)) /\ Hidden(TranslatedOut(p, id, h))
    <2> DEFINE q == [p EXCEPT !.src = IfAddr[h], !.id = id]
    <2>1. Shape(q) /\ q.src = IfAddr[h]
      BY DEF Shape, Fields
    <2>2. TranslatedOut(p, id, h) = Summed(q)
      BY DEF TranslatedOut
    <2> HIDE DEF q
    <2> QED BY <2>1, <2>2, SummedFields, OwnAddress DEF Hidden
  <1>2. /\ Shape(TranslatedIn(p, i))
        /\ ~IsPrivate(p.src) => Hidden(TranslatedIn(p, i))
    <2> DEFINE q == [p EXCEPT !.dst = i[1], !.id = i[2]]
    <2>1. Shape(q) /\ q.src = p.src
      BY DEF Shape, Fields
    <2>2. TranslatedIn(p, i) = Summed(q)
      BY DEF TranslatedIn
    <2> HIDE DEF q
    <2> QED BY <2>1, <2>2, SummedFields DEF Hidden
  <1> QED BY <1>1, <1>2

(* nat_handle_icmp with result 1.                                            *)
LEMMA NatIcmpKeeps ==
  ASSUME HideInv, NEW f \in wire, NatIcmp(f)
  PROVE  Keeps
  <1>1. Shape(f.pkt)
    BY DEF HideInv, Frame
  <1>2. ASSUME NEW h \in NextHop(f.pkt.dst), NEW id \in Ids,
               Forward(f, TranslatedOut(f.pkt, id, h))
        PROVE  Keeps
    <2>1. h \in Host
      BY OwnAddress
    <2> QED BY <1>1, <1>2, <2>1, TranslatedFields, ForwardKeeps
  <1>3. ASSUME ~IsPrivate(f.pkt.src), NEW i, Forward(f, TranslatedIn(f.pkt, i))
        PROVE  Keeps
    BY <1>1, <1>3, TranslatedFields, ForwardKeeps
  <1> QED BY <1>2, <1>3 DEF NatIcmp

(* nat_handle_tcp with result 1.                                             *)
LEMMA NatTcpKeeps ==
  ASSUME HideInv, NEW f \in wire, NEW toMe, NatTcp(f, toMe)
  PROVE  Keeps
  <1>1. Shape(f.pkt)
    BY DEF HideInv, Frame
  <1>2. CASE IsPrivate(f.pkt.src) /\ IsPrivate(f.pkt.dst) /\ Forward(f, f.pkt)
    BY <1>1, <1>2, ForwardKeeps DEF Hidden
  <1>3. ASSUME NEW h \in NextHop(f.pkt.dst), NEW id \in Ids,
               Forward(f, TranslatedOut(f.pkt, id, h))
        PROVE  Keeps
    <2>1. h \in Host
      BY OwnAddress
    <2> QED BY <1>1, <1>3, <2>1, TranslatedFields, ForwardKeeps
  <1>4. CASE ~IsPrivate(f.pkt.src) /\ Forward(f, Summed(f.pkt))
    BY <1>1, <1>4, SummedFields, ForwardKeeps DEF Hidden
  <1>5. ASSUME ~IsPrivate(f.pkt.src), NEW i, Forward(f, TranslatedIn(f.pkt, i))
        PROVE  Keeps
    BY <1>1, <1>5, TranslatedFields, ForwardKeeps
  <1>6. CASE ~IsPrivate(f.pkt.src) /\ Forward(f, f.pkt)
    BY <1>1, <1>6, ForwardKeeps DEF Hidden
  <1> QED BY <1>2, <1>3, <1>4, <1>5, <1>6 DEF NatTcp

(* nat_handle_icmp with result 0, which sr_handle_ippacket does not look at. *)
LEMMA NoNatIcmpKeeps ==
  ASSUME HideInv, NEW f \in wire, NoNatIcmp(f.pkt), Forward(f, f.pkt)
  PROVE  Keeps
  <1>1. Shape(f.pkt) /\ f.link \in Host
    BY DEF HideInv, Frame
  <1>2. CASE (IsPrivate(f.pkt.src) /\ IsPrivate(f.pkt.dst)) \/ ~IsPrivate(f.pkt.src)
    BY <1>1, <1>2, ForwardKeeps DEF Hidden
  <1>3. CASE NextHop(f.pkt.dst) = {}
    <2>1. Replace(f, Icmp(f.pkt, f.link, "net")) /\ UNCHANGED waiting
      BY <1>3 DEF Forward
    <2>2. \A g \in Icmp(f.pkt, f.link, "net") : Frame(g)
      BY <1>1, IcmpFrames
    <2> QED BY <2>1, <2>2 DEF Keeps, HideInv, Replace
  <1> QED BY <1>2, <1>3 DEF NoNatIcmp

(* A packet for an address of the router is not from there to a host.        *)
LEMMA ForMeIsNoHost ==
  ASSUME NEW p, ForMe(p)
  PROVE  p.dst \notin Host
  BY IpAssumption DEF ForMe

(* Every way through sr_handle_ippacket.                                     *)
LEMMA HandleKeeps ==
  ASSUME HideInv, NEW f \in wire, Handle(f)
  PROVE  Keeps /\ UNCHANGED <<nat, got>> /\ unsol' \subseteq unsol \cup {f.pkt}
  <1>1. CASE Reject(f)
    BY <1>1, DropKeeps DEF Reject, same
  <1>2. CASE EchoToRouter(f)
    <2>1. f.pkt.dst \notin Host
      BY <1>2, ForMeIsNoHost DEF EchoToRouter, Here
    <2> QED BY <1>2, <2>1, ReturnKeeps DEF EchoToRouter, same
  <1>3. CASE IcmpToRouter(f)
    BY <1>3, NatIcmpKeeps, DropKeeps DEF IcmpToRouter, same
  <1>4. CASE TcpToRouter(f)
    <2>1. UNCHANGED <<nat, got>>
      BY <1>4 DEF TcpToRouter, same
    <2>2. CASE NatTcp(f, TRUE)
      BY <2>1, <2>2, NatTcpKeeps DEF NatTcp, TcpOut
    <2>3. CASE NatTcpHeld(f.pkt) /\ Drop(f)
      BY <2>1, <2>3, DropKeeps DEF NatTcpHeld
    <2>4. CASE NatTcpRefused(f.pkt, TRUE) /\ Return(f, "port")
      BY <2>1, <2>4, ReturnKeeps DEF NatTcpRefused
    <2> QED BY <1>4, <2>2, <2>3, <2>4 DEF TcpToRouter
  <1>5. CASE OtherToRouter(f)
    <2>1. PICK type \in {"proto", "port"} : Return(f, type)
      BY <1>5 DEF OtherToRouter
    <2> QED BY <1>5, <2>1, ReturnKeeps DEF OtherToRouter, same
  <1>6. CASE Expired(f)
    BY <1>6, ReturnKeeps DEF Expired, same
  <1>7. CASE IcmpOn(f)
    BY <1>7, NatIcmpKeeps, NoNatIcmpKeeps DEF IcmpOn, same
  <1>8. CASE TcpOn(f)
    <2>1. UNCHANGED <<nat, got>>
      BY <1>8 DEF TcpOn, same
    <2>2. CASE NatTcp(f, FALSE)
      BY <2>1, <2>2, NatTcpKeeps DEF NatTcp, TcpOut
    <2>3. CASE NatTcpRefused(f.pkt, FALSE) /\ Return(f, "host")
      BY <2>1, <2>3, ReturnKeeps DEF NatTcpRefused
    <2> QED BY <1>8, <2>2, <2>3 DEF TcpOn
  <1>9. CASE OtherOn(f)
    <2>1. Shape(f.pkt) /\ Hidden(f.pkt)
      BY <1>9 DEF OtherOn, HideInv, Frame, Hidden
    <2> QED BY <1>9, <2>1, ForwardKeeps DEF OtherOn, same
  <1>10. CASE TcpUnrouted(f)
    BY <1>10, DropKeeps DEF TcpUnrouted, TcpOut
  <1> QED BY <1>1, <1>2, <1>3, <1>4, <1>5, <1>6, <1>7, <1>8, <1>9, <1>10 DEF Handle

-----------------------------------------------------------------------------
(* Every step keeps the invariant                                            *)

(* A host sends a packet to the router.                                      *)
LEMMA HostSendKeeps ==
  ASSUME HideInv, NEW t \in Traffic, HostSend(t)
  PROVE  HideInv'
  <1>1. t.src \in Host
    BY IpAssumption DEF Template
  <1>2. Frame(In(Made(t), t.src))
    BY <1>1 DEF Frame, In, Made, Shape, Fields
  <1>3. wire' = wire \cup {In(Made(t), t.src)} /\ UNCHANGED <<unsol, waiting, nat, got>>
    BY DEF HostSend, tables
  <1> QED BY <1>2, <1>3 DEF HideInv, Frame, Waits, Shape, Hidden

(* A host takes, and may answer, what is sent to it.                         *)
LEMMA HostReceiveKeeps ==
  ASSUME HideInv, NEW f \in wire, HostReceive(f)
  PROVE  HideInv'
  <1>1. Frame(f) /\ f.dir = "out" /\ UNCHANGED <<unsol, waiting, nat>>
    BY DEF HostReceive, HideInv, tables
  <1>2. \A q \in Answers(f.pkt) : Frame(In(q, f.link))
    BY <1>1 DEF Answers, Frame, In, Shape, Fields
  <1>3. \A g \in wire' : Frame(g)
    BY <1>2 DEF HostReceive, HideInv
  <1>4. \A p \in got' : Hidden(p)
    BY <1>1 DEF HostReceive, HideInv, Frame
  <1> QED BY <1>1, <1>3, <1>4 DEF HideInv, Frame, Waits, Shape, Hidden

(* What the timeout threads send.                                            *)
LEMMA GiveUpKeeps ==
  ASSUME HideInv, NEW w \in waiting, GiveUp(w)
  PROVE  HideInv'
  <1>1. w.link \in Host /\ Shape(w.pkt)
    BY DEF HideInv, Waits
  <1>2. \A g \in Icmp(w.pkt, w.link, "host") : Frame(g)
    BY <1>1, IcmpFrames
  <1>3. /\ wire' = wire \cup Icmp(w.pkt, w.link, "host") /\ waiting' = waiting \ {w}
        /\ UNCHANGED <<unsol, nat, got>>
    BY DEF GiveUp
  <1> QED BY <1>2, <1>3 DEF HideInv, Frame, Waits, Shape, Hidden

(* The NAT's timeout thread answers an unsolicited packet.                   *)
LEMMA AnswerKeeps ==
  ASSUME HideInv, NEW p \in unsol, AnswerUnsolicited(p)
  PROVE  HideInv'
  <1>1. PICK h \in NextHop(p.src) : wire' = wire \cup Icmp(p, h, "port")
    BY DEF AnswerUnsolicited
  <1>2. h \in Host /\ Shape(p)
    BY OwnAddress DEF HideInv
  <1>3. \A g \in Icmp(p, h, "port") : Frame(g)
    BY <1>2, IcmpFrames
  <1>4. unsol' = unsol \ {p} /\ UNCHANGED <<waiting, nat, got>>
    BY DEF AnswerUnsolicited
  <1> QED BY <1>1, <1>3, <1>4 DEF HideInv, Frame, Waits, Shape, Hidden

(* Every step of the hosts, the router and its threads keeps the             *)
(* invariant.                                                                *)
LEMMA NextHides ==
  ASSUME HideInv, [Next]_vars
  PROVE  HideInv'
  <1>1. CASE \E t \in Traffic : HostSend(t)
    BY <1>1, HostSendKeeps
  <1>2. CASE \E f \in wire : HostReceive(f)
    BY <1>2, HostReceiveKeeps
  <1>3. ASSUME NEW f \in wire, Handle(f)
        PROVE  HideInv'
    <2>1. Keeps /\ UNCHANGED <<nat, got>> /\ unsol' \subseteq unsol \cup {f.pkt}
      BY <1>3, HandleKeeps
    <2>2. Shape(f.pkt)
      BY DEF HideInv, Frame
    <2> QED BY <2>1, <2>2 DEF Keeps, HideInv, Frame, Waits, Shape, Hidden
  <1>4. CASE \E w \in waiting : GiveUp(w)
    BY <1>4, GiveUpKeeps
  <1>5. CASE \E p \in unsol : AnswerUnsolicited(p)
    BY <1>5, AnswerKeeps
  <1>6. CASE \E S \in SUBSET Bound : Expire(S)
    BY <1>6 DEF Expire, HideInv, Frame, Waits, Shape, Hidden
  <1>7. CASE UNCHANGED vars
    BY <1>7 DEF vars, HideInv, Frame, Waits, Shape, Hidden
  <1> QED BY <1>1, <1>2, <1>3, <1>4, <1>5, <1>6, <1>7 DEF Next

(* With the NAT on, no address of an internal host leaves in ICMP or TCP,    *)
(* whatever the hosts send, whatever the routes and the private nets are,    *)
(* and whether a packet goes out at once, waits, or is answered with an      *)
(* error.                                                                    *)
THEOREM PrivateStaysInside == Spec => []PrivateHidden
  <1>1. Init => HideInv
    BY DEF Init, HideInv
  <1>2. HideInv => PrivateHidden
    BY DEF HideInv, PrivateHidden, Hidden
  <1> QED BY <1>1, <1>2, NextHides, PTL DEF Spec

-----------------------------------------------------------------------------
(* Answers reach the host that asked *)

(* The packets of Traffic that ask an internal host's question.              *)
Asking(t) == t.type \in {"request", "syn"} /\ IsPrivate(t.src)

(* Those whose mapping has not been freed before the answer came.            *)
Followed(t) == Asking(t) /\ t \notin late

(* The id that the pair of the asker has in the table.                       *)
HasId(p) ==
  LET i == <<p.about.src, p.about.id>> IN i \in Bound /\ bind[i] = p.id

(* A question as it was asked, which the NAT does not translate when it goes *)
(* on so; and one that it has translated.                                    *)
Plain(p) == ~(nat /\ p.proto \in {"icmp", "tcp"}) \/ IsPrivate(p.about.dst)
AsAsked(p) == p.src = p.about.src /\ p.dst = p.about.dst /\ p.id = p.about.id
Masked(p) == p.src \in RouterAddr /\ p.dst = p.about.dst /\ ~IsPrivate(p.dst) /\ HasId(p)

(* An answer for the asker, and one to a translated question.                *)
Right(p) == p.dst = p.about.src /\ p.src = p.about.dst /\ p.id = p.about.id
ToRouter(p) == p.dst \in RouterAddr /\ p.src = p.about.dst /\ ~IsPrivate(p.src) /\ HasId(p)

(* What is under way to a host, and to the router.                           *)
OutOK(p) ==
  Followed(p.about) =>
    /\ p.type \in {"request", "syn"} => (AsAsked(p) /\ Plain(p)) \/ Masked(p)
    /\ p.type \in {"reply", "seg"} => Right(p)

InOK(p) ==
  Followed(p.about) =>
    \/ p.type \in {"request", "syn"} /\ AsAsked(p)
    \/ p.type \in {"reply", "seg"} /\ ((Right(p) /\ Plain(p)) \/ ToRouter(p))

(* No two pairs have the same id.                                            *)
OnePair == \A i, j \in Bound : bind[i] = bind[j] => i = j

OnItsWay(f) == IF f.dir = "out" THEN OutOK(f.pkt) ELSE InOK(f.pkt)

AnswerInv ==
  /\ PacketInv /\ OnePair
  /\ \A f \in wire : OnItsWay(f)
  /\ \A p \in got : Followed(p.about) /\ p.type \in {"reply", "seg"} => Right(p)

-----------------------------------------------------------------------------
(* Ids                                                                       *)

(* There are more ids than pairs, so one that is given is nobody's.          *)
LEMMA FreshId ==
  ASSUME TableOK, NEW i, NEW id, Bind(i, id)
  PROVE  id \notin Taken
  <1> SUFFICES ASSUME id \in Taken PROVE FALSE
    OBVIOUS
  <1>1. /\ i \in Inside /\ i \notin Bound /\ id \in Ids /\ id = LastId
        /\ \A k \in FirstId .. (id - 1) : k \in Taken
    BY DEF Bind
  <1>2. FirstId \in Nat /\ LastId \in Nat /\ FirstId <= LastId
    BY <1>1, IpAssumption DEF Ids
  <1>3. \A k \in FirstId .. LastId : k \in Taken
    BY <1>1, <1>2
  <1> DEFINE T == Inside \ {i}
             S == FirstId .. LastId
             g == [k \in S |-> CHOOSE j \in Bound : bind[j] = k]
  <1>4. \A k \in S : g[k] \in Bound /\ bind[g[k]] = k
    BY <1>3 DEF Taken
  <1>5. g \in [S -> T]
    BY <1>1, <1>4 DEF TableOK
  <1>6. IsFiniteSet(Inside) /\ Cardinality(Inside) \in Nat /\ Cardinality(Inside) <= LastId - FirstId
    BY IpAssumption, FS_CardinalityType
  <1>7. IsFiniteSet(T) /\ Cardinality(T) = Cardinality(Inside) - 1
    BY <1>1, <1>6, FS_RemoveElement
  <1>8. IsFiniteSet(S) /\ Cardinality(S) = LastId - FirstId + 1
    BY <1>2, FS_Interval
  <1>9. Cardinality(T) < Cardinality(S)
    BY <1>2, <1>6, <1>7, <1>8
  <1> HIDE DEF g, S, T
  <1>10. PICK k, l \in S : k # l /\ g[k] = g[l]
    BY <1>5, <1>7, <1>8, <1>9, FS_PigeonHole
  <1> QED BY <1>4, <1>10

(* So no two pairs get the same, and those that are bound keep theirs.       *)
LEMMA MappedAlone ==
  ASSUME TableOK, OnePair, NEW i, NEW id, Mapped(i, id)
  PROVE  /\ OnePair' /\ i \in Bound' /\ bind'[i] = id
         /\ \A j \in Bound : j \in Bound' /\ bind'[j] = bind[j]
  <1>1. CASE i \in Bound /\ id = bind[i] /\ UNCHANGED bind
    BY <1>1 DEF OnePair, Bound
  <1>2. CASE Bind(i, id)
    <2>1. bind' = [j \in Bound \cup {i} |-> IF j = i THEN id ELSE bind[j]] /\ i \notin Bound
      BY <1>2 DEF Bind
    <2>2. Bound' = Bound \cup {i}
      BY <2>1 DEF Bound
    <2>3. \A j \in Bound : bind[j] # id
      BY <1>2, FreshId DEF Taken
    <2> QED BY <2>1, <2>2, <2>3 DEF OnePair
  <1> QED BY <1>1, <1>2 DEF Mapped

-----------------------------------------------------------------------------
(* What becomes of a packet                                                  *)

(* The fields that tell whose it is. *)
Same(p, q) ==
  /\ q.about = p.about /\ q.src = p.src /\ q.dst = p.dst /\ q.id = p.id
  /\ q.type = p.type /\ q.proto = p.proto

(* Checksums and the TTL are not among them.                                 *)
LEMMA SummedSame ==
  ASSUME NEW p \in PacketType
  PROVE  Same(p, Summed(p)) /\ Same(p, WithHeaderSum(p)) /\ Same(p, Aged(p))
  <1>1. Same(p, WithHeaderSum(p)) /\ Same(p, Summed(p))
    BY DEF Same, Summed, WithHeaderSum, PacketType
  <1>2. Same(p, Aged(p))
    <2> DEFINE q == [p EXCEPT !.ttl = (p.ttl - 1) % TtlMod]
               c == Cksum(HeaderSum(q))
    <2>1. Aged(p) = [q EXCEPT !.sum = c]
      BY DEF Aged, WithHeaderSum
    <2> HIDE DEF c
    <2> QED BY <2>1 DEF Same, PacketType
  <1> QED BY <1>1, <1>2

(* The NAT changes an address and an id, and nothing else.                   *)
LEMMA TranslatedSame ==
  ASSUME NEW p \in PacketType, NEW id \in Ids
  PROVE  /\ \A h \in Host :
              LET q == TranslatedOut(p, id, h)
              IN  /\ q.about = p.about /\ q.type = p.type /\ q.proto = p.proto /\ q.dst = p.dst
                  /\ q.src = IfAddr[h] /\ q.id = id
         /\ \A i \in Number \X Nat :
              LET q == TranslatedIn(p, i)
              IN  /\ q.about = p.about /\ q.type = p.type /\ q.proto = p.proto /\ q.src = p.src
                  /\ q.dst = i[1] /\ q.id = i[2]
  <1>1. ASSUME NEW h \in Host
        PROVE  LET q == TranslatedOut(p, id, h)
               IN  /\ q.about = p.about /\ q.type = p.type /\ q.proto = p.proto /\ q.dst = p.dst
                   /\ q.src = IfAddr[h] /\ q.id = id
    <2> DEFINE r == [p EXCEPT !.src = IfAddr[h], !.id = id]
    <2>1. /\ r \in PacketType /\ r.about = p.about /\ r.type = p.type /\ r.proto = p.proto
          /\ r.dst = p.dst /\ r.src = IfAddr[h] /\ r.id = id
      BY Addresses DEF PacketType
    <2>2. TranslatedOut(p, id, h) = Summed(r)
      BY DEF TranslatedOut
    <2> HIDE DEF r
    <2> QED BY <2>1, <2>2, SummedSame DEF Same
  <1>2. ASSUME NEW i \in Number \X Nat
        PROVE  LET q == TranslatedIn(p, i)
               IN  /\ q.about = p.about /\ q.type = p.type /\ q.proto = p.proto /\ q.src = p.src
                   /\ q.dst = i[1] /\ q.id = i[2]
    <2> DEFINE r == [p EXCEPT !.dst = i[1], !.id = i[2]]
    <2>1. /\ r \in PacketType /\ r.about = p.about /\ r.type = p.type /\ r.proto = p.proto
          /\ r.src = p.src /\ r.dst = i[1] /\ r.id = i[2]
      BY DEF PacketType
    <2>2. TranslatedIn(p, i) = Summed(r)
      BY DEF TranslatedIn
    <2> HIDE DEF r
    <2> QED BY <2>1, <2>2, SummedSame DEF Same
  <1> QED BY <1>1, <1>2

(* An ICMP error is neither a question nor an answer; an echo reply of the   *)
(* router is right when the question is as it was asked.                     *)
LEMMA IcmpRight ==
  ASSUME NEW p \in PacketType, NEW link \in Host, NEW type \in {"reply", "net", "host", "port", "proto", "ttl"},
         type = "reply" => (Followed(p.about) => AsAsked(p)), late' = late,
         NEW g \in Icmp(p, link, type)
  PROVE  g.dir = "out" /\ OutOK(g.pkt)'
  <1> DEFINE src == IF type = "reply" THEN p.dst ELSE IfAddr[link]
             id == IF type = "reply" THEN p.id ELSE 0
             q == [p EXCEPT !.proto = "icmp", !.type = type, !.ttl = DefaultTtl, !.dst = p.src,
                            !.src = src, !.id = id]
  <1>1. g = Out(Summed(q), link)
    BY DEF Icmp
  <1>2. src \in Number /\ id \in Nat /\ "icmp" \in Protocol /\ type \in Kind
    BY Addresses DEF PacketType, Protocol, Kind
  <1>3. /\ type = "reply" => src = p.dst /\ id = p.id
    OBVIOUS
  <1> HIDE DEF src, id
  <1>4. /\ q \in PacketType /\ q.about = p.about /\ q.type = type /\ q.dst = p.src
        /\ q.src = src /\ q.id = id
    BY <1>2, Words DEF PacketType
  <1> HIDE DEF q
  <1>5. Same(q, Summed(q)) /\ g.pkt = Summed(q) /\ g.dir = "out"
    BY <1>1, <1>4, SummedSame DEF Out
  <1> QED BY <1>3, <1>4, <1>5 DEF Same, OutOK, Right, AsAsked, Followed

-----------------------------------------------------------------------------
(* Steps of the router                                                       *)

(* No binding is given up. *)
Growing ==
  /\ nat' = nat /\ late' = late
  /\ \A j \in Bound : j \in Bound' /\ bind'[j] = bind[j]

Arrived == \A g \in wire' : OnItsWay(g)'

(* What is right stays right while the bindings stay.                        *)
LEMMA Persist ==
  ASSUME Growing, NEW g, OnItsWay(g)
  PROVE  OnItsWay(g)'
  <1>1. HasId(g.pkt) => HasId(g.pkt)'
    BY DEF Growing, HasId
  <1>2. Plain(g.pkt) => Plain(g.pkt)'
    BY DEF Growing, Plain
  <1> QED BY <1>1, <1>2 DEF OnItsWay, OutOK, InOK, Masked, ToRouter, Right, AsAsked,
                              Followed, Growing

(* f is taken off the wire for frames that are right.                        *)
LEMMA ReplaceRight ==
  ASSUME AnswerInv, NEW f \in wire, Growing, NEW S, Replace(f, S), \A g \in S : OnItsWay(g)'
  PROVE  Arrived
  <1>1. \A g \in wire : OnItsWay(g)'
    BY Persist DEF AnswerInv
  <1> QED BY <1>1 DEF Replace, Arrived

(* sr_forward_ippacket: only the checksum and the TTL change.                *)
LEMMA ForwardRight ==
  ASSUME AnswerInv, NEW f \in wire, Growing, NEW q \in PacketType,
         NextHop(q.dst) # {} => OutOK(q)', Forward(f, q)
  PROVE  Arrived
  <1>1. f.link \in Host
    BY DEF AnswerInv, PacketInv, FrameOK
  <1>2. CASE Replace(f, Icmp(q, f.link, "net"))
    <2>1. \A g \in Icmp(q, f.link, "net") : OnItsWay(g)'
      BY <1>1, IcmpRight DEF OnItsWay, Growing
    <2> QED BY <1>2, <2>1, ReplaceRight
  <1>3. ASSUME NEW h \in NextHop(q.dst), Replace(f, {Out(Aged(q), h)})
        PROVE  Arrived
    <2>1. Same(q, Aged(q)) /\ OutOK(q)'
      BY <1>3, SummedSame
    <2>2. OutOK(Aged(q))'
      BY <2>1 DEF Same, OutOK, Masked, Right, AsAsked, Plain, HasId, Followed
    <2>3. OnItsWay(Out(Aged(q), h))'
      BY <2>2 DEF OnItsWay, Out
    <2> QED BY <1>3, <2>3, ReplaceRight
  <1>4. CASE Replace(f, {})
    BY <1>4, ReplaceRight
  <1> QED BY <1>2, <1>3, <1>4 DEF Forward

(* A packet that is dropped or answered with an ICMP message.                *)
LEMMA ReturnRight ==
  ASSUME AnswerInv, NEW f \in wire, Growing,
         \/ Drop(f)
         \/ \E type \in {"net", "host", "port", "proto", "ttl"} : Return(f, type)
         \/ Return(f, "reply") /\ (Followed(f.pkt.about) => AsAsked(f.pkt))
  PROVE  Arrived
  <1>1. f.link \in Host /\ f.pkt \in PacketType
    BY DEF AnswerInv, PacketInv, FrameOK, Fine, Shown
  <1>2. CASE Drop(f)
    BY <1>2, ReplaceRight DEF Drop
  <1>3. ASSUME NEW type \in {"reply", "net", "host", "port", "proto", "ttl"}, Return(f, type),
               type = "reply" => (Followed(f.pkt.about) => AsAsked(f.pkt))
        PROVE  Arrived
    <2>1. \A g \in Icmp(f.pkt, f.link, type) : OnItsWay(g)'
      BY <1>1, <1>3, IcmpRight DEF OnItsWay, Growing
    <2> QED BY <1>3, <2>1, ReplaceRight DEF Return
  <1> QED BY <1>2, <1>3

(* A question that goes out translated.                                      *)
LEMMA QuestionRight ==
  ASSUME PacketInv, NEW p \in PacketType, InOK(p), Outward(p), NEW id \in Ids, NEW h \in Host,
         Pair(p) \in Bound', bind'[Pair(p)] = id, late' = late
  PROVE  OutOK(TranslatedOut(p, id, h))'
  <1> DEFINE q == TranslatedOut(p, id, h)
  <1>1. /\ q.about = p.about /\ q.type = p.type /\ q.dst = p.dst /\ q.src = IfAddr[h] /\ q.id = id
    BY TranslatedSame
  <1> HIDE DEF q
  <1>2. ASSUME Followed(p.about) PROVE p.type \in {"request", "syn"} /\ AsAsked(p)
    BY <1>2 DEF InOK, Outward, Right, ToRouter, Followed, Asking
  <1>3. ASSUME Followed(p.about) PROVE Masked(q)'
    <2>1. Pair(p) = <<q.about.src, q.about.id>>
      BY <1>1, <1>2, <1>3 DEF Pair, AsAsked
    <2>2. q.src \in RouterAddr /\ ~IsPrivate(q.dst) /\ q.dst = q.about.dst
      BY <1>1, <1>2, <1>3 DEF RouterAddr, Outward, AsAsked
    <2> QED BY <1>1, <2>1, <2>2 DEF Masked, HasId
  <1>4. Followed(p.about) => q.type \in {"request", "syn"}
    BY <1>1, <1>2
  <1>5. Followed(q.about)' <=> Followed(p.about)
    BY <1>1 DEF Followed
  <1> QED BY <1>1, <1>3, <1>4, <1>5 DEF OutOK, q

(* An answer that comes in: the id is the asker's, whoever else has one.     *)
LEMMA AnswerRight ==
  ASSUME PacketInv, OnePair, nat, NEW p \in PacketType, p.proto \in {"icmp", "tcp"}, InOK(p),
         ~IsPrivate(p.src), NEW i \in Bound, bind[i] = p.id
  PROVE  OutOK(TranslatedIn(p, i))
  <1> DEFINE q == TranslatedIn(p, i)
  <1>1. i \in Number \X Nat
    BY DEF PacketInv, TableOK
  <1>2. /\ q.about = p.about /\ q.type = p.type /\ q.src = p.src /\ q.dst = i[1] /\ q.id = i[2]
    <2>1. bind[i] \in Ids
      BY DEF PacketInv, TableOK
    <2> QED BY <1>1, <2>1, TranslatedSame
  <1> HIDE DEF q
  <1>3. ASSUME Followed(p.about) PROVE p.type \in {"reply", "seg"} /\ ToRouter(p)
    BY <1>3 DEF InOK, AsAsked, Right, Plain, Followed, Asking
  <1>4. ASSUME Followed(p.about) PROVE Right(q)
    <2>1. i = <<p.about.src, p.about.id>>
      BY <1>3, <1>4 DEF ToRouter, HasId, OnePair
    <2> QED BY <1>2, <1>3, <1>4, <2>1 DEF Right, ToRouter
  <1>5. Followed(p.about) => q.type \notin {"request", "syn"}
    BY <1>2, <1>3
  <1> QED BY <1>2, <1>4, <1>5 DEF OutOK, q

(* A packet that is forwarded as it came.                                    *)
LEMMA PlainRight ==
  ASSUME NEW p \in PacketType, InOK(p),
         \/ IsPrivate(p.src) /\ IsPrivate(p.dst)
         \/ ~ForMe(p) /\ (~IsPrivate(p.src) \/ ~(nat /\ p.proto \in {"icmp", "tcp"}))
  PROVE  OutOK(p)
  BY DEF InOK, OutOK, AsAsked, Right, ToRouter, Plain, ForMe, Followed, Asking

(* What a handler may take for granted of an accepted packet.                *)
LEMMA Taking ==
  ASSUME AnswerInv, NEW f \in wire, Arrives(f)
  PROVE  f.pkt \in PacketType /\ InOK(f.pkt) /\ f.link \in Host
  BY DEF AnswerInv, PacketInv, FrameOK, Shown, OnItsWay, Arrives

(* nat_handle_icmp with result 1.                                            *)
LEMMA NatIcmpRight ==
  ASSUME AnswerInv, NEW f \in wire, Arrives(f), nat, nat' = nat, late' = late,
         f.pkt.proto = "icmp", NatIcmp(f), Held(f.pkt)
  PROVE  Arrived /\ OnePair'
  <1>1. f.pkt \in PacketType /\ InOK(f.pkt) /\ TableOK /\ OnePair /\ PacketInv
    BY Taking DEF AnswerInv, PacketInv
  <1>2. ASSUME Outward(f.pkt), NEW h \in NextHop(f.pkt.dst), NEW id \in Ids,
               Mapped(Pair(f.pkt), id), Forward(f, TranslatedOut(f.pkt, id, h))
        PROVE  Arrived /\ OnePair'
    <2>1. Growing /\ OnePair' /\ Pair(f.pkt) \in Bound' /\ bind'[Pair(f.pkt)] = id
      BY <1>1, <1>2, MappedAlone DEF Growing
    <2>2. h \in Host
      BY Addresses
    <2>3. OutOK(TranslatedOut(f.pkt, id, h))' /\ TranslatedOut(f.pkt, id, h) \in PacketType
      BY <1>1, <1>2, <2>1, <2>2, QuestionRight, TranslatedFine DEF Fine
    <2> QED BY <1>2, <2>1, <2>3, ForwardRight
  <1>3. ASSUME ~IsPrivate(f.pkt.src), NEW i \in Bound, bind[i] = f.pkt.id,
               Forward(f, TranslatedIn(f.pkt, i)), UNCHANGED bind
        PROVE  Arrived /\ OnePair'
    <2>1. Growing /\ OnePair'
      BY <1>1, <1>3 DEF Growing, OnePair, Bound
    <2>2. OutOK(TranslatedIn(f.pkt, i)) /\ TranslatedIn(f.pkt, i) \in PacketType
      BY <1>1, <1>3, AnswerRight, TranslatedFine DEF Fine, TableOK
    <2>3. OutOK(TranslatedIn(f.pkt, i))'
      BY <1>3, <2>2 DEF OutOK, Masked, Right, AsAsked, Plain, HasId, Bound, Followed
    <2> QED BY <1>3, <2>1, <2>2, <2>3, ForwardRight
  <1> QED BY <1>2, <1>3 DEF NatIcmp

(* nat_handle_tcp finds or makes a mapping for a segment that goes out.      *)
LEMMA TcpOutAlone ==
  ASSUME TableOK, OnePair, NEW p \in PacketType, NEW id, TcpOut(p, id)
  PROVE  /\ OnePair' /\ Outward(p) /\ Pair(p) \in Bound' /\ bind'[Pair(p)] = id
         /\ \A j \in Bound : j \in Bound' /\ bind'[j] = bind[j]
  <1>1. Mapped(Pair(p), id)
    <2>1. Known(p) => Pair(p) \in Bound
      BY DEF Known, TableOK
    <2> QED BY <2>1 DEF TcpOut, Mapped
  <1> QED BY <1>1, MappedAlone DEF TcpOut

(* nat_handle_tcp with result 1.                                             *)
LEMMA NatTcpRight ==
  ASSUME AnswerInv, NEW f \in wire, Arrives(f), nat, nat' = nat, late' = late, f.pkt.proto = "tcp", Held(f.pkt),
         NEW toMe \in BOOLEAN, toMe \/ ~ForMe(f.pkt), NatTcp(f, toMe)
  PROVE  Arrived /\ OnePair'
  <1>1. f.pkt \in PacketType /\ InOK(f.pkt) /\ TableOK /\ OnePair /\ PacketInv
    BY Taking DEF AnswerInv, PacketInv
  <1>2. UNCHANGED bind => Growing /\ OnePair'
    BY <1>1 DEF Growing, OnePair, Bound
  <1>3. \A q : UNCHANGED bind /\ OutOK(q) => OutOK(q)'
    BY DEF OutOK, Masked, Right, AsAsked, Plain, HasId, Bound, Followed
  <1>4. CASE /\ (IsPrivate(f.pkt.src) /\ IsPrivate(f.pkt.dst)) \/ (~ForMe(f.pkt) /\ ~IsPrivate(f.pkt.src))
             /\ Forward(f, f.pkt) /\ UNCHANGED bind
    <2>1. OutOK(f.pkt)
      BY <1>1, <1>4, PlainRight
    <2> QED BY <1>1, <1>2, <1>3, <1>4, <2>1, ForwardRight
  <1>5. ASSUME NEW h \in NextHop(f.pkt.dst), NEW id \in Ids, TcpOut(f.pkt, id),
               Forward(f, TranslatedOut(f.pkt, id, h))
        PROVE  Arrived /\ OnePair'
    <2>1. /\ Growing /\ OnePair' /\ Pair(f.pkt) \in Bound' /\ bind'[Pair(f.pkt)] = id
          /\ Outward(f.pkt)
      BY <1>1, <1>5, TcpOutAlone DEF Growing
    <2>2. h \in Host
      BY Addresses
    <2>3. OutOK(TranslatedOut(f.pkt, id, h))' /\ TranslatedOut(f.pkt, id, h) \in PacketType
      BY <1>1, <2>1, <2>2, QuestionRight, TranslatedFine DEF Fine
    <2> QED BY <1>5, <2>1, <2>3, ForwardRight
  <1>6. CASE ~IsPrivate(f.pkt.src) /\ f.pkt.id \notin Taken /\ Forward(f, Summed(f.pkt)) /\ UNCHANGED bind
    <2> DEFINE q == Summed(f.pkt)
    <2>1. Same(f.pkt, q) /\ q \in PacketType
      BY <1>1, SummedSame, SummedFine DEF Fine, Held
    <2>2. ~Followed(f.pkt.about)
      BY <1>1, <1>6 DEF InOK, AsAsked, Right, Plain, ToRouter, HasId, Taken, Followed, Asking
    <2> HIDE DEF q
    <2>3. OutOK(q)
      BY <2>1, <2>2 DEF Same, OutOK
    <2> QED BY <1>2, <1>3, <1>6, <2>1, <2>3, ForwardRight DEF q
  <1>7. ASSUME ~IsPrivate(f.pkt.src), NEW i \in Bound, bind[i] = f.pkt.id,
               Forward(f, TranslatedIn(f.pkt, i)), UNCHANGED bind
        PROVE  Arrived /\ OnePair'
    <2>1. OutOK(TranslatedIn(f.pkt, i)) /\ TranslatedIn(f.pkt, i) \in PacketType
      BY <1>1, <1>7, AnswerRight, TranslatedFine DEF Fine, TableOK
    <2> QED BY <1>2, <1>3, <1>7, <2>1, ForwardRight
  <1> QED BY <1>4, <1>5, <1>6, <1>7 DEF NatTcp, Finds

(* Every way through sr_handle_ippacket.                                     *)
LEMMA HandleRight ==
  ASSUME AnswerInv, NEW f \in wire, Handle(f)
  PROVE  Arrived /\ OnePair'
  <1>1. /\ Arrives(f) /\ f.pkt \in PacketType /\ InOK(f.pkt) /\ TableOK /\ OnePair /\ PacketInv
    <2>1. Arrives(f)
      BY DEF Handle, Reject, EchoToRouter, IcmpToRouter, TcpToRouter, OtherToRouter, Expired,
         IcmpOn, TcpOn, OtherOn, TcpUnrouted, Here, There
    <2> QED BY <2>1, Taking DEF AnswerInv, PacketInv
  <1>0. late' = late
    BY HandleFine DEF AnswerInv
  <1>2. UNCHANGED <<nat, bind>> => Growing /\ OnePair'
    BY <1>0, <1>1 DEF Growing, OnePair, Bound
  <1>3. Here(f) \/ There(f) => Held(f.pkt)
    BY <1>1 DEF Here, There, Arrives, Accepted, PacketInv, FrameOK, Shown, Held
  <1>4. \A q : UNCHANGED <<nat, bind, late>> /\ OutOK(q) => OutOK(q)'
    BY DEF OutOK, Masked, Right, AsAsked, Plain, HasId, Bound, Followed
  <1>5. CASE Reject(f)
    BY <1>2, <1>5, ReturnRight DEF Reject, same
  <1>6. CASE EchoToRouter(f)
    <2>1. Followed(f.pkt.about) => AsAsked(f.pkt)
      BY <1>1, <1>6 DEF EchoToRouter, InOK
    <2> QED BY <1>2, <1>6, <2>1, ReturnRight DEF EchoToRouter, same
  <1>7. CASE OtherToRouter(f) \/ Expired(f)
    <2>1. \E type \in {"net", "host", "port", "proto", "ttl"} : Return(f, type)
      BY <1>7 DEF OtherToRouter, Expired
    <2> QED BY <1>2, <1>7, <2>1, ReturnRight DEF OtherToRouter, Expired, same
  <1>8. CASE IcmpToRouter(f)
    <2>1. nat' = nat /\ f.pkt.proto = "icmp" /\ Held(f.pkt)
      BY <1>3, <1>8 DEF IcmpToRouter, same
    <2>2. CASE nat /\ NatIcmp(f)
      BY <1>0, <1>1, <2>1, <2>2, NatIcmpRight
    <2>3. CASE UNCHANGED bind /\ Drop(f)
      BY <1>2, <2>1, <2>3, ReturnRight
    <2> QED BY <1>8, <2>2, <2>3 DEF IcmpToRouter, NoNatIcmp
  <1>9. CASE TcpToRouter(f) \/ TcpOn(f)
    <2>1. nat /\ nat' = nat /\ f.pkt.proto = "tcp" /\ Held(f.pkt)
      BY <1>3, <1>9 DEF TcpToRouter, TcpOn, same
    <2>2. CASE NatTcp(f, TRUE)
      BY <1>1, <2>1, <2>2, <1>0, NatTcpRight
    <2>3. CASE There(f) /\ NatTcp(f, FALSE)
      BY <1>1, <2>1, <2>3, <1>0, NatTcpRight DEF There
    <2>4. CASE UNCHANGED bind /\ (Drop(f) \/ \E type \in {"port", "host"} : Return(f, type))
      BY <1>2, <2>1, <2>4, ReturnRight
    <2> QED BY <1>9, <2>2, <2>3, <2>4 DEF TcpToRouter, TcpOn, NatTcpHeld, NatTcpRefused
  <1>10. CASE IcmpOn(f)
    <2>1. nat /\ nat' = nat /\ f.pkt.proto = "icmp" /\ Held(f.pkt) /\ ~ForMe(f.pkt)
      BY <1>3, <1>10 DEF IcmpOn, same, There
    <2>2. CASE NatIcmp(f)
      BY <1>0, <1>1, <2>1, <2>2, NatIcmpRight
    <2>3. CASE NoNatIcmp(f.pkt) /\ Forward(f, f.pkt)
      <3>1. NextHop(f.pkt.dst) # {} => OutOK(f.pkt)
        BY <1>1, <2>1, <2>3, PlainRight DEF NoNatIcmp
      <3> QED BY <1>1, <1>2, <1>4, <1>0, <2>1, <2>3, <3>1, ForwardRight DEF NoNatIcmp
    <2> QED BY <1>10, <2>2, <2>3 DEF IcmpOn
  <1>11. CASE OtherOn(f)
    <2>1. OutOK(f.pkt)
      BY <1>1, <1>11, PlainRight DEF OtherOn, There
    <2> QED BY <1>1, <1>2, <1>4, <1>0, <1>11, <2>1, ForwardRight DEF OtherOn, same
  <1>12. CASE TcpUnrouted(f)
    <2>1. PICK id \in Ids : TcpOut(f.pkt, id)
      BY <1>12 DEF TcpUnrouted
    <2>2. Growing /\ OnePair'
      BY <1>0, <1>1, <1>12, <2>1, TcpOutAlone DEF Growing, TcpUnrouted
    <2> QED BY <1>12, <2>2, ReturnRight DEF TcpUnrouted
  <1> QED BY <1>5, <1>6, <1>7, <1>8, <1>9, <1>10, <1>11, <1>12 DEF Handle

-----------------------------------------------------------------------------
(* Every step keeps the invariant                                            *)

Answered == \A p \in got : Followed(p.about) /\ p.type \in {"reply", "seg"} => Right(p)

(* A host asks.                                                              *)
LEMMA HostSendRight ==
  ASSUME AnswerInv, NEW t \in Traffic, HostSend(t)
  PROVE  Arrived /\ OnePair' /\ Answered'
  <1>1. wire' = wire \cup {In(Made(t), t.src)} /\ UNCHANGED <<bind, nat, got, late>>
    BY DEF HostSend, tables
  <1>2. Growing /\ OnePair'
    BY <1>1 DEF Growing, AnswerInv, OnePair, Bound
  <1>3. /\ Made(t).about = t /\ Made(t).src = t.src /\ Made(t).dst = t.dst /\ Made(t).id = t.id
        /\ Made(t).type = t.type
    BY DEF Made
  <1>4. OnItsWay(In(Made(t), t.src))'
    BY <1>3 DEF OnItsWay, In, InOK, Followed, Asking, AsAsked
  <1>5. Arrived
    BY <1>1, <1>2, <1>4, Persist DEF AnswerInv, Arrived
  <1> QED BY <1>1, <1>2, <1>5 DEF AnswerInv, Answered, Right, Followed

(* A host answers the host that it takes for the asker.                      *)
LEMMA HostReceiveRight ==
  ASSUME AnswerInv, NEW f \in wire, HostReceive(f)
  PROVE  Arrived /\ OnePair' /\ Answered'
  <1>1. /\ f.dir = "out" /\ OutOK(f.pkt) /\ f.pkt \in PacketType
        /\ UNCHANGED <<bind, nat, late>>
    BY DEF HostReceive, tables, AnswerInv, OnItsWay, PacketInv, FrameOK, Fine
  <1>2. Growing /\ OnePair'
    BY <1>1 DEF Growing, AnswerInv, OnePair, Bound
  <1>3. ASSUME NEW q \in Answers(f.pkt) PROVE OnItsWay(In(q, f.link))'
    <2> DEFINE p == f.pkt
               type == IF p.type = "request" THEN "reply" ELSE "seg"
               r == [p EXCEPT !.src = p.dst, !.dst = p.src, !.ttl = DefaultTtl, !.type = type]
    <2>1. q = [r EXCEPT !.sum = HostCksum(HeaderSum(r)), !.lsum = Covered(r)]
      BY <1>3 DEF Answers
    <2>2. p.type \in {"request", "syn"}
      BY <1>3 DEF Answers
    <2>3. /\ r.about = p.about /\ r.src = p.dst /\ r.dst = p.src /\ r.id = p.id
          /\ r.type \in {"reply", "seg"} /\ r.proto = p.proto
          /\ DOMAIN r = {"about", "src", "dst", "proto", "type", "id", "ttl", "sum", "lsum"}
      BY <1>1 DEF PacketType
    <2> HIDE DEF r
    <2>4. /\ q.about = p.about /\ q.src = p.dst /\ q.dst = p.src /\ q.id = p.id
          /\ q.type \in {"reply", "seg"} /\ q.proto = p.proto
      BY <2>1, <2>3
    <2>5. InOK(q)
      BY <1>1, <2>2, <2>4 DEF InOK, OutOK, AsAsked, Right, Plain, Masked, ToRouter, HasId
    <2>6. OnItsWay(In(q, f.link))
      BY <2>5 DEF OnItsWay, In
    <2> QED BY <1>2, <2>6, Persist
  <1>4. Arrived
    <2>1. \A g \in wire : OnItsWay(g)'
      BY <1>2, Persist DEF AnswerInv
    <2> QED BY <1>3, <2>1 DEF HostReceive, Arrived
  <1>5. Answered'
    BY <1>1 DEF HostReceive, AnswerInv, Answered, OutOK, Right, Followed
  <1> QED BY <1>2, <1>4, <1>5

(* The timeout threads send no answers; the requests and answers that use an  *)
(* id that is given up are not followed any more.                            *)
LEMMA TimeoutRight ==
  ASSUME AnswerInv,
         \/ \E w \in waiting : GiveUp(w)
         \/ \E p \in unsol : AnswerUnsolicited(p)
         \/ \E S \in SUBSET Bound : Expire(S)
  PROVE  Arrived /\ OnePair' /\ Answered'
  <1>1. ASSUME NEW p \in PacketType, NEW link \in Host, NEW type \in {"host", "port"},
               wire' = wire \cup Icmp(p, link, type), UNCHANGED <<bind, nat, got, late>>
        PROVE  Arrived /\ OnePair' /\ Answered'
    <2>1. Growing /\ OnePair'
      BY <1>1 DEF Growing, AnswerInv, OnePair, Bound
    <2>2. \A g \in Icmp(p, link, type) : OnItsWay(g)'
      BY <1>1, IcmpRight DEF OnItsWay
    <2>3. Arrived
      BY <1>1, <2>1, <2>2, Persist DEF AnswerInv, Arrived
    <2> QED BY <1>1, <2>1, <2>3 DEF AnswerInv, Answered, Right, Followed
  <1>2. ASSUME NEW w \in waiting, GiveUp(w) PROVE Arrived /\ OnePair' /\ Answered'
    <2>1. w.pkt \in PacketType /\ w.link \in Host
      BY DEF AnswerInv, PacketInv, WaitOK, Held
    <2> QED BY <1>1, <1>2, <2>1 DEF GiveUp
  <1>3. ASSUME NEW p \in unsol, AnswerUnsolicited(p) PROVE Arrived /\ OnePair' /\ Answered'
    <2>1. p \in PacketType
      BY DEF AnswerInv, PacketInv, Held
    <2>2. PICK h \in NextHop(p.src) : wire' = wire \cup Icmp(p, h, "port")
      BY <1>3 DEF AnswerUnsolicited
    <2> QED BY <1>1, <1>3, <2>1, <2>2, Addresses DEF AnswerUnsolicited
  <1>4. ASSUME NEW S \in SUBSET Bound, Expire(S) PROVE Arrived /\ OnePair' /\ Answered'
    <2>1. /\ bind' = [j \in Bound \ S |-> bind[j]] /\ UNCHANGED <<wire, nat, got>>
          /\ late' = late \cup {f.pkt.about : f \in {g \in wire : Uses(g.pkt, S)}}
      BY <1>4 DEF Expire, Unbind
    <2>2. Bound' = Bound \ S /\ \A i \in Bound' : bind'[i] = bind[i]
      BY <2>1 DEF Bound
    <2>3. ASSUME NEW f \in wire, OnItsWay(f) PROVE OnItsWay(f)'
      <3>1. Followed(f.pkt.about)' => Followed(f.pkt.about) /\ ~Uses(f.pkt, S)
        BY <2>1 DEF Followed
      <3>2. HasId(f.pkt) /\ ~Uses(f.pkt, S) => HasId(f.pkt)'
        BY <2>2 DEF HasId, Uses
      <3>3. Plain(f.pkt) => Plain(f.pkt)'
        BY <2>1 DEF Plain
      <3> QED BY <2>3, <3>1, <3>2, <3>3
            DEF OnItsWay, OutOK, InOK, Masked, ToRouter, Right, AsAsked
    <2>4. late \subseteq late'
      BY <2>1
    <2> QED BY <2>1, <2>2, <2>3, <2>4
          DEF AnswerInv, Arrived, OnePair, Answered, Right, Followed
  <1> QED BY <1>2, <1>3, <1>4

(* Every step keeps the invariant.                                           *)
LEMMA NextRight ==
  ASSUME AnswerInv, [Next]_vars
  PROVE  AnswerInv'
  <1>1. PacketInv'
    BY NextFine DEF AnswerInv
  <1>2. Arrived /\ OnePair' /\ Answered'
    <2>1. CASE \E t \in Traffic : HostSend(t)
      BY <2>1, HostSendRight
    <2>2. CASE \E f \in wire : HostReceive(f)
      BY <2>2, HostReceiveRight
    <2>3. ASSUME NEW f \in wire, Handle(f) PROVE Arrived /\ OnePair' /\ Answered'
      <3>1. got' = got /\ late' = late
        BY <2>3, HandleFine DEF AnswerInv
      <3> QED BY <2>3, <3>1, HandleRight DEF AnswerInv, Answered, Right, Followed
    <2>4. CASE \/ \E w \in waiting : GiveUp(w)
               \/ \E p \in unsol : AnswerUnsolicited(p)
               \/ \E S \in SUBSET Bound : Expire(S)
      BY <2>4, TimeoutRight
    <2>5. CASE UNCHANGED vars
      <3>1. UNCHANGED <<bind, nat, wire, got, late>>
        BY <2>5 DEF vars
      <3>2. Growing
        BY <3>1 DEF Growing, Bound
      <3> QED BY <3>1, <3>2, Persist DEF AnswerInv, Arrived, OnePair, Answered, Right, Followed, Bound
    <2> QED BY <2>1, <2>2, <2>3, <2>4, <2>5 DEF Next
  <1> QED BY <1>1, <1>2 DEF AnswerInv, Arrived, Answered

(* Whoever asks with whatever identifier or port, whichever ids are given    *)
(* out, given up and given out again, and whatever else hosts send: an       *)
(* answer reaches the host that asked, from the address it asked, with the   *)
(* identifier it used, unless the mapping was freed while the request or the *)
(* answer that uses it was under way.                                        *)
THEOREM AnswersAreRight == Spec => []AnswersReachAsker
  <1>1. Init => AnswerInv
    <2>1. Init => Bound = {} /\ wire = {} /\ got = {}
      BY DEF Init, InitBind, Bound
    <2> QED BY <2>1, InitFine DEF AnswerInv, OnePair
  <1>2. AnswerInv => AnswersReachAsker
    BY DEF AnswerInv, AnswersReachAsker, Answer, Fits, Followed, Asking, Right
  <1> QED BY <1>1, <1>2, NextRight, PTL DEF Spec
=============================================================================
