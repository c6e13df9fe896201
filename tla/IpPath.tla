------------------------------- MODULE IpPath -------------------------------
(* One router, the hosts around it, and the way of an IP packet through      *)
(* sr_handlepacket, sr_handle_ippacket, the two NAT handlers and             *)
(* sr_forward_ippacket.                                                      *)
(*                                                                           *)
(* Every host is on a link of its own, as in the repository's topology; a    *)
(* link is named by its host.  The main thread handles one packet at a time, *)
(* here in one step: that the translation table can be seen as the function  *)
(* "bind" although it is used in several critical sections is what NatTable  *)
(* shows (ImplementsBindings).  Addresses and header words are small         *)
(* numbers, so that masks and the checksum are computed and not assumed.     *)
(* ARP is whether the next hop is there to answer.                           *)
EXTENDS Bindings, Integers, FiniteSets, Sequences

CONSTANTS
  Word,          \* 2^16: header words, and addresses, are below it
  Host,          \* the addresses of the hosts
  IfAddr,        \* the router's address on the link of each host
  Broadcast,     \* ip_broadcast_addr
  PrivateNets,   \* the nets of is_private_ip, as [net, size]
  Rtable,        \* the routing table, in order: [dest, size, gw]
  Silent,        \* hosts that are down and answer no ARP request
  Traffic,       \* what the hosts may send: [src, dst, proto, type, id, ttl, mac, good]
  TtlMod,        \* 2^8
  DefaultTtl,    \* DEFAULT_TTL, also that of the hosts
  Modes,         \* values of sr->nat_enabled
  MaxSent        \* bound: packets that hosts start in a behaviour

(* A net of "size" addresses is a multiple of size: its mask has the value   *)
(* Word - size.                                                              *)
InNet(ip, net, size) == ip \div size = net \div size

IsPrivate(ip) == \E r \in PrivateNets : InNet(ip, r.net, r.size)

RouterAddr == {IfAddr[h] : h \in Host}
Template == [src : Host, dst : 0 .. (Word - 1), proto : {"icmp", "tcp", "udp", "other"},
             type : {"request", "reply", "syn", "seg", "data"}, id : Nat, ttl : 1 .. (TtlMod - 1),
             mac : {"interface", "broadcast", "other"}, good : BOOLEAN]

(* An internal pair is an address and an identifier or port.  There are more *)
(* ids than pairs: NatTable looks at a NAT that runs out of them.            *)
ASSUME IpAssumption ==
  /\ Word \in Nat \ {0} /\ TtlMod \in 1 .. Word /\ DefaultTtl \in 2 .. (TtlMod - 1)
  /\ Host \subseteq 0 .. (Word - 1) /\ IfAddr \in [Host -> 0 .. (Word - 1)]
  /\ Host \cap RouterAddr = {} /\ Broadcast \notin Host \cup RouterAddr
  /\ Silent \subseteq Host /\ \A t \in Traffic : t \in Template /\ t.src \notin Silent
  /\ Modes \subseteq BOOLEAN /\ MaxSent \in Nat
  /\ FirstId \in Nat \ {0} /\ LastId \in Nat
  /\ IsFiniteSet(Inside) /\ Cardinality(Inside) <= LastId - FirstId
  /\ \A k \in DOMAIN Rtable : Rtable[k].gw \in Host

VARIABLES
  nat,      \* sr->nat_enabled
  conns,    \* the connections of the table: pairs of an internal pair and a host
  unsol,    \* the unsolicited packets
  waiting,  \* packets whose next hop does not answer, with the link they came from
  wire,     \* packets on the links, with the link and the direction
  sent,     \* the packets of Traffic sent so far
  got,      \* the packets that hosts have received
  up,       \* the router's process has not ended
  late      \* history: packets of Traffic that outlived the mapping they used

vars == <<bind, nat, conns, unsol, waiting, wire, sent, got, up, late>>
tables == <<bind, conns, unsol, waiting, late>>

-----------------------------------------------------------------------------
(* Checksums *)

(* The carries are added to the low word until none is left.                 *)
Carried[n \in Nat] == IF n < Word THEN n ELSE Carried[(n \div Word) + (n % Word)]

Complement(n) == Word - 1 - n

(* The words of the IP header that differ between packets.                   *)
HeaderSum(p) == p.ttl + p.src + p.dst

(* Variant: the carries are not added. *)
CksumUncarried(sum) == Complement(sum)

(* cksum: a complement of zero is written as all ones.                       *)
Cksum(sum) ==
  LET c == Complement(Carried[sum]) IN IF c = 0 THEN Word - 1 ELSE c

(* The hosts' own: the complement as it is, and a header is accepted when    *)
(* the sum with its checksum is all ones.                                    *)
HostCksum(sum) == Complement(Carried[sum])
HostAccepts(p) == Carried[HeaderSum(p) + p.sum] = Word - 1

(* What the checksum of the ICMP message or the TCP segment covers.          *)
Covered(p) ==
  IF p.proto = "icmp" THEN <<p.type, <<p.id>>>> ELSE <<p.proto, <<p.src, p.dst, p.id>>>>

WithHeaderSum(p) == [p EXCEPT !.sum = Cksum(HeaderSum(p))]
Summed(p) == [WithHeaderSum(p) EXCEPT !.lsum = Covered(p)]

-----------------------------------------------------------------------------
(* Packets on links.  "about" is the packet of Traffic that started it.      *)

In(p, link) == [pkt |-> p, link |-> link, dir |-> "in"]
Out(p, link) == [pkt |-> p, link |-> link, dir |-> "out"]

(* A packet as a host makes it: a damaged header does not fit its checksum.  *)
Made(t) ==
  LET s == HostCksum(t.ttl + t.src + t.dst) IN
  [about |-> t, src |-> t.src, dst |-> t.dst, proto |-> t.proto, type |-> t.type,
   id |-> t.id, ttl |-> t.ttl, sum |-> IF t.good THEN s ELSE (s + 1) % Word,
   lsum |-> Covered(t)]

HostSend(t) ==
  /\ t \in Traffic \ sent /\ Cardinality(sent) < MaxSent
  /\ sent' = sent \cup {t}
  /\ wire' = wire \cup {In(Made(t), t.src)}
  /\ UNCHANGED <<tables, nat, got, up>>

(* A host answers an echo request with its identifier and a SYN with a       *)
(* SYN+ACK to the port it came from.                                         *)
Answers(p) ==
  IF p.type \in {"request", "syn"}
  THEN {LET q == [p EXCEPT !.src = p.dst, !.dst = p.src, !.ttl = DefaultTtl,
                           !.type = IF p.type = "request" THEN "reply" ELSE "seg"]
        IN [q EXCEPT !.sum = HostCksum(HeaderSum(q)), !.lsum = Covered(q)]}
  ELSE {}

HostReceive(f) ==
  /\ f \in wire /\ f.dir = "out"
  /\ IF f.pkt.dst = f.link
     THEN /\ got' = got \cup {f.pkt}
          /\ wire' = (wire \ {f}) \cup {In(q, f.link) : q \in Answers(f.pkt)}
     ELSE wire' = wire \ {f} /\ UNCHANGED got
  /\ UNCHANGED <<tables, nat, sent, up>>

-----------------------------------------------------------------------------
(* Routing and sending *)

Matching(ip) ==
  {k \in DOMAIN Rtable : Rtable[k].size < Word /\ InNet(ip, Rtable[k].dest, Rtable[k].size)}

(* Variant: the shortest matching prefix wins. *)
ShortestPrefix(ip) ==
  {k \in Matching(ip) : \A j \in Matching(ip) :
     Rtable[j].size < Rtable[k].size \/ (Rtable[j].size = Rtable[k].size /\ k <= j)}

(* sr_rt_lookup: the longest mask wins, the first of several equal ones; no  *)
(* mask is longer than the initial 0 if it is 0, so a default route is never *)
(* taken.  The result is a set of at most one index.                         *)
RtLookup(ip) ==
  {k \in Matching(ip) : \A j \in Matching(ip) :
     Rtable[k].size < Rtable[j].size \/ (Rtable[j].size = Rtable[k].size /\ k <= j)}

NextHop(ip) == {Rtable[k].gw : k \in RtLookup(ip)}

(* sr_send_icmp: an ICMP message goes back to the packet's source, which is  *)
(* asked for by ARP on the link given.  Only the host there answers.         *)
Icmp(p, link, type) ==
  IF p.src = link
  THEN {Out(Summed([p EXCEPT !.proto = "icmp", !.type = type, !.ttl = DefaultTtl, !.dst = p.src,
                             !.src = IF type = "reply" THEN p.dst ELSE IfAddr[link],
                             !.id = IF type = "reply" THEN p.id ELSE 0]), link)}
  ELSE {}

(* f is taken from the wire and the packets of S are put on it.              *)
Replace(f, S) == wire' = (wire \ {f}) \cup S

Drop(f) == Replace(f, {}) /\ UNCHANGED waiting
Return(f, type) == Replace(f, Icmp(f.pkt, f.link, type)) /\ UNCHANGED waiting

Aged(q) == WithHeaderSum([q EXCEPT !.ttl = (q.ttl - 1) % TtlMod])

(* sr_forward_ippacket for q, which f has become.                            *)
Forward(f, q) ==
  \/ /\ NextHop(q.dst) = {}
     /\ Replace(f, Icmp(q, f.link, "net"))
     /\ UNCHANGED waiting
  \/ \E h \in NextHop(q.dst) \ Silent :
       Replace(f, {Out(Aged(q), h)}) /\ UNCHANGED waiting
  \/ \E h \in NextHop(q.dst) \cap Silent :
       Replace(f, {}) /\ waiting' = waiting \cup {[pkt |-> Aged(q), link |-> f.link]}

(* No reply to any of the ARP requests: an ICMP error for the packet as it   *)
(* is by then, to its source, on the link it came from.                      *)
GiveUp(w) ==
  /\ up /\ w \in waiting
  /\ waiting' = waiting \ {w}
  /\ wire' = wire \cup Icmp(w.pkt, w.link, "host")
  /\ UNCHANGED <<bind, conns, unsol, nat, sent, got, up, late>>

-----------------------------------------------------------------------------
(* nat_handle_icmp *)

Pair(p) == <<p.src, p.id>>

(* Variant: a packet from one external host to another is told by its        *)
(* destination.                                                              *)
OutwardAny(p) == IsPrivate(p.src)

Outward(p) == IsPrivate(p.src) /\ ~IsPrivate(p.dst)

(* Variant: the identifier is changed and the address is not. *)
IdentifierOnly(p, id, h) == Summed([p EXCEPT !.id = id])

TranslatedOut(p, id, h) == Summed([p EXCEPT !.src = IfAddr[h], !.id = id])
TranslatedIn(p, i) == Summed([p EXCEPT !.dst = i[1], !.id = i[2]])

(* The mapping of a pair, found or made.                                     *)
Mapped(i, id) ==
  \/ i \in Bound /\ id = bind[i] /\ UNCHANGED bind
  \/ Bind(i, id)

(* Result 1: the packet is rewritten, and every caller forwards it.          *)
NatIcmp(f) ==
  LET p == f.pkt IN
  \/ /\ Outward(p)
     /\ \E h \in NextHop(p.dst), id \in Ids :
          Mapped(Pair(p), id) /\ Forward(f, TranslatedOut(p, id, h))
  \/ /\ ~IsPrivate(p.src)
     /\ \E i \in Bound : bind[i] = p.id /\ Forward(f, TranslatedIn(p, i))
     /\ UNCHANGED bind

(* Result 0, the packet unchanged.                                           *)
NoNatIcmp(p) ==
  /\ \/ IsPrivate(p.src) /\ IsPrivate(p.dst)
     \/ Outward(p) /\ NextHop(p.dst) = {}
     \/ ~IsPrivate(p.src) /\ p.id \notin Taken
  /\ UNCHANGED bind

-----------------------------------------------------------------------------
(* nat_handle_tcp: result 1, 0 or -1.  The list of unsolicited packets is    *)
(* not searched: every packet has its own sequence number here.              *)

(* The first segment of a pair makes a mapping and a connection; a later one *)
(* needs the connection to its peer.                                         *)
Known(p) == <<Pair(p), p.dst>> \in conns
Opens(p) == Pair(p) \notin Bound

TcpOut(p, id) ==
  /\ Outward(p)
  /\ \/ Opens(p) /\ Bind(Pair(p), id) /\ conns' = conns \cup {<<Pair(p), p.dst>>}
     \/ Known(p) /\ id = bind[Pair(p)] /\ UNCHANGED <<bind, conns>>
  /\ UNCHANGED unsol

(* The internal pair whose mapping and connection an inbound segment finds.  *)
Finds(p, i) == i \in Bound /\ bind[i] = p.id /\ <<i, p.src>> \in conns

(* Result 1, after which every caller forwards the packet.                   *)
NatTcp(f, toMe) ==
  LET p == f.pkt IN
  \/ /\ IsPrivate(p.src) /\ IsPrivate(p.dst)
     /\ Forward(f, p) /\ UNCHANGED <<bind, conns, unsol>>
  \/ \E h \in NextHop(p.dst), id \in Ids :
       TcpOut(p, id) /\ Forward(f, TranslatedOut(p, id, h))
  \/ /\ ~IsPrivate(p.src) /\ toMe /\ p.type # "syn"
     /\ \/ p.id \notin Taken /\ Forward(f, Summed(p))
        \/ \E i \in Bound : Finds(p, i) /\ Forward(f, TranslatedIn(p, i))
     /\ UNCHANGED <<bind, conns, unsol>>
  \/ /\ ~IsPrivate(p.src) /\ ~toMe /\ ~IsPrivate(p.dst)
     /\ Forward(f, p) /\ UNCHANGED <<bind, conns, unsol>>

(* Result 0.  A segment without a connection is kept as unsolicited.         *)
NatTcpRefused(p, toMe) ==
  /\ UNCHANGED <<bind, conns>>
  /\ \/ Outward(p) /\ ~Opens(p) /\ ~Known(p) /\ unsol' = unsol \cup {p}
     \/ /\ ~IsPrivate(p.src) /\ toMe /\ p.type # "syn"
        /\ p.id \in Taken /\ \A i \in Bound : ~Finds(p, i)
        /\ unsol' = unsol \cup {p}
     \/ ~IsPrivate(p.src) /\ ~toMe /\ IsPrivate(p.dst) /\ UNCHANGED unsol

(* Result -1: an inbound SYN, kept unless its connection is there.           *)
NatTcpHeld(p) ==
  /\ ~IsPrivate(p.src) /\ p.type = "syn"
  /\ unsol' = IF \E i \in Bound : Finds(p, i) THEN unsol ELSE unsol \cup {p}
  /\ UNCHANGED <<bind, conns>>

(* sr_nat_timeout for an unsolicited packet that has been kept long enough.  *)
AnswerUnsolicited(p) ==
  /\ up /\ p \in unsol
  /\ \E h \in NextHop(p.src) : wire' = wire \cup Icmp(p, h, "port")
  /\ unsol' = unsol \ {p}
  /\ UNCHANGED <<bind, conns, waiting, nat, sent, got, up, late>>

(* p is under way with the id of its pair, which is one of S.                *)
Uses(p, S) ==
  LET i == <<p.about.src, p.about.id>> IN i \in S /\ p.id = bind[i]

(* sr_nat_timeout for old mappings, whatever is under way.  An ICMP mapping  *)
(* is as old as its insertion: no packet that uses it makes it younger.      *)
Expire(S) ==
  /\ up /\ S # {} /\ Unbind(S)
  /\ late' = late \cup {f.pkt.about : f \in {g \in wire : Uses(g.pkt, S)}}
  /\ conns' = {c \in conns : c[1] \notin S}
  /\ UNCHANGED <<unsol, waiting, wire, nat, sent, got, up>>

-----------------------------------------------------------------------------
(* sr_handlepacket and sr_handle_ippacket *)

(* Variant: the header's checksum is not looked at. *)
AnyHeader(p) == TRUE

Intact(p) == p.sum = Cksum(HeaderSum(p))

Arrives(f) == up /\ f \in wire /\ f.dir = "in"

(* The frame is for the interface or broadcast, and the header is intact.    *)
(* Only the frames the hosts start can be addressed to others.               *)
Accepted(f) ==
  /\ f.pkt.src = f.pkt.about.src => f.pkt.about.mac # "other"
  /\ Intact(f.pkt)

ForMe(p) == p.dst \in RouterAddr \cup {Broadcast}
Here(f) == Arrives(f) /\ Accepted(f) /\ ForMe(f.pkt)
There(f) == Arrives(f) /\ Accepted(f) /\ ~ForMe(f.pkt)

same == <<nat, sent, got, up, late>>

Reject(f) ==
  /\ Arrives(f) /\ ~Accepted(f)
  /\ Drop(f)
  /\ UNCHANGED <<bind, conns, unsol, same>>

Genuine(p) == p.lsum = Covered(p)

EchoToRouter(f) ==
  /\ Here(f) /\ f.pkt.proto = "icmp" /\ Genuine(f.pkt) /\ f.pkt.type = "request"
  /\ Return(f, "reply")
  /\ UNCHANGED <<bind, conns, unsol, same>>

(* Only an echo reply is looked up; any other message ends here.             *)
IcmpToRouter(f) ==
  /\ Here(f) /\ f.pkt.proto = "icmp" /\ f.pkt.type # "request"
  /\ IF nat /\ f.pkt.type = "reply" /\ Genuine(f.pkt)
     THEN NatIcmp(f) \/ (NoNatIcmp(f.pkt) /\ Drop(f))
     ELSE Drop(f) /\ UNCHANGED bind
  /\ UNCHANGED <<conns, unsol, same>>

TcpToRouter(f) ==
  /\ Here(f) /\ nat /\ f.pkt.proto = "tcp"
  /\ \/ NatTcp(f, TRUE)
     \/ NatTcpHeld(f.pkt) /\ Drop(f)
     \/ NatTcpRefused(f.pkt, TRUE) /\ Return(f, "port")
  /\ UNCHANGED same

OtherToRouter(f) ==
  /\ Here(f) /\ f.pkt.proto # "icmp" /\ ~(nat /\ f.pkt.proto = "tcp")
  /\ Return(f, IF f.pkt.proto = "other" THEN "proto" ELSE "port")
  /\ UNCHANGED <<bind, conns, unsol, same>>

LastHop(p) == p.ttl - 1 = 0

Expired(f) ==
  /\ There(f) /\ LastHop(f.pkt)
  /\ Return(f, "ttl")
  /\ UNCHANGED <<bind, conns, unsol, same>>

(* The result of nat_handle_icmp is not looked at.                           *)
IcmpOn(f) ==
  /\ There(f) /\ ~LastHop(f.pkt) /\ nat /\ f.pkt.proto = "icmp"
  /\ \/ NatIcmp(f)
     \/ NoNatIcmp(f.pkt) /\ Forward(f, f.pkt)
  /\ UNCHANGED <<conns, unsol, same>>

TcpOn(f) ==
  /\ There(f) /\ ~LastHop(f.pkt) /\ nat /\ f.pkt.proto = "tcp"
  /\ \/ NatTcp(f, FALSE)
     \/ NatTcpRefused(f.pkt, FALSE) /\ Return(f, "host")
  /\ UNCHANGED same

OtherOn(f) ==
  /\ There(f) /\ ~LastHop(f.pkt) /\ ~(nat /\ f.pkt.proto \in {"icmp", "tcp"})
  /\ Forward(f, f.pkt)
  /\ UNCHANGED <<bind, conns, unsol, same>>

(* The route to the peer is used without asking whether there is one.        *)
TcpUnrouted(f) ==
  /\ Here(f) \/ (There(f) /\ ~LastHop(f.pkt))
  /\ nat /\ f.pkt.proto = "tcp" /\ NextHop(f.pkt.dst) = {}
  /\ \E id \in Ids : TcpOut(f.pkt, id)
  /\ up' = FALSE
  /\ Drop(f)
  /\ UNCHANGED <<nat, sent, got, late>>

Handle(f) ==
  \/ Reject(f)
  \/ EchoToRouter(f) \/ IcmpToRouter(f) \/ TcpToRouter(f) \/ OtherToRouter(f)
  \/ Expired(f) \/ IcmpOn(f) \/ TcpOn(f) \/ OtherOn(f) \/ TcpUnrouted(f)

-----------------------------------------------------------------------------
Init ==
  /\ InitBind
  /\ nat \in Modes
  /\ conns = {} /\ unsol = {} /\ waiting = {}
  /\ wire = {} /\ sent = {} /\ got = {} /\ late = {}
  /\ up = TRUE

Next ==
  \/ \E t \in Traffic : HostSend(t)
  \/ \E f \in wire : HostReceive(f) \/ Handle(f)
  \/ \E w \in waiting : GiveUp(w)
  \/ \E p \in unsol : AnswerUnsolicited(p)
  \/ \E S \in SUBSET Bound : Expire(S)

Spec == Init /\ [][Next]_vars

(* Links deliver, hosts read, and main and the timeout threads keep going.   *)
FairSpec ==
  /\ Spec
  /\ WF_vars(\E f \in wire : HostReceive(f) \/ Handle(f))
  /\ WF_vars(\E w \in waiting : GiveUp(w))

-----------------------------------------------------------------------------
(* What the router promises *)

Number == 0 .. (Word - 1)

Protocol == {"icmp", "tcp", "udp", "other"}
Kind == {"request", "reply", "syn", "seg", "data", "net", "host", "port", "proto", "ttl"}

PacketType == [about : Traffic, src : Number, dst : Number, proto : Protocol, type : Kind,
               id : Nat, ttl : 0 .. (TtlMod - 1), sum : Number,
               lsum : (Protocol \cup Kind) \X Seq(Nat)]

TypeOK ==
  /\ Bound \subseteq Inside /\ \A i \in Bound : bind[i] \in Ids
  /\ conns \subseteq Bound \X Number
  /\ unsol \subseteq PacketType /\ got \subseteq PacketType
  /\ \A w \in waiting : w.pkt \in PacketType /\ w.link \in Host
  /\ \A f \in wire : f.pkt \in PacketType /\ f.link \in Host /\ f.dir \in {"in", "out"}
  /\ sent \subseteq Traffic /\ late \subseteq Traffic /\ nat \in BOOLEAN /\ up \in BOOLEAN

(* An answer to an internal host's request that an internal host is given.   *)
Answer(p) ==
  /\ p.about.type \in {"request", "syn"} /\ p.type \in {"reply", "seg"}
  /\ IsPrivate(p.about.src) /\ IsPrivate(p.dst)

Fits(p) == p.dst = p.about.src /\ p.src = p.about.dst /\ p.id = p.about.id

(* It is given to the host that asked, by the host it asked and with the     *)
(* identifier or port it used: two hosts with the same identifier, an        *)
(* identifier that is also a port, and reused ids are kept apart, for as     *)
(* long as the mapping is there that the request or its answer uses.         *)
AnswersReachAsker == \A p \in got : Answer(p) => Fits(p) \/ p.about \in late

(* With the NAT on, no external host sees an internal host's address in an   *)
(* ICMP message or a TCP segment, be it a request, an answer to a packet     *)
(* that was let in, or a message that waited for ARP.                        *)
PrivateHidden ==
  \A p \in got :
    nat /\ p.proto \in {"icmp", "tcp"} /\ ~IsPrivate(p.dst) =>
      ~(IsPrivate(p.src) /\ p.src \in Host)

(* Every rewriting of a packet is followed by new checksums, and none hides  *)
(* that its header was damaged: hosts can rely on what they receive.         *)
ChecksumsHold ==
  \A p \in got : HostAccepts(p) /\ Genuine(p) /\ p.about.good

(* The checksum of some headers is zero: cksum takes it for all ones and the *)
(* router drops the packet as corrupt.                                       *)
ZeroSum(ttl, src, dst) == HostCksum(ttl + src + dst) = 0

(* A packet that is dropped on its way or on the way of its answer.          *)
Dropped(t) ==
  \/ ~t.good \/ t.mac = "other" \/ ZeroSum(t.ttl, t.src, t.dst)
  \/ /\ t.dst \in Host
     /\ ZeroSum(DefaultTtl, t.dst, IF nat /\ ~IsPrivate(t.dst) THEN IfAddr[t.dst] ELSE t.src)

(* An internal host's echo request.                                          *)
Asks(t) == IsPrivate(t.src) /\ t.type = "request"

Told(t) ==
  \E p \in got : p.about = t /\ p.dst = t.src /\ p.type \in {"reply", "net", "host", "ttl"}

(* An internal host's echo request is answered, or an ICMP error tells the   *)
(* host: unless its header is one that is dropped, its mapping was freed     *)
(* before the answer came, or the NAT is on and the external host it is for  *)
(* is down, because the error about the translated packet is addressed to    *)
(* the router itself.                                                        *)
Settled ==
  <>[] \/ ~up
       \/ \A t \in sent :
            /\ Asks(t) /\ ~Dropped(t) /\ t \notin late
            /\ ~(nat /\ t.dst \in Silent /\ ~IsPrivate(t.dst))
            => Told(t)

-----------------------------------------------------------------------------
(* What the documents say *)

(* "Enternal hosts can not directly ping any internal host": what an         *)
(* internal host receives from an external one answers what it sent.         *)
OnlyAnswersComeIn ==
  \A p \in got :
    nat /\ p.proto = "icmp" /\ IsPrivate(p.dst) /\ p.src \in Host /\ ~IsPrivate(p.src) =>
      p.about.src = p.dst
=============================================================================
