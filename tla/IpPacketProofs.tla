--------------------------- MODULE IpPacketProofs ---------------------------
(* Proofs about the packets of IpPath, their types and their checksums, for  *)
(* every word size.                                                          *)
(*                                                                           *)
(* "Carried" is a recursive function.  TLA+ defines it as a function that    *)
(* satisfies its equation if there is one: that there is one is shown by     *)
(* giving it, the residue modulo Word - 1 that is 0 only for 0, and that     *)
(* there is no other by induction.                                           *)
EXTENDS IpPath, WellFoundedInduction, TLAPS

(* What IpAssumption says of the words. *)
LEMMA Words == Word \in Nat /\ Word > 2 /\ TtlMod \in Nat /\ TtlMod > 0 /\ TtlMod <= Word
               /\ DefaultTtl \in 0 .. (TtlMod - 1)
  BY IpAssumption

-----------------------------------------------------------------------------
(* Induction *)

(* A set of numbers has a least one.                                         *)
LEMMA Least ==
  ASSUME NEW S, S \subseteq Nat, S # {}
  PROVE  \E x \in S : \A y \in S : x <= y
  <1> DEFINE R == {ss \in Nat \X Nat : ss[1] < ss[2]}
  <1>1. IsWellFoundedOn(R, Nat)
    BY NatLessThanWellFounded DEF OpToRel
  <1>2. \A x, y \in Nat : <<y, x>> \in R <=> y < x
    OBVIOUS
  <1> HIDE DEF R
  <1>3. PICK x \in S : \A y \in S : ~ (<<y, x>> \in R)
    BY <1>1, WFMin
  <1>4. ASSUME NEW y \in S PROVE x <= y
    <2>1. x \in Nat /\ y \in Nat
      OBVIOUS
    <2>2. ~(y < x)
      BY <1>2, <1>3, <2>1
    <2> QED BY <2>1, <2>2
  <1> QED BY <1>4

(* A set holds every number if it holds those whose predecessors it holds.   *)
LEMMA Induct ==
  ASSUME NEW P, \A n \in Nat : (\A m \in Nat : m < n => m \in P) => n \in P
  PROVE  \A n \in Nat : n \in P
  <1> SUFFICES ASSUME Nat \ P # {} PROVE FALSE
    OBVIOUS
  <1>1. PICK n \in Nat \ P : \A m \in Nat \ P : n <= m
    BY Least
  <1>2. \A m \in Nat : m < n => m \in P
    BY <1>1
  <1> QED BY <1>1, <1>2

-----------------------------------------------------------------------------
(* The ones' complement sum *)

(* What the carries leave of n. *)
Residue(n, r) ==
  /\ r \in 0 .. (Word - 1) /\ (r = 0 <=> n = 0)
  /\ \E k \in Nat : n = k * (Word - 1) + r

(* A product with a positive number is not smaller.                          *)
LEMMA Multiple ==
  ASSUME NEW k \in Nat, NEW w \in Nat, k > 0
  PROVE  k * w \in Nat /\ k * w >= w
  <1>1. k * w = (k - 1) * w + w /\ (k - 1) * w >= 0 /\ k * w \in Nat
    OBVIOUS
  <1> QED BY <1>1

(* There is one residue.                                                     *)
LEMMA OneResidue ==
  ASSUME NEW n \in Nat, NEW r, NEW s, Residue(n, r), Residue(n, s)
  PROVE  r = s
  <1> DEFINE w == Word - 1
  <1>1. w \in Nat /\ w > 1
    BY Words
  <1>2. PICK k \in Nat : n = k * w + r
    BY DEF Residue
  <1>3. PICK l \in Nat : n = l * w + s
    BY DEF Residue
  <1>4. r \in 0 .. w /\ s \in 0 .. w /\ (r = 0 <=> s = 0)
    BY DEF Residue
  <1> HIDE DEF w
  <1>5. r - s = (l - k) * w /\ s - r = (k - l) * w
    BY <1>1, <1>2, <1>3, <1>4
  <1>6. CASE l > k
    <2>1. r - s >= w
      BY <1>1, <1>5, <1>6, Multiple
    <2> QED BY <1>1, <1>4, <2>1
  <1>7. CASE k > l
    <2>1. s - r >= w
      BY <1>1, <1>5, <1>7, Multiple
    <2> QED BY <1>1, <1>4, <2>1
  <1>8. CASE k = l
    BY <1>1, <1>2, <1>3, <1>4, <1>8
  <1> QED BY <1>6, <1>7, <1>8

(* The carries, added to the low word, are a smaller number with the same    *)
(* residue.                                                                  *)
LEMMA Carry ==
  ASSUME NEW n \in Nat, n >= Word
  PROVE  /\ (n \div Word) + (n % Word) \in Nat
         /\ (n \div Word) + (n % Word) < n /\ (n \div Word) + (n % Word) > 0
         /\ \A r : Residue((n \div Word) + (n % Word), r) => Residue(n, r)
  <1> DEFINE q == n \div Word
             d == n % Word
             w == Word - 1
  <1>1. q \in Nat /\ d \in Nat /\ n = q * Word + d /\ q > 0
    BY Words
  <1>2. w \in Nat /\ w > 1 /\ n = q * w + (q + d)
    BY <1>1, Words
  <1> HIDE DEF q, d, w
  <1>3. q * w \in Nat /\ q * w >= w
    BY <1>1, <1>2, Multiple
  <1>4. q + d \in Nat /\ q + d < n /\ q + d > 0
    BY <1>1, <1>2, <1>3
  <1>5. ASSUME NEW r, Residue(q + d, r) PROVE Residue(n, r)
    <2>1. PICK k \in Nat : q + d = k * w + r
      BY <1>5 DEF Residue, w
    <2>2. r \in 0 .. w /\ r # 0
      BY <1>4, <1>5 DEF Residue, w
    <2>3. n = (q + k) * w + r /\ q + k \in Nat
      BY <1>1, <1>2, <2>1, <2>2
    <2> QED BY <1>4, <2>2, <2>3 DEF Residue, w
  <1> QED BY <1>4, <1>5 DEF q, d

(* A number below Word is its own residue.                                   *)
LEMMA LowWord ==
  ASSUME NEW n \in Nat, n < Word
  PROVE  Residue(n, n)
  <1>1. n = 0 * (Word - 1) + n
    BY Words
  <1> QED BY <1>1, Words DEF Residue

(* Every number has a residue.                                               *)
LEMMA SomeResidue == \A n \in Nat : \E r : Residue(n, r)
  <1> DEFINE P == {n \in Nat : \E r : Residue(n, r)}
  <1>1. ASSUME NEW n \in Nat, \A m \in Nat : m < n => m \in P
        PROVE  n \in P
    <2>1. CASE n < Word
      BY <2>1, LowWord
    <2>2. CASE n >= Word
      BY <1>1, <2>2, Carry
    <2> QED BY <2>1, <2>2, Words
  <1>2. \A n \in Nat : n \in P
    <2> HIDE DEF P
    <2> QED BY <1>1, Induct
  <1> QED BY <1>2

(* The function the definition of Carried asks for exists.                   *)
LEMMA CarriedStep ==
  ASSUME NEW n \in Nat
  PROVE  Carried[n] = IF n < Word THEN n ELSE Carried[(n \div Word) + (n % Word)]
  <1> DEFINE F == [k \in Nat |-> CHOOSE r : Residue(k, r)]
             Adds(c) == c = [k \in Nat |-> IF k < Word THEN k ELSE c[(k \div Word) + (k % Word)]]
  <1>1. \A k \in Nat : Residue(k, F[k])
    BY SomeResidue
  <1>2. ASSUME NEW k \in Nat
        PROVE  F[k] = IF k < Word THEN k ELSE F[(k \div Word) + (k % Word)]
    <2> HIDE DEF F
    <2>1. CASE k < Word
      BY <1>1, <2>1, LowWord, OneResidue
    <2>2. CASE k >= Word
      <3>1. Residue(k, F[(k \div Word) + (k % Word)])
        BY <1>1, <2>2, Carry
      <3>2. F[k] = F[(k \div Word) + (k % Word)]
        BY <1>1, <3>1, OneResidue
      <3> QED BY <2>2, <3>2, Words
    <2> QED BY <2>1, <2>2, Words
  <1>3. Adds(F)
    BY <1>2
  <1>4. Carried = CHOOSE c : Adds(c)
    BY DEF Carried
  <1>5. Adds(Carried)
    <2> HIDE DEF Adds, F
    <2> QED BY <1>3, <1>4
  <1> QED BY <1>5

(* Carried is the residue.                                                   *)
LEMMA CarriedIs == \A n \in Nat : Residue(n, Carried[n])
  <1> DEFINE P == {n \in Nat : Residue(n, Carried[n])}
  <1>1. ASSUME NEW n \in Nat, \A m \in Nat : m < n => m \in P
        PROVE  n \in P
    <2>1. CASE n < Word
      BY <2>1, LowWord, CarriedStep
    <2>2. CASE n >= Word
      <3>1. Carried[n] = Carried[(n \div Word) + (n % Word)]
        BY <2>2, CarriedStep, Words
      <3> QED BY <1>1, <2>2, <3>1, Carry
    <2> QED BY <2>1, <2>2, Words
  <1>2. \A n \in Nat : n \in P
    <2> HIDE DEF P
    <2> QED BY <1>1, Induct
  <1> QED BY <1>2

(* A word, added to, is all ones when what is added is its complement; a     *)
(* complement of zero may be written as all ones.                            *)
LEMMA AllOnes ==
  ASSUME NEW n \in Nat, NEW c, c = Word - 1 - Carried[n] \/ (Carried[n] = Word - 1 /\ c = Word - 1)
  PROVE  n + c \in Nat /\ Carried[n + c] = Word - 1
  <1> DEFINE w == Word - 1
             r == Carried[n]
  <1>1. Residue(n, r) /\ w \in Nat /\ w > 1
    BY CarriedIs, Words
  <1>2. PICK k \in Nat : n = k * w + r
    BY <1>1 DEF Residue
  <1>3. r \in 0 .. w /\ (c = w - r \/ (r = w /\ c = w)) /\ (r = 0 <=> n = 0)
    BY <1>1 DEF Residue
  <1> HIDE DEF w, r
  <1>4. \E l \in Nat : n + c = l * w + w
    <2>1. CASE c = w - r
      BY <1>1, <1>2, <1>3, <2>1
    <2>2. CASE r = w /\ c = w
      <3>1. n + c = (k + 1) * w + w /\ k + 1 \in Nat
        BY <1>1, <1>2, <2>2
      <3> QED BY <3>1
    <2> QED BY <1>3, <2>1, <2>2
  <1>5. n + c \in Nat /\ n + c # 0
    <2>1. PICK l \in Nat : n + c = l * w + w
      BY <1>4
    <2>2. l * w \in Nat
      BY <1>1
    <2> QED BY <1>1, <2>1, <2>2
  <1>6. Residue(n + c, w)
    BY <1>1, <1>4, <1>5 DEF Residue, w
  <1> QED BY <1>5, <1>6, CarriedIs, OneResidue DEF w

-----------------------------------------------------------------------------
(* The types of packets, and of what becomes of them                         *)

(* What the checksums cover, and the sums themselves, are of their types.    *)
LEMMA SumTypes ==
  ASSUME NEW n \in Nat
  PROVE  Carried[n] \in Number /\ Cksum(n) \in Number /\ HostCksum(n) \in Number
  <1>1. Carried[n] \in 0 .. (Word - 1)
    BY CarriedIs DEF Residue
  <1> QED BY <1>1, Words DEF Cksum, HostCksum, Complement, Number

(* The words of a header can be added.                                       *)
LEMMA PacketSums ==
  ASSUME NEW p \in PacketType
  PROVE  /\ HeaderSum(p) \in Nat
         /\ Covered(p) \in (Protocol \cup Kind) \X Seq(Nat)
  <1>1. /\ p.ttl \in Nat /\ p.src \in Nat /\ p.dst \in Nat /\ p.id \in Nat
        /\ p.type \in Kind /\ p.proto \in Protocol
    BY Words DEF PacketType, Number
  <1>2. <<p.id>> \in Seq(Nat) /\ <<p.src, p.dst, p.id>> \in Seq(Nat)
    BY <1>1
  <1>3. Covered(p) \in (Protocol \cup Kind) \X Seq(Nat)
    <2>1. CASE p.proto = "icmp"
      BY <1>1, <1>2, <2>1 DEF Covered
    <2>2. CASE p.proto # "icmp"
      BY <1>1, <1>2, <2>2 DEF Covered
    <2> QED BY <2>1, <2>2
  <1> QED BY <1>1, <1>3 DEF HeaderSum

(* A packet that a host accepts, made from one with an intact header.        *)
Fine(p) == p \in PacketType /\ HostAccepts(p) /\ Genuine(p) /\ p.about.good

(* cksum after every change of the header.                                   *)
LEMMA HeaderSummed ==
  ASSUME NEW p \in PacketType, Genuine(p), p.about.good
  PROVE  Fine(WithHeaderSum(p))
  <1> DEFINE c == Cksum(HeaderSum(p))
             q == WithHeaderSum(p)
  <1>1. HeaderSum(p) \in Nat /\ c \in Number
    BY PacketSums, SumTypes
  <1>2. q = [p EXCEPT !.sum = c]
    BY DEF WithHeaderSum
  <1> HIDE DEF c, q
  <1>3. /\ q \in PacketType /\ q.sum = c
        /\ q.about = p.about /\ q.lsum = p.lsum /\ q.src = p.src /\ q.dst = p.dst
        /\ q.ttl = p.ttl /\ q.type = p.type /\ q.proto = p.proto /\ q.id = p.id
    BY <1>1, <1>2 DEF PacketType
  <1>4. HeaderSum(q) = HeaderSum(p) /\ Covered(q) = Covered(p)
    BY <1>3 DEF HeaderSum, Covered
  <1>5. c = Word - 1 - Carried[HeaderSum(p)] \/ (Carried[HeaderSum(p)] = Word - 1 /\ c = Word - 1)
    <2>1. Carried[HeaderSum(p)] \in Number
      BY <1>1, SumTypes
    <2> QED BY <2>1, Words DEF c, Cksum, Complement, Number
  <1>6. HostAccepts(q)
    BY <1>1, <1>3, <1>4, <1>5, AllOnes DEF HostAccepts
  <1> QED BY <1>3, <1>4, <1>6 DEF Fine, Genuine, q

(* Both checksums anew.                                                      *)
LEMMA SummedFine ==
  ASSUME NEW p \in PacketType, p.about.good
  PROVE  Fine(Summed(p))
  <1> DEFINE q == [p EXCEPT !.lsum = Covered(p)]
  <1>1. Covered(p) \in (Protocol \cup Kind) \X Seq(Nat)
    BY PacketSums
  <1>2. /\ q \in PacketType /\ q.lsum = Covered(p) /\ q.about = p.about
        /\ q.type = p.type /\ q.proto = p.proto /\ q.id = p.id /\ q.src = p.src /\ q.dst = p.dst
        /\ q.ttl = p.ttl
    BY <1>1 DEF PacketType
  <1>3. Summed(p) = WithHeaderSum(q)
    <2>1. HeaderSum(q) = HeaderSum(p)
      BY <1>2 DEF HeaderSum
    <2> QED BY <2>1 DEF Summed, WithHeaderSum, PacketType
  <1>4. Covered(q) = Covered(p)
    BY <1>2 DEF Covered
  <1> HIDE DEF q
  <1>5. Genuine(q)
    BY <1>2, <1>4 DEF Genuine
  <1> QED BY <1>2, <1>3, <1>5, HeaderSummed

(* One taken from the TTL, which is of 8 bits.                               *)
LEMMA AgedFine ==
  ASSUME NEW p \in PacketType, Genuine(p), p.about.good
  PROVE  Fine(Aged(p))
  <1> DEFINE t == (p.ttl - 1) % TtlMod
             q == [p EXCEPT !.ttl = t]
  <1>1. t \in 0 .. (TtlMod - 1)
    <2>1. p.ttl - 1 \in Int
      BY Words DEF PacketType
    <2> QED BY <2>1, Words
  <1>2. Aged(p) = WithHeaderSum(q)
    BY DEF Aged
  <1> HIDE DEF t
  <1>3. /\ q \in PacketType /\ q.about = p.about /\ q.lsum = p.lsum
        /\ q.type = p.type /\ q.proto = p.proto /\ q.id = p.id /\ q.src = p.src /\ q.dst = p.dst
    BY <1>1 DEF PacketType
  <1> HIDE DEF q
  <1>4. Genuine(q)
    BY <1>3 DEF Genuine, Covered
  <1> QED BY <1>2, <1>3, <1>4, HeaderSummed

(* A damaged header fits no checksum that the router computes.               *)
LEMMA DamagedIsSeen ==
  ASSUME NEW t \in Traffic
  PROVE  /\ Made(t) \in PacketType /\ Genuine(Made(t))
         /\ Intact(Made(t)) => t.good
  <1> DEFINE s == HostCksum(t.ttl + t.src + t.dst)
             p == Made(t)
  <1>1. /\ t \in Template /\ t.src \in Number /\ t.dst \in Number /\ t.ttl \in 0 .. (TtlMod - 1)
        /\ t.id \in Nat /\ t.proto \in Protocol /\ t.type \in Kind
    <2>1. t \in Template /\ Host \subseteq Number
      BY IpAssumption DEF Number
    <2>2. t.src \in Number /\ t.dst \in Number /\ t.id \in Nat
      BY <2>1 DEF Template, Number
    <2>3. t.proto \in Protocol /\ t.type \in Kind
      BY <2>1 DEF Template, Protocol, Kind
    <2>4. t.ttl \in 0 .. (TtlMod - 1)
      BY <2>1, Words DEF Template
    <2> QED BY <2>1, <2>2, <2>3, <2>4
  <1>2. t.ttl + t.src + t.dst \in Nat
    BY <1>1, Words DEF Number
  <1>3. s \in Number /\ (s + 1) % Word \in Number
    BY <1>2, SumTypes, Words DEF Number
  <1>4. /\ p.about = t /\ p.src = t.src /\ p.dst = t.dst /\ p.proto = t.proto /\ p.type = t.type
        /\ p.id = t.id /\ p.ttl = t.ttl /\ p.sum = IF t.good THEN s ELSE (s + 1) % Word
        /\ p.lsum = Covered(t)
    BY DEF Made
  <1>5. Covered(p) = Covered(t)
    BY <1>4 DEF Covered
  <1>6. Covered(t) \in (Protocol \cup Kind) \X Seq(Nat)
    <2>1. <<t.id>> \in Seq(Nat) /\ <<t.src, t.dst, t.id>> \in Seq(Nat)
      BY <1>1 DEF Number
    <2> QED BY <1>1, <2>1 DEF Covered
  <1>7. p \in PacketType
    BY <1>1, <1>3, <1>6 DEF PacketType, Made
  <1>8. ASSUME Intact(p), ~t.good PROVE FALSE
    <2>1. HeaderSum(p) = t.ttl + t.src + t.dst
      BY <1>4 DEF HeaderSum
    <2>2. (s + 1) % Word = Cksum(t.ttl + t.src + t.dst)
      BY <1>4, <1>8, <2>1 DEF Intact
    <2>3. (s + 1) % Word = IF s = 0 THEN Word - 1 ELSE s
      BY <2>2 DEF Cksum, HostCksum
    <2>4. (s + 1) % Word = IF s = Word - 1 THEN 0 ELSE s + 1
      <3> HIDE DEF s
      <3>1. CASE s = Word - 1
        BY <3>1, Words
      <3>2. CASE s < Word - 1
        BY <1>3, <3>2, Words DEF Number
      <3> QED BY <1>3, <3>1, <3>2, Words DEF Number
    <2> HIDE DEF s
    <2> QED BY <1>3, <2>3, <2>4, Words DEF Number
  <1> QED BY <1>4, <1>5, <1>7, <1>8 DEF Genuine

-----------------------------------------------------------------------------
(* The invariant                                                             *)

(* What the router has accepted had an intact header, and what it sends is   *)
(* accepted.  What a host sends may be damaged, which its checksum shows.    *)
Held(p) == p \in PacketType /\ p.about.good
Shown(p) == p \in PacketType /\ Genuine(p) /\ (Intact(p) => p.about.good)

FrameOK(f) ==
  /\ f.link \in Host /\ f.dir \in {"in", "out"}
  /\ IF f.dir = "out" THEN Fine(f.pkt) ELSE Shown(f.pkt)
WaitOK(w) == w.link \in Host /\ Held(w.pkt)

(* The pairs of the table are addresses with identifiers.                    *)
TableOK ==
  /\ Bound \subseteq Inside /\ Bound \subseteq Number \X Nat /\ \A i \in Bound : bind[i] \in Ids
  /\ conns \subseteq Bound \X Number

PacketInv ==
  /\ TableOK
  /\ \A f \in wire : FrameOK(f)
  /\ \A w \in waiting : WaitOK(w)
  /\ \A p \in unsol : Held(p)
  /\ \A p \in got : Fine(p)
  /\ sent \subseteq Traffic /\ late \subseteq Traffic /\ nat \in BOOLEAN /\ up \in BOOLEAN

(* It holds what the runs check.                                             *)
LEMMA PacketInvImplies == PacketInv => TypeOK /\ ChecksumsHold
  BY DEF PacketInv, TypeOK, ChecksumsHold, TableOK, FrameOK, WaitOK, Held, Shown, Fine

-----------------------------------------------------------------------------
(* Steps of the router                                                       *)

Moves == (\A f \in wire' : FrameOK(f)) /\ (\A w \in waiting' : WaitOK(w))

(* The next hop is a host, the router's addresses and ids are numbers.       *)
LEMMA Addresses ==
  /\ \A ip : NextHop(ip) \subseteq Host
  /\ \A h \in Host : h \in Number /\ IfAddr[h] \in Number
  /\ Ids \subseteq Nat
  <1>1. \A ip : RtLookup(ip) \subseteq DOMAIN Rtable
    BY DEF RtLookup, Matching
  <1>2. \A ip : NextHop(ip) \subseteq Host
    BY <1>1, IpAssumption DEF NextHop
  <1>3. Host \subseteq Number /\ IfAddr \in [Host -> Number]
    BY IpAssumption DEF Number
  <1>4. FirstId \in Nat /\ LastId \in Nat
    BY IpAssumption
  <1> QED BY <1>2, <1>3, <1>4 DEF Ids

(* sr_send_icmp for a packet that was accepted.                              *)
LEMMA IcmpFine ==
  ASSUME NEW p, Held(p), NEW link \in Host, NEW type \in Kind, NEW g \in Icmp(p, link, type)
  PROVE  FrameOK(g)
  <1> DEFINE src == IF type = "reply" THEN p.dst ELSE IfAddr[link]
             id == IF type = "reply" THEN p.id ELSE 0
             q == [p EXCEPT !.proto = "icmp", !.type = type, !.ttl = DefaultTtl, !.dst = p.src,
                            !.src = src, !.id = id]
  <1>1. g = Out(Summed(q), link)
    BY DEF Icmp
  <1>2. src \in Number /\ id \in Nat /\ "icmp" \in Protocol
    BY Addresses DEF Held, PacketType, Protocol
  <1> HIDE DEF src, id
  <1>3. q \in PacketType /\ q.about = p.about
    BY <1>2, Words DEF Held, PacketType
  <1> HIDE DEF q
  <1>4. Fine(Summed(q))
    BY <1>3, SummedFine DEF Held
  <1> QED BY <1>1, <1>4 DEF FrameOK, Out

(* sr_forward_ippacket.                                                      *)
LEMMA ForwardFine ==
  ASSUME PacketInv, NEW f \in wire, NEW q, Held(q), Genuine(q), Forward(f, q)
  PROVE  Moves
  <1>1. f.link \in Host /\ q \in PacketType
    BY DEF PacketInv, FrameOK, Held
  <1>2. Fine(Aged(q))
    BY AgedFine DEF Held
  <1>3. CASE Replace(f, Icmp(q, f.link, "net")) /\ UNCHANGED waiting
    <2>1. \A g \in Icmp(q, f.link, "net") : FrameOK(g)
      BY <1>1, IcmpFine DEF Kind
    <2> QED BY <1>3, <2>1 DEF Moves, PacketInv, Replace
  <1>4. ASSUME NEW h \in NextHop(q.dst), Replace(f, {Out(Aged(q), h)}), UNCHANGED waiting
        PROVE  Moves
    <2>1. FrameOK(Out(Aged(q), h))
      BY <1>2, Addresses DEF FrameOK, Out
    <2> QED BY <1>4, <2>1 DEF Moves, PacketInv, Replace
  <1>5. ASSUME Replace(f, {}), waiting' = waiting \cup {[pkt |-> Aged(q), link |-> f.link]}
        PROVE  Moves
    BY <1>1, <1>2, <1>5 DEF Moves, PacketInv, Replace, WaitOK, Held, Fine
  <1> QED BY <1>3, <1>4, <1>5 DEF Forward

(* A packet that is dropped, or answered with an ICMP message.               *)
LEMMA DropFine ==
  ASSUME PacketInv, NEW f \in wire, Drop(f)
  PROVE  Moves
  BY DEF Drop, Replace, Moves, PacketInv

(* An accepted packet that is answered with an ICMP message.                 *)
LEMMA ReturnFine ==
  ASSUME PacketInv, NEW f \in wire, Held(f.pkt), NEW type \in Kind, Return(f, type)
  PROVE  Moves
  <1>1. f.link \in Host
    BY DEF PacketInv, FrameOK
  <1>2. \A g \in Icmp(f.pkt, f.link, type) : FrameOK(g)
    BY <1>1, IcmpFine
  <1> QED BY <1>2 DEF Return, Replace, Moves, PacketInv

(* The rewritten packets have both checksums anew.                           *)
LEMMA TranslatedFine ==
  ASSUME NEW p, Held(p)
  PROVE  /\ \A id \in Ids, h \in Host : Fine(TranslatedOut(p, id, h))
         /\ \A i \in Number \X Nat : Fine(TranslatedIn(p, i))
  <1>1. ASSUME NEW id \in Ids, NEW h \in Host PROVE Fine(TranslatedOut(p, id, h))
    <2> DEFINE q == [p EXCEPT !.src = IfAddr[h], !.id = id]
    <2>1. q \in PacketType /\ q.about = p.about
      BY Addresses DEF Held, PacketType
    <2>2. TranslatedOut(p, id, h) = Summed(q)
      BY DEF TranslatedOut
    <2> HIDE DEF q
    <2> QED BY <2>1, <2>2, SummedFine DEF Held
  <1>2. ASSUME NEW i \in Number \X Nat PROVE Fine(TranslatedIn(p, i))
    <2> DEFINE q == [p EXCEPT !.dst = i[1], !.id = i[2]]
    <2>1. q \in PacketType /\ q.about = p.about
      BY DEF Held, PacketType
    <2>2. TranslatedIn(p, i) = Summed(q)
      BY DEF TranslatedIn
    <2> HIDE DEF q
    <2> QED BY <2>1, <2>2, SummedFine DEF Held
  <1> QED BY <1>1, <1>2

(* What is forwarded is held and genuine when it is fine.                    *)
LEMMA FineIsHeld == \A p : Fine(p) => Held(p) /\ Genuine(p)
  BY DEF Fine, Held

(* A mapping of an accepted packet is found or made.                         *)
LEMMA MappedFine ==
  ASSUME TableOK, NEW p \in PacketType, NEW id, Mapped(Pair(p), id)
  PROVE  /\ Bound' \subseteq Inside /\ Bound' \subseteq Number \X Nat
         /\ \A i \in Bound' : bind'[i] \in Ids
         /\ Bound \subseteq Bound' /\ Pair(p) \in Bound'
  <1>1. Pair(p) \in Number \X Nat
    BY DEF Pair, PacketType
  <1>2. CASE Pair(p) \in Bound /\ UNCHANGED bind
    BY <1>2 DEF TableOK, Bound
  <1>3. CASE Bind(Pair(p), id)
    <2>1. /\ bind' = [j \in Bound \cup {Pair(p)} |-> IF j = Pair(p) THEN id ELSE bind[j]]
          /\ Pair(p) \in Inside /\ id \in Ids
      BY <1>3 DEF Bind
    <2>2. Bound' = Bound \cup {Pair(p)}
      BY <2>1 DEF Bound
    <2> QED BY <1>1, <2>1, <2>2 DEF TableOK
  <1> QED BY <1>2, <1>3 DEF Mapped

(* nat_handle_tcp makes a mapping with its connection, or finds both.        *)
LEMMA TcpOutFine ==
  ASSUME TableOK, NEW p \in PacketType, NEW id, TcpOut(p, id)
  PROVE  TableOK'
  <1>1. CASE Bind(Pair(p), id) /\ conns' = conns \cup {<<Pair(p), p.dst>>}
    <2>1. Mapped(Pair(p), id) /\ p.dst \in Number
      BY <1>1 DEF Mapped, PacketType
    <2> QED BY <1>1, <2>1, MappedFine DEF TableOK
  <1>2. CASE UNCHANGED <<bind, conns>>
    BY <1>2 DEF TableOK, Bound
  <1> QED BY <1>1, <1>2 DEF TcpOut

(* nat_handle_icmp with result 1.                                            *)
LEMMA NatIcmpFine ==
  ASSUME PacketInv, NEW f \in wire, Held(f.pkt), NatIcmp(f), UNCHANGED conns
  PROVE  Moves /\ TableOK'
  <1>1. f.pkt \in PacketType /\ TableOK
    BY DEF Held, PacketInv
  <1>2. ASSUME NEW h \in NextHop(f.pkt.dst), NEW id \in Ids, Mapped(Pair(f.pkt), id),
               Forward(f, TranslatedOut(f.pkt, id, h))
        PROVE  Moves /\ TableOK'
    <2>1. Fine(TranslatedOut(f.pkt, id, h))
      BY Addresses, TranslatedFine
    <2>2. Moves
      BY <1>2, <2>1, FineIsHeld, ForwardFine
    <2>3. TableOK'
      BY <1>1, <1>2, MappedFine DEF TableOK
    <2> QED BY <2>2, <2>3
  <1>3. ASSUME NEW i \in Bound, Forward(f, TranslatedIn(f.pkt, i)), UNCHANGED bind
        PROVE  Moves /\ TableOK'
    <2>1. Fine(TranslatedIn(f.pkt, i))
      BY <1>1, TranslatedFine DEF TableOK
    <2> QED BY <1>1, <1>3, <2>1, FineIsHeld, ForwardFine DEF TableOK, Bound
  <1> QED BY <1>2, <1>3 DEF NatIcmp

(* nat_handle_tcp with result 1.                                             *)
LEMMA NatTcpFine ==
  ASSUME PacketInv, NEW f \in wire, Held(f.pkt), Genuine(f.pkt), NEW toMe, NatTcp(f, toMe)
  PROVE  Moves /\ TableOK' /\ UNCHANGED unsol
  <1>1. f.pkt \in PacketType /\ TableOK
    BY DEF Held, PacketInv
  <1>2. CASE Forward(f, f.pkt) /\ UNCHANGED <<bind, conns, unsol>>
    BY <1>1, <1>2, ForwardFine DEF TableOK, Bound
  <1>3. ASSUME NEW h \in NextHop(f.pkt.dst), NEW id \in Ids, TcpOut(f.pkt, id),
               Forward(f, TranslatedOut(f.pkt, id, h))
        PROVE  Moves /\ TableOK' /\ UNCHANGED unsol
    <2>1. Fine(TranslatedOut(f.pkt, id, h))
      BY Addresses, TranslatedFine
    <2>2. Moves
      BY <1>3, <2>1, FineIsHeld, ForwardFine
    <2>3. TableOK'
      BY <1>1, <1>3, TcpOutFine
    <2> QED BY <1>3, <2>2, <2>3 DEF TcpOut
  <1>4. CASE Forward(f, Summed(f.pkt)) /\ UNCHANGED <<bind, conns, unsol>>
    <2>1. Fine(Summed(f.pkt))
      BY SummedFine DEF Held
    <2> QED BY <1>1, <1>4, <2>1, FineIsHeld, ForwardFine DEF TableOK, Bound
  <1>5. ASSUME NEW i \in Bound, Forward(f, TranslatedIn(f.pkt, i)), UNCHANGED <<bind, conns, unsol>>
        PROVE  Moves /\ TableOK' /\ UNCHANGED unsol
    <2>1. Fine(TranslatedIn(f.pkt, i))
      BY <1>1, TranslatedFine DEF TableOK
    <2> QED BY <1>1, <1>5, <2>1, FineIsHeld, ForwardFine DEF TableOK, Bound
  <1> QED BY <1>2, <1>3, <1>4, <1>5 DEF NatTcp

(* Every way through sr_handle_ippacket.                                     *)
LEMMA HandleFine ==
  ASSUME PacketInv, NEW f \in wire, Handle(f)
  PROVE  /\ Moves /\ TableOK'
         /\ UNCHANGED <<nat, sent, got, late>> /\ up' \in BOOLEAN
         /\ unsol' = unsol \/ (Held(f.pkt) /\ unsol' = unsol \cup {f.pkt})
  <1> DEFINE Rest == /\ UNCHANGED <<nat, sent, got, late>> /\ up' \in BOOLEAN
                     /\ unsol' = unsol \/ (Held(f.pkt) /\ unsol' = unsol \cup {f.pkt})
  <1>1. /\ TableOK /\ up \in BOOLEAN /\ f.pkt \in PacketType
        /\ UNCHANGED <<bind, conns>> => TableOK'
    BY DEF PacketInv, TableOK, Bound, FrameOK, Fine, Shown
  <1>2. Here(f) \/ There(f) => Held(f.pkt) /\ Genuine(f.pkt)
    BY DEF Here, There, Arrives, Accepted, PacketInv, FrameOK, Shown, Held
  <1>3. CASE Reject(f)
    BY <1>1, <1>3, DropFine DEF Reject, same
  <1>4. CASE EchoToRouter(f) \/ OtherToRouter(f) \/ Expired(f)
    <2>1. PICK type \in {"reply", "proto", "port", "ttl"} : Return(f, type)
      BY <1>4 DEF EchoToRouter, OtherToRouter, Expired
    <2>2. Moves
      BY <1>2, <1>4, <2>1, ReturnFine DEF EchoToRouter, OtherToRouter, Expired, Kind
    <2> QED BY <1>1, <1>4, <2>2 DEF EchoToRouter, OtherToRouter, Expired, same
  <1>5. CASE IcmpToRouter(f)
    <2>1. Rest
      BY <1>1, <1>5 DEF IcmpToRouter, same
    <2>2. Held(f.pkt) /\ UNCHANGED conns
      BY <1>2, <1>5 DEF IcmpToRouter
    <2>3. CASE NatIcmp(f)
      BY <2>1, <2>2, <2>3, NatIcmpFine
    <2>4. CASE UNCHANGED bind /\ Drop(f)
      BY <1>1, <2>1, <2>2, <2>4, DropFine
    <2> QED BY <1>5, <2>3, <2>4 DEF IcmpToRouter, NoNatIcmp
  <1>6. CASE TcpToRouter(f) \/ TcpOn(f)
    <2>1. UNCHANGED <<nat, sent, got, up, late>> /\ Held(f.pkt) /\ Genuine(f.pkt)
      BY <1>2, <1>6 DEF TcpToRouter, TcpOn, same
    <2>2. ASSUME NEW toMe, NatTcp(f, toMe) PROVE Moves /\ TableOK' /\ Rest
      BY <1>1, <2>1, <2>2, NatTcpFine
    <2>3. CASE NatTcpHeld(f.pkt) /\ Drop(f)
      BY <1>1, <2>1, <2>3, DropFine DEF NatTcpHeld
    <2>4. ASSUME NEW toMe, NEW type \in {"port", "host"}, NatTcpRefused(f.pkt, toMe), Return(f, type)
          PROVE  Moves /\ TableOK' /\ Rest
      <3>1. Moves
        BY <2>1, <2>4, ReturnFine DEF Kind
      <3>2. UNCHANGED <<bind, conns>> /\ (unsol' = unsol \/ unsol' = unsol \cup {f.pkt})
        BY <2>4 DEF NatTcpRefused
      <3> QED BY <1>1, <2>1, <3>1, <3>2
    <2> QED BY <1>6, <2>2, <2>3, <2>4 DEF TcpToRouter, TcpOn
  <1>7. CASE IcmpOn(f)
    <2>1. Rest /\ Held(f.pkt) /\ Genuine(f.pkt) /\ UNCHANGED conns
      BY <1>1, <1>2, <1>7 DEF IcmpOn, same
    <2>2. CASE NatIcmp(f)
      BY <2>1, <2>2, NatIcmpFine
    <2>3. CASE NoNatIcmp(f.pkt) /\ Forward(f, f.pkt)
      BY <1>1, <2>1, <2>3, ForwardFine DEF NoNatIcmp
    <2> QED BY <1>7, <2>2, <2>3 DEF IcmpOn
  <1>8. CASE OtherOn(f)
    BY <1>1, <1>2, <1>8, ForwardFine DEF OtherOn, same
  <1>9. CASE TcpUnrouted(f)
    <2>1. PICK id \in Ids : TcpOut(f.pkt, id)
      BY <1>9 DEF TcpUnrouted
    <2>2. TableOK'
      BY <1>1, <2>1, TcpOutFine
    <2>3. Moves
      BY <1>9, DropFine DEF TcpUnrouted
    <2> QED BY <1>9, <2>1, <2>2, <2>3 DEF TcpUnrouted, TcpOut
  <1> QED BY <1>3, <1>4, <1>5, <1>6, <1>7, <1>8, <1>9 DEF Handle

-----------------------------------------------------------------------------
(* Every step keeps the invariant                                            *)

(* A host sends a packet, damaged or not.                                    *)
LEMMA HostSendFine ==
  ASSUME PacketInv, NEW t \in Traffic, HostSend(t)
  PROVE  PacketInv'
  <1>1. t.src \in Host
    BY IpAssumption DEF Template
  <1>2. FrameOK(In(Made(t), t.src))
    <2>1. Made(t).about = t
      BY DEF Made
    <2> QED BY <1>1, <2>1, DamagedIsSeen DEF FrameOK, In, Shown
  <1>3. /\ wire' = wire \cup {In(Made(t), t.src)} /\ sent' = sent \cup {t}
        /\ UNCHANGED <<bind, conns, unsol, waiting, nat, got, up, late>>
    BY DEF HostSend, tables
  <1> QED BY <1>2, <1>3 DEF PacketInv, TableOK, Bound

(* A host takes, and may answer, what is sent to it.                         *)
LEMMA HostReceiveFine ==
  ASSUME PacketInv, NEW f \in wire, HostReceive(f)
  PROVE  PacketInv'
  <1>1. /\ Fine(f.pkt) /\ f.link \in Host
        /\ UNCHANGED <<bind, conns, unsol, waiting, nat, sent, up, late>>
    BY DEF HostReceive, tables, PacketInv, FrameOK
  <1>2. ASSUME NEW q \in Answers(f.pkt) PROVE FrameOK(In(q, f.link))
    <2> DEFINE p == f.pkt
               type == IF p.type = "request" THEN "reply" ELSE "seg"
               r == [p EXCEPT !.src = p.dst, !.dst = p.src, !.ttl = DefaultTtl, !.type = type]
               c == HostCksum(HeaderSum(r))
    <2>1. q = [r EXCEPT !.sum = c, !.lsum = Covered(r)]
      BY <1>2 DEF Answers
    <2>2. type \in Kind
      BY DEF Kind
    <2> HIDE DEF type
    <2>3. r \in PacketType /\ r.about = p.about
      BY <1>1, <2>2, Words DEF Fine, PacketType
    <2> HIDE DEF r
    <2>4. c \in Number /\ Covered(r) \in (Protocol \cup Kind) \X Seq(Nat)
      BY <2>3, PacketSums, SumTypes
    <2> HIDE DEF c
    <2>5. /\ q \in PacketType /\ q.about = r.about /\ q.lsum = Covered(r)
          /\ q.type = r.type /\ q.proto = r.proto /\ q.id = r.id /\ q.src = r.src /\ q.dst = r.dst
      BY <2>1, <2>3, <2>4 DEF PacketType
    <2>6. Genuine(q)
      BY <2>5 DEF Genuine, Covered
    <2>7. Shown(q)
      BY <1>1, <2>3, <2>5, <2>6 DEF Shown, Fine
    <2> QED BY <1>1, <2>7 DEF FrameOK, In
  <1>3. \A g \in wire' : FrameOK(g)
    BY <1>2 DEF HostReceive, PacketInv
  <1>4. \A p \in got' : Fine(p)
    BY <1>1 DEF HostReceive, PacketInv
  <1> QED BY <1>1, <1>3, <1>4 DEF PacketInv, TableOK, Bound

(* What the timeout threads send, and what the NAT's gives up.               *)
LEMMA TimeoutFine ==
  ASSUME PacketInv,
         \/ \E w \in waiting : GiveUp(w)
         \/ \E p \in unsol : AnswerUnsolicited(p)
         \/ \E S \in SUBSET Bound : Expire(S)
  PROVE  PacketInv'
  <1>1. ASSUME NEW w \in waiting, GiveUp(w) PROVE PacketInv'
    <2>1. \A g \in Icmp(w.pkt, w.link, "host") : FrameOK(g)
      BY IcmpFine DEF PacketInv, WaitOK, Kind
    <2>2. /\ wire' = wire \cup Icmp(w.pkt, w.link, "host") /\ waiting' = waiting \ {w}
          /\ UNCHANGED <<bind, conns, unsol, nat, sent, got, up, late>>
      BY <1>1 DEF GiveUp
    <2> QED BY <2>1, <2>2 DEF PacketInv, TableOK, Bound
  <1>2. ASSUME NEW p \in unsol, AnswerUnsolicited(p) PROVE PacketInv'
    <2>1. PICK h \in NextHop(p.src) : wire' = wire \cup Icmp(p, h, "port")
      BY <1>2 DEF AnswerUnsolicited
    <2>2. \A g \in Icmp(p, h, "port") : FrameOK(g)
      BY Addresses, IcmpFine DEF PacketInv, Kind
    <2>3. unsol' = unsol \ {p} /\ UNCHANGED <<bind, conns, waiting, nat, sent, got, up, late>>
      BY <1>2 DEF AnswerUnsolicited
    <2> QED BY <2>1, <2>2, <2>3 DEF PacketInv, TableOK, Bound
  <1>3. ASSUME NEW S \in SUBSET Bound, Expire(S) PROVE PacketInv'
    <2>1. /\ bind' = [j \in Bound \ S |-> bind[j]] /\ conns' = {c \in conns : c[1] \notin S}
          /\ UNCHANGED <<unsol, waiting, wire, nat, sent, got, up>>
      BY <1>3 DEF Expire, Unbind
    <2>2. Bound' = Bound \ S /\ \A i \in Bound' : bind'[i] = bind[i]
      BY <2>1 DEF Bound
    <2>3. TableOK'
      BY <2>1, <2>2 DEF PacketInv, TableOK
    <2>4. late' \subseteq Traffic
      <3>1. \A f \in wire : f.pkt.about \in Traffic
        BY DEF PacketInv, FrameOK, Shown, Fine, PacketType
      <3> QED BY <1>3, <3>1 DEF Expire, PacketInv
    <2> QED BY <2>1, <2>3, <2>4 DEF PacketInv
  <1> QED BY <1>1, <1>2, <1>3

(* The initial state.                                                        *)
LEMMA InitFine ==
  ASSUME Init
  PROVE  PacketInv
  <1>1. Bound = {}
    BY DEF Init, InitBind, Bound
  <1>2. Modes \subseteq BOOLEAN
    BY IpAssumption
  <1> QED BY <1>1, <1>2 DEF Init, PacketInv, TableOK

(* Every step keeps the invariant.                                           *)
LEMMA NextFine ==
  ASSUME PacketInv, [Next]_vars
  PROVE  PacketInv'
  <1>1. ASSUME NEW f \in wire, Handle(f) PROVE PacketInv'
    BY <1>1, HandleFine DEF Moves, PacketInv
  <1>2. CASE UNCHANGED vars
    BY <1>2 DEF vars, PacketInv, TableOK, Bound
  <1> QED BY <1>1, <1>2, HostSendFine, HostReceiveFine, TimeoutFine DEF Next

(* Packets, frames and the NAT's table are well typed: the TTL stays in its  *)
(* 8 bits, sums in a word, and the table holds only pairs and ids.           *)
THEOREM PacketTypes == Spec => []TypeOK
  BY InitFine, NextFine, PacketInvImplies, PTL DEF Spec

(* However often a packet is rewritten, forwarded, kept and answered, every  *)
(* packet a host receives has the checksums of what it holds, and none whose *)
(* header was damaged on the way to the router gets through, or is answered: *)
(* for every word size, and every header.                                    *)
THEOREM ChecksumsAreRight == Spec => []ChecksumsHold
  BY InitFine, NextFine, PacketInvImplies, PTL DEF Spec
=============================================================================
