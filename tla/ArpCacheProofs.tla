--------------------------- MODULE ArpCacheProofs ---------------------------
(* The safety of the ARP cache, proved for every set of hosts and packets,   *)
(* every number of entries and every choice of timeouts and retries.         *)
EXTENDS ArpCache, FiniteSetTheorems, TLAPS

TypeInv == TypeOK /\ Hands

(* The record of no packet is none of the packets.                           *)
LEMMA NoPktIsNone == NoPkt \notin Packet
  BY ArpAssumption DEF NoPkt, Packet

(* Ageing keeps an age in range.                                             *)
LEMMA OlderType ==
  ASSUME NEW age \in Ages
  PROVE  Older(age) \in Ages
  BY ArpAssumption DEF Older, Ages

(* sr_arpcache_queuereq adds a packet to one request and changes no other    *)
(* list of packets.                                                          *)
LEMMA QueueReqEffect ==
  ASSUME requests \in [Addr -> Request], NEW p \in Packet, QueueReq(p)
  PROVE  /\ requests' \in [Addr -> Request]
         /\ \A a \in Addr :
              requests'[a].packets = IF a = p.dst THEN requests[a].packets \cup {p}
                                                  ELSE requests[a].packets
  <1> DEFINE r == [requests[p.dst] EXCEPT !.packets = @ \cup {p}]
  <1>1. p.dst \in Addr
    BY DEF Packet
  <1>2. r \in Request /\ r.packets = requests[p.dst].packets \cup {p}
    BY <1>1 DEF Request
  <1>3. requests' = [requests EXCEPT ![p.dst] = r]
    BY DEF QueueReq
  <1> QED BY <1>1, <1>2, <1>3

(* sr_arpcache_insert empties the queue of one address and can make only     *)
(* that address known.                                                       *)
LEMMA InsertEffect ==
  ASSUME entries \in [Slot -> Entry \cup {Free}], requests \in [Addr -> Request],
         NEW h \in Addr, Insert(h)
  PROVE  /\ requests' \in [Addr -> Request]
         /\ entries' \in [Slot -> Entry \cup {Free}]
         /\ \A a \in Addr : requests'[a].packets =
              IF a = h THEN {} ELSE requests[a].packets
         /\ \A a \in Addr : Cached(a)' => Cached(a) \/ a = h
  <1>1. NoReq \in Request /\ NoReq.packets = {}
    BY ArpAssumption DEF NoReq, Request, Ages
  <1>2. requests' = [requests EXCEPT ![h] = NoReq]
    BY DEF Insert
  <1>3. /\ requests' \in [Addr -> Request]
        /\ \A a \in Addr : requests'[a].packets =
             IF a = h THEN {} ELSE requests[a].packets
    BY <1>1, <1>2
  <1>4. CASE UNCHANGED entries
    BY <1>3, <1>4 DEF Cached, Valid
  <1>5. ASSUME NEW s \in Slot, entries' = [entries EXCEPT ![s] = [ip |-> h, age |-> 0]]
        PROVE  /\ entries' \in [Slot -> Entry \cup {Free}]
               /\ \A a \in Addr : Cached(a)' => Cached(a) \/ a = h
    <2>1. [ip |-> h, age |-> 0] \in Entry
      BY ArpAssumption DEF Entry, Ages
    <2>2. \A k \in Slot : entries'[k] = IF k = s THEN [ip |-> h, age |-> 0] ELSE entries[k]
      BY <1>5
    <2> QED BY <1>5, <2>1, <2>2 DEF Cached, Valid
  <1> QED BY <1>3, <1>4, <1>5 DEF Insert

(* The error about a packet is a packet.                                     *)
LEMMA ErrorForType ==
  ASSUME NEW p \in Packet
  PROVE  ErrorFor(p) \in Packet /\ ErrorFor(p).error /\ ErrorFor(p).dst = p.src
  BY DEF ErrorFor, Packet, Addr

-----------------------------------------------------------------------------
(* Types *)

(* sr_arpcache_init leaves an empty cache.                                   *)
LEMMA InitTypes == Init => TypeInv
  <1>1. NoReq \in Request
    BY ArpAssumption DEF NoReq, Request, Ages
  <1>2. IsFiniteSet({})
    BY FS_EmptySet
  <1> QED BY <1>1, <1>2 DEF Init, TypeInv, TypeOK, Hands, Thread

(* A packet that is started is one, and the number of packets stays finite.  *)
LEMMA StartTypes ==
  ASSUME TypeInv, NEW t \in Thread, NEW f \in Traffic \cup Unsolicited, Start(t, f)
  PROVE  TypeInv'
  <1> DEFINE p == [src |-> f.src, dst |-> f.dst, sender |-> f.sender,
                   id |-> Cardinality(accepted) + 1, error |-> t = "nat"]
  <1>1. Cardinality(accepted) \in Nat
    BY FS_CardinalityType DEF TypeInv, Hands
  <1>2. Cardinality(accepted) + 1 \in 1 .. MaxPackets
    BY <1>1, ArpAssumption DEF Start
  <1>3. p \in Packet
    BY <1>2, ArpAssumption DEF Packet, Addr
  <1>4. IsFiniteSet(accepted \cup {p})
    BY FS_AddElement DEF TypeInv, Hands
  <1>5. p.error <=> t = "nat"
    OBVIOUS
  <1> HIDE DEF p
  <1>6. /\ hand' = [hand EXCEPT ![t] = p] /\ accepted' = accepted \cup {p}
        /\ stage[t] = "idle" /\ stage' = [stage EXCEPT ![t] = "lookup"]
        /\ UNCHANGED <<entries, requests, flushing, arp, todo, failing, pending, slept,
                       asked, settled, crashed>>
    BY DEF Start, p
  <1>7. TypeOK'
    BY <1>3, <1>6 DEF TypeInv, TypeOK
  <1>8. Hands'
    BY <1>3, <1>4, <1>5, <1>6 DEF TypeInv, TypeOK, Hands, Thread
  <1> QED BY <1>7, <1>8 DEF TypeInv

(* Types are kept by the two critical sections of sending a packet.          *)
LEMMA SendTypes ==
  ASSUME TypeInv, NEW t \in Thread, Send(t)
  PROVE  TypeInv'
  <1>1. CASE Lookup(t)
    <2>1. hand[t] \in Packet
      BY <1>1 DEF Lookup, TypeInv, Hands
    <2>2. TypeOK'
      BY <1>1, <2>1 DEF Lookup, TypeInv, TypeOK
    <2>3. Hands'
      BY <1>1, <2>1 DEF Lookup, TypeInv, TypeOK, Hands, Thread
    <2> QED BY <2>2, <2>3 DEF TypeInv
  <1>2. CASE Queue(t)
    <2>1. hand[t] \in Packet
      BY <1>2 DEF Queue, TypeInv, Hands
    <2>2. requests' \in [Addr -> Request]
      BY <1>2, <2>1, QueueReqEffect DEF Queue, TypeInv, TypeOK
    <2>3. TypeOK'
      BY <1>2, <2>2 DEF Queue, TypeInv, TypeOK
    <2>4. Hands'
      BY <1>2 DEF Queue, TypeInv, TypeOK, Hands, Thread
    <2> QED BY <2>3, <2>4 DEF TypeInv
  <1> QED BY <1>1, <1>2 DEF Send

(* Types are kept by the two branches of sr_handle_arp.                      *)
LEMMA ArpTypes ==
  ASSUME TypeInv, NEW h \in Host, ArpReply(h) \/ ArpRequest(h)
  PROVE  TypeInv'
  <1>1. h \in Addr
    BY DEF Addr
  <1>2. CASE ArpReply(h)
    <2>1. requests' \in [Addr -> Request] /\ entries' \in [Slot -> Entry \cup {Free}]
      BY <1>1, <1>2, InsertEffect DEF ArpReply, TypeInv, TypeOK
    <2>2. flushing' \subseteq Packet
      BY <1>1, <1>2 DEF ArpReply, TypeInv, TypeOK, Request
    <2>3. TypeOK'
      BY <1>2, <2>1, <2>2 DEF ArpReply, TypeInv, TypeOK
    <2>4. Hands'
      BY <1>2 DEF ArpReply, TypeInv, TypeOK, Hands, Thread
    <2> QED BY <2>3, <2>4 DEF TypeInv
  <1>3. CASE ArpRequest(h)
    <2>1. requests' \in [Addr -> Request] /\ entries' \in [Slot -> Entry \cup {Free}]
      BY <1>1, <1>3, InsertEffect DEF ArpRequest, TypeInv, TypeOK
    <2> QED BY <1>3, <2>1 DEF ArpRequest, TypeInv, TypeOK, Hands
  <1> QED BY <1>2, <1>3

-----------------------------------------------------------------------------
(* The ARP thread's steps and the clock *)

(* The ARP thread leaves the other threads alone.                            *)
LEMMA ArpThreadLeaves ==
  ASSUME ArpThread
  PROVE  UNCHANGED <<hand, stage, flushing, accepted>>
  BY DEF ArpThread, Wake, WalkSkip, WalkResend, WalkFail, FailOne, Destroy, WalkEnd

(* Types are kept by the ARP thread.                                         *)
LEMMA ArpThreadTypes ==
  ASSUME TypeInv, ArpThread
  PROVE  TypeInv'
  <1>1. Hands'
    BY ArpThreadLeaves DEF TypeInv, Hands
  <1>2. CASE Wake
    BY <1>1, <1>2 DEF Wake, Queued, TypeInv, TypeOK
  <1>3. CASE WalkEnd
    BY <1>1, <1>3 DEF WalkEnd, TypeInv, TypeOK
  <1>4. ASSUME NEW a \in Addr, WalkSkip(a)
        PROVE  TypeInv'
    BY <1>1, <1>4 DEF WalkSkip, TypeInv, TypeOK
  <1>5. ASSUME NEW a \in Addr, WalkResend(a)
        PROVE  TypeInv'
    <2> DEFINE r == [requests[a] EXCEPT !.age = 0, !.times = @ + 1]
    <2>1. r \in Request
      <3>1. requests[a] \in Request /\ requests[a].times < ReqMax
        BY <1>5 DEF WalkResend, TypeInv, TypeOK
      <3>2. requests[a].times + 1 \in 0 .. ReqMax /\ 0 \in Ages
        BY <3>1, ArpAssumption DEF Request, Ages
      <3> QED BY <3>1, <3>2 DEF Request
    <2>2. requests' = [requests EXCEPT ![a] = r]
      BY <1>5 DEF WalkResend, TypeInv, TypeOK
    <2>3. requests' \in [Addr -> Request]
      BY <2>1, <2>2 DEF TypeInv, TypeOK
    <2> QED BY <1>1, <1>5, <2>3 DEF WalkResend, TypeInv, TypeOK
  <1>6. ASSUME NEW a \in Addr, WalkFail(a)
        PROVE  TypeInv'
    <2>1. requests[a].packets \subseteq Packet
      BY DEF TypeInv, TypeOK, Request
    <2> QED BY <1>1, <1>6, <2>1 DEF WalkFail, TypeInv, TypeOK
  <1>7. ASSUME NEW p \in pending, FailOne(p)
        PROVE  TypeInv'
    <2>1. p \in Packet
      BY DEF TypeInv, TypeOK
    <2>2. requests' \in [Addr -> Request]
      BY <1>7, <2>1, ErrorForType, QueueReqEffect DEF FailOne, TypeInv, TypeOK
    <2> QED BY <1>1, <1>7, <2>1, <2>2 DEF FailOne, TypeInv, TypeOK
  <1>8. CASE Destroy
    <2>1. NoReq \in Request
      BY ArpAssumption DEF NoReq, Request, Ages
    <2> QED BY <1>1, <1>8, <2>1 DEF Destroy, TypeInv, TypeOK
  <1> QED BY <1>2, <1>3, <1>4, <1>5, <1>6, <1>7, <1>8 DEF ArpThread

(* The clock ages entries and requests and changes nothing else of them.     *)
LEMMA TickEffect ==
  ASSUME TypeInv, Tick
  PROVE  /\ requests' \in [Addr -> Request]
         /\ entries' \in [Slot -> Entry \cup {Free}]
         /\ \A a \in Addr : requests'[a].packets = requests[a].packets
         /\ \A a \in Addr : Cached(a)' => Cached(a)
  <1>1. ASSUME NEW a \in Addr
        PROVE  /\ requests'[a] \in Request
               /\ requests'[a].packets = requests[a].packets
    <2>1. requests[a] \in Request /\ Older(requests[a].age) \in Ages
      BY OlderType DEF TypeInv, TypeOK, Request
    <2> QED BY <2>1 DEF Tick, Request
  <1>2. ASSUME NEW s \in Slot
        PROVE  /\ entries'[s] \in Entry \cup {Free}
               /\ Valid(s)' => Valid(s) /\ entries'[s].ip = entries[s].ip
    <2>1. CASE Valid(s)
      <3>1. entries[s] \in Entry
        BY <2>1 DEF Valid, TypeInv, TypeOK
      <3>2. entries'[s] = [entries[s] EXCEPT !.age = Older(@)]
        BY <2>1 DEF Tick
      <3> QED BY <2>1, <3>1, <3>2, OlderType DEF Entry
    <2>2. CASE ~Valid(s)
      BY <2>2 DEF Tick, Valid
    <2> QED BY <2>1, <2>2
  <1>3. requests' \in [Addr -> Request]
    BY <1>1 DEF Tick
  <1>4. entries' \in [Slot -> Entry \cup {Free}]
    BY <1>2 DEF Tick
  <1>5. \A a \in Addr : Cached(a)' => Cached(a)
    BY <1>2 DEF Cached
  <1> QED BY <1>1, <1>3, <1>4, <1>5

(* Every step keeps the types.                                               *)
LEMMA NextTypes ==
  ASSUME TypeInv, [Next]_vars
  PROVE  TypeInv'
  <1>1. ASSUME NEW f \in Traffic, Start("main", f) PROVE TypeInv'
    BY <1>1, StartTypes DEF Thread
  <1>2. ASSUME NEW f \in Unsolicited, Start("nat", f) PROVE TypeInv'
    BY <1>2, StartTypes DEF Thread
  <1>3. ASSUME NEW t \in Thread, Send(t) PROVE TypeInv'
    BY <1>3, SendTypes
  <1>4. ASSUME NEW h \in Host, ArpReply(h) \/ ArpRequest(h) PROVE TypeInv'
    BY <1>4, ArpTypes
  <1>5. CASE Flush
    BY <1>5 DEF Flush, TypeInv, TypeOK, Hands, Thread
  <1>6. CASE ArpThread
    BY <1>6, ArpThreadTypes
  <1>7. CASE Tick
    BY <1>7, TickEffect DEF Tick, TypeInv, TypeOK, Hands
  <1>8. CASE UNCHANGED vars
    BY <1>8 DEF vars, TypeInv, TypeOK, Hands
  <1>9. Asking \subseteq Host
    BY ArpAssumption
  <1> QED BY <1>1, <1>2, <1>3, <1>4, <1>5, <1>6, <1>7, <1>8, <1>9 DEF Next

(* Every reachable state of the cache is well typed, and each thread has the *)
(* packet at hand that its next step sends or queues.                        *)
THEOREM TypesHold == Spec => [](TypeOK /\ Hands)
  <1>1. Init => TypeInv
    BY InitTypes
  <1>2. TypeInv /\ [Next]_vars => TypeInv'
    BY NextTypes
  <1>3. TypeInv => TypeOK /\ Hands
    BY DEF TypeInv
  <1> QED BY <1>1, <1>2, <1>3, PTL DEF Spec

-----------------------------------------------------------------------------
(* Safety of the cache *)

(* Where the cache has a packet. *)
Somewhere(p) ==
  \/ p \in settled \cup flushing \cup pending
  \/ \E t \in Thread : hand[t] = p
  \/ \E a \in Addr : p \in requests[a].packets

(* Accounted, packet by packet.                                              *)
LEMMA AccountedHere ==
  Accounted <=> \A p \in accepted : p.error \/ p.dst \in Asking \/ Somewhere(p)
  BY DEF Accounted, Lost, Waits, InHand, Somewhere

LEMMA AccountedNext ==
  (\A p \in accepted' : p.error \/ p.dst \in Asking \/ Somewhere(p)') => Accounted'
  BY DEF Accounted, Lost, Waits, InHand, Somewhere

(* A step that keeps every packet somewhere keeps Accounted.                 *)
LEMMA NoneLost ==
  ASSUME Accounted, accepted' = accepted,
         \A p \in accepted :
           Somewhere(p) => p.error \/ p.dst \in Asking \/ Somewhere(p)'
  PROVE  Accounted'
  BY AccountedHere, AccountedNext

(* A step that queues nothing and makes no address known.                    *)
LEMMA StillUncached ==
  ASSUME PendingUncached,
         \A a \in Addr : Cached(a)' => Cached(a),
         \A a \in Addr : requests'[a].packets \subseteq requests[a].packets
  PROVE  PendingUncached'
  BY DEF PendingUncached

(* A packet that is started is in its thread's hand.                         *)
LEMMA StartKeeps ==
  ASSUME TypeInv, CacheInv, NEW t \in Thread, NEW f \in Traffic \cup Unsolicited,
         Start(t, f)
  PROVE  CacheInv'
  <1>1. PICK p : /\ hand' = [hand EXCEPT ![t] = p] /\ accepted' = accepted \cup {p}
                 /\ stage[t] = "idle" /\ stage' = [stage EXCEPT ![t] = "lookup"]
                 /\ UNCHANGED <<entries, requests, flushing, arp, failing, pending, settled>>
    BY DEF Start
  <1>2. hand'[t] = p /\ \A u \in Thread \ {t} : hand'[u] = hand[u] /\ stage'[u] = stage[u]
    BY <1>1 DEF TypeInv, TypeOK
  <1>3. hand[t] = NoPkt /\ stage'[t] = "lookup"
    BY <1>1 DEF TypeInv, TypeOK, Hands
  <1>4. Walk'
    BY <1>1 DEF CacheInv, Walk
  <1>5. Missed'
    BY <1>1, <1>2, <1>3 DEF CacheInv, Missed, Cached, Valid, Thread
  <1>6. PendingUncached'
    BY <1>1 DEF CacheInv, PendingUncached, Cached, Valid
  <1>7. ASSUME NEW q \in accepted, Somewhere(q)
        PROVE  Somewhere(q)'
    <2>1. q # NoPkt
      BY NoPktIsNone DEF TypeInv, TypeOK
    <2> QED BY <1>1, <1>2, <1>3, <1>7, <2>1 DEF Somewhere
  <1>8. Somewhere(p)'
    BY <1>2 DEF Somewhere
  <1>9. Accounted'
    BY <1>1, <1>7, <1>8, AccountedHere, AccountedNext DEF CacheInv
  <1> QED BY <1>4, <1>5, <1>6, <1>9 DEF CacheInv

(* sr_arpcache_lookup: a hit is transmitted, a miss stays in hand and is     *)
(* missing indeed.                                                           *)
LEMMA LookupKeeps ==
  ASSUME TypeInv, CacheInv, NEW t \in Thread, Lookup(t)
  PROVE  CacheInv'
  <1>1. UNCHANGED <<entries, requests, flushing, arp, failing, pending, accepted>>
    BY DEF Lookup
  <1>2. settled \subseteq settled' /\ arp = "sleep"
    BY DEF Lookup, Unlocked
  <1>3. Walk'
    BY <1>1, <1>2 DEF CacheInv, Walk
  <1>4. PendingUncached'
    BY <1>1 DEF CacheInv, PendingUncached, Cached, Valid
  <1>5. \A u \in Thread \ {t} : hand'[u] = hand[u] /\ stage'[u] = stage[u]
    BY DEF Lookup, TypeInv, TypeOK
  <1>6. CASE Cached(hand[t].dst)
    <2>1. stage'[t] = "idle" /\ settled' = settled \cup {hand[t]}
      BY <1>6 DEF Lookup, TypeInv, TypeOK
    <2>2. Missed'
      BY <1>1, <1>5, <2>1 DEF CacheInv, Missed, Cached, Valid, Thread
    <2>3. \A p \in accepted : Somewhere(p) => Somewhere(p)'
      BY <1>1, <1>5, <2>1 DEF Somewhere
    <2>4. Accounted'
      BY <1>1, <2>3, NoneLost DEF CacheInv
    <2> QED BY <1>3, <1>4, <2>2, <2>4 DEF CacheInv
  <1>7. CASE ~Cached(hand[t].dst)
    <2>1. hand' = hand /\ settled' = settled
      BY <1>7 DEF Lookup
    <2>2. Missed'
      BY <1>1, <1>5, <1>7, <2>1 DEF CacheInv, Missed, Cached, Valid, Thread
    <2>3. \A p \in accepted : Somewhere(p) => Somewhere(p)'
      BY <1>1, <2>1 DEF Somewhere
    <2>4. Accounted'
      BY <1>1, <2>3, NoneLost DEF CacheInv
    <2> QED BY <1>3, <1>4, <2>2, <2>4 DEF CacheInv
  <1> QED BY <1>6, <1>7

(* sr_arpcache_queuereq: the packet goes from the hand to its request.  It   *)
(* is an error, or main's and its next hop is still unknown.                 *)
LEMMA QueueKeeps ==
  ASSUME TypeInv, CacheInv, NEW t \in Thread, Queue(t)
  PROVE  CacheInv'
  <1> DEFINE p == hand[t]
  <1>1. p \in Packet /\ p.dst \in Addr /\ p # NoPkt
    BY NoPktIsNone DEF Queue, TypeInv, Hands, Packet
  <1>2. \A a \in Addr :
          requests'[a].packets = IF a = p.dst THEN requests[a].packets \cup {p}
                                              ELSE requests[a].packets
    BY <1>1, QueueReqEffect DEF Queue, TypeInv, TypeOK
  <1>3. /\ UNCHANGED <<entries, flushing, arp, failing, pending, settled, accepted>>
        /\ arp = "sleep"
    BY DEF Queue, Unlocked
  <1>4. /\ stage'[t] = "idle"
        /\ \A u \in Thread \ {t} : hand'[u] = hand[u] /\ stage'[u] = stage[u]
    BY DEF Queue, TypeInv, TypeOK
  <1>5. p.error \/ ~Cached(p.dst)
    BY <1>1 DEF Queue, TypeInv, Hands, CacheInv, Missed, Thread
  <1>6. Walk'
    BY <1>2, <1>3 DEF CacheInv, Walk
  <1>7. Missed'
    BY <1>3, <1>4 DEF CacheInv, Missed, Cached, Valid, Thread
  <1>8. PendingUncached'
    BY <1>2, <1>3, <1>5 DEF CacheInv, PendingUncached, Cached, Valid
  <1>9. \A q \in accepted : Somewhere(q) => Somewhere(q)'
    BY <1>1, <1>2, <1>3, <1>4 DEF Somewhere
  <1>10. Accounted'
    BY <1>3, <1>9, NoneLost DEF CacheInv
  <1> QED BY <1>6, <1>7, <1>8, <1>10 DEF CacheInv

(* sr_handle_arp: a reply moves the packets of a request into main's hand; a *)
(* request loses them, and only those for the host that sent it.             *)
LEMMA ArpKeeps ==
  ASSUME TypeInv, CacheInv, NEW h \in Host,
         ArpReply(h) \/ (h \in Asking /\ ArpRequest(h))
  PROVE  CacheInv'
  <1>1. h \in Addr
    BY DEF Addr
  <1>2. Insert(h) /\ stage["main"] = "idle" /\ arp = "sleep" /\ flushing = {}
    BY DEF ArpReply, ArpRequest, Unlocked, TypeInv, Hands
  <1>3. /\ \A a \in Addr : requests'[a].packets =
             IF a = h THEN {} ELSE requests[a].packets
        /\ \A a \in Addr : Cached(a)' => Cached(a) \/ a = h
    BY <1>1, <1>2, InsertEffect DEF TypeInv, TypeOK
  <1>4. /\ UNCHANGED <<hand, arp, failing, pending, settled, accepted>>
        /\ stage'["main"] \in {"idle", "flush"}
    BY <1>2 DEF ArpReply, ArpRequest, TypeInv, TypeOK, Thread
  <1>5. Walk'
    BY <1>2, <1>3, <1>4 DEF CacheInv, Walk
  <1>6. Missed'
    BY <1>4 DEF Missed
  <1>7. PendingUncached'
    BY <1>3 DEF CacheInv, PendingUncached
  <1>8. ASSUME NEW p \in accepted, Somewhere(p)
        PROVE  p.dst \in Asking \/ Somewhere(p)'
    <2>1. CASE p \in requests[h].packets
      <3>1. CASE ArpReply(h)
        BY <2>1, <3>1 DEF ArpReply, Somewhere
      <3>2. CASE h \in Asking
        BY <1>1, <2>1, <3>2 DEF CacheInv, Walk
      <3> QED BY <3>1, <3>2
    <2>2. CASE p \notin requests[h].packets
      BY <1>2, <1>3, <1>4, <1>8, <2>2 DEF Somewhere
    <2> QED BY <2>1, <2>2
  <1>9. Accounted'
    BY <1>4, <1>8, NoneLost DEF CacheInv
  <1> QED BY <1>5, <1>6, <1>7, <1>9 DEF CacheInv

(* The packets of a request that was answered are transmitted.               *)
LEMMA FlushKeeps ==
  ASSUME TypeInv, CacheInv, Flush
  PROVE  CacheInv'
  <1>1. /\ UNCHANGED <<entries, requests, hand, arp, failing, pending, accepted>>
        /\ settled' = settled \cup flushing /\ stage'["main"] = "idle"
    BY DEF Flush, TypeInv, TypeOK, Thread
  <1>2. Walk' /\ Missed' /\ PendingUncached'
    BY <1>1 DEF CacheInv, Walk, Missed, PendingUncached, Cached, Valid
  <1>3. \A p \in accepted : Somewhere(p) => Somewhere(p)'
    BY <1>1 DEF Somewhere
  <1>4. Accounted'
    BY <1>1, <1>3, NoneLost DEF CacheInv
  <1> QED BY <1>2, <1>4 DEF CacheInv

(* The ARP thread and the clock make no address known.                       *)
LEMMA ArpThreadUncaches ==
  ASSUME TypeInv, ArpThread
  PROVE  \A a \in Addr : Cached(a)' => Cached(a)
  <1>1. CASE Wake
    BY <1>1 DEF Wake, Cached, Valid, Free
  <1>2. CASE UNCHANGED entries
    BY <1>2 DEF Cached, Valid
  <1> QED BY <1>1, <1>2
          DEF ArpThread, WalkSkip, WalkResend, WalkFail, FailOne, Destroy, WalkEnd

(* What main has missed stays missing.                                       *)
LEMMA StillMissed ==
  ASSUME TypeInv, Missed, UNCHANGED <<hand, stage>>,
         \A a \in Addr : Cached(a)' => Cached(a)
  PROVE  Missed'
  <1>1. stage["main"] = "queue" => hand["main"].dst \in Addr
    BY DEF TypeInv, Hands, Packet, Thread
  <1> QED BY <1>1 DEF Missed

(* A step of the walk that gives nothing up leaves every packet where it is. *)
LEMMA WalkingKeeps ==
  ASSUME TypeInv, CacheInv,
         \/ Wake \/ WalkEnd
         \/ \E a \in Addr : WalkSkip(a) \/ WalkResend(a)
  PROVE  CacheInv'
  <1>1. ArpThread
    BY DEF ArpThread
  <1>2. /\ UNCHANGED <<hand, stage, flushing, failing, pending, settled, accepted>>
        /\ arp # "fail" /\ arp' # "fail"
    BY DEF Wake, WalkEnd, WalkSkip, WalkResend, Unlocked
  <1>3. \A a \in Addr : requests'[a].packets = requests[a].packets
    <2>1. CASE UNCHANGED requests
      BY <2>1
    <2>2. ASSUME NEW a \in Addr, WalkResend(a)
          PROVE  \A b \in Addr : requests'[b].packets = requests[b].packets
      <3>1. requests' = [requests EXCEPT ![a] = [requests[a] EXCEPT
                                                   !.age = 0, !.times = @ + 1]]
        BY <2>2 DEF WalkResend, TypeInv, TypeOK
      <3> QED BY <3>1 DEF TypeInv, TypeOK, Request
    <2> QED BY <2>1, <2>2 DEF Wake, WalkEnd, WalkSkip
  <1>4. \A a \in Addr : Cached(a)' => Cached(a)
    BY <1>1, ArpThreadUncaches
  <1>5. Walk'
    BY <1>2, <1>3 DEF CacheInv, Walk
  <1>6. Missed' /\ PendingUncached'
    BY <1>2, <1>3, <1>4, StillMissed, StillUncached DEF CacheInv
  <1>7. \A p \in accepted : Somewhere(p) => Somewhere(p)'
    BY <1>2, <1>3 DEF Somewhere
  <1>8. Accounted'
    BY <1>2, <1>7, NoneLost DEF CacheInv
  <1> QED BY <1>5, <1>6, <1>8 DEF CacheInv

(* A request that is given up has all its packets still to be answered.      *)
LEMMA WalkFailKeeps ==
  ASSUME TypeInv, CacheInv, NEW a \in Addr, WalkFail(a)
  PROVE  CacheInv'
  <1>1. /\ UNCHANGED <<entries, requests, hand, stage, flushing, settled, accepted>>
        /\ arp = "walk" /\ arp' = "fail" /\ failing' = {a}
        /\ pending' = requests[a].packets /\ pending = {}
    BY DEF WalkFail, CacheInv, Walk
  <1>2. Walk' /\ Missed' /\ PendingUncached'
    BY <1>1 DEF CacheInv, Walk, Missed, PendingUncached, Cached, Valid
  <1>3. \A p \in accepted : Somewhere(p) => Somewhere(p)'
    BY <1>1 DEF Somewhere
  <1>4. Accounted'
    BY <1>1, <1>3, NoneLost DEF CacheInv
  <1> QED BY <1>2, <1>4 DEF CacheInv

(* sr_send_icmp inside the walk: the packet is answered, and what may join a *)
(* request is an error.                                                      *)
LEMMA FailOneKeeps ==
  ASSUME TypeInv, CacheInv, NEW p \in pending, FailOne(p)
  PROVE  CacheInv'
  <1>1. /\ UNCHANGED <<entries, hand, stage, flushing, arp, failing, accepted>>
        /\ arp = "fail" /\ pending' = pending \ {p} /\ settled' = settled \cup {p}
    BY DEF FailOne
  <1>2. PICK e : /\ e.error
                 /\ \A a \in Addr :
                      requests'[a].packets = requests[a].packets
                      \/ (a = e.dst /\ requests'[a].packets = requests[a].packets \cup {e})
    <2>1. p \in Packet
      BY DEF TypeInv, TypeOK
    <2>2. ErrorFor(p) \in Packet /\ ErrorFor(p).error
      BY <2>1, ErrorForType
    <2>3. CASE UNCHANGED requests
      BY <2>2, <2>3
    <2>4. CASE QueueReq(ErrorFor(p))
      <3>1. \A a \in Addr :
              requests'[a].packets = IF a = ErrorFor(p).dst
                                     THEN requests[a].packets \cup {ErrorFor(p)}
                                     ELSE requests[a].packets
        BY <2>2, <2>4, QueueReqEffect DEF TypeInv, TypeOK
      <3> QED BY <2>2, <3>1
    <2> QED BY <2>3, <2>4 DEF FailOne
  <1>3. Walk'
    <2>1. \A a \in Addr : \A q \in requests'[a].packets : q.dst = a
      BY <1>2 DEF CacheInv, Walk
    <2>2. ASSUME NEW a \in failing, a \in Addr, NEW q \in requests'[a].packets
          PROVE  q.error \/ q \in pending' \cup settled'
      BY <1>1, <1>2, <2>2 DEF CacheInv, Walk
    <2> QED BY <1>1, <2>1, <2>2 DEF Walk, TypeInv, TypeOK
  <1>4. Missed'
    BY <1>1 DEF CacheInv, Missed, Cached, Valid
  <1>5. PendingUncached'
    BY <1>1, <1>2 DEF CacheInv, PendingUncached, Cached, Valid
  <1>6. \A q \in accepted : Somewhere(q) => Somewhere(q)'
    BY <1>1, <1>2 DEF Somewhere
  <1>7. Accounted'
    BY <1>1, <1>6, NoneLost DEF CacheInv
  <1> QED BY <1>3, <1>4, <1>5, <1>7 DEF CacheInv

(* sr_arpreq_destroy: only packets that are answered, and errors that joined *)
(* the request in the meantime, go with it.                                  *)
LEMMA DestroyKeeps ==
  ASSUME TypeInv, CacheInv, Destroy
  PROVE  CacheInv'
  <1>1. /\ UNCHANGED <<entries, hand, stage, flushing, pending, settled, accepted>>
        /\ arp = "fail" /\ pending = {} /\ arp' # "fail"
        /\ \A a \in Addr : requests'[a] = IF a \in failing THEN NoReq ELSE requests[a]
    BY DEF Destroy
  <1>2. NoReq.packets = {}
    BY DEF NoReq
  <1>3. Walk' /\ Missed' /\ PendingUncached'
    BY <1>1, <1>2 DEF CacheInv, Walk, Missed, PendingUncached, Cached, Valid
  <1>4. \A p \in accepted : Somewhere(p) => p.error \/ Somewhere(p)'
    BY <1>1, <1>2 DEF CacheInv, Walk, Somewhere
  <1>5. Accounted'
    BY <1>1, <1>4, NoneLost DEF CacheInv
  <1> QED BY <1>3, <1>5 DEF CacheInv

(* The clock keeps every packet where it is.                                 *)
LEMMA TickKeeps ==
  ASSUME TypeInv, CacheInv, Tick
  PROVE  CacheInv'
  <1>1. /\ \A a \in Addr : requests'[a].packets = requests[a].packets
        /\ \A a \in Addr : Cached(a)' => Cached(a)
    BY TickEffect
  <1>2. UNCHANGED <<hand, stage, flushing, arp, failing, pending, settled, accepted>>
    BY DEF Tick
  <1>3. Walk'
    BY <1>1, <1>2 DEF CacheInv, Walk, TypeInv, TypeOK
  <1>4. Missed' /\ PendingUncached'
    BY <1>1, <1>2, StillMissed, StillUncached DEF CacheInv
  <1>5. \A p \in accepted : Somewhere(p) => Somewhere(p)'
    BY <1>1, <1>2 DEF Somewhere
  <1>6. Accounted'
    BY <1>2, <1>5, NoneLost DEF CacheInv
  <1> QED BY <1>3, <1>4, <1>6 DEF CacheInv

(* The empty cache satisfies the invariant.                                  *)
LEMMA InitCache == Init => CacheInv
  <1>1. NoReq.packets = {}
    BY DEF NoReq
  <1> QED BY <1>1 DEF Init, CacheInv, Walk, Missed, PendingUncached, Accounted, Lost, Thread

(* Every step keeps the invariant.                                           *)
LEMMA NextCache ==
  ASSUME TypeInv, CacheInv, [Next]_vars
  PROVE  CacheInv'
  <1>1. ASSUME NEW f \in Traffic, Start("main", f) PROVE CacheInv'
    BY <1>1, StartKeeps DEF Thread
  <1>2. ASSUME NEW f \in Unsolicited, Start("nat", f) PROVE CacheInv'
    BY <1>2, StartKeeps DEF Thread
  <1>3. ASSUME NEW t \in Thread, Send(t) PROVE CacheInv'
    BY <1>3, LookupKeeps, QueueKeeps DEF Send
  <1>4. ASSUME NEW h \in Host, ArpReply(h) PROVE CacheInv'
    BY <1>4, ArpKeeps
  <1>5. ASSUME NEW h \in Asking, ArpRequest(h) PROVE CacheInv'
    BY <1>5, ArpKeeps, ArpAssumption
  <1>6. CASE ArpThread
    BY <1>6, WalkingKeeps, WalkFailKeeps, FailOneKeeps, DestroyKeeps DEF ArpThread
  <1>7. CASE UNCHANGED vars
    <2>1. Walk' /\ Missed' /\ PendingUncached'
      BY <1>7 DEF vars, CacheInv, Walk, Missed, PendingUncached, Cached, Valid
    <2>2. \A p \in accepted : Somewhere(p) => Somewhere(p)'
      BY <1>7 DEF vars, Somewhere
    <2>3. UNCHANGED <<stage, accepted>>
      BY <1>7 DEF vars
    <2>4. Accounted'
      BY <1>7, <2>2, <2>3, NoneLost DEF CacheInv, vars
    <2> QED BY <2>1, <2>4 DEF CacheInv
  <1> QED BY <1>1, <1>2, <1>3, <1>4, <1>5, <1>6, <1>7, FlushKeeps, TickKeeps DEF Next

(* The safety of sr_arpcache.c, however the three threads interleave and         *)
(* whichever hosts answer.                                                   *)
THEOREM CacheSafe == Spec => []CacheInv
  <1>1. Init => TypeInv /\ CacheInv
    BY InitTypes, InitCache
  <1>2. TypeInv /\ CacheInv /\ [Next]_vars => (TypeInv /\ CacheInv)'
    BY NextTypes, NextCache
  <1> QED BY <1>1, <1>2, PTL DEF Spec

(* While an address is known, only ICMP errors wait for it: main's           *)
(* sr_arpcache_lookup and sr_arpcache_queuereq are two critical sections, but *)
(* no insertion comes between them.                                          *)
THEOREM KnownNotAwaited == Spec => []PendingUncached
  BY CacheSafe, PTL DEF CacheInv

(* No packet of sr_forward_ippacket is lost between queue, threads and       *)
(* errors, unless its next hop sends an ARP request, for which sr_handle_arp *)
(* drops what sr_arpcache_insert took off the queue.                         *)
THEOREM NoPacketLost == Spec => []Accounted
  BY CacheSafe, PTL DEF CacheInv
=============================================================================
