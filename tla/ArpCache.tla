------------------------------ MODULE ArpCache ------------------------------
(* Address resolution: the entries and the request queue of sr_arpcache.c,   *)
(* and the three threads that use them.                                      *)
(*                                                                           *)
(* The main thread forwards packets (sr_forward_ippacket) and handles ARP    *)
(* (sr_handle_arp).  The NAT's timeout thread sends ICMP errors              *)
(* (sr_send_icmp).  For both, looking an address up and queueing the packet  *)
(* that missed are two critical sections.  The ARP thread                    *)
(* (sr_arpcache_timeout) expires entries and walks the requests in one; the  *)
(* walk is modelled request by request and packet by packet, the other       *)
(* threads' critical sections waiting for its end.                           *)
(*                                                                           *)
(* An address stands for a next hop.  Ages saturate at AgeCap; a request     *)
(* that was never sent (sent = 0) has age AgeCap.  The walk's order among    *)
(* the requests, and among the packets of one, is left open.                 *)
EXTENDS Naturals, FiniteSets

CONSTANTS
  Host,         \* addresses of the hosts around the router
  Self,         \* the router's own addresses, one per interface
  Asking,       \* the hosts that send ARP requests to the router
  Traffic,      \* the [src, dst, sender] of the packets main has to send
  Unsolicited,  \* the same for the packets of the NAT's timeout thread
  Slots,        \* number of cache entries, SR_ARPCACHE_SZ
  EntryTo,      \* SR_ARPCACHE_TO
  ReqTo,        \* SR_ARPREQ_TO
  ReqMax,       \* SR_ARPREQ_MAX
  AgeCap,       \* bound: ages stop growing here
  MaxPackets    \* bound: packets that main and the NAT thread start to send

ASSUME ArpAssumption ==
  /\ Slots \in Nat \ {0} /\ ReqMax \in Nat /\ MaxPackets \in Nat
  /\ AgeCap \in Nat /\ {EntryTo, ReqTo} \subseteq 0 .. (AgeCap - 1)
  /\ Host \cap Self = {} /\ Asking \subseteq Host
  /\ Traffic \cup Unsolicited \subseteq
       [src : Host \cup Self, dst : Host \cup Self, sender : Self]

VARIABLES
  entries,   \* slot -> [ip, age], or Free when it is not valid
  requests,  \* cache->requests: address -> request, NoReq when there is none
  hand,      \* thread -> the packet it is sending
  stage,     \* thread -> what it does next
  flushing,  \* the packets of the request that main took off the queue
  arp,       \* what the ARP thread does: "sleep", "walk" or "fail"
  todo,      \* the requests its walk has still to look at
  failing,   \* the request it gives up
  pending,   \* the packets of that request still to be answered
  slept,     \* a second has passed since the ARP thread last ran
  asked,     \* addresses some ARP request was broadcast for
  accepted,  \* packets started so far
  settled,   \* packets transmitted, or answered with an error
  crashed

vars == <<entries, requests, hand, stage, flushing, arp, todo, failing, pending,
          slept, asked, accepted, settled, crashed>>

Addr == Host \cup Self
Thread == {"main", "nat"}
Slot == 1 .. Slots
Ages == 0 .. AgeCap

Packet  == [src : Addr, dst : Addr, sender : Self, id : 1 .. MaxPackets, error : BOOLEAN]
Request == [age : Ages, times : 0 .. ReqMax, packets : SUBSET Packet]
Entry   == [ip : Addr, age : Ages]

NoReq == [age |-> AgeCap, times |-> 0, packets |-> {}]
Free  == [ip |-> "free"]
NoPkt == [id |-> 0]

Init ==
  /\ entries = [s \in Slot |-> Free] /\ requests = [a \in Addr |-> NoReq]
  /\ hand = [t \in Thread |-> NoPkt] /\ stage = [t \in Thread |-> "idle"]
  /\ flushing = {} /\ arp = "sleep" /\ todo = {} /\ failing = {} /\ pending = {}
  /\ slept = FALSE /\ asked = {} /\ accepted = {} /\ settled = {} /\ crashed = FALSE

-----------------------------------------------------------------------------
(* The cache *)

Valid(s) == entries[s] # Free
Cached(a) == \E s \in Slot : Valid(s) /\ entries[s].ip = a

(* A request is on the queue exactly as long as packets wait for it. *)
Queued == {a \in Addr : requests[a].packets # {}}

(* Variant: the ARP thread's walk does not hold the lock. *)
NoLock == ~crashed

(* cache->lock is free: the ARP thread is the only one to keep it for more   *)
(* than one of the steps below.                                              *)
Unlocked == arp = "sleep" /\ ~crashed

(* sr_arpcache_queuereq: the packet joins the request for its next hop, a    *)
(* new one if there is none.                                                 *)
QueueReq(p) == requests' = [requests EXCEPT ![p.dst].packets = @ \cup {p}]

(* Variant: the request stays queued. *)
InsertOnly(a) ==
  /\ UNCHANGED requests
  /\ IF \A s \in Slot : Valid(s)
     THEN UNCHANGED entries
     ELSE \E s \in Slot :
            /\ ~Valid(s) /\ \A k \in 1 .. (s - 1) : Valid(k)
            /\ entries' = [entries EXCEPT ![s] = [ip |-> a, age |-> 0]]

(* sr_arpcache_insert takes the request for the address off the queue and    *)
(* fills the first invalid entry.  No entry is looked for that has the       *)
(* address already, and when all are valid nothing is stored.                *)
Insert(a) ==
  /\ requests' = [requests EXCEPT ![a] = NoReq]
  /\ IF \A s \in Slot : Valid(s)
     THEN UNCHANGED entries
     ELSE \E s \in Slot :
            /\ ~Valid(s) /\ \A k \in 1 .. (s - 1) : Valid(k)
            /\ entries' = [entries EXCEPT ![s] = [ip |-> a, age |-> 0]]

-----------------------------------------------------------------------------
(* Main thread and NAT timeout thread: sending a packet *)

(* Main has a packet to forward or an ICMP message to send, the NAT's        *)
(* timeout thread an ICMP error.                                             *)
Start(t, f) ==
  /\ stage[t] = "idle" /\ ~crashed
  /\ Cardinality(accepted) < MaxPackets
  /\ LET p == [src |-> f.src, dst |-> f.dst, sender |-> f.sender,
               id |-> Cardinality(accepted) + 1, error |-> t = "nat"]
     IN  hand' = [hand EXCEPT ![t] = p] /\ accepted' = accepted \cup {p}
  /\ stage' = [stage EXCEPT ![t] = "lookup"]
  /\ UNCHANGED <<entries, requests, flushing, arp, todo, failing, pending, slept, asked,
                 settled, crashed>>

(* sr_arpcache_lookup: a hit is transmitted. *)
Lookup(t) ==
  /\ stage[t] = "lookup" /\ Unlocked
  /\ IF Cached(hand[t].dst)
     THEN /\ settled' = settled \cup {hand[t]}
          /\ hand' = [hand EXCEPT ![t] = NoPkt]
          /\ stage' = [stage EXCEPT ![t] = "idle"]
     ELSE /\ stage' = [stage EXCEPT ![t] = "queue"]
          /\ UNCHANGED <<hand, settled>>
  /\ UNCHANGED <<entries, requests, flushing, arp, todo, failing, pending, slept, asked,
                 accepted, crashed>>

(* A miss is queued, without looking again. *)
Queue(t) ==
  /\ stage[t] = "queue" /\ Unlocked
  /\ QueueReq(hand[t])
  /\ hand' = [hand EXCEPT ![t] = NoPkt]
  /\ stage' = [stage EXCEPT ![t] = "idle"]
  /\ UNCHANGED <<entries, flushing, arp, todo, failing, pending, slept, asked, accepted,
                 settled, crashed>>

-----------------------------------------------------------------------------
(* Main thread: sr_handle_arp *)

(* The reply of a host that was asked; it may be late, or a duplicate. *)
ArpReply(h) ==
  /\ stage["main"] = "idle" /\ Unlocked
  /\ h \in asked
  /\ Insert(h)
  /\ flushing' = requests[h].packets
  /\ stage' = [stage EXCEPT !["main"] = IF flushing' = {} THEN "idle" ELSE "flush"]
  /\ UNCHANGED <<hand, arp, todo, failing, pending, slept, asked, accepted, settled, crashed>>

(* The packets that waited are transmitted, without the lock, and freed. *)
Flush ==
  /\ stage["main"] = "flush" /\ ~crashed
  /\ settled' = settled \cup flushing
  /\ flushing' = {}
  /\ stage' = [stage EXCEPT !["main"] = "idle"]
  /\ UNCHANGED <<entries, requests, hand, arp, todo, failing, pending, slept, asked,
                 accepted, crashed>>

(* A request teaches the sender's address and is answered.  The request that *)
(* sr_arpcache_insert took off the queue is not looked at: its packets are   *)
(* gone.                                                                     *)
ArpRequest(h) ==
  /\ stage["main"] = "idle" /\ Unlocked
  /\ Insert(h)
  /\ UNCHANGED <<hand, stage, flushing, arp, todo, failing, pending, slept, asked,
                 accepted, settled, crashed>>

-----------------------------------------------------------------------------
(* ARP thread: sr_arpcache_timeout, sr_arpcache_sweepreqs                    *)

Due(a) == requests[a].age > ReqTo

(* Once a second the thread takes the lock, expires the entries that are too *)
(* old, and starts to walk the requests.                                     *)
Wake ==
  /\ slept /\ Unlocked
  /\ slept' = FALSE
  /\ entries' = [s \in Slot |-> IF Valid(s) /\ entries[s].age > EntryTo
                                THEN Free ELSE entries[s]]
  /\ arp' = "walk" /\ todo' = Queued
  /\ UNCHANGED <<requests, hand, stage, flushing, failing, pending, asked, accepted,
                 settled, crashed>>

(* Not due yet. *)
WalkSkip(a) ==
  /\ arp = "walk" /\ a \in todo /\ ~Due(a)
  /\ todo' = todo \ {a}
  /\ UNCHANGED <<entries, requests, hand, stage, flushing, arp, failing, pending, slept,
                 asked, accepted, settled, crashed>>

(* Variant: the number of times is not counted. *)
ResendForever(a) ==
  /\ arp = "walk" /\ a \in todo /\ Due(a) /\ requests[a].times < ReqMax
  /\ requests' = [requests EXCEPT ![a].age = 0]
  /\ asked' = asked \cup {a}
  /\ todo' = todo \ {a}
  /\ UNCHANGED <<entries, hand, stage, flushing, arp, failing, pending, slept, accepted,
                 settled, crashed>>

(* Variant: the comparison with ReqMax is off by one. *)
ResendOnceMore(a) ==
  /\ arp = "walk" /\ a \in todo /\ Due(a) /\ requests[a].times <= ReqMax
  /\ requests' = [requests EXCEPT ![a].age = 0, ![a].times = @ + 1]
  /\ asked' = asked \cup {a}
  /\ todo' = todo \ {a}
  /\ UNCHANGED <<entries, hand, stage, flushing, arp, failing, pending, slept, accepted,
                 settled, crashed>>

(* Due, and not asked ReqMax times: ask once more. *)
WalkResend(a) ==
  /\ arp = "walk" /\ a \in todo /\ Due(a) /\ requests[a].times < ReqMax
  /\ requests' = [requests EXCEPT ![a].age = 0, ![a].times = @ + 1]
  /\ asked' = asked \cup {a}
  /\ todo' = todo \ {a}
  /\ UNCHANGED <<entries, hand, stage, flushing, arp, failing, pending, slept, accepted,
                 settled, crashed>>

(* Variant: the request is destroyed before its packets are answered. *)
DestroyFirst(a) ==
  /\ arp = "walk" /\ a \in todo /\ Due(a) /\ requests[a].times >= ReqMax
  /\ arp' = "fail" /\ failing' = {} /\ pending' = requests[a].packets
  /\ requests' = [requests EXCEPT ![a] = NoReq]
  /\ todo' = todo \ {a}
  /\ UNCHANGED <<entries, hand, stage, flushing, slept, asked, accepted, settled, crashed>>

(* Due, and asked ReqMax times: every packet on the list is answered. *)
WalkFail(a) ==
  /\ arp = "walk" /\ a \in todo /\ Due(a) /\ requests[a].times >= ReqMax
  /\ arp' = "fail" /\ failing' = {a} /\ pending' = requests[a].packets
  /\ todo' = todo \ {a}
  /\ UNCHANGED <<entries, requests, hand, stage, flushing, slept, asked, accepted,
                 settled, crashed>>

(* sr_send_icmp: a host unreachable, from the address of the interface the   *)
(* packet came in by to the packet's source.                                 *)
ErrorFor(p) ==
  [src |-> p.sender, dst |-> p.src, sender |-> p.sender, id |-> p.id, error |-> TRUE]

(* Inside the walk the error is sent, or queued: perhaps on the very request *)
(* that is about to be freed, where the walk does not see it any more.       *)
FailOne(p) ==
  /\ arp = "fail" /\ p \in pending
  /\ pending' = pending \ {p}
  /\ settled' = settled \cup {p}
  /\ IF Cached(p.src) THEN UNCHANGED requests ELSE QueueReq(ErrorFor(p))
  /\ UNCHANGED <<entries, hand, stage, flushing, arp, todo, failing, slept, asked,
                 accepted, crashed>>

(* sr_arpreq_destroy, and the next pointer read from the freed request: it   *)
(* still holds the old value or, when the memory was used again, garbage.    *)
Destroy ==
  /\ arp = "fail" /\ pending = {}
  /\ requests' = [a \in Addr |-> IF a \in failing THEN NoReq ELSE requests[a]]
  /\ failing' = {}
  /\ \/ arp' = "walk" /\ UNCHANGED crashed
     \/ arp' = "dead" /\ crashed' = TRUE
  /\ UNCHANGED <<entries, hand, stage, flushing, todo, pending, slept, asked, accepted,
                 settled>>

(* The end of the list: the lock is released. *)
WalkEnd ==
  /\ arp = "walk" /\ todo = {}
  /\ arp' = "sleep"
  /\ UNCHANGED <<entries, requests, hand, stage, flushing, todo, failing, pending, slept,
                 asked, accepted, settled, crashed>>

(* A second passes. *)
Older(age) == IF age < AgeCap THEN age + 1 ELSE age

Tick ==
  /\ arp = "sleep" /\ ~slept /\ ~crashed
  /\ slept' = TRUE
  /\ entries' = [s \in Slot |-> IF Valid(s) THEN [entries[s] EXCEPT !.age = Older(@)]
                                ELSE Free]
  /\ requests' = [a \in Addr |-> [requests[a] EXCEPT !.age = Older(@)]]
  /\ UNCHANGED <<hand, stage, flushing, arp, todo, failing, pending, asked, accepted,
                 settled, crashed>>

-----------------------------------------------------------------------------
ArpThread ==
  \/ Wake
  \/ \E a \in Addr : WalkSkip(a) \/ WalkResend(a) \/ WalkFail(a)
  \/ \E p \in pending : FailOne(p)
  \/ Destroy
  \/ WalkEnd

Send(t) == Lookup(t) \/ Queue(t)

Next ==
  \/ \E f \in Traffic : Start("main", f)
  \/ \E f \in Unsolicited : Start("nat", f)
  \/ \E t \in Thread : Send(t)
  \/ \E h \in Host : ArpReply(h)
  \/ Flush
  \/ \E h \in Asking : ArpRequest(h)
  \/ ArpThread
  \/ Tick

Spec == Init /\ [][Next]_vars

(* Time passes, the ARP thread runs when it is woken, and a thread waiting   *)
(* for the lock gets it some time: the ARP thread lets go of it for a second *)
(* after every walk, so SF is no more than what the scheduler gives.         *)
FairSpec ==
  /\ Spec /\ WF_vars(ArpThread) /\ WF_vars(Tick) /\ WF_vars(Flush)
  /\ \A t \in Thread : SF_vars(Send(t))

-----------------------------------------------------------------------------
(* Properties *)

TypeOK ==
  /\ entries \in [Slot -> Entry \cup {Free}] /\ requests \in [Addr -> Request]
  /\ hand \in [Thread -> Packet \cup {NoPkt}]
  /\ stage \in [Thread -> {"idle", "lookup", "queue", "flush"}]
  /\ flushing \subseteq Packet /\ arp \in {"sleep", "walk", "fail", "dead"}
  /\ todo \subseteq Addr /\ failing \subseteq Addr /\ pending \subseteq Packet
  /\ slept \in BOOLEAN /\ asked \subseteq Addr /\ accepted \subseteq Packet
  /\ settled \subseteq Packet /\ crashed \in BOOLEAN

(* While an address is cached, the only packets that wait for it are ICMP    *)
(* errors: main looks up and queues without another main step between, so    *)
(* only the NAT thread's or the walk's packets can miss an entry that came   *)
(* in the meantime.  A forwarded packet is never held back from a next hop   *)
(* the router knows.                                                         *)
PendingUncached ==
  \A a \in Addr : Cached(a) => \A p \in requests[a].packets : p.error

Waits == UNION {requests[a].packets : a \in Addr}
InHand == {hand[t] : t \in Thread} \cup flushing \cup pending

Lost == {p \in accepted : p \notin settled \cup Waits \cup InHand}

(* The router loses no packet: one that was accepted is in a thread's hand,  *)
(* waits on a request, or was transmitted or answered with an ICMP error.    *)
(* The exception is a next hop that sends an ARP request of its own while    *)
(* packets wait for it (sr_router.c:219).                                    *)
Accounted == \A p \in Lost : p.dst \in Asking \/ p.error

(* What the threads hold at each stage. *)
Hands ==
  /\ \A t \in Thread : IF stage[t] \in {"lookup", "queue"} THEN hand[t] \in Packet
                                                         ELSE hand[t] = NoPkt
  /\ stage["nat"] # "flush"
  /\ hand["nat"] # NoPkt => hand["nat"].error
  /\ stage["main"] # "flush" => flushing = {}
  /\ IsFiniteSet(accepted)

(* A packet waits for its own next hop.  Those of a request that is given up *)
(* are answered, still to be answered, or errors that came in meanwhile.     *)
Walk ==
  /\ arp # "fail" => pending = {}
  /\ \A a \in Addr : \A p \in requests[a].packets : p.dst = a
  /\ arp = "fail" =>
       \A a \in failing : \A p \in requests[a].packets :
         p.error \/ p \in pending \cup settled

(* What main has looked up in vain has not been inserted since. *)
Missed == stage["main"] = "queue" => ~Cached(hand["main"].dst)

(* The safety of the cache, as one inductive invariant. *)
CacheInv == Walk /\ Missed /\ PendingUncached /\ Accounted

(* The same without the exception: sr_arpcache.h:51-53 promises "ICMP host   *)
(* unreachable back to all packets waiting on this ARP request".             *)
AllAnswered == \A p \in Lost : p.error

Owed(i) == \E p \in accepted : p.id = i /\ ~p.error /\ p.dst \notin Asking
Paid(i) == \E p \in settled : p.id = i /\ ~p.error

(* Every packet that main accepts is transmitted or answered, whatever       *)
(* answers come or do not come: a request is asked for a bounded number of   *)
(* times, and packets queued by a walk for a later one are not forgotten.    *)
Delivered == \A i \in 1 .. MaxPackets : Owed(i) ~> (Paid(i) \/ crashed)

(* The queue runs empty once no more packets come in, although an error      *)
(* about a packet whose source cannot be resolved is queued for the router's *)
(* own address, and its error too: the chain of errors about errors ends.    *)
Drained == []<>(Queued = {} \/ crashed)

=============================================================================
