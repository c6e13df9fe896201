# A formal model of the NAT router

This directory holds TLA+ modules that model the software router of
`src/router`, TLC configurations that check them on small instances, and proofs
checked by TLAPS. The program is a user-space IPv4 router with ARP, ICMP and a
network address translator (NAT). It talks to an emulated network through a TCP
session with a VNS server and runs three threads on shared tables.

## 1. The system

### Components

| Component | Source | State | Operations |
|---|---|---|---|
| NAT table | `sr_nat.c`, `sr_nat.h` | list of mappings, a list of connections under each, list of unsolicited packets, bitmap of external ids, `nat->lock` | lookups by internal pair and external id, insert mapping, insert and update connection, insert and remove unsolicited packet, timeout thread |
| TCP tracking | `_determine_state` | one state per connection | next state from flags |
| NAT handlers | `nat_handle_tcp`, `nat_handle_icmp` | a copy of a mapping, the packet | translate in and out |
| ARP cache | `sr_arpcache.c` | 100 entries, queue of requests with their packets, `cache->lock` | lookup, queue, insert, destroy, ARP thread |
| ARP handling | `sr_handle_arp` | none | request, reply |
| IP and ICMP | `sr_handle_ippacket`, `sr_forward_ippacket`, `sr_send_icmp` | none | deliver, forward, report an error |
| Routing table | `sr_rt.c` | list of routes, fixed after start-up | `sr_rt_lookup` |
| Interfaces | `sr_if.c` | list of interfaces, filled by the hardware message | add, get |
| VNS session | `sr_vns_comm.c` | one socket, the handshake | connect, read a command, send a packet |
| Start-up | `sr_main.c`, `sr_init` | options, threads | parse, initialise, main loop |
| Helpers | `sr_utils.c`, `sha1.c`, `sr_dumper.c` | none | checksum, private address test, printing |

`PROJECT.json` lists these and the parts outside the router (POX module,
topology scripts) with what is modelled of each.

### How they interact

* The **main thread** reads a command from the socket and handles one packet to
  its end: ARP, or IP, then the NAT handler, then forwarding. It takes `nat->lock` and
  `cache->lock` once per table operation and keeps neither from one operation to
  the next. What it carries over are copies.
* The **NAT thread** (`sr_nat_timeout`) wakes once a second, holds `nat->lock`
  for one round, frees old mappings, connections and unsolicited packets, and
  sends ICMP errors, which takes `cache->lock` inside `nat->lock`.
* The **ARP thread** (`sr_arpcache_timeout`) wakes once a second, holds
  `cache->lock` for one round, expires entries, resends requests or gives them
  up, and sends ICMP errors, which takes the same recursive lock again.
* All three write packets to the same socket, without a lock.

### What is hard

* A packet's handling is a sequence of critical sections; the NAT thread frees
  what main is about to use: a mapping without connections yet, the list behind
  a copy's `conns` pointer, a node under an unlocked walk.
* External ids are a finite resource with a bitmap that has to agree with the
  list across insertion, expiry and exhaustion.
* An ARP request's packets have several fates (reply, retry, error, loss), and
  an error about a packet is a packet that needs resolution itself.
* Liveness rests on two timeout threads.

`PROJECT.json` "hazards" gives each one at its line, with the properties that
cover it or the reason why none does.

### What makes each component correct

* NAT table: an internal pair has one mapping; an external id has one; the
  bitmap tells exactly which ids are in use; a packet is never translated with a
  copy that the table contradicts; connections belong to the pair that opened
  them; nothing is forgotten early, everything is forgotten in the end.
* TCP tracking: what the NAT calls established or closed is true of the two
  ends, whatever the links do to their segments.
* ARP cache: a packet is transmitted, answered, or still waiting; none waits for
  an address that is known; requests are retried a bounded number of times and
  the queue drains.
* IP path: an answer reaches the host that asked whatever else is mapped, no private address gets out,
  what a host receives has valid checksums, a request is answered or refused.
* Session and threads: the router starts with consistent tables, ends for a
  reason outside of it, and its threads never wait in a circle.

## 2. The modules

| Module | Models | Composes |
|---|---|---|
| `TcpState` | `_determine_state` | |
| `NatTable` | `sr_nat.c` and the table operations of the two NAT handlers; main against the NAT thread | `TcpState`; implements `Bindings` |
| `NatTableProofs` | theorems about `NatTable` | `NatTable`, `Bindings` |
| `Bindings` | abstract: what a NAT promises its hosts | |
| `IdBitmap` | the bitmap as signed words | implements `IdPool` |
| `IdPool` | abstract: a pool of ids | |
| `IdBitmapProofs` | theorems about `IdBitmap` | `IdBitmap`, `IdPool` |
| `ArpCache` | `sr_arpcache.c`, `sr_handle_arp`, the resolution in `sr_forward_ippacket` and `sr_send_icmp`; main, NAT and ARP threads | |
| `ArpCacheProofs` | theorems about `ArpCache` | `ArpCache` |
| `TcpTracker` | one TCP connection through the NAT, with both ends and lossy links | `TcpState` |
| `TcpTrackerProofs` | theorems about `TcpTracker` | `TcpTracker` |
| `IpPath` | a packet's way through `sr_handlepacket`, `sr_handle_ippacket`, the NAT handlers and `sr_forward_ippacket`, with `cksum`, `is_private_ip` and `sr_rt_lookup` | `Bindings` |
| `IpPacketProofs` | theorems about the packets and checksums of `IpPath` | `IpPath` |
| `IpPathProofs` | theorems about who gets what in `IpPath` | `IpPacketProofs` |
| `VnsSession` | `main`, `sr_vns_comm.c`, `sr_if.c`, the loading of `sr_rt.c`, the server's side of the session | |
| `SrThreads` | `sr_init`, the three threads' order of locks and writes, the socket | `VnsSession` |
| `SrThreadsProofs` | theorems about the threads of `SrThreads` | `SrThreads` |
| `VnsSessionProofs` | theorems about the session, under all steps of `SrThreads` | `SrThreadsProofs` |
| `MC*` | instances for TLC | |

The modules are cut where the code holds a lock. `NatTable` and `ArpCache` look
at what goes on between two critical sections. `IpPath` and `TcpTracker` take a
packet's handling as one step; that the NAT's table may be seen as the function
`bind` of `Bindings` in spite of its several critical sections is what
`NatTable` implements (`ImplementsBindings`). `SrThreads` has the locks and
writes of the same handlers without the data, so that the order of the two locks and
the interleaving of frames are explored for all of them together.

## 3. NatTable

### State

| Variable | Code |
|---|---|
| `mappings` | the list `nat->mappings`; `born` orders it, newest first |
| `conns` | the `conns` lists of all mappings; `owner` is the mapping's `born` |
| `bitmap` | ids whose bit is set in `nat->bitmap` |
| `unsol`, `unsolFreed` | the list `nat->unsol_pkt`; whether its head pointer leads to a freed node |
| `pc`, `pkt`, `copy`, `cursor` | the main thread: what it does next, its packet, its copy of a mapping, the node its unlocked walk has reached |
| `slept` | a second has passed since the NAT thread last ran |
| `alloc` | list nodes allocated, the source of `born` |

`born` is not in the code. It stands for list position and node identity: a
pointer to a node that was freed is a serial number that no node has any more.

### Actions

| Action | Code |
|---|---|
| `Receive`, `PrintMapping`, `PrintFreed` | entry of `nat_handle_*`, which walks the list in `print_sr_mapping` without the lock |
| `LookupInternal`, `LookupExternal` | the lookups and the branches after them |
| `InsertMapping` | `sr_nat_insert_mapping` with `find_next_id` |
| `InsertConnection`, `InsertConnectionNull` | `sr_nat_insert_connection`, with the removal of an unsolicited packet; the NULL it returns when the mapping is gone, which the caller reads through |
| `UpdateConnection`, `UpdateConnectionNull`, `UpdateFreed` | `sr_nat_update_connection`: found, not found (the packet is buffered), list freed |
| `BufferUnsolicited` | `sr_nat_insert_unsolicited_packet` for a SYN without a mapping |
| `UnsolicitedFreed`, `UnsolicitedLost` | a walk of the unsolicited list that starts at a freed node: it faults or goes round for good; or it ends early, or goes on further down, and what is before that is lost |
| `Translate` | rewriting the packet, including the use of a route that may not exist |
| `Timeout` | one round of `sr_nat_timeout` |
| `Tick` | a second |

One step of main is one critical section, so the NAT thread can run wherever
the lock is free. Reads of freed memory are undefined behaviour; they either
return what the node held, or something that does not match, or end the process
(`pc = "crashed"`). All properties hold up to such an end and the model keeps the states
after it.

### Abstractions

* Internal (address, port or identifier) pairs and peers are model values. The
  router has one external address, so an inbound segment names its destination
  by the id alone.
* Packets between two internal or two external hosts touch no table and are left
  out; an ICMP query is modelled only when it has a route (`nat_handle_icmp` does
  nothing without).
* Ages replace time stamps and stop at `AgeCap`, one above the largest timeout;
  all comparisons in the code are with `>`, so greater ages are the same.
* `TOTAL_PORTS - 1` is `LastId`. `find_next_id` returns -1 when no id is free
  and the 16-bit field makes it 65535, the last id; properties that need
  uniqueness say `# LastId`, and `Bindings` gives the last id to several pairs.
* `Stray`: nothing initialises `nat->unsol_pkt` (`sr_nat_init` and
  `sr_init_instance` do not, and `struct sr_instance` is on main's stack). With
  `TRUE` in `Stray` the list may start at memory that is not its own, which is
  the same as a head that was freed.
* Copies of mappings that an early return does not free are leaks with no
  observer; they are left out, like all printing.

### Properties

| Property | Kind | Says |
|---|---|---|
| `TypeOK` | invariant | types |
| `InternalPairUnique` | invariant | one mapping per internal pair, though lookup and insertion are two critical sections |
| `ExternalIdUnique` | invariant | two mappings share no id below the last |
| `BitmapExact` | invariant | a bit is set exactly while a mapping has the id |
| `CopyNotContradicted` | invariant | while main holds a copy, no other pair owns its id |
| `ConnectionBelongsToOpener` | invariant | a connection is below the mapping of the pair that opened it |
| `BareMappingInFlight` | invariant | a TCP mapping without connections is being made |
| `ImplementsBindings` | refinement | seen as a function from internal pairs to ids, the table only ever binds an unbound pair to the lowest free id, or unbinds |
| `QueryReclaimed`, `ClosedReclaimed`, `UnsolicitedAnswered` | liveness | ICMP mappings, closed connections and answerable unsolicited packets go away |

`UnsolicitedAnswered` makes an exception of a list whose head was freed
(`unsolFreed`). What the documents say and the code does not do is stated by
action properties of their own, each violated in a run of its own:

| Property | Says |
|---|---|
| `ConnectionReturned` | the connection that main inserts is there when it uses it |
| `EstablishedKept` | an established connection is freed only after the established timeout |
| `InboundSynDropped` | an outbound SYN drops the inbound SYN that it answers |

Two more are in the model without a property. `sr_nat_update_connection` looks for a
connection to the very peer of the segment, and a mapping gets its only connection when it
is inserted: an outbound segment to a second peer finds none, is buffered as an unsolicited
inbound SYN and refused in the end, although the repository's README calls the
mappings endpoint independent. And `sr_nat_remove_unsolicited_packet` leaves
`nat->unsol_pkt` at the node it freed: a walk from there may end the process, end early
and lose the packets behind it (`UnsolicitedLost`), or find them unharmed.

`CopyNotContradicted` is the reason the unlocked gap is harmless to the
translation: the id of a freed mapping can be reused only by an insertion, and
main is the only thread that inserts. A second packet-handling thread would
break it.

## 4. ArpCache

### State

| Variable | Code |
|---|---|
| `entries` | `cache->entries`; the MAC address is left out |
| `requests` | `cache->requests`, as a function of the address: `sr_arpcache_queuereq` searches the list under the lock before it adds to it, so an address is on it once. A request is there exactly as long as packets wait on it |
| `hand`, `stage` | the packet main or the NAT thread is sending, and how far it is |
| `flushing` | the packets of a request that main took off the queue to transmit |
| `arp`, `todo`, `failing`, `pending` | the ARP thread: asleep, walking, giving a request up; requests still to visit; the one given up; its packets still to be answered |
| `slept`, `asked` | a second has passed; addresses asked for, from which a reply may come |
| `accepted`, `settled` | history: packets started, packets transmitted or answered |
| `crashed` | the process ended on a pointer read from freed memory |

### Actions

| Action | Code |
|---|---|
| `Start`, `Lookup`, `Queue` | `sr_forward_ippacket` and `sr_send_icmp`: a packet, `sr_arpcache_lookup`, and for a miss `sr_arpcache_queuereq`, two critical sections |
| `ArpReply`, `Flush` | the reply branch of `sr_handle_arp`: `sr_arpcache_insert`, then the packets of the request, without the lock |
| `ArpRequest` | the request branch: `sr_arpcache_insert`, whose result is dropped |
| `Wake` | expiry of entries and start of the walk, lock taken |
| `WalkSkip`, `WalkResend`, `WalkFail` | `sr_handle_arpreq_queue`: not due, asked again, given up |
| `FailOne` | `sr_send_icmp` for one packet of the request given up |
| `Destroy` | `sr_arpreq_destroy`, then `req->next` of the freed request |
| `WalkEnd` | lock released |
| `Tick` | a second |

While `arp` is not `"sleep"` the ARP thread holds the lock and the other threads'
critical sections wait (`Unlocked`), but not `Flush`. The walk's order is left open: the
properties do not depend on it.

### Properties

| Property | Kind | Says |
|---|---|---|
| `TypeOK` | invariant | types |
| `PendingUncached` | invariant | only ICMP errors can wait for an address that is cached |
| `Accounted` | invariant | a forwarded packet is in a hand, waits, or was transmitted or answered; except when its next hop sends an ARP request |
| `Delivered` | liveness | a forwarded packet is transmitted or answered in the end, same exception |
| `Drained` | liveness | the queue runs empty, although errors about errors are queued for the router's own address |

`Drained` holds for a reason that is easy to lose: the error about a packet whose
source is the router itself is queued on the very request that is about to be
destroyed, and goes with it. If the request were destroyed before its packets
were answered, the router would ask for its own address for ever.

## 5. TcpTracker

Two ends as in RFC 793, which are not in the repository, exchange segments
without data over four directed links: client to NAT (`cn`), NAT to server
(`ns`) and back (`sn`, `nc`). `net` is a set, so segments overtake each other;
`Lose`, `Take` and `Resend` lose, repeat and retransmit.

| Variable | Code |
|---|---|
| `conn`, `port` | `state` of the connection and `aux_ext` of its mapping |
| `end`, `peer` | the ends; the port by which the server knows the client |
| `first`, `fins`, `opened` | history: what made the mapping, what has passed through it |
| `forgot` | history: an idle connection was freed, or an end gave up |

`Outbound` and `Inbound` are `nat_handle_tcp` with `sr_nat_insert_connection` or
`sr_nat_update_connection`; `ClearClosed` and `Forget` are the two reasons of
`sr_nat_timeout`. A mapping that is made anew may get another port.

| Property | Kind | Says |
|---|---|---|
| `ClosedMeansBoth` | invariant | CLOSED is reached only when both ends have closed, unless one end's FIN passed twice: the code takes two FINs for one of each side |
| `EstabNeedsAnswer` | invariant | ESTAB and later states need a SYN with ACK of the server through this very mapping |
| `OrderlyEndIsClosed` | invariant | a close without loss leaves CLOSED or nothing behind, whichever end is first and whatever overtakes; or a mapping made by a last ACK that came after the round |
| `Reclaimed` | liveness | the mapping goes away whatever is lost |

Without the exception for repeated FINs `ClosedMeansBoth` fails: a
retransmitted FIN of one end takes the NAT from FIN_WAIT_1 to CLOSING, and its
ACK to CLOSED, while the other end still sends.

## 6. IpPath

| Variable | Code |
|---|---|
| `bind`, `conns`, `unsol` | the NAT's mappings (as `Bindings`), connections and unsolicited packets |
| `waiting` | packets queued for a next hop that does not answer |
| `wire` | packets on the links; every host has a link of its own, as in `lab5.py` |
| `nat` | `sr->nat_enabled` |
| `sent`, `got` | packets that hosts have started and received |
| `up` | the process has not ended |
| `late` | history: requests that outlived the mapping they used |

`Handle` has one action per way through `sr_handle_ippacket`: for the router
itself `EchoToRouter`, `IcmpToRouter`, `TcpToRouter`, `OtherToRouter`; for others
`Expired`, `IcmpOn`, `TcpOn`, `OtherOn`; `Reject` for a frame or header that is
refused; `TcpUnrouted` for a peer without a route, on which the code follows a
null pointer. `Forward` is `sr_forward_ippacket`, `Icmp` is `sr_send_icmp`, `GiveUp`,
`AnswerUnsolicited` and `Expire` are what the timeout threads do. `Expire` frees
any mappings at any time: the time stamp of an ICMP mapping is set when it is
made (`sr_nat.c:284`) and by nothing that uses it, so it is freed a minute later
with packets under way, and a closed connection within a second. `late` remembers the
packets whose mapping was freed under them.

Addresses and header words are numbers below `Word`, so that masks, carries and
the complement are computed as the code does: a mask of 0 loses against the
initial 0 of `sr_rt_lookup`, a checksum of 0 becomes all ones. The body of a
packet is the list of what its checksum covers.

| Property | Kind | Says |
|---|---|---|
| `AnswersReachAsker` | invariant | an answer given to an internal host is given to the one that asked, with its own identifier or port; unless the mapping was freed with the request or the answer under way |
| `PrivateHidden` | invariant | no external host receives ICMP or TCP from a private address |
| `ChecksumsHold` | invariant | what hosts receive has right checksums, and no damaged header was made good by recomputation |
| `Settled` | liveness | an internal host's echo request is answered or refused by an ICMP error, with the same exception |

`Settled` names what the code does not settle: a header whose checksum is zero
is dropped as corrupt, because `cksum` turns zero into all ones (`Dropped`); and
with the NAT on the error about a host that is down is addressed to the
translated source, the router itself, and ends there.

The exception of `AnswersReachAsker` is not an empty one: without it two packets suffice for the id
of a host whose ping is under way to go to another host, which gets the reply. Packets that are
sent after `Expire`, with the id another pair's, are not excepted. `OnlyAnswersComeIn`
is violated by a ping from outside.

## 7. VnsSession and SrThreads

`VnsSession` has main from its start to its loop (`pc`), with one action for
every command in every place it can be read: `LoadFirst`, `Connect`,
`AuthRequest`, `AuthStatus`, `Open`, `Rtable`, `LoadSecond`, `HandleHwinfo`,
`HandleClose`, `PacketRead`, `PacketLost` and `Unexpected`. `ifs` is `if_list`, `routes`
the interfaces of `routing_table`. The routing table on the command line is any
of `Tables`: missing, empty, or with routes that do or do not fit the hardware.
The server is `srhandler.py`, extended by what the router expects of a VNS
server: a refusal of the authentication, and an RTABLE, which main writes to a file
(`writable`).

`SrThreads` adds `sr_init` (`SrInit`), and for each of the three threads a script of
what it still has to lock, unlock and write (`todo`). `PacketScripts`, `NatScripts` and
`ArpScripts` are the scripts that the handlers and the rounds can amount to.
A frame has two parts; the buffer of the socket holds `Room` of them. `write` of a
blocking socket puts both in if there is room, or waits with one, when another
thread's frame can come in between. The handler of an IP packet may end the process on a null
connection or route, or on a freed node (`PacketFaults`: `sr_router.c:458`, `:474`, `:431`,
`sr_nat.c:384`), and so may a round (`RoundFaults`: `sr_arpcache.c:39`, the unsolicited list,
or tables that are not set yet). `NatTable` and `ArpCache` say when; here they may at any time.

| Property | Kind | Says |
|---|---|---|
| `ReadyMeansKnown` | invariant | after HWINFO every interface has its own addresses and every route an interface |
| `EndsForAReason` | invariant | unless a handler or a round faults: a crash needs a packet before HWINFO; an end needs a CLOSE, a packet before HWINFO, a refusal, a bad file, one that cannot be written, a missing key or a server that is gone |
| `NoCircularWait` | invariant | no two threads wait for each other's lock |
| `Drained` | liveness | every command is read and every script ends, unless the server has stopped |

The exception of `Drained` is the loop of `sr_read_from_server_expect`, in which
`recv` returns 0 for ever. The server does not always read whole frames: a
thread that waits half-way in `write` lets another one's frame in. The server closes on it then
(`ServerReadFrame`), which is one of the reasons of `EndsForAReason`.

A timeout thread sleeps for a second before each round, and only that keeps its first one from
tables that `sr_nat_init` has not set: `Awake` does not, so a round may come before them.

## 8. The runs

| Run | Expect | Bounds | Shows |
|---|---|---|---|
| `nat_table` | pass | 3 internal pairs, 2 peers (one without a route), 2 ids, 5 nodes | uniqueness, copies, connections, exhaustion and reuse of ids, refinement of `Bindings` |
| `nat_table_live` | pass | 1 pair, 1 peer, 4 nodes, `Stray` both ways, `FairSpec` | reclamation |
| `nat_null_connection` | violation | 1 pair | the NAT thread frees a mapping between its insertion and its connection's; NULL is read through |
| `nat_estab_timeout` | violation | 1 pair | an established connection is freed after the transitory timeout |
| `nat_inbound_syn` | violation | 1 pair | an outbound SYN does not remove the inbound SYN it answers |
| `arp_cache` | pass | 2 hosts, 2 interfaces, 2 entries, 2 packets, 2 tries, `FairSpec` | packets are kept, delivered or answered; the queue drains |
| `arp_request_drops` | violation | the same | an ARP request from the awaited host loses the packets that wait for it |
| `id_bitmap` | pass | words of 4 bits, 12 ports, ids from 4 | the words implement the pool, sign bit and exhaustion included |
| `tcp_tracker` | pass | 2 ports, one segment each lost, repeated, sent again, `FairSpec` | what the NAT calls ESTAB and CLOSED, reclamation |
| `ip_path` | pass | 5 hosts, 28 packets of which any 2 are started, NAT on and off, `FairSpec` | answers, hiding, checksums, settlement |
| `ip_direct_ping` | violation | the same, NAT on | an external host's ping to an internal address is forwarded |
| `session` | pass | 2 interfaces, 4 files, 1 packet, 1 round of each thread, room for 3 parts, `FairSpec` | start, end and locks |

`PROJECT.json` "findings" quotes, for each violation, the comment or document
that says otherwise.

### Bounds

* `MaxAlloc`: a packet allocates at most two nodes. Five nodes allow two mappings
  with their connections and one more insertion after one of them was freed, so an id is
  freed and taken again, under a copy that is still held.
* Two ids and three internal pairs are the smallest instance in which ids run
  out and one is reused. Two ids in which the second is the last one leave one
  id for which uniqueness is claimed; the proofs cover all others.
* Timeouts of one and two seconds with `AgeCap` one above the greatest make
  every comparison come out both ways. Two different TCP timeouts tell
  the established and the transitory one apart.
* The flag sets open, establish and close a connection from both sides.
* `ArpCache`, `MaxPackets = 2`: one data packet and one ICMP error of the NAT
  thread, or two packets for one next hop. Two entries and two hosts let an
  address be cached twice and the cache be full. `ReqMax = 2` has a retry that
  is not the last.
* `WordBits = 4` and three words: a word below `DEFAULT_ID` that must stay
  untouched, and two in which a search crosses from one to the next; the bits are
  a first, inner and last (sign) one.
* `TcpTracker`: one fault of each kind suffices for every pair of them to
  meet; two ports let a mapping come back under another id.
* `IpPath`, `MaxSent = 2`: two packets under way together are two hosts with one
  identifier, an identifier that is also a port, a packet that finds or misses
  the mapping of another. `Word = 16` and `TtlMod = 16` have carries, complements of zero and
  a TTL that wraps. The nets have a longest prefix that is not first in the
  table, and a default route.
* `SrThreads`: `Room = 3` holds one frame and a half, the smallest buffer in which a
  write waits half-way; one round and one packet put all three threads in
  their scripts at once.
* Symmetry is used over internal pairs, in safety runs only.
* The runs switch deadlock checking off because a bounded number of nodes, packets or rounds and
  the end of the process stop the system; `id_bitmap` leaves it on.

### Fairness

* `NatTable`: `WF(Tick)` and `WF(Timeout)`. Time passes, `sleep(1.0)` returns,
  and `nat->lock` is held by main only for the length of one list operation. Nothing is
  assumed of main or of the network.
* `ArpCache`: weak fairness of time, of the ARP thread and of `Flush`, which
  waits for nothing; strong fairness of the critical sections of main and the NAT
  thread, since the lock they wait for is taken and released by the ARP thread
  over and over. The ARP thread sleeps a second with the lock free after every
  round, so a thread that waits does get it. No host is assumed to answer.
* `TcpTracker`: weak fairness of the router, of delivery and of the ends' timers.
  Nothing makes an end open, close or send again.
* `IpPath`: weak fairness of "some packet on a link is handled" and of "some
  waiting packet is given up": main handles what it reads, the threads go round.
* `SrThreads`: weak fairness of main, of each thread's steps and of the server's
  reads. A lock is held by one script, which ends, so weak fairness is enough for a
  bounded number of rounds.

### Assumptions about time

`Forget` of `TcpTracker` frees an idle connection only when no packet with its port is under
way: the TCP timeouts (300 and 7440 seconds, set anew by every segment) outlast a packet's life
and the time an end waits before it retransmits. Nothing else is assumed: `Expire` of
`IpPath` and the timeout threads of `SrThreads` may come at any time.

### Sensitivity

A module holds operators commented "Variant": a definition with a plausible
mistake. With the variant in its place the property named in
`PROJECT.json` "mutants" fails, so every checked property depends on the code it
is about.

## 9. The proofs

`NatTableProofs` proves, for every set of hosts, every range of ids, every
choice of timeouts and any number of nodes:

| Theorem | States |
|---|---|
| `TypesHold` | `TypeOK`, and that each step of main has the packet and copy it uses |
| `TableSafe` | the inductive invariant `TableInv` |
| `MappingsUnique`, `BitsMatchMappings`, `CopiesHold`, `ConnectionsHold` | its parts |
| `TableBinds` | `ImplementsBindings`: `NatTable` implements `Bindings` |

The only assumption is `NatAssumption`: ids form a non-empty range, timeouts are
below `AgeCap`, segments carry known flags. TLC evaluates it in every run.

The argument. `TypeInv` is `TypeOK` with `AtHand`, what main holds at each `pc`;
without it an action that reads `pkt.int` has no type. None of the safety
properties is inductive alone. `TableInv` adds

* `Numbered`: serial numbers are unique and below `alloc`, so a new node is
  different from all and newest;
* `HalfMade`: between the failing lookup and the insertion the pair stays
  unmapped, because only main inserts; between the two insertions the new mapping, if it
  is still there, is the newest mapping and has no connection, so
  `sr_nat_insert_connection`, which searches by port, finds that one;
* `BitmapExact` and `ExternalIdUnique` need each other: a free bit means an
  unused id, and freeing a mapping may clear the bit only since no other
  mapping has the id;
* `CopyNotContradicted` follows for an insertion from `copy = NoCopy` and for
  expiry from mappings only becoming fewer.

Most steps leave mappings, connections and bits alone; `QuietKeeps` proves the
invariant for all of them at once. One lemma each does `LookupKeeps`,
`InsertMappingKeeps`, `InsertConnectionKeeps`, `UpdateConnectionKeeps`, and the
timeout round and the clock; `NextTable` puts them together.

`TableBinds` rests on that invariant. `FnOf` reads a set of mappings as a
function, which it is by `InternalPairUnique`. An insertion then is a `Bind`:
`HalfMade` says that the pair is unbound, and the id that `find_next_id` takes
is the lowest free one since by `BitmapExact` the free bits are the unused
ids. A round of the timeout thread is an `Unbind` of the pairs it frees; every
other step stutters (`TickBindsNothing`, `NextBinds`).

`ArpCacheProofs` proves, for every set of hosts and of interfaces of the router,
every traffic, any number of entries, tries and packets:

| Theorem | States |
|---|---|
| `TypesHold` | `TypeOK`, and `Hands`: what a thread holds in each stage |
| `CacheSafe` | the inductive invariant `CacheInv` |
| `KnownNotAwaited` | `PendingUncached` |
| `NoPacketLost` | `Accounted` |

The only assumption is `ArpAssumption`: numbers are natural, timeouts are below
`AgeCap`, hosts and the router's addresses are different, traffic names known
addresses.

The argument. `Accounted` says where every packet is, so each step that takes a
packet from one place has to put it in another; `NoneLost` is that reduction. It needs

* `Walk`: a packet waits under its own next hop, and while a request is given
  up each packet on it was answered, is still to be, or is an error that
  joined meanwhile. Without it `sr_arpreq_destroy` could take a packet with it. It
  also says why an ARP reply from a host finds the packets for that host and no
  others;
* `Missed`: when main has looked an address up in vain, the address stays
  unknown until main queues the packet, because main alone calls
  `sr_arpcache_insert`. Without it the packet could wait for a known address, and
  `PendingUncached` would fail. For the NAT thread there is no such fact, which is
  why errors are excepted.

One lemma (`StartKeeps`, `LookupKeeps`, ..., `TickKeeps`) shows that each action
keeps `CacheInv`; `NextCache` puts them together.

`IdBitmapProofs` proves, for words of any width and any number of ports:

| Theorem | States |
|---|---|
| `WordsAreInts` | `TypeOK`: a word stays a signed integer of its width |
| `BitmapIsPool` | `ImplementsPool`: the words implement `IdPool` |

It assumes `BitmapAssumption`: widths are positive, `DEFAULT_ID` and `TOTAL_PORTS` begin
a word. The argument: a word is a sum of the powers of two of its bits, of which the
sign bit's is negative. `>>` of a negative word keeps the sign, so bit `j` is the
parity of `word \div Two[j]`, rounded down; adding or taking away `One(j)` changes that
parity for `j` and for no other bit. With this, setting the bit of the first clear
port below the scan is `Allocate` of the lowest free id, clearing one is `Release`, and a
scan that finds nothing is `Exhausted`. `BitmapInv` adds that no port below
`DEFAULT_ID` is set. `Two` is a recursive function; that it satisfies its equation is
shown first, because a function that does exists for every bound.

`TcpTrackerProofs` proves, for any set of ports and any number of segments
sent again, lost and repeated:

| Theorem | States |
|---|---|
| `TypesHold` | `TypeOK` |
| `EstabIsAnswered` | `EstabNeedsAnswer` |
| `ClosedByBoth` | `ClosedMeansBoth` |
| `OrderlyEndCloses` | `OrderlyEndIsClosed` |

The only assumption is `TrackerAssumption`: ports are positive, the bounds are
natural.

* `EstabIsAnswered`: the connection leaves SYN_SENT only by a SYN with ACK
  (`DetermineStep`), so that segment has to come from the server after it heard of the
  client. `Wire` says so of every SYN with ACK under way, and follows because an end
  sends one only in SYN_RCVD, which the server reaches by a SYN and, by `Roles`,
  the client never does. Steps that leave the NAT alone share `OutsideKeeps`,
  those of the NAT share `InnerKeeps`.
* `ClosedByBoth`: `FinsKnown` says that an end of which a FIN is under way or has
  passed has closed, `FinsCounted` that each state towards CLOSED has cost the NAT
  a FIN. CLOSED took two, and neither end's came twice, so it was one of each.
* `OrderlyEndCloses`: as long as nothing was lost, sent again, repeated or
  forgotten, the conversation is in one of five stages of its opening, each with one
  segment under way (`Opening`), or in `Conversation`: each end's FIN is sent
  once and is under way, passed or seen (`OneFin`, `Passed`), the acknowledgement of a
  FIN has still to pass the NAT (`Acking`), and `Tracked` says for each
  combination of passed FINs and ACKs where the NAT is. `Tracked` is what the states
  of `_determine_state` mean when segments overtake each other.

`IpPacketProofs` and `IpPathProofs` prove, for all hosts, routes, private nets and
traffic:

| Theorem | States |
|---|---|
| `PacketTypes` | `TypeOK` |
| `ChecksumsAreRight` | `ChecksumsHold` |
| `PrivateStaysInside` | `PrivateHidden` |
| `AnswersAreRight` | `AnswersReachAsker` |

They assume `IpAssumption`: addresses are words, no host has an address of the
router, routes lead to hosts, hosts start ICMP messages and segments; and that the
ids outnumber the internal pairs, `Cardinality(Inside) <= LastId - FirstId`. Only
`AnswersAreRight` needs the last one, and the code needs it too: without a free id
`find_next_id` gives every pair the same last id (section 3), and answers for
one pair reach another.

* `ChecksumsAreRight`: `Carried`, the loop of `cksum` that folds carries, leaves a
  word with the residue of the sum (`Residue`), so a sum with its own
  complement in it is all ones and a host accepts it, for every size of word.
  `PacketInv` says of every packet at every place that it is right there: on a link
  towards the router a header may still be damaged, and then says so
  (`Shown`); what waits or is held is sound but not summed yet (`Held`); what
  goes out is right (`Fine`). The folding loop is a recursive function; that it satisfies its
  equation is shown by induction over all smaller sums.
* `PrivateStaysInside`: `HideInv` says the same of every frame on its way to a host as
  `PrivateHidden` says of what a host got. An error message comes from the router
  (`IcmpFrames`), a translated packet from the router or from outside
  (`TranslatedFields`); what `sr_handle_ippacket` forwards without an entry in
  the table is for a private address, or comes from outside (`HandleKeeps`).
* `AnswersAreRight`: `AnswerInv` says for each packet that descends from a request of
  a private host what its addresses and id are, before the NAT (`AsAsked`), behind it
  (`Masked`, with `HasId`: the pair's id as long as a packet with the id is under
  way), on its way back (`ToRouter`) and inside again (`Right`). No two pairs have one
  id (`OnePair`), because an id that is given is nobody's (`FreshId`, by
  counting). A packet that is under way when `Expire` takes its id back is `late` from then
  on, and `AnswerInv` says nothing of it, so `HasId` outlives every step for the others.

`SrThreadsProofs` proves, for any hardware, any buffer of the socket, any number
of rounds and packets:

| Theorem | States |
|---|---|
| `LocksAreOrdered` | `NoCircularWait` |

* `LocksAreOrdered`: what is left of a script has to give back exactly the locks
  the thread holds, and takes the NAT's lock only while it holds the cache's
  not. `Safe` says so of a script and two depths: they are in a set of positions
  that is closed under the script's next operation. No induction over the length of a
  script is needed. Each script of `PacketScripts`, `NatScripts` and `ArpScripts` is
  put together from parts that are safe.

`VnsSessionProofs` proves, for the same and any files, routes and options of the command
line:

| Theorem | States |
|---|---|
| `ThreadsHaveTypes` | `TypeOK` |
| `HardwareIsKnown` | `ReadyMeansKnown` |
| `EndsAreExplained` | `EndsForAReason` |

They assume `SessionAssumption` and `ThreadAssumption`: there is an interface, interfaces
are records of strings with different names, the server's RTABLE has routes, and only over
those interfaces, and the socket has room for a part of a frame. What the file of the
command line may hold is not restricted.

The argument. Nothing in the code counts commands; that `sr_handle_hwinfo` finds an
empty list, and that an expected command cannot be overtaken, depends on what the two
ends may still have sent. `SessionInv` says this of the two queues with `Once` (a queue
has a command at most once) and `Led` (a command only behind another one):

* `Authenticated`: the greeting, the AUTH_REPLY and the AUTH_STATUS exist once each, and
  only at the place of the handshake where they are waited for. So the greeting is at the
  head while `pc` is `auth`, and a wrong command at a later place is a packet or a CLOSE;
* `OpenedOnce`: main sends one OPEN or OPEN_TEMPLATE, and while it is on its way there is
  neither a HWINFO nor an interface. So one HWINFO comes, to an empty list, and for a
  template behind its RTABLE;
* `PacketsLed`: as long as no packet was broadcast early, each packet is behind the HWINFO
  until that has been read. So a packet for an unknown interface came early;
* `TableLoaded`: with a good file the routes at the end of the start-up are the file's, so
  that `sr_verify_routing_table` cannot fail on them.

`EndsForAReason` says nothing of a fault in a handler or a round; `PacketFaultsKeeps` and
`RoundFaultsKeeps` show that one leaves the rest of the invariant as it is.

`HwFold` says that going through the entries of the HWINFO from the empty list gives the
hardware, for any number of interfaces: `OneInterface` for four entries, and an induction over
the interfaces. `FoldLeft` and `FlattenSeq` of the library are recursive functions, so
`FoldIs` and `FlattenIs` show first that they satisfy their equations. One lemma for each
action (`ConnectKeeps`, ..., `TemplateAnswered`) keeps `SessionInv`; `SessionStep` puts them
together. It needs `BootInv` (a thread that writes is past the handshake) and `FramesInv`
(what is on the socket is a command or part of a frame).

Only model-checked:

* the liveness properties, since leads-to under fairness is beyond the prover;
* the violations, which are runs of a small instance.

## 10. Not modelled

* `sr_nat_destroy`, `sr_arpcache_destroy`, the dump and print functions: nothing
  calls them, or they print. Printing of the table, which walks it without the
  lock, is in `NatTable` for that walk alone.
* SHA-1: a vendored hash of 32-bit rounds. The session has only its result.
* The packet dump, the OpenFlow side of the POX module (written for a framework
  that is not in the repository), the topology scripts and demonstration servers.
* Options: `getopt` is given no I, E and R, so the timeouts are always the
  defaults; the cases for them, which fall through, are never reached.
* The bytes of a session command: `recv` returns whole commands here. A length
  that does not fit its command is not considered.
* Ethernet addresses, but for "own, broadcast or other" in `IpPath`: the check of
  a frame's source in `sr_send_packet`, and which of two cache entries for one
  address wins.
* TCP data, sequence numbers and RST, at none of which the NAT's transition
  function looks. A sequence number tells retransmissions of an unsolicited packet
  apart in `NatTable`.
* TTL 0 on arrival, IP options and fragments: hosts of the models send none.
* The range of 172.16/12, which `is_private_ip` compares with another mask than
  its comment says: `PrivateNets` is what the code computes, as a parameter.
* Leaks without an observer: copies of mappings that an early return does not
  free.

Behaviours met while modelling that the modules have and no run states a property about:

* `sr_arpcache_sweepreqs` reads the next pointer of a request it may have destroyed, against
  the advice of `sr_arpcache.h:61` (`Destroy`, section 4);
* a mapped pair cannot write to a second peer, and the list of unsolicited packets may be lost
  behind a freed head (section 3);
* an ICMP reply that comes after its mapping was freed is lost or goes to the host that has the
  id then (`late`, section 6);
* frames of two threads may mix on the socket (`ServerReadFrame`, section 7).
