------------------------------ MODULE NatTable ------------------------------
(* The translation table of sr_nat.c, shared by two threads.                 *)
(*                                                                           *)
(* The main thread handles one packet at a time (nat_handle_tcp,             *)
(* nat_handle_icmp).  It takes nat->lock once per table operation, never     *)
(* across two of them, so the timeout thread can run between any two steps   *)
(* of one packet.  What main keeps between steps is a private copy of the    *)
(* mapping it found; the copy's conns pointer still leads into the shared    *)
(* list.  The timeout thread (sr_nat_timeout) sleeps a second, takes the     *)
(* lock, and frees what is old.                                              *)
(*                                                                           *)
(* Lists are sets of nodes that carry their allocation number, "born": every *)
(* list of mappings or connections is newest first, the list of unsolicited  *)
(* packets oldest first, so the numbers give the order.  Ages replace time   *)
(* stamps: an age saturates at AgeCap, above every timeout.                  *)
EXTENDS Naturals, FiniteSets, TcpState

CONSTANTS
  Inside,           \* internal (ip, port or ICMP identifier) pairs
  Peer,             \* external (ip, port) pairs
  Segment,          \* the flag sets that segments may carry
  SeqNo,            \* sequence numbers
  Routed,           \* the sources that the routing table has a route to
  FirstId, LastId,  \* DEFAULT_ID and TOTAL_PORTS - 1
  Stray,            \* whether nat->unsol_pkt leads nowhere at first: TRUE, FALSE or both
  IcmpQueryTo, TcpEstabTo, TcpTransitoryTo, TcpSynTo,
  AgeCap,           \* bound: ages stop growing here
  MaxAlloc          \* bound: list nodes allocated in a behaviour

ASSUME NatAssumption ==
  /\ FirstId \in Nat /\ LastId \in Nat /\ FirstId <= LastId
  /\ {IcmpQueryTo, TcpEstabTo, TcpTransitoryTo, TcpSynTo} \subseteq 0 .. (AgeCap - 1)
  /\ AgeCap \in Nat /\ MaxAlloc \in Nat
  /\ Stray \subseteq BOOLEAN
  /\ \A s \in Segment : s \subseteq TcpFlags

VARIABLES
  mappings,    \* nat->mappings
  conns,       \* the connections of all mappings; owner is the mapping's born
  bitmap,      \* the ids whose bit is set in nat->bitmap
  unsol,       \* nat->unsol_pkt
  unsolFreed,  \* nat->unsol_pkt leads to a node that was freed, or to no node at all
  pc,          \* what the main thread does next
  pkt,         \* the packet it handles
  copy,        \* its private copy of a mapping
  cursor,      \* the node its unlocked walk has reached, 0 at the end
  slept,       \* a second has passed since the timeout thread last ran
  alloc        \* list nodes allocated so far

vars == <<mappings, conns, bitmap, unsol, unsolFreed, pc, pkt, copy, cursor, slept, alloc>>
table == <<mappings, conns, bitmap, unsol, unsolFreed, slept, alloc>>

Ids == FirstId .. LastId
Serial == Nat \ {0}
Ages == 0 .. AgeCap

OutSegment == [kind : {"out"}, int : Inside, peer : Peer, flags : Segment, seq : SeqNo]
InSegment  == [kind : {"in"}, id : Ids, peer : Peer, flags : Segment, seq : SeqNo]
Query      == [kind : {"query"}, int : Inside]
Reply      == [kind : {"reply"}, id : Ids]
Packet     == OutSegment \cup InSegment \cup Query \cup Reply

Mapping    == [type : {"tcp", "icmp"}, int : Inside, ext : Ids, age : Ages, born : Serial]
Connection == [owner : Serial, peer : Peer, opener : Inside,
               state : TcpStates, age : Ages, born : Serial]
Unsol      == [pkt : OutSegment \cup InSegment, age : Ages, born : Serial]

(* A mapping copied out of the table: conns is the serial of the connection  *)
(* its list pointer leads to (0 for NULL) and near that connection's peer.   *)
Snapshot   == [int : Inside, ext : Ids, born : Serial, conns : Nat, near : SUBSET Peer]

NoPkt  == [kind |-> "none"]
NoCopy == [born |-> 0]

(* Nothing sets nat->unsol_pkt: it is what the stack of main held there.     *)
Init ==
  /\ mappings = {} /\ conns = {} /\ bitmap = {}
  /\ unsol = {} /\ unsolFreed \in Stray
  /\ pc = "idle" /\ pkt = NoPkt /\ copy = NoCopy /\ cursor = 0
  /\ slept = FALSE /\ alloc = 0

-----------------------------------------------------------------------------
(* Lists *)

IsNewest(x, S) == x \in S /\ \A y \in S : y.born <= x.born
IsOldest(x, S) == x \in S /\ \A y \in S : x.born <= y.born

(* The serial of the newest node of S, as a one-element set. *)
Heads(S) == IF S = {} THEN {0} ELSE {x.born : x \in {y \in S : IsNewest(y, S)}}

ConnsOf(m) == {c \in conns : c.owner = m.born}

(* The result of memcpy(copy, curr, sizeof(struct sr_nat_mapping)). *)
Snapshots(m) ==
  {[int |-> m.int, ext |-> m.ext, born |-> m.born, conns |-> h,
    near |-> {c.peer : c \in {d \in ConnsOf(m) : d.born = h}}] : h \in Heads(ConnsOf(m))}

-----------------------------------------------------------------------------
(* Main thread.  Done is the end of a packet's handling. *)

Done == pc' = "idle" /\ pkt' = NoPkt /\ copy' = NoCopy /\ cursor' = 0
Crash == pc' = "crashed" /\ pkt' = NoPkt /\ copy' = NoCopy /\ cursor' = 0

(* The packet enters nat_handle_tcp or nat_handle_icmp, which first passes   *)
(* nat->mappings, read without the lock, to print_sr_mapping.                *)
(* A packet allocates at most two list nodes.                                *)
Receive(p) ==
  /\ pc = "idle"
  /\ alloc + 2 <= MaxAlloc
  /\ pkt' = p
  /\ cursor' \in Heads(mappings)
  /\ pc' = "lookup"
  /\ UNCHANGED <<table, copy>>

(* print_sr_mapping reads one node and follows its next pointer, unlocked.   *)
(* The lookup comes after the walk, when cursor is 0.                        *)
PrintMapping ==
  /\ pc = "lookup"
  /\ \E m \in mappings :
       /\ m.born = cursor
       /\ cursor' \in Heads({n \in mappings : n.born < cursor})
  /\ UNCHANGED <<table, pc, pkt, copy>>

(* The node was freed by the timeout thread: the read returns whatever the   *)
(* allocator left there, and the walk ends or the process does.              *)
PrintFreed ==
  /\ pc = "lookup"
  /\ cursor # 0 /\ \A m \in mappings : m.born # cursor
  /\ \/ cursor' = 0 /\ UNCHANGED <<pc, pkt, copy>>
     \/ Crash
  /\ UNCHANGED table

(* Variant: the type is compared. *)
ByInternalAndType(i) ==
  {m \in mappings : m.int = i /\ (m.type = "tcp" <=> pkt.kind = "out")}

(* The list nodes a lookup accepts.  The type parameter of the code is not   *)
(* compared, so a TCP port and an ICMP identifier share one name space.      *)
ByInternal(i) == {m \in mappings : m.int = i}
ByExternal(e) == {m \in mappings : m.ext = e}

LookupInternal ==
  /\ pc = "lookup" /\ cursor = 0
  /\ pkt.kind \in {"out", "query"}
  /\ \/ /\ ByInternal(pkt.int) = {}
        /\ pc' = "insertMapping" /\ copy' = NoCopy
     \/ \E m \in mappings :
          /\ IsNewest(m, ByInternal(pkt.int))
          /\ copy' \in Snapshots(m)
          /\ pc' = IF pkt.kind = "out" THEN "update" ELSE "translate"
  /\ UNCHANGED <<table, pkt, cursor>>

(* An inbound segment with no mapping is kept when it is a SYN; any other    *)
(* goes on untranslated.                                                     *)
LookupExternal ==
  /\ pc = "lookup" /\ cursor = 0
  /\ pkt.kind \in {"in", "reply"}
  /\ \/ /\ ByExternal(pkt.id) = {}
        /\ IF pkt.kind = "in" /\ IsSyn(pkt.flags)
           THEN pc' = "buffer" /\ UNCHANGED <<pkt, copy, cursor>>
           ELSE Done
     \/ \E m \in mappings :
          /\ IsNewest(m, ByExternal(pkt.id))
          /\ copy' \in Snapshots(m)
          /\ pc' = IF pkt.kind = "in" THEN "update" ELSE "translate"
          /\ UNCHANGED <<pkt, cursor>>
  /\ UNCHANGED table

(* Variant: the id found is not marked in the bitmap. *)
UnmarkedId(id, used) ==
  /\ id \in Ids \ bitmap /\ \A k \in FirstId .. (id - 1) : k \in bitmap
  /\ used = bitmap

(* find_next_id: the lowest free id, marked as used; -1 when there is none,  *)
(* which the uint16_t aux_ext turns into the last port number.               *)
FindNextId(id, used) ==
  \/ /\ id \in Ids \ bitmap
     /\ \A k \in FirstId .. (id - 1) : k \in bitmap
     /\ used = bitmap \cup {id}
  \/ /\ Ids \subseteq bitmap
     /\ id = LastId
     /\ used = bitmap

InsertMapping ==
  /\ pc = "insertMapping"
  /\ alloc' = alloc + 1
  /\ \E id \in Ids :
       /\ FindNextId(id, bitmap')
       /\ mappings' = mappings \cup
            {[type |-> IF pkt.kind = "out" THEN "tcp" ELSE "icmp",
              int |-> pkt.int, ext |-> id, age |-> 0, born |-> alloc + 1]}
       /\ copy' = [int |-> pkt.int, ext |-> id, born |-> alloc + 1,
                   conns |-> 0, near |-> {}]
  /\ pc' = IF pkt.kind = "out" THEN "insertConnection" ELSE "translate"
  /\ UNCHANGED <<conns, unsol, unsolFreed, slept, pkt, cursor>>

(* Two packets with the same addresses, ports and sequence number; flags are *)
(* not compared.                                                             *)
SameSegment(a, b) ==
  /\ a.kind = b.kind /\ a.peer = b.peer /\ a.seq = b.seq
  /\ IF a.kind = "out" THEN a.int = b.int ELSE a.id = b.id

(* Freeing the first node leaves nat->unsol_pkt leading to it.               *)
RemoveUnsolicited ==
  LET gone == {u \in unsol : SameSegment(u.pkt, pkt)} IN
  /\ unsol' = unsol \ gone
  /\ unsolFreed' = (unsolFreed \/ \E u \in gone : IsOldest(u, unsol))

(* Variant: the head of the list, its port not compared. *)
HeadOfList(m) == IsNewest(m, mappings)

(* The mapping that sr_nat_insert_connection finds by its external port.     *)
Attached(m) == IsNewest(m, ByExternal(copy.ext))

InsertConnection ==
  /\ pc = "insertConnection"
  /\ \E m \in mappings :
       /\ Attached(m)
       /\ conns' = conns \cup
            {[owner |-> m.born, peer |-> pkt.peer, opener |-> pkt.int,
              state |-> "SYN_SENT", age |-> 0, born |-> alloc + 1]}
  /\ alloc' = alloc + 1
  /\ RemoveUnsolicited
  /\ pc' = "translate"
  /\ UNCHANGED <<mappings, bitmap, slept, pkt, copy, cursor>>

(* The mapping is gone: NULL is returned and nat_handle_tcp reads            *)
(* conn->state through it.                                                   *)
InsertConnectionNull ==
  /\ pc = "insertConnection"
  /\ ByExternal(copy.ext) = {}
  /\ Crash
  /\ UNCHANGED table

(* What the walk from the copy's conns pointer can reach, and what matches.  *)
Chain == {c \in conns : c.owner = copy.born /\ c.born <= copy.conns}
Hits == {c \in Chain : c.peer = pkt.peer}

(* The copy's conns pointer leads to a connection that was freed.            *)
Dangling == copy.conns # 0 /\ \A c \in Chain : c.born # copy.conns

(* Variant: a FIN is taken for a passive close. *)
PassiveClose(c) ==
  [c EXCEPT !.state = IF "FIN" \in pkt.flags THEN "CLOST_WAIT" ELSE c.state, !.age = 0]

Advanced(c) == [c EXCEPT !.state = DetermineState(c.state, pkt.flags), !.age = 0]

(* An inbound SYN is dropped even when its connection is found.              *)
UpdateConnection ==
  /\ pc = "update"
  /\ \E c \in Hits :
       /\ IsNewest(c, Hits)
       /\ conns' = (conns \ {c}) \cup {Advanced(c)}
  /\ IF pkt.kind = "in" /\ IsSyn(pkt.flags)
     THEN Done
     ELSE pc' = "translate" /\ UNCHANGED <<pkt, copy, cursor>>
  /\ UNCHANGED <<mappings, bitmap, unsol, unsolFreed, slept, alloc>>

(* Appended at the tail unless the same packet is there already.             *)
InsertUnsolicited ==
  IF \E u \in unsol : SameSegment(u.pkt, pkt)
  THEN UNCHANGED <<unsol, alloc>>
  ELSE /\ alloc' = alloc + 1
       /\ unsol' = unsol \cup {[pkt |-> pkt, age |-> 0, born |-> alloc + 1]}

(* No connection matches: the packet, in whichever direction it goes, is     *)
(* buffered as unsolicited and answered with an ICMP error (or, an inbound   *)
(* SYN, with nothing).                                                       *)
UpdateConnectionNull ==
  /\ pc = "update"
  /\ Hits = {}
  /\ InsertUnsolicited
  /\ Done
  /\ UNCHANGED <<mappings, conns, bitmap, unsolFreed, slept>>

(* The walk starts in freed memory.  The allocator may have left the node    *)
(* readable, and then it can match and be written; or the read faults.  The  *)
(* outcome in which it does not match is one of the two actions above.       *)
UpdateFreed ==
  /\ pc = "update"
  /\ Dangling
  /\ \/ Crash
     \/ /\ pkt.peer \in copy.near
        /\ IF pkt.kind = "in" /\ IsSyn(pkt.flags)
           THEN Done
           ELSE pc' = "translate" /\ UNCHANGED <<pkt, copy, cursor>>
  /\ UNCHANGED table

(* The lock was released after the failed lookup and is taken again.         *)
BufferUnsolicited ==
  /\ pc = "buffer"
  /\ InsertUnsolicited
  /\ Done
  /\ UNCHANGED <<mappings, conns, bitmap, unsolFreed, slept>>

(* The packet is rewritten with the copy and leaves.  The outbound TCP path  *)
(* uses the route to the peer without asking whether there is one.           *)
Translate ==
  /\ pc = "translate"
  /\ IF pkt.kind = "out" /\ pkt.peer \notin Routed THEN Crash ELSE Done
  /\ UNCHANGED table

(* A thread is about to walk the list of unsolicited packets from a pointer  *)
(* that leads nowhere.  The outcome in which nothing shows is the thread's   *)
(* own action.                                                               *)
WalksFreed ==
  /\ unsolFreed /\ pc # "crashed"
  /\ slept \/ pc \in {"insertConnection", "update", "buffer"}

(* It faults, or goes round in a circle with the lock held.                  *)
UnsolicitedFreed == WalksFreed /\ Crash /\ UNCHANGED table

(* What lies there holds another next pointer: the walk ends at once, or     *)
(* goes on further down the list, and the packets before that are lost.  The *)
(* timeout thread may find the stray node due, and leaves it behind.         *)
UnsolicitedLost ==
  /\ WalksFreed
  /\ \E n \in 1 .. alloc : unsol' = {u \in unsol : u.born > n}
  /\ unsolFreed' \in IF slept THEN BOOLEAN ELSE {TRUE}
  /\ UNCHANGED <<mappings, conns, bitmap, slept, pc, pkt, copy, cursor, alloc>>

MainStep ==
  \/ PrintMapping \/ PrintFreed
  \/ LookupInternal \/ LookupExternal
  \/ InsertMapping \/ InsertConnection \/ InsertConnectionNull
  \/ UpdateConnection \/ UpdateConnectionNull \/ UpdateFreed
  \/ BufferUnsolicited \/ Translate

-----------------------------------------------------------------------------
(* Timeout thread *)

Source(p) == IF p.kind = "out" THEN p.int ELSE p.peer

(* Variant: the route looked up is the one to the destination.               *)
Destination(p) == IF p.kind = "out" THEN p.peer ELSE p.id
RouteToDestination(u) == Destination(u.pkt) \in Routed /\ u.age > TcpSynTo

(* An unsolicited packet is answered and dropped after TcpSynTo, but only if *)
(* there is a route back to its source.                                      *)
UnsolDue(u) == Source(u.pkt) \in Routed /\ u.age > TcpSynTo

(* Variant: CLOSED is taken for a state that needs no timeout. *)
OpenAndIdle(c) == c.state # "CLOSED" /\ c.age > TcpTransitoryTo

(* The last branch does not exclude ESTAB.                                   *)
ConnectionDue(c) ==
  \/ c.state = "ESTAB" /\ c.age > TcpEstabTo
  \/ c.state = "CLOSED"
  \/ c.age > TcpTransitoryTo

FreedConns == {c \in conns : ConnectionDue(c) /\
                 \E m \in mappings : m.type = "tcp" /\ m.born = c.owner}

(* Variant: ICMP mappings are left alone. *)
TcpMappingDue(m) == m.type = "tcp" /\ \A c \in ConnsOf(m) : c \in FreedConns

(* Variant: whether the list is empty is asked before the walk frees nodes.  *)
DueNextRound(m) ==
  IF m.type = "icmp" THEN m.age > IcmpQueryTo ELSE ConnsOf(m) = {}

MappingDue(m) ==
  IF m.type = "icmp" THEN m.age > IcmpQueryTo
                     ELSE \A c \in ConnsOf(m) : c \in FreedConns

(* Variant: the bits stay set. *)
BitsKept(gone) == bitmap

(* Variant: the neighbouring bit is cleared. *)
NeighbourBits(gone) == bitmap \ {m.ext - 1 : m \in gone}

(* ClearBit for every mapping freed. *)
ClearBits(gone) == bitmap \ {m.ext : m \in gone}

(* One round of sr_nat_timeout, under the lock.                              *)
Timeout ==
  /\ slept /\ pc # "crashed"
  /\ LET gone == {m \in mappings : MappingDue(m)} IN
       /\ mappings' = mappings \ gone
       /\ bitmap' = ClearBits(gone)
  /\ conns' = conns \ FreedConns
  /\ unsol' = {u \in unsol : ~UnsolDue(u)}
  /\ slept' = FALSE
  /\ UNCHANGED <<unsolFreed, pc, pkt, copy, cursor, alloc>>

Older(x) == [x EXCEPT !.age = IF x.age < AgeCap THEN x.age + 1 ELSE x.age]

(* A second passes.  Nothing reads the age of a TCP mapping: it stays 0.     *)
Tick ==
  /\ pc # "crashed"
  /\ mappings' = {IF m.type = "icmp" THEN Older(m) ELSE m : m \in mappings}
  /\ conns' = {Older(c) : c \in conns}
  /\ unsol' = {Older(u) : u \in unsol}
  /\ slept' = TRUE
  /\ UNCHANGED <<bitmap, unsolFreed, pc, pkt, copy, cursor, alloc>>

Next ==
  \/ \E p \in Packet : Receive(p)
  \/ MainStep
  \/ UnsolicitedFreed \/ UnsolicitedLost
  \/ Timeout
  \/ Tick

Spec == Init /\ [][Next]_vars

(* Time passes, sleep(1.0) returns and nat->lock is only ever held for one   *)
(* walk, so the timeout thread keeps running.  Nothing is assumed of main.   *)
FairSpec == Spec /\ WF_vars(Tick) /\ WF_vars(Timeout)

-----------------------------------------------------------------------------
(* What the table promises *)

TypeOK ==
  /\ mappings \subseteq Mapping /\ conns \subseteq Connection
  /\ bitmap \subseteq Ids
  /\ unsol \subseteq Unsol /\ unsolFreed \in BOOLEAN
  /\ pc \in {"idle", "lookup", "insertMapping", "insertConnection",
             "update", "buffer", "translate", "crashed"}
  /\ pkt \in Packet \cup {NoPkt} /\ copy \in Snapshot \cup {NoCopy}
  /\ cursor \in Nat /\ slept \in BOOLEAN /\ alloc \in Nat

(* The packet and the copy that each step of main works with.                *)
AtHand ==
  /\ pc \in {"lookup", "translate"} => pkt \in Packet
  /\ pc = "insertMapping" => pkt \in OutSegment \cup Query
  /\ pc = "insertConnection" => pkt \in OutSegment
  /\ pc = "update" => pkt \in OutSegment \cup InSegment
  /\ pc = "buffer" => pkt \in InSegment
  /\ pc \in {"insertConnection", "update", "translate"} => copy \in Snapshot

(* An internal pair has one mapping.  The lookup that finds none and the     *)
(* insertion that follows are two critical sections: nothing but the main    *)
(* thread's being the only one to insert keeps them together.                *)
InternalPairUnique ==
  \A m, n \in mappings : m.int = n.int => m = n

(* find_next_id never hands out an id that is in use: two mappings can share *)
(* only the last one, which stands in for "none left".                       *)
ExternalIdUnique ==
  \A m, n \in mappings : m.ext = n.ext /\ m.ext # LastId => m = n

(* Except for that id, a bit of the bitmap is set exactly while a mapping    *)
(* has its id: no id leaks and none is handed out too soon, however the      *)
(* timeout thread interleaves with a half-made mapping.                      *)
BitmapExact ==
  \A id \in Ids \ {LastId} : id \in bitmap <=> \E m \in mappings : m.ext = id

(* Allocation numbers order the nodes and name them. *)
Numbered ==
  /\ \A m \in mappings : m.born <= alloc
  /\ \A m, n \in mappings : m.born = n.born => m = n
  /\ \A c \in conns : c.born <= alloc /\ c.owner <= alloc
  /\ copy.born <= alloc

(* Between a lookup that fails and the insertion of the connection, main     *)
(* knows what it is about to rely on: the pair is still unmapped; then the   *)
(* new mapping, if it is still there, is the newest and has no connection.   *)
HalfMade ==
  /\ pc = "insertMapping" => ByInternal(pkt.int) = {}
  /\ pc = "insertConnection" =>
       /\ copy.int = pkt.int
       /\ \A m \in mappings :
            m.born <= copy.born /\ (m.born = copy.born => m.ext = copy.ext)
       /\ \A c \in conns : c.owner # copy.born

(* The copy that main translates with may be stale but is never wrong: while *)
(* it is held, no other internal pair comes to own its external id.          *)
CopyNotContradicted ==
  copy # NoCopy /\ copy.ext # LastId =>
    \A m \in mappings : m.ext = copy.ext => m.int = copy.int /\ m.born = copy.born

(* A connection hangs below the mapping of the internal pair that opened it, *)
(* so a peer's segments reach only the pair that wrote to that peer, even if *)
(* the mapping was freed and its id taken between the two insertions.        *)
ConnectionBelongsToOpener ==
  \A c \in conns, m \in mappings :
    c.owner = m.born /\ m.ext # LastId => c.opener = m.int

(* A TCP mapping without connections, which the next round of the timeout    *)
(* thread frees, is one that main is still making.                           *)
BareMappingInFlight ==
  \A m \in mappings :
    m.type = "tcp" /\ ConnsOf(m) = {} =>
      pc = "crashed" \/ (pc = "insertConnection" /\ copy.born = m.born)

(* The safety of the table, as one inductive invariant. *)
TableInv ==
  /\ Numbered /\ HalfMade
  /\ InternalPairUnique /\ ExternalIdUnique /\ BitmapExact
  /\ CopyNotContradicted /\ ConnectionBelongsToOpener
  /\ BareMappingInFlight

(* The list of mappings, read as a function from internal pairs to ids.      *)
Binding == [i \in {m.int : m \in mappings} |->
              (CHOOSE m \in mappings : m.int = i).ext]

Bound == INSTANCE Bindings WITH bind <- Binding

(* Seen from outside the table is a NAT: a pair keeps its id for as long as  *)
(* it is mapped, gets the lowest one that is free, and shares none but the   *)
(* last.  The list, the bitmap and the copies of two threads implement it.   *)
ImplementsBindings == Bound!SpecBind

(* The mapping of an ICMP query is reclaimed.                                *)
QueryReclaimed ==
  \A n \in 1 .. MaxAlloc :
    (\E m \in mappings : m.born = n /\ m.type = "icmp") ~>
      (pc = "crashed" \/ \A m \in mappings : m.born # n)

(* A closed connection is reclaimed, unless a SYN revives it first.          *)
ClosedReclaimed ==
  \A n \in 1 .. MaxAlloc :
    (\E c \in conns : c.born = n /\ c.state = "CLOSED") ~>
      (pc = "crashed" \/ \A c \in conns : c.born = n => c.state # "CLOSED")

(* An unsolicited packet whose source can be reached is answered, as long as *)
(* the head of the list is sound.                                            *)
UnsolicitedAnswered ==
  \A n \in 1 .. MaxAlloc :
    (\E u \in unsol : u.born = n /\ Source(u.pkt) \in Routed) ~>
      (pc = "crashed" \/ unsolFreed \/ \A u \in unsol : u.born # n)

-----------------------------------------------------------------------------
(* What the code's comments and documents say of it *)

(* sr_nat_insert_connection returns a copy of the connection: its caller     *)
(* finds the mapping that it has just inserted.                              *)
ConnectionReturned == pc = "insertConnection" => ByExternal(copy.ext) # {}

(* An established connection is kept for the established idle timeout.       *)
EstablishedKept ==
  [][\A c \in conns :
       c.state = "ESTAB" /\ (\A d \in conns' : d.born # c.born) =>
         c.age > TcpEstabTo]_vars

(* Once an outbound segment has opened the connection that an inbound SYN    *)
(* asked for, the SYN is no longer kept to be answered.                      *)
InboundSynDropped ==
  \A u \in unsol, c \in conns, m \in mappings :
    ~(/\ u.pkt.kind = "in" /\ IsSyn(u.pkt.flags)
      /\ c.owner = m.born /\ u.pkt.id = m.ext /\ c.peer = u.pkt.peer
      /\ u.born < c.born)
=============================================================================
