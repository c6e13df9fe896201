--------------------------- MODULE NatTableProofs ---------------------------
(* Proofs about NatTable, for every set of hosts, every range of ids and     *)
(* every choice of timeouts.                                                 *)
EXTENDS NatTable, TLAPS

(* The transition function stays within the states it is declared for.       *)
LEMMA DetermineStateType ==
  ASSUME NEW s \in TcpStates, NEW f
  PROVE  DetermineState(s, f) \in TcpStates
  BY DEF DetermineState, DetermineClose, TcpStates

(* Ageing a node changes its age alone and keeps it in range.                *)
LEMMA OlderMapping ==
  ASSUME NEW m \in Mapping
  PROVE  /\ Older(m) \in Mapping
         /\ Older(m).type = m.type /\ Older(m).int = m.int
         /\ Older(m).ext = m.ext /\ Older(m).born = m.born
  BY NatAssumption DEF Older, Mapping, Ages

(* The same for a connection.                                                *)
LEMMA OlderConnection ==
  ASSUME NEW c \in Connection
  PROVE  /\ Older(c) \in Connection
         /\ Older(c).owner = c.owner /\ Older(c).peer = c.peer
         /\ Older(c).opener = c.opener /\ Older(c).state = c.state
         /\ Older(c).born = c.born
  BY NatAssumption DEF Older, Connection, Ages

(* The same for an unsolicited packet.                                       *)
LEMMA OlderUnsol ==
  ASSUME NEW u \in Unsol
  PROVE  Older(u) \in Unsol
  BY NatAssumption DEF Older, Unsol, Ages

(* A segment that matches a connection keeps its identity.                   *)
LEMMA AdvancedConnection ==
  ASSUME NEW c \in Connection
  PROVE  /\ Advanced(c) \in Connection
         /\ Advanced(c).owner = c.owner /\ Advanced(c).opener = c.opener
         /\ Advanced(c).peer = c.peer /\ Advanced(c).born = c.born
  <1>1. DetermineState(c.state, pkt.flags) \in TcpStates
    BY DetermineStateType DEF Connection
  <1>2. 0 \in Ages
    BY NatAssumption DEF Ages
  <1>3. ASSUME NEW s \in TcpStates
        PROVE  LET d == [c EXCEPT !.state = s, !.age = 0]
               IN  /\ d \in Connection /\ d.owner = c.owner /\ d.opener = c.opener
                   /\ d.peer = c.peer /\ d.born = c.born
    BY <1>2 DEF Connection
  <1> QED BY <1>1, <1>3 DEF Advanced

(* A pointer to the head of a list is a serial or NULL.                      *)
LEMMA HeadsType ==
  ASSUME NEW S, \A x \in S : x.born \in Nat
  PROVE  Heads(S) \subseteq Nat
  BY DEF Heads, IsNewest

(* A copy of a mapping has the mapping's fields.                             *)
LEMMA SnapshotFields ==
  ASSUME TypeOK, NEW m \in mappings, NEW k \in Snapshots(m)
  PROVE  /\ k \in Snapshot /\ k # NoCopy
         /\ k.int = m.int /\ k.ext = m.ext /\ k.born = m.born
  <1>1. m \in Mapping /\ conns \subseteq Connection
    BY DEF TypeOK
  <1>2. Heads(ConnsOf(m)) \subseteq Nat
    BY <1>1, HeadsType DEF ConnsOf, Connection, Serial
  <1>3. PICK h \in Heads(ConnsOf(m)) :
          k = [int |-> m.int, ext |-> m.ext, born |-> m.born, conns |-> h,
               near |-> {c.peer : c \in {d \in ConnsOf(m) : d.born = h}}]
    BY DEF Snapshots
  <1>4. {c.peer : c \in {d \in ConnsOf(m) : d.born = h}} \in SUBSET Peer
    BY <1>1 DEF ConnsOf, Connection
  <1>5. k.born # 0
    BY <1>1, <1>3 DEF Mapping, Serial
  <1> QED BY <1>1, <1>2, <1>3, <1>4, <1>5 DEF Snapshot, Mapping, NoCopy

-----------------------------------------------------------------------------
(* Types                                                                     *)

TypeInv == TypeOK /\ AtHand

(* sr_nat_init leaves an empty, well-typed table and an idle main thread.    *)
LEMMA InitTypes == Init => TypeInv
  <1>1. Init => TypeOK
    <2>1. Init => unsolFreed \in BOOLEAN /\ slept \in BOOLEAN
      BY NatAssumption, Zenon DEF NatAssumption, Init
    <2>2. Init => pkt \in Packet \cup {NoPkt} /\ copy \in Snapshot \cup {NoCopy}
      BY DEF Init
    <2>3. Init => /\ mappings = {} /\ conns = {} /\ bitmap = {} /\ unsol = {}
                  /\ pc = "idle" /\ cursor = 0 /\ alloc = 0
      BY DEF Init
    <2> QED BY <2>1, <2>2, <2>3 DEF TypeOK
  <1>2. Init => AtHand
    BY DEF Init, AtHand
  <1> QED BY <1>1, <1>2 DEF TypeInv

USE DEF Packet, OutSegment, InSegment, Query, Reply

(* Ending a packet's handling, normally or by a crash, leaves nothing at     *)
(* hand.                                                                     *)
LEMMA EndTypes ==
  ASSUME TypeInv, Done \/ Crash, UNCHANGED table
  PROVE  TypeInv'
  BY DEF TypeInv, TypeOK, AtHand, Done, Crash, table, NoPkt, NoCopy,
         Mapping, Connection, Unsol

(* Types are kept when a packet enters the NAT, its head pointer being read  *)
(* without the lock.                                                         *)
LEMMA ReceiveTypes ==
  ASSUME TypeInv, NEW p \in Packet, Receive(p)
  PROVE  TypeInv'
  <1>1. cursor' \in Nat
    <2>1. \A m \in mappings : m.born \in Nat
      BY DEF TypeInv, TypeOK, Mapping, Serial
    <2> QED BY <2>1, HeadsType DEF Receive
  <1> QED BY <1>1 DEF TypeInv, TypeOK, AtHand, Receive, table

(* Types are kept by the unlocked walk, also when it reads a freed node.     *)
LEMMA PrintTypes ==
  ASSUME TypeInv, PrintMapping \/ PrintFreed
  PROVE  TypeInv'
  <1>1. CASE PrintMapping
    <2>1. \A m \in mappings : m.born \in Nat
      BY DEF TypeInv, TypeOK, Mapping, Serial
    <2>2. Heads({n \in mappings : n.born < cursor}) \subseteq Nat
      BY <2>1, HeadsType
    <2>3. cursor' \in Nat
      BY <1>1, <2>2 DEF PrintMapping
    <2> QED BY <1>1, <2>3 DEF TypeInv, TypeOK, AtHand, PrintMapping, table
  <1>2. CASE PrintFreed
    <2>1. CASE Crash
      BY <1>2, <2>1, EndTypes DEF PrintFreed
    <2>2. CASE cursor' = 0 /\ UNCHANGED <<pc, pkt, copy>>
      BY <1>2, <2>2 DEF PrintFreed, TypeInv, TypeOK, AtHand, table
    <2> QED BY <1>2, <2>1, <2>2 DEF PrintFreed
  <1> QED BY <1>1, <1>2

(* Types are kept by the two lookups: the copy they hand out is a copy of a  *)
(* mapping.                                                                  *)
LEMMA LookupTypes ==
  ASSUME TypeInv, LookupInternal \/ LookupExternal
  PROVE  TypeInv'
  <1>1. ASSUME NEW m \in mappings, copy' \in Snapshots(m) PROVE copy' \in Snapshot
    BY <1>1, SnapshotFields DEF TypeInv
  <1>2. CASE LookupInternal
    <2>1. pkt \in OutSegment \cup Query /\ (pkt.kind = "out" => pkt \in OutSegment)
      BY <1>2 DEF LookupInternal, TypeInv, AtHand
    <2> QED BY <1>1, <1>2, <2>1
          DEF LookupInternal, TypeInv, TypeOK, AtHand, table
  <1>3. CASE LookupExternal
    <2>1. pkt \in InSegment \cup Reply /\ (pkt.kind = "in" => pkt \in InSegment)
      BY <1>3 DEF LookupExternal, TypeInv, AtHand
    <2>2. CASE Done
      BY <1>3, <2>2, EndTypes DEF LookupExternal
    <2>3. CASE ~Done
      BY <1>1, <1>3, <2>1, <2>3
         DEF LookupExternal, TypeInv, TypeOK, AtHand, table
    <2> QED BY <2>2, <2>3
  <1> QED BY <1>2, <1>3

(* Types are kept by sr_nat_insert_mapping: find_next_id returns an id, even *)
(* when none is left.                                                        *)
LEMMA InsertMappingTypes ==
  ASSUME TypeInv, InsertMapping
  PROVE  TypeInv'
  <1>1. PICK id \in Ids :
          /\ FindNextId(id, bitmap')
          /\ mappings' = mappings \cup
               {[type |-> IF pkt.kind = "out" THEN "tcp" ELSE "icmp",
                 int |-> pkt.int, ext |-> id, age |-> 0, born |-> alloc + 1]}
          /\ copy' = [int |-> pkt.int, ext |-> id, born |-> alloc + 1,
                      conns |-> 0, near |-> {}]
    BY DEF InsertMapping
  <1>2. pkt \in OutSegment \cup Query /\ pkt.int \in Inside
    BY DEF TypeInv, AtHand, InsertMapping
  <1>3. alloc + 1 \in Serial /\ 0 \in Ages
    BY NatAssumption DEF TypeInv, TypeOK, Serial, Ages
  <1>4. mappings' \subseteq Mapping /\ copy' \in Snapshot
    BY <1>1, <1>2, <1>3 DEF TypeInv, TypeOK, Mapping, Snapshot
  <1>5. bitmap' \subseteq Ids
    BY <1>1 DEF FindNextId, TypeInv, TypeOK
  <1> QED BY <1>2, <1>3, <1>4, <1>5
        DEF InsertMapping, TypeInv, TypeOK, AtHand, Serial

(* Types are kept by sr_nat_insert_connection, and by its failure.           *)
LEMMA InsertConnectionTypes ==
  ASSUME TypeInv, InsertConnection
  PROVE  TypeInv'
  <1>1. PICK m \in mappings :
          conns' = conns \cup
            {[owner |-> m.born, peer |-> pkt.peer, opener |-> pkt.int,
              state |-> "SYN_SENT", age |-> 0, born |-> alloc + 1]}
    BY DEF InsertConnection
  <1>2. pkt \in OutSegment
    BY DEF TypeInv, AtHand, InsertConnection
  <1>3. alloc + 1 \in Serial /\ 0 \in Ages /\ m.born \in Serial
    BY NatAssumption DEF TypeInv, TypeOK, Serial, Ages, Mapping
  <1>4. conns' \subseteq Connection
    BY <1>1, <1>2, <1>3 DEF TypeInv, TypeOK, Connection, TcpStates
  <1>5. unsol' \subseteq Unsol /\ unsolFreed' \in BOOLEAN
    BY DEF InsertConnection, RemoveUnsolicited, TypeInv, TypeOK
  <1> QED BY <1>2, <1>3, <1>4, <1>5
        DEF InsertConnection, TypeInv, TypeOK, AtHand, Serial

(* sr_nat_insert_unsolicited_packet stores what main has at hand, a segment. *)
LEMMA InsertUnsolicitedTypes ==
  ASSUME TypeInv, pc \in {"update", "buffer"}, InsertUnsolicited
  PROVE  unsol' \subseteq Unsol /\ alloc' \in Nat
  <1>1. pkt \in OutSegment \cup InSegment
    BY DEF TypeInv, AtHand
  <1>2. alloc + 1 \in Serial /\ 0 \in Ages
    BY NatAssumption DEF TypeInv, TypeOK, Serial, Ages
  <1> QED BY <1>1, <1>2 DEF InsertUnsolicited, TypeInv, TypeOK, Unsol, Serial

(* Types are kept by sr_nat_update_connection, whether it finds the          *)
(* connection, finds none or walks freed memory.                             *)
LEMMA UpdateTypes ==
  ASSUME TypeInv, UpdateConnection \/ UpdateConnectionNull \/ UpdateFreed
  PROVE  TypeInv'
  <1>1. pc = "update" /\ pkt \in OutSegment \cup InSegment /\ pkt \in Packet
    BY DEF TypeInv, AtHand, UpdateConnection, UpdateConnectionNull, UpdateFreed
  <1>2. CASE UpdateConnection
    <2>1. conns' \subseteq Connection
      <3>1. PICK c \in Hits : conns' = (conns \ {c}) \cup {Advanced(c)}
        BY <1>2 DEF UpdateConnection
      <3>2. conns \subseteq Connection /\ c \in conns
        BY <3>1 DEF Hits, Chain, TypeInv, TypeOK
      <3> QED BY <3>1, <3>2, AdvancedConnection
    <2> QED BY <1>1, <1>2, <2>1
          DEF UpdateConnection, Done, TypeInv, TypeOK, AtHand, NoPkt, NoCopy
  <1>3. CASE UpdateConnectionNull
    <2>1. unsol' \subseteq Unsol /\ alloc' \in Nat
      BY <1>1, <1>3, InsertUnsolicitedTypes DEF UpdateConnectionNull
    <2> QED BY <1>3, <2>1
          DEF UpdateConnectionNull, Done, TypeInv, TypeOK, AtHand, NoPkt, NoCopy
  <1>4. CASE UpdateFreed
    <2>1. CASE Crash \/ Done
      BY <1>4, <2>1, EndTypes DEF UpdateFreed
    <2>2. CASE pc' = "translate" /\ UNCHANGED <<pkt, copy, cursor>>
      BY <1>1, <1>4, <2>2 DEF UpdateFreed, TypeInv, TypeOK, AtHand, table
    <2> QED BY <1>4, <2>1, <2>2 DEF UpdateFreed
  <1> QED BY <1>2, <1>3, <1>4

(* Types are kept when an inbound SYN without a mapping is buffered.         *)
LEMMA BufferTypes ==
  ASSUME TypeInv, BufferUnsolicited
  PROVE  TypeInv'
  <1>1. unsol' \subseteq Unsol /\ alloc' \in Nat
    BY InsertUnsolicitedTypes DEF BufferUnsolicited
  <1> QED BY <1>1
        DEF BufferUnsolicited, Done, TypeInv, TypeOK, AtHand, NoPkt, NoCopy

(* Types are kept by a round of the timeout thread.                          *)
LEMMA TimeoutTypes ==
  ASSUME TypeInv, Timeout
  PROVE  TypeInv'
  BY DEF Timeout, ClearBits, TypeInv, TypeOK, AtHand

(* Types are kept as time passes: ages stay below their bound.               *)
LEMMA TickTypes ==
  ASSUME TypeInv, Tick
  PROVE  TypeInv'
  <1>1. mappings' \subseteq Mapping
    BY OlderMapping DEF Tick, TypeInv, TypeOK
  <1>2. conns' \subseteq Connection
    BY OlderConnection DEF Tick, TypeInv, TypeOK
  <1>3. unsol' \subseteq Unsol
    BY OlderUnsol DEF Tick, TypeInv, TypeOK
  <1> QED BY <1>1, <1>2, <1>3 DEF Tick, TypeInv, TypeOK, AtHand

(* Types are kept when a walk from a stray pointer loses packets.            *)
LEMMA LostTypes ==
  ASSUME TypeInv, UnsolicitedLost
  PROVE  TypeInv'
  <1>1. unsol' \subseteq Unsol
    BY DEF UnsolicitedLost, TypeInv, TypeOK
  <1>2. unsolFreed' \in BOOLEAN
    BY DEF UnsolicitedLost
  <1> QED BY <1>1, <1>2 DEF UnsolicitedLost, TypeInv, TypeOK, AtHand

(* Every step keeps the types.                                               *)
LEMMA NextTypes ==
  ASSUME TypeInv, [Next]_vars
  PROVE  TypeInv'
  <1>1. ASSUME NEW p \in Packet, Receive(p) PROVE TypeInv'
    BY <1>1, ReceiveTypes
  <1>2. CASE MainStep
    <2>1. CASE InsertConnectionNull
      BY <2>1, EndTypes DEF InsertConnectionNull
    <2>2. CASE Translate
      BY <2>2, EndTypes DEF Translate
    <2> QED BY <1>2, <2>1, <2>2, PrintTypes, LookupTypes, InsertMappingTypes,
               InsertConnectionTypes, UpdateTypes, BufferTypes DEF MainStep
  <1>3. CASE UnsolicitedFreed \/ UnsolicitedLost
    BY <1>3, EndTypes, LostTypes DEF UnsolicitedFreed
  <1>4. CASE Timeout
    BY <1>4, TimeoutTypes
  <1>5. CASE Tick
    BY <1>5, TickTypes
  <1>6. CASE UNCHANGED vars
    BY <1>6 DEF vars, TypeInv, TypeOK, AtHand
  <1> QED BY <1>1, <1>2, <1>3, <1>4, <1>5, <1>6 DEF Next

(* Every reachable state is well typed: every step of main has at hand the   *)
(* packet and the copy it dereferences.                                      *)
THEOREM TypesHold == Spec => [](TypeOK /\ AtHand)
  <1>1. Init => TypeInv
    BY InitTypes
  <1>2. TypeInv /\ [Next]_vars => TypeInv'
    BY NextTypes
  <1>3. TypeInv => TypeOK /\ AtHand
    BY DEF TypeInv
  <1> QED BY <1>1, <1>2, <1>3, PTL DEF Spec

-----------------------------------------------------------------------------
(* Safety of the table                                                       *)

(* A step that ends, abandons or merely advances the handling of a packet    *)
(* and leaves mappings, connections and bits alone.                          *)
Quiet ==
  /\ UNCHANGED <<mappings, conns, bitmap>>
  /\ alloc' \in Nat /\ alloc' >= alloc
  /\ copy' \in {copy, NoCopy}
  /\ pc # "crashed" /\ pc' \notin {"insertMapping", "insertConnection"}
  /\ pc = "insertConnection" => pc' = "crashed"

(* A quiet step keeps the safety invariant.                                  *)
LEMMA QuietKeeps ==
  ASSUME TypeInv, TableInv, Quiet
  PROVE  TableInv'
  <1>1. alloc \in Nat /\ NoCopy.born = 0
    BY DEF TypeInv, TypeOK, NoCopy
  <1>2. Numbered'
    <2>1. copy'.born <= alloc'
      <3>1. copy.born \in Nat
        BY DEF TypeInv, TypeOK, Snapshot, Serial, NoCopy
      <3> QED BY <1>1, <3>1 DEF Quiet, TableInv, Numbered
    <2>2. \A m \in mappings : m.born \in Nat
      BY DEF TypeInv, TypeOK, Mapping, Serial
    <2>3. \A c \in conns : c.born \in Nat /\ c.owner \in Nat
      BY DEF TypeInv, TypeOK, Connection, Serial
    <2> QED BY <1>1, <2>1, <2>2, <2>3 DEF Quiet, TableInv, Numbered
  <1>3. HalfMade'
    BY DEF Quiet, HalfMade
  <1>4. CopyNotContradicted'
    BY DEF Quiet, TableInv, CopyNotContradicted
  <1>5. BareMappingInFlight'
    BY DEF Quiet, TableInv, BareMappingInFlight, ConnsOf
  <1>6. /\ InternalPairUnique' /\ ExternalIdUnique' /\ BitmapExact'
        /\ ConnectionBelongsToOpener'
    BY DEF Quiet, TableInv, InternalPairUnique, ExternalIdUnique, BitmapExact,
           ConnectionBelongsToOpener
  <1> QED BY <1>2, <1>3, <1>4, <1>5, <1>6 DEF TableInv

(* The steps that are quiet.                                                 *)
LEMMA EndIsQuiet ==
  ASSUME TypeInv, Done \/ Crash, UNCHANGED <<mappings, conns, bitmap, alloc>>,
         pc # "crashed", Done => pc # "insertConnection"
  PROVE  Quiet
  BY DEF Done, Crash, Quiet, TypeInv, TypeOK

(* Buffering an unsolicited packet is quiet: it allocates a node but touches *)
(* no mapping.                                                               *)
LEMMA BufferingIsQuiet ==
  ASSUME TypeInv, UpdateConnectionNull \/ BufferUnsolicited
  PROVE  Quiet
  <1>1. alloc' \in Nat /\ alloc' >= alloc
    BY DEF UpdateConnectionNull, BufferUnsolicited, InsertUnsolicited, TypeInv, TypeOK
  <1> QED BY <1>1 DEF UpdateConnectionNull, BufferUnsolicited, Done, Quiet

(* Receiving a packet, the unlocked walk, reads of freed memory, crashes and *)
(* the rewriting of the packet are quiet.                                    *)
LEMMA ReadingIsQuiet ==
  ASSUME TypeInv,
         \/ \E p \in Packet : Receive(p)
         \/ PrintMapping \/ PrintFreed \/ UpdateFreed
         \/ InsertConnectionNull \/ Translate \/ UnsolicitedFreed
  PROVE  Quiet
  <1>1. CASE \E p \in Packet : Receive(p)
    BY <1>1 DEF Receive, Quiet, table, TypeInv, TypeOK
  <1>2. CASE PrintMapping
    BY <1>2 DEF PrintMapping, Quiet, table, TypeInv, TypeOK
  <1>3. CASE PrintFreed
    BY <1>3 DEF PrintFreed, Crash, Quiet, table, TypeInv, TypeOK
  <1>4. CASE UpdateFreed
    BY <1>4 DEF UpdateFreed, Crash, Done, Quiet, table, TypeInv, TypeOK
  <1>5. CASE InsertConnectionNull \/ Translate \/ UnsolicitedFreed
    <2>1. UNCHANGED <<mappings, conns, bitmap, alloc>> /\ pc # "crashed"
      BY <1>5 DEF InsertConnectionNull, Translate, UnsolicitedFreed, WalksFreed, table
    <2>2. Crash \/ (Done /\ pc # "insertConnection")
      BY <1>5 DEF InsertConnectionNull, Translate, UnsolicitedFreed, WalksFreed
    <2> QED BY <2>1, <2>2 DEF Done, Crash, Quiet, TypeInv, TypeOK
  <1> QED BY <1>1, <1>2, <1>3, <1>4, <1>5

(* A lookup either ends quietly, learns that the pair is unmapped, or copies *)
(* a mapping.                                                                *)
LEMMA LookupKeeps ==
  ASSUME TypeInv, TableInv, LookupInternal \/ LookupExternal
  PROVE  TableInv'
  <1>1. UNCHANGED table /\ pc = "lookup"
    BY DEF LookupInternal, LookupExternal
  <1>2. CASE /\ LookupInternal /\ ByInternal(pkt.int) = {}
             /\ pc' = "insertMapping" /\ copy' = NoCopy
    <2>1. pkt' = pkt
      BY <1>2 DEF LookupInternal
    <2>2. HalfMade'
      BY <1>1, <1>2, <2>1 DEF HalfMade, ByInternal, table
    <2>3. NoCopy.born <= alloc
      BY DEF NoCopy, TypeInv, TypeOK
    <2> QED BY <1>1, <1>2, <2>2, <2>3
          DEF TableInv, Numbered, InternalPairUnique, ExternalIdUnique, BitmapExact,
              CopyNotContradicted, ConnectionBelongsToOpener, BareMappingInFlight,
              ConnsOf, table
  <1>3. ASSUME NEW m \in mappings, copy' \in Snapshots(m),
               pc' \in {"update", "translate"}
        PROVE  TableInv'
    <2>1. copy'.int = m.int /\ copy'.ext = m.ext /\ copy'.born = m.born
      BY <1>3, SnapshotFields DEF TypeInv
    <2>2. CopyNotContradicted'
      BY <1>1, <2>1 DEF CopyNotContradicted, TableInv, ExternalIdUnique, table
    <2>3. HalfMade'
      BY <1>3 DEF HalfMade
    <2> QED BY <1>1, <1>3, <2>1, <2>2, <2>3
          DEF TableInv, Numbered, InternalPairUnique, ExternalIdUnique, BitmapExact,
              ConnectionBelongsToOpener, BareMappingInFlight, ConnsOf, table
  <1>4. CASE LookupExternal /\ ByExternal(pkt.id) = {}
    <2>0. Done \/ (pc' = "buffer" /\ UNCHANGED copy)
      BY <1>4 DEF LookupExternal, IsNewest
    <2>1. Quiet
      BY <1>1, <2>0 DEF Done, Quiet, table, TypeInv, TypeOK
    <2> QED BY <2>1, QuietKeeps
  <1>5. CASE LookupInternal
    BY <1>2, <1>3, <1>5 DEF LookupInternal
  <1>6. CASE LookupExternal
    BY <1>3, <1>4, <1>6 DEF LookupExternal
  <1> QED BY <1>5, <1>6

(* The id handed out is the last one, or one that no mapping has.            *)
LEMMA NewIdUnused ==
  ASSUME TypeInv, TableInv, NEW id \in Ids, FindNextId(id, bitmap'), id # LastId
  PROVE  /\ \A m \in mappings : m.ext # id
         /\ bitmap' = bitmap \cup {id}
  BY DEF FindNextId, TableInv, BitmapExact

(* sr_nat_insert_mapping keeps the invariant: the pair is still unmapped,    *)
(* although the lock was released after the lookup, and the id it takes is   *)
(* in use by no mapping and no copy.                                         *)
LEMMA InsertMappingKeeps ==
  ASSUME TypeInv, TableInv, InsertMapping
  PROVE  TableInv'
  <1>1. PICK id \in Ids :
          /\ FindNextId(id, bitmap')
          /\ mappings' = mappings \cup
               {[type |-> IF pkt.kind = "out" THEN "tcp" ELSE "icmp",
                 int |-> pkt.int, ext |-> id, age |-> 0, born |-> alloc + 1]}
          /\ copy' = [int |-> pkt.int, ext |-> id, born |-> alloc + 1,
                      conns |-> 0, near |-> {}]
    BY DEF InsertMapping
  <1> DEFINE new == [type |-> IF pkt.kind = "out" THEN "tcp" ELSE "icmp",
                     int |-> pkt.int, ext |-> id, age |-> 0, born |-> alloc + 1]
  <1>2. /\ mappings' = mappings \cup {new} /\ new \in mappings'
        /\ new.int = pkt.int /\ new.ext = id /\ new.born = alloc + 1
        /\ copy'.int = pkt.int /\ copy'.ext = id /\ copy'.born = alloc + 1
        /\ new.type = IF pkt.kind = "out" THEN "tcp" ELSE "icmp"
    BY <1>1
  <1> HIDE DEF new
  <1>3. /\ conns' = conns /\ pkt' = pkt /\ alloc' = alloc + 1 /\ alloc \in Nat
        /\ pc = "insertMapping"
        /\ pc' = IF pkt.kind = "out" THEN "insertConnection" ELSE "translate"
    BY DEF InsertMapping, TypeInv, TypeOK
  <1>4. /\ \A m \in mappings : m.born \in Nat /\ m.born <= alloc /\ m.int # pkt.int
        /\ \A c \in conns : c.born \in Nat /\ c.owner \in Nat
        /\ \A c \in conns : c.born <= alloc /\ c.owner <= alloc
    BY <1>3 DEF TypeInv, TypeOK, Mapping, Connection, Serial, TableInv, Numbered,
                HalfMade, ByInternal
  <1>5. id # LastId => /\ \A m \in mappings : m.ext # id
                       /\ bitmap' = bitmap \cup {id}
    BY <1>1, NewIdUnused
  <1>6. id = LastId => bitmap' \in {bitmap, bitmap \cup {LastId}}
    BY <1>1 DEF FindNextId
  <1>7. Numbered'
    BY <1>2, <1>3, <1>4 DEF TableInv, Numbered
  <1>8. HalfMade'
    <2>1. \A m \in mappings' : m.born <= alloc + 1 /\ (m.born = alloc + 1 => m = new)
      BY <1>2, <1>3, <1>4
    <2>2. \A c \in conns' : c.owner # alloc + 1
      BY <1>3, <1>4
    <2> QED BY <1>2, <1>3, <2>1, <2>2 DEF HalfMade
  <1>9. InternalPairUnique'
    BY <1>2, <1>4 DEF TableInv, InternalPairUnique
  <1>10. ExternalIdUnique'
    BY <1>2, <1>5 DEF TableInv, ExternalIdUnique
  <1>11. BitmapExact'
    BY <1>2, <1>5, <1>6 DEF TableInv, BitmapExact
  <1>12. CopyNotContradicted'
    BY <1>2, <1>5 DEF CopyNotContradicted
  <1>13. ConnectionBelongsToOpener'
    BY <1>2, <1>3, <1>4 DEF TableInv, ConnectionBelongsToOpener
  <1>14. BareMappingInFlight'
    BY <1>2, <1>3 DEF TableInv, BareMappingInFlight, ConnsOf
  <1> QED BY <1>7, <1>8, <1>9, <1>10, <1>11, <1>12, <1>13, <1>14 DEF TableInv

(* sr_nat_insert_connection keeps the invariant: the mapping it finds by     *)
(* port is the one just made, or one that the last id is shared with.        *)
LEMMA InsertConnectionKeeps ==
  ASSUME TypeInv, TableInv, InsertConnection
  PROVE  TableInv'
  <1>1. PICK m \in mappings :
          /\ Attached(m)
          /\ conns' = conns \cup
               {[owner |-> m.born, peer |-> pkt.peer, opener |-> pkt.int,
                 state |-> "SYN_SENT", age |-> 0, born |-> alloc + 1]}
    BY DEF InsertConnection
  <1> DEFINE new == [owner |-> m.born, peer |-> pkt.peer, opener |-> pkt.int,
                     state |-> "SYN_SENT", age |-> 0, born |-> alloc + 1]
  <1>2. /\ conns' = conns \cup {new} /\ new \in conns'
        /\ new.owner = m.born /\ new.opener = pkt.int /\ new.born = alloc + 1
    BY <1>1
  <1> HIDE DEF new
  <1>3. /\ mappings' = mappings /\ bitmap' = bitmap /\ pkt' = pkt /\ copy' = copy
        /\ alloc' = alloc + 1 /\ alloc \in Nat
        /\ pc = "insertConnection" /\ pc' = "translate"
    BY DEF InsertConnection, TypeInv, TypeOK
  <1>4. /\ copy \in Snapshot /\ copy # NoCopy /\ copy.int = pkt.int
        /\ copy.born \in Nat
    BY <1>3 DEF TypeInv, AtHand, TableInv, HalfMade, Snapshot, NoCopy, Serial
  <1>5. m.ext = copy.ext /\ \A n \in mappings : n.ext = copy.ext => n.born <= m.born
    BY <1>1 DEF Attached, IsNewest, ByExternal
  <1>6. /\ \A n \in mappings : n.born \in Nat /\ n.born <= alloc
        /\ \A c \in conns : c.born \in Nat /\ c.owner \in Nat
        /\ \A c \in conns : c.born <= alloc /\ c.owner <= alloc
    BY DEF TypeInv, TypeOK, Mapping, Connection, Serial, TableInv, Numbered
  <1>7. m.ext # LastId => m.int = pkt.int /\ m.born = copy.born
    BY <1>4, <1>5 DEF TableInv, CopyNotContradicted
  <1>8. Numbered'
    BY <1>2, <1>3, <1>4, <1>6 DEF TableInv, Numbered
  <1>9. HalfMade'
    BY <1>3 DEF HalfMade
  <1>10. InternalPairUnique' /\ ExternalIdUnique' /\ BitmapExact' /\ CopyNotContradicted'
    BY <1>3 DEF TableInv, InternalPairUnique, ExternalIdUnique, BitmapExact,
                CopyNotContradicted
  <1>11. ConnectionBelongsToOpener'
    <2>1. \A n \in mappings : n.born = m.born => n = m
      BY DEF TableInv, Numbered
    <2> QED BY <1>2, <1>3, <1>7, <2>1 DEF TableInv, ConnectionBelongsToOpener
  <1>12. BareMappingInFlight'
    <2>1. ASSUME NEW b \in mappings, b.born = copy.born PROVE b.born = m.born
      <3>1. b.ext = copy.ext /\ m.born <= copy.born
        BY <1>3, <2>1 DEF TableInv, HalfMade
      <3> QED BY <1>4, <1>5, <1>6, <2>1, <3>1
    <2> QED BY <1>2, <1>3, <2>1 DEF TableInv, BareMappingInFlight, ConnsOf
  <1> QED BY <1>8, <1>9, <1>10, <1>11, <1>12 DEF TableInv

(* sr_nat_update_connection keeps the invariant: the connection it rewrites  *)
(* keeps its place and its peer.                                             *)
LEMMA UpdateConnectionKeeps ==
  ASSUME TypeInv, TableInv, UpdateConnection
  PROVE  TableInv'
  <1>1. PICK c \in Hits : conns' = (conns \ {c}) \cup {Advanced(c)}
    BY DEF UpdateConnection
  <1> DEFINE new == Advanced(c)
  <1>2. c \in conns /\ c \in Connection
    BY <1>1 DEF Hits, Chain, TypeInv, TypeOK
  <1>3. /\ new.owner = c.owner /\ new.opener = c.opener /\ new.born = c.born
        /\ conns' = (conns \ {c}) \cup {new}
    BY <1>1, <1>2, AdvancedConnection
  <1> HIDE DEF new
  <1>4. /\ mappings' = mappings /\ bitmap' = bitmap /\ alloc' = alloc
        /\ alloc \in Nat /\ pc = "update"
        /\ pc' \in {"idle", "translate"} /\ copy' \in {copy, NoCopy}
    BY DEF UpdateConnection, Done, TypeInv, TypeOK
  <1>5. Numbered'
    <2>1. NoCopy.born <= alloc
      BY <1>4 DEF NoCopy
    <2> QED BY <1>2, <1>3, <1>4, <2>1 DEF TableInv, Numbered
  <1>6. HalfMade'
    BY <1>4 DEF HalfMade
  <1>7. InternalPairUnique' /\ ExternalIdUnique' /\ BitmapExact' /\ CopyNotContradicted'
    BY <1>4 DEF TableInv, InternalPairUnique, ExternalIdUnique, BitmapExact,
                CopyNotContradicted
  <1>8. ConnectionBelongsToOpener'
    BY <1>2, <1>3, <1>4 DEF TableInv, ConnectionBelongsToOpener
  <1>9. BareMappingInFlight'
    BY <1>2, <1>3, <1>4 DEF TableInv, BareMappingInFlight, ConnsOf
  <1> QED BY <1>5, <1>6, <1>7, <1>8, <1>9 DEF TableInv

(* A round of the timeout thread takes nodes away; the bits it clears are    *)
(* those of the mappings it frees, and what it leaves has connections.       *)
LEMMA TimeoutKeeps ==
  ASSUME TypeInv, TableInv, Timeout
  PROVE  TableInv'
  <1> DEFINE gone == {m \in mappings : MappingDue(m)}
  <1>1. /\ mappings' = mappings \ gone /\ bitmap' = bitmap \ {m.ext : m \in gone}
        /\ conns' = conns \ FreedConns
        /\ alloc' = alloc /\ pc' = pc /\ pkt' = pkt /\ copy' = copy
    BY DEF Timeout, ClearBits
  <1>2. mappings' \subseteq mappings /\ conns' \subseteq conns
    BY <1>1
  <1>3. Numbered'
    BY <1>1, <1>2 DEF TableInv, Numbered
  <1>4. HalfMade'
    BY <1>1, <1>2 DEF TableInv, HalfMade, ByInternal
  <1>5. BitmapExact'
    <2>1. ASSUME NEW id \in Ids \ {LastId}
          PROVE  id \in bitmap' <=> \E m \in mappings' : m.ext = id
      <3>1. \A m, n \in mappings : m.ext = id /\ n.ext = id => m = n
        BY <2>1 DEF TableInv, ExternalIdUnique
      <3>2. id \in bitmap <=> \E m \in mappings : m.ext = id
        BY <2>1 DEF TableInv, BitmapExact
      <3>3. id \in bitmap' <=> id \in bitmap /\ \A m \in gone : m.ext # id
        BY <1>1
      <3>4. gone \subseteq mappings /\ mappings' = mappings \ gone
        BY <1>1
      <3> HIDE DEF gone
      <3> QED BY <3>1, <3>2, <3>3, <3>4
    <2> QED BY <2>1 DEF BitmapExact
  <1>6. /\ InternalPairUnique' /\ ExternalIdUnique' /\ CopyNotContradicted'
        /\ ConnectionBelongsToOpener'
    BY <1>1, <1>2 DEF TableInv, InternalPairUnique, ExternalIdUnique, CopyNotContradicted,
                      ConnectionBelongsToOpener
  <1>7. BareMappingInFlight'
    <2>1. ASSUME NEW m \in mappings', m.type = "tcp", (ConnsOf(m) = {})'
          PROVE  FALSE
      <3>1. m \in mappings /\ ~MappingDue(m)
        BY <1>1, <2>1
      <3>2. PICK c \in ConnsOf(m) : c \notin FreedConns
        BY <2>1, <3>1 DEF MappingDue
      <3> QED BY <1>1, <2>1, <3>2 DEF ConnsOf
    <2> QED BY <2>1 DEF BareMappingInFlight
  <1> QED BY <1>3, <1>4, <1>5, <1>6, <1>7 DEF TableInv

(* Ageing maps the nodes one to one onto nodes that differ in age.           *)
LEMMA TickKeeps ==
  ASSUME TypeInv, TableInv, Tick
  PROVE  TableInv'
  <1> DEFINE M(m) == IF m.type = "icmp" THEN Older(m) ELSE m
  <1>1. /\ mappings' = {M(m) : m \in mappings}
        /\ conns' = {Older(c) : c \in conns}
        /\ bitmap' = bitmap /\ alloc' = alloc /\ pc' = pc /\ pkt' = pkt /\ copy' = copy
    BY DEF Tick
  <1>2. \A m \in mappings : /\ M(m).type = m.type /\ M(m).int = m.int
                            /\ M(m).ext = m.ext /\ M(m).born = m.born
    BY OlderMapping DEF TypeInv, TypeOK
  <1>3. \A c \in conns : /\ Older(c).owner = c.owner /\ Older(c).opener = c.opener
                         /\ Older(c).born = c.born
    BY OlderConnection DEF TypeInv, TypeOK
  <1> HIDE DEF M
  <1>4. Numbered'
    BY <1>1, <1>2, <1>3 DEF TableInv, Numbered
  <1>5. HalfMade'
    BY <1>1, <1>2, <1>3 DEF TableInv, HalfMade, ByInternal
  <1>6. InternalPairUnique'
    BY <1>1, <1>2 DEF TableInv, InternalPairUnique
  <1>7. ExternalIdUnique'
    BY <1>1, <1>2 DEF TableInv, ExternalIdUnique
  <1>8. BitmapExact'
    BY <1>1, <1>2 DEF TableInv, BitmapExact
  <1>9. CopyNotContradicted'
    BY <1>1, <1>2 DEF TableInv, CopyNotContradicted
  <1>10. ConnectionBelongsToOpener'
    BY <1>1, <1>2, <1>3 DEF TableInv, ConnectionBelongsToOpener
  <1>11. BareMappingInFlight'
    <2>1. ASSUME NEW n \in mappings', n.type = "tcp", ConnsOf(n)' = {}
          PROVE  pc' = "crashed" \/ (pc' = "insertConnection" /\ copy'.born = n.born)
      <3>1. PICK m \in mappings : m.type = n.type /\ m.born = n.born
        BY <1>1, <1>2
      <3>2. \A c \in conns' : c.owner # n.born
        BY <2>1 DEF ConnsOf
      <3>3. ConnsOf(m) = {}
        BY <1>1, <1>3, <3>1, <3>2 DEF ConnsOf
      <3> QED BY <1>1, <2>1, <3>1, <3>3 DEF TableInv, BareMappingInFlight
    <2> QED BY <2>1 DEF BareMappingInFlight
  <1> QED BY <1>4, <1>5, <1>6, <1>7, <1>8, <1>9, <1>10, <1>11 DEF TableInv

(* A walk from a stray pointer loses packets and nothing else.               *)
LEMMA LostKeeps ==
  ASSUME TableInv, UnsolicitedLost
  PROVE  TableInv'
  BY DEF UnsolicitedLost, TableInv, Numbered, HalfMade, InternalPairUnique, ExternalIdUnique,
         BitmapExact, CopyNotContradicted, ConnectionBelongsToOpener,
         BareMappingInFlight, ByInternal, ConnsOf

(* The empty table satisfies the invariant.                                  *)
LEMMA InitTable == Init => TableInv
  BY DEF Init, NoCopy, TableInv, Numbered, HalfMade, InternalPairUnique, ExternalIdUnique,
         BitmapExact, CopyNotContradicted, ConnectionBelongsToOpener,
         BareMappingInFlight

(* Every step keeps the invariant.                                           *)
LEMMA NextTable ==
  ASSUME TypeInv, TableInv, [Next]_vars
  PROVE  TableInv'
  <1>1. CASE \E p \in Packet : Receive(p)
    BY <1>1, ReadingIsQuiet, QuietKeeps
  <1>2. CASE MainStep
    BY <1>2, ReadingIsQuiet, BufferingIsQuiet, QuietKeeps, LookupKeeps,
       InsertMappingKeeps, InsertConnectionKeeps, UpdateConnectionKeeps DEF MainStep
  <1>3. CASE UnsolicitedFreed \/ UnsolicitedLost
    BY <1>3, ReadingIsQuiet, QuietKeeps, LostKeeps
  <1>4. CASE Timeout
    BY <1>4, TimeoutKeeps
  <1>5. CASE Tick
    BY <1>5, TickKeeps
  <1>6. CASE UNCHANGED vars
    BY <1>6 DEF vars, TableInv, Numbered, HalfMade, InternalPairUnique, ExternalIdUnique,
                BitmapExact, CopyNotContradicted, ConnectionBelongsToOpener,
                BareMappingInFlight, ByInternal, ConnsOf
  <1> QED BY <1>1, <1>2, <1>3, <1>4, <1>5, <1>6 DEF Next

(* The safety of the translation table, whatever the hosts send and however  *)
(* the timeout thread interleaves with the handling of a packet.             *)
THEOREM TableSafe == Spec => []TableInv
  <1>1. Init => TypeInv /\ TableInv
    BY InitTypes, InitTable
  <1>2. TypeInv /\ TableInv /\ [Next]_vars => TypeInv' /\ TableInv'
    BY NextTypes, NextTable
  <1> QED BY <1>1, <1>2, PTL DEF Spec

(* The named parts of the invariant, for the reader.                         *)
THEOREM MappingsUnique == Spec => [](InternalPairUnique /\ ExternalIdUnique)
  BY TableSafe, PTL DEF TableInv

(* A bit of the bitmap is set exactly while a mapping has its id, the last   *)
(* one aside: ClearBit and find_next_id agree, for any number of ids.        *)
THEOREM BitsMatchMappings == Spec => []BitmapExact
  BY TableSafe, PTL DEF TableInv

(* The copy that main translates a packet with after the lock was released   *)
(* is never contradicted by the table, for any timeouts.                     *)
THEOREM CopiesHold == Spec => []CopyNotContradicted
  BY TableSafe, PTL DEF TableInv

(* A connection stays below the mapping of the pair that opened it, and a    *)
(* TCP mapping without one is being made.                                    *)
THEOREM ConnectionsHold == Spec => [](ConnectionBelongsToOpener /\ BareMappingInFlight)
  BY TableSafe, PTL DEF TableInv

-----------------------------------------------------------------------------
(* The table implements Bindings                                             *)

(* A set of mappings read as a function from internal pairs to ids.          *)
FnOf(S) == [i \in {m.int : m \in S} |-> (CHOOSE m \in S : m.int = i).ext]

Unique(S) == \A m, n \in S : m.int = n.int => m = n

(* With one mapping for each pair, its id is the one the function has.       *)
LEMMA FnOfAt ==
  ASSUME NEW S, Unique(S), NEW m \in S
  PROVE  FnOf(S)[m.int] = m.ext
  <1> DEFINE c == CHOOSE n \in S : n.int = m.int
  <1>1. c \in S /\ c.int = m.int
    OBVIOUS
  <1>2. c = m
    BY <1>1 DEF Unique
  <1>3. FnOf(S)[m.int] = c.ext
    BY DEF FnOf
  <1> QED BY <1>2, <1>3

(* A function with the same pairs and ids is that function.                  *)
LEMMA FnOfIs ==
  ASSUME NEW S, Unique(S), NEW f, f = [i \in DOMAIN f |-> f[i]],
         DOMAIN f = {m.int : m \in S}, \A m \in S : f[m.int] = m.ext
  PROVE  FnOf(S) = f
  <1>1. \A i \in DOMAIN f : FnOf(S)[i] = f[i]
    BY FnOfAt
  <1> QED BY <1>1 DEF FnOf

(* The function is the binding that NatTable names.                          *)
LEMMA BindingIs ==
  /\ Binding = FnOf(mappings) /\ Binding' = FnOf(mappings')
  /\ Bound!Bound = {m.int : m \in mappings}
  /\ (TableInv => Unique(mappings)) /\ (TableInv' => Unique(mappings'))
  BY DEF Binding, FnOf, Bound!Bound, TableInv, InternalPairUnique, Unique

(* sr_nat_insert_mapping binds the pair to the lowest free id.               *)
LEMMA InsertBinds ==
  ASSUME TypeInv, TableInv, TableInv', InsertMapping
  PROVE  \E i \in Inside, id \in Ids : Bound!Bind(i, id)
  <1>1. PICK id \in Ids :
          /\ FindNextId(id, bitmap')
          /\ mappings' = mappings \cup
               {[type |-> IF pkt.kind = "out" THEN "tcp" ELSE "icmp",
                 int |-> pkt.int, ext |-> id, age |-> 0, born |-> alloc + 1]}
    BY DEF InsertMapping
  <1> DEFINE new == [type |-> IF pkt.kind = "out" THEN "tcp" ELSE "icmp",
                     int |-> pkt.int, ext |-> id, age |-> 0, born |-> alloc + 1]
             i == pkt.int
             B == {m.int : m \in mappings}
             f == [j \in B \cup {i} |-> IF j = i THEN id ELSE Binding[j]]
  <1>2. mappings' = mappings \cup {new} /\ new.int = i /\ new.ext = id
    BY <1>1
  <1> HIDE DEF new
  <1>3. i \in Inside
    BY DEF InsertMapping, TypeInv, AtHand, OutSegment, Query
  <1>4. i \notin B
    BY DEF InsertMapping, TableInv, HalfMade, ByInternal
  <1>5. Binding' = f
    <2>1. \A m \in mappings' : f[m.int] = m.ext
      <3>1. ASSUME NEW m \in mappings PROVE f[m.int] = m.ext
        <4>1. m.int \in B /\ m.int # i
          BY <1>4
        <4>2. Binding[m.int] = m.ext
          BY FnOfAt, BindingIs
        <4> QED BY <4>1, <4>2
      <3>2. f[new.int] = new.ext
        BY <1>2
      <3> QED BY <1>2, <3>1, <3>2
    <2>2. DOMAIN f = {m.int : m \in mappings'}
      BY <1>2
    <2>3. f = [j \in DOMAIN f |-> f[j]]
      OBVIOUS
    <2> HIDE DEF f
    <2> QED BY <2>1, <2>2, <2>3, FnOfIs, BindingIs
  <1>6. \A m \in mappings : Binding[m.int] = m.ext
    BY FnOfAt, BindingIs
  <1>7. id \notin Bound!Taken \/ id = LastId
    <2>1. CASE id # LastId
      <3>1. \A m \in mappings : m.ext # id
        BY <1>1, <2>1, NewIdUnused
      <3> QED BY <1>6, <3>1, BindingIs DEF Bound!Taken
    <2> QED BY <2>1
  <1>8. \A k \in FirstId .. (id - 1) : k \in Bound!Taken
    <2> SUFFICES ASSUME NEW k \in FirstId .. (id - 1) PROVE k \in Bound!Taken
      OBVIOUS
    <2>1. k \in Ids \ {LastId} /\ k \in bitmap
      BY <1>1, NatAssumption DEF FindNextId, Ids
    <2>2. PICK m \in mappings : m.ext = k
      BY <2>1 DEF TableInv, BitmapExact
    <2> QED BY <1>6, <2>2, BindingIs DEF Bound!Taken
  <1> QED BY <1>3, <1>4, <1>5, <1>7, <1>8, BindingIs
        DEF Bound!Bind, Bound!Ids, Ids

(* A round of the timeout thread unbinds the pairs whose mappings it frees.  *)
LEMMA TimeoutUnbinds ==
  ASSUME TypeInv, TableInv, TableInv', Timeout
  PROVE  \E S \in SUBSET Inside : Bound!Unbind(S)
  <1> DEFINE gone == {m \in mappings : MappingDue(m)}
             S == {m.int : m \in gone}
             B == {m.int : m \in mappings}
             f == [j \in B \ S |-> Binding[j]]
  <1>1. mappings' = mappings \ gone /\ gone \subseteq mappings
    BY DEF Timeout
  <1> HIDE DEF gone
  <1>2. S \subseteq Inside /\ S \subseteq B
    BY <1>1 DEF TypeInv, TypeOK, Mapping
  <1>3. \A m \in mappings : m.int \in S => m \in gone
    BY <1>1 DEF TableInv, InternalPairUnique
  <1>4. \A m \in mappings' : f[m.int] = m.ext
    <2> SUFFICES ASSUME NEW m \in mappings' PROVE f[m.int] = m.ext
      OBVIOUS
    <2>1. m \in mappings /\ m.int \in B \ S
      BY <1>1, <1>3
    <2>2. Binding[m.int] = m.ext
      BY <2>1, FnOfAt, BindingIs
    <2> QED BY <2>1, <2>2
  <1>5. DOMAIN f = {m.int : m \in mappings'}
    BY <1>1, <1>3
  <1>6. f = [j \in DOMAIN f |-> f[j]]
    OBVIOUS
  <1>7. Binding' = f
    <2> HIDE DEF f
    <2> QED BY <1>4, <1>5, <1>6, FnOfIs, BindingIs
  <1> QED BY <1>2, <1>7, BindingIs DEF Bound!Unbind

(* A second that passes binds and unbinds nothing.                           *)
LEMMA TickBindsNothing ==
  ASSUME TypeInv, TableInv, TableInv', Tick
  PROVE  Binding' = Binding
  <1> DEFINE M(m) == IF m.type = "icmp" THEN Older(m) ELSE m
  <1>1. mappings' = {M(m) : m \in mappings}
    BY DEF Tick
  <1>2. \A m \in mappings : M(m).int = m.int /\ M(m).ext = m.ext
    BY OlderMapping DEF TypeInv, TypeOK
  <1> HIDE DEF M
  <1>3. DOMAIN Binding = {m.int : m \in mappings'} /\ Binding = [i \in DOMAIN Binding |-> Binding[i]]
    BY <1>1, <1>2 DEF Binding
  <1>4. \A m \in mappings' : Binding[m.int] = m.ext
    BY <1>1, <1>2, FnOfAt, BindingIs
  <1> QED BY <1>3, <1>4, FnOfIs, BindingIs

(* Every step of the table is a step of Bindings or none.                    *)
LEMMA NextBinds ==
  ASSUME TypeInv, TableInv, TableInv', [Next]_vars
  PROVE  [Bound!NextBind]_Binding
  <1>1. CASE InsertMapping
    BY <1>1, InsertBinds DEF Bound!NextBind, Bound!Ids, Ids
  <1>2. CASE Timeout
    BY <1>2, TimeoutUnbinds DEF Bound!NextBind
  <1>3. CASE Tick
    BY <1>3, TickBindsNothing
  <1>4. ASSUME mappings' = mappings PROVE Binding' = Binding
    BY <1>4 DEF Binding
  <1>5. (\E p \in Packet : Receive(p)) \/ UnsolicitedFreed \/ UnsolicitedLost
        => mappings' = mappings
    BY DEF Receive, UnsolicitedFreed, UnsolicitedLost, table
  <1>6. MainStep => InsertMapping \/ mappings' = mappings
    BY DEF MainStep, PrintMapping, PrintFreed, LookupInternal, LookupExternal, InsertConnection,
           InsertConnectionNull, UpdateConnection, UpdateConnectionNull, UpdateFreed,
           BufferUnsolicited, Translate, table
  <1>7. UNCHANGED vars => mappings' = mappings
    BY DEF vars
  <1> QED BY <1>1, <1>2, <1>3, <1>4, <1>5, <1>6, <1>7 DEF Next

(* The list, the bitmap, the copies and the two threads implement what a NAT *)
(* promises its hosts, for any number of hosts and ids.                      *)
THEOREM TableBinds == Spec => ImplementsBindings
  <1>1. Init => Bound!InitBind
    BY DEF Init, Bound!InitBind, Binding
  <1>2. TypeInv /\ TableInv /\ TypeInv' /\ TableInv' /\ [Next]_vars => [Bound!NextBind]_Binding
    BY NextBinds
  <1>3. Init => TypeInv /\ TableInv
    BY InitTypes, InitTable
  <1>4. TypeInv /\ TableInv /\ [Next]_vars => TypeInv' /\ TableInv'
    BY NextTypes, NextTable
  <1> QED BY <1>1, <1>2, <1>3, <1>4, PTL DEF Spec, ImplementsBindings, Bound!SpecBind
=============================================================================
