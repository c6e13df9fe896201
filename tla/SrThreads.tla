----------------------------- MODULE SrThreads ------------------------------
(* The three threads of the router, the two recursive locks and the socket   *)
(* they share, on top of the main thread's session with the server.          *)
(*                                                                           *)
(* What a thread does with a packet or in a round is a script: the order in  *)
(* which it takes and gives back locks and writes frames.  NatTable and      *)
(* ArpCache say what happens in between.                                     *)
EXTENDS VnsSession

CONSTANTS
  Room,        \* parts of frames that the socket's buffer holds
  MaxRounds    \* bound: rounds of each of the timeout threads

ASSUME ThreadAssumption == Room \in Nat \ {0} /\ MaxRounds \in Nat

VARIABLES
  todo,      \* the rest of each thread's script
  holder,    \* the thread that has each lock, "none" for nobody
  depth,     \* and how many times
  started,   \* the threads that run
  tables,    \* sr_nat_init has set the table, the timeouts and the bitmap
  rounds,    \* rounds of the timeout threads so far
  partial    \* frame of which the server has read the first part, as a set

threads == <<todo, holder, depth, started, tables, rounds>>
vars == <<session, threads, partial>>

Threads == {"main", "nat", "arp"}
Locks == {"nat", "cache"}

-----------------------------------------------------------------------------
(* Scripts *)

Lock(l) == [op |-> "lock", lock |-> l]
Unlock(l) == [op |-> "unlock", lock |-> l]
Write == [op |-> "write", part |-> 1]
Rest == [op |-> "write", part |-> 2]

Within(l, steps) == <<Lock(l)>> \o steps \o <<Unlock(l)>>
Lookup == Within("cache", <<>>)

(* sr_send_icmp, and the end of sr_forward_ippacket: the next hop is looked  *)
(* up, and then the frame is written or the packet queued.                   *)
SendOrQueue == {Lookup \o <<Write>>, Lookup \o Within("cache", <<>>)}

(* Variant: the mapping is looked up while the ARP cache is locked. *)
PacketAcrossLocks == {Within("cache", Within("nat", <<>>) \o <<Write>>)}

(* Main: an ARP packet is inserted and answered, or lets the queue go; an IP *)
(* packet takes the NAT's lock for the lookup and for the insertion, where   *)
(* the unsolicited list takes it once more, and goes on or ends there.       *)
PacketScripts ==
  {Lookup \o <<Write>>, Lookup \o <<Write>> \o Lookup} \cup
  {Within("nat", Within("nat", <<>>)) \o s : s \in {<<>>} \cup SendOrQueue}

(* Variant: a round ends without giving the lock back. *)
NatKeepsLock == {<<Lock("nat")>>}

(* A round of sr_nat_timeout sends an ICMP error, or not, under its lock.    *)
NatScripts == {Within("nat", s) : s \in {<<>>} \cup SendOrQueue}

(* A round of sr_arpcache_timeout asks again or sends errors, or does not.   *)
ArpScripts == {Within("cache", s) : s \in {<<>>, <<Write>>} \cup SendOrQueue}

-----------------------------------------------------------------------------
Run(t, script) == todo' = [todo EXCEPT ![t] = script]

(* A timeout thread sleeps for a second before each round, but nothing keeps *)
(* it from one before the rest of sr_init is done.                           *)
Awake == started \ {"main"}

(* sr_init, after the ARP cache with its lock: the NAT's lock and thread,    *)
(* then its tables, then the ARP thread.                                     *)
SrInit ==
  /\ pc = "init"
  /\ \/ /\ "nat" \notin started /\ started' = started \cup {"nat"}
        /\ UNCHANGED <<pc, tables>>
     \/ /\ "nat" \in started /\ ~tables /\ tables' = TRUE
        /\ UNCHANGED <<pc, started>>
     \/ /\ tables /\ started' = started \cup {"arp"} /\ pc' = "loop"
        /\ UNCHANGED tables
  /\ UNCHANGED <<options, file, routes, ifs, ready, server, toRouter, toServer,
                 todo, holder, depth, rounds, partial>>

(* Main is at its reading place when its script is done.                     *)
MainReads == todo["main"] = <<>> /\ pc \notin Over

Main == MainReads /\ (Handshake \/ Dispatch) /\ UNCHANGED <<threads, partial>>

(* ARP requests for other addresses go no further.                           *)
HandlePacket ==
  /\ MainReads /\ PacketRead
  /\ \E script \in PacketScripts \cup {<<>>} : Run("main", script)
  /\ UNCHANGED <<holder, depth, started, tables, rounds, partial>>

(* The handler of an IP packet ends the program before it has sent anything: *)
(* the connection or the route that it goes on with is a null pointer, or a  *)
(* node of a list that it follows has been freed.                            *)
PacketFaults ==
  /\ MainReads /\ pc = "loop" /\ Read /\ Type = "PACKET" /\ ~Lacks(Head(toRouter).iface)
  /\ End("faulted")
  /\ UNCHANGED <<options, file, routes, ifs, ready, server, toServer, threads, partial>>

Round(t) ==
  /\ t \in Awake /\ todo[t] = <<>> /\ rounds[t] < MaxRounds /\ pc \notin Over
  /\ rounds' = [rounds EXCEPT ![t] = @ + 1]
  /\ \E script \in IF t = "nat" THEN NatScripts ELSE ArpScripts : Run(t, script)
  /\ UNCHANGED <<session, holder, depth, started, tables, partial>>

Next1(t) == Head(todo[t])
Doing(t, op) == pc \notin Over /\ todo[t] # <<>> /\ Next1(t).op = op

(* A round ends the program: a packet or a request that its walk goes on to  *)
(* has been freed, or the walk comes before the tables are there.            *)
RoundFaults(t) ==
  /\ pc \notin Over /\ holder[IF t = "nat" THEN "nat" ELSE "cache"] = t
  /\ End("faulted")
  /\ UNCHANGED <<options, file, routes, ifs, ready, server, toRouter, toServer, threads, partial>>

(* The locks are recursive. *)
Acquire(t) ==
  /\ Doing(t, "lock")
  /\ LET l == Next1(t).lock IN
     /\ holder[l] \in {"none", t}
     /\ holder' = [holder EXCEPT ![l] = t]
     /\ depth' = [depth EXCEPT ![l] = @ + 1]
  /\ Run(t, Tail(todo[t]))
  /\ UNCHANGED <<session, started, tables, rounds, partial>>

(* Variant: the lock is given back at once, however often it was taken. *)
ReleaseOnce(t) ==
  /\ Doing(t, "unlock")
  /\ LET l == Next1(t).lock IN
     /\ depth' = [depth EXCEPT ![l] = @ - 1]
     /\ holder' = [holder EXCEPT ![l] = "none"]
  /\ Run(t, Tail(todo[t]))
  /\ UNCHANGED <<session, started, tables, rounds, partial>>

Release(t) ==
  /\ Doing(t, "unlock")
  /\ LET l == Next1(t).lock IN
     /\ depth' = [depth EXCEPT ![l] = @ - 1]
     /\ holder' = [holder EXCEPT ![l] = IF depth[l] = 1 THEN "none" ELSE t]
  /\ Run(t, Tail(todo[t]))
  /\ UNCHANGED <<session, started, tables, rounds, partial>>

Part(t, n) == [by |-> t, part |-> n]

(* write() of a frame of two parts: what there is room for at once, and the  *)
(* rest when there is room again, when other threads may have written.       *)
Fits(n) == Len(toServer) + n <= Room

WriteFrame(t) ==
  \/ /\ Fits(2) /\ toServer' = toServer \o <<Part(t, 1), Part(t, 2)>>
     /\ Run(t, Tail(todo[t]))
  \/ /\ Fits(1) /\ ~Fits(2) /\ toServer' = Append(toServer, Part(t, 1))
     /\ Run(t, <<Rest>> \o Tail(todo[t]))

WriteRest(t) ==
  /\ Fits(1) /\ toServer' = Append(toServer, Part(t, 2))
  /\ Run(t, Tail(todo[t]))

SendPacket(t) ==
  /\ Doing(t, "write") /\ ~closed
  /\ IF Next1(t).part = 1 THEN WriteFrame(t) ELSE WriteRest(t)
  /\ UNCHANGED <<options, file, pc, routes, ifs, ready, server, toRouter, holder, depth, started,
                 tables, rounds, partial>>

(* A write to a server that has gone ends the program with SIGPIPE.  What is *)
(* written before the kernel has heard of it is seen by nobody.              *)
SendFails(t) ==
  /\ Doing(t, "write") /\ closed /\ End("ended")
  /\ UNCHANGED <<options, file, routes, ifs, ready, server, toRouter, toServer, threads, partial>>

(* The server reads as many parts as a frame has.  When they are not of one  *)
(* frame it cannot make sense of them and closes.                            *)
ServerReadFrame ==
  /\ ~closed /\ toServer # <<>> /\ "part" \in DOMAIN Head(toServer)
  /\ toServer' = Tail(toServer)
  /\ LET p == Head(toServer) IN
     IF p.part = 1 /\ partial = {} THEN partial' = {p.by} /\ UNCHANGED closed
     ELSE /\ partial' = {}
          /\ closed' = ~(p.part = 2 /\ partial = {p.by})
  /\ UNCHANGED <<options, file, pc, routes, ifs, ready, known, accepted, refused, dismissed, packets,
                 toRouter, early, threads>>

-----------------------------------------------------------------------------
Init ==
  /\ InitSession
  /\ todo = [t \in Threads |-> <<>>]
  /\ holder = [l \in Locks |-> "none"] /\ depth = [l \in Locks |-> 0]
  /\ started = {"main"} /\ tables = FALSE /\ rounds = [t \in Threads |-> 0]
  /\ partial = {}

Step(t) == Acquire(t) \/ Release(t) \/ SendPacket(t) \/ SendFails(t)

MainStep == Main \/ SrInit \/ HandlePacket \/ Step("main")
ServerStep == ServerRead /\ UNCHANGED <<threads, partial>>

Next ==
  \/ Main \/ SrInit \/ HandlePacket \/ PacketFaults
  \/ \E t \in Threads \ {"main"} : Round(t) \/ RoundFaults(t)
  \/ \E t \in Threads : Acquire(t) \/ Release(t) \/ SendPacket(t) \/ SendFails(t)
  \/ ServerReadFrame
  \/ Server /\ UNCHANGED <<threads, partial>>

Spec == Init /\ [][Next]_vars

(* The threads are scheduled, locks are handed on, and the server reads.     *)
FairSpec ==
  /\ Spec
  /\ WF_vars(Main \/ SrInit \/ HandlePacket)
  /\ \A t \in Threads : WF_vars(Step(t))
  /\ WF_vars(ServerStep) /\ WF_vars(ServerReadFrame)

-----------------------------------------------------------------------------
TypeOK ==
  /\ pc \in {"start", "connect", "auth", "status", "open", "rtable", "load", "init", "loop"} \cup Over
  /\ routes \in Seq(STRING)
  /\ \A l \in DOMAIN ifs : ifs[l].name \in Names
  /\ holder \in [Locks -> Threads \cup {"none"}] /\ depth \in [Locks -> 0 .. 3]
  /\ \A l \in Locks : (depth[l] = 0) = (holder[l] = "none")
  /\ started \subseteq Threads /\ Len(toServer) <= Room + 2

(* What the router is told about its hardware it has right: every interface  *)
(* has its own addresses, set one by one on "the last interface", and every  *)
(* route leads to one of them, whichever of the two tables was loaded.       *)
ReadyMeansKnown ==
  ready => ifs = Hardware /\ \A k \in DOMAIN routes : routes[k] \in Names

GoodTable == file.ok /\ file.routes \in Seq(Names) \ {NoTable}

(* Unless a handler or a round faults, the program ends for a reason outside *)
(* of it: it crashes only on a packet that the server broadcast before it    *)
(* told the interfaces, and ends with good files and a server that goes on   *)
(* only after a CLOSE or a command in the middle of the handshake.           *)
EndsForAReason ==
  /\ pc = "crashed" => early
  /\ pc = "ended" =>
       early \/ dismissed \/ refused \/ closed \/ ~key \/ ~accepted \/ ~writable \/ ~GoodTable

Wants(t, l) == todo[t] # <<>> /\ Next1(t).op = "lock" /\ Next1(t).lock = l

(* The threads never wait for each other in a circle: the NAT's lock comes   *)
(* first in every thread that takes both.                                    *)
NoCircularWait ==
  ~ \E t, u \in Threads, k, l \in Locks :
      t # u /\ holder[k] = t /\ holder[l] = u /\ Wants(t, l) /\ Wants(u, k)

(* Every command that the router is sent is read in the end, and every       *)
(* script comes to its end, unless the program has ended; a server that has  *)
(* stopped leaves the handshake waiting for good.                            *)
Drained ==
  <>[](pc \in Over \/ closed \/ (toRouter = <<>> /\ \A t \in Threads : todo[t] = <<>>))
=============================================================================
