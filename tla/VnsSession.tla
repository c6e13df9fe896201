----------------------------- MODULE VnsSession -----------------------------
(* The router's main thread from main() to its loop, the commands it reads   *)
(* there, and the server it talks to: the controller module of the           *)
(* repository (cs144/srhandler.py), with what the VNS server can say besides.*)
(* SrThreads adds the start of the threads and the handling of a packet.     *)
EXTENDS Naturals, Sequences, SequencesExt, FiniteSets

CONSTANTS
  Hardware,    \* the server's interfaces in order: [name, ip, mac]
  Tables,      \* what the file named on the command line may be: whether it is there
               \* and can be converted, and the interfaces of its routes
  SentTable,   \* the routes in the server's RTABLE
  MaxPackets   \* bound: packets that the server broadcasts

Junk == "junk"      \* what malloc returned
NoTable == <<>>
Names == {Hardware[k].name : k \in DOMAIN Hardware}

ASSUME SessionAssumption ==
  /\ Hardware \in Seq([name : STRING, ip : STRING, mac : STRING]) /\ Len(Hardware) > 0
  /\ \A k, l \in DOMAIN Hardware : Hardware[k].name = Hardware[l].name => k = l
  /\ SentTable \in Seq(Names) \ {NoTable}
  /\ \A f \in Tables : f.ok \in BOOLEAN /\ f.routes \in Seq(STRING)
  /\ MaxPackets \in Nat

VARIABLES
  \* the command line and the files
  template,   \* -T is given
  vrhost,     \* -r is rtable.vrhost, which matters with a template only
  writable,   \* rtable.vrhost can be opened to write to, which matters with a template only
  file,       \* the content of the file that -r names
  key,        \* auth_key can be read
  \* the router
  pc,         \* where the main thread is
  routes,     \* interfaces of the routing table's entries
  ifs,        \* if_list
  ready,      \* HWINFO has been accepted
  \* the server
  known,      \* it has got RouterInfo
  accepted,   \* the router is one of its srclients
  refused,    \* it did not authenticate the router
  dismissed,  \* it has sent a CLOSE
  closed,     \* it has closed the connection
  packets,    \* number of packets broadcast
  \* the connection
  toRouter,   \* commands on their way, oldest first
  toServer,
  early       \* a packet was broadcast before the HWINFO

options == <<template, vrhost, writable, key>>
server == <<known, accepted, refused, dismissed, closed, packets, early>>
session == <<options, file, pc, routes, ifs, ready, server, toRouter, toServer>>

-----------------------------------------------------------------------------
(* Commands.  A HWINFO is a sequence of entries, each with a key and a value.*)

Command(type) == [type |-> type]
Packet(iface) == [type |-> "PACKET", iface |-> iface]

Entries(i) == <<[key |-> "HWINTERFACE", value |-> i.name], [key |-> "HWSPEED", value |-> 0],
                [key |-> "HWETHER", value |-> i.mac], [key |-> "HWETHIP", value |-> i.ip]>>

HwInfo == [type |-> "HWINFO", entries |-> FlattenSeq([k \in DOMAIN Hardware |-> Entries(Hardware[k])])]

(* A crash comes from a packet that has no interface, a fault from what is   *)
(* done with a packet or in a round (SrThreads).                             *)
Over == {"ended", "crashed", "faulted"}
End(how) == pc' = how

-----------------------------------------------------------------------------
(* sr_load_rt: the first good line clears the table.  An empty file leaves   *)
(* it as it is.                                                              *)
Loads ==
  /\ file.ok
  /\ routes' = IF file.routes = NoTable THEN routes ELSE file.routes

(* sr_load_rt_wrap: exit(1), or on to the place "next". *)
LoadRt(from, next) ==
  /\ pc = from
  /\ \/ Loads /\ pc' = next
     \/ ~file.ok /\ End("ended") /\ UNCHANGED routes
  /\ UNCHANGED <<options, file, ifs, ready, server, toRouter, toServer>>

(* A template's routes come with the session.                                *)
LoadFirst == ~template /\ LoadRt("start", "connect")
SkipFirst ==
  /\ pc = "start" /\ template /\ pc' = "connect"
  /\ UNCHANGED <<options, file, routes, ifs, ready, server, toRouter, toServer>>

(* Also without a template, and for a template too unless -r names the file  *)
(* that the RTABLE was written to, the user's file is read.                  *)
LoadSecond == LoadRt("load", "init")

(* The server, if it is there, greets whoever connects.                      *)
Connect ==
  /\ pc = "connect"
  /\ \/ pc' = "auth" /\ accepted' = TRUE /\ toRouter' = <<Command("AUTH_REQUEST")>>
     \/ End("ended") /\ UNCHANGED <<accepted, toRouter>>
  /\ UNCHANGED <<options, file, routes, ifs, ready, known, refused, dismissed, closed, packets,
                 toServer, early>>

-----------------------------------------------------------------------------
(* sr_read_from_server_expect *)

Reading == toRouter # <<>>
Type == Head(toRouter).type
Read == Reading /\ toRouter' = Tail(toRouter)

Tell(type) == toServer' = Append(toServer, Command(type))

(* The command that is expected at each place of the handshake.              *)
Expected == [auth |-> "AUTH_REQUEST", status |-> "AUTH_STATUS", rtable |-> "RTABLE"]

(* CLOSE is let through, and returns a result that is not 1.                 *)
Unexpected ==
  /\ pc \in DOMAIN Expected /\ Read /\ Type # Expected[pc]
  /\ End("ended")
  /\ UNCHANGED <<options, file, routes, ifs, ready, server, toServer>>

AuthRequest ==
  /\ pc = "auth" /\ Read /\ Type = "AUTH_REQUEST"
  /\ \/ key /\ Tell("AUTH_REPLY") /\ pc' = "status"
     \/ ~key /\ End("ended") /\ UNCHANGED toServer
  /\ UNCHANGED <<options, file, routes, ifs, ready, server>>

AuthStatus ==
  /\ pc = "status" /\ Read /\ Type = "AUTH_STATUS"
  /\ IF Head(toRouter).ok THEN pc' = "open" ELSE End("ended")
  /\ UNCHANGED <<options, file, routes, ifs, ready, server, toServer>>

Open ==
  /\ pc = "open"
  /\ IF template THEN Tell("OPEN_TEMPLATE") /\ pc' = "rtable" ELSE Tell("OPEN") /\ pc' = "load"
  /\ UNCHANGED <<options, file, routes, ifs, ready, server, toRouter>>

(* sr_handle_rtable: the table is written to the file rtable.vrhost, and     *)
(* main ends when that file cannot be opened.                                *)
Rtable ==
  /\ pc = "rtable" /\ Read /\ Type = "RTABLE"
  /\ \/ /\ writable /\ pc' = "load"
        /\ file' = IF vrhost THEN [ok |-> TRUE, routes |-> SentTable] ELSE file
     \/ ~writable /\ End("ended") /\ UNCHANGED file
  /\ UNCHANGED <<options, routes, ifs, ready, server, toServer>>

(* sr_add_interface appends; the setters work on the last interface.         *)
New(name) == [name |-> name, ip |-> Junk, mac |-> Junk]

(* Variant: the setters work on the head of the list. *)
SetHead(list, e) ==
  IF e.key = "HWETHER" THEN [list EXCEPT ![1].mac = e.value] ELSE [list EXCEPT ![1].ip = e.value]

Set(list, e) ==
  IF e.key = "HWETHER" THEN [list EXCEPT ![Len(list)].mac = e.value]
  ELSE [list EXCEPT ![Len(list)].ip = e.value]

(* Variant: every interface begins the list anew. *)
AddAnew(list, e) ==
  CASE e.key = "HWINTERFACE" -> <<New(e.value)>>
    [] e.key \in {"HWETHER", "HWETHIP"} -> Set(list, e)
    [] OTHER -> list

AddEntry(list, e) ==
  CASE e.key = "HWINTERFACE" -> Append(list, New(e.value))
    [] e.key \in {"HWETHER", "HWETHIP"} -> Set(list, e)
    [] OTHER -> list

(* sr_verify_routing_table *)
Verified(list) ==
  /\ list # <<>> /\ routes # NoTable
  /\ \A k \in DOMAIN routes : \E l \in DOMAIN list : list[l].name = routes[k]

HandleHwinfo ==
  /\ pc = "loop" /\ Read /\ Type = "HWINFO"
  /\ ifs' = FoldLeft(AddEntry, ifs, Head(toRouter).entries)
  /\ IF Verified(ifs') THEN ready' = TRUE /\ UNCHANGED pc ELSE End("ended") /\ UNCHANGED ready
  /\ UNCHANGED <<options, file, routes, server, toServer>>

(* A CLOSE ends the program.  A banner and an unknown command are printed.   *)
HandleClose ==
  /\ pc = "loop" /\ Read /\ Type = "CLOSE"
  /\ End("ended")
  /\ UNCHANGED <<options, file, routes, ifs, ready, server, toServer>>

(* A packet for an interface that is not in the list: an assertion fails, or *)
(* sr_handlepacket uses a null pointer.                                      *)
Lacks(iface) == \A l \in DOMAIN ifs : ifs[l].name # iface

PacketLost ==
  /\ pc = "loop" /\ Read /\ Type = "PACKET" /\ Lacks(Head(toRouter).iface)
  /\ End("crashed")
  /\ UNCHANGED <<options, file, routes, ifs, ready, server, toServer>>

PacketRead ==
  /\ pc = "loop" /\ Read /\ Type = "PACKET" /\ ~Lacks(Head(toRouter).iface)
  /\ UNCHANGED <<options, file, pc, routes, ifs, ready, server, toServer>>

-----------------------------------------------------------------------------
(* The server *)

Send(S) == toRouter' = toRouter \o S
router == <<options, file, pc, routes, ifs, ready>>

RouterInfo ==
  /\ ~known /\ known' = TRUE
  /\ UNCHANGED <<router, accepted, refused, dismissed, closed, packets, toRouter, toServer, early>>

(* _handle_recv_msg for a command of the handshake.  The controller module   *)
(* authenticates always and answers an OPEN only when it knows the           *)
(* interfaces; the VNS server may refuse, and answers OPEN_TEMPLATE.         *)
ServerRead ==
  /\ ~closed /\ toServer # <<>> /\ "type" \in DOMAIN Head(toServer)
  /\ toServer' = Tail(toServer)
  /\ LET type == Head(toServer).type IN
     CASE type = "AUTH_REPLY" ->
            \E ok \in BOOLEAN :
              /\ Send(<<[type |-> "AUTH_STATUS", ok |-> ok]>>)
              /\ refused' = ~ok
       [] type = "OPEN" -> Send(IF known THEN <<HwInfo>> ELSE <<>>) /\ UNCHANGED refused
       [] type = "OPEN_TEMPLATE" -> Send(<<Command("RTABLE"), HwInfo>>) /\ UNCHANGED refused
  /\ UNCHANGED <<router, known, accepted, dismissed, closed, packets, early>>

HwInfoSent == ready \/ \E k \in DOMAIN toRouter : toRouter[k].type = "HWINFO"

(* A packet goes to all clients, whatever they have been told.               *)
Broadcast ==
  /\ known /\ accepted /\ ~closed /\ packets < MaxPackets
  /\ packets' = packets + 1
  /\ \E iface \in Names : Send(<<Packet(iface)>>)
  /\ early' = (early \/ ~HwInfoSent)
  /\ UNCHANGED <<router, known, accepted, refused, dismissed, closed, toServer>>

SayClose ==
  /\ accepted /\ ~closed /\ ~dismissed /\ dismissed' = TRUE
  /\ Send(<<Command("CLOSE")>>)
  /\ UNCHANGED <<router, known, accepted, refused, closed, packets, toServer, early>>

(* The server stops.  The router's recv returns 0 from now on, which it      *)
(* takes for no bytes yet, and asks again.                                   *)
Stop ==
  /\ accepted /\ ~closed /\ closed' = TRUE
  /\ UNCHANGED <<router, known, accepted, refused, dismissed, packets, toRouter, toServer, early>>

-----------------------------------------------------------------------------
InitSession ==
  /\ template \in BOOLEAN /\ vrhost \in {FALSE, template}
  /\ writable \in {TRUE, ~template} /\ key \in BOOLEAN /\ file \in Tables
  /\ pc = "start" /\ routes = NoTable /\ ifs = <<>> /\ ready = FALSE
  /\ known = FALSE
  /\ accepted = FALSE /\ refused = FALSE /\ closed = FALSE
  /\ dismissed = FALSE /\ packets = 0 /\ toRouter = <<>> /\ toServer = <<>> /\ early = FALSE

Handshake ==
  LoadFirst \/ SkipFirst \/ Connect \/ Unexpected \/ AuthRequest \/ AuthStatus \/ Open \/ Rtable
  \/ LoadSecond

Dispatch == HandleHwinfo \/ HandleClose \/ PacketLost

Server == RouterInfo \/ ServerRead \/ Broadcast \/ SayClose \/ Stop
=============================================================================
