------------------------------ MODULE MCIpPath ------------------------------
(* Two internal hosts, two external ones and an external one that is down.   *)
EXTENDS IpPath, TLC

a == 8
b == 10
x == 1
y == 2
z == 5

MCIfAddr == a :> 9 @@ b :> 11 @@ x :> 3 @@ y :> 4 @@ z :> 6
MCHosts == {a, b, x, y, z}
MCSilent == {z}
MCInside == {a, b} \X {1, 2}
MCPrivateNets == {[net |-> 8, size |-> 4]}

(* A route for each host, one for a net that holds x and y, and a default.   *)
HostRoute(h) == [dest |-> h, size |-> 1, gw |-> h]
MCRtable == <<[dest |-> 0, size |-> 16, gw |-> x], [dest |-> 0, size |-> 4, gw |-> x],
              HostRoute(a), HostRoute(b), HostRoute(y), HostRoute(z)>>

Packet(src, dst, proto, type, id) ==
  [src |-> src, dst |-> dst, proto |-> proto, type |-> type, id |-> id,
   ttl |-> 4, mac |-> "interface", good |-> TRUE]

Ping(src, dst, id) == Packet(src, dst, "icmp", "request", id)

MCTraffic ==
  { Ping(a, x, 1), Ping(b, x, 1), [Ping(a, y, 2) EXCEPT !.ttl = 1],
    [Ping(a, x, 1) EXCEPT !.ttl = 6], [Ping(a, y, 1) EXCEPT !.good = FALSE],
    [Ping(b, y, 2) EXCEPT !.mac = "other"], [Ping(a, 15, 1) EXCEPT !.mac = "broadcast"],
    Ping(b, y, 2), Ping(a, z, 1), Ping(a, b, 1), Ping(b, 7, 1), Ping(x, 3, 1), Ping(x, a, 1), Ping(x, y, 12),
    Packet(a, y, "tcp", "syn", 1), Packet(b, y, "tcp", "syn", 1), Packet(b, x, "tcp", "syn", 1),
    Packet(b, 7, "tcp", "syn", 2), Packet(a, b, "tcp", "syn", 2),
    Packet(x, 3, "tcp", "syn", 12), Packet(x, a, "tcp", "syn", 1), Packet(x, 3, "tcp", "seg", 12),
    Packet(x, y, "tcp", "syn", 1), Packet(y, 4, "icmp", "reply", 12),
    Packet(a, y, "tcp", "seg", 1), Packet(x, a, "udp", "data", 1), Packet(a, 9, "udp", "data", 1), Packet(y, 4, "other", "data", 1) }
=============================================================================
