----------------------------- MODULE MCSrThreads ----------------------------
EXTENDS SrThreads

MCHardware == <<[name |-> "eth1", ip |-> "ip1", mac |-> "mac1"],
                [name |-> "eth2", ip |-> "ip2", mac |-> "mac2"]>>
RtFile(ok, rt) == [ok |-> ok, routes |-> rt]
MCTables == {RtFile(FALSE, <<>>), RtFile(TRUE, <<>>), RtFile(TRUE, <<"eth1", "eth0">>),
             RtFile(TRUE, <<"eth2", "eth1">>)}
MCSentTable == <<"eth1">>
=============================================================================
