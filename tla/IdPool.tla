------------------------------- MODULE IdPool -------------------------------
(* What find_next_id and ClearBit promise the NAT: a pool of external ids    *)
(* that hands out its lowest free one.  When none is free it says so with    *)
(* the last id, which then has several holders.                              *)
EXTENDS Naturals

CONSTANTS FirstId, LastId

VARIABLES
  used,   \* the ids that are taken
  given   \* the id handed out last, NoId at first

NoId == 0
Ids == FirstId .. LastId

Init == used = {} /\ given = NoId

Allocate(id) ==
  /\ id \in Ids \ used
  /\ \A k \in FirstId .. (id - 1) : k \in used
  /\ used' = used \cup {id}
  /\ given' = id

Exhausted ==
  /\ Ids \subseteq used
  /\ given' = LastId
  /\ UNCHANGED used

Release(id) == used' = used \ {id} /\ UNCHANGED given

Next ==
  \/ \E id \in Ids : Allocate(id) \/ Release(id)
  \/ Exhausted

Spec == Init /\ [][Next]_<<used, given>>
=============================================================================
