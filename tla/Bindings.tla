------------------------------ MODULE Bindings ------------------------------
(* What a NAT promises its hosts: every internal pair that talks is bound to *)
(* one external id, for as long as the binding lasts, and no other pair has  *)
(* that id.  Ids are given out from below; when all are taken the last one   *)
(* is given again.                                                           *)
EXTENDS Naturals

CONSTANTS
  Inside,           \* internal (ip, port or identifier) pairs
  FirstId, LastId   \* the external ids

VARIABLE bind       \* the id of each pair that is bound

Ids == FirstId .. LastId
Bound == DOMAIN bind
Taken == {bind[i] : i \in Bound}

InitBind == bind = [i \in {} |-> FirstId]

(* A pair that is not bound gets the lowest id that nobody has.              *)
Bind(i, id) ==
  /\ i \in Inside \ Bound
  /\ id \in Ids /\ (id \notin Taken \/ id = LastId)
  /\ \A k \in FirstId .. (id - 1) : k \in Taken
  /\ bind' = [j \in Bound \cup {i} |-> IF j = i THEN id ELSE bind[j]]

(* Bindings that have been idle for long enough go away together.            *)
Unbind(S) ==
  /\ S \subseteq Bound
  /\ bind' = [j \in Bound \ S |-> bind[j]]

NextBind ==
  \/ \E i \in Inside, id \in Ids : Bind(i, id)
  \/ \E S \in SUBSET Inside : Unbind(S)

SpecBind == InitBind /\ [][NextBind]_bind
=============================================================================
