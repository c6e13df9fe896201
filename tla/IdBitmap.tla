------------------------------ MODULE IdBitmap ------------------------------
(* nat->bitmap as the code keeps it: an array of signed words, one bit for   *)
(* every port number, of which only those from DEFAULT_ID on are handed out. *)
(* nat->lock is held throughout, so each operation is one step.              *)
EXTENDS Integers

CONSTANTS
  WordBits,    \* bits of an int
  DefaultId,   \* DEFAULT_ID
  TotalPorts   \* TOTAL_PORTS

ASSUME BitmapAssumption ==
  /\ WordBits \in Nat \ {0} /\ DefaultId \in Nat \ {0} /\ TotalPorts \in Nat
  /\ DefaultId % WordBits = 0 /\ TotalPorts % WordBits = 0
  /\ DefaultId < TotalPorts

VARIABLES
  bitmap,   \* nat->bitmap
  given     \* the aux_ext of the newest mapping, 0 before there is one

Words == 0 .. (TotalPorts \div WordBits - 1)

Init == bitmap = [i \in Words |-> 0] /\ given = 0

(* 2 to the n, as a function that can be reasoned about. *)
Two[n \in Nat] == IF n = 0 THEN 1 ELSE 2 * Two[n - 1]

(* Variant: the word is taken for an unsigned one. *)
OneUnsigned(j) == Two[j]

(* 1 << j in a signed int: the highest bit is the sign. *)
One(j) == IF j = WordBits - 1 THEN -Two[j] ELSE Two[j]

(* (word >> j) & 1; >> keeps the sign, as \div does. *)
BitSet(word, j) == (word \div Two[j]) % 2 = 1

SetBit(word, j) == IF BitSet(word, j) THEN word ELSE word + One(j)

(* Variant: the bit is toggled, which only shows when it is clear. *)
Toggle(word, j) == IF BitSet(word, j) THEN word - One(j) ELSE word + One(j)

(* word & ~(1 << j) *)
Clear(word, j) == IF BitSet(word, j) THEN word - One(j) ELSE word

FirstWord == DefaultId \div WordBits

(* The ports that the search finds free: it starts with DEFAULT_ID's word.   *)
Free == {k \in FirstWord * WordBits .. (TotalPorts - 1) :
           ~BitSet(bitmap[k \div WordBits], k % WordBits)}

(* find_next_id: words upwards, and the bits of a word upwards.              *)
FindNextId ==
  \E id \in Free :
    /\ \A k \in Free : id <= k
    /\ bitmap' = [bitmap EXCEPT ![id \div WordBits] = SetBit(@, id % WordBits)]
    /\ given' = id

(* find_next_id returns -1, stored in the 16 bits of aux_ext.                *)
NoneLeft ==
  /\ Free = {}
  /\ given' = (-1) % TotalPorts
  /\ UNCHANGED bitmap

Set == {k \in 0 .. (TotalPorts - 1) : BitSet(bitmap[k \div WordBits], k % WordBits)}

(* ClearBit for a mapping that is freed.  The last port can be freed more    *)
(* than once, having been given to several mappings.                         *)
ClearBit ==
  \E k \in Set \cup {TotalPorts - 1} :
    /\ bitmap' = [bitmap EXCEPT ![k \div WordBits] = Clear(@, k % WordBits)]
    /\ UNCHANGED given

Next == FindNextId \/ NoneLeft \/ ClearBit

Spec == Init /\ [][Next]_<<bitmap, given>>

-----------------------------------------------------------------------------
(* Every word stays an int of WordBits bits, the sign bit included, which a  *)
(* shift of 1 into it makes negative.                                        *)
TypeOK ==
  /\ bitmap \in [Words -> -Two[WordBits - 1] .. (Two[WordBits - 1] - 1)]
  /\ given \in 0 .. (TotalPorts - 1)

Pool == INSTANCE IdPool WITH
          FirstId <- DefaultId, LastId <- TotalPorts - 1, used <- Set

(* The words implement the pool of ids that NatTable uses: find_next_id and  *)
(* ClearBit never touch a bit other than the one meant, whatever its place   *)
(* in the word and whether or not it is set, and no port below DEFAULT_ID is *)
(* ever handed out.                                                          *)
ImplementsPool == Pool!Spec
=============================================================================
