-------------------------- MODULE SrThreadsProofs ---------------------------
(* Proofs about the threads of the router: the order of the locks, where the *)
(* main thread is when another works, and what is on the socket.             *)
(*                                                                           *)
(* A script is followed coinductively: a set of positions is closed when     *)
(* every position in it is a good one and the position after its first step  *)
(* is in the set again.  The scripts are then built up from their end, one   *)
(* step at a time, which needs no induction on their length.                 *)
EXTENDS SrThreads, SequenceTheorems, TLAPS

(* The steps that scripts are written with, and the rest of a frame that a   *)
(* write had to wait with.                                                   *)
Steps == {Lock(l) : l \in Locks} \cup {Unlock(l) : l \in Locks} \cup {Write}
Ops == Steps \cup {Rest}

-----------------------------------------------------------------------------
(* Positions: what is left of a script, and how often its thread holds the   *)
(* NAT's lock and that of the cache.                                         *)

Positions == Seq(Ops) \X (0 .. 3) \X (0 .. 3)

(* The first step of s can be taken, and leads to a position in P.  The      *)
(* NAT's lock is never asked for while the cache is locked.                  *)
GoesOn(P, s, n, c) ==
  \/ Head(s) = Lock("nat") /\ c = 0 /\ <<Tail(s), n + 1, c>> \in P
  \/ Head(s) = Lock("cache") /\ <<Tail(s), n, c + 1>> \in P
  \/ Head(s) = Unlock("nat") /\ n > 0 /\ <<Tail(s), n - 1, c>> \in P
  \/ Head(s) = Unlock("cache") /\ c > 0 /\ <<Tail(s), n, c - 1>> \in P
  \/ Head(s) \in {Write, Rest} /\ <<Tail(s), n, c>> \in P

Closed(P) ==
  \A s \in Seq(Ops), n, c \in 0 .. 3 :
    <<s, n, c>> \in P => IF s = <<>> THEN n = 0 /\ c = 0 ELSE GoesOn(P, s, n, c)

(* A thread that holds the locks n and c times can go to the end of s, in    *)
(* the order of the locks and giving back all of them.                       *)
Safe(s, n, c) == \E P \in SUBSET Positions : Closed(P) /\ <<s, n, c>> \in P

(* The end of a script, with no lock held.                                   *)
LEMMA SafeEnd == Safe(<<>>, 0, 0)
<1> DEFINE P == {<<<<>>, 0, 0>>}
<1>1. <<>> \in Seq(Ops)
  BY EmptySeq
<1>2. P \in SUBSET Positions
  <2>1. 0 \in 0 .. 3
    OBVIOUS
  <2>2. <<<<>>, 0, 0>> \in Positions
    BY <1>1, <2>1, Zenon DEF Positions
  <2> QED
    BY <2>2, Zenon
<1>3. Closed(P)
  BY DEF Closed
<1> QED
  BY <1>2, <1>3 DEF Safe

(* Putting a step before a sequence.                                         *)
LEMMA ConsIs ==
  ASSUME NEW S, NEW op \in S, NEW s \in Seq(S)
  PROVE  /\ <<op>> \o s \in Seq(S) /\ <<op>> \o s # <<>>
         /\ Head(<<op>> \o s) = op /\ Tail(<<op>> \o s) = s
<1> DEFINE w == <<op>> \o s
<1>1. <<op>> \in Seq(S) /\ Len(<<op>>) = 1
  OBVIOUS
<1>2. /\ w \in Seq(S) /\ Len(w) = 1 + Len(s)
      /\ \A i \in 1 .. 1 + Len(s) : w[i] = IF i <= 1 THEN <<op>>[i] ELSE s[i - 1]
  BY <1>1, ConcatProperties
<1>3. Len(s) \in Nat
  BY LenProperties
<1>4. w # <<>> /\ Head(w) = op
  BY <1>2, <1>3 DEF Head
<1>5. Tail(w) \in Seq(S) /\ Len(Tail(w)) = Len(s)
  BY <1>2, <1>3, <1>4, HeadTailProperties
<1>6. \A i \in 1 .. Len(s) : Tail(w)[i] = w[i + 1]
  <2> HIDE DEF w
  <2> QED BY <1>2, <1>4, <1>5, HeadTailProperties
<1>7. \A i \in 1 .. Len(s) : Tail(w)[i] = s[i]
  BY <1>2, <1>3, <1>6
<1> QED
  BY <1>2, <1>4, <1>5, <1>7, SeqEqual

(* A step before a script, for any of the positions that it may lead to.     *)
LEMMA SafeCons ==
  ASSUME NEW op \in Ops, NEW s \in Seq(Ops), NEW n \in 0 .. 3, NEW c \in 0 .. 3,
         NEW m \in 0 .. 3, NEW d \in 0 .. 3, Safe(s, m, d),
         \/ op = Lock("nat") /\ c = 0 /\ m = n + 1 /\ d = c
         \/ op = Lock("cache") /\ m = n /\ d = c + 1
         \/ op = Unlock("nat") /\ n > 0 /\ m = n - 1 /\ d = c
         \/ op = Unlock("cache") /\ c > 0 /\ m = n /\ d = c - 1
         \/ op \in {Write, Rest} /\ m = n /\ d = c
  PROVE  Safe(<<op>> \o s, n, c)
<1> DEFINE w == <<op>> \o s
<1>1. PICK P \in SUBSET Positions : Closed(P) /\ <<s, m, d>> \in P
  BY DEF Safe
<1>2. w \in Seq(Ops) /\ w # <<>> /\ Head(w) = op /\ Tail(w) = s
  BY ConsIs
<1> HIDE DEF w
<1> DEFINE Q == P \cup {<<w, n, c>>}
<1>3. Q \in SUBSET Positions
  BY <1>1, <1>2 DEF Positions
<1>4. ASSUME NEW u \in Seq(Ops), NEW i \in 0 .. 3, NEW j \in 0 .. 3, <<u, i, j>> \in Q
      PROVE  IF u = <<>> THEN i = 0 /\ j = 0 ELSE GoesOn(Q, u, i, j)
  <2>1. CASE <<u, i, j>> \in P
    <3>1. IF u = <<>> THEN i = 0 /\ j = 0 ELSE GoesOn(P, u, i, j)
      BY <1>1, <2>1, Zenon DEF Closed
    <3>2. GoesOn(P, u, i, j) => GoesOn(Q, u, i, j)
      BY Zenon DEF GoesOn
    <3> QED
      BY <3>1, <3>2, Zenon
  <2>2. CASE u = w /\ i = n /\ j = c
    BY <1>1, <1>2, <2>2 DEF GoesOn
  <2>3. <<u, i, j>> \in P \/ <<u, i, j>> = <<w, n, c>>
    BY <1>4, Zenon
  <2>4. <<u, i, j>> = <<w, n, c>> => u = w /\ i = n /\ j = c
    OBVIOUS
  <2> QED
    BY <2>1, <2>2, <2>3, <2>4, Zenon
<1>5. Closed(Q)
  BY <1>4 DEF Closed
<1> QED
  BY <1>3, <1>5 DEF Safe, w

(* What a thread meets at its next step.                                     *)
LEMMA SafeNext ==
  ASSUME NEW s \in Seq(Ops), NEW n, NEW c, Safe(s, n, c)
  PROVE  /\ n \in 0 .. 3 /\ c \in 0 .. 3
         /\ s = <<>> => n = 0 /\ c = 0
         /\ s # <<>> =>
              \/ Head(s) = Lock("nat") /\ c = 0 /\ Safe(Tail(s), n + 1, c)
              \/ Head(s) = Lock("cache") /\ Safe(Tail(s), n, c + 1)
              \/ Head(s) = Unlock("nat") /\ n > 0 /\ Safe(Tail(s), n - 1, c)
              \/ Head(s) = Unlock("cache") /\ c > 0 /\ Safe(Tail(s), n, c - 1)
              \/ Head(s) \in {Write, Rest} /\ Safe(Tail(s), n, c)
<1>1. PICK P \in SUBSET Positions : Closed(P) /\ <<s, n, c>> \in P
  BY DEF Safe
<1>2. n \in 0 .. 3 /\ c \in 0 .. 3
  BY <1>1 DEF Positions
<1>3. IF s = <<>> THEN n = 0 /\ c = 0 ELSE GoesOn(P, s, n, c)
  BY <1>1, <1>2 DEF Closed
<1>4. ASSUME NEW u, NEW i, NEW j, <<u, i, j>> \in P PROVE Safe(u, i, j)
  BY <1>1, <1>4 DEF Safe
<1> QED
  BY <1>2, <1>3, <1>4 DEF GoesOn

-----------------------------------------------------------------------------
(* The scripts, each put before what may follow it.                          *)

(* The steps are all different from each other.                              *)
LEMMA StepsDiffer ==
  /\ \A l \in Locks : Lock(l) \in Steps /\ Unlock(l) \in Steps
  /\ Write \in Steps /\ Rest \notin Steps
  /\ \A l \in Locks : Lock(l).op = "lock" /\ Unlock(l).op = "unlock"
                      /\ Lock(l).lock = l /\ Unlock(l).lock = l
  /\ Write.op = "write" /\ Write.part = 1 /\ Rest.op = "write" /\ Rest.part = 2
BY DEF Steps, Lock, Unlock, Write, Rest, Locks

(* What is done within a lock, and what follows.                             *)
LEMMA WithinIs ==
  ASSUME NEW l \in Locks, NEW s \in Seq(Ops), NEW r \in Seq(Ops)
  PROVE  /\ Within(l, s) \in Seq(Ops)
         /\ Within(l, s) \o r = <<Lock(l)>> \o (s \o (<<Unlock(l)>> \o r))
<1>1. Lock(l) \in Ops /\ Unlock(l) \in Ops
  BY StepsDiffer DEF Ops
<1> DEFINE Cat(u, v) == u \o v
           a == <<Lock(l)>>
           z == <<Unlock(l)>>
<1>2. a \in Seq(Ops) /\ z \in Seq(Ops)
  BY <1>1
<1>3. Within(l, s) = Cat(Cat(a, s), z)
  BY DEF Within
<1>4. \A u, v, w \in Seq(Ops) : Cat(Cat(u, v), w) = Cat(u, Cat(v, w))
  BY ConcatAssociative, SMTT(30)
<1>5. \A u, v \in Seq(Ops) : Cat(u, v) \in Seq(Ops)
  BY ConcatProperties
<1> HIDE DEF a, z, Cat
<1>6. Cat(a, s) \in Seq(Ops) /\ Cat(z, r) \in Seq(Ops) /\ Cat(Cat(a, s), z) \in Seq(Ops)
  BY <1>2, <1>5, Zenon
<1>7. Cat(Cat(Cat(a, s), z), r) = Cat(Cat(a, s), Cat(z, r))
  BY <1>2, <1>4, <1>6
<1>8. Cat(Cat(a, s), Cat(z, r)) = Cat(a, Cat(s, Cat(z, r)))
  BY <1>2, <1>4, <1>6
<1>9. Cat(Within(l, s), r) = Cat(a, Cat(s, Cat(z, r)))
  BY <1>3, <1>7, <1>8, Zenon
<1> QED
  BY <1>3, <1>6, <1>9 DEF a, z, Cat

(* A lookup before what follows.                                             *)
LEMMA LookupIs ==
  ASSUME NEW r \in Seq(Ops)
  PROVE  /\ Lookup \in Seq(Ops)
         /\ Lookup \o r = <<Lock("cache")>> \o (<<Unlock("cache")>> \o r)
<1>1. "cache" \in Locks /\ <<>> \in Seq(Ops) /\ Unlock("cache") \in Ops
  BY StepsDiffer, EmptySeq DEF Locks, Ops
<1> DEFINE z == <<Unlock("cache")>> \o r
<1>2. z \in Seq(Ops)
  BY <1>1, ConsIs
<1>3. <<>> \o z = z
  BY <1>2, ConcatEmptySeq
<1>4. /\ Within("cache", <<>>) \in Seq(Ops)
      /\ Within("cache", <<>>) \o r = <<Lock("cache")>> \o (<<>> \o z)
  BY <1>1, WithinIs, Zenon
<1> HIDE DEF z
<1>5. Within("cache", <<>>) \o r = <<Lock("cache")>> \o z
  BY <1>3, <1>4, Zenon
<1> QED
  BY <1>4, <1>5, Zenon DEF Lookup, z

(* A lookup is safe where its lock can be taken once more.                   *)
LEMMA LookupSafe ==
  ASSUME NEW r \in Seq(Ops), NEW n \in 0 .. 3, NEW c \in 0 .. 2, Safe(r, n, c)
  PROVE  Safe(Lookup \o r, n, c)
<1>1. Lock("cache") \in Ops /\ Unlock("cache") \in Ops
  BY StepsDiffer DEF Locks, Ops
<1> DEFINE z == <<Unlock("cache")>> \o r
<1>2. c + 1 \in 0 .. 3 /\ c \in 0 .. 3 /\ (c + 1) - 1 = c /\ c + 1 > 0
  OBVIOUS
<1>3. z \in Seq(Ops)
  BY <1>1, ConsIs
<1>4. Safe(z, n, c + 1)
  BY <1>1, <1>2, SafeCons
<1> HIDE DEF z
<1>5. Safe(<<Lock("cache")>> \o z, n, c)
  BY <1>1, <1>2, <1>3, <1>4, SafeCons
<1> QED
  BY <1>5, LookupIs DEF z

(* And so is a frame.                                                        *)
LEMMA WriteSafe ==
  ASSUME NEW r \in Seq(Ops), NEW n \in 0 .. 3, NEW c \in 0 .. 3, Safe(r, n, c)
  PROVE  <<Write>> \o r \in Seq(Ops) /\ Safe(<<Write>> \o r, n, c)
<1>1. Write \in Ops
  BY StepsDiffer DEF Ops
<1> QED
  BY <1>1, ConsIs, SafeCons

(* What sr_send_icmp does, before what follows.                              *)
LEMMA SendSafe ==
  ASSUME NEW r \in Seq(Ops), NEW n \in 0 .. 3, NEW c \in 0 .. 2, Safe(r, n, c),
         NEW s \in SendOrQueue \cup {<<>>, <<Write>>}
  PROVE  s \in Seq(Ops) /\ s \o r \in Seq(Ops) /\ Safe(s \o r, n, c)
<1>1. Write \in Ops /\ <<Write>> \in Seq(Ops) /\ c \in 0 .. 3
  BY StepsDiffer DEF Ops
<1>2. Lookup \in Seq(Ops)
  BY LookupIs
<1>3. CASE s = Lookup \o <<Write>>
  <2>1. (Lookup \o <<Write>>) \o r = Lookup \o (<<Write>> \o r)
    BY <1>1, <1>2, ConcatAssociative
  <2>2. <<Write>> \o r \in Seq(Ops) /\ Safe(<<Write>> \o r, n, c)
    BY <1>1, WriteSafe
  <2>3. Safe(Lookup \o (<<Write>> \o r), n, c)
    BY <2>2, LookupSafe
  <2> QED
    BY <1>1, <1>2, <1>3, <2>1, <2>3, ConcatProperties
<1>4. CASE s = Lookup \o Within("cache", <<>>)
  <2>1. s = Lookup \o Lookup
    BY <1>4 DEF Lookup
  <2>2. (Lookup \o Lookup) \o r = Lookup \o (Lookup \o r)
    BY <1>2, ConcatAssociative
  <2>3. Lookup \o r \in Seq(Ops) /\ Safe(Lookup \o r, n, c)
    BY <1>2, ConcatProperties, LookupSafe
  <2>4. Safe(Lookup \o (Lookup \o r), n, c)
    BY <2>3, LookupSafe
  <2> QED
    BY <1>1, <1>2, <2>1, <2>2, <2>4, ConcatProperties
<1>5. CASE s = <<>>
  BY <1>5, EmptySeq, ConcatEmptySeq
<1>6. CASE s = <<Write>>
  BY <1>1, <1>6, WriteSafe
<1> QED
  BY <1>3, <1>4, <1>5, <1>6 DEF SendOrQueue

(* Giving a lock back.                                                       *)
LEMMA UnlockSafe ==
  ASSUME NEW r \in Seq(Ops), NEW n \in 0 .. 2, NEW c \in 0 .. 2, Safe(r, n, c)
  PROVE  /\ <<Unlock("nat")>> \o r \in Seq(Ops) /\ Safe(<<Unlock("nat")>> \o r, n + 1, c)
         /\ <<Unlock("cache")>> \o r \in Seq(Ops) /\ Safe(<<Unlock("cache")>> \o r, n, c + 1)
<1>1. Unlock("nat") \in Ops /\ Unlock("cache") \in Ops
  BY StepsDiffer DEF Ops, Locks
<1>2. /\ n \in 0 .. 3 /\ c \in 0 .. 3 /\ n + 1 \in 0 .. 3 /\ c + 1 \in 0 .. 3
      /\ (n + 1) - 1 = n /\ (c + 1) - 1 = c /\ n + 1 > 0 /\ c + 1 > 0
  OBVIOUS
<1>3. Safe(<<Unlock("nat")>> \o r, n + 1, c)
  BY <1>1, <1>2, SafeCons
<1>4. Safe(<<Unlock("cache")>> \o r, n, c + 1)
  BY <1>1, <1>2, SafeCons
<1> QED
  BY <1>1, <1>3, <1>4, ConsIs

(* Taking the NAT's lock, with nothing locked but perhaps itself, something, *)
(* and giving it back.                                                       *)
LEMMA WithinNatSafe ==
  ASSUME NEW s \in Seq(Ops), NEW r \in Seq(Ops), NEW n \in 0 .. 2,
         s \o (<<Unlock("nat")>> \o r) \in Seq(Ops),
         Safe(s \o (<<Unlock("nat")>> \o r), n + 1, 0)
  PROVE  Safe(Within("nat", s) \o r, n, 0)
<1>1. Lock("nat") \in Ops /\ "nat" \in Locks
  BY StepsDiffer DEF Ops, Locks
<1>2. n \in 0 .. 3 /\ n + 1 \in 0 .. 3 /\ 0 \in 0 .. 3
  OBVIOUS
<1> DEFINE y == s \o (<<Unlock("nat")>> \o r)
<1>3. y \in Seq(Ops) /\ Safe(y, n + 1, 0)
  OBVIOUS
<1> HIDE DEF y
<1>4. Safe(<<Lock("nat")>> \o y, n, 0)
  BY <1>1, <1>2, <1>3, SafeCons
<1> QED
  BY <1>1, <1>4, WithinIs DEF y

(* Taking the lock of the cache, which may be done with any of them.         *)
LEMMA WithinCacheSafe ==
  ASSUME NEW s \in Seq(Ops), NEW r \in Seq(Ops), NEW n \in 0 .. 3, NEW c \in 0 .. 2,
         s \o (<<Unlock("cache")>> \o r) \in Seq(Ops),
         Safe(s \o (<<Unlock("cache")>> \o r), n, c + 1)
  PROVE  Safe(Within("cache", s) \o r, n, c)
<1>1. Lock("cache") \in Ops /\ "cache" \in Locks
  BY StepsDiffer DEF Ops, Locks
<1>2. c \in 0 .. 3 /\ c + 1 \in 0 .. 3
  OBVIOUS
<1> DEFINE y == s \o (<<Unlock("cache")>> \o r)
<1>3. y \in Seq(Ops) /\ Safe(y, n, c + 1)
  OBVIOUS
<1> HIDE DEF y
<1>4. Safe(<<Lock("cache")>> \o y, n, c)
  BY <1>1, <1>2, <1>3, SafeCons
<1> QED
  BY <1>1, <1>4, WithinIs DEF y

(* The rounds of the two timeout threads.                                    *)
LEMMA RoundsSafe ==
  \A s \in NatScripts \cup ArpScripts : s \in Seq(Ops) /\ Safe(s, 0, 0)
<1> USE SafeEnd
<1>0. <<>> \in Seq(Ops) /\ 0 \in 0 .. 3 /\ 1 \in 0 .. 3 /\ 0 \in 0 .. 2 /\ 1 \in 0 .. 2
      /\ 0 + 1 = 1
  BY EmptySeq
<1>1. ASSUME NEW s \in {<<>>} \cup SendOrQueue
      PROVE  Within("nat", s) \in Seq(Ops) /\ Safe(Within("nat", s), 0, 0)
  <2> DEFINE z == <<Unlock("nat")>> \o <<>>
  <2>1. z \in Seq(Ops) /\ Safe(z, 1, 0)
    BY <1>0, UnlockSafe
  <2> HIDE DEF z
  <2>2. s \in Seq(Ops) /\ s \o z \in Seq(Ops) /\ Safe(s \o z, 1, 0)
    BY <1>0, <1>1, <2>1, SendSafe
  <2>3. Safe(Within("nat", s) \o <<>>, 0, 0)
    BY <1>0, <2>2, WithinNatSafe DEF z
  <2> QED
    BY <1>0, <2>2, <2>3, WithinIs, ConcatEmptySeq DEF Locks
<1>2. ASSUME NEW s \in {<<>>, <<Write>>} \cup SendOrQueue
      PROVE  Within("cache", s) \in Seq(Ops) /\ Safe(Within("cache", s), 0, 0)
  <2> DEFINE z == <<Unlock("cache")>> \o <<>>
  <2>1. z \in Seq(Ops) /\ Safe(z, 0, 1)
    BY <1>0, UnlockSafe
  <2> HIDE DEF z
  <2>2. s \in Seq(Ops) /\ s \o z \in Seq(Ops) /\ Safe(s \o z, 0, 1)
    BY <1>0, <1>2, <2>1, SendSafe
  <2>3. Safe(Within("cache", s) \o <<>>, 0, 0)
    BY <1>0, <2>2, WithinCacheSafe DEF z
  <2> QED
    BY <1>0, <2>2, <2>3, WithinIs, ConcatEmptySeq DEF Locks
<1> QED
  BY <1>1, <1>2 DEF NatScripts, ArpScripts

(* What the main thread does with a packet.                                  *)
LEMMA PacketsSafe ==
  \A s \in PacketScripts \cup {<<>>} : s \in Seq(Ops) /\ Safe(s, 0, 0)
<1> USE SafeEnd
<1>0. <<>> \in Seq(Ops) /\ 0 \in 0 .. 3 /\ 1 \in 0 .. 3 /\ 2 \in 0 .. 3 /\ 0 \in 0 .. 2 /\ 1 \in 0 .. 2
      /\ 0 + 1 = 1 /\ 1 + 1 = 2
  BY EmptySeq
<1>1. Lookup \in Seq(Ops) /\ Lookup \o <<>> = Lookup /\ Safe(Lookup, 0, 0)
  BY <1>0, LookupIs, LookupSafe, ConcatEmptySeq
<1>2. <<Write>> \in Seq(Ops) /\ Safe(<<Write>>, 0, 0)
  <2>1. <<Write>> \in Seq(Ops)
    BY StepsDiffer DEF Ops
  <2>2. <<Write>> \o <<>> = <<Write>>
    BY <2>1, ConcatEmptySeq
  <2> QED
    BY <1>0, <2>1, <2>2, WriteSafe
<1>3. Lookup \o <<Write>> \in Seq(Ops) /\ Safe(Lookup \o <<Write>>, 0, 0)
  BY <1>0, <1>1, <1>2, LookupSafe, ConcatProperties
<1>4. /\ Lookup \o <<Write>> \o Lookup \in Seq(Ops)
      /\ Safe(Lookup \o <<Write>> \o Lookup, 0, 0)
  <2>1. Lookup \o <<Write>> \in SendOrQueue
    BY DEF SendOrQueue
  <2> QED
    BY <1>0, <1>1, <2>1, SendSafe
<1>5. ASSUME NEW s \in {<<>>} \cup SendOrQueue
      PROVE  /\ Within("nat", Within("nat", <<>>)) \o s \in Seq(Ops)
             /\ Safe(Within("nat", Within("nat", <<>>)) \o s, 0, 0)
  <2> DEFINE w == Within("nat", <<>>)
             y == <<Unlock("nat")>> \o s
             z == <<Unlock("nat")>> \o y
  <2>1. s \in Seq(Ops) /\ Safe(s, 0, 0)
    <3>1. s \in Seq(Ops) /\ Safe(s \o <<>>, 0, 0)
      BY <1>0, <1>5, SendSafe
    <3> QED
      BY <3>1, ConcatEmptySeq
  <2>2. y \in Seq(Ops) /\ Safe(y, 1, 0)
    BY <1>0, <2>1, UnlockSafe
  <2> HIDE DEF y
  <2>3. z \in Seq(Ops) /\ Safe(z, 2, 0) /\ <<>> \o z = z
    BY <1>0, <2>2, UnlockSafe, ConcatEmptySeq
  <2> HIDE DEF z
  <2>4. Safe(w \o y, 1, 0) /\ w \in Seq(Ops)
    <3>1. Safe(<<>> \o (<<Unlock("nat")>> \o y), 1 + 1, 0)
      BY <1>0, <2>3, Zenon DEF z
    <3>2. <<>> \o (<<Unlock("nat")>> \o y) \in Seq(Ops)
      BY <2>3, Zenon DEF z
    <3> QED
      BY <1>0, <2>2, <3>1, <3>2, WithinNatSafe, WithinIs DEF Locks
  <2> HIDE DEF w
  <2>5. w \o y \in Seq(Ops)
    BY <2>2, <2>4, ConcatProperties
  <2>6. Safe(Within("nat", w) \o s, 0, 0)
    BY <1>0, <2>1, <2>4, <2>5, WithinNatSafe DEF y
  <2>7. Within("nat", w) \o s \in Seq(Ops)
    BY <2>1, <2>4, WithinIs, ConcatProperties DEF Locks
  <2> QED
    BY <2>6, <2>7 DEF w
<1> QED
  BY <1>0, <1>3, <1>4, <1>5 DEF PacketScripts

-----------------------------------------------------------------------------
(* The order of the locks *)

(* How often t holds l. *)
Held(t, l) == IF holder[l] = t THEN depth[l] ELSE 0

(* Every thread holds as many locks as what is left of its script gives      *)
(* back, and goes on in the order of the locks.                              *)
LocksInv ==
  /\ todo \in [Threads -> Seq(Ops)]
  /\ holder \in [Locks -> Threads \cup {"none"}]
  /\ depth \in [Locks -> 0 .. 3]
  /\ \A l \in Locks : (depth[l] = 0) = (holder[l] = "none")
  /\ \A t \in Threads : Safe(todo[t], Held(t, "nat"), Held(t, "cache"))

(* A step of one thread that leaves the locks alone, and after which it can  *)
(* still go on.                                                              *)
LEMMA LocksGoOn ==
  ASSUME LocksInv, NEW t \in Threads, NEW s \in Seq(Ops),
         todo' = [todo EXCEPT ![t] = s], UNCHANGED <<holder, depth>>,
         Safe(s, Held(t, "nat"), Held(t, "cache"))
  PROVE  LocksInv'
<1>1. todo' \in [Threads -> Seq(Ops)]
  BY DEF LocksInv
<1>2. \A u \in Threads : Held(u, "nat")' = Held(u, "nat") /\ Held(u, "cache")' = Held(u, "cache")
  BY DEF Held
<1>3. ASSUME NEW u \in Threads PROVE Safe(todo[u], Held(u, "nat"), Held(u, "cache"))'
  <2>1. CASE u = t
    <3>1. todo'[u] = s
      BY <2>1 DEF LocksInv
    <3> QED
      BY <1>2, <2>1, <3>1
  <2>2. CASE u # t
    <3>1. todo'[u] = todo[u]
      BY <2>2 DEF LocksInv
    <3> QED
      BY <1>2, <3>1 DEF LocksInv
  <2> QED
    BY <2>1, <2>2
<1> QED
  BY <1>1, <1>3 DEF LocksInv

(* What the next step of a thread with something to do is.                   *)
LEMMA NextStep ==
  ASSUME LocksInv, NEW t \in Threads, todo[t] # <<>>
  PROVE  /\ Tail(todo[t]) \in Seq(Ops)
         /\ Held(t, "nat") \in 0 .. 3 /\ Held(t, "cache") \in 0 .. 3
         /\ \/ /\ Next1(t) = Lock("nat") /\ Held(t, "cache") = 0
               /\ Safe(Tail(todo[t]), Held(t, "nat") + 1, Held(t, "cache"))
            \/ /\ Next1(t) = Lock("cache")
               /\ Safe(Tail(todo[t]), Held(t, "nat"), Held(t, "cache") + 1)
            \/ /\ Next1(t) = Unlock("nat") /\ Held(t, "nat") > 0
               /\ Safe(Tail(todo[t]), Held(t, "nat") - 1, Held(t, "cache"))
            \/ /\ Next1(t) = Unlock("cache") /\ Held(t, "cache") > 0
               /\ Safe(Tail(todo[t]), Held(t, "nat"), Held(t, "cache") - 1)
            \/ /\ Next1(t) \in {Write, Rest}
               /\ Safe(Tail(todo[t]), Held(t, "nat"), Held(t, "cache"))
<1>1. todo[t] \in Seq(Ops) /\ Safe(todo[t], Held(t, "nat"), Held(t, "cache"))
  BY DEF LocksInv
<1>2. Tail(todo[t]) \in Seq(Ops)
  BY <1>1, HeadTailProperties
<1> QED
  BY <1>1, <1>2, SafeNext, Zenon DEF Next1

(* A thread that takes or gives back one of the locks.                       *)
LEMMA OneLockMoves ==
  ASSUME LocksInv, NEW t \in Threads, todo[t] # <<>>, NEW l \in Locks,
         todo' = [todo EXCEPT ![t] = Tail(todo[t])],
         NEW h \in Threads \cup {"none"}, NEW d \in Int,
         holder' = [holder EXCEPT ![l] = h], depth' = [depth EXCEPT ![l] = d],
         holder[l] \in {t, "none"}, h \in {t, "none"}, (d = 0) = (h = "none"),
         IF l = "nat" THEN Safe(Tail(todo[t]), d, Held(t, "cache"))
         ELSE Safe(Tail(todo[t]), Held(t, "nat"), d)
  PROVE  LocksInv'
<1>1. Tail(todo[t]) \in Seq(Ops)
  BY NextStep
<1>2. todo' \in [Threads -> Seq(Ops)]
  BY <1>1 DEF LocksInv
<1>3. d \in 0 .. 3
  BY <1>1, SafeNext
<1>4. holder' \in [Locks -> Threads \cup {"none"}] /\ depth' \in [Locks -> 0 .. 3]
  BY <1>3 DEF LocksInv
<1>5. \A k \in Locks : (depth'[k] = 0) = (holder'[k] = "none")
  BY DEF LocksInv
<1>6. \A k \in Locks : holder'[k] = (IF k = l THEN h ELSE holder[k])
                       /\ depth'[k] = (IF k = l THEN d ELSE depth[k])
  BY DEF LocksInv
<1>7. "none" \notin Threads /\ "nat" \in Locks /\ "cache" \in Locks /\ l \in {"nat", "cache"}
  BY DEF Threads, Locks
<1>8. ASSUME NEW u \in Threads PROVE Safe(todo[u], Held(u, "nat"), Held(u, "cache"))'
  <2>1. CASE u = t
    <3>1. todo'[u] = Tail(todo[t])
      BY <2>1 DEF LocksInv
    <3>2. \A k \in Locks : Held(t, k)' = IF k = l THEN d ELSE Held(t, k)
      BY <1>6 DEF Held
    <3> QED
      BY <1>7, <2>1, <3>1, <3>2
  <2>2. CASE u # t
    <3>1. todo'[u] = todo[u]
      BY <2>2 DEF LocksInv
    <3>2. \A k \in Locks : Held(u, k)' = Held(u, k)
      BY <1>6, <1>7, <2>2 DEF Held
    <3> QED
      BY <1>7, <3>1, <3>2 DEF LocksInv
  <2> QED
    BY <2>1, <2>2
<1> QED
  BY <1>2, <1>4, <1>5, <1>8 DEF LocksInv

(* Taking a lock.                                                            *)
LEMMA AcquireKeepsOrder ==
  ASSUME LocksInv, NEW t \in Threads, Acquire(t) PROVE LocksInv'
<1>1. todo[t] # <<>> /\ Next1(t).op = "lock"
  BY DEF Acquire, Doing
<1>2. PICK l \in Locks :
        /\ Next1(t) = Lock(l)
        /\ IF l = "nat" THEN Safe(Tail(todo[t]), Held(t, "nat") + 1, Held(t, "cache"))
           ELSE Safe(Tail(todo[t]), Held(t, "nat"), Held(t, "cache") + 1)
  BY <1>1, NextStep, StepsDiffer DEF Locks
<1>3. Next1(t).lock = l
  BY <1>2, StepsDiffer
<1>4. /\ holder[l] \in {"none", t}
      /\ holder' = [holder EXCEPT ![l] = t] /\ depth' = [depth EXCEPT ![l] = @ + 1]
      /\ todo' = [todo EXCEPT ![t] = Tail(todo[t])]
  BY <1>3 DEF Acquire, Run
<1>5. Held(t, l) = depth[l] /\ depth[l] \in 0 .. 3
  BY <1>4 DEF Held, LocksInv
<1>6. depth[l] + 1 \in Int /\ ((depth[l] + 1 = 0) = (t = "none"))
  BY <1>5 DEF Threads
<1>7. IF l = "nat" THEN Safe(Tail(todo[t]), depth[l] + 1, Held(t, "cache"))
      ELSE Safe(Tail(todo[t]), Held(t, "nat"), depth[l] + 1)
  BY <1>2, <1>5 DEF Locks
<1> QED
  BY <1>1, <1>4, <1>6, <1>7, OneLockMoves

(* Giving a lock back.                                                       *)
LEMMA ReleaseKeepsOrder ==
  ASSUME LocksInv, NEW t \in Threads, Release(t) PROVE LocksInv'
<1>1. todo[t] # <<>> /\ Next1(t).op = "unlock"
  BY DEF Release, Doing
<1>2. PICK l \in Locks :
        /\ Next1(t) = Unlock(l) /\ Held(t, l) > 0
        /\ IF l = "nat" THEN Safe(Tail(todo[t]), Held(t, "nat") - 1, Held(t, "cache"))
           ELSE Safe(Tail(todo[t]), Held(t, "nat"), Held(t, "cache") - 1)
  BY <1>1, NextStep, StepsDiffer DEF Locks
<1>3. Next1(t).lock = l
  BY <1>2, StepsDiffer
<1> DEFINE h == IF depth[l] = 1 THEN "none" ELSE t
<1>4. /\ holder' = [holder EXCEPT ![l] = h] /\ depth' = [depth EXCEPT ![l] = @ - 1]
      /\ todo' = [todo EXCEPT ![t] = Tail(todo[t])]
  BY <1>3 DEF Release, Run
<1>5. holder[l] = t /\ Held(t, l) = depth[l] /\ depth[l] \in 0 .. 3
  BY <1>2 DEF Held, LocksInv
<1>6. depth[l] - 1 \in Int /\ ((depth[l] - 1 = 0) = (h = "none")) /\ h \in {t, "none"}
  BY <1>5 DEF Threads
<1>7. IF l = "nat" THEN Safe(Tail(todo[t]), depth[l] - 1, Held(t, "cache"))
      ELSE Safe(Tail(todo[t]), Held(t, "nat"), depth[l] - 1)
  BY <1>2, <1>5 DEF Locks
<1> HIDE DEF h
<1> QED
  BY <1>1, <1>4, <1>5, <1>6, <1>7, OneLockMoves

(* Writing a frame, or what is left of one.                                  *)
LEMMA SendKeepsOrder ==
  ASSUME LocksInv, NEW t \in Threads, SendPacket(t) PROVE LocksInv'
<1>1. todo[t] # <<>> /\ Next1(t).op = "write" /\ UNCHANGED <<holder, depth>>
  BY DEF SendPacket, Doing
<1>2. /\ Tail(todo[t]) \in Seq(Ops) /\ Held(t, "nat") \in 0 .. 3 /\ Held(t, "cache") \in 0 .. 3
      /\ Safe(Tail(todo[t]), Held(t, "nat"), Held(t, "cache"))
  BY <1>1, NextStep, StepsDiffer DEF Locks
<1>3. /\ <<Rest>> \o Tail(todo[t]) \in Seq(Ops)
      /\ Safe(<<Rest>> \o Tail(todo[t]), Held(t, "nat"), Held(t, "cache"))
  <2>1. Rest \in Ops
    BY DEF Ops
  <2> QED
    BY <1>2, <2>1, SafeCons, ConsIs
<1>4. \/ todo' = [todo EXCEPT ![t] = Tail(todo[t])]
      \/ todo' = [todo EXCEPT ![t] = <<Rest>> \o Tail(todo[t])]
  BY Zenon DEF SendPacket, WriteFrame, WriteRest, Run
<1>5. CASE todo' = [todo EXCEPT ![t] = Tail(todo[t])]
  BY <1>1, <1>2, <1>5, LocksGoOn
<1>6. CASE todo' = [todo EXCEPT ![t] = <<Rest>> \o Tail(todo[t])]
  BY <1>1, <1>3, <1>6, LocksGoOn
<1> QED
  BY <1>4, <1>5, <1>6

(* A thread with nothing to do begins a script.                              *)
LEMMA BeginKeepsOrder ==
  ASSUME LocksInv, NEW t \in Threads, todo[t] = <<>>, UNCHANGED <<holder, depth>>,
         NEW s \in PacketScripts \cup {<<>>} \cup NatScripts \cup ArpScripts,
         todo' = [todo EXCEPT ![t] = s]
  PROVE  LocksInv'
<1>1. s \in Seq(Ops) /\ Safe(s, 0, 0)
  BY PacketsSafe, RoundsSafe
<1>2. Held(t, "nat") = 0 /\ Held(t, "cache") = 0
  BY EmptySeq, SafeNext DEF LocksInv
<1> QED
  BY <1>1, <1>2, LocksGoOn

(* No lock is held when the router begins.                                  *)
LEMMA LocksInit == Init => LocksInv
<1> SUFFICES ASSUME Init PROVE LocksInv
  OBVIOUS
<1>1. \A t \in Threads : todo[t] = <<>>
  BY DEF Init
<1>2. \A t \in Threads : Held(t, "nat") = 0 /\ Held(t, "cache") = 0
  BY DEF Init, Held, Threads, Locks
<1>3. \A t \in Threads : Safe(todo[t], Held(t, "nat"), Held(t, "cache"))
  BY <1>1, <1>2, SafeEnd
<1>4. todo \in [Threads -> Seq(Ops)] /\ holder \in [Locks -> Threads \cup {"none"}]
      /\ depth \in [Locks -> 0 .. 3]
  BY EmptySeq DEF Init
<1> QED
  BY <1>3, <1>4 DEF Init, LocksInv

(* A step in which no thread does anything.                                  *)
LEMMA LocksStay ==
  ASSUME LocksInv, UNCHANGED <<todo, holder, depth>> PROVE LocksInv'
<1>1. \A t \in Threads, l \in Locks : Held(t, l)' = Held(t, l)
  BY DEF Held
<1>2. "nat" \in Locks /\ "cache" \in Locks
  BY DEF Locks
<1> QED
  BY <1>1, <1>2 DEF LocksInv

(* Every step of the router and of the server.                               *)
LEMMA LocksStep == LocksInv /\ [Next]_vars => LocksInv'
<1> SUFFICES ASSUME LocksInv, [Next]_vars PROVE LocksInv'
  OBVIOUS
<1>1. CASE Main
  BY <1>1, LocksStay DEF Main, threads
<1>2. CASE SrInit
  BY <1>2, LocksStay DEF SrInit
<1>3. CASE HandlePacket
  <2>1. "main" \in Threads
    BY DEF Threads
  <2> QED
    BY <1>3, <2>1, BeginKeepsOrder DEF HandlePacket, MainReads, Run
<1>4. ASSUME NEW t \in Threads \ {"main"}, Round(t) PROVE LocksInv'
  BY <1>4, BeginKeepsOrder DEF Round, Run
<1>5. ASSUME NEW t \in Threads, Acquire(t) \/ Release(t) \/ SendPacket(t) PROVE LocksInv'
  BY <1>5, AcquireKeepsOrder, ReleaseKeepsOrder, SendKeepsOrder
<1>6. ASSUME NEW t \in Threads, SendFails(t) \/ RoundFaults(t) PROVE LocksInv'
  BY <1>6, LocksStay DEF SendFails, RoundFaults, threads
<1>7. CASE ServerReadFrame
  BY <1>7, LocksStay DEF ServerReadFrame, threads
<1>8. CASE Server /\ UNCHANGED <<threads, partial>>
  BY <1>8, LocksStay DEF threads
<1>9. CASE UNCHANGED vars
  BY <1>9, LocksStay DEF vars, threads
<1>10. CASE PacketFaults
  BY <1>10, LocksStay DEF PacketFaults, threads
<1> QED
  BY <1>1, <1>2, <1>3, <1>4, <1>5, <1>6, <1>7, <1>8, <1>9, <1>10, Zenon DEF Next

(* A thread that wants the NAT's lock does not hold that of the cache.       *)
LEMMA OrderOfLocks ==
  ASSUME LocksInv PROVE \A t \in Threads : Wants(t, "nat") => holder["cache"] # t
<1> SUFFICES ASSUME NEW t \in Threads, Wants(t, "nat"), holder["cache"] = t PROVE FALSE
  OBVIOUS
<1>1. todo[t] # <<>> /\ Next1(t).op = "lock" /\ Next1(t).lock = "nat"
  BY DEF Wants
<1>2. Held(t, "cache") = 0
  BY <1>1, NextStep, StepsDiffer DEF Locks
<1>3. "cache" \in Locks /\ "none" \notin Threads
  BY DEF Locks, Threads
<1> QED
  BY <1>2, <1>3 DEF Held, LocksInv

(* Of two threads in a circle, one would hold the cache's lock and want the  *)
(* NAT's.                                                                    *)
LEMMA OrderNoCircle == LocksInv => NoCircularWait
<1> SUFFICES ASSUME LocksInv, NEW t \in Threads, NEW u \in Threads, NEW k \in Locks, NEW l \in Locks,
                    t # u, holder[k] = t, holder[l] = u, Wants(t, l), Wants(u, k)
             PROVE  FALSE
  BY DEF NoCircularWait
<1>1. k # l
  OBVIOUS
<1>2. CASE l = "nat" /\ k = "cache"
  BY <1>2, OrderOfLocks
<1>3. CASE l = "cache" /\ k = "nat"
  BY <1>3, OrderOfLocks
<1> QED
  BY <1>1, <1>2, <1>3 DEF Locks

(* No circle of waiting: sr_nat_timeout sends its ICMP errors, and so looks  *)
(* into the ARP cache, with the NAT's lock held, and nobody takes the locks  *)
(* in the other order.                                                       *)
THEOREM LocksAreOrdered == Spec => []NoCircularWait
<1>1. Spec => []LocksInv
  BY LocksInit, LocksStep, PTL DEF Spec
<1> QED
  BY <1>1, OrderNoCircle, PTL

-----------------------------------------------------------------------------
(* Where main is when another thread works *)

(* A thread is started, and has something to do, after the handshake.        *)
Booted == pc \in {"init", "loop"} \cup Over

BootInv ==
  /\ "main" \in started /\ started \subseteq Threads
  /\ started # {"main"} => Booted
  /\ \A t \in Threads : todo[t] # <<>> => Booted

(* The steps of the session from before sr_init, and after it.               *)
LEMMA SessionPlaces ==
  /\ Handshake => ~Booted
  /\ Dispatch => Booted'
  /\ Server => UNCHANGED pc
<1>1. Handshake => ~Booted
  <2>1. Handshake => pc \in {"start", "connect", "auth", "status", "open", "rtable", "load"}
    BY DEF Handshake, LoadFirst, SkipFirst, Connect, Unexpected, Expected, AuthRequest, AuthStatus,
           Open, Rtable, LoadSecond, LoadRt
  <2> QED
    BY <2>1 DEF Booted, Over
<1>2. Dispatch => Booted'
  <2>1. Dispatch => pc' \in {"loop", "ended", "crashed"}
    BY DEF Dispatch, HandleHwinfo, HandleClose, PacketLost, End
  <2> QED
    BY <2>1 DEF Booted, Over
<1>3. Server => UNCHANGED pc
  BY DEF Server, RouterInfo, ServerRead, Broadcast, SayClose, Stop, router
<1> QED
  BY <1>1, <1>2, <1>3

(* Threads other than those that the step is of keep what they do.           *)
LEMMA BootGoesOn ==
  ASSUME BootInv, todo \in [Threads -> Seq(Ops)], NEW t \in Threads, NEW s,
         todo' = [todo EXCEPT ![t] = s], UNCHANGED <<pc, started>>, Booted
  PROVE  BootInv'
BY DEF BootInv, Booted

(* The program stops where other threads have been at work.                  *)
LEMMA BootEnds ==
  ASSUME BootInv, UNCHANGED <<todo, started>>, pc' \in Over
  PROVE  BootInv'
BY DEF BootInv, Booted

(* Every step of the router and of the server.                               *)
LEMMA BootStep == BootInv /\ LocksInv /\ [Next]_vars => BootInv'
<1> SUFFICES ASSUME BootInv, LocksInv, [Next]_vars PROVE BootInv'
  OBVIOUS
<1>0. todo \in [Threads -> Seq(Ops)]
  BY DEF LocksInv
<1>1. CASE Main
  <2>1. UNCHANGED <<todo, started>> /\ (Handshake \/ Dispatch)
    BY <1>1 DEF Main, threads
  <2>2. CASE ~Booted
    BY <2>1, <2>2 DEF BootInv
  <2>3. CASE Booted'
    BY <2>1, <2>3 DEF BootInv
  <2> QED
    BY <2>1, <2>2, <2>3, SessionPlaces
<1>2. CASE SrInit
  <2>1. UNCHANGED todo /\ started \subseteq started' /\ started' \subseteq Threads /\ Booted'
    BY <1>2 DEF SrInit, BootInv, Threads, Booted
  <2> QED
    BY <2>1 DEF BootInv
<1>3. CASE HandlePacket
  <2>1. "main" \in Threads /\ Booted /\ UNCHANGED <<pc, started>>
    BY <1>3 DEF Threads, HandlePacket, PacketRead, Booted
  <2>2. PICK s : todo' = [todo EXCEPT !["main"] = s]
    BY <1>3 DEF HandlePacket, Run
  <2> QED
    BY <1>0, <2>1, <2>2, BootGoesOn
<1>4. ASSUME NEW t \in Threads \ {"main"}, Round(t) PROVE BootInv'
  <2>1. t \in started /\ UNCHANGED <<pc, started>>
    BY <1>4 DEF Round, Awake, session
  <2>2. PICK s : todo' = [todo EXCEPT ![t] = s]
    BY <1>4 DEF Round, Run
  <2> QED
    BY <1>0, <2>1, <2>2, BootGoesOn DEF BootInv
<1>5. ASSUME NEW t \in Threads, Acquire(t) \/ Release(t) \/ SendPacket(t) PROVE BootInv'
  <2>1. todo[t] # <<>> /\ UNCHANGED <<pc, started>>
    BY <1>5 DEF Acquire, Release, SendPacket, Doing, session
  <2>2. PICK s : todo' = [todo EXCEPT ![t] = s]
    BY <1>5, Zenon DEF Acquire, Release, SendPacket, WriteFrame, WriteRest, Run
  <2> QED
    BY <1>0, <2>1, <2>2, BootGoesOn DEF BootInv
<1>6. ASSUME NEW t \in Threads, SendFails(t) \/ RoundFaults(t) \/ PacketFaults PROVE BootInv'
  <2>1. pc' \in Over /\ UNCHANGED <<todo, started>>
    BY <1>6 DEF SendFails, RoundFaults, PacketFaults, End, Over, threads
  <2> QED
    BY <2>1, BootEnds
<1>7. CASE ServerReadFrame
  BY <1>7 DEF ServerReadFrame, threads, BootInv, Booted
<1>8. CASE Server /\ UNCHANGED <<threads, partial>>
  <2>1. UNCHANGED <<pc, todo, started>>
    BY <1>8, SessionPlaces DEF threads
  <2> QED
    BY <2>1 DEF BootInv, Booted
<1>9. CASE UNCHANGED vars
  BY <1>9 DEF vars, threads, session, BootInv, Booted
<1>10. CASE PacketFaults
  BY <1>6, <1>10 DEF Threads
<1> QED
  BY <1>1, <1>2, <1>3, <1>4, <1>5, <1>6, <1>7, <1>8, <1>9, <1>10, Zenon DEF Next

(* Nobody else runs at the start.                                            *)
LEMMA BootInit == Init => BootInv
BY DEF Init, InitSession, BootInv, Threads

-----------------------------------------------------------------------------
(* What is on the socket *)

Parts == {Part(t, n) : t \in Threads, n \in {1, 2}}
Told == {Command(type) : type \in {"AUTH_REPLY", "OPEN", "OPEN_TEMPLATE"}}

FramesInv == toServer \in Seq(Told \cup Parts)

(* A command is not part of a frame.                                         *)
LEMMA PartsAndCommands ==
  /\ \A p \in Parts : "part" \in DOMAIN p /\ "type" \notin DOMAIN p /\ p.by \in Threads
                      /\ p.part \in {1, 2} /\ p = Part(p.by, p.part)
  /\ \A p \in Told : "part" \notin DOMAIN p /\ "type" \in DOMAIN p
  /\ \A t, u \in Threads : \A m, n \in {1, 2} : Part(t, m) = Part(u, n) => t = u /\ m = n
<1>1. \A p \in Parts : "part" \in DOMAIN p /\ "type" \notin DOMAIN p /\ p.by \in Threads
                       /\ p.part \in {1, 2} /\ p = Part(p.by, p.part)
  BY DEF Parts, Part
<1>2. \A p \in Told : "part" \notin DOMAIN p /\ "type" \in DOMAIN p
  BY DEF Told, Command
<1>3. \A t, u \in Threads : \A m, n \in {1, 2} : Part(t, m) = Part(u, n) => t = u /\ m = n
  <2> TAKE t, u \in Threads
  <2> TAKE m, n \in {1, 2}
  <2>1. Part(t, m).by = t /\ Part(u, n).by = u /\ Part(t, m).part = m /\ Part(u, n).part = n
    BY DEF Part
  <2> QED
    BY <2>1
<1> QED
  BY <1>1, <1>2, <1>3

(* What the handshake and the dispatch do to the connection.                 *)
LEMMA SessionTells ==
  ASSUME Handshake \/ Dispatch
  PROVE  UNCHANGED toServer \/ \E p \in Told : toServer' = Append(toServer, p)
<1>1. \A type \in {"AUTH_REPLY", "OPEN", "OPEN_TEMPLATE"} : Command(type) \in Told
  BY DEF Told
<1>2. CASE AuthRequest
  BY <1>1, <1>2 DEF AuthRequest, Tell
<1>3. CASE Open
  BY <1>1, <1>3 DEF Open, Tell
<1>4. CASE LoadFirst \/ SkipFirst \/ Connect \/ Unexpected \/ AuthStatus \/ Rtable \/ LoadSecond
           \/ Dispatch
  BY <1>4, Zenon DEF LoadFirst, SkipFirst, Connect, Unexpected, AuthStatus, Rtable, LoadSecond,
         LoadRt, Dispatch, HandleHwinfo, HandleClose, PacketLost
<1> QED
  BY <1>2, <1>3, <1>4 DEF Handshake

(* A thread writes.                                                          *)
LEMMA SendKeepsTyped ==
  ASSUME FramesInv, NEW t \in Threads, SendPacket(t) PROVE FramesInv'
<1>1. Part(t, 1) \in Parts /\ Part(t, 2) \in Parts
  BY DEF Parts
<1>2. \/ toServer' = toServer \o <<Part(t, 1), Part(t, 2)>>
      \/ \E n \in {1, 2} : toServer' = Append(toServer, Part(t, n))
  BY Zenon DEF SendPacket, WriteFrame, WriteRest
<1>3. <<Part(t, 1), Part(t, 2)>> \in Seq(Told \cup Parts)
  BY <1>1
<1>4. toServer \o <<Part(t, 1), Part(t, 2)>> \in Seq(Told \cup Parts)
  BY <1>3, ConcatProperties DEF FramesInv
<1>5. \A n \in {1, 2} : Append(toServer, Part(t, n)) \in Seq(Told \cup Parts)
  BY <1>1, AppendProperties DEF FramesInv
<1> QED
  BY <1>2, <1>4, <1>5, Zenon DEF FramesInv

(* Every step of the router and of the server.                               *)
LEMMA FramesStep == FramesInv /\ [Next]_vars => FramesInv'
<1> SUFFICES ASSUME FramesInv, [Next]_vars PROVE FramesInv'
  OBVIOUS
<1>1. CASE UNCHANGED toServer
  BY <1>1 DEF FramesInv
<1>2. CASE Main
  <2>1. UNCHANGED toServer \/ \E p \in Told : toServer' = Append(toServer, p)
    BY <1>2, SessionTells DEF Main
  <2>2. \A p \in Told : Append(toServer, p) \in Seq(Told \cup Parts)
    BY AppendProperties DEF FramesInv
  <2> QED
    BY <1>1, <2>1, <2>2 DEF FramesInv
<1>3. CASE SrInit \/ HandlePacket \/ PacketFaults
  BY <1>1, <1>3 DEF SrInit, HandlePacket, PacketRead, PacketFaults
<1>4. ASSUME NEW t \in Threads,
             Round(t) \/ RoundFaults(t) \/ Acquire(t) \/ Release(t) \/ SendFails(t)
      PROVE  FramesInv'
  BY <1>1, <1>4 DEF Round, RoundFaults, Acquire, Release, SendFails, session
<1>5. ASSUME NEW t \in Threads, SendPacket(t) PROVE FramesInv'
  BY <1>5, SendKeepsTyped
<1>6. CASE toServer # <<>> /\ toServer' = Tail(toServer)
  BY <1>6, HeadTailProperties DEF FramesInv
<1>7. CASE ServerReadFrame
  BY <1>6, <1>7 DEF ServerReadFrame
<1>8. CASE Server
  <2>1. ServerRead => toServer # <<>> /\ toServer' = Tail(toServer)
    BY DEF ServerRead
  <2>2. RouterInfo \/ Broadcast \/ SayClose \/ Stop => UNCHANGED toServer
    BY DEF RouterInfo, Broadcast, SayClose, Stop
  <2> QED
    BY <1>1, <1>6, <1>8, <2>1, <2>2, Zenon DEF Server
<1>9. CASE UNCHANGED vars
  BY <1>1, <1>9 DEF vars, session
<1> QED
  BY <1>2, <1>3, <1>4, <1>5, <1>7, <1>8, <1>9, Zenon DEF Next

(* Nothing has been written at the start.                                    *)
LEMMA FramesInit == Init => FramesInv
BY EmptySeq DEF Init, InitSession, FramesInv
=============================================================================
