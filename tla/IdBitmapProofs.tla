--------------------------- MODULE IdBitmapProofs ---------------------------
(* Proofs about the bitmap: its words stay ints of WordBits bits, and they   *)
(* implement the pool of ids, for every width of the words and every range   *)
(* of the ports.                                                             *)
EXTENDS IdBitmap, WellFoundedInduction, TLAPS

-----------------------------------------------------------------------------
(* Induction *)

(* A set of numbers has a least one.                                         *)
LEMMA LeastOf ==
  ASSUME NEW S, S \subseteq Nat, S # {}
  PROVE  \E x \in S : \A y \in S : x <= y
<1> DEFINE R == {ss \in Nat \X Nat : ss[1] < ss[2]}
<1>1. IsWellFoundedOn(R, Nat)
  BY NatLessThanWellFounded DEF OpToRel
<1>2. \A x, y \in Nat : <<y, x>> \in R <=> y < x
  OBVIOUS
<1> HIDE DEF R
<1>3. PICK x \in S : \A y \in S : ~ (<<y, x>> \in R)
  BY <1>1, WFMin
<1>4. ASSUME NEW y \in S PROVE x <= y
  <2>1. x \in Nat /\ y \in Nat
    OBVIOUS
  <2>2. ~(y < x)
    BY <1>2, <1>3, <2>1
  <2> QED
    BY <2>1, <2>2
<1> QED
  BY <1>4

(* A set that holds 0, and the successor of each number it holds.            *)
LEMMA NextByNext ==
  ASSUME NEW P, 0 \in P, \A n \in Nat : n \in P => n + 1 \in P
  PROVE  \A n \in Nat : n \in P
<1> SUFFICES ASSUME Nat \ P # {} PROVE FALSE
  OBVIOUS
<1>1. PICK n \in Nat \ P : \A m \in Nat \ P : n <= m
  BY LeastOf
<1>2. n # 0 /\ n - 1 \in Nat /\ (n - 1) + 1 = n
  BY <1>1
<1>3. n - 1 \in P
  BY <1>1, <1>2
<1> QED
  BY <1>1, <1>2, <1>3

-----------------------------------------------------------------------------
(* Powers of two *)

(* f doubles at each of its places up to n. *)
Doubles(f, n) == f[0] = 1 /\ \A i \in 1 .. n : f[i] = 2 * f[i - 1]

(* Two functions that double are the same.                                   *)
LEMMA OneDoubling ==
  ASSUME NEW f, NEW g, NEW n \in Nat, Doubles(f, n), Doubles(g, n)
  PROVE  \A i \in 0 .. n : f[i] = g[i]
<1> DEFINE P == {i \in Nat : i <= n => f[i] = g[i]}
<1>1. 0 \in P
  BY DEF Doubles
<1>2. ASSUME NEW i \in Nat, i \in P PROVE i + 1 \in P
  BY <1>2 DEF Doubles
<1>3. \A i \in Nat : i \in P
  <2> HIDE DEF P
  <2> QED
    BY <1>1, <1>2, NextByNext
<1> QED
  BY <1>3

(* As far as one likes.                                                      *)
LEMMA SomeDoubling == \A n \in Nat : \E f \in [Nat -> Nat] : Doubles(f, n)
<1> DEFINE P == {n \in Nat : \E f \in [Nat -> Nat] : Doubles(f, n)}
<1>1. 0 \in P
  <2> DEFINE f == [i \in Nat |-> 1]
  <2>1. f \in [Nat -> Nat] /\ Doubles(f, 0)
    BY DEF Doubles
  <2> QED
    BY <2>1
<1>2. ASSUME NEW n \in Nat, n \in P PROVE n + 1 \in P
  <2>1. PICK f \in [Nat -> Nat] : Doubles(f, n)
    BY <1>2
  <2> DEFINE g == [i \in Nat |-> IF i = n + 1 THEN 2 * f[n] ELSE f[i]]
  <2>2. g \in [Nat -> Nat]
    OBVIOUS
  <2>3. g[0] = 1
    BY <2>1 DEF Doubles
  <2>4. ASSUME NEW i \in 1 .. n + 1 PROVE g[i] = 2 * g[i - 1]
    <3>1. i - 1 \in Nat /\ i - 1 # n + 1 /\ g[i - 1] = f[i - 1]
      OBVIOUS
    <3>2. CASE i = n + 1
      BY <3>1, <3>2
    <3>3. CASE i # n + 1
      <4>1. i \in 1 .. n /\ g[i] = f[i]
        BY <3>3
      <4> QED
        BY <2>1, <3>1, <4>1 DEF Doubles
    <3> QED
      BY <3>2, <3>3
  <2>5. Doubles(g, n + 1)
    BY <2>3, <2>4 DEF Doubles
  <2> QED
    BY <2>2, <2>5
<1>3. \A n \in Nat : n \in P
  <2> HIDE DEF P
  <2> QED
    BY <1>1, <1>2, NextByNext
<1> QED
  BY <1>3

(* The function that the definition of Two asks for exists.                  *)
LEMMA TwoIs ==
  /\ Two \in [Nat -> Nat]
  /\ Two[0] = 1
  /\ \A n \in Nat : Two[n + 1] = 2 * Two[n]
<1> DEFINE f(n) == CHOOSE g \in [Nat -> Nat] : Doubles(g, n)
           F == [n \in Nat |-> f(n)[n]]
           Eq(t) == t = [n \in Nat |-> IF n = 0 THEN 1 ELSE 2 * t[n - 1]]
<1>1. \A n \in Nat : f(n) \in [Nat -> Nat] /\ Doubles(f(n), n)
  BY SomeDoubling
<1> HIDE DEF f
<1>2. ASSUME NEW n \in Nat, n > 0 PROVE F[n] = 2 * F[n - 1]
  <2>1. n - 1 \in Nat /\ n \in 1 .. n /\ n - 1 \in 0 .. n - 1
    BY <1>2
  <2>2. Doubles(f(n), n - 1)
    BY <1>1, <2>1 DEF Doubles
  <2>3. f(n)[n - 1] = f(n - 1)[n - 1]
    BY <1>1, <2>1, <2>2, OneDoubling
  <2>4. f(n)[n] = 2 * f(n)[n - 1]
    BY <1>1, <2>1 DEF Doubles
  <2> QED
    BY <2>1, <2>3, <2>4
<1>3. F[0] = 1 /\ F \in [Nat -> Nat]
  BY <1>1 DEF Doubles
<1>4. Eq(F)
  BY <1>2, <1>3
<1>5. Two = CHOOSE t : Eq(t)
  BY DEF Two
<1>6. Eq(Two)
  <2> HIDE DEF Eq, F
  <2> QED
    BY <1>4, <1>5
<1>7. Two[0] = 1 /\ \A n \in Nat : Two[n + 1] = 2 * Two[n]
  <2>1. \A n \in Nat : Two[n] = IF n = 0 THEN 1 ELSE 2 * Two[n - 1]
    BY <1>6
  <2> QED
    BY <2>1
<1>8. \A n \in Nat : Two[n] \in Nat
  <2> DEFINE P == {n \in Nat : Two[n] \in Nat}
  <2>1. 0 \in P /\ \A n \in Nat : n \in P => n + 1 \in P
    BY <1>7
  <2> HIDE DEF P
  <2>2. \A n \in Nat : n \in P
    BY <2>1, NextByNext
  <2> QED
    BY <2>2 DEF P
<1>9. DOMAIN Two = Nat /\ Two = [n \in Nat |-> Two[n]]
  BY <1>6
<1> QED
  BY <1>7, <1>8, <1>9

(* Powers are positive.                                                      *)
LEMMA TwoPositive == \A n \in Nat : Two[n] \in Nat /\ Two[n] > 0
<1> DEFINE P == {n \in Nat : Two[n] > 0}
<1>1. 0 \in P /\ \A n \in Nat : n \in P => n + 1 \in P
  BY TwoIs
<1> HIDE DEF P
<1>2. \A n \in Nat : n \in P
  BY <1>1, NextByNext
<1> QED
  BY <1>2, TwoIs DEF P

(* A higher power is an even multiple of a lower one.                        *)
LEMMA TwoSplits ==
  ASSUME NEW i \in Nat, NEW j \in Nat, i < j
  PROVE  \E m \in Nat : m > 0 /\ Two[j] = Two[i] * (2 * m)
<1> DEFINE P == {d \in Nat : \E m \in Nat : m > 0 /\ Two[i + d + 1] = Two[i] * (2 * m)}
<1>1. 0 \in P
  <2>1. Two[i + 0 + 1] = Two[i] * (2 * 1)
    BY TwoIs
  <2> QED
    BY <2>1
<1>2. ASSUME NEW d \in Nat, d \in P PROVE d + 1 \in P
  <2>1. PICK m \in Nat : m > 0 /\ Two[i + d + 1] = Two[i] * (2 * m)
    BY <1>2
  <2>2. i + d + 1 \in Nat /\ Two[i] \in Nat /\ i + (d + 1) + 1 = (i + d + 1) + 1
    BY TwoPositive
  <2>3. Two[(i + d + 1) + 1] = 2 * Two[i + d + 1]
    BY <2>2, TwoIs
  <2>4. Two[i + (d + 1) + 1] = Two[i] * (2 * (2 * m))
    BY <2>1, <2>2, <2>3
  <2> QED
    BY <2>1, <2>4
<1>3. \A d \in Nat : d \in P
  <2> HIDE DEF P
  <2> QED
    BY <1>1, <1>2, NextByNext
<1>4. (j - i) - 1 \in Nat /\ i + ((j - i) - 1) + 1 = j
  OBVIOUS
<1> QED
  BY <1>3, <1>4

-----------------------------------------------------------------------------
(* Quotients *)

(* Quotient and remainder.                                                   *)
LEMMA Quotient ==
  ASSUME NEW w \in Int, NEW d \in Nat, d > 0
  PROVE  /\ w \div d \in Int /\ w % d \in 0 .. (d - 1)
         /\ w = d * (w \div d) + (w % d)
OBVIOUS

(* And there is no other.                                                    *)
LEMMA QuotientIs ==
  ASSUME NEW w \in Int, NEW d \in Nat, d > 0, NEW q \in Int, NEW r \in 0 .. (d - 1),
         w = d * q + r
  PROVE  w \div d = q
<1> DEFINE p == w \div d
           s == w % d
<1>1. p \in Int /\ s \in 0 .. (d - 1) /\ w = d * p + s
  BY Quotient
<1> HIDE DEF p, s
<1>2. d * (p - q) = r - s
  BY <1>1
<1>3. CASE p > q
  <2>1. d * (p - q) >= d
    BY <1>3, <1>1
  <2> QED
    BY <1>1, <1>2, <2>1
<1>4. CASE q > p
  <2>1. d * (q - p) >= d /\ d * (q - p) = s - r
    BY <1>4, <1>1
  <2> QED
    BY <1>1, <2>1
<1> QED
  BY <1>1, <1>3, <1>4 DEF p

(* Of a number that is even, and of one that is odd.                         *)
LEMMA Halves ==
  ASSUME NEW w \in Int
  PROVE  /\ w % 2 \in {0, 1}
         /\ w % 2 = 0 => (w + 1) % 2 = 1 /\ (w - 1) % 2 = 1
         /\ w % 2 = 1 => (w + 1) % 2 = 0 /\ (w - 1) % 2 = 0
         /\ \A m \in Int : (w + 2 * m) % 2 = w % 2
OBVIOUS

(* A change of d, up or down, in a number.  An even multiple of d' is seen   *)
(* from a place below as an even number.                                     *)
LEMMA SeenBelow ==
  ASSUME NEW w \in Int, NEW d \in Nat, d > 0, NEW m \in Int
  PROVE  ((w + d * (2 * m)) \div d) % 2 = (w \div d) % 2
<1> DEFINE q == w \div d
           r == w % d
<1>1. q \in Int /\ r \in 0 .. (d - 1) /\ w = d * q + r
  BY Quotient
<1> HIDE DEF q, r
<1>2. w + d * (2 * m) = d * (q + 2 * m) + r
  BY <1>1
<1>3. w + d * (2 * m) \in Int /\ q + 2 * m \in Int
  BY <1>1
<1>4. (w + d * (2 * m)) \div d = q + 2 * m
  BY <1>1, <1>2, <1>3, QuotientIs
<1> QED
  BY <1>1, <1>4, Halves DEF q

(* At its own place the bit changes.                                         *)
LEMMA SeenHere ==
  ASSUME NEW w \in Int, NEW d \in Nat, d > 0
  PROVE  /\ (w + d) \div d = (w \div d) + 1
         /\ (w - d) \div d = (w \div d) - 1
<1> DEFINE q == w \div d
           r == w % d
<1>1. q \in Int /\ r \in 0 .. (d - 1) /\ w = d * q + r
  BY Quotient
<1> HIDE DEF q, r
<1>2. w + d = d * (q + 1) + r /\ w - d = d * (q - 1) + r /\ w + d \in Int /\ w - d \in Int
      /\ q + 1 \in Int /\ q - 1 \in Int
  BY <1>1
<1> QED
  BY <1>1, <1>2, QuotientIs DEF q

(* From the places above nothing is seen, as long as the bit was clear when  *)
(* d is added, or set when it is taken away.                                 *)
LEMMA SeenAbove ==
  ASSUME NEW w \in Int, NEW d \in Nat, d > 0, NEW m \in Nat, m > 0
  PROVE  /\ (w \div d) % 2 = 0 => (w + d) \div (d * (2 * m)) = w \div (d * (2 * m))
         /\ (w \div d) % 2 = 1 => (w - d) \div (d * (2 * m)) = w \div (d * (2 * m))
<1> DEFINE q == w \div d
           r == w % d
           e == 2 * m
           a == q \div e
           b == q % e
           D == d * e
<1>1. q \in Int /\ r \in 0 .. (d - 1) /\ w = d * q + r
  BY Quotient
<1>2. e \in Nat /\ e > 0
  OBVIOUS
<1>3. a \in Int /\ b \in 0 .. (e - 1) /\ q = e * a + b
  <2> HIDE DEF q, e
  <2> QED
    BY <1>1, <1>2, Quotient
<1>4. q % 2 = b % 2
  <2>1. q = b + 2 * (m * a) /\ m * a \in Int /\ b \in Int
    <3> HIDE DEF q, a, b
    <3> QED
      BY <1>3
  <2> HIDE DEF q, a, b
  <2> QED
    BY <2>1, Halves
<1>5. D \in Nat /\ D > 0
  <2> HIDE DEF e
  <2> QED
    BY <1>2
<1> HIDE DEF q, r, a, b
<1>6. ASSUME NEW c \in 0 .. (e - 1), NEW x \in Int, x = d * (e * a + c) + r
      PROVE  x \div D = a
  <2>1. d * c >= 0 /\ d * c <= d * (e - 1)
    <3> HIDE DEF e
    <3>1. d * ((e - 1) - c) >= 0
      BY <1>2
    <3>2. d * (e - 1) - d * c = d * ((e - 1) - c)
      BY <1>2
    <3>3. d * c >= 0
      OBVIOUS
    <3> QED
      BY <1>2, <3>1, <3>2, <3>3
  <2>2. d * (e - 1) = D - d
    <3> HIDE DEF e
    <3> QED
      BY <1>2
  <2>3. d * c \in Int
    <3> HIDE DEF e
    <3> QED
      BY <1>2
  <2>4. d * c + r \in 0 .. (D - 1)
    <3> HIDE DEF D, e
    <3> QED
      BY <1>1, <1>5, <2>1, <2>2, <2>3
  <2>5. x = D * a + (d * c + r)
    <3> HIDE DEF e
    <3> QED
      BY <1>1, <1>2, <1>3, <1>6
  <2> HIDE DEF D
  <2> QED
    BY <1>3, <1>5, <2>4, <2>5, QuotientIs
<1>7. w \div D = a
  <2> HIDE DEF D
  <2> QED
    BY <1>1, <1>3, <1>6
<1>8. ASSUME q % 2 = 0 PROVE (w + d) \div D = a
  <2>1. b % 2 = 0 /\ b + 1 \in 0 .. (e - 1)
    BY <1>3, <1>4, <1>8
  <2>2. w + d = d * (e * a + (b + 1)) + r /\ w + d \in Int
    <3> HIDE DEF e
    <3> QED
      BY <1>1, <1>2, <1>3
  <2> HIDE DEF D, e
  <2> QED
    BY <1>6, <2>1, <2>2
<1>9. ASSUME q % 2 = 1 PROVE (w - d) \div D = a
  <2>1. b % 2 = 1 /\ b - 1 \in 0 .. (e - 1)
    BY <1>3, <1>4, <1>9
  <2>2. w - d = d * (e * a + (b - 1)) + r /\ w - d \in Int
    <3> HIDE DEF e
    <3> QED
      BY <1>1, <1>2, <1>3
  <2> HIDE DEF D, e
  <2> QED
    BY <1>6, <2>1, <2>2
<1> QED
  BY <1>7, <1>8, <1>9 DEF q, D, e

-----------------------------------------------------------------------------
(* The bits of a word *)

Bits == 0 .. (WordBits - 1)
Top == WordBits - 1
Ints == -Two[Top] .. (Two[Top] - 1)

(* The places of a word.                                                     *)
LEMMA Places ==
  /\ WordBits \in Nat /\ WordBits > 0 /\ Top \in Bits /\ Top \in Nat
  /\ \A j \in Bits : j \in Nat /\ j <= Top /\ Two[j] \in Nat /\ Two[j] > 0
BY BitmapAssumption, TwoPositive DEF Bits, Top

(* A word is an int when what is above all but its highest bit is 0 or -1.   *)
LEMMA IntsAre ==
  ASSUME NEW w \in Int
  PROVE  w \in Ints <=> w \div Two[Top] \in {0, -1}
<1> DEFINE T == Two[Top]
           q == w \div T
           r == w % T
<1>1. T \in Nat /\ T > 0
  BY Places
<1>2. q \in Int /\ r \in 0 .. (T - 1) /\ w = T * q + r
  <2> HIDE DEF T
  <2> QED
    BY <1>1, Quotient
<1> HIDE DEF q, r, T
<1>3. ASSUME w \in -T .. (T - 1) PROVE q \in {0, -1}
  <2>1. CASE q >= 1
    <3>1. T * q >= T
      BY <1>1, <1>2, <2>1
    <3> QED
      BY <1>1, <1>2, <1>3, <3>1
  <2>2. CASE q <= -2
    <3>1. T * q <= -(2 * T)
      BY <1>1, <1>2, <2>2
    <3> QED
      BY <1>1, <1>2, <1>3, <3>1
  <2> QED
    BY <1>2, <2>1, <2>2
<1>4. ASSUME q \in {0, -1} PROVE w \in -T .. (T - 1)
  <2>1. CASE q = 0
    BY <1>1, <1>2, <2>1
  <2>2. CASE q = -1
    BY <1>1, <1>2, <2>2
  <2> QED
    BY <1>4, <2>1, <2>2
<1> QED
  BY <1>3, <1>4 DEF q, T, Ints

(* Adding the place of a bit that is clear, or taking away that of one that  *)
(* is set, changes this bit and no other.                                    *)
LEMMA BitsMove ==
  ASSUME NEW w \in Int, NEW j \in Bits, NEW v \in Int,
         \/ v = w + Two[j] /\ (~BitSet(w, j) \/ j = Top)
         \/ v = w - Two[j] /\ (BitSet(w, j) \/ j = Top)
  PROVE  /\ BitSet(v, j) <=> ~BitSet(w, j)
         /\ \A i \in Bits \ {j} : BitSet(v, i) <=> BitSet(w, i)
         /\ j # Top => v \div Two[Top] = w \div Two[Top]
<1>1. Two[j] \in Nat /\ Two[j] > 0 /\ j \in Nat /\ Top \in Nat /\ j <= Top
  BY Places
<1>2. /\ w \div Two[j] \in Int /\ (w \div Two[j]) % 2 \in {0, 1}
      /\ BitSet(w, j) <=> ((w \div Two[j]) % 2 = 1)
  BY <1>1, Quotient, Halves DEF BitSet
<1>3. BitSet(v, j) <=> ~BitSet(w, j)
  <2>1. \/ v \div Two[j] = (w \div Two[j]) + 1
        \/ v \div Two[j] = (w \div Two[j]) - 1
    BY <1>1, SeenHere
  <2> QED
    BY <1>2, <2>1, Halves DEF BitSet
<1>4. ASSUME NEW i \in Nat, j < i, j # Top PROVE v \div Two[i] = w \div Two[i]
  <2>1. PICK m \in Nat : m > 0 /\ Two[i] = Two[j] * (2 * m)
    BY <1>1, <1>4, TwoSplits
  <2>2. CASE v = w + Two[j] /\ (w \div Two[j]) % 2 = 0
    <3>1. (w + Two[j]) \div (Two[j] * (2 * m)) = w \div (Two[j] * (2 * m))
      BY <1>1, <2>1, <2>2, SeenAbove
    <3> QED
      BY <2>1, <2>2, <3>1
  <2>3. CASE v = w - Two[j] /\ (w \div Two[j]) % 2 = 1
    <3>1. (w - Two[j]) \div (Two[j] * (2 * m)) = w \div (Two[j] * (2 * m))
      BY <1>1, <2>1, <2>3, SeenAbove
    <3> QED
      BY <2>1, <2>3, <3>1
  <2> QED
    BY <1>2, <1>4, <2>2, <2>3
<1>5. ASSUME NEW i \in Bits, i # j PROVE BitSet(v, i) <=> BitSet(w, i)
  <2>1. i \in Nat /\ i <= Top /\ Two[i] \in Nat /\ Two[i] > 0
    BY Places
  <2>2. CASE j < i
    <3>1. j # Top
      BY <1>1, <2>1, <2>2
    <3> QED
      BY <1>4, <2>1, <2>2, <3>1 DEF BitSet
  <2>3. CASE i < j
    <3>1. PICK m \in Nat : m > 0 /\ Two[j] = Two[i] * (2 * m)
      BY <1>1, <2>1, <2>3, TwoSplits
    <3>2. v = w + Two[i] * (2 * m) \/ v = w + Two[i] * (2 * (-m))
      BY <2>1, <3>1
    <3>3. (v \div Two[i]) % 2 = (w \div Two[i]) % 2
      <4>1. m \in Int /\ -m \in Int
        OBVIOUS
      <4>2. CASE v = w + Two[i] * (2 * m)
        BY <2>1, <4>1, <4>2, SeenBelow
      <4>3. CASE v = w + Two[i] * (2 * (-m))
        BY <2>1, <4>1, <4>3, SeenBelow
      <4> QED
        BY <3>2, <4>2, <4>3
    <3> QED
      BY <3>3 DEF BitSet
  <2> QED
    BY <1>1, <1>5, <2>1, <2>2, <2>3
<1>6. j # Top => v \div Two[Top] = w \div Two[Top]
  BY <1>1, <1>4
<1> QED
  BY <1>3, <1>5, <1>6

(* At the highest bit, which is the sign.                                    *)
LEMMA SignMoves ==
  ASSUME NEW w \in Ints
  PROVE  /\ ~BitSet(w, Top) => w - Two[Top] \in Ints
         /\ BitSet(w, Top) => w + Two[Top] \in Ints
<1>1. Two[Top] \in Nat /\ Two[Top] > 0 /\ w \in Int
  BY Places DEF Ints
<1>2. w \div Two[Top] \in {0, -1}
  BY <1>1, IntsAre
<1>3. \A q \in {0, -1} : q % 2 = 1 <=> q = -1
  <2> TAKE q \in {0, -1}
  <2>1. q \in Int /\ 0 % 2 = 0 /\ (q = 0 \/ q + 1 = 0)
    OBVIOUS
  <2> QED
    BY <2>1, Halves
<1>4. /\ (w + Two[Top]) \div Two[Top] = (w \div Two[Top]) + 1
      /\ (w - Two[Top]) \div Two[Top] = (w \div Two[Top]) - 1
  BY <1>1, SeenHere
<1>5. w + Two[Top] \in Int /\ w - Two[Top] \in Int
  BY <1>1
<1>6. ASSUME ~BitSet(w, Top) PROVE w - Two[Top] \in Ints
  <2>1. w \div Two[Top] = 0
    BY <1>2, <1>3, <1>6 DEF BitSet
  <2> QED
    BY <1>4, <1>5, <2>1, IntsAre
<1>7. ASSUME BitSet(w, Top) PROVE w + Two[Top] \in Ints
  <2>1. w \div Two[Top] = -1
    BY <1>2, <1>3, <1>7 DEF BitSet
  <2> QED
    BY <1>4, <1>5, <2>1, IntsAre
<1> QED
  BY <1>6, <1>7

(* SetBit sets the bit that is meant, and only that.                         *)
LEMMA SetBitIs ==
  ASSUME NEW w \in Ints, NEW j \in Bits
  PROVE  /\ SetBit(w, j) \in Ints
         /\ \A i \in Bits : BitSet(SetBit(w, j), i) <=> (i = j \/ BitSet(w, i))
<1>1. w \in Int /\ Two[j] \in Nat /\ w \div Two[Top] \in {0, -1}
  BY Places, IntsAre DEF Ints
<1>2. CASE BitSet(w, j)
  BY <1>2 DEF SetBit
<1>3. CASE ~BitSet(w, j) /\ j # Top
  <2> DEFINE v == w + Two[j]
  <2>1. SetBit(w, j) = v /\ v \in Int
    BY <1>1, <1>3 DEF SetBit, One, Top
  <2>2. /\ BitSet(v, j) <=> ~BitSet(w, j)
        /\ v \div Two[Top] = w \div Two[Top]
        /\ \A i \in Bits \ {j} : BitSet(v, i) <=> BitSet(w, i)
    BY <1>1, <1>3, <2>1, BitsMove
  <2> HIDE DEF v
  <2>3. v \in Ints
    BY <1>1, <2>1, <2>2, IntsAre
  <2> QED
    BY <1>3, <2>1, <2>2, <2>3
<1>4. CASE ~BitSet(w, j) /\ j = Top
  <2> DEFINE v == w - Two[j]
  <2>1. SetBit(w, j) = v /\ v \in Int
    BY <1>1, <1>4 DEF SetBit, One, Top
  <2>2. /\ BitSet(v, j) <=> ~BitSet(w, j)
        /\ \A i \in Bits \ {j} : BitSet(v, i) <=> BitSet(w, i)
    BY <1>1, <1>4, <2>1, BitsMove
  <2>3. v \in Ints
    BY <1>4, SignMoves, Zenon
  <2> HIDE DEF v
  <2> QED
    BY <1>4, <2>1, <2>2, <2>3
<1> QED
  BY <1>2, <1>3, <1>4

(* ClearBit clears the bit that is meant, set or not, and only that.         *)
LEMMA ClearIs ==
  ASSUME NEW w \in Ints, NEW j \in Bits
  PROVE  /\ Clear(w, j) \in Ints
         /\ \A i \in Bits : BitSet(Clear(w, j), i) <=> (i # j /\ BitSet(w, i))
<1>1. w \in Int /\ Two[j] \in Nat /\ w \div Two[Top] \in {0, -1}
  BY Places, IntsAre DEF Ints
<1>2. CASE ~BitSet(w, j)
  BY <1>2 DEF Clear
<1>3. CASE BitSet(w, j) /\ j # Top
  <2> DEFINE v == w - Two[j]
  <2>1. Clear(w, j) = v /\ v \in Int
    BY <1>1, <1>3 DEF Clear, One, Top
  <2>2. /\ BitSet(v, j) <=> ~BitSet(w, j)
        /\ v \div Two[Top] = w \div Two[Top]
        /\ \A i \in Bits \ {j} : BitSet(v, i) <=> BitSet(w, i)
    BY <1>1, <1>3, <2>1, BitsMove
  <2> HIDE DEF v
  <2>3. v \in Ints
    BY <1>1, <2>1, <2>2, IntsAre
  <2> QED
    BY <1>3, <2>1, <2>2, <2>3
<1>4. CASE BitSet(w, j) /\ j = Top
  <2> DEFINE v == w + Two[j]
  <2>1. Clear(w, j) = v /\ v \in Int
    BY <1>1, <1>4 DEF Clear, One, Top
  <2>2. /\ BitSet(v, j) <=> ~BitSet(w, j)
        /\ \A i \in Bits \ {j} : BitSet(v, i) <=> BitSet(w, i)
    BY <1>1, <1>4, <2>1, BitsMove
  <2>3. v \in Ints
    BY <1>4, SignMoves, Zenon
  <2> HIDE DEF v
  <2> QED
    BY <1>4, <2>1, <2>2, <2>3
<1> QED
  BY <1>2, <1>3, <1>4

-----------------------------------------------------------------------------
(* The ports *)

Ports == 0 .. (TotalPorts - 1)

(* Every port has a bit of its own.                                          *)
LEMMA PortBits ==
  /\ \A k \in Ports : k \div WordBits \in Words /\ k % WordBits \in Bits
  /\ \A k, l \in Ports : k \div WordBits = l \div WordBits /\ k % WordBits = l % WordBits => k = l
<1> DEFINE B == WordBits
           M == TotalPorts \div B
<1>1. B \in Nat /\ B > 0 /\ TotalPorts \in Nat /\ TotalPorts % B = 0
  BY BitmapAssumption
<1>2. M \in Int /\ TotalPorts = B * M
  <2> HIDE DEF B
  <2> QED
    BY <1>1, Quotient
<1>3. ASSUME NEW k \in Ports PROVE k \div B \in 0 .. (M - 1) /\ k % B \in 0 .. (B - 1)
  <2> DEFINE q == k \div B
             r == k % B
  <2>1. k \in Int /\ k >= 0 /\ k < TotalPorts
    BY <1>1 DEF Ports
  <2>2. q \in Int /\ r \in 0 .. (B - 1) /\ k = B * q + r
    <3> HIDE DEF B
    <3> QED
      BY <1>1, <2>1, Quotient
  <2> HIDE DEF q, r, M, B
  <2>3. q >= 0
    <3>1. CASE q <= -1
      <4>1. B * q <= -B
        BY <1>1, <2>2, <3>1
      <4> QED
        BY <1>1, <2>1, <2>2, <4>1
    <3> QED
      BY <2>2, <3>1
  <2>4. q <= M - 1
    <3>1. CASE q >= M
      <4>1. B * q >= B * M
        <5>1. B * (q - M) >= 0 /\ B * q - B * M = B * (q - M)
          BY <1>1, <1>2, <2>2, <3>1
        <5>2. B * q \in Int /\ B * M \in Int
          BY <1>1, <1>2, <2>2
        <5> QED
          BY <5>1, <5>2
      <4> QED
        BY <1>1, <1>2, <2>1, <2>2, <4>1
    <3> QED
      BY <1>2, <2>2, <3>1
  <2> QED
    BY <1>2, <2>2, <2>3, <2>4 DEF q, r
<1>4. ASSUME NEW k \in Ports, NEW l \in Ports, k \div B = l \div B, k % B = l % B PROVE k = l
  <2>1. k \in Int /\ l \in Int
    BY DEF Ports
  <2>2. k = B * (k \div B) + (k % B) /\ l = B * (l \div B) + (l % B)
    <3> HIDE DEF B
    <3> QED
      BY <1>1, <2>1, Quotient
  <2> QED
    BY <1>4, <2>2
<1> QED
  BY <1>3, <1>4 DEF Words, Bits

(* The search begins at DEFAULT_ID.                                          *)
LEMMA SearchBegins == FirstWord * WordBits = DefaultId
<1>1. WordBits \in Nat /\ WordBits > 0 /\ DefaultId \in Int /\ DefaultId % WordBits = 0
  BY BitmapAssumption
<1>2. DefaultId = WordBits * (DefaultId \div WordBits) + (DefaultId % WordBits)
      /\ DefaultId \div WordBits \in Int
  BY <1>1, Quotient
<1> QED
  BY <1>1, <1>2 DEF FirstWord

(* One word changes: the ports that are set are the same but for one.        *)
LEMMA OnePort ==
  ASSUME bitmap \in [Words -> Ints], NEW id \in Ports, NEW v \in Ints,
         bitmap' = [bitmap EXCEPT ![id \div WordBits] = v],
         NEW on \in BOOLEAN,
         \A i \in Bits : BitSet(v, i) <=>
           IF i = id % WordBits THEN on ELSE BitSet(bitmap[id \div WordBits], i)
  PROVE  /\ bitmap' \in [Words -> Ints]
         /\ Set' = IF on THEN Set \cup {id} ELSE Set \ {id}
<1> DEFINE Is(k) == BitSet(bitmap[k \div WordBits], k % WordBits)
           IsNow(k) == BitSet(bitmap'[k \div WordBits], k % WordBits)
<1>1. id \div WordBits \in Words /\ id % WordBits \in Bits
  BY PortBits
<1>2. bitmap' \in [Words -> Ints]
  BY <1>1
<1>3. ASSUME NEW k \in Ports PROVE IsNow(k) <=> IF k = id THEN on ELSE Is(k)
  <2>1. k \div WordBits \in Words /\ k % WordBits \in Bits
    BY PortBits
  <2>2. CASE k \div WordBits # id \div WordBits
    <3>1. bitmap'[k \div WordBits] = bitmap[k \div WordBits] /\ k # id
      BY <2>1, <2>2
    <3> QED
      BY <3>1
  <2>3. CASE k \div WordBits = id \div WordBits
    <3>1. bitmap'[k \div WordBits] = v
      BY <1>1, <2>3
    <3>2. k % WordBits = id % WordBits <=> k = id
      BY <2>3, PortBits
    <3> QED
      BY <2>1, <2>3, <3>1, <3>2
  <2> QED
    BY <2>2, <2>3
<1>4. Set = {k \in Ports : Is(k)} /\ Set' = {k \in Ports : IsNow(k)}
  BY DEF Set, Ports
<1> HIDE DEF Is, IsNow
<1> QED
  BY <1>2, <1>3, <1>4

(* What holds of the bitmap: its words are ints, and no port below           *)
(* DEFAULT_ID is set.                                                        *)
BitmapInv == TypeOK /\ \A k \in Set : k >= DefaultId

(* The first part of the type.                                               *)
LEMMA TypeIs == TypeOK <=> bitmap \in [Words -> Ints] /\ given \in Ports
BY DEF TypeOK, Ints, Top, Ports

(* Nothing is set at first.                                                  *)
LEMMA BitmapInit == Init => BitmapInv /\ Set = {} /\ given = 0
<1> SUFFICES ASSUME Init PROVE BitmapInv /\ Set = {} /\ given = 0
  OBVIOUS
<1>1. given = 0 /\ 0 \in Ports /\ \A i \in Words : bitmap[i] = 0
  BY BitmapAssumption DEF Init, Ports
<1>2. 0 \in Ints
  BY Places DEF Ints
<1>3. bitmap \in [Words -> Ints]
  BY <1>2 DEF Init
<1>4. ASSUME NEW j \in Bits PROVE ~BitSet(0, j)
  <2>1. Two[j] \in Nat /\ Two[j] > 0
    BY Places
  <2>2. 0 \div Two[j] = 0
    <3>1. 0 = Two[j] * 0 + 0 /\ 0 \in 0 .. (Two[j] - 1)
      BY <2>1
    <3> QED
      BY <2>1, <3>1, QuotientIs
  <2>3. 0 % 2 # 1
    OBVIOUS
  <2> QED
    BY <2>2, <2>3 DEF BitSet
<1>5. Set = {}
  BY <1>1, <1>4, PortBits DEF Set, Ports
<1> QED
  BY <1>1, <1>3, <1>5, TypeIs DEF BitmapInv

(* The ports that are free are those that the pool has not given.            *)
LEMMA FreeIs == Free = (DefaultId .. (TotalPorts - 1)) \ Set
<1>1. DefaultId \in Nat /\ TotalPorts \in Nat
  BY BitmapAssumption
<1>2. \A k \in DefaultId .. (TotalPorts - 1) : k \in 0 .. (TotalPorts - 1)
  BY <1>1
<1> QED
  BY <1>2, SearchBegins DEF Free, Set

(* find_next_id gives the lowest id that is free.                            *)
LEMMA GiveStep ==
  ASSUME BitmapInv, FindNextId
  PROVE  BitmapInv' /\ \E id \in Pool!Ids : Pool!Allocate(id)
<1>1. PICK id \in Free :
        /\ \A k \in Free : id <= k
        /\ bitmap' = [bitmap EXCEPT ![id \div WordBits] = SetBit(@, id % WordBits)]
        /\ given' = id
  BY DEF FindNextId
<1>2. DefaultId \in Nat /\ TotalPorts \in Nat /\ bitmap \in [Words -> Ints]
  BY BitmapAssumption, TypeIs DEF BitmapInv
<1>3. id \in Ports /\ id >= DefaultId /\ id \notin Set /\ id \in DefaultId .. (TotalPorts - 1)
  BY <1>2, FreeIs DEF Ports
<1> DEFINE w == bitmap[id \div WordBits]
           v == SetBit(w, id % WordBits)
<1>4. id \div WordBits \in Words /\ id % WordBits \in Bits /\ w \in Ints
  BY <1>2, <1>3, PortBits
<1>5. v \in Ints /\ \A i \in Bits : BitSet(v, i) <=> (i = id % WordBits \/ BitSet(w, i))
  <2> HIDE DEF w
  <2> QED
    BY <1>4, SetBitIs
<1>6. bitmap' = [bitmap EXCEPT ![id \div WordBits] = v]
  BY <1>1, <1>2, <1>4
<1> HIDE DEF v
<1>7. bitmap' \in [Words -> Ints] /\ Set' = Set \cup {id}
  <2>1. \A i \in Bits : BitSet(v, i) <=>
          IF i = id % WordBits THEN TRUE ELSE BitSet(bitmap[id \div WordBits], i)
    BY <1>5
  <2>2. Set' = IF TRUE THEN Set \cup {id} ELSE Set \ {id}
    BY <1>2, <1>3, <1>5, <1>6, <2>1, OnePort
  <2>3. bitmap' \in [Words -> Ints]
    BY <1>2, <1>3, <1>5, <1>6, <2>1, OnePort
  <2> QED
    BY <2>2, <2>3
<1>8. BitmapInv'
  BY <1>1, <1>3, <1>7, TypeIs DEF BitmapInv, TypeOK, Ints, Top, Ports
<1>9. \A k \in DefaultId .. (id - 1) : k \in Set
  <2>1. \A k \in DefaultId .. (id - 1) : k \in DefaultId .. (TotalPorts - 1) /\ ~(id <= k)
    BY <1>2, <1>3
  <2> QED
    BY <1>1, <2>1, FreeIs
<1>10. id \in Pool!Ids /\ Pool!Allocate(id)
  BY <1>1, <1>3, <1>7, <1>9 DEF Pool!Ids, Pool!Allocate
<1> QED
  BY <1>8, <1>10

(* ClearBit gives one id back, or the last one once more.                    *)
LEMMA ClearStep ==
  ASSUME BitmapInv, ClearBit
  PROVE  BitmapInv' /\ \E id \in Pool!Ids : Pool!Release(id)
<1>1. PICK id \in Set \cup {TotalPorts - 1} :
        /\ bitmap' = [bitmap EXCEPT ![id \div WordBits] = Clear(@, id % WordBits)]
        /\ given' = given
  BY DEF ClearBit
<1>2. DefaultId \in Nat /\ TotalPorts \in Nat /\ DefaultId < TotalPorts
      /\ bitmap \in [Words -> Ints]
  BY BitmapAssumption, TypeIs DEF BitmapInv
<1>3. id \in Ports /\ id \in DefaultId .. (TotalPorts - 1)
  BY <1>1, <1>2 DEF Ports, Set, BitmapInv
<1> DEFINE w == bitmap[id \div WordBits]
           v == Clear(w, id % WordBits)
<1>4. id \div WordBits \in Words /\ id % WordBits \in Bits /\ w \in Ints
  BY <1>2, <1>3, PortBits
<1>5. v \in Ints /\ \A i \in Bits : BitSet(v, i) <=> (i # id % WordBits /\ BitSet(w, i))
  <2> HIDE DEF w
  <2> QED
    BY <1>4, ClearIs
<1>6. bitmap' = [bitmap EXCEPT ![id \div WordBits] = v]
  BY <1>1, <1>2, <1>4
<1> HIDE DEF v
<1>7. bitmap' \in [Words -> Ints] /\ Set' = Set \ {id}
  <2>1. \A i \in Bits : BitSet(v, i) <=>
          IF i = id % WordBits THEN FALSE ELSE BitSet(bitmap[id \div WordBits], i)
    BY <1>5
  <2>2. Set' = IF FALSE THEN Set \cup {id} ELSE Set \ {id}
    BY <1>2, <1>3, <1>5, <1>6, <2>1, OnePort
  <2>3. bitmap' \in [Words -> Ints]
    BY <1>2, <1>3, <1>5, <1>6, <2>1, OnePort
  <2> QED
    BY <2>2, <2>3
<1>8. BitmapInv'
  BY <1>1, <1>7, TypeIs DEF BitmapInv, TypeOK, Ints, Top, Ports
<1>9. id \in Pool!Ids /\ Pool!Release(id)
  BY <1>1, <1>3, <1>7 DEF Pool!Ids, Pool!Release
<1> QED
  BY <1>8, <1>9

(* When no id is free, the last one is given.                                *)
LEMMA NoneStep ==
  ASSUME BitmapInv, NoneLeft
  PROVE  BitmapInv' /\ Pool!Exhausted
<1>1. TotalPorts \in Nat /\ TotalPorts > 0 /\ TotalPorts - 1 \in Ports
  BY BitmapAssumption DEF Ports
<1>2. given' = TotalPorts - 1
  <2> DEFINE r == (-1) % TotalPorts
             q == (-1) \div TotalPorts
             z == -1
  <2>1. z \in Int
    OBVIOUS
  <2>2. r \in 0 .. (TotalPorts - 1) /\ q \in Int /\ -1 = TotalPorts * q + r
    <3>1. z % TotalPorts \in 0 .. (TotalPorts - 1) /\ z \div TotalPorts \in Int
          /\ z = TotalPorts * (z \div TotalPorts) + (z % TotalPorts)
      <4> HIDE DEF z
      <4> QED
        BY <1>1, <2>1, Quotient
    <3> QED
      BY <3>1
  <2> HIDE DEF r, q
  <2>3. q = -1
    <3>1. CASE q >= 0
      <4>1. TotalPorts * q >= 0
        BY <1>1, <2>2, <3>1
      <4> QED
        BY <1>1, <2>2, <4>1
    <3>2. CASE q <= -2
      <4>1. TotalPorts * q <= -(2 * TotalPorts)
        BY <1>1, <2>2, <3>2
      <4> QED
        BY <1>1, <2>2, <4>1
    <3> QED
      BY <2>2, <3>1, <3>2
  <2>4. r = TotalPorts - 1
    BY <1>1, <2>2, <2>3
  <2> QED
    BY <2>4 DEF NoneLeft, r
<1>3. UNCHANGED <<bitmap, Set>>
  BY DEF NoneLeft, Set
<1>4. DefaultId .. (TotalPorts - 1) \subseteq Set
  BY FreeIs DEF NoneLeft
<1> QED
  BY <1>1, <1>2, <1>3, <1>4 DEF BitmapInv, TypeOK, Ports, Pool!Exhausted, Pool!Ids

(* Every operation of the bitmap is one of the pool.                         *)
LEMMA BitmapStep ==
  ASSUME BitmapInv, [Next]_<<bitmap, given>>
  PROVE  BitmapInv' /\ [Pool!Next]_<<Set, given>>
<1>1. CASE FindNextId
  BY <1>1, GiveStep DEF Pool!Next
<1>2. CASE NoneLeft
  BY <1>2, NoneStep DEF Pool!Next
<1>3. CASE ClearBit
  BY <1>3, ClearStep DEF Pool!Next
<1>4. CASE UNCHANGED <<bitmap, given>>
  BY <1>4 DEF BitmapInv, TypeOK, Set
<1> QED
  BY <1>1, <1>2, <1>3, <1>4 DEF Next

(* The words stay ints: 1 << 31 makes one negative, and neither setting nor  *)
(* clearing a bit ever leaves what an int can hold.                          *)
THEOREM WordsAreInts == Spec => []TypeOK
<1>1. Init => BitmapInv
  BY BitmapInit
<1>2. BitmapInv /\ [Next]_<<bitmap, given>> => BitmapInv'
  BY BitmapStep
<1>3. BitmapInv => TypeOK
  BY DEF BitmapInv
<1> QED
  BY <1>1, <1>2, <1>3, PTL DEF Spec

(* The bitmap implements the pool of ids: find_next_id and ClearBit change   *)
(* the bit that is meant and no other, whatever its place in the word and    *)
(* whether or not it is set.                                                 *)
THEOREM BitmapIsPool == Spec => ImplementsPool
<1>1. Init => BitmapInv /\ Pool!Init
  BY BitmapInit DEF Pool!Init, Pool!NoId
<1>2. BitmapInv /\ [Next]_<<bitmap, given>> => BitmapInv' /\ [Pool!Next]_<<Set, given>>
  BY BitmapStep
<1> QED
  BY <1>1, <1>2, PTL DEF Spec, ImplementsPool, Pool!Spec
=============================================================================
