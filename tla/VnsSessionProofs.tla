-------------------------- MODULE VnsSessionProofs --------------------------
(* Proofs about the session of the main thread with the server, under the    *)
(* steps of all three threads: what the router knows of its hardware, and    *)
(* for which reasons the program ends.                                       *)
EXTENDS SrThreadsProofs, WellFoundedInduction

-----------------------------------------------------------------------------
(* The HWINFO: sr_handle_hwinfo goes through the entries from left to right. *)
(* FoldLeft and FlattenSeq are recursive functions, which satisfy their      *)
(* equations because there are functions that do.                            *)

(* A set that holds 0, and the successor of each number it holds.            *)
LEMMA OneByOne ==
  ASSUME NEW P, 0 \in P, \A n \in Nat : n \in P => n + 1 \in P
  PROVE  \A n \in Nat : n \in P
<1> DEFINE R == {ss \in Nat \X Nat : ss[1] < ss[2]}
<1>1. IsWellFoundedOn(R, Nat)
  BY NatLessThanWellFounded DEF OpToRel
<1>2. \A x, y \in Nat : <<y, x>> \in R <=> y < x
  OBVIOUS
<1> HIDE DEF R
<1> SUFFICES ASSUME Nat \ P # {} PROVE FALSE
  OBVIOUS
<1>3. PICK n \in Nat \ P : \A y \in Nat \ P : ~ (<<y, n>> \in R)
  BY <1>1, WFMin
<1>4. n # 0 /\ n - 1 \in Nat /\ (n - 1) + 1 = n /\ n - 1 < n
  BY <1>3
<1>5. n - 1 \in P
  BY <1>2, <1>3, <1>4
<1> QED
  BY <1>3, <1>4, <1>5

(* The equation of a fold of AddEntry over the first n of the entries e.     *)
Folding(I, b, e, n) ==
  I = [s \in SUBSET (1 .. n) |-> IF s = {} THEN b ELSE AddEntry(I[s \ {Max(s)}], e[Max(s)])]

(* It has a solution.                                                        *)
LEMMA FoldingExists ==
  ASSUME NEW b, NEW e
  PROVE  \A n \in Nat : \E I : Folding(I, b, e, n)
<1> DEFINE P == {n \in Nat : \E I : Folding(I, b, e, n)}
<1>1. 0 \in P
  <2> DEFINE I == [s \in SUBSET (1 .. 0) |-> b]
  <2>1. \A s \in SUBSET (1 .. 0) : s = {}
    OBVIOUS
  <2>2. Folding(I, b, e, 0)
    BY <2>1 DEF Folding
  <2> QED
    BY <2>2
<1>2. ASSUME NEW n \in Nat, n \in P PROVE n + 1 \in P
  <2>1. PICK I : Folding(I, b, e, n)
    BY <1>2
  <2> DEFINE J == [s \in SUBSET (1 .. n + 1) |->
                     IF n + 1 \in s THEN AddEntry(I[s \ {n + 1}], e[n + 1]) ELSE I[s]]
  <2>2. ASSUME NEW s \in SUBSET (1 .. n + 1)
        PROVE  J[s] = IF s = {} THEN b ELSE AddEntry(J[s \ {Max(s)}], e[Max(s)])
    <3>1. CASE n + 1 \in s
      <4>1. Max(s) = n + 1
        <5>1. \A y \in s : n + 1 >= y
          OBVIOUS
        <5>2. \A x \in s : (\A y \in s : x >= y) => x = n + 1
          BY <3>1
        <5> QED
          BY <3>1, <5>1, <5>2 DEF Max
      <4>2. s \ {n + 1} \in SUBSET (1 .. n + 1) /\ n + 1 \notin s \ {n + 1}
        OBVIOUS
      <4>3. J[s \ {n + 1}] = I[s \ {n + 1}]
        BY <4>2
      <4> QED
        BY <3>1, <4>1, <4>3
    <3>2. CASE n + 1 \notin s
      <4>1. s \in SUBSET (1 .. n)
        BY <3>2
      <4>2. I[s] = IF s = {} THEN b ELSE AddEntry(I[s \ {Max(s)}], e[Max(s)])
        BY <2>1, <4>1 DEF Folding
      <4>3. s \ {Max(s)} \in SUBSET (1 .. n + 1) /\ n + 1 \notin s \ {Max(s)}
        BY <3>2
      <4>4. J[s] = I[s] /\ J[s \ {Max(s)}] = I[s \ {Max(s)}]
        BY <3>2, <4>3
      <4> HIDE DEF J
      <4> QED
        BY <4>2, <4>4
    <3> QED
      BY <3>1, <3>2
  <2>3. Folding(J, b, e, n + 1)
    <3>1. J = [s \in SUBSET (1 .. n + 1) |-> J[s]]
      OBVIOUS
    <3> HIDE DEF J
    <3> QED
      BY <2>2, <3>1 DEF Folding
  <2> QED
    BY <2>3
<1>3. \A n \in Nat : n \in P
  <2> HIDE DEF P
  <2> QED
    BY <1>1, <1>2, OneByOne
<1> QED
  BY <1>3

(* A list with all the entries of e added to it.                             *)
Added(b, e) == FoldLeft(AddEntry, b, e)

(* The lists on the way there, each of which is the one before with one      *)
(* entry more.                                                               *)
Builds(g, b, e, n) ==
  /\ g[0] = b
  /\ \A k \in 1 .. n : g[k] = AddEntry(g[k - 1], e[k])
  /\ Added(b, e) = g[n]

(* FoldLeft goes this way.                                                   *)
LEMMA FoldIs ==
  ASSUME NEW b, NEW e, NEW n \in Nat, DOMAIN e = 1 .. n
  PROVE  \E g : Builds(g, b, e, n)
<1> DEFINE I == CHOOSE it : Folding(it, b, e, n)
           g == [k \in 0 .. n |-> I[1 .. k]]
<1>1. Folding(I, b, e, n)
  BY FoldingExists
<1>2. Added(b, e) = I[1 .. n]
  <2>1. FoldLeft(AddEntry, b, e) =
          (CHOOSE it : it = [s \in SUBSET DOMAIN e |->
             IF s = {} THEN b ELSE AddEntry(it[s \ {Max(s)}], e[Max(s)])])[DOMAIN e]
    BY DEF FoldLeft, MapThenFoldSet
  <2> QED
    BY <2>1 DEF Folding, Added
<1> HIDE DEF I
<1>3. I[1 .. 0] = b
  <2>1. 1 .. 0 = {} /\ {} \in SUBSET (1 .. n)
    OBVIOUS
  <2> QED
    BY <1>1, <2>1 DEF Folding
<1>4. ASSUME NEW k \in 1 .. n PROVE I[1 .. k] = AddEntry(I[1 .. (k - 1)], e[k])
  <2>1. 1 .. k \in SUBSET (1 .. n) /\ 1 .. k # {} /\ (1 .. k) \ {k} = 1 .. (k - 1)
    OBVIOUS
  <2>2. Max(1 .. k) = k
    <3>1. k \in 1 .. k /\ \A y \in 1 .. k : k >= y
      OBVIOUS
    <3>2. \A x \in 1 .. k : (\A y \in 1 .. k : x >= y) => x = k
      BY <3>1
    <3> QED
      BY <3>1, <3>2 DEF Max
  <2>3. I[1 .. k] = AddEntry(I[(1 .. k) \ {Max(1 .. k)}], e[Max(1 .. k)])
    BY <1>1, <2>1 DEF Folding
  <2> QED
    BY <2>1, <2>2, <2>3
<1>5. g[0] = b /\ Added(b, e) = g[n]
  BY <1>2, <1>3
<1>6. ASSUME NEW k \in 1 .. n PROVE g[k] = AddEntry(g[k - 1], e[k])
  <2>1. k \in 0 .. n /\ k - 1 \in 0 .. n
    OBVIOUS
  <2> QED
    BY <1>4, <2>1
<1> HIDE DEF g
<1> QED
  BY <1>5, <1>6 DEF Builds

(* What FlattenSeq gives is the last of a row of sequences, each of which is *)
(* the one before with the next one put behind it.                           *)
LEMMA FlattenIs ==
  ASSUME NEW b, NEW n \in Nat, n > 0, Len(b) = n
  PROVE  \E g : /\ g[1] = b[1]
                /\ \A k \in 1 .. n - 1 : g[k + 1] = g[k] \o b[k + 1]
                /\ FlattenSeq(b) = g[n]
<1> DEFINE Rows(f, m) == f = [i \in 1 .. m |-> IF i = 1 THEN b[i] ELSE f[i - 1] \o b[i]]
           P == {m \in Nat : \E f : Rows(f, m)}
<1>1. 0 \in P
  <2>1. Rows([i \in 1 .. 0 |-> 0], 0)
    OBVIOUS
  <2> HIDE DEF Rows
  <2> QED
    BY <2>1
<1>2. ASSUME NEW m \in Nat, m \in P PROVE m + 1 \in P
  <2>1. PICK f : Rows(f, m)
    BY <1>2
  <2> DEFINE h == [i \in 1 .. m + 1 |->
                     IF i = m + 1 THEN (IF i = 1 THEN b[i] ELSE f[m] \o b[i]) ELSE f[i]]
  <2>2. ASSUME NEW i \in 1 .. m + 1 PROVE h[i] = IF i = 1 THEN b[i] ELSE h[i - 1] \o b[i]
    <3>1. CASE i = m + 1
      <4>1. i # 1 => i - 1 = m /\ m \in 1 .. m + 1 /\ m # m + 1
        BY <3>1
      <4>2. i # 1 => h[i - 1] = f[m]
        BY <4>1
      <4> QED
        BY <3>1, <4>2
    <3>2. CASE i # m + 1
      <4>1. i \in 1 .. m /\ h[i] = f[i]
        BY <3>2
      <4>2. f[i] = IF i = 1 THEN b[i] ELSE f[i - 1] \o b[i]
        BY <2>1, <4>1
      <4>3. i # 1 => h[i - 1] = f[i - 1]
        <5>1. i # 1 => i - 1 \in 1 .. m + 1 /\ i - 1 # m + 1
          BY <4>1
        <5> QED
          BY <5>1
      <4> HIDE DEF h
      <4> QED
        BY <4>1, <4>2, <4>3
    <3> QED
      BY <3>1, <3>2
  <2>3. h = [i \in 1 .. m + 1 |-> h[i]]
    OBVIOUS
  <2>4. Rows(h, m + 1)
    <3> HIDE DEF h
    <3> QED
      BY <2>2, <2>3
  <2> HIDE DEF h, Rows
  <2> QED
    BY <2>4
<1>3. \A m \in Nat : m \in P
  <2> HIDE DEF P
  <2> QED
    BY <1>1, <1>2, OneByOne
<1> DEFINE g == CHOOSE f : Rows(f, n)
<1>4. Rows(g, n)
  <2>1. \E f : Rows(f, n)
    BY <1>3
  <2> HIDE DEF Rows
  <2> QED
    BY <2>1
<1>5. FlattenSeq(b) = g[n]
  BY DEF FlattenSeq
<1> HIDE DEF g
<1>6. g[1] = b[1]
  <2>1. 1 \in 1 .. n
    OBVIOUS
  <2> QED
    BY <1>4, <2>1
<1>7. ASSUME NEW k \in 1 .. n - 1 PROVE g[k + 1] = g[k] \o b[k + 1]
  <2>1. k + 1 \in 1 .. n /\ k + 1 # 1 /\ (k + 1) - 1 = k
    OBVIOUS
  <2> QED
    BY <1>4, <2>1
<1> QED
  BY <1>5, <1>6, <1>7

(* The entries of the HWINFO: four for each interface, one behind the other. *)
LEMMA HwEntries ==
  /\ Len(HwInfo.entries) = 4 * Len(Hardware) /\ DOMAIN HwInfo.entries = 1 .. 4 * Len(Hardware)
  /\ \A j \in 1 .. Len(Hardware), x \in 1 .. 4 :
       HwInfo.entries[4 * (j - 1) + x] = Entries(Hardware[j])[x]
<1> DEFINE N == Len(Hardware)
           Items == UNION {{Entries(Hardware[j])[x] : x \in 1 .. 4} : j \in 1 .. N}
           b == [k \in DOMAIN Hardware |-> Entries(Hardware[k])]
<1>1. N \in Nat /\ N > 0 /\ DOMAIN Hardware = 1 .. N
  BY SessionAssumption
<1>2. \A j \in 1 .. N : Len(Entries(Hardware[j])) = 4 /\ Entries(Hardware[j]) \in Seq(Items)
  <2> SUFFICES ASSUME NEW j \in 1 .. N
               PROVE  Len(Entries(Hardware[j])) = 4 /\ Entries(Hardware[j]) \in Seq(Items)
    OBVIOUS
  <2>1. Len(Entries(Hardware[j])) = 4 /\ DOMAIN Entries(Hardware[j]) = 1 .. 4
    BY DEF Entries
  <2>2. \A x \in 1 .. 4 : Entries(Hardware[j])[x] \in Items
    OBVIOUS
  <2>3. Entries(Hardware[j]) = [x \in 1 .. 4 |-> Entries(Hardware[j])[x]]
    BY DEF Entries
  <2> HIDE DEF Items
  <2>4. Entries(Hardware[j]) \in [1 .. 4 -> Items]
    BY <2>2, <2>3, Zenon
  <2>5. 4 \in Nat
    OBVIOUS
  <2> QED
    BY <2>1, <2>4, <2>5, SeqDef
<1> HIDE DEF Items
<1>3. Len(b) = N /\ \A k \in 1 .. N : b[k] = Entries(Hardware[k])
  BY <1>1
<1>4. HwInfo.entries = FlattenSeq(b)
  BY DEF HwInfo
<1> HIDE DEF b, N
<1>5. PICK g : /\ g[1] = b[1]
               /\ \A k \in 1 .. N - 1 : g[k + 1] = g[k] \o b[k + 1]
               /\ FlattenSeq(b) = g[N]
  BY <1>1, <1>3, FlattenIs
<1> DEFINE Fit(k) == /\ g[k] \in Seq(Items) /\ Len(g[k]) = 4 * k
                     /\ \A j \in 1 .. k, x \in 1 .. 4 : g[k][4 * (j - 1) + x] = Entries(Hardware[j])[x]
           P == {n \in Nat : n + 1 <= N => Fit(n + 1)}
<1>6. 0 \in P
  <2>1. g[1] = Entries(Hardware[1]) /\ 1 \in 1 .. N
    BY <1>1, <1>3, <1>5
  <2>2. \A j \in 1 .. 1, x \in 1 .. 4 : j = 1 /\ 4 * (j - 1) + x = x
    OBVIOUS
  <2>3. Fit(1)
    BY <1>2, <2>1, <2>2
  <2> HIDE DEF Fit
  <2> QED
    BY <2>3
<1>7. ASSUME NEW n \in Nat, n \in P PROVE n + 1 \in P
  <2> SUFFICES ASSUME (n + 1) + 1 <= N PROVE Fit((n + 1) + 1)
    OBVIOUS
  <2> DEFINE k == n + 1
  <2>1. k \in 1 .. N /\ k + 1 \in 1 .. N /\ k \in 1 .. N - 1 /\ k \in Nat
    BY <1>1
  <2>2. Fit(k)
    BY <1>1, <1>7
  <2> HIDE DEF k
  <2> SUFFICES Fit(k + 1)
    BY DEF k
  <2> DEFINE s == Entries(Hardware[k + 1])
  <2>3. g[k + 1] = g[k] \o s
    BY <1>3, <1>5, <2>1
  <2>4. s \in Seq(Items) /\ Len(s) = 4
    BY <1>2, <2>1
  <2> DEFINE a == g[k]
  <2>5. a \in Seq(Items) /\ Len(a) = 4 * k
    BY <2>2
  <2>6. g[k + 1] \in Seq(Items) /\ Len(g[k + 1]) = 4 * (k + 1)
    <3> HIDE DEF s, a
    <3>1. a \o s \in Seq(Items) /\ Len(a \o s) = Len(a) + Len(s)
      BY <2>4, <2>5, ConcatProperties
    <3> QED
      BY <2>1, <2>3, <2>4, <2>5, <3>1 DEF a
  <2>7. \A y \in 1 .. 4 * k + 4 : g[k + 1][y] = IF y <= 4 * k THEN a[y] ELSE s[y - 4 * k]
    <3> HIDE DEF s, a
    <3>1. \A y \in 1 .. Len(a) + Len(s) :
            (a \o s)[y] = IF y <= Len(a) THEN a[y] ELSE s[y - Len(a)]
      BY <2>4, <2>5, ConcatProperties
    <3> QED
      BY <2>3, <2>4, <2>5, <3>1 DEF a
  <2>8. ASSUME NEW j \in 1 .. k + 1, NEW x \in 1 .. 4
        PROVE  g[k + 1][4 * (j - 1) + x] = Entries(Hardware[j])[x]
    <3> DEFINE y == 4 * (j - 1) + x
    <3>1. y \in 1 .. 4 * k + 4
      BY <2>1
    <3>2. CASE j = k + 1
      <4>1. ~(y <= 4 * k) /\ y - 4 * k = x
        BY <2>1, <3>2
      <4> HIDE DEF y
      <4> QED
        BY <2>7, <3>1, <3>2, <4>1 DEF y
    <3>3. CASE j # k + 1
      <4>1. y <= 4 * k /\ j \in 1 .. k
        BY <2>1, <3>3
      <4>2. a[y] = Entries(Hardware[j])[x]
        BY <2>2, <4>1
      <4> HIDE DEF y, a
      <4> QED
        BY <2>7, <3>1, <4>1, <4>2 DEF y
    <3> QED
      BY <3>2, <3>3
  <2> HIDE DEF s, a
  <2> QED
    BY <2>6, <2>8
<1>8. N - 1 \in P
  <2> HIDE DEF P
  <2>1. \A n \in Nat : n \in P
    BY <1>6, <1>7, OneByOne
  <2> QED
    BY <1>1, <2>1
<1>9. Fit(N)
  <2>1. N - 1 \in Nat /\ (N - 1) + 1 = N
    BY <1>1
  <2> HIDE DEF Fit
  <2> QED
    BY <1>8, <2>1
<1> QED
  BY <1>1, <1>4, <1>5, <1>9 DEF N

(* Interfaces with their addresses.                                         *)
Described == [name : STRING, ip : STRING \cup {Junk}, mac : STRING \cup {Junk}]

(* The hardware is such interfaces.                                          *)
LEMMA HardwareDescribed == Hardware \in Seq(Described)
<1> DEFINE Plain == [name : STRING, ip : STRING, mac : STRING]
<1>1. Plain \subseteq Described
  BY DEF Described
<1>2. Hardware \in Seq(Plain)
  BY SessionAssumption
<1> HIDE DEF Plain
<1> QED
  BY <1>1, <1>2, SeqMonotonic

(* The entries of an interface add that interface to a list.                 *)
LEMMA OneInterface ==
  ASSUME NEW list \in Seq(Described), NEW i \in Described
  PROVE  AddEntry(AddEntry(AddEntry(AddEntry(list,
           Entries(i)[1]), Entries(i)[2]), Entries(i)[3]), Entries(i)[4]) = Append(list, i)
<1> DEFINE n == Len(list)
           a == AddEntry(list, Entries(i)[1])
           c == AddEntry(a, Entries(i)[3])
           d == AddEntry(c, Entries(i)[4])
           half == [name |-> i.name, ip |-> Junk, mac |-> i.mac]
<1>1. n \in Nat /\ New(i.name) \in Described /\ half \in Described
  <2>1. n \in Nat
    BY LenProperties
  <2>2. i.name \in STRING /\ i.mac \in STRING \cup {Junk}
    BY DEF Described
  <2> QED
    BY <2>1, <2>2 DEF New, Described
<1>2. a = Append(list, New(i.name))
  BY DEF Entries, AddEntry
<1>3. AddEntry(a, Entries(i)[2]) = a
  BY DEF Entries, AddEntry
<1> HIDE DEF a
<1>4. c = [a EXCEPT ![Len(a)] = [a[Len(a)] EXCEPT !.mac = i.mac]]
  BY DEF Entries, AddEntry, Set
<1> HIDE DEF c
<1>5. d = [c EXCEPT ![Len(c)] = [c[Len(c)] EXCEPT !.ip = i.ip]]
  BY DEF Entries, AddEntry, Set
<1> HIDE DEF d, n, half
<1>6. /\ a \in Seq(Described) /\ Len(a) = n + 1 /\ a[n + 1] = New(i.name)
      /\ \A k \in 1 .. n : a[k] = list[k]
  BY <1>1, <1>2, AppendProperties DEF n
<1>7. /\ c \in Seq(Described) /\ Len(c) = n + 1 /\ c[n + 1] = half
      /\ \A k \in 1 .. n : c[k] = list[k]
  <2>1. [a[n + 1] EXCEPT !.mac = i.mac] = half
    BY <1>6 DEF New, half
  <2>2. c = [a EXCEPT ![n + 1] = half]
    BY <1>4, <1>6, <2>1, Zenon
  <2> n + 1 \in 1 .. Len(a)
    BY <1>1, <1>6
  <2>3. /\ c \in Seq(Described) /\ Len(c) = Len(a)
        /\ \A k \in 1 .. Len(a) : c[k] = IF k = n + 1 THEN half ELSE a[k]
    BY <1>1, <1>6, <2>2, ExceptSeq
  <2> QED
    BY <1>1, <1>6, <2>3
<1>8. /\ d \in Seq(Described) /\ Len(d) = n + 1 /\ d[n + 1] = i
      /\ \A k \in 1 .. n : d[k] = list[k]
  <2>1. [c[n + 1] EXCEPT !.ip = i.ip] = i
    BY <1>7 DEF half, Described
  <2>2. d = [c EXCEPT ![n + 1] = i]
    BY <1>5, <1>7, <2>1, Zenon
  <2> n + 1 \in 1 .. Len(c)
    BY <1>1, <1>7
  <2>3. /\ d \in Seq(Described) /\ Len(d) = Len(c)
        /\ \A k \in 1 .. Len(c) : d[k] = IF k = n + 1 THEN i ELSE c[k]
    BY <1>7, <2>2, ExceptSeq
  <2> QED
    BY <1>1, <1>7, <2>3
<1>9. /\ Append(list, i) \in Seq(Described) /\ Len(Append(list, i)) = n + 1
      /\ Append(list, i)[n + 1] = i
      /\ \A k \in 1 .. n : Append(list, i)[k] = list[k]
  BY AppendProperties DEF n
<1>10. d = Append(list, i)
  <2> DEFINE z == Append(list, i)
  <2>1. \A k \in 1 .. n + 1 : k = n + 1 \/ k \in 1 .. n
    BY <1>1
  <2> HIDE DEF z
  <2>2. \A k \in 1 .. Len(d) : d[k] = z[k]
    BY <1>8, <1>9, <2>1 DEF z
  <2>3. z \in Seq(Described) /\ Len(d) = Len(z)
    BY <1>8, <1>9 DEF z
  <2>4. d = z
    BY <1>8, <2>2, <2>3, SeqEqual
  <2> QED
    BY <2>4 DEF z
<1> QED
  BY <1>3, <1>10 DEF d, c, a

(* sr_handle_hwinfo makes the list of the hardware out of the empty one.     *)
LEMMA HwFold == Added(<<>>, HwInfo.entries) = Hardware
<1> DEFINE N == Len(Hardware)
           e == HwInfo.entries
<1>1. N \in Nat /\ N > 0 /\ Hardware \in Seq(Described) /\ DOMAIN Hardware = 1 .. N
  BY SessionAssumption, HardwareDescribed
<1>2. /\ 4 * N \in Nat /\ DOMAIN e = 1 .. 4 * N
      /\ \A j \in 1 .. N, x \in 1 .. 4 : e[4 * (j - 1) + x] = Entries(Hardware[j])[x]
  BY <1>1, HwEntries
<1> HIDE DEF e
<1>3. PICK g : /\ g[0] = <<>>
               /\ \A k \in 1 .. 4 * N : g[k] = AddEntry(g[k - 1], e[k])
               /\ Added(<<>>, e) = g[4 * N]
  <2> DEFINE n == 4 * N
  <2>1. n \in Nat /\ DOMAIN e = 1 .. n
    BY <1>2
  <2> HIDE DEF n
  <2>2. \E g : Builds(g, <<>>, e, n)
    BY <2>1, FoldIs
  <2> QED
    BY <2>2 DEF n, Builds
<1> DEFINE P == {j \in Nat : j <= N => g[4 * j] = SubSeq(Hardware, 1, j)}
<1>4. 0 \in P
  <2>1. SubSeq(Hardware, 1, 0) = <<>>
    BY <1>1
  <2>2. 4 * 0 = 0
    OBVIOUS
  <2> QED
    BY <1>3, <2>1, <2>2
<1>5. ASSUME NEW j \in Nat, j \in P PROVE j + 1 \in P
  <2> SUFFICES ASSUME j + 1 <= N PROVE g[4 * (j + 1)] = SubSeq(Hardware, 1, j + 1)
    OBVIOUS
  <2> DEFINE list == SubSeq(Hardware, 1, j)
             i == Hardware[j + 1]
  <2>1. g[4 * j] = list
    BY <1>1, <1>5
  <2>2. j + 1 \in 1 .. N /\ i \in Described
    BY <1>1
  <2>3. list \in Seq(Described)
    BY <1>1, SubSeqProperties
  <2>4. SubSeq(Hardware, 1, j + 1) = Append(list, i)
    BY <1>1
  <2>5. ASSUME NEW x \in 1 .. 4
        PROVE  g[4 * j + x] = AddEntry(g[4 * j + (x - 1)], Entries(i)[x])
    <3> DEFINE k == 4 * j + x
    <3>1. k \in 1 .. 4 * N /\ k - 1 = 4 * j + (x - 1) /\ 4 * ((j + 1) - 1) + x = k
      BY <1>1
    <3>2. e[k] = Entries(i)[x]
      BY <1>2, <2>2, <3>1
    <3> HIDE DEF k
    <3> QED
      BY <1>3, <3>1, <3>2 DEF k
  <2> HIDE DEF list, i
  <2>6. /\ g[4 * j + 1] = AddEntry(list, Entries(i)[1])
        /\ g[4 * j + 2] = AddEntry(g[4 * j + 1], Entries(i)[2])
        /\ g[4 * j + 3] = AddEntry(g[4 * j + 2], Entries(i)[3])
        /\ g[4 * j + 4] = AddEntry(g[4 * j + 3], Entries(i)[4])
    <3>1. 4 * j + 0 = 4 * j
      OBVIOUS
    <3> QED
      BY <2>1, <2>5, <3>1
  <2>7. g[4 * j + 4] = Append(list, i)
    BY <2>2, <2>3, <2>6, OneInterface
  <2>8. 4 * (j + 1) = 4 * j + 4
    OBVIOUS
  <2> QED
    BY <2>4, <2>7, <2>8
<1>6. N \in P
  <2> HIDE DEF P
  <2>1. \A n \in Nat : n \in P
    BY <1>4, <1>5, OneByOne
  <2> QED
    BY <1>1, <2>1
<1>7. SubSeq(Hardware, 1, N) = Hardware
  BY <1>1
<1> QED
  BY <1>3, <1>6, <1>7 DEF e

-----------------------------------------------------------------------------
(* The two queues of the connection *)

(* A queue holds a message, holds it once at most, and holds p only behind m.*)
Has(q, m) == \E k \in DOMAIN q : q[k] = m
Once(q, m) == \A k, l \in DOMAIN q : q[k] = m /\ q[l] = m => k = l
Led(q, p, m) == \A k \in DOMAIN q : q[k] = p => \E j \in DOMAIN q : j < k /\ q[j] = m

Status(ok) == [type |-> "AUTH_STATUS", ok |-> ok]
Request == Command("AUTH_REQUEST")
Reply == Command("AUTH_REPLY")

(* What the server sends.                                                    *)
Orders ==
  {Request, Command("RTABLE"), Command("CLOSE"), HwInfo} \cup {Status(ok) : ok \in BOOLEAN}
  \cup {Packet(i) : i \in Names}

(* Places before the OPEN, and all places.                                   *)
BeforeOpen == {"start", "connect", "auth", "status", "open"}
Places == BeforeOpen \cup {"rtable", "load", "init", "loop"} \cup Over

-----------------------------------------------------------------------------
Sent == [ok |-> TRUE, routes |-> SentTable]

SessionTypes ==
  /\ pc \in Places /\ routes \in Seq(STRING) /\ file \in Tables \cup {Sent}
  /\ toRouter \in Seq(Orders)
  /\ ifs \in {<<>>, Hardware}
  /\ ready => ifs = Hardware /\ pc \in {"loop"} \cup Over
  /\ ready => \A k \in DOMAIN routes : routes[k] \in Names
  /\ tables => pc \in {"init", "loop"} \cup Over

Authenticated ==
  /\ pc \in {"start", "connect"} => toRouter = <<>> /\ ~accepted
  /\ pc \in {"start", "connect", "auth"} => toServer = <<>> /\ ~refused
  /\ pc = "auth" => toRouter # <<>> /\ Head(toRouter) = Request
  /\ Once(toRouter, Request) /\ Once(toServer, Reply)
  /\ refused => ~Has(toServer, Reply)
  /\ \A ok \in BOOLEAN : 
       /\ Once(toRouter, Status(ok))
       /\ Has(toRouter, Status(ok)) => (ok <=> ~refused) /\ ~Has(toServer, Reply)
  /\ pc \notin {"auth"} \cup Over => ~Has(toRouter, Request)
  /\ pc \notin {"status"} \cup Over =>
       ~Has(toServer, Reply) /\ \A ok \in BOOLEAN : ~Has(toRouter, Status(ok))

OpenedOnce ==
  /\ \A m \in {Command("OPEN"), Command("OPEN_TEMPLATE")} :
       /\ Once(toServer, m)
       /\ Has(toServer, m) => ~Has(toRouter, HwInfo) /\ ifs = <<>>
       /\ pc \in BeforeOpen => ~Has(toServer, m)
  /\ ~(Has(toServer, Command("OPEN")) /\ Has(toServer, Command("OPEN_TEMPLATE")))
  /\ Once(toRouter, HwInfo)
  /\ Has(toRouter, HwInfo) => ifs = <<>>
  /\ pc \in BeforeOpen => ~Has(toRouter, HwInfo) /\ ~Has(toRouter, Command("RTABLE"))
  /\ pc \notin {"loop"} \cup Over => ifs = <<>>
  /\ pc = "rtable" => ~Has(toServer, Command("OPEN")) /\ Led(toRouter, HwInfo, Command("RTABLE"))

PacketsLed ==
  /\ pc \notin Over /\ ~early /\ ~ready => \A i \in Names : Led(toRouter, Packet(i), HwInfo)
  /\ Has(toRouter, Command("CLOSE")) => dismissed

TableLoaded == pc \in {"init", "loop"} /\ GoodTable => routes = file.routes

Bounded ==
  /\ pc \in {"status", "open"} => Len(toServer) <= 1
  /\ Len(toServer) <= Room + 2

SessionInv ==
  /\ SessionTypes /\ Authenticated /\ OpenedOnce /\ PacketsLed /\ TableLoaded
  /\ Bounded /\ EndsForAReason

-----------------------------------------------------------------------------
(* Queues *)

(* What is put behind a queue.                                               *)
LEMMA PutBehind ==
  ASSUME NEW S, NEW q \in Seq(S), NEW x \in S, NEW m
  PROVE  /\ Has(Append(q, x), m) <=> Has(q, m) \/ m = x
         /\ Once(q, m) /\ (m = x => ~Has(q, m)) => Once(Append(q, x), m)
         /\ \A p : Led(q, p, m) /\ (p = x => Has(q, m)) => Led(Append(q, x), p, m)
         /\ q # <<>> => Head(Append(q, x)) = Head(q)
         /\ Append(q, x) \in Seq(S) /\ Append(q, x) # <<>> /\ Len(Append(q, x)) = Len(q) + 1
<1> DEFINE n == Len(q)
           r == Append(q, x)
<1>1. /\ n \in Nat /\ DOMAIN q = 1 .. n /\ r \in Seq(S) /\ r # <<>> /\ Len(r) = n + 1
      /\ DOMAIN r = 1 .. n + 1 /\ r[n + 1] = x /\ \A k \in 1 .. n : r[k] = q[k]
  BY AppendProperties, LenProperties
<1>2. q # <<>> => Head(r) = Head(q)
  BY HeadTailAppend
<1> HIDE DEF n, r
<1>3. \A k \in 1 .. n + 1 : k = n + 1 \/ k \in 1 .. n
  BY <1>1
<1>4. Has(r, m) <=> Has(q, m) \/ m = x
  <2>1. \A k \in 1 .. n : k \in 1 .. n + 1
    BY <1>1
  <2>2. n + 1 \in 1 .. n + 1
    BY <1>1
  <2> QED
    BY <1>1, <1>3, <2>1, <2>2 DEF Has
<1>5. Once(q, m) /\ (m = x => ~Has(q, m)) => Once(r, m)
  BY <1>1, <1>3 DEF Has, Once
<1>6. \A p : Led(q, p, m) /\ (p = x => Has(q, m)) => Led(r, p, m)
  <2> SUFFICES ASSUME NEW p, Led(q, p, m), p = x => Has(q, m), NEW k \in 1 .. n + 1, r[k] = p
               PROVE  \E j \in 1 .. n + 1 : j < k /\ r[j] = m
    BY <1>1 DEF Led
  <2>1. CASE k = n + 1
    <3>1. PICK j \in 1 .. n : q[j] = m
      BY <1>1, <2>1 DEF Has
    <3> QED
      BY <1>1, <2>1, <3>1
  <2>2. CASE k \in 1 .. n
    <3>1. PICK j \in 1 .. n : j < k /\ q[j] = m
      BY <1>1, <2>2 DEF Led
    <3> QED
      BY <1>1, <2>2, <3>1
  <2> QED
    BY <1>3, <2>1, <2>2
<1> QED
  BY <1>1, <1>2, <1>4, <1>5, <1>6 DEF r, n

(* What is taken from a queue.                                               *)
LEMMA TakeFirst ==
  ASSUME NEW S, NEW q \in Seq(S), q # <<>>, NEW m
  PROVE  /\ Has(Tail(q), m) => Has(q, m)
         /\ Once(q, m) => Once(Tail(q), m) /\ (Head(q) = m => ~Has(Tail(q), m))
         /\ \A p : Led(q, p, m) => Head(q) # p /\ (Head(q) # m => Led(Tail(q), p, m))
         /\ Has(q, Head(q)) /\ Head(q) \in S
         /\ Tail(q) \in Seq(S) /\ Len(Tail(q)) = Len(q) - 1 /\ Len(q) \in Nat
<1> DEFINE n == Len(q)
           r == Tail(q)
<1>1. /\ n \in Nat /\ n > 0 /\ DOMAIN q = 1 .. n /\ r \in Seq(S) /\ Len(r) = n - 1
      /\ DOMAIN r = 1 .. n - 1 /\ Head(q) = q[1] /\ Head(q) \in S
      /\ \A k \in 1 .. n - 1 : r[k] = q[k + 1]
  BY HeadTailProperties, LenProperties, EmptySeq
<1> HIDE DEF n, r
<1>2. \A k \in 1 .. n - 1 : k + 1 \in 1 .. n /\ k + 1 # 1
  BY <1>1
<1>3. 1 \in 1 .. n
  BY <1>1
<1>4. Has(r, m) => Has(q, m)
  BY <1>1, <1>2 DEF Has
<1>5. ASSUME Once(q, m) PROVE Once(r, m) /\ (Head(q) = m => ~Has(r, m))
  <2>1. \A k, l \in 1 .. n : q[k] = m /\ q[l] = m => k = l
    BY <1>1, <1>5 DEF Once
  <2>2. ASSUME NEW k \in 1 .. n - 1, NEW l \in 1 .. n - 1, r[k] = m, r[l] = m PROVE k = l
    <3>1. k + 1 = l + 1
      BY <1>1, <1>2, <2>1, <2>2
    <3> QED
      BY <3>1
  <2>3. ASSUME NEW k \in 1 .. n - 1, r[k] = m PROVE Head(q) # m
    BY <1>1, <1>2, <1>3, <2>1, <2>3
  <2> QED
    BY <1>1, <2>2, <2>3 DEF Has, Once
<1>6. \A p : Led(q, p, m) => Head(q) # p /\ (Head(q) # m => Led(r, p, m))
  <2> SUFFICES ASSUME NEW p, Led(q, p, m)
               PROVE  Head(q) # p /\ (Head(q) # m => Led(r, p, m))
    OBVIOUS
  <2>1. Head(q) # p
    BY <1>1, <1>3 DEF Led
  <2>2. ASSUME Head(q) # m, NEW k \in 1 .. n - 1, r[k] = p
        PROVE  \E j \in 1 .. n - 1 : j < k /\ r[j] = m
    <3>1. PICK j \in 1 .. n : j < k + 1 /\ q[j] = m
      BY <1>1, <1>2, <2>2 DEF Led
    <3>2. j # 1
      BY <1>1, <2>2, <3>1
    <3>3. j - 1 \in 1 .. n - 1 /\ j - 1 < k /\ (j - 1) + 1 = j
      BY <1>1, <3>1, <3>2
    <3> QED
      BY <1>1, <3>1, <3>3
  <2> QED
    BY <1>1, <2>1, <2>2 DEF Led
<1>7. Has(q, Head(q))
  BY <1>1, <1>3 DEF Has
<1> QED
  BY <1>1, <1>4, <1>5, <1>6, <1>7 DEF r, n

(* Nothing is on the empty queue.                                            *)
LEMMA NothingQueued ==
  \A m, p : ~Has(<<>>, m) /\ Once(<<>>, m) /\ Led(<<>>, p, m)
BY DEF Has, Once, Led

(* The commands are told apart by their types.                               *)
LEMMA OrderTypes ==
  /\ Request \in Orders /\ Command("RTABLE") \in Orders /\ Command("CLOSE") \in Orders
  /\ HwInfo \in Orders /\ \A ok \in BOOLEAN : Status(ok) \in Orders
  /\ \A i \in Names : Packet(i) \in Orders
  /\ Request.type = "AUTH_REQUEST" /\ HwInfo.type = "HWINFO"
  /\ Command("RTABLE").type = "RTABLE" /\ Command("CLOSE").type = "CLOSE"
  /\ \A ok \in BOOLEAN : Status(ok).type = "AUTH_STATUS" /\ Status(ok).ok = ok
  /\ \A i \in Names : Packet(i).type = "PACKET" /\ Packet(i).iface = i
<1> DEFINE h == HwInfo.entries
<1>1. HwInfo = [type |-> "HWINFO", entries |-> h]
  BY DEF HwInfo
<1> HIDE DEF h
<1> QED
  BY <1>1 DEF Orders, Request, Status, Packet, Command

LEMMA OrderIs ==
  ASSUME NEW m \in Orders
  PROVE  /\ m.type = "AUTH_REQUEST" => m = Request
         /\ m.type = "RTABLE" => m = Command("RTABLE")
         /\ m.type = "CLOSE" => m = Command("CLOSE")
         /\ m.type = "HWINFO" => m = HwInfo
         /\ m.type = "AUTH_STATUS" => m.ok \in BOOLEAN /\ m = Status(m.ok)
         /\ m.type = "PACKET" => m.iface \in Names /\ m = Packet(m.iface)
         /\ m.type \in {"AUTH_REQUEST", "RTABLE", "CLOSE", "HWINFO", "AUTH_STATUS", "PACKET"}
<1>1. \/ m \in {Request, Command("RTABLE"), Command("CLOSE"), HwInfo}
      \/ \E ok \in BOOLEAN : m = Status(ok)
      \/ \E i \in Names : m = Packet(i)
  BY DEF Orders
<1>2. CASE m \in {Request, Command("RTABLE"), Command("CLOSE"), HwInfo}
  BY <1>2, OrderTypes
<1>3. ASSUME NEW ok \in BOOLEAN, m = Status(ok) PROVE m.type = "AUTH_STATUS" /\ m.ok = ok
  BY <1>3, OrderTypes
<1>4. ASSUME NEW i \in Names, m = Packet(i) PROVE m.type = "PACKET" /\ m.iface = i
  BY <1>4, OrderTypes
<1> QED
  BY <1>1, <1>2, <1>3, <1>4

(* What the file may be.                                                     *)
LEMMA FileTypes ==
  /\ \A f \in Tables \cup {Sent} : f.ok \in BOOLEAN /\ f.routes \in Seq(STRING)
  /\ Sent.ok = TRUE /\ Sent.routes = SentTable
  /\ \A k \in DOMAIN Hardware : Hardware[k].name \in Names
  /\ \A i \in Names : \E k \in DOMAIN Hardware : Hardware[k].name = i
  /\ <<>> # Hardware /\ NoTable \in Seq(STRING)
<1>1. Names \subseteq STRING
  <2>1. \A k \in DOMAIN Hardware : Hardware[k] \in Described
    BY HardwareDescribed, LenProperties, ElementOfSeq
  <2> QED
    BY <2>1 DEF Names, Described
<1>2. SentTable \in Seq(STRING)
  BY <1>1, SessionAssumption, SeqMonotonic
<1>3. Sent.ok = TRUE /\ Sent.routes = SentTable
  BY DEF Sent
<1>4. \A f \in Tables : f.ok \in BOOLEAN /\ f.routes \in Seq(STRING)
  BY SessionAssumption
<1>5. <<>> # Hardware
  BY SessionAssumption, EmptySeq
<1>6. NoTable \in Seq(STRING)
  BY EmptySeq DEF NoTable
<1>7. /\ \A k \in DOMAIN Hardware : Hardware[k].name \in Names
      /\ \A i \in Names : \E k \in DOMAIN Hardware : Hardware[k].name = i
  BY DEF Names
<1> QED
  BY <1>2, <1>3, <1>4, <1>5, <1>6, <1>7

(* What main reads is the first command on the queue.                        *)
LEMMA ReadTakes ==
  ASSUME SessionInv, Read
  PROVE  /\ Head(toRouter) \in Orders /\ Type = Head(toRouter).type
         /\ toRouter' \in Seq(Orders) /\ Has(toRouter, Head(toRouter))
         /\ \A m : Has(toRouter', m) => Has(toRouter, m)
         /\ \A m : Once(toRouter, m) => Once(toRouter', m)
         /\ Once(toRouter, Head(toRouter)) => ~Has(toRouter', Head(toRouter))
         /\ \A m, p : Led(toRouter, p, m) => Head(toRouter) # p
         /\ \A m, p : Led(toRouter, p, m) /\ Head(toRouter) # m => Led(toRouter', p, m)
<1>1. toRouter \in Seq(Orders) /\ toRouter # <<>> /\ toRouter' = Tail(toRouter)
  BY DEF SessionInv, SessionTypes, Read, Reading
<1>2. \A m : /\ Has(Tail(toRouter), m) => Has(toRouter, m)
             /\ Once(toRouter, m) =>
                  Once(Tail(toRouter), m) /\ (Head(toRouter) = m => ~Has(Tail(toRouter), m))
             /\ \A p : Led(toRouter, p, m) =>
                  Head(toRouter) # p /\ (Head(toRouter) # m => Led(Tail(toRouter), p, m))
             /\ Has(toRouter, Head(toRouter)) /\ Head(toRouter) \in Orders
             /\ Tail(toRouter) \in Seq(Orders)
  BY <1>1, TakeFirst
<1> QED
  BY <1>1, <1>2 DEF Type

(* What the server sends goes to the end of the queue.                       *)
LEMMA SendPuts ==
  ASSUME toRouter \in Seq(Orders), NEW x \in Orders, toRouter' = toRouter \o <<x>>
  PROVE  /\ toRouter' \in Seq(Orders) /\ toRouter' # <<>>
         /\ \A m : Has(toRouter', m) <=> Has(toRouter, m) \/ m = x
         /\ \A m : Once(toRouter, m) /\ (m = x => ~Has(toRouter, m)) => Once(toRouter', m)
         /\ \A m, p : Led(toRouter, p, m) /\ (p = x => Has(toRouter, m)) => Led(toRouter', p, m)
         /\ toRouter # <<>> => Head(toRouter') = Head(toRouter)
<1>1. toRouter' = Append(toRouter, x)
  BY AppendIsConcat
<1>2. \A m : /\ Has(Append(toRouter, x), m) <=> Has(toRouter, m) \/ m = x
             /\ Once(toRouter, m) /\ (m = x => ~Has(toRouter, m)) => Once(Append(toRouter, x), m)
             /\ \A p : Led(toRouter, p, m) /\ (p = x => Has(toRouter, m)) =>
                  Led(Append(toRouter, x), p, m)
             /\ toRouter # <<>> => Head(Append(toRouter, x)) = Head(toRouter)
             /\ Append(toRouter, x) \in Seq(Orders) /\ Append(toRouter, x) # <<>>
  BY PutBehind
<1> QED
  BY <1>1, <1>2

(* What main tells the server goes to the end of the other one.              *)
Tells(x) == toServer' = Append(toServer, x)

LEMMA TellPuts ==
  ASSUME FramesInv, NEW x \in Told, Tells(x)
  PROVE  /\ \A m : Has(toServer', m) <=> Has(toServer, m) \/ m = x
         /\ \A m : Once(toServer, m) /\ (m = x => ~Has(toServer, m)) => Once(toServer', m)
         /\ Len(toServer') = Len(toServer) + 1 /\ Len(toServer) \in Nat
<1>1. toServer \in Seq(Told \cup Parts) /\ x \in Told \cup Parts
  BY DEF FramesInv
<1>2. \A m : /\ Has(Append(toServer, x), m) <=> Has(toServer, m) \/ m = x
             /\ Once(toServer, m) /\ (m = x => ~Has(toServer, m)) => Once(Append(toServer, x), m)
             /\ Len(Append(toServer, x)) = Len(toServer) + 1
  BY <1>1, PutBehind
<1> QED
  BY <1>1, <1>2, LenProperties DEF Tells

(* The server has no command to read that it had not before.                 *)
Fewer ==
  \A m \in Told :
    (Has(toServer', m) => Has(toServer, m)) /\ (Once(toServer, m) => Once(toServer', m))

(* The commands that the router sends.                                       *)
LEMMA ToldTypes ==
  /\ Reply \in Told /\ Command("OPEN") \in Told /\ Command("OPEN_TEMPLATE") \in Told
  /\ Reply.type = "AUTH_REPLY" /\ Command("OPEN").type = "OPEN"
  /\ Command("OPEN_TEMPLATE").type = "OPEN_TEMPLATE"
BY DEF Told, Reply, Command

(* The server takes the first thing off its queue.                           *)
LEMMA ServerTakes ==
  ASSUME FramesInv, toServer # <<>>, toServer' = Tail(toServer)
  PROVE  /\ Fewer /\ Head(toServer) \in Told \cup Parts /\ Has(toServer, Head(toServer))
         /\ \A m : Once(toServer, m) /\ Head(toServer) = m => ~Has(toServer', m)
         /\ Len(toServer') = Len(toServer) - 1 /\ Len(toServer) \in Nat
<1>1. toServer \in Seq(Told \cup Parts)
  BY DEF FramesInv
<1>2. \A m : /\ Has(Tail(toServer), m) => Has(toServer, m)
             /\ Once(toServer, m) =>
                  Once(Tail(toServer), m) /\ (Head(toServer) = m => ~Has(Tail(toServer), m))
             /\ Has(toServer, Head(toServer)) /\ Head(toServer) \in Told \cup Parts
             /\ Len(Tail(toServer)) = Len(toServer) - 1 /\ Len(toServer) \in Nat
  BY <1>1, TakeFirst
<1> QED
  BY <1>2 DEF Fewer

(* A part of a frame is no command.                                          *)
LEMMA PartIsNoCommand ==
  ASSUME FramesInv, NEW x \in Parts, toServer' = Append(toServer, x)
  PROVE  Fewer /\ Len(toServer') = Len(toServer) + 1 /\ toServer' \in Seq(Told \cup Parts)
<1>1. toServer \in Seq(Told \cup Parts) /\ x \in Told \cup Parts
  BY DEF FramesInv
<1>2. \A m : /\ Has(Append(toServer, x), m) <=> Has(toServer, m) \/ m = x
             /\ Once(toServer, m) /\ (m = x => ~Has(toServer, m)) => Once(Append(toServer, x), m)
             /\ Len(Append(toServer, x)) = Len(toServer) + 1
             /\ Append(toServer, x) \in Seq(Told \cup Parts)
  BY <1>1, PutBehind
<1>3. x \notin Told
  BY PartsAndCommands
<1> QED
  BY <1>2, <1>3 DEF Fewer

(* Nor are the two parts of a whole frame.                                   *)
LEMMA FrameIsNoCommand ==
  ASSUME FramesInv, NEW x \in Parts, NEW y \in Parts, toServer' = toServer \o <<x, y>>
  PROVE  Fewer /\ Len(toServer') = Len(toServer) + 2
<1> DEFINE S == Told \cup Parts
           q == Append(toServer, x)
<1>1. toServer \in Seq(S) /\ x \in S /\ y \in S
  BY DEF FramesInv
<1> HIDE DEF S
<1>2. toServer' = Append(q, y)
  BY <1>1
<1>3. /\ \A m : Has(q, m) <=> Has(toServer, m) \/ m = x
      /\ \A m : Once(toServer, m) /\ (m = x => ~Has(toServer, m)) => Once(q, m)
      /\ Len(q) = Len(toServer) + 1 /\ q \in Seq(S)
  BY <1>1, PutBehind
<1>4. Len(toServer) \in Nat
  BY <1>1, LenProperties
<1> HIDE DEF q
<1>5. /\ \A m : Has(Append(q, y), m) <=> Has(q, m) \/ m = y
      /\ \A m : Once(q, m) /\ (m = y => ~Has(q, m)) => Once(Append(q, y), m)
      /\ Len(Append(q, y)) = Len(q) + 1
  BY <1>1, <1>3, PutBehind
<1>6. x \notin Told /\ y \notin Told
  BY PartsAndCommands
<1>7. Len(toServer') = Len(toServer) + 2
  BY <1>2, <1>3, <1>4, <1>5
<1> QED
  BY <1>2, <1>3, <1>5, <1>6, <1>7 DEF Fewer

-----------------------------------------------------------------------------
(* Each step of main, of the other threads and of the server *)

(* A template waits with its table.                                          *)
LEMMA SkipKeeps ==
  ASSUME SessionInv, SkipFirst, UNCHANGED tables
  PROVE  SessionInv'
<1> USE DEF SessionInv
<1>1. /\ pc = "start" /\ pc' = "connect"
      /\ UNCHANGED <<options, file, routes, ifs, ready, server, toRouter, toServer, tables>>
  BY DEF SkipFirst
<1>2. SessionTypes'
  BY <1>1 DEF SessionTypes, Places, BeforeOpen, Over
<1>3. Authenticated'
  BY <1>1 DEF Authenticated, Over, server
<1>4. OpenedOnce'
  BY <1>1 DEF OpenedOnce, BeforeOpen, Over
<1>5. PacketsLed'
  BY <1>1 DEF PacketsLed, Over, server
<1>6. TableLoaded'
  BY <1>1 DEF TableLoaded
<1>7. Bounded'
  BY <1>1 DEF Bounded
<1>8. EndsForAReason'
  BY <1>1 DEF EndsForAReason, GoodTable, Over, options, server
<1> QED
  BY <1>2, <1>3, <1>4, <1>5, <1>6, <1>7, <1>8

(* The table is loaded before the session.                                   *)
LEMMA LoadFirstKeeps ==
  ASSUME SessionInv, LoadRt("start", "connect"), UNCHANGED tables
  PROVE  SessionInv'
<1> USE DEF SessionInv
<1>1. /\ pc = "start" /\ UNCHANGED <<options, file, ifs, ready, server, toRouter, toServer, tables>>
      /\ \/ /\ pc' = "connect" /\ file.ok
            /\ routes' = IF file.routes = NoTable THEN routes ELSE file.routes
         \/ pc' = "ended" /\ ~file.ok /\ UNCHANGED routes
  BY DEF LoadRt, Loads, End
<1>2. SessionTypes'
  BY <1>1, FileTypes DEF SessionTypes, Places, BeforeOpen, Over
<1>3. Authenticated'
  BY <1>1 DEF Authenticated, Over, server
<1>4. OpenedOnce'
  BY <1>1 DEF OpenedOnce, BeforeOpen, Over
<1>5. PacketsLed'
  BY <1>1 DEF PacketsLed, Over, server
<1>6. TableLoaded'
  BY <1>1 DEF TableLoaded
<1>7. Bounded'
  BY <1>1 DEF Bounded
<1>8. EndsForAReason'
  BY <1>1 DEF EndsForAReason, GoodTable
<1> QED
  BY <1>2, <1>3, <1>4, <1>5, <1>6, <1>7, <1>8

(* The table is loaded again, and the program ends without one.              *)
LEMMA LoadSecondKeeps ==
  ASSUME SessionInv, LoadRt("load", "init"), UNCHANGED tables
  PROVE  SessionInv'
<1> USE DEF SessionInv
<1>1. /\ pc = "load" /\ UNCHANGED <<options, file, ifs, ready, server, toRouter, toServer, tables>>
      /\ \/ /\ pc' = "init" /\ file.ok
            /\ routes' = IF file.routes = NoTable THEN routes ELSE file.routes
         \/ pc' = "ended" /\ ~file.ok /\ UNCHANGED routes
  BY DEF LoadRt, Loads, End
<1>2. SessionTypes'
  BY <1>1, FileTypes DEF SessionTypes, Places, Over
<1>3. Authenticated'
  BY <1>1 DEF Authenticated, Over
<1>4. OpenedOnce'
  BY <1>1 DEF OpenedOnce, BeforeOpen, Over
<1>5. PacketsLed'
  BY <1>1 DEF PacketsLed, Over, server
<1>6. TableLoaded'
  BY <1>1 DEF TableLoaded, GoodTable
<1>7. Bounded'
  BY <1>1 DEF Bounded
<1>8. EndsForAReason'
  BY <1>1 DEF EndsForAReason, GoodTable
<1> QED
  BY <1>2, <1>3, <1>4, <1>5, <1>6, <1>7, <1>8

(* The server greets the router, or is not there.                            *)
LEMMA ConnectKeeps ==
  ASSUME SessionInv, Connect, UNCHANGED tables
  PROVE  SessionInv'
<1> USE DEF SessionInv
<1> DEFINE q == <<Request>>
<1>1. /\ pc = "connect"
      /\ \/ pc' = "auth" /\ accepted' = TRUE /\ toRouter' = q
         \/ pc' = "ended" /\ UNCHANGED <<accepted, toRouter>>
      /\ UNCHANGED <<options, file, routes, ifs, ready, known, refused, dismissed, closed, packets,
                     toServer, early, tables>>
      /\ toRouter = <<>> /\ ~accepted /\ toServer = <<>> /\ ~refused
  BY DEF Connect, End, Request, Authenticated
<1>a. /\ q \in Seq(Orders) /\ q # <<>> /\ Head(q) = Request
      /\ \A m, p : (Has(q, m) <=> m = Request) /\ Once(q, m)
                    /\ (p # Request => Led(q, p, m))
  <2>1. Request \in Orders
    BY OrderTypes
  <2> QED
    BY <2>1 DEF Has, Once, Led
<1> HIDE DEF q
<1>2. SessionTypes'
  <2>1. toRouter' \in Seq(Orders)
    BY <1>1, <1>a DEF SessionTypes
  <2>2. /\ pc' \in Places \ {"loop"} /\ ifs' = ifs /\ ready' = ready /\ routes' = routes /\ file' = file
        /\ tables' = tables /\ ~tables /\ ~ready
    BY <1>1 DEF SessionTypes, Places, BeforeOpen, Over
  <2> QED
    BY <2>1, <2>2 DEF SessionTypes
<1>3. Authenticated'
  BY <1>1, <1>a, NothingQueued, OrderTypes DEF Authenticated
<1>4. OpenedOnce'
  BY <1>1, <1>a, NothingQueued, OrderTypes DEF OpenedOnce, Over
<1>5. PacketsLed'
  BY <1>1, <1>a, NothingQueued, OrderTypes DEF PacketsLed
<1>6. TableLoaded'
  BY <1>1 DEF TableLoaded
<1>7. Bounded'
  BY <1>1 DEF Bounded
<1>8. EndsForAReason'
  BY <1>1 DEF EndsForAReason
<1> QED
  BY <1>2, <1>3, <1>4, <1>5, <1>6, <1>7, <1>8

(* The router answers the server's request, if it has a key.                 *)
LEMMA RequestKeeps ==
  ASSUME SessionInv, FramesInv, AuthRequest, UNCHANGED tables
  PROVE  SessionInv'
<1> USE DEF SessionInv
<1>1. /\ pc = "auth" /\ Read /\ Type = "AUTH_REQUEST"
      /\ \/ key /\ Tells(Reply) /\ pc' = "status"
         \/ ~key /\ pc' = "ended" /\ UNCHANGED toServer
      /\ UNCHANGED <<options, file, routes, ifs, ready, server, tables>>
      /\ toServer = <<>> /\ Len(toServer) = 0
  BY DEF AuthRequest, Tell, Tells, End, Reply, Authenticated
<1>a. /\ Head(toRouter) \in Orders /\ Type = Head(toRouter).type
      /\ toRouter' \in Seq(Orders) /\ Has(toRouter, Head(toRouter))
      /\ \A m : Has(toRouter', m) => Has(toRouter, m)
      /\ \A m : Once(toRouter, m) => Once(toRouter', m)
      /\ Once(toRouter, Head(toRouter)) => ~Has(toRouter', Head(toRouter))
      /\ \A m, p : Led(toRouter, p, m) => Head(toRouter) # p
      /\ \A m, p : Led(toRouter, p, m) /\ Head(toRouter) # m => Led(toRouter', p, m)
  BY <1>1, ReadTakes
<1>b. Tells(Reply) =>
        /\ \A m : Has(toServer', m) <=> Has(toServer, m) \/ m = Reply
        /\ \A m : Once(toServer, m) /\ (m = Reply => ~Has(toServer, m)) => Once(toServer', m)
        /\ Len(toServer') = Len(toServer) + 1 /\ Len(toServer) \in Nat
  BY TellPuts, ToldTypes
<1>2. SessionTypes'
  BY <1>1, <1>a DEF SessionTypes, Places, BeforeOpen, Over
<1>3. Authenticated'
  BY <1>1, <1>a, <1>b DEF Authenticated, Over, server
<1>4. OpenedOnce'
  BY <1>1, <1>a, ToldTypes, <1>b DEF OpenedOnce, BeforeOpen, Over
<1>5. PacketsLed'
  BY <1>1, <1>a, OrderTypes DEF PacketsLed, Over, server
<1>6. TableLoaded'
  BY <1>1 DEF TableLoaded
<1>7. Bounded'
  <2> DEFINE n == Len(toServer')
  <2>1. n \in 0 .. 1
    BY <1>1, <1>b
  <2>2. Room \in Nat /\ Room > 0
    BY ThreadAssumption
  <2> HIDE DEF n
  <2>3. n <= 1 /\ n <= Room + 2
    BY <2>1, <2>2
  <2> QED
    BY <2>3 DEF Bounded, n
<1>8. EndsForAReason'
  BY <1>1 DEF EndsForAReason, options
<1> QED
  BY <1>2, <1>3, <1>4, <1>5, <1>6, <1>7, <1>8

(* The server has authenticated the router, or refused to.                   *)
LEMMA StatusKeeps ==
  ASSUME SessionInv, AuthStatus, UNCHANGED tables
  PROVE  SessionInv'
<1> USE DEF SessionInv
<1>1. /\ pc = "status" /\ Read /\ Type = "AUTH_STATUS"
      /\ IF Head(toRouter).ok THEN pc' = "open" ELSE pc' = "ended"
      /\ UNCHANGED <<options, file, routes, ifs, ready, server, toServer, tables>>
  BY DEF AuthStatus, End
<1>a. /\ Head(toRouter) \in Orders /\ Type = Head(toRouter).type
      /\ toRouter' \in Seq(Orders) /\ Has(toRouter, Head(toRouter))
      /\ \A m : Has(toRouter', m) => Has(toRouter, m)
      /\ \A m : Once(toRouter, m) => Once(toRouter', m)
      /\ Once(toRouter, Head(toRouter)) => ~Has(toRouter', Head(toRouter))
      /\ \A m, p : Led(toRouter, p, m) => Head(toRouter) # p
      /\ \A m, p : Led(toRouter, p, m) /\ Head(toRouter) # m => Led(toRouter', p, m)
  BY <1>1, ReadTakes
<1>2. SessionTypes'
  BY <1>1, <1>a DEF SessionTypes, Places, BeforeOpen, Over
<1>3. Authenticated'
  BY <1>1, <1>a, OrderIs DEF Authenticated, Over
<1>4. OpenedOnce'
  BY <1>1, <1>a DEF OpenedOnce, BeforeOpen, Over
<1>5. PacketsLed'
  BY <1>1, <1>a, OrderTypes DEF PacketsLed, Over, server
<1>6. TableLoaded'
  BY <1>1 DEF TableLoaded
<1>7. Bounded'
  BY <1>1 DEF Bounded
<1>8. EndsForAReason'
  BY <1>1, <1>a, OrderIs DEF EndsForAReason, Authenticated, server
<1> QED
  BY <1>2, <1>3, <1>4, <1>5, <1>6, <1>7, <1>8

(* The session is opened once.                                               *)
LEMMA OpenKeeps ==
  ASSUME SessionInv, FramesInv, Open, UNCHANGED tables
  PROVE  SessionInv'
<1> USE DEF SessionInv
<1>1. /\ pc = "open" /\ UNCHANGED <<options, file, routes, ifs, ready, server, toRouter, tables>>
      /\ \/ Tells(Command("OPEN_TEMPLATE")) /\ pc' = "rtable"
         \/ Tells(Command("OPEN")) /\ pc' = "load"
  BY DEF Open, Tell, Tells
<1>a. \A x \in {Command("OPEN"), Command("OPEN_TEMPLATE")} : Tells(x) =>
        /\ \A m : Has(toServer', m) <=> Has(toServer, m) \/ m = x
        /\ \A m : Once(toServer, m) /\ (m = x => ~Has(toServer, m)) => Once(toServer', m)
        /\ Len(toServer') = Len(toServer) + 1 /\ Len(toServer) \in Nat
  BY TellPuts, ToldTypes
<1>2. SessionTypes'
  BY <1>1 DEF SessionTypes, Places, Over
<1>3. Authenticated'
  BY <1>1, <1>a, ToldTypes DEF Authenticated, Over
<1>4. OpenedOnce'
  <2> DEFINE a == Command("OPEN")
             b == Command("OPEN_TEMPLATE")
  <2>1. a # b
    BY ToldTypes
  <2>2. /\ ~Has(toServer, a) /\ ~Has(toServer, b) /\ ~Has(toRouter, HwInfo)
        /\ Once(toServer, a) /\ Once(toServer, b) /\ Once(toRouter, HwInfo) /\ ifs = <<>>
    BY <1>1 DEF OpenedOnce, BeforeOpen, Over
  <2>3. /\ Once(toServer', a) /\ Once(toServer', b) /\ ~(Has(toServer', a) /\ Has(toServer', b))
        /\ pc' = "rtable" => ~Has(toServer', a)
    <3>1. CASE Tells(b) /\ pc' = "rtable"
      BY <1>a, <2>1, <2>2, <3>1
    <3>2. CASE Tells(a) /\ pc' = "load"
      BY <1>a, <2>1, <2>2, <3>2
    <3> QED
      BY <1>1, <3>1, <3>2
  <2>4. pc' \in {"rtable", "load"} /\ toRouter' = toRouter /\ ifs' = ifs
    BY <1>1
  <2>5. Led(toRouter, HwInfo, Command("RTABLE"))
    BY <2>2 DEF Led, Has
  <2> QED
    BY <2>2, <2>3, <2>4, <2>5 DEF OpenedOnce, BeforeOpen
<1>5. PacketsLed'
  BY <1>1 DEF PacketsLed, Over, server
<1>6. TableLoaded'
  BY <1>1 DEF TableLoaded
<1>7. Bounded'
  BY <1>1, <1>a, ThreadAssumption DEF Bounded
<1>8. EndsForAReason'
  BY <1>1 DEF EndsForAReason
<1> QED
  BY <1>2, <1>3, <1>4, <1>5, <1>6, <1>7, <1>8

(* The routing table is written to a file, or that file cannot be opened.    *)
LEMMA RtableKeeps ==
  ASSUME SessionInv, Rtable, UNCHANGED tables
  PROVE  SessionInv'
<1> USE DEF SessionInv
<1>1. /\ pc = "rtable" /\ Read /\ Type = "RTABLE"
      /\ \/ writable /\ pc' = "load" /\ (file' = Sent \/ file' = file)
         \/ ~writable /\ pc' = "ended" /\ file' = file
      /\ UNCHANGED <<options, routes, ifs, ready, server, toServer, tables>>
  BY DEF Rtable, Sent, End
<1>a. /\ Head(toRouter) \in Orders /\ Type = Head(toRouter).type
      /\ toRouter' \in Seq(Orders) /\ Has(toRouter, Head(toRouter))
      /\ \A m : Has(toRouter', m) => Has(toRouter, m)
      /\ \A m : Once(toRouter, m) => Once(toRouter', m)
      /\ Once(toRouter, Head(toRouter)) => ~Has(toRouter', Head(toRouter))
      /\ \A m, p : Led(toRouter, p, m) => Head(toRouter) # p
      /\ \A m, p : Led(toRouter, p, m) /\ Head(toRouter) # m => Led(toRouter', p, m)
  BY <1>1, ReadTakes
<1>2. SessionTypes'
  BY <1>1, <1>a DEF SessionTypes, Places, Over
<1>3. Authenticated'
  BY <1>1, <1>a DEF Authenticated, Over
<1>4. OpenedOnce'
  BY <1>1, <1>a DEF OpenedOnce, BeforeOpen, Over
<1>5. PacketsLed'
  BY <1>1, <1>a, OrderTypes DEF PacketsLed, Over, server
<1>6. TableLoaded'
  BY <1>1 DEF TableLoaded
<1>7. Bounded'
  BY <1>1 DEF Bounded
<1>8. EndsForAReason'
  BY <1>1 DEF EndsForAReason, options
<1> QED
  BY <1>2, <1>3, <1>4, <1>5, <1>6, <1>7, <1>8

(* Another command than expected ends the program: a CLOSE, or a packet      *)
(* that came early.                                                          *)
LEMMA UnexpectedKeeps ==
  ASSUME SessionInv, Unexpected, UNCHANGED tables
  PROVE  SessionInv'
<1> USE DEF SessionInv
<1>1. /\ pc \in {"auth", "status", "rtable"} /\ Read /\ Type # Expected[pc] /\ pc' = "ended"
      /\ UNCHANGED <<options, file, routes, ifs, ready, server, toServer, tables>>
  BY DEF Unexpected, Expected, End
<1>a. /\ Head(toRouter) \in Orders /\ Type = Head(toRouter).type
      /\ toRouter' \in Seq(Orders) /\ Has(toRouter, Head(toRouter))
      /\ \A m : Has(toRouter', m) => Has(toRouter, m)
      /\ \A m : Once(toRouter, m) => Once(toRouter', m)
      /\ Once(toRouter, Head(toRouter)) => ~Has(toRouter', Head(toRouter))
      /\ \A m, p : Led(toRouter, p, m) => Head(toRouter) # p
      /\ \A m, p : Led(toRouter, p, m) /\ Head(toRouter) # m => Led(toRouter', p, m)
  BY <1>1, ReadTakes
<1>2. SessionTypes'
  BY <1>1, <1>a DEF SessionTypes, Places, Over
<1>3. Authenticated'
  BY <1>1, <1>a DEF Authenticated, Over, server
<1>4. OpenedOnce'
  BY <1>1, <1>a DEF OpenedOnce, BeforeOpen, Over
<1>5. PacketsLed'
  BY <1>1, <1>a DEF PacketsLed, Over, server
<1>6. TableLoaded'
  BY <1>1 DEF TableLoaded
<1>7. Bounded'
  BY <1>1 DEF Bounded
<1>8. EndsForAReason'
  <2>1. early \/ dismissed
    <3> SUFFICES ASSUME ~early, ~dismissed PROVE FALSE
      OBVIOUS
    <3> DEFINE m == Head(toRouter)
    <3>1. pc \notin Over /\ ~ready
      BY <1>1 DEF SessionTypes, Over
    <3>2. \A i \in Names : m # Packet(i)
      BY <1>a, <3>1 DEF PacketsLed
    <3>3. m # Command("CLOSE")
      BY <1>a DEF PacketsLed
    <3>4. CASE pc = "auth"
      <4>1. m = Request
        BY <3>4 DEF Authenticated
      <4> QED
        BY <1>1, <1>a, <3>4, <4>1, OrderTypes DEF Expected
    <3>5. CASE pc = "status"
      <4>1. m # Request
        BY <1>a, <3>5 DEF Authenticated, Over
      <4>2. m # HwInfo /\ m # Command("RTABLE")
        BY <1>a, <3>5 DEF OpenedOnce, BeforeOpen
      <4>3. m.type # "AUTH_STATUS"
        BY <1>1, <1>a, <3>5 DEF Expected
      <4> QED
        BY <1>a, <3>2, <3>3, <4>1, <4>2, <4>3, OrderIs
    <3>6. CASE pc = "rtable"
      <4>1. m # Request /\ \A ok \in BOOLEAN : m # Status(ok)
        BY <1>a, <3>6 DEF Authenticated, Over
      <4>2. m # HwInfo
        BY <1>a, <3>6 DEF OpenedOnce
      <4>3. m.type # "RTABLE"
        BY <1>1, <1>a, <3>6 DEF Expected
      <4> QED
        BY <1>a, <3>2, <3>3, <4>1, <4>2, <4>3, OrderIs
    <3> QED
      BY <1>1, <3>4, <3>5, <3>6
  <2> QED
    BY <1>1, <2>1 DEF EndsForAReason, server
<1> QED
  BY <1>2, <1>3, <1>4, <1>5, <1>6, <1>7, <1>8

(* The HWINFO makes the list of the interfaces, and the routes are checked   *)
(* against it.                                                               *)
LEMMA HwinfoKeeps ==
  ASSUME SessionInv, HandleHwinfo, UNCHANGED tables
  PROVE  SessionInv'
<1> USE DEF SessionInv
<1>1. /\ pc = "loop" /\ Read /\ Type = "HWINFO" /\ ifs' = Added(ifs, Head(toRouter).entries)
      /\ \/ Verified(ifs') /\ ready' = TRUE /\ pc' = "loop"
         \/ ~Verified(ifs') /\ pc' = "ended" /\ UNCHANGED ready
      /\ UNCHANGED <<options, file, routes, server, toServer, tables>>
  BY DEF HandleHwinfo, Added, End
<1>a. /\ Head(toRouter) \in Orders /\ Type = Head(toRouter).type
      /\ toRouter' \in Seq(Orders) /\ Has(toRouter, Head(toRouter))
      /\ \A m : Has(toRouter', m) => Has(toRouter, m)
      /\ \A m : Once(toRouter, m) => Once(toRouter', m)
      /\ Once(toRouter, Head(toRouter)) => ~Has(toRouter', Head(toRouter))
      /\ \A m, p : Led(toRouter, p, m) => Head(toRouter) # p
      /\ \A m, p : Led(toRouter, p, m) /\ Head(toRouter) # m => Led(toRouter', p, m)
  BY <1>1, ReadTakes
<1>b. /\ Head(toRouter) = HwInfo /\ ifs = <<>> /\ ~ready /\ ifs' = Hardware
      /\ ~Has(toRouter', HwInfo)
      /\ \A m \in {Command("OPEN"), Command("OPEN_TEMPLATE")} : ~Has(toServer, m)
  <2>1. Head(toRouter) = HwInfo
    BY <1>1, <1>a, OrderIs
  <2>2. ifs = <<>> /\ Once(toRouter, HwInfo)
    BY <1>a, <2>1 DEF OpenedOnce
  <2>3. ~ready
    BY <2>2, FileTypes DEF SessionTypes
  <2>4. \A m \in {Command("OPEN"), Command("OPEN_TEMPLATE")} : ~Has(toServer, m)
    BY <1>a, <2>1 DEF OpenedOnce
  <2> QED
    BY <1>1, <1>a, <2>1, <2>2, <2>3, <2>4, HwFold
<1>c. Verified(ifs') => \A k \in DOMAIN routes : routes[k] \in Names
  <2> SUFFICES ASSUME Verified(Hardware), NEW k \in DOMAIN routes PROVE routes[k] \in Names
    BY <1>b
  <2> QED
    BY FileTypes DEF Verified
<1>d. GoodTable => Verified(ifs')
  <2> SUFFICES ASSUME GoodTable PROVE Verified(Hardware)
    BY <1>b
  <2>1. routes \in Seq(Names) /\ routes # NoTable
    BY <1>1 DEF TableLoaded, GoodTable
  <2>2. \A k \in DOMAIN routes : routes[k] \in Names
    BY <2>1
  <2> QED
    BY <2>1, FileTypes DEF Verified
<1>2. SessionTypes'
  BY <1>1, <1>a, <1>b, <1>c DEF SessionTypes, Places, Over
<1>3. Authenticated'
  BY <1>1, <1>a DEF Authenticated, Over
<1>4. OpenedOnce'
  BY <1>1, <1>a, <1>b DEF OpenedOnce, BeforeOpen, Over
<1>5. PacketsLed'
  BY <1>1, <1>a, <1>b, <1>c, <1>d DEF PacketsLed, Over, options, server
<1>6. TableLoaded'
  BY <1>1 DEF TableLoaded, GoodTable
<1>7. Bounded'
  BY <1>1 DEF Bounded
<1>8. EndsForAReason'
  BY <1>1, <1>d DEF EndsForAReason, GoodTable
<1> QED
  BY <1>2, <1>3, <1>4, <1>5, <1>6, <1>7, <1>8

(* A CLOSE from the server ends the program.                                 *)
LEMMA CloseKeeps ==
  ASSUME SessionInv, HandleClose, UNCHANGED tables
  PROVE  SessionInv'
<1> USE DEF SessionInv
<1>1. /\ pc = "loop" /\ Read /\ Type = "CLOSE" /\ pc' = "ended"
      /\ UNCHANGED <<options, file, routes, ifs, ready, server, toServer, tables>>
  BY DEF HandleClose, End
<1>a. /\ Head(toRouter) \in Orders /\ Type = Head(toRouter).type
      /\ toRouter' \in Seq(Orders) /\ Has(toRouter, Head(toRouter))
      /\ \A m : Has(toRouter', m) => Has(toRouter, m)
      /\ \A m : Once(toRouter, m) => Once(toRouter', m)
      /\ Once(toRouter, Head(toRouter)) => ~Has(toRouter', Head(toRouter))
      /\ \A m, p : Led(toRouter, p, m) => Head(toRouter) # p
      /\ \A m, p : Led(toRouter, p, m) /\ Head(toRouter) # m => Led(toRouter', p, m)
  BY <1>1, ReadTakes
<1>2. SessionTypes'
  BY <1>1, <1>a DEF SessionTypes, Places, Over
<1>3. Authenticated'
  BY <1>1, <1>a DEF Authenticated, Over
<1>4. OpenedOnce'
  BY <1>1, <1>a DEF OpenedOnce, BeforeOpen, Over
<1>5. PacketsLed'
  BY <1>1, <1>a DEF PacketsLed, Over, server
<1>6. TableLoaded'
  BY <1>1 DEF TableLoaded
<1>7. Bounded'
  BY <1>1 DEF Bounded
<1>8. EndsForAReason'
  BY <1>1, <1>a, OrderIs DEF EndsForAReason, PacketsLed, server
<1> QED
  BY <1>2, <1>3, <1>4, <1>5, <1>6, <1>7, <1>8

(* A packet for an interface that is not there came early.                   *)
LEMMA LostKeeps ==
  ASSUME SessionInv, PacketLost, UNCHANGED tables
  PROVE  SessionInv'
<1> USE DEF SessionInv
<1>1. /\ pc = "loop" /\ Read /\ Type = "PACKET" /\ Lacks(Head(toRouter).iface) /\ pc' = "crashed"
      /\ UNCHANGED <<options, file, routes, ifs, ready, server, toServer, tables>>
  BY DEF PacketLost, End
<1>a. /\ Head(toRouter) \in Orders /\ Type = Head(toRouter).type
      /\ toRouter' \in Seq(Orders) /\ Has(toRouter, Head(toRouter))
      /\ \A m : Has(toRouter', m) => Has(toRouter, m)
      /\ \A m : Once(toRouter, m) => Once(toRouter', m)
      /\ Once(toRouter, Head(toRouter)) => ~Has(toRouter', Head(toRouter))
      /\ \A m, p : Led(toRouter, p, m) => Head(toRouter) # p
      /\ \A m, p : Led(toRouter, p, m) /\ Head(toRouter) # m => Led(toRouter', p, m)
  BY <1>1, ReadTakes
<1>b. early
  <2> DEFINE i == Head(toRouter).iface
  <2>1. i \in Names /\ Head(toRouter) = Packet(i)
    BY <1>1, <1>a, OrderIs
  <2>2. ~ready
    <3> SUFFICES ASSUME ready PROVE FALSE
      OBVIOUS
    <3>1. ifs = Hardware
      BY DEF SessionTypes
    <3> QED
      BY <1>1, <2>1, <3>1, FileTypes DEF Lacks
  <2> QED
    BY <1>1, <1>a, <2>1, <2>2 DEF PacketsLed, Over
<1>2. SessionTypes'
  BY <1>1, <1>a DEF SessionTypes, Places, Over
<1>3. Authenticated'
  BY <1>1, <1>a DEF Authenticated, Over
<1>4. OpenedOnce'
  BY <1>1, <1>a, OrderTypes, OrderIs, ToldTypes, <1>b
     DEF OpenedOnce, BeforeOpen, Over, options, server
<1>5. PacketsLed'
  <2>1. Has(toRouter', Command("CLOSE")) => dismissed'
    BY <1>1, <1>a DEF PacketsLed, server
  <2> QED
    BY <1>1, <2>1 DEF PacketsLed, Over
<1>6. TableLoaded'
  BY <1>1 DEF TableLoaded
<1>7. Bounded'
  BY <1>1 DEF Bounded
<1>8. EndsForAReason'
  BY <1>1, <1>b DEF EndsForAReason, server
<1> QED
  BY <1>2, <1>3, <1>4, <1>5, <1>6, <1>7, <1>8

(* Any other packet is handled.                                              *)
LEMMA PacketKeeps ==
  ASSUME SessionInv, PacketRead, UNCHANGED tables
  PROVE  SessionInv'
<1> USE DEF SessionInv
<1>1. /\ pc = "loop" /\ Read /\ Type = "PACKET" /\ pc' = pc
      /\ UNCHANGED <<options, file, routes, ifs, ready, server, toServer, tables>>
  BY DEF PacketRead
<1>a. /\ Head(toRouter) \in Orders /\ Type = Head(toRouter).type
      /\ toRouter' \in Seq(Orders) /\ Has(toRouter, Head(toRouter))
      /\ \A m : Has(toRouter', m) => Has(toRouter, m)
      /\ \A m : Once(toRouter, m) => Once(toRouter', m)
      /\ Once(toRouter, Head(toRouter)) => ~Has(toRouter', Head(toRouter))
      /\ \A m, p : Led(toRouter, p, m) => Head(toRouter) # p
      /\ \A m, p : Led(toRouter, p, m) /\ Head(toRouter) # m => Led(toRouter', p, m)
  BY <1>1, ReadTakes
<1>2. SessionTypes'
  BY <1>1, <1>a DEF SessionTypes
<1>3. Authenticated'
  BY <1>1, <1>a DEF Authenticated, server
<1>4. OpenedOnce'
  BY <1>1, <1>a DEF OpenedOnce
<1>5. PacketsLed'
  BY <1>1, <1>a, OrderIs DEF PacketsLed, server
<1>6. TableLoaded'
  BY <1>1 DEF TableLoaded, GoodTable
<1>7. Bounded'
  BY <1>1 DEF Bounded
<1>8. EndsForAReason'
  BY <1>1 DEF EndsForAReason
<1> QED
  BY <1>2, <1>3, <1>4, <1>5, <1>6, <1>7, <1>8

(* Or the program ends with a fault.                                         *)
LEMMA PacketFaultsKeeps ==
  ASSUME SessionInv, PacketFaults
  PROVE  SessionInv'
<1> USE DEF SessionInv
<1>1. /\ pc = "loop" /\ Read /\ Type = "PACKET" /\ pc' = "faulted"
      /\ UNCHANGED <<options, file, routes, ifs, ready, server, toServer, tables>>
  BY DEF PacketFaults, End, threads
<1>a. /\ toRouter' \in Seq(Orders)
      /\ \A m : Has(toRouter', m) => Has(toRouter, m)
      /\ \A m : Once(toRouter, m) => Once(toRouter', m)
  BY <1>1, ReadTakes
<1>2. SessionTypes'
  BY <1>1, <1>a DEF SessionTypes, Places, Over
<1>3. Authenticated'
  BY <1>1, <1>a DEF Authenticated, Over, server
<1>4. OpenedOnce'
  BY <1>1, <1>a DEF OpenedOnce, BeforeOpen, Over
<1>5. PacketsLed'
  BY <1>1, <1>a DEF PacketsLed, Over, server
<1>6. TableLoaded'
  BY <1>1 DEF TableLoaded
<1>7. Bounded'
  BY <1>1 DEF Bounded
<1>8. EndsForAReason'
  BY <1>1 DEF EndsForAReason
<1> QED
  BY <1>2, <1>3, <1>4, <1>5, <1>6, <1>7, <1>8

(* The threads and the tables of sr_init.                                    *)
LEMMA InitKeeps ==
  ASSUME SessionInv, SrInit
  PROVE  SessionInv'
<1> USE DEF SessionInv
<1>1. /\ pc = "init" /\ pc' \in {"init", "loop"}
      /\ UNCHANGED <<options, file, routes, ifs, ready, server, toRouter, toServer>>
  BY DEF SrInit
<1>2. SessionTypes'
  BY <1>1 DEF SessionTypes, Places
<1>3. Authenticated'
  BY <1>1 DEF Authenticated, Over
<1>4. OpenedOnce'
  BY <1>1 DEF OpenedOnce, BeforeOpen
<1>5. PacketsLed'
  BY <1>1 DEF PacketsLed, Over, server
<1>6. TableLoaded'
  BY <1>1 DEF TableLoaded, GoodTable
<1>7. Bounded'
  BY <1>1 DEF Bounded
<1>8. EndsForAReason'
  BY <1>1 DEF EndsForAReason
<1> QED
  BY <1>2, <1>3, <1>4, <1>5, <1>6, <1>7, <1>8

(* Nothing changes for the session while a thread takes or gives back a      *)
(* lock.                                                                     *)
LEMMA RestKeeps ==
  ASSUME SessionInv, UNCHANGED <<session, tables>>
  PROVE  SessionInv'
<1> USE DEF SessionInv
<1>1. UNCHANGED <<options, file, pc, routes, ifs, ready, server, toRouter, toServer, tables>>
  BY DEF session
<1>2. SessionTypes'
  BY <1>1 DEF SessionTypes
<1>3. Authenticated'
  BY <1>1 DEF Authenticated, server
<1>4. OpenedOnce'
  BY <1>1 DEF OpenedOnce
<1>5. PacketsLed'
  BY <1>1 DEF PacketsLed, server
<1>6. TableLoaded'
  BY <1>1 DEF TableLoaded, GoodTable
<1>7. Bounded'
  BY <1>1 DEF Bounded
<1>8. EndsForAReason'
  BY <1>1 DEF EndsForAReason, GoodTable, options, server
<1> QED
  BY <1>2, <1>3, <1>4, <1>5, <1>6, <1>7, <1>8

(* A write to a server that has gone.                                        *)
LEMMA FailKeeps ==
  ASSUME SessionInv, NEW t \in Threads, SendFails(t)
  PROVE  SessionInv'
<1> USE DEF SessionInv
<1>1. /\ closed /\ pc' = "ended" /\ pc \notin Over
      /\ UNCHANGED <<options, file, routes, ifs, ready, server, toRouter, toServer, tables>>
  BY DEF SendFails, End, Doing, threads
<1>2. SessionTypes'
  BY <1>1 DEF SessionTypes, Places, Over
<1>3. Authenticated'
  BY <1>1 DEF Authenticated, Over, server
<1>4. OpenedOnce'
  BY <1>1 DEF OpenedOnce, BeforeOpen, Over
<1>5. PacketsLed'
  BY <1>1 DEF PacketsLed, server
<1>6. TableLoaded'
  BY <1>1 DEF TableLoaded
<1>7. Bounded'
  BY <1>1 DEF Bounded
<1>8. EndsForAReason'
  BY <1>1 DEF EndsForAReason, server
<1> QED
  BY <1>2, <1>3, <1>4, <1>5, <1>6, <1>7, <1>8

(* A round ends the program with a fault.                                    *)
LEMMA RoundFaultsKeeps ==
  ASSUME SessionInv, NEW t \in Threads, RoundFaults(t)
  PROVE  SessionInv'
<1> USE DEF SessionInv
<1>1. /\ pc' = "faulted" /\ pc \notin Over
      /\ UNCHANGED <<options, file, routes, ifs, ready, server, toRouter, toServer, tables>>
  BY DEF RoundFaults, End, threads
<1>2. SessionTypes'
  BY <1>1 DEF SessionTypes, Places, Over
<1>3. Authenticated'
  BY <1>1 DEF Authenticated, Over, server
<1>4. OpenedOnce'
  BY <1>1 DEF OpenedOnce, BeforeOpen, Over
<1>5. PacketsLed'
  BY <1>1 DEF PacketsLed, server, Over
<1>6. TableLoaded'
  BY <1>1 DEF TableLoaded
<1>7. Bounded'
  BY <1>1 DEF Bounded
<1>8. EndsForAReason'
  BY <1>1 DEF EndsForAReason
<1> QED
  BY <1>2, <1>3, <1>4, <1>5, <1>6, <1>7, <1>8

(* A thread writes a frame or a part of it; main has come to sr_init         *)
(* before.                                                                   *)
LEMMA FrameKeeps ==
  ASSUME SessionInv, FramesInv, BootInv, NEW t \in Threads, SendPacket(t)
  PROVE  SessionInv'
<1> USE DEF SessionInv
<1>1. /\ Doing(t, "write")
      /\ \/ /\ Fits(2) /\ \E x, y \in Parts : toServer' = toServer \o <<x, y>>
         \/ /\ Fits(1) /\ \E x \in Parts : toServer' = Append(toServer, x)
      /\ UNCHANGED <<options, file, pc, routes, ifs, ready, server, toRouter, tables>>
  <2>1. Part(t, 1) \in Parts /\ Part(t, 2) \in Parts
    BY DEF Parts
  <2> QED
    BY <2>1 DEF SendPacket, WriteFrame, WriteRest
<1>c. pc \in {"init", "loop"}
  <2>1. pc \notin Over /\ Booted
    BY <1>1 DEF Doing, BootInv
  <2> QED
    BY <2>1 DEF Booted
<1>b. Fewer /\ Len(toServer') <= Room
  <2>1. Len(toServer) \in Nat /\ Room \in Nat
    BY ThreadAssumption
  <2>2. CASE Fits(1) /\ \E x \in Parts : toServer' = Append(toServer, x)
    BY <2>2, PartIsNoCommand DEF Fits
  <2>3. CASE Fits(2) /\ \E x, y \in Parts : toServer' = toServer \o <<x, y>>
    <3>1. Fewer /\ Len(toServer') = Len(toServer) + 2
      BY <2>3, FrameIsNoCommand
    <3>2. Len(toServer) + 2 <= Room
      BY <2>3 DEF Fits
    <3> QED
      BY <3>1, <3>2
  <2> QED
    BY <1>1, <2>2, <2>3
<1>2. SessionTypes'
  BY <1>1 DEF SessionTypes
<1>3. Authenticated'
  BY <1>1, <1>c, ToldTypes, <1>b DEF Authenticated, Fewer, server
<1>4. OpenedOnce'
  BY <1>1, ToldTypes, <1>b DEF OpenedOnce, Fewer
<1>5. PacketsLed'
  BY <1>1 DEF PacketsLed, server
<1>6. TableLoaded'
  BY <1>1 DEF TableLoaded, GoodTable
<1>7. Bounded'
  BY <1>1, <1>c, <1>b, ThreadAssumption DEF Bounded
<1>8. EndsForAReason'
  BY <1>1, <1>c DEF EndsForAReason
<1> QED
  BY <1>2, <1>3, <1>4, <1>5, <1>6, <1>7, <1>8

(* The server reads a frame, and stops when it cannot make sense of it.      *)
LEMMA ReadFrameKeeps ==
  ASSUME SessionInv, FramesInv, ServerReadFrame
  PROVE  SessionInv'
<1> USE DEF SessionInv
<1>1. /\ ~closed /\ toServer # <<>> /\ toServer' = Tail(toServer)
      /\ UNCHANGED <<options, file, pc, routes, ifs, ready, known, accepted, refused, dismissed,
                     packets, toRouter, early, tables>>
  BY DEF ServerReadFrame, threads
<1>b. Fewer /\ Len(toServer') = Len(toServer) - 1 /\ Len(toServer) \in Nat
  BY <1>1, ServerTakes
<1>2. SessionTypes'
  BY <1>1 DEF SessionTypes
<1>3. Authenticated'
  BY <1>1, ToldTypes, <1>b DEF Authenticated, Fewer
<1>4. OpenedOnce'
  BY <1>1, ToldTypes, <1>b DEF OpenedOnce, Fewer
<1>5. PacketsLed'
  BY <1>1 DEF PacketsLed
<1>6. TableLoaded'
  BY <1>1 DEF TableLoaded, GoodTable
<1>7. Bounded'
  BY <1>1, ThreadAssumption DEF Bounded
<1>8. EndsForAReason'
  BY <1>1 DEF EndsForAReason, GoodTable, options
<1> QED
  BY <1>2, <1>3, <1>4, <1>5, <1>6, <1>7, <1>8

(* The server comes to know the interfaces, or stops.                        *)
LEMMA InfoKeeps ==
  ASSUME SessionInv, RouterInfo \/ Stop, UNCHANGED tables
  PROVE  SessionInv'
<1> USE DEF SessionInv
<1>1. /\ UNCHANGED <<options, file, pc, routes, ifs, ready, accepted, refused, dismissed,
                     toRouter, toServer, early, tables>>
      /\ closed => closed'
  BY DEF RouterInfo, Stop, router
<1>2. SessionTypes'
  BY <1>1 DEF SessionTypes
<1>3. Authenticated'
  BY <1>1 DEF Authenticated
<1>4. OpenedOnce'
  BY <1>1 DEF OpenedOnce
<1>5. PacketsLed'
  BY <1>1 DEF PacketsLed
<1>6. TableLoaded'
  BY <1>1 DEF TableLoaded, GoodTable
<1>7. Bounded'
  BY <1>1 DEF Bounded
<1>8. EndsForAReason'
  BY <1>1 DEF EndsForAReason, GoodTable, options
<1> QED
  BY <1>2, <1>3, <1>4, <1>5, <1>6, <1>7, <1>8

(* The server sends a CLOSE.                                                 *)
LEMMA SayCloseKeeps ==
  ASSUME SessionInv, SayClose, UNCHANGED tables
  PROVE  SessionInv'
<1> USE DEF SessionInv
<1> DEFINE x == Command("CLOSE")
<1>1. /\ accepted /\ dismissed' = TRUE /\ toRouter' = toRouter \o <<x>>
      /\ UNCHANGED <<options, file, pc, routes, ifs, ready, accepted, refused, closed, toServer,
                     early, tables>>
  BY DEF SayClose, Send, router
<1>a. /\ x \in Orders /\ x # Request /\ x # HwInfo /\ x # Command("RTABLE")
      /\ \A ok \in BOOLEAN : x # Status(ok)
      /\ \A i \in Names : x # Packet(i)
  BY OrderTypes
<1> HIDE DEF x
<1>b. /\ toRouter' \in Seq(Orders) /\ toRouter' # <<>>
      /\ \A m : Has(toRouter', m) <=> Has(toRouter, m) \/ m = x
      /\ \A m : Once(toRouter, m) /\ (m = x => ~Has(toRouter, m)) => Once(toRouter', m)
      /\ \A m, p : Led(toRouter, p, m) /\ (p = x => Has(toRouter, m)) => Led(toRouter', p, m)
      /\ toRouter # <<>> => Head(toRouter') = Head(toRouter)
  BY <1>1, <1>a, SendPuts DEF SessionTypes
<1>2. SessionTypes'
  BY <1>1, <1>b DEF SessionTypes
<1>3. Authenticated'
  BY <1>1, <1>a, <1>b DEF Authenticated
<1>4. OpenedOnce'
  BY <1>1, <1>a, <1>b DEF OpenedOnce
<1>5. PacketsLed'
  BY <1>1, <1>a, <1>b DEF PacketsLed
<1>6. TableLoaded'
  BY <1>1 DEF TableLoaded, GoodTable
<1>7. Bounded'
  BY <1>1 DEF Bounded
<1>8. EndsForAReason'
  BY <1>1 DEF EndsForAReason
<1> QED
  BY <1>2, <1>3, <1>4, <1>5, <1>6, <1>7, <1>8

(* The server broadcasts a packet, perhaps before it has told the            *)
(* interfaces.                                                               *)
LEMMA BroadcastKeeps ==
  ASSUME SessionInv, Broadcast, UNCHANGED tables
  PROVE  SessionInv'
<1> USE DEF SessionInv
<1>1. /\ accepted /\ early' = (early \/ ~HwInfoSent)
      /\ \E i \in Names : toRouter' = toRouter \o <<Packet(i)>>
      /\ UNCHANGED <<options, file, pc, routes, ifs, ready, accepted, refused, dismissed, closed,
                     toServer, tables>>
  BY DEF Broadcast, Send, router
<1>p. PICK x : /\ toRouter' = toRouter \o <<x>>
               /\ \E i \in Names : x = Packet(i)
  BY <1>1
<1>a. /\ x \in Orders /\ x # Request /\ x # HwInfo /\ x # Command("RTABLE")
      /\ x # Command("CLOSE") /\ \A ok \in BOOLEAN : x # Status(ok)
  BY <1>p, OrderTypes
<1>b. /\ toRouter' \in Seq(Orders) /\ toRouter' # <<>>
      /\ \A m : Has(toRouter', m) <=> Has(toRouter, m) \/ m = x
      /\ \A m : Once(toRouter, m) /\ (m = x => ~Has(toRouter, m)) => Once(toRouter', m)
      /\ \A m, p : Led(toRouter, p, m) /\ (p = x => Has(toRouter, m)) => Led(toRouter', p, m)
      /\ toRouter # <<>> => Head(toRouter') = Head(toRouter)
  BY <1>p, <1>a, SendPuts DEF SessionTypes
<1>c. ~early' /\ ~ready => Has(toRouter, HwInfo)
  <2> SUFFICES ASSUME ~early', ~ready PROVE Has(toRouter, HwInfo)
    OBVIOUS
  <2>1. PICK k \in DOMAIN toRouter : toRouter[k].type = "HWINFO"
    BY <1>1 DEF HwInfoSent
  <2>2. toRouter[k] \in Orders
    BY DEF SessionTypes
  <2> QED
    BY <2>1, <2>2, OrderIs DEF Has
<1>2. SessionTypes'
  BY <1>1, <1>b DEF SessionTypes
<1>3. Authenticated'
  BY <1>1, <1>a, <1>b DEF Authenticated
<1>4. OpenedOnce'
  BY <1>1, <1>a, <1>b DEF OpenedOnce
<1>5. PacketsLed'
  BY <1>1, <1>a, <1>b, <1>c DEF PacketsLed
<1>6. TableLoaded'
  BY <1>1 DEF TableLoaded, GoodTable
<1>7. Bounded'
  BY <1>1 DEF Bounded
<1>8. EndsForAReason'
  BY <1>1 DEF EndsForAReason, GoodTable, options
<1> QED
  BY <1>2, <1>3, <1>4, <1>5, <1>6, <1>7, <1>8

(* The server has read the command m.                                        *)
Answers(m) ==
  /\ ~closed /\ toServer # <<>> /\ Head(toServer) = m /\ toServer' = Tail(toServer)
  /\ UNCHANGED <<router, known, accepted, dismissed, closed, packets, early, tables>>

(* The server authenticates the router or refuses to.                        *)
LEMMA StatusSent ==
  ASSUME SessionInv, FramesInv, NEW ok \in BOOLEAN, Answers(Reply),
         toRouter' = toRouter \o <<Status(ok)>>, refused' = ~ok
  PROVE  SessionInv'
<1> USE DEF SessionInv
<1> DEFINE x == Status(ok)
<1>1. /\ ~closed /\ toServer # <<>> /\ toServer' = Tail(toServer)
      /\ UNCHANGED <<options, file, pc, routes, ifs, ready, known, accepted, dismissed, closed,
                     packets, early, tables>>
  BY DEF Answers, router
<1>b. /\ Fewer /\ Len(toServer') = Len(toServer) - 1 /\ Len(toServer) \in Nat
      /\ Has(toServer, Reply) /\ (Once(toServer, Reply) => ~Has(toServer', Reply))
  BY <1>1, ServerTakes DEF Answers
<1>a. /\ toRouter' = toRouter \o <<x>> /\ refused' = ~ok
      /\ x \in Orders /\ x # Request /\ x # HwInfo /\ x # Command("RTABLE") /\ x # Command("CLOSE")
      /\ \A b \in BOOLEAN : x = Status(b) => (b <=> ok)
      /\ \A i \in Names : x # Packet(i)
  BY OrderTypes
<1> HIDE DEF x
<1>c. /\ toRouter' \in Seq(Orders) /\ toRouter' # <<>>
      /\ \A m : Has(toRouter', m) <=> Has(toRouter, m) \/ m = x
      /\ \A m : Once(toRouter, m) /\ (m = x => ~Has(toRouter, m)) => Once(toRouter', m)
      /\ \A m, p : Led(toRouter, p, m) /\ (p = x => Has(toRouter, m)) => Led(toRouter', p, m)
      /\ toRouter # <<>> => Head(toRouter') = Head(toRouter)
  BY <1>a, SendPuts DEF SessionTypes
<1>d. /\ ~Has(toServer', Reply) /\ pc \in {"status"} \cup Over
      /\ ~refused /\ \A b \in BOOLEAN : ~Has(toRouter, Status(b))
  BY <1>1, <1>b DEF Authenticated
<1>2. SessionTypes'
  BY <1>1, <1>c DEF SessionTypes
<1>3. Authenticated'
  BY <1>1, <1>a, <1>b, <1>c, ToldTypes DEF Authenticated, Fewer
<1>4. OpenedOnce'
  BY <1>1, <1>a, <1>b, <1>c, ToldTypes DEF OpenedOnce, Fewer
<1>5. PacketsLed'
  BY <1>1, <1>a, <1>c DEF PacketsLed
<1>6. TableLoaded'
  BY <1>1 DEF TableLoaded, GoodTable
<1>7. Bounded'
  BY <1>1, ThreadAssumption DEF Bounded
<1>8. EndsForAReason'
  BY <1>1, <1>d DEF EndsForAReason, GoodTable, options
<1> QED
  BY <1>2, <1>3, <1>4, <1>5, <1>6, <1>7, <1>8

(* The server tells the interfaces once, if it knows them.                   *)
LEMMA OpenAnswered ==
  ASSUME SessionInv, FramesInv, Answers(Command("OPEN")), toRouter' = toRouter \o <<HwInfo>>,
         UNCHANGED refused
  PROVE  SessionInv'
<1> USE DEF SessionInv
<1> DEFINE x == HwInfo
<1>1. /\ ~closed /\ toServer # <<>> /\ toServer' = Tail(toServer)
      /\ UNCHANGED <<options, file, pc, routes, ifs, ready, known, accepted, dismissed, closed,
                     packets, early, tables>>
  BY DEF Answers, router
<1>b. /\ Fewer /\ Len(toServer') = Len(toServer) - 1 /\ Len(toServer) \in Nat
      /\ Has(toServer, Command("OPEN"))
      /\ Once(toServer, Command("OPEN")) => ~Has(toServer', Command("OPEN"))
  BY <1>1, ServerTakes DEF Answers
<1>a. /\ toRouter' = toRouter \o <<x>> /\ refused' = refused
      /\ x \in Orders /\ x # Request /\ x = HwInfo /\ x # Command("RTABLE") /\ x # Command("CLOSE")
      /\ \A b \in BOOLEAN : x # Status(b)
      /\ \A i \in Names : x # Packet(i)
  BY OrderTypes
<1> HIDE DEF x
<1>c. /\ toRouter' \in Seq(Orders) /\ toRouter' # <<>>
      /\ \A m : Has(toRouter', m) <=> Has(toRouter, m) \/ m = x
      /\ \A m : Once(toRouter, m) /\ (m = x => ~Has(toRouter, m)) => Once(toRouter', m)
      /\ \A m, p : Led(toRouter, p, m) /\ (p = x => Has(toRouter, m)) => Led(toRouter', p, m)
      /\ toRouter # <<>> => Head(toRouter') = Head(toRouter)
  BY <1>a, SendPuts DEF SessionTypes
<1>d. /\ pc \notin BeforeOpen /\ ifs = <<>> /\ ~Has(toRouter, HwInfo)
      /\ \A m \in {Command("OPEN"), Command("OPEN_TEMPLATE")} : ~Has(toServer', m)
      /\ pc # "rtable"
  <2> DEFINE a == Command("OPEN")
             b == Command("OPEN_TEMPLATE")
  <2>1. /\ Once(toServer, a) /\ ~(Has(toServer, a) /\ Has(toServer, b))
        /\ pc \notin BeforeOpen /\ ifs = <<>> /\ ~Has(toRouter, HwInfo)
        /\ pc # "rtable"
    BY <1>b DEF OpenedOnce
  <2>2. ~Has(toServer', a) /\ ~Has(toServer', b)
    BY <1>b, <2>1, ToldTypes DEF Fewer
  <2> QED
    BY <2>1, <2>2
<1>2. SessionTypes'
  BY <1>1, <1>c DEF SessionTypes
<1>3. Authenticated'
  BY <1>1, <1>a, <1>b, <1>c, ToldTypes DEF Authenticated, Fewer
<1>4. OpenedOnce'
  BY <1>1, <1>b, <1>c, ToldTypes DEF OpenedOnce, Fewer
<1>5. PacketsLed'
  BY <1>1, <1>a, <1>c DEF PacketsLed
<1>6. TableLoaded'
  BY <1>1 DEF TableLoaded, GoodTable
<1>7. Bounded'
  BY <1>1, ThreadAssumption DEF Bounded
<1>8. EndsForAReason'
  BY <1>1 DEF EndsForAReason, GoodTable, options
<1> QED
  BY <1>2, <1>3, <1>4, <1>5, <1>6, <1>7, <1>8

(* Otherwise it does not answer.                                             *)
LEMMA OpenIgnored ==
  ASSUME SessionInv, FramesInv, Answers(Command("OPEN")), UNCHANGED <<toRouter, refused>>
  PROVE  SessionInv'
<1> USE DEF SessionInv
<1>1. /\ ~closed /\ toServer # <<>> /\ toServer' = Tail(toServer)
      /\ UNCHANGED <<options, file, pc, routes, ifs, ready, known, accepted, dismissed, closed,
                     packets, early, tables>>
  BY DEF Answers, router
<1>b. /\ Fewer /\ Len(toServer') = Len(toServer) - 1 /\ Len(toServer) \in Nat
      /\ Has(toServer, Command("OPEN"))
      /\ Once(toServer, Command("OPEN")) => ~Has(toServer', Command("OPEN"))
  BY <1>1, ServerTakes DEF Answers
<1>d. /\ pc \notin BeforeOpen /\ ifs = <<>> /\ ~Has(toRouter, HwInfo)
      /\ \A m \in {Command("OPEN"), Command("OPEN_TEMPLATE")} : ~Has(toServer', m)
      /\ pc # "rtable"
  <2> DEFINE a == Command("OPEN")
             b == Command("OPEN_TEMPLATE")
  <2>1. /\ Once(toServer, a) /\ ~(Has(toServer, a) /\ Has(toServer, b))
        /\ pc \notin BeforeOpen /\ ifs = <<>> /\ ~Has(toRouter, HwInfo)
        /\ pc # "rtable"
    BY <1>b DEF OpenedOnce
  <2>2. ~Has(toServer', a) /\ ~Has(toServer', b)
    BY <1>b, <2>1, ToldTypes DEF Fewer
  <2> QED
    BY <2>1, <2>2
<1>2. SessionTypes'
  BY <1>1 DEF SessionTypes
<1>3. Authenticated'
  BY <1>1, <1>b, ToldTypes DEF Authenticated, Fewer
<1>4. OpenedOnce'
  BY <1>1, <1>b, ToldTypes DEF OpenedOnce, Fewer
<1>5. PacketsLed'
  BY <1>1 DEF PacketsLed
<1>6. TableLoaded'
  BY <1>1 DEF TableLoaded, GoodTable
<1>7. Bounded'
  BY <1>1, ThreadAssumption DEF Bounded
<1>8. EndsForAReason'
  BY <1>1 DEF EndsForAReason, GoodTable, options
<1> QED
  BY <1>2, <1>3, <1>4, <1>5, <1>6, <1>7, <1>8

(* For a template the server sends the routing table first.                  *)
LEMMA TemplateAnswered ==
  ASSUME SessionInv, FramesInv, Answers(Command("OPEN_TEMPLATE")),
         toRouter' = toRouter \o <<Command("RTABLE"), HwInfo>>, UNCHANGED refused
  PROVE  SessionInv'
<1> USE DEF SessionInv
<1> DEFINE x == Command("RTABLE")
           q == Append(toRouter, x)
<1>1. /\ ~closed /\ toServer # <<>> /\ toServer' = Tail(toServer)
      /\ UNCHANGED <<options, file, pc, routes, ifs, ready, known, accepted, dismissed, closed,
                     packets, early, tables>>
  BY DEF Answers, router
<1>b. /\ Fewer /\ Len(toServer') = Len(toServer) - 1 /\ Len(toServer) \in Nat
      /\ Has(toServer, Command("OPEN_TEMPLATE"))
      /\ Once(toServer, Command("OPEN_TEMPLATE")) => ~Has(toServer', Command("OPEN_TEMPLATE"))
  BY <1>1, ServerTakes DEF Answers
<1>a. /\ toRouter' = Append(q, HwInfo) /\ refused' = refused
      /\ x \in Orders /\ x # Request /\ x # HwInfo /\ x = Command("RTABLE") /\ x # Command("CLOSE")
      /\ HwInfo \in Orders /\ HwInfo # Request /\ HwInfo # Command("CLOSE")
      /\ \A b \in BOOLEAN : x # Status(b) /\ HwInfo # Status(b)
      /\ \A i \in Names : x # Packet(i) /\ HwInfo # Packet(i)
  BY OrderTypes DEF SessionTypes
<1>e. \A m : /\ Has(q, m) <=> Has(toRouter, m) \/ m = x
             /\ Once(toRouter, m) /\ (m = x => ~Has(toRouter, m)) => Once(q, m)
             /\ \A p : Led(toRouter, p, m) /\ (p = x => Has(toRouter, m)) => Led(q, p, m)
             /\ q \in Seq(Orders)
  <2>1. toRouter \in Seq(Orders) /\ x \in Orders
    BY <1>a DEF SessionTypes
  <2> HIDE DEF x
  <2> QED
    BY <2>1, PutBehind
<1> HIDE DEF q, x
<1>f. \A m : /\ Has(toRouter', m) <=> Has(q, m) \/ m = HwInfo
             /\ Once(q, m) /\ (m = HwInfo => ~Has(q, m)) => Once(toRouter', m)
             /\ \A p : Led(q, p, m) /\ (p = HwInfo => Has(q, m)) => Led(toRouter', p, m)
             /\ toRouter' \in Seq(Orders)
  <2>1. q \in Seq(Orders) /\ HwInfo \in Orders /\ toRouter' = Append(q, HwInfo)
    BY <1>a, <1>e
  <2>2. \A m : /\ Has(Append(q, HwInfo), m) <=> Has(q, m) \/ m = HwInfo
               /\ Once(q, m) /\ (m = HwInfo => ~Has(q, m)) => Once(Append(q, HwInfo), m)
               /\ \A p : Led(q, p, m) /\ (p = HwInfo => Has(q, m)) => Led(Append(q, HwInfo), p, m)
               /\ Append(q, HwInfo) \in Seq(Orders)
    BY <2>1, PutBehind
  <2> QED
    BY <2>1, <2>2
<1>c. /\ toRouter' \in Seq(Orders)
      /\ \A m : Has(toRouter', m) <=> Has(toRouter, m) \/ m = x \/ m = HwInfo
      /\ \A m : Once(toRouter, m) /\ (m = x \/ m = HwInfo => ~Has(toRouter, m)) => Once(toRouter', m)
      /\ \A i \in Names : Led(toRouter, Packet(i), HwInfo) => Led(toRouter', Packet(i), HwInfo)
      /\ ~Has(toRouter, HwInfo) => Led(toRouter', HwInfo, Command("RTABLE"))
  <2>1. ~Has(toRouter, HwInfo) => Led(toRouter, HwInfo, x)
    BY DEF Has, Led
  <2> QED
    BY <1>a, <1>e, <1>f, <2>1
<1>d. /\ pc \notin BeforeOpen /\ ifs = <<>> /\ ~Has(toRouter, HwInfo)
      /\ \A m \in {Command("OPEN"), Command("OPEN_TEMPLATE")} : ~Has(toServer', m)
  <2> DEFINE a == Command("OPEN")
             b == Command("OPEN_TEMPLATE")
  <2>1. /\ Once(toServer, b) /\ ~(Has(toServer, a) /\ Has(toServer, b))
        /\ pc \notin BeforeOpen /\ ifs = <<>> /\ ~Has(toRouter, HwInfo)
    BY <1>b DEF OpenedOnce
  <2>2. ~Has(toServer', a) /\ ~Has(toServer', b)
    BY <1>b, <2>1, ToldTypes DEF Fewer
  <2> QED
    BY <2>1, <2>2
<1>2. SessionTypes'
  BY <1>1, <1>c DEF SessionTypes
<1>3. Authenticated'
  <2>1. /\ Has(toRouter', Request) => Has(toRouter, Request)
        /\ Once(toRouter', Request)
        /\ \A ok \in BOOLEAN : /\ Once(toRouter', Status(ok))
                               /\ Has(toRouter', Status(ok)) => Has(toRouter, Status(ok))
    BY <1>a, <1>c DEF Authenticated
  <2>2. /\ Has(toServer', Reply) => Has(toServer, Reply)
        /\ Once(toServer', Reply)
    BY <1>b, ToldTypes DEF Fewer, Authenticated
  <2>3. refused' = refused /\ pc' = pc /\ pc \notin {"start", "connect", "auth"}
    BY <1>1, <1>d DEF BeforeOpen
  <2>4. Authenticated
    OBVIOUS
  <2>5. \A ok \in BOOLEAN :
          Has(toRouter', Status(ok)) => (ok <=> ~refused') /\ ~Has(toServer', Reply)
    BY <2>1, <2>2 DEF Authenticated
  <2>6. refused' => ~Has(toServer', Reply)
    BY <2>2 DEF Authenticated
  <2>7. pc' \notin {"auth"} \cup Over => ~Has(toRouter', Request)
    BY <2>1, <2>3 DEF Authenticated
  <2>8. pc' \notin {"status"} \cup Over =>
          ~Has(toServer', Reply) /\ \A ok \in BOOLEAN : ~Has(toRouter', Status(ok))
    BY <2>1, <2>2, <2>3 DEF Authenticated
  <2> QED
    BY <2>1, <2>2, <2>3, <2>5, <2>6 DEF Authenticated
<1>4. OpenedOnce'
  BY <1>1, <1>b, <1>c, ToldTypes DEF OpenedOnce, Fewer
<1>5. PacketsLed'
  BY <1>1, <1>a, <1>c DEF PacketsLed
<1>6. TableLoaded'
  BY <1>1 DEF TableLoaded, GoodTable
<1>7. Bounded'
  BY <1>1, ThreadAssumption DEF Bounded
<1>8. EndsForAReason'
  BY <1>1 DEF EndsForAReason, GoodTable, options
<1> QED
  BY <1>2, <1>3, <1>4, <1>5, <1>6, <1>7, <1>8

-----------------------------------------------------------------------------
(* The invariant of the session *)

(* It holds at the start.                                                    *)
LEMMA SessionInit == Init => SessionInv
<1> SUFFICES ASSUME Init PROVE SessionInv
  OBVIOUS
<1>1. /\ pc = "start" /\ routes = NoTable /\ ifs = <<>> /\ ~ready /\ ~accepted /\ ~refused
      /\ toRouter = <<>> /\ toServer = <<>> /\ ~early /\ file \in Tables /\ ~tables
  BY DEF Init, InitSession
<1>2. <<>> \in Seq(Orders) /\ Len(<<>>) = 0 /\ Room \in Nat
  BY EmptySeq, ThreadAssumption
<1>3. SessionTypes
  BY <1>1, <1>2, FileTypes DEF SessionTypes, Places, BeforeOpen, Over
<1>4. Authenticated
  BY <1>1, NothingQueued DEF Authenticated, Over
<1>5. OpenedOnce
  BY <1>1, NothingQueued DEF OpenedOnce, BeforeOpen, Over
<1>6. PacketsLed
  BY <1>1, NothingQueued DEF PacketsLed
<1>7. TableLoaded
  BY <1>1 DEF TableLoaded
<1>8. Bounded
  BY <1>1, <1>2 DEF Bounded
<1>9. EndsForAReason
  BY <1>1 DEF EndsForAReason
<1> QED
  BY <1>3, <1>4, <1>5, <1>6, <1>7, <1>8, <1>9 DEF SessionInv

(* The server has read one of the three commands that it knows.              *)
LEMMA ServerAnswers ==
  ASSUME FramesInv, ServerRead, UNCHANGED tables
  PROVE  \/ /\ Answers(Reply)
            /\ \E ok \in BOOLEAN : toRouter' = toRouter \o <<Status(ok)>> /\ refused' = ~ok
         \/ /\ Answers(Command("OPEN")) /\ UNCHANGED refused
            /\ toRouter' = toRouter \o <<HwInfo>> \/ toRouter' = toRouter \o <<>>
         \/ /\ Answers(Command("OPEN_TEMPLATE")) /\ UNCHANGED refused
            /\ toRouter' = toRouter \o <<Command("RTABLE"), HwInfo>>
<1> DEFINE m == Head(toServer)
<1>1. toServer # <<>> /\ toServer' = Tail(toServer) /\ "type" \in DOMAIN m
  BY DEF ServerRead
<1>2. m \in Told
  BY <1>1, ServerTakes, PartsAndCommands
<1>3. m \in {Reply, Command("OPEN"), Command("OPEN_TEMPLATE")}
  BY <1>2 DEF Told, Reply
<1>4. Answers(m)
  BY <1>1 DEF ServerRead, Answers
<1>5. CASE m = Reply
  <2>1. m.type = "AUTH_REPLY"
    BY <1>5, ToldTypes
  <2>2. \E ok \in BOOLEAN : toRouter' = toRouter \o <<Status(ok)>> /\ refused' = ~ok
    BY <2>1 DEF ServerRead, Send, Status
  <2> QED
    BY <1>4, <1>5, <2>2
<1>6. CASE m = Command("OPEN")
  <2>1. m.type = "OPEN"
    BY <1>6, ToldTypes
  <2>2. UNCHANGED refused /\ toRouter' = toRouter \o (IF known THEN <<HwInfo>> ELSE <<>>)
    BY <2>1 DEF ServerRead, Send
  <2> QED
    BY <1>4, <1>6, <2>2
<1>7. CASE m = Command("OPEN_TEMPLATE")
  <2>1. m.type = "OPEN_TEMPLATE"
    BY <1>7, ToldTypes
  <2>2. UNCHANGED refused /\ toRouter' = toRouter \o <<Command("RTABLE"), HwInfo>>
    BY <2>1 DEF ServerRead, Send
  <2> QED
    BY <1>4, <1>7, <2>2
<1> QED
  BY <1>3, <1>5, <1>6, <1>7

(* And its answer keeps the invariant.                                       *)
LEMMA AnswerKeeps ==
  ASSUME SessionInv, FramesInv, ServerRead, UNCHANGED tables
  PROVE  SessionInv'
<1>1. toRouter \o <<>> = toRouter
  BY DEF SessionInv, SessionTypes
<1>2. ASSUME Answers(Reply), NEW ok \in BOOLEAN, toRouter' = toRouter \o <<Status(ok)>>,
             refused' = ~ok
      PROVE  SessionInv'
  BY <1>2, StatusSent
<1>3. CASE Answers(Command("OPEN")) /\ UNCHANGED refused /\ toRouter' = toRouter \o <<HwInfo>>
  BY <1>3, OpenAnswered
<1>4. CASE Answers(Command("OPEN")) /\ UNCHANGED refused /\ toRouter' = toRouter
  BY <1>4, OpenIgnored
<1>5. CASE /\ Answers(Command("OPEN_TEMPLATE")) /\ UNCHANGED refused
           /\ toRouter' = toRouter \o <<Command("RTABLE"), HwInfo>>
  BY <1>5, TemplateAnswered
<1> HIDE DEF Answers
<1> QED
  BY <1>1, <1>2, <1>3, <1>4, <1>5, ServerAnswers

(* Every step of main, of the other threads and of the server keeps it.      *)
LEMMA SessionStep == SessionInv /\ FramesInv /\ BootInv /\ [Next]_vars => SessionInv'
<1> SUFFICES ASSUME SessionInv, FramesInv, BootInv, [Next]_vars PROVE SessionInv'
  OBVIOUS
<1>1. CASE Main
  <2>1. Handshake \/ Dispatch
    BY <1>1 DEF Main
  <2>2. UNCHANGED tables
    BY <1>1 DEF Main, threads
  <2>3. CASE Handshake
    <3>1. LoadFirst => LoadRt("start", "connect")
      BY DEF LoadFirst
    <3>2. LoadSecond => LoadRt("load", "init")
      BY DEF LoadSecond
    <3> QED
      BY <2>2, <2>3, <3>1, <3>2, SkipKeeps, LoadFirstKeeps, LoadSecondKeeps,
         ConnectKeeps,
         UnexpectedKeeps, RequestKeeps, StatusKeeps, OpenKeeps, RtableKeeps, Zenon DEF Handshake
  <2>4. CASE Dispatch
    BY <2>2, <2>4, HwinfoKeeps, CloseKeeps, LostKeeps, Zenon DEF Dispatch
  <2> QED
    BY <2>1, <2>3, <2>4
<1>2. CASE SrInit
  BY <1>2, InitKeeps
<1>3. CASE HandlePacket
  <2>1. PacketRead /\ UNCHANGED tables
    BY <1>3 DEF HandlePacket
  <2> QED
    BY <2>1, PacketKeeps
<1>4. ASSUME NEW t \in Threads, Round(t) \/ Acquire(t) \/ Release(t) PROVE SessionInv'
  <2>1. UNCHANGED <<session, tables>>
    BY <1>4 DEF Round, Acquire, Release
  <2> QED
    BY <2>1, RestKeeps
<1>5. ASSUME NEW t \in Threads, SendPacket(t) PROVE SessionInv'
  BY <1>5, FrameKeeps
<1>6. ASSUME NEW t \in Threads, SendFails(t) \/ RoundFaults(t) PROVE SessionInv'
  BY <1>6, FailKeeps, RoundFaultsKeeps
<1>7. CASE ServerReadFrame
  BY <1>7, ReadFrameKeeps
<1>8. CASE Server /\ UNCHANGED <<threads, partial>>
  <2>1. UNCHANGED tables
    BY <1>8 DEF threads
  <2>2. RouterInfo \/ Stop => SessionInv'
    BY <2>1, InfoKeeps
  <2>3. ServerRead \/ Broadcast \/ SayClose => SessionInv'
    BY <2>1, AnswerKeeps, BroadcastKeeps, SayCloseKeeps
  <2> QED
    BY <1>8, <2>2, <2>3, Zenon DEF Server
<1>9. CASE UNCHANGED vars
  <2>1. UNCHANGED <<session, tables>>
    BY <1>9 DEF vars, threads
  <2> QED
    BY <2>1, RestKeeps
<1>10. CASE PacketFaults
  BY <1>10, PacketFaultsKeeps
<1> QED
  BY <1>1, <1>2, <1>3, <1>4, <1>5, <1>6, <1>7, <1>8, <1>9, <1>10, Zenon DEF Next

(* The invariant of the session together with those it leans on.             *)
LEMMA SessionHolds == Spec => [](SessionInv /\ LocksInv /\ BootInv)
<1>1. Spec => []LocksInv
  BY LocksInit, LocksStep, PTL DEF Spec
<1>2. Init => BootInv
  BY BootInit
<1>3. Init => FramesInv
  BY FramesInit
<1>4. Init /\ []LocksInv /\ [][Next]_vars => [](SessionInv /\ BootInv /\ FramesInv)
  BY <1>2, <1>3, SessionInit, SessionStep, BootStep, FramesStep, PTL
<1> QED
  BY <1>1, <1>4, PTL DEF Spec

-----------------------------------------------------------------------------
(* Every state of the three threads has its type: the lists of interfaces    *)
(* and routes, the locks with their depths, and the room in the socket.      *)
THEOREM ThreadsHaveTypes == Spec => []TypeOK
<1>1. SessionInv /\ LocksInv /\ BootInv => TypeOK
  <2> SUFFICES ASSUME SessionInv, LocksInv, BootInv PROVE TypeOK
    OBVIOUS
  <2>1. /\ pc \in Places /\ routes \in Seq(STRING) /\ ifs \in {<<>>, Hardware}
        /\ Len(toServer) <= Room + 2
    BY DEF SessionInv, SessionTypes, Bounded
  <2>2. \A l \in DOMAIN ifs : ifs[l].name \in Names
    <3>1. \A l \in DOMAIN Hardware : Hardware[l].name \in Names
      BY FileTypes
    <3>2. ifs = <<>> => DOMAIN ifs = {}
      OBVIOUS
    <3> QED
      BY <2>1, <3>1, <3>2
  <2>3. /\ holder \in [Locks -> Threads \cup {"none"}] /\ depth \in [Locks -> 0 .. 3]
        /\ \A l \in Locks : (depth[l] = 0) = (holder[l] = "none")
        /\ started \subseteq Threads
    BY DEF LocksInv, BootInv
  <2> QED
    BY <2>1, <2>2, <2>3 DEF TypeOK, Places, BeforeOpen
<1> QED
  BY <1>1, SessionHolds, PTL

(* Once HWINFO has been accepted the list of the interfaces is the server's, *)
(* each with its own addresses although the setters work on "the last        *)
(* interface", and every route of the table that was loaded leads to one of  *)
(* them: sr_handle_hwinfo starts with an empty list and comes once.          *)
THEOREM HardwareIsKnown == Spec => []ReadyMeansKnown
<1>1. SessionInv => ReadyMeansKnown
  BY DEF SessionInv, SessionTypes, ReadyMeansKnown
<1> QED
  BY <1>1, SessionHolds, PTL

(* Unless a handler or a round faults, the router ends only for a reason     *)
(* outside of it: a file that is not there, not good or not writable, a      *)
(* server that refuses, dismisses or leaves it, or a packet broadcast before *)
(* the interfaces were told, which alone crashes it.                         *)
THEOREM EndsAreExplained == Spec => []EndsForAReason
<1>1. SessionInv => EndsForAReason
  BY DEF SessionInv
<1> QED
  BY <1>1, SessionHolds, PTL
=============================================================================
